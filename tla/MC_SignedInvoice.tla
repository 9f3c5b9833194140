-------------------------- MODULE MC_SignedInvoice --------------------------
(* Instances of SignedInvoice for TLC.                                     *)
EXTENDS SignedInvoice, TLC

Symmetric == Permutations(Docs) \cup Permutations(Drafts) \cup Permutations(Jobs)
=============================================================================
