--------------------------- MODULE MC_InvoiceMoney ---------------------------
(* Instances of InvoiceMoney for TLC.                                      *)
EXTENDS InvoiceMoney, TLC

Symmetric == Permutations(Fees) \cup Permutations(Payments) \cup Permutations(Workers)
=============================================================================
