---------------------------- MODULE MC_Campaign ----------------------------
(* One campaign over a few addresses, two runs of it at once.               *)
EXTENDS Campaign, TLC

Alike == Permutations(Addresses) \cup Permutations(Runs)
=============================================================================
