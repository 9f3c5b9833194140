------------------------------ MODULE MC_Payroll ------------------------------
(* Instances of Payroll for TLC.                                           *)
EXTENDS Payroll, TLC

Symmetric == Permutations(Shifts) \cup Permutations(Sessions) \cup Permutations(Visits)
=============================================================================
