---------------------------- MODULE MC_JobBooking ----------------------------
(* Instances of JobBooking for TLC: jobs of one and of two days.           *)
EXTENDS JobBooking, TLC

CONSTANTS d1, d2
BlocksOf == {{d1}, {d2}, {d1, d2}}
Symmetric == Permutations(Workers) \cup Permutations(Events) \cup Permutations(Jobs)
             \cup Permutations(Days)
=============================================================================
