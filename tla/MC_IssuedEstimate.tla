------------------------- MODULE MC_IssuedEstimate -------------------------
(* Instances of IssuedEstimate for TLC: row ids and requests are           *)
(* interchangeable.                                                        *)
EXTENDS IssuedEstimate, TLC

SymmetricRows == Permutations(Rows)
Symmetric == Permutations(Workers) \cup SymmetricRows
=============================================================================
