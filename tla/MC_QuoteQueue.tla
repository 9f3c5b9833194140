---------------------------- MODULE MC_QuoteQueue ----------------------------
(* Instances of QuoteQueue for TLC.                                         *)
EXTENDS QuoteQueue

Symmetric == Permutations(Lines) \cup Permutations(Values)
=============================================================================
