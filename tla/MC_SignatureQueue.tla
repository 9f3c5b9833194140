------------------------- MODULE MC_SignatureQueue -------------------------
(* An instance of SignatureQueue for TLC: two captures for one estimate.   *)
EXTENDS SignatureQueue

CONSTANT e1
SameEstimate == <<e1, e1>>
=============================================================================
