---------------------------- MODULE SignatureFate ----------------------------
(***************************************************************************)
(* What the phone and the office promise about a signature drawn on the    *)
(* phone, with no queue, network or retry in it.  The office writes one    *)
(* signature on an estimate, and only while the phone still holds that     *)
(* capture; the phone says "recorded" only of the one the office wrote,    *)
(* and "refused" only of one it did not.                                   *)
(***************************************************************************)
CONSTANTS
  Captures,  \* signatures drawn on the phone
  Of,        \* the estimate each was drawn for
  Nobody,    \* no signature yet
  Other      \* a signature that did not come from this phone

VARIABLES
  fate,      \* what the phone says of each capture
  signer     \* whose signature the office has on each estimate

Estimates == {Of[c] : c \in Captures}

Init ==
  /\ fate = [c \in Captures |-> "none"]
  /\ signer = [e \in Estimates |-> Nobody]

Becomes(c, f) == fate' = [fate EXCEPT ![c] = f] /\ UNCHANGED signer

\* The customer signs on the phone.
Take(c) == fate[c] = "none" /\ Becomes(c, "held")

\* The office writes the signature on the estimate.
Sign(c) ==
  /\ fate[c] = "held" /\ signer[Of[c]] = Nobody
  /\ signer' = [signer EXCEPT ![Of[c]] = c]
  /\ UNCHANGED fate

\* It takes one through another door.
SignElsewhere(e) ==
  /\ signer[e] = Nobody
  /\ signer' = [signer EXCEPT ![e] = Other]
  /\ UNCHANGED fate

\* The phone learns that its capture was written, or that it never will be.
Record(c) == fate[c] = "held" /\ signer[Of[c]] = c /\ Becomes(c, "recorded")
Refuse(c) == fate[c] = "held" /\ signer[Of[c]] # c /\ Becomes(c, "refused")

\* The technician cancels or dismisses it.
Withdraw(c) == fate[c] \in {"held", "refused"} /\ Becomes(c, "withdrawn")

\* A request still out when it was withdrawn signs.
SignWithdrawn(c) ==
  /\ fate[c] = "held" /\ signer[Of[c]] = Nobody
  /\ signer' = [signer EXCEPT ![Of[c]] = c]
  /\ fate' = [fate EXCEPT ![c] = "withdrawn"]

Next ==
  \/ \E c \in Captures : Take(c) \/ Sign(c) \/ SignWithdrawn(c) \/ Record(c) \/ Refuse(c) \/ Withdraw(c)
  \/ \E e \in Estimates : SignElsewhere(e)

Spec == Init /\ [][Next]_<<fate, signer>>
=============================================================================
