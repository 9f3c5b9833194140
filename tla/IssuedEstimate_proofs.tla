----------------------- MODULE IssuedEstimate_proofs -----------------------
(***************************************************************************)
(* Proofs about IssuedEstimate, for every set of rows, requests, captures  *)
(* and open doors.                                                         *)
(***************************************************************************)
EXTENDS IssuedEstimate, TLAPS

(* Requests are well formed.                                               *)

LEMMA IdleType == Idle \in Request
BY DEF Idle, Request, AllDoors, Statuses, Channels

LEMMA ServeType ==
  ASSUME TypeOK, NEW w \in Workers, NEW r \in Request
  PROVE  [req EXCEPT ![w] = r] \in [Workers -> Request]
BY DEF TypeOK

LEMMA AnswerType ==
  ASSUME TypeOK, NEW w \in Workers, Answer(w)
  PROVE  req' \in [Workers -> Request]
BY IdleType, ServeType DEF Answer, Serve

\* Only the request of the serving worker changes, to a well-formed request,
\* and no row does.
LEMMA ReadStep ==
  ASSUME TypeOK, NEW w \in Workers, NEW r \in Request, Serve(w, r), UNCHANGED rowVars
  PROVE  TypeOK'
<1>1. req' \in [Workers -> Request]
  BY ServeType DEF Serve
<1> QED
  BY <1>1 DEF TypeOK, rowVars, identity, marks

LEMMA ReadingType ==
  ASSUME NEW door \in AllDoors, NEW e \in Rows
  PROVE  Reading(door, e) \in Request
BY DEF Reading, Idle, Request, AllDoors, Statuses, Channels

LEMMA KeepingType ==
  ASSUME NEW door \in AllDoors, NEW e \in Rows, NEW s \in Statuses
  PROVE  Keeping(door, e, s) \in Request
BY DEF Keeping, Reading, Idle, Request, AllDoors, Statuses, Channels

LEMMA RevisingType ==
  ASSUME TypeOK, NEW door \in AllDoors, NEW e \in Rows
  PROVE  Revising(door, e) \in Request
BY DEF TypeOK, Revising, Reading, Idle, Request, AllDoors, Statuses, Channels

LEMMA ReopenedType ==
  ASSUME NEW e PROVE ReopenedStatus(e) \in Statuses
BY DEF ReopenedStatus, Statuses

-----------------------------------------------------------------------------
(* Type correctness.                                                       *)

LEMMA InitType == Init => TypeOK
BY IdleType DEF Init, TypeOK, Statuses, Channels

LEMMA IssueType ==
  ASSUME TypeOK, NEW w \in Workers, IssueStep(w)
  PROVE  TypeOK'
<1>r. req[w] \in Request
  BY DEF TypeOK
<1>1. ASSUME NEW d \in Drafts, IssueFirst(w, d)
      PROVE  TypeOK'
  <2> DEFINE r == [Idle EXCEPT !.door = "issue", !.draft = d]
  <2>1. r \in Request
    BY DEF Idle, Request, AllDoors, Statuses, Channels
  <2> QED
    BY <1>1, <2>1, ReadStep DEF IssueFirst
<1>2. ASSUME NEW d \in Drafts, Reissue(w, d)
      PROVE  TypeOK'
  <2>1. PICK e \in LiveEstimate(d) : Serve(w, Revising("reissue", e))
    BY <1>2 DEF Reissue
  <2>2. e \in Rows
    BY DEF LiveEstimate, LiveOfDraft, TypeOK
  <2>3. Revising("reissue", e) \in Request
    BY <2>2, RevisingType DEF AllDoors
  <2> QED
    BY <1>2, <2>1, <2>3, ReadStep DEF Reissue
<1>3. ASSUME NEW e \in Rows, Revise(w, e)
      PROVE  TypeOK'
  <2>1. Revising("revise", e) \in Request
    BY RevisingType DEF AllDoors
  <2> QED
    BY <1>3, <2>1, ReadStep DEF Revise
<1>4. CASE Graduate(w)
  <2>1. PICK e \in Rows \ used, n \in 1..MaxNumber :
          /\ rows' = rows \cup {e} /\ used' = used \cup {e}
          /\ draftOf' = [draftOf EXCEPT ![e] = req[w].draft]
          /\ number' = [number EXCEPT ![e] = n]
          /\ revision' = [revision EXCEPT ![e] = 1]
          /\ IF req[w].row = NoRow THEN Answer(w)
             ELSE Serve(w, [req[w] EXCEPT !.made = e])
    BY <1>4 DEF Graduate
  <2>2. req' \in [Workers -> Request]
    <3>1. [req[w] EXCEPT !.made = e] \in Request
      BY <1>r DEF Request
    <3> QED
      BY <2>1, <3>1, AnswerType, ServeType DEF Serve
  <2>3. n \in Nat
    BY MaxNumberAssumption
  <2>4. req[w].draft \in Drafts \cup {NoRow}
    BY <1>r DEF Request
  <2> QED
    BY <1>4, <2>1, <2>2, <2>3, <2>4 DEF Graduate, TypeOK, marks
<1>5. CASE Link(w)
  <2>1. req[w].made \in Rows \cup {NoRow} /\ req[w].row \in Rows /\ req[w].num \in Nat
          /\ req[w].rev + 1 \in Nat
    BY <1>5, <1>r DEF Request, Link, TypeOK
  <2> QED
    BY <1>5, <2>1, AnswerType DEF Link, TypeOK, marks
<1>6. CASE Rollback(w)
  BY <1>6, AnswerType DEF Rollback, Unlinked, TypeOK, marks
<1>7. CASE LeaveOrphan(w)
  BY <1>7, AnswerType DEF LeaveOrphan, TypeOK, rowVars, identity, marks
<1> QED
  BY <1>1, <1>2, <1>3, <1>4, <1>5, <1>6, <1>7 DEF IssueStep

LEMMA OfferType ==
  ASSUME TypeOK, NEW w \in Workers, OfferStep(w)
  PROVE  TypeOK'
<1>r. req[w] \in Request
  BY DEF TypeOK
<1>1. ASSUME NEW e \in Rows, SendRead(w, e)
      PROVE  TypeOK'
  <2>1. Keeping("send", e, status[e]) \in Request
    BY KeepingType DEF AllDoors, TypeOK
  <2> QED
    BY <1>1, <2>1, ReadStep DEF SendRead
<1>2. ASSUME NEW e \in Rows, ViewRead(w, e)
      PROVE  TypeOK'
  <2>1. Keeping("view", e, status[e]) \in Request
    BY KeepingType DEF AllDoors, TypeOK
  <2> QED
    BY <1>2, <2>1, ReadStep DEF ViewRead
<1>3. CASE SendWrite(w)
  <2>1. req[w].saw \in Statuses /\ "sent" \in Statuses
    BY <1>r DEF Request, Statuses
  <2> QED
    BY <1>3, <2>1, AnswerType DEF SendWrite, TypeOK, identity, marks
<1>4. CASE ViewWrite(w)
  <2>1. req[w].saw \in Statuses /\ "viewed" \in Statuses
    BY <1>r DEF Request, Statuses
  <2> QED
    BY <1>4, <2>1, AnswerType DEF ViewWrite, TypeOK, identity
<1> QED
  BY <1>1, <1>2, <1>3, <1>4 DEF OfferStep

LEMMA SignType ==
  ASSUME TypeOK, NEW w \in Workers, SignStep(w)
  PROVE  TypeOK'
<1>r. req[w] \in Request
  BY DEF TypeOK
<1>1. ASSUME NEW e \in Rows, NEW via \in {"email", "in_person"},
             NEW c \in Captures \cup {NoCapture}, SignRead(w, e, via, c)
      PROVE  TypeOK'
  <2>1. [Reading("sign", e) EXCEPT !.via = via, !.cap = c] \in Request
    BY DEF Reading, Idle, AllDoors, Request, Channels, Statuses
  <2> QED
    BY <1>1, <2>1, ReadStep DEF SignRead
<1>2. ASSUME NEW e \in Rows, AcceptRead(w, e)
      PROVE  TypeOK'
  <2>1. [Reading("sign", e) EXCEPT !.via = "office"] \in Request
    BY DEF Reading, Idle, AllDoors, Request, Channels, Statuses
  <2> QED
    BY <1>2, <2>1, ReadStep DEF AcceptRead
<1>3. ASSUME NEW e \in Rows, UnacceptRead(w, e)
      PROVE  TypeOK'
  <2>1. Keeping("unaccept", e, ReopenedStatus(e)) \in Request
    BY KeepingType, ReopenedType DEF AllDoors
  <2> QED
    BY <1>3, <2>1, ReadStep DEF UnacceptRead
<1>4. CASE SignWrite(w)
  <2> DEFINE e == req[w].row
  <2>1. e \in Rows /\ req[w].via \in Channels \cup {"no"} /\ req[w].cap \in Captures \cup {NoCapture}
    BY <1>4, <1>r DEF SignWrite, Signable, Request, TypeOK
  <2>2. Replaced(e) \subseteq Rows
    BY DEF Replaced, Replaces
  <2>3. req' \in [Workers -> Request]
    <3>1. [Idle EXCEPT !.door = "signed", !.row = e] \in Request
      BY <2>1 DEF Idle, Request, AllDoors, Statuses, Channels
    <3> QED
      BY <1>4, <3>1, ServeType DEF SignWrite, Serve
  <2>4. signed' \in [Rows -> Channels \cup {"no"}]
    BY <1>4, <2>1 DEF SignWrite, TypeOK
  <2>5. status' \in [Rows -> Statuses]
    <3>1. \A r \in Rows : (IF r = e THEN "signed"
             ELSE IF r \in Replaced(e) THEN "void" ELSE status[r]) \in Statuses
      BY DEF TypeOK, Statuses
    <3> QED
      BY <1>4, <3>1 DEF SignWrite
  <2>6. capture' \in [Rows -> Captures \cup {NoCapture}]
    BY <1>4, <2>1 DEF SignWrite, TypeOK
  <2>7. voided' \subseteq Rows /\ archived' \subseteq Rows /\ tookOver' \subseteq Rows
    BY <1>4, <2>1, <2>2 DEF SignWrite, TypeOK
  <2> QED
    BY <1>4, <2>3, <2>4, <2>5, <2>6, <2>7 DEF SignWrite, TypeOK, identity
<1>5. CASE UnacceptWrite(w)
  <2>1. req[w].saw \in Statuses
    BY <1>r DEF Request
  <2> QED
    BY <1>5, <2>1, AnswerType DEF UnacceptWrite, TypeOK, identity, marks
<1>6. CASE CompeteRead(w)
  <2>1. PICK F \in SUBSET Competing(req[w].row) :
          Serve(w, [req[w] EXCEPT !.door = "compete", !.found = F])
    BY <1>6 DEF CompeteRead
  <2>2. F \subseteq Rows
    BY DEF Competing, TypeOK
  <2>3. [req[w] EXCEPT !.door = "compete", !.found = F] \in Request
    BY <1>r, <2>2 DEF Request, AllDoors
  <2> QED
    BY <1>6, <2>1, <2>3, ReadStep DEF CompeteRead
<1>7. CASE CompeteWrite(w)
  <2>1. req[w].found \subseteq Rows
    BY <1>r DEF Request
  <2> QED
    BY <1>7, <2>1, AnswerType DEF CompeteWrite, TypeOK, identity
<1> QED
  BY <1>1, <1>2, <1>3, <1>4, <1>5, <1>6, <1>7 DEF SignStep

LEMMA ExitReadType ==
  ASSUME TypeOK, NEW w \in Workers, NEW e \in Rows,
         \/ VoidRead(w, e) \/ LostRead(w, e) \/ ReopenRead(w, e)
         \/ ArchiveRead(w, e) \/ UnarchiveRead(w, e) \/ DeleteRead(w, e)
  PROVE  TypeOK'
<1>1. Keeping("reopen", e, ReopenedStatus(e)) \in Request
  BY KeepingType, ReopenedType DEF AllDoors
<1>2. \A d \in AllDoors : Reading(d, e) \in Request
  BY ReadingType
<1>3. PICK r \in Request : Serve(w, r) /\ UNCHANGED rowVars
  BY <1>1, <1>2 DEF VoidRead, LostRead, ReopenRead, ArchiveRead, UnarchiveRead,
                    DeleteRead, AllDoors
<1> QED
  BY <1>3, ReadStep

LEMMA ExitType ==
  ASSUME TypeOK, NEW w \in Workers, ExitStep(w)
  PROVE  TypeOK'
<1>r. req[w] \in Request
  BY DEF TypeOK
<1>1. ASSUME NEW e \in Rows,
             \/ VoidRead(w, e) \/ LostRead(w, e) \/ ReopenRead(w, e)
             \/ ArchiveRead(w, e) \/ UnarchiveRead(w, e) \/ DeleteRead(w, e)
      PROVE  TypeOK'
  BY <1>1, ExitReadType
<1>2. CASE SweepRead(w)
  <2>1. [Idle EXCEPT !.door = "sweep", !.found = Expiring] \in Request
    BY DEF Idle, Request, AllDoors, Statuses, Channels, Expiring, TypeOK
  <2> QED
    BY <1>2, <2>1, ReadStep DEF SweepRead
<1>3. CASE VoidWrite(w)
  BY <1>3, <1>r, AnswerType DEF VoidWrite, Request, Statuses, TypeOK, identity
<1>4. CASE LostWrite(w)
  BY <1>4, <1>r, AnswerType DEF LostWrite, Request, Statuses, TypeOK, identity
<1>5. CASE ReopenWrite(w)
  <2>1. req[w].saw \in Statuses
    BY <1>r DEF Request
  <2> QED
    BY <1>5, <2>1, AnswerType DEF ReopenWrite, TypeOK, identity
<1>6. CASE ArchiveWrite(w)
  BY <1>6, AnswerType DEF ArchiveWrite, TypeOK, identity
<1>7. CASE UnarchiveWrite(w)
  BY <1>7, AnswerType DEF UnarchiveWrite, TypeOK, identity
<1>8. CASE DeleteWrite(w)
  BY <1>8, AnswerType DEF DeleteWrite, Unlinked, TypeOK, marks
<1>9. CASE SweepWrite(w)
  BY <1>9, AnswerType DEF SweepWrite, Statuses, TypeOK, identity, marks
<1> QED
  BY <1>1, <1>2, <1>3, <1>4, <1>5, <1>6, <1>7, <1>8, <1>9 DEF ExitStep

LEMMA TypeStep ==
  ASSUME TypeOK, [Next]_vars
  PROVE  TypeOK'
<1>1. ASSUME NEW w \in Workers,
             IssueStep(w) \/ OfferStep(w) \/ SignStep(w) \/ ExitStep(w)
      PROVE  TypeOK'
  BY <1>1, IssueType, OfferType, SignType, ExitType
<1>2. ASSUME NEW w \in Workers, Abandon(w)
      PROVE  TypeOK'
  BY <1>2, AnswerType DEF Abandon, TypeOK, rowVars, identity, marks
<1>3. ASSUME NEW e \in Rows, Lapse(e)
      PROVE  TypeOK'
  BY <1>3 DEF Lapse, TypeOK, identity, marks
<1>4. CASE UNCHANGED vars
  BY <1>4 DEF vars, rowVars, identity, marks, TypeOK
<1> QED
  BY <1>1, <1>2, <1>3, <1>4 DEF Next

\* Every reachable state is well typed: in particular a status is one of the
\* seven, and every row of the table has an id that was given out.
THEOREM TypeCorrect == Spec => []TypeOK
BY InitType, TypeStep, PTL DEF Spec

-----------------------------------------------------------------------------
(* What each group of steps leaves alone.                                  *)

LEMMA IssueFrame ==
  ASSUME NEW w \in Workers, IssueStep(w)
  PROVE  UNCHANGED <<status, signed, capture, marks, lapsed>>
BY DEF IssueStep, IssueFirst, Reissue, Revise, Graduate, Link, Rollback, LeaveOrphan,
       rowVars

LEMMA OfferFrame ==
  ASSUME NEW w \in Workers, OfferStep(w)
  PROVE  UNCHANGED <<identity, signed, capture, voided, lost, archived, kept, tookOver, lapsed>>
BY DEF OfferStep, SendRead, ViewRead, SendWrite, ViewWrite, rowVars, marks

LEMMA ExitFrame ==
  ASSUME NEW w \in Workers, ExitStep(w)
  PROVE  UNCHANGED <<used, draftOf, number, revision, signed, capture, viewed, tookOver, lapsed>>
BY DEF ExitStep, VoidRead, LostRead, ReopenRead, ArchiveRead, UnarchiveRead, DeleteRead,
       SweepRead, VoidWrite, LostWrite, ReopenWrite, ArchiveWrite, UnarchiveWrite,
       DeleteWrite, SweepWrite, rowVars, identity, marks

LEMMA SignFrame ==
  ASSUME NEW w \in Workers, SignStep(w)
  PROVE  UNCHANGED <<identity, viewed, lost, kept, lapsed>>
BY DEF SignStep, SignRead, AcceptRead, UnacceptRead, SignWrite, UnacceptWrite,
       CompeteRead, CompeteWrite, rowVars, marks

\* A step of one request leaves the others as they were.
LEMMA ServesOne ==
  ASSUME TypeOK, NEW w \in Workers, NEW v \in Workers, v # w,
         IssueStep(w) \/ OfferStep(w) \/ SignStep(w) \/ ExitStep(w) \/ Abandon(w)
  PROVE  req'[v] = req[v]
<1>1. ASSUME NEW r, Serve(w, r) PROVE req'[v] = req[v]
  BY <1>1 DEF Serve, TypeOK
<1>2. CASE IssueStep(w)
  BY <1>1, <1>2 DEF IssueStep, IssueFirst, Reissue, Revise, Graduate, Link, Rollback,
     LeaveOrphan, Answer
<1>3. CASE OfferStep(w)
  BY <1>1, <1>3 DEF OfferStep, SendRead, ViewRead, SendWrite, ViewWrite, Answer
<1>4. CASE SignStep(w)
  BY <1>1, <1>4 DEF SignStep, SignRead, AcceptRead, UnacceptRead, SignWrite, UnacceptWrite,
     CompeteRead, CompeteWrite, Answer
<1>5. CASE ExitStep(w)
  BY <1>1, <1>5 DEF ExitStep, VoidRead, LostRead, ReopenRead, ArchiveRead, UnarchiveRead,
     DeleteRead, SweepRead, VoidWrite, LostWrite, ReopenWrite, ArchiveWrite,
     UnarchiveWrite, DeleteWrite, SweepWrite, Answer
<1>6. CASE Abandon(w)
  BY <1>1, <1>6 DEF Abandon, Answer
<1> QED
  BY <1>2, <1>3, <1>4, <1>5, <1>6

LEMMA DoorOf ==
  ASSUME NEW door, NEW e, NEW s
  PROVE  /\ Reading(door, e).door = door
         /\ Keeping(door, e, s).door = door
         /\ Revising(door, e).door = door
BY DEF Reading, Keeping, Revising, Idle

\* A request is at a door that is open, or past its signature.
LEMMA DoorOpen ==
  ASSUME TypeOK, NEW w \in Workers, NEW d, d \notin Doors,
         d \notin {"idle", "sign", "signed", "compete"}, req[w].door # d,
         IssueStep(w) \/ OfferStep(w) \/ SignStep(w) \/ ExitStep(w) \/ Abandon(w)
  PROVE  req'[w].door # d
<1>r. req[w] \in Request
  BY DEF TypeOK
<1>s. ASSUME NEW r, Serve(w, r), r.door # d PROVE req'[w].door # d
  BY <1>s DEF Serve, TypeOK
<1>a. ASSUME Answer(w) PROVE req'[w].door # d
  BY <1>a, <1>s DEF Answer, Idle
<1>e. ASSUME NEW door \in Doors, NEW e, NEW s,
             \/ Serve(w, Reading(door, e)) \/ Serve(w, Keeping(door, e, s))
             \/ Serve(w, Revising(door, e))
      PROVE  req'[w].door # d
  <2>1. Reading(door, e).door # d /\ Keeping(door, e, s).door # d /\ Revising(door, e).door # d
    BY DoorOf
  <2> QED
    BY <1>e, <2>1, <1>s
<1>1. CASE IssueStep(w)
  <2>1. CASE Graduate(w)
    <3>1. PICK e : IF req[w].row = NoRow THEN Answer(w) ELSE Serve(w, [req[w] EXCEPT !.made = e])
      BY <2>1 DEF Graduate
    <3>2. [req[w] EXCEPT !.made = e].door = req[w].door
      BY <1>r DEF Request
    <3> QED
      BY <3>1, <3>2, <1>a, <1>s
  <2>2. ASSUME NEW x \in Drafts, IssueFirst(w, x)
        PROVE  req'[w].door # d
    <3>1. [Idle EXCEPT !.door = "issue", !.draft = x].door = "issue"
      BY DEF Idle
    <3> QED
      BY <2>2, <3>1, <1>s DEF IssueFirst
  <2>3. ASSUME NEW x \in Drafts, Reissue(w, x)
        PROVE  req'[w].door # d
    BY <2>3, <1>e DEF Reissue
  <2>4. ASSUME NEW e \in Rows, Revise(w, e)
        PROVE  req'[w].door # d
    BY <2>4, <1>e DEF Revise
  <2> QED
    BY <1>1, <1>a, <2>1, <2>2, <2>3, <2>4 DEF IssueStep, Link, Rollback, LeaveOrphan
<1>2. CASE OfferStep(w)
  <2>1. ASSUME NEW e \in Rows, SendRead(w, e) \/ ViewRead(w, e)
        PROVE  req'[w].door # d
    BY <2>1, <1>e DEF SendRead, ViewRead
  <2> QED
    BY <1>2, <1>a, <2>1 DEF OfferStep, SendWrite, ViewWrite
<1>3. CASE SignStep(w)
  <2>1. ASSUME NEW e \in Rows, NEW via, NEW c, SignRead(w, e, via, c)
        PROVE  req'[w].door # d
    <3>1. [Reading("sign", e) EXCEPT !.via = via, !.cap = c].door = "sign"
      BY DEF Reading, Idle
    <3> QED
      BY <2>1, <3>1, <1>s DEF SignRead
  <2>2. ASSUME NEW e \in Rows, AcceptRead(w, e)
        PROVE  req'[w].door # d
    <3>1. [Reading("sign", e) EXCEPT !.via = "office"].door = "sign"
      BY DEF Reading, Idle
    <3> QED
      BY <2>2, <3>1, <1>s DEF AcceptRead
  <2>3. ASSUME NEW e \in Rows, UnacceptRead(w, e)
        PROVE  req'[w].door # d
    BY <2>3, <1>e DEF UnacceptRead
  <2>4. CASE SignWrite(w)
    <3>1. [Idle EXCEPT !.door = "signed", !.row = req[w].row].door = "signed"
      BY DEF Idle
    <3> QED
      BY <2>4, <3>1, <1>s DEF SignWrite
  <2>5. CASE CompeteRead(w)
    <3>1. PICK F : Serve(w, [req[w] EXCEPT !.door = "compete", !.found = F])
      BY <2>5 DEF CompeteRead
    <3>2. [req[w] EXCEPT !.door = "compete", !.found = F].door = "compete"
      BY <1>r DEF Request
    <3> QED
      BY <3>1, <3>2, <1>s
  <2> QED
    BY <1>3, <1>a, <2>1, <2>2, <2>3, <2>4, <2>5 DEF SignStep, UnacceptWrite, CompeteWrite
<1>4. CASE ExitStep(w)
  <2>1. ASSUME NEW e \in Rows,
               \/ VoidRead(w, e) \/ LostRead(w, e) \/ ReopenRead(w, e)
               \/ ArchiveRead(w, e) \/ UnarchiveRead(w, e) \/ DeleteRead(w, e)
        PROVE  req'[w].door # d
    BY <2>1, <1>e DEF VoidRead, LostRead, ReopenRead, ArchiveRead, UnarchiveRead,
       DeleteRead
  <2>2. CASE SweepRead(w)
    <3>1. [Idle EXCEPT !.door = "sweep", !.found = Expiring].door = "sweep"
      BY DEF Idle
    <3> QED
      BY <2>2, <3>1, <1>s DEF SweepRead
  <2> QED
    BY <1>4, <1>a, <2>1, <2>2 DEF ExitStep, VoidWrite, LostWrite, ReopenWrite, ArchiveWrite,
       UnarchiveWrite, DeleteWrite, SweepWrite
<1>5. CASE Abandon(w)
  BY <1>5, <1>a DEF Abandon
<1> QED
  BY <1>1, <1>2, <1>3, <1>4, <1>5

LEMMA SignStepSigned ==
  ASSUME NEW w \in Workers, SignStep(w)
  PROVE  SignWrite(w) \/ UnacceptWrite(w) \/ UNCHANGED <<signed, capture>>
BY DEF SignStep, SignRead, AcceptRead, UnacceptRead, CompeteRead, CompeteWrite, rowVars

\* Only the signature's own write and the undo touch a signature.
LEMMA SignatureWriters ==
  ASSUME [Next]_vars
  PROVE  \/ UNCHANGED <<signed, capture>>
         \/ \E w \in Workers : SignWrite(w) \/ UnacceptWrite(w)
<1>1. ASSUME NEW w \in Workers, IssueStep(w) PROVE UNCHANGED <<signed, capture>>
  BY <1>1, IssueFrame
<1>2. ASSUME NEW w \in Workers, OfferStep(w) PROVE UNCHANGED <<signed, capture>>
  BY <1>2, OfferFrame
<1>3. ASSUME NEW w \in Workers, ExitStep(w) PROVE UNCHANGED <<signed, capture>>
  BY <1>3, ExitFrame
<1>4. ASSUME NEW w \in Workers, Abandon(w) PROVE UNCHANGED <<signed, capture>>
  BY <1>4 DEF Abandon, rowVars
<1>5. ASSUME NEW e \in Rows, Lapse(e) PROVE UNCHANGED <<signed, capture>>
  BY <1>5 DEF Lapse
<1>6. CASE UNCHANGED vars
  BY <1>6 DEF vars, rowVars
<1> QED
  BY <1>1, <1>2, <1>3, <1>4, <1>5, <1>6, SignStepSigned DEF Next

-----------------------------------------------------------------------------
(* The signature's write.                                                  *)

\* A signature lands only on an offer that is open at that moment, for every
\* interleaving of every door: the WHERE of the update decides, not the read.
THEOREM SignatureSafe == Spec => SignatureLandsOnOpenOffer
<1>1. TypeOK /\ [Next]_vars =>
        [\A e \in rows : (~Signed(e) /\ signed'[e] # "no") =>
           status[e] \notin {"void", "lost"} /\ ~Superseded(e)]_vars
  <2> SUFFICES ASSUME TypeOK, [Next]_vars, NEW e \in rows, ~Signed(e), signed'[e] # "no"
               PROVE  status[e] \notin {"void", "lost"} /\ ~Superseded(e)
    OBVIOUS
  <2>1. CASE UNCHANGED <<signed, capture>>
    BY <2>1 DEF Signed
  <2>2. ASSUME NEW w \in Workers, SignWrite(w)
        PROVE  status[e] \notin {"void", "lost"} /\ ~Superseded(e)
    <3>1. e = req[w].row
      BY <2>2 DEF SignWrite, TypeOK, Signed
    <3> QED
      BY <2>2, <3>1 DEF SignWrite, Signable
  <2>3. ASSUME NEW w \in Workers, UnacceptWrite(w)
        PROVE  FALSE
    BY <2>3 DEF UnacceptWrite, TypeOK, Signed
  <2> QED
    BY <2>1, <2>2, <2>3, SignatureWriters
<1> QED
  BY <1>1, TypeCorrect, PTL DEF Spec, SignatureLandsOnOpenOffer

\* A recorded signature and the capture it came from are never overwritten.
THEOREM SignOnceSafe == Spec => SignOnce
<1>1. TypeOK /\ [Next]_vars =>
        [\A e \in rows : (Signed(e) /\ signed'[e] # "no") =>
           signed'[e] = signed[e] /\ (signed[e] # "office" => capture'[e] = capture[e])]_vars
  <2> SUFFICES ASSUME TypeOK, [Next]_vars, NEW e \in rows, Signed(e), signed'[e] # "no"
               PROVE  signed'[e] = signed[e] /\ capture'[e] = capture[e]
    OBVIOUS
  <2>1. CASE UNCHANGED <<signed, capture>>
    BY <2>1
  <2>2. ASSUME NEW w \in Workers, SignWrite(w)
        PROVE  signed'[e] = signed[e] /\ capture'[e] = capture[e]
    <3>1. e # req[w].row
      BY <2>2 DEF SignWrite, Signable
    <3> QED
      BY <2>2, <3>1 DEF SignWrite, TypeOK
  <2>3. ASSUME NEW w \in Workers, UnacceptWrite(w)
        PROVE  signed'[e] = signed[e] /\ capture'[e] = capture[e]
    BY <2>3 DEF UnacceptWrite, TypeOK
  <2> QED
    BY <2>1, <2>2, <2>3, SignatureWriters
<1> QED
  BY <1>1, TypeCorrect, PTL DEF Spec, SignOnce

-----------------------------------------------------------------------------
(* The revision chain.  NoFork and CaptureOnce range over the rows of the  *)
(* table; a row that joins it must bring no link and no capture, and a row *)
(* under construction must be one that was really created.                 *)

Unborn == \A e \in Rows \ used :
  /\ supersedes[e] = NoRow /\ capture[e] = NoCapture
  /\ signed[e] = "no" /\ status[e] = "draft"
  /\ e \notin voided \cup lost \cup archived

WellBuilt == \A w \in Workers :
  /\ req[w].made # NoRow => req[w].made \in used /\ req[w].door \in {"reissue", "revise"}
  /\ req[w].door = "issue" => req[w].row = NoRow

ChainInv == TypeOK /\ Unborn /\ WellBuilt /\ NoFork /\ CaptureOnce

LEMMA ChainInit == Init => ChainInv
BY InitType, NoRowAssumption DEF Init, ChainInv, Unborn, WellBuilt, NoFork, CaptureOnce, Idle

\* A request that serves well-formed work keeps WellBuilt.
LEMMA BuildingKept ==
  ASSUME TypeOK, WellBuilt, NEW w \in Workers, NEW r \in Request, Serve(w, r),
         r.made # NoRow => r.made \in used /\ r.door \in {"reissue", "revise"},
         r.door = "issue" => r.row = NoRow,
         used \subseteq used'
  PROVE  WellBuilt'
BY DEF TypeOK, WellBuilt, Serve

LEMMA BuildingAnswer ==
  ASSUME TypeOK, WellBuilt, NEW w \in Workers, Answer(w), used \subseteq used'
  PROVE  WellBuilt'
BY BuildingKept, IdleType DEF Answer, Idle

LEMMA IssueBuilding ==
  ASSUME TypeOK, WellBuilt, NEW w \in Workers, IssueStep(w)
  PROVE  WellBuilt'
<1>r. req[w] \in Request
  BY DEF TypeOK
<1>1. ASSUME NEW d \in Drafts, IssueFirst(w, d)
      PROVE  WellBuilt'
  <2> DEFINE r == [Idle EXCEPT !.door = "issue", !.draft = d]
  <2>1. r \in Request /\ r.made = NoRow /\ r.row = NoRow
    BY DEF Idle, Request, AllDoors, Statuses, Channels
  <2> QED
    BY <1>1, <2>1, BuildingKept DEF IssueFirst, rowVars, identity
<1>2. ASSUME NEW e \in Rows, NEW door \in {"reissue", "revise"},
             Serve(w, Revising(door, e)), UNCHANGED rowVars
      PROVE  WellBuilt'
  <2>1. Revising(door, e) \in Request
    BY RevisingType DEF AllDoors
  <2>2. Revising(door, e).made = NoRow /\ Revising(door, e).door = door
    BY DEF Revising, Reading, Idle
  <2> QED
    BY <1>2, <2>1, <2>2, BuildingKept DEF rowVars, identity
<1>3. ASSUME NEW d \in Drafts, Reissue(w, d)
      PROVE  WellBuilt'
  BY <1>2, <1>3 DEF Reissue, LiveEstimate, LiveOfDraft, TypeOK
<1>4. ASSUME NEW e \in Rows, Revise(w, e)
      PROVE  WellBuilt'
  BY <1>2, <1>4 DEF Revise
<1>5. CASE Graduate(w)
  <2>1. PICK e \in Rows \ used :
          /\ used' = used \cup {e}
          /\ IF req[w].row = NoRow THEN Answer(w)
             ELSE Serve(w, [req[w] EXCEPT !.made = e])
    BY <1>5 DEF Graduate
  <2>2. CASE req[w].row = NoRow
    BY <2>1, <2>2, BuildingAnswer
  <2>3. CASE req[w].row # NoRow
    <3> DEFINE r == [req[w] EXCEPT !.made = e]
    <3>1. r \in Request /\ r.made = e /\ r.door = req[w].door /\ r.row = req[w].row
      BY <1>r DEF Request
    <3>2. req[w].door \in {"reissue", "revise"}
      BY <1>5, <2>3 DEF Graduate, WellBuilt
    <3>3. req' = [req EXCEPT ![w] = r]
      BY <2>1, <2>3 DEF Serve
    <3> QED
      BY <2>1, <3>1, <3>2, <3>3 DEF WellBuilt, TypeOK
  <2> QED
    BY <2>2, <2>3
<1>6. CASE Link(w) \/ Rollback(w) \/ LeaveOrphan(w)
  BY <1>6, BuildingAnswer DEF Link, Rollback, LeaveOrphan, rowVars, identity
<1> QED
  BY <1>1, <1>3, <1>4, <1>5, <1>6 DEF IssueStep

\* Outside issue and revise a request builds no row.
PlainServe(w) ==
  \E r \in Request : Serve(w, r) /\ r.made = NoRow /\ r.door \notin {"issue", "reissue", "revise"}

LEMMA PlainBuilding ==
  ASSUME TypeOK, WellBuilt, NEW w \in Workers, PlainServe(w), used \subseteq used'
  PROVE  WellBuilt'
BY BuildingKept DEF PlainServe

LEMMA PlainRead ==
  ASSUME NEW w \in Workers, NEW door \in AllDoors, NEW e \in Rows, NEW s \in Statuses,
         door \notin {"issue", "reissue", "revise"},
         Serve(w, Reading(door, e)) \/ Serve(w, Keeping(door, e, s))
  PROVE  PlainServe(w)
<1>1. /\ Reading(door, e).made = NoRow /\ Reading(door, e).door = door
      /\ Keeping(door, e, s).made = NoRow /\ Keeping(door, e, s).door = door
  BY DEF Reading, Keeping, Idle
<1> QED
  BY <1>1, ReadingType, KeepingType DEF PlainServe

LEMMA PlainAnswer ==
  ASSUME NEW w \in Workers, Answer(w)
  PROVE  PlainServe(w)
<1>1. Idle.made = NoRow /\ Idle.door = "idle"
  BY DEF Idle
<1> QED
  BY <1>1, IdleType DEF Answer, PlainServe

LEMMA OfferPlain ==
  ASSUME TypeOK, NEW w \in Workers, OfferStep(w)
  PROVE  PlainServe(w)
<1>1. ASSUME NEW e \in Rows, SendRead(w, e) \/ ViewRead(w, e)
      PROVE  PlainServe(w)
  BY <1>1, PlainRead DEF SendRead, ViewRead, TypeOK, AllDoors
<1> QED
  BY <1>1, PlainAnswer DEF OfferStep, SendWrite, ViewWrite

LEMMA ExitPlain ==
  ASSUME TypeOK, NEW w \in Workers, ExitStep(w)
  PROVE  PlainServe(w)
<1>1. ASSUME NEW e \in Rows,
             \/ VoidRead(w, e) \/ LostRead(w, e) \/ ReopenRead(w, e)
             \/ ArchiveRead(w, e) \/ UnarchiveRead(w, e) \/ DeleteRead(w, e)
      PROVE  PlainServe(w)
  <2>1. "sent" \in Statuses /\ ReopenedStatus(e) \in Statuses
    BY ReopenedType DEF Statuses
  <2> QED
    BY <1>1, <2>1, PlainRead DEF VoidRead, LostRead, ReopenRead, ArchiveRead, UnarchiveRead,
       DeleteRead, AllDoors
<1>2. CASE SweepRead(w)
  <2> DEFINE r == [Idle EXCEPT !.door = "sweep", !.found = Expiring]
  <2>1. r \in Request /\ r.made = NoRow /\ r.door = "sweep"
    BY DEF Idle, Request, AllDoors, Statuses, Channels, Expiring, TypeOK
  <2> QED
    BY <1>2, <2>1 DEF SweepRead, PlainServe
<1> QED
  BY <1>1, <1>2, PlainAnswer DEF ExitStep, VoidWrite, LostWrite, ReopenWrite,
     ArchiveWrite, UnarchiveWrite, DeleteWrite, SweepWrite

LEMMA SignPlain ==
  ASSUME TypeOK, WellBuilt, NEW w \in Workers, SignStep(w)
  PROVE  PlainServe(w)
<1>r. req[w] \in Request
  BY DEF TypeOK
<1>1. ASSUME NEW e \in Rows, NEW via \in {"email", "in_person"},
             NEW c \in Captures \cup {NoCapture}, SignRead(w, e, via, c)
      PROVE  PlainServe(w)
  <2> DEFINE r == [Reading("sign", e) EXCEPT !.via = via, !.cap = c]
  <2>1. r \in Request /\ r.made = NoRow /\ r.door = "sign"
    BY DEF Reading, Idle, AllDoors, Request, Channels, Statuses
  <2> QED
    BY <1>1, <2>1 DEF SignRead, PlainServe
<1>2. ASSUME NEW e \in Rows, AcceptRead(w, e)
      PROVE  PlainServe(w)
  <2> DEFINE r == [Reading("sign", e) EXCEPT !.via = "office"]
  <2>1. r \in Request /\ r.made = NoRow /\ r.door = "sign"
    BY DEF Reading, Idle, AllDoors, Request, Channels, Statuses
  <2> QED
    BY <1>2, <2>1 DEF AcceptRead, PlainServe
<1>3. ASSUME NEW e \in Rows, UnacceptRead(w, e)
      PROVE  PlainServe(w)
  BY <1>3, ReopenedType, PlainRead DEF UnacceptRead, AllDoors
<1>4. CASE SignWrite(w)
  <2> DEFINE r == [Idle EXCEPT !.door = "signed", !.row = req[w].row]
  <2>1. r \in Request /\ r.made = NoRow /\ r.door = "signed"
    BY <1>r DEF Idle, Request, AllDoors, Statuses, Channels
  <2>2. Serve(w, r)
    BY <1>4 DEF SignWrite
  <2> QED
    BY <2>1, <2>2 DEF PlainServe
<1>5. CASE CompeteRead(w)
  <2>1. PICK F \in SUBSET Competing(req[w].row) :
          Serve(w, [req[w] EXCEPT !.door = "compete", !.found = F])
    BY <1>5 DEF CompeteRead
  <2> DEFINE r == [req[w] EXCEPT !.door = "compete", !.found = F]
  <2>2. F \subseteq Rows
    BY DEF Competing, TypeOK
  <2>3. r \in Request /\ r.made = req[w].made /\ r.door = "compete"
    BY <1>r, <2>2 DEF Request, AllDoors
  <2>4. req[w].made = NoRow
    BY <1>5 DEF CompeteRead, WellBuilt
  <2> QED
    BY <2>1, <2>3, <2>4 DEF PlainServe
<1> QED
  BY <1>1, <1>2, <1>3, <1>4, <1>5, PlainAnswer DEF SignStep, UnacceptWrite, CompeteWrite

LEMMA BuildingStep ==
  ASSUME TypeOK, WellBuilt, [Next]_vars
  PROVE  WellBuilt'
<1>1. ASSUME NEW w \in Workers, OfferStep(w) \/ SignStep(w) \/ ExitStep(w) \/ Abandon(w)
      PROVE  WellBuilt'
  <2>1. used' = used
    BY <1>1, OfferFrame, SignFrame, ExitFrame DEF identity, Abandon, rowVars
  <2>2. PlainServe(w)
    BY <1>1, OfferPlain, SignPlain, ExitPlain, PlainAnswer DEF Abandon
  <2> QED
    BY <2>1, <2>2, PlainBuilding
<1>2. ASSUME NEW e \in Rows, Lapse(e)
      PROVE  WellBuilt'
  BY <1>2 DEF Lapse, WellBuilt, identity
<1>3. CASE UNCHANGED vars
  BY <1>3 DEF vars, rowVars, identity, WellBuilt
<1> QED
  BY <1>1, <1>2, <1>3, IssueBuilding DEF Next

\* Every write but Graduate's is to a row that was created before.
LEMMA UnbornStep ==
  ASSUME TypeOK, Unborn, WellBuilt, [Next]_vars
  PROVE  Unborn'
<1>1. ASSUME NEW w \in Workers, IssueStep(w)
      PROVE  Unborn'
  <2>1. UNCHANGED <<status, signed, capture, voided, lost, archived>>
    BY <1>1, IssueFrame DEF marks
  <2>2. /\ used \subseteq used'
        /\ \A e \in Rows \ used' : supersedes'[e] = supersedes[e] \/ supersedes'[e] = NoRow
    <3>1. CASE Link(w)
      BY <3>1 DEF Link, WellBuilt, TypeOK
    <3>2. CASE Rollback(w)
      BY <3>2 DEF Rollback, Unlinked
    <3>3. CASE Graduate(w)
      BY <3>3 DEF Graduate
    <3> QED
      BY <1>1, <3>1, <3>2, <3>3 DEF IssueStep, IssueFirst, Reissue, Revise, LeaveOrphan,
         rowVars, identity
  <2> QED
    BY <2>1, <2>2 DEF Unborn
<1>2. ASSUME NEW w \in Workers, OfferStep(w)
      PROVE  Unborn'
  <2>1. UNCHANGED <<used, supersedes, capture, signed, voided, lost, archived>>
    BY <1>2, OfferFrame DEF identity
  <2>2. \A e \in Rows \ used : status'[e] = status[e]
    BY <1>2 DEF OfferStep, SendRead, ViewRead, SendWrite, ViewWrite, rowVars, TypeOK
  <2> QED
    BY <2>1, <2>2 DEF Unborn
<1>3. ASSUME NEW w \in Workers, SignStep(w)
      PROVE  Unborn'
  <2>1. UNCHANGED <<used, supersedes, lost>>
    BY <1>3, SignFrame DEF identity
  <2>2. CASE SignWrite(w)
    <3>1. Replaced(req[w].row) \cap (Rows \ used) = {}
      BY DEF Replaced, LiveSigned, Signed, Unborn
    <3>2. req[w].row \in used
      BY <2>2 DEF SignWrite, Signable, TypeOK
    <3>3. \A e \in Rows \ used :
            /\ signed'[e] = signed[e] /\ status'[e] = status[e] /\ capture'[e] = capture[e]
            /\ e \notin voided' \cup archived'
      BY <2>2, <3>1, <3>2 DEF SignWrite, TypeOK, Unborn
    <3> QED
      BY <2>1, <3>3 DEF Unborn
  <2>3. CASE CompeteWrite(w)
    BY <2>1, <2>3 DEF CompeteWrite, StillCompeting, Unborn, TypeOK
  <2>4. CASE UnacceptWrite(w)
    BY <2>1, <2>4 DEF UnacceptWrite, Unborn, TypeOK, marks
  <2> QED
    BY <1>3, <2>1, <2>2, <2>3, <2>4 DEF SignStep, SignRead, AcceptRead, UnacceptRead,
       CompeteRead, rowVars, marks, Unborn
<1>4. ASSUME NEW w \in Workers, ExitStep(w)
      PROVE  Unborn'
  <2>1. UNCHANGED <<used, capture, signed>>
    BY <1>4, ExitFrame
  <2>2. \A e \in Rows \ used :
          /\ status'[e] = status[e]
          /\ supersedes'[e] = supersedes[e] \/ supersedes'[e] = NoRow
          /\ e \notin voided' \cup lost' \cup archived'
    <3>1. CASE VoidWrite(w) \/ LostWrite(w) \/ ReopenWrite(w)
      BY <3>1 DEF VoidWrite, LostWrite, ReopenWrite, identity, TypeOK, Unborn
    <3>2. CASE ArchiveWrite(w) \/ UnarchiveWrite(w) \/ DeleteWrite(w) \/ SweepWrite(w)
      BY <3>2 DEF ArchiveWrite, UnarchiveWrite, DeleteWrite, SweepWrite, Unlinked, identity,
         marks, TypeOK, Unborn
    <3> QED
      BY <1>4, <3>1, <3>2 DEF ExitStep, VoidRead, LostRead, ReopenRead, ArchiveRead,
         UnarchiveRead, DeleteRead, SweepRead, rowVars, identity, marks, Unborn
  <2> QED
    BY <2>1, <2>2 DEF Unborn
<1>5. ASSUME UNCHANGED rowVars PROVE Unborn'
  BY <1>5 DEF rowVars, identity, marks, Unborn
<1>6. ASSUME NEW e \in Rows, Lapse(e)
      PROVE  Unborn'
  BY <1>6 DEF Lapse, identity, marks, Unborn
<1> QED
  BY <1>1, <1>2, <1>3, <1>4, <1>5, <1>6 DEF Next, Abandon, vars

\* A link is made only by Link, from the row it built to the row it replaces.
LEMMA LinkStep ==
  ASSUME TypeOK, [Next]_vars
  PROVE  \/ \E w \in Workers : Link(w)
         \/ \A f \in Rows : supersedes'[f] = supersedes[f] \/ supersedes'[f] = NoRow
<1>1. ASSUME NEW w \in Workers, IssueStep(w), ~Link(w)
      PROVE  \A f \in Rows : supersedes'[f] = supersedes[f] \/ supersedes'[f] = NoRow
  BY <1>1 DEF IssueStep, IssueFirst, Reissue, Revise, Graduate, Rollback, LeaveOrphan,
     Unlinked, rowVars, identity
<1>2. ASSUME NEW w \in Workers, OfferStep(w) \/ SignStep(w)
      PROVE  supersedes' = supersedes
  BY <1>2, OfferFrame, SignFrame DEF identity
<1>3. ASSUME NEW w \in Workers, ExitStep(w)
      PROVE  \A f \in Rows : supersedes'[f] = supersedes[f] \/ supersedes'[f] = NoRow
  BY <1>3 DEF ExitStep, VoidRead, LostRead, ReopenRead, ArchiveRead, UnarchiveRead,
     DeleteRead, SweepRead, VoidWrite, LostWrite, ReopenWrite, ArchiveWrite,
     UnarchiveWrite, DeleteWrite, SweepWrite, Unlinked, rowVars, identity
<1> QED
  BY <1>1, <1>2, <1>3 DEF Next, Abandon, Lapse, vars, rowVars, identity

\* A row joins the table under an id never used before.
LEMMA RowsStep ==
  ASSUME TypeOK, [Next]_vars, NEW e \in rows'
  PROVE  e \in rows \/ e \in Rows \ used
<1>1. ASSUME NEW w \in Workers, IssueStep(w)
      PROVE  e \in rows \/ e \in Rows \ used
  BY <1>1 DEF IssueStep, IssueFirst, Reissue, Revise, Graduate, Link, Rollback, LeaveOrphan,
     rowVars, identity
<1>2. ASSUME NEW w \in Workers, OfferStep(w) \/ SignStep(w)
      PROVE  e \in rows
  BY <1>2, OfferFrame, SignFrame DEF identity
<1>3. ASSUME NEW w \in Workers, ExitStep(w)
      PROVE  e \in rows
  BY <1>3 DEF ExitStep, VoidRead, LostRead, ReopenRead, ArchiveRead, UnarchiveRead,
     DeleteRead, SweepRead, VoidWrite, LostWrite, ReopenWrite, ArchiveWrite,
     UnarchiveWrite, DeleteWrite, SweepWrite, rowVars, identity
<1> QED
  BY <1>1, <1>2, <1>3 DEF Next, Abandon, Lapse, vars, rowVars, identity

LEMMA NoForkStep ==
  ASSUME ChainInv, [Next]_vars
  PROVE  NoFork'
<1> USE DEF ChainInv
<1> SUFFICES ASSUME NEW e \in rows', NEW f \in rows',
                    supersedes'[e] = supersedes'[f], supersedes'[e] # NoRow
             PROVE  e = f
  BY DEF NoFork
<1>1. e \in Rows /\ f \in Rows
  BY RowsStep DEF TypeOK
<1>2. CASE \A g \in Rows : supersedes'[g] = supersedes[g] \/ supersedes'[g] = NoRow
  <2>1. supersedes[e] = supersedes[f] /\ supersedes[e] # NoRow
    BY <1>1, <1>2
  <2>2. e \in rows /\ f \in rows
    BY <1>1, <2>1, RowsStep DEF Unborn
  <2> QED
    BY <2>1, <2>2 DEF NoFork
<1>3. ASSUME NEW w \in Workers, Link(w)
      PROVE  e = f
  <2>1. rows' = rows
    BY <1>3 DEF Link
  <2>2. \A g \in rows : supersedes[g] # req[w].row
    BY <1>3 DEF Link, MayReplace, Superseded, SupersededBy
  <2>3. supersedes' = [supersedes EXCEPT ![req[w].made] = req[w].row]
    BY <1>3 DEF Link
  <2> QED
    BY <1>1, <2>1, <2>2, <2>3 DEF NoFork, TypeOK
<1> QED
  BY <1>2, <1>3, LinkStep

LEMMA CaptureOnceStep ==
  ASSUME ChainInv, [Next]_vars
  PROVE  CaptureOnce'
<1> USE DEF ChainInv
<1> SUFFICES ASSUME NEW e \in rows', NEW f \in rows',
                    capture'[e] = capture'[f], capture'[e] # NoCapture
             PROVE  e = f
  BY DEF CaptureOnce
<1>1. e \in Rows /\ f \in Rows
  BY RowsStep DEF TypeOK
<1>2. CASE UNCHANGED capture
  BY <1>1, <1>2, RowsStep DEF Unborn, CaptureOnce
<1>3. ASSUME NEW w \in Workers, SignWrite(w)
      PROVE  e = f
  <2> DEFINE r == req[w].row
  <2>1. rows' = rows /\ r \in rows
    BY <1>3 DEF SignWrite, Signable, identity
  <2>2. capture' = [capture EXCEPT ![r] = IF req[w].via = "office" THEN capture[r] ELSE req[w].cap]
    BY <1>3 DEF SignWrite
  <2>3. CASE req[w].via = "office"
    BY <1>1, <2>1, <2>2, <2>3 DEF CaptureOnce, TypeOK
  <2>4. CASE req[w].via # "office"
    <3>1. \A g \in rows : (g # r /\ req[w].cap # NoCapture) => capture[g] # req[w].cap
      BY <1>3 DEF SignWrite, CaptureFree
    <3>2. capture' = [capture EXCEPT ![r] = req[w].cap]
      BY <2>2, <2>4
    <3> QED
      BY <1>1, <2>1, <3>1, <3>2 DEF CaptureOnce, TypeOK
  <2> QED
    BY <2>3, <2>4
<1>4. ASSUME NEW w \in Workers, UnacceptWrite(w)
      PROVE  UNCHANGED capture
  BY <1>4 DEF UnacceptWrite
<1> QED
  BY <1>2, <1>3, <1>4, SignatureWriters

THEOREM ChainInvariant == Spec => []ChainInv
<1>1. TypeOK /\ [Next]_vars => TypeOK'
  BY TypeStep
<1>2. ChainInv /\ [Next]_vars => ChainInv'
  BY <1>1, UnbornStep, BuildingStep, NoForkStep, CaptureOnceStep DEF ChainInv
<1> QED
  BY <1>2, ChainInit, PTL DEF Spec

\* A row is replaced by at most one revision, however many Issue and Revise
\* buttons race: the supersede looks again under the row lock.
THEOREM NoForkSafe == Spec => []NoFork
BY ChainInvariant, PTL DEF ChainInv

\* A capture on a phone becomes at most one signature, however often the
\* phone resends it and on whatever row it lands.
THEOREM CaptureOnceSafe == Spec => []CaptureOnce
BY ChainInvariant, PTL DEF ChainInv

\* No Issue button, in the office or in the field, replaces a signed row; a
\* signature that lands while the new row is being built wins.
THEOREM IssueSparesSignedSafe == Spec => IssueSparesSigned
<1>1. ChainInv /\ [Next]_vars =>
        [\A e \in rows, f \in rows :
           (supersedes[f] # e /\ supersedes'[f] = e /\ Signed(e)) =>
             \E w \in Workers : req[w].made = f /\ req[w].door = "revise"]_vars
  <2> SUFFICES ASSUME ChainInv, [Next]_vars, NEW e \in rows, NEW f \in rows,
                      supersedes[f] # e, supersedes'[f] = e, Signed(e)
               PROVE  \E w \in Workers : req[w].made = f /\ req[w].door = "revise"
    OBVIOUS
  <2>1. e \in Rows /\ f \in Rows /\ e # NoRow
    BY NoRowAssumption DEF ChainInv, TypeOK
  <2>2. PICK w \in Workers : Link(w)
    BY <2>1, LinkStep DEF ChainInv
  <2>3. req[w].made = f /\ req[w].row = e
    BY <2>1, <2>2 DEF Link, ChainInv, TypeOK
  <2>4. req[w].door \in {"reissue", "revise"} /\ req[w].door # "reissue"
    BY <2>2, <2>3 DEF Link, MayReplace, ChainInv, WellBuilt
  <2> QED
    BY <2>3, <2>4
<1> QED
  BY <1>1, ChainInvariant, PTL DEF Spec, IssueSparesSigned

-----------------------------------------------------------------------------
(* The archive.  The button archives by id alone, so what it read may be   *)
(* stale; the pass that follows a signature looks again.                   *)

ArchiveInv ==
  /\ TypeOK
  /\ \A e \in Rows : e \in archived => ~Signed(e)
  /\ \A w \in Workers : req[w].door # "archive"

\* With the archive button shut, an archived row is unsigned however the
\* signing doors, their archive passes and the take-back interleave.
THEOREM ArchivePassSafe ==
  ASSUME "archive" \notin Doors
  PROVE  Spec => []ArchivedUnsigned
<1>1. Init => ArchiveInv
  BY InitType DEF Init, ArchiveInv, Idle
<1>2. ArchiveInv /\ [Next]_vars => ArchiveInv'
  <2> SUFFICES ASSUME ArchiveInv, [Next]_vars PROVE ArchiveInv'
    OBVIOUS
  <2>1. TypeOK'
    BY TypeStep DEF ArchiveInv
  <2>2. \A e \in Rows : e \in archived' => ~Signed(e)'
    <3>1. ASSUME NEW w \in Workers, IssueStep(w) \/ OfferStep(w)
          PROVE  UNCHANGED <<archived, signed>>
      BY <3>1, IssueFrame, OfferFrame DEF marks
    <3>2. ASSUME NEW w \in Workers, SignWrite(w)
          PROVE  \A e \in Rows : e \in archived' => ~Signed(e)'
      BY <3>2 DEF SignWrite, ArchiveInv, TypeOK, Signed
    <3>3. ASSUME NEW w \in Workers, UnacceptWrite(w) \/ CompeteWrite(w)
          PROVE  \A e \in Rows : e \in archived' => ~Signed(e)'
      BY <3>3 DEF UnacceptWrite, CompeteWrite, StillCompeting, ArchiveInv, TypeOK, Signed, marks
    <3>4. ASSUME NEW w \in Workers, SignStep(w), ~SignWrite(w), ~UnacceptWrite(w), ~CompeteWrite(w)
          PROVE  UNCHANGED <<archived, signed>>
      BY <3>4 DEF SignStep, SignRead, AcceptRead, UnacceptRead, CompeteRead, rowVars, marks
    <3>5. ASSUME NEW w \in Workers, ExitStep(w)
          PROVE  signed' = signed /\ archived' \subseteq archived
      <4>1. ~ArchiveWrite(w)
        BY DEF ArchiveWrite, ArchiveInv
      <4> QED
        BY <3>5, <4>1, ExitFrame DEF ExitStep, VoidRead, LostRead, ReopenRead, ArchiveRead,
           UnarchiveRead, DeleteRead, SweepRead, VoidWrite, LostWrite, ReopenWrite,
           UnarchiveWrite, DeleteWrite, SweepWrite, rowVars, marks
    <3>6. ASSUME UNCHANGED <<archived, signed>>
          PROVE  \A e \in Rows : e \in archived' => ~Signed(e)'
      BY <3>6 DEF ArchiveInv, Signed
    <3>7. ASSUME signed' = signed, archived' \subseteq archived
          PROVE  \A e \in Rows : e \in archived' => ~Signed(e)'
      BY <3>7 DEF ArchiveInv, Signed
    <3> QED
      BY <3>1, <3>2, <3>3, <3>4, <3>5, <3>6, <3>7 DEF Next, Abandon, Lapse, vars, rowVars, marks
  <2>3. \A w \in Workers : req'[w].door # "archive"
    <3>1. ASSUME NEW w \in Workers,
                 IssueStep(w) \/ OfferStep(w) \/ SignStep(w) \/ ExitStep(w) \/ Abandon(w)
          PROVE  req'[w].door # "archive"
      BY <3>1, DoorOpen DEF ArchiveInv
    <3>2. ASSUME NEW w \in Workers, NEW v \in Workers, v # w,
                 IssueStep(w) \/ OfferStep(w) \/ SignStep(w) \/ ExitStep(w) \/ Abandon(w)
          PROVE  req'[v] = req[v]
      BY <3>2, ServesOne DEF ArchiveInv
    <3> QED
      BY <3>1, <3>2 DEF Next, Lapse, vars, ArchiveInv
  <2> QED
    BY <2>1, <2>2, <2>3 DEF ArchiveInv
<1>3. ArchiveInv => ArchivedUnsigned
  BY DEF ArchiveInv, ArchivedUnsigned, TypeOK
<1> QED
  BY <1>1, <1>2, <1>3, PTL DEF Spec
-----------------------------------------------------------------------------
(***************************************************************************)
(* One request at a time.  The promises that overlapping requests break    *)
(* are broken by overlap alone: when no two requests are in flight at once *)
(* every one of them holds, for any rows, drafts, captures and open doors. *)
(* The invariant says what is true of the row a request holds between its  *)
(* read and its write.                                                     *)
(***************************************************************************)

OneWorker == \A v, w \in Workers : v = w

\* The marks of a row agree with its status.
MarksAgree == \A e \in Rows :
  /\ Signed(e) => status[e] \in {"signed", "void"}
  /\ e \in voided => status[e] = "void"
  /\ e \in lost => status[e] = "lost"
  /\ e \in archived => ~Signed(e)

\* What a request read still holds.
Open(e) == ~Signed(e) /\ e \notin voided \cup lost
StillTrue(q) ==
  /\ q.door \in {"send", "view", "lost", "archive"} => Open(q.row)
  /\ q.door \in {"send", "view"} => q.saw # "lost" /\ q.saw # "void"
  /\ q.door = "delete" => ~Signed(q.row)
  /\ q.door = "reopen" => ~Signed(q.row) /\ q.row \notin voided
  /\ q.door = "unaccept" => signed[q.row] = "office" /\ q.row \notin voided \cup lost
  /\ q.door = "void" => q.row \notin lost
  /\ q.door = "sweep" => \A f \in q.found : Open(f)
  /\ q.door \in {"reissue", "revise"} => status[q.row] # "lost"
  /\ q.made # NoRow => ~Signed(q.made)

SerialInv ==
  /\ TypeOK /\ Unborn /\ WellBuilt
  /\ MarksAgree
  /\ \A w \in Workers : StillTrue(req[w])

LEMMA IdleTrue == StillTrue(Idle)
BY DEF StillTrue, Idle

LEMMA SerialInit == Init => SerialInv
<1> SUFFICES ASSUME Init PROVE SerialInv
  OBVIOUS
<1>1. TypeOK /\ Unborn /\ WellBuilt
  BY ChainInit DEF ChainInv
<1>2. MarksAgree
  BY DEF Init, MarksAgree, Signed
<1>3. \A w \in Workers : StillTrue(req[w])
  BY IdleTrue DEF Init
<1> QED
  BY <1>1, <1>2, <1>3 DEF SerialInv

-----------------------------------------------------------------------------
(* The marks agree after every step.                                       *)

LEMMA IssueMarks ==
  ASSUME MarksAgree, NEW w \in Workers, IssueStep(w)
  PROVE  MarksAgree'
BY IssueFrame DEF MarksAgree, marks, Signed

LEMMA OfferMarks ==
  ASSUME SerialInv, NEW w \in Workers, OfferStep(w)
  PROVE  MarksAgree'
<1>1. UNCHANGED <<signed, voided, lost, archived>>
  BY OfferFrame
<1>2. StillTrue(req[w])
  BY DEF SerialInv
<1>3. CASE SendWrite(w) \/ ViewWrite(w)
  <2>1. Open(req[w].row)
    BY <1>2, <1>3 DEF SendWrite, ViewWrite, StillTrue
  <2>2. \A e \in Rows \ {req[w].row} : status'[e] = status[e]
    BY <1>3 DEF SendWrite, ViewWrite, SerialInv, TypeOK
  <2> QED
    BY <1>1, <2>1, <2>2 DEF Open, MarksAgree, SerialInv, Signed
<1>4. CASE status' = status
  BY <1>1, <1>4 DEF MarksAgree, SerialInv, Signed
<1> QED
  BY <1>3, <1>4 DEF OfferStep, SendRead, ViewRead, rowVars

LEMMA SignMarks ==
  ASSUME SerialInv, NEW w \in Workers, SignStep(w)
  PROVE  MarksAgree'
<1>1. lost' = lost
  BY SignFrame
<1>2. StillTrue(req[w])
  BY DEF SerialInv
<1>3. CASE SignWrite(w)
  <2> DEFINE e == req[w].row
  <2>1. e \in rows /\ ~Signed(e) /\ status[e] \notin {"void", "lost"}
    BY <1>3 DEF SignWrite, Signable
  <2>2. e \notin voided \cup lost
    BY <2>1 DEF SerialInv, MarksAgree, TypeOK
  <2>3. \A r \in Replaced(e) : r \in Rows /\ r # e /\ Signed(r) /\ r \notin lost
    BY <2>1 DEF Replaced, Replaces, LiveSigned, SerialInv, MarksAgree
  <2>4. \A r \in Rows :
          /\ r # e => signed'[r] = signed[r]
          /\ status'[r] = IF r = e THEN "signed" ELSE IF r \in Replaced(e) THEN "void" ELSE status[r]
          /\ r \in voided' => r \in voided \cup Replaced(e)
          /\ r \in archived' => r \in archived /\ r # e
    BY <1>3 DEF SignWrite, SerialInv, TypeOK
  <2>5. \A r \in Rows : /\ signed'[r] # "no" => status'[r] \in {"signed", "void"}
                        /\ r \in voided' => status'[r] = "void"
    BY <2>1, <2>2, <2>3, <2>4 DEF SerialInv, MarksAgree, Signed
  <2>6. \A r \in Rows : /\ r \in lost => status'[r] = "lost"
                        /\ r \in archived' => signed'[r] = "no"
    BY <2>1, <2>2, <2>3, <2>4 DEF SerialInv, MarksAgree, Signed
  <2> QED
    BY <1>1, <2>5, <2>6 DEF MarksAgree, Signed
<1>4. CASE UnacceptWrite(w)
  <2>1. req[w].row \notin voided \cup lost
    BY <1>2, <1>4 DEF UnacceptWrite, StillTrue
  <2> QED
    BY <1>4, <2>1 DEF UnacceptWrite, SerialInv, MarksAgree, TypeOK, Signed, marks
<1>5. CASE CompeteWrite(w)
  BY <1>5 DEF CompeteWrite, StillCompeting, SerialInv, MarksAgree, Signed
<1>6. CASE UNCHANGED rowVars
  BY <1>6 DEF rowVars, marks, SerialInv, MarksAgree, Signed
<1> QED
  BY <1>3, <1>4, <1>5, <1>6 DEF SignStep, SignRead, AcceptRead, UnacceptRead, CompeteRead

LEMMA ExitMarks ==
  ASSUME SerialInv, NEW w \in Workers, ExitStep(w)
  PROVE  MarksAgree'
<1>1. signed' = signed
  BY ExitFrame
<1>2. StillTrue(req[w])
  BY DEF SerialInv
<1>3. CASE VoidWrite(w)
  BY <1>1, <1>2, <1>3 DEF VoidWrite, StillTrue, SerialInv, MarksAgree, TypeOK, Signed
<1>4. CASE LostWrite(w)
  BY <1>1, <1>2, <1>4 DEF LostWrite, StillTrue, Open, SerialInv, MarksAgree, TypeOK, Signed
<1>5. CASE ReopenWrite(w)
  BY <1>1, <1>2, <1>5 DEF ReopenWrite, StillTrue, SerialInv, MarksAgree, TypeOK, Signed
<1>6. CASE ArchiveWrite(w)
  BY <1>1, <1>2, <1>6 DEF ArchiveWrite, StillTrue, Open, SerialInv, MarksAgree, Signed
<1>7. CASE UnarchiveWrite(w)
  BY <1>1, <1>7 DEF UnarchiveWrite, SerialInv, MarksAgree, Signed
<1>8. CASE SweepWrite(w)
  BY <1>1, <1>2, <1>8 DEF SweepWrite, StillTrue, Open, SerialInv, MarksAgree, Signed, marks
<1>9. CASE UNCHANGED <<status, voided, lost, archived>>
  BY <1>1, <1>9 DEF SerialInv, MarksAgree, Signed
<1> QED
  BY <1>3, <1>4, <1>5, <1>6, <1>7, <1>8, <1>9 DEF ExitStep, VoidRead, LostRead, ReopenRead,
     ArchiveRead, UnarchiveRead, DeleteRead, SweepRead, DeleteWrite, rowVars, marks

-----------------------------------------------------------------------------
(* What a request read still holds after every step.                       *)

LEMMA AnswerTrue ==
  ASSUME TypeOK, NEW w \in Workers, Answer(w)
  PROVE  StillTrue(req[w])'
<1>1. req'[w] = Idle
  BY DEF Answer, Serve, TypeOK
<1> QED
  BY <1>1 DEF StillTrue, Idle

\* Of a request just read the row is as it was read.
LEMMA ReadTrue ==
  ASSUME TypeOK, NEW w \in Workers, NEW r, Serve(w, r), UNCHANGED rowVars, StillTrue(r)
  PROVE  StillTrue(req[w])'
<1>1. req'[w] = r
  BY DEF Serve, TypeOK
<1> QED
  BY <1>1 DEF StillTrue, Open, Signed, rowVars, marks

LEMMA IssueTrue ==
  ASSUME SerialInv, NEW w \in Workers, IssueStep(w)
  PROVE  StillTrue(req[w])'
<1> USE DEF SerialInv
<1>r. req[w] \in Request /\ StillTrue(req[w])
  BY DEF TypeOK
<1>1. ASSUME NEW d \in Drafts, IssueFirst(w, d)
      PROVE  StillTrue(req[w])'
  <2> DEFINE r == [Idle EXCEPT !.door = "issue", !.draft = d]
  <2>1. r.door = "issue" /\ r.made = NoRow
    BY DEF Idle
  <2>2. StillTrue(r)
    BY <2>1 DEF StillTrue
  <2> QED
    BY <1>1, <2>2, ReadTrue DEF IssueFirst
<1>2. ASSUME NEW e \in Rows, NEW door \in {"reissue", "revise"}, status[e] # "lost",
             Serve(w, Revising(door, e)), UNCHANGED rowVars
      PROVE  StillTrue(req[w])'
  <2>1. Revising(door, e).door = door /\ Revising(door, e).row = e /\ Revising(door, e).made = NoRow
    BY DEF Revising, Reading, Idle
  <2>2. StillTrue(Revising(door, e))
    BY <1>2, <2>1 DEF StillTrue
  <2> QED
    BY <1>2, <2>2, ReadTrue
<1>3. ASSUME NEW d \in Drafts, Reissue(w, d)
      PROVE  StillTrue(req[w])'
  BY <1>2, <1>3 DEF Reissue, LiveEstimate, LiveOfDraft, TypeOK
<1>4. ASSUME NEW e \in Rows, Revise(w, e)
      PROVE  StillTrue(req[w])'
  BY <1>2, <1>4 DEF Revise, MayRevise
<1>5. CASE Graduate(w)
  <2>1. PICK e \in Rows \ used :
          IF req[w].row = NoRow THEN Answer(w) ELSE Serve(w, [req[w] EXCEPT !.made = e])
    BY <1>5 DEF Graduate
  <2>2. CASE req[w].row = NoRow
    BY <2>1, <2>2, AnswerTrue
  <2>3. CASE req[w].row # NoRow
    <3> DEFINE r == [req[w] EXCEPT !.made = e]
    <3>1. r.made = e /\ r.door = req[w].door /\ r.row = req[w].row
      BY <1>r DEF Request
    <3>2. req'[w] = r
      BY <2>1, <2>3 DEF Serve, TypeOK
    <3>3. UNCHANGED <<status, signed>> /\ ~Signed(e)
      BY <1>5 DEF Graduate, Unborn, Signed
    <3>4. req[w].door \in {"reissue", "revise"} /\ status[req[w].row] # "lost"
      BY <1>5, <1>r, <2>3 DEF Graduate, WellBuilt, StillTrue
    <3> QED
      BY <3>1, <3>2, <3>3, <3>4 DEF StillTrue, Signed
  <2> QED
    BY <2>2, <2>3
<1> QED
  BY <1>1, <1>3, <1>4, <1>5, AnswerTrue DEF IssueStep, Link, Rollback, LeaveOrphan

LEMMA OfferTrue ==
  ASSUME SerialInv, NEW w \in Workers, OfferStep(w)
  PROVE  StillTrue(req[w])'
<1> USE DEF SerialInv
<1>1. ASSUME NEW e \in Rows, NEW door \in {"send", "view"}, ~Signed(e),
             status[e] \notin {"void", "lost"},
             Serve(w, Keeping(door, e, status[e])), UNCHANGED rowVars
      PROVE  StillTrue(req[w])'
  <2> DEFINE r == Keeping(door, e, status[e])
  <2>1. r.door = door /\ r.row = e /\ r.saw = status[e] /\ r.made = NoRow
    BY DEF Keeping, Reading, Idle
  <2>2. e \notin voided \cup lost
    BY <1>1 DEF MarksAgree
  <2>3. StillTrue(r)
    BY <1>1, <2>1, <2>2 DEF StillTrue, Open
  <2> QED
    BY <1>1, <2>3, ReadTrue
<1>2. ASSUME NEW e \in Rows, SendRead(w, e) \/ ViewRead(w, e)
      PROVE  StillTrue(req[w])'
  BY <1>1, <1>2 DEF SendRead, ViewRead, MaySend, MayView
<1> QED
  BY <1>2, AnswerTrue DEF OfferStep, SendWrite, ViewWrite

LEMMA SignTrue ==
  ASSUME SerialInv, NEW w \in Workers, SignStep(w)
  PROVE  StillTrue(req[w])'
<1> USE DEF SerialInv
<1>r. req[w] \in Request
  BY DEF TypeOK
<1>0. ASSUME NEW r, Serve(w, r), r.door \in {"sign", "signed", "compete"}, r.made = NoRow
      PROVE  StillTrue(req[w])'
  <2>1. req'[w] = r
    BY <1>0 DEF Serve, TypeOK
  <2> QED
    BY <1>0, <2>1 DEF StillTrue
<1>1. ASSUME NEW e \in Rows, NEW via, NEW c, SignRead(w, e, via, c)
      PROVE  StillTrue(req[w])'
  <2> DEFINE r == [Reading("sign", e) EXCEPT !.via = via, !.cap = c]
  <2>1. r.door = "sign" /\ r.made = NoRow
    BY DEF Reading, Idle
  <2> QED
    BY <1>1, <2>1, <1>0 DEF SignRead
<1>2. ASSUME NEW e \in Rows, AcceptRead(w, e)
      PROVE  StillTrue(req[w])'
  <2> DEFINE r == [Reading("sign", e) EXCEPT !.via = "office"]
  <2>1. r.door = "sign" /\ r.made = NoRow
    BY DEF Reading, Idle
  <2> QED
    BY <1>2, <2>1, <1>0 DEF AcceptRead
<1>3. ASSUME NEW e \in Rows, UnacceptRead(w, e)
      PROVE  StillTrue(req[w])'
  <2> DEFINE r == Keeping("unaccept", e, ReopenedStatus(e))
  <2>1. r.door = "unaccept" /\ r.row = e /\ r.made = NoRow
    BY DEF Keeping, Reading, Idle
  <2>2. signed[e] = "office" /\ e \notin voided
    BY <1>3 DEF UnacceptRead, MayUndo
  <2>3. e \notin lost
    BY <2>2 DEF MarksAgree, Signed
  <2>4. StillTrue(r)
    BY <2>1, <2>2, <2>3 DEF StillTrue
  <2> QED
    BY <1>3, <2>4, ReadTrue DEF UnacceptRead
<1>4. CASE SignWrite(w)
  <2> DEFINE r == [Idle EXCEPT !.door = "signed", !.row = req[w].row]
  <2>1. r.door = "signed" /\ r.made = NoRow
    BY DEF Idle
  <2> QED
    BY <1>4, <2>1, <1>0 DEF SignWrite
<1>5. CASE CompeteRead(w)
  <2>1. PICK F : Serve(w, [req[w] EXCEPT !.door = "compete", !.found = F])
    BY <1>5 DEF CompeteRead
  <2> DEFINE r == [req[w] EXCEPT !.door = "compete", !.found = F]
  <2>2. r.door = "compete" /\ r.made = req[w].made
    BY <1>r DEF Request
  <2>3. req[w].made = NoRow
    BY <1>5 DEF CompeteRead, WellBuilt
  <2> QED
    BY <2>1, <2>2, <2>3, <1>0
<1> QED
  BY <1>1, <1>2, <1>3, <1>4, <1>5, AnswerTrue DEF SignStep, UnacceptWrite, CompeteWrite

LEMMA ExitTrue ==
  ASSUME SerialInv, NEW w \in Workers, ExitStep(w)
  PROVE  StillTrue(req[w])'
<1> USE DEF SerialInv
<1>1. ASSUME NEW e \in Rows, NEW r, r \in {Reading("void", e), Reading("lost", e), Reading("archive", e),
                                          Reading("unarchive", e), Reading("delete", e)},
             Serve(w, r), UNCHANGED rowVars,
             r.door = "void" => Signed(e),
             r.door \in {"lost", "archive"} => Open(e),
             r.door = "delete" => ~Signed(e)
      PROVE  StillTrue(req[w])'
  <2>1. r.row = e /\ r.made = NoRow /\ r.door \in {"void", "lost", "archive", "unarchive", "delete"}
    BY <1>1 DEF Reading, Idle
  <2>2. Signed(e) => e \notin lost
    BY DEF MarksAgree
  <2>3. StillTrue(r)
    BY <1>1, <2>1, <2>2 DEF StillTrue
  <2> QED
    BY <1>1, <2>3, ReadTrue
<1>d. ASSUME NEW e, NEW door PROVE Reading(door, e).door = door
  BY DEF Reading, Idle
<1>2. ASSUME NEW e \in Rows, VoidRead(w, e) \/ DeleteRead(w, e) \/ UnarchiveRead(w, e)
      PROVE  StillTrue(req[w])'
  BY <1>1, <1>2, <1>d DEF VoidRead, DeleteRead, UnarchiveRead, MayVoid, MayDelete
<1>3. ASSUME NEW e \in Rows, LostRead(w, e) \/ ArchiveRead(w, e)
      PROVE  StillTrue(req[w])'
  <2>1. Open(e)
    BY <1>3 DEF LostRead, ArchiveRead, MayLose, MayArchive, Open
  <2> QED
    BY <1>1, <1>3, <1>d, <2>1 DEF LostRead, ArchiveRead
<1>4. ASSUME NEW e \in Rows, ReopenRead(w, e)
      PROVE  StillTrue(req[w])'
  <2> DEFINE r == Keeping("reopen", e, ReopenedStatus(e))
  <2>1. r.door = "reopen" /\ r.row = e /\ r.made = NoRow
    BY DEF Keeping, Reading, Idle
  <2>2. status[e] = "lost"
    BY <1>4 DEF ReopenRead, MarksAgree
  <2>3. ~Signed(e) /\ e \notin voided
    BY <2>2 DEF MarksAgree
  <2>4. StillTrue(r)
    BY <2>1, <2>3 DEF StillTrue
  <2> QED
    BY <1>4, <2>4, ReadTrue DEF ReopenRead
<1>5. CASE SweepRead(w)
  <2> DEFINE r == [Idle EXCEPT !.door = "sweep", !.found = Expiring]
  <2>1. r.door = "sweep" /\ r.found = Expiring /\ r.made = NoRow
    BY DEF Idle
  <2>2. \A f \in Expiring : Open(f)
    BY DEF Expiring, Open
  <2>3. StillTrue(r)
    BY <2>1, <2>2 DEF StillTrue
  <2> QED
    BY <1>5, <2>3, ReadTrue DEF SweepRead
<1> QED
  BY <1>2, <1>3, <1>4, <1>5, AnswerTrue DEF ExitStep, VoidWrite, LostWrite, ReopenWrite,
     ArchiveWrite, UnarchiveWrite, DeleteWrite, SweepWrite

-----------------------------------------------------------------------------
(* The invariant and what follows from it.                                 *)

LEMMA SerialStep ==
  ASSUME OneWorker, SerialInv, [Next]_vars
  PROVE  SerialInv'
<1>1. TypeOK' /\ Unborn' /\ WellBuilt'
  BY TypeStep, UnbornStep, BuildingStep DEF SerialInv
<1>2. ASSUME NEW w \in Workers, StillTrue(req[w])'
      PROVE  \A v \in Workers : StillTrue(req[v])'
  BY <1>2 DEF OneWorker
<1>3. ASSUME NEW w \in Workers,
             IssueStep(w) \/ OfferStep(w) \/ SignStep(w) \/ ExitStep(w)
      PROVE  SerialInv'
  <2>1. MarksAgree'
    BY <1>3, IssueMarks, OfferMarks, SignMarks, ExitMarks DEF SerialInv
  <2>2. StillTrue(req[w])'
    BY <1>3, IssueTrue, OfferTrue, SignTrue, ExitTrue
  <2> QED
    BY <1>1, <1>2, <2>1, <2>2 DEF SerialInv
<1>4. ASSUME NEW w \in Workers, Abandon(w)
      PROVE  SerialInv'
  <2>1. MarksAgree'
    BY <1>4 DEF Abandon, rowVars, marks, SerialInv, MarksAgree, Signed
  <2>2. StillTrue(req[w])'
    BY <1>4, AnswerTrue DEF Abandon, SerialInv
  <2> QED
    BY <1>1, <1>2, <2>1, <2>2 DEF SerialInv
<1>5. CASE UNCHANGED <<status, signed, capture, marks, req>>
  BY <1>1, <1>5 DEF SerialInv, MarksAgree, StillTrue, Open, Signed, marks
<1> QED
  BY <1>3, <1>4, <1>5 DEF Next, Lapse, vars, rowVars

LEMMA SerialInvariant == ASSUME OneWorker PROVE Spec => []SerialInv
BY SerialInit, SerialStep, PTL DEF Spec

\* One request at a time, a signed row stays a sale until it is voided.
THEOREM SerialStatusKept == ASSUME OneWorker PROVE Spec => []SignedStatusKept
<1>1. SerialInv => SignedStatusKept
  BY DEF SerialInv, MarksAgree, SignedStatusKept, TypeOK
<1> QED
  BY <1>1, SerialInvariant, PTL

\* One request at a time, void is never reversed.
THEOREM SerialVoidFinal == ASSUME OneWorker PROVE Spec => []VoidIsFinal
<1>1. SerialInv => VoidIsFinal
  BY DEF SerialInv, MarksAgree, VoidIsFinal, TypeOK
<1> QED
  BY <1>1, SerialInvariant, PTL

\* One request at a time, only what the office recorded itself is taken back.
THEOREM SerialNotErased == ASSUME OneWorker PROVE Spec => SignatureNotErased
<1>1. SerialInv /\ [Next]_vars =>
        [\A e \in rows : (Signed(e) /\ signed'[e] = "no") => signed[e] = "office"]_vars
  <2> SUFFICES ASSUME SerialInv, [Next]_vars, NEW e \in rows, Signed(e), signed'[e] = "no"
               PROVE  signed[e] = "office"
    OBVIOUS
  <2>1. CASE UNCHANGED <<signed, capture>>
    BY <2>1 DEF Signed
  <2>2. ASSUME NEW w \in Workers, SignWrite(w)
        PROVE  signed[e] = "office"
    BY <2>2 DEF SignWrite, Signable, Signed, SerialInv, TypeOK
  <2>3. ASSUME NEW w \in Workers, UnacceptWrite(w)
        PROVE  signed[e] = "office"
    BY <2>3 DEF UnacceptWrite, Signed, SerialInv, TypeOK, StillTrue
  <2> QED
    BY <2>1, <2>2, <2>3, SignatureWriters
<1> QED
  BY <1>1, SerialInvariant, PTL DEF Spec, SignatureNotErased

\* One request at a time, a signed estimate is never deleted, not even by the
\* rollback of a revision.
THEOREM SerialNeverDeleted == ASSUME OneWorker PROVE Spec => SignedNeverDeleted
<1>1. SerialInv /\ [Next]_vars => [\A e \in rows : Signed(e) => e \in rows']_vars
  <2> SUFFICES ASSUME SerialInv, [Next]_vars, NEW e \in rows, Signed(e)
               PROVE  e \in rows'
    OBVIOUS
  <2>1. ASSUME NEW w \in Workers, IssueStep(w)
        PROVE  e \in rows'
    BY <2>1 DEF IssueStep, IssueFirst, Reissue, Revise, Graduate, Link, Rollback, LeaveOrphan,
       rowVars, identity, SerialInv, StillTrue
  <2>2. ASSUME NEW w \in Workers, OfferStep(w) \/ SignStep(w)
        PROVE  e \in rows'
    BY <2>2, OfferFrame, SignFrame DEF identity
  <2>3. ASSUME NEW w \in Workers, ExitStep(w)
        PROVE  e \in rows'
    BY <2>3 DEF ExitStep, VoidRead, LostRead, ReopenRead, ArchiveRead, UnarchiveRead,
       DeleteRead, SweepRead, VoidWrite, LostWrite, ReopenWrite, ArchiveWrite, UnarchiveWrite,
       DeleteWrite, SweepWrite, rowVars, identity, SerialInv, StillTrue
  <2> QED
    BY <2>1, <2>2, <2>3 DEF Next, Abandon, Lapse, vars, rowVars, identity
<1> QED
  BY <1>1, SerialInvariant, PTL DEF Spec, SignedNeverDeleted

\* One request at a time, no revision is made on top of a lost offer.
THEOREM SerialLostNotReplaced == ASSUME OneWorker PROVE Spec => LostNotReplaced
<1>1. SerialInv /\ [Next]_vars =>
        [\A e \in rows, f \in rows :
           (supersedes[f] # e /\ supersedes'[f] = e) => status[e] # "lost"]_vars
  <2> SUFFICES ASSUME SerialInv, [Next]_vars, NEW e \in rows, NEW f \in rows,
                      supersedes[f] # e, supersedes'[f] = e
               PROVE  status[e] # "lost"
    OBVIOUS
  <2>1. e \in Rows /\ f \in Rows /\ e # NoRow
    BY NoRowAssumption DEF SerialInv, TypeOK
  <2>2. PICK w \in Workers : Link(w)
    BY <2>1, LinkStep DEF SerialInv
  <2>3. req[w].made = f /\ req[w].row = e
    BY <2>1, <2>2 DEF Link, SerialInv, TypeOK
  <2>4. req[w].door \in {"reissue", "revise"}
    BY <2>2 DEF Link, SerialInv, WellBuilt
  <2> QED
    BY <2>3, <2>4 DEF SerialInv, StillTrue
<1> QED
  BY <1>1, SerialInvariant, PTL DEF Spec, LostNotReplaced

-----------------------------------------------------------------------------
(* One agreement per chain.  A link leads to a row of the table, nothing   *)
(* leads to a row under construction, and the rows a row replaces only     *)
(* become fewer, except for a row just linked, which nobody has signed.    *)

RowsLinked == \A f \in rows : supersedes[f] \in rows \cup {NoRow}
MadeAlone == \A w \in Workers :
  req[w].made # NoRow => \A f \in rows : supersedes[f] # req[w].made

FamilyInv == SerialInv /\ RowsLinked /\ MadeAlone /\ OneAgreementPerChain

\* A row nobody's link leads to is replaced by no row of the table.
LEMMA NotReplaced ==
  ASSUME TypeOK, RowsLinked, NEW e \in rows, ~Superseded(e), NEW f \in rows
  PROVE  e \notin Replaces(f)
<1> DEFINE S == rows \ {e}
<1>1. \A x \in rows : supersedes[x] # e
  BY DEF Superseded, SupersededBy
<1>2. S \in SUBSET Rows /\ ClosedChain(S) /\ supersedes[f] \in S \cup {NoRow}
  BY <1>1 DEF TypeOK, RowsLinked, ClosedChain
<1> QED
  BY <1>2 DEF Replaces

LEMMA ReplacesRows ==
  ASSUME TypeOK, RowsLinked, NEW f \in rows
  PROVE  Replaces(f) \subseteq rows
<1>1. rows \in SUBSET Rows /\ ClosedChain(rows) /\ supersedes[f] \in rows \cup {NoRow}
  BY DEF TypeOK, RowsLinked, ClosedChain
<1> QED
  BY <1>1 DEF Replaces

LEMMA UnlinkShrinks ==
  ASSUME TypeOK, NEW x, supersedes' = Unlinked(x), NEW f \in Rows
  PROVE  Replaces(f)' \subseteq Replaces(f)
<1> SUFFICES ASSUME NEW r \in Replaces(f)', NEW S \in SUBSET Rows,
                    ClosedChain(S), supersedes[f] \in S \cup {NoRow}
             PROVE  r \in S
  BY DEF Replaces
<1>1. \A y \in Rows : supersedes'[y] \in {supersedes[y], NoRow}
  BY DEF Unlinked
<1>2. ClosedChain(S)' /\ supersedes'[f] \in S \cup {NoRow}
  BY <1>1 DEF ClosedChain
<1> QED
  BY <1>2 DEF Replaces

LEMMA LinkShrinks ==
  ASSUME TypeOK, RowsLinked, NEW m, NEW p \in rows, supersedes' = [supersedes EXCEPT ![m] = p],
         \A g \in rows : supersedes[g] # m, NEW f \in rows, f # m
  PROVE  Replaces(f)' \subseteq Replaces(f)
<1> SUFFICES ASSUME NEW r \in Replaces(f)', NEW S \in SUBSET Rows,
                    ClosedChain(S), supersedes[f] \in S \cup {NoRow}
             PROVE  r \in S
  BY DEF Replaces
<1> DEFINE T == (S \cap rows) \ {m}
<1>1. \A y \in rows : y # m => supersedes'[y] = supersedes[y]
  BY DEF TypeOK
<1>2. T \in SUBSET Rows
  OBVIOUS
<1>3. \A x \in T : supersedes'[x] \in T \cup {NoRow}
  BY <1>1 DEF ClosedChain, RowsLinked
<1>4. supersedes'[f] \in T \cup {NoRow}
  BY <1>1 DEF RowsLinked
<1>5. r \in T
  BY <1>2, <1>3, <1>4 DEF Replaces, ClosedChain
<1> QED
  BY <1>5

\* Only a signature makes a live agreement.
LEMMA LiveStays ==
  ASSUME SerialInv, NEW w \in Workers, ~SignWrite(w),
         IssueStep(w) \/ OfferStep(w) \/ SignStep(w) \/ ExitStep(w),
         NEW r \in Rows, LiveSigned(r)'
  PROVE  LiveSigned(r)
<1> USE DEF SerialInv
<1>1. StillTrue(req[w]) /\ (Signed(r) => status[r] \in {"signed", "void"})
  BY DEF MarksAgree
<1>2. CASE IssueStep(w)
  BY <1>2, IssueFrame DEF LiveSigned, Signed, marks
<1>3. CASE OfferStep(w)
  <2>1. Signed(r) /\ r \notin voided
    BY <1>3, OfferFrame DEF LiveSigned, Signed
  <2>2. status'[r] = status[r]
    BY <1>1, <1>3, <2>1 DEF OfferStep, SendRead, ViewRead, SendWrite, ViewWrite, rowVars,
       StillTrue, Open, TypeOK
  <2> QED
    BY <2>1, <2>2 DEF LiveSigned
<1>4. CASE SignStep(w)
  <2>1. CASE UnacceptWrite(w)
    BY <2>1, <1>1 DEF UnacceptWrite, TypeOK, LiveSigned, Signed, marks
  <2> QED
    BY <1>4, <2>1 DEF SignStep, SignRead, AcceptRead, UnacceptRead, CompeteRead, CompeteWrite,
       rowVars, marks, LiveSigned, Signed
<1>5. CASE ExitStep(w)
  <2>1. Signed(r)
    BY <1>5, ExitFrame DEF LiveSigned, Signed
  <2>2. voided \subseteq voided' /\ status'[r] \in {status[r], "void"}
    <3>1. CASE VoidWrite(w) \/ DeleteWrite(w)
      BY <3>1 DEF VoidWrite, DeleteWrite, TypeOK, marks
    <3>2. CASE LostWrite(w)
      BY <1>1, <2>1, <3>2 DEF LostWrite, StillTrue, Open, TypeOK
    <3>3. CASE ReopenWrite(w)
      BY <1>1, <2>1, <3>3 DEF ReopenWrite, StillTrue, TypeOK
    <3>4. CASE SweepWrite(w)
      BY <1>1, <2>1, <3>4 DEF SweepWrite, StillTrue, Open, TypeOK, marks
    <3>5. CASE UNCHANGED <<status, voided>>
      BY <3>5
    <3> QED
      BY <1>5, <3>1, <3>2, <3>3, <3>4, <3>5 DEF ExitStep, VoidRead, LostRead, ReopenRead,
         ArchiveRead, UnarchiveRead, DeleteRead, SweepRead, ArchiveWrite, UnarchiveWrite,
         rowVars, marks
  <2> QED
    BY <2>1, <2>2 DEF LiveSigned
<1> QED
  BY <1>2, <1>3, <1>4, <1>5

\* The links themselves.
LEMMA LinksKept ==
  ASSUME OneWorker, FamilyInv, NEW w \in Workers,
         IssueStep(w) \/ OfferStep(w) \/ SignStep(w) \/ ExitStep(w)
  PROVE  /\ RowsLinked' /\ MadeAlone'
         /\ \A f \in rows' : \/ f \in rows /\ Replaces(f)' \subseteq Replaces(f)
                             \/ ~Signed(f)'
<1> USE DEF FamilyInv, SerialInv
<1>t. TypeOK /\ RowsLinked /\ req[w] \in Request /\ \A v \in Workers : v = w
  BY DEF TypeOK, OneWorker
<1>m. ASSUME NEW r, Serve(w, r) PROVE req'[w] = r
  BY <1>m, <1>t DEF Serve, TypeOK
<1>a. ASSUME Answer(w) PROVE MadeAlone'
  BY <1>a, <1>t, <1>m DEF Answer, MadeAlone, Idle
<1>s. ASSUME UNCHANGED <<rows, supersedes>>
      PROVE  /\ RowsLinked'
             /\ \A f \in rows' : f \in rows /\ Replaces(f)' \subseteq Replaces(f)
  BY <1>s DEF RowsLinked, Replaces, ClosedChain
<1>u. ASSUME NEW x \in Rows, rows' = rows \ {x}, supersedes' = Unlinked(x)
      PROVE  /\ RowsLinked'
             /\ \A f \in rows' : f \in rows /\ Replaces(f)' \subseteq Replaces(f)
  <2>1. RowsLinked'
    BY <1>u, <1>t DEF RowsLinked, Unlinked, TypeOK
  <2> QED
    BY <1>u, <1>t, <2>1, UnlinkShrinks DEF TypeOK
<1>p. ASSUME UNCHANGED <<rows, supersedes>>, req'[w].made \in {req[w].made, NoRow} PROVE MadeAlone'
  BY <1>p, <1>t DEF MadeAlone
<1>1. CASE Graduate(w)
  <2>1. PICK e \in Rows \ used :
          /\ rows' = rows \cup {e}
          /\ IF req[w].row = NoRow THEN Answer(w) ELSE Serve(w, [req[w] EXCEPT !.made = e])
    BY <1>1 DEF Graduate
  <2>2. supersedes' = supersedes /\ signed' = signed /\ supersedes[e] = NoRow /\ ~Signed(e)'
    BY <1>1 DEF Graduate, Unborn, Signed
  <2>3. e \notin rows /\ \A f \in rows' : supersedes[f] # e
    BY <2>1, <2>2, <1>t, NoRowAssumption DEF TypeOK, RowsLinked
  <2>4. RowsLinked'
    BY <2>1, <2>2 DEF RowsLinked
  <2>5. MadeAlone'
    <3>1. CASE req[w].row = NoRow
      BY <2>1, <3>1, <1>a
    <3>2. CASE req[w].row # NoRow
      <4>1. req'[w].made = e
        BY <2>1, <3>2, <1>m, <1>t DEF Request
      <4> QED
        BY <4>1, <2>2, <2>3, <1>t DEF MadeAlone
    <3> QED
      BY <3>1, <3>2
  <2>6. \A f \in rows : Replaces(f)' = Replaces(f)
    BY <2>2 DEF Replaces, ClosedChain
  <2> QED
    BY <2>1, <2>2, <2>4, <2>5, <2>6
<1>2. CASE Link(w)
  <2> DEFINE m == req[w].made
             p == req[w].row
  <2>1. p \in rows /\ supersedes' = [supersedes EXCEPT ![m] = p] /\ rows' = rows
        /\ Answer(w) /\ signed' = signed
    BY <1>2 DEF Link
  <2>2. m # NoRow /\ ~Signed(m) /\ \A g \in rows : supersedes[g] # m
    BY <1>2 DEF Link, MadeAlone, StillTrue
  <2>3. RowsLinked'
    BY <2>1, <1>t DEF RowsLinked, TypeOK
  <2>4. \A f \in rows : f # m => Replaces(f)' \subseteq Replaces(f)
    BY <2>1, <2>2, <1>t, LinkShrinks
  <2>5. signed'[m] = "no"
    BY <2>1, <2>2 DEF Signed
  <2> QED
    BY <2>1, <2>3, <2>4, <2>5, <1>a DEF Signed
<1>3. CASE Rollback(w)
  <2>1. req[w].made \in Rows
    BY <1>3, <1>t DEF Rollback, Request
  <2> QED
    BY <1>3, <2>1, <1>u, <1>a DEF Rollback
<1>4. CASE DeleteWrite(w)
  <2>1. req[w].row \in Rows
    BY <1>4, <1>t DEF DeleteWrite, TypeOK
  <2> QED
    BY <1>4, <2>1, <1>u, <1>a DEF DeleteWrite
<1>5. ASSUME UNCHANGED <<rows, supersedes>>, Answer(w)
      PROVE  /\ RowsLinked' /\ MadeAlone'
             /\ \A f \in rows' : f \in rows /\ Replaces(f)' \subseteq Replaces(f)
  BY <1>5, <1>s, <1>a
<1>6. ASSUME UNCHANGED <<rows, supersedes>>, NEW r, Serve(w, r), r.made \in {req[w].made, NoRow}
      PROVE  /\ RowsLinked' /\ MadeAlone'
             /\ \A f \in rows' : f \in rows /\ Replaces(f)' \subseteq Replaces(f)
  BY <1>6, <1>s, <1>p, <1>m
<1>7. CASE IssueStep(w)
  <2>1. ASSUME NEW door, NEW e \in Rows, Serve(w, Revising(door, e)), UNCHANGED rowVars
        PROVE  /\ RowsLinked' /\ MadeAlone'
               /\ \A f \in rows' : f \in rows /\ Replaces(f)' \subseteq Replaces(f)
    <3>1. Revising(door, e).made = NoRow
      BY DEF Revising, Reading, Idle
    <3> QED
      BY <2>1, <3>1, <1>6 DEF rowVars, identity
  <2>2. ASSUME NEW d \in Drafts, IssueFirst(w, d)
        PROVE  /\ RowsLinked' /\ MadeAlone'
               /\ \A f \in rows' : f \in rows /\ Replaces(f)' \subseteq Replaces(f)
    <3>1. [Idle EXCEPT !.door = "issue", !.draft = d].made = NoRow
      BY DEF Idle
    <3> QED
      BY <2>2, <3>1, <1>6 DEF IssueFirst, rowVars, identity
  <2>3. CASE LeaveOrphan(w)
    BY <2>3, <1>5 DEF LeaveOrphan, rowVars, identity
  <2> QED
    BY <1>7, <2>1, <2>2, <2>3, <1>1, <1>2, <1>3, <1>t
       DEF IssueStep, Reissue, Revise, LiveEstimate, LiveOfDraft, TypeOK
<1>8. CASE (OfferStep(w) \/ SignStep(w) \/ ExitStep(w)) /\ ~DeleteWrite(w)
  <2>1. UNCHANGED <<rows, supersedes>>
    BY <1>8, OfferFrame, SignFrame DEF identity, ExitStep, VoidRead, LostRead, ReopenRead,
       ArchiveRead, UnarchiveRead, DeleteRead, SweepRead, VoidWrite, LostWrite, ReopenWrite,
       ArchiveWrite, UnarchiveWrite, SweepWrite, rowVars
  <2>2. req'[w].made \in {req[w].made, NoRow}
    BY <1>8, <1>m, OfferPlain, SignPlain, ExitPlain DEF PlainServe
  <2> QED
    BY <2>1, <2>2, <1>s, <1>p
<1> QED
  BY <1>4, <1>7, <1>8

\* A signature retires what it replaces in the transaction that records it.
LEMMA SignatureRetires ==
  ASSUME FamilyInv, NEW w \in Workers, SignWrite(w)
  PROVE  OneAgreementPerChain'
<1> USE DEF FamilyInv, SerialInv
<1> DEFINE e == req[w].row
<1>1. TypeOK /\ RowsLinked /\ e \in rows /\ ~Signed(e) /\ ~Superseded(e)
  BY DEF SignWrite, Signable
<1>2. /\ UNCHANGED <<rows, supersedes>> /\ voided' = voided \cup Replaced(e)
      /\ \A r \in Rows : r # e => /\ signed'[r] = signed[r]
                                  /\ status'[r] = IF r \in Replaced(e) THEN "void" ELSE status[r]
  BY DEF SignWrite, identity, TypeOK
<1>3. \A r \in Rows : r # e /\ LiveSigned(r)' => LiveSigned(r) /\ r \notin Replaced(e)
  BY <1>2 DEF LiveSigned, Signed
<1>4. \A f \in rows : e \notin Replaces(f) /\ Replaces(f) \subseteq rows /\ Replaces(f)' = Replaces(f)
  BY <1>1, <1>2, NotReplaced, ReplacesRows DEF Replaces, ClosedChain
<1>5. \A r \in Replaces(e) : ~LiveSigned(r)'
  BY <1>1, <1>3, <1>4 DEF Replaced, TypeOK
<1>6. \A f \in rows : f # e /\ LiveSigned(f)' => \A r \in Replaces(f) : ~LiveSigned(r)'
  BY <1>1, <1>3, <1>4 DEF OneAgreementPerChain, TypeOK
<1> QED
  BY <1>2, <1>4, <1>5, <1>6 DEF OneAgreementPerChain

LEMMA FamilyStep ==
  ASSUME OneWorker, FamilyInv, [Next]_vars
  PROVE  FamilyInv'
<1>1. SerialInv'
  BY SerialStep DEF FamilyInv
<1>2. ASSUME NEW w \in Workers,
             IssueStep(w) \/ OfferStep(w) \/ SignStep(w) \/ ExitStep(w)
      PROVE  RowsLinked' /\ MadeAlone' /\ OneAgreementPerChain'
  <2>1. RowsLinked' /\ MadeAlone'
    BY <1>2, LinksKept
  <2>2. CASE SignWrite(w)
    BY <2>1, <2>2, SignatureRetires
  <2>3. CASE ~SignWrite(w)
    <3> SUFFICES ASSUME NEW f \in rows', LiveSigned(f)', NEW r \in Replaces(f)', LiveSigned(r)'
                 PROVE  FALSE
      BY <2>1 DEF OneAgreementPerChain
    <3>1. f \in rows /\ r \in Replaces(f)
      BY <1>2, LinksKept DEF LiveSigned
    <3>2. f \in Rows /\ r \in Rows
      BY <3>1 DEF FamilyInv, SerialInv, TypeOK, Replaces
    <3>3. LiveSigned(f) /\ LiveSigned(r)
      BY <1>2, <2>3, <3>2, LiveStays DEF FamilyInv
    <3> QED
      BY <3>1, <3>3 DEF FamilyInv, OneAgreementPerChain
  <2> QED
    BY <2>2, <2>3, <2>1
<1>3. ASSUME NEW w \in Workers, Abandon(w)
      PROVE  RowsLinked' /\ MadeAlone' /\ OneAgreementPerChain'
  <2>1. UNCHANGED <<rows, supersedes, signed, voided, status>>
    BY <1>3 DEF Abandon, rowVars, identity, marks
  <2>2. \A v \in Workers : req'[v].made = NoRow
    BY <1>3 DEF Abandon, Answer, Serve, OneWorker, FamilyInv, SerialInv, TypeOK, Idle
  <2> QED
    BY <2>1, <2>2 DEF FamilyInv, RowsLinked, MadeAlone, OneAgreementPerChain, LiveSigned, Signed,
       Replaces, ClosedChain
<1>4. CASE UNCHANGED <<identity, status, signed, marks, req>>
  <2>1. RowsLinked' /\ MadeAlone'
    BY <1>4 DEF FamilyInv, RowsLinked, MadeAlone, identity
  <2>2. \A f : Replaces(f)' = Replaces(f) /\ LiveSigned(f)' = LiveSigned(f)
    BY <1>4 DEF Replaces, ClosedChain, LiveSigned, Signed, identity, marks
  <2> QED
    BY <1>1, <1>4, <2>1, <2>2 DEF FamilyInv, OneAgreementPerChain, identity
<1> QED
  BY <1>1, <1>2, <1>3, <1>4 DEF FamilyInv, Next, Lapse, vars, rowVars

\* One request at a time, of a revision and everything it replaces at most
\* one row is a live signed agreement: the take-over retires the older one in
\* the signature's own transaction, and no void, undo, delete or restart in
\* the middle of a revise brings a second one back.
THEOREM SerialOneAgreement == ASSUME OneWorker PROVE Spec => []OneAgreementPerChain
<1>1. Init => FamilyInv
  <2> SUFFICES ASSUME Init PROVE FamilyInv
    OBVIOUS
  <2>1. rows = {} /\ \A w \in Workers : req[w].made = NoRow
    BY DEF Init, Idle
  <2> QED
    BY <2>1, SerialInit DEF FamilyInv, RowsLinked, MadeAlone, OneAgreementPerChain
<1>2. FamilyInv => OneAgreementPerChain
  BY DEF FamilyInv
<1> QED
  BY <1>1, <1>2, FamilyStep, PTL DEF Spec
=============================================================================
