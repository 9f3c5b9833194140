--------------------------- MODULE IssuedEstimate ---------------------------
(***************************************************************************)
(* The issued estimate: one database row per revision, and the doors that  *)
(* move it.  Most doors read the row, decide, and write it back in a later *)
(* statement, so a door is a request with two steps: the read opens it and *)
(* keeps what it saw, the write closes it.  Between the two every other    *)
(* request may run.  The database is READ COMMITTED: a write sees the row  *)
(* as it is at the write, and only what its own WHERE names is checked     *)
(* again.                                                                  *)
(*                                                                         *)
(* This module owns the row: status, signature, void / lost / archived     *)
(* marks and the revision chain.  What the same handlers do to jobs,       *)
(* change orders and money is outside it.                                  *)
(***************************************************************************)
EXTENDS Naturals

CONSTANTS
  Rows,      \* ids a row can be created under; never used twice
  Drafts,    \* price-book drafts that can be issued
  Workers,   \* requests the server may be serving at one time
  Captures,  \* client ids of signatures captured on a technician's phone
  Doors,     \* the doors open in this instance
  MaxNumber, \* bound on house numbers; Cardinality(Rows) never binds
  NoRow, NoCapture

ASSUME NoRowAssumption == NoRow \notin Rows
ASSUME NoCaptureAssumption == NoCapture \notin Captures
ASSUME MaxNumberAssumption == MaxNumber \in Nat

Statuses == {"draft", "sent", "viewed", "signed", "expired", "lost", "void"}
Channels == {"email", "in_person", "office"}
AllDoors == {"issue", "reissue", "revise", "send", "view", "sign", "accept",
             "unaccept", "void", "lost", "reopen", "archive", "unarchive",
             "compete", "sweep", "delete", "lapse", "crash"}

VARIABLES
  rows, used,          \* rows in the table; ids ever given out
  draftOf,             \* draftId
  number, revision,    \* house number and revision
  supersedes,          \* supersedesId
  status,
  signed,              \* signedChannel, "no" while signedAt is null
  capture,             \* clientSignatureId
  viewed,              \* rows with firstViewedAt
  voided, lost,        \* rows with voidedAt, lostAt
  archived, kept,      \* rows with archivedAt; rows a person took back out
  tookOver,            \* rows with an invoice_taken_over event
  lapsed,              \* rows past createdAt + validDays
  req                  \* what each request in flight is doing and has seen

identity == <<rows, used, draftOf, number, revision, supersedes>>
marks == <<viewed, voided, lost, archived, kept, tookOver>>
rowVars == <<identity, status, signed, capture, marks, lapsed>>
vars == <<rowVars, req>>

-----------------------------------------------------------------------------
(* Requests.                                                               *)

Idle == [door |-> "idle", row |-> NoRow, made |-> NoRow, draft |-> NoRow,
         saw |-> "draft", num |-> 0, rev |-> 0, via |-> "no",
         cap |-> NoCapture, found |-> {}]

Free(w) == req[w] = Idle
Serve(w, request) == req' = [req EXCEPT ![w] = request]
Answer(w) == Serve(w, Idle)
\* A request on one row; one that will write back the status it read.
Reading(door, e) == [Idle EXCEPT !.door = door, !.row = e]
Keeping(door, e, s) == [Reading(door, e) EXCEPT !.saw = s]

\* A row under construction has left the server in no answer yet, so no
\* client door names it.  Server-side lookups do see it.
Building == {req[w].made : w \in Workers}
Shown == rows \ Building

-----------------------------------------------------------------------------
(* The row.                                                                *)

SupersededBy(e) == {f \in rows : supersedes[f] = e}
Superseded(e) == SupersededBy(e) # {}
Signed(e) == signed[e] # "no"
LiveSigned(e) == Signed(e) /\ e \notin voided /\ status[e] = "signed"
Losable == {"sent", "viewed", "expired"}
Expirable == {"sent", "viewed"}

\* The rows e replaces, walking supersedesId: the least set closed under it.
ClosedChain(S) == \A x \in S : supersedes[x] \in S \cup {NoRow}
Replaces(e) ==
  {r \in Rows : \A S \in SUBSET Rows :
     (ClosedChain(S) /\ supersedes[e] \in S \cup {NoRow}) => r \in S}

\* Where a reopened or un-accepted row goes back to.
ReopenedStatus(e) == IF e \in lapsed THEN "expired"
                     ELSE IF e \in viewed THEN "viewed" ELSE "sent"

NextNumber(n) == /\ \A e \in rows : number[e] < n
                 /\ n = 1 \/ \E e \in rows : number[e] = n - 1

Init ==
  /\ rows = {} /\ used = {}
  /\ draftOf = [e \in Rows |-> NoRow]
  /\ number = [e \in Rows |-> 0]
  /\ revision = [e \in Rows |-> 0]
  /\ supersedes = [e \in Rows |-> NoRow]
  /\ status = [e \in Rows |-> "draft"]
  /\ signed = [e \in Rows |-> "no"]
  /\ capture = [e \in Rows |-> NoCapture]
  /\ viewed = {} /\ voided = {} /\ lost = {} /\ archived = {} /\ kept = {}
  /\ tookOver = {} /\ lapsed = {}
  /\ req = [w \in Workers |-> Idle]

-----------------------------------------------------------------------------
(* Issue and revise.                                                       *)

\* Candidates of liveEstimateOfDraft; findFirst takes one of highest revision.
LiveOfDraft(d) == {e \in rows : draftOf[e] = d /\ ~Superseded(e) /\ status[e] # "void"}
LiveEstimate(d) == {e \in LiveOfDraft(d) : \A f \in LiveOfDraft(d) : revision[f] <= revision[e]}

\* reviseEstimate keeps the number and revision it read.
Revising(door, e) == [Reading(door, e) EXCEPT
                        !.draft = draftOf[e], !.num = number[e], !.rev = revision[e]]

\* issueDraft on a draft with no live estimate.
IssueFirst(w, d) ==
  /\ "issue" \in Doors /\ Free(w)
  /\ LiveOfDraft(d) = {}
  /\ Serve(w, [Idle EXCEPT !.door = "issue", !.draft = d])
  /\ UNCHANGED rowVars

\* issueDraft on a draft with a live, unsigned estimate: a revision that
\* refuses to replace a signed row.
Reissue(w, d) ==
  /\ "reissue" \in Doors /\ Free(w)
  /\ \E e \in LiveEstimate(d) :
       /\ ~Signed(e) /\ status[e] # "lost"
       /\ Serve(w, Revising("reissue", e))
  /\ UNCHANGED rowVars

\* The office's Revise button: a signed row may be revised.
MayRevise(e) == e \in Shown /\ ~Superseded(e) /\ status[e] # "lost"
Revise(w, e) ==
  /\ "revise" \in Doors /\ Free(w) /\ MayRevise(e)
  /\ Serve(w, Revising("revise", e))
  /\ UNCHANGED rowVars

\* graduateDraft: a new row, revision 1 of the next number.  The loser of a
\* race for the number fails on (number, revision) and leaves nothing.
Graduate(w) ==
  /\ req[w].door \in {"issue", "reissue", "revise"} /\ req[w].made = NoRow
  /\ \E e \in Rows \ used, n \in 1..MaxNumber :
       /\ NextNumber(n)
       /\ rows' = rows \cup {e}
       /\ used' = used \cup {e}
       /\ draftOf' = [draftOf EXCEPT ![e] = req[w].draft]
       /\ number' = [number EXCEPT ![e] = n]
       /\ revision' = [revision EXCEPT ![e] = 1]
       /\ IF req[w].row = NoRow THEN Answer(w)
          ELSE Serve(w, [req[w] EXCEPT !.made = e])
  /\ UNCHANGED <<supersedes, status, signed, capture, marks, lapsed>>

\* What the supersede checks again, under the row lock.
\* (mutated: the signature is not looked at again)
MayReplaceUnlocked(w) == ~Superseded(req[w].row)
MayReplace(w) == /\ ~Superseded(req[w].row)
                 /\ req[w].door = "reissue" => ~Signed(req[w].row)
NumberFree(w) == \A f \in rows \ {req[w].made} :
                   ~(number[f] = req[w].num /\ revision[f] = req[w].rev + 1)

\* The supersede commits: linkRevision re-keys the new row and links it.
Link(w) ==
  /\ req[w].made # NoRow /\ req[w].row \in rows
  /\ MayReplace(w) /\ NumberFree(w)
  /\ number' = [number EXCEPT ![req[w].made] = req[w].num]
  /\ revision' = [revision EXCEPT ![req[w].made] = req[w].rev + 1]
  /\ supersedes' = [supersedes EXCEPT ![req[w].made] = req[w].row]
  /\ Answer(w)
  /\ UNCHANGED <<rows, used, draftOf, status, signed, capture, marks, lapsed>>

\* Rows that named e as the row they replace lose the link (delete's
\* updateMany, or the foreign key's SET NULL).
Unlinked(e) == [f \in Rows |-> IF supersedes[f] = e THEN NoRow ELSE supersedes[f]]

\* The supersede is refused: the row just built is deleted.
Rollback(w) ==
  /\ req[w].made # NoRow /\ req[w].row \in rows /\ ~MayReplace(w)
  /\ rows' = rows \ {req[w].made}
  /\ supersedes' = Unlinked(req[w].made)
  /\ Answer(w)
  /\ UNCHANGED <<used, draftOf, number, revision, status, signed, capture, marks, lapsed>>

\* Any other failure of that transaction (the row is gone, the revision
\* number is taken) is rethrown and the row just built stays.
LeaveOrphan(w) ==
  /\ req[w].made # NoRow
  /\ req[w].row \notin rows \/ (MayReplace(w) /\ ~NumberFree(w))
  /\ Answer(w)
  /\ UNCHANGED rowVars

-----------------------------------------------------------------------------
(* Send and first view: an email goes out, or a page renders, between the  *)
(* read and an update keyed by id alone that writes back the status read.  *)

MaySend(e) == /\ e \in Shown /\ ~Superseded(e) /\ ~Signed(e)
              /\ status[e] \notin {"void", "lost"} /\ e \notin archived
SendRead(w, e) ==
  /\ "send" \in Doors /\ Free(w) /\ MaySend(e)
  /\ Serve(w, Keeping("send", e, status[e]))
  /\ UNCHANGED rowVars

SendWrite(w) ==
  /\ req[w].door = "send" /\ req[w].row \in rows
  /\ status' = [status EXCEPT ![req[w].row] = IF req[w].saw = "draft" THEN "sent" ELSE req[w].saw]
  /\ Answer(w)
  /\ UNCHANGED <<identity, signed, capture, marks, lapsed>>

MayView(e) == /\ e \in Shown /\ ~Superseded(e) /\ ~Signed(e)
              /\ status[e] \notin {"void", "lost"} /\ e \notin viewed
ViewRead(w, e) ==
  /\ "view" \in Doors /\ Free(w) /\ MayView(e)
  /\ Serve(w, Keeping("view", e, status[e]))
  /\ UNCHANGED rowVars

ViewWrite(w) ==
  /\ req[w].door = "view" /\ req[w].row \in rows
  /\ status' = [status EXCEPT ![req[w].row] = IF req[w].saw = "sent" THEN "viewed" ELSE req[w].saw]
  /\ viewed' = viewed \cup {req[w].row}
  /\ Answer(w)
  /\ UNCHANGED <<identity, signed, capture, voided, lost, archived, kept, tookOver, lapsed>>

-----------------------------------------------------------------------------
(* Signing.  Three doors, one write: every condition that guards it is in  *)
(* the WHERE of one conditional update.                                    *)

\* (mutated: only the signature is checked in the write)
SignableStale(e) == e \in rows /\ ~Signed(e)
\* (mutated: all but the signature is)
SignableTwice(e) == e \in rows /\ status[e] \notin {"void", "lost"} /\ ~Superseded(e)
Signable(e) == /\ e \in rows /\ ~Signed(e)
               /\ status[e] \notin {"void", "lost"} /\ ~Superseded(e)

\* The unique index on clientSignatureId.
CaptureFree(e, c) == c # NoCapture => \A f \in rows \ {e} : capture[f] # c

\* The emailed link, the office's device (no capture) or a capture from a
\* technician's phone, whose 30 days are judged when it was captured.
SignRead(w, e, via, c) ==
  /\ "sign" \in Doors /\ Free(w) /\ e \in Shown
  /\ c # NoCapture => via = "in_person"
  /\ ~Superseded(e) /\ status[e] \notin {"void", "lost"} /\ ~Signed(e)
  /\ CaptureFree(e, c)
  /\ c = NoCapture => e \notin lapsed
  /\ Serve(w, [Reading("sign", e) EXCEPT !.via = via, !.cap = c])
  /\ UNCHANGED rowVars

\* The office records an acceptance it was told of.
AcceptRead(w, e) ==
  /\ "accept" \in Doors /\ Free(w) /\ e \in Shown
  /\ ~Signed(e) /\ e \notin voided /\ e \notin lost /\ ~Superseded(e)
  /\ status[e] \in {"sent", "viewed"} /\ e \notin lapsed
  /\ Serve(w, [Reading("sign", e) EXCEPT !.via = "office"])
  /\ UNCHANGED rowVars

\* adoptSupersededInvoice: the live signed rows e takes the invoice over from.
\* (mutated: not from one signed at the office)
ReplacedEmailed(e) == {r \in Replaces(e) : LiveSigned(r) /\ signed[r] # "office"}
Replaced(e) == {r \in Replaces(e) : LiveSigned(r)}

SignWrite(w) ==
  LET e == req[w].row IN
  /\ req[w].door = "sign"
  /\ Signable(e) /\ CaptureFree(e, req[w].cap)
  /\ signed' = [signed EXCEPT ![e] = req[w].via]
  /\ status' = [r \in Rows |-> IF r = e THEN "signed"
                               ELSE IF r \in Replaced(e) THEN "void" ELSE status[r]]
  /\ voided' = voided \cup Replaced(e)
  /\ capture' = [capture EXCEPT ![e] = IF req[w].via = "office" THEN @ ELSE req[w].cap]
  /\ archived' = archived \ {e}
  /\ tookOver' = IF Replaced(e) = {} THEN tookOver \ {e} ELSE tookOver \cup {e}
  /\ Serve(w, [Idle EXCEPT !.door = "signed", !.row = e])
  /\ UNCHANGED <<identity, viewed, lost, kept, lapsed>>

\* Every signing door then puts away the competing offers at the address.
\* Which rows share the address is a choice.
Competing(e) == {f \in rows \ {e} :
                   /\ status[f] \in Losable /\ ~Signed(f) /\ f \notin voided \cup lost
                   /\ ~Superseded(f) /\ f \notin archived \cup kept}

CompeteRead(w) ==
  /\ req[w].door = "signed" /\ "compete" \in Doors
  /\ req[w].row \in rows /\ Signed(req[w].row)
  /\ \E F \in SUBSET Competing(req[w].row) :
       Serve(w, [req[w] EXCEPT !.door = "compete", !.found = F])
  /\ UNCHANGED rowVars

\* (mutated: the signature is not looked at again)
StillInPlay(f) == f \in rows /\ f \notin archived
StillCompeting(f) == f \in rows /\ f \notin archived /\ ~Signed(f)

CompeteWrite(w) ==
  /\ req[w].door = "compete"
  /\ archived' = archived \cup {f \in req[w].found : StillCompeting(f)}
  /\ Answer(w)
  /\ UNCHANGED <<identity, status, signed, capture, viewed, voided, lost, kept, tookOver, lapsed>>

\* Undo of an office acceptance.
\* (mutated: whoever signed)
MayUndoAny(e) == /\ e \in Shown /\ status[e] # "void" /\ e \notin voided
                 /\ Signed(e) /\ e \notin tookOver
MayUndo(e) == /\ e \in Shown /\ status[e] # "void" /\ e \notin voided
              /\ signed[e] = "office" /\ e \notin tookOver
UnacceptRead(w, e) ==
  /\ "unaccept" \in Doors /\ Free(w) /\ MayUndo(e)
  /\ Serve(w, Keeping("unaccept", e, ReopenedStatus(e)))
  /\ UNCHANGED rowVars

UnacceptWrite(w) ==
  /\ req[w].door = "unaccept" /\ req[w].row \in rows
  /\ signed' = [signed EXCEPT ![req[w].row] = "no"]
  /\ status' = [status EXCEPT ![req[w].row] = req[w].saw]
  /\ Answer(w)
  /\ UNCHANGED <<identity, capture, marks, lapsed>>

-----------------------------------------------------------------------------
(* The exits: void for a signed row, lost for an offer, delete for a row   *)
(* nobody signed, the archive, and the nightly relabel.                    *)

MayVoid(e) == e \in Shown /\ Signed(e) /\ e \notin voided /\ status[e] # "void"
VoidRead(w, e) ==
  /\ "void" \in Doors /\ Free(w) /\ MayVoid(e)
  /\ Serve(w, Reading("void", e))
  /\ UNCHANGED rowVars

VoidWrite(w) ==
  /\ req[w].door = "void" /\ req[w].row \in rows
  /\ status' = [status EXCEPT ![req[w].row] = "void"]
  /\ voided' = voided \cup {req[w].row}
  /\ Answer(w)
  /\ UNCHANGED <<identity, signed, capture, viewed, lost, archived, kept, tookOver, lapsed>>

MayLose(e) == /\ e \in Shown /\ status[e] \in Losable
              /\ e \notin lost \cup voided /\ ~Signed(e) /\ ~Superseded(e)
LostRead(w, e) ==
  /\ "lost" \in Doors /\ Free(w) /\ MayLose(e)
  /\ Serve(w, Reading("lost", e))
  /\ UNCHANGED rowVars

LostWrite(w) ==
  /\ req[w].door = "lost" /\ req[w].row \in rows
  /\ status' = [status EXCEPT ![req[w].row] = "lost"]
  /\ lost' = lost \cup {req[w].row}
  /\ Answer(w)
  /\ UNCHANGED <<identity, signed, capture, viewed, voided, archived, kept, tookOver, lapsed>>

ReopenRead(w, e) ==
  /\ "reopen" \in Doors /\ Free(w) /\ e \in Shown
  /\ status[e] = "lost" \/ e \in lost
  /\ Serve(w, Keeping("reopen", e, ReopenedStatus(e)))
  /\ UNCHANGED rowVars

ReopenWrite(w) ==
  /\ req[w].door = "reopen" /\ req[w].row \in rows
  /\ status' = [status EXCEPT ![req[w].row] = req[w].saw]
  /\ lost' = lost \ {req[w].row}
  /\ Answer(w)
  /\ UNCHANGED <<identity, signed, capture, viewed, voided, archived, kept, tookOver, lapsed>>

MayArchive(e) == /\ e \in Shown /\ e \notin archived \cup voided \cup lost
                 /\ ~Signed(e) /\ ~Superseded(e)
                 /\ status[e] \notin {"signed", "void", "lost"}
ArchiveRead(w, e) ==
  /\ "archive" \in Doors /\ Free(w) /\ MayArchive(e)
  /\ Serve(w, Reading("archive", e))
  /\ UNCHANGED rowVars

ArchiveWrite(w) ==
  /\ req[w].door = "archive" /\ req[w].row \in rows
  /\ archived' = archived \cup {req[w].row}
  /\ Answer(w)
  /\ UNCHANGED <<identity, status, signed, capture, viewed, voided, lost, kept, tookOver, lapsed>>

UnarchiveRead(w, e) ==
  /\ "unarchive" \in Doors /\ Free(w) /\ e \in Shown
  /\ e \in archived
  /\ Serve(w, Reading("unarchive", e))
  /\ UNCHANGED rowVars

UnarchiveWrite(w) ==
  /\ req[w].door = "unarchive" /\ req[w].row \in rows
  /\ archived' = archived \ {req[w].row}
  /\ kept' = kept \cup {req[w].row}
  /\ Answer(w)
  /\ UNCHANGED <<identity, status, signed, capture, viewed, voided, lost, tookOver, lapsed>>

\* (mutated: by date alone)
ExpiringByDate == {e \in rows \cap lapsed : ~Superseded(e)}
Expiring == {e \in rows \cap lapsed :
               /\ status[e] \in Expirable /\ ~Signed(e)
               /\ e \notin voided \cup lost /\ ~Superseded(e)}
SweepRead(w) ==
  /\ "sweep" \in Doors /\ Free(w) /\ Expiring # {}
  /\ Serve(w, [Idle EXCEPT !.door = "sweep", !.found = Expiring])
  /\ UNCHANGED rowVars

SweepWrite(w) ==
  /\ req[w].door = "sweep"
  /\ status' = [e \in Rows |-> IF e \in req[w].found \cap rows THEN "expired" ELSE status[e]]
  /\ Answer(w)
  /\ UNCHANGED <<identity, signed, capture, marks, lapsed>>

MayDelete(e) == e \in Shown /\ ~Signed(e)
DeleteRead(w, e) ==
  /\ "delete" \in Doors /\ Free(w) /\ MayDelete(e)
  /\ Serve(w, Reading("delete", e))
  /\ UNCHANGED rowVars

DeleteWrite(w) ==
  /\ req[w].door = "delete" /\ req[w].row \in rows
  /\ rows' = rows \ {req[w].row}
  /\ supersedes' = Unlinked(req[w].row)
  /\ Answer(w)
  /\ UNCHANGED <<used, draftOf, number, revision, status, signed, capture, marks, lapsed>>

-----------------------------------------------------------------------------
(* A request may end with nothing written: its write was refused, it threw,*)
(* or the server restarted.  A restart in the middle of a revise leaves    *)
(* the row it had built.                                                   *)

Abandon(w) ==
  /\ req[w] # Idle
  /\ req[w].made = NoRow \/ "crash" \in Doors
  /\ Answer(w)
  /\ UNCHANGED rowVars

\* The validity window of an offer closes.
Lapse(e) ==
  /\ "lapse" \in Doors /\ e \in rows \ lapsed
  /\ lapsed' = lapsed \cup {e}
  /\ UNCHANGED <<identity, status, signed, capture, marks, req>>

-----------------------------------------------------------------------------
IssueStep(w) ==
  \/ \E d \in Drafts : IssueFirst(w, d) \/ Reissue(w, d)
  \/ \E e \in Rows : Revise(w, e)
  \/ Graduate(w) \/ Link(w) \/ Rollback(w) \/ LeaveOrphan(w)

OfferStep(w) ==
  \/ \E e \in Rows : SendRead(w, e) \/ ViewRead(w, e)
  \/ SendWrite(w) \/ ViewWrite(w)

SignStep(w) ==
  \/ \E e \in Rows, via \in {"email", "in_person"}, c \in Captures \cup {NoCapture} :
       SignRead(w, e, via, c)
  \/ \E e \in Rows : AcceptRead(w, e) \/ UnacceptRead(w, e)
  \/ SignWrite(w) \/ UnacceptWrite(w) \/ CompeteRead(w) \/ CompeteWrite(w)

ExitStep(w) ==
  \/ \E e \in Rows : \/ VoidRead(w, e) \/ LostRead(w, e) \/ ReopenRead(w, e)
                     \/ ArchiveRead(w, e) \/ UnarchiveRead(w, e) \/ DeleteRead(w, e)
  \/ SweepRead(w)
  \/ VoidWrite(w) \/ LostWrite(w) \/ ReopenWrite(w)
  \/ ArchiveWrite(w) \/ UnarchiveWrite(w) \/ DeleteWrite(w) \/ SweepWrite(w)

Next ==
  \/ \E w \in Workers : \/ IssueStep(w) \/ OfferStep(w) \/ SignStep(w)
                        \/ ExitStep(w) \/ Abandon(w)
  \/ \E e \in Rows : Lapse(e)

Spec == Init /\ [][Next]_vars

-----------------------------------------------------------------------------
(* Properties.                                                             *)

Request == [door : AllDoors \cup {"idle", "signed"}, row : Rows \cup {NoRow},
            made : Rows \cup {NoRow}, draft : Drafts \cup {NoRow}, saw : Statuses,
            num : Nat, rev : Nat, via : Channels \cup {"no"},
            cap : Captures \cup {NoCapture}, found : SUBSET Rows]

TypeOK ==
  /\ rows \subseteq used /\ used \subseteq Rows
  /\ draftOf \in [Rows -> Drafts \cup {NoRow}]
  /\ number \in [Rows -> Nat] /\ revision \in [Rows -> Nat]
  /\ supersedes \in [Rows -> Rows \cup {NoRow}]
  /\ status \in [Rows -> Statuses]
  /\ signed \in [Rows -> Channels \cup {"no"}]
  /\ capture \in [Rows -> Captures \cup {NoCapture}]
  /\ viewed \subseteq Rows /\ voided \subseteq Rows /\ lost \subseteq Rows
  /\ archived \subseteq Rows /\ kept \subseteq Rows /\ tookOver \subseteq Rows
  /\ lapsed \subseteq Rows
  /\ req \in [Workers -> Request]

\* Of a revision and everything it replaces at most one row is a live signed
\* agreement, so no surface that reads LIVE_SIGNED counts a sale twice.
OneAgreementPerChain ==
  \A e \in rows : LiveSigned(e) => \A r \in Replaces(e) : ~LiveSigned(r)

\* Two live signed rows never carry the same house number: the invoice is
\* the newest signed revision of the number.
OneAgreementPerNumber ==
  \A e, f \in rows : (e # f /\ number[e] = number[f]) => ~(LiveSigned(e) /\ LiveSigned(f))

\* A row is replaced by at most one revision: the check under the row lock
\* and the unique (number, revision) each see to it.
NoFork == \A e \in rows, f \in rows :
  (supersedes[e] = supersedes[f] /\ supersedes[e] # NoRow) => e = f

\* One capture on a phone is one signature on one estimate.
CaptureOnce == \A e \in rows, f \in rows :
  (capture[e] = capture[f] /\ capture[e] # NoCapture) => e = f

\* A signature lands only on an offer that is open at that moment: not void,
\* not lost, not replaced, whatever the doors did since it was read.
SignatureLandsOnOpenOffer ==
  [][\A e \in rows : (~Signed(e) /\ signed'[e] # "no") =>
       status[e] \notin {"void", "lost"} /\ ~Superseded(e)]_vars

\* A recorded signature is never overwritten by a second one.
SignOnce ==
  [][\A e \in rows : (Signed(e) /\ signed'[e] # "no") =>
       signed'[e] = signed[e] /\ (signed[e] # "office" => capture'[e] = capture[e])]_vars

\* Neither app's Issue button replaces an agreement the customer has signed.
IssueSparesSigned ==
  [][\A e \in rows, f \in rows :
       (supersedes[f] # e /\ supersedes'[f] = e /\ Signed(e)) =>
         \E w \in Workers : req[w].made = f /\ req[w].door = "revise"]_vars

\* A signed row stays a sale on every list until it is voided.
SignedStatusKept == \A e \in rows : Signed(e) => status[e] \in {"signed", "void"}

\* Archived means unsigned: what keeps archiving off every money surface.
ArchivedUnsigned == \A e \in rows : e \in archived => ~Signed(e)

\* Void is never reversible.
VoidIsFinal == \A e \in rows : e \in voided => status[e] = "void"

\* Only what the office itself recorded is taken back.
SignatureNotErased ==
  [][\A e \in rows : (Signed(e) /\ signed'[e] = "no") => signed[e] = "office"]_vars

\* A signed estimate is never deleted.
SignedNeverDeleted == [][\A e \in rows : Signed(e) => e \in rows']_vars

\* No revision is made on top of a lost offer that nobody reopened.
LostNotReplaced ==
  [][\A e \in rows, f \in rows :
       (supersedes[f] # e /\ supersedes'[f] = e) => status[e] # "lost"]_vars
=============================================================================
