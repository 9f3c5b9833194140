------------------------ MODULE SignatureQueue_proofs ------------------------
(***************************************************************************)
(* For any captures, estimates and faults of the network, the phone and    *)
(* the office: a capture is followed up once, nothing leaves the phone     *)
(* without a trace, no cancellation is filed for a signature on record,    *)
(* and the queue keeps the promise of SignatureFate.                       *)
(***************************************************************************)
EXTENDS SignatureQueue, TLAPS

-----------------------------------------------------------------------------
(* What holds in every world.                                              *)

ReplyKinds == {"none", "ok", "cut", "refused", "busy", "auth"}
Shape ==
  /\ TypeOK /\ trouble \in Troubles
  /\ request # NoRequest => request \in [reply : ReplyKinds, q : Requests]

\* A capture is followed up when its signature is written, and never again.
Followed ==
  \A c \in Captures : followed[c] \in {0, 1} /\ (followed[c] = 1 => holder[Of[c]] = c)

Off == {"cancelled", "filed", "unfiled", "removed"}
Kept == {"none", "queued", "recorded", "pruned", "refused", "told"}

\* A row says why it was taken off, and one that says "recorded" is.
RowHolds(c) ==
  /\ row[c].state \in Kept => row[c].why = "none"
  /\ row[c].state \in Off => row[c].why # "none"
  /\ row[c].state \in {"recorded", "pruned"} => holder[Of[c]] = c
  /\ row[c].state = "none" => screen[c] = "none" /\ \A q \in late : q.of # c
  /\ row[c].state = "told" => screen[c] = "refused"
RowsHold == \A c \in Captures : RowHolds(c)

\* The row on the wire stays as it was sent, and a "yes" to a signature is true.
WireHolds ==
  request # NoRequest =>
    /\ request.q.kind = "sign" => row[request.q.of].state = "queued"
    /\ request.q.kind # "sign" => /\ row[request.q.of].state = "cancelled"
                                  /\ row[request.q.of].why = request.q.kind
    /\ (request.q.kind = "sign" /\ request.reply \in {"ok", "cut"}) =>
         holder[Of[request.q.of]] = request.q.of

\* With no request given up on, a filed cancellation is of an unsigned capture.
CancelHolds ==
  "slow" \notin trouble =>
    /\ late = {}
    /\ \A c \in Captures : <<c, "cancelled">> \in filed => row[c].state \in Off /\ holder[Of[c]] # c

Base == Shape /\ Followed /\ RowsHold /\ WireHolds /\ CancelHolds

-----------------------------------------------------------------------------
(* What holds while the technician stays on the visit.                     *)

Assigned == \A world \in Troubles : "unassign" \notin world

\* The estimate carries another signature, or takes none.
Lost(c) == holder[Of[c]] # c /\ (holder[Of[c]] # Nobody \/ Of[c] \in closed)

\* A capture the phone says was refused never will be signed.
RefusalsHold ==
  /\ mine = Estimates
  /\ \A c \in Captures :
       row[c].state \in {"refused", "told"} \/ row[c].why = "dismissed" => Lost(c)
  /\ (request # NoRequest /\ request.q.kind = "sign" /\ request.reply = "refused") =>
       Lost(request.q.of)

-----------------------------------------------------------------------------
(* What holds while the office files what it answers.                      *)

Filing == \A world \in Troubles : "crash" \notin world
EventsHold ==
  /\ \A c \in Captures : row[c].state = "filed" => <<c, row[c].why>> \in filed
  /\ (request # NoRequest /\ request.q.kind # "sign" /\ request.reply \in {"ok", "cut"}) =>
       <<request.q.of, request.q.kind>> \in filed

-----------------------------------------------------------------------------
(* A capture waits for its try.                                            *)

Waits(c) ==
  screen[c] = "asking" =>
    /\ open /\ pass # "idle"
    /\ (row[c].state = "queued" /\ ~row[c].tried) =>
         \/ short \/ pass = "due" \/ again
         \/ [of |-> c, state |-> "queued"] \in todo
         \/ InFlight(c)
TryHolds == \A c \in Captures : Waits(c)

-----------------------------------------------------------------------------
(* What each step does to the row it is about.                             *)

Same(c) == \A d \in Captures \ {c} : row'[d] = row[d]
Typed == row \in [Captures -> Rows]

LEMMA RowFields ==
  ASSUME Typed, NEW c \in Captures
  PROVE  /\ row[c] \in Rows
         /\ row[c].state \in RowStates /\ row[c].why \in {"none", "cancelled", "dismissed"}
BY DEF Typed, Rows

LEMMA SetState ==
  ASSUME Typed, NEW c \in Captures, NEW s \in RowStates, Becomes(c, s)
  PROVE  /\ Typed' /\ Same(c)
         /\ row'[c].state = s /\ row'[c].why = row[c].why /\ row'[c].tried = row[c].tried
<1>1. row' = [row EXCEPT ![c] = [row[c] EXCEPT !.state = s]]
  BY DEF Becomes
<1>2. [row[c] EXCEPT !.state = s] \in Rows
  BY RowFields DEF Rows
<1>3. Typed' /\ Same(c) /\ row'[c] = [row[c] EXCEPT !.state = s]
  BY <1>1, <1>2 DEF Typed, Same
<1> QED BY <1>3, RowFields DEF Rows

LEMMA SetRecorded ==
  ASSUME Typed, NEW c \in Captures, NEW b \in BOOLEAN,
         row' = [row EXCEPT ![c].state = "recorded", ![c].result = b]
  PROVE  /\ Typed' /\ Same(c)
         /\ row'[c].state = "recorded" /\ row'[c].why = row[c].why
<1> DEFINE r == [row[c] EXCEPT !.state = "recorded", !.result = b]
<1>1. row' = [row EXCEPT ![c] = r]
  OBVIOUS
<1>2. r \in Rows /\ r.state = "recorded" /\ r.why = row[c].why
  BY RowFields DEF Rows, RowStates
<1> HIDE DEF r
<1> QED BY <1>1, <1>2 DEF Typed, Same

LEMMA SetRefused ==
  ASSUME Typed, NEW c \in Captures, NEW s \in RowStates,
         row' = [row EXCEPT ![c].state = s, ![c].tried = TRUE]
  PROVE  /\ Typed' /\ Same(c)
         /\ row'[c].state = s /\ row'[c].why = row[c].why
<1> DEFINE r == [row[c] EXCEPT !.state = s, !.tried = TRUE]
<1>1. row' = [row EXCEPT ![c] = r]
  OBVIOUS
<1>2. r \in Rows /\ r.state = s /\ r.why = row[c].why
  BY RowFields DEF Rows, RowStates
<1> HIDE DEF r
<1> QED BY <1>1, <1>2 DEF Typed, Same

LEMMA SetTried ==
  ASSUME Typed, request.q.of \in Captures, Tried
  PROVE  /\ Typed' /\ Same(request.q.of)
         /\ row'[request.q.of].state = row[request.q.of].state
         /\ row'[request.q.of].why = row[request.q.of].why
         /\ row'[request.q.of].tried
<1> DEFINE c == request.q.of
           r == [row[c] EXCEPT !.tried = TRUE]
<1>1. row' = [row EXCEPT ![c] = r]
  BY DEF Tried
<1>2. r \in Rows /\ r.state = row[c].state /\ r.why = row[c].why /\ r.tried = TRUE
  BY RowFields DEF Rows, RowStates
<1>3. c \in Captures
  OBVIOUS
<1> HIDE DEF r, c
<1>4. Typed' /\ Same(c) /\ row'[c] = r
  BY <1>1, <1>2, <1>3 DEF Typed, Same
<1> QED BY <1>2, <1>4 DEF c

LEMMA SetWithdrawn ==
  ASSUME Typed, NEW c \in Captures, NEW why \in {"cancelled", "dismissed"},
         row' = [row EXCEPT ![c].state = "cancelled", ![c].why = why, ![c].tried = FALSE]
  PROVE  /\ Typed' /\ Same(c)
         /\ row'[c].state = "cancelled" /\ row'[c].why = why
<1> DEFINE r == [row[c] EXCEPT !.state = "cancelled", !.why = why, !.tried = FALSE]
<1>1. row' = [row EXCEPT ![c] = r]
  OBVIOUS
<1>2. r \in Rows /\ r.state = "cancelled" /\ r.why = why
  BY RowFields DEF Rows, RowStates
<1> HIDE DEF r
<1> QED BY <1>1, <1>2 DEF Typed, Same

LEMMA SetNew ==
  ASSUME Typed, NEW c \in Captures, NEW b \in BOOLEAN,
         row' = [row EXCEPT ![c] = [NoRow EXCEPT !.state = "queued", !.offline = b]]
  PROVE  /\ Typed' /\ Same(c)
         /\ row'[c].state = "queued" /\ row'[c].why = "none"
<1> DEFINE r == [NoRow EXCEPT !.state = "queued", !.offline = b]
<1>1. r \in Rows /\ r.state = "queued" /\ r.why = "none"
  BY DEF Rows, RowStates, NoRow
<1>2. row' = [row EXCEPT ![c] = r]
  OBVIOUS
<1> HIDE DEF r
<1> QED BY <1>1, <1>2 DEF Typed, Same

LEMMA SetPruned ==
  ASSUME Typed, Prune
  PROVE  /\ Typed'
         /\ \A c \in Captures :
              /\ row'[c].why = row[c].why
              /\ row[c].state # "recorded" => row'[c] = row[c]
              /\ row[c].state = "recorded" => row'[c].state = "pruned"
<1>1. \A c \in Captures : row'[c] = IF row[c].state = "recorded" THEN [row[c] EXCEPT !.state = "pruned"] ELSE row[c]
  BY DEF Prune
<1>2. \A c \in Captures : LET r == [row[c] EXCEPT !.state = "pruned"]
                          IN r \in Rows /\ r.state = "pruned" /\ r.why = row[c].why
  BY RowFields DEF Rows, RowStates, Gone
<1>3. row' = [c \in Captures |-> row'[c]]
  BY DEF Prune
<1> QED BY <1>1, <1>2, <1>3, RowFields DEF Typed

-----------------------------------------------------------------------------
(* What each action does.                                                   *)

LEMMA Asks ==
  ASSUME NEW q \in Requests
  PROVE  q.of \in Captures /\ q.kind \in {"sign", "cancelled", "dismissed"}
BY DEF Requests

LEMMA OnWire ==
  ASSUME Shape, request # NoRequest
  PROVE  /\ request.q \in Requests /\ request.q.of \in Captures
         /\ request.q.kind \in {"sign", "cancelled", "dismissed"}
         /\ open /\ pass = "running" /\ request.reply \in ReplyKinds
<1>1. request.q \in Requests
  BY DEF Shape, TypeOK
<1> QED BY <1>1, Asks DEF Shape, TypeOK, ReplyKinds

LEMMA Answers ==
  ASSUME Shape, NEW replies, replies \subseteq ReplyKinds, request.reply \in replies
  PROVE  request # NoRequest
<1>1. request.reply \in ReplyKinds
  OBVIOUS
<1>2. NoRequest.reply \notin ReplyKinds
  BY DEF NoRequest, ReplyKinds
<1> QED BY <1>1, <1>2

LEMMA Replied ==
  ASSUME Shape, request # NoRequest, NEW r \in ReplyKinds, request' = [request EXCEPT !.reply = r]
  PROVE  /\ request' \in [reply : ReplyKinds, q : Requests] /\ request' # NoRequest
         /\ request'.q = request.q /\ request'.reply = r
<1>1. request \in [reply : ReplyKinds, q : Requests]
  BY DEF Shape
<1>2. /\ request' \in [reply : ReplyKinds, q : Requests]
      /\ request'.q = request.q /\ request'.reply = r
  BY <1>1
<1> QED BY <1>2 DEF NoRequest, ReplyKinds

LEMMA IsSent ==
  ASSUME Shape, RowsHold, Send
  PROVE  \E c \in Captures :
           /\ request' \in [reply : ReplyKinds, q : Requests] /\ request' # NoRequest
           /\ request'.q.of = c /\ request'.reply = "none"
           /\ row[c].state \in {"queued", "cancelled"}
           /\ row[c].state = "queued" => request'.q.kind = "sign"
           /\ row[c].state = "cancelled" => request'.q.kind = row[c].why /\ request'.q.kind # "sign"
           /\ todo' \subseteq todo /\ \A t \in todo : t \notin todo' => t.of = c
<1>1. PICK t \in Oldest :
        /\ row[t.of].state = t.state /\ todo' = todo \ {t}
        /\ request' = [reply |-> "none", q |-> [of |-> t.of, kind |-> KindOf(t.of), held |-> Held(t.of)]]
  BY DEF Send
<1>2. t \in todo /\ t.of \in Captures /\ t.state \in {"queued", "cancelled"}
  BY DEF Oldest, Shape, TypeOK
<1>3. row[t.of] \in Rows
  BY <1>2 DEF Shape, TypeOK
<1>4. Held(t.of) \in BOOLEAN
  BY <1>3 DEF Held, Rows
<1>5. row[t.of].why \in {"none", "cancelled", "dismissed"} /\ (row[t.of].state = "cancelled" => row[t.of].why # "none")
  BY <1>2, <1>3 DEF Rows, RowsHold, RowHolds, Off
<1>6. KindOf(t.of) \in {"sign", "cancelled", "dismissed"}
  BY <1>1, <1>2, <1>5 DEF KindOf
<1>7. [of |-> t.of, kind |-> KindOf(t.of), held |-> Held(t.of)] \in Requests
  BY <1>2, <1>4, <1>6 DEF Requests
<1>8. request' \in [reply : ReplyKinds, q : Requests] /\ request' # NoRequest
      /\ request'.q.of = t.of /\ request'.q.kind = KindOf(t.of) /\ request'.reply = "none"
  BY <1>1, <1>7 DEF ReplyKinds, NoRequest
<1>9. /\ row[t.of].state = "queued" => KindOf(t.of) = "sign"
      /\ row[t.of].state = "cancelled" => KindOf(t.of) = row[t.of].why /\ KindOf(t.of) # "sign"
  BY <1>5 DEF KindOf
<1> QED BY <1>1, <1>2, <1>8, <1>9

Screens == {"none", "asking", "back", "recorded", "refused", "queued", "lost", "gone"}
LEMMA OnScreen ==
  ASSUME Shape
  PROVE  screen \in [Captures -> Screens]
BY DEF Shape, TypeOK, Screens

LEMMA OfEstimate ==
  ASSUME NEW c \in Captures
  PROVE  Of[c] \in Estimates
BY DEF Estimates

\* The office writes a signature where none was, and that is all it changes.
Writes(q) ==
  /\ Signature(q) /\ Takes(q) /\ Of[q.of] \in mine
  /\ holder' = [holder EXCEPT ![Of[q.of]] = q.of]
  /\ followed' = [followed EXCEPT ![q.of] = @ + 1]

LEMMA OfficeActs ==
  ASSUME Shape, Followed, NEW q \in Requests, Serves(q)
  PROVE  /\ UNCHANGED <<closed, mine>>
         /\ noticed' \subseteq Captures /\ filed' \subseteq Captures \X {"cancelled", "dismissed"}
         /\ Writes(q) \/ UNCHANGED <<holder, followed>>
         /\ \/ filed' = filed
            \/ filed' = filed \union {<<q.of, q.kind>>} /\ (q.kind = "dismissed" \/ ~OnRecord(q)) /\ UNCHANGED holder
         /\ ~Signature(q) /\ Granted(q) /\ "crash" \notin trouble => <<q.of, q.kind>> \in filed'
         /\ Signature(q) /\ Granted(q) => (holder' = holder /\ OnRecord(q)) \/ Writes(q)
         /\ Signature(q) /\ ~Granted(q) => UNCHANGED holder
<1>1. noticed \subseteq Captures /\ filed \subseteq Captures \X {"cancelled", "dismissed"}
  BY DEF Shape, TypeOK
<1>2. UNCHANGED <<closed, mine>>
  BY DEF Serves
<1>3. CASE Signs(q)
  BY <1>1, <1>2, <1>3, Asks DEF Signs, Granted, Writes, Signature
<1>4. CASE Replays(q)
  BY <1>1, <1>2, <1>4, Asks DEF Replays, Granted, Writes, Signature
<1>5. CASE RefusesSignature(q)
  BY <1>1, <1>2, <1>5, Asks DEF RefusesSignature, Signature
<1>6. CASE Files(q)
  BY <1>1, <1>2, <1>6, Asks DEF Files, Granted, Signature
<1>7. CASE RefusesEvent(q)
  BY <1>1, <1>2, <1>7, Asks DEF RefusesEvent, Signature
<1> QED BY <1>3, <1>4, <1>5, <1>6, <1>7 DEF Serves

\* A written signature is a first one, and no other changes hands.
LEMMA Written ==
  ASSUME Shape, Followed, NEW q \in Requests, Writes(q)
  PROVE  /\ holder' \in [Estimates -> Captures \union {Nobody, Other}] /\ followed' \in [Captures -> 0 .. 2]
         /\ Followed'
         /\ holder'[Of[q.of]] = q.of /\ holder[Of[q.of]] = Nobody
         /\ \A c \in Captures : c # q.of => (holder'[Of[c]] = c <=> holder[Of[c]] = c)
<1> DEFINE d == q.of
<1>1. d \in Captures /\ Of[d] \in Estimates
  BY Asks, OfEstimate
<1>2. /\ holder[Of[d]] = Nobody
      /\ holder' = [holder EXCEPT ![Of[d]] = d] /\ followed' = [followed EXCEPT ![d] = @ + 1]
  BY DEF Writes, Takes
<1>3. holder \in [Estimates -> Captures \union {Nobody, Other}] /\ followed \in [Captures -> 0 .. 2]
  BY DEF Shape, TypeOK
<1>4. followed[d] = 0
  BY <1>1, <1>2, NamesAssumption DEF Followed
<1> HIDE DEF d
<1>5. holder' \in [Estimates -> Captures \union {Nobody, Other}] /\ holder'[Of[d]] = d
      /\ \A e \in Estimates : e # Of[d] => holder'[e] = holder[e]
  BY <1>1, <1>2, <1>3
<1>6. \A c \in Captures : c # d => (holder'[Of[c]] = c <=> holder[Of[c]] = c)
  BY <1>1, <1>2, <1>5, OfEstimate, NamesAssumption
<1>7. followed' \in [Captures -> 0 .. 2] /\ followed'[d] = 1
      /\ \A c \in Captures : c # d => followed'[c] = followed[c]
  BY <1>1, <1>2, <1>3, <1>4
<1>8. Followed'
  BY <1>5, <1>6, <1>7 DEF Followed
<1> QED BY <1>2, <1>5, <1>6, <1>7, <1>8 DEF d

LEMMA IsRecorded ==
  ASSUME Shape, ReceiveRecorded
  PROVE  /\ request # NoRequest /\ request.q.of \in Captures /\ request' = NoRequest
         /\ request.q.kind = "sign" /\ request.reply \in {"ok", "cut"}
         /\ Typed' /\ Same(request.q.of)
         /\ row'[request.q.of].state = "recorded" /\ row'[request.q.of].why = row[request.q.of].why
<1>1. /\ request # NoRequest /\ request.q.of \in Captures /\ request' = NoRequest
      /\ request.q.kind = "sign" /\ request.reply \in {"ok", "cut"}
  BY Answers, OnWire DEF ReceiveRecorded, Answer, ReplyKinds
<1> QED BY <1>1, SetRecorded DEF ReceiveRecorded, Shape, TypeOK, Typed

LEMMA IsFiled ==
  ASSUME Shape, ReceiveFiled
  PROVE  /\ request # NoRequest /\ request.q.of \in Captures /\ request' = NoRequest
         /\ request.q.kind # "sign" /\ request.reply \in {"ok", "cut"}
         /\ Typed' /\ Same(request.q.of)
         /\ row'[request.q.of].state = "filed" /\ row'[request.q.of].why = row[request.q.of].why
<1>1. /\ request # NoRequest /\ request.q.of \in Captures /\ request' = NoRequest
      /\ request.q.kind # "sign" /\ request.reply \in {"ok", "cut"}
  BY Answers, OnWire DEF ReceiveFiled, Answer, ReplyKinds
<1> QED BY <1>1, SetState DEF ReceiveFiled, RowStates, Gone, Shape, TypeOK, Typed

LEMMA IsRefused ==
  ASSUME Shape, ReceiveRefused
  PROVE  /\ request # NoRequest /\ request.q.of \in Captures /\ request' = NoRequest
         /\ request.reply = "refused"
         /\ Typed' /\ Same(request.q.of) /\ row'[request.q.of].why = row[request.q.of].why
         /\ request.q.kind = "sign" => row'[request.q.of].state = "refused"
         /\ request.q.kind # "sign" => row'[request.q.of].state = "unfiled"
<1> DEFINE s == IF request.q.kind = "sign" THEN "refused" ELSE "unfiled"
<1>1. request # NoRequest /\ request.q.of \in Captures /\ request' = NoRequest /\ request.reply = "refused"
  BY Answers, OnWire DEF ReceiveRefused, Answer, ReplyKinds
<1>2. s \in RowStates
  BY DEF RowStates
<1>3. row' = [row EXCEPT ![request.q.of].state = s, ![request.q.of].tried = TRUE]
  BY DEF ReceiveRefused
<1>4. (request.q.kind = "sign" => s = "refused") /\ (request.q.kind # "sign" => s = "unfiled")
  OBVIOUS
<1> HIDE DEF s
<1>5. /\ Typed' /\ Same(request.q.of) /\ row'[request.q.of].why = row[request.q.of].why
      /\ row'[request.q.of].state = s
  BY <1>1, <1>2, <1>3, SetRefused DEF Shape, TypeOK, Typed
<1> QED BY <1>1, <1>4, <1>5

\* A try that settles nothing.
LEMMA IsTried ==
  ASSUME Shape, ReceiveBusy \/ ReceiveSignInAgain \/ NoAnswer
  PROVE  /\ request # NoRequest /\ request.q \in Requests /\ request.q.of \in Captures /\ request' = NoRequest
         /\ Typed' /\ Same(request.q.of) /\ row'[request.q.of].tried
         /\ row'[request.q.of].state = row[request.q.of].state
         /\ row'[request.q.of].why = row[request.q.of].why
<1>1. request # NoRequest /\ request' = NoRequest /\ Tried
  BY Answers DEF ReceiveBusy, ReceiveSignInAgain, NoAnswer, Answer, ReplyKinds
<1> QED BY <1>1, OnWire, SetTried DEF Shape, TypeOK, Typed

LEMMA IsNew ==
  ASSUME Shape, NEW c \in Captures, Capture(c)
  PROVE  /\ row[c].state = "none" /\ Typed' /\ Same(c)
         /\ row'[c].state = "queued" /\ row'[c].why = "none"
<1>1. signal \in BOOLEAN
  BY DEF Shape, TypeOK
<1> QED BY <1>1, SetNew DEF Capture, Shape, TypeOK, Typed

\* The screen is answered; of the rows only a refused one leaves the phone.
LEMMA IsSaid ==
  ASSUME Shape, NEW c \in Captures, FinishCapture(c)
  PROVE  /\ screen[c] = "back" /\ Typed' /\ Same(c) /\ row'[c].why = row[c].why
         /\ UNCHANGED <<open, pass, again, todo, request, short, signal, trouble, late, office>>
         /\ \E s \in Screens \ {"none", "asking", "back"} : screen' = [screen EXCEPT ![c] = s]
         /\ \/ row' = row
            \/ row[c].state = "refused" /\ row'[c].state = "told" /\ screen'[c] = "refused"
<1>1. screen \in [Captures -> Screens] /\ screen[c] = "back"
  BY OnScreen DEF FinishCapture
<1>2. CASE row[c].state = "refused" /\ Say(c, "refused") /\ Becomes(c, "told")
  <2>1. /\ Typed' /\ Same(c) /\ row'[c].why = row[c].why /\ row'[c].state = "told"
    BY <1>2, SetState DEF RowStates, Gone, Shape, TypeOK, Typed
  <2> QED BY <1>1, <1>2, <2>1 DEF Say, Screens
<1>3. CASE UNCHANGED row /\ \E s \in {"recorded", "lost", "queued"} : Say(c, s)
  BY <1>1, <1>3 DEF Say, Screens, Same, Shape, TypeOK, Typed
<1> QED BY <1>2, <1>3 DEF FinishCapture

LEMMA IsWithdrawn ==
  ASSUME Shape, NEW c \in Captures, Cancel(c) \/ Dismiss(c)
  PROVE  /\ Typed' /\ Same(c) /\ ~InFlight(c) /\ row'[c].state = "cancelled"
         /\ Cancel(c) => row[c].state = "queued" /\ row'[c].why = "cancelled"
         /\ Dismiss(c) => row[c].state = "refused" /\ row'[c].why = "dismissed"
         /\ UNCHANGED <<screen, open, todo, request, short, signal, trouble, late, office>>
         /\ pass' = (IF pass = "idle" THEN "due" ELSE pass)
         /\ again' = (again \/ pass # "idle") /\ again' \in BOOLEAN
<1>1. PICK why \in {"cancelled", "dismissed"} :
        /\ Withdraw(c, IF why = "cancelled" THEN "queued" ELSE "refused", why)
        /\ Cancel(c) => row[c].state = "queued" /\ why = "cancelled"
        /\ Dismiss(c) => row[c].state = "refused" /\ why = "dismissed"
  BY DEF Cancel, Dismiss, Withdraw
<1>2. Typed' /\ Same(c) /\ row'[c].state = "cancelled" /\ row'[c].why = why
  BY <1>1, SetWithdrawn DEF Withdraw, Shape, TypeOK, Typed
<1>3. again' \in BOOLEAN /\ again' = (again \/ pass # "idle") /\ pass' = IF pass = "idle" THEN "due" ELSE pass
  BY <1>1 DEF Withdraw, Flush, Shape, TypeOK
<1> QED BY <1>1, <1>2, <1>3 DEF Withdraw

LEMMA IsRemoved ==
  ASSUME Shape, NEW c \in Captures, RemoveUnfiled(c)
  PROVE  /\ Typed' /\ Same(c) /\ ~InFlight(c)
         /\ row[c].state = "unfiled" /\ row'[c].state = "removed" /\ row'[c].why = row[c].why
BY SetState DEF RemoveUnfiled, RowStates, Gone, Shape, TypeOK, Typed

\* What the office does with a request it serves.
Told(q) ==
  /\ request' \in [reply : ReplyKinds, q : Requests] /\ request' # NoRequest
  /\ request'.q = q
  /\ request'.reply \in {"ok", "cut"} => Granted(q)
  /\ request'.reply = "refused" => ~Granted(q)

LEMMA IsServed ==
  ASSUME Shape, OfficeServes
  PROVE  /\ request # NoRequest /\ request.q \in Requests /\ request.reply = "none"
         /\ Serves(request.q) /\ Told(request.q)
         /\ UNCHANGED <<row, screen, open, pass, again, todo, short, signal, trouble, late>>
<1>1. request # NoRequest /\ request.q \in Requests /\ request.reply = "none" /\ Serves(request.q)
  BY OnWire DEF OfficeServes, Waiting
<1>2. PICK r \in Replies(request.q) : Reply(r)
  BY DEF OfficeServes
<1>3. /\ r \in ReplyKinds
      /\ r \in {"ok", "cut"} => Granted(request.q)
      /\ r = "refused" => ~Granted(request.q)
  BY <1>2 DEF Replies, ReplyTo, ReplyKinds
<1>4. Told(request.q)
  BY <1>1, <1>2, <1>3, Replied DEF Reply, Told
<1> QED BY <1>1, <1>2, <1>4 DEF Reply

LEMMA IsTurnedAway ==
  ASSUME Shape, OfficeTurnsAway
  PROVE  /\ request # NoRequest /\ request.q \in Requests
         /\ request' \in [reply : ReplyKinds, q : Requests] /\ request' # NoRequest
         /\ request'.q = request.q /\ request'.reply \in {"busy", "auth"}
         /\ UNCHANGED <<row, screen, open, pass, again, todo, short, signal, trouble, late, office>>
<1>1. request # NoRequest /\ request.q \in Requests
  BY OnWire DEF OfficeTurnsAway, Waiting
<1>2. PICK r \in {"busy", "auth"} : Reply(r)
  BY DEF OfficeTurnsAway
<1> QED BY <1>1, <1>2, Replied DEF Reply, ReplyKinds, OfficeTurnsAway

LEMMA GivenUp ==
  ASSUME Shape, GiveUp
  PROVE  /\ late' \subseteq Requests
         /\ "slow" \notin trouble => late' = late
         /\ \A q \in late' : q \in late \/ (request # NoRequest /\ request.reply = "none" /\ q = request.q)
BY OnWire DEF GiveUp, Shape, TypeOK

\* Serving a request, in time or late, keeps what holds of the rows.
LEMMA ServedKeeps ==
  ASSUME Base, NEW q \in Requests, Serves(q), UNCHANGED <<row, screen, trouble>>, late' \subseteq late,
         "slow" \notin trouble => request # NoRequest /\ q = request.q
  PROVE  /\ holder' \in [Estimates -> Captures \union {Nobody, Other}]
         /\ closed' \subseteq Estimates /\ mine' \subseteq Estimates
         /\ noticed' \subseteq Captures /\ filed' \subseteq Captures \X {"cancelled", "dismissed"}
         /\ followed' \in [Captures -> 0 .. 2]
         /\ Followed' /\ RowsHold' /\ CancelHolds'
         /\ \A c \in Captures : holder[Of[c]] = c => holder'[Of[c]] = c
<1> USE DEF Base
<1>1. q.of \in Captures /\ Of[q.of] \in Estimates
  BY Asks, OfEstimate
<1>2. /\ UNCHANGED <<closed, mine>> /\ closed \subseteq Estimates /\ mine \subseteq Estimates
      /\ noticed' \subseteq Captures /\ filed' \subseteq Captures \X {"cancelled", "dismissed"}
  BY OfficeActs DEF Shape, TypeOK
<1>3. /\ holder' \in [Estimates -> Captures \union {Nobody, Other}] /\ followed' \in [Captures -> 0 .. 2]
      /\ Followed'
      /\ \A c \in Captures : holder[Of[c]] = c => holder'[Of[c]] = c
      /\ \A c \in Captures : holder'[Of[c]] = c => holder[Of[c]] = c \/ (c = q.of /\ Writes(q))
  <2>1. CASE Writes(q)
    BY <1>1, <2>1, Written, NamesAssumption
  <2>2. CASE UNCHANGED <<holder, followed>>
    BY <2>2 DEF Shape, TypeOK, Followed
  <2> QED BY <2>1, <2>2, OfficeActs
<1>4. RowsHold'
  BY <1>3 DEF RowsHold, RowHolds
<1>5. CancelHolds'
  <2> SUFFICES ASSUME "slow" \notin trouble, NEW c \in Captures, <<c, "cancelled">> \in filed'
               PROVE  row[c].state \in Off /\ holder'[Of[c]] # c
    BY DEF CancelHolds
  <2>1. q.kind = "sign" => row[q.of].state = "queued"
    BY DEF WireHolds
  <2>2. q.kind # "sign" => row[q.of].state = "cancelled"
    BY DEF WireHolds
  <2>3. CASE <<c, "cancelled">> \in filed
    <3>1. row[c].state \in Off /\ holder[Of[c]] # c
      BY <2>3 DEF CancelHolds
    <3>2. ~(c = q.of /\ Writes(q))
      BY <2>1, <3>1 DEF Writes, Signature, Off
    <3> QED BY <1>3, <3>1, <3>2
  <2>4. CASE <<c, "cancelled">> \notin filed
    <3>1. /\ filed' = filed \union {<<q.of, q.kind>>}
          /\ q.kind = "dismissed" \/ ~OnRecord(q)
          /\ holder' = holder
      BY <2>4, OfficeActs
    <3>2. <<c, "cancelled">> = <<q.of, q.kind>>
      BY <2>4, <3>1
    <3>3. c = q.of /\ q.kind = "cancelled"
      BY <3>2
    <3> QED BY <2>2, <3>1, <3>3 DEF OnRecord, Off
  <2> QED BY <2>3, <2>4
<1> QED BY <1>2, <1>3, <1>4, <1>5

-----------------------------------------------------------------------------
(* What holds in every world is kept by every step.                        *)

LEMMA NextBase == Base /\ [Next]_vars => Base'
<1> SUFFICES ASSUME Base, [Next]_vars PROVE Base'
  OBVIOUS
<1> USE DEF Base, Shape, TypeOK, Typed, Followed, RowsHold, RowHolds, WireHolds, CancelHolds, phone, office, Off, Kept
<1>1. CASE BeginPass
  <2>1. Shape'
    BY <1>1 DEF BeginPass, In
  <2>2. Followed' /\ RowsHold' /\ WireHolds' /\ CancelHolds'
    BY <1>1 DEF BeginPass, In
  <2> QED BY <2>1, <2>2
<1>2. CASE Skip
  <2>1. Shape'
    BY <1>2 DEF Skip, Oldest, Ready
  <2>2. Followed' /\ RowsHold' /\ WireHolds' /\ CancelHolds'
    BY <1>2 DEF Skip, Oldest, Ready
  <2> QED BY <2>1, <2>2
<1>3. CASE Send
  <2>1. Shape'
    BY <1>3, IsSent DEF Send, Ready
  <2>2. Followed' /\ RowsHold' /\ WireHolds' /\ CancelHolds'
    BY <1>3, IsSent DEF Send, Ready
  <2> QED BY <2>1, <2>2
<1>4. CASE EndPass
  <2>1. /\ screen' \in [Captures -> Screens]
        /\ \A c \in Captures : screen[c] # "asking" => screen'[c] = screen[c]
    BY <1>4, OnScreen DEF EndPass, Screens
  <2>2. Shape'
    BY <1>4, <2>1 DEF EndPass, Ready, Screens
  <2>3. Followed' /\ RowsHold' /\ WireHolds' /\ CancelHolds'
    BY <1>4, <2>1 DEF EndPass, Ready, Screens
  <2> QED BY <2>2, <2>3
<1>5. CASE LoseSignal
  <2>1. Shape'
    BY <1>5 DEF LoseSignal
  <2>2. Followed' /\ RowsHold' /\ WireHolds' /\ CancelHolds'
    BY <1>5 DEF LoseSignal
  <2> QED BY <2>1, <2>2
<1>6. CASE FindSignal
  <2>1. Shape'
    BY <1>6 DEF FindSignal, Flush
  <2>2. Followed' /\ RowsHold' /\ WireHolds' /\ CancelHolds'
    BY <1>6 DEF FindSignal, Flush
  <2> QED BY <2>1, <2>2
<1>7. CASE Kill
  <2>1. /\ screen' \in [Captures -> Screens]
        /\ \A c \in Captures : screen[c] \notin {"asking", "back"} => screen'[c] = screen[c]
    BY <1>7, OnScreen DEF Kill, Screens
  <2>2. Shape'
    BY <1>7, <2>1, OnWire, GivenUp DEF Kill, Forget, Screens
  <2>3. Followed' /\ RowsHold' /\ WireHolds' /\ CancelHolds'
    BY <1>7, <2>1, OnWire, GivenUp DEF Kill, Forget, Screens
  <2> QED BY <2>2, <2>3
<1>8. CASE Start
  <2>1. Shape'
    BY <1>8, OnWire, GivenUp DEF Start, Forget
  <2>2. Followed' /\ RowsHold' /\ WireHolds' /\ CancelHolds'
    BY <1>8, OnWire, GivenUp DEF Start, Forget
  <2> QED BY <2>1, <2>2
<1>9. CASE ReceiveRecorded
  <2>1. Shape'
    BY <1>9, IsRecorded DEF ReceiveRecorded, Answer, Same
  <2>2. Followed' /\ RowsHold' /\ WireHolds' /\ CancelHolds'
    BY <1>9, IsRecorded DEF ReceiveRecorded, Answer, Same
  <2> QED BY <2>1, <2>2
<1>10. CASE ReceiveFiled
  <2>1. Shape'
    BY <1>10, IsFiled DEF ReceiveFiled, Answer, Same
  <2>2. Followed' /\ RowsHold' /\ WireHolds' /\ CancelHolds'
    BY <1>10, IsFiled DEF ReceiveFiled, Answer, Same
  <2> QED BY <2>1, <2>2
<1>11. CASE ReceiveRefused
  <2>1. Shape'
    BY <1>11, IsRefused DEF ReceiveRefused, Answer, Same
  <2>2. Followed' /\ RowsHold' /\ WireHolds' /\ CancelHolds'
    BY <1>11, IsRefused DEF ReceiveRefused, Answer, Same
  <2> QED BY <2>1, <2>2
<1>12. CASE ReceiveBusy
  <2>1. Shape'
    BY <1>12, IsTried DEF ReceiveBusy, Answer, Same
  <2>2. Followed' /\ RowsHold' /\ WireHolds' /\ CancelHolds'
    BY <1>12, IsTried DEF ReceiveBusy, Answer, Same
  <2> QED BY <2>1, <2>2
<1>13. CASE ReceiveSignInAgain
  <2>1. Shape'
    BY <1>13, IsTried DEF ReceiveSignInAgain, Answer, Same
  <2>2. Followed' /\ RowsHold' /\ WireHolds' /\ CancelHolds'
    BY <1>13, IsTried DEF ReceiveSignInAgain, Answer, Same
  <2> QED BY <2>1, <2>2
<1>14. CASE NoAnswer
  <2>1. Shape'
    BY <1>14, IsTried, OnWire, GivenUp DEF NoAnswer, Same
  <2>2. Followed' /\ RowsHold' /\ WireHolds' /\ CancelHolds'
    BY <1>14, IsTried, OnWire, GivenUp DEF NoAnswer, Same
  <2> QED BY <2>1, <2>2
<1>15. CASE Prune
  <2>1. Shape'
    BY <1>15, SetPruned, OnWire DEF Prune
  <2>2. Followed' /\ RowsHold' /\ WireHolds' /\ CancelHolds'
    BY <1>15, SetPruned, OnWire DEF Prune
  <2> QED BY <2>1, <2>2
<1>16. ASSUME NEW c \in Captures, Capture(c) PROVE Base'
  <2>1. \A d \in Captures \ {c} : row'[d] = row[d] /\ screen'[d] = screen[d]
    BY <1>16, IsNew, OnScreen DEF Capture, Same
  <2>2. Shape'
    BY <1>16, <2>1, IsNew, OnWire DEF Capture, Flush
  <2>3. Followed'
    BY <1>16, <2>1, IsNew, OnWire DEF Capture, Flush
  <2>4. RowsHold'
    <3> SUFFICES ASSUME NEW d \in Captures PROVE RowHolds(d)'
      BY DEF RowHolds
    <3>1. CASE d # c
      BY <1>16, <2>1, <3>1, IsNew DEF Capture, RowHolds
    <3>2. CASE d = c
      BY <1>16, <3>2, IsNew DEF Capture, RowHolds
    <3> QED BY <3>1, <3>2
  <2>5. WireHolds'
    BY <1>16, <2>1, IsNew, OnWire DEF Capture, Flush
  <2>6. CancelHolds'
    BY <1>16, <2>1, IsNew, OnWire DEF Capture, Flush
  <2> QED BY <2>2, <2>3, <2>4, <2>5, <2>6
<1>17. ASSUME NEW c \in Captures, FinishCapture(c) PROVE Base'
  <2>1. \A d \in Captures \ {c} : row'[d] = row[d] /\ screen'[d] = screen[d]
    BY <1>17, IsSaid, OnScreen DEF Same, Screens
  <2>2. Shape'
    BY <1>17, <2>1, IsSaid, OnWire, OnScreen DEF Screens
  <2>3. Followed'
    BY <1>17, <2>1, IsSaid, OnWire, OnScreen DEF Screens
  <2>4. RowsHold'
    <3> SUFFICES ASSUME NEW d \in Captures PROVE RowHolds(d)'
      BY DEF RowHolds
    <3>1. CASE d # c
      BY <1>17, <2>1, <3>1, IsSaid DEF Screens, RowHolds
    <3>2. CASE d = c
      BY <1>17, <3>2, IsSaid DEF Screens, RowHolds
    <3> QED BY <3>1, <3>2
  <2>5. WireHolds'
    BY <1>17, <2>1, IsSaid, OnWire, OnScreen DEF Screens
  <2>6. CancelHolds'
    BY <1>17, <2>1, IsSaid, OnWire, OnScreen DEF Screens
  <2> QED BY <2>2, <2>3, <2>4, <2>5, <2>6
<1>18. ASSUME NEW c \in Captures, Cancel(c) PROVE Base'
  <2>1. Shape'
    BY <1>18, IsWithdrawn, OnWire DEF Same, InFlight
  <2>2. Followed' /\ RowsHold' /\ WireHolds' /\ CancelHolds'
    BY <1>18, IsWithdrawn, OnWire DEF Same, InFlight
  <2> QED BY <2>1, <2>2
<1>19. ASSUME NEW c \in Captures, Dismiss(c) PROVE Base'
  <2>1. Shape'
    BY <1>19, IsWithdrawn, OnWire DEF Same, InFlight
  <2>2. Followed' /\ RowsHold' /\ WireHolds' /\ CancelHolds'
    BY <1>19, IsWithdrawn, OnWire DEF Same, InFlight
  <2> QED BY <2>1, <2>2
<1>20. ASSUME NEW c \in Captures, RemoveUnfiled(c) PROVE Base'
  <2>1. Shape'
    BY <1>20, IsRemoved, OnWire DEF RemoveUnfiled, Same, InFlight
  <2>2. Followed' /\ RowsHold' /\ WireHolds' /\ CancelHolds'
    BY <1>20, IsRemoved, OnWire DEF RemoveUnfiled, Same, InFlight
  <2> QED BY <2>1, <2>2
<1>21. CASE OfficeServes
  <2>1. /\ request # NoRequest /\ request.q \in Requests /\ Serves(request.q) /\ Told(request.q)
        /\ UNCHANGED <<row, screen, open, pass, again, todo, short, signal, trouble, late>>
    BY <1>21, IsServed
  <2>2. /\ holder' \in [Estimates -> Captures \union {Nobody, Other}]
        /\ closed' \subseteq Estimates /\ mine' \subseteq Estimates
        /\ noticed' \subseteq Captures /\ filed' \subseteq Captures \X {"cancelled", "dismissed"}
        /\ followed' \in [Captures -> 0 .. 2]
        /\ Followed' /\ RowsHold' /\ CancelHolds'
        /\ \A c \in Captures : holder[Of[c]] = c => holder'[Of[c]] = c
    BY <2>1, ServedKeeps
  <2>3. Shape'
    BY <2>1, <2>2, OnWire DEF Told, ReplyKinds
  <2>4. Followed'
    BY <2>2
  <2>5. RowsHold'
    BY <2>2
  <2>6. WireHolds'
    BY <2>1, OfficeActs, Written DEF Told, Signature, OnRecord
  <2>7. CancelHolds'
    BY <2>2
  <2> QED BY <2>3, <2>4, <2>5, <2>6, <2>7
<1>22. CASE OfficeTurnsAway
  <2>1. Shape'
    BY <1>22, IsTurnedAway
  <2>2. Followed' /\ RowsHold' /\ WireHolds' /\ CancelHolds'
    BY <1>22, IsTurnedAway
  <2> QED BY <2>1, <2>2
<1>23. CASE OfficeServesLate
  <2>1. PICK q \in late : Serves(q) /\ late' = late \ {q} /\ UNCHANGED <<phone, signal, trouble>>
    BY <1>23 DEF OfficeServesLate
  <2>2. q \in Requests /\ ("slow" \in trouble)
    OBVIOUS
  <2>3. /\ holder' \in [Estimates -> Captures \union {Nobody, Other}]
        /\ closed' \subseteq Estimates /\ mine' \subseteq Estimates
        /\ noticed' \subseteq Captures /\ filed' \subseteq Captures \X {"cancelled", "dismissed"}
        /\ followed' \in [Captures -> 0 .. 2]
        /\ Followed' /\ RowsHold' /\ CancelHolds'
        /\ \A c \in Captures : holder[Of[c]] = c => holder'[Of[c]] = c
    BY <2>1, <2>2, ServedKeeps
  <2>4. Shape'
    BY <2>1, <2>3
  <2>5. Followed'
    BY <2>3
  <2>6. RowsHold'
    BY <2>3
  <2>7. WireHolds'
    BY <2>1, <2>3, OnWire
  <2>8. CancelHolds'
    BY <2>3
  <2> QED BY <2>4, <2>5, <2>6, <2>7, <2>8
<1>24. ASSUME NEW e \in Estimates, SignsElsewhere(e) PROVE Base'
  <2>1. /\ holder' \in [Estimates -> Captures \union {Nobody, Other}]
        /\ \A c \in Captures : holder'[Of[c]] = c <=> holder[Of[c]] = c
    BY <1>24, OfEstimate, NamesAssumption DEF SignsElsewhere
  <2>2. Shape'
    BY <1>24, <2>1 DEF SignsElsewhere
  <2>3. Followed'
    BY <1>24, <2>1 DEF SignsElsewhere
  <2>4. RowsHold'
    BY <1>24, <2>1 DEF SignsElsewhere
  <2>5. WireHolds'
    BY <1>24, <2>1, OnWire DEF SignsElsewhere
  <2>6. CancelHolds'
    BY <1>24, <2>1 DEF SignsElsewhere
  <2> QED BY <2>2, <2>3, <2>4, <2>5, <2>6
<1>25. ASSUME NEW e \in Estimates, Close(e) PROVE Base'
  <2>1. Shape'
    BY <1>25 DEF Close
  <2>2. Followed' /\ RowsHold' /\ WireHolds' /\ CancelHolds'
    BY <1>25 DEF Close
  <2> QED BY <2>1, <2>2
<1>26. ASSUME NEW e \in Estimates, Unassign(e) PROVE Base'
  <2>1. Shape'
    BY <1>26 DEF Unassign
  <2>2. Followed' /\ RowsHold' /\ WireHolds' /\ CancelHolds'
    BY <1>26 DEF Unassign
  <2> QED BY <2>1, <2>2
<1>27. CASE UNCHANGED vars
  <2>1. Shape'
    BY <1>27 DEF vars
  <2>2. Followed' /\ RowsHold' /\ WireHolds' /\ CancelHolds'
    BY <1>27 DEF vars
  <2> QED BY <2>1, <2>2
<1> QED BY <1>1, <1>2, <1>3, <1>4, <1>5, <1>6, <1>7, <1>8, <1>9, <1>10, <1>11, <1>12, <1>13, <1>14,
  <1>15, <1>16, <1>17, <1>18, <1>19, <1>20, <1>21, <1>22, <1>23, <1>24, <1>25, <1>26, <1>27
  DEF Next, Queue, Receive

LEMMA InitBase == Init => Base
<1> SUFFICES ASSUME Init PROVE Base
  OBVIOUS
<1>1. NoRow \in Rows /\ NoRow.state = "none" /\ NoRow.why = "none"
  BY DEF NoRow, Rows, RowStates
<1>2. Shape
  <2>1. row \in [Captures -> Rows]
    BY <1>1 DEF Init
  <2>2. screen \in [Captures -> {"none", "asking", "back", "recorded", "refused", "queued", "lost", "gone"}]
    BY DEF Init
  <2>3. holder \in [Estimates -> Captures \union {Nobody, Other}] /\ followed \in [Captures -> 0 .. 2]
    BY DEF Init
  <2>4. {open, signal, again, short} \subseteq BOOLEAN /\ pass \in {"idle", "due", "running"}
    BY DEF Init
  <2> QED BY <2>1, <2>2, <2>3, <2>4 DEF Init, Shape, TypeOK
<1>3. Followed
  BY DEF Init, Followed
<1>4. RowsHold
  BY <1>1 DEF Init, RowsHold, RowHolds, Kept, Off
<1>5. WireHolds /\ CancelHolds
  BY DEF Init, WireHolds, CancelHolds
<1> QED BY <1>2, <1>3, <1>4, <1>5 DEF Base

LEMMA BaseHolds == Spec => []Base
<1>1. Init => Base
  BY InitBase
<1>2. Base /\ [Next]_vars => Base'
  BY NextBase
<1> QED BY <1>1, <1>2, PTL DEF Spec

\* The state is well typed, and a request is on the wire only while a pass of
\* the open app runs.
THEOREM TypesHold == Spec => []TypeOK
<1>1. Base => TypeOK
  BY DEF Base, Shape
<1> QED BY <1>1, BaseHolds, PTL

\* However often a capture is sent, it is followed up at most once, and only
\* if it is the recorded one.
THEOREM FollowsUpOnce == Spec => []OneFollowUp
<1>1. Base => OneFollowUp
  BY DEF Base, Followed, OneFollowUp
<1> QED BY <1>1, BaseHolds, PTL

\* No "cancelled" event stands next to the signature it denies, as long as no
\* request outlives the phone's wait for its answer.
THEOREM CancelsUnrecorded == Spec => []CancelledUnrecorded
<1>1. Base => CancelledUnrecorded
  BY DEF Base, CancelHolds, CancelledUnrecorded
<1> QED BY <1>1, BaseHolds, PTL

-----------------------------------------------------------------------------
(* What holds of refusals, of events and of tries is kept too.             *)

\* A capture that lost its estimate has lost it for good.
LEMMA LostStays ==
  ASSUME Base, [Next]_vars, NEW c \in Captures, Lost(c)
  PROVE  Lost(c)'
<1> USE DEF Base
<1>1. \A q \in Requests : Serves(q) => Lost(c)'
  <2> SUFFICES ASSUME NEW q \in Requests, Serves(q) PROVE Lost(c)'
    OBVIOUS
  <2>1. closed' = closed /\ (Writes(q) \/ holder' = holder)
    BY OfficeActs
  <2>2. CASE Writes(q) /\ Of[q.of] = Of[c]
    <3>1. holder[Of[c]] = Nobody /\ Of[c] \notin closed
      BY <2>2 DEF Writes, Takes
    <3> QED BY <3>1 DEF Lost
  <2>3. CASE Writes(q) /\ Of[q.of] # Of[c]
    <3>1. holder'[Of[c]] = holder[Of[c]]
      BY <2>3, OfEstimate DEF Writes, Shape, TypeOK
    <3> QED BY <2>1, <3>1 DEF Lost
  <2> QED BY <2>1, <2>2, <2>3 DEF Lost
<1>2. CASE OfficeServes
  BY <1>1, <1>2, IsServed
<1>3. CASE OfficeServesLate
  BY <1>1, <1>3 DEF OfficeServesLate, Shape, TypeOK
<1>4. ASSUME NEW e \in Estimates, SignsElsewhere(e) PROVE Lost(c)'
  <2>1. CASE e = Of[c]
    BY <1>4, <2>1 DEF SignsElsewhere, Lost
  <2>2. CASE e # Of[c]
    BY <1>4, <2>2, OfEstimate DEF SignsElsewhere, Lost, Shape, TypeOK
  <2> QED BY <2>1, <2>2
<1>5. CASE closed \subseteq closed' /\ holder' = holder
  BY <1>5 DEF Lost
<1> QED BY <1>2, <1>3, <1>4, <1>5 DEF Next, Queue, Receive, BeginPass, Skip, Send, EndPass, ReceiveRecorded, ReceiveFiled,
  ReceiveRefused, ReceiveBusy, ReceiveSignInAgain, Answer, NoAnswer, Kill, Start, LoseSignal, FindSignal, Prune, Capture,
  FinishCapture, Say, Cancel, Dismiss, Withdraw, RemoveUnfiled, OfficeTurnsAway, Close, Unassign, office, vars

\* A refusal is told of a lost estimate, and stays true.
LEMMA NextRefusals == Assigned /\ Base /\ RefusalsHold /\ [Next]_vars => RefusalsHold'
<1> SUFFICES ASSUME Assigned, Base, RefusalsHold, [Next]_vars PROVE RefusalsHold'
  OBVIOUS
<1> USE DEF Base, RefusalsHold
<1>1. CASE BeginPass
  BY <1>1, OnWire, LostStays DEF BeginPass, phone, office
<1>2. CASE Skip
  BY <1>2, OnWire, LostStays DEF Skip, phone, office
<1>3. CASE Send
  BY <1>3, IsSent, OnWire, LostStays DEF Send, phone, office
<1>4. CASE EndPass
  BY <1>4, OnWire, LostStays DEF EndPass, phone, office
<1>5. CASE LoseSignal
  BY <1>5, OnWire, LostStays DEF LoseSignal, phone, office
<1>6. CASE FindSignal
  BY <1>6, OnWire, LostStays DEF FindSignal, phone, office
<1>7. CASE Kill
  BY <1>7, OnWire, LostStays DEF Kill, Forget, phone, office
<1>8. CASE Start
  BY <1>8, OnWire, LostStays DEF Start, Forget, phone, office
<1>9. CASE ReceiveRecorded
  BY <1>9, IsRecorded, OnWire, LostStays DEF ReceiveRecorded, Answer, Same, phone, office
<1>10. CASE ReceiveFiled
  BY <1>10, IsFiled, OnWire, LostStays DEF ReceiveFiled, Answer, Same, phone, office
<1>11. CASE ReceiveRefused
  BY <1>11, IsRefused, OnWire, LostStays DEF ReceiveRefused, Answer, Same, phone, office
<1>12. CASE ReceiveBusy
  BY <1>12, IsTried, OnWire, LostStays DEF ReceiveBusy, Answer, Same, phone, office
<1>13. CASE ReceiveSignInAgain
  BY <1>13, IsTried, OnWire, LostStays DEF ReceiveSignInAgain, Answer, Same, phone, office
<1>14. CASE NoAnswer
  BY <1>14, IsTried, OnWire, LostStays DEF NoAnswer, Same, phone, office
<1>15. CASE Prune
  BY <1>15, SetPruned, OnWire, LostStays DEF Prune, phone, office
<1>16. ASSUME NEW c \in Captures, Capture(c) PROVE RefusalsHold'
  BY <1>16, IsNew, OnWire, LostStays DEF Capture, Same, phone, office
<1>17. ASSUME NEW c \in Captures, FinishCapture(c) PROVE RefusalsHold'
  BY <1>17, IsSaid, OnWire, LostStays DEF Same, phone, office
<1>18. ASSUME NEW c \in Captures, Cancel(c) PROVE RefusalsHold'
  BY <1>18, IsWithdrawn, OnWire, LostStays DEF Same, phone, office
<1>19. ASSUME NEW c \in Captures, Dismiss(c) PROVE RefusalsHold'
  BY <1>19, IsWithdrawn, OnWire, LostStays DEF Same, phone, office
<1>20. ASSUME NEW c \in Captures, RemoveUnfiled(c) PROVE RefusalsHold'
  BY <1>20, IsRemoved, OnWire, LostStays DEF RemoveUnfiled, Same, phone, office
<1>21. CASE OfficeServes
  <2>1. request # NoRequest /\ request.q \in Requests /\ Serves(request.q) /\ Told(request.q) /\ row' = row
    BY <1>21, IsServed
  <2>2. mine' = mine /\ closed' = closed /\ (Signature(request.q) /\ ~Granted(request.q) => holder' = holder)
    BY <2>1, OfficeActs
  <2>3. Signature(request.q) /\ ~Granted(request.q) => Lost(request.q.of)'
    BY <2>1, <2>2, Asks, OfEstimate DEF Granted, OnRecord, Takes, Lost, Told
  <2> QED BY <2>1, <2>2, <2>3, LostStays DEF Told, Signature
<1>22. CASE OfficeTurnsAway
  BY <1>22, IsTurnedAway, OnWire, LostStays DEF phone, office
<1>23. CASE OfficeServesLate
  <2>1. PICK q \in Requests : Serves(q) /\ UNCHANGED <<row, request>>
    BY <1>23 DEF OfficeServesLate, phone, Shape, TypeOK
  <2> QED BY <2>1, OfficeActs, OnWire, LostStays
<1>24. ASSUME NEW e \in Estimates, SignsElsewhere(e) PROVE RefusalsHold'
  BY <1>24, OnWire, LostStays DEF SignsElsewhere, phone, office
<1>25. ASSUME NEW e \in Estimates, Close(e) PROVE RefusalsHold'
  BY <1>25, OnWire, LostStays DEF Close, phone, office
<1>26. ASSUME NEW e \in Estimates, Unassign(e) PROVE RefusalsHold'
  BY <1>26 DEF Unassign, Assigned, Shape
<1>27. CASE UNCHANGED vars
  BY <1>27, OnWire, LostStays DEF vars, phone, office
<1> QED BY <1>1, <1>2, <1>3, <1>4, <1>5, <1>6, <1>7, <1>8, <1>9, <1>10, <1>11, <1>12, <1>13, <1>14,
  <1>15, <1>16, <1>17, <1>18, <1>19, <1>20, <1>21, <1>22, <1>23, <1>24, <1>25, <1>26, <1>27
  DEF Next, Queue, Receive

\* An event answered "yes" is on record, and the record only grows.
LEMMA NextEvents == Filing /\ Base /\ EventsHold /\ [Next]_vars => EventsHold'
<1> SUFFICES ASSUME Filing, Base, EventsHold, [Next]_vars PROVE EventsHold'
  OBVIOUS
<1> USE DEF Base, EventsHold
<1>1. CASE BeginPass
  BY <1>1 DEF BeginPass, phone, office
<1>2. CASE Skip
  BY <1>2 DEF Skip, phone, office
<1>3. CASE Send
  BY <1>3, IsSent DEF Send, phone, office
<1>4. CASE EndPass
  BY <1>4 DEF EndPass, phone, office
<1>5. CASE LoseSignal
  BY <1>5 DEF LoseSignal, phone, office
<1>6. CASE FindSignal
  BY <1>6 DEF FindSignal, phone, office
<1>7. CASE Kill
  BY <1>7 DEF Kill, Forget, phone, office
<1>8. CASE Start
  BY <1>8 DEF Start, Forget, phone, office
<1>9. CASE ReceiveRecorded
  <2>1. filed' = filed
    BY <1>9 DEF ReceiveRecorded, Answer, office
  <2> QED BY <2>1, <1>9, IsRecorded DEF Same
<1>10. CASE ReceiveFiled
  BY <1>10, IsFiled DEF ReceiveFiled, Answer, Same, office, WireHolds
<1>11. CASE ReceiveRefused
  <2>1. filed' = filed
    BY <1>11 DEF ReceiveRefused, Answer, office
  <2> QED BY <2>1, <1>11, IsRefused DEF Same
<1>12. CASE ReceiveBusy
  BY <1>12, IsTried DEF ReceiveBusy, Answer, Same, phone, office
<1>13. CASE ReceiveSignInAgain
  BY <1>13, IsTried DEF ReceiveSignInAgain, Answer, Same, phone, office
<1>14. CASE NoAnswer
  BY <1>14, IsTried DEF NoAnswer, Same, phone, office
<1>15. CASE Prune
  BY <1>15, SetPruned DEF Prune, phone, office
<1>16. ASSUME NEW c \in Captures, Capture(c) PROVE EventsHold'
  BY <1>16, IsNew DEF Capture, Same, phone, office
<1>17. ASSUME NEW c \in Captures, FinishCapture(c) PROVE EventsHold'
  BY <1>17, IsSaid DEF Same, phone, office
<1>18. ASSUME NEW c \in Captures, Cancel(c) PROVE EventsHold'
  BY <1>18, IsWithdrawn DEF Same, phone, office
<1>19. ASSUME NEW c \in Captures, Dismiss(c) PROVE EventsHold'
  BY <1>19, IsWithdrawn DEF Same, phone, office
<1>20. ASSUME NEW c \in Captures, RemoveUnfiled(c) PROVE EventsHold'
  BY <1>20, IsRemoved DEF RemoveUnfiled, Same, phone, office
<1>21. CASE OfficeServes
  <2>1. request # NoRequest /\ request.q \in Requests /\ Serves(request.q) /\ Told(request.q) /\ row' = row
    BY <1>21, IsServed
  <2>2. filed \subseteq filed' /\ (~Signature(request.q) /\ Granted(request.q) => <<request.q.of, request.q.kind>> \in filed')
    BY <2>1, OfficeActs DEF Filing, Shape
  <2> QED BY <2>1, <2>2 DEF Told, Signature
<1>22. CASE OfficeTurnsAway
  BY <1>22, IsTurnedAway DEF phone, office
<1>23. CASE OfficeServesLate
  <2>1. PICK q \in Requests : Serves(q) /\ UNCHANGED <<row, request>>
    BY <1>23 DEF OfficeServesLate, phone, Shape, TypeOK
  <2>2. filed \subseteq filed'
    BY <2>1, OfficeActs
  <2> QED BY <2>1, <2>2
<1>24. ASSUME NEW e \in Estimates, SignsElsewhere(e) PROVE EventsHold'
  BY <1>24 DEF SignsElsewhere, phone, office
<1>25. ASSUME NEW e \in Estimates, Close(e) PROVE EventsHold'
  BY <1>25 DEF Close, phone, office
<1>26. ASSUME NEW e \in Estimates, Unassign(e) PROVE EventsHold'
  BY <1>26 DEF Unassign, phone, office
<1>27. CASE UNCHANGED vars
  BY <1>27 DEF vars, phone, office
<1> QED BY <1>1, <1>2, <1>3, <1>4, <1>5, <1>6, <1>7, <1>8, <1>9, <1>10, <1>11, <1>12, <1>13, <1>14,
  <1>15, <1>16, <1>17, <1>18, <1>19, <1>20, <1>21, <1>22, <1>23, <1>24, <1>25, <1>26, <1>27
  DEF Next, Queue, Receive

\* What asked to sign waits until it was tried, or the pass was cut short.
LEMMA NextTry == Base /\ TryHolds /\ [Next]_vars => TryHolds'
<1> SUFFICES ASSUME Base, TryHolds, [Next]_vars PROVE TryHolds'
  OBVIOUS
<1> USE DEF Base, Shape, TryHolds, Waits
<1>1. CASE BeginPass
  BY <1>1 DEF BeginPass, In, Shape, TypeOK
<1>2. CASE Skip
  BY <1>2 DEF Skip, Oldest, InFlight
<1>3. CASE Send
  <2>1. UNCHANGED <<row, screen, open, pass, again, short>> /\ request = NoRequest
    BY <1>3 DEF Send, Ready
  <2> QED BY <2>1, <1>3, IsSent DEF InFlight
<1>4. CASE EndPass
  BY <1>4 DEF EndPass, Ready, InFlight, Shape, TypeOK
<1>5. CASE LoseSignal
  BY <1>5, OnWire DEF LoseSignal, phone, office, InFlight
<1>6. CASE FindSignal
  BY <1>6 DEF FindSignal, Flush, InFlight
<1>7. CASE Kill
  BY <1>7 DEF Kill
<1>8. CASE Start
  BY <1>8 DEF Start
<1>9. CASE ReceiveRecorded
  <2>1. UNCHANGED <<screen, open, pass, again, short, todo>>
    BY <1>9 DEF ReceiveRecorded, Answer
  <2> QED BY <2>1, <1>9, IsRecorded DEF Same, InFlight
<1>10. CASE ReceiveFiled
  <2>1. UNCHANGED <<screen, open, pass, again, short, todo>>
    BY <1>10 DEF ReceiveFiled, Answer
  <2> QED BY <2>1, <1>10, IsFiled DEF Same, InFlight
<1>11. CASE ReceiveRefused
  <2>1. UNCHANGED <<screen, open, pass, again, short, todo>>
    BY <1>11 DEF ReceiveRefused, Answer
  <2> QED BY <2>1, <1>11, IsRefused DEF Same, InFlight
<1>12. CASE ReceiveBusy
  <2>1. UNCHANGED <<screen, open, pass, again, short, todo>>
    BY <1>12 DEF ReceiveBusy, Answer
  <2> QED BY <2>1, <1>12, IsTried DEF Same, InFlight
<1>13. CASE ReceiveSignInAgain
  BY <1>13 DEF ReceiveSignInAgain, Answer
<1>14. CASE NoAnswer
  BY <1>14 DEF NoAnswer, Answer
<1>15. CASE Prune
  BY <1>15, SetPruned DEF Prune, InFlight, Shape, Typed, TypeOK
<1>16. ASSUME NEW c \in Captures, Capture(c) PROVE TryHolds'
  BY <1>16, IsNew, OnScreen DEF Capture, Flush, Same, InFlight, Shape, TypeOK
<1>17. ASSUME NEW c \in Captures, FinishCapture(c) PROVE TryHolds'
  BY <1>17, IsSaid, OnScreen DEF Same, InFlight
<1>18. ASSUME NEW c \in Captures, Cancel(c) PROVE TryHolds'
  BY <1>18, IsWithdrawn DEF Same, InFlight
<1>19. ASSUME NEW c \in Captures, Dismiss(c) PROVE TryHolds'
  BY <1>19, IsWithdrawn DEF Same, InFlight
<1>20. ASSUME NEW c \in Captures, RemoveUnfiled(c) PROVE TryHolds'
  BY <1>20, IsRemoved DEF RemoveUnfiled, Same, InFlight
<1>21. CASE OfficeServes
  BY <1>21, IsServed DEF Told, InFlight
<1>22. CASE OfficeTurnsAway
  BY <1>22, IsTurnedAway DEF InFlight
<1>23. CASE OfficeServesLate
  BY <1>23 DEF OfficeServesLate, phone, InFlight
<1>24. ASSUME NEW e \in Estimates, SignsElsewhere(e) PROVE TryHolds'
  BY <1>24, OnWire DEF SignsElsewhere, phone, office, InFlight
<1>25. ASSUME NEW e \in Estimates, Close(e) PROVE TryHolds'
  BY <1>25, OnWire DEF Close, phone, office, InFlight
<1>26. ASSUME NEW e \in Estimates, Unassign(e) PROVE TryHolds'
  BY <1>26, OnWire DEF Unassign, phone, office, InFlight
<1>27. CASE UNCHANGED vars
  BY <1>27, OnWire DEF vars, phone, office, InFlight
<1> QED BY <1>1, <1>2, <1>3, <1>4, <1>5, <1>6, <1>7, <1>8, <1>9, <1>10, <1>11, <1>12, <1>13, <1>14,
  <1>15, <1>16, <1>17, <1>18, <1>19, <1>20, <1>21, <1>22, <1>23, <1>24, <1>25, <1>26, <1>27
  DEF Next, Queue, Receive

LEMMA InitOthers == Init => RefusalsHold /\ EventsHold /\ TryHolds
<1>1. NoRow.state = "none" /\ NoRow.why = "none"
  BY DEF NoRow
<1> QED BY <1>1 DEF Init, RefusalsHold, EventsHold, TryHolds, Waits

LEMMA EventsStay ==
  ASSUME Filing
  PROVE  Spec => []EventsHold
<1>1. Init => EventsHold
  BY InitOthers
<1>2. Base /\ EventsHold /\ [Next]_vars => EventsHold'
  BY NextEvents
<1> QED BY <1>1, <1>2, BaseHolds, PTL DEF Spec

\* Nothing the phone held goes silently, while the office files what it answers.
THEOREM NothingLostSilently ==
  ASSUME Filing
  PROVE  Spec => []LeavesTrace
<1>1. Base /\ EventsHold => LeavesTrace
  BY DEF Base, RowsHold, RowHolds, EventsHold, LeavesTrace
<1> QED BY <1>1, BaseHolds, EventsStay, PTL

\* A screen that asked to sign is answered after its capture was tried, or
\* after a pass that was cut short.
THEOREM TriesBeforeTelling == Spec => TriedBeforeTold
<1> DEFINE Fair == \A c \in Captures : screen[c] = "asking" /\ screen'[c] = "back" /\ row[c].state = "queued"
                                         => row[c].tried \/ short
<1>1. Init => TryHolds
  BY InitOthers
<1>2. Base /\ TryHolds /\ [Next]_vars => TryHolds'
  BY NextTry
<1>3. Base /\ TryHolds /\ [Next]_vars => [Fair]_vars
  <2> SUFFICES ASSUME Base, TryHolds, [Next]_vars, NEW c \in Captures,
                      screen[c] = "asking", screen'[c] = "back", row[c].state = "queued"
               PROVE  row[c].tried \/ short
    BY DEF vars
  <2>1. CASE EndPass
    <3>1. open /\ pass = "running" /\ request = NoRequest /\ todo = {} /\ ~again
      BY <2>1 DEF EndPass, Ready
    <3> QED BY <3>1 DEF TryHolds, Waits, InFlight
  <2>2. ASSUME NEW d \in Captures, Capture(d) PROVE FALSE
    BY <2>2, OnScreen DEF Capture, Base
  <2>3. ASSUME NEW d \in Captures, FinishCapture(d) PROVE FALSE
    BY <2>3, IsSaid, OnScreen DEF Base, Screens
  <2>4. CASE Kill
    BY <2>4 DEF Kill
  <2>5. CASE UNCHANGED screen
    BY <2>5
  <2> QED BY <2>1, <2>2, <2>3, <2>4, <2>5 DEF Next, Queue, Receive, BeginPass, Skip, Send, ReceiveRecorded, ReceiveFiled,
    ReceiveRefused, ReceiveBusy, ReceiveSignInAgain, Answer, NoAnswer, Start, LoseSignal, FindSignal, Prune,
    Cancel, Dismiss, Withdraw, RemoveUnfiled, OfficeServes, OfficeTurnsAway, Reply, OfficeServesLate,
    SignsElsewhere, Close, Unassign, phone, vars
<1> QED BY <1>1, <1>2, <1>3, BaseHolds, PTL DEF Spec, TriedBeforeTold

-----------------------------------------------------------------------------
(* The queue keeps the promise of SignatureFate.                           *)

Fates == [c \in Captures |-> FateOf(c)]
OthersKeep(c) == \A d \in Captures \ {c} : FateOf(d)' = FateOf(d)

LEMMA FateChanges ==
  ASSUME NEW c \in Captures, NEW f, OthersKeep(c), FateOf(c)' = f
  PROVE  Fates' = [Fates EXCEPT ![c] = f]
<1>1. Fates' = [d \in Captures |-> FateOf(d)']
  BY DEF Fates
<1>2. [Fates EXCEPT ![c] = f] = [d \in Captures |-> IF d = c THEN f ELSE FateOf(d)]
  BY DEF Fates
<1> QED BY <1>1, <1>2 DEF OthersKeep

LEMMA FateStays ==
  ASSUME \A d \in Captures : FateOf(d)' = FateOf(d)
  PROVE  Fates' = Fates
BY DEF Fates

\* What a step does to one capture, and the step of SignatureFate it is.
LEMMA FateSteps ==
  ASSUME NEW c \in Captures, OthersKeep(c),
         \/ /\ holder' = holder
            /\ \/ FateOf(c) = "none" /\ FateOf(c)' = "held"
               \/ FateOf(c) = "held" /\ FateOf(c)' = "recorded" /\ holder[Of[c]] = c
               \/ FateOf(c) = "held" /\ FateOf(c)' = "refused" /\ holder[Of[c]] # c
               \/ FateOf(c) \in {"held", "refused"} /\ FateOf(c)' = "withdrawn"
         \/ /\ holder' = [holder EXCEPT ![Of[c]] = c] /\ holder[Of[c]] = Nobody
            /\ FateOf(c) = "held" /\ FateOf(c)' \in {"held", "withdrawn"}
  PROVE  Fate!Next
<1> DEFINE f == FateOf(c)'
<1>1. Fates' = [Fates EXCEPT ![c] = f] /\ Fates[c] = FateOf(c)
  BY FateChanges DEF Fates
<1>2. f = FateOf(c) => Fates' = Fates
  BY FateStays DEF OthersKeep
<1> HIDE DEF f
<1>3. CASE /\ holder' = holder
           /\ \/ FateOf(c) = "none" /\ f = "held"
              \/ FateOf(c) = "held" /\ f = "recorded" /\ holder[Of[c]] = c
              \/ FateOf(c) = "held" /\ f = "refused" /\ holder[Of[c]] # c
              \/ FateOf(c) \in {"held", "refused"} /\ f = "withdrawn"
  <2>1. CASE FateOf(c) = "none" /\ f = "held"
    <3>1. Fate!Take(c)
      BY <1>1, <1>3, <2>1 DEF Fate!Take, Fate!Becomes, Fates
    <3> QED BY <3>1 DEF Fate!Next
  <2>2. CASE FateOf(c) = "held" /\ f = "recorded" /\ holder[Of[c]] = c
    <3>1. Fate!Record(c)
      BY <1>1, <1>3, <2>2 DEF Fate!Record, Fate!Becomes, Fates
    <3> QED BY <3>1 DEF Fate!Next
  <2>3. CASE FateOf(c) = "held" /\ f = "refused" /\ holder[Of[c]] # c
    <3>1. Fate!Refuse(c)
      BY <1>1, <1>3, <2>3 DEF Fate!Refuse, Fate!Becomes, Fates
    <3> QED BY <3>1 DEF Fate!Next
  <2>4. CASE FateOf(c) \in {"held", "refused"} /\ f = "withdrawn"
    <3>1. Fate!Withdraw(c)
      BY <1>1, <1>3, <2>4 DEF Fate!Withdraw, Fate!Becomes, Fates
    <3> QED BY <3>1 DEF Fate!Next
  <2> QED BY <1>3, <2>1, <2>2, <2>3, <2>4
<1>4. CASE /\ holder' = [holder EXCEPT ![Of[c]] = c] /\ holder[Of[c]] = Nobody
           /\ FateOf(c) = "held" /\ f \in {"held", "withdrawn"}
  <2>1. CASE f = "held"
    <3>1. Fate!Sign(c)
      BY <1>1, <1>2, <1>4, <2>1 DEF Fate!Sign, Fates
    <3> QED BY <3>1 DEF Fate!Next
  <2>2. CASE f = "withdrawn"
    <3>1. Fate!SignWithdrawn(c)
      BY <1>1, <1>4, <2>2 DEF Fate!SignWithdrawn, Fates
    <3> QED BY <3>1 DEF Fate!Next
  <2> QED BY <1>4, <2>1, <2>2
<1> QED BY <1>3, <1>4 DEF f

LEMMA SignedElsewhere ==
  ASSUME NEW e \in Estimates, SignsElsewhere(e), Fates' = Fates
  PROVE  Fate!Next
<1>1. Fate!SignElsewhere(e)
  BY DEF SignsElsewhere, Fate!SignElsewhere, Fates
<1>2. e \in Fate!Estimates
  BY DEF Estimates, Fate!Estimates
<1> QED BY <1>1, <1>2 DEF Fate!Next


\* A capture whose row keeps its place, and for which no request came or went,
\* keeps its fate.
LEMMA FateKept ==
  ASSUME Shape, NEW c \in Captures,
         \/ row'[c].state = row[c].state /\ row'[c].why = row[c].why
         \/ row[c].state = "recorded" /\ row'[c].state = "pruned"
         \/ row[c].state = "refused" /\ row'[c].state = "told"
         \/ row[c].state \in Off /\ row'[c].state \in Off /\ row'[c].why = row[c].why,
         row[c].state \in Off \/ row'[c].state \in Off => Late(c)' = Late(c)
  PROVE  FateOf(c)' = FateOf(c)
<1>1. row[c].state \in RowStates
  BY RowFields DEF Shape, TypeOK, Typed
<1> QED BY <1>1 DEF FateOf, Off, RowStates, Gone

\* Requests given up on are of captures still queued, or no signatures.
LEMMA LateKept ==
  ASSUME Base, NEW c \in Captures, row[c].state \in Off, row'[c].why = row[c].why,
         late' = late \/ GiveUp
  PROVE  Late(c)' = Late(c)
<1>1. late \subseteq late' /\ \A q \in late' : q \in late \/ (request # NoRequest /\ q = request.q)
  BY DEF GiveUp
<1>2. (request # NoRequest /\ request.q.kind = "sign") => request.q.of # c
  BY DEF Base, WireHolds, Off
<1> QED BY <1>1, <1>2 DEF Late

LEMMA NextFate == Assigned /\ Base /\ RefusalsHold /\ [Next]_vars => Fate!Next \/ UNCHANGED <<Fates, holder>>
<1> DEFINE Goal == Fate!Next \/ UNCHANGED <<Fates, holder>>
<1> SUFFICES ASSUME Assigned, Base, RefusalsHold, [Next]_vars PROVE Goal
  OBVIOUS
<1> USE DEF Base
<1>1. CASE /\ UNCHANGED holder /\ (late' = late \/ GiveUp)
           /\ \A c \in Captures :
                \/ row'[c].state = row[c].state /\ row'[c].why = row[c].why
                \/ row[c].state = "recorded" /\ row'[c].state = "pruned"
                \/ row[c].state = "refused" /\ row'[c].state = "told"
                \/ row[c].state \in Off /\ row'[c].state \in Off /\ row'[c].why = row[c].why
  <2> SUFFICES ASSUME NEW c \in Captures PROVE FateOf(c)' = FateOf(c)
    BY <1>1, FateStays
  <2>1. row[c].state \in Off \/ row'[c].state \in Off => row[c].state \in Off /\ row'[c].why = row[c].why
    BY <1>1 DEF Off
  <2> QED BY <1>1, <2>1, LateKept, FateKept
\* A step that changes only the row of c, and no request given up on.
<1>2. ASSUME NEW c \in Captures, Same(c), late' = late PROVE OthersKeep(c)
  <2> SUFFICES ASSUME NEW d \in Captures \ {c} PROVE FateOf(d)' = FateOf(d)
    BY DEF OthersKeep
  <2>1. row'[d] = row[d]
    BY <1>2 DEF Same
  <2> QED BY <1>2, <2>1 DEF FateOf, Late
<1> HIDE DEF Goal
<1>3. CASE BeginPass \/ Skip \/ Send \/ EndPass \/ LoseSignal \/ FindSignal
  BY <1>1, <1>3 DEF BeginPass, Skip, Send, EndPass, LoseSignal, FindSignal, phone, office
<1>4. CASE Kill \/ Start
  BY <1>1, <1>4 DEF Kill, Start, Forget, office
<1>5. CASE ReceiveBusy \/ ReceiveSignInAgain \/ NoAnswer
  <2>1. UNCHANGED holder /\ (late' = late \/ GiveUp)
    BY <1>5 DEF ReceiveBusy, ReceiveSignInAgain, NoAnswer, Answer, office
  <2> QED BY <1>1, <1>5, <2>1, IsTried DEF Same
<1>6. CASE OfficeTurnsAway \/ UNCHANGED vars
  BY <1>1, <1>6, IsTurnedAway DEF office, phone, vars
<1>7. CASE ReceiveRecorded
  <2> PICK c \in Captures : c = request.q.of
    BY <1>7, IsRecorded
  <2>1. UNCHANGED <<holder, late>>
    BY <1>7 DEF ReceiveRecorded, Answer, office
  <2>2. /\ Same(c) /\ row[c].state = "queued" /\ row'[c].state = "recorded"
        /\ holder[Of[c]] = c
    BY <1>7, IsRecorded DEF WireHolds
  <2>3. OthersKeep(c)
    BY <1>2, <2>1, <2>2
  <2>4. FateOf(c) = "held" /\ FateOf(c)' = "recorded"
    BY <2>2 DEF FateOf
  <2> QED BY <2>1, <2>2, <2>3, <2>4, FateSteps DEF Goal
<1>8. CASE ReceiveFiled
  <2>1. UNCHANGED <<holder, late>>
    BY <1>8 DEF ReceiveFiled, Answer, office
  <2>2. row[request.q.of].state = "cancelled"
    BY <1>8, IsFiled DEF WireHolds
  <2> QED BY <1>1, <1>8, <2>1, <2>2, IsFiled DEF Same, Off
<1>9. CASE ReceiveRefused /\ request.q.kind = "sign"
  <2> PICK c \in Captures : c = request.q.of
    BY <1>9, IsRefused
  <2>1. UNCHANGED <<holder, late>>
    BY <1>9 DEF ReceiveRefused, Answer, office
  <2>2. /\ Same(c) /\ row[c].state = "queued" /\ row'[c].state = "refused"
        /\ holder[Of[c]] # c
    BY <1>9, IsRefused DEF WireHolds, RefusalsHold, Lost
  <2>3. OthersKeep(c)
    BY <1>2, <2>1, <2>2
  <2>4. FateOf(c) = "held" /\ FateOf(c)' = "refused"
    BY <2>2 DEF FateOf
  <2> QED BY <2>1, <2>2, <2>3, <2>4, FateSteps DEF Goal
<1>10. CASE ReceiveRefused /\ request.q.kind # "sign"
  <2>1. UNCHANGED <<holder, late>>
    BY <1>10 DEF ReceiveRefused, Answer, office
  <2>2. row[request.q.of].state = "cancelled"
    BY <1>10, IsRefused DEF WireHolds
  <2> QED BY <1>1, <1>10, <2>1, <2>2, IsRefused DEF Same, Off
<1>11. CASE Prune
  <2>1. UNCHANGED <<holder, late>>
    BY <1>11 DEF Prune, office
  <2> QED BY <1>1, <1>11, <2>1, SetPruned DEF Shape, TypeOK, Typed
<1>12. ASSUME NEW c \in Captures, Capture(c) PROVE Goal
  <2>1. UNCHANGED <<holder, late>>
    BY <1>12 DEF Capture, office
  <2>2. OthersKeep(c)
    BY <1>2, <1>12, <2>1, IsNew
  <2> QED BY <1>12, <2>1, <2>2, IsNew, FateSteps DEF FateOf, Goal
<1>13. ASSUME NEW c \in Captures, FinishCapture(c) PROVE Goal
  BY <1>1, <1>13, IsSaid DEF Same, office
<1>14. ASSUME NEW c \in Captures, Cancel(c) PROVE Goal
  <2>1. UNCHANGED <<holder, late>>
    BY <1>14, IsWithdrawn DEF office
  <2>2. OthersKeep(c)
    BY <1>2, <1>14, <2>1, IsWithdrawn
  <2>3. FateOf(c) = "held" /\ FateOf(c)' \in {"held", "withdrawn"}
    BY <1>14, IsWithdrawn DEF FateOf
  <2>4. CASE FateOf(c)' = "held"
    BY <2>1, <2>2, <2>3, <2>4, FateStays DEF OthersKeep, Goal
  <2> QED BY <2>1, <2>2, <2>3, <2>4, FateSteps DEF Goal
<1>15. ASSUME NEW c \in Captures, Dismiss(c) PROVE Goal
  <2>1. UNCHANGED <<holder, late>>
    BY <1>15, IsWithdrawn DEF office
  <2>2. OthersKeep(c)
    BY <1>2, <1>15, <2>1, IsWithdrawn
  <2>3. FateOf(c) = "refused" /\ FateOf(c)' = "withdrawn"
    BY <1>15, IsWithdrawn DEF FateOf, Late
  <2> QED BY <2>1, <2>2, <2>3, FateSteps DEF Goal
<1>16. ASSUME NEW c \in Captures, RemoveUnfiled(c) PROVE Goal
  <2>1. UNCHANGED <<holder, late>>
    BY <1>16 DEF RemoveUnfiled, office
  <2> QED BY <1>1, <1>16, <2>1, IsRemoved DEF Same, Off
<1>17. CASE OfficeServes
  <2> PICK c \in Captures : c = request.q.of
    BY <1>17, IsServed, Asks
  <2>1. /\ request # NoRequest /\ request.q \in Requests /\ Serves(request.q)
        /\ UNCHANGED <<row, late>>
    BY <1>17, IsServed, Asks
  <2>2. CASE UNCHANGED holder
    BY <1>1, <2>1, <2>2
  <2>3. CASE Writes(request.q)
    <3>1. /\ row[c].state = "queued" /\ holder[Of[c]] = Nobody
          /\ holder' = [holder EXCEPT ![Of[c]] = c]
      BY <2>1, <2>3 DEF Writes, Takes, Signature, WireHolds
    <3>2. OthersKeep(c)
      BY <1>2, <2>1 DEF Same
    <3>3. FateOf(c) = "held" /\ FateOf(c)' = "held"
      BY <2>1, <3>1 DEF FateOf
    <3> QED BY <3>1, <3>2, <3>3, FateSteps DEF Goal
  <2> QED BY <2>1, <2>2, <2>3, OfficeActs
<1>18. CASE OfficeServesLate
  <2>1. PICK q \in late : Serves(q) /\ late' = late \ {q} /\ UNCHANGED row
    BY <1>18 DEF OfficeServesLate, phone
  <2> DEFINE c == q.of
  <2>2. q \in Requests /\ c \in Captures
    BY <2>1, Asks DEF Shape, TypeOK
  <2>3. OthersKeep(c)
    <3> SUFFICES ASSUME NEW d \in Captures \ {c} PROVE FateOf(d)' = FateOf(d)
      BY DEF OthersKeep
    <3>1. Late(d)' = Late(d)
      BY <2>1 DEF Late
    <3> QED BY <2>1, <3>1 DEF FateOf
  <2>4. \/ FateOf(c)' = FateOf(c)
        \/ FateOf(c) = "held" /\ FateOf(c)' = "withdrawn"
    BY <2>1 DEF FateOf, Late
  <2>5. CASE UNCHANGED holder
    <3>1. CASE FateOf(c)' = FateOf(c)
      BY <2>3, <2>5, <3>1, FateStays DEF OthersKeep, Goal
    <3>2. CASE FateOf(c) = "held" /\ FateOf(c)' = "withdrawn"
      <4> HIDE DEF c
      <4> QED BY <2>2, <2>3, <2>5, <3>2, FateSteps DEF Goal
    <3> QED BY <2>4, <3>1, <3>2
  <2>6. CASE Writes(q)
    <3>1. /\ q.kind = "sign" /\ holder[Of[c]] = Nobody /\ Of[c] \notin closed
          /\ holder' = [holder EXCEPT ![Of[c]] = c]
      BY <2>6 DEF Writes, Takes, Signature
    <3>2. row[c].state \notin {"none", "recorded", "pruned", "refused", "told"} /\ row[c].why # "dismissed"
      BY <2>1, <2>2, <3>1, NamesAssumption DEF RowsHold, RowHolds, RefusalsHold, Lost
    <3>3. FateOf(c) = "held"
      BY <2>1, <3>1, <3>2 DEF FateOf, Late
    <3> HIDE DEF c
    <3> QED BY <2>2, <2>3, <2>4, <3>1, <3>3, FateSteps DEF Goal
  <2> QED BY <2>1, <2>2, <2>5, <2>6, OfficeActs
<1>19. ASSUME NEW e \in Estimates, SignsElsewhere(e) PROVE Goal
  <2>1. UNCHANGED <<row, late>>
    BY <1>19 DEF SignsElsewhere, phone
  <2>2. \A c \in Captures : FateOf(c)' = FateOf(c)
    BY <2>1 DEF FateOf, Late
  <2> QED BY <1>19, <2>2, FateStays, SignedElsewhere DEF Goal
<1>20. ASSUME NEW e \in Estimates, Close(e) \/ Unassign(e) PROVE Goal
  BY <1>1, <1>20 DEF Close, Unassign, phone
<1> QED BY <1>3, <1>4, <1>5, <1>6, <1>7, <1>8, <1>9, <1>10, <1>11, <1>12, <1>13, <1>14, <1>15, <1>16, <1>17, <1>18,
  <1>19, <1>20 DEF Next, Queue, Receive

LEMMA RefusalsStay == ASSUME Assigned PROVE Spec => []RefusalsHold
<1>1. Init => RefusalsHold
  BY InitOthers
<1>2. Base /\ RefusalsHold /\ [Next]_vars => RefusalsHold'
  BY NextRefusals
<1> QED BY <1>1, <1>2, BaseHolds, PTL DEF Spec

\* The phone and the office together do what SignatureFate promises, while the
\* technician stays on the visit.
THEOREM KeepsPromise == ASSUME Assigned PROVE Spec => Promise
<1>1. Init => Fate!Init
  BY DEF Init, Fate!Init, FateOf, NoRow, Estimates, Fate!Estimates
<1>2. Base /\ RefusalsHold /\ [Next]_vars => [Fate!Next]_<<Fates, holder>>
  BY NextFate
<1> QED BY <1>1, <1>2, BaseHolds, RefusalsStay, PTL DEF Spec, Promise, Fate!Spec, Fates
=============================================================================
