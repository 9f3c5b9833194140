--------------------------- MODULE SignatureQueue ---------------------------
(***************************************************************************)
(* Signing with no signal.  The technician's phone writes a signature to   *)
(* its own store before anything is sent, and a pass over the queue sends  *)
(* what is waiting, one row at a time, until the office answers.  A row    *)
(* leaves the phone recorded, refused on the screen, or filed as cancelled *)
(* or dismissed.  Answers are lost, the phone is killed, and the office    *)
(* may act on a request the phone has given up on.                         *)
(*                                                                         *)
(* A row's reads and its write on one answer are one step: the exits       *)
(* refuse a row on the wire, and an exit that slips in behind an answer    *)
(* already read is overwritten by it.                                      *)
(***************************************************************************)
EXTENDS Naturals, FiniteSets

CONSTANTS
  Captures,  \* signatures drawn on this phone: 1 .. n, in the order drawn
  Of,        \* the estimate each is drawn for
  Troubles,  \* what may go wrong together, in sets
  MaxLate,   \* bound on requests given up on and still out at one time
  Nobody,    \* no signature on the estimate yet
  Other      \* a signature taken through another door

ASSUME CapturesAssumption == Captures = 1 .. Cardinality(Captures)
ASSUME BoundAssumption == MaxLate \in Nat
ASSUME NamesAssumption == Nobody \notin Captures /\ Other \notin Captures /\ Nobody # Other

Estimates == {Of[c] : c \in Captures}

VARIABLES
  row,       \* the phone's row of each capture
  screen,    \* what the screen that took it is doing or said
  open,      \* the app is running
  signal,    \* the phone has signal
  trouble,   \* what may go wrong this time: see each use
  pass,      \* the flush: "idle", "due", "running"
  again,     \* flushRerun
  todo,      \* rows of this pass still to look at: capture and state when listed
  request,   \* the request on the wire and the office's reply to it
  short,     \* the last pass ended before every row was tried
  late,      \* requests the phone gave up on that the office may still serve
  holder,    \* whose signature each estimate carries
  closed,    \* estimates that take no signature: revised, voided, lost, expired
  mine,      \* estimates still on one of this technician's visits
  noticed,   \* captures whose refusal was emailed to the owner
  filed,     \* signature events on record
  followed   \* times the job, the notice and the archive pass were run

phone == <<row, screen, open, pass, again, todo, request, short>>
office == <<holder, closed, mine, noticed, filed, followed>>
vars == <<phone, signal, trouble, late, office>>

Gone == {"pruned", "filed", "told", "removed"}
RowStates == {"none", "queued", "recorded", "refused", "cancelled", "unfiled"} \union Gone
Rows == [state : RowStates, why : {"none", "cancelled", "dismissed"},
         tried : BOOLEAN, offline : BOOLEAN, result : BOOLEAN]
NoRow == [state |-> "none", why |-> "none", tried |-> FALSE, offline |-> FALSE, result |-> FALSE]
Requests == [of : Captures, kind : {"sign", "cancelled", "dismissed"}, held : BOOLEAN]
NoRequest == [reply |-> "nothing sent"]

Init ==
  /\ row = [c \in Captures |-> NoRow]
  /\ screen = [c \in Captures |-> "none"]
  /\ open = TRUE /\ signal \in BOOLEAN /\ trouble \in Troubles
  /\ pass = "idle" /\ again = FALSE /\ todo = {} /\ request = NoRequest /\ short = FALSE
  /\ late = {}
  /\ holder = [e \in Estimates |-> Nobody]
  /\ closed = {} /\ mine = Estimates
  /\ noticed = {} /\ filed = {} /\ followed = [c \in Captures |-> 0]

In(states) == {c \in Captures : row[c].state \in states}
InFlight(c) == request # NoRequest /\ request.q.of = c
Becomes(c, state) == row' = [row EXCEPT ![c].state = state]

-----------------------------------------------------------------------------
\* Mutated forms of the definitions below, each a plausible bug.
FlushOnce ==
  /\ pass' = IF pass = "idle" THEN "due" ELSE pass
  /\ again' = again

BeginPassUntried ==
  /\ open /\ pass = "due"
  /\ pass' = "running" /\ short' = ~signal
  /\ todo' = IF signal THEN {[of |-> c, state |-> row[c].state] :
                              c \in {d \in In({"queued", "cancelled"}) : ~row[d].tried}}
             ELSE {}
  /\ UNCHANGED <<row, screen, open, again, request, signal, trouble, late, office>>

\* A flush asked for while one runs schedules one more pass, if what asked
\* for it changed something.
Flush ==
  /\ pass' = IF pass = "idle" THEN "due" ELSE pass
  /\ again' = (again \/ pass # "idle")

\* The gate: the newest signature this phone shows for the estimate is not a
\* held one.  A cancelled row shows nowhere.
Shown(e) == {c \in In(RowStates \ ({"none", "cancelled"} \union Gone)) : Of[c] = e}
Newest(e) == {c \in Shown(e) : \A d \in Shown(e) : d <= c}
Gate(e) == \A c \in Newest(e) : row[c].state = "unfiled"

Capture(c) ==
  /\ open /\ row[c].state = "none"
  /\ \A d \in Captures : /\ d < c => row[d].state # "none"
                         /\ screen[d] \notin {"asking", "back"}
  /\ Gate(Of[c])
  /\ row' = [row EXCEPT ![c] = [NoRow EXCEPT !.state = "queued", !.offline = ~signal]]
  /\ screen' = [screen EXCEPT ![c] = "asking"]
  /\ Flush
  /\ UNCHANGED <<open, todo, request, short, signal, trouble, late, office>>

\* With no signal nothing is attempted and nothing counts as a try.
BeginPass ==
  /\ open /\ pass = "due"
  /\ pass' = "running" /\ short' = ~signal
  /\ todo' = IF signal THEN {[of |-> c, state |-> row[c].state] : c \in In({"queued", "cancelled"})}
             ELSE {}
  /\ UNCHANGED <<row, screen, open, again, request, signal, trouble, late, office>>

Oldest == {t \in todo : \A u \in todo : t.of <= u.of}
Ready == open /\ pass = "running" /\ request = NoRequest

\* Re-read right before the send: an exit may have taken the row meanwhile.
Skip ==
  /\ Ready
  /\ \E t \in Oldest : row[t.of].state # t.state /\ todo' = todo \ {t}
  /\ UNCHANGED <<row, screen, open, pass, again, request, short, signal, trouble, late, office>>

Held(c) == row[c].offline \/ row[c].tried
KindOf(c) == IF row[c].state = "queued" THEN "sign" ELSE row[c].why

\* (mutated: no second look at the row)
SendListed ==
  /\ Ready
  /\ \E t \in Oldest :
       /\ request' = [reply |-> "none",
                      q |-> [of |-> t.of, held |-> Held(t.of),
                             kind |-> IF t.state = "queued" THEN "sign" ELSE row[t.of].why]]
       /\ todo' = todo \ {t}
  /\ UNCHANGED <<row, screen, open, pass, again, short, signal, trouble, late, office>>

Send ==
  /\ Ready
  /\ \E t \in Oldest :
       /\ row[t.of].state = t.state /\ todo' = todo \ {t}
       /\ request' = [reply |-> "none",
                      q |-> [of |-> t.of, kind |-> KindOf(t.of), held |-> Held(t.of)]]
  /\ UNCHANGED <<row, screen, open, pass, again, short, signal, trouble, late, office>>

-----------------------------------------------------------------------------
\* The answer table.
Answer(replies) ==
  /\ open /\ request.reply \in replies
  /\ request' = NoRequest
  /\ UNCHANGED <<screen, open, pass, again, signal, trouble, late, office>>

\* "cut" is a 2xx whose body never arrived: the row has no result.
ReceiveRecorded ==
  /\ Answer({"ok", "cut"}) /\ request.q.kind = "sign"
  /\ row' = [row EXCEPT ![request.q.of].state = "recorded",
                        ![request.q.of].result = (request.reply = "ok")]
  /\ UNCHANGED <<todo, short>>

ReceiveFiled ==
  /\ Answer({"ok", "cut"}) /\ request.q.kind # "sign"
  /\ Becomes(request.q.of, "filed")
  /\ UNCHANGED <<todo, short>>

\* (mutated: an event the office will not file is dropped)
ReceiveRefusedDropped ==
  /\ Answer({"refused"})
  /\ row' = [row EXCEPT ![request.q.of].state = IF request.q.kind = "sign" THEN "refused" ELSE "filed",
                        ![request.q.of].tried = TRUE]
  /\ UNCHANGED <<todo, short>>

ReceiveRefused ==
  /\ Answer({"refused"})
  /\ row' = [row EXCEPT ![request.q.of].state = IF request.q.kind = "sign" THEN "refused" ELSE "unfiled",
                        ![request.q.of].tried = TRUE]
  /\ UNCHANGED <<todo, short>>

Tried == row' = [row EXCEPT ![request.q.of].tried = TRUE]

ReceiveBusy == Answer({"busy"}) /\ Tried /\ UNCHANGED <<todo, short>>

ReceiveSignInAgain == Answer({"auth"}) /\ Tried /\ todo' = {} /\ short' = TRUE

\* A request given up on has been served, was lost, or is still on its way.
GiveUp ==
  late' \in {late} \union
            (IF /\ request # NoRequest /\ request.reply = "none"
                /\ "slow" \in trouble /\ Cardinality(late) < MaxLate
             THEN {late \union {request.q}} ELSE {})

NoAnswer ==
  /\ open /\ request # NoRequest /\ "drop" \in trouble
  /\ Tried /\ todo' = {} /\ short' = TRUE /\ request' = NoRequest
  /\ GiveUp
  /\ UNCHANGED <<screen, open, pass, again, signal, trouble, office>>

EndPass ==
  /\ Ready /\ todo = {}
  /\ IF again
     THEN pass' = "due" /\ UNCHANGED screen
     ELSE /\ pass' = "idle"
          /\ screen' = [c \in Captures |-> IF screen[c] = "asking" THEN "back" ELSE screen[c]]
  /\ again' = FALSE
  /\ UNCHANGED <<row, open, todo, request, short, signal, trouble, late, office>>

\* captureSignature looks at its row and says what became of it; a refusal
\* read with the customer there leaves no card behind.
Say(c, what) ==
  /\ screen' = [screen EXCEPT ![c] = what]
  /\ UNCHANGED <<open, pass, again, todo, request, short, signal, trouble, late, office>>

FinishCapture(c) ==
  /\ open /\ screen[c] = "back"
  /\ \/ row[c].state = "recorded" /\ row[c].result /\ Say(c, "recorded") /\ UNCHANGED row
     \/ row[c].state = "refused" /\ Say(c, "refused") /\ Becomes(c, "told")
     \/ row[c].state \in Gone /\ Say(c, "lost") /\ UNCHANGED row
     \/ /\ row[c].state \in {"queued", "cancelled", "unfiled"} \/ (row[c].state = "recorded" /\ ~row[c].result)
        /\ Say(c, "queued") /\ UNCHANGED row

-----------------------------------------------------------------------------
\* The exits.
Withdraw(c, from, why) ==
  /\ open /\ row[c].state = from /\ ~InFlight(c)
  /\ row' = [row EXCEPT ![c].state = "cancelled", ![c].why = why, ![c].tried = FALSE]
  /\ Flush
  /\ UNCHANGED <<screen, open, todo, request, short, signal, trouble, late, office>>

Cancel(c) == Withdraw(c, "queued", "cancelled")
Dismiss(c) == Withdraw(c, "refused", "dismissed")

RemoveUnfiled(c) ==
  /\ open /\ row[c].state = "unfiled" /\ ~InFlight(c)
  /\ Becomes(c, "removed")
  /\ UNCHANGED <<screen, open, pass, again, todo, request, short, signal, trouble, late, office>>

Prune ==
  /\ open /\ In({"recorded"}) # {}
  /\ row' = [c \in Captures |-> IF row[c].state = "recorded" THEN [row[c] EXCEPT !.state = "pruned"] ELSE row[c]]
  /\ UNCHANGED <<screen, open, pass, again, todo, request, short, signal, trouble, late, office>>

\* The app is killed and, some time later, started again; a start of the app
\* flushes the queue.  The rows are on disk.
Forget ==
  /\ again' = FALSE /\ todo' = {} /\ request' = NoRequest /\ short' = FALSE
  /\ GiveUp

Kill ==
  /\ open /\ "kill" \in trouble
  /\ open' = FALSE /\ pass' = "idle" /\ Forget
  /\ screen' = [c \in Captures |-> IF screen[c] \in {"asking", "back"} THEN "gone" ELSE screen[c]]
  /\ UNCHANGED <<row, signal, trouble, office>>

Start ==
  /\ ~open \/ (pass = "idle" /\ \A c \in Captures : screen[c] # "back")
  /\ open' = TRUE /\ pass' = "due" /\ Forget
  /\ UNCHANGED <<row, screen, signal, trouble, office>>

LoseSignal ==
  /\ signal /\ "drop" \in trouble /\ signal' = FALSE
  /\ UNCHANGED <<phone, trouble, late, office>>

FindSignal ==
  /\ ~signal /\ signal' = TRUE
  /\ IF open THEN Flush ELSE UNCHANGED <<pass, again>>
  /\ UNCHANGED <<row, screen, open, todo, request, short, trouble, late, office>>

-----------------------------------------------------------------------------
\* The office.  A capture already on the estimate is answered as it was the
\* first time; an event that would call it cancelled is refused.
Signature(q) == q.kind = "sign"
OnRecord(q) == holder[Of[q.of]] = q.of
Takes(q) == holder[Of[q.of]] = Nobody /\ Of[q.of] \notin closed
\* (mutated: any event is filed)
GrantedBlind(q) ==
  /\ Of[q.of] \in mine
  /\ Signature(q) => OnRecord(q) \/ Takes(q)

Granted(q) ==
  /\ Of[q.of] \in mine
  /\ IF Signature(q) THEN OnRecord(q) \/ Takes(q) ELSE q.kind = "dismissed" \/ ~OnRecord(q)

\* (mutated: a replay is not told from the first time)
SignsEachTime(q) ==
  /\ Signature(q) /\ Granted(q)
  /\ holder' = [holder EXCEPT ![Of[q.of]] = q.of]
  /\ followed' = [followed EXCEPT ![q.of] = @ + 1]
  /\ UNCHANGED <<noticed, filed>>

Signs(q) ==
  /\ Signature(q) /\ Granted(q) /\ ~OnRecord(q)
  /\ holder' = [holder EXCEPT ![Of[q.of]] = q.of]
  /\ followed' = [followed EXCEPT ![q.of] = @ + 1]
  /\ UNCHANGED <<noticed, filed>>

Replays(q) == Signature(q) /\ Granted(q) /\ OnRecord(q) /\ UNCHANGED <<holder, noticed, filed, followed>>

\* The owner is emailed once about a refused signature the phone had held;
\* not when the route turns the technician away.
RefusesSignature(q) ==
  /\ Signature(q) /\ ~Granted(q)
  /\ noticed' = IF q.held /\ Of[q.of] \in mine THEN noticed \union {q.of} ELSE noticed
  /\ UNCHANGED <<holder, filed, followed>>

\* The event is written behind the answer, so a crash may lose it.
Files(q) ==
  /\ ~Signature(q) /\ Granted(q)
  /\ filed' \in {filed \union {<<q.of, q.kind>>}} \union (IF "crash" \in trouble THEN {filed} ELSE {})
  /\ UNCHANGED <<holder, noticed, followed>>

RefusesEvent(q) == ~Signature(q) /\ ~Granted(q) /\ UNCHANGED <<holder, noticed, filed, followed>>

Serves(q) ==
  /\ Signs(q) \/ Replays(q) \/ RefusesSignature(q) \/ Files(q) \/ RefusesEvent(q)
  /\ UNCHANGED <<closed, mine>>

ReplyTo(q) == IF Granted(q) THEN "ok" ELSE "refused"

\* What the phone is answered: the office may fail after it has acted, and
\* the body of a 2xx may be lost.
Replies(q) ==
  {ReplyTo(q)} \union (trouble \intersect {"busy"})
    \union (IF Granted(q) THEN trouble \intersect {"cut"} ELSE {})

Reply(r) ==
  /\ request' = [request EXCEPT !.reply = r]
  /\ UNCHANGED <<row, screen, open, pass, again, todo, short, signal, trouble, late>>

Waiting == request # NoRequest /\ request.reply = "none"

OfficeServes == Waiting /\ Serves(request.q) /\ \E r \in Replies(request.q) : Reply(r)

\* It fails before it acts, or asks the phone to sign in.
OfficeTurnsAway == Waiting /\ (\E r \in trouble \intersect {"busy", "auth"} : Reply(r)) /\ UNCHANGED office

OfficeServesLate ==
  \E q \in late : Serves(q) /\ late' = late \ {q} /\ UNCHANGED <<phone, signal, trouble>>

SignsElsewhere(e) ==
  /\ "other" \in trouble /\ holder[e] = Nobody /\ e \notin closed
  /\ holder' = [holder EXCEPT ![e] = Other]
  /\ UNCHANGED <<phone, signal, trouble, late, closed, mine, noticed, filed, followed>>

Close(e) ==
  /\ "close" \in trouble /\ closed' = closed \union {e}
  /\ UNCHANGED <<phone, signal, trouble, late, holder, mine, noticed, filed, followed>>

Unassign(e) ==
  /\ "unassign" \in trouble /\ mine' = mine \ {e}
  /\ UNCHANGED <<phone, signal, trouble, late, holder, closed, noticed, filed, followed>>

-----------------------------------------------------------------------------
Receive ==
  ReceiveRecorded \/ ReceiveFiled \/ ReceiveRefused \/ ReceiveBusy \/ ReceiveSignInAgain
Queue == BeginPass \/ Skip \/ Send \/ EndPass

Next ==
  \/ Queue \/ Receive \/ NoAnswer \/ Kill \/ Start \/ LoseSignal \/ FindSignal \/ Prune
  \/ \E c \in Captures :
       Capture(c) \/ FinishCapture(c) \/ Cancel(c) \/ Dismiss(c) \/ RemoveUnfiled(c)
  \/ OfficeServes \/ OfficeTurnsAway \/ OfficeServesLate
  \/ \E e \in Estimates : SignsElsewhere(e) \/ Close(e) \/ Unassign(e)

Spec == Init /\ [][Next]_vars

\* The phone's own steps are taken, it is in signal for good in the end, and
\* a row sent again and again is sooner or later served and the answer heard.
Heard(c) == InFlight(c) /\ request.reply \in {"ok", "cut", "refused"} /\ Receive
Served(c) == InFlight(c) /\ OfficeServes /\ request'.reply = ReplyTo(request.q)
Fairness ==
  /\ WF_vars(Queue) /\ WF_vars(Receive) /\ WF_vars(OfficeServes \/ OfficeTurnsAway)
  /\ <>[]signal
  /\ \A c \in Captures : WF_vars(FinishCapture(c)) /\ SF_vars(Served(c)) /\ SF_vars(Heard(c))
FairSpec == Spec /\ Fairness

\* And the technician starts the app again from time to time: with no capture,
\* exit or signal coming back, nothing else flushes the queue.
RestartedSpec == FairSpec /\ WF_vars(Start)

-----------------------------------------------------------------------------
\* Types, and that a request is on the wire only while a pass runs.
TypeOK ==
  /\ row \in [Captures -> Rows]
  /\ screen \in [Captures -> {"none", "asking", "back", "recorded", "refused", "queued", "lost", "gone"}]
  /\ {open, signal, again, short} \subseteq BOOLEAN /\ pass \in {"idle", "due", "running"}
  /\ todo \subseteq [of : Captures, state : {"queued", "cancelled"}]
  /\ \/ request = NoRequest
     \/ /\ request.q \in Requests /\ request.reply \in {"none", "ok", "cut", "refused", "busy", "auth"}
        /\ open /\ pass = "running"
  /\ late \subseteq Requests
  /\ holder \in [Estimates -> Captures \union {Nobody, Other}]
  /\ closed \subseteq Estimates /\ mine \subseteq Estimates
  /\ noticed \subseteq Captures /\ filed \subseteq Captures \X {"cancelled", "dismissed"}
  /\ followed \in [Captures -> 0 .. 2]

\* A request the phone gave up on may still sign for a capture cancelled since.
Late(c) == row[c].why # "dismissed" /\ \E q \in late : q.of = c /\ q.kind = "sign"

\* The phone and the office together do what SignatureFate promises, across
\* lost answers, resends and restarts (signatureQueue.ts, rule 1 to 4).  What
\* is taken off the phone is withdrawn once no request for it is out.
FateOf(c) ==
  CASE row[c].state = "none" -> "none"
    [] row[c].state = "queued" -> "held"
    [] row[c].state \in {"recorded", "pruned"} -> "recorded"
    [] row[c].state \in {"refused", "told"} -> "refused"
    [] OTHER -> IF Late(c) THEN "held" ELSE "withdrawn"

Fate == INSTANCE SignatureFate WITH fate <- [c \in Captures |-> FateOf(c)], signer <- holder
Promise == Fate!Spec

\* Nothing the phone held goes silently: a row leaves it only when the office
\* has the signature or the event, or the words were read on the screen
\* (signatureQueue.ts rule 4, inPersonSigning.ts:43-44).
LeavesTrace ==
  \A c \in Captures :
    CASE row[c].state = "pruned" -> holder[Of[c]] = c
      [] row[c].state = "filed" -> <<c, row[c].why>> \in filed
      [] row[c].state = "told" -> screen[c] = "refused"
      [] OTHER -> TRUE

\* However often a capture is sent, the job, the owner's notice and the
\* archive pass run at most once for it, and only for the one recorded.
OneFollowUp ==
  \A c \in Captures : followed[c] <= 1 /\ (followed[c] = 1 => holder[Of[c]] = c)

\* A screen that asked to sign is not answered before its capture was tried,
\* unless the pass was cut short: a capture made mid-pass gets a pass of its own.
TriedBeforeTold ==
  [][\A c \in Captures : screen[c] = "asking" /\ screen'[c] = "back" /\ row[c].state = "queued"
                           => row[c].tried \/ short]_vars

\* A capture or an exit left on the phone reaches the office in the end, if
\* the app is started again from time to time (signatureQueue.ts:20-25).
Settles ==
  \A c \in Captures : row[c].state \in {"queued", "cancelled"} ~> row[c].state \notin {"queued", "cancelled"}

\* No "cancelled" event stands next to the signature it denies
\* (inPersonSigning.ts:461-463), as long as no request outlives the phone's
\* wait for its answer.
CancelledUnrecorded ==
  \A c \in Captures : <<c, "cancelled">> \in filed /\ "slow" \notin trouble => holder[Of[c]] # c

\* Stated by the code and not kept by it: see the README.

\* A cancellation taken off the phone unfiled was never recorded (signatureQueue.ts:252-256).
RemovedUnrecorded == \A c \in Captures : row[c].state = "removed" => holder[Of[c]] # c

\* A refusal that reaches the phone after the customer was told "saved" is
\* emailed to the owner (inPersonSigning.ts:77-81).
RefusalNoticed ==
  \A c \in Captures : row[c].state = "refused" /\ screen[c] = "queued" => c \in noticed

\* The screen says "saved, not recorded yet" only of a capture with no answer
\* yet (signatureQueue.ts:94).
ToldRecorded ==
  [][\A c \in Captures : screen[c] = "back" /\ screen'[c] = "queued" => row[c].state # "recorded"]_vars
=============================================================================
