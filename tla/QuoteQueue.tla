------------------------------ MODULE QuoteQueue ------------------------------
(***************************************************************************)
(* One quote edited on a phone that may have no signal: the queue of what  *)
(* the technician did, the passes that replay it to the office one edit at *)
(* a time, the saved copy of the office's quote with the queue laid over   *)
(* it, and the office's half of the bargain: ids minted on the phone, and  *)
(* edits that say what their sender last saw.                              *)
(*                                                                         *)
(* A request is on the wire between Send and Hear; it lands or not, and    *)
(* its answer arrives or not.  The office edits, issues and signs the same *)
(* quote meanwhile.  One request is one step of the office's.              *)
(***************************************************************************)
EXTENDS Naturals, TLC

CONSTANTS
  Lines,       \* ids of the quote's lines
  Values,      \* what a field of a line may hold
  MaxEdits,    \* bound on the technician's edits
  MaxOffice,   \* bound on the office's own edits and issues of the quote
  None

ASSUME BoundsAssumption == MaxEdits \in Nat /\ MaxOffice \in Nat

VARIABLES
  office,      \* the draft's lines
  status,      \* the draft: open, issued (it reopens) or signed (it does not)
  queue,       \* the edits on the phone, by the number they were made under
  mirror,      \* the saved copy
  pass,        \* the flush that runs
  wire,        \* the request out and what became of it
  waiting,     \* edits whose screen waits for the flush
  made,        \* edits made so far: an edit's id is its number
  screen,      \* what another read of the quote brought, not saved yet
  changes,     \* the office's edits and issues so far
  \* History.
  landed,      \* edits the office took, heard of or not
  theirs,      \* lines the office touched, or whose story the phone has lost
  mine         \* each line as the technician last left it

office_vars == <<office, status, changes>>
phone_vars == <<queue, mirror, pass, waiting, made>>
vars == <<office, status, queue, mirror, pass, wire, waiting, made, screen, changes, landed, theirs, mine>>

Fields == {"quantity", "option"}
Row == [Fields -> Values]
Quote == [Lines -> Row \cup {None}]

ASSUME NoneAssumption == None \notin Values \cup Nat \cup Row \cup Quote

Idle == [on |-> FALSE, left |-> {}, delivered |-> FALSE, again |-> FALSE, copy |-> None]
Silence == [op |-> None, state |-> "idle"]

Init ==
  /\ office \in Quote /\ status \in {"draft", "issued", "signed"}
  /\ queue = <<>> /\ mirror = office /\ pass = Idle /\ wire = Silence /\ waiting = {} /\ made = 0
  /\ screen = None /\ changes = 0
  /\ landed = {} /\ theirs = {} /\ mine = office

-----------------------------------------------------------------------------
(* What an edit does to a quote, at the office or laid over the copy.      *)

Held(quote) == {l \in Lines : quote[l] # None}

\* The lines an edit is about.
About(op) == IF op.kind = "order" THEN DOMAIN op.to ELSE {op.line}

Lay(quote, op) ==
  CASE op.kind = "add"    -> [quote EXCEPT ![op.line] = op.to]
    [] op.kind = "remove" -> [quote EXCEPT ![op.line] = None]
    [] op.kind = "edit"   -> IF quote[op.line] = None THEN quote
                             ELSE [quote EXCEPT ![op.line][op.field] = op.to]
    [] op.kind = "order"  -> [l \in Lines |-> IF l \in DOMAIN op.to /\ quote[l] # None
                                              THEN [quote[l] EXCEPT !.option = op.to[l]] ELSE quote[l]]

\* Refused edits are not laid over; delivered ones are until the copy is new.
Overlay(copy, rows) ==
  LET laid[n \in 0..MaxEdits] ==
        IF n = 0 THEN copy
        ELSE IF n \in DOMAIN rows /\ rows[n].status # "refused" THEN Lay(laid[n - 1], rows[n].body)
        ELSE laid[n - 1]
  IN laid[MaxEdits]
View == Overlay(mirror, queue)

-----------------------------------------------------------------------------
(* The office.                                                             *)

\* What the sender saw, or already what it asks for.
Expected(op) == office[op.line][op.field] \in {op.was, op.to}

\* An order names every line, each in the option its sender saw it in.
InPlace(op) == DOMAIN op.to = Held(office) /\ \A l \in DOMAIN op.was : office[l].option = op.was[l]

Clashes(op) ==
  \/ op.kind = "edit" /\ (office[op.line] = None \/ ~Expected(op))
  \/ op.kind = "order" /\ ~InPlace(op)

\* A line under an id the quote already has is the same line again.
After(op) == IF op.kind = "add" /\ office[op.line] # None THEN office ELSE Lay(office, op)

\* What changes nothing is not a write, and a signed quote refuses writes.
Shut(op) == status = "signed" /\ After(op) # office

\* (mutated: whatever lands reopens)
ReopenedAlways(op) == "draft"
Reopened(op) == IF After(op) = office THEN status ELSE "draft"

Refuses(op) == Clashes(op) \/ Shut(op)

OfficeDoes == changes < MaxOffice /\ changes' = changes + 1

OfficeWrites(l, row) ==
  /\ OfficeDoes /\ status # "signed" /\ row # office[l]
  /\ office' = [office EXCEPT ![l] = row] /\ status' = "draft"
  /\ theirs' = theirs \cup {l}
  /\ UNCHANGED <<phone_vars, wire, screen, landed, mine>>

OfficeIssues ==
  /\ OfficeDoes /\ status = "draft" /\ status' = "issued"
  /\ UNCHANGED <<office, phone_vars, wire, screen, landed, theirs, mine>>

CustomerSigns ==
  /\ status = "issued" /\ status' = "signed"
  /\ UNCHANGED <<office, changes, phone_vars, wire, screen, landed, theirs, mine>>

-----------------------------------------------------------------------------
(* The technician.                                                         *)

In(rows, s) == {i \in DOMAIN rows : rows[i].status = s}

\* The edits a flush takes up: none when one was refused.
Snapshot(rows) == IF In(rows, "refused") # {} THEN {} ELSE In(rows, "queued")
Flush(rows) ==
  [on |-> TRUE, left |-> Snapshot(rows), delivered |-> In(rows, "delivered") # {},
   again |-> FALSE, copy |-> None]

\* Written to the queue first; with signal, sent at once or after the flush
\* that runs, and the screen waits for it.
Enqueue(op, signal) ==
  LET id == made + 1
      rows == [i \in DOMAIN queue \cup {id} |->
                 IF i = id THEN [body |-> op, status |-> "queued"] ELSE queue[i]] IN
  /\ made < MaxEdits /\ made' = id
  /\ queue' = rows
  /\ IF signal
     THEN /\ pass' = IF pass.on THEN [pass EXCEPT !.again = TRUE] ELSE Flush(rows)
          /\ waiting' = waiting \cup {id}
     ELSE UNCHANGED <<pass, waiting>>
  /\ mine' = [l \in Lines |-> IF l \in About(op) THEN Overlay(mirror, rows)[l] ELSE mine[l]]
  /\ UNCHANGED <<office_vars, mirror, wire, screen, landed, theirs>>

AddLine(l, row, signal) ==
  \* The id is minted here: nobody has held it.
  /\ View[l] = None /\ office[l] = None /\ l \notin theirs /\ mine[l] = None
  /\ \A i \in DOMAIN queue : l \notin About(queue[i].body)
  /\ Enqueue([kind |-> "add", line |-> l, to |-> row], signal)

EditLine(l, f, v, signal) ==
  /\ View[l] # None /\ View[l][f] # v
  /\ Enqueue([kind |-> "edit", line |-> l, field |-> f, was |-> View[l][f], to |-> v], signal)

RemoveLine(l, signal) ==
  /\ View[l] # None
  /\ Enqueue([kind |-> "remove", line |-> l], signal)

\* A line dragged to another option: the whole order goes.
OrderLines(l, v, signal) ==
  /\ View[l] # None /\ View[l].option # v
  /\ LET was == [k \in Held(View) |-> View[k].option]
     IN Enqueue([kind |-> "order", was |-> was, to |-> [was EXCEPT ![l] = v]], signal)

\* Does the later edit only make sense if the earlier one got there?
DependsOn(later, earlier) ==
  \/ earlier.kind = "add" /\ earlier.line \in About(later) /\ later.kind # "add"
  \/ earlier.kind = "edit" /\ later.kind = "edit" /\ later.line = earlier.line /\ later.field = earlier.field
  \/ earlier.kind = "edit" /\ later.kind = "order" /\ earlier.field = "option" /\ earlier.line \in About(later)
  \/ earlier.kind = "order" /\ later.kind = "order"
  \/ /\ earlier.kind = "order" /\ later.kind = "edit" /\ later.field = "option" /\ later.line \in About(earlier)
     /\ earlier.was[later.line] # earlier.to[later.line]

\* What goes with an edit: what depends on it, and on that.
\* (mutated: the edit alone goes)
GoesAlone(i) == {i}
GoesWith(i) ==
  LET closed(S) == \A e \in S, l \in DOMAIN queue :
        (e < l /\ queue[l].status # "delivered" /\ DependsOn(queue[l].body, queue[e].body)) => l \in S
  IN {k \in DOMAIN queue : \A S \in SUBSET DOMAIN queue : (i \in S /\ closed(S)) => k \in S}

\* The edit on the wire is nobody's to discard.
NotInFlight(victims) == wire.op \notin victims

\* The rows in gone leave the queue and the technician is told.
Drop(gone) ==
  LET rows == [i \in DOMAIN queue \ gone |-> queue[i]]
      lines(of) == UNION {About(queue[i].body) : i \in of}
  IN /\ queue' = rows
     /\ mine' = [l \in Lines |-> IF l \in lines(gone) THEN Overlay(mirror, rows)[l] ELSE mine[l]]
     /\ theirs' = theirs \cup lines(gone \cap landed)

Discard(i) ==
  /\ queue[i].status # "delivered"
  /\ NotInFlight(GoesWith(i))
  /\ Drop(GoesWith(i))
  /\ UNCHANGED <<office_vars, mirror, pass, wire, waiting, made, screen, landed>>

DiscardAll ==
  LET gone == DOMAIN queue \ In(queue, "delivered") IN
  /\ gone # {} /\ NotInFlight(gone)
  /\ Drop(gone)
  /\ UNCHANGED <<office_vars, mirror, pass, wire, waiting, made, screen, landed>>

\* The screen that waited: a refusal it can show itself leaves the queue.
Settle(id) ==
  /\ ~pass.on /\ waiting' = waiting \ {id}
  /\ LET gone == In(queue, "refused") \cap {id}
     IN IF gone = {} THEN UNCHANGED <<queue, mine, theirs>> ELSE Drop(gone)
  /\ UNCHANGED <<office_vars, mirror, pass, wire, made, screen, landed>>

-----------------------------------------------------------------------------
(* The flush.                                                              *)

\* The app starts, or the phone is online again.
Online ==
  /\ pass' = IF pass.on THEN [pass EXCEPT !.again = TRUE] ELSE Flush(queue)
  /\ UNCHANGED <<office_vars, queue, mirror, wire, waiting, made, screen, landed, theirs, mine>>

\* Read again right before it is sent.
\* (mutated: as it was when the flush began)
AsListed(id) == TRUE
StillQueued(id) == id \in In(queue, "queued")

First(ids) == CHOOSE i \in ids : \A k \in ids : i <= k

Send ==
  /\ wire = Silence /\ pass.left # {}
  /\ LET id == First(pass.left)
     IN IF StillQueued(id)
        THEN wire' = [op |-> id, state |-> "out"] /\ UNCHANGED pass
        ELSE pass' = [pass EXCEPT !.left = @ \ {id}] /\ UNCHANGED wire
  /\ UNCHANGED <<office_vars, queue, mirror, waiting, made, screen, landed, theirs, mine>>

Land ==
  /\ wire.state = "out"
  /\ LET op == queue[wire.op].body
     IN IF Refuses(op)
        THEN wire' = [wire EXCEPT !.state = "refused"] /\ UNCHANGED <<office, status, landed>>
        ELSE /\ wire' = [wire EXCEPT !.state = "ok"]
             /\ office' = After(op) /\ status' = Reopened(op)
             /\ landed' = landed \cup {wire.op}
  /\ UNCHANGED <<phone_vars, screen, changes, theirs, mine>>

Mark(id, s) == queue' = [queue EXCEPT ![id].status = s]

HearOk ==
  /\ wire.state = "ok" /\ wire' = Silence
  /\ Mark(wire.op, "delivered")
  /\ pass' = [pass EXCEPT !.left = @ \ {wire.op}, !.delivered = TRUE]
  /\ UNCHANGED <<office_vars, mirror, waiting, made, screen, landed, theirs, mine>>

\* The chain stops, and the edit is laid over no more.
HearRefused ==
  LET op == queue[wire.op].body IN
  /\ wire.state = "refused" /\ wire' = Silence
  /\ Mark(wire.op, "refused")
  /\ pass' = [pass EXCEPT !.left = {}]
  /\ mine' = [l \in Lines |-> IF l \in About(op) THEN Overlay(mirror, queue')[l] ELSE mine[l]]
  /\ theirs' = IF op.kind = "order" /\ wire.op \in landed THEN theirs \cup About(op) ELSE theirs
  /\ UNCHANGED <<office_vars, mirror, waiting, made, screen, landed>>

\* No answer, or one that is not the office's last word: the edit stays and
\* the chain stops.
HearNothing ==
  /\ wire # Silence /\ wire' = Silence
  /\ pass' = [pass EXCEPT !.left = {}]
  /\ UNCHANGED <<office_vars, queue, mirror, waiting, made, screen, landed, theirs, mine>>

\* (mutated: the edits still queued go too)
NoneLeft(rows) == <<>>
Undelivered(rows) == [i \in DOMAIN rows \ In(rows, "delivered") |-> rows[i]]

\* The saved copy is read anew, and only then do delivered edits go.
RefreshRead ==
  /\ pass.on /\ pass.left = {} /\ pass.delivered /\ pass.copy = None
  /\ pass' = [pass EXCEPT !.copy = office]
  /\ UNCHANGED <<office_vars, queue, mirror, wire, waiting, made, screen, landed, theirs, mine>>

RefreshSave ==
  /\ pass.copy # None
  /\ mirror' = pass.copy
  /\ queue' = Undelivered(queue)
  /\ pass' = [pass EXCEPT !.copy = None, !.delivered = FALSE]
  /\ UNCHANGED <<office_vars, wire, waiting, made, screen, landed, theirs, mine>>

\* (mutated: the edits go all the same)
RowsAfterFailure == Undelivered(queue)
RowsKept == queue
RefreshFails ==
  /\ pass.on /\ pass.left = {} /\ pass.delivered
  /\ pass' = [pass EXCEPT !.copy = None, !.delivered = FALSE]
  /\ queue' = RowsKept
  /\ UNCHANGED <<office_vars, mirror, wire, waiting, made, screen, landed, theirs, mine>>

EndPass ==
  /\ pass.on /\ pass.left = {} /\ ~pass.delivered
  /\ pass' = IF pass.again THEN Flush(queue) ELSE Idle
  /\ UNCHANGED <<office_vars, queue, mirror, wire, waiting, made, screen, landed, theirs, mine>>

\* The app is closed: what is on the phone stays, a request out is not heard.
Close ==
  /\ pass' = Idle /\ wire' = Silence /\ waiting' = {} /\ screen' = None
  /\ UNCHANGED <<office_vars, queue, mirror, made, landed, theirs, mine>>

-----------------------------------------------------------------------------
(* Another read of the quote: a screen that opens, or the morning's sync.  *)

ScreenRead ==
  /\ screen = None /\ screen' = office
  /\ UNCHANGED <<office_vars, phone_vars, wire, landed, theirs, mine>>

\* Saved whenever it comes, over whatever was saved since it was read.
ScreenSave ==
  /\ screen # None /\ mirror' = screen /\ screen' = None
  /\ theirs' = theirs \cup {l \in Lines : screen[l] # office[l]}
  /\ UNCHANGED <<office_vars, queue, pass, wire, waiting, made, landed, mine>>

Next ==
  \/ \E l \in Lines, signal \in BOOLEAN :
       \/ \E row \in Row : AddLine(l, row, signal)
       \/ \E v \in Values :
            OrderLines(l, v, signal) \/ \E f \in Fields : EditLine(l, f, v, signal)
       \/ RemoveLine(l, signal)
  \/ \E i \in DOMAIN queue : Discard(i)
  \/ DiscardAll
  \/ \E id \in waiting : Settle(id)
  \/ Online \/ Send \/ Land \/ HearOk \/ HearRefused \/ HearNothing
  \/ RefreshRead \/ RefreshSave \/ RefreshFails \/ EndPass \/ Close
  \/ ScreenRead \/ ScreenSave
  \/ \E l \in Lines, row \in Row \cup {None} : OfficeWrites(l, row)
  \/ OfficeIssues \/ CustomerSigns

Spec == Init /\ [][Next]_vars

-----------------------------------------------------------------------------
(* Properties.                                                             *)

TypeOK ==
  /\ office \in Quote /\ mirror \in Quote /\ View \in Quote /\ mine \in Quote
  /\ status \in {"draft", "issued", "signed"}
  /\ DOMAIN queue \subseteq 1..made /\ made \in 0..MaxEdits
  /\ \A i \in DOMAIN queue : queue[i].status \in {"queued", "delivered", "refused"}
  /\ wire.op # None => pass.on /\ pass.left # {} /\ First(pass.left) = wire.op
  /\ landed \subseteq 1..made /\ waiting \subseteq 1..made /\ theirs \subseteq Lines
  /\ pass.copy \in Quote \cup {None} /\ screen \in Quote \cup {None}

\* What goes out is still in the queue, and everything before it has been
\* taken: no edit is sent past one that waits or was refused, and none that
\* was discarded.
SentInOrder ==
  wire.op # None =>
    /\ wire.op \in In(queue, "queued")
    /\ \A k \in DOMAIN queue : k < wire.op => queue[k].status = "delivered"

\* A refusal has a reason: somebody at the office touched the line, or the
\* quote was signed before the edit got there.
Reasonable(i) ==
  \/ About(queue[i].body) \cap theirs # {}
  \/ status = "signed" /\ i \notin landed
Moves(op) == op.kind = "order" \/ (op.kind = "edit" /\ op.field = "option")
RefusalsAreTheirs == \A i \in In(queue, "refused") : Moves(queue[i].body) \/ Reasonable(i)

\* The same of an edit that moves a line.  (Not so: an order must name every
\* line and is not discarded with the removal of a line it was made without;
\* and a refused order leaves by itself, without the moves that saw it.)
MovesRefusedForReason ==
  \A i \in In(queue, "refused") : Moves(queue[i].body) => Reasonable(i)

\* What landed once is not refused when it arrives again.  (Not so for an
\* order that moves a line: the check of the sender's view comes first.)
LandsTwice ==
  (wire.state = "refused" /\ About(queue[wire.op].body) \cap theirs = {}) => wire.op \notin landed

\* The screen shows a line as the technician left it, through lost answers,
\* refreshes, restarts and discards of other edits.
ScreenKeepsMine == \A l \in Lines \ theirs : View[l] = mine[l]

\* An edit leaves the phone only for the office: a line with nothing on the
\* queue is, at the office, as the technician left it.
NothingLost ==
  \A l \in Lines \ theirs :
    (\A i \in In(queue, "queued") : l \notin About(queue[i].body)) => office[l] = mine[l]

\* An edit that arrives again changes nothing.
ReplayChangesNothing ==
  [][(/\ wire.state = "out" /\ wire'.state = "ok" /\ wire.op \in landed
      /\ About(queue[wire.op].body) \cap theirs = {})
        => UNCHANGED <<office, status>>]_vars
=============================================================================
