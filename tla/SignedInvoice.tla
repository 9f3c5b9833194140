---------------------------- MODULE SignedInvoice ----------------------------
(***************************************************************************)
(* What hangs on a signed estimate: its change orders, the job it pays     *)
(* for, the money recorded against it, and what becomes of them when a     *)
(* revision of it is signed and takes the invoice over, when it is voided  *)
(* and when the office takes its own acceptance back.                      *)
(*                                                                         *)
(* Creating a job, voiding, undoing and recording a payment read rows and  *)
(* then write: one read and one write step each, by one of Workers.  The   *)
(* races of issuing and signing themselves are IssuedEstimate's; here a    *)
(* revision and a signature are one step each.                             *)
(***************************************************************************)
EXTENDS Integers, FiniteSets

CONSTANTS
  Docs,      \* ids of issued estimates
  Drafts,    \* drafts they are issued from
  Jobs,      \* ids of jobs (visits) to come
  Payments,  \* ids of payments to come
  Workers,   \* requests that read before they write, served at one time
  Doors,     \* what may happen: see each use
  NoDoc, NoDraft, NoJob

ASSUME NamesAssumption == NoDoc \notin Docs /\ NoDraft \notin Drafts /\ NoJob \notin Jobs

VARIABLES
  draftOf,   \* the draft a document was issued from, NoDraft while the id is free
  chain,     \* the documents its supersedesId walk reaches, fixed when it is issued
  under,     \* a draft's changeOrderForId: the invoice it was raised against
  joins,     \* a document's changeOrderForId: the invoice its money belongs to
  adds,      \* addToCurrentJob
  signed,    \* signedChannel: "no", "customer" or "office"
  voided,    \* voidedAt is set
  replaced,  \* documents voided by a take-over, not by hand
  heirs,     \* documents that took an invoice over since they were signed
  jobOf,     \* a document's jobVisitId
  jobs,      \* Visit.status of a job
  figure,    \* Visit.estimatedCost, as how often each document's total is in it
  on,        \* Payment.estimateId
  money,     \* the payment: "none", "paid" or "void"
  request    \* per worker, what it is doing and what it read

documents == <<draftOf, chain, under, joins, adds>>
agreement == <<signed, voided, replaced, heirs>>
work == <<jobOf, jobs, figure>>
payments == <<on, money>>
vars == <<documents, agreement, work, payments, request>>

Idle == [op |-> "idle", doc |-> NoDoc, job |-> NoJob, saw |-> [d \in Docs |-> 0]]

Init ==
  /\ draftOf = [d \in Docs |-> NoDraft] /\ chain = [d \in Docs |-> {}]
  /\ under = [k \in Drafts |-> NoDoc]
  /\ joins = [d \in Docs |-> NoDoc] /\ adds = [d \in Docs |-> FALSE]
  /\ signed = [d \in Docs |-> "no"] /\ voided = [d \in Docs |-> FALSE]
  /\ replaced = {} /\ heirs = {}
  /\ jobOf = [d \in Docs |-> NoJob] /\ jobs = [j \in Jobs |-> "none"]
  /\ figure = [j \in Jobs |-> [d \in Docs |-> 0]]
  /\ on = [p \in Payments |-> NoDoc] /\ money = [p \in Payments |-> "none"]
  /\ request = [w \in Workers |-> Idle]

-----------------------------------------------------------------------------
(* What the rows say.                                                      *)

Issued(d) == draftOf[d] # NoDraft
Live(d) == signed[d] # "no" /\ ~voided[d]
Superseded(d) == \E e \in Docs : d \in chain[e]
JobLive(j) == j # NoJob /\ jobs[j] \notin {"cancelled", "completed"}
OnJob(j) == {d \in Docs : jobOf[d] = j /\ Live(d)}

\* The change orders an invoice counts: signed, not void, not superseded.
Counted(d) == {c \in Docs : joins[c] = d /\ Live(c) /\ ~Superseded(c)}

\* The document an invoice is read at: up to the parent unless that is void,
\* then forward to the newest signed revision (a set of one).
Up(d) == IF joins[d] # NoDoc /\ ~voided[joins[d]] THEN joins[d] ELSE d
Newer(d) == {e \in Docs : d \in chain[e] /\ signed[e] # "no"}
Root(d) ==
  LET newer == Newer(Up(d)) IN
  IF newer = {} THEN {Up(d)} ELSE {e \in newer : newer \subseteq chain[e] \cup {e}}

\* Without the door "overlap" a request is over before the next one starts.
Quiet == "overlap" \in Doors \/ \A w \in Workers : request[w] = Idle
Starts(w, op, d, j, saw) ==
  request' = [request EXCEPT ![w] = [op |-> op, doc |-> d, job |-> j, saw |-> saw]]
Free(w) == request[w] = Idle /\ Quiet
Doing(w, op) == request[w].op = op
Done(w) == request' = [request EXCEPT ![w] = Idle]

-----------------------------------------------------------------------------
(* Documents.                                                              *)

\* A change order raised on a change order belongs to that one's invoice.
RootOf(e) == IF joins[e] # NoDoc THEN joins[e] ELSE e

\* The invoice a document of draft k joins.
Joins(k) == IF under[k] = NoDoc THEN NoDoc ELSE RootOf(under[k])

NewDocument(k, d, earlier, add) ==
  /\ Quiet /\ ~Issued(d)
  /\ draftOf' = [draftOf EXCEPT ![d] = k]
  /\ chain' = [chain EXCEPT ![d] = earlier]
  /\ joins' = [joins EXCEPT ![d] = Joins(k)]
  /\ adds' = [adds EXCEPT ![d] = Joins(k) # NoDoc /\ add]
  /\ UNCHANGED <<under, agreement, work, payments, request>>

\* First issue, or a new one when every document of the draft is void.
Issue(k, d) ==
  /\ ~\E e \in Docs : draftOf[e] = k /\ ~Superseded(e) /\ ~voided[e]
  /\ NewDocument(k, d, {}, under[k] # NoDoc /\ JobLive(jobOf[under[k]]))

Revise(prev, d) ==
  /\ Issued(prev) /\ ~Superseded(prev)
  /\ NewDocument(draftOf[prev], d, chain[prev] \cup {prev}, adds[prev])

\* A draft that is open on an invoice is opened again, never doubled.
OpenDraft(k) ==
  LET latest == {d \in Docs : draftOf[d] = k /\ ~Superseded(d) /\ ~voided[d]} IN
  IF \A d \in Docs : draftOf[d] # k THEN TRUE ELSE \E d \in latest : signed[d] = "no"

RaiseChangeOrder(e, k) ==
  /\ Quiet /\ Live(e)
  /\ under[k] = NoDoc /\ \A d \in Docs : draftOf[d] # k
  /\ ~\E other \in Drafts : under[other] = RootOf(e) /\ OpenDraft(other)
  /\ under' = [under EXCEPT ![k] = RootOf(e)]
  /\ UNCHANGED <<draftOf, chain, joins, adds, agreement, work, payments, request>>

\* The office sets or clears "add to current job" while there is no job yet.
Terms(d) ==
  /\ "terms" \in Doors /\ Quiet
  /\ Issued(d) /\ joins[d] # NoDoc /\ ~voided[d] /\ jobOf[d] = NoJob
  /\ adds' = [adds EXCEPT ![d] = ~@]
  /\ UNCHANGED <<draftOf, chain, under, joins, agreement, work, payments, request>>

-----------------------------------------------------------------------------
(* A signature, and the take-over in its transaction.                      *)

\* (mutated: only the document next below it)
TakenOne(d) == {e \in chain[d] : Live(e) /\ \A f \in chain[d] : f \in chain[e] \cup {e}}
Taken(d) == {e \in chain[d] : Live(e)}

\* The nearest replaced document that has a job gives it up, if it is live.
Donors(d) ==
  {e \in Taken(d) : /\ jobOf[e] # NoJob
                    /\ \A f \in Taken(d) : jobOf[f] # NoJob => f \in chain[e] \cup {e}}
GivesJob(d) == {e \in Donors(d) : JobLive(jobOf[e])}

\* (mutated: the job's figure is left as it was)
FigureKept(d) == figure
FigureTaken(d) ==
  [j \in Jobs |->
    IF \E e \in GivesJob(d) : jobOf[e] = j
    THEN [x \in Docs |-> figure[j][x] + (IF x = d THEN 1 ELSE 0) - (IF x \in GivesJob(d) THEN 1 ELSE 0)]
    ELSE figure[j]]

\* (mutated: the payments stay where they were recorded)
PaymentsKept(d) == on
PaymentsTaken(d) == [p \in Payments |-> IF on[p] \in Taken(d) THEN d ELSE on[p]]

Sign(d, channel) ==
  /\ Quiet /\ Issued(d) /\ signed[d] = "no" /\ ~voided[d] /\ ~Superseded(d)
  /\ signed' = [signed EXCEPT ![d] = channel]
  /\ joins' = [c \in Docs |-> IF joins[c] \in Taken(d) THEN d ELSE joins[c]]
  /\ on' = PaymentsTaken(d)
  /\ figure' = FigureTaken(d)
  /\ jobOf' = [jobOf EXCEPT ![d] = IF GivesJob(d) = {} THEN @ ELSE jobOf[CHOOSE e \in GivesJob(d) : TRUE]]
  /\ voided' = [e \in Docs |-> voided[e] \/ e \in Taken(d)]
  /\ replaced' = replaced \cup Taken(d)
  /\ heirs' = IF Taken(d) = {} THEN heirs ELSE heirs \cup {d}
  /\ UNCHANGED <<draftOf, chain, under, adds, jobs, money, request>>

-----------------------------------------------------------------------------
(* The job of a signed document.                                           *)

\* A change order that asks for it joins the current job of its invoice.
Current(d) == IF joins[d] # NoDoc /\ adds[d] THEN jobOf[joins[d]] ELSE NoJob

\* The door "late": the create-job button on a document that is void.
CreateJobRead(w, d) ==
  /\ Free(w) /\ signed[d] # "no" /\ jobOf[d] = NoJob
  /\ ~voided[d] \/ "late" \in Doors
  /\ IF JobLive(Current(d)) THEN Starts(w, "join", d, Current(d), figure[Current(d)])
     ELSE Starts(w, "mint", d, NoJob, Idle.saw)
  /\ UNCHANGED <<documents, agreement, work, payments>>

FigureJoined(w) == [request[w].saw EXCEPT ![request[w].doc] = @ + 1]

JoinJob(w) ==
  /\ Doing(w, "join") /\ Done(w)
  /\ jobOf' = [jobOf EXCEPT ![request[w].doc] = request[w].job]
  /\ figure' = [figure EXCEPT ![request[w].job] = FigureJoined(w)]
  /\ UNCHANGED <<documents, agreement, jobs, payments>>

MintJob(w, j) ==
  /\ Doing(w, "mint") /\ Done(w) /\ jobs[j] = "none"
  /\ jobs' = [jobs EXCEPT ![j] = "contracted"]
  /\ jobOf' = [jobOf EXCEPT ![request[w].doc] = j]
  /\ figure' = [figure EXCEPT ![j] = [Idle.saw EXCEPT ![request[w].doc] = 1]]
  /\ UNCHANGED <<documents, agreement, payments>>

\* The work is done, or the job is cancelled from the calendar.
EndJob(j) ==
  /\ Quiet /\ jobs[j] = "contracted"
  /\ \E s \in {"completed", "cancelled"} : jobs' = [jobs EXCEPT ![j] = s]
  /\ UNCHANGED <<documents, agreement, jobOf, figure, payments, request>>

-----------------------------------------------------------------------------
(* Voiding, and taking an office acceptance back.                          *)

\* (mutated: a void document on the job keeps it as well)
CancelsUnshared(d) ==
  IF JobLive(jobOf[d]) /\ {e \in Docs : jobOf[e] = jobOf[d]} = {d} THEN jobOf[d] ELSE NoJob
Cancels(d) == IF JobLive(jobOf[d]) /\ OnJob(jobOf[d]) \ {d} = {} THEN jobOf[d] ELSE NoJob

VoidRead(w, d) ==
  /\ Free(w) /\ Live(d)
  /\ joins[d] = NoDoc => Counted(d) = {}
  /\ jobOf[d] # NoJob => jobs[jobOf[d]] # "completed"
  /\ Starts(w, "void", d, Cancels(d), Idle.saw)
  /\ UNCHANGED <<documents, agreement, work, payments>>

\* The job goes first, in a statement of its own, then the document.
VoidCancelsJob(w) ==
  /\ Doing(w, "void") /\ request[w].job # NoJob
  /\ jobs' = [jobs EXCEPT ![request[w].job] = "cancelled"]
  /\ request' = [request EXCEPT ![w].job = NoJob]
  /\ UNCHANGED <<documents, agreement, jobOf, figure, payments>>

VoidWrite(w) ==
  /\ Doing(w, "void") /\ request[w].job = NoJob /\ Done(w)
  /\ voided' = [voided EXCEPT ![request[w].doc] = TRUE]
  /\ UNCHANGED <<documents, signed, replaced, heirs, work, payments>>

MayUndo(d) ==
  /\ Live(d) /\ signed[d] = "office" /\ Counted(d) = {} /\ d \notin heirs
  /\ \A p \in Payments : on[p] = d => money[p] # "paid"
  /\ jobOf[d] # NoJob => jobs[jobOf[d]] # "completed"

\* "share": other signed work keeps the job; "undo": it is this document's alone.
UndoRead(w, d) ==
  /\ Free(w) /\ MayUndo(d)
  /\ IF jobOf[d] = NoJob \/ jobs[jobOf[d]] # "contracted" THEN Starts(w, "undo", d, NoJob, Idle.saw)
     ELSE IF OnJob(jobOf[d]) \ {d} = {} THEN Starts(w, "undo", d, jobOf[d], Idle.saw)
     ELSE Starts(w, "share", d, jobOf[d], figure[jobOf[d]])
  /\ UNCHANGED <<documents, agreement, work, payments>>

UndoWrite(w) ==
  LET r == request[w] IN
  /\ r.op \in {"undo", "share"} /\ Done(w)
  /\ signed' = [signed EXCEPT ![r.doc] = "no"]
  /\ jobOf' = [jobOf EXCEPT ![r.doc] = NoJob]
  /\ jobs' = IF r.op = "undo" /\ r.job # NoJob THEN [jobs EXCEPT ![r.job] = "cancelled"] ELSE jobs
  /\ figure' = IF r.op = "share" THEN [figure EXCEPT ![r.job] = [r.saw EXCEPT ![r.doc] = @ - 1]] ELSE figure
  /\ UNCHANGED <<documents, voided, replaced, heirs, payments>>

-----------------------------------------------------------------------------
(* Money.                                                                  *)

\* Recorded on the invoice's root, looked up before the row is written.
PayRead(w, d) ==
  /\ "pay" \in Doors /\ Free(w) /\ signed[d] # "no"
  /\ \E root \in Root(d) : Starts(w, "pay", root, NoJob, Idle.saw)
  /\ UNCHANGED <<documents, agreement, work, payments>>

PayWrite(w, p) ==
  /\ Doing(w, "pay") /\ Done(w)
  /\ money[p] = "none" /\ money' = [money EXCEPT ![p] = "paid"]
  /\ on' = [on EXCEPT ![p] = request[w].doc]
  /\ UNCHANGED <<documents, agreement, work>>

\* A recorded payment is taken back: the row stays where it is, not counted.
VoidPayment(p) ==
  /\ Quiet /\ money[p] = "paid" /\ money' = [money EXCEPT ![p] = "void"]
  /\ UNCHANGED <<documents, agreement, work, on, request>>

\* The server stops: what a request had read is gone.
Crash(w) ==
  /\ "crash" \in Doors /\ request[w] # Idle /\ Done(w)
  /\ UNCHANGED <<documents, agreement, work, payments>>

-----------------------------------------------------------------------------
Next ==
  \/ \E k \in Drafts, d \in Docs : Issue(k, d) \/ RaiseChangeOrder(d, k)
  \/ \E d, e \in Docs : Revise(e, d)
  \/ \E d \in Docs :
       \/ Terms(d) \/ Sign(d, "customer") \/ Sign(d, "office")
       \/ \E w \in Workers : CreateJobRead(w, d) \/ VoidRead(w, d) \/ UndoRead(w, d) \/ PayRead(w, d)
  \/ \E j \in Jobs : EndJob(j) \/ \E w \in Workers : MintJob(w, j)
  \/ \E w \in Workers :
       \/ JoinJob(w) \/ VoidCancelsJob(w) \/ VoidWrite(w) \/ UndoWrite(w) \/ Crash(w)
       \/ \E p \in Payments : PayWrite(w, p)
  \/ \E p \in Payments : VoidPayment(p)

Spec == Init /\ [][Next]_vars

-----------------------------------------------------------------------------
(* Properties.                                                             *)

Operations == {"idle", "mint", "join", "void", "undo", "share", "pay"}
Requests == [op : Operations, doc : Docs \cup {NoDoc}, job : Jobs \cup {NoJob}, saw : [Docs -> Int]]

TypeOK ==
  /\ draftOf \in [Docs -> Drafts \cup {NoDraft}]
  /\ chain \in [Docs -> SUBSET Docs]
  /\ under \in [Drafts -> Docs \cup {NoDoc}] /\ joins \in [Docs -> Docs \cup {NoDoc}]
  /\ adds \in [Docs -> BOOLEAN]
  /\ signed \in [Docs -> {"no", "customer", "office"}] /\ voided \in [Docs -> BOOLEAN]
  /\ replaced \subseteq Docs /\ heirs \subseteq Docs
  /\ jobOf \in [Docs -> Jobs \cup {NoJob}]
  /\ jobs \in [Jobs -> {"none", "contracted", "completed", "cancelled"}]
  /\ figure \in [Jobs -> [Docs -> Int]]
  /\ on \in [Payments -> Docs \cup {NoDoc}]
  /\ money \in [Payments -> {"none", "paid", "void"}]
  /\ request \in [Workers -> Requests]

\* Of the revisions of one estimate at most one is a live agreement: signing
\* the newer one retires the older in the same transaction, and nothing that
\* reads before it writes can bring the older one back.
OneLiveInvoice == \A d, e \in Docs : d \in chain[e] => ~(Live(d) /\ Live(e))

\* Money groups are one level deep: what a change order joins is never a
\* change order, after revisions and take-overs as well.  Readers of a group
\* look one level down only.
OneLevelDeep == \A d \in Docs : joins[d] # NoDoc => joins[joins[d]] = NoDoc

\* Hand-recorded money that was not taken back is on the document the invoice
\* is read at, so the balance counts it, after any take-over.  The exception
\* the code makes is a document voided by hand, whose money stays with it.
MoneyFollowsInvoice ==
  \A p \in Payments :
    /\ money[p] = "paid" /\ signed[on[p]] # "no"
    /\ voided[on[p]] => on[p] \in replaced
    => \E root \in Root(on[p]) : on[p] \in {root} \cup Counted(root)

\* The figure a job is contracted for is the sum of the signed documents it
\* serves, each once, whatever was joined, taken over or taken back.  A share
\* voided by hand stays in it, as the void route leaves it there.
ContractedFigure ==
  \A j \in Jobs : jobs[j] = "contracted" =>
    \A d \in Docs :
      figure[j][d] = (IF jobOf[d] = j /\ signed[d] # "no" /\ d \notin replaced THEN 1 ELSE 0)

\* A job that is still to be done serves somebody's live agreement.
JobServesLiveWork ==
  \A j \in Jobs : jobs[j] = "contracted" => OnJob(j) # {}

\* A signed change order counts on a live invoice until its own revision is
\* signed (invoiceGroup.ts:175-178).
LiveChangeOrdersCount ==
  \A c \in Docs : (joins[c] # NoDoc /\ Live(c) /\ Live(joins[c])) => c \in Counted(joins[c])

\* No change order stands alone while a live revision of the invoice it was
\* raised on exists (issuedEstimateService.ts:1350).
NoStrandedChangeOrder ==
  \A c \in Docs : (joins[c] # NoDoc /\ Live(c)) => joins[c] \notin replaced
=============================================================================
