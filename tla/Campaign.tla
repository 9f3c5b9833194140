------------------------------ MODULE Campaign ------------------------------
(***************************************************************************)
(* One email campaign: the button of the Campaigns page, the runs it       *)
(* starts in the background, the rows they work through and the            *)
(* unsubscribe link.                                                       *)
(*                                                                         *)
(* A run awaits between any two of its steps, and nothing keeps a second   *)
(* press from starting another run beside it.  Addresses are taken folded  *)
(* to lower case, as the list, the row and the suppression compare them.   *)
(***************************************************************************)
EXTENDS FiniteSetsExt, Naturals

CONSTANTS
  Addresses,
  Runs,      \* runs that may be alive at once
  Cap,       \* rows a run takes up: the daily cap
  MaxCuts,   \* bound on runs lost to a restart or an error
  Troubles,  \* what the provider may do besides taking the letter
  NoOne      \* no address

AllTroubles == {"lost", "refused", "limit"}

ASSUME CapAssumption == Cap \in Nat \ {0} /\ MaxCuts \in Nat
ASSUME AddressAssumption == IsFiniteSet(Addresses) /\ NoOne \notin Addresses
ASSUME TroubleAssumption == Troubles \subseteq AllTroubles

VARIABLES
  list,        \* who the list resolves to
  suppressed,  \* EmailSuppression
  status,      \* EmailCampaign.status
  shown,       \* the status the page shows
  row,         \* EmailCampaignSend.status by address
  run,         \* sendCampaign under way
  mailed,      \* letters the provider has taken
  cuts,        \* runs lost so far
  first,       \* history: the audience of the first snapshot
  before       \* history: what a run found when it began or last recorded

vars == <<list, suppressed, status, shown, row, run, mailed, cuts, first, before>>
audience == <<list, suppressed>>
past == <<cuts, first, before>>

Done == {"sent", "failed", "suppressed"}
Idle == [at |-> "idle", queue |-> {}, to |-> NoOne, fate |-> "sent", left |-> FALSE]
Nothing == [done |-> {}, out |-> {}]

Init ==
  /\ list \in SUBSET Addresses /\ suppressed \in SUBSET Addresses
  /\ status = "draft" /\ shown = "draft"
  /\ row = [e \in Addresses |-> "none"]
  /\ run = [w \in Runs |-> Idle]
  /\ mailed = [e \in Addresses |-> 0]
  /\ cuts = 0 /\ first = {} /\ before = [w \in Runs |-> Nothing]

-----------------------------------------------------------------------------
(* The audience.                                                           *)

\* An account's address is on the list whatever it has unsubscribed from.
Join(e) == /\ e \notin list /\ list' = list \cup {e}
           /\ UNCHANGED <<suppressed, status, shown, row, run, mailed, past>>
Leave(e) == /\ e \in list /\ list' = list \ {e}
            /\ UNCHANGED <<suppressed, status, shown, row, run, mailed, past>>

\* The link works from any letter of any campaign, and there is no way back.
Unsubscribe(e) == /\ e \notin suppressed /\ suppressed' = suppressed \cup {e}
                  /\ UNCHANGED <<list, status, shown, row, run, mailed, past>>

-----------------------------------------------------------------------------
(* The page.  It offers the button for what it last read.                  *)

Refresh == /\ shown # status /\ shown' = status
           /\ UNCHANGED <<audience, status, row, run, mailed, past>>

Offered == shown = "draft"
Rows(S) == {e \in Addresses : row[e] \in S}

Go(w, at) == run' = [run EXCEPT ![w].at = at]
End(w) == run' = [run EXCEPT ![w] = Idle] /\ before' = [before EXCEPT ![w] = Nothing]

Press(w) ==
  /\ run[w] = Idle /\ Offered /\ status # "sent"
  /\ Go(w, "count")
  /\ before' = [before EXCEPT ![w] = [done |-> Rows(Done), out |-> suppressed]]
  /\ UNCHANGED <<audience, status, shown, row, mailed, cuts, first>>

-----------------------------------------------------------------------------
(* The run.                                                                *)

Count(w) ==
  /\ run[w].at = "count"
  /\ Go(w, IF Rows({"none"}) = Addresses THEN "snapshot" ELSE "mark")
  /\ UNCHANGED <<audience, status, shown, row, mailed, past>>

\* createMany with skipDuplicates; an empty list ends the run.
Snapshot(w) ==
  /\ run[w].at = "snapshot"
  /\ IF list = {} THEN End(w) ELSE Go(w, "mark") /\ UNCHANGED before
  /\ row' = [e \in Addresses |-> IF e \in list /\ row[e] = "none" THEN "pending" ELSE row[e]]
  /\ first' = IF first = {} THEN list ELSE first
  /\ UNCHANGED <<audience, status, shown, mailed, cuts>>

Mark(w) ==
  /\ run[w].at = "mark" /\ status' = "sending" /\ Go(w, "load")
  /\ UNCHANGED <<audience, shown, row, mailed, past>>

\* Rows a run takes up.  (mutated: what failed is tried again)
ToSendAgain == Rows({"pending", "failed"})
ToSend == Rows({"pending"})

Load(w) ==
  /\ run[w].at = "load"
  /\ \E Q \in SUBSET ToSend :
       /\ Cardinality(Q) = Cap \/ (Q = ToSend /\ Cardinality(Q) <= Cap)
       /\ run' = [run EXCEPT ![w].at = "next", ![w].queue = Q]
  /\ UNCHANGED <<audience, status, shown, row, mailed, past>>

\* Asked for each row as it is taken up.  (mutated: not asked)
BarredNever(e) == FALSE
Barred(e) == e \in suppressed

\* The next row is taken up: its letter is handed over, or it is not.
With(w, e) == [run[w] EXCEPT !.queue = @ \ {e}, !.to = e,
                  !.at = IF Barred(e) THEN "record" ELSE "send",
                  !.fate = IF Barred(e) THEN "suppressed" ELSE "sent"]

TakeUp(w) ==
  /\ run[w].at = "next"
  /\ \E e \in run[w].queue : run' = [run EXCEPT ![w] = With(w, e)]
  /\ UNCHANGED <<audience, status, shown, row, mailed, past>>

\* The provider's answers: the letter taken, taken but the answer lost,
\* refused, or too many for now (429), which ends the loop.
Outcome(w, o) ==
  \/ o = "taken" /\ Go(w, "record")
  \/ o \in {"lost", "refused"} /\ run' = [run EXCEPT ![w].at = "record", ![w].fate = "failed"]
  \/ o = "limit" /\ Go(w, "tally")

Send(w) ==
  /\ run[w].at = "send"
  /\ \E o \in Troubles \cup {"taken"} :
       /\ Outcome(w, o)
       /\ mailed' = IF o \in {"taken", "lost"} THEN [mailed EXCEPT ![run[w].to] = @ + 1]
                                               ELSE mailed
  /\ UNCHANGED <<audience, status, shown, row, past>>

Record(w) ==
  /\ run[w].at = "record"
  /\ run' = [run EXCEPT ![w] = [Idle EXCEPT !.at = "next", !.queue = run[w].queue]]
  /\ row' = [row EXCEPT ![run[w].to] = run[w].fate]
  /\ before' = [before EXCEPT ![w].out = suppressed]
  /\ UNCHANGED <<audience, status, shown, mailed, cuts, first>>

\* What is still pending is counted in one query and written in another.
Tally(w) ==
  /\ \/ run[w].at = "tally"
     \/ run[w].at = "next" /\ run[w].queue = {}
  /\ run' = [run EXCEPT ![w] = [Idle EXCEPT !.at = "close", !.left = Rows({"pending"}) # {}]]
  /\ UNCHANGED <<audience, status, shown, row, mailed, past>>

\* (mutated: the end of the loop is taken for the end of the campaign)
ClosingAlways(w) == "sent"
Closing(w) == IF run[w].left THEN "sending" ELSE "sent"

Close(w) ==
  /\ run[w].at = "close" /\ status' = Closing(w) /\ End(w)
  /\ UNCHANGED <<audience, shown, row, mailed, cuts, first>>

\* A restart, or an error outside the loop's try, ends the run where it is.
Cut(w) ==
  /\ run[w] # Idle /\ cuts < MaxCuts /\ cuts' = cuts + 1 /\ End(w)
  /\ UNCHANGED <<audience, status, shown, row, mailed, first>>

-----------------------------------------------------------------------------
Step(w) == \/ Press(w) \/ Count(w) \/ Snapshot(w) \/ Mark(w) \/ Load(w) \/ TakeUp(w)
           \/ Send(w) \/ Record(w) \/ Tally(w) \/ Close(w) \/ Cut(w)

Next == \/ \E e \in Addresses : Join(e) \/ Leave(e) \/ Unsubscribe(e)
        \/ Refresh
        \/ \E w \in Runs : Step(w)

Spec == Init /\ [][Next]_vars

-----------------------------------------------------------------------------
(* Properties.                                                             *)

RunState == [at : {"idle", "count", "snapshot", "mark", "load", "next", "send",
                   "record", "tally", "close"},
             queue : SUBSET Addresses, to : Addresses \cup {NoOne},
             fate : Done, left : BOOLEAN]
TypeOK ==
  /\ list \in SUBSET Addresses /\ suppressed \in SUBSET Addresses
  /\ status \in {"draft", "sending", "sent"} /\ shown \in {"draft", "sending", "sent"}
  /\ row \in [Addresses -> {"none", "pending"} \cup Done]
  /\ run \in [Runs -> RunState]
  /\ mailed \in [Addresses -> Nat] /\ cuts \in Nat /\ first \in SUBSET Addresses
  /\ before \in [Runs -> [done : SUBSET Addresses, out : SUBSET Addresses]]

Mails(w, e) == mailed'[e] > mailed[e] /\ run[w].at = "send" /\ run'[w].at # "send"

\* "Effective immediately and GLOBAL" (app.ts:1356): whoever had unsubscribed
\* when a run recorded its previous row, or when it was pressed, gets no letter
\* from it, whatever its snapshot and its load were taken from.
UnsubscribeStands ==
  [][\A w \in Runs : \A e \in before[w].out : ~Mails(w, e)]_vars

\* "pending rows send, sent rows never repeat" (emailCampaigns.ts:183): a run
\* writes to nobody whose row had its result when the run was pressed, though
\* another run or a stale page started it.
RecordedNotRepeated ==
  [][\A w \in Runs : \A e \in before[w].done : ~Mails(w, e)]_vars

\* A campaign that reads "sent" has a result for everyone its first snapshot
\* named: neither a cap, a rate limit, a lost run nor a second one closes it
\* over a row nobody was tried for.
SentReachedAll == status = "sent" => \A e \in first : row[e] \in Done

\* "so a crash mid-campaign resumes instead of double-sending"
\* (emailCampaigns.ts:184).  Not so: a run lost between the provider's yes and
\* the row's update, or a second run, writes to the same address again.
MailedOnce == \A e \in Addresses : mailed[e] <= 1

\* "a second press on a 'sending' campaign continues the pending rows"
\* (app.ts:5516).  Not so: the page offers the button for a draft only, so a
\* campaign stopped half way cannot be taken up from it.
ResumeOffered == (shown = status /\ status = "sending" /\ \A w \in Runs : run[w] = Idle) => Offered
=============================================================================
