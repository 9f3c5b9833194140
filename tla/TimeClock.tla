------------------------------ MODULE TimeClock ------------------------------
(***************************************************************************)
(* The two clocks of one technician: shifts (payroll) and sessions on jobs *)
(* (job time), stamped by the field app, swept every half hour for clocks  *)
(* left running, and corrected by the technician or the office.            *)
(*                                                                         *)
(* Each request is one step: the field app has one button down at a time.  *)
(* The sweep is two, its reading and its writing, with anything between.   *)
(***************************************************************************)
EXTENDS Integers, FiniteSets, Functions

CONSTANTS
  Shifts,    \* ids of shifts to come
  Sessions,  \* ids of job sessions to come
  Visits,
  Horizon,   \* bound on time
  Runaway,   \* how long a clock may run before the sweep flags it
  MaxTyped,  \* bound on the corrections made at the office
  None       \* no visit

ASSUME DisjointAssumption == Shifts \cap Sessions = {} /\ None \notin Visits
ASSUME TimeAssumption == Horizon \in Nat /\ Runaway \in Nat /\ MaxTyped \in Nat

VARIABLES
  now,
  row,       \* a shift's or a session's row
  labor,     \* Visit.laborHours, in minutes
  sweeping,  \* rows the sweep has read and not flagged yet
  typed      \* corrections made at the office so far

vars == <<now, row, labor, sweeping, typed>>

Ids == Shifts \cup Sessions
Open == -1

Unused == [used |-> FALSE, on |-> None, from |-> 0, to |-> 0, flagged |-> FALSE, answered |-> FALSE]
Stamped(v, from, to) ==
  [used |-> TRUE, on |-> v, from |-> from, to |-> to, flagged |-> FALSE, answered |-> FALSE]

Init ==
  /\ now = 0 /\ row = [i \in Ids |-> Unused]
  /\ labor = [v \in Visits |-> 0] /\ sweeping = {} /\ typed = 0

-----------------------------------------------------------------------------
Running(S) == {i \in S : row[i].used /\ row[i].to = Open}
On(v) == {j \in Sessions : row[j].on = v}
Newest(S) == {i \in S : \A k \in S : row[k].from <= row[i].from}

\* Closed, and never flagged or answered for since.
Counts(r) == r.used /\ r.to # Open /\ (r.flagged => r.answered)

\* A punch is a punch: never below one minute.
Minutes(r) == IF r.to > r.from THEN r.to - r.from ELSE 1

\* The sum of a visit's counted sessions.
Banked(rows, v) ==
  SumFunction([j \in {k \in Sessions : rows[k].on = v /\ Counts(rows[k])} |-> Minutes(rows[j])])
Recompute(v) == labor' = [labor EXCEPT ![v] = Banked(row', v)]

Stopped(S, at) == [i \in Ids |-> IF i \in S THEN [row[i] EXCEPT !.to = at] ELSE row[i]]

Tick ==
  /\ now < Horizon /\ now' = now + 1
  /\ UNCHANGED <<row, labor, sweeping, typed>>

-----------------------------------------------------------------------------
(* The field app.                                                          *)

StartShift(i) ==
  /\ Running(Shifts) = {} /\ ~row[i].used
  /\ row' = [row EXCEPT ![i] = Stamped(None, now, Open)]
  /\ UNCHANGED <<now, labor, sweeping, typed>>

\* A job clock that runs is stopped first; the visit's hours are not summed
\* again.
EndShift ==
  /\ \E s \in Newest(Running(Shifts)) :
       /\ row[s].from < now
       /\ IF Running(Sessions) = {} THEN row' = Stopped({s}, now)
          ELSE \E j \in Newest(Running(Sessions)) : row' = Stopped({s, j}, now)
  /\ UNCHANGED <<now, labor, sweeping, typed>>

\* One job at a time: a clock running elsewhere stops, its visit's hours not
\* summed again either.
\* (mutated: it keeps running)
NowhereElse == {}
Elsewhere == Newest(Running(Sessions))

\* Arriving while clocked out starts the shift too.
Arrive(v, i, j) ==
  /\ Running(On(v)) = {} /\ ~row[j].used
  /\ Running(Shifts) = {} => ~row[i].used
  /\ \E stops \in IF Elsewhere = {} THEN {{}} ELSE {{e} : e \in Elsewhere} :
       row' = [k \in Ids |->
         IF k = j THEN Stamped(v, now, Open)
         ELSE IF k = i /\ Running(Shifts) = {} THEN Stamped(None, now, Open)
         ELSE Stopped(stops, now)[k]]
  /\ UNCHANGED <<now, labor, sweeping, typed>>

\* Pause and Complete.
EndJob(v) ==
  /\ \E j \in Newest(Running(On(v))) : row' = Stopped({j}, now)
  /\ Recompute(v)
  /\ UNCHANGED <<now, sweeping, typed>>

-----------------------------------------------------------------------------
(* Clocks left running.                                                    *)

SweepRead ==
  /\ sweeping = {}
  /\ sweeping' = {i \in Running(Ids) : ~row[i].flagged /\ row[i].from < now - Runaway}
  /\ UNCHANGED <<now, row, labor, typed>>

\* By id: a row that was stopped since is flagged all the same.
SweepWrite ==
  /\ sweeping # {} /\ sweeping' = {}
  /\ row' = [i \in Ids |-> IF i \in sweeping /\ row[i].used THEN [row[i] EXCEPT !.flagged = TRUE] ELSE row[i]]
  /\ UNCHANGED <<now, labor, typed>>

-----------------------------------------------------------------------------
(* Hours typed by a person: an answer to a flag, or a correction.  What is *)
(* typed is true of one technician: it overlaps no other row of its clock. *)

End(to) == IF to = Open THEN Horizon + 1 ELSE to
Others(i) == {k \in (IF i \in Shifts THEN Shifts ELSE Sessions) \ {i} : row[k].used}
True(i, from, to) == \A k \in Others(i) : End(to) <= row[k].from \/ End(row[k].to) <= from

\* (mutated: the end may come before the start)
AnyEnd(i, at) == at <= now
RealEnd(i, at) == row[i].from < at /\ at <= now

Corrected == typed < MaxTyped /\ typed' = typed + 1

Typed(i) ==
  /\ IF i \in Sessions /\ row'[i].used THEN Recompute(row'[i].on) ELSE UNCHANGED labor
  /\ UNCHANGED <<now, sweeping>>

Confirm(i, at) ==
  /\ row[i].used /\ row[i].flagged /\ RealEnd(i, at) /\ True(i, row[i].from, at)
  /\ row' = [row EXCEPT ![i].to = at, ![i].answered = TRUE]
  /\ Typed(i) /\ UNCHANGED typed

\* A corrected end answers a flag; a cleared end starts the clock again.
Edit(i, from, to) ==
  /\ Corrected /\ row[i].used
  /\ to # Open => from < to
  /\ True(i, from, to)
  /\ row' = [row EXCEPT ![i].from = from, ![i].to = to, ![i].answered = @ \/ (row[i].flagged /\ to # Open)]
  /\ Typed(i)

Create(i, v, from, to) ==
  /\ Corrected /\ ~row[i].used /\ (i \in Sessions <=> v # None)
  /\ to # Open => from < to
  /\ True(i, from, to)
  /\ row' = [row EXCEPT ![i] = Stamped(v, from, to)]
  /\ Typed(i)

Delete(i) ==
  /\ Corrected /\ row[i].used
  /\ row' = [row EXCEPT ![i] = Unused]
  /\ IF i \in Sessions THEN Recompute(row[i].on) ELSE UNCHANGED labor
  /\ UNCHANGED <<now, sweeping>>

Next ==
  \/ Tick \/ EndShift \/ SweepRead \/ SweepWrite
  \/ \E i \in Shifts : StartShift(i) \/ \E j \in Sessions, v \in Visits : Arrive(v, i, j)
  \/ \E v \in Visits : EndJob(v)
  \/ \E i \in Ids :
       \/ Delete(i)
       \/ \E at \in 0..now : Confirm(i, at)
       \/ \E from \in 0..now, to \in {Open} \cup 0..now :
            Edit(i, from, to) \/ \E v \in Visits \cup {None} : Create(i, v, from, to)

Spec == Init /\ [][Next]_vars

-----------------------------------------------------------------------------
(* Properties.                                                             *)

Rows == [used : BOOLEAN, on : Visits \cup {None}, from : 0..Horizon, to : {Open} \cup 0..Horizon,
         flagged : BOOLEAN, answered : BOOLEAN]

RowsOK ==
  /\ now \in 0..Horizon /\ row \in [Ids -> Rows]
  /\ \A i \in Ids : (row[i].used /\ row[i].to # Open) => row[i].from <= row[i].to
  /\ \A i \in Ids : row[i].used => (row[i].on # None <=> i \in Sessions)

TypeOK ==
  /\ RowsOK
  /\ labor \in [Visits -> Nat] /\ sweeping \subseteq Ids /\ typed \in 0..MaxTyped

\* A technician's clock runs once: never two shifts, never two jobs, whatever
\* was left running, flagged, answered, corrected or taken out between.
OneAtATime ==
  /\ \A i, k \in Running(Shifts) : i = k
  /\ \A i, k \in Running(Sessions) : i = k

\* A job clock runs inside a shift (not so: answering for, correcting or
\* deleting the shift leaves it running).
JobInsideShift == Running(Sessions) # {} => Running(Shifts) # {}

\* Visit.laborHours is the sum of the counted sessions (not so: a session
\* stopped by clocking out or by arriving elsewhere is left out of it).
LaborIsTheSum == \A v \in Visits : labor[v] = Banked(row, v)

\* Hours that were stopped in time keep counting (not so: the sweep flags by
\* what it read).
StoppedStaysCounted == [][\A i \in Ids : (Counts(row[i]) /\ row'[i].used) => Counts(row'[i]) \/ row'[i].to = Open]_vars
=============================================================================
