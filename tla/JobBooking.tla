----------------------------- MODULE JobBooking -----------------------------
(***************************************************************************)
(* Putting sold work on the calendar.  Three stores change in turn and no  *)
(* transaction spans them: the SlotHold rows (one per day, unique), the    *)
(* company's Google calendars, and the Visit row.  A booking claims its    *)
(* days, reads the calendar, writes the event, gives the days back and     *)
(* only then, after the texts and emails, records the visit.  Requests     *)
(* interleave at every one of these steps and may be lost between them.    *)
(*                                                                         *)
(* Abstracted: every job takes the same hours of each day of its block, so *)
(* two events clash when they share a day; the deposit gate is an input (a *)
(* request it turns away changes nothing); all jobs belong to one account, *)
(* so any may ride along with any other; texts and emails are left out.    *)
(* Estimate visits book by the hour with no hold and are not modelled.     *)
(***************************************************************************)
EXTENDS FiniteSets, Sequences

CONSTANTS
  Jobs,    \* visits under contract
  Days,    \* days of the calendar
  Blocks,  \* the blocks of days a job may be given
  Events,  \* ids of calendar events; an id nobody refers to may stand for a new one
  Techs,   \* technicians, each with a calendar
  Workers, \* requests the server may be serving at one time
  Doors,   \* the doors and troubles open in this instance
  None

AllDoors == {"schedule", "override", "agent_reschedule", "crm_reschedule", "cancel",
             "ride", "crash", "slow"}

ASSUME BlockAssumption == Blocks \subseteq (SUBSET Days) \ {{}}
ASSUME NoneAssumption == None \notin Jobs \cup Events \cup Techs
ASSUME DoorAssumption == Doors \subseteq AllDoors

VARIABLES
  held,     \* days with a SlotHold row
  stale,    \* of those, the ones whose expiresAt has passed
  calendar, \* event id -> its entry
  status,   \* Visit.status of each job
  dayOf,    \* the days between scheduledStart and scheduledEnd, {} when null
  eventOf,  \* Visit.googleEventId
  team,     \* primary VisitAssignments, in the order they were first made
  req,      \* the request each worker serves
  byHand    \* history: jobs once put on a day without looking at the calendar

holds == <<held, stale>>
visit == <<status, dayOf, eventOf>>
vars == <<holds, calendar, visit, team, req, byHand>>

NoEntry == [job |-> None, days |-> {}, tech |-> None]
Idle == [step |-> "idle", door |-> "none", job |-> None, days |-> {}, tech |-> None,
         scope |-> FALSE, own |-> None, event |-> None, force |-> FALSE]

Init ==
  /\ held = {} /\ stale = {}
  /\ calendar = [e \in Events |-> NoEntry]
  /\ status = [j \in Jobs |-> "contracted"]
  /\ dayOf = [j \in Jobs |-> {}] /\ eventOf = [j \in Jobs |-> None]
  /\ team = [j \in Jobs |-> <<>>]
  /\ req = [w \in Workers |-> Idle] /\ byHand = {}

Live(e) == calendar[e].days # {}

\* An id that no event, visit or request has is as good as a new one.
Unused == {e \in Events : /\ ~Live(e)
                          /\ \A j \in Jobs : eventOf[j] # e
                          /\ \A w \in Workers : req[w].own # e /\ req[w].event # e}

At(w, door, step) == req[w].door = door /\ req[w].step = step
Booking(w) == req[w].door \in {"schedule", "reschedule"}
Holding(w) == Booking(w) /\ req[w].step \in {"held", "checked", "placed", "failing"}
Goto(w, step) == req' = [req EXCEPT ![w].step = step]
Done(w) == req' = [req EXCEPT ![w] = Idle]

-----------------------------------------------------------------------------
(* Opening a request: the visit is read once, and what was read is kept.   *)

Serve(w, r) == req' = [req EXCEPT ![w] = r]

ScheduleRead(w, j) ==
  /\ "schedule" \in Doors /\ req[w] = Idle
  /\ status[j] = "contracted"
  /\ \E b \in Blocks, t \in Techs \cup {None}, f \in BOOLEAN :
       /\ f => "override" \in Doors
       /\ Serve(w, [Idle EXCEPT !.step = "read", !.door = "schedule", !.job = j, !.days = b,
                                !.tech = t, !.own = eventOf[j], !.force = f])
  /\ UNCHANGED <<holds, calendar, visit, team, byHand>>

\* The voice agents name no technician and check the whole company; the CRM
\* may name one, or else asks for the calendar of whoever has the job.
RescheduleRead(w, j) ==
  /\ req[w] = Idle /\ dayOf[j] # {} /\ eventOf[j] # None
  /\ \E b \in Blocks, t \in Techs \cup {None}, crm, f \in BOOLEAN :
       /\ IF crm THEN "crm_reschedule" \in Doors ELSE "agent_reschedule" \in Doors
       /\ crm \/ (t = None /\ ~f)
       /\ f => "override" \in Doors
       /\ Serve(w, [Idle EXCEPT !.step = "read", !.door = "reschedule", !.job = j, !.days = b,
                                !.tech = t, !.scope = crm, !.own = eventOf[j], !.force = f])
  /\ UNCHANGED <<holds, calendar, visit, team, byHand>>

\* A rider copies the window its anchor has at the read.
RideRead(w, j, anchor) ==
  /\ "ride" \in Doors /\ req[w] = Idle /\ j # anchor
  /\ dayOf[anchor] # {} /\ status[j] # "cancelled"
  /\ Serve(w, [Idle EXCEPT !.step = "read", !.door = "ride", !.job = j, !.days = dayOf[anchor]])
  /\ UNCHANGED <<holds, calendar, visit, team, byHand>>

CancelRead(w, j) ==
  /\ "cancel" \in Doors /\ req[w] = Idle /\ dayOf[j] # {}
  /\ Serve(w, [Idle EXCEPT !.step = "read", !.door = "cancel", !.job = j, !.own = eventOf[j]])
  /\ UNCHANGED <<holds, calendar, visit, team, byHand>>

-----------------------------------------------------------------------------
(* The claim on the days.                                                  *)

\* Days some booking has claimed, now or less than the TTL ago.
\* (mutated: an expired claim still counts)
TakenForGood == held
Taken == held \ stale

\* One transaction: the expired rows of these days go, the new ones are made.
\* (mutated: an upsert, which no other row refuses)
AcquireUnchecked(w) ==
  /\ Booking(w) /\ req[w].step = "read"
  /\ held' = held \cup req[w].days /\ stale' = stale \ req[w].days
  /\ Goto(w, "held")
  /\ UNCHANGED <<calendar, visit, team, byHand>>
Acquire(w) ==
  /\ Booking(w) /\ req[w].step = "read"
  /\ req[w].days \cap Taken = {}
  /\ held' = held \cup req[w].days /\ stale' = stale \ req[w].days
  /\ Goto(w, "held")
  /\ UNCHANGED <<calendar, visit, team, byHand>>

\* The unique constraint refuses one of the days: nothing is claimed.
Contend(w) ==
  /\ Booking(w) /\ req[w].step = "read"
  /\ req[w].days \cap Taken # {}
  /\ Done(w)
  /\ UNCHANGED <<holds, calendar, visit, team, byHand>>

\* The rows of these days are deleted, whoever made them.
Release(w) ==
  /\ Booking(w) /\ req[w].step \in {"placed", "failing"}
  /\ held' = held \ req[w].days /\ stale' = stale \ req[w].days
  /\ IF req[w].step = "placed" THEN Goto(w, "released") ELSE Done(w)
  /\ UNCHANGED <<calendar, visit, team, byHand>>

\* Two minutes pass.  A booking is done in less, unless the calendar is slow.
Expire(d) ==
  /\ d \in Taken
  /\ "slow" \in Doors \/ \A w \in Workers : Holding(w) => d \notin req[w].days
  /\ stale' = stale \cup {d}
  /\ UNCHANGED <<held, calendar, visit, team, req, byHand>>

-----------------------------------------------------------------------------
(* The calendar.  An event is on the company's calendar and on that of the *)
(* technician invited to it.                                               *)

On(e, t) == Live(e) /\ (t = None \/ calendar[e].tech = t)

\* The calendar that is read: the technician named, else the latest one on
\* the job if the CRM asks, else the whole company's.
Reads(w) == LET on == team[req[w].job] IN
  CASE req[w].tech # None -> req[w].tech
    [] req[w].tech = None /\ req[w].scope /\ on # <<>> -> on[Len(on)]
    [] OTHER -> None

\* The job's own event is told by its start and end: whatever has the same
\* block is not counted.
LooksLikeOwn(w, e) ==
  /\ req[w].own # None /\ Live(req[w].own)
  /\ calendar[e].days = calendar[req[w].own].days

\* (mutated: only events of the very block are seen)
BusyStarting(w) == {e \in Events : /\ On(e, Reads(w)) /\ calendar[e].days = req[w].days
                                   /\ ~LooksLikeOwn(w, e)}
Busy(w) == {e \in Events : /\ On(e, Reads(w))
                           /\ calendar[e].days \cap req[w].days # {}
                           /\ ~LooksLikeOwn(w, e)}

\* "Schedule anyway" does not look.  A request forgets what it has no more
\* use for, here and below.
Check(w) ==
  /\ Booking(w) /\ req[w].step = "held"
  /\ req' = [req EXCEPT ![w].force = FALSE, ![w].scope = FALSE,
                ![w].step = IF req[w].force \/ Busy(w) = {} THEN "checked" ELSE "failing"]
  /\ byHand' = byHand \cup (IF req[w].force THEN {req[w].job} ELSE {})
  /\ UNCHANGED <<holds, calendar, visit, team>>

Place(w) ==
  /\ At(w, "schedule", "checked") \/ At(w, "ride", "read")
  /\ \E e \in Unused :
       /\ calendar' = [calendar EXCEPT ![e] =
                         [job |-> req[w].job, days |-> req[w].days, tech |-> req[w].tech]]
       /\ req' = [req EXCEPT ![w].event = e,
                             ![w].step = IF Booking(w) THEN "placed" ELSE "released"]
  /\ byHand' = byHand \cup (IF Booking(w) THEN {} ELSE {req[w].job})
  /\ UNCHANGED <<holds, visit, team>>

\* The event is moved; who is invited to it does not change.
Move(w) ==
  /\ At(w, "reschedule", "checked") /\ Live(req[w].own)
  /\ calendar' = [calendar EXCEPT ![req[w].own].days = req[w].days]
  /\ req' = [req EXCEPT ![w].own = None, ![w].step = "placed"]
  /\ UNCHANGED <<holds, visit, team, byHand>>

\* Google does not answer the read or the write.
CalendarFails(w) ==
  /\ Booking(w) /\ req[w].step \in {"held", "checked"}
  /\ Goto(w, "failing")
  /\ UNCHANGED <<holds, calendar, visit, team, byHand>>

\* A cancelled job's event is deleted; a failure is logged and passed over.
Unbook(w) ==
  /\ At(w, "cancel", "read")
  /\ \/ UNCHANGED calendar
     \/ /\ req[w].own # None
        /\ calendar' = [calendar EXCEPT ![req[w].own] = NoEntry]
  /\ req' = [req EXCEPT ![w].own = None, ![w].step = "released"]
  /\ UNCHANGED <<holds, visit, team, byHand>>

-----------------------------------------------------------------------------
(* The record, by id alone: whatever was written since the read is lost.   *)

\* There is an assignment to write only if the request named somebody.
ThenAssign(w) == IF req[w].tech = None THEN Done(w) ELSE Goto(w, "recorded")

Record(w) ==
  LET j == req[w].job IN
  /\ req[w].step = "released"
  /\ \/ /\ req[w].door \in {"schedule", "ride"}
        /\ status' = [status EXCEPT ![j] = "scheduled"]
        /\ dayOf' = [dayOf EXCEPT ![j] = req[w].days]
        /\ eventOf' = [eventOf EXCEPT ![j] = req[w].event]
     \/ /\ req[w].door = "reschedule"
        /\ dayOf' = [dayOf EXCEPT ![j] = req[w].days]
        /\ UNCHANGED <<status, eventOf>>
     \/ /\ req[w].door = "cancel"
        /\ status' = [status EXCEPT ![j] = "cancelled"]
        /\ dayOf' = [dayOf EXCEPT ![j] = {}]
        /\ eventOf' = [eventOf EXCEPT ![j] = None]
  /\ ThenAssign(w)
  /\ UNCHANGED <<holds, calendar, team, byHand>>

\* A booking adds its technician; a rescheduling puts him in place of the rest.
Assign(w) ==
  LET on == team[req[w].job] t == req[w].tech IN
  /\ req[w].step = "recorded"
  /\ team' = [team EXCEPT ![req[w].job] =
                IF req[w].door = "reschedule" THEN <<t>>
                ELSE IF \E i \in DOMAIN on : on[i] = t THEN on ELSE Append(on, t)]
  /\ Done(w)
  /\ UNCHANGED <<holds, calendar, visit, byHand>>

\* The process stops, or a statement throws: the request is over where it is.
Crash(w) ==
  /\ "crash" \in Doors /\ req[w] # Idle /\ Done(w)
  /\ UNCHANGED <<holds, calendar, visit, team, byHand>>

Step(w) ==
  \/ Acquire(w) \/ Contend(w) \/ Check(w) \/ Place(w) \/ Move(w) \/ CalendarFails(w)
  \/ Release(w) \/ Unbook(w) \/ Record(w) \/ Assign(w)

Next ==
  \/ \E w \in Workers :
       \/ \E j \in Jobs : ScheduleRead(w, j) \/ RescheduleRead(w, j) \/ CancelRead(w, j)
       \/ \E j, anchor \in Jobs : RideRead(w, j, anchor)
       \/ Step(w) \/ Crash(w)
  \/ \E d \in Days : Expire(d)

Spec == Init /\ [][Next]_vars

\* A request is served to its end; time passes.
FairSpec == /\ Spec
            /\ \A w \in Workers : WF_vars(Step(w))
            /\ \A d \in Days : WF_vars(Expire(d))

-----------------------------------------------------------------------------
(* Properties.                                                             *)

Entry == [job : Jobs \cup {None}, days : SUBSET Days, tech : Techs \cup {None}]
Request == [step : {"idle", "read", "held", "checked", "placed", "failing", "released",
                    "recorded"},
            door : {"none", "schedule", "reschedule", "ride", "cancel"},
            job : Jobs \cup {None}, days : SUBSET Days, tech : Techs \cup {None},
            scope : BOOLEAN, own : Events \cup {None}, event : Events \cup {None},
            force : BOOLEAN]

\* The type of every variable; an expired hold is still a hold.
TypeOK ==
  /\ held \subseteq Days /\ stale \subseteq held
  /\ calendar \in [Events -> Entry]
  /\ status \in [Jobs -> {"contracted", "scheduled", "cancelled"}]
  /\ dayOf \in [Jobs -> SUBSET Days] /\ eventOf \in [Jobs -> Events \cup {None}]
  /\ team \in [Jobs -> Seq(Techs)]
  /\ req \in [Workers -> Request] /\ byHand \subseteq Jobs

\* Exactly one caller wins the day: two bookings between claim and release
\* never share a day, and neither has lost its claim.
OneWinsTheDay ==
  \A w \in Workers : Holding(w) =>
    /\ req[w].days \subseteq Taken
    /\ \A v \in Workers \ {w} : Holding(v) => req[v].days \cap req[w].days = {}

\* No technician is invited to two jobs on one day unless a person put one of
\* them there without looking: what each booking read of the calendar still
\* holds when it writes to it.
TechsApart ==
  \A e, f \in Events :
    (/\ e # f /\ Live(e) /\ Live(f)
     /\ calendar[e].tech = calendar[f].tech /\ calendar[e].tech # None
     /\ {calendar[e].job, calendar[f].job} \cap byHand = {})
    => calendar[e].days \cap calendar[f].days = {}

\* A crashed booking never wedges a date: every day can be claimed again.
DayComesBack == \A d \in Days : []<>(d \notin Taken)

\* The technician on a job is the one whose calendar was looked at: no two
\* jobs booked for one technician share a day.
AssignedApart ==
  \A j, k \in Jobs :
    (/\ j # k /\ {j, k} \cap byHand = {} /\ team[j] # <<>> /\ team[k] # <<>>
     /\ status[j] = "scheduled" /\ status[k] = "scheduled"
     /\ team[j][Len(team[j])] = team[k][Len(team[k])])
    => dayOf[j] \cap dayOf[k] = {}
=============================================================================
