-------------------------- MODULE JobBooking_proofs --------------------------
(***************************************************************************)
(* Proofs about JobBooking, for every set of jobs, days, technicians and   *)
(* requests: what the one-row-per-day claim protects, and from what.       *)
(***************************************************************************)
EXTENDS JobBooking, TLAPS

\* A claim lasts at least as long as the booking that made it.
Prompt == "slow" \notin Doors

\* A request being served is for a job, and one with somebody to assign has
\* a technician.
Formed ==
  \A w \in Workers : /\ req[w].step # "idle" => req[w].job \in Jobs
                     /\ req[w].step = "recorded" => req[w].tech \in Techs

Base == TypeOK /\ Formed

-----------------------------------------------------------------------------
(* Requests are well formed.                                               *)

LEMMA IdleType == Idle \in Request
BY DEF Idle, Request

\* Serving w with a well-formed request leaves every request well formed.
LEMMA ServeType ==
  ASSUME Base, NEW w \in Workers, NEW r \in Request,
         r.step # "idle" => r.job \in Jobs, r.step = "recorded" => r.tech \in Techs,
         req' = [req EXCEPT ![w] = r]
  PROVE  req' \in [Workers -> Request] /\ Formed'
BY DEF Base, TypeOK, Formed

LEMMA DoneType ==
  ASSUME Base, NEW w \in Workers, Done(w)
  PROVE  req' \in [Workers -> Request] /\ Formed'
BY IdleType, ServeType DEF Done, Idle

LEMMA GotoType ==
  ASSUME Base, NEW w \in Workers, req[w].step # "idle",
         NEW s \in {"read", "held", "checked", "placed", "failing", "released"}, Goto(w, s)
  PROVE  req' \in [Workers -> Request] /\ Formed'
<1> DEFINE r == [req[w] EXCEPT !.step = s]
<1>1. req[w] \in Request /\ req[w].job \in Jobs
  BY DEF Base, TypeOK, Formed
<1>2. r \in Request /\ r.job = req[w].job /\ r.step = s
  BY <1>1 DEF Request
<1>3. req' = [req EXCEPT ![w] = r]
  BY DEF Goto
<1> HIDE DEF r
<1> QED
  BY <1>1, <1>2, <1>3, ServeType

-----------------------------------------------------------------------------
(* Type correctness.                                                       *)

LEMMA InitBase == Init => Base
BY IdleType DEF Init, Base, TypeOK, Formed, NoEntry, Entry, Idle

LEMMA ScheduleReadBase ==
  ASSUME Base, NEW w \in Workers, NEW j \in Jobs, ScheduleRead(w, j)
  PROVE  Base'
<1>1. PICK b \in Blocks, t \in Techs \cup {None}, f \in BOOLEAN :
        Serve(w, [Idle EXCEPT !.step = "read", !.door = "schedule", !.job = j, !.days = b,
                              !.tech = t, !.own = eventOf[j], !.force = f])
  BY DEF ScheduleRead
<1> DEFINE r == [Idle EXCEPT !.step = "read", !.door = "schedule", !.job = j, !.days = b,
                             !.tech = t, !.own = eventOf[j], !.force = f]
<1>2. b \in SUBSET Days /\ eventOf[j] \in Events \cup {None}
  BY BlockAssumption DEF Base, TypeOK
<1>3. r \in Request /\ r.step = "read" /\ r.job = j
  BY <1>2 DEF Idle, Request
<1>4. req' = [req EXCEPT ![w] = r]
  BY <1>1 DEF Serve
<1> HIDE DEF r
<1>5. req' \in [Workers -> Request] /\ Formed'
  BY <1>3, <1>4, ServeType
<1> QED
  BY <1>5 DEF ScheduleRead, Base, TypeOK, holds, visit

LEMMA RescheduleReadBase ==
  ASSUME Base, NEW w \in Workers, NEW j \in Jobs, RescheduleRead(w, j)
  PROVE  Base'
<1>1. PICK b \in Blocks, t \in Techs \cup {None}, crm \in BOOLEAN, f \in BOOLEAN :
        Serve(w, [Idle EXCEPT !.step = "read", !.door = "reschedule", !.job = j, !.days = b,
                              !.tech = t, !.scope = crm, !.own = eventOf[j], !.force = f])
  BY DEF RescheduleRead
<1> DEFINE r == [Idle EXCEPT !.step = "read", !.door = "reschedule", !.job = j, !.days = b,
                             !.tech = t, !.scope = crm, !.own = eventOf[j], !.force = f]
<1>2. b \in SUBSET Days /\ eventOf[j] \in Events \cup {None}
  BY BlockAssumption DEF Base, TypeOK
<1>3. r \in Request /\ r.step = "read" /\ r.job = j
  BY <1>2 DEF Idle, Request
<1>4. req' = [req EXCEPT ![w] = r]
  BY <1>1 DEF Serve
<1> HIDE DEF r
<1>5. req' \in [Workers -> Request] /\ Formed'
  BY <1>3, <1>4, ServeType
<1> QED
  BY <1>5 DEF RescheduleRead, Base, TypeOK, holds, visit

LEMMA RideReadBase ==
  ASSUME Base, NEW w \in Workers, NEW j \in Jobs, NEW anchor \in Jobs, RideRead(w, j, anchor)
  PROVE  Base'
<1> DEFINE r == [Idle EXCEPT !.step = "read", !.door = "ride", !.job = j, !.days = dayOf[anchor]]
<1>1. dayOf[anchor] \in SUBSET Days
  BY DEF Base, TypeOK
<1>2. r \in Request /\ r.step = "read" /\ r.job = j
  BY <1>1 DEF Idle, Request
<1>3. req' = [req EXCEPT ![w] = r]
  BY DEF RideRead, Serve
<1> HIDE DEF r
<1>4. req' \in [Workers -> Request] /\ Formed'
  BY <1>2, <1>3, ServeType
<1> QED
  BY <1>4 DEF RideRead, Base, TypeOK, holds, visit

LEMMA CancelReadBase ==
  ASSUME Base, NEW w \in Workers, NEW j \in Jobs, CancelRead(w, j)
  PROVE  Base'
<1> DEFINE r == [Idle EXCEPT !.step = "read", !.door = "cancel", !.job = j, !.own = eventOf[j]]
<1>1. eventOf[j] \in Events \cup {None}
  BY DEF Base, TypeOK
<1>2. r \in Request /\ r.step = "read" /\ r.job = j
  BY <1>1 DEF Idle, Request
<1>3. req' = [req EXCEPT ![w] = r]
  BY DEF CancelRead, Serve
<1> HIDE DEF r
<1>4. req' \in [Workers -> Request] /\ Formed'
  BY <1>2, <1>3, ServeType
<1> QED
  BY <1>4 DEF CancelRead, Base, TypeOK, holds, visit

LEMMA HoldBase ==
  ASSUME Base, NEW w \in Workers, Acquire(w) \/ Contend(w) \/ Release(w) \/ CalendarFails(w)
  PROVE  Base'
<1>r. req[w] \in Request
  BY DEF Base, TypeOK
<1>1. CASE Acquire(w)
  <2>1. req' \in [Workers -> Request] /\ Formed'
    BY <1>1, GotoType DEF Acquire
  <2> QED
    BY <1>1, <1>r, <2>1 DEF Acquire, Base, TypeOK, visit, Request
<1>2. CASE Contend(w)
  BY <1>2, DoneType DEF Contend, Base, TypeOK, holds, visit
<1>3. CASE Release(w)
  <2>1. req' \in [Workers -> Request] /\ Formed'
    BY <1>3, GotoType, DoneType DEF Release
  <2> QED
    BY <1>3, <1>r, <2>1 DEF Release, Base, TypeOK, visit, Request
<1>4. CASE CalendarFails(w)
  BY <1>4, GotoType DEF CalendarFails, Base, TypeOK, holds, visit
<1> QED
  BY <1>1, <1>2, <1>3, <1>4

LEMMA CheckBase ==
  ASSUME Base, NEW w \in Workers, Check(w)
  PROVE  Base'
<1> DEFINE s == IF req[w].force \/ Busy(w) = {} THEN "checked" ELSE "failing"
           r == [req[w] EXCEPT !.force = FALSE, !.scope = FALSE, !.step = s]
<1>1. req[w] \in Request /\ req[w].job \in Jobs
  BY DEF Base, TypeOK, Formed, Check
<1>2. s \in {"checked", "failing"}
  OBVIOUS
<1>3. req' = [req EXCEPT ![w] = r]
  BY DEF Check
<1> HIDE DEF s
<1>4. r \in Request /\ r.step # "idle" /\ r.step # "recorded" /\ r.job = req[w].job
  BY <1>1, <1>2 DEF Request
<1> HIDE DEF r
<1>5. req' \in [Workers -> Request] /\ Formed'
  BY <1>1, <1>3, <1>4, ServeType
<1> QED
  BY <1>1, <1>5 DEF Check, Base, TypeOK, holds, visit

LEMMA PlaceBase ==
  ASSUME Base, NEW w \in Workers, Place(w)
  PROVE  Base'
<1>1. req[w] \in Request /\ req[w].job \in Jobs
  BY DEF Base, TypeOK, Formed, Place, At
<1>2. PICK e \in Unused :
        /\ calendar' = [calendar EXCEPT ![e] =
                          [job |-> req[w].job, days |-> req[w].days, tech |-> req[w].tech]]
        /\ req' = [req EXCEPT ![w].event = e,
                              ![w].step = IF Booking(w) THEN "placed" ELSE "released"]
  BY DEF Place
<1>3. e \in Events
  BY DEF Unused
<1> DEFINE s == IF Booking(w) THEN "placed" ELSE "released"
           r == [req[w] EXCEPT !.event = e, !.step = s]
<1>4. s \in {"placed", "released"}
  OBVIOUS
<1>5. req' = [req EXCEPT ![w] = r]
  BY <1>2
<1> HIDE DEF s
<1>6. r \in Request /\ r.step # "idle" /\ r.step # "recorded" /\ r.job = req[w].job
  BY <1>1, <1>3, <1>4 DEF Request
<1> HIDE DEF r
<1>7. req' \in [Workers -> Request] /\ Formed'
  BY <1>1, <1>5, <1>6, ServeType
<1>8. calendar' \in [Events -> Entry]
  BY <1>1, <1>2 DEF Base, TypeOK, Entry, Request
<1> QED
  BY <1>1, <1>7, <1>8 DEF Place, Base, TypeOK, holds, visit

LEMMA MoveBase ==
  ASSUME Base, NEW w \in Workers, Move(w)
  PROVE  Base'
<1> DEFINE r == [req[w] EXCEPT !.own = None, !.step = "placed"]
<1>1. req[w] \in Request /\ req[w].job \in Jobs
  BY DEF Base, TypeOK, Formed, Move, At
<1>2. req' = [req EXCEPT ![w] = r]
  BY DEF Move
<1>3. r \in Request /\ r.step = "placed" /\ r.job = req[w].job
  BY <1>1 DEF Request
<1> HIDE DEF r
<1>4. req' \in [Workers -> Request] /\ Formed'
  BY <1>1, <1>2, <1>3, ServeType
<1>5. calendar' \in [Events -> Entry]
  <2> DEFINE o == req[w].own
             new == [calendar[o] EXCEPT !.days = req[w].days]
  <2>1. calendar' = [calendar EXCEPT ![o] = new]
    BY DEF Move
  <2>2. calendar \in [Events -> Entry] /\ req[w].days \in SUBSET Days
    BY <1>1 DEF Base, TypeOK, Request
  <2>3. o \in Events => new \in Entry
    BY <2>2 DEF Entry
  <2> HIDE DEF o, new
  <2> QED
    BY <2>1, <2>2, <2>3
<1> QED
  BY <1>4, <1>5 DEF Move, Base, TypeOK, holds, visit

LEMMA UnbookBase ==
  ASSUME Base, NEW w \in Workers, Unbook(w)
  PROVE  Base'
<1> DEFINE r == [req[w] EXCEPT !.own = None, !.step = "released"]
<1>1. req[w] \in Request /\ req[w].job \in Jobs
  BY DEF Base, TypeOK, Formed, Unbook, At
<1>2. req' = [req EXCEPT ![w] = r]
  BY DEF Unbook
<1>3. r \in Request /\ r.step = "released" /\ r.job = req[w].job
  BY <1>1 DEF Request
<1> HIDE DEF r
<1>4. req' \in [Workers -> Request] /\ Formed'
  BY <1>1, <1>2, <1>3, ServeType
<1>5. calendar' \in [Events -> Entry]
  BY DEF Unbook, Base, TypeOK, Entry, NoEntry
<1> QED
  BY <1>4, <1>5 DEF Unbook, Base, TypeOK, holds, visit

LEMMA RecordBase ==
  ASSUME Base, NEW w \in Workers, Record(w)
  PROVE  Base'
<1>1. req[w] \in Request /\ req[w].job \in Jobs
  BY DEF Base, TypeOK, Formed, Record
<1>2. /\ status' \in [Jobs -> {"contracted", "scheduled", "cancelled"}]
      /\ dayOf' \in [Jobs -> SUBSET Days] /\ eventOf' \in [Jobs -> Events \cup {None}]
  BY <1>1 DEF Record, Base, TypeOK, Request
<1>3. req' \in [Workers -> Request] /\ Formed'
  <2>1. CASE req[w].tech = None
    BY <2>1, DoneType DEF Record, ThenAssign
  <2>2. CASE req[w].tech # None
    <3> DEFINE r == [req[w] EXCEPT !.step = "recorded"]
    <3>1. req' = [req EXCEPT ![w] = r]
      BY <2>2 DEF Record, ThenAssign, Goto
    <3>2. r \in Request /\ r.job = req[w].job /\ r.tech \in Techs
      BY <1>1, <2>2 DEF Request
    <3> HIDE DEF r
    <3> QED
      BY <1>1, <3>1, <3>2, ServeType
  <2> QED
    BY <2>1, <2>2
<1> QED
  BY <1>2, <1>3 DEF Record, Base, TypeOK, holds

LEMMA AssignBase ==
  ASSUME Base, NEW w \in Workers, Assign(w)
  PROVE  Base'
<1> DEFINE j == req[w].job
           t == req[w].tech
           new == IF req[w].door = "reschedule" THEN <<t>>
                  ELSE IF \E i \in DOMAIN team[j] : team[j][i] = t THEN team[j]
                  ELSE Append(team[j], t)
<1>1. j \in Jobs /\ t \in Techs /\ team[j] \in Seq(Techs)
  BY DEF Assign, Base, TypeOK, Formed
<1>2. new \in Seq(Techs)
  BY <1>1
<1>3. team' = [team EXCEPT ![j] = new]
  BY DEF Assign
<1> HIDE DEF j, t, new
<1>4. team' \in [Jobs -> Seq(Techs)]
  BY <1>1, <1>2, <1>3 DEF Base, TypeOK
<1> QED
  BY <1>4, DoneType DEF Assign, Base, TypeOK, holds, visit

LEMMA StepBase == Base /\ [Next]_vars => Base'
<1> SUFFICES ASSUME Base, [Next]_vars PROVE Base'
  OBVIOUS
<1>1. ASSUME NEW w \in Workers, NEW j \in Jobs,
             ScheduleRead(w, j) \/ RescheduleRead(w, j) \/ CancelRead(w, j)
      PROVE  Base'
  BY <1>1, ScheduleReadBase, RescheduleReadBase, CancelReadBase
<1>2. ASSUME NEW w \in Workers, Step(w)
      PROVE  Base'
  BY <1>2, HoldBase, CheckBase, PlaceBase, MoveBase, UnbookBase, RecordBase, AssignBase DEF Step
<1>3. ASSUME NEW w \in Workers, Crash(w)
      PROVE  Base'
  BY <1>3, DoneType DEF Crash, Base, TypeOK, holds, visit
<1>4. ASSUME NEW d \in Days, Expire(d)
      PROVE  Base'
  BY <1>4 DEF Expire, Taken, Base, TypeOK, Formed, visit
<1>5. CASE UNCHANGED vars
  BY <1>5 DEF vars, holds, visit, Base, TypeOK, Formed
<1> QED
  BY <1>1, <1>2, <1>3, <1>4, <1>5, RideReadBase DEF Next

\* The type invariant, for every instance: no step puts a value in a row, in
\* the calendar or in a request that the code could not put there.
THEOREM TypeCorrect == Spec => []TypeOK
<1>1. Base => TypeOK
  BY DEF Base
<1> QED
  BY <1>1, InitBase, StepBase, PTL DEF Spec

-----------------------------------------------------------------------------
(* The claim.                                                              *)

\* A step that leaves the holds alone and gives no request a claim it did
\* not have keeps the claims apart.
LEMMA SameClaims ==
  ASSUME Base, OneWinsTheDay, UNCHANGED holds, NEW w \in Workers,
         \A v \in Workers \ {w} : req'[v] = req[v],
         Holding(w)' => Holding(w) /\ req'[w].days = req[w].days
  PROVE  OneWinsTheDay'
BY DEF OneWinsTheDay, Holding, Booking, Taken, holds

\* A request that is opened or over holds nothing.
LEMMA NoClaim ==
  ASSUME Base, OneWinsTheDay, UNCHANGED holds, NEW w \in Workers, NEW r \in Request,
         r.step \in {"idle", "read"}, req' = [req EXCEPT ![w] = r]
  PROVE  OneWinsTheDay'
<1>1. /\ \A v \in Workers \ {w} : req'[v] = req[v]
      /\ req'[w] = r
  BY DEF Base, TypeOK
<1> QED
  BY <1>1, SameClaims DEF Holding, Booking

LEMMA ReadClaim ==
  ASSUME Base, OneWinsTheDay, NEW w \in Workers, NEW j \in Jobs,
         \/ ScheduleRead(w, j) \/ RescheduleRead(w, j) \/ CancelRead(w, j)
         \/ \E anchor \in Jobs : RideRead(w, j, anchor)
  PROVE  OneWinsTheDay'
<1>1. PICK r : r.step = "read" /\ Serve(w, r)
  <2>1. CASE ScheduleRead(w, j)
    BY <2>1 DEF ScheduleRead, Idle
  <2>2. CASE RescheduleRead(w, j)
    BY <2>2 DEF RescheduleRead, Idle
  <2>3. CASE CancelRead(w, j)
    BY <2>3 DEF CancelRead, Idle
  <2>4. CASE \E anchor \in Jobs : RideRead(w, j, anchor)
    BY <2>4 DEF RideRead, Idle
  <2> QED
    BY <2>1, <2>2, <2>3, <2>4
<1>2. UNCHANGED holds
  BY DEF ScheduleRead, RescheduleRead, CancelRead, RideRead
<1>3. /\ \A v \in Workers \ {w} : req'[v] = req[v]
      /\ req'[w].step = "read"
  BY <1>1 DEF Serve, Base, TypeOK
<1> QED
  BY <1>2, <1>3, SameClaims DEF Holding

LEMMA AcquireClaim ==
  ASSUME Base, OneWinsTheDay, NEW w \in Workers, Acquire(w)
  PROVE  OneWinsTheDay'
<1>1. req \in [Workers -> Request] /\ stale \subseteq held
  BY DEF Base, TypeOK
<1>2. /\ \A v \in Workers \ {w} : req'[v] = req[v]
      /\ req'[w].days = req[w].days
  BY <1>1 DEF Acquire, Goto, Request
<1>3. Taken' = Taken \cup req[w].days
  BY DEF Acquire, Taken
<1>4. req[w].days \cap Taken = {}
  BY DEF Acquire
<1>5. \A v \in Workers \ {w} :
        Holding(v)' => Holding(v) /\ req'[v].days = req[v].days /\ req[v].days \subseteq Taken
  BY <1>2 DEF OneWinsTheDay, Holding, Booking
<1> QED
  BY <1>2, <1>3, <1>4, <1>5 DEF OneWinsTheDay

LEMMA ReleaseClaim ==
  ASSUME Base, OneWinsTheDay, NEW w \in Workers, Release(w)
  PROVE  OneWinsTheDay'
<1>1. req \in [Workers -> Request]
  BY DEF Base, TypeOK
<1>2. Holding(w)
  BY DEF Release, Holding
<1>3. /\ \A v \in Workers \ {w} : req'[v] = req[v]
      /\ ~Holding(w)'
  BY <1>1 DEF Release, Goto, Done, Holding, Idle, Request, Booking
<1>4. Taken' = Taken \ req[w].days
  BY DEF Release, Taken
<1>5. \A v \in Workers \ {w} :
        Holding(v)' => /\ Holding(v) /\ req'[v].days = req[v].days
                       /\ req[v].days \subseteq Taken /\ req[v].days \cap req[w].days = {}
  BY <1>2, <1>3 DEF OneWinsTheDay, Holding, Booking
<1> QED
  BY <1>3, <1>4, <1>5 DEF OneWinsTheDay

\* The steps between claim and release, and those of a request without one.
LEMMA StepClaim ==
  ASSUME Base, OneWinsTheDay, NEW w \in Workers, Step(w)
  PROVE  OneWinsTheDay'
<1>1. req \in [Workers -> Request]
  BY DEF Base, TypeOK
<1>2. CASE Contend(w) \/ Record(w) \/ Assign(w)
  <2>1. UNCHANGED holds /\ (Done(w) \/ Goto(w, "recorded"))
    BY <1>2 DEF Contend, Record, ThenAssign, Assign
  <2>2. CASE Done(w)
    BY <2>1, <2>2, IdleType, NoClaim DEF Done, Idle
  <2>3. CASE Goto(w, "recorded")
    <3>1. /\ \A v \in Workers \ {w} : req'[v] = req[v]
          /\ req'[w].step = "recorded"
      BY <1>1, <2>3 DEF Goto, Request
    <3> QED
      BY <2>1, <3>1, SameClaims DEF Holding
  <2> QED
    BY <2>1, <2>2, <2>3
<1>3. CASE Check(w) \/ CalendarFails(w)
  <2>1. UNCHANGED holds /\ Holding(w)
    BY <1>3 DEF Check, CalendarFails, Holding
  <2>2. CASE Check(w)
    <3>1. /\ \A v \in Workers \ {w} : req'[v] = req[v]
          /\ req'[w].days = req[w].days
      BY <1>1, <2>2 DEF Check, Request
    <3> QED
      BY <2>1, <3>1, SameClaims
  <2>3. CASE CalendarFails(w)
    <3>1. /\ \A v \in Workers \ {w} : req'[v] = req[v]
          /\ req'[w].days = req[w].days
      BY <1>1, <2>3 DEF CalendarFails, Goto, Request
    <3> QED
      BY <2>1, <3>1, SameClaims
  <2> QED
    BY <1>3, <2>2, <2>3
<1>4. CASE Place(w)
  <2>1. PICK e \in Unused :
          req' = [req EXCEPT ![w].event = e,
                             ![w].step = IF Booking(w) THEN "placed" ELSE "released"]
    BY <1>4 DEF Place
  <2>2. /\ UNCHANGED holds
        /\ \A v \in Workers \ {w} : req'[v] = req[v]
        /\ req'[w].days = req[w].days /\ req'[w].door = req[w].door
        /\ req'[w].step = IF Booking(w) THEN "placed" ELSE "released"
    BY <1>1, <1>4, <2>1 DEF Place, Request
  <2>3. Holding(w)' => Holding(w)
    BY <1>4, <2>2 DEF Holding, Place, At, Booking
  <2> QED
    BY <2>2, <2>3, SameClaims
<1>5. CASE Move(w)
  <2>1. UNCHANGED holds /\ Holding(w)
    BY <1>5 DEF Move, At, Holding, Booking
  <2>2. /\ \A v \in Workers \ {w} : req'[v] = req[v]
        /\ req'[w].days = req[w].days
    BY <1>1, <1>5 DEF Move, Request
  <2> QED
    BY <2>1, <2>2, SameClaims
<1>6. CASE Unbook(w)
  <2>1. /\ UNCHANGED holds
        /\ \A v \in Workers \ {w} : req'[v] = req[v]
        /\ req'[w].step = "released"
    BY <1>1, <1>6 DEF Unbook, Request
  <2> QED
    BY <2>1, SameClaims DEF Holding
<1> QED
  BY <1>2, <1>3, <1>4, <1>5, <1>6, AcquireClaim, ReleaseClaim DEF Step

LEMMA NextClaim == Prompt => (Base /\ OneWinsTheDay /\ [Next]_vars => OneWinsTheDay')
<1> SUFFICES ASSUME Prompt, Base, OneWinsTheDay, [Next]_vars PROVE OneWinsTheDay'
  OBVIOUS
<1>1. ASSUME NEW w \in Workers, Crash(w)
      PROVE  OneWinsTheDay'
  BY <1>1, IdleType, NoClaim DEF Crash, Done, Idle
<1>2. ASSUME NEW d \in Days, Expire(d)
      PROVE  OneWinsTheDay'
  BY <1>2 DEF Prompt, Expire, OneWinsTheDay, Holding, Booking, Taken
<1>3. CASE UNCHANGED vars
  BY <1>3 DEF vars, holds, OneWinsTheDay, Holding, Booking, Taken
<1> QED
  BY <1>1, <1>2, <1>3, ReadClaim, StepClaim DEF Next

\* Of the bookings in progress exactly one has a day, and no other request
\* takes it away from it, as long as a booking is done within the TTL.
THEOREM OneWinnerPerDay == ASSUME Prompt PROVE Spec => []OneWinsTheDay
<1>1. Init => OneWinsTheDay
  BY DEF Init, OneWinsTheDay, Holding, Booking, Idle
<1>2. Base /\ OneWinsTheDay /\ [Next]_vars => OneWinsTheDay'
  BY NextClaim
<1> QED
  BY <1>1, <1>2, InitBase, StepBase, PTL DEF Spec

-----------------------------------------------------------------------------
(* The calendar.  What keeps a technician's bookings apart is that the     *)
(* check made under the claim still holds when the event is written: other *)
(* bookings write to other days, and what people put there by hand is      *)
(* counted against them.                                                   *)

\* The CRM's rescheduling may read one technician's calendar and move an
\* event that is on another's.
ByAgents == "crm_reschedule" \notin Doors

\* An event referred to is the job's own, and a job under contract has none.
Linked ==
  /\ \A j \in Jobs : (eventOf[j] # None /\ Live(eventOf[j])) => calendar[eventOf[j]].job = j
  /\ \A w \in Workers :
       /\ (req[w].own # None /\ Live(req[w].own)) => calendar[req[w].own].job = req[w].job
       /\ (req[w].event # None /\ Live(req[w].event)) => calendar[req[w].event].job = req[w].job
Unbooked == \A j \in Jobs : status[j] = "contracted" => eventOf[j] = None

\* What a request of each door knows.
Shaped == \A w \in Workers :
  /\ req[w].door = "schedule" => req[w].own = None /\ ~req[w].scope
  /\ req[w].door \in {"reschedule", "ride", "cancel"} => req[w].tech = None /\ ~req[w].scope
  /\ (req[w].door = "reschedule" /\ req[w].step \in {"read", "held", "checked"})
       => req[w].own \in Events

\* Event f is in the way of what w is about to write.
Clash(w, f) ==
  /\ Live(f) /\ calendar[f].tech # None /\ calendar[f].job \notin byHand
  /\ calendar[f].days \cap req[w].days # {}
  /\ \/ req[w].door = "schedule" /\ calendar[f].tech = req[w].tech
     \/ /\ req[w].door = "reschedule" /\ Live(req[w].own) /\ f # req[w].own
        /\ calendar[f].tech = calendar[req[w].own].tech
Vetted == \A w \in Workers :
  (Booking(w) /\ req[w].step = "checked" /\ req[w].job \notin byHand)
    => \A f \in Events : ~Clash(w, f)

\* A step of a request leaves the others alone, and only ever forgets.
LEMMA StepFrame ==
  ASSUME Base, NEW w \in Workers, Step(w) \/ Crash(w)
  PROVE  /\ \A v \in Workers \ {w} : req'[v] = req[v]
         /\ \/ req'[w] = Idle
            \/ /\ req'[w].door = req[w].door /\ req'[w].job = req[w].job
               /\ req'[w].days = req[w].days /\ req'[w].tech = req[w].tech
               /\ req'[w].own \in {req[w].own, None} /\ req'[w].scope \in {req[w].scope, FALSE}
               /\ Place(w) \/ req'[w].event = req[w].event
         /\ req'[w].step \in {"read", "held", "checked"} =>
              /\ req[w].step \in {"read", "held"} /\ req'[w].own = req[w].own
              /\ req'[w].step = "checked" => Check(w)
<1>1. req \in [Workers -> Request]
  BY DEF Base, TypeOK
<1>2. CASE Done(w)
  BY <1>1, <1>2 DEF Done, Idle
<1>3. CASE \E step \in {"recorded", "released", "failing"} : Goto(w, step)
  BY <1>1, <1>3 DEF Goto, Request
<1>4. CASE Acquire(w)
  BY <1>1, <1>4 DEF Acquire, Goto, Request
<1>5. CASE Check(w)
  BY <1>1, <1>5 DEF Check, Request
<1>6. CASE Place(w)
  <2>1. PICK e \in Unused :
          req' = [req EXCEPT ![w].event = e,
                             ![w].step = IF Booking(w) THEN "placed" ELSE "released"]
    BY <1>6 DEF Place
  <2> QED
    BY <1>1, <1>6, <2>1 DEF Request
<1>7. CASE Move(w)
  BY <1>1, <1>7 DEF Move, Request
<1>8. CASE Unbook(w)
  BY <1>1, <1>8 DEF Unbook, Request
<1> QED
  BY <1>2, <1>3, <1>4, <1>5, <1>6, <1>7, <1>8
  DEF Step, Crash, Contend, CalendarFails, Release, Record, ThenAssign, Assign

\* Opening a request.
ReadFrom(w, j, r) ==
  /\ Serve(w, r)
  /\ UNCHANGED <<holds, calendar, visit, team, byHand>>
  /\ r.step = "read" /\ r.job = j /\ r.event = None /\ r.own \in {None, eventOf[j]}
  /\ r.door = "schedule" => status[j] = "contracted" /\ ~r.scope
  /\ r.door \in {"reschedule", "ride", "cancel"} => r.tech = None /\ ~r.scope
  /\ r.door = "reschedule" => r.own \in Events

LEMMA ReadFrame ==
  ASSUME ByAgents, Base, NEW w \in Workers, NEW j \in Jobs,
         \/ ScheduleRead(w, j) \/ RescheduleRead(w, j) \/ CancelRead(w, j)
         \/ \E anchor \in Jobs : RideRead(w, j, anchor)
  PROVE  \E r : ReadFrom(w, j, r)
<1>1. CASE ScheduleRead(w, j)
  <2>1. PICK b \in Blocks, t \in Techs \cup {None}, f \in BOOLEAN :
          Serve(w, [Idle EXCEPT !.step = "read", !.door = "schedule", !.job = j, !.days = b,
                                !.tech = t, !.own = eventOf[j], !.force = f])
    BY <1>1 DEF ScheduleRead
  <2> DEFINE r == [Idle EXCEPT !.step = "read", !.door = "schedule", !.job = j, !.days = b,
                               !.tech = t, !.own = eventOf[j], !.force = f]
  <2>2. /\ r.step = "read" /\ r.door = "schedule" /\ r.job = j /\ r.event = None
        /\ r.own = eventOf[j] /\ ~r.scope
    BY DEF Idle
  <2>3. ReadFrom(w, j, r)
    BY <1>1, <2>1, <2>2 DEF ScheduleRead, ReadFrom
  <2> QED
    BY <2>3
<1>2. CASE RescheduleRead(w, j)
  <2>1. PICK b \in Blocks :
          Serve(w, [Idle EXCEPT !.step = "read", !.door = "reschedule", !.job = j, !.days = b,
                                !.tech = None, !.scope = FALSE, !.own = eventOf[j], !.force = FALSE])
    BY <1>2 DEF RescheduleRead, ByAgents
  <2> DEFINE r == [Idle EXCEPT !.step = "read", !.door = "reschedule", !.job = j, !.days = b,
                               !.tech = None, !.scope = FALSE, !.own = eventOf[j], !.force = FALSE]
  <2>2. eventOf[j] \in Events
    BY <1>2 DEF RescheduleRead, Base, TypeOK
  <2>3. /\ r.step = "read" /\ r.door = "reschedule" /\ r.job = j /\ r.event = None
        /\ r.own = eventOf[j] /\ r.tech = None /\ ~r.scope
    BY DEF Idle
  <2>4. ReadFrom(w, j, r)
    BY <1>2, <2>1, <2>2, <2>3 DEF RescheduleRead, ReadFrom
  <2> QED
    BY <2>4
<1>3. CASE CancelRead(w, j)
  <2> DEFINE r == [Idle EXCEPT !.step = "read", !.door = "cancel", !.job = j, !.own = eventOf[j]]
  <2>1. ReadFrom(w, j, r)
    BY <1>3 DEF CancelRead, ReadFrom, Idle
  <2> QED
    BY <2>1
<1>4. CASE \E anchor \in Jobs : RideRead(w, j, anchor)
  <2>1. PICK anchor \in Jobs : RideRead(w, j, anchor)
    BY <1>4
  <2> DEFINE r == [Idle EXCEPT !.step = "read", !.door = "ride", !.job = j, !.days = dayOf[anchor]]
  <2>2. ReadFrom(w, j, r)
    BY <2>1 DEF RideRead, ReadFrom, Idle
  <2> QED
    BY <2>2
<1> QED
  BY <1>1, <1>2, <1>3, <1>4

LEMMA UnbookedNext == Base /\ Unbooked /\ [Next]_vars => Unbooked'
<1> SUFFICES ASSUME Base, Unbooked, [Next]_vars PROVE Unbooked'
  OBVIOUS
<1>1. CASE UNCHANGED visit
  BY <1>1 DEF Unbooked, visit
<1>2. ASSUME NEW w \in Workers, Record(w)
      PROVE  Unbooked'
  BY <1>2 DEF Record, Unbooked, Base, TypeOK, Formed
<1>3. (\E w \in Workers : Record(w)) \/ UNCHANGED visit
  BY DEF Next, Step, vars, ScheduleRead, RescheduleRead, CancelRead, RideRead, Acquire, Contend,
         Check, Place, Move, CalendarFails, Release, Unbook, Assign, Crash, Expire
<1> QED
  BY <1>1, <1>2, <1>3

\* The steps as ReadFrame and StepFrame see them.
LEMMA NextSplit ==
  ASSUME [Next]_vars
  PROVE  \/ \E w \in Workers, j \in Jobs :
              \/ ScheduleRead(w, j) \/ RescheduleRead(w, j) \/ CancelRead(w, j)
              \/ \E anchor \in Jobs : RideRead(w, j, anchor)
         \/ \E w \in Workers : Step(w) \/ Crash(w)
         \/ UNCHANGED <<calendar, visit, team, req, byHand>>
BY DEF Next, vars, Expire

LEMMA ShapedNext == ByAgents => (Base /\ Unbooked /\ Shaped /\ [Next]_vars => Shaped')
<1> SUFFICES ASSUME ByAgents, Base, Unbooked, Shaped, [Next]_vars PROVE Shaped'
  OBVIOUS
<1>1. req \in [Workers -> Request]
  BY DEF Base, TypeOK
<1>2. ASSUME NEW w \in Workers, NEW j \in Jobs, NEW r, ReadFrom(w, j, r)
      PROVE  Shaped'
  <2>1. r.door = "schedule" => r.own = None /\ ~r.scope
    BY <1>2 DEF ReadFrom, Unbooked
  <2>2. req' = [req EXCEPT ![w] = r]
    BY <1>2 DEF ReadFrom, Serve
  <2>3. /\ r.door \in {"reschedule", "ride", "cancel"} => r.tech = None /\ ~r.scope
        /\ r.door = "reschedule" => r.own \in Events
    BY <1>2 DEF ReadFrom
  <2>4. req'[w] = r /\ \A v \in Workers \ {w} : req'[v] = req[v]
    BY <1>1, <2>2
  <2> QED
    BY <2>1, <2>3, <2>4 DEF Shaped
<1>3. ASSUME NEW w \in Workers, Step(w) \/ Crash(w)
      PROVE  Shaped'
  <2>1. \A v \in Workers \ {w} : req'[v] = req[v]
    BY <1>3, StepFrame
  <2>2. CASE req'[w] = Idle
    BY <2>1, <2>2 DEF Shaped, Idle
  <2>3. CASE req'[w] # Idle
    <3>1. /\ req'[w].door = req[w].door /\ req'[w].tech = req[w].tech
          /\ req'[w].own \in {req[w].own, None} /\ req'[w].scope \in {req[w].scope, FALSE}
          /\ req'[w].step \in {"read", "held", "checked"} =>
               req[w].step \in {"read", "held"} /\ req'[w].own = req[w].own
      BY <1>3, <2>3, StepFrame
    <3> QED
      BY <2>1, <3>1 DEF Shaped
  <2> QED
    BY <2>2, <2>3
<1>4. CASE UNCHANGED req
  BY <1>4 DEF Shaped
<1> QED
  BY <1>2, <1>3, <1>4, ReadFrame, NextSplit

LEMMA LinkedRead ==
  ASSUME Base, Linked, NEW w \in Workers, NEW j \in Jobs, NEW r, ReadFrom(w, j, r)
  PROVE  Linked'
<1>1. req' = [req EXCEPT ![w] = r] /\ r.job = j /\ r.event = None /\ r.own \in {None, eventOf[j]}
  BY DEF ReadFrom, Serve
<1>2. req'[w] = r /\ \A v \in Workers \ {w} : req'[v] = req[v]
  BY <1>1 DEF Base, TypeOK
<1>3. UNCHANGED <<calendar, eventOf>>
  BY DEF ReadFrom, visit
<1> QED
  BY <1>1, <1>2, <1>3 DEF Linked, Live

\* A request that ends, or goes on with what it had.
LEMMA LinkedOn ==
  ASSUME Base, Linked, NEW w \in Workers, Step(w) \/ Crash(w), ~Place(w), UNCHANGED calendar,
         UNCHANGED eventOf
  PROVE  Linked'
<1>1. \A v \in Workers \ {w} : req'[v] = req[v]
  BY StepFrame
<1>2. CASE req'[w] = Idle
  BY <1>1, <1>2 DEF Linked, Live, Idle
<1>3. CASE req'[w] # Idle
  <2>1. /\ req'[w].job = req[w].job /\ req'[w].event = req[w].event
        /\ req'[w].own \in {req[w].own, None}
    BY <1>3, StepFrame
  <2> QED
    BY <1>1, <2>1 DEF Linked, Live
<1> QED
  BY <1>2, <1>3

LEMMA LinkedPlace ==
  ASSUME Base, Linked, NEW w \in Workers, Place(w)
  PROVE  Linked'
<1>1. PICK e \in Unused :
        /\ calendar' = [calendar EXCEPT ![e] =
                          [job |-> req[w].job, days |-> req[w].days, tech |-> req[w].tech]]
        /\ req' = [req EXCEPT ![w].event = e,
                              ![w].step = IF Booking(w) THEN "placed" ELSE "released"]
  BY DEF Place
<1>2. req \in [Workers -> Request] /\ calendar \in [Events -> Entry]
  BY DEF Base, TypeOK
<1>3. /\ e \in Events /\ \A j \in Jobs : eventOf[j] # e
      /\ \A v \in Workers : req[v].own # e /\ req[v].event # e
  BY DEF Unused
<1>4. /\ req'[w].job = req[w].job /\ req'[w].own = req[w].own /\ req'[w].event = e
      /\ \A v \in Workers \ {w} : req'[v] = req[v]
  BY <1>1, <1>2 DEF Request
<1>5. calendar'[e].job = req[w].job /\ \A f \in Events \ {e} : calendar'[f] = calendar[f]
  BY <1>1, <1>2, <1>3
<1>6. UNCHANGED eventOf /\ eventOf \in [Jobs -> Events \cup {None}]
  BY DEF Place, visit, Base, TypeOK
<1>7. \A v \in Workers : req[v].own \in Events \cup {None} /\ req[v].event \in Events \cup {None}
  BY <1>2 DEF Request
<1>8. \A f \in Events \ {e} : Live(f)' <=> Live(f)
  BY <1>5 DEF Live
<1> QED
  BY <1>3, <1>4, <1>5, <1>6, <1>7, <1>8 DEF Linked

LEMMA LinkedMove ==
  ASSUME Base, Linked, NEW w \in Workers, Move(w) \/ Unbook(w)
  PROVE  Linked'
<1>1. req \in [Workers -> Request] /\ calendar \in [Events -> Entry]
  BY DEF Base, TypeOK
<1>2. /\ \A v \in Workers \ {w} : req'[v] = req[v]
      /\ req'[w].job = req[w].job /\ req'[w].own = None /\ req'[w].event = req[w].event
  BY <1>1 DEF Move, Unbook, Request
<1>3. UNCHANGED eventOf
  BY DEF Move, Unbook, visit
<1>4. \A f \in Events : Live(f)' => Live(f) /\ calendar'[f].job = calendar[f].job
  BY <1>1 DEF Move, Unbook, Live, Entry, NoEntry
<1>5. \A v \in Workers : req[v].own \in Events \cup {None} /\ req[v].event \in Events \cup {None}
  BY <1>1 DEF Request
<1>6. eventOf \in [Jobs -> Events \cup {None}]
  BY DEF Base, TypeOK
<1> QED
  BY <1>2, <1>3, <1>4, <1>5, <1>6 DEF Linked

LEMMA LinkedRecord ==
  ASSUME Base, Linked, NEW w \in Workers, Record(w)
  PROVE  Linked'
<1>1. /\ \A v \in Workers \ {w} : req'[v] = req[v]
      /\ \/ req'[w] = Idle
         \/ /\ req'[w].job = req[w].job /\ req'[w].event = req[w].event
            /\ req'[w].own \in {req[w].own, None}
  BY StepFrame DEF Step, Record, Place, At, Booking
<1>2. UNCHANGED calendar
  BY DEF Record
<1>3. req[w].job \in Jobs /\ eventOf \in [Jobs -> Events \cup {None}]
  BY DEF Base, TypeOK, Formed, Record
<1>4. \A j \in Jobs : eventOf'[j] \in {eventOf[j], None} \/ (j = req[w].job /\ eventOf'[j] = req[w].event)
  BY <1>3 DEF Record
<1> QED
  BY <1>1, <1>2, <1>4 DEF Linked, Live, Idle

LEMMA LinkedNext == ByAgents => (Base /\ Linked /\ [Next]_vars => Linked')
<1> SUFFICES ASSUME ByAgents, Base, Linked, [Next]_vars PROVE Linked'
  OBVIOUS
<1>1. ASSUME NEW w \in Workers, Step(w) \/ Crash(w)
      PROVE  Linked'
  <2>1. CASE Place(w) \/ Move(w) \/ Unbook(w) \/ Record(w)
    BY <2>1, LinkedPlace, LinkedMove, LinkedRecord
  <2>2. CASE ~(Place(w) \/ Move(w) \/ Unbook(w) \/ Record(w))
    <3>1. UNCHANGED calendar /\ UNCHANGED eventOf
      BY <1>1, <2>2 DEF Step, visit, Acquire, Contend, Check, CalendarFails, Release, Assign, Crash
    <3> QED
      BY <1>1, <2>2, <3>1, LinkedOn
  <2> QED
    BY <2>1, <2>2
<1>2. CASE UNCHANGED <<calendar, visit, team, req, byHand>>
  BY <1>2 DEF Linked, Live, visit
<1> QED
  BY <1>1, <1>2, ReadFrame, LinkedRead, NextSplit

\* What the other bookings have vetted stays vetted if the step puts nothing
\* in their way.
LEMMA OthersVetted ==
  ASSUME Vetted, NEW w \in Workers, \A v \in Workers \ {w} : req'[v] = req[v],
         req'[w].step # "checked", byHand \subseteq byHand',
         \A v \in Workers \ {w}, f \in Events :
           (Booking(v) /\ req[v].step = "checked" /\ Clash(v, f)') => Clash(v, f)
  PROVE  Vetted'
BY DEF Vetted, Booking

LEMMA SameCalendar ==
  ASSUME UNCHANGED calendar, byHand \subseteq byHand', NEW v \in Workers, req'[v] = req[v],
         NEW f \in Events, Clash(v, f)'
  PROVE  Clash(v, f)
BY DEF Clash, Live

\* A check that finds nobody in the way: the look-alikes it passes over are
\* the job's own event or, already, on another day than it.
LEMMA CheckVets ==
  ASSUME Base, Shaped, Linked, TechsApart, Vetted, NEW w \in Workers, Check(w)
  PROVE  Vetted'
<1>1. req \in [Workers -> Request] /\ calendar \in [Events -> Entry]
  BY DEF Base, TypeOK
<1>2. /\ \A v \in Workers \ {w} : req'[v] = req[v]
      /\ req'[w].door = req[w].door /\ req'[w].days = req[w].days /\ req'[w].tech = req[w].tech
      /\ req'[w].own = req[w].own /\ req'[w].job = req[w].job
      /\ req'[w].step = IF req[w].force \/ Busy(w) = {} THEN "checked" ELSE "failing"
  BY <1>1 DEF Check, Request
<1>3. UNCHANGED calendar /\ byHand \subseteq byHand' /\ (req[w].force => req[w].job \in byHand')
  BY DEF Check
<1>4. ASSUME Booking(w), Busy(w) = {}, req[w].job \notin byHand, NEW f \in Events, Clash(w, f)
      PROVE  FALSE
  <2>1. CASE req[w].door = "schedule"
    <3>1. calendar[f].tech = req[w].tech /\ calendar[f].tech # None
      BY <1>4, <2>1 DEF Clash
    <3>2. Reads(w) = req[w].tech /\ ~LooksLikeOwn(w, f)
      BY <2>1, <3>1 DEF Shaped, Reads, LooksLikeOwn
    <3>3. f \in Busy(w)
      BY <1>4, <3>1, <3>2 DEF Busy, On, Clash
    <3> QED
      BY <1>4, <3>3
  <2>2. CASE req[w].door = "reschedule"
    <3> DEFINE o == req[w].own
    <3>1. req[w].tech = None /\ ~req[w].scope /\ o \in Events
      BY <2>2 DEF Shaped, Check
    <3>2. Reads(w) = None
      BY <3>1 DEF Reads
    <3>3. /\ Live(f) /\ Live(o) /\ f # o /\ calendar[f].days \cap req[w].days # {}
          /\ calendar[f].tech = calendar[o].tech /\ calendar[f].tech # None
          /\ calendar[f].job \notin byHand
      BY <1>4, <2>2 DEF Clash
    <3>4. LooksLikeOwn(w, f)
      BY <1>4, <3>2, <3>3 DEF Busy, On
    <3>5. calendar[f].days = calendar[o].days
      BY <3>4 DEF LooksLikeOwn
    <3>6. calendar[o].job = req[w].job
      BY <3>1, <3>3, NoneAssumption DEF Linked
    <3>7. calendar[o].days \cap calendar[f].days = {}
      BY <1>4, <3>1, <3>3, <3>6 DEF TechsApart
    <3> QED
      BY <3>3, <3>5, <3>7 DEF Live
  <2> QED
    BY <1>4, <2>1, <2>2 DEF Booking
<1>5. \A f \in Events : Clash(w, f)' => Clash(w, f)
  BY <1>2, <1>3 DEF Clash, Live
<1>6. ASSUME NEW v \in Workers, (Booking(v) /\ req[v].step = "checked" /\ req[v].job \notin byHand)',
             NEW f \in Events, Clash(v, f)'
      PROVE  FALSE
  <2>1. CASE v = w
    BY <1>2, <1>3, <1>4, <1>5, <1>6, <2>1 DEF Booking
  <2>2. CASE v # w
    BY <1>2, <1>3, <1>6, <2>2, SameCalendar DEF Vetted, Booking
  <2> QED
    BY <2>1, <2>2
<1> QED
  BY <1>6 DEF Vetted

LEMMA PlaceVets ==
  ASSUME Base, OneWinsTheDay, Shaped, Vetted, NEW w \in Workers, Place(w)
  PROVE  Vetted'
<1>1. PICK e \in Unused :
        /\ calendar' = [calendar EXCEPT ![e] =
                          [job |-> req[w].job, days |-> req[w].days, tech |-> req[w].tech]]
        /\ req' = [req EXCEPT ![w].event = e,
                              ![w].step = IF Booking(w) THEN "placed" ELSE "released"]
  BY DEF Place
<1>2. req \in [Workers -> Request] /\ calendar \in [Events -> Entry]
  BY DEF Base, TypeOK
<1>3. e \in Events /\ \A v \in Workers : req[v].own # e
  BY DEF Unused
<1>4. /\ \A v \in Workers \ {w} : req'[v] = req[v]
      /\ req'[w].step # "checked"
  BY <1>1, <1>2 DEF Request
<1>5. /\ calendar'[e].days = req[w].days /\ calendar'[e].tech = req[w].tech
      /\ \A f \in Events \ {e} : calendar'[f] = calendar[f]
  BY <1>1, <1>2, <1>3
<1>6. byHand \subseteq byHand'
  BY DEF Place
<1>7. ASSUME NEW v \in Workers \ {w}, NEW f \in Events,
             Booking(v), req[v].step = "checked", Clash(v, f)'
      PROVE  Clash(v, f)
  <2>1. req'[v] = req[v] /\ Holding(v)
    BY <1>4, <1>7 DEF Holding
  <2>2. CASE f = e
    <3>1. req[w].tech # None /\ req[w].days \cap req[v].days # {}
      BY <1>5, <1>7, <2>1, <2>2 DEF Clash
    <3>2. Holding(w)
      BY <3>1 DEF Place, At, Shaped, Holding, Booking
    <3> QED
      BY <2>1, <3>1, <3>2 DEF OneWinsTheDay
  <2>3. CASE f # e
    <3>1. req[v].door = "reschedule" =>
            req[v].own \in Events /\ calendar'[req[v].own] = calendar[req[v].own]
      BY <1>3, <1>5, <1>7 DEF Shaped
    <3>2. calendar'[f] = calendar[f]
      BY <1>5, <2>3
    <3> QED
      BY <1>6, <1>7, <2>1, <3>1, <3>2 DEF Clash, Live
  <2> QED
    BY <2>2, <2>3
<1> QED
  BY <1>4, <1>6, <1>7, OthersVetted

\* What Move and Unbook do to the calendar, seen from an event.
LEMMA MoveFrame ==
  ASSUME Base, Shaped, NEW w \in Workers, Move(w)
  PROVE  /\ req[w].own \in Events /\ Live(req[w].own)
         /\ calendar'[req[w].own].days = req[w].days
         /\ calendar'[req[w].own].tech = calendar[req[w].own].tech
         /\ calendar'[req[w].own].job = calendar[req[w].own].job
         /\ \A f \in Events \ {req[w].own} : calendar'[f] = calendar[f]
         /\ \A v \in Workers \ {w} : req'[v] = req[v]
         /\ req'[w].step # "checked" /\ byHand' = byHand
<1>1. req \in [Workers -> Request] /\ calendar \in [Events -> Entry]
  BY DEF Base, TypeOK
<1>2. req[w].own \in Events /\ Live(req[w].own)
  BY DEF Move, At, Shaped
<1> QED
  BY <1>1, <1>2 DEF Move, Request, Entry

LEMMA MoveVets ==
  ASSUME Base, OneWinsTheDay, Shaped, Vetted, NEW w \in Workers, Move(w)
  PROVE  Vetted'
<1> DEFINE o == req[w].own
<1>1. /\ o \in Events /\ Live(o)
      /\ calendar'[o].days = req[w].days /\ calendar'[o].tech = calendar[o].tech
      /\ \A f \in Events \ {o} : calendar'[f] = calendar[f]
      /\ \A v \in Workers \ {w} : req'[v] = req[v]
      /\ req'[w].step # "checked" /\ byHand' = byHand
  BY MoveFrame
<1>2. Holding(w)
  BY DEF Move, At, Holding, Booking
<1> HIDE DEF o
<1>3. ASSUME NEW v \in Workers \ {w}, NEW f \in Events,
             Booking(v), req[v].step = "checked", Clash(v, f)'
      PROVE  Clash(v, f)
  <2>1. req'[v] = req[v] /\ Holding(v)
    BY <1>1, <1>3 DEF Holding
  <2>2. CASE f = o
    <3>1. req[w].days \cap req[v].days # {}
      BY <1>1, <1>3, <2>1, <2>2 DEF Clash
    <3> QED
      BY <1>2, <2>1, <3>1 DEF OneWinsTheDay
  <2>3. CASE f # o
    <3>1. req[v].door = "reschedule" =>
            /\ Live(req[v].own)' => Live(req[v].own)
            /\ calendar'[req[v].own].tech = calendar[req[v].own].tech
      <4>1. req[v].door = "reschedule" => req[v].own \in Events
        BY <1>3 DEF Shaped
      <4> QED
        BY <1>1, <4>1 DEF Live
    <3>2. calendar'[f] = calendar[f]
      BY <1>1, <2>3
    <3> QED
      BY <1>1, <1>3, <2>1, <3>1, <3>2 DEF Clash, Live
  <2> QED
    BY <2>2, <2>3
<1> QED
  BY <1>1, <1>3, OthersVetted

LEMMA UnbookFrame ==
  ASSUME Base, NEW w \in Workers, Unbook(w)
  PROVE  /\ \A f \in Events : calendar'[f] = calendar[f] \/ ~Live(f)'
         /\ \A v \in Workers \ {w} : req'[v] = req[v]
         /\ req'[w].step # "checked" /\ byHand' = byHand
<1>1. req \in [Workers -> Request] /\ calendar \in [Events -> Entry]
  BY DEF Base, TypeOK
<1> QED
  BY <1>1 DEF Unbook, Request, Live, NoEntry

LEMMA UnbookVets ==
  ASSUME Base, Shaped, Vetted, NEW w \in Workers, Unbook(w)
  PROVE  Vetted'
<1>1. /\ \A f \in Events : calendar'[f] = calendar[f] \/ ~Live(f)'
      /\ \A v \in Workers \ {w} : req'[v] = req[v]
      /\ req'[w].step # "checked" /\ byHand' = byHand
  BY UnbookFrame
<1>2. ASSUME NEW v \in Workers \ {w}, NEW f \in Events,
             Booking(v), req[v].step = "checked", Clash(v, f)'
      PROVE  Clash(v, f)
  <2>1. req[v].door = "reschedule" => req[v].own \in Events
    BY <1>2 DEF Shaped
  <2> QED
    BY <1>1, <1>2, <2>1 DEF Clash, Live
<1> QED
  BY <1>1, <1>2, OthersVetted

\* Opening a request, or a step that writes nothing to the calendar.
LEMMA ReadVets ==
  ASSUME Base, Vetted, NEW w \in Workers, NEW j \in Jobs, NEW r, ReadFrom(w, j, r)
  PROVE  Vetted'
<1>1. UNCHANGED calendar /\ byHand' = byHand /\ r.step = "read" /\ req' = [req EXCEPT ![w] = r]
  BY DEF ReadFrom, Serve
<1>2. /\ \A v \in Workers \ {w} : req'[v] = req[v]
      /\ req'[w].step # "checked"
  BY <1>1 DEF Base, TypeOK
<1> QED
  BY <1>1, <1>2, OthersVetted, SameCalendar

LEMMA QuietVets ==
  ASSUME Base, Vetted, NEW w \in Workers, Step(w) \/ Crash(w), ~Check(w),
         UNCHANGED <<calendar, byHand>>
  PROVE  Vetted'
<1>1. /\ \A v \in Workers \ {w} : req'[v] = req[v]
      /\ req'[w].step # "checked"
  BY StepFrame
<1> QED
  BY <1>1, OthersVetted, SameCalendar

\* The steps that write to neither the calendar nor the history.
LEMMA Quiet ==
  ASSUME NEW w \in Workers, Step(w) \/ Crash(w),
         ~(Check(w) \/ Place(w) \/ Move(w) \/ Unbook(w))
  PROVE  UNCHANGED <<calendar, byHand>>
BY DEF Step, Acquire, Contend, CalendarFails, Release, Record, Assign, Crash

Safe == Base /\ OneWinsTheDay /\ Unbooked /\ Shaped /\ Linked /\ Vetted /\ TechsApart

LEMMA VettedNext == ByAgents => (Safe /\ [Next]_vars => Vetted')
<1> SUFFICES ASSUME ByAgents, Safe, [Next]_vars PROVE Vetted'
  OBVIOUS
<1>1. ASSUME NEW w \in Workers, Step(w) \/ Crash(w)
      PROVE  Vetted'
  <2>1. CASE Check(w) \/ Place(w) \/ Move(w) \/ Unbook(w)
    BY <2>1, CheckVets, PlaceVets, MoveVets, UnbookVets DEF Safe
  <2>2. CASE ~(Check(w) \/ Place(w) \/ Move(w) \/ Unbook(w))
    BY <1>1, <2>2, Quiet, QuietVets DEF Safe
  <2> QED
    BY <2>1, <2>2
<1>2. CASE UNCHANGED <<calendar, visit, team, req, byHand>>
  BY <1>2 DEF Safe, Vetted, Booking, Clash, Live
<1> QED
  BY <1>1, <1>2, ReadFrame, ReadVets, NextSplit DEF Safe

LEMMA PlaceApart ==
  ASSUME Safe, NEW w \in Workers, Place(w)
  PROVE  TechsApart'
<1>1. PICK e \in Unused :
        calendar' = [calendar EXCEPT ![e] =
                       [job |-> req[w].job, days |-> req[w].days, tech |-> req[w].tech]]
  BY DEF Place
<1>2. calendar \in [Events -> Entry] /\ e \in Events
  BY DEF Safe, Base, TypeOK, Unused
<1>3. /\ calendar'[e].days = req[w].days /\ calendar'[e].tech = req[w].tech
      /\ calendar'[e].job = req[w].job
      /\ \A f \in Events \ {e} : calendar'[f] = calendar[f]
  BY <1>1, <1>2
<1>4. byHand \subseteq byHand'
  BY DEF Place
<1>5. ASSUME NEW f \in Events \ {e}, Live(f), calendar[f].tech = req[w].tech,
             req[w].tech # None, {calendar[f].job, req[w].job} \cap byHand' = {}
      PROVE  calendar[f].days \cap req[w].days = {}
  <2>1. At(w, "schedule", "checked")
    BY <1>5 DEF Place, Safe, Shaped, At
  <2>2. ~Clash(w, f)
    BY <1>4, <1>5, <2>1 DEF Safe, Vetted, At, Booking
  <2> QED
    BY <1>4, <1>5, <2>1, <2>2 DEF Clash, At
<1>6. \A f \in Events \ {e} : Live(f)' <=> Live(f)
  BY <1>3 DEF Live
<1> QED
  BY <1>3, <1>4, <1>5, <1>6 DEF Safe, TechsApart

LEMMA MoveApart ==
  ASSUME Safe, NEW w \in Workers, Move(w)
  PROVE  TechsApart'
<1> DEFINE o == req[w].own
<1>1. /\ o \in Events /\ Live(o)
      /\ calendar'[o].days = req[w].days /\ calendar'[o].tech = calendar[o].tech
      /\ calendar'[o].job = calendar[o].job
      /\ \A f \in Events \ {o} : calendar'[f] = calendar[f]
      /\ byHand' = byHand
  BY MoveFrame DEF Safe
<1>2. calendar[o].job = req[w].job
  BY <1>1, NoneAssumption DEF Safe, Linked
<1>3. ASSUME NEW f \in Events \ {o}, Live(f), calendar[f].tech = calendar[o].tech,
             calendar[o].tech # None, {calendar[f].job, calendar[o].job} \cap byHand = {}
      PROVE  calendar[f].days \cap req[w].days = {}
  <2>1. At(w, "reschedule", "checked")
    BY DEF Move
  <2>2. ~Clash(w, f)
    BY <1>2, <1>3, <2>1 DEF Safe, Vetted, At, Booking
  <2> QED
    BY <1>1, <1>3, <2>1, <2>2 DEF Clash, At
<1> HIDE DEF o
<1>4. \A f \in Events \ {o} : Live(f)' <=> Live(f)
  BY <1>1 DEF Live
<1> QED
  BY <1>1, <1>3, <1>4 DEF Safe, TechsApart

LEMMA ApartNext == ByAgents => (Safe /\ [Next]_vars => TechsApart')
<1> SUFFICES ASSUME ByAgents, Safe, [Next]_vars PROVE TechsApart'
  OBVIOUS
<1>1. ASSUME UNCHANGED calendar, byHand \subseteq byHand'
      PROVE  TechsApart'
  BY <1>1 DEF Safe, TechsApart, Live
<1>2. ASSUME NEW w \in Workers, Step(w) \/ Crash(w)
      PROVE  TechsApart'
  <2>1. CASE Place(w) \/ Move(w)
    BY <2>1, PlaceApart, MoveApart
  <2>2. CASE Unbook(w)
    <3>1. \A f \in Events : calendar'[f] = calendar[f] \/ ~Live(f)'
      BY <2>2, UnbookFrame DEF Safe
    <3>2. byHand' = byHand
      BY <2>2 DEF Unbook
    <3> QED
      BY <3>1, <3>2 DEF Safe, TechsApart, Live
  <2>3. CASE Check(w)
    BY <1>1, <2>3 DEF Check
  <2>4. CASE ~(Check(w) \/ Place(w) \/ Move(w) \/ Unbook(w))
    BY <1>1, <1>2, <2>4, Quiet
  <2> QED
    BY <2>1, <2>2, <2>3, <2>4
<1>3. ASSUME NEW w \in Workers, NEW j \in Jobs, NEW r, ReadFrom(w, j, r)
      PROVE  TechsApart'
  BY <1>1, <1>3 DEF ReadFrom
<1> QED
  BY <1>1, <1>2, <1>3, ReadFrame, NextSplit DEF Safe

LEMMA InitSafe == Init => Safe
<1> SUFFICES ASSUME Init PROVE Safe
  OBVIOUS
<1>1. Base
  BY InitBase
<1>2. OneWinsTheDay /\ Unbooked /\ Shaped /\ Vetted
  BY DEF Init, OneWinsTheDay, Unbooked, Shaped, Vetted, Holding, Booking, Idle
<1>3. Linked /\ TechsApart
  BY DEF Init, Linked, TechsApart, Live, NoEntry, Idle
<1> QED
  BY <1>1, <1>2, <1>3 DEF Safe

\* No technician is invited to two jobs on one day: as long as bookings are
\* done within the TTL and the CRM's rescheduling is left out, only a person
\* who schedules without looking can put him in two places.
THEOREM TechsStayApart == ASSUME Prompt, ByAgents PROVE Spec => []TechsApart
<1>1. Safe /\ [Next]_vars => Safe'
  BY StepBase, NextClaim, UnbookedNext, ShapedNext, LinkedNext, VettedNext, ApartNext DEF Safe
<1>2. Safe => TechsApart
  BY DEF Safe
<1> QED
  BY <1>1, <1>2, InitSafe, PTL DEF Spec
=============================================================================
