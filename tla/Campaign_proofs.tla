--------------------------- MODULE Campaign_proofs ---------------------------
(***************************************************************************)
(* For any number of addresses and runs at once, any cap and whatever the  *)
(* provider does: who has unsubscribed is not written to, a recorded row   *)
(* is not written to again, and a campaign that reads "sent" has a result  *)
(* for everyone its first snapshot named.                                  *)
(***************************************************************************)
EXTENDS Campaign, TLAPS

Shape == TypeOK /\ \A w \in Runs : run[w].at \in {"send", "record"} => run[w].to \in Addresses

\* What a run last saw of the suppressions still holds, and it hands over no
\* letter against it.
OutHolds == \A w \in Runs :
  /\ before[w].out \subseteq suppressed
  /\ run[w].at = "send" => run[w].to \notin before[w].out

\* What had its result when a run was pressed still has one, and the run does
\* not hold it.
DoneHolds == \A w \in Runs : \A e \in before[w].done :
  /\ row[e] \in Done
  /\ e \notin run[w].queue
  /\ run[w].at = "send" => run[w].to # e

AllDone == first # {} /\ \A e \in first : row[e] \in Done
Started == {"mark", "load", "next", "send", "record", "tally", "close"}

\* A run past the snapshot has an audience, whose rows exist; a run that
\* counted none pending, and a campaign that is "sent", left nobody out.
AudienceHolds ==
  /\ \A e \in first : row[e] # "none"
  /\ first = {} => \A e \in Addresses : row[e] = "none"
  /\ \A w \in Runs : run[w].at \in Started => first # {}
  /\ \A w \in Runs : (run[w].at = "close" /\ ~run[w].left) => AllDone
  /\ status = "sent" => AllDone

IInv == Shape /\ OutHolds /\ DoneHolds /\ AudienceHolds

-----------------------------------------------------------------------------
LEMMA InitIInv == Init => IInv
BY AddressAssumption DEF Init, IInv, Shape, TypeOK, OutHolds, DoneHolds, AudienceHolds, AllDone,
   Started, Idle, Nothing, RunState, Done

\* What a step makes of its run is a run.
LEMMA RunMoves ==
  ASSUME Shape, NEW w \in Runs
  PROVE  /\ run[w] \in RunState /\ Idle \in RunState
         /\ \A at \in {"count", "mark", "record", "tally"} : [run[w] EXCEPT !.at = at] \in RunState
         /\ [run[w] EXCEPT !.at = "record", !.fate = "failed"] \in RunState
         /\ \A Q \in SUBSET Addresses : [run[w] EXCEPT !.at = "next", !.queue = Q] \in RunState
<1>1. run[w] \in RunState
  BY DEF Shape, TypeOK
<1>2. Idle \in RunState
  BY DEF RunState, Idle, Done
<1> QED BY <1>1, <1>2 DEF RunState, Done

\* Taking up a row of its queue makes a run of it, with that row.
LEMMA TakesUp ==
  ASSUME Shape, NEW w \in Runs, TakeUp(w)
  PROVE  \E e \in Addresses, r \in RunState :
           /\ run' = [run EXCEPT ![w] = r]
           /\ e \in run[w].queue /\ r.to = e /\ r.queue = run[w].queue \ {e}
           /\ r.at = "record" \/ (r.at = "send" /\ e \notin suppressed)
<1>1. PICK e \in run[w].queue : run' = [run EXCEPT ![w] = With(w, e)]
  BY DEF TakeUp
<1>2. run[w] \in RunState
  BY DEF Shape, TypeOK
<1>3. e \in Addresses /\ With(w, e) \in RunState
  BY <1>2 DEF RunState, Done, With
<1>4. With(w, e).to = e /\ With(w, e).queue = run[w].queue \ {e}
  BY <1>2 DEF RunState, With
<1>5. With(w, e).at = "record" \/ (With(w, e).at = "send" /\ e \notin suppressed)
  BY <1>2 DEF RunState, Barred, With
<1> QED BY <1>1, <1>3, <1>4, <1>5

\* A load gives the run rows that are pending.
LEMMA Loads ==
  ASSUME Shape, NEW w \in Runs, Load(w)
  PROVE  \E r \in RunState : /\ run' = [run EXCEPT ![w] = r] /\ r.at = "next"
                             /\ r.queue \subseteq Rows({"pending"})
<1>1. PICK Q \in SUBSET Rows({"pending"}) : run' = [run EXCEPT ![w].at = "next", ![w].queue = Q]
  BY DEF Load, ToSend
<1>2. run[w] \in RunState /\ Q \in SUBSET Addresses
  BY DEF Shape, TypeOK, Rows
<1> DEFINE r == [run[w] EXCEPT !.at = "next", !.queue = Q]
<1>3. run' = [run EXCEPT ![w] = r]
  BY <1>1
<1>4. r \in RunState /\ r.at = "next" /\ r.queue = Q
  BY <1>2 DEF RunState
<1> QED BY <1>3, <1>4

\* A snapshot ends its run or takes it on, and leaves it no letter.
LEMMA Snaps ==
  ASSUME Shape, NEW w \in Runs, Snapshot(w)
  PROVE  \E r \in RunState : run' = [run EXCEPT ![w] = r] /\ r.at \in {"idle", "mark"}
<1>1. CASE list = {}
  BY <1>1, RunMoves DEF Snapshot, End, Idle
<1>2. CASE list # {}
  <2>1. run' = [run EXCEPT ![w] = [run[w] EXCEPT !.at = "mark"]]
    BY <1>2 DEF Snapshot, Go
  <2>2. [run[w] EXCEPT !.at = "mark"].at = "mark"
    BY DEF Shape, TypeOK, RunState
  <2> QED BY <2>1, <2>2, RunMoves
<1> QED BY <1>1, <1>2

\* A letter sent or not leaves the run at its row, to record it, or at its end.
LEMMA Sends ==
  ASSUME Shape, NEW w \in Runs, NEW o, Outcome(w, o)
  PROVE  \E r \in RunState : /\ run' = [run EXCEPT ![w] = r] /\ r.queue = run[w].queue
                             /\ r.to = run[w].to /\ r.at \in {"record", "tally"}
<1> DEFINE R(at) == [run[w] EXCEPT !.at = at]
           F == [run[w] EXCEPT !.at = "record", !.fate = "failed"]
<1>1. run' = [run EXCEPT ![w] = R("record")] \/ run' = [run EXCEPT ![w] = R("tally")]
      \/ run' = [run EXCEPT ![w] = F]
  BY DEF Outcome, Go
<1>2. \A at \in {"record", "tally"} :
        R(at).queue = run[w].queue /\ R(at).to = run[w].to /\ R(at).at = at
  BY DEF Shape, TypeOK, RunState
<1>3. F.queue = run[w].queue /\ F.to = run[w].to /\ F.at = "record"
  BY DEF Shape, TypeOK, RunState
<1>4. F \in RunState /\ \A at \in {"record", "tally"} : R(at) \in RunState
  BY RunMoves
<1> HIDE DEF R, F
<1> QED BY <1>1, <1>2, <1>3, <1>4

LEMMA NextIInv == IInv /\ [Next]_vars => IInv'
<1> SUFFICES ASSUME IInv, [Next]_vars PROVE IInv'
  OBVIOUS
<1> USE DEF IInv, Shape, TypeOK, OutHolds, DoneHolds, AudienceHolds, AllDone, Started, RunState, Done,
            Go, End, Idle, Nothing, Rows, audience, past
<1>1. CASE UNCHANGED vars
  BY <1>1 DEF vars
<1>2. ASSUME NEW e \in Addresses, Join(e) \/ Leave(e) \/ Unsubscribe(e) PROVE IInv'
  BY <1>2 DEF Join, Leave, Unsubscribe
<1>3. CASE Refresh
  BY <1>3 DEF Refresh
<1>4. ASSUME NEW w \in Runs, Press(w) PROVE IInv'
  <2>1. Shape'
    <3>1. run'[w].at = "count" /\ run'[w] = [run[w] EXCEPT !.at = "count"]
      BY <1>4 DEF Press
    <3>2. run'[w] \in RunState
      BY <3>1, RunMoves
    <3>3. run' = [run EXCEPT ![w] = run'[w]]
      BY <1>4 DEF Press
    <3>4. Rows(Done) \in SUBSET Addresses
      OBVIOUS
    <3>5. before' \in [Runs -> [done : SUBSET Addresses, out : SUBSET Addresses]]
      BY <1>4, <3>4 DEF Press
    <3> QED BY <1>4, <3>1, <3>2, <3>3, <3>5 DEF Press
  <2>2. OutHolds'
    BY <1>4 DEF Press
  <2>3. DoneHolds'
    BY <1>4 DEF Press
  <2>4. AudienceHolds'
    BY <1>4 DEF Press
  <2> QED BY <2>1, <2>2, <2>3, <2>4
<1>5. ASSUME NEW w \in Runs, Count(w) PROVE IInv'
  <2>1. Shape'
    <3>1. run' = [run EXCEPT ![w] = run'[w]]
      BY <1>5 DEF Count
    <3>2. run'[w] \in RunState /\ (run'[w].at \in {"send", "record"} => run'[w].to \in Addresses)
      BY <1>5 DEF Count
    <3> QED BY <1>5, <3>1, <3>2 DEF Count
  <2>2. OutHolds'
    BY <1>5 DEF Count
  <2>3. DoneHolds'
    BY <1>5 DEF Count
  <2>4. AudienceHolds'
    BY <1>5 DEF Count
  <2> QED BY <2>1, <2>2, <2>3, <2>4
<1>6. ASSUME NEW w \in Runs, Snapshot(w) PROVE IInv'
  <2>1. Shape'
    <3>1. PICK r \in RunState : run' = [run EXCEPT ![w] = r] /\ r.at \in {"idle", "mark"}
      BY <1>6, Snaps
    <3>4. row' \in [Addresses -> {"none", "pending"} \cup Done] /\ first' \in SUBSET Addresses
      BY <1>6 DEF Snapshot
    <3>5. before' \in [Runs -> [done : SUBSET Addresses, out : SUBSET Addresses]]
      BY <1>6 DEF Snapshot
    <3>6. run' \in [Runs -> RunState]
      BY <3>1
    <3>7. TypeOK'
      BY <1>6, <3>4, <3>5, <3>6 DEF Snapshot
    <3> QED BY <3>1, <3>7
  <2>2. OutHolds'
    BY <1>6 DEF Snapshot
  <2>3. DoneHolds'
    BY <1>6 DEF Snapshot
  <2>4. AudienceHolds'
    BY <1>6 DEF Snapshot
  <2> QED BY <2>1, <2>2, <2>3, <2>4
<1>7. ASSUME NEW w \in Runs, Mark(w) PROVE IInv'
  BY <1>7 DEF Mark
<1>8. ASSUME NEW w \in Runs, Load(w) PROVE IInv'
  <2>1. PICK r \in RunState : /\ run' = [run EXCEPT ![w] = r] /\ r.at = "next"
                              /\ r.queue \subseteq Rows({"pending"})
    BY <1>8, Loads
  <2>2. UNCHANGED <<list, suppressed, status, shown, row, mailed, cuts, first, before>> /\ run[w].at = "load"
    BY <1>8 DEF Load
  <2>3. Shape'
    BY <2>1, <2>2
  <2>4. OutHolds'
    BY <2>1, <2>2
  <2>5. DoneHolds'
    BY <2>1, <2>2
  <2>6. AudienceHolds'
    BY <2>1, <2>2
  <2> QED BY <2>3, <2>4, <2>5, <2>6
<1>9. ASSUME NEW w \in Runs, TakeUp(w) PROVE IInv'
  <2>1. PICK e \in Addresses, r \in RunState :
          /\ run' = [run EXCEPT ![w] = r]
          /\ e \in run[w].queue /\ r.to = e /\ r.queue = run[w].queue \ {e}
          /\ r.at = "record" \/ (r.at = "send" /\ e \notin suppressed)
    BY <1>9, TakesUp
  <2>2. UNCHANGED <<list, suppressed, status, shown, row, mailed, cuts, first, before>> /\ run[w].at = "next"
    BY <1>9 DEF TakeUp
  <2>3. Shape'
    BY <2>1, <2>2
  <2>4. OutHolds'
    BY <2>1, <2>2
  <2>5. DoneHolds'
    BY <2>1, <2>2
  <2>6. AudienceHolds'
    BY <2>1, <2>2
  <2> QED BY <2>3, <2>4, <2>5, <2>6
<1>10. ASSUME NEW w \in Runs, Send(w) PROVE IInv'
  <2>1. PICK o \in Troubles \cup {"taken"} :
          /\ Outcome(w, o)
          /\ mailed' = IF o \in {"taken", "lost"} THEN [mailed EXCEPT ![run[w].to] = @ + 1] ELSE mailed
    BY <1>10 DEF Send
  <2>2. UNCHANGED <<list, suppressed, status, shown, row, cuts, first, before>> /\ run[w].at = "send"
    BY <1>10 DEF Send
  <2>3. mailed' \in [Addresses -> Nat]
    BY <2>1, <2>2
  <2>4. PICK r \in RunState : /\ run' = [run EXCEPT ![w] = r] /\ r.queue = run[w].queue
                              /\ r.to = run[w].to /\ r.at \in {"record", "tally"}
    BY <2>1, Sends
  <2>5. Shape'
    BY <2>2, <2>3, <2>4
  <2>6. OutHolds'
    BY <2>2, <2>4
  <2>7. DoneHolds'
    BY <2>2, <2>4
  <2>8. AudienceHolds'
    BY <2>2, <2>4
  <2> QED BY <2>5, <2>6, <2>7, <2>8
<1>11. ASSUME NEW w \in Runs, Record(w) PROVE IInv'
  <2>1. Shape'
    <3>1. run' = [run EXCEPT ![w] = run'[w]]
      BY <1>11 DEF Record
    <3>2. run'[w] \in RunState /\ (run'[w].at \in {"send", "record"} => run'[w].to \in Addresses)
      BY <1>11 DEF Record
    <3> QED BY <1>11, <3>1, <3>2 DEF Record
  <2>2. OutHolds'
    BY <1>11 DEF Record
  <2>3. DoneHolds'
    BY <1>11 DEF Record
  <2>4. AudienceHolds'
    BY <1>11 DEF Record
  <2> QED BY <2>1, <2>2, <2>3, <2>4
<1>12. ASSUME NEW w \in Runs, Tally(w) PROVE IInv'
  <2>1. Shape'
    BY <1>12, AddressAssumption DEF Tally
  <2>2. OutHolds'
    BY <1>12 DEF Tally
  <2>3. DoneHolds'
    BY <1>12 DEF Tally
  <2>4. AudienceHolds'
    <3>1. run'[w].left = (Rows({"pending"}) # {}) /\ UNCHANGED <<status, row, first>> /\ first # {}
      BY <1>12 DEF Tally
    <3>2. ~run'[w].left => AllDone
      BY <3>1
    <3>3. \A v \in Runs \ {w} : run'[v] = run[v]
      BY <1>12 DEF Tally
    <3> QED BY <3>1, <3>2, <3>3
  <2> QED BY <2>1, <2>2, <2>3, <2>4
<1>13. ASSUME NEW w \in Runs, Close(w) PROVE IInv'
  BY <1>13 DEF Close, Closing
<1>14. ASSUME NEW w \in Runs, Cut(w) PROVE IInv'
  BY <1>14 DEF Cut
<1> QED
  BY <1>1, <1>2, <1>3, <1>4, <1>5, <1>6, <1>7, <1>8, <1>9, <1>10, <1>11, <1>12, <1>13, <1>14
     DEF Next, Step

-----------------------------------------------------------------------------
\* A letter goes to the address its run is at.
LEMMA MailsItsRow ==
  ASSUME IInv, [Next]_vars, NEW w \in Runs, NEW e \in Addresses, Mails(w, e)
  PROVE  run[w].at = "send" /\ e = run[w].to
<1>1. run[w].at = "send" /\ run'[w] # run[w] /\ mailed'[e] # mailed[e]
  BY DEF Mails, IInv, Shape, TypeOK
<1>2. ASSUME NEW v \in Runs, Send(v) PROVE e = run[w].to
  <2>1. run' = [run EXCEPT ![v] = run'[v]]
    BY <1>2 DEF Send, Outcome, Go, IInv, Shape, TypeOK
  <2>2. v = w
    BY <1>1, <2>1 DEF IInv, Shape, TypeOK
  <2> QED BY <1>1, <1>2, <2>2 DEF Send, IInv, Shape, TypeOK
<1>3. \E v \in Runs : Send(v)
  BY <1>1 DEF Next, Step, vars, Join, Leave, Unsubscribe, Refresh, Press, Count, Snapshot, Mark, Load,
     TakeUp, Record, Tally, Close, Cut
<1> QED BY <1>1, <1>2, <1>3

\* The model's variables keep their types, for any addresses, runs and cap.
THEOREM TypeCorrect == Spec => []TypeOK
<1>1. IInv => TypeOK
  BY DEF IInv, Shape
<1> QED BY <1>1, InitIInv, NextIInv, PTL DEF Spec

\* Whoever had unsubscribed when a run last recorded a row, or was pressed,
\* gets no letter from it.
THEOREM UnsubscribeHolds == Spec => UnsubscribeStands
<1>1. IInv /\ [Next]_vars => [\A w \in Runs : \A e \in before[w].out : ~Mails(w, e)]_vars
  <2> SUFFICES ASSUME IInv, [Next]_vars, NEW w \in Runs, NEW e \in before[w].out, Mails(w, e)
               PROVE FALSE
    OBVIOUS
  <2>1. e \in Addresses
    BY DEF IInv, Shape, TypeOK
  <2> QED BY <2>1, MailsItsRow DEF IInv, OutHolds
<1> QED BY <1>1, InitIInv, NextIInv, PTL DEF Spec, UnsubscribeStands

\* A run writes to nobody whose row had its result when the run was pressed.
THEOREM RecordedHolds == Spec => RecordedNotRepeated
<1>1. IInv /\ [Next]_vars => [\A w \in Runs : \A e \in before[w].done : ~Mails(w, e)]_vars
  <2> SUFFICES ASSUME IInv, [Next]_vars, NEW w \in Runs, NEW e \in before[w].done, Mails(w, e)
               PROVE FALSE
    OBVIOUS
  <2>1. e \in Addresses
    BY DEF IInv, Shape, TypeOK
  <2> QED BY <2>1, MailsItsRow DEF IInv, DoneHolds
<1> QED BY <1>1, InitIInv, NextIInv, PTL DEF Spec, RecordedNotRepeated

\* A campaign that reads "sent" has a result for everyone its first snapshot
\* named, whatever runs beside it, stops half way or is lost.
THEOREM SentMeansAll == Spec => []SentReachedAll
<1>1. IInv => SentReachedAll
  BY DEF IInv, AudienceHolds, AllDone, SentReachedAll
<1> QED BY <1>1, InitIInv, NextIInv, PTL DEF Spec
=============================================================================
