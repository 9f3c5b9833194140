------------------------------- MODULE Payroll -------------------------------
(***************************************************************************)
(* What a workweek pays, worked out from the rows TimeClock keeps: closed  *)
(* shifts, plus job time no shift covered (the payroll floor), walked in   *)
(* the order it was worked to find the hours past the overtime line.       *)
(***************************************************************************)
EXTENDS TimeClock, Folds

CONSTANTS
  Week,      \* length of a workweek
  Regular    \* hours of a week that are not overtime

ASSUME WeekAssumption == Week \in Nat \ {0} /\ Regular \in Nat

WeekOf(t) == t \div Week
Weeks == 0..WeekOf(Horizon)

\* The rows a week's payroll loads: those that started in it.
InWeek(S, w) == {i \in S : Counts(row[i]) /\ WeekOf(row[i].from) = w}

\* A set, sorted and walked from its first to its last.
Walk(step(_, _), start, last(_), S) == MapThenFoldSet(step, start, LAMBDA s : s, last, S)

Span(i) == <<row[i].from, row[i].to>>
Latest(spans) == CHOOSE s \in spans : \A t \in spans : t[1] <= s[1]
Longer(a, b) == IF a > b THEN a ELSE b

\* A span that begins before the last one is over makes that one longer.
Merge(s, out) ==
  LET last == Latest(out)
  IN IF out # {} /\ s[1] <= last[2]
     THEN (out \ {last}) \cup {<<last[1], Longer(last[2], s[2])>>}
     ELSE out \cup {s}
MergeIntervals(spans) == Walk(Merge, {}, Latest, {s \in spans : s[1] < s[2]})

\* The parts of a span no interval of covers overlaps, walked with a cursor.
Whole(span) == [cursor |-> span[1], gaps |-> {}]
Rest(span, end) ==
  IF end.cursor < span[2] THEN end.gaps \cup {<<end.cursor, span[2]>>} ELSE end.gaps
\* (mutated: the cursor goes to where a cover starts)
CutFrom(span, c, at) ==
  IF at.cursor >= span[2] \/ c[2] <= at.cursor \/ c[1] >= span[2] THEN at
  ELSE [cursor |-> Longer(at.cursor, c[1]),
        gaps |-> IF c[1] > at.cursor THEN at.gaps \cup {<<at.cursor, c[1]>>} ELSE at.gaps]
Cut(span, c, at) ==
  IF at.cursor >= span[2] \/ c[2] <= at.cursor \/ c[1] >= span[2] THEN at
  ELSE [cursor |-> Longer(at.cursor, c[2]),
        gaps |-> IF c[1] > at.cursor THEN at.gaps \cup {<<at.cursor, c[1]>>} ELSE at.gaps]
SubtractIntervals(span, covers) ==
  LET cut(c, at) == Cut(span, c, at)
  IN Rest(span, Walk(cut, Whole(span), Latest, covers))

\* The segments a week pays: each with the row it comes from and its minutes.
PayableSegments(w) ==
  LET windows == MergeIntervals({Span(s) : s \in InWeek(Shifts, w)}) IN
  {[of |-> s, from |-> row[s].from, minutes |-> Minutes(row[s])] : s \in InWeek(Shifts, w)}
  \cup UNION {{[of |-> j, from |-> gap[1], minutes |-> gap[2] - gap[1]] :
                gap \in SubtractIntervals(Span(j), windows)} : j \in InWeek(Sessions, w)}

\* (mutated: the longest first)
Shortest(segments) == CHOOSE s \in segments : \A t \in segments : s.minutes <= t.minutes
LastWorked(segments) == CHOOSE s \in segments : \A t \in segments : t.from <= s.from

\* The walk: what of each segment is within the regular hours.
Attribute(s, at) ==
  LET left == IF Regular > at.running THEN Regular - at.running ELSE 0
      regular == IF s.minutes < left THEN s.minutes ELSE left
  IN [running |-> at.running + s.minutes,
      split |-> at.split \cup {[of |-> s.of, from |-> s.from, regular |-> regular,
                                overtime |-> s.minutes - regular]}]
AttributeWorkweek(w) == Walk(Attribute, [running |-> 0, split |-> {}], LastWorked, PayableSegments(w))

Paid(w) == SumFunction([s \in PayableSegments(w) |-> s.minutes])

-----------------------------------------------------------------------------
(* Properties.                                                             *)

Worked(rows) == UNION {row[i].from .. row[i].to - 1 : i \in rows}

\* A week pays every counted minute once, on whichever clock it was stamped:
\* job time inside a shift adds nothing, job time outside is not lost.
PaidOnce == \A w \in Weeks : Paid(w) = Cardinality(Worked(InWeek(Ids, w)))

\* Overtime is the minutes worked after the regular hours were full, and each
\* segment carries its own.
OvertimeInOrder ==
  \A w \in Weeks :
    LET worked == Worked(InWeek(Ids, w))
        late == {t \in worked : Cardinality({u \in worked : u < t}) >= Regular}
    IN \A s \in AttributeWorkweek(w).split :
         s.overtime = Cardinality({t \in late : s.from <= t /\ t < s.from + s.regular + s.overtime})

\* No minute is paid twice (not so across a week's end: timeTracking.ts:710).
PaidOnceOverall ==
  SumFunction([w \in Weeks |-> Paid(w)]) = Cardinality(Worked({i \in Ids : Counts(row[i])}))
=============================================================================
