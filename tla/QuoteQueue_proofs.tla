-------------------------- MODULE QuoteQueue_proofs --------------------------
(***************************************************************************)
(* What QuoteQueue keeps for any number of lines, edits and values.        *)
(*                                                                         *)
(* First the replay: what a set of edits, laid over a quote one number     *)
(* after the other, does to one line of it.  Then the invariant: the       *)
(* queue is a run of delivered edits, at most one the office took without  *)
(* the phone hearing of it, and the edits it is still owed; the first two  *)
(* lead from the saved copy to the office's quote, the last from there to  *)
(* the quote as the technician left it.                                    *)
(***************************************************************************)
EXTENDS QuoteQueue, FiniteSetTheorems, TLAPS

-----------------------------------------------------------------------------
(* Induction, on sets.                                                     *)

LEMMA Least ==
  ASSUME NEW T \in SUBSET Nat, T # {}
  PROVE  \E n \in T : \A m \in T : n <= m
<1> DEFINE F == {0..n : n \in T}
<1>1. F \subseteq FiniteSubsetsOf(Nat)
  <2> SUFFICES ASSUME NEW n \in T PROVE 0..n \in FiniteSubsetsOf(Nat)
    OBVIOUS
  <2>1. IsFiniteSet(0..n) /\ 0..n \in SUBSET Nat
    BY FS_Interval
  <2> QED
    BY <2>1 DEF FiniteSubsetsOf
<1>2. PICK X \in F : \A Y \in F : <<Y, X>> \notin StrictSubsetOrdering(Nat)
  <2>1. F # {}
    OBVIOUS
  <2> HIDE DEF F
  <2> QED
    BY <1>1, <2>1, FS_StrictSubsetOrderingWellFounded, WFMin
<1>3. PICK n \in T : X = 0..n
  OBVIOUS
<1>4. ASSUME NEW m \in T, m < n PROVE FALSE
  <2>1. 0..m \in SUBSET Nat /\ 0..n \in SUBSET Nat /\ 0..m \subseteq 0..n /\ 0..m # 0..n
    BY <1>4
  <2>2. <<0..m, 0..n>> \in StrictSubsetOrdering(Nat)
    BY <2>1 DEF StrictSubsetOrdering
  <2> QED
    BY <1>2, <1>3, <2>2
<1> QED
  BY <1>4

LEMMA UpTo ==
  ASSUME NEW N \in Nat, NEW S, 0 \in S, \A n \in 1..N : n - 1 \in S => n \in S
  PROVE  0..N \subseteq S
<1> DEFINE T == (0..N) \ S
<1> SUFFICES ASSUME T # {} PROVE FALSE
  OBVIOUS
<1>1. T \in SUBSET Nat
  OBVIOUS
<1>2. PICK n \in T : \A m \in T : n <= m
  <2> HIDE DEF T
  <2> QED
    BY <1>1, Least
<1> QED
  BY <1>2

-----------------------------------------------------------------------------
(* What an edit does to one line.                                          *)

\* The edits a technician can make.
Op(op) ==
  /\ op.kind \in {"add", "edit", "remove", "order"}
  /\ op.kind # "order" => op.line \in Lines
  /\ op.kind = "add" => op.to \in Row
  /\ op.kind = "edit" => op.field \in Fields /\ op.was \in Values /\ op.to \in Values
  /\ op.kind = "order" => /\ DOMAIN op.to \subseteq Lines /\ DOMAIN op.was = DOMAIN op.to
                          /\ \A l \in DOMAIN op.to : op.was[l] \in Values /\ op.to[l] \in Values

Cell == Row \cup {None}

On(l, cell, op) ==
  IF l \notin About(op) THEN cell
  ELSE IF op.kind = "add" THEN op.to
  ELSE IF op.kind = "remove" \/ cell = None THEN None
  ELSE IF op.kind = "edit" THEN [cell EXCEPT ![op.field] = op.to]
  ELSE [cell EXCEPT !.option = op.to[l]]

LEMMA NoneNotRow == None \notin Row
  BY NoneAssumption

LEMMA OnTyped == ASSUME NEW l \in Lines, NEW c \in Cell, NEW op, Op(op) PROVE On(l, c, op) \in Cell
  BY DEF On, Op, Cell, Row, Fields, About

LEMMA OnOutside == ASSUME NEW l, NEW c, NEW op, l \notin About(op) PROVE On(l, c, op) = c
  BY DEF On

LEMMA LayOn ==
  ASSUME NEW q \in Quote, NEW op, Op(op)
  PROVE  Lay(q, op) \in Quote /\ \A l \in Lines : Lay(q, op)[l] = On(l, q[l], op)
<1>1. CASE op.kind = "add"
  BY <1>1 DEF Lay, On, Op, About, Quote
<1>2. CASE op.kind = "remove"
  BY <1>2 DEF Lay, On, Op, About, Quote
<1>3. CASE op.kind = "edit"
  BY <1>3, NoneNotRow DEF Lay, On, Op, About, Quote, Row, Fields
<1>4. CASE op.kind = "order"
  BY <1>4, NoneNotRow DEF Lay, On, Op, About, Quote, Row, Fields
<1> QED
  BY <1>1, <1>2, <1>3, <1>4 DEF Op

\* An edit that arrives again finds its own work.
LEMMA OnTwice ==
  ASSUME NEW l \in Lines, NEW c \in Cell, NEW op, Op(op)
  PROVE  On(l, On(l, c, op), op) = On(l, c, op)
  BY NoneNotRow DEF On, Op, Cell, Row, Fields, About

\* What one edit hides of a line, another laid under it does not bring out.
LEMMA OnHides ==
  ASSUME NEW l \in Lines, NEW c \in Cell, NEW d \in Cell, NEW op, Op(op), NEW under, Op(under),
         On(l, c, op) = On(l, d, op)
  PROVE  On(l, On(l, c, under), op) = On(l, On(l, d, under), op)
<1> DEFINE x == On(l, c, under)
           y == On(l, d, under)
<1>1. x \in Cell /\ y \in Cell
  BY OnTyped
<1>2. CASE l \notin About(op)
  BY <1>2 DEF On
<1>3. CASE op.kind \in {"add", "remove"}
  BY <1>1, <1>3, OnOutside DEF On
<1>4. CASE l \in About(op) /\ op.kind \in {"edit", "order"}
  <2> DEFINE f == IF op.kind = "edit" THEN op.field ELSE "option"
             v == IF op.kind = "edit" THEN op.to ELSE op.to[l]
             Beside(a, b) == /\ a = None <=> b = None
                             /\ a # None => \A g \in Fields \ {f} : a[g] = b[g]
  <2>1. f \in Fields /\ v \in Values
    BY <1>4 DEF Op, Fields, About
  <2>2. ASSUME NEW a \in Cell PROVE On(l, a, op) = IF a = None THEN None ELSE [a EXCEPT ![f] = v]
    BY <1>4 DEF On
  <2>3. ASSUME NEW a \in Cell, NEW b \in Cell PROVE On(l, a, op) = On(l, b, op) <=> Beside(a, b)
    <3>1. CASE a = None \/ b = None
      BY <2>1, <2>2, <3>1, NoneNotRow DEF Cell, Row
    <3>2. CASE a \in Row /\ b \in Row
      <4>1. On(l, a, op) = On(l, b, op) <=> [a EXCEPT ![f] = v] = [b EXCEPT ![f] = v]
        BY <2>2, <3>2, NoneNotRow
      <4>2. [a EXCEPT ![f] = v] = [b EXCEPT ![f] = v] <=> \A g \in Fields \ {f} : a[g] = b[g]
        BY <2>1, <3>2 DEF Row
      <4> QED
        BY <3>2, <4>1, <4>2, NoneNotRow
    <3> QED
      BY <3>1, <3>2 DEF Cell
  <2>4. Beside(c, d)
    BY <2>3
  <2>5. Beside(x, y)
    BY <2>4, NoneNotRow DEF On, Op, Cell, Row, Fields, About
  <2>6. On(l, x, op) = On(l, y, op)
    <3> HIDE DEF x, y, Beside
    <3> QED
      BY <1>1, <2>3, <2>5
  <2> QED
    BY <2>6
<1> QED
  BY <1>2, <1>3, <1>4 DEF Op

-----------------------------------------------------------------------------
(* What a set of edits does to one line, one number after the other.       *)

Laid(copy, rows) ==
  LET laid[n \in 0..MaxEdits] ==
        IF n = 0 THEN copy
        ELSE IF n \in DOMAIN rows /\ rows[n].status # "refused" THEN Lay(laid[n - 1], rows[n].body)
        ELSE laid[n - 1]
  IN laid

LEMMA OverlayLaid == \A copy, rows : Overlay(copy, rows) = Laid(copy, rows)[MaxEdits]
  BY DEF Overlay, Laid

Fits(rows) == DOMAIN rows \subseteq 1..MaxEdits /\ \A i \in DOMAIN rows : Op(rows[i].body)
Plays(rows, i) == i \in DOMAIN rows /\ rows[i].status # "refused"
Touches(rows, i, l) == Plays(rows, i) /\ l \in About(rows[i].body)

\* A function that takes each number's value from the one before it.
LEMMA Steps ==
  ASSUME NEW start \in Quote, NEW step \in [1..MaxEdits -> [Quote -> Quote]]
  PROVE  \E g \in [0..MaxEdits -> Quote] : g[0] = start /\ \A n \in 1..MaxEdits : g[n] = step[n][g[n - 1]]
<1> DEFINE Upto(n) == {g \in [0..n -> Quote] : g[0] = start /\ \A m \in 1..n : g[m] = step[m][g[m - 1]]}
           S == {n \in 0..MaxEdits : Upto(n) # {}}
<1> USE BoundsAssumption
<1>1. 0 \in S
  <2>1. [m \in 0..0 |-> start] \in Upto(0)
    OBVIOUS
  <2> QED
    BY <2>1
<1>2. ASSUME NEW n \in 1..MaxEdits, n - 1 \in S PROVE n \in S
  <2>1. PICK g : g \in Upto(n - 1)
    BY <1>2
  <2> DEFINE h == [m \in 0..n |-> IF m = n THEN step[n][g[n - 1]] ELSE g[m]]
  <2>2. h \in [0..n -> Quote]
    BY <2>1
  <2>3. h[0] = start
    BY <2>1
  <2>4. ASSUME NEW m \in 1..n PROVE h[m] = step[m][h[m - 1]]
    <3>1. CASE m = n
      BY <3>1
    <3>2. CASE m # n
      <4>1. m \in 1..(n - 1) /\ m - 1 \in 0..n /\ m - 1 # n
        BY <3>2
      <4>2. g[m] = step[m][g[m - 1]]
        BY <2>1, <4>1
      <4> QED
        BY <3>2, <4>1, <4>2
    <3> QED
      BY <3>1, <3>2
  <2>5. h \in Upto(n)
    BY <2>2, <2>3, <2>4
  <2> QED
    BY <2>5
<1>3. MaxEdits \in S
  <2> HIDE DEF S
  <2>1. 0..MaxEdits \subseteq S
    BY <1>1, <1>2, UpTo
  <2> QED
    BY <2>1
<1> QED
  BY <1>3

LEMMA LaidSteps ==
  ASSUME NEW q \in Quote, NEW rows, Fits(rows)
  PROVE  /\ Laid(q, rows) \in [0..MaxEdits -> Quote]
         /\ Laid(q, rows)[0] = q
         /\ \A n \in 1..MaxEdits :
              Laid(q, rows)[n] = IF Plays(rows, n) THEN Lay(Laid(q, rows)[n - 1], rows[n].body)
                                 ELSE Laid(q, rows)[n - 1]
<1> DEFINE Solves(g) == g = [n \in 0..MaxEdits |->
             IF n = 0 THEN q
             ELSE IF n \in DOMAIN rows /\ rows[n].status # "refused" THEN Lay(g[n - 1], rows[n].body)
             ELSE g[n - 1]]
           step == [n \in 1..MaxEdits |-> [x \in Quote |->
             IF Plays(rows, n) THEN Lay(x, rows[n].body) ELSE x]]
<1>1. step \in [1..MaxEdits -> [Quote -> Quote]]
  <2>1. ASSUME NEW n \in 1..MaxEdits, NEW x \in Quote, Plays(rows, n) PROVE Lay(x, rows[n].body) \in Quote
    BY <2>1, LayOn DEF Plays, Fits
  <2> QED
    BY <2>1
<1>2. PICK g \in [0..MaxEdits -> Quote] :
        g[0] = q /\ \A n \in 1..MaxEdits : g[n] = step[n][g[n - 1]]
  <2> HIDE DEF step
  <2> QED
    BY <1>1, Steps
<1>3. Solves(g)
  <2>1. ASSUME NEW n \in 1..MaxEdits
        PROVE g[n] = IF Plays(rows, n) THEN Lay(g[n - 1], rows[n].body) ELSE g[n - 1]
    <3>1. g[n - 1] \in Quote
      BY <1>2, BoundsAssumption
    <3> QED
      BY <1>2, <3>1
  <2> QED
    BY <1>2, <2>1, BoundsAssumption DEF Plays
<1>4. Laid(q, rows) = CHOOSE h : Solves(h)
  BY DEF Laid
<1>5. Solves(Laid(q, rows))
  <2> HIDE DEF Solves
  <2> QED
    BY <1>3, <1>4
<1> DEFINE h == Laid(q, rows)
<1>6. h[0] = q /\ \A n \in 1..MaxEdits :
        h[n] = IF Plays(rows, n) THEN Lay(h[n - 1], rows[n].body) ELSE h[n - 1]
  <2> HIDE DEF h
  <2>1. Solves(h)
    BY <1>5 DEF h
  <2> QED
    BY <2>1, BoundsAssumption DEF Plays
<1>7. \A n \in 0..MaxEdits : h[n] = g[n]
  <2> DEFINE S == {n \in 0..MaxEdits : h[n] = g[n]}
  <2>1. 0 \in S
    BY <1>2, <1>6, BoundsAssumption
  <2>2. ASSUME NEW n \in 1..MaxEdits, n - 1 \in S PROVE n \in S
    <3>1. g[n - 1] \in Quote /\ g[n] = step[n][g[n - 1]]
      BY <1>2, BoundsAssumption
    <3> QED
      BY <1>6, <2>2, <3>1, BoundsAssumption
  <2>3. 0..MaxEdits \subseteq S
    <3> HIDE DEF S
    <3> QED
      BY <2>1, <2>2, UpTo, BoundsAssumption
  <2> QED
    BY <2>3
<1>8. h = [n \in 0..MaxEdits |-> h[n]]
  <2> HIDE DEF h
  <2>1. Solves(h)
    BY <1>5 DEF h
  <2> QED
    BY <2>1
<1> HIDE DEF h
<1>9. h \in [0..MaxEdits -> Quote]
  BY <1>2, <1>7, <1>8
<1> QED
  BY <1>6, <1>9 DEF h

LEMMA LaidLine ==
  ASSUME NEW q \in Quote, NEW rows, Fits(rows), NEW l \in Lines
  PROVE  /\ \A n \in 0..MaxEdits : Laid(q, rows)[n][l] \in Cell
         /\ Laid(q, rows)[0][l] = q[l]
         /\ \A n \in 1..MaxEdits :
              /\ Touches(rows, n, l) => Laid(q, rows)[n][l] = On(l, Laid(q, rows)[n - 1][l], rows[n].body)
              /\ ~Touches(rows, n, l) => Laid(q, rows)[n][l] = Laid(q, rows)[n - 1][l]
<1> DEFINE h == Laid(q, rows)
<1> HIDE DEF h
<1>1. h \in [0..MaxEdits -> Quote]
  BY LaidSteps DEF h
<1>2. h[0] = q
  BY LaidSteps DEF h
<1>3. \A n \in 1..MaxEdits : h[n] = IF Plays(rows, n) THEN Lay(h[n - 1], rows[n].body) ELSE h[n - 1]
  BY LaidSteps DEF h
<1>4. ASSUME NEW n \in 1..MaxEdits
      PROVE  /\ Touches(rows, n, l) => h[n][l] = On(l, h[n - 1][l], rows[n].body)
             /\ ~Touches(rows, n, l) => h[n][l] = h[n - 1][l]
  <2>1. h[n - 1] \in Quote
    BY <1>1, BoundsAssumption
  <2>2. CASE Plays(rows, n)
    <3>1. Op(rows[n].body)
      BY <2>2 DEF Plays, Fits
    <3>2. h[n][l] = On(l, h[n - 1][l], rows[n].body)
      BY <1>3, <2>1, <2>2, <3>1, LayOn
    <3> QED
      BY <2>2, <3>2, OnOutside DEF Touches
  <2>3. CASE ~Plays(rows, n)
    BY <1>3, <2>3 DEF Touches
  <2> QED
    BY <2>2, <2>3
<1>5. \A n \in 0..MaxEdits : h[n][l] \in Cell
  BY <1>1, BoundsAssumption DEF Quote, Cell
<1> QED
  BY <1>2, <1>4, <1>5 DEF h

\* Two sets of edits are the same to a line up to a number.
SameTo(r1, r2, l, m) ==
  \A n \in 1..MaxEdits : n <= m =>
    /\ Touches(r1, n, l) <=> Touches(r2, n, l)
    /\ Touches(r1, n, l) => r1[n].body = r2[n].body

LEMMA LaidSame ==
  ASSUME NEW q1 \in Quote, NEW q2 \in Quote, NEW r1, NEW r2, Fits(r1), Fits(r2), NEW l \in Lines,
         q1[l] = q2[l], NEW m \in Nat, SameTo(r1, r2, l, m)
  PROVE  \A n \in 0..MaxEdits : n <= m => Laid(q1, r1)[n][l] = Laid(q2, r2)[n][l]
<1> DEFINE S == {n \in 0..MaxEdits : n <= m => Laid(q1, r1)[n][l] = Laid(q2, r2)[n][l]}
<1> USE BoundsAssumption
<1>1. 0 \in S
  BY LaidLine
<1>2. ASSUME NEW n \in 1..MaxEdits, n - 1 \in S, n <= m PROVE Laid(q1, r1)[n][l] = Laid(q2, r2)[n][l]
  <2>1. Laid(q1, r1)[n - 1][l] = Laid(q2, r2)[n - 1][l]
    BY <1>2
  <2>2. CASE Touches(r1, n, l)
    BY <1>2, <2>1, <2>2, LaidLine DEF SameTo
  <2>3. CASE ~Touches(r1, n, l)
    BY <1>2, <2>1, <2>3, LaidLine DEF SameTo
  <2> QED
    BY <2>2, <2>3
<1>3. 0..MaxEdits \subseteq S
  <2>1. \A n \in 1..MaxEdits : n - 1 \in S => n \in S
    BY <1>2
  <2> HIDE DEF S
  <2> QED
    BY <1>1, <2>1, UpTo
<1> QED
  BY <1>3

\* Numbers that leave a line alone.
LEMMA LaidQuiet ==
  ASSUME NEW q \in Quote, NEW r, Fits(r), NEW l \in Lines, NEW a \in 0..MaxEdits, NEW b \in 0..MaxEdits, a <= b,
         \A n \in 1..MaxEdits : (a < n /\ n <= b) => ~Touches(r, n, l)
  PROVE  Laid(q, r)[b][l] = Laid(q, r)[a][l]
<1> DEFINE S == {n \in 0..MaxEdits : (a <= n /\ n <= b) => Laid(q, r)[n][l] = Laid(q, r)[a][l]}
<1> USE BoundsAssumption
<1>1. 0 \in S
  OBVIOUS
<1>2. ASSUME NEW n \in 1..MaxEdits, n - 1 \in S PROVE n \in S
  <2>1. CASE a < n /\ n <= b
    BY <1>2, <2>1, LaidLine
  <2> QED
    BY <2>1
<1>3. 0..MaxEdits \subseteq S
  <2> HIDE DEF S
  <2> QED
    BY <1>1, <1>2, UpTo
<1> QED
  BY <1>3

\* What the last edit hides of the start, the ones before it keep hidden.
LEMMA LaidHides ==
  ASSUME NEW q1 \in Quote, NEW q2 \in Quote, NEW r, Fits(r), NEW l \in Lines, NEW op, Op(op),
         On(l, q1[l], op) = On(l, q2[l], op)
  PROVE  \A n \in 0..MaxEdits : On(l, Laid(q1, r)[n][l], op) = On(l, Laid(q2, r)[n][l], op)
<1> DEFINE S == {n \in 0..MaxEdits : On(l, Laid(q1, r)[n][l], op) = On(l, Laid(q2, r)[n][l], op)}
<1> USE BoundsAssumption
<1>1. 0 \in S
  BY LaidLine
<1>2. ASSUME NEW n \in 1..MaxEdits, n - 1 \in S PROVE n \in S
  <2> DEFINE c == Laid(q1, r)[n - 1][l]
             d == Laid(q2, r)[n - 1][l]
  <2>1. c \in Cell /\ d \in Cell /\ On(l, c, op) = On(l, d, op)
    BY <1>2, LaidLine
  <2>2. CASE Touches(r, n, l)
    <3>1. Op(r[n].body)
      BY <2>2 DEF Touches, Plays, Fits
    <3>2. Laid(q1, r)[n][l] = On(l, c, r[n].body) /\ Laid(q2, r)[n][l] = On(l, d, r[n].body)
      BY <2>2, LaidLine
    <3> HIDE DEF c, d
    <3> QED
      BY <2>1, <3>1, <3>2, OnHides
  <2>3. CASE ~Touches(r, n, l)
    BY <1>2, <2>3, LaidLine
  <2> QED
    BY <2>2, <2>3
<1>3. 0..MaxEdits \subseteq S
  <2> HIDE DEF S
  <2> QED
    BY <1>1, <1>2, UpTo
<1> QED
  BY <1>3

\* But for one number, two sets of edits are the same to a line.
SameBut(r1, r2, l, i) ==
  \A n \in 1..MaxEdits : n # i =>
    /\ Touches(r1, n, l) <=> Touches(r2, n, l)
    /\ Touches(r1, n, l) => r1[n].body = r2[n].body

\* The first edit may as well be part of what the others are laid over.
LEMMA LaidFirst ==
  ASSUME NEW q1 \in Quote, NEW q2 \in Quote, NEW r1, NEW r2, Fits(r1), Fits(r2), NEW l \in Lines,
         NEW i \in 1..MaxEdits, Plays(r1, i), ~Touches(r2, i, l), SameBut(r1, r2, l, i),
         \A n \in 1..MaxEdits : n < i => ~Touches(r1, n, l),
         q2[l] = On(l, q1[l], r1[i].body)
  PROVE  \A n \in 0..MaxEdits : i <= n => Laid(q1, r1)[n][l] = Laid(q2, r2)[n][l]
<1> DEFINE S == {n \in 0..MaxEdits : i <= n => Laid(q1, r1)[n][l] = Laid(q2, r2)[n][l]}
<1> USE BoundsAssumption
<1>1. 0 \in S
  OBVIOUS
<1>2. Laid(q1, r1)[i][l] = Laid(q2, r2)[i][l]
  <2>1. Laid(q1, r1)[i - 1][l] = q1[l]
    <3>1. Laid(q1, r1)[i - 1][l] = Laid(q1, r1)[0][l]
      BY LaidQuiet
    <3> QED
      BY <3>1, LaidLine
  <2>2. Laid(q2, r2)[i][l] = q2[l]
    <3>1. \A n \in 1..MaxEdits : (0 < n /\ n <= i) => ~Touches(r2, n, l)
      BY DEF SameBut
    <3>2. Laid(q2, r2)[i][l] = Laid(q2, r2)[0][l]
      BY <3>1, LaidQuiet
    <3> QED
      BY <3>2, LaidLine
  <2>3. Laid(q1, r1)[i][l] = On(l, q1[l], r1[i].body)
    <3>1. CASE l \in About(r1[i].body)
      BY <2>1, <3>1, LaidLine DEF Touches
    <3>2. CASE l \notin About(r1[i].body)
      BY <2>1, <3>2, LaidLine, OnOutside DEF Touches
    <3> QED
      BY <3>1, <3>2
  <2> QED
    BY <2>2, <2>3
<1>3. ASSUME NEW n \in 1..MaxEdits, n - 1 \in S PROVE n \in S
  <2>1. CASE i < n
    <3>1. Laid(q1, r1)[n - 1][l] = Laid(q2, r2)[n - 1][l]
      BY <1>3, <2>1
    <3>2. CASE Touches(r1, n, l)
      BY <2>1, <3>1, <3>2, LaidLine DEF SameBut
    <3>3. CASE ~Touches(r1, n, l)
      BY <2>1, <3>1, <3>3, LaidLine DEF SameBut
    <3> QED
      BY <3>2, <3>3
  <2>2. CASE n = i
    BY <1>2, <2>2
  <2> QED
    BY <2>1, <2>2
<1>4. 0..MaxEdits \subseteq S
  <2> HIDE DEF S
  <2> QED
    BY <1>1, <1>3, UpTo
<1> QED
  BY <1>4

\* The last edit may as well be laid over the rest.
LEMMA LaidLast ==
  ASSUME NEW q \in Quote, NEW r1, NEW r2, Fits(r1), Fits(r2), NEW l \in Lines,
         NEW k \in 1..MaxEdits, Plays(r2, k), ~Touches(r1, k, l), SameBut(r1, r2, l, k),
         \A n \in 1..MaxEdits : k < n => ~Touches(r2, n, l)
  PROVE  Laid(q, r2)[MaxEdits][l] = On(l, Laid(q, r1)[MaxEdits][l], r2[k].body)
<1> USE BoundsAssumption
<1>1. Laid(q, r2)[MaxEdits][l] = Laid(q, r2)[k][l]
  BY LaidQuiet
<1>2. Laid(q, r1)[MaxEdits][l] = Laid(q, r1)[k - 1][l]
  <2>1. \A n \in 1..MaxEdits : (k - 1 < n /\ n <= MaxEdits) => ~Touches(r1, n, l)
    BY DEF SameBut
  <2> QED
    BY <2>1, LaidQuiet
<1>3. Laid(q, r1)[k - 1][l] = Laid(q, r2)[k - 1][l]
  <2>1. SameTo(r1, r2, l, k - 1)
    BY DEF SameBut, SameTo
  <2>2. k - 1 \in Nat /\ k - 1 \in 0..MaxEdits /\ k - 1 <= k - 1
    OBVIOUS
  <2> HIDE BoundsAssumption
  <2> QED
    BY <2>1, <2>2, LaidSame
<1>4. Laid(q, r2)[k][l] = On(l, Laid(q, r2)[k - 1][l], r2[k].body)
  <2>1. CASE l \in About(r2[k].body)
    BY <2>1, LaidLine DEF Touches
  <2>2. CASE l \notin About(r2[k].body)
    BY <2>2, LaidLine, OnOutside DEF Touches
  <2> QED
    BY <2>1, <2>2
<1> QED
  BY <1>1, <1>2, <1>3, <1>4

\* The edits of one set, and then those of another that all come later.
LEMMA LaidSplit ==
  ASSUME NEW q \in Quote, NEW y \in Quote, NEW r, NEW rA, NEW rB, Fits(r), Fits(rA), Fits(rB), NEW l \in Lines,
         \A n \in 1..MaxEdits :
           /\ Touches(r, n, l) <=> Touches(rA, n, l) \/ Touches(rB, n, l)
           /\ Touches(rA, n, l) => r[n].body = rA[n].body
           /\ Touches(rB, n, l) => r[n].body = rB[n].body,
         \A a, b \in 1..MaxEdits : Touches(rA, a, l) /\ Touches(rB, b, l) => a < b,
         y[l] = Laid(q, rA)[MaxEdits][l]
  PROVE  Laid(q, r)[MaxEdits][l] = Laid(y, rB)[MaxEdits][l]
<1> DEFINE Begun(n) == \E b \in 1..MaxEdits : b <= n /\ Touches(rB, b, l)
           S == {n \in 0..MaxEdits : IF Begun(n) THEN Laid(q, r)[n][l] = Laid(y, rB)[n][l]
                                     ELSE Laid(q, r)[n][l] = Laid(q, rA)[n][l]}
<1> USE BoundsAssumption
<1>1. 0 \in S
  BY LaidLine
<1>2. ASSUME NEW n \in 0..MaxEdits, ~Begun(n) PROVE Laid(y, rB)[n][l] = y[l]
  <2>1. Laid(y, rB)[n][l] = Laid(y, rB)[0][l]
    BY <1>2, LaidQuiet
  <2> QED
    BY <2>1, LaidLine
<1>3. ASSUME NEW n \in 1..MaxEdits, n - 1 \in S PROVE n \in S
  <2>1. CASE Touches(rB, n, l)
    <3>1. Begun(n) /\ Touches(r, n, l) /\ r[n].body = rB[n].body
      BY <2>1
    <3>2. Laid(q, r)[n - 1][l] = Laid(y, rB)[n - 1][l]
      <4>1. CASE Begun(n - 1)
        BY <1>3, <4>1
      <4>2. CASE ~Begun(n - 1)
        <5>1. Laid(q, r)[n - 1][l] = Laid(q, rA)[n - 1][l]
          BY <1>3, <4>2
        <5>2. \A m \in 1..MaxEdits : (n - 1 < m /\ m <= MaxEdits) => ~Touches(rA, m, l)
          BY <2>1
        <5>3. Laid(q, rA)[MaxEdits][l] = Laid(q, rA)[n - 1][l]
          BY <5>2, LaidQuiet
        <5>4. Laid(y, rB)[n - 1][l] = y[l]
          BY <1>2, <4>2
        <5> QED
          BY <5>1, <5>3, <5>4
      <4> QED
        BY <4>1, <4>2
    <3>3. Laid(q, r)[n][l] = Laid(y, rB)[n][l]
      BY <2>1, <3>1, <3>2, LaidLine
    <3> QED
      BY <3>1, <3>3
  <2>2. CASE ~Touches(rB, n, l)
    <3>1. Begun(n) <=> Begun(n - 1)
      BY <2>2
    <3>2. CASE Begun(n - 1)
      <4>1. ~Touches(r, n, l)
        <5>1. PICK b \in 1..MaxEdits : b <= n - 1 /\ Touches(rB, b, l)
          BY <3>2
        <5>2. ~Touches(rA, n, l)
          BY <5>1
        <5> QED
          BY <2>2, <5>2
      <4>2. Laid(q, r)[n - 1][l] = Laid(y, rB)[n - 1][l]
        BY <1>3, <3>2
      <4>3. Laid(q, r)[n][l] = Laid(y, rB)[n][l]
        BY <2>2, <4>1, <4>2, LaidLine
      <4> QED
        BY <3>1, <3>2, <4>3
    <3>3. CASE ~Begun(n - 1)
      <4>1. Laid(q, r)[n - 1][l] = Laid(q, rA)[n - 1][l]
        BY <1>3, <3>3
      <4>2. CASE Touches(rA, n, l)
        <5>1. Laid(q, r)[n][l] = Laid(q, rA)[n][l]
          BY <4>1, <4>2, LaidLine
        <5> QED
          BY <3>1, <3>3, <5>1
      <4>3. CASE ~Touches(rA, n, l)
        <5>1. Laid(q, r)[n][l] = Laid(q, rA)[n][l]
          BY <2>2, <4>1, <4>3, LaidLine
        <5> QED
          BY <3>1, <3>3, <5>1
      <4> QED
        BY <4>2, <4>3
    <3> QED
      BY <3>2, <3>3
  <2> QED
    BY <2>1, <2>2
<1>4. MaxEdits \in S
  <2> HIDE DEF S
  <2>1. 0..MaxEdits \subseteq S
    BY <1>1, <1>3, UpTo
  <2> QED
    BY <2>1
<1> QED
  BY <1>2, <1>4

\* Two states of a line that agree on whether there is one and how many.
Like(c, d) == /\ c = None <=> d = None
              /\ c # None => c.quantity = d.quantity

LEMMA OnLike ==
  ASSUME NEW l \in Lines, NEW c \in Cell, NEW d \in Cell, NEW op, Op(op), Like(c, d)
  PROVE  Like(On(l, c, op), On(l, d, op)) /\ (Moves(op) => Like(On(l, c, op), d))
  BY NoneNotRow DEF Like, Moves, On, Op, Cell, Row, Fields, About

\* Without edits that only move the line, it is there or not all the same.
LEMMA LaidLike ==
  ASSUME NEW q \in Quote, NEW r1, NEW r2, Fits(r1), Fits(r2), NEW l \in Lines, NEW m \in Nat,
         \A n \in 1..MaxEdits : n <= m =>
           /\ Touches(r2, n, l) => Touches(r1, n, l) /\ r1[n].body = r2[n].body
           /\ Touches(r1, n, l) /\ ~Touches(r2, n, l) => Moves(r1[n].body)
  PROVE  \A n \in 0..MaxEdits : n <= m => Like(Laid(q, r1)[n][l], Laid(q, r2)[n][l])
<1> DEFINE S == {n \in 0..MaxEdits : n <= m => Like(Laid(q, r1)[n][l], Laid(q, r2)[n][l])}
<1> USE BoundsAssumption
<1>1. 0 \in S
  BY LaidLine DEF Like
<1>2. ASSUME NEW n \in 1..MaxEdits, n - 1 \in S, n <= m PROVE n \in S
  <2> DEFINE c == Laid(q, r1)[n - 1][l]
             d == Laid(q, r2)[n - 1][l]
  <2>1. c \in Cell /\ d \in Cell /\ Like(c, d)
    BY <1>2, LaidLine
  <2>2. CASE Touches(r1, n, l)
    <3>1. Op(r1[n].body) /\ Laid(q, r1)[n][l] = On(l, c, r1[n].body)
      BY <2>2, LaidLine DEF Touches, Plays, Fits
    <3>2. CASE Touches(r2, n, l)
      <4>1. Laid(q, r2)[n][l] = On(l, d, r1[n].body)
        BY <1>2, <3>2, LaidLine
      <4>2. Like(On(l, c, r1[n].body), On(l, d, r1[n].body))
        <5> HIDE DEF c, d
        <5> QED
          BY <2>1, <3>1, OnLike
      <4> QED
        BY <3>1, <4>1, <4>2
    <3>3. CASE ~Touches(r2, n, l)
      <4>1. Laid(q, r2)[n][l] = d
        BY <3>3, LaidLine
      <4>2. Like(On(l, c, r1[n].body), d)
        <5>1. Moves(r1[n].body)
          BY <1>2, <2>2, <3>3
        <5> HIDE DEF c, d
        <5> QED
          BY <2>1, <3>1, <5>1, OnLike
      <4> QED
        BY <3>1, <4>1, <4>2
    <3> QED
      BY <3>2, <3>3
  <2>3. CASE ~Touches(r1, n, l)
    BY <1>2, <2>1, <2>3, LaidLine
  <2> QED
    BY <2>2, <2>3
<1>3. 0..MaxEdits \subseteq S
  <2>1. \A n \in 1..MaxEdits : n - 1 \in S => n \in S
    BY <1>2
  <2> HIDE DEF S
  <2> QED
    BY <1>1, <2>1, UpTo
<1> QED
  BY <1>3

\* What is removed stays so until it is added.
LEMMA LaidGone ==
  ASSUME NEW q \in Quote, NEW r, Fits(r), NEW l \in Lines, NEW e \in 1..MaxEdits, NEW m \in Nat,
         Touches(r, e, l), r[e].body.kind = "remove",
         \A n \in 1..MaxEdits : e < n /\ n <= m /\ Touches(r, n, l) => r[n].body.kind # "add"
  PROVE  \A n \in 0..MaxEdits : e <= n /\ n <= m => Laid(q, r)[n][l] = None
<1> DEFINE S == {n \in 0..MaxEdits : e <= n /\ n <= m => Laid(q, r)[n][l] = None}
<1> USE BoundsAssumption
<1>1. 0 \in S
  OBVIOUS
<1>2. ASSUME NEW n \in 1..MaxEdits, n - 1 \in S, e <= n, n <= m PROVE n \in S
  <2>1. CASE n = e
    <3>1. Laid(q, r)[e][l] = On(l, Laid(q, r)[e - 1][l], r[e].body)
      BY LaidLine
    <3> QED
      BY <2>1, <3>1 DEF On, Touches
  <2>2. CASE e < n /\ Touches(r, n, l)
    <3>1. Laid(q, r)[n - 1][l] = None
      BY <1>2, <2>2
    <3>2. Laid(q, r)[n][l] = On(l, None, r[n].body)
      BY <2>2, <3>1, LaidLine
    <3> QED
      BY <1>2, <2>2, <3>2 DEF On
  <2>3. CASE e < n /\ ~Touches(r, n, l)
    BY <1>2, <2>3, LaidLine
  <2> QED
    BY <1>2, <2>1, <2>2, <2>3
<1>3. 0..MaxEdits \subseteq S
  <2>1. \A n \in 1..MaxEdits : n - 1 \in S => n \in S
    BY <1>2
  <2> HIDE DEF S
  <2> QED
    BY <1>1, <2>1, UpTo
<1> QED
  BY <1>3

-----------------------------------------------------------------------------
(* The queue and the pass over it.                                         *)

Typed ==
  /\ office \in Quote /\ mirror \in Quote /\ mine \in Quote
  /\ status \in {"draft", "issued", "signed"}
  /\ made \in 0..MaxEdits /\ DOMAIN queue \subseteq 1..made
  /\ queue = [i \in DOMAIN queue |-> [body |-> queue[i].body, status |-> queue[i].status]]
  /\ \A i \in DOMAIN queue : Op(queue[i].body) /\ queue[i].status \in {"queued", "delivered", "refused"}
  /\ pass \in [on : BOOLEAN, left : SUBSET (1..made), delivered : BOOLEAN, again : BOOLEAN,
               copy : Quote \cup {None}]
  /\ wire \in [op : (1..made) \cup {None}, state : {"idle", "out", "ok", "refused"}]
  /\ wire.op = None <=> wire.state = "idle"
  /\ waiting \subseteq 1..made /\ landed \subseteq 1..made /\ theirs \subseteq Lines
  /\ screen \in Quote \cup {None}

\* Behind an edit that the office took, or refused, nothing is still to go.
Ordered ==
  /\ In(queue, "delivered") \subseteq landed
  /\ \A i, k \in DOMAIN queue :
       (i < k /\ (k \in landed \/ queue[k].status = "refused")) => queue[i].status = "delivered"

\* A pass misses no edit before one it has yet to send, and what is out is
\* the first it has left.
Passing ==
  /\ pass.left # {} => /\ pass.on /\ pass.copy = None /\ In(queue, "refused") = {}
                       /\ \A q \in In(queue, "queued"), x \in pass.left : q \in pass.left \/ x < q
  /\ wire.op # None => wire.op \in pass.left \cap In(queue, "queued") /\ \A x \in pass.left : wire.op <= x
  /\ wire.state = "ok" => wire.op \in landed
  /\ pass.copy # None => pass.on

OInv == Typed /\ Ordered /\ Passing

LEMMA NoneNotNat == None \notin Nat /\ None \notin Quote
  BY NoneAssumption

LEMMA ViewTyped ==
  ASSUME NEW copy \in Quote, NEW rows, Fits(rows) PROVE Overlay(copy, rows) \in Quote
  BY OverlayLaid, LaidSteps, BoundsAssumption

LEMMA QueueFits == Typed => Fits(queue)
  BY BoundsAssumption DEF Typed, Fits

LEMMA AboutLines == \A op : Op(op) => About(op) \subseteq Lines
  BY DEF Op, About

LEMMA InitOInv == Init => OInv
<1> SUFFICES ASSUME Init PROVE OInv
  OBVIOUS
<1> USE DEF Init, Idle, Silence
<1>1. Typed
  BY NoneNotNat, BoundsAssumption DEF Typed
<1>2. Ordered /\ Passing
  BY DEF Ordered, Passing, In
<1> QED
  BY <1>1, <1>2 DEF OInv

LEMMA FirstIs ==
  ASSUME NEW ids \in SUBSET Nat, ids # {}
  PROVE  First(ids) \in ids /\ \A k \in ids : First(ids) <= k
  BY Least DEF First

\* Everything before what is out has been taken.
LEMMA SentFirst ==
  ASSUME OInv, wire.op # None
  PROVE  /\ wire.op \in In(queue, "queued") /\ wire.op \in DOMAIN queue /\ wire.op \in 1..MaxEdits
         /\ \A i \in DOMAIN queue : i < wire.op => queue[i].status = "delivered"
<1> USE BoundsAssumption DEF OInv
<1>1. wire.op \in pass.left \cap In(queue, "queued") /\ \A x \in pass.left : wire.op <= x
  BY DEF Passing
<1>2. wire.op \in DOMAIN queue /\ wire.op \in 1..MaxEdits
  BY <1>1 DEF In, Typed
<1>3. ASSUME NEW i \in DOMAIN queue, i < wire.op, queue[i].status # "delivered" PROVE FALSE
  <2>1. i \in In(queue, "queued")
    BY <1>1, <1>3 DEF Typed, Passing, In
  <2>2. i \in pass.left \/ wire.op < i
    BY <1>1, <2>1 DEF Passing
  <2> QED
    BY <1>1, <1>3, <2>2 DEF Typed
<1> QED
  BY <1>1, <1>2, <1>3

\* One more edit, and a flush if there is signal.
LEMMA EnqueueOInv ==
  ASSUME OInv, NEW op, Op(op), NEW signal, Enqueue(op, signal) PROVE OInv'
<1> USE BoundsAssumption, NoneNotNat DEF OInv, Enqueue, office_vars
<1> DEFINE id == made + 1
           rows == [i \in DOMAIN queue \cup {id} |->
                      IF i = id THEN [body |-> op, status |-> "queued"] ELSE queue[i]]
<1>1. id \in 1..MaxEdits /\ id \notin DOMAIN queue /\ id \notin landed /\ made' = id /\ queue' = rows
  BY DEF Typed
<1>2. DOMAIN rows = DOMAIN queue \cup {id} /\ rows[id] = [body |-> op, status |-> "queued"]
      /\ \A i \in DOMAIN queue : rows[i] = queue[i]
  BY <1>1
<1> HIDE DEF rows
<1>3. In(rows, "queued") = In(queue, "queued") \cup {id} /\ In(rows, "delivered") = In(queue, "delivered")
      /\ In(rows, "refused") = In(queue, "refused")
  BY <1>1, <1>2 DEF In
<1>4. pass' = pass \/ pass' = [pass EXCEPT !.again = TRUE] \/ (~pass.on /\ pass' = Flush(rows))
  BY DEF rows
<1>5. pass' \in [on : BOOLEAN, left : SUBSET (1..id), delivered : BOOLEAN, again : BOOLEAN, copy : Quote \cup {None}]
  <2>1. pass \in [on : BOOLEAN, left : SUBSET (1..made), delivered : BOOLEAN, again : BOOLEAN, copy : Quote \cup {None}]
        /\ made \in Nat /\ In(rows, "queued") \subseteq 1..id
    BY <1>1, <1>3 DEF Typed, In
  <2>2. CASE pass' = pass \/ pass' = [pass EXCEPT !.again = TRUE]
    <3>1. pass.left \in SUBSET (1..id)
      BY <1>1, <2>1
    <3>2. pass \in [on : BOOLEAN, left : SUBSET (1..id), delivered : BOOLEAN, again : BOOLEAN,
                    copy : Quote \cup {None}]
      BY <2>1, <3>1
    <3> QED
      BY <2>2, <3>2
  <2>3. CASE pass' = Flush(rows)
    <3>1. Snapshot(rows) \in SUBSET (1..id)
      BY <2>1 DEF Snapshot
    <3> QED
      BY <2>3, <3>1 DEF Flush
  <2> QED
    BY <1>4, <2>2, <2>3
<1>6. Typed'
  <2>1. Fits(rows)
    BY <1>1, <1>2 DEF Fits, Typed
  <2>2. mine' \in Quote
    <3>1. Overlay(mirror, rows) \in Quote
      BY <2>1, ViewTyped DEF Typed
    <3>2. mine' = [l \in Lines |-> IF l \in About(op) THEN Overlay(mirror, rows)[l] ELSE mine[l]]
      BY DEF rows
    <3> QED
      BY <3>1, <3>2 DEF Typed, Quote
  <2>3. queue' = [i \in DOMAIN queue' |-> [body |-> queue'[i].body, status |-> queue'[i].status]]
    <3>1. \A i \in DOMAIN queue : queue[i] = [body |-> queue[i].body, status |-> queue[i].status]
      BY DEF Typed
    <3>2. queue' = [i \in DOMAIN queue' |-> queue'[i]]
      BY <1>1 DEF rows
    <3>3. \A i \in DOMAIN queue' : queue'[i] = [body |-> queue'[i].body, status |-> queue'[i].status]
      BY <1>1, <1>2, <3>1
    <3> QED
      BY <3>2, <3>3
  <2>4. DOMAIN queue' \subseteq 1..made' /\ made' \in 0..MaxEdits
        /\ \A i \in DOMAIN queue' : Op(queue'[i].body) /\ queue'[i].status \in {"queued", "delivered", "refused"}
    BY <1>1, <1>2 DEF Typed
  <2>5. waiting' \subseteq 1..made' /\ landed' \subseteq 1..made'
        /\ wire' \in [op : (1..made') \cup {None}, state : {"idle", "out", "ok", "refused"}]
    BY <1>1 DEF Typed
  <2> QED
    BY <1>1, <1>5, <2>2, <2>3, <2>4, <2>5 DEF Typed
<1>7. Ordered'
  BY <1>1, <1>2, <1>3 DEF Ordered, Typed
<1>8. Passing'
  <2>1. wire' = wire /\ (wire.op # None => pass.on) /\ landed' = landed
    BY DEF Passing
  <2>2. CASE ~pass.on /\ pass' = Flush(rows)
    BY <1>1, <1>3, <2>1, <2>2 DEF Passing, Flush, Snapshot, Typed
  <2>3. CASE pass' = pass \/ pass' = [pass EXCEPT !.again = TRUE]
    <3>1. pass'.left = pass.left /\ pass'.on = pass.on /\ pass'.copy = pass.copy
      BY <2>3 DEF Typed
    <3>2. pass.left \subseteq 1..made /\ made \in Nat
      BY DEF Typed
    <3> QED
      BY <1>1, <1>3, <2>1, <3>1, <3>2 DEF Passing
  <2> QED
    BY <1>4, <2>2, <2>3
<1> QED
  BY <1>6, <1>7, <1>8

\* What the technician does.
Edits == \E l \in Lines, signal \in BOOLEAN :
  \/ \E row \in Row : AddLine(l, row, signal)
  \/ \E v \in Values : OrderLines(l, v, signal) \/ \E f \in Fields : EditLine(l, f, v, signal)
  \/ RemoveLine(l, signal)

\* What is known of an edit when it is made.
Seen(op) ==
  /\ op.kind = "add" => /\ office[op.line] = None
                        /\ \A i \in DOMAIN queue : op.line \notin About(queue[i].body)
  /\ op.kind = "edit" => View[op.line] # None /\ op.was = View[op.line][op.field]

LEMMA EditsSeen ==
  ASSUME Typed, Edits PROVE \E op, signal : Op(op) /\ Seen(op) /\ Enqueue(op, signal)
<1>1. View \in Quote
  BY QueueFits, ViewTyped DEF View, Typed
<1>2. PICK l \in Lines, signal \in BOOLEAN :
        \/ \E row \in Row : AddLine(l, row, signal)
        \/ \E v \in Values : OrderLines(l, v, signal) \/ \E f \in Fields : EditLine(l, f, v, signal)
        \/ RemoveLine(l, signal)
  BY DEF Edits
<1>3. ASSUME NEW row \in Row, AddLine(l, row, signal)
      PROVE  \E op : Op(op) /\ Seen(op) /\ Enqueue(op, signal)
  <2> DEFINE op == [kind |-> "add", line |-> l, to |-> row]
  <2>1. Op(op) /\ Seen(op)
    BY <1>3 DEF Op, Seen, AddLine
  <2> QED
    BY <1>3, <2>1 DEF AddLine
<1>4. ASSUME NEW v \in Values, NEW f \in Fields, EditLine(l, f, v, signal)
      PROVE \E op : Op(op) /\ Seen(op) /\ Enqueue(op, signal)
  <2> DEFINE op == [kind |-> "edit", line |-> l, field |-> f, was |-> View[l][f], to |-> v]
  <2>1. View[l][f] \in Values
    BY <1>1, <1>4 DEF EditLine, Quote, Row
  <2>2. Op(op) /\ Seen(op)
    BY <1>4, <2>1 DEF Op, Seen, EditLine
  <2> QED
    BY <1>4, <2>2 DEF EditLine
<1>5. ASSUME NEW v \in Values, OrderLines(l, v, signal)
      PROVE  \E op : Op(op) /\ Seen(op) /\ Enqueue(op, signal)
  <2> DEFINE was == [k \in Held(View) |-> View[k].option]
             op == [kind |-> "order", was |-> was, to |-> [was EXCEPT ![l] = v]]
  <2>1. Held(View) \subseteq Lines /\ \A k \in Held(View) : View[k].option \in Values
    BY <1>1 DEF Held, Quote, Row, Fields
  <2>2. Op(op) /\ Seen(op)
    BY <2>1 DEF Op, Seen
  <2>3. Enqueue(op, signal)
    BY <1>5 DEF OrderLines
  <2> QED
    BY <2>2, <2>3
<1>6. ASSUME RemoveLine(l, signal) PROVE \E op : Op(op) /\ Seen(op) /\ Enqueue(op, signal)
  <2> DEFINE op == [kind |-> "remove", line |-> l]
  <2>1. Op(op) /\ Seen(op)
    BY DEF Op, Seen
  <2> QED
    BY <1>6, <2>1 DEF RemoveLine
<1> QED
  BY <1>2, <1>3, <1>4, <1>5, <1>6

\* Edits that leave the queue: what is out is not among them.
LEMMA DropOInv ==
  ASSUME OInv, NEW gone \in SUBSET DOMAIN queue, wire.op \notin gone, Drop(gone), waiting' \subseteq waiting,
         UNCHANGED <<office_vars, mirror, pass, wire, made, screen, landed>>
  PROVE  OInv'
<1> USE BoundsAssumption, NoneNotNat DEF OInv, Drop, office_vars
<1> DEFINE rows == [i \in DOMAIN queue \ gone |-> queue[i]]
<1>1. queue' = rows
  OBVIOUS
<1>2. DOMAIN rows = DOMAIN queue \ gone /\ \A i \in DOMAIN rows : rows[i] = queue[i]
  OBVIOUS
<1>3. Typed'
  <2>1. Fits(rows)
    BY <1>2 DEF Fits, Typed
  <2>2. Overlay(mirror, rows) \in Quote
    BY <2>1, ViewTyped DEF Typed
  <2>3. mine' \in Quote
    BY <2>2 DEF Typed, Quote
  <2>4. theirs' \subseteq Lines
    BY AboutLines DEF Typed
  <2>5. queue' = [i \in DOMAIN queue' |-> [body |-> queue'[i].body, status |-> queue'[i].status]]
    <3>1. \A i \in DOMAIN queue : queue[i] = [body |-> queue[i].body, status |-> queue[i].status]
      BY DEF Typed
    <3> QED
      BY <1>1, <1>2, <3>1
  <2>6. DOMAIN queue' \subseteq 1..made'
        /\ \A i \in DOMAIN queue' : Op(queue'[i].body) /\ queue'[i].status \in {"queued", "delivered", "refused"}
    BY <1>1, <1>2 DEF Typed
  <2> QED
    BY <2>3, <2>4, <2>5, <2>6 DEF Typed
<1>4. Ordered'
  BY <1>1, <1>2 DEF Ordered, In
<1>5. Passing'
  BY <1>1, <1>2 DEF Passing, In
<1> QED
  BY <1>3, <1>4, <1>5

\* The status of a row changes.
LEMMA MarkRows ==
  ASSUME Typed, NEW id \in DOMAIN queue, NEW s \in {"queued", "delivered", "refused"}, Mark(id, s)
  PROVE  /\ DOMAIN queue' = DOMAIN queue
         /\ \A i \in DOMAIN queue : queue'[i].body = queue[i].body
                                    /\ queue'[i].status = IF i = id THEN s ELSE queue[i].status
         /\ queue' = [i \in DOMAIN queue' |-> [body |-> queue'[i].body, status |-> queue'[i].status]]
<1>1. \A i \in DOMAIN queue : queue[i] = [body |-> queue[i].body, status |-> queue[i].status]
  BY DEF Typed
<1>2. queue' = [queue EXCEPT ![id].status = s]
  BY DEF Mark
<1>3. DOMAIN queue' = DOMAIN queue
      /\ \A i \in DOMAIN queue : queue'[i] = IF i = id THEN [queue[i] EXCEPT !.status = s] ELSE queue[i]
  BY <1>2
<1>4. \A i \in DOMAIN queue :
        queue'[i] = [body |-> queue[i].body, status |-> IF i = id THEN s ELSE queue[i].status]
  BY <1>1, <1>3
<1>5. queue' = [i \in DOMAIN queue' |-> queue'[i]]
  BY <1>2
<1> QED
  BY <1>3, <1>4, <1>5

LEMMA HearOkOInv == ASSUME OInv, HearOk PROVE OInv'
<1> USE BoundsAssumption, NoneNotNat DEF OInv, HearOk, office_vars, Silence
<1>1. wire.op # None /\ wire.op \in pass.left \cap In(queue, "queued") /\ wire.op \in landed
  BY DEF Typed, Passing
<1>2. wire.op \in DOMAIN queue /\ wire.op \in Nat
  BY <1>1 DEF In, Typed
<1>3. DOMAIN queue' = DOMAIN queue
      /\ (\A i \in DOMAIN queue : queue'[i].body = queue[i].body
            /\ queue'[i].status = IF i = wire.op THEN "delivered" ELSE queue[i].status)
      /\ queue' = [i \in DOMAIN queue' |-> [body |-> queue'[i].body, status |-> queue'[i].status]]
  BY <1>2, MarkRows
<1>4. pass'.left = pass.left \ {wire.op} /\ pass'.on = pass.on /\ pass'.copy = pass.copy
      /\ pass' \in [on : BOOLEAN, left : SUBSET (1..made), delivered : BOOLEAN, again : BOOLEAN,
                    copy : Quote \cup {None}]
  BY DEF Typed
<1>5. wire'.op = None /\ wire'.state = "idle"
  OBVIOUS
<1>6. Typed'
  BY <1>3, <1>4, <1>5 DEF Typed
<1>7. Ordered'
  BY <1>1, <1>2, <1>3 DEF Ordered, In, Typed
<1>8. Passing'
  BY <1>1, <1>2, <1>3, <1>4, <1>5 DEF Passing, In
<1> QED
  BY <1>6, <1>7, <1>8

LEMMA HearRefusedOInv == ASSUME OInv, HearRefused PROVE OInv'
<1> USE BoundsAssumption, NoneNotNat DEF OInv, HearRefused, office_vars, Silence
<1>1. wire.op # None /\ wire.op \in pass.left \cap In(queue, "queued") /\ \A x \in pass.left : wire.op <= x
  BY DEF Typed, Passing
<1>2. wire.op \in DOMAIN queue /\ wire.op \in Nat
  BY <1>1 DEF In, Typed
<1>3. DOMAIN queue' = DOMAIN queue
      /\ (\A i \in DOMAIN queue : queue'[i].body = queue[i].body
            /\ queue'[i].status = IF i = wire.op THEN "refused" ELSE queue[i].status)
      /\ queue' = [i \in DOMAIN queue' |-> [body |-> queue'[i].body, status |-> queue'[i].status]]
  BY <1>2, MarkRows
<1>4. pass'.left = {} /\ pass'.on = pass.on /\ pass'.copy = pass.copy
      /\ pass' \in [on : BOOLEAN, left : SUBSET (1..made), delivered : BOOLEAN, again : BOOLEAN,
                    copy : Quote \cup {None}]
  BY DEF Typed
<1>5. wire'.op = None /\ wire'.state = "idle"
  OBVIOUS
<1>6. Typed'
  <2>1. mine' \in Quote
    <3>1. Fits(queue')
      BY <1>3 DEF Fits, Typed
    <3>2. Overlay(mirror, queue') \in Quote
      BY <3>1, ViewTyped DEF Typed
    <3> QED
      BY <3>2 DEF Typed, Quote
  <2>2. theirs' \subseteq Lines
    BY <1>2, AboutLines DEF Typed
  <2> QED
    BY <1>3, <1>4, <1>5, <2>1, <2>2 DEF Typed
<1>7. Ordered'
  <2>1. \A i \in DOMAIN queue : i < wire.op => queue[i].status = "delivered"
    BY <1>1, SentFirst
  <2> QED
    BY <1>1, <1>2, <1>3, <2>1 DEF Ordered, In, Typed
<1>8. Passing'
  BY <1>3, <1>4, <1>5 DEF Passing
<1> QED
  BY <1>6, <1>7, <1>8

LEMMA SendOInv == ASSUME OInv, Send PROVE OInv'
<1> USE BoundsAssumption, NoneNotNat DEF OInv, Send, office_vars, Silence
<1> DEFINE id == First(pass.left)
<1>1. id \in pass.left /\ \A x \in pass.left : id <= x
  <2>1. pass.left \in SUBSET Nat
    BY DEF Typed
  <2> QED
    BY <2>1, FirstIs
<1> HIDE DEF id
<1>2. CASE id \in In(queue, "queued")
  <2>1. wire' = [op |-> id, state |-> "out"] /\ pass' = pass
    BY <1>2 DEF id, StillQueued
  <2>2. Typed'
    BY <1>1, <2>1 DEF Typed
  <2>3. Ordered'
    BY DEF Ordered
  <2>4. Passing'
    BY <1>1, <1>2, <2>1 DEF Passing
  <2> QED
    BY <2>2, <2>3, <2>4
<1>3. CASE id \notin In(queue, "queued")
  <2>1. pass' = [pass EXCEPT !.left = @ \ {id}] /\ wire' = wire
    BY <1>3 DEF id, StillQueued
  <2>2. pass'.left = pass.left \ {id} /\ pass'.on = pass.on /\ pass'.copy = pass.copy
        /\ pass' \in [on : BOOLEAN, left : SUBSET (1..made), delivered : BOOLEAN, again : BOOLEAN,
                      copy : Quote \cup {None}]
    BY <2>1 DEF Typed
  <2>3. Typed'
    BY <2>1, <2>2 DEF Typed
  <2>4. Ordered'
    BY DEF Ordered
  <2>5. Passing'
    BY <1>3, <2>1, <2>2 DEF Passing
  <2> QED
    BY <2>3, <2>4, <2>5
<1> QED
  BY <1>2, <1>3

\* What the office holds after an edit it takes is a quote.
LEMMA AfterTyped == ASSUME Typed, NEW op, Op(op) PROVE After(op) \in Quote
  BY LayOn DEF After, Typed

LEMMA LandOInv == ASSUME OInv, Land PROVE OInv'
<1> USE BoundsAssumption, NoneNotNat DEF OInv, Land, phone_vars
<1>1. wire.op # None
  BY DEF Typed
<1>2. wire.op \in In(queue, "queued") /\ wire.op \in DOMAIN queue
      /\ \A i \in DOMAIN queue : i < wire.op => queue[i].status = "delivered"
  BY <1>1, SentFirst
<1> DEFINE op == queue[wire.op].body
<1>3. CASE Refuses(op)
  <2>1. wire' = [wire EXCEPT !.state = "refused"] /\ UNCHANGED <<office, status, landed>>
    BY <1>3
  <2>2. Typed'
    BY <1>1, <2>1 DEF Typed
  <2>3. Ordered' /\ Passing'
    BY <2>1 DEF Ordered, Passing, Typed
  <2> QED
    BY <2>2, <2>3
<1>4. CASE ~Refuses(op)
  <2>1. wire' = [wire EXCEPT !.state = "ok"] /\ office' = After(op) /\ status' = Reopened(op)
        /\ landed' = landed \cup {wire.op}
    BY <1>4
  <2>2. Typed'
    <3>1. After(op) \in Quote
      BY <1>2, AfterTyped DEF Typed
    <3>2. Reopened(op) \in {"draft", "issued", "signed"}
      BY DEF Reopened, Typed
    <3> QED
      BY <1>1, <1>2, <2>1, <3>1, <3>2 DEF Typed
  <2>3. Ordered'
    BY <1>2, <2>1 DEF Ordered
  <2>4. Passing'
    BY <2>1 DEF Passing, Typed
  <2> QED
    BY <2>2, <2>3, <2>4
<1> QED
  BY <1>3, <1>4

LEMMA HearNothingOInv == ASSUME OInv, HearNothing PROVE OInv'
<1> USE NoneNotNat DEF OInv, HearNothing, office_vars, Silence
<1>1. pass'.left = {} /\ pass'.on = pass.on /\ pass'.copy = pass.copy
      /\ pass' \in [on : BOOLEAN, left : SUBSET (1..made), delivered : BOOLEAN, again : BOOLEAN,
                    copy : Quote \cup {None}]
  BY DEF Typed
<1> QED
  BY <1>1 DEF Typed, Ordered, Passing

\* A flush begins when none runs.
LEMMA FlushTyped ==
  ASSUME Typed
  PROVE  Flush(queue) \in [on : BOOLEAN, left : SUBSET (1..made), delivered : BOOLEAN, again : BOOLEAN,
                           copy : Quote \cup {None}]
<1>1. Snapshot(queue) \in SUBSET (1..made)
  BY DEF Snapshot, In, Typed
<1> QED
  BY <1>1 DEF Flush

LEMMA FlushOInv ==
  ASSUME OInv, wire.op = None, pass' = Flush(queue),
         UNCHANGED <<office_vars, queue, mirror, wire, waiting, made, screen, landed, theirs, mine>>
  PROVE  OInv'
<1> USE NoneNotNat DEF OInv, office_vars
<1>1. Typed'
  BY FlushTyped DEF Typed
<1>2. Ordered'
  BY DEF Ordered
<1>3. Passing'
  BY DEF Passing, Flush, Snapshot
<1> QED
  BY <1>1, <1>2, <1>3

LEMMA OnlineOInv == ASSUME OInv, Online PROVE OInv'
<1>1. CASE pass.on
  <2> USE <1>1 DEF OInv, Online, office_vars
  <2>1. pass'.left = pass.left /\ pass'.on = pass.on /\ pass'.copy = pass.copy
        /\ pass' \in [on : BOOLEAN, left : SUBSET (1..made), delivered : BOOLEAN, again : BOOLEAN,
                      copy : Quote \cup {None}]
    BY DEF Typed
  <2> QED
    BY <2>1 DEF Typed, Ordered, Passing
<1>2. CASE ~pass.on
  <2>1. wire.op = None
    BY <1>2 DEF OInv, Passing
  <2> QED
    BY <1>2, <2>1, FlushOInv DEF Online
<1> QED
  BY <1>1, <1>2

LEMMA EndPassOInv == ASSUME OInv, EndPass PROVE OInv'
<1>1. wire.op = None
  BY DEF EndPass, OInv, Passing
<1>2. CASE pass.again
  BY <1>1, <1>2, FlushOInv DEF EndPass
<1>3. CASE ~pass.again
  <2> USE <1>1, <1>3 DEF OInv, EndPass, office_vars, Idle
  <2>1. Typed'
    BY DEF Typed
  <2>2. Ordered' /\ Passing'
    BY DEF Ordered, Passing, Typed
  <2> QED
    BY <2>1, <2>2
<1> QED
  BY <1>2, <1>3

LEMMA RefreshOInv == ASSUME OInv, RefreshRead \/ RefreshSave \/ RefreshFails PROVE OInv'
<1> USE NoneNotNat DEF OInv, office_vars
<1>1. CASE RefreshRead
  <2> USE <1>1 DEF RefreshRead
  <2>1. pass'.left = {} /\ pass'.on
        /\ pass' \in [on : BOOLEAN, left : SUBSET (1..made), delivered : BOOLEAN, again : BOOLEAN,
                      copy : Quote \cup {None}]
    BY DEF Typed
  <2> QED
    BY <2>1 DEF Typed, Ordered, Passing
<1>2. CASE RefreshSave
  <2> USE <1>2 DEF RefreshSave
  <2>1. pass'.left = pass.left /\ pass.left = {} /\ pass'.copy = None
        /\ pass' \in [on : BOOLEAN, left : SUBSET (1..made), delivered : BOOLEAN, again : BOOLEAN,
                      copy : Quote \cup {None}]
    BY DEF Typed, Passing
  <2>2. DOMAIN queue' \subseteq DOMAIN queue /\ queue' = [i \in DOMAIN queue' |-> queue[i]]
    BY DEF Undelivered, In
  <2>3. queue' = [i \in DOMAIN queue' |-> [body |-> queue'[i].body, status |-> queue'[i].status]]
    <3>1. \A i \in DOMAIN queue : queue[i] = [body |-> queue[i].body, status |-> queue[i].status]
      BY DEF Typed
    <3> QED
      BY <2>2, <3>1
  <2>4. DOMAIN queue' \subseteq 1..made'
        /\ \A i \in DOMAIN queue' : Op(queue'[i].body) /\ queue'[i].status \in {"queued", "delivered", "refused"}
    BY <2>2 DEF Typed
  <2>5. Typed'
    BY <2>1, <2>3, <2>4 DEF Typed
  <2>6. Ordered'
    BY <2>2 DEF Ordered, In
  <2>7. Passing'
    BY <2>1 DEF Passing
  <2> QED
    BY <2>5, <2>6, <2>7
<1>3. CASE RefreshFails
  <2> USE <1>3 DEF RefreshFails, RowsKept
  <2>1. pass'.left = {} /\ pass'.copy = None
        /\ pass' \in [on : BOOLEAN, left : SUBSET (1..made), delivered : BOOLEAN, again : BOOLEAN,
                      copy : Quote \cup {None}]
    BY DEF Typed
  <2> QED
    BY <2>1 DEF Typed, Ordered, Passing
<1> QED
  BY <1>1, <1>2, <1>3

LEMMA CloseOInv == ASSUME OInv, Close PROVE OInv'
<1> USE NoneNotNat DEF OInv, Close, office_vars, Idle, Silence
<1>1. Typed'
  BY DEF Typed
<1> QED
  BY <1>1 DEF Ordered, Passing, Typed

LEMMA ScreenOInv == ASSUME OInv, ScreenRead \/ ScreenSave PROVE OInv'
  BY NoneNotNat DEF OInv, ScreenRead, ScreenSave, office_vars, phone_vars, Typed, Ordered, Passing

LEMMA OfficeOInv ==
  ASSUME OInv, \/ \E l \in Lines, row \in Row \cup {None} : OfficeWrites(l, row)
               \/ OfficeIssues \/ CustomerSigns
  PROVE  OInv'
<1> USE DEF OInv, phone_vars
<1>1. Typed'
  <2>1. ASSUME NEW l \in Lines, NEW row \in Row \cup {None}, OfficeWrites(l, row) PROVE Typed'
    <3>1. office' \in Quote /\ theirs' \subseteq Lines
      BY <2>1 DEF OfficeWrites, Typed, Quote
    <3> QED
      BY <2>1, <3>1 DEF OfficeWrites, Typed
  <2>2. CASE OfficeIssues \/ CustomerSigns
    BY <2>2 DEF OfficeIssues, CustomerSigns, Typed
  <2> QED
    BY <2>1, <2>2
<1>2. UNCHANGED <<phone_vars, wire, landed>>
  BY DEF OfficeWrites, OfficeIssues, CustomerSigns
<1> QED
  BY <1>1, <1>2 DEF Ordered, Passing

\* What leaves the queue at once is never what is out.
LEMMA DiscardsDrop ==
  ASSUME OInv, \/ \E i \in DOMAIN queue : Discard(i)
               \/ DiscardAll
               \/ \E id \in waiting : Settle(id)
  PROVE  /\ waiting' \subseteq waiting
         /\ UNCHANGED <<office_vars, mirror, pass, wire, made, screen, landed>>
         /\ \/ UNCHANGED <<queue, mine, theirs>>
            \/ \E gone \in SUBSET DOMAIN queue :
                 /\ wire.op \notin gone /\ Drop(gone)
                 /\ \/ \E i \in DOMAIN queue : gone = GoesWith(i)
                    \/ gone = DOMAIN queue \ In(queue, "delivered")
                    \/ gone \subseteq In(queue, "refused")
<1>1. ASSUME NEW i \in DOMAIN queue, Discard(i)
      PROVE  GoesWith(i) \in SUBSET DOMAIN queue /\ wire.op \notin GoesWith(i) /\ Drop(GoesWith(i))
  BY <1>1 DEF Discard, NotInFlight, GoesWith
<1>2. ASSUME DiscardAll
      PROVE  LET gone == DOMAIN queue \ In(queue, "delivered")
             IN  gone \in SUBSET DOMAIN queue /\ wire.op \notin gone /\ Drop(gone)
  BY <1>2 DEF DiscardAll, NotInFlight
<1>3. ASSUME NEW id \in waiting, Settle(id)
      PROVE  LET gone == In(queue, "refused") \cap {id}
             IN  UNCHANGED <<queue, mine, theirs>>
                 \/ (gone \in SUBSET DOMAIN queue /\ wire.op \notin gone /\ Drop(gone)
                     /\ gone \subseteq In(queue, "refused"))
  <2>1. wire.op = None
    BY <1>3 DEF Settle, OInv, Passing
  <2>2. In(queue, "refused") \subseteq DOMAIN queue /\ DOMAIN queue \subseteq Nat
    BY DEF In, OInv, Typed
  <2> QED
    BY <1>3, <2>1, <2>2, NoneNotNat DEF Settle
<1>4. waiting' \subseteq waiting /\ UNCHANGED <<office_vars, mirror, pass, wire, made, screen, landed>>
  BY DEF Discard, DiscardAll, Settle
<1> QED
  BY <1>1, <1>2, <1>3, <1>4

LEMMA DiscardsOInv ==
  ASSUME OInv, \/ \E i \in DOMAIN queue : Discard(i)
               \/ DiscardAll
               \/ \E id \in waiting : Settle(id)
  PROVE  OInv'
<1>1. CASE UNCHANGED <<queue, mine, theirs>>
  BY <1>1, DiscardsDrop DEF OInv, office_vars, Typed, Ordered, Passing
<1>2. CASE \E gone \in SUBSET DOMAIN queue : wire.op \notin gone /\ Drop(gone)
  BY <1>2, DiscardsDrop, DropOInv
<1> QED
  BY <1>1, <1>2, DiscardsDrop

\* The other steps that are several.
Discards == (\E i \in DOMAIN queue : Discard(i)) \/ DiscardAll \/ \E id \in waiting : Settle(id)
AtTheOffice == (\E l \in Lines, row \in Row \cup {None} : OfficeWrites(l, row)) \/ OfficeIssues \/ CustomerSigns

LEMMA NextIs ==
  Next => \/ Edits \/ Discards \/ AtTheOffice
          \/ Online \/ Send \/ Land \/ HearOk \/ HearRefused \/ HearNothing
          \/ RefreshRead \/ RefreshSave \/ RefreshFails \/ EndPass \/ Close \/ ScreenRead \/ ScreenSave
  BY DEF Next, Edits, Discards, AtTheOffice

LEMMA EditsOInv == ASSUME OInv, Edits PROVE OInv'
<1>1. PICK op, signal : Op(op) /\ Enqueue(op, signal)
  BY EditsSeen DEF OInv
<1> QED
  BY <1>1, EnqueueOInv

LEMMA StepOInv == OInv /\ [Next]_vars => OInv'
<1> SUFFICES ASSUME OInv, [Next]_vars PROVE OInv'
  OBVIOUS
<1>1. CASE UNCHANGED vars
  BY <1>1 DEF vars, OInv, Typed, Ordered, Passing
<1>2. CASE Next
  BY <1>2, NextIs, EditsOInv, DiscardsOInv, OfficeOInv, OnlineOInv, SendOInv, LandOInv, HearOkOInv,
     HearRefusedOInv, HearNothingOInv, RefreshOInv, EndPassOInv, CloseOInv, ScreenOInv DEF Discards, AtTheOffice
<1> QED
  BY <1>1, <1>2

LEMMA OrderInvariance == Spec => []OInv
  BY InitOInv, StepOInv, PTL DEF Spec

(* The queue goes out in order, for any number of edits, passes, restarts  *)
(* and discards: what is out is still on the queue, and everything made    *)
(* before it has been taken.                                               *)
THEOREM QuotesSentInOrder == Spec => []SentInOrder
<1>1. OInv => SentInOrder
  BY SentFirst DEF SentInOrder
<1> QED
  BY <1>1, OrderInvariance, PTL

-----------------------------------------------------------------------------
(* The edits taken and the edits owed, laid over a line.                   *)

Part(rows, S) == [i \in S |-> rows[i]]
Sound(rows, S) ==
  S \subseteq DOMAIN rows /\ S \subseteq 1..MaxEdits
  /\ \A i \in S : Op(rows[i].body) /\ rows[i].status # "refused"
Upon(rows, S, n, l) == n \in S /\ l \in About(rows[n].body)

\* What the edits in S numbered up to n make of a line.
Play(q, rows, S, n, l) == Laid(q, Part(rows, S))[n][l]

LEMMA PartFacts ==
  ASSUME NEW rows, NEW S, Sound(rows, S)
  PROVE  /\ Fits(Part(rows, S))
         /\ \A n, l : Touches(Part(rows, S), n, l) <=> Upon(rows, S, n, l)
         /\ \A n \in S : Plays(Part(rows, S), n) /\ Part(rows, S)[n].body = rows[n].body
  BY DEF Part, Sound, Fits, Touches, Plays, Upon

LEMMA PlayTyped ==
  ASSUME NEW q \in Quote, NEW rows, NEW S, Sound(rows, S), NEW n \in 0..MaxEdits, NEW l \in Lines
  PROVE  Play(q, rows, S, n, l) \in Cell
  BY PartFacts, LaidLine DEF Play

LEMMA PlaySame ==
  ASSUME NEW q1 \in Quote, NEW q2 \in Quote, NEW r1, NEW r2, NEW S1, NEW S2, Sound(r1, S1), Sound(r2, S2),
         NEW l \in Lines, q1[l] = q2[l], NEW m \in 0..MaxEdits,
         \A n \in 1..MaxEdits : n <= m =>
           /\ Upon(r1, S1, n, l) <=> Upon(r2, S2, n, l)
           /\ Upon(r1, S1, n, l) => r1[n].body = r2[n].body
  PROVE  Play(q1, r1, S1, m, l) = Play(q2, r2, S2, m, l)
<1>1. SameTo(Part(r1, S1), Part(r2, S2), l, m)
  BY PartFacts DEF SameTo, Upon
<1>2. m \in Nat /\ m <= m /\ Fits(Part(r1, S1)) /\ Fits(Part(r2, S2))
  BY PartFacts, BoundsAssumption
<1> QED
  BY <1>1, <1>2, LaidSame DEF Play

LEMMA PlayNone ==
  ASSUME NEW q \in Quote, NEW r, NEW S, Sound(r, S), NEW l \in Lines, NEW m \in 0..MaxEdits,
         \A n \in S : n <= m => l \notin About(r[n].body)
  PROVE  Play(q, r, S, m, l) = q[l]
<1>1. Fits(Part(r, S)) /\ \A n \in 1..MaxEdits : n <= m => ~Touches(Part(r, S), n, l)
  BY PartFacts DEF Upon
<1>2. 0 \in 0..MaxEdits /\ 0 <= m
  BY BoundsAssumption
<1>3. Laid(q, Part(r, S))[m][l] = Laid(q, Part(r, S))[0][l]
  BY <1>1, <1>2, LaidQuiet
<1> QED
  BY <1>1, <1>3, LaidLine DEF Play

LEMMA PlayHides ==
  ASSUME NEW q1 \in Quote, NEW q2 \in Quote, NEW r, NEW S, Sound(r, S), NEW l \in Lines,
         NEW n \in 0..MaxEdits, NEW op, Op(op), On(l, q1[l], op) = On(l, q2[l], op)
  PROVE  On(l, Play(q1, r, S, n, l), op) = On(l, Play(q2, r, S, n, l), op)
  BY PartFacts, LaidHides DEF Play

LEMMA PlayFirst ==
  ASSUME NEW q1 \in Quote, NEW q2 \in Quote, NEW r, NEW S, Sound(r, S), NEW l \in Lines,
         NEW i \in S, \A n \in S : i <= n, q2[l] = On(l, q1[l], r[i].body),
         NEW m \in 0..MaxEdits, i <= m
  PROVE  Play(q1, r, S, m, l) = Play(q2, r, S \ {i}, m, l)
<1> DEFINE r1 == Part(r, S)
           r2 == Part(r, S \ {i})
<1>1. Sound(r, S \ {i}) /\ i \in 1..MaxEdits
  BY DEF Sound
<1>2. Fits(r1) /\ Fits(r2) /\ Plays(r1, i) /\ r1[i].body = r[i].body
  BY <1>1, PartFacts
<1>3. ~Touches(r2, i, l)
  BY <1>1, PartFacts DEF Upon
<1>4. SameBut(r1, r2, l, i)
  BY <1>1, PartFacts DEF SameBut, Upon
<1>5. \A n \in 1..MaxEdits : n < i => ~Touches(r1, n, l)
  BY PartFacts DEF Upon, Sound
<1> HIDE DEF r1, r2
<1>6. \A n \in 0..MaxEdits : i <= n => Laid(q1, r1)[n][l] = Laid(q2, r2)[n][l]
  BY <1>1, <1>2, <1>3, <1>4, <1>5, LaidFirst
<1> QED
  BY <1>6 DEF Play, r1, r2

LEMMA PlayLast ==
  ASSUME NEW q \in Quote, NEW r, NEW S, NEW k \in S, Sound(r, S), NEW l \in Lines, \A n \in S : n <= k
  PROVE  Play(q, r, S, MaxEdits, l) = On(l, Play(q, r, S \ {k}, MaxEdits, l), r[k].body)
<1> DEFINE r1 == Part(r, S \ {k})
           r2 == Part(r, S)
<1>1. Sound(r, S \ {k}) /\ k \in 1..MaxEdits
  BY DEF Sound
<1>2. Fits(r1) /\ Fits(r2) /\ Plays(r2, k) /\ r2[k].body = r[k].body
  BY <1>1, PartFacts
<1>3. ~Touches(r1, k, l)
  BY <1>1, PartFacts DEF Upon
<1>4. SameBut(r1, r2, l, k)
  BY <1>1, PartFacts DEF SameBut, Upon
<1>5. \A n \in 1..MaxEdits : k < n => ~Touches(r2, n, l)
  BY PartFacts DEF Upon, Sound
<1> HIDE DEF r1, r2
<1>6. Laid(q, r2)[MaxEdits][l] = On(l, Laid(q, r1)[MaxEdits][l], r2[k].body)
  BY <1>1, <1>2, <1>3, <1>4, <1>5, LaidLast
<1> QED
  BY <1>2, <1>6 DEF Play, r1, r2

\* The queue laid over a copy: what of it was taken gives y, the rest comes
\* after.
LEMMA OverlayIs ==
  ASSUME NEW q \in Quote, NEW y \in Quote, NEW r, Fits(r), NEW A, NEW B, Sound(r, A), Sound(r, B),
         A \cup B = {i \in DOMAIN r : r[i].status # "refused"}, \A a \in A, b \in B : a < b,
         NEW l \in Lines, Play(q, r, A, MaxEdits, l) = y[l]
  PROVE  Overlay(q, r)[l] = Play(y, r, B, MaxEdits, l)
<1> DEFINE rA == Part(r, A)
           rB == Part(r, B)
<1>1. Fits(rA) /\ Fits(rB)
  BY PartFacts
<1>2. \A n \in 1..MaxEdits :
        /\ Touches(r, n, l) <=> Touches(rA, n, l) \/ Touches(rB, n, l)
        /\ Touches(rA, n, l) => r[n].body = rA[n].body
        /\ Touches(rB, n, l) => r[n].body = rB[n].body
  <2>1. \A n \in 1..MaxEdits : Touches(r, n, l) <=> Upon(r, A, n, l) \/ Upon(r, B, n, l)
    BY DEF Touches, Plays, Upon
  <2> QED
    BY <2>1, PartFacts DEF Upon
<1>3. \A a, b \in 1..MaxEdits : Touches(rA, a, l) /\ Touches(rB, b, l) => a < b
  BY PartFacts DEF Upon
<1> HIDE DEF rA, rB
<1>4. y[l] = Laid(q, rA)[MaxEdits][l]
  BY DEF Play, rA
<1>5. Laid(q, r)[MaxEdits][l] = Laid(y, rB)[MaxEdits][l]
  BY <1>1, <1>2, <1>3, <1>4, LaidSplit
<1> QED
  BY <1>5, OverlayLaid DEF Play, rB

LEMMA PlayLike ==
  ASSUME NEW q \in Quote, NEW r1, NEW r2, NEW S1, NEW S2, Sound(r1, S1), Sound(r2, S2), NEW l \in Lines,
         NEW m \in 0..MaxEdits,
         \A n \in 1..MaxEdits : n <= m =>
           /\ Upon(r2, S2, n, l) => Upon(r1, S1, n, l) /\ r1[n].body = r2[n].body
           /\ Upon(r1, S1, n, l) /\ ~Upon(r2, S2, n, l) => Moves(r1[n].body)
  PROVE  Like(Play(q, r1, S1, m, l), Play(q, r2, S2, m, l))
<1> DEFINE p1 == Part(r1, S1)
           p2 == Part(r2, S2)
<1>1. Fits(p1) /\ Fits(p2) /\ m \in Nat /\ m <= m
  BY PartFacts, BoundsAssumption
<1>2. \A n \in 1..MaxEdits : n <= m =>
        /\ Touches(p2, n, l) => Touches(p1, n, l) /\ p1[n].body = p2[n].body
        /\ Touches(p1, n, l) /\ ~Touches(p2, n, l) => Moves(p1[n].body)
  BY PartFacts DEF Upon
<1> HIDE DEF p1, p2
<1>3. \A n \in 0..MaxEdits : n <= m => Like(Laid(q, p1)[n][l], Laid(q, p2)[n][l])
  BY <1>1, <1>2, LaidLike
<1> QED
  BY <1>1, <1>3 DEF Play, p1, p2

LEMMA PlayGone ==
  ASSUME NEW q \in Quote, NEW r, NEW S, Sound(r, S), NEW l \in Lines, NEW e \in S, NEW m \in 0..MaxEdits,
         e <= m, Upon(r, S, e, l), r[e].body.kind = "remove",
         \A n \in S : e < n /\ l \in About(r[n].body) => r[n].body.kind # "add"
  PROVE  Play(q, r, S, m, l) = None
<1> DEFINE p1 == Part(r, S)
<1>1. Fits(p1) /\ m \in Nat /\ e \in 1..MaxEdits
  BY PartFacts, BoundsAssumption DEF Sound
<1>2. Touches(p1, e, l) /\ p1[e].body.kind = "remove"
  BY PartFacts
<1>3. \A n \in 1..MaxEdits : e < n /\ n <= m /\ Touches(p1, n, l) => p1[n].body.kind # "add"
  BY PartFacts DEF Upon
<1> HIDE DEF p1
<1>4. \A n \in 0..MaxEdits : e <= n /\ n <= m => Laid(q, p1)[n][l] = None
  BY <1>1, <1>2, <1>3, LaidGone
<1> QED
  BY <1>4 DEF Play, p1

-----------------------------------------------------------------------------
(* From the saved copy to the office's quote, and on to the technician's.  *)

\* On the queue and at the office, whether the phone heard so or not.
Taken == {i \in landed \cap DOMAIN queue : queue[i].status # "refused"}
Owed == In(queue, "queued") \ landed

Parts ==
  /\ Fits(queue) /\ Sound(queue, Taken) /\ Sound(queue, Owed)
  /\ Taken \cup Owed = {i \in DOMAIN queue : queue[i].status # "refused"}
  /\ \A a \in Taken, b \in Owed : a < b

\* A line is added once, before anything else is done to it.
Adds ==
  \A k \in DOMAIN queue : queue[k].body.kind = "add" =>
    /\ \A i \in DOMAIN queue : i < k => queue[k].body.line \notin About(queue[i].body)
    /\ (k \in Owed /\ queue[k].body.line \notin theirs) => office[queue[k].body.line] = None

\* What was edited is still there when the edit arrives again.
EditsHeld ==
  \A k \in landed \cap In(queue, "queued") :
    (queue[k].body.kind = "edit" /\ queue[k].body.line \notin theirs) => office[queue[k].body.line] # None

CopyFits == pass.copy # None => \A l \in Lines \ theirs : pass.copy[l] = office[l]

\* Only an order is refused after it has landed.
RefusedNew ==
  wire.state = "refused" =>
    \/ queue[wire.op].body.kind = "order"
    \/ queue[wire.op].body.line \in theirs
    \/ wire.op \notin landed

Agree ==
  \A l \in Lines \ theirs :
    /\ Play(mirror, queue, Taken, MaxEdits, l) = office[l]
    /\ Play(office, queue, Taken, MaxEdits, l) = office[l]
    /\ Play(office, queue, Owed, MaxEdits, l) = mine[l]

LInv == OInv /\ Adds /\ EditsHeld /\ CopyFits /\ RefusedNew /\ Agree

LEMMA PartsOk == OInv => Parts
<1> SUFFICES ASSUME OInv PROVE Parts
  OBVIOUS
<1> USE BoundsAssumption DEF OInv
<1>1. DOMAIN queue \subseteq 1..MaxEdits
  BY DEF Typed
<1>2. Fits(queue)
  BY QueueFits
<1>3. Sound(queue, Taken) /\ Sound(queue, Owed)
  BY <1>1 DEF Sound, Taken, Owed, In, Typed
<1>4. Taken \cup Owed = {i \in DOMAIN queue : queue[i].status # "refused"}
  BY DEF Taken, Owed, In, Ordered, Typed
<1>5. ASSUME NEW a \in Taken, NEW b \in Owed PROVE a < b
  <2>1. a \in DOMAIN queue /\ b \in DOMAIN queue /\ a \in landed /\ b \notin landed /\ queue[b].status = "queued"
    BY DEF Taken, Owed, In
  <2>2. ~(b < a)
    BY <2>1 DEF Ordered
  <2> QED
    BY <1>1, <2>1, <2>2
<1> QED
  BY <1>2, <1>3, <1>4, <1>5 DEF Parts

LEMMA PartsNext == OInv' => Parts'
  BY PartsOk, PTL

LEMMA EmptyQueue ==
  ASSUME NEW q \in Quote, NEW l \in Lines PROVE Play(q, <<>>, {}, MaxEdits, l) = q[l]
<1>1. Sound(<<>>, {}) /\ MaxEdits \in 0..MaxEdits
  BY BoundsAssumption DEF Sound
<1> QED
  BY <1>1, PlayNone

LEMMA InitLInv == Init => LInv
<1> SUFFICES ASSUME Init PROVE LInv
  OBVIOUS
<1>1. OInv
  BY InitOInv
<1>2. queue = <<>> /\ Taken = {} /\ Owed = {} /\ mirror = office /\ mine = office /\ office \in Quote
  BY DEF Init, Taken, Owed, In
<1>3. Agree
  BY <1>2, EmptyQueue DEF Agree
<1> QED
  BY <1>1, <1>2, <1>3 DEF LInv, Init, Idle, Silence, Adds, EditsHeld, CopyFits, RefusedNew, In

\* A step that leaves the quotes and the queue alone.
LEMMA StillLInv ==
  ASSUME LInv, OInv', UNCHANGED <<office, mirror, mine, queue, landed, theirs>>,
         pass'.copy \in {pass.copy, None, office},
         wire'.state = "refused" => UNCHANGED wire
  PROVE  LInv'
<1>1. Taken' = Taken /\ Owed' = Owed
  BY DEF Taken, Owed
<1>2. Adds' /\ EditsHeld'
  BY <1>1 DEF LInv, Adds, EditsHeld
<1>3. CopyFits'
  BY DEF LInv, CopyFits
<1>4. RefusedNew'
  BY DEF LInv, RefusedNew
<1>5. Agree'
  BY <1>1 DEF LInv, Agree, Play
<1> QED
  BY <1>2, <1>3, <1>4, <1>5 DEF LInv

LEMMA StillStepsLInv ==
  ASSUME LInv, OInv',
         Online \/ Send \/ HearNothing \/ RefreshRead \/ RefreshFails \/ EndPass \/ Close \/ ScreenRead
           \/ OfficeIssues \/ CustomerSigns
  PROVE  LInv'
<1>1. UNCHANGED <<office, mirror, mine, queue, landed, theirs>>
  BY DEF Online, Send, HearNothing, RefreshRead, RefreshFails, RowsKept, EndPass, Close, ScreenRead,
         OfficeIssues, CustomerSigns, office_vars, phone_vars
<1>2. pass'.copy \in {pass.copy, None, office}
  <2>1. pass \in [on : BOOLEAN, left : SUBSET (1..made), delivered : BOOLEAN, again : BOOLEAN,
                  copy : Quote \cup {None}]
    BY DEF LInv, OInv, Typed
  <2>2. CASE Online \/ EndPass \/ Close
    BY <2>1, <2>2 DEF Online, EndPass, Close, Flush, Idle
  <2>3. CASE Send \/ HearNothing
    BY <2>1, <2>3 DEF Send, HearNothing
  <2>4. CASE RefreshRead \/ RefreshFails
    BY <2>1, <2>4 DEF RefreshRead, RefreshFails
  <2>5. CASE ScreenRead \/ OfficeIssues \/ CustomerSigns
    BY <2>5 DEF ScreenRead, OfficeIssues, CustomerSigns, phone_vars
  <2> QED
    BY <2>2, <2>3, <2>4, <2>5
<1>3. wire'.state = "refused" => UNCHANGED wire
  BY DEF Online, Send, HearNothing, RefreshRead, RefreshFails, EndPass, Close, ScreenRead,
         OfficeIssues, CustomerSigns, phone_vars, Silence
<1> QED
  BY <1>1, <1>2, <1>3, StillLInv

\* An edit the office took and the phone did not hear of: it is the last of
\* those taken, and has nothing left to do.
LEMMA LandedAgain ==
  ASSUME LInv, NEW k \in landed \cap In(queue, "queued")
  PROVE  /\ k \in Taken /\ \A n \in Taken : n <= k
         /\ \A n \in landed \cap In(queue, "queued") : n = k
         /\ \A l \in Lines \ theirs : On(l, office[l], queue[k].body) = office[l]
<1>1. k \in Taken /\ k \in DOMAIN queue /\ queue[k].status = "queued" /\ DOMAIN queue \subseteq Nat
  BY DEF Taken, In, LInv, OInv, Typed
<1>2. ASSUME NEW n \in DOMAIN queue, n \in landed PROVE n <= k
  BY <1>1, <1>2 DEF LInv, OInv, Ordered
<1>3. ASSUME NEW n \in landed \cap In(queue, "queued") PROVE n = k
  <2>1. n \in DOMAIN queue /\ queue[n].status = "queued"
    BY DEF In
  <2> QED
    BY <1>1, <1>2, <2>1 DEF LInv, OInv, Ordered
<1>4. \A n \in Taken : n <= k
  BY <1>2 DEF Taken
<1>5. ASSUME NEW l \in Lines \ theirs PROVE On(l, office[l], queue[k].body) = office[l]
  <2> DEFINE c == Play(office, queue, Taken \ {k}, MaxEdits, l)
  <2>1. Sound(queue, Taken) /\ office \in Quote
    BY PartsOk DEF LInv, Parts, OInv, Typed
  <2>2. Sound(queue, Taken \ {k}) /\ Op(queue[k].body) /\ MaxEdits \in 0..MaxEdits
    BY <1>1, <2>1, BoundsAssumption DEF Sound
  <2>3. c \in Cell
    BY <2>1, <2>2, PlayTyped
  <2>4. Play(office, queue, Taken, MaxEdits, l) = On(l, c, queue[k].body)
    BY <1>1, <1>4, <2>1, PlayLast
  <2>5. office[l] = On(l, c, queue[k].body)
    BY <2>4 DEF LInv, Agree
  <2> HIDE DEF c
  <2> QED
    BY <2>2, <2>3, <2>5, OnTwice
<1> QED
  BY <1>1, <1>3, <1>4, <1>5

\* The row an edit joins the queue with.
LEMMA EnqueueRows ==
  ASSUME OInv, NEW op, NEW signal, Enqueue(op, signal)
  PROVE  LET id == made + 1 IN
         /\ id \in 1..MaxEdits /\ id \notin DOMAIN queue /\ id \notin landed /\ \A i \in DOMAIN queue : i < id
         /\ DOMAIN queue' = DOMAIN queue \cup {id} /\ queue'[id] = [body |-> op, status |-> "queued"]
         /\ \A i \in DOMAIN queue : queue'[i] = queue[i]
         /\ Taken' = Taken /\ Owed' = Owed \cup {id}
         /\ mine' = [l \in Lines |-> IF l \in About(op) THEN Overlay(mirror, queue')[l] ELSE mine[l]]
<1> DEFINE id == made + 1
<1> USE BoundsAssumption DEF OInv
<1>1. id \in 1..MaxEdits /\ id \notin DOMAIN queue /\ id \notin landed /\ \A i \in DOMAIN queue : i < id
  BY DEF Enqueue, Typed
<1>2. queue' = [i \in DOMAIN queue \cup {id} |->
                  IF i = id THEN [body |-> op, status |-> "queued"] ELSE queue[i]]
      /\ mine' = [l \in Lines |-> IF l \in About(op) THEN Overlay(mirror, queue')[l] ELSE mine[l]]
      /\ landed' = landed
  BY DEF Enqueue
<1> HIDE DEF id
<1>3. DOMAIN queue' = DOMAIN queue \cup {id} /\ queue'[id] = [body |-> op, status |-> "queued"]
      /\ \A i \in DOMAIN queue : queue'[i] = queue[i]
  BY <1>1, <1>2
<1>4. Taken' = Taken /\ Owed' = Owed \cup {id}
  BY <1>1, <1>2, <1>3 DEF Taken, Owed, In
<1> QED
  BY <1>1, <1>2, <1>3, <1>4 DEF id

LEMMA EnqueueLInv ==
  ASSUME LInv, OInv', NEW op, Op(op), Seen(op), NEW signal, Enqueue(op, signal) PROVE LInv'
<1> DEFINE id == made + 1
<1>1. /\ id \in 1..MaxEdits /\ id \notin DOMAIN queue /\ id \notin landed /\ \A i \in DOMAIN queue : i < id
      /\ DOMAIN queue' = DOMAIN queue \cup {id} /\ queue'[id] = [body |-> op, status |-> "queued"]
      /\ \A i \in DOMAIN queue : queue'[i] = queue[i]
      /\ Taken' = Taken /\ Owed' = Owed \cup {id}
      /\ mine' = [l \in Lines |-> IF l \in About(op) THEN Overlay(mirror, queue')[l] ELSE mine[l]]
  BY EnqueueRows DEF LInv
<1> HIDE DEF id
<1>2. UNCHANGED <<office, mirror, wire, landed, theirs>>
  BY DEF Enqueue, office_vars
<1>3. Adds'
  <2>1. ASSUME NEW k \in DOMAIN queue', queue'[k].body.kind = "add"
        PROVE  /\ \A i \in DOMAIN queue' : i < k => queue'[k].body.line \notin About(queue'[i].body)
               /\ (k \in Owed' /\ queue'[k].body.line \notin theirs') => office'[queue'[k].body.line] = None
    <3>1. CASE k = id
      BY <1>1, <1>2, <2>1, <3>1 DEF Seen
    <3>2. CASE k # id
      <4>1. k \in DOMAIN queue /\ ~(id < k)
        BY <1>1, <3>2 DEF LInv, OInv, Typed
      <4> QED
        BY <1>1, <1>2, <2>1, <3>2, <4>1 DEF LInv, Adds
    <3> QED
      BY <3>1, <3>2
  <2> QED
    BY <2>1 DEF Adds
<1>4. EditsHeld'
  BY <1>1, <1>2 DEF LInv, EditsHeld, In
<1>5. CopyFits'
  <2>1. pass'.copy \in {pass.copy, None}
    <3>1. pass \in [on : BOOLEAN, left : SUBSET (1..made), delivered : BOOLEAN, again : BOOLEAN,
                    copy : Quote \cup {None}]
      BY DEF LInv, OInv, Typed
    <3> QED
      BY <3>1 DEF Enqueue, Flush
  <2> QED
    BY <1>2, <2>1 DEF LInv, CopyFits
<1>6. RefusedNew'
  <2>1. wire.state = "refused" => wire.op \in DOMAIN queue
    BY SentFirst DEF LInv, OInv, Typed
  <2> QED
    BY <1>1, <1>2, <2>1 DEF LInv, RefusedNew
<1>7. Agree'
  <2>1. Parts /\ Parts' /\ office \in Quote /\ mirror \in Quote /\ MaxEdits \in 0..MaxEdits
    BY PartsOk, PartsNext, BoundsAssumption DEF LInv, OInv, Typed
  <2>2. Sound(queue, Taken) /\ Sound(queue, Owed) /\ Sound(queue', Taken) /\ Sound(queue', Owed')
    BY <1>1, <2>1 DEF Parts
  <2>3. Taken \subseteq DOMAIN queue /\ Owed \subseteq DOMAIN queue
    BY DEF Taken, Owed, In
  <2> SUFFICES ASSUME NEW l \in Lines \ theirs
               PROVE  /\ Play(mirror, queue', Taken, MaxEdits, l) = office[l]
                      /\ Play(office, queue', Taken, MaxEdits, l) = office[l]
                      /\ Play(office, queue', Owed', MaxEdits, l) = mine'[l]
    BY <1>1, <1>2 DEF Agree
  <2>4. \A n \in 1..MaxEdits : /\ Upon(queue', Taken, n, l) <=> Upon(queue, Taken, n, l)
                               /\ Upon(queue', Taken, n, l) => queue'[n].body = queue[n].body
    BY <1>1, <2>3 DEF Upon
  <2>5. Play(mirror, queue', Taken, MaxEdits, l) = Play(mirror, queue, Taken, MaxEdits, l)
        /\ Play(office, queue', Taken, MaxEdits, l) = Play(office, queue, Taken, MaxEdits, l)
    BY <2>1, <2>2, <2>4, PlaySame
  <2>6. Play(office, queue', Owed', MaxEdits, l) = mine'[l]
    <3>1. CASE l \in About(op)
      <4>1. mine'[l] = Overlay(mirror, queue')[l]
        BY <1>1, <3>1
      <4>2. Play(mirror, queue', Taken', MaxEdits, l) = office[l]
        BY <1>1, <2>5 DEF LInv, Agree
      <4>3. Overlay(mirror, queue')[l] = Play(office, queue', Owed', MaxEdits, l)
        BY <2>1, <4>2, OverlayIs DEF Parts
      <4> QED
        BY <4>1, <4>3
    <3>2. CASE l \notin About(op)
      <4>1. \A n \in 1..MaxEdits : /\ Upon(queue', Owed', n, l) <=> Upon(queue, Owed, n, l)
                                   /\ Upon(queue', Owed', n, l) => queue'[n].body = queue[n].body
        BY <1>1, <2>3, <3>2 DEF Upon
      <4>2. Play(office, queue', Owed', MaxEdits, l) = Play(office, queue, Owed, MaxEdits, l)
        BY <2>1, <2>2, <4>1, PlaySame
      <4> QED
        BY <1>1, <3>2, <4>2 DEF LInv, Agree
    <3> QED
      BY <3>1, <3>2
  <2> QED
    BY <2>5, <2>6 DEF LInv, Agree
<1> QED
  BY <1>3, <1>4, <1>5, <1>6, <1>7 DEF LInv

\* The lines of the edits that leave.
LinesOf(gone) == UNION {About(queue[i].body) : i \in gone}

LEMMA DropRows ==
  ASSUME OInv, NEW gone \in SUBSET DOMAIN queue, Drop(gone), landed' = landed
  PROVE  /\ DOMAIN queue' = DOMAIN queue \ gone /\ \A i \in DOMAIN queue' : queue'[i] = queue[i]
         /\ Taken' = Taken \ gone /\ Owed' = Owed \ gone
         /\ theirs' = theirs \cup LinesOf(gone \cap landed)
         /\ mine' = [l \in Lines |-> IF l \in LinesOf(gone) THEN Overlay(mirror, queue')[l] ELSE mine[l]]
  BY DEF Drop, Taken, Owed, In, LinesOf

LEMMA DropLInv ==
  ASSUME LInv, OInv', NEW gone \in SUBSET DOMAIN queue, wire.op \notin gone, Drop(gone),
         UNCHANGED <<office_vars, mirror, pass, wire, made, screen, landed>>
  PROVE  LInv'
<1>1. /\ DOMAIN queue' = DOMAIN queue \ gone /\ \A i \in DOMAIN queue' : queue'[i] = queue[i]
      /\ Taken' = Taken \ gone /\ Owed' = Owed \ gone
      /\ theirs' = theirs \cup LinesOf(gone \cap landed)
      /\ mine' = [l \in Lines |-> IF l \in LinesOf(gone) THEN Overlay(mirror, queue')[l] ELSE mine[l]]
  BY DropRows DEF LInv
<1>2. UNCHANGED <<office, mirror, pass, wire, landed>>
  BY DEF office_vars
<1>3. Adds'
  BY <1>1, <1>2 DEF LInv, Adds
<1>4. EditsHeld'
  BY <1>1, <1>2 DEF LInv, EditsHeld, In
<1>5. CopyFits'
  BY <1>1, <1>2 DEF LInv, CopyFits
<1>6. RefusedNew'
  <2>1. wire.state = "refused" => wire.op \in DOMAIN queue
    BY SentFirst DEF LInv, OInv, Typed
  <2> QED
    BY <1>1, <1>2, <2>1 DEF LInv, RefusedNew
<1>7. Agree'
  <2>1. Parts /\ Parts' /\ office \in Quote /\ mirror \in Quote /\ MaxEdits \in 0..MaxEdits
    BY PartsOk, PartsNext, BoundsAssumption DEF LInv, OInv, Typed
  <2>2. Sound(queue, Taken) /\ Sound(queue, Owed) /\ Sound(queue', Taken') /\ Sound(queue', Owed')
    BY <2>1 DEF Parts
  <2>3. Taken' \subseteq DOMAIN queue' /\ Owed' \subseteq DOMAIN queue' /\ Taken \subseteq landed
    BY <2>2 DEF Sound, Taken
  <2> SUFFICES ASSUME NEW l \in Lines \ theirs'
               PROVE  /\ Play(mirror, queue', Taken', MaxEdits, l) = office[l]
                      /\ Play(office, queue', Taken', MaxEdits, l) = office[l]
                      /\ Play(office, queue', Owed', MaxEdits, l) = mine'[l]
    BY <1>2 DEF Agree
  <2>4. l \in Lines \ theirs /\ \A n \in gone \cap landed : l \notin About(queue[n].body)
    BY <1>1 DEF LinesOf
  <2>5. \A n \in 1..MaxEdits : /\ Upon(queue', Taken', n, l) <=> Upon(queue, Taken, n, l)
                               /\ Upon(queue', Taken', n, l) => queue'[n].body = queue[n].body
    BY <1>1, <2>3, <2>4 DEF Upon
  <2>6. Play(mirror, queue', Taken', MaxEdits, l) = Play(mirror, queue, Taken, MaxEdits, l)
        /\ Play(office, queue', Taken', MaxEdits, l) = Play(office, queue, Taken, MaxEdits, l)
    BY <2>1, <2>2, <2>5, PlaySame
  <2>7. Play(office, queue', Owed', MaxEdits, l) = mine'[l]
    <3>1. CASE l \in LinesOf(gone)
      <4>1. mine'[l] = Overlay(mirror, queue')[l]
        BY <1>1, <3>1
      <4>2. Play(mirror, queue', Taken', MaxEdits, l) = office[l]
        BY <2>4, <2>6 DEF LInv, Agree
      <4>3. Overlay(mirror, queue')[l] = Play(office, queue', Owed', MaxEdits, l)
        BY <2>1, <4>2, OverlayIs DEF Parts
      <4> QED
        BY <4>1, <4>3
    <3>2. CASE l \notin LinesOf(gone)
      <4>1. \A n \in gone : l \notin About(queue[n].body)
        BY <3>2 DEF LinesOf
      <4>2. \A n \in 1..MaxEdits : /\ Upon(queue', Owed', n, l) <=> Upon(queue, Owed, n, l)
                                   /\ Upon(queue', Owed', n, l) => queue'[n].body = queue[n].body
        BY <1>1, <2>3, <4>1 DEF Upon
      <4>3. Play(office, queue', Owed', MaxEdits, l) = Play(office, queue, Owed, MaxEdits, l)
        BY <2>1, <2>2, <4>2, PlaySame
      <4> QED
        BY <1>1, <2>4, <3>2, <4>3 DEF LInv, Agree
    <3> QED
      BY <3>1, <3>2
  <2> QED
    BY <2>4, <2>6, <2>7 DEF LInv, Agree
<1> QED
  BY <1>3, <1>4, <1>5, <1>6, <1>7 DEF LInv

LEMMA DiscardsLInv == ASSUME LInv, OInv', Discards PROVE LInv'
<1>1. CASE UNCHANGED <<queue, mine, theirs>>
  BY <1>1, DiscardsDrop, StillLInv DEF Discards, LInv, office_vars
<1>2. CASE \E gone \in SUBSET DOMAIN queue : wire.op \notin gone /\ Drop(gone)
  BY <1>2, DiscardsDrop, DropLInv DEF Discards, LInv
<1> QED
  BY <1>1, <1>2, DiscardsDrop DEF Discards, LInv

\* The answers.
LEMMA HearOkLInv == ASSUME LInv, OInv', HearOk PROVE LInv'
<1>1. wire.op # None /\ wire.op \in landed
  BY DEF HearOk, LInv, OInv, Typed, Passing
<1>2. wire.op \in DOMAIN queue /\ queue[wire.op].status = "queued"
  BY <1>1, SentFirst DEF LInv, In
<1>3. DOMAIN queue' = DOMAIN queue
      /\ (\A i \in DOMAIN queue : queue'[i].body = queue[i].body
            /\ queue'[i].status = IF i = wire.op THEN "delivered" ELSE queue[i].status)
  BY <1>2, MarkRows DEF HearOk, LInv, OInv
<1>4. UNCHANGED <<office, mirror, mine, landed, theirs>> /\ wire'.state = "idle"
  BY DEF HearOk, office_vars, Silence
<1>5. Taken' = Taken /\ Owed' = Owed
  BY <1>1, <1>2, <1>3, <1>4 DEF Taken, Owed, In
<1>6. Adds'
  BY <1>3, <1>4, <1>5 DEF LInv, Adds
<1>7. EditsHeld'
  BY <1>3, <1>4 DEF LInv, EditsHeld, In
<1>8. CopyFits'
  <2>1. pass'.copy = pass.copy
    BY DEF HearOk, LInv, OInv, Typed
  <2> QED
    BY <1>4, <2>1 DEF LInv, CopyFits
<1>9. RefusedNew'
  BY <1>4 DEF RefusedNew
<1>10. Agree'
  <2>1. Parts /\ Parts' /\ office \in Quote /\ mirror \in Quote /\ MaxEdits \in 0..MaxEdits
    BY PartsOk, PartsNext, BoundsAssumption DEF LInv, OInv, Typed
  <2>2. Sound(queue, Taken) /\ Sound(queue, Owed) /\ Sound(queue', Taken) /\ Sound(queue', Owed)
    BY <1>5, <2>1 DEF Parts
  <2>3. \A S, n, l : S \subseteq DOMAIN queue =>
          /\ Upon(queue', S, n, l) <=> Upon(queue, S, n, l)
          /\ Upon(queue', S, n, l) => queue'[n].body = queue[n].body
    BY <1>3 DEF Upon
  <2>4. ASSUME NEW l \in Lines \ theirs
        PROVE  /\ Play(mirror, queue', Taken, MaxEdits, l) = Play(mirror, queue, Taken, MaxEdits, l)
               /\ Play(office, queue', Taken, MaxEdits, l) = Play(office, queue, Taken, MaxEdits, l)
               /\ Play(office, queue', Owed, MaxEdits, l) = Play(office, queue, Owed, MaxEdits, l)
    <3>1. Taken \subseteq DOMAIN queue /\ Owed \subseteq DOMAIN queue
      BY <2>2 DEF Sound
    <3>2. \A n \in 1..MaxEdits :
            /\ Upon(queue', Taken, n, l) <=> Upon(queue, Taken, n, l)
            /\ Upon(queue', Taken, n, l) => queue'[n].body = queue[n].body
            /\ Upon(queue', Owed, n, l) <=> Upon(queue, Owed, n, l)
            /\ Upon(queue', Owed, n, l) => queue'[n].body = queue[n].body
      BY <2>3, <3>1
    <3> QED
      BY <2>1, <2>2, <3>2, PlaySame
  <2> QED
    BY <1>4, <1>5, <2>4 DEF LInv, Agree
<1> QED
  BY <1>6, <1>7, <1>8, <1>9, <1>10 DEF LInv

LEMMA HearRefusedRows ==
  ASSUME OInv, HearRefused
  PROVE  /\ wire.op \in DOMAIN queue /\ queue[wire.op].status = "queued"
         /\ DOMAIN queue' = DOMAIN queue
         /\ \A i \in DOMAIN queue : queue'[i].body = queue[i].body
              /\ queue'[i].status = IF i = wire.op THEN "refused" ELSE queue[i].status
         /\ Taken' = Taken \ {wire.op} /\ Owed' = Owed \ {wire.op}
<1>1. wire.op # None
  BY DEF HearRefused, OInv, Typed
<1>2. wire.op \in DOMAIN queue /\ queue[wire.op].status = "queued"
  BY <1>1, SentFirst DEF In
<1>3. DOMAIN queue' = DOMAIN queue
      /\ (\A i \in DOMAIN queue : queue'[i].body = queue[i].body
            /\ queue'[i].status = IF i = wire.op THEN "refused" ELSE queue[i].status)
  BY <1>2, MarkRows DEF HearRefused, OInv
<1>4. Taken' = Taken \ {wire.op} /\ Owed' = Owed \ {wire.op}
  BY <1>2, <1>3 DEF HearRefused, Taken, Owed, In
<1> QED
  BY <1>2, <1>3, <1>4

LEMMA HearRefusedLInv == ASSUME LInv, OInv', HearRefused PROVE LInv'
<1> DEFINE op == queue[wire.op].body
<1>1. /\ wire.op \in DOMAIN queue /\ queue[wire.op].status = "queued"
      /\ DOMAIN queue' = DOMAIN queue
      /\ \A i \in DOMAIN queue : queue'[i].body = queue[i].body
           /\ queue'[i].status = IF i = wire.op THEN "refused" ELSE queue[i].status
      /\ Taken' = Taken \ {wire.op} /\ Owed' = Owed \ {wire.op}
  BY HearRefusedRows DEF LInv
<1>2. /\ UNCHANGED <<office, mirror, landed>> /\ wire'.state = "idle"
      /\ theirs' = IF op.kind = "order" /\ wire.op \in landed THEN theirs \cup About(op) ELSE theirs
      /\ mine' = [l \in Lines |-> IF l \in About(op) THEN Overlay(mirror, queue')[l] ELSE mine[l]]
  BY DEF HearRefused, office_vars, Silence
<1>3. theirs \subseteq theirs' /\ (wire.op \in landed => About(op) \subseteq theirs')
  BY <1>2 DEF HearRefused, LInv, RefusedNew, About
<1>4. Adds'
  BY <1>1, <1>2, <1>3 DEF LInv, Adds
<1>5. EditsHeld'
  BY <1>1, <1>2, <1>3 DEF LInv, EditsHeld, In
<1>6. CopyFits'
  <2>1. pass'.copy = pass.copy
    BY DEF HearRefused, LInv, OInv, Typed
  <2> QED
    BY <1>2, <1>3, <2>1 DEF LInv, CopyFits
<1>7. RefusedNew'
  BY <1>2 DEF RefusedNew
<1>8. Agree'
  <2>1. Parts /\ Parts' /\ office \in Quote /\ mirror \in Quote /\ MaxEdits \in 0..MaxEdits
    BY PartsOk, PartsNext, BoundsAssumption DEF LInv, OInv, Typed
  <2>2. Sound(queue, Taken) /\ Sound(queue, Owed) /\ Sound(queue', Taken') /\ Sound(queue', Owed')
    BY <2>1 DEF Parts
  <2>3. Taken \subseteq DOMAIN queue /\ Owed \subseteq DOMAIN queue /\ Taken \subseteq landed
    BY <2>2 DEF Sound, Taken
  <2> SUFFICES ASSUME NEW l \in Lines \ theirs'
               PROVE  /\ Play(mirror, queue', Taken', MaxEdits, l) = office[l]
                      /\ Play(office, queue', Taken', MaxEdits, l) = office[l]
                      /\ Play(office, queue', Owed', MaxEdits, l) = mine'[l]
    BY <1>2 DEF Agree
  <2>4. l \in Lines \ theirs /\ (wire.op \in landed => l \notin About(op))
    BY <1>3
  <2>5. \A n \in 1..MaxEdits : /\ Upon(queue', Taken', n, l) <=> Upon(queue, Taken, n, l)
                               /\ Upon(queue', Taken', n, l) => queue'[n].body = queue[n].body
    BY <1>1, <2>3, <2>4 DEF Upon
  <2>6. Play(mirror, queue', Taken', MaxEdits, l) = Play(mirror, queue, Taken, MaxEdits, l)
        /\ Play(office, queue', Taken', MaxEdits, l) = Play(office, queue, Taken, MaxEdits, l)
    BY <2>1, <2>2, <2>5, PlaySame
  <2>7. Play(office, queue', Owed', MaxEdits, l) = mine'[l]
    <3>1. CASE l \in About(op)
      <4>1. mine'[l] = Overlay(mirror, queue')[l]
        BY <1>2, <3>1
      <4>2. Play(mirror, queue', Taken', MaxEdits, l) = office[l]
        BY <2>4, <2>6 DEF LInv, Agree
      <4>3. Overlay(mirror, queue')[l] = Play(office, queue', Owed', MaxEdits, l)
        BY <2>1, <4>2, OverlayIs DEF Parts
      <4> QED
        BY <4>1, <4>3
    <3>2. CASE l \notin About(op)
      <4>1. \A n \in 1..MaxEdits : /\ Upon(queue', Owed', n, l) <=> Upon(queue, Owed, n, l)
                                   /\ Upon(queue', Owed', n, l) => queue'[n].body = queue[n].body
        BY <1>1, <2>3, <3>2 DEF Upon
      <4>2. Play(office, queue', Owed', MaxEdits, l) = Play(office, queue, Owed, MaxEdits, l)
        BY <2>1, <2>2, <4>1, PlaySame
      <4> QED
        BY <1>2, <2>4, <3>2, <4>2 DEF LInv, Agree
    <3> QED
      BY <3>1, <3>2
  <2> QED
    BY <2>4, <2>6, <2>7 DEF LInv, Agree
<1> QED
  BY <1>4, <1>5, <1>6, <1>7, <1>8 DEF LInv

\* A copy saved, read when the pass had nothing left to send or by another
\* screen at any time.
LEMMA RefreshSaveLInv == ASSUME LInv, OInv', RefreshSave PROVE LInv'
<1>1. /\ mirror' = pass.copy /\ pass.copy # None /\ pass'.copy = None
      /\ UNCHANGED <<office, mine, landed, theirs, wire>>
  BY DEF RefreshSave, office_vars, LInv, OInv, Typed
<1>2. DOMAIN queue' = DOMAIN queue \ In(queue, "delivered") /\ \A i \in DOMAIN queue' : queue'[i] = queue[i]
  BY DEF RefreshSave, Undelivered
<1>3. Taken' = landed \cap In(queue, "queued") /\ Owed' = Owed
  BY <1>1, <1>2 DEF Taken, Owed, In, LInv, OInv, Typed
<1>4. Adds'
  BY <1>1, <1>2, <1>3 DEF LInv, Adds
<1>5. EditsHeld'
  BY <1>1, <1>2 DEF LInv, EditsHeld, In
<1>6. CopyFits'
  BY <1>1 DEF CopyFits
<1>7. RefusedNew'
  <2>1. wire.state = "refused" => wire.op \in DOMAIN queue'
    BY <1>2, SentFirst DEF LInv, OInv, Typed, In
  <2> QED
    BY <1>1, <1>2, <2>1 DEF LInv, RefusedNew
<1>8. Agree'
  <2>1. Parts /\ Parts' /\ office \in Quote /\ mirror' \in Quote /\ MaxEdits \in 0..MaxEdits
    BY PartsOk, PartsNext, BoundsAssumption DEF LInv, OInv, Typed
  <2>2. Sound(queue, Taken) /\ Sound(queue, Owed) /\ Sound(queue', Taken') /\ Sound(queue', Owed)
    BY <1>3, <2>1 DEF Parts
  <2> SUFFICES ASSUME NEW l \in Lines \ theirs
               PROVE  /\ Play(mirror', queue', Taken', MaxEdits, l) = office[l]
                      /\ Play(office, queue', Taken', MaxEdits, l) = office[l]
                      /\ Play(office, queue', Owed, MaxEdits, l) = mine[l]
    BY <1>1, <1>3 DEF Agree
  <2>3. mirror'[l] = office[l]
    BY <1>1 DEF LInv, CopyFits
  <2>4. ASSUME NEW q \in Quote, q[l] = office[l] PROVE Play(q, queue', Taken', MaxEdits, l) = office[l]
    <3>1. CASE Taken' = {}
      BY <2>1, <2>2, <2>4, <3>1, PlayNone
    <3>2. CASE Taken' # {}
      <4>1. PICK k : k \in landed \cap In(queue, "queued")
        BY <1>3, <3>2
      <4>2. Taken' = {k} /\ On(l, office[l], queue[k].body) = office[l]
        BY <1>3, <4>1, LandedAgain
      <4>3. k \in DOMAIN queue' /\ queue'[k] = queue[k] /\ k <= k
        BY <1>2, <2>2, <4>2 DEF Sound
      <4>4. Taken' \ {k} = {} /\ Sound(queue', {})
        BY <2>2, <4>2 DEF Sound
      <4>5. Play(q, queue', Taken', MaxEdits, l)
              = On(l, Play(q, queue', Taken' \ {k}, MaxEdits, l), queue'[k].body)
        BY <2>2, <4>2, <4>3, PlayLast
      <4>6. Play(q, queue', {}, MaxEdits, l) = q[l]
        BY <2>1, <4>4, PlayNone
      <4> QED
        BY <2>4, <4>2, <4>3, <4>4, <4>5, <4>6
    <3> QED
      BY <3>1, <3>2
  <2>5. Play(office, queue', Owed, MaxEdits, l) = Play(office, queue, Owed, MaxEdits, l)
    <3>1. \A n \in 1..MaxEdits : /\ Upon(queue', Owed, n, l) <=> Upon(queue, Owed, n, l)
                                 /\ Upon(queue', Owed, n, l) => queue'[n].body = queue[n].body
      BY <1>2, <2>2 DEF Upon, Sound
    <3> QED
      BY <2>1, <2>2, <3>1, PlaySame
  <2> QED
    BY <2>1, <2>3, <2>4, <2>5 DEF LInv, Agree
<1> QED
  BY <1>4, <1>5, <1>6, <1>7, <1>8 DEF LInv

LEMMA ScreenSaveLInv == ASSUME LInv, OInv', ScreenSave PROVE LInv'
<1>1. /\ mirror' = screen /\ screen # None
      /\ theirs' = theirs \cup {l \in Lines : screen[l] # office[l]}
      /\ UNCHANGED <<office, queue, pass, wire, landed, mine>>
  BY DEF ScreenSave, office_vars
<1>2. Taken' = Taken /\ Owed' = Owed
  BY <1>1 DEF Taken, Owed
<1>3. Adds' /\ EditsHeld' /\ CopyFits' /\ RefusedNew'
  BY <1>1, <1>2 DEF LInv, Adds, EditsHeld, CopyFits, RefusedNew
<1>4. Agree'
  <2>1. Parts /\ office \in Quote /\ mirror' \in Quote /\ MaxEdits \in 0..MaxEdits
    BY PartsOk, BoundsAssumption DEF LInv, OInv, Typed
  <2>2. ASSUME NEW l \in Lines \ theirs'
        PROVE  Play(mirror', queue, Taken, MaxEdits, l) = Play(office, queue, Taken, MaxEdits, l)
    <3>1. mirror'[l] = office[l]
      BY <1>1
    <3> QED
      BY <2>1, <3>1, PlaySame DEF Parts
  <2> QED
    BY <1>1, <1>2, <2>2 DEF LInv, Agree
<1> QED
  BY <1>3, <1>4 DEF LInv

LEMMA OfficeWritesLInv ==
  ASSUME LInv, OInv', NEW k \in Lines, NEW row \in Row \cup {None}, OfficeWrites(k, row) PROVE LInv'
<1>1. /\ theirs' = theirs \cup {k} /\ \A l \in Lines \ theirs' : office'[l] = office[l]
      /\ UNCHANGED <<mirror, queue, pass, wire, landed, mine>>
  BY DEF OfficeWrites, phone_vars, LInv, OInv, Typed, Quote
<1>2. Taken' = Taken /\ Owed' = Owed
  BY <1>1 DEF Taken, Owed
<1>3. \A i \in DOMAIN queue : queue[i].body.kind # "order" => queue[i].body.line \in Lines
  BY DEF LInv, OInv, Typed, Op
<1>4. Adds'
  BY <1>1, <1>2, <1>3 DEF LInv, Adds
<1>5. EditsHeld' /\ CopyFits' /\ RefusedNew'
  BY <1>1, <1>2, <1>3 DEF LInv, EditsHeld, CopyFits, RefusedNew, In
<1>6. Agree'
  <2>1. Parts /\ office \in Quote /\ office' \in Quote /\ MaxEdits \in 0..MaxEdits
    BY PartsOk, BoundsAssumption DEF LInv, OInv, Typed
  <2>2. ASSUME NEW l \in Lines \ theirs'
        PROVE  /\ Play(office', queue, Taken, MaxEdits, l) = Play(office, queue, Taken, MaxEdits, l)
               /\ Play(office', queue, Owed, MaxEdits, l) = Play(office, queue, Owed, MaxEdits, l)
    BY <1>1, <2>1, PlaySame DEF Parts
  <2> QED
    BY <1>1, <1>2, <2>2 DEF LInv, Agree
<1> QED
  BY <1>4, <1>5, <1>6 DEF LInv

\* An edit at the office, the first time and again.
LEMMA LandAgain ==
  ASSUME LInv, Land, wire.op \in landed,
         queue[wire.op].body.kind = "order" \/ queue[wire.op].body.line \notin theirs
  PROVE  queue[wire.op].body.kind # "order" => After(queue[wire.op].body) = office /\ ~Refuses(queue[wire.op].body)
<1> DEFINE op == queue[wire.op].body
<1>1. wire.op \in In(queue, "queued") /\ wire.op \in DOMAIN queue
  BY SentFirst DEF Land, LInv, OInv, Typed
<1>2. Op(op) /\ office \in Quote
  BY <1>1 DEF LInv, OInv, Typed
<1>3. \A l \in Lines \ theirs : On(l, office[l], op) = office[l]
  BY <1>1, LandedAgain
<1>4. op.kind = "edit" => office[op.line] # None
  BY <1>1 DEF LInv, EditsHeld
<1> HIDE DEF op
<1> SUFFICES ASSUME op.kind # "order", op.line \notin theirs PROVE After(op) = office /\ ~Refuses(op)
  BY DEF op
<1>5. op.line \in Lines /\ About(op) = {op.line}
  BY <1>2 DEF Op, About
<1>6. On(op.line, office[op.line], op) = office[op.line]
  BY <1>3, <1>5
<1>7. Lay(office, op) = office
  <2>1. Lay(office, op) \in Quote /\ \A l \in Lines : Lay(office, op)[l] = On(l, office[l], op)
    BY <1>2, LayOn
  <2>2. \A l \in Lines : Lay(office, op)[l] = office[l]
    BY <1>5, <1>6, <2>1, OnOutside
  <2> QED
    BY <1>2, <2>1, <2>2 DEF Quote
<1>8. After(op) = office
  BY <1>7 DEF After
<1>9. op.kind = "edit" => office[op.line][op.field] = op.to
  <2> SUFFICES ASSUME op.kind = "edit" PROVE office[op.line][op.field] = op.to
    OBVIOUS
  <2>1. office[op.line] \in Row
    BY <1>2, <1>4, <1>5 DEF Quote
  <2>2. [office[op.line] EXCEPT ![op.field] = op.to] = office[op.line]
    BY <1>4, <1>5, <1>6 DEF On
  <2> QED
    BY <1>2, <2>1, <2>2 DEF Op, Row
<1> QED
  BY <1>4, <1>8, <1>9 DEF Refuses, Clashes, Expected, Shut

LEMMA LandOffice ==
  ASSUME LInv, Land, ~Refuses(queue[wire.op].body), NEW l \in Lines \ theirs
  PROVE  office'[l] = On(l, office[l], queue[wire.op].body)
<1> DEFINE k == wire.op
           op == queue[wire.op].body
<1>1. k \in In(queue, "queued") /\ k \in DOMAIN queue
  BY SentFirst DEF Land, LInv, OInv, Typed
<1>2. Op(op) /\ office \in Quote
  BY <1>1 DEF LInv, OInv, Typed
<1>3. office' = After(op)
  BY DEF Land
<1>4. CASE op.kind = "add" /\ office[op.line] # None
  <2>1. office' = office
    BY <1>3, <1>4 DEF After
  <2>2. CASE l = op.line
    <3>1. k \notin Owed
      BY <1>1, <1>4, <2>2 DEF LInv, Adds
    <3>2. k \in landed \cap In(queue, "queued")
      BY <1>1, <3>1 DEF Owed
    <3> QED
      BY <2>1, <3>2, LandedAgain
  <2>3. CASE l # op.line
    <3>1. l \notin About(op)
      BY <1>4, <2>3 DEF About
    <3> QED
      BY <2>1, <3>1, OnOutside
  <2> QED
    BY <2>2, <2>3
<1>5. CASE ~(op.kind = "add" /\ office[op.line] # None)
  <2>1. office' = Lay(office, op)
    BY <1>3, <1>5 DEF After
  <2> HIDE DEF op
  <2> QED
    BY <1>2, <2>1, LayOn DEF op
<1> QED
  BY <1>4, <1>5

LEMMA LandLInv == ASSUME LInv, OInv', Land PROVE LInv'
<1> DEFINE k == wire.op
           op == queue[wire.op].body
<1>1. /\ k # None /\ k \in In(queue, "queued") /\ k \in DOMAIN queue /\ k \in 1..MaxEdits
      /\ queue[k].status = "queued"
      /\ \A i \in DOMAIN queue : i < k => queue[i].status = "delivered"
  BY SentFirst DEF Land, LInv, OInv, Typed, In
<1>2. Op(op) /\ office \in Quote /\ mirror \in Quote /\ MaxEdits \in 0..MaxEdits /\ office' \in Quote
      /\ DOMAIN queue \subseteq Nat
  BY <1>1, BoundsAssumption DEF LInv, OInv, Typed
<1>3. UNCHANGED <<queue, mirror, pass, mine, theirs>>
  BY DEF Land, phone_vars
<1>4. CASE Refuses(op)
  <2>1. wire' = [wire EXCEPT !.state = "refused"] /\ UNCHANGED <<office, landed>>
    BY <1>4 DEF Land
  <2>2. Taken' = Taken /\ Owed' = Owed /\ wire'.op = k
    BY <1>3, <2>1 DEF Taken, Owed, LInv, OInv, Typed
  <2>3. RefusedNew'
    BY <1>3, <1>4, <2>1, <2>2, LandAgain DEF RefusedNew
  <2> QED
    BY <1>3, <2>1, <2>2, <2>3 DEF LInv, Adds, EditsHeld, CopyFits, Agree, Play
<1>5. CASE ~Refuses(op)
  <2>1. wire' = [wire EXCEPT !.state = "ok"] /\ office' = After(op) /\ landed' = landed \cup {k}
    BY <1>5 DEF Land
  <2>2. wire'.state = "ok" /\ pass.copy = None
    BY <1>1, <2>1 DEF LInv, OInv, Typed, Passing
  <2>3. Parts /\ Parts'
    BY PartsOk, PartsNext DEF LInv
  <2> HIDE DEF op, k
  <2>4. \A l \in Lines \ theirs : office'[l] = On(l, office[l], op)
    BY <1>5, LandOffice DEF op
  <2>5. CASE k \in landed
    <3>1. landed' = landed /\ Taken' = Taken /\ Owed' = Owed
      BY <1>3, <2>1, <2>5 DEF Taken, Owed
    <3>2. \A l \in Lines \ theirs : office'[l] = office[l]
      BY <1>1, <2>4, <2>5, LandedAgain DEF op, k
    <3>3. \A i \in DOMAIN queue : queue[i].body.kind # "order" => queue[i].body.line \in Lines
      BY DEF LInv, OInv, Typed, Op
    <3>4. Adds' /\ EditsHeld'
      BY <1>3, <3>1, <3>2, <3>3 DEF LInv, Adds, EditsHeld, In
    <3>5. CopyFits' /\ RefusedNew'
      BY <1>3, <2>2 DEF CopyFits, RefusedNew
    <3>6. ASSUME NEW l \in Lines \ theirs
          PROVE  /\ Play(office', queue, Taken, MaxEdits, l) = Play(office, queue, Taken, MaxEdits, l)
                 /\ Play(office', queue, Owed, MaxEdits, l) = Play(office, queue, Owed, MaxEdits, l)
      BY <1>2, <2>3, <3>2, PlaySame DEF Parts
    <3>7. Agree'
      BY <1>3, <3>1, <3>2, <3>6 DEF LInv, Agree
    <3> QED
      BY <3>4, <3>5, <3>7 DEF LInv
  <2>6. CASE k \notin landed
    <3>1. k \in Owed /\ Taken' = Taken \cup {k} /\ Owed' = Owed \ {k} /\ k \notin Taken
      BY <1>1, <1>3, <2>1, <2>6 DEF Taken, Owed, In
    <3>2. (\A n \in Owed : k <= n) /\ \A n \in Taken' : n <= k
      <4>1. \A n \in Owed : k <= n
        BY <1>1, <1>2 DEF Owed, In
      <4>2. \A n \in Taken : n < k
        BY <2>3, <3>1 DEF Parts
      <4>3. Taken \subseteq Nat /\ k \in Nat
        BY <1>1, <1>2 DEF Taken, In
      <4> QED
        BY <3>1, <4>1, <4>2, <4>3
    <3>3. Sound(queue, Taken) /\ Sound(queue, Owed) /\ Sound(queue, Taken') /\ Taken' \ {k} = Taken
      BY <1>3, <2>3, <3>1 DEF Parts
    <3>4. Adds'
      <4>1. ASSUME NEW j \in Owed', queue[j].body.kind = "add", queue[j].body.line \notin theirs
            PROVE  office'[queue[j].body.line] = None
        <5>1. j \in DOMAIN queue /\ j \in Owed /\ k < j
          BY <1>1, <1>2, <3>1, <3>2 DEF Owed, In
        <5>2. queue[j].body.line \notin About(op) /\ office[queue[j].body.line] = None
          BY <1>1, <4>1, <5>1 DEF LInv, Adds, op, k
        <5>3. queue[j].body.line \in Lines
          BY <4>1, <5>1 DEF LInv, OInv, Typed, Op
        <5> QED
          BY <2>4, <4>1, <5>2, <5>3, OnOutside
      <4> QED
        BY <1>3, <4>1 DEF LInv, Adds
    <3>5. EditsHeld'
      <4>1. ASSUME NEW j \in landed' \cap In(queue, "queued"), queue[j].body.kind = "edit",
                   queue[j].body.line \notin theirs
            PROVE  office'[queue[j].body.line] # None
        <5>1. j = k
          <6> SUFFICES ASSUME j # k PROVE FALSE
            OBVIOUS
          <6>1. j \in landed /\ j \in DOMAIN queue /\ queue[j].status = "queued"
            BY <2>1 DEF In
          <6>2. k < j
            BY <1>1, <1>2, <6>1
          <6> QED
            BY <1>1, <6>1, <6>2 DEF LInv, OInv, Ordered
        <5>2. op.kind = "edit" /\ op.line \in Lines \ theirs
          BY <1>2, <4>1, <5>1 DEF op, Op, k
        <5>3. office[op.line] # None
          BY <1>5, <5>2 DEF Refuses, Clashes, op, k
        <5>4. office[op.line] \in Row
          BY <1>2, <5>2, <5>3 DEF Quote
        <5>5. On(op.line, office[op.line], op) \in Row
          BY <1>2, <5>2, <5>3, <5>4 DEF On, Op, Row, About
        <5> QED
          BY <2>4, <5>1, <5>2, <5>5, NoneNotRow DEF op, k
      <4> QED
        BY <1>3, <4>1 DEF EditsHeld
    <3>6. CopyFits' /\ RefusedNew'
      BY <1>3, <2>2 DEF CopyFits, RefusedNew
    <3>7. ASSUME NEW l \in Lines \ theirs
          PROVE  /\ Play(mirror, queue, Taken', MaxEdits, l) = office'[l]
                 /\ Play(office', queue, Taken', MaxEdits, l) = office'[l]
                 /\ Play(office', queue, Owed', MaxEdits, l) = mine[l]
      <4>1. /\ Play(mirror, queue, Taken, MaxEdits, l) = office[l]
            /\ Play(office, queue, Taken, MaxEdits, l) = office[l]
            /\ Play(office, queue, Owed, MaxEdits, l) = mine[l]
        BY DEF LInv, Agree
      <4>2. office'[l] = On(l, office[l], op) /\ queue[k].body = op
        BY <2>4 DEF op, k
      <4>3. \A q \in Quote : Play(q, queue, Taken', MaxEdits, l) = On(l, Play(q, queue, Taken, MaxEdits, l), op)
        <5>1. k \in Taken'
          BY <3>1
        <5> QED
          BY <3>2, <3>3, <4>2, <5>1, PlayLast
      <4>4. On(l, Play(office', queue, Taken, MaxEdits, l), op) = On(l, Play(office, queue, Taken, MaxEdits, l), op)
        <5>1. office[l] \in Cell
          BY <1>2 DEF Quote, Cell
        <5>2. On(l, office'[l], op) = On(l, office[l], op)
          BY <1>2, <4>2, <5>1, OnTwice
        <5> QED
          BY <1>2, <3>3, <5>2, PlayHides
      <4>5. Play(office, queue, Owed, MaxEdits, l) = Play(office', queue, Owed \ {k}, MaxEdits, l)
        <5>1. k <= MaxEdits
          BY <1>1 DEF k
        <5> QED
          BY <1>2, <3>1, <3>2, <3>3, <4>2, <5>1, PlayFirst
      <4> QED
        BY <1>2, <3>1, <4>1, <4>2, <4>3, <4>4, <4>5
    <3>8. Agree'
      BY <1>3, <3>7 DEF Agree
    <3> QED
      BY <3>4, <3>5, <3>6, <3>8 DEF LInv
  <2> QED
    BY <2>5, <2>6
<1> QED
  BY <1>4, <1>5

LEMMA StepLInv == LInv /\ [Next]_vars => LInv'
<1> SUFFICES ASSUME LInv, [Next]_vars PROVE LInv'
  OBVIOUS
<1>1. OInv'
  BY StepOInv DEF LInv
<1>2. CASE UNCHANGED vars
  BY <1>1, <1>2, StillLInv DEF vars
<1>3. CASE Edits
  <2>1. PICK op, signal : Op(op) /\ Seen(op) /\ Enqueue(op, signal)
    BY <1>3, EditsSeen DEF LInv, OInv
  <2> QED
    BY <1>1, <2>1, EnqueueLInv
<1>4. CASE Discards
  BY <1>1, <1>4, DiscardsLInv
<1>5. CASE AtTheOffice
  BY <1>1, <1>5, OfficeWritesLInv, StillStepsLInv DEF AtTheOffice
<1>6. CASE Online \/ Send \/ HearNothing \/ RefreshRead \/ RefreshFails \/ EndPass \/ Close \/ ScreenRead
  BY <1>1, <1>6, StillStepsLInv
<1>7. CASE Land \/ HearOk \/ HearRefused \/ RefreshSave \/ ScreenSave
  BY <1>1, <1>7, LandLInv, HearOkLInv, HearRefusedLInv, RefreshSaveLInv, ScreenSaveLInv
<1> QED
  BY <1>2, <1>3, <1>4, <1>5, <1>6, <1>7, NextIs

LEMMA LineInvariance == Spec => []LInv
  BY InitLInv, StepLInv, PTL DEF Spec

(* The screen keeps a line as the technician left it, for any number of    *)
(* lines and edits: through answers that never came, copies saved under    *)
(* the queue, restarts, refusals and discards of other edits, so long as   *)
(* nobody at the office touches that line.                                 *)
THEOREM QuotesShowMine == Spec => []ScreenKeepsMine
<1>1. LInv => ScreenKeepsMine
  <2> SUFFICES ASSUME LInv, NEW l \in Lines \ theirs PROVE View[l] = mine[l]
    BY DEF ScreenKeepsMine
  <2>1. Parts /\ office \in Quote /\ mirror \in Quote
    BY PartsOk DEF LInv, OInv, Typed
  <2>2. Play(mirror, queue, Taken, MaxEdits, l) = office[l] /\ Play(office, queue, Owed, MaxEdits, l) = mine[l]
    BY DEF LInv, Agree
  <2>3. Overlay(mirror, queue)[l] = Play(office, queue, Owed, MaxEdits, l)
    BY <2>1, <2>2, OverlayIs DEF Parts
  <2> QED
    BY <2>2, <2>3 DEF View
<1> QED
  BY <1>1, LineInvariance, PTL

(* Nothing a technician did is lost on the way: a line with no edit left   *)
(* on the phone stands at the office as the technician left it.            *)
THEOREM QuotesLoseNothing == Spec => []NothingLost
<1>1. LInv => NothingLost
  <2> SUFFICES ASSUME LInv, NEW l \in Lines \ theirs,
                      \A i \in In(queue, "queued") : l \notin About(queue[i].body)
               PROVE  office[l] = mine[l]
    BY DEF NothingLost
  <2>1. Sound(queue, Owed) /\ office \in Quote /\ MaxEdits \in 0..MaxEdits
    BY PartsOk, BoundsAssumption DEF LInv, OInv, Typed, Parts
  <2>2. \A n \in Owed : l \notin About(queue[n].body)
    BY DEF Owed
  <2>3. Play(office, queue, Owed, MaxEdits, l) = office[l]
    BY <2>1, <2>2, PlayNone
  <2> QED
    BY <2>3 DEF LInv, Agree
<1> QED
  BY <1>1, LineInvariance, PTL

\* An edit the office has, and whose lines are the technician's alone,
\* finds the quote as it would leave it.
LEMMA LandedLays ==
  ASSUME LInv, NEW k \in landed \cap In(queue, "queued"), About(queue[k].body) \cap theirs = {}
  PROVE  After(queue[k].body) = office
<1> DEFINE op == queue[k].body
<1>1. Op(op) /\ office \in Quote
  BY DEF LInv, OInv, Typed, In
<1>2. \A l \in Lines \ theirs : On(l, office[l], op) = office[l]
  BY LandedAgain
<1>3. \A l \in Lines : On(l, office[l], op) = office[l]
  BY <1>2, OnOutside
<1> HIDE DEF op
<1>4. Lay(office, op) \in Quote /\ \A l \in Lines : Lay(office, op)[l] = office[l]
  BY <1>1, <1>3, LayOn
<1>5. Lay(office, op) = office
  BY <1>1, <1>4 DEF Quote
<1> QED
  BY <1>5 DEF After, op

(* An edit that arrives again changes nothing: neither a line of the quote *)
(* nor, by reopening it, what the customer was sent.                       *)
THEOREM QuoteReplaysAreIdle == Spec => ReplayChangesNothing
<1>1. LInv /\ [Next]_vars =>
        [(/\ wire.state = "out" /\ wire'.state = "ok" /\ wire.op \in landed
          /\ About(queue[wire.op].body) \cap theirs = {}) => UNCHANGED <<office, status>>]_vars
  <2> SUFFICES ASSUME LInv, [Next]_vars, wire.state = "out", wire'.state = "ok", wire.op \in landed,
                      About(queue[wire.op].body) \cap theirs = {}
               PROVE  UNCHANGED <<office, status>>
    BY DEF vars
  <2> DEFINE op == queue[wire.op].body
  <2>1. wire.op \in landed \cap In(queue, "queued")
    BY SentFirst DEF LInv, OInv, Typed
  <2>2. After(op) = office
    BY <2>1, LandedLays
  <2>3. CASE Land
    BY <2>2, <2>3 DEF Land, Reopened
  <2>4. CASE UNCHANGED wire
    BY <2>4
  <2>5. CASE ~Land /\ wire' # wire
    <3>1. wire'.state # "ok"
      <4>1. CASE Edits
        <5>1. PICK op2, signal : Enqueue(op2, signal)
          BY <4>1, EditsSeen DEF LInv, OInv
        <5> QED
          BY <2>5, <5>1 DEF Enqueue
      <4>2. CASE Discards
        BY <2>5, <4>2 DEF Discards, Discard, DiscardAll, Settle
      <4>3. CASE AtTheOffice
        BY <2>5, <4>3 DEF AtTheOffice, OfficeWrites, OfficeIssues, CustomerSigns
      <4>4. CASE HearOk \/ HearRefused \/ HearNothing \/ Close
        BY <4>4 DEF HearOk, HearRefused, HearNothing, Close, Silence
      <4>5. CASE Send
        BY <4>5 DEF Send, Silence
      <4>6. CASE Online \/ RefreshRead \/ RefreshSave \/ RefreshFails \/ EndPass \/ ScreenRead \/ ScreenSave
        BY <2>5, <4>6 DEF Online, RefreshRead, RefreshSave, RefreshFails, EndPass, ScreenRead, ScreenSave
      <4> QED
        BY <2>5, <4>1, <4>2, <4>3, <4>4, <4>5, <4>6, NextIs DEF vars
    <3> QED
      BY <3>1
  <2> QED
    BY <2>3, <2>4, <2>5
<1> QED
  BY <1>1, LineInvariance, PTL DEF Spec, ReplayChangesNothing

-----------------------------------------------------------------------------
(* Why an edit is refused.                                                 *)

\* What an edit of a quantity says it saw, the office's quote with the edits
\* before it shows, until the quote is signed.
Awaits(k) == queue[k].body.kind = "edit" /\ queue[k].body.field = "quantity" /\ queue[k].body.line \notin theirs
Before(k) == Play(office, queue, Owed, k - 1, queue[k].body.line)
AsSeen ==
  status # "signed" =>
    \A k \in Owed : Awaits(k) => Before(k) # None /\ Before(k).quantity = queue[k].body.was

RefusedReason == wire.state = "refused" => Moves(queue[wire.op].body) \/ Reasonable(wire.op)

RInv == LInv /\ AsSeen /\ RefusedReason /\ RefusalsAreTheirs

\* What a step may do to the reasons there are.
Onward ==
  /\ theirs \subseteq theirs' /\ (status = "signed" => status' = "signed")
  /\ \A i \in landed' \ landed : i = wire.op /\ wire.state = "out"
  /\ \A i \in DOMAIN queue' :
       IF i \in DOMAIN queue
       THEN /\ queue'[i].body = queue[i].body
            /\ queue'[i].status = "refused" =>
                 queue[i].status = "refused" \/ (i = wire.op /\ wire.state = "refused")
       ELSE queue'[i].status = "queued"

LEMMA OnwardEdits == ASSUME LInv, Edits PROVE Onward
<1>1. PICK op, signal : Enqueue(op, signal)
  BY EditsSeen DEF LInv, OInv
<1>2. UNCHANGED <<theirs, status, landed>>
  BY <1>1 DEF Enqueue, office_vars
<1> DEFINE id == made + 1
<1>3. /\ DOMAIN queue' = DOMAIN queue \cup {id} /\ queue'[id] = [body |-> op, status |-> "queued"]
      /\ \A i \in DOMAIN queue : queue'[i] = queue[i]
  BY <1>1, EnqueueRows DEF LInv
<1> HIDE DEF id
<1>4. queue'[id].status = "queued"
  BY <1>3
<1>5. \A i \in DOMAIN queue : queue'[i].body = queue[i].body /\ queue'[i].status = queue[i].status
  BY <1>3
<1> QED
  BY <1>2, <1>3, <1>4, <1>5 DEF Onward

LEMMA OnwardDiscards == ASSUME LInv, Discards PROVE Onward
<1>1. UNCHANGED <<status, landed>>
  BY DEF Discards, Discard, DiscardAll, Settle, office_vars
<1>2. CASE UNCHANGED <<queue, mine, theirs>>
  BY <1>1, <1>2 DEF Onward
<1>3. CASE \E gone \in SUBSET DOMAIN queue : Drop(gone)
  BY <1>1, <1>3, DropRows DEF LInv, Onward
<1> QED
  BY <1>2, <1>3, DiscardsDrop DEF Discards, LInv

LEMMA OnwardLand == ASSUME LInv, Land PROVE Onward
<1>1. UNCHANGED <<queue, theirs>> /\ landed' \subseteq landed \cup {wire.op} /\ wire.state = "out"
  BY DEF Land, phone_vars
<1>2. status = "signed" => status' = "signed"
  BY DEF Land, Refuses, Shut, Reopened
<1> QED
  BY <1>1, <1>2 DEF Onward

LEMMA OnwardHear == ASSUME LInv, HearOk \/ HearRefused PROVE Onward
<1>1. UNCHANGED <<status, landed>> /\ theirs \subseteq theirs'
  BY DEF HearOk, HearRefused, office_vars
<1>2. CASE HearRefused
  BY <1>1, <1>2, HearRefusedRows DEF LInv, Onward, HearRefused
<1>3. CASE HearOk
  <2>1. wire.op \in DOMAIN queue
    BY <1>3, SentFirst DEF LInv, OInv, Typed, HearOk, In
  <2>2. DOMAIN queue' = DOMAIN queue /\ \A i \in DOMAIN queue : queue'[i].body = queue[i].body
        /\ queue'[i].status = IF i = wire.op THEN "delivered" ELSE queue[i].status
    BY <1>3, <2>1, MarkRows DEF HearOk, LInv, OInv
  <2> QED
    BY <1>1, <2>2 DEF Onward
<1> QED
  BY <1>2, <1>3

LEMMA OnwardRest ==
  ASSUME LInv, \/ UNCHANGED vars \/ Online \/ Send \/ HearNothing \/ RefreshRead \/ RefreshFails \/ EndPass
               \/ Close \/ ScreenRead \/ ScreenSave \/ RefreshSave \/ AtTheOffice
  PROVE  Onward
<1>1. theirs \subseteq theirs' /\ landed' = landed /\ (status = "signed" => status' = "signed")
  BY DEF vars, Online, Send, HearNothing, RefreshRead, RefreshFails, RowsKept, EndPass, Close, ScreenRead,
         ScreenSave, RefreshSave, AtTheOffice, OfficeWrites, OfficeIssues, CustomerSigns, office_vars, phone_vars
<1>2. CASE RefreshSave
  <2>1. DOMAIN queue' \subseteq DOMAIN queue /\ \A i \in DOMAIN queue' : queue'[i] = queue[i]
    BY <1>2 DEF RefreshSave, Undelivered
  <2> QED
    BY <1>1, <2>1 DEF Onward
<1>3. CASE ~RefreshSave
  <2>1. queue' = queue
    BY <1>3 DEF vars, Online, Send, HearNothing, RefreshRead, RefreshFails, RowsKept, EndPass, Close, ScreenRead,
           ScreenSave, AtTheOffice, OfficeWrites, OfficeIssues, CustomerSigns, phone_vars
  <2> QED
    BY <1>1, <2>1 DEF Onward
<1> QED
  BY <1>2, <1>3

LEMMA StepOnward == LInv /\ [Next]_vars => Onward
  BY NextIs, OnwardEdits, OnwardDiscards, OnwardLand, OnwardHear, OnwardRest

\* The refusals there are keep their reason.
LEMMA RefusalsStay == ASSUME RInv, Onward, OInv' PROVE RefusalsAreTheirs'
<1> SUFFICES ASSUME NEW i \in DOMAIN queue', queue'[i].status = "refused", ~Moves(queue'[i].body)
             PROVE  /\ TRUE
                    /\ \/ About(queue'[i].body) \cap theirs' # {}
                       \/ status' = "signed" /\ i \notin landed'
  BY DEF RefusalsAreTheirs, Reasonable, In
<1>1. i \in DOMAIN queue /\ queue'[i].body = queue[i].body
      /\ (queue[i].status = "refused" \/ (i = wire.op /\ wire.state = "refused"))
  BY DEF Onward
<1>2. Reasonable(i)
  BY <1>1 DEF RInv, RefusalsAreTheirs, RefusedReason, In
<1>3. i \notin landed => i \notin landed'
  <2>1. wire.op # None => wire.op \in In(queue, "queued")
    BY SentFirst DEF RInv, LInv
  <2>2. wire.state = "out" => wire.op # None
    BY DEF RInv, LInv, OInv, Typed
  <2> QED
    BY <1>1, <2>1, <2>2 DEF Onward, In
<1> QED
  BY <1>1, <1>2, <1>3 DEF Onward, Reasonable

\* A first refusal has one.
LEMMA LandRefused ==
  ASSUME RInv, Land, Refuses(queue[wire.op].body) PROVE Moves(queue[wire.op].body) \/ Reasonable(wire.op)
<1> DEFINE k == wire.op
           op == queue[wire.op].body
<1> SUFFICES ASSUME ~Moves(op), About(op) \cap theirs = {}, ~(status = "signed" /\ k \notin landed) PROVE FALSE
  BY DEF Reasonable
<1>1. k \in In(queue, "queued") /\ k \in DOMAIN queue /\ k \in 1..MaxEdits
      /\ \A i \in DOMAIN queue : i < k => queue[i].status = "delivered"
  BY SentFirst, BoundsAssumption DEF Land, RInv, LInv, OInv, Typed
<1>2. Op(op) /\ office \in Quote
  BY <1>1 DEF RInv, LInv, OInv, Typed
<1>3. op.kind # "order" /\ op.line \in Lines \ theirs
  BY <1>2 DEF Moves, Op, About
<1>4. k \notin landed
  BY <1>3, LandAgain DEF RInv
<1>5. status # "signed" /\ Clashes(op) /\ k \in Owed
  BY <1>1, <1>4 DEF Refuses, Shut, Owed
<1>6. op.kind = "edit" /\ op.field = "quantity" /\ Awaits(k)
  BY <1>2, <1>3, <1>5 DEF Clashes, Moves, Op, Fields, Awaits
<1>7. Before(k) = office[op.line]
  <2>1. Sound(queue, Owed) /\ k - 1 \in 0..MaxEdits
    BY <1>1, PartsOk, BoundsAssumption DEF RInv, LInv, Parts
  <2>2. \A n \in Owed : ~(n <= k - 1)
    BY <1>1, <2>1 DEF Owed, In, Sound
  <2> QED
    BY <1>2, <1>3, <2>1, <2>2, PlayNone DEF Before
<1> QED
  BY <1>5, <1>6, <1>7 DEF RInv, AsSeen, Clashes, Expected

LEMMA RefusedReasonStays == ASSUME RInv, Onward, OInv', [Next]_vars PROVE RefusedReason'
<1> SUFFICES ASSUME wire'.state = "refused", ~Moves(queue'[wire'.op].body)
             PROVE  \/ About(queue'[wire'.op].body) \cap theirs' # {}
                    \/ status' = "signed" /\ wire'.op \notin landed'
  BY DEF RefusedReason, Reasonable
<1>1. CASE Land
  <2>1. Refuses(queue[wire.op].body) /\ UNCHANGED <<queue, theirs, status, landed>> /\ wire'.op = wire.op
    BY <1>1 DEF Land, phone_vars, RInv, LInv, OInv, Typed
  <2> QED
    BY <1>1, <2>1, LandRefused DEF Reasonable
<1>2. CASE ~Land
  <2>1. UNCHANGED wire
    <3>1. CASE Edits
      <4>1. PICK op2, signal : Enqueue(op2, signal)
        BY <3>1, EditsSeen DEF RInv, LInv, OInv
      <4> QED
        BY <4>1 DEF Enqueue
    <3>2. CASE Discards \/ AtTheOffice
      BY <3>2 DEF Discards, Discard, DiscardAll, Settle, AtTheOffice, OfficeWrites, OfficeIssues, CustomerSigns
    <3>3. CASE HearOk \/ HearRefused \/ HearNothing \/ Close \/ Send
      BY <3>3 DEF HearOk, HearRefused, HearNothing, Close, Send, Silence
    <3>4. CASE Online \/ RefreshRead \/ RefreshSave \/ RefreshFails \/ EndPass \/ ScreenRead \/ ScreenSave
      BY <3>4 DEF Online, RefreshRead, RefreshSave, RefreshFails, EndPass, ScreenRead, ScreenSave, phone_vars
    <3> QED
      BY <1>2, <3>1, <3>2, <3>3, <3>4, NextIs DEF vars
  <2>2. wire.op \in DOMAIN queue'
    <3>1. wire'.op # None
      BY DEF OInv, Typed
    <3> QED
      BY <2>1, <3>1 DEF OInv, Passing, In
  <2>3. wire.op \in DOMAIN queue
    BY <2>1, SentFirst DEF RInv, LInv, OInv, Typed, In
  <2>4. wire.op \notin landed => wire.op \notin landed'
    BY <2>1 DEF Onward
  <2> QED
    BY <2>1, <2>2, <2>3, <2>4 DEF Onward, RInv, RefusedReason, Reasonable
<1> QED
  BY <1>1, <1>2

\* What an edit saw is still there, if the edits before it are.
LEMMA AsSeenKept ==
  ASSUME RInv, Onward, Owed' \subseteq Owed,
         status' # "signed" => \A k \in Owed' : (Awaits(k) /\ Awaits(k)') => Like(Before(k), Before(k)')
  PROVE  AsSeen'
<1> SUFFICES ASSUME status' # "signed", NEW k \in Owed', Awaits(k)'
             PROVE  Before(k)' # None /\ Before(k)'.quantity = queue'[k].body.was
  BY DEF AsSeen
<1>1. k \in DOMAIN queue /\ k \in DOMAIN queue' /\ queue'[k].body = queue[k].body
  BY DEF Onward, Owed, In
<1>2. Awaits(k) /\ status # "signed"
  BY <1>1 DEF Awaits, Onward
<1>3. Before(k) # None /\ Before(k).quantity = queue[k].body.was
  BY <1>2 DEF RInv, AsSeen
<1>4. Like(Before(k), Before(k)')
  BY <1>2
<1> QED
  BY <1>1, <1>3, <1>4 DEF Like

\* The edits owed leave a line as they left it, of those that matter to it.
LEMMA AsSeenStill ==
  ASSUME RInv, Onward, OInv', Owed' = Owed, \A l \in Lines \ theirs' : office'[l] = office[l]
  PROVE  AsSeen'
<1>1. Parts /\ Parts' /\ office \in Quote /\ office' \in Quote
  BY PartsOk, PartsNext DEF RInv, LInv, OInv, Typed
<1>2. \A k \in Owed : k \in DOMAIN queue' /\ k \in DOMAIN queue /\ queue'[k].body = queue[k].body
  BY DEF Onward, Owed, In
<1>3. ASSUME NEW k \in Owed, Awaits(k)' PROVE Before(k)' = Before(k)
  <2> DEFINE l == queue[k].body.line
  <2>1. Sound(queue, Owed) /\ Sound(queue', Owed)
    BY <1>1 DEF Parts
  <2>2. queue'[k].body.line = l /\ l \in Lines \ theirs'
    BY <1>2, <1>3, <2>1 DEF Awaits, Sound, Op
  <2>3. k - 1 \in 0..MaxEdits
    BY <2>1, BoundsAssumption DEF Sound
  <2>4. office'[l] = office[l]
    BY <2>2
  <2>5. \A n \in 1..MaxEdits : /\ Upon(queue', Owed, n, l) <=> Upon(queue, Owed, n, l)
                               /\ Upon(queue', Owed, n, l) => queue'[n].body = queue[n].body
    BY <1>2 DEF Upon
  <2> HIDE DEF l
  <2>6. Play(office', queue', Owed, k - 1, l) = Play(office, queue, Owed, k - 1, l)
    BY <1>1, <2>1, <2>2, <2>3, <2>4, <2>5, PlaySame
  <2> QED
    BY <2>2, <2>6 DEF Before, l
<1> QED
  BY <1>3, AsSeenKept DEF Like

LEMMA EnqueueAsSeen ==
  ASSUME RInv, OInv', Onward, NEW op, Op(op), Seen(op), NEW signal, Enqueue(op, signal) PROVE AsSeen'
<1> DEFINE id == made + 1
<1>1. /\ id \in 1..MaxEdits /\ id \notin DOMAIN queue /\ \A i \in DOMAIN queue : i < id
      /\ DOMAIN queue' = DOMAIN queue \cup {id} /\ queue'[id] = [body |-> op, status |-> "queued"]
      /\ \A i \in DOMAIN queue : queue'[i] = queue[i]
      /\ Owed' = Owed \cup {id}
  BY EnqueueRows DEF RInv, LInv
<1> HIDE DEF id
<1>2. UNCHANGED <<office, mirror, status, theirs>>
  BY DEF Enqueue, office_vars
<1>3. Parts /\ Parts' /\ office \in Quote /\ mirror \in Quote
  BY PartsOk, PartsNext DEF RInv, LInv, OInv, Typed
<1>4. Sound(queue, Owed) /\ Sound(queue', Owed') /\ Owed \subseteq DOMAIN queue
  BY <1>3 DEF Parts, Owed, In
<1>5. ASSUME NEW k \in Owed', NEW l \in Lines
      PROVE  Play(office, queue', Owed', k - 1, l) = Play(office, queue, Owed, k - 1, l)
  <2>1. k \in 1..MaxEdits /\ k - 1 \in 0..MaxEdits /\ k <= id
    BY <1>1, <1>4, BoundsAssumption DEF Sound
  <2>2. \A n \in 1..MaxEdits : n <= k - 1 =>
          /\ Upon(queue', Owed', n, l) <=> Upon(queue, Owed, n, l)
          /\ Upon(queue', Owed', n, l) => queue'[n].body = queue[n].body
    <3>1. \A n \in 1..MaxEdits : n <= k - 1 => n # id
      BY <1>1, <2>1
    <3> QED
      BY <1>1, <1>4, <3>1 DEF Upon
  <2> QED
    BY <1>3, <1>4, <2>1, <2>2, PlaySame
<1>6. ASSUME NEW l \in Lines \ theirs PROVE Play(office, queue, Owed, id - 1, l) = View[l]
  <2>1. Play(mirror, queue, Taken, MaxEdits, l) = office[l]
    BY DEF RInv, LInv, Agree
  <2>2. View[l] = Play(office, queue, Owed, MaxEdits, l)
    BY <1>3, <2>1, OverlayIs DEF Parts, View
  <2>3. Fits(Part(queue, Owed))
    BY <1>4, PartFacts
  <2>4. \A n \in 1..MaxEdits : id - 1 < n => ~Touches(Part(queue, Owed), n, l)
    <3>1. \A n \in 1..MaxEdits : id - 1 < n => n \notin Owed
      BY <1>1, <1>4
    <3> QED
      BY <1>4, <3>1, PartFacts DEF Upon
  <2>5. id - 1 \in 0..MaxEdits /\ MaxEdits \in 0..MaxEdits /\ id - 1 <= MaxEdits
    BY <1>1, BoundsAssumption
  <2>6. Laid(office, Part(queue, Owed))[MaxEdits][l] = Laid(office, Part(queue, Owed))[id - 1][l]
    BY <1>3, <2>3, <2>4, <2>5, LaidQuiet
  <2> QED
    BY <2>2, <2>6 DEF Play
<1> SUFFICES ASSUME status # "signed", NEW k \in Owed', Awaits(k)'
             PROVE  LET z == Play(office, queue', Owed', k - 1, queue'[k].body.line)
                    IN  z # None /\ z.quantity = queue'[k].body.was
  BY <1>2 DEF AsSeen, Before
<1>7. CASE k = id
  <2>1. queue'[k].body = op /\ op.kind = "edit" /\ op.field = "quantity" /\ op.line \in Lines \ theirs
    BY <1>1, <1>2, <1>7 DEF Awaits, Op
  <2>2. View[op.line] # None /\ op.was = View[op.line].quantity
    BY <2>1 DEF Seen
  <2>3. Play(office, queue', Owed', k - 1, op.line) = View[op.line]
    BY <1>5, <1>6, <1>7, <2>1
  <2> QED
    BY <2>1, <2>2, <2>3
<1>8. CASE k # id
  <2>1. k \in Owed /\ queue'[k] = queue[k]
    BY <1>1, <1>4, <1>8
  <2>2. Awaits(k) /\ queue[k].body.line \in Lines
    BY <1>2, <1>4, <2>1 DEF Awaits, RInv, LInv, OInv, Typed, Op
  <2>3. Before(k) # None /\ Before(k).quantity = queue[k].body.was
    BY <2>1, <2>2 DEF RInv, AsSeen
  <2>4. Play(office, queue', Owed', k - 1, queue[k].body.line) = Before(k)
    BY <1>5, <2>2 DEF Before
  <2> QED
    BY <2>1, <2>3, <2>4
<1> QED
  BY <1>7, <1>8

LEMMA LandAsSeen == ASSUME RInv, OInv', Onward, Land PROVE AsSeen'
<1> DEFINE k == wire.op
           op == queue[wire.op].body
<1>1. k \in In(queue, "queued") /\ k \in DOMAIN queue /\ k \in 1..MaxEdits
      /\ \A i \in DOMAIN queue : i < k => queue[i].status = "delivered"
  BY SentFirst, BoundsAssumption DEF Land, RInv, LInv, OInv, Typed
<1>2. UNCHANGED <<queue, theirs>>
  BY DEF Land, phone_vars
<1>3. CASE Refuses(op)
  BY <1>2, <1>3, AsSeenStill DEF Land, Owed
<1>4. CASE ~Refuses(op)
  <2>1. landed' = landed \cup {k}
    BY <1>4 DEF Land
  <2>2. \A l \in Lines \ theirs : office'[l] = On(l, office[l], op)
    BY <1>4, LandOffice DEF RInv
  <2>3. CASE k \in landed
    <3>1. \A l \in Lines \ theirs : office'[l] = office[l]
      BY <1>1, <2>2, <2>3, LandedAgain DEF RInv
    <3>2. Owed' = Owed
      BY <1>2, <2>1, <2>3 DEF Owed
    <3> QED
      BY <1>2, <3>1, <3>2, AsSeenStill
  <2>4. CASE k \notin landed
    <3>1. k \in Owed /\ Owed' = Owed \ {k} /\ Sound(queue, Owed)
      BY <1>1, <1>2, <2>1, <2>4, PartsOk DEF Owed, Parts, RInv, LInv
    <3>2. \A n \in Owed : k <= n
      BY <1>1, <3>1 DEF Owed, In, Sound
    <3>3. ASSUME NEW j \in Owed', Awaits(j) PROVE Before(j)' = Before(j)
      <4> DEFINE l == queue[j].body.line
                 m == j - 1
      <4>1. l \in Lines \ theirs /\ j \in 1..MaxEdits /\ j \in Owed /\ j # k
        BY <3>1, <3>3 DEF Awaits, Sound, Op
      <4>2. k <= m /\ m \in 0..MaxEdits
        BY <1>1, <3>2, <4>1, BoundsAssumption
      <4>3. office'[l] = On(l, office[l], queue[k].body)
        BY <2>2, <4>1
      <4>4. office \in Quote /\ office' \in Quote
        BY DEF RInv, LInv, OInv, Typed
      <4> HIDE DEF l, k, m
      <4>5. Play(office, queue, Owed, m, l) = Play(office', queue, Owed \ {k}, m, l)
        <5>1. k \in Owed /\ Sound(queue, Owed) /\ l \in Lines
          BY <3>1, <4>1
        <5> QED
          BY ONLY <3>2, <4>2, <4>3, <4>4, <5>1, PlayFirst
      <4> QED
        BY <1>2, <3>1, <4>5 DEF Before, l, m
    <3>4. Owed' \subseteq Owed
      BY <3>1
    <3> QED
      BY <3>3, <3>4, AsSeenKept DEF Like
  <2> QED
    BY <2>3, <2>4
<1> QED
  BY <1>3, <1>4

\* A refused edit was the first of those owed.  One of a quantity had its
\* line touched by the office; one that moves lines counts for no quantity.
LEMMA HearRefusedAsSeen == ASSUME RInv, OInv', Onward, HearRefused PROVE AsSeen'
<1> DEFINE i == wire.op
<1>1. /\ i \in DOMAIN queue /\ queue[i].status = "queued"
      /\ DOMAIN queue' = DOMAIN queue /\ \A n \in DOMAIN queue : queue'[n].body = queue[n].body
      /\ Owed' = Owed \ {i}
  BY HearRefusedRows DEF RInv, LInv
<1>2. office' = office /\ status' = status /\ wire.state = "refused"
  BY DEF HearRefused, office_vars
<1>3. Parts /\ Parts' /\ office \in Quote
  BY PartsOk, PartsNext DEF RInv, LInv, OInv, Typed
<1>4. CASE i \notin Owed
  BY <1>1, <1>2, <1>4, AsSeenStill
<1>5. CASE i \in Owed /\ status # "signed"
  <2>1. Moves(queue[i].body) \/ About(queue[i].body) \cap theirs # {}
    BY <1>2, <1>5 DEF RInv, RefusedReason, Reasonable
  <2>2. ASSUME NEW k \in Owed', Awaits(k), Awaits(k)' PROVE Like(Before(k), Before(k)')
    <3> DEFINE l == queue[k].body.line
    <3>1. k \in Owed /\ k \in DOMAIN queue /\ Sound(queue, Owed) /\ Sound(queue', Owed')
      BY <1>1, <1>3, <2>2 DEF Parts, Sound
    <3>2. l \in Lines \ theirs /\ queue'[k].body.line = l /\ k - 1 \in 0..MaxEdits
      BY <1>1, <2>2, <3>1, BoundsAssumption DEF Awaits, Sound, Op
    <3>3. l \in About(queue[i].body) => Moves(queue[i].body)
      BY <2>1, <3>2 DEF About, Moves
    <3>4. \A n \in 1..MaxEdits :
            /\ Upon(queue', Owed', n, l) => Upon(queue, Owed, n, l) /\ queue[n].body = queue'[n].body
            /\ Upon(queue, Owed, n, l) /\ ~Upon(queue', Owed', n, l) => Moves(queue[n].body)
      BY <1>1, <3>1, <3>3 DEF Upon, Sound
    <3> HIDE DEF l
    <3>5. Like(Play(office, queue, Owed, k - 1, l), Play(office, queue', Owed', k - 1, l))
      BY <1>3, <3>1, <3>2, <3>4, PlayLike
    <3> QED
      BY <1>2, <3>2, <3>5 DEF Before, l
  <2> QED
    BY <1>1, <2>2, AsSeenKept
<1>6. CASE status = "signed"
  BY <1>2, <1>6 DEF AsSeen
<1> QED
  BY <1>4, <1>5, <1>6

\* What depends on an edit that is discarded goes with it.
LEMMA GoesOn ==
  ASSUME NEW i, NEW e \in GoesWith(i), NEW l \in DOMAIN queue,
         e < l, queue[l].status # "delivered", DependsOn(queue[l].body, queue[e].body)
  PROVE  l \in GoesWith(i)
<1>1. e \in DOMAIN queue
  BY DEF GoesWith
<1> QED
  BY <1>1 DEF GoesWith

LEMMA DiscardAsSeen ==
  ASSUME RInv, OInv', Onward, NEW i \in DOMAIN queue, wire.op \notin GoesWith(i), Drop(GoesWith(i)),
         UNCHANGED <<office_vars, mirror, pass, wire, made, screen, landed>>
  PROVE  AsSeen'
<1> DEFINE gone == GoesWith(i)
<1>1. gone \subseteq DOMAIN queue
  BY DEF GoesWith
<1>2. /\ DOMAIN queue' = DOMAIN queue \ gone /\ \A n \in DOMAIN queue' : queue'[n] = queue[n]
      /\ Owed' = Owed \ gone /\ office' = office /\ status' = status
  BY <1>1, DropRows DEF RInv, LInv, office_vars
<1>3. Parts /\ Parts' /\ office \in Quote
  BY PartsOk, PartsNext DEF RInv, LInv, OInv, Typed
<1>4. Sound(queue, Owed) /\ Sound(queue', Owed') /\ Owed \subseteq DOMAIN queue
  BY <1>3 DEF Parts, Sound
<1> HIDE DEF gone
<1>5. ASSUME NEW k \in Owed', Awaits(k), status # "signed" PROVE Like(Before(k), Before(k)')
  <2> DEFINE l == queue[k].body.line
             m == k - 1
  <2>1. k \in Owed /\ k \notin gone /\ queue[k].status = "queued" /\ queue[k].body.kind = "edit"
        /\ queue[k].body.field = "quantity"
    BY <1>2, <1>5 DEF Awaits, Owed, In
  <2>2. l \in Lines /\ m \in 0..MaxEdits /\ k \in 1..MaxEdits
    BY <1>4, <2>1, BoundsAssumption DEF Sound, Op
  <2>3. ASSUME NEW e \in Owed \cap gone, e < k, l \in About(queue[e].body) PROVE Moves(queue[e].body)
    <3>1. ~DependsOn(queue[k].body, queue[e].body)
      BY <1>4, <2>1, <2>3, GoesOn DEF gone
    <3>2. Op(queue[e].body) /\ e \in 1..MaxEdits /\ e <= m
      BY <1>4, <2>2, <2>3 DEF Sound
    <3>3. queue[e].body.kind # "order" => queue[e].body.line = l
      BY <2>3 DEF About
    <3>4. queue[e].body.kind # "add"
      BY <2>1, <3>1, <3>3 DEF DependsOn, About
    <3>5. queue[e].body.kind # "remove"
      <4> SUFFICES ASSUME queue[e].body.kind = "remove" PROVE FALSE
        OBVIOUS
      <4>1. \A n \in Owed : e < n /\ l \in About(queue[n].body) => queue[n].body.kind # "add"
        BY <1>4, <2>3, <3>3 DEF RInv, LInv, Adds, About
      <4>2. Upon(queue, Owed, e, l) /\ e \in Owed
        BY <2>3 DEF Upon
      <4> HIDE DEF l, m
      <4>3. Play(office, queue, Owed, m, l) = None
        BY <1>3, <1>4, <2>2, <3>2, <4>1, <4>2, PlayGone
      <4> QED
        BY <1>5, <2>1, <4>3 DEF RInv, AsSeen, Before, l, m
    <3>6. queue[e].body.kind = "edit" => queue[e].body.field = "option"
      BY <2>1, <3>1, <3>2, <3>3 DEF DependsOn, Op, Fields
    <3> QED
      BY <3>2, <3>4, <3>5, <3>6 DEF Op, Moves
  <2>4. queue'[k] = queue[k]
    BY <1>2, <1>4, <1>5 DEF Sound
  <2>5. \A n \in 1..MaxEdits : n <= m =>
          /\ Upon(queue', Owed', n, l) => Upon(queue, Owed, n, l) /\ queue[n].body = queue'[n].body
          /\ Upon(queue, Owed, n, l) /\ ~Upon(queue', Owed', n, l) => Moves(queue[n].body)
    <3>1. \A n \in Owed' : n \in Owed /\ queue'[n] = queue[n]
      BY <1>2, <1>4 DEF Sound
    <3>2. ASSUME NEW n \in 1..MaxEdits, n <= m, Upon(queue, Owed, n, l), ~Upon(queue', Owed', n, l)
          PROVE  Moves(queue[n].body)
      <4>1. n < k
        BY <2>2, <3>2
      <4>2. n \in Owed \cap gone /\ l \in About(queue[n].body)
        BY <1>2, <3>1, <3>2 DEF Upon
      <4> QED
        BY <2>3, <4>1, <4>2
    <3> QED
      BY <3>1, <3>2 DEF Upon
  <2> HIDE DEF l, m
  <2>6. Like(Play(office, queue, Owed, m, l), Play(office, queue', Owed', m, l))
    BY <1>3, <1>4, <2>2, <2>5, PlayLike
  <2> QED
    BY <1>2, <2>4, <2>6 DEF Before, l, m
<1> QED
  BY <1>2, <1>5, AsSeenKept

LEMMA DiscardsAsSeen == ASSUME RInv, OInv', Onward, Discards PROVE AsSeen'
<1>1. UNCHANGED <<office_vars, mirror, pass, wire, made, screen, landed>>
  BY DEF Discards, Discard, DiscardAll, Settle
<1>2. office' = office
  BY <1>1 DEF office_vars
<1>3. CASE UNCHANGED <<queue, mine, theirs>>
  BY <1>1, <1>2, <1>3, AsSeenStill DEF Owed
<1>4. ASSUME NEW gone \in SUBSET DOMAIN queue, wire.op \notin gone, Drop(gone),
             \/ \E i \in DOMAIN queue : gone = GoesWith(i)
             \/ gone = DOMAIN queue \ In(queue, "delivered")
             \/ gone \subseteq In(queue, "refused")
      PROVE  AsSeen'
  <2>1. Owed' = Owed \ gone
    BY <1>1, <1>4, DropRows DEF RInv, LInv
  <2>2. CASE \E i \in DOMAIN queue : gone = GoesWith(i)
    BY <1>1, <1>4, <2>2, DiscardAsSeen
  <2>3. CASE gone = DOMAIN queue \ In(queue, "delivered")
    BY <2>1, <2>3 DEF Owed, In, AsSeen
  <2>4. CASE gone \subseteq In(queue, "refused")
    <3>1. Owed' = Owed
      BY <2>1, <2>4 DEF Owed, In
    <3> QED
      BY <1>2, <3>1, AsSeenStill
  <2> QED
    BY <1>4, <2>2, <2>3, <2>4
<1> QED
  BY <1>3, <1>4, DiscardsDrop DEF Discards, RInv, LInv

LEMMA RestAsSeen ==
  ASSUME RInv, OInv', Onward,
         \/ UNCHANGED vars \/ Online \/ Send \/ HearNothing \/ RefreshRead \/ RefreshFails \/ EndPass
         \/ Close \/ ScreenRead \/ ScreenSave \/ RefreshSave \/ HearOk \/ AtTheOffice
  PROVE  AsSeen'
<1>1. CASE AtTheOffice
  <2>1. Owed' = Owed
    BY <1>1 DEF AtTheOffice, OfficeWrites, OfficeIssues, CustomerSigns, phone_vars, Owed
  <2>2. \A l \in Lines \ theirs' : office'[l] = office[l]
    BY <1>1 DEF AtTheOffice, OfficeWrites, OfficeIssues, CustomerSigns, RInv, LInv, OInv, Typed, Quote
  <2> QED
    BY <2>1, <2>2, AsSeenStill
<1>2. CASE RefreshSave
  <2>1. UNCHANGED <<office, landed>> /\ Owed' = Owed
    BY <1>2 DEF RefreshSave, Undelivered, office_vars, Owed, In
  <2> QED
    BY <2>1, AsSeenStill
<1>3. CASE HearOk
  <2>1. wire.op \in DOMAIN queue /\ wire.op \in landed /\ UNCHANGED <<office, landed>>
    BY <1>3, SentFirst DEF RInv, LInv, OInv, Typed, Passing, HearOk, In, office_vars
  <2>2. DOMAIN queue' = DOMAIN queue
        /\ \A n \in DOMAIN queue : queue'[n].status = IF n = wire.op THEN "delivered" ELSE queue[n].status
    BY <1>3, <2>1, MarkRows DEF HearOk, RInv, LInv, OInv
  <2>3. Owed' = Owed
    BY <2>1, <2>2 DEF Owed, In
  <2> QED
    BY <2>1, <2>3, AsSeenStill
<1>4. CASE \/ UNCHANGED vars \/ Online \/ Send \/ HearNothing \/ RefreshRead \/ RefreshFails \/ EndPass
           \/ Close \/ ScreenRead \/ ScreenSave
  <2>1. UNCHANGED <<office, queue, landed>>
    BY <1>4 DEF vars, Online, Send, HearNothing, RefreshRead, RefreshFails, RowsKept, EndPass, Close,
           ScreenRead, ScreenSave, office_vars, phone_vars
  <2>2. Owed' = Owed
    BY <2>1 DEF Owed
  <2> QED
    BY <2>1, <2>2, AsSeenStill
<1> QED
  BY <1>1, <1>2, <1>3, <1>4

LEMMA StepRInv == RInv /\ [Next]_vars => RInv'
<1> SUFFICES ASSUME RInv, [Next]_vars PROVE RInv'
  OBVIOUS
<1>1. LInv' /\ OInv' /\ Onward
  BY StepLInv, StepOnward DEF RInv, LInv
<1>2. AsSeen'
  <2>1. CASE Edits
    <3>1. PICK op, signal : Op(op) /\ Seen(op) /\ Enqueue(op, signal)
      BY <2>1, EditsSeen DEF RInv, LInv, OInv
    <3> QED
      BY <1>1, <3>1, EnqueueAsSeen
  <2> QED
    BY <1>1, <2>1, DiscardsAsSeen, LandAsSeen, HearRefusedAsSeen, RestAsSeen, NextIs
<1>3. RefusalsAreTheirs' /\ RefusedReason'
  BY <1>1, RefusalsStay, RefusedReasonStays
<1> QED
  BY <1>1, <1>2, <1>3 DEF RInv

(* A refusal has a reason, for any number of lines, edits and discards: an *)
(* edit that adds a line, takes one away or changes a quantity is refused  *)
(* only when somebody at the office touched its line, or the quote was     *)
(* signed before the edit got there.                                       *)
THEOREM QuoteRefusalsHaveReason == Spec => []RefusalsAreTheirs
<1>1. Init => RInv
  <2> SUFFICES ASSUME Init PROVE RInv
    OBVIOUS
  <2>1. queue = <<>> /\ wire.state = "idle"
    BY DEF Init, Silence
  <2> QED
    BY <2>1, InitLInv DEF RInv, AsSeen, RefusedReason, RefusalsAreTheirs, Owed, In
<1>2. RInv => RefusalsAreTheirs
  BY DEF RInv
<1> QED
  BY <1>1, <1>2, StepRInv, PTL DEF Spec

(* Every variable keeps its type, and what is on the wire is the first     *)
(* edit its pass has left.                                                 *)
THEOREM QuotesTyped == Spec => []TypeOK
<1>1. OInv => TypeOK
  <2> SUFFICES ASSUME OInv PROVE TypeOK
    OBVIOUS
  <2>1. View \in Quote
    BY QueueFits, ViewTyped DEF View, OInv, Typed
  <2>2. ASSUME wire.op # None PROVE pass.on /\ pass.left # {} /\ First(pass.left) = wire.op
    <3>1. wire.op \in pass.left /\ (\A x \in pass.left : wire.op <= x) /\ pass.left \in SUBSET Nat /\ pass.on
      BY <2>2 DEF OInv, Typed, Passing
    <3> QED
      BY <3>1, FirstIs
  <2>3. pass.copy \in Quote \cup {None}
    BY DEF OInv, Typed
  <2> QED
    BY <2>1, <2>2, <2>3 DEF OInv, Typed, TypeOK
<1> QED
  BY <1>1, OrderInvariance, PTL
=============================================================================
