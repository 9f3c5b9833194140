---------------------------- MODULE Payroll_proofs ----------------------------
(***************************************************************************)
(* The two clocks of a technician (TimeClock) and what a week of their     *)
(* rows pays (Payroll), for any number of rows, visits and minutes.        *)
(*                                                                         *)
(* First what a walk over a set computes: a sum, intervals merged, a span  *)
(* cut, segments attributed.  Then the rows: each clock runs once and no   *)
(* two rows of a clock share a minute.  Then the segments of a week, and   *)
(* the theorems.                                                           *)
(***************************************************************************)
EXTENDS Payroll, FiniteSetTheorems, TLAPS

-----------------------------------------------------------------------------
(* Walks.  A walk is a fold by a function on the subsets of what is        *)
(* walked; such a function exists and is unique, which is shown from the   *)
(* least subset where it would not be.                                     *)

\* A nonempty collection of finite sets has a least one.
LEMMA LeastSubset ==
  ASSUME NEW A, IsFiniteSet(A), NEW F \in SUBSET (SUBSET A), F # {}
  PROVE  \E T \in F : \A U \in F : U \subseteq T => U = T
<1>1. F \subseteq FiniteSubsetsOf(A)
  BY FS_Subset DEF FiniteSubsetsOf
<1>2. \E T \in F : \A U \in F : <<U, T>> \notin StrictSubsetOrdering(A)
  BY <1>1, FS_StrictSubsetOrderingWellFounded, WFMin
<1> QED
  BY <1>2 DEF StrictSubsetOrdering

\* A finite set has an element of the greatest value.
LEMMA Greatest ==
  ASSUME NEW A, IsFiniteSet(A), NEW val, \A x \in A : val[x] \in Int
  PROVE  \A T \in SUBSET A : T # {} => \E s \in T : \A t \in T : val[t] <= val[s]
<1> DEFINE F == {T \in SUBSET A : T # {} /\ ~\E s \in T : \A t \in T : val[t] <= val[s]}
<1> SUFFICES ASSUME F # {} PROVE FALSE
  OBVIOUS
<1>1. PICK T \in F : \A U \in F : U \subseteq T => U = T
  <2>1. F \in SUBSET (SUBSET A)
    OBVIOUS
  <2> HIDE DEF F
  <2> QED
    BY <2>1, LeastSubset
<1>2. PICK x \in T : TRUE
  BY <1>1
<1>3. CASE T \ {x} = {}
  BY <1>1, <1>2, <1>3
<1>4. CASE T \ {x} # {}
  <2>1. T \ {x} \notin F
    BY <1>1, <1>2
  <2>2. PICK y \in T \ {x} : \A t \in T \ {x} : val[t] <= val[y]
    BY <1>1, <1>4, <2>1
  <2>3. val[x] \in Int /\ val[y] \in Int /\ \A t \in T : val[t] \in Int
    BY <1>1, <1>2, <2>2
  <2>4. CASE val[x] <= val[y]
    BY <1>1, <2>2, <2>4
  <2>5. CASE val[y] <= val[x]
    <3>1. \A t \in T : val[t] <= val[x]
      BY <2>2, <2>3, <2>5
    <3> QED
      BY <1>1, <1>2, <3>1
  <2> QED
    BY <2>3, <2>4, <2>5
<1> QED
  BY <1>3, <1>4

\* What picks an element of each subset of A, what keeps within V, and what a
\* function on those subsets has to do to walk them.
Picks(last, A) == \A s \in SUBSET A : s # {} => last[s] \in s
Keeps(next, A, V) == \A x \in A, v \in V : next[<<x, v>>] \in V
Walks(it, A, base, last, next) ==
  \A s \in SUBSET A : it[s] = IF s = {} THEN base ELSE next[<<last[s], it[s \ {last[s]}]>>]

Follows(g, A, V, base, last, next) ==
  /\ g[{}] = base
  /\ \A s \in SUBSET A :
       (s # {} /\ g[s \ {last[s]}] \in V) => g[s] = next[<<last[s], g[s \ {last[s]}]>>]

ByWalks(W, A, V, base, last, next) ==
  \A T \in SUBSET A, it \in [SUBSET A -> V] :
    Walks(it, A, base, last, next) => \E g : W[T] = g[T] /\ Follows(g, T, V, base, last, next)

LEMMA WalksAgree ==
  ASSUME NEW A, IsFiniteSet(A), NEW base, NEW last, NEW next, NEW g, NEW h, NEW B, NEW C,
         A = B \cap C, Walks(g, B, base, last, next), Walks(h, C, base, last, next),
         Picks(last, A)
  PROVE  \A s \in SUBSET A : g[s] = h[s]
<1> DEFINE F == {t \in SUBSET A : g[t] # h[t]}
<1> SUFFICES ASSUME F # {} PROVE FALSE
  OBVIOUS
<1>1. PICK T \in F : \A U \in F : U \subseteq T => U = T
  <2>1. F \in SUBSET (SUBSET A)
    OBVIOUS
  <2> HIDE DEF F
  <2> QED
    BY <2>1, LeastSubset
<1>2. /\ g[T] = IF T = {} THEN base ELSE next[<<last[T], g[T \ {last[T]}]>>]
      /\ h[T] = IF T = {} THEN base ELSE next[<<last[T], h[T \ {last[T]}]>>]
  BY <1>1 DEF Walks
<1>3. T # {} /\ last[T] \in T
  BY <1>1, <1>2 DEF Picks
<1>4. g[T \ {last[T]}] = h[T \ {last[T]}]
  BY <1>1, <1>3
<1> QED
  BY <1>1, <1>2, <1>3, <1>4

\* Every finite set can be walked, and what is carried along stays in V.
LEMMA WalkExists ==
  ASSUME NEW A, IsFiniteSet(A), NEW V, NEW base \in V, NEW last, Picks(last, A),
         NEW next, Keeps(next, A, V)
  PROVE  \E it \in [SUBSET A -> V] : Walks(it, A, base, last, next)
<1> DEFINE Good(T) == \E it \in [SUBSET T -> V] : Walks(it, T, base, last, next)
           F == {T \in SUBSET A : ~Good(T)}
<1> SUFFICES ASSUME F # {} PROVE FALSE
  OBVIOUS
<1>1. PICK T \in F : \A U \in F : U \subseteq T => U = T
  <2>1. F \in SUBSET (SUBSET A)
    OBVIOUS
  <2> HIDE DEF F
  <2> QED
    BY <2>1, LeastSubset
<1>2. \A u \in SUBSET T : u # T => Good(u)
  BY <1>1
<1> DEFINE G(u) == CHOOSE it \in [SUBSET u -> V] : Walks(it, u, base, last, next)
<1>3. \A u \in SUBSET T : u # T => G(u) \in [SUBSET u -> V] /\ Walks(G(u), u, base, last, next)
  BY <1>2
<1> HIDE DEF G, Good
<1> DEFINE less(s) == s \ {last[s]}
           h == [s \in SUBSET T |-> IF s = {} THEN base ELSE next[<<last[s], G(less(s))[less(s)]>>]]
<1>4. \A s \in SUBSET T : s # {} => last[s] \in s /\ last[s] \in A /\ less(s) \in SUBSET T /\ less(s) # T
                                     /\ less(s) \in SUBSET s
  BY <1>1 DEF Picks
<1>5. h \in [SUBSET T -> V]
  <2>1. ASSUME NEW s \in SUBSET T, s # {} PROVE G(less(s))[less(s)] \in V /\ last[s] \in A
    <3>1. less(s) \in SUBSET T /\ less(s) # T /\ last[s] \in A
      BY <1>4, <2>1
    <3>2. G(less(s)) \in [SUBSET less(s) -> V]
      BY <1>3, <3>1
    <3> QED
      BY <3>1, <3>2
  <2> QED
    BY <2>1 DEF Keeps
<1>6. ASSUME NEW u \in SUBSET T, u # T PROVE h[u] = G(u)[u]
  <2>1. Walks(G(u), u, base, last, next)
    BY <1>3, <1>6
  <2>2. G(u)[u] = IF u = {} THEN base ELSE next[<<last[u], G(u)[less(u)]>>]
    BY <2>1 DEF Walks
  <2>3. CASE u = {}
    BY <2>2, <2>3
  <2>4. CASE u # {}
    <3>1. less(u) \in SUBSET u /\ less(u) \in SUBSET T /\ less(u) # T
      BY <1>4, <2>4
    <3>2. Walks(G(less(u)), less(u), base, last, next)
      BY <1>3, <3>1
    <3>3. IsFiniteSet(less(u)) /\ less(u) = u \cap less(u)
      BY <1>1, <3>1, FS_Subset
    <3>4. Picks(last, less(u))
      BY <1>4, <3>1 DEF Picks
    <3>5. G(u)[less(u)] = G(less(u))[less(u)]
      <4> HIDE DEF less, h
      <4> QED
        BY <2>1, <3>2, <3>3, <3>4, WalksAgree
    <3>6. h[u] = next[<<last[u], G(less(u))[less(u)]>>]
      BY <2>4
    <3> QED
      BY <2>2, <2>4, <3>5, <3>6
  <2> QED
    BY <2>3, <2>4
<1>7. Walks(h, T, base, last, next)
  <2>1. ASSUME NEW s \in SUBSET T, s # {} PROVE h[s] = next[<<last[s], h[less(s)]>>]
    <3>1. h[s] = next[<<last[s], G(less(s))[less(s)]>>]
      BY <2>1
    <3>2. h[less(s)] = G(less(s))[less(s)]
      BY <1>4, <1>6, <2>1
    <3> QED
      BY <3>1, <3>2
  <2>2. h[{}] = base
    OBVIOUS
  <2> HIDE DEF h
  <2> QED
    BY <2>1, <2>2 DEF Walks
<1> QED
  BY <1>1, <1>5, <1>7 DEF Good

\* Whatever walks as next does where what it carries is in V walks alike.
LEMMA WalkUnique ==
  ASSUME NEW A, IsFiniteSet(A), NEW V, NEW base \in V, NEW last, Picks(last, A),
         NEW next, NEW it \in [SUBSET A -> V], Walks(it, A, base, last, next),
         NEW T \in SUBSET A, NEW g, Follows(g, T, V, base, last, next)
  PROVE  g[T] = it[T]
<1> DEFINE F == {t \in SUBSET T : g[t] # it[t]}
<1> SUFFICES ASSUME F # {} PROVE FALSE
  OBVIOUS
<1>1. PICK S \in F : \A U \in F : U \subseteq S => U = S
  <2>1. F \in SUBSET (SUBSET A)
    OBVIOUS
  <2> HIDE DEF F
  <2> QED
    BY <2>1, LeastSubset
<1>2. it[S] = IF S = {} THEN base ELSE next[<<last[S], it[S \ {last[S]}]>>]
  BY <1>1 DEF Walks
<1>3. S # {} /\ last[S] \in S
  BY <1>1, <1>2 DEF Picks, Follows
<1>4. g[S \ {last[S]}] = it[S \ {last[S]}] /\ it[S \ {last[S]}] \in V
  BY <1>1, <1>3
<1> QED
  BY <1>1, <1>2, <1>3, <1>4 DEF Follows

\* What is computed by some walk of every subset of A is what is carried along.
LEMMA WalkOf ==
  ASSUME NEW A, IsFiniteSet(A), NEW V, NEW base \in V, NEW last, Picks(last, A),
         NEW next, Keeps(next, A, V), NEW W, ByWalks(W, A, V, base, last, next)
  PROVE  \A T \in SUBSET A :
           /\ W[T] \in V
           /\ T = {} => W[T] = base
           /\ T # {} => last[T] \in T /\ W[T] = next[<<last[T], W[T \ {last[T]}]>>]
<1>1. PICK it \in [SUBSET A -> V] : Walks(it, A, base, last, next)
  BY WalkExists
<1>2. ASSUME NEW T \in SUBSET A PROVE W[T] = it[T]
  <2>1. PICK g : W[T] = g[T] /\ Follows(g, T, V, base, last, next)
    BY <1>1 DEF ByWalks
  <2> QED
    BY <1>1, <2>1, WalkUnique
<1>3. \A T \in SUBSET A : T # {} => last[T] \in T
  BY DEF Picks
<1> QED
  BY <1>1, <1>2, <1>3 DEF Walks

-----------------------------------------------------------------------------
(* Sums.                                                                   *)

First(T) == CHOOSE x \in T : TRUE
Sum(val, T) == SumFunctionOnSet(val, T)

AddsUp(val, T) ==
  /\ Sum(val, T) \in Nat
  /\ T = {} => Sum(val, T) = 0
  /\ T # {} => First(T) \in T /\ Sum(val, T) = val[First(T)] + Sum(val, T \ {First(T)})

\* The sum over a set is what one element adds to the sum over the rest.
LEMMA SumIs ==
  ASSUME NEW A, IsFiniteSet(A), NEW val, \A s \in A : val[s] \in Nat
  PROVE  \A T \in SUBSET A : AddsUp(val, T)
<1> DEFINE last == [s \in SUBSET A |-> First(s)]
           next == [p \in A \X Nat |-> val[p[1]] + p[2]]
           sums == [T \in SUBSET A |-> Sum(val, T)]
           V == Nat
           none == 0
           Sol(g, T) == g = [s \in SUBSET T |-> IF s = {} THEN 0 ELSE val[First(s)] + g[s \ {First(s)}]]
<1>1. \A s \in SUBSET A : s # {} => First(s) \in s /\ last[s] = First(s)
  BY DEF First
<1>2. \A x \in A, v \in V : next[<<x, v>>] = val[x] + v /\ next[<<x, v>>] \in V
  OBVIOUS
<1>3. \A T : Sum(val, T) = (CHOOSE g : Sol(g, T))[T]
  BY DEF Sum, SumFunctionOnSet, FoldFunctionOnSet, MapThenFoldSet, First
<1>4. ASSUME NEW T \in SUBSET A, NEW it \in [SUBSET A -> V], Walks(it, A, none, last, next)
      PROVE  \E g : sums[T] = g[T] /\ Follows(g, T, V, none, last, next)
  <2> DEFINE h == [s \in SUBSET T |-> it[s]]
  <2>1. Sol(h, T)
    <3>1. \A s \in SUBSET T : it[s] = IF s = {} THEN 0 ELSE val[First(s)] + it[s \ {First(s)}]
      <4> SUFFICES ASSUME NEW s \in SUBSET T
                   PROVE  it[s] = IF s = {} THEN 0 ELSE val[First(s)] + it[s \ {First(s)}]
        OBVIOUS
      <4>1. it[s] = IF s = {} THEN none ELSE next[<<last[s], it[s \ {last[s]}]>>]
        BY <1>4 DEF Walks
      <4>2. s # {} => First(s) \in A /\ last[s] = First(s) /\ it[s \ {First(s)}] \in V
        BY <1>1
      <4> HIDE DEF next, last
      <4> QED
        BY <1>2, <4>1, <4>2
    <3> QED
      BY <3>1
  <2>2. PICK g : Sol(g, T) /\ sums[T] = g[T]
    BY <1>3, <2>1
  <2>3. Follows(g, T, V, none, last, next)
    <3>1. g[{}] = none
      BY <2>2
    <3>2. ASSUME NEW s \in SUBSET T, s # {}, g[s \ {last[s]}] \in V
          PROVE  g[s] = next[<<last[s], g[s \ {last[s]}]>>]
      <4>1. g[s] = val[First(s)] + g[s \ {First(s)}]
        BY <2>2, <3>2
      <4>2. last[s] = First(s) /\ First(s) \in A
        BY <1>1, <3>2
      <4> HIDE DEF Sol, next
      <4> QED
        BY <1>2, <3>2, <4>1, <4>2
    <3> HIDE DEF Sol, next, last, V, none
    <3> QED
      BY <3>1, <3>2 DEF Follows
  <2> QED
    BY <2>2, <2>3
<1>5. Picks(last, A) /\ Keeps(next, A, V) /\ none \in V
  BY <1>1, <1>2 DEF Picks, Keeps
<1>6. ByWalks(sums, A, V, none, last, next)
  <2> HIDE DEF last, next, sums, V, none, Sol
  <2> QED
    BY <1>4 DEF ByWalks
<1>7. \A T \in SUBSET A :
        /\ sums[T] \in V
        /\ T = {} => sums[T] = none
        /\ T # {} => last[T] \in T /\ sums[T] = next[<<last[T], sums[T \ {last[T]}]>>]
  <2> HIDE DEF last, next, sums, V, none, Sol
  <2> QED
    BY <1>5, <1>6, WalkOf
<1> HIDE DEF next, last, Sol
<1> QED
  <2> SUFFICES ASSUME NEW T \in SUBSET A
               PROVE  AddsUp(val, T)
    OBVIOUS
  <2>1. Sum(val, T) \in Nat /\ (T = {} => Sum(val, T) = 0)
    BY <1>7
  <2>2. CASE T # {}
    <3>1. First(T) \in T /\ T \ {First(T)} \in SUBSET A
      BY <1>1, <2>2
    <3>2. sums[T \ {First(T)}] = Sum(val, T \ {First(T)}) /\ sums[T \ {First(T)}] \in V
      BY <1>7, <3>1
    <3>3. sums[T] = next[<<First(T), sums[T \ {First(T)}]>>] /\ sums[T] = Sum(val, T)
      BY <1>1, <1>7, <2>2
    <3> HIDE DEF sums
    <3> QED
      BY <1>2, <3>1, <3>2, <3>3, <2>1 DEF AddsUp
  <2> QED
    BY <2>1, <2>2 DEF AddsUp

\* A sum of sizes of sets that share nothing is the size of their union.
AllOf(cell, T) == UNION {cell[s] : s \in T}

LEMMA SumOfSizes ==
  ASSUME NEW A, IsFiniteSet(A), NEW val, NEW cell,
         \A s \in A : IsFiniteSet(cell[s]) /\ val[s] = Cardinality(cell[s]),
         \A s, t \in A : s # t => cell[s] \cap cell[t] = {}
  PROVE  \A T \in SUBSET A :
           IsFiniteSet(AllOf(cell, T)) /\ Sum(val, T) = Cardinality(AllOf(cell, T))
<1> DEFINE all(T) == AllOf(cell, T)
           F == {T \in SUBSET A : ~(IsFiniteSet(all(T)) /\ Sum(val, T) = Cardinality(all(T)))}
<1> SUFFICES ASSUME F # {} PROVE FALSE
  OBVIOUS
<1>1. PICK T \in F : \A U \in F : U \subseteq T => U = T
  <2>1. F \in SUBSET (SUBSET A)
    OBVIOUS
  <2> HIDE DEF F
  <2> QED
    BY <2>1, LeastSubset
<1>2. \A s \in A : val[s] \in Nat
  BY FS_CardinalityType
<1>3. /\ Sum(val, T) \in Nat
      /\ T = {} => Sum(val, T) = 0
      /\ T # {} => First(T) \in T /\ Sum(val, T) = val[First(T)] + Sum(val, T \ {First(T)})
  <2>1. \A U \in SUBSET A : AddsUp(val, U)
    BY <1>2, SumIs
  <2> QED
    BY <1>1, <2>1 DEF AddsUp
<1>4. CASE T = {}
  <2>1. all(T) = {}
    BY <1>4 DEF AllOf
  <2> QED
    BY <1>1, <1>3, <1>4, <2>1, FS_EmptySet
<1>5. CASE T # {}
  <2> DEFINE x == First(T)
             R == T \ {x}
  <2>1. x \in T /\ x \in A /\ R \in SUBSET A /\ R \subseteq T /\ R # T
    BY <1>1, <1>3, <1>5
  <2>2. IsFiniteSet(all(R)) /\ Sum(val, R) = Cardinality(all(R))
    <3> HIDE DEF x, R
    <3>1. R \notin F
      BY <1>1, <2>1
    <3> QED
      BY <2>1, <3>1
  <2>3. all(T) = all(R) \cup cell[x] /\ all(R) \cap cell[x] = {}
    BY <1>1, <2>1 DEF AllOf
  <2>4. IsFiniteSet(cell[x]) /\ val[x] = Cardinality(cell[x])
    BY <2>1
  <2>5. /\ IsFiniteSet(all(T))
        /\ Cardinality(all(T)) = Cardinality(all(R)) + Cardinality(cell[x])
    <3> HIDE DEF all
    <3>1. Cardinality(all(R) \cap cell[x]) = 0
      BY <2>3, FS_EmptySet
    <3>2. Cardinality(all(R)) \in Nat /\ Cardinality(cell[x]) \in Nat
      BY <2>2, <2>4, FS_CardinalityType
    <3>3. /\ IsFiniteSet(all(R) \cup cell[x])
          /\ Cardinality(all(R) \cup cell[x])
               = Cardinality(all(R)) + Cardinality(cell[x]) - Cardinality(all(R) \cap cell[x])
      <4> HIDE DEF x, R
      <4> QED
        BY <2>2, <2>4, FS_Union
    <3> HIDE DEF x, R
    <3> QED
      BY <2>3, <3>1, <3>2, <3>3
  <2>6. Sum(val, T) = val[x] + Sum(val, R)
    BY <1>3, <1>5
  <2>7. Cardinality(all(R)) \in Nat /\ Cardinality(cell[x]) \in Nat
    BY <2>2, <2>4, FS_CardinalityType
  <2> HIDE DEF x, R, all
  <2> QED
    BY <1>1, <2>2, <2>4, <2>5, <2>6, <2>7
<1> QED
  BY <1>4, <1>5

-----------------------------------------------------------------------------
(* Intervals merged.                                                       *)

Spans == {p \in Nat \X Nat : p[1] < p[2]}
Covers(S, t) == \E p \in S : p[1] <= t /\ t < p[2]

LEMMA LatestIs ==
  ASSUME NEW S, IsFiniteSet(S), S \subseteq Nat \X Nat, S # {}
  PROVE  Latest(S) \in S /\ \A t \in S : t[1] <= Latest(S)[1]
<1> DEFINE val == [p \in S |-> p[1]]
<1>1. \A p \in S : val[p] = p[1] /\ val[p] \in Int
  OBVIOUS
<1>2. \E s \in S : \A t \in S : val[t] <= val[s]
  <2> HIDE DEF val
  <2>1. \A T \in SUBSET S : T # {} => \E s \in T : \A t \in T : val[t] <= val[s]
    BY <1>1, Greatest
  <2> QED
    BY <2>1
<1>3. \E s \in S : \A t \in S : t[1] <= s[1]
  <2> HIDE DEF val
  <2> QED
    BY <1>1, <1>2
<1> QED
  BY <1>3 DEF Latest

Merged(T) == Walk(Merge, {}, Latest, T)
Outs == {S \in SUBSET (Nat \X Nat) : IsFiniteSet(S)}

LEMMA MergeKeeps ==
  ASSUME NEW s \in Nat \X Nat, NEW out \in Outs
  PROVE  Merge(s, out) \in Outs
<1>1. IsFiniteSet(out) /\ out \subseteq Nat \X Nat
  BY DEF Outs
<1>2. CASE out # {} /\ s[1] <= Latest(out)[2]
  <2> DEFINE last == Latest(out)
  <2>1. last \in Nat \X Nat
    BY <1>1, <1>2, LatestIs
  <2>2. Merge(s, out) = (out \ {last}) \cup {<<last[1], Longer(last[2], s[2])>>}
    BY <1>2 DEF Merge
  <2>3. <<last[1], Longer(last[2], s[2])>> \in Nat \X Nat
    BY <2>1 DEF Longer
  <2>4. IsFiniteSet(out \ {last})
    BY <1>1, FS_Subset
  <2> HIDE DEF last
  <2>5. IsFiniteSet((out \ {last}) \cup {<<last[1], Longer(last[2], s[2])>>})
    BY <2>4, FS_AddElement
  <2> QED
    BY <1>1, <2>2, <2>3, <2>5 DEF Outs
<1>3. CASE ~(out # {} /\ s[1] <= Latest(out)[2])
  <2>1. Merge(s, out) = out \cup {s}
    BY <1>3 DEF Merge
  <2> QED
    BY <1>1, <2>1, FS_AddElement DEF Outs
<1> QED
  BY <1>2, <1>3

MergesUp(T) ==
  /\ Merged(T) \in Outs
  /\ T = {} => Merged(T) = {}
  /\ T # {} => Latest(T) \in T /\ Merged(T) = Merge(Latest(T), Merged(T \ {Latest(T)}))

\* What is merged is the last span merged into what the others make.
LEMMA MergeIs ==
  ASSUME NEW A, IsFiniteSet(A), A \subseteq Nat \X Nat
  PROVE  \A T \in SUBSET A : MergesUp(T)
<1> DEFINE last == [s \in SUBSET A |-> Latest(s)]
           next == [p \in A \X Outs |-> Merge(p[1], p[2])]
           outs == [T \in SUBSET A |-> Merged(T)]
           none == {}
           Sol(g, T) == g = [s \in SUBSET T |-> IF s = {} THEN {} ELSE Merge(Latest(s), g[s \ {Latest(s)}])]
<1>1. \A s \in SUBSET A : s # {} => Latest(s) \in s /\ last[s] = Latest(s)
  <2> SUFFICES ASSUME NEW s \in SUBSET A, s # {} PROVE Latest(s) \in s
    OBVIOUS
  <2>1. IsFiniteSet(s) /\ s \subseteq Nat \X Nat
    BY FS_Subset
  <2> QED
    BY <2>1, LatestIs
<1>2. \A x \in A, v \in Outs : next[<<x, v>>] = Merge(x, v) /\ next[<<x, v>>] \in Outs
  <2> SUFFICES ASSUME NEW x \in A, NEW v \in Outs PROVE next[<<x, v>>] = Merge(x, v) /\ Merge(x, v) \in Outs
    OBVIOUS
  <2>1. next[<<x, v>>] = Merge(x, v)
    OBVIOUS
  <2>2. x \in Nat \X Nat
    OBVIOUS
  <2> HIDE DEF next
  <2> QED
    BY <2>1, <2>2, MergeKeeps
<1>3. \A T : Merged(T) = (CHOOSE g : Sol(g, T))[T]
  BY DEF Merged, Walk, MapThenFoldSet
<1>4. ASSUME NEW T \in SUBSET A, NEW it \in [SUBSET A -> Outs], Walks(it, A, none, last, next)
      PROVE  \E g : outs[T] = g[T] /\ Follows(g, T, Outs, none, last, next)
  <2> DEFINE h == [s \in SUBSET T |-> it[s]]
  <2>1. Sol(h, T)
    <3>1. \A s \in SUBSET T : it[s] = IF s = {} THEN {} ELSE Merge(Latest(s), it[s \ {Latest(s)}])
      <4> SUFFICES ASSUME NEW s \in SUBSET T
                   PROVE  it[s] = IF s = {} THEN {} ELSE Merge(Latest(s), it[s \ {Latest(s)}])
        OBVIOUS
      <4>1. it[s] = IF s = {} THEN none ELSE next[<<last[s], it[s \ {last[s]}]>>]
        BY <1>4 DEF Walks
      <4>2. s # {} => Latest(s) \in A /\ last[s] = Latest(s) /\ it[s \ {Latest(s)}] \in Outs
        BY <1>1
      <4> HIDE DEF next, last
      <4> QED
        BY <1>2, <4>1, <4>2
    <3>2. \A s \in SUBSET T : s # {} => Latest(s) \in s
      BY <1>1
    <3> QED
      BY <3>1, <3>2
  <2>2. PICK g : Sol(g, T) /\ outs[T] = g[T]
    BY <1>3, <2>1
  <2>3. Follows(g, T, Outs, none, last, next)
    <3>1. g[{}] = none
      BY <2>2
    <3>2. ASSUME NEW s \in SUBSET T, s # {}, g[s \ {last[s]}] \in Outs
          PROVE  g[s] = next[<<last[s], g[s \ {last[s]}]>>]
      <4>1. g[s] = Merge(Latest(s), g[s \ {Latest(s)}])
        BY <2>2, <3>2
      <4>2. last[s] = Latest(s) /\ Latest(s) \in A
        BY <1>1, <3>2
      <4> HIDE DEF Sol, next
      <4> QED
        BY <1>2, <3>2, <4>1, <4>2
    <3> HIDE DEF Sol, next, last, none
    <3> QED
      BY <3>1, <3>2 DEF Follows
  <2> QED
    BY <2>2, <2>3
<1>5. none \in Outs
  BY FS_EmptySet DEF Outs
<1>6. Picks(last, A) /\ Keeps(next, A, Outs)
  BY <1>1, <1>2 DEF Picks, Keeps
<1>7. ByWalks(outs, A, Outs, none, last, next)
  <2> HIDE DEF last, next, outs, none, Sol
  <2> QED
    BY <1>4 DEF ByWalks
<1>8. \A T \in SUBSET A :
        /\ outs[T] \in Outs
        /\ T = {} => outs[T] = none
        /\ T # {} => last[T] \in T /\ outs[T] = next[<<last[T], outs[T \ {last[T]}]>>]
  <2> HIDE DEF last, next, outs, none, Sol
  <2> QED
    BY <1>5, <1>6, <1>7, WalkOf
<1> HIDE DEF next, last, Sol
<1> QED
  <2> SUFFICES ASSUME NEW T \in SUBSET A
               PROVE  MergesUp(T)
    OBVIOUS
  <2>1. Merged(T) \in Outs /\ (T = {} => Merged(T) = {})
    BY <1>8
  <2>2. CASE T # {}
    <3>1. Latest(T) \in T /\ T \ {Latest(T)} \in SUBSET A
      BY <1>1, <2>2
    <3>2. outs[T \ {Latest(T)}] = Merged(T \ {Latest(T)}) /\ outs[T \ {Latest(T)}] \in Outs
      BY <1>8, <3>1
    <3>3. outs[T] = next[<<Latest(T), outs[T \ {Latest(T)}]>>] /\ outs[T] = Merged(T)
      BY <1>1, <1>8, <2>2
    <3> HIDE DEF outs
    <3> QED
      BY <1>2, <3>1, <3>2, <3>3, <2>1 DEF MergesUp
  <2> QED
    BY <2>1, <2>2 DEF MergesUp

\* A span merged covers what it covered, and what was covered: nothing merged
\* before it begins later.
LEMMA MergeCovers ==
  ASSUME NEW s \in Spans, NEW out \in Outs, out \subseteq Spans, \A p \in out : p[1] <= s[1]
  PROVE  /\ Merge(s, out) \subseteq Spans
         /\ \A p \in Merge(s, out) : p[1] <= s[1]
         /\ \A t \in Nat : Covers(Merge(s, out), t) <=> Covers(out, t) \/ Covers({s}, t)
<1> DEFINE last == Latest(out)
           long == <<last[1], Longer(last[2], s[2])>>
<1>1. CASE out # {} /\ s[1] <= last[2]
  <2>1. last \in out /\ last \in Spans
    BY <1>1, LatestIs DEF Outs
  <2>2. Merge(s, out) = (out \ {last}) \cup {long}
    BY <1>1 DEF Merge
  <2>3. last[1] \in Nat /\ last[2] \in Nat /\ s[1] \in Nat /\ s[2] \in Nat
        /\ last[1] < last[2] /\ s[1] < s[2] /\ last[1] <= s[1]
    BY <2>1 DEF Spans
  <2>4. long[1] = last[1] /\ long[2] = Longer(last[2], s[2]) /\ long \in Spans
    BY <2>3 DEF Longer, Spans
  <2>5. \A t \in Nat : (long[1] <= t /\ t < long[2]) <=> ((last[1] <= t /\ t < last[2]) \/ (s[1] <= t /\ t < s[2]))
    BY <1>1, <2>3, <2>4 DEF Longer
  <2> HIDE DEF last, long
  <2> QED
    BY <2>1, <2>2, <2>3, <2>4, <2>5 DEF Covers
<1>2. CASE ~(out # {} /\ s[1] <= last[2])
  <2>1. Merge(s, out) = out \cup {s}
    BY <1>2 DEF Merge
  <2>2. s[1] \in Nat
    BY DEF Spans
  <2> QED
    BY <2>1, <2>2 DEF Covers
<1> QED
  BY <1>1, <1>2

\* Merging keeps what is covered.
LEMMA MergedCovers ==
  ASSUME NEW A, IsFiniteSet(A), A \subseteq Spans
  PROVE  \A T \in SUBSET A :
           /\ Merged(T) \in Outs /\ Merged(T) \subseteq Spans
           /\ \A p \in Merged(T) : \E q \in T : p[1] <= q[1]
           /\ \A t \in Nat : Covers(Merged(T), t) <=> Covers(T, t)
<1> DEFINE Good(T) == /\ Merged(T) \in Outs /\ Merged(T) \subseteq Spans
                      /\ \A p \in Merged(T) : \E q \in T : p[1] <= q[1]
                      /\ \A t \in Nat : Covers(Merged(T), t) <=> Covers(T, t)
           F == {T \in SUBSET A : ~Good(T)}
<1> SUFFICES ASSUME F # {} PROVE FALSE
  OBVIOUS
<1>1. PICK T \in F : \A U \in F : U \subseteq T => U = T
  <2>1. F \in SUBSET (SUBSET A)
    OBVIOUS
  <2> HIDE DEF F
  <2> QED
    BY <2>1, LeastSubset
<1>2. \A U \in SUBSET A : MergesUp(U)
  <2>1. A \subseteq Nat \X Nat
    BY DEF Spans
  <2> QED
    BY <2>1, MergeIs
<1>3. T \in SUBSET A /\ ~Good(T) /\ MergesUp(T)
  BY <1>1, <1>2
<1>4. CASE T = {}
  BY <1>3, <1>4 DEF MergesUp, Covers
<1>5. CASE T # {}
  <2> DEFINE s == Latest(T)
             R == T \ {s}
             out == Merged(R)
  <2>1. s \in T /\ s \in Spans /\ R \in SUBSET A /\ R \subseteq T /\ R # T /\ Merged(T) = Merge(s, out)
    BY <1>3, <1>5 DEF MergesUp
  <2>2. Good(R)
    <3> HIDE DEF R, s, Good
    <3> QED
      BY <1>1, <2>1
  <2>3. \A q \in T : q \in Spans /\ q[1] <= s[1] /\ q[1] \in Nat
    <3>1. IsFiniteSet(T) /\ T \subseteq Nat \X Nat /\ T \subseteq Spans
      BY <1>3, FS_Subset DEF Spans
    <3> QED
      BY <1>5, <3>1, LatestIs DEF Spans
  <2>4. \A p \in out : p[1] <= s[1]
    <3> SUFFICES ASSUME NEW p \in out PROVE p[1] <= s[1]
      OBVIOUS
    <3>1. p \in Spans
      BY <2>2
    <3>2. PICK q \in R : p[1] <= q[1]
      BY <2>2
    <3>3. p[1] \in Nat /\ q[1] \in Nat /\ q[1] <= s[1] /\ s[1] \in Nat
      BY <2>1, <2>3, <3>1, <3>2 DEF Spans
    <3> QED
      BY <3>2, <3>3
  <2>5. /\ Merge(s, out) \subseteq Spans
        /\ \A p \in Merge(s, out) : p[1] <= s[1]
        /\ \A t \in Nat : Covers(Merge(s, out), t) <=> Covers(out, t) \/ Covers({s}, t)
    <3>1. out \in Outs /\ out \subseteq Spans
      BY <2>2
    <3> HIDE DEF s, out
    <3> QED
      BY <2>1, <2>4, <3>1, MergeCovers
  <2>6. \A t \in Nat : Covers(T, t) <=> Covers(R, t) \/ Covers({s}, t)
    BY <2>1 DEF Covers
  <2>7. Merged(T) \in Outs
    BY <1>3 DEF MergesUp
  <2>8. Good(T)
    <3> HIDE DEF s, R
    <3> QED
      BY <2>1, <2>2, <2>5, <2>6, <2>7
  <2> QED
    BY <1>3, <2>8
<1> QED
  BY <1>4, <1>5

-----------------------------------------------------------------------------
(* A span cut by what covers it.                                           *)

CutBy(span, T) == LET cut(c, at) == Cut(span, c, at) IN Walk(cut, Whole(span), Latest, T)
Cuts == {at \in [cursor : Nat, gaps : SUBSET (Nat \X Nat)] : IsFiniteSet(at.gaps)}

LEMMA CutKeeps ==
  ASSUME NEW span \in Nat \X Nat, NEW c \in Nat \X Nat, NEW at \in Cuts
  PROVE  Cut(span, c, at) \in Cuts
<1>1. at.cursor \in Nat /\ at.gaps \subseteq Nat \X Nat /\ IsFiniteSet(at.gaps)
  BY DEF Cuts
<1>2. CASE at.cursor >= span[2] \/ c[2] <= at.cursor \/ c[1] >= span[2]
  BY <1>2 DEF Cut
<1>3. CASE ~(at.cursor >= span[2] \/ c[2] <= at.cursor \/ c[1] >= span[2])
  <2> DEFINE gaps == IF c[1] > at.cursor THEN at.gaps \cup {<<at.cursor, c[1]>>} ELSE at.gaps
  <2>1. Cut(span, c, at) = [cursor |-> Longer(at.cursor, c[2]), gaps |-> gaps]
    BY <1>3 DEF Cut
  <2>2. IsFiniteSet(at.gaps \cup {<<at.cursor, c[1]>>})
    BY <1>1, FS_AddElement
  <2>3. gaps \subseteq Nat \X Nat /\ IsFiniteSet(gaps)
    BY <1>1, <2>2
  <2>4. Longer(at.cursor, c[2]) \in Nat
    BY <1>1 DEF Longer
  <2> HIDE DEF gaps
  <2> QED
    BY <2>1, <2>3, <2>4 DEF Cuts
<1> QED
  BY <1>2, <1>3

CutsUp(span, T) ==
  /\ CutBy(span, T) \in Cuts
  /\ T = {} => CutBy(span, T) = Whole(span)
  /\ T # {} => Latest(T) \in T /\ CutBy(span, T) = Cut(span, Latest(T), CutBy(span, T \ {Latest(T)}))

\* What is cut is cut by the last cover after all the others.
LEMMA CutIs ==
  ASSUME NEW span \in Nat \X Nat, NEW A, IsFiniteSet(A), A \subseteq Nat \X Nat
  PROVE  \A T \in SUBSET A : CutsUp(span, T)
<1> DEFINE last == [s \in SUBSET A |-> Latest(s)]
           next == [p \in A \X Cuts |-> Cut(span, p[1], p[2])]
           cuts == [T \in SUBSET A |-> CutBy(span, T)]
           none == Whole(span)
           Sol(g, T) == g = [s \in SUBSET T |-> IF s = {} THEN Whole(span) ELSE Cut(span, Latest(s), g[s \ {Latest(s)}])]
<1>1. \A s \in SUBSET A : s # {} => Latest(s) \in s /\ last[s] = Latest(s)
  <2> SUFFICES ASSUME NEW s \in SUBSET A, s # {} PROVE Latest(s) \in s
    OBVIOUS
  <2>1. IsFiniteSet(s) /\ s \subseteq Nat \X Nat
    BY FS_Subset
  <2> QED
    BY <2>1, LatestIs
<1>2. \A x \in A, v \in Cuts : next[<<x, v>>] = Cut(span, x, v) /\ next[<<x, v>>] \in Cuts
  <2> SUFFICES ASSUME NEW x \in A, NEW v \in Cuts
               PROVE  next[<<x, v>>] = Cut(span, x, v) /\ Cut(span, x, v) \in Cuts
    OBVIOUS
  <2>1. next[<<x, v>>] = Cut(span, x, v)
    OBVIOUS
  <2>2. x \in Nat \X Nat
    OBVIOUS
  <2> HIDE DEF next
  <2> QED
    BY <2>1, <2>2, CutKeeps
<1>3. \A T : CutBy(span, T) = (CHOOSE g : Sol(g, T))[T]
  BY DEF CutBy, Walk, MapThenFoldSet
<1>4. ASSUME NEW T \in SUBSET A, NEW it \in [SUBSET A -> Cuts], Walks(it, A, none, last, next)
      PROVE  \E g : cuts[T] = g[T] /\ Follows(g, T, Cuts, none, last, next)
  <2> DEFINE h == [s \in SUBSET T |-> it[s]]
  <2>1. Sol(h, T)
    <3>1. \A s \in SUBSET T : it[s] = IF s = {} THEN Whole(span) ELSE Cut(span, Latest(s), it[s \ {Latest(s)}])
      <4> SUFFICES ASSUME NEW s \in SUBSET T
                   PROVE  it[s] = IF s = {} THEN Whole(span) ELSE Cut(span, Latest(s), it[s \ {Latest(s)}])
        OBVIOUS
      <4>1. it[s] = IF s = {} THEN none ELSE next[<<last[s], it[s \ {last[s]}]>>]
        BY <1>4 DEF Walks
      <4>2. s # {} => Latest(s) \in A /\ last[s] = Latest(s) /\ it[s \ {Latest(s)}] \in Cuts
        BY <1>1
      <4> HIDE DEF next, last
      <4> QED
        BY <1>2, <4>1, <4>2
    <3>2. \A s \in SUBSET T : s # {} => Latest(s) \in s
      BY <1>1
    <3> QED
      BY <3>1, <3>2
  <2>2. PICK g : Sol(g, T) /\ cuts[T] = g[T]
    BY <1>3, <2>1
  <2>3. Follows(g, T, Cuts, none, last, next)
    <3>1. g[{}] = none
      BY <2>2
    <3>2. ASSUME NEW s \in SUBSET T, s # {}, g[s \ {last[s]}] \in Cuts
          PROVE  g[s] = next[<<last[s], g[s \ {last[s]}]>>]
      <4>1. g[s] = Cut(span, Latest(s), g[s \ {Latest(s)}])
        BY <2>2, <3>2
      <4>2. last[s] = Latest(s) /\ Latest(s) \in A
        BY <1>1, <3>2
      <4> HIDE DEF Sol, next
      <4> QED
        BY <1>2, <3>2, <4>1, <4>2
    <3> HIDE DEF Sol, next, last, none
    <3> QED
      BY <3>1, <3>2 DEF Follows
  <2> QED
    BY <2>2, <2>3
<1>5. none \in Cuts
  BY FS_EmptySet DEF Cuts, Whole
<1>6. Picks(last, A) /\ Keeps(next, A, Cuts)
  BY <1>1, <1>2 DEF Picks, Keeps
<1>7. ByWalks(cuts, A, Cuts, none, last, next)
  <2> HIDE DEF last, next, cuts, none, Sol
  <2> QED
    BY <1>4 DEF ByWalks
<1>8. \A T \in SUBSET A :
        /\ cuts[T] \in Cuts
        /\ T = {} => cuts[T] = none
        /\ T # {} => last[T] \in T /\ cuts[T] = next[<<last[T], cuts[T \ {last[T]}]>>]
  <2> HIDE DEF last, next, cuts, none, Sol
  <2> QED
    BY <1>5, <1>6, <1>7, WalkOf
<1> HIDE DEF next, last, Sol
<1> QED
  <2> SUFFICES ASSUME NEW T \in SUBSET A
               PROVE  CutsUp(span, T)
    OBVIOUS
  <2>1. CutBy(span, T) \in Cuts /\ (T = {} => CutBy(span, T) = Whole(span))
    BY <1>8
  <2>2. CASE T # {}
    <3>1. Latest(T) \in T /\ T \ {Latest(T)} \in SUBSET A
      BY <1>1, <2>2
    <3>2. cuts[T \ {Latest(T)}] = CutBy(span, T \ {Latest(T)}) /\ cuts[T \ {Latest(T)}] \in Cuts
      BY <1>8, <3>1
    <3>3. cuts[T] = next[<<Latest(T), cuts[T \ {Latest(T)}]>>] /\ cuts[T] = CutBy(span, T)
      BY <1>1, <1>8, <2>2
    <3> HIDE DEF cuts
    <3> QED
      BY <1>2, <3>1, <3>2, <3>3, <2>1 DEF CutsUp
  <2> QED
    BY <2>1, <2>2 DEF CutsUp

Apart(g, h) == g[2] <= h[1] \/ h[2] <= g[1]

\* Where the cutting stands: the gaps are what the covers so far leave of the
\* span up to the cursor, each before the last cover.
CutTo(span, T, at) ==
  /\ at \in Cuts /\ span[1] <= at.cursor /\ at.gaps \subseteq Spans
  /\ \A g \in at.gaps : span[1] <= g[1] /\ g[2] <= span[2] /\ g[2] <= at.cursor
  /\ \A g \in at.gaps : \E c \in T : g[2] <= c[1]
  /\ \A g, h \in at.gaps : g # h => Apart(g, h)
  /\ \A t \in Nat : (span[1] <= t /\ t < at.cursor /\ t < span[2]) => (Covers(at.gaps, t) <=> ~Covers(T, t))
  /\ at.cursor < span[2] => \A c \in T : c[2] <= at.cursor \/ span[2] <= c[1]

LEMMA CutStep ==
  ASSUME NEW span \in Nat \X Nat, NEW R, NEW at, CutTo(span, R, at), NEW c \in Spans, R \subseteq Spans,
         \A q \in R : q[1] <= c[1]
  PROVE  CutTo(span, R \cup {c}, Cut(span, c, at))
<1> DEFINE T == R \cup {c}
           to == Cut(span, c, at)
<1> SUFFICES CutTo(span, T, to)
  OBVIOUS
<1>1. /\ span[1] \in Nat /\ span[2] \in Nat /\ c[1] \in Nat /\ c[2] \in Nat /\ c[1] < c[2]
      /\ at.cursor \in Nat /\ c \in Nat \X Nat
  BY DEF Spans, CutTo, Cuts
<1>2. to \in Cuts
  BY <1>1, CutKeeps DEF CutTo
<1>3. \A g \in at.gaps : g[1] \in Nat /\ g[2] \in Nat /\ g[1] < g[2] /\ g[2] <= c[1]
  <2> SUFFICES ASSUME NEW g \in at.gaps PROVE g[1] \in Nat /\ g[2] \in Nat /\ g[1] < g[2] /\ g[2] <= c[1]
    OBVIOUS
  <2>1. g[1] \in Nat /\ g[2] \in Nat /\ g[1] < g[2]
    BY DEF CutTo, Spans
  <2>2. PICK q \in R : g[2] <= q[1]
    BY DEF CutTo
  <2>3. q[1] \in Nat /\ q[1] <= c[1]
    BY <2>2 DEF Spans
  <2> QED
    BY <1>1, <2>1, <2>2, <2>3
<1>4. \A g \in at.gaps : \E q \in T : g[2] <= q[1]
  BY <1>3
<1>5. \A t \in Nat : Covers(T, t) <=> Covers(R, t) \/ (c[1] <= t /\ t < c[2])
  BY DEF Covers
<1>6. \A t \in Nat : Covers(at.gaps, t) => t < c[1]
  BY <1>1, <1>3 DEF Covers
<1>7. CASE at.cursor >= span[2] \/ c[2] <= at.cursor \/ c[1] >= span[2]
  <2>1. to = at
    BY <1>7 DEF Cut
  <2>2. at.cursor < span[2] => \A q \in T : q[2] <= at.cursor \/ span[2] <= q[1]
    BY <1>1, <1>7 DEF CutTo
  <2>3. ASSUME NEW t \in Nat, span[1] <= t, t < at.cursor, t < span[2]
        PROVE  Covers(at.gaps, t) <=> ~Covers(T, t)
    <3>1. Covers(at.gaps, t) <=> ~Covers(R, t)
      BY <2>3 DEF CutTo
    <3> QED
      BY <3>1, <1>5, <1>6, <1>1
  <2> HIDE DEF T, to
  <2> QED
    BY <2>1, <2>2, <2>3, <1>4 DEF CutTo
<1>8. CASE ~(at.cursor >= span[2] \/ c[2] <= at.cursor \/ c[1] >= span[2])
  <2>1. at.cursor < span[2] /\ at.cursor < c[2] /\ c[1] < span[2]
    BY <1>1, <1>8
  <2>2. to = [cursor |-> Longer(at.cursor, c[2]),
              gaps |-> IF c[1] > at.cursor THEN at.gaps \cup {<<at.cursor, c[1]>>} ELSE at.gaps]
    BY <1>8 DEF Cut
  <2>3. to.cursor = c[2]
    BY <1>1, <2>1, <2>2 DEF Longer
  <2>4. to.gaps = IF c[1] > at.cursor THEN at.gaps \cup {<<at.cursor, c[1]>>} ELSE at.gaps
    BY <2>2
  <2>5. span[1] <= at.cursor /\ \A g \in at.gaps : span[1] <= g[1] /\ g[2] <= span[2] /\ g[2] <= at.cursor
    BY DEF CutTo
  <2>6. ASSUME NEW t \in Nat, at.cursor <= t, t < span[2] PROVE ~Covers(at.gaps, t) /\ (Covers(R, t) => c[1] >= span[2])
    <3>1. ~Covers(at.gaps, t)
      BY <1>1, <1>3, <2>5, <2>6 DEF Covers
    <3>2. ASSUME NEW q \in R, q[1] <= t, t < q[2] PROVE FALSE
      <4>1. q[1] \in Nat /\ q[2] \in Nat
        BY DEF Spans
      <4>2. q[2] <= at.cursor \/ span[2] <= q[1]
        BY <2>1 DEF CutTo
      <4> QED
        BY <1>1, <2>6, <3>2, <4>1, <4>2
    <3> QED
      BY <3>1, <3>2 DEF Covers
  <2>7. ASSUME NEW t \in Nat, span[1] <= t, t < to.cursor, t < span[2]
        PROVE  Covers(to.gaps, t) <=> ~Covers(T, t)
    <3>1. Covers(to.gaps, t) <=> Covers(at.gaps, t) \/ (at.cursor <= t /\ t < c[1])
      <4>1. CASE c[1] > at.cursor
        <5> DEFINE x == <<at.cursor, c[1]>>
        <5>1. to.gaps = at.gaps \cup {x} /\ x[1] = at.cursor /\ x[2] = c[1]
          BY <2>4, <4>1
        <5> HIDE DEF to, x
        <5> QED
          BY <5>1 DEF Covers
      <4>2. CASE ~(c[1] > at.cursor)
        <5>1. to.gaps = at.gaps
          BY <2>4, <4>2
        <5> HIDE DEF to
        <5> QED
          BY <1>1, <4>2, <5>1
      <4> QED
        BY <4>1, <4>2
    <3>2. CASE t < at.cursor
      <4>1. Covers(at.gaps, t) <=> ~Covers(R, t)
        BY <2>7, <3>2 DEF CutTo
      <4> QED
        BY <4>1, <3>1, <3>2, <1>1, <1>5, <1>6
    <3>3. CASE at.cursor <= t
      <4>1. ~Covers(at.gaps, t) /\ ~Covers(R, t)
        BY <1>1, <2>1, <2>6, <2>7, <3>3
      <4> QED
        BY <4>1, <3>1, <3>3, <1>1, <1>5, <2>3, <2>7
    <3> QED
      BY <1>1, <3>2, <3>3
  <2>8. \A q \in T : q[2] <= to.cursor \/ span[2] <= q[1]
    <3> SUFFICES ASSUME NEW q \in R PROVE q[2] <= c[2] \/ span[2] <= q[1]
      BY <1>1, <2>3
    <3>1. q[1] \in Nat /\ q[2] \in Nat
      BY DEF Spans
    <3>2. q[2] <= at.cursor \/ span[2] <= q[1]
      BY <2>1 DEF CutTo
    <3> QED
      BY <1>1, <2>1, <3>1, <3>2
  <2>9. \A g \in to.gaps : g \in at.gaps \/ (g = <<at.cursor, c[1]>> /\ c[1] > at.cursor)
    BY <2>4
  <2>10. ASSUME NEW g \in to.gaps
         PROVE  /\ g \in Spans /\ span[1] <= g[1] /\ g[2] <= span[2] /\ g[2] <= to.cursor
                /\ g[2] <= c[1]
    <3>1. CASE g \in at.gaps
      BY <3>1, <1>1, <1>3, <2>3, <2>5 DEF CutTo
    <3>2. CASE g = <<at.cursor, c[1]>> /\ c[1] > at.cursor
      BY <3>2, <1>1, <2>1, <2>3, <2>5 DEF Spans
    <3> QED
      BY <2>9, <3>1, <3>2
  <2>11. ASSUME NEW g \in to.gaps, NEW h \in to.gaps, g # h PROVE Apart(g, h)
    <3>1. ASSUME NEW x \in at.gaps, NEW y, y = <<at.cursor, c[1]>> PROVE Apart(x, y) /\ Apart(y, x)
      BY <2>5, <3>1 DEF Apart
    <3>2. g \in at.gaps /\ h \in at.gaps => Apart(g, h)
      BY <2>11 DEF CutTo
    <3> QED
      BY <2>9, <2>11, <3>1, <3>2
  <2>12. span[1] <= to.cursor
    BY <1>1, <2>1, <2>3, <2>5
  <2>13. \A g \in to.gaps : \E q \in T : g[2] <= q[1]
    BY <2>10
  <2>14. to.gaps \subseteq Spans
    BY <2>10
  <2> HIDE DEF T, to
  <2> QED
    BY <1>2, <2>7, <2>8, <2>10, <2>11, <2>12, <2>13, <2>14 DEF CutTo
<1> QED
  BY <1>7, <1>8

LEMMA CutToEnd ==
  ASSUME NEW span \in Nat \X Nat, NEW A, IsFiniteSet(A), A \subseteq Spans
  PROVE  CutTo(span, A, CutBy(span, A))
<1> DEFINE Good(T) == CutTo(span, T, CutBy(span, T))
           F == {T \in SUBSET A : ~Good(T)}
<1> SUFFICES ASSUME F # {} PROVE FALSE
  BY DEF Good
<1>1. PICK T \in F : \A U \in F : U \subseteq T => U = T
  <2>1. F \in SUBSET (SUBSET A)
    OBVIOUS
  <2> HIDE DEF F
  <2> QED
    BY <2>1, LeastSubset
<1>2. \A U \in SUBSET A : CutsUp(span, U)
  <2>1. A \subseteq Nat \X Nat
    BY DEF Spans
  <2> QED
    BY <2>1, CutIs
<1>3. T \in SUBSET A /\ ~Good(T) /\ CutsUp(span, T)
  BY <1>1, <1>2
<1>4. CASE T = {}
  <2>1. CutBy(span, T) = [cursor |-> span[1], gaps |-> {}] /\ CutBy(span, T) \in Cuts
    BY <1>3, <1>4 DEF CutsUp, Whole
  <2>2. span[1] \in Nat
    OBVIOUS
  <2> QED
    BY <1>3, <1>4, <2>1, <2>2 DEF CutTo
<1>5. CASE T # {}
  <2> DEFINE c == Latest(T)
             R == T \ {c}
  <2>1. c \in T /\ c \in Spans /\ R \in SUBSET A /\ R \subseteq T /\ R # T
        /\ CutBy(span, T) = Cut(span, c, CutBy(span, R))
    BY <1>3, <1>5 DEF CutsUp
  <2>2. Good(R)
    <3> HIDE DEF R, c, Good
    <3> QED
      BY <1>1, <2>1
  <2>3. \A q \in R : q[1] <= c[1]
    <3>1. IsFiniteSet(T) /\ T \subseteq Nat \X Nat
      BY <1>3, FS_Subset DEF Spans
    <3> QED
      BY <1>5, <3>1, LatestIs
  <2>4. T = R \cup {c} /\ R \subseteq Spans
    BY <1>3, <2>1
  <2>5. CutTo(span, R, CutBy(span, R))
    BY <2>2
  <2> HIDE DEF c, R
  <2>6. CutTo(span, R \cup {c}, Cut(span, c, CutBy(span, R)))
    BY <2>1, <2>3, <2>4, <2>5, CutStep
  <2> QED
    BY <1>3, <2>1, <2>4, <2>6
<1> QED
  BY <1>4, <1>5

\* What is left of a span: finitely many gaps that share nothing, together the
\* minutes of the span that nothing covers.
LeftOf(span, A, gaps) ==
  /\ IsFiniteSet(gaps) /\ gaps \subseteq Spans
  /\ \A g, h \in gaps : g # h => Apart(g, h)
  /\ \A t \in Nat : Covers(gaps, t) <=> (span[1] <= t /\ t < span[2] /\ ~Covers(A, t))

LEMMA GapsAre ==
  ASSUME NEW span \in Nat \X Nat, NEW A, IsFiniteSet(A), A \subseteq Spans
  PROVE  LeftOf(span, A, SubtractIntervals(span, A))
<1> DEFINE at == CutBy(span, A)
           gaps == SubtractIntervals(span, A)
<1> SUFFICES LeftOf(span, A, gaps)
  OBVIOUS
<1>1. CutTo(span, A, at)
  BY CutToEnd
<1>2. gaps = IF at.cursor < span[2] THEN at.gaps \cup {<<at.cursor, span[2]>>} ELSE at.gaps
  BY DEF SubtractIntervals, CutBy, Rest
<1>3. /\ span[1] \in Nat /\ span[2] \in Nat /\ at.cursor \in Nat /\ IsFiniteSet(at.gaps)
      /\ span[1] <= at.cursor
  BY <1>1 DEF CutTo, Cuts
<1> HIDE DEF at
<1>4. \A g \in at.gaps : /\ g[1] \in Nat /\ g[2] \in Nat /\ g[1] < g[2] /\ g \in Spans
                         /\ span[1] <= g[1] /\ g[2] <= span[2] /\ g[2] <= at.cursor
  BY <1>1 DEF CutTo, Spans
<1>5. CASE at.cursor < span[2]
  <2> DEFINE x == <<at.cursor, span[2]>>
  <2>1. gaps = at.gaps \cup {x} /\ x \in Spans /\ x[1] = at.cursor /\ x[2] = span[2]
    BY <1>2, <1>3, <1>5 DEF Spans
  <2> HIDE DEF x, gaps
  <2>2. IsFiniteSet(gaps) /\ gaps \subseteq Spans
    <3>1. IsFiniteSet(at.gaps \cup {x})
      BY <1>3, FS_AddElement
    <3> QED
      BY <1>4, <2>1, <3>1
  <2>3. ASSUME NEW g \in gaps, NEW h \in gaps, g # h PROVE Apart(g, h)
    <3>1. ASSUME NEW y \in at.gaps PROVE Apart(x, y) /\ Apart(y, x)
      BY <1>4, <2>1 DEF Apart
    <3>2. g \in at.gaps /\ h \in at.gaps => Apart(g, h)
      BY <1>1, <2>3 DEF CutTo
    <3> QED
      BY <2>1, <2>3, <3>1, <3>2
  <2>4. ASSUME NEW t \in Nat
        PROVE  Covers(gaps, t) <=> (span[1] <= t /\ t < span[2] /\ ~Covers(A, t))
    <3>1. Covers(gaps, t) <=> Covers(at.gaps, t) \/ (at.cursor <= t /\ t < span[2])
      BY <2>1 DEF Covers
    <3>2. Covers(at.gaps, t) => span[1] <= t /\ t < span[2] /\ t < at.cursor
      BY <1>3, <1>4 DEF Covers
    <3>3. CASE span[1] <= t /\ t < at.cursor /\ t < span[2]
      <4>1. Covers(at.gaps, t) <=> ~Covers(A, t)
        BY <1>1, <3>3 DEF CutTo
      <4> QED
        BY <1>3, <3>1, <3>3, <4>1
    <3>4. CASE at.cursor <= t /\ t < span[2]
      <4>1. ~Covers(A, t)
        <5> SUFFICES ASSUME NEW c \in A, c[1] <= t, t < c[2] PROVE FALSE
          BY DEF Covers
        <5>1. c[1] \in Nat /\ c[2] \in Nat /\ (c[2] <= at.cursor \/ span[2] <= c[1])
          BY <1>1, <1>5 DEF CutTo, Spans
        <5> QED
          BY <1>3, <3>4, <5>1
      <4> QED
        BY <1>3, <3>1, <3>4, <4>1
    <3> QED
      BY <1>3, <1>5, <3>1, <3>2, <3>3, <3>4
  <2> QED
    BY <2>2, <2>3, <2>4 DEF LeftOf
<1>6. CASE ~(at.cursor < span[2])
  <2>1. gaps = at.gaps
    BY <1>2, <1>6
  <2> HIDE DEF gaps
  <2>2. ASSUME NEW t \in Nat
        PROVE  Covers(gaps, t) <=> (span[1] <= t /\ t < span[2] /\ ~Covers(A, t))
    <3>1. Covers(gaps, t) => span[1] <= t /\ t < span[2]
      BY <1>3, <1>4, <2>1 DEF Covers
    <3>2. span[1] <= t /\ t < span[2] => (Covers(at.gaps, t) <=> ~Covers(A, t))
      BY <1>1, <1>3, <1>6 DEF CutTo
    <3> QED
      BY <2>1, <3>1, <3>2
  <2>3. IsFiniteSet(gaps) /\ gaps \subseteq Spans /\ \A g, h \in gaps : g # h => Apart(g, h)
    BY <1>1, <1>3, <1>4, <2>1 DEF CutTo
  <2> QED
    BY <2>2, <2>3 DEF LeftOf
<1> QED
  BY <1>5, <1>6

-----------------------------------------------------------------------------
(* Segments walked in the order they were worked.                          *)

\* Finitely many segments, each at least a minute long, that share none.
Cell(s) == s.from .. s.from + s.minutes - 1
Segments(A) ==
  /\ IsFiniteSet(A)
  /\ \A s \in A : s.from \in Nat /\ s.minutes \in Nat /\ s.minutes > 0
  /\ \A s, t \in A : s # t => s.from + s.minutes <= t.from \/ t.from + t.minutes <= s.from

Nothing == [running |-> 0, split |-> {}]
Attributed(T) == Walk(Attribute, Nothing, LastWorked, T)

Splits(A) == [of : {s.of : s \in A}, from : Nat, regular : Nat, overtime : Nat]
Sums(A) == [running : Nat, split : SUBSET Splits(A)]

\* How much of a segment is within the regular hours.
RegularOf(s, running) ==
  LET left == IF Regular > running THEN Regular - running ELSE 0
  IN IF s.minutes < left THEN s.minutes ELSE left
SplitOf(s, running) ==
  [of |-> s.of, from |-> s.from, regular |-> RegularOf(s, running),
   overtime |-> s.minutes - RegularOf(s, running)]

LEMMA AttributeIs ==
  ASSUME NEW A, Segments(A), NEW s \in A, NEW at \in Sums(A)
  PROVE  /\ Attribute(s, at).running = at.running + s.minutes
         /\ Attribute(s, at).split = at.split \cup {SplitOf(s, at.running)}
         /\ Attribute(s, at) \in Sums(A)
<1>1. at.running \in Nat /\ at.split \subseteq Splits(A)
  BY DEF Sums
<1>2. s.from \in Nat /\ s.minutes \in Nat /\ Regular \in Nat
  BY WeekAssumption DEF Segments
<1>3. RegularOf(s, at.running) \in Nat /\ RegularOf(s, at.running) <= s.minutes
  BY <1>1, <1>2 DEF RegularOf
<1>4. Attribute(s, at) = [running |-> at.running + s.minutes, split |-> at.split \cup {SplitOf(s, at.running)}]
  BY DEF Attribute, SplitOf, RegularOf
<1>5. SplitOf(s, at.running) \in Splits(A)
  BY <1>2, <1>3 DEF SplitOf, Splits
<1> QED
  BY <1>1, <1>2, <1>4, <1>5 DEF Sums

LEMMA LastWorkedIs ==
  ASSUME NEW A, Segments(A), NEW S \in SUBSET A, S # {}
  PROVE  LastWorked(S) \in S /\ \A t \in S : t.from <= LastWorked(S).from
<1> DEFINE val == [s \in A |-> s.from]
<1>1. \A s \in A : val[s] = s.from /\ val[s] \in Int
  BY DEF Segments
<1>2. \E s \in S : \A t \in S : t.from <= s.from
  <2> HIDE DEF val
  <2>1. \A T \in SUBSET A : T # {} => \E s \in T : \A t \in T : val[t] <= val[s]
    BY <1>1, Greatest DEF Segments
  <2> QED
    BY <1>1, <2>1
<1> QED
  BY <1>2 DEF LastWorked

WalksUp(A, T) ==
  /\ Attributed(T) \in Sums(A)
  /\ T = {} => Attributed(T) = Nothing
  /\ T # {} => LastWorked(T) \in T /\ Attributed(T) = Attribute(LastWorked(T), Attributed(T \ {LastWorked(T)}))

\* The walk is the last segment attributed after all the others.
LEMMA WalkedIs ==
  ASSUME NEW A, Segments(A)
  PROVE  \A T \in SUBSET A : WalksUp(A, T)
<1> DEFINE last == [s \in SUBSET A |-> LastWorked(s)]
           V == Sums(A)
           next == [p \in A \X V |-> Attribute(p[1], p[2])]
           sums == [T \in SUBSET A |-> Attributed(T)]
           none == Nothing
           Sol(g, T) == g = [s \in SUBSET T |-> IF s = {} THEN Nothing ELSE Attribute(LastWorked(s), g[s \ {LastWorked(s)}])]
<1>1. \A s \in SUBSET A : s # {} => LastWorked(s) \in s /\ last[s] = LastWorked(s)
  BY LastWorkedIs
<1>2. \A x \in A, v \in V : next[<<x, v>>] = Attribute(x, v) /\ next[<<x, v>>] \in V
  <2> SUFFICES ASSUME NEW x \in A, NEW v \in V
               PROVE  next[<<x, v>>] = Attribute(x, v) /\ Attribute(x, v) \in V
    OBVIOUS
  <2>1. next[<<x, v>>] = Attribute(x, v)
    OBVIOUS
  <2>2. Attribute(x, v) \in Sums(A)
    BY AttributeIs
  <2> HIDE DEF next
  <2> QED
    BY <2>1, <2>2
<1>3. \A T : Attributed(T) = (CHOOSE g : Sol(g, T))[T]
  BY DEF Attributed, Walk, MapThenFoldSet
<1>4. ASSUME NEW T \in SUBSET A, NEW it \in [SUBSET A -> V], Walks(it, A, none, last, next)
      PROVE  \E g : sums[T] = g[T] /\ Follows(g, T, V, none, last, next)
  <2> DEFINE h == [s \in SUBSET T |-> it[s]]
  <2>1. Sol(h, T)
    <3>1. \A s \in SUBSET T : it[s] = IF s = {} THEN Nothing ELSE Attribute(LastWorked(s), it[s \ {LastWorked(s)}])
      <4> SUFFICES ASSUME NEW s \in SUBSET T
                   PROVE  it[s] = IF s = {} THEN Nothing ELSE Attribute(LastWorked(s), it[s \ {LastWorked(s)}])
        OBVIOUS
      <4>1. it[s] = IF s = {} THEN none ELSE next[<<last[s], it[s \ {last[s]}]>>]
        BY <1>4 DEF Walks
      <4>2. s # {} => LastWorked(s) \in A /\ last[s] = LastWorked(s) /\ it[s \ {LastWorked(s)}] \in V
        BY <1>1
      <4> HIDE DEF next, last, V
      <4> QED
        BY <1>2, <4>1, <4>2
    <3>2. \A s \in SUBSET T : s # {} => LastWorked(s) \in s
      BY <1>1
    <3> QED
      BY <3>1, <3>2
  <2>2. PICK g : Sol(g, T) /\ sums[T] = g[T]
    BY <1>3, <2>1
  <2>3. Follows(g, T, V, none, last, next)
    <3>1. g[{}] = none
      BY <2>2
    <3>2. ASSUME NEW s \in SUBSET T, s # {}, g[s \ {last[s]}] \in V
          PROVE  g[s] = next[<<last[s], g[s \ {last[s]}]>>]
      <4>1. g[s] = Attribute(LastWorked(s), g[s \ {LastWorked(s)}])
        BY <2>2, <3>2
      <4>2. last[s] = LastWorked(s) /\ LastWorked(s) \in A
        BY <1>1, <3>2
      <4> HIDE DEF Sol, next, V
      <4> QED
        BY <1>2, <3>2, <4>1, <4>2
    <3> HIDE DEF Sol, next, last, none, V
    <3> QED
      BY <3>1, <3>2 DEF Follows
  <2> QED
    BY <2>2, <2>3
<1>5. none \in V /\ IsFiniteSet(A)
  BY DEF Sums, Nothing, Segments
<1>6. Picks(last, A) /\ Keeps(next, A, V)
  BY <1>1, <1>2 DEF Picks, Keeps
<1>7. ByWalks(sums, A, V, none, last, next)
  <2> HIDE DEF last, next, sums, none, Sol, V
  <2> QED
    BY <1>4 DEF ByWalks
<1>8. \A T \in SUBSET A :
        /\ sums[T] \in V
        /\ T = {} => sums[T] = none
        /\ T # {} => last[T] \in T /\ sums[T] = next[<<last[T], sums[T \ {last[T]}]>>]
  <2> HIDE DEF last, next, sums, none, Sol, V
  <2> QED
    BY <1>5, <1>6, <1>7, WalkOf
<1> HIDE DEF next, last, Sol
<1> QED
  <2> SUFFICES ASSUME NEW T \in SUBSET A
               PROVE  WalksUp(A, T)
    OBVIOUS
  <2>1. Attributed(T) \in V /\ (T = {} => Attributed(T) = Nothing)
    BY <1>8
  <2>2. CASE T # {}
    <3>1. LastWorked(T) \in T /\ T \ {LastWorked(T)} \in SUBSET A
      BY <1>1, <2>2
    <3>2. sums[T \ {LastWorked(T)}] = Attributed(T \ {LastWorked(T)}) /\ sums[T \ {LastWorked(T)}] \in V
      BY <1>8, <3>1
    <3>3. sums[T] = next[<<LastWorked(T), sums[T \ {LastWorked(T)}]>>] /\ sums[T] = Attributed(T)
      BY <1>1, <1>8, <2>2
    <3> HIDE DEF sums
    <3> QED
      BY <1>2, <3>1, <3>2, <3>3, <2>1 DEF WalksUp
  <2> QED
    BY <2>1, <2>2 DEF WalksUp

\* What a segment has of the minutes after the regular hours.
Filled(T) == UNION {Cell(s) : s \in T}
Before(A, t) == {u \in Filled(A) : u < t}
Late(A, s) == {t \in Cell(s) : Cardinality(Before(A, t)) >= Regular}

Early(A, T) == \A s \in T, t \in A : t.from < s.from => t \in T

\* A segment starts where the ones before it have filled what they have.
LEMMA BeforeIs ==
  ASSUME NEW A, Segments(A), NEW T \in SUBSET A, NEW s \in T, Early(A, T),
         \A r \in T : r.from <= s.from, NEW t \in Cell(s)
  PROVE  Before(A, t) = Filled(T \ {s}) \cup (s.from .. t - 1)
<1>1. s.from \in Nat /\ s.minutes \in Nat /\ t \in Nat /\ s.from <= t /\ t <= s.from + s.minutes - 1 /\ s \in A
  BY DEF Segments, Cell
<1>2. ASSUME NEW r \in A, r # s
      PROVE  /\ r \in T => \A u \in Cell(r) : u \in Int /\ u < s.from
             /\ r \notin T => \A u \in Cell(r) : u \in Int /\ t < u
  <2>1. r.from \in Nat /\ r.minutes \in Nat /\ r.minutes > 0 /\ s.minutes > 0
        /\ (r.from + r.minutes <= s.from \/ s.from + s.minutes <= r.from)
    BY <1>1, <1>2 DEF Segments
  <2>2. CASE r \in T
    <3>1. r.from <= s.from
      BY <2>2
    <3>2. r.from + r.minutes <= s.from
      BY <1>1, <2>1, <3>1
    <3> QED
      BY <1>1, <2>1, <2>2, <3>2 DEF Cell
  <2>3. CASE r \notin T
    <3>1. ~(r.from < s.from)
      BY <2>3 DEF Early
    <3>2. s.from + s.minutes <= r.from
      BY <1>1, <2>1, <3>1
    <3> QED
      BY <1>1, <2>1, <2>3, <3>2 DEF Cell
  <2> QED
    BY <2>2, <2>3
<1>3. ASSUME NEW u \in Before(A, t) PROVE u \in Filled(T \ {s}) \/ u \in s.from .. t - 1
  <2>1. PICK r \in A : u \in Cell(r) /\ u < t
    BY DEF Before, Filled
  <2>2. CASE r = s
    <3>1. u \in s.from .. t - 1
      BY <1>1, <2>1, <2>2 DEF Cell
    <3> QED
      BY <3>1
  <2>3. CASE r # s
    <3>1. r \in T
      BY <1>1, <1>2, <2>1, <2>3
    <3> QED
      BY <2>1, <2>3, <3>1 DEF Filled
  <2> QED
    BY <2>2, <2>3
<1>4. ASSUME NEW r \in T \ {s}, NEW u \in Cell(r) PROVE u \in Before(A, t)
  <2>1. r \in A /\ r # s /\ u \in Int /\ u < s.from
    BY <1>2
  <2> QED
    BY <1>1, <2>1 DEF Before, Filled
<1>5. ASSUME NEW u \in s.from .. t - 1 PROVE u \in Before(A, t)
  <2>1. u \in Cell(s) /\ u < t
    BY <1>1 DEF Cell
  <2> QED
    BY <1>1, <2>1 DEF Before, Filled
<1>6. \A u : u \in Filled(T \ {s}) => u \in Before(A, t)
  BY <1>4 DEF Filled
<1> QED
  BY <1>3, <1>5, <1>6

LEMMA CellSize ==
  ASSUME NEW a \in Int, NEW b \in Int
  PROVE  IsFiniteSet(a .. b) /\ Cardinality(a .. b) = IF a > b THEN 0 ELSE b - a + 1
BY FS_Interval

\* Its overtime is what the minutes before it, and its own, are past the line.
LEMMA LateIs ==
  ASSUME NEW A, Segments(A), NEW T \in SUBSET A, NEW s \in T, Early(A, T),
         \A r \in T : r.from <= s.from, NEW running \in Nat,
         IsFiniteSet(Filled(T \ {s})), running = Cardinality(Filled(T \ {s}))
  PROVE  s.minutes - RegularOf(s, running) = Cardinality(Late(A, s))
<1> DEFINE others == Filled(T \ {s})
           left == IF Regular > running THEN Regular - running ELSE 0
<1>1. s.from \in Nat /\ s.minutes \in Nat /\ s.minutes > 0 /\ s \in A /\ Regular \in Nat
  BY WeekAssumption DEF Segments
<1>2. ASSUME NEW t \in Cell(s) PROVE Cardinality(Before(A, t)) = running + (t - s.from)
  <2>1. t \in Nat /\ s.from <= t
    BY <1>1 DEF Cell
  <2>2. Before(A, t) = others \cup (s.from .. t - 1)
    BY BeforeIs
  <2>3. IsFiniteSet(s.from .. t - 1) /\ Cardinality(s.from .. t - 1) = t - s.from
    <3>1. s.from \in Int /\ t - 1 \in Int
      BY <1>1, <2>1
    <3>2. IsFiniteSet(s.from .. (t - 1))
          /\ Cardinality(s.from .. (t - 1)) = IF s.from > (t - 1) THEN 0 ELSE (t - 1) - s.from + 1
      BY <3>1, CellSize
    <3> QED
      BY <1>1, <2>1, <3>2
  <2>4. others \cap (s.from .. t - 1) = {}
    <3> SUFFICES ASSUME NEW r \in T \ {s}, NEW u \in Cell(r) PROVE u \notin s.from .. t - 1
      BY DEF Filled
    <3>1. r.from \in Nat /\ r.minutes \in Nat /\ r.minutes > 0 /\ r.from <= s.from
          /\ (r.from + r.minutes <= s.from \/ s.from + s.minutes <= r.from)
      BY <1>1 DEF Segments
    <3> QED
      BY <1>1, <3>1 DEF Cell
  <2> HIDE DEF others
  <2>5. Cardinality(others \cap (s.from .. t - 1)) = 0
    BY <2>4, FS_EmptySet
  <2>6. Cardinality(others \cup (s.from .. t - 1))
          = Cardinality(others) + Cardinality(s.from .. t - 1) - Cardinality(others \cap (s.from .. t - 1))
    <3>1. IsFiniteSet(others)
      BY DEF others
    <3> QED
      BY <2>3, <3>1, FS_Union
  <2>7. Cardinality(others) = running
    BY DEF others
  <2> QED
    BY <1>1, <2>1, <2>2, <2>3, <2>5, <2>6, <2>7
<1>3. left \in Nat
  BY <1>1
<1>4. Late(A, s) = (s.from + left) .. (s.from + s.minutes - 1)
  <2>1. ASSUME NEW t \in Cell(s) PROVE (Cardinality(Before(A, t)) >= Regular) <=> s.from + left <= t
    <3>1. t \in Nat /\ s.from <= t
      BY <1>1 DEF Cell
    <3> QED
      BY <1>1, <1>2, <3>1
  <2>2. Cell(s) = s.from .. (s.from + s.minutes - 1)
    BY DEF Cell
  <2>3. Late(A, s) = {t \in s.from .. (s.from + s.minutes - 1) : s.from + left <= t}
    BY <2>1, <2>2 DEF Late
  <2> HIDE DEF left
  <2> QED
    BY <1>1, <1>3, <2>3
<1>5. Cardinality(Late(A, s)) = IF s.from + left > s.from + s.minutes - 1 THEN 0
                                ELSE (s.from + s.minutes - 1) - (s.from + left) + 1
  <2>1. s.from + left \in Int /\ s.from + s.minutes - 1 \in Int
    BY <1>1, <1>3
  <2> HIDE DEF left
  <2> QED
    BY <1>4, <2>1, CellSize
<1>6. RegularOf(s, running) = IF s.minutes < left THEN s.minutes ELSE left
  BY DEF RegularOf
<1> HIDE DEF left
<1> QED
  BY <1>1, <1>3, <1>5, <1>6

\* Where the walk stands: what is filled, and every split its segment's own.
WalkedTo(A, T) ==
  /\ IsFiniteSet(Filled(T)) /\ Attributed(T).running = Cardinality(Filled(T))
  /\ \A q \in Attributed(T).split :
       \E s \in T : q.from = s.from /\ q.regular + q.overtime = s.minutes /\ q.overtime = Cardinality(Late(A, s))

LEMMA FilledSplits ==
  ASSUME NEW A, Segments(A), NEW T \in SUBSET A, NEW s \in T, IsFiniteSet(Filled(T \ {s}))
  PROVE  /\ IsFiniteSet(Filled(T))
         /\ Cardinality(Filled(T)) = Cardinality(Filled(T \ {s})) + s.minutes
<1> DEFINE others == Filled(T \ {s})
<1>1. s.from \in Nat /\ s.minutes \in Nat /\ s.minutes > 0 /\ s \in A
  BY DEF Segments
<1>2. IsFiniteSet(Cell(s)) /\ Cardinality(Cell(s)) = s.minutes
  <2>1. s.from \in Int /\ s.from + s.minutes - 1 \in Int
    BY <1>1
  <2>2. Cell(s) = s.from .. (s.from + s.minutes - 1)
    BY DEF Cell
  <2>3. /\ IsFiniteSet(s.from .. (s.from + s.minutes - 1))
        /\ Cardinality(s.from .. (s.from + s.minutes - 1))
             = IF s.from > s.from + s.minutes - 1 THEN 0 ELSE (s.from + s.minutes - 1) - s.from + 1
    BY <2>1, CellSize
  <2> QED
    BY <1>1, <2>2, <2>3
<1>3. others \cap Cell(s) = {}
  <2> SUFFICES ASSUME NEW r \in T \ {s}, NEW u \in Cell(r) PROVE u \notin Cell(s)
    BY DEF Filled
  <2>1. r.from \in Nat /\ r.minutes \in Nat
        /\ (r.from + r.minutes <= s.from \/ s.from + s.minutes <= r.from)
    BY <1>1 DEF Segments
  <2> QED
    BY <1>1, <2>1 DEF Cell
<1>4. Filled(T) = others \cup Cell(s)
  BY DEF Filled
<1> HIDE DEF others
<1>5. Cardinality(others \cap Cell(s)) = 0
  BY <1>3, FS_EmptySet
<1>6. IsFiniteSet(others)
  BY DEF others
<1>7. /\ IsFiniteSet(others \cup Cell(s))
      /\ Cardinality(others \cup Cell(s)) = Cardinality(others) + Cardinality(Cell(s)) - Cardinality(others \cap Cell(s))
  BY <1>2, <1>6, FS_Union
<1>8. Cardinality(others) \in Nat
  BY <1>6, FS_CardinalityType
<1> QED
  BY <1>1, <1>2, <1>4, <1>5, <1>7, <1>8 DEF others

LEMMA WalkedToEnd ==
  ASSUME NEW A, Segments(A)
  PROVE  WalkedTo(A, A)
<1> DEFINE F == {T \in SUBSET A : Early(A, T) /\ ~WalkedTo(A, T)}
<1>0. Early(A, A)
  BY DEF Early
<1> SUFFICES ASSUME F # {} PROVE FALSE
  BY <1>0
<1>1. PICK T \in F : \A U \in F : U \subseteq T => U = T
  <2>1. F \in SUBSET (SUBSET A) /\ IsFiniteSet(A)
    BY DEF Segments
  <2> HIDE DEF F
  <2> QED
    BY <2>1, LeastSubset
<1>2. T \in SUBSET A /\ Early(A, T) /\ ~WalkedTo(A, T) /\ WalksUp(A, T)
  BY <1>1, WalkedIs
<1>3. CASE T = {}
  <2>1. Attributed(T) = Nothing /\ Filled(T) = {}
    BY <1>2, <1>3 DEF WalksUp, Filled
  <2> QED
    BY <1>2, <2>1, FS_EmptySet DEF WalkedTo, Nothing
<1>4. CASE T # {}
  <2> DEFINE s == LastWorked(T)
             R == T \ {s}
             at == Attributed(R)
  <2>1. s \in T /\ s \in A /\ R \in SUBSET A /\ R \subseteq T /\ R # T /\ Attributed(T) = Attribute(s, at)
        /\ \A r \in T : r.from <= s.from
    BY <1>2, <1>4, LastWorkedIs DEF WalksUp
  <2>2. Early(A, R)
    <3> SUFFICES ASSUME NEW x \in R, NEW y \in A, y.from < x.from PROVE y \in R
      BY DEF Early
    <3>1. y \in T /\ x.from <= s.from /\ x \in A
      BY <1>2, <2>1 DEF Early
    <3>2. y.from \in Nat /\ x.from \in Nat /\ s.from \in Nat
      BY <2>1, <3>1 DEF Segments
    <3>3. y # s
      BY <3>1, <3>2
    <3> QED
      BY <3>1, <3>3
  <2>3. WalkedTo(A, R)
    <3> HIDE DEF R, s
    <3> QED
      BY <1>1, <2>1, <2>2
  <2>4. at \in Sums(A)
    <3>1. \A U \in SUBSET A : WalksUp(A, U)
      BY WalkedIs
    <3> HIDE DEF R
    <3> QED
      BY <2>1, <3>1 DEF WalksUp
  <2>5. /\ Attributed(T).running = at.running + s.minutes
        /\ Attributed(T).split = at.split \cup {SplitOf(s, at.running)}
        /\ at.running \in Nat
    <3> HIDE DEF s, at
    <3> QED
      BY <2>1, <2>4, AttributeIs DEF Sums
  <2>6. IsFiniteSet(Filled(R)) /\ at.running = Cardinality(Filled(R))
    BY <2>3 DEF WalkedTo
  <2>7. IsFiniteSet(Filled(T)) /\ Cardinality(Filled(T)) = Cardinality(Filled(R)) + s.minutes
    <3> HIDE DEF s
    <3> QED
      BY <1>2, <2>1, <2>6, FilledSplits
  <2>8. s.minutes - RegularOf(s, at.running) = Cardinality(Late(A, s))
    <3> HIDE DEF s, at
    <3> QED
      BY <1>2, <2>1, <2>5, <2>6, LateIs
  <2>9. ASSUME NEW q \in Attributed(T).split
        PROVE  \E r \in T : q.from = r.from /\ q.regular + q.overtime = r.minutes /\ q.overtime = Cardinality(Late(A, r))
    <3>1. CASE q \in at.split
      BY <2>1, <2>3, <3>1 DEF WalkedTo
    <3>2. CASE q = SplitOf(s, at.running)
      <4>1. s.minutes \in Nat /\ Regular \in Nat
        BY <2>1, WeekAssumption DEF Segments
      <4>2. RegularOf(s, at.running) \in Int
        BY <4>1, <2>5 DEF RegularOf
      <4>3. q.from = s.from /\ q.regular = RegularOf(s, at.running) /\ q.overtime = s.minutes - RegularOf(s, at.running)
        BY <3>2 DEF SplitOf
      <4> HIDE DEF s, at
      <4> QED
        BY <2>1, <2>8, <4>1, <4>2, <4>3
    <3> QED
      BY <2>5, <2>9, <3>1, <3>2
  <2>10. WalkedTo(A, T)
    <3> HIDE DEF s, R, at
    <3> QED
      BY <2>5, <2>6, <2>7, <2>9 DEF WalkedTo
  <2> QED
    BY <1>2, <2>10
<1> QED
  BY <1>3, <1>4

-----------------------------------------------------------------------------
(* The rows.                                                               *)

\* No row starts after now.
Past == \A i \in Ids : row[i].used => row[i].from <= now

IInv == RowsOK /\ Past /\ OneAtATime

\* What a new or a corrected row has to be, for the rows to stay well formed.
Fits(i, r) ==
  /\ r \in Rows
  /\ (r.used /\ r.to # Open) => r.from <= r.to
  /\ r.used => (r.on # None <=> i \in Sessions) /\ r.from <= now

\* Nobody types a running clock beside a running clock.
LEMMA TypedAlone ==
  ASSUME IInv, NEW i \in Ids, NEW from \in 0..now, True(i, from, Open)
  PROVE  \A k \in Others(i) : row[k].to # Open
<1>1. now \in 0..Horizon /\ Horizon \in Nat
  BY TimeAssumption DEF IInv, RowsOK
<1>2. SUFFICES ASSUME NEW k \in Others(i), row[k].to = Open PROVE FALSE
  OBVIOUS
<1>3. k \in Ids
  BY <1>2 DEF Others, Ids
<1>4. row[k].from \in 0..Horizon
  BY <1>3 DEF IInv, RowsOK, Rows
<1>5. Horizon + 1 <= row[k].from \/ Horizon + 1 <= from
  BY <1>2 DEF True, End
<1> QED BY <1>1, <1>4, <1>5

\* A step that puts fitting rows in keeps the rows well formed.
LEMMA RowsStay ==
  ASSUME IInv, now' \in 0..Horizon, now <= now', row' \in [Ids -> Rows],
         \A i \in Ids : row'[i] = row[i] \/ Fits(i, row'[i])
  PROVE  RowsOK' /\ Past'
<1>1. now \in 0..Horizon /\ Horizon \in Nat
  BY TimeAssumption DEF IInv, RowsOK
<1>2. ASSUME NEW i \in Ids, row'[i].used PROVE row'[i].from <= now'
  <2>1. row'[i].from \in 0..Horizon
    BY DEF Rows
  <2>2. row'[i].from <= now
    BY <1>2 DEF Fits, IInv, Past
  <2> QED BY <1>1, <2>1, <2>2
<1>3. ASSUME NEW i \in Ids, row'[i].used
      PROVE /\ row'[i].to # Open => row'[i].from <= row'[i].to
            /\ row'[i].on # None <=> i \in Sessions
  BY <1>3 DEF Fits, IInv, RowsOK
<1> QED BY <1>2, <1>3 DEF RowsOK, Past

\* A row stopped now fits.
LEMMA StoppedFits ==
  ASSUME IInv, NEW S \in SUBSET Running(Ids)
  PROVE  /\ Stopped(S, now) \in [Ids -> Rows]
         /\ \A i \in Ids : Stopped(S, now)[i] = row[i] \/ Fits(i, Stopped(S, now)[i])
         /\ \A i \in S : Stopped(S, now)[i].to # Open
         /\ \A i \in Ids \ S : Stopped(S, now)[i] = row[i]
<1>1. now \in 0..Horizon /\ Horizon \in Nat /\ now # Open /\ S \subseteq Ids
  BY TimeAssumption DEF IInv, RowsOK, Open, Running
<1>2. ASSUME NEW i \in S
      PROVE /\ Stopped(S, now)[i] = [row[i] EXCEPT !.to = now]
            /\ Stopped(S, now)[i].to = now
            /\ Fits(i, Stopped(S, now)[i])
  <2>1. i \in Ids /\ row[i] \in Rows /\ row[i].used /\ row[i].from <= now
    BY <1>1 DEF IInv, RowsOK, Past, Running
  <2>2. Stopped(S, now)[i] = [row[i] EXCEPT !.to = now]
    BY <2>1 DEF Stopped
  <2>3. [row[i] EXCEPT !.to = now] \in Rows
    BY <1>1, <2>1 DEF Rows
  <2> QED BY <1>1, <2>1, <2>2, <2>3 DEF Fits, IInv, RowsOK, Rows
<1>3. ASSUME NEW i \in Ids \ S PROVE Stopped(S, now)[i] = row[i]
  BY DEF Stopped
<1>4. ASSUME NEW i \in Ids PROVE Stopped(S, now)[i] \in Rows
  BY <1>2, <1>3 DEF Fits, IInv, RowsOK
<1>5. Stopped(S, now) = [i \in Ids |-> Stopped(S, now)[i]]
  BY DEF Stopped
<1> QED BY <1>1, <1>2, <1>3, <1>4, <1>5

\* The one clock that runs is the newest.
LEMMA NewestIsAll ==
  ASSUME IInv, NEW S \in {Shifts, Sessions}
  PROVE  Newest(Running(S)) = Running(S) /\ Running(S) \subseteq Running(Ids)
<1>1. \A i, k \in Running(S) : i = k
  BY DEF IInv, OneAtATime
<1>2. \A i \in Running(S) : row[i].from \in 0..Horizon
  BY DEF Running, IInv, RowsOK, Rows, Ids
<1>3. Horizon \in Nat
  BY TimeAssumption
<1> QED BY <1>1, <1>2, <1>3 DEF Newest, Running, Ids

\* A step that starts no clock leaves each running once at most.
LEMMA NoneStarts ==
  ASSUME IInv, \A i \in Ids : row'[i].used /\ row'[i].to = Open => row[i].used /\ row[i].to = Open
  PROVE  OneAtATime'
<1>1. Running(Shifts)' \subseteq Running(Shifts) /\ Running(Sessions)' \subseteq Running(Sessions)
  BY DEF Running, Ids
<1> QED BY <1>1 DEF IInv, OneAtATime

\* A step that changes one row, which runs only if no other of its clock does.
LEMMA OneChanges ==
  ASSUME IInv, NEW i \in Ids, \A k \in Ids \ {i} : row'[k] = row[k],
         row'[i].used /\ row'[i].to = Open => \A k \in Others(i) : row[k].to # Open
  PROVE  OneAtATime'
<1>1. ASSUME NEW S \in {Shifts, Sessions}, NEW k \in Running(S)', NEW h \in Running(S)'
      PROVE  k = h
  <2>1. k \in S /\ h \in S /\ k \in Ids /\ h \in Ids
    BY DEF Running, Ids
  <2>2. CASE k # i /\ h # i
    <3>1. k \in Running(S) /\ h \in Running(S)
      BY <2>1, <2>2 DEF Running
    <3> QED BY <3>1 DEF IInv, OneAtATime
  <2>3. ASSUME NEW x \in S, NEW y \in S, x = i, y # i, x \in Running(S)', y \in Running(S)' PROVE FALSE
    <3>1. y \in Ids /\ row'[y] = row[y] /\ row[y].used /\ row[y].to = Open
      BY <2>3 DEF Running, Ids
    <3>2. y \in Others(i)
      BY <2>3, <3>1, DisjointAssumption DEF Others, Ids
    <3> QED BY <2>3, <3>1, <3>2 DEF Running
  <2> QED BY <1>1, <2>1, <2>2, <2>3
<1> QED BY <1>1 DEF OneAtATime

-----------------------------------------------------------------------------
LEMMA InitIInv == Init => IInv
<1> SUFFICES ASSUME Init PROVE IInv
  OBVIOUS
<1>1. Unused \in Rows /\ ~Unused.used
  BY TimeAssumption DEF Unused, Rows
<1>2. \A i \in Ids : row[i] = Unused
  BY DEF Init
<1> QED BY <1>1, <1>2, TimeAssumption DEF Init, IInv, RowsOK, Past, OneAtATime, Running, Ids

LEMMA StampedFits ==
  ASSUME IInv, NEW i \in Ids, NEW v \in Visits \cup {None}, v # None <=> i \in Sessions,
         NEW from \in 0..now, NEW to \in {Open} \cup 0..now, to # Open => from < to
  PROVE  Fits(i, Stamped(v, from, to))
<1>1. now \in 0..Horizon /\ Horizon \in Nat
  BY TimeAssumption DEF IInv, RowsOK
<1> QED BY <1>1 DEF Fits, Stamped, Rows, Open

LEMMA OneRow ==
  ASSUME IInv, NEW i \in Ids, NEW r, Fits(i, r), row' = [row EXCEPT ![i] = r], now' = now
  PROVE  RowsOK' /\ Past' /\ (\A k \in Ids \ {i} : row'[k] = row[k]) /\ row'[i] = r
<1>1. row \in [Ids -> Rows] /\ now \in 0..Horizon /\ Horizon \in Nat
  BY TimeAssumption DEF IInv, RowsOK
<1>2. r \in Rows
  BY DEF Fits
<1>3. row' \in [Ids -> Rows] /\ \A k \in Ids : row'[k] = IF k = i THEN r ELSE row[k]
  BY <1>1, <1>2
<1> QED BY <1>1, <1>3, RowsStay

LEMMA StartShiftIInv ==
  ASSUME IInv, NEW i \in Shifts, StartShift(i) PROVE IInv'
<1>1. i \in Ids /\ now \in 0..Horizon /\ Horizon \in Nat /\ i \notin Sessions
  BY TimeAssumption, DisjointAssumption DEF Ids, IInv, RowsOK
<1>2. Fits(i, Stamped(None, now, Open))
  BY <1>1, StampedFits
<1>3. RowsOK' /\ Past' /\ (\A k \in Ids \ {i} : row'[k] = row[k]) /\ row'[i] = Stamped(None, now, Open)
  BY <1>1, <1>2, OneRow DEF StartShift
<1>4. \A k \in Others(i) : row[k].to # Open
  BY DEF StartShift, Others, Running
<1> QED BY <1>1, <1>3, <1>4, OneChanges DEF IInv

LEMMA StopIInv ==
  ASSUME IInv, NEW S \in SUBSET Running(Ids), row' = Stopped(S, now), now' = now PROVE IInv'
<1>1. now \in 0..Horizon /\ Horizon \in Nat
  BY TimeAssumption DEF IInv, RowsOK
<1>2. RowsOK' /\ Past'
  BY <1>1, StoppedFits, RowsStay
<1>3. OneAtATime'
  BY StoppedFits, NoneStarts
<1> QED BY <1>2, <1>3 DEF IInv

LEMMA EndShiftIInv ==
  ASSUME IInv, EndShift PROVE IInv'
<1>1. PICK S \in SUBSET Running(Ids) : row' = Stopped(S, now)
  <2>1. PICK s \in Newest(Running(Shifts)) :
          IF Running(Sessions) = {} THEN row' = Stopped({s}, now)
          ELSE \E j \in Newest(Running(Sessions)) : row' = Stopped({s, j}, now)
    BY DEF EndShift
  <2> QED BY <2>1, NewestIsAll
<1> QED BY <1>1, StopIInv DEF EndShift

LEMMA EndJobIInv ==
  ASSUME IInv, NEW v \in Visits, EndJob(v) PROVE IInv'
<1>1. PICK j \in Running(On(v)) : row' = Stopped({j}, now)
  BY DEF EndJob, Newest
<1>2. {j} \in SUBSET Running(Ids)
  BY DEF Running, On, Ids
<1> QED BY <1>1, <1>2, StopIInv DEF EndJob

LEMMA ArriveIInv ==
  ASSUME IInv, NEW v \in Visits, NEW i \in Shifts, NEW j \in Sessions, Arrive(v, i, j) PROVE IInv'
<1>1. now \in 0..Horizon /\ Horizon \in Nat /\ now # Open /\ i \in Ids /\ j \in Ids /\ i # j
      /\ i \notin Sessions /\ j \notin Shifts /\ v # None
  BY TimeAssumption, DisjointAssumption DEF Ids, IInv, RowsOK, Open
<1>2. PICK stops \in {Running(Sessions)} :
        row' = [k \in Ids |->
          IF k = j THEN Stamped(v, now, Open)
          ELSE IF k = i /\ Running(Shifts) = {} THEN Stamped(None, now, Open)
          ELSE Stopped(stops, now)[k]]
  <2>1. PICK stops \in IF Elsewhere = {} THEN {{}} ELSE {{e} : e \in Elsewhere} :
          row' = [k \in Ids |->
            IF k = j THEN Stamped(v, now, Open)
            ELSE IF k = i /\ Running(Shifts) = {} THEN Stamped(None, now, Open)
            ELSE Stopped(stops, now)[k]]
    BY DEF Arrive
  <2>2. Elsewhere = Running(Sessions) /\ \A a, b \in Running(Sessions) : a = b
    BY NewestIsAll DEF Elsewhere, IInv, OneAtATime
  <2>3. stops = Running(Sessions)
    BY <2>1, <2>2
  <2> QED BY <2>1, <2>3
<1>3. stops \in SUBSET Running(Ids) /\ stops = Running(Sessions)
  BY <1>2 DEF Running, Ids
<1>4. Fits(j, Stamped(v, now, Open)) /\ Fits(i, Stamped(None, now, Open))
  BY <1>1, StampedFits
<1>5. /\ \A k \in Ids : row'[k] = row[k] \/ Fits(k, row'[k])
      /\ \A k \in Ids : row'[k] \in Rows
      /\ row' \in [Ids -> Rows]
  <2>1. ASSUME NEW k \in Ids PROVE (row'[k] = row[k] \/ Fits(k, row'[k])) /\ row'[k] \in Rows
    <3>1. row[k] \in Rows
      BY DEF IInv, RowsOK
    <3>2. row'[k] = row[k] \/ Fits(k, row'[k])
      BY <1>2, <1>3, <1>4, StoppedFits
    <3> QED BY <3>1, <3>2 DEF Fits
  <2>2. row' = [k \in Ids |-> row'[k]]
    BY <1>2
  <2> QED BY <2>1, <2>2
<1>6. now' = now
  BY DEF Arrive
<1>7. RowsOK' /\ Past'
  BY <1>1, <1>5, <1>6, RowsStay
<1>8. \A k \in Sessions : row'[k].used /\ row'[k].to = Open => k = j
  <2> SUFFICES ASSUME NEW k \in Sessions, k # j PROVE ~(row'[k].used /\ row'[k].to = Open)
    OBVIOUS
  <2>1. k \in Ids /\ row'[k] = Stopped(stops, now)[k]
    BY <1>1, <1>2 DEF Ids
  <2>2. CASE k \in stops
    BY <1>3, <2>1, <2>2, StoppedFits
  <2>3. CASE k \notin stops
    <3>1. row'[k] = row[k]
      BY <1>3, <2>1, <2>3, StoppedFits
    <3> QED BY <3>1, <2>3, <1>3 DEF Running
  <2> QED BY <2>2, <2>3
<1>9. \A k, h \in Running(Shifts)' : k = h
  <2>1. \A k \in Shifts : row'[k] = IF k = i /\ Running(Shifts) = {} THEN Stamped(None, now, Open) ELSE row[k]
    <3> SUFFICES ASSUME NEW k \in Shifts
                 PROVE  row'[k] = IF k = i /\ Running(Shifts) = {} THEN Stamped(None, now, Open) ELSE row[k]
      OBVIOUS
    <3>1. k \in Ids /\ k # j /\ k \notin stops
      BY <1>1, <1>3, DisjointAssumption DEF Ids, Running
    <3> QED BY <1>2, <1>3, <3>1, StoppedFits
  <2>2. CASE Running(Shifts) = {}
    BY <2>1, <2>2 DEF Running
  <2>3. CASE Running(Shifts) # {}
    <3>1. Running(Shifts)' = Running(Shifts)
      BY <2>1, <2>3 DEF Running
    <3> QED BY <3>1 DEF IInv, OneAtATime
  <2> QED BY <2>2, <2>3
<1>10. OneAtATime'
  BY <1>8, <1>9 DEF OneAtATime, Running
<1> QED BY <1>7, <1>10 DEF IInv

LEMMA SweepIInv ==
  ASSUME IInv, SweepWrite PROVE IInv'
<1>1. now \in 0..Horizon /\ Horizon \in Nat /\ now' = now
  BY TimeAssumption DEF IInv, RowsOK, SweepWrite
<1>2. ASSUME NEW i \in Ids
      PROVE /\ row'[i] = row[i] \/ row'[i] = [row[i] EXCEPT !.flagged = TRUE]
            /\ row'[i] \in Rows /\ Fits(i, row'[i])
            /\ row'[i].used = row[i].used /\ row'[i].to = row[i].to
  <2>1. row[i] \in Rows /\ Fits(i, row[i])
    BY DEF IInv, RowsOK, Past, Fits
  <2>2. row'[i] = row[i] \/ row'[i] = [row[i] EXCEPT !.flagged = TRUE]
    BY DEF SweepWrite
  <2>3. [row[i] EXCEPT !.flagged = TRUE] \in Rows
    BY <2>1 DEF Rows
  <2> QED BY <2>1, <2>2, <2>3 DEF Fits, Rows
<1>3. row' = [i \in Ids |-> row'[i]]
  BY DEF SweepWrite
<1>4. row' \in [Ids -> Rows]
  BY <1>2, <1>3
<1>5. RowsOK' /\ Past'
  BY <1>1, <1>2, <1>4, RowsStay
<1>6. OneAtATime'
  BY <1>2, NoneStarts
<1> QED BY <1>5, <1>6 DEF IInv

\* A row with another start, end and answer is a row.
LEMMA Changed ==
  ASSUME NEW q \in Rows, NEW from \in 0..Horizon, NEW to \in {Open} \cup 0..Horizon,
         NEW answered \in BOOLEAN
  PROVE  /\ LET r == [q EXCEPT !.from = from, !.to = to, !.answered = answered]
            IN r \in Rows /\ r.to = to /\ r.from = from /\ r.on = q.on /\ r.used = q.used
         /\ LET r == [q EXCEPT !.to = to, !.answered = answered]
            IN r \in Rows /\ r.to = to /\ r.from = q.from /\ r.on = q.on /\ r.used = q.used
BY DEF Rows

LEMMA ConfirmIInv ==
  ASSUME IInv, NEW i \in Ids, NEW at \in 0..now, Confirm(i, at) PROVE IInv'
<1>1. now \in 0..Horizon /\ Horizon \in Nat /\ row[i] \in Rows /\ row[i].used /\ row[i].from < at
  BY TimeAssumption DEF IInv, RowsOK, Confirm, RealEnd
<1> DEFINE r == [row[i] EXCEPT !.to = at, !.answered = TRUE]
<1>2. r \in Rows /\ r.to = at /\ r.from = row[i].from /\ r.on = row[i].on /\ r.used
  <2>1. at \in {Open} \cup 0..Horizon
    BY <1>1
  <2> QED BY <1>1, <2>1, Changed DEF Rows
<1>3. Fits(i, r)
  <2>1. (r.on # None <=> i \in Sessions) /\ r.from <= now
    BY <1>1, <1>2 DEF IInv, RowsOK, Past
  <2>2. r.from <= r.to
    BY <1>1, <1>2 DEF Rows
  <2> QED BY <1>2, <2>1, <2>2 DEF Fits
<1>4. row' = [row EXCEPT ![i] = r] /\ now' = now
  BY <1>1 DEF Confirm, Typed, IInv, RowsOK
<1>5. RowsOK' /\ Past' /\ (\A k \in Ids \ {i} : row'[k] = row[k]) /\ row'[i] = r
  BY <1>3, <1>4, OneRow
<1>6. r.to # Open
  BY <1>1, <1>2 DEF Open
<1> QED BY <1>5, <1>6, OneChanges DEF IInv

LEMMA EditIInv ==
  ASSUME IInv, NEW i \in Ids, NEW from \in 0..now, NEW to \in {Open} \cup 0..now, Edit(i, from, to)
  PROVE  IInv'
<1>1. now \in 0..Horizon /\ Horizon \in Nat /\ row[i] \in Rows /\ row[i].used
      /\ (to # Open => from < to)
  BY TimeAssumption DEF IInv, RowsOK, Edit
<1> DEFINE r == [row[i] EXCEPT !.from = from, !.to = to,
                               !.answered = @ \/ (row[i].flagged /\ to # Open)]
<1>2. r \in Rows /\ r.to = to /\ r.from = from /\ r.on = row[i].on /\ r.used
  <2>1. to \in {Open} \cup 0..Horizon /\ from \in 0..Horizon
    BY <1>1
  <2>2. (row[i].answered \/ (row[i].flagged /\ to # Open)) \in BOOLEAN
    BY <1>1 DEF Rows
  <2>3. r = [row[i] EXCEPT !.from = from, !.to = to,
                           !.answered = row[i].answered \/ (row[i].flagged /\ to # Open)]
    OBVIOUS
  <2> HIDE DEF r
  <2> QED BY <1>1, <2>1, <2>2, <2>3, Changed DEF Rows
<1>3. Fits(i, r)
  <2>1. r.on # None <=> i \in Sessions
    BY <1>1, <1>2 DEF IInv, RowsOK
  <2>2. to # Open => from <= to
    BY <1>1
  <2> QED BY <1>1, <1>2, <2>1, <2>2 DEF Fits
<1>4. row' = [row EXCEPT ![i] = r] /\ now' = now
  BY <1>1 DEF Edit, Typed, IInv, RowsOK
<1>5. RowsOK' /\ Past' /\ (\A k \in Ids \ {i} : row'[k] = row[k]) /\ row'[i] = r
  BY <1>3, <1>4, OneRow
<1>6. r.to = Open => \A k \in Others(i) : row[k].to # Open
  BY <1>2, TypedAlone DEF Edit
<1> QED BY <1>5, <1>6, OneChanges DEF IInv

LEMMA CreateIInv ==
  ASSUME IInv, NEW i \in Ids, NEW v \in Visits \cup {None}, NEW from \in 0..now,
         NEW to \in {Open} \cup 0..now, Create(i, v, from, to)
  PROVE  IInv'
<1>1. Fits(i, Stamped(v, from, to))
  BY StampedFits DEF Create
<1>2. RowsOK' /\ Past' /\ (\A k \in Ids \ {i} : row'[k] = row[k]) /\ row'[i] = Stamped(v, from, to)
  BY <1>1, OneRow DEF Create, Typed
<1>3. to = Open => \A k \in Others(i) : row[k].to # Open
  BY TypedAlone DEF Create
<1> QED BY <1>2, <1>3, OneChanges DEF IInv, Stamped

LEMMA DeleteIInv ==
  ASSUME IInv, NEW i \in Ids, Delete(i) PROVE IInv'
<1>1. Fits(i, Unused) /\ ~Unused.used
  BY TimeAssumption DEF Fits, Unused, Rows
<1>2. RowsOK' /\ Past' /\ (\A k \in Ids \ {i} : row'[k] = row[k]) /\ row'[i] = Unused
  BY <1>1, OneRow DEF Delete
<1> QED BY <1>1, <1>2, OneChanges DEF IInv

LEMMA NextIInv == IInv /\ [Next]_vars => IInv'
<1> SUFFICES ASSUME IInv, [Next]_vars PROVE IInv'
  OBVIOUS
<1>1. CASE UNCHANGED vars
  BY <1>1 DEF vars, IInv, RowsOK, Past, OneAtATime, Running
<1>2. CASE Tick
  <2>1. RowsOK' /\ Past' /\ OneAtATime'
    <3>1. now \in 0..Horizon /\ Horizon \in Nat /\ now' = now + 1 /\ now < Horizon /\ row' = row
      BY <1>2, TimeAssumption DEF Tick, IInv, RowsOK
    <3>2. RowsOK' /\ Past'
      BY <3>1, RowsStay DEF IInv, RowsOK
    <3> QED BY <3>1, <3>2, NoneStarts
  <2> QED BY <2>1 DEF IInv
<1>3. CASE SweepRead
  BY <1>3 DEF SweepRead, IInv, RowsOK, Past, OneAtATime, Running
<1>4. CASE EndShift
  BY <1>4, EndShiftIInv
<1>5. CASE SweepWrite
  BY <1>5, SweepIInv
<1>6. ASSUME NEW i \in Shifts, StartShift(i) PROVE IInv'
  BY <1>6, StartShiftIInv
<1>7. ASSUME NEW i \in Shifts, NEW j \in Sessions, NEW v \in Visits, Arrive(v, i, j) PROVE IInv'
  BY <1>7, ArriveIInv
<1>8. ASSUME NEW v \in Visits, EndJob(v) PROVE IInv'
  BY <1>8, EndJobIInv
<1>9. ASSUME NEW i \in Ids, Delete(i) PROVE IInv'
  BY <1>9, DeleteIInv
<1>10. ASSUME NEW i \in Ids, NEW at \in 0..now, Confirm(i, at) PROVE IInv'
  BY <1>10, ConfirmIInv
<1>11. ASSUME NEW i \in Ids, NEW from \in 0..now, NEW to \in {Open} \cup 0..now, Edit(i, from, to) PROVE IInv'
  BY <1>11, EditIInv
<1>12. ASSUME NEW i \in Ids, NEW from \in 0..now, NEW to \in {Open} \cup 0..now,
              NEW v \in Visits \cup {None}, Create(i, v, from, to) PROVE IInv'
  BY <1>12, CreateIInv
<1> QED BY <1>1, <1>2, <1>3, <1>4, <1>5, <1>6, <1>7, <1>8, <1>9, <1>10, <1>11, <1>12 DEF Next

-----------------------------------------------------------------------------
(* No two rows of one clock share a minute.                                *)

Clear(r, q) == End(r.to) <= q.from \/ End(q.to) <= r.from
SameClock(i, k) == i # k /\ (i \in Shifts <=> k \in Shifts)

Orderly ==
  /\ IsFiniteSet({i \in Ids : row[i].used})
  /\ \A i \in Ids : (row[i].used /\ row[i].to # Open) =>
       row[i].to <= now /\ (i \in Shifts => row[i].from < row[i].to)
  /\ \A i, k \in Ids : SameClock(i, k) /\ row[i].used /\ row[k].used => Clear(row[i], row[k])

LEMMA Numbers ==
  ASSUME NEW r \in Rows
  PROVE  /\ r.from \in Nat /\ r.from <= Horizon /\ r.to \in Int /\ r.to <= Horizon
         /\ End(r.to) \in Nat /\ End(r.to) <= Horizon + 1
         /\ r.to # Open => r.to \in Nat /\ End(r.to) = r.to
BY TimeAssumption DEF Rows, End, Open

LEMMA OthersAre ==
  ASSUME NEW i \in Ids
  PROVE  \A k : k \in Others(i) <=> k \in Ids /\ SameClock(i, k) /\ row[k].used
BY DisjointAssumption DEF Others, Ids, SameClock

\* A row that keeps its start and ends no later keeps clear of the others.
Kept(i) == row[i].used /\ row'[i].from = row[i].from /\ End(row'[i].to) <= End(row[i].to)

LEMMA OrderlyStays ==
  ASSUME IInv, Orderly, IInv', now <= now', NEW new, IsFiniteSet(new),
         \A i \in Ids : row'[i].used => i \in new \/ Kept(i),
         \A i \in Ids : (row'[i].used /\ row'[i].to # Open) =>
           row'[i].to <= now' /\ (i \in Shifts => row'[i].from < row'[i].to),
         \A i \in new \cap Ids : \A k \in Ids :
           SameClock(i, k) /\ row'[i].used /\ row'[k].used => Clear(row'[i], row'[k])
  PROVE  Orderly'
<1>1. IsFiniteSet({i \in Ids : row'[i].used})
  <2>1. {i \in Ids : row'[i].used} \subseteq {i \in Ids : row[i].used} \cup new
    BY DEF Kept
  <2>2. IsFiniteSet({i \in Ids : row[i].used} \cup new)
    BY FS_Union DEF Orderly
  <2> QED
    BY <2>1, <2>2, FS_Subset
<1>2. ASSUME NEW i \in Ids, NEW k \in Ids, SameClock(i, k), row'[i].used, row'[k].used
      PROVE  Clear(row'[i], row'[k])
  <2>1. CASE i \in new
    BY <1>2, <2>1
  <2>2. CASE k \in new
    <3>1. Clear(row'[k], row'[i])
      BY <1>2, <2>2 DEF SameClock
    <3> QED
      BY <3>1 DEF Clear
  <2>3. CASE i \notin new /\ k \notin new
    <3>1. Kept(i) /\ Kept(k)
      BY <1>2, <2>3
    <3>2. Clear(row[i], row[k])
      BY <1>2, <3>1 DEF Orderly, Kept
    <3>3. row[i] \in Rows /\ row[k] \in Rows /\ row'[i] \in Rows /\ row'[k] \in Rows
      BY DEF IInv, RowsOK
    <3>4. /\ row[i].from \in Nat /\ row[k].from \in Nat /\ End(row[i].to) \in Nat /\ End(row[k].to) \in Nat
          /\ End(row'[i].to) \in Nat /\ End(row'[k].to) \in Nat
      BY <3>3, Numbers
    <3> QED
      BY <3>1, <3>2, <3>4 DEF Clear, Kept
  <2> QED
    BY <2>1, <2>2, <2>3
<1> QED
  BY <1>1, <1>2 DEF Orderly, Clear, End

LEMMA InitOrderly == Init => Orderly
<1> SUFFICES ASSUME Init PROVE Orderly
  OBVIOUS
<1>1. \A i \in Ids : ~row[i].used
  BY DEF Init, Unused
<1>2. {i \in Ids : row[i].used} = {}
  BY <1>1
<1> QED
  BY <1>1, <1>2, FS_EmptySet DEF Orderly

\* One row put in: what is typed is true, and what runs starts after the rest.
LEMMA OneRowOrderly ==
  ASSUME IInv, Orderly, IInv', now' = now, NEW i \in Ids, \A k \in Ids \ {i} : row'[k] = row[k],
         row'[i].used => True(i, row'[i].from, row'[i].to),
         (row'[i].used /\ row'[i].to # Open) => row'[i].to <= now /\ (i \in Shifts => row'[i].from < row'[i].to)
  PROVE  Orderly'
<1>1. now \in Int
  BY DEF IInv, RowsOK
<1>2. IsFiniteSet({i})
  BY FS_Singleton
<1>3. \A k \in Ids : row'[k].used => k \in {i} \/ Kept(k)
  <2> SUFFICES ASSUME NEW k \in Ids \ {i}, row'[k].used PROVE Kept(k)
    OBVIOUS
  <2>1. row'[k] = row[k] /\ row[k] \in Rows
    BY DEF IInv, RowsOK
  <2>2. End(row[k].to) \in Nat
    BY <2>1, Numbers
  <2> QED
    BY <2>1, <2>2 DEF Kept
<1>4. \A k \in Ids : (row'[k].used /\ row'[k].to # Open) =>
        row'[k].to <= now' /\ (k \in Shifts => row'[k].from < row'[k].to)
  <2> SUFFICES ASSUME NEW k \in Ids, k # i, row'[k].used, row'[k].to # Open
               PROVE  row'[k].to <= now' /\ (k \in Shifts => row'[k].from < row'[k].to)
    OBVIOUS
  <2>1. row'[k] = row[k]
    OBVIOUS
  <2> QED
    BY <2>1 DEF Orderly
<1>5. ASSUME NEW k \in Ids, SameClock(i, k), row'[i].used, row'[k].used PROVE Clear(row'[i], row'[k])
  <2>1. row'[k] = row[k] /\ k \in Others(i)
    BY <1>5, OthersAre DEF SameClock
  <2> QED
    BY <1>5, <2>1 DEF True, Clear
<1>6. \A x \in {i} \cap Ids : \A k \in Ids :
        SameClock(x, k) /\ row'[x].used /\ row'[k].used => Clear(row'[x], row'[k])
  BY <1>5
<1> QED
  BY <1>1, <1>2, <1>3, <1>4, <1>6, OrderlyStays

\* When the clock runs for nobody else, a row that starts now is true.
LEMMA NowIsTrue ==
  ASSUME IInv, Orderly, NEW i \in Ids, \A k \in Others(i) : row[k].to # Open, NEW to
  PROVE  True(i, now, to)
<1> SUFFICES ASSUME NEW k \in Others(i) PROVE End(row[k].to) <= now
  BY DEF True
<1>1. k \in Ids /\ row[k].used /\ row[k].to # Open
  BY OthersAre
<1> QED
  BY <1>1 DEF Orderly, End

LEMMA StopOrderly ==
  ASSUME IInv, Orderly, IInv', now' = now, NEW S \in SUBSET Running(Ids), row' = Stopped(S, now),
         \A i \in S \cap Shifts : row[i].from < now
  PROVE  Orderly'
<1>1. now \in 0..Horizon /\ Horizon \in Nat /\ now # Open
  BY TimeAssumption DEF IInv, RowsOK, Open
<1>2. ASSUME NEW i \in S
      PROVE  /\ i \in Ids /\ row[i].used /\ row[i].to = Open /\ row'[i].used /\ row'[i].from = row[i].from
             /\ row'[i].to = now
  <2>1. i \in Ids /\ row[i].used /\ row[i].to = Open /\ row[i] \in Rows
    BY DEF Running, IInv, RowsOK
  <2>2. row'[i] = [row[i] EXCEPT !.to = now]
    BY <2>1 DEF Stopped
  <2> QED
    BY <2>1, <2>2 DEF Rows
<1>3. ASSUME NEW i \in Ids \ S PROVE row'[i] = row[i]
  BY DEF Stopped
<1>4. \A i \in Ids : row'[i].used => i \in {} \/ Kept(i)
  <2> SUFFICES ASSUME NEW i \in Ids, row'[i].used PROVE Kept(i)
    OBVIOUS
  <2>1. row[i] \in Rows
    BY DEF IInv, RowsOK
  <2>2. End(row[i].to) \in Nat
    BY <2>1, Numbers
  <2>3. CASE i \in S
    BY <1>1, <1>2, <2>3 DEF Kept, End
  <2>4. CASE i \notin S
    BY <1>3, <2>2, <2>4 DEF Kept
  <2> QED
    BY <2>3, <2>4
<1>5. \A i \in Ids : (row'[i].used /\ row'[i].to # Open) =>
        row'[i].to <= now' /\ (i \in Shifts => row'[i].from < row'[i].to)
  <2> SUFFICES ASSUME NEW i \in Ids, row'[i].used, row'[i].to # Open
               PROVE  row'[i].to <= now' /\ (i \in Shifts => row'[i].from < row'[i].to)
    OBVIOUS
  <2>1. CASE i \in S
    BY <1>1, <1>2, <2>1
  <2>2. CASE i \notin S
    BY <1>3, <2>2 DEF Orderly
  <2> QED
    BY <2>1, <2>2
<1>6. now <= now' /\ IsFiniteSet({})
  BY <1>1, FS_EmptySet
<1>7. \A x \in {} \cap Ids : \A k \in Ids :
        SameClock(x, k) /\ row'[x].used /\ row'[k].used => Clear(row'[x], row'[k])
  OBVIOUS
<1> QED
  BY <1>4, <1>5, <1>6, <1>7, OrderlyStays

LEMMA StartShiftOrderly ==
  ASSUME IInv, Orderly, IInv', NEW i \in Shifts, StartShift(i) PROVE Orderly'
<1>1. i \in Ids /\ row \in [Ids -> Rows] /\ now' = now
  BY DEF Ids, IInv, RowsOK, StartShift
<1>2. row'[i] = Stamped(None, now, Open) /\ \A k \in Ids \ {i} : row'[k] = row[k]
  BY <1>1 DEF StartShift
<1>3. \A k \in Others(i) : row[k].to # Open
  BY DEF StartShift, Others, Running
<1>4. row'[i].from = now /\ row'[i].to = Open
  BY <1>2 DEF Stamped
<1>5. True(i, row'[i].from, row'[i].to)
  BY <1>1, <1>3, <1>4, NowIsTrue
<1> QED
  BY <1>1, <1>2, <1>4, <1>5, OneRowOrderly

LEMMA EndShiftOrderly ==
  ASSUME IInv, Orderly, IInv', EndShift PROVE Orderly'
<1>1. PICK s \in Newest(Running(Shifts)) :
        /\ row[s].from < now
        /\ IF Running(Sessions) = {} THEN row' = Stopped({s}, now)
           ELSE \E j \in Newest(Running(Sessions)) : row' = Stopped({s, j}, now)
  BY DEF EndShift
<1>2. s \in Running(Shifts) /\ now' = now
  BY <1>1 DEF EndShift, Newest
<1>3. PICK S \in SUBSET Running(Ids) : row' = Stopped(S, now) /\ S \cap Shifts \subseteq {s}
  <2>1. CASE Running(Sessions) = {}
    <3>1. {s} \in SUBSET Running(Ids)
      BY <1>2 DEF Running, Ids
    <3> QED
      BY <1>1, <2>1, <3>1
  <2>2. CASE Running(Sessions) # {}
    <3>1. PICK j \in Newest(Running(Sessions)) : row' = Stopped({s, j}, now)
      BY <1>1, <2>2
    <3>2. j \in Running(Ids) /\ s \in Running(Ids) /\ j \notin Shifts
      BY <1>2, <3>1, DisjointAssumption DEF Running, Ids, Newest
    <3>3. {s, j} \in SUBSET Running(Ids) /\ {s, j} \cap Shifts \subseteq {s}
      BY <3>2
    <3> QED
      BY <3>1, <3>3
  <2> QED
    BY <2>1, <2>2
<1>4. \A i \in S \cap Shifts : row[i].from < now
  BY <1>1, <1>3
<1> QED
  BY <1>2, <1>3, <1>4, StopOrderly

LEMMA EndJobOrderly ==
  ASSUME IInv, Orderly, IInv', NEW v \in Visits, EndJob(v) PROVE Orderly'
<1>1. PICK j \in Running(On(v)) : row' = Stopped({j}, now)
  BY DEF EndJob, Newest
<1>2. {j} \in SUBSET Running(Ids) /\ {j} \cap Shifts = {}
  BY DisjointAssumption DEF Running, On, Ids
<1>3. \A i \in {j} \cap Shifts : row[i].from < now
  BY <1>2
<1> QED
  BY <1>1, <1>2, <1>3, StopOrderly DEF EndJob

\* What arriving stops ends where the new row starts.
LEMMA ArriveOrderly ==
  ASSUME IInv, Orderly, IInv', NEW v \in Visits, NEW i \in Shifts, NEW j \in Sessions, Arrive(v, i, j)
  PROVE  Orderly'
<1> DEFINE stops == Running(Sessions)
           new == IF Running(Shifts) = {} THEN {i, j} ELSE {j}
<1>1. /\ now \in 0..Horizon /\ Horizon \in Nat /\ now # Open /\ i \in Ids /\ j \in Ids /\ i # j
      /\ i \notin Sessions /\ j \notin Shifts /\ now' = now
  BY TimeAssumption, DisjointAssumption DEF Ids, IInv, RowsOK, Open, Arrive
<1>2. row' = [k \in Ids |->
        IF k = j THEN Stamped(v, now, Open)
        ELSE IF k = i /\ Running(Shifts) = {} THEN Stamped(None, now, Open)
        ELSE Stopped(stops, now)[k]]
  <2>1. PICK some \in IF Elsewhere = {} THEN {{}} ELSE {{e} : e \in Elsewhere} :
          row' = [k \in Ids |->
            IF k = j THEN Stamped(v, now, Open)
            ELSE IF k = i /\ Running(Shifts) = {} THEN Stamped(None, now, Open)
            ELSE Stopped(some, now)[k]]
    BY DEF Arrive
  <2>2. Elsewhere = Running(Sessions) /\ \A a, b \in Running(Sessions) : a = b
    BY NewestIsAll DEF Elsewhere, IInv, OneAtATime
  <2>3. some = Running(Sessions)
    BY <2>1, <2>2
  <2> QED
    BY <2>1, <2>3
<1>3. \A k \in new : k \in Ids /\ row'[k].from = now /\ row'[k].to = Open
  BY <1>1, <1>2 DEF Stamped
<1>4. ASSUME NEW k \in Ids, k \notin new
      PROVE  /\ row'[k].used = row[k].used /\ row'[k].from = row[k].from
             /\ k \in stops => row[k].to = Open /\ row[k].used /\ row'[k].to = now
             /\ k \notin stops => row'[k].to = row[k].to
  <2>1. row[k] \in Rows
    BY DEF IInv, RowsOK
  <2>2. row'[k] = IF k \in stops THEN [row[k] EXCEPT !.to = now] ELSE row[k]
    BY <1>2, <1>4 DEF Stopped
  <2>3. k \in stops => row[k].to = Open /\ row[k].used
    BY DEF Running
  <2> HIDE DEF new, stops
  <2> QED
    BY <2>1, <2>2, <2>3 DEF Rows
<1>5. ASSUME NEW k \in Ids, k \notin new, row'[k].used
      PROVE  /\ Kept(k)
             /\ row'[k].to # Open => row'[k].to <= now
             /\ row'[k].to # Open /\ k \in Shifts => row'[k].from < row'[k].to
  <2>1. row[k] \in Rows
    BY DEF IInv, RowsOK
  <2>2. End(row[k].to) \in Nat
    BY <2>1, Numbers
  <2>3. CASE k \in stops
    <3>1. k \notin Shifts
      BY <2>3, DisjointAssumption DEF Running
    <3>2. row'[k].used = row[k].used /\ row'[k].from = row[k].from /\ row[k].to = Open /\ row[k].used
          /\ row'[k].to = now
      BY <1>4, <1>5, <2>3
    <3> HIDE DEF stops, new
    <3> QED
      BY <1>1, <3>1, <3>2 DEF Kept, End
  <2>4. CASE k \notin stops
    <3>1. row'[k].used = row[k].used /\ row'[k].from = row[k].from /\ row'[k].to = row[k].to
      BY <1>4, <1>5, <2>4
    <3> HIDE DEF stops, new
    <3> QED
      BY <1>5, <2>2, <3>1 DEF Kept, Orderly
  <2> QED
    BY <2>3, <2>4
<1>6. ASSUME NEW x \in new \cap Ids, NEW k \in Ids, SameClock(x, k), row'[x].used, row'[k].used
      PROVE  Clear(row'[x], row'[k])
  <2>1. k \notin new
    BY <1>1, <1>6 DEF SameClock
  <2>2. row'[k].to # Open
    <3>1. CASE k \in stops
      BY <1>1, <1>4, <2>1, <3>1
    <3>2. CASE k \notin stops
      <4>1. row'[k].used = row[k].used /\ row'[k].to = row[k].to
        BY <1>4, <2>1, <3>2
      <4>2. k \in Sessions => row'[k].to # Open
        BY <1>6, <3>2, <4>1 DEF Running
      <4>3. k \in Shifts => row'[k].to # Open
        <5> SUFFICES ASSUME k \in Shifts PROVE row[k].to # Open
          BY <4>1
        <5>1. x = i /\ Running(Shifts) = {}
          BY <1>1, <1>6 DEF SameClock
        <5> QED
          BY <1>6, <4>1, <5>1 DEF Running
      <4> QED
        BY <4>2, <4>3 DEF Ids
    <3> QED
      BY <3>1, <3>2
  <2>3. row'[k].to <= now /\ row'[x].from = now
    BY <1>3, <1>5, <1>6, <2>1, <2>2
  <2> HIDE DEF new
  <2> QED
    BY <2>2, <2>3 DEF Clear, End
<1>7. IsFiniteSet(new)
  <2>1. IsFiniteSet({i}) /\ IsFiniteSet({j}) /\ IsFiniteSet({i} \cup {j}) /\ {i, j} = {i} \cup {j}
    BY FS_Singleton, FS_AddElement
  <2> QED
    BY <2>1
<1>8. \A k \in Ids : row'[k].used => k \in new \/ Kept(k)
  BY <1>5
<1>9. \A k \in Ids : (row'[k].used /\ row'[k].to # Open) =>
        row'[k].to <= now' /\ (k \in Shifts => row'[k].from < row'[k].to)
  <2> HIDE DEF new
  <2> QED
    BY <1>1, <1>3, <1>5
<1>10. now <= now'
  BY <1>1
<1> HIDE DEF new, stops
<1> QED
  BY <1>6, <1>7, <1>8, <1>9, <1>10, OrderlyStays

LEMMA SweepOrderly ==
  ASSUME IInv, Orderly, SweepWrite PROVE Orderly'
<1>1. now' = now
  BY DEF SweepWrite
<1>2. ASSUME NEW i \in Ids
      PROVE  row'[i].used = row[i].used /\ row'[i].from = row[i].from /\ row'[i].to = row[i].to
  <2>1. row[i] \in Rows
    BY DEF IInv, RowsOK
  <2>2. row'[i] = row[i] \/ row'[i] = [row[i] EXCEPT !.flagged = TRUE]
    BY DEF SweepWrite
  <2> QED
    BY <2>1, <2>2 DEF Rows
<1>3. {i \in Ids : row'[i].used} = {i \in Ids : row[i].used}
  BY <1>2
<1> QED
  BY <1>1, <1>2, <1>3 DEF Orderly, Clear, End

LEMMA ConfirmOrderly ==
  ASSUME IInv, Orderly, IInv', NEW i \in Ids, NEW at \in 0..now, Confirm(i, at) PROVE Orderly'
<1>1. /\ row \in [Ids -> Rows] /\ row[i] \in Rows /\ now' = now /\ row[i].from < at /\ at <= now
      /\ True(i, row[i].from, at)
  BY DEF IInv, RowsOK, Confirm, Typed, RealEnd
<1>2. row'[i] = [row[i] EXCEPT !.to = at, !.answered = TRUE] /\ \A k \in Ids \ {i} : row'[k] = row[k]
  BY <1>1 DEF Confirm
<1>3. row'[i].from = row[i].from /\ row'[i].to = at
  BY <1>1, <1>2 DEF Rows
<1> QED
  BY <1>1, <1>2, <1>3, OneRowOrderly

LEMMA EditOrderly ==
  ASSUME IInv, Orderly, IInv', NEW i \in Ids, NEW from \in 0..now, NEW to \in {Open} \cup 0..now, Edit(i, from, to)
  PROVE  Orderly'
<1>1. /\ row \in [Ids -> Rows] /\ row[i] \in Rows /\ now' = now /\ (to # Open => from < to)
      /\ True(i, from, to) /\ now \in Int
  BY DEF IInv, RowsOK, Edit, Typed
<1>2. /\ row'[i] = [row[i] EXCEPT !.from = from, !.to = to,
                                  !.answered = row[i].answered \/ (row[i].flagged /\ to # Open)]
      /\ \A k \in Ids \ {i} : row'[k] = row[k]
  BY <1>1 DEF Edit
<1>3. row'[i].from = from /\ row'[i].to = to
  BY <1>1, <1>2 DEF Rows
<1>4. row'[i].to # Open => row'[i].to <= now /\ row'[i].from < row'[i].to
  BY <1>1, <1>3
<1> QED
  BY <1>1, <1>2, <1>3, <1>4, OneRowOrderly

LEMMA CreateOrderly ==
  ASSUME IInv, Orderly, IInv', NEW i \in Ids, NEW v \in Visits \cup {None}, NEW from \in 0..now,
         NEW to \in {Open} \cup 0..now, Create(i, v, from, to)
  PROVE  Orderly'
<1>1. /\ row \in [Ids -> Rows] /\ now' = now /\ (to # Open => from < to)
      /\ True(i, from, to) /\ now \in Int
  BY DEF IInv, RowsOK, Create, Typed
<1>2. row'[i] = Stamped(v, from, to) /\ \A k \in Ids \ {i} : row'[k] = row[k]
  BY <1>1 DEF Create
<1>3. row'[i].from = from /\ row'[i].to = to
  BY <1>2 DEF Stamped
<1>4. row'[i].to # Open => row'[i].to <= now /\ row'[i].from < row'[i].to
  BY <1>1, <1>3
<1> QED
  BY <1>1, <1>2, <1>3, <1>4, OneRowOrderly

LEMMA DeleteOrderly ==
  ASSUME IInv, Orderly, IInv', NEW i \in Ids, Delete(i) PROVE Orderly'
<1>1. row \in [Ids -> Rows] /\ now' = now
  BY DEF IInv, RowsOK, Delete
<1>2. ~row'[i].used /\ \A k \in Ids \ {i} : row'[k] = row[k]
  BY <1>1 DEF Delete, Unused
<1> QED
  BY <1>1, <1>2, OneRowOrderly

LEMMA NextOrderly == IInv /\ Orderly /\ IInv' /\ [Next]_vars => Orderly'
<1> SUFFICES ASSUME IInv, Orderly, IInv', [Next]_vars PROVE Orderly'
  OBVIOUS
<1>1. CASE UNCHANGED vars
  BY <1>1 DEF vars, Orderly, Clear, End
<1>2. CASE Tick
  <2>1. now \in Int /\ now' = now + 1 /\ row' = row
    BY <1>2 DEF Tick, IInv, RowsOK
  <2>2. \A i \in Ids : (row[i].used /\ row[i].to # Open) =>
          row[i].to <= now' /\ (i \in Shifts => row[i].from < row[i].to)
    <3> SUFFICES ASSUME NEW i \in Ids, row[i].used, row[i].to # Open
                 PROVE  row[i].to <= now' /\ (i \in Shifts => row[i].from < row[i].to)
      OBVIOUS
    <3>1. row[i].to \in Int
      <4>1. row[i] \in Rows
        BY DEF IInv, RowsOK
      <4> QED
        BY <4>1, Numbers
    <3>2. row[i].to <= now /\ (i \in Shifts => row[i].from < row[i].to)
      BY DEF Orderly
    <3> QED
      BY <2>1, <3>1, <3>2
  <2> QED
    BY <2>1, <2>2 DEF Orderly, Clear, End
<1>3. CASE SweepRead
  BY <1>3 DEF SweepRead, Orderly, Clear, End
<1>4. CASE EndShift
  BY <1>4, EndShiftOrderly
<1>5. CASE SweepWrite
  BY <1>5, SweepOrderly
<1>6. ASSUME NEW i \in Shifts, StartShift(i) PROVE Orderly'
  BY <1>6, StartShiftOrderly
<1>7. ASSUME NEW i \in Shifts, NEW j \in Sessions, NEW v \in Visits, Arrive(v, i, j) PROVE Orderly'
  BY <1>7, ArriveOrderly
<1>8. ASSUME NEW v \in Visits, EndJob(v) PROVE Orderly'
  BY <1>8, EndJobOrderly
<1>9. ASSUME NEW i \in Ids, Delete(i) PROVE Orderly'
  BY <1>9, DeleteOrderly
<1>10. ASSUME NEW i \in Ids, NEW at \in 0..now, Confirm(i, at) PROVE Orderly'
  BY <1>10, ConfirmOrderly
<1>11. ASSUME NEW i \in Ids, NEW from \in 0..now, NEW to \in {Open} \cup 0..now, Edit(i, from, to) PROVE Orderly'
  BY <1>11, EditOrderly
<1>12. ASSUME NEW i \in Ids, NEW from \in 0..now, NEW to \in {Open} \cup 0..now,
              NEW v \in Visits \cup {None}, Create(i, v, from, to) PROVE Orderly'
  BY <1>12, CreateOrderly
<1> QED
  BY <1>1, <1>2, <1>3, <1>4, <1>5, <1>6, <1>7, <1>8, <1>9, <1>10, <1>11, <1>12 DEF Next

-----------------------------------------------------------------------------
(* The segments of a week.                                                 *)

\* Spans without a minute in common lie one after the other.
LEMMA NothingShared ==
  ASSUME NEW a \in Nat, NEW b \in Nat, NEW c \in Nat, NEW d \in Nat, a < b, c < d,
         \A t \in Nat : ~(a <= t /\ t < b /\ c <= t /\ t < d)
  PROVE  b <= c \/ d <= a
<1>1. CASE a <= c
  <2>1. ~(a <= c /\ c < b /\ c <= c /\ c < d)
    OBVIOUS
  <2> QED
    BY <1>1, <2>1
<1>2. CASE c <= a
  <2>1. ~(a <= a /\ a < b /\ c <= a /\ a < d)
    OBVIOUS
  <2> QED
    BY <1>2, <2>1
<1> QED
  BY <1>1, <1>2

LEMMA ImageIsFinite ==
  ASSUME NEW S, IsFiniteSet(S), NEW f, NEW T, T = {f[s] : s \in S}
  PROVE  IsFiniteSet(T)
<1> DEFINE g == [s \in S |-> f[s]]
<1>1. g \in Surjection(S, T)
  BY DEF Surjection
<1> HIDE DEF g
<1> QED
  BY <1>1, FS_Surjection

Windows(w) == MergeIntervals({Span(s) : s \in InWeek(Shifts, w)})
GapsOf(j, w) == SubtractIntervals(Span(j), Windows(w))
OfShift(s) == [of |-> s, from |-> row[s].from, minutes |-> Minutes(row[s])]
OfJob(j, gap) == [of |-> j, from |-> gap[1], minutes |-> gap[2] - gap[1]]

\* A counted row is closed and no shorter than nothing; a shift is not empty.
LEMMA CountedRows ==
  ASSUME IInv, Orderly, NEW w
  PROVE  /\ \A S \in SUBSET Ids : IsFiniteSet(InWeek(S, w))
         /\ \A i \in InWeek(Ids, w) :
              /\ i \in Ids /\ row[i].used /\ row[i].from \in Nat /\ row[i].to \in Nat /\ row[i].from <= row[i].to
              /\ End(row[i].to) = row[i].to
              /\ i \in Shifts => row[i].from < row[i].to
         /\ InWeek(Ids, w) = InWeek(Shifts, w) \cup InWeek(Sessions, w)
<1>1. ASSUME NEW S \in SUBSET Ids PROVE IsFiniteSet(InWeek(S, w))
  <2>1. InWeek(S, w) \subseteq {i \in Ids : row[i].used}
    BY DEF InWeek, Counts
  <2> QED
    BY <2>1, FS_Subset DEF Orderly
<1>2. ASSUME NEW i \in InWeek(Ids, w)
      PROVE  /\ i \in Ids /\ row[i].used /\ row[i].from \in Nat /\ row[i].to \in Nat /\ row[i].from <= row[i].to
             /\ End(row[i].to) = row[i].to
             /\ i \in Shifts => row[i].from < row[i].to
  <2>1. i \in Ids /\ row[i].used /\ row[i].to # Open /\ row[i] \in Rows
    BY DEF InWeek, Counts, IInv, RowsOK
  <2> QED
    BY <2>1, Numbers DEF IInv, RowsOK, Orderly
<1>3. InWeek(Ids, w) = InWeek(Shifts, w) \cup InWeek(Sessions, w)
  BY DEF InWeek, Ids
<1> QED
  BY <1>1, <1>2, <1>3

LEMMA WindowsAre ==
  ASSUME IInv, Orderly, NEW w
  PROVE  /\ IsFiniteSet(Windows(w)) /\ Windows(w) \subseteq Spans
         /\ \A t \in Nat : Covers(Windows(w), t)
              <=> \E s \in InWeek(Shifts, w) : row[s].from <= t /\ t < row[s].to
<1> DEFINE S == InWeek(Shifts, w)
           spans == {Span(s) : s \in S}
<1>1. \A s \in S : Span(s) \in Spans /\ Span(s)[1] = row[s].from /\ Span(s)[2] = row[s].to /\ row[s].from < row[s].to
  <2> SUFFICES ASSUME NEW s \in S
               PROVE  Span(s) \in Spans /\ Span(s)[1] = row[s].from /\ Span(s)[2] = row[s].to /\ row[s].from < row[s].to
    OBVIOUS
  <2>1. row[s].from \in Nat /\ row[s].to \in Nat /\ row[s].from < row[s].to
    <3>1. s \in InWeek(Ids, w) /\ s \in Shifts
      BY CountedRows DEF InWeek
    <3> QED
      BY <3>1, CountedRows
  <2> QED
    BY <2>1 DEF Span, Spans
<1>2. IsFiniteSet(S)
  BY CountedRows DEF Ids
<1> HIDE DEF S
<1>3. IsFiniteSet(spans)
  <2> DEFINE f == [s \in S |-> Span(s)]
  <2>1. spans = {f[s] : s \in S}
    OBVIOUS
  <2> HIDE DEF f
  <2> QED
    BY <1>2, <2>1, ImageIsFinite
<1>4. spans \subseteq Spans /\ {p \in spans : p[1] < p[2]} = spans
  BY <1>1 DEF Spans
<1>5. \A t \in Nat : Covers(spans, t) <=> \E s \in S : row[s].from <= t /\ t < row[s].to
  BY <1>1 DEF Covers
<1>6. Windows(w) = Merged(spans)
  BY <1>4 DEF Windows, MergeIntervals, Merged, S
<1> HIDE DEF spans
<1>7. Merged(spans) \in Outs /\ Merged(spans) \subseteq Spans
      /\ \A t \in Nat : Covers(Merged(spans), t) <=> Covers(spans, t)
  <2>1. spans \in SUBSET spans
    OBVIOUS
  <2> QED
    BY <1>3, <1>4, <2>1, MergedCovers
<1> QED
  BY <1>5, <1>6, <1>7 DEF Outs, S

LEMMA GapsOfAre ==
  ASSUME IInv, Orderly, NEW w, NEW j \in InWeek(Sessions, w)
  PROVE  /\ LeftOf(Span(j), Windows(w), GapsOf(j, w))
         /\ Span(j)[1] = row[j].from /\ Span(j)[2] = row[j].to
<1>1. row[j].from \in Nat /\ row[j].to \in Nat
  BY CountedRows
<1>2. Span(j) \in Nat \X Nat /\ Span(j)[1] = row[j].from /\ Span(j)[2] = row[j].to
  BY <1>1 DEF Span
<1>3. IsFiniteSet(Windows(w)) /\ Windows(w) \subseteq Spans
  BY WindowsAre
<1> QED
  BY <1>2, <1>3, GapsAre DEF GapsOf

\* A segment is a shift, or what no shift covers of a job.
ShiftPart(w, x) ==
  \E s \in InWeek(Shifts, w) : x = OfShift(s) /\ x.from = row[s].from /\ x.from + x.minutes = row[s].to
JobPart(w, x) ==
  \E j \in InWeek(Sessions, w) : \E gap \in GapsOf(j, w) :
    x = OfJob(j, gap) /\ x.from = gap[1] /\ x.from + x.minutes = gap[2]

Has(x, t) == x.from <= t /\ t < x.from + x.minutes

LEMMA SegmentParts ==
  ASSUME IInv, Orderly, NEW w
  PROVE  /\ \A x \in PayableSegments(w) :
              /\ x.from \in Nat /\ x.minutes \in Nat /\ x.minutes > 0
              /\ ShiftPart(w, x) \/ JobPart(w, x)
         /\ \A s \in InWeek(Shifts, w) : OfShift(s) \in PayableSegments(w)
         /\ \A j \in InWeek(Sessions, w) : \A gap \in GapsOf(j, w) : OfJob(j, gap) \in PayableSegments(w)
         /\ IsFiniteSet(PayableSegments(w))
<1> DEFINE S == InWeek(Shifts, w)
           J == InWeek(Sessions, w)
           A == {OfShift(s) : s \in S}
           B(j) == {OfJob(j, gap) : gap \in GapsOf(j, w)}
<1>1. PayableSegments(w) = A \cup UNION {B(j) : j \in J}
  BY DEF PayableSegments, Windows, GapsOf, OfShift, OfJob
<1>2. ASSUME NEW s \in S
      PROVE  LET x == OfShift(s)
             IN x.from \in Nat /\ x.minutes \in Nat /\ x.minutes > 0 /\ x.from = row[s].from /\ x.from + x.minutes = row[s].to
  <2>1. row[s].from \in Nat /\ row[s].to \in Nat /\ row[s].from < row[s].to
    <3>1. s \in InWeek(Ids, w) /\ s \in Shifts
      BY CountedRows DEF InWeek
    <3> QED
      BY <3>1, CountedRows
  <2>2. OfShift(s).from = row[s].from /\ OfShift(s).minutes = row[s].to - row[s].from
    BY <2>1 DEF OfShift, Minutes
  <2> QED
    BY <2>1, <2>2
<1>3. ASSUME NEW j \in J, NEW gap \in GapsOf(j, w)
      PROVE  LET x == OfJob(j, gap)
             IN x.from \in Nat /\ x.minutes \in Nat /\ x.minutes > 0 /\ x.from = gap[1] /\ x.from + x.minutes = gap[2]
  <2>1. gap[1] \in Nat /\ gap[2] \in Nat /\ gap[1] < gap[2]
    BY GapsOfAre DEF LeftOf, Spans
  <2>2. OfJob(j, gap).from = gap[1] /\ OfJob(j, gap).minutes = gap[2] - gap[1]
    BY DEF OfJob
  <2> QED
    BY <2>1, <2>2
<1>4. ASSUME NEW x \in PayableSegments(w)
      PROVE  x.from \in Nat /\ x.minutes \in Nat /\ x.minutes > 0 /\ (ShiftPart(w, x) \/ JobPart(w, x))
  <2>1. CASE x \in A
    <3>1. PICK s \in S : x = OfShift(s)
      BY <2>1
    <3> QED
      BY <1>2, <3>1 DEF ShiftPart
  <2>2. CASE x \in UNION {B(j) : j \in J}
    <3>1. PICK j \in J : x \in B(j)
      BY <2>2
    <3>2. PICK gap \in GapsOf(j, w) : x = OfJob(j, gap)
      BY <3>1
    <3> QED
      BY <1>3, <3>2 DEF JobPart
  <2> QED
    BY <1>1, <2>1, <2>2
<1>5. IsFiniteSet(S) /\ IsFiniteSet(J)
  BY CountedRows DEF Ids
<1>6. IsFiniteSet(A)
  <2> DEFINE f == [s \in S |-> OfShift(s)]
  <2>1. A = {f[s] : s \in S}
    OBVIOUS
  <2> HIDE DEF f, S
  <2> QED
    BY <1>5, <2>1, ImageIsFinite
<1>7. ASSUME NEW j \in J PROVE IsFiniteSet(B(j))
  <2> DEFINE G == GapsOf(j, w)
             f == [gap \in G |-> OfJob(j, gap)]
  <2>1. IsFiniteSet(G)
    BY GapsOfAre DEF LeftOf
  <2>2. B(j) = {f[gap] : gap \in G}
    OBVIOUS
  <2> HIDE DEF f, G, B
  <2> QED
    BY <2>1, <2>2, ImageIsFinite
<1>8. IsFiniteSet(UNION {B(j) : j \in J})
  <2> DEFINE f == [j \in J |-> B(j)]
             C == {B(j) : j \in J}
  <2>1. C = {f[j] : j \in J}
    OBVIOUS
  <2>2. IsFiniteSet(C)
    <3> HIDE DEF f, J, C
    <3> QED
      BY <1>5, <2>1, ImageIsFinite
  <2>3. \A c \in C : IsFiniteSet(c)
    BY <1>7
  <2> HIDE DEF C
  <2>4. IsFiniteSet(UNION C)
    BY <2>2, <2>3, FS_UNION
  <2> QED
    BY <2>4 DEF C
<1>9. IsFiniteSet(PayableSegments(w))
  <2> HIDE DEF A, B, J, S
  <2> QED
    BY <1>1, <1>6, <1>8, FS_Union
<1>10. (\A s \in S : OfShift(s) \in PayableSegments(w)) /\ \A j \in J : \A gap \in GapsOf(j, w) : OfJob(j, gap) \in PayableSegments(w)
  BY <1>1
<1> QED
  BY <1>4, <1>9, <1>10

\* What the minutes of a segment are.
LEMMA ShiftMinutes ==
  ASSUME IInv, Orderly, NEW w, NEW x, ShiftPart(w, x)
  PROVE  \E s \in InWeek(Shifts, w) : x = OfShift(s) /\ \A t \in Nat : Has(x, t) <=> (row[s].from <= t /\ t < row[s].to)
BY DEF ShiftPart, Has

LEMMA JobMinutes ==
  ASSUME IInv, Orderly, NEW w, NEW x, JobPart(w, x)
  PROVE  \E j \in InWeek(Sessions, w) : \E gap \in GapsOf(j, w) :
           /\ x = OfJob(j, gap)
           /\ \A t \in Nat : Has(x, t) <=> (gap[1] <= t /\ t < gap[2])
           /\ \A t \in Nat : Has(x, t) => /\ row[j].from <= t /\ t < row[j].to
                                          /\ ~\E s \in InWeek(Shifts, w) : row[s].from <= t /\ t < row[s].to
<1>0. PICK j \in InWeek(Sessions, w) :
        \E gap \in GapsOf(j, w) : x = OfJob(j, gap) /\ x.from = gap[1] /\ x.from + x.minutes = gap[2]
  BY DEF JobPart
<1>1. PICK gap \in GapsOf(j, w) : x = OfJob(j, gap) /\ x.from = gap[1] /\ x.from + x.minutes = gap[2]
  BY <1>0
<1>2. \A t \in Nat : Has(x, t) <=> (gap[1] <= t /\ t < gap[2])
  BY <1>1 DEF Has
<1>3. ASSUME NEW t \in Nat, Has(x, t)
      PROVE  /\ row[j].from <= t /\ t < row[j].to
             /\ ~\E s \in InWeek(Shifts, w) : row[s].from <= t /\ t < row[s].to
  <2>1. Covers(GapsOf(j, w), t)
    BY <1>2, <1>3 DEF Covers
  <2>2. row[j].from <= t /\ t < row[j].to /\ ~Covers(Windows(w), t)
    BY <2>1, GapsOfAre DEF LeftOf
  <2> QED
    BY <2>2, WindowsAre
<1> QED
  BY <1>1, <1>2, <1>3

LEMMA SegmentsOf ==
  ASSUME IInv, Orderly, NEW w
  PROVE  Segments(PayableSegments(w))
<1> DEFINE A == PayableSegments(w)
<1>1. ASSUME NEW x \in A, NEW y \in A, x # y, NEW t \in Nat, Has(x, t), Has(y, t)
      PROVE  FALSE
  <2>1. ASSUME NEW p \in A, NEW q \in A, ShiftPart(w, p), JobPart(w, q), Has(p, t), Has(q, t) PROVE FALSE
    <3>1. PICK s \in InWeek(Shifts, w) : row[s].from <= t /\ t < row[s].to
      BY <2>1, ShiftMinutes
    <3>2. ~\E r \in InWeek(Shifts, w) : row[r].from <= t /\ t < row[r].to
      BY <2>1, JobMinutes
    <3> QED
      BY <3>1, <3>2
  <2>2. CASE ShiftPart(w, x) /\ ShiftPart(w, y)
    <3>1. PICK s \in InWeek(Shifts, w) : x = OfShift(s) /\ row[s].from <= t /\ t < row[s].to
      BY <1>1, <2>2, ShiftMinutes
    <3>2. PICK r \in InWeek(Shifts, w) : y = OfShift(r) /\ row[r].from <= t /\ t < row[r].to
      BY <1>1, <2>2, ShiftMinutes
    <3>3. s # r /\ s \in InWeek(Ids, w) /\ r \in InWeek(Ids, w) /\ s \in Shifts /\ r \in Shifts
      BY <1>1, <3>1, <3>2, CountedRows DEF InWeek
    <3>4. Clear(row[s], row[r])
      BY <3>3, CountedRows DEF Orderly, SameClock
    <3>5. row[s].from \in Nat /\ row[s].to \in Nat /\ End(row[s].to) = row[s].to
          /\ row[r].from \in Nat /\ row[r].to \in Nat /\ End(row[r].to) = row[r].to
      BY <3>3, CountedRows
    <3> QED
      BY <3>1, <3>2, <3>4, <3>5 DEF Clear
  <2>3. CASE JobPart(w, x) /\ JobPart(w, y)
    <3>1. PICK j \in InWeek(Sessions, w) : \E g \in GapsOf(j, w) :
            x = OfJob(j, g) /\ g[1] <= t /\ t < g[2] /\ row[j].from <= t /\ t < row[j].to
      BY <1>1, <2>3, JobMinutes
    <3>2. PICK g \in GapsOf(j, w) : x = OfJob(j, g) /\ g[1] <= t /\ t < g[2]
      BY <3>1
    <3>3. PICK k \in InWeek(Sessions, w) : \E h \in GapsOf(k, w) :
            y = OfJob(k, h) /\ h[1] <= t /\ t < h[2] /\ row[k].from <= t /\ t < row[k].to
      BY <1>1, <2>3, JobMinutes
    <3>4. PICK h \in GapsOf(k, w) : y = OfJob(k, h) /\ h[1] <= t /\ t < h[2]
      BY <3>3
    <3>5. CASE j = k
      <4>1. g # h
        BY <1>1, <3>2, <3>4, <3>5
      <4>2. Apart(g, h) /\ g \in Spans /\ h \in Spans
        BY <3>2, <3>4, <3>5, <4>1, GapsOfAre DEF LeftOf
      <4> QED
        BY <3>2, <3>4, <4>2 DEF Apart, Spans
    <3>6. CASE j # k
      <4>1. j \in InWeek(Ids, w) /\ k \in InWeek(Ids, w) /\ j \notin Shifts /\ k \notin Shifts
        BY CountedRows, DisjointAssumption DEF InWeek
      <4>2. Clear(row[j], row[k])
        BY <3>6, <4>1, CountedRows DEF Orderly, SameClock
      <4>3. row[j].from \in Nat /\ row[j].to \in Nat /\ End(row[j].to) = row[j].to
            /\ row[k].from \in Nat /\ row[k].to \in Nat /\ End(row[k].to) = row[k].to
        BY <4>1, CountedRows
      <4> QED
        BY <3>1, <3>3, <4>2, <4>3 DEF Clear
    <3> QED
      BY <3>5, <3>6
  <2>4. (ShiftPart(w, x) \/ JobPart(w, x)) /\ (ShiftPart(w, y) \/ JobPart(w, y))
    BY SegmentParts
  <2> QED
    BY <1>1, <2>1, <2>2, <2>3, <2>4
<1>2. ASSUME NEW x \in A, NEW y \in A, x # y
      PROVE  x.from + x.minutes <= y.from \/ y.from + y.minutes <= x.from
  <2>1. x.from \in Nat /\ x.minutes \in Nat /\ x.minutes > 0 /\ y.from \in Nat /\ y.minutes \in Nat /\ y.minutes > 0
    BY SegmentParts
  <2> DEFINE b == x.from + x.minutes
             d == y.from + y.minutes
  <2>2. b \in Nat /\ d \in Nat /\ x.from < b /\ y.from < d
    BY <2>1
  <2>3. \A t \in Nat : ~(x.from <= t /\ t < b /\ y.from <= t /\ t < d)
    BY <1>1, <1>2 DEF Has
  <2> HIDE DEF b, d
  <2>4. b <= y.from \/ d <= x.from
    BY <2>1, <2>2, <2>3, NothingShared
  <2> QED
    BY <2>4 DEF b, d
<1> QED
  BY <1>2, SegmentParts DEF Segments

\* The segments are the minutes worked.
LEMMA FilledIsWorked ==
  ASSUME IInv, Orderly, NEW w
  PROVE  Filled(PayableSegments(w)) = Worked(InWeek(Ids, w))
<1> DEFINE A == PayableSegments(w)
<1>1. ASSUME NEW x \in A, NEW t PROVE t \in Cell(x) <=> t \in Nat /\ Has(x, t)
  <2>1. x.from \in Nat /\ x.minutes \in Nat
    BY SegmentParts
  <2> QED
    BY <2>1 DEF Cell, Has
<1>2. ASSUME NEW i \in InWeek(Ids, w), NEW t
      PROVE  t \in row[i].from .. row[i].to - 1 <=> t \in Nat /\ row[i].from <= t /\ t < row[i].to
  <2>1. row[i].from \in Nat /\ row[i].to \in Nat
    BY CountedRows
  <2> QED
    BY <2>1
<1>3. ASSUME NEW x \in A, NEW t \in Nat, Has(x, t)
      PROVE  \E i \in InWeek(Ids, w) : row[i].from <= t /\ t < row[i].to
  <2>1. CASE ShiftPart(w, x)
    BY <1>3, <2>1, ShiftMinutes, CountedRows
  <2>2. CASE JobPart(w, x)
    BY <1>3, <2>2, JobMinutes, CountedRows
  <2> QED
    BY <2>1, <2>2, SegmentParts
<1>4. ASSUME NEW s \in InWeek(Shifts, w), NEW t \in Nat, row[s].from <= t, t < row[s].to
      PROVE  \E x \in A : Has(x, t)
  <2>1. OfShift(s) \in A
    BY SegmentParts
  <2>2. row[s].from \in Nat /\ row[s].to \in Nat /\ row[s].from < row[s].to
    <3>1. s \in InWeek(Ids, w) /\ s \in Shifts
      BY CountedRows DEF InWeek
    <3> QED
      BY <3>1, CountedRows
  <2>3. OfShift(s).from = row[s].from /\ OfShift(s).minutes = row[s].to - row[s].from
    BY <2>2 DEF OfShift, Minutes
  <2>4. Has(OfShift(s), t)
    BY <1>4, <2>2, <2>3 DEF Has
  <2> QED
    BY <2>1, <2>4
<1>5. ASSUME NEW j \in InWeek(Sessions, w), NEW t \in Nat, row[j].from <= t, t < row[j].to
      PROVE  \E x \in A : Has(x, t)
  <2>1. CASE \E s \in InWeek(Shifts, w) : row[s].from <= t /\ t < row[s].to
    BY <1>4, <2>1
  <2>2. CASE ~\E s \in InWeek(Shifts, w) : row[s].from <= t /\ t < row[s].to
    <3>1. ~Covers(Windows(w), t)
      BY <2>2, WindowsAre
    <3>2. Covers(GapsOf(j, w), t)
      BY <1>5, <3>1, GapsOfAre DEF LeftOf
    <3>3. PICK gap \in GapsOf(j, w) : gap[1] <= t /\ t < gap[2]
      BY <3>2 DEF Covers
    <3>4. OfJob(j, gap) \in A /\ gap[1] \in Nat /\ gap[2] \in Nat
      BY SegmentParts, GapsOfAre DEF LeftOf, Spans
    <3>5. OfJob(j, gap).from = gap[1] /\ OfJob(j, gap).minutes = gap[2] - gap[1]
      BY DEF OfJob
    <3> QED
      BY <3>3, <3>4, <3>5 DEF Has
  <2> QED
    BY <2>1, <2>2
<1> HIDE DEF A
<1>6. \A t : t \in Filled(A) <=> t \in Nat /\ \E x \in A : Has(x, t)
  BY <1>1 DEF Filled
<1>7. \A t : t \in Worked(InWeek(Ids, w)) <=> t \in Nat /\ \E i \in InWeek(Ids, w) : row[i].from <= t /\ t < row[i].to
  BY <1>2 DEF Worked
<1>8. \A t \in Nat : (\E x \in A : Has(x, t)) <=> \E i \in InWeek(Ids, w) : row[i].from <= t /\ t < row[i].to
  BY <1>3, <1>4, <1>5, CountedRows
<1>9. \A t : t \in Filled(A) <=> t \in Worked(InWeek(Ids, w))
  BY <1>6, <1>7, <1>8
<1> QED
  BY <1>9 DEF A, Filled, Worked

-----------------------------------------------------------------------------
(* The hours of a visit are a number.                                      *)

LEMMA BankedIsNat ==
  ASSUME IInv, Orderly, NEW v
  PROVE  Banked(row, v) \in Nat
<1> DEFINE A == {k \in Sessions : row[k].on = v /\ Counts(row[k])}
           val == [j \in A |-> Minutes(row[j])]
<1>1. IsFiniteSet(A)
  <2>1. A \subseteq {i \in Ids : row[i].used}
    BY DEF Counts, Ids
  <2> QED
    BY <2>1, FS_Subset DEF Orderly
<1>2. \A j \in A : val[j] \in Nat
  <2> SUFFICES ASSUME NEW j \in A PROVE Minutes(row[j]) \in Nat
    OBVIOUS
  <2>1. row[j] \in Rows /\ row[j].used /\ row[j].to # Open
    BY DEF Ids, IInv, RowsOK, Counts
  <2>2. row[j].from \in Nat /\ row[j].to \in Nat
    BY <2>1, Numbers
  <2> QED
    BY <2>2 DEF Minutes
<1>3. Banked(row, v) = Sum(val, A)
  BY DEF Banked, SumFunction, Sum
<1> HIDE DEF val, A
<1>4. \A T \in SUBSET A : AddsUp(val, T)
  BY <1>1, <1>2, SumIs
<1> QED
  BY <1>3, <1>4 DEF AddsUp

LEMMA BankedNext == (IInv /\ Orderly => \A v : Banked(row, v) \in Nat)'
<1>1. IInv /\ Orderly => \A v : Banked(row, v) \in Nat
  BY BankedIsNat
<1> QED
  BY <1>1, PTL

Kinds == labor \in [Visits -> Nat] /\ sweeping \subseteq Ids /\ typed \in 0..MaxTyped

LEMMA NextKinds == IInv /\ Kinds /\ IInv' /\ Orderly' /\ [Next]_vars => Kinds'
<1> SUFFICES ASSUME IInv, Kinds, IInv', Orderly', [Next]_vars PROVE Kinds'
  OBVIOUS
<1>1. \A v : Banked(row', v) \in Nat
  BY BankedNext DEF Banked
<1>2. ASSUME NEW v, Recompute(v) PROVE labor' \in [Visits -> Nat]
  BY <1>1, <1>2 DEF Recompute, Kinds
<1>3. MaxTyped \in Nat /\ typed \in 0..MaxTyped
  BY TimeAssumption DEF Kinds
<1>4. CASE UNCHANGED vars
  BY <1>4 DEF vars, Kinds
<1>5. CASE Tick \/ EndShift \/ SweepWrite
  BY <1>5 DEF Tick, EndShift, SweepWrite, Kinds
<1>6. CASE SweepRead
  BY <1>6 DEF SweepRead, Kinds, Running
<1>7. ASSUME NEW i \in Shifts, StartShift(i) PROVE Kinds'
  BY <1>7 DEF StartShift, Kinds
<1>8. ASSUME NEW i \in Shifts, NEW j \in Sessions, NEW v \in Visits, Arrive(v, i, j) PROVE Kinds'
  BY <1>8 DEF Arrive, Kinds
<1>9. ASSUME NEW v \in Visits, EndJob(v) PROVE Kinds'
  BY <1>2, <1>9 DEF EndJob, Kinds
<1>10. ASSUME NEW i \in Ids, Delete(i) PROVE Kinds'
  BY <1>2, <1>3, <1>10 DEF Delete, Corrected, Kinds
<1>11. ASSUME NEW i \in Ids, Typed(i) PROVE labor' \in [Visits -> Nat] /\ sweeping' = sweeping
  BY <1>2, <1>11 DEF Typed, Kinds
<1>12. ASSUME NEW i \in Ids, NEW at \in 0..now, Confirm(i, at) PROVE Kinds'
  BY <1>11, <1>12 DEF Confirm, Kinds
<1>13. ASSUME NEW i \in Ids, NEW from \in 0..now, NEW to \in {Open} \cup 0..now, Edit(i, from, to) PROVE Kinds'
  BY <1>3, <1>11, <1>13 DEF Edit, Corrected, Kinds
<1>14. ASSUME NEW i \in Ids, NEW from \in 0..now, NEW to \in {Open} \cup 0..now,
              NEW v \in Visits \cup {None}, Create(i, v, from, to) PROVE Kinds'
  BY <1>3, <1>11, <1>14 DEF Create, Corrected, Kinds
<1> QED
  BY <1>4, <1>5, <1>6, <1>7, <1>8, <1>9, <1>10, <1>12, <1>13, <1>14 DEF Next

LEMMA InvariantHolds == Spec => [](IInv /\ Orderly /\ Kinds)
<1>1. Init => IInv /\ Orderly /\ Kinds
  <2>1. Init => Kinds
    BY TimeAssumption DEF Init, Kinds
  <2> QED
    BY <2>1, InitIInv, InitOrderly
<1>2. IInv /\ Orderly /\ Kinds /\ [Next]_vars => (IInv /\ Orderly /\ Kinds)'
  BY NextIInv, NextOrderly, NextKinds
<1> QED
  BY <1>1, <1>2, PTL DEF Spec

-----------------------------------------------------------------------------
(* Theorems.                                                               *)

\* Every row is well formed: no closed row ends before it starts, and a shift
\* is never on a visit, through stamps, sweeps, answers, corrections and
\* deletions.
THEOREM RowsCorrect == Spec => []RowsOK
<1>1. IInv => RowsOK
  BY DEF IInv
<1> QED BY <1>1, InitIInv, NextIInv, PTL DEF Spec

\* Each of a technician's two clocks runs once, for any number of rows: what
\* arriving elsewhere stops is all there is to stop.
THEOREM ClocksRunOnce == Spec => []OneAtATime
<1>1. IInv => OneAtATime
  BY DEF IInv
<1> QED BY <1>1, InitIInv, NextIInv, PTL DEF Spec

\* The rows and the counters are what the code keeps in them; in particular a
\* visit's labor hours stay a number however often they are summed again.
THEOREM TypeCorrect == Spec => []TypeOK
<1>1. IInv /\ Orderly /\ Kinds => TypeOK
  BY DEF IInv, Kinds, TypeOK
<1> QED
  BY <1>1, InvariantHolds, PTL

LEMMA WeekPaid ==
  ASSUME IInv, Orderly, NEW w
  PROVE  Paid(w) = Cardinality(Worked(InWeek(Ids, w)))
<1> DEFINE A == PayableSegments(w)
           val == [s \in A |-> s.minutes]
           cell == [s \in A |-> Cell(s)]
<1>1. Segments(A) /\ Filled(A) = Worked(InWeek(Ids, w))
  BY SegmentsOf, FilledIsWorked
<1>2. Paid(w) = Sum(val, A)
  BY DEF Paid, SumFunction, Sum
<1> HIDE DEF A
<1>3. ASSUME NEW s \in A PROVE IsFiniteSet(cell[s]) /\ val[s] = Cardinality(cell[s])
  <2>1. s.from \in Nat /\ s.minutes \in Nat /\ s.minutes > 0
    BY <1>1 DEF Segments
  <2>2. /\ IsFiniteSet(s.from .. (s.from + s.minutes - 1))
        /\ Cardinality(s.from .. (s.from + s.minutes - 1))
             = IF s.from > s.from + s.minutes - 1 THEN 0 ELSE (s.from + s.minutes - 1) - s.from + 1
    <3>1. s.from \in Int /\ s.from + s.minutes - 1 \in Int
      BY <2>1
    <3> QED
      BY <3>1, CellSize
  <2>3. cell[s] = s.from .. (s.from + s.minutes - 1) /\ val[s] = s.minutes
    BY DEF Cell
  <2> HIDE DEF cell, val
  <2> QED
    BY <2>1, <2>2, <2>3
<1>4. ASSUME NEW s \in A, NEW t \in A, s # t PROVE cell[s] \cap cell[t] = {}
  <2>1. s.from \in Nat /\ s.minutes \in Nat /\ t.from \in Nat /\ t.minutes \in Nat
        /\ (s.from + s.minutes <= t.from \/ t.from + t.minutes <= s.from)
    BY <1>1, <1>4 DEF Segments
  <2> QED
    BY <2>1 DEF Cell
<1>5. AllOf(cell, A) = Filled(A)
  BY DEF Filled, AllOf
<1>6. IsFiniteSet(A) /\ A \in SUBSET A
  BY <1>1 DEF Segments
<1> HIDE DEF val, cell
<1>7. Sum(val, A) = Cardinality(AllOf(cell, A))
  <2>1. \A T \in SUBSET A : IsFiniteSet(AllOf(cell, T)) /\ Sum(val, T) = Cardinality(AllOf(cell, T))
    <3>1. \A s \in A : IsFiniteSet(cell[s]) /\ val[s] = Cardinality(cell[s])
      BY <1>3
    <3>2. \A s, t \in A : s # t => cell[s] \cap cell[t] = {}
      BY <1>4
    <3> QED
      BY <1>6, <3>1, <3>2, SumOfSizes
  <2> QED
    BY <1>6, <2>1
<1> QED
  BY <1>1, <1>2, <1>5, <1>7

\* A week pays every minute counted in it once, for any number of shifts and
\* job sessions, however they overlap: what the job clock adds to the shifts is
\* exactly the time no shift covers.
THEOREM WeeksPaidOnce == Spec => []PaidOnce
<1>1. IInv /\ Orderly => PaidOnce
  BY WeekPaid DEF PaidOnce
<1> QED
  BY <1>1, InvariantHolds, PTL

LEMMA WeekInOrder ==
  ASSUME IInv, Orderly, NEW w, NEW q \in AttributeWorkweek(w).split
  PROVE  LET worked == Worked(InWeek(Ids, w))
             late == {t \in worked : Cardinality({u \in worked : u < t}) >= Regular}
         IN q.overtime = Cardinality({t \in late : q.from <= t /\ t < q.from + q.regular + q.overtime})
<1> DEFINE A == PayableSegments(w)
           worked == Worked(InWeek(Ids, w))
           late == {t \in worked : Cardinality({u \in worked : u < t}) >= Regular}
<1>1. Segments(A) /\ worked = Filled(A)
  BY SegmentsOf, FilledIsWorked
<1>2. AttributeWorkweek(w) = Attributed(A)
  BY DEF AttributeWorkweek, Attributed, Nothing
<1> HIDE DEF A, worked
<1>3. PICK s \in A : q.from = s.from /\ q.regular + q.overtime = s.minutes /\ q.overtime = Cardinality(Late(A, s))
  BY <1>1, <1>2, WalkedToEnd DEF WalkedTo
<1>4. q.from \in Nat /\ q.regular \in Nat /\ q.overtime \in Nat
  <2>1. WalksUp(A, A)
    BY <1>1, WalkedIs
  <2>2. q \in Splits(A)
    BY <1>2, <2>1 DEF WalksUp, Sums
  <2> QED
    BY <2>2 DEF Splits
<1>5. \A t : t \in worked => t \in Int
  <2> SUFFICES ASSUME NEW r \in A, NEW t \in Cell(r) PROVE t \in Int
    BY <1>1 DEF Filled
  <2> QED
    BY DEF Cell
<1>6. \A t : t \in Cell(s) <=> t \in worked /\ q.from <= t /\ t < q.from + q.regular + q.overtime
  <2>1. \A t \in Cell(s) : t \in worked
    BY <1>1 DEF Filled
  <2>2. s.from \in Nat /\ s.minutes \in Nat /\ s.from = q.from /\ s.minutes = q.regular + q.overtime
    BY <1>1, <1>3 DEF Segments
  <2>3. \A t \in Int : t \in Cell(s) <=> q.from <= t /\ t < q.from + q.regular + q.overtime
    BY <1>4, <2>2 DEF Cell
  <2>4. \A t \in Cell(s) : t \in Int
    BY DEF Cell
  <2> QED
    BY <1>5, <2>1, <2>3, <2>4
<1>7. \A t : Before(A, t) = {u \in worked : u < t}
  BY <1>1 DEF Before
<1>8. Late(A, s) = {t \in late : q.from <= t /\ t < q.from + q.regular + q.overtime}
  BY <1>6, <1>7 DEF Late
<1> QED
  BY <1>3, <1>8 DEF worked

\* Overtime is the minutes worked once the regular hours of the week are full,
\* and each segment carries its own, for any number of segments: the order the
\* rows were worked in decides, not the order they are kept in.
THEOREM OvertimeGoesLast == Spec => []OvertimeInOrder
<1>1. IInv /\ Orderly => OvertimeInOrder
  BY WeekInOrder DEF OvertimeInOrder
<1> QED
  BY <1>1, InvariantHolds, PTL
=============================================================================
