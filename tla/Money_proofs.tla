---------------------------- MODULE Money_proofs ----------------------------
(***************************************************************************)
(* The money that comes in: one card payment with its refunds              *)
(* (CardRefunds), and the rails of one invoice with its financing fee      *)
(* (InvoiceMoney).                                                         *)
(*                                                                         *)
(* CardRefunds holds for any number of refunds of any amounts, any number  *)
(* of deliveries served at one time, and every order and repetition of the *)
(* events: first what a sum of refunds is; then the receipt; then the      *)
(* refunded total.                                                         *)
(*                                                                         *)
(* InvoiceMoney holds for any number of fees, payments, revisions and      *)
(* requests served at one time.  Nothing is assumed of the sums the        *)
(* handlers read: what they read may be stale, and the proofs show that    *)
(* the second look behind the row lock is enough.                          *)
(***************************************************************************)
EXTENDS CardRefunds, InvoiceMoney, FiniteSetTheorems, TLAPS

-----------------------------------------------------------------------------
(* Sums.  SumOf folds over a set by a function on its subsets; such a      *)
(* function exists and is unique, which is shown from the least subset     *)
(* where it would not be.                                                  *)

First(s) == CHOOSE x \in s : TRUE
SumBy(val, A) == MapThenSumSet(LAMBDA x : val[x], A)
Plus(val, it, s) == IF s = {} THEN 0 ELSE val[First(s)] + it[s \ {First(s)}]
Solves(val, it, A) == it = [s \in SUBSET A |-> Plus(val, it, s)]

LEMMA SumBySolves == \A val, A : SumBy(val, A) = (CHOOSE it : Solves(val, it, A))[A]
BY DEF SumBy, MapThenSumSet, MapThenFoldSet, Solves, Plus, First

\* A nonempty collection of finite sets has a least one.
LEMMA LeastSubset ==
  ASSUME NEW A, IsFiniteSet(A), NEW F \in SUBSET (SUBSET A), F # {}
  PROVE  \E T \in F : \A U \in F : U \subseteq T => U = T
<1>1. F \subseteq FiniteSubsetsOf(A)
  BY FS_Subset DEF FiniteSubsetsOf
<1>2. \E T \in F : \A U \in F : <<U, T>> \notin StrictSubsetOrdering(A)
  BY <1>1, FS_StrictSubsetOrderingWellFounded, WFMin
<1> QED
  BY <1>2 DEF StrictSubsetOrdering

LEMMA SolutionsAgree ==
  ASSUME NEW val, NEW A, IsFiniteSet(A), NEW B, NEW g, NEW h,
         Solves(val, g, A), Solves(val, h, B), NEW s \in SUBSET (A \cap B)
  PROVE  g[s] = h[s]
<1> DEFINE F == {t \in SUBSET (A \cap B) : g[t] # h[t]}
<1> SUFFICES ASSUME F # {} PROVE FALSE
  OBVIOUS
<1>1. PICK T \in F : \A U \in F : U \subseteq T => U = T
  <2>1. F \in SUBSET (SUBSET A)
    OBVIOUS
  <2> HIDE DEF F
  <2> QED
    BY <2>1, LeastSubset
<1>2. g[T] = Plus(val, g, T) /\ h[T] = Plus(val, h, T)
  BY <1>1 DEF Solves
<1>3. T # {}
  BY <1>1, <1>2 DEF Plus
<1>4. First(T) \in T
  BY <1>3 DEF First
<1>5. g[T \ {First(T)}] = h[T \ {First(T)}]
  BY <1>1, <1>4
<1> QED
  BY <1>1, <1>2, <1>5 DEF Plus

LEMMA SolutionExists ==
  ASSUME NEW val, NEW A, IsFiniteSet(A)
  PROVE  \E it : Solves(val, it, A)
<1> DEFINE F == {T \in SUBSET A : ~\E it : Solves(val, it, T)}
<1> SUFFICES ASSUME F # {} PROVE FALSE
  OBVIOUS
<1>1. PICK T \in F : \A U \in F : U \subseteq T => U = T
  <2>1. F \in SUBSET (SUBSET A)
    OBVIOUS
  <2> HIDE DEF F
  <2> QED
    BY <2>1, LeastSubset
<1> DEFINE G(u) == CHOOSE it : Solves(val, it, u)
<1>2. \A u \in SUBSET T : u # T => Solves(val, G(u), u)
  BY <1>1
<1> DEFINE h == [s \in SUBSET T |->
                   IF s = {} THEN 0 ELSE val[First(s)] + G(s \ {First(s)})[s \ {First(s)}]]
<1>3. ASSUME NEW s \in SUBSET T, s # {}
      PROVE  h[s \ {First(s)}] = G(s \ {First(s)})[s \ {First(s)}]
  <2> DEFINE u == s \ {First(s)}
  <2>1. First(s) \in s
    BY <1>3 DEF First
  <2>2. u \in SUBSET T /\ u # T
    BY <2>1
  <2>3. Solves(val, G(u), u)
    BY <1>2, <2>2
  <2>4. G(u)[u] = Plus(val, G(u), u)
    BY <2>3 DEF Solves
  <2>5. CASE u = {}
    BY <2>2, <2>4, <2>5 DEF Plus
  <2>6. CASE u # {}
    <3> DEFINE v == u \ {First(u)}
    <3>1. First(u) \in u
      BY <2>6 DEF First
    <3>2. v \in SUBSET u /\ v \in SUBSET T /\ v # T
      BY <2>2, <3>1
    <3>3. Solves(val, G(v), v)
      BY <1>2, <3>2
    <3>4. G(u)[v] = G(v)[v]
      <4>1. v \in SUBSET (u \cap v) /\ IsFiniteSet(u)
        BY <1>1, <2>2, <3>2, FS_Subset
      <4> HIDE DEF G, v, u
      <4> QED
        BY <2>3, <3>3, <4>1, SolutionsAgree
    <3>5. h[u] = val[First(u)] + G(v)[v]
      BY <2>2, <2>6
    <3>6. G(u)[u] = val[First(u)] + G(u)[v]
      BY <2>4, <2>6 DEF Plus
    <3> QED
      BY <3>4, <3>5, <3>6
  <2> QED
    BY <2>5, <2>6
<1>4. ASSUME NEW s \in SUBSET T PROVE h[s] = Plus(val, h, s)
  <2>1. CASE s = {}
    BY <2>1 DEF Plus
  <2>2. CASE s # {}
    <3>1. h[s] = val[First(s)] + G(s \ {First(s)})[s \ {First(s)}]
      BY <2>2
    <3>2. h[s \ {First(s)}] = G(s \ {First(s)})[s \ {First(s)}]
      BY <1>3, <2>2
    <3> HIDE DEF h, G
    <3> QED
      BY <2>2, <3>1, <3>2 DEF Plus
  <2> QED
    BY <2>1, <2>2
<1>5. h = [s \in SUBSET T |-> h[s]]
  OBVIOUS
<1>6. h = [s \in SUBSET T |-> Plus(val, h, s)]
  <2> HIDE DEF h
  <2> QED
    BY <1>4, <1>5
<1> QED
  BY <1>1, <1>6 DEF Solves

\* The sum of a set is that of one element and that of the rest.
LEMMA SumByFirst ==
  ASSUME NEW val, NEW A, IsFiniteSet(A), A # {}
  PROVE  First(A) \in A /\ SumBy(val, A) = val[First(A)] + SumBy(val, A \ {First(A)})
<1> DEFINE Sol(u) == CHOOSE it : Solves(val, it, u)
<1>1. \A u \in SUBSET A : Solves(val, Sol(u), u) /\ SumBy(val, u) = Sol(u)[u]
  BY SolutionExists, SumBySolves, FS_Subset
<1> HIDE DEF Sol
<1> DEFINE v == A \ {First(A)}
<1>2. First(A) \in A
  BY DEF First
<1>3. v \in SUBSET (A \cap v) /\ v \in SUBSET A
  OBVIOUS
<1> HIDE DEF v
<1>4. Sol(A)[v] = Sol(v)[v]
  <2>1. Solves(val, Sol(A), A) /\ Solves(val, Sol(v), v)
    BY <1>1, <1>3
  <2> QED
    BY <1>3, <2>1, SolutionsAgree
<1>5. Sol(A)[A] = Plus(val, Sol(A), A)
  BY <1>1 DEF Solves
<1>6. Sol(A)[A] = val[First(A)] + Sol(A)[v]
  BY <1>5 DEF Plus, v
<1>7. SumBy(val, A) = val[First(A)] + SumBy(val, v)
  BY <1>1, <1>3, <1>4, <1>6
<1> QED
  BY <1>2, <1>7 DEF v

LEMMA SumByEmpty == \A val : SumBy(val, {}) = 0
<1> TAKE val
<1>1. PICK it : it = CHOOSE g : Solves(val, g, {})
  OBVIOUS
<1>2. Solves(val, it, {}) /\ SumBy(val, {}) = it[{}]
  BY <1>1, SolutionExists, SumBySolves, FS_EmptySet
<1> QED
  BY <1>2 DEF Solves, Plus

LEMMA SumByNat ==
  ASSUME NEW val, NEW A, IsFiniteSet(A), \A x \in A : val[x] \in Nat
  PROVE  SumBy(val, A) \in Nat
<1> DEFINE F == {T \in SUBSET A : SumBy(val, T) \notin Nat}
<1> SUFFICES ASSUME F # {} PROVE FALSE
  OBVIOUS
<1>1. PICK T \in F : \A U \in F : U \subseteq T => U = T
  <2>1. F \in SUBSET (SUBSET A)
    OBVIOUS
  <2> HIDE DEF F
  <2> QED
    BY <2>1, LeastSubset
<1>2. T # {} /\ IsFiniteSet(T)
  <2>1. SumBy(val, {}) \in Nat
    BY SumByEmpty
  <2>2. SumBy(val, T) \notin Nat /\ T \in SUBSET A
    BY <1>1
  <2> QED
    BY <2>1, <2>2, FS_Subset
<1>3. First(T) \in T /\ SumBy(val, T) = val[First(T)] + SumBy(val, T \ {First(T)})
  BY <1>2, SumByFirst
<1>4. SumBy(val, T \ {First(T)}) \in Nat
  BY <1>1, <1>3
<1> QED
  BY <1>1, <1>3, <1>4

\* The same of the refunds of a charge, by their cents.
LEMMA FiniteParts == \A A \in SUBSET Refunds : IsFiniteSet(A)
BY FS_Subset, RefundsAssumption

LEMMA SumOfIs == \A A : SumOf(A) = SumBy(Cents, A)
BY DEF SumOf, SumBy

LEMMA SumFirst ==
  ASSUME NEW A \in SUBSET Refunds, A # {}
  PROVE  First(A) \in A /\ SumOf(A) = Cents[First(A)] + SumOf(A \ {First(A)})
BY FiniteParts, SumOfIs, SumByFirst

LEMMA SumEmpty == SumOf({}) = 0
BY SumOfIs, SumByEmpty

LEMMA SumNat == \A A \in SUBSET Refunds : SumOf(A) \in Nat
<1> TAKE A \in SUBSET Refunds
<1>1. IsFiniteSet(A) /\ \A x \in A : Cents[x] \in Nat
  BY FiniteParts, AmountAssumption
<1> QED
  BY <1>1, SumOfIs, SumByNat

\* The order the elements are taken in does not matter.
LEMMA SumAdd ==
  ASSUME NEW A \in SUBSET Refunds, NEW a \in A
  PROVE  SumOf(A) = Cents[a] + SumOf(A \ {a})
<1> DEFINE F == {T \in SUBSET Refunds : \E y \in T : SumOf(T) # Cents[y] + SumOf(T \ {y})}
<1> SUFFICES ASSUME F # {} PROVE FALSE
  OBVIOUS
<1>1. PICK T \in F : \A U \in F : U \subseteq T => U = T
  <2>1. F \in SUBSET (SUBSET Refunds)
    OBVIOUS
  <2> HIDE DEF F
  <2> QED
    BY <2>1, LeastSubset, RefundsAssumption
<1>2. PICK y \in T : SumOf(T) # Cents[y] + SumOf(T \ {y})
  BY <1>1
<1>3. PICK c \in T : SumOf(T) = Cents[c] + SumOf(T \ {c})
  <2>1. T \in SUBSET Refunds /\ T # {}
    BY <1>1, <1>2
  <2> QED
    BY <2>1, SumFirst
<1>4. c # y
  BY <1>2, <1>3
<1>5. T \ {c} \notin F /\ T \ {y} \notin F
  BY <1>1, <1>2, <1>3
<1>6. SumOf(T \ {c}) = Cents[y] + SumOf((T \ {c}) \ {y})
  BY <1>1, <1>2, <1>4, <1>5
<1>7. SumOf(T \ {y}) = Cents[c] + SumOf((T \ {y}) \ {c})
  BY <1>1, <1>3, <1>4, <1>5
<1>8. (T \ {y}) \ {c} = (T \ {c}) \ {y}
  OBVIOUS
<1>9. Cents[y] \in Nat /\ Cents[c] \in Nat /\ SumOf((T \ {c}) \ {y}) \in Nat
  BY <1>1, SumNat, AmountAssumption
<1> QED
  BY <1>2, <1>3, <1>6, <1>7, <1>8, <1>9

\* Sets that do not meet add up.
LEMMA SumUnion ==
  ASSUME NEW P \in SUBSET Refunds, NEW Q \in SUBSET Refunds, P \cap Q = {}
  PROVE  SumOf(P \cup Q) = SumOf(P) + SumOf(Q)
<1> DEFINE F == {T \in SUBSET P : SumOf(T \cup Q) # SumOf(T) + SumOf(Q)}
<1> SUFFICES ASSUME F # {} PROVE FALSE
  OBVIOUS
<1>1. PICK T \in F : \A U \in F : U \subseteq T => U = T
  <2>1. F \in SUBSET (SUBSET Refunds)
    OBVIOUS
  <2> HIDE DEF F
  <2> QED
    BY <2>1, LeastSubset, RefundsAssumption
<1>2. T # {}
  <2>1. SumOf({}) + SumOf(Q) = SumOf({} \cup Q)
    BY SumEmpty, SumNat
  <2> QED
    BY <1>1, <2>1
<1>3. PICK y \in T : TRUE
  BY <1>2
<1>4. SumOf((T \ {y}) \cup Q) = SumOf(T \ {y}) + SumOf(Q)
  BY <1>1, <1>3
<1>5. SumOf(T) = Cents[y] + SumOf(T \ {y})
  BY <1>1, <1>3, SumAdd
<1>6. SumOf(T \cup Q) = Cents[y] + SumOf((T \ {y}) \cup Q)
  <2> DEFINE V == T \cup Q
  <2>1. V \ {y} = (T \ {y}) \cup Q /\ V \in SUBSET Refunds /\ y \in V
    BY <1>1, <1>3
  <2> HIDE DEF V
  <2>2. SumOf(V) = Cents[y] + SumOf(V \ {y})
    BY <2>1, SumAdd
  <2> QED
    BY <2>1, <2>2 DEF V
<1>7. Cents[y] \in Nat /\ T \ {y} \in SUBSET Refunds /\ SumOf(T \ {y}) \in Nat /\ SumOf(Q) \in Nat
  BY <1>1, <1>3, SumNat, AmountAssumption
<1> QED
  BY <1>1, <1>4, <1>5, <1>6, <1>7

LEMMA SumSubset ==
  ASSUME NEW P \in SUBSET Refunds, NEW Q \in SUBSET P
  PROVE  SumOf(P) = SumOf(Q) + SumOf(P \ Q) /\ SumOf(Q) <= SumOf(P)
<1> DEFINE R == P \ Q
<1>1. Q \cup R = P /\ Q \cap R = {} /\ Q \in SUBSET Refunds /\ R \in SUBSET Refunds
  OBVIOUS
<1> HIDE DEF R
<1>2. SumOf(P) = SumOf(Q) + SumOf(R)
  BY <1>1, SumUnion
<1>3. SumOf(Q) \in Nat /\ SumOf(R) \in Nat
  BY <1>1, SumNat
<1> QED
  BY <1>2, <1>3 DEF R

-----------------------------------------------------------------------------
(* Every event tells of a state Stripe has been in, and every delivery     *)
(* read what its event says, or what Stripe listed.                        *)

States == [Refunds -> RefundStates]
Made(f) == {r \in Refunds : f[r] # "none"}

EventOK(e) ==
  /\ e.kind \in {"unpaid", "declined", "completed", "charge", "refund"}
  /\ e.snap \in States /\ e.at \in 0..MaxTime
  /\ Made(e.snap) \subseteq Made(stripe)
  /\ e.kind = "declined" => session = "declined"
  /\ e.kind = "completed" => session = "paid"
  /\ e.kind = "refund" => e.refund \in Refunds /\ e.snap[e.refund] # "none"

HookOK(h) ==
  /\ h.event \in sent /\ h.slot \in 1..setting.hooks
  /\ h.list \in States /\ Made(h.list) \subseteq Made(stripe)
  /\ h.event.kind = "refund" =>
       h.list = [Nothing EXCEPT ![h.event.refund] = h.event.snap[h.event.refund]]
  /\ h.event.kind = "charge" /\ setting.listings = {"unlisted"} => h.list = Nothing
  /\ h.event.kind = "charge" /\ "unlisted" \notin setting.listings =>
       Made(h.event.snap) \subseteq Made(h.list)

Base ==
  /\ TypeOK
  /\ \A e \in sent : EventOK(e)
  /\ \A h \in hooks : HookOK(h)
  /\ \A g, h \in hooks : g.slot = h.slot => g = h
  /\ Made(named) \subseteq Made(stripe)
  /\ refunded = Total(named, standIn)

LEMMA NothingType == Nothing \in States /\ Made(Nothing) = {}
BY DEF Nothing, States, RefundStates, Made

LEMMA OnChargeNat == \A f : OnCharge(f) \in Nat
BY SumNat DEF OnCharge, In

LEMMA TotalNat ==
  ASSUME NEW f, NEW rest, rest.cents \in Nat
  PROVE  Total(f, rest) \in Nat
<1>1. In(f, {"succeeded"}) \in SUBSET Refunds
  BY DEF In
<1> QED
  BY <1>1, SumNat DEF Total

LEMMA InitBase == Init => Base
<1> SUFFICES ASSUME Init PROVE Base
  OBVIOUS
<1>1. In(Nothing, {"succeeded"}) = {}
  BY DEF In, Nothing
<1>2. refunded = Total(named, standIn)
  BY <1>1, SumEmpty DEF Init, Total
<1> QED
  BY <1>2, NothingType, BoundAssumption DEF Init, Base, TypeOK, States, RefundStates

\* A step of Stripe: what it has told stays true, and the app has not moved.
LEMMA StripeBase ==
  ASSUME Base, UNCHANGED <<setting, status, ledger, hooks, applied, dropped, receipts>>,
         stripe' \in States, Made(stripe) \subseteq Made(stripe'), now' \in 0..MaxTime,
         session' \in {"open", "processing", "paid", "declined"},
         session \in {"paid", "declined"} => session' = session,
         sent \subseteq sent', \A e \in sent' \ sent : EventOK(e)'
  PROVE  Base'
<1> USE DEF Base, States
<1>1. ASSUME NEW e \in sent PROVE EventOK(e)'
  BY <1>1 DEF EventOK
<1>2. ASSUME NEW h \in hooks PROVE HookOK(h)'
  BY <1>2 DEF HookOK
<1>3. TypeOK'
  BY <1>1 DEF TypeOK, ledger, EventOK
<1>4. Made(named)' \subseteq Made(stripe)' /\ refunded' = Total(named', standIn')
  BY DEF ledger, Made
<1> QED
  BY <1>1, <1>2, <1>3, <1>4

LEMMA SessionBase ==
  ASSUME Base, PayLater \/ Decline \/ Pay
  PROVE  Base'
<1> USE DEF Base
<1>1. PICK kind \in {"unpaid", "declined", "completed"} :
        /\ sent' = sent \cup {Event(kind, NoRefund, Nothing, now)}
        /\ kind = "declined" => session' = "declined"
        /\ kind = "completed" => session' = "paid"
  BY DEF PayLater, Decline, Pay
<1>2. /\ UNCHANGED <<stripe, now, setting, status, ledger, hooks, applied, dropped, receipts>>
      /\ session' \in {"open", "processing", "paid", "declined"}
      /\ session \in {"paid", "declined"} => session' = session
  BY DEF PayLater, Decline, Pay
<1>3. EventOK(Event(kind, NoRefund, Nothing, now))'
  BY <1>1, <1>2, NothingType DEF EventOK, Event, TypeOK
<1> QED
  BY <1>1, <1>2, <1>3, StripeBase DEF TypeOK, States

LEMMA RefundBase ==
  ASSUME Base, NEW r \in Refunds, MakeRefund(r) \/ MoveRefund(r)
  PROVE  Base'
<1> USE DEF Base
<1>1. PICK s \in {"pending", "succeeded", "failed"}, t \in Clock, next \in States :
        /\ next = [stripe EXCEPT ![r] = s] /\ stripe' = next /\ now' = t
        /\ sent \subseteq sent'
        /\ sent' \subseteq sent \cup {Event("charge", NoRefund, next, t), Event("refund", r, next, t)}
  BY DEF MakeRefund, MoveRefund, TypeOK, States, RefundStates
<1>2. UNCHANGED <<session, setting, status, ledger, hooks, applied, dropped, receipts>>
  BY DEF MakeRefund, MoveRefund
<1>3. next \in States /\ next[r] = s /\ s # "none" /\ Made(stripe) \subseteq Made(next)
  BY <1>1 DEF TypeOK, States, RefundStates, Made
<1>4. t \in 0..MaxTime
  BY BoundAssumption DEF Clock, TypeOK
<1>5. EventOK(Event("charge", NoRefund, next, t))' /\ EventOK(Event("refund", r, next, t))'
  BY <1>1, <1>3, <1>4 DEF EventOK, Event, Made
<1> QED
  BY <1>1, <1>2, <1>3, <1>4, <1>5, StripeBase DEF TypeOK

\* A delivery begins: it takes a free slot.
LEMMA BeginBase ==
  ASSUME Base, NEW event \in sent, NEW list, Begin(event, list),
         UNCHANGED <<stripeVars, status, ledger, applied, dropped, receipts>>,
         list \in States, Made(list) \subseteq Made(stripe),
         event.kind = "refund" => list = [Nothing EXCEPT ![event.refund] = event.snap[event.refund]],
         event.kind = "charge" /\ setting.listings = {"unlisted"} => list = Nothing,
         event.kind = "charge" /\ "unlisted" \notin setting.listings => Made(event.snap) \subseteq Made(list)
  PROVE  Base'
<1> USE DEF Base
<1>1. PICK slot \in 1..setting.hooks :
        /\ \A g \in hooks : g.slot # slot
        /\ hooks' = hooks \cup {[slot |-> slot, event |-> event, list |-> list, saw |-> status]}
  BY DEF Begin, Busy
<1> DEFINE h == [slot |-> slot, event |-> event, list |-> list, saw |-> status]
<1>2. HookOK(h)'
  BY DEF HookOK, stripeVars
<1>3. \A g \in hooks : HookOK(g)'
  BY DEF HookOK, stripeVars
<1>4. \A g, k \in hooks' : g.slot = k.slot => g = k
  BY <1>1
<1>5. TypeOK' /\ \A e \in sent' : EventOK(e)'
  BY DEF TypeOK, EventOK, stripeVars, ledger
<1> QED
  BY <1>1, <1>2, <1>3, <1>4, <1>5 DEF stripeVars, ledger

LEMMA ReadBase ==
  ASSUME Base, NEW event \in sent, CompletedRead(event) \/ RefundRead(event)
  PROVE  Base'
<1> USE DEF Base
<1>1. EventOK(event)
  OBVIOUS
<1>2. CASE CompletedRead(event)
  BY <1>2, NothingType, BeginBase DEF CompletedRead
<1>3. CASE RefundRead(event)
  <2>1. PICK list \in Named(event) : Begin(event, list)
    BY <1>3 DEF RefundRead
  <2>2. UNCHANGED <<stripeVars, status, ledger, applied, dropped, receipts>>
    BY <1>3 DEF RefundRead
  <2>3. CASE event.kind = "refund"
    <3>1. list = [Nothing EXCEPT ![event.refund] = event.snap[event.refund]]
      BY <2>1, <2>3 DEF Named
    <3>2. list \in States /\ Made(list) \subseteq Made(stripe)
      BY <1>1, <2>3, <3>1, NothingType DEF EventOK, States, Made, Nothing
    <3> QED
      BY <2>1, <2>2, <2>3, <3>1, <3>2, BeginBase
  <2>4. CASE event.kind = "charge"
    <3>1. /\ list \in {event.snap, stripe, Nothing}
          /\ setting.listings = {"unlisted"} => list = Nothing
          /\ "unlisted" \notin setting.listings => list \in {event.snap, stripe}
      BY <2>1, <2>4 DEF Named
    <3>2. list \in States /\ Made(list) \subseteq Made(stripe)
      BY <1>1, <3>1, NothingType DEF EventOK, TypeOK, States
    <3>3. "unlisted" \notin setting.listings => Made(event.snap) \subseteq Made(list)
      BY <1>1, <3>1 DEF EventOK
    <3> QED
      BY <2>1, <2>2, <2>4, <3>1, <3>2, <3>3, BeginBase
  <2> QED
    BY <1>3, <2>3, <2>4 DEF RefundRead
<1> QED
  BY <1>2, <1>3

\* A delivery ends, and whatever it wrote is well formed.
LEMMA EndBase ==
  ASSUME Base, UNCHANGED <<stripeVars, ledger>>, hooks' \subseteq hooks,
         status' \in {"none", "failed", "paid", "refunded"}, receipts' \in Nat,
         applied' \subseteq sent, dropped' \subseteq sent
  PROVE  Base'
<1> USE DEF Base
<1>1. \A g \in hooks : HookOK(g)'
  BY DEF HookOK, stripeVars
<1>2. TypeOK' /\ \A e \in sent' : EventOK(e)'
  BY DEF TypeOK, EventOK, stripeVars, ledger
<1> QED
  BY <1>1, <1>2 DEF stripeVars, ledger

LEMMA AfterType ==
  ASSUME TypeOK, NEW list \in States, Made(named) \subseteq Made(stripe), Made(list) \subseteq Made(stripe)
  PROVE  After(list) \in States /\ Made(After(list)) \subseteq Made(stripe)
         /\ Made(After(list)) = Made(named) \cup Made(list)
BY DEF After, TypeOK, States, Made

LEMMA StandInType ==
  ASSUME TypeOK, NEW event, EventOK(event), NEW list
  PROVE  StandInAfter(event, list) \in [cents : Nat, at : 0..MaxTime]
<1>1. \A c \in Int, t \in 0..MaxTime : Left(c, t) \in [cents : Nat, at : 0..MaxTime]
  BY BoundAssumption DEF Left
<1>2. OnCharge(event.snap) - OnCharge(After(list)) \in Int
  BY OnChargeNat
<1>3. NewlyNamed(list) \in SUBSET Refunds
  BY DEF NewlyNamed
<1>4. standIn.cents - SumOf(NewlyNamed(list)) \in Int
  BY <1>3, SumNat DEF TypeOK
<1> QED
  BY <1>1, <1>2, <1>4 DEF StandInAfter, StandInShrunk, TypeOK, EventOK

LEMMA RefundWriteBase ==
  ASSUME Base, NEW hook \in hooks, RefundWrite(hook)
  PROVE  Base'
<1> USE DEF Base
<1>1. HookOK(hook) /\ EventOK(hook.event)
  BY DEF HookOK
<1>2. named' \in States /\ Made(named') \subseteq Made(stripe)
  BY <1>1, AfterType DEF RefundWrite, HookOK
<1>3. standIn' \in [cents : Nat, at : 0..MaxTime]
  BY <1>1, StandInType DEF RefundWrite
<1>4. refunded' = Total(named', standIn') /\ refunded' \in Nat
  BY <1>3, TotalNat DEF RefundWrite
<1>5. UNCHANGED <<stripe, session, now, sent, setting, dropped, receipts>>
      /\ hooks' \subseteq hooks /\ applied' \subseteq sent
      /\ status' \in {"none", "failed", "paid", "refunded"}
  BY <1>1 DEF RefundWrite, HookOK, stripeVars, TypeOK
<1>6. TypeOK'
  BY <1>2, <1>3, <1>4, <1>5 DEF TypeOK, States
<1>7. (\A e \in sent' : EventOK(e)') /\ \A g \in hooks : HookOK(g)'
  BY <1>5 DEF EventOK, HookOK
<1> QED
  BY <1>2, <1>4, <1>5, <1>6, <1>7

LEMMA StepBase == Base /\ [Next]_vars => Base'
<1> SUFFICES ASSUME Base, [Next]_vars PROVE Base'
  OBVIOUS
<1>1. ASSUME NEW hook \in hooks, CompletedWrite(hook) \/ RefundUnknown(hook) \/ Fail(hook)
      PROVE  Base'
  <2>1. hook.event \in sent
    BY DEF Base, HookOK
  <2> QED
    BY <1>1, <2>1, EndBase DEF CompletedWrite, RefundUnknown, Fail, Base, TypeOK, StatusAfterPaid, ledger
<1>2. ASSUME NEW event \in sent, UnpaidWrite(event) \/ DeclinedWrite(event)
      PROVE  Base'
  BY <1>2, EndBase DEF UnpaidWrite, DeclinedWrite, Base, TypeOK, ledger
<1>3. CASE UNCHANGED vars
  BY <1>3, EndBase DEF vars, Base, TypeOK
<1> QED
  BY <1>1, <1>2, <1>3, SessionBase, RefundBase, ReadBase, RefundWriteBase DEF Next

LEMMA BaseInvariant == Spec => []Base
BY InitBase, StepBase, PTL DEF Spec

\* The variables have their types, the sums among them included.
THEOREM TypeCorrect == Spec => []TypeOK
<1>1. Base => TypeOK
  BY DEF Base
<1> QED
  BY <1>1, BaseInvariant, PTL

-----------------------------------------------------------------------------
(* The receipt, if one delivery is served before the next: what it read of *)
(* the payment's status is still so when it writes, because a paid session *)
(* is never declined.                                                      *)

Served ==
  /\ \A h \in hooks : h.event.kind = "completed" => h.saw = status
  /\ receipts \in 0..1
  /\ receipts = 1 => status \in {"paid", "refunded"} /\ session = "paid"

ReceiptInv == Base /\ (setting.hooks = 1 => Served)

LEMMA OneHook ==
  ASSUME Base, setting.hooks = 1
  PROVE  \A g, h \in hooks : g = h
<1>1. \A h \in hooks : h.slot \in 1..1
  BY DEF Base, HookOK
<1> QED
  BY <1>1 DEF Base

LEMMA ReceiptStep == ReceiptInv /\ [Next]_vars => ReceiptInv'
<1> SUFFICES ASSUME ReceiptInv, [Next]_vars, setting'.hooks = 1 PROVE Served'
  BY StepBase DEF ReceiptInv
<1>s. setting' = setting
  BY DEF Next, PayLater, Decline, Pay, MakeRefund, MoveRefund, CompletedRead, UnpaidWrite,
     DeclinedWrite, RefundRead, CompletedWrite, RefundUnknown, RefundWrite, Fail, stripeVars, vars
<1>0. Base /\ Served /\ \A g, h \in hooks : g = h
  BY <1>s, OneHook DEF ReceiptInv
<1> USE <1>0
<1>1. CASE PayLater \/ Decline \/ Pay
  BY <1>1 DEF PayLater, Decline, Pay, Served
<1>2. ASSUME NEW r \in Refunds, MakeRefund(r) \/ MoveRefund(r) PROVE Served'
  BY <1>2 DEF MakeRefund, MoveRefund, Served
<1>3. ASSUME NEW event \in sent, CompletedRead(event) \/ RefundRead(event) PROVE Served'
  <2>1. PICK slot, list : hooks' = hooks \cup {[slot |-> slot, event |-> event, list |-> list, saw |-> status]}
    BY <1>3 DEF CompletedRead, RefundRead, Begin
  <2>2. UNCHANGED <<status, receipts, session>>
    BY <1>3 DEF CompletedRead, RefundRead, stripeVars
  <2> QED
    BY <2>1, <2>2 DEF Served
<1>4. ASSUME NEW event \in sent, UnpaidWrite(event) PROVE Served'
  BY <1>4 DEF UnpaidWrite, Served, stripeVars
<1>5. ASSUME NEW event \in sent, DeclinedWrite(event) PROVE Served'
  <2>1. session = "declined"
    BY <1>5 DEF DeclinedWrite, Base, EventOK
  <2>2. \A h \in hooks : h.event.kind # "completed"
    BY <2>1 DEF Base, HookOK, EventOK
  <2> QED
    BY <1>5, <2>1, <2>2 DEF DeclinedWrite, Served, stripeVars
<1>6. ASSUME NEW hook \in hooks, CompletedWrite(hook) PROVE Served'
  <2>1. hooks' = {} /\ hook.saw = status /\ session = "paid" /\ session' = session
    BY <1>6 DEF CompletedWrite, Served, Base, HookOK, EventOK, stripeVars
  <2>2. status' \in {"paid", "refunded"}
    BY <1>6, <2>1 DEF CompletedWrite, StatusAfterPaid
  <2>3. receipts' \in 0..1
    BY <1>6, <2>1 DEF CompletedWrite, FirstPaid, Served
  <2> QED
    BY <2>1, <2>2, <2>3 DEF Served
<1>7. ASSUME NEW hook \in hooks, RefundWrite(hook) PROVE Served'
  BY <1>7 DEF RefundWrite, Served, stripeVars
<1>8. ASSUME NEW hook \in hooks, RefundUnknown(hook) \/ Fail(hook) PROVE Served'
  BY <1>8 DEF RefundUnknown, Fail, Served, stripeVars
<1>9. CASE UNCHANGED vars
  BY <1>9 DEF vars, stripeVars, Served
<1> QED
  BY <1>1, <1>2, <1>3, <1>4, <1>5, <1>6, <1>7, <1>8, <1>9 DEF Next

LEMMA ReceiptInvariant == Spec => []ReceiptInv
<1>1. Init => ReceiptInv
  BY InitBase DEF Init, ReceiptInv, Served
<1> QED
  BY <1>1, ReceiptStep, PTL DEF Spec

\* One payment is one receipt, however often Stripe repeats the event and
\* whatever was refunded in between, if one delivery is served before the next.
THEOREM ReceiptOnce == Spec => []OneReceipt
<1>1. ReceiptInv => OneReceipt
  BY DEF ReceiptInv, Served, OneReceipt
<1> QED
  BY <1>1, ReceiptInvariant, PTL

\* A payment refunded in full does not go back to paid while the refund
\* stands, if one delivery is served before the next.
THEOREM RefundNotUndone == Spec => RefundStands
<1>1. ReceiptInv /\ [Next]_vars =>
        [(setting.hooks = 1 /\ status = "refunded" /\ status' = "paid") => refunded' < Paid]_vars
  <2> SUFFICES ASSUME ReceiptInv, [Next]_vars, setting.hooks = 1,
                      status = "refunded", status' = "paid"
               PROVE  refunded' < Paid
    OBVIOUS
  <2>1. PICK hook \in hooks : CompletedWrite(hook) \/ RefundWrite(hook)
    BY DEF Next, PayLater, Decline, Pay, MakeRefund, MoveRefund, CompletedRead, UnpaidWrite,
       DeclinedWrite, RefundRead, RefundUnknown, Fail, vars
  <2>2. ~CompletedWrite(hook)
    BY DEF CompletedWrite, StatusAfterPaid, ReceiptInv, Served
  <2>3. refunded' \in Nat
    BY StepBase DEF ReceiptInv, Base, TypeOK
  <2> QED
    BY <2>1, <2>2, <2>3, AmountAssumption DEF RefundWrite
<1> QED
  BY <1>1, ReceiptInvariant, PTL DEF Spec, RefundStands

-----------------------------------------------------------------------------
(* The refunded total, when Stripe names the refunds of a charge in one    *)
(* way: it never lists them, or it always does.  (Where it does now and    *)
(* then, a charge event whose list failed and one whose list came can pass *)
(* each other, and the total is wrong until the next event.)               *)

OneListing == \A s \in Settings : "unlisted" \notin s.listings \/ s.listings = {"unlisted"}

\* The stand-in is covered: by the rows that have failed, when the refunds
\* are listed, since an event's charge never counts a refund no row names;
\* else by what the rows leave of the refunds Stripe has made.
Covered ==
  /\ "unlisted" \notin setting.listings => standIn.cents <= SumOf(In(named, {"failed"}))
  /\ setting.listings = {"unlisted"} => standIn.cents + OnCharge(named) <= SumOf(Made(stripe))

LEMMA InParts ==
  ASSUME NEW f \in States
  PROVE  /\ SumOf(Made(f)) = OnCharge(f) + SumOf(In(f, {"failed"}))
         /\ OnCharge(f) = SumOf(In(f, {"pending"})) + SumOf(In(f, {"succeeded"}))
         /\ OnCharge(f) \in Nat /\ SumOf(Made(f)) \in Nat /\ SumOf(In(f, {"failed"})) \in Nat
         /\ SumOf(In(f, {"pending"})) \in Nat /\ SumOf(In(f, {"succeeded"})) \in Nat
<1> DEFINE B == In(f, {"pending", "succeeded"})
           X == In(f, {"failed"})
           P == In(f, {"pending"})
           Y == In(f, {"succeeded"})
           M == Made(f)
<1>1. B \in SUBSET Refunds /\ X \in SUBSET Refunds /\ P \in SUBSET Refunds /\ Y \in SUBSET Refunds
      /\ M \in SUBSET Refunds
  BY DEF In, Made
<1>2. M = B \cup X /\ B \cap X = {} /\ B = P \cup Y /\ P \cap Y = {}
  BY DEF In, Made, States, RefundStates
<1>3. OnCharge(f) = SumOf(B)
  BY DEF OnCharge
<1> HIDE DEF B, X, P, Y, M
<1>4. SumOf(M) = SumOf(B) + SumOf(X) /\ SumOf(B) = SumOf(P) + SumOf(Y)
  BY <1>1, <1>2, SumUnion
<1>5. SumOf(M) \in Nat /\ SumOf(B) \in Nat /\ SumOf(X) \in Nat /\ SumOf(P) \in Nat /\ SumOf(Y) \in Nat
  BY <1>1, SumNat
<1> QED
  BY <1>3, <1>4, <1>5 DEF B, X, P, Y, M

LEMMA SumGrows ==
  ASSUME NEW P \in SUBSET Refunds, NEW Q \in SUBSET P
  PROVE  SumOf(Q) <= SumOf(P) /\ SumOf(Q) \in Nat /\ SumOf(P) \in Nat
BY SumSubset, SumNat

\* A refund recorded as failed stays so.
LEMMA FailedStays ==
  ASSUME named \in States, NEW list \in States
  PROVE  In(named, {"failed"}) \subseteq In(After(list), {"failed"})
BY DEF After, In, Rank, States, RefundStates

\* What a delivery records of the charge is no more than before, but for the
\* refunds it names first.
LEMMA ChargeGrows ==
  ASSUME named \in States, NEW list \in States
  PROVE  OnCharge(After(list)) <= OnCharge(named) + SumOf(NewlyNamed(list))
<1> DEFINE B == In(named, {"pending", "succeeded"})
           N == NewlyNamed(list)
           A == In(After(list), {"pending", "succeeded"})
<1>1. B \in SUBSET Refunds /\ N \in SUBSET Refunds /\ B \cap N = {}
  BY DEF In, NewlyNamed
<1>2. A \subseteq B \cup N
  BY DEF In, NewlyNamed, After, Rank, States, RefundStates
<1>3. OnCharge(After(list)) = SumOf(A) /\ OnCharge(named) = SumOf(B)
  BY DEF OnCharge
<1> HIDE DEF A, B, N
<1>4. SumOf(A) <= SumOf(B \cup N) /\ SumOf(B \cup N) = SumOf(B) + SumOf(N)
  BY <1>1, <1>2, SumGrows, SumUnion
<1> QED
  BY <1>3, <1>4 DEF N

LEMMA ListedCovered ==
  ASSUME Base, Covered, "unlisted" \notin setting.listings, NEW hook \in hooks, RefundWrite(hook)
  PROVE  standIn'.cents <= SumOf(In(named', {"failed"}))
<1>1. HookOK(hook) /\ EventOK(hook.event) /\ hook.list \in States /\ named \in States /\ TypeOK
  BY DEF Base, HookOK, TypeOK, States
<1>2. PICK n : n = After(hook.list)
  OBVIOUS
<1>3. named' = n /\ n \in States /\ Made(hook.list) \subseteq Made(n)
  BY <1>1, <1>2, AfterType DEF RefundWrite, Base, HookOK
<1>4. SumOf(In(named, {"failed"})) <= SumOf(In(n, {"failed"})) /\ SumOf(In(n, {"failed"})) \in Nat
  <2>1. In(n, {"failed"}) \in SUBSET Refunds /\ In(named, {"failed"}) \in SUBSET In(n, {"failed"})
    BY <1>1, <1>2, FailedStays DEF In
  <2> QED
    BY <2>1, SumGrows
<1>5. standIn.cents \in Nat /\ standIn.cents <= SumOf(In(named, {"failed"}))
      /\ SumOf(In(named, {"failed"})) \in Nat
  BY <1>1, InParts DEF Covered, TypeOK
<1>6. CASE hook.event.kind = "charge"
  <2> DEFINE e == hook.event
  <2>1. Made(e.snap) \subseteq Made(n) /\ e.snap \in States /\ Made(n) \in SUBSET Refunds
    BY <1>1, <1>3, <1>6 DEF HookOK, EventOK, Made
  <2>2. OnCharge(e.snap) <= SumOf(Made(n))
    <3>1. SumOf(Made(e.snap)) <= SumOf(Made(n))
      BY <2>1, SumGrows
    <3> QED
      BY <1>3, <2>1, <3>1, InParts
  <2>3. OnCharge(e.snap) - OnCharge(n) <= SumOf(In(n, {"failed"}))
    BY <1>3, <2>1, <2>2, InParts
  <2>4. standIn' = standIn \/ standIn' = Left(OnCharge(e.snap) - OnCharge(n), e.at)
    BY <1>2, <1>6 DEF RefundWrite, StandInAfter
  <2> QED
    BY <1>3, <1>4, <1>5, <2>3, <2>4 DEF Left
<1>7. CASE hook.event.kind = "refund"
  <2>1. SumOf(NewlyNamed(hook.list)) \in Nat
    BY SumNat DEF NewlyNamed
  <2>2. standIn' = standIn \/ standIn' = Left(standIn.cents - SumOf(NewlyNamed(hook.list)), standIn.at)
    BY <1>7 DEF RefundWrite, StandInAfter, StandInShrunk
  <2> QED
    BY <1>3, <1>4, <1>5, <2>1, <2>2 DEF Left
<1> QED
  BY <1>6, <1>7 DEF RefundWrite

LEMMA UnlistedCovered ==
  ASSUME Base, Covered, setting.listings = {"unlisted"}, NEW hook \in hooks, RefundWrite(hook)
  PROVE  standIn'.cents + OnCharge(named') <= SumOf(Made(stripe'))
<1>1. HookOK(hook) /\ EventOK(hook.event) /\ hook.list \in States /\ named \in States /\ TypeOK
      /\ stripe' = stripe
  BY DEF Base, HookOK, TypeOK, States, RefundWrite, stripeVars
<1>2. PICK n : n = After(hook.list)
  OBVIOUS
<1>3. named' = n /\ n \in States /\ Made(n) \subseteq Made(stripe)
  BY <1>1, <1>2, AfterType DEF RefundWrite, Base, HookOK
<1>4. OnCharge(n) <= SumOf(Made(stripe)) /\ OnCharge(n) \in Nat /\ SumOf(Made(stripe)) \in Nat
  <2>1. SumOf(Made(n)) <= SumOf(Made(stripe)) /\ SumOf(Made(stripe)) \in Nat
    BY <1>3, SumGrows DEF Made
  <2> QED
    BY <1>3, <2>1, InParts
<1>5. standIn.cents \in Nat /\ standIn.cents + OnCharge(named) <= SumOf(Made(stripe))
      /\ OnCharge(named) \in Nat
  BY <1>1, OnChargeNat DEF Covered, TypeOK
<1>6. CASE hook.event.kind = "charge"
  <2> DEFINE e == hook.event
  <2>1. n = named
    BY <1>1, <1>2, <1>6 DEF HookOK, After, Nothing, States
  <2>2. OnCharge(e.snap) <= SumOf(Made(stripe)) /\ OnCharge(e.snap) \in Nat
    <3>1. e.snap \in States /\ Made(e.snap) \in SUBSET Made(stripe) /\ Made(stripe) \in SUBSET Refunds
      BY <1>1 DEF EventOK, Made
    <3>2. SumOf(Made(e.snap)) <= SumOf(Made(stripe))
      BY <3>1, SumGrows
    <3> QED
      BY <1>4, <3>1, <3>2, InParts
  <2>3. standIn' = standIn \/ standIn' = Left(OnCharge(e.snap) - OnCharge(n), e.at)
    BY <1>2, <1>6 DEF RefundWrite, StandInAfter
  <2> QED
    BY <1>1, <1>3, <1>4, <1>5, <2>1, <2>2, <2>3 DEF Left
<1>7. CASE hook.event.kind = "refund"
  <2>1. OnCharge(n) <= OnCharge(named) + SumOf(NewlyNamed(hook.list))
    BY <1>1, <1>2, ChargeGrows
  <2>2. SumOf(NewlyNamed(hook.list)) \in Nat
    BY SumNat DEF NewlyNamed
  <2>3. \/ standIn.cents = 0 /\ standIn' = standIn
        \/ standIn' = Left(standIn.cents - SumOf(NewlyNamed(hook.list)), standIn.at)
    BY <1>5, <1>7 DEF RefundWrite, StandInAfter, StandInShrunk
  <2> QED
    BY <1>1, <1>3, <1>4, <1>5, <2>1, <2>2, <2>3 DEF Left
<1> QED
  BY <1>6, <1>7 DEF RefundWrite

LEMMA Untouched ==
  ASSUME [Next]_vars
  PROVE  setting' = setting
         /\ (UNCHANGED <<named, standIn>> \/ \E hook \in hooks : RefundWrite(hook))
BY DEF Next, PayLater, Decline, Pay, MakeRefund, MoveRefund, CompletedRead, UnpaidWrite,
   DeclinedWrite, RefundRead, CompletedWrite, RefundUnknown, RefundWrite, Fail, stripeVars, ledger, vars

LEMMA MadeGrows == Base /\ [Next]_vars => Made(stripe) \subseteq Made(stripe')
BY DEF Next, PayLater, Decline, Pay, MakeRefund, MoveRefund, CompletedRead, UnpaidWrite,
   DeclinedWrite, RefundRead, CompletedWrite, RefundUnknown, RefundWrite, Fail, stripeVars, vars,
   Base, TypeOK, Made

LEMMA CoveredStep == Base /\ Covered /\ [Next]_vars => Covered'
<1> SUFFICES ASSUME Base, Covered, [Next]_vars PROVE Covered'
  OBVIOUS
<1>1. CASE UNCHANGED <<named, standIn>>
  <2>1. PICK n, c : n = named /\ c = standIn.cents
    OBVIOUS
  <2>2. named' = n /\ standIn'.cents = c /\ c \in Nat /\ OnCharge(n) \in Nat
    BY <1>1, <2>1, OnChargeNat DEF Base, TypeOK
  <2>3. SumOf(Made(stripe)) <= SumOf(Made(stripe')) /\ SumOf(Made(stripe)) \in Nat
        /\ SumOf(Made(stripe')) \in Nat
    BY MadeGrows, SumGrows DEF Made
  <2> QED
    BY <2>1, <2>2, <2>3, Untouched DEF Covered
<1>2. ASSUME NEW hook \in hooks, RefundWrite(hook) PROVE Covered'
  BY <1>2, Untouched, ListedCovered, UnlistedCovered DEF Covered
<1> QED
  BY <1>1, <1>2, Untouched

LEMMA CoveredInvariant == Spec => [](Base /\ Covered)
<1>1. Init => Covered
  <2> SUFFICES ASSUME Init PROVE Covered
    OBVIOUS
  <2>1. SumOf(In(named, {"failed"})) \in Nat /\ SumOf(Made(stripe)) \in Nat
    BY SumNat DEF In, Made
  <2>2. OnCharge(named) = 0
    <3>1. In(named, {"pending", "succeeded"}) = {}
      BY DEF In, Init, Nothing
    <3> QED
      BY <3>1, SumEmpty DEF OnCharge
  <2> QED
    BY <2>1, <2>2 DEF Init, Covered
<1> QED
  BY <1>1, CoveredStep, InitBase, StepBase, PTL DEF Spec

\* No refund is counted both by its own row and by the stand-in, in whatever
\* order and however often the events come.
THEOREM CountedOnce ==
  ASSUME OneListing
  PROVE  Spec => []NoDoubleCount
<1>1. Base /\ Covered => NoDoubleCount
  <2> SUFFICES ASSUME Base, Covered PROVE NoDoubleCount
    OBVIOUS
  <2>1. setting \in Settings /\ named \in States /\ stripe \in States /\ standIn.cents \in Nat
    BY DEF Base, TypeOK, States
  <2>2. SumOf(Made(named)) <= SumOf(Made(stripe))
    BY SumGrows DEF Base, Made
  <2>3. In(stripe, {"pending", "succeeded", "failed"}) = Made(stripe)
    BY <2>1 DEF In, Made, States, RefundStates
  <2>4. refunded <= SumOf(Made(stripe))
    <3>1. refunded = SumOf(In(named, {"succeeded"})) + standIn.cents
      BY DEF Base, Total
    <3>2. "unlisted" \notin setting.listings \/ setting.listings = {"unlisted"}
      BY <2>1 DEF OneListing
    <3> QED
      BY <2>1, <2>2, <3>1, <3>2, InParts DEF Covered
  <2> QED
    BY <2>3, <2>4 DEF NoDoubleCount
<1> QED
  BY <1>1, CoveredInvariant, PTL

-----------------------------------------------------------------------------
(* The settled total, when moreover a refund once succeeded does not fail. *)

NoneFails == \A s \in Settings : s.lifecycle # "fails"

\* A state of the refunds that Stripe has been in, if none fails.
Past(f) == In(f, {"failed"}) = {} /\ In(f, {"succeeded"}) \subseteq In(stripe, {"succeeded"})

\* Stripe's own state of a refund is in an event of that refund; the row of a
\* refund whose event was recorded is no earlier than the event.
Told ==
  /\ In(stripe, {"failed"}) = {} /\ Past(named)
  /\ \A e \in sent : Past(e.snap)
  /\ \A h \in hooks : Past(h.list)
  /\ \A r \in Made(stripe) : \E e \in sent : e.kind = "refund" /\ e.refund = r /\ e.snap[r] = stripe[r]
  /\ \A e \in applied : e.kind = "refund" =>
       e.refund \in Made(named) /\ Rank(named[e.refund]) >= Rank(e.snap[e.refund])

LEMMA PastNothing == Past(Nothing)
BY DEF Past, In, Nothing

LEMMA MadeTold ==
  ASSUME Base, Told, NEW r \in Refunds, MakeRefund(r) \/ MoveRefund(r), setting.lifecycle # "fails"
  PROVE  Told'
<1>1. PICK s \in {"pending", "succeeded"}, t \in Clock, next \in States :
        /\ next = [stripe EXCEPT ![r] = s]
        /\ stripe[r] \in {"none", "pending"} /\ stripe' = next
        /\ sent \subseteq sent' /\ Event("refund", r, next, t) \in sent'
        /\ sent' \subseteq sent \cup {Event("charge", NoRefund, next, t), Event("refund", r, next, t)}
  <2>1. CASE MakeRefund(r)
    BY <2>1 DEF MakeRefund, Base, TypeOK, States, RefundStates
  <2>2. CASE MoveRefund(r)
    <3>1. PICK s \in {"succeeded", "failed"}, t \in Clock, next \in States :
            /\ next = [stripe EXCEPT ![r] = s]
            /\ stripe[r] = "pending" \/ (stripe[r] = "succeeded" /\ s = "failed")
            /\ s = "failed" => setting.lifecycle = "fails"
            /\ stripe' = next
            /\ sent' = sent \cup {Event("refund", r, next, t)}
      BY <2>2 DEF MoveRefund, Base, TypeOK, States, RefundStates
    <3>2. s = "succeeded" /\ stripe[r] = "pending"
      BY <3>1
    <3> QED
      BY <3>1, <3>2
  <2> QED
    BY <2>1, <2>2
<1>2. \A e \in sent' : e \in sent \/ e.snap = next
  <2>1. Event("charge", NoRefund, next, t).snap = next /\ Event("refund", r, next, t).snap = next
    BY DEF Event
  <2> QED
    BY <1>1, <2>1
<1>3. UNCHANGED <<named, hooks, applied>>
  BY DEF MakeRefund, MoveRefund, ledger
<1>4. stripe' = next /\ next \in States /\ next[r] = s /\ \A q \in Refunds \ {r} : next[q] = stripe[q]
  BY <1>1 DEF Base, TypeOK, States, RefundStates
<1>5. In(next, {"failed"}) = {} /\ In(stripe, {"succeeded"}) \subseteq In(next, {"succeeded"})
  BY <1>1, <1>4 DEF In, Told
<1>6. \A f : Past(f) => Past(f)'
  BY <1>4, <1>5 DEF Past, In
<1>7. Past(next)'
  BY <1>4, <1>5 DEF Past
<1>8. \A e \in sent' : Past(e.snap)'
  BY <1>1, <1>2, <1>6, <1>7 DEF Told
<1>9. \A h \in hooks' : Past(h.list)'
  BY <1>3, <1>6 DEF Told
<1>10. ASSUME NEW q \in Made(stripe') PROVE \E e \in sent' : e.kind = "refund" /\ e.refund = q /\ e.snap[q] = stripe'[q]
  <2>1. CASE q = r
    BY <1>1, <1>2, <1>4, <2>1 DEF Event
  <2>2. CASE q # r
    <3>1. q \in Made(stripe) /\ stripe'[q] = stripe[q]
      BY <1>4, <2>2 DEF Made
    <3> QED
      BY <1>1, <3>1 DEF Told
  <2> QED
    BY <2>1, <2>2
<1>11. Past(named)'
  <2>1. PICK n : n = named
    OBVIOUS
  <2> QED
    BY <2>1, <1>3, <1>6 DEF Told, Past
<1>12. \A e \in applied' : e.kind = "refund" =>
         e.refund \in Made(named') /\ Rank(named'[e.refund]) >= Rank(e.snap[e.refund])
  BY <1>3 DEF Told
<1> QED
  BY <1>4, <1>5, <1>8, <1>9, <1>10, <1>11, <1>12 DEF Told

LEMMA WriteTold ==
  ASSUME Base, Told, NEW hook \in hooks, RefundWrite(hook)
  PROVE  Told'
<1>1. HookOK(hook) /\ EventOK(hook.event) /\ hook.list \in States /\ named \in States
  BY DEF Base, HookOK, TypeOK, States
<1>2. PICK n : n = After(hook.list)
  OBVIOUS
<1>3. /\ named' = n /\ n \in States /\ hooks' \subseteq hooks
      /\ UNCHANGED <<stripe, sent>> /\ applied' = applied \cup {hook.event}
  BY <1>1, <1>2, AfterType DEF RefundWrite, Base, HookOK, stripeVars
<1>4. Past(n)
  BY <1>1, <1>2 DEF Told, Past, In, After
<1>5. \A q \in Refunds : Rank(n[q]) >= Rank(named[q]) /\ (named[q] # "none" => n[q] # "none")
  BY <1>1, <1>2 DEF After, Rank, States, RefundStates
<1>6. ASSUME NEW e \in applied, e.kind = "refund"
      PROVE  e.refund \in Made(n) /\ Rank(n[e.refund]) >= Rank(e.snap[e.refund])
  <2>1. e.refund \in Refunds /\ e.snap \in States
    BY <1>6 DEF Base, TypeOK, EventOK
  <2>2. e.refund \in Made(named) /\ Rank(named[e.refund]) >= Rank(e.snap[e.refund])
    BY <1>6 DEF Told
  <2>3. \A u \in RefundStates : Rank(u) \in Nat
    BY DEF Rank, RefundStates
  <2>4. named[e.refund] \in RefundStates /\ n[e.refund] \in RefundStates /\ e.snap[e.refund] \in RefundStates
    BY <1>1, <1>3, <2>1 DEF States
  <2> QED
    BY <1>5, <2>1, <2>2, <2>3, <2>4 DEF Made
<1>7. ASSUME hook.event.kind = "refund"
      PROVE  hook.event.refund \in Made(n) /\ Rank(n[hook.event.refund]) >= Rank(hook.event.snap[hook.event.refund])
  <2>1. PICK r \in Refunds : r = hook.event.refund
    BY <1>1, <1>7 DEF EventOK
  <2>2. hook.list[r] = hook.event.snap[r] /\ hook.list[r] # "none"
    BY <1>1, <1>7, <2>1 DEF HookOK, EventOK, Nothing
  <2>3. n[r] # "none" /\ Rank(n[r]) >= Rank(hook.list[r])
    BY <1>1, <1>2, <2>2 DEF After, Rank, States, RefundStates
  <2> QED
    BY <2>1, <2>2, <2>3 DEF Made
<1>8. \A f : Past(f) => Past(f)'
  BY <1>3 DEF Past
<1>9. Past(named)' /\ (\A e \in sent' : Past(e.snap)') /\ \A h \in hooks' : Past(h.list)'
  BY <1>3, <1>4, <1>8 DEF Told, Past
<1> QED
  BY <1>3, <1>6, <1>7, <1>9 DEF Told

LEMMA ReadTold ==
  ASSUME Base, Told, NEW event \in sent, CompletedRead(event) \/ RefundRead(event)
  PROVE  Told'
<1>1. PICK slot, list : /\ hooks' = hooks \cup {[slot |-> slot, event |-> event, list |-> list, saw |-> status]}
                        /\ list = Nothing \/ (RefundRead(event) /\ list \in Named(event))
  BY DEF CompletedRead, RefundRead, Begin
<1>2. UNCHANGED <<stripe, sent, named, applied>>
  BY DEF CompletedRead, RefundRead, stripeVars, ledger
<1>3. Past(stripe) /\ Past(event.snap) /\ EventOK(event)
  BY DEF Told, Past, Base
<1>4. Past(list)
  <2>1. CASE event.kind = "refund" /\ list \in Named(event) /\ RefundRead(event)
    <3>1. list = [Nothing EXCEPT ![event.refund] = event.snap[event.refund]]
      BY <2>1 DEF Named
    <3> QED
      BY <1>3, <2>1, <3>1 DEF Past, In, Nothing, EventOK
  <2>2. CASE event.kind # "refund" /\ list \in Named(event)
    BY <1>3, <2>2, PastNothing DEF Named
  <2> QED
    BY <1>1, <2>1, <2>2, PastNothing
<1>5. \A f : Past(f) => Past(f)'
  BY <1>2 DEF Past
<1>6. \A h \in hooks' : Past(h.list)'
  BY <1>1, <1>4, <1>5 DEF Told
<1>7. Past(named)' /\ \A e \in sent' : Past(e.snap)'
  BY <1>2, <1>5 DEF Told, Past
<1> QED
  BY <1>2, <1>6, <1>7 DEF Told

\* Everything else leaves the refunds alone and begins no delivery.
LEMMA QuietTold ==
  ASSUME Told, UNCHANGED <<stripe, named>>, hooks' \subseteq hooks, sent \subseteq sent',
         \A e \in sent' \ sent : e.snap = Nothing,
         \A e \in applied' \ applied : e.kind # "refund"
  PROVE  Told'
<1>1. \A f : Past(f) => Past(f)'
  BY DEF Past
<1>2. Past(named)' /\ (\A e \in sent' : Past(e.snap)') /\ \A h \in hooks' : Past(h.list)'
  BY <1>1, PastNothing DEF Told, Past
<1> QED
  BY <1>2 DEF Told

LEMMA ToldStep == Base /\ Told /\ setting.lifecycle # "fails" /\ [Next]_vars => Told'
<1> SUFFICES ASSUME Base, Told, setting.lifecycle # "fails", [Next]_vars PROVE Told'
  OBVIOUS
<1>1. CASE PayLater \/ Decline \/ Pay
  BY <1>1, QuietTold DEF PayLater, Decline, Pay, Event, ledger
<1>2. ASSUME NEW event \in sent, UnpaidWrite(event) \/ DeclinedWrite(event) PROVE Told'
  BY <1>2, QuietTold DEF UnpaidWrite, DeclinedWrite, stripeVars, ledger
<1>3. ASSUME NEW hook \in hooks, CompletedWrite(hook) \/ RefundUnknown(hook) \/ Fail(hook) PROVE Told'
  BY <1>3, QuietTold DEF CompletedWrite, RefundUnknown, Fail, stripeVars, ledger
<1>4. CASE UNCHANGED vars
  BY <1>4, QuietTold DEF vars, stripeVars, ledger
<1> QED
  BY <1>1, <1>2, <1>3, <1>4, MadeTold, ReadTold, WriteTold DEF Next

LEMMA ToldInvariant ==
  ASSUME NoneFails
  PROVE  Spec => [](Base /\ Covered /\ Told)
<1>1. Init => Told
  BY PastNothing DEF Init, Told, In, Made, Nothing
<1>2. Base /\ Told /\ [Next]_vars => Told'
  BY ToldStep DEF NoneFails, Base, TypeOK
<1> QED
  BY <1>1, <1>2, InitBase, StepBase, CoveredInvariant, PTL DEF Spec

\* When every event has been recorded, in whatever order and however often,
\* the app's refunded total is what Stripe has refunded.
THEOREM TotalSettles ==
  ASSUME OneListing, NoneFails
  PROVE  Spec => []SettledTotal
<1>1. Base /\ Covered /\ Told => SettledTotal
  <2> SUFFICES ASSUME Base, Covered, Told, sent \subseteq applied PROVE refunded = Succeeded
    BY DEF SettledTotal, Settled
  <2>1. setting \in Settings /\ named \in States /\ stripe \in States /\ standIn.cents \in Nat
    BY DEF Base, TypeOK, States
  <2>2. ASSUME NEW r \in Refunds PROVE named[r] = stripe[r]
    <3>1. CASE stripe[r] = "none"
      BY <3>1 DEF Base, Made
    <3>2. CASE stripe[r] # "none"
      <4>1. PICK e \in sent : e.kind = "refund" /\ e.refund = r /\ e.snap[r] = stripe[r]
        BY <3>2 DEF Told, Made
      <4>2. named[r] # "none" /\ Rank(named[r]) >= Rank(stripe[r])
        BY <4>1 DEF Told, Made
      <4>3. stripe[r] # "failed" /\ named[r] # "failed" /\ (named[r] = "succeeded" => stripe[r] = "succeeded")
        BY DEF Told, Past, In
      <4> QED
        BY <2>1, <3>2, <4>2, <4>3 DEF Rank, States, RefundStates
    <3> QED
      BY <3>1, <3>2
  <2>3. named = stripe
    BY <2>1, <2>2 DEF States
  <2>4. SumOf(In(stripe, {"failed"})) = 0
    BY SumEmpty DEF Told
  <2>5. "unlisted" \notin setting.listings \/ setting.listings = {"unlisted"}
    BY <2>1 DEF OneListing
  <2>6. standIn.cents = 0
    BY <2>1, <2>3, <2>4, <2>5, InParts DEF Covered
  <2> QED
    BY <2>1, <2>3, <2>6, InParts DEF Base, Total, Succeeded
<1> QED
  BY <1>1, ToldInvariant, PTL

-----------------------------------------------------------------------------
(* The rails of one invoice and its financing fee.                         *)


Operations == {"idle", "apply", "remove", "synchrony", "hand"}

\* The variables are what they are declared to be, numbers of cents aside.
Shape ==
  /\ root \in Nat
  /\ state \in [Payments -> {"none", "open", "paid", "void", "refunded"}]
  /\ at \in [Payments -> Nat] /\ names \in [Payments -> Fees \cup {NoFee}]
  /\ amount = [p \in Payments |-> amount[p]]
  /\ fee \in [Fees -> {"none", "live", "removed"}] /\ feeAt \in [Fees -> Nat]
  /\ base = [f \in Fees |-> base[f]] /\ cents = [f \in Fees |-> cents[f]]
  /\ request = [w \in Workers |-> request[w]]
  /\ \A w \in Workers : /\ request[w].op \in Operations /\ request[w].row \in Nat
                        /\ request[w].fee \in Fees \cup {NoFee}

\* Nothing is written, or about to be, on a revision not yet signed.
FutureClean ==
  /\ \A f \in Fees : feeAt[f] <= root
  /\ \A w \in Workers : request[w].row <= root

\* A session has no fee, and what names a fee names one that was put on.
NamesKnown ==
  /\ \A p \in Payments : state[p] \in {"none", "open"} => names[p] = NoFee
  /\ \A p \in Payments : names[p] # NoFee => fee[names[p]] # "none"

\* A request to record a Synchrony payment carries the fee's own figures.
AsksWhatIsOwed ==
  \A w \in Workers : request[w].op = "synchrony" =>
    /\ request[w].fee \in Fees /\ fee[request[w].fee] # "none"
    /\ request[w].amount = base[request[w].fee] + cents[request[w].fee]

MoneyInv == Shape /\ FutureClean /\ NamesKnown /\ AsksWhatIsOwed
        /\ OneLiveFee /\ FeeLocks /\ FeeMatchesFinanced

\* Read by every lemma from here on.
USE NoFeeAssumption DEF Operations, Idle, Counts, invoice, payments, fees, Done, Doing, Free, Starts

LEMMA InitMoney == RailsInit => MoneyInv
  BY DEF RailsInit, MoneyInv, Shape, FutureClean, NamesKnown, AsksWhatIsOwed, OneLiveFee, FeeLocks,
      FeeMatchesFinanced, Idle, Operations, Counts

----------------------------------------------------------------------------
(* Reads, and what only moves a payment on.                                *)

LEMMA ApplyReadMoney ==
  ASSUME MoneyInv, NEW w \in Workers, ApplyRead(w) PROVE MoneyInv'
  <1> USE DEF MoneyInv, ApplyRead
  <1>1. Shape'                BY DEF Shape
  <1>2. FutureClean'          BY DEF Shape, FutureClean
  <1>3. NamesKnown'           BY DEF Shape, NamesKnown
  <1>4. AsksWhatIsOwed'       BY DEF Shape, AsksWhatIsOwed
  <1>5. OneLiveFee'           BY DEF Shape, OneLiveFee, FutureClean
  <1>6. FeeLocks'             BY DEF Shape, FeeLocks, NamesKnown
  <1>7. FeeMatchesFinanced'   BY DEF Shape, FeeMatchesFinanced, NamesKnown
  <1> QED BY <1>1, <1>2, <1>3, <1>4, <1>5, <1>6, <1>7

LEMMA RemoveReadMoney ==
  ASSUME MoneyInv, NEW w \in Workers, NEW f \in Fees, RemoveRead(w, f) PROVE MoneyInv'
  <1> USE DEF MoneyInv, RemoveRead
  <1>1. Shape'                BY DEF Shape
  <1>2. FutureClean'          BY DEF Shape, FutureClean
  <1>3. NamesKnown'           BY DEF Shape, NamesKnown
  <1>4. AsksWhatIsOwed'       BY DEF Shape, AsksWhatIsOwed
  <1>5. OneLiveFee'           BY DEF Shape, OneLiveFee, FutureClean
  <1>6. FeeLocks'             BY DEF Shape, FeeLocks, NamesKnown
  <1>7. FeeMatchesFinanced'   BY DEF Shape, FeeMatchesFinanced, NamesKnown
  <1> QED BY <1>1, <1>2, <1>3, <1>4, <1>5, <1>6, <1>7

LEMMA SynchronyReadMoney ==
  ASSUME MoneyInv, NEW w \in Workers, NEW f \in Fees, SynchronyRead(w, f) PROVE MoneyInv'
  <1> USE DEF MoneyInv, SynchronyRead, LiveFees, BaseHolds
  <1>1. Shape'                BY DEF Shape
  <1>2. FutureClean'          BY DEF Shape, FutureClean
  <1>3. NamesKnown'           BY DEF Shape, NamesKnown
  <1>4. AsksWhatIsOwed'       BY DEF Shape, AsksWhatIsOwed
  <1>5. OneLiveFee'           BY DEF Shape, OneLiveFee, FutureClean
  <1>6. FeeLocks'             BY DEF Shape, FeeLocks, NamesKnown
  <1>7. FeeMatchesFinanced'   BY DEF Shape, FeeMatchesFinanced, NamesKnown
  <1> QED BY <1>1, <1>2, <1>3, <1>4, <1>5, <1>6, <1>7

LEMMA HandReadMoney ==
  ASSUME MoneyInv, NEW w \in Workers, HandRead(w) PROVE MoneyInv'
  <1> USE DEF MoneyInv, HandRead
  <1>1. Shape'                BY DEF Shape
  <1>2. FutureClean'          BY DEF Shape, FutureClean
  <1>3. NamesKnown'           BY DEF Shape, NamesKnown
  <1>4. AsksWhatIsOwed'       BY DEF Shape, AsksWhatIsOwed
  <1>5. OneLiveFee'           BY DEF Shape, OneLiveFee, FutureClean
  <1>6. FeeLocks'             BY DEF Shape, FeeLocks, NamesKnown
  <1>7. FeeMatchesFinanced'   BY DEF Shape, FeeMatchesFinanced, NamesKnown
  <1> QED BY <1>1, <1>2, <1>3, <1>4, <1>5, <1>6, <1>7

LEMMA VoidPaymentMoney ==
  ASSUME MoneyInv, NEW p \in Payments, VoidPayment(p) PROVE MoneyInv'
  <1> USE DEF MoneyInv, VoidPayment
  <1>1. Shape'                BY DEF Shape
  <1>2. FutureClean'          BY DEF Shape, FutureClean
  <1>3. NamesKnown'           BY DEF Shape, NamesKnown
  <1>4. AsksWhatIsOwed'       BY DEF Shape, AsksWhatIsOwed
  <1>5. OneLiveFee'           BY DEF Shape, OneLiveFee, FutureClean
  <1>6. FeeLocks'             BY DEF Shape, FeeLocks, NamesKnown
  <1>7. FeeMatchesFinanced'   BY DEF Shape, FeeMatchesFinanced, NamesKnown
  <1> QED BY <1>1, <1>2, <1>3, <1>4, <1>5, <1>6, <1>7

LEMMA SessionPaidMoney ==
  ASSUME MoneyInv, NEW p \in Payments, SessionPaid(p) PROVE MoneyInv'
  <1> USE DEF MoneyInv, SessionPaid
  <1>1. Shape'                BY DEF Shape
  <1>2. FutureClean'          BY DEF Shape, FutureClean
  <1>3. NamesKnown'           BY DEF Shape, NamesKnown
  <1>4. AsksWhatIsOwed'       BY DEF Shape, AsksWhatIsOwed
  <1>5. OneLiveFee'           BY DEF Shape, OneLiveFee, FutureClean
  <1>6. FeeLocks'             BY DEF Shape, FeeLocks, NamesKnown
  <1>7. FeeMatchesFinanced'   BY DEF Shape, FeeMatchesFinanced, NamesKnown
  <1> QED BY <1>1, <1>2, <1>3, <1>4, <1>5, <1>6, <1>7

LEMMA RefundMoney ==
  ASSUME MoneyInv, NEW p \in Payments, Refund(p) PROVE MoneyInv'
  <1> USE DEF MoneyInv, Refund
  <1>1. Shape'                BY DEF Shape
  <1>2. FutureClean'          BY DEF Shape, FutureClean
  <1>3. NamesKnown'           BY DEF Shape, NamesKnown
  <1>4. AsksWhatIsOwed'       BY DEF Shape, AsksWhatIsOwed
  <1>5. OneLiveFee'           BY DEF Shape, OneLiveFee, FutureClean
  <1>6. FeeLocks'             BY DEF Shape, FeeLocks, NamesKnown
  <1>7. FeeMatchesFinanced'   BY DEF Shape, FeeMatchesFinanced, NamesKnown
  <1> QED BY <1>1, <1>2, <1>3, <1>4, <1>5, <1>6, <1>7

LEMMA OpenSessionMoney ==
  ASSUME MoneyInv, NEW p \in Payments, OpenSession(p) PROVE MoneyInv'
  <1> USE DEF MoneyInv, OpenSession, NewPayment
  <1>1. Shape'                BY DEF Shape
  <1>2. FutureClean'          BY DEF Shape, FutureClean
  <1>3. NamesKnown'           BY DEF Shape, NamesKnown
  <1>4. AsksWhatIsOwed'       BY DEF Shape, AsksWhatIsOwed
  <1>5. OneLiveFee'           BY DEF Shape, OneLiveFee, FutureClean
  <1>6. FeeLocks'             BY DEF Shape, FeeLocks, NamesKnown
  <1>7. FeeMatchesFinanced'   BY DEF Shape, FeeMatchesFinanced, NamesKnown
  <1> QED BY <1>1, <1>2, <1>3, <1>4, <1>5, <1>6, <1>7

LEMMA ApplyWriteMoney ==
  ASSUME MoneyInv, NEW w \in Workers, NEW f \in Fees, ApplyWrite(w, f) PROVE MoneyInv'
  <1> USE DEF MoneyInv, ApplyWrite, NoFeeYet, LiveFees
  <1>1. Shape'                BY DEF Shape
  <1>2. FutureClean'          BY DEF Shape, FutureClean
  <1>3. NamesKnown'           BY DEF Shape, NamesKnown
  <1>4. AsksWhatIsOwed'       BY DEF Shape, AsksWhatIsOwed
  <1>5. OneLiveFee'           BY DEF Shape, OneLiveFee, FutureClean
  <1>6. FeeLocks'             BY DEF Shape, FeeLocks, NamesKnown
  <1>7. FeeMatchesFinanced'   BY DEF Shape, FeeMatchesFinanced, NamesKnown
  <1> QED BY <1>1, <1>2, <1>3, <1>4, <1>5, <1>6, <1>7

LEMMA RemoveWriteMoney ==
  ASSUME MoneyInv, NEW w \in Workers, RemoveWrite(w) PROVE MoneyInv'
  <1> USE DEF MoneyInv, RemoveWrite, Removable, Locked
  <1>1. Shape'                BY DEF Shape
  <1>2. FutureClean'          BY DEF Shape, FutureClean
  <1>3. NamesKnown'           BY DEF Shape, NamesKnown
  <1>4. AsksWhatIsOwed'       BY DEF Shape, AsksWhatIsOwed
  <1>5. OneLiveFee'           BY DEF Shape, OneLiveFee, FutureClean
  <1>6. FeeLocks'             BY DEF Shape, FeeLocks, NamesKnown
  <1>7. FeeMatchesFinanced'   BY DEF Shape, FeeMatchesFinanced, NamesKnown
  <1> QED BY <1>1, <1>2, <1>3, <1>4, <1>5, <1>6, <1>7

LEMMA SynchronyWriteMoney ==
  ASSUME MoneyInv, NEW w \in Workers, NEW p \in Payments, SynchronyWrite(w, p) PROVE MoneyInv'
  <1> USE DEF MoneyInv, SynchronyWrite, NewPayment, Payable, Locked
  <1>1. Shape'                BY DEF Shape
  <1>2. FutureClean'          BY DEF Shape, FutureClean
  <1>3. NamesKnown'           BY DEF Shape, NamesKnown
  <1>4. AsksWhatIsOwed'       BY DEF Shape, AsksWhatIsOwed
  <1>5. OneLiveFee'           BY DEF Shape, OneLiveFee, FutureClean
  <1>6. FeeLocks'             BY DEF Shape, FeeLocks, NamesKnown
  <1>7. FeeMatchesFinanced'   BY DEF Shape, FeeMatchesFinanced, NamesKnown, AsksWhatIsOwed
  <1> QED BY <1>1, <1>2, <1>3, <1>4, <1>5, <1>6, <1>7

LEMMA HandWriteMoney ==
  ASSUME MoneyInv, NEW w \in Workers, NEW p \in Payments, HandWrite(w, p) PROVE MoneyInv'
  <1> USE DEF MoneyInv, HandWrite, NewPayment
  <1>1. Shape'                BY DEF Shape
  <1>2. FutureClean'          BY DEF Shape, FutureClean
  <1>3. NamesKnown'           BY DEF Shape, NamesKnown
  <1>4. AsksWhatIsOwed'       BY DEF Shape, AsksWhatIsOwed
  <1>5. OneLiveFee'           BY DEF Shape, OneLiveFee, FutureClean
  <1>6. FeeLocks'             BY DEF Shape, FeeLocks, NamesKnown
  <1>7. FeeMatchesFinanced'   BY DEF Shape, FeeMatchesFinanced, NamesKnown
  <1> QED BY <1>1, <1>2, <1>3, <1>4, <1>5, <1>6, <1>7

LEMMA TakeOverMoney ==
  ASSUME MoneyInv, TakeOver PROVE MoneyInv'
  <1> USE DEF MoneyInv, TakeOver, FeesMoved
  <1>1. Shape'                BY DEF Shape
  <1>2. FutureClean'          BY DEF Shape, FutureClean
  <1>3. NamesKnown'           BY DEF Shape, NamesKnown
  <1>4. AsksWhatIsOwed'       BY DEF Shape, AsksWhatIsOwed
  <1>5. OneLiveFee'           BY DEF Shape, OneLiveFee, FutureClean
  <1>6. FeeLocks'             BY DEF Shape, FeeLocks, NamesKnown
  <1>7. FeeMatchesFinanced'   BY DEF Shape, FeeMatchesFinanced, NamesKnown
  <1> QED BY <1>1, <1>2, <1>3, <1>4, <1>5, <1>6, <1>7

LEMMA StepMoney == MoneyInv /\ [RailsNext]_railsVars => MoneyInv'
  <1> SUFFICES ASSUME MoneyInv, [RailsNext]_railsVars PROVE MoneyInv'
      OBVIOUS
  <1>1. CASE TakeOver BY <1>1, TakeOverMoney
  <1>2. CASE ChangeOrderSigned
        BY <1>2 DEF ChangeOrderSigned, MoneyInv, Shape, FutureClean, NamesKnown, AsksWhatIsOwed,
           OneLiveFee, FeeLocks, FeeMatchesFinanced, Counts, payments, fees
  <1>3. ASSUME NEW p \in Payments, VoidPayment(p) \/ OpenSession(p) \/ SessionPaid(p) \/ Refund(p)
        PROVE MoneyInv'
        BY <1>3, VoidPaymentMoney, OpenSessionMoney, SessionPaidMoney, RefundMoney
  <1>4. ASSUME NEW w \in Workers, ApplyRead(w) \/ RemoveWrite(w) \/ HandRead(w)
        PROVE MoneyInv'
        BY <1>4, ApplyReadMoney, RemoveWriteMoney, HandReadMoney
  <1>5. ASSUME NEW w \in Workers, NEW f \in Fees,
               ApplyWrite(w, f) \/ RemoveRead(w, f) \/ SynchronyRead(w, f)
        PROVE MoneyInv'
        BY <1>5, ApplyWriteMoney, RemoveReadMoney, SynchronyReadMoney
  <1>6. ASSUME NEW w \in Workers, NEW p \in Payments, SynchronyWrite(w, p) \/ HandWrite(w, p)
        PROVE MoneyInv'
        BY <1>6, SynchronyWriteMoney, HandWriteMoney
  <1>7. CASE UNCHANGED railsVars
        BY <1>7 DEF railsVars, invoice, payments, fees, MoneyInv, Shape, FutureClean, NamesKnown,
           AsksWhatIsOwed, OneLiveFee, FeeLocks, FeeMatchesFinanced, Counts
  <1> QED BY <1>1, <1>2, <1>3, <1>4, <1>5, <1>6, <1>7 DEF RailsNext

LEMMA MoneyInvariance == RailsSpec => []MoneyInv
  BY InitMoney, StepMoney, PTL DEF RailsSpec

-----------------------------------------------------------------------------
(* Two clicks on "Add the financing fee", from any number of tabs, put one *)
(* fee on an invoice; a take-over brings the old one along and no second.  *)
THEOREM FeeOnce == RailsSpec => []OneLiveFee
  <1>1. MoneyInv => OneLiveFee BY DEF MoneyInv
  <1> QED BY <1>1, MoneyInvariance, PTL

(* A fee's removal and its payment, or two payments of it, never both      *)
(* happen, however many requests run at once.                              *)
THEOREM FeeLocked == RailsSpec => []FeeLocks
  <1>1. MoneyInv => FeeLocks BY DEF MoneyInv
  <1> QED BY <1>1, MoneyInvariance, PTL

(* The amount run on Synchrony is the balance the fee was worked on plus   *)
(* the fee: no void, payment or change order in between changes that.      *)
THEOREM FeeFinanced == RailsSpec => []FeeMatchesFinanced
  <1>1. MoneyInv => FeeMatchesFinanced BY DEF MoneyInv
  <1> QED BY <1>1, MoneyInvariance, PTL

-----------------------------------------------------------------------------
(* The types.  What the handlers read is a sum over the payments made and  *)
(* the fees put on so far, of which there are finitely many.               *)

Taken == {p \in Payments : state[p] # "none"}
PutOn == {f \in Fees : fee[f] # "none"}

TypeInv == RailsTypeOK /\ IsFiniteSet(Taken) /\ IsFiniteSet(PutOn)

LEMMA SumsRead ==
  ASSUME TypeInv
  PROVE  Collected \in Nat /\ FeeOwed \in Nat /\ BeforeFee \in Int /\ Balance \in Int
<1>1. Collected \in Nat
  <2> DEFINE A == {p \in Payments : Counts(p) /\ at[p] = root}
  <2>1. IsFiniteSet(A)
    <3>1. A \subseteq Taken
      BY DEF Taken
    <3> QED
      BY <3>1, FS_Subset DEF TypeInv
  <2>2. \A p \in A : amount[p] \in Nat
    BY DEF TypeInv, RailsTypeOK
  <2>3. Collected = SumBy(amount, A)
    BY DEF Collected, SumBy
  <2> QED
    BY <2>1, <2>2, <2>3, SumByNat
<1>2. FeeOwed \in Nat
  <2> DEFINE A == LiveFees(root)
  <2>1. IsFiniteSet(A)
    <3>1. A \subseteq PutOn
      BY DEF PutOn, LiveFees
    <3> QED
      BY <3>1, FS_Subset DEF TypeInv
  <2>2. \A f \in A : cents[f] \in Nat
    BY DEF TypeInv, RailsTypeOK, LiveFees
  <2>3. FeeOwed = SumBy(cents, A)
    BY DEF FeeOwed, SumBy
  <2> QED
    BY <2>1, <2>2, <2>3, SumByNat
<1>3. bill \in Nat
  BY DEF TypeInv, RailsTypeOK
<1> QED
  BY <1>1, <1>2, <1>3 DEF BeforeFee, Balance

\* A fee's cents are a number of cents.
LEMMA FeeOfNat == \A a \in Nat : FeeOf(a) \in Nat
<1> TAKE a \in Nat
<1>1. a * HalfRate \in Nat
  BY BillAssumption
<1>2. \A n \in Nat : (n + 50) \div 100 \in Nat
  OBVIOUS
<1> QED
  BY <1>1, <1>2 DEF FeeOf

LEMMA NewPaymentTypes ==
  ASSUME TypeInv, NEW p \in Payments, NEW how \in {"hand", "card", "synchrony"}, NEW row \in 0..MaxRoot,
         NEW a \in Nat, NEW f \in Fees \cup {NoFee}, NewPayment(p, how, row, a, f),
         UNCHANGED <<root, bill, fee, feeAt, base, cents>>,
         request' \in [Workers -> [op : Operations, row : 0..MaxRoot, fee : Fees \cup {NoFee}, amount : Nat]]
  PROVE  TypeInv'
<1>1. RailsTypeOK'
  BY DEF TypeInv, RailsTypeOK, NewPayment
<1>2. IsFiniteSet(Taken')
  <2>1. Taken' = Taken \cup {p}
    BY DEF TypeInv, RailsTypeOK, NewPayment, Taken
  <2> QED
    BY <2>1, FS_AddElement DEF TypeInv
<1>3. PutOn' = PutOn
  BY DEF PutOn
<1> QED
  BY <1>1, <1>2, <1>3 DEF TypeInv

LEMMA RequestTypes ==
  ASSUME RailsTypeOK, NEW w \in Workers
  PROVE  /\ request[w].row \in 0..MaxRoot /\ request[w].fee \in Fees \cup {NoFee} /\ request[w].amount \in Nat
         /\ Done(w) => request' \in [Workers -> [op : Operations, row : 0..MaxRoot,
                                                 fee : Fees \cup {NoFee}, amount : Nat]]
         /\ \A op \in Operations, f \in Fees \cup {NoFee}, a \in Nat : Starts(w, op, f, a) =>
              request' \in [Workers -> [op : Operations, row : 0..MaxRoot,
                                        fee : Fees \cup {NoFee}, amount : Nat]]
  BY BillAssumption DEF RailsTypeOK

\* The steps that write no payment and put no fee on.
LEMMA StartsTypes ==
  ASSUME TypeInv, NEW w \in Workers,
         \/ ApplyRead(w) \/ HandRead(w)
         \/ \E f \in Fees : RemoveRead(w, f) \/ SynchronyRead(w, f)
  PROVE  TypeInv'
<1>1. UNCHANGED <<root, bill, state, method, at, amount, names, fee, feeAt, base, cents>>
  BY DEF ApplyRead, HandRead, RemoveRead, SynchronyRead
<1>2. request' \in [Workers -> [op : Operations, row : 0..MaxRoot, fee : Fees \cup {NoFee}, amount : Nat]]
  <2>1. \A n \in Int : n > 0 => n \in Nat
    OBVIOUS
  <2>2. CASE ApplyRead(w)
    <3>1. BeforeFee \in Nat
      BY <2>1, <2>2, SumsRead DEF ApplyRead, Owes
    <3> QED
      BY <2>2, <3>1, RequestTypes DEF ApplyRead, TypeInv
  <2>3. CASE HandRead(w)
    BY <2>3, RequestTypes DEF HandRead, TypeInv
  <2>4. ASSUME NEW f \in Fees, RemoveRead(w, f)
        PROVE request' \in [Workers -> [op : Operations, row : 0..MaxRoot, fee : Fees \cup {NoFee}, amount : Nat]]
    BY <2>4, RequestTypes DEF RemoveRead, TypeInv
  <2>5. ASSUME NEW f \in Fees, SynchronyRead(w, f)
        PROVE request' \in [Workers -> [op : Operations, row : 0..MaxRoot, fee : Fees \cup {NoFee}, amount : Nat]]
    <3>1. BeforeFee + cents[f] \in Nat
      <4>1. cents[f] \in Nat
        BY DEF TypeInv, RailsTypeOK
      <4> QED
        BY <2>1, <2>5, <4>1, SumsRead DEF SynchronyRead
    <3> QED
      BY <2>5, <3>1, RequestTypes DEF SynchronyRead, TypeInv
  <2> QED
    BY <2>2, <2>3, <2>4, <2>5
<1>3. RailsTypeOK'
  BY <1>1, <1>2 DEF TypeInv, RailsTypeOK
<1>4. Taken' = Taken /\ PutOn' = PutOn
  BY <1>1 DEF Taken, PutOn
<1> QED
  BY <1>3, <1>4 DEF TypeInv

LEMMA ApplyWriteTypes ==
  ASSUME TypeInv, NEW w \in Workers, NEW f \in Fees, ApplyWrite(w, f) PROVE TypeInv'
<1>1. request' \in [Workers -> [op : Operations, row : 0..MaxRoot, fee : Fees \cup {NoFee}, amount : Nat]]
      /\ request[w].row \in 0..MaxRoot /\ request[w].amount \in Nat
  BY RequestTypes DEF ApplyWrite, TypeInv
<1>2. FeeOf(request[w].amount) \in Nat
  BY <1>1, FeeOfNat
<1>3. UNCHANGED <<root, bill, state, method, at, amount, names>>
  BY DEF ApplyWrite
<1>4. fee' \in [Fees -> {"none", "live", "removed"}] /\ feeAt' \in [Fees -> 0..MaxRoot]
      /\ base' \in [Fees -> Nat] /\ cents' \in [Fees -> Nat]
  BY <1>1, <1>2 DEF ApplyWrite, TypeInv, RailsTypeOK
<1>5. RailsTypeOK'
  BY <1>1, <1>3, <1>4 DEF TypeInv, RailsTypeOK
<1>6. Taken' = Taken
  BY <1>3 DEF Taken
<1>7. IsFiniteSet(PutOn')
  <2>1. PutOn' \subseteq PutOn \cup {f}
    BY DEF ApplyWrite, TypeInv, RailsTypeOK, PutOn
  <2> QED
    BY <2>1, FS_AddElement, FS_Subset DEF TypeInv
<1> QED
  BY <1>5, <1>6, <1>7 DEF TypeInv

LEMMA RemoveWriteTypes ==
  ASSUME TypeInv, NEW w \in Workers, RemoveWrite(w) PROVE TypeInv'
<1>1. request' \in [Workers -> [op : Operations, row : 0..MaxRoot, fee : Fees \cup {NoFee}, amount : Nat]]
  BY RequestTypes DEF RemoveWrite, TypeInv
<1>2. RailsTypeOK'
  BY <1>1 DEF RemoveWrite, TypeInv, RailsTypeOK
<1>3. Taken' = Taken /\ PutOn' = PutOn
  BY DEF RemoveWrite, TypeInv, RailsTypeOK, Taken, PutOn, Removable
<1> QED
  BY <1>2, <1>3 DEF TypeInv

LEMMA PaysTypes ==
  ASSUME TypeInv, NEW p \in Payments,
         OpenSession(p) \/ \E w \in Workers : SynchronyWrite(w, p) \/ HandWrite(w, p)
  PROVE  TypeInv'
<1>1. CASE OpenSession(p)
  <2>1. Balance \in Nat
    BY <1>1, SumsRead DEF OpenSession
  <2>2. NewPayment(p, "card", root, Balance, NoFee) /\ UNCHANGED <<root, bill, fee, feeAt, base, cents, request>>
        /\ root \in 0..MaxRoot
        /\ request \in [Workers -> [op : Operations, row : 0..MaxRoot, fee : Fees \cup {NoFee}, amount : Nat]]
    BY <1>1 DEF OpenSession, TypeInv, RailsTypeOK
  <2> QED
    BY <2>1, <2>2, NewPaymentTypes
<1>2. ASSUME NEW w \in Workers, SynchronyWrite(w, p) PROVE TypeInv'
  <2>1. request' \in [Workers -> [op : Operations, row : 0..MaxRoot, fee : Fees \cup {NoFee}, amount : Nat]]
        /\ request[w].row \in 0..MaxRoot /\ request[w].fee \in Fees \cup {NoFee} /\ request[w].amount \in Nat
    BY <1>2, RequestTypes DEF SynchronyWrite, TypeInv
  <2>2. UNCHANGED <<root, bill, fee, feeAt, base, cents>>
    BY <1>2 DEF SynchronyWrite
  <2>3. CASE Payable(request[w].fee)
    <3>1. NewPayment(p, "synchrony", request[w].row, request[w].amount, request[w].fee)
      BY <1>2, <2>3 DEF SynchronyWrite
    <3> QED
      BY <2>1, <2>2, <3>1, NewPaymentTypes
  <2>4. CASE ~Payable(request[w].fee)
    <3>1. UNCHANGED <<state, method, at, amount, names>>
      BY <1>2, <2>4 DEF SynchronyWrite
    <3> QED
      BY <2>1, <2>2, <3>1 DEF TypeInv, RailsTypeOK, Taken, PutOn
  <2> QED
    BY <2>3, <2>4
<1>3. ASSUME NEW w \in Workers, HandWrite(w, p) PROVE TypeInv'
  <2>1. request' \in [Workers -> [op : Operations, row : 0..MaxRoot, fee : Fees \cup {NoFee}, amount : Nat]]
        /\ request[w].row \in 0..MaxRoot
    BY <1>3, RequestTypes DEF HandWrite, TypeInv
  <2>2. UNCHANGED <<root, bill, fee, feeAt, base, cents>>
    BY <1>3 DEF HandWrite
  <2>3. PICK a \in Amounts : NewPayment(p, "hand", request[w].row, a, NoFee)
    BY <1>3 DEF HandWrite
  <2>4. a \in Nat
    BY HandAmountAssumption
  <2> QED
    BY <2>1, <2>2, <2>3, <2>4, NewPaymentTypes
<1> QED
  BY <1>1, <1>2, <1>3

LEMMA RestTypes ==
  ASSUME TypeInv, \/ UNCHANGED railsVars \/ TakeOver \/ ChangeOrderSigned
                  \/ \E p \in Payments : VoidPayment(p) \/ SessionPaid(p) \/ Refund(p)
  PROVE  TypeInv'
<1>1. CASE UNCHANGED railsVars
  BY <1>1 DEF railsVars, TypeInv, RailsTypeOK, Taken, PutOn
<1>2. CASE TakeOver
  <2>1. root' \in 0..MaxRoot /\ root + 1 \in 0..MaxRoot
    BY <1>2, BillAssumption DEF TakeOver, TypeInv, RailsTypeOK
  <2>2. RailsTypeOK'
    BY <1>2, <2>1 DEF TakeOver, FeesMoved, TypeInv, RailsTypeOK
  <2> QED
    BY <1>2, <2>2 DEF TakeOver, TypeInv, Taken, PutOn
<1>3. CASE ChangeOrderSigned
  BY <1>3, BillAssumption DEF ChangeOrderSigned, TypeInv, RailsTypeOK, Taken, PutOn
<1>4. ASSUME NEW p \in Payments, VoidPayment(p) \/ SessionPaid(p) \/ Refund(p) PROVE TypeInv'
  <2>1. RailsTypeOK'
    BY <1>4 DEF VoidPayment, SessionPaid, Refund, TypeInv, RailsTypeOK
  <2>2. Taken' = Taken /\ PutOn' = PutOn
    BY <1>4 DEF VoidPayment, SessionPaid, Refund, TypeInv, RailsTypeOK, Taken, PutOn
  <2> QED
    BY <2>1, <2>2 DEF TypeInv
<1> QED
  BY <1>1, <1>2, <1>3, <1>4

(* Every variable keeps its type: every balance a handler acts on is a     *)
(* number of cents, none of them below zero, for any number of payments    *)
(* and fees.                                                               *)
THEOREM RailsTyped == RailsSpec => []RailsTypeOK
<1>1. RailsInit => TypeInv
  <2> SUFFICES ASSUME RailsInit PROVE TypeInv
    OBVIOUS
  <2>1. RailsTypeOK
    BY BillAssumption DEF RailsInit, RailsTypeOK
  <2>2. Taken = {} /\ PutOn = {}
    BY DEF RailsInit, Taken, PutOn
  <2> QED
    BY <2>1, <2>2, FS_EmptySet DEF TypeInv
<1>2. TypeInv /\ [RailsNext]_railsVars => TypeInv'
  BY StartsTypes, ApplyWriteTypes, RemoveWriteTypes, PaysTypes, RestTypes DEF RailsNext
<1>3. TypeInv => RailsTypeOK
  BY DEF TypeInv
<1> QED
  BY <1>1, <1>2, <1>3, PTL DEF RailsSpec
=============================================================================
