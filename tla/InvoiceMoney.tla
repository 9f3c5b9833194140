---------------------------- MODULE InvoiceMoney ----------------------------
(***************************************************************************)
(* The money of one invoice: payments recorded by hand, card payments by   *)
(* checkout session, and the financing fee with the Synchrony payment that *)
(* pays it.  Every handler first reads where the invoice stands and then   *)
(* writes; the fee's writers look again behind a row lock.  A signed       *)
(* revision may take the invoice over, and a signed change order may raise *)
(* its bill, at any point between.                                         *)
(***************************************************************************)
EXTENDS Integers, FiniteSets, FiniteSetsExt

CONSTANTS
  Fees,       \* ids of financing fees to come
  Payments,   \* ids of payments and checkout sessions to come
  Workers,    \* requests served at one time
  Amounts,    \* what a payment recorded by hand may be
  FirstBill,  \* the invoice's total at first
  MaxBill,    \* bound on what change orders raise it to
  MaxRoot,    \* bound on take-overs
  HalfRate,   \* what the customer pays of the plan's rate, in percent of the balance
  NoFee

ASSUME NoFeeAssumption == NoFee \notin Fees
ASSUME BillAssumption == FirstBill \in Nat /\ MaxBill \in Nat /\ MaxRoot \in Nat /\ HalfRate \in Nat
ASSUME HandAmountAssumption == Amounts \subseteq Nat \ {0}

VARIABLES
  root,      \* the live invoice: 0, then one up with each take-over
  bill,      \* billedTotal of its documents
  state,     \* a payment: "none", "open" (a session), "paid", "void", "refunded"
  method,    \* "hand", "card" or "synchrony"
  at,        \* Payment.estimateId, or the invoice in a session's metadata
  amount,    \* Payment.amount, or what the session charges
  names,     \* Payment.financingFeeId
  fee,       \* a financing fee: "none", "live", "removed"
  feeAt,     \* FinancingFee.estimateId
  base,      \* FinancingFee.feeBaseCents
  cents,     \* FinancingFee.feeCents
  request    \* per worker, what it is doing and what it read

invoice == <<root, bill>>
payments == <<state, method, at, amount, names>>
fees == <<fee, feeAt, base, cents>>
railsVars == <<invoice, payments, fees, request>>

Idle == [op |-> "idle", row |-> 0, fee |-> NoFee, amount |-> 0]

RailsInit ==
  /\ root = 0 /\ bill = FirstBill
  /\ state = [p \in Payments |-> "none"] /\ method = [p \in Payments |-> "hand"]
  /\ at = [p \in Payments |-> 0] /\ amount = [p \in Payments |-> 0]
  /\ names = [p \in Payments |-> NoFee]
  /\ fee = [f \in Fees |-> "none"] /\ feeAt = [f \in Fees |-> 0]
  /\ base = [f \in Fees |-> 0] /\ cents = [f \in Fees |-> 0]
  /\ request = [w \in Workers |-> Idle]

-----------------------------------------------------------------------------
(* Where the money on the invoice stands.                                  *)

Counts(p) == state[p] = "paid"
Collected == MapThenSumSet(LAMBDA p : amount[p], {p \in Payments : Counts(p) /\ at[p] = root})
BeforeFee == bill - Collected
\* (mutated: an invoice already overpaid is not told apart)
OwesAny == BeforeFee # 0
Owes == BeforeFee > 0
DepositIn == Collected >= bill \div 3

LiveFees(row) == {f \in Fees : fee[f] = "live" /\ feeAt[f] = row}
Locked(f) == \E p \in Payments : Counts(p) /\ names[p] = f
InProgress == \E f \in LiveFees(root) : ~Locked(f)
FeeOwed == MapThenSumSet(LAMBDA f : cents[f], LiveFees(root))
Balance == BeforeFee + FeeOwed

\* To the cent, half up.
FeeOf(balance) == (balance * HalfRate + 50) \div 100

Free(w) == request[w] = Idle
Starts(w, op, f, a) == request' = [request EXCEPT ![w] = [op |-> op, row |-> root, fee |-> f, amount |-> a]]
Doing(w, op) == request[w].op = op
Done(w) == request' = [request EXCEPT ![w] = Idle]

NewPayment(p, how, row, a, f) ==
  /\ state[p] = "none"
  /\ state' = [state EXCEPT ![p] = IF how = "card" THEN "open" ELSE "paid"]
  /\ method' = [method EXCEPT ![p] = how]
  /\ at' = [at EXCEPT ![p] = row]
  /\ amount' = [amount EXCEPT ![p] = a]
  /\ names' = [names EXCEPT ![p] = f]

-----------------------------------------------------------------------------
(* The financing fee.                                                      *)

ApplyRead(w) ==
  /\ Free(w) /\ LiveFees(root) = {} /\ DepositIn /\ Owes
  /\ Starts(w, "apply", NoFee, BeforeFee)
  /\ UNCHANGED <<invoice, payments, fees>>

\* Looked at again behind the invoice's row lock.
\* (mutated: not looked at again)
NoFeeAsked(row) == row \in 0..MaxRoot
NoFeeYet(row) == LiveFees(row) = {}

ApplyWrite(w, f) ==
  /\ Doing(w, "apply") /\ Done(w) /\ fee[f] = "none"
  /\ IF NoFeeYet(request[w].row)
     THEN /\ fee' = [fee EXCEPT ![f] = "live"]
          /\ feeAt' = [feeAt EXCEPT ![f] = request[w].row]
          /\ base' = [base EXCEPT ![f] = request[w].amount]
          /\ cents' = [cents EXCEPT ![f] = FeeOf(request[w].amount)]
     ELSE UNCHANGED fees
  /\ UNCHANGED <<invoice, payments>>

RemoveRead(w, f) ==
  /\ Free(w) /\ fee[f] = "live"
  /\ Starts(w, "remove", f, 0)
  /\ UNCHANGED <<invoice, payments, fees>>

\* Behind the fee's row lock: no counted Synchrony payment names it.
\* (mutated: the lock is not looked for)
RemovableAny(f) == fee[f] = "live"
Removable(f) == fee[f] = "live" /\ ~Locked(f)

RemoveWrite(w) ==
  LET f == request[w].fee IN
  /\ Doing(w, "remove") /\ Done(w)
  /\ fee' = IF Removable(f) THEN [fee EXCEPT ![f] = "removed"] ELSE fee
  /\ UNCHANGED <<invoice, payments, feeAt, base, cents>>

\* The balance must be the one the fee was worked on, and the whole of it is
\* financed.
\* (mutated: a fee worked on an older balance is taken)
BaseHeld(f) == f \in Fees
BaseHolds(f) == base[f] = BeforeFee

SynchronyRead(w, f) ==
  /\ Free(w) /\ f \in LiveFees(root) /\ ~Locked(f) /\ DepositIn
  /\ BaseHolds(f) /\ BeforeFee + cents[f] > 0
  /\ Starts(w, "synchrony", f, BeforeFee + cents[f])
  /\ UNCHANGED <<invoice, payments, fees>>

\* Behind the same lock: the fee is still live and unpaid.
\* (mutated: only that it is live)
PayableLive(f) == fee[f] = "live"
Payable(f) == fee[f] = "live" /\ ~Locked(f)

SynchronyWrite(w, p) ==
  LET r == request[w] IN
  /\ Doing(w, "synchrony") /\ Done(w)
  /\ IF Payable(r.fee) THEN NewPayment(p, "synchrony", r.row, r.amount, r.fee) ELSE UNCHANGED payments
  /\ UNCHANGED <<invoice, fees>>

-----------------------------------------------------------------------------
(* The other rails, shut while a fee waits for its Synchrony payment.      *)

HandRead(w) ==
  /\ Free(w) /\ ~InProgress
  /\ Starts(w, "hand", NoFee, 0)
  /\ UNCHANGED <<invoice, payments, fees>>

HandWrite(w, p) ==
  /\ Doing(w, "hand") /\ Done(w)
  /\ \E a \in Amounts : NewPayment(p, "hand", request[w].row, a, NoFee)
  /\ UNCHANGED <<invoice, fees>>

\* A card payment is refunded at Stripe, never voided.
VoidPayment(p) ==
  /\ state[p] = "paid" /\ method[p] # "card"
  /\ state' = [state EXCEPT ![p] = "void"]
  /\ UNCHANGED <<invoice, method, at, amount, names, fees, request>>

OpenSession(p) ==
  /\ ~InProgress /\ Balance > 0
  /\ NewPayment(p, "card", root, Balance, NoFee)
  /\ UNCHANGED <<invoice, fees, request>>

\* The customer pays, at any later time: nothing is looked at again.
SessionPaid(p) ==
  /\ state[p] = "open" /\ state' = [state EXCEPT ![p] = "paid"]
  /\ UNCHANGED <<invoice, method, at, amount, names, fees, request>>

Refund(p) ==
  /\ state[p] = "paid" /\ method[p] = "card"
  /\ state' = [state EXCEPT ![p] = "refunded"]
  /\ UNCHANGED <<invoice, method, at, amount, names, fees, request>>

-----------------------------------------------------------------------------
(* The documents.                                                          *)

FeesMoved == [f \in Fees |-> IF feeAt[f] = root THEN root + 1 ELSE feeAt[f]]

TakeOver ==
  /\ root < MaxRoot /\ root' = root + 1
  /\ at' = [p \in Payments |->
             IF at[p] = root /\ state[p] \notin {"none", "open"} THEN root + 1 ELSE at[p]]
  /\ feeAt' = FeesMoved
  /\ UNCHANGED <<bill, state, method, amount, names, fee, base, cents, request>>

ChangeOrderSigned ==
  /\ bill < MaxBill /\ bill' = bill + 1
  /\ UNCHANGED <<root, payments, fees, request>>

RailsNext ==
  \/ TakeOver \/ ChangeOrderSigned
  \/ \E p \in Payments : VoidPayment(p) \/ OpenSession(p) \/ SessionPaid(p) \/ Refund(p)
  \/ \E w \in Workers :
       \/ ApplyRead(w) \/ RemoveWrite(w) \/ HandRead(w)
       \/ \E f \in Fees : ApplyWrite(w, f) \/ RemoveRead(w, f) \/ SynchronyRead(w, f)
       \/ \E p \in Payments : SynchronyWrite(w, p) \/ HandWrite(w, p)

RailsSpec == RailsInit /\ [][RailsNext]_railsVars

-----------------------------------------------------------------------------
(* Properties.                                                             *)

RailsTypeOK ==
  /\ root \in 0..MaxRoot /\ bill \in Nat
  /\ state \in [Payments -> {"none", "open", "paid", "void", "refunded"}]
  /\ method \in [Payments -> {"hand", "card", "synchrony"}]
  /\ at \in [Payments -> 0..MaxRoot] /\ names \in [Payments -> Fees \cup {NoFee}]
  /\ amount \in [Payments -> Nat]
  /\ fee \in [Fees -> {"none", "live", "removed"}] /\ feeAt \in [Fees -> 0..MaxRoot]
  /\ base \in [Fees -> Nat] /\ cents \in [Fees -> Nat]
  /\ request \in [Workers -> [op : {"idle", "apply", "remove", "synchrony", "hand"},
                              row : 0..MaxRoot, fee : Fees \cup {NoFee}, amount : Nat]]

\* No invoice carries two financing fees, two clicks and a take-over between
\* them included.
OneLiveFee == \A f, g \in Fees :
  (fee[f] = "live" /\ fee[g] = "live" /\ feeAt[f] = feeAt[g]) => f = g

\* A fee is paid by one Synchrony payment at a time, and one that is paid is
\* not removed: a removal and a payment, or two payments, that start together
\* do not both happen.
FeeLocks ==
  /\ \A p, q \in Payments :
       (Counts(p) /\ Counts(q) /\ names[p] = names[q] /\ names[p] # NoFee) => p = q
  /\ \A p \in Payments : (Counts(p) /\ names[p] # NoFee) => fee[names[p]] = "live"

\* What Synchrony financed is the balance the fee was worked on and that fee,
\* whatever was voided, paid or added to the bill since the fee was put on.
FeeMatchesFinanced ==
  \A p \in Payments : names[p] # NoFee => amount[p] = base[names[p]] + cents[names[p]]

\* While a fee waits for its payment no other rail takes money (not so: a
\* payment already on its way, or a session already open, does).
RailsShut ==
  [][\A p \in Payments : (~Counts(p) /\ Counts(p)' /\ method'[p] # "synchrony") => ~InProgress]_railsVars

\* The live invoice is never paid more than it asks (not so: two sessions).
NotOverpaid == \A p \in Payments : method[p] = "hand" \/ Balance >= 0

\* Money counts on the live invoice (not so: a session opened before a
\* take-over, or a write that read the invoice before it).
MoneyOnLiveRoot == \A p \in Payments : Counts(p) => at[p] = root
=============================================================================
