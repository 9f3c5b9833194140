----------------------------- MODULE CardRefunds -----------------------------
(***************************************************************************)
(* One card payment and its refunds.  Stripe takes the money, refunds it   *)
(* and tells the app in events; the app never refunds, it only records.    *)
(* Stripe promises no order and may deliver an event many times.  A        *)
(* webhook reads (the payment row, Stripe's own list of refunds) before    *)
(* the transaction that records, so two deliveries interleave.             *)
(*                                                                         *)
(* stripe, session, now and sent are Stripe; the rest is the app's.        *)
(***************************************************************************)
EXTENDS Integers, FiniteSets, FiniteSetsExt

CONSTANTS
  Refunds,   \* refunds Stripe may make of this charge
  Cents,     \* the amount of each
  Paid,      \* the amount of the payment
  Settings,  \* what Stripe and the server do this time, one chosen for good:
             \* listings: how a charge event can name its refunds, "inline",
             \*   "fetched" or "unlisted"; lifecycle: "final", a refund is
             \*   created succeeded and stays, "pending", it may first be
             \*   pending, "fails", it may fail in the end; methods: how the
             \*   customer may pay, "card" or "debit" (settles later);
             \*   hooks: bound on deliveries being served at one time
  MaxTime,   \* bound on Stripe's clock, in seconds
  NoRefund

ASSUME AmountAssumption == Paid \in Nat \ {0} /\ Cents \in [Refunds -> Nat \ {0}]
ASSUME RefundsAssumption == IsFiniteSet(Refunds) /\ NoRefund \notin Refunds
ASSUME BoundAssumption == MaxTime \in Nat
ASSUME SettingsAssumption ==
  \A s \in Settings : /\ s.listings \subseteq {"inline", "fetched", "unlisted"}
                      /\ s.lifecycle \in {"final", "pending", "fails"}
                      /\ s.methods \subseteq {"card", "debit"} /\ s.hooks \in Nat

RefundStates == {"none", "pending", "succeeded", "failed"}

VARIABLES
  stripe,    \* Stripe's state of each refund
  session,   \* the Checkout Session: "open", "processing" (a bank debit), "paid", "declined"
  now,       \* Stripe's clock
  setting,   \* one of Settings
  sent,      \* events Stripe has raised; each may be delivered many times
  status,    \* Payment.status, "none" before the row exists
  refunded,  \* Payment.refundedAmount
  named,     \* PaymentRefund rows by Stripe refund id, "none" where there is none
  standIn,   \* the unlisted stand-in row: its cents (0: no row) and its time
  hooks,     \* deliveries being served: the event and what was read for it
  applied,   \* events that have been recorded at least once
  dropped,   \* events acknowledged without a payment row to record them on
  receipts   \* receipts the customer was emailed

stripeVars == <<stripe, session, now, sent, setting>>
ledger == <<refunded, named, standIn>>
vars == <<stripeVars, status, ledger, hooks, applied, dropped, receipts>>

SumOf(S) == MapThenSumSet(LAMBDA r : Cents[r], S)
In(f, states) == {r \in Refunds : f[r] \in states}

\* What Stripe reports as amount_refunded: pending refunds are in it already.
OnCharge(f) == SumOf(In(f, {"pending", "succeeded"}))

Nothing == [r \in Refunds |-> "none"]

Init ==
  /\ stripe = Nothing /\ session = "open" /\ now = 0 /\ sent = {} /\ setting \in Settings
  /\ status = "none" /\ refunded = 0 /\ named = Nothing
  /\ standIn = [cents |-> 0, at |-> 0]
  /\ hooks = {} /\ applied = {} /\ dropped = {} /\ receipts = 0

-----------------------------------------------------------------------------
(* Stripe.                                                                 *)

\* An event carries the state of the charge at the time it was raised.
Event(kind, r, snap, at) == [kind |-> kind, refund |-> r, snap |-> snap, at |-> at]
Clock == {t \in {now, now + 1} : t <= MaxTime}

\* A card is paid at once; a bank debit completes the session unpaid and is
\* paid or declined later.
PayLater ==
  /\ "debit" \in setting.methods /\ session = "open" /\ session' = "processing"
  /\ sent' = sent \cup {Event("unpaid", NoRefund, Nothing, now)}
  /\ UNCHANGED <<stripe, now, setting, status, ledger, hooks, applied, dropped, receipts>>

Decline ==
  /\ session = "processing" /\ session' = "declined"
  /\ sent' = sent \cup {Event("declined", NoRefund, Nothing, now)}
  /\ UNCHANGED <<stripe, now, setting, status, ledger, hooks, applied, dropped, receipts>>

Pay ==
  /\ session = "processing" \/ (session = "open" /\ "card" \in setting.methods)
  /\ session' = "paid"
  /\ sent' = sent \cup {Event("completed", NoRefund, Nothing, now)}
  /\ UNCHANGED <<stripe, now, setting, status, ledger, hooks, applied, dropped, receipts>>

\* A refund is made: the charge and the refund each raise an event.
MakeRefund(r) ==
  /\ session = "paid" /\ stripe[r] = "none"
  /\ OnCharge(stripe) + Cents[r] <= Paid
  /\ \E s \in {"pending", "succeeded"}, t \in Clock :
       LET next == [stripe EXCEPT ![r] = s] IN
       /\ s = "pending" => setting.lifecycle # "final"
       /\ stripe' = next /\ now' = t
       /\ sent' = sent \cup {Event("charge", NoRefund, next, t), Event("refund", r, next, t)}
  /\ UNCHANGED <<session, setting, status, ledger, hooks, applied, dropped, receipts>>

\* A refund moves on; only its own event says so.
MoveRefund(r) ==
  /\ \E s \in {"succeeded", "failed"}, t \in Clock :
       LET next == [stripe EXCEPT ![r] = s] IN
       /\ stripe[r] = "pending" \/ (stripe[r] = "succeeded" /\ s = "failed")
       /\ s = "failed" => setting.lifecycle = "fails"
       /\ stripe' = next /\ now' = t
       /\ sent' = sent \cup {Event("refund", r, next, t)}
  /\ UNCHANGED <<session, setting, status, ledger, hooks, applied, dropped, receipts>>

-----------------------------------------------------------------------------
(* The Checkout Session's events: a paid one reads the row, then upserts   *)
(* it; an unpaid one records nothing; a declined one marks the row failed. *)

Busy == {hook.slot : hook \in hooks}
Begin(event, list) ==
  \E slot \in 1..setting.hooks :
    /\ slot \notin Busy /\ \A lower \in 1..(slot - 1) : lower \in Busy
    /\ hooks' = hooks \cup {[slot |-> slot, event |-> event, list |-> list, saw |-> status]}

CompletedRead(event) ==
  /\ event \in sent /\ event.kind = "completed"
  /\ Begin(event, Nothing)
  /\ UNCHANGED <<stripeVars, status, ledger, applied, dropped, receipts>>

\* (mutated: always paid)
StatusOfPaid(saw) == "paid"
StatusAfterPaid(saw) == IF saw = "refunded" /\ status # "none" THEN status ELSE "paid"
\* (mutated: a refunded payment counts as unpaid)
FirstIfUnpaid(saw) == saw # "paid"
FirstPaid(saw) == saw \notin {"paid", "refunded"}

CompletedWrite(hook) ==
  /\ hook \in hooks /\ hook.event.kind = "completed"
  /\ status' = StatusAfterPaid(hook.saw)
  /\ receipts' = IF FirstPaid(hook.saw) THEN receipts + 1 ELSE receipts
  /\ hooks' = hooks \ {hook}
  /\ applied' = applied \cup {hook.event}
  /\ UNCHANGED <<stripeVars, ledger, dropped>>

UnpaidWrite(event) ==
  /\ event \in sent /\ event.kind = "unpaid"
  /\ applied' = applied \cup {event}
  /\ UNCHANGED <<stripeVars, status, ledger, hooks, dropped, receipts>>

DeclinedWrite(event) ==
  /\ event \in sent /\ event.kind = "declined"
  /\ status' = "failed"
  /\ applied' = applied \cup {event}
  /\ UNCHANGED <<stripeVars, ledger, hooks, dropped, receipts>>

-----------------------------------------------------------------------------
(* charge.refunded and the refund events.                                  *)

\* The refunds a delivery can name: those in the event, those Stripe lists
\* when it is asked, or none when it will not list them.
Named(event) ==
  IF event.kind = "refund" THEN {[Nothing EXCEPT ![event.refund] = event.snap[event.refund]]}
  ELSE {f \in {event.snap, stripe, Nothing} :
          \/ "inline" \in setting.listings /\ f = event.snap
          \/ "fetched" \in setting.listings /\ f = stripe
          \/ "unlisted" \in setting.listings /\ f = Nothing}

RefundRead(event) ==
  /\ event \in sent /\ event.kind \in {"charge", "refund"}
  /\ \E list \in Named(event) : Begin(event, list)
  /\ UNCHANGED <<stripeVars, status, ledger, applied, dropped, receipts>>

\* No payment row to record it on: logged and acknowledged.
RefundUnknown(hook) ==
  /\ hook \in hooks /\ hook.event.kind \in {"charge", "refund"} /\ status = "none"
  /\ hooks' = hooks \ {hook}
  /\ dropped' = dropped \cup {hook.event}
  /\ UNCHANGED <<stripeVars, status, ledger, applied, receipts>>

\* A row's status only moves forward; a refund nobody recorded is added.
Rank(s) == CASE s \in {"none", "pending"} -> 0 [] s = "succeeded" -> 1 [] s = "failed" -> 2
\* (mutated: whatever came last wins)
AfterLatest(list) == [r \in Refunds |-> IF list[r] # "none" THEN list[r] ELSE named[r]]
After(list) == [r \in Refunds |->
  IF list[r] # "none" /\ (named[r] = "none" \/ Rank(list[r]) >= Rank(named[r]))
  THEN list[r] ELSE named[r]]
NewlyNamed(list) == {r \in Refunds : list[r] # "none" /\ named[r] = "none"}

\* The stand-in holds what the charge counts and no named row does.  Only a
\* charge event sizes it; a refund newly named by its own event shrinks it.
Left(cents, at) == IF cents > 0 THEN [cents |-> cents, at |-> at] ELSE [cents |-> 0, at |-> 0]
StandInShrunk(event, list) ==
  IF standIn.cents > 0 THEN Left(standIn.cents - SumOf(NewlyNamed(list)), standIn.at) ELSE standIn
\* (mutated: a refund named by its own event leaves it as it is)
StandInKept(event, list) ==
  IF event.kind = "charge"
  THEN IF standIn.cents > 0 /\ standIn.at > event.at THEN standIn
       ELSE Left(OnCharge(event.snap) - OnCharge(After(list)), event.at)
  ELSE standIn
StandInAfter(event, list) ==
  IF event.kind = "charge"
  THEN IF standIn.cents > 0 /\ standIn.at > event.at THEN standIn
       ELSE Left(OnCharge(event.snap) - OnCharge(After(list)), event.at)
  ELSE StandInShrunk(event, list)

Total(rows, rest) == SumOf(In(rows, {"succeeded"})) + rest.cents

RefundWrite(hook) ==
  /\ hook \in hooks /\ hook.event.kind \in {"charge", "refund"} /\ status # "none"
  /\ named' = After(hook.list)
  /\ standIn' = StandInAfter(hook.event, hook.list)
  /\ refunded' = Total(named', standIn')
  /\ status' = IF refunded' >= Paid THEN "refunded"
               ELSE IF status = "refunded" THEN "paid" ELSE status
  /\ hooks' = hooks \ {hook}
  /\ applied' = applied \cup {hook.event}
  /\ UNCHANGED <<stripeVars, dropped, receipts>>

\* A delivery dies before its transaction; Stripe will try again.
Fail(hook) ==
  /\ hook \in hooks
  /\ hooks' = hooks \ {hook}
  /\ UNCHANGED <<stripeVars, status, ledger, applied, dropped, receipts>>

-----------------------------------------------------------------------------
Next ==
  \/ PayLater \/ Decline \/ Pay
  \/ \E r \in Refunds : MakeRefund(r) \/ MoveRefund(r)
  \/ \E event \in sent : \/ CompletedRead(event) \/ UnpaidWrite(event) \/ DeclinedWrite(event) \/ RefundRead(event)
  \/ \E hook \in hooks : CompletedWrite(hook) \/ RefundUnknown(hook) \/ RefundWrite(hook) \/ Fail(hook)

Spec == Init /\ [][Next]_vars

-----------------------------------------------------------------------------
(* Properties.                                                             *)

TypeOK ==
  /\ stripe \in [Refunds -> RefundStates] /\ named \in [Refunds -> RefundStates]
  /\ session \in {"open", "processing", "paid", "declined"} /\ now \in 0..MaxTime /\ setting \in Settings
  /\ status \in {"none", "failed", "paid", "refunded"}
  /\ refunded \in Nat /\ standIn \in [cents : Nat, at : 0..MaxTime]
  /\ \A event \in sent : event.snap \in [Refunds -> RefundStates]
  /\ applied \subseteq sent /\ dropped \subseteq sent /\ receipts \in Nat

Succeeded == SumOf(In(stripe, {"succeeded"}))
Settled == hooks = {} /\ sent \subseteq applied
Acknowledged == hooks = {} /\ sent \subseteq applied \cup dropped

\* When every event has been recorded, in whatever order and however often,
\* the app's refunded total is what Stripe has refunded: the one rule of
\* applyRefunds, its forward-only statuses and its stand-in row together.
SettledTotal == Settled => refunded = Succeeded

\* The same when every event has merely been answered with a 200, as the
\* ones for a payment the app does not have yet are: Stripe sends no more.
AcknowledgedTotal == Acknowledged => refunded = Succeeded

\* No refund is counted both by its own row and by the stand-in: the total
\* never passes what Stripe was ever asked to refund.
NoDoubleCount == refunded <= SumOf(In(stripe, {"pending", "succeeded", "failed"}))

\* A customer is emailed one receipt for one payment, however often Stripe
\* repeats the event and whatever was refunded in between, if one delivery
\* is served before the next.
OneReceipt == setting.hooks = 1 => receipts <= 1

\* A payment refunded in full does not go back to paid while the refund
\* stands: a repeated completed event does not turn the money back on, if one
\* delivery is served before the next.
RefundStands ==
  [][(setting.hooks = 1 /\ status = "refunded" /\ status' = "paid") => refunded' < Paid]_vars
=============================================================================
