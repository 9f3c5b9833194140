# RCEestimator in TLA+

RCEestimator is the office system of an electrical contractor: a Node/Express
server over PostgreSQL (`src/`), a CRM in the browser (`client/`), and a field
app for technicians that works without signal (`field/`). It issues estimates,
takes signatures, puts sold work on Google calendars, takes payments through
Stripe, and keeps stock, hours and books.

Almost no handler of it locks anything. The usual shape is *read a row, decide,
await something, write the row by id*. What keeps the data right is a small
number of devices: a few conditional updates, a few unique indexes, one row
lock, the rules for merging events that arrive in any order, and a replay key
on every signature taken off-line. This project models those devices and the
handlers around them, and asks what they do and do not protect.

Every definition is translated from the code at the lines `PROJECT.json`
("map") gives. The paths below are relative to the repository.

## 1. Inventory

### 1.1 Components

| component | state it keeps | operations | how it meets the others |
|---|---|---|---|
| **Issued estimate** (`services/issuedEstimateService.ts`, `issuedEstimateSend.ts`, `officeAcceptance.ts`, `estimateArchive.ts`, `estimateExpiry.ts`, `app.ts`, `shared/estimateStatus.ts`) | one `IssuedEstimate` row per revision: number, revision, `supersedesId`, status, signature, void / lost / archived marks | issue, reissue, revise, send, first view, sign (link, in person, phone capture), office acceptance and its undo, void, lost, reopen, archive, archive pass, unarchive, nightly expiry, delete | signing takes over the invoice of the revision below, creates the job, archives competing offers; every money surface reads "live signed" rows |
| **Card payments and refunds** (`stripePayments.ts`, `paymentRefunds.ts`, `paymentReceipts.ts`) | `Payment`, `PaymentRefund` rows, one "unlisted" stand-in row per payment | open a checkout session; webhook for completed / unpaid / declined sessions, `charge.refunded`, `refund.*`; receipt | Stripe delivers events at least once and in any order; reads the invoice balance |
| **Field signature queue** (`field/src/lib/signatureQueue.ts`, `signatureGate.ts`) | IndexedDB rows of signatures, the flush's `running` / `rerun` flags | capture, pass over the queue, cancel, dismiss, remove, prune, flush at start and on signal | posts to the two routes of the next component |
| **In-person signing at the office** (`services/inPersonSigning.ts`, `routes/health-record.ts`) | `clientSignatureId` on the estimate, `SystemEvent` rows, refusal emails | sign in person, replay, refuse, file a cancelled/dismissed event | writes the issued estimate; answers the phone |
| **Signed invoice** (`accountSpine.ts`, `invoiceGroup.ts`, `issuedEstimateService.ts`, `officeAcceptance.ts`, `shared/changeOrderBlock.ts`) | `changeOrderForId` of drafts and estimates, `jobVisitId`, `Visit.status` and `estimatedCost`, `Payment.estimateId` | raise and revise a change order, sign and take the invoice over, create or join the job, void, undo, record and void a payment | called by every signing door; shares its rows with the issued estimate, the calendar and the payment rails |
| **Hand-recorded payments and voids** (`paymentVoid.ts`, `routes/financials.ts`) | `Payment` rows | record, void | invoice balance |
| **Financing fee** (`financingFee.ts`, `financingSettings.ts`) | `FinancingFee` rows, the Synchrony payment that names one | apply, remove, record the Synchrony payment | locks the invoice's or the fee's row; shuts the other rails while it waits; moves with a take-over |
| **Field quote queue** (`field/src/lib/quoteSync.ts`, `crmSync.ts`, `shared/draftLifecycle.ts`) | queued edits of drafts, a saved copy of each draft, the flush's flags | edit, replay, discard, settle, refresh the copy | the office's draft routes (`atomicEstimateService.ts`), which refuse an edit whose sender saw something else |
| **Field diagnostic and job sync** (`diagnosticSync.ts`, `crmSync.ts`, `db/database.ts`) | IndexedDB stores; the request wrapper of all queues | sync | every field queue |
| **Scheduling and slot holds** (`slotHolds.ts`, `scheduling.ts`, `schedule.ts`, `googleCalendar.ts`, `techCalendars.ts`, `sameDayJob.ts`, `visitConfirmations.ts`) | `SlotHold` rows (one per day, unique), calendar events, `Visit` dates and `googleEventId`, `VisitAssignment` | schedule, schedule anyway, reschedule (agents, CRM), ride along, cancel, pause, confirm | Google Calendar; chat, voice agents and the CRM all call it |
| **Booking chat** (`services/bookingChat/`) | chat sessions | a language model calls the scheduling tools | scheduling |
| **Inventory and purchasing** (`inventory.ts`, `purchaseOrders.ts`, `jobMaterials.ts`, `cardSpend.ts`) | movements and levels, purchase orders | receive, consume, count, order | job costs |
| **Time and payroll** (`timeTracking.ts`, `payrollLedger.ts`) | `ShiftEntry` and `TimeEntry` rows, `Visit.laborHours` | clock in and out, arrive, pause, complete, sweep, answer, correct, delete; work out a week | visits and their profitability |
| **Bank statements and treasury** | imported lines, ledger | import, classify | payments |
| **Email delivery and campaigns** (`transactionalEmail.ts`, `bounceWatcher.ts`, `resendWebhook.ts`, `emailCampaigns.ts`, `client/src/pages/CampaignsPage.tsx`) | lists, campaigns and one row per addressee, suppressed addresses; deliveries, bounces | send and go on sending in the background, unsubscribe; send, resume, mark | customer accounts are an audience; everything above sends mail |
| **Price book and draft engine**, **estimating arithmetic**, **health record**, **agents and middleware**, **CRM client**, **field screens**, **scripts**, **schema** | see `PROJECT.json` | | |

### 1.2 What is hard here

* **Interleaving.** Node runs one handler at a time but every `await` is a
  yield, the server may run more than one process, and PostgreSQL is used at
  READ COMMITTED. Only the supersede, the recording of refunds and the
  financing fee take a row lock (`FOR UPDATE`). A decision made on a row read before an await is the most
  common hazard of this code (`PROJECT.json`, "hazards").
* **Delivery.** Stripe repeats and reorders events; the phone repeats requests
  whose answer was lost; a request the phone gave up on may still be served.
* **No transaction across stores.** A booking writes a row, then a Google
  event, then a row; a crash or a failure leaves what was written.
* **Long legal sequences.** Revise, sign, void, undo, delete and sign again
  must always leave one agreement per chain.

### 1.3 What makes each modelled component correct

* *Issued estimate*: a signature lands only on an open offer, once, is never
  lost or overwritten; void is final; a chain has one agreement; archived means
  unsigned.
* *Refunds*: once every event has been recorded the app's total is Stripe's, a
  refund is never counted twice, one receipt is emailed.
* *Signature queue*: the phone says "recorded" only of what the office wrote,
  "refused" only of what it did not; nothing leaves the phone without a trace;
  a resend never signs twice; what waits is settled in the end.
* *Signed invoice*: of the revisions of an estimate one is the invoice; its
  change orders, its job and its money are found from it whatever was signed, voided or
  taken back; a job is contracted for the sum of what it serves and serves something.
* *Invoice money*: one financing fee at a time, paid once, for the amount it was
  worked on, and not removed once paid.
* *Time*: a clock runs once; a week pays each counted minute once; overtime is
  the minutes past the line, in the order they were worked.
* *Quote queue*: edits reach the office in order and none is sent past one that
  waits; one that arrives twice changes nothing; the screen shows what the technician left;
  nothing leaves the phone but for the office or by his own hand.
* *Campaigns*: whoever unsubscribes gets no letter from then on; a result is not gone
  back on; "sent" means everyone was tried.
* *Scheduling*: one booking at a time has a day; no technician is on two jobs
  on one day; a crash never takes a day off the calendar for good.

## 2. Modules

| module | what it is | proofs |
|---|---|---|
| `IssuedEstimate` | the estimate's row, every door as a read step and a write step of concurrent requests | `IssuedEstimate_proofs` |
| `CardRefunds` | one payment, its refunds, Stripe and the webhook | `Money_proofs` |
| `SignatureFate` | abstract: what phone and office promise about a captured signature | its refinement, in `SignatureQueue_proofs` |
| `SignatureQueue` | the queue, the wire and the office routes; implements `SignatureFate` | `SignatureQueue_proofs` |
| `JobBooking` | day claims, calendar, visit, assignments; requests with a step per await | `JobBooking_proofs` |
| `SignedInvoice` | change orders, the job, the money and what a take-over, a void and an undo do to them | `SignedInvoice_proofs` |
| `InvoiceMoney` | the rails of one invoice and the financing fee, with cents | `Money_proofs` |
| `TimeClock` | a technician's two clocks | `Payroll_proofs` |
| `Payroll` | extends `TimeClock` with what a workweek of its rows pays | `Payroll_proofs` |
| `QuoteQueue` | the field app's quote edits, the wire, the saved copy and the office's draft | `QuoteQueue_proofs` |
| `Campaign` | one email campaign: audience, background runs, the provider, the page's button | `Campaign_proofs` |
| `MC_*` | the instances TLC checks: order-free values, symmetry | |

How they compose. `SignatureQueue` is checked against its own abstract
specification by `Fate == INSTANCE SignatureFate WITH ...`, by TLC and by proof; `Payroll` extends `TimeClock`, so
that what it pays is worked out of every reachable set of rows. The estimate's three
modules divide one row among them: `IssuedEstimate` has the races for the
row itself, with revising and signing as a read and a write each; `SignedInvoice`
takes a revision and a signature as the one transaction the first module
shows them to be, and follows the rows that hang on it; `SignatureQueue` needs
of the estimate only `holder` and `closed`, which every other door may change at any
time. `InvoiceMoney` sees a take-over as the move of payments and fees that
`SignedInvoice!Sign` makes, and `CardRefunds` is what happens inside one of its card
payments.

Next to many definitions stands a second one marked *mutated*: the same
definition with one plausible slip. No action uses them. They are there so that
each property can be seen to fail when the code it is about is wrong
(`PROJECT.json`, "mutants").

### 2.1 IssuedEstimate and the code

State: one variable per column (`status`, `signed` = `signedAt`/`signedChannel`,
`voided` = `voidedAt`, `lost`, `archived`, `kept` = an `unarchived` event by a person,
`supersedes` = `supersedesId`, `capture` = `clientSignatureId`, `number`,
`revision`, `draftOf`), `tookOver` for the `invoice_taken_over` event the undo looks at, `lapsed` for the
30-day window, and `req`, what each request in flight has read.

`XRead` is the handler up to its last read, with its early returns as guards;
`XWrite` is its update. Where the update is *conditional* (the signature, the
archive pass) or made *under the row lock* (the supersede), the write step
evaluates the condition on the row as it then is; where it is keyed by id alone,
it writes what the read decided. `SignWrite` includes the take-over of
the invoice of every live signed row below (`adoptSupersededInvoice`), as the
code does in the same transaction. `Abandon` is a request that ends
with nothing written.

Abstractions, and why they are sound for the properties:

* a conditional `updateMany` is one step: PostgreSQL re-evaluates the WHERE
  under the row's lock at READ COMMITTED;
* the number of a new row is taken in the step that creates it: the loser of a
  race for it fails on the unique `(number, revision)` and leaves nothing behind,
  which is `Abandon`;
* a row being built by a revision has left the server in no answer, so no client
  names it (`Shown`); server-side lookups (`liveEstimateOfDraft`, the sweep) see it;
* which rows compete at an address is a nondeterministic choice (`CompeteRead`);
* emails, PDFs, rendered pages, and what the handlers do to jobs, payments
  and change orders are left out; jobs, payments and change orders are
  `SignedInvoice`'s.

### 2.2 CardRefunds and the code

State: Stripe's refunds, session, clock and the set of events it has raised (never
consumed, so every event may be delivered again at any time); the app's
`Payment.status` and `refundedAmount`, the named `PaymentRefund` rows, the stand-in
row, the deliveries being served (`hooks`, with what each read), and the
number of receipts. `CompletedRead`/`CompletedWrite` are the two statements of
`recordPaid`; `RefundRead`/`RefundWrite` are `handleChargeRefunded` /
`handleRefundEvent` up to and inside the transaction of `applyRefunds`, which locks
the payment row and is therefore one step. `Named` gives what Stripe may name in
each delivery: the refunds in the event, the list it returns when asked (its state
*now*, not the event's), or none.

`setting` is drawn once from `Settings`: whether Stripe's events carry their list
of refunds or it is fetched or not to be had, whether refunds pend or fail, card or bank
debit, and how many deliveries the server serves at once (`hooks`).

Amounts are small distinct numbers, so that no refund can stand in for another in
a sum. The event times are Stripe's seconds: two events may carry the same one.

### 2.3 SignatureQueue and the code

`row` is the IndexedDB row (state, `resultBody` as `result`, `attempts > 0` as
`tried`, `capturedOffline` as `offline`), `screen` the promise `captureSignature`
holds open, `pass`/`again` the module variables `flushInFlight`/`flushRerun`, `todo` the
list a pass took when it began, `request` the one request on the wire, `late` the
requests the phone gave up on. `Skip` is the re-read right before each send;
`Receive*` is the answer table; `Withdraw`, `RemoveUnfiled`, `Prune` the
exits; `Kill`/`Start` the app killed and started again with the rows on disk.
The office's routes are `Signs`, `Replays`, `RefusesSignature`, `Files` and
`RefusesEvent`.

`trouble`, drawn once from `Troubles`, is what may go wrong in a behaviour: `drop` (no answer, no signal),
`busy` (5xx/408/429), `auth`, `cut` (the body of a 2xx is lost), `kill`, `slow` (the
office serves a request after the phone gave up), `close` (the offer closes),
`other` (signed elsewhere), `unassign` (the technician is taken off the visit),
`crash` (the office stops between the answer and the event it files behind it). `MaxLate`
bounds the requests given up on and still out.

`SignatureFate` has one fate per capture: none, held, recorded, refused, withdrawn. The
mapping (`FateOf`) calls a cancelled capture *withdrawn* only once no request
that could still sign it is out (`Late`): until then the office may sign it,
and that step is `SignWithdrawn`.

Abstractions: captures are drawn in the order of their numbers; an answer and the
row's update are one step (the exits refuse a row on the wire; an exit that falls
between the answer and the update would be overwritten by it); the office
serves one request in one step, which is right for its *writes* because both
are conditional on the row; the hourly ceiling on refusal emails is left out.

### 2.4 JobBooking and the code

`held`/`stale` are the SlotHold rows and those past `expiresAt`; `calendar` the
events with their job, days and invited technician; `status`, `dayOf`,
`eventOf` the Visit; `team` the primary assignments in order. A request goes
*read → held → checked → placed → released → recorded*, one step per await of
`scheduleJob`/`rescheduleJob` (`services/scheduling.ts`): `Acquire` is the
transaction of `acquireSlotHolds`, `Check` the availability read
(`checkAvailabilityBlock`, with its exclusion of the job's own event by equal start
and end), `Place`/`Move` the Google write, `Release` the deletion of the holds in
`finally`, `Record` the update of the visit by id, `Assign` the assignment.
A ride-along (`sameDayJob.ts`) and a cancellation take the path without the claim.

`byHand` is a history variable: the jobs put on a day without looking at the calendar
("schedule anyway" and ride-alongs, both meant to do so).

Abstractions: all work takes the same hours of each day of its block, so two
events clash exactly when they share a day; the deposit gate is an input; all
jobs belong to one account (the same-account check of the ride-along is left
out); texts, emails, estimate visits (by the hour, no hold), the pause of a
job (`sameDayJob.ts` 500-600), voids of unscheduled jobs (`app.ts` 3242-3262),
the chat's hourly `withVerifiedFreeSlot` and confirmations are left out.

### 2.5 SignedInvoice and the code

State: the documents (`draftOf`, `chain` = what the walk over `supersedesId`
reaches, `joins` = `changeOrderForId`, `under` = the draft's, `adds` =
`addToCurrentJob`), the agreement (`signed` with its channel, `voided`, `replaced`
and `heirs` for the take-over's own marks), the work (`jobOf`, `jobs`, `figure` =
`Visit.estimatedCost` kept as how often each document's total is in it), and the
payment. `Sign` is the signature with `adoptSupersededInvoice`, one transaction;
creating a job, voiding, undoing and recording a payment are a read and one or
two writes (`VoidCancelsJob` is the void's own statement before its transaction).

`Doors` opens what a run needs: `pay`, `terms`, `crash`, `overlap` (requests
overlap; without it each is over before anything else starts, or lost by a crash in
between) and `late` (the create-job button on a void document).

Abstractions: totals are told apart by document instead of by amount, so a figure is right
exactly when every document's count is right; the job's cancellation from the calendar is
`EndJob`; drawing the merged bill and the texts are left out.

### 2.6 InvoiceMoney and the code

`root` is the live invoice, moved on by `TakeOver`; `bill` its documents' total, raised
by `ChangeOrderSigned`. `ApplyRead`/`ApplyWrite`, `RemoveRead`/`RemoveWrite`
and `SynchronyRead`/`SynchronyWrite` are `applyFinancingFee`,
`removeFinancingFee` and `recordSynchronyPayment` up to the transaction and
inside it; the second looks behind the row lock are `NoFeeYet`, `Removable` and
`Payable`. The fee is computed in cents, half up (`FeeOf`). `OpenSession` and
`SessionPaid` are apart by any time. One plan, and the lender's cut is not kept.

### 2.7 TimeClock, Payroll and the code

A row is a shift or a session with `from`, `to`, `flagged`, `answered`. One
action per route: `StartShift`, `EndShift`, `Arrive`, `EndJob`, `Confirm`, `Edit`,
`Create`, `Delete`; the half-hourly sweep is two steps, `SweepRead` and `SweepWrite`
by id. `labor` is recomputed exactly where the code calls `recomputeVisitLabor`.
`Payroll` writes `mergeIntervals`, `subtractIntervals`, `payableSegments` and
`attributeWorkweek` as folds over sets, taken in the order the code sorts by (`Walk`: the
element sorted last is folded in last), with the code's cursor; the properties compare
them with a reference definition over *sets of minutes*. Spans that start together
are folded in any one order: the code's sort keeps the order the rows came in.

Abstractions: a technician's own requests are served one at a time (the app has
one button down); typed hours overlap no other row of their clock; rates, commissions and
mileage are left out.

### 2.8 QuoteQueue and the code

`queue` is the IndexedDB queue of one draft, a function from the numbers the edits were
made under (its autoincremented key, in which order it is read), `mirror` the saved copy, `View` the
copy with the queue laid over it (`loadQuoteView`), `pass` a flush (what it took up,
whether something was delivered, the copy it read to save), `wire` the request out,
`waiting` the screens that hold on for their edit, `screen` another read of the quote
on its way to the saved copy. `Send` is the re-read right before a request,
`HearOk` / `HearRefused` / `HearNothing` the answer table, `RefreshRead` /
`RefreshSave` / `RefreshFails` the refresh behind a pass, `Discard` / `DiscardAll` /
`Settle` the exits. At the office `Clashes` is the optimistic check (409 unless
the field is what the sender saw or already what he asks for), `Shut` the signed quote,
`Reopened` the rule that a write that changes nothing does not reopen an issued quote.

Three history variables state the promise: `landed` (edits the office took), `mine`
(each line as the technician last left it) and `theirs` (lines the office touched, or
whose story the phone has lost because he discarded an edit that had landed, or
a late read went over it). Lines in `theirs` are nobody's promise.

Abstractions: one draft; a line has two fields, its quantity and its option; the phone never
mints an id twice; starting and rebasing a quote, the options themselves, settings,
the price review and pruning are left out.

### 2.9 Campaign and the code

`row` is `EmailCampaignSend.status` by address, `suppressed` the `EmailSuppression` table,
`shown` the status the Campaigns page last read, which is what it offers its button for,
and `run` the calls of `sendCampaign` under way, one step per await: `Count`,
`Snapshot`, `Mark`, `Load`, then for each row `TakeUp` (asking whether it is suppressed),
`Send` and `Record`, and at the end `Tally` and `Close`. The route answers before the run begins
and keeps nobody from starting another; a run that throws is logged and gone
(`Cut`, which is a restart too). `Outcome` is what the provider does: takes the letter, takes it
and the answer is lost, refuses it, answers 429.

Two history variables state the promises: `first`, the audience the first snapshot
named, and `before`, what a run found when it was pressed (rows with a result) and
last recorded (suppressions).

Abstractions: one campaign, whose text and list are not edited; addresses are compared
without case; the audience is read and the rows made in one step; batches and
pauses are left out (a run may rest anywhere); the check of the sending domain ends a run
before it has done anything.

## 3. Runs

Times are for two workers on a small machine. Every passing run is exhaustive
within its bounds.

| run | instance | asks | result |
|---|---|---|---|
| `estimate_serial` | all 18 doors, 1 request at a time, 2 rows, 1 draft, 1 capture, crashes | does any *sequence* of legal calls lose a signature or take a customer's back? | no; 551 294 states, 13 s |
| `estimate_sign_race` | 2 concurrent requests, 2 rows, 1 capture; issue, reissue, revise, sign, accept, undo, lost, void, send, delete, archive pass | what the WHERE of the signature, the WHERE of the archive pass and the check under the row lock protect; is there one agreement per chain? | all hold; 1 405 286 states, 67 s |
| `invoice_life` | 3 documents of up to 3 drafts, 1 job, 1 payment; every door but `late`, requests lost between read and write | do money, job, figure and change orders stay with the invoice through take-overs, voids and undos? | yes; 1 539 461 states, 70 s |
| `money_race` | 2 concurrent requests, 2 fees, 3 payments, one take-over, one change order | is a fee one, paid once, paid as worked on, and kept while paid? | yes; 1 520 685 states, 45 s |
| `refunds` | 2 refunds of different amounts; lists inline or fetched with 2 deliveries at once; lists never readable with refunds that pend; bank debit | is the total Stripe's, whatever the order and repetition? one receipt? refunded stays refunded? | yes; 4 229 989 states, 112 s |
| `signature_resend` | 2 captures for one estimate; three worlds: no answer and late service; no answer, kill, lost body, signed elsewhere, closed; no answer, 5xx, 401, closed | does the queue implement `SignatureFate`? does everything leave a trace? is a tried row tried before the screen is told? | yes; 3 091 732 states, 153 s |
| `signature_settles` | 2 captures; no answer, 5xx, technician taken off the visit | does what waits get its answer? | yes, under the fairness of section 4; 132 s |
| `booking_race` | 2 concurrent requests, 2 jobs, 2 days (blocks of one and of both), 2 event ids, 1 technician; schedule, schedule anyway, reschedule by an agent, ride, cancel | one winner per day; the technician never in two places | both hold; 2 783 623 states, 61 s |
| `booking_crash` | 2 concurrent requests, 1 job, 2 days; schedule, reschedule by the CRM, crash anywhere | is any day lost for good? | no; 244 089 states, 24 s |
| `clock_pay` | 2 shifts, 2 sessions, 2 visits, time 0..4, weeks of 3 with 2 regular hours, 1 correction at the office | does a clock run twice? is a minute paid twice or not at all? is overtime what came last? | no, no, yes; 578 558 states, 80 s |
| `quote_queue` | 1 line, 2 values per field, 2 edits, 1 change by the office and the customer's signature | are edits sent in order? does the screen show what the technician left, and is it what reaches the office? has a refusal a reason? is a replay idle? | all hold; 1 181 436 states, 40 s |
| `campaign` | 2 runs at once, 2 addresses, a cap of 1 row, 1 run lost; letters taken and unheard of, refused, 429 | does unsubscribing stop the letters? is a result gone back on? does "sent" mean everyone? | yes, no, yes; 5 180 805 states, 85 s |

### 3.1 Bounds, and why they are enough

* `Rows` 2: one row and its revision. Chains of three are `invoice_life`'s (as
  one-step revisions) and the theorems'. Row ids are never used twice, so a run
  also sees creation fail for want of one; `MaxNumber` never binds.
* `Workers` 2: each hazard of section 1.2 is one request's stale read against another's
  write. The theorems hold for any number. `invoice_life` has 1 on purpose: with
  two the code does not keep two of its properties, section 6.
* `Docs` 3 with `Drafts` 3: a chain of three, an invoice with two change orders, and
  an invoice, its revision and a change order are all in it. Also checked by hand: 3
  documents of 2 drafts with 2 jobs (7 243 364 states) and of 2 drafts with 1 job.
* `Fees` 2, `Payments` 3: a second fee, a second Synchrony payment and one payment
  of another rail. `FirstBill` 3 makes the deposit 1, `HalfRate` 50 makes the fee
  round (3 asks 1.5), so a base taken for a balance would show.
* Refunds 2 with amounts 2 and 1 of a payment of 3: partial, other partial and
  full; a refund taken for another would change the sum. `MaxTime` 2 gives
  events older, equal and newer. `hooks` bounds deliveries *at once*, not
  repetitions, which are unbounded.
* `Captures` 2: a resend needs one; the gate and the pass's order need two.
  `Troubles` lists three worlds instead of their union only to keep the run short: the
  union of the last two (4.07 million states) and `drop`, `slow` with no
  `MaxLate` (3 780 876) were checked by hand.
* `Horizon` 4 with `Week` 3: rows that begin in one week and end in the next, and rows
  of two or three that overlap, touch and leave gaps. `MaxTyped` 2 (1 981 746 states) was checked by hand.
* `Lines` 1, `MaxEdits` 2: an add and an edit that needs it, two edits of a field,
  an edit and an order; two fields make edits that do not need one another. Replays,
  passes and restarts are unbounded. Two edits and two changes by the office (3.96 million states) were checked by hand.
* `Addresses` 2 with `Cap` 1: a campaign that needs two runs, and in each run a row taken up
  while the other waits. `Runs` bounds the runs *at once*; presses are unbounded
  as long as the page still shows a draft.
* Days 2 with blocks {1}, {2}, {1,2}: equal, disjoint and overlapping
  blocks, the three cases the exclusion by equal start and end tells apart.
  `Events` bounds live and referenced events at once; an id nobody refers to is as
  good as a new one.

Symmetry is used on interchangeable ids in runs without liveness only.
Deadlock is not checked in the runs that use up ids of rows, refunds, days, events,
shifts or edits (the system may really stop there); the signature runs and `campaign` check it.

### 3.2 Mutants

Each property of each run fails in its own run when one mapped
definition is replaced by a mutated form of itself: a dropped guard, a test made
too early, a value kept that should be reset (40 in `PROJECT.json`).
`NoFork` (one revision per row) is proved and not in a run: the check under
the row lock and the unique `(number, revision)` each keep it, so in an instance
this small no *single* slip breaks it. `TypeOK` is in a run where a slip of the code can
break it (`money_race`, `clock_pay`); it is proved of all nine systems.

## 4. Fairness

* `SignatureQueue!FairSpec`: weak fairness of the queue's own steps, of reading an
  answer that has arrived and of the office serving what it has been sent (all
  three are running code); `<>[]signal`, the phone is in signal for good in the
  end; strong fairness of a capture being *served* and its answer *heard* each time
  it is sent again and again (a network that loses every answer forever would
  satisfy nothing); weak fairness of the screen's own continuation.
  `RestartedSpec` adds weak fairness of `Start`: the technician opens the app
  from time to time. `Settles` needs it: after a 5xx nothing in the app sends
  the row again by itself (section 6).
* `JobBooking!FairSpec`: weak fairness of each request's next step, and of each
  claimed day's two minutes running out. The clock runs on, and Express runs a handler
  on unless the process stops, which is `Crash`.
* The other modules state safety only and assume no fairness.

## 5. What is proved

All proofs are checked by tlapm for every value of the constants.

### 5.1 `IssuedEstimate_proofs`: any number of concurrent requests

1. `TypeCorrect`: the type invariant. One lemma per group of doors.
2. `SignatureSafe`, `SignOnceSafe`: `SignatureWriters` shows that the only steps
   that change `signed` are `SignWrite` and `UnacceptWrite`; the first has the
   whole condition in its guard.
3. `ChainInvariant`, from which `NoForkSafe`, `CaptureOnceSafe`,
   `IssueSparesSignedSafe`:
   `ChainInv == TypeOK /\ Unborn /\ WellBuilt /\ NoFork /\ CaptureOnce`.
   `NoFork` alone is not inductive: a supersede links a row under construction,
   so one must know that this row exists, is linked to nothing, is being built by one
   request only (`WellBuilt`) and that ids not given out yet carry nothing (`Unborn`).
4. `ArchivePassSafe` (assumes the archive *button* is not used): the archive
   pass and the signature cannot interleave into an archived sale. The button can,
   section 6.

### 5.2 `IssuedEstimate_proofs`, second half: one request at a time

Assuming `OneWorker`, the promises section 6 shows broken by overlap all hold,
in any sequence, with crashes: a signed row stays a sale until voided
(`SerialStatusKept`), void is final (`SerialVoidFinal`), only an office acceptance is taken
back (`SerialNotErased`), a sale is never deleted (`SerialNeverDeleted`), a lost offer
never replaced (`SerialLostNotReplaced`). `SerialInv` adds that the marks of
a row agree with its status and that what the request in flight read still
holds (`StillTrue`), which is just what overlap takes away.

`SerialOneAgreement` (`OneAgreementPerChain`) is the last of them, over `FamilyInv`. What a row
replaces is found by walking links, so the proof needs to know how the walk changes: a link leads
to a row of the table (`RowsLinked`), nothing leads to a row being built (`MadeAlone`), and so
every step leaves what a row replaces alone or makes it less, but for the row a
supersede has just linked, which nobody has signed. A signature retires what is signed below in its
own transaction; above the row it signs there is nothing, since a replaced row is closed.

### 5.3 `JobBooking_proofs`

1. `TypeCorrect`.
2. `OneWinnerPerDay`, assuming `Prompt` (a booking is done within the
   hold's two minutes: `"slow"` is not among the doors). Inductive as it stands over `Base`
   (types, and that a request being served names a job).
3. `TechsStayApart`, assuming `Prompt` and `ByAgents` (the CRM's rescheduling is
   left out, section 6 says why). The argument is the classic one of check then act
   under a lock: `Vetted` says that for a request that has checked and not yet written,
   no event of the same technician is in its days. It survives the other
   requests' writes because `OneWinsTheDay` puts those on other days. It is established by
   `CheckVets`, the one place where the code's exclusion of "the job's own
   event" by equal start and end matters: what looks like the own event and
   is not is already apart from it by the invariant itself. `Linked` (an event
   referred to belongs to that job), `Unbooked` and `Shaped` (what each door's request
   can know) support it.

### 5.4 `SignedInvoice_proofs`

For any documents, drafts, jobs, payments and requests. The first three hold with every
door open, `overlap` and `late` included.

1. `TypeCorrect`.
2. `OneInvoice` (`OneLiveInvoice`). A document with one above it is never signed
   again, a signature retires every live one below it, and the writes of a void and of an undo
   only ever take `Live` away. `Histories` (a free id has no signature, and a
   revision is of its own draft) makes it inductive.
3. `GroupsFlat` (`OneLevelDeep`): what a change order joins joins nothing. `ByDraft`
   carries it: a document joins an invoice exactly when its draft was raised on one, and a
   draft's `under` names a document that joins none. So a take-over, which moves
   what joined an older revision to the newer one of the same draft, keeps groups flat.

The next three assume `OneAtATime` (a request is over, or dead between its read and its writes, before
the next begins, and no job is made on a void document): section 6 shows the code breaking each
with overlap or on a void document. Their invariant is
`Serial == IInv /\ Paper /\ Work /\ Reads`.

4. `MoneyFound` (`MoneyFollowsInvoice`). `Kept`: money is on a document that was not taken over and
   that is of no invoice, or of a void one. It needs the history of the paper: revisions
   make chains (`Chains`), a document is not live once a newer one is signed and one that was
   taken over has an heir (`Retired`), a change order that left its invoice left a void one
   (`Moved`).
5. `FigureAgrees` (`ContractedFigure`): what a request read of a figure still holds when it
   writes (`Reads`), and an unsigned document has no job (`Assigned`). Of what a signature
   replaces only one can be live, so at most one gives its job and its share up (`OneGiver`).
6. `JobsServe` (`JobServesLiveWork`): what is void or taken back does not keep a job that serves
   nobody else, and what gives its job up has an heir. A void ends the job *before* its own
   transaction, so a crash between the two leaves a live agreement whose job is ended, never a job to be done
   that serves nothing.

### 5.5 `Money_proofs`, second half: the rails of an invoice

For any amounts, fees, payments, requests and take-overs: `FeeOnce`, `FeeLocked`,
`FeeFinanced`. Each is the second look behind its row lock: a request's read may be
as old as it likes. Three facts make them inductive: nothing is written, or about to
be, on a revision not yet signed (`FutureClean`, so a take-over never moves a fee onto
another); a payment names a fee that was put on (`NamesKnown`); and a request to record a
Synchrony payment carries its fee's own figures (`AsksWhatIsOwed`).

`RailsTyped` (`RailsTypeOK`): that a balance is a number of cents is a fact about a sum, so it needs
that only finitely many payments have been made and fees put on (`TypeInv`), and the sum lemmas of
section 5.9; that it is not below zero is what each handler asks before it goes on.

### 5.6 `Payroll_proofs`: the two clocks and what a week of them pays

1. `RowsCorrect`: every row is well formed, whatever was stamped, typed or deleted.
2. `ClocksRunOnce` (`OneAtATime`): that no row begins after now (`Past`) is what the
   induction adds. What is typed overlaps nothing (`True`), and a running row reaches past
   now, so nobody types a running clock beside a running clock; arriving stops the only
   one there is.
3. `TypeCorrect` (`TypeOK`): a visit's hours are a number because the rows in use are finitely many.
4. `WeeksPaidOnce` (`PaidOnce`) and 5. `OvertimeGoesLast` (`OvertimeInOrder`), for any number
   of rows, over `IInv /\ Orderly`: no two rows of a clock share a minute (`Clear`), closed rows
   end by now and a closed shift is not empty.

The argument for the last two. A fold is the value of a recursive function that the library takes by
`CHOOSE`, so first there has to be one: `WalkExists` and `WalkUnique` show, from the least
subset of a finite set where it would fail (`LeastSubset`), that every finite set can be walked
by a function and in one way only; `WalkOf` gives the equation each fold is then used by (`SumIs`,
`MergeIs`, `CutIs`, `WalkedIs`; once for each: none of the provers instantiates a lemma about every operator). On
these, each by the least subset again: merging keeps what is covered
(`MergedCovers`: nothing merged so far begins later than the next span); cutting leaves what no
cover has (`CutTo`: up to the cursor the gaps are what the covers so far leave, and every gap ends
before the last cover starts, which is why a later cover never reaches back into one); a walk over
the earliest segments has filled as many minutes as come before the next one (`WalkedTo`), so the
regular hours run out where the set of minutes says (`LateIs`). `SegmentsOf` and `FilledIsWorked` put
them together: the segments of a week share no minute and are the minutes worked, and
`SumOfSizes` makes a sum of their lengths the size of that set.

### 5.7 `Campaign_proofs`

For any addresses, any number of runs at once, any cap and any trouble of the provider's.

1. `TypeCorrect`.
2. `UnsubscribeHolds` (`UnsubscribeStands`): `OutHolds`, that suppressions only grow and
   that a run about to send holds none of those it has seen. Asking as each row is *taken up*
   is what makes it inductive; the snapshot and the load are as old as they like.
3. `RecordedHolds` (`RecordedNotRepeated`): `DoneHolds`, that a row keeps its result and
   is not in what a run pressed later has loaded.
4. `SentMeansAll` (`SentReachedAll`): `AudienceHolds`. A run past its count has an audience
   with rows (`first`), a row never goes back to pending, so what `Tally` found
   finished still is when `Close` writes it, whatever other runs did between.

### 5.8 `SignatureQueue_proofs`

For any captures and estimates and any world of the network, the phone and the office.

1. `TypesHold`, `FollowsUpOnce` (`OneFollowUp`), `CancelsUnrecorded`
   (`CancelledUnrecorded`), with no assumption, over
   `Base == Shape /\ Followed /\ RowsHold /\ WireHolds /\ CancelHolds`. `WireHolds` is the
   heart: while a request is on the wire its row stays as it was sent, because every exit refuses
   a row in flight, so an answer always meets the row it is about; and a "yes" to a
   signature is true. `RowsHold` says why a row left and that a recorded one is on record.
2. `NothingLostSilently` (`LeavesTrace`), assuming `Filing` (the office does not stop between
   the answer and the event behind it, `"crash"`; section 6 has what happens when it does).
   `EventsHold`: an event answered "yes" is on file.
3. `TriesBeforeTelling` (`TriedBeforeTold`). `TryHolds` lists where an asking screen's untried
   capture may be: on this pass's list, on the wire, waiting for the pass `again` promises, or left
   by a pass cut short.
4. `KeepsPromise`: every step is a step of `SignatureFate` or changes neither fate nor
   signer, assuming `Assigned` (no `"unassign"`; section 6 has why). `LostStays` and
   `RefusalsHold` carry it: an estimate signed by another or closed is lost to a
   capture for good, so a refusal read from the office stays true, and a request served
   late cannot sign for a capture the phone called refused. The one delicate step is
   that late service: it may write the signature and, being the last request out, settle the
   withdrawal in one step, which is the abstract `SignWithdrawn`.

### 5.9 `Money_proofs`, first half: refunds

For any finite set of refunds of any amounts and any number of deliveries served at once.

1. Sums. `SumOf` folds over a set by a function on its subsets. That such a function exists and is
   the only one is shown from a least subset where it would not be (finite sets have
   one), and from that come the facts the rest cites: a sum is a number, it splits over disjoint sets, it grows
   with the set.
2. `TypeCorrect`: the variables' types, with `Base`, what an event and a delivery can hold.
3. `ReceiptOnce` (`OneReceipt`), `RefundNotUndone` (`RefundStands`): with one delivery served at a
   time what it read is so when it writes (`Served`). With two at once both fail, section 6.
4. `CountedOnce` (`NoDoubleCount`), assuming `OneListing`: Stripe names a charge's refunds always or
   never. `Covered` carries it. When they are named, the stand-in is never more than the rows
   that have failed, since nothing an event counts is without a row; when they never are, the stand-in and the rows together
   are never more than the refunds made. Where a list comes now and then, the code counts
   twice (section 6), so the hypothesis is needed.
5. `TotalSettles` (`SettledTotal`), assuming `OneListing` and `NoneFails`, a refund that succeeded does
   not fail: with refunds that fail the code does not keep it either (section 6). `Told`: every state
   of a refund is in an event of that refund, and once that event has been recorded the row is no
   earlier than it. So when all are recorded the rows are Stripe's state, and by `Covered` the
   stand-in adds nothing.

### 5.10 `QuoteQueue_proofs`

For any number of lines, values, edits, passes, restarts, discards and changes by the office. None
has a hypothesis.

1. The replay. `Overlay` is a function recursive over the edits' numbers; what a *set* of edits does to
   one line (`Laid`) is shown by the least number where it would be otherwise, and from it what
   the rest cites: an edit of another line does nothing to this one (`LaidQuiet`), a set of
   edits can be split at a number (`LaidSplit`), the first or the last laid apart (`LaidFirst`,
   `LaidLast`), and an edit already in the copy can be laid again under those that follow it
   (`LaidHides`).
2. `QuotesSentInOrder` (`SentInOrder`), over `OInv == Typed /\ Ordered /\ Passing`. `Ordered`:
   the office took everything before an edit it took, and what it took and the phone did not hear of is
   one edit at most. `Passing`: what a pass has left misses no queued edit below one of its own.
3. `QuotesShowMine` (`ScreenKeepsMine`), `QuotesLoseNothing` (`NothingLost`) and `QuoteReplaysAreIdle`
   (`ReplayChangesNothing`), over `LInv`. Its heart is `Agree`: on a line nobody else touched, the
   edits *taken* lead from the saved copy to the office's quote and the edits *owed* from there to
   the quote as the technician left it. An answer that is lost moves an edit from owed to taken
   without the phone's knowing; that it may be laid twice is what `Adds` and `EditsHeld` allow (an add meets no line
   but its own, an edit a line that is there or is about to be). `CopyFits` says that the copy a
   pass reads is still the office's when it is saved, `RefusedNew` that what the office refused it had not taken.
4. `QuoteRefusalsHaveReason` (`RefusalsAreTheirs`), over `RInv`. `AsSeen`: a change of a quantity
   still owed meets, when its turn comes, what its sender saw or what he asks for. A discard takes
   along what depends on the edit discarded, and that set is the least one closed under `DependsOn`, which
   is why the changes left behind still meet what they saw. Of *moves* the same is not true (section 6).
5. `QuotesTyped` (`TypeOK`).

Each invariant was checked by TLC first, on 1 line with 3 edits and 2 lines with 2.

### 5.11 Only model-checked

* `OneAgreementPerChain` with concurrent revisions. (`OneInvoice` proves it of concurrent requests with a
  revision as one step, `SerialOneAgreement` with its steps apart and one request at a time; with three rows
  and two requests the code breaks it, section 6.)
* Both liveness properties (`Settles`, `DayComesBack`): liveness under fairness is beyond the prover.

The proofs of section 5 hold under their assumptions only.

## 6. Where the code and what is said of it differ

The plainest (`LandsTwice`; `QuoteQueue` with 2 lines, 1 edit and nobody at the office):

* A technician drags a line to another option without
  signal. The order lands, its answer is lost, the phone sends it again. The office
  compares the options with what the sender saw *before* it asks whether the order is already
  there (`services/atomicEstimateService.ts:1618`), answers 409, and the quote's
  queue stops behind it although nobody else touched the quote. The next line says
  "The draft is already in this order: a replay, or a re-press. No reopen, nothing written",
  and `tests/fieldQuoteOffline.test.ts:8` "every write the phone replays must leave the SAME
  state when it lands twice".

The next (`MovesRefusedForReason`; `QuoteQueue` with 2 lines, 2 edits and nobody at the office):

* Without signal a technician removes a line, drags another to an option, and then
  discards the removal. The drag stays, since `dependsOn` does not count a removal among what an
  order needs (`field/src/lib/quoteSync.ts:726-768`), and its order leaves the first line out. The
  office has it and refuses the order as incomplete
  (`services/atomicEstimateService.ts:1575-1582`); the quote's queue stops behind a
  refusal that nobody else caused, though `quoteSync.ts:714-724` says what needs a discarded edit goes with it.
  Likewise a refused order shown on its own screen leaves the queue alone
  (`quoteSync.ts:197-219`), without the moves made behind it that saw it, and those are refused in turn.

### Further disagreements

Each, like the two above, was found with the module and instance given (two requests and one draft
in `IssuedEstimate` unless said otherwise; `Paid = 3`, refunds of 2 and 1 in
`CardRefunds`) by checking the property named, which is defined in the module. They are
not runs, to keep the set of runs small; a `.cfg` is quickly written from
one of those here.

| what happens | property | instance | what is said |
|---|---|---|---|
| an estimate email leaves while the customer signs: `sendEstimateEmail` writes back the status it read, so the row ends signed with status `sent` and leaves every list of live signed rows (`issuedEstimateSend.ts:790`) | `SignedStatusKept` | 1 row, 2 requests; issue, send, sign | `invoiceGroup.ts:147` "the only status it can ever move to is "void" (every writer of IssuedEstimate.status was audited ...)" |
| a reissue finds a revision that is built and not linked yet, and builds on it; the older row is signed, then the newest, then the link is made: two live agreements in one chain | `OneAgreementPerChain` | 3 rows, 2 requests; issue, reissue, revise, sign | `issuedEstimateService.ts:1348` "the invoice is the newest SIGNED revision of the number" |
| `archiveEstimateByHand` reads, then sets `archivedAt` by id; signed in between, the sale is archived (`estimateArchive.ts:209`) | `ArchivedUnsigned` | 1 row; issue, sign, archive | `estimateArchive.ts:22` "archived => unsigned => no invoice, no payment, no job" holds "by construction, not by convention" |
| the delete checks `signedAt` before its transaction and deletes by id (`app.ts:3096`) | `SignedNeverDeleted` | 1 row; issue, sign, delete | `app.ts:3065` "The guard is absolute: a SIGNED estimate ... never deleted" |
| two undos of an office acceptance with the customer's own signature between them: the second clears it (`officeAcceptance.ts:375`) | `SignatureNotErased` | 1 row; issue, send, sign, accept, unaccept | `officeAcceptance.ts:289` "a signature is voided with a reason, never erased" |
| an undo that read before a void committed writes the reopened status over it | `VoidIsFinal` | 1 row; issue, send, accept, unaccept, void | `shared/estimateStatus.ts:20` "Never reversible" |
| the check under the row lock looks at the signature and the replacement again, not at the status: an offer marked lost meanwhile is replaced (`issuedEstimateService.ts:1532`) | `LostNotReplaced` | 2 rows; issue, revise, send, lost | `issuedEstimateService.ts:1476`, a revision behind a lost row is refused |
| deleting an unsigned revision in the middle of a chain cuts the link, so signing the newer one takes nothing over: two live agreements of one number (`app.ts:3095`) | `OneAgreementPerNumber` | 3 rows, 1 request at a time; issue, revise, sign, delete | `issuedEstimateService.ts:1348` "the invoice is the newest SIGNED revision of the number" |
| a `charge.refunded` retried after its refund failed sizes a new stand-in from an amount that no longer stands (`paymentRefunds.ts:227`) | `SettledTotal` | fetched, fails, card, `MaxTime` 2, `hooks` 1 | `paymentRefunds.ts:33` the total holds "in whatever order Stripe sent them"; `:155` "a retried older snapshot leaves it alone" |
| an older charge event retried with a working list names its refunds but leaves a stand-in sized by a newer one: counted twice (`paymentRefunds.ts:225`) | `NoDoubleCount` | fetched and unlisted, final, card, `MaxTime` 2, `hooks` 1 | `paymentRefunds.ts:152` the stand-in "goes away once every dollar is named" |
| two deliveries of the completed event at once both find no row and both send the receipt (`stripePayments.ts:684`) | `OneReceipt` without its `hooks = 1` | fetched, final, card and debit, `MaxTime` 1, `hooks` 2 | `stripePayments.ts:682` "Receipt goes out only on the FIRST paid recording" |
| a repeated completed event writes a status decided before the refund was recorded (`stripePayments.ts:710`) | `RefundStands` without its `hooks = 1` | fetched, final, card, `MaxTime` 1, `hooks` 2 | `stripePayments.ts:688` "must not turn the money back on" |
| a refund event that comes before the payment has a row is acknowledged and forgotten (`paymentRefunds.ts:353`) | `AcknowledgedTotal` | fetched, final, card, `MaxTime` 1, `hooks` 1 | `paymentRefunds.ts:33`, `:28` reserves the warning for "a charge made outside the invoice flow" |
| recorded, answer lost, technician taken off the visit: the resend gets 403 and the row turns red (`routes/health-record.ts:2000`) | `Promise` | 1 capture; drop, unassign | `signatureQueue.ts:21-22` "the resend gets the original success" |
| a cancellation is filed while the capture's own request is still being served (`inPersonSigning.ts:464`) | `CancelledUnrecorded` without its `slow` condition | 1 capture; drop, slow | `inPersonSigning.ts:461-463` such an event "would be false ... Refused" |
| cancelled after a lost answer; the office refuses because the signature *is* recorded; the row is removed as never recorded (`signatureQueue.ts:258`) | `RemovedUnrecorded` | 1 capture; drop | `signatureQueue.ts:256` "nothing was ever recorded for it" |
| a row no pass reached has no tries, so its first send is not taken for a held one and its refusal emails nobody (`signatureQueue.ts:431`) | `RefusalNoticed` | 2 captures, 2 estimates; drop, close | `inPersonSigning.ts:79-81` "the customer may have left believing they signed, so Kyle is emailed" |
| the office stops between the answer and the event it files behind it (`inPersonSigning.ts:488`) | `LeavesTrace` | 1 capture; drop, crash | `inPersonSigning.ts:43-44` "so nothing the phone held goes silently" |
| the body of a 2xx cannot be read: the row is recorded, the screen says "queued" (`signatureQueue.ts:146`) | `ToldRecorded` | 1 capture; cut | `signatureQueue.ts:94` "saved on this phone, NOT recorded yet"; `:19` "A 2xx is "Signed"" |
| after a 5xx nothing sends the row again until an unrelated event (`signatureQueue.ts:478`) | `Settles` | 1 capture; busy; `FairSpec` | `routes/health-record.ts:1985-1986` "is sent again" |
| a booking that outlives its two minutes loses its day to another, and its release, by days alone, drops the other's hold (`slotHolds.ts:106`) | `OneWinsTheDay` | 1 job, 1 event, 2 requests; schedule, slow | `slotHolds.ts:8` "exactly one caller wins the day" |
| the CRM reschedules a job to another technician: his calendar is read, the event is moved without changing who is invited, and he is assigned; his own calendar does not show the job (`scheduling.ts:686`) | `AssignedApart` | 2 jobs, 2 events, 2 technicians, 1 request; schedule, crm_reschedule | `schedule.ts:431-433` "a job lands on that tech's own calendar ... so their calendar alone sees their other booked jobs" |
| the CRM's rescheduling with a named technician reads his calendar and moves an event that is on another's | `TechsApart` | 2 jobs, 2 events, 2 technicians, 1 request; schedule, crm_reschedule | as `AssignedApart` above |
| a signed change order revised into an unsigned revision stops counting: it is superseded at once (`invoiceGroup.ts:180`) | `LiveChangeOrdersCount` | `SignedInvoice`, 3 documents | `invoiceGroup.ts:175-178` it "keeps counting until that revision is signed" |
| a change order's draft is raised on an invoice, the invoice's revision is signed, the draft is then issued: it joins the replaced one (`issuedEstimateService.ts:399-401`: "It always names the ROOT invoice", frozen from the draft) | `NoStrandedChangeOrder` | `SignedInvoice`, 3 documents | `issuedEstimateService.ts:1350`, what belongs to a replaced revision comes along |
| create-job asks only for a signature: on a void estimate it makes a job that serves nothing (`app.ts:4433`, `accountSpine.ts:42`) | `JobServesLiveWork` | `SignedInvoice`, door `late` | `accountSpine.ts:41` "A job is work the customer agreed to" |
| create-job twice at once reads no job twice and makes two; a change order joins one job twice and is counted twice (`accountSpine.ts:50`) | `ContractedFigure`, `JobServesLiveWork` | `SignedInvoice`, 2 jobs, 2 requests, door `overlap` | `app.ts:4432` "One tap, idempotent"; `accountSpine.ts:31` |
| a card session opened before a fee was put on is paid while the fee waits; a payment that read before it is recorded after | `RailsShut` | `InvoiceMoney` as in `money_race` | `stripePayments.ts:545-546` "While a financing fee is applied AND NOT YET PAID the balance carries it, and a card must never be" asked for it |
| two sessions opened for one balance are both paid (`stripePayments.ts:588`) | `NotOverpaid` | as in `money_race` | `stripePayments.ts:584` "card and bank both pay exactly what's due" |
| a session opened before a take-over is paid after it, on the replaced row; its metadata names that one | `MoneyOnLiveRoot` | as in `money_race` | `issuedEstimateService.ts:1351-1353`, the money follows the invoice |
| clocking out, or arriving elsewhere, stops a session without summing its visit again (`timeTracking.ts:149`, `:214`) | `LaborIsTheSum` | `TimeClock` as in `clock_pay` | `timeTracking.ts:286-288` laborHours "is kept as the sum of CLOSED, COUNTING sessions" |
| answering for, correcting or deleting a shift leaves a job clock running outside any shift | `JobInsideShift` | as in `clock_pay` | `timeTracking.ts:190` "job time sits inside the shift" |
| the sweep flags by id what it read as running: a row stopped in between is flagged and stops counting (`timeTracking.ts:342`) | `StoppedStaysCounted` | as in `clock_pay` | `timeTracking.ts:350` what is flagged "stop[s] accruing until the end time is confirmed", said of open clocks |
| a session that began before the week's end and a shift that began after it pay their common minutes in both weeks | `PaidOnceOverall` | as in `clock_pay` | `timeTracking.ts:720-722` "Shift hours + job hours would pay the same minutes twice; this is the one place that arithmetic lives" |
| the server stops between the provider's yes and the row's update, or a second press loads a row another run is sending: the letter goes out twice (`emailCampaigns.ts:264`) | `MailedOnce` | as in `campaign` | `emailCampaigns.ts:183-184` "sent rows never repeat, so a crash mid-campaign resumes instead of double-sending" |
| the page offers its button for a draft only, so a campaign stopped by the cap, a 429 or a restart is never taken up again (`CampaignsPage.tsx:127`) | `ResumeOffered` | as in `campaign` | `emailCampaigns.ts:36-37` "the next Send press resumes"; `app.ts:5515-5516` "a second press on a \"sending\" campaign continues the pending rows" |

Also met while modelling, without a property of their own:

* `scheduling.ts:3-4` says "If any SMS fails, the calendar change is rolled
  back". Nothing is rolled back: a failure after the event is written
  (`:510`) leaves an event no visit refers to, and the retry finds its own day taken.
* Two bookings of one job for different days, both past the read, leave the first event with
  no visit that refers to it.
* A cancellation that overlaps a rescheduling leaves a cancelled job with
  dates, since each writes by id what it decided (`scheduling.ts:743`).
* A move does not count an event with the same start and end as the job's own
  (`schedule.ts:501`). Where technicians are concerned, `TechsStayApart` shows it
  harmless; in a company-wide check it hides jobs of no or another technician.
* A void leaves its document's share in a job's figure (`app.ts` 3213-3277);
  `ContractedFigure` says so, since `accountSpine.ts:65` promises the sum only for joins.
* An undo does not look at change orders that are open, so money recorded through one
  may stand on an undone row.
* `editShift` with the end cleared drops the frozen rate (`timeTracking.ts:485`; 483
  "a rate already frozen stays frozen"); `startShift` and the commission route (`routes/time.ts` 255-304) check and then create: two at
  once make two.
* `QuoteQueue`: an edit whose answer was lost is replayed over an office edit that put the
  field back to what the phone saw (values are compared, not versions:
  `atomicEstimateService.ts` 652-654 accepts it); an add replayed after the office removed the line brings it back; a read
  of the quote that arrives late takes the saved copy back, hides a delivered edit
  and may cause a 409 later (`theirs` keeps these out of the properties);
  discarding an edit whose answer was lost reports it gone though the office has it;
  after a 5xx nothing sends the queue again until the next edit, start or signal.
* `Campaign`: a run pressed before another closed the campaign marks it "sending" again
  (`emailCampaigns.ts:235`) though nothing is left to send; if it is then lost, the campaign reads so for good.
  A letter taken whose answer was lost is recorded failed, and failed rows are never tried again.

## 7. What is not modelled

By choice: user interface, price book and estimating engine (large sequential
computations, whose unit tests reach them), transactional email, bounces and their webhooks (the provider's), imports and ingest
(single transactions keyed by a hash), the language-model chat (the booking behind
it is `JobBooking`), operator scripts. Of the modelled parts, what each leaves out is in section 2.

Built in this order: `IssuedEstimate` and its proofs; `CardRefunds`;
`SignatureFate` and `SignatureQueue` with its proofs and refinement; `JobBooking` and its proofs; `SignedInvoice`,
`InvoiceMoney` and `TimeClock`, each with its proofs; `Payroll`; `QuoteQueue`; `Campaign` and its proofs; then the proofs of
`CardRefunds` and of `SignedInvoice` and `IssuedEstimate` with one request at a time; then those of
`QuoteQueue`, the types of `InvoiceMoney` and `Payroll`.

Worth adding, most important first: inventory movements against the levels they maintain and the
life of a purchase order; the pause of a job, hourly estimate visits and the release of an unscheduled
job in `JobBooking`; several drafts and starting a quote off-line in
`QuoteQueue`; the delivery and bounce marks of an estimate's emails. Theorems worth proving:
`OneAgreementPerChain` with concurrent signatures and
one revision at a time.

## 8. Running

In this directory, with the community modules and TLAPS's library on the path:

    tlc -workers 2 -config booking_race.cfg MC_JobBooking
    tlapm JobBooking_proofs.tla

`PROJECT.json` names, for every run, its module, configuration and
properties; for every mapped definition, the source lines it stands for; for every
hazard, the properties that would catch it.
