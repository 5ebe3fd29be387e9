# A formal model of the reservations and agent services

TLA+ modules, TLC configurations and TLAPS proofs for the part of this
repository that decides who sits where and when, and what becomes of the money
held for it: the slot booking core of `services/reservations`, the closures a
manager saves while bookings go on, the deposit behind a booking, the refunds
and the messages a closure owes, and the waitlist; and for the part of `services/agent` that
decides which agent sessions run and how they end.

## 1. The system

The repository is a TypeScript monorepo.

| Part | What it keeps | Model |
|---|---|---|
| `services/reservations`: booking seam (`book-slot.ts`, `assert-bookable.ts`) | per-table advisory locks, the venue row lock | `Booking` |
| holds (`hold.ts`, `confirm-hold.ts`, `move-to-hold.ts`) | `reservation_holds`: slot, session, expiry | `Booking` |
| reservations (`reservation.ts`, `reservation-state-machine.ts`, `reservation-modification.ts`) | `reservations`: status, table, window | `Booking`, partly |
| availability engine (`packages/availability`) | nothing: pure functions of configuration and bookings | `SlotRules`, partly |
| closure command (`closure-command*.ts`, `closure-impact*.ts`, `closure-apply.ts`) | date rules, `availabilityVersion`, `closure_outcomes` | `ClosureCommand`, partly |
| deposits (`deposit.ts`, `deposit-state-machine.ts`, `stripe.ts`, `stripe-webhook.ts`, `deposits.ts`) | `deposits` against PaymentIntents of the provider | `Deposit`, partly |
| cancellation and no-show (`reservation-cancellation.ts`, `reservation-no-show.ts`) | the reservation's status after its deposit | `Deposit`, partly |
| closure refunds (`closure-refund*.ts`) and the sweep of lost ones (`closure-outcome-sweeper.ts`) | the refund status of each outcome row, jobs in the queue | `ClosureRefund`, `JobQueue` |
| closure notices (`closure-notice*.ts`, `contact-policy.ts`) and their sweep | the delivery statuses of each outcome row, jobs in the queue | `ClosureNotice`, `JobQueue` |
| job queue (`jobs/`, `job-worker.ts`) | jobs under ids in BullMQ | `JobQueue`, partly |
| waitlist (`waitlist.ts`, `waitlist-notifier.ts`) | `waitlist_entries`: status, position; expiry jobs | `Waitlist` |
| agent sessions (`services/agent`, `packages/agent-core/src/session-lifecycle`) | `sessions` rows; slots, controllers and a breaker in memory | `AgentSessions`, partly |
| rebook after a venue's cancellation | one-time tokens | planned |
| availability configuration, history, Tonight commands | rules, changes, expiries | planned, the version check is in `ClosureCommand` |
| tables, floor plans, transitions pipeline, event streams | status rows, open connections | planned or left out |
| the rest of `services/agent`, `services/users`, `apps`, other packages, tools, scripts, infrastructure | generated UI, profiles, build and deployment | left out |

How the parts interact: every slot write goes through one function, `bookSlot`,
given by its caller what to check and what to write. It opens a transaction,
share-locks the venue row if the availability gate is to judge the request,
takes the advisory lock of the table, reads bookings, holds and configuration
again, and writes. Status changes, hold releases, hold expiry and the sweep
write the same two tables and take none of these locks. A closure takes the
venue row exclusively (by updating its version), so it waits for the bookings
in flight and they wait for it; the moves it makes take the table locks too.

A deposit is a row here and a PaymentIntent at the payment provider. Staff
routes, cancellations and no-shows write the row first (a compare-and-set on its
status), then call the provider, and after an error ask the provider what
happened and may take the write back. The provider reports through webhooks,
which write the same row. Cancellations and no-shows write the reservation's
status last.

A closure that cancels a booking leaves an outcome whose refund is pending and a
job that settles it against the live deposit. The job may be lost, so a sweep
adds it again; a manager may press Retry; a refund may fail after it was
accepted, which a webhook reports. All of them write the outcome's one status.
Beside it goes a job that tells the guest, and another one if the manager reopens
the closure and has the guests told of it: each reads the outcome's delivery
statuses, sends on the channels not delivered yet and writes all statuses back.
A guest whom neither channel reached is on the call list.

A party on the waitlist that is told its table is ready gets an expiry job,
which gives the table to the next party. Seating, cancelling and notifying
renumber the queue with a read and a later write, and nothing takes a lock.

An agent session is a row and, while it runs, a slot of the concurrency gate and
an abort controller in the process's memory. Its execution, cancels, the
liveness monitor and deletions write the row, most of them through a
compare-and-set. An orchestration takes a slot under an id of its own. The
result of each execution is reported to the circuit breaker of the alerts.

What is hard here: requests read before their transaction and write after it;
the clock passes a hold's expiry at any point; staff and guests write one row
through different doors with different compare-and-sets; a closure decides on a
list computed in an earlier request; two kinds of locks are taken in two orders
of tables; the provider's answers get lost, its requests outlive their callers,
its webhooks come late, twice and out of order; jobs are lost, repeated and run
late; a process dies and takes slots and controllers with it. `PROJECT.json`
lists these hazards, each at its line.

What makes each part correct: no two bookings that hold a slot overlap on a
table; a hold keeps its slot until it expires and is spent at most once; a
cancelled or no-show booking never gets a new slot; a saved closure leaves no
booking inside it that nobody decided on; only bookings the manager was shown
are touched; no configuration save is lost; everyone is answered; a card that
was charged is on record as charged, a guest is refunded once, and no booking is
closed on the strength of a payment that did not happen; a refund recorded as
settled is settled, and a pending one is answered; a guest is told of a closure
once, and whoever was not told is on the call list; a table is promised to one
party, and a party that left stays away; no more agents run than the limit
allows, no slot leaks, and the end of a session is never overwritten.

## 2. The modules

**`SlotRules`** holds the pure rules: `Overlaps` (half-open windows),
`Transitions` (the reservation state machine), the bands of closures
(`ClosesSeating`, `BlocksTable`, `RunsIntoBand`) and `Strands`
(`strandReason`), which looks at rules in the order they were saved and lets
the first one answer.

**`Booking`** is the core. State and code:

| Variable | Code |
|---|---|
| `res`, `hold` | the rows of `reservations` and `reservation_holds`; a hold's `age` says where the clock is against its `expiresAt`: before, exactly at, past |
| `closed` | the closures in force, in `createdAt` order (constant here, changed by `ClosureCommand`) |
| `shares`, `tlock` | `SELECT … FOR SHARE` on the venue row; `pg_advisory_xact_lock` of a table |
| `pc`, `req` | where a request handler is and what it has read and been asked |

A handler goes `idle → (read) → asked → (opened) → locked → passed → idle`.
`Ask…` is everything before the transaction, one action per door: `AskHold`
(`holdService.create`), `AskConfirm` (`confirmHold`), `AskMoveTo`
(`modifyViaHold`), `AskCreate` (`createWithConflictCheck`), `AskEdit` with
`PreCheck` (`updateWithConflictCheck`, which reads the row and the day's slices
separately), `AskWalkIn` (`createWalkIn`). `ShareVenue`, `LockTable`, `Check`
and `Refuse` are the body of `bookSlot`, and the `Write…` actions are the
callers' `write` callbacks with the commit. A hold's insert first deletes the
session's other holds; what that delete finds is fixed in `Check` (`drops`),
before the commit, so two creates may miss each other's row. `Aside` is what
runs beside all this without a lock: status changes, releases, expiry, the
delete-on-read and the sweep.

**`SlotClaims`** is the abstract specification: claims on a table's time,
granted in one atomic step only if no other claim stands in the way. It knows
no transaction, lock or stale read. **`BookingClaims`** maps `Booking` onto it
(`BooksAsOneStep == Claims!Spec`).

**`ClosureCommand`** extends `Booking` with managers. `Decide` is the preview
and the decision on it; `TakeVenue`/`StaleVersion` the compare-and-set on
`availabilityVersion`, enabled when no booking shares the row; `Plan` the
impact scan inside the transaction and the test that the decision covers it
(`checkDecisions`); `ReadRows`, `LockMove`, `Save`/`ApplyRefused` are
`applyTransitions` and the commit; `Reopen` removes a rule unless that strands
a booking. `Book` is any step of `Booking`, with a booking's share lock made to
wait while a save holds the row.

**`Deposit`** is one reservation with its deposit. State and code:

| Variable | Code |
|---|---|
| `booking` | the reservation's status |
| `row` | the deposit's `status` and `forfeitOrigin`, and whether its capture timestamp is past `ROLLBACK_SAFETY_WINDOW_MS` |
| `post` | `postCaptureRefundCents` |
| `intent`, `said`, `ours`, `theirs` | at the provider: the PaymentIntent's status, the answer kept under each idempotency key, the refunds the service made, those made on the dashboard |
| `wire`, `events` | requests whose caller gave up and that may still arrive; webhooks to be delivered or repeated |
| `h` | where each request is and what it has read |
| `evening` | the setting of the behaviour: where the deposit starts, the no-show policy, whether requests overlap, what may happen; chosen once |

A request comes in by one of six doors: the routes `apply`, `forfeit` and
`release`, a cancellation by the `guest` or by `staff`, a `no_show`. `Look` is
`resolveDeposit` and its twin in `recordNoShow`; `Claim` the compare-and-set
from `held`; `Call` the capture or the cancel; `Check` the retrieve after an
error (`_reconcileCaptureFailure`, `_reconcileCancelFailure`); `Undo` the
rollback to `held` or the write-off; `Recheck`, `Find` and `Pay` the legs of
`refundPartial`, first time and retry; `Stamp`, `Verify`, `Recapture` and
`Again` are `verifyCaptureCompleted` and what follows it; `Reread` is
`reconcileCaptureLegFailure`; `Write` the reservation's status. A request may
die (`Crash`) between any two of them. `OnEvent` is the webhook router.

The provider is external. What the code relies on is assumed of it: a request
with an idempotency key has one effect and one answer for a day; a refusal for
good cause is kept under the key as an answer is; a request may be executed
although its caller got no answer, and not more than minutes after it
(`Wait` needs nothing to be on its way, as deposit.ts:70-79 argues); webhooks
are delivered at least once, in any order, each with the state at its emission.
`payment_intent.succeeded` is left out: it acts on a pending deposit only, which
no capture finds.

**`JobQueue`** is one job of the queue under its custom id, as operators on a
record: `Scheduled` (a held id makes an add a no-op), `Requeued` (what
`requeue` removes before it adds), `Taken`, `Thrown` (another attempt, or the
last), `Stalled` (what BullMQ does with a job whose worker died). It is external
but for the options, the ids and the handlers' errors, which this code chooses.

**`ClosureRefund`** is the refund a closure owes one guest. State and code:

| Variable | Code |
|---|---|
| `outcome` | `ClosureOutcome.refund` |
| `queue`, `w` | the jobs of this outcome, the closure's own and one per Retry; the attempt at work on each, with what it has read |
| `mgr`, `sweep`, `hook` | a Retry, the sweep and the refund webhook, each between two of its statements |
| `row`, `late` | the deposit's status, and a cancellation that read the booking before the closure and forfeits the deposit |
| `intent`, `keys`, `ours`, `dash`, `lost`, `mail` | at the provider: the PaymentIntent, the keys it has served, refunds of the closure, of the dashboard and those that failed later, webhooks to come |

An attempt is one action per await: `Load`, `Recheck` and `Reopen`
(`settleClosureRefund`), `Read` and `AskIntent` (`settleOnce` and its branches,
whose decisions are the operators `OnRead`, `OnVoid`, `OnCaptured`, `OnPending`,
`OnReconcile`), `Find`, `Amounts`, `Count`, `Create` (`refundCaptured`),
`Claim`, `CancelIntent`, `Rollback` (`DepositService.refund`), `WriteOff`,
`HoldRow`, `Record`, `Throw`. `List`, `Reset` and `Schedule` are a Retry, `Sweep`
and `Requeue` the sweeper. The webhook of a refund that failed is three actions,
one per statement: `OnRefundFailedAsk` (`findDepositRefund`), `OnRefundFailedMark`
(the `updateMany` of `markDoneRefundFailed`) and `OnRefundFailedLook` (its `findFirst`,
and the 500 that makes the provider repeat).

**`ClosureNotice`** extends `ClosureRefund` with what the same guest is told.
`deliveries` is the column (with the statuses of a reopening in it), `notices`
the two jobs with the urgency in their payload, `n` the attempt at work on each
and what it has read, `guest` the preference and contacts, `swept` the sweep
between its list and its enqueue, `told` history for the properties. `NoticeTake`
is the worker, `NoticeLoad`, `Send` and `NoticeRecord` are the three awaits of
`deliver`, `NoticeEnd` what it returns or throws, `NoticeCrash` and `NoticeStall`
a worker that dies and the queue's answer; `TellReopened` is the reopening,
`SweepNotices` and `RequeueNotice` are the sweeper, `EditGuest` an edit of the
guest. `SpecJobs` interleaves the refund jobs with the notice jobs.

**`Waitlist`** is the queue of one venue. `status`, `position` are columns,
`arrived` and `offered` history for the properties, `queue` the expiry jobs, `h`
the requests and jobs at work. `Join`/`Insert`, `Notify`, `Leave` (seat and
cancel) and `ExpireByHand` are the routes; `ListWaiting`/`Number` the two halves
of `recalculateVenuePositions`; `Schedule`/`Revert` the end of
`notifyTableReady`; `Fire`, `Expire`, `OfferNext` and `MarkNext` are
`handleExpiry`. A `setting` says who comes, and whether requests overlap,
processes die, the queue is absent, refuses, or loses its answers.

**`AgentSessions`** is the agent service. `status` is the column; `slots`,
`live` and `aborted` are the gate's set, the controllers and their signals;
`breaker` is the circuit breaker; `x` says where each execution is, `c` where
each cancel. `Trigger`/`Create` are `triggerSession`, `Fetch` to `Over` the
orchestrator's `execute` (`GiveUp` its catch, `Over` its finally and the report
to the breaker), `Orchestrate` and `ParentStep` the orchestrate route, `Ask`,
`Abort` and `WriteCancelled` a cancel by a user or by the liveness monitor.
`failing` names the writes that may fail in a behaviour.

**`MCBooking`, `MCClosureCommand`, `MCDeposit`, `MCClosureRefund`, `MCWaitlist`,
`MCAgentSessions`** give the constants small values.

**`Booking_proofs`**, **`BookingClaims_proofs`**, **`ClosureCommand_proofs`**,
**`Deposit_proofs`**, **`ClosureRefund_proofs`**, **`ClosureNotice_proofs`**,
**`Waitlist_proofs`** and **`AgentSessions_proofs`** hold the theorems about the
modules they are named after.

Definitions whose comment begins with "Mutant" are wrong on purpose: each is a
plausible slip in the definition below it, and each property of a passing run
fails when one of them is put in its place.

## 3. What is left out of these models

One venue and one service day; times are three instants. Party sizes, pacing
and covers are left out: they are soft limits, and they are judged under the
shared venue lock, which does not exclude a concurrent booking (a listed hazard
without a property). Opening hours and last seatings are left out of the gate,
closures and table blocks are in. Every booking is still to come, so the
impact scan's "still to serve" test is always true. A write and the commit that
follows it are one step: the rows it writes are under locks until then. A
closure carries one decision for all its bookings, where the API takes one per
booking, and a closure reopened is not saved a second time over bookings that
still carry its outcome. Roles, series saves, special hours, Tonight rules
and idempotent replay are not modelled. A deposit
is worth two units, of which a partial refund returns one and the dashboard one:
the properties are about which leg is counted, not about cents. The choice
between refund, partial refund and forfeit, which is a matter of the clock and
the policy, is open for guests. Deposits without a PaymentIntent, the creation
of the intent and a capture made on the dashboard are left out. A read of the
row and the compare-and-set on the status it read are one step, because a
compare-and-set that misses ends the request. `ClosureRefund` has one outcome of
a cancelled booking and a deposit with a PaymentIntent; the captured statuses,
which its job treats alike, are one; the grace periods of the sweeps are left out,
so they may come at any moment. `ClosureNotice` leaves out the texts, the rebook
offers in them (a failure to find offers only shortens the text), and
rebookings, which take a guest off the call list. `Waitlist` leaves out texts and estimates, and the
clock: an expiry job may run at any time after it was scheduled. In
`AgentSessions` a pipeline is one step that ends somehow, events, ownership and
budgets are left out, and the breaker may half-open at any time. A walk-in does not
re-check holds under its lock; that is the code's choice and both
`HoldsGuardSlot` and the `Seat` step of `SlotClaims` say so.

## 4. The runs

Two handlers, two bookings and two holds on one or two tables are the least
that makes every race of this code happen: a race here is between two writers
of one table, or of one row from two tables. Three instants give windows that
touch, overlap and contain each other. Ids, handlers and managers are
symmetric; symmetry is used where no liveness is checked. Deadlock is checked
unless this section says otherwise: a state without a successor would be
requests waiting for each other.

| Run | Question | Bounds |
|---|---|---|
| `booking_holds` | Is anything ever booked or held twice, or a verdict stale at its write? Does the core implement `SlotClaims`? | 2 handlers, 2 bookings, 2 holds, 2 sessions, 1 table, all doors but the edit |
| `staff_edits` | Do staff edits that name table and end keep bookings apart, dead ones still, and act as one step? | 2 handlers, 2 bookings, 2 tables, 2 patches beside creates |
| `closures` | Does a closure, or a block of a table, leave an undecided booking inside it? Is the gate's verdict current? Are only the shown bookings touched, and no save lost? | 1 handler, 2 managers, 2 bookings, 1 table, a closure and a block, 2 saves, creates and a shift of a booking |
| `closure_moves` | Do moves land on bookings or holds? | 2 tables, 2 bookings, 1 hold, 1 closure |
| `all_answered` | Does every command and request end? | 2 handlers, 1 manager, 1 booking, 1 closure |
| `deposits` | Is every charge on record, a refund made once, no status written without proof, a dashboard refund counted exactly? | 2 requests, three evenings: everything at once within the safety window; one request at a time over days, with lapses and dashboard actions; the same under a policy that forfeits, which staff retry |
| `closure_refunds` | Is a refund recorded as settled really settled, does a failure show? Is a guest told once, is the call list true? Does what the closure owes settle? | refunds: the closure's job and one Retry, 2 attempts, 2 reads, 1 fault; two jobs beside each other, or one after another with every failure. Notices: 2 attempts, 1 fault; three guests and edits of them, or a closure's notice and a reopening's in turn |
| `waitlist` | Is a table promised once, is the queue dense and in order, does a claim end, does who left stay gone? | 3 parties one request at a time; 2 parties with each kind of failure; 2 requests beside each other; 2 attempts |
| `agent_sessions` | Is the gate ever exceeded, does a slot leak, is an end overwritten, is a session stranded? | 2 sessions, 1 orchestration, 1 slot, 1 canceller, 1 fault of either kind |

The evenings of `deposits` keep apart what the code does: two requests that
overlap do so within minutes, and what needs hours is done by requests that
follow one another. Two things stay outside: a no-show that forfeits while the
provider cannot be asked or while another request works on the deposit, where the code
breaks the property (see below); and a request that outlives the safety
window beside another one (a listed hazard: the timestamp is read before the
retrieve, and the compare-and-set covers the status only).

Two jobs of one outcome are the least that can disagree, two attempts the least
that make a last one, and two reads of the deposit the least that make a re-read.
Refunds that fail later are checked with one job at a time and with no outcome
recorded between the last two statements of their webhook (the settings "solo" and
"whole"), because beside another job, or between those statements, the code breaks the
property: `failed_refund_hides` shows the first, and with "whole" taken out of the
setting `OneByOne` TLC shows the second (see below). The hold that lapses beside two jobs has a setting of its own, without a late cancellation. A notice has
two attempts for the code's three: one that may retry and one that is the last.
Attempts of the two notices take turns, retries between them included,
because attempts that overlap erase each other's statuses (see below). Refunds
and notices are not at work in one behaviour: they write different columns, and of the
refund a notice reads the wording only. One slot and
three that want it make every refusal and every wait of the gate happen. The
faults of `agent_sessions` come in two kinds, the calls whose failure the catch
makes good and those it cannot; `SessionsEnd` speaks of the first.

`MaxVersion` bounds the number of saves in a behaviour, `MaxFaults` the number of
failed writes and deaths, `MaxRereads` and `Attempts` are bounds of the code
(3 and 8 there). The number of Retry requests is that of the ids in `Retries`. A deposit's counters
need no bound: at most one dashboard refund is made, and `RefundedOnce` bounds
the others.

Fairness. Each handler's and each manager's steps are weakly fair: a promise
that can run is run. Taking a lock is strongly fair, because PostgreSQL queues
the waiters of row locks and of advisory locks, so a lock that becomes free
again and again is granted. No fairness is assumed of users, of the clock or of
the sweep. `AllAnswered` promises a manager less than a handler: share locks of
bookings that overlap one another for ever keep the venue row from ever being
free, and then a closure may wait for ever. The property says so. In
`ClosureRefund` and `ClosureNotice` the workers take jobs and go on with them,
stalled jobs are noticed and the sweeps, which are a cron job, run; nobody needs
to press Retry or to reopen. Recording an outcome is strongly fair: where `Record` waits
for the webhook's two statements, a webhook that is repeated for ever must not hold
it up for ever, and the provider's pauses between repetitions grow. In
`Waitlist` requests that were asked for go on and due jobs run (strongly fair,
because in a setting without overlap a job waits for its turn); hosts need not
act. In `AgentSessions` an execution goes on until it ends, since a pipeline has
timeouts of its own, and a cancel that was begun is carried out.

Four runs switch the deadlock check off, because the system may really stop
there: every job has ended and no webhook is left (`closure_refunds`,
`failed_refund_hides`), or every session has ended (`agent_sessions`,
`breaker_stays_closed`).

Disagreements between the code and what the repository says of it. Each run
below checks one sentence of a comment or of a document and shows a behaviour
of the code that breaks it.

| Run | What it shows |
|---|---|
| `staff_partial_edits` | Two one-field edits of one booking (its table, its end) pass their checks under two different table locks and combine into a double booking: the compare-and-set covers status and start only (`reservation.ts:749`). |
| `failed_refund_hides` | Of two jobs of one outcome the second records `done` over the `failed` that the refund's webhook has just written (`closure-refund-store.ts:20`): the guest's money stayed with the venue and Retry no longer lists the outcome. |
| `breaker_stays_closed` | Alert sessions fail in a row and the breaker stays closed, because an execution whose session failed resolves and counts as a success (`session-trigger.ts:53`). |

Met while modelling, without a run of their own. Against a comment of the code:
a guest's move rewrites a booking that was cancelled meanwhile or is a no-show
(`move-to-hold.ts:81`, against `reservation.ts:618`); a phone stop saved earlier
hides stranded bookings from a later closure
(`availability-config-checks.ts:62`, against `closure-apply.ts:18-21`); of one job
and with no fault, the webhook of a refund that failed looks for a `done` outcome, the
job records `done`, and the webhook looks for a `pending` one and finds neither
(`closure-refund-store.ts:58-66`), so it answers 200, the provider does not repeat it and
the outcome stays `done` (against `stripe-webhook.ts:259-261`: "Throw so the route
answers 500 and Stripe redelivers (it stops after ~3 days), by which time the outcome is
`done` and the redelivery flips it"); a no-show
is recorded as charged when neither the capture nor the retrieve that should
confirm it got an answer (`reservation-no-show.ts:228`, against lines 195-196);
a cancellation reads the `refunded` of a release that then fails and is rolled
back, and the booking is cancelled with its deposit still held
(`reservation-cancellation.ts:399`, against lines 263-266); after a restart the
liveness monitor cancels nothing, because the controllers died with the process
(`liveness-monitor.ts:46`, against lines 10-12); the expiry job of the waitlist
has an id with a colon (`waitlist-notifier.ts:178`), which the queue refuses
according to `closure-notice-service.ts:50-51`. Against a document: no idempotency key goes with a closure notice
(`resend-adapter.ts:117`), so an attempt whose message went out but whose status
was lost sends it again, where `docs/features/venue-availability/architecture.md:286`
says "The idempotency key per channel prevents a double send." Without such a
comment: attempts of a notice and of a reopening's that overlap write back what
they read, and one erases the other's statuses (`closure-notice.ts:166`); a
notice whose job was lost is not swept any more once a reopening's status is in
the column (`closure-outcome-sweep-store.ts:25`); two concurrent joins of the waitlist get the same position and overlapping
renumberings leave gaps (`waitlist.ts:172`, `waitlist.ts:83`); a cancel that
arrives as a pipeline ends drops the branch and the cost of its result
(`orchestrator.ts:151`); two concurrent creates on two
tables leave a session two holds (`hold.ts:149`); the pre-check refuses a re-hold
that the re-check would grant (`hold.ts:114`); the gate judges a booking by its
start, so one that runs into a saved closure is accepted (`slots.ts:323`, where
`docs/features/venue-availability/prd.md:245` speaks of overlap); a closure's move may land on a table blocked at
the new time (`closure-command-plan.ts:146`) and gives a booking cancelled
between impact and apply a new window (`closure-apply.ts:161`); a cancellation
that repeats an unproven forfeit, twice at once and after the safety window, can
take back a row that the other one has just charged again (`deposit.ts:837`,
`deposit.ts:893`); a no-show that repeats its forfeit leaves the timestamp of the
first (`deposit.ts:863`), so a cancellation that follows it may take the claim
back while the repetition, its answer lost, still arrives; a partial refund taken
up again does not re-read the row (`deposit.ts:614`), which is why
`PostCaptureExact` leaves out a refund made on a row that was settled otherwise
meanwhile.

## 5. The proofs

`Booking_proofs` proves, for all values of the constants that satisfy
`SlotAssumption`:

* `TypeCorrect`: `Spec => []TypeOK`;
* `NeverDoubleBooked`, `HoldsAlwaysGuard`, `VerdictsAlwaysHold`: `Spec` implies
  `[]NoDoubleBooking`, `[]HoldsGuardSlot` and `[]VerdictHolds`, each under
  `WholePatch`: every staff edit that moves a booking names its table and its
  end. `staff_partial_edits` shows that the proviso cannot be dropped.

None of the three is inductive alone. `IInv` adds what the argument rests on:

* `Shape`, the type invariant with what each door's request carries;
* `LockHeld`: past `LockTable`, a handler owns the lock of its request's table,
  so no two handlers are between check and write on one table;
* `VerdictHolds`: what was found free under the lock is still free at the
  write. Status changes, expiry, releases and sweeps only free slots (no status
  returns to a booked one, no hold becomes active again); a write on another
  table is about other windows. Here `WholePatch` is used: an edit that keeps a
  field writes a window or table nobody judged;
* `DropsMine`: the holds a new hold will replace include every hold of its
  session on its table, so the ones `HoldsClear` looks past are gone when the
  new one is written.

Each step of `Next` is shown to preserve `IInv`, one lemma per action group,
and PTL closes the induction.

The type invariant is proved without what `ClosureCommand` changes: `Typed`
is `TypeOK` with table locks whose owner may be a handler or a manager.

`BookingClaims_proofs` proves the refinement step by step. `ActsAsOneStep`:
`Spec` implies `BooksAsOneStep`, under `WholePatch` and `ForwardSlots` (every
window asked for ends after it starts, and so does what an edit leaves behind):
a write is one grant of `SlotClaims`, a status change, release, expiry or sweep
gives claims back, and every other step, however stale what it read, leaves the
claims alone. `DeadNeverMoved`: `Spec` implies `DeadStaysPut` where, besides, no
guest moves a booking onto a hold; such a move is the one write keyed on the id
alone (section 4). Their invariant `RInv` adds to `IInv` that a request finds its
own rows as its door needs them (`Fits`), that no two requests are to write one
new row (`Apart`), and that stored windows end after they start. `NoneIsNoClaim`
says that `None` is no claim.

`ClosureCommand_proofs` proves, for any managers, closures, requests, tables and
bookings that satisfy `ClosureAssumption` (managers are no handlers, and the
decisions on offer are among the four) and `SlotAssumption`:

* `GateVerdictsHold`, `NoSaveIsLost`, `OnlyTheSeenTouched`: `SpecClosures`
  implies `[]GateVerdictHolds`, `NoLostSave` and `OnlyTheSeen`. The inductive
  invariant `CInv` adds `OneOwner` (at most one command is past its
  compare-and-set, and the version is still the one it matched), `Sharing` (a
  gated request shares the venue row from before its checks to its end) and
  `Alone` (while a command owns the row nobody shares it);
* `MovesDoubleBookNobody`, `MovesPassNoHold`: `SpecClosures` implies
  `[]NoDoubleBooking` and `[]HoldsGuardSlot`, under `WholePatch` and
  `ProperWindows` (every window asked for ends after it starts, and an edit that
  moves a booking names both). A command that
  has checked the targets of its moves holds their table locks until it commits,
  so no request is past its re-check on those tables, and the requests' part of
  the argument (`IInv` of `Booking_proofs`) carries over. `ProperWindows` is
  needed because two moves of one command are kept apart by comparing their
  windows, and an empty or reversed window overlaps nothing; that a patch of the
  start alone can store one is a listed hazard;
* `NobodyLeftUndecided`: `SpecClosures` implies `[]NoUndecidedStart`, under the
  same two and `PhoneClosesAll` (a stop of the phone stops every channel) and
  `MovesMeetNoBlock` (where bookings are moved no table is blocked). Section 4
  names the behaviour of the code behind each of the last two. `DInv` adds
  `PlansDecide`: until a command commits, every booking that its closure strands
  is in its plan, though requests run beside it. Rules are looked at in the order
  they were saved, so the argument is by the first rule that stops a start.

`ClosureNotice_proofs` proves, for any numbers of attempts, Retries and faults and
any guests that satisfy `NoticeAssumption` and `RefundAssumption`,
`NobodyToldTwice` (`[]ToldOnce`) and `CallListStaysTrue` (`[]CallListTrue`) under
`OrderlyReopens`: where closures are reopened the attempts of the two notices take
turns. The overlap listed in section 4 shows why. `NoticeInv` says that one attempt at most
is at work, that what it has read is still the column and it asks no channel
already delivered (`Current`), and that every message but one per fault is
recorded or about to be, and every recorded one went out (`Told`). A death, a
lost write and a sender's false error each leave one message unrecorded and each
cost a fault, which is what pays for the repetition.

`AgentSessions_proofs` proves, for all values of the constants that satisfy
`AgentAssumption`, `AlwaysTypeOK`, `GateBounds` (`[]SlotsBounded`),
`NoSlotLeaks` (`[]NoLeak`), `WhoRunsHolds` (`[]RunsHoldSlots`) and `EndsStay`
(the action property `EndStays`). Its `IInv` adds to them

* `ResultKept`: an execution that is about to write its result has one, so what
  it writes is an end;
* `RowsOpen`: while an execution has not written `running` or a refusal, its row
  is as its creation left it (pending, or deleted). This is what makes the
  unconditional writes `Start` and `Reject` harmless: nothing else ends a row
  before them.

`SlotsBounded` needs only that each of the two acquires adds one slot to a set
with room (the counting lemma `OneMore`) and that every other step only takes
slots away (`NotMore`); `NoLeak` and `RunsHoldSlots` are about where the release stands relative to the pipeline.

`Waitlist_proofs` proves, for all values of the constants that satisfy
`WaitlistAssumption` and with no other proviso, `WaitlistTypeCorrect`
(`[]TypeOK`), `NoTablePromisedTwice` (`[]OneGuestPerTable`), `QueueHasNoGaps`
(`[]PositionsDense`), `NobodyOvertakes` (`[]KeepsPlace`) and `GoneIsGone`
(`GoneStaysGone`). `WInv` adds to the types what each request at work has read
and may still do (`AllSound`), a count of claims (`Tables`: a party that is called,
and an expiry that has given a table up and not yet passed it on, each hold one
of the tables offered), and for settings in which requests do not overlap what
the renumbering under way has still to do (`Dense`, `Turns`).

`ClosureRefund_proofs` proves, for all values of the constants that satisfy
`RefundAssumption` (each setting is a state a closure can leave: an unconfirmed
intent has a pending row, nothing owed means nothing to take),
`RefundTypeCorrect` (`[]TypeOK`), `SettledNotOverwritten` (`NoFalseFailure`) and
`FailureIsShown` (`[]FailureShows`), and under `FailingAlone` `SettledStaysTrue`
(`[]SettledIsTrue`). `FailingAlone` speaks of settings in which refunds may fail after they
were accepted: jobs come in turns there, and no outcome is recorded between the two
statements of `markDoneRefundFailed`. The code ensures neither, and without either the
property fails (section 4).
`RefundInv` says what the provider's state tells of its past (`Booked`: a refund
that stands returns the rest of the charge, a key is served once for each count
of failed refunds), that an attempt goes by what is still so (`Grounded`), that a
settled outcome is true or the webhook of a failed refund is on its way, and
that a webhook which has missed a `done` outcome does not have one behind its back
(`Settles`), and for jobs in turns that the one at work finds the outcome as the
one before it left it (`Timely`, `TakesTurns`). `FailureIsShown` needs
`Answered`: until something is lost, whoever leaves a pending outcome behind
leaves it to a job that will still record how it went, or to a Retry about to
add one. `ClosureNotice_proofs` carries two of them over to the refunds beside
the notices of the same closure (`SettledBesideNotices`, `FailureBesideNotices`).

`Deposit_proofs` proves, for any number of requests and any evenings that satisfy
`DepositAssumption` (a deposit starts pending or held, the no-show policy is one
of three), what the rows say against what the provider did:

* `ShapesAlwaysHold`, with no proviso: `Spec => [](Typed /\ Ledger)`, the types,
  the shape of a request at each point, and what the provider's state says of its
  past;
* `TypeCorrect`, `ChargeStaysOnRecord`, `RefundGoesOutOnce` and
  `DashboardCountedExactly` (`[]TypeOK`, `[]ChargeOnRecord`, `[]RefundedOnce`,
  `[]PostCaptureExact`) under `Unhurried`: where the safety window can pass,
  requests take turns, and no guest or staff cancellation comes upon a no-show
  that repeats its forfeit;
* `StatusRestsOnProof` (`[]WritesOnProof`) under `Certain`: where a no-show
  forfeits, requests take turns and the provider can be asked.

Where the window cannot pass, requests overlap freely. Each clause of the two
provisos excludes something the code does, listed in section 4, and all evenings
of the run `deposits` satisfy both. `DepositInv` is `Base` (types, `Ledger` and
`InTurn`), and for each proviso its part:

* `Grounded`, for `Certain`: a status about to be written is the truth, and a
  no-show that re-reads the row finds `forfeited` only of a charge;
* `Recorded`, for `Unhurried`: as long as a capture may still happen (`Fresh`: its
  key is unused and the intent open) and somebody may still send it or has it on
  the wire (`Wanted`), the row stands at that capture's status. This is what makes
  `ChargeOnRecord` inductive: wherever the capture lands, the row is there. Once
  the timestamp has left the window, no capture but a no-show's own is wanted;
* `Safe`: a claim is taken back only when no charge can come of it, because the
  key is used up, the intent canceled, or (`Lapsed`) the request is alone and the
  window has passed; and who is about to refund has not refunded under a
  forgotten key;
* `Counted`: a dashboard refund is in `post`, or its webhook is on its way with at
  least the sum.

A step is shown to preserve `DepositInv` once for all requests that only move on
(`RestsKeeps`), once for all calls of the provider (`CallKeeps`), once for the
row (`RowKeeps`) and once for the world (`WorldKeeps`); each action then has to
say what its request becomes.

Every invariant and action property the runs check is thus a theorem, under the
provisos named. Only model-checked: liveness (which the prover does not do under
fairness).

## 6. Not modelled, and the plan

Not modelled because nothing there can go wrong between two steps: the web apps,
the users service, guests, menus, teams and marketing (CRUD and reads), the
shared packages (clients, components, logging), build, CI and deployment. Most of
the repository's lines are of this kind. Next, in this order:

1. *Deposits*, continued: the creation of the PaymentIntent and its retry on the
   guest's booking path, deposits without an intent; an abstract ledger
   (authorised, captured, returned) that `Deposit` should implement; evenings in
   which forfeiting no-shows overlap other requests.
2. *Closure command*, continued: idempotent replay of a save, reopening one date
   over recorded outcomes, carried outcomes.
3. *Rebook* after a venue's cancellation: the one-time token and the confirm.
4. *Transitions pipeline*, *table status*, *SSE*; webhook deduplication and CI
   retries of the agent service.
5. Availability functions (`resolve-day`, pacing, covers) and the cancellation
   policy as functions checked against reference definitions; pacing as a
   counter in `Booking`.
6. Proofs: what the part of `DepositInv` under `Certain` becomes where a no-show that
   forfeits overlaps other requests; the new modules as they come.
