# A verification development for the logistics service

This directory holds TLA+ models of the logistics service under `src/`, the TLC
configurations that check them on small instances, and TLAPS proofs of the
properties that matter most for every instance. It models the code as it is,
including where the code and what is said of it differ (see *Findings*).

## 1. The system

A multi-tenant delivery service: one Go binary, run in several replicas, over
PostgreSQL (Ent), Redis (leases, claims, caches, the riders' positions) and NATS
JetStream (events in, events out through an outbox). Riders use a PWA, dispatchers and
managers a console, and other services call it or send it events. Replicas share nothing
but the database, Redis and the streams.

There is almost no locking in the code. A handler reads a row, checks it, and then
writes; what keeps handlers apart is, case by case, a condition on the update
(`WHERE status = <what I read>`), a unique index, a Redis lease, or nothing. That is why
most of the models below split a handler into its single statements and let any number
of handlers interleave.

### Inventory

| component | state | operations | what makes it correct |
|---|---|---|---|
| **tasks: lifecycle** (`modules/tasks`) | `tasks.status`, `task_assignments`, `proof_of_deliveries` | claim, assign, reassign, status legs, decline, unassign, cancel, delivery by code, override | a job in progress has a rider; a job ends once; one proof, one earning, for the rider who had it; a closed task frees its rider |
| **tasks: intake** (`modules/tasks/service.go`, `modules/consumers`) | tasks of an upstream reference, the intake lease, pending messages | order ready, transfer created, order cancelled, `CreateTask` by other services | one open task per reference although messages are redelivered; no order is lost; a cancellation closes the task |
| **tasks: delivery code and cash** (`delivery.go`, `cash.go`) | the task's metadata, cash collected and remitted | submit a code, collect, remit | a closed task says how it was closed; the cash of each delivery is handed in once, in full or not at all |
| **tasks: SLA monitor** (`sla_monitor.go`) | escalation step claims | look at late jobs every five minutes | an order that stays late is heard of |
| **shifts** (`modules/shifts`) | `rider_shifts` | create, start, end, cancel, delete, go online, go offline | shifts of a rider do not overlap; hours worked are real and stay |
| **earnings** (`modules/earnings`, `http/handlers/earnings*.go`) | billing events, `earnings_statements`, payouts at treasury | record an earning, the daily statement job, statements by hand, settle | a day is stated once and whole; a statement is paid once |
| **dispatch** (`modules/dispatch`) | none of its own; positions in Redis | nearest rider, batches, ETA updater | the best rider who is there gets the job, nobody who is there is overlooked, nobody who declined is asked again |
| **fleet** (`modules/fleet`) | members, vehicles, documents, insurance | onboard, approve, suspend, clean up stale applications | an approved rider is never cleaned up; an uninsured vehicle carries no jobs and an insured one does, whoever wrote last; a suspension sticks |
| **identity** (`modules/identity`) | users, their roles | sign-in provisioning, `auth.user.*` events, re-key of a stub | one user per identity whatever arrives first; role and membership follow the user |
| **tenant** (`modules/tenant`) | tenants, outlets mirrored from auth-api | sync, resync every six hours, outlet events | the mirror converges to the source |
| **notifications** (`modules/notifications`) | in-app notifications | deduplicated create, read | the alert is there when it is needed |
| **perdiem** (`modules/perdiem`) | outcome in the metadata of a task | raise an allowance in HR payroll | its outcome takes nothing else away |
| **zones** (`modules/zones`) | areas, delivery policy | quotes, free delivery, surcharges | nobody pays less by living farther out; quotes follow what was saved |
| **routing, telemetry** | tracking streams and points | routes, pings, retention | a silent rider is not tracked for ever |
| **platform** (`internal/platform`) | outbox rows, subscription cache | publish, gate, call other services | what was committed is published at least once |
| **tenant purge** (`consumers/tenant_purge_events.go`) | every table | one transaction of deletes | the order of the deletes suits the foreign keys |
| **rbac, settings, HTTP, analytics, app wiring** | roles, settings | lookups, reads | |
| **generated database client** (`internal/ent`) | | builders and predicates per table | generated code |

Background work started by `internal/app`: outlet resync, the statement job, clean-up of
stale applications, insurance monitor, telemetry retention, SLA monitor, ETA updater,
batch scheduler, outbox publisher. Each runs on every replica, and the ones that must run
once claim their period in Redis (`ClaimPeriod`). Outside this repository: auth-api,
treasury, ordering, inventory, notifications, HR payroll, subscriptions-api, the routing
engine, and the shared library with `ClaimPeriod` and the lease.

How the parts meet: the consumers call the task service (intake, cancel); dispatch,
batches and other services call `AssignTask`; a delivery calls earnings after its commit,
in the background; the statement job sums what deliveries earned; fleet status and
employment terms decide who may claim, who may go online and who is paid per delivery;
every change writes an event to the outbox after its commit.

`PROJECT.json` lists the hazards of this code, each at the line where it bites, with the
property that covers it or the reason why none does yet.

## 2. The modules

| module | models | kind |
|---|---|---|
| `TaskStatus` | `tasks/statuses.go`, `validTransitions`, `statusChangeError` | operators |
| `DeliveryContract` | what the task service promises about one delivery | abstract specification |
| `TaskLifecycle` | `tasks/claim.go`, `lifecycle.go`, `delivery.go`, `service.go`, and the checks of `http/handlers/logistics.go` before them | detailed specification |
| `MCTaskLifecycle` | symmetry for TLC | |
| `TaskLifecycleProofs` | theorems about `TaskLifecycle` and that it implements `DeliveryContract` | proofs |
| `TaskMetadata` | the metadata of a task: `wrongCode`, `reasonMetadata`, `mergeMeta` and who calls them; `perdiem/service.go` | specification |
| `TaskIntake`, `TaskIntakeProofs` | `consumers/order_events.go`, `order_cancelled.go`, `transfer_events.go`, `CreateTask`, `lockIntake` and `createTask` of `tasks/service.go`, the gate of `tasks/fleet_gate.go` | specification, proofs |
| `RiderShifts`, `MCRiderShifts`, `RiderShiftsProofs` | `shifts/service.go` | specification, proofs |
| `RiderCash`, `MCRiderCash`, `RiderCashProofs` | `tasks/cash.go`, `checkCOD` of `tasks/delivery.go` | specification, proofs |
| `RiderPay`, `RiderPayProofs` | `earnings/service.go`, the statement job, `http/handlers/earnings_payout.go` | specification, proofs |
| `DispatchChoice` | `dispatch/dispatch.go`, the assignment of a batch in `dispatch/batch.go` | specification |
| `DeliveryQuote` | `zones/quote.go`, `service.go`, `policy.go` | specification |
| `RiderFare` | `earnings/calculator.go`, `pricing_rules.go` | specification |
| `MCDispatch`, `DispatchProofs` | these three and `TaskMetadata`, one at a time | composition, proofs |
| `VehicleInsurance` | `fleet/insurance.go`, `insurance_monitor.go`, `UpdateVehicle` | specification |
| `RiderAccount` | `fleet/service.go`, `onboard.go`, `employment.go`, `rekey.go`, `cleanup.go`, `identity/`, the cached answer of `tasks/fleet_gate.go` | specification |
| `OutletMirror` | `tenant/`, the outlet events of `consumers/` | specification |
| `TaskAlerts` | `tasks/sla_monitor.go`, `notifications/service.go` | specification |
| `TenantPurge` | `consumers/tenant_purge_events.go` against the keys of `ent/migrate` | specification |
| `QuoteCache` | the snapshot of `zones/service.go` | specification |
| `RiderTracking` | `telemetry/service.go`, `retention.go` | specification |
| `MCBackOffice` | the last seven, one at a time | |

`MCDispatch` and `MCBackOffice` hold components that share no state. A variable `focus`
names the one that moves in a behaviour, so that a run explores the sum of their state
spaces and not the product, which would say nothing more. The components that do share
state are modelled together: user, membership, role and the gate's cache in
`RiderAccount`; task, assignments, proof and earning in `TaskLifecycle`.

### TaskLifecycle: one delivery

`status`, `rows` and `proof`/`via` are the task's row, its assignment rows and its proof
of delivery. `earned` counts the billing events of the delivery. `call[w]` is what handler
`w` has in its local variables: the operation, the next statement, the rider it is
about, the status it read and the one it will set. Every action is one SQL statement or
one transaction:

- `ClaimTask` is the conditional `pending -> assigned` update of a claim,
  `AssignTask`/`TakeOpenTask` the same for a dispatcher, auto-dispatch or a batch;
  `InsertAssignment` is the row written afterwards, in no transaction with it;
  `InsertFails`/`GiveBack` the failed insert and the unconditional return to pending.
- `RiderAsksStatus` is `callerMayWorkTask`, `UpdateStatusAs` the load and
  `statusChangeError`, `WriteStatus` the conditional update, `StampAssignments` the
  update of the assignment rows after it.
- `DeclineTask`, `ReleaseTask`, `WriteRelease`, `CancelTask`, `WriteCancel` are
  `lifecycle.go`: a look, a load, a transaction.
- `RiderSubmitsPoD`, `LoadForDelivery`, `ReadAssignee`, `CompleteDelivery`,
  `RecordEarning` are `delivery.go`: the assignee is read *before* the transaction, and
  the earning is recorded after it, in the background.
- `Abandon` is a process that stops or a client that goes away and cancels the request
  context: the statements left are not executed.

A request that is refused changes nothing; refused at its first step, its action is just
not enabled. Tasks share no state in these handlers, so one is enough. Not modelled here:
cash, the metadata (see `TaskMetadata`), help requests, ratings,
route order, deletion.

`DeliveryContract` is the abstract view: operations are atomic and nothing is in flight.
`TaskLifecycle!Contract` instantiates it with the riders ever written on an assignment
row as its `holders`.

### TaskIntake: from message to task

One reference; `msg` is its messages in their streams with the deliveries left and the
time until the next, `lock` the Redis lease, `tasks` the tasks created for it, `run` the
consumer handlers. `Deliver` is JetStream; `IntakeAllowed`, `LockIntake`, `Lookup`,
`CreateTask`, `Unlock`, `Acknowledge` are the two creating consumers, `FindTask`,
`LoadForCancel`, `WriteCancel` the cancelling one, `MoveTask` everything `TaskLifecycle`
does, seen from here. `Crash` stops a handler and leaves its lease to expire. The lease,
`Nak`, `NakWithDelay` and redelivery are modelled from how the consumers use them.

Time is discrete and timers count down. The code has a lease and an `AckWait` of 30 s,
`NakWithDelay(3 s)` and five deliveries. The runs keep what matters of these numbers,
their order: `AckWait = Lease`, and the delays of all retries together are shorter than
the lease. `MaxRun < Lease` states an assumption: a handler ends within its lease (its
context is cancelled after 20 to 30 s). A handler that is slower is a listed
hazard (service.go:338) whose note names this assumption.

### RiderShifts: the shifts of one rider

`shifts` are the rows, `now` the clock in steps of the 30 minutes a rider may be early,
`member` the fleet status. Each handler is split at every query: `GoOnline` looks for a
running shift, `FindScheduled` for one to start, `FindNext` for the next one, then
`InsertShift` or `WriteStatus` writes. Writes go by primary key and do not look again,
as in the code. Time passes between any two statements.

### RiderPay: from deliveries to a payout

`earned[d]` counts the rider's billing events of day `d`, `stmts` are the statements,
`paid[s]` what treasury paid for statement `s`. `RecordEarning`/`SaveEarning` stamp the
time and save later. `ClaimPeriod` is the hourly job on a replica, `GenerateByHand` the
manager's request; both go on with `MemberTotals`, `CheckExists`, `CreateStatement`.
`SettleStatement`, `ClaimStatement`, `DisbursePayout`, `ReleaseStatement`,
`RecordPayout` are the payout handler. Every event pays one unit.

### RiderCash: the cash of a rider

`pods` are the proofs of delivery with what was collected at the door, `remitted` the
stamp on each, `handIns` the figures of each hand-in. `Deliver` is a delivery seen from
here, with `CheckCOD`; `LoadOutstanding` and `StampLoaded` are the two halves of
`RecordRemittance`. Its transaction is one action: two of them wait for each other on the
first row they share, in the same order, and one that misses a row is rolled back.

### TaskMetadata: what is written on a task

`meta` is the metadata: the stamps that closing, collecting or overriding leave, the
count of wrong codes, the outcome of a per diem. `edit[h]` is what handler `h` has read
and is going to write. `ChangeStatus`, `Deliver` and `WrongCode` read, `Write` is their
conditional update, which sets all of the metadata or none of it. `RaiseForTask`,
`RaiseClaim` and `Record` are the per diem, whose last update has no condition.

### DispatchChoice, DeliveryQuote, RiderFare: who, and for how much

`DispatchChoice` is one job and the riders around it. `fix` is each rider's position in
Redis, `run` a dispatch that has listed the riders (`Begin`), searched positions
(`Search`), left out the stale ones and those who declined (`Filter`) and now assigns or
gives up; all the while riders report, go quiet, go offline, take the job by hand or
decline. The batch scheduler reads who declined once more before it assigns (`Drop`).
`steady` and `since` are ghosts: who could have been chosen all the time since it began,
and who declined since.

`DeliveryQuote` puts everything on one road: areas are intervals, a route to an area ends
at its farther end. `Quotes` is `computeQuote` with all it calls; where the code takes
whichever area comes first, it is a set. `RiderFare` is the rule table and the fee of a
distance, the tiers included. Both have edits as their only actions: what can be wrong is
the arithmetic, over every tariff the edits reach.

### VehicleInsurance: may this vehicle carry jobs

`vehicle` is the row with its metadata, `clerk` the policy each request is recording,
`monitor` the vehicle the hourly monitor is working on, `notices` what it sent about the
current policy. `VehicleBlock` is the rule in Go, `Dispatchable` the one in SQL. A handler
that writes the metadata writes all of it as it was read, and three ghosts say when that
mattered: `byHand` (an admin took the vehicle off, before or after the monitor did),
`overtaken` (a status or its reason was written for an outdated row), `unmarked` (the
marker of a notice was lost).

### RiderAccount: one person on the way to being a rider

`user` is the key of the local row (a stub's random one, a legacy one, or the auth key),
`member` the fleet membership, `granted` the driver role, `gate`/`filler` the cached
answer that the tenant has riders and one on its way to the cache, `call` the handlers in
flight. The desk invites, approves, suspends, rejects and deletes; the rider saves a
profile, which may ask for a review; auth-api's events create, deactivate, revoke and
delete, in any order and more than once; a sign-in re-keys the row; the clean-up deletes
stale applications in two statements. Ghosts: `approved`, `ungranted` (a grant was cut
off, or went to a key that was moved).

### OutletMirror, TaskAlerts, TenantPurge, QuoteCache, RiderTracking

- `OutletMirror`: an outlet in auth-api (`auth`, external), its `events` in any order,
  the `row` here and the `list` a resync has read and not yet written.
- `TaskAlerts`: one late task, its level (`late`), the levels `claimed` in Redis, and
  what each overlapping `scan` is about to do; a claim, a look and an insert are three
  steps, any of which may be the last.
- `TenantPurge`: `rows` as table and root, the purge's next table (`step`), the root IDs
  it read up front (`roots`) and what it deleted so far (`gone`), while others insert.
  `disturbed` is the ghost: somebody inserted since the transaction began.
- `QuoteCache`: configurations are numbers; `dropping` counts writers between their
  commit and the invalidation, `loading` what readers have read and not stored.
- `RiderTracking`: `streams` with their age and the age of their newest point, `ping`
  what each request has found, `prune` the next statement of the retention job.

Ghosts mark what the code openly does not protect against, so that the properties can say
what holds otherwise: `orphaned` (TaskLifecycle), `blind` (TaskIntake: a Redis or lookup
error is ignored on purpose), `odd` and `doubled` (RiderPay), `overwritten`
(TaskMetadata: a per diem asked for before the stamp), and those named above; `answered`
says whose treasury answers all arrived. What happens in the excepted cases is shown by
the runs that expect a violation, or said with the hazards in `PROJECT.json`.

## 3. The runs

| run | instance | checks |
|---|---|---|
| `task_lifecycle` | 2 handlers, 2 riders treated alike, 3 assignment rows; any handler may be abandoned | `TypeOK`, `NeverWithoutRider`, `CodeDeliveryByHolder`, `ImplementsContract` |
| `task_faults` | 2 handlers, 3 riders who differ, 2 assignment rows; the assignment insert may fail | `EarnedOnce`, `ProofIsFinal` |
| `stranded_hold` | the same, no fault | `HoldOnlyInProgress` is violated |
| `reopened_task` | the same, the insert may fail | `TerminalIsFinal` is violated |
| `task_intake` | 2 handlers; an order, a transfer for the same reference, a cancellation; one fault | `OneOpenTask`, `OrderDispatched`, `CancelClosesTask` |
| `lost_transfer` | one transfer, one crash | `TransferDispatched` is violated |
| `rider_shifts` | 1 handler at a time, 3 shifts, a clock of 4 steps | `NoOverlap`, `RecordedEnd`, `WorkedShiftKept` |
| `rider_cash` | 2 managers, 4 deliveries (one prepaid, two that may be paid with change), 3 hand-ins | `TypeOK`, `HandInIsWhole`, `CashConserved`, `StampedOnce` |
| `rider_pay` | 2 replicas, 2 requests, 2 statements, 1 midnight, every fault | `TypeOK`, `PaidOnce`, `OneStatementPerDay`, `StatementIsWhole`, `EveryDayStated` |
| `back_office` | the components of `MCBackOffice` | `MCTypeOK` and, of each component: `OneRuleForJobs`, `InsuredVehicleWorks`, `HandInactiveStays`, `OneNoticeEach`; `RoleFollowsRider`, `SuspensionSticks`, `FleetGateRecovers`; `MirrorConverges`; `LateOrderHeard`; `OrderRespectsForeignKeys`; `QuotesCatchUp`; `StreamsEnd` |
| `dispatch` | the components of `MCDispatch` | `BestIsChosen`, `NobodyOverlooked`, `DeclinedIsHeard`; `FartherNeverCheaper`; `EachKmAtItsRate`; `StampsFitStatus` |
| `approved_rider` | one handler with several steps | `ApprovedRiderKept` is violated |

Why the bounds are enough to be worth something:

- *Two handlers.* Each conditional write depends on one status read before, and a second
  handler may run any number of operations to completion in between: with one worker
  stopped half way, the other runs whole sequences of operations. The theorems of the
  next section remove the bound.
- *Riders and rows.* Two rows let a job be given to one rider, come back, and be given to
  another, which is when a stale read of the assignee matters; a third one lets it come
  back to the first rider. `task_lifecycle` has three rows and two riders treated alike
  (its properties do not depend on pay), so that riders are interchangeable too; the
  other runs have two rows and three riders: one paid per delivery and one salaried
  among the eligible, and one who is not eligible.
- *Three shifts and four steps*: a shift worked, one opened by going online before a
  third one still to come; `OpenEnded = Longest = 3` lets a shift span all but one step,
  and `Early = 1` lets one start before its time.
- *One midnight*: earnings before and after it, a job run before, at and after it; the
  job claims a day, loses the claim and claims it again.
- *Four deliveries, three hand-ins*: two hand-ins that load the same deliveries, one that
  loads more because another delivery was made in between, and one after both.
- *Intake*: four deliveries and one fault. One crash already uses a whole lease; the
  deliveries of one message are enough to outlast it only because of the delay, which is
  what a mutant without the delay shows. In `task_intake` the handler of the *transfer*
  does not crash: two creators meet on one reference only when another service uses the
  order's own reference, and if that one stops with the lease, the order's remaining
  deliveries can run out as well, as `lost_transfer` shows for the transfer.

- *A vehicle*: three days, so that a policy is reminded of, lapses, is renewed and lapses
  again, with one clerk between read and write while the monitor is between its own.
- *Scans*: two that overlap and three lost steps, one less than there are levels: the
  property holds until every level is lost.
- *An outlet*: two changes in auth-api, so that the events of both and two resync lists
  can overtake each other.
- *A purge*: two rows inserted and two outages against five deliveries.
- *Quotes in the cache*: two readers and three changes: a load begun before a change may
  be stored after the next one was invalidated.
- *Streams*: two pings that both find none, two streams, a retention of two stale
  periods, one run of the job that stops half way.
- *Riders around a job*: three, of whom the one who covers the zone is the farthest, and a
  search that returns two: distance, zone and limit pull in different directions.
- *A tariff*: a road of twelve points with a shop on either side, at most three areas out
  of eight that touch, overlap, exclude, are free or belong to one shop, five policies;
  two rules out of every tier table of the instance, five kilometres.
- *Metadata*: two handlers and two wrong codes; one handler waits for HR payroll while the
  other goes through everything a task can do.

`CHECK_DEADLOCK FALSE` is set where everything there is to do gets done within the
bounds: all messages settled, the last day reached, a task closed, a tenant purged.

### Fairness

`TaskIntake` assumes weak fairness of `Progress`, the disjunction of deliveries, time and
steps of running handlers: JetStream delivers what is queued and goroutines run. It
assumes nothing of publishers, riders or crashes. `RiderPay` assumes that a day
eventually ends (strong fairness of `NextDay`, because a lost claim disables it for a
while) and that the hourly ticker runs the job on some replica. `TaskLifecycle` and
`RiderShifts` are driven by requests that may never come, so nothing is assumed and
nothing live is claimed; the same goes for `TaskMetadata`, `VehicleInsurance`,
`TenantPurge` and what `MCDispatch` holds.

- `RiderAccount`: the cached answer expires (Redis drops it by itself), and an answer read
  for the cache is stored or lost.
- `OutletMirror`: an event is consumed, since it is delivered five times at most and then
  gone; a resync starts every six hours (weak), and does not fail every time (strong,
  because each failure disables the write).
- `TaskAlerts`: time passes, and a scan goes on, as the five-minute ticker of some replica
  fires. Nothing is assumed of the dispatcher.
- `QuoteCache`: a snapshot expires, and a reader that has loaded stores.
- `RiderTracking`: time passes, and the daily job goes on; runs that stop half way are
  bounded.

In `back_office` each assumption applies to the behaviours in which its component moves.

## 4. The proofs

`tlapm` proves forty-two theorems in seven modules, which rest on the lemmas of an
eighth, `SumTheorems`. They hold for any number of handlers, messages, riders, rows,
shifts, deliveries, statements, clerks and days. Every invariant and every safety action
property that a passing run checks is the subject of one of them.

**TaskLifecycleProofs.** `TypeCorrect`: types, from the inductive `StateOK`, which adds
what a handler in flight has already checked (`CallOK`), for instance that the status a
pending cancel read is not terminal.

With every fault:

- `ProofNeverReplaced`: `ProofIsFinal`, from the unique index on the proof's task.
- `EarnedAtMostOnce`: `EarnedOnce`. The strengthening `EarningInFlight` says that a
  handler about to record the earning is the one that wrote the proof, is alone, and
  that nothing was earned before.

Under the assumption `"insert" \notin Faults`, stated in each theorem:

- `AlwaysARider`: `NeverWithoutRider`. A status in progress means an active row or an
  insert under way; every write that closes rows sets a status that is not in progress
  in the same transaction.
- `CodeNamesHolder`: `CodeDeliveryByHolder`. `CodeDeliveryInFlight` is the argument: a
  delivery by code saw a collected order, a collected order can only advance or close,
  and none of these steps takes the order from its rider.
- `ClosedStaysClosed`: `TerminalIsFinal`. It holds without the failed insert, so that
  the give-back is the only thing that reopens a task.
- `HandlersImplementContract`: `Spec => Contract!Spec`, every step of a handler is a step
  of `DeliveryContract` or changes nothing of what it sees. `SafetyInv` collects the
  invariants it needs.

The assumption is needed: `reopened_task` shows what the failed insert does.

**TaskIntakeProofs.** `TypeCorrect`, from `IntakeTyped`: a handler at work has a message,
and one about to cancel has found a task that exists. `OneTaskPerReference`:
`OneOpenTask`, from `IntakeInv`. A handler between taking the lease and returning it owns
it, and what is left of the lease and the time it has run add up to the whole lease, so
that it ends before the lease does: no second handler gets in (`Leased`). The one about to
insert saw every task closed, which stays so as nobody else inserts, and therefore only
the newest task can be open (`OldOnesClosed`). It rests on the named assumptions
`MaxRun < Lease` and `MaxRun < AckWait`, and says nothing once `blind`.

**RiderShiftsProofs.** `TypeCorrect`. `EndsAreReal`: `RecordedEnd` for any interleaving; `RowsRead` says
that a row read for completion has kept its start, and its end unless somebody else
completed it. `ShiftsDoNotOverlap` and `WorkedShiftsStay`: `NoOverlap` and
`WorkedShiftKept` under `OneAtATime` (two handlers are the same one), from `OverlapInv`:
what a handler has checked still holds at its write. The assumption is needed: with two
handlers both find the time free and both write.

**RiderCashProofs.** `StampsStay`: `StampedOnce`, and `HandInsAreWhole`: `HandInIsWhole`.
The invariant `CashInv` says that a hand-in under way has an identifier of its own and
that what it expects is the sum over what it loaded. The sum stays a closed term: it
depends on the proofs of that set only, and `ProofsStay` shows that these do not change.
`TypeCorrect`: what a hand-in expects is a natural number because a sum of naturals is.
`CashIsConserved`: `CashConserved`, from the same `CashInv`: what was taken splits into
what is outstanding and what is stamped (`SumSplit`), the stamped part adds up stamp by
stamp (`SumByClass`), and each stamp is one whole hand-in.

**RiderPayProofs.** `StatementPaidOnce`: `PaidOnce`, from `PayInv`: a claimed statement
belongs to one request and is unpaid until that request pays. `StatementsNotDoubled`:
`OneStatementPerDay`, from `RunInv`: a run about to write is the only one on its day and
the day has no statement. `StatementsAreWhole`: `StatementIsWhole`, from `SumInv`: what a
run has read is still what the day earned, because the day is over. `TypeCorrect`, from
`PayTyped` and `PayBounded`: the earnings saved and those about to be saved stay within
the bound together, so that no day, no sum read and no statement exceeds it.

**SumTheorems.** Sums over finite sets. The library's induction theorems take an operator
and cannot be used; instead `MinimalSubset`, which speaks of sets only, gives the least
counterexample among the subsets of a finite set. From it follow that the recursive
function behind the fold exists (`TotalsExist`), that the order in which elements are
taken does not matter (`SumRemove`), and what sums of parts and of changed terms are.

**BackOfficeProofs.** About a vehicle: `TypeCorrect`. `RulesAgree`: the two rules are the same for
every vehicle, policy and day. `InsuredVehiclesWork` and `HandInactiveStaysOff`, from
`OffForAReason`: a vehicle that is off although no admin took it off carries the reason of
the monitor, and the reason is only cleared by the renewal that brings it back.
`NoticesSentOnce`, from `NoticesMarked`: a notice that was sent is marked on the vehicle or
about to be, by the one monitor there is.

About a rider's account: `AccountTypes`. `RiderHasTheRole`: `RoleFollowsRider` is inductive
once the types are known. `SuspendedStaysSuspended`: `SuspensionSticks`, from
`DecidedBefore`: what a handler is about to do to a membership was decided on one that was
not suspended, so that no write of a stale answer ends a suspension that was read.

About the purge of a tenant: `ChildrenGoFirst`: `OrderRespectsForeignKeys`, from `PurgeInv`:
the committed rows, and what the open transaction leaves of them, each find the rows they
refer to, and the tables already purged are empty as long as nobody inserts. A row that
would refuse the delete of the current table is of a table that refers to it; such a table
stands before it in the order (`PurgeOrder`), hence is empty.

`EveryComponentTyped`: `MCTypeOK`, which strengthens the types where a step needs more:
a scan that listed a task found it late (`AlertTypes`), the purge at work has its event
(`PurgeTypes`), a writer that has yet to invalidate has changed the tariff (`CacheTypes`).
`BackOfficeHolds` carries the safety properties of the components over to `MCSpec`, in
which one of them moves at a time: each of its steps is a step of every component or leaves
it alone.

**DispatchProofs.** About the choice of a rider: `TypeCorrect`. `NobodyIsOverlooked`, `TheBestIsChosen`,
`DeclinesAreHeard`, from `DispatchInv`: a rider in `steady` is in every list the dispatch
has made so far, or the search was crowded, and a listed rider who declined did so since.
`NotCrowded` is the argument about the limit: when the riders with a position are no more
than the search returns, it returns them all.

About the metadata of a task: `ClosingsAreStamped`: `StampsFitStatus`, from `EditFits`: what a
handler is about to write carries the stamp of the status it sets, or leaves the status
alone and had read the stamp. A write goes through only if the status is the one that was
read, so that a stamp that was read is still there.

About the quote: `NobodyPaysLessFartherOut`: `FartherNeverCheaper`. The state matters little
(`QuoteInv`: finitely many areas a tenant may define); the argument is about the formula.
`HeldBetween` says where the price held to the routes lies, between the area passed last
and the next one; `HeldMonotone` and `ChargedMonotone` compare two places, area by area,
and rounding up is monotone (`RoundUpMonotone`).

About a rule with tiers: `KmAtItsRate`: `EachKmAtItsRate`. Tiers that end at different
kilometres can be sorted (`SortedExists`), the fold of the loop exists (`FoldExists`), and
`PaidUpTo` is its loop invariant: the kilometres up to where the loop stands are charged,
and it stands at the end of the tier or is past the delivery. `TypesOfTheOthers`: the types
of the rules, the quotes and the metadata. `DispatchHolds`: all these properties hold of
`MCSpec`, since its behaviours are behaviours of each component (`EachMovesAlone`).

**Assumptions.** Each module names what it assumes of its constants, and TLC evaluates it
on every run: sets of handlers and rows are finite and bounds are natural numbers; areas
and policies are well formed and an area does not end before it begins
(`RoadAssumption`); rules are well formed and no table has two tiers that end at one
kilometre (`RulesAssumption`). The code accepts such a table: it charges the stretch at
the rate of the tier its unstable sort puts first, so that no rate is the right one.

**Model-checked only.** What is live: `OrderDispatched`, `CancelClosesTask`,
`EveryDayStated`, `FleetGateRecovers`, `MirrorConverges`, `LateOrderHeard`,
`QuotesCatchUp`, `StreamsEnd`; liveness under fairness is beyond this prover. No definition
is recursive.

## 5. Findings

Four runs expect a violation: what the repository says of itself is not what the code does.

1. `stranded_hold`: a task unassigned or cancelled between the two statements of an
   assignment keeps an active row afterwards: the rider is not freed.
2. `reopened_task`: the give-back after a failed insert sets `pending` unconditionally
   and reopens a task cancelled meanwhile.
3. `lost_transfer`: a busy transfer message is sent back at once; if a replica stopped
   with the lease, the deliveries run out before the lease expires and no task is made.
4. `approved_rider`: the clean-up counts its seven days from the application; an approved
   rider who is to be reviewed again is deleted with the vehicle at the next hour.

`PROJECT.json` quotes the lines. Known limits of the code that have no run of their own,
each in the note of its hazard: two handlers at once may write overlapping shifts; the
statement job and a run by hand may both write a draft for a day; a cancellation that
overtakes its order is acknowledged and the order dispatched; the outcome of a per diem is
saved over stamps made since it was asked for, although `record` is said to keep the other
keys; a scan of late orders takes a thousand at most. The properties the passing runs
check hold.

## 6. What is not modelled, and the plan

The map covers a few percent of all lines, because six in seven of them
(`internal/ent` but for its schema) are Ent's generated client: builders, predicates and
mutations per table and column, with no logic of this system. What its statements do is
modelled where the services call them. Of the code that was written by hand the map covers
about a quarter.

Not planned: polygon geometry and route engines (floating point and another process),
analytics and other reads, wiring and one-off commands, role lookups, single settings.

Left, most important first:

1. Outbox: rows written after a commit, the publisher on several replicas. The publisher
   is a library; what is lost between a commit and its row is known and listed.
2. The steps and the shipment of a transfer, in `TaskIntake`.
3. Ratings (first assignment, running average) and the grouping of jobs into batches.
4. The rest of the tenant and user rows: names, contacts, modules.
5. The ETA updater, a rider's inbox and the live hub, which only repeat what others hold.

Theorems left: `TenantPurge` for any set of tables instead of the ones there are, and
`NoOverlap` with what two handlers may do at worst instead of under one at a time.

## 7. Running it

    tlasany TaskLifecycle.tla
    tlc -workers 2 -config TaskLifecycle.cfg MCTaskLifecycle
    tlapm TaskLifecycleProofs.tla
    tlapm TaskIntakeProofs.tla
    tlc -workers 2 -config BackOffice.cfg MCBackOffice

Each run takes between a few seconds and two minutes, each proof module up to a few
minutes.
