# Verification of the event entry-control system

The repository runs the ticketing and admission of a multi-day event: public
orders paid through a gateway, commercial agents selling from quotas, employees
and families with mailed QR passes, scanners at the gates, and a help desk.  The
program is the NestJS API in `src/apps/api` over PostgreSQL (Prisma) and Redis;
`src/apps/web` is its Next.js front end.  (The repository's own top-level
README describes an earlier Laravel/PHP version; nothing here is taken
from it.)

This directory holds TLA+ models of the parts where overlapping requests,
restarts and repeated messages decide whether the program is right, the TLC
configurations that check them, and TLAPS proofs of the most important results.
`PROJECT.json` relates every definition to the lines it models and lists
components, runs, mutants, findings, hazards and theorems.

Paths below are under `src/apps/api/src/` unless they start with `src/`.

- [How to run](#how-to-run)
- [Inventory](#inventory)
- [Conventions](#conventions)
- [AgentAllocation](#agentallocation-and-passpool),
  [PaymentConfirmation](#paymentconfirmation-and-publicorder),
  [Checkin](#checkin-and-gateentry),
  [EmployeeQrRelease](#employeeqrrelease), [DailyPasses](#dailypasses),
  [EventControl](#eventcontrol), [Booking](#booking)
- [The runs](#the-runs), [What the violations show](#what-the-violations-show)
- [What is proved](#what-is-proved)
- [What is only model-checked](#what-is-only-model-checked),
  [Not modelled](#not-modelled)
- [Plan](#plan)

## How to run

    tlc -workers 2 -config CheckinEntry.cfg MCCheckin     # a run: module and cfg are in PROJECT.json
    tlapm CheckinProofs.tla                               # a proof module

The longest run takes about two minutes on two workers.  Eight modules hold
proofs; together they take several minutes, `EmployeeQrReleaseProofs` the
longest.

## Inventory

"Model" names the module, or "-" for what is planned or left out; the reason
is in the component's `note` in `PROJECT.json`.

| Component | State it keeps | Operations that change it | Model |
|---|---|---|---|
| Commercial agents (`commercial/commercial-agent.service.ts`) | `users` of two agent roles with `parent_agent_id`, `agent_allocations`, `agent_allocation_events`, orders booked offline | allocate, sub-allocate, reclaim (admin and parent), offline booking, create, toggle and delete agents | `AgentAllocation` |
| Public orders (`commercial/commercial.service.ts`) | `commercial_orders`, their `attendees`, `payment_webhook_events` | createOrder, verifyPayment, handleWebhook, deletion single and bulk | `Booking` (creation), `PaymentConfirmation` (the rest) |
| Booking page (`src/apps/web/src/app/bookpass/`) | the page's mode, its order, its notice | load, submit, checkout, verify, reload | `Booking` |
| Payment gateway client (`commercial/razorpay.service.ts`) | none | HTTP and signatures | environment of `Booking` and `PaymentConfirmation` |
| Gate check-in (`checkin/checkin.service.ts`) | `daily_checkins`, `scan_logs`, Redis keys `lock:checkin:*` | processCheckin | `Checkin` |
| Redis (`redis/redis.service.ts`) | keys with time to live, or an in-memory fallback | SET NX with token, release by token, counters | lock: `Checkin`, `Booking`; a counter read and written in two calls: `Booking` |
| Help desk (`helpdesk/helpdesk.service.ts`) | the same rows, `audit_logs` | manualCheckin, voidCheckin | `Checkin`; against event control: `EventControl` |
| Attendees (`registration/attendees.service.ts`) | `attendees` | status change, deletion, import, quick pass, QR regeneration | status: `Checkin`; rest - |
| Gates, event control (`gates/`, `event-control/`) | `gates`, several rows of `settings` | create, change, remove gates; toggles, emergency stop and resume | `EventControl`; as one `open` set in `Checkin` |
| Employee QR release (`registration/employee-qr-delivery.service.ts`, `mail/email-webhook.controller.ts`) | `employee_qr_email_releases`, `employee_qr_email_deliveries`, an in-memory flag per process | executeRelease, retrySingleDelivery, provider webhook, log poll, start-up reconciliation | `EmployeeQrRelease` |
| Dispatch scheduler (`registration/employee-dispatch-scheduler.service.ts`) | timers, dispatch rows per date | start-up, release timer, daily dispatch | first two in `EmployeeQrRelease`, daily dispatch in `DailyPasses` |
| Employees and daily passes (`registration/employees.service.ts`, `registration.service.ts`) | registrations, family members, daily passes with e-mail status | register, approve, reject, generate, send | `DailyPasses` |
| Password reset and sessions (`auth/`) | Redis reset records, `password_changed_at` | request, verify, reset | - |
| Settings (`settings/`) | `settings` rows | switches, full power | full power in `PaymentConfirmation`, booking in `Booking` |
| Staff (`staff/staff.service.ts`) | `users`, gates of staff | CRUD; deletion repeats the agents' | deletion as in `AgentAllocation` |
| Incidents | `incidents` | one-row workflow | - |
| Guards, master data, reports, dashboard, health, mail, WhatsApp, traffic test, test laboratories, migration scripts, web pages, shared types | none of their own, or staging data | reads, formatting, one-off imports | - |

How they interact:

- HTTP handlers are asynchronous functions of Node processes.  Between two
  `await`s one handler runs alone in its process; at every `await` any other
  handler, of this or of another process, may run.  Production starts one
  process per core (`src/ecosystem.config.js:7`, `instances: 'max'`), so
  everything in memory (`isProcessingRelease`, timers) exists once per process.
- The only shared state is PostgreSQL and Redis.  Prisma transactions run at
  READ COMMITTED: each statement sees what was committed before it, an UPDATE
  re-evaluates its WHERE under the row's lock, unique indexes and foreign keys
  are checked at the statement.
- The payment gateway and the mail provider call back, late, repeatedly and in
  any order.
- Components meet in tables: an `attendees` row made by a payment, a booking or
  an approval is scanned at the gates, reversed at the help desk, and revoked or
  deleted with its order.

What is hard, and what makes each part right:

| Part | Hard behaviour | Correct means |
|---|---|---|
| Agents | four operations take from one row; deletion decides on a snapshot; a second UPDATE may silently match nothing | nothing oversold, events explain quotas, bookings cover orders, hierarchy one level deep, all rows together never sell what was not granted |
| Payments | browser and gateway confirm the same order at once; the lock decides nothing; a restart falls between any two writes; deletion overlaps confirmation | a paid order has its passes, a processed event its effect, captured money is confirmed in the end, retries issue nothing more |
| Check-in | two reads and a write per transaction at READ COMMITTED; the lock may be down, outlived, or left behind | one entry per pass and date, one in all for Any Day; rows and entries agree; a valid pass gets in |
| Booking | a lock that may run out under its holder, a gateway order before its row, a page that loses its answer | no money without an order, one creation per number, closed means closed, the page tells the truth |
| Event control | three settings for one stop, written one by one, by administrators who overlap; removal decides on an earlier count | a stop holds, controls one by one have their effect, every entry is accounted for |
| Daily passes | decisions that race, a dispatch per process, mails cut off | passes follow the last decision, runs that follow each other mail once, an enabled date is dispatched |
| QR release | processes with separate flags; reports out of order; restart in the middle of a mail | no second mail without a reason, nothing shown delivered that was not, nothing waits in a closed release |

The 40 hazards of `PROJECT.json` name the lines where these bite.

## Conventions

A component's module has its state as variables, one action per step of a
handler, and the properties at its end.  A handler that reads, awaits and
writes is two or more actions, and what it read is kept in
`request[h]` (`job[h]` in `DailyPasses` and `EventControl`; `run[p]`,
`mail[s]`, `hook[p]`, `poll[p]` in the release), so other handlers act on the
gap.  `Handlers` are requests in flight, not
threads: two are enough for every race of two requests.

- A refused transaction (a guard of an UPDATE, a foreign key, a missing
  row) leaves the tables alone and ends the handler; the error's wording is
  left out.
- Names, phones, mails, tokens, amounts and audit texts are left out.  Times
  are left out except where their order decides.
- `Mutant:` operators stand before the definitions they are variants of.  No
  specification uses them; each is a plausible mistake in the code under
  which a property of a run fails, so the property is known to depend on the
  code's being as it is.
- History variables (`granted`, `inside`, `acked`, `grounds`, and those their
  declarations call history) appear in no guard except where they carry a
  bound.
- Every configuration says `CHECK_DEADLOCK FALSE`: the bounds run out
  (ids, restarts, mails), and a system at rest with no request in flight is
  not a mistake.  The MC modules hold symmetry sets and the few constants
  that need a definition; symmetry is off in runs that check liveness.

## AgentAllocation and PassPool

`commercial-agent.service.ts`, with the two deletions of
`commercial.service.ts` that touch an agent's booking.

| Variable | Code |
|---|---|
| `account` | role, `parent_agent_id`, `is_active` of agents; `acted`: some event names it performer |
| `alloc` | the row of `agent_allocations` per owner, the archive user included |
| `ledger` | sum of `quantity_delta` of a row's ALLOCATE, SUB_ALLOCATE and RECLAIM events |
| `order` | orders booked offline, each standing for its CONSUMPTION event too |
| `request` | handlers between their checks and their transaction |
| `granted` | history: what administrators granted less what they reclaimed |

Every operation is `Begin…` (the checks before the transaction) and an action
named after the method.  A transaction is one step, because each of these
starts with an UPDATE whose WHERE is re-evaluated under the row lock
(`CanTake`), and what follows depends on that row.  `CreateAgentAdmin`,
`CancelOrder` and `PurgeOrder` are single steps: their reads decide nothing
that another request can change.

`deleteAgentAdmin` is the intricate one: sub-agents, row and orders are read
before its transaction (`BeginDeleteAgent`), which converts sub-agents only if
the snapshot had some, moves the row or only its events to the archive user,
and detaches the orders by id.  What the snapshot did not have falls to the
foreign keys (`ON DELETE SET NULL` for `parent_agent_id`, CASCADE for a row).

Choices: one pass type, since rows of different types never meet in one
UPDATE; ids are never reused; the table's CHECK constraints are
left out on purpose, because the proof that they are never hit is worth
more than a model in which they hold by construction; there is no endpoint
that changes a parent.  `staff/staff.service.ts` repeats the deletion.  Lists,
revenue views, profile edits and customer data are left out.

`PassPool` is what the administrator is promised: passes are granted, unsold
ones withdrawn, none sold that was not granted.  `ImplementsPool` maps
`granted` to itself and `sold` to the quantities of all orders ever booked.

## PaymentConfirmation and PublicOrder

`verifyPayment`, `handleWebhook`, `deleteOrderAdmin` and
`bulkDeleteOrdersAdmin` of `commercial.service.ts`, for public orders.

| Variable | Code |
|---|---|
| `order` | `order_status`; PAID and `payment_status` CAPTURED go together |
| `passes` | the order's attendees: `live`, `revoked`, and `orphan` (ACTIVE with `order_id` NULL) |
| `captured`, `delivery` | the gateway: money held, events unsent, sent, answered |
| `eventRow` | `payment_webhook_events`: absent, recorded, processed |
| `request` | handlers between two round trips, with the status and the number of passes they read |
| `crashes` | bound on restarts |

A transaction that reads the order and then writes is two steps
(`ReadVerify`, `CommitVerify`; `ReadWebhook`, `CommitWebhook`): at READ
COMMITTED with no row lock another may commit in between.  A webhook delivery
is record, read, commit, close, and an event already processed is answered at
once (`SkipProcessed`).  A bulk deletion is orders deleted one by one.  Deletion
is cancel, purge with full power, or the plain removal in two statements
(`RemovePasses`, `RemoveOrder`).

Choices: Redis' `lock:verify-order` is no variable, because `acquireLock`
answers null both for HELD and for unavailable and both handlers go on with
null; full power may be switched between any two steps; the 16 random bits
of a ticket number are taken as unique; test payments, the lock and
rate limit of createOrder, deletion of single attendees and the ticket mail
are left out; `failed_at` and `failure_reason` are read by no guard.

`PublicOrder` is what a customer may rely on: an order is placed once, becomes
PAID only after its money was taken (or is a staging test order), and stays
deleted once deleted.  `Booking` and `PaymentConfirmation` both implement it
(`ImplementsPublicOrder`), the one with confirmation as a single step, the
other with creation as one.  So each may take the other's part as the abstract
step it is: whatever `Booking` does with a row, `PaymentConfirmation` sees
`Place`, and the other way round `Confirm`.

## Checkin and GateEntry

`processCheckin` of `checkin.service.ts` with the lock of `redis.service.ts`,
and `manualCheckin` and `voidCheckin` of `helpdesk.service.ts`.

| Variable | Code |
|---|---|
| `status` | `attendees.status` |
| `row` | `daily_checkins`, at most one per attendee and date (unique index), with its gate |
| `open` | gates where event control, emergency stop, gate switches allow a scan |
| `lock` | whose token each `lock:checkin:*` key holds; an Any Day pass has one key for all dates |
| `request` | requests between two steps; `seen`: what the transaction last read of the row |
| `inside` | history: entries granted since the last reversal |

A scan is `BeginScan` (all reads before the lock: event, gate, capacity, pass,
booking), the lock (`AcquireLock`, `LockHeld`, `LockUnavailable`), two reads
(`CheckExisting`, `FindRecord`), and `WriteScan` with the release of the lock
in the `finally` block.  The desk has no lock and its duplicate check outside
the transaction (`BeginDesk`, `FindForDesk`, `WriteDesk`).  A reversal reads,
then writes (`BeginVoid`, `WriteVoid`).  `Expire` is the five seconds of the
key's life, `Crash` a restart that leaves the key behind.

Three switches say which part of the environment a run includes:
`Desk` (manual check-ins), `Voids` (reversals), and `Lossy` (Redis may be
unavailable, and a key may expire while its transaction still runs).  Without
`Lossy` a lock outlives the transaction it protects: five seconds against a
few statements.  Left out: rate limit, unknown token, gate assignment, VIP gates
(they refuse before anything modelled), scan logs, `isLoadTest` rows, the
USED mark of daily employee passes, and the deletion of check-ins with a gate
or an attendee.  Any date may come with any scan, because the active date is
a setting and super administrators may simulate one.

`GateEntry` is what check-in promises: a pass lets one person in per date, an
Any Day pass on one date only, until the entry is reversed.

## EmployeeQrRelease

`executeRelease`, `retrySingleDelivery`, `processProviderWebhook`,
`reconcileDeliveryStatusesWithHostinger` and `reconcileInterruptedReleases` of
`employee-qr-delivery.service.ts`, as started by administrators and by each
process's scheduler.

| Variable | Code |
|---|---|
| `row` | `employee_qr_email_deliveries`, known by attendee and creating process |
| `release` | `employee_qr_email_releases.status` |
| `run` | each process's executeRelease; not idle means `isProcessingRelease` |
| `mail`, `hook`, `poll`, `resume` | each process's mail under way (of the run, of a single retry), webhook, log poll, start-up reconciliation |
| `acked`, `events`, `grounds` | mails the provider acknowledged, its reports, and the reasons to mail once more |
| `faults` | bound on restarts and on throwing database calls |

Steps 1 to 7 of a run are one action (`BeginRelease`): they write the new
RUNNING release only.  `Throw` is any database call that throws outside the
inner `try`; `LoseAnswer` is the ACCEPTED write that throws inside it, whose
`catch` writes FAILED for a mail that is out.  Webhook and poll are read and
write (`Begin…`, `Apply…`).  Reports come late, again, and in any order; a
report is known as a duplicate only by a row's last `provider_event_id`, as in
the code.  An administrator's order to send (`only`, `BeginRetry`), a report
other than DELIVERED and a lost acknowledgement are `grounds` for
another mail.

Choices: mails of a chunk concern different rows and are sent one by one; a
missing address is a refused answer; a mail whose answer is lost with a
restart is not counted as acknowledged; `isTest` rows, the schedule setting,
approvals that come during a run, the 120-minute cut-off of the poll, tokens
and PDFs are left out.

## DailyPasses

`register` of `registration.service.ts`; approval and rejection, single and
bulk, `generateDailyPasses` and `sendDailyPassEmails` of
`employees.service.ts`; schedules and the daily dispatch of
`employee-dispatch-scheduler.service.ts`.  One event date.

| Variable | Code |
|---|---|
| `reg`, `att` | `registration_status` of employees, `status` of their attendees |
| `mail` | `daily_employee_passes.email_status`; `none`: no pass yet |
| `schedule` | the setting `employee.dispatch_schedule.<date>`: enabled, result of the last run |
| `job` | handlers between two steps: a decision's employees, a copied schedule, the passes still to do (`todo`) and at hand (`cur`) |
| `acked`, `excuse`, `lost`, `own` | history: mails acknowledged, reasons for one more, mails a lost handler was sending, attendees given a status of their own |

A decision is `BeginDecision` (who can be decided) and `CommitDecision` (writes
them without another look).  A run is a chain of steps for each pass: find,
create, mark SENDING, answer, record.  A dispatch (`Ticks`, one timer per
process) is generation, then mails, then the result; a request (`Desks`) is any
one of them.  `Lose` is a restart or a database call that throws: nothing
undoes SENDING.  A resend of one pass, and two runs that had the same pass in
their lists together, are `excuse`s; nothing writes the RUNNING mark that the
code looks for, so runs of one date do overlap.

Choices: a tick before the dispatch time, or in the quarter of an hour after a
failed run, only delays `BeginDispatch`; whoever registers gives an address;
edits of family members, lists and exports are left out.

## EventControl

`event-control.service.ts`, `gates.service.ts`, and what `processCheckin` and
`manualCheckin` read of them before they write.

| Variable | Code |
|---|---|
| `set`, `legacy` | `event_control.*` in `settings`: event closed, emergency stop, scanning; whether an old row `emergency_stop` exists too |
| `gate`, `logged` | `gates`: status, open, paused; gates named by scan logs |
| `entry` | `daily_checkins`: the gate of an attendee's entry |
| `job` | handlers between two steps: at the door (`Doors`) or administrators (`Admins`) |
| `entries`, `erased`, `over` | history: entries granted, taken with a gate, written over by the desk |
| `expect` | history: the settings as they would be had the controls come one by one |

A request at the door reads status, stop, scanning and gate one after the
other, then writes (`ReadStatus` ... `Enter`).  A control of the event is one
action per setting it writes; a toggle reads and writes.  `BeginRemove` counts
what hangs on a gate, `Deactivate` and `Remove` act on that count.  `Lose` cuts
an administrator's request between two writes.

Choices: who may use a gate, capacity, and the lock between scans are in
`Checkin`; here a scan that meets an entry is refused at the write.  Behaviour
the models keep though it surprises: a scan does not look at the gate's
INACTIVE status, the desk does; the desk takes whichever of two settings rows
comes first.  The active date is left out, and so is the heartbeat of
`checkin.service.ts:854`, which reads older keys than the ones event control
writes and only informs the scanner.

## Booking

The page `apps/web/src/app/bookpass/page.tsx` and `createOrder` of
`commercial.service.ts`, with its lock and counter in Redis.

| Variable | Code |
|---|---|
| `on`, `testMode` | the three settings of booking; staging test payments |
| `attempts`, `lock` | `rl:comm-order`, `order_create:<mobile>` |
| `request` | createOrder between two round trips; `shut`: settings off ever since it came, `late`: its lock ran out |
| `row`, `gateway` | `commercial_orders`, the gateway's side of an order |
| `page` | each page's mode, its notice, whether it believes payments are on |
| `toggles`, `crashes` | bounds |

The settings are read one by one, the counter is read and written in two calls,
and the section between `AcquireLock` and the `finally` block (`Answer`) is the
gateway's order, then the INSERT.  Redis may fail at any call; the lock may run
out under its holder; the page may lose its answer, reload, or be dismissed
with a payment under way.  Verification is one step here: its round trips are
`PaymentConfirmation`, which starts where `row` becomes PENDING; the two meet
in `PublicOrder`.

Choices: all customers share one address, the case in which the limit bites;
the branch that refuses missing terms cannot be reached behind the validation of
the body.  The comment "Continue if Redis is unavailable"
(`commercial.service.ts:301`) holds for the counter only: without the lock the
order is refused, and the model refuses it.

## The runs

| Run | Configuration | What it checks |
|---|---|---|
| `agent_allocation` | 2 agents and the archive, 2 orders, 2 requests, quantities 1 and 2, at most 2 allocated | `TypeOK`, `NoOversell`, `LedgerExplainsQuota`, `BookingsCoverOrders`, `OneLevelHierarchy`, `ImplementsPool` |
| `payment` | 1 order of 2 passes, 2 requests, all three kinds of event, full power, 1 restart, fairness | `TypeOK`, `PaidHasPasses`, `ProcessedMeansConfirmed`, `OneBatchPerOverlap`, `ImplementsPublicOrder`, `CaptureConfirmed` |
| `checkin_entry` | a dated and an Any Day pass, 2 dates, 2 requests, reversals, 1 restart, reliable lock, fairness | `AdmittedOnce`, `ImplementsGateEntry`, `VisitorGetsIn` |
| `checkin_gates` | 3 passes, a gate with one place, desk, reversals, failing lock, suspensions, 1 restart | `TypeOK`, `EntriesRecorded`, `OvershootBounded` |
| `qr_release` | 1 process, 1 attendee, 2 releases, 2 mails, DELIVERED and BOUNCED, single retries, 1 fault, fairness | `TypeOK`, `MailedForAReason`, `NoFalseDelivered`, `QueuedIsOpen`, `FlagCleared` |
| `daily_passes` | 1 employee with 1 attendee, 1 timer, 1 request, 2 mails, 1 lost handler, fairness | `TypeOK`, `PassesFollowDecision`, `MailedForAReason`, `MailStatusIsTrue`, `DispatchHappens` |
| `event_control` | 1 attendee, 1 gate, 1 request at the door, 2 administrators, 1 lost request | `TypeOK`, `StopHolds`, `ControlsInOrder`, `EntriesAccounted`, `HistoryKept` |
| `booking` | 1 page with reloads, 2 requests, 2 orders, a limit of 1, 1 change of a setting, 1 restart | `TypeOK`, `MoneyHasOrder`, `OneCreationPerMobile`, `ClosedMeansClosed`, `PageTellsTruth`, `ImplementsPublicOrder` |
| `booking_live` | the same with 1 order and no change of settings, fairness | `PageAnswered` |
| `double_issue`, `void_resurrects` | smallest instance each | one violated statement each, below |

Why the bounds are enough.  The races are between two requests that act on
the same row, so two handlers meet every pair of steps.  Quotas need two
agents, one the other's parent, and the archive.  Orders never touch one
another's rows, so one is enough in `payment`; a quantity of 2 tells a
partial batch from a whole one.  Two dates are needed for the Any Day rule,
three passes for a gate to overshoot its one place by more than the bound
allows.  Two releases are needed for one to find the other's rows, and two
mails for a report of the first to reach the row of the second.  A dispatch and
a request are the two overlapping runs of `DailyPasses`.  A stop is mixed up by
two administrators and met by one request at the door; an instance with two
requests at the door, one administrator was checked by hand (4.4 million
states).  In `booking` a reload gives one page two requests in flight; two
pages with one order were checked by hand together with the inductive
invariant (2.8 million states).  One restart may fall at any step; more of
them repeat what one can do.  For the safety properties the question is
settled by the proofs below, which have no bounds.

Fairness.  A handler goes on until it answers (`WF` of its step): the event
loop serves every promise.  The gateway repeats an event until it is
answered, however often the attempt comes to nothing (`SF` of the delivery).
Redis deletes a key when its time is over (`WF` of `Expire` in `Checkin`).  A visitor who is
turned away presents the pass again (`SF` of `BeginScan`).  A release goes on
(`WF` of `Work`), which is all `FlagCleared` needs.  The dispatch timer ticks
once a minute in every process, so a due date is begun (`WF` of
`BeginDispatch`).  In `Booking` requests go on; no page, customer or gateway is
assumed to do anything, no lock need run out, and a verification need not come:
`PageAnswered` holds without, because a request that finds the lock taken is
refused.

## What the violations show

Each of these runs checks one statement that a comment or a test of the
repository makes, and TLC's trace shows the steps of the code that break
it.  Quotations and lines are in `PROJECT.json`, `findings`.

| Run | Statement | What happens |
|---|---|---|
| `double_issue` | `IssuedOnce` | two confirmations read the order inside their transactions before either commits; both create all passes |
| `void_resurrects` | `VoidKeepsSuspension` | a suspension that commits after the reversal's read is overwritten with ACTIVE |

Some checked properties fail outside the constants their runs give, which is
why they have them: `AdmittedOnce` when the lock may fail (`Lossy`: a scan
whose second read finds the row just inserted updates it and answers SUCCESS)
or with the desk (its duplicate check is outside its transaction);
`MailedForAReason` and `QueuedIsOpen` of the release with two processes, as
production has them (each has its own `isProcessingRelease`, creates a delivery
of its own and mails the attendee again); `NoFalseDelivered` when members of
a family share an address.

Other disagreements met while modelling are behaviours of the models, though
no run asserts their absence:

- Agents: a reclaim whose second UPDATE matches nothing leaves passes in
  nobody's quota; a sub-agent created during its parent's deletion keeps its
  role without a parent; the archive row of a second deleted agent does not add
  up with its events; an agent that gains history after the check is deleted
  all the same.
- Orders: a removal decides on its protection check before its transaction, so
  an order paid in between is deleted with its passes; full power may leave
  valid passes without an order; a cancelled order may become PAID with revoked
  passes only.
- Release: a row queued by a release that was cut off is sent by no later one.
- Daily passes: an approval read before a rejection and written after it
  makes the family's passes ACTIVE again; the result of a dispatch, written
  into a copy of the schedule, may undo an administrator's switching it off;
  a pass left in SENDING is selected by no later run.
- Event control: two overlapping presses of a toggle count as one; a stop and
  a resume that overlap leave scanning on while stopped (entries stop all the
  same, `StopHolds`); an unforced removal of a gate takes entries made after
  its count, and their visitors may come in again.
- Staff: the deletion of an account counts its history before its
  transaction; incidents filed meanwhile lose their reporter.

## What is proved

The proofs hold for every value of the constants that meets the
`ASSUME`s of the modules: any number of agents, orders, passes, gates, dates,
requests and restarts.  Sets whose members are counted are assumed finite.

| Theorem | Statement | Argument |
|---|---|---|
| `TypeCorrect` | `Spec => []TypeOK` (agents) | `TypeOK` is inductive, because it includes what a request past its checks knows (`Named`) |
| `NeverOversold` | `[]NoOversell` | each UPDATE that takes from a row is guarded by `CanTake`; the reclaim's second UPDATE by `Returned` |
| `LedgerComplete` | `[]LedgerExplainsQuota` | each operation changes row and events by the same amount, the skipped UPDATE included; proved together with `NoOversell` |
| `BookingsAlwaysCover` | `[]BookingsCoverOrders` | below |
| `AgentsImplementPool` | `Spec => ImplementsPool` | below |
| `HierarchyHolds` | `[]OneLevelHierarchy` | a request to create a sub-agent names a parent that cannot become a sub-agent: `account` changes to a sub-agent only from an unused id |
| `PaymentTypes`, `PaidOrdersHavePasses`, `ProcessedReceiptsConfirmed` | `[]TypeOK`, `[]PaidHasPasses`, `[]ProcessedMeansConfirmed` | below |
| `AtMostOneBatchPerRequest`, `SequentialIssuesOnce` | `[]OneBatchPerOverlap`; with one request at a time, `[]IssuedOnce` | below |
| `OrdersOnlyProgress` | every step is `Progress(o)` for every order | below |
| `PaymentsImplementPublicOrder`, `BookingImplementsPublicOrder` | `Spec => ImplementsPublicOrder`, in either module | below |
| `CheckinTypes`, `EntriesAreRecorded` | `[]TypeOK`, `[]EntriesRecorded` | whatever lock, desk and reversals do: `RowInv` |
| `OvershootAlwaysBounded` | `[]OvershootBounded` | below |
| `AdmittedOnceWithLock` | `Reliable` implies `[]AdmittedOnce` | below |
| `ScansImplementGateEntry` | `Reliable` implies that the scans refine `GateEntry` | below |
| `TypeCorrect`, `NeverFalseDelivered`, `QueuedStaysOpen`, `AlwaysMailedForAReason` | the invariants of the release; the second with addresses of their own, the last two with one process | below |
| `TypeCorrect`, `PassesAlwaysFollow`, `MailStatusAlwaysTrue`, `AlwaysMailedForAReason` | the invariants of `DailyPasses` | below |
| `TypeCorrect`, `StopAlwaysHolds`, `EntriesAlwaysAccounted`, `HistoryAlwaysKept`, `ControlsAlwaysInOrder` | the invariants and the action property of `EventControl` | below |
| `TypeCorrect`, `MoneyAlwaysHasOrder`, `AlwaysOneCreationPerMobile`, `ClosedAlwaysMeansClosed`, `PageAlwaysTellsTruth` | the invariants of `Booking` | below |

*Agents* (`AgentAllocationProofs`, `SumTheorems`).  The bookings of a row and
the passes of the pool are sums over sets of orders and of accounts.
`SumTheorems` proves what such a sum does when a term changes, vanishes or
grows, for the library's `SumFunctionOnSet`.  Induction over finite sets by the
library's theorem is out of the prover's reach, for it takes an operator; the
lemmas use instead that strict inclusion of finite sets is well-founded, and
refute the smallest set that would break the claim.
`BookingsCoverOrders` needs `BookedInv`: an order of a live agent's row is
counted under that agent, and an unused id counts for nothing; then a
transaction changes one order and one row, or all orders of a deleted agent and
the archive's row.  `ImplementsPool` needs `PoolInv`: what was sold and what is
still in anyone's hand is at most what was granted.  It is an inequality, for
a reclaim whose second UPDATE matches nothing, and an archive row that is
dropped, lose passes; what they can never do is make some.  From it follows the
guard of `Withdraw` and of `Sell` at every transaction that maps to one.  TLC
checked both on the instance of `agent_allocation` (797,736 states) first.

*Payments* (`PaymentConfirmationProofs`).  Neither property is inductive: a
handler commits what it decided on an earlier read.  The invariant `IInv` adds
that passes come in batches (`Batches`: none, or at least the quantity), that
events belong to orders that were created, and that what a handler remembers
is still good enough (`StillGood`).  The step lemmas show that every action
lets an order only make progress (`Progress`: never back to PENDING, never back
from deletion, no passes lost before it), and that `StillGood` survives
progress; so the stale read cannot hurt these two properties, though it does
hurt `IssuedOnce`.  That every step is such progress is the action property of
`OrdersOnlyProgress`.  How far it can is `OneBatchPerOverlap`: a request that will
issue a batch read the order without passes (`Issuing`), so the passes of an
order are covered by the requests that will issue no more (`Covered`: at most
`Quantity` for each of `Spent`), and a commit moves its request from the one
side to the other together with its batch.  With a single request the bound is
one batch (`SequentialIssuesOnce`): the double issue TLC finds takes two
confirmations that overlap.  For `PublicOrder`, `MoneyInv` says that every
request on a confirming path, and every capture event the gateway has sent, has
money behind it (`Backed`, `EventsBacked`): a handler that commits looks at no
payment any more, only the way it came vouches for it.

*Check-in* (`CheckinProofs`).  `RowInv` says that rows and entries agree; it
needs that a reversal in flight has a row to reverse.  With
`Reliable == ~Lossy /\ ~Desk`, `EntryInv` adds that a scan past the lock
holds its pass's key (`Exclusive`), and that what its first read found is still
so (`NotYetIn`): two scans of a pass past the lock would hold the same key.
The same invariant gives the refinement step by step: `WriteScan` is `Enter`
or nothing, `WriteVoid` is `Reverse` or nothing, and no other step changes
`inside`.  TLC finds a second admission as soon as either half of `Reliable` is
dropped.  `OvershootBounded` needs neither: the entries at a gate and the
requests past its capacity check together never exceed all but one of its
places and all requests (`GatesFit`), because whoever passes the check finds a
place free, and whoever enters was counted before.

*QR release* (`EmployeeQrReleaseProofs`).  `SafeInv` says that rows remembered
by a run, a mail, a webhook or a poll exist, that an acknowledged mail is
counted, and that a report stands behind what a webhook is about to write;
`NeverFalseDelivered` follows.  For one process, `Closing` says that the
waiting rows of the release under way are targets it still has to send, and
that the start-up reconciliation names no release of this process, so an
ending release closes over nothing that waits.  `Budget` counts for an attendee
the mails acknowledged, those out in the hands of the run and the retry, and
one for a row the run would send: together at most one more than the
`grounds`.  Both were checked with TLC on two instances (one attendee and all
kinds of report, 2.0 million states; two attendees with a shared address,
5.8 million) before they were proved.

*Daily passes* (`DailyPassesProofs`).  `SafeInv` adds to the properties that a
list holds passes of decided registrations only and that an acknowledged mail
in a handler's hands is counted.  `MailedForAReason` is again a budget: the
mails acknowledged, those in some run's list, and a refusal not yet recorded
never exceed one more than the excuses, and a pass whose status lets a run
select it has one of them to spare; a selection while another run holds the
pass pays with an excuse.

*Event control* (`EventControlProofs`).  `StopHolds` rests on the order of the
writes: a request is barred only while the stop itself is set
(`BarredWhileStopped`), so what it reads of the stop first decides, whatever
becomes of the scanning switch afterwards.  `HistoryKept` needs that an
unforced removal has counted no entry at the gates it takes.  `ControlsInOrder`
needs what the settings still lack of the expected ones while the only control
under way goes on.

*Booking* (`BookingProofs`).  `IInv` adds to the properties what a request has
found on by its place (`ShutOK`), that a request in its section holds its lock
unless late (`LockOK`), that no order is on two pages, in two requests, or in
both (`ApartOK`), what a request or a page knows of its order (`KnownOK`), and
that a page waits for one request (`ReplyOK`).  `PageTellsTruth` needs all of
them: a page may say that nothing was paid because nobody else can have opened
a checkout for its order.  For `PublicOrder` it adds `PlaceInv`: the number a
request is about to insert is nobody's row yet (`Unwritten`), so its INSERT
neither places an order twice nor turns a paid one back.  `MoneyInv` and
`PlaceInv` were checked with TLC on the instances of `payment` and `booking`
first.

## What is only model-checked

- Liveness under fairness: `CaptureConfirmed`, `VisitorGetsIn`,
  `FlagCleared`, `DispatchHappens`, `PageAnswered`.  The prover does not reason
  about fairness, nor about what is enabled.  Every other property of a passing
  run is a theorem.
- The two violated statements, which TLC refutes.

## Not modelled

What the inventory marks "-", and what the components' notes call left out.

- Password reset (`auth/password-reset.service.ts`) and accounts of staff other
  than the deletion they share with agents: state of their own with races of
  their own, listed under the plan.
- Attendees' creation, import and single deletion, QR regeneration, and edits
  of family members: writes of one or a few rows that no other handler decides
  on, except the deletion of the last passes of an order (plan).
- Incidents: a one-row workflow whose only race a unique index turns into an
  error.
- Reads only: reports, dashboard, daily closing, health, lists, exports.
- Formatting or parsing around one statement: mail rendering, PDFs, WhatsApp,
  spreadsheets, validation of bodies, authorization guards, which are pure
  decisions and appear as the caller's rights.
- Tools that touch only marked test rows: traffic test, test laboratories,
  migration scripts.
- Web pages other than the booking page.  They are two thirds of the
  repository's lines, and they are forms and tables over the API, which
  enforces every rule again; what matters of them is that they repeat
  requests, and the models' requests may come at any time and any number of
  times.  So the share of the repository's lines that the models stand for
  stays small, although the models have nearly all handlers whose overlapping
  or interrupted execution decides anything.

## Plan

In order of what could hurt most at an event:

1. `PasswordReset`: request, verification and use of a reset record by
   overlapping requests, attempt counter, revocation of sessions by time.
   Abstract specification: a code authorizes one change of password.
2. `StaffAccounts`: creation, gates of staff and deletion through the archive
   user, with the incidents and scans that name them.
3. `Attendees`: deletion of single passes of an order, import, quick passes,
   regeneration of QR codes, composed with the rows of `Checkin`.
4. The schedule setting of the releases, read and written as a whole by the
   settings page and by the end of a release, composed with
   `EmployeeQrRelease`.
