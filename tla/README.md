# Formal models of the parental coordination back end

This directory holds TLA+ models of the NestJS back end under `src/`: two parents
(members of a *bond*) share activities and expenses; every change is an event in
a transactional outbox, and workers turn those events into timers, webhook
deliveries, notifications and realtime frames.  TLC checks the models on small
instances, TLAPS proves the central invariants for every instance.

Paths below are relative to `src/src/` unless they say otherwise.

## 1. Inventory

Processes: an API process (several replicas) serving HTTP and WebSockets, and one
worker process (`src/k8s/worker-deployment.yaml`, one replica, rolling updates)
consuming the BullMQ queues.  They share PostgreSQL (rows, outbox) and Redis
(queues, pub/sub).  Nothing else is shared; there is no distributed lock.

| component | state | operations | talks to |
|---|---|---|---|
| Activities (`activities/`) | `activity` rows: status, version, schedule, response deadline, confirmed/declined/verify/deleted marks | create, complete, confirm, decline, assign, reassign, cancel, delete; system transitions | outbox (same transaction), timers (after commit) |
| Activity timers (`queues/activity-timers/`) | delayed jobs keyed by kind, activity, version | enqueue, cancel, handle, 15-minute sweep | Activities |
| Outbox (`outbox/`) | `outbox_event` rows, `dispatched_at` | insert, find pending, mark, purge | written by Activities and Expenses, read by the relay |
| Webhook dispatch (`webhooks/dispatcher/`) | `webhook_delivery` rows | poll, match, fan-out, reconcile, retention | outbox, delivery queue, notifications, realtime |
| Webhook delivery (`webhooks/delivery/`, `webhooks/admin/`) | delivery status, attempt count; jobs and their attempts | handle, retry with backoff, replay | subscriptions, customers' endpoints |
| Subscriptions and health (`webhooks/subscriptions/`, `subscription-health.service.ts`) | status, failure streak, two secrets | create (cap of ten), update, remove, rotate, record success/failure, disable | delivery |
| Endpoint limiter (`endpoint-limiter.ts`) | slots and waiters per host | acquire, hand over, release | delivery |
| Expenses (`expenses/`) | `expense` rows; no version column | create, edit, approve, reject, pay, cancel; stale reminders | outbox, bonds |
| Attachments (`activities/attachments`, `expenses/attachments`) | rows and stored objects, kept together by nothing but the code | presign, confirm, rename, replace, remove, convert | storage |
| Notifications (`notifications/`) | one row per recipient and event, read marks | create from event, mark read, purge | relay |
| Realtime (`realtime/`) | sockets per user, in the memory of the API process | connect, disconnect, deliver | Redis pub/sub, members |
| Reports (`reports/`) | report status, PDF job, PDF in the bucket | request, render, metrics | storage, queue, tables of activities and expenses |
| Bonds and administration (`bonds/`, `admin/`) | accounts, bonds, members, children, active flags | create user and bond, edit, add member, add and remove child, (de)activate | everything that checks membership |
| Audit, auth, storage, children, categories, users, config, database, health | rows or none | plain CRUD, external identity, start-up | -- |

**What is hard here.**  Activities are changed by users, by a delayed job and by a
sweep, each of which reads, decides, and writes later: correctness rests on a
compare-and-set of status and version.  Timers live in another store than the
rows they belong to, so each can be lost, duplicated or outlive its purpose.
The outbox gives at-least-once processing: fan-out, deliveries, notifications
and frames can repeat, reorder or be cut short by a crash.  Expenses use a
compare-and-set on the status alone.  Webhook deliveries have three writers
(the job, the replay, the reconciliation) and no compare-and-set at all, and a
stalled job is given to a second handler while the first may still work;
subscriptions and bonds are loaded, patched and saved whole, which brings back a
subscription that was removed in between.  Attachments and
reports write a bucket and a table one after the other.  A frame is sent to sockets
that come and go while the query of the members runs.

The hazards, each at its line with the properties that watch it, are listed in
`PROJECT.json`.

## 2. Plan

In order of importance, all done but for what section 7 lists:

1. **Activity lifecycle**: `ActivityTransitionMap`, `ActivityLifecycle`, the abstract
   `ActivityContract`, `ActivityLifecycleProofs`.
2. **Webhook delivery**: `WebhookDelivery`, the abstract `DeliveryContract`,
   `WebhookDeliveryProofs`.
3. **Expenses and their reminder**: `Expenses`, `ExpensesProofs`.
4. **Endpoint limiter**: `EndpointLimiter`, `WebhookEndpointProofs`.
5. **Notifications**: `NotificationRules`, `Notifications`, the abstract `InboxContract`,
   `NotificationsProofs`.
6. **Administration and realtime**, composed: `BondAdministration`, `RealtimeGateway`,
   `RealtimeGatewayProofs`.
7. **Subscriptions and health**, composed with the limiter: `WebhookSubscriptions`,
   `WebhookEndpointProofs`.
8. **Attachments**: `Attachments`, `AttachmentsProofs`.
9. **Figures and reports**: `BondFigures`, `Reports`, `ReportsProofs`.

Which module extends which: `ActivityLifecycle` extends `ActivityTransitionMap` and
instantiates `ActivityContract`; `WebhookDelivery` instantiates `DeliveryContract`;
`Notifications` extends `NotificationRules` and
instantiates `InboxContract`; `WebhookSubscriptions` extends `EndpointLimiter`;
`RealtimeGateway` extends `BondAdministration`; `Reports` extends `BondFigures`.
An `MC` module adds symmetry sets and the values of function constants, a `Proofs`
module the theorems.

Every invariant, every action property and every refinement of the passing runs is a theorem;
what is only model-checked is liveness.  The two refuted statements of section 4 have theorems that
say how far they fail.

## 3. The modules

### `ActivityTransitionMap`

The rule table (`activity-transition.map.ts`) as sets of edges grouped by who may
take them, the side effects as one set of edges per column, the policy
(`activity-policy.service.ts`) and the pure tables of the timers
(`activity-timers.ops.ts`, the two tables of the processor, the sweep's).
`NextRow` is `buildTransitionFields`.  A row keeps the columns that decide a
transition; timestamps that are only compared with `NULL` are Booleans.
`completed_at`, `cancelled_at`, reasons and texts are never read by a
transition and are left out.

### `ActivityLifecycle`

| variable | code |
|---|---|
| `now` | the clock, shared by servers and database |
| `row[a]` | the `activity` row, `Null` before its insert |
| `outbox[a]` | the `outbox_event` rows of `a`, in version order |
| `timers` | delayed jobs of the queue `activity-timers` |
| `pending[p]` | what process `p` has decided (a route, a timer, a sweep batch) and not yet executed |
| `held[p]` | what `transition()` read, between its read and `applyTransition()` |
| `job[p]` | the timer job a worker is handling |

A change goes through three reads.  First the caller reads and decides
(`Complete`, `ConfirmAssignment`, `Delete`, `Cancel`, `DeclineAssignment`,
`Assign`, `FireTimer`, `Sweep`).  Then `transition()` reads the row again and
checks the rule and the actor (`Load`, or `Drop` when it refuses).  Then
`applyTransition()` locks the row, compares status and version, writes row and
event in one transaction, and the timers are wired (`Commit`, or `Conflict` on
a miss).  Any other step may come between two of these.  `Create` is the insert
with its first event.  `Tick` advances the clock.  `LoseTimer`, `Crash` and the
timers a failed cancel leaves behind are faults, switched on by the constant
`Faults`.

Abstractions, each with its reason:

- every member of `Members` is an active member of the activity's bond.  No code
  ever sets `left_at`; joining and (de)activation are in `Expenses`,
  `Notifications` and `BondAdministration`;
- the checks of `create` and its insert are one step: nothing they read can change
  under them but the clock, and the insert cannot conflict;
- the wiring of timers happens with the commit.  A process that dies in between
  is `LoseTimer`; a wiring that comes late leaves jobs of a past version, which
  is what a failed cancel leaves, and which `IsCurrent` discards;
- a sweep executes its batch in any order (a superset of the query's order);
- a delay is a due time: BullMQ runs a job at any moment from then on.

### `ActivityContract`

The abstract specification: status, responsible person and published events per
activity, no versions, clocks, timers or requests.  A status moves only along an
edge of the table, by an actor the edge allows *at that moment*; each change is
published once with the status it left; an overdue activity may be handed back
only if it became overdue while awaiting an answer, which the contract reads off
the publications and the code derives from columns.

### `MCActivityLifecycle`, `ActivityLifecycleProofs`

The instance definitions for TLC, and the theorems (section 6).

### `WebhookDelivery`, `DeliveryContract`, `WebhookDeliveryProofs`

| variable | code |
|---|---|
| `outbox`, `dispatched` | `outbox_event` rows by `created_at`; those whose `dispatched_at` is set |
| `subscription[s]`, `removals[s]` | status of a subscription, `REMOVED` while its row is gone; how often it was removed |
| `edit[c]` | a subscription that an update or rotation has loaded and not saved, with the status it will write |
| `delivery[p]` | the `webhook_delivery` row of a pair of event and subscription |
| `posts[p]` | requests logged for it since it was created or replayed |
| `job[p]` | the BullMQ job with the pair's deterministic id, and its `attemptsMade` |
| `run[r]` | a relay or reconcile run: its batch, what it matched, what it has still to enqueue or check |
| `handler[h]` | a delivery handler from the start of its job to its end: the row it has read, whether BullMQ still listens to it (`lock`), the status of the subscription it is about to save (`patch`) |
| `replay[c]` | a replay between the reset of the row and the new job |
| `spent` | faults, replays and edits so far; whether nothing has upset the counting of attempts; who has been active all along |

A run goes through `StartRun`, then for each event of its batch `Match` and
`Dispatch` (rows and `dispatched_at` in one transaction) or `SkipEvent` or
`DispatchFails`, `Enqueue` for each row after the commit, and `EndRelay`; a
reconciliation then has `Recheck` for each open delivery.  A handler goes through
`Take`, `Find` (the row), `Prepare` or `Fail`, `Post`, `Record` (attempt and row), then
`LoadHealth` and `SaveHealth`, or `SkipHealth`, for the subscription, and `Finish`, or
`HandlerThrows`.  `LoadEdit` and `SaveEdit` are an update or a rotation.  Both of these
writers go through `updateEntity`, whose `save` writes the status of the copy over
whatever is there and inserts the row again if it was removed meanwhile
(`SaveStatus`).  `Remove` takes the deliveries with it; a handler that has read one
of them finds it gone, and would not take a later row of the pair for it (`HasRow`).
`Reset` and `Requeue` are the replay.  `Promote`, `Elapse` and `Expire` are BullMQ
and the clock.  Redis refuses a command, loses a job, the database rolls back or
fails, a process dies, a job stalls: these are `Faults`.  A job stalls when its lock is
not renewed in time: BullMQ then gives it to another handler, while the first goes on
and may overlap with the second to its end (`Stall`); nothing it does to the job counts
any more.  `MaxUpsets` bounds faults, replays and edits of one behaviour, `MaxRemovals`
the removals of a subscription.
`Asked[s]` are the types a subscription was created with (nothing means everything;
besides a type it may name the wildcard or the catch-all `activity.state_changed`),
`MatchesEventType` is the match.  `Classify` is what the handler makes of an answer:
success, retry, or give up.

Abstractions:

- backoffs are untimed (a delay ends at any moment), so the results do not depend
  on their lengths;
- `getJob` and the `add` that follows it are one step of the reconciliation: BullMQ
  ignores a second `add` with the same id;
- the insert of an attempt and the update of its row are one step (`Record`), the check of
  a replay for an active job and its replacement another (`Requeue`);
- the failure streak is in `WebhookSubscriptions`; what it leads to here is a choice of
  the statuses a handler may save (`Patches`);
- the subscriptions are matched before the transaction, as in the code, and may
  change in between;
- a completed job is expired only while no reconciliation is about to look at it
  (an hour against milliseconds);
- a job that has stalled twice is failed by BullMQ with its row open: see
  `OpenDeliveriesRecover` in section 4;
- the test ping has no row and no retry; it is in `WebhookSubscriptions`.

`DeliveryContract` is the promise without runs, jobs, handlers and two stores: each pair of event
and subscription has a letter (none, open, succeeded, failed, dead, withdrawn).  A letter comes
into being only with the announcement of its event and for who wanted it (`Announce`), is asked
for while it is open and at most `MaxAttempts` times (`Ask`), settles once, as succeeded only
after a request and as dead only after all of them (`Settle`), and is withdrawn with its
subscription (`Withdraw`).  A subscription is `present`, `gone`, or `leaving` as long as somebody
holds a copy of it that was loaded before; only from `leaving` can it come back (`Return`), empty:
a withdrawn letter opens only with an announcement, which needs its subscription present.  Once the last copy is
dropped it is gone for good (`Depart`).  A replay opens a letter again (`Reopen`) and ends the
*calm*, as a return does and a crash, a stall or a database error may: from then on the contract
still says who gets a letter, when it begins, when a subscription may come back and that what
was withdrawn stays so until it is announced, but no longer how often it is asked for and that it settles once.
`LetterOf` and `ListedAs` are the mapping, `Undisturbed` the calm.

### `Expenses`, `ExpensesProofs`

| variable | code |
|---|---|
| `members`, `active` | members of the bond, its `is_active` |
| `row[e]` | the `expense` row; concept, amount, category and split are one value, the terms |
| `outbox[e]`, `audit[e]` | its events and audit entries in the order of their commits |
| `call[c]` | a request between `loadForViewer` and its transaction |
| `scan[w]` | a reminder scan: rows of its snapshot still to lock, rows locked |

`Create`, `Transition` (approve, reject, pay), `Edit` and `Cancel` are whole
transactions: the guarded `UPDATE` with audit entry and event.  `Load` is the read
and the policy's decision, with the counterpart chosen at that moment from an
unordered query.  `Conflict` is the 409.  A scan is the snapshot (`StartScan`), one
`Lock` or `SkipLocked` per row, and the commit of all its events (`Emit`) or a
rollback (`ScanFails`).  `Lock` checks the row again as PostgreSQL does (READ
COMMITTED) but not the anti-join.  An `UPDATE` waits for the lock of a scan, so it
is not enabled while one holds the row.  `Age` is the calendar.

### `EndpointLimiter`, `WebhookEndpointProofs`

The counter, the queue of waiters and the stage of each request for one host.
JavaScript runs `acquire` and the releaser without interruption, so each is one
step; a waiter whose promise has been resolved goes on later (`Start`).

### `NotificationRules`, `Notifications`, `InboxContract`, `NotificationsProofs`

`NotificationRules` is the table of recipients per event type
(`activity-notification.map.ts`, `expense-notification.map.ts`) and its resolution.
`Notifications` follows an event from the outbox to the inbox and to the frame.

| variable | code |
|---|---|
| `role` | `bond_member`: nobody, progenitor or coordinator |
| `activity`, `expense` | the columns the fan-out reads to find recipients |
| `outbox` | events by `created_at`, with `dispatched_at` as a Boolean |
| `inbox` | `notification` rows, read mark, day of creation |
| `told` | history: who was ever given a row for which event |
| `run[r]` | a relay run: its batch, the event it is at, whom it has selected, whose row it has created and must still announce |
| `published` | history: frames sent to Redis |
| `day`, `faults` | the clock of the retention, bounded faults |

A run is `Poll`, then for each event `Select` (reads of bond, activity or expense),
`Commit` (rows, `ON CONFLICT DO NOTHING`, and the mark, in one transaction) or
`Rollback`, `PublishNotification` per created row and `PublishChanged`, and
`Finish`; `Crash` may come anywhere.  Readers mark one row or all, `Purge` is the
retention.  The activity and the expense change only as far as the fan-out can
tell.  `InboxContract` is the promise without runs and transactions: told at most
once and never of one's own doing, read stays read, forgotten only when old.

### `BondAdministration`, `RealtimeGateway`, `RealtimeGatewayProofs`

`BondAdministration` is the back office of one bond: `account`, `bond`, `rows` (member
rows per user: no key forbids a second one), `children` and, per administrator,
`request` (what an operation has read and is to write).  `LoadBond` and `SaveBond` are
one (de)activation: the bond is loaded with its relations and saved whole, and
where a member or child was added in between the save fails as a whole, because
the ORM would have to set a `bond_id` that may not be null.  `CheckMember` and
`InsertMember` are the two halves of adding a member, `LoadChild` and `SaveChild` of
editing a child.

`RealtimeGateway` extends it with the sockets of the API process: `conn`, `handler` (a
`handleConnection()` between its awaits), `registry` (sockets of each user), `frames`
(received, resolved, delivered), `heard` and `errors`.  A handshake is `Connect` or
`RefuseToken`, then `Accept` or `RefuseUser`; `Disconnect` may come between.  A frame
for one user is sent at once (`NotificationFrame`); for one of a bond (`BondFrame`) the
members are queried, and by the time it is sent to their sockets (`Deliver`) or lost
(`LoseFrame`) members and registry may have moved.

### `WebhookSubscriptions`

Extends `EndpointLimiter`: a delivery or test ping is a task of the limiter.  `sub` is the
table; `request[q]` what an API request has loaded and is about to save; `job[t]` what a
delivery has read, signed, heard and is about to write; `time`, `issued`, and the
histories `rotations` and `failures`.  (`LoadRotation` is one step for the two reads of a
rotation, of which the second is the one that is saved.)  `CountFirst` and `Insert` are the cap and the
insert, `LoadUpdate`, `LoadRotation` and `SaveRequest` a `PATCH` or a rotation, `Remove`
the deletion, `Prepare`, `Enter`, `Post`, `Respond`, `Apply` and `SaveOutcome` a delivery
as the subscription sees it.  `updateEntity()` saves a row as it was loaded: an older
reading overwrites a newer row, and revives a removed one.

### `Attachments`, `AttachmentsProofs`

The files of one activity and one expense in one bucket.  `signed`, `files`, `row`, `docs`
and `origin` are the upload URLs, the objects, the two tables and
`expense.activity_id`; `request[r]` is a chain of awaits (`Find`, `Exists`, `Insert`,
`InsertDoc`, `Link`, `Save`, `Drop`, `DropSent`, `Delete`), each a step, each of which may be the
last (`Abandon`).  `uses` and `clashed` are histories that `SettledRowHasFile` speaks of.
The removal of an object never fails loudly: `StorageService` logs and goes on.

### `BondFigures`, `Reports`, `ReportsProofs`

`BondFigures` has the five places that compute figures of the same rows, as
operators: `ActivitySection` and `ExpenseSection` (`build-bond-report.ts`), `CardActivities`
and `CardPaid` (`aggregatesByBond`), `Trend` (`trendByMonth`), `Compliance`
(`findActiveMembersWithActStats`), `Saldo`, `PorPagar`, `PorCobrar`, `Counts` and
`ListForBond` (expense summary and list).  `EveryPeriod` and `EverySum` compare them
over every table of the instance; as invariants of a run (`PeriodsAgree`,
`MoneyAddsUp`) they are evaluated where the tables are untouched, that is once for
all tables.

`Reports` is the PDF of a report: `RequestPdf` writes the row and offers the job to the
queue; a worker `Take`s it, reads the row (`FindReport`), reads the tables
(`BuildActivities`, `BuildExpenses`: two queries, between which the tables may move),
`Upload`s and marks (`MarkCompleted`), or throws; `Stall` gives the job to another
worker while the first still runs; `Settle` is BullMQ's side.  `QueueTakesId` says
whether the queue accepts the identifier of the job.

The operators that no next-state relation uses (`CommitAllAsCreated`, `SeriesShort`,
`SaveSnapshot`, ...; each is commented as a faulty variant) are what a plausible bug
would make of the definition below them; replacing the one by the other must
break the property named for it in `PROJECT.json`.  The `MC` modules hold symmetry
sets and instance definitions for TLC.

## 4. Runs

Times with two workers on a laptop-class machine.

| run | question | bounds | size |
|---|---|---|---|
| `activity_races` | two clients, worker and sweep race on one activity: is the outbox its history, does optimistic locking hold, is every needed timer there, is the contract kept? | 1 activity, 2 members, 2 clients, 2 ticks, 3 versions, no faults | 500 k states, 30 s |
| `activity_faults` | with lost and uncancelled timers, crashes and stalled jobs: do columns fit the status, is the overdue origin right, is the system never early? | 1 activity with and without an end, 2 members, 1 client, 4 ticks | 1.5 M states, 45 s |
| `activity_liveness` | does every due row move? | 1 activity, 2 members, 4 ticks | 340 k states, 45 s |
| `premature_overdue` | expected violation, see below | 1 member | seconds |
| `webhook_delivery` | one handler with a lock per delivery, both counters of attempts in step, is the contract kept (settled is final, nobody gets what he has not asked for, who is removed comes back only from an old copy), nobody left out, everything settled? | 1 event, 1 subscription, a poll and a reconciliation, 2 handlers, 2 attempts, 1 upset (a fault of six kinds, a replay or an edit), 1 removal | 1.2 M states, 3 min |
| `expense_races` | two requests and a scan on one expense: do row, audit and outbox agree, do versions rise, who approves, what is frozen, is a stale expense reminded? | 1 expense, 3 people, 2 clients, 1 scan, 1 edit, 1 failure | 660 k states, 1 min |
| `webhook_endpoints` | does the limiter's counter match the slots in use, does anyone wait in vain, is a rotated secret accepted through its grace, is a subscription ever disabled too early? | 2 deliveries, 1 slot, 1 subscription, 2 requests, 2 secrets, 1 tick | 1 min |
| `notifications` | is every frame of a committed row and sent once, is the inbox contract kept, is anyone entitled forgotten, is every event dispatched, also behind one that was skipped? | 3 users, 2 relays, batch of 2, 2 events of 4 types, 1 day with a retention of none, 1 fault | 1 min |
| `bond_access` | does a socket hear a frame twice, is an open tab left out, what leaves a ghost in the registry, is a member ever lost? | 3 users, 2 tabs of the newcomer, 2 administrators, 1 child, 1 frame, 1 failed query, 2 rows per member | 1 min |
| `attachments` | can an operation on an activity take away a document of an expense, when does a row lose its object? | 2 users, 2 rows, 2 + 1 keys, 2 requests, 5 calls | 2 min |
| `reports` | has a completed report its file, is it ever rendered anew, is every job answered, do the five computations agree? | 1 report, 2 workers, 2 attempts, 1 stall, 2 writes; figures over 2 activities, 2 expenses, 2 days | 1 M states, 2 min |
| `stranded_report` | expected violation, see below | as `reports` | seconds |

*Why the bounds are enough.*  A race needs one writer to be overtaken between a
read and the write by another: two clients and a worker give three writers on
one row, and rows interact only in the batch of a sweep.  (`DueRowsMove` also
holds for two activities under one sweep of one row: `ActivityLiveness.cfg` with
`Activities = {a1, a2}` and `MaxVersion = 1`, 139 k states.  No row gets as far as
verification there, so this is not a run of its own.)  `MaxVersion` bounds only the
requests of users; system transitions go on past it.  The runs have one worker, which
interleaves with clients as a second one would.  With `Workers = {w1, w2}`,
`activity_races`, and `activity_faults` with `Faults = {"crash"}`, pass as well (4 to 5 M
states, several minutes); the theorems of section 6 are for any number of workers.  Three accepted versions allow
assignment, refusal and reassignment: a status that leaves and comes back under a
request in flight, which the version in the compare-and-set must catch.
`activity_races` stops the clock at the start of the activity, where a timer and the
sweep join the race; `activity_faults` and `activity_liveness` go on through the
system's own steps up to verification and expiry.  There the clock passes start, end
and every deadline computed before it stops; lead time is at least the response
window, as in the default configuration (48 h and 36 h).

A delivery interacts with others only through the batch of a run, so one pair with
two handlers shows the races of its job; subscriptions only meet in the set that a
fan-out inserts at once.  Two attempts are enough for every path through the
counters but one that needs a lost job and two failures.  One upset is one stall with
two handlers, or one edit that overlaps with a removal; the save of a handler
needs none.  That one event does not hold up another is a question of `notifications`,
where a batch has two.  Expenses do not interact
but in a scan, whose locks are per row.  A third person is needed for a counterpart
that changes.  In `notifications` two relays overlap on two events: an event dispatched
by one while the other holds it in its batch, and a batch cut short after its first.
A day with a retention of none makes a row purgeable while its event may still be in
somebody's batch.  In `bond_access` two tabs of one user are what a registry per user
can confuse, a second row of a member what a query can duplicate.  Two requests and
five calls let a replacement, a removal and a confirmation of one key meet.  Two
days of two half days and two months of a day each have every boundary that the five
computations draw.

*Symmetry.*  Clients, members, requests, rows and keys are permuted in the runs
without liveness, and only where no property or constant names one of them.

*Deadlock* is checked in the activity, delivery and expense runs: a worker can always
sweep, a relay can always poll, an idle request can always come.  The other runs have
bounded inputs (events, calls, frames, requests) and no repeating job, so that
everything asked for may be answered and nothing be left to do; they say
`CHECK_DEADLOCK FALSE`.

**Divergences found**, with a run each:

- `premature_overdue`: a decision to mark a row overdue is carried as a bare target
  status.  `transition()` reads the row again, and if in the meantime a user has
  assigned the activity (a new version, a new deadline in the future) the rule
  `assigned -> overdue` applies and the fresh assignment is overdue at once.  The
  comments say such races are no-ops.  With two handlers (`Workers = {w1, w2}`) the same
  happens to a row in verification: a handler that decided on `overdue` while the
  activity awaited an answer, and executes late, expires it before the deadline of the
  verification.  `SystemActsOnTime` therefore speaks only of beginnings and
  verifications, whose times never move.  How far this goes is proved: a row that awaits
  an answer never expires early (`UnansweredNeverExpiresEarly`), and with one worker only
  an assigned one does (`OnlyAssignmentsExpireEarly`).
- `stranded_report`: the job id of a report contains a colon, which BullMQ refuses;
  the row is written, the error is logged as if Redis were down, and no PDF is ever
  made.  The `reports` run assumes an accepted id, to examine what comes after.

More of them, each stated in its module and refuted by TLC with the change of a
configuration that is named here:

| property | how to check | what the code does |
|---|---|---|
| `OpenDeliveriesRecover` | `WebhookDelivery.cfg`, `SPECIFICATION BusyFairSpec` | a replay that meets a running job resets the row's attempts but not the job's; BullMQ then fails the job while the row is `RETRYING`, and the reconciliation takes the failed job, kept for ever, for a live one (`reconcile.service.ts:63`) |
| `RemindedOnce` | `ExpenseRaces.cfg`, `Workers = {w1, w2}` | a scan whose snapshot is older than another's commit and whose lock is later reminds again: the anti-join is not evaluated anew |
| `EvidenceIsTheRequesters` | `Attachments.cfg` | a converted document keeps its key under the activity, where anyone who may edit the activity can remove or replace the object |
| `StreakStartsAnew` | `WebhookEndpoints.cfg` | re-enabling a disabled subscription leaves the old streak, so its next failure disables it again (`subscription-health.service.ts:95`) |
| `ApproverWasTold` | `Notifications.cfg` | one counterpart is told of an expense; in a bond with more members another of them may approve it |
| `BondHasChildren` | `BondAccess.cfg` | the last child of a bond may be removed, after which no member sees the bond |

Observations without a property: a confirmation looks at the status only, so an
activity whose response window has passed can be confirmed until timer or sweep
arrive (a comment of the rule table says it cannot); an edit of an expense does not change the
status that its guard compares, so the second of two concurrent edits overwrites the
first; a subscription that is removed between the load and
the save of an update, a rotation or a handler's health record is inserted again, without
its deliveries; two handlers of a stalled job use one attempt number twice and overwrite each
other's outcome; the cap of subscriptions is passed by concurrent creations (by how much: `CapIsNearlyKept`
in section 6); the compliance of members counts deleted activities where the report does not
(`ComplianceCounts` therefore compares only tables without one); the trend and
the card place an activity by the day of the database session, so that with
`ZoneShift = 1` `PeriodsAgree` fails; the `actor` of a webhook payload is always empty,
because the outbox stores an object where a string is expected.

## 5. Fairness

`ActivityLifecycle!FairSpec` asks for weak fairness of `Tick` (time passes), of
`Sweep` (the job scheduler repeats it every 15 minutes; one worker replica restarts
when it dies), and of what a worker has begun (`FinishTimer`, `Execute`): a
handler's promise settles.  Users promise nothing, and neither do timers, which
makes the liveness results those of the safety net alone.

`WebhookDelivery!FairSpec`: the two schedulers repeat their jobs
(`relay-scheduler.ts`), what a run, a handler or a replay has begun goes on (each
request has a timeout), a waiting job is taken by some handler, delays end.  Faults
are bounded, so they stop.  `BusyFairSpec`, under which `OpenDeliveriesRecover` is
refuted, adds strong fairness of `Expire`: a completed job goes when its hour is
over.  The counterexample is thus not one of a completed job that happens to stay.

`EventsDispatched` is stated of the relay in `Notifications`.

`Expenses!FairSpec`: the daily scheduler repeats the scan, a scan and a request that
have begun end.  `Notifications!FairSpec`: each relay run that can take a step takes
one (a poll is repeated, its queries settle); rollbacks and crashes are bounded by
`MaxFaults`.  `Reports!FairSpec`: each worker goes on with what it can do; a job is
attempted `MaxAttempts` times and stalls `MaxStalls` times, after which BullMQ
answers it as failed.  Nothing is assumed of users, administrators or sockets.
`EndpointLimiter!FairSpec` (a resolved promise continues, a request ends) states what
the liveness of the limiter alone would need; no run uses it at present.

## 6. Proofs

`ActivityLifecycleProofs` proves for all constants that satisfy `MapAssumption`
and `LifecycleAssumption`, with all faults:

- `TypeCorrect`: `TypeOK`;
- `ConsistentAlways`: the inductive invariant `Consistent`, the conjunction of
  `TypeOK`, `RequestsWellFormed`, `HistoryMatchesRow`, `ColumnsMatchStatus`,
  `OriginMatchesHistory` and `SnapshotsHold`;
- `HistoryIsComplete`, `ColumnsAlwaysMatch`, `OriginAlwaysMatches`,
  `SnapshotsAlwaysHold`: its conjuncts as theorems of `Spec`;
- `SystemAlwaysOnTime`: `SystemActsOnTime`;
- `NeededTimersAlwaysThere`: `TimerCoverage`, but only when `Faults = {}`;
- `LifecycleKeepsContract`: `Spec => ImplementsContract`;
- `UnansweredNeverExpiresEarly` and, with one worker (`OneWorker`),
  `OnlyAssignmentsExpireEarly`, which delimit the finding `premature_overdue`.

*Why the invariant has these parts.*  The history is preserved by a commit because
`Matches` makes the snapshot's `from` the row's status; that the transition is
one the table allows needs `SnapshotsHold`, since the check happened at an
earlier state; and that a request carries an assignee exactly when it asks for
"assigned" (`RequestsWellFormed`) is what keeps `assignedTo` and the columns in
step.  The origin of an overdue row follows from the columns of the state
before (`ColumnsMatchStatus`), together with the last event (`HistoryMatchesRow`).
The refinement then needs `SnapshotsHold` once more: the actor allowed when the
row was read is allowed when it is written.

Time and timers need a second invariant, `OnTime`, on top of `Consistent`: what has been
decided to begin or to end was due (`RequestsOnTime`), no timer is due before what it
stands for nor of a version its row has not had (`TimersSound`), both of which last because
a schedule never changes; and a job still carries the decision of its timer, on a read not
older than the timer (`JobsInHand`).  That no needed timer is lost then has two halves.  A
commit bumps the version and so strands every earlier job, but `wireTimers` enqueues all
that the new row waits for (`WrittenRowsCovered`).  While the row stays, its timer leaves
the queue only into a worker's hands (`NeededInQueue`), and the worker neither drops nor
misses its decision: it is permitted, and a snapshot between the timer's version and the
row's is the row as it is (`NeededInHands`).

Which rows may expire before their deadline is the invariant `Expiry`, on top of `OnTime`.  A
decision to mark a row overdue that is still to be executed was due when it was taken
(`ExpiriesDue`), so it is early only for a row that has since moved to a status with a
later deadline.  Nothing leads back to "created", hence the first theorem.  A row in verification
is reached only by the system; if the one worker has to have sent it there, it cannot
at the same time hold an older decision to expire it (`OneDecisionEach`), hence the second.  The
deployment has one replica and the processor of the timers the default concurrency of one.

`WebhookDeliveryProofs` proves `OneHandlerPerDelivery`, `NoSubscriberSkipped`,
`AbandonedIsSettled`, `AttemptsAccounted`, `SettledIsFinal` and `ImplementsDelivery` for any events,
subscriptions, runs, handlers, clients, attempts, removals and faults, in four layers.
`DeliveryInv` says that a handler which has its lock holds the active job of its pair: this is why
the deterministic job id keeps two such handlers apart, and why a replay must leave an active
job alone.  A handler that has lost its lock may be at work on the same row.  `MatchInv` adds that what a run has matched before its transaction is
still enough when it commits (`MatchesHold`).  `CountersInv` relates the two counters
of attempts, and holds while `Undisturbed`: an open row has counted the requests sent,
its job at most as many (`OpenRowCounts`); the attempt in a handler's hands is the next
one of both (`AttemptCounts`); nobody will work on a settled row, because no
job of it waits and, where the job is gone, no run is about to add it again
(`SettledRowRests`); and a pair without a row was never touched (`UntouchedBefore`).  These need
what the calm stands for (`RemovalInv`): no replay is half done, every handler has its lock, a
subscription that is there was never removed (`CalmMeans`), and one that is not has no rows.  With a
replay, a crash or stall of a handler, a database error or a subscription that comes back the
agreement is lost, and so are the properties that rest on it (section 4).  `PromiseInv` adds what the refinement needs also then: a
pair that was never announced has no job, no request, and is in nobody's hands (`Beforehand`), so
that no fault makes an endpoint hear of it; and a run has matched only who asked for its event
(`MatchedWanted`); and a handler has a status to save only once it has recorded its attempt
(`PatchesAreLate`).  Each action is then a step of `DeliveryContract`: the fan-out announces, a
request asks, `Fail` and `Record` settle, a reset reopens, a removal withdraws, the save of an old copy may return a
subscription and the drop of the last one lets it depart (`ListMoves`), all others leave letters
and list alone.  The contract implies `SettledIsFinal`, which is a theorem of its own and no longer a
property of the run.  `TypeOK` as a whole is not proved: the batch of a run is a result
of `SelectSeq`, whose definition is recursive, and nothing here depends on it;
`ShapesOK` types everything else.

`WebhookEndpointProofs` proves for any finite set of requests and any cap that
`LimiterInv` (`TypeOK`, `QueueIsExact`, `SlotsAddUp`, `NobodyWaitsInVain`) is an
invariant of the limiter.  `SlotsAddUp` is not inductive alone: that a hand-over keeps the
number of holders needs `QueueIsExact`, by which the first waiter holds no slot yet.

The same module then takes the composition with the subscriptions (`SubSpec`), any number
of subscriptions, deliveries, requests of the owner and secrets.  `SubscriptionsInv` is
`LimiterInv` with three more layers:

- `Shapes`: types, and that only rows that were created are copied, saved and delivered to.
- `StreaksFounded`: the beginning of every failure streak is the time of a failed delivery,
  and an automatic disabling goes back to one at least `DisableAfter` old.  It has to
  say so not of the rows only but of every copy of a row that an update, a rotation or a
  delivery holds and may save back whole; that is what makes `NeverDisabledEarly` true
  however stale the copy was.
- `GraceInv`: until a rotation is saved at a moment, one secret is in the row, in every
  copy about to be saved over it, and in every message of that moment, and it is what the
  rotations in flight are going to replace (`SecretsAgree`); this is what a
  rotation then finds, so that the old secret it records is the one all others still use.
  From there to the end of the window of a rotation that has it for itself, row and copies
  carry the replaced secret, as their current one or as their previous one to the end of
  the window at least (`WindowsOpen`), and so do the messages that are signed with
  them (`MessagesCarry`), which is `RotationIsGraceful`.

The cap of subscriptions per bond is checked without a lock, so it is no invariant.  `CapIsNearlyKept`
says what is left of it: the rows stay fewer than the cap and the requests and deliveries in flight
together.  Its invariant counts the rows there are with those that a copy in somebody's hands
may bring back, and the creations that have counted and not yet inserted; each takes a request or
delivery of its own, so that the excess is less than their number.  It needs finitely many requests.
TLC shows the bound is met: with a cap of one, two requests and one delivery there are states with
three rows.

`ExpensesProofs` proves for all constants that satisfy `ExpensesAssumption`:
`VersionsNeverFall`, `ApprovedByAnother`, `TermsAreFrozen` and `CancelledIsFinal`, from
the inductive invariant `ExpensesInv`.  Its strengthenings are what a reviewer would
argue with: a request in flight still carries a status that its operation allows,
and an approver who is not the requester (`CallsSound`); an expense locked by a scan
is alive and pending until the scan commits (`HeldArePending`); no event is ahead
of its expense (`VersionsReached`).  `StoriesAgree` is proved on top of it.  It speaks of the
positions of the events and entries that tell the story, in their order, because a listing of
positions grows with an appended event or stays as it is (`StoryGoesOn`, `StoryStays`);
a step then has to show only what it appends.  A transition appends to both sides one entry of
the same user and goes one status further, because a request in flight still
carries the status its operation leaves; an edit, a cancellation and a reminder append what
is no part of the story.

`AttachmentsProofs` proves `OwnDocumentsStand` for any keys, rows and requests.  It holds
because the prefixes of the two kinds of keys differ, which is useful only together
with what the requests in flight carry: `AttachmentsInv` adds that rows of an activity hold
keys of activities, and that a request past its checks holds a row, and drops a key,
of its own kind.  `SettledRowHasFile` needs to know who
may take an object away.  A row has a claim on the key it shows and on the key that a request
at work on it has read; a key with a claim has been recorded, and if it was recorded once all
claims on it are of one row (`ClaimsCounted`, `ClaimsApart`).  While no second request meets on
a row, the one at work on it sees it as it is, with its own change (`EditsSound`,
`StagesSound`), so that only a removal between its two halves leaves the row without its object
(`FilesThere`).  That the object is there to begin with is the test of existence, after
which it goes only if its key has been recorded meanwhile (`PathsThere`).

`RealtimeGatewayProofs` proves `MembersStay`, `OncePerSocket`, `EveryTabHears` and
`GhostsAreFromHandshakes`.  The
inductive invariant `GatewayInv` relates back office, registry and frames: a frame whose
members are still being queried has been heard by nobody (`UnsentUnheard`), an open
tab that was due to it is still registered for a member (`DueStayRegistered`, which
needs that members only join), and only a socket that has connected is registered
or due to a frame (`KnownHaveConnected`).

`ReportsProofs` proves `CompletedHasFile` and `CompletedIsNotRenderedAgain` for any number
of reports, workers, attempts and stalls.  That a mark follows an upload is a fact of
one run; that it stays true when a second run of a stalled job overlaps needs
`RunsSound`: a run past its read had found the report unfinished, and one that is about to mark
it has left its document in the bucket.  `JobsInv` (a job is active exactly while one run holds
it, and what it has used of its attempts and stalls) gives `JobsAlways`, the types
(`ReportsAlwaysOK`).

Of the figures it proves, for every table of any number of rows, members and days, first that
the places select the same rows: the
card counts the activities the report counts; where the zone of session and server is UTC
(`ZoneShift = 0`), each point of the trend and each member's compliance count what the report
of their month counts (`SamePeriods`); the card's paid percentage is the report's, the list
of a status has the rows the report sums, and the summary counts the rows the list shows
(`SameMoney`).  Each is an equality of the sets of rows that two filters select; for
the months it rests on `MonthIsRange`, that the quotient by the length of a month is `m` exactly
between two midnights.

Then that the sums over these rows add up: the points of the trend to the report, so that
`PeriodsAlwaysAgree` (where `ZoneShift = 0`); the breakdowns by status and by category to their
totals, and the balances of two members to nothing, so that `MoneyAlwaysAddsUp`.  A sum over a set is
a fold over the elements in the order `CHOOSE` takes them.  `TotalIsFold` says that any function
of the subsets that starts at 0 and goes up by the figure of the element taken is that fold: take a
smallest subset on which the two differ and remove one element from it, which needs only that
strict inclusion of finite sets is well-founded and no induction theorem.  The lemmas after it
exhibit such a function; `TotalOfParts` is the one for the breakdowns: the numbers of
elements of disjoint parts total the number of elements of their union.
Assumed are finite tables and at most two members of a
bond, for whom alone the balance is defined.

`NotificationsProofs` proves `FramesHaveRows`, `OneFramePerRow` and `ImplementsInbox`.  The
refinement needs that a conflict on insertion is enough to tell nobody twice although
the retention deletes rows: rows of an event still in the hands of a run are of today
(`StillThere`), told events are marked (`ToldAreMarked`), and each created row is
announced by the one run that created it (`OwnersSound`).

The assumptions of all of these are the named `ASSUME`s of the modules, which TLC
evaluates in the runs, and the library's theorems on finite sets, functions and
sequences.

Only model-checked:

- liveness, which is out of the prover's reach: `DueRowsMove`, `EventsDispatched`,
  `DeliveriesSettle`, `StaleGetsReminder`, `NobodyForgotten`, `EveryJobIsAnswered`;
- the two refuted statements of section 4, of course, and the other divergences listed there.

## 7. Not modelled

- the retention jobs of the outbox and of the webhook deliveries: they remove what was
  settled weeks ago, and nothing in the models looks at it again;
- a relay whose first `RELAY_BATCH_LIMIT` pending events fail for ever would starve the
  rest; it takes a failure that no retry cures, and the models' faults are bounded;
- the delivery log, counters and alerts (`webhooks-observability.ts`): nothing decides on
  them;
- the addresses the SSRF guard refuses, ciphers and signatures, the text of a payload;
  what a request may come back with is modelled (blocked, network error, status);
- listings, DTOs, texts, views, the layout of the PDF; ages and names in reports;
- categories and profiles: plain create, read and update;
- authentication and authorisation guards: an external identity provider, no state;
- configuration, migrations, health probes and the boot of the worker (a failure of
  `upsertJobScheduler` at start-up is logged and swallowed, and no sweep exists until the
  next restart);
- the notice to the owner of a subscription that was disabled.
