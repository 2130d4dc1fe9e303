# TrackFlow: a verification project

This directory models the parts of TrackFlow whose correctness depends on the
order in which processes, transactions and clocks act. It holds TLA+ modules,
TLC configurations and TLAPS proofs. Paths in this text are relative to the
root of the repository.

## 1. The system and its parts

TrackFlow keeps the stock of logistics warehouses, collects telemetry of their
operations, and publishes one report per ISO week. PostgreSQL holds all durable
state; Celery, Prefect and the command line run the processes around it.

| Part | State it keeps | Operations | Interacts with |
|---|---|---|---|
| Run history (`pipelines/run_store.py`) | one row per attempt to publish a week: status, commit_result, counts | create, compare-and-set update, commit observation | written by the coordinator, the flow, the task queue |
| Week lease (`pipelines/concurrency.py`) | one row per week: owner, expiry, fencing token, pointer to the last valid publication | acquire, verify, renew, release | row lock shared by all runs of the week |
| Publication (`pipelines/coordinator.py`, `publication.py`, `pipeline.py`) | weekly rows; a flow per run | create, extract, gate, lease, verify, mark, stage, commit, finish, resolve | two connections: operational and business |
| Async task queue (`services/task_queue`) | task, outbox and dead-letter rows; broker messages | accept, relay, claim, heartbeat, retry, finish, reconcile | run history, Redis broker, Celery workers |
| Inventory (`services/api/inventory_service.py`) | stock, movements, orders, counts, event outbox | entry, exit, order create/append, count | API clients, outbox relay |
| Inventory outbox relay (`pipelines/outbox_relay.py`) | outbox rows in the source, telemetry rows in the destination | relay one batch | two databases |
| Job runner and nightly export (`services/job_runner`, `scripts/nightly_export.py`) | job_runs rows | acquire, complete, fail | weekly pipeline as a child process |
| KPI calculation (`pipelines/weekly_performance.py`) | none | validate, consolidate, verify orders, count | extraction, publication gate |
| Extraction and audits (`pipelines/extraction.py`, `operational_coverage.py`) | none | four read-only snapshots of two databases, one comparison | inventory, telemetry, publication gate |
| Projections and cache (`services/api/cache.py`, `routes/inventory.py`, `routes/telemetry.py`, `services/telemetry/analysis.py`) | three in-process caches | lists and the telemetry report, read query by query; invalidation | inventory commands, telemetry |
| Accounts (`services/api/auth_*.py`, `routes/auth.py`, `routes/users.py`, `routes/profiles.py`) | TinyDB tables of users, profiles, reset tokens; TinyDB's query cache | register, log in, change, delete, reset | HTTP clients, mail |
| Telemetry ingestion | telemetry rows | receive a batch | browsers, weekly extraction, report |
| Suppliers, incident and forecast scripts, reporting reads, web UIs | their own tables or none | request handlers, batch files, views | HTTP |

### What is hard, and what makes each part correct

*Weekly publication.* A run writes through two connections that commit
separately; the reply to a COMMIT can be lost; the lease can expire at any
moment; processes die between any two steps. Correct means: the weekly table is
always one whole calculation, the run history never contradicts the server, and
a run that lost its lease never publishes.

*Task queue.* Messages are delivered at least once, workers die, leases
expire, retries are scheduled in one transaction and published in another.
Correct means: no two executions of a task publish, a terminal task stays
terminal, and every accepted task ends.

*Inventory.* Concurrent exits and orders of the same SKUs, idempotent retries,
an outbox written with the command and drained across two databases. Correct
means: stock never negative, one effect per idempotency key, every fact told
once, nothing acknowledged that was not delivered, no deadlock.

*Extraction and calculation.* Commands commit, relays deliver and browsers send
while a flow reads four snapshots one after the other; a fact may have several
rows, or rows in two weeks. Correct means: what passes the gate is what the
movements, orders and counts themselves say; nothing is counted that did not
happen; and every fact that can be covered is reported in the end.

*Projections.* A list is several queries with commands between them, stored
after the invalidation that should have removed it. Correct means: a torn list
promises no stock that is not there and raises no integrity error for sound
data, and no cache is stale for ever.

*Accounts.* Handlers run whole on the event loop, authentication beside them in
threads, over a store without transactions or unique indexes and with a query
cache. Correct means: what is decided on a stale user brings nothing back,
addresses stay unique, a user has one profile, a reset token works once, what is
stored can be read back.

*Job runner.* Two hosts start the same night; the child is killed; the reply to
a commit is lost; signals arrive at any moment; processes of the pipeline outlive
its leader; a conflict may dissolve before it is read. Correct means: one night at
a time, each date completed once, terminal rows final, no row released while its
pipeline can still write, and a way out for every row that a lost process leaves.

## 2. Modules

| Module | Models | Role |
|---|---|---|
| `RunStore` | `pipelines/run_store.py` | statements of the run history |
| `WeekLease` | `pipelines/concurrency.py` and the week-control row | extends `RunStore` |
| `WeeklyPublication` | `coordinator.py`, `publication.py`, `pipeline.py` in `pipelines/` | extends `WeekLease`; the whole life of a run |
| `WeeklyReport` | nothing: an abstract specification | `WeeklyPublication` implements it (`ImplementsReport`) |
| `RunHistory` | what a run shows outside: its row and the fate of its COMMIT | extends `RunStore`; `WeeklyPublication` implements it (`ImplementsHistory`) and the queue is built on it |
| `TaskStore` | `services/task_queue/store.py` | extends `RunHistory`; statements on tasks and dead letters |
| `TaskQueue` | `relay.py`, `tasks.py`, `reconciliation.py` in `services/task_queue/` | extends `TaskStore`; relays, broker, workers, reconciler, clocks |
| `InventoryStore` | rows, locks and movements of `services/api/inventory_service.py`, `inventory_outbox.py`, `inventory_models.py` | what one committed command changes |
| `InventoryService` | the command handlers of `inventory_service.py` | extends `InventoryStore` |
| `OutboxRelay` | `pipelines/outbox_relay.py` | extends `InventoryStore` |
| `Inventory` | | composes handlers and relays; properties |
| `JobRunner` | `services/job_runner/service.py`, `infra/sql/job_runs.sql` | statements on the rows of one job |
| `NightlyExport` | `scripts/nightly_export.py`, the runbook of `infra/README.md` | extends `JobRunner`; invocations, pipelines, signals, operator |
| `WeeklyKpis` | `pipelines/weekly_performance.py` | operators only: the calculation |
| `OperationalAudit` | `pipelines/operational_coverage.py` | extends `WeeklyKpis`; operators only: the audit of a week |
| `WeeklyCoverage` | the snapshots of `extraction.py` and `pipeline.py`, the gate of `coordinator.py` and `publication.py`, and around them what commands, relays and browsers do to the rows | extends `OperationalAudit`; composes facts, delivery, audit, calculation and gate |
| `Projections` | the caches and the lists of `services/api`, the report of `services/telemetry/analysis.py` | |
| `Accounts` | `services/api/auth_*.py` and the routes over them | |
| `WeeklyPublication_proofs`, `TaskQueue_proofs`, `Inventory_proofs`, `WeeklyCoverage_proofs`, `NightlyExport_proofs`, `Projections_proofs`, `Accounts_proofs` | | TLAPS proofs, each of the module it is named after |
| `SumLemmas` | | lemmas on sums over finite sets, for the stock and the weekly totals |
| `MCWeeklyPublication`, `MCTaskQueue`, `MCInventory`, `MCNightlyExport`, `MCWeeklyCoverage`, `MCProjections`, `MCAccounts` | | symmetry sets, commands and constants for TLC |

The queue never looks inside a publication, so it is not composed with
`WeeklyPublication` but with `RunHistory`, a specification of 76 lines that TLC
shows `WeeklyPublication` to implement. `WeeklyCoverage` stops where
`WeeklyPublication` begins: the first says which reports may pass the gate, the
second, for which that verdict is a free choice, what becomes of a report that
passed. The inventory commands occur in three modules, each with what its
question needs: `InventoryService` has their locks, `WeeklyCoverage` the rows that
an audit compares, `Projections` the moments between queries. Operators named `X_Something` next to an
operator `X`, with a comment that begins with "Mutant:", are plausible faults of
the code; nothing uses them except the mutation runs listed in `PROJECT.json`.

## 3. How the modules correspond to the code

### Weekly publication

State. `status` and `commitResult` are columns of the run row; `ownerRun`,
`fencingToken`, `lastValidRun` columns of the week-control row; `leaseExpired`
is the comparison of `lease_expires_at` with `clock_timestamp()`, the only use
the code makes of that column; `lockHolder` is the `FOR UPDATE` of the
business transaction. `rows` is the weekly table for one week, `source` what the
events of the week aggregate to (the extraction and the KPI calculation
together). `pc`, `token`, `batch` and `changes` are locals of a flow.
`outcome` and `commitSent` are the server's side of the business transaction.

Actions. One per step of `publish_weekly_business_report_flow` and of
`publish_weekly_result`, in the order of the code, plus what happens
around it: `Crash`, `ServerCommits`, `ServerAborts`, `LeaseTimeout`,
`SourceChanges`, `ResolveUncertain`. A COMMIT is three steps: sent
(`SendCommit`), obeyed or refused by the server, heard by the coordinator
(`CommitAcknowledged`, `CommitUnconfirmed`), so that a reply is lost at any
point. A rollback may fail to reach the server, which then keeps the row lock
until `ServerAborts`.

Abstractions. One week: control rows of two weeks share nothing. Quality and
coverage verdicts are data of the events, hence a free choice of `QualityGate`
(`WeeklyCoverage` computes them).
Counts are kept as "something changed or not", all that decides between
`succeeded` and `succeeded_noop`. A KPI tuple is a model value. The run rows'
error texts, hashes and timings are left out.

### Task queue

State. A task and its run are created together and name each other one to one,
so a run stands for its task. `attempt_count` and `execution_epoch` move
together and every claim stores a fresh token, so the attempt stands for all
three; `publish_attempts` stands likewise for the relay's token. A deadline
is "null", "ahead" or "past". `queue` and `delayed` count copies of a message
in the broker, `worker` and `relay` hold the locals of the processes, `accepting`
where the transaction of each request stands. `entries` is a history variable.

Actions. `accept_async_task` is one transaction: it waits for the advisory lock of
the week (`LocksWeek`), looks for an active run (`LooksForRun`), and inserts run,
task and outbox row (`Accept`); it may be rolled back between (`AcceptanceFails`).
The engines set no isolation level, so under PostgreSQL's READ COMMITTED the look
sees what was committed until then, and the acceptance rests on the lock alone.
`RelayClaims`, `RelaySweeps`, `Publish`, `RelayConfirms`,
`RelayFails` are the transactions of `relay_once` with the `send_task` between
them; `send_task` may raise with or without the broker having the message.
`ReceiveAndClaim`, `EnterPipeline`, `ProbeFails`, `PublishRetry`,
`PreflightFails`, `Heartbeat`, `PipelineAdvances`, `PipelineReturns`,
`PipelineRaises`, `CloseTask`, `ReconcileRejected` are the transactions of
`run_weekly_pipeline_task`; `ReconcileOne` is the reconciler's. `WorkerLost`
makes the broker deliver again (late acknowledgement), `WorkerGivesUp` is an
exception of the handler, which acknowledges.

Abstractions. The order in which `reconcile_one` and the relay pick rows is
left free. Redelivery of a message whose worker is alive (Redis' visibility
timeout) is not modelled; a duplicate has the same effect and comes from the
relay. Eager mode and payload checks are left out.

### Inventory

State. `stock[s]` is the sum the code computes, entries minus exits of a SKU;
`orders`, `dispatches`, `counts`, `checkpoints`, `outbox` are sets of rows.
Rows of movements outside orders are only seen through `stock` and
`checkpoints`. `keyLock` holds the transaction advisory locks of identifiers and
`skuLock` the `FOR UPDATE` of SKU rows. Identifiers are naturals in the order
in which the code sorts them to lock them.

Actions. A handler takes one lock after the other (`LocksKey`), looks for an
earlier effect (`Look`), locks SKUs (`LocksSku`), reads and decides (`Read`),
writes and commits (`Commits`). `Commits` answers "done" or, when the reply to
the COMMIT is lost, "error"; `Fails` is every way to roll back. A client repeats
any of its commands at any time: `Receive` picks a command again.

Abstractions. A tracking number, a carrier and the like are part of what makes
two dispatches the same row, and so part of the record. `ClientOf` stands for
client and warehouse of a SKU. Advisory-lock keys are 64-bit prefixes of
UUIDs; two identifiers are taken to have different prefixes. A refusal for an
unknown SKU or an infrastructure error writes nothing, like `Fails`. The time of
a movement is read under the locks, so `now` gives every command its own
instant. In the relay, the batch limit and the attempt counter are left out:
neither decides whether an event is delivered.

### From facts to a certified report

State. `movements`, `checkpoints`, `orders`, `counts` and `outbox` are the
operational tables, `published` the outbox rows whose `published_at` is set,
`telemetry` the rows of the reporting database. `stamp[s]` is the week of
`occurred_at` of the command that holds the lock of a SKU: the stamp is
taken under the lock, the COMMIT comes later, perhaps after midnight. `at` is the
step of the flow; `source`, `audit` and `extracted` are its locals, `report` the last
result that passed the gate. `truth` rides beside the audit snapshot for the
properties only, and no step looks at it.

Actions. `Begins` and `Commits` are one command each (entry, exit, order with its
first dispatch, later dispatch, count, rollback). `Delivers` and `Acknowledges` are
the two commits of the relay. `ReceivesEvents` is `POST /telemetry/events`, which
stores what has the right shape whatever its type says. The flow reads the
operational half of the audit, the reporting half, the events with the evidence of
their weeks, and the orders they name, in that order: `AuditsSource`,
`AuditsReporting`, `ExtractsEvents`, `ExtractsOrders`; `Decides` calculates and
passes the gate or not. `ReadFails` is a failed read, which repeats its task from the
first snapshot of that task or ends the flow.

Calculation. `Transform` goes through the steps of `transform_weekly_performance`:
conflicting identifiers, validation of each row, groups of one business identity with
their signatures and weeks, orders verified against their records, counters, overflow.
`Facts` and `Truth` are not translated from it: they are the reference, computed from
the movements (a crossing is found by replaying them), and the properties compare
the two.

Abstractions. Two weeks, the reported one and the next. The owner of a SKU stands for
warehouse and client; aggregates are keyed by owner alone, since the extraction
selects one week. Times within a week, and the discrepancy rate, a quotient of two
of the counters, are left out. An identity is the number of the row it names; all
tables draw from one sequence. `Beginnings` holds what the program may find: nothing,
or stock from `scripts/seed_inventory.py`, which writes neither checkpoints nor events,
beside telemetry from before there was an outbox.

### Projections

State. `db` counts the committed entries and exits of each SKU, its threshold, and the
telemetry rows of each type. `cache` holds one entry per cache with the ticks it may
still live. `doing[t]` is what a thread does: nothing, a read with the results of the
queries it has made, or the invalidations it still owes.

Actions. A read starts on a miss (`StartsReading`), makes its queries one at a time
(`Reads`), then composes and stores (`Answers`). A command commits in one step and
invalidates one cache per step after it (`InvalidatesNext`), or none, when the reply to
its COMMIT is lost or its row cannot be refreshed; a read may fail as well
(`SessionFails`). `Tick` is the passing of
time, `Restarts` a replaced process, which forgets the caches.

Abstractions. A movement is of one unit, a threshold is unset or set. The lock of
`TTLCache` makes each of its operations one step.

### Accounts

State. `users`, `profiles`, `tokens` are the tables; `found` is TinyDB's query cache
for searches of users by id, which a write to the table clears; `request[r]` what
`get_current_user` has found for a request; `sessions` the users that hold an access
token. The columns `withdrawn`, `expired` and `changes` of a token are remembered
for the properties; of the three the code reads the expiry.

Actions. `SearchHits`, `SearchReads` and `SearchStores` are `get_current_user` in its
worker thread: TinyDB reads the file and stores the result in its cache without a
lock, so a write may come between the two. The handlers never await and are one
action each, and write the fields they change into what is stored (`Updated`), not the
document they decided on: `Registers`, `UpdatesEmail`, `UpdatesStanding`, `Deletes`, `SavesProfile`,
`LogsIn`, `Forgot`, `ResetsPassword`, `ChangesPassword`. A handler of two writes may
fail between them (`profile`, `whole`, `withdrawn`).

Abstractions. Hashing and JWT are what they let through. User 0 is an administrator,
whom the API cannot create. A profile is counted, its fields decide nothing.

### Job runner and nightly export

State. Every invocation brings a fresh UUID, so it stands for its row.
`jobStatus` is the column as committed; a row is inserted as pending and moved to
processing in one transaction, so no committed row is ever pending. `sent` is the
status that a transaction between its COMMIT and its end would write. `group` is
the process group of the pipeline: its leader, descendants left behind, or gone.
`answer` is what the invocation logged or returned last.

Actions. `Acquire` is `acquire_job_run` up to its COMMIT or up to the
refusal of an index; an insertion that meets an uncommitted entry waits
(`IndexIsFree`). The three statements of `_read_conflict` are three actions, for
READ COMMITTED gives each its own snapshot. `Export` is `export_telemetry_day` and
the creation of the child. `WaitReturns` is what follows `process.wait()`,
under blocked signals; `Interrupt` a signal whose handler raises; `StopChild` is
`_stop_child`. `Complete` and `Fail` are the compare-and-set of
`_terminal_transition` up to COMMIT. `Killed` is SIGKILL, a lost host, or a
signal while no handler is installed (during acquisition and during
`fail_job_run`). `OperatorReconciles` is step 6 of the runbook.

`SignalsMeet` says whether a second signal can come between the first one and the
moment `_stop_child` blocks signals. It is FALSE in `nightly`, so that the run
shows what holds otherwise, and TRUE in `second_signal`.

Abstractions. The exit code of the pipeline is data, so `ToVerdict` is a free
choice. What the CSV file holds is left out: its publication, reuse and validation
either succeed (`Export`) or raise (`WorkFails`). Invocations of other jobs share
nothing with this one.

## 4. What is checked

Runs that pass:

| Run | Instance | What it shows |
|---|---|---|
| `weekly` | 2 runs, 2 keys, 2 KPI values, 1 source change | the table is one whole calculation (`PublicationIsAtomic`); the history tells what the server did (`VerdictMatchesCommit`); counts describe the COMMIT; publications land in token order; `WeeklyReport` and `RunHistory` are implemented; flows end, and the week can be leased again and again |
| `task_safety` | 1 task, 2 workers, 2 relays, 3 executions, 3 publications | the pipeline is entered once; `published` in the answer is true and final; outbox and task tell one end of the dispatch |
| `task_two_requests` | 2 tasks, 1 worker, 1 relay, 1 execution | two requests of a week that arrive at the same time are never open together |
| `task_liveness` | 1 task, 1 worker, 1 relay, 2 executions, 2 publications | a task that entered the pipeline closes; every dispatch settles |
| `inventory_safety` | 2 handlers, 1 relay, 8 commands on 3 SKUs, 3 requests | checkpoints and outbox rows tell the stock, so nothing is sold twice; a crossing is announced once; a retry is not refused; facts are told once; acknowledged is delivered; no cycle of locks |
| `coverage` | 2 SKUs, 2 commands, 2 weeks, seeded rows, rows of a browser, 1 failed read | a report that passes the gate is what the facts say (`CertifiedIsTrue`); nothing is counted beyond the facts even in a result that is blocked (`NeverOvercounted`); every fact that can be covered is reported in the end (`EveryFactIsReported`) |
| `projections` | 2 threads, 1 SKU, 2 movements, 1 telemetry row, 4 kinds of request | a torn list shows no stock that is not there and raises no false integrity error; nothing stored late is shown for ever |
| `nightly` | 2 invocations of one date, 1 of another; signals do not meet | one night at a time and each date completed once; a row is not released while its pipeline writes; what an invocation says is what its row says; every invocation ends; the runbook frees every claim |
| `accounts` | an administrator, 1 user, 2 addresses, 2 passwords, 1 token, 2 requests, 4 writes | what is decided on a stale user brings back neither a deleted user nor an earlier value (`NothingIsBroughtBack`); one user per address and one profile per user (`TypeOK`); a reset token works once and never after it was withdrawn |

Runs that TLC refutes, each a statement of the repository's own documents or models:

| Run | Statement | What the code does |
|---|---|---|
| `blocked_week` | PIPELINE_DESIGN.md:855, failures do not prevent a week from being tried again | `fail_claim` leaves the run pending; the week answers 409 for ever |
| `second_signal` | scripts/README.md:31, the exit of the process group is confirmed before the job is released | the handler raises inside the clause that cleans up; `_stop_child` is skipped and the row becomes failed while the pipeline runs |
| `broken_account` | services/api/auth_models.py:46, an address must contain @ | `update_user` writes first and validates what it wrote: 409 is answered, the address stays, and the user can no longer be read |

### Bounds

Two runs of a week are enough for the weekly properties that TLC checks, since
each relates at most two runs and the control row; the proofs lift the bound.
Two keys let a batch lose one key and keep another, two KPI values let an UPSERT
change a row or not. `MaxVersion` (1) bounds the changes of the source: one is
enough for two runs to calculate different tables and to publish them in either
order. The token needs no bound, every run acquires at most once.

One task is enough for the claims of one task; workers and relays of different
tasks share only the week, which `task_two_requests` has; two requests are enough for
one to look while the other inserts. Three executions is
the code's default `MAX_FAILED_EXECUTIONS`. With two workers one can be stale
while the other holds the claim; a third would be stale in the same way. The
number of messages is bounded by publications, retries and lost workers;
a lost worker returns the copy it took, so no bound on losses is needed.

In the inventory `MaxRequests` (3) bounds the requests received. Three allow
create, append and a repetition of either, and any two commands at once with a
third that found what they left. Deadlocks need two handlers; TLC checks
subsets of handlers, not only pairs. The initial stock (3, 2, 2) is less than
what the orders want together, thresholds are crossed by one dispatch and by a
sum of dispatches, one SKU has no threshold and one has no client.

In the coverage run `MaxCommands` (2) allows an entry and what it makes possible (an
exit that crosses the threshold, an order, a dispatch) or any two commands at once on two
SKUs; seeded stock lets the exits, orders and dispatches come first. An entry brings 3,
which crosses the threshold of 2 when one unit leaves, and two entries exceed
`MaxCount` (4), which stands for the PostgreSQL maximum. `MaxOutages` (1) bounds failed
reads: the flow runs any number of times, and each repetition starts from new snapshots,
so a second failure finds what the first one found. The rows of the past and of browsers
cover each way in which a row can be wrong: repeated, of an order that is gone, in two
weeks, from another service.

In the projections run two threads are enough for one to store what the other has
invalidated; `Mixes` lets the lists that share tables meet, and the report, which
shares none with them, run alone. `MaxMoves` (2) lets an entry and an exit fall between
queries. The life of an entry differs (2, 1, 2 ticks), so one list may outlive another.

In the accounts run `MaxWrites` (4) allows a registration, a change by one request
while another has been admitted on what is stale, and a reset or deletion after it. Two
users and two addresses are the fewest that can collide; one token can be issued,
withdrawn, used and expire, and no action looks at two of them.

In the nightly run two invocations of one date compete for it, before and after
it is completed, while one of another date competes for the job. A fourth would
meet the same rows. An invocation stands for one attempt; trying again is another
invocation. Nothing in that module is bounded by a counter.

`CHECK_DEADLOCK FALSE` stands in `Weekly.cfg`, where all runs end
and the source stops changing, in the nightly configurations, where all invocations end,
in `Inventory.cfg`, where requests end (the absence of lock cycles is stated there as the
invariant `NoDeadlock`), and in those of `Accounts`, where writes end. In the
task queue relays sweep for ever, so deadlock is checked and says little.

### Fairness

`WeeklyPublication`: weak fairness of `LiveStep` (a live process goes on), of
the server ending each transaction it holds (PostgreSQL answers a COMMIT and
notices a vanished client), and of the lease clock. None for starting, failing,
crashing, resolving or changing the source.

`TaskQueue`: weak fairness of relays, workers, reconciler (all loops of
`services/task_queue`), server and clocks. Fairness of `ReconcileOne` means that
an insertion of a dead letter that is tried again and again succeeds some day.
None for requests, heartbeats, failures and losses. Nothing in a fair behaviour stops
workers from being lost for ever; the properties hold nevertheless.

`NightlyExport`: weak fairness of a live invocation, taken together with its
failing (a reply that never comes ends as an error of the driver); of the database,
which ends every transaction; of the pipeline's processes, which exit; and of the
operator who follows the runbook, which the code names as the only way out. The
runbook also wants the pipeline's COMMIT confirmed; the fairness of
`OperatorReconciles` takes that to happen (section 6 says when it would not). None
for starting, for signals and for being killed.

`WeeklyCoverage`: weak fairness of commands that hold a lock (they commit or roll
back), of deliveries and acknowledgements (every flow begins with the relay and the relay
is tried again), of the week's turn, and of the flow, since `nightly_export.py` runs the
latest closed week every night. The last is written `WF_at(Advances)`: `Advances` holds
of the steps of `Flow` and of no others, and is cheap to evaluate. None for starting
commands, for browsers and for failures of reads.

`Projections`: weak fairness of time and of requests that were taken up. None for
requests, commands, failures and restarts. `Accounts` states no liveness: its handlers end at once
and nobody is obliged to call them.

The inventory states no liveness: a client is not obliged to repeat a command,
and an undeliverable event keeps all later ones (see section 6).

## 5. What is proved

Every invariant and every action property that a passing run checks is also a theorem,
for all values of the constants that satisfy the assumptions below, and so are the
three refinements. What stays with TLC stands at the end of this section.

### Assumptions

All are named in the modules that declare the constants, and TLC evaluates them in the
runs.

| Assumption | Why the code justifies it |
|---|---|
| `NoRunAssumption`, `NoRowAssumption` | NULL is no run id, the absence of a row no KPI value |
| `VersionAssumption`, `MaxUsersAssumption`, `BoundsAssumption` (the part on `MaxOutages`) | bounds of the models are naturals |
| `AttemptsAssumption`, `PublishAssumption` | the limits of executions and of publications are at least 1 |
| `CommandAssumption` | identifiers and SKUs are ordered, the items of an order are finite, not empty and differ in their identifiers; quantities are positive, thresholds and observed counts not negative (field constraints of `inventory_schemas.py`) |
| `HandlersAssumption` | finitely many threads |
| `StockAssumption` | the stock that the model starts from is not negative |
| `TTLAssumption` | a cache keeps its entries for a while |
| `MaxCountAssumption` | the largest integer of PostgreSQL is positive |
| `BeginningsAssumption` | seeded movements are numbered by their sequence and never took out more than they had brought in |
| `HistoryAssumption` | a row of the API from before the outbox tells an entry that is there, or an order whose identifier no other order is given; `POST /telemetry/events` stores its rows as those of "backoffice" (`telemetry_storage.py:112`) |
| `BoundsAssumption` (the part on `Quantities`) | an entry brings something |
| `SignalsAssumption` | `SignalsMeet` is a Boolean; `PipelinesOwnTheirRow` needs it false, which the theorem says |

`HistoryAssumption` is needed by `NothingIsOvercounted` alone. Without it a row that the
API wrote best-effort for a fact that was later removed by hand would be counted: the
calculation trusts the service name of a row, and only orders are looked up.

### Publication: `WeeklyPublication_proofs`

| Theorem | Statement |
|---|---|
| `TypeInvariant` | `Spec => []TypeOK` |
| `InductiveInvariant` | `Spec => []IInv` |
| `AtomicPublication` | `Spec => []PublicationIsAtomic` |
| `TruthfulHistory` | `Spec => []VerdictMatchesCommit` |
| `ReleaseNeverMisses` | `Spec => []FencedWriter` |
| `CountsAreTrue` | `Spec => CountsDescribeCommit` |
| `TokenOrder` | `Spec => PublishInTokenOrder` |
| `PublicationImplementsReport` | `Spec => ImplementsReport` |
| `NothingAttemptedYet` | `Spec => []NotYetAttempted` |
| `PublicationImplementsHistory` | `Spec => ImplementsHistory` |

None of the safety properties is inductive. That a success was committed, for
instance, needs to know that only a flow past its COMMIT writes it, or a resolver
that saw the pointer. `IInv` adds: the status follows the place of the flow
(`Lifecycle`); flow, row lock and server agree on the transaction
(`Transaction`); a COMMIT on its way belongs to a run that is still running
(`OpenWhileInDoubt`); verdict and outcome agree (`Verdicts`); the pointer names a
committed run (`PointerIsCommitted`); under the row lock what staging saw stays
true (`StagedStillTrue`); tokens are unique (`TokensAreUnique`).

The step lemma is proved conjunct by conjunct. `NextShapes` first shows that a
step has one of a few shapes (it leaves the business transaction alone, it ends
it, it grants the lease and so on); each `...Step` lemma then goes over shapes
instead of over two dozen actions. The refinement of `WeeklyReport` maps
`ServerCommits` to `Publish`, writes of a terminal status to `Declare`, `Extract` to
`Calculate`, and everything else to a stutter. The refinement of `RunHistory`, through
the mapping `Business` of the state of a transaction, closes the gap between the queue
and the publication: what `TaskQueue_proofs` shows of tasks rests on a run history
that the publication is proved to implement. It needs that a run whose flow has not sent
its COMMIT has no outcome, and a run that is not yet running no commit result
(`NotYetAttempted`).

### Task queue: `TaskQueue_proofs`

| Theorem | Statement |
|---|---|
| `TypeInvariant` | `Spec => []TypeOK` |
| `InductiveInvariant` | `Spec => []IInv` |
| `AtMostOneExecution` | `Spec => []OneExecution` |
| `AnswersAreTruthful` | `Spec => []TruthfulAnswer` |
| `DispatchIsAgreed` | `Spec => []DispatchAgrees` |
| `OneRequestAtATime` | `Spec => []OneOpenRequest` |
| `AnswersAreFinal` | `Spec => AnswerIsFinal` |

`IInv` has three sides. `RunSide`: the status of a run and what the server has of its COMMIT
(`Fate`); until the pipeline is entered the run is pending at most, and a task that can
still be claimed was never entered (`Opened`); only a closed task tells of a publication,
and it tells what the server did (`Told`); a worker in the pipeline, or back from it, is
the one that entered it (`WorkerInv`). That a task which can be claimed was never entered
is what makes delivery at least once harmless: the entry is fenced by the claim, and no
step leads from an entered task back to a claimable one. `DispatchSide`: the end of a
dispatch is told by task and outbox row together, and a relay holds an attempt of its own
(`RelayInv`, `RelaysDiffer`). The relay writes the task row without looking at the claim
of the worker; the agreement holds because both rows are written in one transaction that
checks the relay's own attempt. `AcceptSide`: one transaction holds the lock of the week,
and a week it found free stays free until it ends, since no other step makes a run active
(`NobodyElseOpens`).

### Inventory: `Inventory_proofs`

| Theorem | Statement |
|---|---|
| `InductiveInvariant` | `Spec => []IInv` |
| `DeliveredBeforeAcknowledged` | `Spec => []AcknowledgedIsDelivered` |
| `FactsAreToldOnce` | `Spec => []OneEventPerFact` |
| `LocksNeverCross` | `Spec => []NoDeadlock` |
| `RetriesAgree` | `Spec => RetryAgrees` |
| `StockInvariant` | `Spec => []StockInv` |
| `NothingIsOversold` | `Spec => []TypeOK`, no stock below zero included |
| `CheckpointsTellTheStock` | `Spec => RowsTellTheStock` |
| `CrossingsAreAnnounced` | `Spec => CrossingIsAnnounced` |

`IInv` orders the locks (identifiers before SKUs, each in increasing order: `LocksInOrder`),
says what a handler still knows when it writes (what its look-up found of the identifiers
it has locked is so until it ends), gives every command its own instant, and relates
orders, counts, crossings and events one to one. `NoDeadlock` then is an argument on
finite sets: in a set of handlers that wait for each other, the one whose lock is furthest
in the order cannot be waiting for another of the set. `RetryAgrees` relates the answer of
a command to rows that another handler may be writing; it follows since two commands that
share an identifier are serialised on it.

`StockInv` is about sums. A handler holds the SKU locks of all it will write
(`HoldsSkus`), and the stock and threshold it has read are those of the tables until it
commits (`SeenIsStock`), and they cover what it takes (`Covered`). A command may dispatch several
items of one SKU; `Movements`, `StockDescends` and `OneCrosses` show that their
checkpoints lead step by step from the stock before to the stock after, and that at most
one of them crosses the threshold, which one being the choice of the order of the items.

`SumLemmas` has what this needs of `MapThenSumSet`: the value does not depend on the order
in which elements are taken out, an element can be split off, two sets in one-to-one
correspondence have the same sum, a subset of naturals has no greater one. The library
defines such sums by recursion over sets and its induction theorems take an operator as a
parameter, which no installed prover instantiates. The lemmas are therefore proved by a
minimal counterexample: a non-empty set of subsets of a finite set has a minimal element
(`MinimalSubset`, from the well-foundedness of strict inclusion).

### Facts, audit and calculation: `WeeklyCoverage_proofs`

| Theorem | Statement |
|---|---|
| `InductiveInvariant` | `Spec => []IInv` |
| `TypeInvariant` | `Spec => []TypeOK` |
| `CertifiedReportsAreTrue` | `Spec => []CertifiedIsTrue` |
| `RowsTellFacts` | `Spec => []HistoryInv` |
| `NothingIsOvercounted` | `Spec => []NeverOvercounted` |

`CertifiedIsTrue` compares a calculation on telemetry with a replay of the movements.
`TablesOK` relates the two: rows are numbered once, and the checkpoint of a movement tells
the stock that the replay finds before it (`TrueCheckpoint`), whatever is inserted later,
since later rows have greater numbers. From it follows that the events of a snapshot which
the audit finds complete correspond one to one with the facts of the week and have the
same totals (`ExplainedIsTrue`, by `SumLemmas`). `SourceOK`, `AuditOK` and `RecordsOK` carry this
conclusion through the flow: the truth of the first snapshot is the total of its events
(`SourceOK`); what the reporting half adds is that telemetry holds exactly their rows
(`AuditOK`); the events that are extracted are those that were audited, or `Covered` fails; the
order records that are read last, after more commands have committed, still verify them
(`RecordsOK`, because orders and dispatches are never taken away). A calculation without a
diagnostic neither drops nor merges rows (`CalculatesTheTotals`).

`NeverOvercounted` is independent of the gate and of the audit. `HistoryInv` says that every
row of the API tells a fact that is there, or an order that is gone; consolidation leaves
one row for each identity, orders are looked up, and so the rows that are counted map one
to one into the facts (`TotalsNoMore`).

### Nightly export: `NightlyExport_proofs`

| Theorem | Statement |
|---|---|
| `TypeInvariant` | `Spec => []TypeOK` |
| `NoDateTwice` | `Spec => []CompletedOnce` |
| `EndsAreFinal` | `Spec => FinishedIsFinal`: a terminal row never changes |
| `AnswersAreTrue` | `Spec => []AnswerMatchesRow` |
| `PipelinesOwnTheirRow` | `~SignalsMeet` implies `Spec => []WritersAreOwned` |

`CompletedOnce` says nothing of open transactions, and a claim that is about to commit
could meet a row it did not see. `JobInv` adds that a claim is alone while it is open
(`ClaimsAlone`, what the wait for an index entry gives), that a transaction inserts an
absent row or ends a processing one (`OpensAsItMay`), and what the place of an invocation
says of its row (`RowFollowsPlace`). `Owned` adds to `WritersAreOwned` where an invocation
with a running pipeline can stand; the assumption is used in the step `Interrupt` only,
and `second_signal` shows that it is needed.

### Projections: `Projections_proofs`

| Theorem | Statement |
|---|---|
| `InductiveInvariant` | `Spec => []IInv` |
| `TypeInvariant` | `Spec => []TypeOK` |
| `TornListsShowNoMore` | `Spec => TornListsAreSafe` |

The tables only grow. What a thread has read of a table is a past state of it (`Past`), so
it is bounded by the table of now, and by what the thread reads later. The order of the
queries does the rest: a list of products reads SKUs, then entries, then exits, so what it
subtracts is at least what had left when it added what had come. A list of orders reads
SKUs last, and so lacks the SKU of no movement it has.

### Accounts: `Accounts_proofs`

| Theorem | Statement |
|---|---|
| `TypeInvariant` | `Spec => []TypeOK`, one profile per user included |
| `AddressesAreUnique` | `Spec => []OneUserPerAddress` |
| `NothingComesBack` | `Spec => NothingIsBroughtBack` |
| `TokensWorkOnce` | `Spec => []ResetTokensWorkOnce` |

`Inv` adds that users are numbered in the order of their creation (`Numbered`), so that a
registration never meets its own number, and that a token which is not used has changed
nothing (`TokenInv`). What a request was admitted on appears in neither. `NothingComesBack`
says what follows: `update` writes the named fields into the stored document and nothing
where there is none (`UpdateBringsNothingBack`), so however stale the user is that a handler
decided on, only the fields it changes can change. The mutant that writes the found document
back is refuted by a write that falls between the two steps of a search.

### Only model-checked

- Liveness under fairness, out of reach of the prover: `EveryFlowEnds`,
  `WeekIsNeverStuck`, `RunningTaskEnds`, `DispatchSettles`, `EveryInvocationEnds`,
  `EveryClaimIsFreed`, `EveryFactIsReported`, `EventuallyFresh`.
- The refuted statements `FailureFreesItsWeek`, `WritersAreOwned` when two signals meet,
  and `StoredUsersAreReadable`.

## 6. Observations without a run of their own

Publication and queue:

- A run that extracted before a late event can publish after, and over, one that
  extracted later: the lease is acquired after the calculation and nothing is validated
  again under it (`pipeline.py:569`). PIPELINE_DESIGN.md:1056: "Un cálculo basado en un
  snapshot obsoleto no podrá publicarse". `WeeklyPublication` reaches it with one change of
  the source and two runs.
- An uncertain COMMIT that did not land leaves its run running for ever:
  `resolve_uncertain_publication` records "uncertain" again (`coordinator.py:386`), where
  PIPELINE_DESIGN.md:1971 has an unconfirmed run become failed.
- The dead letter of a worker that lost its preflight claim is inserted outside the
  fence (`tasks.py:253`) and stays beside another worker's success;
  task_queue/README.md:108-109 says that stale workers are fenced.
- `coordinator.py:259` moves the publication pointer for a run that ends
  `succeeded_noop` too; PIPELINE_DESIGN.md:1858 keeps `published_by_run_id`.
  `PublicationIsAtomic` holds with the pointer as the code writes it.
- `publication.py:1051` reports a technical failure of the reconciliation read as
  "blocked", which ends as `blocked_quality` (`ReconciliationReadFails`).
- A verification that raises stores "uncertain" in the row, but the result of
  the flow does not carry it (`PipelineReturns`).
- A worker whose message finds nothing to claim calls `reconcile_task`, which
  closes a task from a terminal run without looking at `claim_expired`;
  techContext.md:563 asks for that of the reconciler, which does look
  (`reconcile_one`). Worker and history agree, so nothing false is told.
- Only a message can claim a task again. A worker that is fenced at
  `start_prefect`, or a redelivered message that arrives before the claim expires,
  raises and is acknowledged; the claim then expires with no message left.
  progress.md:523 says such a claim is recovered.
- After the third claim is lost in preflight nothing can claim, reconcile or
  close the task, although `tasks.py:184` calls the third attempt terminal.
- A worker lost between `schedule_retry` and `self.retry` leaves a waiting task
  whose redelivered message may come before `next_attempt_at` and be used up.
- `reconcile_one` looks at the oldest row only; a dead letter that cannot be
  inserted keeps it oldest.

Gate and calculation:

- `BLOCKING_QUALITY_CODES` (`publication.py:48-60`) still has the names of the
  `stockexit_*` diagnostics, so `commercial_order_missing` and
  `outbound_order_verification_unavailable` do not block by themselves. The audit closes
  the gap: without a complete audit `coverage_pending` stays, and blocks.
  `CertifiedIsTrue` holds because of it.
- The gate fails closed, and may do so for good: a movement of a SKU without
  `client_id`, a seeded movement in the week, or any row of an official type that a
  browser sent, can never be covered. `EveryFactIsReported` has these as its
  exceptions (`Clean`).
- A report calculated without a source engine never clears `coverage_pending`.

Job runner:

- `skipped_conflict` may name a failed row: the owner that caused the conflict
  failed before the third statement. The command then exits 0 and the night is not
  repeated (`ReadLatest`).

Inventory and projections:

- A create repeated after dispatches were appended to the order answers 409.
  `tests/test_inventory_business_producers.py:366` wants it so, and `Recorded`
  excludes it from `RetryAgrees`.
- Movements posted on their own have no idempotency key.
- The outbox relay ends its batch at the first event it cannot deliver and starts
  the next one with the same event.
- A list that was read before a command commits and stored after its invalidation
  is shown until it expires (30 s products, 15 s orders, 60 s report); so is any list
  that was in the cache when a command failed after its COMMIT and before it invalidated
  (`inventory_service.py:612` and `639`, `routes/inventory.py:207`), though
  CACHING_REPORT.md:404-422 and 602-607 say that reads after a mutation are fresh.
  `EventuallyFresh` states what holds. Caches are per process; `services/Dockerfile` (line 47)
  starts one.
- A torn list of products may show a negative stock, never one that is too high. The
  four metrics of the telemetry report come from four queries and may disagree.

Accounts:

- TinyDB's query cache can keep a user as it was before the last write, until the next
  write to the table: a deactivated user is still admitted, and `create_profile` may
  give a profile to a user that is gone. No write brings back what it decided on
  (`NothingIsBroughtBack`), and the addresses stay unique, since they are looked up by
  another search.
- `JSONStorage` shares one file handle between threads; a read while another thread
  writes fails (`RequestFails`). That a write could interleave with a read so as to
  corrupt the file is not modelled.
- When the withdrawal of a reset token fails the token stays usable, although the
  request was answered with 500 (`Forgot`).

## 7. What is not modelled, and why

- `renew_week_lease`: nothing calls it. `lease_release_rejected` and the rejection
  of a non-durable claim: unreachable, the first by `ReleaseNeverMisses`.
- `record_fencing_advance` and the other columns of the run row that no decision
  reads.
- Retries of Prefect tasks around pure reads: in `WeeklyPublication` they repeat
  `Extract`, in `WeeklyCoverage` they are `ReadFails`.
- Runs started by the command line without a task are runs of
  `WeeklyPublication`; `TaskQueue` has only runs with tasks.
- `technical_coverage.py`: an attestation of synthetic weeks that only tests and the
  evaluation harness supply.
- The database identity guard: one comparison before any work. Malformed identifiers,
  the discrepancy rate, and the wording of diagnostics.
- The contents of the nightly CSV file.
- The time window of the telemetry report, the best-effort capture of backend telemetry,
  and the reporting read API: queries of rows that other modules write.
- Suppliers: handlers in threads read, change and write one TinyDB table without a lock.
  Two of them can lose a write, give one number twice (`_next_id`) or bring a deleted
  supplier back; nothing in the repository promises otherwise, so there is nothing to
  check that a reading does not show.
- Forecasts and their evaluation, incident scripts, benchmarks: numeric or text
  processing of one process, without state that other processes see. Seeds are run by
  hand; what they leave is an initial state of `WeeklyCoverage`.
- Web interfaces: views over the HTTP API.

## 8. Plan

All components that the planning began with are modelled and checked, and their safety
properties are proved. What is left:

1. `NightlyExport`: an abstract specification (a lock with one result per date) and the
   refinement.
2. An integer clock for `lease_expires_at` that refines the expiry bit of `WeekLease`.
3. An event that can never be delivered, with the liveness of the relay.
