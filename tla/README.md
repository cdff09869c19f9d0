# Verification of mini-ogas

mini-ogas is a manufacturing control system: a central API (Python, FastAPI) with PostgreSQL
behind it, edge agents on the production nodes, a background worker that publishes facts to NATS
JetStream, a process supervisor (Go) and a dashboard. This directory holds TLA+ modules of the
parts whose correctness depends on the order of steps, the TLC configurations that check them and
TLAPS proofs. Paths below are relative to `src/`; `app/` is `services/central-api/app/`.

## 1. Inventory

| Component | Module | State | Operations | Interacts with | What is hard |
|---|---|---|---|---|---|
| Command loop (`app/command_*.py`, `safety_governor.py`, `store.py`) | `CommandLoop` | list of commands in memory, `command_shadow` rows, order and suggestion status | propose, review, approve, reject, cancel, retry, claim, report, observe, expire, supersede, reload | operators and agents over HTTP, PostgreSQL | the lock is released before the database is written; reviews are made before it is taken; reloads and restarts |
| Edge agent (`services/node-agent/simulator.py`) | `CommandLoop`, `PartFlow`, `EdgeSync` | command ledger, target rate, claimed part, SQLite tables of heartbeats and telemetry | fetch, apply, report, claim and complete parts, send, store, replay | central API | lost answers, repeated requests, stops between any two steps |
| Supervisor (`services/supervisor`) | `Supervisor` | state, generation, PID, channels per process | StartAll, Start, Stop, Restart, StopAll, monitor, crash restart | operating system, HTTP clients | goroutines that outlive what they watch; a lock that is released around a launch |
| Outbox and worker (`app/core/outbox.py`, `app/worker.py`) | `Outbox`, `Delivery` | `outbox_messages` | enqueue, claim, publish, mark | every writer, NATS | leases, retries, two workers, crashes between publish and mark |
| NATS consumer (`app/core/nats_publisher.py`) | `Outbox` | `nats_shadow_receipts` | fetch, persist, ack, nak | broker, PostgreSQL | redelivery, lost acknowledgements, limits |
| Production execution (`app/repositories/execution.py`) | `Execution` | production orders, work orders, tasks, holds, setups, downtimes, quantities, idempotency rows | 18 transactions | maintenance, schema guards | READ COMMITTED transactions that decide on rows they do not lock |
| Maintenance (`app/repositories/maintenance.py`) | `Maintenance`, `Execution` | assets, checklists, requests, orders, plans, tools, spare use | order life cycle, generation of preventive work, calibration | execution, material flow | triggers and repository that write the same columns, unlocked reads |
| Material flow, quality (`app/repositories/material_flow.py`, `quality.py`) | `MaterialFlow`, `Quality` | lots, balances, genealogy, inspections, holds, dispositions | movements, transformations, adjustments, inspections, decisions | each other, through holds | checks on rows that are not locked; what only a trigger serialises |
| Master data (`app/repositories/master_data.py`) | `MasterData` | master records, revisions, qualifications, work orders | create, transition, release | data platform (documents) | no request locks what it reads |
| Data platform and Redis projection (`app/repositories/data_platform.py`, `app/core/redis_projection.py`, `object_storage.py`) | `DataPlatform` | batches, receipts, measurements, aggregates, runs, keys and pointer, manifests | ingest, aggregate, retain, rebuild, upload | edge agents, Redis, MinIO | two stores that can disagree, deletion after a check |
| Nodes, isolation and alerts (`app/store.py`, `routers/compat.py`) | `Fleet` | status, topology edge, heartbeat rows, alerts in memory and in rows | heartbeat, metric, isolate, restore, retire, confirm, escalate, diagnose, decide, reload | agents, operators, AI dispatcher | requests that hold objects across a reload; several writers of one status |
| Part flow (`app/store.py`) | `PartFlow` | part queue and rows, claims | claim, complete, expire, create | heartbeats, agents | counts that must be conserved, claims that run out |
| AI dispatcher (`services/ai-dispatcher`) | `Dispatcher` | provider configuration, vault, running inferences | infer, unlock | providers | retries and deadlines, configuration that changes between awaits |
| Planner, market simulator, dashboard, reports, scripts | none | none or presentation | | central API | little |

Every component, with its status and the reason when it is not modelled, is in `PROJECT.json`
under `components`; what is hard to test, line by line, is under `hazards`.

## 2. Plan

Modelled first, because it decides what happens on the shop floor: the command loop, then the
supervisor, the outbox and production execution. After them the parts that meet on the shop floor
(fleet, part flow, edge records), the families of transactions (material flow with quality,
maintenance, master data, data platform), the dispatcher, and `Delivery`, the abstract
specification of the outbox. Still to do, in order:

1. the composition of `Fleet` with `CommandLoop`: isolation is a command there and a status here;
2. schema migrations (order, checksums, interruption) and the polling guard of the dashboard.

## 3. Modules

### CommandLoop

A request handler of the central API is a thread `t`; `op[t]` is where it is. The section under the
store lock is one step. After it the handler works off a list of transactions (`todo`), in the
order the code has: superseded commands first, then the new or changed one, then the order or the
suggestion. A transaction is two steps, `Prepare` (fields are read from the command object) and
`Save` (the row is written), because nothing orders two handlers in between. The object is shared
with the list (`mem`) until a reload or the 100-command limit removes it, after which the handler
keeps a detached copy (`held`).

| Actions | Code |
|---|---|
| `Issue`, `ReissueDispatch`, `Isolate` | `CommandControlService.issue_*`, `record_metric`, `isolate_node`, `CommandManager.create_command` |
| `Review`, `Refused`, `Approve`, `Reject`, `Cancel`, `Retry` | `CommandControlService.approve/reject/cancel/retry`, the Safety Governor, `CommandManager` |
| `Claim`, `ExpireScan`, `RecordResult`, `Heartbeat` | agent endpoints, `expire_stale_claims`, `CommandVerifier` |
| `Prepare`, `Save`, `SaveFails`, `ProjectOrder`, `ProjectVerdict`, `SetSuggestion`, `SuggestionFails`, `Finish` | what the handlers do after the lock |
| `Refresh`, `Restart` | `refresh_primary_projection`, `MemoryStore.__init__` |
| `EdgeApply`, `EdgeIgnore`, `EdgePost`, `PostLost`, `EdgeGivesUp` | `simulator.py` and the network |

Data: the evidence of `CommandVerifier` is one of four scenes, in the order the code looks at them;
the confirmation code stands for code and administrator role; `result_message` is who wrote it.
`cleared` and `handouts` are history. `Issued`, `Decisions` and `Scenes` choose the inputs of an
instance.

### Supervisor

A child, its context, its channel and its monitor are named by process and generation. `actor`
holds `StartAll` and the management requests, `mon` the monitors, each with a program counter;
every section under `proc.mu` is a step, the launch itself is the gap between two (`Begin` and
`Land` or `Misfire`). Closing a nil or closed channel is `down = "panic"`. Timers are "later" or
"gave up". The child processes are external: `ChildExits`.

### Outbox and Delivery

Rows with their status, creation order and retry time; workers with their batch and connection;
the broker's stream with its duplicate window; the durable consumer with deliveries and
acknowledgements; receipts. `Claim` is one transaction: it frees claims older than the lease,
selects rows without an unfinished predecessor of their aggregate, and takes them. The broker is
external, modelled by what `nats_publisher.py` relies on. Time is left out: any claimed row may be
past its lease, any waiting row may have become due.

`Delivery` is what the outbox promises of one message, with three variables: a committed message is
owed until it is published or given up, it is published only when the stream has it, and a receipt
needs a copy. `Outbox` instantiates it: `state` is the row's status (not there before the commit,
owed while pending or claimed), `copies` counts the stream, `received` the receipts.
`DeliverySpec` is safety, `FairDelivery` adds that what is owed is settled. With one worker a
message that was given up stays so; with two, the late mark of a worker that lost its lease may
reopen it, which is the constant `Reopens`.

### Execution

One PostgreSQL transaction is one step where what it reads is locked or cannot change any more,
and two (`Begin...`, `Commit...`) where it reads rows it does not lock: readiness of the equipment,
the task a maintenance order is bound to, the other work orders. The guards of the schema that
repeat a check of the code are part of that check. One idempotency key is followed, chosen freely:
the keys are independent of each other. A refused request changes nothing and is not a step.
`overlap` and `raced` are history: they remember that two such transactions were open together.
A maintenance order for the equipment of a task may be bound to the task, to the task and its
downtime, or to neither: `operation_task_id` is optional, and the orders of preventive plans have
none. `start_order` looks at the bound task only, so an order in `loose` starts while the task runs.

### MaterialFlow and Quality

A request of the material flow is three steps, because others may commit between its statements:
it reads lots, holds, genealogy or the balance (`RecordMovement`, `RecordTransformation`, `Adjust`),
it writes (`Write`, where the balance rows are locked and the triggers of the schema look again) and
it commits or rolls back. `Quality` adds the inspections, whose opening reads the lot, inserts the
hold (a foreign key: a shared lock on the lot) and commits; the other requests lock the row they
decide on and are one step. `overlapped`, `breach` and `held` are history or derived.

| Actions | Code |
|---|---|
| `CreatePlace`, `CreateLot`, `Import` | `create_warehouse`, `create_location`, `create_container`, `create_lot`, `import_external_snapshot` |
| `RecordMovement`, `RecordTransformation`, `Adjust`, `Write`, `Commit`, `Rollback` | `record_movement`, `record_transformation`, `adjust_reconciliation`, triggers of `phase4_schema.py` and `phase5_schema.py` |
| `CreateGauge`, `CreatePlan`, `TransitionPlan`, `Open*`, `RecordMeasurement` | inspection plans and lots of `quality.py` |
| `CreateDisposition`, `ApproveDisposition`, `ReleaseInspection`, `CreateCapa`, `CompleteCapa` | decisions of `quality.py` |

### Maintenance

One step per request, except the consume movement of a spare part, which reads the order
(`ReadOrder`) and records later (`RecordConsume`). The triggers of `phase6_schema.py` are part of
the step that fires them: the life-cycle guard, the check of required items, tool life and
calibration. Time is the clock of the preventive plan. How a maintenance order and the task of its
equipment exclude each other is in `Execution`.

### DataPlatform and MasterData

`DataPlatform`: one source with one signal; ingestion, retention, rebuild and upload are open
between what they read and what they write, and the unique constraints are checked at the commit. A
retention run is its aggregation, its coverage check and its delete, in this order, with anything in
between. A rebuild takes the lock, writes keys, moves the pointer and records a checkpoint; each
answer of Redis may be lost and the lock may expire. `MasterData` extends it (documents are
objects): registration of master records in the order their references demand, revisions whose
transition reads, supersedes and activates in three steps, and the release of a work order, which
reads one bound revision after the other. `late`, `redone`, `ackLost`, `lapsed` and `crossed` are
history and name the cases the properties except.

### Fleet

`node` is the status the central API keeps, `edge` the topology, `kept` and `fresh` the newest
heartbeat row, `alerts` the list in memory, cut to the newest `AlertLimit`, and `saved` the rows.
Each request has a thread that works in the steps of the code: an alert is looked up, created or
changed in memory under the store lock, and what it changed (`saves`) or created (`new`) is written
afterwards. The insert (`SaveAlert`, `persist_alert`) waits for nobody; the update of a state
(`SaveState`, `persist_alert_state`) waits for a running reload and then writes row and list.
A reload (`BeginReload`, `FinishReload`) replaces the list by rows read earlier, after which a
request goes on with an object nobody else sees (`copy`). Between any two of these steps another
request or a reload may come in.

| Actions | Code |
|---|---|
| `PlainHeartbeat`, `BeginHeartbeat`, `LookUpAlarm`, `ResolveCleared` | `record_heartbeat`, `record_node_heartbeat_v2` |
| `Metric`, `MetricActs` | `record_metric`, its alert and the isolation that follows |
| `CreateAlert`, `SaveAlert`, `SaveState` | `create_alert`, `persist_alert`, `persist_alert_state` |
| `Isolate`, `Restore`, `Retire` | `isolate_node`, `restore_node`, `retire_node` |
| `ConfirmAlert`, `DecideIssue`, `BeginDiagnosis`, `Mark`, `FinishDiagnosis` | `confirm_alert`, `issue_actions`, `issue_decision`, `diagnose_by_issue_id` |
| `AskEscalation`, `Escalate`, `ReportEscalation`, `DecideEscalation`, `CloseNext` | `escalate_to_human`, `pending_escalations`, `escalation_decision` |

The rules over metric values are a choice of a finding. Nothing calls `check_heartbeat_timeout`, so
there is no sweep. `lastId`, `dropped` and `failed` are history.

### PartFlow

Parts between turning, milling and grinding; claims with tokens that run out; the agents that work
on what they claimed; the flow the finished quantity of a heartbeat drives, with its watermark.
A change is made under the lock and written to `part_queue_shadow` by a later step; `Reload` and
`RestartApi` bring back what was written. `PartBegin` is every queue the API can start with;
`WorkshopBeat` takes any number of pieces a heartbeat may account for. Whenever a part is appended,
and when the rows are loaded, the queue is cut to its newest `QueueLimit` parts, claimed ones
included (`Cut`); `RetireWorkshop` takes the parts a retired node made, was to work on or has
claimed. `made`, `created`, `born`, `torn`, `cut`, `unanswered` and `reordered` are history.

### EdgeSync

The loop of one agent as a program counter (`pc`), its SQLite tables, and the API in one of three
modes (PostgreSQL primary, shadow, or memory only). A request is answered, or its answer is lost
and it is lost itself or handled any time later (`HandleLate`). What is sent again are the oldest
`Limit` pending rows (`Oldest`), batches one by one from the least number on. The agent may stop
between any two calls (`Restart`), and once lose its database.

### Dispatcher

An inference walks the provider chain: configuration and egress policy are looked at when a link is
reached, a call takes any time up to the bound `MaxCall`, errors are retried or passed on, and the
rules answer at the end. The code looks at the deadline before each call only, and the timeout it
gives to `httpx` bounds each wait for bytes and not the call, so nothing bounds an inference whose
provider answers slowly; the model has calls longer than the deadline. `Unlock` of the vault changes
the configuration at any time. Time is counted per inference.

### MC modules and proof modules

`MC*.tla` give TLC the constants a `.cfg` cannot express, and the symmetry sets. `MCStock`,
`MCMaintenance`, `MCRecords` and `MCPlant` hold several instances in one run: the variable `focus`
is chosen in the initial state, never changes, and says which steps are taken and under which
bounds, so that the state spaces add up instead of multiplying. Where a focus starts with the
masters registered, another starts without them and registers them by the model's own steps.
`*_proofs.tla` hold the theorems and their proofs, one module for each component and one,
`Plant_proofs`, for `Dispatcher`, `EdgeSync`, `PartFlow` and `Fleet`; see section 6. A proof module extends the
specification it is about and not the MC module, so the theorems hold without the bounds of `focus`.

## 4. Runs

| Run | Shows | Bounds | States |
|---|---|---|---|
| `command_life` | `OneOpenPerSlot`, `ClaimedOnce`, `WithdrawnNeverRuns`, `LatestWins` | 1 node, 2 handlers, 2 ids, 2 rates, 2 operator requests, cancel and retry | 237 thousand |
| `command_faults` | `TypeOK`, `HighRiskGoverned`, `ExecutedOnce` | dispatch, AI review and isolation; 1 id, 2 handlers, 3 requests, 1 failed save, 1 restart | 377 thousand |
| `command_live` | `ClaimsResolve`, `AppliedIsJudged` | PostgreSQL as primary, a window of 1 to 2 observations, 1 handler | 18 thousand |
| `supervisor` | `Watched`, `SerialSafe`, `CrashIsRepaired`, `StopReturns` | 2 processes, one depends on the other, 4 generations, 1 fault, 1 request, 1 timeout | 17 thousand |
| `outbox` | `StreamOrder`, `ImplementsDelivery`, `Receipted` | 1 worker, 2 messages of one aggregate, 2 attempts, 2 deliveries, 1 fault | 57 thousand |
| `outbox_overlap` | `KeepsPromise` | 2 workers, 2 messages, one of them illegible, batch of 1 | 975 thousand |
| `execution` | `AppliedOnce`, `RoutingOrder`, `DoneMeansDone`, `SerialMaintenance`, `SerialOrderFollows` | 2 work orders with 2 and 1 operations, 2 open transactions, one hold, one downtime, one maintenance order with every binding, `resume` repeated | 609 thousand |
| `stock` | `SerialOnce`, `SerialSound`, `HoldUntilDecided`, `HeldSerialStays` | a lot and a serial, 2 places, 2 sessions, 3 requests, 1 inspection with 2 samples, every disposition type | 262 thousand |
| `maintenance` | `WorkProven`, `WornToolBlocked`, `OneOrderPerPeriod` | 2 orders, 2 items, 2 people, 1 spare part, 6 hours with a period of 2, 3 uses and 3 calibrations | 129 thousand |
| `records` | `DeletedWasCounted`, `ActiveGenerationComplete`, `OneEffective`, `ReleasedEffective` | 3 sessions, 4 batches with repeated and conflicting samples, 5 points in time, 4 revisions, 1 work order | 80 thousand |
| `plant` | `ClaimKept`, `PartsWithinOutput`, `ArchivedOnce`, `NumbersNotReused`, `EndsAsTried`, `EscalationKept`, `AlertRowsKept` | 1 node, 3 alert ids, a list of 2, 2 requests; 3 parts, a queue of 2, 2 claims, 4 heartbeats; 3 records; 1 inference over 2 providers with 1 retry, calls of up to 4 with a deadline of 3 | 909 thousand |
| `isolation` | a violation of `IsolationHolds`, section 7 | as `plant` or smaller | |

Why the bounds are enough for the cases meant: two handlers (workers, transactions, sessions) give
every pairwise interleaving; two ids or two messages give a predecessor and a successor; a second
generation is needed for a retired monitor and a third for the launch after it; two movements are
needed to put a serial at two places and a third to close a cycle of lots; three periods let the
preventive plan fall behind by more than one; the fourth heartbeat counts again what an older one, handled after
a newer one, took back; the counters of faults bound how many happen in one behaviour, and each may happen at
any step. The foci of `plant` split the alerts by question: `nodes` (status of a node), `human` (one
alarm between a heartbeat, a diagnosis, a person and reloads), `ids` (two heartbeats that create
alerts around a reload) and `full` (a list at its limit, one request or reload at a time); the parts
into `turning` (output and watermark) and `claims` (claims with a full queue, a retired workshop and
reloads). `command_faults` has one id, so that a reused id is met only by the proof of `Governance`,
for any number of ids. `execution` follows `resume` as the repeated request, because the task can come back to
`paused` between the two copies and the status alone does not stop the second; `Repeatable` and
`Plan` can be changed to follow `report` instead (with `Plan = 2` and `Quantity = 4` it takes about
a minute). Limits of the code that are scaled down: 100 commands in memory (2), the observation
window of 3 to 5 (1 to 2), 10 attempts (2), 5 deliveries (2), 20 parts of a heartbeat (2), 20
pending rows sent at once (1), hours and keeping times of the telemetry (2, 1 and 2), 120 alerts (2), 500
parts (2), the seconds of calls and of the deadline (4 and 3).

The properties are written so that they say as much as the code gives. Where it gives a property
only while two transactions do not overlap, or a write is not lost, a history variable names the
case and the property excepts it: the run then shows that, within its bounds, there is no other way,
and the mutant that the rest is not empty.

Deadlock is not checked: in every instance the operators, producers or clients may have nothing
left to ask for, and in the code too a factory may come to rest.

Symmetry is used in safety runs only, over handlers and rates, workers, transactions, sessions and
places, none of which the code compares or orders.

## 5. Fairness

- `CommandLoop`: handlers run to their end (weak fairness of each handler's steps); the agent
  applies what it fetched and posts what it has not reported; polls, heartbeats and reports come
  from timers and wait in the server's queue while workers are busy, hence strong fairness for
  those that need a free handler. Answers may be lost for ever, saves may fail, operators owe
  nothing.
- `Supervisor`: goroutines and handlers run; a child whose context is cancelled dies (the runtime
  sends SIGKILL). Nothing is assumed of crashes, probes or requests.
- `Outbox`: the loops of the worker run, because the supervisor restarts the process; the
  connection is retried for ever; the broker answers. Faults are bounded and none has to happen.
- The other modules have no liveness property: every step is a person's decision, or, in `EdgeSync`
  and `Dispatcher`, the calls that could be owed an answer may fail for ever.

## 6. Proofs

TLAPS checks the theorems below for all values of the constants that satisfy the assumptions named
in the modules. These give the constants their types, let the bounds be any number (at least one
where one is needed), and say in addition: `None` is no node, order, rate or handler
(`ConstantsAssumption`); the supervisor's clients, the workers, lots, places and revisions are
finite, because something is counted (`DepsAssumption`, `OutboxAssumption`, `MaterialAssumption`,
`MasterDataAssumption`); no provider is called `rules` or `none`, the words the code uses for the
fallback (`DispatcherAssumption`); raw telemetry is not kept longer than aggregates, which
`app/core/config.py` enforces (`DataPlatformAssumption`).

| Property | Theorem | Module | Strengthened by |
|---|---|---|---|
| `TypeOK`, `ExecutedOnce`, `HighRiskGoverned` | `TypeCorrect`, `LedgerIsFinal`, `Governance` | `CommandLoop_proofs` | `ReviewedHasId`; `ReviewedKinds`, `OldIds`, `AnswersClear`, `IdleHoldsNothing` |
| `OneOpenPerSlot`, `ClaimedOnce`, `WithdrawnNeverRuns`, `LatestWins` | `OpenSlots`, `HandedOutOnce`, `WithdrawnStays`, `NewestRate` | `CommandLoop_proofs` | `UsedIds`, `Unhanded`, `AtAgents`, `Fetching`, `OneRateFetched`, `RatesInOrder` |
| `Watched`, `SerialSafe` | `ShownIsWatched`, `SerialOperationsSafe` | `Supervisor_proofs` | `General`, `Serial`, `BeforeDone` |
| `KeepsPromise` | `OutboxKeepsPromise` | `Outbox_proofs` | `Sent`, `Backed`, `Fits`, `Tokens` |
| `StreamOrder` | `StreamOrdered` | `Outbox_proofs` | `Ticks`, `Claimed`, `Fence`, `WireOrder`, `LogOrder` |
| `AppliedOnce`, `RoutingOrder`, `DoneMeansDone`, `SerialMaintenance`, `SerialOrderFollows` | `KeyAppliedOnce`, `RoutingKept`, `CompletionSound`, `MaintenanceExcluded`, `OrderCompletes` | `Execution_proofs` | `ReadsHold`, `OneTxnPerRow`, `HeldFits`, `Dispatched`, `Watched`, `Counted`, `OrderFollows` |
| `WorkProven`, `WornToolBlocked`, `OneOrderPerPeriod` | `WorkIsProven`, `WornToolsBlocked`, `PeriodsCountedOnce` | `Maintenance_proofs` | `OrderConverted`, `SparesFollow`, `MadeBefore` |
| `HoldUntilDecided`, `HeldSerialStays` | `UndecidedIsHeld`, `HeldSerialsStay` | `Quality_proofs` | `SerialGuard`, `OneHoldPerLot`, `PassedAll` |
| `SerialOnce`, `SerialSound` | `SerialIsOneUnit`, `SoundAlone` | `Quality_proofs` | `Weighed`; `Quiet` |
| `OneEffective`, `ReleasedEffective` | `SoleEffectiveRevision`, `ReleasesEffective` | `Records_proofs` | `Sole`, `Succeeded`, `Bound`, `Validated` |
| `ActiveGenerationComplete` | `ActiveGenerationHasKeys` | `Records_proofs` | `ProjectionInv` |
| `DeletedWasCounted` | `DeletedIsCounted` | `Records_proofs` | `Past`, `RunsAccounted`, `Receipted` |
| `EndsAsTried` | `InferencesEndAsTried` | `Plant_proofs` | `Tried` |
| `NumbersNotReused` | `NumbersUsedOnce` | `Plant_proofs` | `Distinct`, `Round` |
| `ArchivedOnce` | `RecordsArchivedOnce` | `Plant_proofs` | `FiledOnce`, `Truthful`, `ReplayedOnce` |
| `ClaimKept`, `PartsWithinOutput` | `ClaimsKept`, `PartsFollowOutput` | `Plant_proofs` | `QueueInv`, `TokensUnique`, `ClaimInv`; `Accounted` |
| `EscalationKept`, `AlertRowsKept` | `EscalationsKept`, `AlertRows` | `Plant_proofs` | `HandsInv`, `NumbersInv`, `RowInv` |

None of these properties is inductive as it stands. The arguments:

- **Command loop.** A decision indexes the list with the id of its review, so the type invariant
  needs that a handler under review has an id (`ReviewedHasId`). `LedgerIsFinal` follows from the
  types: the only step that writes a result asks first whether the ledger has the id. `Governance`
  holds with `~Primary`: a high-risk command leaves the withheld statuses only through `Approve` or
  `Retry`, whose review was made earlier, of a command with that id. So the reviewed kind must still
  be the kind of that command (`ReviewedKinds`), and an id must not be given out again while a
  review or an answer refers to it (`OldIds`). What a handler is about to hand to an agent is read
  from objects others may change or evict (`AnswersClear`), and a starting handler must not find
  copies of the request before (`IdleHoldsNothing`). Without `~Primary` the step that fails is
  `Refresh`: a reload can drop an unsaved command and its id is given out again.
  The life of a command (`OneOpenPerSlot` to `LatestWins`) is proved for `~Primary` and
  `MaxRestarts = 0`, that is until the list is first rebuilt from rows: an unsaved claim is lost
  then, and the command can be claimed again. An open or withdrawn command was never handed out
  (`Unhanded`), and only what was is at an agent (`AtAgents`). A rate is waiting in an open command,
  on its way in the one answer the agent waits for (`Fetching`) or in its inbox, or executed; at
  most one is on its way, and what is behind has the larger id (`RatesInOrder`), because ids grow
  past every id ever handed out, evicted ones included (`UsedIds`).
- **Supervisor.** A launch in flight between the two locked sections has a generation of its own
  (`Launches`), so a monitor that finds its generation current belongs to the launch that landed
  last (`Named`). For a process that never saw two operations at once, what its live child, its
  channel and its state are rests on what the one operation under way has done (`Serial`).
- **Outbox.** What is sent or stored was committed (`Sent`); who is about to write "published" holds
  a message the broker has stored (`Fits`, `Backed`), so a row's status never runs ahead of the
  stream. Receipts are numbered by distinct pairs of a copy and a delivery (`Tokens`), hence there
  are never more than the copies allow. From this every step of the worker is a step of
  `DeliverySpec` or a stutter: the safety part of the refinement. With the one worker of the
  deployment contract the stream keeps the order of an aggregate: what was ever claimed waits only
  for rows that are settled for good (`Fence`), and the wire, a queue that loses its first messages
  first, never has a message before one it waits for (`WireOrder`).
- **Execution.** A transaction of two steps acts on what it read in the first. What it locked still
  holds (`ReadsHold`, `OneTxnPerRow`); what it did not lock holds unless another transaction was
  open as well, which the history variables remember (`Watched`, `Counted`). Of the maintenance order
  `MaintenanceExcluded` says which step may create the conflict: one of an overlap, or the start of
  an order that is not bound to the task.
- **Maintenance.** An order is written once (`OrderConverted`), so one that is no longer active has
  been verified and stays so when a late spare-part movement finds it (`SparesFollow`); everything
  generated so far lies before the due time (`MadeBefore`).
- **Quality.** A lot has one open hold (`OneHoldPerLot`), or releasing an inspection would lift the
  hold of another. No session has written a balance of a serial that is held or about to be
  (`SerialGuard`): the foreign key of the hold and the lock of the trigger make one of the two wait.
- **Material flow.** A session that has written a serial was weighed by the trigger, and nobody else
  can write that serial before it ends (`Weighed`); the same for a single balance (`Covered`, from
  which `NoBalanceNegative`: no balance is ever below zero). A commit adds its legs to the sum over
  the places (`LotSumAdds`). As long as no two sessions have overlapped, what the open one read is
  still so when it commits (`Quiet`), and an edge from parents to children, none of them above a
  parent, closes no cycle (`StaysAcyclic`): below the children there is no parent.
- **Records.** A transition locks the siblings it supersedes, so two of them cannot both activate
  (`Bound`), and a release has seen the kinds it has passed effective unless a transition committed
  since (`Validated`). A generation the pointer names is past the steps that delete keys
  (`ProjectionInv`). What a run that passed its coverage check may delete is accounted for
  (`RunsAccounted`).
- **Dispatcher.** Between two links every usable provider has failed, in a call all others have
  (`Tried`); an inference that skips the rest of the chain has used up the deadline. How long it
  takes is not bounded, by the code or by the theorem.
- **Edge records.** A sequence number that anybody knows, the agent's tables, a request under way or
  the API, has one content and is not above what the next reservation starts from (`Distinct`); the
  same for the local ids of heartbeats, over all databases of the agent (`FiledOnce`).
- **Part flow.** A token is held by one agent or one request, or by an agent and the request that
  completes its part (`TokensUnique`). What is held is still claimed with that token, unless it ran
  out, the part was set back, cut or taken with a workshop, or the answer was lost, which the history
  remembers (`ClaimInv`). That turning is not outrun by milling is an argument about counts: the
  pieces turned are numbered, each created part takes one number, each request under way holds as
  many as it may still create, and the newest heartbeat has handed out no more than had been turned
  when it was sent (`Accounted`). These numberings are existentially quantified, so that no variable
  has to be added to the model.
- **Alerts.** An object that has not left the list is in it (`HandsInv`), so a save of it writes what
  the list says. An id above those in the list was never given, unless a reload left it to be given
  again (`NumbersInv`). Hence an id that was given once has at most one request to insert it, its row
  is still what a reload under way has read, and where the list says that a person is needed the row
  says so too, or that change is still to be saved, or its save has failed (`RowInv`). A reload then
  brings back an alert that waits as one that waits, but for the cases `EscalationKept` names.

Only model-checked, and why:

- `ClaimsResolve`, `AppliedIsJudged`, `CrashIsRepaired`, `StopReturns`, `Receipted` and the
  liveness part of `ImplementsDelivery` need fairness and ENABLED, which are outside TLAPS.

Induction over data is otherwise avoided. The one place that needs it is the sum of a serial's
balances, a fold over the places: the library's induction theorems cannot be instantiated, because
they take an operator, but that strict inclusion of finite sets is well founded can be cited. So
`EverySet` and `EveryNumber` state induction for a set of sets and a set of numbers, by a smallest
counterexample. What the recursive query of the genealogy finds is defined as the least closed set,
which needs none.

## 7. Where code and documents disagree

Shown by a run:

- `isolation`: a metric with high load, or the reload of a heartbeat row, takes an isolated node out
  of isolation without an operator; the documents have isolation end by a confirmed restore.

Met while modelling; the property named excepts the case, and fails without the exception:

- `ClaimedOnce`: with PostgreSQL as primary, a reload between claim and save makes the command
  pending again and a second poll gets it (the run has no reload). A test of the store asserts that
  concurrent claims hand a command out once. The agent's ledger still executes it once.
- `WithdrawnNeverRuns`: the deployment contract says expired commands must not execute. The agent
  knows the `expires_at` of the creation and checks it; the lease of a claim, after which the central
  API expires the command as well, is not known to it, so the property leaves expired out.
- `SerialSafe`: a Stop between the last check of a crash restart and its launch succeeds, and the
  child is started afterwards.
- `SerialMaintenance`: a task start and the start of its maintenance can pass each other, and a
  maintenance order without the task, such as every preventive one, starts whatever the task does.
- `EndsAsTried`: the timeout of a provider call bounds each wait for bytes, not the call, so
  the deadline of an inference is passed by a slow answer; the audit of the AI plane says the runtime
  enforces one overall deadline.
- `ClaimKept`: a full queue drops its oldest part even when an agent has claimed it, and a retired
  node takes the parts it claimed along; the completion is then refused for ever.
- `EscalationKept`: a full list drops its oldest alert even when it waits for a person; a reload
  brings back the row of an escalation that is not saved yet; and a late save of an object that has
  left the list overwrites what others have done since, an escalation included.
- `SerialOrderFollows`: two work orders that complete together leave the production order in
  progress.
- `DeletedWasCounted`: retention can delete samples no aggregate counts; the decision record says it
  never deletes without a completed aggregate.
- `OneEffective`: a repeated transition can supersede the effective revision and activate nothing.

Seen in the code, without a property: `generate_preventive_work` binds the checklist of its plan
whatever its status (`PHASE6_GATE.md` says effective), and nothing calls `check_heartbeat_timeout`,
so a silent node is not marked as the technical report describes.

## 8. Left out

Wording, logging, audit rows, authentication and permissions, HTTP status codes, numeric evidence,
units of measure, container capacity, personnel and equipment assignment, read endpoints, the
cryptography of the vault, the random production figures of the agent. SQLite as a backend is left
out of the transaction modules (one writer at a time, so fewer interleavings). Tasks named by a
movement and orders named by a task are taken to be in an allowed state where the other module is
not part of the instance. In `Fleet`: two requests that hold the same alert after it left the list
have separate copies of it; the saves of one request may come in any order; retired nodes may
register again; an approval closes every open alert of its issue, one reopened behind it included;
the append and the cut of `create_alert` are one step, though a reload that came in between would be
undone; the API does not restart. The components with status `not_modelled` are read-only, numeric, tables of
permissions, presentation, or tooling.
