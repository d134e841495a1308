# Solar3D in TLA+

This directory holds TLA+ models of the parts of Solar3D whose correctness depends on
the order in which things happen, or on an algorithm whose result is hard to test. TLC
checks them on small instances, TLAPS proves the theorems listed below for every value
of the constants. All source paths are relative to the root of the repository.

## The system

Solar3D is a design platform for solar plants. Go microservices under `services/` are
run on their own or combined in one process by `services/monolith`; they call each
other over Connect RPC and keep their state in Postgres. Rust libraries under
`compute/` do the numeric work, `frontend/` is a SvelteKit application, `mobile/` a
Flutter one. Of the libraries in `services/packages/` the services import
`httpmiddleware`, `database/pgxpostgres`, `errors`, `api/v1/pagination`, `solar3dorch`,
`cad` and `audit`; the others (sagas, circuit breaker, event bus, ...) are used by nothing.

### Inventory

| Component | State | Operations | Interaction | What is hard, what must hold |
|---|---|---|---|---|
| compute-orchestration-service, job engine | rows of jobs, idempotency keys, attempts, dead letters (Postgres); the channel `jobQueue`, workers, timers (memory) | SubmitJob, RetryJob, CancelJob, worker loop, failure handling, backoff timer, Stop | called by the other services through `packages/solar3dorch`; calls the compute backends | goroutines read a row, change a copy and write it back without lock or version; bounded channel; crash loses the channel. A job is not forgotten, not doubled, gets its attempts and one dead letter |
| its executor | none | dispatch of a job by type to a compute backend, with a timeout | HTTP | returns in finite time, with artifacts or an error |
| its hardening, ML workflow, monitoring packages | maps in memory | leases, recovery, pipelines | wired into nothing that runs | `CheckOrCreate` locks a mutex it holds, should it ever be used |
| drawing-revision-service | drawings, immutable revisions, entity index, command attempts, conflict events, integrity findings | CreateDrawing, StoreDrawingRevision, UpdateDrawing, audit loop, repair command | called by cad-core and the CAD satellites | optimistic commits under a row lock, statements on a second connection while the lock is held, bounded pool, retries after a lost answer, deadlines, crashes. One linear history, and row, index and attempts agree with it |
| cad-core-service | none | CommitDrawingCommand, RevertDrawingRevision | reads the state of a drawing, calls StoreDrawingRevision | the write must be rejected when the drawing has moved |
| CAD satellites (annotation, layer-block, interop, plot-sheet) | none or small tables | requests turned into drawing commands; materialization of results | cad-core, drawing-revision-service | theirs is the concurrency of the drawing; a materialization names no base |
| project-service, project, site and zones | rows of the project, its site, the constraint zones of the site | create and update the project, replace its site, import boundary and zones, delete | - | a lock on the project row for the replacement of a site only, all else reads first and writes later. A project has one site, and zones of no other |
| project-service, planning workflow | columns of the project row | TransitionPhase, RollbackPhase, blockers, hand-off of a phase to the job engine | would submit jobs | the repository neither reads nor writes those columns, so no call gets beyond its read |
| project-service, LOD400 | none | a checklist computed from snapshots | reads layout, electrical, structural data | - |
| commissioning-service | checklists with items, sign-offs, hand-overs | seed, add and update items, recompute the status, sign off, hand over | - | a status recomputed from items read earlier. A status is earned |
| transmission-routing-service | routes with their review state and event stream | route search, towers, scoring, submit, approve, reject | compute | overlapping decisions overwrite each other; retried search with changing limits; spans split after they were checked |
| routing-service | routes | CRUD, path search, ordering | - | nearest neighbours and 2-opt: the result is an order of all routes, and the exchanges end |
| compute-service, ML training and registry | training runs, versions, deployments, the active model | StartTraining, deploy, rollback | goroutine after the answer; Postgres | statements without a transaction, ignored errors. A completed run has its model; champion and active model agree |
| compute-service, scenario store | a map in memory and a file | save, read at start | - | a torn or failed write. A save that was answered survives a restart |
| terrain-service, elevation downloads | rows of jobs, tile cache | a polling loop in every instance | - | nothing claims a row. A completed download has its tiles |
| terrain-service analysis, weather-service | caches | download, interpolation | external data | numeric |
| graph-compute (Rust) | none | Dijkstra, minimum spanning tree, Steiner tree | called by graph-service | ties, zero weights, a union of paths. Results are cheapest |
| rate limiter (`packages/httpmiddleware`) | a bucket per address | allow, removal of idle buckets | in front of the services | a removed bucket comes back full. No window exceeds its rate |
| frontend, CAD store | the revision shown, busy and conflict flags per tab | writes with refresh and bounded retry, materialization, reload | layer-block, drawing-revision | lost answers, overlapping writes, stale refresh. Nothing is stored twice, every write ends |
| frontend, workflow store | project shown, timer, requests on their way | bind, unbind, poll, visibility | project-service | late answers, a bind that goes on after the project changed |
| mobile, offline write queue | entries on disk | enqueue, discard, clear, flush | API | replay after the application ends at any step |
| twin, layout, electrical, simulation, structural, protection, asset, report services; the wrapper services; Rust kernels | rows or none | calculations, CRUD, rendering | compute backends | floating point or I/O |
| api-gateway, monolith | none | routing, wiring | all services | - |

`PROJECT.json` lists each with its files and its status, and under `hazards` what is hard
to test in the code, at its line.

## The modules

| Module | Contents |
|---|---|
| `JobService` | the job engine: API calls, workers, timers, Stop and crashes over the Postgres store |
| `KeyedIntake` | the abstract specification of the job engine for those who submit under a key |
| `MCJobService` | its symmetry set, for TLC |
| `JobServiceProofs`, `JobRecordProofs` | types and who holds a job; what the tables record, the refinement of `KeyedIntake`, the number of attempts |
| `LinearHistory` | the abstract specification of a drawing: one linear history of snapshots |
| `DrawingRevision` | drawing-revision-service with its callers in cad-core, for one drawing; refines `LinearHistory` |
| `MCDrawingRevision` | its symmetry set, for TLC |
| `DrawingRevisionProofs`, `DrawingHistoryProofs` | types, locks, times, row, attempts; archived drawings, linearity, refinement |
| `ProjectStore` | project-service: a project, its site, the zones of the site |
| `Commissioning`, `DemWorker`, `WriteQueue`, `RateLimiter`, `RouteGovernance`, `ModelRegistry`, `ScenarioStore` | one service each, see below |
| `ServiceProofs` | the theorems about the project, about these seven, and about the run of all services |
| `GraphCompute`, `CorridorRouter`, `TowerPlacement`, `RouteOrder` | algorithms, step by step or as functions, on small inputs |
| `SearchProofs` | the theorems about the last three, for every raster, line and laying of routes |
| `GraphProofs` | the theorems about the first, for every graph and all terminals |
| `MCGraphCompute`, `MCCorridorRouter`, `MCServices` | their inputs; the module that runs all services, one per behaviour |
| `CadWorkspace`, `WorkflowSync` | two stores of the frontend, the first over `LinearHistory` |
| `MCFrontend`, `FrontendProofs` | the module that runs them; their theorems |

Definitions with the comment "Mutant" are not part of the models: each is a plausible bug
that replaces one definition of the model to show that a property notices it
(`PROJECT.json`, `mutants`).

How the modules compose: `JobService` implements `KeyedIntake`, the intake its clients rely
on (`JobsRefineIntake`); `DrawingRevision` implements `LinearHistory`, and the commands of
`CadWorkspace` are steps of `LinearHistory`. So what the CAD workspace relies on is what the
service below it is proved to give (`DrawingRefinesLinear`), and it is proved to do nothing
else with it (`CadCommandsAreLinear`, as long as no engineering result is materialized: a
materialization is based on whatever revision the tab shows).

### JobService

| Model | Code (`services/compute-orchestration-service/internal`) |
|---|---|
| `row`, `idem`, `attemptLog`, `deadLetters` | the tables of `migrations/002_compute_orchestration.sql`, through `repository/postgres.go` |
| `queue` | the channel `jobQueue` of `service/service.go` |
| `cpc`, `cjob`, `ckey`, `crow` | a goroutine in SubmitJob, RetryJob or CancelJob, with the copy of the row it loaded |
| `wpc`, `wjob`, `wrow` | a worker in `workerLoop`, `processJob`, `handleFailure` |
| `tpc`, `tjob`, `trow` | a pending `time.AfterFunc` callback |
| `SubmitHit` ... `SubmitEnqueue` | SubmitJob: look the key up, create, save the key, send without blocking |
| `RetryLoad`, `RetryUpdate`, `RetryEnqueue`, `CancelLoad`, `CancelUpdate` | RetryJob and CancelJob, one action per store call |
| `Dequeue` ... `WorkerLogSuccess` | `processJob`: load, mark RUNNING, record the attempt, execute, commit, record |
| `WorkerGiveUp`, `WorkerLogGiveUp`, `WorkerDeadLetter` | `handleFailure` without attempts left |
| `WorkerLogFailure`, `WorkerMarkRetry` | `handleFailure` with attempts left: ledger, RETRY_PENDING, timer |
| `TimerLoad`, `TimerUpdate`, `TimerEnqueue` | the callback |
| `Stop`, `WorkerExit`, `Crash` | Stop; the end of the process, after which Start reads no row back |
| `retried`, `lost`, `returned` | history: accepted retries, jobs whose hand-over was refused or cut, keyed answers. No guard reads `lost` or `returned`; `retried` bounds the retries |

A step is one store call (or one short transaction) or one channel operation. A store
call may fail, with the store as it was or with the write done and only its answer lost; which
errors the code returns, logs or discards decides what happens next. A lost answer makes a
difference where the code acts on the error: a created or requeued job is then queued for
nobody, a key may be bound by a call that failed, and a job whose SUCCEEDED was committed is
handled as failed and run again (`WorkerCommit`). Merged into one step: MarkRetryPending and the
arming of the timer; the two reads of FindByIdempotencyKey; the select on the channel.
Left out: the branch without an executor, the in-memory repository, priority, artifacts
and time stamps, metrics and traces, the reads GetJob and ListJobs. The two reads of a
row in the Postgres GetJob (row, artifacts) count as one, because artifacts are left
out.

### DrawingRevision

| Model | Code (`services/drawing-revision-service`) |
|---|---|
| `history` | `drawing_revisions`, in commit order; parent, command id, snapshot, `committed_at` |
| `head`, `count`, `entityCount`, `archived` | the row of `drawings` |
| `index` | `drawing_entities`, as pairs of entity and revision |
| `attempt`, `events`, `open` | `drawing_command_attempts`, `drawing_conflict_events`, open rows of `drawing_integrity_findings` |
| `lock` | who holds the drawing's row FOR UPDATE |
| `pc`, `req`, `seen` | a goroutine that serves a call or audits: its step, request, reads |
| `ReadForCommand`, `ReadForRevert` | cad-core's CommitDrawingCommand and RevertDrawingRevision, up to their call of StoreDrawingRevision |
| `Enter` ... `FinalizeCommitted` | `StoreDrawingRevision` in `internal/repository/repository.go` |
| `RefuseArchived`, `RefuseStale`, `RecordConflict`, `RefuseDuplicate` | its rejections, with the attempt and the conflict trail on a second connection |
| `CallFails`, `BeginFails`, `WriteFails`, `CommitUnheard`, `LockTimedOut`, `WaitTimedOut`, `Deadline`, `Crash` | failing statements, a commit whose acknowledgement is lost, `lock_timeout`, the end of a context, the end of the process |
| `ReadForUpdate`, `UpdateDrawing` | UpdateDrawing |
| `AuditTick`, `AuditRow`, `AuditLatest`, `AuditIndex`, `AuditUpsert`, `AuditResolve` | `internal/repository/integrity.go`, run after each commit and by the loop of `cmd/server/integrity_audit.go` |
| `Repair`, `ResolveFindings` | repairDrawing in its two modes |

What the model takes from Postgres (external to the repository, used as the code uses
it): a row held FOR UPDATE makes FOR UPDATE, FOR NO KEY UPDATE and the FOR KEY SHARE of
a foreign-key check wait; an UPDATE that leaves the reference alone checks no key; a
statement that fails aborts its transaction; a rollback or a dead connection frees its
locks. A call whose context has ended cannot roll back on its connection, so the pool
closes it, and the lock is free.

One drawing is enough: lock, unique index, history, entity index, conflicts and findings
are per drawing; drawings share the pool and the cleanup of attempts only. `Init` is the
drawing CreateDrawing commits. No call deletes a drawing, so the outcome `not_found` of an
attempt is not reachable. Each command adds one entity of its own: that tells apart which
commands a snapshot contains, which is what the properties speak of. cad-core refuses a
command whose effect the snapshot has already (`applyCommand`: an entity that exists, a
before-image that is not found), so a command comes a second time only where a revert has
taken its effect out. The findings of an audit are upserted one statement at a time, in the
order of the checks, and the rest is resolved in one statement. Merged: the reads of
head and snapshot in cad-core (revisions are immutable; the version is read with the
head); an attempt's finalization with the rollback that follows; the statements of a
transaction that holds the row. The clock is the number of calls so far, so `committed_at`
values are distinct; `TTL` is counted in calls.

### ProjectStore

| Model | Code (`services/project-service`) |
|---|---|
| `project` | the project row, of which the model keeps the coordinates |
| `sites`, `zones` | the rows of `sites`, and the sites that have rows in `constraint_zones` |
| `locked` | who holds the project row FOR UPDATE |
| `pstep`, `held`, `mine`, `gone` | a call: its step, the copy it writes, the site it inserts or imports into, the sites its transaction has deleted |
| `BeginSite` ... `CommitSite` | CreateSite and ImportSiteBoundary, and the transactions of `CreateSite` and `UpsertSiteBoundary` in the repository |
| `LookForPlace`, `UpdateProject` at the step `sync` | the rest of CreateSite, which fills in the coordinates of the project |
| `BeginUpdate`, `UpdateProject`, `DeleteProject` | the calls on the project row |
| `BeginZones`, `InsertZones` | ImportConstraintZones |
| `ProjectCallFails`, `ProjectCrash` | a statement that fails, a call or the process that ends; a commit or a write may be done without the call going on |

The planning workflow has a state machine (`compute/planning/workflow_state_machine.go`), calls
and a hand-off to the job engine, but the only store the service has leaves its columns out: its
SELECT and its UPDATE of a project (`repository.go:73` and `:144`) do not name them. The state a
call loads is nil, and the call ends where it looks at it. So there is no model of phases and
hand-offs: they are reached in tests only, over a mock.

### The services that share no state

| Module | State | Actions and the code they stand for |
|---|---|---|
| `Commissioning` | items (resolved or not), status, sign-off, hand-over, a step per call | `services/commissioning-service/internal/service/service.go`: CreateChecklist's seeding one statement at a time, AddChecklistItem, UpdateChecklistItem, recomputeStatus as a read and a write, SignOffChecklist and CreateHandover as load, insert, status write. Items are stored with NULL notes, and reading one that has none fails (`Readable`); `FillNotes` stands for an UPDATE of the notes from outside, without which no call gets beyond the first item |
| `WriteQueue` | the box on disk, entries per flush, what the server applied | `mobile/lib/core/offline/write_queue.dart`: enqueue, discard, clear, flush with its awaits, handlers that succeed, fail for good, retry or throw; the end of the application |
| `DemWorker` | rows of jobs, cached tiles, each instance's batch and stage | `services/terrain-service/internal/worker/dem_worker.go`: poll, mark, ingest, complete; instances that end; statements that fail or whose answer is lost. The download itself is synthetic and never fails |
| `RouteGovernance` | one route: status, events, approver; what each reviewer has read | `services/transmission-routing-service/internal/service/governance.go`: submit, approve, reject as read and write, delete. Routes older than migration 009 have no bundle |
| `ModelRegistry` | runs, versions, deployments, the active model, steps of trainings and deployers | `services/compute-service/internal/service/ml_training.go` over `migrations/004_ml_learning_system.sql`: one action per statement, statements that fail or whose answer is lost, crashes |
| `ScenarioStore` | memory, file, the saver, answered saves | `services/compute-service/internal/repository/extended_impl.go`: save (add in memory, truncate, write), failures, restart |
| `RateLimiter` | time, tokens and last request of one address, grants so far | `services/packages/httpmiddleware/ratelimit.go`: allow, removal of idle addresses. Time is in steps that earn `Rate` tokens |
| `GraphCompute` | a graph, the terminals, the answers | `compute/graph-compute/src/graph.rs`: Dijkstra, connectivity, Kruskal with the source's union, the metric-closure Steiner tree; a loop is a recursive function over its rounds. Compared with least-cost definitions over all simple paths and all sets of edges |
| `CorridorRouter` | open heap, costs, predecessors, closed set, attempt | `calculateFallbackPath` and the three attempts of `buildFallbackRoute` (transmission-routing-service), one expansion per action; every choice among equal entries of the heap |
| `TowerPlacement` | divided route, towers, spans with clearance | `placeTowers` and its helpers: divide, place the next tower, merge the towers of the bends. Terrain clearance answers either way |
| `RouteOrder` | the order so far, the pair looked at | OptimizeRoutes of routing-service: nearest neighbours, then one exchange looked at per action. Distances are rounded down to hundredths |

An action is one statement of the database, one operation on the box or file, one request
or answer, or for the algorithms one round of the main loop.

### CadWorkspace and WorkflowSync

| Model | Code (`frontend/src/lib/core`) |
|---|---|
| `log` | the history of the drawing, as `LinearHistory` |
| `shown`, `busy`, `conflict` | the context of a tab in `stores/cad.ts` |
| `at`, `tab`, `kind`, `base`, `attempt` | a write on its way |
| `BeginWrite`, `ServerCommits`, `ServerRefuses`, `Apply` | executeCadWrite, the services it reaches, setContext |
| `WriteErrors`, `StaleError`, `Refresh`, `RefreshFails`, `Retry` | its catch branch: errors, the refresh, the delay, the recursive call |
| `Reopen` | a reload: initializeCadWorkspace |
| `bound`, `timer`, `listening`, `view`, `request` | `stores/workflow.ts`: currentProjectId, syncTimer, the visibility listener, the store, the requests on their way |
| `Bind`, `Unbind`, `Poll`, `ApplyState`, `RequestFails`, `VisibilityChange`, `SetRealtimeSync` | its functions; `GoesOn` is the rest of bindWorkflowProject after its await |

Kept of an answer is which project it shows. `setWorkflowRealtimeSync` is exported, and
modelled, but no component calls it.

## Runs

Twelve runs, six that pass and six that show a disagreement. TLC takes from a second to
about three minutes for each, with two workers. Deadlock is not checked: an idle service
legitimately stops, and the calls are bounded.

| Run | Instance | Question and answer |
|---|---|---|
| `job_races` | 1 job, 2 callers, 2 workers, 1 timer, 2 attempts, 1 retry, Stop | Does an interleaving of submit, cancel, retry, execution and timer on one row run the job twice at once (`SingleActivation`), take back a cancel (`CancelSticks`), exceed its attempts (`AttemptsWithinLimit`) or falsify the ledger (`LedgerAgrees`)? No, within the conditions the properties state: mostly "until RetryJob is accepted". |
| `job_faults` | 2 jobs, 1 key, 1 caller, 1 worker, channel of 1, 1 failing statement, 1 crash, fairness | Does every job settle (`JobsSettle`)? Yes, unless its hand-over was refused by the full channel, or cut by an error or a crash; nothing else forgets it (`NoJobForgotten`); one dead letter (`DeadLetteredOnce`); the engine implements `KeyedIntake` (`RefinesIntake`). |
| `job_double_submit` | 2 callers, 1 key | violation of `IdempotentSubmit`: two concurrent calls under one key create two jobs. |
| `drawing_commits` | 2 callers, 2 commands, 3 calls, 3 connections, 1 failing statement, 1 crash, deadlines, metadata updates | Do concurrent commits, retries and reverts keep one linear history (`RefinesLinear`), and the row, the index and the attempts in agreement with it (`RowAgrees`, `AttemptsAgree`)? Yes. Is anything committed to an archived drawing (`ArchivedIsClosed`)? No: UpdateDrawing waits for the row. |
| `drawing_audits` | 2 callers, 3 connections, `lock_timeout`, audit loop, both repairs, fairness | Does every call return without a deadline (`CallsReturn`)? Yes. Do findings that a racing commit caused go away (`FalseAlarmsClear`)? Where audits reach the drawing again and again, yes. Do row and index agree while audits and repairs run (`RowAgrees`)? Yes. With 2 connections `CallsReturn` fails: both callers hold a transaction and wait for a connection. |
| `drawing_replay` | 2 callers, 1 command, 3 calls | violation of `DuplicateReplayed`: a command that is repeated after a revert fails instead of being replayed. |
| `drawing_repair_head` | 2 callers, 2 commands, repair of the head | violation of `HistoryLinear`: the repair moves the head behind a committed revision. |
| `frontend_stores` | CAD: 2 tabs, 3 writes, 2 stale retries; workflow: 2 projects, 3 requests; fairness | Is a write stored twice or reported done without being stored (`StoredOnce`), does a tab stay busy (`TabsComeToRest`), does a write overwrite something it has seen (`LostOnlyUnseen`), does it go on for ever (`WritesEnd`)? No. Is the active project polled (`ProjectIsPolled`), and does the panel show it in the end (`ViewCatchesUp`)? Yes. |
| `services` | below | What each of the services keeps, one per behaviour: sixteen properties, all hold. |
| `cad_refresh` | 2 tabs, 3 writes | violation of `RetriesCatchUp`: a refused write refreshes the revision it already shows. |
| `graph_steiner` | 6 nodes, 6 edges | violation of `SteinerIsTree`: the result has a cycle. |
| `corridor_bend` | 3 x 4 cells with one lake, limit of 45 degrees | violation of `UndergroundIsRequired`: cable is laid although a legal overhead route exists. |

The run `services`:

| Property | Says |
|---|---|
| `ServicesTypeOK` | the records of all services stay well formed, the bounded history and the bucket within their limits |
| `OneSite` | a project has at most one site, none once it is deleted, and every zone belongs to the site that is stored, however replacements, imports and a deletion overlap, fail or are cut |
| `StatusIsEarned` | a checklist is COMPLETED only after all its items were resolved at some time; SIGNED_OFF and HANDED_OVER have their records |
| `QueueIsSound` | no entry disappears undelivered and undiscarded; one flush replays at a time |
| `DownloadsAccounted` | a completed download has its tile; a begun one is in the hands of an instance unless it was cut or its update not heard of |
| `EventsTellStatus`, `DecisionsStand` | the stream of events ends with the status; a decision is overwritten only by a call that began before it |
| `TrainingsAccounted`, `DeploymentsAgree` | a completed run has its model, an open one its goroutine unless that was cut or its creation not heard of; champion, deployment and active model agree as far as deployments neither overlapped nor failed |
| `SavesAreKept` | versions are in order; an answered save survives restarts unless a write was torn or failed |
| `RateIsKept` | in every window an address gets at most its burst and the rate |
| `PathsAndTreesAreCheapest`, `SteinerIsGood` | shortest paths and spanning trees cost what their definitions say; the Steiner result joins the terminals, without branches that lead nowhere, at no more than twice the least cost, provided the first of parallel edges is the lightest |
| `RouteIsSound` | a route found keeps the limits of its attempt and costs what the search compared; one is always found |
| `SpansHold` | every bend above the threshold has its tower; a span exceeds the limit, lacks clearance or is too short only in the cases the property names |
| `RoutesAreOrdered` | the order contains every route once and no exchange would shorten the tour |

### Why these bounds

- Job engine. The races are between goroutines on one row, so one job, two callers
  and two workers show every pair (two timers for one job need RetryJob; what holds then is
  proved for any number of them); two attempts reach both branches of `handleFailure`;
  one retry doubles the activations. Channel capacity (256, at least 16, in the code; 100
  in the monolith) matters only as full or not full: capacity 1 with two jobs fills it. A
  second failing statement or crash meets the same code as the first.
- Drawing. Two callers give every race between two holders of the lock; three calls allow
  a commit, a lost answer and its retry, a stale commit between two others, or a commit, its
  revert and the command once more, and reach the cleanup of attempts (`TTL` 1 in
  `drawing_commits`, 2 elsewhere). Repairs are left to the runs `drawing_audits` and
  `drawing_repair_head`. The pool has 20 connections in the code (50 in the
  monolith); what matters is whether the callers outnumber what the transactions leave.
- Project. 2 callers are two replacements at once, or one and an import, an update or the
  deletion; 3 sites let a stored one be replaced by two.
- Services. 2 engineers and 3 items (one seeded and required, one seeded only, one
  required only); 3 entries (one without a handler), 2 flushes, 2 attempts; 2 elevation
  jobs, 2 instances; 3 reviewers (two that race and one that decided before); 3 models
  (one without a schema row), 2 deployers, 3 deployments; 2 layouts, a history of 2 and 4
  saves, so that a version is dropped; rate 1, burst 3, 7 time steps, so that the bucket
  fills, empties and is forgotten.
- Algorithms. All graphs of 4 nodes with weights 0, 1, 2 and all kinds of terminal sets
  (ties and zeros included), and graphs with two edges between the same nodes, the first
  lighter, equal or heavier; rasters of 3 x 3 with any cells
  blocked, with and without a road and a ridge, limits of 40 and 90 degrees; lines of up
  to 3 legs, some longer than a span, bends on both sides of the threshold for a tower;
  5 distinct places of 3 x 3, or up to 3 that coincide.
- Frontend. Two tabs race for the head; with three writes one tab starts a second while
  the first waits for its retry. Three requests and two projects let an answer of the
  old project come after one of the new.

### Fairness

- `JobService`: calls in progress, workers and timers are weakly fair: goroutines are
  scheduled, `Execute` returns because its HTTP client has a timeout
  (`executor/compute_executor.go:123`), timers fire. Callers need not call, nobody has to
  retry, cancel, stop or crash. `JobsSettle` is stated without RetryJob: after a retry a
  stale timer can write back an older attempt counter, and the code then gives no bound.
- `DrawingRevision`: a call in progress continues (a statement that waits is enabled when
  the row or a connection is free), a context ends after its deadline (cad-core gives
  15 s, the monolith 30 s), a repair resolves what it repaired. In `drawing_audits` there
  are no deadlines, so that `CallsReturn` is not due to them, but a `lock_timeout`, which the
  repository does not set and a deployment has to. No audit is fair: the loop takes
  the 250 drawings updated last and ends at the first that fails (`integrity.go:87`, `:103`),
  so a drawing left alone may keep a false alarm for ever. `FalseAlarmsClear` has the
  audits of the drawing as a condition.
- `CadWorkspace`: a write on its way continues: a request is answered or fails (`fetch`
  rejects when the connection is lost), the delay before a retry ends. Nobody has to write
  or reload.
- `WorkflowSync`: a request is answered or fails, and the timer fires. Nobody has to
  change the project.
- The services have none: their properties are about safety, and where the code leaves a
  row behind for ever the properties say exactly when.

### What disagrees with the documentation

`PROJECT.json`, `findings`, quotes the sentence each of the six violations contradicts.

1. SubmitJob is not idempotent under concurrency: lookup, creation and saving of the key
   are three statements (`service.go:93`).
2. The replay of a duplicate command looks the revision up in the aborted transaction, so
   the retry fails (`repository.go:454`). By way of cad-core this takes a command whose effect
   a revert has taken out; others are refused before they reach the store.
3. Repair orders revisions by `committed_at`, taken before the row is locked
   (`repository.go:323`), and can move the head behind a committed revision
   (`integrity.go:288`).
4. The refresh after a conflict asks for the revision the tab shows, and gets it
   (`cad.ts:671`): the retry uses the base that was just refused.
5. The paths of the closure tree are united without a second spanning tree
   (`graph.rs:114`): the Steiner result may have a cycle.
6. The angle of a 45 degree bend is computed as 45.00000000000001 (`pathfinding.go:90`):
   with the default limits of 66 kV and above every bend is refused, and the second
   attempt lays cable where an overhead line could have gone round.

### Also seen while modelling

- Job engine. A submission refused by the full channel leaves its row and key, and the
  retry is answered with a job nothing will run (`service.go:130`). A late cancel
  overwrites SUCCEEDED (`:182`). Cancel and retry while the id is in the channel run the job
  again after it succeeded (`:237`), and so does a commit whose answer is lost (`postgres.go:118`).
- Drawing. The conflict trail is written on a second connection while the call itself holds
  the row its foreign key needs (`repository.go:417`); it waits for a timeout and the event
  is lost. The audit can report drift where there is none; a later one resolves it, if the audit comes to the drawing again.
- Project. CreateSite looks for coordinates of the project and writes them with the whole row
  later (`connect_handlers.go:300`): those set in between are lost; other updates that load a
  project write all fields of it back too. The zones of an import get new ids
  (`repository.go:324`), so that ON CONFLICT never applies and a repeated import stores them
  again; their count is written after them (`:356`), and when it fails the import answers an
  error though its zones are stored.
- Planning workflow. The repository names none of its columns (`repository.go:74`, `:147`): the
  workflow of a loaded project is nil. RollbackPhase accepts any legal transition, forward ones
  without hand-off; a hand-off after a rollback has the key of the first.
- Checklist. The standard items are stored without notes, and the scan of an item refuses NULL
  (`repository.go:220`): they can be neither read nor updated until something fills the notes
  in. FAIL counts as resolved.
- Review. Overlapping decisions lose events of the stream that `governance.go:97` calls the
  single source of truth; `approved_by` keeps the name of an overwritten approval.
- Registry. Nothing creates the `ml_feature_schemas` row a version's foreign key needs, so
  a training whose schema nobody inserted fails after its metrics have named the version.
  Overlapping deployments can leave two champions.
- Scenario store. Any error of reading at start is taken for an empty store, and the next
  save overwrites the file.
- CAD. A refresh frees the tab while its write waits for the retry. A materialization
  overwrites what was committed since the revision shown.
- Workflow store. A late answer of a project left is shown until the next poll, and stays
  when no project is active; a bind that ends after polling was switched off sets the timer.
- Towers. The towers of bends split spans whose clearance was checked as a whole.
- Steiner tree. The expansion of a path takes the first edge between two nodes
  (`graph.rs:131`), the search took the lightest. With parallel edges, the heavier first, the
  result can cost more than twice the least.
- Ordering. 2-opt shortens the closed tour, the way back included, though the answer is an
  open list.

## Proofs

All theorems hold for every value of the constants, under the named assumptions of the
modules (types of the parameters, markers outside their sets, finitely many commands),
which every run that uses a module evaluates. Four say more. `LimiterAssumption` has
`Burst <= Rate * Forget`, a forgotten bucket would be full; the services pass bursts of
twice the rate and forget after three minutes. `TowerAssumption` has lines of at least
one leg and a positive span: for a single point `placeTowers` returns at once, and spans
that are not positive are replaced by the defaults of the voltage class (`cost.go:65`).
`CorridorAssumption` has farm and grid on the raster, to which the code clamps them
(`pathfinding.go:53`), and a positive limit on bends, by the same defaults.
`GraphAssumption` has what `Graph::new` and `approximate_steiner_tree` do not answer with an
error: at least one node, ends of edges that are nodes, weights not below zero, at least two
distinct terminals, all of them nodes. Weights are integers where the code has `f64`.

| Theorem | States |
|---|---|
| `TypeCorrect` | `TypeOK` of the job engine |
| `JobsNotForgotten` | `NoJobForgotten` |
| `JobsSingleActivation` | `SingleActivation` |
| `JobsSettledAreOver` | until RetryJob is accepted, a job that was given up, or that succeeded while no store call failed, has no activation left |
| `JobsCancelSticks` | `CancelSticks` |
| `JobsRefineIntake` | `RefinesIntake` |
| `JobsDeadLetteredOnce` | `DeadLetteredOnce` |
| `JobsLedgerAgrees` | `LedgerAgrees` |
| `JobsAttemptsWithinLimit` | `AttemptsWithinLimit` |
| `DrawingTypeCorrect`, `DrawingRowAgrees`, `DrawingAttemptsAgree` | `TypeOK`, `RowAgrees` (with every kind of repair), `AttemptsAgree` |
| `DrawingArchivedIsClosed` | `ArchivedIsClosed` |
| `DrawingHistoryLinear`, `DrawingRefinesLinear` | `HistoryLinear`, `RefinesLinear`, if heads are not rebuilt from times |
| `ProjectTypeCorrect`, `ProjectHasOneSite` | types, `OneSite` |
| `ChecklistStatusEarned` | `StatusIsEarned` |
| `DemAccounted` | `DownloadsAccounted` |
| `QueueTypeCorrect`, `QueueAlwaysSound` | `QueueTypeOK`, `QueueIsSound` |
| `LimiterTypeCorrect`, `LimiterKeepsRate` | the bucket stays between zero and the burst; `RateIsKept` |
| `GovernanceTypeCorrect`, `EventsAlwaysTell`, `DecisionsAlwaysStand` | types, `EventsTellStatus`, `DecisionsStand` |
| `RegistryTrainings`, `RegistryDeployments` | `TrainingsAccounted`, `DeploymentsAgree` |
| `ScenarioTypeCorrect`, `ScenarioSavesKept` | types with the limit of the history, `SavesAreKept` |
| `CadTypeCorrect`, `CadStoredOnce`, `CadTabsRest`, `CadLosesOnlyUnseen` | types, `StoredOnce`, `TabsComeToRest`, `LostOnlyUnseen` |
| `CadCommandsAreLinear` | without materializations, client and services implement `LinearHistory` |
| `SyncIsPolled` | `ProjectIsPolled` |
| `OrderedRoutes` | `RoutesAreOrdered` |
| `TowersHold` | `SpansHold` |
| `FoundRoutesAreSound` | `RouteIsSound` |
| `ShortestPaths` | what Dijkstra answers is a path of least cost, and it answers whenever there is a path |
| `MinimalTrees` | what Kruskal answers joins all nodes at least cost, it answers whenever that is possible, and `is_connected` agrees |
| `PathsAndTrees` | `PathsAndTreesAreCheapest` |
| `SteinerTrees` | the Steiner result is a set of edges of the graph that joins the terminals, with nothing left to prune |
| `SteinerWithinTwice` | it costs at most twice as much as any set of edges that joins the terminals, if the first of parallel edges is the lightest |
| `SteinerGood` | `SteinerIsGood` |
| `ServicesRunAlone` | the specification of the run `services` implies that of each service |
| `ServicesTypeCorrect` | `ServicesTypeOK` |
| `ServicesKeepPromises` | every invariant and action property of the run `services` |

**Job engine.** `TypeOK` is inductive only with `Held`: a goroutine has a job exactly at
the steps that use one. From these, `NoJobForgotten` is inductive: a step that ends the
activation of a pending job either hands it to the next holder, settles the row, or puts
it in `lost`. `SingleActivation` needs `Fresh` as well (nobody holds an id that is not in
use yet), or a new job could be born with an activation. That a settled job is over follows
the one activation: while it lasts, before RetryJob, the row is not FAILED, and SUCCEEDED only
if a store call has failed (the commit whose answer was lost).
That a cancel sticks is an action property, by cases over the actions under `TypeOK` and
`Held`. The refinement of `KeyedIntake` needs `Held` and `Fresh` too: rows are overwritten
only by those who hold them, so no overwriting creates or removes a job. For the dead
letter, the worker that gives a job up is its only activation and has no letter yet
(`NoLetterYet`); the ledger needs what a worker's copy of the row says of the attempt it is
in (`LedgerIsTrue`).

That the attempts stay within the limit is not a matter of one activation: after RetryJob
two workers and a stale timer can hold copies of one row with different counters, and
write them back in any order. The proof counts tickets. A ticket of a job is an
activation that may still start it: a call about to hand it over, a place in the channel, a
worker before the start or with attempts left, a timer. Every step passes tickets on or
drops them, and only an accepted RetryJob issues one, so there are never more than the
first submission and the retries (`ClientTickets`, `WorkerTickets`, `TimerBudget`).
`BudgetKept` says of the row and of each copy that may be written back over it
(`CopySources`): it is below the limit, or what it exceeds the limit by and the tickets that
are left make no more than the accepted retries. A start beyond the limit uses up its
ticket (`StartBudget`), since a worker without attempts left holds none.

**Drawing.** The inductive invariant is
`IInv == TypeOK /\ LockHeld /\ RowAgrees /\ Times /\ Attempts /\ AttemptsAgree`.
`LockHeld`: who decides about the row or writes holds it. `Times`: the times of revisions
are distinct, not in the future, and no call that has yet to commit has the time of a
revision; without it neither the latest revision of a repair nor the revision of an attempt
is determined. `Attempts`: what an attempt says fits the step of its call, and calls that
commit no more say so. `DrawingSteps` shows that only Commit, CommitUnheard and Repair
change history, row or index, and only UpdateDrawing the archive flag; it takes most
actions out of the proofs. The latest revision by time exists by the least-number
principle of the library (`LeastNat`).

For linearity and refinement two facts are added. `Accepted`: from the verdict to the
commit the row stays as the verdict saw it, so the base is the head, the command is new
and the drawing is open; `ArchivedIsClosed` is an immediate consequence. `Carries`: what a
call carries is a snapshot of the history, for a command with the command applied. With
`HistoryLinear`, the version a caller has read is the number of the revision it started
from, so an accepted command extends the last snapshot: the commit is `Commit(k)` of
`LinearHistory`, a revert its `Revert(i)`, and all other steps stutter. The assumption
`HeadsKept` (no repair in mode head-and-index) is needed: `drawing_repair_head` is the
counterexample without it.

**Project.** `OneSite` is inductive with `LockGuardsSites`: who deletes or inserts a site holds
the lock of the project row, or has found no project and will insert nothing. So what the
holder has deleted is to its end all there is, and its own site is the only one after the
commit. Zones need no lock: the foreign key refuses those of a site that is gone.

**Services.** `ChecklistInv` adds to the types that a call about to write a status has left
its record behind (`StepsHaveRecords`) and that whatever is resolved now, or was seen so,
was resolved at some time (`ResolvedSeen`). The queue and the downloads follow each entry or
job to who has it. For the rate limiter the invariant bounds, for every window that ends
now, the grants in it together with the tokens left; refill, refusal and removal keep the
sum. For the review of routes `RowTells` holds of the row and of every copy a reviewer has
read. `RegistryInv` says what each step of a training or deployment has left behind; as
soon as deployments overlap or fail, `disturbed` ends the promise about champions. For the
scenario store, memory and file are compared through the saver's step; that the history is
bounded (`ScenarioTypeOK`) follows from the same invariant.

**Frontend.** `Uncommitted` and `Stored`: a write that may be sent again is not in the
history, one that will not be is or is given up; `RetriesLeft` and the flags of the tab
follow the step of its latest write. For the workflow store `SentIsOnItsWay`: an active project without a timer has the
request on its way whose answer will set it. For the refinement of `LinearHistory`: a
command is accepted only on the head, and `Uncommitted` says it is not in the history yet.

**Searches.** Induction over data is done by hand here: a set of indices that has the first
and with each its successor has them all (`EveryOne`, from the least-number principle).
With it the recursive functions of the models exist and have the values their equations
say (`SumsExist`, `JoinsExist`, `BacksExist`).

*Ordering.* The invariant says that the order is injective on the routes. When the pass is
over without an exchange, every pair has been looked at and found not to shorten the tour.
What the code compares are four distances; what `RoutesAreOrdered` speaks of is the length
of the whole tour. `TurnedLength` closes the gap: the length is a sum, a reversal leaves
the distances outside it as they are, and inside it reverses them (distances are
symmetric, `ApartIsDistance`), so the sums differ by the four distances only.

*Towers.* `LinePlaced` says of the towers placed so far that neighbours are within reach,
with clearance, or were placed for want of a better point, and that what was seen with
clearance starts at a tower. `DividedLine`: the corners of the bends are points of the
divided line, so each gets its tower. `PartOfSpan`: a span that such a tower splits has
parts no longer than itself, because distances along the line grow.

*Corridor.* `WaysAreSteps`: the cost of a cell is that of the cell it was reached from and
the step between them, with the bend as it was taken; since a closed cell is not reached
again, later improvements of its neighbours do not change that. `NothingForgotten`: each
reached cell is closed or on the heap, and in the last attempt, which may take any step, the
neighbours of closed cells are all reached. As the raster is connected
(`RasterConnected`), the last attempt cannot end without the goal. Walking back, costs fall
with each step (`StepCosts`), so no cell comes twice, and by the pigeonhole principle the
walk has come to the farm after as many steps as there are cells (`TrailEnds`).

**Graphs.** Costs are sums over sets of edges, so the proofs begin with those sums
(`TotalOfUnion` and the lemmas before it). Every loop of the source is a recursive function
over rounds; an invariant of the rounds is shown by the least-number principle, and a
measure shows that the number of rounds given is enough.

*Shortest paths.* `Searched`: no relaxed node is dearer than what the heap holds, its
neighbours are reached for no more than its distance and the edge, and each entry of the heap
costs at least the distance of its node. `Trailed`: each reached node has a trail of relaxed
nodes at just that cost, so no trail is longer than there are nodes. `Fueled`: the entries on the
heap and those that may still come fit the rounds left.

*Spanning trees.* `Spanned`: the edges kept join what the edges looked at join. `Cheap`:
some cheapest spanning set contains all kept ones. The step is the exchange: an edge that
closes no cycle replaces one of that set on the way between its ends (`ExchangeJoins`), and
what it replaces comes no earlier in the order, so it is no lighter.

*Steiner tree.* That the terminals stay joined is `PruneConnects`: a leaf that is not a
terminal lies on no path between two others. The factor of two is the classical argument,
each part a lemma. Take any set of edges that joins the terminals. The nodes it joins to
a terminal have a round tour that costs at most twice as much (`TourOfEdges`): it grows edge
by edge, the new node is visited right after its neighbour, and the way there and back
is all it adds (`TourAlongMore`). Nodes that are not terminals are left out again, and
no tour becomes longer, by the triangle inequality (`TourOfSome`, `DistByWayOf`). What is
left are edges of the closure that join all terminals (`ClosureOfTour`), and the closure's
spanning tree costs no more than they do (`SpanIsCheapest`). The expansion of its edges costs
no more than the tree (`SteinerCost`), because the edge found for each step of a path is the
one the search took; that is where parallel edges need their order. Pruning only takes
away.

**All services.** `ServicesSpec`, which the run `services` checks, picks one service per
behaviour. A step of it is a step or a stutter of every service, so a behaviour of it is one
of each service's own specification (`ServicesRunAlone`), and `ServicesTypeCorrect` and
`ServicesKeepPromises` carry the theorems over to the very formulas of the run. What a
service promises is proved of its own specification, which has every starting state.

**Only model-checked.** Liveness (`JobsSettle`, `CallsReturn`, `FalseAlarmsClear`,
`WritesEnd`, `ViewCatchesUp`), since the prover has neither fairness nor ENABLED. All
invariants and action properties of the passing runs are proved. The six properties that
are violated are statements of the documentation, listed above.

## Plan

Done: the job engine and its callers' view of it; drawings, their abstract history and the
CAD workspace above them; the project with its site and zones; checklist, offline
queue, downloads, review of routes, registry, scenario store, rate limiter; graph
algorithms, corridor search, towers, ordering; the workflow store.

What remains, in this order: the planning workflow, once the repository stores it; several
instances of the job engine on one database; the cost grid of the corridor search with weights below 1, where the heuristic is
not admissible; the refinement of the route before towers are placed.

## Not modelled

- Numeric calculation (layout, electrical, simulation, structural, protection, the Rust
  kernels other than the graph algorithms): floating point, without state.
- Terrain analysis, weather, report, asset, twin and gateway code: I/O, formatting, or
  CRUD of independent rows. Most of the code of the repository is of these two kinds or
  generated from protocol definitions and SQL, which is why the models cover a small
  share of its lines.
- The planning workflow of project-service: its store does not keep its state (see ProjectStore).
- Leftover packages and `production_hardening.go`: reached by nothing that runs.
- Of the modelled components: geometry validation and kinds of mutations of drawing
  commands (abstracted to the entities they add); fingerprints and scores of routes; pole
  heights and the shift of all towers to one side (`service.go:813` of
  transmission-routing-service); evaluation runs, feedback and audit events of the
  registry; the path search of routing-service (the corridor search without limits on
  bends); as-built records of the checklist.
- A deployment with several instances of the job engine: every instance has a channel of
  its own and takes nothing from the table.
