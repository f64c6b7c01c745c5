# Verification of t-helper

TLA+ models of the parts of t-helper whose correctness depends on the order in
which processes, goroutines and SQL statements happen, TLC configurations that
check them on small instances, and TLAPS proofs of what must hold on every
instance. Paths are relative to the repository root.

## 1. The system

t-helper is one HTTP server process (`cmd/thelper`), any number of worker
processes (`cmd/thelper-worker`) and a control tool (`cmd/thelper-ctl`). They
share no memory; they share two databases (configuration and operational data,
SQLite or PostgreSQL), a directory of lock files and the directory tree of
repositories.

    server --enqueue--> jobs, project_scans   <--claim/complete-- worker slots
       |                workflow_statuses     <--refresh---------- job store
       +--read, reconcile--------^            <--afterComplete---- scanner hook

| Component | Source | State it keeps | Operations | What is hard |
|---|---|---|---|---|
| Job store | `internal/jobs/store.go` | tables `jobs`, `job_locks`, `job_events` | Enqueue, EnqueueIfNoActive, EnqueueRepositoryOperation, ClaimNext, Start, Heartbeat, AcquireLock, ExtendLocks, ExpireLocks, Complete, Requeue | every caller may act on an old copy of the row; leases and locks expire by separate clock values; Heartbeat is two statements |
| Job runtime | `internal/jobs/runtime.go`, `internal/app/worker/app.go` | one goroutine per slot, its heartbeat goroutine, the maintenance loop | RunOnce, heartbeatLoop, RecoverExpiredLeases, Run | crash between any two statements, late workers, recovery racing a heartbeat, all slots of a process share one `worker_id` |
| Workflow status | `internal/jobs/status.go` | table `workflow_statuses` | RefreshWorkflowStatus, ReconcileWorkflowStatuses, CleanupRetention | the aggregate is read and then written without a transaction; errors of a refresh are dropped |
| Scanner | `internal/scanner/*.go` | `root_paths`, `projects`, `project_scans`, findings, a pool of directory goroutines | the global_scan, project_discovery, project_scan and security_validation_scan handlers, CreateProjectScanWithJob, JobCompletionHook | a retry repeats what was half done; a job that fails without the hook; pool termination |
| Repository manager | `internal/repository/*.go`, `internal/httpapi/repository.go` | `repositories`, `repository_operation_reservations`, clone directories | ReserveOperationKeys, ReleaseOperationReservations, UpsertRepositoryForClone, clone, pull and sync requests and handlers | a dozen statements between the first check of a request and its job; a reservation's TTL against a queued clone; a clone that fails half way; discovery writing the same cards |
| Instance locks | `internal/runtime/lock.go`, `internal/app/worker/lock.go` | lock files | AcquireLock, Release | check-then-act on files; a crash between create and write |
| Configuration store | `internal/config/store.go` | configuration entries, ignore rules, storage profiles | Import, Reload, MigrateDB | two databases, no common transaction; the profile that says which one is in charge is itself copied |
| Module registry | `internal/modules/registry.go` | `module_states` | Seed, Restart, Reload | every process writes the same rows, last writer wins; a lifecycle fails in an intermediate state |
| HTTP API, storage providers, toolchain installer, log, web | rest of `internal/`, `web/` | - | decoding, routing, I/O | not modelled: no concurrent state of their own |

What makes each component correct:

* **Job store and runtime.** One worker at a time owns a job; a worker that lost
  its lease cannot settle it; `max_attempts` bounds the claims; a queued job can
  be claimed; every job ends; a business resource has one lock holder, and jobs
  that name it do not overlap.
* **Workflow status.** When all jobs of a workflow have ended, its status says
  so; a finished project scan is not reopened; a scan whose jobs have all ended
  does not stay active.
* **Scanner.** A walk reaches every directory or says which it did not; no project
  that is there is marked missing; the pool of workers drains. A directory has one
  generic card; projects of one repository are linked.
* **Repository manager.** Two accepted clones are never for one directory or one
  repository; the card says what the clone does; one git writer per directory;
  a refused request leaves nothing reserved; a directory that has been cloned is not
  touched again.
* **Instance locks.** At most one live process holds a lock; a crash leaves
  a lock that can be taken over.
* **Configuration store.** At every moment one database is in charge and it holds
  everything that was written to the one before; the storage keys describe it.
* **Module registry and root paths.** No module is left half restarted by a process
  that runs on; what a request has written is not taken over or switched off;
  the roots that are enabled become those of the last configuration.

## 2. Modules

| Module | Models |
|---|---|
| `JobLifecycle` | abstract promise for a row of `jobs`: Submit, Take, PutBack, End |
| `JobQueue` | job store and runtime |
| `JobQueueProps` | their properties, and the refinement of `JobLifecycle` |
| `JobQueueProofs` | their theorems |
| `MCJobQueue` + `JobQueue*.cfg` | instances |
| `ProcessLock` | lock files of server and worker, with their properties |
| `ProcessLockProofs` | mutual exclusion, proved |
| `MCProcessLock` + `ProcessLock*.cfg` | instances |
| `ScanWorkflow` | one project scan: jobs, aggregate, scan row, hook, API reads |
| `ScanWorkflowProps` | its properties, and the refinement of `JobLifecycle` |
| `ScanWorkflowProofs` | their theorems |
| `MCScanWorkflow` + `ScanWorkflow*.cfg` | instances |
| `ScanPool` | the global scan: pool of workers, project rows, with its properties |
| `ScanPoolProofs` | its theorems |
| `MCScanPool` + `ScanPool.cfg` | an instance |
| `CloneRequests` | clone, pull and sync from the request to the end of the job |
| `CloneRequestsProps`, `CloneRequestsProofs` | its properties, its theorems |
| `MCCloneRequests` + `CloneRequests.cfg` | an instance |
| `ProjectDiscovery` | the discovery job: cards, assignments, links; with its properties |
| `ProjectDiscoveryProofs` | its theorems |
| `MCProjectDiscovery` + `ProjectDiscovery*.cfg` | instances |
| `StorageMigration` | storage profiles, staging, `-migrate-db`, the server that follows; with its properties |
| `StorageMigrationProofs` | its theorems |
| `MCStorageMigration` + `StorageMigration*.cfg` | instances |
| `RuntimeConfig` | modules, root paths and ignore rules under imports, reloads and requests; with its properties |
| `RuntimeConfigProofs` | its theorems |
| `MCRuntimeConfig` + `RuntimeConfig*.cfg` | instances |

`JobLifecycle` is the abstract specification: `JobQueue`, `ScanWorkflow` and
`CloneRequests` are proved to implement it. `ScanWorkflow` does not repeat leases
and locks: that a guarded write of a slot goes through only while its claim is
the job's latest is what `JobQueueProofs` shows of them (`StaleSlotsFenced`).
`CloneRequests` uses the same fact, and that a job whose handler runs is not in
the queue; one handler at a time for a job is what `HandlersNeverOverlap` shows. `ProjectDiscovery` assumes of a clone what `CloneRequests` shows: two
clones are never for one directory (its `Apart` is `ClonesKeepApart`).

### JobQueue

State: the columns of `jobs` that decide anything (`status`, `leased_by`,
`lease_expires_at`, `attempt_count`, `run_after`), the held rows of
`job_locks`, for each slot the place where `RunOnce` stands with its copy of the
job, and for each process its run state and the rows its recovery pass has read.

| Action | Code |
|---|---|
| `Enqueue` | `Store.Enqueue` of a new row |
| `Claim` | `Store.ClaimNext`, one UPDATE |
| `UnknownType` | no handler: `Complete(failed)` |
| `ExpireLocks`, `InsertLock` | the two statements of `AcquireLock` |
| `Start`, `Handle` | `Store.Start`; event, then handler and heartbeat goroutine |
| `StoreError`, `RuntimeRequeue` | an error of these, then `runtimeRequeue` |
| `HandlerReturns`, `Finish` | the handler's outcome and the final write |
| `Abandon` | the last write fails: the row stays `running` |
| `BeatJob`, `BeatLocks`, `BeatFails` | the two statements of `Heartbeat` |
| `ReadExpired`, `Recover`, `RecoverError` | `RecoverExpiredLeases`: the SELECT, one row, a storage error |
| `Shutdown`, `Exit` | cancelled context; end of a process, killed or not |
| `Tick` | the clock |

Abstractions. A timestamp column is the number of ticks left until it is
reached. `stamp` stands for the value of `lease_expires_at` where the code
compares it for equality. A statement reads the clock when it runs, except
where the code computes a value before another statement (`due`). The LIMIT and
ORDER BY of the queries, priorities, events, payloads and results are left out:
a claim may take any eligible row, which covers every order. Statements are
atomic, as both databases execute them; `Complete` and `Requeue` are
transactions. A slot that was not yet finished when its context is cancelled
may still complete, as in the code, which uses a fresh context for the final
write.

### ProcessLock

State: what the path names (nothing, or the file a process has created, with or
without metadata), where each process stands in `AcquireLock`, and the pid it
has read. One action is one system call on the path. `overtaken` is a history
variable: some start has removed another file than the one it had read.

| Action | Code |
|---|---|
| `Begin` | the process starts (`acquireProcessLimitLock`, `App.Run`) |
| `Create` | `OpenFile` with `O_CREATE\|O_EXCL` |
| `Write`, `WriteFails` | encoding the metadata; its error path removes the path |
| `Read`, `Check`, `Remove` | `readLock`; `processLive`, health probe; `os.Remove`, next round |
| `Release`, `Crash` | `RuntimeLock.Release`; death at any point |

A process is its pid: a pid that the system gives to another process later is
not modelled. `Sees[p]` is the set of processes whose pid means the same to `p`,
which differs from the set of all in containers that share a directory. The
health probe only selects the text of the error and is not a state.

### ScanWorkflow

State: `status`, `attempt` and latest claimant of the parent and child jobs;
`workflow_statuses.aggregate_status` (`wf`); `project_scans.status` (`scan`);
for each actor - a worker slot, the maintenance loop, an API request - the place
it has reached, its job, and the aggregate it carries from a read to a write.

| Action | Code |
|---|---|
| `CreateScan` | `CreateProjectScanWithJob`: job and scan in one transaction, then a refresh |
| `ReadCounts`, `Upsert` | the two statements of `RefreshWorkflowStatus` |
| `RefreshFails` | its error, dropped by the stores, returned to a request |
| `ReadWorkflow`, `SaveScan`, `ApplyFails` | `ApplyWorkflowAggregateToProjectScan`: read the aggregate, then write it to the scan |
| `GetScan`, `Reconcile` | GET of a scan; list of workflows, start of a process |
| `Claim`, `Start`, `NotStarted` | `ClaimNext`, `Store.Start`, lock contention or an error before the handler |
| `MarkRunning`, `EnqueueChild`, `Emit`, `HandlerEnds` | the two handlers |
| `Finish` | final write of `RunOnce`, refresh, `runAfterComplete` |
| `RuntimeRequeue`, `Abandon`, `Crash` | `runtimeRequeue`; a final write that matches no row or fails; death, or a shutdown that leaves the row |
| `Recover` | `recoverToQueued`, `forceFail` with their refresh |

Every write of a job is followed by a refresh in the same goroutine, so that a
refresh is a pair of places (`refresh`, `upsert`) with the place to go on at in
`next`. The tools the handlers run, the findings and the result payload are
left out. `Children` are the rows the security jobs will get. A request does
one thing at a time and there is no bound on how often it does it.

### ScanPool

State: where `Handle` stands with its roots; the variables under `mu` (`queue`,
`active`, `seen`, `erroredSubtrees`, `processed`); each worker's place, directory
and the children it has found; the status of the `projects` rows and the
projects that have a discovery job.

| Action | Code |
|---|---|
| `ScanRoot`, `RootUnusable` | `IgnoreRulesForRoot`, `Lstat` of the root, start of the pool |
| `Take`, `Sleep`, `Leave` | the section under `mu` at the top of the worker's loop |
| `CheckContext`, `GiveUp` | `ctx.Err()` at the top of `scanDirectory` |
| `ListChildren`, `ListProject`, `ListFails` | `ReadDir` and what its entries decide |
| `UpsertProject`, `UpsertFails` | the project's row and `seen` |
| `EnqueueProjectDiscovery`, `EnqueueFails` | the discovery job |
| `Return` | the section under `mu` after `scanDirectory`, with the broadcast |
| `Join`, `SelectMissing`, `MarkMissing` | `workers.Wait`, the two halves of `MarkMissingProjects` |
| `StoreFails`, `Finish` | the errors and the result of `Handle` |
| `Cancel`, `RunAgain` | shutdown or lost lease; the next attempt, also after a crash |

A failed call may have had its effect (the row is written and cannot be read
back; the job is inserted and its event is not). Sections under `mu` that only
record the outcome of a call belong to the step of that call: no other worker
reads what they write before the pool is joined. `OnDisk` minus `Steady` comes
and goes: a listing may have it or not. The queue, a stack in the code, is a
set, so what holds here holds for every order. The handler visits the roots in
any order. `Inside` is the path prefix relation; counters of the result other
than "was there an error" are left out, and so is the configuration sync that
precedes the loop.

### CloneRequests

State: the managed and generic card of a repository (its local path, active or
not), the reservations (owner and whether the TTL has passed), each request's place, the
keys it holds, the card and the job it has found; each job's status, kind,
attempt and the place of its handler; what is in the directories.

| Action | Code |
|---|---|
| `Reject`, `Preview`, `Replay` | validation, the root preview, the idempotent replay of a clone |
| `ExpireKeys`, `ReserveKey`, `Refresh`, `ReleaseKey`, `Released` | `ReserveOperationKeys` one statement at a time, and the deferred release |
| `CreateRoot`, `SwapKey` | `createCloneRoot`; the path key is reserved again under its final name |
| `FindExisting`, `CheckBusy`, `CheckClones`, `CheckAssigned` | the reads between reservation and write, in this order |
| `FindCards`, `UpsertCard` | `UpsertRepositoryForClone`: reads, then the transaction |
| `NamePull`, `Enqueue`, `GiveEarlier`, `ReplayPayload` | pull and sync; `EnqueueRepositoryOperation` with its two unique indexes and what the loser is answered |
| `RequestFails`, `Vanish` | a storage error with its answer; the server dies |
| `Claim`, `BeginClone`, `BeginPull`, `Inspect` | the handler: its own reservation, the card it reads, the directory |
| `GitClone`, `GitCloneFails`, `GitPull`, `GitPullFails`, `Touch` | git, and the card's timestamps |
| `Settle`, `Die`, `Recover`, `ReleaseFails` | end, death, recovery of a job; a release that fails |
| `Lapse` | a reservation's TTL passes |

Validation of providers and credentials is a refusal that may happen.
`last_error` and `last_pull_at` are left out, and pull and sync are one kind. A
request is assumed to be answered within the five minutes of its own reservation;
a queued job may wait for ever.

### ProjectDiscovery

State: the cards with their directory, kind and status; the card of each project;
the links; for each project its discovery job, the place of its handler, the card
it has read, and the projects it still has to link; the clones that go on beside it.

| Action | Code |
|---|---|
| `Enqueue` | `EnqueueIfNoActive` |
| `Begin`, `Skip`, `Start`, `Look` | `projectDiscoveryHandler.Handle`: reads, `findGitRepository` |
| `Find`, `Update`, `Insert`, `FindAgain` | the statements of `UpsertGenericRepository` |
| `SetProject`, `Related`, `Link`, `Complete`, `Fail` | assignment, links, result; a failure at each statement |
| `CheckAssigned`, `FindCards`, `UpsertCard`, `Supersede`, `Clone` | a clone request, statement by statement, on the same cards |
| `Vanish` | the request dies |

One worker executes a discovery job at a time, which is what leases are for
(`JobQueue`).

### StorageMigration

State of each database: its `storage_profiles` (a row with its provider
settings), the database that its storage keys describe, its other rows, and the
`thelper-ctl` whose transaction holds it. A database is its fingerprint. Then
where `thelper-ctl` stands with what it has read, the `-storage-dsn` processes
are started with, the database the server runs on, and, as history, the rows that
must not be lost.

| Action | Code |
|---|---|
| `Open`, `ReadForImport`, `Import` | `App.Reconfigure`, `Store.Import` (one transaction) |
| `ReadCurrent`, `ReadStaged` | the reads of `MigrateDB` |
| `BeginCopy`, `CopyGroup`, `CopySettings`, `CopyRepositories`, `CopyProjects`, `CommitCopy` | `copyMigratedData` in the target |
| `Promote`, `Fail`, `Die` | `promoteMigrationProfile` in the source; `markMigrationFailed`; death |
| `StartServer`, `StopServer`, `Write` | `App.Run` with `resolveCurrentProfileHandle`; any store |
| `ChangeDsn` | the operator |

Writes wait while a transaction holds the database. The historical row that a target
gets is left out: nobody reads it.

### RuntimeConfig

State: what the entries say of modules and roots; `module_states`, `root_paths`
and the system's `ignore_rules`; for each process, command or request the place
it has reached with what it has read.

| Action | Code |
|---|---|
| `Import` | `Store.Import`: entries and ignore rules in one transaction |
| `SeedFromConfig`, `Reload`, `SeedOne` | start of a process, `-reload`, POST `/api/modules/reload`; one statement of `Seed` |
| `Operate`, `Get`, `Mark`, `Act` | Restart and Reload of a module |
| `SyncRead`, `SyncNext`, `SelectRemoved`, `Disable` | `SyncRootPathsFromConfig`, `deactivateRemovedConfigRootPaths` |
| `Put` | PUT `/api/root-paths`, and the root that a clone request adds |
| `GetRootPath`, `FindRootPath`, `UpdateRoot`, `InsertRoot`, `FindAgain` | the statements of `upsertRootPath`, for both |
| `PutRule`, `WriteRule` | PUT `/api/ignore-rules` |
| `Interrupt` | a storage error, a cancelled request, a death |

`root_paths` is kept by id, as in the table. A PUT may name an id, and the
`UPDATE` by id writes the path: it can move any row, one of the configuration
included, to any path that no other row has. A synchronisation looks its paths up
by path, but updates and disables by the ids it has found. `owned` is a history
variable: what a synchronisation may call its own, the rows that have been of
source `config`, or at a path it lists, at some time since it began.

Every lifecycle of this build is a no-op, so the cases of `Faulty`, a module
whose lifecycle fails, are those the registry is written for, not any it meets.
A module's name that no build knows has no effect and is left out. A rule
that a PUT writes has the origin `ui`, its default; its `UPDATE` leaves scope and
pattern alone, so that naming the rule by id is the same as naming its pattern.

## 3. What the runs show

| Run | Instance | Shows |
|---|---|---|
| `jobqueue_live` | 1 job, 2 attempts, 2 processes of which one may die, lease 1, any lateness | `TypeOK`, `QueuedIsClaimable`, `OwnerHasLatestAttempt`, `LiveLeaseKept`, `JobsTerminate` |
| `jobqueue_punctual` | 2 jobs of one key, 2 attempts, lease 2, crashes, nobody a lease late | `HandlersExclusive` |
| `jobqueue_lifecycle` | 2 jobs, one of an unknown type, one without a key | `ImplementsLifecycle` |
| `processlock` | 4 processes, starts overlap in any way, killed anywhere or ending | `TypeOK`, `AtMostOneHolder`, `HolderIsDiscoverable`, `StaleLockReplaced` |
| `scanworkflow_safety` | 2 slots (one may die), 2 attempts, 1 child, maintenance loop, request, failing refreshes and writes | `TypeOK`, `FinishedTruthfully`, `EndIsFinal`, `ImplementsLifecycle` |
| `scanworkflow_live` | 1 slot, 2 attempts, 1 child, lost refreshes and hooks, recovery of running jobs | `ReadsConverge` |
| `scanpool` | 2 roots, 8 paths, 2 workers, 2 attempts, any call failing, cancelled at any time | `TypeOK`, `RegistryMatchesDisk`, `NobodyLeavesEarly`, `ProjectsKept`, `AttemptReturns` |
| `clone_requests` | one directory, 2 repositories, 3 requests at a time, 2 attempts | `TypeOK`, `ClonesKeepApart`, `CardsFollowClones`, `OneWriterPerDirectory`, `AcceptedTruthfully`, `DirectoriesKept`, `NothingLeftReserved` |
| `project_discovery` | 2 projects, 2 directories, 2 runs of 2 attempts each, a clone made twice | `TypeOK`, `SameRepositoryLinked`, `ProjectsStay`, `OneGenericCard` |
| `storage_migration` | 3 databases, 1 `thelper-ctl`, 1 server, unbounded repetition | `TypeOK`, `NothingLost`, `KeysDescribe`, `SwitchIsComplete` |
| `storage_migration_stale_source` | the same, the operator keeps the old `-storage-dsn` | violates `NothingLost` |
| `runtime_config` | 2 processes, 2 modules, 2 paths and ids, 1 pattern, 2 imports, 1 PUT | `TypeOK`, `NobodyLeftBetween`, `RequestsOwnTheirs`, `RootsConverge` |

Bounds of the job queue. Two processes and two slots suffice for every race the code guards
against: an old holder and a new one. Two attempts give a first, a retried and
a last attempt. A lease of one tick is enough where lateness is unrestricted; in
the punctual run it is two, so that a lease can be renewed before its last
tick. `Stable` excludes crashes in the lifecycle run: there a crash adds states
but no new writes, because what a dead slot leaves behind is what an arbitrarily
late slot leaves behind.

Bounds of the lock file. The races need a holder that goes, one who has read its
file, and one who creates the next; four leave one to spare. Stale files are of
every kind because any process may be killed at any call. `AtMostOneHolder` and
`HolderIsDiscoverable` hold up to the moment when a start removes, by name, another
file than the one it had read: they say that this window (`internal/runtime/lock.go:72`)
is the only way to a second holder. That the way is there is what
`ProcessLockTakeover.cfg` shows.

Bounds of the scan. A stale read needs one actor that is slow and others that
overtake it; two slots, the maintenance loop and a request are one of each kind.
Two children show a second attempt enqueuing again; elsewhere one is enough,
since what is examined is the two aggregates. With
`Late = FALSE` a job is recovered only when its slot has left it (it died, or
gave up without a write); with `Late = TRUE` at any time. `EndIsFinal` and
`FinishedTruthfully` are stated for the first: a handler that outlives its last
lease can still enqueue a child after its job has been failed, and the scan is
then active again until the child ends. `ReadsConverge` holds for both.

Bounds of the pool. Two workers are enough for one to sleep or leave while the
other is about to add directories, to broadcast or to fail; the proofs cover any
number. The tree has a directory with several children next to a project, so
that the queue runs empty while a worker is busy and fills again. The registry
it starts from has a missing project to be found, a new one, an active one, two
that are gone and one that is disabled.

Bounds of clones. One directory is where the conflicts are: two clones of
different repositories and a pull of the first; a clone and its retry under one
Idempotency-Key; three pulls with one key, one of them for another card. The
directory is empty, or holds what discovery found there after a clone or without
one. The proofs cover any number of requests, directories and repositories.

Bounds of discovery. A repository at the root with a project in it and one in a
directory below, which may hold a repository of its own, be it a `.git` file or
something unusable; two projects are one link, and each runs twice so that a
second run meets what the first, or a clone, has left.

Bounds of migration. Three databases are needed to see a target that was staged
and given up, and a chain of two switches; of rows there are two, one that
refers to the other, in the groups that the copy writes in this order. Nothing
else is bounded.

Bounds of the configuration. Two imports give an old and a new list to be read
by overlapping processes. One of the two modules is not in this build; the other
may fail. Either path may be listed; the PUT is of either, with any id or none,
or of an ignore rule. With two PUTs there are 2.2 million states and nothing new.
The constraint `OneTable` lets a behaviour work on one of the three tables only:
no statement touches two of them, and a process keeps nothing from one operation
to the next, so a mix adds states and no new order of statements on a table.

Symmetry. The two processes with their slots are interchangeable, and so are two
jobs of the same key, and databases; the runs with liveness use none, nor do
those of the scan.

Fairness. The clock ticks; a free slot of a running process polls
(`workerLoop`); a slot that has a next statement executes it; a handler returns,
with whatever outcome; the maintenance loop comes back (`maintenanceLoop`), and
a recovery attempted again and again eventually succeeds, storage errors being
transient. Nothing is assumed of crashes, shutdowns, errors or heartbeats.
Of the pool: calls to the disk and the store return, and every worker and the
handler go on; nothing is assumed of cancellation and repetition. Of the lock file only that a process that starts goes on. Of a scan: every
goroutine goes on to its next statement (weakly fair), a free slot polls, the
maintenance loop comes back, and somebody asks for the scan again and again -
an assumption about the clients, and a necessary one: without a request a lost
refresh or hook is never made up for (`ScanWorkflowHook.cfg`). Of the
configuration: what is begun goes on, and some process that is not interrupted
keeps synchronising the roots, which every list of roots and every scan does; it
is strongly fair because a process is only now and then between two
operations. A configuration that is imported again at every synchronisation is
excluded by the number of imports. The other modules state safety only.

### Findings

`storage_migration_stale_source` is the one that a run shows:

* **Migration from the database that has handed over.** After a switch every
  process still opens the database of its `-storage-dsn`, reads the current
  profile there and goes on to the database it names. `thelper-ctl` does not:
  `MigrateDB` copies the tables of the database it opened
  (`internal/config/store.go:472`), which nobody has written to since. A second
  migration makes that old copy current, and what the server wrote in between is
  not seen any more. `docs/en/configuration.md:396` says that the command
  migrates "from the `current` profile". `storage_migration` shows that with the
  new DSN given to every process nothing is lost;
  `TestMigrateDBAllowsSecondSQLiteMigrationAfterPromotion` migrates from the
  stale database itself.

Seven configurations are kept beside the runs. Each one's property is violated, and
the trace is the shortest account of a behaviour that the modules' properties
have to be read with (`tlc -config ProcessLockTakeover.cfg MCProcessLock`).

* `JobQueueSharedWorker.cfg`, `QueuedIsClaimable`. All slots of a process write
  the same `leased_by`, and `Requeue` guards on nothing else. A slot whose lease
  has been recovered, and whose job has been claimed again by its neighbour as the
  last attempt, still puts the job back into the queue with no attempt left:
  `ClaimNext` skips it for ever and recovery only looks at running jobs
  (`internal/jobs/runtime.go:303`). `docs/en/adr/0011-worker-defaults.md:27`: "A
  job that exhausts `max_attempts` is marked `failed`."
* `JobQueueLateBeat.cfg`, `LeasedHandlersExclusive`. A lock row lapses on its own.
  Between the lapse of lock and lease and the recovery of the job, another job may
  take the key; the late heartbeat then renews the lease and, finding no held row,
  no lock (`internal/jobs/store.go:480`). Two handlers with live leases run for one
  resource. `docs/en/implementation-specs/stage-03-jobs-workers-status.md:425`:
  "`job_locks` prevent conflicting active operations".
* `ProcessLockTakeover.cfg`, `OneHolder`. Read, test and removal of the
  file are three calls; the file that is removed may be another's new one
  (`internal/runtime/lock.go:72`), and two servers run.
* `ScanWorkflowHook.cfg`, `ScanFollowsJobs`. A job that fails by `runtimeRequeue`
  or `forceFail` does not run the completion hook
  (`internal/jobs/runtime.go:301`); its scan keeps its status in the table until
  somebody GETs it. Lists do not.
* `ScanWorkflowOneChild.cfg`, `OneChild`. A repeated parent enqueues its child
  again (`internal/scanner/stage06_handlers.go:90`).
* `ProjectDiscoverySuperseded.cfg`, `SupersededOnly`. Discovery makes the generic
  card of a directory active again on every scan and leaves its
  `superseded_by_repository_id` (`internal/scanner/store.go:567`), which
  `docs/en/data-model.md:194` allows only for a superseded card.
* `RuntimeConfigMovedRoot.cfg`, `OnlyConfigRootsDisabled`. A synchronisation
  selects a root of the configuration that is not listed any more; a PUT by its id
  makes it an API root at another path; the `UPDATE` by id
  (`internal/scanner/store.go:218`) then switches it off.
  `docs/en/data-model.md:55`: a synchronisation owns only rows of source `config`.

### What else the models show

No run is spent on these; they are what the statements and the assumptions of
the modules have to leave room for.

Locks, queue and scans. A process killed between creating its lock file and
writing it leaves a file no later start can decode or replaces;
`StaleLockReplaced` therefore speaks of complete files. The health of a holder is
probed only when its pid is known: with `Sees` not everything, a healthy holder in
another container is replaced. `Aggregate` shows a queued job next to ended ones as
`running`, where
`docs/en/implementation-specs/stage-03-jobs-workers-status.md:354` says `queued`.
A global scan that is cancelled by a shutdown before the first directory was read
reports `global_scan_failed`, which is not retryable: the job ends `failed` with
attempts left, whereas one that is cancelled later is put back into the queue.

Clones. A clone job that ends before its handler reserves keeps the request's
reservations until they lapse; a refused clone may have moved the card; refused
requests that hold their keys for a moment use up attempts of a queued clone.
A clone that is killed half way leaves a directory that is not empty, so that the
next attempt fails for good; a storage error in the handler's first reads is not
retryable either. A repeated request that is identical can be answered
`idempotency_conflict`, and with an Idempotency-Key a clash on the active-operation
index is reported as `validation_error`, not as a conflict. Two roots one inside
the other give one directory two path keys. Two cards of one directory, one of them
made by discovery, allow two git writers, since a pull reserves nothing: the clone
that fails then removes what the pull has completed. `OneWriterPerDirectory` and
`DirectoriesKept` say so.

Discovery. A project whose `.git` has gone keeps its card. `SetProjectRepository`
after a supersession leaves the project on the superseded card. A discovery that
inserts between the checks and the reads of a clone has its card taken over in place,
and the next discovery inserts another. `EnqueueIfNoActive` looks and inserts in two
transactions, so two calls may insert two jobs; the lock key keeps them apart, and
a call that coalesces into a job that has already looked at the disk adds nothing.

Migration. `durable` counts what is written while no migration runs and by a server
that follows the current profile: a server that writes during a migration, or that
is not restarted after a switch, can lose rows, and the verification of "basic
counts/checksums" that `docs/en/configuration.md:407` describes does not exist.
With two `thelper-ctl` at once `SwitchIsComplete` fails after 14 states: the one that
fails disables the profile the other has promoted. A target that is imported again
after a failure keeps the slot `historical` (the ON CONFLICT clause does not set it)
and `-migrate-db` then finds no target. The first import that names another
database makes it current without a migration. A server follows one hop only. A
superseded repository whose successor sorts after it makes every copy fail, since
the copy is ordered by id and the foreign key is immediate. `jobs` and
`project_scans` are not copied.

Configuration. An import whose ignore file lists a pattern that a request has made
its own fails as a whole at the UNIQUE constraint of
`internal/config/store.go:1034`, until the file or the rule changes; so does a file
with a pattern listed twice. A PUT of a rule that loses its INSERT to an import is
answered with the imported rule and changes nothing. One unknown key makes an explicit
reload accept none. The job `config_reload` applies nothing; `thelper-ctl -reload`
always seeds. `thelper-ctl -restart` and a missing row seed every module as
enabled, the disabled ones included. A slow `Seed` overwrites newer states. A process
that dies leaves `restarting` or `reloading` until the next seed:
`NobodyLeftBetween` is about those that run on. A PUT that takes a root of the
configuration over, or moves it, between the select and the UPDATE of a
synchronisation is switched off with it, wherever it is by then, and one that comes
between the look-up and the UPDATE of a listed path (`internal/scanner/store.go:129`) is
moved back and becomes a root of the configuration. `RequestsOwnTheirs` therefore
gives a synchronisation every row that has been of source `config`, or at a path of its
list, since it began, and no other. A PUT that would move a root to a path that has
one fails at the unique index.

## 4. What is proved

`JobQueueProofs` proves, for any number of jobs, slots, keys and any finite set
of processes, any `MaxAttempts`, `Lease` and `Backoff`:

| Theorem | Statement | Assumes |
|---|---|---|
| `TypeInvariant` | `Spec => []TypeOK` | - |
| `LockUniqueness` | `Spec => []HeldKeysUnique` | - |
| `LocksReleased` | `Spec => LocksReleasedWithJob` | - |
| `RecoveryActsOnFacts` | `Spec => []RecoveryReadsHold` | - |
| `LiveLeases` | `Spec => LiveLeaseKept` | - |
| `HandlersNeverOverlap` | `Spec => []HandlersExclusive` | `Punctual` |
| `StaleSlotsFenced` | `Spec => []OwnerHasLatestAttempt` | `SingleSlot \/ Punctual` |
| `QueueNeverStuck` | `Spec => []QueuedIsClaimable` | `SingleSlot \/ Punctual` |
| `Refinement` | `Spec => ImplementsLifecycle` | `SingleSlot \/ Punctual` |

`SingleSlot`, one slot per process, is what `runtimeOptions` enforces for SQLite
and what a PostgreSQL worker with concurrency 1 has. `Punctual`: no live worker is
ever a whole lease late. Of the two assumptions one is needed:
`JobQueueSharedWorker.cfg` is a counterexample without either, and
`JobQueueLateBeat.cfg` shows what happens to handlers without the second.
`HeldKeysUnique`, `LocksReleasedWithJob` and `RecoveryReadsHold` are proved and no
run lists them.

*What recovery has read.* A pass acts on copies. That a copy is current whenever its
UPDATE matches (`RecoveryReadsHold`) needs that a renewal takes a stamp no pending
pass remembers: there are as many passes as processes, one more stamp than that,
and a pass reads a job once (`RenewType`, `RenewEscapesReads`, by cardinality).
Every step either keeps a job's row as far as a copy depends on it or moves its
stamp (`ReadsKept`). The slots do not enter, so this and `LiveLeaseKept`, which
follows from it, hold with any number of slots in a process.

*Punctual workers.* `HandlersExclusive` speaks of handlers and says nothing of time;
`PunctualInv` does. A busy slot owns its job under a lease with time left and, from
`AcquireLock` on, a lock row of its job with time left (`InCharge`), although job and
row are renewed by two statements: the row's expiry is computed first, so that it
never lies before the lease (`due[s] >= lease[cur[s]]`). No two busy slots have one
job (`OneSlotPerJob`), and a row has its job's key (`RowsOfKey`). Two handlers
of one key would each have a row of it, which `HeldKeysUnique` excludes. A step
disturbs no slot but its own (`Calm`, `OwnStep`): recovery and the expiry
of locks find only what has no time left, and the clock stops short of the last
tick of a live slot.

*Attempts.* That a queued job has an attempt left depends on what a slot or a
recovery pass decides from its copy of the row; that a slot's copy is the latest is
`OwnerHasLatestAttempt`, and `FencingInv` is the conjunction of these with `TypeOK`.
The one way to break it is a claim by a process that has another slot on that
job (`NoImpostor`), which either assumption excludes. Most actions change neither
the row nor the copies; `Frame` and `JobFrame` deal with those once. The refinement
follows step by step.

`ProcessLockProofs` proves, for any set of processes:

| Theorem | Statement | Assumes |
|---|---|---|
| `TypeCorrect` | `Spec => []TypeOK` | - |
| `MutualExclusion` | `Spec => []AtMostOneHolder` | `OneHost` |
| `Discoverable` | `Spec => []HolderIsDiscoverable` | `OneHost` |

`OneHost`: one pid space. It is needed (see what the models show of pid spaces), and
it is all: starts, takeovers, ends and deaths overlap in any way. The inductive
invariant `LockInv` says of every complete file that is read or named by the path
that its owner has begun, that a start about to remove a file has found its owner
ended (`RemovesStale`), and that, until a start has removed another file than it had
read, the path names the file of whoever writes it (`WritersFile`) or holds the lock
(`HoldersFile`). The argument: while somebody has a file at the path nobody else can
create one, and only its owner, or a start that takes it for another's, removes it.

`ScanWorkflowProofs` proves, for any numbers of children, slots, requests and
attempts, and whatever refreshes, hooks and writes fail:

| Theorem | Statement | Assumes |
|---|---|---|
| `TypeInvariant` | `Spec => []TypeOK` | - |
| `EndsAreFinal` | `Spec => EndIsFinal` | `~Late` |
| `ShownTruthfully` | `Spec => []FinishedTruthfully` | `~Late` |
| `Refinement` | `Spec => ImplementsLifecycle` | - |

`ScanInv` is `TypeOK` with what connects an actor's place to its data: where a
refresh goes on (`Continuations`), that what is about to be written was read
(`Carried`), that nothing happens before the scan is created (`Begun`), that a
busy slot has a job (`HasJob`) and that only the parent's handler enqueues
(`ParentsTools`). With `~Late`, a slot at work owns its running job (`Working`):
so a group that has ended cannot get another child, and an aggregate that says
"finished" is right for ever, wherever it is carried - in a table or by an actor
that has read it and not yet written it (`AllTruthful`). With `Late` both
properties fail: see the bounds of the scan.

`ScanPoolProofs` proves, for any trees, roots, workers, attempts and failures:

| Theorem | Statement |
|---|---|
| `TypeCorrect` | `Spec => []TypeOK` |
| `PoolIsComplete` | `Spec => []NobodyLeavesEarly` |
| `NoLostWakeup` | `Spec => []SleepersWillBeWoken` |
| `ProjectsAreKept` | `Spec => ProjectsKept` |
| `ScanIsTruthful` | `Spec => []RegistryMatchesDisk` |

`PoolInv` says that `active` counts the busy workers (by cardinality) and that
what a sleeping or departed worker saw is still so (`Idlers`). `Covered` says
that a project that must be found has been, or has an error above it, or lies
below a directory that is queued or in a worker's hands; a step moves the
project one directory closer (`ExpectedEntry`) or settles it (`ExpectedProject`).
When the pool is joined nothing is pending and only the first two cases are left,
which is what `MarkMissingProjects` is given. The tree enters through
`TreeAssumption` alone.

`RegistryMatchesDisk` needs two more. `FoundInv`, of every scan: the walk stays
inside its root and below nothing that is skipped (`InTree`), so that what it
registers is a project on the disk (`AtFound`, `SeenFound`). `CleanInv`, of a scan that
has counted no error so far: none is recorded for a subtree either (`NoneErrored`),
a project it has seen has its discovery job or a worker about to insert it
(`SeenEnqueued`), the root is read (`RootIsRead`), and by `Covered` the rows
selected to be marked are exactly the active ones it has not seen (`MissingIsRest`).
The roots that are done stay right (`RootsDone`) while others are walked, one inside
the other included. A root is walked even where an ignore rule names it, since
`scanDirectory` asks the rules about the entries of a directory only; the property
says so.

`SleepersWillBeWoken` is the safety part of `AttemptReturns` and listed by no run.

`CloneRequestsProofs` proves, for any numbers of requests, attempts, repositories
and directories, and whatever fails, lapses or is repeated:

| Theorem | Statement |
|---|---|
| `TypesKept` | `Spec => []TypeOK` |
| `ClonesApart` | `Spec => []ClonesKeepApart` |
| `CardsFollow` | `Spec => []CardsFollowClones` |
| `NothingLeft` | `Spec => NothingLeftReserved` |
| `OneWriter` | `Spec => []OneWriterPerDirectory` |
| `AnswersTruthful` | `Spec => []AcceptedTruthfully` |
| `DirectoriesAreKept` | `Spec => DirectoriesKept` |
| `Refinement` | `Spec => Lifecycle!Spec` |

`IInv` is `TypeOK` with: what a request still has to do and what its job is, at
each place (`Planned`); what a request believes to hold it holds, and a key that it
holds does not lapse while it is in the request (`OwnKeys`) - requests are answered
within the five minutes of a reservation, handlers need not be; a request has
reserved the keys that its place requires, and both of a clone from the
last reservation until the job is inserted (`Reserves`); and a queued
or running clone has a card of its own that names its repository and directory
(`CardInv`). Neither the reservations nor the checks would do alone: keys lapse
while a clone waits in the queue, and then it is the card that the next request
meets; before the card is written, it is the keys. That two requests
past their reservations differ in both keys follows (`KeysApart`), and from it
that the card a request writes takes nothing away from another clone.

The last conjunct, `WorkInv`, is about the handlers. A card has one active job
(`OneJobPerCard`: a job keeps its card, and the insert is guarded). A handler that
is in a directory for which discovery has no card finds there what its own card says,
a clone its own unfinished one (`Finds`). So two handlers in one directory have one
repository, hence one card, hence are one (`WritersApart`), which is
`OneWriterPerDirectory`; and since nobody else is there, what a handler has found
stays as it is until it is done (`WritersKeep`). A failing clone can then only remove
its own remains, which is `DirectoriesKept`. With a discovery card for the same
directory it can remove more: a pull of that card, begun while the directory was
empty, may complete what the clone has begun before the clone fails; both
properties leave this case out. `Answers` carries what a client was told to the end: the
job stays, and so do the cards that were compared.

`Refinement` closes the circle with the queue: the jobs of clones and pulls behave as
`JobLifecycle` says, which `JobQueueProofs` proves of the rows they are kept in.

`ProjectDiscoveryProofs` proves, for any projects, directories, clones, and any
number of runs and attempts of a discovery:

| Theorem | Statement |
|---|---|
| `TypesKept` | `Spec => []TypeOK` |
| `RepositoriesLinked` | `Spec => []SameRepositoryLinked` |
| `AssignmentsStay` | `Spec => []ProjectsStay` |
| `GenericCardsUnique` | `Spec => []OneGenericCard` |

Two discoveries that overlap must not miss each other. `Meeting` is the argument:
of two projects on one card, one has yet to ask for the projects of the card or to
write the link to the other, or the link is there; the assignment is written
before the question is asked, so the later of the two finds the earlier.
`Stays` says that only a supersession takes a registered project off its card,
`Renews` that a generic card is renewed by discoveries of its directory only.
The specification takes from `CloneRequests` that two clones are never for one
directory (`Apart`).

`StorageMigrationProofs` proves, for any set of databases and any rows with any
references:

| Theorem | Statement | Assumes |
|---|---|---|
| `TypesKept` | `Spec => []TypeOK` | `Alone` |
| `SwitchesLoseNothing` | `Spec => []NothingLost` | `Alone` |
| `KeysFollow` | `Spec => []KeysDescribe` | `Alone` |
| `SwitchesAreComplete` | `Spec => SwitchIsComplete` | `Alone` |

`Alone`: at most one `thelper-ctl`, and the operator gives the new database to
every process after a switch (`Follow`). Without the second half
`storage_migration_stale_source` is a counterexample, without the first
`SwitchIsComplete` fails. `MigrationInv` says what every table is like
(`Sound`: a target is stored under its own name, one current profile, and one as
soon as there is any), that what `thelper-ctl` has read is still so and its copy
has what the groups copied so far owe (`Ctl`), and in which of three situations
the databases are. `Settled`: the database that processes are given names one
that is in charge of itself and holds everything durable. `Unset`: no database
is in charge of itself and nothing is durable yet; a first import may name another
database, which may name a third. `Astray`: these imports have closed a
circle; nothing can be started, and nothing is lost. Only an import leaves `Unset`,
and nothing leaves `Settled`.

`RuntimeConfigProofs` proves, for any modules, paths, patterns, processes and
numbers of imports and requests:

| Theorem | Statement |
|---|---|
| `TypesKept` | `Spec => []TypeOK` |
| `ModulesComeBack` | `Spec => []NobodyLeftBetween` |
| `RequestsKeep` | `Spec => RequestsOwnTheirs` |

`ConfigInv` adds to `TypeOK` what a process works on in each place (`Subjects`,
`Upserts`), and that every id a synchronisation has found or selected is its own
(`OwnInv`), also if it comes from a list that another import has replaced since
and whatever has become of the row. `RequestsKeep` follows, since the ids
are what it writes by.

Every safety property and action property that a passing run checks is proved. Model-checked
only are the liveness properties `JobsTerminate`, `StaleLockReplaced`,
`ReadsConverge`, `AttemptReturns` and `RootsConverge`, which are out of the
prover's reach, as is everything about ENABLED. No module has a RECURSIVE
operator, so nothing is left out of the proofs for that reason. The invariants
of the proofs were model-checked on the instances of section 3 before they were
proved, those of `CloneRequests` also on an instance whose directory may hold anything at
the start, where TLC found the case that `DirectoriesKept` leaves out.

## 5. Not modelled

* Operations of modelled components: `CancelQueued`, listings, summaries and
  retention of the job store; administration of providers and credentials, parsing
  of clone URLs and the command lines of git; rule sets, the content of
  findings and reports; flattening of the YAML document; a `PUT` that gives
  its rule the origin `config_import`. They are single statements or
  computations on text, and no property above depends on their details.
* Storage providers and their schemas: a transaction is an atomic action here, a
  constraint is a guard. That SQLite and PostgreSQL keep these promises is assumed,
  and lock waits, timeouts and serialisation failures appear as
  operations that fail.
* Tool profiles and the toolchain installer: processes, archives and templates.
* HTTP plumbing: routing and decoding; each handler belongs to the component
  it calls.

What would add most: `StorageMigration` with a server that keeps writing during a
migration and a bound on what may be lost, a lateness of workers that is bounded per
call instead of per lease, and the dashboards' summaries.
