# A TLA+ verification of geoflow-updater

geoflow-updater installs, updates, backs up and restores a GEOFlow site that
runs in Docker on one host. A root daemon owns the host; an unprivileged agent
in the site asks it for operations over a local socket. Almost everything that
is hard about it is about *durability*: an operation touches the database, two
directory trees, deployment files, containers and some ten control files, one
after the other, and the process may die or a write may fail between any two.
This directory models that core, checks it with TLC and proves much of its
safety with TLAPS. All paths below are relative to the repository.

## 1. Inventory

### Components, their state and operations

| Component (source) | State it keeps | Operations |
|---|---|---|
| Recovery control (`internal/recoverycontrol`) | `authority.json` (private), `public/state.json` (read by PHP without a lock), `initialized` marker, `minimum-updater-protocol`, `checkpoints/<tx>.json` | Initialize, Begin, Restored, RecordPreparation, RecordRedisManifest, OpenHTTP, CaptureCheckpoint, Read; all under one flock |
| Recovery store (`internal/recovery/store.go`) | recovery points `<id>/` with manifest, archives and dump; hidden `.<id>.partial`; `.geoflow-updater-<dir>-old-<point>`; `quarantine/<epoch>/*.tar.gz` | Create, List, Validate, Restore, prune with the points that plans and admissions protect |
| Host recovery (`deployment/host_recovery.go`, `recovery_runtime.go`, `recovery_http.go`) | none of its own; drives control, store and containers | prepareRestore, resumeRecovered (prepare, verify, quarantine, open, serve) |
| Operation manager (`internal/operation`) | `operations/current.json`, `operations/<id>.json`, worker goroutine, `operation.lock` | StartUpdate, StartBackup, StartRollback, StartVerify, SwitchBack, Reconcile (every 5 s and at start), Wait |
| Update engine (`internal/update`) | the run of one plan | RunWithOptions: resolve … verify, compensation, rollback |
| Coordination store (`internal/coordination`, `operation/coordination.go`) | `admissions/<request>.json`, `head.json`, `plans/<id>.json` | CreatePlan, Submit, Lookup, BeginLegacy, UpdateOperation, repairAdmissions |
| Mutation authorization (`internal/authorization`) | `mutation.<scope>.counter`, `mutation.<scope>.attempts`, `mutation.attempts`, `mutation.lock` | Authorize (v1), AuthorizeAdmission (v2), Provision |
| Blue/green release (`deployment/bluegreen.go`, `traffic.go`, `switchback.go`) | `release-transaction.json`, ingress configuration, slots, `version.json`, `instance.yml` | ExecuteRelease, failRelease, ReconcileRelease, SwitchBack, switchIngress, activateSlot, drainBackground |
| Deployment service (`deployment/service.go`) | containers and deployment files | Preflight, Pull, Quiesce, CreateRecoveryPoint, Migrate, Activate, Rollback, Resume, Verify |
| Legacy scheduler drain (`deployment/legacy_scheduler.go`) | `legacy-scheduler-freeze-<id>.json` (intent), `legacy-scheduler-drain-<id>.json` (idle proof), the stopped process | freeze, prove idle, kill, thaw, resume |
| Installation, enrollment (`deployment/install.go`, `internal/enrollment`) | installation journal, secrets, `instance.yml` | Install, Enroll |
| Agent HTTP API, daemon, CLI, doctor | connections, timers | routing, monitor loop, checks |
| TUF repository tools (`internal/tufrepo`), TUF client (`internal/tufclient`) | `timestamp.json`, `<n>.snapshot.json`, `<n>.targets.json`, target files; the client's verified cache | Publish, Refresh, RefreshOnline; Resolve |
| Bootstrap manifest, release and upgrade-plan schema | signed documents | sign, verify, parse |

### How they interact

* **API → authorization → coordination → manager.** A request carries a plan and
  a code. Under `mutation.lock` the code is matched; the admission that binds
  it is created under `operation.lock`; the worker goroutine then owns
  `operation.lock` until the operation ends.
* **Manager → engine → deployment → recovery store → recovery control.** Every
  stage is written before and after its step. Only the stage `resume/running`
  ("resume boundary") makes a later reconciliation willing to start services.
* **Recovery control → PHP.** PHP containers read `state.json` without a lock,
  so every intermediate state of a change is visible to them.
* **Coordination → recovery store.** Pruning asks which points valid plans and
  unresolved admissions still need.
* **Deployment → legacy scheduler.** A release or a quiesce drains the schedulers of
  the old layout by signals and `docker top`; a resume thaws what a drain left stopped.
* **Repository tools → client.** A site reads the published directory file by file
  while the next publication writes it.
* **Monitor → manager.Reconcile.** Every five seconds the daemon looks at the
  durable record when no worker holds the lock.

### Behaviours that are hard, and what makes each component correct

* *Recovery control*: four files per change, any prefix of which may be all that
  happened. Correct: the public copy never runs ahead; HTTP never opens without
  both proofs of *this* generation; a lost authority stays lost; a checkpoint
  taken before a migration is never replaced.
* *Restore*: four kinds of data replaced one after the other, two of them by a
  pair of renames, retried by an operation that may have another identity and
  point. Correct: data is replaced only under a visible hold with nothing
  running, a restore that counts as complete has every part from its own point, queues
  are never lost, users' writes are never overwritten. (Of the directories that holds
  only with an exception; see the findings.)
* *Operation and engine*: a journal write before and after each step, each of
  which may fail or half succeed, and compensation whose own writes may fail.
  Correct: services reopen only behind a durable boundary and on whole data;
  the recorded result is true; recovery converges.
* *Coordination*: several durable files in one order, with rename and directory
  sync failing separately, and power loss. Correct: the order stays readable;
  no request runs twice; no accepted receipt is lost; nothing is reported as
  never run that did run.
* *Authorization*: two protocols, three budgets and several writes per call.
  Correct: each code at most once, no guess forgotten, nothing accepted while
  locked.
* *Release transaction*: a journal, an ingress and two slots that must agree
  although each is changed alone, requests that outlive the switch, containers
  that come back after a reboot. Correct: the serving slot is up and would be up
  after a reboot, workers run once, nothing is stopped under a request, data is
  not undone over users' writes, what is recorded is what serves.
* *Retention*: a plan is bound to a point long before its request arrives, the clock
  may be set back, and removing a point may stop half way. Correct: what a valid
  plan, an unresolved restore or the latest update needs is there and whole.
* *Legacy scheduler*: a process that cannot be asked to end is stopped, watched and
  killed, while it may die or be restarted by itself. Correct: no task is cut off by
  a drain that counts as clean, a stopped scheduler is on record, and whoever resumes
  its site continues it.
* *Publication*: several files that name each other, written by a run that may stop
  anywhere, read by sites at any moment. Correct: what is live is whole, no site
  goes back, a repeated publication arrives.
* *Installation* is a journal of the same kind, not modelled.

`PROJECT.json` lists the hazards line by line, each with the properties that
are for it.

## 2. Modules

| Module | Models | Size of the state |
|---|---|---|
| `RecoveryControl` | `recoverycontrol.Store`: one `Commit` with the four writes in order, cut short after `done` of them; one action per operation | five files |
| `MCRecoveryControl` | the instance TLC checks | – |
| `HostRestore` | `EXTENDS RecoveryControl`: preparing, draining, restoring, swapping, resuming, serving; failed release or manual rollback | data, directories, evidence, services, worker |
| `UpdateOperation` | `operation.Manager` with `update.Engine`: start, plan, stages, saves, compensation, Reconcile | durable record, worker copy, site |
| `ReleaseTransaction` | `ExecuteRelease`, `failRelease`, `ReconcileRelease`, `SwitchBack` under the operation record | journal on disk and in memory, containers with their restart policies, ingress, identity files, data |
| `Authorization` | `authorization.Service`: guesses, v1 and v2 calls, lockouts | three counters, four attempt files, time |
| `RequestLog` | *abstract*: what a client is promised about its requests | record, last, executed |
| `Coordination` | plans, admissions, head, projection, durability and repair; implements `RequestLog` | each file twice: visible, and known to last |
| `RecoveryRetention` | `Create`, `List`, `prune` with `ProtectedPoints`, and the operations that make and use points | directories, plans, the operation, the clock |
| `LegacyScheduler` | `drainLegacyScheduler`, `thawLegacyScheduler`, `resumeFrozenSchedulers` next to Docker, and of the operations around them what decides whether the site is resumed | one container, two files, worker, what the record says |
| `TufRepository` | `Publish`, `Refresh`, `RefreshOnline` next to `Client.Resolve` | metadata files, target files, run, client cache |
| `HostRestoreProofs` | theorems about `RecoveryControl` and, on top of them, about `HostRestore` | – |
| `UpdateOperationProofs`, `ReleaseTransactionProofs`, `CoordinationProofs`, `AuthorizationProofs`, `RecoveryRetentionProofs`, `LegacySchedulerProofs`, `TufRepositoryProofs` | theorems about the module each is named after | – |

### Correspondence with the code

**RecoveryControl.** `Commit(a, done)` is the tail of `Store.change`: floor,
marker (only for a first change), authority, public state. `done = 4` is
success; any smaller number is an error or a death at that write. `Loadable`
is the load at the top, with the marker test. `Begin`, `Restored`, `OpenHTTP`,
`RecordPreparation`, `RecordRedisManifest` and `CaptureCheckpoint` are the
functions of the same names; `LoseAuthority` is not an operation of the program
but the file loss that `docs/recovery-contract.md` speaks of. Random epochs are
numbered in the order they become durable. The model is of what readers *see*;
a power loss that undoes an unsynced rename is modelled in `Coordination`, where
the code pays for it, and not here.

**HostRestore.** `pc` is the position of the one worker. `Prepare`, `Drain`,
`BeginRestore`, `PreserveRedis`, `ReplaceFiles`, `RestoreDatabase`,
`SettleSwap`/`MoveAside`/`MoveIn`/`DropOld` for each directory and
`CompleteRestore` are `restoreBeforeTraffic`/`Rollback`, `prepareRestore`,
`restoreValidated`, `preserveRedis` and `restoreStagedDirectory`;
`PersistBoundary` is the durable resume stage; `StartData`, `PrepareCore`,
`QuarantineRedis`, `Open`, `Serve` are `resumeRecovered` and `startServices`.
`Interrupt` may come between any two. Contents are what the properties tell
apart: the live data, the same after a migration or user writes, half of a
replacement, nothing, or one point. `StartRollback` may replace a held
operation with another point; `RetryResume` is what reconciliation does.
`CreatesSource` says whether Docker creates a missing bind source; it does for
the short form used by `assets/docker-compose.managed.yml`. The ghost `misled` holds
the directories at which, when a restore began, a leftover of an earlier swap of the
same point lay beside a current directory that is not the point's.

**UpdateOperation.** `disk` is the head record, `op` the worker's copy. A step of
a plan has the phases *emit* (write the running stage), *run* (the deployment
call, which may succeed, fail or half fail) and *done*/*broken* (write the
result). `Outcome` is the table of what each failure leads to in
`manager.go` and `engine.go`; `Plan` the sequences they follow. `Save` may fail
before or after the replacement. `Reconcile` and `MayResume`/`Settled` are
`reconcileOperation` and its evidence rules. The stages before maintenance
(resolve, preflight, pull) are one, "preflight". What an earlier operation left half
replaced is "inherited": `Start` keeps it, and only a restore that succeeds, or the
step that replaces it, ends it.

**ReleaseTransaction.** `tx` is `release-transaction.json`, `mem` the worker's
copy, `pc` the step of `ExecuteRelease` or `failRelease` and its phase. `Begin` and
`End` are the closure `step`; the other actions are the bodies of its steps, in the
order of `Plan`. `Save` may fail before or after the rename; `Broken` is a step that
fails or in which the process dies. `up` and `auto` are containers that run and
containers with a restart policy: `Drains` takes the policy away before it stops,
`Starts` gives it back before it starts, and either may stop half way. `conf` is the
slot in `nginx.conf`, `live` the one the running ingress uses, `inflight` the slots
that its old workers still serve. `Undo` is the decision of `failRelease`, `Resumes`
that of `ReconcileRelease`. `Reboot` brings back `auto` and makes the ingress read
`conf`. Everything before the first effect on the site is the step "pull"; the
infrastructure change belongs to "candidate"; reverb, whose clients reconnect, is
left out; the data restore is one step that may tear, since `HostRestore` is about
it. After such a restore the authority over the generation blocks every later
release (`Replaced`).

**Authorization.** One action per durable write group of a call: `Guess`,
`Match`, then `Consume`/`Start`/`Reset` for v1 or `Admit`/`Project` for v2;
`done` says how many writes happened. Time is in code periods.

**Coordination.** Each write has three outcomes: not done, visible only, visible
and lasting. `PowerLoss` may bring back the lasting contents of each file.
`Lock` is every call's entry with `repairAdmissions`' `SyncAuthority` and
`Rebuild`; `SaveAdmission`, `SaveHead`, `SaveProjection` are `save`.

**RecoveryRetention.** A point is a directory that is absent, staged (hidden under
`.<id>.partial`), whole or torn: `os.RemoveAll` that stops between two files may
leave the manifest, so that `List` still shows it. `Stage`, `Name`, `Prune`,
`Remove` are the stages of `Store.Create` and `prune`; `Retained` is the fresh point,
what `ProtectedPoints` returns (`Planned`, `Unresolved`) and the newest update
checkpoint; `Surplus` fills up to `Keep`. `CreatePlan` and `Submit` carry the
conditions of `ActionSnapshot` on the point; what else a plan binds is left out, so
that more requests are admitted than by the program. `left` are the points of held
restores that another one replaced: nothing writes their admission again, so it
stays unresolved and protects its point for good. `SetBack` is a wall clock that is
set back; `lapsed` remembers which plans had already been past their time.

**LegacyScheduler.** Incarnations of one container are numbered by their
`StartedAt`. `Inspect`, `NoRestart`, `WriteIntent`, `Freeze`, `Top`, `WriteProof`,
`Kill`, `Wait` are `drainLegacyScheduler`; `ReadIntent`, `Revoke`, `Continue`,
`Remove` are the deferred `thawLegacyScheduler`; `RestorePolicy`, `Up` and
`ResumeFrozenSchedulers` are the tail of `Service.Resume`, and `ResumeRecovered` its
branch for restored data, which leaves the scheduler alone. `Attempt` gives every
command and write three outcomes: done, an error with its effect, an error without.
`Die` ends the container without the updater, and its policy may bring it back as the
next incarnation, at any time, so also between the inspection and the update that takes
the policy away. `StartDrain`, `Redrain`, `RestoreData`, `SaveBoundary`, `Hold` and
`RollbackRefused` are what a backup, an update of either kind and a data recovery do
around their drain, as far as it decides what their record says when the updater dies.
`Reconcile` is `reconcileOperation` (and for a maintenance release `ReconcileRelease`):
it resumes a backup and what is behind its boundary, and holds everything else.

**TufRepository.** The three roles of metadata are three variables; `timestamp` is
the one file that is replaced, by a rename. `Publish(r)` is `Publish` up to its first
write, with `nextMetadataVersion` over every file present; `PublishCompose`,
`PublishManifest`, `WriteTargets`, `WriteSnapshot`, `WriteTimestamp` are its writes.
`Stop` may leave half of a versioned file. `ReadTimestamp` to `DownloadCompose` are
`Client.Resolve`, whose refusals of older metadata are those of go-tuf as
`tufclient` relies on them.

## 3. Runs

| Run | Shows | Bounds |
|---|---|---|
| `MCRecoveryControl` | type, public copy, proofs, monotone generations, lost authority, frozen checkpoints | 2 transactions, 2 points, 2 digests, 4 generations: enough to supersede, conflict and return |
| `HostRestore` | replaced under a hold, proven when serving, a restore that counts as complete is of its own point unless it was misled, queues kept, restored data final, recovery behind the boundary converges | 3 transactions (a release and two rollbacks), 2 points, 2 interruptions, a Docker that creates missing bind sources |
| `UpdateOperation` | boundary, wholeness, truthfulness, point on record, accepted writes survive, convergence behind the boundary | all four kinds, 3 operations in a row, 4 faults |
| `Authorization` | one use per code, guesses accounted | two scopes, threshold 2, 3 periods, 3 failures |
| `Coordination` | readable order, no masquerade, lasting receipts, plan generation, refinement of `RequestLog`, every pending receipt is resolved | 2 requests (one a restore) and host starts, 3 operations, 2 faults |
| `ReleaseTransaction` | the serving slot, exclusive workers, requests in flight, data not undone over writes, complete roll-back, convergence of online releases | from the single layout or a slot, 3 operations in a row, 2 faults |
| `RecoveryRetention` | points of plans, of unresolved restores and of the latest update are whole | `Keep` 2, one plan of validity 2, 4 points, 4 ticks, 1 fault, 1 setback of the clock |
| `LegacyScheduler` | a clean drain cut off no task; a stopped scheduler on record is released when its operation is one that reconciliation resumes | 4 incarnations, 4 faults |
| `TufRepository` | what is live is whole; no site goes back; a repeated publication arrives | 3 releases of which two share a file, 6 metadata versions, 1 refresh, 2 interrupted runs |

The bounds are chosen so that each hazard needs at most what they allow. Two
interruptions are what an interrupted restore followed by an interrupted
superseding restore needs, and the third transaction is the one that returns to
the first point. Four faults cover a failed step, the failure of its
compensation, a failed write on top and one crash. Three operations cover a held
one, the rollback that replaces it and what starts next. In `Authorization` the
threshold is small so that lockouts are reached, and the duration cap equals one
doubling so that both sides of it are. In `Coordination` a fault is one failed
write or sync, a crash or a power loss, and two are a torn write and the loss
that exposes it. In `ReleaseTransaction` three
operations are the change of layout, an online release and the switch back from
it; two faults are a failed step with a reboot or crash in its repair. Four points
with `Keep` 2 are one that a plan needs, one that is left behind by a held restore,
one in creation and one that goes. Four incarnations and faults are a drain that is
cut short twice around a restart. Six versions let two publications be abandoned, one
with half a targets file, before the third; the two releases that share a Compose
file make a publication rewrite a live target.

Types are an invariant of one run (`MCRecoveryControl`); the `TypeOK` of the other
modules documents their state, and where a proof rests on it, it is proved, by itself
(`DrainTypes`) or as part of the inductive invariant (`RetentionInvariant`,
`HostInvariant`, `ReleaseInvariant`). `CHECK_DEADLOCK FALSE` stands in every
configuration because the system may be idle for good once the bounds are used up.

Each property of a passing run has a mutant in `PROJECT.json`: a plausible bug
in one modelled function (`\* Faulty:` definitions in the modules) under which
TLC finds the property violated.

### Findings: what the documentation says and the code does not

| Run | What TLC shows |
|---|---|
| `HostRestoreEmptyStorage` | A failed release restores its point and is interrupted between the two renames of storage: storage is moved away, not replaced. A rollback to the same point starts its inspection container before anything else, and Docker creates the missing storage, empty. With both directories present, `reconcileInterruptedDirectorySwap` takes the swap for a completed one; the generation is recorded as restored with empty storage. |
| `UpdateOperationTorn` | An update dies half way through its migration and is held. A rollback replaces it and dies, or its save reports an error, before its first stage (one that fails in its preflight ends the same): reconciliation ends it as `failed`, and the hold is gone. A backup starts, is interrupted in its preflight, and reconciliation resumes it: the site is open on half-migrated data. |
| `ReleaseTransactionOrphan` | A switch back takes over the release journal before its first stage is recorded. If it dies, or the write reports an error, in between, the operation ends as `failed` and the journal stays `running` under it; nothing looks at it again, and it refuses every later update and switch back until a data rollback. |

Other differences between documents and code that showed while modelling, for
which no run is kept:

* `RestoredFromOnePoint`, which `HostRestoreEmptyStorage` violates, is violated in a
  second way, also with `CreatesSource = FALSE`. The restore of P1 by a failed release is
  interrupted after the second rename of storage and before the previous directory is
  removed. A rollback to P2 is interrupted there as well. A rollback to P1 then finds
  `.…-old-P1` beside the storage of P2, takes it for its own finished swap, and records
  the generation as restored with P2's storage. `RestoredUnlessMisled` excludes exactly
  the directories of these two cases (`Misleads`, judged when the restore begins), and
  is proved: every other directory of a completed restore is the point's.
* After a crash between the renames of the Redis directory no rollback to another
  point can archive the queues: the directory is missing until somebody puts it back.
* With a third fault `InFlightKept` and `ServesThroughReboot` of `ReleaseTransaction`
  no longer hold: neither the success of an online release nor the failure mark that
  follows could be written, the traffic was switched back, and the updater dies. The
  journal still says `drain`, so reconciliation (`bluegreen.go:527`) finishes the drain
  of the source slot, which by now serves every request. With a fourth fault
  `UndoneSafely` fails behind it: the ingress still reads the closed source, which a
  later maintenance release starts as its candidate; users write through it before
  traffic is opened, and the failure of that release restores its point over them.
  `TrafficIsKept` proves that no other step of the updater stops a home that serves,
  `UndoingIsSafe` that a restore goes over users' writes only when the ingress reads
  another home than the identity names, for any number of faults. That two faults, or
  three for `UndoneSafely`, are not enough is proved for any number of operations
  (`ServedThroughReboot`, `KeptUntilThirdFault`, `UndoneUntilFourthFault`): the bound of
  the run is the best one.
* The data that `UpdateOperationTorn` finds served may belong to any earlier
  operation, so `ReopensWhole` is about what the operation itself replaced by half.
  Said of all data it needs four operations and five faults to fail, which the run does
  not reach; the attempt to prove it showed it.
* `docs/planned-host-acceptance.md:37` says that the freeze record lets startup recovery
  resume "the same frozen process" after an interruption. Three times it does not, which
  is why `FrozenIsReleased` is about a scheduler on record whose operation
  reconciliation resumes. (1) The container dies and is restarted by its policy between
  the inspection (`legacy_scheduler.go:56`) and the `docker update --restart=no` (`:85`):
  the STOP then stops the new incarnation, `docker top` misses the recorded process, and
  the thaw skips the CONT because `StartedAt` differs (`:180`) and removes the intent
  (`:186`). `FrozenIsOnRecord` proves that this is the only way to stop a scheduler that
  is not on record; `SoundDrain` holds in it too. (2) An engine update, a maintenance
  release or a rollback that dies in its drain has no durable boundary, so
  reconciliation holds it (`manager.go:413`, `:448`, `bluegreen.go:516`) and calls no
  `Resume`: its scheduler stays stopped until an operator starts a data recovery. (3) A
  backup whose drain and thaw failed is saved as `failed` together with its boundary; if it dies
  in the resume that follows, reconciliation does not look at it.
* Staged directories `.<id>.partial` of a create that died are never removed.
* The admission of a held restore that another restore replaced stays unresolved, so
  its recovery point is protected for good.
* After the clock was set back, the checkpoint of a later update may look older than
  that of an earlier one; "latest" is by the recorded time.
* A publication that stops while it rewrites an unchanged Compose target tears a
  target that is live, until the publication is repeated. In the documented flow the
  directory is committed only after the run, so sites do not see it.
* An update interrupted before its boundary, or whose resume
  or verification fails after activation, is held and not restored, although
  `README.md:84` says that the updater restores the recovery point.
* A backup that could neither take its point nor reopen the site ends as `failed`, so
  that reconciliation does not look at it.
* An accepted code keeps the aggregate failures of other scopes,
  where `SECURITY.md:17` says that it resets the state and `README.md:72` agrees
  with the code.

### Fairness

* `HostRestore`: weak fairness of the worker's steps and of `RetryResume`. The
  worker is a goroutine that nothing blocks for good; the monitor
  (`cmd/geoflow-updater/main.go:148`) calls Reconcile every five seconds.
  Operators are assumed to do nothing.
* `UpdateOperation`: weak fairness of the worker and of `Reconcile`, for the same
  reason. While a worker runs, `Reconcile` is disabled, and it stays enabled
  once the worker is gone.
* `ReleaseTransaction`: the same, and weak fairness of the end of an upgrade
  container and of old requests: `waitUpgradeContainers` and
  `waitIngressWorkers` wait for nothing else, and each deadline that passes
  first is a fault.
* `Coordination`: weak fairness of the worker, strong fairness of `Reconcile`: it
  takes `operation.lock` without waiting (`manager.go:742`), so clients that
  keep trying disable it again and again, but not at every tick of the monitor.
* `LegacyScheduler`: weak fairness of the worker, of `Reconcile`, and of the end of
  a process that received KILL, which the kernel does not delay for good. Tasks may
  run forever. Nothing is assumed of operators: only what reconciliation resumes by
  itself is promised to be released.
* `TufRepository`: weak fairness of a run that is not stopped and of the client,
  which asks again and again; strong fairness of repeating the publication that was
  wanted last, since `docs/release-runbook.md:64` tells the operator to. It is
  disabled while another run writes.
* `RecoveryRetention` and `Authorization` state safety only.

Faults are bounded, so every liveness property says "once the faults end".

## 4. Proofs

The theorems hold for any values of the constants that the assumptions admit: any
sets of transactions, requests and plans, any number of operations, points, faults
and generations. Assumptions are the types of the constants, that absent values are
none of the present ones, that `None` is no record, and that a count of failures stays
within what its file admits (`MaxFailures`). None assumes a number of faults: a theorem
whose property is false behind some fault speaks of the states and steps before it.

| Module | Theorem | Property |
|---|---|---|
| `HostRestoreProofs` | `ControlInvariant` | the inductive invariant `ControlInv` |
| | `TypeCorrect` | `TypeOK` |
| | `PublicIsBounded` | `PublicNeverAhead` |
| | `FloorComesFirst` | `FloorBeforeAuthority` (a conjunct of the invariant) |
| | `HTTPIsProven` | `HTTPNeedsProof` |
| | `GenerationIsMonotone` | `GenerationMonotone` |
| | `LostAuthorityIsFinal` | `LostAuthorityStaysClosed` |
| | `CheckpointIsFrozen` | `CheckpointFrozen` |
| | `HostInvariant` | the inductive invariant `HostInv` |
| | `RestoreUsesControl` | a restore refines `[][Next]_controlVars` of `RecoveryControl` |
| | `RestoreKeepsGenerations` | what is proved of `RecoveryControl`, for the composed restore |
| | `DataIsReplacedUnderHold` | `ReplacedUnderHold` |
| | `ServedDataIsProven` | `ServesProvenData` |
| | `RestoredIsOfItsPoint` | `RestoredUnlessMisled` |
| | `RestoredDataStays` | `RestoredDataIsFinal` |
| | `QueuesAreKept` | `QueuesKept` |
| `UpdateOperationProofs` | `WorkerInvariant` | the inductive invariant `WorkerInv` |
| | `ReopenedOnlyBehindBoundary` | `ReopenedBehindBoundary` |
| | `WritesSurvive` | `AcceptedWritesSurvive` |
| | `ResultInvariant` | the inductive invariant `ResultInv` |
| | `ReopenedWhole`, `StatusIsTrue`, `PointIsOnRecord` | `ReopensWhole`, `StatusTruthful`, `PointOnRecord` |
| `ReleaseTransactionProofs` | `ReleaseInvariant` | the inductive invariant `Inv` |
| | `WorkersInOneHome` | `WorkersExclusive` |
| | `RolledBackIsWhole` | `RolledBackIsComplete` |
| | `UndoingIsSafe` | `UndoneUnlessMisled`, what holds of `UndoneSafely` whatever fails |
| | `TrafficIsKept` | `OnlyRedrainStopsTraffic`, what holds of `InFlightKept` whatever fails |
| | `FaultInvariant` | the inductive invariant `FaultInv`, which counts faults |
| | `ServedThroughReboot` | `ServesThroughReboot` in every state before a third fault |
| | `KeptUntilThirdFault` | `KeptWhileFew`: what `InFlightKept` says, of every step before a third fault |
| | `UndoneUntilFourthFault` | `UndoneUntilFourth`: what `UndoneSafely` says, of every step before a fourth fault |
| `CoordinationProofs` | `CoordinationInvariant` | the inductive invariant `CoordinationInv` |
| | `ReceiptsOutlivePowerLoss` | `AcceptedReceiptsLast` |
| | `RequestsRunOnTheirPlan` | `RunsOnItsPlan` |
| | `OrderInvariant` | the inductive invariant `OrderInv` |
| | `AuthorityStaysReadable` | `OrderReadable` |
| | `NothingMasquerades` | `NoMasquerade` |
| | `LogInvariant` | the inductive invariant `LogInv` |
| | `StoreImplementsLog` | `ImplementsLog`, the refinement of `RequestLog` |
| `AuthorizationProofs` | `CountersInvariant`, `BudgetInvariant` | the inductive invariants |
| | `CodesAreUsedOnce` | `OneUsePerCode` |
| | `GuessesAreAccounted` | `GuessesAccounted` |
| `RecoveryRetentionProofs` | `RetentionInvariant` | types and the inductive invariant |
| | `PlansKeepPoints`, `RestoresKeepPoints`, `LatestIsKept` | `PlanKept`, `UnresolvedKept`, `LatestKept` |
| `LegacySchedulerProofs` | `DrainTypes`, `DrainInvariant` | `TypeOK` and the inductive invariant |
| | `DrainIsSound` | `SoundDrain` |
| | `FrozenIsOnRecord` | `FrozenIsRecorded` |
| `TufRepositoryProofs` | `TufInvariant` | shapes and the inductive invariant |
| | `LiveRepositoryIsWhole`, `SitesNeverGoBack` | `LiveIsWhole`, `NeverOlder` |

None of the properties is inductive alone; what each invariant adds is the argument.

* *Recovery control.* An authority that is opened has both proofs; without that
  `OpenHTTP`'s test says nothing about the file it finds already open. While the
  marker is missing, no authority and no public copy exist; without that the
  authority created by a first change could be behind a public copy of an earlier
  one. Every operation is one `Commit` of some valid, proven authority that is
  `NotBefore` the loaded one (`CommitKeepsInv`).
* *Update operation.* The worker's copy never lacks evidence that is on disk
  (`Evidence`), the step it is at belongs to the plan it follows (`OnPlan`), and once
  the site is reopened that step is one of the last four (`Late`). The two facts that
  carry this are about data: what follows a late step in a plan is late (`PlanLate`),
  and a failure of a late step ends the operation or resumes again (`LateOutcome`).
  `ResultInv` adds what became of data and release: at each step of each path what the
  worker has replaced so far (`Replaced`); that behind the boundary the stages in its
  copy and in the record tell it too (`Evident`), since `Reconcile` decides from them
  alone; that the site is open once its resume is done (`Opened`); and that a recovery
  point is named, in the copy and then in the record, before data changes (`Named`,
  `Pointed`). What settles an operation is then true of the site (`Told`).
* *Host restore.* `ControlInv` of the authority is one part of `HostInv`; the others say
  what the worker holds at each position. Data steps run only under a restoring
  authority that this worker owns and that is published, with nothing running
  (`HoldInv`): `Begin` publishes before it returns, and nothing starts a service in
  between. `ProgressInv` lists what is replaced so far and carries it past a retry,
  which starts over as long as the generation is not restored. `OpenInv` ties the
  proofs to the generation they were made in. `QueueInv` says that queues which are
  moved aside, or which the next step may move, are archived in some generation; an
  archive of a generation that is not begun yet does not exist.
* *Release transaction.* The worker acts on its copy of the journal and the next worker
  on the file, which may be older by any write that failed. So the invariant says for
  each position what has been done to the site (`WorkInv`, `BackInv`, `TrafficInv`,
  `ClosedInv`) and separately what the file allows: queues run in the home that the
  identity names, or the file is of an unfinished online release whose drain was not
  recorded and they run in its source (`Astray`). Without that the second worker could
  start the candidate's queues next to the source's. A result "rolled back" is known to
  the worker only at its last step, when one home has everything (`RolledInv`). An
  upgrade container is left running only under a journal that is unfinished, at a step
  whose repair waits for it (`UpgradeInv`).

  `FaultInv` counts. Every save leaves copy and file alike or is a fault (`AgreeInv`).
  The one file that can mislead is that of an online release at its drain, or succeeded
  by a write that was reported as failed, while a worker switches the traffic back
  (`Reached`): undoing it takes a save of the success that failed and a mark of the
  failure that failed too, so two faults, and leaving the file to the next worker takes
  a third (`LagInv`). Until then a journal at its drain is true, the ingress, the identity
  and the containers are at the candidate (`ReachInv`); between two releases all are at
  the home that the identity names (`SteadyInv`), and before a switch at the source
  (`StayInv`); hence the homes of the ingress serve throughout (`ServeInv`), and the
  repeated drain stops the right one. A release that is misled about its ingress must
  fail in addition before it restores its point, which is the fourth fault (`UndoInv`).
* *Coordination.* All copies of one operation agree on identifier, sequence and
  request (`Identified`), and sequence numbers are bounded by the identifiers
  generated, so that the newest record exists. Hence the record that an update finds
  under its own identifier is the admission it is about to replace
  (`OwnAdmission`): a status moves on only where an admission was visible, and the
  write syncs it first. `OnItsPlan` says that an operation not yet dispatched still
  has the plan of this generation, which only its own run may end.
* *Authorization.* An accepted code is on record in the file or in an admission, and
  the code in hand is later than all that were accepted; what a call will leave of
  the aggregate budget accounts for the other scopes while it holds `mutation.lock`.
* *Retention.* Creation times are unique, the point in creation is no other, and
  what `Prune` chose is needed by nobody as long as it is being removed: plans and
  restores cannot start while the lock is held, and time only takes plans away.
* *Legacy scheduler.* A proof names an incarnation only as long as that one can start
  no task: it is written while the process is stopped and childless, and revoked
  before it is continued. A stopped process is on record because the intent is written
  first, of the inspected incarnation, and removed only once that one was continued,
  ended, or was another (`StopInHand`).
* *Publication.* What a run has written is in place before it is named, and
  everything the client has verified was live. Versions alone do not order the
  releases: an abandoned run may leave a whole targets file of one release above
  that of a release published after it.

Where a model takes a minimum or a maximum, the proofs show that bounded sets of
naturals have one by the well-foundedness of `<` (`LeastNat`).

Only model-checked: `ReleaseConverges`, `BoundaryRecovers`, `BoundaryConverges`,
`PendingResolves`, `FrozenIsReleased` and `ReleaseArrives`, since liveness under
fairness and `ENABLED` are out of the prover's reach; and, as they stand,
`ServesThroughReboot`, `InFlightKept` and `UndoneSafely`, which are false behind a third
and a fourth fault: their theorems say the same of the states and steps before it. Every other invariant and action property that a
passing run checks is stated by a theorem.

## 5. What is not modelled, and why

* `RecoveryControl`: file modes, symlink checks and JSON shape. They reject
  foreign files and are no part of the program's own histories.
* `HostRestore`: archive formats, manifest hashes and tree comparisons are data;
  the start of the HTTP pair is one step; the topologies are one.
* `UpdateOperation`: updates with a signed upgrade plan and switch backs are in
  `ReleaseTransaction`; the legacy partial-restore hold is left out. The order of an over-long journal after
  compaction is not kept, only which evidence it contains.
* `ReleaseTransaction`: the contents of a slot, assets, online snapshots, the
  plan preview, an ingress that does not run, and the data rollback that may
  replace a held release.
* `Coordination`: plan expiry, which is in `RecoveryRetention`, and reading of
  foreign files.
* `RecoveryRetention`: what a plan binds besides its point, and the formats of
  archives.
* `LegacyScheduler`: the timeout of `docker top`'s polling is one decision; one
  container stands for each, since containers share no file. The drain of an online
  release, whose containers are those of a slot, is in `ReleaseTransaction`.
* `TufRepository`: keys, thresholds, expiry, root rotation, `VerifyRepository` and
  the creation of a repository. They decide whether a document is accepted at all
  and depend on no interleaving.
* `Authorization`: TOTP arithmetic, secret provisioning; the limit of 1,000,000 failures
  of a file, which `MaxFailures` may not exceed.
* Installation: the journal of `install.go` resumes a sequence of steps whose state
  is mostly the contents of a site that nobody uses yet.
* The shutdown that waits at most thirty minutes for running recovery
  (`cmd/geoflow-updater/main.go:119`): what it leaves when it gives up is a crash.
* Enrollment, doctor, schema validation, bootstrap, CLI and HTTP routing
  keep no state of their own that other parts depend on, or write it once.

## 6. Plan

Built, in this order: `RecoveryControl` (everything else asks it), its proofs,
`HostRestore` (the most dangerous operation), `UpdateOperation` (who decides
about restores), `Authorization`, `RequestLog` and `Coordination`, `ReleaseTransaction`,
then `LegacyScheduler`, `RecoveryRetention`, `TufRepository`, and the proofs, the last of
them those of `HostRestore`, of the results of `UpdateOperation` and of
`ReleaseTransaction`.

What would add most next:

1. `Install`: the resumable journal.
2. Pure algorithms against reference definitions: `boundedOperationStages`,
   `reconciliationBackoff`, lockout arithmetic.
