----------------------------- MODULE HostRestore -----------------------------
(***************************************************************************)
(* A full data restore on the host: recovery.Store.Restore, the swap of the *)
(* storage and Redis directories, and the isolated restart that follows it *)
(* (deployment/host_recovery.go), run against the durable authority of     *)
(* RecoveryControl.                                                        *)
(*                                                                         *)
(* One worker holds operation.lock.  It restores either for a maintenance   *)
(* release that failed before traffic opened, or for a manual rollback.    *)
(* Any step may be the last one before an error or the death of the        *)
(* process ("interrupt").  Reconciliation never repeats a restore: it      *)
(* resumes an operation whose resume boundary is durable and holds every   *)
(* other one, for which the operator starts a new rollback, with a new     *)
(* identity and perhaps another point.                                     *)
(***************************************************************************)
EXTENDS RecoveryControl, FiniteSets

CONSTANTS
  ReleaseTx,      \* the transactions that belong to an update's release
  CreatesSource,  \* whether Docker creates a bind source that does not exist, as
                  \* it does for the short form of docker-compose.managed.yml:14
  MaxInterrupts   \* bound: errors and crashes explored

ASSUME RestoreConstants ==
  /\ ReleaseTx \subseteq Transactions
  /\ CreatesSource \in BOOLEAN
  /\ MaxInterrupts \in Nat
  /\ (Points \cup {None}) \cap {"live", "migrated", "written", "torn", "missing", "empty"} = {}

VARIABLES
  db,          \* contents of PostgreSQL
  files,       \* .env.prod, version.json and the deployment files
  live,        \* the directories the services mount, by name
  old,         \* .geoflow-updater-<dir>-old-<point>, by name and point
  evidence,    \* before-redis.tar.gz of each generation
  prepared,    \* the generation whose credentials were invalidated in db
  quarantined, \* the generation whose queues were quarantined in Redis
  running,     \* services that are up
  pc,          \* what the worker does next; "idle" and "held": nobody works
  owner,       \* transaction of the current operation
  target,      \* its recovery point
  admin,       \* its administrator digest
  boundary,    \* transactions whose resume boundary is durable
  misled,      \* ghost: directories this restore leaves to a swap that was never its own
  interrupts   \* how often a worker was interrupted

restoreVars == <<db, files, live, old, evidence, prepared, quarantined, running,
                 pc, owner, target, admin, boundary, misled, interrupts>>

vars == <<controlVars, restoreVars>>

Dirs == {"storage", "redis"}

Services == {"http", "background", "redis"}

\* Contents of a component: the business data, that data after a migration, what
\* users made of restored data, half of a replacement, no directory, a directory
\* without files, or a point.
Contents == Points \cup {"live", "migrated", "written", "torn", "missing", "empty"}

Replacing ==
  {"files", "database", "swap storage", "move storage", "drop storage",
   "swap redis", "move redis", "drop redis", "complete"}

Working ==
  Replacing \cup {"prepare", "drain", "begin", "preserve", "boundary", "resume",
                  "core", "manifest", "open", "serve"}

\* The three steps of a directory swap, and what follows it.
Swap(dir) == IF dir = "storage" THEN "swap storage" ELSE "swap redis"
Move(dir) == IF dir = "storage" THEN "move storage" ELSE "move redis"
Drop(dir) == IF dir = "storage" THEN "drop storage" ELSE "drop redis"
After(dir) == IF dir = "storage" THEN "swap redis" ELSE "complete"

--------------------

Go(next) == pc' = next /\ UNCHANGED interrupts

\* The worker ends with an error, or dies, and the operation is held.
Stop ==
  /\ interrupts < MaxInterrupts
  /\ interrupts' = interrupts + 1
  /\ pc' = "held"

\* After a control write: go on when all its files were written, else stop.
GoIf(done, next) == IF done = 4 THEN Go(next) ELSE Stop

dataVars == <<db, files, live, old, evidence>>
proofVars == <<prepared, quarantined>>
workVars == <<owner, target, admin, boundary, misled>>

\* Death or an error between two steps.  Only a worker can be interrupted.
Interrupt ==
  /\ pc \in Working
  /\ Stop
  /\ UNCHANGED <<controlVars, dataVars, proofVars, running, workVars>>

\* The daemon publishes the authority again whenever it starts.
DaemonStart(done) ==
  /\ Initialize(done)
  /\ UNCHANGED restoreVars

--------------------
(* Starting a restore.                                                     *)

Ready == authority.phase = "ready"

\* A maintenance release froze its checkpoint (captured) or failed to, perhaps
\* migrated the database, perhaps started the candidate, and then failed before
\* traffic opened.
StartRelease(tx, p, d) ==
  /\ pc = "idle" /\ owner # tx /\ tx \in ReleaseTx \ boundary
  /\ Ready
  /\ \/ CaptureCheckpoint(tx, p, d, 4) /\ db' \in {db, "migrated"}
     \/ UNCHANGED controlVars /\ db' = db
  /\ \E up \in SUBSET Services : running' = up
  /\ owner' = tx /\ target' = p
  /\ Go("prepare")
  /\ UNCHANGED <<files, live, old, evidence, proofVars, admin, boundary, misled>>

\* loadConfigForRecovery accepts a missing storage directory only when the
\* previous one lies at the staging path of the requested point.
Loads(p) == live["storage"] # "missing" \/ old["storage"][p] # "missing"

\* rollbackRunner: the point is validated and every service is drained before the
\* data is touched.  An error of quiesce leaves some services drained.
StartRollback(tx, p) ==
  /\ pc \in {"idle", "held"}
  /\ tx \notin ReleaseTx \cup boundary /\ owner # tx
  /\ Loads(p)
  /\ owner' = tx /\ target' = p
  /\ \/ running' = {} /\ Go("prepare")
     \/ \E up \in SUBSET running : running' = up /\ Stop
  /\ UNCHANGED <<controlVars, dataVars, proofVars, admin, boundary, misled>>

--------------------
(* deployment.prepareRestore and recovery.Store.restoreValidated           *)

\* The inspection container mounts storage; a missing source is created or the
\* container does not start.
Mounted == [live EXCEPT !["storage"] = IF @ = "missing" THEN "empty" ELSE @]

\* The administrators come from the generation itself on a retry, from the frozen
\* checkpoint, or from an inspection of the current database.
Prepare(done) ==
  /\ pc = "prepare"
  /\ Initialize(done)
  /\ \/ done < 4 /\ Stop /\ UNCHANGED <<live, admin>>
     \/ /\ done = 4 /\ Owns(authority, owner)
        /\ authority.point = target
        /\ admin' = authority.admin /\ UNCHANGED live
        /\ Go("drain")
     \/ /\ done = 4 /\ ~Owns(authority, owner) /\ checkpoint[owner] # None
        /\ checkpoint[owner].point = target
        /\ admin' = checkpoint[owner].admin /\ UNCHANGED live
        /\ Go("drain")
     \/ /\ done = 4 /\ ~Owns(authority, owner) /\ checkpoint[owner] = None
        /\ \E d \in Digests : admin' = d
        /\ live' = IF CreatesSource THEN Mounted ELSE live
        /\ \/ live'["storage"] # "missing" /\ Go("drain")
           \/ Stop
  /\ UNCHANGED <<db, files, old, evidence, proofVars, running, owner, target, boundary, misled>>

\* Faulty: only the services of the source are drained, not a started candidate.
DrainSource ==
  /\ pc = "drain"
  /\ Go("begin")
  /\ UNCHANGED <<controlVars, dataVars, proofVars, running, workVars>>

\* Faulty: the resume boundary is written before the data is replaced.
DrainAfterBoundary ==
  /\ pc = "drain"
  /\ running' = {}
  /\ boundary' = boundary \cup {owner}
  /\ Go("begin")
  /\ UNCHANGED <<controlVars, dataVars, proofVars, owner, target, admin, misled>>

\* restoreBeforeTraffic and Rollback take down what may still mount the data.
Drain ==
  /\ pc = "drain"
  /\ running' = {}
  /\ Go("begin")
  /\ UNCHANGED <<controlVars, dataVars, proofVars, workVars>>

\* A previous directory lies at the staging path of this point, beside a current one
\* that is not the point's: the swap it is left of does not explain what is there.
Misleads(dir) == old[dir][target] # "missing" /\ live[dir] \notin {"missing", target}

\* A generation whose data is already restored is not restored again.
BeginRestore(done) ==
  /\ pc = "begin"
  /\ Begin(owner, target, admin, done)
  /\ GoIf(done, IF BeginResult(Loaded, owner, target, admin).restored
                THEN "boundary" ELSE "preserve")
  /\ misled' = IF pc' = "preserve" THEN {dir \in Dirs : Misleads(dir)} ELSE misled
  /\ UNCHANGED <<dataVars, proofVars, running, owner, target, admin, boundary>>

\* Faulty: the data is replaced before the queues are archived.
ArchiveNothing ==
  /\ pc = "preserve"
  /\ Go("files")
  /\ UNCHANGED <<controlVars, dataVars, proofVars, running, workVars>>

\* preserveRedis: the queues are archived once per generation, from a directory
\* that must exist, and the archive is durable before the tree is replaced.
PreserveRedis ==
  /\ pc = "preserve"
  /\ evidence[authority.epoch] = None => live["redis"] # "missing"
  /\ evidence' = [evidence EXCEPT ![authority.epoch] =
                    IF @ = None THEN live["redis"] ELSE @]
  /\ Go("files")
  /\ UNCHANGED <<controlVars, db, files, live, old, proofVars, running, workVars>>

ReplaceFiles ==
  /\ pc = "files"
  /\ \/ files' = target /\ Go("database")
     \/ files' = "torn" /\ Stop
  /\ UNCHANGED <<controlVars, db, live, old, evidence, proofVars, running, workVars>>

\* pg_restore drops and creates the database without one transaction around it.
RestoreDatabase ==
  /\ pc = "database"
  /\ \/ db' = target /\ Go("swap storage")
     \/ db' = "torn" /\ Stop
  /\ prepared' = 0
  /\ UNCHANGED <<controlVars, files, live, old, evidence, quarantined, running, workVars>>

\* Faulty: an existing previous directory is taken for the swap of any point, so
\* an interrupted swap that lost its current directory is dropped as well.
SettleByDropping(dir) ==
  /\ pc = Swap(dir)
  /\ old[dir][target] # "missing"
  /\ old' = [old EXCEPT ![dir][target] = "missing"]
  /\ Go(After(dir))
  /\ UNCHANGED <<controlVars, db, files, live, evidence, proofVars, running, workVars>>

\* restoreStagedDirectory.  First an interrupted swap of this point is settled:
\* without a current directory the previous one is put back; with one the swap
\* counts as completed and the previous directory is removed.
SettleSwap(dir) ==
  /\ pc = Swap(dir)
  /\ old[dir][target] # "missing"
  /\ old' = [old EXCEPT ![dir][target] = "missing"]
  /\ IF live[dir] = "missing"
     THEN live' = [live EXCEPT ![dir] = old[dir][target]] /\ Go(pc)
     ELSE Go(After(dir)) /\ UNCHANGED live
  /\ UNCHANGED <<controlVars, db, files, evidence, proofVars, running, workVars>>

MoveAside(dir) ==
  /\ pc = Swap(dir)
  /\ old[dir][target] = "missing" /\ live[dir] # "missing"
  /\ old' = [old EXCEPT ![dir][target] = live[dir]]
  /\ live' = [live EXCEPT ![dir] = "missing"]
  /\ Go(Move(dir))
  /\ UNCHANGED <<controlVars, db, files, evidence, proofVars, running, workVars>>

\* The staged directory takes the place; an error of the rename puts the previous
\* directory back.
MoveIn(dir) ==
  /\ pc = Move(dir)
  /\ \/ /\ live' = [live EXCEPT ![dir] = target]
        /\ Go(Drop(dir))
        /\ UNCHANGED old
     \/ /\ live' = [live EXCEPT ![dir] = old[dir][target]]
        /\ old' = [old EXCEPT ![dir][target] = "missing"]
        /\ Stop
  /\ quarantined' = IF dir = "redis" THEN 0 ELSE quarantined
  /\ UNCHANGED <<controlVars, db, files, evidence, prepared, running, workVars>>

DropOld(dir) ==
  /\ pc = Drop(dir)
  /\ old' = [old EXCEPT ![dir][target] = "missing"]
  /\ Go(After(dir))
  /\ UNCHANGED <<controlVars, db, files, live, evidence, proofVars, running, workVars>>

CompleteRestore(done) ==
  /\ pc = "complete"
  /\ Restored(owner, done)
  /\ GoIf(done, "boundary")
  /\ UNCHANGED <<dataVars, proofVars, running, workVars>>

--------------------
(* deployment.Resume on restored data: resumeRecovered                     *)

\* The operation's resume stage, or the release's TrafficOpened flag, is durable
\* before any service starts.
PersistBoundary ==
  /\ pc = "boundary"
  /\ boundary' = boundary \cup {owner}
  /\ Go("resume")
  /\ UNCHANGED <<controlVars, dataVars, proofVars, running, owner, target, admin, misled>>

\* Faulty: only an unfinished validation is resumed.
RetryValidating ==
  /\ pc = "held" /\ owner \in boundary
  /\ authority.phase = "validating"
  /\ Go("resume")
  /\ UNCHANGED <<controlVars, dataVars, proofVars, running, workVars>>

\* Reconciliation only ever resumes, and only behind a durable boundary.
RetryResume ==
  /\ pc = "held" /\ owner \in boundary
  /\ Go("resume")
  /\ UNCHANGED <<controlVars, dataVars, proofVars, running, workVars>>

\* Faulty: services start from whatever public state a stopped write left.
StartUnpublished(done) ==
  /\ pc = "resume"
  /\ Owns(authority, owner) /\ authority.restored
  /\ IF done < 4 THEN Stop /\ UNCHANGED running
     ELSE /\ running' = running \cup {"redis"}
          /\ Go(IF authority.phase = "validating" THEN "core" ELSE "serve")
  /\ UNCHANGED <<controlVars, dataVars, proofVars, workVars>>

\* Resume goes by the phase of the authority.  Every Docker command is built by
\* runtimeArguments, which publishes the authority first.
StartData(done) ==
  /\ pc = "resume"
  /\ Owns(authority, owner) /\ authority.restored
  /\ Initialize(done)
  /\ IF done < 4 THEN Stop /\ UNCHANGED running
     ELSE /\ running' = running \cup {"redis"}
          /\ Go(IF authority.phase = "validating" THEN "core" ELSE "serve")
  /\ UNCHANGED <<dataVars, proofVars, workVars>>

\* The prepare and verify runs of Core invalidate the restored credentials and
\* must agree; their report becomes the durable proof.
PrepareCore(digest, done) ==
  /\ pc = "core"
  /\ RecordPreparation(owner, digest, done)
  /\ prepared' = authority.epoch
  /\ GoIf(done, "manifest")
  /\ UNCHANGED <<dataVars, quarantined, running, workVars>>

QuarantineRedis(digest, done) ==
  /\ pc = "manifest"
  /\ RecordRedisManifest(owner, digest, done)
  /\ quarantined' = authority.epoch
  /\ GoIf(done, "open")
  /\ UNCHANGED <<dataVars, prepared, running, workVars>>

Open(done) ==
  /\ pc = "open"
  /\ OpenHTTP(owner, done)
  /\ GoIf(done, "serve")
  /\ UNCHANGED <<dataVars, proofVars, running, workVars>>

\* startServices reads the authority again: in http_ready it starts the guarded
\* pair of app and web, and never a background service.
Serve ==
  /\ pc = "serve"
  /\ authority.phase = "http_ready"
  /\ running' = running \cup {"http"}
  /\ Go("idle")
  /\ UNCHANGED <<controlVars, dataVars, proofVars, workVars>>

\* Not an operation of the updater: users change the data that is served to them.
UserWrites ==
  /\ "http" \in running /\ public.phase = "http_ready"
  /\ db' = "written"
  /\ live' = [dir \in Dirs |-> "written"]
  /\ UNCHANGED <<controlVars, files, old, evidence, proofVars, running, pc, workVars,
                 interrupts>>

--------------------

\* The daemon serves only after its own Initialize succeeded (main.go:74); a
\* creation that was cut short is RecoveryControl's subject.
Init ==
  /\ authority = NewAuthority /\ public = PublicOf(NewAuthority)
  /\ marker = TRUE /\ floor = MinimumProtocol
  /\ checkpoint = [tx \in Transactions |-> None]
  /\ db = "live" /\ files = "live"
  /\ live = [dir \in Dirs |-> "live"]
  /\ old = [dir \in Dirs |-> [p \in Points |-> "missing"]]
  /\ evidence = [e \in 1 .. MaxEpoch |-> None]
  /\ prepared = 0 /\ quarantined = 0
  /\ running = Services
  /\ pc = "idle"
  /\ owner = None /\ target = None /\ admin = None
  /\ boundary = {} /\ misled = {}
  /\ interrupts = 0

\* The steps of a worker that is not interrupted.
Work ==
  \/ Prepare(4) \/ Drain \/ BeginRestore(4)
  \/ PreserveRedis \/ ReplaceFiles \/ RestoreDatabase
  \/ \E dir \in Dirs : SettleSwap(dir) \/ MoveAside(dir) \/ MoveIn(dir) \/ DropOld(dir)
  \/ CompleteRestore(4) \/ PersistBoundary
  \/ StartData(4)
  \/ \E d \in Digests : PrepareCore(d, 4) \/ QuarantineRedis(d, 4)
  \/ Open(4) \/ Serve

\* The same steps when one of their control writes fails.
FailedWrite(done) ==
  \/ Prepare(done) \/ BeginRestore(done) \/ CompleteRestore(done)
  \/ StartData(done) \/ Open(done)
  \/ \E d \in Digests : PrepareCore(d, done) \/ QuarantineRedis(d, done)

RestoreNext ==
  \/ Work
  \/ \E done \in Writes \ {4} : FailedWrite(done)
  \/ \E done \in Writes : DaemonStart(done)
  \/ Interrupt
  \/ RetryResume
  \/ UserWrites
  \/ \E tx \in Transactions, p \in Points :
       \/ StartRollback(tx, p)
       \/ \E d \in Digests : StartRelease(tx, p, d)

RestoreSpec == Init /\ [][RestoreNext]_vars

\* The monitor calls Reconcile again and again (cmd/geoflow-updater/main.go), and
\* a running worker keeps taking steps.  Nothing is assumed of operators.
FairRestoreSpec == RestoreSpec /\ WF_vars(Work) /\ WF_vars(RetryResume)

--------------------
(* Properties                                                              *)

\* The worker's bookkeeping stays within its type; in particular an archive is
\* never one of a directory that was not there (store.go:561 archiveDirectory).
RestoreTypeOK ==
  /\ db \in Contents /\ files \in Contents
  /\ live \in [Dirs -> Contents]
  /\ old \in [Dirs -> [Points -> Contents]]
  /\ evidence \in [1 .. MaxEpoch -> (Contents \ {"missing"}) \cup {None}]
  /\ running \subseteq Services
  /\ pc \in Working \cup {"idle", "held"}
  /\ boundary \subseteq Transactions /\ misled \subseteq Dirs
  /\ interrupts \in 0 .. MaxInterrupts

\* No business data is replaced unless the hold is already visible to PHP, under
\* the generation being restored, and nothing that mounts the data is up
\* (store.go:254 restoreValidated, recoverycontrol/store.go:259).
ReplacedUnderHold ==
  /\ pc \in Replacing =>
       /\ authority.phase = "restoring" /\ Owns(authority, owner)
       /\ authority.point = target
       /\ public = PublicOf(authority)
       /\ running = {}
  /\ {db, files, live["storage"], live["redis"]} \cap (Points \cup {"torn"}) # {} =>
       public.phase \in {"restoring", "validating", "http_ready"}

\* After a restore no background service runs, and HTTP answers only after the
\* credentials in that database and the queues in that Redis were dealt with in the
\* current generation and PHP reads that generation as open (host_recovery.go:119
\* resumeRecovered, bluegreen_helpers.go:363, recovery_runtime.go:34).
ServesProvenData ==
  ~Ready =>
    /\ "background" \notin running
    /\ "http" \in running =>
         /\ authority.opened /\ public = PublicOf(authority)
         /\ prepared = authority.epoch /\ quarantined = authority.epoch
         /\ files = authority.point

\* A population of queued jobs exists as the Redis directory, as a previous
\* directory, or as the durable archive of a generation.
Kept(queue) ==
  \/ live["redis"] = queue
  \/ \E p \in Points : old["redis"][p] = queue
  \/ \E e \in 1 .. MaxEpoch : evidence[e] = queue

\* No step of any restore, interrupted or not, loses a queue population that was
\* not itself taken from a recovery point (recovery/store.go:351 preserveRedis).
\* Redis itself may consume the first population while the site is in service.
QueuesKept ==
  [][ \A queue \in {"live", "written"} : Kept(queue) => Kept(queue)' ]_vars

\* Once the authority records that its data is restored, or the operation's
\* resume boundary is durable, only users change the data of that generation:
\* no retry, crash or late step overwrites what they wrote (recovery/store.go:299,
\* traffic.go:312; docs/recovery-contract.md "A completed data restore cannot
\* replay within the same transaction").
RestoredDataIsFinal ==
  [][ (authority.restored /\ authority'.epoch = authority.epoch) \/ (owner \in boundary) =>
        \/ db' = db /\ files' = files /\ live' = live
        \/ "http" \in running
        \/ owner' # owner ]_vars

\* A restore that counts as complete restored every part from its own point, wherever
\* an earlier one stopped (store_test.go:313-342 TestStoreRecoversAnInterrupted
\* StorageSwapBeforeRetryingRestore expects "backup data").
RestoredFromOnePoint ==
  authority.phase = "validating" =>
    /\ db = authority.point /\ files = authority.point
    /\ live["storage"] = authority.point /\ live["redis"] = authority.point

\* The same but for the directories whose swap was settled by what is not its own, and
\* even those are there (recovery/store.go:299, :698 reconcileInterruptedDirectorySwap).
RestoredUnlessMisled ==
  authority.phase = "validating" =>
    /\ db = authority.point /\ files = authority.point
    /\ "missing" \notin {live["storage"], live["redis"]}
    /\ \A dir \in Dirs \ misled : live[dir] = authority.point

\* An operation interrupted behind its boundary is brought back to service by
\* reconciliation alone, unless the operator starts another restore.
BoundaryRecovers ==
  \A tx \in Transactions :
    (owner = tx /\ tx \in boundary) ~> (owner # tx \/ "http" \in running)
==============================================================================
