-------------------------- MODULE ReleaseTransaction --------------------------
(***************************************************************************)
(* An update with a signed upgrade plan, and the switch back from it:       *)
(* ExecuteRelease, failRelease, ReconcileRelease and SwitchBack             *)
(* (internal/deployment/bluegreen.go, switchback.go, traffic.go) under the  *)
(* operation record of the manager.                                        *)
(*                                                                         *)
(* The site runs in one of three homes: the single deployment it was        *)
(* enrolled with, or a blue or a green slot behind an ingress.  The release *)
(* journal is written before and after every step.  Writes, steps and the   *)
(* process may fail at any point, and the host may reboot: then the         *)
(* containers with a restart policy come back and the ingress reads its     *)
(* configuration file again.                                               *)
(*                                                                         *)
(* The data restore of a failed maintenance release is HostRestore's        *)
(* subject and one step here.                                              *)
(***************************************************************************)
EXTENDS Naturals, Sequences

CONSTANTS
  MaxOps,     \* bound: operations started
  MaxFaults   \* bound: failed writes, failed steps, deadlines, crashes and reboots

ASSUME ReleaseConstants == MaxOps \in Nat /\ MaxFaults \in Nat

VARIABLES
  rec,        \* the manager's durable operation
  tx,         \* release-transaction.json, with op 0 when there is none
  mem,        \* the worker's copy of it
  pc,         \* what the worker does next
  workers,    \* homes that the ingress workers known to restoreApplication serve
  up,         \* running groups of services, as pairs <<home, group>>
  auto,       \* groups with a restart policy
  conf,       \* the home that nginx.conf names
  live,       \* the home that new requests go to
  inflight,   \* homes that old ingress workers still serve
  version,    \* the home whose version.json is in place
  active,     \* the home that instance.yml names
  data,       \* business data relative to the start of the operation
  migrating,  \* the one-off container of the upgrade is running
  faults

vars == <<rec, tx, mem, pc, workers, up, auto, conf, live, inflight, version, active,
          data, migrating, faults>>
containers == <<up, auto>>
ingress == <<conf, live, inflight>>
identity == <<version, active>>
site == <<containers, ingress, identity, data, migrating>>

Homes == {"site", "blue", "green"}
\* app and web; queues and the scheduler.  reverb starts with the first and is
\* drained before the wait for old requests: its clients reconnect.
Groups == {"http", "work"}

OtherSlot(home) == IF home = "blue" THEN "green" ELSE "blue"

Terminal == {"succeeded", "failed", "rolled_back"}

\* "pull" stands for all that precedes the first effect on the running site, and
\* "candidate" includes the change of the infrastructure layout.
Steps == {"pull", "quiesce", "backup", "upgrade", "candidate", "switch", "workers", "observe",
          "drain"}

Journal ==
  [op : 0 .. MaxOps, status : Terminal \cup {"running", "held"},
   stage : Steps \cup {"none", "resume", "switch-back", "succeeded"},
   strategy : {"online", "maintenance"}, source : Homes, candidate : Homes,
   opened : BOOLEAN, old : SUBSET Homes, point : BOOLEAN]

NoJournal ==
  [op |-> 0, status |-> "succeeded", stage |-> "none", strategy |-> "maintenance",
   source |-> "site", candidate |-> "site", opened |-> FALSE, old |-> {}, point |-> FALSE]

Plan(j) ==
  CASE j.strategy = "online" ->
         <<"pull", "upgrade", "candidate", "switch", "workers", "observe", "drain">>
    [] j.strategy = "maintenance" /\ j.source = "site" ->
         <<"pull", "quiesce", "backup", "upgrade", "candidate", "switch", "workers", "observe">>
    [] OTHER ->
         <<"pull", "quiesce", "backup", "upgrade", "candidate", "switch", "workers", "observe",
           "drain">>

At(step, phase) == [step |-> step, phase |-> phase]
Idle == At("idle", "none")
Finish(status) == At("finish", status)

NextStep(j) ==
  LET plan == Plan(j)
      i == CHOOSE n \in 1 .. Len(plan) : plan[n] = pc.step
  IN IF i < Len(plan) THEN At(plan[i + 1], "begin") ELSE At("drain", "succeed")

--------------------
(* Faults and durable writes.                                               *)

Fault == faults < MaxFaults /\ faults' = faults + 1

\* An error may come before or after the file was replaced.
Save(j, saved) ==
  \/ saved /\ tx' = j /\ UNCHANGED faults
  \/ ~saved /\ tx' \in {tx, j} /\ Fault

\* Where an error leads: a step of the release hands over to failRelease, and an
\* error of failRelease's own repair holds the release.
Repairing == pc.step \in {"back", "data", "source"}

\* Faulty: a repair that failed is saved like one that did not.
BrokenUnnoticed ==
  /\ Fault
  /\ \/ ~Repairing /\ pc' = At("fail", "journal") /\ UNCHANGED mem
     \/ Repairing /\ pc' = At("fail", "final") /\ mem' = [mem EXCEPT !.status = "rolled_back"]
     \/ pc' = Idle /\ UNCHANGED mem

\* The step fails here, or the process dies in the middle of it.
Broken ==
  /\ Fault
  /\ \/ ~Repairing /\ pc' = At("fail", "journal") /\ UNCHANGED mem
     \/ Repairing /\ pc' = At("fail", "final") /\ mem' = [mem EXCEPT !.status = "held"]
     \/ pc' = Idle /\ UNCHANGED mem

Goes(step, phase) == pc' = At(step, phase) /\ UNCHANGED <<mem, faults>>

\* drainServices takes the restart policy away before it stops a container.
Drains(groups, next) ==
  \/ up' = up \ groups /\ auto' = auto \ groups /\ next
  \/ /\ Broken
     /\ \E pinned \in SUBSET (groups \cap (up \cup auto)) :
          auto' = auto \ pinned /\ \E gone \in SUBSET pinned : up' = up \ gone

\* startServices gives it back before it starts one.
Starts(groups, next) ==
  \/ up' = up \cup groups /\ auto' = auto \cup groups /\ next
  \/ /\ Broken
     /\ \E pinned \in SUBSET groups :
          auto' = auto \cup pinned /\ \E started \in SUBSET pinned : up' = up \cup started

--------------------
(* Starting.                                                                *)

\* A generation of restored data exists: requireRecoveryReady.
Replaced == data \in {"restored", "torn"}

RunsIn(home) == \E group \in Groups : <<home, group>> \in up

\* The worker got as far as its preflight, with the journal it is going to write.
StartUpdate ==
  /\ pc = Idle /\ rec.status \in Terminal /\ rec.op < MaxOps
  /\ rec' = [op |-> rec.op + 1, kind |-> "update", status |-> "running", staged |-> TRUE]
  /\ \E strategy \in {"maintenance"} \cup (IF active = "site" THEN {} ELSE {"online"}) :
       mem' = [NoJournal EXCEPT !.op = rec.op + 1, !.status = "running", !.strategy = strategy,
                                !.source = active, !.candidate = OtherSlot(active)]
  /\ data' = IF Replaced THEN data ELSE "kept"
  /\ pc' = At("preflight", "none")
  /\ UNCHANGED <<tx, workers, containers, ingress, identity, migrating, faults>>

\* Refused while a journal is unfinished, the other slot still runs something, or a
\* restore generation exists.  An ambiguous first write of the journal is held.
Preflight ==
  /\ pc = At("preflight", "none")
  /\ IF tx.status \in {"running", "held"} \/ RunsIn(mem.candidate) \/ Replaced
     THEN pc' = Finish("failed") /\ UNCHANGED <<tx, faults>>
     ELSE \E saved \in BOOLEAN :
            /\ Save(mem, saved)
            /\ pc' = IF saved THEN At("pull", "begin")
                     ELSE Finish(IF tx' = mem THEN "held" ELSE "failed")
  /\ UNCHANGED <<rec, mem, workers, site>>

StartSwitchBack ==
  /\ pc = Idle /\ rec.status \in Terminal /\ rec.op < MaxOps
  /\ rec' = [op |-> rec.op + 1, kind |-> "switch-back", status |-> "running", staged |-> FALSE]
  /\ pc' = At("switch-back", "none")
  /\ UNCHANGED <<tx, mem, workers, site, faults>>

\* Only the release that is deployed, and was made online, can be switched back.
\* The journal is taken over first, and then the first stage is recorded.
SwitchBack ==
  /\ pc = At("switch-back", "none")
  /\ IF Replaced \/ tx.strategy # "online" \/ tx.status # "succeeded" \/ active # tx.candidate
     THEN pc' = Finish("failed") /\ UNCHANGED <<tx, mem, faults>>
     ELSE /\ mem' = [tx EXCEPT !.op = rec.op, !.status = "running", !.stage = "switch-back"]
          /\ \E saved \in BOOLEAN :
               Save(mem', saved) /\ pc' = IF saved THEN At("switch-back", "observe") ELSE Finish("failed")
  /\ UNCHANGED <<rec, workers, site>>

ObserveSwitchBack ==
  /\ pc = At("switch-back", "observe")
  /\ \/ rec' = [rec EXCEPT !.staged = TRUE] /\ pc' = At("back", "drain") /\ UNCHANGED faults
     \/ /\ \E staged \in BOOLEAN : rec' = [rec EXCEPT !.staged = staged]
        /\ pc' = At("fail", "journal") /\ Fault
  /\ UNCHANGED <<tx, mem, workers, site>>

--------------------
(* ExecuteRelease: the frame of a step.                                     *)

\* The stage is saved, and observed by the manager; either may fail.
Begin ==
  /\ pc.phase = "begin"
  /\ LET j == [mem EXCEPT !.stage = pc.step] IN
     \/ Save(j, TRUE) /\ mem' = j /\ pc' = At(pc.step, "run")
     \/ tx' \in {tx, j} /\ mem' = j /\ Fault /\ pc' = At("fail", "journal")
  /\ UNCHANGED <<rec, workers, site>>

End ==
  /\ pc.phase = "end"
  /\ \/ Save(mem, TRUE) /\ pc' = NextStep(mem)
     \/ tx' \in {tx, mem} /\ Fault /\ pc' = At("fail", "journal")
  /\ UNCHANGED <<rec, mem, workers, site>>

\* The last save, and in ExecuteRelease the last observation.
Succeed ==
  /\ pc.phase = "succeed"
  /\ mem' = [mem EXCEPT !.status = "succeeded", !.stage = "succeeded"]
  /\ \/ Save(mem', TRUE) /\ pc' = Finish("succeeded")
     \/ tx' \in {tx, mem'} /\ Fault /\ pc' = At("fail", "journal")
  /\ UNCHANGED <<rec, workers, site>>

--------------------
(* The steps.                                                               *)

Pull ==
  /\ pc = At("pull", "run")
  /\ Goes("pull", "end") \/ Broken
  /\ UNCHANGED <<rec, tx, workers, site>>

\* Every group of both slots is drained.
Quiesce ==
  /\ pc = At("quiesce", "run")
  /\ Drains(Homes \X Groups, Goes("quiesce", "end"))
  /\ UNCHANGED <<rec, tx, workers, ingress, identity, data, migrating>>

\* The point exists before the checkpoint is frozen.
Backup ==
  /\ pc = At("backup", "run")
  /\ \/ /\ mem' = [mem EXCEPT !.point = TRUE] /\ data' = "captured"
        /\ \/ pc' = At("backup", "end") /\ UNCHANGED faults
           \/ pc' = At("fail", "journal") /\ Fault
     \/ Broken /\ UNCHANGED data
  /\ UNCHANGED <<rec, tx, workers, containers, ingress, identity, migrating>>

\* An online upgrade keeps the data compatible with both releases.
Altered == IF data = "captured" THEN "migrated" ELSE data

\* The upgrade runs in a one-off container that outlives a killed Docker client.
Upgrade ==
  /\ pc = At("upgrade", "run")
  /\ \/ data' = Altered /\ Goes("upgrade", "end") /\ UNCHANGED migrating
     \/ Broken /\ data' \in {data, Altered} /\ migrating' \in BOOLEAN
  /\ UNCHANGED <<rec, tx, workers, containers, ingress, identity>>

MigrationEnds ==
  /\ migrating /\ migrating' = FALSE
  /\ data' \in {data, Altered}
  /\ UNCHANGED <<rec, tx, mem, pc, workers, containers, ingress, identity, faults>>

Candidate ==
  /\ pc = At("candidate", "run")
  /\ Starts({<<mem.candidate, "http">>}, Goes("candidate", "end"))
  /\ UNCHANGED <<rec, tx, workers, ingress, identity, data, migrating>>

\* From here on the data is not undone by this transaction.
OpenTraffic ==
  /\ pc = At("switch", "run")
  /\ mem' = [mem EXCEPT !.opened = TRUE]
  /\ \E saved \in BOOLEAN :
       Save(mem', saved) /\ pc' = IF saved THEN At("switch", "conf") ELSE At("fail", "journal")
  /\ UNCHANGED <<rec, workers, site>>

\* Faulty: the candidate's workers start before the source's are drained.
StartWorkersFirst ==
  /\ pc = At("workers", "run")
  /\ Goes("workers", "start")
  /\ UNCHANGED <<rec, tx, workers, site>>

\* The single deployment was drained by quiesce.
DrainWorkers ==
  /\ pc = At("workers", "run")
  /\ IF mem.source = "site" THEN Goes("workers", "start") /\ UNCHANGED containers
     ELSE Drains({<<mem.source, "work">>}, Goes("workers", "start"))
  /\ UNCHANGED <<rec, tx, workers, ingress, identity, data, migrating>>

StartWorkers ==
  /\ pc = At("workers", "start")
  /\ Starts({<<mem.candidate, "work">>}, Goes("workers", "end"))
  /\ UNCHANGED <<rec, tx, workers, ingress, identity, data, migrating>>

Observe ==
  /\ pc = At("observe", "run")
  /\ \/ live = mem.candidate /\ {mem.candidate} \X Groups \subseteq up /\ Goes("observe", "end")
     \/ Broken
  /\ UNCHANGED <<rec, tx, workers, site>>

\* Faulty: the old slot is drained while old requests run in it.
DrainAtOnce ==
  /\ pc \in {At("drain", "run"), At("redrain", "run")}
  /\ Goes(pc.step, "close")
  /\ UNCHANGED <<rec, tx, workers, site>>

\* The ingress workers that were there before the switch are gone, or the deadline
\* passes.
WaitDrained ==
  /\ pc \in {At("drain", "run"), At("redrain", "run")}
  /\ \/ inflight \cap mem.old = {} /\ Goes(pc.step, "close")
     \/ Broken
  /\ UNCHANGED <<rec, tx, workers, site>>

CloseSource ==
  /\ pc \in {At("drain", "close"), At("redrain", "close")}
  /\ Drains({<<mem.source, "http">>},
            Goes(pc.step, IF pc.step = "drain" THEN "end" ELSE "succeed"))
  /\ UNCHANGED <<rec, tx, workers, ingress, identity, data, migrating>>

--------------------
(* switchIngress and activateSlot, towards the candidate or back.           *)

Target == IF pc.step = "switch" THEN mem.candidate ELSE mem.source

\* The configuration is tested and the workers are listed before the file is
\* replaced.
WriteConf ==
  /\ pc.phase = "conf"
  /\ \/ /\ conf' = Target /\ UNCHANGED faults
        /\ workers' = {live} \cup inflight
        /\ mem' = IF pc.step = "switch" THEN [mem EXCEPT !.old = workers' \ {"site"}] ELSE mem
        /\ pc' = At(pc.step, "reload")
     \/ Broken /\ conf' \in {conf, Target} /\ UNCHANGED workers
  /\ UNCHANGED <<rec, tx, containers, live, inflight, identity, data, migrating>>

\* A failed reload puts the file back if it can; a reload that is not confirmed in
\* time leaves it.  The ingress may start for the first time here.
Reload ==
  /\ pc.phase = "reload"
  /\ \/ /\ live' = Target /\ Goes(pc.step, "version") /\ UNCHANGED conf
        /\ inflight' = (inflight \cup {live}) \ {Target, "site"}
     \/ /\ Broken /\ live' \in {live, Target}
        /\ inflight' = IF live' = live THEN inflight ELSE (inflight \cup {live}) \ {Target, "site"}
        /\ conf' \in {conf} \cup (IF live' = live /\ live # "site" THEN {live} ELSE {})
  /\ UNCHANGED <<rec, tx, workers, containers, identity, data, migrating>>

WriteVersion ==
  /\ pc.phase = "version"
  /\ \/ version' = Target /\ Goes(pc.step, "instance")
     \/ version' \in {version, Target} /\ Broken
  /\ UNCHANGED <<rec, tx, workers, containers, ingress, active, data, migrating>>

WriteInstance ==
  /\ pc.phase = "instance"
  /\ \/ active' = Target /\ Goes(pc.step, IF pc.step = "switch" THEN "end" ELSE "work")
     \/ active' \in {active, Target} /\ Broken
  /\ UNCHANGED <<rec, tx, workers, containers, ingress, version, data, migrating>>

--------------------
(* failRelease.                                                             *)

\* The journal is marked, or not: the error is ignored.
MarkFailed ==
  /\ pc = At("fail", "journal")
  /\ mem' = [mem EXCEPT !.status = "held"]
  /\ \E saved \in BOOLEAN : Save(mem', saved)
  /\ pc' = At("fail", "wait")
  /\ UNCHANGED <<rec, workers, site>>

\* Faulty: the upgrade container is not waited for.
ActAtOnce ==
  /\ pc = At("fail", "wait")
  /\ Goes("fail", "choose")
  /\ UNCHANGED <<rec, tx, workers, site>>

\* An upgrade container that does not end in time ends the attempt.
WaitUpgrade ==
  /\ pc = At("fail", "wait")
  /\ \/ ~migrating /\ Goes("fail", "choose") /\ UNCHANGED tx
     \/ migrating /\ Fault /\ tx' \in {tx, mem} /\ pc' = Finish("held") /\ UNCHANGED mem
  /\ UNCHANGED <<rec, workers, site>>

\* An online release switches back, unless only its drain is left; a maintenance
\* release restores its point or resumes its source before traffic opened, resumes
\* its source again behind the resume boundary, and otherwise stays held.
Undo ==
  IF mem.strategy = "online"
  THEN IF mem.stage = "drain" THEN At("fail", "final") ELSE At("back", "drain")
  ELSE IF mem.opened /\ mem.stage # "resume" THEN At("fail", "final")
  ELSE IF ~mem.opened /\ mem.point THEN At("data", "drain") ELSE At("source", "save")

Choose ==
  /\ pc = At("fail", "choose")
  /\ pc' = Undo
  /\ UNCHANGED <<rec, tx, mem, workers, site, faults>>

\* restoreApplication
DrainCandidateWork ==
  /\ pc = At("back", "drain")
  /\ Drains({<<mem.candidate, "work">>}, Goes("back", "start"))
  /\ UNCHANGED <<rec, tx, workers, ingress, identity, data, migrating>>

\* Faulty: the source is taken to be running still.
SkipSource ==
  /\ pc = At("back", "start")
  /\ Goes("back", "conf")
  /\ UNCHANGED <<rec, tx, workers, site>>

StartSource ==
  /\ pc = At("back", "start")
  /\ Starts({<<mem.source, "http">>}, Goes("back", "conf"))
  /\ UNCHANGED <<rec, tx, workers, ingress, identity, data, migrating>>

StartSourceWork ==
  /\ pc = At("back", "work")
  /\ Starts({<<mem.source, "work">>}, Goes("back", "wait"))
  /\ UNCHANGED <<rec, tx, workers, ingress, identity, data, migrating>>

WaitSwitchedBack ==
  /\ pc = At("back", "wait")
  /\ \/ inflight \cap workers = {} /\ Goes("back", "close")
     \/ Broken
  /\ UNCHANGED <<rec, tx, workers, site>>

\* The repair succeeded; the worker still has to save what it came to.
Repaired(status) ==
  mem' = [mem EXCEPT !.status = status] /\ pc' = At("fail", "final") /\ UNCHANGED faults

CloseCandidate ==
  /\ pc = At("back", "close")
  /\ Drains({<<mem.candidate, "http">>}, Repaired("rolled_back"))
  /\ UNCHANGED <<rec, tx, workers, ingress, identity, data, migrating>>

\* restoreBeforeTraffic
DrainCandidate ==
  /\ pc = At("data", "drain")
  /\ Drains({mem.candidate} \X Groups, Goes("data", "restore"))
  /\ UNCHANGED <<rec, tx, workers, ingress, identity, data, migrating>>

RestoreData ==
  /\ pc = At("data", "restore")
  /\ \/ data' = "restored" /\ Goes("source", "save")
     \/ data' \in {data, "torn"} /\ Broken
  /\ UNCHANGED <<rec, tx, workers, containers, ingress, identity, migrating>>

\* resumeSource: the boundary is durable before the source is started.
SaveBoundary ==
  /\ pc = At("source", "save")
  /\ \/ mem' = [mem EXCEPT !.stage = "resume", !.opened = TRUE]
        /\ Save(mem', TRUE) /\ pc' = At("source", "start")
     \/ /\ mem' = [mem EXCEPT !.stage = "resume", !.opened = TRUE, !.status = "held"]
        /\ tx' \in {tx, mem'} /\ Fault /\ pc' = At("fail", "final")
  /\ UNCHANGED <<rec, workers, site>>

\* The home that instance.yml names, which the ingress still serves.  Restored data
\* comes back without background services.
Resumed ==
  IF data = "restored" THEN {<<active, "http">>} ELSE {active} \X Groups

ResumeSource ==
  /\ pc = At("source", "start")
  /\ Starts(Resumed, Repaired(IF mem.point THEN "rolled_back" ELSE "failed"))
  /\ UNCHANGED <<rec, tx, workers, ingress, identity, data, migrating>>

\* Whatever is known is saved; what cannot be saved is held.
SaveResult ==
  /\ pc = At("fail", "final")
  /\ \/ Save(mem, TRUE) /\ pc' = Finish(mem.status)
     \/ tx' \in {tx, mem} /\ Fault /\ pc' = Finish("held")
  /\ UNCHANGED <<rec, mem, workers, site>>

--------------------
(* The manager: the end of an operation, and Reconcile.                     *)

\* A switch back that was carried out succeeded.  An update that failed in a stage
\* that closes the site is held once, for Reconcile to settle.
RecordAs(status) ==
  IF rec.kind = "switch-back" /\ status = "rolled_back" THEN {"succeeded"}
  ELSE IF rec.kind = "update" /\ pc.step = "finish" /\ status = "failed" /\ mem.stage = "resume"
       THEN {"failed", "held"}
  ELSE {status}

\* The terminal write of the operation; its error is ignored.
EndOperation ==
  /\ pc.step \in {"finish", "settle"}
  /\ \/ /\ \E status \in RecordAs(pc.phase) :
             rec' = [rec EXCEPT !.status = status, !.staged = TRUE]
        /\ UNCHANGED faults
     \/ Fault /\ UNCHANGED rec
  /\ pc' = Idle
  /\ UNCHANGED <<tx, mem, workers, site>>

\* Faulty: an online release needs a resume boundary as well.
ResumesBehindBoundary(j) == j.stage = "resume" /\ j.opened

\* Only a maintenance release behind its resume boundary is repaired without an
\* administrator.
Resumes(j) == j.strategy = "online" \/ (j.stage = "resume" /\ j.opened)

\* reconcileOperation.  An operation without any stage did nothing; an operation
\* without a journal of its own is held.
Reconcile ==
  /\ pc = Idle /\ rec.status \in {"running", "held"}
  /\ mem' = tx
  /\ pc' = CASE ~rec.staged -> At("settle", "failed")
             [] rec.staged /\ tx.op # rec.op -> At("settle", "held")
             [] rec.staged /\ tx.op = rec.op /\ tx.status \in Terminal -> At("settle", tx.status)
             [] OTHER -> IF ~Resumes(tx) THEN At("settle", "held")
                         ELSE IF tx.strategy = "online" /\ tx.stage = "drain"
                         THEN At("redrain", "run") ELSE At("fail", "journal")
  /\ UNCHANGED <<rec, tx, workers, site, faults>>

--------------------
(* The surroundings.                                                        *)

\* The updater dies, or is restarted.
Crash ==
  /\ pc # Idle /\ Fault /\ pc' = Idle
  /\ UNCHANGED <<rec, tx, mem, workers, site>>

\* The host restarts: containers with a restart policy come back, and the ingress
\* reads the configuration that is on disk.
Reboot ==
  /\ Fault /\ pc' = Idle
  /\ up' = auto /\ inflight' = {}
  /\ live' \in IF live # "site" THEN {conf} ELSE IF conf = "none" THEN {live} ELSE {live, conf}
  /\ migrating' = FALSE
  /\ data' \in {data} \cup (IF migrating THEN {Altered} ELSE {})
  /\ UNCHANGED <<rec, tx, mem, workers, auto, conf, identity>>

\* The last request of the old ingress workers of a home ends.
InflightEnds(home) ==
  /\ home \in inflight /\ inflight' = inflight \ {home}
  /\ UNCHANGED <<rec, tx, mem, pc, workers, containers, conf, live, identity, data, migrating, faults>>

\* Visitors and queue jobs write.
UserWrites ==
  /\ data \in {"captured", "migrated"}
  /\ <<live, "http">> \in up \/ \E home \in Homes : <<home, "work">> \in up
  /\ data' = "written"
  /\ UNCHANGED <<rec, tx, mem, pc, workers, containers, ingress, identity, migrating, faults>>

--------------------
(* Specification.                                                           *)

\* A site in its single layout, or one that was installed into its blue slot.
Init ==
  /\ active \in {"site", "blue"} /\ version = active /\ live = active
  /\ conf = IF active = "site" THEN "none" ELSE active
  /\ up = {active} \X Groups /\ auto = up
  /\ rec = [op |-> 0, kind |-> "update", status |-> "succeeded", staged |-> TRUE]
  /\ tx = NoJournal /\ mem = NoJournal
  /\ pc = Idle /\ workers = {} /\ inflight = {}
  /\ data = "kept" /\ migrating = FALSE /\ faults = 0

Release ==
  \/ Begin \/ End \/ Succeed
  \/ Pull \/ Quiesce \/ Backup \/ Upgrade \/ Candidate \/ OpenTraffic
  \/ DrainWorkers \/ StartWorkers \/ Observe \/ WaitDrained \/ CloseSource

Activate == WriteConf \/ Reload \/ WriteVersion \/ WriteInstance

Repair ==
  \/ MarkFailed \/ WaitUpgrade \/ Choose
  \/ DrainCandidateWork \/ StartSource \/ StartSourceWork \/ WaitSwitchedBack \/ CloseCandidate
  \/ DrainCandidate \/ RestoreData \/ SaveBoundary \/ ResumeSource \/ SaveResult

Worker ==
  Preflight \/ SwitchBack \/ ObserveSwitchBack \/ Release \/ Activate \/ Repair \/ EndOperation

Next ==
  \/ StartUpdate \/ StartSwitchBack \/ Worker \/ Reconcile
  \/ MigrationEnds \/ Crash \/ Reboot \/ UserWrites
  \/ \E home \in Homes : InflightEnds(home)

Spec == Init /\ [][Next]_vars

FairSpec ==
  /\ Spec
  /\ WF_vars(Worker) /\ WF_vars(Reconcile) /\ WF_vars(MigrationEnds)
  /\ \A home \in Homes : WF_vars(InflightEnds(home))

--------------------
(* Properties.                                                              *)

\* Every variable has its type.
TypeOK ==
  /\ rec \in [op : 0 .. MaxOps, kind : {"update", "switch-back"},
              status : Terminal \cup {"running", "held"}, staged : BOOLEAN]
  /\ tx \in Journal /\ mem \in Journal
  /\ workers \subseteq Homes /\ inflight \subseteq Homes \ {"site"}
  /\ up \subseteq Homes \X Groups /\ auto \subseteq Homes \X Groups
  /\ conf \in {"none", "blue", "green"}
  /\ {live, version, active} \subseteq Homes
  /\ data \in {"kept", "captured", "migrated", "written", "restored", "torn"}
  /\ migrating \in BOOLEAN /\ faults \in 0 .. MaxFaults

\* During an online release and its switch back the home that new requests go to is
\* running at every moment, and the home that the ingress would read from its file
\* after a reboot would come back with it (switchIngress, activateSlot, the order of
\* drains and starts in ExecuteRelease and restoreApplication).  Two faults at most: see
\* InFlightKept.
ServesThroughReboot ==
  tx.strategy = "online" => <<live, "http">> \in up /\ <<conf, "http">> \in auto

\* Queues and the scheduler never run in two homes, not even after a reboot: the one
\* home is drained before the other one's are started (drainBackground).
WorkersExclusive ==
  \A one, other \in Homes :
    one # other => /\ {<<one, "work">>, <<other, "work">>} \cap up # {<<one, "work">>, <<other, "work">>}
                   /\ {<<one, "work">>, <<other, "work">>} \cap auto # {<<one, "work">>, <<other, "work">>}

\* An online release stops a home only when no request is running in it and no new
\* one can come (waitIngressWorkers; bluegreen.go: "A drain deadline retains both slots
\* so live requests are never killed to finish a release").  Two faults at most: with a
\* third, a release that could write neither its success nor its failure dies behind its
\* switch back, and its journal, still at the drain, has the serving home stopped.
InFlightKept ==
  [][\A home \in Homes :
       tx.strategy = "online" /\ <<home, "http">> \in up /\ <<home, "http">> \notin up'
         => home # live /\ home \notin inflight]_vars

\* A failed release never restores its point over what users wrote since, and never
\* under an upgrade that still runs (failRelease, waitUpgradeContainers,
\* restoreBeforeTraffic).  Three faults at most: once a repeated drain has stopped a
\* serving source (see InFlightKept), a later maintenance release starts the home that
\* the ingress still reads, users write through it, and its failure restores the point
\* over them.  An upgrade is never running, whatever the faults.
UndoneSafely ==
  [][data' = "restored" /\ data # "restored" => data # "written" /\ ~migrating]_vars

\* What the journal calls rolled back online is served by the source alone: traffic,
\* configuration, identity and workers (restoreApplication, SaveResult).
RolledBackIsComplete ==
  tx.strategy = "online" /\ tx.status = "rolled_back" /\ pc = Idle =>
    /\ {live, conf, version, active} = {tx.source}
    /\ up = {tx.source} \X Groups /\ auto = up

\* Once faults end, an unfinished online release comes to an end, also behind an
\* interruption, a deadline and a reboot (ReconcileRelease).
ReleaseConverges ==
  tx.op = rec.op /\ tx.strategy = "online" /\ rec.status \notin Terminal
    ~> rec.status \in Terminal

\* Violated.  README.md: "startup reconciliation after interrupted operations".  An
\* unfinished journal belongs to an operation that reconciliation still works on.
JournalOwned ==
  pc = Idle /\ rec.status \in Terminal => tx.status \in Terminal

=============================================================================
