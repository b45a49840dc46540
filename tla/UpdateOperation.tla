--------------------------- MODULE UpdateOperation ---------------------------
(***************************************************************************)
(* One operation at a time on a managed site: operation.Manager (start,    *)
(* the runners, Reconcile) together with update.Engine, whose plan, undo   *)
(* and compensation it drives for an update without a signed upgrade plan. *)
(*                                                                         *)
(* A worker holds operation.lock while it runs.  It owns a copy of the     *)
(* operation in memory and writes it after every stage; each write, each    *)
(* external step, and the process itself may fail.  When no worker runs,    *)
(* the monitor reconciles what the durable record says.                     *)
(*                                                                         *)
(* The stage "preflight" stands for all that an update does before it        *)
(* closes the site: resolve, preflight and pull.                             *)
(*                                                                         *)
(* A stage is a pair <<name, status>>.  The journal keeps the first         *)
(* evidence of every kind when it is compacted (boundedOperationStages), so *)
(* the set of pairs is what Reconcile can ask of it.  <<"resume",           *)
(* "running">> is the durable resume boundary.                              *)
(***************************************************************************)
EXTENDS Naturals, Sequences

CONSTANTS
  Kinds,       \* the kinds of operation explored, among AllKinds
  MaxOps,      \* bound: operations started
  MaxFaults    \* bound: failed writes, failed steps and crashes

AllKinds == {"update", "backup", "rollback", "verify"}

ASSUME OperationConstants ==
  /\ Kinds \subseteq AllKinds
  /\ MaxOps \in Nat
  /\ MaxFaults \in Nat

VARIABLES
  disk,     \* the durable operation: the head record that projections are repaired from
  op,       \* the worker's copy
  pc,       \* what the worker does next
  site,     \* "open"; "closed" by maintenance; "reopened" by this operation
  data,     \* business data relative to the start of the operation
  release,  \* the deployed release relative to the start of the operation
  restore,  \* what the recovery authority says: "ready", "restoring" or "restored"
  faults

vars == <<disk, op, pc, site, data, release, restore, faults>>
siteVars == <<site, data, release, restore>>

\* Half-replaced, by this operation or already when it started.
Half == {"torn", "inherited"}

Names == {"preflight", "quiesce", "backup", "migrate", "activate", "rollback",
          "resume", "verify", "succeeded", "rolled_back"}

Stages == Names \X {"running", "succeeded", "failed"}

ActiveStatuses == {"queued", "running", "recovery_required"}
Statuses == ActiveStatuses \cup {"none", "succeeded", "failed", "rolled_back"}

Operation ==
  [id : 0 .. MaxOps, kind : AllKinds \cup {"none"}, status : Statuses,
   stages : SUBSET Stages, point : BOOLEAN]

NoOperation == [id |-> 0, kind |-> "none", status |-> "none", stages |-> {}, point |-> FALSE]

Boundary == <<"resume", "running">>

\* What the worker is following: the plan of the kind; the data restore of a
\* failed update; the compensations that resume without a restore; the service
\* recovery of Reconcile.
Paths == {"main", "undo", "restart", "reopen", "again"}

Plan(path, kind) ==
  CASE path = "undo" -> <<"rollback", "resume", "verify", "rolled_back">>
    [] path = "restart" -> <<"resume", "verify">>
    [] path = "reopen" -> <<"resume">>
    [] path = "again" -> IF kind = "verify" THEN <<"verify">> ELSE <<"resume", "verify">>
    [] path = "main" /\ kind = "update" ->
         <<"preflight", "quiesce", "backup", "migrate", "activate", "resume", "verify",
           "succeeded">>
    [] path = "main" /\ kind = "backup" ->
         <<"preflight", "quiesce", "backup", "resume", "verify">>
    [] path = "main" /\ kind = "rollback" ->
         <<"preflight", "quiesce", "rollback", "resume", "verify">>
    [] OTHER -> <<"verify">>

Idle == [path |-> "idle", step |-> "none", phase |-> "none"]
At(path, step, phase) == [path |-> path, step |-> step, phase |-> phase]
Start(path, kind) == At(path, Plan(path, kind)[1], "emit")
Finish == At("finish", "none", "none")

\* These two mark a result and run nothing.
Marker(step) == step \in {"succeeded", "rolled_back"}

\* The engine restores data even when it cannot write that it does, and a restored
\* update is rolled back even when that cannot be written.
Tolerated(path, step) == path = "undo" /\ step \in {"rollback", "rolled_back"}

\* The reconciled verification runs without a stage of its own.
Quiet == pc.path = "again" /\ op.kind = "verify"

--------------------
(* Durable writes.                                                          *)

Staged(o, name, status) == [o EXCEPT !.stages = @ \cup {<<name, status>>}]

Fault == faults < MaxFaults /\ faults' = faults + 1

\* Faulty: an error of the write is not reported to the caller.
SaveUnnoticed(o, saved) ==
  /\ saved
  /\ \/ disk' = o /\ UNCHANGED faults
     \/ disk' = disk /\ Fault

\* save writes the operation head and then its projections.  An error may come
\* before or after the head was replaced; repairAdmissions makes the head win.
Save(o, saved) ==
  \/ saved /\ disk' = o /\ UNCHANGED faults
  \/ ~saved /\ disk' \in {disk, o} /\ Fault

--------------------
(* Where a step leads.                                                      *)

Stop(status) == [path |-> "finish", status |-> status]
Follow(path, status) == [path |-> path, status |-> status]

\* Faulty: every failure of an update after its backup restores the point, also
\* one of resume or verify.
UndoAlways(kind, path, step, how) ==
  CASE step = "preflight" \/ (kind = "verify" /\ path = "main") -> Stop("failed")
    [] path = "main" /\ kind = "update" /\ step = "quiesce" /\ how # "emit" ->
         Follow("restart", "running")
    [] path = "main" /\ kind = "update" /\ step = "backup" /\ how # "done" ->
         Follow(IF how = "emit" THEN "restart" ELSE "reopen", "running")
    [] path = "main" /\ kind = "update" /\ step \notin {"preflight", "quiesce"}
         /\ (step = "backup" => how = "done") -> Follow("undo", "running")
    [] path = "main" /\ kind = "backup" /\ step = "quiesce" -> Follow("restart", "failed")
    [] path = "main" /\ kind = "backup" /\ step = "backup" -> Follow("reopen", "failed")
    [] path \in {"main", "reopen"} /\ kind = "backup" /\ step = "resume" ->
         Follow("restart", "recovery_required")
    [] OTHER -> Stop("recovery_required")

\* "how" tells when the step failed: writing its running stage ("emit"), running
\* it ("run"), or writing its success ("done").  Either the operation ends with a
\* status or the worker follows another path.  A backup already carries its
\* failed status while it resumes; the engine decides at the end.
Outcome(kind, path, step, how) ==
  CASE step = "preflight" \/ (kind = "verify" /\ path = "main") -> Stop("failed")
    [] path = "main" /\ kind = "update" /\ step = "quiesce" /\ how # "emit" ->
         Follow("restart", "running")
    [] path = "main" /\ kind = "update" /\ step = "backup" /\ how # "done" ->
         Follow(IF how = "emit" THEN "restart" ELSE "reopen", "running")
    [] path = "main" /\ kind = "update" /\ step \in {"backup", "migrate", "activate"}
         /\ (step = "backup" => how = "done") -> Follow("undo", "running")
    [] path = "main" /\ kind = "backup" /\ step = "quiesce" -> Follow("restart", "failed")
    [] path = "main" /\ kind = "backup" /\ step = "backup" -> Follow("reopen", "failed")
    [] path \in {"main", "reopen"} /\ kind = "backup" /\ step = "resume" ->
         Follow("restart", "recovery_required")
    [] OTHER -> Stop("recovery_required")

\* The result of an update that compensated names no recovery point.
Recover(o, how) ==
  LET outcome == Outcome(o.kind, pc.path, pc.step, how) IN
  /\ op' = [o EXCEPT !.status = outcome.status,
                     !.point = @ /\ (o.kind = "update" => pc.step \notin {"quiesce", "backup"}
                                                          \/ outcome.path = "undo")]
  /\ pc' = IF outcome.path = "finish" THEN Finish ELSE Start(outcome.path, o.kind)

Has(o, name, status) == <<name, status>> \in o.stages

\* Faulty: an update whose data was restored still counts as activated.
SettledByActivation(o) ==
  CASE o.kind = "backup" -> IF o.point THEN "succeeded" ELSE "failed"
    [] o.kind = "update" -> IF Has(o, "activate", "succeeded") THEN "succeeded"
                            ELSE IF Has(o, "rollback", "succeeded") THEN "rolled_back" ELSE "failed"
    [] OTHER -> "succeeded"

\* Data was restored, or the target was activated and no restore was begun after it.
Undone(o) == Has(o, "rollback", "succeeded") \/ Has(o, "rolled_back", "succeeded")
Activated(o) ==
  /\ Has(o, "activate", "succeeded") \/ Has(o, "succeeded", "succeeded")
  /\ ~Has(o, "rollback", "running") /\ ~Has(o, "rollback", "failed")

\* What Reconcile concludes from the evidence once services run again.
Settled(o) ==
  CASE o.kind = "backup" -> IF o.point THEN "succeeded" ELSE "failed"
    [] o.kind = "update" -> IF Undone(o) THEN "rolled_back"
                            ELSE IF Activated(o) THEN "succeeded" ELSE "failed"
    [] OTHER -> "succeeded"

\* updateRecoveryNeeded: an update that had to compensate stays held.
Result(o) ==
  CASE pc.path = "main" -> "succeeded"
    [] pc.path = "undo" -> "rolled_back"
    [] pc.path = "again" -> Settled(o)
    [] OTHER -> IF o.kind = "update" THEN "recovery_required" ELSE o.status

\* The step is done: continue with the next of the plan, or conclude.
Advance(o) ==
  LET plan == Plan(pc.path, o.kind)
      i == CHOOSE n \in 1 .. Len(plan) : plan[n] = pc.step
  IN IF i < Len(plan)
     THEN op' = o /\ pc' = At(pc.path, plan[i + 1], "emit")
     ELSE op' = [o EXCEPT !.status = Result(o)] /\ pc' = Finish

--------------------
(* Starting.                                                                *)

\* startAccepted: nothing may be unfinished, except that a rollback may replace a
\* held operation.  The head is durable before the first save.
StartOp(kind) ==
  /\ pc = Idle /\ disk.id < MaxOps
  /\ disk.status \notin {"queued", "running"}
  /\ disk.status = "recovery_required" => kind = "rollback"
  /\ disk' = [NoOperation EXCEPT !.id = disk.id + 1, !.kind = kind, !.status = "queued",
                                 !.point = (kind = "rollback")]
  /\ \/ op' = disk' /\ pc' = At("main", "none", "queued") /\ UNCHANGED faults
     \/ pc' = Idle /\ Fault /\ UNCHANGED op
  /\ site' = IF site = "reopened" THEN "open" ELSE site
  /\ data' = IF data \in Half THEN "inherited" ELSE "kept"
  /\ release' = IF release \in Half THEN "inherited" ELSE "source"
  /\ UNCHANGED restore

\* The goroutine marks the operation running; if it cannot, it leaves.
RunOp ==
  /\ pc.phase = "queued"
  /\ op' = [op EXCEPT !.status = "running"]
  /\ \E saved \in BOOLEAN :
       /\ Save(op', saved)
       /\ pc' = IF saved THEN Start("main", op.kind) ELSE Idle
  /\ UNCHANGED siteVars

--------------------
(* A step: its running stage, its effect, its final stage.                  *)

\* Faulty: the stage of a step is written after the step began.
EmitLater ==
  /\ pc.phase = "emit"
  /\ op' = Staged(op, pc.step, "running") /\ pc' = At(pc.path, pc.step, "run")
  /\ UNCHANGED <<disk, faults, siteVars>>

Emit ==
  /\ pc.phase = "emit"
  /\ \E saved \in BOOLEAN :
       LET o == Staged(op, pc.step, IF Marker(pc.step) THEN "succeeded" ELSE "running") IN
       /\ Save(o, saved)
       /\ \/ ~Marker(pc.step) /\ (saved \/ Tolerated(pc.path, pc.step))
             /\ op' = o /\ pc' = At(pc.path, pc.step, "run")
          \/ Marker(pc.step) /\ (saved \/ Tolerated(pc.path, pc.step)) /\ Advance(o)
          \/ ~saved /\ ~Tolerated(pc.path, pc.step) /\ Recover(o, "emit")
  /\ UNCHANGED siteVars

\* Doctor finds a closed site unhealthy, the preflight of a rollback only looks at
\* the point, an update is refused once a restore generation exists, and nothing
\* resumes while a restore is incomplete.
Unhealthy(step) ==
  \/ step = "verify" /\ site = "closed"
  \/ step = "preflight" /\ op.kind # "rollback" /\ site = "closed"
  \/ step = "preflight" /\ op.kind = "update" /\ restore # "ready"
  \/ step \in {"resume", "verify"} /\ restore = "restoring"

\* What the deployment does when the step succeeds.
Succeeds(step) ==
  CASE step = "quiesce" -> site' = "closed" /\ UNCHANGED <<data, release, restore>>
    [] step = "migrate" -> data' = "migrated" /\ UNCHANGED <<site, release, restore>>
    [] step = "activate" -> release' = "target" /\ UNCHANGED <<site, data, restore>>
    [] step = "rollback" ->
         site' = "closed" /\ data' = "restored" /\ release' = "source" /\ restore' = "restored"
    [] step = "resume" -> site' = "reopened" /\ UNCHANGED <<data, release, restore>>
    [] OTHER -> UNCHANGED siteVars

\* A failed step may have done any part of its work.
Breaks(step) ==
  CASE step = "quiesce" -> site' \in {site, "closed"} /\ UNCHANGED <<data, release, restore>>
    [] step = "migrate" -> data' \in {data, "migrated", "torn"} /\ UNCHANGED <<site, release, restore>>
    [] step = "activate" -> release' \in {release, "torn"} /\ UNCHANGED <<site, data, restore>>
    [] step = "rollback" ->
         \/ site' \in {site, "closed"} /\ UNCHANGED <<data, release, restore>>
         \/ /\ site' = "closed" /\ data' \in {data, "torn"} /\ release' \in {release, "torn"}
            /\ restore' = "restoring"
    [] step = "resume" -> site' \in {site, "reopened"} /\ UNCHANGED <<data, release, restore>>
    [] OTHER -> UNCHANGED siteVars

Do ==
  /\ pc.phase = "run"
  /\ \/ /\ ~Unhealthy(pc.step) /\ Succeeds(pc.step) /\ UNCHANGED faults
        /\ op' = [op EXCEPT !.point = @ \/ pc.step = "backup"]
        /\ pc' = At(pc.path, pc.step, "done")
     \/ /\ ~Unhealthy(pc.step) /\ Breaks(pc.step) /\ Fault
        /\ pc' = At(pc.path, pc.step, "broken") /\ UNCHANGED op
     \/ /\ Unhealthy(pc.step)
        /\ pc' = At(pc.path, pc.step, "broken") /\ UNCHANGED <<op, faults, siteVars>>
  /\ UNCHANGED disk

\* After its backup an update freezes the administrators; if it cannot, it holds.
EmitDone ==
  /\ pc.phase = "done" /\ ~Quiet
  /\ \/ \E saved \in BOOLEAN :
          LET o == Staged(op, pc.step, "succeeded") IN
          /\ Save(o, saved)
          /\ IF saved THEN Advance(o) ELSE Recover(o, "done")
     \/ /\ op.kind = "update" /\ pc.step = "backup"
        /\ disk' = Staged(op, pc.step, "succeeded") /\ Fault
        /\ op' = [disk' EXCEPT !.status = "recovery_required"] /\ pc' = Finish
  /\ UNCHANGED siteVars

\* An update that cannot close the site or take its backup reopens it first and
\* only then marks the failure, which End writes.
Unmarked == op.kind = "update" /\ pc.path = "main" /\ pc.step \in {"quiesce", "backup"}

EmitBroken ==
  /\ pc.phase = "broken" /\ ~Quiet
  /\ \/ Unmarked /\ Recover(op, "run") /\ UNCHANGED <<disk, faults>>
     \/ /\ ~Unmarked
        /\ \E saved \in BOOLEAN :
             LET o == Staged(op, pc.step, "failed") IN Save(o, saved) /\ Recover(o, "run")
  /\ UNCHANGED siteVars

Reverified ==
  /\ pc.phase \in {"done", "broken"} /\ Quiet
  /\ IF pc.phase = "done" THEN Advance(op) ELSE Recover(op, "run")
  /\ UNCHANGED <<disk, faults, siteVars>>

\* The terminal write; its error is ignored, and the lock is released.
End ==
  /\ pc = Finish
  /\ \E saved \in BOOLEAN : Save(op, saved)
  /\ pc' = Idle
  /\ UNCHANGED <<op, siteVars>>

Crash ==
  /\ pc # Idle
  /\ Fault
  /\ pc' = Idle
  /\ UNCHANGED <<disk, op, siteVars>>

--------------------
(* Reconcile.                                                               *)

\* Faulty: an interrupted operation is resumed whatever its evidence.
MayResumeAnything(o) == TRUE

\* A backup and a verification never replace data; a rollback or an update must
\* have reached its resume boundary.
MayResume(o) == o.kind \in {"backup", "verify"} \/ Boundary \in o.stages

\* Faulty: the monitor skips what is already held.
UnfinishedUnheld(o) == o.status \in {"queued", "running"}

Unfinished(o) == o.status \in ActiveStatuses

\* Without a stage nothing was done, and the operation fails.  Otherwise services
\* are resumed and verified, or the operation is held.  The wait between attempts
\* only delays this.
Reconcile ==
  /\ pc = Idle /\ Unfinished(disk)
  /\ op' = IF disk.stages = {} THEN [disk EXCEPT !.status = "failed"]
           ELSE IF MayResume(disk) THEN disk
           ELSE [disk EXCEPT !.status = "recovery_required"]
  /\ pc' = IF disk.stages # {} /\ MayResume(disk)
           THEN At("again", Plan("again", disk.kind)[1],
                   IF disk.kind = "verify" THEN "run" ELSE "emit")
           ELSE Finish
  /\ UNCHANGED <<disk, faults, siteVars>>

--------------------

Init ==
  /\ disk = NoOperation /\ op = NoOperation /\ pc = Idle
  /\ site = "open" /\ data = "kept" /\ release = "source" /\ restore = "ready"
  /\ faults = 0

Work == RunOp \/ Emit \/ Do \/ EmitDone \/ EmitBroken \/ Reverified \/ End

Next ==
  \/ \E kind \in Kinds : StartOp(kind)
  \/ Work
  \/ Crash
  \/ Reconcile

Spec == Init /\ [][Next]_vars

\* A worker keeps taking steps, and the monitor reconciles every five seconds
\* (cmd/geoflow-updater/main.go:148).  Nothing is assumed of whoever starts
\* operations.
FairSpec == Spec /\ WF_vars(Work) /\ WF_vars(Reconcile)

--------------------
(* Properties                                                              *)

\* Records and program counter stay within their types, and an idle host has no
\* worker state that the disk contradicts.
TypeOK ==
  /\ disk \in Operation /\ op \in Operation
  /\ pc \in {Idle, Finish} \cup
       [path : Paths, step : Names \cup {"none"},
        phase : {"queued", "emit", "run", "done", "broken"}]
  /\ site \in {"open", "closed", "reopened"}
  /\ data \in {"kept", "migrated", "restored"} \cup Half
  /\ release \in {"source", "target"} \cup Half
  /\ restore \in {"ready", "restoring", "restored"}
  /\ faults \in 0 .. MaxFaults
  /\ pc # Idle => op.id = disk.id /\ disk.stages \subseteq op.stages

\* Services that this operation reopened, even in part, were reopened behind a
\* boundary that is on disk, whatever write failed or whenever the process died
\* (engine.go:279 resume, manager.go:586 step).
ReopenedBehindBoundary == site = "reopened" => Boundary \in disk.stages

\* No operation reopens the site on data or a release that it replaced by half, whatever
\* failed and whoever resumes it (engine.go:171-201, manager.go:413-449).
ReopensWhole == site = "reopened" => data # "torn" /\ release # "torn"

\* Data that users may have written to after the site was reopened is not restored
\* over by the operation that reopened it (engine.go:180; docs/blue-green-deployment.md
\* line 35).
AcceptedWritesSurvive ==
  [][ data' \in {"restored", "torn"} /\ data' # data => site # "reopened" ]_vars

\* A terminal status tells the truth about the data, the release and the site.
StatusTruthful ==
  pc = Idle =>
    /\ disk.kind = "update" /\ disk.status = "succeeded" =>
         data = "migrated" /\ release = "target" /\ site = "reopened"
    /\ disk.status = "rolled_back" =>
         data = "restored" /\ release = "source" /\ site = "reopened"
    /\ disk.kind = "rollback" /\ disk.status = "succeeded" =>
         data = "restored" /\ release = "source" /\ site = "reopened"
    /\ disk.kind \in {"update", "backup"} /\ disk.status = "failed" =>
         data \in {"kept", "inherited"} /\ release \in {"source", "inherited"}
    /\ disk.kind = "backup" /\ disk.status = "succeeded" => disk.point /\ site = "reopened"

\* Before an update changes data its recovery point is on record, so that a held
\* update always names what can be restored (manager.go:112).
PointOnRecord ==
  disk.kind = "update" /\ (data = "migrated" \/ release = "target") => disk.point

\* An operation that was interrupted or failed behind its resume boundary converges
\* once the faults end (docs/phase-c-staging-rehearsal.md:73), unless an earlier
\* restore is still incomplete: only an explicit rollback lifts that hold.
BoundaryConverges ==
  \A id \in 1 .. MaxOps :
    (disk.id = id /\ Boundary \in disk.stages)
      ~> (disk.id # id \/ disk.status \notin ActiveStatuses \/ restore = "restoring")

\* No operation reopens the site on data or a release
\* that an earlier one left half-replaced and under a hold
\* (docs/phase-c-staging-rehearsal.md:73 "mutations remain blocked").
NeverServesTorn == site = "reopened" => data \notin Half /\ release \notin Half

==============================================================================
