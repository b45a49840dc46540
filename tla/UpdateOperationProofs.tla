------------------------ MODULE UpdateOperationProofs ------------------------
(***************************************************************************)
(* Proofs about operations on a managed site, for any number of operations   *)
(* and of faults.                                                           *)
(*                                                                         *)
(* First the worker: its copy never lacks evidence that is on disk, and once *)
(* the site is reopened it is past every step that replaces data; the paths  *)
(* that a failure leads to from there begin with resume.                    *)
(*                                                                         *)
(* Then the results.  ResultInv says, for each step of each path, what became *)
(* of the data, the release and the site (Replaced, Opened), what the journal *)
(* then contains (Journal, Begun) and whether the point is named (Named,     *)
(* Pointed).  What Reconcile reads from a journal behind its boundary        *)
(* (Evident), and what a settled operation says (Truthful), then follows.    *)
(* A step either goes on along its plan (AdvanceResult) or leaves it         *)
(* (RecoverResult); the other actions are one lemma each.                   *)
(***************************************************************************)
EXTENDS UpdateOperation, TLAPS

IsOperation(o) ==
  o = [id |-> o.id, kind |-> o.kind, status |-> o.status, stages |-> o.stages, point |-> o.point]

Shapes ==
  /\ IsOperation(disk) /\ IsOperation(op)
  /\ pc = [path |-> pc.path, step |-> pc.step, phase |-> pc.phase]

InStep == pc.phase \in {"emit", "run", "done", "broken"}

\* The worker follows its plan.
OnPlan ==
  InStep => \E n \in 1 .. Len(Plan(pc.path, op.kind)) : Plan(pc.path, op.kind)[n] = pc.step

\* What is on disk is in memory, and the boundary is on disk before it is passed.
Evidence ==
  /\ InStep \/ pc.phase = "queued" \/ pc = Finish => disk.stages \subseteq op.stages
  /\ pc.phase = "run" /\ pc.step = "resume" => Boundary \in disk.stages

\* The steps from the resume on: none of them touches data or the release.
LateSteps == {"resume", "verify", "succeeded", "rolled_back"}

Late == site = "reopened" => pc.phase # "queued" /\ (InStep => pc.step \in LateSteps)

WorkerInv == OnPlan /\ Evidence /\ Late /\ ReopenedBehindBoundary

--------------------

\* The plans there are.
LEMMA PlanCases ==
  ASSUME NEW path, NEW kind
  PROVE Plan(path, kind) \in
          {<<"rollback", "resume", "verify", "rolled_back">>, <<"resume", "verify">>, <<"resume">>,
           <<"verify">>, <<"preflight", "quiesce", "backup", "resume", "verify">>,
           <<"preflight", "quiesce", "rollback", "resume", "verify">>,
           <<"preflight", "quiesce", "backup", "migrate", "activate", "resume", "verify", "succeeded">>}
BY DEF Plan

\* What follows a late step in a plan is a late step.
LEMMA PlanLate ==
  ASSUME NEW path, NEW kind
  PROVE LET plan == Plan(path, kind) IN
        /\ Len(plan) \in Nat \ {0}
        /\ \A n \in 1 .. Len(plan) :
             n < Len(plan) /\ plan[n] \in LateSteps => plan[n + 1] \in LateSteps
<1>1. CASE Plan(path, kind) = <<"rollback", "resume", "verify", "rolled_back">>
  BY <1>1 DEF LateSteps
<1>2. CASE Plan(path, kind) = <<"resume", "verify">>
  BY <1>2 DEF LateSteps
<1>3. CASE Plan(path, kind) = <<"resume">> \/ Plan(path, kind) = <<"verify">>
  BY <1>3 DEF LateSteps
<1>4. CASE Plan(path, kind) = <<"preflight", "quiesce", "backup", "resume", "verify">>
  BY <1>4 DEF LateSteps
<1>5. CASE Plan(path, kind) = <<"preflight", "quiesce", "rollback", "resume", "verify">>
  BY <1>5 DEF LateSteps
<1>6. CASE Plan(path, kind) = <<"preflight", "quiesce", "backup", "migrate", "activate", "resume",
                                "verify", "succeeded">>
  BY <1>6 DEF LateSteps
<1>7. QED
  BY PlanCases, <1>1, <1>2, <1>3, <1>4, <1>5, <1>6

\* A failure of a late step ends the operation or resumes again.
LEMMA LateOutcome ==
  ASSUME NEW kind, NEW path, NEW step \in LateSteps, NEW how
  PROVE Outcome(kind, path, step, how).path \in {"finish", "restart"}
BY DEF Outcome, LateSteps, Stop, Follow

\* What follows a failed step: the end, or the first step of another path.
LEMMA RecoverLeads ==
  ASSUME Shapes, NEW o, IsOperation(o), NEW how, Recover(o, how)
  PROVE /\ IsOperation(op') /\ op'.kind = o.kind /\ op'.stages = o.stages
        /\ pc' = [path |-> pc'.path, step |-> pc'.step, phase |-> pc'.phase]
        /\ \/ pc' = Finish
           \/ /\ pc'.phase = "emit" /\ pc'.step = Plan(pc'.path, o.kind)[1]
              /\ pc.step \in LateSteps => pc'.step \in LateSteps
<1> DEFINE outcome == Outcome(o.kind, pc.path, pc.step, how)
<1>1. IsOperation(op') /\ op'.kind = o.kind /\ op'.stages = o.stages
  BY DEF Recover, IsOperation
<1>2. pc' = Finish \/ (pc' = Start(outcome.path, o.kind) /\ outcome.path # "finish")
  BY DEF Recover
<1>3. ASSUME pc.step \in LateSteps, outcome.path # "finish" PROVE Start(outcome.path, o.kind).step = "resume"
  <2>1. outcome.path = "restart"
    BY <1>3, LateOutcome
  <2> HIDE DEF outcome
  <2>2. Plan(outcome.path, o.kind) = <<"resume", "verify">>
    BY <2>1 DEF Plan
  <2>3. QED
    BY <2>2 DEF Start, At
<1> HIDE DEF outcome
<1>4. QED
  BY <1>1, <1>2, <1>3 DEF Start, At, Finish, LateSteps

\* What follows a step that is done: the next of its plan, or the end.
LEMMA AdvanceLeads ==
  ASSUME Shapes, OnPlan, InStep, NEW o, IsOperation(o), o.kind = op.kind, Advance(o)
  PROVE /\ IsOperation(op') /\ op'.kind = o.kind /\ op'.stages = o.stages
        /\ pc' = [path |-> pc'.path, step |-> pc'.step, phase |-> pc'.phase]
        /\ \/ pc' = Finish
           \/ /\ pc'.phase = "emit" /\ pc'.path = pc.path
              /\ \E n \in 1 .. Len(Plan(pc.path, o.kind)) : Plan(pc.path, o.kind)[n] = pc'.step
              /\ pc.step \in LateSteps => pc'.step \in LateSteps
<1> DEFINE plan == Plan(pc.path, o.kind)
           i == CHOOSE n \in 1 .. Len(plan) : plan[n] = pc.step
<1>1. Len(plan) \in Nat \ {0} /\ \A n \in 1 .. Len(plan) :
        n < Len(plan) /\ plan[n] \in LateSteps => plan[n + 1] \in LateSteps
  BY PlanLate
<1>2. i \in 1 .. Len(plan) /\ plan[i] = pc.step
  BY DEF OnPlan
<1>3. \/ i < Len(plan) /\ op' = o /\ pc' = At(pc.path, plan[i + 1], "emit")
      \/ op' = [o EXCEPT !.status = Result(o)] /\ pc' = Finish
  BY DEF Advance
<1> HIDE DEF plan, i
<1>4. CASE i < Len(plan) /\ op' = o /\ pc' = At(pc.path, plan[i + 1], "emit")
  <2>1. i + 1 \in 1 .. Len(plan)
    BY <1>1, <1>2, <1>4
  <2>2. pc'.step = plan[i + 1] /\ pc'.phase = "emit" /\ pc'.path = pc.path
    BY <1>4 DEF At
  <2>3. pc.step \in LateSteps => pc'.step \in LateSteps
    BY <1>1, <1>2, <1>4, <2>2
  <2>4. QED
    BY <1>4, <2>1, <2>2, <2>3 DEF At, plan
<1>5. CASE op' = [o EXCEPT !.status = Result(o)] /\ pc' = Finish
  BY <1>5 DEF IsOperation, Finish, At
<1>6. QED
  BY <1>3, <1>4, <1>5

\* The journal grows by one stage.
LEMMA StagedKeeps ==
  ASSUME NEW o, IsOperation(o), NEW name, NEW status
  PROVE /\ IsOperation(Staged(o, name, status)) /\ Staged(o, name, status).kind = o.kind
        /\ Staged(o, name, status).stages = o.stages \cup {<<name, status>>}
BY DEF IsOperation, Staged

--------------------
\* No worker runs at first, and the site is open.
LEMMA InitWorker == Init => Shapes /\ WorkerInv
BY DEF Init, Shapes, IsOperation, NoOperation, Idle, At, WorkerInv, OnPlan, InStep, Evidence, Late,
   ReopenedBehindBoundary, Finish

\* A worker at the end, or at none.
LEMMA Resting ==
  ASSUME IsOperation(disk'), IsOperation(op'), pc' = Idle \/ (pc' = Finish /\ disk'.stages \subseteq op'.stages),
         ReopenedBehindBoundary'
  PROVE Shapes' /\ WorkerInv'
BY DEF Shapes, WorkerInv, OnPlan, InStep, Evidence, Late, ReopenedBehindBoundary, Idle, Finish, At

\* A worker that begins a step.
LEMMA Beginning ==
  ASSUME IsOperation(disk'), IsOperation(op'), disk'.stages \subseteq op'.stages,
         pc' = [path |-> pc'.path, step |-> pc'.step, phase |-> pc'.phase], pc'.phase = "emit",
         \E n \in 1 .. Len(Plan(pc'.path, op'.kind)) : Plan(pc'.path, op'.kind)[n] = pc'.step,
         site' = "reopened" => pc'.step \in LateSteps,
         ReopenedBehindBoundary'
  PROVE Shapes' /\ WorkerInv'
BY DEF Shapes, WorkerInv, OnPlan, InStep, Evidence, Late

\* A failure after a write leaves the worker at the end or before a step.
LEMMA AfterRecover ==
  ASSUME Shapes, WorkerInv, InStep, UNCHANGED site, NEW o, IsOperation(o), NEW how, Recover(o, how),
         IsOperation(disk'), disk'.stages \subseteq o.stages, disk.stages \subseteq disk'.stages
  PROVE Shapes' /\ WorkerInv'
<1>1. IsOperation(op') /\ op'.kind = o.kind /\ disk'.stages \subseteq op'.stages
  BY RecoverLeads
<1>2. ReopenedBehindBoundary'
  BY DEF WorkerInv, ReopenedBehindBoundary
<1>3. CASE pc' = Finish
  BY <1>1, <1>2, <1>3, Resting
<1>4. CASE pc' # Finish
  <2>1. pc'.phase = "emit" /\ pc'.step = Plan(pc'.path, op'.kind)[1]
        /\ (pc.step \in LateSteps => pc'.step \in LateSteps)
        /\ pc' = [path |-> pc'.path, step |-> pc'.step, phase |-> pc'.phase]
    BY <1>1, <1>4, RecoverLeads
  <2>2. 1 \in 1 .. Len(Plan(pc'.path, op'.kind))
    BY PlanLate
  <2>3. site' = "reopened" => pc'.step \in LateSteps
    BY <2>1 DEF WorkerInv, Late
  <2>4. QED
    BY <1>1, <1>2, <2>1, <2>2, <2>3, Beginning
<1>5. QED
  BY <1>3, <1>4

\* So does a step that is done.
LEMMA AfterAdvance ==
  ASSUME Shapes, WorkerInv, InStep, UNCHANGED site, NEW o, IsOperation(o), o.kind = op.kind, Advance(o),
         IsOperation(disk'), disk'.stages \subseteq o.stages, disk.stages \subseteq disk'.stages
  PROVE Shapes' /\ WorkerInv'
<1>1. OnPlan
  BY DEF WorkerInv
<1>2. IsOperation(op') /\ op'.kind = o.kind /\ disk'.stages \subseteq op'.stages
  BY <1>1, AdvanceLeads
<1>3. ReopenedBehindBoundary'
  BY DEF WorkerInv, ReopenedBehindBoundary
<1>4. CASE pc' = Finish
  BY <1>2, <1>3, <1>4, Resting
<1>5. CASE pc' # Finish
  <2>1. /\ pc'.phase = "emit" /\ pc'.path = pc.path
        /\ \E n \in 1 .. Len(Plan(pc.path, o.kind)) : Plan(pc.path, o.kind)[n] = pc'.step
        /\ pc.step \in LateSteps => pc'.step \in LateSteps
        /\ pc' = [path |-> pc'.path, step |-> pc'.step, phase |-> pc'.phase]
    BY <1>1, <1>5, AdvanceLeads
  <2>2. \E n \in 1 .. Len(Plan(pc'.path, op'.kind)) : Plan(pc'.path, op'.kind)[n] = pc'.step
    BY <1>2, <2>1
  <2>3. site' = "reopened" => pc'.step \in LateSteps
    BY <2>1 DEF WorkerInv, Late
  <2>4. QED
    BY <1>2, <1>3, <2>1, <2>2, <2>3, Beginning
<1>6. QED
  BY <1>4, <1>5


\* Every step keeps the worker on its plan and behind what is on disk.
LEMMA StepWorker == Shapes /\ WorkerInv /\ [Next]_vars => Shapes' /\ WorkerInv'
<1> SUFFICES ASSUME Shapes, WorkerInv, [Next]_vars PROVE Shapes' /\ WorkerInv'
  OBVIOUS
<1> USE DEF Shapes, WorkerInv, siteVars
<1>1. ASSUME NEW kind \in Kinds, StartOp(kind) PROVE Shapes' /\ WorkerInv'
  <2>1. disk'.stages = {} /\ site' # "reopened" /\ IsOperation(disk')
    BY <1>1 DEF StartOp, NoOperation, IsOperation
  <2>2. CASE op' = disk' /\ pc' = At("main", "none", "queued")
    BY <2>1, <2>2 DEF OnPlan, InStep, Evidence, Late, ReopenedBehindBoundary, At, Finish
  <2>3. CASE pc' = Idle /\ UNCHANGED op
    BY <2>1, <2>3, Resting DEF ReopenedBehindBoundary
  <2>4. QED
    BY <1>1, <2>2, <2>3 DEF StartOp
<1>2. CASE RunOp
  <2>1. op' = [op EXCEPT !.status = "running"] /\ UNCHANGED site /\ site # "reopened"
    BY <1>2 DEF RunOp, Late
  <2>2. IsOperation(op') /\ op'.stages = op.stages /\ disk.stages \subseteq op.stages
    BY <1>2, <2>1 DEF RunOp, Evidence, IsOperation
  <2>3. disk' \in {disk, op'} /\ (pc' = Start("main", op'.kind) \/ pc' = Idle)
    BY <1>2, <2>1 DEF RunOp, Save, IsOperation
  <2>4. ReopenedBehindBoundary'
    BY <2>1 DEF ReopenedBehindBoundary
  <2>5. CASE pc' = Idle
    BY <2>2, <2>3, <2>4, <2>5, Resting
  <2>6. CASE pc' = Start("main", op'.kind)
    <3>1. pc' = At("main", Plan("main", op'.kind)[1], "emit") /\ 1 \in 1 .. Len(Plan("main", op'.kind))
      BY <2>6, PlanLate DEF Start
    <3>2. /\ pc'.path = "main" /\ pc'.phase = "emit" /\ pc'.step = Plan(pc'.path, op'.kind)[1]
          /\ pc' = [path |-> pc'.path, step |-> pc'.step, phase |-> pc'.phase]
      BY <3>1 DEF At
    <3>3. \E n \in 1 .. Len(Plan(pc'.path, op'.kind)) : Plan(pc'.path, op'.kind)[n] = pc'.step
      BY <3>1, <3>2
    <3>4. IsOperation(disk') /\ disk'.stages \subseteq op'.stages /\ site' # "reopened"
      BY <2>1, <2>2, <2>3
    <3>5. QED
      BY <2>2, <2>4, <3>2, <3>3, <3>4, Beginning
  <2>7. QED
    BY <2>3, <2>5, <2>6
<1>3. CASE Emit
  <2>0. InStep /\ UNCHANGED site /\ disk.stages \subseteq op.stages
    BY <1>3 DEF Emit, InStep, Evidence
  <2>1. PICK saved \in BOOLEAN :
          LET o == Staged(op, pc.step, IF Marker(pc.step) THEN "succeeded" ELSE "running") IN
          /\ Save(o, saved)
          /\ \/ /\ ~Marker(pc.step) /\ (saved \/ Tolerated(pc.path, pc.step))
                /\ op' = o /\ pc' = At(pc.path, pc.step, "run")
             \/ Advance(o)
             \/ Recover(o, "emit")
    BY <1>3 DEF Emit
  <2> DEFINE o == Staged(op, pc.step, IF Marker(pc.step) THEN "succeeded" ELSE "running")
  <2>2. /\ IsOperation(o) /\ o.kind = op.kind
        /\ o.stages = op.stages \cup {<<pc.step, IF Marker(pc.step) THEN "succeeded" ELSE "running">>}
    BY StagedKeeps
  <2>3. disk' \in {disk, o} /\ (saved => disk' = o)
    BY <2>1 DEF Save
  <2> HIDE DEF o
  <2>4. IsOperation(disk') /\ disk'.stages \subseteq o.stages /\ disk.stages \subseteq disk'.stages
    BY <2>0, <2>2, <2>3
  <2>5. CASE ~Marker(pc.step) /\ (saved \/ Tolerated(pc.path, pc.step)) /\ op' = o /\ pc' = At(pc.path, pc.step, "run")
    <3>1. ReopenedBehindBoundary' /\ Late'
      BY <2>0, <2>4, <2>5 DEF ReopenedBehindBoundary, Late, InStep, At
    <3>2. OnPlan'
      BY <2>0, <2>2, <2>5 DEF OnPlan, InStep, At
    <3>3. pc.step = "resume" => Boundary \in disk'.stages
      BY <2>2, <2>3, <2>5 DEF Tolerated, Boundary
    <3>4. Evidence'
      BY <2>4, <2>5, <3>3 DEF Evidence, At, Finish
    <3>5. Shapes'
      BY <2>2, <2>4, <2>5 DEF At
    <3>6. QED
      BY <3>1, <3>2, <3>4, <3>5
  <2>6. CASE Advance(o)
    BY <2>0, <2>2, <2>4, <2>6, AfterAdvance
  <2>7. CASE Recover(o, "emit")
    BY <2>0, <2>2, <2>4, <2>7, AfterRecover
  <2>8. QED
    BY <2>1, <2>5, <2>6, <2>7 DEF o
<1>4. CASE Do
  <2>0. InStep /\ UNCHANGED disk /\ disk.stages \subseteq op.stages /\ pc.phase = "run"
    BY <1>4 DEF Do, InStep, Evidence
  <2>1. PICK phase \in {"done", "broken"} : pc' = At(pc.path, pc.step, phase)
    BY <1>4 DEF Do
  <2>2. op' = op \/ op' = [op EXCEPT !.point = @ \/ pc.step = "backup"]
    BY <1>4 DEF Do
  <2>3. IsOperation(op') /\ op'.kind = op.kind /\ op'.stages = op.stages
    BY <2>2 DEF IsOperation
  <2>4. site' = "reopened" => site = "reopened" \/ pc.step = "resume"
    BY <1>4 DEF Do, Succeeds, Breaks
  <2>5. ReopenedBehindBoundary' /\ Late'
    BY <2>0, <2>1, <2>4 DEF ReopenedBehindBoundary, Late, Evidence, InStep, At, LateSteps
  <2>6. OnPlan'
    BY <2>0, <2>1, <2>3 DEF OnPlan, InStep, At
  <2>7. Evidence' /\ Shapes'
    BY <2>0, <2>1, <2>3 DEF Evidence, At
  <2>8. QED
    BY <2>5, <2>6, <2>7
<1>5. CASE EmitDone
  <2>0. InStep /\ UNCHANGED site /\ disk.stages \subseteq op.stages
    BY <1>5 DEF EmitDone, InStep, Evidence
  <2> DEFINE o == Staged(op, pc.step, "succeeded")
  <2>1. IsOperation(o) /\ o.kind = op.kind /\ o.stages = op.stages \cup {<<pc.step, "succeeded">>}
    BY StagedKeeps
  <2>2. \/ \E saved \in BOOLEAN : Save(o, saved) /\ (Advance(o) \/ Recover(o, "done"))
        \/ disk' = o /\ op' = [disk' EXCEPT !.status = "recovery_required"] /\ pc' = Finish
    BY <1>5 DEF EmitDone
  <2>3. disk' \in {disk, o}
    BY <2>2 DEF Save
  <2> HIDE DEF o
  <2>4. IsOperation(disk') /\ disk'.stages \subseteq o.stages /\ disk.stages \subseteq disk'.stages
    BY <2>0, <2>1, <2>3
  <2>5. CASE Advance(o)
    BY <2>0, <2>1, <2>4, <2>5, AfterAdvance
  <2>6. CASE Recover(o, "done")
    BY <2>0, <2>1, <2>4, <2>6, AfterRecover
  <2>7. CASE disk' = o /\ op' = [disk' EXCEPT !.status = "recovery_required"] /\ pc' = Finish
    <3>1. IsOperation(op') /\ op'.stages = disk'.stages
      BY <2>4, <2>7 DEF IsOperation
    <3>2. ReopenedBehindBoundary'
      BY <2>0, <2>4 DEF ReopenedBehindBoundary
    <3>3. QED
      BY <2>4, <2>7, <3>1, <3>2, Resting
  <2>8. QED
    BY <2>2, <2>5, <2>6, <2>7
<1>6. CASE EmitBroken
  <2>0. InStep /\ UNCHANGED site /\ disk.stages \subseteq op.stages
    BY <1>6 DEF EmitBroken, InStep, Evidence
  <2>1. CASE Recover(op, "run") /\ UNCHANGED disk
    BY <2>0, <2>1, AfterRecover
  <2>2. ASSUME NEW saved \in BOOLEAN, Save(Staged(op, pc.step, "failed"), saved),
               Recover(Staged(op, pc.step, "failed"), "run")
        PROVE Shapes' /\ WorkerInv'
    <3> DEFINE o == Staged(op, pc.step, "failed")
    <3>1. IsOperation(o) /\ o.stages = op.stages \cup {<<pc.step, "failed">>}
      BY StagedKeeps
    <3>2. disk' \in {disk, o} /\ Recover(o, "run")
      BY <2>2 DEF Save
    <3> HIDE DEF o
    <3>3. IsOperation(disk') /\ disk'.stages \subseteq o.stages /\ disk.stages \subseteq disk'.stages
      BY <2>0, <3>1, <3>2
    <3>4. QED
      BY <2>0, <3>1, <3>2, <3>3, AfterRecover
  <2>3. QED
    BY <1>6, <2>1, <2>2 DEF EmitBroken
<1>7. CASE Reverified
  <2>0. InStep /\ UNCHANGED <<disk, site>> /\ disk.stages \subseteq op.stages
    BY <1>7 DEF Reverified, InStep, Evidence
  <2>1. CASE Advance(op)
    BY <2>0, <2>1, AfterAdvance
  <2>2. CASE Recover(op, "run")
    BY <2>0, <2>2, AfterRecover
  <2>3. QED
    BY <1>7, <2>1, <2>2 DEF Reverified
<1>8. CASE End
  <2>1. pc' = Idle /\ disk' \in {disk, op} /\ disk.stages \subseteq op.stages /\ UNCHANGED <<op, site>>
    BY <1>8 DEF End, Save, Evidence
  <2>2. ReopenedBehindBoundary'
    BY <2>1 DEF ReopenedBehindBoundary
  <2>3. QED
    BY <2>1, <2>2, Resting
<1>9. CASE Crash
  <2>1. pc' = Idle /\ UNCHANGED <<disk, op, site>>
    BY <1>9 DEF Crash
  <2>2. QED
    BY <2>1, Resting DEF ReopenedBehindBoundary
<1>10. CASE Reconcile
  <2>1. UNCHANGED <<disk, site>> /\ pc = Idle
    BY <1>10 DEF Reconcile
  <2>2. op' \in {disk, [disk EXCEPT !.status = "failed"], [disk EXCEPT !.status = "recovery_required"]}
    BY <1>10 DEF Reconcile
  <2>3. IsOperation(op') /\ op'.stages = disk.stages /\ op'.kind = disk.kind
    BY <2>2 DEF IsOperation
  <2>4. ReopenedBehindBoundary'
    BY <2>1 DEF ReopenedBehindBoundary
  <2>5. CASE pc' = Finish
    BY <2>1, <2>3, <2>4, <2>5, Resting
  <2>6. CASE pc' # Finish
    <3> DEFINE plan == Plan("again", disk.kind)
    <3>1. PICK phase \in {"run", "emit"} : pc' = At("again", plan[1], phase) /\ (phase = "run" => disk.kind = "verify")
      BY <1>10, <2>6 DEF Reconcile
    <3>2. plan \in {<<"verify">>, <<"resume", "verify">>} /\ (disk.kind = "verify" => plan = <<"verify">>)
      BY DEF Plan
    <3>3. 1 \in 1 .. Len(plan) /\ plan[1] \in LateSteps /\ (phase = "run" => plan[1] = "verify")
      BY <3>1, <3>2 DEF LateSteps
    <3> HIDE DEF plan
    <3>4. OnPlan'
      BY <2>3, <3>1, <3>3 DEF OnPlan, At, plan
    <3>5. Evidence'
      BY <2>1, <2>3, <3>1, <3>3 DEF Evidence, At
    <3>6. Late' /\ Shapes'
      BY <2>1, <2>3, <3>1, <3>3 DEF Late, InStep, At
    <3>7. QED
      BY <2>4, <3>4, <3>5, <3>6
  <2>7. QED
    BY <2>5, <2>6
<1>11. CASE UNCHANGED vars
  <2>1. disk' = disk /\ op' = op /\ pc' = pc /\ site' = site
    BY <1>11 DEF vars
  <2>2. QED
    BY <2>1 DEF OnPlan, InStep, Evidence, Late, ReopenedBehindBoundary, Finish, At
<1>12. QED
  BY <1>1, <1>2, <1>3, <1>4, <1>5, <1>6, <1>7, <1>8, <1>9, <1>10, <1>11 DEF Next, Work

\* The invariant of every run: the worker is on its plan, and its copy and the disk agree on what
\* was begun (manager.go:586 step, engine.go:279 resume).
THEOREM WorkerInvariant == Spec => [](Shapes /\ WorkerInv)
<1>1. Init => Shapes /\ WorkerInv
  BY InitWorker
<1>2. Shapes /\ WorkerInv /\ [Next]_vars => Shapes' /\ WorkerInv'
  BY StepWorker
<1>3. QED
  BY <1>1, <1>2, PTL DEF Spec

\* Services are never reopened, even in part, before their resume boundary is on disk: whatever
\* write fails, and whenever the process dies (engine.go:279 resume, manager.go:586 step).
THEOREM ReopenedOnlyBehindBoundary == Spec => []ReopenedBehindBoundary
<1>1. Shapes /\ WorkerInv => ReopenedBehindBoundary
  BY DEF WorkerInv
<1>2. QED
  BY <1>1, WorkerInvariant, PTL

--------------------

\* The step in which a worker replaces data is not a late step.
LEMMA DataStep ==
  ASSUME Shapes, WorkerInv, [Next]_vars, data' \in {"restored", "torn"}, data' # data
  PROVE site # "reopened"
<1>1. ASSUME NEW kind \in Kinds, StartOp(kind) PROVE FALSE
  BY <1>1 DEF StartOp
<1>2. CASE Do
  <2>1. pc.step \in {"rollback", "migrate"}
    BY <1>2 DEF Do, Succeeds, Breaks, siteVars
  <2>2. pc.phase = "run"
    BY <1>2 DEF Do
  <2>3. QED
    BY <2>1, <2>2 DEF WorkerInv, Late, InStep, LateSteps
<1>3. CASE RunOp \/ Emit \/ EmitDone \/ EmitBroken \/ Reverified \/ End \/ Crash \/ Reconcile
  BY <1>3 DEF RunOp, Emit, EmitDone, EmitBroken, Reverified, End, Crash, Reconcile, siteVars
<1>4. CASE UNCHANGED vars
  BY <1>4 DEF vars
<1>5. QED
  BY <1>1, <1>2, <1>3, <1>4 DEF Next, Work

\* What users may have written after the site was reopened is not restored over by the operation
\* that reopened it (engine.go:180): a failure from there on leads to a hold or to another resume.
THEOREM WritesSurvive == Spec => AcceptedWritesSurvive
<1>1. Shapes /\ WorkerInv /\ [Next]_vars
        => [data' \in {"restored", "torn"} /\ data' # data => site # "reopened"]_vars
  BY DataStep
<1>2. QED
  BY <1>1, WorkerInvariant, PTL DEF Spec, AcceptedWritesSurvive

--------------------
\* What became of the data and the release since the operation started.
Clean == data \in {"kept", "inherited"} /\ release \in {"source", "inherited"}
Migrated == data = "migrated" /\ release \in {"source", "inherited"}
Whole == data = "migrated" /\ release = "target"
Restored == data = "restored" /\ release = "source"

Unsettled(o) == o.status \in ActiveStatuses \/ (o.kind = "backup" /\ o.status = "failed")

\* A worker runs for the operation on record, which is not settled.
Agreed ==
  /\ pc # Idle => op.kind = disk.kind /\ disk.kind \in AllKinds /\ Unsettled(disk) /\ op.status # "none"
  /\ InStep => Unsettled(op) /\ pc.path \in Paths
  /\ pc.phase = "queued" => op.stages = {} /\ disk.stages = {} /\ Clean
  /\ disk.status = "none" <=> disk.kind = "none"
  /\ disk.kind \in AllKinds \cup {"none"}
  /\ disk.kind \notin {"update", "rollback"} => Clean

\* The paths a kind may take, and no boundary before the late steps.
Pathed ==
  InStep =>
    /\ pc.path = "undo" => op.kind = "update"
    /\ pc.path \in {"restart", "reopen"} => op.kind \in {"update", "backup"}
    /\ pc.path = "again" => MayResume(op)
    /\ pc.step \notin LateSteps => Boundary \notin op.stages

\* Before anything is replaced, something is on record.
Begun ==
  disk.stages = {} =>
    Clean /\ (InStep => (pc.step = "preflight" /\ pc.phase = "emit") \/ op.kind = "verify")

\* What the journal of an update says on each of its paths.
Journal ==
  InStep /\ op.kind = "update" =>
    /\ pc.path \in {"main", "restart", "reopen"} =>
         \A status \in {"running", "succeeded", "failed"} :
           ~Has(op, "rollback", status) /\ ~Has(op, "rolled_back", status)
    /\ pc.path \in {"restart", "reopen"} \/ (pc.path = "main" /\ pc.step \notin LateSteps) =>
         ~Has(op, "activate", "succeeded") /\ ~Has(op, "succeeded", "succeeded")
    /\ pc.path = "main" /\ pc.step \in LateSteps => Has(op, "activate", "succeeded")
    /\ pc.path = "undo" /\ pc.step \in LateSteps => Has(op, "rollback", "succeeded")

\* What is replaced at each step.
Replaced ==
  InStep =>
    /\ pc.path = "main" /\ op.kind = "update" =>
         /\ pc.step \in {"preflight", "quiesce", "backup"} => Clean
         /\ pc.step = "migrate" /\ pc.phase \in {"emit", "run"} => Clean
         /\ pc.step = "migrate" /\ pc.phase = "done" => Migrated
         /\ pc.step = "activate" /\ pc.phase \in {"emit", "run"} => Migrated
         /\ pc.step \in LateSteps \/ (pc.step = "activate" /\ pc.phase = "done") => Whole
    /\ pc.path \in {"restart", "reopen"} => Clean
    /\ pc.path = "undo" \/ (pc.path = "main" /\ op.kind = "rollback") =>
         (pc.step \in LateSteps \/ (pc.step = "rollback" /\ pc.phase = "done") => Restored)

\* After its resume the site is open.
Opened ==
  InStep /\ op.kind # "verify" =>
    (pc.step \in LateSteps \ {"resume"} \/ (pc.step = "resume" /\ pc.phase = "done")
       => site = "reopened")

\* From the backup on, the worker names the recovery point.
Named ==
  InStep =>
    /\ pc.path = "main" /\ op.kind \in {"update", "backup"} =>
         (pc.step \in {"migrate", "activate"} \cup LateSteps
            \/ (pc.step = "backup" /\ pc.phase = "done") => op.point)
    /\ pc.path = "undo" => op.point

\* Before the data changes, the record names it too.
Pointed ==
  /\ InStep /\ pc.path = "main" /\ op.kind = "update" =>
       (pc.step \in {"activate"} \cup LateSteps \/ (pc.step = "migrate" /\ pc.phase # "emit")
          => disk.point)
  /\ InStep \/ pc = Finish =>
       (op.kind = "update" /\ (data = "migrated" \/ release = "target") => op.point)
  /\ PointOnRecord

\* Behind the boundary, the evidence tells what was done.
Evident(o) ==
  Boundary \in o.stages =>
    /\ o.kind = "rollback" => Restored
    /\ o.kind = "update" => IF Undone(o) THEN Restored ELSE IF Activated(o) THEN Whole ELSE Clean

Recorded == Evident(disk) /\ (InStep \/ pc = Finish => Evident(op))

\* A settled operation tells the truth.
Truthful(o) ==
  /\ o.kind = "update" /\ o.status = "succeeded" => Whole /\ site = "reopened"
  /\ o.status = "rolled_back" => Restored /\ site = "reopened"
  /\ o.kind = "rollback" /\ o.status = "succeeded" => Restored /\ site = "reopened"
  /\ o.kind \in {"update", "backup"} /\ o.status = "failed" => Clean
  /\ o.kind = "backup" /\ o.status = "succeeded" => o.point /\ site = "reopened"

Told == Truthful(disk) /\ (pc = Finish => Truthful(op))

ResultInv ==
  /\ Agreed /\ Pathed /\ Begun /\ Journal /\ Replaced /\ Opened /\ Named /\ Pointed /\ Recorded /\ Told

--------------------
\* The steps of a path, what follows what, and what comes last.
StepsOf(path, kind) ==
  CASE path = "undo" -> {"rollback", "resume", "verify", "rolled_back"}
    [] path = "reopen" -> {"resume"}
    [] path = "restart" -> {"resume", "verify"}
    [] path = "again" -> IF kind = "verify" THEN {"verify"} ELSE {"resume", "verify"}
    [] path = "main" /\ kind = "update" ->
         {"preflight", "quiesce", "backup", "migrate", "activate", "resume", "verify", "succeeded"}
    [] path = "main" /\ kind = "backup" -> {"preflight", "quiesce", "backup", "resume", "verify"}
    [] path = "main" /\ kind = "rollback" -> {"preflight", "quiesce", "rollback", "resume", "verify"}
    [] OTHER -> {"verify"}

Last(path, kind) ==
  CASE path = "undo" -> "rolled_back"
    [] path = "reopen" -> "resume"
    [] path = "main" /\ kind = "update" -> "succeeded"
    [] OTHER -> "verify"

After(path, kind, a, b) ==
  \/ a = "preflight" /\ b = "quiesce" /\ path = "main" /\ kind # "verify"
  \/ a = "quiesce" /\ b = "backup" /\ path = "main" /\ kind \in {"update", "backup"}
  \/ a = "quiesce" /\ b = "rollback" /\ path = "main" /\ kind = "rollback"
  \/ a = "backup" /\ b = "migrate" /\ path = "main" /\ kind = "update"
  \/ a = "backup" /\ b = "resume" /\ path = "main" /\ kind = "backup"
  \/ a = "migrate" /\ b = "activate" /\ path = "main" /\ kind = "update"
  \/ a = "activate" /\ b = "resume" /\ path = "main" /\ kind = "update"
  \/ a = "rollback" /\ b = "resume" /\ (path = "undo" \/ (path = "main" /\ kind = "rollback"))
  \/ a = "resume" /\ b = "verify" /\ kind # "verify"
  \/ a = "verify" /\ b = "succeeded" /\ path = "main" /\ kind = "update"
  \/ a = "verify" /\ b = "rolled_back" /\ path = "undo"

\* The worker is at a step of its path.
LEMMA OnPath ==
  ASSUME NEW path, NEW kind, NEW n \in 1 .. Len(Plan(path, kind))
  PROVE  Plan(path, kind)[n] \in StepsOf(path, kind)
<1> DEFINE plan == Plan(path, kind)
<1>1. CASE path = "undo"
  BY <1>1 DEF Plan, StepsOf
<1>2. CASE path \in {"reopen", "restart", "again"}
  BY <1>2 DEF Plan, StepsOf
<1>3. CASE path = "main" /\ kind = "update"
  <2>1. plan = <<"preflight", "quiesce", "backup", "migrate", "activate", "resume", "verify",
                 "succeeded">>
    BY <1>3 DEF Plan
  <2> HIDE DEF plan
  <2>2. plan[n] \in {"preflight", "quiesce", "backup", "migrate", "activate", "resume", "verify",
                     "succeeded"}
    BY <2>1 DEF plan
  <2>3. QED
    BY <1>3, <2>2 DEF StepsOf, plan
<1>4. CASE path = "main" /\ kind \in {"backup", "rollback"}
  BY <1>4 DEF Plan, StepsOf
<1>5. QED
  BY <1>1, <1>2, <1>3, <1>4 DEF Plan, StepsOf

\* Done with a step, the worker goes to the next of its plan or to the end.
LEMMA Follows ==
  ASSUME Shapes, OnPlan, InStep, Pathed, pc.path \in Paths, NEW o, o.kind = op.kind, Advance(o)
  PROVE  \/ /\ pc' = Finish /\ op' = [o EXCEPT !.status = Result(o)]
            /\ pc.step = Last(pc.path, op.kind)
         \/ /\ op' = o /\ pc' = At(pc.path, pc'.step, "emit")
            /\ After(pc.path, op.kind, pc.step, pc'.step)
<1> DEFINE plan == Plan(pc.path, op.kind)
           i == CHOOSE n \in 1 .. Len(plan) : plan[n] = pc.step
<1>1. i \in 1 .. Len(plan) /\ plan[i] = pc.step
  BY DEF OnPlan
<1>2. \/ i < Len(plan) /\ op' = o /\ pc' = At(pc.path, plan[i + 1], "emit")
      \/ ~(i < Len(plan)) /\ op' = [o EXCEPT !.status = Result(o)] /\ pc' = Finish
  BY DEF Advance
<1> HIDE DEF i
<1>3. i < Len(plan) => After(pc.path, op.kind, pc.step, plan[i + 1])
  <2>1. CASE pc.path = "undo"
    <3>1. plan = <<"rollback", "resume", "verify", "rolled_back">> /\ op.kind = "update"
      BY <2>1 DEF Plan, Pathed
    <3>2. QED
      BY <2>1, <3>1, <1>1 DEF After
  <2>2. CASE pc.path \in {"restart", "reopen", "again"}
    <3>1. plan \in {<<"resume", "verify">>, <<"resume">>, <<"verify">>}
          /\ (plan = <<"resume", "verify">> => op.kind # "verify")
      BY <2>2 DEF Plan, Pathed
    <3>2. QED
      BY <2>2, <3>1, <1>1 DEF After
  <2>3. CASE pc.path = "main" /\ op.kind = "update"
    <3>1. plan = <<"preflight", "quiesce", "backup", "migrate", "activate", "resume", "verify",
                   "succeeded">>
      BY <2>3 DEF Plan
    <3>2. QED
      BY <2>3, <3>1, <1>1 DEF After
  <2>4. CASE pc.path = "main" /\ op.kind = "backup"
    <3>1. plan = <<"preflight", "quiesce", "backup", "resume", "verify">>
      BY <2>4 DEF Plan
    <3>2. QED
      BY <2>4, <3>1, <1>1 DEF After
  <2>5. CASE pc.path = "main" /\ op.kind = "rollback"
    <3>1. plan = <<"preflight", "quiesce", "rollback", "resume", "verify">>
      BY <2>5 DEF Plan
    <3>2. QED
      BY <2>5, <3>1, <1>1 DEF After
  <2>6. CASE pc.path = "main" /\ op.kind \notin {"update", "backup", "rollback"}
    <3>1. plan = <<"verify">>
      BY <2>6 DEF Plan
    <3>2. QED
      BY <3>1, <1>1
  <2>7. QED
    BY <2>1, <2>2, <2>3, <2>4, <2>5, <2>6 DEF Paths
<1>4. ~(i < Len(plan)) => pc.step = Last(pc.path, op.kind)
  <2>1. i = Len(plan) \/ i < Len(plan)
    BY <1>1, PlanLate
  <2>2. plan[Len(plan)] = Last(pc.path, op.kind)
    BY DEF Plan, Last, Paths
  <2>3. QED
    BY <1>1, <2>1, <2>2
<1> HIDE DEF plan
<1>5. CASE i < Len(plan) /\ op' = o /\ pc' = At(pc.path, plan[i + 1], "emit")
  <2>1. pc'.step = plan[i + 1]
    BY <1>5 DEF At
  <2>2. QED
    BY <1>3, <1>5, <2>1
<1>6. QED
  BY <1>2, <1>4, <1>5

\* A step failed: the end, or the way back.
LEMMA Fails ==
  ASSUME Shapes, NEW o, IsOperation(o), o.kind = op.kind, NEW how, Recover(o, how)
  PROVE  /\ op'.kind = o.kind /\ op'.stages = o.stages
         /\ op'.point = (o.point /\ (op.kind = "update" => pc.step \notin {"quiesce", "backup"}
                                                            \/ pc'.path = "undo"))
         /\ \/ pc' = Finish /\ op'.status = "recovery_required"
            \/ /\ pc' = Finish /\ op'.status = "failed"
               /\ pc.step = "preflight" \/ op.kind = "verify"
            \/ /\ pc' = At("undo", "rollback", "emit") /\ op'.status = "running"
               /\ op.kind = "update" /\ pc.path = "main" /\ pc.step \in {"backup", "migrate", "activate"}
               /\ pc.step = "backup" => how = "done"
            \/ /\ pc' \in {At("restart", "resume", "emit"), At("reopen", "resume", "emit")}
               /\ op'.status \in {"running", "failed", "recovery_required"}
               /\ op.kind = "update" => pc.path = "main" /\ pc.step \in {"quiesce", "backup"}
                                        /\ op'.status = "running"
               /\ op.kind \in {"update", "backup"}
               /\ pc.step \notin {"preflight"}
<1> DEFINE outcome == Outcome(o.kind, pc.path, pc.step, how)
<1>1. /\ op' = [o EXCEPT !.status = outcome.status,
                         !.point = @ /\ (o.kind = "update" => pc.step \notin {"quiesce", "backup"}
                                                              \/ outcome.path = "undo")]
      /\ pc' = IF outcome.path = "finish" THEN Finish ELSE Start(outcome.path, o.kind)
  BY DEF Recover
<1>2. \/ outcome = Stop("recovery_required")
      \/ outcome = Stop("failed") /\ (pc.step = "preflight" \/ op.kind = "verify")
      \/ /\ outcome = Follow("undo", "running")
         /\ op.kind = "update" /\ pc.path = "main" /\ pc.step \in {"backup", "migrate", "activate"}
         /\ pc.step = "backup" => how = "done"
      \/ /\ \E status \in {"running", "failed", "recovery_required"} :
              /\ outcome \in {Follow("restart", status), Follow("reopen", status)}
              /\ op.kind = "update" => pc.path = "main" /\ pc.step \in {"quiesce", "backup"}
                                        /\ status = "running"
         /\ op.kind \in {"update", "backup"}
         /\ pc.step \notin {"preflight"}
  BY DEF Outcome
<1> HIDE DEF outcome
<1>3. /\ op'.kind = o.kind /\ op'.stages = o.stages /\ op'.status = outcome.status
      /\ op'.point = (o.point /\ (op.kind = "update" => pc.step \notin {"quiesce", "backup"}
                                                         \/ outcome.path = "undo"))
  BY <1>1 DEF IsOperation
<1>4. Plan("undo", o.kind)[1] = "rollback" /\ Plan("restart", o.kind)[1] = "resume"
      /\ Plan("reopen", o.kind)[1] = "resume"
  BY DEF Plan
<1>5. CASE outcome = Stop("recovery_required") \/ outcome = Stop("failed")
  BY <1>1, <1>2, <1>3, <1>5 DEF Stop, Follow, Finish, At
<1>6. CASE outcome = Follow("undo", "running")
  BY <1>1, <1>2, <1>3, <1>4, <1>6 DEF Stop, Follow, Start, At
<1>7. ASSUME NEW status \in {"running", "failed", "recovery_required"},
             outcome \in {Follow("restart", status), Follow("reopen", status)},
             op.kind = "update" => pc.path = "main" /\ pc.step \in {"quiesce", "backup"}
                                    /\ status = "running",
             op.kind \in {"update", "backup"}, pc.step \notin {"preflight"}
      PROVE  /\ op'.point = (o.point /\ (op.kind = "update" => pc.step \notin {"quiesce", "backup"}
                                                            \/ pc'.path = "undo"))
             /\ pc' \in {At("restart", "resume", "emit"), At("reopen", "resume", "emit")}
             /\ op'.status = status
  BY <1>1, <1>3, <1>4, <1>7 DEF Stop, Follow, Start, At
<1>8. QED
  BY <1>2, <1>3, <1>5, <1>6, <1>7

\* The step of a worker that is on a path, and the write after it.
Staging(o, status) ==
  /\ IsOperation(o) /\ o.kind = op.kind /\ o.status = op.status /\ o.point = op.point
  /\ \/ o.stages = op.stages \cup {<<pc.step, status>>}
     \/ o.stages = op.stages

\* One more stage leaves what the evidence says behind the boundary true, also the stage
\* that is the boundary.
LEMMA EvidentKeeps ==
  ASSUME Shapes, WorkerInv, ResultInv, InStep, NEW o, NEW status, Staging(o, status)
  PROVE  Evident(o)
<1> SUFFICES ASSUME Boundary \in o.stages
             PROVE  /\ o.kind = "rollback" => Restored
                    /\ o.kind = "update" => IF Undone(o) THEN Restored
                                            ELSE IF Activated(o) THEN Whole ELSE Clean
  BY DEF Evident
<1>a. Journal /\ Pathed /\ Replaced /\ Evident(op) /\ op.kind = o.kind /\ pc.path \in Paths
  BY DEF ResultInv, Recorded, Staging, Agreed
<1>b. pc.step \in StepsOf(pc.path, op.kind)
  BY OnPath DEF WorkerInv, OnPlan
<1>1. pc.step \in LateSteps
  BY <1>a DEF Pathed, Staging, Boundary, LateSteps
<1>2. CASE Boundary \in op.stages
  <2>1. CASE op.kind # "update"
    BY <1>2, <1>a, <2>1 DEF Evident
  <2>2. CASE op.kind = "update"
    <3>1. pc.step = "rolled_back" => pc.path = "undo"
      BY <1>a, <1>b, <2>2 DEF StepsOf, Paths
    <3>2. Undone(o) <=> Undone(op)
      BY <1>1, <1>a, <2>2, <3>1 DEF Staging, Undone, Has, Journal, LateSteps
    <3>3. pc.step = "succeeded" => pc.path = "main"
      BY <1>a, <1>b, <2>2 DEF StepsOf, Paths
    <3>4. ~Undone(o) => (Activated(o) <=> Activated(op))
      BY <1>1, <1>a, <2>2, <3>3 DEF Staging, Activated, Has, Journal, LateSteps
    <3>5. QED
      BY <1>2, <1>a, <2>2, <3>2, <3>4 DEF Evident
  <2>3. QED
    BY <2>1, <2>2
<1>3. CASE Boundary \notin op.stages
  <2>1. pc.step = "resume" /\ o.stages = op.stages \cup {Boundary}
    BY <1>3 DEF Staging, Boundary
  <2>2. op.kind \in {"update", "rollback"} => pc.path # "again"
    BY <1>3, <1>a DEF Pathed, MayResume
  <2>3. CASE op.kind = "rollback"
    BY <1>a, <2>1, <2>2, <2>3 DEF Replaced, Pathed, LateSteps, Paths
  <2>4. CASE op.kind = "update" /\ pc.path = "undo"
    BY <1>a, <2>1, <2>4 DEF Replaced, Journal, LateSteps, Undone, Has
  <2>5. CASE op.kind = "update" /\ pc.path = "main"
    <3>1. ~Undone(o) /\ Activated(o)
      BY <1>a, <2>1, <2>5 DEF Journal, LateSteps, Undone, Activated, Has, Boundary
    <3>2. QED
      BY <1>a, <2>1, <2>5, <3>1 DEF Replaced, LateSteps
  <2>6. CASE op.kind = "update" /\ pc.path \in {"restart", "reopen"}
    <3>1. ~Undone(o) /\ ~Activated(o)
      BY <1>a, <2>1, <2>6 DEF Journal, LateSteps, Undone, Activated, Has, Boundary
    <3>2. QED
      BY <1>a, <2>1, <2>6, <3>1 DEF Replaced, LateSteps
  <2>7. QED
    BY <1>a, <2>2, <2>3, <2>4, <2>5, <2>6 DEF Paths
<1>4. QED
  BY <1>2, <1>3

\* A step is done: the next one begins, or the operation is settled.
LEMMA AdvanceResult ==
  ASSUME Shapes, WorkerInv, ResultInv, InStep, UNCHANGED siteVars, NEW o, Staging(o, "succeeded"),
         <<pc.step, "succeeded">> \in o.stages \/ op.kind = "verify",
         disk' \in {disk, o}, disk.stages \subseteq op.stages, IsOperation(disk'), IsOperation(op'),
         pc.phase = "done" \/ (pc.phase = "emit" /\ Marker(pc.step)), Advance(o)
  PROVE  ResultInv'
<1>a. /\ Agreed /\ Pathed /\ Begun /\ Journal /\ Replaced /\ Opened /\ Named /\ Pointed
      /\ Recorded /\ Told
  BY DEF ResultInv
<1>b. /\ op.kind = disk.kind /\ disk.kind \in AllKinds /\ Unsettled(disk) /\ Unsettled(op)
      /\ pc.path \in Paths
  BY <1>a DEF Agreed, InStep, Idle, At
<1>c. /\ data' = data /\ release' = release /\ site' = site
      /\ Clean' = Clean /\ Migrated' = Migrated /\ Whole' = Whole /\ Restored' = Restored
  BY DEF siteVars, Clean, Migrated, Whole, Restored
<1>d. /\ disk'.kind = disk.kind /\ Unsettled(disk') /\ disk.stages \subseteq disk'.stages
      /\ (disk.point /\ op.point => disk'.point) /\ (disk'.point = disk.point \/ disk'.point = op.point)
  BY <1>b DEF Staging, Unsettled
<1>e. Evident(o) /\ Evident(disk)
  BY <1>a, EvidentKeeps DEF Recorded
<1>f. Evident(disk')
  BY <1>e
<1>g. pc.step \in StepsOf(pc.path, op.kind)
  BY OnPath DEF WorkerInv, OnPlan
<1>h. disk'.stages = {} => Clean /\ op.kind = "verify"
  BY <1>a, <1>d DEF Begun, Marker
<1>i. PointOnRecord'
  BY <1>a, <1>b, <1>c, <1>d DEF Pointed, PointOnRecord
<1>1. CASE pc' = Finish /\ op' = [o EXCEPT !.status = Result(o)] /\ pc.step = Last(pc.path, op.kind)
  <2>1. /\ op'.kind = op.kind /\ op'.stages = o.stages /\ op'.point = op.point
        /\ op'.status = Result(o)
    BY <1>1 DEF Staging, IsOperation
  <2>2. ~InStep' /\ pc'.phase # "queued" /\ pc' # Idle /\ pc' = Finish
    BY <1>1 DEF InStep, Finish, Idle, At
  <2>n. op'.status # "none"
    BY <1>b, <2>1 DEF Result, Settled, Staging, Unsettled, ActiveStatuses
  <2>3. Agreed'
    BY <1>a, <1>b, <1>c, <1>d, <2>1, <2>2, <2>n DEF Agreed, Unsettled, ActiveStatuses
  <2>4. Begun'
    BY <1>c, <1>h, <2>2 DEF Begun
  <2>5. Pathed' /\ Journal' /\ Replaced' /\ Opened' /\ Named'
    BY <2>2 DEF Pathed, Journal, Replaced, Opened, Named
  <2>6. Pointed'
    BY <1>a, <1>c, <1>i, <2>1, <2>2 DEF Pointed
  <2>7. Recorded'
    <3>1. Evident(op)'
      BY <1>c, <1>e, <2>1 DEF Evident, Undone, Activated, Has, Staging
    <3>2. Evident(disk)'
      BY <1>c, <1>f DEF Evident, Undone, Activated, Has
    <3>3. QED
      BY <3>1, <3>2 DEF Recorded
  <2>8. Truthful(disk)'
    BY <1>a, <1>b, <1>c, <1>d DEF Truthful, Unsettled, ActiveStatuses, Agreed
  <2>9. Truthful(op)'
    <3>o. op.kind # "verify" /\ pc.path # "reopen" => site = "reopened"
      BY <1>1, <1>a DEF Opened, Last, LateSteps
    <3>l. pc.step \in LateSteps
      BY <1>1 DEF Last, LateSteps
    <3>1. CASE pc.path = "main"
      <4>1. op'.status = "succeeded"
        BY <2>1, <3>1 DEF Result
      <4>2. op.kind = "update" => Whole
        BY <1>a, <3>1, <3>l DEF Replaced
      <4>3. op.kind = "rollback" => Restored
        BY <1>a, <3>1, <3>l DEF Replaced
      <4>4. op.kind = "backup" => op.point
        BY <1>a, <3>1, <3>l DEF Named
      <4>5. QED
        BY <1>c, <2>1, <3>1, <3>o, <4>1, <4>2, <4>3, <4>4 DEF Truthful
    <3>2. CASE pc.path = "undo"
      <4>1. op'.status = "rolled_back" /\ op.kind = "update" /\ Restored
        BY <1>a, <2>1, <3>2, <3>l DEF Result, Replaced, Pathed
      <4>2. QED
        BY <1>c, <2>1, <3>2, <3>o, <4>1 DEF Truthful
    <3>3. CASE pc.path = "again"
      <4>1. op'.status = Settled(o) /\ MayResume(op)
        BY <1>a, <2>1, <3>3 DEF Result, Pathed
      <4>2. CASE op.kind = "update"
        <5>1. Boundary \in o.stages
          BY <4>1, <4>2 DEF MayResume, Staging
        <5>2. QED
          BY <1>c, <1>e, <2>1, <3>3, <3>o, <4>1, <4>2, <5>1 DEF Truthful, Settled, Evident, Staging
      <4>3. CASE op.kind = "backup"
        <5>1. Clean
          BY <1>a, <1>b, <4>3 DEF Agreed
        <5>2. op'.status \in {"succeeded", "failed"} /\ (op'.status = "succeeded" => op'.point)
          BY <2>1, <4>1, <4>3 DEF Settled, Staging
        <5>3. QED
          BY <1>c, <2>1, <3>3, <3>o, <4>3, <5>1, <5>2 DEF Truthful
      <4>4. CASE op.kind = "rollback"
        <5>1. Boundary \in o.stages
          BY <4>1, <4>4 DEF MayResume, Staging
        <5>2. op'.status = "succeeded"
          BY <4>1, <4>4 DEF Settled, Staging
        <5>3. QED
          BY <1>c, <1>e, <2>1, <3>3, <3>o, <4>4, <5>1, <5>2 DEF Truthful, Evident, Staging
      <4>5. CASE op.kind = "verify"
        <5>1. op'.status = "succeeded"
          BY <4>1, <4>5 DEF Settled, Staging
        <5>2. QED
          BY <2>1, <4>5, <5>1 DEF Truthful
      <4>6. QED
        BY <1>b, <4>2, <4>3, <4>4, <4>5 DEF AllKinds
    <3>4. CASE pc.path \in {"restart", "reopen"}
      <4>1. Clean /\ op.kind \in {"update", "backup"}
        BY <1>a, <3>4 DEF Replaced, Pathed
      <4>2. op'.status \in ActiveStatuses \cup {"failed"}
        BY <1>b, <2>1, <3>4, <4>1 DEF Result, Staging, Unsettled, ActiveStatuses
      <4>3. QED
        BY <1>c, <2>1, <4>1, <4>2 DEF Truthful, ActiveStatuses
    <3>5. QED
      BY <1>b, <3>1, <3>2, <3>3, <3>4 DEF Paths
  <2>10. QED
    BY <2>3, <2>4, <2>5, <2>6, <2>7, <2>8, <2>9 DEF ResultInv, Told
<1>2. CASE op' = o /\ pc' = At(pc.path, pc'.step, "emit") /\ After(pc.path, op.kind, pc.step, pc'.step)
  <2>1. /\ op'.kind = op.kind /\ op'.stages = o.stages /\ op'.point = op.point /\ Unsettled(op')
        /\ InStep' /\ pc'.phase = "emit" /\ pc'.path = pc.path /\ pc' # Idle /\ pc' # Finish
        /\ op.stages \subseteq o.stages
    BY <1>2, <1>b DEF Staging, InStep, At, Idle, Finish, Unsettled
  <2>s. <<pc.step, "succeeded">> \in op'.stages /\ op'.stages = op.stages \cup {<<pc.step, "succeeded">>}
    BY <1>2, <1>a, <2>1 DEF Staging, After, Pathed
  <2>d. pc.phase = "done"
    BY <1>2 DEF After, Marker
  <2>3. Agreed'
    BY <1>a, <1>b, <1>c, <1>d, <2>1 DEF Agreed, Unsettled, ActiveStatuses
  <2>4. Begun'
    BY <1>c, <1>h, <2>1 DEF Begun
  <2>5. Pathed'
    BY <1>2, <1>a, <2>1, <2>s DEF Pathed, After, LateSteps, MayResume, Boundary
  <2>6. Journal'
    BY <1>2, <1>a, <2>1, <2>s DEF Journal, After, LateSteps, Has
  <2>7. Replaced'
    BY <1>2, <1>a, <1>c, <2>1, <2>d DEF Replaced, After, LateSteps
  <2>8. Opened' /\ Named'
    BY <1>2, <1>a, <1>c, <2>1, <2>d DEF Opened, Named, After, LateSteps
  <2>9. Pointed'
    BY <1>2, <1>a, <1>b, <1>c, <1>d, <1>i, <2>1, <2>d DEF Pointed, Named, After, LateSteps
  <2>10. Recorded'
    <3>1. Evident(op)'
      BY <1>2, <1>c, <1>e DEF Evident, Undone, Activated, Has
    <3>2. Evident(disk)'
      BY <1>c, <1>f DEF Evident, Undone, Activated, Has
    <3>3. QED
      BY <3>1, <3>2 DEF Recorded
  <2>11. Told'
    BY <1>a, <1>b, <1>c, <1>d, <2>1 DEF Told, Truthful, Unsettled, ActiveStatuses, Agreed
  <2>12. QED
    BY <2>3, <2>4, <2>5, <2>6, <2>7, <2>8, <2>9, <2>10, <2>11 DEF ResultInv
<1>3. QED
  BY <1>1, <1>2, Follows, <1>a, <1>b DEF WorkerInv, Staging

\* A step failed: the operation ends, is restored or is reopened.
LEMMA RecoverResult ==
  ASSUME Shapes, WorkerInv, ResultInv, InStep, UNCHANGED siteVars,
         NEW o, NEW status, Staging(o, status), NEW how, how = "done" => pc.phase = "done",
         disk' \in {disk, o}, disk.stages \subseteq op.stages, IsOperation(disk'), IsOperation(op'),
         Recover(o, how)
  PROVE  ResultInv'
<1>a. /\ Agreed /\ Pathed /\ Begun /\ Journal /\ Replaced /\ Opened /\ Named /\ Pointed
      /\ Recorded /\ Told
  BY DEF ResultInv
<1>b. /\ op.kind = disk.kind /\ disk.kind \in AllKinds /\ Unsettled(disk) /\ Unsettled(op)
      /\ pc.path \in Paths
  BY <1>a DEF Agreed, InStep, Idle, At
<1>c. /\ data' = data /\ release' = release /\ site' = site
      /\ Clean' = Clean /\ Migrated' = Migrated /\ Whole' = Whole /\ Restored' = Restored
  BY DEF siteVars, Clean, Migrated, Whole, Restored
<1>d. /\ disk'.kind = disk.kind /\ Unsettled(disk') /\ disk.stages \subseteq disk'.stages
      /\ (disk.point /\ op.point => disk'.point) /\ (disk'.point = disk.point \/ disk'.point = op.point)
  BY <1>b DEF Staging, Unsettled
<1>e. Evident(o) /\ Evident(disk)
  BY <1>a, EvidentKeeps DEF Recorded
<1>f. Evident(disk')
  BY <1>e
<1>g. pc.step \in StepsOf(pc.path, op.kind)
  BY OnPath DEF WorkerInv, OnPlan
<1>h. disk'.stages = {} => Clean /\ (pc.step = "preflight" \/ op.kind = "verify")
  BY <1>a, <1>d DEF Begun
<1>i. PointOnRecord'
  BY <1>a, <1>b, <1>c, <1>d DEF Pointed, PointOnRecord
<1>j. pc.step \in {"preflight", "quiesce", "backup"} => pc.path = "main"
  BY <1>b, <1>g DEF StepsOf, Paths
<1>k. pc.step \in {"preflight", "quiesce", "backup"} /\ op.kind \in {"update", "backup"} => Clean
  BY <1>a, <1>b, <1>j DEF Replaced, Agreed
<1>l. /\ op'.kind = op.kind /\ op'.stages = o.stages /\ op.stages \subseteq o.stages
      /\ op'.point = (op.point /\ (op.kind = "update" => pc.step \notin {"quiesce", "backup"}
                                                         \/ pc'.path = "undo"))
  BY Fails DEF Staging
<1>m. /\ op.kind = "update" /\ (data = "migrated" \/ release = "target") => op'.point
  BY <1>a, <1>k, <1>l DEF Pointed, Clean
<1>n. Recorded'
  <2>1. Evident(op)'
    BY <1>c, <1>e, <1>l DEF Evident, Undone, Activated, Has, Staging
  <2>2. Evident(disk)'
    BY <1>c, <1>f DEF Evident, Undone, Activated, Has
  <2>3. QED
    BY <2>1, <2>2 DEF Recorded
<1>o. Truthful(disk)'
  BY <1>a, <1>b, <1>c, <1>d DEF Truthful, Unsettled, ActiveStatuses, Agreed
<1>1. CASE /\ pc' = Finish /\ op'.status \in {"recovery_required", "failed"}
           /\ op'.status = "failed" => pc.step = "preflight" \/ op.kind = "verify"
  <2>1. ~InStep' /\ pc'.phase # "queued" /\ pc' # Idle /\ pc' = Finish
    BY <1>1 DEF InStep, Finish, Idle, At
  <2>2. Agreed'
    BY <1>1, <1>a, <1>b, <1>c, <1>d, <1>l, <2>1 DEF Agreed, Unsettled, ActiveStatuses
  <2>3. Begun' /\ Pathed' /\ Journal' /\ Replaced' /\ Opened' /\ Named'
    BY <1>c, <1>h, <2>1 DEF Begun, Pathed, Journal, Replaced, Opened, Named
  <2>4. Pointed'
    BY <1>c, <1>i, <1>l, <1>m, <2>1 DEF Pointed
  <2>5. Truthful(op)'
    BY <1>1, <1>c, <1>k, <1>l DEF Truthful
  <2>6. QED
    BY <1>n, <1>o, <2>2, <2>3, <2>4, <2>5 DEF ResultInv, Told
<1>2. CASE /\ pc' = At("undo", "rollback", "emit") /\ op'.status = "running"
           /\ op.kind = "update" /\ pc.path = "main" /\ pc.step \in {"backup", "migrate", "activate"}
           /\ pc.step = "backup" => how = "done"
  <2>1. /\ InStep' /\ pc'.path = "undo" /\ pc'.step = "rollback" /\ pc'.phase = "emit"
        /\ pc' # Idle /\ pc' # Finish
    BY <1>2 DEF InStep, At, Idle, Finish
  <2>2. Agreed'
    BY <1>2, <1>a, <1>b, <1>c, <1>d, <1>l, <2>1 DEF Agreed, Unsettled, ActiveStatuses, Paths
  <2>3. Begun'
    BY <1>2, <1>c, <1>h, <2>1 DEF Begun
  <2>4. Pathed'
    BY <1>2, <1>a, <1>l, <2>1 DEF Pathed, Staging, LateSteps, Boundary
  <2>5. Journal' /\ Replaced' /\ Opened'
    BY <2>1 DEF Journal, Replaced, Opened, LateSteps
  <2>6. Named' /\ Pointed'
    <3>1. op'.point
      BY <1>2, <1>a, <1>l, <2>1 DEF Named
    <3>2. QED
      BY <1>c, <1>i, <2>1, <3>1 DEF Named, Pointed
  <2>7. QED
    BY <1>n, <1>o, <2>1, <2>2, <2>3, <2>4, <2>5, <2>6 DEF ResultInv, Told
<1>3. CASE /\ pc' \in {At("restart", "resume", "emit"), At("reopen", "resume", "emit")}
           /\ op'.status \in {"running", "failed", "recovery_required"}
           /\ op.kind = "update" => pc.path = "main" /\ pc.step \in {"quiesce", "backup"}
                                    /\ op'.status = "running"
           /\ op.kind \in {"update", "backup"}
           /\ pc.step \notin {"preflight"}
  <2>1. /\ InStep' /\ pc'.path \in {"restart", "reopen"} /\ pc'.step = "resume" /\ pc'.phase = "emit"
        /\ pc' # Idle /\ pc' # Finish
    BY <1>3 DEF InStep, At, Idle, Finish
  <2>2. Agreed'
    BY <1>3, <1>a, <1>b, <1>c, <1>d, <1>l, <2>1 DEF Agreed, Unsettled, ActiveStatuses, Paths
  <2>3. Begun'
    BY <1>3, <1>c, <1>h, <2>1 DEF Begun
  <2>4. Pathed'
    BY <1>3, <1>a, <1>l, <2>1 DEF Pathed, LateSteps
  <2>5. Journal'
    BY <1>3, <1>a, <1>l, <2>1 DEF Journal, Has, Staging, LateSteps
  <2>6. Clean
    BY <1>3, <1>a, <1>b, <1>k DEF Agreed
  <2>7. Replaced' /\ Opened' /\ Named'
    BY <1>c, <2>1, <2>6 DEF Replaced, Opened, Named, LateSteps
  <2>8. Pointed'
    BY <1>c, <1>i, <1>l, <1>m, <2>1 DEF Pointed
  <2>9. QED
    BY <1>n, <1>o, <2>1, <2>2, <2>3, <2>4, <2>5, <2>7, <2>8 DEF ResultInv, Told
<1>4. QED
  BY <1>1, <1>2, <1>3, Fails DEF Staging

\* A stage that is written belongs to the step of the worker.
LEMMA StagedIs ==
  ASSUME Shapes, NEW status
  PROVE  /\ Staging(Staged(op, pc.step, status), status)
         /\ <<pc.step, status>> \in Staged(op, pc.step, status).stages
BY DEF Shapes, IsOperation, Staging, Staged

LEMMA InitResult == Init => ResultInv
BY DEF Init, NoOperation, Idle, Finish, At, ResultInv, Agreed, Pathed, Begun, Journal, Replaced, Opened, Named,
       Pointed, PointOnRecord, Recorded, Evident, Told, Truthful, InStep, Clean, Boundary

\* At rest only what is on disk counts.
LEMMA RestResult ==
  ASSUME pc' = Idle, disk'.status = "none" <=> disk'.kind = "none", disk'.kind \in AllKinds \cup {"none"},
         disk'.kind \notin {"update", "rollback"} => Clean', disk'.stages = {} => Clean',
         PointOnRecord', Evident(disk)', Truthful(disk)'
  PROVE  ResultInv'
<1>1. ~InStep' /\ pc'.phase # "queued" /\ pc' # Finish
  BY DEF InStep, Idle, Finish, At
<1>2. QED
  BY <1>1 DEF ResultInv, Agreed, Pathed, Begun, Journal, Replaced, Opened, Named, Pointed, Recorded, Told

\* An operation starts over what is there.
LEMMA StartResult ==
  ASSUME Shapes, WorkerInv, ResultInv, NEW kind \in Kinds, StartOp(kind)
  PROVE  ResultInv'
<1>1. /\ disk'.kind = kind /\ disk'.status = "queued" /\ disk'.stages = {}
      /\ kind \in AllKinds
  BY OperationConstants DEF StartOp, NoOperation
<1>2. Clean'
  BY DEF StartOp, Clean, Half
<1>3. PointOnRecord' /\ Evident(disk)' /\ Truthful(disk)'
  BY <1>1, <1>2 DEF PointOnRecord, Evident, Truthful, Clean, Boundary
<1>4. CASE pc' = Idle
  BY <1>1, <1>2, <1>3, <1>4, RestResult DEF AllKinds
<1>5. CASE op' = disk' /\ pc' = At("main", "none", "queued")
  <2>1. ~InStep' /\ pc'.phase = "queued" /\ pc' # Finish /\ pc' # Idle
    BY <1>5 DEF InStep, Finish, Idle, At
  <2>2. Agreed'
    BY <1>1, <1>2, <1>5, <2>1 DEF Agreed, Unsettled, ActiveStatuses, AllKinds
  <2>3. QED
    BY <1>2, <1>3, <2>1, <2>2
    DEF ResultInv, Pathed, Begun, Journal, Replaced, Opened, Named, Pointed, Recorded, Told
<1>6. QED
  BY <1>4, <1>5 DEF StartOp

\* The worker begins with the first step of the plan.
LEMMA RunResult ==
  ASSUME Shapes, WorkerInv, ResultInv, RunOp
  PROVE  ResultInv'
<1>a. Agreed /\ Begun /\ Pointed /\ Recorded /\ Told /\ pc # Idle /\ pc.phase = "queued"
  BY DEF ResultInv, RunOp, Idle, At
<1>b. /\ op.kind = disk.kind /\ disk.kind \in AllKinds /\ Unsettled(disk)
      /\ op.stages = {} /\ disk.stages = {} /\ Clean
  BY <1>a DEF Agreed
<1>c. op' = [op EXCEPT !.status = "running"] /\ UNCHANGED siteVars
  BY DEF RunOp
<1>d. Clean'
  BY <1>b, <1>c DEF siteVars, Clean
<1>e. op'.kind = op.kind /\ op'.stages = {} /\ op'.status = "running"
  BY <1>b, <1>c DEF Shapes, IsOperation
<1>f. disk' \in {disk, op'} /\ (pc' = Idle \/ pc' = Start("main", op.kind))
  BY <1>c DEF RunOp, Save
<1>g. disk'.kind = disk.kind /\ disk'.stages = {} /\ Unsettled(disk')
  BY <1>b, <1>e, <1>f DEF Unsettled, ActiveStatuses
<1>h. PointOnRecord' /\ Evident(disk)' /\ Truthful(disk)'
  BY <1>d, <1>g DEF PointOnRecord, Evident, Truthful, Clean, Boundary, Unsettled, ActiveStatuses
<1>1. CASE pc' = Idle
  BY <1>1, <1>b, <1>d, <1>g, <1>h, RestResult DEF AllKinds, Unsettled, ActiveStatuses
<1>2. CASE pc' = Start("main", op.kind)
  <2>1. Plan("main", op.kind)[1] = (IF op.kind = "verify" THEN "verify" ELSE "preflight")
    BY <1>b DEF Plan, AllKinds
  <2>2. /\ pc'.path = "main" /\ pc'.phase = "emit" /\ InStep' /\ pc' # Idle /\ pc' # Finish
        /\ pc'.step = (IF op.kind = "verify" THEN "verify" ELSE "preflight")
    BY <1>2, <2>1 DEF Start, At, InStep, Idle, Finish
  <2>3. Agreed'
    BY <1>b, <1>d, <1>e, <1>g, <2>2 DEF Agreed, Unsettled, ActiveStatuses, AllKinds, Paths
  <2>4. Pathed' /\ Begun'
    BY <1>d, <1>e, <1>g, <2>2 DEF Pathed, Begun, LateSteps
  <2>5. Journal' /\ Replaced' /\ Opened' /\ Named' /\ Pointed'
    BY <1>d, <1>e, <1>h, <2>2 DEF Journal, Replaced, Opened, Named, Pointed, Has, LateSteps, Clean
  <2>6. Recorded' /\ Told'
    BY <1>e, <1>h, <2>2 DEF Recorded, Told, Evident
  <2>7. QED
    BY <2>3, <2>4, <2>5, <2>6 DEF ResultInv
<1>3. QED
  BY <1>f, <1>1, <1>2

\* A step begins once its running stage is written, or tolerated as unwritten.
LEMMA BeginResult ==
  ASSUME Shapes, WorkerInv, ResultInv, InStep, UNCHANGED siteVars, pc.phase = "emit",
         NEW o, Staging(o, "running"), <<pc.step, "running">> \in o.stages, ~Marker(pc.step),
         disk' \in {disk, o}, disk.stages \subseteq op.stages,
         disk' = o \/ Tolerated(pc.path, pc.step), op' = o, pc' = At(pc.path, pc.step, "run")
  PROVE  ResultInv'
<1>a. /\ Agreed /\ Pathed /\ Begun /\ Journal /\ Replaced /\ Opened /\ Named /\ Pointed
      /\ Recorded /\ Told
  BY DEF ResultInv
<1>b. /\ op.kind = disk.kind /\ disk.kind \in AllKinds /\ Unsettled(disk) /\ Unsettled(op)
      /\ pc.path \in Paths
  BY <1>a DEF Agreed, InStep, Idle, At
<1>c. /\ data' = data /\ release' = release /\ site' = site
      /\ Clean' = Clean /\ Migrated' = Migrated /\ Whole' = Whole /\ Restored' = Restored
  BY DEF siteVars, Clean, Migrated, Whole, Restored
<1>d. /\ disk'.kind = disk.kind /\ Unsettled(disk') /\ disk.stages \subseteq disk'.stages
      /\ (disk.point /\ op.point => disk'.point) /\ (disk'.point = disk.point \/ disk'.point = op.point)
  BY <1>b DEF Staging, Unsettled
<1>e. Evident(o) /\ Evident(disk)
  BY <1>a, EvidentKeeps DEF Recorded
<1>f. Evident(disk')
  BY <1>e
<1>g. pc.step \in StepsOf(pc.path, op.kind)
  BY OnPath DEF WorkerInv, OnPlan
<1>h. PointOnRecord'
  BY <1>a, <1>b, <1>c, <1>d DEF Pointed, PointOnRecord
<1>i. /\ op'.kind = op.kind /\ op'.point = op.point /\ Unsettled(op') /\ op.stages \subseteq op'.stages
      /\ op'.stages = op.stages \cup {<<pc.step, "running">>}
  BY <1>b DEF Staging, Unsettled
<1>j. /\ pc'.path = pc.path /\ pc'.step = pc.step /\ pc'.phase = "run" /\ InStep'
      /\ pc' # Idle /\ pc' # Finish
  BY DEF At, InStep, Idle, Finish
<1>k. disk' = o \/ (pc.path = "undo" /\ pc.step = "rollback")
  BY DEF Tolerated, Marker
<1>1. Agreed'
  BY <1>a, <1>b, <1>c, <1>d, <1>i, <1>j DEF Agreed, Unsettled, ActiveStatuses
<1>2. Begun'
  BY <1>a, <1>c, <1>d, <1>i, <1>j, <1>k DEF Begun
<1>3. Pathed'
  BY <1>a, <1>i, <1>j DEF Pathed, MayResume, Boundary, LateSteps
<1>4. Journal'
  <2>1. op.kind = "update" /\ pc.step \in {"rollback", "rolled_back"} => pc.path = "undo"
    BY <1>b, <1>g DEF StepsOf, Paths
  <2>2. QED
    BY <1>a, <1>i, <1>j, <2>1 DEF Journal, Has
<1>5. Replaced' /\ Opened' /\ Named'
  BY <1>a, <1>c, <1>i, <1>j DEF Replaced, Opened, Named
<1>6. Pointed'
  BY <1>a, <1>b, <1>c, <1>d, <1>h, <1>i, <1>j, <1>k DEF Pointed, Named, Staging
<1>7. Recorded'
  <2>1. Evident(op)'
    BY <1>c, <1>e DEF Evident, Undone, Activated, Has
  <2>2. Evident(disk)'
    BY <1>c, <1>f DEF Evident, Undone, Activated, Has
  <2>3. QED
    BY <2>1, <2>2 DEF Recorded
<1>8. Told'
  BY <1>a, <1>b, <1>c, <1>d, <1>j DEF Told, Truthful, Unsettled, ActiveStatuses, Agreed
<1>9. QED
  BY <1>1, <1>2, <1>3, <1>4, <1>5, <1>6, <1>7, <1>8 DEF ResultInv

\* Writing a stage begins, ends or abandons a step.
LEMMA EmitResult ==
  ASSUME Shapes, Shapes', WorkerInv, ResultInv, Emit
  PROVE  ResultInv'
<1>1. InStep /\ UNCHANGED siteVars /\ disk.stages \subseteq op.stages /\ pc.phase = "emit"
  BY DEF Emit, InStep, WorkerInv, Evidence
<1>2. IsOperation(disk') /\ IsOperation(op')
  BY DEF Shapes
<1>3. PICK saved \in BOOLEAN :
        LET o == Staged(op, pc.step, IF Marker(pc.step) THEN "succeeded" ELSE "running") IN
        /\ Save(o, saved)
        /\ \/ ~Marker(pc.step) /\ (saved \/ Tolerated(pc.path, pc.step))
              /\ op' = o /\ pc' = At(pc.path, pc.step, "run")
           \/ Marker(pc.step) /\ Advance(o)
           \/ Recover(o, "emit")
  BY DEF Emit
<1> DEFINE status == IF Marker(pc.step) THEN "succeeded" ELSE "running"
           o == Staged(op, pc.step, status)
<1>4. Staging(o, status) /\ <<pc.step, status>> \in o.stages
  BY StagedIs
<1>5. disk' \in {disk, o} /\ (saved => disk' = o)
  BY <1>3 DEF Save
<1>6. \/ ~Marker(pc.step) /\ (saved \/ Tolerated(pc.path, pc.step))
         /\ op' = o /\ pc' = At(pc.path, pc.step, "run")
      \/ Marker(pc.step) /\ Advance(o)
      \/ Recover(o, "emit")
  BY <1>3
<1> HIDE DEF o
<1>7. CASE ~Marker(pc.step) /\ (saved \/ Tolerated(pc.path, pc.step))
           /\ op' = o /\ pc' = At(pc.path, pc.step, "run")
  <2>1. status = "running"
    BY <1>7
  <2>2. QED
    BY <1>1, <1>4, <1>5, <1>7, <2>1, BeginResult
<1>8. CASE Marker(pc.step) /\ Advance(o)
  <2>1. status = "succeeded"
    BY <1>8
  <2>2. QED
    BY <1>1, <1>2, <1>4, <1>5, <1>8, <2>1, AdvanceResult
<1>9. CASE Recover(o, "emit")
  BY <1>1, <1>2, <1>4, <1>5, <1>9, RecoverResult
<1>10. QED
  BY <1>6, <1>7, <1>8, <1>9

\* A step that is done or broken is written as such.
LEMMA OutcomeResult ==
  ASSUME Shapes, Shapes', WorkerInv, ResultInv, EmitDone \/ EmitBroken \/ Reverified
  PROVE  ResultInv'
<1>1. InStep /\ UNCHANGED siteVars /\ disk.stages \subseteq op.stages
  BY DEF EmitDone, EmitBroken, Reverified, InStep, WorkerInv, Evidence
<1>2. IsOperation(disk') /\ IsOperation(op') /\ IsOperation(op)
  BY DEF Shapes
<1>3. Staging(op, "succeeded") /\ Staging(op, "failed")
  BY <1>2 DEF Staging
<1>4. CASE EmitDone
  <2> DEFINE o == Staged(op, pc.step, "succeeded")
  <2>1. Staging(o, "succeeded") /\ <<pc.step, "succeeded">> \in o.stages
    BY StagedIs
  <2>2. \/ \E saved \in BOOLEAN : Save(o, saved) /\ (Advance(o) \/ Recover(o, "done"))
        \/ /\ disk' = o /\ op' = [disk' EXCEPT !.status = "recovery_required"] /\ pc' = Finish
           /\ op.kind = "update" /\ pc.step = "backup"
    BY <1>4 DEF EmitDone
  <2>3. disk' \in {disk, o} /\ pc.phase = "done"
    BY <1>4, <2>2 DEF Save, EmitDone
  <2> HIDE DEF o
  <2>4. CASE Advance(o)
    BY <1>1, <1>2, <2>1, <2>3, <2>4, AdvanceResult
  <2>5. CASE Recover(o, "done")
    BY <1>1, <1>2, <2>1, <2>3, <2>5, RecoverResult
  <2>6. CASE /\ disk' = o /\ op' = [disk' EXCEPT !.status = "recovery_required"] /\ pc' = Finish
             /\ op.kind = "update" /\ pc.step = "backup"
    <3>a. Agreed /\ Replaced /\ Recorded /\ Evident(o)
      BY <1>1, <2>1, EvidentKeeps DEF ResultInv
    <3>b. op.kind = disk.kind /\ Unsettled(op) /\ disk.kind \in AllKinds /\ pc.path \in Paths
      BY <1>1, <3>a DEF Agreed, InStep, Idle, At
    <3>c. pc.path = "main"
      BY <1>1, <2>6, <3>b, OnPath DEF WorkerInv, OnPlan, StepsOf, Paths
    <3>d. Clean
      BY <1>1, <2>6, <3>a, <3>c DEF Replaced
    <3>e. Clean'
      BY <1>1, <3>d DEF siteVars, Clean
    <3>f. /\ disk'.kind = op.kind /\ Unsettled(disk') /\ disk'.stages # {}
          /\ op'.kind = op.kind /\ op'.stages = disk'.stages /\ op'.status = "recovery_required"
      BY <1>2, <2>1, <2>6, <3>b DEF Staging, Unsettled, IsOperation
    <3>g. ~InStep' /\ pc'.phase # "queued" /\ pc' # Idle /\ pc' = Finish
      BY <2>6 DEF InStep, Finish, Idle, At
    <3>h. Evident(disk)' /\ Evident(op)'
      BY <1>1, <2>6, <3>a, <3>f DEF Evident, Undone, Activated, Has, siteVars, Clean, Whole, Restored
    <3>1. Agreed'
      BY <3>b, <3>e, <3>f, <3>g DEF Agreed, Unsettled, ActiveStatuses, AllKinds
    <3>2. PointOnRecord' /\ Pointed'
      BY <3>e, <3>g DEF PointOnRecord, Pointed, Clean
    <3>3. Told'
      BY <2>6, <3>e, <3>f DEF Told, Truthful, Unsettled, ActiveStatuses
    <3>4. QED
      BY <3>1, <3>2, <3>3, <3>f, <3>g, <3>h
      DEF ResultInv, Pathed, Begun, Journal, Replaced, Opened, Named, Recorded
  <2>7. QED
    BY <2>2, <2>4, <2>5, <2>6
<1>5. CASE EmitBroken
  <2> DEFINE o == Staged(op, pc.step, "failed")
  <2>1. Staging(o, "failed")
    BY StagedIs
  <2>2. \/ UNCHANGED disk /\ Recover(op, "run")
        \/ disk' \in {disk, o} /\ Recover(o, "run")
    BY <1>5 DEF EmitBroken, Save
  <2> HIDE DEF o
  <2>3. QED
    BY <1>1, <1>2, <1>3, <2>1, <2>2, RecoverResult
<1>6. CASE Reverified
  <2>1. op.kind = "verify" /\ UNCHANGED disk
        /\ ((pc.phase = "done" /\ Advance(op)) \/ Recover(op, "run"))
    BY <1>6 DEF Reverified, Quiet
  <2>2. CASE pc.phase = "done" /\ Advance(op)
    BY <1>1, <1>2, <1>3, <2>1, <2>2, AdvanceResult
  <2>3. CASE Recover(op, "run")
    BY <1>1, <1>2, <1>3, <2>1, <2>3, RecoverResult
  <2>4. QED
    BY <2>1, <2>2, <2>3
<1>7. QED
  BY <1>4, <1>5, <1>6

\* The end, a death and reconciliation.
LEMMA RestingResult ==
  ASSUME Shapes, Shapes', WorkerInv, ResultInv, End \/ Crash \/ Reconcile
  PROVE  ResultInv'
<1>a. /\ Agreed /\ Pathed /\ Begun /\ Pointed /\ Recorded /\ Told /\ Evidence
  BY DEF ResultInv, WorkerInv
<1>c. /\ data' = data /\ release' = release /\ site' = site
      /\ Clean' = Clean /\ Whole' = Whole /\ Restored' = Restored
  BY DEF End, Crash, Reconcile, siteVars, Clean, Whole, Restored
<1>1. CASE End
  <2>1. pc' = Idle /\ disk' \in {disk, op} /\ disk.stages \subseteq op.stages /\ pc = Finish
        /\ op.kind = disk.kind /\ op.status # "none" /\ disk.kind \in AllKinds
    BY <1>1, <1>a DEF End, Save, Evidence, Agreed, Finish, Idle, At
  <2>2. PointOnRecord'
    BY <1>a, <1>c, <2>1 DEF Pointed, PointOnRecord
  <2>3. Evident(disk)' /\ Truthful(disk)'
    BY <1>a, <1>c, <2>1 DEF Recorded, Told, Evident, Truthful, Undone, Activated, Has
  <2>4. QED
    BY <1>a, <1>c, <2>1, <2>2, <2>3, RestResult DEF Agreed, Begun, AllKinds
<1>2. CASE Crash
  <2>1. pc' = Idle /\ disk' = disk
    BY <1>2 DEF Crash
  <2>2. PointOnRecord' /\ Evident(disk)' /\ Truthful(disk)'
    BY <1>a, <1>c, <2>1 DEF Pointed, PointOnRecord, Recorded, Told, Evident, Truthful, Undone, Activated, Has
  <2>3. QED
    BY <1>a, <1>c, <2>1, <2>2, RestResult DEF Agreed, Begun
<1>3. CASE Reconcile
  <2>1. disk' = disk /\ disk.status \in ActiveStatuses /\ disk.kind \in AllKinds
    BY <1>3, <1>a DEF Reconcile, Unfinished, Agreed, ActiveStatuses
  <2>2. PointOnRecord' /\ Evident(disk)' /\ Truthful(disk)'
    BY <1>a, <1>c, <2>1 DEF Pointed, PointOnRecord, Recorded, Told, Evident, Truthful, Undone, Activated, Has
  <2>3. /\ op'.kind = disk.kind /\ op'.stages = disk.stages /\ op'.point = disk.point
        /\ op'.status = (IF disk.stages = {} THEN "failed"
                         ELSE IF MayResume(disk) THEN disk.status ELSE "recovery_required")
    BY <1>3 DEF Reconcile, Shapes, IsOperation
  <2>4. Evident(op)'
    BY <2>1, <2>2, <2>3 DEF Evident, Undone, Activated, Has
  <2>5. CASE disk.stages = {} \/ ~MayResume(disk)
    <3>1. pc' = Finish
      BY <1>3, <2>5 DEF Reconcile
    <3>2. ~InStep' /\ pc'.phase # "queued" /\ pc' # Idle
      BY <3>1 DEF InStep, Finish, Idle, At
    <3>3. op'.status = "failed" => Clean
      BY <1>a, <2>3, <2>1, <2>5 DEF Begun
    <3>4. Truthful(op)'
      BY <1>c, <2>3, <2>5, <3>3 DEF Truthful
    <3>5. Agreed'
      BY <1>a, <1>c, <2>1, <2>3, <2>5, <3>2 DEF Agreed, Unsettled, ActiveStatuses
    <3>6. Pointed'
      BY <1>a, <1>c, <2>1, <2>2, <2>3, <3>2 DEF Pointed, PointOnRecord
    <3>7. QED
      BY <1>a, <1>c, <2>1, <2>2, <2>4, <3>2, <3>4, <3>5, <3>6
      DEF ResultInv, Pathed, Begun, Journal, Replaced, Opened, Named, Recorded, Told
  <2>6. CASE disk.stages # {} /\ MayResume(disk)
    <3>1. pc' = At("again", Plan("again", disk.kind)[1], IF disk.kind = "verify" THEN "run" ELSE "emit")
      BY <1>3, <2>6 DEF Reconcile
    <3>2. Plan("again", disk.kind)[1] = (IF disk.kind = "verify" THEN "verify" ELSE "resume")
      BY DEF Plan
    <3>3. /\ InStep' /\ pc'.path = "again" /\ pc' # Idle /\ pc' # Finish /\ pc'.phase \in {"emit", "run"}
          /\ pc'.step = (IF disk.kind = "verify" THEN "verify" ELSE "resume")
      BY <3>1, <3>2 DEF At, InStep, Idle, Finish
    <3>4. Agreed'
      BY <1>a, <1>c, <2>1, <2>3, <2>6, <3>3 DEF Agreed, Unsettled, ActiveStatuses, Paths
    <3>5. Pathed' /\ Begun'
      BY <2>1, <2>3, <2>6, <3>3 DEF Pathed, Begun, MayResume, LateSteps
    <3>6. Journal' /\ Replaced' /\ Opened' /\ Named'
      BY <2>3, <3>3 DEF Journal, Replaced, Opened, Named, LateSteps
    <3>7. Pointed'
      BY <1>a, <1>c, <2>1, <2>2, <2>3, <3>3 DEF Pointed, PointOnRecord
    <3>8. QED
      BY <2>2, <2>4, <3>3, <3>4, <3>5, <3>6, <3>7 DEF ResultInv, Recorded, Told
  <2>7. QED
    BY <2>5, <2>6
<1>4. QED
  BY <1>1, <1>2, <1>3

\* What a step of the deployment does, and where it may be taken.
LEMMA DoResult ==
  ASSUME Shapes, WorkerInv, ResultInv, Do
  PROVE  ResultInv'
<1>a. /\ Agreed /\ Pathed /\ Begun /\ Journal /\ Replaced /\ Opened /\ Named /\ Pointed
      /\ Recorded /\ Told
  BY DEF ResultInv
<1>b. InStep /\ pc.phase = "run" /\ disk' = disk /\ disk.stages \subseteq op.stages
  BY DEF Do, InStep, WorkerInv, Evidence
<1>c. /\ op.kind = disk.kind /\ disk.kind \in AllKinds /\ Unsettled(disk) /\ Unsettled(op)
      /\ pc.path \in Paths
  BY <1>a, <1>b DEF Agreed, InStep, Idle, At
<1>d. pc.step \in StepsOf(pc.path, op.kind)
  BY <1>b, OnPath DEF WorkerInv, OnPlan
<1>e. /\ pc.step \in {"quiesce", "migrate", "activate"} => pc.path = "main"
      /\ pc.step \in {"migrate", "activate"} => op.kind = "update"
      /\ pc.step = "rollback" => op.kind \in {"update", "rollback"}
                                 /\ (op.kind = "update" <=> pc.path = "undo")
  BY <1>a, <1>b, <1>c, <1>d DEF StepsOf, Paths, AllKinds, Pathed
<1>f. /\ op'.kind = op.kind /\ op'.stages = op.stages /\ op'.status = op.status
      /\ op.point => op'.point
      /\ pc'.phase = "done" /\ pc.step = "backup" => op'.point
  <2>1. \/ op' = op /\ pc' = At(pc.path, pc.step, "broken")
        \/ op' = [op EXCEPT !.point = @ \/ pc.step = "backup"]
    BY DEF Do
  <2>2. CASE op' = op /\ pc' = At(pc.path, pc.step, "broken")
    BY <2>2 DEF At
  <2>3. CASE op' = [op EXCEPT !.point = @ \/ pc.step = "backup"]
    <3>1. op = [id |-> op.id, kind |-> op.kind, status |-> op.status, stages |-> op.stages,
                point |-> op.point]
      BY DEF Shapes, IsOperation
    <3>2. /\ op'.kind = op.kind /\ op'.stages = op.stages /\ op'.status = op.status
          /\ op'.point = (op.point \/ pc.step = "backup")
      BY <2>3, <3>1
    <3>3. QED
      BY <3>2
  <2>4. QED
    BY <2>1, <2>2, <2>3
<1>g. /\ pc'.path = pc.path /\ pc'.step = pc.step /\ pc'.phase \in {"done", "broken"} /\ InStep'
      /\ pc' # Idle /\ pc' # Finish
  BY DEF Do, At, InStep, Idle, Finish
<1>h. /\ pc.step = "quiesce" => site' \in {site, "closed"} /\ UNCHANGED <<data, release>>
      /\ pc.step = "migrate" => UNCHANGED <<site, release>> /\ (pc'.phase = "done" => data' = "migrated")
      /\ pc.step = "activate" => UNCHANGED <<site, data>> /\ (pc'.phase = "done" => release' = "target")
      /\ pc.step = "rollback" =>
           /\ pc'.phase = "done" => data' = "restored" /\ release' = "source"
           /\ data' \in {data, "torn", "restored"} /\ release' \in {release, "torn", "source"}
      /\ pc.step = "resume" => UNCHANGED <<data, release>> /\ site' \in {site, "reopened"}
                               /\ (pc'.phase = "done" => site' = "reopened")
      /\ pc.step \notin {"quiesce", "migrate", "activate", "rollback", "resume"} =>
           UNCHANGED <<site, data, release>>
  BY DEF Do, Succeeds, Breaks, siteVars, At
<1>i. pc.step \notin {"migrate", "activate", "rollback"} => UNCHANGED <<data, release>>
  BY <1>h
<1>j. pc.step \notin {"migrate", "activate", "rollback"} =>
        Clean' = Clean /\ Migrated' = Migrated /\ Whole' = Whole /\ Restored' = Restored
  BY <1>i DEF Clean, Migrated, Whole, Restored
<1>k. disk.kind \notin {"update", "rollback"} => Clean'
  BY <1>a, <1>c, <1>e, <1>j DEF Agreed
<1>1. Agreed'
  BY <1>a, <1>b, <1>c, <1>f, <1>g, <1>k DEF Agreed, Unsettled, ActiveStatuses
<1>2. Begun'
  BY <1>a, <1>b, <1>c, <1>e, <1>f, <1>g, <1>k DEF Begun, AllKinds
<1>3. Pathed' /\ Journal'
  BY <1>a, <1>b, <1>f, <1>g DEF Pathed, Journal, MayResume, Has
<1>4. Replaced'
  <2>1. CASE pc.step \in {"migrate", "activate"}
    BY <1>a, <1>b, <1>e, <1>f, <1>g, <1>h, <2>1 DEF Replaced, LateSteps, Clean, Migrated, Whole, Pathed
  <2>2. CASE pc.step = "rollback"
    BY <1>a, <1>b, <1>e, <1>f, <1>g, <1>h, <2>2 DEF Replaced, LateSteps, Restored, Pathed
  <2>3. CASE pc.step \notin {"migrate", "activate", "rollback"}
    BY <1>a, <1>b, <1>f, <1>g, <1>j, <2>3 DEF Replaced, LateSteps
  <2>4. QED
    BY <2>1, <2>2, <2>3
<1>5. Opened' /\ Named'
  BY <1>a, <1>b, <1>f, <1>g, <1>h DEF Opened, Named, LateSteps
<1>6. Pointed'
  <2>1. disk.kind = "update" /\ (data' = "migrated" \/ release' = "target") => disk.point /\ op'.point
    <3>1. CASE pc.step \in {"migrate", "activate"}
      BY <1>a, <1>b, <1>c, <1>e, <1>f, <3>1 DEF Pointed, Named
    <3>2. CASE pc.step \notin {"migrate", "activate"}
      BY <1>a, <1>b, <1>c, <1>f, <1>h, <1>i, <3>2 DEF Pointed, PointOnRecord
    <3>3. QED
      BY <3>1, <3>2
  <2>2. QED
    BY <1>a, <1>b, <1>c, <1>f, <1>g, <2>1 DEF Pointed, PointOnRecord
<1>7. Recorded' /\ Told'
  <2>1. CASE pc.step \in {"migrate", "activate", "rollback"}
    <3>1. Boundary \notin op'.stages /\ Boundary \notin disk'.stages
      BY <1>a, <1>b, <1>f, <2>1 DEF Pathed, LateSteps
    <3>2. QED
      BY <1>b, <1>c, <1>g, <1>k, <3>1
      DEF Recorded, Evident, Told, Truthful, Unsettled, ActiveStatuses
  <2>2. CASE pc.step \notin {"migrate", "activate", "rollback"}
    <3>1. Evident(op)'
      BY <1>a, <1>b, <1>f, <1>j, <2>2 DEF Recorded, Evident, Undone, Activated, Has
    <3>2. Evident(disk)'
      BY <1>a, <1>b, <1>j, <2>2 DEF Recorded, Evident, Undone, Activated, Has
    <3>3. QED
      BY <1>b, <1>c, <1>g, <1>k, <3>1, <3>2
      DEF Recorded, Told, Truthful, Unsettled, ActiveStatuses
  <2>3. QED
    BY <2>1, <2>2
<1>8. QED
  BY <1>1, <1>2, <1>3, <1>4, <1>5, <1>6, <1>7 DEF ResultInv

\* Every step keeps the record and the site in agreement.
LEMMA StepResult ==
  ASSUME Shapes, WorkerInv, Shapes', ResultInv, [Next]_vars
  PROVE  ResultInv'
<1>1. CASE UNCHANGED vars
  BY <1>1 DEF vars, ResultInv, Agreed, Pathed, Begun, Journal, Replaced, Opened, Named, Pointed,
              PointOnRecord, Recorded, Told, Evident, Truthful, Undone, Activated, Has, InStep,
              Unsettled, MayResume, Clean, Migrated, Whole, Restored
<1>2. QED
  BY <1>1, StartResult, RunResult, EmitResult, DoResult, OutcomeResult, RestingResult DEF Next, Work

\* The invariant of the results: what is on disk and what the worker is doing agree on what became
\* of the data and the release (engine.go:171-201, manager.go:413-449).
THEOREM ResultInvariant == Spec => [](Shapes /\ WorkerInv /\ ResultInv)
<1>1. Init => Shapes /\ WorkerInv /\ ResultInv
  BY InitWorker, InitResult
<1>2. Shapes /\ WorkerInv /\ ResultInv /\ [Next]_vars => (Shapes /\ WorkerInv /\ ResultInv)'
  BY StepWorker, StepResult
<1>3. QED
  BY <1>1, <1>2, PTL DEF Spec

\* No operation reopens the site on data or a release that it replaced by half, whatever failed and
\* whoever resumes it (engine.go:171-201, manager.go:413-449).
THEOREM ReopenedWhole == Spec => []ReopensWhole
<1>1. Shapes /\ WorkerInv /\ ResultInv => ReopensWhole
  BY DEF WorkerInv, ReopenedBehindBoundary, ResultInv, Agreed, Recorded, Evident, ReopensWhole,
         Clean, Whole, Restored
<1>2. QED
  BY <1>1, ResultInvariant, PTL

\* What a settled operation is recorded as is what became of the data, the release and the site
\* (manager.go:413-449, engine.go:187), for any number of operations, failures and crashes.
THEOREM StatusIsTrue == Spec => []StatusTruthful
<1>1. ResultInv => StatusTruthful
  BY DEF ResultInv, Told, Truthful, StatusTruthful, Clean, Whole, Restored
<1>2. QED
  BY <1>1, ResultInvariant, PTL

\* Before an update changes data its recovery point is on record (manager.go:112).
THEOREM PointIsOnRecord == Spec => []PointOnRecord
<1>1. ResultInv => PointOnRecord
  BY DEF ResultInv, Pointed
<1>2. QED
  BY <1>1, ResultInvariant, PTL
==============================================================================
