--------------------------- MODULE LegacyScheduler ---------------------------
(***************************************************************************)
(* The drain of a legacy scheduler (internal/deployment/legacy_scheduler.go).*)
(* Its first process runs `schedule:work`, which has no handler for TERM, so *)
(* it is frozen with STOP, its children are awaited, an idle proof is        *)
(* written, and only then it is killed.  A durable freeze intent lets a      *)
(* later resume thaw it; a thaw revokes the proof first.                     *)
(*                                                                         *)
(* The operations that drain it, a backup, an update and a data recovery, are  *)
(* reduced to what decides whether their site is resumed: what their record  *)
(* says when the updater dies.                                              *)
(*                                                                         *)
(* One container is modelled; a recreated one, as of an update that         *)
(* succeeds, has another identifier and other files.  Incarnations are      *)
(* numbered by their StartedAt.  The updater may die between any two steps, *)
(* a command may fail before or after its effect, and the container may     *)
(* die, and be restarted by its policy, at any time.                       *)
(***************************************************************************)
EXTENDS Naturals

CONSTANTS
    MaxStarts,      \* bound on the incarnations of the container
    MaxFaults       \* bound on failures, deaths of the updater and of the container

ASSUME SchedulerConstants == MaxStarts \in Nat \ {0} /\ MaxFaults \in Nat

VARIABLES
    run,        \* the first process: up, stopped, signalled with KILL, or gone
    start,      \* the incarnation (State.StartedAt)
    busy,       \* does it have scheduled tasks running?
    auto,       \* restart policy unless-stopped?
    exit,       \* of the last incarnation that ended: 0 or 143, 137, or another
    cut,        \* ghost: that end cut off a running task
    intent,     \* legacy-scheduler-freeze-<id>.json: the incarnation, or Absent
    proof,      \* legacy-scheduler-drain-<id>.json: the same, or Revoked
    pc, seen,   \* the worker: its next step and the incarnation it inspected
    out,        \* what its drain or resume returns when the thaw succeeds
    kind,       \* the operation on record: a backup, an update (by the engine or as a
                \* maintenance release) or a restore (a rollback, also an automatic one)
    status,     \* what its record says: ended, running or held (recovery_required)
    bound,      \* is its resume boundary durable?
    ready,      \* is the authority of RecoveryControl in its first phase?
    drained,    \* ghost: the last drain succeeded, and nothing was started since
    raced,      \* ghost: the process that was stopped is not the inspected incarnation
    faults

container == <<run, start, busy, exit, cut>>
files == <<intent, proof>>
record == <<kind, status, bound, ready>>
ghosts == <<drained, raced>>
vars == <<container, auto, files, pc, seen, out, record, ghosts, faults>>

Starts == 1 .. MaxStarts
Absent == 0
Revoked == MaxStarts + 1

Kinds == {"backup", "update", "restore"}

TypeOK ==
    /\ run \in {"up", "frozen", "dying", "gone"} /\ exit \in {"clean", "killed", "bad"}
    /\ start \in Starts /\ seen \in Starts
    /\ busy \in BOOLEAN /\ auto \in BOOLEAN /\ cut \in BOOLEAN
    /\ intent \in Starts \cup {Absent} /\ proof \in Starts \cup {Absent, Revoked}
    /\ pc \in {"idle", "inspect", "norestart", "intent", "freeze", "top", "proof", "kill",
               "wait", "read", "revoke", "cont", "remove", "work", "restored", "failed",
               "policy", "up", "intents"}
    /\ out \in {"drained", "failed", "resumed"}
    /\ kind \in Kinds /\ status \in {"ended", "running", "held"}
    /\ bound \in BOOLEAN /\ ready \in BOOLEAN
    /\ drained \in BOOLEAN /\ raced \in BOOLEAN /\ faults \in 0 .. MaxFaults

Init ==
    /\ run = "up" /\ start = 1 /\ busy = FALSE /\ auto = TRUE
    /\ exit = "clean" /\ cut = FALSE
    /\ intent = Absent /\ proof = Absent
    /\ pc = "idle" /\ seen = 1 /\ out = "failed"
    /\ kind = "backup" /\ status = "ended" /\ bound = FALSE /\ ready = TRUE
    /\ drained = FALSE /\ raced = FALSE /\ faults = 0

--------------------
\* The container and the Docker daemon.

\* The scheduler starts a task; a stopped one cannot, but its tasks go on.
Spawn ==
    /\ run = "up" /\ ~busy /\ busy' = TRUE
    /\ UNCHANGED <<run, start, auto, exit, cut, files, pc, seen, out, record, ghosts, faults>>

Finish ==
    /\ busy /\ busy' = FALSE
    /\ UNCHANGED <<run, start, auto, exit, cut, files, pc, seen, out, record, ghosts, faults>>

\* The signalled process is gone, and whatever it still ran with it.
Killed ==
    /\ run = "dying"
    /\ run' = "gone" /\ exit' = "killed" /\ cut' = busy /\ busy' = FALSE
    /\ UNCHANGED <<start, auto, files, pc, seen, out, record, ghosts, faults>>

\* It ends without the updater: a crash, an OOM kill, a restarted Docker daemon.
\* With its policy it comes back as a new incarnation.
Die ==
    /\ run # "gone" /\ faults < MaxFaults /\ faults' = faults + 1
    /\ exit' \in {"clean", "killed", "bad"} /\ cut' = busy /\ busy' = FALSE
    /\ \/ /\ auto /\ start < MaxStarts
          /\ run' = "up" /\ start' = start + 1
       \/ ~auto /\ run' = "gone" /\ UNCHANGED start
    /\ UNCHANGED <<auto, files, pc, seen, out, record, ghosts>>

--------------------
\* The drain.

\* A command or a write at step p: it is done and the next step follows, or an
\* error is reported, whether it was done or not, and step err follows.
Attempt(p, ok, err, done) ==
    /\ pc = p
    /\ \/ done /\ pc' = ok /\ UNCHANGED <<out, faults>>
       \/ pc' = err /\ out' = "failed" /\ faults < MaxFaults /\ faults' = faults + 1

\* An operation drains the background services; what its preflight says of the site
\* is left open.  Nothing is admitted beside a running one, and only a rollback
\* beside a held one.
StartDrain(k) ==
    /\ pc = "idle" /\ (status = "ended" \/ (status = "held" /\ k = "restore"))
    /\ pc' = "inspect" /\ drained' = FALSE
    /\ kind' = k /\ status' = "running" /\ bound' = FALSE
    /\ UNCHANGED <<container, auto, files, seen, out, ready, raced, faults>>

\* ... which may also replace what was held and end before it drains anything.
RollbackRefused ==
    /\ pc = "idle" /\ status = "held"
    /\ kind' = "restore" /\ status' = "ended" /\ bound' = FALSE
    /\ UNCHANGED <<container, auto, files, pc, seen, out, ready, ghosts, faults>>

\* An update that failed behind its recovery point drains once more and restores.
Redrain ==
    /\ pc = "work" /\ kind = "update"
    /\ pc' = "inspect" /\ kind' = "restore" /\ drained' = FALSE
    /\ UNCHANGED <<container, auto, files, seen, out, status, bound, ready, raced, faults>>

\* Our own termination of a proven-idle incarnation is accepted after a restart.
Accepted == exit = "clean" \/ (exit = "killed" /\ proof = start)

Inspect ==
    /\ pc = "inspect"
    /\ \/ /\ run # "gone" /\ pc' = "norestart" /\ seen' = start
          /\ UNCHANGED drained
       \/ /\ run = "gone" /\ pc' = IF Accepted THEN "work" ELSE "failed"
          /\ drained' = Accepted
          /\ UNCHANGED seen
    /\ UNCHANGED <<container, auto, files, out, record, raced, faults>>

NoRestart ==
    /\ \E done \in BOOLEAN :
          /\ Attempt("norestart", "intent", "failed", done)
          /\ auto' = (auto /\ ~done)
    /\ UNCHANGED <<container, files, seen, record, ghosts>>

\* Until the intent is written a failure returns at once; after it, every
\* return thaws first (the deferred call).
WriteIntent ==
    /\ \E done \in BOOLEAN :
          /\ Attempt("intent", "freeze", "failed", done)
          /\ intent' = IF done THEN seen ELSE intent
    /\ UNCHANGED <<container, auto, proof, seen, record, ghosts>>

\* docker kill --signal=STOP; it reports an error when nothing runs.
Freeze ==
    /\ \/ \E done \in BOOLEAN :
             /\ run # "gone" /\ Attempt("freeze", "top", "read", done)
             /\ run' = IF done /\ run = "up" THEN "frozen" ELSE run
             /\ raced' = IF done /\ run = "up" THEN start # seen ELSE raced
       \/ /\ pc = "freeze" /\ run = "gone" /\ pc' = "read" /\ out' = "failed"
          /\ UNCHANGED <<run, raced, faults>>
    /\ UNCHANGED <<start, busy, exit, cut, auto, files, seen, record, drained>>

\* docker top: the recorded process must be there and stopped; then the drain
\* goes on when it has no children, or gives up at its deadline.
Top ==
    /\ pc = "top"
    /\ \/ run \in {"frozen", "dying"} /\ start = seen /\ ~busy /\ pc' = "proof" /\ UNCHANGED out
       \/ /\ (run \in {"frozen", "dying"} /\ start = seen) => busy
          /\ pc' = "read" /\ out' = "failed"
    /\ UNCHANGED <<container, auto, files, seen, record, ghosts, faults>>

WriteProof ==
    /\ \E done \in BOOLEAN :
          /\ Attempt("proof", "kill", "read", done)
          /\ proof' = IF done THEN seen ELSE proof
    /\ UNCHANGED <<container, auto, intent, seen, record, ghosts>>

\* drainContainersSignal with KILL: the policy once more, then the signal.
Kill ==
    /\ \E done \in BOOLEAN :
          /\ Attempt("kill", "wait", "read", done)
          /\ auto' = (auto /\ ~done)
          /\ run' = IF done /\ run \in {"up", "frozen"} THEN "dying" ELSE run
    /\ UNCHANGED <<start, busy, exit, cut, files, seen, record, ghosts>>

\* ... and the wait for its end, for an exit that this signal explains.
Wait ==
    /\ pc = "wait" /\ pc' = "read"
    /\ \/ run = "gone" /\ exit # "bad" /\ out' = "drained" /\ UNCHANGED faults
       \/ run = "gone" /\ exit = "bad" /\ out' = "failed" /\ UNCHANGED faults
       \/ out' = "failed" /\ faults < MaxFaults /\ faults' = faults + 1
    /\ UNCHANGED <<container, auto, files, seen, record, ghosts>>

--------------------
\* The thaw, and the resume that leads to it.

\* thawLegacyScheduler reads the intent and inspects the container.
ReadIntent ==
    /\ pc = "read"
    /\ pc' = IF run = "gone" THEN "remove" ELSE "revoke"
    /\ seen' = start
    /\ UNCHANGED <<container, auto, files, out, record, ghosts, faults>>

\* Only the recorded incarnation is continued.
AfterRevoke == IF seen = intent THEN "cont" ELSE "remove"

\* Faulty: the proof survives a thaw, so that a failed KILL excuses a later end.
RevokeNothing ==
    /\ \E done \in BOOLEAN : Attempt("revoke", AfterRevoke, "failed", done)
    /\ UNCHANGED <<container, auto, files, seen, record, ghosts>>

Revoke ==
    /\ \E done \in BOOLEAN :
          /\ Attempt("revoke", AfterRevoke, "failed", done)
          /\ proof' = IF done THEN Revoked ELSE proof
    /\ UNCHANGED <<container, auto, intent, seen, record, ghosts>>

\* docker kill --signal=CONT; an error when nothing runs.
Continue ==
    /\ \/ \E done \in BOOLEAN :
             /\ run # "gone" /\ Attempt("cont", "remove", "failed", done)
             /\ run' = IF done /\ run = "frozen" THEN "up" ELSE run
       \/ /\ pc = "cont" /\ run = "gone" /\ pc' = "failed"
          /\ UNCHANGED <<run, out, faults>>
    /\ UNCHANGED <<start, busy, exit, cut, auto, files, seen, record, ghosts>>

\* A resume that went well ends its operation, unless the verification behind it
\* fails or the engine failed in its drain: then the record is held.
Resumed == pc' = "idle" /\ status' \in {"ended", "held"}

\* The intent goes last; with it the drain, or the resume, returns.
Remove ==
    /\ pc = "remove"
    /\ \/ /\ intent' = Absent /\ UNCHANGED <<out, faults>>
          /\ IF out = "resumed" THEN Resumed
             ELSE pc' = (IF out = "drained" THEN "work" ELSE "failed") /\ UNCHANGED status
       \/ /\ intent' \in {intent, Absent} /\ out' = "failed"
          /\ pc' = "failed" /\ faults < MaxFaults /\ faults' = faults + 1
          /\ UNCHANGED status
    /\ drained' = (pc' = "work")
    /\ UNCHANGED <<container, auto, proof, seen, kind, bound, ready, raced>>

--------------------
\* What the operation does behind its drain.

\* The data recovery begins: from here a resume is one of restored data.
RestoreData ==
    /\ pc = "work" /\ kind \in {"update", "restore"}
    /\ pc' = "restored" /\ ready' = FALSE
    /\ UNCHANGED <<container, auto, files, seen, out, kind, status, bound, ghosts, faults>>

\* The boundary precedes the resume.  A backup whose drain or archive failed records
\* its end along with it (the status is failed by then, and saved with the stage).
SaveBoundary ==
    /\ pc = "restored" \/ (kind # "restore" /\ pc \in {"work", "failed"})
    /\ ~bound
    /\ \/ /\ bound' = TRUE /\ pc' = "policy" /\ UNCHANGED faults
          /\ \/ kind = "backup" /\ status' = "ended"
             \/ ~(kind = "backup" /\ pc = "failed") /\ UNCHANGED status
       \/ /\ faults < MaxFaults /\ faults' = faults + 1
          /\ bound' \in BOOLEAN /\ status' = "held" /\ pc' = "idle"
    /\ UNCHANGED <<container, auto, files, seen, out, kind, ready, ghosts>>

\* A resume that failed, a data recovery that did not drain or restore, and an update
\* that failed behind its recovery point are held.
Hold ==
    /\ \/ pc = "failed" /\ (bound \/ kind = "restore")
       \/ pc \in {"work", "restored"} /\ kind # "backup"
    /\ pc' = "idle" /\ status' = "held"
    /\ UNCHANGED <<container, auto, files, seen, out, kind, bound, ready, ghosts, faults>>

\* The updater looks at an unfinished record again and again.  It resumes the site of
\* a backup, and of an operation whose boundary is durable; every other one is held.
Reconcile ==
    /\ pc = "idle"
    /\ \/ /\ status # "ended" /\ (bound \/ kind = "backup")
          /\ \/ pc' = "policy" /\ bound' = TRUE /\ UNCHANGED <<status, faults>>
             \/ /\ faults < MaxFaults /\ faults' = faults + 1
                /\ bound' \in {bound, TRUE} /\ status' = "held" /\ UNCHANGED pc
       \/ /\ status = "running" /\ ~bound /\ kind # "backup"
          /\ status' = "held" /\ UNCHANGED <<pc, bound, faults>>
    /\ UNCHANGED <<container, auto, files, seen, out, kind, ready, ghosts>>

--------------------
\* Resume.

\* Restored data is served without background services: the scheduler is left alone.
ResumeRecovered ==
    /\ pc = "policy" /\ ~ready
    /\ Resumed
    /\ UNCHANGED <<container, auto, files, seen, out, kind, bound, ready, ghosts, faults>>

\* First the restart policies ...
RestorePolicy ==
    /\ ready
    /\ \E done \in BOOLEAN :
          /\ Attempt("policy", "up", "failed", done)
          /\ auto' = (auto \/ done)
    /\ UNCHANGED <<container, files, seen, record, ghosts>>

\* ... then compose up, which leaves a running container alone, a frozen one too ...
Up ==
    /\ \E done \in BOOLEAN :
          /\ Attempt("up", "intents", "failed", done)
          /\ \/ (run # "gone" \/ ~done) /\ UNCHANGED <<run, start>>
             \/ /\ run = "gone" /\ start < MaxStarts /\ done
                /\ run' = "up" /\ start' = start + 1
    /\ drained' = FALSE
    /\ UNCHANGED <<busy, exit, cut, auto, files, seen, record, raced>>

\* Faulty: the resume ends without a look for what an interrupted drain left.
ResumeNoScheduler ==
    /\ pc = "intents" /\ Resumed
    /\ UNCHANGED <<container, auto, files, seen, out, kind, bound, ready, ghosts, faults>>

\* ... and then a scheduler with a freeze intent is thawed.
ResumeFrozenSchedulers ==
    /\ pc = "intents"
    /\ IF intent = Absent THEN Resumed /\ UNCHANGED out
       ELSE pc' = "read" /\ out' = "resumed" /\ UNCHANGED status
    /\ UNCHANGED <<container, auto, files, seen, kind, bound, ready, ghosts, faults>>

\* The updater dies.
Crash ==
    /\ pc # "idle" /\ faults < MaxFaults /\ faults' = faults + 1
    /\ pc' = "idle"
    /\ UNCHANGED <<container, auto, files, seen, out, record, ghosts>>

--------------------
Worker ==
    \/ Inspect \/ NoRestart \/ WriteIntent \/ Freeze \/ Top \/ WriteProof \/ Kill \/ Wait
    \/ ReadIntent \/ Revoke \/ Continue \/ Remove
    \/ Redrain \/ RestoreData \/ SaveBoundary \/ Hold
    \/ ResumeRecovered \/ RestorePolicy \/ Up \/ ResumeFrozenSchedulers

Next ==
    \/ Spawn \/ Finish \/ Killed \/ Die
    \/ \E k \in Kinds : StartDrain(k)
    \/ RollbackRefused \/ Reconcile \/ Worker \/ Crash

Spec == Init /\ [][Next]_vars

\* A worker that lives goes on, and the monitor calls Reconcile again and again
\* (cmd/geoflow-updater/main.go).  Nothing is assumed of operators.
FairSpec == Spec /\ WF_vars(Worker) /\ WF_vars(Reconcile) /\ WF_vars(Killed)

--------------------
\* A drain that counts 137 as clean has not cut off a task, neither now nor in
\* the incarnation that an older proof was written for (drainLegacyScheduler,
\* the comment at legacy_scheduler.go:69).
SoundDrain == drained => run = "gone" /\ (exit = "killed" => ~cut)

\* A stopped scheduler is on record, unless the one that was stopped is another than
\* the one that was inspected (drainLegacyScheduler writes the intent first,
\* legacy_scheduler.go:95-104).
FrozenIsRecorded == run = "frozen" => intent = start \/ raced

\* Left to reconciliation, and to be resumed by it.
Resumable == pc = "idle" /\ status # "ended" /\ (bound \/ kind = "backup")

\* A scheduler that an interrupted drain left stopped, and recorded, is continued, or
\* ends, when its operation is one that reconciliation resumes, however often the
\* resume is interrupted as well; only a rollback may come between
\* (resumeFrozenSchedulers; docs/planned-host-acceptance.md:37).
FrozenIsReleased ==
    (run = "frozen" /\ intent = start /\ Resumable) ~> (run # "frozen" \/ kind = "restore")
=============================================================================
