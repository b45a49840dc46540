------------------------ MODULE LegacySchedulerProofs ------------------------
(***************************************************************************)
(* Proofs that a drain of the legacy scheduler that counts as clean never   *)
(* cut off a task, and that a scheduler that is left stopped is on record,   *)
(* for any number of incarnations and faults.                               *)
(*                                                                         *)
(* What a proof file asserts is the heart of the argument: it names an      *)
(* incarnation only as long as that one cannot start a task any more.  It   *)
(* is written while the process is stopped and has no children, and revoked *)
(* before the process is continued.                                         *)
(***************************************************************************)
EXTENDS LegacyScheduler, TLAPS

\* The incarnations that the files and the worker know are not later ones.
KnownStarts ==
    /\ seen <= start
    /\ proof = Revoked \/ proof <= start

\* From the update that takes the policy away on, nothing restarts the container.
NoPolicy ==
    pc \in {"intent", "freeze", "top", "proof", "kill", "wait"} => ~auto

\* It can start no task and runs none; if it ended, it cut off none.
Quiet == run # "up" /\ ~busy /\ (run = "gone" => ~cut)

\* Once docker top showed it idle, and until the drain returns.
ProvenIdle ==
    /\ pc \in {"proof", "kill", "wait"} => Quiet
    /\ pc = "wait" => run \in {"dying", "gone"}
    /\ pc \in {"read", "revoke", "cont", "remove"} /\ out = "drained" => run = "gone" /\ ~cut

\* A signalled process was idle, and so is what a proof names.
IdleOnRecord ==
    /\ run = "dying" => ~busy
    /\ proof = start => Quiet
    /\ pc = "cont" => proof = Revoked

DrainInv ==
    /\ KnownStarts
    /\ NoPolicy
    /\ ProvenIdle
    /\ IdleOnRecord
    /\ SoundDrain

\* What the worker knows of a stopped process is what its next step needs.
StopInHand ==
    /\ pc \in {"norestart", "intent", "revoke", "cont"} /\ run = "frozen" => seen = start
    /\ pc = "freeze" => intent = seen
    /\ pc = "remove" /\ run = "frozen" => raced

FrozenInv ==
    /\ FrozenIsRecorded
    /\ StopInHand

\* The scheduler runs, and nothing was drained yet.
LEMMA InitTypes == Init => TypeOK
<1> SUFFICES ASSUME Init PROVE TypeOK
  OBVIOUS
<1> USE SchedulerConstants DEF Init
<1>1. run \in {"up", "frozen", "dying", "gone"} /\ exit \in {"clean", "killed", "bad"}
  OBVIOUS
<1>2. 1 \in Starts /\ start \in Starts /\ seen \in Starts
  BY DEF Starts
<1>3. busy \in BOOLEAN /\ auto \in BOOLEAN /\ cut \in BOOLEAN /\ bound \in BOOLEAN
      /\ ready \in BOOLEAN /\ drained \in BOOLEAN /\ raced \in BOOLEAN
  OBVIOUS
<1>4. intent \in Starts \cup {Absent} /\ proof \in Starts \cup {Absent, Revoked}
  OBVIOUS
<1>5. pc = "idle" /\ out = "failed" /\ faults \in 0 .. MaxFaults
  OBVIOUS
<1>6. kind \in Kinds /\ status = "ended"
  BY DEF Kinds
<1>7. QED
  BY <1>1, <1>2, <1>3, <1>4, <1>5, <1>6 DEF TypeOK

\* Every step keeps the types.
LEMMA StepTypes == TypeOK /\ [Next]_vars => TypeOK'
<1> SUFFICES ASSUME TypeOK, [Next]_vars PROVE TypeOK'
  OBVIOUS
<1> USE SchedulerConstants DEF TypeOK, Starts, Absent, Revoked, Kinds, container, files, record, ghosts
<1>1. CASE Spawn
  BY <1>1 DEF Spawn
<1>2. CASE Finish
  <2>1. busy' \in BOOLEAN /\ cut' \in BOOLEAN
    BY <1>2 DEF Finish
  <2>2. QED
    BY <1>2, <2>1 DEF Finish
<1>3. CASE Killed
  <2>1. busy' \in BOOLEAN /\ cut' \in BOOLEAN
    BY <1>3 DEF Killed
  <2>2. run' \in {"up", "frozen", "dying", "gone"} /\ exit' \in {"clean", "killed", "bad"}
    BY <1>3 DEF Killed
  <2>3. QED
    BY <1>3, <2>1, <2>2 DEF Killed
<1>4. CASE Die
  <2>1. busy' \in BOOLEAN /\ cut' \in BOOLEAN
    BY <1>4 DEF Die
  <2>2. run' \in {"up", "frozen", "dying", "gone"} /\ exit' \in {"clean", "killed", "bad"}
    BY <1>4 DEF Die
  <2>3. start' \in Starts /\ faults' \in 0 .. MaxFaults
    BY <1>4 DEF Die
  <2>4. QED
    BY <1>4, <2>1, <2>2, <2>3 DEF Die
<1>5. CASE \E k \in Kinds : StartDrain(k)
  <2>1. kind' \in Kinds /\ status' \in {"ended", "running", "held"} /\ bound' \in BOOLEAN
    BY <1>5 DEF StartDrain
  <2>2. pc' \in {"inspect"} /\ drained' \in BOOLEAN /\ ready' \in BOOLEAN /\ faults' \in 0 .. MaxFaults
    BY <1>5 DEF StartDrain
  <2>3. QED
    BY <1>5, <2>1, <2>2 DEF StartDrain
<1>6. CASE RollbackRefused
  <2>1. kind' \in Kinds /\ status' \in {"ended", "running", "held"} /\ bound' \in BOOLEAN
    BY <1>6 DEF RollbackRefused
  <2>2. pc' \in {"idle"} /\ drained' \in BOOLEAN /\ ready' \in BOOLEAN /\ faults' \in 0 .. MaxFaults
    BY <1>6 DEF RollbackRefused
  <2>3. QED
    BY <1>6, <2>1, <2>2 DEF RollbackRefused
<1>7. CASE Reconcile
  <2>1. kind' \in Kinds /\ status' \in {"ended", "running", "held"} /\ bound' \in BOOLEAN
    BY <1>7 DEF Reconcile
  <2>2. pc' \in {"idle", "policy"} /\ faults' \in 0 .. MaxFaults
    <3>1. pc' \in {"idle", "policy"}
      BY <1>7 DEF Reconcile
    <3>2. faults' = faults \/ (faults < MaxFaults /\ faults' = faults + 1)
      BY <1>7, Zenon DEF Reconcile
    <3>3. QED
      BY <3>1, <3>2
  <2>3. QED
    BY <1>7, <2>1, <2>2 DEF Reconcile
<1>8. CASE Inspect
  <2>1. drained' \in BOOLEAN
    BY <1>8 DEF Inspect, Accepted
  <2>2. pc' \in {"work", "failed", "norestart"} /\ seen' \in Starts
    BY <1>8 DEF Inspect
  <2>3. QED
    BY <1>8, <2>1, <2>2 DEF Inspect
<1>9. CASE NoRestart
  BY <1>9 DEF NoRestart, Attempt
<1>10. CASE WriteIntent
  BY <1>10 DEF WriteIntent, Attempt
<1>11. CASE Freeze
  <2>1. run' \in {"up", "frozen", "dying", "gone"} /\ raced' \in BOOLEAN
    BY <1>11 DEF Freeze
  <2>2. pc' \in {"top", "read"} /\ out' \in {"drained", "failed", "resumed"}
    BY <1>11 DEF Freeze, Attempt
  <2>3. faults' \in 0 .. MaxFaults
    BY <1>11 DEF Freeze, Attempt
  <2>4. QED
    BY <1>11, <2>1, <2>2, <2>3 DEF Freeze
<1>12. CASE Top
  BY <1>12 DEF Top
<1>13. CASE WriteProof
  BY <1>13 DEF WriteProof, Attempt
<1>14. CASE Kill
  BY <1>14 DEF Kill, Attempt
<1>15. CASE Wait
  BY <1>15 DEF Wait
<1>16. CASE ReadIntent
  BY <1>16 DEF ReadIntent
<1>17. CASE Revoke
  BY <1>17 DEF Revoke, Attempt, AfterRevoke
<1>18. CASE Continue
  BY <1>18 DEF Continue, Attempt
<1>19. CASE Remove
  <2>1. kind' \in Kinds /\ status' \in {"ended", "running", "held"} /\ bound' \in BOOLEAN
    BY <1>19 DEF Remove, Resumed
  <2>2. pc' \in {"idle", "work", "failed"} /\ drained' \in BOOLEAN /\ ready' \in BOOLEAN /\ faults' \in 0 .. MaxFaults
    BY <1>19 DEF Remove, Resumed
  <2>3. QED
    BY <1>19, <2>1, <2>2 DEF Remove
<1>20. CASE RestorePolicy
  BY <1>20 DEF RestorePolicy, Attempt
<1>21. CASE Up
  <2>1. run' \in {"up", "frozen", "dying", "gone"} /\ start' \in Starts /\ drained' \in BOOLEAN
    <3>1. run' \in {"up", "frozen", "dying", "gone"} /\ drained' \in BOOLEAN
      BY <1>21 DEF Up
    <3>2. start' \in Starts
      BY <1>21 DEF Up
    <3>3. QED
      BY <3>1, <3>2
  <2>2. pc' \in {"intents", "failed"} /\ out' \in {"drained", "failed", "resumed"}
    BY <1>21 DEF Up, Attempt
  <2>3. faults' \in 0 .. MaxFaults
    BY <1>21 DEF Up, Attempt
  <2>4. QED
    BY <1>21, <2>1, <2>2, <2>3 DEF Up
<1>22. CASE Crash
  BY <1>22 DEF Crash
<1>23. CASE Redrain
  <2>1. kind' \in Kinds /\ status' \in {"ended", "running", "held"} /\ bound' \in BOOLEAN
    BY <1>23 DEF Redrain
  <2>2. pc' \in {"inspect"} /\ drained' \in BOOLEAN /\ ready' \in BOOLEAN /\ faults' \in 0 .. MaxFaults
    BY <1>23 DEF Redrain
  <2>3. QED
    BY <1>23, <2>1, <2>2 DEF Redrain
<1>24. CASE RestoreData
  <2>1. kind' \in Kinds /\ status' \in {"ended", "running", "held"} /\ bound' \in BOOLEAN
    BY <1>24 DEF RestoreData
  <2>2. pc' \in {"restored"} /\ drained' \in BOOLEAN /\ ready' \in BOOLEAN /\ faults' \in 0 .. MaxFaults
    BY <1>24 DEF RestoreData
  <2>3. QED
    BY <1>24, <2>1, <2>2 DEF RestoreData
<1>25. CASE SaveBoundary
  <2>1. kind' \in Kinds /\ status' \in {"ended", "running", "held"} /\ bound' \in BOOLEAN
    BY <1>25 DEF SaveBoundary
  <2>2. pc' \in {"policy", "idle"} /\ drained' \in BOOLEAN /\ ready' \in BOOLEAN /\ faults' \in 0 .. MaxFaults
    BY <1>25 DEF SaveBoundary
  <2>3. QED
    BY <1>25, <2>1, <2>2 DEF SaveBoundary
<1>26. CASE Hold
  <2>1. kind' \in Kinds /\ status' \in {"ended", "running", "held"} /\ bound' \in BOOLEAN
    BY <1>26 DEF Hold
  <2>2. pc' \in {"idle"} /\ drained' \in BOOLEAN /\ ready' \in BOOLEAN /\ faults' \in 0 .. MaxFaults
    BY <1>26 DEF Hold
  <2>3. QED
    BY <1>26, <2>1, <2>2 DEF Hold
<1>27. CASE ResumeRecovered
  <2>1. kind' \in Kinds /\ status' \in {"ended", "running", "held"} /\ bound' \in BOOLEAN
    BY <1>27 DEF ResumeRecovered, Resumed
  <2>2. pc' \in {"idle"} /\ drained' \in BOOLEAN /\ ready' \in BOOLEAN /\ faults' \in 0 .. MaxFaults
    BY <1>27 DEF ResumeRecovered, Resumed
  <2>3. QED
    BY <1>27, <2>1, <2>2 DEF ResumeRecovered
<1>28. CASE ResumeFrozenSchedulers
  <2>1. kind' \in Kinds /\ status' \in {"ended", "running", "held"} /\ bound' \in BOOLEAN
    BY <1>28 DEF ResumeFrozenSchedulers, Resumed
  <2>2. pc' \in {"idle", "read"} /\ drained' \in BOOLEAN /\ ready' \in BOOLEAN /\ faults' \in 0 .. MaxFaults
    BY <1>28 DEF ResumeFrozenSchedulers, Resumed
  <2>3. QED
    BY <1>28, <2>1, <2>2 DEF ResumeFrozenSchedulers
<1>29. CASE UNCHANGED vars
  BY <1>29 DEF vars
<1>30. QED
  BY <1>1, <1>2, <1>3, <1>4, <1>5, <1>6, <1>7, <1>8, <1>9, <1>10, <1>11, <1>12, <1>13, <1>14, <1>15, <1>16, <1>17, <1>18, <1>19, <1>20, <1>21, <1>22, <1>23, <1>24, <1>25, <1>26, <1>27, <1>28, <1>29 DEF Next, Worker

\* There is no proof yet that could be wrong.
LEMMA InitDrain == Init => DrainInv
  BY SchedulerConstants
  DEF Init, DrainInv, KnownStarts, NoPolicy, ProvenIdle, IdleOnRecord, SoundDrain, Quiet,
      Starts, Absent, Revoked

\* Every step keeps the invariant.
LEMMA StepDrain == TypeOK /\ DrainInv /\ [Next]_vars => DrainInv'
<1> SUFFICES ASSUME TypeOK, DrainInv, [Next]_vars PROVE DrainInv'
  OBVIOUS
<1> USE SchedulerConstants
    DEF DrainInv, TypeOK, KnownStarts, NoPolicy, ProvenIdle, IdleOnRecord, SoundDrain, Quiet,
        Starts, Absent, Revoked, Kinds, container, files, record, ghosts
<1>1. CASE Spawn
  BY <1>1 DEF Spawn
<1>2. CASE Finish
  BY <1>2 DEF Finish
<1>3. CASE Killed
  BY <1>3 DEF Killed
<1>4. CASE Die
  BY <1>4 DEF Die
<1>5. CASE \E k \in Kinds : StartDrain(k)
  BY <1>5 DEF StartDrain
<1>6. CASE RollbackRefused
  BY <1>6 DEF RollbackRefused
<1>7. CASE Reconcile
  BY <1>7 DEF Reconcile
<1>8. CASE Inspect
  BY <1>8 DEF Inspect, Accepted
<1>9. CASE NoRestart
  BY <1>9 DEF NoRestart, Attempt
<1>10. CASE WriteIntent
  BY <1>10 DEF WriteIntent, Attempt
<1>11. CASE Freeze
  BY <1>11 DEF Freeze, Attempt
<1>12. CASE Top
  BY <1>12 DEF Top
<1>13. CASE WriteProof
  BY <1>13 DEF WriteProof, Attempt
<1>14. CASE Kill
  BY <1>14 DEF Kill, Attempt
<1>15. CASE Wait
  BY <1>15 DEF Wait
<1>16. CASE ReadIntent
  BY <1>16 DEF ReadIntent
<1>17. CASE Revoke
  BY <1>17 DEF Revoke, Attempt, AfterRevoke
<1>18. CASE Continue
  BY <1>18 DEF Continue, Attempt
<1>19. CASE Remove
  BY <1>19 DEF Remove, Resumed
<1>20. CASE RestorePolicy
  BY <1>20 DEF RestorePolicy, Attempt
<1>21. CASE Up
  BY <1>21 DEF Up, Attempt
<1>22. CASE Crash
  BY <1>22 DEF Crash
<1>23. CASE Redrain
  BY <1>23 DEF Redrain
<1>24. CASE RestoreData
  BY <1>24 DEF RestoreData
<1>25. CASE SaveBoundary
  BY <1>25 DEF SaveBoundary
<1>26. CASE Hold
  BY <1>26 DEF Hold
<1>27. CASE ResumeRecovered
  BY <1>27 DEF ResumeRecovered, Resumed
<1>28. CASE ResumeFrozenSchedulers
  BY <1>28 DEF ResumeFrozenSchedulers, Resumed
<1>29. CASE UNCHANGED vars
  BY <1>29 DEF vars
<1>30. QED
  BY <1>1, <1>2, <1>3, <1>4, <1>5, <1>6, <1>7, <1>8, <1>9, <1>10, <1>11, <1>12, <1>13, <1>14, <1>15, <1>16, <1>17, <1>18, <1>19, <1>20, <1>21, <1>22, <1>23, <1>24, <1>25, <1>26, <1>27, <1>28, <1>29 DEF Next, Worker

\* No process is stopped yet.
LEMMA InitFrozen == Init => FrozenInv
  BY DEF Init, FrozenInv, FrozenIsRecorded, StopInHand

\* Every step keeps the invariant.
LEMMA StepFrozen == TypeOK /\ FrozenInv /\ [Next]_vars => FrozenInv'
<1> SUFFICES ASSUME TypeOK, FrozenInv, [Next]_vars PROVE FrozenInv'
  OBVIOUS
<1> USE DEF FrozenInv, FrozenIsRecorded, StopInHand, container, files, record, ghosts
<1>1. CASE Spawn
  BY <1>1 DEF Spawn
<1>2. CASE Finish
  BY <1>2 DEF Finish
<1>3. CASE Killed
  BY <1>3 DEF Killed
<1>4. CASE Die
  BY <1>4 DEF Die
<1>5. CASE \E k \in Kinds : StartDrain(k)
  BY <1>5 DEF StartDrain
<1>6. CASE RollbackRefused
  BY <1>6 DEF RollbackRefused
<1>7. CASE Reconcile
  BY <1>7 DEF Reconcile
<1>8. CASE Inspect
  BY <1>8 DEF Inspect
<1>9. CASE NoRestart
  BY <1>9 DEF NoRestart, Attempt
<1>10. CASE WriteIntent
  BY <1>10 DEF WriteIntent, Attempt
<1>11. CASE Freeze
  BY <1>11 DEF Freeze, Attempt
<1>12. CASE Top
  BY <1>12 DEF Top
<1>13. CASE WriteProof
  BY <1>13 DEF WriteProof, Attempt
<1>14. CASE Kill
  BY <1>14 DEF Kill, Attempt
<1>15. CASE Wait
  BY <1>15 DEF Wait
<1>16. CASE ReadIntent
  BY <1>16 DEF ReadIntent
<1>17. CASE Revoke
  BY <1>17 DEF Revoke, Attempt, AfterRevoke
<1>18. CASE Continue
  BY <1>18 DEF Continue, Attempt
<1>19. CASE Remove
  BY <1>19 DEF Remove, Resumed
<1>20. CASE RestorePolicy
  BY <1>20 DEF RestorePolicy, Attempt
<1>21. CASE Up
  BY <1>21 DEF Up, Attempt
<1>22. CASE Crash
  BY <1>22 DEF Crash
<1>23. CASE Redrain
  BY <1>23 DEF Redrain
<1>24. CASE RestoreData
  BY <1>24 DEF RestoreData
<1>25. CASE SaveBoundary
  BY <1>25 DEF SaveBoundary
<1>26. CASE Hold
  BY <1>26 DEF Hold
<1>27. CASE ResumeRecovered
  BY <1>27 DEF ResumeRecovered, Resumed
<1>28. CASE ResumeFrozenSchedulers
  BY <1>28 DEF ResumeFrozenSchedulers, Resumed
<1>29. CASE UNCHANGED vars
  BY <1>29 DEF vars
<1>30. QED
  BY <1>1, <1>2, <1>3, <1>4, <1>5, <1>6, <1>7, <1>8, <1>9, <1>10, <1>11, <1>12, <1>13, <1>14, <1>15, <1>16, <1>17, <1>18, <1>19, <1>20, <1>21, <1>22, <1>23, <1>24, <1>25, <1>26, <1>27, <1>28, <1>29 DEF Next, Worker

\* Every variable keeps its type.
THEOREM DrainTypes == Spec => []TypeOK
BY InitTypes, StepTypes, PTL DEF Spec

\* What the files and the worker know of the incarnation holds throughout
\* (drainLegacyScheduler, thawLegacyScheduler).
THEOREM DrainInvariant == Spec => []DrainInv
BY InitDrain, StepDrain, DrainTypes, PTL DEF Spec

\* A drain that counts 137 as clean has not cut off a task (legacy_scheduler.go:69).
THEOREM DrainIsSound == Spec => []SoundDrain
<1>1. DrainInv => SoundDrain
  BY DEF DrainInv
<1>2. QED
  BY DrainInvariant, <1>1, PTL

\* A scheduler that is stopped has a freeze intent that names its incarnation, unless
\* it is not the one that was inspected (legacy_scheduler.go:95-104).
THEOREM FrozenIsOnRecord == Spec => []FrozenIsRecorded
<1>1. TypeOK /\ FrozenInv /\ [Next]_vars => FrozenInv'
  BY StepFrozen
<1>2. FrozenInv => FrozenIsRecorded
  BY DEF FrozenInv
<1>3. QED
  BY InitFrozen, <1>1, <1>2, DrainTypes, PTL DEF Spec
=============================================================================
