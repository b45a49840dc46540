-------------------------- MODULE RecoveryRetention --------------------------
(***************************************************************************)
(* Recovery points as directories: Create, List and prune of                *)
(* internal/recovery/store.go, the references that protect a point          *)
(* (ProtectedPoints of internal/coordination/store.go), and the operations   *)
(* that make and use them: updates, backups, planned and host restores.      *)
(*                                                                         *)
(* A point is built under a hidden name and renamed; pruning removes it file *)
(* by file, so that an interrupted removal may leave a directory that is     *)
(* still listed.  Everything that writes holds operation.lock, but a plan is *)
(* bound to a point long before its request arrives, time passes, and the    *)
(* wall clock may be set back.                                              *)
(*                                                                         *)
(* What a plan binds besides its point (generation, configuration, actor) is *)
(* left out, so that more requests are admitted here than by the program.    *)
(***************************************************************************)
EXTENDS Naturals, FiniteSets, FiniteSetsExt

CONSTANTS
    Keep,           \* Store.Keep: the points that are kept
    Validity,       \* ticks for which a plan is valid
    Plans,          \* plan identifiers
    MaxPoints, MaxTime, MaxFaults, MaxSetbacks  \* bounds

ASSUME RetentionConstants ==
    /\ Keep \in Nat \ {0} /\ Validity \in Nat \ {0}
    /\ MaxTime \in Nat \ {0} /\ {MaxPoints, MaxFaults, MaxSetbacks} \subseteq Nat

VARIABLES
    dir,        \* per point: absent (or without a manifest), staged, whole or torn (still listed)
    made,       \* its CreatedAt
    update,     \* is its reason "update-to-..."?
    plan,       \* restore plans: point and expiry; NoPlan when there is none
    current,    \* the unfinished operation, or NoOperation; a planned one has an admission
    left,       \* points of admissions that were replaced while held: they stay held
    pc,         \* the worker's next step
    fresh,      \* the point that the worker is creating
    doomed,     \* what it still has to remove
    now, lapsed,    \* the clock; history: plans that it has been past
    faults, setbacks

points == <<dir, made, update>>
operation == <<current, left>>
clock == <<now, lapsed, setbacks>>
vars == <<points, plan, operation, pc, fresh, doomed, clock, faults>>

Ids == 1 .. MaxPoints
NoPoint == 0
NoPlan == [point |-> NoPoint, expires |-> 0]

Operation ==
    [kind : {"update", "backup", "restore"}, point : Ids \cup {NoPoint},
     planned : BOOLEAN, checked : BOOLEAN, status : {"open", "held", "ended"}]


NewOperation(kind, point, planned) ==
    [kind |-> kind, point |-> point, planned |-> planned, checked |-> FALSE, status |-> "open"]

\* Nothing is unfinished; of an operation that ended only its effects are kept.
NoOperation == [NewOperation("backup", NoPoint, FALSE) EXCEPT !.status = "ended"]

TypeOK ==
    /\ dir \in [Ids -> {"absent", "staged", "whole", "torn"}]
    /\ made \in [Ids -> 0 .. MaxTime] /\ update \in [Ids -> BOOLEAN]
    /\ plan \in [Plans -> [point : Ids \cup {NoPoint}, expires : 0 .. MaxTime + Validity]]
    /\ current \in Operation /\ left \subseteq Ids
    /\ pc \in {"idle", "validate", "restore", "stage", "name", "prune", "remove"}
    /\ fresh \in Ids \cup {NoPoint} /\ doomed \subseteq Ids
    /\ now \in 0 .. MaxTime /\ lapsed \subseteq Plans
    /\ faults \in 0 .. MaxFaults /\ setbacks \in 0 .. MaxSetbacks

Fault == faults < MaxFaults /\ faults' = faults + 1

\* An unfinished operation admits nothing but, while it is held, a restore.
Free(kind) ==
    /\ pc = "idle"
    /\ current.status = "ended" \/ (current.status = "held" /\ kind = "restore")

\* Nothing changes the record of an operation that was replaced.
Start(new) ==
    /\ current' = new
    /\ left' = IF current.planned /\ current.status = "held" THEN left \cup {current.point} ELSE left

--------------------
\* List: directories whose manifest loads.  Staged ones are hidden.
Listed == {p \in Ids : dir[p] \in {"whole", "torn"}}

Newest(S) == CHOOSE p \in S : \A q \in S : made[q] <= made[p]

Checkpoints(S) == {p \in S : update[p]}

\* Faulty: only admissions protect their points.
PlannedByNone == {}

\* ProtectedPoints: valid plans ...
Planned == {plan[n].point : n \in {m \in Plans : plan[m].expires > now}}

\* Faulty: a held restore counts as finished.
RunningOnly == IF current.planned /\ current.status = "open" THEN {current.point} ELSE {}

\* ... and admitted requests that have not succeeded, failed or been rolled back.
Unresolved ==
    left \cup (IF current.planned /\ current.status # "ended" THEN {current.point} ELSE {})

\* Faulty: the new point is protected, the newest update checkpoint is not.
RetainedAlways == {fresh} \cup ((Planned \cup Unresolved) \ {NoPoint})

\* What prune keeps whatever Keep says.
Retained ==
    {fresh} \cup ((Planned \cup Unresolved) \ {NoPoint})
    \cup (IF Checkpoints(Listed) = {} THEN {} ELSE {Newest(Checkpoints(Listed))})

\* The newest others fill it up to Keep; all the rest goes.
Surplus ==
    LET others == Listed \ Retained
        room == IF Keep > Cardinality(Retained) THEN Keep - Cardinality(Retained) ELSE 0
    IN  {p \in others : Cardinality({q \in others : made[q] > made[p]}) >= room}

--------------------
\* Operations that create a point.

Begin(kind) ==
    /\ Free(kind) /\ \E p \in Ids : dir[p] = "absent" /\ made[p] = 0
    /\ Start(NewOperation(kind, NoPoint, FALSE))
    /\ pc' = "stage"
    /\ UNCHANGED <<points, plan, fresh, doomed, clock, faults>>

\* The operation fails: what it changed is brought back, or it is held.
Fail ==
    /\ pc' = "idle"
    /\ current' \in {[current EXCEPT !.status = "held"], NoOperation}
    /\ fresh' = NoPoint

\* Create builds the directory; when that fails it is removed again.  Every point
\* has a CreatedAt of its own.
Stage ==
    /\ pc = "stage" /\ \A p \in Ids : made[p] # now
    /\ \/ /\ fresh' = Min({p \in Ids : dir[p] = "absent" /\ made[p] = 0})
          /\ dir' = [dir EXCEPT ![fresh'] = "staged"]
          /\ made' = [made EXCEPT ![fresh'] = now]
          /\ update' = [update EXCEPT ![fresh'] = (current.kind = "update")]
          /\ pc' = "name" /\ UNCHANGED <<current, faults>>
       \/ Fault /\ Fail /\ UNCHANGED points
    /\ UNCHANGED <<left, plan, doomed, clock>>

\* The rename commits it.  The sync after it may fail: the point stays listed, and
\* the operation that made it does not know it.
Name ==
    /\ pc = "name"
    /\ dir' = [dir EXCEPT ![fresh] = "whole"]
    /\ \/ pc' = "prune" /\ UNCHANGED <<current, fresh, faults>>
       \/ Fault /\ Fail
    /\ UNCHANGED <<left, made, update, plan, doomed, clock>>

Prune ==
    /\ pc = "prune"
    /\ doomed' = Surplus /\ pc' = "remove"
    /\ UNCHANGED <<points, plan, operation, fresh, clock, faults>>

\* Newest first.  RemoveAll may stop between two files, by an error or a death.
Remove ==
    /\ pc = "remove" /\ doomed # {}
    /\ LET p == Newest(doomed) IN
       \/ /\ dir' = [dir EXCEPT ![p] = "absent"] /\ doomed' = doomed \ {p}
          /\ UNCHANGED <<current, pc, fresh, faults>>
       \/ /\ \E rest \in {"torn", "absent"} : dir' = [dir EXCEPT ![p] = rest]
          /\ doomed' = {} /\ Fault /\ Fail
    /\ UNCHANGED <<left, made, update, plan, clock>>

\* The point is created; the operation goes on to its end or is held.
Created ==
    /\ pc = "remove" /\ doomed = {} /\ pc' = "idle"
    /\ current' \in {[current EXCEPT !.point = fresh, !.checked = TRUE, !.status = "held"], NoOperation}
    /\ fresh' = NoPoint
    /\ UNCHANGED <<left, points, plan, doomed, clock, faults>>

--------------------
\* Restores.

\* ActionSnapshot: the newest listed update checkpoint, and it must be whole.
Restorable(p) == p \in Checkpoints(Listed) /\ p = Newest(Checkpoints(Listed)) /\ dir[p] = "whole"

CreatePlan(n) ==
    /\ Free("restore") /\ plan[n] = NoPlan
    /\ \E p \in Ids : Restorable(p) /\ plan' = [plan EXCEPT ![n] = [point |-> p, expires |-> now + Validity]]
    /\ UNCHANGED <<points, operation, pc, fresh, doomed, clock, faults>>

Submit(n) ==
    /\ Free("restore")
    /\ plan[n].expires > now /\ Restorable(plan[n].point)
    /\ Start(NewOperation("restore", plan[n].point, TRUE))
    /\ pc' = "validate"
    /\ UNCHANGED <<points, plan, fresh, doomed, clock, faults>>

\* The host may name any point.
HostRestore(p) ==
    /\ Free("restore")
    /\ Start(NewOperation("restore", p, FALSE))
    /\ pc' = "validate"
    /\ UNCHANGED <<points, plan, fresh, doomed, clock, faults>>

\* The preflight of rollbackRunner compares every file with the manifest.
Validate ==
    /\ pc = "validate"
    /\ \/ dir[current.point] = "whole" /\ pc' = "restore" /\ current' = [current EXCEPT !.checked = TRUE]
       \/ dir[current.point] # "whole" /\ pc' = "idle" /\ current' = NoOperation
    /\ UNCHANGED <<left, points, plan, fresh, doomed, clock, faults>>

Restore ==
    /\ pc = "restore" /\ Fail
    /\ UNCHANGED <<left, points, plan, doomed, clock, faults>>

--------------------
\* The updater dies; a staged directory stays for good, and is never listed.
Crash ==
    /\ pc # "idle" /\ Fault
    /\ pc' = "idle" /\ fresh' = NoPoint /\ doomed' = {}
    /\ UNCHANGED <<points, plan, operation, clock>>

\* What died is held or brought to an end; what is held may be.
Reconcile ==
    /\ pc = "idle" /\ current.status # "ended" /\ Fail
    /\ UNCHANGED <<left, points, plan, doomed, clock, faults>>

SetClock(t) ==
    /\ now' = t
    /\ lapsed' = lapsed \cup {n \in Plans : plan[n] # NoPlan /\ plan[n].expires <= t}
    /\ UNCHANGED <<points, plan, operation, pc, fresh, doomed, faults>>

Tick == now < MaxTime /\ SetClock(now + 1) /\ UNCHANGED setbacks

SetBack ==
    /\ setbacks < MaxSetbacks /\ setbacks' = setbacks + 1
    /\ \E t \in 1 .. now - 1 : SetClock(t)

Init ==
    /\ dir = [p \in Ids |-> "absent"] /\ made = [p \in Ids |-> 0] /\ update = [p \in Ids |-> FALSE]
    /\ plan = [n \in Plans |-> NoPlan] /\ current = NoOperation /\ left = {}
    /\ pc = "idle" /\ fresh = NoPoint /\ doomed = {}
    /\ now = 1 /\ lapsed = {} /\ faults = 0 /\ setbacks = 0

Next ==
    \/ \E kind \in {"update", "backup"} : Begin(kind)
    \/ Stage \/ Name \/ Prune \/ Remove \/ Created
    \/ \E n \in Plans : CreatePlan(n) \/ Submit(n)
    \/ \E p \in Ids : HostRestore(p)
    \/ Validate \/ Restore \/ Crash \/ Reconcile \/ Tick \/ SetBack

Spec == Init /\ [][Next]_vars

--------------------
\* A plan that has not lapsed finds its point whole, whatever was created and
\* pruned since (docs/updater-coordination-v2.md:34, "Valid plans and unresolved
\* admitted operations protect their recovery points").
PlanKept ==
    \A n \in Plans : plan[n] # NoPlan /\ n \notin lapsed => dir[plan[n].point] = "whole"

\* So does every admitted restore until it is resolved, also one that was replaced
\* while it was held, and the operation that is current: it may have begun to
\* replace data with that point, or have nothing else to go back to.
UnresolvedKept ==
    /\ \A p \in left : dir[p] = "whole"
    /\ current.status # "ended" /\ (current.planned \/ current.checked)
          => dir[current.point] = "whole"

\* The latest update checkpoint is always retained, and whole: of all that were ever
\* committed, the one made last by the clock (docs/updater-coordination-v2.md:34).
LatestKept ==
    LET ever == {p \in Ids : made[p] # 0 /\ update[p] /\ dir[p] # "staged"}
    IN  ever # {} => dir[Newest(ever)] = "whole"
=============================================================================
