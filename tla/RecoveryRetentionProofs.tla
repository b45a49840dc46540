----------------------- MODULE RecoveryRetentionProofs -----------------------
(***************************************************************************)
(* Proof that a recovery point is kept whole as long as a valid plan or an  *)
(* unresolved restore may need it, and that the latest update checkpoint     *)
(* always is: for any number of points and plans, any retention and any      *)
(* behaviour of the clock.                                                  *)
(***************************************************************************)
EXTENDS RecoveryRetention, TLAPS, WellFoundedInduction

\* A directory without a creation time was never made.
Unmade ==
    /\ \A p \in Ids : made[p] = 0 => dir[p] = "absent"
    /\ pc = "stage" => \E p \in Ids : dir[p] = "absent" /\ made[p] = 0

\* No two points have the same creation time.
OwnTimes == \A p, q \in Ids : made[p] = made[q] /\ made[p] # 0 => p = q

\* A plan names a point, and one that has not lapsed is valid now.
PlanForm ==
    \A n \in Plans :
        plan[n] # NoPlan => plan[n].point \in Ids /\ (n \notin lapsed => plan[n].expires > now)

\* What is restored from, or was, is a point.
Bound == pc = "validate" \/ current.planned \/ current.checked => current.point \in Ids

\* What creates points binds none, and nothing else creates or removes any.
Creating ==
    /\ pc \in {"stage", "name", "prune", "remove"} => ~current.planned /\ ~current.checked
    /\ pc = "name" => fresh \in Ids /\ dir[fresh] = "staged" /\ made[fresh] # 0
    /\ pc \in {"prune", "remove"} => fresh \in Ids /\ dir[fresh] = "whole"
    /\ pc = "remove" => \A p \in doomed : p # fresh /\ made[p] # 0 /\ dir[p] # "staged"

Forms == Unmade /\ OwnTimes /\ PlanForm /\ Bound /\ Creating

\* The points that were ever committed by an update.
Ever == {p \in Ids : made[p] # 0 /\ update[p] /\ dir[p] # "staged"}

IsLatest(p) == p \in Ever /\ \A q \in Ever : made[q] <= made[p]

\* The latest is whole.
LatestWhole == Ever # {} => \E p \in Ids : IsLatest(p) /\ dir[p] = "whole"

\* What is about to be removed is none of those.
DoomedFree ==
    pc = "remove" =>
        /\ doomed \cap left = {}
        /\ \A n \in Plans : plan[n] # NoPlan /\ n \notin lapsed => plan[n].point \notin doomed
        /\ \A p \in doomed : ~IsLatest(p)

\* A point that a restore is bound to, or has begun to read, is whole.
HeldWhole ==
    /\ \A p \in left : dir[p] = "whole"
    /\ current.planned \/ current.checked => dir[current.point] = "whole"

RetentionInv == LatestWhole /\ DoomedFree /\ PlanKept /\ HeldWhole

--------------------
\* A set of naturals that is not empty has a least member.
LEMMA LeastNat == ASSUME NEW T, T \subseteq Nat, T # {} PROVE \E x \in T : \A y \in T : x <= y
<1> DEFINE R == OpToRel(<, Nat)
<1>1. IsWellFoundedOn(R, Nat)
  BY NatLessThanWellFounded
<1> HIDE DEF R
<1>2. PICK x \in T : \A y \in T : ~(<<y, x>> \in R)
  BY <1>1, WFMin, Zenon
<1>3. \A y \in T : ~(y < x)
  BY <1>2 DEF R, OpToRel
<1>4. QED
  BY <1>3

\* Newest is the member of a set that was made last.
LEMMA NewestIn ==
    ASSUME TypeOK, NEW S, S \subseteq Ids, S # {}
    PROVE Newest(S) \in S /\ \A q \in S : made[q] <= made[Newest(S)]
<1> USE RetentionConstants DEF TypeOK
<1> DEFINE T == {MaxTime - made[p] : p \in S}
<1>1. T \subseteq Nat /\ T # {}
  OBVIOUS
<1>2. PICK x \in T : \A y \in T : x <= y
  BY <1>1, LeastNat
<1>3. PICK p \in S : x = MaxTime - made[p]
  OBVIOUS
<1>4. \A q \in S : MaxTime - made[p] <= MaxTime - made[q]
  BY <1>2, <1>3
<1>5. \A q \in S : made[q] <= made[p]
  BY <1>4
<1>6. QED
  BY <1>5 DEF Newest

\* There is no point and no plan at first.
LEMMA InitTypes == Init => TypeOK
<1> SUFFICES ASSUME Init PROVE TypeOK
  OBVIOUS
<1> USE RetentionConstants DEF Init
<1>1. NoPlan \in [point : Ids \cup {NoPoint}, expires : 0 .. MaxTime + Validity]
  BY DEF NoPlan, NoPoint
<1>2. NoOperation \in Operation
  BY DEF NoOperation, NewOperation, Operation
<1>3. QED
  BY <1>1, <1>2 DEF TypeOK, NoPoint

\* An operation that failed is an operation.
LEMMA FailOperation == TypeOK /\ Fail => current' \in Operation
<1> SUFFICES ASSUME TypeOK, Fail PROVE current' \in Operation
  OBVIOUS
<1>1. CASE current' = [current EXCEPT !.status = "held"]
  BY <1>1 DEF TypeOK, Operation
<1>2. CASE current' = NoOperation
  BY <1>2 DEF NoOperation, NewOperation, Operation
<1>3. QED
  BY <1>1, <1>2 DEF Fail

\* Stage fails, or makes a directory that was not there.
Made ==
    /\ fresh' \in Ids /\ dir[fresh'] = "absent" /\ made[fresh'] = 0
    /\ dir' = [dir EXCEPT ![fresh'] = "staged"]
    /\ made' = [made EXCEPT ![fresh'] = now]
    /\ update' = [update EXCEPT ![fresh'] = (current.kind = "update")]
    /\ pc' = "name" /\ UNCHANGED <<current, faults>>

\* Stage makes a point with the time of its creation, or fails.
LEMMA StageMakes ==
    ASSUME TypeOK, Unmade, Stage
    PROVE (Fault /\ Fail /\ UNCHANGED points) \/ Made
<1> DEFINE S == {p \in Ids : dir[p] = "absent" /\ made[p] = 0}
<1>1. S # {}
  BY DEF Unmade, Stage
<1>2. S \subseteq Nat
  BY DEF Ids
<1>3. Min(S) \in S
  <2> HIDE DEF S
  <2>1. QED
    BY <1>1, <1>2, LeastNat DEF Min
<1>4. Min(S) \in Ids /\ dir[Min(S)] = "absent" /\ made[Min(S)] = 0
  BY <1>3
<1>5. QED
  BY <1>4 DEF Stage, Made

\* Every step keeps the types.
LEMMA StepTypes == TypeOK /\ Unmade /\ Bound /\ [Next]_vars => TypeOK'
<1> SUFFICES ASSUME TypeOK, Unmade, Bound, [Next]_vars PROVE TypeOK'
  OBVIOUS
<1> USE RetentionConstants DEF TypeOK, Operation, NewOperation, NoOperation, Fault, Start, Free,
        points, operation, clock
<1>1. ASSUME NEW kind \in {"update", "backup"}, Begin(kind) PROVE TypeOK'
  BY <1>1 DEF Begin
<1>2. CASE Stage
  <2>1. CASE Fault /\ Fail /\ UNCHANGED points
    <3>1. current' \in Operation
      BY <2>1, FailOperation
    <3>2. pc' = "idle" /\ fresh' = NoPoint /\ faults' \in 0 .. MaxFaults
      BY <2>1 DEF Fail
    <3>3. UNCHANGED <<dir, made, update, left, plan, doomed, clock>>
      BY <1>2, <2>1 DEF Stage
    <3>4. QED
      BY <3>1, <3>2, <3>3
  <2>2. CASE Made
    <3>1. made' \in [Ids -> 0 .. MaxTime] /\ update' \in [Ids -> BOOLEAN]
      BY <2>2 DEF Made
    <3>2. QED
      BY <1>2, <2>2, <3>1 DEF Stage, Made
  <2>3. QED
    BY <1>2, <2>1, <2>2, StageMakes
<1>3. CASE Name
  <2>1. current' \in Operation
    BY <1>3, FailOperation DEF Name
  <2>2. dir' \in [Ids -> {"absent", "staged", "whole", "torn"}]
    BY <1>3 DEF Name
  <2>3. pc' \in {"idle", "prune"} /\ fresh' \in Ids \cup {NoPoint} /\ faults' \in 0 .. MaxFaults
    BY <1>3 DEF Name, Fail
  <2>4. QED
    BY <1>3, <2>1, <2>2, <2>3 DEF Name
<1>4. CASE Prune
  <2>1. doomed' \subseteq Ids
    BY <1>4 DEF Prune, Surplus, Listed
  <2>2. QED
    BY <1>4, <2>1 DEF Prune
<1>5. CASE Remove
  <2>1. current' \in Operation
    BY <1>5, FailOperation DEF Remove
  <2>2. dir' \in [Ids -> {"absent", "staged", "whole", "torn"}]
    BY <1>5 DEF Remove
  <2>3. doomed' \subseteq Ids
    BY <1>5 DEF Remove
  <2>4. pc' \in {"idle", "remove"} /\ fresh' \in Ids \cup {NoPoint} /\ faults' \in 0 .. MaxFaults
    BY <1>5 DEF Remove, Fail
  <2>5. QED
    BY <1>5, <2>1, <2>2, <2>3, <2>4 DEF Remove
<1>6. CASE Created
  <2>1. CASE current' = [current EXCEPT !.point = fresh, !.checked = TRUE, !.status = "held"]
    BY <1>6, <2>1 DEF Created
  <2>2. CASE current' = NoOperation
    <3>1. current' \in Operation
      BY <2>2
    <3>2. QED
      BY <1>6, <3>1 DEF Created
  <2>3. QED
    BY <1>6, <2>1, <2>2 DEF Created
<1>7. ASSUME NEW n \in Plans, CreatePlan(n) PROVE TypeOK'
  BY <1>7 DEF CreatePlan
<1>8. ASSUME NEW n \in Plans, Submit(n) PROVE TypeOK'
  <2>1. plan[n].point \in Ids
    BY <1>8 DEF Submit, Restorable, Checkpoints, Listed
  <2>2. current' \in Operation
    BY <1>8, <2>1 DEF Submit
  <2>3. left' \subseteq Ids
    BY <1>8 DEF Submit, Bound
  <2>4. QED
    BY <1>8, <2>2, <2>3 DEF Submit
<1>9. ASSUME NEW p \in Ids, HostRestore(p) PROVE TypeOK'
  <2>1. current' \in Operation
    BY <1>9 DEF HostRestore
  <2>2. left' \subseteq Ids
    BY <1>9 DEF HostRestore, Bound
  <2>3. QED
    BY <1>9, <2>1, <2>2 DEF HostRestore
<1>10. CASE Validate
  BY <1>10 DEF Validate
<1>11. CASE Restore
  BY <1>11, FailOperation DEF Restore, Fail
<1>12. CASE Crash
  BY <1>12 DEF Crash
<1>13. CASE Reconcile
  BY <1>13, FailOperation DEF Reconcile, Fail
<1>14. CASE Tick
  BY <1>14 DEF Tick, SetClock
<1>15. CASE SetBack
  BY <1>15 DEF SetBack, SetClock
<1>16. CASE UNCHANGED vars
  BY <1>16 DEF vars
<1>17. QED
  BY <1>1, <1>2, <1>3, <1>4, <1>5, <1>6, <1>7, <1>8, <1>9, <1>10, <1>11, <1>12, <1>13, <1>14, <1>15, <1>16 DEF Next

\* Every step keeps the form of plans, operations and creation times.
LEMMA StepForms == TypeOK /\ TypeOK' /\ Forms /\ [Next]_vars => Forms'
<1> SUFFICES ASSUME TypeOK, TypeOK', Forms, [Next]_vars PROVE Forms'
  OBVIOUS
<1> USE RetentionConstants DEF TypeOK, Operation, NewOperation, NoOperation, Fault, Start, Free,
        points, operation, clock, Forms, Unmade, OwnTimes, PlanForm, Bound, Creating
<1>1. ASSUME NEW kind \in {"update", "backup"}, Begin(kind) PROVE Forms'
  BY <1>1 DEF Begin
<1>2. CASE Stage
  <2>1. CASE Fault /\ Fail /\ UNCHANGED points
    BY <1>2, <2>1 DEF Stage, Fail
  <2>2. CASE Made
    <3>1. now # 0 /\ made'[fresh'] = now /\ dir'[fresh'] = "staged" /\ UNCHANGED <<plan, clock>>
      BY <1>2, <2>2 DEF Stage, Made
    <3>2. \A p \in Ids : p # fresh' => made'[p] = made[p] /\ dir'[p] = dir[p] /\ made[p] # now
      BY <1>2, <2>2 DEF Stage, Made
    <3>3. Unmade' /\ OwnTimes'
      BY <2>2, <3>1, <3>2 DEF Made
    <3>4. PlanForm'
      BY <3>1
    <3>5. Bound' /\ Creating'
      BY <1>2, <2>2, <3>1 DEF Made, Stage
    <3>6. QED
      BY <3>3, <3>4, <3>5
  <2>3. QED
    BY <1>2, <2>1, <2>2, StageMakes
<1>3. CASE Name
  BY <1>3 DEF Name, Fail
<1>4. CASE Prune
  <2>1. \A p \in doomed' : p \in Ids /\ made[p] # 0 /\ p # fresh /\ dir[p] # "staged"
    BY <1>4 DEF Prune, Surplus, Listed, Retained
  <2>2. QED
    BY <1>4, <2>1 DEF Prune
<1>5. CASE Remove
  <2>1. Newest(doomed) \in doomed
    BY <1>5, NewestIn DEF Remove
  <2>2. PICK s \in {"torn", "absent"} : dir' = [dir EXCEPT ![Newest(doomed)] = s]
    BY <1>5 DEF Remove
  <2>3. \A p \in Ids : p \notin doomed => dir'[p] = dir[p]
    BY <2>1, <2>2
  <2>4. UNCHANGED <<made, plan, clock, left>> /\ pc = "remove"
    BY <1>5 DEF Remove
  <2>5. Unmade' /\ OwnTimes' /\ PlanForm'
    <3>1. \A p \in Ids : made[p] = 0 => dir'[p] = "absent"
      BY <2>3, <2>4
    <3>2. QED
      BY <1>5, <2>4, <3>1 DEF Remove, Fail
  <2>6. CASE UNCHANGED <<current, pc, fresh, faults>>
    <3>1. \A p \in doomed' : p \in doomed /\ p # Newest(doomed)
      BY <1>5 DEF Remove
    <3>2. QED
      <4>1. fresh \in Ids /\ fresh \notin doomed /\ dir'[fresh] = "whole" /\ pc' = "remove"
        BY <2>3, <2>4, <2>6
      <4>2. \A p \in doomed' : p # fresh /\ made[p] # 0 /\ dir'[p] # "staged"
        BY <2>2, <2>4, <3>1
      <4>3. Creating' /\ Bound'
        BY <2>4, <2>6, <4>1, <4>2
      <4>4. QED
        BY <2>5, <4>3
  <2>7. CASE Fault /\ Fail
    BY <2>4, <2>5, <2>7 DEF Fail
  <2>8. QED
    BY <1>5, <2>6, <2>7 DEF Remove
<1>6. CASE Created
  BY <1>6 DEF Created
<1>7. ASSUME NEW n \in Plans, CreatePlan(n) PROVE Forms'
  BY <1>7 DEF CreatePlan
<1>8. ASSUME NEW n \in Plans, Submit(n) PROVE Forms'
  <2>1. plan[n].point \in Ids
    BY <1>8 DEF Submit, Restorable, Checkpoints, Listed
  <2>2. QED
    BY <1>8, <2>1 DEF Submit
<1>9. ASSUME NEW p \in Ids, HostRestore(p) PROVE Forms'
  BY <1>9 DEF HostRestore
<1>10. CASE Validate
  BY <1>10 DEF Validate
<1>11. CASE Restore
  BY <1>11 DEF Restore, Fail
<1>12. CASE Crash
  BY <1>12 DEF Crash
<1>13. CASE Reconcile
  BY <1>13 DEF Reconcile, Fail
<1>14. CASE Tick
  BY <1>14 DEF Tick, SetClock
<1>15. CASE SetBack
  BY <1>15 DEF SetBack, SetClock
<1>16. CASE UNCHANGED vars
  BY <1>16 DEF vars
<1>17. QED
  BY <1>1, <1>2, <1>3, <1>4, <1>5, <1>6, <1>7, <1>8, <1>9, <1>10, <1>11, <1>12, <1>13, <1>14, <1>15, <1>16 DEF Next

\* Nothing is needed yet.
LEMMA InitRetention == Init => Forms /\ RetentionInv
  BY RetentionConstants
  DEF Init, Forms, Unmade, OwnTimes, PlanForm, Bound, Creating, RetentionInv, LatestWhole, Ever,
      DoomedFree, PlanKept, HeldWhole, NoOperation, NewOperation

\* Every step keeps what may be needed.
LEMMA StepRetention ==
    TypeOK /\ TypeOK' /\ Forms /\ RetentionInv /\ [Next]_vars => RetentionInv'
<1> SUFFICES ASSUME TypeOK, TypeOK', Forms, RetentionInv, [Next]_vars PROVE RetentionInv'
  OBVIOUS
<1> USE RetentionConstants
    DEF TypeOK, Operation, NewOperation, NoOperation, Start, Free, points, operation, clock,
        Forms, PlanForm, Bound, Creating, RetentionInv, LatestWhole, DoomedFree, IsLatest, Ever,
        PlanKept, HeldWhole
<1>1. ASSUME NEW kind \in {"update", "backup"}, Begin(kind) PROVE RetentionInv'
  BY <1>1 DEF Begin
<1>2. CASE Stage
  <2>1. CASE Fault /\ Fail /\ UNCHANGED points
    <3>1. pc' = "idle" /\ ~current'.planned /\ ~current'.checked /\ UNCHANGED <<dir, made, update, plan, left, lapsed>>
      BY <1>2, <2>1 DEF Stage, Fail
    <3>2. QED
      BY <3>1
  <2>2. CASE Made
    <3>1. pc' = "name" /\ UNCHANGED <<plan, left, lapsed, current>> /\ ~current.planned /\ ~current.checked
      BY <1>2, <2>2 DEF Stage, Made
    <3>2. \A p \in Ids : p # fresh' => made'[p] = made[p] /\ update'[p] = update[p] /\ dir'[p] = dir[p]
      BY <2>2 DEF Made
    <3>3. fresh' \notin Ever /\ fresh' \notin Ever' /\ dir[fresh'] = "absent"
      BY <2>2 DEF Made
    <3>4. Ever' = Ever /\ \A p \in Ids : dir[p] = "whole" => dir'[p] = "whole"
      BY <3>2, <3>3
    <3>5. LatestWhole'
      BY <3>2, <3>3, <3>4
    <3>6. QED
      BY <3>1, <3>4, <3>5
  <2>3. QED
    BY <1>2, <2>1, <2>2, StageMakes DEF Forms
<1>3. CASE Name
  <2>1. dir' = [dir EXCEPT ![fresh] = "whole"] /\ UNCHANGED <<left, made, update, plan, lapsed>>
    BY <1>3 DEF Name
  <2>2. fresh \in Ids /\ dir[fresh] = "staged" /\ made[fresh] # 0
    BY <1>3 DEF Name
  <2>3. \A p \in Ids : dir[p] = "whole" => dir'[p] = "whole"
    BY <2>1
  <2>4. pc' \in {"idle", "prune"} /\ ~current'.planned /\ ~current'.checked
    BY <1>3 DEF Name, Fail
  <2>5. LatestWhole'
    <3>1. CASE ~update[fresh]
      <4>1. Ever' = Ever
        BY <2>1, <2>2, <3>1
      <4>2. QED
        BY <2>1, <2>3, <4>1
    <3>2. CASE update[fresh]
      <4>1. Ever' = Ever \cup {fresh} /\ dir'[fresh] = "whole"
        BY <2>1, <2>2, <3>2
      <4>2. CASE \A q \in Ever : made[q] <= made[fresh]
        BY <2>1, <2>2, <4>1, <4>2
      <4>3. ASSUME NEW q \in Ever, ~(made[q] <= made[fresh]) PROVE LatestWhole'
        <5>1. PICK w \in Ids : IsLatest(w) /\ dir[w] = "whole"
          BY <4>3
        <5>2. made[fresh] <= made[w]
          BY <2>2, <4>3, <5>1
        <5>3. IsLatest(w)' /\ dir'[w] = "whole"
          BY <2>1, <2>3, <4>1, <5>1, <5>2
        <5>4. QED
          BY <5>3
      <4>4. QED
        BY <4>2, <4>3
    <3>3. QED
      BY <3>1, <3>2
  <2>6. PlanKept' /\ HeldWhole'
    BY <2>1, <2>3, <2>4
  <2>7. QED
    BY <2>4, <2>5, <2>6
<1>4. CASE Prune
  <2>1. UNCHANGED <<dir, made, update, plan, left, current, lapsed>> /\ doomed' = Surplus
    BY <1>4 DEF Prune
  <2>2. \A p \in Surplus : p \in Listed /\ p \notin Retained
    BY DEF Surplus
  <2>3. \A p \in left : p \in Retained
    BY DEF Retained, Unresolved, NoPoint, Ids
  <2>4. ASSUME NEW n \in Plans, plan[n] # NoPlan, n \notin lapsed PROVE plan[n].point \in Retained
    <3>1. plan[n].point \in Planned
      BY <2>4 DEF Planned
    <3>2. plan[n].point # NoPoint
      BY <2>4 DEF Ids, NoPoint
    <3>3. QED
      BY <3>1, <3>2 DEF Retained
  <2>5. ASSUME NEW p \in Listed, IsLatest(p) PROVE p \in Retained
    <3> DEFINE C == Checkpoints(Listed)
    <3>1. p \in C /\ C \subseteq Ids /\ C \subseteq Ever
      BY <2>5 DEF Checkpoints, Listed, Unmade
    <3>2. Newest(C) \in C /\ \A q \in C : made[q] <= made[Newest(C)]
      <4> HIDE DEF C
      <4>1. QED
        BY <3>1, NewestIn
    <3>3. made[p] = made[Newest(C)] /\ made[p] # 0
      <4>1. Newest(C) \in Ever /\ made[p] <= made[Newest(C)]
        BY <3>1, <3>2
      <4>2. made[Newest(C)] <= made[p] /\ p \in Ids /\ Newest(C) \in Ids
        BY <2>5, <4>1
      <4>3. made[p] \in Nat /\ made[Newest(C)] \in Nat
        BY <4>2
      <4>4. QED
        BY <2>5, <4>1, <4>2, <4>3
    <3>4. p = Newest(C)
      BY <3>1, <3>2, <3>3 DEF OwnTimes
    <3>5. QED
      BY <3>1, <3>4 DEF Retained
  <2>6. DoomedFree'
    BY <2>1, <2>2, <2>3, <2>4, <2>5
  <2>7. QED
    BY <2>1, <2>6
<1>5. CASE Remove
  <2>1. Newest(doomed) \in doomed /\ pc = "remove"
    BY <1>5, NewestIn DEF Remove
  <2>2. PICK s \in {"torn", "absent"} : dir' = [dir EXCEPT ![Newest(doomed)] = s]
    BY <1>5 DEF Remove
  <2>3. \A p \in Ids : p \notin doomed => dir'[p] = dir[p]
    BY <2>1, <2>2
  <2>4. UNCHANGED <<made, update, plan, left, lapsed>> /\ ~current'.planned /\ ~current'.checked
    BY <1>5, <2>1 DEF Remove, Fail
  <2>5. doomed' \subseteq doomed
    BY <1>5 DEF Remove
  <2>6. Ever' = Ever
    BY <2>1, <2>2, <2>4
  <2>7. LatestWhole' /\ \A p \in Ids : IsLatest(p)' <=> IsLatest(p)
    BY <2>1, <2>3, <2>4, <2>6
  <2>8. DoomedFree'
    BY <2>1, <2>4, <2>5, <2>7
  <2>9. PlanKept' /\ HeldWhole'
    BY <2>1, <2>3, <2>4
  <2>10. QED
    BY <2>7, <2>8, <2>9
<1>6. CASE Created
  <2>1. UNCHANGED <<dir, made, update, plan, left, lapsed>> /\ pc' = "idle"
    BY <1>6 DEF Created
  <2>2. dir[fresh] = "whole" /\ (current'.planned \/ current'.checked => current'.point = fresh)
    BY <1>6 DEF Created
  <2>3. QED
    BY <2>1, <2>2
<1>7. ASSUME NEW n \in Plans, CreatePlan(n) PROVE RetentionInv'
  <2>1. PICK p \in Ids : Restorable(p) /\ plan' = [plan EXCEPT ![n] = [point |-> p, expires |-> now + Validity]]
    BY <1>7 DEF CreatePlan
  <2>2. UNCHANGED <<dir, made, update, left, current, lapsed, pc>> /\ pc = "idle"
    BY <1>7 DEF CreatePlan
  <2>3. \A m \in Plans : plan'[m].point = p \/ plan'[m] = plan[m]
    BY <2>1
  <2>4. PlanKept'
    BY <2>1, <2>2, <2>3 DEF Restorable
  <2>5. QED
    BY <2>2, <2>4
<1>8. ASSUME NEW n \in Plans, Submit(n) PROVE RetentionInv'
  <2>1. dir[plan[n].point] = "whole"
    BY <1>8 DEF Submit, Restorable
  <2>2. UNCHANGED <<dir, made, update, plan, lapsed>> /\ pc' = "validate" /\ current'.point = plan[n].point
    BY <1>8 DEF Submit
  <2>3. \A p \in left' : dir[p] = "whole"
    BY <1>8 DEF Submit
  <2>4. QED
    BY <2>1, <2>2, <2>3
<1>9. ASSUME NEW p \in Ids, HostRestore(p) PROVE RetentionInv'
  BY <1>9 DEF HostRestore
<1>10. CASE Validate
  BY <1>10 DEF Validate
<1>11. CASE Restore
  BY <1>11 DEF Restore, Fail
<1>12. CASE Crash
  BY <1>12 DEF Crash
<1>13. CASE Reconcile
  BY <1>13 DEF Reconcile, Fail
<1>14. CASE Tick
  BY <1>14 DEF Tick, SetClock
<1>15. CASE SetBack
  BY <1>15 DEF SetBack, SetClock
<1>16. CASE UNCHANGED vars
  BY <1>16 DEF vars
<1>17. QED
  BY <1>1, <1>2, <1>3, <1>4, <1>5, <1>6, <1>7, <1>8, <1>9, <1>10, <1>11, <1>12, <1>13, <1>14, <1>15, <1>16 DEF Next

\* Every variable keeps its type, and everything above holds.
THEOREM RetentionInvariant == Spec => [](TypeOK /\ Forms /\ RetentionInv)
<1>1. TypeOK /\ Forms /\ RetentionInv /\ [Next]_vars => (TypeOK /\ Forms /\ RetentionInv)'
  <2>1. Forms => Unmade /\ Bound
    BY DEF Forms
  <2>2. QED
    BY <2>1, StepTypes, StepForms, StepRetention
<1>2. QED
  BY <1>1, InitTypes, InitRetention, PTL DEF Spec

\* A plan that has not lapsed finds its point whole
\* (docs/updater-coordination-v2.md:34; ProtectedPoints and prune).
THEOREM PlansKeepPoints == Spec => []PlanKept
<1>1. RetentionInv => PlanKept
  BY DEF RetentionInv
<1>2. QED
  BY RetentionInvariant, <1>1, PTL

\* So does an admitted restore until it is resolved, and the current operation.
THEOREM RestoresKeepPoints == Spec => []UnresolvedKept
<1>1. RetentionInv => UnresolvedKept
  BY DEF RetentionInv, HeldWhole, UnresolvedKept
<1>2. QED
  BY RetentionInvariant, <1>1, PTL

\* The latest update checkpoint is always retained, and whole.
THEOREM LatestIsKept == Spec => []LatestKept
<1>1. TypeOK /\ Forms /\ RetentionInv => LatestKept
  <2> SUFFICES ASSUME TypeOK, Forms, RetentionInv, Ever # {} PROVE dir[Newest(Ever)] = "whole"
    BY DEF LatestKept, Ever
  <2>1. PICK w \in Ids : IsLatest(w) /\ dir[w] = "whole"
    BY DEF RetentionInv, LatestWhole
  <2>2. w \in Ever /\ \A q \in Ever : made[q] <= made[w]
    BY <2>1 DEF IsLatest
  <2>3. Ever \subseteq Ids /\ \A q \in Ever : made[q] \in Nat /\ made[q] # 0
    BY DEF Ever, TypeOK
  <2> HIDE DEF Ever
  <2>4. Newest(Ever) \in Ever /\ \A q \in Ever : made[q] <= made[Newest(Ever)]
    BY <2>2 DEF Newest
  <2>5. made[Newest(Ever)] = made[w]
    BY <2>2, <2>3, <2>4
  <2>6. Newest(Ever) = w
    BY <2>2, <2>3, <2>4, <2>5 DEF Forms, OwnTimes
  <2>7. QED
    BY <2>1, <2>6
<1>2. QED
  BY RetentionInvariant, <1>1, PTL
=============================================================================
