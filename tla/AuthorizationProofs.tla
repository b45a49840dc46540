------------------------- MODULE AuthorizationProofs -------------------------
(***************************************************************************)
(* Proof that no one-time code is accepted twice and that no guess is        *)
(* forgotten, for any thresholds and lockouts and without a bound on time:   *)
(* whichever of the durable writes of a call fail or are lost.               *)
(*                                                                         *)
(* The files alone do not decide.  A call holds mutation.lock from its       *)
(* check to its last write, so that what it read then, the last counter and  *)
(* what remains of the aggregate budget, still holds when it is written.     *)
(***************************************************************************)
EXTENDS Authorization, TLAPS

\* The shapes of the files and of the call; a lockout's end is not constrained.
Shapes ==
  /\ now \in Nat /\ used \in [Scopes -> Nat] /\ owed \in [Scopes -> Nat]
  /\ counter \in [Scopes -> Nat] /\ admitted \in [Scopes -> Nat]
  /\ attempts = [s \in Scopes |-> attempts[s]] /\ global.failures \in Nat
  /\ \A s \in Scopes : attempts[s].failures \in Nat
  /\ holder = [step |-> holder.step, protocol |-> holder.protocol, scope |-> holder.scope,
               counter |-> holder.counter, last |-> holder.last, rest |-> holder.rest]
  /\ holder.step \in {"none", "matched", "consumed", "accepted"}
  /\ holder.step # "none" =>
       /\ holder.scope \in Scopes /\ holder.counter \in Nat /\ holder.last \in Nat
       /\ holder.rest.failures \in Nat

\* The counters.

\* A code that was accepted is on record, in the file or in an admission.
Recorded == \A s \in Scopes : used[s] <= counter[s] \/ used[s] <= admitted[s]

\* The code in hand is later than all that were accepted, and so is what its
\* giving back leaves; an accepted one is on record where its protocol looks.
InHand ==
  /\ holder.step \in {"matched", "consumed"} =>
       /\ used[holder.scope] <= holder.last /\ holder.last < holder.counter
  /\ holder.step = "consumed" => holder.protocol = 1 /\ counter[holder.scope] = holder.counter
  /\ holder.step = "accepted" =>
       /\ used[holder.scope] <= holder.counter
       /\ used[holder.scope] <= (IF holder.protocol = 1 THEN counter ELSE admitted)[holder.scope]

CountersInv == Shapes /\ Recorded /\ InHand

\* The budgets.

Owed(scope) == IF scope = holder.scope THEN 0 ELSE owed[scope]

\* What a call will leave of the aggregate budget accounts for the other scopes,
\* and once it is accepted there is nothing else to account for.
RestAccounts ==
  /\ holder.step # "none" =>
       /\ holder.rest.failures >= Owed("update") + Owed("backup") + Owed("rollback")
       /\ holder.rest.failures < Threshold => holder.rest.until = 0
  /\ holder.step = "accepted" => owed[holder.scope] = 0

BudgetInv == Shapes /\ GuessesAccounted /\ RestAccounts

--------------------
\* Before the first call nothing is used, owed or in hand.
LEMMA InitShapes == Init => CountersInv /\ BudgetInv
<1> SUFFICES ASSUME Init PROVE CountersInv /\ BudgetInv
  OBVIOUS
<1> USE AuthorizationConstants DEF Init, Shapes, Scopes, Clear, Nobody
<1>1. Shapes
  OBVIOUS
<1>2. Recorded /\ InHand
  BY DEF Recorded, InHand
<1>3. GuessesAccounted
  BY DEF GuessesAccounted
<1>4. RestAccounts
  BY DEF RestAccounts
<1>5. QED
  BY <1>1, <1>2, <1>3, <1>4 DEF CountersInv, BudgetInv



\* What the other scopes account for.
LEMMA RemainingCounts ==
  ASSUME Shapes, NEW scope \in Scopes
  PROVE /\ Remaining(scope).failures \in Nat
        /\ \A s \in Scopes \ {scope} : Remaining(scope).failures >= attempts[s].failures
        /\ Remaining(scope).failures = (IF scope = "update" THEN 0 ELSE attempts["update"].failures)
              + (IF scope = "backup" THEN 0 ELSE attempts["backup"].failures)
              + (IF scope = "rollback" THEN 0 ELSE attempts["rollback"].failures)
<1>1. Remaining(scope).failures = (IF "update" = scope THEN 0 ELSE attempts["update"].failures)
              + (IF "backup" = scope THEN 0 ELSE attempts["backup"].failures)
              + (IF "rollback" = scope THEN 0 ELSE attempts["rollback"].failures)
  BY DEF Remaining
<1>2. \A s \in Scopes : attempts[s].failures \in Nat
  BY DEF Shapes
<1>3. QED
  BY <1>1, <1>2 DEF Scopes

\* What remains below the threshold is not locked (remainingGlobalAttemptState).
LEMMA RemainingUnlocked ==
  ASSUME Shapes, GuessesAccounted, NEW scope \in Scopes, Remaining(scope).failures < Threshold
  PROVE Remaining(scope).until = 0
<1>1. ASSUME NEW s \in Scopes \ {scope} PROVE attempts[s].until = 0
  <2>1. attempts[s].failures < Threshold
    BY RemainingCounts, AuthorizationConstants DEF Shapes
  <2>2. QED
    BY <2>1 DEF GuessesAccounted
<1>2. {0} \cup {attempts[s].until : s \in Scopes \ {scope}} = {0}
  BY <1>1
<1>3. OtherLock(scope) \in {0}
  BY <1>2 DEF OtherLock
<1>4. QED
  BY <1>3 DEF Remaining

\* Every step keeps the shapes.
LEMMA StepShapes == Shapes /\ [Next]_vars => Shapes'
<1> SUFFICES ASSUME Shapes, [Next]_vars PROVE Shapes'
  OBVIOUS
<1> USE AuthorizationConstants DEF Shapes, history, files, Nobody
<1>1. CASE Tick
  BY <1>1 DEF Tick
<1>2. CASE Start
  BY <1>2 DEF Start, Step, Accept
<1>3. CASE Admit
  BY <1>3 DEF Admit, Step, Accept
<1>4. CASE Project
  BY <1>4 DEF Project, Clear
<1>5. CASE Crash
  BY <1>5 DEF Crash, Nobody
<1>6. ASSUME NEW done \in 0 .. 2, Reset(done) PROVE Shapes'
  BY <1>6 DEF Reset, Clear
<1>7. ASSUME NEW done \in 0 .. 2, NEW scope \in Used, Guess(scope, done) PROVE Shapes'
  BY <1>7 DEF Guess, Failed
<1>8. ASSUME NEW saved \in BOOLEAN, Consume(saved) PROVE Shapes'
  BY <1>8 DEF Consume, Step
<1>9. ASSUME NEW scope \in Used, NEW c \in Counters, NEW protocol \in {1, 2}, Match(scope, c, protocol) PROVE Shapes'
  <2>1. scope \in Scopes /\ Remaining(scope).failures \in Nat
    BY RemainingCounts
  <2>2. LastCounter(scope) \in Nat /\ c \in Nat
    BY <2>1 DEF LastCounter, Counters
  <2>3. QED
    BY <1>9, <2>1, <2>2 DEF Match
<1>10. CASE UNCHANGED vars
  BY <1>10 DEF vars
<1>11. QED
  BY <1>1, <1>2, <1>3, <1>4, <1>5, <1>6, <1>7, <1>8, <1>9, <1>10 DEF Next

\* Every step keeps the order of the counters.
LEMMA StepCounters == CountersInv /\ Shapes' /\ [Next]_vars => CountersInv'
<1> SUFFICES ASSUME CountersInv, Shapes', [Next]_vars PROVE Recorded' /\ InHand'
  BY DEF CountersInv
<1> USE AuthorizationConstants DEF CountersInv, Shapes, Recorded, InHand, history, files, Nobody
<1>1. CASE Tick
  BY <1>1 DEF Tick
<1>2. CASE Start
  BY <1>2 DEF Start, Step, Accept
<1>3. CASE Admit
  BY <1>3 DEF Admit, Step, Accept
<1>4. CASE Project
  BY <1>4 DEF Project, Clear
<1>5. CASE Crash
  BY <1>5 DEF Crash, Nobody
<1>6. ASSUME NEW done \in 0 .. 2, Reset(done) PROVE Recorded' /\ InHand'
  BY <1>6 DEF Reset, Clear
<1>7. ASSUME NEW done \in 0 .. 2, NEW scope \in Used, Guess(scope, done) PROVE Recorded' /\ InHand'
  BY <1>7 DEF Guess, Failed
<1>8. ASSUME NEW saved \in BOOLEAN, Consume(saved) PROVE Recorded' /\ InHand'
  BY <1>8 DEF Consume, Step
<1>9. ASSUME NEW scope \in Used, NEW c \in Counters, NEW protocol \in {1, 2}, Match(scope, c, protocol) PROVE Recorded' /\ InHand'
  BY <1>9 DEF Match, LastCounter, Counters
<1>10. CASE UNCHANGED vars
  BY <1>10 DEF vars
<1>11. QED
  BY <1>1, <1>2, <1>3, <1>4, <1>5, <1>6, <1>7, <1>8, <1>9, <1>10 DEF Next

\* Every step keeps the account of the guesses.
LEMMA StepBudget == BudgetInv /\ Shapes' /\ [Next]_vars => BudgetInv'
<1> SUFFICES ASSUME BudgetInv, Shapes', [Next]_vars PROVE GuessesAccounted' /\ RestAccounts'
  BY DEF BudgetInv
<1> USE AuthorizationConstants
    DEF BudgetInv, Shapes, GuessesAccounted, RestAccounts, Owed, Scopes, history, files, Nobody
<1>1. CASE Tick
  BY <1>1 DEF Tick
<1>2. CASE Start
  BY <1>2 DEF Start, Step, Accept
<1>3. CASE Admit
  BY <1>3 DEF Admit, Step, Accept
<1>4. CASE Project
  BY <1>4 DEF Project, Clear
<1>5. CASE Crash
  BY <1>5 DEF Crash, Nobody
<1>6. ASSUME NEW done \in 0 .. 2, Reset(done) PROVE GuessesAccounted' /\ RestAccounts'
  BY <1>6 DEF Reset, Clear
<1>7. ASSUME NEW done \in 0 .. 2, NEW scope \in Used, Guess(scope, done) PROVE GuessesAccounted' /\ RestAccounts'
  BY <1>7 DEF Guess, Failed
<1>8. ASSUME NEW saved \in BOOLEAN, Consume(saved) PROVE GuessesAccounted' /\ RestAccounts'
  BY <1>8 DEF Consume, Step
<1>9. ASSUME NEW scope \in Used, NEW c \in Counters, NEW protocol \in {1, 2}, Match(scope, c, protocol) PROVE GuessesAccounted' /\ RestAccounts'
  <2>1. scope \in Scopes /\ holder'.scope = scope /\ holder'.step = "matched" /\ holder'.rest = Remaining(scope)
    BY <1>9 DEF Match
  <2>2. UNCHANGED <<attempts, global, owed>>
    BY <1>9 DEF Match
  <2>3. Remaining(scope).failures >= Owed("update")' + Owed("backup")' + Owed("rollback")'
    BY <2>1, <2>2, RemainingCounts
  <2>4. Remaining(scope).failures < Threshold => Remaining(scope).until = 0
    BY <2>1, RemainingUnlocked
  <2>5. QED
    BY <2>1, <2>2, <2>3, <2>4
<1>10. CASE UNCHANGED vars
  BY <1>10 DEF vars
<1>11. QED
  BY <1>1, <1>2, <1>3, <1>4, <1>5, <1>6, <1>7, <1>8, <1>9, <1>10 DEF Next

\* Every state of the counters is as above ...
THEOREM CountersInvariant == Spec => []CountersInv
<1>1. Init => CountersInv
  BY InitShapes
<1>2. CountersInv /\ [Next]_vars => CountersInv'
  BY StepShapes, StepCounters DEF CountersInv
<1>3. QED
  BY <1>1, <1>2, PTL DEF Spec

\* ... and so is every state of the budgets.
THEOREM BudgetInvariant == Spec => []BudgetInv
<1>1. Init => BudgetInv
  BY InitShapes
<1>2. BudgetInv /\ [Next]_vars => BudgetInv'
  BY StepShapes, StepBudget DEF BudgetInv
<1>3. QED
  BY <1>1, <1>2, PTL DEF Spec

\* The codes of a scope are accepted in the order of their counters, so each at most
\* once, by either protocol (README.md:72, operation/coordination.go:216).
THEOREM CodesAreUsedOnce == Spec => OneUsePerCode
<1> DEFINE Ordered ==
      holder.step # "accepted" /\ holder'.step = "accepted" =>
        /\ holder.counter > used[holder.scope]
        /\ holder.protocol = 2 => InWindow(holder.counter)
<1>1. CountersInv /\ [Next]_vars => [Ordered]_vars
  <2> SUFFICES ASSUME CountersInv, Next, holder.step # "accepted", holder'.step = "accepted"
               PROVE holder.counter > used[holder.scope]
                     /\ (holder.protocol = 2 => InWindow(holder.counter))
    OBVIOUS
  <2> USE DEF CountersInv, Shapes, InHand
  <2>1. CASE Start
    <3>1. holder.step = "consumed" /\ holder.protocol = 1
      BY <2>1 DEF Start
    <3>2. holder.counter > used[holder.scope]
      BY <3>1
    <3>3. QED
      BY <3>1, <3>2
  <2>2. CASE Admit
    <3>1. holder.step = "matched" /\ (InWindow(holder.counter) \/ holder' = Nobody)
      BY <2>2 DEF Admit
    <3>2. InWindow(holder.counter)
      BY <3>1 DEF Nobody
    <3>3. holder.counter > used[holder.scope]
      BY <3>1
    <3>4. QED
      BY <3>2, <3>3
  <2>3. CASE Tick
    BY <2>3 DEF Tick
  <2>4. CASE Project \/ Crash
    BY <2>4 DEF Project, Crash, Nobody
  <2>5. ASSUME NEW done \in 0 .. 2, Reset(done) PROVE FALSE
    BY <2>5 DEF Reset, Nobody
  <2>6. ASSUME NEW done \in 0 .. 2, NEW scope \in Used, Guess(scope, done) PROVE FALSE
    BY <2>6 DEF Guess
  <2>7. ASSUME NEW saved \in BOOLEAN, Consume(saved) PROVE FALSE
    BY <2>7 DEF Consume, Step, Nobody
  <2>8. ASSUME NEW scope \in Used, NEW c \in Counters, NEW protocol \in {1, 2}, Match(scope, c, protocol)
        PROVE FALSE
    BY <2>8 DEF Match
  <2>9. QED
    BY <2>1, <2>2, <2>3, <2>4, <2>5, <2>6, <2>7, <2>8 DEF Next
<1>2. QED
  BY <1>1, CountersInvariant, PTL DEF Spec, OneUsePerCode

\* No answered guess is forgotten before its own scope accepts a code
\* (README.md:72; recordInvalidAttempt, resetInvalidAttempts).
THEOREM GuessesAreAccounted == Spec => []GuessesAccounted
<1>1. BudgetInv => GuessesAccounted
  BY DEF BudgetInv
<1>2. QED
  BY BudgetInvariant, <1>1, PTL
=============================================================================
