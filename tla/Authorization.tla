---------------------------- MODULE Authorization ----------------------------
(***************************************************************************)
(* Mutation authorization of one instance (internal/authorization): one-time *)
(* codes of three scopes, the counters that were consumed, and the budget of *)
(* invalid guesses with its lockouts.                                      *)
(*                                                                         *)
(* Every call runs under an exclusive flock of mutation.lock, but it makes  *)
(* several durable writes, time passes while it runs, and the process may   *)
(* die between two of them.  A v1 call consumes the counter and then starts *)
(* the operation; a v2 call (admission) binds the counter to a durable       *)
(* admission, which is the authority, and treats the files as projections.  *)
(*                                                                         *)
(* Time is counted in code periods of 30 seconds.  A code is identified with *)
(* its scope and counter; a guess that matches no counter of the window is  *)
(* a wrong one.                                                            *)
(***************************************************************************)
EXTENDS Integers

CONSTANTS
  Used,         \* the scopes that clients use, among Scopes
  Threshold,    \* invalid guesses before a lockout (5)
  BaseLockout,  \* its length in periods (30, i.e. 15 minutes)
  MaxLockout,   \* the longest lockout in periods (2880, i.e. 24 hours)
  MaxTime,      \* bound: periods explored
  MaxFailures   \* bound: failures counted by a file, whose reader takes no more than a million

Scopes == {"update", "backup", "rollback"}

ASSUME AuthorizationConstants ==
  /\ Threshold \in Nat \ {0}
  /\ BaseLockout \in Nat \ {0} /\ MaxLockout \in Nat /\ BaseLockout <= MaxLockout
  /\ MaxTime \in Nat /\ MaxFailures \in Nat /\ MaxFailures <= 1000000
  /\ Used \subseteq Scopes

VARIABLES
  now,       \* current period
  counter,   \* mutation.<scope>.counter; 0 when the file does not exist
  admitted,  \* the highest counter bound by an admission of the scope; 0 for none
  attempts,  \* mutation.<scope>.attempts
  global,    \* mutation.attempts
  holder,    \* the call that holds mutation.lock
  used,      \* history: the last counter that was accepted, by scope
  owed       \* history: guesses of a scope answered since it last accepted a code

vars == <<now, counter, admitted, attempts, global, holder, used, owed>>
history == <<used, owed>>
files == <<counter, admitted, attempts, global>>

Counters == 1 .. MaxTime + 1

Clear == [failures |-> 0, until |-> 0]

Nobody == [step |-> "none", protocol |-> 0, scope |-> "none", counter |-> 0, last |-> 0,
           rest |-> Clear]

--------------------
(* Decisions.                                                               *)

\* Faulty: the consumed counter is read from its file alone.
FileCounter(scope) == counter[scope]

\* The last consumed counter: of the file or of the admissions, the higher.
LastCounter(scope) ==
  IF admitted[scope] > counter[scope] THEN admitted[scope] ELSE counter[scope]

Locked(scope) == global.until > now \/ attempts[scope].until > now

Delay(failures) ==
  LET exponent == IF failures - Threshold > 16 THEN 16 ELSE failures - Threshold
      delay == BaseLockout * 2 ^ exponent
  IN IF delay > MaxLockout THEN MaxLockout ELSE delay

\* nextInvalidAttemptState.  MaxFailures stays within the 1,000,000 failures above which
\* a file is refused and what remains is capped (service.go:451, :509).
Failed(state) ==
  [failures |-> state.failures + 1,
   until |-> IF state.failures + 1 >= Threshold THEN now + Delay(state.failures + 1) ELSE 0]

\* The longest lockout that the other scopes are in.
OtherLock(scope) ==
  LET untils == {0} \cup {attempts[s].until : s \in Scopes \ {scope}}
  IN CHOOSE u \in untils : \A v \in untils : v <= u

\* Faulty: the aggregate failures start over with every accepted code.
ForgetGlobal(scope) == Clear

\* remainingGlobalAttemptState: what the other scopes still account for.
Remaining(scope) ==
  LET Other(s) == IF s = scope THEN 0 ELSE attempts[s].failures
  IN [failures |-> Other("update") + Other("backup") + Other("rollback"),
      until |-> OtherLock(scope)]

\* The window a code is accepted in, on either side of the current period.
InWindow(c) == c \in now - 1 .. now + 1

--------------------
(* Calls.                                                                  *)

Tick ==
  /\ now < MaxTime
  /\ now' = now + 1
  /\ UNCHANGED <<files, holder, history>>

\* recordInvalidAttempt, with the number of its writes that were made.
Guess(scope, done) ==
  /\ holder = Nobody /\ ~Locked(scope)
  /\ global.failures < MaxFailures /\ attempts[scope].failures < MaxFailures
  /\ global' = IF done >= 1 THEN Failed(global) ELSE global
  /\ attempts' = IF done = 2 THEN [attempts EXCEPT ![scope] = Failed(@)] ELSE attempts
  /\ owed' = IF done = 2 THEN [owed EXCEPT ![scope] = @ + 1] ELSE owed
  /\ UNCHANGED <<now, counter, admitted, holder, used>>

\* A code of the window that was not consumed: the lock is held from here on, and
\* what will remain of the aggregate budget is computed now.
Match(scope, c, protocol) ==
  /\ holder = Nobody /\ ~Locked(scope)
  /\ InWindow(c) /\ c > LastCounter(scope)
  /\ holder' = [step |-> "matched", protocol |-> protocol, scope |-> scope, counter |-> c,
                last |-> LastCounter(scope), rest |-> Remaining(scope)]
  /\ UNCHANGED <<now, files, history>>

Step(name) == holder' = [holder EXCEPT !.step = name]

Accept ==
  /\ used' = [used EXCEPT ![holder.scope] = holder.counter]
  /\ owed' = [owed EXCEPT ![holder.scope] = 0]

\* v1: the counter file is replaced; an error may come after that.
Consume(saved) ==
  /\ holder.step = "matched" /\ holder.protocol = 1
  /\ \/ counter' = [counter EXCEPT ![holder.scope] = holder.counter]
        /\ IF saved THEN Step("consumed") ELSE holder' = Nobody
     \/ ~saved /\ holder' = Nobody /\ UNCHANGED counter
  /\ UNCHANGED <<now, admitted, attempts, global, history>>

\* v1: the operation starts, or it does not and the code is given back.
Start ==
  /\ holder.step = "consumed"
  /\ \/ Accept /\ Step("accepted") /\ UNCHANGED counter
     \/ /\ \/ counter' = [counter EXCEPT ![holder.scope] = holder.last]
           \/ UNCHANGED counter
        /\ holder' = Nobody /\ UNCHANGED <<used, owed>>
  /\ UNCHANGED <<now, admitted, attempts, global>>

\* v1: the budgets are cleared; "done" of the two writes are made.
Reset(done) ==
  /\ holder.step = "accepted" /\ holder.protocol = 1
  /\ attempts' = IF done >= 1 THEN [attempts EXCEPT ![holder.scope] = Clear] ELSE attempts
  /\ global' = IF done = 2 THEN holder.rest ELSE global
  /\ holder' = Nobody
  /\ UNCHANGED <<now, counter, admitted, history>>

\* v2: the plan and the deployment are checked again, which takes time; then the
\* window is checked again and the admission that names the counter is created.
Admit ==
  /\ holder.step = "matched" /\ holder.protocol = 2
  /\ \/ InWindow(holder.counter)
        /\ admitted' = [admitted EXCEPT ![holder.scope] = holder.counter]
        /\ Accept /\ Step("accepted")
     \/ holder' = Nobody /\ UNCHANGED <<admitted, used, owed>>
  /\ UNCHANGED <<now, counter, attempts, global>>

\* v2: each projection is written if it can be, in order, and errors are ignored.
Project ==
  /\ holder.step = "accepted" /\ holder.protocol = 2
  /\ counter' \in {counter, [counter EXCEPT ![holder.scope] = holder.counter]}
  /\ attempts' \in {attempts, [attempts EXCEPT ![holder.scope] = Clear]}
  /\ global' \in {global} \cup {holder.rest}
  /\ holder' = Nobody
  /\ UNCHANGED <<now, admitted, history>>

\* The process dies and the flock is gone.
Crash ==
  /\ holder # Nobody
  /\ holder' = Nobody
  /\ UNCHANGED <<now, files, history>>

--------------------

Init ==
  /\ now = 1
  /\ counter = [s \in Scopes |-> 0] /\ admitted = [s \in Scopes |-> 0]
  /\ attempts = [s \in Scopes |-> Clear] /\ global = Clear
  /\ holder = Nobody
  /\ used = [s \in Scopes |-> 0]
  /\ owed = [s \in Scopes |-> 0]

Next ==
  \/ Tick \/ Start \/ Admit \/ Project \/ Crash
  \/ \E done \in 0 .. 2 : Reset(done) \/ \E scope \in Used : Guess(scope, done)
  \/ \E saved \in BOOLEAN : Consume(saved)
  \/ \E scope \in Used, c \in Counters, protocol \in {1, 2} : Match(scope, c, protocol)

Spec == Init /\ [][Next]_vars

--------------------
(* Properties                                                              *)

Attempts == [failures : Nat, until : Nat]

\* Every file and the call in progress stay within their types.
TypeOK ==
  /\ now \in 1 .. MaxTime
  /\ counter \in [Scopes -> 0 .. MaxTime + 1]
  /\ admitted \in [Scopes -> 0 .. MaxTime + 1]
  /\ attempts \in [Scopes -> Attempts] /\ global \in Attempts
  /\ holder \in [step : {"none", "matched", "consumed", "accepted"}, protocol : 0 .. 2,
                 scope : Scopes \cup {"none"}, counter : 0 .. MaxTime + 1,
                 last : 0 .. MaxTime + 1, rest : Attempts]
  /\ used \in [Scopes -> 0 .. MaxTime + 1] /\ owed \in [Scopes -> Nat]

\* The codes of a scope are accepted in the order of their counters, so each at most
\* once, by either protocol, whichever writes fail and whenever the process dies; and
\* an admission is made while its code's window lasts, however long ago the code was
\* checked (README.md:72 "Accepted counters are persisted separately and consumed
\* once"; docs/updater-coordination-v2.md:24; operation/coordination.go:216).
OneUsePerCode ==
  [][ holder.step # "accepted" /\ holder'.step = "accepted" =>
        /\ holder.counter > used[holder.scope]
        /\ holder.protocol = 2 => InWindow(holder.counter) ]_vars

\* No answered guess is forgotten before its own scope accepts a code: the scope and
\* the aggregate budget both account for it, whichever write of a guess or of a
\* cleanup failed, in files that readAttemptState accepts, or every later call would
\* fail (service.go:451, 458 and 493; README.md:72 "failures from other scopes remain
\* in the aggregate anti-spray budget").
GuessesAccounted ==
  /\ \A s \in Scopes : attempts[s].failures >= owed[s]
  /\ global.failures >= owed["update"] + owed["backup"] + owed["rollback"]
  /\ \A state \in {global} \cup {attempts[s] : s \in Scopes} :
       state.failures < Threshold => state.until = 0

==============================================================================
