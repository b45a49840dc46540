----------------------- MODULE ReleaseTransactionProofs -----------------------
(***************************************************************************)
(* Proofs about updates with an upgrade plan, for any number of operations *)
(* and of faults: queues never run in two homes, what is called rolled     *)
(* back online is served by the source alone, a point is restored only     *)
(* while no upgrade runs and, unless the ingress was left at the wrong     *)
(* home, only if nobody wrote, and only the drain that reconciliation      *)
(* repeats can stop a home that serves.  Until a third fault that drain    *)
(* cannot either, and an online release is served through any reboot;      *)
(* until a fourth a point is never restored over what users wrote.         *)
(*                                                                         *)
(* The worker acts on its copy of the journal, and the next worker on the  *)
(* file, which may be older by any write that failed.  The invariant       *)
(* therefore says, for each position of the worker, what has been done to  *)
(* the site, and separately what the file still allows: while queues run   *)
(* in a home that the identity no longer names, it is that of an           *)
(* unfinished online release whose drain was not recorded (Astray).  A     *)
(* second invariant counts: how many faults it takes until the file calls  *)
(* a release arrived whose traffic is switched back (LagInv).  There is    *)
(* one lemma for each part of both, with one case for each action.         *)
(***************************************************************************)
EXTENDS ReleaseTransaction, TLAPS

--------------------
(* Where the worker is.                                                     *)

\* The worker holds a journal that it works on.
Live ==
  \/ pc.step \notin {"idle", "preflight", "switch-back", "finish", "settle"}
  \/ pc.step = "switch-back" /\ pc.phase = "observe"

\* The identity still names the source of the release, or names its candidate.
Before ==
  \/ pc.step \in {"pull", "quiesce", "backup", "upgrade", "candidate"}
  \/ pc.step = "switch" /\ pc.phase # "end"
After ==
  \/ pc.step = "switch" /\ pc.phase = "end"
  \/ pc.step \in {"workers", "observe", "drain"}

\* A maintenance release has drained both homes, and started no workers yet.
Quiet ==
  \/ pc.step = "quiesce" /\ pc.phase = "end"
  \/ pc.step \in {"backup", "upgrade", "candidate", "switch"}
  \/ pc.step = "workers" /\ pc.phase # "end"

\* The workers of the candidate may run, or those of the source.
Moved ==
  \/ pc.step = "workers" /\ pc.phase = "end"
  \/ pc.step \in {"observe", "drain"}
Unmoved ==
  \/ pc.step = "switch" /\ pc.phase = "end"
  \/ pc.step = "workers" /\ pc.phase \in {"begin", "run"}

\* The switch back has come past one of these phases.
Back(phases) == pc.step = "back" /\ pc.phase \in phases

--------------------
(* The inductive invariant.                                                 *)

\* The steps and phases that the worker combines, and the kind of release each
\* belongs to.
PhaseInv ==
  /\ pc.phase \in {"begin", "end"} => pc.step \in Steps
  /\ pc.phase = "succeed" => pc.step \in {"drain", "redrain"}
  /\ pc.phase \in {"conf", "reload", "version", "instance"} => pc.step \in {"switch", "back"}
  /\ pc.step = "workers" => pc.phase \in {"begin", "run", "start", "end"}
  /\ pc.step = "back" =>
       pc.phase \in {"drain", "start", "conf", "reload", "version", "instance", "work", "wait", "close"}
  /\ pc.step \in {"finish", "settle"} => pc.phase \in Terminal \cup {"running", "held"}
  /\ pc.step \in {"quiesce", "backup", "data", "source"} => mem.strategy = "maintenance"
  /\ pc.step \in {"back", "redrain"} => mem.strategy = "online"
  /\ pc.step = "switch-back" /\ pc.phase = "observe" => mem.strategy = "online"
  /\ pc.step = "drain" /\ pc.phase # "succeed" => mem.strategy = "online" \/ mem.source # "site"

\* A journal of a release between two homes, of which the identity names one.
Paired(j) == j.candidate = OtherSlot(j.source) /\ (j.strategy = "online" => j.source # "site")
Belongs(j) == Paired(j) /\ active \in {j.source, j.candidate}
\* It is unfinished, and its drain was not recorded.
Open(j) == j.status \in {"running", "held"} /\ j.stage \notin {"drain", "succeeded"}

\* The copy and the file are of one release, unfinished in both until the worker saves
\* a result.
JournalInv ==
  /\ tx = NoJournal \/ Belongs(tx)
  /\ Live => /\ Belongs(mem) /\ tx.status \notin {"failed", "rolled_back"}
             /\ mem.strategy = tx.strategy /\ mem.source = tx.source /\ mem.candidate = tx.candidate
  /\ pc.step = "preflight" => Belongs(mem) /\ mem.source = active /\ Open(mem)
  /\ Before => Open(tx) /\ Open(mem)

\* Queues and the scheduler run, or would come back, in these homes only.
WorkIn(homes) == \A home \in Homes : <<home, "work">> \in up \cup auto => home \in homes

\* Between the switch of the identity and the move of the workers.
Astray(j) == j.strategy = "online" /\ Open(j) /\ active = j.candidate /\ WorkIn({j.source})

\* Where queues may run at each position.
WorkInv ==
  /\ WorkIn({active}) \/ Astray(tx)
  /\ Live => WorkIn({active}) \/ Astray(mem)
  /\ Before => active = mem.source /\ WorkIn({mem.source})
  /\ After => active = mem.candidate
  /\ Quiet /\ mem.strategy = "maintenance" => WorkIn({})
  /\ Unmoved => WorkIn({mem.source})
  /\ pc.step = "workers" /\ pc.phase = "start" => WorkIn({})
  /\ Moved => WorkIn({mem.candidate})
  /\ pc.step = "redrain" => WorkIn({active})
  /\ Back({"start", "conf", "reload", "version", "instance", "work", "wait", "close"}) =>
       WorkIn({mem.source})

\* Nothing of the single deployment runs, or would come back, once it is left.
NoSite == \A group \in Groups : <<"site", group>> \notin up \cup auto
SiteInv ==
  /\ conf = "none" => live = "site"
  /\ pc.phase = "reload" => conf # "none"
  /\ active # "site" => NoSite
  /\ Quiet /\ mem.source = "site" => NoSite

\* What a switch back has done so far.
BackInv ==
  /\ Back({"reload", "version", "instance", "work", "wait", "close"}) => conf = mem.source
  /\ Back({"version", "instance", "work", "wait", "close"}) => live = mem.source
  /\ Back({"instance", "work", "wait", "close"}) => version = mem.source
  /\ Back({"work", "wait", "close"}) => active = mem.source
  /\ Back({"conf", "reload", "version", "instance", "work", "wait", "close"}) =>
       <<mem.source, "http">> \in up \cap auto
  /\ Back({"wait", "close"}) => <<mem.source, "work">> \in up \cap auto

\* One home has everything.
Complete(home) ==
  /\ {live, conf, version, active} = {home}
  /\ up = {home} \X Groups /\ auto = up

Final == pc.step = "fail" /\ pc.phase = "final"
\* A result that says rolled back is known to the worker only at the end, and is true.
RolledInv ==
  /\ tx.strategy = "online" /\ tx.status = "rolled_back" => Complete(tx.source)
  /\ Final /\ mem.strategy = "online" /\ mem.status = "rolled_back" => Complete(mem.source)
  /\ Live /\ ~Final => mem.status \notin {"failed", "rolled_back"}

\* An upgrade container runs on only under an unfinished journal, and the worker, if
\* there is one, has not come past the wait for it.
UpgradeInv ==
  migrating => /\ Open(tx)
               /\ Live => pc.step = "fail" /\ pc.phase \in {"journal", "wait"} /\ Open(mem)

\* Traffic is at the candidate, or on its way there.
Pointing ==
  \/ pc.step = "switch" /\ pc.phase \in {"reload", "version", "instance", "end"}
  \/ pc.step \in {"workers", "observe", "drain"}

\* Every ingress worker from before a switch is known to the release that waits for it.
TrafficInv ==
  /\ Pointing => conf = mem.candidate
  /\ Pointing /\ pc.phase # "reload" => live = mem.candidate /\ inflight \subseteq mem.old
  /\ Pointing /\ pc.phase = "reload" => (inflight \cup {live}) \ {"site"} \subseteq mem.old
  /\ Back({"reload"}) => inflight \cup {live} \subseteq workers
  /\ Back({"version", "instance", "work", "wait"}) => inflight \subseteq workers
  /\ Back({"close"}) => inflight = {}
  /\ pc.step = "drain" /\ pc.phase = "close" => inflight = {}

\* From the recovery point on, until traffic is opened, the source serves nobody.
Undoable == mem.strategy = "maintenance" /\ mem.point /\ ~mem.opened
ClosedInv ==
  /\ Quiet /\ pc.step \in {"quiesce", "backup"} => <<mem.source, "http">> \notin up
  /\ Live /\ Undoable =>
       /\ active = mem.source /\ WorkIn({}) /\ <<mem.source, "http">> \notin up
       /\ live = mem.source => data # "written"
  /\ pc.step = "data" => Undoable
  /\ pc.step = "preflight" => ~mem.point
  /\ After => mem.opened
  /\ pc.step = "switch" /\ pc.phase \in {"conf", "reload", "version", "instance"} => mem.opened
  /\ pc.step = "source" /\ pc.phase = "start" => mem.opened

Inv == /\ TypeOK /\ PhaseInv /\ JournalInv /\ WorkInv /\ SiteInv /\ BackInv /\ RolledInv
       /\ UpgradeInv /\ TrafficInv /\ ClosedInv

--------------------
(* The journal and the operation record, edited.                            *)

USE ReleaseConstants DEF At, Idle, Finish, Goes, Fault, containers, ingress, identity, site

\* One field of a journal changed is a journal.
LEMMA EditedJournal ==
  ASSUME NEW j \in Journal,
         NEW op \in 0 .. MaxOps, NEW status \in Terminal \cup {"running", "held"},
         NEW stage \in Steps \cup {"none", "resume", "switch-back", "succeeded"},
         NEW old \in SUBSET Homes
  PROVE  /\ [j EXCEPT !.status = status] \in Journal
         /\ [j EXCEPT !.stage = stage] \in Journal
         /\ [j EXCEPT !.opened = TRUE] \in Journal
         /\ [j EXCEPT !.point = TRUE] \in Journal
         /\ [j EXCEPT !.old = old] \in Journal
<1>1. j = [op |-> j.op, status |-> j.status, stage |-> j.stage, strategy |-> j.strategy,
           source |-> j.source, candidate |-> j.candidate, opened |-> j.opened, old |-> j.old,
           point |-> j.point]
  BY DEF Journal
<1>2. /\ j.op \in 0 .. MaxOps /\ j.status \in Terminal \cup {"running", "held"}
      /\ j.stage \in Steps \cup {"none", "resume", "switch-back", "succeeded"}
      /\ j.strategy \in {"online", "maintenance"} /\ j.source \in Homes /\ j.candidate \in Homes
      /\ j.opened \in BOOLEAN /\ j.old \in SUBSET Homes /\ j.point \in BOOLEAN
  BY DEF Journal
<1>3. [j EXCEPT !.status = status] \in Journal
  BY <1>1, <1>2 DEF Journal
<1>4. [j EXCEPT !.stage = stage] \in Journal
  BY <1>1, <1>2 DEF Journal
<1>5. [j EXCEPT !.opened = TRUE] \in Journal
  BY <1>1, <1>2 DEF Journal
<1>6. [j EXCEPT !.point = TRUE] \in Journal
  BY <1>1, <1>2 DEF Journal
<1>7. [j EXCEPT !.old = old] \in Journal
  BY <1>1, <1>2 DEF Journal
<1> QED
  BY <1>3, <1>4, <1>5, <1>6, <1>7

\* So are several fields changed at once.
LEMMA ComposedJournal ==
  ASSUME NEW j \in Journal,
         NEW op \in 0 .. MaxOps, NEW status \in Terminal \cup {"running", "held"},
         NEW stage \in Steps \cup {"none", "resume", "switch-back", "succeeded"}
  PROVE  /\ [j EXCEPT !.status = status, !.stage = stage] \in Journal
         /\ [j EXCEPT !.op = op, !.status = status, !.stage = stage] \in Journal
         /\ [j EXCEPT !.stage = stage, !.opened = TRUE] \in Journal
         /\ [j EXCEPT !.stage = stage, !.opened = TRUE, !.status = status] \in Journal
<1>a. j = [op |-> j.op, status |-> j.status, stage |-> j.stage, strategy |-> j.strategy,
           source |-> j.source, candidate |-> j.candidate, opened |-> j.opened, old |-> j.old,
           point |-> j.point]
  BY DEF Journal
<1>b. /\ j.op \in 0 .. MaxOps /\ j.status \in Terminal \cup {"running", "held"}
      /\ j.stage \in Steps \cup {"none", "resume", "switch-back", "succeeded"}
      /\ j.strategy \in {"online", "maintenance"} /\ j.source \in Homes /\ j.candidate \in Homes
      /\ j.opened \in BOOLEAN /\ j.old \in SUBSET Homes /\ j.point \in BOOLEAN
  BY DEF Journal
<1>1. [j EXCEPT !.status = status, !.stage = stage] \in Journal
  BY <1>a, <1>b DEF Journal
<1>2. [j EXCEPT !.op = op, !.status = status, !.stage = stage] \in Journal
  BY <1>a, <1>b DEF Journal
<1>3. [j EXCEPT !.stage = stage, !.opened = TRUE] \in Journal
  <2> DEFINE k == [j EXCEPT !.stage = stage]
  <2>1. k \in Journal
    BY EditedJournal
  <2>2. [k EXCEPT !.opened = TRUE] \in Journal
    <3> HIDE DEF k
    <3> QED
      BY <2>1, EditedJournal
  <2> QED
    BY <2>2
<1>4. [j EXCEPT !.stage = stage, !.opened = TRUE, !.status = status] \in Journal
  <2>1. [j EXCEPT !.stage = stage, !.opened = TRUE, !.status = status]
          = [[j EXCEPT !.stage = stage, !.opened = TRUE] EXCEPT !.status = status]
    BY DEF Journal
  <2> QED
    BY <2>1, <1>3, EditedJournal
<1> QED
  BY <1>1, <1>2, <1>3, <1>4

\* The step after each step of a plan.
LEMMA NextOf ==
  ASSUME mem \in Journal, pc.step \in Steps,
         pc.step \in {"quiesce", "backup"} => mem.strategy = "maintenance",
         pc.step = "drain" => mem.strategy = "online" \/ mem.source # "site"
  PROVE  \/ pc.step = "pull" /\ mem.strategy = "online" /\ NextStep(mem) = At("upgrade", "begin")
         \/ pc.step = "pull" /\ mem.strategy = "maintenance" /\ NextStep(mem) = At("quiesce", "begin")
         \/ pc.step = "quiesce" /\ NextStep(mem) = At("backup", "begin")
         \/ pc.step = "backup" /\ NextStep(mem) = At("upgrade", "begin")
         \/ pc.step = "upgrade" /\ NextStep(mem) = At("candidate", "begin")
         \/ pc.step = "candidate" /\ NextStep(mem) = At("switch", "begin")
         \/ pc.step = "switch" /\ NextStep(mem) = At("workers", "begin")
         \/ pc.step = "workers" /\ NextStep(mem) = At("observe", "begin")
         \/ /\ pc.step = "observe" /\ mem.strategy = "maintenance" /\ mem.source = "site"
            /\ NextStep(mem) = At("drain", "succeed")
         \/ /\ pc.step = "observe" /\ (mem.strategy = "online" \/ mem.source # "site")
            /\ NextStep(mem) = At("drain", "begin")
         \/ pc.step = "drain" /\ NextStep(mem) = At("drain", "succeed")
<1> DEFINE plan == Plan(mem)
<1> DEFINE i == CHOOSE n \in 1 .. Len(plan) : plan[n] = pc.step
<1>0. NextStep(mem) = IF i < Len(plan) THEN At(plan[i + 1], "begin") ELSE At("drain", "succeed")
  BY DEF NextStep
<1>1. CASE mem.strategy = "online"
  <2>1. plan = <<"pull", "upgrade", "candidate", "switch", "workers", "observe", "drain">>
    BY <1>1 DEF Plan
  <2>2. i \in 1 .. 7 /\ plan[i] = pc.step
    BY <2>1, <1>1 DEF Steps
  <2> HIDE DEF plan, i
  <2>3. Len(plan) = 7
    BY <2>1
  <2>4. /\ (i = 1 => pc.step = "pull") /\ plan[1] = "pull"
        /\ (i = 2 => pc.step = "upgrade") /\ plan[2] = "upgrade"
        /\ (i = 3 => pc.step = "candidate") /\ plan[3] = "candidate"
        /\ (i = 4 => pc.step = "switch") /\ plan[4] = "switch"
        /\ (i = 5 => pc.step = "workers") /\ plan[5] = "workers"
        /\ (i = 6 => pc.step = "observe") /\ plan[6] = "observe"
        /\ (i = 7 => pc.step = "drain") /\ plan[7] = "drain"
    BY <2>1, <2>2
  <2> QED
    BY <1>0, <1>1, <2>2, <2>3, <2>4 DEF At
<1>2. CASE mem.strategy = "maintenance" /\ mem.source = "site"
  <2>1. plan = <<"pull", "quiesce", "backup", "upgrade", "candidate", "switch", "workers", "observe">>
    BY <1>2 DEF Plan
  <2>2. i \in 1 .. 8 /\ plan[i] = pc.step
    BY <2>1, <1>2 DEF Steps
  <2> HIDE DEF plan, i
  <2>3. Len(plan) = 8
    BY <2>1
  <2>4. /\ (i = 1 => pc.step = "pull") /\ plan[1] = "pull"
        /\ (i = 2 => pc.step = "quiesce") /\ plan[2] = "quiesce"
        /\ (i = 3 => pc.step = "backup") /\ plan[3] = "backup"
        /\ (i = 4 => pc.step = "upgrade") /\ plan[4] = "upgrade"
        /\ (i = 5 => pc.step = "candidate") /\ plan[5] = "candidate"
        /\ (i = 6 => pc.step = "switch") /\ plan[6] = "switch"
        /\ (i = 7 => pc.step = "workers") /\ plan[7] = "workers"
        /\ (i = 8 => pc.step = "observe") /\ plan[8] = "observe"
    BY <2>1, <2>2
  <2> QED
    BY <1>0, <1>2, <2>2, <2>3, <2>4 DEF At
<1>3. CASE mem.strategy = "maintenance" /\ mem.source # "site"
  <2>1. plan = <<"pull", "quiesce", "backup", "upgrade", "candidate", "switch", "workers", "observe",
                 "drain">>
    BY <1>3 DEF Plan
  <2>2. i \in 1 .. 9 /\ plan[i] = pc.step
    BY <2>1, <1>3 DEF Steps
  <2> HIDE DEF plan, i
  <2>3. Len(plan) = 9
    BY <2>1
  <2>4. /\ (i = 1 => pc.step = "pull") /\ plan[1] = "pull"
        /\ (i = 2 => pc.step = "quiesce") /\ plan[2] = "quiesce"
        /\ (i = 3 => pc.step = "backup") /\ plan[3] = "backup"
        /\ (i = 4 => pc.step = "upgrade") /\ plan[4] = "upgrade"
        /\ (i = 5 => pc.step = "candidate") /\ plan[5] = "candidate"
        /\ (i = 6 => pc.step = "switch") /\ plan[6] = "switch"
        /\ (i = 7 => pc.step = "workers") /\ plan[7] = "workers"
        /\ (i = 8 => pc.step = "observe") /\ plan[8] = "observe"
        /\ (i = 9 => pc.step = "drain") /\ plan[9] = "drain"
    BY <2>1, <2>2
  <2> QED
    BY <1>0, <1>3, <2>2, <2>3, <2>4 DEF At
<1> QED
  BY <1>1, <1>2, <1>3 DEF Journal
Operations ==
  [op : 0 .. MaxOps, kind : {"update", "switch-back"}, status : Terminal \cup {"running", "held"},
   staged : BOOLEAN]

\* The operation record, edited.
LEMMA EditedOperation ==
  ASSUME NEW r \in Operations,
         NEW status \in Terminal \cup {"running", "held"}, NEW staged \in BOOLEAN
  PROVE  /\ [r EXCEPT !.staged = staged] \in Operations
         /\ [r EXCEPT !.status = status, !.staged = staged] \in Operations
<1>1. r = [op |-> r.op, kind |-> r.kind, status |-> r.status, staged |-> r.staged]
  BY DEF Operations
<1> QED
  BY <1>1 DEF Operations

\* A switch back takes over the journal of a finished online release, or refuses.
LEMMA SwitchBackEffect ==
  ASSUME TypeOK, SwitchBack
  PROVE  /\ UNCHANGED <<rec, workers, site>>
         /\ \/ UNCHANGED <<tx, mem>> /\ pc' = Finish("failed")
            \/ /\ ~Replaced /\ tx.strategy = "online" /\ tx.status = "succeeded" /\ active = tx.candidate
               /\ mem'.strategy = tx.strategy /\ mem'.source = tx.source
               /\ mem'.candidate = tx.candidate
               /\ mem'.status = "running" /\ mem'.stage = "switch-back"
               /\ \/ tx' = mem' /\ pc' = At("switch-back", "observe")
                  \/ tx' \in {tx, mem'} /\ pc' = Finish("failed")
<1>1. CASE Replaced \/ tx.strategy # "online" \/ tx.status # "succeeded" \/ active # tx.candidate
  BY <1>1 DEF SwitchBack
<1>2. CASE ~(Replaced \/ tx.strategy # "online" \/ tx.status # "succeeded" \/ active # tx.candidate)
  <2>1. mem' = [tx EXCEPT !.op = rec.op, !.status = "running", !.stage = "switch-back"]
    BY <1>2 DEF SwitchBack
  <2>2. /\ mem'.strategy = tx.strategy /\ mem'.source = tx.source /\ mem'.candidate = tx.candidate
        /\ mem'.status = "running" /\ mem'.stage = "switch-back"
    BY <2>1 DEF TypeOK, Journal
  <2>3. \/ tx' = mem' /\ pc' = At("switch-back", "observe")
        \/ tx' \in {tx, mem'} /\ pc' = Finish("failed")
    BY <1>2 DEF SwitchBack, Save
  <2> QED
    BY <1>2, <2>2, <2>3 DEF SwitchBack
<1> QED
  BY <1>1, <1>2

\* The beginning of a step changes the stage alone.
LEMMA BeginEffect ==
  ASSUME TypeOK, Begin
  PROVE  /\ UNCHANGED <<rec, workers, site>> /\ pc.phase = "begin" /\ tx' \in {tx, mem'}
         /\ mem'.strategy = mem.strategy /\ mem'.source = mem.source
         /\ mem'.candidate = mem.candidate /\ mem'.status = mem.status /\ mem'.stage = pc.step
         /\ mem'.opened = mem.opened /\ mem'.point = mem.point /\ mem'.old = mem.old
         /\ \/ pc' = At(pc.step, "run")
            \/ pc' = At("fail", "journal") /\ faults' = faults + 1
<1>1. mem' = [mem EXCEPT !.stage = pc.step]
  BY DEF Begin
<1>2. /\ mem'.strategy = mem.strategy /\ mem'.source = mem.source
      /\ mem'.candidate = mem.candidate /\ mem'.status = mem.status /\ mem'.stage = pc.step
      /\ mem'.opened = mem.opened /\ mem'.point = mem.point /\ mem'.old = mem.old
  BY <1>1 DEF TypeOK, Journal
<1> QED
  BY <1>2 DEF Begin, Save

\* The last save.
LEMMA SucceedEffect ==
  ASSUME TypeOK, Succeed
  PROVE  /\ UNCHANGED <<rec, workers, site>> /\ pc.phase = "succeed" /\ tx' \in {tx, mem'}
         /\ mem'.strategy = mem.strategy /\ mem'.source = mem.source
         /\ mem'.candidate = mem.candidate
         /\ mem'.status = "succeeded" /\ mem'.stage = "succeeded" /\ mem'.opened = mem.opened
         /\ pc' \in {Finish("succeeded"), At("fail", "journal")}
<1>1. mem' = [mem EXCEPT !.status = "succeeded", !.stage = "succeeded"]
  BY DEF Succeed
<1>2. /\ mem'.strategy = mem.strategy /\ mem'.source = mem.source
      /\ mem'.candidate = mem.candidate /\ mem'.status = "succeeded" /\ mem'.stage = "succeeded"
      /\ mem'.opened = mem.opened
  BY <1>1 DEF TypeOK, Journal
<1> QED
  BY <1>2 DEF Succeed, Save

\* The resume boundary.
LEMMA SaveBoundaryEffect ==
  ASSUME TypeOK, SaveBoundary
  PROVE  /\ UNCHANGED <<rec, workers, site>> /\ pc = At("source", "save") /\ tx' \in {tx, mem'}
         /\ mem'.strategy = mem.strategy /\ mem'.source = mem.source
         /\ mem'.candidate = mem.candidate /\ mem'.stage = "resume" /\ mem'.opened
         /\ \/ mem'.status = mem.status /\ pc' = At("source", "start")
            \/ mem'.status = "held" /\ pc' = At("fail", "final")
<1>1. CASE mem' = [mem EXCEPT !.stage = "resume", !.opened = TRUE] /\ pc' = At("source", "start")
  <2>1. /\ mem'.strategy = mem.strategy /\ mem'.source = mem.source
        /\ mem'.candidate = mem.candidate /\ mem'.stage = "resume" /\ mem'.opened
        /\ mem'.status = mem.status
    BY <1>1 DEF TypeOK, Journal
  <2> QED
    BY <1>1, <2>1 DEF SaveBoundary, Save
<1>2. CASE /\ mem' = [mem EXCEPT !.stage = "resume", !.opened = TRUE, !.status = "held"]
           /\ pc' = At("fail", "final")
  <2>1. /\ mem'.strategy = mem.strategy /\ mem'.source = mem.source
        /\ mem'.candidate = mem.candidate /\ mem'.stage = "resume" /\ mem'.opened
        /\ mem'.status = "held"
    BY <1>2 DEF TypeOK, Journal
  <2> QED
    BY <1>2, <2>1 DEF SaveBoundary, Save
<1> QED
  BY <1>1, <1>2 DEF SaveBoundary

\* The end of a step.
LEMMA EndEffect ==
  ASSUME TypeOK, PhaseInv, End
  PROVE  /\ UNCHANGED <<rec, mem, workers, site>> /\ pc.phase = "end" /\ pc.step \in Steps
         /\ tx' \in {tx, mem} /\ pc' \in {NextStep(mem), At("fail", "journal")}
  BY DEF End, Save, PhaseInv

\* The journal of a new release.
LEMMA StartUpdateEffect ==
  ASSUME TypeOK, StartUpdate
  PROVE  /\ pc' = At("preflight", "none") /\ UNCHANGED <<tx, containers, ingress, identity, migrating>>
         /\ mem'.status = "running" /\ mem'.stage = "none"
BY DEF StartUpdate, NoJournal

\* A preflight that goes on has written its journal over a finished one.
LEMMA PreflightEffect ==
  ASSUME Preflight
  PROVE  /\ UNCHANGED <<rec, mem, workers, site>> /\ pc.step = "preflight"
         /\ \/ UNCHANGED tx /\ pc'.step = "finish"
            \/ /\ tx.status \notin {"running", "held"} /\ tx' \in {tx, mem}
               /\ (pc' = At("pull", "begin") /\ tx' = mem) \/ pc'.step = "finish"
BY DEF Preflight, Save

\* The mark that traffic is opened changes nothing else.
LEMMA OpenTrafficEffect ==
  ASSUME TypeOK, OpenTraffic
  PROVE  /\ UNCHANGED <<rec, workers, site>> /\ pc = At("switch", "run")
         /\ mem'.strategy = mem.strategy /\ mem'.source = mem.source
         /\ mem'.candidate = mem.candidate /\ mem'.status = mem.status /\ mem'.stage = mem.stage
         /\ mem'.opened
         /\ \/ tx' = mem' /\ pc' = At("switch", "conf")
            \/ tx' \in {tx, mem'} /\ pc' = At("fail", "journal")
<1>1. mem' = [mem EXCEPT !.opened = TRUE]
  BY DEF OpenTraffic
<1>2. /\ mem'.strategy = mem.strategy /\ mem'.source = mem.source
      /\ mem'.candidate = mem.candidate /\ mem'.status = mem.status /\ mem'.stage = mem.stage
      /\ mem'.opened
  BY <1>1 DEF TypeOK, Journal
<1> QED
  BY <1>2 DEF OpenTraffic, Save

\* The mark of a failure changes nothing else.
LEMMA MarkFailedEffect ==
  ASSUME TypeOK, MarkFailed
  PROVE  /\ UNCHANGED <<rec, workers, site>> /\ pc = At("fail", "journal") /\ pc' = At("fail", "wait")
         /\ mem'.strategy = mem.strategy /\ mem'.source = mem.source
         /\ mem'.candidate = mem.candidate /\ mem'.status = "held" /\ mem'.stage = mem.stage
         /\ mem'.opened = mem.opened /\ mem'.old = mem.old /\ tx' \in {tx, mem'}
<1>1. mem' = [mem EXCEPT !.status = "held"]
  BY DEF MarkFailed
<1>2. /\ mem'.strategy = mem.strategy /\ mem'.source = mem.source
      /\ mem'.candidate = mem.candidate /\ mem'.status = "held" /\ mem'.stage = mem.stage
      /\ mem'.opened = mem.opened /\ mem'.old = mem.old
  BY <1>1 DEF TypeOK, Journal
<1> QED
  BY <1>2 DEF MarkFailed, Save

\* The end of an operation leaves the site and the journals alone.
LEMMA EndOperationEffect ==
  ASSUME EndOperation
  PROVE  pc.step \in {"finish", "settle"} /\ pc' = Idle /\ UNCHANGED <<tx, mem, workers, site>>
BY DEF EndOperation

\* No step takes a fault back.
LEMMA FaultsGrow ==
  ASSUME TypeOK, [Next]_vars
  PROVE  faults' \in Nat /\ faults' >= faults /\ faults \in Nat
<1>1. faults \in Nat /\ MaxFaults \in Nat
  BY DEF TypeOK
<1>2. UNCHANGED faults \/ Fault
  BY DEF Next, Worker, Release, Activate, Repair, vars, Save, Broken, Starts, Drains, Repaired,
         StartUpdate, StartSwitchBack, Preflight, SwitchBack, ObserveSwitchBack, Begin, End,
         Succeed, Pull, Quiesce, Backup, Upgrade, Candidate, OpenTraffic, DrainWorkers,
         StartWorkers, Observe, WaitDrained, CloseSource, WriteConf, Reload, WriteVersion,
         WriteInstance, MarkFailed, WaitUpgrade, Choose, DrainCandidateWork, StartSource,
         StartSourceWork, WaitSwitchedBack, CloseCandidate, DrainCandidate, RestoreData, SaveBoundary,
         ResumeSource, SaveResult, EndOperation, Reconcile, MigrationEnds, Crash, Reboot, UserWrites,
         InflightEnds
<1> QED
  BY <1>1, <1>2

--------------------
(* One lemma for each part of the invariant.                                *)

\* The homes that a worker acts on.
LEMMA HomesOfRelease ==
  ASSUME TypeOK
  PROVE  /\ mem.source \in Homes /\ mem.candidate \in Homes /\ Target \in Homes
         /\ \A status \in Terminal \cup {"running", "held"} : [mem EXCEPT !.status = status] \in Journal
<1>1. mem \in Journal /\ MaxOps \in 0 .. MaxOps /\ {} \in SUBSET Homes /\ "none" \in Steps \cup {"none"}
  BY DEF TypeOK
<1>2. \A status \in Terminal \cup {"running", "held"} : [mem EXCEPT !.status = status] \in Journal
  BY <1>1, EditedJournal
<1> QED
  BY <1>1, <1>2 DEF Journal, Target

\* A step that breaks leaves a journal and a counter.
LEMMA BrokenTypes ==
  ASSUME TypeOK, Broken
  PROVE  mem' \in Journal /\ faults' \in 0 .. MaxFaults
<1>1. mem' \in {mem, [mem EXCEPT !.status = "held"]}
  BY DEF Broken
<1> QED
  BY <1>1, HomesOfRelease DEF Broken, TypeOK

\* Each action keeps the types.
LEMMA StepTypes ==
  ASSUME TypeOK, PhaseInv, JournalInv, SiteInv, [Next]_vars
  PROVE  TypeOK'
<1> USE DEF TypeOK, Homes, Groups, Terminal
<1>1. CASE StartUpdate
  <2>1. rec' = [op |-> rec.op + 1, kind |-> "update", status |-> "running", staged |-> TRUE]
        /\ rec.op + 1 \in 0 .. MaxOps /\ active \in Homes /\ data' \in {data, "kept"}
    BY <1>1 DEF StartUpdate, TypeOK
  <2>2. mem' \in Journal
    <3>1. PICK strategy \in {"maintenance", "online"} :
            mem' = [NoJournal EXCEPT !.op = rec.op + 1, !.status = "running", !.strategy = strategy,
                                     !.source = active, !.candidate = OtherSlot(active)]
      BY <1>1 DEF StartUpdate
    <3>2. rec.op + 1 \in 0 .. MaxOps /\ active \in Homes
      BY <1>1 DEF StartUpdate, TypeOK
    <3>3. mem' = [op |-> rec.op + 1, status |-> "running", stage |-> "none", strategy |-> strategy,
                  source |-> active, candidate |-> OtherSlot(active), opened |-> FALSE, old |-> {},
                  point |-> FALSE]
      BY <3>1 DEF NoJournal
    <3> QED
      BY <3>2, <3>3 DEF OtherSlot, Journal
  <2> QED
    BY <1>1, <2>1, <2>2 DEF StartUpdate, TypeOK
<1>2. CASE StartSwitchBack
  BY <1>2 DEF StartSwitchBack
<1>3. CASE Preflight
  BY <1>3 DEF Preflight, Save
<1>4. CASE SwitchBack
  <2>1. mem' \in Journal
    <3>1. CASE UNCHANGED mem
      BY <3>1 DEF TypeOK
    <3>2. CASE mem' = [tx EXCEPT !.op = rec.op, !.status = "running", !.stage = "switch-back"]
      BY <3>2, ComposedJournal DEF TypeOK
    <3> QED
      BY <1>4, <3>1, <3>2 DEF SwitchBack
  <2> QED
    BY <1>4, <2>1 DEF SwitchBack, Save, TypeOK
<1>5. CASE ObserveSwitchBack
  <2>1. PICK staged \in BOOLEAN : rec' = [rec EXCEPT !.staged = staged]
    BY <1>5 DEF ObserveSwitchBack
  <2>2. rec' \in Operations
    BY <2>1, EditedOperation DEF TypeOK, Operations
  <2> QED
    BY <1>5, <2>2 DEF ObserveSwitchBack, TypeOK, Operations
<1>6. CASE Begin
  <2>1. [mem EXCEPT !.stage = pc.step] \in Journal
    BY <1>6, EditedJournal DEF Begin, TypeOK, PhaseInv
  <2> QED
    BY <1>6, <2>1 DEF Begin, Save, TypeOK
<1>7. CASE End
  BY <1>7 DEF End, Save
<1>8. CASE Succeed
  <2>1. [mem EXCEPT !.status = "succeeded", !.stage = "succeeded"] \in Journal
    <3>1. mem \in Journal /\ MaxOps \in 0 .. MaxOps
      OBVIOUS
    <3> QED
      BY <3>1, ComposedJournal
  <2> QED
    BY <1>8, <2>1 DEF Succeed, Save
<1>9. CASE Pull
  BY <1>9, HomesOfRelease, BrokenTypes DEF Pull
<1>10. CASE Quiesce
  BY <1>10, HomesOfRelease, BrokenTypes DEF Quiesce, Drains
<1>11. CASE Backup
  <2>1. [mem EXCEPT !.point = TRUE] \in Journal
    BY EditedJournal DEF TypeOK
  <2>2. mem' \in Journal /\ data' \in {data, "captured"}
    BY <1>11, <2>1 DEF Backup, TypeOK, Broken, Repairing
  <2> QED
    BY <1>11, <2>2 DEF Backup, Broken, TypeOK
<1>12. CASE Upgrade
  BY <1>12, HomesOfRelease, BrokenTypes DEF Upgrade, Altered
<1>13. CASE Candidate
  BY <1>13, HomesOfRelease, BrokenTypes DEF Candidate, Starts
<1>14. CASE OpenTraffic
  <2>1. mem' \in Journal
    BY <1>14, EditedJournal DEF OpenTraffic, TypeOK
  <2>2. tx' \in {tx, mem'} /\ (UNCHANGED faults \/ Fault)
    BY <1>14 DEF OpenTraffic, Save
  <2>3. tx' \in Journal /\ faults' \in 0 .. MaxFaults
    BY <2>1, <2>2 DEF TypeOK
  <2> QED
    BY <1>14, <2>1, <2>3 DEF OpenTraffic, TypeOK
<1>15. CASE DrainWorkers
  BY <1>15, HomesOfRelease, BrokenTypes DEF DrainWorkers, Drains
<1>16. CASE StartWorkers
  BY <1>16, HomesOfRelease, BrokenTypes DEF StartWorkers, Starts
<1>17. CASE Observe
  BY <1>17, HomesOfRelease, BrokenTypes DEF Observe
<1>18. CASE WaitDrained
  BY <1>18, HomesOfRelease, BrokenTypes DEF WaitDrained
<1>19. CASE CloseSource
  BY <1>19, HomesOfRelease, BrokenTypes DEF CloseSource, Drains
<1>20. CASE WriteConf
  <2>1. Target \in {"blue", "green"}
    BY <1>20 DEF WriteConf, Target, PhaseInv, JournalInv, Live, Belongs, Paired, OtherSlot, TypeOK, Journal
  <2>2. workers' \subseteq Homes
    BY <1>20 DEF WriteConf, TypeOK
  <2>3. [mem EXCEPT !.old = workers' \ {"site"}] \in Journal
    BY <2>2, EditedJournal DEF TypeOK
  <2>4. [mem EXCEPT !.status = "held"] \in Journal
    BY EditedJournal DEF TypeOK
  <2>5. mem' \in Journal
    BY <1>20, <2>3, <2>4 DEF WriteConf, TypeOK, Broken
  <2> QED
    BY <1>20, <2>1, <2>2, <2>5 DEF WriteConf, Broken, TypeOK
<1>21. CASE Reload
  BY <1>21, HomesOfRelease, BrokenTypes DEF Reload
<1>22. CASE WriteVersion
  BY <1>22, HomesOfRelease, BrokenTypes DEF WriteVersion
<1>23. CASE WriteInstance
  BY <1>23, HomesOfRelease, BrokenTypes DEF WriteInstance
<1>24. CASE MarkFailed
  BY <1>24, HomesOfRelease DEF MarkFailed, Save
<1>25. CASE WaitUpgrade
  BY <1>25 DEF WaitUpgrade
<1>26. CASE Choose
  BY <1>26 DEF Choose, Undo
<1>27. CASE DrainCandidateWork
  BY <1>27, HomesOfRelease, BrokenTypes DEF DrainCandidateWork, Drains
<1>28. CASE StartSource
  BY <1>28, HomesOfRelease, BrokenTypes DEF StartSource, Starts
<1>29. CASE StartSourceWork
  BY <1>29, HomesOfRelease, BrokenTypes DEF StartSourceWork, Starts
<1>30. CASE WaitSwitchedBack
  BY <1>30, HomesOfRelease, BrokenTypes DEF WaitSwitchedBack
<1>31. CASE CloseCandidate
  BY <1>31, HomesOfRelease, BrokenTypes DEF CloseCandidate, Drains, Repaired
<1>32. CASE DrainCandidate
  BY <1>32, HomesOfRelease, BrokenTypes DEF DrainCandidate, Drains
<1>33. CASE RestoreData
  BY <1>33, HomesOfRelease, BrokenTypes DEF RestoreData
<1>34. CASE SaveBoundary
  <2>1. /\ [mem EXCEPT !.stage = "resume", !.opened = TRUE] \in Journal
        /\ [mem EXCEPT !.stage = "resume", !.opened = TRUE, !.status = "held"] \in Journal
    <3>1. mem \in Journal /\ MaxOps \in 0 .. MaxOps
      BY DEF TypeOK
    <3> QED
      BY <3>1, ComposedJournal
  <2>2. mem' \in Journal
    BY <1>34, <2>1 DEF SaveBoundary
  <2> QED
    BY <1>34, <2>2 DEF SaveBoundary, Save, TypeOK
<1>35. CASE ResumeSource
  BY <1>35, HomesOfRelease, BrokenTypes DEF ResumeSource, Starts, Resumed, Repaired
<1>36. CASE SaveResult
  BY <1>36 DEF SaveResult, Save
<1>37. CASE EndOperation
  <2>1. \/ \E status \in Terminal \cup {"running", "held"} :
             rec' = [rec EXCEPT !.status = status, !.staged = TRUE]
        \/ rec' = rec
    BY <1>37 DEF EndOperation, RecordAs, PhaseInv
  <2>2. rec \in Operations
    BY DEF TypeOK, Operations
  <2>3. \A status \in Terminal \cup {"running", "held"} :
          [rec EXCEPT !.status = status, !.staged = TRUE] \in Operations
    BY <2>2, EditedOperation
  <2>4. rec' \in Operations
    BY <2>1, <2>2, <2>3
  <2>5. UNCHANGED faults \/ Fault
    BY <1>37 DEF EndOperation
  <2>6. faults' \in 0 .. MaxFaults
    BY <2>5 DEF TypeOK
  <2>7. UNCHANGED <<tx, mem, workers, site>>
    BY <1>37 DEF EndOperation
  <2> QED
    BY <2>4, <2>6, <2>7 DEF TypeOK, Operations
<1>38. CASE Reconcile
  BY <1>38 DEF Reconcile, Resumes
<1>39. CASE MigrationEnds
  <2>1. data' \in {data, "migrated"}
    BY <1>39 DEF MigrationEnds, Altered
  <2> QED
    BY <1>39, <2>1 DEF MigrationEnds, TypeOK
<1>40. CASE Crash
  BY <1>40 DEF Crash
<1>41. CASE Reboot
  <2>1. data' \in {data, "migrated"}
    BY <1>41 DEF Reboot, Altered
  <2>2. live' \in Homes
    BY <1>41 DEF Reboot, TypeOK, SiteInv
  <2>3. data' \in {"kept", "captured", "migrated", "written", "restored", "torn"}
    BY <2>1 DEF TypeOK
  <2>4. up' \subseteq Homes \X Groups /\ inflight' = {} /\ migrating' = FALSE
    BY <1>41 DEF Reboot, TypeOK
  <2>5. faults' \in 0 .. MaxFaults
    BY <1>41 DEF Reboot, TypeOK
  <2>6. UNCHANGED <<rec, tx, mem, workers, auto, conf, identity>>
    BY <1>41 DEF Reboot
  <2> QED
    BY <2>2, <2>3, <2>4, <2>5, <2>6 DEF TypeOK
<1>42. CASE UserWrites
  BY <1>42 DEF UserWrites
<1>43. ASSUME NEW home \in Homes, InflightEnds(home) PROVE TypeOK'
  BY <1>43 DEF InflightEnds
<1>44. CASE UNCHANGED vars
  BY <1>44 DEF vars
<1> QED
  BY <1>1, <1>2, <1>3, <1>4, <1>5, <1>6, <1>7, <1>8, <1>9, <1>10, <1>11, <1>12, <1>13,
     <1>14, <1>15, <1>16, <1>17, <1>18, <1>19, <1>20, <1>21, <1>22, <1>23, <1>24, <1>25,
     <1>26, <1>27, <1>28, <1>29, <1>30, <1>31, <1>32, <1>33, <1>34, <1>35, <1>36, <1>37,
     <1>38, <1>39, <1>40, <1>41, <1>42, <1>43, <1>44
     DEF Next, Worker, Release, Activate, Repair

\* The moves of this part that need an argument.
LEMMA PhaseMoves ==
  ASSUME TypeOK, PhaseInv,
         SwitchBack \/ SaveBoundary
  PROVE  PhaseInv'
<1>1. CASE SwitchBack
  BY <1>1, SwitchBackEffect DEF PhaseInv, Terminal
<1>2. CASE SaveBoundary
  BY <1>2, SaveBoundaryEffect DEF PhaseInv, Terminal
<1> QED
  BY <1>1, <1>2

\* Each action leads to a position that exists.
LEMMA StepPhase ==
  ASSUME TypeOK, PhaseInv, [Next]_vars
  PROVE  PhaseInv'
<1> USE DEF TypeOK, Journal, PhaseInv, Steps, Terminal
<1>1. CASE StartUpdate
  BY <1>1 DEF StartUpdate
<1>2. CASE StartSwitchBack
  BY <1>2 DEF StartSwitchBack
<1>3. CASE Preflight
  BY <1>3 DEF Preflight, Save
<1>4. CASE SwitchBack
  BY <1>4, PhaseMoves
<1>5. CASE ObserveSwitchBack
  BY <1>5 DEF ObserveSwitchBack
<1>6. CASE Begin
  BY <1>6 DEF Begin, Save
<1>7. CASE End
  BY <1>7, NextOf DEF End, Save
<1>8. CASE Succeed
  BY <1>8 DEF Succeed, Save
<1>9. CASE Pull
  BY <1>9 DEF Pull, Broken, Repairing
<1>10. CASE Quiesce
  BY <1>10 DEF Quiesce, Drains, Broken, Repairing
<1>11. CASE Backup
  BY <1>11 DEF Backup, Broken, Repairing
<1>12. CASE Upgrade
  BY <1>12 DEF Upgrade, Broken, Repairing, Altered
<1>13. CASE Candidate
  BY <1>13 DEF Candidate, Starts, Broken, Repairing
<1>14. CASE OpenTraffic
  BY <1>14 DEF OpenTraffic, Save
<1>15. CASE DrainWorkers
  BY <1>15 DEF DrainWorkers, Drains, Broken, Repairing
<1>16. CASE StartWorkers
  BY <1>16 DEF StartWorkers, Starts, Broken, Repairing
<1>17. CASE Observe
  BY <1>17 DEF Observe, Broken, Repairing
<1>18. CASE WaitDrained
  BY <1>18 DEF WaitDrained, Broken, Repairing
<1>19. CASE CloseSource
  BY <1>19 DEF CloseSource, Drains, Broken, Repairing
<1>20. CASE WriteConf
  BY <1>20 DEF WriteConf, Broken, Repairing, Target
<1>21. CASE Reload
  BY <1>21 DEF Reload, Broken, Repairing, Target
<1>22. CASE WriteVersion
  BY <1>22 DEF WriteVersion, Broken, Repairing, Target
<1>23. CASE WriteInstance
  BY <1>23 DEF WriteInstance, Broken, Repairing, Target
<1>24. CASE MarkFailed
  BY <1>24 DEF MarkFailed, Save
<1>25. CASE WaitUpgrade
  BY <1>25 DEF WaitUpgrade
<1>26. CASE Choose
  BY <1>26 DEF Choose, Undo
<1>27. CASE DrainCandidateWork
  BY <1>27 DEF DrainCandidateWork, Drains, Broken, Repairing
<1>28. CASE StartSource
  BY <1>28 DEF StartSource, Starts, Broken, Repairing
<1>29. CASE StartSourceWork
  BY <1>29 DEF StartSourceWork, Starts, Broken, Repairing
<1>30. CASE WaitSwitchedBack
  BY <1>30 DEF WaitSwitchedBack, Broken, Repairing
<1>31. CASE CloseCandidate
  BY <1>31 DEF CloseCandidate, Drains, Broken, Repairing, Repaired
<1>32. CASE DrainCandidate
  BY <1>32 DEF DrainCandidate, Drains, Broken, Repairing
<1>33. CASE RestoreData
  BY <1>33 DEF RestoreData, Broken, Repairing
<1>34. CASE SaveBoundary
  BY <1>34, PhaseMoves
<1>35. CASE ResumeSource
  BY <1>35 DEF ResumeSource, Starts, Broken, Repairing, Resumed, Repaired
<1>36. CASE SaveResult
  BY <1>36 DEF SaveResult, Save
<1>37. CASE EndOperation
  BY <1>37 DEF EndOperation
<1>38. CASE Reconcile
  BY <1>38 DEF Reconcile, Resumes
<1>39. CASE MigrationEnds
  BY <1>39 DEF MigrationEnds, Altered
<1>40. CASE Crash
  BY <1>40 DEF Crash
<1>41. CASE Reboot
  BY <1>41 DEF Reboot, Altered
<1>42. CASE UserWrites
  BY <1>42 DEF UserWrites
<1>43. ASSUME NEW home \in Homes, InflightEnds(home) PROVE PhaseInv'
  BY <1>43 DEF InflightEnds
<1>44. CASE UNCHANGED vars
  BY <1>44 DEF vars
<1> QED
  BY <1>1, <1>2, <1>3, <1>4, <1>5, <1>6, <1>7, <1>8, <1>9, <1>10, <1>11, <1>12, <1>13,
     <1>14, <1>15, <1>16, <1>17, <1>18, <1>19, <1>20, <1>21, <1>22, <1>23, <1>24, <1>25,
     <1>26, <1>27, <1>28, <1>29, <1>30, <1>31, <1>32, <1>33, <1>34, <1>35, <1>36, <1>37,
     <1>38, <1>39, <1>40, <1>41, <1>42, <1>43, <1>44
     DEF Next, Worker, Release, Activate, Repair

\* The moves of this part that need an argument.
LEMMA JournalMoves ==
  ASSUME TypeOK, PhaseInv, JournalInv, WorkInv, RolledInv,
         SwitchBack \/ SaveBoundary \/ Begin \/ End \/ Succeed
  PROVE  JournalInv'
<1>1. CASE SwitchBack
  BY <1>1, SwitchBackEffect DEF SwitchBack, JournalInv, Belongs, Paired, Open, Live, Before, NoJournal, Terminal
<1>2. CASE SaveBoundary
  BY <1>2, SaveBoundaryEffect DEF JournalInv, Belongs, Paired, Open, Live, Before, NoJournal, RolledInv, Final
<1>3. CASE Begin
  BY <1>3, BeginEffect DEF PhaseInv, Steps, JournalInv, RolledInv, Final, Belongs, Paired, Open, Live, Before, NoJournal
<1>4. CASE End
  <2>1. Live /\ Live' /\ ~Final
    BY <1>4, EndEffect, NextOf DEF PhaseInv, Live, Steps, TypeOK, Final
  <2>2. Before' => Before
    BY <1>4, EndEffect, NextOf DEF PhaseInv, Before, Steps, TypeOK
  <2>3. pc'.step # "preflight"
    BY <1>4, EndEffect, NextOf DEF PhaseInv, Steps, TypeOK
  <2> QED
    BY <1>4, <2>1, <2>2, <2>3, EndEffect DEF JournalInv, RolledInv, Belongs, Paired, Open
<1>5. CASE Succeed
  BY <1>5, SucceedEffect DEF PhaseInv, JournalInv, Belongs, Paired, Open, Live, Before, NoJournal
<1> QED
  BY <1>1, <1>2, <1>3, <1>4, <1>5

\* No write mixes two releases, and none before the end is a failure.
LEMMA StepJournal ==
  ASSUME TypeOK, PhaseInv, JournalInv, WorkInv, RolledInv, [Next]_vars
  PROVE  JournalInv'
<1> USE DEF TypeOK, Journal, PhaseInv, JournalInv, Belongs, Paired, Open, Live, Before, NoJournal, Terminal
<1>1. CASE StartUpdate
  BY <1>1 DEF StartUpdate
<1>2. CASE StartSwitchBack
  BY <1>2 DEF StartSwitchBack
<1>3. CASE Preflight
  BY <1>3 DEF Preflight, Save
<1>4. CASE SwitchBack
  BY <1>4, JournalMoves
<1>5. CASE ObserveSwitchBack
  BY <1>5 DEF ObserveSwitchBack
<1>6. CASE Begin
  BY <1>6, JournalMoves
<1>7. CASE End
  BY <1>7, JournalMoves
<1>8. CASE Succeed
  BY <1>8, JournalMoves
<1>9. CASE Pull
  BY <1>9 DEF Pull, Broken, Repairing
<1>10. CASE Quiesce
  BY <1>10 DEF Quiesce, Drains, Broken, Repairing
<1>11. CASE Backup
  BY <1>11 DEF Backup, Broken, Repairing
<1>12. CASE Upgrade
  BY <1>12 DEF Upgrade, Broken, Repairing, Altered
<1>13. CASE Candidate
  BY <1>13 DEF Candidate, Starts, Broken, Repairing
<1>14. CASE OpenTraffic
  BY <1>14 DEF OpenTraffic, Save
<1>15. CASE DrainWorkers
  BY <1>15 DEF DrainWorkers, Drains, Broken, Repairing
<1>16. CASE StartWorkers
  BY <1>16 DEF StartWorkers, Starts, Broken, Repairing
<1>17. CASE Observe
  BY <1>17 DEF Observe, Broken, Repairing
<1>18. CASE WaitDrained
  BY <1>18 DEF WaitDrained, Broken, Repairing
<1>19. CASE CloseSource
  BY <1>19 DEF CloseSource, Drains, Broken, Repairing
<1>20. CASE WriteConf
  BY <1>20 DEF WriteConf, Broken, Repairing, Target
<1>21. CASE Reload
  BY <1>21 DEF Reload, Broken, Repairing, Target
<1>22. CASE WriteVersion
  BY <1>22 DEF WriteVersion, Broken, Repairing, Target
<1>23. CASE WriteInstance
  BY <1>23 DEF WriteInstance, Broken, Repairing, Target
<1>24. CASE MarkFailed
  BY <1>24 DEF MarkFailed, Save
<1>25. CASE WaitUpgrade
  BY <1>25 DEF WaitUpgrade
<1>26. CASE Choose
  BY <1>26 DEF Choose, Undo
<1>27. CASE DrainCandidateWork
  BY <1>27 DEF DrainCandidateWork, Drains, Broken, Repairing
<1>28. CASE StartSource
  BY <1>28 DEF StartSource, Starts, Broken, Repairing
<1>29. CASE StartSourceWork
  BY <1>29 DEF StartSourceWork, Starts, Broken, Repairing
<1>30. CASE WaitSwitchedBack
  BY <1>30 DEF WaitSwitchedBack, Broken, Repairing
<1>31. CASE CloseCandidate
  BY <1>31 DEF CloseCandidate, Drains, Broken, Repairing, Repaired
<1>32. CASE DrainCandidate
  BY <1>32 DEF DrainCandidate, Drains, Broken, Repairing
<1>33. CASE RestoreData
  BY <1>33 DEF RestoreData, Broken, Repairing
<1>34. CASE SaveBoundary
  BY <1>34, JournalMoves
<1>35. CASE ResumeSource
  BY <1>35 DEF ResumeSource, Starts, Broken, Repairing, Resumed, Repaired
<1>36. CASE SaveResult
  BY <1>36 DEF SaveResult, Save
<1>37. CASE EndOperation
  BY <1>37 DEF EndOperation
<1>38. CASE Reconcile
  BY <1>38 DEF Reconcile, Resumes
<1>39. CASE MigrationEnds
  BY <1>39 DEF MigrationEnds, Altered
<1>40. CASE Crash
  BY <1>40 DEF Crash
<1>41. CASE Reboot
  BY <1>41 DEF Reboot, Altered
<1>42. CASE UserWrites
  BY <1>42 DEF UserWrites
<1>43. ASSUME NEW home \in Homes, InflightEnds(home) PROVE JournalInv'
  BY <1>43 DEF InflightEnds
<1>44. CASE UNCHANGED vars
  BY <1>44 DEF vars
<1> QED
  BY <1>1, <1>2, <1>3, <1>4, <1>5, <1>6, <1>7, <1>8, <1>9, <1>10, <1>11, <1>12, <1>13,
     <1>14, <1>15, <1>16, <1>17, <1>18, <1>19, <1>20, <1>21, <1>22, <1>23, <1>24, <1>25,
     <1>26, <1>27, <1>28, <1>29, <1>30, <1>31, <1>32, <1>33, <1>34, <1>35, <1>36, <1>37,
     <1>38, <1>39, <1>40, <1>41, <1>42, <1>43, <1>44
     DEF Next, Worker, Release, Activate, Repair

\* The moves of this part that need an argument.
LEMMA WorkMoves ==
  ASSUME TypeOK, PhaseInv, JournalInv, WorkInv, SiteInv, BackInv,
         Begin \/ StartSourceWork \/ CloseCandidate
  PROVE  WorkInv'
<1>1. CASE Begin
  <2>1. UNCHANGED <<active, up, auto>> /\ pc.step \in Steps
    BY <1>1, BeginEffect DEF PhaseInv
  <2>2. \A homes : WorkIn(homes)' <=> WorkIn(homes)
    BY <2>1 DEF WorkIn
  <2>3. WorkIn({active}) \/ Astray(mem)
    BY <1>1, <2>1 DEF WorkInv, Live, Begin, Steps
  <2>4. (WorkIn({active}) \/ Astray(mem))'
    <3>1. CASE pc.step = "drain"
      BY <3>1, <2>1, <2>2 DEF WorkInv, Moved, After
    <3>2. CASE pc.step # "drain"
      BY <2>1, <2>2, <2>3, <3>2, <1>1, BeginEffect DEF Astray, Open, Steps
    <3> QED
      BY <3>1, <3>2
  <2>5. (WorkIn({active}) \/ Astray(tx))'
    BY <2>1, <2>2, <2>4, <1>1, BeginEffect DEF WorkInv, Astray, Open
  <2> QED
    BY <2>1, <2>2, <2>4, <2>5, <1>1, BeginEffect DEF WorkInv, Live, Before, After, Quiet, Unmoved, Moved, Back, Steps
<1>2. CASE StartSourceWork
  <2>1. /\ UNCHANGED <<active, tx>> /\ mem'.source = mem.source
        /\ pc' \in {At("back", "wait"), At("fail", "final"), Idle}
    BY <1>2 DEF StartSourceWork, Starts, Broken, Repairing, TypeOK, Journal
  <2>2. active = mem.source /\ WorkIn({mem.source})
    BY <1>2 DEF StartSourceWork, BackInv, Back, WorkInv
  <2>3. WorkIn({active})'
    BY <1>2, <2>1, <2>2 DEF StartSourceWork, Starts, WorkIn
  <2> QED
    BY <2>1, <2>2, <2>3 DEF WorkInv, Live, Before, After, Quiet, Unmoved, Moved, Back
<1>3. CASE CloseCandidate
  <2>1. /\ UNCHANGED <<active, tx>> /\ mem'.source = mem.source
        /\ pc' \in {At("fail", "final"), Idle}
    BY <1>3 DEF CloseCandidate, Drains, Broken, Repairing, Repaired, TypeOK, Journal
  <2>2. active = mem.source /\ WorkIn({mem.source})
    BY <1>3 DEF CloseCandidate, BackInv, Back, WorkInv
  <2>3. WorkIn({active})'
    BY <1>3, <2>1, <2>2 DEF CloseCandidate, Drains, WorkIn
  <2> QED
    BY <2>1, <2>2, <2>3 DEF WorkInv, Live, Before, After, Quiet, Unmoved, Moved, Back
<1> QED
  BY <1>1, <1>2, <1>3

\* Queues are started in a home only after the other one was drained.
LEMMA StepWork ==
  ASSUME TypeOK, PhaseInv, JournalInv, WorkInv, SiteInv, BackInv, [Next]_vars
  PROVE  WorkInv'
<1> USE DEF TypeOK, Journal, PhaseInv, JournalInv, Belongs, Paired, Open, Live, Before, After, Quiet, Moved,
           Unmoved, Back, Astray, WorkIn, WorkInv, Homes, Groups
<1>1. CASE StartUpdate
  BY <1>1 DEF StartUpdate
<1>2. CASE StartSwitchBack
  BY <1>2 DEF StartSwitchBack
<1>3. CASE Preflight
  BY <1>3 DEF Preflight, Save
<1>4. CASE SwitchBack
  BY <1>4 DEF SwitchBack, Save
<1>5. CASE ObserveSwitchBack
  BY <1>5 DEF ObserveSwitchBack
<1>6. CASE Begin
  BY <1>6, WorkMoves
<1>7. CASE End
  BY <1>7, NextOf DEF End, Save
<1>8. CASE Succeed
  BY <1>8 DEF Succeed, Save
<1>9. CASE Pull
  BY <1>9 DEF Pull, Broken, Repairing
<1>10. CASE Quiesce
  BY <1>10 DEF Quiesce, Drains, Broken, Repairing
<1>11. CASE Backup
  BY <1>11 DEF Backup, Broken, Repairing
<1>12. CASE Upgrade
  BY <1>12 DEF Upgrade, Broken, Repairing, Altered
<1>13. CASE Candidate
  BY <1>13 DEF Candidate, Starts, Broken, Repairing
<1>14. CASE OpenTraffic
  BY <1>14 DEF OpenTraffic, Save
<1>15. CASE DrainWorkers
  BY <1>15 DEF DrainWorkers, Drains, Broken, Repairing
<1>16. CASE StartWorkers
  BY <1>16 DEF StartWorkers, Starts, Broken, Repairing
<1>17. CASE Observe
  BY <1>17 DEF Observe, Broken, Repairing
<1>18. CASE WaitDrained
  BY <1>18 DEF WaitDrained, Broken, Repairing
<1>19. CASE CloseSource
  BY <1>19 DEF CloseSource, Drains, Broken, Repairing
<1>20. CASE WriteConf
  BY <1>20 DEF WriteConf, Broken, Repairing, Target
<1>21. CASE Reload
  BY <1>21 DEF Reload, Broken, Repairing, Target
<1>22. CASE WriteVersion
  BY <1>22 DEF WriteVersion, Broken, Repairing, Target
<1>23. CASE WriteInstance
  BY <1>23 DEF WriteInstance, Broken, Repairing, Target
<1>24. CASE MarkFailed
  BY <1>24 DEF MarkFailed, Save
<1>25. CASE WaitUpgrade
  BY <1>25 DEF WaitUpgrade
<1>26. CASE Choose
  BY <1>26 DEF Choose, Undo
<1>27. CASE DrainCandidateWork
  BY <1>27 DEF DrainCandidateWork, Drains, Broken, Repairing
<1>28. CASE StartSource
  BY <1>28 DEF StartSource, Starts, Broken, Repairing
<1>29. CASE StartSourceWork
  BY <1>29, WorkMoves
<1>30. CASE WaitSwitchedBack
  BY <1>30 DEF WaitSwitchedBack, Broken, Repairing
<1>31. CASE CloseCandidate
  BY <1>31, WorkMoves
<1>32. CASE DrainCandidate
  BY <1>32 DEF DrainCandidate, Drains, Broken, Repairing
<1>33. CASE RestoreData
  BY <1>33 DEF RestoreData, Broken, Repairing
<1>34. CASE SaveBoundary
  BY <1>34 DEF SaveBoundary, Save
<1>35. CASE ResumeSource
  BY <1>35 DEF ResumeSource, Starts, Broken, Repairing, Resumed, Repaired
<1>36. CASE SaveResult
  BY <1>36 DEF SaveResult, Save
<1>37. CASE EndOperation
  BY <1>37, EndOperationEffect
<1>38. CASE Reconcile
  BY <1>38 DEF Reconcile, Resumes
<1>39. CASE MigrationEnds
  BY <1>39 DEF MigrationEnds, Altered
<1>40. CASE Crash
  BY <1>40 DEF Crash
<1>41. CASE Reboot
  BY <1>41 DEF Reboot, Altered
<1>42. CASE UserWrites
  BY <1>42 DEF UserWrites
<1>43. ASSUME NEW home \in Homes, InflightEnds(home) PROVE WorkInv'
  BY <1>43 DEF InflightEnds
<1>44. CASE UNCHANGED vars
  BY <1>44 DEF vars
<1> QED
  BY <1>1, <1>2, <1>3, <1>4, <1>5, <1>6, <1>7, <1>8, <1>9, <1>10, <1>11, <1>12, <1>13,
     <1>14, <1>15, <1>16, <1>17, <1>18, <1>19, <1>20, <1>21, <1>22, <1>23, <1>24, <1>25,
     <1>26, <1>27, <1>28, <1>29, <1>30, <1>31, <1>32, <1>33, <1>34, <1>35, <1>36, <1>37,
     <1>38, <1>39, <1>40, <1>41, <1>42, <1>43, <1>44
     DEF Next, Worker, Release, Activate, Repair

\* The moves of this part that need an argument.
LEMMA SiteMoves ==
  ASSUME TypeOK, PhaseInv, JournalInv, SiteInv,
         SaveResult \/ Reconcile
  PROVE  SiteInv'
<1>1. CASE SaveResult
  <2>1. UNCHANGED <<active, conf, live, up, auto>> /\ pc'.step = "finish" /\ pc'.phase \in {mem.status, "held"}
    BY <1>1 DEF SaveResult, Save
  <2>2. pc'.phase # "reload"
    BY <2>1 DEF TypeOK, Journal, Terminal
  <2> QED
    BY <2>1, <2>2 DEF SiteInv, NoSite, Quiet
<1>2. CASE Reconcile
  <2>1. UNCHANGED <<active, conf, live, up, auto>> /\ pc'.step \in {"settle", "redrain", "fail"}
        /\ pc'.phase \in {"run", "journal", "failed", "held", tx.status}
    BY <1>2 DEF Reconcile
  <2>2. pc'.phase # "reload"
    BY <2>1 DEF TypeOK, Journal, Terminal
  <2> QED
    BY <2>1, <2>2 DEF SiteInv, NoSite, Quiet
<1> QED
  BY <1>1, <1>2

\* The single deployment is drained before the identity leaves it.
LEMMA StepSite ==
  ASSUME TypeOK, PhaseInv, JournalInv, WorkInv, SiteInv, [Next]_vars
  PROVE  SiteInv'
<1> USE DEF TypeOK, Journal, PhaseInv, JournalInv, SiteInv, NoSite, Quiet, Belongs, Paired, Live, Before,
           OtherSlot, Homes, Groups
<1>1. CASE StartUpdate
  BY <1>1 DEF StartUpdate
<1>2. CASE StartSwitchBack
  BY <1>2 DEF StartSwitchBack
<1>3. CASE Preflight
  BY <1>3 DEF Preflight, Save
<1>4. CASE SwitchBack
  BY <1>4 DEF SwitchBack, Save
<1>5. CASE ObserveSwitchBack
  BY <1>5 DEF ObserveSwitchBack
<1>6. CASE Begin
  BY <1>6 DEF Begin, Save
<1>7. CASE End
  BY <1>7, NextOf DEF End, Save
<1>8. CASE Succeed
  BY <1>8, SucceedEffect
<1>9. CASE Pull
  BY <1>9 DEF Pull, Broken, Repairing
<1>10. CASE Quiesce
  BY <1>10 DEF Quiesce, Drains, Broken, Repairing
<1>11. CASE Backup
  BY <1>11 DEF Backup, Broken, Repairing
<1>12. CASE Upgrade
  BY <1>12 DEF Upgrade, Broken, Repairing, Altered
<1>13. CASE Candidate
  BY <1>13 DEF Candidate, Starts, Broken, Repairing
<1>14. CASE OpenTraffic
  BY <1>14 DEF OpenTraffic, Save
<1>15. CASE DrainWorkers
  BY <1>15 DEF DrainWorkers, Drains, Broken, Repairing
<1>16. CASE StartWorkers
  BY <1>16 DEF StartWorkers, Starts, Broken, Repairing
<1>17. CASE Observe
  BY <1>17 DEF Observe, Broken, Repairing
<1>18. CASE WaitDrained
  BY <1>18 DEF WaitDrained, Broken, Repairing
<1>19. CASE CloseSource
  BY <1>19 DEF CloseSource, Drains, Broken, Repairing
<1>20. CASE WriteConf
  BY <1>20 DEF WriteConf, Broken, Repairing, Target
<1>21. CASE Reload
  BY <1>21 DEF Reload, Broken, Repairing, Target
<1>22. CASE WriteVersion
  BY <1>22 DEF WriteVersion, Broken, Repairing, Target
<1>23. CASE WriteInstance
  BY <1>23 DEF WriteInstance, Broken, Repairing, Target
<1>24. CASE MarkFailed
  BY <1>24 DEF MarkFailed, Save
<1>25. CASE WaitUpgrade
  BY <1>25 DEF WaitUpgrade
<1>26. CASE Choose
  BY <1>26 DEF Choose, Undo
<1>27. CASE DrainCandidateWork
  BY <1>27 DEF DrainCandidateWork, Drains, Broken, Repairing
<1>28. CASE StartSource
  BY <1>28 DEF StartSource, Starts, Broken, Repairing
<1>29. CASE StartSourceWork
  BY <1>29 DEF StartSourceWork, Starts, Broken, Repairing
<1>30. CASE WaitSwitchedBack
  BY <1>30 DEF WaitSwitchedBack, Broken, Repairing
<1>31. CASE CloseCandidate
  BY <1>31 DEF CloseCandidate, Drains, Broken, Repairing, Repaired
<1>32. CASE DrainCandidate
  BY <1>32 DEF DrainCandidate, Drains, Broken, Repairing
<1>33. CASE RestoreData
  BY <1>33 DEF RestoreData, Broken, Repairing
<1>34. CASE SaveBoundary
  BY <1>34 DEF SaveBoundary, Save
<1>35. CASE ResumeSource
  BY <1>35 DEF ResumeSource, Starts, Broken, Repairing, Resumed, Repaired
<1>36. CASE SaveResult
  BY <1>36, SiteMoves
<1>37. CASE EndOperation
  BY <1>37 DEF EndOperation
<1>38. CASE Reconcile
  BY <1>38, SiteMoves
<1>39. CASE MigrationEnds
  BY <1>39 DEF MigrationEnds, Altered
<1>40. CASE Crash
  BY <1>40 DEF Crash
<1>41. CASE Reboot
  BY <1>41 DEF Reboot, Altered
<1>42. CASE UserWrites
  BY <1>42 DEF UserWrites
<1>43. ASSUME NEW home \in Homes, InflightEnds(home) PROVE SiteInv'
  BY <1>43 DEF InflightEnds
<1>44. CASE UNCHANGED vars
  BY <1>44 DEF vars
<1> QED
  BY <1>1, <1>2, <1>3, <1>4, <1>5, <1>6, <1>7, <1>8, <1>9, <1>10, <1>11, <1>12, <1>13,
     <1>14, <1>15, <1>16, <1>17, <1>18, <1>19, <1>20, <1>21, <1>22, <1>23, <1>24, <1>25,
     <1>26, <1>27, <1>28, <1>29, <1>30, <1>31, <1>32, <1>33, <1>34, <1>35, <1>36, <1>37,
     <1>38, <1>39, <1>40, <1>41, <1>42, <1>43, <1>44
     DEF Next, Worker, Release, Activate, Repair

\* A switch back goes on only from a step that was carried out.
LEMMA StepBack ==
  ASSUME TypeOK, PhaseInv, BackInv, [Next]_vars
  PROVE  BackInv'
<1> USE DEF TypeOK, Journal, PhaseInv, BackInv, Back, Groups, Homes
<1>1. CASE StartUpdate
  BY <1>1 DEF StartUpdate
<1>2. CASE StartSwitchBack
  BY <1>2 DEF StartSwitchBack
<1>3. CASE Preflight
  BY <1>3 DEF Preflight, Save
<1>4. CASE SwitchBack
  BY <1>4 DEF SwitchBack, Save
<1>5. CASE ObserveSwitchBack
  BY <1>5 DEF ObserveSwitchBack
<1>6. CASE Begin
  BY <1>6 DEF Begin, Save
<1>7. CASE End
  BY <1>7, NextOf DEF End, Save
<1>8. CASE Succeed
  BY <1>8 DEF Succeed, Save
<1>9. CASE Pull
  BY <1>9 DEF Pull, Broken, Repairing
<1>10. CASE Quiesce
  BY <1>10 DEF Quiesce, Drains, Broken, Repairing
<1>11. CASE Backup
  BY <1>11 DEF Backup, Broken, Repairing
<1>12. CASE Upgrade
  BY <1>12 DEF Upgrade, Broken, Repairing, Altered
<1>13. CASE Candidate
  BY <1>13 DEF Candidate, Starts, Broken, Repairing
<1>14. CASE OpenTraffic
  BY <1>14 DEF OpenTraffic, Save
<1>15. CASE DrainWorkers
  BY <1>15 DEF DrainWorkers, Drains, Broken, Repairing
<1>16. CASE StartWorkers
  BY <1>16 DEF StartWorkers, Starts, Broken, Repairing
<1>17. CASE Observe
  BY <1>17 DEF Observe, Broken, Repairing
<1>18. CASE WaitDrained
  BY <1>18 DEF WaitDrained, Broken, Repairing
<1>19. CASE CloseSource
  BY <1>19 DEF CloseSource, Drains, Broken, Repairing
<1>20. CASE WriteConf
  BY <1>20 DEF WriteConf, Broken, Repairing, Target
<1>21. CASE Reload
  BY <1>21 DEF Reload, Broken, Repairing, Target
<1>22. CASE WriteVersion
  BY <1>22 DEF WriteVersion, Broken, Repairing, Target
<1>23. CASE WriteInstance
  BY <1>23 DEF WriteInstance, Broken, Repairing, Target
<1>24. CASE MarkFailed
  BY <1>24 DEF MarkFailed, Save
<1>25. CASE WaitUpgrade
  BY <1>25 DEF WaitUpgrade
<1>26. CASE Choose
  BY <1>26 DEF Choose, Undo
<1>27. CASE DrainCandidateWork
  BY <1>27 DEF DrainCandidateWork, Drains, Broken, Repairing
<1>28. CASE StartSource
  BY <1>28 DEF StartSource, Starts, Broken, Repairing
<1>29. CASE StartSourceWork
  BY <1>29 DEF StartSourceWork, Starts, Broken, Repairing
<1>30. CASE WaitSwitchedBack
  BY <1>30 DEF WaitSwitchedBack, Broken, Repairing
<1>31. CASE CloseCandidate
  BY <1>31 DEF CloseCandidate, Drains, Broken, Repairing, Repaired
<1>32. CASE DrainCandidate
  BY <1>32 DEF DrainCandidate, Drains, Broken, Repairing
<1>33. CASE RestoreData
  BY <1>33 DEF RestoreData, Broken, Repairing
<1>34. CASE SaveBoundary
  BY <1>34 DEF SaveBoundary, Save
<1>35. CASE ResumeSource
  BY <1>35 DEF ResumeSource, Starts, Broken, Repairing, Resumed, Repaired
<1>36. CASE SaveResult
  BY <1>36 DEF SaveResult, Save
<1>37. CASE EndOperation
  BY <1>37 DEF EndOperation
<1>38. CASE Reconcile
  BY <1>38 DEF Reconcile, Resumes
<1>39. CASE MigrationEnds
  BY <1>39 DEF MigrationEnds, Altered
<1>40. CASE Crash
  BY <1>40 DEF Crash
<1>41. CASE Reboot
  BY <1>41 DEF Reboot, Altered
<1>42. CASE UserWrites
  BY <1>42 DEF UserWrites
<1>43. ASSUME NEW home \in Homes, InflightEnds(home) PROVE BackInv'
  BY <1>43 DEF InflightEnds
<1>44. CASE UNCHANGED vars
  BY <1>44 DEF vars
<1> QED
  BY <1>1, <1>2, <1>3, <1>4, <1>5, <1>6, <1>7, <1>8, <1>9, <1>10, <1>11, <1>12, <1>13,
     <1>14, <1>15, <1>16, <1>17, <1>18, <1>19, <1>20, <1>21, <1>22, <1>23, <1>24, <1>25,
     <1>26, <1>27, <1>28, <1>29, <1>30, <1>31, <1>32, <1>33, <1>34, <1>35, <1>36, <1>37,
     <1>38, <1>39, <1>40, <1>41, <1>42, <1>43, <1>44
     DEF Next, Worker, Release, Activate, Repair

\* The moves of this part that need an argument.
LEMMA RolledMoves ==
  ASSUME TypeOK, PhaseInv, JournalInv, WorkInv, SiteInv, BackInv, RolledInv,
         Preflight \/ SwitchBack \/ Begin \/ SaveBoundary \/ CloseCandidate
  PROVE  RolledInv'
<1>1. CASE Preflight
  <2>1. UNCHANGED <<live, conf, version, active, up, auto, mem>> /\ tx' \in {tx, mem} /\ Open(mem)
    BY <1>1 DEF Preflight, Save, JournalInv
  <2>2. ~Final' /\ \A home : Complete(home)' <=> Complete(home)
    BY <1>1, <2>1 DEF Preflight, Complete, Final
  <2> QED
    BY <2>1, <2>2 DEF RolledInv, Open
<1>2. CASE SwitchBack
  <2>1. UNCHANGED <<live, conf, version, active, up, auto>>
    BY <1>2, SwitchBackEffect
  <2>2. ~Final' /\ \A home : Complete(home)' <=> Complete(home)
    BY <1>2, <2>1, SwitchBackEffect DEF Complete, Final
  <2> QED
    BY <1>2, <2>1, <2>2, SwitchBackEffect DEF RolledInv, Live
<1>3. CASE Begin
  <2>1. Live /\ ~Final
    BY <1>3, BeginEffect DEF PhaseInv, Steps, Live, Final
  <2> QED
    BY <1>3, <2>1, BeginEffect DEF RolledInv, JournalInv, Final
<1>4. CASE SaveBoundary
  BY <1>4, SaveBoundaryEffect DEF RolledInv, JournalInv, Live, Final, PhaseInv
<1>5. CASE CloseCandidate
  <2>1. /\ UNCHANGED <<live, conf, version, active, tx>> /\ pc' \in {At("fail", "final"), Idle}
        /\ mem'.source = mem.source /\ mem'.strategy = mem.strategy
    BY <1>5 DEF CloseCandidate, Drains, Broken, Repairing, Repaired, TypeOK, Journal
  <2>2. /\ Belongs(mem) /\ tx.status \notin {"failed", "rolled_back"} /\ mem.strategy = "online"
        /\ active = mem.source /\ NoSite /\ WorkIn({mem.source})
        /\ {live, conf, version, active} = {mem.source}
        /\ {mem.source} \X Groups \subseteq up \cap auto
    BY <1>5 DEF CloseCandidate, JournalInv, Live, PhaseInv, BackInv, Back, SiteInv, WorkInv, Belongs, Paired, Groups
  <2>3. CASE up' = up \ {<<mem.candidate, "http">>} /\ auto' = auto \ {<<mem.candidate, "http">>}
    <3>1. \A home \in Homes, group \in Groups :
            <<home, group>> \in (up \cup auto) \ {<<mem.candidate, "http">>} => home = mem.source
      BY <2>2 DEF NoSite, WorkIn, Belongs, Paired, OtherSlot, TypeOK, Journal, Homes, Groups
    <3>2. up' = {mem.source} \X Groups /\ auto' = {mem.source} \X Groups
      BY <2>2, <2>3, <3>1 DEF TypeOK, Belongs, Paired, OtherSlot, Homes, Groups
    <3> QED
      BY <2>1, <2>2, <3>2 DEF RolledInv, Complete, Live, Final
  <2>4. CASE ~(up' = up \ {<<mem.candidate, "http">>} /\ auto' = auto \ {<<mem.candidate, "http">>})
    <3>1. pc' = Idle \/ mem'.status = "held"
      BY <1>5, <2>4 DEF CloseCandidate, Drains, Broken, Repairing, TypeOK, Journal
    <3> QED
      BY <1>5, <2>1, <2>2, <3>1 DEF CloseCandidate, Drains, Broken, Repairing, RolledInv, Live, Final
  <2> QED
    BY <2>3, <2>4
<1> QED
  BY <1>1, <1>2, <1>3, <1>4, <1>5

\* A rollback is reported after the last step of the switch back only.
LEMMA StepRolled ==
  ASSUME TypeOK, PhaseInv, JournalInv, WorkInv, SiteInv, BackInv, RolledInv, [Next]_vars
  PROVE  RolledInv'
<1> USE DEF TypeOK, Journal, PhaseInv, JournalInv, RolledInv, Complete, Final, Live, Belongs, Paired,
           OtherSlot, Terminal, Homes, Groups
<1>1. CASE StartUpdate
  BY <1>1 DEF StartUpdate
<1>2. CASE StartSwitchBack
  BY <1>2 DEF StartSwitchBack
<1>3. CASE Preflight
  BY <1>3, RolledMoves
<1>4. CASE SwitchBack
  BY <1>4, RolledMoves
<1>5. CASE ObserveSwitchBack
  BY <1>5 DEF ObserveSwitchBack
<1>6. CASE Begin
  BY <1>6, RolledMoves
<1>7. CASE End
  BY <1>7, NextOf DEF End, Save
<1>8. CASE Succeed
  BY <1>8, SucceedEffect
<1>9. CASE Pull
  BY <1>9 DEF Pull, Broken, Repairing
<1>10. CASE Quiesce
  BY <1>10 DEF Quiesce, Drains, Broken, Repairing
<1>11. CASE Backup
  BY <1>11 DEF Backup, Broken, Repairing
<1>12. CASE Upgrade
  BY <1>12 DEF Upgrade, Broken, Repairing, Altered
<1>13. CASE Candidate
  BY <1>13 DEF Candidate, Starts, Broken, Repairing
<1>14. CASE OpenTraffic
  BY <1>14 DEF OpenTraffic, Save
<1>15. CASE DrainWorkers
  BY <1>15 DEF DrainWorkers, Drains, Broken, Repairing
<1>16. CASE StartWorkers
  BY <1>16 DEF StartWorkers, Starts, Broken, Repairing
<1>17. CASE Observe
  BY <1>17 DEF Observe, Broken, Repairing
<1>18. CASE WaitDrained
  BY <1>18 DEF WaitDrained, Broken, Repairing
<1>19. CASE CloseSource
  BY <1>19 DEF CloseSource, Drains, Broken, Repairing
<1>20. CASE WriteConf
  BY <1>20 DEF WriteConf, Broken, Repairing, Target
<1>21. CASE Reload
  BY <1>21 DEF Reload, Broken, Repairing, Target
<1>22. CASE WriteVersion
  BY <1>22 DEF WriteVersion, Broken, Repairing, Target
<1>23. CASE WriteInstance
  BY <1>23 DEF WriteInstance, Broken, Repairing, Target
<1>24. CASE MarkFailed
  BY <1>24 DEF MarkFailed, Save
<1>25. CASE WaitUpgrade
  BY <1>25 DEF WaitUpgrade
<1>26. CASE Choose
  BY <1>26 DEF Choose, Undo
<1>27. CASE DrainCandidateWork
  BY <1>27 DEF DrainCandidateWork, Drains, Broken, Repairing
<1>28. CASE StartSource
  BY <1>28 DEF StartSource, Starts, Broken, Repairing
<1>29. CASE StartSourceWork
  BY <1>29 DEF StartSourceWork, Starts, Broken, Repairing
<1>30. CASE WaitSwitchedBack
  BY <1>30 DEF WaitSwitchedBack, Broken, Repairing
<1>31. CASE CloseCandidate
  BY <1>31, RolledMoves
<1>32. CASE DrainCandidate
  BY <1>32 DEF DrainCandidate, Drains, Broken, Repairing
<1>33. CASE RestoreData
  BY <1>33 DEF RestoreData, Broken, Repairing
<1>34. CASE SaveBoundary
  BY <1>34, RolledMoves
<1>35. CASE ResumeSource
  BY <1>35 DEF ResumeSource, Starts, Broken, Repairing, Resumed, Repaired
<1>36. CASE SaveResult
  BY <1>36 DEF SaveResult, Save
<1>37. CASE EndOperation
  BY <1>37, EndOperationEffect
<1>38. CASE Reconcile
  BY <1>38 DEF Reconcile, Resumes
<1>39. CASE MigrationEnds
  BY <1>39 DEF MigrationEnds, Altered
<1>40. CASE Crash
  BY <1>40 DEF Crash
<1>41. CASE Reboot
  BY <1>41 DEF Reboot, Altered
<1>42. CASE UserWrites
  BY <1>42 DEF UserWrites
<1>43. ASSUME NEW home \in Homes, InflightEnds(home) PROVE RolledInv'
  <2>1. UNCHANGED <<tx, mem, pc, live, conf, version, active, up, auto>>
    BY <1>43 DEF InflightEnds
  <2> HIDE DEF TypeOK, Journal, PhaseInv, JournalInv, Homes, Groups, Terminal
  <2> QED
    BY <2>1
<1>44. CASE UNCHANGED vars
  BY <1>44 DEF vars
<1> QED
  BY <1>1, <1>2, <1>3, <1>4, <1>5, <1>6, <1>7, <1>8, <1>9, <1>10, <1>11, <1>12, <1>13,
     <1>14, <1>15, <1>16, <1>17, <1>18, <1>19, <1>20, <1>21, <1>22, <1>23, <1>24, <1>25,
     <1>26, <1>27, <1>28, <1>29, <1>30, <1>31, <1>32, <1>33, <1>34, <1>35, <1>36, <1>37,
     <1>38, <1>39, <1>40, <1>41, <1>42, <1>43, <1>44
     DEF Next, Worker, Release, Activate, Repair

\* The moves of this part that need an argument.
LEMMA UpgradeMoves ==
  ASSUME TypeOK, PhaseInv, JournalInv, UpgradeInv,
         Begin \/ Upgrade
  PROVE  UpgradeInv'
<1>1. CASE Begin
  BY <1>1, BeginEffect DEF PhaseInv, UpgradeInv, Live, Steps
<1>2. CASE Upgrade
  <2>1. Open(tx) /\ Open(mem)
    BY <1>2 DEF Upgrade, JournalInv, Before
  <2>2. CASE pc' = At("upgrade", "end")
    BY <1>2, <2>1, <2>2 DEF Upgrade, Broken, UpgradeInv, Live
  <2>3. CASE pc' \in {At("fail", "journal"), Idle}
    <3>1. UNCHANGED <<tx, mem>>
      BY <1>2, <2>3 DEF Upgrade, Broken, Repairing
    <3>2. (pc'.step = "fail" /\ pc'.phase = "journal") \/ ~Live'
      BY <2>3 DEF Live
    <3> QED
      BY <2>1, <3>1, <3>2 DEF UpgradeInv, Open
  <2> QED
    BY <1>2, <2>2, <2>3 DEF Upgrade, Broken, Repairing
<1> QED
  BY <1>1, <1>2

\* No worker comes past the wait while the upgrade container runs.
LEMMA StepUpgrade ==
  ASSUME TypeOK, PhaseInv, JournalInv, UpgradeInv, [Next]_vars
  PROVE  UpgradeInv'
<1> USE DEF TypeOK, Journal, PhaseInv, JournalInv, UpgradeInv, Open, Live, Before
<1>1. CASE StartUpdate
  BY <1>1 DEF StartUpdate
<1>2. CASE StartSwitchBack
  BY <1>2 DEF StartSwitchBack
<1>3. CASE Preflight
  BY <1>3 DEF Preflight, Save
<1>4. CASE SwitchBack
  BY <1>4 DEF SwitchBack, Save
<1>5. CASE ObserveSwitchBack
  BY <1>5 DEF ObserveSwitchBack
<1>6. CASE Begin
  BY <1>6, UpgradeMoves
<1>7. CASE End
  BY <1>7, NextOf DEF End, Save
<1>8. CASE Succeed
  BY <1>8 DEF Succeed, Save
<1>9. CASE Pull
  BY <1>9 DEF Pull, Broken, Repairing
<1>10. CASE Quiesce
  BY <1>10 DEF Quiesce, Drains, Broken, Repairing
<1>11. CASE Backup
  BY <1>11 DEF Backup, Broken, Repairing
<1>12. CASE Upgrade
  BY <1>12, UpgradeMoves
<1>13. CASE Candidate
  BY <1>13 DEF Candidate, Starts, Broken, Repairing
<1>14. CASE OpenTraffic
  BY <1>14 DEF OpenTraffic, Save
<1>15. CASE DrainWorkers
  BY <1>15 DEF DrainWorkers, Drains, Broken, Repairing
<1>16. CASE StartWorkers
  BY <1>16 DEF StartWorkers, Starts, Broken, Repairing
<1>17. CASE Observe
  BY <1>17 DEF Observe, Broken, Repairing
<1>18. CASE WaitDrained
  BY <1>18 DEF WaitDrained, Broken, Repairing
<1>19. CASE CloseSource
  BY <1>19 DEF CloseSource, Drains, Broken, Repairing
<1>20. CASE WriteConf
  BY <1>20 DEF WriteConf, Broken, Repairing, Target
<1>21. CASE Reload
  BY <1>21 DEF Reload, Broken, Repairing, Target
<1>22. CASE WriteVersion
  BY <1>22 DEF WriteVersion, Broken, Repairing, Target
<1>23. CASE WriteInstance
  BY <1>23 DEF WriteInstance, Broken, Repairing, Target
<1>24. CASE MarkFailed
  BY <1>24 DEF MarkFailed, Save
<1>25. CASE WaitUpgrade
  BY <1>25 DEF WaitUpgrade
<1>26. CASE Choose
  BY <1>26 DEF Choose, Undo
<1>27. CASE DrainCandidateWork
  BY <1>27 DEF DrainCandidateWork, Drains, Broken, Repairing
<1>28. CASE StartSource
  BY <1>28 DEF StartSource, Starts, Broken, Repairing
<1>29. CASE StartSourceWork
  BY <1>29 DEF StartSourceWork, Starts, Broken, Repairing
<1>30. CASE WaitSwitchedBack
  BY <1>30 DEF WaitSwitchedBack, Broken, Repairing
<1>31. CASE CloseCandidate
  BY <1>31 DEF CloseCandidate, Drains, Broken, Repairing, Repaired
<1>32. CASE DrainCandidate
  BY <1>32 DEF DrainCandidate, Drains, Broken, Repairing
<1>33. CASE RestoreData
  BY <1>33 DEF RestoreData, Broken, Repairing
<1>34. CASE SaveBoundary
  BY <1>34 DEF SaveBoundary, Save
<1>35. CASE ResumeSource
  BY <1>35 DEF ResumeSource, Starts, Broken, Repairing, Resumed, Repaired
<1>36. CASE SaveResult
  BY <1>36 DEF SaveResult, Save
<1>37. CASE EndOperation
  BY <1>37 DEF EndOperation
<1>38. CASE Reconcile
  BY <1>38 DEF Reconcile, Resumes
<1>39. CASE MigrationEnds
  BY <1>39 DEF MigrationEnds, Altered
<1>40. CASE Crash
  BY <1>40 DEF Crash
<1>41. CASE Reboot
  BY <1>41 DEF Reboot, Altered
<1>42. CASE UserWrites
  BY <1>42 DEF UserWrites
<1>43. ASSUME NEW home \in Homes, InflightEnds(home) PROVE UpgradeInv'
  BY <1>43 DEF InflightEnds
<1>44. CASE UNCHANGED vars
  BY <1>44 DEF vars
<1> QED
  BY <1>1, <1>2, <1>3, <1>4, <1>5, <1>6, <1>7, <1>8, <1>9, <1>10, <1>11, <1>12, <1>13,
     <1>14, <1>15, <1>16, <1>17, <1>18, <1>19, <1>20, <1>21, <1>22, <1>23, <1>24, <1>25,
     <1>26, <1>27, <1>28, <1>29, <1>30, <1>31, <1>32, <1>33, <1>34, <1>35, <1>36, <1>37,
     <1>38, <1>39, <1>40, <1>41, <1>42, <1>43, <1>44
     DEF Next, Worker, Release, Activate, Repair

\* The ingress workers are listed before the configuration is replaced.
LEMMA StepTraffic ==
  ASSUME TypeOK, PhaseInv, JournalInv, TrafficInv, [Next]_vars
  PROVE  TrafficInv'
<1> USE DEF TypeOK, Journal, PhaseInv, JournalInv, Belongs, Paired, Live, Before, Pointing, Back, TrafficInv,
           Homes
<1>1. CASE StartUpdate
  BY <1>1 DEF StartUpdate
<1>2. CASE StartSwitchBack
  BY <1>2 DEF StartSwitchBack
<1>3. CASE Preflight
  BY <1>3 DEF Preflight, Save
<1>4. CASE SwitchBack
  BY <1>4 DEF SwitchBack, Save
<1>5. CASE ObserveSwitchBack
  BY <1>5 DEF ObserveSwitchBack
<1>6. CASE Begin
  BY <1>6 DEF Begin, Save
<1>7. CASE End
  BY <1>7, NextOf DEF End, Save
<1>8. CASE Succeed
  BY <1>8 DEF Succeed, Save
<1>9. CASE Pull
  BY <1>9 DEF Pull, Broken, Repairing
<1>10. CASE Quiesce
  BY <1>10 DEF Quiesce, Drains, Broken, Repairing
<1>11. CASE Backup
  BY <1>11 DEF Backup, Broken, Repairing
<1>12. CASE Upgrade
  BY <1>12 DEF Upgrade, Broken, Repairing, Altered
<1>13. CASE Candidate
  BY <1>13 DEF Candidate, Starts, Broken, Repairing
<1>14. CASE OpenTraffic
  BY <1>14 DEF OpenTraffic, Save
<1>15. CASE DrainWorkers
  BY <1>15 DEF DrainWorkers, Drains, Broken, Repairing
<1>16. CASE StartWorkers
  BY <1>16 DEF StartWorkers, Starts, Broken, Repairing
<1>17. CASE Observe
  BY <1>17 DEF Observe, Broken, Repairing
<1>18. CASE WaitDrained
  BY <1>18 DEF WaitDrained, Broken, Repairing
<1>19. CASE CloseSource
  BY <1>19 DEF CloseSource, Drains, Broken, Repairing
<1>20. CASE WriteConf
  BY <1>20 DEF WriteConf, Broken, Repairing, Target
<1>21. CASE Reload
  BY <1>21 DEF Reload, Broken, Repairing, Target
<1>22. CASE WriteVersion
  BY <1>22 DEF WriteVersion, Broken, Repairing, Target
<1>23. CASE WriteInstance
  BY <1>23 DEF WriteInstance, Broken, Repairing, Target
<1>24. CASE MarkFailed
  BY <1>24 DEF MarkFailed, Save
<1>25. CASE WaitUpgrade
  BY <1>25 DEF WaitUpgrade
<1>26. CASE Choose
  BY <1>26 DEF Choose, Undo
<1>27. CASE DrainCandidateWork
  BY <1>27 DEF DrainCandidateWork, Drains, Broken, Repairing
<1>28. CASE StartSource
  BY <1>28 DEF StartSource, Starts, Broken, Repairing
<1>29. CASE StartSourceWork
  BY <1>29 DEF StartSourceWork, Starts, Broken, Repairing
<1>30. CASE WaitSwitchedBack
  BY <1>30 DEF WaitSwitchedBack, Broken, Repairing
<1>31. CASE CloseCandidate
  BY <1>31 DEF CloseCandidate, Drains, Broken, Repairing, Repaired
<1>32. CASE DrainCandidate
  BY <1>32 DEF DrainCandidate, Drains, Broken, Repairing
<1>33. CASE RestoreData
  BY <1>33 DEF RestoreData, Broken, Repairing
<1>34. CASE SaveBoundary
  BY <1>34 DEF SaveBoundary, Save
<1>35. CASE ResumeSource
  BY <1>35 DEF ResumeSource, Starts, Broken, Repairing, Resumed, Repaired
<1>36. CASE SaveResult
  BY <1>36 DEF SaveResult, Save
<1>37. CASE EndOperation
  BY <1>37 DEF EndOperation
<1>38. CASE Reconcile
  BY <1>38 DEF Reconcile, Resumes
<1>39. CASE MigrationEnds
  BY <1>39 DEF MigrationEnds, Altered
<1>40. CASE Crash
  BY <1>40 DEF Crash
<1>41. CASE Reboot
  BY <1>41 DEF Reboot, Altered
<1>42. CASE UserWrites
  BY <1>42 DEF UserWrites
<1>43. ASSUME NEW home \in Homes, InflightEnds(home) PROVE TrafficInv'
  BY <1>43 DEF InflightEnds
<1>44. CASE UNCHANGED vars
  BY <1>44 DEF vars
<1> QED
  BY <1>1, <1>2, <1>3, <1>4, <1>5, <1>6, <1>7, <1>8, <1>9, <1>10, <1>11, <1>12, <1>13,
     <1>14, <1>15, <1>16, <1>17, <1>18, <1>19, <1>20, <1>21, <1>22, <1>23, <1>24, <1>25,
     <1>26, <1>27, <1>28, <1>29, <1>30, <1>31, <1>32, <1>33, <1>34, <1>35, <1>36, <1>37,
     <1>38, <1>39, <1>40, <1>41, <1>42, <1>43, <1>44
     DEF Next, Worker, Release, Activate, Repair

\* The moves of this part that need an argument.
LEMMA ClosedMoves ==
  ASSUME TypeOK, PhaseInv, JournalInv, WorkInv, ClosedInv,
         StartUpdate \/ SwitchBack \/ Begin \/ SaveBoundary
  PROVE  ClosedInv'
<1>1. CASE StartUpdate
  <2>1. ~mem'.point
    BY <1>1 DEF StartUpdate, NoJournal
  <2> QED
    BY <1>1, <2>1 DEF StartUpdate, ClosedInv, Quiet, Live, After
<1>2. CASE SwitchBack
  BY <1>2, SwitchBackEffect DEF ClosedInv, Quiet, Live, After, Undoable
<1>3. CASE Begin
  <2>1. Live
    BY <1>3, BeginEffect DEF Live, PhaseInv, Steps
  <2>2. UNCHANGED <<active, live, data, up, auto>> /\ (WorkIn({})' <=> WorkIn({})) /\ (Undoable' <=> Undoable)
    BY <1>3, BeginEffect DEF WorkIn, Undoable
  <2>3. /\ (Quiet /\ pc.step \in {"quiesce", "backup"})' => Quiet /\ pc.step \in {"quiesce", "backup"}
        /\ After' => After
        /\ pc'.step \notin {"data", "preflight", "source"} /\ pc'.phase \in {"run", "journal"}
    BY <1>3, BeginEffect DEF Quiet, After, PhaseInv, Steps
  <2> QED
    BY <1>3, <2>1, <2>2, <2>3, BeginEffect DEF ClosedInv
<1>4. CASE SaveBoundary
  BY <1>4, SaveBoundaryEffect DEF ClosedInv, Quiet, After, Undoable
<1> QED
  BY <1>1, <1>2, <1>3, <1>4

\* Between point and traffic nothing that writes is started.
LEMMA StepClosed ==
  ASSUME TypeOK, PhaseInv, JournalInv, WorkInv, ClosedInv, [Next]_vars
  PROVE  ClosedInv'
<1> USE DEF TypeOK, Journal, PhaseInv, JournalInv, Belongs, Paired, OtherSlot, Live, Before, After, Quiet,
           WorkInv, WorkIn, Undoable, ClosedInv, Homes, Groups
<1>1. CASE StartUpdate
  BY <1>1, ClosedMoves
<1>2. CASE StartSwitchBack
  BY <1>2 DEF StartSwitchBack
<1>3. CASE Preflight
  BY <1>3 DEF Preflight, Save
<1>4. CASE SwitchBack
  BY <1>4, ClosedMoves
<1>5. CASE ObserveSwitchBack
  BY <1>5 DEF ObserveSwitchBack
<1>6. CASE Begin
  BY <1>6, ClosedMoves
<1>7. CASE End
  BY <1>7, NextOf DEF End, Save
<1>8. CASE Succeed
  BY <1>8 DEF Succeed, Save
<1>9. CASE Pull
  BY <1>9 DEF Pull, Broken, Repairing
<1>10. CASE Quiesce
  BY <1>10 DEF Quiesce, Drains, Broken, Repairing
<1>11. CASE Backup
  BY <1>11 DEF Backup, Broken, Repairing
<1>12. CASE Upgrade
  BY <1>12 DEF Upgrade, Broken, Repairing, Altered
<1>13. CASE Candidate
  BY <1>13 DEF Candidate, Starts, Broken, Repairing
<1>14. CASE OpenTraffic
  BY <1>14 DEF OpenTraffic, Save
<1>15. CASE DrainWorkers
  BY <1>15 DEF DrainWorkers, Drains, Broken, Repairing
<1>16. CASE StartWorkers
  BY <1>16 DEF StartWorkers, Starts, Broken, Repairing
<1>17. CASE Observe
  BY <1>17 DEF Observe, Broken, Repairing
<1>18. CASE WaitDrained
  BY <1>18 DEF WaitDrained, Broken, Repairing
<1>19. CASE CloseSource
  BY <1>19 DEF CloseSource, Drains, Broken, Repairing
<1>20. CASE WriteConf
  BY <1>20 DEF WriteConf, Broken, Repairing, Target
<1>21. CASE Reload
  BY <1>21 DEF Reload, Broken, Repairing, Target
<1>22. CASE WriteVersion
  BY <1>22 DEF WriteVersion, Broken, Repairing, Target
<1>23. CASE WriteInstance
  BY <1>23 DEF WriteInstance, Broken, Repairing, Target
<1>24. CASE MarkFailed
  BY <1>24 DEF MarkFailed, Save
<1>25. CASE WaitUpgrade
  BY <1>25 DEF WaitUpgrade
<1>26. CASE Choose
  BY <1>26 DEF Choose, Undo
<1>27. CASE DrainCandidateWork
  BY <1>27 DEF DrainCandidateWork, Drains, Broken, Repairing
<1>28. CASE StartSource
  BY <1>28 DEF StartSource, Starts, Broken, Repairing
<1>29. CASE StartSourceWork
  BY <1>29 DEF StartSourceWork, Starts, Broken, Repairing
<1>30. CASE WaitSwitchedBack
  BY <1>30 DEF WaitSwitchedBack, Broken, Repairing
<1>31. CASE CloseCandidate
  BY <1>31 DEF CloseCandidate, Drains, Broken, Repairing, Repaired
<1>32. CASE DrainCandidate
  BY <1>32 DEF DrainCandidate, Drains, Broken, Repairing
<1>33. CASE RestoreData
  BY <1>33 DEF RestoreData, Broken, Repairing
<1>34. CASE SaveBoundary
  BY <1>34, ClosedMoves
<1>35. CASE ResumeSource
  BY <1>35 DEF ResumeSource, Starts, Broken, Repairing, Resumed, Repaired
<1>36. CASE SaveResult
  BY <1>36 DEF SaveResult, Save
<1>37. CASE EndOperation
  BY <1>37 DEF EndOperation
<1>38. CASE Reconcile
  BY <1>38 DEF Reconcile, Resumes
<1>39. CASE MigrationEnds
  BY <1>39 DEF MigrationEnds, Altered
<1>40. CASE Crash
  BY <1>40 DEF Crash
<1>41. CASE Reboot
  BY <1>41 DEF Reboot, Altered
<1>42. CASE UserWrites
  BY <1>42 DEF UserWrites
<1>43. ASSUME NEW home \in Homes, InflightEnds(home) PROVE ClosedInv'
  BY <1>43 DEF InflightEnds
<1>44. CASE UNCHANGED vars
  BY <1>44 DEF vars
<1> QED
  BY <1>1, <1>2, <1>3, <1>4, <1>5, <1>6, <1>7, <1>8, <1>9, <1>10, <1>11, <1>12, <1>13,
     <1>14, <1>15, <1>16, <1>17, <1>18, <1>19, <1>20, <1>21, <1>22, <1>23, <1>24, <1>25,
     <1>26, <1>27, <1>28, <1>29, <1>30, <1>31, <1>32, <1>33, <1>34, <1>35, <1>36, <1>37,
     <1>38, <1>39, <1>40, <1>41, <1>42, <1>43, <1>44
     DEF Next, Worker, Release, Activate, Repair

--------------------
(* While faults are few.                                                    *)

\* A fault is a failed write, a failed step, a deadline, a crash or a reboot.  With two the
\* journal cannot mislead yet.
Few == faults <= 2

Unfinished(j) == j.status \in {"running", "held"}

\* The home answers requests, and would again after a reboot.
Serving(home) == <<home, "http">> \in up \cap auto

\* The ingress serves the home that the identity names, on disk and in memory, and no
\* request is left in another one.
Settled ==
  live = active /\ conf = (IF active = "site" THEN "none" ELSE active) /\ inflight = {}
Steady == Settled /\ Serving(active)

\* A maintenance release that has not moved traffic, or resumes its source.
Staying(j) == j.strategy = "maintenance" /\ (~j.opened \/ j.stage = "resume")

\* The journal says that traffic of an online release is at its candidate for good.
Reached(j) ==
  j.strategy = "online" /\ (j.status = "succeeded" \/ (j.stage = "drain" /\ Unfinished(j)))
\* It is there, and the release knows the ingress workers that still serve the source.
Arrived(j) == {live, conf, active} = {j.candidate} /\ inflight \subseteq j.old

\* A worker switches back, or has done so and not saved it.
Undoing ==
  pc.step = "back" \/ (Final /\ mem.strategy = "online" /\ mem.stage # "drain")

\* What copy and file say at each position.
AgreeInv ==
  /\ pc.step \in Steps =>
       /\ tx.status = "running" /\ mem.status = "running"
       /\ tx.stage = mem.stage /\ tx.opened = mem.opened
       /\ IF pc.phase \in {"begin", "succeed"} THEN mem.stage \notin {"resume", "succeeded"}
          ELSE mem.stage = pc.step
       /\ pc.phase = "begin" => mem.stage # "drain"
  /\ pc.step = "preflight" => mem.status = "running" /\ mem.stage = "none"
  /\ pc.step = "switch-back" /\ pc.phase = "observe" =>
       /\ tx.status = "running" /\ tx.stage = "switch-back"
       /\ mem.status = "running" /\ mem.stage = "switch-back"
  /\ pc.step = "redrain" => mem = tx /\ tx.stage = "drain" /\ Unfinished(tx)
  /\ pc.step \in {"back", "data", "source"} \/ (pc.step = "fail" /\ pc.phase \in {"wait", "choose"}) =>
       Unfinished(mem)
  /\ Final => mem.status # "succeeded"
  /\ pc.step = "back" => mem.stage # "drain"
  /\ pc.step \in {"data", "source"} => Staying(mem)
  /\ Live /\ Staying(mem) => Unfinished(tx)

\* The candidate has been started, and is not stopped while the release goes forward.
ReadyInv ==
  \/ pc.step = "candidate" /\ pc.phase = "end"
  \/ pc.step \in {"switch", "workers", "observe", "drain"}
  => Serving(mem.candidate)

\* The count of faults.  A worker that undoes a release which the file calls arrived has
\* failed to save its success, and then to mark its failure; to leave the file so for the
\* next worker takes a third fault.
LagInv ==
  Live /\ Reached(tx) =>
    \/ pc.step \in {"drain", "redrain"}
    \/ pc.step = "fail" /\ mem.stage = "drain"
    \/ pc.step = "fail" /\ pc.phase = "journal" /\ faults >= 1
    \/ pc.step \in {"fail", "back"} /\ faults >= 2

\* Before traffic moves, it is at the source alone.
StayInv ==
  Few =>
    /\ Unfinished(tx) /\ Staying(tx) => active = tx.source /\ Settled
    /\ Live /\ Staying(mem) => active = mem.source /\ Settled
    /\ (Before /\ ~Pointing) \/ (pc.step = "switch" /\ pc.phase = "reload") =>
         live = mem.source /\ inflight = {}

\* After it moved, the old requests are in the source, and none are left behind the wait;
\* a journal at its drain is true.
ReachInv ==
  Few =>
    /\ Pointing /\ pc.phase # "reload" => inflight \subseteq {mem.source} \ {"site"}
    /\ pc.step = "drain" /\ pc.phase \in {"end", "succeed"} => inflight = {}
    /\ pc.step = "redrain" /\ pc.phase \in {"close", "succeed"} => inflight = {}
    /\ tx.strategy = "online" /\ tx.stage = "drain" /\ Unfinished(tx) /\ ~Undoing => Arrived(tx)
    /\ Live /\ mem.strategy = "online" /\ mem.stage = "drain" => Arrived(mem)

\* Between two releases everything is at the home that the identity names.
SteadyInv ==
  Few =>
    /\ tx.status \in Terminal /\ ~Undoing => Steady
    /\ Final /\ mem.status \in Terminal => Steady

\* The homes of the ingress answer; an old one would not vanish in a reboot alone.
ServeInv ==
  Few /\ tx.strategy = "online" =>
    /\ Serving(live) /\ Serving(conf)
    /\ \A home \in inflight : <<home, "http">> \in up => <<home, "http">> \in auto

\* A release that undoes its upgrade prepared it while the ingress served its source.
UndoInv ==
  faults <= 3 /\ Undoable /\ pc.step \in {"fail", "data", "source"} => live = mem.source

FaultInv ==
  /\ AgreeInv /\ ReadyInv /\ LagInv /\ StayInv /\ ReachInv /\ SteadyInv /\ ServeInv /\ UndoInv

\* Every save leaves copy and file alike, or is a failure.
LEMMA StepAgree ==
  ASSUME TypeOK, PhaseInv, JournalInv, RolledInv, ClosedInv, AgreeInv, [Next]_vars
  PROVE  AgreeInv'
<1> USE DEF TypeOK, Journal, Terminal, Steps, PhaseInv, JournalInv, Live, Before, After, Open,
           Belongs, Paired, RolledInv, Final, ClosedInv, AgreeInv, Unfinished, Staying
<1>1. CASE StartUpdate
  BY <1>1, StartUpdateEffect
<1>2. CASE StartSwitchBack
  BY <1>2 DEF StartSwitchBack
<1>3. CASE Preflight
  BY <1>3, PreflightEffect
<1>4. CASE SwitchBack
  BY <1>4, SwitchBackEffect
<1>5. CASE ObserveSwitchBack
  BY <1>5 DEF ObserveSwitchBack
<1>6. CASE Begin
  BY <1>6 DEF Begin, Save
<1>7. CASE End
  BY <1>7, NextOf DEF End, Save
<1>8. CASE Succeed
  BY <1>8 DEF Succeed, Save
<1>9. CASE Pull
  BY <1>9 DEF Pull, Broken, Repairing
<1>10. CASE Quiesce
  BY <1>10 DEF Quiesce, Drains, Broken, Repairing
<1>11. CASE Backup
  BY <1>11 DEF Backup, Broken, Repairing
<1>12. CASE Upgrade
  BY <1>12 DEF Upgrade, Broken, Repairing, Altered
<1>13. CASE Candidate
  BY <1>13 DEF Candidate, Starts, Broken, Repairing
<1>14. CASE OpenTraffic
  BY <1>14, OpenTrafficEffect
<1>15. CASE DrainWorkers
  BY <1>15 DEF DrainWorkers, Drains, Broken, Repairing
<1>16. CASE StartWorkers
  BY <1>16 DEF StartWorkers, Starts, Broken, Repairing
<1>17. CASE Observe
  BY <1>17 DEF Observe, Broken, Repairing
<1>18. CASE WaitDrained
  BY <1>18 DEF WaitDrained, Broken, Repairing
<1>19. CASE CloseSource
  BY <1>19 DEF CloseSource, Drains, Broken, Repairing
<1>20. CASE WriteConf
  BY <1>20 DEF WriteConf, Broken, Repairing, Target
<1>21. CASE Reload
  BY <1>21 DEF Reload, Broken, Repairing, Target
<1>22. CASE WriteVersion
  BY <1>22 DEF WriteVersion, Broken, Repairing, Target
<1>23. CASE WriteInstance
  BY <1>23 DEF WriteInstance, Broken, Repairing, Target
<1>24. CASE MarkFailed
  BY <1>24 DEF MarkFailed, Save
<1>25. CASE WaitUpgrade
  BY <1>25 DEF WaitUpgrade
<1>26. CASE Choose
  BY <1>26 DEF Choose, Undo
<1>27. CASE DrainCandidateWork
  BY <1>27 DEF DrainCandidateWork, Drains, Broken, Repairing
<1>28. CASE StartSource
  BY <1>28 DEF StartSource, Starts, Broken, Repairing
<1>29. CASE StartSourceWork
  BY <1>29 DEF StartSourceWork, Starts, Broken, Repairing
<1>30. CASE WaitSwitchedBack
  BY <1>30 DEF WaitSwitchedBack, Broken, Repairing
<1>31. CASE CloseCandidate
  BY <1>31 DEF CloseCandidate, Drains, Broken, Repairing, Repaired
<1>32. CASE DrainCandidate
  BY <1>32 DEF DrainCandidate, Drains, Broken, Repairing
<1>33. CASE RestoreData
  BY <1>33 DEF RestoreData, Broken, Repairing
<1>34. CASE SaveBoundary
  BY <1>34, SaveBoundaryEffect
<1>35. CASE ResumeSource
  BY <1>35 DEF ResumeSource, Starts, Broken, Repairing, Resumed, Repaired
<1>36. CASE SaveResult
  BY <1>36 DEF SaveResult, Save
<1>37. CASE EndOperation
  BY <1>37 DEF EndOperation
<1>38. CASE Reconcile
  BY <1>38 DEF Reconcile, Resumes
<1>39. CASE MigrationEnds
  BY <1>39 DEF MigrationEnds, Altered
<1>40. CASE Crash
  BY <1>40 DEF Crash
<1>41. CASE Reboot
  BY <1>41 DEF Reboot, Altered
<1>42. CASE UserWrites
  BY <1>42 DEF UserWrites
<1>43. ASSUME NEW home \in Homes, InflightEnds(home) PROVE AgreeInv'
  BY <1>43 DEF InflightEnds
<1>44. CASE UNCHANGED vars
  BY <1>44 DEF vars
<1> QED
  BY <1>1, <1>2, <1>3, <1>4, <1>5, <1>6, <1>7, <1>8, <1>9, <1>10, <1>11, <1>12, <1>13, <1>14,
     <1>15, <1>16, <1>17, <1>18, <1>19, <1>20, <1>21, <1>22, <1>23, <1>24, <1>25, <1>26, <1>27,
     <1>28, <1>29, <1>30, <1>31, <1>32, <1>33, <1>34, <1>35, <1>36, <1>37, <1>38, <1>39, <1>40,
     <1>41, <1>42, <1>43, <1>44
     DEF Next, Worker, Release, Activate, Repair

\* The drains of a release spare its candidate.
LEMMA StepReady ==
  ASSUME TypeOK, PhaseInv, JournalInv, ReadyInv, [Next]_vars
  PROVE  ReadyInv'
<1> USE DEF TypeOK, Journal, Homes, PhaseInv, JournalInv, Live, Before, Belongs, Paired,
           OtherSlot, ReadyInv, Serving
<1>1. CASE StartUpdate
  BY <1>1 DEF StartUpdate
<1>2. CASE StartSwitchBack
  BY <1>2 DEF StartSwitchBack
<1>3. CASE Preflight
  BY <1>3 DEF Preflight, Save
<1>4. CASE SwitchBack
  BY <1>4 DEF SwitchBack, Save
<1>5. CASE ObserveSwitchBack
  BY <1>5 DEF ObserveSwitchBack
<1>6. CASE Begin
  BY <1>6 DEF Begin, Save
<1>7. CASE End
  BY <1>7, NextOf DEF End, Save
<1>8. CASE Succeed
  BY <1>8 DEF Succeed, Save
<1>9. CASE Pull
  BY <1>9 DEF Pull, Broken, Repairing
<1>10. CASE Quiesce
  BY <1>10 DEF Quiesce, Drains, Broken, Repairing
<1>11. CASE Backup
  BY <1>11 DEF Backup, Broken, Repairing
<1>12. CASE Upgrade
  BY <1>12 DEF Upgrade, Broken, Repairing, Altered
<1>13. CASE Candidate
  BY <1>13 DEF Candidate, Starts, Broken, Repairing
<1>14. CASE OpenTraffic
  BY <1>14 DEF OpenTraffic, Save
<1>15. CASE DrainWorkers
  BY <1>15 DEF DrainWorkers, Drains, Broken, Repairing
<1>16. CASE StartWorkers
  BY <1>16 DEF StartWorkers, Starts, Broken, Repairing
<1>17. CASE Observe
  BY <1>17 DEF Observe, Broken, Repairing
<1>18. CASE WaitDrained
  BY <1>18 DEF WaitDrained, Broken, Repairing
<1>19. CASE CloseSource
  BY <1>19 DEF CloseSource, Drains, Broken, Repairing
<1>20. CASE WriteConf
  BY <1>20 DEF WriteConf, Broken, Repairing, Target
<1>21. CASE Reload
  BY <1>21 DEF Reload, Broken, Repairing, Target
<1>22. CASE WriteVersion
  BY <1>22 DEF WriteVersion, Broken, Repairing, Target
<1>23. CASE WriteInstance
  BY <1>23 DEF WriteInstance, Broken, Repairing, Target
<1>24. CASE MarkFailed
  BY <1>24 DEF MarkFailed, Save
<1>25. CASE WaitUpgrade
  BY <1>25 DEF WaitUpgrade
<1>26. CASE Choose
  BY <1>26 DEF Choose, Undo
<1>27. CASE DrainCandidateWork
  BY <1>27 DEF DrainCandidateWork, Drains, Broken, Repairing
<1>28. CASE StartSource
  BY <1>28 DEF StartSource, Starts, Broken, Repairing
<1>29. CASE StartSourceWork
  BY <1>29 DEF StartSourceWork, Starts, Broken, Repairing
<1>30. CASE WaitSwitchedBack
  BY <1>30 DEF WaitSwitchedBack, Broken, Repairing
<1>31. CASE CloseCandidate
  BY <1>31 DEF CloseCandidate, Drains, Broken, Repairing, Repaired
<1>32. CASE DrainCandidate
  BY <1>32 DEF DrainCandidate, Drains, Broken, Repairing
<1>33. CASE RestoreData
  BY <1>33 DEF RestoreData, Broken, Repairing
<1>34. CASE SaveBoundary
  BY <1>34 DEF SaveBoundary, Save
<1>35. CASE ResumeSource
  BY <1>35 DEF ResumeSource, Starts, Broken, Repairing, Resumed, Repaired
<1>36. CASE SaveResult
  BY <1>36 DEF SaveResult, Save
<1>37. CASE EndOperation
  BY <1>37 DEF EndOperation
<1>38. CASE Reconcile
  BY <1>38 DEF Reconcile, Resumes
<1>39. CASE MigrationEnds
  BY <1>39 DEF MigrationEnds, Altered
<1>40. CASE Crash
  BY <1>40 DEF Crash
<1>41. CASE Reboot
  BY <1>41 DEF Reboot, Altered
<1>42. CASE UserWrites
  BY <1>42 DEF UserWrites
<1>43. ASSUME NEW home \in Homes, InflightEnds(home) PROVE ReadyInv'
  BY <1>43 DEF InflightEnds
<1>44. CASE UNCHANGED vars
  BY <1>44 DEF vars
<1> QED
  BY <1>1, <1>2, <1>3, <1>4, <1>5, <1>6, <1>7, <1>8, <1>9, <1>10, <1>11, <1>12, <1>13, <1>14,
     <1>15, <1>16, <1>17, <1>18, <1>19, <1>20, <1>21, <1>22, <1>23, <1>24, <1>25, <1>26, <1>27,
     <1>28, <1>29, <1>30, <1>31, <1>32, <1>33, <1>34, <1>35, <1>36, <1>37, <1>38, <1>39, <1>40,
     <1>41, <1>42, <1>43, <1>44
     DEF Next, Worker, Release, Activate, Repair

\* Only faults set the file back.
LEMMA StepLag ==
  ASSUME TypeOK, PhaseInv, JournalInv, AgreeInv, LagInv, [Next]_vars
  PROVE  LagInv'
<1> USE DEF TypeOK, Journal, Terminal, Steps, PhaseInv, JournalInv, Live, Before, Open, AgreeInv,
           Unfinished, Reached, LagInv
<1>1. CASE StartUpdate
  BY <1>1 DEF StartUpdate
<1>2. CASE StartSwitchBack
  BY <1>2 DEF StartSwitchBack
<1>3. CASE Preflight
  BY <1>3 DEF Preflight, Save
<1>4. CASE SwitchBack
  BY <1>4, SwitchBackEffect
<1>5. CASE ObserveSwitchBack
  BY <1>5 DEF ObserveSwitchBack
<1>6. CASE Begin
  BY <1>6 DEF Begin, Save
<1>7. CASE End
  BY <1>7, NextOf DEF End, Save
<1>8. CASE Succeed
  BY <1>8 DEF Succeed, Save
<1>9. CASE Pull
  BY <1>9 DEF Pull, Broken, Repairing
<1>10. CASE Quiesce
  BY <1>10 DEF Quiesce, Drains, Broken, Repairing
<1>11. CASE Backup
  BY <1>11 DEF Backup, Broken, Repairing
<1>12. CASE Upgrade
  BY <1>12 DEF Upgrade, Broken, Repairing, Altered
<1>13. CASE Candidate
  BY <1>13 DEF Candidate, Starts, Broken, Repairing
<1>14. CASE OpenTraffic
  BY <1>14 DEF OpenTraffic, Save
<1>15. CASE DrainWorkers
  BY <1>15 DEF DrainWorkers, Drains, Broken, Repairing
<1>16. CASE StartWorkers
  BY <1>16 DEF StartWorkers, Starts, Broken, Repairing
<1>17. CASE Observe
  BY <1>17 DEF Observe, Broken, Repairing
<1>18. CASE WaitDrained
  BY <1>18 DEF WaitDrained, Broken, Repairing
<1>19. CASE CloseSource
  BY <1>19 DEF CloseSource, Drains, Broken, Repairing
<1>20. CASE WriteConf
  BY <1>20 DEF WriteConf, Broken, Repairing, Target
<1>21. CASE Reload
  BY <1>21 DEF Reload, Broken, Repairing, Target
<1>22. CASE WriteVersion
  BY <1>22 DEF WriteVersion, Broken, Repairing, Target
<1>23. CASE WriteInstance
  BY <1>23 DEF WriteInstance, Broken, Repairing, Target
<1>24. CASE MarkFailed
  BY <1>24 DEF MarkFailed, Save
<1>25. CASE WaitUpgrade
  BY <1>25 DEF WaitUpgrade
<1>26. CASE Choose
  BY <1>26 DEF Choose, Undo
<1>27. CASE DrainCandidateWork
  BY <1>27 DEF DrainCandidateWork, Drains, Broken, Repairing
<1>28. CASE StartSource
  BY <1>28 DEF StartSource, Starts, Broken, Repairing
<1>29. CASE StartSourceWork
  BY <1>29 DEF StartSourceWork, Starts, Broken, Repairing
<1>30. CASE WaitSwitchedBack
  BY <1>30 DEF WaitSwitchedBack, Broken, Repairing
<1>31. CASE CloseCandidate
  BY <1>31 DEF CloseCandidate, Drains, Broken, Repairing, Repaired
<1>32. CASE DrainCandidate
  BY <1>32 DEF DrainCandidate, Drains, Broken, Repairing
<1>33. CASE RestoreData
  BY <1>33 DEF RestoreData, Broken, Repairing
<1>34. CASE SaveBoundary
  BY <1>34, SaveBoundaryEffect
<1>35. CASE ResumeSource
  BY <1>35 DEF ResumeSource, Starts, Broken, Repairing, Resumed, Repaired
<1>36. CASE SaveResult
  BY <1>36 DEF SaveResult, Save
<1>37. CASE EndOperation
  BY <1>37 DEF EndOperation
<1>38. CASE Reconcile
  BY <1>38 DEF Reconcile, Resumes
<1>39. CASE MigrationEnds
  BY <1>39 DEF MigrationEnds, Altered
<1>40. CASE Crash
  BY <1>40 DEF Crash
<1>41. CASE Reboot
  BY <1>41 DEF Reboot, Altered
<1>42. CASE UserWrites
  BY <1>42 DEF UserWrites
<1>43. ASSUME NEW home \in Homes, InflightEnds(home) PROVE LagInv'
  BY <1>43 DEF InflightEnds
<1>44. CASE UNCHANGED vars
  BY <1>44 DEF vars
<1> QED
  BY <1>1, <1>2, <1>3, <1>4, <1>5, <1>6, <1>7, <1>8, <1>9, <1>10, <1>11, <1>12, <1>13, <1>14,
     <1>15, <1>16, <1>17, <1>18, <1>19, <1>20, <1>21, <1>22, <1>23, <1>24, <1>25, <1>26, <1>27,
     <1>28, <1>29, <1>30, <1>31, <1>32, <1>33, <1>34, <1>35, <1>36, <1>37, <1>38, <1>39, <1>40,
     <1>41, <1>42, <1>43, <1>44
     DEF Next, Worker, Release, Activate, Repair

\* Nothing but the reload behind opened traffic moves a maintenance release.
LEMMA StepStay ==
  ASSUME TypeOK, PhaseInv, JournalInv, ClosedInv, AgreeInv, StayInv, SteadyInv, [Next]_vars
  PROVE  StayInv'
<1> USE DEF TypeOK, Journal, Terminal, Steps, PhaseInv, JournalInv, Live, Before, Pointing, Open,
           Belongs, Paired, ClosedInv, AgreeInv, Unfinished, Staying, Undoing, Settled, Steady,
           Final, Few, StayInv, SteadyInv
<1>1. CASE StartUpdate
  BY <1>1 DEF StartUpdate
<1>2. CASE StartSwitchBack
  BY <1>2 DEF StartSwitchBack
<1>3. CASE Preflight
  BY <1>3 DEF Preflight, Save
<1>4. CASE SwitchBack
  BY <1>4, SwitchBackEffect, FaultsGrow
<1>5. CASE ObserveSwitchBack
  BY <1>5 DEF ObserveSwitchBack
<1>6. CASE Begin
  BY <1>6 DEF Begin, Save
<1>7. CASE End
  BY <1>7, NextOf DEF End, Save
<1>8. CASE Succeed
  BY <1>8, SucceedEffect, FaultsGrow
<1>9. CASE Pull
  BY <1>9 DEF Pull, Broken, Repairing
<1>10. CASE Quiesce
  BY <1>10 DEF Quiesce, Drains, Broken, Repairing
<1>11. CASE Backup
  BY <1>11 DEF Backup, Broken, Repairing
<1>12. CASE Upgrade
  BY <1>12 DEF Upgrade, Broken, Repairing, Altered
<1>13. CASE Candidate
  BY <1>13 DEF Candidate, Starts, Broken, Repairing
<1>14. CASE OpenTraffic
  BY <1>14 DEF OpenTraffic, Save
<1>15. CASE DrainWorkers
  BY <1>15 DEF DrainWorkers, Drains, Broken, Repairing
<1>16. CASE StartWorkers
  BY <1>16 DEF StartWorkers, Starts, Broken, Repairing
<1>17. CASE Observe
  BY <1>17 DEF Observe, Broken, Repairing
<1>18. CASE WaitDrained
  BY <1>18 DEF WaitDrained, Broken, Repairing
<1>19. CASE CloseSource
  BY <1>19 DEF CloseSource, Drains, Broken, Repairing
<1>20. CASE WriteConf
  BY <1>20 DEF WriteConf, Broken, Repairing, Target
<1>21. CASE Reload
  BY <1>21 DEF Reload, Broken, Repairing, Target
<1>22. CASE WriteVersion
  BY <1>22 DEF WriteVersion, Broken, Repairing, Target
<1>23. CASE WriteInstance
  BY <1>23 DEF WriteInstance, Broken, Repairing, Target
<1>24. CASE MarkFailed
  BY <1>24 DEF MarkFailed, Save
<1>25. CASE WaitUpgrade
  BY <1>25 DEF WaitUpgrade
<1>26. CASE Choose
  BY <1>26 DEF Choose, Undo
<1>27. CASE DrainCandidateWork
  BY <1>27 DEF DrainCandidateWork, Drains, Broken, Repairing
<1>28. CASE StartSource
  BY <1>28 DEF StartSource, Starts, Broken, Repairing
<1>29. CASE StartSourceWork
  BY <1>29 DEF StartSourceWork, Starts, Broken, Repairing
<1>30. CASE WaitSwitchedBack
  BY <1>30 DEF WaitSwitchedBack, Broken, Repairing
<1>31. CASE CloseCandidate
  BY <1>31 DEF CloseCandidate, Drains, Broken, Repairing, Repaired
<1>32. CASE DrainCandidate
  BY <1>32 DEF DrainCandidate, Drains, Broken, Repairing
<1>33. CASE RestoreData
  BY <1>33 DEF RestoreData, Broken, Repairing
<1>34. CASE SaveBoundary
  BY <1>34, SaveBoundaryEffect, FaultsGrow
<1>35. CASE ResumeSource
  BY <1>35 DEF ResumeSource, Starts, Broken, Repairing, Resumed, Repaired
<1>36. CASE SaveResult
  BY <1>36 DEF SaveResult, Save
<1>37. CASE EndOperation
  BY <1>37, FaultsGrow, EndOperationEffect
<1>38. CASE Reconcile
  BY <1>38 DEF Reconcile, Resumes
<1>39. CASE MigrationEnds
  BY <1>39 DEF MigrationEnds, Altered
<1>40. CASE Crash
  BY <1>40 DEF Crash
<1>41. CASE Reboot
  BY <1>41 DEF Reboot, Altered
<1>42. CASE UserWrites
  BY <1>42 DEF UserWrites
<1>43. ASSUME NEW home \in Homes, InflightEnds(home) PROVE StayInv'
  BY <1>43 DEF InflightEnds
<1>44. CASE UNCHANGED vars
  BY <1>44 DEF vars
<1> QED
  BY <1>1, <1>2, <1>3, <1>4, <1>5, <1>6, <1>7, <1>8, <1>9, <1>10, <1>11, <1>12, <1>13, <1>14,
     <1>15, <1>16, <1>17, <1>18, <1>19, <1>20, <1>21, <1>22, <1>23, <1>24, <1>25, <1>26, <1>27,
     <1>28, <1>29, <1>30, <1>31, <1>32, <1>33, <1>34, <1>35, <1>36, <1>37, <1>38, <1>39, <1>40,
     <1>41, <1>42, <1>43, <1>44
     DEF Next, Worker, Release, Activate, Repair

\* The moves of this part that need an argument.
LEMMA ReachMoves ==
  ASSUME TypeOK, PhaseInv, JournalInv, AgreeInv, LagInv, ReachInv, [Next]_vars,
         StartUpdate \/ EndOperation \/ MarkFailed \/ Crash \/ Reboot \/ Succeed \/ SwitchBack
           \/ WaitUpgrade \/ MigrationEnds \/ UserWrites \/ (\E home \in Homes : InflightEnds(home))
           \/ UNCHANGED vars
  PROVE  ReachInv'
<1> SUFFICES ASSUME Few' PROVE ReachInv'
  BY DEF ReachInv
<1>0. Few
  BY FaultsGrow DEF Few
<1>1. CASE EndOperation
  <2>1. ~Pointing' /\ ~Live' /\ ~Undoing' /\ ~Undoing /\ pc'.step = "idle"
    BY <1>1, EndOperationEffect DEF Pointing, Live, Undoing, Final
  <2> QED
    BY <1>0, <1>1, <2>1, EndOperationEffect DEF ReachInv, Unfinished, Arrived
<1>2. CASE MarkFailed
  <2>1. ~Pointing' /\ ~Undoing /\ Live /\ pc'.step = "fail"
    BY <1>2, MarkFailedEffect DEF Pointing, Live, Undoing, Final
  <2> QED
    BY <1>0, <1>2, <2>1, MarkFailedEffect DEF ReachInv, Unfinished, Arrived, JournalInv
<1>3. CASE Reboot
  <2>1. ~Pointing' /\ ~Live' /\ ~Undoing' /\ pc'.step = "idle"
    BY <1>3 DEF Reboot, Pointing, Live, Undoing, Final
  <2>2. UNCHANGED <<tx, active, conf>> /\ inflight' = {} /\ faults' = faults + 1
    BY <1>3 DEF Reboot
  <2>3. ASSUME tx.strategy = "online", tx.stage = "drain", Unfinished(tx)
        PROVE  Arrived(tx)'
    <3>1. Undoing => faults >= 2
      BY <2>3 DEF Undoing, LagInv, Reached, Live, Final
    <3>2. ~Undoing
      BY <2>2, <3>1, FaultsGrow DEF Few
    <3>3. Arrived(tx)
      BY <1>0, <2>3, <3>2 DEF ReachInv
    <3>4. live' = tx.candidate
      BY <1>3, <3>3, <2>3 DEF Reboot, Arrived, JournalInv, NoJournal, Belongs, Paired, OtherSlot,
         TypeOK, Journal, Homes
    <3> QED
      BY <2>2, <3>3, <3>4 DEF Arrived
  <2> QED
    BY <2>1, <2>2, <2>3 DEF ReachInv, Unfinished
<1>4. CASE Succeed
  <2>1. /\ mem'.stage = "succeeded" /\ tx' \in {tx, mem'} /\ UNCHANGED <<live, conf, active, inflight>>
        /\ ~Pointing' /\ pc'.step \in {"finish", "fail"} /\ pc.step \in {"drain", "redrain"}
    BY <1>4, SucceedEffect DEF Pointing, PhaseInv
  <2>2. ~Undoing
    BY <2>1 DEF Undoing, Final
  <2> QED
    BY <1>0, <2>1, <2>2 DEF ReachInv, Unfinished, Arrived
<1>5. CASE SwitchBack
  <2>1. /\ UNCHANGED <<live, conf, active, inflight>> /\ ~Pointing' /\ ~Undoing
        /\ pc'.step \in {"finish", "switch-back"}
        /\ tx' = tx \/ tx'.stage = "switch-back"
        /\ Live' => mem'.stage = "switch-back"
    BY <1>5, SwitchBackEffect DEF Pointing, Live, Undoing, Final, SwitchBack
  <2> QED
    BY <1>0, <2>1 DEF ReachInv, Unfinished, Arrived
<1>6. CASE WaitUpgrade
  <2>1. /\ UNCHANGED <<mem, live, conf, active, inflight>> /\ ~Pointing' /\ ~Undoing /\ Live
        /\ pc'.step \in {"finish", "fail"} /\ tx' \in {tx, mem}
    BY <1>6 DEF WaitUpgrade, Pointing, Live, Undoing, Final
  <2> QED
    BY <1>0, <2>1 DEF ReachInv, Unfinished, Arrived, JournalInv
<1>7. CASE Crash
  <2>1. ~Pointing' /\ ~Live' /\ ~Undoing' /\ pc'.step = "idle"
    BY <1>7 DEF Crash, Pointing, Live, Undoing, Final
  <2>2. UNCHANGED <<tx, live, active, conf, inflight>> /\ faults' = faults + 1
    BY <1>7 DEF Crash
  <2>3. ASSUME tx.strategy = "online", tx.stage = "drain", Unfinished(tx)
        PROVE  ~Undoing
    BY <2>2, <2>3, FaultsGrow DEF Undoing, LagInv, Reached, Live, Final, Few
  <2> QED
    BY <1>0, <2>1, <2>2, <2>3 DEF ReachInv, Unfinished, Arrived
<1>8. CASE StartUpdate
  <2>1. /\ UNCHANGED <<tx, live, active, conf, inflight>> /\ ~Pointing' /\ ~Live' /\ ~Undoing
        /\ pc'.step = "preflight"
    BY <1>8, StartUpdateEffect DEF StartUpdate, Pointing, Live, Undoing, Final
  <2> QED
    BY <1>0, <2>1 DEF ReachInv, Unfinished, Arrived
<1>9. CASE \/ MigrationEnds \/ UserWrites \/ UNCHANGED vars
           \/ \E home \in Homes : InflightEnds(home)
  <2>1. UNCHANGED <<tx, mem, pc, live, active, conf>> /\ inflight' \subseteq inflight
    BY <1>9 DEF MigrationEnds, UserWrites, InflightEnds, vars
  <2>2. UNCHANGED <<Pointing, Live, Undoing>>
    BY <2>1 DEF Pointing, Live, Undoing, Final
  <2>3. (Arrived(tx) => Arrived(tx)') /\ (Arrived(mem) => Arrived(mem)')
    BY <2>1 DEF Arrived
  <2> QED
    BY <1>0, <2>1, <2>2, <2>3 DEF ReachInv, Unfinished
<1> QED
  BY <1>1, <1>2, <1>3, <1>4, <1>5, <1>6, <1>7, <1>8, <1>9

\* Arrived traffic leaves the candidate only by a switch back that is recorded.
LEMMA StepReach ==
  ASSUME TypeOK, PhaseInv, JournalInv, WorkInv, TrafficInv, AgreeInv, LagInv, StayInv, ReachInv,
         [Next]_vars
  PROVE  ReachInv'
<1> USE DEF TypeOK, Journal, Terminal, Steps, Homes, PhaseInv, JournalInv, Live, Before, After,
           Pointing, Open, Belongs, Paired, WorkInv, TrafficInv, AgreeInv, Unfinished, Arrived,
           Undoing, Reached, LagInv, Final, Few, StayInv, ReachInv
<1>1. CASE StartUpdate
  BY <1>1, ReachMoves
<1>2. CASE StartSwitchBack
  BY <1>2 DEF StartSwitchBack
<1>3. CASE Preflight
  BY <1>3 DEF Preflight, Save
<1>4. CASE SwitchBack
  BY <1>4, ReachMoves
<1>5. CASE ObserveSwitchBack
  BY <1>5 DEF ObserveSwitchBack
<1>6. CASE Begin
  BY <1>6 DEF Begin, Save
<1>7. CASE End
  BY <1>7, NextOf DEF End, Save
<1>8. CASE Succeed
  BY <1>8, ReachMoves
<1>9. CASE Pull
  BY <1>9 DEF Pull, Broken, Repairing
<1>10. CASE Quiesce
  BY <1>10 DEF Quiesce, Drains, Broken, Repairing
<1>11. CASE Backup
  BY <1>11 DEF Backup, Broken, Repairing
<1>12. CASE Upgrade
  BY <1>12 DEF Upgrade, Broken, Repairing, Altered
<1>13. CASE Candidate
  BY <1>13 DEF Candidate, Starts, Broken, Repairing
<1>14. CASE OpenTraffic
  BY <1>14 DEF OpenTraffic, Save
<1>15. CASE DrainWorkers
  BY <1>15 DEF DrainWorkers, Drains, Broken, Repairing
<1>16. CASE StartWorkers
  BY <1>16 DEF StartWorkers, Starts, Broken, Repairing
<1>17. CASE Observe
  BY <1>17 DEF Observe, Broken, Repairing
<1>18. CASE WaitDrained
  BY <1>18 DEF WaitDrained, Broken, Repairing
<1>19. CASE CloseSource
  BY <1>19 DEF CloseSource, Drains, Broken, Repairing
<1>20. CASE WriteConf
  BY <1>20 DEF WriteConf, Broken, Repairing, Target
<1>21. CASE Reload
  BY <1>21 DEF Reload, Broken, Repairing, Target
<1>22. CASE WriteVersion
  BY <1>22 DEF WriteVersion, Broken, Repairing, Target
<1>23. CASE WriteInstance
  BY <1>23 DEF WriteInstance, Broken, Repairing, Target
<1>24. CASE MarkFailed
  BY <1>24, ReachMoves
<1>25. CASE WaitUpgrade
  BY <1>25, ReachMoves
<1>26. CASE Choose
  BY <1>26 DEF Choose, Undo
<1>27. CASE DrainCandidateWork
  BY <1>27 DEF DrainCandidateWork, Drains, Broken, Repairing
<1>28. CASE StartSource
  BY <1>28 DEF StartSource, Starts, Broken, Repairing
<1>29. CASE StartSourceWork
  BY <1>29 DEF StartSourceWork, Starts, Broken, Repairing
<1>30. CASE WaitSwitchedBack
  BY <1>30 DEF WaitSwitchedBack, Broken, Repairing
<1>31. CASE CloseCandidate
  BY <1>31 DEF CloseCandidate, Drains, Broken, Repairing, Repaired
<1>32. CASE DrainCandidate
  BY <1>32 DEF DrainCandidate, Drains, Broken, Repairing
<1>33. CASE RestoreData
  BY <1>33 DEF RestoreData, Broken, Repairing
<1>34. CASE SaveBoundary
  BY <1>34, SaveBoundaryEffect, FaultsGrow
<1>35. CASE ResumeSource
  BY <1>35 DEF ResumeSource, Starts, Broken, Repairing, Resumed, Repaired
<1>36. CASE SaveResult
  BY <1>36 DEF SaveResult, Save
<1>37. CASE EndOperation
  BY <1>37, ReachMoves
<1>38. CASE Reconcile
  BY <1>38 DEF Reconcile, Resumes
<1>39. CASE MigrationEnds
  BY <1>39, ReachMoves
<1>40. CASE Crash
  BY <1>40, ReachMoves
<1>41. CASE Reboot
  BY <1>41, ReachMoves
<1>42. CASE UserWrites
  BY <1>42, ReachMoves
<1>43. CASE \E home \in Homes : InflightEnds(home)
  BY <1>43, ReachMoves
<1>44. CASE UNCHANGED vars
  BY <1>44, ReachMoves
<1> HIDE DEF TypeOK, Journal, Terminal, Steps, Homes, PhaseInv, JournalInv, Live, Before, After,
            Pointing, Open, Belongs, Paired, WorkInv, TrafficInv, AgreeInv, Unfinished, Arrived,
            Undoing, Reached, LagInv, Final, Few, StayInv, ReachInv
<1> QED
  BY <1>1, <1>2, <1>3, <1>4, <1>5, <1>6, <1>7, <1>8, <1>9, <1>10, <1>11, <1>12, <1>13, <1>14,
     <1>15, <1>16, <1>17, <1>18, <1>19, <1>20, <1>21, <1>22, <1>23, <1>24, <1>25, <1>26, <1>27,
     <1>28, <1>29, <1>30, <1>31, <1>32, <1>33, <1>34, <1>35, <1>36, <1>37, <1>38, <1>39, <1>40,
     <1>41, <1>42, <1>43, <1>44
     DEF Next, Worker, Release, Activate, Repair

\* The moves of this part that need an argument.
LEMMA SteadyMoves ==
  ASSUME TypeOK, PhaseInv, JournalInv, WorkInv, SiteInv, BackInv, RolledInv, TrafficInv, AgreeInv,
         LagInv, SteadyInv, [Next]_vars, CloseCandidate \/ EndOperation
  PROVE  SteadyInv'
<1> SUFFICES ASSUME Few' PROVE SteadyInv'
  BY DEF SteadyInv
<1>0. Few
  BY FaultsGrow DEF Few
<1>1. CASE EndOperation
  <2>1. ~Undoing /\ ~Final' /\ UNCHANGED <<tx, live, conf, active, inflight, up, auto>>
    BY <1>1, EndOperationEffect DEF Undoing, Final
  <2> QED
    BY <1>0, <2>1 DEF SteadyInv, Steady, Settled, Serving
<1>2. CASE CloseCandidate
  <2>1. mem.strategy = "online" /\ Live /\ pc.step = "back" /\ inflight = {} /\ UNCHANGED <<tx, inflight>>
    BY <1>2 DEF CloseCandidate, PhaseInv, Live, TrafficInv, Back
  <2>2. mem'.strategy = "online" /\ mem'.stage = mem.stage /\ mem'.source = mem.source
    BY <1>2, <2>1 DEF CloseCandidate, Drains, Broken, Repaired, TypeOK, Journal
  <2>3. CASE pc'.step = "fail"
    <3>1. pc' = At("fail", "final") /\ mem'.status \in {"held", "rolled_back"}
      BY <1>2, <2>1, <2>3 DEF CloseCandidate, Drains, Broken, Repairing, Repaired, TypeOK, Journal
    <3>2. Undoing'
      BY <2>1, <2>2, <3>1 DEF AgreeInv, Undoing, Final
    <3>3. mem'.status = "rolled_back" => Complete(mem.source)'
      BY <2>2, <3>1, StepRolled DEF RolledInv, Final, Complete
    <3>4. mem'.status = "rolled_back" => Steady'
      <4> SUFFICES ASSUME mem'.status = "rolled_back" PROVE Steady'
        OBVIOUS
      <4>1. mem.source # "site"
        BY <2>1 DEF JournalInv, Belongs, Paired
      <4>2. live' = mem.source' /\ conf' = mem.source' /\ active' = mem.source' /\ mem'.source = mem.source
        BY <2>2, <3>3 DEF Complete
      <4>3. <<mem.source, "http">> \in up' /\ <<mem.source, "http">> \in auto'
        BY <2>2, <3>3 DEF Complete, Groups
      <4> QED
        BY <2>1, <4>1, <4>2, <4>3 DEF Steady, Settled, Serving
    <3> QED
      BY <3>1, <3>2, <3>4 DEF SteadyInv, Terminal
  <2>4. CASE pc' = Idle
    <3>1. Broken
      BY <1>2, <2>4 DEF CloseCandidate, Drains, Repaired
    <3>2. faults' = faults + 1 /\ ~Final'
      BY <2>4, <3>1 DEF Broken, Final
    <3>3. tx.status \notin Terminal
      BY <2>1, <3>2, FaultsGrow DEF LagInv, Reached, JournalInv, Terminal, Few
    <3> QED
      BY <2>1, <3>2, <3>3 DEF SteadyInv
  <2> QED
    BY <1>2, <2>3, <2>4 DEF CloseCandidate, Drains, Broken, Repaired
<1> QED
  BY <1>1, <1>2

\* A release ends where everything agrees.
LEMMA StepSteady ==
  ASSUME TypeOK, PhaseInv, JournalInv, WorkInv, SiteInv, TrafficInv, BackInv, RolledInv, AgreeInv,
         ReadyInv, LagInv, StayInv, ReachInv, SteadyInv, ServeInv, [Next]_vars
  PROVE  SteadyInv'
<1> USE DEF TypeOK, Journal, Terminal, Steps, Homes, Groups, PhaseInv, JournalInv, Live, Before,
           After, Pointing, Open, Belongs, Paired, WorkInv, TrafficInv, BackInv, Back, RolledInv,
           Complete, AgreeInv, ReadyInv, Serving, Unfinished, Staying, Arrived, Undoing, Reached,
           LagInv, Final, Few, Settled, Steady, StayInv, ReachInv, SteadyInv, ServeInv
<1>1. CASE StartUpdate
  BY <1>1 DEF StartUpdate
<1>2. CASE StartSwitchBack
  BY <1>2 DEF StartSwitchBack
<1>3. CASE Preflight
  BY <1>3 DEF Preflight, Save
<1>4. CASE SwitchBack
  BY <1>4 DEF SwitchBack, Save
<1>5. CASE ObserveSwitchBack
  BY <1>5 DEF ObserveSwitchBack
<1>6. CASE Begin
  BY <1>6 DEF Begin, Save
<1>7. CASE End
  BY <1>7, NextOf DEF End, Save
<1>8. CASE Succeed
  BY <1>8 DEF Succeed, Save
<1>9. CASE Pull
  BY <1>9 DEF Pull, Broken, Repairing
<1>10. CASE Quiesce
  BY <1>10 DEF Quiesce, Drains, Broken, Repairing
<1>11. CASE Backup
  BY <1>11 DEF Backup, Broken, Repairing
<1>12. CASE Upgrade
  BY <1>12 DEF Upgrade, Broken, Repairing, Altered
<1>13. CASE Candidate
  BY <1>13 DEF Candidate, Starts, Broken, Repairing
<1>14. CASE OpenTraffic
  BY <1>14 DEF OpenTraffic, Save
<1>15. CASE DrainWorkers
  BY <1>15 DEF DrainWorkers, Drains, Broken, Repairing
<1>16. CASE StartWorkers
  BY <1>16 DEF StartWorkers, Starts, Broken, Repairing
<1>17. CASE Observe
  BY <1>17 DEF Observe, Broken, Repairing
<1>18. CASE WaitDrained
  BY <1>18 DEF WaitDrained, Broken, Repairing
<1>19. CASE CloseSource
  BY <1>19 DEF CloseSource, Drains, Broken, Repairing
<1>20. CASE WriteConf
  BY <1>20 DEF WriteConf, Broken, Repairing, Target
<1>21. CASE Reload
  BY <1>21 DEF Reload, Broken, Repairing, Target
<1>22. CASE WriteVersion
  BY <1>22 DEF WriteVersion, Broken, Repairing, Target
<1>23. CASE WriteInstance
  BY <1>23 DEF WriteInstance, Broken, Repairing, Target
<1>24. CASE MarkFailed
  BY <1>24 DEF MarkFailed, Save
<1>25. CASE WaitUpgrade
  BY <1>25 DEF WaitUpgrade
<1>26. CASE Choose
  BY <1>26 DEF Choose, Undo
<1>27. CASE DrainCandidateWork
  BY <1>27 DEF DrainCandidateWork, Drains, Broken, Repairing
<1>28. CASE StartSource
  BY <1>28 DEF StartSource, Starts, Broken, Repairing
<1>29. CASE StartSourceWork
  BY <1>29 DEF StartSourceWork, Starts, Broken, Repairing
<1>30. CASE WaitSwitchedBack
  BY <1>30 DEF WaitSwitchedBack, Broken, Repairing
<1>31. CASE CloseCandidate
  BY <1>31, SteadyMoves
<1>32. CASE DrainCandidate
  BY <1>32 DEF DrainCandidate, Drains, Broken, Repairing
<1>33. CASE RestoreData
  BY <1>33 DEF RestoreData, Broken, Repairing
<1>34. CASE SaveBoundary
  BY <1>34, SaveBoundaryEffect, FaultsGrow
<1>35. CASE ResumeSource
  BY <1>35 DEF ResumeSource, Starts, Broken, Repairing, Resumed, Repaired
<1>36. CASE SaveResult
  BY <1>36 DEF SaveResult, Save
<1>37. CASE EndOperation
  BY <1>37, SteadyMoves
<1>38. CASE Reconcile
  BY <1>38 DEF Reconcile, Resumes
<1>39. CASE MigrationEnds
  BY <1>39 DEF MigrationEnds, Altered
<1>40. CASE Crash
  BY <1>40 DEF Crash
<1>41. CASE Reboot
  BY <1>41 DEF Reboot, Altered
<1>42. CASE UserWrites
  BY <1>42 DEF UserWrites
<1>43. ASSUME NEW home \in Homes, InflightEnds(home) PROVE SteadyInv'
  BY <1>43 DEF InflightEnds
<1>44. CASE UNCHANGED vars
  BY <1>44 DEF vars
<1> HIDE DEF TypeOK, Journal, Terminal, Steps, Homes, Groups, PhaseInv, JournalInv, Live, Before,
            After, Pointing, Open, Belongs, Paired, WorkInv, TrafficInv, BackInv, Back, RolledInv,
            Complete, AgreeInv, ReadyInv, Serving, Unfinished, Staying, Arrived, Undoing, Reached,
            LagInv, Final, Few, Settled, Steady, StayInv, ReachInv, SteadyInv, ServeInv
<1> QED
  BY <1>1, <1>2, <1>3, <1>4, <1>5, <1>6, <1>7, <1>8, <1>9, <1>10, <1>11, <1>12, <1>13, <1>14,
     <1>15, <1>16, <1>17, <1>18, <1>19, <1>20, <1>21, <1>22, <1>23, <1>24, <1>25, <1>26, <1>27,
     <1>28, <1>29, <1>30, <1>31, <1>32, <1>33, <1>34, <1>35, <1>36, <1>37, <1>38, <1>39, <1>40,
     <1>41, <1>42, <1>43, <1>44
     DEF Next, Worker, Release, Activate, Repair

\* A home is stopped only when the ingress does not point to it.
LEMMA StepServe ==
  ASSUME TypeOK, PhaseInv, JournalInv, TrafficInv, BackInv, AgreeInv, ReadyInv, ReachInv,
         SteadyInv, ServeInv, [Next]_vars
  PROVE  ServeInv'
<1> USE DEF TypeOK, Journal, Terminal, Steps, Homes, Groups, PhaseInv, JournalInv, Live, Before,
           Pointing, Belongs, Paired, OtherSlot, TrafficInv, BackInv, Back, AgreeInv, ReadyInv,
           Serving, Unfinished, Arrived, Undoing, Final, Few, Settled, Steady, ReachInv,
           SteadyInv, ServeInv
<1>1. CASE StartUpdate
  BY <1>1 DEF StartUpdate
<1>2. CASE StartSwitchBack
  BY <1>2 DEF StartSwitchBack
<1>3. CASE Preflight
  BY <1>3 DEF Preflight, Save
<1>4. CASE SwitchBack
  BY <1>4 DEF SwitchBack, Save
<1>5. CASE ObserveSwitchBack
  BY <1>5 DEF ObserveSwitchBack
<1>6. CASE Begin
  BY <1>6 DEF Begin, Save
<1>7. CASE End
  BY <1>7, NextOf DEF End, Save
<1>8. CASE Succeed
  BY <1>8 DEF Succeed, Save
<1>9. CASE Pull
  BY <1>9 DEF Pull, Broken, Repairing
<1>10. CASE Quiesce
  BY <1>10 DEF Quiesce, Drains, Broken, Repairing
<1>11. CASE Backup
  BY <1>11 DEF Backup, Broken, Repairing
<1>12. CASE Upgrade
  BY <1>12 DEF Upgrade, Broken, Repairing, Altered
<1>13. CASE Candidate
  BY <1>13 DEF Candidate, Starts, Broken, Repairing
<1>14. CASE OpenTraffic
  BY <1>14 DEF OpenTraffic, Save
<1>15. CASE DrainWorkers
  BY <1>15 DEF DrainWorkers, Drains, Broken, Repairing
<1>16. CASE StartWorkers
  BY <1>16 DEF StartWorkers, Starts, Broken, Repairing
<1>17. CASE Observe
  BY <1>17 DEF Observe, Broken, Repairing
<1>18. CASE WaitDrained
  BY <1>18 DEF WaitDrained, Broken, Repairing
<1>19. CASE CloseSource
  BY <1>19 DEF CloseSource, Drains, Broken, Repairing
<1>20. CASE WriteConf
  BY <1>20 DEF WriteConf, Broken, Repairing, Target
<1>21. CASE Reload
  BY <1>21 DEF Reload, Broken, Repairing, Target
<1>22. CASE WriteVersion
  BY <1>22 DEF WriteVersion, Broken, Repairing, Target
<1>23. CASE WriteInstance
  BY <1>23 DEF WriteInstance, Broken, Repairing, Target
<1>24. CASE MarkFailed
  BY <1>24 DEF MarkFailed, Save
<1>25. CASE WaitUpgrade
  BY <1>25 DEF WaitUpgrade
<1>26. CASE Choose
  BY <1>26 DEF Choose, Undo
<1>27. CASE DrainCandidateWork
  BY <1>27 DEF DrainCandidateWork, Drains, Broken, Repairing
<1>28. CASE StartSource
  BY <1>28 DEF StartSource, Starts, Broken, Repairing
<1>29. CASE StartSourceWork
  BY <1>29 DEF StartSourceWork, Starts, Broken, Repairing
<1>30. CASE WaitSwitchedBack
  BY <1>30 DEF WaitSwitchedBack, Broken, Repairing
<1>31. CASE CloseCandidate
  BY <1>31 DEF CloseCandidate, Drains, Broken, Repairing, Repaired
<1>32. CASE DrainCandidate
  BY <1>32 DEF DrainCandidate, Drains, Broken, Repairing
<1>33. CASE RestoreData
  BY <1>33 DEF RestoreData, Broken, Repairing
<1>34. CASE SaveBoundary
  BY <1>34, SaveBoundaryEffect, FaultsGrow
<1>35. CASE ResumeSource
  BY <1>35 DEF ResumeSource, Starts, Broken, Repairing, Resumed, Repaired
<1>36. CASE SaveResult
  BY <1>36 DEF SaveResult, Save
<1>37. CASE EndOperation
  BY <1>37, FaultsGrow, EndOperationEffect
<1>38. CASE Reconcile
  BY <1>38 DEF Reconcile, Resumes
<1>39. CASE MigrationEnds
  BY <1>39 DEF MigrationEnds, Altered
<1>40. CASE Crash
  BY <1>40 DEF Crash
<1>41. CASE Reboot
  BY <1>41 DEF Reboot, Altered
<1>42. CASE UserWrites
  BY <1>42 DEF UserWrites
<1>43. ASSUME NEW home \in Homes, InflightEnds(home) PROVE ServeInv'
  BY <1>43 DEF InflightEnds
<1>44. CASE UNCHANGED vars
  BY <1>44 DEF vars
<1> QED
  BY <1>1, <1>2, <1>3, <1>4, <1>5, <1>6, <1>7, <1>8, <1>9, <1>10, <1>11, <1>12, <1>13, <1>14,
     <1>15, <1>16, <1>17, <1>18, <1>19, <1>20, <1>21, <1>22, <1>23, <1>24, <1>25, <1>26, <1>27,
     <1>28, <1>29, <1>30, <1>31, <1>32, <1>33, <1>34, <1>35, <1>36, <1>37, <1>38, <1>39, <1>40,
     <1>41, <1>42, <1>43, <1>44
     DEF Next, Worker, Release, Activate, Repair

\* The moves of this part that need an argument.
LEMMA UndoMoves ==
  ASSUME TypeOK, PhaseInv, JournalInv, ClosedInv, StayInv, UndoInv, Begin
  PROVE  UndoInv'
<1>1. CASE pc' = At(pc.step, "run")
  <2>1. pc.step \in Steps
    BY BeginEffect DEF PhaseInv
  <2> QED
    BY <1>1, <2>1 DEF UndoInv, Steps
<1>2. CASE pc' = At("fail", "journal") /\ faults' = faults + 1
  <2> SUFFICES ASSUME faults' <= 3, Undoable' PROVE (live = mem.source)'
    BY DEF UndoInv
  <2>0. Few
    <3>1. faults \in Nat /\ faults' = faults + 1 /\ faults' <= 3
      BY <1>2 DEF TypeOK
    <3> QED
      BY <3>1 DEF Few
  <2>1. Few /\ pc.step \in Steps /\ pc.phase = "begin" /\ ~mem.opened
    BY <2>0, BeginEffect DEF PhaseInv, Undoable
  <2>2. Before /\ ~Pointing
    BY <2>1 DEF Before, Pointing, After, ClosedInv, Steps
  <2> QED
    BY <2>1, <2>2, BeginEffect DEF StayInv
<1> QED
  BY <1>1, <1>2, BeginEffect

\* A maintenance release that fails before traffic has not moved it.
LEMMA StepUndo ==
  ASSUME TypeOK, PhaseInv, JournalInv, ClosedInv, AgreeInv, StayInv, UndoInv, [Next]_vars
  PROVE  UndoInv'
<1> USE DEF TypeOK, Journal, Terminal, Steps, PhaseInv, JournalInv, Live, Before, After, Pointing,
           ClosedInv, AgreeInv, Unfinished, Few, StayInv, Undoable, UndoInv
<1>1. CASE StartUpdate
  BY <1>1 DEF StartUpdate
<1>2. CASE StartSwitchBack
  BY <1>2 DEF StartSwitchBack
<1>3. CASE Preflight
  BY <1>3 DEF Preflight, Save
<1>4. CASE SwitchBack
  BY <1>4 DEF SwitchBack, Save
<1>5. CASE ObserveSwitchBack
  BY <1>5 DEF ObserveSwitchBack
<1>6. CASE Begin
  BY <1>6, UndoMoves
<1>7. CASE End
  BY <1>7, NextOf DEF End, Save
<1>8. CASE Succeed
  BY <1>8, SucceedEffect, FaultsGrow
<1>9. CASE Pull
  BY <1>9 DEF Pull, Broken, Repairing
<1>10. CASE Quiesce
  BY <1>10 DEF Quiesce, Drains, Broken, Repairing
<1>11. CASE Backup
  BY <1>11 DEF Backup, Broken, Repairing
<1>12. CASE Upgrade
  BY <1>12 DEF Upgrade, Broken, Repairing, Altered
<1>13. CASE Candidate
  BY <1>13 DEF Candidate, Starts, Broken, Repairing
<1>14. CASE OpenTraffic
  BY <1>14 DEF OpenTraffic, Save
<1>15. CASE DrainWorkers
  BY <1>15 DEF DrainWorkers, Drains, Broken, Repairing
<1>16. CASE StartWorkers
  BY <1>16 DEF StartWorkers, Starts, Broken, Repairing
<1>17. CASE Observe
  BY <1>17 DEF Observe, Broken, Repairing
<1>18. CASE WaitDrained
  BY <1>18 DEF WaitDrained, Broken, Repairing
<1>19. CASE CloseSource
  BY <1>19 DEF CloseSource, Drains, Broken, Repairing
<1>20. CASE WriteConf
  BY <1>20 DEF WriteConf, Broken, Repairing, Target
<1>21. CASE Reload
  BY <1>21 DEF Reload, Broken, Repairing, Target
<1>22. CASE WriteVersion
  BY <1>22 DEF WriteVersion, Broken, Repairing, Target
<1>23. CASE WriteInstance
  BY <1>23 DEF WriteInstance, Broken, Repairing, Target
<1>24. CASE MarkFailed
  BY <1>24 DEF MarkFailed, Save
<1>25. CASE WaitUpgrade
  BY <1>25 DEF WaitUpgrade
<1>26. CASE Choose
  BY <1>26 DEF Choose, Undo
<1>27. CASE DrainCandidateWork
  BY <1>27 DEF DrainCandidateWork, Drains, Broken, Repairing
<1>28. CASE StartSource
  BY <1>28 DEF StartSource, Starts, Broken, Repairing
<1>29. CASE StartSourceWork
  BY <1>29 DEF StartSourceWork, Starts, Broken, Repairing
<1>30. CASE WaitSwitchedBack
  BY <1>30 DEF WaitSwitchedBack, Broken, Repairing
<1>31. CASE CloseCandidate
  BY <1>31 DEF CloseCandidate, Drains, Broken, Repairing, Repaired
<1>32. CASE DrainCandidate
  BY <1>32 DEF DrainCandidate, Drains, Broken, Repairing
<1>33. CASE RestoreData
  BY <1>33 DEF RestoreData, Broken, Repairing
<1>34. CASE SaveBoundary
  BY <1>34, SaveBoundaryEffect
<1>35. CASE ResumeSource
  BY <1>35 DEF ResumeSource, Starts, Broken, Repairing, Resumed, Repaired
<1>36. CASE SaveResult
  BY <1>36 DEF SaveResult, Save
<1>37. CASE EndOperation
  BY <1>37 DEF EndOperation
<1>38. CASE Reconcile
  BY <1>38 DEF Reconcile, Resumes
<1>39. CASE MigrationEnds
  BY <1>39 DEF MigrationEnds, Altered
<1>40. CASE Crash
  BY <1>40 DEF Crash
<1>41. CASE Reboot
  BY <1>41 DEF Reboot, Altered
<1>42. CASE UserWrites
  BY <1>42 DEF UserWrites
<1>43. ASSUME NEW home \in Homes, InflightEnds(home) PROVE UndoInv'
  BY <1>43 DEF InflightEnds
<1>44. CASE UNCHANGED vars
  BY <1>44 DEF vars
<1> QED
  BY <1>1, <1>2, <1>3, <1>4, <1>5, <1>6, <1>7, <1>8, <1>9, <1>10, <1>11, <1>12, <1>13, <1>14,
     <1>15, <1>16, <1>17, <1>18, <1>19, <1>20, <1>21, <1>22, <1>23, <1>24, <1>25, <1>26, <1>27,
     <1>28, <1>29, <1>30, <1>31, <1>32, <1>33, <1>34, <1>35, <1>36, <1>37, <1>38, <1>39, <1>40,
     <1>41, <1>42, <1>43, <1>44
     DEF Next, Worker, Release, Activate, Repair

--------------------
(* The theorems.                                                            *)

\* A site in its single layout, or in its blue slot.
LEMMA InitInv ==
  ASSUME Init
  PROVE  Inv
<1>1. TypeOK
  <2>1. NoJournal \in Journal
    BY DEF NoJournal, Journal, Terminal, Homes
  <2>2. rec \in [op : 0 .. MaxOps, kind : {"update", "switch-back"},
                status : Terminal \cup {"running", "held"}, staged : BOOLEAN]
    BY DEF Init, Terminal
  <2>3. /\ up \subseteq Homes \X Groups /\ auto \subseteq Homes \X Groups
        /\ {live, version, active} \subseteq Homes /\ conf \in {"none", "blue", "green"}
    BY DEF Init, Homes, Groups
  <2>4. faults = 0 /\ migrating = FALSE /\ data = "kept"
    BY DEF Init
  <2>5. faults \in 0 .. MaxFaults
    BY <2>4
  <2> QED
    BY <2>1, <2>2, <2>3, <2>4, <2>5 DEF Init, TypeOK
<1>2. PhaseInv /\ JournalInv /\ SiteInv /\ BackInv /\ TrafficInv /\ ClosedInv
  BY DEF Init, PhaseInv, JournalInv, SiteInv, NoSite, BackInv, Back, TrafficInv, Pointing, ClosedInv,
         Live, Before, After, Quiet
<1>3. WorkInv
  <2>1. WorkIn({active})
    BY DEF Init, WorkIn
  <2> QED
    BY <2>1 DEF Init, WorkInv, Live, Before, After, Quiet, Moved, Unmoved, Back
<1>4. RolledInv /\ UpgradeInv
  BY DEF Init, RolledInv, UpgradeInv, NoJournal, Live, Final
<1> QED
  BY <1>1, <1>2, <1>3, <1>4 DEF Inv

\* The inductive invariant holds: what the journals allow agrees with what was done to
\* the site at every position of ExecuteRelease, failRelease, SwitchBack and
\* ReconcileRelease.
THEOREM ReleaseInvariant == Spec => []Inv
<1>1. Inv /\ [Next]_vars => Inv'
  BY StepTypes, StepPhase, StepJournal, StepWork, StepSite, StepBack, StepRolled, StepUpgrade,
     StepTraffic, StepClosed DEF Inv
<1> QED
  BY InitInv, <1>1, PTL DEF Spec

\* Queues and the scheduler never run in two homes, and would not come back in two,
\* however many writes, steps and restarts fail (drainBackground before startServices in
\* ExecuteRelease and restoreApplication).
THEOREM WorkersInOneHome == Spec => []WorkersExclusive
<1>1. Inv => WorkersExclusive
  <2> SUFFICES ASSUME Inv, NEW one \in Homes, NEW other \in Homes, one # other,
                      <<one, "work">> \in up \cup auto, <<other, "work">> \in up \cup auto
               PROVE  FALSE
    BY DEF WorkersExclusive
  <2> QED
    BY DEF Inv, WorkInv, Astray, WorkIn
<1> QED
  BY <1>1, ReleaseInvariant, PTL

\* What the journal calls rolled back online is served by the source alone
\* (restoreApplication up to its last drain, then SaveResult).
THEOREM RolledBackIsWhole == Spec => []RolledBackIsComplete
<1>1. Inv => RolledBackIsComplete
  BY DEF Inv, RolledInv, Complete, RolledBackIsComplete
<1> QED
  BY <1>1, ReleaseInvariant, PTL

\* One step restores the point.
LEMMA OnlyRestoreData ==
  ASSUME [Next]_vars, data' = "restored", data # "restored"
  PROVE  RestoreData
BY DEF Next, Worker, Release, Activate, Repair, vars,
       StartUpdate, Replaced, StartSwitchBack, Preflight, SwitchBack, ObserveSwitchBack, Begin, End,
       Succeed, Pull, Quiesce, Backup, Upgrade, Altered, Candidate, OpenTraffic, DrainWorkers,
       StartWorkers, Observe, WaitDrained, CloseSource, WriteConf, Reload, WriteVersion,
       WriteInstance, MarkFailed, WaitUpgrade, Choose, DrainCandidateWork, StartSource,
       StartSourceWork, WaitSwitchedBack, CloseCandidate, DrainCandidate, SaveBoundary,
       ResumeSource, SaveResult, EndOperation, Reconcile, MigrationEnds, Crash, Reboot, UserWrites,
       InflightEnds

\* A failed release restores its point only when no upgrade runs any more, and over what
\* users wrote only if the ingress serves another home than the identity names
\* (failRelease, waitUpgradeContainers, restoreBeforeTraffic).  The exception is real: a
\* repeated drain after a switch back (see TrafficIsKept) leaves the ingress at the home
\* that the next maintenance release prepares as its candidate.
UndoneUnlessMisled ==
  [][data' = "restored" /\ data # "restored" => ~migrating /\ (data = "written" => live # active)]_vars

\* Of UndoneSafely, this holds whatever fails.
THEOREM UndoingIsSafe == Spec => UndoneUnlessMisled
<1>1. Inv /\ [Next]_vars
        => (data' = "restored" /\ data # "restored" => ~migrating /\ (data = "written" => live # active))
  <2> SUFFICES ASSUME Inv, [Next]_vars, data' = "restored", data # "restored"
               PROVE  ~migrating /\ (data = "written" => live # active)
    OBVIOUS
  <2>1. RestoreData
    BY OnlyRestoreData
  <2>2. Live /\ Undoable /\ ~(pc.step = "fail")
    BY <2>1 DEF RestoreData, Inv, ClosedInv, Live
  <2> QED
    BY <2>2 DEF Inv, UpgradeInv, ClosedInv
<1> QED
  BY <1>1, ReleaseInvariant, PTL DEF Spec, UndoneUnlessMisled

\* The containers that answer requests in a home are stopped.
Stops(home) == <<home, "http">> \in up /\ <<home, "http">> \notin up'

\* The steps of the worker that stop containers.
LEMMA StoppingSteps ==
  ASSUME Worker, NEW home \in Homes, Stops(home)
  PROVE  Quiesce \/ DrainCandidate \/ CloseSource \/ CloseCandidate \/ DrainWorkers \/ DrainCandidateWork
<1>1. ~UNCHANGED up /\ ~(up \subseteq up')
  BY DEF Stops
<1>2. ~Release \/ Quiesce \/ CloseSource \/ DrainWorkers
  BY <1>1 DEF Release, Starts, Begin, End, Succeed, Pull, Backup, Upgrade, Candidate, OpenTraffic,
              StartWorkers, Observe, WaitDrained
<1>3. ~Activate
  BY <1>1 DEF Activate, WriteConf, Reload, WriteVersion, WriteInstance
<1>4. ~Repair \/ DrainCandidateWork \/ CloseCandidate \/ DrainCandidate
  BY <1>1 DEF Repair, Starts, MarkFailed, WaitUpgrade, Choose, StartSource, StartSourceWork,
              WaitSwitchedBack, RestoreData, SaveBoundary, ResumeSource, SaveResult
<1> QED
  BY <1>1, <1>2, <1>3, <1>4 DEF Worker, Preflight, SwitchBack, ObserveSwitchBack, EndOperation

\* The steps that stop a home, and what each knows of the ingress.
LEMMA StopOutsideRedrain ==
  ASSUME Inv, Worker, pc.step # "redrain", NEW home \in Homes, tx.strategy = "online", Stops(home)
  PROVE  home # live /\ home \notin inflight
<1>1. Quiesce \/ DrainCandidate \/ CloseSource \/ CloseCandidate \/ DrainWorkers \/ DrainCandidateWork
  BY StoppingSteps
<1>2. ~Quiesce /\ ~DrainCandidate
  BY DEF Quiesce, DrainCandidate, Inv, PhaseInv, JournalInv, Live
<1>3. ~DrainWorkers /\ ~DrainCandidateWork
  BY <1>1 DEF Stops, DrainWorkers, DrainCandidateWork, Drains
<1>4. CASE CloseSource
  <2>1. home = mem.source /\ pc.step = "drain" /\ pc.phase = "close"
    BY <1>4 DEF Stops, CloseSource, Drains
  <2> QED
    BY <2>1 DEF Inv, TypeOK, Journal, TrafficInv, Pointing, JournalInv, Live, Belongs, Paired,
                OtherSlot, Homes
<1>5. CASE CloseCandidate
  <2>1. home = mem.candidate /\ pc.step = "back" /\ pc.phase = "close"
    BY <1>5 DEF Stops, CloseCandidate, Drains
  <2> QED
    BY <2>1 DEF Inv, TypeOK, Journal, TrafficInv, BackInv, Back, JournalInv, Live, Belongs, Paired,
                OtherSlot, Homes
<1> QED
  BY <1>1, <1>2, <1>3, <1>4, <1>5

\* No other step of the updater stops a home of an online release that still serves new
\* or old requests than the drain that ReconcileRelease repeats when the journal says so
\* (waitIngressWorkers, the switch of traffic before every drain).
OnlyRedrainStopsTraffic ==
  [][Worker /\ pc.step # "redrain" =>
       \A home \in Homes :
         tx.strategy = "online" /\ <<home, "http">> \in up /\ <<home, "http">> \notin up'
           => home # live /\ home \notin inflight]_vars

\* Of InFlightKept, this holds whatever fails: where the journal lost the marks of a
\* success and of the failure after it, the repeated drain is the one step to blame.
THEOREM TrafficIsKept == Spec => OnlyRedrainStopsTraffic
<1>1. Inv /\ [Next]_vars
        => (Worker /\ pc.step # "redrain" =>
              \A home \in Homes :
                tx.strategy = "online" /\ <<home, "http">> \in up /\ <<home, "http">> \notin up'
                  => home # live /\ home \notin inflight)
  BY StopOutsideRedrain DEF Stops
<1> QED
  BY <1>1, ReleaseInvariant, PTL DEF Spec, OnlyRedrainStopsTraffic

\* A site in its single layout, or in its blue slot, is steady.
LEMMA InitFaultInv ==
  ASSUME Init
  PROVE  FaultInv
<1>1. tx = NoJournal /\ pc = Idle /\ inflight = {} /\ Steady
  BY DEF Init, Steady, Settled, Serving, Groups
<1>2. ~Live /\ ~Final /\ ~Undoing /\ ~Pointing /\ ~Before
  BY <1>1 DEF Live, Final, Undoing, Pointing, Before
<1>3. tx.strategy = "maintenance" /\ ~Unfinished(tx)
  BY <1>1 DEF NoJournal, Unfinished
<1> QED
  BY <1>1, <1>2, <1>3 DEF FaultInv, AgreeInv, ReadyInv, LagInv, StayInv, ReachInv, SteadyInv,
     ServeInv, UndoInv, Steps

\* Together with the invariant above, what holds while faults are few is inductive: a step
\* that makes them too many has nothing to show, and no step takes a fault back.
THEOREM FaultInvariant == Spec => []FaultInv
<1>1. Inv /\ FaultInv /\ [Next]_vars => FaultInv'
  BY StepAgree, StepReady, StepLag, StepStay, StepReach, StepSteady, StepServe, StepUndo
     DEF Inv, FaultInv
<1> QED
  BY InitFaultInv, <1>1, ReleaseInvariant, PTL DEF Spec

\* Until a third fault, the home that new requests of an online release go to is running,
\* and the home in nginx.conf would come back after a reboot (switchIngress writes and
\* reloads only once the target was started; the drains wait for the switch).
THEOREM ServedThroughReboot == Spec => [](Few => ServesThroughReboot)
<1>1. FaultInv => (Few => ServesThroughReboot)
  BY DEF FaultInv, ServeInv, Serving, ServesThroughReboot
<1> QED
  BY <1>1, FaultInvariant, PTL

\* A step that stops a home of an online release in which requests run, or to which new
\* ones go, is behind a third fault (WaitDrained before CloseSource and CloseCandidate, a
\* reboot with the restart policies of the drains).
KeptWhileFew ==
  [][Few => \A home \in Homes :
       tx.strategy = "online" /\ <<home, "http">> \in up /\ <<home, "http">> \notin up'
         => home # live /\ home \notin inflight]_vars

\* The repeated drain is included: it is right as long as a journal at its drain is.
THEOREM KeptUntilThirdFault == Spec => KeptWhileFew
<1>1. ASSUME Inv, FaultInv, [Next]_vars, Few, NEW home \in Homes, tx.strategy = "online", Stops(home)
      PROVE  home # live /\ home \notin inflight
  <2>1. up' # up
    BY <1>1 DEF Stops
  <2>2. Worker \/ Reboot
    BY <1>1, <2>1 DEF Next, StartUpdate, StartSwitchBack, Reconcile, MigrationEnds, Crash, UserWrites,
                InflightEnds, vars
  <2>3. CASE Worker /\ pc.step # "redrain"
    BY <1>1, <2>3, StopOutsideRedrain
  <2>4. CASE Worker /\ pc.step = "redrain"
    <3>1. CloseSource
      BY <1>1, <2>4, StoppingSteps DEF Quiesce, DrainCandidate, CloseCandidate, DrainWorkers,
         DrainCandidateWork
    <3>2. home = mem.source /\ pc.phase = "close"
      BY <1>1, <2>4, <3>1 DEF Stops, CloseSource, Drains
    <3>3. inflight = {} /\ live = tx.candidate /\ mem = tx
      BY <1>1, <2>4, <3>2 DEF FaultInv, ReachInv, AgreeInv, Arrived, Undoing, Final
    <3> QED
      BY <1>1, <2>4, <3>2, <3>3 DEF Inv, TypeOK, Journal, JournalInv, Live, Belongs, Paired,
         OtherSlot, Homes
  <2>5. CASE Reboot
    BY <1>1, <2>5 DEF Stops, Reboot, FaultInv, ServeInv, Serving
  <2> QED
    BY <2>2, <2>3, <2>4, <2>5
<1>2. Inv /\ FaultInv /\ [Next]_vars
        => (Few => \A home \in Homes :
              tx.strategy = "online" /\ <<home, "http">> \in up /\ <<home, "http">> \notin up'
                => home # live /\ home \notin inflight)
  BY <1>1 DEF Stops
<1> QED
  BY <1>2, ReleaseInvariant, FaultInvariant, PTL DEF Spec, KeptWhileFew

\* A point is restored over what users wrote only behind a fourth fault.
UndoneUntilFourth ==
  [][faults <= 3 => (data' = "restored" /\ data # "restored" => data # "written" /\ ~migrating)]_vars

\* Three faults can leave the ingress at a home that is about to become a candidate; the
\* release that prepares it has to fail as well before failRelease reaches
\* restoreBeforeTraffic.
THEOREM UndoneUntilFourthFault == Spec => UndoneUntilFourth
<1>1. Inv /\ FaultInv /\ [Next]_vars
        => (faults <= 3 => (data' = "restored" /\ data # "restored" => data # "written" /\ ~migrating))
  <2> SUFFICES ASSUME Inv, FaultInv, [Next]_vars, faults <= 3, data' = "restored", data # "restored"
               PROVE  data # "written" /\ ~migrating
    OBVIOUS
  <2>1. RestoreData
    BY OnlyRestoreData
  <2>2. Live /\ Undoable /\ pc.step = "data"
    BY <2>1 DEF RestoreData, Inv, ClosedInv, Live
  <2>3. live = mem.source
    BY <2>2 DEF FaultInv, UndoInv
  <2> QED
    BY <2>2, <2>3 DEF Inv, UpgradeInv, ClosedInv
<1> QED
  BY <1>1, ReleaseInvariant, FaultInvariant, PTL DEF Spec, UndoneUntilFourth
=============================================================================
