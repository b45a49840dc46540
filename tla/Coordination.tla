----------------------------- MODULE Coordination -----------------------------
(***************************************************************************)
(* Identity, order and durability of operations: internal/coordination and  *)
(* the part of internal/operation that admits, saves, repairs and           *)
(* reconciles (coordination.go, startAccepted, save, Reconcile).            *)
(*                                                                         *)
(* A request has an admission, its authority.  A start by the host or the   *)
(* v1 protocol has only the operation head.  operations/current.json is a   *)
(* projection that v1 readers and the start check use.                      *)
(*                                                                         *)
(* Every file is replaced by a link or rename of a synced file and then the *)
(* directory is synced.  The rename may happen and the sync fail: the new   *)
(* contents are visible, but a power loss may bring the old ones back.      *)
(* Store.write therefore syncs all directories once more before it renames. *)
(* So each file has visible contents and contents that are known to last.   *)
(*                                                                         *)
(* One call or worker holds operation.lock at a time; Submit also holds     *)
(* mutation.lock from its lookup of the request to its return.              *)
(***************************************************************************)
EXTENDS Naturals, FiniteSets

CONSTANTS
  Requests,   \* client request identifiers
  Restores,   \* the requests whose action is a data restore
  None,       \* an absent record, and the request of a host start
  MaxOps,     \* bound: operation identifiers generated
  MaxEpoch,   \* bound: restore generations
  MaxFaults   \* bound: failed writes, crashes and power losses

ASSUME CoordinationConstants ==
  /\ Restores \subseteq Requests /\ None \notin Requests
  /\ MaxOps \in Nat /\ MaxEpoch \in Nat \ {0} /\ MaxFaults \in Nat

VARIABLES
  admission,   \* admissions/<request>.json, visible
  admSafe,     \* the same, known to last
  head,        \* head.json
  headSafe,
  current,     \* operations/current.json
  currentSafe,
  plan,        \* the epoch that each request's plan was made for; 0 for no plan
  epoch,       \* restore generation of the recovery authority
  w,           \* who holds operation.lock, and what it does next
  ids,         \* identifiers generated so far
  touched,     \* history: operations that deployment code was called for
  faults

vars == <<admission, admSafe, head, headSafe, current, currentSafe, plan, epoch, w,
          ids, touched, faults>>
authority == <<admission, admSafe, head, headSafe>>
projection == <<current, currentSafe>>
world == <<plan, epoch, ids, touched>>

\* "queued" and "running" have no stage yet; "begun" and "held" (recovery_required)
\* have one; an operation ends as "failed" without a stage or as "done" with one.
Statuses == {"queued", "running", "begun", "held", "failed", "done"}

Kinds == {"restore", "other"}

Record ==
  [seq : Nat, id : 1 .. MaxOps, kind : Kinds, req : Requests \cup {None}, status : Statuses]

\* An absent record is no record.
ASSUME NoneIsNoRecord == None \notin Record

KindOf(r) == IF r \in Restores THEN "restore" ELSE "other"

Nobody == [step |-> "none", call |-> "none", req |-> None, kind |-> "other", op |-> None]

Fault == faults < MaxFaults /\ faults' = faults + 1

--------------------
(* Order: Store.Latest.                                                     *)

Records(adm) == {adm[r] : r \in Requests} \ {None}

\* Latest reports an error for a head without its admission and for two records
\* with one identifier or one sequence number.
Readable(adm, hd) ==
  /\ hd # None /\ hd.req # None =>
       \E a \in Records(adm) : a.id = hd.id /\ a.seq = hd.seq
  /\ \A a, b \in Records(adm) : a # b => a.id # b.id /\ a.seq # b.seq
  /\ hd # None /\ hd.req = None => \A a \in Records(adm) : a.seq # hd.seq

Ordered(adm, hd) == Records(adm) \cup (IF hd # None /\ hd.req = None THEN {hd} ELSE {})

LatestOf(adm, hd) ==
  IF Ordered(adm, hd) = {} THEN None
  ELSE CHOOSE a \in Ordered(adm, hd) : \A b \in Ordered(adm, hd) : b.seq <= a.seq

\* Faulty: an existing head is taken for the newest record.
LatestHead == IF head # None THEN head ELSE LatestOf(admission, None)

Latest == LatestOf(admission, head)

NextSeq == IF Latest = None THEN 1 ELSE Latest.seq + 1

--------------------
(* Durable writes.                                                          *)

\* What follows a save, by the status that was saved or failed to be saved: a start
\* goes on to run, a failed stage holds the operation, anything else ends there.
SaveStep(op) == IF op.req # None THEN "admission" ELSE "head"

Saving(op) == [w EXCEPT !.step = SaveStep(op), !.op = op]

SavedNext ==
  CASE w.op.status = "queued"  -> Saving([w.op EXCEPT !.status = "running"])
    [] w.op.status = "running" -> Saving([w.op EXCEPT !.status = "begun"])
    [] w.op.status = "begun"   -> [w EXCEPT !.step = "work"]
    [] OTHER -> Nobody

\* Faulty: a stage that could not be saved is run all the same.
WorkAnyway == IF w.op.status = "begun" THEN [w EXCEPT !.step = "work"] ELSE Nobody

FailedNext ==
  IF w.step # "accept" /\ w.op.status = "begun"
  THEN Saving([w.op EXCEPT !.status = "held"]) ELSE Nobody

\* Faulty: neither the directories nor the new entry are synced.
WriteUnsynced(op, then) ==
  /\ admission' = [admission EXCEPT ![op.req] = op]
  /\ w' = then
  /\ UNCHANGED <<admSafe, head, headSafe, faults>>

\* Store.write into admissions/.  All directories down to it are synced first.
WriteAdmission(op, then) ==
  /\ \/ /\ admission' = [admission EXCEPT ![op.req] = op]
        /\ \/ admSafe' = admission' /\ w' = then /\ UNCHANGED faults
           \/ admSafe' = admission /\ w' = FailedNext /\ Fault
        /\ headSafe' = head
     \/ Fault /\ w' = FailedNext /\ UNCHANGED <<admission, admSafe, headSafe>>
  /\ UNCHANGED head

\* Store.write of head.json, in the directory above admissions/.
WriteHead(op, then) ==
  /\ \/ /\ head' = op
        /\ \/ headSafe' = op /\ w' = then /\ UNCHANGED faults
           \/ headSafe' = head /\ w' = FailedNext /\ Fault
     \/ Fault /\ w' = FailedNext /\ UNCHANGED <<head, headSafe>>
  /\ UNCHANGED <<admission, admSafe>>

\* replaceContents of current.json, outside the synced tree.
WriteCurrent(op, then) ==
  \/ /\ current' = op
     /\ \/ currentSafe' = op /\ w' = then /\ UNCHANGED faults
        \/ UNCHANGED currentSafe /\ w' = FailedNext /\ Fault
  \/ Fault /\ w' = FailedNext /\ UNCHANGED projection

--------------------
(* Taking the lock, and repairAdmissions.                                   *)

\* Without an authority there is nothing to repair; with one that Latest cannot
\* read, every call ends here with an error.
Lock(call, req, kind) ==
  /\ w = Nobody
  /\ Readable(admission, head)
  /\ w' = [step |-> IF Latest = None THEN "decide" ELSE "sync", call |-> call,
           req |-> req, kind |-> kind, op |-> Latest]
  /\ UNCHANGED <<authority, projection, world, faults>>

CreatePlan(r) == Lock("plan", r, KindOf(r))

\* A request that has an admission gets its receipt and nothing else.
Submit(r) == admission[r] = None /\ Lock("submit", r, KindOf(r))

StartHost(kind) == Lock("host", None, kind)

\* Faulty: without the projection there is nothing to reconcile.
ReconcileProjected == current # None /\ Lock("reconcile", None, "other")

Reconcile == (current # None \/ Latest # None) /\ Lock("reconcile", None, "other")

\* Faulty: the projections are rewritten before the authority is synced.
RebuildFirst ==
  /\ w.step = "sync"
  /\ w' = [w EXCEPT !.step = "rebuild"]
  /\ UNCHANGED <<authority, projection, world, faults>>

SyncAuthority ==
  /\ w.step = "sync"
  /\ \/ /\ headSafe' = head /\ admSafe' = admission
        /\ w' = [w EXCEPT !.step = "rebuild"] /\ UNCHANGED faults
     \/ Fault /\ w' = Nobody /\ UNCHANGED <<headSafe, admSafe>>
  /\ UNCHANGED <<admission, head, projection, world>>

Rebuild ==
  /\ w.step = "rebuild"
  /\ \/ /\ current' = w.op
        /\ \/ currentSafe' = w.op /\ w' = [w EXCEPT !.step = "decide"] /\ UNCHANGED faults
           \/ UNCHANGED currentSafe /\ w' = Nobody /\ Fault
     \/ Fault /\ w' = Nobody /\ UNCHANGED projection
  /\ UNCHANGED <<authority, world>>

--------------------
(* Deciding, with the lock held.                                            *)

\* startAccepted and CreatePlan: nothing may be unfinished, except that a data
\* restore may replace a held operation.
Free(kind) ==
  current # None =>
    current.status \in {"failed", "done"} \cup (IF kind = "restore" THEN {"held"} ELSE {})

NewRecord ==
  [seq |-> NextSeq, id |-> ids + 1, kind |-> w.kind, req |-> w.req, status |-> "queued"]

\* Faulty: the plan's epoch is not compared again.
PlanExists(r) == plan[r] # 0

\* The plan exists and was made for the present generation.
PlanHolds(r) == plan[r] = epoch

SavePlan ==
  /\ w.step = "decide" /\ w.call = "plan"
  /\ plan' \in {plan} \cup (IF Free(w.kind) THEN {[plan EXCEPT ![w.req] = epoch]} ELSE {})
  /\ w' = Nobody
  /\ UNCHANGED <<authority, projection, epoch, ids, touched, faults>>

Decide ==
  /\ w.step = "decide" /\ w.call \in {"submit", "host"}
  /\ IF Free(w.kind) /\ (w.call = "submit" => PlanHolds(w.req)) /\ ids < MaxOps
     THEN w' = [w EXCEPT !.step = "accept", !.op = NewRecord] /\ ids' = ids + 1
     ELSE w' = Nobody /\ UNCHANGED ids
  /\ UNCHANGED <<authority, projection, plan, epoch, touched, faults>>

\* Accept links the admission, which fails if the request has one; BeginLegacy
\* replaces the head.  Then the operation is saved once more, with its projections,
\* before it is dispatched.
Accept ==
  /\ w.step = "accept"
  /\ IF w.op.req = None THEN WriteHead(w.op, Saving(w.op))
     ELSE IF admission[w.op.req] = None THEN WriteAdmission(w.op, Saving(w.op))
     ELSE w' = Nobody /\ UNCHANGED <<authority, faults>>
  /\ UNCHANGED <<projection, world>>

\* Without a stage the operation fails and is never dispatched; with one, services
\* are brought back or the operation is held, again and again.
Recover ==
  /\ w.step = "decide" /\ w.call = "reconcile"
  /\ IF current = None \/ current.status \in {"failed", "done"} THEN w' = Nobody
     ELSE IF current.status \in {"queued", "running"} /\ Latest # None /\ Latest.id = current.id
     THEN w' = Saving([current EXCEPT !.status = "failed"])
     ELSE \E status \in {"held", "done"} : w' = Saving([current EXCEPT !.status = status])
  /\ UNCHANGED <<authority, projection, world, faults>>

--------------------
(* save: UpdateOperation and then the projections.                          *)

Superseded == ~Readable(admission, head) \/ Latest = None \/ Latest.id # w.op.id

Refused == w' = FailedNext /\ UNCHANGED <<authority, faults>>

SaveAdmission ==
  /\ w.step = "admission"
  /\ IF Superseded THEN Refused ELSE WriteAdmission(w.op, [w EXCEPT !.step = "head"])
  /\ UNCHANGED <<projection, world>>

SaveHead ==
  /\ w.step = "head"
  /\ IF Superseded THEN Refused ELSE WriteHead(w.op, [w EXCEPT !.step = "project"])
  /\ UNCHANGED <<projection, world>>

SaveProjection ==
  /\ w.step = "project"
  /\ WriteCurrent(w.op, SavedNext)
  /\ UNCHANGED <<authority, world>>

\* The runner calls the deployment.  A restore starts a new generation unless it
\* fails before that.
Run ==
  /\ w.step = "work"
  /\ touched' = touched \cup {[id |-> w.op.id, req |-> w.op.req]}
  /\ epoch' \in {epoch} \cup (IF w.op.kind = "restore" /\ epoch < MaxEpoch THEN {epoch + 1} ELSE {})
  /\ \E status \in {"held", "done"} : w' = Saving([w.op EXCEPT !.status = status])
  /\ UNCHANGED <<authority, projection, plan, ids, faults>>

--------------------

\* The process dies; the files stay as they are seen.
Crash ==
  /\ w # Nobody /\ Fault
  /\ w' = Nobody
  /\ UNCHANGED <<authority, projection, world>>

\* The host loses power: what was not synced may be gone.
PowerLoss ==
  /\ Fault
  /\ w' = Nobody
  /\ admission' \in {f \in [Requests -> Records(admission) \cup Records(admSafe) \cup {None}] :
                       \A r \in Requests : f[r] \in {admission[r], admSafe[r]}}
  /\ head' \in {head, headSafe} /\ current' \in {current, currentSafe}
  /\ admSafe' = admission' /\ headSafe' = head' /\ currentSafe' = current'
  /\ UNCHANGED world

Init ==
  /\ admission = [r \in Requests |-> None] /\ admSafe = admission
  /\ head = None /\ headSafe = None
  /\ current = None /\ currentSafe = None
  /\ plan = [r \in Requests |-> 0] /\ epoch = 1
  /\ w = Nobody /\ ids = 0 /\ touched = {} /\ faults = 0

Work ==
  \/ SyncAuthority \/ Rebuild
  \/ SavePlan \/ Decide \/ Accept \/ Recover
  \/ SaveAdmission \/ SaveHead \/ SaveProjection \/ Run

Next ==
  \/ Work
  \/ Reconcile
  \/ \E r \in Requests : CreatePlan(r) \/ Submit(r)
  \/ \E kind \in Kinds : StartHost(kind)
  \/ Crash
  \/ PowerLoss

Spec == Init /\ [][Next]_vars

\* A worker keeps taking steps.  The monitor tries every five seconds and does not
\* wait for the lock (cmd/geoflow-updater/main.go:148, manager.go:742); clients that
\* are refused do not hold it at every one of these moments.
FairSpec == Spec /\ WF_vars(Work) /\ SF_vars(Reconcile)

--------------------
(* Properties                                                              *)

\* Records stay within their type, and a record that is known to last is the visible
\* one or an earlier state of it.
TypeOK ==
  /\ admission \in [Requests -> Record \cup {None}] /\ admSafe \in [Requests -> Record \cup {None}]
  /\ {head, headSafe, current, currentSafe} \subseteq Record \cup {None}
  /\ plan \in [Requests -> 0 .. MaxEpoch] /\ epoch \in 1 .. MaxEpoch
  /\ w.step \in {"none", "sync", "rebuild", "decide", "accept", "admission", "head",
                 "project", "work"}
  /\ w.op \in Record \cup {None}
  /\ touched \subseteq [id : 1 .. ids, req : Requests \cup {None}]
  /\ \A r \in Requests : admSafe[r] # None =>
       admission[r] # None /\ admission[r].id = admSafe[r].id /\ admission[r].seq = admSafe[r].seq

\* No write that fails, no crash and no power loss leaves an authority that Latest
\* refuses to read: that would stop every later call, an explicit recovery included
\* (head.go:77 "operation head lost its admission authority", coordination/store.go:207).
OrderReadable == Readable(admission, head) /\ Readable(admSafe, headSafe)

\* A projection never survives its authority: without one, a lost admission would
\* pass for an old v1 operation (operation/coordination.go:304).
NoMasquerade == current # None \/ currentSafe # None => LatestOf(admSafe, headSafe) # None

\* A receipt that no longer says "pending" outlives a power loss (coordination/store.go:168).
AcceptedReceiptsLast ==
  \A r \in Requests :
    admission[r] # None /\ admission[r].status # "queued" => admSafe[r] # None

\* Deployment code runs for a request in the generation its plan was made for, also
\* when a restore came between plan and submission (operation/coordination.go:184).
RunsOnItsPlan ==
  [][ \A t \in touched' \ touched : t.req # None => plan[t.req] = epoch ]_vars

\* A receipt does not stay pending for good: once faults end, reconciliation resolves
\* it, unless a power loss took it (operation/manager.go:348).
PendingResolves ==
  \A r \in Requests :
    (admission[r] # None /\ admission[r].status \in {"queued", "running"})
      ~> (admission[r] = None \/ admission[r].status \notin {"queued", "running"})

\* The durable records implement the abstract log of requests.
RecordOf(r) ==
  CASE admSafe[r] = None -> "absent"
    [] admSafe[r] # None /\ admSafe[r].status \in {"queued", "running"} -> "admitted"
    [] admSafe[r] # None /\ admSafe[r].status = "begun" -> "begun"
    [] admSafe[r] # None /\ admSafe[r].status = "held" -> "held"
    [] OTHER -> "ended"

LastOf ==
  LET latest == LatestOf(admSafe, headSafe) IN IF latest = None THEN None ELSE latest.req

Log == INSTANCE RequestLog WITH
  Host <- None,
  record <- [r \in Requests |-> RecordOf(r)],
  last <- LastOf,
  executed <- {t.req : t \in touched} \ {None}

\* Store and manager together keep the promise of RequestLog.
ImplementsLog == Log!LogSpec
==============================================================================
