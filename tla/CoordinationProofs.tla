-------------------------- MODULE CoordinationProofs --------------------------
(***************************************************************************)
(* Proofs for any number of requests, operations, generations and faults:    *)
(* deployment code runs for a request only in the generation its plan was    *)
(* made for, a receipt that left "pending" outlives a power loss, the        *)
(* authority stays readable, no projection survives without it, and files     *)
(* and worker together implement RequestLog.                                  *)
(*                                                                         *)
(* Files and worker share records: copies of one operation differ in their   *)
(* status only.  So the newest record that an update finds under the          *)
(* identifier of its own operation is the admission it is about to replace.   *)
(* And identifiers and sequence numbers order the records in the same way,    *)
(* because each new record is decided on with the authority synced.           *)
(***************************************************************************)
EXTENDS Coordination, TLAPS, WellFoundedInduction

MaybeRecord == Record \cup {None}

SaveSteps == {"accept", "admission", "head", "project", "work"}

FilesTyped ==
  /\ ids \in 0 .. MaxOps
  /\ admission \in [Requests -> MaybeRecord] /\ admSafe \in [Requests -> MaybeRecord]
  /\ {head, headSafe, current, currentSafe} \subseteq MaybeRecord

WorkerTyped(v) ==
  /\ v = [step |-> v.step, call |-> v.call, req |-> v.req, kind |-> v.kind, op |-> v.op]
  /\ v.kind \in Kinds /\ v.req \in Requests \cup {None} /\ v.op \in MaybeRecord
  /\ v.call = "host" => v.req = None
  /\ v.step \in SaveSteps => v.op \in Record
  /\ v.step = "accept" => v.op.status = "queued"
  /\ v.step = "admission" => v.op.req # None
  /\ v.step = "work" => v.op.status = "begun"

\* All records there are.
Known ==
  {admission[r] : r \in Requests} \cup {admSafe[r] : r \in Requests}
    \cup {head, headSafe, current, currentSafe, w.op}

\* Copies of one operation.
Same(x, y) == x.id = y.id /\ x.seq = y.seq /\ x.req = y.req

Identified ==
  /\ \A x \in Known \ {None} : x.id <= ids /\ x.seq <= ids
  /\ \A x, y \in Known \ {None} : x.id = y.id => x.req = y.req
  /\ \A r \in Requests : /\ admission[r] # None => admission[r].req = r
                         /\ admSafe[r] # None => admSafe[r].req = r

\* An operation on its way to the deployment follows a plan of this generation.
OnItsPlan ==
  w.step \in SaveSteps /\ w.op.status \in {"queued", "running", "begun"} /\ w.op.req # None
    => plan[w.op.req] = epoch

CoordinationInv ==
  FilesTyped /\ WorkerTyped(w) /\ Identified /\ OnItsPlan /\ AcceptedReceiptsLast

--------------------
\* Without a record there is nothing to contradict.
LEMMA InitCoordination == Init => CoordinationInv
<1> SUFFICES ASSUME Init PROVE CoordinationInv
  OBVIOUS
<1> USE CoordinationConstants DEF Init
<1>1. FilesTyped
  BY DEF FilesTyped, MaybeRecord
<1>2. WorkerTyped(w) /\ w.step = "none"
  BY DEF WorkerTyped, Nobody, SaveSteps, Kinds, MaybeRecord
<1>3. Known = {None} \/ Known \subseteq {None}
  BY DEF Known, Nobody
<1>4. Identified
  BY <1>3 DEF Identified
<1>5. OnItsPlan /\ AcceptedReceiptsLast
  BY <1>2 DEF OnItsPlan, AcceptedReceiptsLast, SaveSteps
<1>6. QED
  BY <1>1, <1>2, <1>4, <1>5 DEF CoordinationInv

\* What Latest chooses from is on record.
LEMMA OrderedKnown ==
  ASSUME CoordinationInv
  PROVE Ordered(admission, head) \subseteq Known \ {None}
BY DEF Ordered, Records, Known

\* Every record in a file or in the worker's hands has the type of one.
LEMMA KnownRecords ==
  ASSUME CoordinationInv, NEW x \in Known \ {None}
  PROVE x \in Record
BY DEF CoordinationInv, FilesTyped, WorkerTyped, Known, MaybeRecord

\* A set of naturals that is not empty has a least member.
LEMMA LeastNat == ASSUME NEW T, T \subseteq Nat, T # {} PROVE \E x \in T : \A y \in T : x <= y
<1> DEFINE R == OpToRel(<, Nat)
<1>1. IsWellFoundedOn(R, Nat)
  BY NatLessThanWellFounded
<1> HIDE DEF R
<1>2. PICK x \in T : \A y \in T : ~(<<y, x>> \in R)
  BY <1>1, WFMin, Zenon
<1>3. \A y \in T : ~(y < x)
  BY <1>2 DEF R, OpToRel
<1>4. QED
  BY <1>3

\* Sequence numbers are bounded by the identifiers generated, so the newest record exists.
LEMMA NewestExists ==
  ASSUME CoordinationInv, NEW adm, NEW hd, Ordered(adm, hd) \subseteq Known \ {None},
         Ordered(adm, hd) # {}
  PROVE /\ LatestOf(adm, hd) \in Ordered(adm, hd)
        /\ \A b \in Ordered(adm, hd) : b.seq <= LatestOf(adm, hd).seq
<1> DEFINE S == Ordered(adm, hd)
           T == {ids - a.seq : a \in S}
<1>1. LatestOf(adm, hd) = CHOOSE a \in S : \A b \in S : b.seq <= a.seq
  BY DEF LatestOf
<1>2. ASSUME NEW a \in S PROVE a.seq \in 0 .. ids
  <2>1. a \in Record
    BY KnownRecords
  <2>2. a.seq \in Nat /\ a.seq <= ids /\ ids \in 0 .. MaxOps
    BY <2>1 DEF CoordinationInv, FilesTyped, Identified, Record
  <2>3. QED
    BY <2>2
<1>3. ids \in Nat
  BY CoordinationConstants DEF CoordinationInv, FilesTyped
<1> HIDE DEF S
<1>4. T \subseteq Nat /\ T # {}
  BY <1>2, <1>3 DEF S
<1>5. PICK x \in T : \A y \in T : x <= y
  BY <1>4, LeastNat
<1>6. PICK a \in S : x = ids - a.seq
  BY <1>5
<1>7. \A b \in S : b.seq <= a.seq
  <2>1. \A b \in S : ids - a.seq <= ids - b.seq
    BY <1>5, <1>6
  <2>2. QED
    BY <1>2, <1>3, <2>1
<1>8. QED
  BY <1>1, <1>7 DEF S

\* The record that Latest returns exists.
LEMMA LatestIsKnown ==
  ASSUME CoordinationInv, Latest # None
  PROVE Latest \in Ordered(admission, head) /\ Latest \in Known \ {None}
<1>1. Ordered(admission, head) # {}
  BY DEF Latest, LatestOf
<1>2. QED
  BY <1>1, OrderedKnown, NewestExists DEF Latest

\* A step after which no record is new keeps copies of one operation together.
LEMMA Inherited ==
  ASSUME CoordinationInv, ids' = ids, Known' \subseteq Known \cup {None, w'.op},
         w'.op # None => \E y \in Known \ {None} : Same(w'.op, y),
         \A r \in Requests : /\ admission'[r] # None => admission'[r].req = r
                             /\ admSafe'[r] # None => admSafe'[r].req = r
  PROVE Identified'
<1>1. \A x \in Known' \ {None} : \E y \in Known \ {None} : Same(x, y)
  BY DEF Same
<1>2. \A x \in Known' \ {None} : x.id <= ids' /\ x.seq <= ids'
  BY <1>1 DEF CoordinationInv, Identified, Same
<1>3. \A x, y \in Known' \ {None} : x.id = y.id => x.req = y.req
  BY <1>1 DEF CoordinationInv, Identified, Same
<1>4. QED
  BY <1>2, <1>3 DEF Identified

\* Where a save leads, whether it succeeds or fails.
LEMMA Onward ==
  ASSUME WorkerTyped(w), w.step \in SaveSteps,
         NEW v \in {SavedNext, FailedNext, Nobody, Saving(w.op), [w EXCEPT !.step = "head"],
                    [w EXCEPT !.step = "project"]}
  PROVE /\ WorkerTyped(v)
        /\ v.op = None \/ Same(v.op, w.op)
        /\ v.step \in SaveSteps /\ v.op.status \in {"queued", "running", "begun"}
             => w.op.status \in {"queued", "running", "begun"} /\ v.op.req = w.op.req
<1>1. CASE v = Nobody
  BY <1>1, CoordinationConstants DEF WorkerTyped, Nobody, SaveSteps, Kinds, MaybeRecord
<1>2. CASE v \in {Saving(w.op), [w EXCEPT !.step = "head"], [w EXCEPT !.step = "project"]}
  BY <1>2 DEF WorkerTyped, Saving, SaveStep, SaveSteps, Same, Record, MaybeRecord
<1>3. ASSUME NEW s \in {"running", "begun", "held"}, v = Saving([w.op EXCEPT !.status = s]),
             s # "held" => w.op.status \in {"queued", "running"}
      PROVE /\ WorkerTyped(v) /\ Same(v.op, w.op)
            /\ v.op.status \in {"queued", "running", "begun"}
                 => w.op.status \in {"queued", "running", "begun"} /\ v.op.req = w.op.req
  <2>1. w.op \in Record
    BY DEF WorkerTyped
  <2>2. /\ [w.op EXCEPT !.status = s] \in Record /\ Same([w.op EXCEPT !.status = s], w.op)
        /\ [w.op EXCEPT !.status = s].status = s
    BY <2>1 DEF Record, Same, Statuses
  <2> DEFINE o == [w.op EXCEPT !.status = s]
  <2> HIDE DEF o
  <2>3. v = [w EXCEPT !.step = SaveStep(o), !.op = o] /\ SaveStep(o) \in {"admission", "head"}
        /\ (SaveStep(o) = "admission" => o.req # None)
    BY <1>3 DEF Saving, SaveStep, o
  <2>4. o \in Record /\ Same(o, w.op) /\ o.status = s
    BY <2>2 DEF o
  <2>5. v.op = o /\ v.step = SaveStep(o) /\ v.call = w.call /\ v.req = w.req /\ v.kind = w.kind
        /\ v = [step |-> v.step, call |-> v.call, req |-> v.req, kind |-> v.kind, op |-> v.op]
    BY <2>3 DEF WorkerTyped
  <2>6. WorkerTyped(v)
    BY <2>3, <2>4, <2>5 DEF WorkerTyped, MaybeRecord
  <2>7. QED
    BY <1>3, <2>4, <2>5, <2>6 DEF Same
<1>4. CASE v = [w EXCEPT !.step = "work"] /\ w.op.status = "begun"
  BY <1>4 DEF WorkerTyped, SaveSteps, Same, MaybeRecord
<1>5. CASE v = SavedNext
  <2>1. \/ v = Saving([w.op EXCEPT !.status = "running"]) /\ w.op.status = "queued"
        \/ v = Saving([w.op EXCEPT !.status = "begun"]) /\ w.op.status = "running"
        \/ v = [w EXCEPT !.step = "work"] /\ w.op.status = "begun"
        \/ v = Nobody
    BY <1>5 DEF SavedNext
  <2>2. QED
    BY <1>1, <1>3, <1>4, <2>1
<1>6. CASE v = FailedNext
  <2>1. v = Nobody \/ v = Saving([w.op EXCEPT !.status = "held"])
    BY <1>6 DEF FailedNext
  <2>2. QED
    BY <1>1, <1>3, <2>1
<1>7. QED
  BY <1>1, <1>2, <1>5, <1>6

\* A write of the worker's own record, when its admission is visible or only queued.
LEMMA Written ==
  ASSUME CoordinationInv, w.step \in SaveSteps, UNCHANGED <<plan, epoch, ids>>,
         w' \in {SavedNext, FailedNext, Nobody, Saving(w.op), [w EXCEPT !.step = "head"],
                 [w EXCEPT !.step = "project"]},
         {head', headSafe', current', currentSafe'}
           \subseteq {head, headSafe, current, currentSafe, w.op},
         \/ UNCHANGED <<admission, admSafe>>
         \/ /\ w.op.req \in Requests
            /\ admission' = [admission EXCEPT ![w.op.req] = w.op]
            /\ admSafe' \in {admission, admission'}
            /\ w.op.status = "queued" \/ admission[w.op.req] # None
  PROVE CoordinationInv'
<1> USE DEF CoordinationInv
<1>1. /\ WorkerTyped(w')
      /\ w'.op = None \/ Same(w'.op, w.op)
      /\ w'.step \in SaveSteps /\ w'.op.status \in {"queued", "running", "begun"}
           => w.op.status \in {"queued", "running", "begun"} /\ w'.op.req = w.op.req
  BY Onward
<1>2. w.op \in Record /\ w.op # None /\ w.op \in Known
  BY NoneIsNoRecord DEF WorkerTyped, Known
<1>3. FilesTyped'
  BY <1>2 DEF FilesTyped, MaybeRecord
<1>4. /\ \A r \in Requests : admission'[r] \in {admission[r], w.op} /\ admSafe'[r] \in {admission[r], admSafe[r], w.op}
      /\ \A r \in Requests : /\ admission'[r] # None => admission'[r].req = r
                             /\ admSafe'[r] # None => admSafe'[r].req = r
  BY DEF FilesTyped, Identified
<1>5. Known' \subseteq Known \cup {None, w'.op}
  BY <1>4 DEF Known
<1>6. Identified'
  BY <1>1, <1>2, <1>4, <1>5, Inherited
<1>7. OnItsPlan'
  BY <1>1 DEF OnItsPlan
<1>8. AcceptedReceiptsLast'
  BY <1>2 DEF AcceptedReceiptsLast, FilesTyped
<1>9. QED
  BY <1>1, <1>3, <1>6, <1>7, <1>8

\* A step that leaves the records where they are, while nothing is being saved after it.
LEMMA Parked ==
  ASSUME CoordinationInv, UNCHANGED ids, WorkerTyped(w'),
         w'.step \in SaveSteps => w'.op.status \notin {"queued", "running", "begun"},
         w'.op # None => \E y \in Known \ {None} : Same(w'.op, y),
         {head', headSafe', current', currentSafe'}
           \subseteq {head, headSafe, current, currentSafe, w.op},
         admission' \in [Requests -> MaybeRecord], admSafe' \in [Requests -> MaybeRecord],
         \A r \in Requests : admission'[r] \in {admission[r], admSafe[r]} /\ admSafe'[r] \in {admission[r], admSafe[r]},
         UNCHANGED <<admission, admSafe>> \/ admSafe' = admission'
  PROVE CoordinationInv'
<1> USE DEF CoordinationInv
<1>1. FilesTyped'
  BY DEF FilesTyped, WorkerTyped, MaybeRecord
<1>2. Known' \subseteq Known \cup {None, w'.op}
  BY DEF Known
<1>3. \A r \in Requests : /\ admission'[r] # None => admission'[r].req = r
                          /\ admSafe'[r] # None => admSafe'[r].req = r
  BY DEF Identified
<1>4. Identified'
  BY <1>2, <1>3, Inherited
<1>5. OnItsPlan'
  BY DEF OnItsPlan
<1>6. AcceptedReceiptsLast'
  BY DEF AcceptedReceiptsLast
<1>7. QED
  BY <1>1, <1>4, <1>5, <1>6

\* What Lock, Rebuild and Recover hand on are copies of records that exist.
LEMMA Kin ==
  ASSUME CoordinationInv
  PROVE /\ Latest # None => \E y \in Known \ {None} : Same(Latest, y)
        /\ w.op # None => \E y \in Known \ {None} : Same(w.op, y)
        /\ current # None => current \in Record /\ current \in Known \ {None}
        /\ Latest \in MaybeRecord
<1>1. w.op \in Known /\ current \in Known
  BY DEF Known
<1>2. QED
  BY <1>1, LatestIsKnown, KnownRecords DEF Same, MaybeRecord

\* Only the copy with the worker's identifier is replaced by it.
LEMMA OwnAdmission ==
  ASSUME CoordinationInv, w.step = "admission", ~Superseded
  PROVE /\ w.op.req \in Requests /\ admission[w.op.req] # None
        /\ admission[w.op.req].id = w.op.id
<1>1. Latest # None /\ Latest.id = w.op.id /\ w.op \in Record /\ w.op.req # None
  BY DEF Superseded, CoordinationInv, WorkerTyped, SaveSteps
<1>2. Latest \in Ordered(admission, head) /\ Latest \in Known \ {None} /\ w.op \in Known \ {None}
  BY <1>1, LatestIsKnown, NoneIsNoRecord DEF Known
<1>3. Latest.req = w.op.req
  BY <1>1, <1>2 DEF CoordinationInv, Identified
<1>4. PICK r \in Requests : Latest = admission[r] /\ admission[r] # None
  BY <1>1, <1>2, <1>3 DEF Ordered, Records
<1>5. r = w.op.req
  BY <1>3, <1>4 DEF CoordinationInv, Identified
<1>6. QED
  BY <1>1, <1>4, <1>5

\* Taking the lock moves no file.
LEMMA Locking ==
  ASSUME CoordinationInv, NEW call, NEW req \in Requests \cup {None}, NEW kind \in Kinds,
         call = "host" => req = None, Lock(call, req, kind)
  PROVE CoordinationInv'
<1>1. w' = [step |-> w'.step, call |-> call, req |-> req, kind |-> kind, op |-> Latest]
      /\ w'.step \in {"decide", "sync"}
      /\ UNCHANGED <<authority, projection, world>>
  BY DEF Lock
<1>2. WorkerTyped(w') /\ w'.step \notin SaveSteps
  BY <1>1, Kin DEF WorkerTyped, SaveSteps
<1>3. QED
  BY <1>1, <1>2, Kin, Parked DEF authority, projection, world, CoordinationInv, FilesTyped

\* A worker that leaves saves nothing more.
LEMMA Leaving ==
  ASSUME CoordinationInv
  PROVE WorkerTyped(Nobody) /\ Nobody.op = None /\ Nobody.step \notin SaveSteps
BY DEF WorkerTyped, Nobody, SaveSteps, Kinds, MaybeRecord

\* Every step keeps files and worker together.
LEMMA StepCoordination == CoordinationInv /\ [Next]_vars => CoordinationInv'
<1> SUFFICES ASSUME CoordinationInv, [Next]_vars PROVE CoordinationInv'
  OBVIOUS
<1> USE DEF authority, projection, world
<1>1. CASE Reconcile
  BY <1>1, Locking DEF Reconcile, Kinds
<1>2. ASSUME NEW r \in Requests, CreatePlan(r) \/ Submit(r) PROVE CoordinationInv'
  BY <1>2, Locking DEF CreatePlan, Submit, KindOf, Kinds
<1>3. ASSUME NEW kind \in Kinds, StartHost(kind) PROVE CoordinationInv'
  BY <1>3, Locking DEF StartHost
<1>4. CASE Crash
  BY <1>4, Leaving, Parked DEF Crash, CoordinationInv, FilesTyped
<1>5. CASE PowerLoss
  <2>1. \A r \in Requests : admission'[r] \in {admission[r], admSafe[r]}
    BY <1>5 DEF PowerLoss
  <2>2. admission' \in [Requests -> MaybeRecord] /\ admSafe' = admission'
    <3>1. admission' \in [Requests -> Records(admission) \cup Records(admSafe) \cup {None}] /\ admSafe' = admission'
      BY <1>5 DEF PowerLoss
    <3>2. QED
      BY <3>1 DEF Records, CoordinationInv, FilesTyped, MaybeRecord
  <2>3. w' = Nobody /\ UNCHANGED ids
        /\ {head', headSafe', current', currentSafe'} \subseteq {head, headSafe, current, currentSafe, w.op}
    BY <1>5 DEF PowerLoss
  <2>4. QED
    BY <2>1, <2>2, <2>3, Leaving, Parked
<1>6. CASE SyncAuthority
  <2>1. w' = Nobody \/ w' = [w EXCEPT !.step = "rebuild"]
    BY <1>6 DEF SyncAuthority
  <2>2. WorkerTyped(w') /\ w'.step \notin SaveSteps /\ w'.op \in {None, w.op}
    BY <2>1, Leaving DEF CoordinationInv, WorkerTyped, SaveSteps
  <2>3. QED
    BY <1>6, <2>2, Kin, Parked DEF SyncAuthority, CoordinationInv, FilesTyped
<1>7. CASE Rebuild
  <2>1. w' = Nobody \/ w' = [w EXCEPT !.step = "decide"]
    BY <1>7 DEF Rebuild
  <2>2. WorkerTyped(w') /\ w'.step \notin SaveSteps /\ w'.op \in {None, w.op}
    BY <2>1, Leaving DEF CoordinationInv, WorkerTyped, SaveSteps
  <2>3. QED
    BY <1>7, <2>2, Kin, Parked DEF Rebuild, CoordinationInv, FilesTyped
<1>8. CASE SavePlan
  BY <1>8, Leaving, Parked DEF SavePlan, CoordinationInv, FilesTyped
<1>9. CASE Decide
  <2>1. CASE w' = Nobody /\ UNCHANGED ids
    BY <1>9, <2>1, Leaving, Parked DEF Decide, CoordinationInv, FilesTyped
  <2>2. CASE /\ w.call = "submit" => PlanHolds(w.req)
             /\ ids < MaxOps /\ ids' = ids + 1
             /\ w' = [w EXCEPT !.step = "accept", !.op = NewRecord]
    <3>1. ids \in Nat /\ ids' \in 1 .. MaxOps /\ ids' \in 0 .. MaxOps /\ w.kind \in Kinds /\ w.req \in Requests \cup {None}
          /\ (w.call = "host" => w.req = None) /\ w.call \in {"submit", "host"}
      BY <1>9, <2>2, CoordinationConstants DEF CoordinationInv, FilesTyped, WorkerTyped, Decide
    <3>2. NextSeq \in Nat /\ NextSeq <= ids'
      <4>1. CASE Latest = None
        BY <2>2, <3>1, <4>1 DEF NextSeq
      <4>2. CASE Latest # None
        <5>1. Latest.seq \in Nat /\ Latest.seq <= ids
          BY <4>2, LatestIsKnown, KnownRecords DEF Record, CoordinationInv, Identified
        <5>2. QED
          BY <2>2, <3>1, <4>2, <5>1 DEF NextSeq
      <4>3. QED
        BY <4>1, <4>2
    <3>3. /\ NewRecord \in Record /\ NewRecord.id = ids' /\ NewRecord.seq = NextSeq
          /\ NewRecord.req = w.req /\ NewRecord.status = "queued"
      BY <2>2, <3>1, <3>2 DEF NewRecord, Record, Statuses
    <3> DEFINE o == NewRecord
    <3> HIDE DEF o
    <3>4. o \in Record /\ o # None /\ o.id = ids' /\ o.seq <= ids' /\ o.req = w.req /\ o.status = "queued"
      BY <3>2, <3>3, NoneIsNoRecord DEF o
    <3>5. w' = [w EXCEPT !.step = "accept", !.op = o]
      BY <2>2 DEF o
    <3>6. WorkerTyped(w') /\ w'.op = o /\ w'.step = "accept"
      BY <3>4, <3>5 DEF CoordinationInv, WorkerTyped, SaveSteps, MaybeRecord
    <3>7. FilesTyped' /\ AcceptedReceiptsLast'
      BY <1>9, <3>1 DEF Decide, CoordinationInv, FilesTyped, AcceptedReceiptsLast
    <3>8. Known' \subseteq Known \cup {o}
      BY <1>9, <3>6 DEF Decide, Known
    <3>9. \A x \in Known \ {None} : x.id \in Nat /\ x.id < ids' /\ x.seq \in Nat /\ x.seq <= ids'
      <4>1. \A x \in Known \ {None} : x.id \in Nat /\ x.seq \in Nat
        BY KnownRecords, CoordinationConstants DEF Record
      <4>2. \A x \in Known \ {None} : x.id <= ids /\ x.seq <= ids
        BY DEF CoordinationInv, Identified
      <4>3. QED
        BY <2>2, <3>1, <4>1, <4>2
    <3>10. \A x \in Known' \ {None} : x.id <= ids' /\ x.seq <= ids'
      BY <3>1, <3>4, <3>8, <3>9
    <3>11. \A x, y \in Known' \ {None} : x.id = y.id => x.req = y.req
      <4>1. \A x, y \in Known \ {None} : x.id = y.id => x.req = y.req
        BY DEF CoordinationInv, Identified
      <4>2. \A x \in Known \ {None} : x.id # o.id
        BY <3>1, <3>4, <3>9
      <4>3. QED
        BY <3>8, <4>1, <4>2
    <3>12. Identified'
      BY <1>9, <3>10, <3>11 DEF Decide, CoordinationInv, Identified
    <3>13. OnItsPlan'
      BY <1>9, <2>2, <3>1, <3>4, <3>6 DEF Decide, OnItsPlan, PlanHolds
    <3>14. QED
      BY <3>6, <3>7, <3>12, <3>13 DEF CoordinationInv
  <2>3. QED
    BY <1>9, <2>1, <2>2 DEF Decide
<1>10. CASE Accept
  <2>0. w.step = "accept" /\ w.step \in SaveSteps /\ w.op \in Record /\ w.op.status = "queued"
    BY <1>10 DEF Accept, CoordinationInv, WorkerTyped, SaveSteps
  <2>1. CASE w.op.req = None /\ WriteHead(w.op, Saving(w.op))
    BY <1>10, <2>0, <2>1, Written DEF Accept, WriteHead
  <2>2. CASE w.op.req # None /\ WriteAdmission(w.op, Saving(w.op))
    <3>1. w.op.req \in Requests
      BY <2>0, <2>2 DEF Record
    <3>2. QED
      BY <1>10, <2>0, <2>2, <3>1, Written DEF Accept, WriteAdmission
  <2>3. CASE w' = Nobody /\ UNCHANGED <<authority, faults>>
    BY <1>10, <2>0, <2>3, Written DEF Accept
  <2>4. QED
    BY <1>10, <2>1, <2>2, <2>3 DEF Accept
<1>11. CASE Recover
  <2>1. CASE w' = Nobody
    BY <1>11, <2>1, Leaving, Parked DEF Recover, CoordinationInv, FilesTyped
  <2>2. ASSUME NEW s \in {"failed", "held", "done"}, current # None,
               w' = Saving([current EXCEPT !.status = s])
        PROVE CoordinationInv'
    <3> DEFINE o == [current EXCEPT !.status = s]
    <3>1. o \in Record /\ Same(o, current) /\ o.status = s
      BY <2>2, Kin DEF Record, Same, Statuses
    <3> HIDE DEF o
    <3>2. w' = [w EXCEPT !.step = SaveStep(o), !.op = o] /\ SaveStep(o) \in {"admission", "head"}
          /\ (SaveStep(o) = "admission" => o.req # None)
      BY <2>2 DEF Saving, SaveStep, o
    <3>3. WorkerTyped(w') /\ w'.op = o
      BY <3>1, <3>2 DEF CoordinationInv, WorkerTyped, MaybeRecord
    <3>4. \E y \in Known \ {None} : Same(w'.op, y)
      BY <2>2, <3>1, <3>3, Kin
    <3>5. QED
      BY <1>11, <3>1, <3>3, <3>4, Parked DEF Recover, CoordinationInv, FilesTyped
  <2>3. QED
    BY <1>11, <2>1, <2>2 DEF Recover
<1>12. CASE SaveAdmission
  <2>0. w.step = "admission" /\ w.step \in SaveSteps
    BY <1>12 DEF SaveAdmission, SaveSteps
  <2>1. CASE Refused
    BY <1>12, <2>0, <2>1, Written DEF SaveAdmission, Refused
  <2>2. CASE ~Superseded /\ WriteAdmission(w.op, [w EXCEPT !.step = "head"])
    <3>1. w.op.req \in Requests /\ admission[w.op.req] # None
      BY <2>0, <2>2, OwnAdmission
    <3>2. QED
      BY <1>12, <2>0, <2>2, <3>1, Written DEF SaveAdmission, WriteAdmission
  <2>3. QED
    BY <1>12, <2>1, <2>2 DEF SaveAdmission
<1>13. CASE SaveHead
  <2>0. w.step \in SaveSteps
    BY <1>13 DEF SaveHead, SaveSteps
  <2>1. CASE Refused
    BY <1>13, <2>0, <2>1, Written DEF SaveHead, Refused
  <2>2. CASE WriteHead(w.op, [w EXCEPT !.step = "project"])
    BY <1>13, <2>0, <2>2, Written DEF SaveHead, WriteHead
  <2>3. QED
    BY <1>13, <2>1, <2>2 DEF SaveHead
<1>14. CASE SaveProjection
  <2>0. w.step \in SaveSteps
    BY <1>14 DEF SaveProjection, SaveSteps
  <2>1. QED
    BY <1>14, <2>0, Written DEF SaveProjection, WriteCurrent
<1>15. CASE Run
  <2>0. w.op \in Record
    BY <1>15 DEF Run, CoordinationInv, WorkerTyped, SaveSteps
  <2>1. PICK s \in {"held", "done"} : w' = Saving([w.op EXCEPT !.status = s])
    BY <1>15 DEF Run
  <2> DEFINE o == [w.op EXCEPT !.status = s]
  <2>2. o \in Record /\ Same(o, w.op) /\ o.status = s
    BY <2>0 DEF Record, Same, Statuses
  <2> HIDE DEF o
  <2>3. w' = [w EXCEPT !.step = SaveStep(o), !.op = o] /\ SaveStep(o) \in {"admission", "head"}
        /\ (SaveStep(o) = "admission" => o.req # None)
    BY <2>1 DEF Saving, SaveStep, o
  <2>4. WorkerTyped(w') /\ w'.op = o
    BY <2>2, <2>3 DEF CoordinationInv, WorkerTyped, MaybeRecord
  <2>5. \E y \in Known \ {None} : Same(w'.op, y)
    BY <2>0, <2>2, <2>4, NoneIsNoRecord DEF Known
  <2>6. QED
    BY <1>15, <2>2, <2>4, <2>5, Parked DEF Run, CoordinationInv, FilesTyped
<1>16. CASE UNCHANGED vars
  <2>1. UNCHANGED <<admission, admSafe, head, headSafe, current, currentSafe, plan, epoch, w, ids>>
    BY <1>16 DEF vars
  <2>2. Known' = Known /\ ids' = ids
    BY <2>1 DEF Known
  <2>3. QED
    BY <2>1, <2>2 DEF CoordinationInv, FilesTyped, Identified, OnItsPlan, AcceptedReceiptsLast
<1>17. QED
  BY <1>1, <1>2, <1>3, <1>4, <1>5, <1>6, <1>7, <1>8, <1>9, <1>10, <1>11, <1>12, <1>13, <1>14, <1>15, <1>16
  DEF Next, Work

--------------------
(* The order of the records.                                                *)

\* What gives the order, with the record that is being saved.
Authority ==
  {admission[r] : r \in Requests} \cup {head, headSafe}
    \cup (IF w.step \in SaveSteps THEN {w.op} ELSE {})

\* A record of a request whose admission is known to last.
Lasting(h) == h # None /\ h.req # None => admSafe[h.req] # None /\ Same(admSafe[h.req], h)

Synced == admSafe = admission /\ headSafe = head

\* Identifiers and sequence numbers agree, and nothing refers to an admission before it lasts.
RecordsOrdered ==
  /\ \A x, y \in Authority \ {None} : x.id = y.id <=> x.seq = y.seq
  /\ \A r \in Requests : admSafe[r] # None => admission[r] # None /\ Same(admission[r], admSafe[r])
  /\ Lasting(head) /\ Lasting(headSafe)
  /\ headSafe # None => head # None
  /\ current # None \/ currentSafe # None => Ordered(admSafe, headSafe) # {}

\* Where the worker is with them.
WorkerOrdered ==
  /\ w.step \in {"head", "project", "work"} => Lasting(w.op)
  /\ w.step \in {"project", "work"} /\ w.op.req = None => headSafe # None /\ headSafe.req = None
  /\ w.step \in {"rebuild", "decide", "accept"} => Synced
  /\ w.step = "accept" => \A x \in Authority \ {None, w.op} : x.seq < w.op.seq /\ x.id < w.op.id
  /\ w.step = "decide" => current = Latest
  /\ w.step \in {"sync", "rebuild"} => w.op = Latest /\ Latest # None

OrderInv == RecordsOrdered /\ WorkerOrdered

\* Nothing is recorded at first.
LEMMA InitOrder == Init => OrderInv
<1> SUFFICES ASSUME Init PROVE OrderInv
  OBVIOUS
<1>1. Authority = {None} \/ Authority \subseteq {None}
  BY DEF Authority, Init, Nobody, SaveSteps
<1>2. QED
  BY <1>1 DEF Init, OrderInv, RecordsOrdered, WorkerOrdered, Lasting, Nobody

\* A step after which no record is new keeps identifiers and sequence numbers in agreement.
LEMMA StillAgrees ==
  ASSUME OrderInv, \A x \in Authority' \ {None} : \E y \in Authority \ {None} : Same(x, y)
  PROVE \A x, y \in Authority' \ {None} : x.id = y.id <=> x.seq = y.seq
BY DEF OrderInv, RecordsOrdered, Same

\* A projection keeps an authority behind it.
LEMMA AuthorityStays ==
  ASSUME CoordinationInv, OrderInv, Ordered(admSafe, headSafe) # {},
         \A r \in Requests : admSafe[r] # None => admSafe'[r] # None,
         headSafe' \in {head, headSafe}
  PROVE Ordered(admSafe', headSafe') # {}
<1>1. CASE \E r \in Requests : admSafe[r] # None
  BY <1>1 DEF Ordered, Records
<1>2. CASE ~\E r \in Requests : admSafe[r] # None
  <2>1. headSafe # None /\ headSafe.req = None
    BY <1>2 DEF Ordered, Records
  <2>2. head # None /\ head \in Record
    BY <2>1 DEF OrderInv, RecordsOrdered, CoordinationInv, FilesTyped, MaybeRecord
  <2>3. head.req = None
    BY <1>2, <2>2 DEF OrderInv, RecordsOrdered, Lasting, Record
  <2>4. QED
    BY <2>1, <2>2, <2>3 DEF Ordered
<1>3. QED
  BY <1>1, <1>2

\* What Latest is chosen from, when nothing is visible.
LEMMA NothingVisible ==
  ASSUME CoordinationInv, OrderInv, Latest = None
  PROVE Synced /\ current = None /\ \A r \in Requests : admission[r] = None
<1>1. Ordered(admission, head) = {}
  BY OrderedKnown, NewestExists DEF Latest
<1>2. \A r \in Requests : admission[r] = None /\ admSafe[r] = None
  BY <1>1 DEF Ordered, Records, OrderInv, RecordsOrdered
<1>3. admSafe = admission
  BY <1>2 DEF CoordinationInv, FilesTyped
<1>4. head = None
  <2>1. CASE head # None /\ head.req = None
    BY <1>1, <2>1 DEF Ordered
  <2>2. CASE head # None /\ head.req # None
    <3>1. head.req \in Requests
      BY <2>2 DEF CoordinationInv, FilesTyped, MaybeRecord, Record
    <3>2. QED
      BY <1>2, <2>2, <3>1 DEF OrderInv, RecordsOrdered, Lasting
  <2>3. QED
    BY <2>1, <2>2
<1>5. headSafe = head
  BY <1>4 DEF OrderInv, RecordsOrdered
<1>6. current = None
  BY <1>1, <1>3, <1>5 DEF OrderInv, RecordsOrdered
<1>7. QED
  BY <1>2, <1>3, <1>5, <1>6 DEF Synced

\* Taking the lock moves nothing.
LEMMA LockingOrder ==
  ASSUME CoordinationInv, OrderInv, NEW call, NEW req, NEW kind, Lock(call, req, kind)
  PROVE OrderInv'
<1>1. UNCHANGED <<admission, admSafe, head, headSafe, current, currentSafe>> /\ w'.op = Latest
      /\ w'.step = (IF Latest = None THEN "decide" ELSE "sync") /\ Latest' = Latest
  BY DEF Lock, authority, projection, Latest
<1>2. Authority' \subseteq Authority
  BY <1>1 DEF Authority, SaveSteps
<1>3. RecordsOrdered'
  BY <1>1, <1>2 DEF OrderInv, RecordsOrdered, Lasting, Same
<1>4. WorkerOrdered'
  BY <1>1, NothingVisible DEF WorkerOrdered, Synced
<1>5. QED
  BY <1>3, <1>4 DEF OrderInv

\* A worker that leaves, or saves a record that exists, changes no order.
LEMMA Unmoved ==
  ASSUME CoordinationInv, OrderInv, UNCHANGED <<admission, admSafe, head, headSafe>>,
         \/ UNCHANGED <<current, currentSafe>>
         \/ Ordered(admSafe, headSafe) # {},
         w'.step \in {"none", "admission", "head", "project", "work"},
         w'.step # "none" => \E y \in Authority \ {None} : Same(w'.op, y),
         w'.step \in {"head", "project", "work"} => Lasting(w'.op),
         w'.step \in {"project", "work"} /\ w'.op.req = None => headSafe # None /\ headSafe.req = None
  PROVE OrderInv'
<1>1. \A x \in Authority' \ {None} : \E y \in Authority \ {None} : Same(x, y)
  BY DEF Authority, Same, SaveSteps
<1>2. RecordsOrdered'
  BY <1>1, StillAgrees DEF OrderInv, RecordsOrdered, Lasting, Same
<1>3. WorkerOrdered'
  BY DEF WorkerOrdered, Lasting, Same
<1>4. QED
  BY <1>2, <1>3 DEF OrderInv

\* A save begins with its record.
LEMMA SavingLeads ==
  ASSUME CoordinationInv, NEW o
  PROVE /\ Saving(o).op = o /\ Saving(o).step \in {"admission", "head"}
        /\ Saving(o).step = "head" <=> o.req = None
<1>1. w = [step |-> w.step, call |-> w.call, req |-> w.req, kind |-> w.kind, op |-> w.op]
  BY DEF CoordinationInv, WorkerTyped
<1>2. Saving(o).op = o /\ Saving(o).step = SaveStep(o)
  BY <1>1 DEF Saving
<1>3. QED
  BY <1>2 DEF SaveStep

\* Where a failed save leads.
LEMMA FailedLeads ==
  ASSUME CoordinationInv, w.step \in SaveSteps
  PROVE \/ FailedNext = Nobody
        \/ /\ w.step # "accept" /\ FailedNext.step \in {"admission", "head"}
           /\ FailedNext.step = "head" => FailedNext.op.req = None
           /\ Same(FailedNext.op, w.op)
<1> DEFINE o == [w.op EXCEPT !.status = "held"]
<1>1. Same(o, w.op)
  BY DEF CoordinationInv, WorkerTyped, Same, Record
<1>2. FailedNext = Nobody \/ (w.step # "accept" /\ FailedNext = Saving(o))
  BY DEF FailedNext
<1>3. QED
  BY <1>1, <1>2, SavingLeads

\* The worker's record is one of the authority's.
LEMMA OwnRecord ==
  ASSUME CoordinationInv, w.step \in SaveSteps
  PROVE w.op \in Record /\ w.op # None /\ w.op \in Authority \ {None}
BY NoneIsNoRecord DEF CoordinationInv, WorkerTyped, Authority

\* After a failed save that left the authority alone.
LEMMA FailedOrder ==
  ASSUME CoordinationInv, OrderInv, w.step \in SaveSteps, UNCHANGED <<admission, admSafe, head, headSafe>>,
         w' = FailedNext \/ w' = Nobody, UNCHANGED <<current, currentSafe>> \/ Ordered(admSafe, headSafe) # {}
  PROVE OrderInv'
<1>1. CASE w' = Nobody
  BY <1>1, Unmoved DEF Nobody
<1>2. CASE w' = FailedNext /\ w' # Nobody
  <2>1. w'.step \in {"admission", "head"} /\ (w'.step = "head" => w'.op.req = None) /\ Same(w'.op, w.op)
    BY <1>2, FailedLeads
  <2>2. \E y \in Authority \ {None} : Same(w'.op, y)
    BY <2>1, OwnRecord
  <2>3. QED
    BY <2>1, <2>2, Unmoved DEF Lasting
<1>3. QED
  BY <1>1, <1>2

\* A new admission, or the next status of an old one.
LEMMA AdmissionOrder ==
  ASSUME CoordinationInv, OrderInv, NEW then, WriteAdmission(w.op, then), UNCHANGED <<current, currentSafe>>,
         w.step \in SaveSteps, w.op.req \in Requests,
         \/ admission[w.op.req] = None /\ then = Saving(w.op)
         \/ admission[w.op.req] # None /\ Same(w.op, admission[w.op.req]) /\ then = [w EXCEPT !.step = "head"]
  PROVE OrderInv'
<1> USE OwnRecord
<1>1. CASE Fault /\ w' = FailedNext /\ UNCHANGED <<admission, admSafe, headSafe, head>>
  BY <1>1, FailedOrder
<1>2. CASE /\ admission' = [admission EXCEPT ![w.op.req] = w.op] /\ head' = head /\ headSafe' = head
           /\ (admSafe' = admission' /\ w' = then) \/ (admSafe' = admission /\ w' = FailedNext)
  <2>1. /\ w'.step \in {"none", "admission", "head"}
        /\ w'.step # "none" => Same(w'.op, w.op)
        /\ w'.step = "head" => w'.op.req = None \/ (w'.op = w.op /\ admSafe' = admission')
    <3>1. CASE w' = then /\ then = Saving(w.op)
      BY <3>1, SavingLeads DEF Same
    <3>2. CASE w' = then /\ then = [w EXCEPT !.step = "head"] /\ admSafe' = admission'
      <4>1. w'.step = "head" /\ w'.op = w.op
        BY <3>2 DEF CoordinationInv, WorkerTyped
      <4>2. QED
        BY <3>2, <4>1 DEF Same
    <3>3. CASE w' = FailedNext
      BY <3>3, FailedLeads DEF Nobody
    <3>4. QED
      BY <1>2, <3>1, <3>2, <3>3
  <2>2. \A r \in Requests : /\ admission'[r] \in {admission[r], w.op}
                            /\ admission[r] # None => admission'[r] # None /\ Same(admission'[r], admission[r])
    BY <1>2 DEF CoordinationInv, FilesTyped, Same
  <2>3. \A r \in Requests : admSafe[r] # None => /\ admSafe'[r] # None /\ admission'[r] # None
                                                 /\ Same(admSafe'[r], admSafe[r])
    <3> SUFFICES ASSUME NEW r \in Requests, admSafe[r] # None
                 PROVE admSafe'[r] # None /\ admission'[r] # None /\ Same(admSafe'[r], admSafe[r])
      OBVIOUS
    <3>1. admission[r] # None /\ Same(admission[r], admSafe[r])
      BY DEF OrderInv, RecordsOrdered
    <3>2. admission'[r] # None /\ Same(admission'[r], admission[r])
      BY <2>2, <3>1
    <3>3. admSafe'[r] \in {admission'[r], admission[r]}
      BY <1>2
    <3>4. QED
      BY <3>1, <3>2, <3>3 DEF Same
  <2>4. \A x \in Authority' \ {None} : \E y \in Authority \ {None} : Same(x, y)
    <3>1. ASSUME NEW x \in Authority' \ {None} PROVE x \in Authority \ {None} \/ Same(x, w.op)
      <4>1. x \in {admission'[r] : r \in Requests} \/ x \in {head', headSafe'} \/ (w'.step \in SaveSteps /\ x = w'.op)
        BY DEF Authority
      <4>2. CASE x \in {admission'[r] : r \in Requests}
        BY <2>2, <4>2 DEF Authority, Same
      <4>3. CASE x \in {head', headSafe'}
        BY <1>2, <4>3 DEF Authority
      <4>4. CASE w'.step \in SaveSteps /\ x = w'.op
        BY <2>1, <4>4 DEF SaveSteps
      <4>5. QED
        BY <4>1, <4>2, <4>3, <4>4
    <3>2. QED
      BY <3>1 DEF Same
  <2>5. \A r \in Requests : admSafe'[r] # None => admission'[r] # None /\ Same(admission'[r], admSafe'[r])
    BY <1>2, <2>2 DEF Same
  <2>6. Lasting(head)' /\ Lasting(headSafe)'
    <3>1. head # None /\ head.req # None => head.req \in Requests
      BY DEF CoordinationInv, FilesTyped, MaybeRecord, Record
    <3>2. QED
      BY <1>2, <2>3, <3>1 DEF Lasting, OrderInv, RecordsOrdered, Same
  <2>7. current' # None \/ currentSafe' # None => Ordered(admSafe', headSafe') # {}
    BY <1>2, <2>3, AuthorityStays DEF OrderInv, RecordsOrdered
  <2>8. RecordsOrdered'
    BY <1>2, <2>4, <2>5, <2>6, <2>7, StillAgrees DEF RecordsOrdered
  <2>9. Lasting(w.op)' \/ w'.step # "head"
    BY <1>2, <2>1 DEF Lasting, Same, CoordinationInv, FilesTyped
  <2>10. WorkerOrdered'
    BY <2>1, <2>9 DEF WorkerOrdered
  <2>11. QED
    BY <2>8, <2>10 DEF OrderInv
<1>3. QED
  BY <1>1, <1>2 DEF WriteAdmission

\* A new head.
LEMMA HeadOrder ==
  ASSUME CoordinationInv, OrderInv, NEW then, WriteHead(w.op, then), UNCHANGED <<current, currentSafe>>,
         w.step \in SaveSteps, Lasting(w.op),
         \/ w.op.req = None /\ then = Saving(w.op)
         \/ then = [w EXCEPT !.step = "project"]
  PROVE OrderInv'
<1> USE OwnRecord
<1>1. CASE Fault /\ w' = FailedNext /\ UNCHANGED <<admission, admSafe, head, headSafe>>
  BY <1>1, FailedOrder
<1>2. CASE /\ UNCHANGED <<admission, admSafe>> /\ head' = w.op
           /\ (headSafe' = w.op /\ w' = then) \/ (headSafe' = head /\ w' = FailedNext)
  <2>1. /\ w'.step \in {"none", "admission", "head", "project"}
        /\ w'.step # "none" => Same(w'.op, w.op)
        /\ w'.step = "head" => w'.op.req = None
        /\ w'.step = "project" => w'.op = w.op /\ headSafe' = w.op
    <3>1. CASE w' = then /\ then = Saving(w.op)
      BY <3>1, SavingLeads DEF Same
    <3>2. CASE w' = then /\ then = [w EXCEPT !.step = "project"] /\ headSafe' = w.op
      <4>1. w'.step = "project" /\ w'.op = w.op
        BY <3>2 DEF CoordinationInv, WorkerTyped
      <4>2. QED
        BY <3>2, <4>1 DEF Same
    <3>3. CASE w' = FailedNext
      BY <3>3, FailedLeads DEF Nobody
    <3>4. QED
      BY <1>2, <3>1, <3>2, <3>3
  <2>2. \A x \in Authority' \ {None} : \E y \in Authority \ {None} : Same(x, y)
    <3>1. ASSUME NEW x \in Authority' \ {None} PROVE x \in Authority \ {None} \/ Same(x, w.op)
      BY <1>2, <2>1 DEF Authority, SaveSteps
    <3>2. QED
      BY <3>1 DEF Same
  <2>3. Lasting(head)' /\ Lasting(headSafe)'
    BY <1>2 DEF Lasting, OrderInv, RecordsOrdered, Same
  <2>4. current' # None \/ currentSafe' # None => Ordered(admSafe', headSafe') # {}
    <3>1. CASE headSafe' = w.op
      <4>1. CASE w.op.req = None
        BY <3>1, <4>1 DEF Ordered
      <4>2. CASE w.op.req # None
        <5>1. w.op.req \in Requests /\ admSafe[w.op.req] # None
          BY <4>2 DEF Lasting, Record
        <5>2. QED
          BY <1>2, <5>1 DEF Ordered, Records
      <4>3. QED
        BY <4>1, <4>2
    <3>2. CASE headSafe' = head
      BY <1>2, <3>2, AuthorityStays DEF OrderInv, RecordsOrdered
    <3>3. QED
      BY <1>2, <3>1, <3>2
  <2>5. RecordsOrdered'
    BY <1>2, <2>2, <2>3, <2>4, StillAgrees DEF OrderInv, RecordsOrdered
  <2>6. WorkerOrdered'
    BY <1>2, <2>1 DEF WorkerOrdered, Lasting
  <2>7. QED
    BY <2>5, <2>6 DEF OrderInv
<1>3. QED
  BY <1>1, <1>2 DEF WriteHead

\* Every step keeps the order.
LEMMA StepOrder == CoordinationInv /\ OrderInv /\ [Next]_vars => OrderInv'
<1> SUFFICES ASSUME CoordinationInv, OrderInv, [Next]_vars PROVE OrderInv'
  OBVIOUS
<1> USE DEF authority, projection, world
<1>1. CASE Reconcile \/ (\E r \in Requests : CreatePlan(r) \/ Submit(r)) \/ \E kind \in Kinds : StartHost(kind)
  BY <1>1, LockingOrder DEF Reconcile, CreatePlan, Submit, StartHost
<1>2. CASE Crash
  BY <1>2, Unmoved DEF Crash, Nobody
<1>3. CASE PowerLoss
  <2>1. w'.step = "none" /\ \A r \in Requests : admission'[r] \in {admission[r], admSafe[r]}
    BY <1>3 DEF PowerLoss, Nobody
  <2>2. admSafe' = admission' /\ headSafe' = head' /\ head' \in {head, headSafe}
        /\ current' \in {current, currentSafe} /\ currentSafe' = current'
    BY <1>3 DEF PowerLoss
  <2>3. \A r \in Requests : admSafe[r] # None => admSafe'[r] # None /\ Same(admSafe'[r], admSafe[r])
    BY <2>1, <2>2 DEF OrderInv, RecordsOrdered, Same
  <2>4. \A x \in Authority' \ {None} : \E y \in Authority \ {None} : Same(x, y)
    <3>1. ASSUME NEW x \in Authority' \ {None}
          PROVE x \in {head, headSafe} \/ \E r \in Requests : x \in {admission[r], admSafe[r]}
      BY <2>1, <2>2 DEF Authority, SaveSteps
    <3>2. QED
      BY <3>1 DEF Authority, OrderInv, RecordsOrdered, Same
  <2>5. Lasting(head)' /\ Lasting(headSafe)'
    <3>1. \A h \in {head, headSafe} : h # None /\ h.req # None => h.req \in Requests
      BY DEF CoordinationInv, FilesTyped, MaybeRecord, Record
    <3>2. QED
      BY <2>2, <2>3, <3>1 DEF Lasting, OrderInv, RecordsOrdered, Same
  <2>6. current' # None \/ currentSafe' # None => Ordered(admSafe', headSafe') # {}
    BY <2>2, <2>3, AuthorityStays DEF OrderInv, RecordsOrdered
  <2>7. RecordsOrdered'
    BY <2>2, <2>4, <2>5, <2>6, StillAgrees DEF RecordsOrdered, Same
  <2>8. QED
    BY <2>1, <2>7 DEF OrderInv, WorkerOrdered
<1>4. CASE SyncAuthority
  <2>1. CASE w' = Nobody /\ UNCHANGED <<admission, admSafe, head, headSafe, current, currentSafe>>
    BY <2>1, Unmoved DEF Nobody
  <2>2. CASE /\ headSafe' = head /\ admSafe' = admission /\ w' = [w EXCEPT !.step = "rebuild"]
             /\ UNCHANGED <<admission, head, current, currentSafe>>
    <3>1. w'.step = "rebuild" /\ w'.op = w.op /\ w.op = Latest /\ Latest # None /\ Latest' = Latest
      BY <1>4, <2>2 DEF SyncAuthority, CoordinationInv, WorkerTyped, OrderInv, WorkerOrdered, Latest
    <3>2. Authority' \subseteq Authority
      BY <2>2, <3>1 DEF Authority, SaveSteps
    <3>3. Lasting(head)' /\ Lasting(headSafe)'
      <4>1. head # None /\ head.req # None => head.req \in Requests
        BY DEF CoordinationInv, FilesTyped, MaybeRecord, Record
      <4>2. QED
        BY <2>2, <4>1 DEF Lasting, OrderInv, RecordsOrdered, Same
    <3>4. current' # None \/ currentSafe' # None => Ordered(admSafe', headSafe') # {}
      BY <2>2, AuthorityStays DEF OrderInv, RecordsOrdered
    <3>5. RecordsOrdered'
      BY <2>2, <3>2, <3>3, <3>4 DEF OrderInv, RecordsOrdered, Same
    <3>6. WorkerOrdered'
      BY <2>2, <3>1 DEF WorkerOrdered, Synced
    <3>7. QED
      BY <3>5, <3>6 DEF OrderInv
  <2>3. QED
    BY <1>4, <2>1, <2>2 DEF SyncAuthority
<1>5. CASE Rebuild
  <2>1. w.op = Latest /\ Latest # None /\ Synced
    BY <1>5 DEF Rebuild, OrderInv, WorkerOrdered
  <2>2. Ordered(admSafe, headSafe) # {}
    BY <2>1, LatestIsKnown DEF Synced
  <2>3. CASE w' = Nobody
    BY <1>5, <2>2, <2>3, Unmoved DEF Rebuild, Nobody
  <2>4. CASE current' = w.op /\ w' = [w EXCEPT !.step = "decide"]
    <3>1. w'.step = "decide" /\ w'.op = w.op
      BY <2>4 DEF CoordinationInv, WorkerTyped
    <3>2. UNCHANGED <<admission, admSafe, head, headSafe>> /\ Latest' = Latest
      BY <1>5 DEF Rebuild, Latest
    <3>3. Authority' \subseteq Authority
      BY <3>1, <3>2 DEF Authority, SaveSteps
    <3>4. RecordsOrdered'
      BY <2>2, <3>2, <3>3 DEF OrderInv, RecordsOrdered, Lasting, Same
    <3>5. WorkerOrdered'
      BY <2>1, <2>4, <3>1, <3>2 DEF WorkerOrdered, Synced
    <3>6. QED
      BY <3>4, <3>5 DEF OrderInv
  <2>5. QED
    BY <1>5, <2>3, <2>4 DEF Rebuild
<1>6. CASE SavePlan
  BY <1>6, Unmoved DEF SavePlan, Nobody
<1>7. CASE Decide
  <2>1. CASE w' = Nobody
    BY <1>7, <2>1, Unmoved DEF Decide, Nobody
  <2>2. CASE w' = [w EXCEPT !.step = "accept", !.op = NewRecord]
    <3>1. /\ UNCHANGED <<admission, admSafe, head, headSafe, current, currentSafe>>
          /\ w.step = "decide" /\ Synced
      BY <1>7 DEF Decide, OrderInv, WorkerOrdered
    <3> DEFINE o == NewRecord
    <3>2. o.id = ids + 1 /\ o.seq = NextSeq
      BY DEF NewRecord
    <3> HIDE DEF o
    <3>3. w'.step = "accept" /\ w'.op = o
      BY <2>2 DEF o, CoordinationInv, WorkerTyped
    <3>4. \A x \in Authority \ {None} : x \in Known \ {None} /\ \E y \in Ordered(admission, head) : Same(x, y)
      <4> SUFFICES ASSUME NEW x \in Authority \ {None}
                   PROVE x \in Known \ {None} /\ \E y \in Ordered(admission, head) : Same(x, y)
        OBVIOUS
      <4>1. x = head \/ \E r \in Requests : x = admission[r]
        BY <3>1 DEF Authority, SaveSteps, Synced
      <4>2. CASE \E r \in Requests : x = admission[r]
        BY <4>2 DEF Ordered, Records, Same, Known
      <4>3. CASE x = head /\ head.req = None
        BY <4>3 DEF Ordered, Same, Known
      <4>4. CASE x = head /\ head.req # None
        <5>1. head.req \in Requests
          BY <4>4 DEF CoordinationInv, FilesTyped, MaybeRecord, Record
        <5>2. admission[head.req] # None /\ Same(admission[head.req], head)
          BY <4>4, <5>1, <3>1 DEF OrderInv, RecordsOrdered, Lasting, Synced
        <5>3. QED
          BY <4>4, <5>1, <5>2 DEF Ordered, Records, Same, Known
      <4>5. QED
        BY <4>1, <4>2, <4>3, <4>4
    <3>5. \A x \in Authority \ {None} : x.seq < o.seq /\ x.id < o.id
      <4> SUFFICES ASSUME NEW x \in Authority \ {None} PROVE x.seq < o.seq /\ x.id < o.id
        OBVIOUS
      <4>1. x \in Record /\ x.id <= ids
        BY <3>4, KnownRecords DEF CoordinationInv, Identified
      <4>2. ids \in Nat /\ x.id \in Nat /\ x.seq \in Nat
        BY <4>1, CoordinationConstants DEF CoordinationInv, FilesTyped, Record
      <4>3. PICK y \in Ordered(admission, head) : Same(x, y)
        BY <3>4
      <4>4. Latest \in Ordered(admission, head) /\ y.seq <= Latest.seq
        BY <4>3, OrderedKnown, NewestExists DEF Latest
      <4>5. Latest # None /\ Latest.seq \in Nat
        BY <4>4, OrderedKnown, KnownRecords DEF Record
      <4>6. o.seq = Latest.seq + 1
        BY <3>2, <4>5 DEF NextSeq
      <4>7. x.seq <= Latest.seq
        BY <4>3, <4>4 DEF Same
      <4>8. QED
        BY <3>2, <4>1, <4>2, <4>5, <4>6, <4>7
    <3>6. Authority' \subseteq Authority \cup {o}
      BY <3>1, <3>3 DEF Authority
    <3>7. o.seq \in Nat /\ o.id \in Nat /\ \A x \in Authority \ {None} : x.seq \in Nat /\ x.id \in Nat
      <4>1. \A x \in Authority \ {None} : x.seq \in Nat /\ x.id \in Nat
        BY <3>4, KnownRecords, CoordinationConstants DEF Record
      <4>2. NextSeq \in Nat
        BY LatestIsKnown, KnownRecords DEF NextSeq, Record
      <4>3. QED
        BY <3>2, <4>1, <4>2, CoordinationConstants DEF CoordinationInv, FilesTyped
    <3>8. \A x, y \in Authority' \ {None} : x.id = y.id <=> x.seq = y.seq
      <4>1. \A x \in Authority \ {None} : x.seq # o.seq /\ x.id # o.id
        BY <3>5, <3>7
      <4>2. \A x, y \in Authority \ {None} : x.id = y.id <=> x.seq = y.seq
        BY DEF OrderInv, RecordsOrdered
      <4>3. QED
        BY <3>6, <4>1, <4>2
    <3>9. RecordsOrdered'
      BY <3>1, <3>8 DEF OrderInv, RecordsOrdered, Lasting, Same
    <3>10. WorkerOrdered'
      BY <3>1, <3>3, <3>5, <3>6 DEF WorkerOrdered, Synced
    <3>11. QED
      BY <3>9, <3>10 DEF OrderInv
  <2>3. QED
    BY <1>7, <2>1, <2>2 DEF Decide
<1>8. CASE Accept
  <2>0. w.step = "accept" /\ w.step \in SaveSteps /\ w.op \in Record
    BY <1>8, OwnRecord DEF Accept, SaveSteps
  <2>1. CASE w.op.req = None /\ WriteHead(w.op, Saving(w.op))
    BY <1>8, <2>0, <2>1, HeadOrder DEF Accept, Lasting
  <2>2. CASE admission[w.op.req] = None /\ w.op.req # None /\ WriteAdmission(w.op, Saving(w.op))
    <3>1. w.op.req \in Requests
      BY <2>0, <2>2 DEF Record
    <3>2. QED
      BY <1>8, <2>0, <2>2, <3>1, AdmissionOrder DEF Accept
  <2>3. CASE w' = Nobody /\ UNCHANGED <<authority, faults>>
    BY <1>8, <2>0, <2>3, FailedOrder DEF Accept
  <2>4. QED
    BY <1>8, <2>1, <2>2, <2>3 DEF Accept
<1>9. CASE Recover
  <2>1. CASE w' = Nobody
    BY <1>9, <2>1, Unmoved DEF Recover, Nobody
  <2>2. ASSUME NEW s \in {"failed", "held", "done"}, current # None,
               w' = Saving([current EXCEPT !.status = s])
        PROVE OrderInv'
    <3> DEFINE o == [current EXCEPT !.status = s]
    <3>1. Same(o, current)
      BY <2>2, Kin DEF Record, Same
    <3>2. w'.op = o /\ w'.step \in {"admission", "head"} /\ (w'.step = "head" => o.req = None)
      BY <2>2, SavingLeads
    <3> HIDE DEF o
    <3>3. current = Latest
      BY <1>9 DEF Recover, OrderInv, WorkerOrdered
    <3>4. current \in Authority \ {None}
      BY <2>2, <3>3, LatestIsKnown DEF Authority, Ordered, Records
    <3>5. QED
      BY <1>9, <3>1, <3>2, <3>4, Unmoved DEF Recover, Lasting
  <2>3. QED
    BY <1>9, <2>1, <2>2 DEF Recover
<1>10. CASE SaveAdmission
  <2>0. w.step = "admission" /\ w.step \in SaveSteps
    BY <1>10 DEF SaveAdmission, SaveSteps
  <2>1. CASE Refused
    BY <1>10, <2>0, <2>1, FailedOrder DEF SaveAdmission, Refused
  <2>2. CASE ~Superseded /\ WriteAdmission(w.op, [w EXCEPT !.step = "head"])
    <3>1. /\ w.op.req \in Requests /\ admission[w.op.req] # None
          /\ admission[w.op.req].id = w.op.id
      BY <2>0, <2>2, OwnAdmission
    <3>2. admission[w.op.req] \in Authority \ {None} /\ w.op \in Authority \ {None}
      BY <2>0, <3>1, OwnRecord DEF Authority
    <3>3. Same(w.op, admission[w.op.req])
      BY <3>1, <3>2 DEF Same, OrderInv, RecordsOrdered, CoordinationInv, Identified
    <3>4. QED
      BY <1>10, <2>0, <2>2, <3>1, <3>3, AdmissionOrder DEF SaveAdmission
  <2>3. QED
    BY <1>10, <2>1, <2>2 DEF SaveAdmission
<1>11. CASE SaveHead
  <2>0. w.step = "head" /\ w.step \in SaveSteps
    BY <1>11 DEF SaveHead, SaveSteps
  <2>1. CASE Refused
    BY <1>11, <2>0, <2>1, FailedOrder DEF SaveHead, Refused
  <2>2. CASE WriteHead(w.op, [w EXCEPT !.step = "project"])
    BY <1>11, <2>0, <2>2, HeadOrder DEF SaveHead, OrderInv, WorkerOrdered
  <2>3. QED
    BY <1>11, <2>1, <2>2 DEF SaveHead
<1>12. CASE SaveProjection
  <2>1. w.step = "project" /\ w.step \in SaveSteps /\ Lasting(w.op)
        /\ (w.op.req = None => headSafe # None /\ headSafe.req = None)
    BY <1>12 DEF SaveProjection, SaveSteps, OrderInv, WorkerOrdered
  <2>2. UNCHANGED <<admission, admSafe, head, headSafe>> /\ w' \in {SavedNext, FailedNext}
    BY <1>12 DEF SaveProjection, WriteCurrent
  <2>3. Ordered(admSafe, headSafe) # {}
    <3>1. CASE w.op.req = None
      BY <2>1, <3>1 DEF Ordered
    <3>2. CASE w.op.req # None
      <4>1. w.op.req \in Requests /\ admSafe[w.op.req] # None
        BY <2>1, <3>2, OwnRecord DEF Lasting, Record
      <4>2. QED
        BY <4>1 DEF Ordered, Records
    <3>3. QED
      BY <3>1, <3>2
  <2>4. CASE w' = FailedNext
    BY <2>1, <2>2, <2>3, <2>4, FailedOrder
  <2>5. CASE w' = Nobody
    BY <2>2, <2>3, <2>5, Unmoved DEF Nobody
  <2>6. ASSUME NEW s \in {"running", "begun"}, w' = Saving([w.op EXCEPT !.status = s]) PROVE OrderInv'
    <3> DEFINE o == [w.op EXCEPT !.status = s]
    <3>1. Same(o, w.op)
      BY <2>1, OwnRecord DEF Record, Same
    <3>2. w'.op = o /\ w'.step \in {"admission", "head"} /\ (w'.step = "head" => o.req = None)
      BY <2>6, SavingLeads
    <3> HIDE DEF o
    <3>3. QED
      BY <2>1, <2>2, <2>3, <3>1, <3>2, OwnRecord, Unmoved DEF Lasting
  <2>7. CASE w' = [w EXCEPT !.step = "work"]
    <3>1. w'.step = "work" /\ w'.op = w.op
      BY <2>7 DEF CoordinationInv, WorkerTyped
    <3>2. \E y \in Authority \ {None} : Same(w'.op, y)
      BY <2>1, <3>1, OwnRecord DEF Same
    <3>3. QED
      BY <2>1, <2>2, <2>3, <3>1, <3>2, Unmoved
  <2>8. QED
    BY <2>2, <2>4, <2>5, <2>6, <2>7 DEF SavedNext
<1>13. CASE Run
  <2>1. PICK s \in {"held", "done"} : w' = Saving([w.op EXCEPT !.status = s])
    BY <1>13 DEF Run
  <2>2. w.step \in SaveSteps /\ w.op \in Record
    BY <1>13, OwnRecord DEF Run, SaveSteps
  <2> DEFINE o == [w.op EXCEPT !.status = s]
  <2>3. Same(o, w.op)
    BY <2>2 DEF Record, Same
  <2>4. w'.op = o /\ w'.step \in {"admission", "head"} /\ (w'.step = "head" => o.req = None)
    BY <2>1, SavingLeads
  <2> HIDE DEF o
  <2>5. QED
    BY <1>13, <2>2, <2>3, <2>4, OwnRecord, Unmoved DEF Run, Lasting
<1>14. CASE UNCHANGED vars
  <2>1. UNCHANGED <<admission, admSafe, head, headSafe, current, currentSafe, w>>
    BY <1>14 DEF vars
  <2>2. Authority' = Authority /\ Latest' = Latest
    BY <2>1 DEF Authority, Latest
  <2>3. QED
    BY <2>1, <2>2 DEF OrderInv, RecordsOrdered, WorkerOrdered, Lasting, Synced
<1>15. QED
  BY <1>1, <1>2, <1>3, <1>4, <1>5, <1>6, <1>7, <1>8, <1>9, <1>10, <1>11, <1>12, <1>13, <1>14 DEF Next, Work

\* Records of several requests that keep their order can be read.
LEMMA OrderedReadable ==
  ASSUME CoordinationInv, OrderInv, NEW adm, NEW hd \in {head, headSafe},
         \A r \in Requests : adm[r] # None => /\ admission[r] # None /\ Same(admission[r], adm[r])
                                              /\ adm[r] \in Known /\ adm[r].req = r,
         hd # None /\ hd.req # None => adm[hd.req] # None /\ Same(adm[hd.req], hd)
  PROVE Readable(adm, hd)
<1>1. hd # None /\ hd.req # None => hd.req \in Requests
  BY DEF CoordinationInv, FilesTyped, MaybeRecord, Record
<1>2. \A r \in Requests : adm[r] # None => admission[r] \in Authority \ {None} /\ admission[r].req = r
  BY DEF Authority, CoordinationInv, Identified
<1>3. \A x, y \in Authority \ {None} : x.req # y.req => x.id # y.id /\ x.seq # y.seq
  <2>1. ASSUME NEW x \in Authority \ {None} PROVE x \in Known \ {None}
    BY DEF Authority, Known
  <2>2. QED
    BY <2>1 DEF CoordinationInv, Identified, OrderInv, RecordsOrdered
<1>4. hd # None => hd \in Authority \ {None}
  BY DEF Authority
<1>5. \A a, b \in Records(adm) : a # b => a.id # b.id /\ a.seq # b.seq
  <2> SUFFICES ASSUME NEW r \in Requests, NEW q \in Requests, adm[r] # None, adm[q] # None, adm[r] # adm[q]
               PROVE adm[r].id # adm[q].id /\ adm[r].seq # adm[q].seq
    BY DEF Records
  <2>1. admission[r].id # admission[q].id /\ admission[r].seq # admission[q].seq
    BY <1>2, <1>3
  <2>2. QED
    BY <2>1 DEF Same
<1>6. hd # None /\ hd.req = None => \A a \in Records(adm) : a.seq # hd.seq
  <2> SUFFICES ASSUME hd # None, hd.req = None, NEW r \in Requests, adm[r] # None PROVE adm[r].seq # hd.seq
    BY DEF Records
  <2>1. admission[r].seq # hd.seq
    BY <1>2, <1>3, <1>4, CoordinationConstants
  <2>2. QED
    BY <2>1 DEF Same
<1>7. hd # None /\ hd.req # None => \E a \in Records(adm) : a.id = hd.id /\ a.seq = hd.seq
  BY <1>1 DEF Records, Same
<1>8. QED
  BY <1>5, <1>6, <1>7 DEF Readable

--------------------

\* The invariant of every run: files and worker hold copies of the same operations, and a worker
\* on its way to the deployment follows a plan of the present generation (coordination/store.go:267 Accept,
\* operation/coordination.go:184).
THEOREM CoordinationInvariant == Spec => []CoordinationInv
<1>1. QED
  BY InitCoordination, StepCoordination, PTL DEF Spec

\* A receipt that no longer says "pending" outlives a power loss: its admission was linked and
\* synced before the status moved on (coordination/store.go:168).
THEOREM ReceiptsOutlivePowerLoss == Spec => []AcceptedReceiptsLast
<1>1. CoordinationInv => AcceptedReceiptsLast
  BY DEF CoordinationInv
<1>2. QED
  BY <1>1, CoordinationInvariant, PTL

\* Deployment code runs for a request in the generation that its plan was made for, also when a
\* restore came between plan and submission (operation/coordination.go:184).
THEOREM RequestsRunOnTheirPlan == Spec => RunsOnItsPlan
<1>1. CoordinationInv /\ [Next]_vars
        => [\A t \in touched' \ touched : t.req # None => plan[t.req] = epoch]_vars
  <2> SUFFICES ASSUME CoordinationInv, [Next]_vars, NEW t \in touched' \ touched, t.req # None
               PROVE plan[t.req] = epoch
    OBVIOUS
  <2>1. CASE Run
    <3>1. t.req = w.op.req /\ w.step = "work"
      BY <2>1 DEF Run
    <3>2. QED
      BY <3>1 DEF CoordinationInv, WorkerTyped, OnItsPlan, SaveSteps
  <2>2. CASE ~Run
    <3>1. UNCHANGED touched
      BY <2>2 DEF Next, Work, SyncAuthority, Rebuild, SavePlan, Decide, Accept, Recover, SaveAdmission,
         SaveHead, SaveProjection, Reconcile, CreatePlan, Submit, StartHost, Lock, Crash, PowerLoss,
         world, vars
    <3>2. QED
      BY <3>1
  <2>3. QED
    BY <2>1, <2>2
<1>2. QED
  BY <1>1, CoordinationInvariant, PTL DEF Spec, RunsOnItsPlan

\* The order survives every step: identifiers and sequence numbers agree, nothing refers to an
\* admission before it lasts, and no projection is written before its authority does
\* (head.go:52 Latest, coordination/store.go:267 Accept, operation/coordination.go:285).
THEOREM OrderInvariant == Spec => []OrderInv
<1>1. QED
  BY InitOrder, StepOrder, CoordinationInvariant, PTL DEF Spec

\* No failed write, crash or power loss leaves an authority that Latest refuses to read
\* (head.go:77, coordination/store.go:207).
THEOREM AuthorityStaysReadable == Spec => []OrderReadable
<1>1. CoordinationInv /\ OrderInv => OrderReadable
  <2> SUFFICES ASSUME CoordinationInv, OrderInv PROVE OrderReadable
    OBVIOUS
  <2>1. \A h \in {head, headSafe} : h # None /\ h.req # None => h.req \in Requests
    BY DEF CoordinationInv, FilesTyped, MaybeRecord, Record
  <2>2. Readable(admission, head)
    <3>1. head # None /\ head.req # None => admission[head.req] # None /\ Same(admission[head.req], head)
      BY <2>1 DEF OrderInv, RecordsOrdered, Lasting, Same
    <3>2. QED
      BY <3>1, OrderedReadable DEF Same, Known, CoordinationInv, Identified
  <2>3. Readable(admSafe, headSafe)
    BY OrderedReadable DEF Lasting, OrderInv, RecordsOrdered, Known, CoordinationInv, Identified
  <2>4. QED
    BY <2>2, <2>3 DEF OrderReadable
<1>2. QED
  BY <1>1, CoordinationInvariant, OrderInvariant, PTL

\* A projection never survives its authority, so a lost admission cannot pass for an operation
\* of the v1 protocol (operation/coordination.go:304).
THEOREM NothingMasquerades == Spec => []NoMasquerade
<1>1. CoordinationInv /\ OrderInv => NoMasquerade
  <2> SUFFICES ASSUME CoordinationInv, OrderInv, current # None \/ currentSafe # None
               PROVE LatestOf(admSafe, headSafe) # None
    BY DEF NoMasquerade
  <2>1. Ordered(admSafe, headSafe) # {}
    BY DEF OrderInv, RecordsOrdered
  <2>2. Ordered(admSafe, headSafe) \subseteq Known \ {None}
    BY DEF Ordered, Records, Known
  <2>3. QED
    BY <2>1, <2>2, NewestExists
<1>2. QED
  BY <1>1, CoordinationInvariant, OrderInvariant, PTL

--------------------
(* The log of requests.                                                     *)

\* How far an operation is.
Stage(op) ==
  CASE op.status \in {"queued", "running"} -> 1
    [] op.status = "begun" -> 2
    [] op.status = "held" -> 3
    [] OTHER -> 4

\* Only the newest record may differ from what is known to last, and it is further on.
FilesLogged ==
  /\ admSafe = admission \/ headSafe = head
  /\ \A r \in Requests : admSafe[r] # admission[r] =>
       Latest = admission[r] /\ (admSafe[r] # None => Stage(admSafe[r]) <= Stage(admission[r]))
  /\ headSafe # head => head # None /\ Same(head, Latest)
  /\ headSafe # None => Latest # None /\ headSafe.seq <= Latest.seq
  /\ \A t \in touched : t.req # None => t.req \in Requests /\ admSafe[t.req] # None

\* A worker saves the newest record, and what is about to run has never run.
WorkerLogged ==
  /\ w.step \in {"admission", "head", "project", "work"} =>
       Latest # None /\ Same(Latest, w.op) /\ (w.op.req # None => admSafe[w.op.req] # None)
  /\ w.step \in {"head", "project", "work"} /\ w.op.req # None =>
       admSafe[w.op.req] = w.op /\ admission[w.op.req] = w.op
  /\ w.step = "admission" => Stage(admission[w.op.req]) <= Stage(w.op)
  /\ w.step \in SaveSteps /\ w.op.status \in {"queued", "running", "begun"} =>
       \A t \in touched : t.req # None => t.req # w.op.req
  /\ w.call = "submit" /\ w.step \in {"sync", "rebuild", "decide"} =>
       w.req # None /\ admission[w.req] = None
  /\ w.step = "accept" /\ w.op.req # None => admission[w.op.req] = None

LogInv == FilesLogged /\ WorkerLogged

\* What the order gives: the newest record exists and is not older than the head.
Newest ==
  /\ OrderReadable
  /\ \A x \in Ordered(admSafe, headSafe) : x.seq \in Nat
  /\ \A x \in Ordered(admission, head) :
       x.seq \in Nat /\ Latest \in Ordered(admission, head) /\ Latest # None /\ x.seq <= Latest.seq
  /\ head # None => Latest # None /\ head.seq <= Latest.seq
  /\ Latest # None => Latest \in Ordered(admission, head)

\* The newest record of an authority that can be read is the only one.
LEMMA LatestIs ==
  ASSUME NEW adm, NEW hd, Readable(adm, hd), NEW z \in Ordered(adm, hd), z.seq \in Nat,
         \A b \in Ordered(adm, hd) : b.seq \in Nat /\ b.seq <= z.seq
  PROVE LatestOf(adm, hd) = z
<1> DEFINE S == Ordered(adm, hd)
<1>1. \A a, b \in S : a.seq = b.seq => a = b
  BY DEF Readable, Ordered
<1>2. z \in S /\ \A b \in S : b.seq \in Nat /\ b.seq <= z.seq
  OBVIOUS
<1>3. LatestOf(adm, hd) = CHOOSE a \in S : \A b \in S : b.seq <= a.seq
  BY DEF LatestOf
<1> HIDE DEF S
<1>4. ASSUME NEW a \in S, \A b \in S : b.seq <= a.seq PROVE a = z
  <2>1. a.seq \in Nat /\ z.seq \in Nat /\ a.seq <= z.seq /\ z.seq <= a.seq
    BY <1>2, <1>4
  <2>2. a.seq = z.seq
    BY <2>1
  <2>3. QED
    BY <1>1, <1>2, <2>2
<1>5. QED
  BY <1>2, <1>3, <1>4

\* The files that are read by Latest, and those that are known to last, are in order.
LEMMA NewestHolds == CoordinationInv /\ OrderInv /\ OrderReadable => Newest
<1> SUFFICES ASSUME CoordinationInv, OrderInv, OrderReadable PROVE Newest
  OBVIOUS
<1>1. \A x \in Ordered(admSafe, headSafe) : x.seq \in Nat
  <2>1. Ordered(admSafe, headSafe) \subseteq Known \ {None}
    BY DEF Ordered, Records, Known
  <2>2. QED
    BY <2>1, KnownRecords DEF Record
<1>2. \A x \in Ordered(admission, head) :
        x.seq \in Nat /\ Latest \in Ordered(admission, head) /\ Latest # None /\ x.seq <= Latest.seq
  <2>1. Ordered(admission, head) \subseteq Known \ {None}
    BY OrderedKnown
  <2>2. QED
    BY <2>1, KnownRecords, NewestExists DEF Record, Latest
<1>3. head # None => Latest # None /\ head.seq <= Latest.seq
  <2>1. CASE head # None /\ head.req = None
    BY <1>2, <2>1 DEF Ordered
  <2>2. CASE head # None /\ head.req # None
    <3>1. head.req \in Requests
      BY <2>2 DEF CoordinationInv, FilesTyped, MaybeRecord, Record
    <3>2. admission[head.req] # None /\ Same(admission[head.req], head)
      BY <2>2, <3>1 DEF OrderInv, RecordsOrdered, Lasting, Same
    <3>3. admission[head.req] \in Ordered(admission, head)
      BY <3>1, <3>2 DEF Ordered, Records
    <3>4. QED
      BY <1>2, <3>2, <3>3 DEF Same
  <2>3. QED
    BY <2>1, <2>2
<1>4. Latest # None => Latest \in Ordered(admission, head)
  BY LatestIsKnown
<1>5. QED
  BY <1>1, <1>2, <1>3, <1>4 DEF Newest

\* Nothing is logged at first.
LEMMA InitLog == Init => LogInv
BY DEF Init, LogInv, FilesLogged, WorkerLogged, Nobody, SaveSteps

\* A request whose record is the newest is the last of the log.
LEMMA LastIs ==
  ASSUME CoordinationInv, OrderInv, Newest, LogInv, NEW r \in Requests, admSafe[r] # None,
         Same(Latest, admission[r])
  PROVE LastOf = r
<1> DEFINE z == admSafe[r]
<1>1. z \in Ordered(admSafe, headSafe) /\ z.req = r /\ z # None
  BY DEF Ordered, Records, CoordinationInv, Identified
<1>2. z.seq = Latest.seq
  BY DEF OrderInv, RecordsOrdered, Same
<1>3. ASSUME NEW b \in Ordered(admSafe, headSafe) PROVE b.seq <= z.seq
  <2>1. CASE b = headSafe /\ headSafe # None
    BY <1>2, <2>1 DEF LogInv, FilesLogged
  <2>2. CASE \E q \in Requests : b = admSafe[q] /\ admSafe[q] # None
    <3>1. PICK q \in Requests : b = admSafe[q] /\ admSafe[q] # None
      BY <2>2
    <3>2. admission[q] # None /\ admission[q].seq = b.seq
      BY <3>1 DEF OrderInv, RecordsOrdered, Same
    <3>3. admission[q] \in Ordered(admission, head)
      BY <3>2 DEF Ordered, Records
    <3>4. QED
      BY <1>2, <3>2, <3>3 DEF Newest
  <2>3. QED
    BY <2>1, <2>2 DEF Ordered, Records
<1>4. LatestOf(admSafe, headSafe) = z
  <2>1. \A b \in Ordered(admSafe, headSafe) : b.seq \in Nat
    BY DEF Newest
  <2>2. Readable(admSafe, headSafe)
    BY DEF Newest, OrderReadable
  <2> HIDE DEF z
  <2>3. QED
    BY <1>1, <1>3, <2>1, <2>2, LatestIs
<1>5. QED
  BY <1>1, <1>4 DEF LastOf

\* A write of the newest admission leaves it the newest.
LEMMA AdmissionIsLatest ==
  ASSUME CoordinationInv, Newest, Newest', w.op \in Record, w.op.req \in Requests,
         admission' = [admission EXCEPT ![w.op.req] = w.op], head' = head,
         \A b \in Ordered(admission, head) : b.seq <= w.op.seq
  PROVE Latest' = w.op
<1>1. admission'[w.op.req] = w.op /\ \A r \in Requests : admission'[r] \in {admission[r], w.op}
  BY DEF CoordinationInv, FilesTyped
<1>2. w.op \in Ordered(admission', head')
  BY <1>1, NoneIsNoRecord DEF Ordered, Records
<1>3. \A b \in Ordered(admission', head') : b = w.op \/ b \in Ordered(admission, head)
  BY <1>1 DEF Ordered, Records
<1>4. w.op.seq \in Nat
  BY DEF Record
<1>5. \A b \in Ordered(admission', head') : b.seq \in Nat /\ b.seq <= w.op.seq
  <2>1. \A b \in Ordered(admission, head) : b.seq \in Nat
    BY DEF Newest
  <2>2. QED
    BY <1>3, <1>4, <2>1
<1>6. Readable(admission', head')
  BY DEF Newest, OrderReadable
<1>7. LatestOf(admission', head') = w.op
  BY <1>2, <1>4, <1>5, <1>6, LatestIs
<1>8. QED
  BY <1>7 DEF Latest

\* So does a write of the head.
LEMMA HeadIsLatest ==
  ASSUME CoordinationInv, Newest, Newest', w.op \in Record, head' = w.op, admission' = admission,
         w.op.req # None => admission[w.op.req] = w.op,
         \A b \in Ordered(admission, head) : b.seq <= w.op.seq
  PROVE Latest' = w.op
<1>1. w.op # None /\ w.op.req \in Requests \cup {None} /\ w.op.seq \in Nat
  BY NoneIsNoRecord DEF Record
<1>2. w.op \in Ordered(admission', head')
  BY <1>1 DEF Ordered, Records
<1>3. \A b \in Ordered(admission', head') : b = w.op \/ b \in Ordered(admission, head)
  BY DEF Ordered
<1>4. \A b \in Ordered(admission', head') : b.seq \in Nat /\ b.seq <= w.op.seq
  BY <1>1, <1>3 DEF Newest
<1>5. Readable(admission', head')
  BY DEF Newest, OrderReadable
<1>6. LatestOf(admission', head') = w.op
  BY <1>1, <1>2, <1>4, <1>5, LatestIs
<1>7. QED
  BY <1>6 DEF Latest

\* Only the newest admission is ahead of what lasts.
LEMMA OthersLast ==
  ASSUME CoordinationInv, OrderInv, LogInv, NEW r \in Requests, admSafe[r] # admission[r]
  PROVE Latest = admission[r] /\ Latest # None /\ Latest.req = r
<1>1. Latest = admission[r]
  BY DEF LogInv, FilesLogged
<1>2. admission[r] # None
  BY DEF OrderInv, RecordsOrdered
<1>3. QED
  BY <1>1, <1>2 DEF CoordinationInv, Identified

\* When nothing is left to lose, only the worker matters.
LEMMA Settled ==
  ASSUME Newest', FilesLogged, admSafe' = admission', headSafe' = head', UNCHANGED touched,
         \A r \in Requests : admSafe[r] # None => admSafe'[r] # None
  PROVE FilesLogged'
<1>1. headSafe' # None => Latest' # None /\ headSafe'.seq <= Latest'.seq
  BY DEF Newest
<1>2. \A t \in touched' : t.req # None => t.req \in Requests /\ admSafe'[t.req] # None
  BY DEF FilesLogged
<1>3. QED
  BY <1>1, <1>2 DEF FilesLogged

\* A failed save leads to no save, or to that of the same record as held.
LEMMA FailedLogged ==
  ASSUME CoordinationInv, LogInv, w.step \in SaveSteps, w' = FailedNext,
         w.step # "accept" => /\ Latest' # None /\ Same(Latest', w.op)
                              /\ w.op.req # None => /\ admSafe'[w.op.req] # None
                                                    /\ admission'[w.op.req] \in {admission[w.op.req], w.op}
  PROVE WorkerLogged'
<1>1. CASE w' = Nobody
  BY <1>1 DEF WorkerLogged, Nobody, SaveSteps
<1>2. CASE w' = Saving([w.op EXCEPT !.status = "held"]) /\ w.step # "accept" /\ w.op.status = "begun"
  <2> DEFINE o == [w.op EXCEPT !.status = "held"]
  <2>1. w.op \in Record
    BY DEF CoordinationInv, WorkerTyped
  <2>2. o.status = "held" /\ Same(o, w.op)
    BY <2>1 DEF Record, Same
  <2>0. w' = Saving(o)
    BY <1>2
  <2> HIDE DEF o
  <2>3. w'.op = o /\ w'.step \in {"admission", "head"} /\ (w'.step = "head" <=> o.req = None)
    BY <2>0, SavingLeads
  <2>4. Stage(w.op) = 2 /\ Stage(o) = 3
    BY <1>2, <2>2 DEF Stage
  <2>5. w'.step = "admission" => Stage(admission'[o.req]) <= Stage(o)
    <3> SUFFICES ASSUME w'.step = "admission" PROVE Stage(admission'[o.req]) <= Stage(o)
      OBVIOUS
    <3>1. o.req = w.op.req /\ w.op.req # None
      BY <2>2, <2>3 DEF Same
    <3>2. Stage(admission[w.op.req]) = 2 \/ Stage(admission[w.op.req]) = 1
      BY <1>2, <2>4, <3>1 DEF LogInv, WorkerLogged, SaveSteps, Stage
    <3>3. Stage(admission'[w.op.req]) \in {1, 2}
      BY <1>2, <2>4, <3>1, <3>2
    <3>4. QED
      BY <2>4, <3>1, <3>3
  <2>6. w'.step \in {"admission", "head"} =>
          Latest' # None /\ Same(Latest', w'.op) /\ (w'.op.req # None => admSafe'[w'.op.req] # None)
    BY <1>2, <2>2, <2>3 DEF Same
  <2>7. QED
    BY <2>2, <2>3, <2>5, <2>6 DEF WorkerLogged
<1>3. QED
  BY <1>1, <1>2 DEF FailedNext

\* With the authority as it was, only the worker matters.
LEMMA Rested ==
  ASSUME LogInv, UNCHANGED <<admission, admSafe, head, headSafe, touched>>
  PROVE FilesLogged' /\ Latest' = Latest
<1>1. Latest' = Latest
  BY DEF Latest
<1>2. QED
  BY <1>1 DEF LogInv, FilesLogged

\* A worker that leaves.
LEMMA Left == w' = Nobody => WorkerLogged'
BY DEF WorkerLogged, Nobody, SaveSteps

\* A failed save that changed no file.
LEMMA FailedRests ==
  ASSUME CoordinationInv, LogInv, w.step \in SaveSteps, w' = FailedNext,
         UNCHANGED <<admission, admSafe, head, headSafe, touched>>
  PROVE LogInv'
<1>1. FilesLogged' /\ Latest' = Latest
  BY Rested
<1>2. w.step # "accept" => /\ Latest' # None /\ Same(Latest', w.op)
                           /\ w.op.req # None => admSafe'[w.op.req] # None
  BY <1>1 DEF LogInv, WorkerLogged, SaveSteps
<1>3. WorkerLogged'
  BY <1>2, FailedLogged
<1>4. QED
  BY <1>1, <1>3 DEF LogInv

\* The worker saves the newest record.
LEMMA WorkerNewest ==
  ASSUME CoordinationInv, OrderInv, Newest, LogInv, w.step \in SaveSteps
  PROVE /\ w.op \in Record
        /\ \A b \in Ordered(admission, head) : b.seq <= w.op.seq
        /\ head # None => head.seq <= w.op.seq
<1>1. w.op \in Record
  BY OwnRecord
<1>2. CASE w.step = "accept"
  <2>1. \A b \in Ordered(admission, head) \cup ({head} \ {None}) : b \in Authority \ {None}
    BY DEF Ordered, Records, Authority
  <2>2. \A b \in Authority \ {None} : b.seq <= w.op.seq
    <3>1. \A b \in Authority \ {None, w.op} : b.seq < w.op.seq
      BY <1>2 DEF OrderInv, WorkerOrdered
    <3>2. \A b \in Authority \ {None} : b.seq \in Nat
      <4>1. Authority \subseteq Known
        BY DEF Authority, Known
      <4>2. QED
        BY <4>1, KnownRecords DEF Record
    <3>3. w.op.seq \in Nat
      BY <1>1 DEF Record
    <3>4. QED
      BY <3>1, <3>2, <3>3
  <2>3. QED
    BY <1>1, <2>1, <2>2
<1>3. CASE w.step # "accept"
  <2>1. Latest.seq = w.op.seq
    BY <1>3 DEF LogInv, WorkerLogged, SaveSteps, Same
  <2>2. QED
    BY <1>1, <2>1 DEF Newest
<1>4. QED
  BY <1>2, <1>3

\* Saving an admission.
LEMMA AdmissionLogged ==
  ASSUME CoordinationInv, OrderInv, Newest, LogInv, Newest', NEW then, WriteAdmission(w.op, then),
         UNCHANGED touched, w.step \in SaveSteps, w.op.req \in Requests,
         \/ w.step = "accept" /\ admission[w.op.req] = None /\ then = Saving(w.op)
         \/ /\ w.step = "admission" /\ then = [w EXCEPT !.step = "head"]
  PROVE LogInv'
<1>1. CASE Fault /\ w' = FailedNext /\ UNCHANGED <<admission, admSafe, headSafe, head>>
  BY <1>1, FailedRests
<1>2. CASE /\ admission' = [admission EXCEPT ![w.op.req] = w.op] /\ head' = head /\ headSafe' = head
           /\ (admSafe' = admission' /\ w' = then) \/ (admSafe' = admission /\ w' = FailedNext)
  <2>1. Latest' = w.op
    BY <1>2, WorkerNewest, AdmissionIsLatest
  <2>2. w.op \in Record /\ w.op # None /\ w.op.req # None
    BY NoneIsNoRecord, CoordinationConstants, OwnRecord
  <2>3. /\ admission'[w.op.req] = w.op
        /\ \A r \in Requests : r # w.op.req => admission'[r] = admission[r]
    BY <1>2 DEF CoordinationInv, FilesTyped
  <2>4. \A r \in Requests : admSafe[r] # None => admSafe'[r] # None
    BY <1>2, <2>2, <2>3 DEF OrderInv, RecordsOrdered
  <2>5. FilesLogged'
    <3>1. CASE admSafe' = admission'
      BY <1>2, <2>4, <3>1, Settled DEF LogInv
    <3>2. CASE admSafe' = admission
      <4>1. \A r \in Requests : admSafe'[r] # admission'[r] => r = w.op.req
        BY <2>3, <3>2
      <4>2. admSafe'[w.op.req] # None => Stage(admSafe'[w.op.req]) <= Stage(admission'[w.op.req])
        BY <2>3, <3>2 DEF LogInv, WorkerLogged
      <4>3. headSafe' # None => Latest' # None /\ headSafe'.seq <= Latest'.seq
        BY <1>2 DEF Newest
      <4>4. \A t \in touched' : t.req # None => t.req \in Requests /\ admSafe'[t.req] # None
        BY <2>4 DEF LogInv, FilesLogged
      <4>5. QED
        BY <1>2, <2>1, <2>3, <4>1, <4>2, <4>3, <4>4 DEF FilesLogged
    <3>3. QED
      BY <1>2, <3>1, <3>2
  <2>6. WorkerLogged'
    <3>1. CASE w' = FailedNext
      <4>1. w.step # "accept" => admSafe[w.op.req] # None
        BY <2>2 DEF LogInv, WorkerLogged, SaveSteps
      <4>2. QED
        BY <2>1, <2>2, <2>3, <2>4, <3>1, <4>1, FailedLogged DEF Same
    <3>2. CASE w' = then /\ admSafe' = admission'
      <4>1. w'.op = w.op /\ w'.step \in {"admission", "head"}
        <5>1. CASE then = Saving(w.op)
          BY <3>2, <5>1, SavingLeads
        <5>2. CASE then = [w EXCEPT !.step = "head"]
          BY <3>2, <5>2 DEF CoordinationInv, WorkerTyped
        <5>3. QED
          BY <5>1, <5>2
      <4>2. Stage(w.op) <= Stage(w.op)
        BY DEF Stage
      <4>3. \A t \in touched' : w.op.status \in {"queued", "running", "begun"} /\ t.req # None => t.req # w.op.req
        BY DEF LogInv, WorkerLogged
      <4>4. QED
        BY <2>1, <2>2, <2>3, <3>2, <4>1, <4>2, <4>3 DEF WorkerLogged, Same
    <3>3. QED
      BY <1>2, <3>1, <3>2
  <2>7. QED
    BY <2>5, <2>6 DEF LogInv
<1>3. QED
  BY <1>1, <1>2 DEF WriteAdmission

\* While a head is saved, all admissions last.
LEMMA HeadAfterAdmissions ==
  ASSUME CoordinationInv, OrderInv, LogInv,
         w.step = "head" \/ (w.step = "accept" /\ w.op.req = None)
  PROVE admSafe = admission
<1>1. CASE w.step = "accept"
  BY <1>1 DEF OrderInv, WorkerOrdered, Synced
<1>2. CASE w.step = "head"
  <2>1. Same(Latest, w.op)
    BY <1>2 DEF LogInv, WorkerLogged
  <2>2. ASSUME NEW r \in Requests PROVE admSafe[r] = admission[r]
    <3> SUFFICES ASSUME admSafe[r] # admission[r] PROVE FALSE
      OBVIOUS
    <3>1. w.op.req = r
      BY <2>1, OthersLast DEF Same
    <3>2. QED
      BY <1>2, <3>1, CoordinationConstants DEF LogInv, WorkerLogged
  <2>3. QED
    BY <2>2 DEF CoordinationInv, FilesTyped
<1>3. QED
  BY <1>1, <1>2

\* Saving the head.
LEMMA HeadLogged ==
  ASSUME CoordinationInv, OrderInv, Newest, LogInv, Newest', NEW then, WriteHead(w.op, then),
         UNCHANGED touched,
         \/ w.step = "accept" /\ w.op.req = None /\ then = Saving(w.op)
         \/ w.step = "head" /\ then = [w EXCEPT !.step = "project"]
  PROVE LogInv'
<1>0. w.step \in SaveSteps
  BY DEF SaveSteps
<1>1. CASE Fault /\ w' = FailedNext /\ UNCHANGED <<admission, admSafe, headSafe, head>>
  BY <1>0, <1>1, FailedRests
<1>2. CASE /\ UNCHANGED <<admission, admSafe>> /\ head' = w.op
           /\ (headSafe' = w.op /\ w' = then) \/ (headSafe' = head /\ w' = FailedNext)
  <2>1. Latest' = w.op
    BY <1>0, <1>2, WorkerNewest, HeadIsLatest DEF LogInv, WorkerLogged
  <2>2. w.op \in Record /\ w.op # None
    BY <1>0, OwnRecord
  <2>3. admSafe = admission
    BY HeadAfterAdmissions
  <2>4. FilesLogged'
    <3>1. CASE headSafe' = head'
      BY <1>2, <2>3, <3>1, Settled DEF LogInv
    <3>2. CASE headSafe' = head
      <4>1. headSafe' # None => Latest' # None /\ headSafe'.seq <= Latest'.seq
        BY <1>0, <2>1, <2>2, <3>2, WorkerNewest
      <4>2. \A t \in touched' : t.req # None => t.req \in Requests /\ admSafe'[t.req] # None
        BY <1>2 DEF LogInv, FilesLogged
      <4>3. QED
        BY <1>2, <2>1, <2>2, <2>3, <4>1, <4>2 DEF FilesLogged, Same
    <3>3. QED
      BY <1>2, <3>1, <3>2
  <2>5. WorkerLogged'
    <3>1. CASE w' = FailedNext
      <4>1. w.step # "accept" /\ w.op.req # None => admSafe[w.op.req] # None
        BY DEF LogInv, WorkerLogged
      <4>2. QED
        BY <1>0, <1>2, <2>1, <2>2, <3>1, <4>1, FailedLogged DEF Same
    <3>2. CASE w' = then
      <4>1. w'.op = w.op /\ (w'.step = "project" \/ (w'.step = "head" /\ w.op.req = None))
        <5>1. CASE w.op.req = None /\ then = Saving(w.op)
          BY <3>2, <5>1, SavingLeads
        <5>2. CASE then = [w EXCEPT !.step = "project"]
          BY <3>2, <5>2 DEF CoordinationInv, WorkerTyped
        <5>3. QED
          BY <5>1, <5>2
      <4>2. w'.step = "project" /\ w.op.req # None => admSafe[w.op.req] = w.op /\ admission[w.op.req] = w.op
        BY DEF LogInv, WorkerLogged
      <4>3. \A t \in touched' : w.op.status \in {"queued", "running", "begun"} /\ t.req # None => t.req # w.op.req
        BY <1>0 DEF LogInv, WorkerLogged
      <4>4. QED
        BY <1>2, <2>1, <2>2, <4>1, <4>2, <4>3 DEF WorkerLogged, Same
    <3>3. QED
      BY <1>2, <3>1, <3>2
  <2>6. QED
    BY <2>4, <2>5 DEF LogInv
<1>3. QED
  BY <1>1, <1>2 DEF WriteHead

\* Every step keeps the log's relation to the files.
LEMMA StepLog ==
  CoordinationInv /\ OrderInv /\ Newest /\ Newest' /\ LogInv /\ [Next]_vars => LogInv'
<1> SUFFICES ASSUME CoordinationInv, OrderInv, Newest, Newest', LogInv, [Next]_vars PROVE LogInv'
  OBVIOUS
<1> USE DEF authority, projection, world
<1>1. ASSUME NEW call, NEW req, NEW kind, Lock(call, req, kind),
             call = "submit" => req # None /\ admission[req] = None
      PROVE LogInv'
  <2>1. UNCHANGED <<admission, admSafe, head, headSafe, touched>>
    BY <1>1 DEF Lock
  <2>2. w'.step \in {"decide", "sync"} /\ w'.call = call /\ w'.req = req
    BY <1>1 DEF Lock
  <2>3. WorkerLogged'
    BY <1>1, <2>1, <2>2 DEF WorkerLogged, SaveSteps
  <2>4. QED
    BY <2>1, <2>3, Rested DEF LogInv
<1>2. CASE Reconcile \/ (\E r \in Requests : CreatePlan(r) \/ Submit(r)) \/ \E kind \in Kinds : StartHost(kind)
  BY <1>1, <1>2, CoordinationConstants DEF Reconcile, CreatePlan, Submit, StartHost
<1>3. CASE Crash \/ SavePlan
  BY <1>3, Rested, Left DEF Crash, SavePlan, LogInv
<1>4. CASE PowerLoss
  <2>1. /\ admSafe' = admission' /\ headSafe' = head' /\ w' = Nobody /\ UNCHANGED touched
        /\ \A r \in Requests : admission'[r] \in {admission[r], admSafe[r]}
    BY <1>4 DEF PowerLoss
  <2>2. \A r \in Requests : admSafe[r] # None => admSafe'[r] # None
    BY <2>1 DEF OrderInv, RecordsOrdered
  <2>3. QED
    BY <2>1, <2>2, Settled, Left DEF LogInv
<1>5. CASE SyncAuthority
  <2>1. CASE w' = Nobody /\ UNCHANGED <<admSafe, headSafe>>
    BY <1>5, <2>1, Rested, Left DEF SyncAuthority, LogInv
  <2>2. CASE headSafe' = head /\ admSafe' = admission /\ w' = [w EXCEPT !.step = "rebuild"]
    <3>1. UNCHANGED <<admission, head, touched>> /\ w.step = "sync"
      BY <1>5 DEF SyncAuthority
    <3>2. \A r \in Requests : admSafe[r] # None => admSafe'[r] # None
      BY <2>2 DEF OrderInv, RecordsOrdered
    <3>3. FilesLogged'
      BY <2>2, <3>1, <3>2, Settled DEF LogInv
    <3>4. w'.step = "rebuild" /\ w'.call = w.call /\ w'.req = w.req
      BY <2>2 DEF CoordinationInv, WorkerTyped
    <3>5. WorkerLogged'
      BY <3>1, <3>4 DEF LogInv, WorkerLogged, SaveSteps
    <3>6. QED
      BY <3>3, <3>5 DEF LogInv
  <2>3. QED
    BY <1>5, <2>1, <2>2 DEF SyncAuthority
<1>6. CASE Rebuild
  <2>1. CASE w' = Nobody
    BY <1>6, <2>1, Rested, Left DEF Rebuild, LogInv
  <2>2. CASE w' = [w EXCEPT !.step = "decide"]
    <3>1. UNCHANGED <<admission, admSafe, head, headSafe, touched>> /\ w.step = "rebuild"
      BY <1>6 DEF Rebuild
    <3>2. w'.step = "decide" /\ w'.call = w.call /\ w'.req = w.req
      BY <2>2 DEF CoordinationInv, WorkerTyped
    <3>3. WorkerLogged'
      BY <3>1, <3>2 DEF LogInv, WorkerLogged, SaveSteps
    <3>4. QED
      BY <3>1, <3>3, Rested DEF LogInv
  <2>3. QED
    BY <1>6, <2>1, <2>2 DEF Rebuild
<1>7. CASE Decide
  <2>0. UNCHANGED <<admission, admSafe, head, headSafe, touched>> /\ w.step = "decide"
        /\ w.call \in {"submit", "host"}
    BY <1>7 DEF Decide
  <2>1. CASE w' = Nobody
    BY <2>0, <2>1, Rested, Left DEF LogInv
  <2>2. CASE w' = [w EXCEPT !.step = "accept", !.op = NewRecord]
    <3> DEFINE o == NewRecord
    <3>1. o.req = w.req
      BY DEF NewRecord
    <3> HIDE DEF o
    <3>2. w'.step = "accept" /\ w'.op = o
      BY <2>2 DEF o, CoordinationInv, WorkerTyped
    <3>3. w.req # None => admission[w.req] = None
      BY <2>0 DEF LogInv, WorkerLogged, CoordinationInv, WorkerTyped
    <3>4. \A t \in touched : t.req # None => t.req # w.req
      BY <3>3 DEF LogInv, FilesLogged, OrderInv, RecordsOrdered
    <3>5. WorkerLogged'
      BY <2>0, <3>1, <3>2, <3>3, <3>4 DEF WorkerLogged
    <3>6. QED
      BY <2>0, <3>5, Rested DEF LogInv
  <2>3. QED
    BY <1>7, <2>1, <2>2 DEF Decide
<1>8. CASE Accept
  <2>0. w.step = "accept" /\ w.step \in SaveSteps /\ w.op \in Record /\ UNCHANGED touched
    BY <1>8, OwnRecord DEF Accept, SaveSteps
  <2>1. CASE w.op.req = None /\ WriteHead(w.op, Saving(w.op))
    BY <2>0, <2>1, HeadLogged
  <2>2. CASE admission[w.op.req] = None /\ w.op.req # None /\ WriteAdmission(w.op, Saving(w.op))
    <3>1. w.op.req \in Requests
      BY <2>0, <2>2 DEF Record
    <3>2. QED
      BY <2>0, <2>2, <3>1, AdmissionLogged
  <2>3. CASE w' = Nobody /\ UNCHANGED <<authority, faults>>
    BY <2>0, <2>3, Rested, Left DEF LogInv
  <2>4. QED
    BY <1>8, <2>1, <2>2, <2>3 DEF Accept
<1>9. CASE Recover
  <2>0. UNCHANGED <<admission, admSafe, head, headSafe, touched>> /\ Latest' = Latest
        /\ current = Latest /\ admSafe = admission
    BY <1>9, Rested DEF Recover, OrderInv, WorkerOrdered, Synced
  <2>1. CASE w' = Nobody
    BY <2>0, <2>1, Rested, Left DEF LogInv
  <2>2. ASSUME NEW s \in {"failed", "held", "done"}, current # None, current.status \notin {"failed", "done"},
               w' = Saving([current EXCEPT !.status = s])
        PROVE LogInv'
    <3> DEFINE o == [current EXCEPT !.status = s]
    <3>1. current \in Record
      BY <2>2, Kin
    <3>2. Same(o, current) /\ o.status = s
      BY <3>1 DEF Record, Same
    <3>3. w' = Saving(o)
      BY <2>2
    <3> HIDE DEF o
    <3>4. w'.op = o /\ w'.step \in {"admission", "head"} /\ (w'.step = "head" <=> o.req = None)
      BY <3>3, SavingLeads
    <3>5. o.req # None => o.req \in Requests /\ admission[o.req] = current
      <4>1. current \in Ordered(admission, head)
        BY <2>0, <2>2 DEF Newest
      <4>2. QED
        BY <3>2, <4>1 DEF Ordered, Records, Same, CoordinationInv, Identified
    <3>6. Stage(current) <= Stage(o)
      <4>1. Stage(current) \in {1, 2, 3}
        BY <2>2, <3>1 DEF Stage, Record, Statuses
      <4>2. Stage(o) \in {3, 4}
        BY <3>2 DEF Stage
      <4>3. QED
        BY <4>1, <4>2
    <3>7. WorkerLogged'
      BY <2>0, <2>2, <3>2, <3>4, <3>5, <3>6 DEF WorkerLogged, Same
    <3>8. QED
      BY <2>0, <3>7, Rested DEF LogInv
  <2>3. QED
    BY <1>9, <2>1, <2>2 DEF Recover
<1>10. CASE SaveAdmission
  <2>0. w.step = "admission" /\ w.step \in SaveSteps /\ UNCHANGED touched
    BY <1>10 DEF SaveAdmission, SaveSteps
  <2>1. CASE Refused
    BY <2>0, <2>1, FailedRests DEF Refused
  <2>2. CASE WriteAdmission(w.op, [w EXCEPT !.step = "head"])
    <3>1. w.op.req \in Requests
      BY <2>0, OwnRecord DEF CoordinationInv, WorkerTyped, Record
    <3>2. QED
      BY <2>0, <2>2, <3>1, AdmissionLogged
  <2>3. QED
    BY <1>10, <2>1, <2>2 DEF SaveAdmission
<1>11. CASE SaveHead
  <2>0. w.step = "head" /\ w.step \in SaveSteps /\ UNCHANGED touched
    BY <1>11 DEF SaveHead, SaveSteps
  <2>1. CASE Refused
    BY <2>0, <2>1, FailedRests DEF Refused
  <2>2. CASE WriteHead(w.op, [w EXCEPT !.step = "project"])
    BY <2>0, <2>2, HeadLogged
  <2>3. QED
    BY <1>11, <2>1, <2>2 DEF SaveHead
<1>12. CASE SaveProjection
  <2>1. /\ w.step = "project" /\ w.step \in SaveSteps /\ w.op \in Record
        /\ UNCHANGED <<admission, admSafe, head, headSafe, touched>>
        /\ w' \in {SavedNext, FailedNext}
    BY <1>12, OwnRecord DEF SaveProjection, WriteCurrent, SaveSteps
  <2>2. FilesLogged' /\ Latest' = Latest
    BY <2>1, Rested
  <2>3. /\ Latest # None /\ Same(Latest, w.op)
        /\ w.op.req # None => admSafe[w.op.req] = w.op /\ admission[w.op.req] = w.op
    BY <2>1 DEF LogInv, WorkerLogged
  <2>4. CASE w' = FailedNext
    BY <2>1, <2>4, FailedRests
  <2>5. CASE w' = Nobody
    BY <2>2, <2>5, Left DEF LogInv
  <2>6. ASSUME NEW s \in {"running", "begun"}, w' = Saving([w.op EXCEPT !.status = s]),
               w.op.status = "queued" \/ (w.op.status = "running" /\ s = "begun")
        PROVE LogInv'
    <3> DEFINE o == [w.op EXCEPT !.status = s]
    <3>1. Same(o, w.op) /\ o.status = s
      BY <2>1 DEF Record, Same
    <3>2. w' = Saving(o)
      BY <2>6
    <3> HIDE DEF o
    <3>3. w'.op = o /\ w'.step \in {"admission", "head"} /\ (w'.step = "head" <=> o.req = None)
      BY <3>2, SavingLeads
    <3>4. Stage(w.op) <= Stage(o)
      <4>1. Stage(w.op) = 1 /\ Stage(o) \in {1, 2}
        BY <2>6, <3>1 DEF Stage
      <4>2. QED
        BY <4>1
    <3>5. \A t \in touched : t.req # None => t.req # w.op.req
      BY <2>1, <2>6 DEF LogInv, WorkerLogged
    <3>6. w.op # None
      BY <2>1, OwnRecord
    <3>7. WorkerLogged'
      BY <2>1, <2>2, <2>3, <3>1, <3>3, <3>4, <3>5, <3>6 DEF WorkerLogged, Same
    <3>8. QED
      BY <2>2, <3>7 DEF LogInv
  <2>7. CASE w' = [w EXCEPT !.step = "work"]
    <3>1. w'.step = "work" /\ w'.op = w.op
      BY <2>7 DEF CoordinationInv, WorkerTyped
    <3>2. WorkerLogged'
      BY <2>1, <2>2, <3>1 DEF LogInv, WorkerLogged, SaveSteps
    <3>3. QED
      BY <2>2, <3>2 DEF LogInv
  <2>8. QED
    BY <2>1, <2>4, <2>5, <2>6, <2>7 DEF SavedNext
<1>13. CASE Run
  <2>0. /\ UNCHANGED <<admission, admSafe, head, headSafe>> /\ Latest' = Latest
        /\ w.step = "work" /\ w.step \in SaveSteps /\ w.op \in Record
        /\ touched' = touched \cup {[id |-> w.op.id, req |-> w.op.req]}
    BY <1>13, OwnRecord DEF Run, SaveSteps, Latest
  <2>1. PICK s \in {"held", "done"} : w' = Saving([w.op EXCEPT !.status = s])
    BY <1>13 DEF Run
  <2>2. /\ Latest # None /\ Same(Latest, w.op) /\ w.op # None
        /\ w.op.req # None => /\ admSafe[w.op.req] = w.op /\ admission[w.op.req] = w.op
                              /\ w.op.req \in Requests
    BY <2>0, OwnRecord DEF LogInv, WorkerLogged, Record
  <2> DEFINE o == [w.op EXCEPT !.status = s]
  <2>3. Same(o, w.op) /\ o.status = s
    BY <2>0 DEF Record, Same
  <2>4. w' = Saving(o)
    BY <2>1
  <2> HIDE DEF o
  <2>5. w'.op = o /\ w'.step \in {"admission", "head"} /\ (w'.step = "head" <=> o.req = None)
    BY <2>4, SavingLeads
  <2>6. Stage(w.op) <= Stage(o)
    <3>1. w.op.status = "begun"
      BY <2>0 DEF CoordinationInv, WorkerTyped
    <3>2. Stage(w.op) = 2 /\ Stage(o) \in {3, 4}
      BY <2>3, <3>1 DEF Stage
    <3>3. QED
      BY <3>2
  <2>7. WorkerLogged'
    BY <2>0, <2>2, <2>3, <2>5, <2>6 DEF WorkerLogged, Same
  <2>8. \A t \in touched' : t.req # None => t.req \in Requests /\ admSafe[t.req] # None
    BY <2>0, <2>2 DEF LogInv, FilesLogged
  <2>9. FilesLogged'
    BY <2>0, <2>8 DEF LogInv, FilesLogged
  <2>10. QED
    BY <2>7, <2>9 DEF LogInv
<1>14. CASE UNCHANGED vars
  <2>1. UNCHANGED <<admission, admSafe, head, headSafe, w, touched>>
    BY <1>14 DEF vars
  <2>2. FilesLogged' /\ WorkerLogged'
    BY <2>1, Rested DEF LogInv, WorkerLogged
  <2>3. QED
    BY <2>2 DEF LogInv
<1>15. QED
  BY <1>2, <1>3, <1>4, <1>5, <1>6, <1>7, <1>8, <1>9, <1>10, <1>11, <1>12, <1>13, <1>14 DEF Next, Work

\* A step of the log, or none.
LogStep == Log!LogNext \/ UNCHANGED Log!logVars

\* The ranks of the log.
LEMMA Ranks ==
  /\ DOMAIN Log!Rank = {"absent", "admitted", "begun", "held", "ended"}
  /\ Log!Rank["absent"] = 0 /\ Log!Rank["admitted"] = 1 /\ Log!Rank["begun"] = 2
  /\ Log!Rank["held"] = 3 /\ Log!Rank["ended"] = 4
BY DEF Log!Rank

\* The log's record of a request says how far its operation is.
LEMMA RecordStage ==
  ASSUME NEW r \in Requests
  PROVE /\ admSafe[r] = None => RecordOf(r) = "absent"
        /\ admSafe[r] \in Record =>
             RecordOf(r) = (CASE Stage(admSafe[r]) = 1 -> "admitted" [] Stage(admSafe[r]) = 2 -> "begun"
                              [] Stage(admSafe[r]) = 3 -> "held" [] OTHER -> "ended")
        /\ admSafe[r] \in Record => Stage(admSafe[r]) \in {1, 2, 3, 4}
BY NoneIsNoRecord DEF RecordOf, Stage, Record, Statuses

\* The same after a step.
LEMMA RecordStageNext ==
  ASSUME NEW r \in Requests
  PROVE /\ admSafe'[r] = None => RecordOf(r)' = "absent"
        /\ admSafe'[r] \in Record =>
             RecordOf(r)' = (CASE Stage(admSafe'[r]) = 1 -> "admitted" [] Stage(admSafe'[r]) = 2 -> "begun"
                               [] Stage(admSafe'[r]) = 3 -> "held" [] OTHER -> "ended")
        /\ admSafe'[r] \in Record => Stage(admSafe'[r]) \in {1, 2, 3, 4}
BY NoneIsNoRecord DEF RecordOf, Stage, Record, Statuses

\* Nothing that the log is about has changed, or only that the host started.
LEMMA Quiet ==
  ASSUME UNCHANGED <<admSafe, touched>>, UNCHANGED headSafe \/ LastOf' \in {LastOf, None}
  PROVE LogStep
<1>1. [r \in Requests |-> RecordOf(r)]' = [r \in Requests |-> RecordOf(r)]
      /\ ({t.req : t \in touched} \ {None})' = {t.req : t \in touched} \ {None}
  BY DEF RecordOf
<1>2. CASE UNCHANGED headSafe
  <2>1. LastOf' = LastOf
    BY <1>2 DEF LastOf
  <2>2. QED
    BY <1>1, <2>1 DEF LogStep, Log!logVars
<1>3. CASE LastOf' = LastOf
  BY <1>1, <1>3 DEF LogStep, Log!logVars
<1>4. CASE LastOf' = None
  BY <1>1, <1>4 DEF LogStep, Log!LogNext, Log!HostStarts
<1>5. QED
  BY <1>2, <1>3, <1>4

\* The record of one request changes.
LEMMA Others ==
  ASSUME NEW r \in Requests, \A q \in Requests : q # r => admSafe'[q] = admSafe[q]
  PROVE [q \in Requests |-> RecordOf(q)]'
          = [[q \in Requests |-> RecordOf(q)] EXCEPT ![r] = RecordOf(r)']
<1>1. \A q \in Requests : q # r => RecordOf(q)' = RecordOf(q)
  BY DEF RecordOf
<1>2. QED
  BY <1>1

\* The newest request moves on.
LEMMA Moving ==
  ASSUME NEW r \in Requests, admSafe[r] \in Record, admSafe'[r] \in Record,
         \A q \in Requests : q # r => admSafe'[q] = admSafe[q],
         Stage(admSafe[r]) <= Stage(admSafe'[r]), LastOf = r, LastOf' = r, UNCHANGED touched
  PROVE LogStep
<1>1. ({t.req : t \in touched} \ {None})' = {t.req : t \in touched} \ {None}
  OBVIOUS
<1>2. [q \in Requests |-> RecordOf(q)]'
        = [[q \in Requests |-> RecordOf(q)] EXCEPT ![r] = RecordOf(r)']
  BY Others
<1>3. CASE RecordOf(r)' = RecordOf(r)
  <2>1. [q \in Requests |-> RecordOf(q)]' = [q \in Requests |-> RecordOf(q)]
    BY <1>2, <1>3
  <2>2. QED
    BY <1>1, <2>1 DEF LogStep, Log!logVars
<1>4. CASE RecordOf(r)' # RecordOf(r)
  <2>1. RecordOf(r) # "absent" /\ RecordOf(r)' \in DOMAIN Log!Rank
        /\ Log!Rank[RecordOf(r)'] > Log!Rank[RecordOf(r)]
    BY <1>4, Ranks, RecordStage, RecordStageNext
  <2>2. Log!Advance(r)
    BY <1>1, <1>2, <2>1 DEF Log!Advance
  <2>3. QED
    BY <2>2 DEF LogStep, Log!LogNext
<1>5. QED
  BY <1>3, <1>4

\* A request is admitted.
LEMMA Admitting ==
  ASSUME NEW r \in Requests, admSafe[r] = None, admSafe'[r] \in Record, Stage(admSafe'[r]) = 1,
         \A q \in Requests : q # r => admSafe'[q] = admSafe[q], LastOf' = r, UNCHANGED touched
  PROVE LogStep
<1>1. ({t.req : t \in touched} \ {None})' = {t.req : t \in touched} \ {None}
  OBVIOUS
<1>2. [q \in Requests |-> RecordOf(q)]'
        = [[q \in Requests |-> RecordOf(q)] EXCEPT ![r] = RecordOf(r)']
  BY Others
<1>3. RecordOf(r) = "absent" /\ RecordOf(r)' = "admitted"
  BY RecordStage, RecordStageNext
<1>4. Log!Admit(r)
  BY <1>1, <1>2, <1>3 DEF Log!Admit
<1>5. QED
  BY <1>4 DEF LogStep, Log!LogNext

\* What is visible becomes what lasts.
LEMMA Settling ==
  ASSUME CoordinationInv, OrderInv, Newest, LogInv, admSafe' = admission, headSafe' = head,
         UNCHANGED touched
  PROVE LogStep
<1>1. LastOf' = (IF Latest = None THEN None ELSE Latest.req)
  BY DEF LastOf, Latest
<1>2. CASE admSafe = admission
  <2>1. CASE headSafe = head
    BY <1>2, <2>1, Quiet
  <2>2. CASE headSafe # head /\ head.req = None
    BY <1>1, <1>2, <2>2, Quiet DEF LogInv, FilesLogged, Same
  <2>3. CASE headSafe # head /\ head.req # None
    <3>1. head # None /\ Latest # None /\ Latest.req = head.req /\ Same(head, Latest) /\ head.req \in Requests
      BY <2>3 DEF LogInv, FilesLogged, Newest, Same, CoordinationInv, FilesTyped, MaybeRecord, Record
    <3>2. admSafe[head.req] # None /\ Same(Latest, admission[head.req])
      BY <1>2, <2>3, <3>1 DEF OrderInv, RecordsOrdered, Lasting, Same
    <3>3. LastOf = head.req
      BY <3>1, <3>2, LastIs
    <3>4. QED
      BY <1>1, <1>2, <3>1, <3>3, Quiet
  <2>4. QED
    BY <2>1, <2>2, <2>3
<1>3. CASE admSafe # admission
  <2>1. PICK r \in Requests : admSafe[r] # admission[r]
    BY <1>3 DEF CoordinationInv, FilesTyped
  <2>2. Latest = admission[r] /\ Latest # None /\ Latest.req = r
    BY <2>1, OthersLast
  <2>3. \A q \in Requests : q # r => admSafe'[q] = admSafe[q]
    BY <2>2, OthersLast
  <2>4. admSafe'[r] \in Record /\ LastOf' = r /\ admSafe[r] \in MaybeRecord
    BY <1>1, <2>2 DEF CoordinationInv, FilesTyped, MaybeRecord
  <2>5. CASE admSafe[r] = None
    <3>1. Stage(admSafe'[r]) = 1
      BY <2>2, <2>5 DEF CoordinationInv, AcceptedReceiptsLast, Stage
    <3>2. QED
      BY <2>3, <2>4, <2>5, <3>1, Admitting
  <2>6. CASE admSafe[r] # None
    <3>1. LastOf = r
      BY <2>2, <2>6, LastIs DEF Same
    <3>2. Stage(admSafe[r]) <= Stage(admSafe'[r])
      BY <2>1, <2>6 DEF LogInv, FilesLogged
    <3>3. QED
      BY <2>3, <2>4, <2>6, <3>1, <3>2, Moving DEF MaybeRecord
  <2>7. QED
    BY <2>5, <2>6
<1>4. QED
  BY <1>2, <1>3

\* Saving an admission admits a request, moves it on, or settles an earlier save.
LEMMA AdmissionStep ==
  ASSUME CoordinationInv, OrderInv, Newest, Newest', LogInv, NEW then, WriteAdmission(w.op, then),
         UNCHANGED touched, w.step \in SaveSteps, w.op.req \in Requests,
         w.step = "admission" \/ (w.step = "accept" /\ admission[w.op.req] = None)
  PROVE LogStep
<1>1. CASE UNCHANGED <<admSafe, headSafe>>
  BY <1>1, Quiet
<1>2. CASE admSafe' = admission /\ headSafe' = head
  BY <1>2, Settling
<1>3. CASE /\ admission' = [admission EXCEPT ![w.op.req] = w.op] /\ head' = head /\ headSafe' = head
           /\ admSafe' = admission'
  <2> DEFINE r == w.op.req
  <2>1. w.op \in Record /\ r # None /\ r \in Requests /\ w.op # None
    BY OwnRecord, CoordinationConstants
  <2>2. Latest' = w.op
    BY <1>3, <2>1, WorkerNewest, AdmissionIsLatest
  <2>3. LastOf' = r
    BY <1>3, <2>1, <2>2 DEF LastOf, Latest
  <2>4. admSafe'[r] = w.op /\ \A q \in Requests : q # r => admSafe'[q] = admission[q]
    BY <1>3 DEF CoordinationInv, FilesTyped
  <2>5. CASE w.step = "accept" /\ admission[r] = None
    <3>1. admSafe = admission
      BY <2>5 DEF OrderInv, WorkerOrdered, Synced
    <3>2. Stage(w.op) = 1
      BY <2>5 DEF CoordinationInv, WorkerTyped, Stage
    <3> HIDE DEF r
    <3>3. QED
      BY <2>1, <2>3, <2>4, <2>5, <3>1, <3>2, Admitting
  <2>6. CASE w.step = "admission"
    <3>1. Same(Latest, w.op) /\ admSafe[r] # None /\ Stage(admission[r]) <= Stage(w.op)
      BY <2>1, <2>6 DEF LogInv, WorkerLogged
    <3>2. \A q \in Requests : q # r => admSafe'[q] = admSafe[q]
      BY <2>4, <3>1, OthersLast DEF Same
    <3>3. admSafe[r] \in Record /\ admission[r] \in Record /\ Same(admission[r], admSafe[r])
      BY <2>1, <3>1 DEF CoordinationInv, FilesTyped, MaybeRecord, OrderInv, RecordsOrdered
    <3>4. Stage(admSafe[r]) <= Stage(admission[r])
      <4>1. Stage(admission[r]) \in {1, 2, 3, 4}
        BY DEF Stage
      <4>2. QED
        BY <2>1, <3>1, <4>1 DEF LogInv, FilesLogged
    <3>5. Stage(admSafe[r]) <= Stage(w.op)
      <4>1. Stage(admSafe[r]) \in {1, 2, 3, 4} /\ Stage(admission[r]) \in {1, 2, 3, 4} /\ Stage(w.op) \in {1, 2, 3, 4}
        BY DEF Stage
      <4>2. QED
        BY <3>1, <3>4, <4>1
    <3>6. Same(Latest, admission[r])
      <4>1. admission[r].req = r
        BY <2>1, <3>3, NoneIsNoRecord DEF CoordinationInv, Identified
      <4>2. Latest \in Ordered(admission, head) /\ Latest.req = r
        BY <2>6, <3>1 DEF LogInv, WorkerLogged, Newest, Same
      <4>3. Latest = admission[r]
        BY <2>1, <4>2 DEF Ordered, Records, CoordinationInv, Identified
      <4>4. QED
        BY <4>3 DEF Same
    <3>7. LastOf = r
      BY <2>1, <3>1, <3>6, LastIs
    <3> HIDE DEF r
    <3>8. QED
      BY <2>1, <2>3, <2>4, <3>2, <3>3, <3>5, <3>7, Moving
  <2>7. QED
    BY <2>5, <2>6
<1>4. QED
  BY <1>1, <1>2, <1>3 DEF WriteAdmission

\* Saving the head starts a host operation, or changes nothing.
LEMMA HeadStep ==
  ASSUME CoordinationInv, OrderInv, Newest, Newest', LogInv, NEW then, WriteHead(w.op, then),
         UNCHANGED touched, w.step = "head" \/ (w.step = "accept" /\ w.op.req = None)
  PROVE LogStep
<1>1. admSafe = admission /\ admSafe' = admSafe
  BY HeadAfterAdmissions DEF WriteHead
<1>2. w.step \in SaveSteps /\ w.op \in Record /\ w.op # None
  BY OwnRecord DEF SaveSteps
<1>3. CASE UNCHANGED headSafe
  BY <1>1, <1>3, Quiet
<1>4. CASE headSafe' = head
  BY <1>1, <1>4, Settling
<1>5. CASE head' = w.op /\ headSafe' = w.op /\ admission' = admission
  <2>1. Latest' = w.op
    BY <1>2, <1>5, WorkerNewest, HeadIsLatest DEF LogInv, WorkerLogged
  <2>2. LastOf' = w.op.req
    BY <1>1, <1>2, <1>5, <2>1 DEF LastOf, Latest
  <2>3. CASE w.op.req = None
    BY <1>1, <2>2, <2>3, Quiet
  <2>4. CASE w.op.req # None
    <3>1. admission[w.op.req] = w.op /\ admSafe[w.op.req] # None /\ Same(Latest, w.op) /\ w.op.req \in Requests
      BY <1>2, <2>4 DEF LogInv, WorkerLogged, Record
    <3>2. LastOf = w.op.req
      BY <3>1, LastIs
    <3>3. QED
      BY <1>1, <2>2, <3>2, Quiet
  <2>5. QED
    BY <2>3, <2>4
<1>6. QED
  BY <1>3, <1>4, <1>5 DEF WriteHead

\* Every step is one of the log, or none.
LEMMA StepRefines ==
  CoordinationInv /\ OrderInv /\ Newest /\ Newest' /\ LogInv /\ [Next]_vars => LogStep
<1> SUFFICES ASSUME CoordinationInv, OrderInv, Newest, Newest', LogInv, [Next]_vars PROVE LogStep
  OBVIOUS
<1> USE DEF authority, projection, world
<1>1. CASE UNCHANGED <<admSafe, headSafe, touched>>
  BY <1>1, Quiet
<1>2. CASE SyncAuthority
  BY <1>2, Quiet, Settling DEF SyncAuthority
<1>3. CASE Accept
  <2>0. w.step = "accept" /\ w.step \in SaveSteps /\ w.op \in Record /\ UNCHANGED touched
    BY <1>3, OwnRecord DEF Accept, SaveSteps
  <2>1. CASE w.op.req = None /\ WriteHead(w.op, Saving(w.op))
    BY <2>0, <2>1, HeadStep
  <2>2. CASE admission[w.op.req] = None /\ w.op.req # None /\ WriteAdmission(w.op, Saving(w.op))
    <3>1. w.op.req \in Requests
      BY <2>0, <2>2 DEF Record
    <3>2. QED
      BY <2>0, <2>2, <3>1, AdmissionStep
  <2>3. CASE UNCHANGED authority
    BY <2>0, <2>3, Quiet
  <2>4. QED
    BY <1>3, <2>1, <2>2, <2>3 DEF Accept
<1>4. CASE SaveAdmission
  <2>0. w.step = "admission" /\ w.step \in SaveSteps /\ UNCHANGED touched
    BY <1>4 DEF SaveAdmission, SaveSteps
  <2>1. w.op.req \in Requests
    BY <2>0, OwnRecord DEF CoordinationInv, WorkerTyped, Record
  <2>2. CASE WriteAdmission(w.op, [w EXCEPT !.step = "head"])
    BY <2>0, <2>1, <2>2, AdmissionStep
  <2>3. QED
    BY <1>4, <2>0, <2>2, Quiet DEF SaveAdmission, Refused
<1>5. CASE SaveHead
  BY <1>5, HeadStep, Quiet DEF SaveHead, Refused
<1>6. CASE Run
  <2>1. /\ UNCHANGED <<admSafe, headSafe>> /\ w.step = "work" /\ w.op \in Record
        /\ touched' = touched \cup {[id |-> w.op.id, req |-> w.op.req]}
    BY <1>6, OwnRecord DEF Run, SaveSteps
  <2>2. LastOf' = LastOf /\ [q \in Requests |-> RecordOf(q)]' = [q \in Requests |-> RecordOf(q)]
    BY <2>1 DEF LastOf, RecordOf
  <2>3. ({t.req : t \in touched} \ {None})' = ({t.req : t \in touched} \cup {w.op.req}) \ {None}
    <3> DEFINE new == [id |-> w.op.id, req |-> w.op.req]
    <3>1. new.req = w.op.req /\ touched' = touched \cup {new}
      BY <2>1
    <3> HIDE DEF new
    <3>2. {t.req : t \in touched'} = {t.req : t \in touched} \cup {w.op.req}
      BY <3>1
    <3>3. QED
      BY <3>2
  <2>4. CASE w.op.req = None
    BY <2>2, <2>3, <2>4 DEF LogStep, Log!logVars
  <2>5. CASE w.op.req # None
    <3>1. /\ w.op.req \in Requests /\ admSafe[w.op.req] = w.op /\ admission[w.op.req] = w.op
          /\ Same(Latest, w.op) /\ w.op.status = "begun" /\ w.op # None
      BY <2>1, <2>5, NoneIsNoRecord DEF LogInv, WorkerLogged, Record, CoordinationInv, WorkerTyped
    <3>2. LastOf = w.op.req
      BY <3>1, LastIs
    <3>3. RecordOf(w.op.req) = "begun"
      BY <3>1 DEF RecordOf
    <3>4. w.op.req \notin {t.req : t \in touched}
      BY <2>1, <2>5, <3>1 DEF LogInv, WorkerLogged, SaveSteps
    <3>5. PICK r \in Requests : r = w.op.req
      BY <3>1
    <3>6. ({t.req : t \in touched} \ {None})' = ({t.req : t \in touched} \ {None}) \cup {r}
      BY <2>3, <2>5, <3>5
    <3>7. Log!Execute(r)
      BY <2>2, <3>2, <3>3, <3>4, <3>5, <3>6 DEF Log!Execute
    <3>8. QED
      BY <3>7 DEF LogStep, Log!LogNext
  <2>6. QED
    BY <2>4, <2>5
<1>7. CASE PowerLoss
  <2>1. /\ admSafe' = admission' /\ headSafe' = head' /\ UNCHANGED touched
        /\ admission' \in [Requests -> Records(admission) \cup Records(admSafe) \cup {None}]
        /\ \A r \in Requests : admission'[r] \in {admission[r], admSafe[r]}
        /\ head' \in {head, headSafe}
    BY <1>7 DEF PowerLoss
  <2>2. admission' = admission \/ admission' = admSafe
    <3>1. \A r, q \in Requests : admSafe[r] # admission[r] /\ admSafe[q] # admission[q] => r = q
      BY OthersLast
    <3>2. admission \in [Requests -> MaybeRecord] /\ admSafe \in [Requests -> MaybeRecord]
      BY DEF CoordinationInv, FilesTyped
    <3>3. CASE \E r \in Requests : admSafe[r] # admission[r]
      <4>1. PICK r \in Requests : admSafe[r] # admission[r]
        BY <3>3
      <4>2. \A q \in Requests : q # r => admission'[q] = admission[q] /\ admission'[q] = admSafe[q]
        BY <2>1, <3>1, <4>1
      <4>3. QED
        BY <2>1, <3>2, <4>2
    <3>4. CASE \A r \in Requests : admSafe[r] = admission[r]
      BY <2>1, <3>2, <3>4
    <3>5. QED
      BY <3>3, <3>4
  <2>3. CASE admSafe' = admSafe /\ headSafe' = headSafe
    BY <2>1, <2>3, Quiet
  <2>4. CASE admSafe' = admission /\ headSafe' = head
    BY <2>1, <2>4, Settling
  <2>5. admSafe = admission \/ headSafe = head
    BY DEF LogInv, FilesLogged
  <2>6. QED
    BY <2>1, <2>2, <2>3, <2>4, <2>5
<1>8. CASE Reconcile \/ (\E r \in Requests : CreatePlan(r) \/ Submit(r)) \/ \E kind \in Kinds : StartHost(kind)
  BY <1>1, <1>8 DEF Reconcile, CreatePlan, Submit, StartHost, Lock
<1>9. CASE Crash \/ Rebuild \/ SavePlan \/ Decide \/ Recover \/ SaveProjection \/ UNCHANGED vars
  BY <1>1, <1>9 DEF Crash, Rebuild, SavePlan, Decide, Recover, SaveProjection, vars
<1>10. QED
  BY <1>2, <1>3, <1>4, <1>5, <1>6, <1>7, <1>8, <1>9 DEF Next, Work

\* The log's invariant: at most the newest record is ahead of what lasts, and a worker that is
\* about to run an operation holds the newest record of a request that never ran.
THEOREM LogInvariant == Spec => []LogInv
<1>1. CoordinationInv /\ OrderInv /\ OrderReadable => Newest
  BY NewestHolds
<1>2. QED
  BY <1>1, InitLog, StepLog, CoordinationInvariant, OrderInvariant, AuthorityStaysReadable, PTL DEF Spec

\* Store and manager implement the log that clients are promised: a request is admitted once,
\* its durable record only moves forward, and deployment code runs for it at most once and only
\* after the record says so (docs/updater-coordination-v2.md, coordination/store.go:267 Accept,
\* operation/coordination.go:285 repairAdmissions).
THEOREM StoreImplementsLog == Spec => ImplementsLog
<1>1. Init => Log!LogInit
  <2> SUFFICES ASSUME Init PROVE Log!LogInit
    OBVIOUS
  <2>1. LastOf = None
    BY DEF Init, LastOf, LatestOf, Ordered, Records
  <2>2. QED
    BY <2>1 DEF Init, Log!LogInit, RecordOf
<1>2. CoordinationInv /\ OrderInv /\ OrderReadable => Newest
  BY NewestHolds
<1>3. LogStep => [Log!LogNext]_(Log!logVars)
  BY DEF LogStep
<1>4. QED
  BY <1>1, <1>2, <1>3, StepRefines, LogInvariant, CoordinationInvariant, OrderInvariant,
     AuthorityStaysReadable, PTL DEF Spec, ImplementsLog, Log!LogSpec

==============================================================================
