-------------------------- MODULE HostRestoreProofs --------------------------
(***************************************************************************)
(* Proofs about the restore authority and about the restore of a host that *)
(* commits to it, for any number of transactions, points, digests,         *)
(* generations, interruptions and retries.                                 *)
(*                                                                         *)
(* The authority first, as it stands alone (Spec of RecoveryControl).  Its *)
(* files are related by ControlInv: a present authority is valid and was   *)
(* preceded by floor and marker; while the marker is missing nothing was   *)
(* ever published; and the public copy is bounded by the authority.  Every *)
(* operation is one Commit of a valid authority that is no earlier than    *)
(* the loaded one, so the proof is one lemma about Commit and one small    *)
(* lemma per operation.                                                    *)
(*                                                                         *)
(* Then the host (RestoreSpec of HostRestore).  HostInv says what is true  *)
(* at each position of the worker: what it holds, what it has replaced so  *)
(* far, which proofs it made and where every population of queued jobs is. *)
(* ControlInv is one part of it, for a step of a restore is, to the        *)
(* authority, an operation of the store.  There is one lemma for each part *)
(* with one case for each action.                                          *)
(***************************************************************************)
EXTENDS HostRestore, TLAPS

(* The restore authority. *)

\* a and b are two versions of the authority in the order they were committed.
NotBefore(a, b) ==
  \/ b.epoch = a.epoch /\ Rank(a.phase) <= Rank(b.phase)
  \/ b.epoch > a.epoch

Proven(a) == a.opened => a.restored /\ a.prep # None /\ a.redis # None

AuthorityInv ==
  /\ authority.phase # "absent" => Valid(authority) /\ Proven(authority)
  /\ authority.phase = "absent" => authority = NoAuthority

UnpublishedInv ==
  ~marker => authority = NoAuthority /\ public = PublicOf(NoAuthority)

ControlInv ==
  /\ TypeOK
  /\ AuthorityInv
  /\ UnpublishedInv
  /\ FloorBeforeAuthority
  /\ PublicNeverAhead

\* The authority every operation starts from is a valid one, and the public copy
\* is not ahead of it.
LEMMA LoadedIsSound ==
  ASSUME ControlInv, Loadable(TRUE)
  PROVE  /\ Loaded \in Authority
         /\ Valid(Loaded) /\ Proven(Loaded)
         /\ NotBefore(public, Loaded)
         /\ authority.phase # "absent" => Loaded = authority
<1>1. CASE authority.phase = "absent"
  <2>1. Loaded = NewAuthority /\ public = PublicOf(NoAuthority)
    BY <1>1 DEF Loadable, Loaded, ControlInv, UnpublishedInv
  <2>2. NewAuthority \in Authority
    BY DEF NewAuthority, Authority, Phases
  <2>3. Valid(NewAuthority) /\ Proven(NewAuthority)
    BY DEF NewAuthority, Valid, Proven
  <2>4. NotBefore(PublicOf(NoAuthority), NewAuthority)
    BY DEF NewAuthority, NotBefore, PublicOf, NoAuthority
  <2>5. QED
    BY <1>1, <2>1, <2>2, <2>3, <2>4
<1>2. CASE authority.phase # "absent"
  <2>1. Loaded = authority
    BY <1>2 DEF Loaded
  <2>2. NotBefore(public, authority)
    BY <1>2 DEF ControlInv, TypeOK, PublicNeverAhead, NotBefore, Authority, PublicState
  <2>3. QED
    BY <1>2, <2>1, <2>2 DEF ControlInv, TypeOK, AuthorityInv
<1>3. QED
  BY <1>1, <1>2

\* Committing a sound authority that is not before the loaded one keeps the
\* invariant, wherever the writes stop.
LEMMA CommitKeepsInv ==
  ASSUME ControlInv, Loadable(TRUE),
         NEW a \in Authority, Proven(a), NotBefore(Loaded, a),
         NEW done \in Writes, Commit(a, done),
         checkpoint' \in [Transactions -> Checkpoint \cup {None}]
  PROVE  ControlInv'
<1>1. /\ Loaded \in Authority
      /\ NotBefore(public, Loaded)
      /\ authority.phase # "absent" => Loaded = authority
  BY LoadedIsSound
<1>2. Valid(a) /\ a.phase # "absent"
  BY DEF Commit, Valid
<1>3. TypeOK'
  BY <1>2, ControlConstants
  DEF ControlInv, TypeOK, Commit, Authority, PublicState, PublicOf, MinimumProtocol, Writes
<1>4. AuthorityInv'
  BY <1>2 DEF ControlInv, AuthorityInv, Commit
<1>5. UnpublishedInv'
  <2> SUFFICES ASSUME ~marker'
               PROVE  authority' = NoAuthority /\ public' = PublicOf(NoAuthority)
    BY DEF UnpublishedInv
  <2>1. ~marker /\ ~(authority.phase = "absent" /\ done >= 2)
    BY DEF Commit
  <2>2. authority = NoAuthority /\ public = PublicOf(NoAuthority)
    BY <2>1 DEF ControlInv, UnpublishedInv
  <2>3. done < 2
    BY <2>1, <2>2 DEF NoAuthority, Writes
  <2>4. QED
    BY <2>2, <2>3 DEF Commit, Writes
<1>6. FloorBeforeAuthority'
  <2> SUFFICES ASSUME authority'.phase # "absent"
               PROVE  marker' /\ floor' = MinimumProtocol
    BY DEF FloorBeforeAuthority
  <2>1. CASE done >= 3
    <3>1. floor' = MinimumProtocol
      BY <2>1 DEF Commit, Writes
    <3>2. authority.phase # "absent" => marker
      BY DEF ControlInv, FloorBeforeAuthority
    <3>3. done >= 2
      BY <2>1 DEF Writes
    <3>4. QED
      BY <3>1, <3>2, <3>3 DEF Commit
  <2>2. CASE ~(done >= 3)
    <3>1. authority' = authority
      BY <2>2 DEF Commit
    <3>2. marker /\ floor = MinimumProtocol
      BY <3>1 DEF ControlInv, FloorBeforeAuthority
    <3>3. QED
      BY <3>2 DEF Commit
  <2>3. QED
    BY <2>1, <2>2
<1>7. PublicNeverAhead'
  <2>1. CASE done = 4
    BY <2>1, <1>2 DEF PublicNeverAhead, Commit, PublicOf, Authority, Rank, Phases
  <2>2. CASE done = 3
    <3>1. authority' = a /\ public' = public
      BY <2>2 DEF Commit
    <3>2. NotBefore(public, a)
      BY <1>1 DEF NotBefore, Authority, PublicState, ControlInv, TypeOK, Rank, Phases
    <3>3. QED
      BY <3>1, <3>2 DEF NotBefore, PublicNeverAhead, Authority, PublicState, ControlInv, TypeOK
  <2>3. CASE done < 3
    BY <2>3 DEF Commit, ControlInv, PublicNeverAhead, Writes
  <2>4. QED
    BY <2>1, <2>2, <2>3 DEF Writes
<1>8. QED
  BY <1>3, <1>4, <1>5, <1>6, <1>7 DEF ControlInv

\* A call that may not create the authority is a call on a present one.
LEMMA PresentIsLoadable ==
  ASSUME Loadable(FALSE)
  PROVE  Loadable(TRUE) /\ authority.phase # "absent" /\ Loaded = authority
  BY DEF Loadable, Loaded

\* Without an authority nothing is public.
LEMMA InitInv == ControlInit => ControlInv
<1> SUFFICES ASSUME ControlInit PROVE ControlInv
  OBVIOUS
<1>1. authority = NoAuthority /\ public = PublicOf(NoAuthority) /\ NoAuthority.phase = "absent"
  BY DEF ControlInit, NoAuthority
<1>2. NoAuthority \in Authority /\ PublicOf(NoAuthority) \in PublicState
  BY DEF NoAuthority, Authority, PublicOf, PublicState, Phases
<1>3. TypeOK
  BY <1>1, <1>2 DEF ControlInit, TypeOK
<1>4. QED
  BY <1>1, <1>3
  DEF ControlInv, AuthorityInv, UnpublishedInv, FloorBeforeAuthority, PublicNeverAhead

\* Every operation of the store keeps the invariant, wherever it is cut short.
LEMMA StepInv == ControlInv /\ [Next]_controlVars => ControlInv'
<1> SUFFICES ASSUME ControlInv, [Next]_controlVars PROVE ControlInv'
  OBVIOUS
<1>c. checkpoint \in [Transactions -> Checkpoint \cup {None}] /\ authority \in Authority
  BY DEF ControlInv, TypeOK
<1>s. ASSUME NEW a \in Authority PROVE NotBefore(a, a)
  BY DEF NotBefore, Authority, Rank, Phases
<1>1. ASSUME NEW done \in Writes, Initialize(done) PROVE ControlInv'
  <2>1. Loadable(TRUE) /\ Commit(Loaded, done) /\ checkpoint' = checkpoint
    BY <1>1 DEF Initialize
  <2>2. Loaded \in Authority /\ Proven(Loaded) /\ NotBefore(Loaded, Loaded)
    BY <2>1, <1>s, LoadedIsSound
  <2>3. QED
    BY <1>c, <2>1, <2>2, CommitKeepsInv
<1>2. ASSUME NEW done \in Writes, NEW tx \in Transactions, NEW p \in Points,
             NEW d \in Digests, Begin(tx, p, d, done)
      PROVE  ControlInv'
  <2>1. Loaded \in Authority /\ Proven(Loaded)
    BY <1>2, LoadedIsSound DEF Begin
  <2>2. BeginResult(Loaded, tx, p, d) \in Authority
    BY <2>1 DEF BeginResult, Generation, Authority, Phases
  <2>3. Proven(BeginResult(Loaded, tx, p, d))
    BY <2>1 DEF BeginResult, Generation, Proven
  <2>4. NotBefore(Loaded, BeginResult(Loaded, tx, p, d))
    BY <2>1 DEF BeginResult, Generation, NotBefore, Authority, Rank, Phases
  <2>5. QED
    BY <1>2, <1>c, <2>2, <2>3, <2>4, CommitKeepsInv DEF Begin
<1>3. ASSUME NEW done \in Writes, NEW tx \in Transactions, NEW p \in Points,
             NEW d \in Digests, CaptureCheckpoint(tx, p, d, done)
      PROVE  ControlInv'
  <2>1. checkpoint' \in [Transactions -> Checkpoint \cup {None}]
    BY <1>3, <1>c DEF CaptureCheckpoint, Checkpoint
  <2>2. Loadable(TRUE) /\ Commit(Loaded, done)
    BY <1>3 DEF CaptureCheckpoint
  <2>3. Loaded \in Authority /\ Proven(Loaded) /\ NotBefore(Loaded, Loaded)
    BY <2>2, <1>s, LoadedIsSound
  <2>4. QED
    BY <2>1, <2>2, <2>3, CommitKeepsInv
<1>4. ASSUME NEW done \in Writes, NEW tx \in Transactions, Restored(tx, done)
      PROVE  ControlInv'
  <2> DEFINE a == [authority EXCEPT !.restored = TRUE, !.phase = "validating"]
  <2>1. authority.phase = "restoring" /\ ~authority.opened
    BY <1>4 DEF Restored, ControlInv, AuthorityInv, Valid
  <2>2. a \in Authority /\ Proven(a)
    BY <1>c, <2>1 DEF Authority, Phases, Proven
  <2>3. NotBefore(authority, a)
    BY <1>c, <2>1 DEF NotBefore, Authority, Rank
  <2>4. QED
    BY <1>4, <1>c, <2>2, <2>3, PresentIsLoadable, CommitKeepsInv DEF Restored
<1>5. ASSUME NEW done \in Writes, NEW tx \in Transactions, OpenHTTP(tx, done)
      PROVE  ControlInv'
  <2> DEFINE a == [authority EXCEPT !.opened = TRUE, !.phase = "http_ready"]
  <2>1. a \in Authority /\ Proven(a)
    BY <1>5, <1>c DEF OpenHTTP, CanOpen, Authority, Phases, Proven
  <2>2. NotBefore(authority, a)
    BY <1>5, <1>c DEF OpenHTTP, CanOpen, NotBefore, Authority, Rank
  <2>3. QED
    BY <1>5, <1>c, <2>1, <2>2, PresentIsLoadable, CommitKeepsInv DEF OpenHTTP
<1>6. ASSUME NEW done \in Writes, NEW tx \in Transactions, NEW d \in Digests,
             RecordPreparation(tx, d, done) \/ RecordRedisManifest(tx, d, done)
      PROVE  ControlInv'
  <2> DEFINE a == [authority EXCEPT !.prep = d]
             b == [authority EXCEPT !.redis = d]
  <2>1. authority.phase = "validating" /\ ~authority.opened /\ Loadable(FALSE)
    BY <1>6 DEF RecordPreparation, RecordRedisManifest, ControlInv, AuthorityInv, Valid
  <2>2. a \in Authority /\ Proven(a) /\ NotBefore(authority, a)
    BY <1>c, <2>1 DEF Authority, Proven, NotBefore, Rank
  <2>3. b \in Authority /\ Proven(b) /\ NotBefore(authority, b)
    BY <1>c, <2>1 DEF Authority, Proven, NotBefore, Rank
  <2>4. checkpoint' = checkpoint /\ (Commit(a, done) \/ Commit(b, done))
    BY <1>6 DEF RecordPreparation, RecordRedisManifest
  <2>5. QED
    BY <1>c, <2>1, <2>2, <2>3, <2>4, PresentIsLoadable, CommitKeepsInv
<1>7. CASE LoseAuthority
  BY <1>7, ControlConstants
  DEF LoseAuthority, ControlInv, TypeOK, AuthorityInv, UnpublishedInv, FloorBeforeAuthority,
      PublicNeverAhead, Authority, NoAuthority, Phases
<1>8. CASE UNCHANGED controlVars
  BY <1>8
  DEF controlVars, ControlInv, TypeOK, AuthorityInv, UnpublishedInv, FloorBeforeAuthority,
      PublicNeverAhead
<1>9. QED
  BY <1>1, <1>2, <1>3, <1>4, <1>5, <1>6, <1>7, <1>8 DEF Next

\* The inductive invariant, and with it the types of every durable file
\* (store.go:167 validate accepts whatever change left behind).
THEOREM ControlInvariant == Spec => []ControlInv
  BY InitInv, StepInv, PTL DEF Spec

\* Every file stays one that its reader accepts (store.go:167 validate).
THEOREM TypeCorrect == Spec => []TypeOK
<1>1. ControlInv => TypeOK
  BY DEF ControlInv
<1>2. QED
  BY <1>1, ControlInvariant, PTL

\* A PHP reader never sees more than the private authority committed
\* (store.go:259).
THEOREM PublicIsBounded == Spec => []PublicNeverAhead
<1>1. ControlInv => PublicNeverAhead
  BY DEF ControlInv
<1>2. QED
  BY <1>1, ControlInvariant, PTL

\* Floor and marker precede the first authority file, wherever its creation was
\* cut short (store.go:233), so an older updater is refused by CheckProtocol.
THEOREM FloorComesFirst == Spec => []FloorBeforeAuthority
<1>1. ControlInv => FloorBeforeAuthority
  BY DEF ControlInv
<1>2. QED
  BY <1>1, ControlInvariant, PTL

\* An authority that is open has its proofs, and so has the public copy of it.
LEMMA OpenIsProven == ASSUME ControlInv PROVE HTTPNeedsProof
<1>1. authority \in Authority /\ public \in PublicState
  BY DEF ControlInv, TypeOK
<1>2. authority.opened => Proven(authority) /\ authority.phase # "absent"
  BY DEF ControlInv, AuthorityInv, NoAuthority
<1>3. ASSUME authority.phase # "absent", public.phase = "http_ready",
             public.epoch = authority.epoch
      PROVE  authority.opened
  <2>1. Rank(authority.phase) >= 4
    BY <1>1, <1>3 DEF ControlInv, PublicNeverAhead, Rank, Authority, Phases
  <2>2. authority.phase = "http_ready"
    BY <2>1, <1>1 DEF Rank, Authority, Phases
  <2>3. QED
    BY <2>2 DEF ControlInv, AuthorityInv, Valid
<1>4. QED
  BY <1>2, <1>3 DEF HTTPNeedsProof, Proven

\* HTTP opens only over restored data with both proofs (store.go:92).
THEOREM HTTPIsProven == Spec => []HTTPNeedsProof
  BY OpenIsProven, ControlInvariant, PTL

\* The authority moves on within its generation, or to the next one.
Forward ==
  authority.phase # "absent" /\ authority'.phase # "absent" =>
    \/ /\ authority'.epoch = authority.epoch
       /\ authority'.tx = authority.tx
       /\ authority'.point = authority.point
       /\ authority'.admin = authority.admin
       /\ Rank(authority'.phase) >= Rank(authority.phase)
       /\ authority.restored => authority'.restored
       /\ authority.prep # None => authority'.prep = authority.prep
       /\ authority.redis # None => authority'.redis = authority.redis
    \/ /\ authority'.epoch > authority.epoch
       /\ authority'.phase = "restoring"
       /\ authority'.tx # authority.tx
       /\ authority'.prep = None /\ authority'.redis = None

\* An operation of the store only moves the authority forward.
LEMMA StepForward == ASSUME ControlInv, [Next]_controlVars PROVE [Forward]_authority
<1> USE DEF Forward
<1> SUFFICES ASSUME authority.phase # "absent", authority'.phase # "absent",
                    authority' # authority, Next
             PROVE  Forward
  BY DEF controlVars
<1>1. authority \in Authority /\ Loaded = authority
  BY DEF ControlInv, TypeOK, Loaded
<1>2. ASSUME NEW done \in Writes, NEW a, Commit(a, done) PROVE authority' = a
  BY <1>2 DEF Commit
<1>3. ASSUME NEW done \in Writes, Initialize(done) PROVE Forward
  BY <1>3, <1>1, <1>2 DEF Initialize
<1>4. ASSUME NEW done \in Writes, NEW tx \in Transactions, NEW p \in Points,
             NEW d \in Digests, Begin(tx, p, d, done)
      PROVE  Forward
  <2>1. authority' = BeginResult(authority, tx, p, d)
    BY <1>4, <1>1, <1>2 DEF Begin
  <2>2. ~Owns(authority, tx) /\ authority' = Generation(authority, tx, p, d)
    BY <2>1 DEF BeginResult
  <2>3. authority.tx # tx /\ authority.epoch \in Nat
    BY <2>2, <1>1, ControlConstants DEF Owns, Authority
  <2>4. QED
    BY <2>2, <2>3 DEF Generation
<1>5. ASSUME NEW done \in Writes, NEW tx \in Transactions, NEW p \in Points,
             NEW d \in Digests, CaptureCheckpoint(tx, p, d, done)
      PROVE  Forward
  BY <1>5, <1>1, <1>2 DEF CaptureCheckpoint
<1>6. ASSUME NEW done \in Writes, NEW tx \in Transactions, Restored(tx, done)
      PROVE  Forward
  <2>1. /\ authority' = [authority EXCEPT !.restored = TRUE, !.phase = "validating"]
        /\ authority.phase = "restoring"
    BY <1>6, <1>2 DEF Restored
  <2>2. QED
    BY <2>1, <1>1 DEF Authority, Rank
<1>7. ASSUME NEW done \in Writes, NEW tx \in Transactions, OpenHTTP(tx, done)
      PROVE  Forward
  <2>1. /\ authority' = [authority EXCEPT !.opened = TRUE, !.phase = "http_ready"]
        /\ authority.phase \in {"validating", "http_ready"}
    BY <1>7, <1>2 DEF OpenHTTP, CanOpen
  <2>2. QED
    BY <2>1, <1>1 DEF Authority, Rank
<1>8. ASSUME NEW done \in Writes, NEW tx \in Transactions, NEW d \in Digests,
             RecordPreparation(tx, d, done)
      PROVE  Forward
  <2>1. /\ authority' = [authority EXCEPT !.prep = d]
        /\ authority.prep \in {None, d}
        /\ authority.phase = "validating"
    BY <1>8, <1>2 DEF RecordPreparation, CanRecord
  <2>2. QED
    BY <2>1, <1>1 DEF Authority, Rank
<1>9. ASSUME NEW done \in Writes, NEW tx \in Transactions, NEW d \in Digests,
             RecordRedisManifest(tx, d, done)
      PROVE  Forward
  <2>1. /\ authority' = [authority EXCEPT !.redis = d]
        /\ authority.redis \in {None, d}
        /\ authority.phase = "validating"
    BY <1>9, <1>2 DEF RecordRedisManifest, CanRecord
  <2>2. QED
    BY <2>1, <1>1 DEF Authority, Rank
<1>10. ASSUME LoseAuthority PROVE Forward
  BY <1>10 DEF LoseAuthority, NoAuthority
<1>11. QED
  BY <1>3, <1>4, <1>5, <1>6, <1>7, <1>8, <1>9, <1>10 DEF Next

\* The generation moves only forward (store.go:57): within one generation the
\* identity and the recorded proofs are kept, and only another transaction
\* starts the next one.
THEOREM GenerationIsMonotone == Spec => GenerationMonotone
<1>1. ControlInv /\ [Next]_controlVars => [Forward]_authority
  BY StepForward
<1>2. QED
  BY <1>1, ControlInvariant, PTL DEF Spec, GenerationMonotone, Forward

\* Behind the marker a lost authority file is never recreated and nothing is
\* published in its place (store.go:221).
THEOREM LostAuthorityIsFinal == Spec => LostAuthorityStaysClosed
<1> DEFINE Closed ==
      marker /\ authority.phase = "absent" =>
        authority'.phase = "absent" /\ public' = public
<1>1. ASSUME Next, marker, authority.phase = "absent" PROVE FALSE
  <2>1. ~Loadable(TRUE) /\ ~Loadable(FALSE) /\ ~LoseAuthority
    BY <1>1 DEF Loadable, LoseAuthority
  <2>2. QED
    BY <1>1, <2>1
    DEF Next, Initialize, Begin, CaptureCheckpoint, Restored, OpenHTTP, RecordPreparation,
        RecordRedisManifest
<1>2. [Next]_controlVars => [Closed]_controlVars
  BY <1>1
<1>3. QED
  BY <1>2, PTL DEF Spec, LostAuthorityStaysClosed

\* No frozen administrators are replaced.
Frozen == \A tx \in Transactions : checkpoint[tx] # None => checkpoint'[tx] = checkpoint[tx]

\* Only a capture writes the checkpoint, and it writes what is there already.
LEMMA StepFreezes == ASSUME ControlInv, [Next]_controlVars PROVE [Frozen]_checkpoint
<1> USE DEF Frozen
<1>1. ASSUME NEW done \in Writes, NEW other \in Transactions, NEW p \in Points,
             NEW d \in Digests, CaptureCheckpoint(other, p, d, done)
      PROVE  Frozen
  <2> SUFFICES ASSUME NEW tx \in Transactions, checkpoint[tx] # None,
                      checkpoint' = [checkpoint EXCEPT ![other] = [point |-> p, admin |-> d]]
               PROVE  checkpoint'[tx] = checkpoint[tx]
    BY <1>1 DEF CaptureCheckpoint
  <2>1. checkpoint \in [Transactions -> Checkpoint \cup {None}]
    BY <1>1 DEF ControlInv, TypeOK
  <2>2. CASE tx = other
    BY <1>1, <2>1, <2>2 DEF CaptureCheckpoint, CanCapture
  <2>3. CASE tx # other
    BY <2>1, <2>3
  <2>4. QED
    BY <2>2, <2>3
<1> SUFFICES ASSUME Next, checkpoint' # checkpoint PROVE Frozen
  BY DEF controlVars
<1>2. PICK done \in Writes, tx \in Transactions, p \in Points, d \in Digests :
        CaptureCheckpoint(tx, p, d, done)
  BY DEF Next, Initialize, Begin, Restored, OpenHTTP, RecordPreparation,
         RecordRedisManifest, LoseAuthority
<1>3. QED
  BY <1>1, <1>2

\* No call, complete or cut short, replaces a frozen checkpoint (checkpoint.go:27).
THEOREM CheckpointIsFrozen == Spec => CheckpointFrozen
<1>1. ControlInv /\ [Next]_controlVars => [Frozen]_checkpoint
  BY StepFreezes
<1>2. QED
  BY <1>1, ControlInvariant, PTL DEF Spec, CheckpointFrozen, Frozen

--------------------

(* The restore of a host. *)

\* The steps that replace data, with the archive before them.
DataSteps == Replacing \cup {"preserve"}

\* The authority exists, was never set back, and names its generation within the
\* bound.
PresentInv ==
  /\ authority.phase # "absent" /\ public.phase # "absent" /\ marker
  /\ public.phase # "ready" => authority.phase # "ready"
  /\ authority.tx # None => authority.epoch \in 1 .. MaxEpoch

\* A worker has an operation and a point; when it begins, the administrators are
\* known and everything is down.
WorkerInv ==
  /\ pc # "idle" => owner \in Transactions /\ target \in Points
  /\ pc \in {"drain", "begin"} => admin \in Digests
  /\ pc = "begin" => running = {}

Untouched ==
  {db, files, live["storage"], live["redis"]} \cap (Points \cup {"torn"}) = {}

\* While data is replaced, the published authority is the one of this restore and
\* everything is down; before anything is published, no data was replaced.
HoldInv ==
  /\ pc \in DataSteps =>
       /\ authority.phase = "restoring" /\ Owns(authority, owner)
       /\ authority.point = target
       /\ public = PublicOf(authority)
       /\ running = {}
  /\ public.phase = "ready" => Untouched

\* What a swap finds at its staging path is its own, or nothing: the directory it
\* will leave in place is that of the point.
Settled(dir) == old[dir][target] = "missing" \/ live[dir] \in {"missing", target}

\* What is replaced so far.
ProgressInv ==
  /\ pc \in Replacing \ {"files"} => files = target
  /\ pc \in Replacing \ {"files", "database"} => db = target
  /\ pc \in {"drop storage", "swap redis", "move redis", "drop redis", "complete"} =>
       /\ live["storage"] # "missing"
       /\ "storage" \in misled \/ live["storage"] = target
  /\ pc \in {"drop redis", "complete"} =>
       /\ live["redis"] # "missing"
       /\ "redis" \in misled \/ live["redis"] = target
  /\ pc \in {"preserve", "files", "database", "swap storage"} =>
       "storage" \in misled \/ Settled("storage")
  /\ pc \in DataSteps \ {"move redis", "drop redis", "complete"} =>
       "redis" \in misled \/ Settled("redis")
  /\ authority.phase = "validating" =>
       /\ db = authority.point
       /\ \A dir \in Dirs \ misled : live[dir] = authority.point
  /\ authority.restored =>
       /\ files = authority.point
       /\ live["storage"] # "missing" /\ live["redis"] # "missing"

\* The proofs follow each other within one generation, and outlast it only by
\* opening it.
OpenInv ==
  /\ pc \in {"core", "manifest", "open"} => authority.phase = "validating"
  /\ pc \in {"manifest", "open"} => prepared = authority.epoch
  /\ pc = "open" => quarantined = authority.epoch
  /\ pc = "serve" => public = PublicOf(authority)
  /\ authority.phase = "http_ready" =>
       prepared = authority.epoch /\ quarantined = authority.epoch
  /\ ServesProvenData

\* Nothing is replaced, or about to be, for an operation behind its boundary.
BoundaryInv ==
  pc \in {"prepare", "drain", "begin"} \cup DataSteps => owner \notin boundary

Queues == {"live", "written"}

Archived(queue) == \E e \in 1 .. MaxEpoch : evidence[e] = queue

\* Queues that were moved aside, or may be, are archived.
QueueInv ==
  /\ \A p \in Points : old["redis"][p] \in Queues => Archived(old["redis"][p])
  /\ \A e \in 1 .. MaxEpoch : e > authority.epoch => evidence[e] = None
  /\ pc \in Replacing => evidence[authority.epoch] # None
  /\ pc = "move redis" => live["redis"] = "missing"
  /\ authority.phase = "restoring" /\ evidence[authority.epoch] # None =>
       (live["redis"] \in Queues => Archived(live["redis"]))
  /\ authority.restored /\ live["redis"] = "live" => Archived("live")

HostInv ==
  /\ ControlInv /\ RestoreTypeOK /\ PresentInv /\ WorkerInv /\ HoldInv /\ ProgressInv
  /\ OpenInv /\ BoundaryInv /\ QueueInv

--------------------

\* The control writes of a restore start from a present authority.
LEMMA CommitEffect ==
  ASSUME ControlInv, PresentInv, NEW a, NEW done \in Writes, Commit(a, done)
  PROVE  /\ authority' \in {authority, a}
         /\ public' \in {public, PublicOf(a)}
         /\ authority' # a => public' = public
         /\ done = 4 => authority' = a /\ public' = PublicOf(a)
         /\ marker'
         /\ Valid(a)
<1>1. marker'
  BY DEF Commit, PresentInv
<1>2. done \in 0 .. 4 /\ Valid(a)
  BY DEF Commit, Writes
<1>3. authority' = (IF done >= 3 THEN a ELSE authority) /\ public' = (IF done = 4 THEN PublicOf(a) ELSE public)
  BY DEF Commit
<1>4. authority' = a \/ (authority' = authority /\ public' = public /\ done < 3)
  BY <1>2, <1>3
<1>5. public' = PublicOf(a) \/ public' = public
  BY <1>3
<1>6. done = 4 => authority' = a /\ public' = PublicOf(a)
  BY <1>2, <1>3
<1>7. QED
  BY <1>1, <1>2, <1>4, <1>5, <1>6

\* A start of the daemon publishes again what is private (store.go:53).
LEMMA InitializeEffect ==
  ASSUME ControlInv, PresentInv, NEW done \in Writes, Initialize(done)
  PROVE  /\ authority' = authority /\ marker' /\ checkpoint' = checkpoint
         /\ public' \in {public, PublicOf(authority)}
         /\ done = 4 => public' = PublicOf(authority)
<1>1. Loaded = authority
  BY DEF Loaded, PresentInv
<1>2. QED
  BY <1>1, CommitEffect DEF Initialize

\* The steps, one by one, with the count of writes left open.
LEMMA Steps ==
  ASSUME RestoreNext
  PROVE  \/ \E done \in Writes :
              \/ DaemonStart(done) \/ Prepare(done) \/ BeginRestore(done)
              \/ CompleteRestore(done) \/ StartData(done) \/ Open(done)
              \/ \E d \in Digests : PrepareCore(d, done) \/ QuarantineRedis(d, done)
         \/ Interrupt \/ RetryResume \/ UserWrites \/ Drain \/ PreserveRedis \/ ReplaceFiles
         \/ RestoreDatabase \/ PersistBoundary \/ Serve
         \/ \E dir \in Dirs : SettleSwap(dir) \/ MoveAside(dir) \/ MoveIn(dir) \/ DropOld(dir)
         \/ \E tx \in Transactions, p \in Points :
              StartRollback(tx, p) \/ \E d \in Digests : StartRelease(tx, p, d)
<1>1. 4 \in Writes
  BY DEF Writes
<1>2. QED
  BY <1>1 DEF RestoreNext, Work, FailedWrite

\* A step of a restore is, to the authority, an operation of the store.
LEMMA ControlStep ==
  ASSUME ControlInv, WorkerInv, [RestoreNext]_vars
  PROVE  [Next]_controlVars
<1> USE DEF controlVars
<1>1. CASE UNCHANGED vars
  BY <1>1 DEF vars
<1>2. ASSUME NEW done \in Writes,
             DaemonStart(done) \/ Prepare(done) \/ StartData(done)
      PROVE  Next
  BY <1>2 DEF DaemonStart, Prepare, StartData, Next
<1>3. ASSUME NEW done \in Writes, BeginRestore(done) PROVE Next
  <2>1. owner \in Transactions /\ target \in Points /\ admin \in Digests
    BY <1>3 DEF BeginRestore, WorkerInv
  <2>2. QED
    BY <1>3, <2>1 DEF BeginRestore, Next
<1>4. ASSUME NEW done \in Writes, CompleteRestore(done) \/ Open(done) PROVE Next
  <2>1. owner \in Transactions
    BY <1>4 DEF CompleteRestore, Open, WorkerInv
  <2>2. QED
    BY <1>4, <2>1 DEF CompleteRestore, Open, Next
<1>5. ASSUME NEW done \in Writes, NEW d \in Digests, PrepareCore(d, done) \/ QuarantineRedis(d, done)
      PROVE Next
  <2>1. owner \in Transactions
    BY <1>5 DEF PrepareCore, QuarantineRedis, WorkerInv
  <2>2. QED
    BY <1>5, <2>1 DEF PrepareCore, QuarantineRedis, Next
<1>6. ASSUME NEW tx \in Transactions, NEW p \in Points, NEW d \in Digests, StartRelease(tx, p, d)
      PROVE  Next \/ UNCHANGED controlVars
  <2>1. 4 \in Writes
    BY DEF Writes
  <2>2. QED
    BY <1>6, <2>1 DEF StartRelease, Next
<1>7. CASE \/ Interrupt \/ RetryResume \/ UserWrites \/ Drain \/ PreserveRedis \/ ReplaceFiles
           \/ RestoreDatabase \/ PersistBoundary \/ Serve
  BY <1>7 DEF Interrupt, RetryResume, UserWrites, Drain, PreserveRedis, ReplaceFiles,
              RestoreDatabase, PersistBoundary, Serve
<1>8. ASSUME NEW dir \in Dirs, SettleSwap(dir) \/ MoveAside(dir) \/ MoveIn(dir) \/ DropOld(dir)
      PROVE  UNCHANGED controlVars
  BY <1>8 DEF SettleSwap, MoveAside, MoveIn, DropOld
<1>9. ASSUME NEW tx \in Transactions, NEW p \in Points, StartRollback(tx, p)
      PROVE  UNCHANGED controlVars
  BY <1>9 DEF StartRollback
<1>10. QED
  BY <1>1, <1>2, <1>3, <1>4, <1>5, <1>6, <1>7, <1>8, <1>9, Steps

\* A restore is run against an authority that exists, over data nobody touched yet.
LEMMA HostInitInv == Init => HostInv
<1> SUFFICES ASSUME Init PROVE HostInv
  OBVIOUS
<1>1. /\ authority = NewAuthority /\ public = PublicOf(NewAuthority)
      /\ pc = "idle" /\ NewAuthority.phase = "ready" /\ PublicOf(NewAuthority).phase = "ready"
      /\ NewAuthority.tx = None /\ NewAuthority.restored = FALSE
  BY DEF Init, NewAuthority, PublicOf
<1>2. ControlInv
  <2>1. NewAuthority \in Authority /\ PublicOf(NewAuthority) \in PublicState
    BY DEF NewAuthority, Authority, PublicOf, PublicState, Phases
  <2>2. Valid(NewAuthority) /\ Proven(NewAuthority)
    BY DEF NewAuthority, Valid, Proven
  <2>3. /\ PublicOf(NewAuthority).epoch = NewAuthority.epoch
        /\ PublicOf(NewAuthority).phase = NewAuthority.phase
        /\ NewAuthority.epoch = 1
    BY DEF PublicOf, NewAuthority
  <2>4. TypeOK
    BY <1>1, <2>1, <2>2 DEF Init, TypeOK
  <2>5. PublicNeverAhead
    BY <1>1, <2>3 DEF PublicNeverAhead, Rank
  <2>6. QED
    BY <1>1, <2>2, <2>4, <2>5
    DEF Init, ControlInv, AuthorityInv, UnpublishedInv, FloorBeforeAuthority
<1>3. RestoreTypeOK
  BY RestoreConstants DEF Init, RestoreTypeOK, Contents
<1>4. PresentInv /\ WorkerInv
  BY <1>1 DEF Init, PresentInv, WorkerInv
<1>5. HoldInv
  <2>1. {db, files, live["storage"], live["redis"]} = {"live"}
    BY DEF Init, Dirs
  <2>2. QED
    BY <1>1, <2>1, RestoreConstants DEF HoldInv, Untouched, DataSteps, Replacing
<1>6. ProgressInv /\ BoundaryInv
  BY <1>1 DEF Init, ProgressInv, BoundaryInv, DataSteps, Replacing
<1>7. OpenInv
  BY <1>1 DEF OpenInv, ServesProvenData, Ready
<1>8. QueueInv
  BY <1>1, RestoreConstants DEF Init, QueueInv, Queues, Dirs, Replacing
<1>9. QED
  BY <1>2, <1>3, <1>4, <1>5, <1>6, <1>7, <1>8 DEF HostInv

\* Every step keeps the types of the worker's bookkeeping.
LEMMA TypesStep ==
  ASSUME HostInv, [RestoreNext]_vars
  PROVE  RestoreTypeOK'
<1> USE DEF HostInv, RestoreTypeOK
<1>t. /\ Points \subseteq Contents
      /\ {"live", "migrated", "written", "torn", "missing", "empty"} \subseteq Contents
      /\ pc # "idle" => target \in Points
      /\ pc # "idle" => owner \in Transactions
  BY DEF Contents, WorkerInv
<1>s. ASSUME Stop PROVE pc' \in Working \cup {"idle", "held"} /\ interrupts' \in 0 .. MaxInterrupts
  BY <1>s, RestoreConstants DEF Stop
<1>g. ASSUME NEW next \in Working \cup {"idle", "held"}, Go(next)
      PROVE  pc' \in Working \cup {"idle", "held"} /\ interrupts' \in 0 .. MaxInterrupts
  BY <1>g DEF Go
<1>i. ASSUME NEW done, NEW next \in Working \cup {"idle", "held"}, GoIf(done, next)
      PROVE  pc' \in Working \cup {"idle", "held"} /\ interrupts' \in 0 .. MaxInterrupts
  BY <1>i, <1>s, <1>g DEF GoIf
<1>w. /\ Working = {"files", "database", "swap storage", "move storage", "drop storage",
                    "swap redis", "move redis", "drop redis", "complete", "prepare", "drain",
                    "begin", "preserve", "boundary", "resume", "core", "manifest", "open", "serve"}
  BY DEF Working, Replacing
<1> DEFINE Controls == pc' \in Working \cup {"idle", "held"} /\ interrupts' \in 0 .. MaxInterrupts
<1>1. CASE UNCHANGED vars
  BY <1>1 DEF vars, restoreVars
<1>2. ASSUME NEW done \in Writes, DaemonStart(done) PROVE RestoreTypeOK'
  BY <1>2 DEF DaemonStart, restoreVars
<1>3. ASSUME NEW done \in Writes, Prepare(done) PROVE RestoreTypeOK'
  <2>1. Controls
    BY <1>3, <1>s, <1>g, <1>w DEF Prepare
  <2>2. live' \in [Dirs -> Contents]
    BY <1>3, <1>t DEF Prepare, Mounted
  <2>3. QED
    BY <1>3, <2>1, <2>2 DEF Prepare
<1>4. ASSUME NEW done \in Writes,
             BeginRestore(done) \/ CompleteRestore(done) \/ Open(done)
             \/ \E d \in Digests : PrepareCore(d, done) \/ QuarantineRedis(d, done)
      PROVE  RestoreTypeOK'
  <2>1. Controls
    BY <1>4, <1>i, <1>w DEF BeginRestore, CompleteRestore, Open, PrepareCore, QuarantineRedis
  <2>2. misled' \subseteq Dirs
    BY <1>4
    DEF BeginRestore, CompleteRestore, Open, PrepareCore, QuarantineRedis, dataVars, workVars
  <2>3. QED
    BY <1>4, <2>1, <2>2
    DEF BeginRestore, CompleteRestore, Open, PrepareCore, QuarantineRedis, dataVars, workVars
<1>5. ASSUME NEW done \in Writes, StartData(done) PROVE RestoreTypeOK'
  <2>1. Controls /\ running' \subseteq Services
    BY <1>5, <1>s, <1>g, <1>w DEF StartData, Services
  <2>2. QED
    BY <1>5, <2>1 DEF StartData, dataVars, workVars
<1>6. CASE Interrupt
  BY <1>6, <1>s DEF Interrupt, dataVars, workVars
<1>7. CASE Drain \/ RetryResume \/ Serve \/ PersistBoundary
  <2>1. Controls /\ running' \subseteq Services /\ boundary' \subseteq Transactions
    BY <1>7, <1>g, <1>w, <1>t DEF Drain, RetryResume, Serve, PersistBoundary, Services, workVars
  <2>2. QED
    BY <1>7, <2>1 DEF Drain, RetryResume, Serve, PersistBoundary, dataVars, workVars
<1>8. CASE UserWrites
  BY <1>8, <1>t DEF UserWrites, workVars
<1>9. CASE PreserveRedis
  <2>1. Controls
    BY <1>9, <1>g, <1>w DEF PreserveRedis
  <2>2. evidence' \in [1 .. MaxEpoch -> (Contents \ {"missing"}) \cup {None}]
    BY <1>9 DEF PreserveRedis, Dirs
  <2>3. QED
    BY <1>9, <2>1, <2>2 DEF PreserveRedis, workVars
<1>10. CASE ReplaceFiles \/ RestoreDatabase
  <2>1. Controls /\ db' \in Contents /\ files' \in Contents
    BY <1>10, <1>g, <1>s, <1>w, <1>t DEF ReplaceFiles, RestoreDatabase
  <2>2. QED
    BY <1>10, <2>1 DEF ReplaceFiles, RestoreDatabase, workVars
<1>11. ASSUME NEW dir \in Dirs, SettleSwap(dir) \/ MoveAside(dir) \/ MoveIn(dir) \/ DropOld(dir)
       PROVE  RestoreTypeOK'
  <2>1. pc # "idle" /\ target \in Points
    BY <1>11, <1>t DEF SettleSwap, MoveAside, MoveIn, DropOld, Swap, Move, Drop
  <2>2. Controls
    BY <1>11, <1>g, <1>s, <1>w DEF SettleSwap, MoveAside, MoveIn, DropOld, Move, Drop, After
  <2>3. ASSUME NEW c \in Contents
        PROVE  /\ [live EXCEPT ![dir] = c] \in [Dirs -> Contents]
               /\ [old EXCEPT ![dir][target] = c] \in [Dirs -> [Points -> Contents]]
    BY <2>1
  <2>4. live[dir] \in Contents /\ old[dir][target] \in Contents
    BY <2>1
  <2>5. live' \in [Dirs -> Contents] /\ old' \in [Dirs -> [Points -> Contents]]
    <3>1. live' = live \/ \E c \in Contents : live' = [live EXCEPT ![dir] = c]
      BY <1>11, <1>t, <2>1, <2>4 DEF SettleSwap, MoveAside, MoveIn, DropOld
    <3>2. old' = old \/ \E c \in Contents : old' = [old EXCEPT ![dir][target] = c]
      BY <1>11, <1>t, <2>1, <2>4 DEF SettleSwap, MoveAside, MoveIn, DropOld
    <3>3. QED
      BY <2>3, <3>1, <3>2
  <2>6. QED
    BY <1>11, <2>2, <2>5 DEF SettleSwap, MoveAside, MoveIn, DropOld, workVars
<1>12. ASSUME NEW tx \in Transactions, NEW p \in Points, StartRollback(tx, p)
       PROVE  RestoreTypeOK'
  <2>1. Controls /\ running' \subseteq Services
    BY <1>12, <1>g, <1>s, <1>w DEF StartRollback
  <2>2. QED
    BY <1>12, <2>1 DEF StartRollback, dataVars
<1>13. ASSUME NEW tx \in Transactions, NEW p \in Points, NEW d \in Digests, StartRelease(tx, p, d)
       PROVE  RestoreTypeOK'
  <2>1. Controls /\ running' \subseteq Services /\ db' \in Contents
    BY <1>13, <1>g, <1>w, <1>t DEF StartRelease
  <2>2. QED
    BY <1>13, <2>1 DEF StartRelease
<1>14. QED
  BY <1>1, <1>2, <1>3, <1>4, <1>5, <1>6, <1>7, <1>8, <1>9, <1>10, <1>11, <1>12, <1>13, Steps

\* What one control write of a restore may commit.
Later(a) ==
  /\ a.phase = "ready" => authority.phase = "ready"
  /\ a.tx # None => a.epoch \in 1 .. MaxEpoch

StaysPresent == PresentInv' /\ (public'.phase = "ready" => public.phase = "ready")

\* A write that does not set the authority back keeps it present.
LEMMA CommitKeepsPresence ==
  ASSUME ControlInv, PresentInv, NEW a, NEW done \in Writes, Commit(a, done), Later(a)
  PROVE  StaysPresent
<1>1. /\ authority' \in {authority, a}
      /\ public' \in {public, PublicOf(a)}
      /\ authority' # a => public' = public
      /\ marker' /\ a.phase # "absent"
  BY CommitEffect DEF Valid
<1>2. PublicOf(a).phase = a.phase
  BY DEF PublicOf
<1>3. authority'.phase # "absent" /\ public'.phase # "absent"
  BY <1>1, <1>2 DEF PresentInv
<1>4. public'.phase # "ready" => authority'.phase # "ready"
  BY <1>1, <1>2 DEF PresentInv, Later
<1>5. authority'.tx # None => authority'.epoch \in 1 .. MaxEpoch
  BY <1>1 DEF PresentInv, Later
<1>7. public'.phase = "ready" => public.phase = "ready"
  BY <1>1, <1>2 DEF PresentInv, Later
<1>8. QED
  BY <1>1, <1>3, <1>4, <1>5, <1>7 DEF PresentInv, StaysPresent

\* No step sets the authority back or leaves its generations.
LEMMA PresentStep ==
  ASSUME HostInv, [RestoreNext]_vars
  PROVE  StaysPresent
<1> USE DEF HostInv
<1>l. Loaded = authority
  BY DEF Loaded, PresentInv
<1>a. authority \in Authority
  BY DEF ControlInv, TypeOK
<1>s. Later(authority)
  BY DEF Later, PresentInv
<1>u. UNCHANGED controlVars => StaysPresent
  BY DEF controlVars, PresentInv, StaysPresent
<1>1. ASSUME NEW done \in Writes, Initialize(done) PROVE StaysPresent
  BY <1>1, <1>l, <1>s, CommitKeepsPresence DEF Initialize
<1>2. ASSUME NEW done \in Writes,
             DaemonStart(done) \/ Prepare(done) \/ StartData(done)
      PROVE  StaysPresent
  BY <1>2, <1>1 DEF DaemonStart, Prepare, StartData
<1>3. ASSUME NEW done \in Writes, BeginRestore(done) PROVE StaysPresent
  <2> DEFINE b == BeginResult(authority, owner, target, admin)
  <2>1. Commit(b, done) /\ (Owns(authority, owner) \/ authority.epoch < MaxEpoch)
    BY <1>3, <1>l DEF BeginRestore, Begin
  <2>2. Later(b)
    <3>1. CASE Owns(authority, owner)
      BY <3>1, <1>s DEF BeginResult
    <3>2. CASE ~Owns(authority, owner)
      <4>1. b = Generation(authority, owner, target, admin) /\ authority.epoch < MaxEpoch
        BY <2>1, <3>2 DEF BeginResult
      <4>2. b.epoch = authority.epoch + 1 /\ b.phase = "restoring"
        BY <4>1 DEF Generation
      <4>3. b.epoch \in 1 .. MaxEpoch
        BY <4>1, <4>2, <1>a, ControlConstants DEF Authority
      <4>4. QED
        BY <4>2, <4>3 DEF Later
    <3>3. QED
      BY <3>1, <3>2
  <2>3. QED
    BY <2>1, <2>2, CommitKeepsPresence
<1>4. ASSUME NEW done \in Writes, CompleteRestore(done) PROVE StaysPresent
  <2> DEFINE b == [authority EXCEPT !.restored = TRUE, !.phase = "validating"]
  <2>1. Commit(b, done)
    BY <1>4 DEF CompleteRestore, Restored
  <2>2. Later(b)
    BY <1>s, <1>a DEF Later, Authority
  <2>3. QED
    BY <2>1, <2>2, CommitKeepsPresence
<1>5. ASSUME NEW done \in Writes, Open(done) PROVE StaysPresent
  <2> DEFINE b == [authority EXCEPT !.opened = TRUE, !.phase = "http_ready"]
  <2>1. Commit(b, done)
    BY <1>5 DEF Open, OpenHTTP
  <2>2. Later(b)
    BY <1>s, <1>a DEF Later, Authority
  <2>3. QED
    BY <2>1, <2>2, CommitKeepsPresence
<1>6. ASSUME NEW done \in Writes, NEW d \in Digests, PrepareCore(d, done) PROVE StaysPresent
  <2> DEFINE b == [authority EXCEPT !.prep = d]
  <2>1. Commit(b, done)
    BY <1>6 DEF PrepareCore, RecordPreparation
  <2>2. Later(b)
    BY <1>s, <1>a DEF Later, Authority
  <2>3. QED
    BY <2>1, <2>2, CommitKeepsPresence
<1>7. ASSUME NEW done \in Writes, NEW d \in Digests, QuarantineRedis(d, done) PROVE StaysPresent
  <2> DEFINE b == [authority EXCEPT !.redis = d]
  <2>1. Commit(b, done)
    BY <1>7 DEF QuarantineRedis, RecordRedisManifest
  <2>2. Later(b)
    BY <1>s, <1>a DEF Later, Authority
  <2>3. QED
    BY <2>1, <2>2, CommitKeepsPresence
<1>8. ASSUME NEW tx \in Transactions, NEW p \in Points, NEW d \in Digests, StartRelease(tx, p, d)
      PROVE  StaysPresent
  <2>1. UNCHANGED controlVars \/ Commit(authority, 4)
    BY <1>8, <1>l DEF StartRelease, CaptureCheckpoint
  <2>2. 4 \in Writes
    BY DEF Writes
  <2>3. QED
    BY <2>1, <2>2, <1>u, <1>s, CommitKeepsPresence
<1>9. CASE \/ UNCHANGED vars
           \/ Interrupt \/ RetryResume \/ UserWrites \/ Drain \/ PreserveRedis \/ ReplaceFiles
           \/ RestoreDatabase \/ PersistBoundary \/ Serve
  BY <1>9, <1>u DEF vars, Interrupt, RetryResume, UserWrites, Drain, PreserveRedis, ReplaceFiles,
              RestoreDatabase, PersistBoundary, Serve
<1>10. ASSUME NEW dir \in Dirs, SettleSwap(dir) \/ MoveAside(dir) \/ MoveIn(dir) \/ DropOld(dir)
      PROVE  StaysPresent
  BY <1>10, <1>u DEF SettleSwap, MoveAside, MoveIn, DropOld
<1>11. ASSUME NEW tx \in Transactions, NEW p \in Points, StartRollback(tx, p)
      PROVE  StaysPresent
  BY <1>11, <1>u DEF StartRollback
<1>12. QED
  BY <1>2, <1>3, <1>4, <1>5, <1>6, <1>7, <1>8, <1>9, <1>10, <1>11, Steps

\* Where the worker goes.
LEMMA Moves ==
  /\ Stop => pc' = "held"
  /\ \A next : Go(next) => pc' = next
  /\ \A done, next : GoIf(done, next) => pc' = "held" \/ (pc' = next /\ done = 4)
  BY DEF Stop, Go, GoIf

\* Every step leaves the worker with what its position needs, and none takes an
\* operation behind its boundary back to the data.
LEMMA WorkerStep ==
  ASSUME HostInv, [RestoreNext]_vars
  PROVE  WorkerInv' /\ BoundaryInv'
<1> USE Moves DEF HostInv, WorkerInv, BoundaryInv, DataSteps, Replacing
<1>1. CASE UNCHANGED vars
  BY <1>1 DEF vars, restoreVars
<1>2. ASSUME NEW done \in Writes, DaemonStart(done) PROVE WorkerInv' /\ BoundaryInv'
  BY <1>2 DEF DaemonStart, restoreVars
<1>3. ASSUME NEW done \in Writes, Prepare(done) PROVE WorkerInv' /\ BoundaryInv'
  <2>1. authority \in Authority /\ checkpoint \in [Transactions -> Checkpoint \cup {None}]
    BY DEF ControlInv, TypeOK
  <2>2. Owns(authority, owner) => authority.admin \in Digests
    <3>1. Owns(authority, owner) => Valid(authority) /\ authority.tx # None
      BY DEF ControlInv, AuthorityInv, PresentInv, Owns
    <3>2. QED
      BY <2>1, <3>1 DEF Valid, Authority
  <2>3. checkpoint[owner] # None => checkpoint[owner].admin \in Digests
    BY <1>3, <2>1 DEF Prepare, Checkpoint
  <2>4. pc = "prepare" /\ pc' \in {"held", "drain"} /\ UNCHANGED <<owner, target, boundary>>
    BY <1>3 DEF Prepare
  <2>5. pc' = "drain" => admin' \in Digests
    BY <1>3, <2>2, <2>3 DEF Prepare
  <2>6. QED
    BY <2>4, <2>5
<1>4. ASSUME NEW done \in Writes, BeginRestore(done) PROVE WorkerInv' /\ BoundaryInv'
  <2>1. pc = "begin" /\ pc' \in {"held", "boundary", "preserve"}
        /\ UNCHANGED <<owner, target, admin, boundary>>
    BY <1>4 DEF BeginRestore
  <2>2. QED
    BY <2>1
<1>5. ASSUME NEW done \in Writes,
             CompleteRestore(done) \/ Open(done)
             \/ \E d \in Digests : PrepareCore(d, done) \/ QuarantineRedis(d, done)
      PROVE  WorkerInv' /\ BoundaryInv'
  <2>1. pc # "idle" /\ pc' \in {"held", "boundary", "serve", "manifest", "open"} /\ UNCHANGED workVars
    BY <1>5 DEF CompleteRestore, Open, PrepareCore, QuarantineRedis
  <2>2. QED
    BY <2>1 DEF workVars
<1>6. ASSUME NEW done \in Writes, StartData(done) PROVE WorkerInv' /\ BoundaryInv'
  <2>1. pc # "idle" /\ pc' \in {"held", "core", "serve"} /\ UNCHANGED workVars
    BY <1>6 DEF StartData
  <2>2. QED
    BY <2>1 DEF workVars
<1>7. CASE Interrupt \/ RetryResume
  <2>1. pc # "idle" /\ pc' \in {"held", "resume"} /\ UNCHANGED workVars
    BY <1>7 DEF Interrupt, RetryResume, Working
  <2>2. QED
    BY <2>1 DEF workVars
<1>8. CASE UserWrites
  BY <1>8 DEF UserWrites, workVars
<1>9. CASE Drain \/ Serve
  BY <1>9 DEF Drain, Serve, workVars
<1>10. CASE PersistBoundary
  BY <1>10 DEF PersistBoundary
<1>11. CASE PreserveRedis \/ ReplaceFiles \/ RestoreDatabase
  <2>1. /\ pc \in {"preserve", "files", "database"} /\ UNCHANGED workVars
        /\ pc' \in {"held", "files", "database", "swap storage"}
    BY <1>11 DEF PreserveRedis, ReplaceFiles, RestoreDatabase
  <2>2. QED
    BY <2>1 DEF workVars
<1>12. ASSUME NEW dir \in Dirs, SettleSwap(dir) \/ MoveAside(dir) \/ MoveIn(dir) \/ DropOld(dir)
       PROVE  WorkerInv' /\ BoundaryInv'
  <2>1. pc \in Replacing /\ pc' \in (Replacing \cup {"held"}) /\ UNCHANGED workVars
    BY <1>12 DEF SettleSwap, MoveAside, MoveIn, DropOld, Swap, Move, Drop, After
  <2>2. QED
    BY <2>1 DEF workVars
<1>13. ASSUME NEW tx \in Transactions, NEW p \in Points, StartRollback(tx, p)
       PROVE  WorkerInv' /\ BoundaryInv'
  <2>1. pc' \in {"held", "prepare"} /\ owner' = tx /\ target' = p /\ tx \notin boundary'
    BY <1>13 DEF StartRollback
  <2>2. QED
    BY <2>1
<1>14. ASSUME NEW tx \in Transactions, NEW p \in Points, NEW d \in Digests, StartRelease(tx, p, d)
       PROVE  WorkerInv' /\ BoundaryInv'
  <2>1. pc' = "prepare" /\ owner' = tx /\ target' = p /\ tx \notin boundary'
    BY <1>14 DEF StartRelease
  <2>2. QED
    BY <2>1
<1>15. QED
  BY <1>1, <1>2, <1>3, <1>4, <1>5, <1>6, <1>7, <1>8, <1>9, <1>10, <1>11, <1>12, <1>13, <1>14, Steps

\* A restore begins its generation, or finds it.
LEMMA BeginEffect ==
  ASSUME HostInv, NEW done \in Writes, BeginRestore(done)
  PROVE  LET b == BeginResult(authority, owner, target, admin)
         IN /\ b \in Authority /\ Valid(b)
            /\ Owns(b, owner) /\ b.point = target
            /\ ~b.restored => b.phase = "restoring"
            /\ \/ b = authority
               \/ b.phase = "restoring" /\ ~b.restored /\ b.epoch = authority.epoch + 1
            /\ authority' \in {authority, b}
            /\ public' \in {public, PublicOf(b)}
            /\ \/ pc' = "held"
               \/ /\ pc' = IF b.restored THEN "boundary" ELSE "preserve"
                  /\ authority' = b /\ public' = PublicOf(b)
<1> USE DEF HostInv
<1> DEFINE b == BeginResult(authority, owner, target, admin)
<1>1. /\ Loaded = authority /\ authority \in Authority /\ authority.phase # "absent"
      /\ owner \in Transactions /\ target \in Points /\ admin \in Digests
  BY DEF BeginRestore, Loaded, PresentInv, WorkerInv, ControlInv, TypeOK
<1>2. /\ Commit(b, done) /\ CanBegin(authority, owner, target, admin)
      /\ pc' = "held" \/ (pc' = (IF b.restored THEN "boundary" ELSE "preserve") /\ done = 4)
  BY <1>1, Moves DEF BeginRestore, Begin
<1>3. CASE Owns(authority, owner)
  <2>1. b = authority /\ b.point = target
    BY <1>2, <1>3 DEF BeginResult, CanBegin
  <2>2. ~b.restored => b.phase = "restoring"
    BY <1>2, <1>3, <2>1 DEF Commit, Valid, Owns
  <2>3. QED
    BY <1>1, <1>2, <1>3, <2>1, <2>2, CommitEffect
<1>4. CASE ~Owns(authority, owner)
  <2>1. b = Generation(authority, owner, target, admin)
    BY <1>4 DEF BeginResult
  <2>2. b \in Authority
    BY <1>1, <2>1 DEF Generation, Authority, Phases
  <2>3. /\ b.tx = owner /\ b.point = target /\ ~b.restored /\ b.phase = "restoring"
        /\ b.epoch = authority.epoch + 1
    BY <2>1 DEF Generation
  <2>4. Owns(b, owner)
    BY <1>1, <2>3, ControlConstants DEF Owns
  <2>5. QED
    BY <1>2, <2>2, <2>3, <2>4, CommitEffect
<1>5. QED
  BY <1>3, <1>4

\* Data is replaced only under the published hold of this restore.
LEMMA HoldStep ==
  ASSUME HostInv, [RestoreNext]_vars
  PROVE  HoldInv'
<1> USE Moves DEF HostInv, Replacing
<1> DEFINE Held == /\ authority.phase = "restoring" /\ Owns(authority, owner)
                   /\ authority.point = target
                   /\ public = PublicOf(authority)
                   /\ running = {}
           Quiet == pc' \notin DataSteps
<1>p. public'.phase = "ready" => public.phase = "ready"
  BY PresentStep DEF StaysPresent
<1>h. HoldInv <=> (pc \in DataSteps => Held) /\ (public.phase = "ready" => Untouched)
  BY DEF HoldInv, Untouched
<1>k. (pc \in DataSteps => public.phase # "ready")
  <2>1. PublicOf(authority).phase = authority.phase
    BY DEF PublicOf
  <2>2. QED
    BY <1>h, <2>1
<1>d. ASSUME UNCHANGED <<db, files, live>>, public'.phase = "ready" PROVE Untouched'
  <2>1. Untouched
    BY <1>p, <1>h, <1>d
  <2>2. QED
    BY <2>1, <1>d DEF Untouched
<1>q. ASSUME Quiet, UNCHANGED <<db, files, live>> PROVE HoldInv'
  <2>1. public'.phase = "ready" => Untouched'
    BY <1>q, <1>d
  <2>2. QED
    BY <1>q, <2>1 DEF HoldInv, DataSteps
<1>1. CASE UNCHANGED vars
  <2>1. Untouched' = Untouched /\ PublicOf(authority)' = PublicOf(authority)
    BY <1>1 DEF vars, controlVars, restoreVars, Untouched
  <2>2. QED
    BY <1>1, <2>1 DEF vars, controlVars, restoreVars, HoldInv, Owns, DataSteps
<1>2. ASSUME NEW done \in Writes, DaemonStart(done) PROVE HoldInv'
  <2>1. authority' = authority /\ public' \in {public, PublicOf(authority)} /\ UNCHANGED restoreVars
    BY <1>2, InitializeEffect DEF DaemonStart
  <2>2. pc' \in DataSteps => Held'
    BY <2>1, <1>h DEF restoreVars, Owns
  <2>3. QED
    BY <2>1, <2>2, <1>d DEF HoldInv, restoreVars
<1>3. ASSUME NEW done \in Writes, Prepare(done) PROVE HoldInv'
  <2>1. pc' \in {"drain", "held"} /\ live' \in {live, Mounted} /\ UNCHANGED <<db, files>>
    BY <1>3 DEF Prepare
  <2>2. live \in [Dirs -> Contents]
    BY DEF RestoreTypeOK
  <2>3. live'["redis"] = live["redis"] /\ live'["storage"] \in {live["storage"], "empty"}
    BY <2>1, <2>2 DEF Mounted, Dirs
  <2>4. Untouched => Untouched'
    BY <2>1, <2>3, RestoreConstants DEF Untouched
  <2>5. QED
    BY <2>1, <2>4, <1>p, <1>h DEF HoldInv, DataSteps
<1>4. ASSUME NEW done \in Writes, BeginRestore(done) PROVE HoldInv'
  <2> DEFINE b == BeginResult(authority, owner, target, admin)
  <2>1. UNCHANGED <<dataVars, running, owner, target>> /\ running = {}
    BY <1>4 DEF BeginRestore, WorkerInv
  <2>2. /\ Owns(b, owner) /\ b.point = target /\ (~b.restored => b.phase = "restoring")
        /\ pc' = "held" \/ pc' = "boundary"
           \/ (pc' = "preserve" /\ ~b.restored /\ authority' = b /\ public' = PublicOf(b))
    BY <1>4, BeginEffect
  <2>3. pc' \in DataSteps => Held'
    BY <2>1, <2>2 DEF DataSteps, Owns
  <2>4. QED
    BY <2>1, <2>3, <1>d DEF HoldInv, dataVars
<1>5. ASSUME NEW done \in Writes,
             CompleteRestore(done) \/ Open(done)
             \/ \E d \in Digests : PrepareCore(d, done) \/ QuarantineRedis(d, done)
      PROVE  HoldInv'
  <2>1. pc' \in {"held", "boundary", "serve", "manifest", "open"} /\ UNCHANGED dataVars
    BY <1>5 DEF CompleteRestore, Open, PrepareCore, QuarantineRedis
  <2>2. QED
    BY <2>1, <1>q DEF dataVars, DataSteps
<1>6. ASSUME NEW done \in Writes, StartData(done) PROVE HoldInv'
  <2>1. pc' \in {"held", "core", "serve"} /\ UNCHANGED dataVars
    BY <1>6 DEF StartData
  <2>2. QED
    BY <2>1, <1>q DEF dataVars, DataSteps
<1>7. CASE Interrupt \/ RetryResume \/ Drain \/ Serve \/ PersistBoundary
  <2>1. pc' \in {"held", "resume", "begin", "idle"} /\ UNCHANGED dataVars
    BY <1>7 DEF Interrupt, RetryResume, Drain, Serve, PersistBoundary
  <2>2. QED
    BY <2>1, <1>q DEF dataVars, DataSteps
<1>8. CASE UserWrites
  <2>1. pc \notin DataSteps
    BY <1>8, <1>h DEF UserWrites
  <2>2. public'.phase # "ready"
    BY <1>8 DEF UserWrites, controlVars
  <2>3. QED
    BY <1>8, <2>1, <2>2 DEF UserWrites, HoldInv
<1>9. CASE PreserveRedis \/ ReplaceFiles \/ RestoreDatabase
  <2>1. pc \in DataSteps /\ UNCHANGED <<controlVars, running, workVars>>
    BY <1>9 DEF PreserveRedis, ReplaceFiles, RestoreDatabase, DataSteps
  <2>2. Held' /\ public'.phase # "ready"
    BY <2>1, <1>h, <1>k DEF controlVars, workVars, Owns
  <2>3. QED
    BY <2>2 DEF HoldInv
<1>10. ASSUME NEW dir \in Dirs, SettleSwap(dir) \/ MoveAside(dir) \/ MoveIn(dir) \/ DropOld(dir)
       PROVE  HoldInv'
  <2>1. pc \in DataSteps /\ UNCHANGED <<controlVars, running, workVars>>
    BY <1>10 DEF SettleSwap, MoveAside, MoveIn, DropOld, Swap, Move, Drop, DataSteps
  <2>2. Held' /\ public'.phase # "ready"
    BY <2>1, <1>h, <1>k DEF controlVars, workVars, Owns
  <2>3. QED
    BY <2>2 DEF HoldInv
<1>11. ASSUME NEW tx \in Transactions, NEW p \in Points, StartRollback(tx, p)
       PROVE  HoldInv'
  <2>1. pc' \in {"held", "prepare"} /\ UNCHANGED dataVars
    BY <1>11 DEF StartRollback
  <2>2. QED
    BY <2>1, <1>q DEF dataVars, DataSteps
<1>12. ASSUME NEW tx \in Transactions, NEW p \in Points, NEW d \in Digests, StartRelease(tx, p, d)
       PROVE  HoldInv'
  <2>1. pc' = "prepare" /\ db' \in {db, "migrated"} /\ UNCHANGED <<files, live>>
    BY <1>12 DEF StartRelease
  <2>2. Untouched => Untouched'
    BY <2>1, RestoreConstants DEF Untouched
  <2>3. QED
    BY <2>1, <2>2, <1>p, <1>h DEF HoldInv, DataSteps
<1>13. QED
  BY <1>1, <1>2, <1>3, <1>4, <1>5, <1>6, <1>7, <1>8, <1>9, <1>10, <1>11, <1>12, Steps

\* The restore is complete: the authority says so, in private and then in public.
LEMMA CompleteEffect ==
  ASSUME HostInv, NEW done \in Writes, CompleteRestore(done)
  PROVE  LET b == [authority EXCEPT !.restored = TRUE, !.phase = "validating"]
         IN /\ authority' \in {authority, b}
            /\ public' \in {public, PublicOf(b)}
            /\ pc' = "held" \/ (pc' = "boundary" /\ authority' = b /\ public' = PublicOf(b))
<1> DEFINE b == [authority EXCEPT !.restored = TRUE, !.phase = "validating"]
<1>1. Commit(b, done) /\ (pc' = "held" \/ (pc' = "boundary" /\ done = 4))
  BY Moves DEF CompleteRestore, Restored
<1>2. QED
  BY <1>1, CommitEffect DEF HostInv

\* HTTP is opened in private and then in public.
LEMMA OpenEffect ==
  ASSUME HostInv, NEW done \in Writes, Open(done)
  PROVE  LET b == [authority EXCEPT !.opened = TRUE, !.phase = "http_ready"]
         IN /\ authority' \in {authority, b}
            /\ public' \in {public, PublicOf(b)}
            /\ pc' = "held" \/ (pc' = "serve" /\ authority' = b /\ public' = PublicOf(b))
<1> DEFINE b == [authority EXCEPT !.opened = TRUE, !.phase = "http_ready"]
<1>1. Commit(b, done) /\ (pc' = "held" \/ (pc' = "serve" /\ done = 4))
  BY Moves DEF Open, OpenHTTP
<1>2. QED
  BY <1>1, CommitEffect DEF HostInv

\* Recording a proof changes nothing else of the authority.
LEMMA RecordEffect ==
  ASSUME HostInv, NEW done \in Writes, NEW d \in Digests,
         PrepareCore(d, done) \/ QuarantineRedis(d, done)
  PROVE  /\ authority.phase = "validating"
         /\ authority' \in Authority
         /\ \A f \in {"phase", "epoch", "tx", "point", "admin", "restored", "opened"} :
               authority'[f] = authority[f]
         /\ public' \in {public, PublicOf(authority)}
         /\ \/ pc' = "held"
            \/ pc' = "manifest" /\ PrepareCore(d, done)
            \/ pc' = "open" /\ QuarantineRedis(d, done)
<1>a. authority \in Authority
  BY DEF HostInv, ControlInv, TypeOK
<1>1. ASSUME NEW b \in {[authority EXCEPT !.prep = d], [authority EXCEPT !.redis = d]}
      PROVE  /\ b \in Authority
             /\ \A f \in {"phase", "epoch", "tx", "point", "admin", "restored", "opened"} :
                   b[f] = authority[f]
             /\ PublicOf(b) = PublicOf(authority)
  BY <1>a DEF Authority, PublicOf
<1>2. CASE PrepareCore(d, done)
  <2> DEFINE b == [authority EXCEPT !.prep = d]
  <2>1. Commit(b, done) /\ pc' \in {"held", "manifest"} /\ authority.phase = "validating"
    BY <1>2, Moves DEF PrepareCore, RecordPreparation
  <2>2. authority' \in {authority, b} /\ public' \in {public, PublicOf(b)}
    BY <2>1, CommitEffect DEF HostInv
  <2>3. QED
    BY <1>a, <1>1, <1>2, <2>1, <2>2
<1>3. CASE QuarantineRedis(d, done)
  <2> DEFINE b == [authority EXCEPT !.redis = d]
  <2>1. Commit(b, done) /\ pc' \in {"held", "open"} /\ authority.phase = "validating"
    BY <1>3, Moves DEF QuarantineRedis, RecordRedisManifest
  <2>2. authority' \in {authority, b} /\ public' \in {public, PublicOf(b)}
    BY <2>1, CommitEffect DEF HostInv
  <2>3. QED
    BY <1>a, <1>1, <1>3, <2>1, <2>2
<1>4. QED
  BY <1>2, <1>3

\* A release that starts is one before any restore; it changes no authority.
LEMMA ReleaseEffect ==
  ASSUME HostInv, NEW tx \in Transactions, NEW p \in Points, NEW d \in Digests,
         StartRelease(tx, p, d)
  PROVE  /\ authority.phase = "ready" /\ authority' = authority
         /\ public' \in {public, PublicOf(authority)}
<1>1. Loaded = authority
  BY DEF HostInv, PresentInv, Loaded
<1>2. UNCHANGED controlVars \/ Commit(authority, 4)
  BY <1>1 DEF StartRelease, CaptureCheckpoint
<1>3. 4 \in Writes
  BY DEF Writes
<1>4. QED
  BY <1>2, <1>3, CommitEffect DEF StartRelease, Ready, HostInv, controlVars

\* While data is replaced, nothing is restored and nothing answers.
LEMMA ReplacingFacts ==
  ASSUME HostInv, pc \in DataSteps
  PROVE  /\ authority.phase = "restoring" /\ ~authority.restored /\ ~authority.opened
         /\ running = {} /\ target \in Points
  BY DEF HostInv, HoldInv, ControlInv, AuthorityInv, Valid, WorkerInv, DataSteps, Replacing

\* What answers after a restore is opened.
LEMMA ServedFacts ==
  ASSUME HostInv, "http" \in running, authority.phase # "ready"
  PROVE  authority.phase = "http_ready" /\ authority.restored
  BY DEF HostInv, OpenInv, ServesProvenData, Ready, ControlInv, AuthorityInv, Valid, PresentInv

\* Every part that the position of the worker counts as replaced is that of its point.
LEMMA ProgressStep ==
  ASSUME HostInv, [RestoreNext]_vars
  PROVE  ProgressInv'
<1> USE DEF HostInv
<1>a. authority \in Authority
  BY DEF ControlInv, TypeOK
<1>t. live \in [Dirs -> Contents] /\ Dirs = {"storage", "redis"}
  BY DEF RestoreTypeOK, Dirs
<1> DEFINE Late == {"database", "swap storage", "move storage", "drop storage",
                    "swap redis", "move redis", "drop redis", "complete"}
<1>l. Replacing = Late \cup {"files"} /\ DataSteps = Late \cup {"files", "preserve"}
  BY DEF Replacing, DataSteps
<1>q. ASSUME pc' \notin DataSteps, authority' = authority, UNCHANGED <<files, live, misled>>,
             db' = db \/ authority.phase # "validating"
      PROVE  ProgressInv'
  BY <1>q, <1>l DEF ProgressInv
<1>1. CASE UNCHANGED vars
  BY <1>1 DEF vars, controlVars, restoreVars, ProgressInv, Settled
<1>2. ASSUME NEW done \in Writes, DaemonStart(done) PROVE ProgressInv'
  <2>1. authority' = authority /\ UNCHANGED restoreVars
    BY <1>2, InitializeEffect DEF DaemonStart
  <2>2. QED
    BY <2>1 DEF restoreVars, ProgressInv, Settled
<1>3. ASSUME NEW done \in Writes, Prepare(done) PROVE ProgressInv'
  <2>1. pc' \in {"drain", "held"} /\ live' \in {live, Mounted} /\ UNCHANGED <<db, files, misled>>
    BY <1>3, Moves DEF Prepare
  <2>2. authority' = authority
    BY <1>3, InitializeEffect DEF Prepare
  <2>3. live["storage"] # "missing" => live' = live
    BY <2>1, <1>t DEF Mounted
  <2>4. authority.restored => live' = live
    BY <2>3 DEF ProgressInv
  <2>5. authority.phase = "validating" => authority.restored
    BY DEF ControlInv, AuthorityInv, PresentInv, Valid
  <2>6. QED
    BY <2>1, <2>2, <2>4, <2>5, <1>l DEF ProgressInv
<1>4. ASSUME NEW done \in Writes, BeginRestore(done) PROVE ProgressInv'
  <2> DEFINE b == BeginResult(authority, owner, target, admin)
  <2>1. UNCHANGED <<db, files, live, old, target>>
    BY <1>4 DEF BeginRestore, dataVars
  <2>2. /\ b = authority \/ (b.phase = "restoring" /\ ~b.restored)
        /\ ~b.restored => b.phase = "restoring"
        /\ authority' \in {authority, b} /\ pc' \in {"held", "boundary", "preserve"}
        /\ pc' = "preserve" => authority' = b /\ ~b.restored
    BY <1>4, BeginEffect
  <2>3. CASE pc' = "preserve"
    <3>1. misled' = {dir \in Dirs : Misleads(dir)}
      BY <1>4, <2>3 DEF BeginRestore
    <3>2. \A dir \in Dirs : dir \in misled' \/ Settled(dir)'
      BY <2>1, <3>1 DEF Misleads, Settled
    <3>3. authority'.phase = "restoring" /\ ~authority'.restored
      BY <2>2, <2>3
    <3>4. QED
      BY <1>l, <1>t, <2>1, <2>3, <3>2, <3>3 DEF ProgressInv
  <2>4. CASE pc' # "preserve"
    <3>1. misled' = misled
      BY <1>4, <2>4 DEF BeginRestore
    <3>2. QED
      BY <1>l, <2>1, <2>2, <2>4, <3>1 DEF ProgressInv
  <2>5. QED
    BY <2>3, <2>4
<1>5. ASSUME NEW done \in Writes, CompleteRestore(done) PROVE ProgressInv'
  <2> DEFINE b == [authority EXCEPT !.restored = TRUE, !.phase = "validating"]
  <2>1. /\ UNCHANGED <<db, files, live, misled>> /\ pc = "complete"
    BY <1>5 DEF CompleteRestore, dataVars, workVars
  <2>2. /\ authority' \in {authority, b} /\ pc' \in {"held", "boundary"}
    BY <1>5, CompleteEffect
  <2>3. /\ db = b.point /\ files = b.point /\ live["storage"] # "missing" /\ live["redis"] # "missing"
        /\ \A dir \in Dirs \ misled : live[dir] = b.point
    BY <2>1, <1>a, <1>t DEF ProgressInv, HoldInv, DataSteps, Replacing, Authority
  <2>4. QED
    BY <2>1, <2>2, <2>3, <1>l DEF ProgressInv
<1>6. ASSUME NEW done \in Writes, Open(done) PROVE ProgressInv'
  <2> DEFINE b == [authority EXCEPT !.opened = TRUE, !.phase = "http_ready"]
  <2>1. UNCHANGED <<db, files, live, misled>>
    BY <1>6 DEF Open, dataVars, workVars
  <2>2. authority' \in {authority, b} /\ pc' \in {"held", "serve"}
    BY <1>6, OpenEffect
  <2>3. b.phase = "http_ready" /\ b.point = authority.point /\ b.restored = authority.restored
    BY <1>a DEF Authority
  <2>4. QED
    BY <2>1, <2>2, <2>3, <1>l DEF ProgressInv
<1>7. ASSUME NEW done \in Writes, NEW d \in Digests, PrepareCore(d, done) \/ QuarantineRedis(d, done)
      PROVE  ProgressInv'
  <2>1. UNCHANGED <<db, files, live, misled>>
    BY <1>7 DEF PrepareCore, QuarantineRedis, dataVars, workVars
  <2>2. /\ authority'.phase = authority.phase /\ authority'.point = authority.point
        /\ authority'.restored = authority.restored
        /\ pc' \in {"held", "manifest", "open"}
    BY <1>7, RecordEffect
  <2>3. QED
    BY <2>1, <2>2, <1>l DEF ProgressInv
<1>8. ASSUME NEW done \in Writes, StartData(done) PROVE ProgressInv'
  <2>1. pc' \in {"held", "core", "serve"} /\ UNCHANGED <<dataVars, misled>>
    BY <1>8, Moves DEF StartData, workVars
  <2>2. authority' = authority
    BY <1>8, InitializeEffect DEF StartData
  <2>3. QED
    BY <2>1, <2>2, <1>q, <1>l DEF dataVars
<1>9. CASE Interrupt \/ RetryResume \/ Drain \/ Serve \/ PersistBoundary
  <2>1. pc' \in {"held", "resume", "begin", "idle"} /\ UNCHANGED <<controlVars, dataVars, misled>>
    BY <1>9, Moves DEF Interrupt, RetryResume, Drain, Serve, PersistBoundary, workVars
  <2>2. QED
    BY <2>1, <1>q, <1>l DEF dataVars, controlVars
<1>10. CASE UserWrites
  <2>1. /\ UNCHANGED <<controlVars, files, pc, target>> /\ "http" \in running
        /\ live' = [dir \in Dirs |-> "written"] /\ public.phase = "http_ready"
    BY <1>10 DEF UserWrites, workVars
  <2>2. pc \notin DataSteps
    BY <2>1, ReplacingFacts
  <2>3. authority.phase = "http_ready"
    BY <2>1, ServedFacts DEF PresentInv
  <2>4. QED
    BY <2>1, <2>2, <2>3, <1>t, <1>l DEF ProgressInv, controlVars
<1>11. CASE PreserveRedis \/ ReplaceFiles \/ RestoreDatabase
  <2>1. /\ pc \in {"preserve", "files", "database"}
        /\ UNCHANGED <<controlVars, live, old, target, misled>>
    BY <1>11 DEF PreserveRedis, ReplaceFiles, RestoreDatabase, workVars
  <2>2. authority' = authority /\ authority.phase = "restoring" /\ ~authority.restored
    BY <2>1, <1>l, ReplacingFacts DEF controlVars
  <2>3. /\ pc' \in {"held", "files", "database", "swap storage"}
        /\ pc' = "database" => files' = target
        /\ pc' = "swap storage" => files' = target /\ db' = target
    BY <1>11, Moves DEF PreserveRedis, ReplaceFiles, RestoreDatabase, ProgressInv, Replacing
  <2>4. \A dir \in Dirs : dir \in misled' \/ Settled(dir)'
    BY <1>l, <1>t, <2>1 DEF ProgressInv, Settled
  <2>5. QED
    BY <2>1, <2>2, <2>3, <2>4, <1>l, <1>t DEF ProgressInv
<1>12. ASSUME NEW dir \in Dirs, SettleSwap(dir) \/ MoveAside(dir) \/ MoveIn(dir) \/ DropOld(dir)
       PROVE  ProgressInv'
  <2>1. pc \in Late \ {"database"} /\ UNCHANGED <<controlVars, db, files, target, misled>>
    BY <1>12 DEF SettleSwap, MoveAside, MoveIn, DropOld, Swap, Move, Drop, workVars
  <2>2. /\ authority' = authority /\ authority.phase = "restoring" /\ ~authority.restored
        /\ target # "missing" /\ target \in Points
    BY <2>1, <1>l, ReplacingFacts, RestoreConstants DEF controlVars
  <2>3. files = target /\ db = target
    BY <2>1, <1>l DEF ProgressInv
  <2>t. old \in [Dirs -> [Points -> Contents]]
    BY DEF RestoreTypeOK
  <2> DEFINE Here(d) == live[d] # "missing" /\ (d \in misled \/ live[d] = target)
             Clear(d) == d \in misled \/ Settled(d)
  <2>d. /\ pc = Swap(dir) => Clear(dir)
        /\ pc = Drop(dir) => Here(dir)
    BY <1>t, <2>2 DEF ProgressInv, Swap, Drop, DataSteps, Replacing
  <2>n. /\ Swap(dir) \notin {Move(dir), Drop(dir), After(dir), "held"}
        /\ {Drop(dir), After(dir)} \cap {Swap(dir), Move(dir), "held"} = {}
    BY <1>t DEF Swap, Move, Drop, After
  <2>p. /\ pc' \in {"held", Swap(dir), Move(dir), Drop(dir), After(dir)}
        /\ pc' \in {Drop(dir), After(dir)} => Here(dir)'
        /\ pc' = Swap(dir) => Clear(dir)'
    <3>1. CASE SettleSwap(dir)
      <4>1. CASE live[dir] = "missing"
        <5>1. pc' = Swap(dir) /\ old'[dir][target'] = "missing"
          BY <2>1, <2>2, <2>t, <3>1, <4>1, Moves DEF SettleSwap
        <5>2. QED
          BY <2>n, <5>1 DEF Settled
      <4>2. CASE live[dir] # "missing"
        <5>1. pc' = After(dir) /\ live' = live /\ Clear(dir) /\ old[dir][target] # "missing"
          BY <2>d, <3>1, <4>2, Moves DEF SettleSwap
        <5>2. QED
          BY <2>1, <2>n, <4>2, <5>1 DEF Settled
      <4>3. QED
        BY <4>1, <4>2
    <3>2. CASE MoveAside(dir)
      BY <2>n, <3>2, Moves DEF MoveAside
    <3>3. CASE MoveIn(dir)
      <4>1. pc' = "held" \/ (pc' = Drop(dir) /\ live'[dir] = target)
        BY <1>t, <3>3, Moves DEF MoveIn
      <4>2. QED
        BY <2>1, <2>2, <2>n, <4>1
    <3>4. CASE DropOld(dir)
      <4>1. pc = Drop(dir) /\ pc' = After(dir) /\ live' = live
        BY <3>4, Moves DEF DropOld
      <4>2. QED
        BY <2>1, <2>d, <2>n, <4>1
    <3>5. QED
      BY <1>12, <3>1, <3>2, <3>3, <3>4
  <2>o. ASSUME NEW other \in Dirs, other # dir
        PROVE  live'[other] = live[other] /\ old'[other] = old[other]
    BY <1>12, <1>t, <2>t, <2>o DEF SettleSwap, MoveAside, MoveIn, DropOld
  <2>4. CASE dir = "storage"
    <3>1. Clear("redis")
      BY <1>12, <2>4 DEF SettleSwap, MoveAside, MoveIn, DropOld, Swap, Move, Drop, ProgressInv,
                         DataSteps, Replacing
    <3>2. Clear("redis")'
      BY <1>t, <2>1, <2>4, <2>o, <3>1 DEF Settled
    <3>3. QED
      BY <2>1, <2>2, <2>3, <2>4, <2>p, <3>2, <1>l
      DEF ProgressInv, Swap, Move, Drop, After
  <2>5. CASE dir = "redis"
    <3>1. Here("storage")
      BY <1>12, <2>5 DEF SettleSwap, MoveAside, MoveIn, DropOld, Swap, Move, Drop, ProgressInv
    <3>2. Here("storage")'
      BY <1>t, <2>1, <2>5, <2>o, <3>1
    <3>3. QED
      BY <2>1, <2>2, <2>3, <2>5, <2>p, <3>2, <1>l
      DEF ProgressInv, Swap, Move, Drop, After
  <2>6. QED
    BY <1>t, <2>4, <2>5
<1>13. ASSUME NEW tx \in Transactions, NEW p \in Points, StartRollback(tx, p)
       PROVE  ProgressInv'
  <2>1. pc' \in {"held", "prepare"} /\ UNCHANGED <<controlVars, dataVars, misled>>
    BY <1>13, Moves DEF StartRollback
  <2>2. QED
    BY <2>1, <1>q, <1>l DEF dataVars, controlVars
<1>14. ASSUME NEW tx \in Transactions, NEW p \in Points, NEW d \in Digests, StartRelease(tx, p, d)
       PROVE  ProgressInv'
  <2>1. pc' = "prepare" /\ UNCHANGED <<files, live, misled>>
    BY <1>14, Moves DEF StartRelease
  <2>2. QED
    BY <1>14, <2>1, <1>q, <1>l, ReleaseEffect
<1>15. QED
  BY <1>1, <1>2, <1>3, <1>4, <1>5, <1>6, <1>7, <1>8, <1>9, <1>10, <1>11, <1>12, <1>13, <1>14, Steps

\* The proofs are made in their order, within their generation.
LEMMA OpenStep ==
  ASSUME HostInv, [RestoreNext]_vars
  PROVE  OpenInv'
<1> USE DEF HostInv
<1>a. authority \in Authority
  BY DEF ControlInv, TypeOK
<1>v. /\ authority.phase # "absent" /\ Valid(authority)
      /\ authority.phase = "http_ready" <=> authority.opened
  BY DEF ControlInv, AuthorityInv, PresentInv, Valid
<1> DEFINE Proofs == {"core", "manifest", "open", "serve"}
           Published == public' \in {public, PublicOf(authority)}
\* A step outside the proofs, over the same authority.
<1>q. ASSUME authority' = authority, Published, UNCHANGED <<prepared, quarantined, files>>,
             pc' \notin Proofs, running' \subseteq running \/ authority.phase = "ready"
      PROVE  OpenInv'
  BY <1>q DEF OpenInv, ServesProvenData, Ready
<1>1. CASE UNCHANGED vars
  BY <1>1 DEF vars, controlVars, restoreVars, OpenInv, ServesProvenData, Ready, PublicOf
<1>2. ASSUME NEW done \in Writes, DaemonStart(done) PROVE OpenInv'
  <2>1. authority' = authority /\ Published /\ UNCHANGED restoreVars
    BY <1>2, InitializeEffect DEF DaemonStart
  <2>2. QED
    BY <2>1 DEF restoreVars, OpenInv, ServesProvenData, Ready
<1>3. ASSUME NEW done \in Writes, Prepare(done) PROVE OpenInv'
  <2>1. pc' \in {"drain", "held"} /\ UNCHANGED <<prepared, quarantined, files, running>>
    BY <1>3, Moves DEF Prepare, proofVars
  <2>2. authority' = authority /\ Published
    BY <1>3, InitializeEffect DEF Prepare
  <2>3. QED
    BY <2>1, <2>2, <1>q
<1>4. ASSUME NEW done \in Writes, BeginRestore(done) PROVE OpenInv'
  <2> DEFINE b == BeginResult(authority, owner, target, admin)
  <2>1. UNCHANGED <<prepared, quarantined, files>> /\ running' = {}
    BY <1>4 DEF BeginRestore, proofVars, dataVars, WorkerInv
  <2>2. /\ b = authority \/ b.phase = "restoring"
        /\ authority' \in {authority, b} /\ pc' \in {"held", "boundary", "preserve"}
    BY <1>4, BeginEffect
  <2>3. QED
    BY <2>1, <2>2 DEF OpenInv, ServesProvenData
<1>5. ASSUME NEW done \in Writes, CompleteRestore(done) PROVE OpenInv'
  <2> DEFINE b == [authority EXCEPT !.restored = TRUE, !.phase = "validating"]
  <2>1. pc = "complete" /\ UNCHANGED <<running, prepared, quarantined>>
    BY <1>5 DEF CompleteRestore, proofVars
  <2>2. authority.phase = "restoring" /\ running' = {}
    BY <2>1, ReplacingFacts DEF DataSteps, Replacing
  <2>3. /\ authority' \in {authority, b} /\ pc' \in {"held", "boundary"}
    BY <1>5, CompleteEffect
  <2>4. authority'.phase # "http_ready"
    BY <2>2, <2>3, <1>a DEF Authority
  <2>5. QED
    BY <2>2, <2>3, <2>4 DEF OpenInv, ServesProvenData
<1>6. ASSUME NEW done \in Writes, Open(done) PROVE OpenInv'
  <2> DEFINE b == [authority EXCEPT !.opened = TRUE, !.phase = "http_ready"]
  <2>1. pc = "open" /\ UNCHANGED <<running, prepared, quarantined, files>>
    BY <1>6 DEF Open, proofVars, dataVars
  <2>2. /\ authority.phase = "validating" /\ ~authority.opened
        /\ prepared = authority.epoch /\ quarantined = authority.epoch
    BY <2>1, <1>v DEF OpenInv
  <2>3. "http" \notin running /\ "background" \notin running
    BY <2>2, ServedFacts DEF OpenInv, ServesProvenData, Ready
  <2>4. /\ authority' \in {authority, b}
        /\ pc' = "held" \/ (pc' = "serve" /\ authority' = b /\ public' = PublicOf(b))
    BY <1>6, OpenEffect
  <2>5. b.epoch = authority.epoch
    BY <1>a DEF Authority
  <2>6. QED
    BY <2>1, <2>2, <2>3, <2>4, <2>5 DEF OpenInv, ServesProvenData
<1>7. ASSUME NEW done \in Writes, NEW d \in Digests, PrepareCore(d, done) \/ QuarantineRedis(d, done)
      PROVE  OpenInv'
  <2>1. /\ authority'.phase = authority.phase /\ authority'.epoch = authority.epoch
        /\ authority.phase = "validating"
        /\ pc' = "held" \/ (pc' = "manifest" /\ PrepareCore(d, done))
           \/ (pc' = "open" /\ QuarantineRedis(d, done))
    BY <1>7, RecordEffect
  <2>2. "http" \notin running /\ "background" \notin running
    BY <2>1, ServedFacts DEF OpenInv, ServesProvenData, Ready
  <2>3. /\ PrepareCore(d, done) => prepared' = authority.epoch
        /\ QuarantineRedis(d, done) =>
             prepared' = prepared /\ quarantined' = authority.epoch /\ pc = "manifest"
        /\ running' = running
    BY <1>7 DEF PrepareCore, QuarantineRedis
  <2>4. QED
    BY <2>1, <2>2, <2>3 DEF OpenInv, ServesProvenData
<1>8. ASSUME NEW done \in Writes, StartData(done) PROVE OpenInv'
  <2>1. /\ running' \subseteq running \cup {"redis"}
        /\ UNCHANGED <<prepared, quarantined, files>>
        /\ pc' = "held" \/ (done = 4 /\ pc' = IF authority.phase = "validating" THEN "core" ELSE "serve")
    BY <1>8, Moves DEF StartData, proofVars, dataVars, Writes
  <2>2. authority' = authority /\ Published /\ (done = 4 => public' = PublicOf(authority))
    BY <1>8, InitializeEffect DEF StartData
  <2>3. QED
    BY <2>1, <2>2 DEF OpenInv, ServesProvenData, Ready
<1>9. CASE Interrupt \/ RetryResume \/ Drain \/ PersistBoundary \/ PreserveRedis
  <2>1. /\ pc' \in {"held", "resume", "begin", "files"} /\ running' \subseteq running
        /\ UNCHANGED <<authority, public, prepared, quarantined, files>>
    BY <1>9, Moves
    DEF Interrupt, RetryResume, Drain, PersistBoundary, PreserveRedis, controlVars, dataVars, proofVars
  <2>2. QED
    BY <2>1, <1>q
<1>10. CASE Serve
  <2>1. /\ pc = "serve" /\ authority.phase = "http_ready" /\ running' = running \cup {"http"}
        /\ pc' = "idle" /\ UNCHANGED <<authority, public, prepared, quarantined, files>>
    BY <1>10, Moves DEF Serve, controlVars, dataVars, proofVars
  <2>2. authority.restored /\ authority.opened
    BY <2>1, <1>v DEF Valid
  <2>3. files = authority.point
    BY <2>2 DEF ProgressInv
  <2>4. QED
    BY <2>1, <2>2, <2>3 DEF OpenInv, ServesProvenData, Ready
<1>11. CASE UserWrites
  BY <1>11 DEF UserWrites, controlVars, proofVars, OpenInv, ServesProvenData, Ready, PublicOf
<1>12. CASE ReplaceFiles \/ RestoreDatabase
  <2>1. /\ pc \in DataSteps /\ running' = running /\ authority' = authority
        /\ pc' \in {"held", "database", "swap storage"}
    BY <1>12, Moves DEF ReplaceFiles, RestoreDatabase, DataSteps, Replacing, controlVars
  <2>2. authority.phase = "restoring" /\ running = {}
    BY <2>1, ReplacingFacts
  <2>3. QED
    BY <2>1, <2>2 DEF OpenInv, ServesProvenData
<1>13. ASSUME NEW dir \in Dirs, SettleSwap(dir) \/ MoveAside(dir) \/ MoveIn(dir) \/ DropOld(dir)
       PROVE  OpenInv'
  <2>1. pc \in Replacing /\ running' = running /\ authority' = authority
    BY <1>13 DEF SettleSwap, MoveAside, MoveIn, DropOld, Swap, Move, Drop, controlVars, Replacing
  <2>2. pc' \in Replacing \cup {"held"}
    BY <1>13, Moves DEF SettleSwap, MoveAside, MoveIn, DropOld, Swap, Move, Drop, After, Replacing
  <2>3. authority.phase = "restoring" /\ running = {}
    BY <2>1, ReplacingFacts DEF DataSteps
  <2>4. QED
    BY <2>1, <2>2, <2>3 DEF OpenInv, ServesProvenData, Replacing
<1>14. ASSUME NEW tx \in Transactions, NEW p \in Points, StartRollback(tx, p)
       PROVE  OpenInv'
  <2>1. /\ pc' \in {"held", "prepare"} /\ running' \subseteq running
        /\ UNCHANGED <<authority, public, prepared, quarantined, files>>
    BY <1>14, Moves DEF StartRollback, controlVars, dataVars, proofVars
  <2>2. QED
    BY <2>1, <1>q
<1>15. ASSUME NEW tx \in Transactions, NEW p \in Points, NEW d \in Digests, StartRelease(tx, p, d)
       PROVE  OpenInv'
  <2>1. pc' = "prepare" /\ UNCHANGED <<prepared, quarantined, files>>
    BY <1>15, Moves DEF StartRelease, proofVars
  <2>2. QED
    BY <1>15, <2>1, <1>q, ReleaseEffect
<1>16. QED
  BY <1>1, <1>2, <1>3, <1>4, <1>5, <1>6, <1>7, <1>8, <1>9, <1>10, <1>11, <1>12, <1>13, <1>14,
     <1>15, Steps

\* Queues are archived before they can be lost.
LEMMA QueueStep ==
  ASSUME HostInv, [RestoreNext]_vars
  PROVE  QueueInv'
<1> USE DEF HostInv
<1>a. authority \in Authority
  BY DEF ControlInv, TypeOK
<1>t. /\ live \in [Dirs -> Contents] /\ Dirs = {"storage", "redis"}
      /\ old \in [Dirs -> [Points -> Contents]]
      /\ evidence \in [1 .. MaxEpoch -> (Contents \ {"missing"}) \cup {None}]
  BY DEF RestoreTypeOK, Dirs
<1>n. /\ None \notin Contents /\ Queues \cap (Points \cup {"missing", None}) = {}
  BY RestoreConstants, ControlConstants DEF Contents, Queues
\* A step that leaves the queues and their archives alone.
<1>q. ASSUME UNCHANGED <<old, evidence>>, live'["redis"] = live["redis"], authority' = authority,
             pc' \notin Replacing \/ pc' = pc
      PROVE  QueueInv'
  BY <1>q DEF QueueInv, Archived, Replacing
<1>1. CASE UNCHANGED vars
  BY <1>1, <1>q DEF vars, controlVars, restoreVars
<1>2. ASSUME NEW done \in Writes, DaemonStart(done) PROVE QueueInv'
  <2>1. authority' = authority /\ UNCHANGED restoreVars
    BY <1>2, InitializeEffect DEF DaemonStart
  <2>2. QED
    BY <2>1, <1>q DEF restoreVars
<1>3. ASSUME NEW done \in Writes, Prepare(done) PROVE QueueInv'
  <2>1. pc' \in {"drain", "held"} /\ live' \in {live, Mounted} /\ UNCHANGED <<old, evidence>>
    BY <1>3, Moves DEF Prepare
  <2>2. authority' = authority
    BY <1>3, InitializeEffect DEF Prepare
  <2>3. live'["redis"] = live["redis"]
    BY <2>1, <1>t DEF Mounted
  <2>4. QED
    BY <2>1, <2>2, <2>3, <1>q DEF Replacing
<1>4. ASSUME NEW done \in Writes, BeginRestore(done) PROVE QueueInv'
  <2> DEFINE b == BeginResult(authority, owner, target, admin)
  <2>1. UNCHANGED <<old, evidence, live>>
    BY <1>4 DEF BeginRestore, dataVars
  <2>2. /\ b = authority \/ (b.phase = "restoring" /\ ~b.restored /\ b.epoch = authority.epoch + 1)
        /\ b.tx # None
        /\ authority' \in {authority, b} /\ pc' \in {"held", "boundary", "preserve"}
    BY <1>4, BeginEffect DEF Owns
  <2>3. CASE authority' = authority
    BY <2>1, <2>2, <2>3, <1>q DEF Replacing
  <2>4. CASE authority' = b /\ b # authority
    <3>1. authority'.epoch = authority.epoch + 1 /\ authority'.phase = "restoring" /\ ~authority'.restored
      BY <2>2, <2>4
    <3>2. authority'.epoch \in 1 .. MaxEpoch
      BY <2>2, <2>4, PresentStep DEF StaysPresent, PresentInv
    <3>3. \A e \in 1 .. MaxEpoch : e > authority.epoch => evidence[e] = None
      BY DEF QueueInv
    <3>4. authority.epoch \in Nat
      BY <1>a DEF Authority
    <3>5. \A e \in 1 .. MaxEpoch : e >= authority'.epoch => evidence'[e] = None
      BY <2>1, <3>1, <3>3, <3>4
    <3>6. evidence'[authority'.epoch] = None
      BY <3>1, <3>2, <3>4, <3>5
    <3>7. \A e \in 1 .. MaxEpoch : e > authority'.epoch => evidence'[e] = None
      BY <3>1, <3>4, <3>5
    <3>8. \A p \in Points : old'["redis"][p] \in Queues => Archived(old["redis"][p])'
      BY <2>1 DEF QueueInv, Archived
    <3>9. QED
      BY <2>2, <3>1, <3>6, <3>7, <3>8 DEF QueueInv, Replacing
  <2>5. QED
    BY <2>2, <2>3, <2>4
<1>5. ASSUME NEW done \in Writes, CompleteRestore(done) PROVE QueueInv'
  <2> DEFINE b == [authority EXCEPT !.restored = TRUE, !.phase = "validating"]
  <2>1. UNCHANGED <<old, evidence, live>> /\ pc = "complete"
    BY <1>5 DEF CompleteRestore, dataVars
  <2>2. /\ authority' \in {authority, b} /\ pc' \in {"held", "boundary"}
    BY <1>5, CompleteEffect
  <2>3. b.epoch = authority.epoch /\ b.phase = "validating"
    BY <1>a DEF Authority
  <2>4. authority.phase = "restoring" /\ evidence[authority.epoch] # None
    BY <2>1, ReplacingFacts DEF QueueInv, DataSteps, Replacing
  <2>5. live["redis"] = "live" => Archived("live")
    BY <2>4 DEF QueueInv, Queues
  <2>6. QED
    BY <2>1, <2>2, <2>3, <2>5 DEF QueueInv, Archived, Replacing
<1>6. ASSUME NEW done \in Writes, Open(done) PROVE QueueInv'
  <2> DEFINE b == [authority EXCEPT !.opened = TRUE, !.phase = "http_ready"]
  <2>1. UNCHANGED <<old, evidence, live>>
    BY <1>6 DEF Open, dataVars
  <2>2. authority' \in {authority, b} /\ pc' \in {"held", "serve"}
    BY <1>6, OpenEffect
  <2>3. b.phase = "http_ready" /\ b.epoch = authority.epoch /\ b.restored = authority.restored
    BY <1>a DEF Authority
  <2>4. QED
    BY <2>1, <2>2, <2>3 DEF QueueInv, Archived, Replacing
<1>7. ASSUME NEW done \in Writes, NEW d \in Digests, PrepareCore(d, done) \/ QuarantineRedis(d, done)
      PROVE  QueueInv'
  <2>1. UNCHANGED <<old, evidence, live>>
    BY <1>7 DEF PrepareCore, QuarantineRedis, dataVars
  <2>2. /\ authority'.phase = authority.phase /\ authority'.epoch = authority.epoch
        /\ authority'.restored = authority.restored
        /\ pc' \in {"held", "manifest", "open"}
    BY <1>7, RecordEffect
  <2>3. QED
    BY <2>1, <2>2 DEF QueueInv, Archived, Replacing
<1>8. ASSUME NEW done \in Writes, StartData(done) PROVE QueueInv'
  <2>1. pc' \in {"held", "core", "serve"} /\ UNCHANGED dataVars
    BY <1>8, Moves DEF StartData
  <2>2. authority' = authority
    BY <1>8, InitializeEffect DEF StartData
  <2>3. QED
    BY <2>1, <2>2, <1>q DEF dataVars, Replacing
<1>9. CASE Interrupt \/ RetryResume \/ Drain \/ Serve \/ PersistBoundary
  <2>1. pc' \in {"held", "resume", "begin", "idle"} /\ UNCHANGED <<controlVars, dataVars>>
    BY <1>9, Moves DEF Interrupt, RetryResume, Drain, Serve, PersistBoundary
  <2>2. QED
    BY <2>1, <1>q DEF dataVars, controlVars, Replacing
<1>10. CASE UserWrites
  <2>1. /\ UNCHANGED <<authority, pc, old, evidence>> /\ "http" \in running
        /\ live' = [dir \in Dirs |-> "written"] /\ public.phase = "http_ready"
    BY <1>10 DEF UserWrites, controlVars
  <2>2. authority.phase = "http_ready" /\ live'["redis"] = "written"
    BY <2>1, <1>t, ServedFacts DEF PresentInv
  <2>3. pc \notin Replacing
    BY <2>2, ReplacingFacts DEF DataSteps
  <2>4. QED
    BY <2>1, <2>2, <2>3 DEF QueueInv, Archived, Replacing
<1>11. CASE PreserveRedis
  <2>1. /\ pc = "preserve" /\ pc' = "files" /\ UNCHANGED <<authority, live, old>>
        /\ evidence[authority.epoch] = None => live["redis"] # "missing"
        /\ evidence' = [evidence EXCEPT ![authority.epoch] = IF @ = None THEN live["redis"] ELSE @]
    BY <1>11, Moves DEF PreserveRedis, controlVars
  <2>2. authority.phase = "restoring" /\ ~authority.restored /\ authority.tx # None
    BY <2>1, ReplacingFacts DEF HoldInv, DataSteps, Owns
  <2>3. authority.epoch \in 1 .. MaxEpoch
    BY <2>2 DEF PresentInv
  <2>4. /\ evidence'[authority.epoch] =
             IF evidence[authority.epoch] = None THEN live["redis"] ELSE evidence[authority.epoch]
        /\ \A e \in 1 .. MaxEpoch : e # authority.epoch => evidence'[e] = evidence[e]
    BY <2>1, <2>3, <1>t
  <2>5. evidence'[authority.epoch] # None
    BY <2>4, <1>t, <1>n
  <2>6. ASSUME NEW queue \in Queues, Archived(queue) PROVE Archived(queue)'
    BY <2>4, <2>6, <1>n DEF Archived
  <2>7. live["redis"] \in Queues => Archived(live["redis"])'
    <3>1. CASE evidence[authority.epoch] = None
      BY <2>1, <2>3, <2>4, <3>1 DEF Archived
    <3>2. CASE evidence[authority.epoch] # None
      BY <2>1, <2>2, <2>6, <3>2 DEF QueueInv, Archived
    <3>3. QED
      BY <3>1, <3>2
  <2>8. \A e \in 1 .. MaxEpoch : e > authority.epoch => evidence'[e] = None
    <3> SUFFICES ASSUME NEW e \in 1 .. MaxEpoch, e > authority.epoch
                 PROVE  evidence'[e] = None
      OBVIOUS
    <3>1. evidence[e] = None
      BY DEF QueueInv
    <3>2. e # authority.epoch
      BY <2>3
    <3>3. QED
      BY <2>4, <3>1, <3>2
  <2>9. \A p \in Points : old["redis"][p] \in Queues => Archived(old["redis"][p])'
    BY <2>1, <2>6 DEF QueueInv, Archived
  <2>10. QED
    BY <2>1, <2>2, <2>5, <2>7, <2>8, <2>9 DEF QueueInv, Archived
<1>12. CASE ReplaceFiles \/ RestoreDatabase
  <2>1. /\ pc \in Replacing /\ UNCHANGED <<authority, live, old, evidence>>
        /\ pc' \in {"held", "database", "swap storage"}
    BY <1>12, Moves DEF ReplaceFiles, RestoreDatabase, Replacing, controlVars
  <2>2. QED
    BY <2>1 DEF QueueInv, Archived
<1>13. ASSUME NEW dir \in Dirs, SettleSwap(dir) \/ MoveAside(dir) \/ MoveIn(dir) \/ DropOld(dir)
       PROVE  QueueInv'
  <2>1. pc \in Replacing /\ UNCHANGED <<authority, evidence>>
    BY <1>13 DEF SettleSwap, MoveAside, MoveIn, DropOld, Swap, Move, Drop, controlVars, Replacing
  <2>2. /\ authority.phase = "restoring" /\ ~authority.restored /\ target \in Points
        /\ evidence[authority.epoch] # None
    BY <2>1, ReplacingFacts DEF DataSteps, QueueInv
  <2>3. /\ live["redis"] \in Queues => Archived(live["redis"])
        /\ \A p \in Points : old["redis"][p] \in Queues => Archived(old["redis"][p])
    BY <2>2 DEF QueueInv
  <2>4. \A queue : Archived(queue) => Archived(queue)'
    BY <2>1 DEF Archived
  <2>5. live'["redis"] \in {live["redis"], target, "missing", old["redis"][target]}
    BY <1>13, <1>t DEF SettleSwap, MoveAside, MoveIn, DropOld
  <2>6. \A p \in Points : old'["redis"][p] \in {old["redis"][p], live["redis"], "missing"}
    BY <1>13, <1>t, <2>2 DEF SettleSwap, MoveAside, MoveIn, DropOld
  <2>7. live'["redis"] \in Queues => Archived(live["redis"])'
    <3>1. live'["redis"] \in Queues => Archived(live'["redis"])
      BY <2>2, <2>3, <2>5, <1>n
    <3>2. QED
      BY <2>1, <3>1 DEF Archived
  <2>8. \A p \in Points : old'["redis"][p] \in Queues => Archived(old["redis"][p])'
    <3>1. \A p \in Points : old'["redis"][p] \in Queues => Archived(old'["redis"][p])
      BY <2>3, <2>6, <1>n
    <3>2. QED
      BY <2>1, <3>1 DEF Archived
  <2>9. pc' = "move redis" => live'["redis"] = "missing"
    BY <1>13, <1>t, Moves DEF SettleSwap, MoveAside, MoveIn, DropOld, Swap, Move, Drop, After
  <2>10. QED
    BY <2>1, <2>2, <2>7, <2>8, <2>9 DEF QueueInv
<1>14. ASSUME NEW tx \in Transactions, NEW p \in Points, StartRollback(tx, p)
       PROVE  QueueInv'
  <2>1. pc' \in {"held", "prepare"} /\ UNCHANGED <<controlVars, dataVars>>
    BY <1>14, Moves DEF StartRollback
  <2>2. QED
    BY <2>1, <1>q DEF dataVars, controlVars, Replacing
<1>15. ASSUME NEW tx \in Transactions, NEW p \in Points, NEW d \in Digests, StartRelease(tx, p, d)
       PROVE  QueueInv'
  <2>1. pc' = "prepare" /\ UNCHANGED <<old, evidence, live>>
    BY <1>15, Moves DEF StartRelease
  <2>2. QED
    BY <1>15, <2>1, <1>q, ReleaseEffect DEF Replacing
<1>16. QED
  BY <1>1, <1>2, <1>3, <1>4, <1>5, <1>6, <1>7, <1>8, <1>9, <1>10, <1>11, <1>12, <1>13, <1>14,
     <1>15, Steps

\* Every step keeps the inductive invariant.
LEMMA HostStep == HostInv /\ [RestoreNext]_vars => HostInv'
<1> SUFFICES ASSUME HostInv, [RestoreNext]_vars PROVE HostInv'
  OBVIOUS
<1>1. ControlInv'
  <2>1. ControlInv /\ WorkerInv
    BY DEF HostInv
  <2>2. QED
    BY <2>1, ControlStep, StepInv
<1>2. RestoreTypeOK'
  BY TypesStep
<1>3. PresentInv'
  BY PresentStep DEF StaysPresent
<1>4. WorkerInv' /\ BoundaryInv'
  BY WorkerStep
<1>5. HoldInv' /\ ProgressInv'
  BY HoldStep, ProgressStep
<1>6. OpenInv' /\ QueueInv'
  BY OpenStep, QueueStep
<1>7. QED
  BY <1>1, <1>2, <1>3, <1>4, <1>5, <1>6 DEF HostInv

\* The inductive invariant of a host restore, whatever is interrupted and retried
\* (recovery/store.go:254 restoreValidated, host_recovery.go:119 resumeRecovered).
THEOREM HostInvariant == RestoreSpec => []HostInv
  BY HostInitInv, HostStep, PTL DEF RestoreSpec

\* Every step of a restore is, to the durable authority, an operation of the
\* store or no change: what is proved of the store's generations holds of them
\* (recoverycontrol/store.go:196 change).
THEOREM RestoreUsesControl == RestoreSpec => [][Next]_controlVars
<1>1. HostInv /\ [RestoreNext]_vars => [Next]_controlVars
  BY ControlStep DEF HostInv
<1>2. QED
  BY <1>1, HostInvariant, PTL DEF RestoreSpec

\* What holds of the generations of the store holds of a restore: the generation only
\* moves forward, a frozen checkpoint is never replaced, HTTP opens only over restored
\* data with both proofs, and PHP never sees more than what was committed
\* (recoverycontrol/store.go:57, :92, :259, checkpoint.go:27).
THEOREM RestoreKeepsGenerations ==
  RestoreSpec => GenerationMonotone /\ CheckpointFrozen /\ []HTTPNeedsProof /\ []PublicNeverAhead
<1>1. HostInv /\ [RestoreNext]_vars => [Forward]_authority
  BY ControlStep, StepForward DEF HostInv
<1>2. HostInv /\ [RestoreNext]_vars => [Frozen]_checkpoint
  BY ControlStep, StepFreezes DEF HostInv
<1>3. HostInv => HTTPNeedsProof
  BY OpenIsProven DEF HostInv
<1>4. HostInv => PublicNeverAhead
  BY DEF HostInv, ControlInv
<1>5. RestoreSpec => GenerationMonotone
  BY <1>1, HostInvariant, PTL DEF RestoreSpec, GenerationMonotone, Forward
<1>6. RestoreSpec => CheckpointFrozen
  BY <1>2, HostInvariant, PTL DEF RestoreSpec, CheckpointFrozen, Frozen
<1>7. QED
  BY <1>3, <1>4, <1>5, <1>6, HostInvariant, PTL

\* No business data is replaced unless PHP already sees the hold of this generation
\* and nothing that mounts the data is up (recovery/store.go:254 restoreValidated,
\* recoverycontrol/store.go:259), whichever step of whichever restore is interrupted.
THEOREM DataIsReplacedUnderHold == RestoreSpec => []ReplacedUnderHold
<1>1. HostInv => ReplacedUnderHold
  <2> SUFFICES ASSUME HostInv PROVE ReplacedUnderHold
    OBVIOUS
  <2>1. public \in PublicState /\ authority \in Authority /\ authority.phase # "absent"
    BY DEF HostInv, ControlInv, TypeOK, PresentInv
  <2>2. public.phase # "absent"
    BY DEF HostInv, PresentInv
  <2>3. QED
    BY <2>1, <2>2 DEF HostInv, HoldInv, ReplacedUnderHold, Untouched, DataSteps, PublicState, Phases
<1>2. QED
  BY <1>1, HostInvariant, PTL

\* After a restore HTTP answers only from data whose credentials and queues were dealt
\* with in the current generation, and no background service runs (host_recovery.go:119
\* resumeRecovered, bluegreen_helpers.go:363, recovery_runtime.go:34).
THEOREM ServedDataIsProven == RestoreSpec => []ServesProvenData
<1>1. HostInv => ServesProvenData
  BY DEF HostInv, OpenInv
<1>2. QED
  BY <1>1, HostInvariant, PTL

\* A restore that counts as complete has the database and the files of its own point,
\* and so has each directory, unless its swap was settled by a directory that the
\* restore found and that was not the rest of its own (recovery/store.go:299, :698
\* reconcileInterruptedDirectorySwap); none of them is missing.
THEOREM RestoredIsOfItsPoint == RestoreSpec => []RestoredUnlessMisled
<1>1. HostInv => RestoredUnlessMisled
  BY DEF HostInv, ProgressInv, RestoredUnlessMisled, ControlInv, AuthorityInv, PresentInv, Valid
<1>2. QED
  BY <1>1, HostInvariant, PTL

\* What is restored, or resumed, is not replaced again: no retry, crash or late step
\* overwrites what users wrote since (recovery/store.go:299, traffic.go:312).
THEOREM RestoredDataStays == RestoreSpec => RestoredDataIsFinal
<1> DEFINE Final ==
      (authority.restored /\ authority'.epoch = authority.epoch) \/ (owner \in boundary) =>
        \/ db' = db /\ files' = files /\ live' = live
        \/ "http" \in running
        \/ owner' # owner
<1>1. ASSUME HostInv, [RestoreNext]_vars PROVE Final
  <2> SUFFICES ASSUME authority.restored \/ owner \in boundary,
                      db' # db \/ files' # files \/ live' # live
               PROVE  "http" \in running \/ owner' # owner
    OBVIOUS
  <2>r. pc \notin DataSteps
    <3>1. pc \in DataSteps => ~authority.restored
      BY <1>1, ReplacingFacts
    <3>2. QED
      BY <1>1, <3>1 DEF HostInv, BoundaryInv
  <2>1. ASSUME NEW done \in Writes, Prepare(done) PROVE FALSE
    <3>1. owner \notin boundary /\ UNCHANGED <<db, files>> /\ live' \in {live, Mounted}
      BY <1>1, <2>1 DEF Prepare, HostInv, BoundaryInv
    <3>2. live["storage"] # "missing" /\ live \in [Dirs -> Contents]
      BY <1>1, <3>1 DEF HostInv, ProgressInv, RestoreTypeOK
    <3>3. Mounted = live
      BY <3>2 DEF Mounted, Dirs
    <3>4. QED
      BY <3>1, <3>3
  <2>2. ASSUME NEW done \in Writes,
               \/ DaemonStart(done) \/ BeginRestore(done)
               \/ CompleteRestore(done) \/ StartData(done) \/ Open(done)
               \/ \E d \in Digests : PrepareCore(d, done) \/ QuarantineRedis(d, done)
        PROVE  FALSE
    BY <2>2 DEF DaemonStart, BeginRestore, CompleteRestore, StartData, Open, PrepareCore,
                QuarantineRedis, restoreVars, dataVars
  <2>3. CASE \/ UNCHANGED vars \/ Interrupt \/ RetryResume \/ Drain \/ PersistBoundary \/ Serve
             \/ PreserveRedis
    BY <2>3 DEF vars, restoreVars, Interrupt, RetryResume, Drain, PersistBoundary, Serve,
                PreserveRedis, dataVars
  <2>4. CASE ReplaceFiles \/ RestoreDatabase
    BY <2>4, <2>r DEF ReplaceFiles, RestoreDatabase, DataSteps, Replacing
  <2>5. ASSUME NEW dir \in Dirs, SettleSwap(dir) \/ MoveAside(dir) \/ MoveIn(dir) \/ DropOld(dir)
        PROVE  FALSE
    BY <2>5, <2>r DEF SettleSwap, MoveAside, MoveIn, DropOld, Swap, Move, Drop, DataSteps, Replacing
  <2>6. ASSUME NEW tx \in Transactions, NEW p \in Points,
               StartRollback(tx, p) \/ \E d \in Digests : StartRelease(tx, p, d)
        PROVE  owner' # owner
    BY <2>6 DEF StartRollback, StartRelease
  <2>7. CASE UserWrites
    BY <2>7 DEF UserWrites
  <2>8. QED
    BY <1>1, <2>1, <2>2, <2>3, <2>4, <2>5, <2>6, <2>7, Steps
<1>2. HostInv /\ [RestoreNext]_vars => [Final]_vars
  BY <1>1
<1>3. QED
  BY <1>2, HostInvariant, PTL DEF RestoreSpec, RestoredDataIsFinal

\* No step of any restore loses queued jobs that did not come from a point: they are
\* archived before the directory that holds them is moved or dropped
\* (recovery/store.go:351 preserveRedis).
THEOREM QueuesAreKept == RestoreSpec => QueuesKept
<1> DEFINE AllKept == \A queue \in {"live", "written"} : Kept(queue) => Kept(queue)'
<1>1. ASSUME HostInv, [RestoreNext]_vars PROVE AllKept
  <2> SUFFICES ASSUME NEW queue \in Queues, Kept(queue) PROVE Kept(queue)'
    BY DEF Queues
  <2>t. /\ live \in [Dirs -> Contents] /\ Dirs = {"storage", "redis"}
        /\ old \in [Dirs -> [Points -> Contents]]
        /\ evidence \in [1 .. MaxEpoch -> (Contents \ {"missing"}) \cup {None}]
        /\ None \notin Contents /\ queue \notin Points \cup {"missing", None}
    BY <1>1, RestoreConstants, ControlConstants DEF HostInv, RestoreTypeOK, Dirs, Contents, Queues
  <2>k. Archived(queue) => Kept(queue)
    BY DEF Archived, Kept
  <2>a. ASSUME Archived(queue), evidence' = evidence PROVE Kept(queue)'
    BY <2>a DEF Archived, Kept
  <2>s. ASSUME UNCHANGED <<old, evidence>>, live'["redis"] = live["redis"] PROVE Kept(queue)'
    BY <2>s DEF Kept
  <2>1. ASSUME NEW done \in Writes, Prepare(done) PROVE Kept(queue)'
    <3>1. live' \in {live, Mounted} /\ UNCHANGED <<old, evidence>>
      BY <2>1 DEF Prepare
    <3>2. live'["redis"] = live["redis"]
      BY <3>1, <2>t DEF Mounted
    <3>3. QED
      BY <3>1, <3>2, <2>s
  <2>2. ASSUME NEW done \in Writes,
               \/ DaemonStart(done) \/ BeginRestore(done)
               \/ CompleteRestore(done) \/ StartData(done) \/ Open(done)
               \/ \E d \in Digests : PrepareCore(d, done) \/ QuarantineRedis(d, done)
        PROVE  Kept(queue)'
    BY <2>2, <2>s DEF DaemonStart, BeginRestore, CompleteRestore, StartData, Open, PrepareCore,
                QuarantineRedis, restoreVars, dataVars
  <2>3. CASE \/ UNCHANGED vars \/ Interrupt \/ RetryResume \/ Drain \/ PersistBoundary \/ Serve
             \/ ReplaceFiles \/ RestoreDatabase
    BY <2>3, <2>s DEF vars, restoreVars, Interrupt, RetryResume, Drain, PersistBoundary, Serve,
                ReplaceFiles, RestoreDatabase, dataVars
  <2>4. CASE PreserveRedis
    <3>1. /\ UNCHANGED <<live, old>>
          /\ \A e \in 1 .. MaxEpoch : evidence[e] # None => evidence'[e] = evidence[e]
      BY <2>4, <2>t DEF PreserveRedis
    <3>2. QED
      BY <3>1, <2>t DEF Kept
  <2>5. CASE UserWrites
    <3>1. UNCHANGED <<old, evidence>> /\ live'["redis"] = "written"
      BY <2>5, <2>t DEF UserWrites
    <3>2. authority.restored
      BY <1>1, <2>5, ServedFacts DEF UserWrites, HostInv, PresentInv
    <3>3. live["redis"] = "live" => Archived("live")
      BY <1>1, <3>2 DEF HostInv, QueueInv
    <3>4. QED
      BY <3>1, <3>3, <2>a DEF Kept, Queues
  <2>6. ASSUME NEW dir \in Dirs, SettleSwap(dir) \/ MoveAside(dir) \/ MoveIn(dir) \/ DropOld(dir)
        PROVE  Kept(queue)'
    <3>1. pc \in Replacing /\ evidence' = evidence
      BY <2>6 DEF SettleSwap, MoveAside, MoveIn, DropOld, Swap, Move, Drop, Replacing
    <3>2. authority.phase = "restoring" /\ evidence[authority.epoch] # None
      BY <1>1, <3>1, ReplacingFacts DEF DataSteps, HostInv, QueueInv
    <3>3. Archived(queue)
      BY <1>1, <3>2 DEF HostInv, QueueInv, Kept, Archived
    <3>4. QED
      BY <3>1, <3>3, <2>a
  <2>7. ASSUME NEW tx \in Transactions, NEW p \in Points,
               StartRollback(tx, p) \/ \E d \in Digests : StartRelease(tx, p, d)
        PROVE  Kept(queue)'
    BY <2>7, <2>s DEF StartRollback, StartRelease, dataVars
  <2>8. QED
    BY <1>1, <2>1, <2>2, <2>3, <2>4, <2>5, <2>6, <2>7, Steps
<1>2. HostInv /\ [RestoreNext]_vars => [AllKept]_vars
  BY <1>1
<1>3. QED
  BY <1>2, HostInvariant, PTL DEF RestoreSpec, QueuesKept

=============================================================================
