--------------------------- MODULE RecoveryControl ---------------------------
(***************************************************************************)
(* The durable authority over restore generations                          *)
(* (internal/recoverycontrol).  Outside every business snapshot the host   *)
(* keeps a private authority.json, a public state.json that the PHP        *)
(* containers read through a read-only bind, a marker that the authority   *)
(* was once created, the updater protocol floor, and one frozen            *)
(* administrator checkpoint per transaction.  Store.change runs under an   *)
(* exclusive flock, so two changes never interleave; what can happen is    *)
(* that the process dies, or a write fails, between two of its durable     *)
(* writes, and that a PHP reader, who takes no lock, looks at that moment. *)
(***************************************************************************)
EXTENDS Naturals

CONSTANTS
  Transactions,  \* operation identifiers that may own a restore
  Points,        \* recovery point identifiers
  Digests,       \* sha256 values: administrators, preparation, manifest
  None,          \* an absent identifier (Go nil or "")
  MaxEpoch       \* bound: restore generations explored

ASSUME ControlConstants ==
  /\ None \notin Transactions
  /\ None \notin Points
  /\ None \notin Digests
  /\ MaxEpoch \in Nat

VARIABLES
  authority,     \* authority.json; phase "absent" when the file does not exist
  public,        \* public/state.json, the part PHP can read
  marker,        \* the "initialized" file exists
  floor,         \* minimum-updater-protocol; 0 when the file does not exist
  checkpoint     \* checkpoints/<transaction>.json

controlVars == <<authority, public, marker, floor, checkpoint>>

MinimumProtocol == 5

Phases == {"absent", "ready", "restoring", "validating", "http_ready"}

Rank(phase) ==
  CASE phase = "absent"     -> 0
    [] phase = "ready"      -> 1
    [] phase = "restoring"  -> 2
    [] phase = "validating" -> 3
    [] phase = "http_ready" -> 4

Authority ==
  [phase : Phases, epoch : Nat, tx : Transactions \cup {None},
   point : Points \cup {None}, admin : Digests \cup {None},
   restored : BOOLEAN, opened : BOOLEAN,
   redis : Digests \cup {None}, prep : Digests \cup {None}]

PublicState ==
  [phase : Phases, epoch : Nat, tx : Transactions \cup {None}]

Checkpoint == [point : Points, admin : Digests]

NoAuthority ==
  [phase |-> "absent", epoch |-> 0, tx |-> None, point |-> None, admin |-> None,
   restored |-> FALSE, opened |-> FALSE, redis |-> None, prep |-> None]

\* A new authority names no transaction.  Epochs are random identifiers in the
\* code; the model numbers them in the order they become durable.
NewAuthority ==
  [phase |-> "ready", epoch |-> 1, tx |-> None, point |-> None, admin |-> None,
   restored |-> FALSE, opened |-> FALSE, redis |-> None, prep |-> None]

PublicOf(a) == [phase |-> a.phase, epoch |-> a.epoch, tx |-> a.tx]

\* validate() at the end of Read and before every write.
Valid(a) ==
  \/ /\ a.phase = "ready"
     /\ a.tx = None /\ a.point = None
     /\ ~a.restored /\ ~a.opened
  \/ /\ a.phase \in {"restoring", "validating", "http_ready"}
     /\ a.tx # None /\ a.point # None /\ a.admin # None
     /\ a.restored <=> a.phase # "restoring"
     /\ a.opened <=> a.phase = "http_ready"

--------------------
(* Store.change: read, mutate, validate, then four durable writes in order. *)

\* How many of the durable writes of one change happened before it ended: the
\* floor, the marker, the authority, the public state.  Only 4 is success; any
\* other number is an error or the death of the process at that point.
Writes == 0 .. 4

\* Faulty: forgets the marker.
UnguardedLoadable(initialize) == authority.phase # "absent" \/ initialize

\* The authority a change starts from.  A missing file may be created only by
\* a caller that initializes, and only if the marker says it never existed.
Loadable(initialize) ==
  authority.phase # "absent" \/ (initialize /\ ~marker)

Loaded == IF authority.phase = "absent" THEN NewAuthority ELSE authority

\* Faulty forms of Commit, kept to show which property would notice them: the
\* public copy written first, the floor last, the file rewritten in place.
PublicFirst(a, done) ==
  /\ floor' = IF done >= 1 THEN MinimumProtocol ELSE floor
  /\ marker' = (marker \/ (authority.phase = "absent" /\ done >= 2))
  /\ public' = IF done >= 3 THEN PublicOf(a) ELSE public
  /\ authority' = IF done = 4 THEN a ELSE authority

RewrittenInPlace(a, done) ==
  /\ floor' = IF done >= 1 THEN MinimumProtocol ELSE floor
  /\ marker' = (marker \/ (authority.phase = "absent" /\ done >= 2))
  /\ authority' = IF done = 4 THEN a ELSE IF done = 3 THEN [authority EXCEPT !.phase = a.phase] ELSE authority
  /\ public' = IF done = 4 THEN PublicOf(a) ELSE public

\* The authority is committed before the public copy, and both are rewritten
\* even when the mutation changed nothing.
Commit(a, done) ==
  /\ Valid(a)
  /\ floor' = IF done >= 1 THEN MinimumProtocol ELSE floor
  /\ marker' = (marker \/ (authority.phase = "absent" /\ done >= 2))
  /\ authority' = IF done >= 3 THEN a ELSE authority
  /\ public' = IF done = 4 THEN PublicOf(a) ELSE public

--------------------
(* The operations of the store.                                            *)

Owns(a, tx) == a.tx # None /\ a.tx = tx

\* Startup, enrollment, prepareRestore and every generated runtime overlay.
Initialize(done) ==
  /\ Loadable(TRUE)
  /\ Commit(Loaded, done)
  /\ UNCHANGED checkpoint

\* A new transaction starts a new generation; the current one keeps its own,
\* provided it names the same point and administrators.
Generation(a, tx, p, d) ==
  [phase |-> "restoring", epoch |-> a.epoch + 1, tx |-> tx, point |-> p,
   admin |-> d, restored |-> FALSE, opened |-> FALSE, redis |-> None, prep |-> None]

\* Faulty: a retry rotates the generation.
AlwaysNewGeneration(a, tx, p, d) == Generation(a, tx, p, d)

BeginResult(a, tx, p, d) == IF Owns(a, tx) THEN a ELSE Generation(a, tx, p, d)

CanBegin(a, tx, p, d) == Owns(a, tx) => a.point = p /\ a.admin = d

Begin(tx, p, d, done) ==
  /\ Loadable(TRUE)
  /\ Owns(Loaded, tx) \/ Loaded.epoch < MaxEpoch
  /\ CanBegin(Loaded, tx, p, d)
  /\ Commit(BeginResult(Loaded, tx, p, d), done)
  /\ UNCHANGED checkpoint

Restored(tx, done) ==
  /\ Loadable(FALSE)
  /\ Owns(authority, tx)
  /\ authority.phase = "restoring"
  /\ Commit([authority EXCEPT !.restored = TRUE, !.phase = "validating"], done)
  /\ UNCHANGED checkpoint

\* Faulty: forgets the queue manifest.
CanOpenWithoutManifest(tx) ==
  /\ Owns(authority, tx)
  /\ authority.restored
  /\ authority.prep # None
  /\ authority.phase \in {"validating", "http_ready"}

CanOpen(tx) ==
  /\ Owns(authority, tx)
  /\ authority.restored
  /\ authority.redis # None
  /\ authority.prep # None
  /\ authority.phase \in {"validating", "http_ready"}

OpenHTTP(tx, done) ==
  /\ Loadable(FALSE)
  /\ CanOpen(tx)
  /\ Commit([authority EXCEPT !.opened = TRUE, !.phase = "http_ready"], done)
  /\ UNCHANGED checkpoint

\* A recorded digest may be recorded again but never replaced.
CanRecord(recorded, digest) == recorded \in {None, digest}

RecordPreparation(tx, digest, done) ==
  /\ Loadable(FALSE)
  /\ Owns(authority, tx)
  /\ authority.phase = "validating"
  /\ CanRecord(authority.prep, digest)
  /\ Commit([authority EXCEPT !.prep = digest], done)
  /\ UNCHANGED checkpoint

RecordRedisManifest(tx, digest, done) ==
  /\ Loadable(FALSE)
  /\ Owns(authority, tx)
  /\ authority.phase = "validating"
  /\ CanRecord(authority.redis, digest)
  /\ Commit([authority EXCEPT !.redis = digest], done)
  /\ UNCHANGED checkpoint

\* Faulty: the digest is frozen again on every call.
RecapturesAnything(tx, p, d) == TRUE

\* The checkpoint file is written inside the mutation, so before the authority
\* is rewritten and, for a first change, after the marker.  A transaction whose
\* checkpoint names another point or digest is refused.
CanCapture(tx, p, d) ==
  checkpoint[tx] = None \/ checkpoint[tx] = [point |-> p, admin |-> d]

CaptureCheckpoint(tx, p, d, done) ==
  /\ Loadable(TRUE)
  /\ Loaded.phase = "ready"
  /\ CanCapture(tx, p, d)
  /\ Commit(Loaded, done)
  /\ \/ /\ authority.phase = "absent" => done >= 2
        /\ checkpoint' = [checkpoint EXCEPT ![tx] = [point |-> p, admin |-> d]]
     \/ /\ IF authority.phase = "absent" THEN done <= 2 ELSE done = 0
        /\ UNCHANGED checkpoint

\* Not an operation of the program: the private file is lost (disk repair, an
\* operator's mistake).  The program may not invent a new authority then.
LoseAuthority ==
  /\ authority.phase # "absent"
  /\ authority' = NoAuthority
  /\ UNCHANGED <<public, marker, floor, checkpoint>>

--------------------

ControlInit ==
  /\ authority = NoAuthority
  /\ public = PublicOf(NoAuthority)
  /\ marker = FALSE
  /\ floor = 0
  /\ checkpoint = [tx \in Transactions |-> None]

Next ==
  \/ \E done \in Writes :
       \/ Initialize(done)
       \/ \E tx \in Transactions :
            \/ \E p \in Points, d \in Digests : Begin(tx, p, d, done)
            \/ \E p \in Points, d \in Digests : CaptureCheckpoint(tx, p, d, done)
            \/ Restored(tx, done)
            \/ OpenHTTP(tx, done)
            \/ \E d \in Digests : RecordPreparation(tx, d, done)
            \/ \E d \in Digests : RecordRedisManifest(tx, d, done)
  \/ LoseAuthority

Spec == ControlInit /\ [][Next]_controlVars

--------------------
(* Properties                                                              *)

\* Every durable file stays within its type, and an existing authority is one
\* that Read's own validation accepts: no sequence of calls and partial writes
\* leaves a file that stops every later call (store.go:167 validate).
TypeOK ==
  /\ authority \in Authority
  /\ public \in PublicState
  /\ marker \in BOOLEAN
  /\ floor \in {0, MinimumProtocol}
  /\ checkpoint \in [Transactions -> Checkpoint \cup {None}]
  /\ authority.phase = "absent" \/ Valid(authority)

\* What PHP reads never runs ahead of the private authority: a reader that sees
\* http_ready, or a generation, sees one that was committed privately before,
\* at whatever write the change stopped (store.go:259 "Authority is committed
\* first").
PublicNeverAhead ==
  authority.phase # "absent" =>
    /\ public.epoch <= authority.epoch
    /\ public.epoch = authority.epoch =>
         Rank(public.phase) <= Rank(authority.phase)

\* HTTP is open in a generation, in either file, only with the data restored and
\* both proofs recorded for that generation (store.go:92 OpenHTTP); a proof of
\* an earlier generation never counts.
HTTPNeedsProof ==
  /\ authority.opened =>
       authority.restored /\ authority.prep # None /\ authority.redis # None
  /\ authority.phase # "absent" /\ public.phase = "http_ready"
       /\ public.epoch = authority.epoch => authority.opened

\* An updater of an older protocol is refused as soon as any authority exists,
\* even one whose creation was cut short: floor and marker are durable before
\* the first authority file (store.go:233-236).
FloorBeforeAuthority ==
  authority.phase # "absent" => marker /\ floor = MinimumProtocol

\* Once created, an authority never returns to ready and never starts over: a
\* step keeps the generation and only moves it forward with its identity and its
\* recorded proofs unchanged, or starts the next generation for another
\* transaction, or loses the file (store.go:57 Begin, 79 Restored, 92 OpenHTTP).
GenerationMonotone ==
  [][ authority.phase # "absent" /\ authority'.phase # "absent" =>
        \/ /\ authority'.epoch = authority.epoch
           /\ authority'.tx = authority.tx
           /\ authority'.point = authority.point
           /\ authority'.admin = authority.admin
           /\ Rank(authority'.phase) >= Rank(authority.phase)
           /\ authority.restored => authority'.restored
           /\ authority.prep # None => authority'.prep = authority.prep
           /\ authority.redis # None => authority'.redis = authority.redis
        \/ /\ authority'.epoch > authority.epoch
           /\ authority'.phase = "restoring"
           /\ authority'.tx # authority.tx
           /\ authority'.prep = None /\ authority'.redis = None
    ]_authority

\* Lost authority stops recovery: after the marker exists no call recreates a
\* missing authority, so restored data can never be declared ready by a fresh
\* file (docs/recovery-contract.md "Lost or corrupt initialized authority stops
\* recovery"; store.go:221).
LostAuthorityStaysClosed ==
  [][ marker /\ authority.phase = "absent" =>
        authority'.phase = "absent" /\ public' = public ]_controlVars

\* The administrators frozen before a migration are never replaced by what a
\* later, already changed, database reports (checkpoint.go:27 CaptureCheckpoint).
CheckpointFrozen ==
  [][ \A tx \in Transactions :
        checkpoint[tx] # None => checkpoint'[tx] = checkpoint[tx] ]_checkpoint
==============================================================================
