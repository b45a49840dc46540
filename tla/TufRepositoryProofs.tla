------------------------- MODULE TufRepositoryProofs -------------------------
(***************************************************************************)
(* Proof that what timestamp.json names is always complete, and that a site  *)
(* never resolves an older release than before: for any number of releases   *)
(* and of interrupted runs.                                                 *)
(*                                                                         *)
(* Versions alone do not order the releases: an abandoned run may leave a     *)
(* whole targets file of a release above one that is published after it.     *)
(* Those that the client has seen are ordered, because each was live.        *)
(***************************************************************************)
EXTENDS TufRepository, TLAPS, WellFoundedInduction

\* The shapes of the files, of the run and of the client.
Shapes ==
    /\ timestamp = [version |-> timestamp.version, snapshot |-> timestamp.snapshot]
    /\ timestamp.version \in Nat /\ timestamp.snapshot \in Versions
    /\ snapshots \in [Versions -> Versions \cup {Torn, Absent}]
    /\ targets \in [Versions -> Releases \cup {Torn, Absent}]
    /\ job \in [step : {"none", "compose", "manifest", "targets", "snapshot", "timestamp"},
                release : Nat, targets : Nat, snapshot : Nat]
    /\ job # Idle => job.step # "none" /\ job.release \in Releases
                     /\ job.targets \in Versions /\ job.snapshot \in Versions
    /\ trusted \in [timestamp : Nat, snapshot : Versions, targets : Versions]
    /\ reader \in [step : {"none", "snapshot", "targets", "manifest", "compose"}, version : Nat]
    /\ resolved \in Nat

\* What a run has written before it names it, and nothing that it writes is live.
Prepared ==
    /\ job.step \in {"compose", "manifest", "targets", "snapshot"} => job.snapshot > timestamp.snapshot
    /\ job.step \in {"compose", "manifest"} => job.release > LiveRelease
    /\ job.step \in {"targets", "snapshot", "timestamp"} => Manifest(job.release) \in files
    /\ job.step \in {"compose", "manifest", "targets"} => job.targets > LiveTargets
    /\ job.step \in {"snapshot", "timestamp"} =>
         job.targets >= LiveTargets /\ targets[job.targets] = job.release
    /\ job.step = "timestamp" =>
         job.snapshot > timestamp.snapshot /\ snapshots[job.snapshot] = job.targets
    /\ job # Idle => job.release >= LiveRelease

\* What the client has verified was live, and it does not go back.
Followed ==
    /\ trusted.snapshot <= timestamp.snapshot
    /\ trusted.targets <= LiveTargets
    /\ targets[trusted.targets] \in Releases /\ targets[trusted.targets] <= LiveRelease
    /\ resolved <= targets[trusted.targets]

\* What it reads next was live after what it has verified.
Reading ==
    /\ reader.step = "snapshot" =>
         /\ reader.version \in Versions
         /\ snapshots[reader.version] \in Versions
         /\ snapshots[reader.version] <= LiveTargets
         /\ targets[snapshots[reader.version]] \in Releases
         /\ targets[snapshots[reader.version]] <= LiveRelease
         /\ targets[trusted.targets] <= targets[snapshots[reader.version]]
    /\ reader.step = "targets" => reader.version = trusted.targets
    /\ reader.step \in {"manifest", "compose"} => reader.version = targets[trusted.targets]

RepositoryInv == LiveIsWhole /\ Prepared
ClientInv == Followed /\ Reading

\* What is written is never changed, and what is live only advances.
Advances ==
    /\ \A v \in Versions : snapshots[v] \in Versions => snapshots'[v] = snapshots[v]
    /\ \A v \in Versions : targets[v] \in Releases => targets'[v] = targets[v]
    /\ timestamp'.snapshot >= timestamp.snapshot
    /\ LiveTargets' \in Versions /\ LiveTargets' >= LiveTargets
    /\ LiveRelease' \in Releases /\ LiveRelease' >= LiveRelease

--------------------
\* The markers of missing and incomplete files are no versions and no releases.
LEMMA Ranges ==
    /\ Versions \subseteq Nat /\ Releases \subseteq Nat
    /\ Absent \notin Versions /\ Absent \notin Releases
    /\ Torn \notin Versions /\ Torn \notin Releases /\ Torn # Absent
BY TufConstants DEF Versions, Releases, Absent, Torn

\* A set of naturals that is not empty has a least member.
LEMMA LeastNat == ASSUME NEW T, T \subseteq Nat, T # {} PROVE \E x \in T : \A y \in T : x <= y
<1> DEFINE R == OpToRel(<, Nat)
<1>1. IsWellFoundedOn(R, Nat)
  BY NatLessThanWellFounded
<1> HIDE DEF R
<1>2. PICK x \in T : \A y \in T : ~(<<y, x>> \in R)
  BY <1>1, WFMin, Zenon
<1>3. \A y \in T : ~(y < x)
  BY <1>2 DEF R, OpToRel
<1>4. QED
  BY <1>3

\* nextMetadataVersion is above the live version.
LEMMA NextIsAbove ==
    ASSUME NEW kind, NEW live \in Versions
    PROVE NextVersion(kind, live) \in Nat /\ NextVersion(kind, live) > live
<1> DEFINE S == {live} \cup {v \in Versions : kind[v] # Absent}
<1>1. S \subseteq 0 .. MaxVersion /\ live \in S /\ MaxVersion \in Nat
  BY TufConstants DEF Versions
<1>2. NextVersion(kind, live) = Max(S) + 1
  BY DEF NextVersion
<1> HIDE DEF S
<1>3. Max(S) \in S /\ live <= Max(S)
  <2> DEFINE T == {MaxVersion - v : v \in S}
  <2>1. T \subseteq Nat /\ T # {}
    BY <1>1
  <2>2. PICK x \in T : \A y \in T : x <= y
    BY <2>1, LeastNat
  <2>3. PICK v \in S : x = MaxVersion - v
    OBVIOUS
  <2>4. \A u \in S : MaxVersion - v <= MaxVersion - u
    BY <2>2, <2>3
  <2>5. \A u \in S : v >= u
    BY <1>1, <2>4
  <2>6. Max(S) \in S /\ \A u \in S : Max(S) >= u
    BY <2>5 DEF Max
  <2>7. QED
    BY <1>1, <2>6
<1>4. Max(S) \in 0 .. MaxVersion /\ live \in 0 .. MaxVersion
  BY <1>1, <1>3
<1>5. QED
  BY <1>2, <1>3, <1>4

\* The repository that was initialized with release 1 is whole.
LEMMA InitTuf == Init => Shapes /\ RepositoryInv /\ ClientInv
<1> SUFFICES ASSUME Init PROVE Shapes /\ RepositoryInv /\ ClientInv
  OBVIOUS
<1> USE TufConstants DEF Init, Versions, Releases, Torn, Absent, Idle, Resting
<1>1. Shapes
  BY DEF Shapes
<1>2. RepositoryInv
  BY DEF RepositoryInv, LiveIsWhole, Loads, LiveTargets, LiveRelease, Prepared
<1>3. ClientInv
  BY DEF ClientInv, Followed, Reading, LiveTargets, LiveRelease
<1>4. QED
  BY <1>1, <1>2, <1>3

\* Every step keeps the shapes.
LEMMA StepShapes == Shapes /\ RepositoryInv /\ ClientInv /\ [Next]_vars => Shapes'
<1> SUFFICES ASSUME Shapes, RepositoryInv, ClientInv, [Next]_vars PROVE Shapes'
  OBVIOUS
<1> USE Ranges DEF Shapes, repository, client, Idle, Resting
<1>1. ASSUME NEW r \in Releases, Publish(r) PROVE Shapes'
  <2>1. LiveTargets \in Versions
    BY <1>1 DEF Publish, Loads
  <2>2. QED
    BY <1>1, <2>1 DEF Publish
<1>2. CASE Refresh
  <2>1. LiveRelease \in Releases /\ NextVersion(targets, LiveTargets) \in Versions
        /\ NextVersion(snapshots, timestamp.snapshot) \in Versions
    BY <1>2 DEF Refresh, Loads
  <2>2. UNCHANGED <<timestamp, snapshots, targets, trusted, reader, resolved>> /\ job'.step = "targets"
    BY <1>2 DEF Refresh
  <2>3. job' \in [step : {"targets"}, release : Releases, targets : Versions, snapshot : Versions]
    BY <1>2, <2>1 DEF Refresh
  <2>4. QED
    BY <2>2, <2>3
<1>3. CASE RefreshOnline
  <2>1. LiveRelease \in Releases /\ LiveTargets \in Versions
        /\ NextVersion(snapshots, timestamp.snapshot) \in Versions
    BY <1>3 DEF RefreshOnline, Loads
  <2>2. UNCHANGED <<timestamp, snapshots, targets, trusted, reader, resolved>> /\ job'.step = "snapshot"
    BY <1>3 DEF RefreshOnline
  <2>3. job' \in [step : {"snapshot"}, release : Releases, targets : Versions, snapshot : Versions]
    BY <1>3, <2>1 DEF RefreshOnline
  <2>4. QED
    BY <2>2, <2>3
<1>4. CASE PublishCompose
  BY <1>4 DEF PublishCompose, WriteFile
<1>5. CASE PublishManifest
  BY <1>5 DEF PublishManifest, WriteFile
<1>6. CASE WriteTargets
  <2>1. targets' \in [Versions -> Releases \cup {Torn, Absent}]
    BY <1>6 DEF WriteTargets
  <2>2. job' = Idle \/ job' = [job EXCEPT !.step = "snapshot"]
    BY <1>6 DEF WriteTargets
  <2>3. QED
    BY <1>6, <2>1, <2>2 DEF WriteTargets
<1>7. CASE WriteSnapshot
  <2>1. snapshots' \in [Versions -> Versions \cup {Torn, Absent}]
    BY <1>7 DEF WriteSnapshot
  <2>2. job' = Idle \/ job' = [job EXCEPT !.step = "timestamp"]
    BY <1>7 DEF WriteSnapshot
  <2>3. QED
    BY <1>7, <2>1, <2>2 DEF WriteSnapshot
<1>8. CASE WriteTimestamp
  BY <1>8 DEF WriteTimestamp
<1>9. CASE Stop
  BY <1>9 DEF Stop
<1>10. CASE ReadTimestamp
  <2>1. UNCHANGED <<timestamp, snapshots, targets, job, resolved>>
    BY <1>10 DEF ReadTimestamp, GiveUp
  <2>2. reader' = Resting \/ reader' = [step |-> "snapshot", version |-> timestamp.snapshot]
    BY <1>10 DEF ReadTimestamp, GiveUp, Read
  <2>3. reader' \in [step : {"none", "snapshot"}, version : Nat]
    BY <2>2
  <2>4. trusted' \in [timestamp : Nat, snapshot : Versions, targets : Versions]
    BY <1>10 DEF ReadTimestamp, GiveUp
  <2>5. QED
    BY <2>1, <2>3, <2>4
<1>11. CASE ReadSnapshot
  BY <1>11 DEF ReadSnapshot, Read, GiveUp
<1>12. CASE ReadTargets
  BY <1>12 DEF ReadTargets, Read, GiveUp
<1>13. CASE DownloadManifest
  BY <1>13 DEF DownloadManifest, Read, GiveUp
<1>14. CASE DownloadCompose
  BY <1>14 DEF DownloadCompose
<1>15. CASE UNCHANGED vars
  BY <1>15 DEF vars
<1>16. QED
  BY <1>1, <1>2, <1>3, <1>4, <1>5, <1>6, <1>7, <1>8, <1>9, <1>10, <1>11, <1>12, <1>13, <1>14, <1>15 DEF Next, Tool, Client

\* While nothing new is named, what is live stays live.
LEMMA Names ==
    ASSUME Shapes, LiveIsWhole, UNCHANGED timestamp,
           \A v \in Versions : snapshots[v] # Absent => snapshots'[v] = snapshots[v],
           \A v \in Versions : targets[v] # Absent => targets'[v] = targets[v]
    PROVE Advances /\ LiveTargets' = LiveTargets /\ LiveRelease' = LiveRelease
<1> USE Ranges DEF Shapes, LiveIsWhole, Loads, LiveTargets, LiveRelease
<1>1. LiveTargets' = LiveTargets
  OBVIOUS
<1>2. LiveRelease' = LiveRelease
  BY <1>1
<1>3. timestamp.snapshot \in Nat /\ LiveTargets \in Nat /\ LiveRelease \in Nat
  OBVIOUS
<1>4. QED
  BY <1>1, <1>2, <1>3 DEF Advances

\* Every step keeps what is live whole and what is prepared in order, and advances.
LEMMA StepRepository ==
    Shapes /\ Shapes' /\ RepositoryInv /\ [Next]_vars => RepositoryInv' /\ Advances
<1> SUFFICES ASSUME Shapes, Shapes', RepositoryInv, [Next]_vars PROVE RepositoryInv' /\ Advances
  OBVIOUS
<1> USE Ranges DEF Shapes, repository, client, Idle, RepositoryInv
<1>0. ASSUME UNCHANGED <<repository, job>> PROVE RepositoryInv' /\ Advances
  BY <1>0, Names DEF Prepared, LiveIsWhole, Loads, LiveTargets, LiveRelease
<1>1. ASSUME NEW r \in Releases, Publish(r) PROVE RepositoryInv' /\ Advances
  <2>1. LiveTargets \in Versions /\ LiveRelease \in Releases /\ timestamp.snapshot \in Versions
    BY <1>1 DEF Publish, Loads
  <2>2. job'.targets > LiveTargets /\ job'.snapshot > timestamp.snapshot
    BY <1>1, <2>1, NextIsAbove DEF Publish
  <2>3. job'.release > LiveRelease /\ job'.step = "compose"
    BY <1>1 DEF Publish, Progresses
  <2>4. UNCHANGED <<timestamp, snapshots, targets, files>>
    BY <1>1 DEF Publish
  <2>5. Advances /\ LiveTargets' = LiveTargets /\ LiveRelease' = LiveRelease
    BY <2>4, Names
  <2>6. job'.release >= LiveRelease
    BY <2>1, <2>3
  <2>7. LiveIsWhole' /\ Prepared'
    BY <2>1, <2>2, <2>3, <2>4, <2>5, <2>6 DEF LiveIsWhole, Loads, Prepared
  <2>8. QED
    BY <2>5, <2>7
<1>2. CASE Refresh
  <2>1. LiveTargets \in Versions /\ LiveRelease \in Releases /\ timestamp.snapshot \in Versions
    BY <1>2 DEF Refresh, Loads
  <2>2. job'.targets > LiveTargets /\ job'.snapshot > timestamp.snapshot
    BY <1>2, <2>1, NextIsAbove DEF Refresh
  <2>3. job'.release = LiveRelease /\ job'.step = "targets"
    BY <1>2 DEF Refresh
  <2>4. UNCHANGED <<timestamp, snapshots, targets, files>>
    BY <1>2 DEF Refresh
  <2>5. Advances /\ LiveTargets' = LiveTargets /\ LiveRelease' = LiveRelease
    BY <2>4, Names
  <2>6. LiveIsWhole' /\ Prepared'
    BY <2>1, <2>2, <2>3, <2>4, <2>5 DEF LiveIsWhole, Loads, Prepared
  <2>7. QED
    BY <2>5, <2>6
<1>3. CASE RefreshOnline
  <2>1. LiveTargets \in Versions /\ LiveRelease \in Releases /\ timestamp.snapshot \in Versions
    BY <1>3 DEF RefreshOnline, Loads
  <2>2. job'.targets = LiveTargets /\ job'.snapshot > timestamp.snapshot
    BY <1>3, <2>1, NextIsAbove DEF RefreshOnline
  <2>3. job'.release = LiveRelease /\ job'.step = "snapshot" /\ targets[LiveTargets] = LiveRelease
    BY <1>3 DEF RefreshOnline, LiveRelease
  <2>4. UNCHANGED <<timestamp, snapshots, targets, files>>
    BY <1>3 DEF RefreshOnline
  <2>5. Advances /\ LiveTargets' = LiveTargets /\ LiveRelease' = LiveRelease
    BY <2>4, Names
  <2>6. LiveIsWhole' /\ Prepared'
    BY <2>1, <2>2, <2>3, <2>4, <2>5 DEF LiveIsWhole, Loads, Prepared
  <2>7. QED
    BY <2>5, <2>6
<1>4. CASE PublishCompose
  <2>1. UNCHANGED <<timestamp, snapshots, targets>> /\ job.step = "compose"
    BY <1>4 DEF PublishCompose, WriteFile
  <2>2. Advances /\ LiveTargets' = LiveTargets /\ LiveRelease' = LiveRelease
    BY <2>1, Names
  <2>3. \A r \in Releases : Manifest(r) \in files <=> Manifest(r) \in files'
    BY <1>4 DEF PublishCompose, WriteFile, Manifest, Compose
  <2>4. job' = job \/ job' = [job EXCEPT !.step = "manifest"]
    BY <1>4 DEF PublishCompose, WriteFile
  <2>5. LiveIsWhole'
    BY <2>2, <2>3 DEF LiveIsWhole, Loads
  <2>6. Prepared'
    BY <2>1, <2>2, <2>4 DEF Prepared
  <2>7. QED
    BY <2>2, <2>5, <2>6
<1>5. CASE PublishManifest
  <2>1. UNCHANGED <<timestamp, snapshots, targets>> /\ job.step = "manifest"
    BY <1>5 DEF PublishManifest, WriteFile
  <2>2. Advances /\ LiveTargets' = LiveTargets /\ LiveRelease' = LiveRelease
    BY <2>1, Names
  <2>3. LiveRelease # job.release
    BY <2>1 DEF Prepared, LiveIsWhole, Loads
  <2>4. Manifest(LiveRelease) \in files'
    BY <1>5, <2>3 DEF PublishManifest, WriteFile, LiveIsWhole, Manifest
  <2>5. job' = job \/ (job' = [job EXCEPT !.step = "targets"] /\ Manifest(job.release) \in files')
    BY <1>5 DEF PublishManifest, WriteFile
  <2>6. LiveIsWhole'
    BY <2>2, <2>4 DEF LiveIsWhole, Loads
  <2>7. Prepared'
    BY <2>1, <2>2, <2>5 DEF Prepared
  <2>8. QED
    BY <2>2, <2>6, <2>7
<1>6. CASE WriteTargets
  <2>1. UNCHANGED <<timestamp, snapshots, files>> /\ job.step = "targets"
    BY <1>6 DEF WriteTargets
  <2>2. \A v \in Versions : targets[v] # Absent => targets'[v] = targets[v]
    BY <1>6 DEF WriteTargets
  <2>3. Advances /\ LiveTargets' = LiveTargets /\ LiveRelease' = LiveRelease
    BY <2>1, <2>2, Names
  <2>4. \/ job' = Idle
        \/ job' = [job EXCEPT !.step = "snapshot"] /\ targets'[job.targets] = job.release
    BY <1>6 DEF WriteTargets
  <2>5. LiveIsWhole'
    BY <2>1, <2>3 DEF LiveIsWhole, Loads
  <2>6. job.targets \in Nat /\ LiveTargets \in Nat /\ job.targets > LiveTargets
    BY <2>1 DEF Prepared, LiveIsWhole, Loads
  <2>7. Prepared'
    BY <2>1, <2>3, <2>4, <2>6 DEF Prepared
  <2>8. QED
    BY <2>3, <2>5, <2>7
<1>7. CASE WriteSnapshot
  <2>1. UNCHANGED <<timestamp, targets, files>> /\ job.step = "snapshot"
    BY <1>7 DEF WriteSnapshot
  <2>2. \A v \in Versions : snapshots[v] # Absent => snapshots'[v] = snapshots[v]
    BY <1>7 DEF WriteSnapshot
  <2>3. Advances /\ LiveTargets' = LiveTargets /\ LiveRelease' = LiveRelease
    BY <2>1, <2>2, Names
  <2>4. \/ job' = Idle
        \/ job' = [job EXCEPT !.step = "timestamp"] /\ snapshots'[job.snapshot] = job.targets
    BY <1>7 DEF WriteSnapshot
  <2>5. LiveIsWhole'
    BY <2>1, <2>3 DEF LiveIsWhole, Loads
  <2>6. Prepared'
    BY <2>1, <2>3, <2>4 DEF Prepared
  <2>7. QED
    BY <2>3, <2>5, <2>6
<1>8. CASE WriteTimestamp
  <2>1. UNCHANGED <<snapshots, targets, files>> /\ job.step = "timestamp" /\ job' = Idle
        /\ timestamp'.snapshot = job.snapshot
    BY <1>8 DEF WriteTimestamp
  <2>2. LiveTargets' = job.targets /\ LiveRelease' = job.release
    BY <2>1 DEF LiveTargets, LiveRelease, Prepared
  <2>3. job.targets \in Versions /\ job.release \in Releases /\ Manifest(job.release) \in files
        /\ job.snapshot > timestamp.snapshot /\ job.targets >= LiveTargets /\ job.release >= LiveRelease
    BY <2>1 DEF Prepared
  <2>4. timestamp.snapshot \in Nat /\ job.snapshot \in Nat
    OBVIOUS
  <2>5. Advances
    BY <2>1, <2>2, <2>3, <2>4 DEF Advances
  <2>6. LiveIsWhole' /\ Prepared'
    BY <2>1, <2>2, <2>3 DEF LiveIsWhole, Loads, Prepared
  <2>7. QED
    BY <2>5, <2>6
<1>9. CASE Stop
  <2>1. UNCHANGED <<timestamp, files>> /\ job' = Idle
    BY <1>9 DEF Stop
  <2>2. \A v \in Versions : snapshots[v] # Absent => snapshots'[v] = snapshots[v]
    BY <1>9 DEF Stop
  <2>3. \A v \in Versions : targets[v] # Absent => targets'[v] = targets[v]
    BY <1>9 DEF Stop
  <2>4. Advances /\ LiveTargets' = LiveTargets /\ LiveRelease' = LiveRelease
    BY <2>1, <2>2, <2>3, Names
  <2>5. QED
    BY <2>1, <2>4 DEF LiveIsWhole, Loads, Prepared
<1>10. CASE ReadTimestamp
  BY <1>0, <1>10 DEF ReadTimestamp
<1>11. CASE ReadSnapshot
  BY <1>0, <1>11 DEF ReadSnapshot
<1>12. CASE ReadTargets
  BY <1>0, <1>12 DEF ReadTargets
<1>13. CASE DownloadManifest
  BY <1>0, <1>13 DEF DownloadManifest
<1>14. CASE DownloadCompose
  BY <1>0, <1>14 DEF DownloadCompose
<1>15. CASE UNCHANGED vars
  BY <1>0, <1>15 DEF vars
<1>16. QED
  BY <1>1, <1>2, <1>3, <1>4, <1>5, <1>6, <1>7, <1>8, <1>9, <1>10, <1>11, <1>12, <1>13, <1>14, <1>15 DEF Next, Tool, Client

\* The client stays where it is while the repository advances.
LEMMA ClientStays ==
    ASSUME Shapes, Shapes', RepositoryInv, ClientInv, Advances, UNCHANGED client
    PROVE ClientInv'
<1> USE Ranges DEF Shapes, client, ClientInv
<1>1. LiveTargets \in Nat /\ LiveRelease \in Nat /\ LiveTargets' \in Nat /\ LiveRelease' \in Nat
  BY DEF RepositoryInv, LiveIsWhole, Loads, Advances
<1>2. targets'[trusted.targets] = targets[trusted.targets]
  BY DEF Followed, Advances
<1>3. Followed'
  BY <1>1, <1>2 DEF Followed, Advances
<1>4. CASE reader.step = "snapshot"
  <2>1. snapshots'[reader.version] = snapshots[reader.version]
    BY <1>4 DEF Reading, Advances
  <2>2. targets'[snapshots[reader.version]] = targets[snapshots[reader.version]]
    BY <1>4 DEF Reading, Advances
  <2>3. QED
    BY <1>1, <1>2, <1>3, <1>4, <2>1, <2>2 DEF Reading, Advances
<1>5. CASE reader.step # "snapshot"
  BY <1>2, <1>3, <1>5 DEF Reading
<1>6. QED
  BY <1>4, <1>5

\* Every step keeps the client on what was live.
LEMMA StepClient ==
    Shapes /\ Shapes' /\ RepositoryInv /\ Advances /\ ClientInv /\ [Next]_vars => ClientInv'
<1> SUFFICES ASSUME Shapes, Shapes', RepositoryInv, Advances, ClientInv, [Next]_vars
             PROVE ClientInv'
  OBVIOUS
<1> USE Ranges DEF Shapes, repository, client, Resting, ClientInv, LiveTargets, LiveRelease
<1>1. CASE UNCHANGED client
  BY <1>1, ClientStays
<1>2. CASE ReadTimestamp
  <2>1. UNCHANGED <<timestamp, snapshots, targets, resolved>>
    BY <1>2 DEF ReadTimestamp, GiveUp
  <2>2. CASE GiveUp
    BY <2>1, <2>2 DEF GiveUp, Followed, Reading
  <2>3. CASE ~GiveUp
    <3>1. reader' = [step |-> "snapshot", version |-> timestamp.snapshot]
          /\ trusted' = [trusted EXCEPT !.timestamp = timestamp.version, !.snapshot = timestamp.snapshot]
      BY <1>2, <2>3 DEF ReadTimestamp, Read
    <3>2. trusted'.targets = trusted.targets /\ trusted'.snapshot = timestamp.snapshot
      BY <3>1
    <3>3. LiveTargets \in Versions /\ LiveRelease \in Releases
      BY DEF RepositoryInv, LiveIsWhole, Loads
    <3>4. Followed'
      BY <2>1, <3>2 DEF Followed
    <3>5. Reading'
      BY <2>1, <3>1, <3>2, <3>3 DEF Followed, Reading
    <3>6. QED
      BY <3>4, <3>5
  <2>4. QED
    BY <2>2, <2>3
<1>3. CASE ReadSnapshot
  <2>1. UNCHANGED <<timestamp, snapshots, targets, resolved>> /\ reader.step = "snapshot"
    BY <1>3 DEF ReadSnapshot, GiveUp
  <2>2. CASE GiveUp
    BY <2>1, <2>2 DEF GiveUp, Followed, Reading
  <2>3. CASE ~GiveUp
    <3> DEFINE named == snapshots[reader.version]
    <3>1. reader' = [step |-> "targets", version |-> named] /\ trusted' = [trusted EXCEPT !.targets = named]
      BY <1>3, <2>3 DEF ReadSnapshot, Read
    <3>2. trusted'.targets = named /\ trusted'.snapshot = trusted.snapshot
      BY <3>1
    <3>3. named \in Versions /\ named <= LiveTargets /\ targets[named] \in Releases
          /\ targets[named] <= LiveRelease /\ targets[trusted.targets] <= targets[named]
      BY <2>1 DEF Reading
    <3>4. resolved <= targets[named]
      BY <3>3 DEF Followed
    <3>5. Followed'
      BY <2>1, <3>2, <3>3, <3>4 DEF Followed
    <3>6. Reading'
      BY <3>1, <3>2 DEF Reading
    <3>7. QED
      BY <3>5, <3>6
  <2>4. QED
    BY <2>2, <2>3
<1>4. CASE ReadTargets
  <2>1. UNCHANGED <<timestamp, snapshots, targets, trusted, resolved>> /\ reader.step = "targets"
    BY <1>4 DEF ReadTargets, GiveUp
  <2>2. reader' = Resting \/ reader' = [step |-> "manifest", version |-> targets[reader.version]]
    BY <1>4 DEF ReadTargets, Read, GiveUp
  <2>3. QED
    BY <2>1, <2>2 DEF Followed, Reading
<1>5. CASE DownloadManifest
  <2>1. UNCHANGED <<timestamp, snapshots, targets, trusted, resolved>> /\ reader.step = "manifest"
    BY <1>5 DEF DownloadManifest, GiveUp
  <2>2. reader' = Resting \/ reader' = [step |-> "compose", version |-> reader.version]
    BY <1>5 DEF DownloadManifest, Read, GiveUp
  <2>3. QED
    BY <2>1, <2>2 DEF Followed, Reading
<1>6. CASE DownloadCompose
  <2>1. UNCHANGED <<timestamp, snapshots, targets, trusted>> /\ reader' = Resting
        /\ resolved' \in {resolved, targets[trusted.targets]}
    BY <1>6 DEF DownloadCompose, Reading
  <2>2. QED
    BY <2>1 DEF Followed, Reading
<1>7. ASSUME Next, ~(UNCHANGED client) PROVE Client
  BY <1>7 DEF Next, Tool, Publish, Refresh, RefreshOnline, PublishCompose, PublishManifest, WriteFile,
     WriteTargets, WriteSnapshot, WriteTimestamp, Stop
<1>8. QED
  BY <1>1, <1>2, <1>3, <1>4, <1>5, <1>6, <1>7 DEF Client, vars

\* The shapes, and everything above, hold throughout.
THEOREM TufInvariant == Spec => [](Shapes /\ RepositoryInv /\ ClientInv)
<1>1. Shapes /\ RepositoryInv /\ ClientInv /\ [Next]_vars => (Shapes /\ RepositoryInv /\ ClientInv)'
  BY StepShapes, StepRepository, StepClient
<1>2. QED
  BY <1>1, InitTuf, PTL DEF Spec

\* What timestamp.json names is complete, down to the manifest of the release
\* (publish.go:133-139).
THEOREM LiveRepositoryIsWhole == Spec => []LiveIsWhole
<1>1. RepositoryInv => LiveIsWhole
  BY DEF RepositoryInv
<1>2. QED
  BY TufInvariant, <1>1, PTL

\* A site never resolves an older release than before (publish.go:210).
THEOREM SitesNeverGoBack == Spec => NeverOlder
<1>1. Shapes /\ ClientInv /\ [Next]_vars => [resolved' >= resolved]_vars
  <2> SUFFICES ASSUME Shapes, ClientInv, Next PROVE resolved' >= resolved
    OBVIOUS
  <2> USE Ranges DEF Shapes, ClientInv
  <2>1. CASE DownloadCompose
    <3>1. resolved' \in {resolved, targets[trusted.targets]}
      BY <2>1 DEF DownloadCompose, Reading
    <3>2. QED
      BY <3>1 DEF Followed
  <2>2. ASSUME ~DownloadCompose PROVE resolved' = resolved
    BY <2>2 DEF Next, Tool, Client, client, Publish, Refresh, RefreshOnline, PublishCompose,
       PublishManifest, WriteFile, WriteTargets, WriteSnapshot, WriteTimestamp, Stop,
       ReadTimestamp, ReadSnapshot, ReadTargets, DownloadManifest, GiveUp
  <2>3. QED
    BY <2>1, <2>2
<1>2. QED
  BY <1>1, TufInvariant, PTL DEF Spec, NeverOlder
=============================================================================
