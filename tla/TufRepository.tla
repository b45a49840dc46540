---------------------------- MODULE TufRepository ----------------------------
(***************************************************************************)
(* The signed update repository: the publication and refresh tools of        *)
(* internal/tufrepo, which write a directory file by file and may stop        *)
(* anywhere, and a client of it (internal/tufclient over go-tuf), which reads *)
(* file by file while they write.                                            *)
(*                                                                         *)
(* timestamp.json is replaced by a rename and is the only file that changes;  *)
(* it names a snapshot version, the snapshot a targets version, and those the *)
(* files of one release.  Versioned metadata is created exclusively, but not  *)
(* at once: what an interrupted run leaves may be incomplete.  Target files   *)
(* have their digest in their name and are written in place.  Keys are not   *)
(* modelled, nor is expiry.  One tool runs at a time (the concurrency group   *)
(* of the workflows).                                                        *)
(***************************************************************************)
EXTENDS Naturals, FiniteSets, FiniteSetsExt

CONSTANTS
    MaxRelease,     \* release sequences are 1 .. MaxRelease
    Shared,         \* releases with the Compose file of release 1; the others have their own
    MaxVersion,     \* bound on the metadata versions
    MaxRefreshes,   \* bound on refreshes
    MaxFaults       \* bound on interrupted runs

ASSUME TufConstants ==
    /\ MaxRelease \in Nat \ {0} /\ MaxVersion \in Nat \ {0}
    /\ MaxRefreshes \in Nat /\ MaxFaults \in Nat
    /\ Shared \subseteq 1 .. MaxRelease

VARIABLES
    timestamp,  \* its version and the snapshot version it names
    snapshots,  \* <version>.snapshot.json: the targets version, Torn, or Absent
    targets,    \* <version>.targets.json: the release, Torn, or Absent
    files,      \* target files that are whole
    job,        \* the tool that runs: its next write, and what it writes
    wanted,     \* history: the newest release whose publication was ever begun
    trusted,    \* the client's cache: the versions that its verified metadata names
    reader,     \* its next read, and what it is reading
    resolved,   \* history: the release it resolved last
    refreshes, faults

repository == <<timestamp, snapshots, targets, files>>
client == <<trusted, reader, resolved>>
vars == <<repository, job, wanted, client, refreshes, faults>>

Releases == 1 .. MaxRelease
Versions == 1 .. MaxVersion
Absent == 0
Torn == MaxVersion + MaxRelease + 1

Manifest(r) == <<"releases/current.json", r>>
Compose(r) == <<"deploy/docker-compose.managed.yml", IF r \in Shared THEN 1 ELSE r>>
Files == {Manifest(r) : r \in Releases} \cup {Compose(r) : r \in Releases}

Idle == [step |-> "none", release |-> 0, targets |-> 0, snapshot |-> 0]
Resting == [step |-> "none", version |-> 0]

TypeOK ==
    /\ timestamp \in [version : Nat, snapshot : Versions]
    /\ snapshots \in [Versions -> Versions \cup {Torn, Absent}]
    /\ targets \in [Versions -> Releases \cup {Torn, Absent}]
    /\ files \subseteq Files
    /\ job.step \in {"none", "compose", "manifest", "targets", "snapshot", "timestamp"}
    /\ wanted \in Releases /\ resolved \in Releases \cup {0}
    /\ trusted \in [timestamp : Nat, snapshot : Versions, targets : Versions]
    /\ refreshes \in 0 .. MaxRefreshes /\ faults \in 0 .. MaxFaults
    /\ reader.step \in {"none", "snapshot", "targets", "manifest", "compose"}

--------------------
\* The tools.  Each first loads and verifies what is live (loadTrustedRepositoryState).

LiveTargets == snapshots[timestamp.snapshot]
LiveRelease == targets[LiveTargets]
Loads == LiveTargets \in Versions /\ LiveRelease \in Releases

\* Faulty: files that an interrupted run left are not looked at.
NextAfterLive(kind, live) == live + 1

\* nextMetadataVersion: above the live one and every file there is.
NextVersion(kind, live) ==
    Max({live} \cup {v \in Versions : kind[v] # Absent}) + 1

\* Faulty: any release may follow.
AnyRelease(r) == TRUE

\* validateReleaseProgression, against the live release.
Progresses(r) == Manifest(LiveRelease) \in files /\ r > LiveRelease

Publish(r) ==
    /\ job = Idle /\ Loads /\ Progresses(r)
    /\ NextVersion(targets, LiveTargets) \in Versions
    /\ NextVersion(snapshots, timestamp.snapshot) \in Versions
    /\ job' = [step |-> "compose", release |-> r,
               targets |-> NextVersion(targets, LiveTargets),
               snapshot |-> NextVersion(snapshots, timestamp.snapshot)]
    /\ wanted' = Max({wanted, r})
    /\ UNCHANGED <<repository, client, refreshes, faults>>

\* The same targets again under a new version, with the targets key ...
Refresh ==
    /\ job = Idle /\ Loads
    /\ refreshes < MaxRefreshes /\ refreshes' = refreshes + 1
    /\ NextVersion(targets, LiveTargets) \in Versions
    /\ NextVersion(snapshots, timestamp.snapshot) \in Versions
    /\ job' = [step |-> "targets", release |-> LiveRelease,
               targets |-> NextVersion(targets, LiveTargets),
               snapshot |-> NextVersion(snapshots, timestamp.snapshot)]
    /\ UNCHANGED <<repository, wanted, client, faults>>

\* ... or the live targets metadata as it is, without that key.
RefreshOnline ==
    /\ job = Idle /\ Loads
    /\ refreshes < MaxRefreshes /\ refreshes' = refreshes + 1
    /\ NextVersion(snapshots, timestamp.snapshot) \in Versions
    /\ job' = [step |-> "snapshot", release |-> LiveRelease, targets |-> LiveTargets,
               snapshot |-> NextVersion(snapshots, timestamp.snapshot)]
    /\ UNCHANGED <<repository, wanted, client, faults>>

\* A write in place: begun, it leaves a torn file until it is done.
WriteFile(step, file, then) ==
    /\ job.step = step
    /\ \/ file \in files /\ files' = files \ {file} /\ UNCHANGED job
       \/ file \notin files /\ files' = files \cup {file} /\ job' = [job EXCEPT !.step = then]
    /\ UNCHANGED <<timestamp, snapshots, targets, wanted, client, refreshes, faults>>

PublishCompose == WriteFile("compose", Compose(job.release), "manifest")
PublishManifest == WriteFile("manifest", Manifest(job.release), "targets")

\* Created exclusively: an existing file ends the run with an error.
WriteTargets ==
    /\ job.step = "targets"
    /\ IF targets[job.targets] = Absent
       THEN targets' = [targets EXCEPT ![job.targets] = job.release] /\ job' = [job EXCEPT !.step = "snapshot"]
       ELSE job' = Idle /\ UNCHANGED targets
    /\ UNCHANGED <<timestamp, snapshots, files, wanted, client, refreshes, faults>>

\* Faulty: the timestamp that names the snapshot is published before it is written.
TimestampFirst ==
    /\ job.step = "snapshot"
    /\ timestamp' = [version |-> timestamp.version + 1, snapshot |-> job.snapshot]
    /\ job' = [job EXCEPT !.step = "timestamp"]
    /\ UNCHANGED <<snapshots, targets, files, wanted, client, refreshes, faults>>

WriteSnapshot ==
    /\ job.step = "snapshot"
    /\ IF snapshots[job.snapshot] = Absent
       THEN snapshots' = [snapshots EXCEPT ![job.snapshot] = job.targets] /\ job' = [job EXCEPT !.step = "timestamp"]
       ELSE job' = Idle /\ UNCHANGED snapshots
    /\ UNCHANGED <<timestamp, targets, files, wanted, client, refreshes, faults>>

WriteTimestamp ==
    /\ job.step = "timestamp"
    /\ timestamp' = [version |-> timestamp.version + 1, snapshot |-> job.snapshot]
    /\ job' = Idle
    /\ UNCHANGED <<snapshots, targets, files, wanted, client, refreshes, faults>>

\* The tool stops, and may leave half of the metadata file it was at.
Stop ==
    /\ job # Idle /\ faults < MaxFaults /\ faults' = faults + 1
    /\ job' = Idle
    /\ \/ UNCHANGED repository
       \/ /\ job.step = "targets" /\ targets[job.targets] = Absent
          /\ targets' = [targets EXCEPT ![job.targets] = Torn]
          /\ UNCHANGED <<timestamp, snapshots, files>>
       \/ /\ job.step = "snapshot" /\ snapshots[job.snapshot] = Absent
          /\ snapshots' = [snapshots EXCEPT ![job.snapshot] = Torn]
          /\ UNCHANGED <<timestamp, targets, files>>
    /\ UNCHANGED <<wanted, client, refreshes>>

--------------------
\* The client: Refresh of go-tuf, then downloadTarget for each file.

Read(step, version) == reader' = [step |-> step, version |-> version]
GiveUp == reader' = Resting /\ UNCHANGED <<trusted, resolved>>

\* An older timestamp, or one that names an older snapshot, is refused.
ReadTimestamp ==
    /\ reader = Resting
    /\ IF timestamp.version >= trusted.timestamp /\ timestamp.snapshot >= trusted.snapshot
       THEN /\ Read("snapshot", timestamp.snapshot)
            /\ trusted' = [trusted EXCEPT !.timestamp = timestamp.version, !.snapshot = timestamp.snapshot]
            /\ UNCHANGED resolved
       ELSE GiveUp
    /\ UNCHANGED <<repository, job, wanted, refreshes, faults>>

ReadSnapshot ==
    /\ reader.step = "snapshot"
    /\ LET named == snapshots[reader.version] IN
       IF named \in Versions /\ named >= trusted.targets
       THEN /\ Read("targets", named)
            /\ trusted' = [trusted EXCEPT !.targets = named]
            /\ UNCHANGED resolved
       ELSE GiveUp
    /\ UNCHANGED <<repository, job, wanted, refreshes, faults>>

ReadTargets ==
    /\ reader.step = "targets"
    /\ LET release == targets[reader.version] IN
       IF release \in Releases THEN Read("manifest", release) /\ UNCHANGED <<trusted, resolved>>
       ELSE GiveUp
    /\ UNCHANGED <<repository, job, wanted, refreshes, faults>>

DownloadManifest ==
    /\ reader.step = "manifest"
    /\ IF Manifest(reader.version) \in files
       THEN Read("compose", reader.version) /\ UNCHANGED <<trusted, resolved>>
       ELSE GiveUp
    /\ UNCHANGED <<repository, job, wanted, refreshes, faults>>

DownloadCompose ==
    /\ reader.step = "compose"
    /\ reader' = Resting /\ UNCHANGED trusted
    /\ resolved' = IF Compose(reader.version) \in files THEN reader.version ELSE resolved
    /\ UNCHANGED <<repository, job, wanted, refreshes, faults>>

--------------------
Init ==
    /\ timestamp = [version |-> 1, snapshot |-> 1]
    /\ snapshots = [v \in Versions |-> IF v = 1 THEN 1 ELSE Absent]
    /\ targets = [v \in Versions |-> IF v = 1 THEN 1 ELSE Absent]
    /\ files = {Manifest(1), Compose(1)}
    /\ job = Idle /\ wanted = 1
    /\ trusted = [timestamp |-> 1, snapshot |-> 1, targets |-> 1]
    /\ reader = Resting /\ resolved = 0 /\ refreshes = 0 /\ faults = 0

Tool == PublishCompose \/ PublishManifest \/ WriteTargets \/ WriteSnapshot \/ WriteTimestamp

Client == ReadTimestamp \/ ReadSnapshot \/ ReadTargets \/ DownloadManifest \/ DownloadCompose

Next ==
    \/ \E r \in Releases : Publish(r)
    \/ Refresh \/ RefreshOnline
    \/ Tool \/ Stop \/ Client

Spec == Init /\ [][Next]_vars

\* An interrupted publication is repeated (docs/release-runbook.md:64); sites ask
\* again and again.
FairSpec == Spec /\ WF_vars(Tool) /\ WF_vars(Client) /\ SF_vars(Publish(wanted))

--------------------
\* What timestamp.json names is complete, down to the manifest of the release,
\* wherever runs stopped before or beside it (publish.go:133-139).  Not the Compose
\* target under its stable name, which a run rewrites in place (repository.go:366).
LiveIsWhole == Loads /\ Manifest(LiveRelease) \in files

\* A site never resolves an older release than before, however its reads are mixed
\* with publications, refreshes and abandoned runs (publish.go:210).
NeverOlder == [][resolved' >= resolved]_vars

\* A release whose publication was begun reaches the sites, however often it stopped
\* and whatever files that left (docs/release-runbook.md:64).
ReleaseArrives == []<>(resolved >= wanted)
=============================================================================
