----------------------------- MODULE SeedArchive -----------------------------
(***************************************************************************)
(* The files of one seed: the source's tree while users edit it, the       *)
(* manifest and the archive made of it (daemon/src/seed-archive.ts), the   *)
(* two relay objects (seed-transport.ts, seed-relay-s3.ts), and the        *)
(* target's staging directory and folder.  The job's lease and requests    *)
(* are SeedJob's: here a phase is granted at once or refused.              *)
(*                                                                         *)
(* A path stands for a directory with its one file, so that its listing is *)
(* read when the walk gets there.  A content is a version number; equal    *)
(* digests mean equal contents, and every edit makes a new content.  What  *)
(* a stat shows of a file (size and mtime) may survive an edit.            *)
(***************************************************************************)
EXTENDS Naturals, FiniteSets

CONSTANTS
    Paths,       \* number of paths in the filter universe
    MaxEdits,    \* bound: edits of the source by its users
    MaxOwn,      \* bound: files users put into the target
    MaxFaults,   \* bound: failed transfers, kills and crashes
    Absent,      \* no file
    Link,        \* a symlink or another member a seed cannot represent
    Own,         \* a file of the target's users
    Gone         \* no such directory or object

Path == 1 .. Paths
Version == 1 .. MaxEdits + 1
Tree == [Path -> Version \cup {Absent, Link, Own}]
Directory == Tree \cup {Gone}

\* The phases in their order; a job ends failed (or cancelled) or completed.
Planned == 0
Measuring == 1
Archiving == 2
Uploading == 3
Downloading == 4
VerifyingArchive == 5
Extracting == 6
VerifyingTarget == 7
Publishing == 8
Baseline == 9
Failed == 10
Completed == 11

VARIABLES
    source,     \* the source's tree: content and what a stat shows
    edits,      \* edits so far
    past,       \* history: the contents of every tree the source had
    phase,      \* server: the job's phase
    facts,      \* server: the archive and the manifest that were recorded
    objects,    \* relay: the archive and the manifest stored there
    spc,        \* the source's next step
    next,       \* the path the walk, or tar, comes to next
    manifest,   \* the contents the walk has hashed
    before,     \* the stats fingerprint taken before tar
    archive,    \* what tar has packed
    tpc,        \* the target's next step
    payload,    \* the archive in the target's work directory
    document,   \* the manifest in the target's work directory
    staging,    \* the staging sibling on the target's disk
    target,     \* the folder of the target
    own,        \* files users put there so far
    published,  \* history: the tree that was renamed into place
    peer,       \* the remote both hosts sync with
    settled,    \* history: the tree a resync found nothing to change in
    faults      \* faults so far

job == <<phase, facts>>
sourceSide == <<spc, next, manifest, before, archive>>
work == <<payload, document>>
targetSide == <<tpc, work, staging>>
disk == <<target, own, published>>
vars == <<source, edits, past, job, objects, sourceSide, targetSide, disk, peer, settled, faults>>

Empty == [p \in Path |-> Absent]
Terminal == phase \in {Failed, Completed}
Contents(s) == [p \in Path |-> s[p].content]

\* rclone skips what is not a regular file.
Synced(t) == [p \in Path |-> IF t[p] = Link THEN Absent ELSE t[p]]

TypeOK ==
    /\ source \in [Path -> [content : Version \cup {Absent, Link}, stat : 0 .. MaxEdits]]
    /\ edits \in 0 .. MaxEdits
    /\ past \subseteq Tree
    /\ phase \in Planned .. Completed
    /\ facts = Gone \/ facts \in [archive : Tree, manifest : Tree]
    /\ objects \in [archive : Directory, manifest : Directory]
    /\ spc \in {"idle", "walk", "tar", "upload", "describe", "record", "done"}
    /\ next \in 1 .. Paths + 1
    /\ manifest \in Tree /\ archive \in Tree
    /\ tpc \in {"idle", "wait", "manifest", "extract", "verify", "publish", "rmdir", "rename",
                "resync", "complete", "done"}
    /\ payload \in Directory /\ document \in Directory
    /\ staging \in Directory /\ target \in Directory /\ published \in Directory
    /\ own \in 0 .. MaxOwn
    /\ peer \in Tree
    /\ settled \in Directory

\* The source synced before; the executor may have made the target's directory.
Init ==
    /\ source = [p \in Path |-> [content |-> 1, stat |-> 0]]
    /\ edits = 0
    /\ past = {[p \in Path |-> 1]}
    /\ phase = Planned
    /\ facts = Gone
    /\ objects = [archive |-> Gone, manifest |-> Gone]
    /\ spc = "idle" /\ next = 1
    /\ manifest = Empty /\ before = Empty /\ archive = Empty
    /\ tpc = "idle" /\ payload = Gone /\ document = Gone
    /\ staging = Gone /\ target \in {Gone, Empty}
    /\ own = 0 /\ published = Gone
    /\ peer = [p \in Path |-> 1]
    /\ settled = Gone
    /\ faults = 0

Fault == faults < MaxFaults /\ faults' = faults + 1

-----------------------------------------------------------------------------
(* The users, the ordinary sync of the source, and the job's other end     *)

Edit(p) ==
    /\ edits < MaxEdits
    /\ edits' = edits + 1
    /\ \/ \E s \in {source[p].stat, edits + 1} :
            source' = [source EXCEPT ![p] = [content |-> edits + 2, stat |-> s]]
       \/ \E c \in {Absent, Link} :
            source' = [source EXCEPT ![p] = [content |-> c, stat |-> 0]]
    /\ past' = past \cup {Contents(source')}
    /\ UNCHANGED <<job, objects, sourceSide, targetSide, disk, peer, settled, faults>>

\* A user of the target's host, or a sync run of that folder.
PutOwn(p) ==
    /\ own < MaxOwn
    /\ own' = own + 1
    /\ target' = [(IF target = Gone THEN Empty ELSE target) EXCEPT ![p] = Own]
    /\ UNCHANGED <<source, edits, past, job, objects, sourceSide, targetSide, published, peer,
                   settled, faults>>

SyncSource ==
    /\ peer # Synced(Contents(source))
    /\ peer' = Synced(Contents(source))
    /\ UNCHANGED <<source, edits, past, job, objects, sourceSide, targetSide, disk, settled, faults>>

\* The operator cancels the job, or the reaper finds its lease lapsed.
JobEnds ==
    /\ ~Terminal
    /\ Fault
    /\ phase' = Failed
    /\ UNCHANGED <<source, edits, past, facts, objects, sourceSide, targetSide, disk, peer, settled>>

-----------------------------------------------------------------------------
(* How a side goes on and how it ends                                      *)

\* canTransitionSeedPhase: the same phase again, or the next one.
Granted(k) == ~Terminal /\ phase \in {k - 1, k}

\* cleanupRelayObjects: best effort.
Cleaned ==
    \/ objects' = [archive |-> Gone, manifest |-> Gone] /\ UNCHANGED faults
    \/ Fault /\ UNCHANGED objects

\* failJob, unless the job ended before.
FailedJob == phase' = IF Terminal THEN phase ELSE Failed

SourceOver(ending) ==
    /\ spc' = "done"
    /\ next' = 1
    /\ manifest' = Empty /\ before' = Empty /\ archive' = Empty
    /\ ending
    /\ Cleaned
    /\ UNCHANGED <<source, edits, past, facts, targetSide, disk, peer, settled>>

\* release: the staging sibling is removed while it is still staging.
TargetOver(ending) ==
    /\ tpc' = "done"
    /\ payload' = Gone /\ document' = Gone
    /\ staging' = Gone
    /\ ending
    /\ Cleaned
    /\ UNCHANGED <<source, edits, past, facts, sourceSide, disk, peer, settled>>

SourceFails == SourceOver(FailedJob)
SourceStops == SourceOver(UNCHANGED phase)
TargetFails == TargetOver(FailedJob)
TargetStops == TargetOver(UNCHANGED phase)

\* What a step of the source leaves alone.
SourceFrame == UNCHANGED <<source, edits, past, targetSide, disk, peer, settled>>

\* What a step of the target leaves alone.
TargetFrame == UNCHANGED <<source, edits, past, facts, objects, sourceSide, settled>>

-----------------------------------------------------------------------------
(* The source                                                              *)

\* runSeedAction.  A source that was restarted asks for its first phase
\* again, and is refused when the job is further.
SourceStart ==
    /\ spc = "idle"
    /\ IF Terminal
       THEN /\ spc' = "done"
            /\ UNCHANGED <<phase, facts, objects, next, manifest, before, archive, faults>>
            /\ SourceFrame
       ELSE IF Granted(Measuring)
       THEN /\ phase' = Measuring
            /\ spc' = "walk"
            /\ next' = 1
            /\ manifest' = Empty
            /\ UNCHANGED <<facts, objects, before, archive, faults>>
            /\ SourceFrame
       ELSE SourceStops

\* buildSeedManifest comes to a path: nothing, a member it cannot represent,
\* or a file it hashes.
Hash ==
    /\ spc = "walk"
    /\ next \in Path
    /\ manifest' = [manifest EXCEPT ![next] = source[next].content]
    /\ next' = next + 1
    /\ UNCHANGED <<job, objects, spc, before, archive, faults>>
    /\ SourceFrame

\* seedManifestBlockingReason
Blocked(m) == \E p \in Path : m[p] = Link

\* buildStatsFingerprint: path and kind, and the stat of a file.
Stats(s) == [p \in Path |-> IF s[p].content \in {Absent, Link} THEN s[p].content ELSE s[p].stat]

\* createSeedArchive up to tar.  An empty manifest makes an empty archive,
\* which is not accepted (seedArchiveMetadataProblem: memberCount).
StartTar ==
    /\ spc = "walk"
    /\ next \notin Path
    /\ IF ~Granted(Archiving)
       THEN SourceStops
       ELSE IF Blocked(manifest) \/ manifest = Empty
       THEN SourceFails
       ELSE /\ phase' = Archiving
            /\ spc' = "tar"
            /\ next' = 1
            /\ before' = Stats(source)
            /\ archive' = Empty
            /\ UNCHANGED <<facts, objects, manifest, faults>>
            /\ SourceFrame

\* tar packs the members of the manifest; a member that is gone is an error.
Pack ==
    /\ spc = "tar"
    /\ next \in Path
    /\ IF manifest[next] # Absent /\ source[next].content = Absent
       THEN SourceFails
       ELSE /\ archive' = [archive EXCEPT ![next] =
                            IF manifest[next] = Absent THEN Absent ELSE source[next].content]
            /\ next' = next + 1
            /\ UNCHANGED <<job, objects, spc, manifest, before, faults>>
            /\ SourceFrame

\* The tree moved while tar ran.
Churned == before # Stats(source)

\* compareArchiveToManifest: a member that is no regular file is refused.
Mismatched == \E p \in Path : archive[p] = Link

FinishTar ==
    /\ spc = "tar"
    /\ next \notin Path
    /\ IF Churned \/ Mismatched
       THEN SourceFails
       ELSE IF ~Granted(Uploading)
       THEN SourceStops
       ELSE /\ phase' = Uploading
            /\ spc' = "upload"
            /\ next' = 1
            /\ before' = Empty
            /\ UNCHANGED <<facts, objects, manifest, archive, faults>>
            /\ SourceFrame

\* put: an object that is there already is accepted only if it is the same.
Accepted(object, bytes) == object \in {Gone, bytes}

\* uploadSeedArchive, with its own digest and the read back.
UploadArchive ==
    /\ spc = "upload"
    /\ IF ~Accepted(objects.archive, archive)
       THEN SourceFails
       ELSE /\ objects' = [objects EXCEPT !.archive = archive]
            /\ spc' = "describe"
            /\ UNCHANGED <<job, next, manifest, before, archive, faults>>
            /\ SourceFrame

\* uploadSeedManifest
UploadManifest ==
    /\ spc = "describe"
    /\ IF ~Accepted(objects.manifest, manifest)
       THEN SourceFails
       ELSE /\ objects' = [objects EXCEPT !.manifest = manifest]
            /\ spc' = "record"
            /\ UNCHANGED <<job, next, manifest, before, archive, faults>>
            /\ SourceFrame

\* recordSeedArchiveFacts, once; the objects stay for the target.
RecordFacts ==
    /\ spc = "record"
    /\ IF Terminal
       THEN SourceStops
       ELSE /\ facts' = [archive |-> archive, manifest |-> manifest]
            /\ spc' = "done"
            /\ manifest' = Empty /\ archive' = Empty
            /\ UNCHANGED <<phase, objects, next, before, faults>>
            /\ SourceFrame

\* tar, an upload or a request fails, or the supervisor stops the run.
SourceBreaks ==
    /\ spc \in {"walk", "tar", "upload", "describe", "record"}
    /\ faults < MaxFaults
    /\ spc' = "done"
    /\ next' = 1
    /\ manifest' = Empty /\ before' = Empty /\ archive' = Empty
    /\ phase' \in {phase, IF Terminal THEN phase ELSE Failed}
    /\ objects' = [archive |-> Gone, manifest |-> Gone]
    /\ faults' = faults + 1
    /\ UNCHANGED <<source, edits, past, facts, targetSide, disk, peer, settled>>

\* The daemon dies; its action is handed out again.
SourceCrash ==
    /\ spc \notin {"idle", "done"}
    /\ Fault
    /\ spc' = "idle"
    /\ next' = 1
    /\ manifest' = Empty /\ before' = Empty /\ archive' = Empty
    /\ UNCHANGED <<job, objects>>
    /\ SourceFrame

-----------------------------------------------------------------------------
(* The target                                                              *)

TargetStart ==
    /\ tpc = "idle"
    /\ tpc' = IF Terminal THEN "done" ELSE "wait"
    /\ UNCHANGED <<phase, work, staging, disk, peer, faults>>
    /\ TargetFrame

\* get: the bytes must have the recorded digest.
Download(object, recorded) == object = recorded

\* waitForSourceFacts, then downloadSeedArchive.
GetArchive ==
    /\ tpc = "wait"
    /\ facts # Gone \/ Terminal
    /\ IF ~Granted(Downloading)
       THEN TargetStops
       ELSE IF ~Download(objects.archive, facts.archive)
       THEN TargetFails
       ELSE /\ phase' = Downloading
            /\ payload' = objects.archive
            /\ tpc' = "manifest"
            /\ UNCHANGED <<document, staging, disk, peer, faults>>
            /\ TargetFrame

\* downloadSeedManifest; what an earlier attempt left in the staging
\* sibling is removed.
GetManifest ==
    /\ tpc = "manifest"
    /\ IF ~Granted(VerifyingArchive)
       THEN TargetStops
       ELSE IF ~Download(objects.manifest, facts.manifest)
       THEN TargetFails
       ELSE /\ phase' = VerifyingArchive
            /\ document' = objects.manifest
            /\ staging' = Gone
            /\ tpc' = "extract"
            /\ UNCHANGED <<payload, disk, peer, faults>>
            /\ TargetFrame

\* extractSeedArchive, file by file.
Missing(p) == payload[p] # Absent /\ (IF staging = Gone THEN TRUE ELSE staging[p] = Absent)

Extract ==
    /\ tpc = "extract"
    /\ IF staging = Gone /\ ~Granted(Extracting)
       THEN TargetStops
       ELSE /\ \E p \in Path :
                /\ Missing(p)
                /\ \A q \in 1 .. p - 1 : ~Missing(q)
                /\ staging' = [(IF staging = Gone THEN Empty ELSE staging) EXCEPT ![p] = payload[p]]
            /\ phase' = IF Terminal THEN phase ELSE Extracting
            /\ UNCHANGED <<tpc, work, disk, peer, faults>>
            /\ TargetFrame

\* Mutant of Verified: names only.
NamesVerified == \A p \in Path : (staging[p] = Absent) = (document[p] = Absent)

\* verifyExtractedTree: every member with its digest, and nothing else.
Verified == staging = document

Verify ==
    /\ tpc = "extract"
    /\ staging # Gone
    /\ \A p \in Path : ~Missing(p)
    /\ IF ~Granted(VerifyingTarget)
       THEN TargetStops
       ELSE IF ~Verified
       THEN TargetFails
       ELSE /\ phase' = VerifyingTarget
            /\ tpc' = "publish"
            /\ UNCHANGED <<work, staging, disk, peer, faults>>
            /\ TargetFrame

\* publishStagedTree reads the directory: it must be empty or not exist.
Look ==
    /\ tpc = "publish"
    /\ IF ~Granted(Publishing)
       THEN TargetStops
       ELSE IF target \notin {Gone, Empty}
       THEN TargetFails
       ELSE /\ phase' = Publishing
            /\ tpc' = IF target = Gone THEN "rename" ELSE "rmdir"
            /\ UNCHANGED <<work, staging, disk, peer, faults>>
            /\ TargetFrame

\* Mutant of Removable: the directory is removed with what it has come to hold.
RemovedWhole == TRUE

\* rmdir refuses a directory with files in it.
Removable == target = Empty

Rmdir ==
    /\ tpc = "rmdir"
    /\ IF ~Removable
       THEN TargetFails
       ELSE /\ target' = Gone
            /\ tpc' = "rename"
            /\ UNCHANGED <<phase, work, staging, own, published, peer, faults>>
            /\ TargetFrame

\* rename replaces nothing or an empty directory.
Rename ==
    /\ tpc = "rename"
    /\ IF target \notin {Gone, Empty}
       THEN TargetFails
       ELSE /\ target' = staging
            /\ published' = staging
            /\ staging' = Gone
            /\ tpc' = "resync"
            /\ UNCHANGED <<phase, work, own, peer, faults>>
            /\ TargetFrame

\* A resync copies what one side lacks, and the peer wins where both differ.
Merged(S) == [p \in Path |-> IF p \notin S THEN target[p] ELSE IF peer[p] # Absent THEN peer[p] ELSE target[p]]

\* Mutant of Unchanged: files that are only on one side are not counted.
CommonUnchanged == \A p \in Path : target[p] # Absent /\ peer[p] # Absent => target[p] = peer[p]

\* seedBaselineVerdict: nothing was transferred.
Unchanged == target = peer

\* runBaselineValidation; a resync that changes something, or is killed
\* half way (the paths S), fails the seed.
Resync(S) ==
    /\ tpc = "resync"
    /\ S = Path \/ faults < MaxFaults
    /\ IF ~Granted(Baseline)
       THEN S = Path /\ TargetStops
       ELSE LET done == S = Path /\ Unchanged IN
            /\ target' = Merged(S)
            /\ peer' = [p \in Path |-> IF p \in S THEN Merged(S)[p] ELSE peer[p]]
            /\ phase' = IF done THEN Baseline ELSE Failed
            /\ tpc' = IF done THEN "complete" ELSE "done"
            /\ settled' = IF done THEN target ELSE Gone
            /\ payload' = Gone /\ document' = Gone
            /\ IF S = Path THEN UNCHANGED faults ELSE Fault
            /\ UNCHANGED <<source, edits, past, facts, sourceSide, staging, own, published>>
            /\ IF done THEN UNCHANGED objects ELSE objects' = [archive |-> Gone, manifest |-> Gone]

\* completeSeedJob after verifyAuthority.
Complete ==
    /\ tpc = "complete"
    /\ TargetOver(phase' = IF Terminal THEN phase ELSE Completed)

\* A transfer, tar or a request fails, or the supervisor stops the run.
TargetBreaks ==
    /\ tpc \notin {"idle", "done"}
    /\ Fault
    /\ tpc' = "done"
    /\ payload' = Gone /\ document' = Gone
    /\ staging' = Gone
    /\ phase' \in {phase, IF Terminal THEN phase ELSE Failed}
    /\ objects' = [archive |-> Gone, manifest |-> Gone]
    /\ UNCHANGED <<source, edits, past, facts, sourceSide, disk, peer, settled>>

\* The daemon dies; the staging sibling stays on its disk.
TargetCrash ==
    /\ tpc \notin {"idle", "done"}
    /\ Fault
    /\ tpc' = "idle"
    /\ payload' = Gone /\ document' = Gone
    /\ UNCHANGED <<phase, staging, disk, peer>>
    /\ TargetFrame

-----------------------------------------------------------------------------
Outside ==
    \/ \E p \in Path : Edit(p)
    \/ \E p \in Path : PutOwn(p)
    \/ SyncSource
    \/ JobEnds

SourceStep ==
    \/ SourceStart \/ Hash \/ StartTar \/ Pack \/ FinishTar
    \/ UploadArchive \/ UploadManifest \/ RecordFacts
    \/ SourceBreaks \/ SourceCrash

TargetStep ==
    \/ TargetStart \/ GetArchive \/ GetManifest \/ Extract \/ Verify
    \/ Look \/ Rmdir \/ Rename
    \/ \E S \in SUBSET Path : Resync(S)
    \/ Complete \/ TargetBreaks \/ TargetCrash

Next == Outside \/ SourceStep \/ TargetStep

Spec == Init /\ [][Next]_vars

-----------------------------------------------------------------------------
(* Correctness                                                             *)

\* What is renamed into the target was the source's at one moment, file by
\* file, however the source was edited between the walk and tar and during
\* either, and no file the source always had is missing (verifyExtractedTree
\* against the manifest of buildSeedManifest).
PublishedIsSnapshot ==
    published # Gone =>
        /\ \E t \in past : \A p \in Path : published[p] # Absent => published[p] = t[p]
        /\ \A p \in Path : (\A t \in past : t[p] \notin {Absent, Link}) => published[p] # Absent

\* A seed is completed only if the target then held exactly a tree the source
\* had synced, files that were made during the seed included
\* (seedBaselineVerdict, "the ONLY gate").
CompletedIsSettled ==
    phase = Completed => \E t \in past : settled = Synced(t)

\* No file of the target's users is lost to the publication, whenever it
\* appears (publishStagedTree: readdir, rmdir, rename).
PublishSparesFiles ==
    [][\A p \in Path :
        tpc # "resync" /\ target # Gone /\ target[p] = Own => target' # Gone /\ target'[p] = Own]_vars
=============================================================================
