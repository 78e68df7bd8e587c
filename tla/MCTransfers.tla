----------------------------- MODULE MCTransfers -----------------------------
(***************************************************************************)
(* Small instances for TLC of what protects the files of a folder while    *)
(* they move: the destination lock, the archive of a seed and the two-way  *)
(* sync of a folder with its baseline.  One of them, named by "part", runs *)
(* in each behaviour, so that their state spaces add up and do not         *)
(* multiply.                                                               *)
(***************************************************************************)
EXTENDS MCDestinationLock

CONSTANTS Paths, SourceEdits, MaxOwn, MaxFaults, Absent, Link, Own, Gone,
          Filter, NoFilter, Strategies, FileEdits, RunFaults, MaxRetries

ASSUME ArchiveAssumption ==
    /\ Paths \in Nat /\ SourceEdits \in Nat /\ MaxOwn \in Nat /\ MaxFaults \in Nat
    /\ {Absent, Link, Own} \cap Nat = {}
    /\ Absent # Link /\ Absent # Own /\ Link # Own
    /\ Gone \notin [1 .. Paths -> 1 .. SourceEdits + 1 \cup {Absent, Link, Own}]

ASSUME BaselineAssumption ==
    /\ Filter # {} /\ None \notin Filter \cup {"remote", "local"}
    /\ Strategies \subseteq {"manual", "newer_wins", "source_wins", "keep_both"}
    /\ FileEdits \in Nat \ {0} /\ RunFaults \in Nat /\ MaxRetries \in Nat

VARIABLES
    part,      \* the protocol that runs
    source, sourceEdits, past, seedPhase, facts, objects, spc, next, manifest, before, archive,
    tpc, payload, document, staging, target, own, published, peer, settled, faults,
    file, fileEdits, strategy, filter, dir, run, ask, plan, conf, runFaults

Seed == INSTANCE SeedArchive
    WITH MaxEdits <- SourceEdits, edits <- sourceEdits, phase <- seedPhase

Sync == INSTANCE Bisync
    WITH MaxEdits <- FileEdits, MaxFaults <- RunFaults, edits <- fileEdits, faults <- runFaults

archiveVars == <<source, sourceEdits, past, seedPhase, facts, objects, spc, next, manifest,
                 before, archive, tpc, payload, document, staging, target, own, published,
                 peer, settled, faults>>
baselineVars == <<file, fileEdits, strategy, filter, dir, run, ask, plan, conf, runFaults>>
transferVars == <<part, vars, archiveVars, baselineVars>>

\* The protocols that do not run have one initial state.
TransfersInit ==
    /\ part \in {"lock", "archive", "baseline"}
    /\ Init
    /\ Seed!Init /\ (part # "archive" => target = Gone)
    /\ Sync!Init
    /\ part # "baseline" => /\ filter = (CHOOSE f \in Filter : TRUE)
                            /\ strategy = (CHOOSE s \in Strategies : TRUE)

LockStep == part = "lock" /\ Next /\ UNCHANGED <<part, archiveVars, baselineVars>>

ArchiveStep == part = "archive" /\ Seed!Next /\ UNCHANGED <<part, vars, baselineVars>>

BaselineStep == part = "baseline" /\ Sync!Next /\ UNCHANGED <<part, vars, archiveVars>>

TransfersSpec == TransfersInit /\ [][LockStep \/ ArchiveStep \/ BaselineStep]_transferVars

-----------------------------------------------------------------------------
(* Correctness                                                             *)

\* The files of a seed have their types, a published seed is a snapshot and a
\* completed one is settled (SeedArchive: verifyExtractedTree,
\* seedBaselineVerdict).
SeedIsSnapshot ==
    part = "archive" =>
        Seed!TypeOK /\ Seed!PublishedIsSnapshot /\ Seed!CompletedIsSettled

\* The publication loses no file of the target's users (SeedArchive:
\* publishStagedTree).
PublishSparesFiles == Seed!PublishSparesFiles

\* The workdir has its types and acknowledges only what its pair was made with
\* (Bisync: shouldAcknowledgeFilter).
AcknowledgedIsListed == part = "baseline" => Sync!Inv

\* rclone reuses no listings made under one set of rules under another one,
\* unless one of the two is empty (Bisync: reconcileFingerprint).
RulesKept == part = "baseline" => Sync!RulesKept

\* A run with this host as the authority leaves its file alone (Bisync:
\* buildRcloneCommand).
SeedKeepsLocal == Sync!SeedKeepsLocal
=============================================================================
