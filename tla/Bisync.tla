------------------------------- MODULE Bisync -------------------------------
(***************************************************************************)
(* The two-way sync of one folder on one host: the runs of                 *)
(* executeAssignment with the bisync workdir they keep (listing pair,      *)
(* acknowledged filter fingerprint, resync marker), reviewed interventions *)
(* that wait for the folder's mutex, and the conflicts a run reports.      *)
(*                                                                         *)
(* The folder is one file; a version is the edit that wrote it and stands  *)
(* for its contents and its mtime.  The command places the remote at Path  *)
(* 1 and the local tree at Path 2.  rclone is external: it is modelled by  *)
(* what the code expects of it, its transfer being one step.               *)
(***************************************************************************)
EXTENDS Integers, FiniteSets

CONSTANTS
    Filter,          \* the filter universes an assignment can have
    NoFilter,        \* the one without any rule (not fingerprinted)
    Strategies,      \* the conflict strategies an assignment can have
    MaxEdits, MaxFaults, MaxRetries,
    None

Side == {"remote", "local"}
Version == 0 .. MaxEdits                     \* 0: there is no file
Other(s) == CHOOSE t \in Side : t # s

VARIABLES
    file,    \* the file on each side
    edits,
    strategy,
    filter,  \* what the ignore files and the assignment say now
    dir,     \* the workdir
    run,     \* the run that holds the folder's mutex
    ask,     \* an approved intervention on its way to runOnce
    plan,    \* the reviewed plan on the server
    conf,    \* the server's conflict row for the file
    faults

vars == <<file, edits, strategy, filter, dir, run, ask, plan, conf, faults>>

\* mkdirSync of a new workdir.
Empty == [lst |-> "none", under |-> None, base |-> [s \in Side |-> 0],
          fp |-> None, marker |-> FALSE]

Idle == [pc |-> "idle", control |-> "normal", filter |-> None,
         changed |-> FALSE, resync |-> None, tries |-> 0, conflict |-> FALSE]

NoAsk == [pc |-> "none", control |-> "normal"]

Control == {"normal"} \union Side

TypeOK ==
    /\ file \in [Side -> Version]
    /\ edits \in 0 .. MaxEdits
    /\ strategy \in Strategies
    /\ filter \in Filter
    /\ dir \in [lst : {"none", "ready", "busy", "error"},
                under : Filter \union {None}, base : [Side -> Version],
                fp : Filter \union {None}, marker : BOOLEAN]
    /\ run \in [pc : {"idle", "gate", "rclone", "rerun", "again", "post"},
                control : Control, filter : Filter \union {None},
                changed : BOOLEAN, resync : Side \union {None},
                tries : 0 .. MaxRetries, conflict : BOOLEAN]
    /\ ask \in [pc : {"none", "recheck", "run"}, control : Control]
    /\ plan \in {None} \union [control : Side, absent : BOOLEAN,
                              same : BOOLEAN, filter : Filter, zero : BOOLEAN]
    /\ conf \in [status : {"none", "pending", "resolved"},
                 resolution : {None, "local", "remote", "both"},
                 applied : BOOLEAN]
    /\ faults \in 0 .. MaxFaults

\* A host that joins a folder other hosts have filled.
Init ==
    /\ file = [s \in Side |-> IF s = "remote" THEN 1 ELSE 0]
    /\ edits = 1
    /\ strategy \in Strategies
    /\ filter \in Filter
    /\ dir = Empty
    /\ run = Idle
    /\ ask = NoAsk
    /\ plan = None
    /\ conf = [status |-> "none", resolution |-> None, applied |-> FALSE]
    /\ faults = 0

Fault == faults < MaxFaults /\ faults' = faults + 1

-----------------------------------------------------------------------------
(* The workdir.                                                            *)

\* inspectBisyncBaseline: "busy" is a pair with a .lst-new beside it, "error"
\* an .lst-err whose pair was renamed away.
Ready == dir.lst = "ready"
Present == dir.lst \in {"ready", "busy"}

\* A mutant: without a stored fingerprint there is no change.
FilterChangedStored == dir.fp \notin {None, filter} /\ filter # NoFilter

\* reconcileFingerprint: nothing is compared when there is no rule at all.
FilterChanged == filter # NoFilter /\ dir.fp # filter

\* bisyncResyncPlan: None, or the side that wins.
ResyncPlan(control, ready, changed) ==
    CASE control # "normal" -> control
      [] control = "normal" /\ (~ready \/ changed) -> "remote"
      [] OTHER -> None

\* The pair was rewritten or removed: baselineFingerprint differs from now on.
PairMoved == IF plan = None THEN None ELSE [plan EXCEPT !.same = FALSE]

\* A mutant: only the listings are set aside.
ArchiveListings ==
    dir' = [Empty EXCEPT !.fp = dir.fp] /\ plan' = PairMoved

\* archiveBisyncState: the whole workdir is renamed, the fingerprint and the
\* marker with it.
Archive == dir' = Empty /\ plan' = PairMoved

-----------------------------------------------------------------------------
(* A run.                                                                  *)

\* applyResolvedConflicts (strategy manual): a row that is resolved is
\* applied, and acknowledging it leaves it resolved.
Resolved == conf.status = "resolved" /\ strategy = "manual"

Applied ==
    IF conf.resolution = "local"
    THEN [file EXCEPT !["remote"] = file["local"]]
    ELSE [file EXCEPT !["local"] = file["remote"]]

ApplyResolved ==
    \/ /\ Resolved
       /\ file' = Applied
       /\ conf' = [conf EXCEPT !.applied = TRUE]
    \/ /\ ~Resolved
       /\ UNCHANGED <<file, conf>>

\* A mutant: a folder that waits for a forced resync is not started.
MutexFreeUnmarked == run.pc = "idle" /\ ~dir.marker

\* KeyedMutex.run: one run of the folder at a time.
MutexFree == run.pc = "idle"

\* The decisions before the first process: what to archive and whether to
\* resync.
StartRun(control) ==
    /\ MutexFree
    /\ ApplyResolved
    /\ IF /\ control # "normal" \/ ~Ready \/ FilterChanged
          /\ Present \/ dir.lst = "error"
       THEN Archive ELSE UNCHANGED <<dir, plan>>
    /\ run' = [Idle EXCEPT !.pc = "gate", !.control = control,
                           !.filter = filter, !.changed = FilterChanged,
                           !.resync = ResyncPlan(control, Ready, FilterChanged)]
    /\ UNCHANGED <<edits, filter, faults, strategy>>

Scheduled == StartRun("normal") /\ UNCHANGED ask

Intervene ==
    /\ ask.pc = "run"
    /\ StartRun(ask.control)
    /\ ask' = NoAsk

\* The report is made and runMutex goes to the next in line.
Return == run' = Idle

\* Disk space, pre-sync hook, spawning rclone: a refusal ends the run, after
\* the workdir was archived.
Gate ==
    /\ run.pc \in {"gate", "again"}
    /\ \/ run' = [run EXCEPT !.pc = "rclone"] /\ UNCHANGED faults
       \/ Fault /\ Return
    /\ UNCHANGED <<file, edits, filter, dir, ask, plan, conf, strategy>>

\* rclone cannot run without a listing pair unless it resyncs.
Unlisted == run.resync = None /\ ~Present

Changed(s) == file[s] # dir.base[s]

\* What a clean exit leaves: the winner's file everywhere after a resync (a
\* file only one side has is copied), else the one change propagated.
Synced ==
    CASE run.resync # None ->
           LET w == IF file[run.resync] # 0 THEN run.resync ELSE Other(run.resync)
           IN [s \in Side |-> file[w]]
      [] run.resync = None /\ \E s \in Side : Changed(s) /\ ~Changed(Other(s)) ->
           LET w == CHOOSE s \in Side : Changed(s) IN [s \in Side |-> file[w]]
      [] OTHER -> file

\* The process runs, for the first time in this attempt or in its recovery.
Running == run.pc \in {"rclone", "rerun"}

RcloneOk ==
    /\ Running
    /\ ~Unlisted
    /\ file' = Synced
    /\ dir' = [dir EXCEPT !.lst = "ready", !.under = run.filter, !.base = Synced]
    /\ plan' = PairMoved
    /\ run' = [run EXCEPT !.pc = "post",
                          !.conflict = Synced["local"] # Synced["remote"]]
    /\ UNCHANGED <<edits, filter, ask, conf, faults, strategy>>

\* After a run that did not end cleanly the marker names the filter that
\* waits to be acknowledged.
Marked(d) == [d EXCEPT !.marker = @ \/ run.changed]

\* The listings a killed rclone leaves.
Interrupted == [dir EXCEPT !.lst = IF Present THEN "busy" ELSE @]

\* attempt < maxAttempts.
MayRetry == run.tries < MaxRetries

\* A transient failure or a timeout: the same command again, or the end.
RcloneTransient ==
    /\ Running
    /\ ~Unlisted
    /\ \E d \in {dir, Interrupted} :
          IF MayRetry
          THEN /\ run' = [run EXCEPT !.pc = "again", !.tries = @ + 1]
               /\ dir' = d
               /\ UNCHANGED faults
          ELSE Fault /\ Return /\ dir' = Marked(d)
    /\ UNCHANGED <<file, edits, filter, ask, plan, conf, strategy>>

\* Cancelled by an operator, aborted for a lost lock, or failed for good.
RcloneStops ==
    /\ Running
    /\ ~Unlisted
    /\ Fault
    /\ \E d \in {dir, Interrupted} : dir' = Marked(d)
    /\ Return
    /\ UNCHANGED <<file, edits, filter, ask, plan, conf, strategy>>

\* A mutant: the recovery always falls back to Path 1.
RecoveryModeRemote == "remote"

\* --resync is added to a command that lacks it; without --resync-mode Path 1
\* wins.
RecoveryMode == IF run.resync = None THEN "remote" ELSE run.resync

\* "bisync aborted" and the other markers in its output: the workdir is
\* archived and the command run once more as a resync.
RcloneAborts ==
    /\ run.pc = "rclone"
    /\ IF Unlisted THEN UNCHANGED faults ELSE Fault
    /\ Archive
    /\ run' = [run EXCEPT !.pc = "rerun", !.resync = RecoveryMode]
    /\ UNCHANGED <<file, edits, filter, ask, conf, strategy>>

\* What made the first command abort is still there: the rerun aborts as well
\* and leaves its .lst-err.
RcloneCritical ==
    /\ run.pc = "rerun"
    /\ dir' = Marked([dir EXCEPT !.lst = "error"])
    /\ plan' = PairMoved
    /\ Return
    /\ UNCHANGED <<file, edits, filter, ask, conf, faults, strategy>>

\* pickConflictAction with what parseBisyncConflicts hands it: the mtime of
\* path1 is taken for the local one.
ConflictWinner ==
    CASE strategy = "source_wins" -> "local"
      [] strategy = "newer_wins" /\ dir.base["remote"] > dir.base["local"] -> "local"
      [] OTHER -> "remote"

\* shouldAcknowledgeFilter, after a clean exit that left a ready pair.
Acknowledge ==
    IF run.changed THEN [dir EXCEPT !.fp = run.filter, !.marker = FALSE] ELSE dir

\* The conflict is queued for the user or settled by the strategy; a copy or
\* a request that fails leaves it to the user, or to nobody.
SettleConflict ==
    \/ /\ ~run.conflict
       /\ UNCHANGED <<file, conf, faults>>
    \/ /\ run.conflict /\ strategy = "manual"
       /\ conf' = [status |-> "pending", resolution |-> None, applied |-> FALSE]
       /\ UNCHANGED <<file, faults>>
    \/ /\ run.conflict /\ strategy # "manual"
       /\ file' = [s \in Side |-> file[ConflictWinner]]
       /\ UNCHANGED <<conf, faults>>
    \/ /\ run.conflict /\ Fault
       /\ UNCHANGED <<file, conf>>

\* The post-sync hook, whose failure ends the run before anything is
\* acknowledged; then the acknowledgement, the conflicts and the report.
Finish ==
    /\ run.pc = "post"
    /\ \/ dir' = Acknowledge /\ SettleConflict
       \/ Fault /\ UNCHANGED <<file, dir, conf>>
    /\ Return
    /\ UNCHANGED <<edits, filter, ask, plan, strategy>>

-----------------------------------------------------------------------------
(* Interventions.                                                          *)

\* buildSyncPlan: a dry run under the mutex, then the fingerprints.
Plan(side) ==
    /\ run.pc = "idle"
    /\ plan' = [control |-> side, absent |-> ~Present, same |-> TRUE,
                filter |-> filter, zero |-> file["local"] = file["remote"]]
    /\ UNCHANGED <<file, edits, filter, dir, run, ask, conf, faults, strategy>>

\* verifyPlanAgainstLive.
PlanValid ==
    /\ plan.filter = filter
    /\ IF plan.absent THEN ~Present ELSE Present /\ plan.same

\* folder_intervention: verified before the mutex is asked for; a plan
\* without changes is proved once more by a dry run.
Approve ==
    /\ plan # None
    /\ ask.pc = "none"
    /\ PlanValid
    /\ ask' = [pc |-> IF plan.zero THEN "recheck" ELSE "run",
               control |-> plan.control]
    /\ UNCHANGED <<file, edits, filter, dir, run, plan, conf, faults, strategy>>

\* recheckZeroContentExecution.
Recheck ==
    /\ ask.pc = "recheck"
    /\ run.pc = "idle"
    /\ ask' = IF file["local"] = file["remote"] THEN [ask EXCEPT !.pc = "run"]
                                                ELSE NoAsk
    /\ UNCHANGED <<file, edits, filter, dir, run, plan, conf, faults, strategy>>

-----------------------------------------------------------------------------
(* The surroundings.                                                       *)

\* A user or another host changes the file; a deletion is not told apart.
Edit(s) ==
    /\ edits < MaxEdits
    /\ edits' = edits + 1
    /\ file' = [file EXCEPT ![s] = edits + 1]
    /\ UNCHANGED <<filter, dir, run, ask, plan, conf, faults, strategy>>

ChangeFilter ==
    /\ filter' \in Filter \ {filter}
    /\ UNCHANGED <<file, edits, dir, run, ask, plan, conf, faults, strategy>>

\* POST /conflicts/:id/resolve by the user.
Resolve ==
    /\ conf.status = "pending"
    /\ \E r \in {"local", "remote", "both"} :
          conf' = [status |-> "resolved", resolution |-> r, applied |-> FALSE]
    /\ UNCHANGED <<file, edits, filter, dir, run, ask, plan, faults, strategy>>

\* The daemon dies, in a run or between two.
Crash ==
    /\ run.pc # "idle" \/ ask.pc # "none"
    /\ Fault
    /\ run' = Idle
    /\ ask' = NoAsk
    /\ dir' = IF Running THEN Interrupted ELSE dir
    /\ UNCHANGED <<file, edits, filter, plan, conf, strategy>>

RunStep ==
    \/ Scheduled \/ Intervene
    \/ Gate \/ RcloneOk \/ RcloneTransient \/ RcloneStops \/ RcloneAborts
    \/ RcloneCritical \/ Finish

Next ==
    \/ RunStep
    \/ \E s \in Side : Plan(s) \/ Edit(s)
    \/ Approve \/ Recheck \/ ChangeFilter \/ Resolve \/ Crash

Spec == Init /\ [][Next]_vars

\* The schedule fires again and a run goes on.
FairSpec == Spec /\ WF_vars(RunStep)

-----------------------------------------------------------------------------
\* rclone works without --resync only on listings of the filter it is given,
\* whatever failed, crashed or was changed back between detecting a change and
\* acknowledging it, unless one of the two filters is the empty one, which
\* executeAssignment gives no fingerprint (reconcileFingerprint,
\* shouldAcknowledgeFilter, the marker).
RulesKept ==
    Running /\ run.resync = None /\ Present
        => dir.under = run.filter \/ NoFilter \in {dir.under, run.filter}

\* "A changed universe must never silently reuse stale listings": so with no
\* exception (bisync-baseline.ts, on filterUniverseChanged).
FreshListings ==
    Running /\ run.resync = None /\ Present => dir.under = run.filter

\* What is acknowledged is what the pair was made with, or the pair was made
\* since without any rules; and while a marker waits for a forced resync
\* nothing is acknowledged (shouldAcknowledgeFilter).
AcknowledgedIsListed ==
    dir.fp # None => ~dir.marker /\ (Present => dir.under \in {dir.fp, NoFilter})

\* The state invariant: types, and what is acknowledged.
Inv == TypeOK /\ AcknowledgedIsListed

\* A run approved with this host as the authority never replaces or deletes
\* the local file, its recovery and its retries included.
SeedKeepsLocal ==
    [][run.control = "local" /\ Running /\ file["local"] # 0
          /\ edits' = edits => file'["local"] = file["local"]]_vars

=============================================================================
