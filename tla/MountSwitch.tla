----------------------------- MODULE MountSwitch -----------------------------
(***************************************************************************)
(* One folder of one host that can be synced into a directory or mounted   *)
(* on it: the switch commands (final sync, trash, mount; stop, run, mode), *)
(* the reconciliation of mounts at boot and after a config refresh, the    *)
(* registry of rclone processes, the systemd unit that may own the mount,  *)
(* and the user who edits files meanwhile.                                 *)
(*                                                                         *)
(* A file is told apart by its name and the number of its edit: a          *)
(* directory maps each name to an edit, 0 when it has none.                *)
(***************************************************************************)
EXTENDS Naturals, FiniteSets

CONSTANTS File,        \* names of files
          Reconciler,  \* reconciliations that may overlap
          MaxEdits,    \* bound: edits of a file; one file at most reaches it
          MaxChanges,  \* bound: switches and changes of the assignment
          MaxFaults    \* bound: crashes, failed starts, lost answers

\* Every file starts at its first edit, and the switch and the timer are tasks
\* of their own.
ASSUME MountAssumption ==
    /\ MaxEdits \in Nat \ {0} /\ MaxChanges \in Nat /\ MaxFaults \in Nat
    /\ Reconciler # {} /\ Reconciler \cap {"switch", "timer"} = {}

VARIABLES
    mode,     \* effective type of the folder in the server's assignment
    cached,   \* the same in the daemon's cached config
    local,    \* the directory, whatever is mounted on it
    remote,   \* the destination
    base,     \* bisync's listing of the last run
    bin,      \* trash directory of the switch in flight
    bins,     \* trash directories of earlier switches
    purged,   \* history: some trash was purged
    newest,   \* the last edit the user made of each file
    exposed,  \* history: files last edited through a mount or amid a switch
    systemd,  \* systemd runs the mounts of this host
    unit,     \* the mount unit
    served,   \* whose FUSE mount is attached to the directory
    child,    \* the rclone child of the daemon
    pid,      \* whose process the pid file names
    reg,      \* the daemon's registry entry
    task,     \* where each asynchronous function of the daemon is
    changes, faults

files   == <<local, remote, base, newest, exposed>>
trash   == <<bin, bins, purged>>
mount   == <<unit, served, child, pid, reg>>
budget  == <<changes, faults>>
vars    == <<mode, cached, files, trash, systemd, mount, task, budget>>

Task == {"switch", "timer"} \union Reconciler
Edit == 0 .. MaxEdits
Dir  == [File -> Edit]
NoFiles == [f \in File |-> 0]
Mode == {"sync", "mount"}
Entry(status, proc) == [status |-> status, proc |-> proc]
Untracked == Entry("none", FALSE)

\* FUSE is attached and answers.
Served == served \in {"unit", "child", "bg"}
\* isProcessAlive of the process the pid file names.
PidAlive == pid \in {"unit", "child"}
\* isMountUnitActive.
UnitActive == unit \in {"active", "blocked"}
Tracked == reg.status # "none"
Booting == CHOOSE r \in Reconciler : TRUE

Fault == faults < MaxFaults /\ faults' = faults + 1
NoFault == UNCHANGED faults
Command == changes < MaxChanges /\ changes' = changes + 1
Becomes(t, pc) == task' = [task EXCEPT ![t] = pc]

Init ==
    /\ mode = "sync" /\ cached = "sync"
    /\ local = [f \in File |-> 1] /\ remote = local
    /\ base = local /\ newest = local /\ exposed = {}
    /\ bin = NoFiles /\ bins = {} /\ purged = FALSE
    /\ systemd \in BOOLEAN
    /\ unit = "off" /\ served = "none" /\ child = "none" /\ pid = "none"
    /\ reg = Untracked
    /\ task = [t \in Task |-> "idle"]
    /\ changes = 0 /\ faults = 0

-----------------------------------------------------------------------------
(* How a mount is started, by a switch, a reconciliation or the restart    *)
(* timer.                                                                  *)

\* A mutant: a failed switch removes its trash without restoring it.
RestoreNothing == local

\* Each entry of the trash is renamed over its old name.
restoreContentsFromTrash ==
    [f \in File |-> IF bin[f] # 0 THEN bin[f] ELSE local[f]]

\* The start returned: a switch arms the purge of its trash, releases its
\* lock and goes on to the mode of the assignment.
Started(t) ==
    /\ Becomes(t, IF t = "switch" THEN "flipMount" ELSE "idle")
    /\ IF t = "switch" /\ bin # NoFiles
       THEN bins' = bins \union {[files |-> bin, timed |-> TRUE]} /\ bin' = NoFiles
       ELSE UNCHANGED <<bin, bins>>
    /\ UNCHANGED <<local, purged>>

\* The start threw: a switch restores its trash and removes what is left.
StartFailed(t) ==
    /\ Becomes(t, "idle")
    /\ IF t = "switch"
       THEN local' = restoreContentsFromTrash /\ bin' = NoFiles
       ELSE UNCHANGED <<local, bin>>
    /\ UNCHANGED <<bins, purged>>

\* startMount up to its first await: an entry that is not dead is returned
\* as it is, a live mount of an earlier session is registered again, a stale
\* one is unmounted and an rclone child is spawned.
startMount(t, attached) ==
    \/ /\ reg.status \notin {"none", "dead"}
       /\ Started(t) /\ served' = attached
       /\ UNCHANGED <<child, pid, reg>>
    \/ /\ reg.status \in {"none", "dead"} /\ attached # "none" /\ PidAlive
       /\ reg' = Entry("mounted", FALSE)
       /\ Started(t) /\ served' = attached
       /\ UNCHANGED <<child, pid>>
    \/ /\ reg.status \in {"none", "dead"} /\ (attached # "none" => ~PidAlive)
       /\ served' = "none"
       /\ child' = IF t = "timer" THEN "doomed" ELSE "starting"
       /\ pid' = "child" /\ reg' = Entry("starting", TRUE)
       /\ Becomes(t, "childwait")
       /\ UNCHANGED <<local, trash>>

\* A mutant: the unit is started without asking whether systemd is there.
StartUnitAlways(t) ==
    /\ unit' = IF UnitActive THEN unit ELSE "active"
    /\ Becomes(t, "unitwait") /\ NoFault
    /\ UNCHANGED <<served, child, pid, reg, local, trash>>

\* systemdAwareStartMount up to its first await.
systemdAwareStartMount(t) ==
    \/ /\ systemd
       /\ unit' = IF UnitActive THEN unit ELSE "active"
       /\ Becomes(t, "unitwait") /\ NoFault
       /\ UNCHANGED <<served, child, pid, reg, local, trash>>
    \/ /\ ~systemd /\ startMount(t, served) /\ NoFault /\ UNCHANGED unit
    \/ /\ systemd /\ Fault        \* systemctl refuses the unit
       /\ startMount(t, served) /\ UNCHANGED unit

\* adoptMount: the pid file names a live process and FUSE is attached.
Adoptable == PidAlive /\ served # "none"

\* The unit was started: wait until it can be adopted, or fall back to a
\* child of the daemon once it is inactive or the deadline has passed.
AdoptUnit(t) ==
    /\ task[t] = "unitwait"
    /\ \/ /\ UnitActive /\ Adoptable
          /\ reg' = Entry("mounted", FALSE) /\ Started(t) /\ NoFault
          /\ UNCHANGED <<unit, served, child, pid>>
       \/ /\ ~UnitActive /\ NoFault
          /\ startMount(t, served) /\ unit' \in {unit, "off"}
       \/ /\ UnitActive /\ ~Adoptable
          /\ IF local # NoFiles \/ unit = "blocked" THEN NoFault ELSE Fault
          /\ unit' = "off"
          /\ startMount(t, served)
    /\ UNCHANGED <<mode, cached, remote, base, newest, exposed, systemd, changes>>

\* startMount after waitForMount.
ChildReady(t) ==
    /\ task[t] = "childwait"
    /\ \/ /\ served # "none" /\ NoFault
          /\ reg' = IF Tracked THEN [reg EXCEPT !.status = "mounted"] ELSE reg
          /\ Started(t) /\ UNCHANGED <<child, pid>>
       \/ /\ served = "none" /\ (IF child = "none" THEN NoFault ELSE Fault)
          /\ child' = "none" /\ pid' = "none" /\ reg' = Untracked
          /\ StartFailed(t)
    /\ UNCHANGED <<mode, cached, remote, base, newest, exposed, systemd, unit, served,
                   changes>>
-----------------------------------------------------------------------------
(* How a mount is stopped.                                                 *)

\* systemdAwareStopMount up to its first await: the unit is stopped and its
\* rclone with it, the entry is marked and a child of the daemon is killed.
\* Without an entry there is nothing to wait for and t goes on at next.
StopMount(t, stopping, next) ==
    LET afterUnit == IF systemd /\ served = "unit" THEN "none" ELSE served
        killed == reg.proc /\ child # "none"
    IN  /\ unit' = IF systemd THEN "off" ELSE unit
        /\ child' = IF killed THEN "none" ELSE child
        /\ served' = IF killed /\ afterUnit = "child" THEN "none" ELSE afterUnit
        /\ pid' = IF (systemd /\ pid = "unit") \/ (killed /\ pid = "child")
                  THEN "gone" ELSE pid
        /\ IF Tracked
           THEN /\ reg' = [reg EXCEPT !.status = "unmounting"]
                /\ task' = [task EXCEPT ![t] = stopping,
                               !["timer"] = IF @ = "armed" THEN "idle" ELSE @]
           ELSE UNCHANGED reg /\ Becomes(t, next)

\* stopMount after the child has gone: whatever is attached is unmounted and
\* the entry and its pid file are removed.
StopEnds(t) ==
    /\ task[t] \in {"stop", "restop"}
    /\ served' = "none" /\ pid' = "none" /\ reg' = Untracked
    /\ child' = IF served = "child" THEN "none" ELSE child
    /\ unit' = IF served = "unit" THEN "off" ELSE unit
    /\ Becomes(t, IF t = "switch" THEN "pull"
                  ELSE IF task[t] = "stop" THEN "idle" ELSE "start")
    /\ UNCHANGED <<mode, cached, files, trash, systemd, budget>>

-----------------------------------------------------------------------------
(* Runs of the folder: scheduled, watched, asked for, or of a switch.      *)

Newer(f) == IF local[f] > remote[f] THEN local[f] ELSE remote[f]
RemovedFrom(dir) == {f \in File : base[f] # 0 /\ dir[f] = 0}

\* What bisync makes of both sides: a removal is carried over unless the
\* other side was edited since the last listing.
Merged ==
    [f \in File |->
       IF \/ f \in RemovedFrom(local) /\ remote[f] = base[f]
          \/ f \in RemovedFrom(remote) /\ local[f] = base[f]
       THEN 0 ELSE Newer(f)]

\* More than half of the listed files are gone from the directory: bisync
\* aborts, and the executor reruns it as a resync.
TooManyRemoved ==
    2 * Cardinality(RemovedFrom(local)) > Cardinality({f \in File : base[f] # 0})
Resynced == [f \in File |-> IF remote[f] # 0 THEN remote[f] ELSE local[f]]

\* A run of type "sync". A mounted directory shows the destination itself.
SyncRun ==
    \/ UNCHANGED <<local, remote, base>>         \* paused, deferred or failed
    \/ /\ served = "none"
       /\ LET both == IF TooManyRemoved THEN Resynced ELSE Merged
          IN  local' = both /\ remote' = both /\ base' = both
    \/ /\ Served
       /\ base' = remote /\ UNCHANGED <<local, remote>>

\* A run of type "mount" starts "rclone mount --daemon", which refuses a
\* directory that has files or is mounted already.
MountRun ==
    \/ UNCHANGED served
    \/ served = "none" /\ local = NoFiles /\ served' = "bg"

\* runOnce with the type the cached config gives the folder.
Run ==
    /\ \/ cached = "sync" /\ SyncRun /\ UNCHANGED served
       \/ cached = "mount" /\ MountRun /\ UNCHANGED <<local, remote, base>>
    /\ UNCHANGED <<mode, cached, newest, exposed, trash, systemd, unit, child, pid, reg,
                   task, budget>>

-----------------------------------------------------------------------------
(* The switch commands of the local socket.                                *)

SwitchToMount ==
    /\ task["switch"] = "idle" /\ cached = "sync"
    /\ Command
    /\ Becomes("switch", "final")
    /\ UNCHANGED <<mode, cached, files, trash, systemd, mount, faults>>

\* The final sync; what it returns is not looked at.
FinalSync ==
    /\ task["switch"] = "final"
    /\ SyncRun
    /\ Becomes("switch", "trash")
    /\ UNCHANGED <<mode, cached, newest, exposed, trash, systemd, mount, budget>>

\* The directory's entries are renamed into the trash and the mount is
\* started. A directory that is still a mount cannot be renamed from, and a
\* rename that fails half-way leaves the entries moved so far in a trash the
\* switch does not restore, since it has not noted it yet.
TrashAndMount ==
    /\ task["switch"] = "trash"
    /\ \/ /\ served = "none" /\ local # NoFiles
          /\ bin' = local /\ local' = NoFiles
          /\ Becomes("switch", "start") /\ NoFault /\ UNCHANGED <<bins, purged>>
       \/ /\ \/ served = "stale"
             \/ Served /\ remote = NoFiles
             \/ served = "none" /\ local = NoFiles
          /\ Becomes("switch", "start") /\ NoFault /\ UNCHANGED <<local, trash>>
       \/ /\ Served /\ remote # NoFiles
          /\ Becomes("switch", "idle") /\ NoFault /\ UNCHANGED <<local, trash>>
       \/ /\ served = "none" /\ Fault
          /\ \E moved \in SUBSET {f \in File : local[f] # 0} :
               /\ local' = [f \in File |-> IF f \in moved THEN 0 ELSE local[f]]
               /\ bins' = IF moved = {} THEN bins
                          ELSE bins \union {[files |-> [f \in File |->
                                 IF f \in moved THEN local[f] ELSE 0], timed |-> FALSE]}
          /\ Becomes("switch", "idle") /\ UNCHANGED <<bin, purged>>
    /\ UNCHANGED <<mode, cached, remote, base, newest, exposed, systemd, mount, changes>>

\* The start that follows the trash, or the stop of a remount.
Start(t) ==
    /\ task[t] = "start"
    /\ systemdAwareStartMount(t)
    /\ UNCHANGED <<mode, cached, remote, base, newest, exposed, systemd, changes>>

\* updateAssignmentMode, which may fail without undoing the switch.
Flip ==
    /\ task["switch"] \in {"flipMount", "flipSync"}
    /\ \/ mode' = (IF task["switch"] = "flipMount" THEN "mount" ELSE "sync") /\ NoFault
       \/ Fault /\ UNCHANGED mode
    /\ Becomes("switch", "idle")
    /\ UNCHANGED <<cached, files, trash, systemd, mount, changes>>

SwitchToSync ==
    /\ task["switch"] = "idle" /\ cached = "mount"
    /\ Command
    /\ StopMount("switch", "stop", "pull")
    /\ UNCHANGED <<mode, cached, files, trash, systemd, faults>>

\* The run after the stop has the type the switch read when it began.
Pull ==
    /\ task["switch"] = "pull"
    /\ MountRun
    /\ Becomes("switch", "flipSync")
    /\ UNCHANGED <<mode, cached, files, trash, systemd, unit, child, pid, reg, budget>>

-----------------------------------------------------------------------------
(* Config refresh and reconcileMountsOnRefresh.                            *)

\* The pass has nothing to start or stop for the assignment.
Settled(r) ==
    Becomes(r, "idle") /\ UNCHANGED <<unit, served, child, pid, local, trash, faults>>

\* A mutant: the pass only starts mounts.
ReconcileStartsOnly(r, type) ==
    IF type = "mount" /\ ~UnitActive
    THEN systemdAwareStartMount(r)
    ELSE Settled(r) /\ UNCHANGED reg

\* A mutant: an entry in the registry counts as a mount.
ReconcileTracked(r, type) ==
    IF type = "mount" /\ ~Tracked
    THEN systemdAwareStartMount(r)
    ELSE IF type # "mount" /\ UnitActive
    THEN StopMount(r, "stop", "idle") /\ UNCHANGED <<local, trash, faults>>
    ELSE Settled(r) /\ UNCHANGED reg

\* The pass over the assignment with the type it has in the cached config.
Reconcile(r, type) ==
    IF type = "mount" /\ ~UnitActive
    THEN systemdAwareStartMount(r)
    ELSE IF type # "mount" /\ UnitActive
    THEN StopMount(r, "stop", "idle") /\ UNCHANGED <<local, trash, faults>>
    ELSE /\ Settled(r)
         /\ reg' = IF UnitActive /\ ~Tracked /\ Adoptable
                   THEN Entry("mounted", FALSE) ELSE reg

RefreshConfig(r) ==
    /\ task[r] = "idle"
    /\ cached' = mode
    /\ Reconcile(r, mode)
    /\ UNCHANGED <<mode, remote, base, newest, exposed, systemd, changes>>

\* A refresh that brings another cache mode for a tracked mount of the unit.
Remount(r) ==
    /\ task[r] = "idle" /\ mode = "mount" /\ UnitActive /\ Tracked
    /\ Command
    /\ cached' = mode
    /\ StopMount(r, "restop", "start")
    /\ UNCHANGED <<mode, files, trash, systemd, faults>>

\* Boot with a cached config reconciles before any refresh.
BootReconcile(r) ==
    /\ task[r] = "boot"
    /\ Reconcile(r, cached)
    /\ UNCHANGED <<mode, cached, remote, base, newest, exposed, systemd, changes>>

-----------------------------------------------------------------------------
(* The rclone processes, the unit, the daemon's timers and its death.      *)

\* rclone mounts a directory only when it is empty.
ChildMounts ==
    /\ child = "starting" /\ served = "none" /\ local = NoFiles
    /\ child' = "up" /\ served' = "child"
    /\ UNCHANGED <<mode, cached, files, trash, systemd, unit, pid, reg, task, budget>>

\* The child exits: by itself once it was up, or because it cannot mount. A
\* child the restart timer spawned has no config file any more. The watcher
\* of a mounted entry marks it dead and arms the restart timer.
ChildExits ==
    /\ child # "none"
    /\ IF \/ child = "doomed"
          \/ child = "starting" /\ (local # NoFiles \/ served # "none")
       THEN NoFault ELSE Fault
    /\ child' = "none"
    /\ pid' = IF pid = "child" THEN "gone" ELSE pid
    /\ served' \in (IF served = "child" THEN {"none", "stale"} ELSE {served})
    /\ IF child = "up" /\ Tracked /\ reg.status # "unmounting"
       THEN /\ reg' = [reg EXCEPT !.status = "dead"]
            /\ IF task["timer"] = "idle" THEN Becomes("timer", "armed") ELSE UNCHANGED task
       ELSE UNCHANGED <<reg, task>>
    /\ UNCHANGED <<mode, cached, files, trash, systemd, unit, changes>>

\* attemptRestart; after a failed one the entry is gone and no further
\* attempt is scheduled.
AttemptRestart ==
    /\ task["timer"] = "armed"
    /\ IF Tracked
       THEN startMount("timer", served)
       ELSE Becomes("timer", "idle") /\ UNCHANGED <<served, child, pid, reg, local, trash>>
    /\ UNCHANGED <<mode, cached, remote, base, newest, exposed, systemd, unit, budget>>

\* The health check finds a dead FUSE mount behind a mounted entry.
HealthCheck ==
    /\ reg.status = "mounted" /\ served = "stale"
    /\ reg' = [reg EXCEPT !.status = "dead"]
    /\ UNCHANGED <<mode, cached, files, trash, systemd, unit, served, child, pid, task,
                   budget>>

\* lamasyncd --mount: a live mount it does not own makes the unit wait for
\* ever, a stale or unrecorded one is unmounted first.
UnitMounts ==
    /\ unit = "active" /\ served # "unit"
    /\ \/ /\ served # "none" /\ PidAlive
          /\ unit' = "blocked" /\ UNCHANGED <<served, pid>>
       \/ /\ served # "none" => ~PidAlive
          /\ local = NoFiles
          /\ served' = "unit" /\ pid' = "unit" /\ UNCHANGED unit
    /\ child' = IF served = "child" /\ served' = "unit" THEN "none" ELSE child
    /\ UNCHANGED <<mode, cached, files, trash, systemd, reg, task, budget>>

\* The unit's rclone exits; with an error systemd starts the unit again.
UnitExits ==
    /\ unit = "active"
    /\ IF served # "unit" /\ local # NoFiles THEN NoFault ELSE Fault
    /\ served' = IF served = "unit" THEN "none" ELSE served
    /\ unit' \in {"failed"} \union (IF served = "unit" THEN {"off"} ELSE {})
    /\ pid' = "none"
    /\ UNCHANGED <<mode, cached, files, trash, systemd, child, reg, task, changes>>

UnitRestarts ==
    /\ unit = "failed" /\ unit' = "active"
    /\ UNCHANGED <<mode, cached, files, trash, systemd, served, child, pid, reg, task,
                   budget>>

\* The purge timer of a trash directory, a day after its switch: nothing the
\* daemon was waiting for then is still under way.
PurgeTrash(b) ==
    /\ b \in bins /\ b.timed
    /\ \A t \in Task : task[t] = "idle"
    /\ bins' = bins \ {b} /\ purged' = TRUE
    /\ UNCHANGED <<mode, cached, files, bin, systemd, mount, task, budget>>

\* The daemon dies or is restarted: its timers and tasks go with it, and its
\* child and the unit may or may not. It boots with the cached config.
CrashDaemon ==
    /\ Fault
    /\ bins' = {[b EXCEPT !.timed = FALSE] : b \in bins} \union
               (IF bin = NoFiles THEN {} ELSE {[files |-> bin, timed |-> FALSE]})
    /\ bin' = NoFiles /\ UNCHANGED purged
    /\ reg' = Untracked
    /\ task' = [t \in Task |-> IF t = Booting THEN "boot" ELSE "idle"]
    /\ \/ UNCHANGED <<unit, served, child, pid>>
       \/ /\ child' = "none" /\ pid' = IF pid = "child" THEN "gone" ELSE pid
          /\ served' \in (IF served = "child" THEN {"none", "stale"} ELSE {served})
          /\ UNCHANGED unit
       \/ /\ unit' = "off" /\ child' = "none" /\ pid' = "gone"
          /\ served' = IF served \in {"unit", "child"} THEN "none" ELSE served
    /\ UNCHANGED <<mode, cached, files, systemd, changes>>

-----------------------------------------------------------------------------
(* The user and the operator.                                              *)

UserEdits(f) ==
    /\ \A g \in File : newest[g] < MaxEdits
    /\ served # "stale"
    /\ newest' = [newest EXCEPT ![f] = @ + 1]
    /\ exposed' = IF Served \/ bin # NoFiles THEN exposed \union {f} ELSE exposed \ {f}
    /\ IF Served
       THEN remote' = [remote EXCEPT ![f] = newest'[f]] /\ UNCHANGED local
       ELSE local' = [local EXCEPT ![f] = newest'[f]] /\ UNCHANGED remote
    /\ UNCHANGED <<mode, cached, base, trash, systemd, mount, task, budget>>

SetMode ==
    /\ Command
    /\ mode' \in Mode \ {mode}
    /\ UNCHANGED <<cached, files, trash, systemd, mount, task, faults>>

-----------------------------------------------------------------------------
TaskStep(t) == AdoptUnit(t) \/ ChildReady(t) \/ Start(t) \/ StopEnds(t)
SwitchStep == FinalSync \/ TrashAndMount \/ Flip \/ Pull
UnitStep == UnitMounts \/ UnitRestarts

Next ==
    \/ SwitchToMount \/ SwitchToSync \/ SwitchStep
    \/ \E t \in Task : TaskStep(t)
    \/ \E r \in Reconciler : RefreshConfig(r) \/ Remount(r) \/ BootReconcile(r)
    \/ ChildMounts \/ ChildExits \/ AttemptRestart \/ HealthCheck
    \/ UnitStep \/ UnitExits
    \/ Run \/ \E b \in bins : PurgeTrash(b)
    \/ CrashDaemon \/ SetMode \/ \E f \in File : UserEdits(f)

Spec == Init /\ [][Next]_vars

\* The refresh timer recurs, an awaited call returns, systemd restarts a
\* failed unit and an rclone that can mount does. Nobody has to switch, edit
\* or run anything, and nothing has to fail.
Fairness ==
    /\ \A r \in Reconciler : WF_vars(RefreshConfig(r)) /\ WF_vars(BootReconcile(r))
    /\ \A t \in Task : WF_vars(TaskStep(t))
    /\ WF_vars(SwitchStep) /\ WF_vars(UnitStep)
    /\ WF_vars(ChildMounts) /\ WF_vars(ChildExits) /\ WF_vars(AttemptRestart)

FairSpec == Spec /\ Fairness

-----------------------------------------------------------------------------
TypeOK ==
    /\ mode \in Mode /\ cached \in Mode
    /\ {local, remote, base, bin, newest} \subseteq Dir
    /\ bins \subseteq [files : Dir, timed : BOOLEAN]
    /\ exposed \subseteq File
    /\ systemd \in BOOLEAN /\ purged \in BOOLEAN
    /\ unit \in {"off", "active", "blocked", "failed"}
    /\ systemd \/ unit = "off"
    /\ served \in {"none", "unit", "child", "bg", "stale"}
    /\ child \in {"none", "starting", "doomed", "up"}
    /\ pid \in {"none", "unit", "child", "gone"}
    /\ reg.status \in {"none", "starting", "mounted", "dead", "unmounting"}
    /\ reg.proc \in BOOLEAN
    /\ task["switch"] \in {"idle", "final", "trash", "start", "unitwait", "childwait",
                           "flipMount", "stop", "pull", "flipSync"}
    /\ task["timer"] \in {"idle", "armed", "childwait"}
    /\ \A r \in Reconciler : task[r] \in {"idle", "boot", "start", "unitwait",
                                           "childwait", "stop", "restop"}
    /\ changes \in 0 .. MaxChanges /\ faults \in 0 .. MaxFaults

\* The last edit of f is in the directory, at the destination or in a trash.
HasCopy(f) == newest[f] \in {local[f], remote[f], bin[f]} \union {b.files[f] : b \in bins}

\* Until a trash is purged, a day after its switch, an edit made in the
\* directory while no trash is being filled or restored does not lose its
\* last copy: not to a switch that fails or crashes at any step, nor to a run
\* on a directory that was emptied or is mounted. Only a file made in an
\* emptied directory can be replaced, by the destination's version, when the
\* missing files make the run a resync.
LastCopyKept ==
    [][~purged' => \A f \in File \ (exposed \union exposed') :
          HasCopy(f) => \/ HasCopy(f)'
                        \/ TooManyRemoved /\ local'[f] = remote[f]]_vars

\* A mount of the unit that was left running when the host went back to
\* "sync" is stopped by a later reconciliation.
StaleMountStops ==
    (cached = "sync" /\ served = "unit") ~> (served # "unit" \/ mode = "mount")

\* Under systemd a folder of type "mount" is mounted, however often a start,
\* the unit or the daemon failed, unless files in the directory forbid it or
\* the unit waits behind a mount it does not own.
MountComesUp ==
    (systemd /\ mode = "mount")
        ~> (Served \/ mode = "sync" \/ local # NoFiles \/ unit = "blocked")

\* A mount follows the config it is configured by, in both directions.
MountFollowsConfig == StaleMountStops /\ MountComesUp

\* "switch-to-sync: stop the mount, run a one-way rclone copy to pull files
\* local": the switch leaves no mount on the directory.
SwitchStopsMount ==
    [][task["switch"] = "flipSync" /\ mode' = "sync" /\ mode # mode' => served # "bg"]_vars

=============================================================================
