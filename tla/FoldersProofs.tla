---------------------------- MODULE FoldersProofs ----------------------------
(***************************************************************************)
(* What TLAPS proves of the two protocols about a folder on its hosts: of  *)
(* the switch between sync and mount (MountSwitch), its types and that the *)
(* last copy of a file outlives a switch that fails, dies or meets a run;  *)
(* of the health the server shows (FolderHealth), that it is its own.      *)
(***************************************************************************)
EXTENDS MCFolders, FiniteSetTheorems, WellFoundedInduction, TLAPS

-----------------------------------------------------------------------------
(* The switch between sync and mount: its inductive invariant              *)

SwitchPc == {"idle", "final", "trash", "start", "unitwait", "childwait",
             "flipMount", "stop", "pull", "flipSync"}
TimerPc == {"idle", "armed", "childwait"}
PassPc == {"idle", "boot", "start", "unitwait", "childwait", "stop", "restop"}

\* Where a task can be.
PcOf(t) == IF t = "switch" THEN SwitchPc ELSE IF t = "timer" THEN TimerPc ELSE PassPc
Pc == SwitchPc \cup TimerPc \cup PassPc

RegEntry == [status : {"none", "starting", "mounted", "dead", "unmounting"}, proc : BOOLEAN]
Bin == [files : Dir, timed : BOOLEAN]

TasksTyped == task \in [Task -> Pc] /\ \A t \in Task : task[t] \in PcOf(t)

MountTyped ==
    /\ systemd \in BOOLEAN
    /\ unit \in {"off", "active", "blocked", "failed"} /\ (systemd \/ unit = "off")
    /\ served \in {"none", "unit", "child", "bg", "stale"}
    /\ child \in {"none", "starting", "doomed", "up"}
    /\ pid \in {"none", "unit", "child", "gone"}
    /\ reg \in RegEntry

BudgetTyped ==
    /\ mode \in Mode /\ cached \in Mode
    /\ changes \in 0 .. MaxChanges /\ faults \in 0 .. MaxFaults

FilesTyped ==
    /\ local \in Dir /\ remote \in Dir /\ base \in Dir /\ bin \in Dir /\ newest \in Dir
    /\ bins \subseteq Bin /\ exposed \subseteq File /\ purged \in BOOLEAN

\* Only a switch that starts its mount has a trash it may still restore.
Starting == {"start", "unitwait", "childwait"}
BinOfStart == bin # NoFiles => task["switch"] \in Starting

SwitchTypes == TasksTyped /\ MountTyped /\ BudgetTyped /\ FilesTyped /\ BinOfStart

\* No version is younger than the user's last edit, and every file has one.
NewestLast ==
    \A f \in File : /\ newest[f] >= 1 /\ local[f] <= newest[f] /\ remote[f] <= newest[f]
                    /\ bin[f] <= newest[f]

\* What is listed is at the destination.
ListedIsRemote == \A f \in File : remote[f] = 0 => base[f] = 0

InBins(f) == \E b \in bins : b.files[f] = newest[f]

\* The last edit of a file made in the directory is there or in a trash, if it
\* is anywhere, and a trash that may be restored replaces it by nothing else.
LastEditLocal ==
    ~purged => \A f \in File \ exposed : HasCopy(f) =>
        /\ newest[f] \in {local[f], bin[f]} \/ InBins(f)
        /\ bin[f] \in {0, newest[f]} \/ InBins(f)

-----------------------------------------------------------------------------
(* What a step of Next does to the files and the trash, whatever the mount *)
(* does meanwhile.                                                         *)

ControlTypes == TasksTyped /\ MountTyped /\ BudgetTyped

\* A trash being filled or restored is still that of a switch that starts.
BinKept == bin = NoFiles \/ task'["switch"] \in Starting

TrashRests == BinKept /\ UNCHANGED <<local, trash>>
TrashLeft ==
    /\ bins' = bins \cup {[files |-> bin, timed |-> TRUE]} /\ bin' = NoFiles
    /\ UNCHANGED <<local, purged>>
TrashRestored ==
    /\ local' = restoreContentsFromTrash /\ bin' = NoFiles
    /\ UNCHANGED <<bins, purged>>

\* What a start of the mount does to the trash of the switch that asked for it.
StartEffect == TrashRests \/ TrashLeft \/ TrashRestored

OthersRest == UNCHANGED <<remote, base, newest, exposed>>

RunEffect ==
    /\ SyncRun /\ BinKept
    /\ UNCHANGED <<trash, newest, exposed>>

TrashEffect ==
    /\ bin = NoFiles /\ OthersRest /\ UNCHANGED purged
    /\ \/ /\ bin' = local /\ local' = NoFiles /\ UNCHANGED bins
          /\ task'["switch"] \in Starting
       \/ /\ UNCHANGED bin
          /\ \E moved \in SUBSET {f \in File : local[f] # 0} :
               /\ local' = [f \in File |-> IF f \in moved THEN 0 ELSE local[f]]
               /\ bins' = IF moved = {} THEN bins
                          ELSE bins \union {[files |-> [f \in File |->
                                 IF f \in moved THEN local[f] ELSE 0], timed |-> FALSE]}

PurgeEffect ==
    /\ BinKept /\ OthersRest /\ UNCHANGED <<local, bin>>
    /\ bins' \subseteq bins /\ purged' = TRUE

CrashEffect ==
    /\ OthersRest /\ UNCHANGED <<local, purged>>
    /\ bins' = {[b EXCEPT !.timed = FALSE] : b \in bins} \union
               (IF bin = NoFiles THEN {} ELSE {[files |-> bin, timed |-> FALSE]})
    /\ bin' = NoFiles

EditEffect ==
    /\ BinKept /\ UNCHANGED <<base, trash>>
    /\ \E f \in File :
         /\ \A g \in File : newest[g] < MaxEdits
         /\ newest' = [newest EXCEPT ![f] = @ + 1]
         /\ exposed' = IF Served \/ bin # NoFiles THEN exposed \union {f} ELSE exposed \ {f}
         /\ IF Served
            THEN remote' = [remote EXCEPT ![f] = newest'[f]] /\ UNCHANGED local
            ELSE local' = [local EXCEPT ![f] = newest'[f]] /\ UNCHANGED remote

FileStep ==
    \/ StartEffect /\ OthersRest
    \/ RunEffect \/ TrashEffect \/ PurgeEffect \/ CrashEffect \/ EditEffect

-----------------------------------------------------------------------------
\* A task that goes on to a place of its own leaves the others where they are.
LEMMA TaskMoves ==
    ASSUME TasksTyped, NEW t \in Task, NEW pc \in PcOf(t), Becomes(t, pc)
    PROVE  /\ TasksTyped' /\ task'[t] = pc
           /\ \A u \in Task \ {t} : task'[u] = task[u]
<1>1. pc \in Pc BY DEF PcOf, Pc
<1>2. task' \in [Task -> Pc] /\ task'[t] = pc /\ \A u \in Task \ {t} : task'[u] = task[u]
    BY <1>1 DEF Becomes, TasksTyped
<1>3. TasksTyped' BY <1>2 DEF TasksTyped
<1> QED BY <1>2, <1>3

\* An entry of the registry keeps its fields' types.
LEMMA EntryTyped ==
    /\ Untracked \in RegEntry
    /\ \A b \in BOOLEAN : \A s \in {"none", "starting", "mounted", "dead", "unmounting"} :
         Entry(s, b) \in RegEntry
    /\ \A r \in RegEntry : \A s \in {"none", "starting", "mounted", "dead", "unmounting"} :
         [r EXCEPT !.status = s] \in RegEntry
BY DEF Untracked, Entry, RegEntry

\* A task that is not the switch leaves its trash to it.
LEMMA OtherTask ==
    ASSUME ControlTypes, BinOfStart, NEW t \in Task, NEW pc \in PcOf(t), Becomes(t, pc),
           t # "switch" \/ pc \in Starting
    PROVE  TasksTyped' /\ BinKept
<1>1. "switch" \in Task BY DEF Task
<1>2. TasksTyped' /\ task'[t] = pc /\ \A u \in Task \ {t} : task'[u] = task[u]
    BY TaskMoves DEF ControlTypes
<1> QED BY <1>1, <1>2 DEF BinKept, BinOfStart

LEMMA StartSucceeds ==
    ASSUME ControlTypes, BinOfStart, NEW t \in Task, Started(t)
    PROVE  TasksTyped' /\ StartEffect
<1>1. CASE t = "switch"
  <2>1. Becomes(t, "flipMount") /\ "flipMount" \in PcOf(t)
      BY <1>1 DEF Started, PcOf, SwitchPc
  <2>2. TasksTyped' BY <2>1, TaskMoves DEF ControlTypes
  <2>3. StartEffect
      BY <1>1 DEF Started, StartEffect, TrashRests, TrashLeft, BinKept, trash
  <2> QED BY <2>2, <2>3
<1>2. CASE t # "switch"
  <2>1. Becomes(t, "idle") /\ "idle" \in PcOf(t)
      BY <1>2 DEF Started, PcOf, TimerPc, PassPc
  <2>2. TasksTyped' /\ BinKept BY <1>2, <2>1, OtherTask
  <2>3. UNCHANGED <<local, trash>> BY <1>2 DEF Started, trash
  <2> QED BY <2>2, <2>3 DEF StartEffect, TrashRests
<1> QED BY <1>1, <1>2

LEMMA StartFails ==
    ASSUME ControlTypes, BinOfStart, NEW t \in Task, StartFailed(t)
    PROVE  TasksTyped' /\ StartEffect
<1>1. Becomes(t, "idle") /\ "idle" \in PcOf(t)
    BY DEF StartFailed, PcOf, SwitchPc, TimerPc, PassPc
<1>2. CASE t = "switch"
  <2>1. TasksTyped' BY <1>1, TaskMoves DEF ControlTypes
  <2>2. StartEffect BY <1>2 DEF StartFailed, StartEffect, TrashRestored
  <2> QED BY <2>1, <2>2
<1>3. CASE t # "switch"
  <2>1. TasksTyped' /\ BinKept BY <1>1, <1>3, OtherTask
  <2>2. UNCHANGED <<local, trash>> BY <1>3 DEF StartFailed, trash
  <2> QED BY <2>1, <2>2 DEF StartEffect, TrashRests
<1> QED BY <1>2, <1>3

\* What is attached to the directory and the processes behind it have the
\* types they had.
ProcsTyped ==
    /\ served' \in {"none", "unit", "child", "bg", "stale"}
    /\ child' \in {"none", "starting", "doomed", "up"}
    /\ pid' \in {"none", "unit", "child", "gone"}
    /\ reg' \in RegEntry
UnitTyped ==
    /\ unit' \in {"off", "active", "blocked", "failed"} /\ (systemd \/ unit' = "off")

LEMMA MountStarts ==
    ASSUME ControlTypes, BinOfStart, NEW t \in Task, startMount(t, served)
    PROVE  TasksTyped' /\ StartEffect /\ ProcsTyped
<1> USE DEF ControlTypes, MountTyped
<1>1. CASE Started(t) /\ served' = served /\ UNCHANGED <<child, pid, reg>>
    BY <1>1, StartSucceeds DEF ProcsTyped
<1>2. CASE /\ reg' = Entry("mounted", FALSE)
           /\ Started(t) /\ served' = served /\ UNCHANGED <<child, pid>>
  <2>1. reg' \in RegEntry BY <1>2, EntryTyped
  <2> QED BY <1>2, <2>1, StartSucceeds DEF ProcsTyped
<1>3. CASE /\ served' = "none"
           /\ child' = IF t = "timer" THEN "doomed" ELSE "starting"
           /\ pid' = "child" /\ reg' = Entry("starting", TRUE)
           /\ Becomes(t, "childwait")
           /\ UNCHANGED <<local, trash>>
  <2>1. reg' \in RegEntry BY <1>3, EntryTyped
  <2>2. "childwait" \in PcOf(t) /\ "childwait" \in Starting
      BY DEF PcOf, SwitchPc, TimerPc, PassPc, Starting
  <2>3. TasksTyped' /\ BinKept BY <1>3, <2>2, OtherTask
  <2> QED BY <1>3, <2>1, <2>3 DEF StartEffect, TrashRests, ProcsTyped
<1> QED BY <1>1, <1>2, <1>3 DEF startMount

LEMMA AwareStarts ==
    ASSUME ControlTypes, BinOfStart, NEW t \in Task \ {"timer"}, systemdAwareStartMount(t)
    PROVE  TasksTyped' /\ StartEffect /\ ProcsTyped /\ UnitTyped /\ faults' \in 0 .. MaxFaults
<1> USE DEF ControlTypes, MountTyped, BudgetTyped, NoFault, Fault
<1>0. MaxFaults \in Nat BY MountAssumption
<1>1. CASE /\ systemd
           /\ unit' = IF UnitActive THEN unit ELSE "active"
           /\ Becomes(t, "unitwait") /\ NoFault
           /\ UNCHANGED <<served, child, pid, reg, local, trash>>
  <2>1. "unitwait" \in PcOf(t) /\ "unitwait" \in Starting
      BY DEF PcOf, SwitchPc, PassPc, Starting
  <2>2. TasksTyped' /\ BinKept BY <1>1, <2>1, OtherTask
  <2> QED BY <1>1, <2>2 DEF StartEffect, TrashRests, ProcsTyped, UnitTyped
<1>2. CASE startMount(t, served) /\ UNCHANGED unit /\ (NoFault \/ Fault)
  <2>1. TasksTyped' /\ StartEffect /\ ProcsTyped BY <1>2, MountStarts
  <2>2. faults' \in 0 .. MaxFaults BY <1>0, <1>2
  <2> QED BY <1>2, <2>1, <2>2 DEF UnitTyped
<1> QED BY <1>1, <1>2 DEF systemdAwareStartMount

\* The faults of a behaviour are counted up to their bound.
LEMMA FaultsBounded ==
    ASSUME BudgetTyped, NoFault \/ Fault
    PROVE  faults' \in 0 .. MaxFaults
<1>1. MaxFaults \in Nat BY MountAssumption
<1>2. CASE NoFault BY <1>2 DEF NoFault, BudgetTyped
<1>3. CASE Fault BY <1>1, <1>3 DEF Fault, BudgetTyped
<1> QED BY <1>2, <1>3

\* A stop of the mount moves the task that asks for it, and the timer.
LEMMA MountStops ==
    ASSUME ControlTypes, BinOfStart, NEW t \in Task \ {"timer"}, t # "switch" \/ bin = NoFiles,
           NEW stopping \in PcOf(t), NEW next \in PcOf(t), StopMount(t, stopping, next)
    PROVE  TasksTyped' /\ BinKept /\ ProcsTyped /\ UnitTyped
<1> USE DEF ControlTypes
<1>1. ProcsTyped /\ UnitTyped
  <2>1. reg' \in RegEntry
      BY EntryTyped DEF StopMount, MountTyped
  <2>2. served' \in {"none", "unit", "child", "bg", "stale"}
      BY DEF StopMount, MountTyped
  <2>3. child' \in {"none", "starting", "doomed", "up"}
      BY DEF StopMount, MountTyped
  <2>4. pid' \in {"none", "unit", "child", "gone"}
      BY DEF StopMount, MountTyped
  <2>5. UnitTyped BY DEF StopMount, MountTyped, UnitTyped
  <2> QED BY <2>1, <2>2, <2>3, <2>4, <2>5 DEF ProcsTyped
<1>2. CASE Tracked
  <2>1. task' = [task EXCEPT ![t] = stopping,
                    !["timer"] = IF @ = "armed" THEN "idle" ELSE @]
      BY <1>2 DEF StopMount
  <2>2. "timer" \in Task /\ "switch" \in Task /\ stopping \in Pc /\ "idle" \in Pc
      BY DEF Task, PcOf, Pc, PassPc
  <2>3. /\ task' \in [Task -> Pc] /\ task'[t] = stopping
        /\ task'["timer"] \in {"idle", task["timer"]}
        /\ \A u \in Task \ {t, "timer"} : task'[u] = task[u]
      BY <2>1, <2>2 DEF TasksTyped
  <2>4. task'["timer"] \in PcOf("timer")
      BY <2>2, <2>3 DEF TasksTyped, PcOf, TimerPc
  <2>5. TasksTyped' BY <2>3, <2>4 DEF TasksTyped
  <2>6. BinKept BY <2>2, <2>3 DEF BinKept, BinOfStart
  <2> QED BY <1>1, <2>5, <2>6
<1>3. CASE ~Tracked
  <2>1. Becomes(t, next) BY <1>3 DEF StopMount
  <2>2. TasksTyped' /\ \A u \in Task \ {t} : task'[u] = task[u]
      BY <2>1, TaskMoves
  <2>3. BinKept BY <2>2 DEF BinKept, BinOfStart, Task
  <2> QED BY <1>1, <2>2, <2>3
<1> QED BY <1>2, <1>3

\* A pass over the assignment starts its mount, stops it, or leaves it.
LEMMA PassReconciles ==
    ASSUME ControlTypes, BinOfStart, NEW r \in Reconciler, NEW type, Reconcile(r, type)
    PROVE  TasksTyped' /\ StartEffect /\ ProcsTyped /\ UnitTyped /\ faults' \in 0 .. MaxFaults
<1> USE DEF ControlTypes
<1>1. /\ r \in Task \ {"timer"} /\ r # "switch"
      /\ "stop" \in PcOf(r) /\ "idle" \in PcOf(r)
    BY MountAssumption DEF Task, PcOf, PassPc
<1>2. CASE systemdAwareStartMount(r)
    BY <1>1, <1>2, AwareStarts
<1>3. CASE StopMount(r, "stop", "idle") /\ UNCHANGED <<local, trash, faults>>
  <2>1. TasksTyped' /\ BinKept /\ ProcsTyped /\ UnitTyped BY <1>1, <1>3, MountStops
  <2> QED BY <1>3, <2>1 DEF StartEffect, TrashRests, BudgetTyped
<1>4. CASE /\ Settled(r)
           /\ reg' = IF UnitActive /\ ~Tracked /\ Adoptable
                     THEN Entry("mounted", FALSE) ELSE reg
  <2>1. reg' \in RegEntry BY <1>4, EntryTyped DEF MountTyped
  <2>2. TasksTyped' /\ BinKept BY <1>1, <1>4, OtherTask DEF Settled
  <2>3. ProcsTyped /\ UnitTyped BY <1>4, <2>1 DEF Settled, ProcsTyped, UnitTyped, MountTyped
  <2> QED BY <1>4, <2>2, <2>3 DEF Settled, StartEffect, TrashRests, BudgetTyped
<1> QED BY <1>2, <1>3, <1>4 DEF Reconcile

\* The steps of the tasks that start or stop the mount.
LEMMA TaskSteps ==
    ASSUME ControlTypes, BinOfStart, NEW t \in Task, TaskStep(t)
    PROVE  ControlTypes' /\ FileStep
<1> USE DEF ControlTypes
<1>1. CASE AdoptUnit(t)
  <2>1. OthersRest /\ UNCHANGED <<mode, cached, systemd, changes>> /\ t # "timer"
      BY <1>1 DEF AdoptUnit, OthersRest, TasksTyped, PcOf, TimerPc
  <2>2. /\ TasksTyped' /\ StartEffect /\ ProcsTyped
        /\ unit' \in {unit, "off"}
    <3>1. CASE /\ reg' = Entry("mounted", FALSE) /\ Started(t)
               /\ UNCHANGED <<unit, served, child, pid>>
        BY <3>1, StartSucceeds, EntryTyped DEF ProcsTyped, MountTyped
    <3>2. CASE startMount(t, served) /\ unit' \in {unit, "off"}
        BY <3>2, MountStarts
    <3> QED BY <1>1, <3>1, <3>2 DEF AdoptUnit
  <2>3. faults' \in 0 .. MaxFaults
      BY <1>1, FaultsBounded DEF AdoptUnit
  <2>4. MountTyped' BY <2>1, <2>2 DEF MountTyped, ProcsTyped
  <2> QED BY <2>1, <2>2, <2>3, <2>4 DEF FileStep, BudgetTyped
<1>2. CASE ChildReady(t)
  <2>1. OthersRest /\ UNCHANGED <<mode, cached, systemd, changes, unit>>
      BY <1>2 DEF ChildReady, OthersRest
  <2>2. TasksTyped' /\ StartEffect /\ ProcsTyped
    <3>1. CASE /\ reg' = IF Tracked THEN [reg EXCEPT !.status = "mounted"] ELSE reg
               /\ Started(t) /\ UNCHANGED <<child, pid, served>>
        BY <3>1, StartSucceeds, EntryTyped DEF ProcsTyped, MountTyped
    <3>2. CASE /\ child' = "none" /\ pid' = "none" /\ reg' = Untracked
               /\ StartFailed(t) /\ UNCHANGED served
        BY <3>2, StartFails, EntryTyped DEF ProcsTyped, MountTyped
    <3> QED BY <1>2, <3>1, <3>2 DEF ChildReady
  <2>3. faults' \in 0 .. MaxFaults
      BY <1>2, FaultsBounded DEF ChildReady
  <2>4. MountTyped' BY <2>1, <2>2 DEF MountTyped, ProcsTyped
  <2> QED BY <2>1, <2>2, <2>3, <2>4 DEF FileStep, BudgetTyped
<1>3. CASE Start(t)
  <2>1. OthersRest /\ UNCHANGED <<mode, cached, systemd, changes>> /\ t # "timer"
      BY <1>3 DEF Start, OthersRest, TasksTyped, PcOf, TimerPc
  <2>2. TasksTyped' /\ StartEffect /\ ProcsTyped /\ UnitTyped /\ faults' \in 0 .. MaxFaults
      BY <1>3, <2>1, AwareStarts DEF Start
  <2>3. MountTyped' BY <2>1, <2>2 DEF MountTyped, ProcsTyped, UnitTyped
  <2> QED BY <2>1, <2>2, <2>3 DEF FileStep, BudgetTyped
<1>4. CASE StopEnds(t)
  <2>1. UNCHANGED <<mode, cached, files, trash, systemd, budget>>
      BY <1>4 DEF StopEnds
  <2>2. t # "switch" \/ bin = NoFiles
      BY <1>4 DEF StopEnds, BinOfStart, Starting
  <2>3. \E pc \in PcOf(t) : Becomes(t, pc)
    <3>1. t # "timer" BY <1>4 DEF StopEnds, TasksTyped, PcOf, TimerPc
    <3>2. "pull" \in SwitchPc /\ "idle" \in PassPc /\ "start" \in PassPc
        BY DEF SwitchPc, PassPc
    <3> QED BY <1>4, <3>1, <3>2 DEF StopEnds, PcOf
  <2>4. TasksTyped' /\ BinKept
    <3>1. PICK pc \in PcOf(t) : Becomes(t, pc) BY <2>3
    <3>2. TasksTyped' /\ \A u \in Task \ {t} : task'[u] = task[u] BY <3>1, TaskMoves
    <3> QED BY <2>2, <3>2 DEF BinKept, BinOfStart, Task
  <2>5. MountTyped' /\ BudgetTyped'
      BY <1>4, <2>1, EntryTyped DEF StopEnds, MountTyped, BudgetTyped, budget
  <2> QED BY <2>1, <2>4, <2>5 DEF FileStep, StartEffect, TrashRests, OthersRest, files, trash
<1> QED BY <1>1, <1>2, <1>3, <1>4 DEF TaskStep

\* A step that leaves the files and the switch alone.
LEMMA RestingFiles ==
    ASSUME BinOfStart, UNCHANGED <<files, trash>>,
           bin = NoFiles \/ task'["switch"] = task["switch"]
    PROVE  FileStep
BY DEF FileStep, StartEffect, TrashRests, OthersRest, BinKept, BinOfStart, files, trash

\* The steps of the switch commands.
LEMMA SwitchSteps ==
    ASSUME ControlTypes, BinOfStart, SwitchToMount \/ SwitchToSync \/ SwitchStep
    PROVE  ControlTypes' /\ FileStep
<1> USE DEF ControlTypes
<1>0. "switch" \in Task \ {"timer"} /\ MaxChanges \in Nat BY MountAssumption DEF Task
<1>1. task["switch"] \notin Starting => bin = NoFiles BY DEF BinOfStart
<1>2. \A pc \in SwitchPc : Becomes("switch", pc) => TasksTyped' /\ task'["switch"] = pc
    BY <1>0, TaskMoves DEF PcOf
<1>3. CASE SwitchToMount
  <2>1. /\ UNCHANGED <<mode, cached, files, trash, systemd, mount, faults>>
        /\ task["switch"] = "idle" /\ changes < MaxChanges /\ changes' = changes + 1
      BY <1>3 DEF SwitchToMount, Command
  <2>2. TasksTyped' BY <1>2, <1>3 DEF SwitchToMount, SwitchPc
  <2>3. bin = NoFiles BY <1>1, <2>1 DEF Starting
  <2>4. MountTyped' BY <2>1 DEF mount, MountTyped
  <2>5. BudgetTyped' BY <1>0, <2>1 DEF BudgetTyped
  <2> QED BY <2>1, <2>2, <2>3, <2>4, <2>5, RestingFiles
<1>4. CASE SwitchToSync
  <2>1. /\ UNCHANGED <<mode, cached, files, trash, systemd, faults>>
        /\ task["switch"] = "idle" /\ changes < MaxChanges /\ changes' = changes + 1
        /\ StopMount("switch", "stop", "pull")
      BY <1>4 DEF SwitchToSync, Command
  <2>2. bin = NoFiles BY <1>1, <2>1 DEF Starting
  <2>3. "stop" \in PcOf("switch") /\ "pull" \in PcOf("switch") BY DEF PcOf, SwitchPc
  <2>4. TasksTyped' /\ ProcsTyped /\ UnitTyped BY <1>0, <2>1, <2>2, <2>3, MountStops
  <2>5. MountTyped' BY <2>1, <2>4 DEF MountTyped, ProcsTyped, UnitTyped
  <2>6. BudgetTyped' BY <1>0, <2>1 DEF BudgetTyped
  <2> QED BY <2>1, <2>2, <2>4, <2>5, <2>6, RestingFiles
<1>5. CASE FinalSync
  <2>1. /\ UNCHANGED <<mode, cached, newest, exposed, trash, systemd, mount, budget>>
        /\ task["switch"] = "final" /\ SyncRun
      BY <1>5 DEF FinalSync
  <2>2. TasksTyped' BY <1>2, <1>5 DEF FinalSync, SwitchPc
  <2>3. bin = NoFiles BY <1>1, <2>1 DEF Starting
  <2>4. MountTyped' /\ BudgetTyped' BY <2>1 DEF mount, budget, MountTyped, BudgetTyped
  <2> QED BY <2>1, <2>2, <2>3, <2>4 DEF FileStep, RunEffect, BinKept
<1>6. CASE TrashAndMount
  <2>1. /\ UNCHANGED <<mode, cached, remote, base, newest, exposed, systemd, mount, changes>>
        /\ task["switch"] = "trash" /\ (NoFault \/ Fault)
        /\ Becomes("switch", "start") \/ Becomes("switch", "idle")
      BY <1>6 DEF TrashAndMount
  <2>2. TasksTyped' BY <1>2, <2>1 DEF SwitchPc
  <2>3. bin = NoFiles BY <1>1, <2>1 DEF Starting
  <2>4. MountTyped' BY <2>1 DEF mount, MountTyped
  <2>5. BudgetTyped' BY <2>1, FaultsBounded DEF BudgetTyped
  <2>6. FileStep
    <3>1. CASE bin' = local /\ local' = NoFiles /\ Becomes("switch", "start")
               /\ UNCHANGED <<bins, purged>>
      <4>1. task'["switch"] \in Starting BY <1>2, <3>1 DEF SwitchPc, Starting
      <4> QED BY <2>1, <2>3, <3>1, <4>1 DEF FileStep, TrashEffect, OthersRest
    <3>2. CASE UNCHANGED <<local, trash>>
      <4>1. StartEffect BY <2>3, <3>2 DEF StartEffect, TrashRests, BinKept
      <4> QED BY <2>1, <4>1 DEF FileStep, OthersRest
    <3>3. CASE /\ UNCHANGED <<bin, purged>>
               /\ \E moved \in SUBSET {f \in File : local[f] # 0} :
                    /\ local' = [f \in File |-> IF f \in moved THEN 0 ELSE local[f]]
                    /\ bins' = IF moved = {} THEN bins
                               ELSE bins \union {[files |-> [f \in File |->
                                      IF f \in moved THEN local[f] ELSE 0], timed |-> FALSE]}
      BY <2>1, <2>3, <3>3 DEF FileStep, TrashEffect, OthersRest
    <3> QED BY <1>6, <3>1, <3>2, <3>3 DEF TrashAndMount
  <2> QED BY <2>2, <2>4, <2>5, <2>6
<1>7. CASE Flip
  <2>1. /\ UNCHANGED <<cached, files, trash, systemd, mount, changes>>
        /\ task["switch"] \in {"flipMount", "flipSync"} /\ (NoFault \/ Fault)
        /\ mode' \in Mode
      BY <1>7 DEF Flip, BudgetTyped, Mode
  <2>2. TasksTyped' BY <1>2, <1>7 DEF Flip, SwitchPc
  <2>3. bin = NoFiles BY <1>1, <2>1 DEF Starting
  <2>4. MountTyped' BY <2>1 DEF mount, MountTyped
  <2>5. BudgetTyped' BY <2>1, FaultsBounded DEF BudgetTyped
  <2> QED BY <2>1, <2>2, <2>3, <2>4, <2>5, RestingFiles
<1>8. CASE Pull
  <2>1. /\ UNCHANGED <<mode, cached, files, trash, systemd, unit, child, pid, reg, budget>>
        /\ task["switch"] = "pull" /\ served' \in {served, "bg"}
      BY <1>8 DEF Pull, MountRun
  <2>2. TasksTyped' BY <1>2, <1>8 DEF Pull, SwitchPc
  <2>3. bin = NoFiles BY <1>1, <2>1 DEF Starting
  <2>4. MountTyped' BY <2>1 DEF MountTyped
  <2>5. BudgetTyped' BY <2>1 DEF BudgetTyped, budget
  <2> QED BY <2>1, <2>2, <2>3, <2>4, <2>5, RestingFiles
<1> QED BY <1>3, <1>4, <1>5, <1>6, <1>7, <1>8 DEF SwitchStep

\* The steps of the reconciliations.
LEMMA PassSteps ==
    ASSUME ControlTypes, BinOfStart, NEW r \in Reconciler,
           RefreshConfig(r) \/ Remount(r) \/ BootReconcile(r)
    PROVE  ControlTypes' /\ FileStep
<1> USE DEF ControlTypes
<1>1. /\ r \in Task \ {"timer"} /\ r # "switch" /\ MaxChanges \in Nat
      /\ "restop" \in PcOf(r) /\ "start" \in PcOf(r)
    BY MountAssumption DEF Task, PcOf, PassPc
<1>2. CASE RefreshConfig(r) \/ BootReconcile(r)
  <2>1. /\ \E type \in Mode : Reconcile(r, type)
        /\ cached' \in Mode /\ OthersRest /\ UNCHANGED <<mode, systemd, changes>>
      BY <1>2 DEF RefreshConfig, BootReconcile, BudgetTyped, OthersRest
  <2>2. TasksTyped' /\ StartEffect /\ ProcsTyped /\ UnitTyped /\ faults' \in 0 .. MaxFaults
      BY <2>1, PassReconciles
  <2>3. MountTyped' BY <2>1, <2>2 DEF MountTyped, ProcsTyped, UnitTyped
  <2> QED BY <2>1, <2>2, <2>3 DEF FileStep, BudgetTyped
<1>3. CASE Remount(r)
  <2>1. /\ UNCHANGED <<mode, files, trash, systemd, faults>> /\ cached' = mode
        /\ changes < MaxChanges /\ changes' = changes + 1
        /\ StopMount(r, "restop", "start")
      BY <1>3 DEF Remount, Command
  <2>2. TasksTyped' /\ BinKept /\ ProcsTyped /\ UnitTyped BY <1>1, <2>1, MountStops
  <2>3. MountTyped' BY <2>1, <2>2 DEF MountTyped, ProcsTyped, UnitTyped
  <2>4. BudgetTyped' BY <1>1, <2>1 DEF BudgetTyped
  <2>5. FileStep BY <2>1, <2>2 DEF FileStep, StartEffect, TrashRests, OthersRest, files, trash
  <2> QED BY <2>2, <2>3, <2>4, <2>5
<1> QED BY <1>2, <1>3

\* The steps of the rclone processes, of the unit and of the timers.
LEMMA ProcessSteps ==
    ASSUME ControlTypes, BinOfStart,
           ChildMounts \/ ChildExits \/ AttemptRestart \/ HealthCheck \/ UnitStep \/ UnitExits
    PROVE  ControlTypes' /\ FileStep
<1> USE DEF ControlTypes
<1>0. "timer" \in Task /\ "switch" \in Task BY DEF Task
<1>1. UNCHANGED task => TasksTyped' BY DEF TasksTyped
<1>2. UNCHANGED budget /\ UNCHANGED <<mode, cached>> => BudgetTyped' BY DEF BudgetTyped, budget
<1>3. CASE ChildMounts \/ UnitStep
  <2>1. /\ UNCHANGED <<mode, cached, files, trash, systemd, reg, task, budget>>
        /\ unit' \in {unit, "blocked", "active"} /\ (unit # "off" \/ UNCHANGED unit)
        /\ served' \in {served, "child", "unit"} /\ child' \in {child, "up", "none"}
        /\ pid' \in {pid, "unit"}
      BY <1>3 DEF ChildMounts, UnitStep, UnitMounts, UnitRestarts
  <2>2. MountTyped' BY <2>1 DEF MountTyped
  <2> QED BY <1>1, <1>2, <2>1, <2>2, RestingFiles
<1>4. CASE ChildExits
  <2>1. /\ UNCHANGED <<mode, cached, files, trash, systemd, unit, changes>>
        /\ NoFault \/ Fault
        /\ served' \in {served, "none", "stale"} /\ child' = "none" /\ pid' \in {pid, "gone"}
        /\ reg' \in {reg, [reg EXCEPT !.status = "dead"]}
        /\ UNCHANGED task \/ Becomes("timer", "armed")
      BY <1>4 DEF ChildExits
  <2>2. TasksTyped' /\ BinKept
    <3>1. CASE UNCHANGED task BY <1>1, <3>1 DEF BinKept, BinOfStart
    <3>2. CASE Becomes("timer", "armed")
      <4>1. "armed" \in PcOf("timer") BY DEF PcOf, TimerPc
      <4> QED BY <1>0, <3>2, <4>1, OtherTask
    <3> QED BY <2>1, <3>1, <3>2
  <2>3. reg' \in RegEntry BY <2>1, EntryTyped DEF MountTyped
  <2>4. MountTyped' BY <2>1, <2>3 DEF MountTyped
  <2>5. BudgetTyped' BY <2>1, FaultsBounded DEF BudgetTyped
  <2>6. FileStep BY <2>1, <2>2 DEF FileStep, StartEffect, TrashRests, OthersRest, files, trash
  <2> QED BY <2>2, <2>4, <2>5, <2>6
<1>5. CASE AttemptRestart
  <2>1. OthersRest /\ UNCHANGED <<mode, cached, systemd, unit, budget>>
      BY <1>5 DEF AttemptRestart, OthersRest
  <2>2. TasksTyped' /\ StartEffect /\ ProcsTyped
    <3>1. CASE startMount("timer", served) BY <1>0, <3>1, MountStarts
    <3>2. CASE Becomes("timer", "idle") /\ UNCHANGED <<served, child, pid, reg, local, trash>>
      <4>1. "idle" \in PcOf("timer") BY DEF PcOf, TimerPc
      <4>2. TasksTyped' /\ BinKept BY <1>0, <3>2, <4>1, OtherTask
      <4> QED BY <3>2, <4>2 DEF StartEffect, TrashRests, ProcsTyped, MountTyped
    <3> QED BY <1>5, <3>1, <3>2 DEF AttemptRestart
  <2>3. MountTyped' BY <2>1, <2>2 DEF MountTyped, ProcsTyped
  <2> QED BY <1>2, <2>1, <2>2, <2>3 DEF FileStep
<1>6. CASE HealthCheck
  <2>1. /\ UNCHANGED <<mode, cached, files, trash, systemd, unit, served, child, pid, task,
                       budget>>
        /\ reg' = [reg EXCEPT !.status = "dead"]
      BY <1>6 DEF HealthCheck
  <2>2. reg' \in RegEntry BY <2>1, EntryTyped DEF MountTyped
  <2>3. MountTyped' BY <2>1, <2>2 DEF MountTyped
  <2> QED BY <1>1, <1>2, <2>1, <2>3, RestingFiles
<1>7. CASE UnitExits
  <2>1. /\ UNCHANGED <<mode, cached, files, trash, systemd, child, reg, task, changes>>
        /\ NoFault \/ Fault
        /\ served' \in {served, "none"} /\ pid' = "none"
        /\ unit = "active" /\ unit' \in {"failed", "off"}
      BY <1>7 DEF UnitExits
  <2>2. MountTyped' BY <2>1 DEF MountTyped
  <2>3. BudgetTyped' BY <2>1, FaultsBounded DEF BudgetTyped
  <2> QED BY <1>1, <2>1, <2>2, <2>3, RestingFiles
<1> QED BY <1>3, <1>4, <1>5, <1>6, <1>7

\* Runs, purges, the daemon's death, the user and the operator.
LEMMA OutsideSteps ==
    ASSUME ControlTypes, BinOfStart,
           Run \/ (\E b \in bins : PurgeTrash(b)) \/ CrashDaemon \/ SetMode
               \/ (\E f \in File : UserEdits(f))
    PROVE  ControlTypes' /\ FileStep
<1> USE DEF ControlTypes
<1>1. UNCHANGED task => TasksTyped' BY DEF TasksTyped
<1>2. UNCHANGED budget /\ UNCHANGED <<mode, cached>> => BudgetTyped' BY DEF BudgetTyped, budget
<1>3. UNCHANGED task => BinKept BY DEF BinKept, BinOfStart
<1>4. CASE Run
  <2>1. UNCHANGED <<mode, cached, newest, exposed, trash, systemd, unit, child, pid, reg,
                    task, budget>>
      BY <1>4 DEF Run
  <2>2. SyncRun /\ served' \in {served, "bg"}
      BY <1>4 DEF Run, MountRun, SyncRun
  <2>3. MountTyped' BY <2>1, <2>2 DEF MountTyped
  <2> QED BY <1>1, <1>2, <1>3, <2>1, <2>2, <2>3 DEF FileStep, RunEffect
<1>5. CASE \E b \in bins : PurgeTrash(b)
  <2>1. /\ UNCHANGED <<mode, cached, files, bin, systemd, mount, task, budget>>
        /\ bins' \subseteq bins /\ purged' = TRUE
      BY <1>5 DEF PurgeTrash
  <2>2. MountTyped' BY <2>1 DEF MountTyped, mount
  <2> QED BY <1>1, <1>2, <1>3, <2>1, <2>2 DEF FileStep, PurgeEffect, OthersRest, files
<1>6. CASE CrashDaemon
  <2>1. /\ UNCHANGED <<mode, cached, files, systemd, changes>> /\ Fault /\ reg' = Untracked
        /\ served' \in {served, "none", "stale"} /\ child' \in {child, "none"}
        /\ pid' \in {pid, "gone"} /\ unit' \in {unit, "off"}
      BY <1>6 DEF CrashDaemon
  <2>2. TasksTyped'
    <3>1. task' = [t \in Task |-> IF t = Booting THEN "boot" ELSE "idle"]
        BY <1>6 DEF CrashDaemon
    <3>2. Booting \in Reconciler /\ Booting \notin {"switch", "timer"}
        BY MountAssumption DEF Booting
    <3>3. /\ "idle" \in SwitchPc \cap TimerPc \cap PassPc
          /\ "boot" \in PassPc
        BY DEF SwitchPc, TimerPc, PassPc
    <3>4. \A t \in Task : task'[t] \in PcOf(t) BY <3>1, <3>2, <3>3 DEF PcOf
    <3>5. task' \in [Task -> Pc] BY <3>1, <3>3 DEF Pc
    <3> QED BY <3>4, <3>5 DEF TasksTyped
  <2>3. reg' \in RegEntry BY <2>1, EntryTyped
  <2>4. MountTyped' BY <2>1, <2>3 DEF MountTyped
  <2>5. BudgetTyped' BY <2>1, FaultsBounded DEF BudgetTyped
  <2>6. FileStep BY <1>6, <2>1 DEF CrashDaemon, FileStep, CrashEffect, OthersRest, files
  <2> QED BY <2>2, <2>4, <2>5, <2>6
<1>7. CASE SetMode
  <2>1. /\ UNCHANGED <<cached, files, trash, systemd, mount, task, faults>>
        /\ changes < MaxChanges /\ changes' = changes + 1 /\ mode' \in Mode
      BY <1>7 DEF SetMode, Command
  <2>2. MountTyped' BY <2>1 DEF MountTyped, mount
  <2>3. BudgetTyped' BY <2>1, MountAssumption DEF BudgetTyped
  <2> QED BY <1>1, <2>1, <2>2, <2>3, RestingFiles
<1>8. CASE \E f \in File : UserEdits(f)
  <2>1. UNCHANGED <<mode, cached, base, trash, systemd, mount, task, budget>>
      BY <1>8 DEF UserEdits
  <2>2. MountTyped' BY <2>1 DEF MountTyped, mount
  <2>3. EditEffect BY <1>3, <1>8 DEF UserEdits, EditEffect
  <2> QED BY <1>1, <1>2, <2>1, <2>2, <2>3 DEF FileStep
<1> QED BY <1>4, <1>5, <1>6, <1>7, <1>8

\* Every step keeps the types of the control and is one of the effects.
LEMMA StepsOnFiles ==
    ASSUME ControlTypes, BinOfStart, [Next]_vars
    PROVE  ControlTypes' /\ FileStep
<1>1. CASE Next
    BY <1>1, SwitchSteps, TaskSteps, PassSteps, ProcessSteps, OutsideSteps DEF Next
<1>2. CASE UNCHANGED vars
  <2>1. UNCHANGED <<mode, cached, files, trash, systemd, mount, task, budget>>
      BY <1>2 DEF vars
  <2>2. TasksTyped' BY <2>1 DEF ControlTypes, TasksTyped
  <2>3. MountTyped' BY <2>1 DEF ControlTypes, MountTyped, mount
  <2>4. BudgetTyped' BY <2>1 DEF ControlTypes, BudgetTyped, budget
  <2> QED BY <2>1, <2>2, <2>3, <2>4, RestingFiles DEF ControlTypes
<1> QED BY <1>1, <1>2

-----------------------------------------------------------------------------
(* What the effects leave of the files' last edits.                        *)

FileInv == FilesTyped /\ BinOfStart /\ NewestLast /\ ListedIsRemote /\ LastEditLocal

\* The body of LastCopyKept.
CopiesKept ==
    ~purged' => \A f \in File \ (exposed \union exposed') :
      HasCopy(f) => \/ HasCopy(f)'
                    \/ TooManyRemoved /\ local'[f] = remote[f]

\* The last edit of a file is in one of the directories or in a trash.
LEMMA CopyMeans ==
    ASSUME NEW f \in File
    PROVE  /\ HasCopy(f) <=> newest[f] \in {local[f], remote[f], bin[f]} \/ InBins(f)
           /\ HasCopy(f)' <=> newest'[f] \in {local'[f], remote'[f], bin'[f]} \/ InBins(f)'
BY DEF HasCopy, InBins

\* It suffices to look at one file that is not exposed.
LEMMA PerFile ==
    ASSUME ~purged' =>
             /\ ~purged
             /\ \A f \in File \ exposed' :
                  /\ f \notin exposed /\ HasCopy(f) =>
                       HasCopy(f)' \/ (TooManyRemoved /\ local'[f] = remote[f])
                  /\ HasCopy(f)' => /\ newest'[f] \in {local'[f], bin'[f]} \/ InBins(f)'
                                    /\ bin'[f] \in {0, newest'[f]} \/ InBins(f)'
    PROVE  LastEditLocal' /\ CopiesKept
BY DEF LastEditLocal, CopiesKept

\* What is known of an edit made in the directory, before the step.
LEMMA EditLocal ==
    ASSUME FileInv, ~purged, NEW f \in File \ exposed, HasCopy(f)
    PROVE  /\ newest[f] \in {local[f], bin[f]} \/ InBins(f)
           /\ bin[f] \in {0, newest[f]} \/ InBins(f)
BY DEF FileInv, LastEditLocal

LEMMA NoFilesTyped == NoFiles \in Dir /\ \A f \in File : NoFiles[f] = 0
BY MountAssumption DEF NoFiles, Dir, Edit

LEMMA FileValues ==
    ASSUME FilesTyped, NEW f \in File
    PROVE  /\ local[f] \in Nat /\ remote[f] \in Nat /\ base[f] \in Nat /\ bin[f] \in Nat
           /\ newest[f] \in Nat
BY MountAssumption DEF FilesTyped, Dir, Edit

LEMMA FilesRest ==
    ASSUME FileInv, BinKept,
           UNCHANGED <<local, remote, base, newest, exposed>>, UNCHANGED <<bin, bins, purged>>
    PROVE  FileInv' /\ CopiesKept
<1>1. FilesTyped' /\ NewestLast' /\ ListedIsRemote'
    BY DEF FileInv, FilesTyped, NewestLast, ListedIsRemote
<1>2. BinOfStart' BY DEF BinKept, BinOfStart
<1>3. \A f \in File : HasCopy(f)' <=> HasCopy(f) BY DEF HasCopy
<1>4. \A f \in File : InBins(f)' <=> InBins(f) BY DEF InBins
<1>5. LastEditLocal' BY <1>3, <1>4 DEF FileInv, LastEditLocal
<1>6. CopiesKept BY <1>3 DEF CopiesKept
<1> QED BY <1>1, <1>2, <1>5, <1>6 DEF FileInv

\* The switch leaves its trash to the purge timer.
LEMMA TrashIsLeft ==
    ASSUME FileInv, TrashLeft, OthersRest
    PROVE  FileInv' /\ CopiesKept
<1> USE DEF TrashLeft, OthersRest
<1> DEFINE left == [files |-> bin, timed |-> TRUE]
<1>1. left \in Bin BY DEF FileInv, FilesTyped, Bin
<1>2. bins' = bins \cup {left} OBVIOUS
<1>3. left.files = bin OBVIOUS
<1> HIDE DEF left
<1>4. FilesTyped' BY <1>1, <1>2, NoFilesTyped DEF FileInv, FilesTyped
<1>5. BinOfStart' BY DEF BinOfStart
<1>6. NewestLast' /\ ListedIsRemote'
    BY NoFilesTyped, FileValues DEF FileInv, NewestLast, ListedIsRemote
<1>7. \A f \in File : InBins(f)' <=> InBins(f) \/ bin[f] = newest[f]
    BY <1>2, <1>3 DEF InBins
<1>8. \A f \in File : newest[f] # 0 /\ bin'[f] = 0
    BY NoFilesTyped, FileValues DEF FileInv, NewestLast
<1>9. LastEditLocal' /\ CopiesKept
  <2> SUFFICES ASSUME ~purged', NEW f \in File \ exposed'
               PROVE  /\ f \notin exposed /\ HasCopy(f) => HasCopy(f)'
                      /\ HasCopy(f)' => /\ newest'[f] \in {local'[f], bin'[f]} \/ InBins(f)'
                                        /\ bin'[f] \in {0, newest'[f]} \/ InBins(f)'
      BY PerFile
  <2>1. HasCopy(f)' <=> HasCopy(f) BY <1>7, <1>8, CopyMeans
  <2>2. HasCopy(f) => newest[f] \in {local[f], bin[f]} \/ InBins(f) BY EditLocal
  <2> QED BY <1>7, <1>8, <2>1, <2>2
<1> QED BY <1>4, <1>5, <1>6, <1>9 DEF FileInv

\* The switch puts back what it had moved away.
LEMMA TrashIsRestored ==
    ASSUME FileInv, TrashRestored, OthersRest
    PROVE  FileInv' /\ CopiesKept
<1> USE DEF TrashRestored, OthersRest
<1>0. UNCHANGED <<bins, purged>> OBVIOUS
<1>1. \A f \in File : local'[f] = IF bin[f] # 0 THEN bin[f] ELSE local[f]
    BY DEF restoreContentsFromTrash
<1>2. local' \in Dir BY DEF restoreContentsFromTrash, FileInv, FilesTyped, Dir
<1>3. FilesTyped' BY <1>2, NoFilesTyped DEF FileInv, FilesTyped
<1>4. BinOfStart' BY DEF BinOfStart
<1>5. NewestLast' /\ ListedIsRemote'
    BY <1>1, NoFilesTyped, FileValues DEF FileInv, NewestLast, ListedIsRemote
<1>6. \A f \in File : InBins(f)' <=> InBins(f) BY DEF InBins
<1>7. \A f \in File : newest[f] # 0 /\ bin'[f] = 0
    BY NoFilesTyped, FileValues DEF FileInv, NewestLast
<1>8. LastEditLocal' /\ CopiesKept
  <2> SUFFICES ASSUME ~purged', NEW f \in File \ exposed'
               PROVE  /\ f \notin exposed /\ HasCopy(f) => HasCopy(f)'
                      /\ HasCopy(f)' => /\ newest'[f] \in {local'[f], bin'[f]} \/ InBins(f)'
                                        /\ bin'[f] \in {0, newest'[f]} \/ InBins(f)'
      BY <1>0, PerFile
  <2>1. HasCopy(f)' => HasCopy(f) BY <1>1, <1>6, <1>7, CopyMeans
  <2>2. HasCopy(f) => /\ newest[f] \in {local[f], bin[f]} \/ InBins(f)
                      /\ bin[f] \in {0, newest[f]} \/ InBins(f)
      BY <1>0, EditLocal
  <2>3. HasCopy(f) => newest'[f] = local'[f] \/ InBins(f)'
      BY <1>1, <1>6, <1>7, <2>2
  <2> QED BY <1>7, <2>1, <2>3, CopyMeans
<1> QED BY <1>3, <1>4, <1>5, <1>8 DEF FileInv

\* The switch empties the directory into its trash, or fails on the way.
LEMMA TrashIsFilled ==
    ASSUME FileInv, TrashEffect
    PROVE  FileInv' /\ CopiesKept
<1>0. OthersRest /\ UNCHANGED purged /\ \A f \in File : bin[f] = 0
    BY NoFilesTyped DEF TrashEffect
<1>1. \A f \in File : newest[f] # 0
    BY FileValues DEF FileInv, NewestLast
<1>2. CASE bin' = local /\ local' = NoFiles /\ UNCHANGED bins /\ task'["switch"] \in Starting
  <2>1. FilesTyped' BY <1>0, <1>2, NoFilesTyped DEF FileInv, FilesTyped, OthersRest
  <2>2. BinOfStart' BY <1>2 DEF BinOfStart
  <2>3. NewestLast' /\ ListedIsRemote'
      BY <1>0, <1>2, NoFilesTyped, FileValues DEF FileInv, NewestLast, ListedIsRemote, OthersRest
  <2>4. \A f \in File : InBins(f)' <=> InBins(f) BY <1>0, <1>2 DEF InBins, OthersRest
  <2>5. LastEditLocal' /\ CopiesKept
    <3> SUFFICES ASSUME ~purged', NEW f \in File \ exposed'
                 PROVE  /\ f \notin exposed /\ HasCopy(f) => HasCopy(f)'
                        /\ HasCopy(f)' => /\ newest'[f] \in {local'[f], bin'[f]} \/ InBins(f)'
                                          /\ bin'[f] \in {0, newest'[f]} \/ InBins(f)'
        BY <1>0, PerFile
    <3>1. HasCopy(f)' <=> HasCopy(f)
        BY <1>0, <1>1, <1>2, <2>4, NoFilesTyped, CopyMeans DEF OthersRest
    <3>2. HasCopy(f) => newest[f] \in {local[f], bin[f]} \/ InBins(f)
        BY <1>0, EditLocal DEF OthersRest
    <3> QED BY <1>0, <1>1, <1>2, <2>4, <3>1, <3>2 DEF OthersRest
  <2> QED BY <2>1, <2>2, <2>3, <2>5 DEF FileInv
<1>3. ASSUME UNCHANGED bin, NEW moved \in SUBSET {f \in File : local[f] # 0},
             local' = [f \in File |-> IF f \in moved THEN 0 ELSE local[f]],
             bins' = IF moved = {} THEN bins
                     ELSE bins \union {[files |-> [f \in File |->
                            IF f \in moved THEN local[f] ELSE 0], timed |-> FALSE]}
      PROVE  FileInv' /\ CopiesKept
  <2> DEFINE dir == [f \in File |-> IF f \in moved THEN local[f] ELSE 0]
             left == [files |-> dir, timed |-> FALSE]
  <2>1. dir \in Dir /\ local' \in Dir
      BY <1>3, MountAssumption DEF FileInv, FilesTyped, Dir, Edit
  <2>2. left \in Bin /\ left.files = dir BY <2>1 DEF Bin
  <2>3. \A f \in File : dir[f] = IF f \in moved THEN local[f] ELSE 0 OBVIOUS
  <2>4. bins' = IF moved = {} THEN bins ELSE bins \cup {left} BY <1>3
  <2>5. \A f \in File : local'[f] = IF f \in moved THEN 0 ELSE local[f] BY <1>3
  <2> HIDE DEF dir, left
  <2>6. FilesTyped'
      BY <1>0, <1>3, <2>1, <2>2, <2>4 DEF FileInv, FilesTyped, OthersRest
  <2>7. BinOfStart' BY <1>3 DEF TrashEffect, BinOfStart
  <2>8. NewestLast' /\ ListedIsRemote'
      BY <1>0, <1>3, <2>5, FileValues DEF FileInv, NewestLast, ListedIsRemote, OthersRest
  <2>9. \A f \in File : /\ f \in moved => (InBins(f)' <=> InBins(f) \/ local[f] = newest[f])
                        /\ f \notin moved => (InBins(f)' <=> InBins(f))
    <3>1. CASE moved = {} BY <1>0, <2>4, <3>1 DEF InBins, OthersRest
    <3>2. CASE moved # {} BY <1>0, <1>1, <2>2, <2>3, <2>4, <3>2 DEF InBins, OthersRest
    <3> QED BY <3>1, <3>2
  <2>10. LastEditLocal' /\ CopiesKept
    <3> SUFFICES ASSUME ~purged', NEW f \in File \ exposed'
                 PROVE  /\ f \notin exposed /\ HasCopy(f) => HasCopy(f)'
                        /\ HasCopy(f)' => /\ newest'[f] \in {local'[f], bin'[f]} \/ InBins(f)'
                                          /\ bin'[f] \in {0, newest'[f]} \/ InBins(f)'
        BY <1>0, PerFile
    <3>1. HasCopy(f)' <=> HasCopy(f)
        BY <1>0, <1>1, <1>3, <2>5, <2>9, CopyMeans DEF OthersRest
    <3>2. HasCopy(f) => newest[f] \in {local[f], bin[f]} \/ InBins(f)
        BY <1>0, EditLocal DEF OthersRest
    <3>3. HasCopy(f) => newest'[f] = local'[f] \/ InBins(f)'
        BY <1>0, <1>1, <2>5, <2>9, <3>2 DEF OthersRest
    <3> QED BY <1>0, <1>3, <3>1, <3>3
  <2> QED BY <2>6, <2>7, <2>8, <2>10 DEF FileInv
<1> QED BY <1>2, <1>3 DEF TrashEffect

\* What a run makes of a file.
LEMMA RunResult ==
    ASSUME FileInv, NEW f \in File, NEW both,
           both = Resynced \/ both = Merged
    PROVE  /\ both[f] \in {0, local[f], remote[f]}
           /\ both[f] \in Nat
           /\ both = Resynced /\ newest[f] = local[f] =>
                both[f] = newest[f] \/ both[f] = remote[f]
           /\ both = Merged /\ newest[f] = local[f] => both[f] = newest[f]
<1>1. /\ local[f] \in Nat /\ remote[f] \in Nat /\ base[f] \in Nat /\ newest[f] \in Nat
      /\ newest[f] >= 1 /\ local[f] <= newest[f] /\ remote[f] <= newest[f]
      /\ remote[f] = 0 => base[f] = 0
    BY FileValues DEF FileInv, NewestLast, ListedIsRemote
<1>2. CASE both = Resynced
  <2>1. both[f] = IF remote[f] # 0 THEN remote[f] ELSE local[f] BY <1>2 DEF Resynced
  <2>2. both[f] \in {0, local[f], remote[f]} /\ both[f] \in Nat BY <1>1, <2>1
  <2>3. newest[f] = local[f] => both[f] = newest[f] \/ both[f] = remote[f] BY <2>1
  <2>4. both = Merged => both[f] = IF \/ f \in RemovedFrom(local) /\ remote[f] = base[f]
                                      \/ f \in RemovedFrom(remote) /\ local[f] = base[f]
                                   THEN 0 ELSE Newer(f)
      BY DEF Merged
  <2>5. both = Merged /\ newest[f] = local[f] => both[f] = newest[f]
      BY <1>1, <2>4 DEF RemovedFrom, Newer
  <2> QED BY <2>2, <2>3, <2>5
<1>3. CASE both = Merged
  <2>1. both[f] = IF \/ f \in RemovedFrom(local) /\ remote[f] = base[f]
                     \/ f \in RemovedFrom(remote) /\ local[f] = base[f]
                  THEN 0 ELSE Newer(f)
      BY <1>3 DEF Merged
  <2>2. both[f] \in {0, local[f], remote[f]} /\ both[f] \in Nat BY <1>1, <2>1 DEF Newer
  <2>3. newest[f] = local[f] => both[f] = newest[f] BY <1>1, <2>1 DEF RemovedFrom, Newer
  <2> QED BY <2>2, <2>3
<1> QED BY <1>2, <1>3

LEMMA ResultTyped ==
    ASSUME FilesTyped
    PROVE  Resynced \in Dir /\ Merged \in Dir
<1>1. /\ local \in Dir /\ remote \in Dir /\ 0 \in Edit
    BY MountAssumption DEF FilesTyped, Edit
<1> QED BY <1>1 DEF Resynced, Merged, Newer, Dir

\* A run merges both sides, resyncs them or lists a mounted directory.
LEMMA RunKeeps ==
    ASSUME FileInv, RunEffect
    PROVE  FileInv' /\ CopiesKept
<1>0. BinKept /\ UNCHANGED <<bin, bins, purged, newest, exposed>> BY DEF RunEffect, trash
<1>1. CASE UNCHANGED <<local, remote, base>> BY <1>0, <1>1, FilesRest
<1>2. CASE base' = remote /\ UNCHANGED <<local, remote>>
  <2>1. FilesTyped' /\ NewestLast' /\ ListedIsRemote'
      BY <1>0, <1>2 DEF FileInv, FilesTyped, NewestLast, ListedIsRemote
  <2>2. BinOfStart' BY <1>0 DEF BinKept, BinOfStart
  <2>3. \A f \in File : HasCopy(f)' <=> HasCopy(f) BY <1>0, <1>2 DEF HasCopy
  <2>4. \A f \in File : InBins(f)' <=> InBins(f) BY <1>0 DEF InBins
  <2>5. LastEditLocal' BY <1>0, <1>2, <2>3, <2>4 DEF FileInv, LastEditLocal
  <2>6. CopiesKept BY <2>3 DEF CopiesKept
  <2> QED BY <2>1, <2>2, <2>5, <2>6 DEF FileInv
<1>3. ASSUME NEW both, both = IF TooManyRemoved THEN Resynced ELSE Merged,
             local' = both, remote' = both, base' = both
      PROVE  FileInv' /\ CopiesKept
  <2>1. both = Resynced \/ both = Merged BY <1>3
  <2>2. FilesTyped' BY <1>0, <1>3, ResultTyped DEF FileInv, FilesTyped
  <2>3. BinOfStart' BY <1>0 DEF BinKept, BinOfStart
  <2>4. ListedIsRemote' BY <1>3 DEF ListedIsRemote
  <2>5. NewestLast'
    <3> SUFFICES ASSUME NEW f \in File PROVE both[f] <= newest[f]
        BY <1>0, <1>3 DEF FileInv, NewestLast
    <3> QED BY <2>1, RunResult, FileValues DEF FileInv, NewestLast
  <2>6. LastEditLocal' /\ CopiesKept
    <3> SUFFICES ASSUME ~purged', NEW f \in File \ exposed'
                 PROVE  /\ f \notin exposed /\ HasCopy(f) =>
                             HasCopy(f)' \/ (TooManyRemoved /\ local'[f] = remote[f])
                        /\ HasCopy(f)' => /\ newest'[f] \in {local'[f], bin'[f]} \/ InBins(f)'
                                          /\ bin'[f] \in {0, newest'[f]} \/ InBins(f)'
        BY <1>0, PerFile
    <3>1. newest[f] # 0 BY FileValues DEF FileInv, NewestLast
    <3>2. InBins(f)' <=> InBins(f) BY <1>0 DEF InBins
    <3>3. both[f] \in {0, local[f], remote[f]} BY <2>1, RunResult
    <3>4. HasCopy(f)' => HasCopy(f) BY <1>0, <1>3, <3>1, <3>2, <3>3, CopyMeans
    <3>5. HasCopy(f) => /\ newest[f] \in {local[f], bin[f]} \/ InBins(f)
                        /\ bin[f] \in {0, newest[f]} \/ InBins(f)
        BY <1>0, EditLocal
    <3>6. HasCopy(f)' => newest'[f] \in {local'[f], bin'[f]} \/ InBins(f)'
        BY <1>0, <1>3, CopyMeans
    <3>7. newest[f] = local[f] =>
            \/ both[f] = newest[f]
            \/ TooManyRemoved /\ both[f] = remote[f]
        BY <1>3, <2>1, RunResult
    <3>8. HasCopy(f) => HasCopy(f)' \/ (TooManyRemoved /\ local'[f] = remote[f])
        BY <1>0, <1>3, <3>2, <3>5, <3>7, CopyMeans
    <3> QED BY <1>0, <3>2, <3>4, <3>5, <3>6, <3>8
  <2> QED BY <2>2, <2>3, <2>4, <2>5, <2>6 DEF FileInv
<1> QED BY <1>1, <1>2, <1>3 DEF RunEffect, SyncRun

LEMMA PurgeKeeps ==
    ASSUME FileInv, PurgeEffect
    PROVE  FileInv' /\ CopiesKept
<1>1. FilesTyped' /\ NewestLast' /\ ListedIsRemote'
    BY DEF PurgeEffect, OthersRest, FileInv, FilesTyped, NewestLast, ListedIsRemote
<1>2. BinOfStart' BY DEF PurgeEffect, BinKept, BinOfStart
<1>3. LastEditLocal' /\ CopiesKept BY DEF PurgeEffect, LastEditLocal, CopiesKept
<1> QED BY <1>1, <1>2, <1>3 DEF FileInv

\* The trash of a switch the daemon's death interrupts stays where it is.
LEMMA CrashKeeps ==
    ASSUME FileInv, CrashEffect
    PROVE  FileInv' /\ CopiesKept
<1> DEFINE left == [files |-> bin, timed |-> FALSE]
           untimed == {[b EXCEPT !.timed = FALSE] : b \in bins}
<1>0. OthersRest /\ UNCHANGED <<local, purged>> /\ bin' = NoFiles BY DEF CrashEffect
<1>1. bins' = untimed \union (IF bin = NoFiles THEN {} ELSE {left}) BY DEF CrashEffect
<1>2. left \in Bin /\ left.files = bin BY DEF FileInv, FilesTyped, Bin
<1>3. /\ \A b \in bins : \E c \in untimed : c.files = b.files
      /\ \A c \in untimed : c \in Bin /\ \E b \in bins : c.files = b.files
  <2>1. \A b \in Bin : [b EXCEPT !.timed = FALSE] \in Bin BY DEF Bin
  <2>2. \A b \in Bin : [b EXCEPT !.timed = FALSE].files = b.files BY DEF Bin
  <2>3. bins \subseteq Bin BY DEF FileInv, FilesTyped
  <2> HIDE DEF left
  <2> QED BY <2>1, <2>2, <2>3
<1> HIDE DEF left, untimed
<1>4. FilesTyped'
  <2>1. bins' \subseteq Bin BY <1>1, <1>2, <1>3
  <2> QED BY <1>0, <2>1, NoFilesTyped DEF FileInv, FilesTyped, OthersRest
<1>5. BinOfStart' BY <1>0 DEF BinOfStart
<1>6. NewestLast' /\ ListedIsRemote'
    BY <1>0, NoFilesTyped, FileValues DEF FileInv, NewestLast, ListedIsRemote, OthersRest
<1>7. \A f \in File : newest[f] # 0 BY FileValues DEF FileInv, NewestLast
<1>8. \A f \in File : InBins(f)' <=> InBins(f) \/ bin[f] = newest[f]
  <2> SUFFICES ASSUME NEW f \in File PROVE InBins(f)' <=> InBins(f) \/ bin[f] = newest[f]
      OBVIOUS
  <2>1. (\E c \in untimed : c.files[f] = newest[f]) <=> InBins(f) BY <1>3 DEF InBins
  <2>2. bin = NoFiles => bin[f] # newest[f] BY <1>7, NoFilesTyped
  <2>3. InBins(f)' <=> \E b \in bins' : b.files[f] = newest[f] BY <1>0 DEF InBins, OthersRest
  <2> QED BY <1>1, <1>2, <2>1, <2>2, <2>3
<1>9. LastEditLocal' /\ CopiesKept
  <2> SUFFICES ASSUME ~purged', NEW f \in File \ exposed'
               PROVE  /\ f \notin exposed /\ HasCopy(f) => HasCopy(f)'
                      /\ HasCopy(f)' => /\ newest'[f] \in {local'[f], bin'[f]} \/ InBins(f)'
                                        /\ bin'[f] \in {0, newest'[f]} \/ InBins(f)'
      BY <1>0, PerFile
  <2>1. bin'[f] = 0 BY <1>0, NoFilesTyped
  <2>2. HasCopy(f)' <=> HasCopy(f) BY <1>0, <1>7, <1>8, <2>1, CopyMeans DEF OthersRest
  <2>3. HasCopy(f) => newest[f] \in {local[f], bin[f]} \/ InBins(f)
      BY <1>0, EditLocal DEF OthersRest
  <2> QED BY <1>0, <1>8, <2>1, <2>2, <2>3 DEF OthersRest
<1> QED BY <1>4, <1>5, <1>6, <1>9 DEF FileInv

\* The user edits a file, in the directory or through a mount.
LEMMA EditKeeps ==
    ASSUME FileInv, EditEffect
    PROVE  FileInv' /\ CopiesKept
<1>0. BinKept /\ UNCHANGED <<base, bin, bins, purged>> BY DEF EditEffect, trash
<1>1. PICK f \in File :
         /\ \A g \in File : newest[g] < MaxEdits
         /\ newest' = [newest EXCEPT ![f] = @ + 1]
         /\ exposed' = IF Served \/ bin # NoFiles THEN exposed \union {f} ELSE exposed \ {f}
         /\ IF Served
            THEN remote' = [remote EXCEPT ![f] = newest'[f]] /\ UNCHANGED local
            ELSE local' = [local EXCEPT ![f] = newest'[f]] /\ UNCHANGED remote
    BY DEF EditEffect
<1>2. newest \in Dir /\ local \in Dir /\ remote \in Dir BY DEF FileInv, FilesTyped
<1>3. newest'[f] = newest[f] + 1 /\ \A g \in File \ {f} : newest'[g] = newest[g]
    BY <1>1, <1>2 DEF Dir
<1>4. newest[f] \in Nat /\ newest[f] + 1 \in Edit
  <2>1. newest[f] \in Nat /\ newest[f] < MaxEdits BY <1>1, FileValues DEF FileInv
  <2> QED BY <2>1, MountAssumption DEF Edit
<1>5. newest' \in Dir BY <1>1, <1>2, <1>4 DEF Dir
<1>6. local' \in Dir /\ remote' \in Dir BY <1>1, <1>2, <1>3, <1>4 DEF Dir
<1>7. \A g \in File \ {f} : local'[g] = local[g] /\ remote'[g] = remote[g]
    BY <1>1, <1>2 DEF Dir
<1>8. IF Served THEN remote'[f] = newest'[f] /\ local'[f] = local[f]
                ELSE local'[f] = newest'[f] /\ remote'[f] = remote[f]
    BY <1>1, <1>2 DEF Dir
<1>9. FilesTyped' BY <1>0, <1>1, <1>5, <1>6 DEF FileInv, FilesTyped
<1>10. BinOfStart' BY <1>0 DEF BinKept, BinOfStart
<1>11. NewestLast'
  <2> SUFFICES ASSUME NEW g \in File
               PROVE  /\ newest'[g] >= 1 /\ local'[g] <= newest'[g] /\ remote'[g] <= newest'[g]
                      /\ bin'[g] <= newest'[g]
      BY DEF NewestLast
  <2>1. /\ newest[g] >= 1 /\ local[g] <= newest[g] /\ remote[g] <= newest[g]
        /\ bin[g] <= newest[g]
      BY DEF FileInv, NewestLast
  <2>2. CASE g = f BY <1>0, <1>3, <1>8, <2>1, <2>2, FileValues DEF FileInv
  <2>3. CASE g # f BY <1>0, <1>3, <1>7, <2>1, <2>3
  <2> QED BY <2>2, <2>3
<1>12. ListedIsRemote'
  <2> SUFFICES ASSUME NEW g \in File, remote'[g] = 0 PROVE base[g] = 0
      BY <1>0 DEF ListedIsRemote
  <2>1. remote[g] = 0 BY <1>3, <1>4, <1>7, <1>8
  <2> QED BY <2>1 DEF FileInv, ListedIsRemote
<1>13. LastEditLocal' /\ CopiesKept
  <2> SUFFICES ASSUME ~purged', NEW g \in File \ exposed'
               PROVE  /\ g \notin exposed /\ HasCopy(g) => HasCopy(g)'
                      /\ HasCopy(g)' => /\ newest'[g] \in {local'[g], bin'[g]} \/ InBins(g)'
                                        /\ bin'[g] \in {0, newest'[g]} \/ InBins(g)'
      BY <1>0, PerFile
  <2>1. CASE g = f
    <3>1. ~Served /\ bin = NoFiles BY <1>1, <2>1
    <3>2. local'[g] = newest'[g] /\ bin'[g] = 0 BY <1>0, <1>8, <2>1, <3>1, NoFilesTyped
    <3> QED BY <3>2, CopyMeans
  <2>2. CASE g # f
    <3>1. g \notin exposed BY <1>1, <2>2
    <3>2. /\ newest'[g] = newest[g] /\ local'[g] = local[g] /\ remote'[g] = remote[g]
          /\ bin'[g] = bin[g]
        BY <1>0, <1>3, <1>7, <2>2
    <3>3. InBins(g)' <=> InBins(g) BY <1>0, <3>2 DEF InBins
    <3>4. HasCopy(g)' <=> HasCopy(g) BY <3>2, <3>3, CopyMeans
    <3>5. HasCopy(g) => /\ newest[g] \in {local[g], bin[g]} \/ InBins(g)
                        /\ bin[g] \in {0, newest[g]} \/ InBins(g)
        BY <1>0, <3>1, EditLocal
    <3> QED BY <3>2, <3>3, <3>4, <3>5
  <2> QED BY <2>1, <2>2
<1> QED BY <1>9, <1>10, <1>11, <1>12, <1>13 DEF FileInv

\* Every effect keeps the invariant of the files and their copies.
LEMMA EffectsKeep ==
    ASSUME FileInv, FileStep
    PROVE  FileInv' /\ CopiesKept
<1>1. CASE StartEffect /\ OthersRest
  <2>1. CASE TrashRests
    BY <1>1, <2>1, FilesRest DEF TrashRests, OthersRest, trash
  <2> QED BY <1>1, <2>1, TrashIsLeft, TrashIsRestored DEF StartEffect
<1> QED BY <1>1, RunKeeps, TrashIsFilled, PurgeKeeps, CrashKeeps, EditKeeps DEF FileStep

-----------------------------------------------------------------------------
MountInv == ControlTypes /\ FileInv

\* The invariant implies the type invariant the run checks.
LEMMA MountTypes == MountInv => TypeOK
<1> SUFFICES ASSUME MountInv PROVE TypeOK OBVIOUS
<1> USE DEF MountInv, ControlTypes, FileInv
<1>1. mode \in Mode /\ cached \in Mode /\ changes \in 0 .. MaxChanges /\ faults \in 0 .. MaxFaults
    BY DEF BudgetTyped
<1>2. /\ {local, remote, base, bin, newest} \subseteq Dir
      /\ bins \subseteq [files : Dir, timed : BOOLEAN]
      /\ exposed \subseteq File /\ purged \in BOOLEAN
    BY DEF FilesTyped, Bin
<1>3. /\ systemd \in BOOLEAN /\ (systemd \/ unit = "off")
      /\ unit \in {"off", "active", "blocked", "failed"}
      /\ served \in {"none", "unit", "child", "bg", "stale"}
      /\ child \in {"none", "starting", "doomed", "up"}
      /\ pid \in {"none", "unit", "child", "gone"}
    BY DEF MountTyped
<1>4. /\ reg.status \in {"none", "starting", "mounted", "dead", "unmounting"}
      /\ reg.proc \in BOOLEAN
    BY DEF MountTyped, RegEntry
<1>5. /\ task["switch"] \in SwitchPc /\ task["timer"] \in TimerPc
      /\ \A r \in Reconciler : task[r] \in PassPc
    BY MountAssumption DEF TasksTyped, PcOf, Task
<1> QED BY <1>1, <1>2, <1>3, <1>4, <1>5 DEF TypeOK, SwitchPc, TimerPc, PassPc

\* The invariant holds at the start.
LEMMA MountStart == Init => MountInv
<1> SUFFICES ASSUME Init PROVE MountInv OBVIOUS
<1> USE DEF Init
<1>1. [f \in File |-> 1] \in Dir BY MountAssumption DEF Dir, Edit
<1>2. FilesTyped BY <1>1, NoFilesTyped DEF FilesTyped
<1>3. \A f \in File : /\ local[f] = 1 /\ remote[f] = 1 /\ base[f] = 1 /\ newest[f] = 1
                      /\ bin[f] = 0
    BY NoFilesTyped
<1>4. FileInv
    BY <1>2, <1>3 DEF FileInv, BinOfStart, NewestLast, ListedIsRemote, LastEditLocal
<1>5. TasksTyped BY DEF TasksTyped, PcOf, Pc, SwitchPc, TimerPc, PassPc
<1>6. MountTyped BY EntryTyped DEF MountTyped
<1>7. BudgetTyped BY MountAssumption DEF BudgetTyped, Mode
<1> QED BY <1>4, <1>5, <1>6, <1>7 DEF MountInv, ControlTypes

\* Every step keeps it, and every file's last copy.
LEMMA MountKept ==
    ASSUME MountInv, [Next]_vars
    PROVE  MountInv' /\ CopiesKept
<1>1. ControlTypes' /\ FileStep BY StepsOnFiles DEF MountInv, FileInv
<1>2. FileInv' /\ CopiesKept BY <1>1, EffectsKeep DEF MountInv
<1> QED BY <1>1, <1>2 DEF MountInv
-----------------------------------------------------------------------------
(* The health of a folder: its inductive invariant                         *)

RowRecord == [facts : Health!Facts, by : Health!Assignment]
ReportRecord == [host : Device, for : Health!Assignment, facts : Health!Facts]

RowsTyped == row \in [Health!Assignment -> {None} \cup RowRecord]
FlightFinite == IsFiniteSet(flight)

\* The assignments of the future belong to nobody.
OwnedWereMade == \A a \in Health!Assignment : owner[a] # None => a <= made

\* A row belongs to the first assignment of its host and names it.
RowOfFirst ==
    \A a \in Health!Assignment : row[a] # None =>
        /\ owner[a] \in Device /\ row[a].by = a
        /\ \A b \in Health!Owned(owner[a]) : a <= b

HealthInv == Health!TypeOK /\ RowsTyped /\ FlightFinite /\ OwnedWereMade /\ RowOfFirst

-----------------------------------------------------------------------------
(* Operators                                                               *)

\* The assignment a host's folder resolves to is its own, and its first.
LEMMA FirstAssignment ==
    ASSUME NEW h, Health!Owned(h) # {}
    PROVE  /\ Health!AssignmentFor(h) \in Health!Owned(h)
           /\ \A b \in Health!Owned(h) : Health!AssignmentFor(h) <= b
<1> DEFINE T == Health!Owned(h)
<1>1. T \in SUBSET Nat /\ T # {}
    BY DEF Health!Owned, Health!Assignment
<1>2. PICK x \in T : \A y \in T : <<y, x>> \notin OpToRel(<, Nat)
  <2> HIDE DEF T
  <2> QED
      BY <1>1, WFMin, NatLessThanWellFounded, Zenon
<1>3. \A y \in T : ~(y < x)
    BY <1>1, <1>2, Zenon DEF OpToRel
<1>4. \E z \in T : \A y \in T : z <= y
  <2> HIDE DEF T
  <2> QED
      BY <1>1, <1>3
<1> QED
    BY <1>4 DEF Health!AssignmentFor

\* The instance counts as the module does.
LEMMA Counting == \A S : Health!Cardinality(S) = Cardinality(S)
BY DEF Health!Cardinality, Cardinality

LEMMA FactsChanged ==
    ASSUME NEW f \in Health!Facts
    PROVE  /\ [f EXCEPT !.running = TRUE] \in Health!Facts
           /\ \A n \in Health!Entries : [[f EXCEPT !.running = FALSE] EXCEPT
                  !.pair = "ready", !.entries = n, !.pending = FALSE,
                  !.last = "success"] \in Health!Facts
           /\ [[f EXCEPT !.running = FALSE] EXCEPT
                  !.pair = "error", !.last = "failed"] \in Health!Facts
           /\ [[f EXCEPT !.running = FALSE] EXCEPT !.last = "interrupted"] \in Health!Facts
           /\ [[f EXCEPT !.running = FALSE] EXCEPT
                  !.pair = "incomplete", !.last = "interrupted"] \in Health!Facts
           /\ [f EXCEPT !.pending = f.pair = "ready"] \in Health!Facts
           /\ [f EXCEPT !.blocked = ~@] \in Health!Facts
           /\ [f EXCEPT !.running = FALSE, !.last = "none"] \in Health!Facts
           /\ [f EXCEPT !.entries = Health!Unread] \in Health!Facts
<1> DEFINE ready == f.pair = "ready"
           clear == ~f.blocked
<1>1. ready \in BOOLEAN /\ clear \in BOOLEAN
    OBVIOUS
<1>2. [f EXCEPT !.pending = ready] \in Health!Facts /\ [f EXCEPT !.blocked = clear] \in Health!Facts
  <2> HIDE DEF ready, clear
  <2> QED
      BY <1>1 DEF Health!Facts
<1>3. [f EXCEPT !.running = FALSE] \in Health!Facts /\ [f EXCEPT !.running = TRUE] \in Health!Facts
    BY DEF Health!Facts
<1> DEFINE over == [f EXCEPT !.running = FALSE]
<1>4. /\ \A n \in Health!Entries : [over EXCEPT
             !.pair = "ready", !.entries = n, !.pending = FALSE,
             !.last = "success"] \in Health!Facts
      /\ [over EXCEPT !.pair = "error", !.last = "failed"] \in Health!Facts
      /\ [over EXCEPT !.last = "interrupted"] \in Health!Facts
      /\ [over EXCEPT !.pair = "incomplete", !.last = "interrupted"] \in Health!Facts
  <2> HIDE DEF over
  <2>1. over \in Health!Facts
      BY <1>3 DEF over
  <2> QED
      BY <2>1 DEF Health!Facts
<1>5. [f EXCEPT !.running = FALSE, !.last = "none"] \in Health!Facts
    BY DEF Health!Facts
<1>6. [f EXCEPT !.entries = Health!Unread] \in Health!Facts
    BY DEF Health!Facts
<1>7. /\ [f EXCEPT !.pending = f.pair = "ready"] \in Health!Facts
      /\ [f EXCEPT !.blocked = ~@] \in Health!Facts
    BY <1>2
<1> QED
    BY <1>3, <1>4, <1>5, <1>6, <1>7

-----------------------------------------------------------------------------
(* Every step keeps it                                                     *)

LEMMA ChangeKeeps ==
    ASSUME HealthInv, NEW h \in Device, NEW f \in Health!Facts, Health!Change(h, f)
    PROVE  HealthInv'
<1> USE HealthAssumption
<1>1. facts' \in [Device -> Health!Facts] /\ healthChanges' \in 0 .. HealthChanges
    BY DEF HealthInv, Health!TypeOK, Health!Change
<1> QED
    BY <1>1 DEF HealthInv, Health!TypeOK, RowsTyped, FlightFinite, OwnedWereMade, RowOfFirst,
                Health!Owned,
                Health!Change, Health!serverVars

LEMMA AssignmentsKeep ==
    ASSUME HealthInv, NEW h \in Device, Health!Assign(h) \/ Health!Unassign(h) \/ Health!Refresh(h)
    PROVE  HealthInv'
<1> USE HealthAssumption
<1> USE DEF HealthInv, Health!hostVars, Health!serverVars
<1>1. CASE Health!Assign(h)
  <2>1. made + 1 \in Health!Assignment /\ made' \in 0 .. MaxAssignments
      BY <1>1 DEF Health!Assign, Health!TypeOK, Health!Assignment
  <2>2. owner[made + 1] = None
      BY <2>1 DEF Health!TypeOK, OwnedWereMade
  <2>3. \A a \in Health!Assignment : owner'[a] = IF a = made + 1 THEN h ELSE owner[a]
      BY <1>1, <2>1 DEF Health!Assign, Health!TypeOK
  <2>4. owner' \in [Health!Assignment -> Device \cup {None}]
      BY <1>1 DEF Health!Assign, Health!TypeOK
  <2>5. Health!TypeOK' /\ RowsTyped' /\ FlightFinite'
      BY <1>1, <2>1, <2>4 DEF Health!Assign, Health!TypeOK, RowsTyped, FlightFinite
  <2>6. OwnedWereMade'
      BY <1>1, <2>1, <2>3 DEF Health!Assign, OwnedWereMade, Health!TypeOK, Health!Assignment
  <2>7. ASSUME NEW a \in Health!Assignment, row[a] # None
        PROVE  /\ owner'[a] \in Device /\ row[a].by = a
               /\ \A b \in Health!Assignment : owner'[b] = owner'[a] => a <= b
    <3>1. owner[a] \in Device /\ row[a].by = a /\ \A b \in Health!Owned(owner[a]) : a <= b
        BY <2>7 DEF RowOfFirst
    <3>2. owner'[a] = owner[a] /\ a <= made
        BY <2>2, <2>3, <3>1 DEF OwnedWereMade
    <3>3. a <= made + 1
        BY <3>2 DEF Health!TypeOK, Health!Assignment
    <3> QED
        BY <2>3, <3>1, <3>2, <3>3 DEF Health!Owned
  <2>8. RowOfFirst'
      BY <1>1, <2>7 DEF RowOfFirst, Health!Owned, Health!Assign
  <2> QED
      BY <2>5, <2>6, <2>8
<1>2. CASE Health!Unassign(h)
  <2> DEFINE first == Health!AssignmentFor(h)
  <2>1. first \in Health!Assignment /\ owner[first] = h /\ \A b \in Health!Owned(h) : first <= b
      BY <1>2, FirstAssignment DEF Health!Unassign, Health!Owned
  <2> HIDE DEF first
  <2>2. /\ row' = [row EXCEPT ![first] = None]
        /\ owner' = [a \in Health!Assignment |-> IF owner[a] = h THEN None ELSE owner[a]]
        /\ UNCHANGED <<made, held, facts, healthChanges, flight>>
      BY <1>2 DEF Health!Unassign, first
  <2>3. Health!TypeOK'
      BY <2>1, <2>2 DEF Health!TypeOK, RowsTyped
  <2>4. RowsTyped' /\ FlightFinite'
      BY <2>1, <2>2 DEF RowsTyped, FlightFinite
  <2>5. OwnedWereMade'
      BY <2>2 DEF OwnedWereMade
  <2>6. ASSUME NEW a \in Health!Assignment, row'[a] # None
        PROVE  /\ owner'[a] \in Device /\ row'[a].by = a
               /\ \A b \in Health!Assignment : owner'[b] = owner'[a] => a <= b
    <3>1. a # first /\ row'[a] = row[a] /\ row[a] # None
        BY <2>1, <2>2, <2>6 DEF RowsTyped
    <3>2. owner[a] \in Device /\ row[a].by = a /\ \A b \in Health!Owned(owner[a]) : a <= b
        BY <3>1 DEF RowOfFirst
    <3>3. owner[a] # h
      <4>1. ASSUME owner[a] = h PROVE a = first
        <5>1. a <= first /\ first <= a
            BY <2>1, <3>2, <4>1 DEF Health!Owned
        <5> QED
            BY <2>1, <5>1 DEF Health!Assignment
      <4> QED
          BY <3>1, <4>1
    <3>4. owner'[a] = owner[a] /\ owner[a] # None
        BY <2>2, <3>2, <3>3
    <3> QED
        BY <2>2, <3>1, <3>2, <3>4 DEF Health!Owned
  <2>7. RowOfFirst'
      BY <2>6 DEF RowOfFirst, Health!Owned
  <2> QED
      BY <2>3, <2>4, <2>5, <2>7
<1>3. CASE Health!Refresh(h)
    BY <1>3 DEF Health!Refresh, Health!TypeOK, RowsTyped, FlightFinite, OwnedWereMade, RowOfFirst,
                Health!Owned
<1> QED
    BY <1>1, <1>2, <1>3

\* What is under way stays within its bound beside a new report.
LEMMA RoomLeft ==
    ASSUME HealthInv, NEW rest \in Health!Room, NEW r
    PROVE  /\ rest \subseteq flight
           /\ IsFiniteSet(rest \cup {r}) /\ Cardinality(rest \cup {r}) <= MaxFlight
<1> USE HealthAssumption
<1>1. IsFiniteSet(flight) /\ Cardinality(flight) <= MaxFlight /\ Cardinality(flight) \in Nat
    BY Counting, FS_CardinalityType DEF HealthInv, FlightFinite, Health!TypeOK
<1>2. rest \subseteq flight /\ IsFiniteSet(rest) /\ Cardinality(rest) < MaxFlight
  <2>1. CASE Cardinality(flight) < MaxFlight
      BY <1>1, <2>1, Counting DEF Health!Room
  <2>2. CASE ~(Cardinality(flight) < MaxFlight)
    <3>1. PICK q \in flight : rest = flight \ {q}
        BY <2>2, Counting DEF Health!Room
    <3>2. IsFiniteSet(rest) /\ Cardinality(rest) = Cardinality(flight) - 1
        BY <1>1, <3>1, FS_RemoveElement
    <3> QED
        BY <1>1, <3>1, <3>2
  <2> QED
      BY <2>1, <2>2
<1>3. /\ IsFiniteSet(rest \cup {r}) /\ Cardinality(rest) \in Nat
      /\ Cardinality(rest \cup {r}) \in {Cardinality(rest), Cardinality(rest) + 1}
    BY <1>2, FS_AddElement, FS_CardinalityType
<1> QED
    BY <1>2, <1>3

LEMMA ReportsKeep ==
    ASSUME HealthInv, NEW h \in Device, NEW a \in Health!Assignment, NEW c \in BOOLEAN,
           Health!Report(h, a, c)
    PROVE  HealthInv'
<1> USE DEF HealthInv
<1>1. Health!Probed(h, c) \in Health!Facts
    BY FactsChanged DEF Health!Probed, Health!TypeOK
<1> DEFINE r == [host |-> h, for |-> a, facts |-> Health!Probed(h, c)]
<1>2. r \in ReportRecord
    BY <1>1 DEF ReportRecord
<1> HIDE DEF r
<1>3. PICK rest \in Health!Room : flight' = rest \cup {r}
    BY DEF Health!Report, r
<1>4. /\ flight' \subseteq ReportRecord
      /\ IsFiniteSet(flight') /\ Cardinality(flight') <= MaxFlight
    BY <1>2, <1>3, RoomLeft DEF Health!TypeOK, ReportRecord
<1>5. UNCHANGED <<Health!serverVars, Health!hostVars>>
    BY DEF Health!Report
<1> QED
    BY <1>4, <1>5, Counting DEF Health!TypeOK, RowsTyped, FlightFinite, OwnedWereMade, RowOfFirst,
                                Health!Owned,
                      Health!serverVars, Health!hostVars, ReportRecord

LEMMA DeliveriesKeep ==
    ASSUME HealthInv, NEW r \in flight, Health!Deliver(r) \/ Health!Lose(r)
    PROVE  HealthInv'
<1> USE DEF HealthInv, Health!hostVars, Health!serverVars
<1> USE HealthAssumption
<1>1. r.host \in Device /\ r.for \in Health!Assignment /\ r.facts \in Health!Facts
    BY DEF Health!TypeOK
<1>2. /\ flight' = flight \ {r}
      /\ UNCHANGED <<owner, made, held, facts, healthChanges>>
    BY DEF Health!Deliver, Health!Lose
<1>3. /\ flight' \subseteq [host : Device, for : Health!Assignment, facts : Health!Facts]
      /\ IsFiniteSet(flight') /\ Cardinality(flight') <= MaxFlight
  <2>1. IsFiniteSet(flight) /\ Cardinality(flight) \in Nat /\ Cardinality(flight) <= MaxFlight
      BY Counting, FS_CardinalityType DEF FlightFinite, Health!TypeOK
  <2>2. IsFiniteSet(flight') /\ Cardinality(flight') = Cardinality(flight) - 1
      BY <1>2, <2>1, FS_RemoveElement
  <2> QED
      BY <1>2, <2>1, <2>2 DEF Health!TypeOK
<1>4. CASE row' = row
    BY <1>2, <1>3, <1>4, Counting DEF Health!TypeOK, RowsTyped, FlightFinite, OwnedWereMade,
                                      RowOfFirst, Health!Owned
<1>5. CASE Health!Accepts(r) /\ row' = Health!Recorded(r)
  <2> DEFINE first == Health!AssignmentFor(r.host)
             new == [facts |-> r.facts, by |-> r.for]
  <2>1. /\ first \in Health!Assignment /\ owner[first] = r.host /\ r.for = first
        /\ \A b \in Health!Owned(r.host) : first <= b
      BY <1>5, FirstAssignment DEF Health!Accepts, Health!Owned
  <2>2. new \in RowRecord /\ new.by = first
      BY <1>1, <2>1 DEF RowRecord
  <2>3. row' = [row EXCEPT ![first] = new]
      BY <1>5 DEF Health!Recorded
  <2> HIDE DEF first, new
  <2>4. RowsTyped'
      BY <2>1, <2>2, <2>3 DEF RowsTyped
  <2>5. \A a \in Health!Assignment :
          row'[a] = None \/ row'[a] \in [facts : Health!Facts, by : Health!Assignment]
      BY <2>4 DEF RowsTyped, RowRecord
  <2>6. Health!TypeOK'
      BY <1>2, <1>3, <2>5, Counting DEF Health!TypeOK
  <2>7. ASSUME NEW a \in Health!Assignment, row'[a] # None
        PROVE  /\ owner[a] \in Device /\ row'[a].by = a
               /\ \A b \in Health!Owned(owner[a]) : a <= b
      BY <1>1, <2>1, <2>2, <2>3, <2>7 DEF RowsTyped, RowOfFirst
  <2>8. RowOfFirst'
      BY <1>2, <2>7 DEF RowOfFirst, Health!Owned
  <2> QED
      BY <1>2, <1>3, <2>4, <2>6, <2>8 DEF FlightFinite, OwnedWereMade
<1> QED
    BY <1>4, <1>5 DEF Health!Deliver, Health!Lose

LEMMA HealthStart == Health!Init => HealthInv
<1> SUFFICES ASSUME Health!Init PROVE HealthInv
    OBVIOUS
<1>1. Health!Unsynced \in Health!Facts
    BY DEF Health!Unsynced, Health!Facts, Health!Entries
<1>2. Health!TypeOK
    BY <1>1, HealthAssumption, Counting, FS_EmptySet DEF Health!Init, Health!TypeOK
<1> QED
    BY <1>2, FS_EmptySet DEF Health!Init, HealthInv, RowsTyped, FlightFinite, OwnedWereMade,
                             RowOfFirst

LEMMA HealthKept ==
    ASSUME HealthInv, [Health!Next]_(Health!vars)
    PROVE  HealthInv'
<1>1. ASSUME NEW h \in Device, Health!Assign(h) \/ Health!Unassign(h) \/ Health!Refresh(h)
      PROVE  HealthInv'
    BY <1>1, AssignmentsKeep
<1>2. ASSUME NEW h \in Device,
             Health!StartRun(h) \/ Health!EndRun(h) \/ Health!Disturb(h) \/ Health!Restart(h)
      PROVE  HealthInv'
  <2>1. facts[h] \in Health!Facts
      BY DEF HealthInv, Health!TypeOK
  <2>2. PICK f \in Health!Facts : Health!Change(h, f)
    <3>1. CASE Health!StartRun(h)
        BY <2>1, <3>1, FactsChanged DEF Health!StartRun
    <3>2. CASE Health!EndRun(h)
        BY <2>1, <3>2, FactsChanged DEF Health!EndRun
    <3>3. CASE Health!Disturb(h)
        BY <2>1, <3>3, FactsChanged DEF Health!Disturb
    <3>4. CASE Health!Restart(h)
        BY <2>1, <3>4, FactsChanged DEF Health!Restart
    <3> QED
        BY <1>2, <3>1, <3>2, <3>3, <3>4
  <2> QED
      BY <2>2, ChangeKeeps
<1>3. ASSUME NEW h \in Device, NEW a \in Health!Assignment, NEW c \in BOOLEAN,
             Health!Report(h, a, c)
      PROVE  HealthInv'
    BY <1>3, ReportsKeep
<1>4. ASSUME NEW r \in flight, Health!Deliver(r) \/ Health!Lose(r) PROVE HealthInv'
    BY <1>4, DeliveriesKeep
<1>5. CASE UNCHANGED Health!vars
    BY <1>5 DEF Health!vars, Health!serverVars, Health!hostVars, HealthInv, Health!TypeOK,
                RowsTyped, FlightFinite,
                OwnedWereMade, RowOfFirst, Health!Owned
<1> QED
    BY <1>1, <1>2, <1>3, <1>4, <1>5 DEF Health!Next

\* The invariant implies what the run checks.
LEMMA HealthChecked == HealthInv => Health!TypeOK /\ Health!HealthIsOwn
<1> SUFFICES ASSUME HealthInv PROVE Health!HealthIsOwn
    BY DEF HealthInv
<1> QED BY HealthAssumption DEF HealthInv, RowOfFirst, Health!HealthIsOwn

-----------------------------------------------------------------------------
(* The composition                                                         *)

FoldersInv == MountInv /\ HealthInv

\* A step of one protocol leaves the other's invariant.
LEMMA FoldersKept ==
    ASSUME FoldersInv, [MountStep \/ HealthStep]_folderVars
    PROVE  FoldersInv' /\ [CopiesKept]_vars
<1>1. [Next]_vars /\ [Health!Next]_(Health!vars)
  <2>1. CASE MountStep
    BY <2>1 DEF MountStep, healthVars, Health!vars, Health!serverVars, Health!hostVars
  <2>2. CASE HealthStep BY <2>2 DEF HealthStep
  <2>3. CASE UNCHANGED folderVars
    BY <2>3 DEF folderVars, healthVars, Health!vars, Health!serverVars, Health!hostVars
  <2> QED BY <2>1, <2>2, <2>3
<1>2. MountInv' /\ CopiesKept BY <1>1, MountKept DEF FoldersInv
<1>3. HealthInv' BY <1>1, HealthKept DEF FoldersInv
<1> QED BY <1>2, <1>3 DEF FoldersInv

LEMMA FoldersInductive == FoldersSpec => []FoldersInv
<1>1. FoldersInit => FoldersInv
    BY MountStart, HealthStart DEF FoldersInit, FoldersInv
<1>2. FoldersInv /\ [MountStep \/ HealthStep]_folderVars => FoldersInv'
    BY FoldersKept
<1> QED BY <1>1, <1>2, PTL DEF FoldersSpec

\* Whatever the switch, the reconciliations, the timers, the unit and the
\* daemon's deaths do, in whatever order (daemon/src/mount-switch.ts, mount.ts),
\* their state stays what the code can name; and the health the server keeps of
\* an assignment was reported for it, however late the report of an earlier one
\* arrives (POST /folder-health, DELETE /folders/:id/assign/:hostId).
THEOREM FoldersSafe == FoldersSpec => []FoldersInvariant
<1>1. FoldersInv => FoldersInvariant
    BY MountTypes, HealthChecked DEF FoldersInv, FoldersInvariant
<1> QED BY <1>1, FoldersInductive, PTL

\* Until a trash is purged, the last edit a user made in the directory keeps a
\* copy: in the directory, at the destination or in a trash. Neither a switch
\* that fails or dies at any step nor a run on an emptied or mounted directory
\* takes it, but for a file the resync of an emptied directory replaces.
THEOREM LastCopyStays == FoldersSpec => LastCopyKept
<1>1. FoldersInv /\ [MountStep \/ HealthStep]_folderVars => [CopiesKept]_vars
    BY FoldersKept
<1>2. [CopiesKept]_vars =>
        [~purged' => \A f \in File \ (exposed \union exposed') :
           HasCopy(f) => \/ HasCopy(f)'
                         \/ TooManyRemoved /\ local'[f] = remote[f]]_vars
    BY DEF CopiesKept
<1> QED BY <1>1, <1>2, FoldersInductive, PTL DEF FoldersSpec, LastCopyKept

=============================================================================
