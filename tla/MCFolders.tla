------------------------------ MODULE MCFolders ------------------------------
(***************************************************************************)
(* Small instances for TLC of two long lived protocols about a folder on   *)
(* its hosts: the switch between sync and mount (MountSwitch) and the      *)
(* health the server shows of it (FolderHealth).  One of them, named by    *)
(* "part", runs in each behaviour, so that their state spaces add up and   *)
(* do not multiply.                                                        *)
(***************************************************************************)
EXTENDS MountSwitch

CONSTANTS Device, MaxAssignments, HealthChanges, MaxFlight, None

\* The bounds are numbers, and no host is None.
ASSUME HealthAssumption ==
    MaxAssignments \in Nat /\ HealthChanges \in Nat /\ MaxFlight \in Nat /\ None \notin Device

VARIABLES
    part,      \* the protocol that runs
    owner, made, row, held, facts, healthChanges, flight

Health == INSTANCE FolderHealth WITH MaxChanges <- HealthChanges, changes <- healthChanges

healthVars == <<owner, made, row, held, facts, healthChanges, flight>>
folderVars == <<part, vars, healthVars>>

\* The protocol that does not run has one initial state.
FoldersInit ==
    /\ part \in {"mount", "health"}
    /\ Init /\ (part = "health" => systemd)
    /\ Health!Init

MountStep == part = "mount" /\ Next /\ UNCHANGED <<part, healthVars>>

HealthStep == part = "health" /\ Health!Next /\ UNCHANGED <<part, vars>>

\* The fairness of each, for the one that runs.
MountFairness ==
    /\ \A r \in Reconciler :
        /\ WF_vars(part = "mount" /\ RefreshConfig(r))
        /\ WF_vars(part = "mount" /\ BootReconcile(r))
    /\ \A t \in Task : WF_vars(part = "mount" /\ TaskStep(t))
    /\ WF_vars(part = "mount" /\ SwitchStep)
    /\ WF_vars(part = "mount" /\ UnitStep)
    /\ WF_vars(part = "mount" /\ ChildMounts)
    /\ WF_vars(part = "mount" /\ ChildExits)
    /\ WF_vars(part = "mount" /\ AttemptRestart)

HealthFairness ==
    \A h \in Device :
        /\ WF_healthVars(part = "health" /\ Health!Refresh(h))
        /\ \A a \in 1 .. MaxAssignments :
             WF_healthVars(part = "health" /\ Health!Report(h, a, FALSE))
        /\ SF_healthVars(part = "health"
             /\ \E r \in flight : r.host = h /\ Health!Accepts(r) /\ Health!Deliver(r))
        /\ WF_healthVars(part = "health"
             /\ \E r \in flight : r.host = h /\ (Health!Deliver(r) \/ Health!Lose(r)))

FoldersSpec ==
    /\ FoldersInit /\ [][MountStep \/ HealthStep]_folderVars
    /\ MountFairness
    /\ HealthFairness

-----------------------------------------------------------------------------
(* Correctness                                                             *)

\* The types of the one that runs, and the health of an assignment was
\* reported for it (FolderHealth: POST /folder-health).
FoldersInvariant ==
    /\ part = "mount" => TypeOK
    /\ part = "health" => Health!TypeOK /\ Health!HealthIsOwn

\* In the end the server shows what the host's probe finds (FolderHealth:
\* requestHealthReport).
HealthConverges == Health!HealthConverges
=============================================================================
