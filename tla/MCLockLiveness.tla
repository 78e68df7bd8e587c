---------------------------- MODULE MCLockLiveness ----------------------------
(***************************************************************************)
(* Small instances for TLC of the liveness of the destination lock: two    *)
(* hosts that share a destination, or hosts whose destinations operators   *)
(* edit.  One of them, named by "part", runs in each behaviour.            *)
(***************************************************************************)
EXTENDS MCDestinationLock

CONSTANTS EditHost, EditKey, EditId, EditTTL, EditAttempts, Retargets, EditSwitched

VARIABLES
    part,      \* the instance that runs
    eLocks, eKey, eEdits, eCfg, eDaemon, eActive, ePhase, eTries, eRunKey, eId, eAborted,
    eAcquires, eReleases, eExposed, eSwitching, eKeyless

\* Each host has one assignment, of the same key at the start.
Edited == INSTANCE DestinationLock
    WITH Host <- EditHost, Assignment <- EditHost, HostOf <- [h \in EditHost |-> h],
         Key <- EditKey, AssignedKey <- [h \in EditHost |-> CHOOSE k \in EditKey : TRUE],
         LockId <- EditId, LockTTL <- EditTTL, MaxAttempts <- EditAttempts,
         MaxEdits <- Retargets, Switchable <- EditSwitched,
         folderLocks <- eLocks, dbKey <- eKey, edits <- eEdits, cfgKey <- eCfg,
         daemon <- eDaemon, activeLocks <- eActive, phase <- ePhase, tries <- eTries,
         runKey <- eRunKey, lockId <- eId, aborted <- eAborted, acquires <- eAcquires,
         releases <- eReleases, exposed <- eExposed, switching <- eSwitching, keyless <- eKeyless

editVars == <<eLocks, eKey, eEdits, eCfg, eDaemon, eActive, ePhase, eTries, eRunKey, eId,
              eAborted, eAcquires, eReleases, eExposed, eSwitching, eKeyless>>

LivenessInit == part \in {"shared", "edited"} /\ Init /\ Edited!Init

SharedStep == part = "shared" /\ Next /\ UNCHANGED <<part, editVars>>

EditedStep == part = "edited" /\ Edited!Next /\ UNCHANGED <<part, vars>>

\* The fairness of DestinationLock, for the instance that runs.
SharedFairness ==
    /\ \A a \in Assignment :
        /\ WF_vars(part = "shared" /\ RunStep(a) /\ (phase[a] = "holding" => aborted[a]))
        /\ WF_vars(part = "shared" /\ Heartbeat(a))
    /\ \A h \in Host : WF_vars(part = "shared" /\ BootDone(h))
    /\ WF_vars(part = "shared" /\ ServeRequest)
    /\ WF_vars(part = "shared" /\ ReapExpired)
    /\ WF_vars(part = "shared" /\ Tick)

EditedFairness ==
    /\ \A h \in EditHost :
        /\ WF_editVars(part = "edited" /\ Edited!RunStep(h)
                          /\ (ePhase[h] = "holding" => eAborted[h]))
        /\ WF_editVars(part = "edited" /\ Edited!Heartbeat(h))
        /\ WF_editVars(part = "edited" /\ Edited!BootDone(h))
    /\ WF_editVars(part = "edited" /\ Edited!ServeRequest)
    /\ WF_editVars(part = "edited" /\ Edited!ReapExpired)
    /\ WF_editVars(part = "edited" /\ Edited!Tick)

LivenessSpec ==
    /\ LivenessInit /\ [][SharedStep \/ EditedStep]_<<part, vars, editVars>>
    /\ SharedFairness
    /\ EditedFairness

\* A run whose row is not its own ends, after lost heartbeats and after an
\* edited destination (DestinationLock: heartbeatLock).
MisdirectedEnds == MisdirectedRunEnds /\ Edited!MisdirectedRunEnds
=============================================================================
