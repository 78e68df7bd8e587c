-------------------------------- MODULE MCJobs --------------------------------
(***************************************************************************)
(* Small instances for TLC of the server's two tables of work: the actions *)
(* queued for a daemon (ActionQueue) and the data browser's jobs           *)
(* (BrowseJobs).  They share no state: one of them, named by "part", runs  *)
(* in each behaviour, so that their state spaces add up and do not         *)
(* multiply.                                                               *)
(***************************************************************************)
EXTENDS ActionQueue, TLC

CONSTANTS h1, x1, x2,
          Dir, Name, Full, MaxJobs, BrowseFaults

\* Both actions are for one host.
OneQueue == (x1 :> h1) @@ (x2 :> h1)

VARIABLES
    part,      \* the table that is at work
    tree, row, job, activeDestinations, activeSources, sizes, generation, up, browseFaults

Browsing == INSTANCE BrowseJobs WITH faults <- browseFaults, MaxFaults <- BrowseFaults

ASSUME BrowseAssumption == {MaxJobs, BrowseFaults} \subseteq Nat

browseVars == <<tree, row, job, activeDestinations, activeSources, sizes, generation, up,
                browseFaults>>
jobsVars == <<part, vars, browseVars>>

JobsInit == part \in {"actions", "browse"} /\ Init /\ Browsing!Init

ActionsStep == part = "actions" /\ Next /\ UNCHANGED <<part, browseVars>>

BrowseStep == part = "browse" /\ Browsing!Next /\ UNCHANGED <<part, vars>>

JobsNext == ActionsStep \/ BrowseStep

\* The fairness of each table, for the one that is at work.
ActionsFairness ==
    /\ \A h \in Host :
        /\ WF_vars(part = "actions" /\ (BootReclaim(h) \/ ReclaimFails(h)))
        /\ WF_vars(part = "actions" /\ \E l \in PollLoop : PollTick(h, l))
        /\ \A l \in Loop : WF_vars(part = "actions" /\ LoopStep(h, l))
    /\ \A x \in Action : WF_vars(part = "actions" /\ RenewLease(x))
    /\ WF_vars(part = "actions" /\ ServeRequest)
    /\ WF_vars(part = "actions" /\ Tick)

BrowseFairness ==
    /\ \A j \in 1 .. MaxJobs : WF_browseVars(part = "browse" /\ Browsing!JobStep(j))
    /\ WF_browseVars(part = "browse" /\ Browsing!Boot)

JobsSpec == JobsInit /\ [][JobsNext]_jobsVars /\ ActionsFairness /\ BrowseFairness

-----------------------------------------------------------------------------
(* Correctness                                                             *)

\* The types of both, and what the guards of the browser keep: one writer of
\* a destination and no size older than a write (BrowseJobs:
\* activeDestinations, the write generation).
JobsInvariant ==
    /\ TypeOK
    /\ Browsing!TypeOK /\ Browsing!DestinationExclusive /\ Browsing!SizesFresh

\* A move removes nothing its destination does not hold (BrowseJobs:
\* startBrowseCopyMove).
MoveLosesNothing == Browsing!MoveLosesNothing

\* Work that was accepted gets an outcome (ActionQueue: the reaper and the
\* reclaim; BrowseJobs: reconcileStuckBrowseJobs).
WorkSettles == ActionSettles /\ Browsing!JobSettles
=============================================================================
