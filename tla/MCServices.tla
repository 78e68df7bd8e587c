------------------------------ MODULE MCServices ------------------------------
(***************************************************************************)
(* Small instances for TLC of four services that share no state: seed      *)
(* jobs, the report queue, server deploys and live progress.  One of them, *)
(* named by "part", runs in each behaviour, so that their state spaces add *)
(* up and do not multiply.                                                 *)
(***************************************************************************)
EXTENDS SeedJob

CONSTANTS
    RunReport, Flush, MaxEntries, ReportFaults,
    Job, StaleAfter, ScriptTimeout, HealthTimeout, HistoryLimit, MaxAttempts, DeployFaults,
    Runs, MaxReports, RegistryLimit, ProgressFaults

VARIABLES
    part,      \* the service that runs
    losses,    \* its faults so far
    sent, file, lines, daemon, logged, trimmed,
    history, status, claimAge, agent, outcome, attempts, recorded,
    latest, dirty, sending, timer, flight, answered, handed, gone, registry

Reports == INSTANCE ReportQueue
    WITH Report <- RunReport, faults <- losses, MaxFaults <- ReportFaults

Deploys == INSTANCE ServerDeploy
    WITH age <- claimAge, faults <- losses, MaxFaults <- DeployFaults

Progress == INSTANCE LiveProgress
    WITH MaxEntries <- RegistryLimit, faults <- losses, MaxFaults <- ProgressFaults

\* DEPLOY_TIMEOUT_MS and the wait for health fit in STALE_RUNNING_MS.
ASSUME TimeoutsAssumption == ScriptTimeout + HealthTimeout <= StaleAfter
ASSUME LimitsAssumption == Reports!Limits
ASSUME DeploysAssumption ==
    /\ {StaleAfter, ScriptTimeout, HealthTimeout, HistoryLimit, MaxAttempts} \subseteq Nat
    /\ ScriptTimeout + HealthTimeout >= 1
ASSUME ProgressAssumption == {Runs, MaxReports, RegistryLimit} \subseteq Nat

reportVars == <<sent, file, lines, daemon, logged, trimmed>>
deployVars == <<history, status, claimAge, agent, outcome, attempts, recorded>>
progressVars == <<latest, dirty, sending, timer, flight, answered, handed, gone, registry>>
serviceVars == <<part, losses, vars, reportVars, deployVars, progressVars>>

ServicesInit ==
    /\ part \in {"seed", "reports", "deploys", "progress"}
    /\ Init
    /\ Reports!Init
    /\ Deploys!Init
    /\ Progress!Init

SeedStep ==
    /\ part = "seed"
    /\ Next
    /\ UNCHANGED <<part, losses, reportVars, deployVars, progressVars>>

ReportsStep ==
    /\ part = "reports"
    /\ Reports!Next
    /\ UNCHANGED <<part, vars, deployVars, progressVars>>

DeploysStep ==
    /\ part = "deploys"
    /\ Deploys!Next
    /\ UNCHANGED <<part, vars, reportVars, progressVars>>

ProgressStep ==
    /\ part = "progress"
    /\ Progress!Next
    /\ UNCHANGED <<part, vars, reportVars, deployVars>>

ServicesNext == SeedStep \/ ReportsStep \/ DeploysStep \/ ProgressStep

\* The fairness of each service, for the one that runs.
SeedFairness ==
    /\ \A r \in Role :
        /\ WF_vars(part = "seed" /\ RunStep(r))
        /\ WF_vars(part = "seed" /\ RenewLease(r))
    /\ WF_vars(part = "seed" /\ SourceStep)
    /\ WF_vars(part = "seed" /\ TargetStep)
    /\ WF_vars(part = "seed" /\ ServeRequest)
    /\ WF_vars(part = "seed" /\ Reap)
    /\ WF_vars(part = "seed" /\ Tick)

ReportsFairness ==
    LET v == <<reportVars, losses>> IN
    /\ WF_v(part = "reports" /\ ((\E f \in Flush : Reports!Boot(f)) \/ Reports!BootUnregistered))
    /\ \A f \in Flush :
        /\ WF_v(part = "reports" /\ Reports!StartFlush(f))
        /\ WF_v(part = "reports" /\ (Reports!FlushDelivers(f) \/ Reports!FlushFails(f)))

DeploysFairness ==
    LET v == <<deployVars, losses>> IN
    /\ WF_v(part = "deploys" /\ \E j \in Job : Deploys!Peek(j))
    /\ WF_v(part = "deploys" /\ \E j \in Job : Deploys!AgentStep(j))
    /\ WF_v(part = "deploys" /\ Deploys!Tick)

ProgressFairness ==
    LET v == <<progressVars, losses>> IN
    \A r \in 1 .. Runs :
        /\ WF_v(part = "progress" /\ Progress!TimerFires(r))
        /\ WF_v(part = "progress" /\ Progress!SendEnds(r))
        /\ WF_v(part = "progress" /\ Progress!Sweep(r))

ServicesSpec ==
    /\ ServicesInit /\ [][ServicesNext]_serviceVars
    /\ SeedFairness
    /\ ReportsFairness
    /\ DeploysFairness
    /\ ProgressFairness

-----------------------------------------------------------------------------
(* Correctness                                                             *)

\* The types of the four services, the report file keeps its limit
\* (ReportQueue: trim and writeLines), the deploy at work is the agent's own
\* (ServerDeploy: STALE_RUNNING_MS), and the registry keeps its cap
\* (LiveProgress: enforceCap).
ServicesInvariant ==
    /\ TypeOK
    /\ Reports!QueueBounded
    /\ Deploys!TypeOK /\ Deploys!AtWorkIsClaimed
    /\ Progress!TypeOK /\ Progress!RegistryBounded

\* A running seed ends, and ends completed if nothing fails (SeedJob: the
\* daily reaper, the handover in reportSeedJobArchiveOnce).
SeedEnds == RunningEnds /\ (part = "seed" => SeedCompletes)

\* A report in the file reaches the server (ReportQueue: flush).  A requested
\* deploy ends and its outcome is final (ServerDeploy: poll, complete,
\* reapStaleRunningDeploys).  What was observed of a run is sent, and a run
\* that ended leaves the display (LiveProgress: createSyncProgressReporter,
\* sweepExpired).
ServicesSettle ==
    /\ Reports!QueuedIsDelivered
    /\ Deploys!DeployEnds /\ Deploys!OutcomeIsFinal
    /\ Progress!ObservedIsSent /\ Progress!EndedIsCleared
=============================================================================
