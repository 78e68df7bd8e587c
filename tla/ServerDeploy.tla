---------------------------- MODULE ServerDeploy ----------------------------
(***************************************************************************)
(* Production deploys: the job table (routes/server-deploys.ts) and the    *)
(* one deploy agent that polls it, claims a job, runs the fixed script,    *)
(* waits for the API to be healthy again and records the outcome           *)
(* (deploy-agent/src).  The deploy restarts the server it reports to, so   *)
(* requests fail in the middle of a job; the agent may be killed, and the  *)
(* service manager kills its script with it.                               *)
(*                                                                         *)
(* A running job has no heartbeat: one that is older than StaleAfter is    *)
(* given back whenever somebody looks, and its script runs again.          *)
(***************************************************************************)
EXTENDS Naturals, Sequences, SequencesExt

CONSTANTS
    Job,            \* deploys somebody may request
    None,
    StaleAfter,     \* STALE_RUNNING_MS, in ticks
    ScriptTimeout,  \* script timeout, in ticks
    HealthTimeout,  \* bounded wait for health, in ticks
    HistoryLimit,   \* HISTORY_LIMIT: rows that are kept
    MaxAttempts,    \* attempts of completeWithRetry
    MaxFaults       \* bound: lost requests or answers, and kills

VARIABLES
    history,   \* server: jobs with a row, newest first
    status,    \* server: "new", "pending", "running", "succeeded", "failed"
    age,       \* server: ticks since started_at, None while there is none
    agent,     \* agent: what it is doing, for which job, for how long
    outcome,   \* agent: the outcome it has to record
    attempts,  \* agent: completions tried
    recorded,  \* history variable: jobs whose outcome was recorded
    faults     \* faults so far

vars == <<history, status, age, agent, outcome, attempts, recorded, faults>>

Active == {"pending", "running"}
Outcome == {"succeeded", "failed"}
Idle == [at |-> "idle", job |-> None, ticks |-> 0]
At(phase, j) == [at |-> phase, job |-> j, ticks |-> 0]

TypeOK ==
    /\ history \in BoundedSeq(Job, HistoryLimit)
    /\ status \in [Job -> {"new"} \cup Active \cup Outcome]
    /\ age \in [Job -> 0 .. StaleAfter + 1 \cup {None}]
    /\ agent \in [at : {"idle", "peeked", "script", "health", "complete"},
                  job : Job \cup {None}, ticks : 0 .. ScriptTimeout + HealthTimeout]
    /\ outcome \in Outcome \cup {None}
    /\ attempts \in 0 .. MaxAttempts
    /\ recorded \subseteq Job

Init ==
    /\ history = <<>>
    /\ status = [j \in Job |-> "new"]
    /\ age = [j \in Job |-> None]
    /\ agent = Idle
    /\ outcome = None
    /\ attempts = 0
    /\ recorded = {}
    /\ faults = 0

Fault == faults < MaxFaults /\ faults' = faults + 1

-----------------------------------------------------------------------------
(* The job table                                                           *)

\* Mutant of Stale: the age is not looked at.
StaleAlways(j) == status[j] = "running"

\* Mutant of Stale: a job of an agent that died is never given back.
StaleNever(j) == FALSE

\* A running job whose claim is too old.
Stale(j) == status[j] = "running" /\ age[j] > StaleAfter

\* reapStaleRunningDeploys: back to pending, started_at cleared.
Reaped == [j \in Job |-> IF Stale(j) THEN "pending" ELSE status[j]]
ReapedAge == [j \in Job |-> IF Stale(j) THEN None ELSE age[j]]

\* Rows that trimHistory leaves.
Trim(s) == SubSeq(s, 1, IF Len(s) > HistoryLimit THEN HistoryLimit ELSE Len(s))

\* POST /server-deploys: an active job is returned instead of a new one.
Request(j) ==
    /\ status[j] = "new"
    /\ \A i \in ToSet(history) : status[i] \notin Active
    /\ status' = [status EXCEPT ![j] = "pending"]
    /\ history' = Trim(<<j>> \o history)
    /\ UNCHANGED <<age, agent, outcome, attempts, recorded, faults>>

\* A request or a listing while a job is active only reaps.
Look ==
    /\ \E j \in ToSet(history) : Stale(j)
    /\ status' = Reaped
    /\ age' = ReapedAge
    /\ UNCHANGED <<history, agent, outcome, attempts, recorded, faults>>

-----------------------------------------------------------------------------
(* The agent                                                               *)

\* The poll: GET /server-deploys/pending reaps and answers with a job.
Peek(j) ==
    /\ agent = Idle
    /\ j \in ToSet(history) /\ Reaped[j] = "pending"
    /\ status' = Reaped
    /\ age' = ReapedAge
    /\ agent' = At("peeked", j)
    /\ UNCHANGED <<history, outcome, attempts, recorded, faults>>

\* The atomic claim, and the script starts.
Claim(j) ==
    /\ agent.at = "peeked" /\ agent.job = j
    /\ IF j \in ToSet(history) /\ status[j] = "pending"
       THEN /\ status' = [status EXCEPT ![j] = "running"]
            /\ age' = [age EXCEPT ![j] = 0]
            /\ agent' = At("script", j)
       ELSE agent' = Idle /\ UNCHANGED <<status, age>>
    /\ UNCHANGED <<history, outcome, attempts, recorded, faults>>

\* The claim or its answer is lost: the agent polls again.
ClaimLost(j) ==
    /\ Fault
    /\ agent.at = "peeked" /\ agent.job = j
    /\ agent' = Idle
    /\ \/ UNCHANGED <<status, age>>
       \/ /\ status[j] = "pending"
          /\ status' = [status EXCEPT ![j] = "running"]
          /\ age' = [age EXCEPT ![j] = 0]
    /\ UNCHANGED <<history, outcome, attempts, recorded>>

\* The script exits, or is killed at its timeout.
ScriptEnds(j) ==
    /\ agent.at = "script" /\ agent.job = j
    /\ \/ /\ agent' = At("health", j)
          /\ outcome' = None
       \/ /\ agent' = At("complete", j)
          /\ outcome' = "failed"
    /\ UNCHANGED <<history, status, age, attempts, recorded, faults>>

\* The API answers its health probe, or the wait is over.
HealthEnds(j) ==
    /\ agent.at = "health" /\ agent.job = j
    /\ outcome' \in Outcome
    /\ agent' = At("complete", j)
    /\ UNCHANGED <<history, status, age, attempts, recorded, faults>>

\* POST /server-deploys/:id/complete takes a running job, or one that was
\* given back meanwhile.
Completable(j) == j \in ToSet(history) /\ status[j] \in Active

\* The completion at the server.
Record(j) ==
    IF Completable(j)
    THEN /\ status' = [status EXCEPT ![j] = outcome]
         /\ recorded' = recorded \cup {j}
    ELSE UNCHANGED <<status, recorded>>

AgentDone == agent' = Idle /\ outcome' = None /\ attempts' = 0

\* completeWithRetry: recorded, and the answer arrives.
Complete(j) ==
    /\ agent.at = "complete" /\ agent.job = j
    /\ Completable(j)
    /\ Record(j)
    /\ AgentDone
    /\ UNCHANGED <<history, age, faults>>

\* A failed attempt is repeated until there are none left.
TryAgain ==
    IF attempts + 1 < MaxAttempts
    THEN /\ attempts' = attempts + 1
         /\ agent' = [agent EXCEPT !.ticks = 0]
         /\ UNCHANGED outcome
    ELSE AgentDone

\* The job has an outcome or no row: an error, like any other, is retried.
CompleteRefused(j) ==
    /\ agent.at = "complete" /\ agent.job = j
    /\ ~Completable(j)
    /\ TryAgain
    /\ UNCHANGED <<history, status, age, recorded, faults>>

\* The request or its answer is lost.
CompleteLost(j) ==
    /\ Fault
    /\ agent.at = "complete" /\ agent.job = j
    /\ Record(j) \/ UNCHANGED <<status, recorded>>
    /\ TryAgain
    /\ UNCHANGED <<history, age>>

\* The agent is killed, and its script; a completion on its way may land.
Kill ==
    /\ Fault
    /\ agent # Idle
    /\ AgentDone
    /\ \/ agent.at = "complete" /\ Record(agent.job)
       \/ UNCHANGED <<status, recorded>>
    /\ UNCHANGED <<history, age>>

\* Time passes, never past a timeout; an attempt to complete takes a tick.
Limit ==
    CASE agent.at = "script" -> ScriptTimeout
      [] agent.at = "health" -> HealthTimeout
      [] agent.at = "complete" -> 1
      [] agent.at = "peeked" -> 1
      [] agent.at = "idle" -> 1

\* A claim that can still grow older.
Ageing(j) == age[j] # None /\ age[j] <= StaleAfter

Tick ==
    /\ \E j \in Job : Ageing(j)
    /\ agent = Idle \/ agent.ticks < Limit
    /\ age' = [j \in Job |-> IF Ageing(j) THEN age[j] + 1 ELSE age[j]]
    /\ agent' = IF agent = Idle THEN agent ELSE [agent EXCEPT !.ticks = @ + 1]
    /\ UNCHANGED <<history, status, outcome, attempts, recorded, faults>>

AgentStep(j) ==
    Claim(j) \/ ScriptEnds(j) \/ HealthEnds(j) \/ Complete(j) \/ CompleteRefused(j)

Next ==
    \/ \E j \in Job : Request(j) \/ Peek(j) \/ AgentStep(j) \/ ClaimLost(j) \/ CompleteLost(j)
    \/ Look
    \/ Kill
    \/ Tick

Spec == Init /\ [][Next]_vars

\* The agent's poll timer fires, its work ends, and time passes.
Fairness ==
    /\ WF_vars(\E j \in Job : Peek(j))
    /\ WF_vars(\E j \in Job : AgentStep(j))
    /\ WF_vars(Tick)

FairSpec == Spec /\ Fairness

-----------------------------------------------------------------------------
(* Correctness                                                             *)

\* "after 15 min the job is reclaimable" (STALE_RUNNING_MS): the job whose
\* script runs, or whose health is waited for, is still the agent's own; it
\* is not pending again, and no other deploy is active beside it.
AtWorkIsClaimed ==
    agent.at \in {"script", "health"} =>
        /\ agent.job \in ToSet(history)
        /\ status[agent.job] = "running"
        /\ \A j \in ToSet(history) : status[j] \in Active => j = agent.job

\* A recorded outcome is final: whatever answers are lost, the job does not
\* run again and its outcome does not change (complete in server-deploys.ts).
OutcomeIsFinal ==
    [][\A j \in recorded : status'[j] = status[j]]_vars

\* A requested deploy does not stay active, although the agent dies with it
\* and the deploy restarts the server it reports to; it leaves the active
\* states with an outcome only (reapStaleRunningDeploys, poll).
DeployEnds == \A j \in Job : []<>(status[j] \notin Active)
=============================================================================
