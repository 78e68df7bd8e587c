------------------------------- MODULE SeedJob -------------------------------
(***************************************************************************)
(* One seed job: the first copy of a large folder from a source host to a  *)
(* target host through an archive in a relay bucket.  The server keeps the *)
(* row of folder_seed_jobs (seed-jobs.ts, routes/folder-seed.ts); on each  *)
(* of the two hosts a `seed_job` action runs one half of the phases        *)
(* (runSeedAction and SeedSideRunner in seed-runner.ts) while a supervisor *)
(* renews the job's lease (seed-lease-supervisor.ts).                      *)
(*                                                                         *)
(* A request whose caller gave up may still reach the server.  An action   *)
(* whose ack is lost, or whose daemon crashes, is run again: that is what  *)
(* the action queue does.  The row's status is "planned" exactly in phase  *)
(* preflight, since no side ever reports that phase.                       *)
(***************************************************************************)
EXTENDS Naturals, Sequences

CONSTANTS
    None,
    LeaseTTL,         \* SEED_JOB_LEASE_MS, in ticks
    Grace,            \* SEED_JOB_HANDOVER_GRACE_MS, in ticks
    MaxFaults,        \* bound: crashes, failed requests and failed stages
    OperatorOutcomes, \* outcomes an operator forces on the job
    Timely            \* TRUE: supervisors renew in time, waiting sides go on

Role == {"source", "target"}

Phases == <<"preflight", "measuring_source", "archiving_source",
            "uploading_archive", "downloading_archive", "verifying_archive",
            "extracting_target", "verifying_target", "publishing",
            "baseline_validation">>

Phase == {Phases[i] : i \in 1..Len(Phases)}

Outcome == {"completed", "failed", "cancelled"}

ASSUME ConstantsAssumption ==
    /\ None \notin Role \cup Phase
    /\ LeaseTTL \in Nat \ {0}
    /\ Grace \in 1..LeaseTTL
    /\ MaxFaults \in Nat
    /\ OperatorOutcomes \subseteq Outcome
    /\ Timely \in BOOLEAN

VARIABLES
    phase,      \* server: phase of the row, an outcome once it is over
    owner,      \* server: lease_owner
    age,        \* server: time since the lease, or without one the row, was written
    facts,      \* server: archive facts recorded
    relay,      \* bucket: the job's archive and manifest are there
    published,  \* target: the seed tree is in place
    pc,         \* run: what each side does next
    at,         \* run: the phase it is in or asks for, None before it starts
    latched,    \* run: its supervisor stopped it
    settled,    \* server: the side's action is acked
    requests,   \* requests on their way to the server
    faults      \* faults so far

row == <<phase, owner, age, facts>>
run == <<pc, at, latched, settled>>
vars == <<row, relay, published, run, requests, faults>>

\* "entering", "acting", "failing": about to send a request; "asked",
\* "reporting", "ending": waiting for the answer to it.
Step == {"idle", "waiting", "entering", "asked", "working", "checking",
         "acting", "reporting", "failing", "ending", "cleaning", "settling"}

\* kind: a progress report, the archive facts, or an outcome.
Request == [role: Role, kind: {"progress", "archive", "completed", "failed"},
            phase: Phase \cup {None}, waited: BOOLEAN]

Message(r, k, p) == [role |-> r, kind |-> k, phase |-> p, waited |-> TRUE]

TypeOK ==
    /\ phase \in Phase \cup Outcome
    /\ owner \in Role \cup {None}
    /\ age \in 0..LeaseTTL
    /\ facts \in BOOLEAN
    /\ relay \in BOOLEAN
    /\ published \in BOOLEAN
    /\ pc \in [Role -> Step]
    /\ at \in [Role -> Phase \cup {None}]
    /\ latched \in [Role -> BOOLEAN]
    /\ settled \in [Role -> BOOLEAN]
    /\ requests \subseteq Request
    /\ faults \in 0..MaxFaults

Terminal == phase \in Outcome

Running == ~Terminal /\ phase # "preflight"

\* seedJobPhaseRole.
PhaseRole(p) ==
    IF p \in {"preflight", "measuring_source", "archiving_source", "uploading_archive"}
    THEN "source" ELSE "target"

Follows(p, q) == \E i \in 1..Len(Phases) - 1 : p = Phases[i] /\ q = Phases[i + 1]

\* The phases runSource and runTarget ask for first.
FirstPhase == {"measuring_source", "downloading_archive"}

\* The phase a side goes on to after phase p.
After(p) == CHOOSE q \in Phase : Follows(p, q)

\* POST /seed-jobs has inserted the row and queued an action for each side.
Init ==
    /\ phase = "preflight"
    /\ owner = None
    /\ age = 0
    /\ facts = FALSE
    /\ relay = FALSE
    /\ published = FALSE
    /\ pc = [r \in Role |-> "idle"]
    /\ at = [r \in Role |-> None]
    /\ latched = [r \in Role |-> FALSE]
    /\ settled = [r \in Role |-> FALSE]
    /\ requests = {}
    /\ faults = 0

\* A run goes to step s.
Goto(r, s) == pc' = [pc EXCEPT ![r] = s]

\* The answer to m takes a waiting run to step s.
Answer(m, s) == pc' = IF m.waited THEN [pc EXCEPT ![m.role] = s] ELSE pc

Fault == faults < MaxFaults /\ faults' = faults + 1

-----------------------------------------------------------------------------
(* The server                                                              *)

\* `lease_expires_at <= now`.
Lapsed == age = LeaseTTL

LeaseLive(r) == owner = r /\ ~Lapsed

\* CLAIMABLE_BY.
Claimable(r) == owner \in {None, r} \/ Lapsed

\* canTransitionSeedPhase between two phases.
CanTransition(p, q) == p \in Phase /\ (p = q \/ Follows(p, q))

\* The rules of POST /seed-jobs/:id/progress for a party.
MayEnter(r, p) ==
    /\ ~Terminal
    /\ PhaseRole(p) = r
    /\ facts = (r = "target")
    /\ CanTransition(phase, p)
    /\ Claimable(r)

ServeProgress(m) ==
    /\ m.kind = "progress"
    /\ requests' = requests \ {m}
    /\ \/ /\ MayEnter(m.role, m.phase)
          /\ phase' = m.phase
          /\ owner' = m.role
          /\ age' = 0
          /\ Answer(m, "working")
       \/ /\ ~MayEnter(m.role, m.phase)
          /\ Answer(m, "cleaning")
          /\ UNCHANGED <<phase, owner, age>>
    /\ UNCHANGED <<facts, relay, published, at, latched, settled, faults>>

\* Mutant of HandOver: the facts are recorded and the lease is kept.
HandOverKept == UNCHANGED <<owner, age>>

\* The statement that records the facts also frees the lease.
HandOver == owner' = None /\ age' = 0

MayRecord(r) == phase = "uploading_archive" /\ LeaseLive(r) /\ ~facts

\* POST /seed-jobs/:id/archive.  It is also refused once the pilot is revoked.
ServeArchive(m) ==
    /\ m.kind = "archive"
    /\ requests' = requests \ {m}
    /\ \/ /\ MayRecord(m.role)
          /\ facts' = TRUE
          /\ HandOver
          /\ Answer(m, "settling")
          /\ UNCHANGED faults
       \/ /\ IF MayRecord(m.role) THEN Fault ELSE UNCHANGED faults
          /\ Answer(m, "failing")
          /\ UNCHANGED <<facts, owner, age>>
    /\ UNCHANGED <<phase, relay, published, at, latched, settled>>

\* finishSeedJobOwnedBy, finishSeedJobAsOperator and the reaper.
End(o) ==
    /\ phase' = o
    /\ owner' = None
    /\ age' = 0
    /\ UNCHANGED facts

\* POST /seed-jobs/:id/complete of a party.  A job that is over is answered
\* with its outcome; the failure report ignores its answer.
ServeComplete(m) ==
    /\ m.kind \in {"completed", "failed"}
    /\ requests' = requests \ {m}
    /\ \/ /\ Running
          /\ LeaseLive(m.role)
          /\ End(m.kind)
       \/ /\ ~(Running /\ LeaseLive(m.role))
          /\ UNCHANGED row
    /\ Answer(m, IF m.kind = "completed" /\ ~Terminal /\ ~(Running /\ LeaseLive(m.role))
                 THEN "failing" ELSE "cleaning")
    /\ UNCHANGED <<relay, published, at, latched, settled, faults>>

\* POST /seed-jobs/:id/cancel, or /complete of an operator.
OperatorEnds(o) ==
    /\ ~Terminal
    /\ End(o)
    /\ UNCHANGED <<relay, published, run, requests, faults>>

\* Mutant of Stale: a job nobody took over is never reaped.
StaleIfOwned == owner # None /\ Lapsed

\* Lease lapsed, or nobody took the job over within the grace.
Stale == IF owner = None THEN age >= Grace ELSE Lapsed

\* reapStaleSeedJobs, from the server's daily timer.
Reap ==
    /\ Running
    /\ Stale
    /\ End("failed")
    /\ UNCHANGED <<relay, published, run, requests, faults>>

-----------------------------------------------------------------------------
(* The supervisor                                                          *)

\* Mutant of Supervised: the lease is renewed only between stages.
SupervisedBetween(r) == at[r] # None /\ ~latched[r] /\ pc[r] # "working"

\* The supervisor of the run is on.
Supervised(r) == at[r] # None /\ ~latched[r]

\* POST /seed-jobs/:id/lease succeeds.
MayRenew(r) == Running /\ PhaseRole(phase) = r /\ LeaseLive(r)

RenewLease(r) ==
    /\ Supervised(r)
    /\ MayRenew(r)
    /\ age > 0
    /\ age' = 0
    /\ UNCHANGED <<phase, owner, facts, relay, published, run, requests, faults>>

\* A renewal is refused because the job is over.
SeesEnd(r) ==
    /\ Supervised(r)
    /\ Terminal
    /\ latched' = [latched EXCEPT ![r] = TRUE]
    /\ UNCHANGED <<row, relay, published, pc, at, settled, requests, faults>>

\* Renewals failed for the whole grace window, or one was refused: the lease
\* was lost, or the first phase was not granted before the timer fired.
LosesLease(r) ==
    /\ Supervised(r)
    /\ ~Terminal
    /\ Fault
    /\ latched' = [latched EXCEPT ![r] = TRUE]
    /\ UNCHANGED <<row, relay, published, pc, at, settled, requests>>

\* The timer fires ten times per lease, and stops the run one interval before
\* the lease ends; the target polls twice a second for its turn.
Due ==
    \/ \E r \in Role : Supervised(r) /\ MayRenew(r) /\ age + 1 = LeaseTTL
    \/ /\ owner = None
       /\ facts
       /\ pc["target"] \in {"waiting", "entering", "asked"}
       /\ ~latched["target"]
       /\ age + 1 = Grace

Tick ==
    /\ Running
    /\ ~Lapsed
    /\ Timely => ~Due
    /\ age' = age + 1
    /\ UNCHANGED <<phase, owner, facts, relay, published, run, requests, faults>>

-----------------------------------------------------------------------------
(* One side: starting                                                      *)

\* runSeedAction reads the job.  The source asks for its first phase at once,
\* the target waits for the facts.
Begin(r) ==
    /\ pc[r] = "idle"
    /\ ~settled[r]
    /\ IF Terminal
       THEN Goto(r, "settling") /\ UNCHANGED at
       ELSE IF r = "source"
       THEN /\ Goto(r, "entering")
            /\ at' = [at EXCEPT ![r] = "measuring_source"]
       ELSE Goto(r, "waiting") /\ UNCHANGED at
    /\ UNCHANGED <<row, relay, published, latched, settled, requests, faults>>

\* No relay space was issued or the job could not be read; or the folder is
\* not assigned to the host for sync, which makes the run fail.
BeginFails(r) ==
    /\ pc[r] = "idle"
    /\ ~settled[r]
    /\ Fault
    /\ \/ Goto(r, "settling")
       \/ ~Terminal /\ Goto(r, "failing")
    /\ UNCHANGED <<row, relay, published, at, latched, settled, requests>>

\* waitForSourceFacts sees the facts, or the end of the job.
WaitEnds ==
    /\ pc["target"] = "waiting"
    /\ \/ /\ Terminal
          /\ Goto("target", "cleaning")
          /\ UNCHANGED at
       \/ /\ ~Terminal
          /\ facts
          /\ Goto("target", "entering")
          /\ at' = [at EXCEPT !["target"] = "downloading_archive"]
    /\ UNCHANGED <<row, relay, published, latched, settled, requests, faults>>

\* It cannot read the job, or half an hour has passed.
WaitFails ==
    /\ pc["target"] = "waiting"
    /\ Fault
    /\ Goto("target", "failing")
    /\ UNCHANGED <<row, relay, published, at, latched, settled, requests>>

-----------------------------------------------------------------------------
(* One side: its phases                                                    *)

Send(r, k, p, s) ==
    /\ requests' = requests \cup {Message(r, k, p)}
    /\ Goto(r, s)

\* assertLive: a run whose supervisor stopped it goes no further.
Stopped(r) ==
    /\ latched[r]
    /\ pc[r] \in {"entering", "working", "checking"}
    /\ Goto(r, "cleaning")
    /\ UNCHANGED <<row, relay, published, at, latched, settled, requests, faults>>

Enter(r) ==
    /\ pc[r] = "entering"
    /\ ~latched[r]
    /\ Send(r, "progress", at[r], "asked")
    /\ UNCHANGED <<row, relay, published, at, latched, settled, faults>>

\* Stages after which authority is verified before something irreversible.
Decisive == {"uploading_archive", "publishing", "baseline_validation"}

\* Downloads need what the source uploaded.
Reads == {"downloading_archive", "verifying_archive"}

StageDone(r) ==
    /\ pc[r] = "working"
    /\ ~latched[r]
    /\ at[r] \in Reads => relay
    /\ relay' = (relay \/ at[r] = "uploading_archive")
    /\ IF at[r] \in Decisive
       THEN Goto(r, "checking") /\ UNCHANGED at
       ELSE Goto(r, "entering") /\ at' = [at EXCEPT ![r] = After(at[r])]
    /\ UNCHANGED <<row, published, latched, settled, requests, faults>>

StageFails(r) ==
    /\ pc[r] = "working"
    /\ ~latched[r]
    /\ \/ Fault
       \/ at[r] \in Reads /\ ~relay /\ UNCHANGED faults
    /\ Goto(r, "failing")
    /\ UNCHANGED <<row, relay, published, at, latched, settled, requests>>

\* verifyAuthority reads the job ...
VerifyAuthority(r) ==
    /\ pc[r] = "checking"
    /\ ~latched[r]
    /\ latched' = [latched EXCEPT ![r] = Terminal]
    /\ Goto(r, IF Terminal THEN "cleaning" ELSE "acting")
    /\ UNCHANGED <<row, relay, published, at, settled, requests, faults>>

\* ... and goes on when it cannot.
VerifyBlindly(r) ==
    /\ pc[r] = "checking"
    /\ ~latched[r]
    /\ Fault
    /\ Goto(r, "acting")
    /\ UNCHANGED <<row, relay, published, at, latched, settled, requests>>

RecordFacts ==
    /\ pc["source"] = "acting"
    /\ Send("source", "archive", None, "reporting")
    /\ UNCHANGED <<row, relay, published, at, latched, settled, faults>>

\* publishStagedTree: one rename into an empty target.
Publish ==
    /\ pc["target"] = "acting"
    /\ at["target"] = "publishing"
    /\ ~published
    /\ published' = TRUE
    /\ Goto("target", "entering")
    /\ at' = [at EXCEPT !["target"] = "baseline_validation"]
    /\ UNCHANGED <<row, relay, latched, settled, requests, faults>>

\* Mutant of Unpublished: the result of the publication is not looked at.
UnpublishedIgnored ==
    /\ Goto("target", "entering")
    /\ at' = [at EXCEPT !["target"] = "baseline_validation"]

\* What a refused publication leads to.
Unpublished == Goto("target", "failing") /\ UNCHANGED at

\* The target has files of its own, or the rename failed.
PublishFails ==
    /\ pc["target"] = "acting"
    /\ at["target"] = "publishing"
    /\ IF published THEN UNCHANGED faults ELSE Fault
    /\ Unpublished
    /\ UNCHANGED <<row, relay, published, latched, settled, requests>>

Complete ==
    /\ pc["target"] = "acting"
    /\ at["target"] = "baseline_validation"
    /\ Send("target", "completed", None, "reporting")
    /\ UNCHANGED <<row, relay, published, at, latched, settled, faults>>

-----------------------------------------------------------------------------
(* One side: ending                                                        *)

FailJob(r) ==
    /\ pc[r] = "failing"
    /\ Send(r, "failed", None, "ending")
    /\ UNCHANGED <<row, relay, published, at, latched, settled, faults>>

\* What of a side's requests is left when it no longer waits: the one it
\* waited for is lost, or is on its way.
Unattended(r) ==
    LET mine == {m \in requests : m.role = r /\ m.waited} IN
    \/ requests' = requests \ mine
    \/ /\ mine # {}
       /\ requests' = (requests \ mine) \cup {[m EXCEPT !.waited = FALSE] : m \in mine}

\* A request times out.  A phase that is not granted stops the run, a report
\* that fails makes it fail.
RequestFails(r) ==
    /\ pc[r] \in {"asked", "reporting", "ending"}
    /\ Fault
    /\ Unattended(r)
    /\ Goto(r, IF pc[r] = "reporting" THEN "failing" ELSE "cleaning")
    /\ UNCHANGED <<row, relay, published, at, latched, settled>>

\* cleanupRelayObjects: best effort, whatever the state of the job.
Cleanup(r) ==
    /\ pc[r] = "cleaning"
    /\ relay' \in {relay, FALSE}
    /\ Goto(r, "settling")
    /\ UNCHANGED <<row, published, at, latched, settled, requests, faults>>

\* The run is over.
Leave(r) ==
    /\ Goto(r, "idle")
    /\ at' = [at EXCEPT ![r] = None]
    /\ latched' = [latched EXCEPT ![r] = FALSE]

Settle(r) ==
    /\ pc[r] = "settling"
    /\ Leave(r)
    /\ settled' = [settled EXCEPT ![r] = TRUE]
    /\ UNCHANGED <<row, relay, published, requests, faults>>

\* The ack is lost: the action will be run again.
SettleFails(r) ==
    /\ pc[r] = "settling"
    /\ Fault
    /\ Leave(r)
    /\ UNCHANGED <<row, relay, published, settled, requests>>

Crash(r) ==
    /\ pc[r] # "idle"
    /\ Fault
    /\ Unattended(r)
    /\ Leave(r)
    /\ UNCHANGED <<row, relay, published, settled>>

-----------------------------------------------------------------------------
RunStep(r) ==
    \/ Begin(r)
    \/ Stopped(r)
    \/ Enter(r)
    \/ StageDone(r)
    \/ StageFails(r)
    \/ VerifyAuthority(r)
    \/ FailJob(r)
    \/ Cleanup(r)
    \/ Settle(r)

RunFault(r) ==
    \/ BeginFails(r)
    \/ VerifyBlindly(r)
    \/ RequestFails(r)
    \/ SettleFails(r)
    \/ Crash(r)

SourceStep == RecordFacts

TargetStep == WaitEnds \/ WaitFails \/ Publish \/ PublishFails \/ Complete

Supervise(r) == RenewLease(r) \/ SeesEnd(r) \/ LosesLease(r)

ServeRequest ==
    \E m \in requests : ServeProgress(m) \/ ServeArchive(m) \/ ServeComplete(m)

Next ==
    \/ \E r \in Role : RunStep(r) \/ RunFault(r) \/ Supervise(r)
    \/ SourceStep
    \/ TargetStep
    \/ ServeRequest
    \/ \E o \in OperatorOutcomes : OperatorEnds(o)
    \/ Reap
    \/ Tick

Spec == Init /\ [][Next]_vars

\* What keeps running: actions are executed, stages and requests end, the
\* server answers, its daily timer fires and time passes.
Fairness ==
    /\ \A r \in Role : WF_vars(RunStep(r)) /\ WF_vars(RenewLease(r))
    /\ WF_vars(SourceStep)
    /\ WF_vars(TargetStep)
    /\ WF_vars(ServeRequest)
    /\ WF_vars(Reap)
    /\ WF_vars(Tick)

FairSpec == Spec /\ Fairness

-----------------------------------------------------------------------------
(* Correctness                                                             *)

\* A seed is reported completed only when its tree is in place, whatever
\* requests were lost or late and whatever runs were repeated (runTarget,
\* finishSeedJobOwnedBy).
CompletedIsPublished == phase = "completed" => published

\* Side r is at work in a phase the server granted to this run.
AtWork(r) ==
    /\ ~latched[r]
    /\ \/ pc[r] \in {"working", "checking", "acting", "reporting"}
       \/ pc[r] \in {"entering", "asked"} /\ at[r] \notin FirstPhase

\* The reaper finds no job that a side is at work on, although a stage may
\* outlive the lease many times over (reapStaleSeedJobs,
\* SeedJobLeaseSupervisor).
HealthyNotReaped == Running /\ Stale => \A r \in Role : ~AtWork(r)

\* "a seed job whose device stopped reporting must not sit in `running`
\* forever" (the daily timer in the server's index.ts).
RunningEnds == Running ~> Terminal

\* Unless something fails, an operator ends it or the target does not even
\* start within the grace, the seed completes: neither side waits for the
\* other for good, and the reaper does not take a handover for an abandoned
\* job (reportSeedJobArchiveOnce, waitForSourceFacts, reapStaleSeedJobs).
SeedCompletes ==
    <>\/ phase = "completed"
      \/ faults > 0
      \/ phase = "cancelled"
      \/ facts /\ owner = None /\ age >= Grace /\ pc["target"] = "idle"
=============================================================================
