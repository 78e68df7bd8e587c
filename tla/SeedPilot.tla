------------------------------ MODULE SeedPilot ------------------------------
(***************************************************************************)
(* The gate in front of a seed: the operator's pilot, which authorizes one *)
(* ordered pair of hosts and one bucket (server/src/seed-pilot.ts), the    *)
(* probe that proves the bucket usable while the pilot and the backend's   *)
(* key may change, the jobs, and the relay space each party gets in its    *)
(* host config and keeps in memory.                                        *)
(*                                                                         *)
(* There is one folder, two hosts and one S3 backend.  A pair is named by  *)
(* its source host.  A fingerprint is the backend's key and the bucket:    *)
(* equal fingerprints mean the same probe target.                          *)
(***************************************************************************)
EXTENDS Naturals, Sequences

CONSTANTS
    PilotHost,    \* the two hosts
    Credential,   \* the keys the backend may have
    Bucket,
    MaxWrites,    \* bound: writes of the pilot
    MaxRotations, \* bound: changes of the backend's key
    MaxProbes,    \* bound: probes
    MaxJobs,      \* bound: seed jobs
    Nothing       \* no value

Role == {"source", "target"}
Fingerprint == [credential : Credential, bucket : Bucket]

VARIABLES
    pilot,      \* the row of seed_pilot_config
    credential, \* the key of the backend, Nothing when it is not usable
    probes,     \* probes in flight: the revision and the target they were started for
    passed,     \* history: the configurations a probe passed for
    job,        \* the seed jobs, in the order they were created; history: the spaces issued for them
    config,     \* per host: the relay space in the host config it holds
    side,       \* per job and role: the seed_job action and the space it uses
    spent       \* rotations and probes so far

pilotVars == <<pilot, credential, probes, passed>>
jobVars == <<job, config, side>>
vars == <<pilotVars, jobVars, spent>>

Target(p) == CHOOSE h \in PilotHost : h # p
RoleIn(p, h) == IF h = p THEN "source" ELSE "target"

Unknown == [state |-> "unknown", print |-> Nothing]
Space == [job : 1 .. MaxJobs, role : Role, print : Fingerprint]

TypeOK ==
    /\ pilot \in [enabled : BOOLEAN, pair : PilotHost \cup {Nothing}, bucket : Bucket \cup {Nothing},
                  revision : 0 .. MaxWrites,
                  verdict : [state : {"unknown", "ready", "failed"}, print : Fingerprint \cup {Nothing}]]
    /\ credential \in Credential \cup {Nothing}
    /\ probes \subseteq [revision : 1 .. MaxWrites, print : Fingerprint]
    /\ passed \subseteq [revision : 1 .. MaxWrites, pair : PilotHost, print : Fingerprint]
    /\ Len(job) <= MaxJobs /\ \A j \in 1 .. Len(job) : job[j] \in [pair : PilotHost, live : BOOLEAN, issued : SUBSET Fingerprint]
    /\ config \in [PilotHost -> Space \cup {Nothing}]
    /\ side \in [1 .. MaxJobs -> [Role -> [state : {"none", "queued", "over"}, print : Fingerprint \cup {Nothing}]]]
    /\ spent \in [rotations : 0 .. MaxRotations, probes : 0 .. MaxProbes]

Init ==
    /\ pilot = [enabled |-> FALSE, pair |-> Nothing, bucket |-> Nothing, revision |-> 0, verdict |-> Unknown]
    /\ credential \in Credential
    /\ probes = {} /\ passed = {}
    /\ job = <<>>
    /\ config = [h \in PilotHost |-> Nothing]
    /\ side = [j \in 1 .. MaxJobs |-> [r \in Role |-> [state |-> "none", print |-> Nothing]]]
    /\ spent = [rotations |-> 0, probes |-> 0]

-----------------------------------------------------------------------------
(* The pilot and its verdict                                               *)

\* Mutant of KeepVerdict: enabling the same backend and bucket keeps it too.
KeepWhenSame(enabled, bucket) == pilot.bucket = bucket

\* The verdict survives only when the pilot is disabled as it is.
KeepVerdict(enabled, bucket) == ~enabled /\ pilot.bucket = bucket

\* setSeedPilotConfig
Written(enabled, pair, bucket) ==
    [enabled |-> enabled, pair |-> pair, bucket |-> bucket, revision |-> pilot.revision + 1,
     verdict |-> IF KeepVerdict(enabled, bucket) THEN pilot.verdict ELSE Unknown]

\* PUT /seed-pilot; the folder and both assignments exist.
PutPilot(enabled, pair, bucket) ==
    /\ pilot.revision < MaxWrites
    /\ enabled => credential # Nothing
    /\ pilot' = Written(enabled, pair, bucket)
    /\ UNCHANGED <<credential, probes, passed, jobVars, spent>>

\* DELETE /seed-pilot: clearSeedPilotConfig
ClearPilot ==
    /\ pilot.revision < MaxWrites
    /\ pilot' = Written(FALSE, Nothing, Nothing)
    /\ UNCHANGED <<credential, probes, passed, jobVars, spent>>

\* liveSeedRelayTargetFingerprint
LivePrint ==
    IF pilot.enabled /\ credential # Nothing
    THEN [credential |-> credential, bucket |-> pilot.bucket]
    ELSE Nothing

\* Mutant of ReadinessIsCurrent: a verdict that passed stays good.
ReadinessPassed == pilot.verdict.state = "ready"

\* seedPilotReadinessIsCurrent
ReadinessIsCurrent ==
    /\ LivePrint # Nothing
    /\ pilot.verdict = [state |-> "ready", print |-> LivePrint]

\* seedPilotExecutionEligibility: the ordered pair, and the space.
Eligible(p) == pilot.enabled /\ pilot.pair = p /\ ReadinessIsCurrent

\* History: the live jobs of the pair that is eligible now may use its space.
NoteIssued ==
    job' = [j \in DOMAIN job |->
              IF job[j].live /\ \E p \in PilotHost : p = job[j].pair /\ Eligible(p)'
              THEN [job[j] EXCEPT !.issued = @ \cup {LivePrint'}]
              ELSE job[j]]

\* PUT /backends/:id: another key, or settings that do not resolve.
Rotate(c) ==
    /\ spent.rotations < MaxRotations
    /\ c # credential
    /\ credential' = c
    /\ spent' = [spent EXCEPT !.rotations = @ + 1]
    /\ UNCHANGED <<pilot, probes, passed, config, side>>
    /\ NoteIssued

\* probeAndRecordSeedRelayReadiness up to the probe.  A target that does not
\* resolve is a failed verdict at once.
StartProbe ==
    /\ pilot.enabled
    /\ spent.probes < MaxProbes
    /\ spent' = [spent EXCEPT !.probes = @ + 1]
    /\ IF LivePrint = Nothing
       THEN pilot' = [pilot EXCEPT !.verdict = [state |-> "failed", print |-> Nothing]] /\ UNCHANGED probes
       ELSE probes' = probes \cup {[revision |-> pilot.revision, print |-> LivePrint]} /\ UNCHANGED pilot
    /\ UNCHANGED <<credential, passed, jobVars>>

\* Mutant of Recorded: the revision is not compared.
RecordedForTarget(probe) == pilot.enabled /\ LivePrint = probe.print

\* The compare-and-set of recordSeedPilotReadiness.
Recorded(probe) ==
    /\ LivePrint = probe.print
    /\ pilot.enabled /\ pilot.revision = probe.revision /\ pilot.bucket = probe.print.bucket

\* probeSeedRelayBucket ends: upload, size, read back and delete, all or not.
EndProbe(probe, ok) ==
    /\ probe \in probes
    /\ probes' = probes \ {probe}
    /\ pilot' = IF Recorded(probe)
                THEN [pilot EXCEPT !.verdict =
                        [state |-> IF ok THEN "ready" ELSE "failed", print |-> probe.print]]
                ELSE pilot
    /\ passed' = IF ok /\ pilot.enabled /\ pilot.revision = probe.revision
                 THEN passed \cup {[revision |-> probe.revision, pair |-> pilot.pair, print |-> probe.print]}
                 ELSE passed
    /\ UNCHANGED <<credential, config, side, spent>>
    /\ NoteIssued

\* The server restarts during the probe.
ProbeLost(probe) ==
    /\ probe \in probes
    /\ probes' = probes \ {probe}
    /\ UNCHANGED <<pilot, credential, passed, jobVars, spent>>

-----------------------------------------------------------------------------
(* Jobs                                                                    *)

\* Mutant of ActiveSeedJobs: only a job a side has started counts.
StartedJobs(p) == {j \in DOMAIN job : job[j].pair = p /\ job[j].live /\ \E r \in Role : side[j][r].state = "over"}

\* activeSeedJobForPair
ActiveSeedJobs(p) == {j \in DOMAIN job : job[j].pair = p /\ job[j].live}

\* POST /seed-jobs from a valid plan of the pair (SeedPlan), with
\* enqueueSeedJobActions.
CreateSeedJob(p) ==
    /\ Len(job) < MaxJobs
    /\ Eligible(p)
    /\ ActiveSeedJobs(p) = {}
    /\ job' = Append(job, [pair |-> p, live |-> TRUE, issued |-> {LivePrint}])
    /\ side' = [side EXCEPT ![Len(job) + 1] = [r \in Role |-> [state |-> "queued", print |-> Nothing]]]
    /\ UNCHANGED <<pilotVars, config, spent>>

\* It completes, fails, is cancelled or reaped.
SeedJobEnds(j) ==
    /\ job[j].live
    /\ job' = [job EXCEPT ![j].live = FALSE]
    /\ UNCHANGED <<pilotVars, config, side, spent>>

-----------------------------------------------------------------------------
(* The relay space of a host                                               *)

\* The jobs of the authorized pair that are not terminal.
SpaceJobs == {j \in DOMAIN job : job[j].live /\ job[j].pair = pilot.pair}

\* seedRelaySpaceForHost: the newest of them.
RelaySpace(h) ==
    IF ReadinessIsCurrent /\ SpaceJobs # {}
    THEN [job |-> CHOOSE j \in SpaceJobs : \A k \in SpaceJobs : k <= j,
          role |-> RoleIn(pilot.pair, h), print |-> LivePrint]
    ELSE Nothing

\* GET /config/:hostId
RefreshConfig(h) ==
    /\ config' = [config EXCEPT ![h] = RelaySpace(h)]
    /\ UNCHANGED <<pilotVars, job, side, spent>>

\* Mutant of Usable: a space of another job is good enough.
UsableForRole(space, j, role) == space # Nothing /\ space.role = role

\* seedRelaySpaceFromHostConfig
Usable(space, j, role) == space # Nothing /\ space.job = j /\ space.role = role

\* runSeedAction up to its first step: the space in hand, or one refresh,
\* which may fail.
StartSide(j, role, answered) ==
    LET h == IF role = "source" THEN job[j].pair ELSE Target(job[j].pair)
        held == config[h]
        fresh == IF Usable(held, j, role) \/ ~answered THEN held ELSE RelaySpace(h)
    IN  /\ side[j][role].state = "queued"
        /\ config' = [config EXCEPT ![h] = fresh]
        /\ side' = [side EXCEPT ![j][role] =
                      [state |-> "over",
                       print |-> IF Usable(fresh, j, role) /\ job[j].live THEN fresh.print ELSE Nothing]]
        /\ UNCHANGED <<pilotVars, job, spent>>

-----------------------------------------------------------------------------
Operator ==
    \/ \E e \in BOOLEAN, p \in PilotHost, b \in Bucket : PutPilot(e, p, b)
    \/ ClearPilot
    \/ \E c \in Credential \cup {Nothing} : Rotate(c)
    \/ StartProbe
    \/ \E p \in PilotHost : CreateSeedJob(p)

Progress ==
    \/ \E b \in probes : (\E ok \in BOOLEAN : EndProbe(b, ok)) \/ ProbeLost(b)
    \/ \E j \in DOMAIN job : SeedJobEnds(j) \/ \E r \in Role, a \in BOOLEAN : StartSide(j, r, a)
    \/ \E h \in PilotHost : RefreshConfig(h)

Next == Operator \/ Progress

Spec == Init /\ [][Next]_vars

-----------------------------------------------------------------------------
(* Correctness                                                             *)

\* A pair is eligible only after a probe of exactly the backend and bucket
\* that are configured now, started and passed since the pilot was last
\* written, however writes, rotations and probes overlap
\* (recordSeedPilotReadiness: "The compare-and-set is the whole point").
ReadyIsProven ==
    \A p \in PilotHost : Eligible(p) => [revision |-> pilot.revision, pair |-> p, print |-> LivePrint] \in passed

\* A side of a seed works only through a space that was authorized and proven
\* for the pair of its job, in its direction, while that job was live, although
\* a host keeps the space of an earlier job and holds its own long after the
\* pilot moved on (seedRelaySpaceForHost, seedRelaySpaceFromHostConfig).
RunsThroughProven ==
    \A j \in DOMAIN job, r \in Role :
        side[j][r].print # Nothing =>
            /\ side[j][r].print \in job[j].issued
            /\ \E c \in passed : c.pair = job[j].pair /\ c.print = side[j][r].print

\* A pair never has two live jobs (POST /seed-jobs: activeSeedJobForPair).
OneSeedPerPair ==
    \A j, k \in DOMAIN job :
        job[j].live /\ job[k].live /\ job[j].pair = job[k].pair => j = k
=============================================================================
