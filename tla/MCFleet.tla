------------------------------- MODULE MCFleet -------------------------------
(***************************************************************************)
(* Small instances for TLC of three registries of the server that share no *)
(* state: the config of hosts, the identity of hosts, and the gate in      *)
(* front of a seed.  One of them, named by "part", runs in each behaviour, *)
(* so that their state spaces add up and do not multiply.                  *)
(***************************************************************************)
EXTENDS HostConfig

CONSTANTS
    Machine, Name, Phone, PhoneName, Code, Key, Master, None, Lifetime, CodeTime,
    PilotHost, Credential, Bucket, PilotWrites, MaxRotations, MaxProbes, MaxJobs, Nothing

VARIABLES
    part,      \* the registry that runs
    host, configured, trail, left, code, key, toml, clock,
    pilot, credential, probes, passed, job, config, side, spent

Identity == INSTANCE HostIdentity WITH MaxTime <- CodeTime, now <- clock

Pilot == INSTANCE SeedPilot WITH MaxWrites <- PilotWrites

\* None and Nothing are no values; the ids of phones are generated.
ASSUME IdentityAssumption ==
    /\ None \notin Name \cup PhoneName \cup Code
    /\ Name \cap Phone = {}
    /\ Lifetime \in Nat /\ CodeTime \in Nat

ASSUME PilotAssumption ==
    /\ Nothing \notin PilotHost \cup Bucket \cup Credential
    /\ Nothing \notin Pilot!Fingerprint \cup Pilot!Space
    /\ \A p \in PilotHost : \E q \in PilotHost : q # p
    /\ {PilotWrites, MaxRotations, MaxProbes, MaxJobs} \subseteq Nat

identityVars == <<host, configured, trail, left, code, key, toml, clock>>
pilotVars == <<pilot, credential, probes, passed, job, config, side, spent>>
fleetVars == <<part, vars, identityVars, pilotVars>>

\* Any of the keys may be the first one: one of them stands for all.
FleetInit ==
    /\ part \in {"config", "identity", "pilot"}
    /\ Init
    /\ Identity!Init
    /\ Pilot!Init /\ credential = CHOOSE c \in Credential : TRUE

ConfigStep == part = "config" /\ Next /\ UNCHANGED <<part, identityVars, pilotVars>>

IdentityStep == part = "identity" /\ Identity!Next /\ UNCHANGED <<part, vars, pilotVars>>

PilotStep == part = "pilot" /\ Pilot!Next /\ UNCHANGED <<part, vars, identityVars>>

FleetSpec == FleetInit /\ [][ConfigStep \/ IdentityStep \/ PilotStep]_fleetVars

-----------------------------------------------------------------------------
(* Correctness                                                             *)

\* One key per code, distinct names, no assignment of a host that is gone, and
\* nothing left behind by a new id (HostIdentity: claimSessionForExchange,
\* PATCH /hosts, DELETE /hosts, cascadeHostId).
IdentityHolds == part = "identity" => Identity!TypeOK /\ Identity!IdentitySafety

\* A seed runs only through a proven bucket, one per pair (SeedPilot:
\* recordSeedPilotReadiness, seedRelaySpaceForHost, activeSeedJobForPair).
SeedIsAuthorized ==
    part = "pilot" =>
        /\ Pilot!TypeOK
        /\ Pilot!ReadyIsProven /\ Pilot!RunsThroughProven /\ Pilot!OneSeedPerPair
=============================================================================
