----------------------------- MODULE MCCompanion -----------------------------
(***************************************************************************)
(* Small instances for TLC of the two long lived protocols of the Android  *)
(* companion: its automatic protection of camera media (AutoProtect) and   *)
(* its enrollment at a server (Enrollment).  They share no state: one of   *)
(* them, named by "part", runs in each behaviour, so that their state      *)
(* spaces add up and do not multiply.                                      *)
(***************************************************************************)
EXTENDS AutoProtect

CONSTANTS None, Enr, Session, EnrollmentFaults

VARIABLES
    part,      \* the protocol that runs
    enr, token, revoked, grants, sess, sockets,
    vault, binding, reg, cookie, marker, flow, check, faults

Enrolling == INSTANCE Enrollment WITH MaxFaults <- EnrollmentFaults

ASSUME EnrollmentAssumption == None \notin Enr \union Session

enrollmentVars == <<enr, token, revoked, grants, sess, sockets,
                    vault, binding, reg, cookie, marker, flow, check, faults>>
companionVars == <<part, vars, enrollmentVars>>

\* The protocol that does not run has one initial state.
CompanionInit ==
    /\ part \in {"protection", "enrollment"}
    /\ Init
    /\ Enrolling!Init
    /\ part = "enrollment" => born = 0 /\ mode = "new"

ProtectionStep == part = "protection" /\ Next /\ UNCHANGED <<part, enrollmentVars>>

EnrollmentStep == part = "enrollment" /\ Enrolling!Next /\ UNCHANGED <<part, vars>>

CompanionNext == ProtectionStep \/ EnrollmentStep

\* The fairness of the protection, when it runs; the enrollment needs none.
ProtectionFairness ==
    /\ WF_vars(part = "protection" /\ StartScan("periodic"))
    /\ \A l \in Lane : WF_vars(part = "protection" /\ (Scan(l) \/ Stage(l)))
    /\ \A m \in Media, v \in 1 .. MaxRevision :
         /\ WF_vars(part = "protection" /\ Publish(m, v))
         /\ SF_vars(part = "protection" /\ UploadDone(m, v))
    /\ WF_vars(part = "protection" /\ (ReconcileRead \/ ReconcileWrite))

CompanionSpec == CompanionInit /\ [][CompanionNext]_companionVars /\ ProtectionFairness

-----------------------------------------------------------------------------
(* Correctness                                                             *)

\* The types of the protection and of the enrollment, and one live grant
\* with the paired authority (Enrollment: resolveReconnectAuthority).
CompanionInvariant == TypeOK /\ Enrolling!TypeOK /\ Enrolling!OneLiveGrant

\* In history mode every visible row comes to be protected (AutoProtect:
\* discover and protectPending).
VisibleProtected == part = "protection" => HistoryProtected

\* No socket outlives its authority, nothing of a revoked device is live or
\* pending, and a cleanup spares a newer pairing (Enrollment: the sweeps of
\* ws.ts, revokeMobileRegistration, retryLocalCleanup).
PairingHolds ==
    /\ Enrolling!SocketsUnrevoked /\ Enrolling!RevokedForGood
    /\ Enrolling!CleanupSparesPairing
=============================================================================
