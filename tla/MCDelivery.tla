------------------------------ MODULE MCDelivery ------------------------------
(***************************************************************************)
(* Small instances for TLC of the two ways in which the files of a device  *)
(* come to be stored: the upload of a shared file from a phone             *)
(* (MobileUpload) and the bisync runs of a daemon's folder (Bisync), which *)
(* must get back to a usable baseline after every failure.  One of them,   *)
(* named by "part", runs in each behaviour, so that their state spaces add *)
(* up and do not multiply.                                                 *)
(***************************************************************************)
EXTENDS MobileUpload

CONSTANTS Filter, NoFilter, Strategies, FileEdits, RunFaults, MaxRetries

ASSUME BaselineAssumption ==
    /\ Filter # {} /\ None \notin Filter \cup {"remote", "local"}
    /\ Strategies \subseteq {"manual", "newer_wins", "source_wins", "keep_both"}
    /\ FileEdits \in Nat \ {0} /\ RunFaults \in Nat /\ MaxRetries \in Nat

VARIABLES
    part,      \* the protocol that runs
    file, fileEdits, strategy, filter, dir, run, ask, plan, conf, runFaults

Sync == INSTANCE Bisync
    WITH MaxEdits <- FileEdits, MaxFaults <- RunFaults, edits <- fileEdits, faults <- runFaults

baselineVars == <<file, fileEdits, strategy, filter, dir, run, ask, plan, conf, runFaults>>
deliveryVars == <<part, vars, baselineVars>>

\* The protocol that does not run has one initial state.
DeliveryInit ==
    /\ part \in {"upload", "baseline"}
    /\ Init
    /\ part = "baseline" => auto /\ folder /\ due /\ obj = [n \in Name |-> "none"]
    /\ Sync!Init
    /\ part = "upload" => /\ filter = (CHOOSE f \in Filter : TRUE)
                          /\ strategy = (CHOOSE s \in Strategies : TRUE)

UploadStep == part = "upload" /\ Next /\ UNCHANGED <<part, baselineVars>>

BaselineStep == part = "baseline" /\ Sync!Next /\ UNCHANGED <<part, vars>>

\* The fairness of each, for the one that runs.
UploadFairness ==
    /\ WF_vars(part = "upload" /\ WorkerStep)
    /\ WF_vars(part = "upload" /\ \E r \in net : r.by # None /\ Handle(r))
    /\ \A n \in Name : WF_vars(part = "upload" /\ Handler(n))

BaselineFairness == WF_baselineVars(part = "baseline" /\ Sync!RunStep)

DeliverySpec ==
    /\ DeliveryInit /\ [][UploadStep \/ BaselineStep]_deliveryVars
    /\ UploadFairness
    /\ BaselineFairness

-----------------------------------------------------------------------------
(* Correctness                                                             *)

\* A folder without a usable pair of listings has one again: no failure leaves
\* it in a state from which every later run aborts (Bisync: executeAssignment).
BaselineReturns == (part = "baseline" /\ ~Sync!Ready) ~> Sync!Ready
=============================================================================
