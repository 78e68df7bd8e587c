-------------------------- MODULE MCDestinationLock --------------------------
(* Small instances of DestinationLock for TLC.                             *)
EXTENDS DestinationLock, TLC

\* Two hosts, each with one assignment of a shared folder: one destination.
SharedHostOf == [a \in Assignment |-> a[1]]
SharedAssignment == Host \X {"f"}
SwitchedByFirst == {<<"h1", "f">>}
SharedKey == [a \in Assignment |-> "k1"]
=============================================================================
