----------------------------- MODULE FolderRuns -----------------------------
(* What the daemon promises of the runs of one watched folder, whoever     *)
(* triggers them: they never overlap, and a change is followed by a run    *)
(* that begins after it. Only the end of the watch excuses the daemon from *)
(* that run.                                                               *)
VARIABLES fresh,  \* a change was seen and no run has begun since
          busy    \* a run is under way

runVars == <<fresh, busy>>

Init == ~fresh /\ ~busy

Change == fresh' = TRUE /\ UNCHANGED busy

Begin == ~busy /\ busy' = TRUE /\ fresh' = FALSE

Finish == busy /\ busy' = FALSE /\ UNCHANGED fresh

\* The watcher is closed or replaced; the daemon stops.
Unwatch == fresh' = FALSE /\ UNCHANGED busy
Halt == fresh' = FALSE /\ busy' = FALSE

Next == Change \/ Begin \/ Finish \/ Unwatch \/ Halt

Spec == Init /\ [][Next]_runVars /\ WF_runVars(fresh /\ Begin) /\ WF_runVars(Finish)
=============================================================================
