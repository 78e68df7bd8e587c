---------------------------- MODULE LiveProgress ----------------------------
(***************************************************************************)
(* Live progress of the runs of a daemon: the throttled, coalescing        *)
(* reporter of each run (daemon/src/live-progress.ts) and the server's     *)
(* registry in memory (server/src/live-progress.ts).                       *)
(*                                                                         *)
(* The states of a run are numbered in the order they are observed; the    *)
(* last number is the terminal state.  A send is in flight until its       *)
(* answer, and sends that are in flight together end in any order.         *)
(***************************************************************************)
EXTENDS Naturals, FiniteSets, FiniteSetsExt

CONSTANTS
    Runs,         \* number of runs; run 1 started first
    MaxReports,   \* bound: states observed in a run before its end
    MaxEntries,   \* SYNC_PROGRESS_MAX_ENTRIES
    MaxFaults     \* bound: failed sends, crashes and restarts

Run == 1 .. Runs
Final == MaxReports + 1
State == 1 .. Final

VARIABLES
    latest,    \* run: newest state observed, Final once finish was called
    dirty,     \* run: the newest state is in no send yet
    sending,   \* run: the reporter's variable "sending" is not null
    timer,     \* run: the trailing flush is scheduled
    flight,    \* run: how many sends of each state are in flight
    answered,  \* run: some send succeeded (lastSentAt is not 0)
    handed,    \* history: newest state given to a send
    gone,      \* runs whose daemon crashed
    registry,  \* server: state of a run on display, 0 for none
    faults     \* faults so far

vars == <<latest, dirty, sending, timer, flight, answered, handed, gone, registry, faults>>

reporter == <<latest, dirty, sending, timer, flight, answered, handed>>

TypeOK ==
    /\ latest \in [Run -> 0 .. Final]
    /\ dirty \in [Run -> BOOLEAN]
    /\ sending \in [Run -> BOOLEAN]
    /\ timer \in [Run -> BOOLEAN]
    /\ flight \in [Run -> [State -> 0 .. Final]]
    /\ answered \in [Run -> BOOLEAN]
    /\ handed \in [Run -> 0 .. Final]
    /\ gone \subseteq Run
    /\ registry \in [Run -> 0 .. MaxReports]

Init ==
    /\ latest = [r \in Run |-> 0]
    /\ dirty = [r \in Run |-> FALSE]
    /\ sending = [r \in Run |-> FALSE]
    /\ timer = [r \in Run |-> FALSE]
    /\ flight = [r \in Run |-> [s \in State |-> 0]]
    /\ answered = [r \in Run |-> FALSE]
    /\ handed = [r \in Run |-> 0]
    /\ gone = {}
    /\ registry = [r \in Run |-> 0]
    /\ faults = 0

Fault == faults < MaxFaults /\ faults' = faults + 1

-----------------------------------------------------------------------------
(* The reporter                                                            *)

\* send: the state s goes out of a reporter whose sends in flight are f.
Send(r, s, f) ==
    /\ flight' = [flight EXCEPT ![r] = [f EXCEPT ![s] = @ + 1]]
    /\ handed' = [handed EXCEPT ![r] = s]
    /\ dirty' = [dirty EXCEPT ![r] = FALSE]
    /\ timer' = [timer EXCEPT ![r] = FALSE]

\* send, kept in "sending".
TrackedSend(r, s) ==
    /\ Send(r, s, flight[r])
    /\ sending' = [sending EXCEPT ![r] = TRUE]

\* Not now: the end of the send in flight, or the timer, will see to it.
Defer(r, scheduled) ==
    /\ dirty' = [dirty EXCEPT ![r] = TRUE]
    /\ timer' = [timer EXCEPT ![r] = scheduled]
    /\ UNCHANGED <<sending, flight, handed>>

\* report: a new state; the interval since the last success may be over.
Report(r) ==
    /\ r \notin gone
    /\ latest[r] < MaxReports
    /\ latest' = [latest EXCEPT ![r] = @ + 1]
    /\ \/ sending[r] /\ Defer(r, timer[r])
       \/ ~sending[r] /\ TrackedSend(r, latest'[r])
       \/ ~sending[r] /\ answered[r] /\ Defer(r, TRUE)
    /\ UNCHANGED <<answered, gone, registry, faults>>

\* finish: the timer is dropped and throttling ends.
Finish(r) ==
    /\ r \notin gone
    /\ latest[r] # Final
    /\ latest' = [latest EXCEPT ![r] = Final]
    /\ IF sending[r] THEN Defer(r, FALSE) ELSE TrackedSend(r, Final)
    /\ UNCHANGED <<answered, gone, registry, faults>>

\* The timer of scheduleFlush.
TimerFires(r) ==
    /\ timer[r]
    /\ IF dirty[r] /\ ~sending[r]
       THEN TrackedSend(r, latest[r])
       ELSE timer' = [timer EXCEPT ![r] = FALSE] /\ UNCHANGED <<dirty, sending, flight, handed>>
    /\ UNCHANGED <<latest, answered, gone, registry, faults>>

\* Mutant of Finally: what was reported during the send is left.
FinallyForgets(r, f) ==
    /\ sending' = [sending EXCEPT ![r] = FALSE]
    /\ flight' = [flight EXCEPT ![r] = f]
    /\ UNCHANGED <<dirty, timer, handed>>

\* The end of send: the follow-up is not kept in "sending".
Finally(r, f) ==
    /\ sending' = [sending EXCEPT ![r] = FALSE]
    /\ IF dirty[r]
       THEN Send(r, latest[r], f)
       ELSE flight' = [flight EXCEPT ![r] = f] /\ UNCHANGED <<dirty, timer, handed>>

-----------------------------------------------------------------------------
(* The registry                                                            *)

\* Mutant of Capped: the limit is off by one.
CappedLate(g) ==
    LET shown == {r \in Run : g[r] # 0}
    IN  IF Cardinality(shown) > MaxEntries + 1 THEN [g EXCEPT ![Min(shown)] = 0] ELSE g

\* enforceCap: the run that started first makes room.
Capped(g) ==
    LET shown == {r \in Run : g[r] # 0}
    IN  IF Cardinality(shown) > MaxEntries THEN [g EXCEPT ![Min(shown)] = 0] ELSE g

\* upsertLiveProgress: a terminal state leaves no entry.
Upserted(r, s) ==
    IF s = Final THEN [registry EXCEPT ![r] = 0] ELSE Capped([registry EXCEPT ![r] = s])

\* A send reached the server and is answered.
SendDone(r, s) ==
    /\ flight[r][s] > 0
    /\ registry' = Upserted(r, s)
    /\ answered' = [answered EXCEPT ![r] = TRUE]
    /\ Finally(r, [flight[r] EXCEPT ![s] = @ - 1])
    /\ UNCHANGED <<latest, gone, faults>>

\* It failed, before or after the server applied it: dropped.
SendFails(r, s) ==
    /\ Fault
    /\ flight[r][s] > 0
    /\ registry' \in {registry, Upserted(r, s)}
    /\ Finally(r, [flight[r] EXCEPT ![s] = @ - 1])
    /\ UNCHANGED <<latest, answered, gone>>

\* The daemon crashes during the run.
Crash(r) ==
    /\ Fault
    /\ r \notin gone /\ latest[r] \notin {0, Final}
    /\ gone' = gone \cup {r}
    /\ dirty' = [dirty EXCEPT ![r] = FALSE]
    /\ sending' = [sending EXCEPT ![r] = FALSE]
    /\ timer' = [timer EXCEPT ![r] = FALSE]
    /\ flight' = [flight EXCEPT ![r] = [s \in State |-> 0]]
    /\ UNCHANGED <<latest, answered, handed, registry>>

\* Mutant of Sweepable: only entries of daemons that still report.
SweepableAlive(r) == registry[r] # 0 /\ r \notin gone /\ latest[r] # Final

\* An entry that may have had no update for SYNC_PROGRESS_TTL_MS.
Sweepable(r) == registry[r] # 0

\* sweepExpired, on any later read or write.
Sweep(r) ==
    /\ Sweepable(r)
    /\ registry' = [registry EXCEPT ![r] = 0]
    /\ UNCHANGED <<reporter, gone, faults>>

\* The registry is in memory.
ServerRestarts ==
    /\ Fault
    /\ registry' = [r \in Run |-> 0]
    /\ UNCHANGED <<reporter, gone>>

SendEnds(r) == \E s \in State : SendDone(r, s) \/ SendFails(r, s)

Next ==
    \/ \E r \in Run : Report(r) \/ Finish(r) \/ TimerFires(r) \/ SendEnds(r) \/ Crash(r) \/ Sweep(r)
    \/ ServerRestarts

Spec == Init /\ [][Next]_vars

\* Timers fire, requests end, and somebody reads or writes the registry.
Fairness ==
    /\ \A r \in Run :
        /\ WF_vars(TimerFires(r))
        /\ WF_vars(SendEnds(r))
        /\ WF_vars(Sweep(r))

FairSpec == Spec /\ Fairness

-----------------------------------------------------------------------------
(* Correctness                                                             *)

\* "capped at MAX_ENTRIES" (registry in server/src/live-progress.ts): sends
\* of runs that come and go in any order never leave more on display.
RegistryBounded == Cardinality({r \in Run : registry[r] # 0}) <= MaxEntries

\* "a trailing timer flushes a dirty state even when signals go quiet": the
\* sends catch up with what was observed again and again, so the last state
\* and the terminal one go out, unless the daemon crashes
\* (createSyncProgressReporter).
ObservedIsSent ==
    \A r \in Run : []<>(handed[r] = latest[r] \/ r \in gone)

\* A run that ended, or whose daemon crashed, is not on display for ever,
\* although a late send may put it back after its terminal state (sweepExpired).
EndedIsCleared ==
    \A r \in Run : <>[]((latest[r] = Final \/ r \in gone) => registry[r] = 0)
=============================================================================
