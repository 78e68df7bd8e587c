--------------------------- MODULE FolderTriggers ---------------------------
(* How one daemon decides to run one folder assignment: the config it      *)
(* fetches and caches, the scheduler's timer, the watch controller, and    *)
(* the keyed mutex that lines the runs up.                                 *)
(*                                                                         *)
(* The server keeps a history of configs; a revision is an index into it,  *)
(* and 0 stands for "no config". Three copies can differ: hostConfig (in   *)
(* memory), the cache on disk, and the config the scheduler and the        *)
(* watcher were last brought in line with.                                 *)
EXTENDS Integers, Sequences, FiniteSets, TLC

CONSTANTS Configs,     \* the configs an operator gives the assignment
          Refresher,   \* concurrent refreshes other than the heartbeat's
          Beat,        \* the heartbeat's revision check
          None,
          MaxDelay,    \* MAX_TIMER_DELAY_MS, in ticks
          MaxDue,      \* bound: farthest next occurrence of a cron, in ticks
          MaxRevisions, \* bound: configs of the assignment
          MaxChanges,  \* bound: local changes and pulled ones
          MaxQueue,    \* bound: runs waiting for the mutex
          MaxFaults    \* bound: failed fetches, failed saves, crashes

TimerKind == {"hop", "cron", "once", "retry"}

Controller == [sig : {c.watch : c \in Configs}, again : BOOLEAN,
               state : {"idle", "debouncing", "running"}]

ASSUME BoundsAssumption ==
    /\ {MaxDelay, MaxRevisions, MaxChanges, MaxQueue, MaxFaults} \subseteq Nat
    /\ MaxDue \in Nat \ {0} /\ MaxRevisions # 0
    /\ Beat \notin Refresher
    /\ \A c \in Configs : DOMAIN c = {"enabled", "kind", "watch", "pause"}
    /\ None \notin Controller \union [rev : Nat, wait : Nat, kind : TimerKind]

VARIABLES history,     \* the configs the server has given out
          hostConfig,  \* revision in memory
          cacheFile,   \* revision on disk
          applied,     \* revision the scheduler and the watcher follow
          lastSeen,    \* lastSeenRevision (0: null)
          fetch,       \* refreshConfig calls under way
          due,         \* ticks to the next occurrence of the cron
          timers,      \* live setTimeouts of the assignment
          slot,        \* the one the scheduler's map holds
          firedSpecial, \* its @reboot run was made
          ctl,         \* its WatchController, or None
          queue,       \* runs of the folder, in the order of the mutex
          going,       \* the first of them is under way
          fresh,       \* history: a watched change no run has begun after
          changes, faults

configVars == <<history, hostConfig, cacheFile, applied, lastSeen, fetch>>
schedVars == <<due, timers, slot, firedSpecial>>
runVars == <<queue, going, fresh>>
vars == <<configVars, schedVars, ctl, runVars, changes, faults>>

TimerId == 1..2
Call == Refresher \union {Beat}
IdleCall == [pc |-> "idle", rev |-> 0]

Conf(rev) == history[rev]
Latest == Len(history)

TypeOK ==
    /\ history \in Seq(Configs) /\ Latest \in 1..MaxRevisions
    /\ {hostConfig, cacheFile, applied, lastSeen} \subseteq 0..Latest
    /\ fetch \in [Call -> [pc : {"idle", "asked", "answered"}, rev : 0..Latest]]
    /\ due \in 0..MaxDue
    /\ timers \in [TimerId -> {None} \union
                    [rev : 1..Latest, wait : 0..MaxDue, kind : TimerKind]]
    /\ slot \in TimerId \union {0}
    /\ firedSpecial \in BOOLEAN
    /\ ctl \in {None} \union Controller
    /\ queue \in Seq([own : BOOLEAN])
    /\ Len(queue) <= MaxQueue
    /\ going \in BOOLEAN /\ (going => queue # <<>>)
    /\ fresh \in BOOLEAN
    /\ changes \in 0..MaxChanges /\ faults \in 0..MaxFaults

Fault == faults < MaxFaults /\ faults' = faults + 1
-----------------------------------------------------------------------------
(* The scheduler. A timer keeps the assignment it was armed for.           *)

\* setTimeout of the runtime: a delay beyond 32 bits fires at once.
SetTimeout(ms) == IF ms > MaxDelay THEN 0 ELSE ms

UnclampedDelay(ms) == [wait |-> ms, fire |-> TRUE]

planTimerDelay(ms) ==
    IF ms > MaxDelay THEN [wait |-> MaxDelay, fire |-> FALSE]
                     ELSE [wait |-> ms, fire |-> TRUE]

FreeTimer(ts) == CHOOSE i \in TimerId : ts[i] = None

\* timers.set(assignment.id, ...): the map forgets the timer it held before.
Arm(ts, t) ==
    IF \E i \in TimerId : ts[i] = None
      THEN /\ timers' = [ts EXCEPT ![FreeTimer(ts)] = t]
           /\ slot' = FreeTimer(ts)
      ELSE timers' = ts /\ UNCHANGED slot

\* schedule() of the assignment as it was at revision rev; done: its @reboot
\* run has been made. The next occurrence is d ticks away.
Schedule(ts, rev, done) ==
    LET c == Conf(rev)
        none == timers' = ts /\ slot' = 0 /\ UNCHANGED due
    IN  IF ~c.enabled THEN none
        ELSE IF c.kind = "cron"
          THEN \E d \in IF due = 0 THEN 1..MaxDue ELSE {due} :
                 LET hop == planTimerDelay(d)
                 IN  /\ due' = d
                     /\ Arm(ts, [rev |-> rev, wait |-> SetTimeout(hop.wait),
                                 kind |-> IF hop.fire THEN "cron" ELSE "hop"])
        ELSE IF done THEN none
        ELSE Arm(ts, [rev |-> rev, wait |-> 1, kind |-> "once"]) /\ UNCHANGED due

NoTimers == [i \in TimerId |-> None]
ForgetfulStop == timers
\* stop(): clears what the map holds.
Stopped == IF slot = 0 THEN timers ELSE [timers EXCEPT ![slot] = None]
-----------------------------------------------------------------------------
(* Watch controllers.                                                      *)

NewController(sig) == [sig |-> sig, state |-> "idle", again |-> FALSE]

RewatchedAlways(conf) ==
    IF conf.watch = "off" THEN None
    ELSE IF ctl # None /\ ctl.sig = conf.watch THEN ctl
    ELSE NewController(conf.watch)

\* reconcile(): a controller lives while its assignment is enabled, watched and
\* has the signature it was made for.
Rewatched(conf) ==
    IF ~conf.enabled \/ conf.watch = "off" THEN None
    ELSE IF ctl # None /\ ctl.sig = conf.watch THEN ctl
    ELSE NewController(conf.watch)

\* A closed controller ignores the end of the run it still has in the queue.
Disown(q) == [i \in DOMAIN q |-> [q[i] EXCEPT !.own = FALSE]]

Rewatch(conf) ==
    LET next == Rewatched(conf)
        kept == next # None /\ ctl # None /\ next.sig = ctl.sig
    IN  /\ ctl' = next
        /\ queue' = IF kept THEN queue ELSE Disown(queue)
        /\ fresh' = (fresh /\ kept)

MarkDirtyIdleOnly(c) == IF c.state = "running" THEN c ELSE [c EXCEPT !.state = "debouncing"]

markDirty(c) == IF c.state = "running" THEN [c EXCEPT !.again = TRUE]
                                       ELSE [c EXCEPT !.state = "debouncing"]

\* A filesystem event below the local path.
Event == IF ctl = None THEN UNCHANGED <<ctl, fresh>>
                       ELSE ctl' = markDirty(ctl) /\ fresh' = TRUE

LocalChange ==
    /\ changes < MaxChanges /\ changes' = changes + 1
    /\ Event
    /\ UNCHANGED <<configVars, schedVars, queue, going, faults>>

\* runOnce joins the chain of the folder; own: its controller awaits it.
Enqueue(own) == Len(queue) < MaxQueue /\ queue' = Append(queue, [own |-> own])

\* fire(): the quiet period is over.
WatchFire ==
    /\ ctl # None /\ ctl.state = "debouncing"
    /\ Enqueue(TRUE)
    /\ ctl' = [ctl EXCEPT !.state = "running", !.again = FALSE]
    /\ UNCHANGED <<configVars, schedVars, going, fresh, changes, faults>>
-----------------------------------------------------------------------------
(* The scheduler's timers.                                                 *)

Tick ==
    /\ \A i \in TimerId : timers[i] # None => timers[i].wait > 0
    /\ timers' = [i \in TimerId |-> IF timers[i] = None THEN None
                                    ELSE [timers[i] EXCEPT !.wait = @ - 1]]
    /\ due' \in IF due = 0 THEN 1..MaxDue ELSE {due - 1}
    /\ UNCHANGED <<configVars, slot, firedSpecial, ctl, runVars, changes, faults>>

\* currentPause(): the window of the cached pause may have passed.
MayBePaused == Conf(hostConfig).pause # "none"

\* A parked cron is evaluated again; a paused one-shot after its short retry.
TimerReevaluates(i) ==
    /\ timers[i] # None /\ timers[i].wait = 0 /\ timers[i].kind \in {"hop", "retry"}
    /\ Schedule([timers EXCEPT ![i] = None], timers[i].rev, firedSpecial)
    /\ UNCHANGED <<configVars, firedSpecial, ctl, runVars, changes, faults>>

TimerPaused(i) ==
    /\ timers[i] # None /\ timers[i].wait = 0 /\ timers[i].kind \in {"cron", "once"}
    /\ MayBePaused
    /\ IF timers[i].kind = "cron"
         THEN Schedule([timers EXCEPT ![i] = None], timers[i].rev, firedSpecial)
         ELSE /\ Arm([timers EXCEPT ![i] = None],
                     [timers[i] EXCEPT !.kind = "retry", !.wait = 1])
              /\ UNCHANGED due
    /\ UNCHANGED <<configVars, firedSpecial, ctl, runVars, changes, faults>>

\* onTick is not awaited, so the next occurrence is armed before anything else
\* of the daemon runs.
TimerFires(i) ==
    /\ timers[i] # None /\ timers[i].wait = 0 /\ timers[i].kind \in {"cron", "once"}
    /\ Enqueue(FALSE)
    /\ IF timers[i].kind = "cron"
         THEN /\ Schedule([timers EXCEPT ![i] = None], timers[i].rev, firedSpecial)
              /\ UNCHANGED firedSpecial
         ELSE /\ timers' = [timers EXCEPT ![i] = None] /\ slot' = 0
              /\ firedSpecial' = TRUE /\ UNCHANGED due
    /\ UNCHANGED <<configVars, ctl, going, fresh, changes, faults>>
-----------------------------------------------------------------------------
(* Runs: runOnce waits for the folder's mutex, then runs with the config   *)
(* it was called with.                                                     *)

ManualSync ==
    /\ hostConfig # 0 /\ Enqueue(FALSE)
    /\ UNCHANGED <<configVars, schedVars, ctl, going, fresh, changes, faults>>

MutexFree == ~going

RunStart ==
    /\ queue # <<>> /\ MutexFree
    /\ going' = TRUE /\ fresh' = FALSE
    /\ UNCHANGED <<configVars, schedVars, ctl, queue, changes, faults>>

\* The run writes what it pulls from the remote: its own writes are events too.
RunPulls ==
    /\ going /\ changes < MaxChanges /\ changes' = changes + 1
    /\ Event
    /\ UNCHANGED <<configVars, schedVars, queue, going, faults>>

\* The end of fire(): changes seen during the run are followed up once.
Settled(c) == IF c.again THEN [c EXCEPT !.state = "debouncing"]
                         ELSE [c EXCEPT !.state = "idle"]

\* The run succeeds, fails, or is refused by the pause gate: all the same here.
RunEnds ==
    /\ going
    /\ going' = FALSE /\ queue' = Tail(queue)
    /\ ctl' = IF Head(queue).own THEN Settled(ctl) ELSE ctl
    /\ UNCHANGED <<configVars, schedVars, fresh, changes, faults>>
-----------------------------------------------------------------------------
(* Config refreshes: the heartbeat's revision check, the five-minute timer *)
(* and the refresh_config action, which may overlap.                       *)

Edit(c) ==
    /\ Latest < MaxRevisions
    /\ history' = Append(history, c)
    /\ UNCHANGED <<hostConfig, cacheFile, applied, lastSeen, fetch, schedVars, ctl,
                   runVars, changes, faults>>

Ask(r) == fetch[r].pc = "idle" /\ fetch' = [fetch EXCEPT ![r] = [pc |-> "asked", rev |-> 0]]

HeartbeatChecks ==
    /\ lastSeen = 0 \/ Latest > lastSeen
    /\ Ask(Beat)
    /\ UNCHANGED <<history, hostConfig, cacheFile, applied, lastSeen, schedVars, ctl,
                   runVars, changes, faults>>

RefreshOnDrift(r) ==
    /\ lastSeen = 0 \/ Latest > lastSeen
    /\ Ask(r)
    /\ UNCHANGED <<history, hostConfig, cacheFile, applied, lastSeen, schedVars, ctl,
                   runVars, changes, faults>>

\* The timer does not await refreshConfig: it records the revision of the config
\* it is about to replace. The refresh_config action records after the refresh.
RefreshTimer(r) ==
    /\ Ask(r)
    /\ lastSeen' = IF hostConfig = 0 THEN lastSeen ELSE hostConfig
    /\ UNCHANGED <<history, hostConfig, cacheFile, applied, schedVars, ctl, runVars,
                   changes, faults>>

\* getConfig is answered.
Answer(r) ==
    /\ fetch[r].pc = "asked"
    /\ fetch' = [fetch EXCEPT ![r] = [pc |-> "answered", rev |-> Latest]]
    /\ UNCHANGED <<history, hostConfig, cacheFile, applied, lastSeen, schedVars, ctl,
                   runVars, changes, faults>>

\* recordRevision(hostConfig) after an awaited refresh.
Recorded(r, rev) == lastSeen' = IF r = Beat /\ rev # 0 THEN rev ELSE lastSeen

\* The answer is cached in memory and on disk; scheduler and watcher follow.
Apply(r) ==
    /\ fetch[r].pc = "answered"
    /\ fetch' = [fetch EXCEPT ![r] = IdleCall]
    /\ hostConfig' = fetch[r].rev
    /\ cacheFile' = fetch[r].rev
    /\ applied' = fetch[r].rev
    /\ Recorded(r, fetch[r].rev)
    /\ Schedule(Stopped, fetch[r].rev, firedSpecial)
    /\ Rewatch(Conf(fetch[r].rev))
    /\ UNCHANGED <<history, firedSpecial, going, changes, faults>>

\* saveCache throws: memory has the new config, scheduler and watcher the old.
ApplyUnsaved(r) ==
    /\ fetch[r].pc = "answered" /\ Fault
    /\ fetch' = [fetch EXCEPT ![r] = IdleCall]
    /\ hostConfig' = fetch[r].rev
    /\ Recorded(r, fetch[r].rev)
    /\ UNCHANGED <<history, cacheFile, applied, schedVars, ctl, runVars, changes>>

RefreshFails(r) ==
    /\ fetch[r].pc # "idle" /\ Fault
    /\ fetch' = [fetch EXCEPT ![r] = IdleCall]
    /\ Recorded(r, hostConfig)
    /\ UNCHANGED <<history, hostConfig, cacheFile, applied, schedVars, ctl, runVars, changes>>

\* The daemon dies and boots: from its cache, or by asking for a config.
Restart ==
    /\ Fault
    /\ hostConfig' = cacheFile /\ applied' = cacheFile /\ lastSeen' = cacheFile
    /\ firedSpecial' = FALSE
    /\ queue' = <<>> /\ going' = FALSE /\ fresh' = FALSE
    /\ IF cacheFile = 0
         THEN /\ fetch' = [r \in Call |-> IF r = Beat THEN [pc |-> "asked", rev |-> 0]
                                                      ELSE IdleCall]
              /\ timers' = NoTimers /\ slot' = 0 /\ ctl' = None /\ UNCHANGED due
         ELSE /\ fetch' = [r \in Call |-> IdleCall]
              /\ Schedule(NoTimers, cacheFile, FALSE)
              /\ ctl' = IF Rewatched(Conf(cacheFile)) = None THEN None
                        ELSE NewController(Conf(cacheFile).watch)
    /\ UNCHANGED <<history, cacheFile, changes>>
-----------------------------------------------------------------------------
Init ==
    /\ history \in {<<c>> : c \in Configs}
    /\ hostConfig = 0 /\ cacheFile = 0 /\ applied = 0 /\ lastSeen = 0
    /\ fetch = [r \in Call |-> IF r = Beat THEN [pc |-> "asked", rev |-> 0] ELSE IdleCall]
    /\ due = 0 /\ timers = NoTimers /\ slot = 0 /\ firedSpecial = FALSE
    /\ ctl = None
    /\ queue = <<>> /\ going = FALSE /\ fresh = FALSE
    /\ changes = 0 /\ faults = 0

TimerSteps(i) == TimerReevaluates(i) \/ TimerPaused(i) \/ TimerFires(i)

Next ==
    \/ \E c \in Configs : Edit(c)
    \/ LocalChange \/ WatchFire
    \/ Tick \/ \E i \in TimerId : TimerSteps(i)
    \/ ManualSync \/ RunStart \/ RunPulls \/ RunEnds
    \/ HeartbeatChecks \/ \E r \in Refresher : RefreshTimer(r)
    \/ \E r \in Call : Answer(r) \/ Apply(r) \/ ApplyUnsaved(r) \/ RefreshFails(r)
    \/ Restart

Spec == Init /\ [][Next]_vars

\* The timers of the daemon keep firing and the server answers; a run ends, by
\* rclone's own timeout if need be.
Fairness ==
    /\ WF_vars(WatchFire) /\ WF_vars(RunStart) /\ WF_vars(RunEnds)
    /\ WF_vars(HeartbeatChecks)
    /\ \A r \in Refresher : WF_vars(RefreshTimer(r))
    /\ \A r \in Call : WF_vars(Answer(r)) /\ WF_vars(Apply(r))

FairSpec == Spec /\ Fairness
-----------------------------------------------------------------------------
(* Properties.                                                             *)

\* "stop cancels everything without firing": every live timer of the assignment
\* is the one the scheduler's map holds and can clear, however refreshes, pauses
\* and fires interleave, so the assignment has one schedule.
LiveTimersTracked == \A i \in TimerId : timers[i] # None => slot = i

\* The state invariant: types, and the timers that live.
Inv == TypeOK /\ LiveTimersTracked

\* "An assignment's enabled switch is authoritative": no timer and no watcher of
\* an older config starts a run once a config that disables it is applied.
TriggersFollowConfig ==
    [][WatchFire \/ (\E i \in TimerId : TimerFires(i)) => Conf(applied).enabled]_vars

\* "firing it early would be far worse than waiting another hop": a cron run
\* starts when its occurrence is due, also when that is beyond one timer's reach.
NeverEarly ==
    [][\A i \in TimerId : TimerFires(i) /\ timers[i].kind = "cron" => due = 0]_vars

\* The daemon ends up with the server's config in memory, on disk and in force:
\* stale answers that overtake newer ones and failed saves are made good.
ConfigCaughtUp == <>[](hostConfig = Latest /\ cacheFile = Latest /\ applied = Latest)

\* The controller, the scheduler and the mutex together implement FolderRuns:
\* runs of a folder do not overlap, and a change the watcher saw, before or
\* during a run, is followed by a run that begins after it.
Promise == INSTANCE FolderRuns WITH busy <- going
PromiseKept == Promise!Spec
=============================================================================
