------------------------- MODULE FolderTriggersProofs -------------------------
(***************************************************************************)
(* The scheduler and the watcher of one assignment, for every set of       *)
(* configs, every number of refreshes under way and every timer limit.     *)
(* The properties are about the step in which a run is triggered; what is  *)
(* inductive is the state a trigger waits in: the one live timer is the    *)
(* one the map holds, it belongs to the config in force, which enables it, *)
(* and it counts down together with the cron.                              *)
(***************************************************************************)
EXTENDS FolderTriggers, TLAPS

\* An answer has a config.
Answered == \A r \in Call : fetch[r].pc = "answered" => fetch[r].rev # 0

\* A live timer is of the config in force, and a cron is on time.
TimersFollow ==
    \A i \in TimerId :
        timers[i] # None => /\ applied # 0
                            /\ timers[i].rev = applied
                            /\ Conf(applied).enabled
                            /\ timers[i].kind = "cron" => timers[i].wait = due

WatchFollows == ctl # None => applied # 0 /\ Conf(applied).enabled

\* A run whose end a controller awaits has a controller.
OwnedRuns == \A i \in 1..Len(queue) : queue[i].own => ctl # None

TriggerInv == Inv /\ Answered /\ TimersFollow /\ WatchFollows /\ OwnedRuns

\* The invariant by component: the copies of the config, the scheduler, the
\* watcher with its runs, the counters.
Timer == [rev : 1..Latest, wait : 0..MaxDue, kind : TimerKind]

BookOK ==
    /\ history \in Seq(Configs) /\ Latest \in 1..MaxRevisions
    /\ {hostConfig, cacheFile, applied, lastSeen} \subseteq 0..Latest
    /\ fetch \in [Call -> [pc : {"idle", "asked", "answered"}, rev : 0..Latest]]
    /\ Answered

ClockOK ==
    /\ due \in 0..MaxDue
    /\ timers \in [TimerId -> {None} \union Timer]
    /\ slot \in TimerId \union {0}
    /\ LiveTimersTracked
    /\ TimersFollow

RunsOK ==
    /\ ctl \in {None} \union Controller
    /\ queue \in Seq([own : BOOLEAN])
    /\ Len(queue) <= MaxQueue
    /\ going \in BOOLEAN /\ (going => queue # <<>>)
    /\ fresh \in BOOLEAN
    /\ WatchFollows
    /\ OwnedRuns

CountsOK ==
    /\ firedSpecial \in BOOLEAN
    /\ changes \in 0..MaxChanges /\ faults \in 0..MaxFaults

LEMMA Parts == TriggerInv <=> BookOK /\ ClockOK /\ RunsOK /\ CountsOK
  BY DEF TriggerInv, Inv, TypeOK, BookOK, ClockOK, RunsOK, CountsOK, Timer

LEMMA PartsPrimed == TriggerInv' <=> BookOK' /\ ClockOK' /\ RunsOK' /\ CountsOK'
  BY DEF TriggerInv, Inv, TypeOK, BookOK, ClockOK, RunsOK, CountsOK, Timer

-----------------------------------------------------------------------------
(* The scheduler                                                           *)

LEMMA NoneIsNoTimer ==
    ASSUME BookOK
    PROVE  None \notin Timer
<1>1. Latest \in Nat
  BY BoundsAssumption DEF BookOK
<1>2. Timer \subseteq [rev : Nat, wait : Nat, kind : TimerKind]
  BY <1>1, BoundsAssumption DEF Timer
<1> QED
  BY <1>2, BoundsAssumption

\* A timer one tick later, and the one-shot that a pause puts off.
LEMMA Counted ==
    ASSUME NEW t \in Timer, t.wait > 0
    PROVE  /\ [t EXCEPT !.wait = t.wait - 1] \in Timer
           /\ [t EXCEPT !.wait = t.wait - 1].rev = t.rev
           /\ [t EXCEPT !.wait = t.wait - 1].kind = t.kind
           /\ [t EXCEPT !.wait = t.wait - 1].wait = t.wait - 1
  BY BoundsAssumption DEF Timer

LEMMA PutOff ==
    ASSUME NEW t \in Timer
    PROVE  /\ [t EXCEPT !.kind = "retry", !.wait = 1] \in Timer
           /\ [t EXCEPT !.kind = "retry", !.wait = 1].rev = t.rev
           /\ [t EXCEPT !.kind = "retry", !.wait = 1].kind = "retry"
<1>1. "retry" \in TimerKind /\ 1 \in 0..MaxDue
  BY BoundsAssumption DEF TimerKind
<1>2. [t EXCEPT !.kind = "retry", !.wait = 1] \in Timer
  BY <1>1 DEF Timer
<1>3. [t EXCEPT !.kind = "retry", !.wait = 1].rev = t.rev
  BY DEF Timer
<1>4. [t EXCEPT !.kind = "retry", !.wait = 1].kind = "retry"
  BY DEF Timer
<1> QED
  BY <1>2, <1>3, <1>4

\* Nothing armed, or exactly one timer, in the slot of the map.
LEMMA ArmOne ==
    ASSUME BookOK, NEW t \in Timer, Arm(NoTimers, t)
    PROVE  /\ timers' \in [TimerId -> {None} \union Timer]
           /\ slot' \in TimerId
           /\ \A i \in TimerId : timers'[i] # None => slot' = i /\ timers'[i] = t
<1>1. FreeTimer(NoTimers) \in TimerId
  BY DEF FreeTimer, NoTimers, TimerId
<1> HIDE DEF FreeTimer
<1>2. \E i \in TimerId : NoTimers[i] = None
  BY DEF NoTimers, TimerId
<1>3. timers' = [NoTimers EXCEPT ![FreeTimer(NoTimers)] = t] /\ slot' = FreeTimer(NoTimers)
  BY <1>2 DEF Arm
<1> QED
  BY <1>1, <1>3 DEF NoTimers

\* What schedule() arms when nothing is armed.
LEMMA ScheduleOne ==
    ASSUME BookOK, due \in 0..MaxDue, NEW rev \in 1..Latest, NEW done,
           Schedule(NoTimers, rev, done)
    PROVE  /\ due' \in 0..MaxDue
           /\ timers' \in [TimerId -> {None} \union Timer]
           /\ slot' \in TimerId \union {0}
           /\ \A i \in TimerId :
                 timers'[i] # None =>
                    /\ slot' = i
                    /\ timers'[i].rev = rev
                    /\ Conf(rev).enabled
                    /\ timers'[i].kind = "cron" => timers'[i].wait = due'
<1>n. NoTimers \in [TimerId -> {None} \union Timer] /\ \A i \in TimerId : NoTimers[i] = None
  BY DEF NoTimers
<1>1. CASE timers' = NoTimers /\ slot' = 0 /\ due' = due
  BY <1>1, <1>n
<1>2. CASE /\ Conf(rev).enabled
           /\ \E d \in IF due = 0 THEN 1..MaxDue ELSE {due} :
                LET hop == planTimerDelay(d)
                IN  /\ due' = d
                    /\ Arm(NoTimers, [rev |-> rev, wait |-> SetTimeout(hop.wait),
                                      kind |-> IF hop.fire THEN "cron" ELSE "hop"])
  <2>1. PICK d \in 1..MaxDue :
          /\ due' = d
          /\ Arm(NoTimers, [rev |-> rev, wait |-> SetTimeout(planTimerDelay(d).wait),
                            kind |-> IF planTimerDelay(d).fire THEN "cron" ELSE "hop"])
    BY <1>2, BoundsAssumption
  <2> DEFINE t == [rev |-> rev, wait |-> SetTimeout(planTimerDelay(d).wait),
                   kind |-> IF planTimerDelay(d).fire THEN "cron" ELSE "hop"]
  <2>2. /\ SetTimeout(planTimerDelay(d).wait) \in 0..MaxDue
        /\ planTimerDelay(d).fire => SetTimeout(planTimerDelay(d).wait) = d
    BY BoundsAssumption DEF SetTimeout, planTimerDelay
  <2>3. /\ t \in Timer /\ t.rev = rev
        /\ t.kind = "cron" => t.wait = d
    BY <2>2 DEF Timer, TimerKind
  <2>4. Arm(NoTimers, t)
    BY <2>1
  <2> HIDE DEF t
  <2>5. /\ timers' \in [TimerId -> {None} \union Timer]
        /\ slot' \in TimerId
        /\ \A i \in TimerId : timers'[i] # None => slot' = i /\ timers'[i] = t
    BY <2>3, <2>4, ArmOne
  <2> QED
    BY <1>2, <2>1, <2>3, <2>5, BoundsAssumption
<1>3. CASE /\ Conf(rev).enabled
           /\ Arm(NoTimers, [rev |-> rev, wait |-> 1, kind |-> "once"])
           /\ due' = due
  <2> DEFINE t == [rev |-> rev, wait |-> 1, kind |-> "once"]
  <2>1. t \in Timer /\ t.rev = rev /\ t.kind # "cron"
    BY BoundsAssumption DEF Timer, TimerKind
  <2>2. Arm(NoTimers, t)
    BY <1>3
  <2> HIDE DEF t
  <2>3. /\ timers' \in [TimerId -> {None} \union Timer]
        /\ slot' \in TimerId
        /\ \A i \in TimerId : timers'[i] # None => slot' = i /\ timers'[i] = t
    BY <2>1, <2>2, ArmOne
  <2> QED
    BY <1>3, <2>1, <2>3
<1> QED
  BY <1>1, <1>2, <1>3 DEF Schedule

\* Without the timer that has fired, and without the one stop() clears,
\* nothing is left.
LEMMA NothingLeft ==
    ASSUME ClockOK
    PROVE  /\ \A i \in TimerId : timers[i] # None => [timers EXCEPT ![i] = None] = NoTimers
           /\ Stopped = NoTimers
<1>1. \A i \in TimerId : timers[i] # None => [timers EXCEPT ![i] = None] = NoTimers
  BY DEF ClockOK, LiveTimersTracked, NoTimers
<1>2. CASE slot = 0
  <2>1. \A i \in TimerId : timers[i] = None
    BY <1>2 DEF ClockOK, LiveTimersTracked, TimerId
  <2>2. timers = NoTimers
    BY <2>1 DEF ClockOK, NoTimers
  <2> QED
    BY <1>1, <1>2, <2>2 DEF Stopped
<1>3. CASE slot \in TimerId
  <2>1. [timers EXCEPT ![slot] = None] = NoTimers
    BY <1>3 DEF ClockOK, LiveTimersTracked, NoTimers
  <2> QED
    BY <1>1, <1>3, <2>1 DEF Stopped, TimerId
<1> QED
  BY <1>2, <1>3 DEF ClockOK

\* A new schedule for the config that comes into force.
LEMMA ClockSet ==
    ASSUME BookOK, due \in 0..MaxDue, NEW rev \in 1..Latest, NEW done,
           Schedule(NoTimers, rev, done), history' = history, applied' = rev
    PROVE  ClockOK'
<1>1. /\ due' \in 0..MaxDue
      /\ timers' \in [TimerId -> {None} \union Timer]
      /\ slot' \in TimerId \union {0}
      /\ \A i \in TimerId :
            timers'[i] # None =>
               /\ slot' = i
               /\ timers'[i].rev = rev
               /\ Conf(rev).enabled
               /\ timers'[i].kind = "cron" => timers'[i].wait = due'
  BY ScheduleOne
<1>2. Timer' = Timer /\ Conf(applied)' = Conf(rev) /\ rev # 0
  BY DEF Timer, Latest, Conf
<1> QED
  BY <1>1, <1>2 DEF ClockOK, LiveTimersTracked, TimersFollow

\* The scheduler is left alone, and so is the config it follows.
LEMMA ClockKept ==
    ASSUME BookOK, ClockOK, UNCHANGED schedVars, applied' = applied, history' = history
    PROVE  ClockOK'
  BY DEF ClockOK, schedVars, LiveTimersTracked, TimersFollow, Timer, Latest, Conf

LEMMA TimerSteps_Clock ==
    ASSUME BookOK, ClockOK, CountsOK, NEW i \in TimerId, TimerSteps(i)
    PROVE  ClockOK' /\ firedSpecial' \in BOOLEAN
<1>1. timers[i] # None /\ history' = history /\ applied' = applied
  BY DEF TimerSteps, TimerReevaluates, TimerPaused, TimerFires, configVars
<1>2. timers[i] \in Timer /\ applied = timers[i].rev /\ applied \in 1..Latest
      /\ Conf(applied).enabled
  BY <1>1, BoundsAssumption DEF ClockOK, TimersFollow, BookOK, Timer
<1>3. [timers EXCEPT ![i] = None] = NoTimers
  BY <1>1, NothingLeft
<1>4. CASE Schedule(NoTimers, timers[i].rev, firedSpecial) /\ firedSpecial' = firedSpecial
  BY <1>1, <1>2, <1>4, ClockSet DEF ClockOK, CountsOK
<1>5. CASE /\ Arm(NoTimers, [timers[i] EXCEPT !.kind = "retry", !.wait = 1])
           /\ due' = due /\ firedSpecial' = firedSpecial
  <2> DEFINE t == [timers[i] EXCEPT !.kind = "retry", !.wait = 1]
  <2>1. t \in Timer /\ t.rev = applied /\ t.kind # "cron"
    BY <1>2, PutOff
  <2>2. Arm(NoTimers, t)
    BY <1>5
  <2> HIDE DEF t
  <2>3. /\ timers' \in [TimerId -> {None} \union Timer]
        /\ slot' \in TimerId
        /\ \A j \in TimerId : timers'[j] # None => slot' = j /\ timers'[j] = t
    BY <2>1, <2>2, ArmOne
  <2>4. Timer' = Timer /\ Conf(applied)' = Conf(applied)
    BY <1>1 DEF Timer, Latest, Conf
  <2> QED
    BY <1>1, <1>2, <1>5, <2>1, <2>3, <2>4
       DEF ClockOK, LiveTimersTracked, TimersFollow, CountsOK
<1>6. CASE timers' = NoTimers /\ slot' = 0 /\ due' = due /\ firedSpecial' = TRUE
  BY <1>6 DEF ClockOK, LiveTimersTracked, TimersFollow, NoTimers
<1> QED
  BY <1>3, <1>4, <1>5, <1>6 DEF TimerSteps, TimerReevaluates, TimerPaused, TimerFires

LEMMA Tick_Clock ==
    ASSUME BookOK, ClockOK, Tick
    PROVE  ClockOK'
<1>1. /\ \A i \in TimerId : timers[i] # None => timers[i].wait > 0
      /\ timers' = [i \in TimerId |-> IF timers[i] = None THEN None
                                      ELSE [timers[i] EXCEPT !.wait = @ - 1]]
      /\ due' \in IF due = 0 THEN 1..MaxDue ELSE {due - 1}
      /\ UNCHANGED <<history, applied, slot>>
  BY DEF Tick, configVars
<1>2. Timer' = Timer /\ Conf(applied)' = Conf(applied)
  BY <1>1 DEF Timer, Latest, Conf
<1>3. due' \in 0..MaxDue /\ (due # 0 => due' = due - 1)
  BY <1>1, BoundsAssumption DEF ClockOK
<1>4. ASSUME NEW i \in TimerId, timers[i] # None
      PROVE  LET t == [timers[i] EXCEPT !.wait = @ - 1] IN
             /\ t \in Timer /\ t.rev = timers[i].rev
             /\ t.kind = timers[i].kind /\ t.wait = timers[i].wait - 1
  <2>1. timers[i] \in Timer /\ timers[i].wait > 0
    BY <1>1, <1>4 DEF ClockOK
  <2> QED
    BY <2>1, Counted
<1>5. /\ timers' \in [TimerId -> {None} \union Timer]
      /\ \A i \in TimerId : timers'[i] # None => timers[i] # None
  BY <1>1, <1>4
<1>6. ASSUME NEW i \in TimerId, timers'[i] # None
      PROVE  /\ applied # 0 /\ timers'[i].rev = applied
             /\ Conf(applied).enabled
             /\ timers'[i].kind = "cron" => timers'[i].wait = due'
  <2>1. timers[i] # None /\ timers'[i] = [timers[i] EXCEPT !.wait = @ - 1]
    BY <1>1, <1>5, <1>6
  <2>2. timers[i].wait > 0 /\ timers[i].wait \in Nat
    BY <1>1, <2>1 DEF ClockOK, Timer
  <2> QED
    BY <1>3, <1>4, <2>1, <2>2 DEF ClockOK, TimersFollow
<1> QED
  BY <1>1, <1>2, <1>3, <1>5, <1>6 DEF ClockOK, LiveTimersTracked, TimersFollow

-----------------------------------------------------------------------------
(* The watcher and the runs                                                *)

\* A run joins the queue.
LEMMA Joined ==
    ASSUME RunsOK, NEW own \in BOOLEAN, Enqueue(own)
    PROVE  /\ queue' \in Seq([own : BOOLEAN])
           /\ Len(queue') = Len(queue) + 1 /\ Len(queue') <= MaxQueue
           /\ queue' # <<>>
           /\ \A i \in 1..Len(queue) : queue'[i] = queue[i]
           /\ queue'[Len(queue) + 1].own = own
<1> DEFINE e == [own |-> own]
<1>1. e \in [own : BOOLEAN] /\ e.own = own
  OBVIOUS
<1>2. Len(queue) < MaxQueue /\ queue' = Append(queue, e)
  BY DEF Enqueue
<1> HIDE DEF e
<1>3. queue \in Seq([own : BOOLEAN]) /\ Len(queue) \in Nat
  BY DEF RunsOK
<1>4. /\ queue' \in Seq([own : BOOLEAN]) /\ Len(queue') = Len(queue) + 1
      /\ \A i \in 1..Len(queue) : queue'[i] = queue[i]
      /\ queue'[Len(queue) + 1] = e
  BY <1>1, <1>2, <1>3
<1>5. queue' # <<>> /\ Len(queue') <= MaxQueue
  BY <1>2, <1>3, <1>4, BoundsAssumption
<1> QED
  BY <1>1, <1>4, <1>5

LEMMA Elements ==
    ASSUME NEW S, NEW q \in Seq(S)
    PROVE  DOMAIN q = 1..Len(q) /\ Len(q) \in Nat /\ \A i \in 1..Len(q) : q[i] \in S
  OBVIOUS

LEMMA Disowned ==
    ASSUME NEW q \in Seq([own : BOOLEAN])
    PROVE  /\ Disown(q) \in Seq([own : BOOLEAN]) /\ Len(Disown(q)) = Len(q)
           /\ \A i \in 1..Len(q) : ~Disown(q)[i].own
           /\ q # <<>> => Disown(q) # <<>>
<1>1. DOMAIN q = 1..Len(q) /\ Len(q) \in Nat /\ \A i \in 1..Len(q) : q[i] \in [own : BOOLEAN]
  BY Elements
<1>2. \A i \in 1..Len(q) : /\ [q[i] EXCEPT !.own = FALSE] \in [own : BOOLEAN]
                           /\ ~[q[i] EXCEPT !.own = FALSE].own
  BY <1>1
<1>3. Disown(q) = [i \in 1..Len(q) |-> [q[i] EXCEPT !.own = FALSE]]
  BY <1>1 DEF Disown
<1>4. Disown(q) \in [1..Len(q) -> [own : BOOLEAN]]
  BY <1>2, <1>3
<1>5. Disown(q) \in Seq([own : BOOLEAN]) /\ Len(Disown(q)) = Len(q)
  BY <1>1, <1>4
<1>6. q # <<>> => Len(q) # 0
  OBVIOUS
<1> QED
  BY <1>2, <1>3, <1>5, <1>6

LEMMA ControllersKept ==
    ASSUME NEW c \in Controller
    PROVE  /\ markDirty(c) \in Controller
           /\ Settled(c) \in Controller
           /\ [c EXCEPT !.state = "running", !.again = FALSE] \in Controller
  BY DEF Controller, markDirty, Settled

LEMMA NoneIsNoController == None \notin Controller
  BY BoundsAssumption

\* The runs under a config that stays in force.
LEMMA Runs_Kept ==
    ASSUME BookOK, RunsOK, applied' = applied, history' = history,
           \/ Event /\ UNCHANGED <<queue, going>>
           \/ WatchFire
           \/ Enqueue(FALSE) /\ UNCHANGED <<ctl, going, fresh>>
           \/ RunStart \/ RunEnds
           \/ UNCHANGED <<ctl, queue, going, fresh>>
    PROVE  RunsOK'
<1>c. Conf(applied)' = Conf(applied)
  BY DEF Conf
<1>q. queue \in Seq([own : BOOLEAN]) /\ Len(queue) \in Nat
  BY DEF RunsOK
<1>1. CASE Event /\ UNCHANGED <<queue, going>>
  <2>1. /\ ctl' \in {None} \union Controller /\ (ctl' # None <=> ctl # None)
        /\ fresh' \in BOOLEAN
    BY <1>1, ControllersKept, NoneIsNoController DEF Event, RunsOK
  <2> QED
    BY <1>1, <1>c, <2>1 DEF RunsOK, WatchFollows, OwnedRuns
<1>2. CASE WatchFire
  <2>1. /\ ctl # None /\ Enqueue(TRUE) /\ UNCHANGED <<going, fresh>>
        /\ ctl' = [ctl EXCEPT !.state = "running", !.again = FALSE]
    BY <1>2 DEF WatchFire
  <2>2. ctl' \in Controller /\ ctl' # None
    BY <2>1, ControllersKept, NoneIsNoController DEF RunsOK
  <2>3. /\ queue' \in Seq([own : BOOLEAN]) /\ Len(queue') <= MaxQueue /\ queue' # <<>>
    BY <2>1, Joined
  <2> QED
    BY <1>c, <2>1, <2>2, <2>3 DEF RunsOK, WatchFollows, OwnedRuns
<1>3. CASE Enqueue(FALSE) /\ UNCHANGED <<ctl, going, fresh>>
  <2>1. /\ queue' \in Seq([own : BOOLEAN])
        /\ Len(queue') = Len(queue) + 1 /\ Len(queue') <= MaxQueue
        /\ queue' # <<>>
        /\ \A i \in 1..Len(queue) : queue'[i] = queue[i]
        /\ queue'[Len(queue) + 1].own = FALSE
    BY <1>3, Joined
  <2>2. \A i \in 1..Len(queue') : i \in 1..Len(queue) \/ i = Len(queue) + 1
    BY <1>q, <2>1
  <2>3. OwnedRuns'
    BY <1>3, <2>1, <2>2 DEF RunsOK, OwnedRuns
  <2> QED
    BY <1>3, <1>c, <2>1, <2>3 DEF RunsOK, WatchFollows
<1>4. CASE RunStart
  BY <1>4, <1>c DEF RunStart, RunsOK, WatchFollows, OwnedRuns
<1>5. CASE RunEnds
  <2>1. /\ going /\ queue # <<>> /\ going' = FALSE /\ queue' = Tail(queue) /\ fresh' = fresh
        /\ ctl' = IF Head(queue).own THEN Settled(ctl) ELSE ctl
    BY <1>5 DEF RunEnds, RunsOK
  <2>2. /\ queue' \in Seq([own : BOOLEAN]) /\ Len(queue') = Len(queue) - 1
        /\ \A i \in 1..Len(queue') : i + 1 \in 1..Len(queue) /\ queue'[i] = queue[i + 1]
        /\ Len(queue) # 0 /\ Head(queue) = queue[1]
    BY <1>q, <2>1
  <2>3. Head(queue).own => ctl \in Controller
    BY <1>q, <2>2 DEF RunsOK, OwnedRuns
  <2>4. ctl' \in {None} \union Controller /\ (ctl' # None <=> ctl # None)
    BY <2>1, <2>3, ControllersKept, NoneIsNoController DEF RunsOK
  <2>5. Len(queue') <= MaxQueue
    BY <1>q, <2>2, BoundsAssumption DEF RunsOK
  <2>6. OwnedRuns'
    BY <2>2, <2>4 DEF RunsOK, OwnedRuns
  <2> QED
    BY <1>c, <2>1, <2>2, <2>4, <2>5, <2>6 DEF RunsOK, WatchFollows
<1>6. CASE UNCHANGED <<ctl, queue, going, fresh>>
  BY <1>6, <1>c DEF RunsOK, WatchFollows, OwnedRuns
<1> QED
  BY <1>1, <1>2, <1>3, <1>4, <1>5, <1>6

LEMMA Watchable ==
    ASSUME BookOK, NEW rev \in 1..Latest
    PROVE  Conf(rev) \in Configs /\ NewController(Conf(rev).watch) \in Controller
<1>1. Conf(rev) \in Configs
  BY DEF BookOK, Conf, Latest
<1> QED
  BY <1>1 DEF NewController, Controller

\* The watcher follows the config that comes into force.
LEMMA Runs_Rewatched ==
    ASSUME BookOK, RunsOK, NEW rev \in 1..Latest, Rewatch(Conf(rev)),
           going' = going, history' = history, applied' = rev
    PROVE  RunsOK'
<1> DEFINE next == Rewatched(Conf(rev))
           kept == next # None /\ ctl # None /\ next.sig = ctl.sig
<1>1. /\ ctl' = next
      /\ queue' = IF kept THEN queue ELSE Disown(queue)
      /\ fresh' = (fresh /\ kept)
  BY DEF Rewatch
<1>2. /\ next \in {None} \union Controller
      /\ next # None => Conf(rev).enabled
  BY Watchable DEF Rewatched, RunsOK
<1> HIDE DEF next
<1>3. fresh' \in BOOLEAN
  BY <1>1 DEF RunsOK
<1>4. /\ queue' \in Seq([own : BOOLEAN]) /\ Len(queue') = Len(queue)
      /\ queue # <<>> => queue' # <<>>
      /\ \A i \in 1..Len(queue') : queue'[i].own => next # None
  BY <1>1, Disowned DEF RunsOK
<1>5. WatchFollows'
  BY <1>1, <1>2 DEF WatchFollows, Conf
<1>6. OwnedRuns'
  BY <1>1, <1>4 DEF OwnedRuns
<1> QED
  BY <1>1, <1>2, <1>3, <1>4, <1>5, <1>6 DEF RunsOK

-----------------------------------------------------------------------------
(* The copies of the config                                                *)

\* Calls that do not touch the scheduler and the watcher.
LEMMA Book_Kept ==
    ASSUME BookOK,
           \/ HeartbeatChecks
           \/ \E r \in Refresher : RefreshTimer(r)
           \/ \E r \in Call : Answer(r) \/ ApplyUnsaved(r) \/ RefreshFails(r)
           \/ UNCHANGED configVars
    PROVE  BookOK' /\ history' = history /\ applied' = applied
<1> DEFINE F == [pc : {"idle", "asked", "answered"}, rev : 0..Latest]
<1>1. history' = history /\ applied' = applied
  BY DEF HeartbeatChecks, RefreshTimer, Answer, ApplyUnsaved, RefreshFails, configVars
<1>2. \A r \in Call : fetch[r] \in F /\ fetch[r].rev \in 0..Latest
  BY DEF BookOK
<1>3. Latest \in Nat \ {0}
  BY BoundsAssumption DEF BookOK
<1>4. {hostConfig', cacheFile', applied', lastSeen'} \subseteq 0..Latest
  <2>1. \A r \in Call : fetch[r].rev \in 0..Latest
    BY <1>2
  <2> QED
    BY <1>1, <2>1
       DEF BookOK, HeartbeatChecks, RefreshTimer, Answer, ApplyUnsaved, RefreshFails,
           configVars, Recorded
<1>5. \/ fetch' = fetch
      \/ \E r \in Call, x \in F : /\ fetch' = [fetch EXCEPT ![r] = x]
                                  /\ x.pc = "answered" => x.rev # 0
  <2> DEFINE asked == [pc |-> "asked", rev |-> 0]
             answered == [pc |-> "answered", rev |-> Latest]
  <2>1. /\ asked \in F /\ asked.pc # "answered"
        /\ IdleCall \in F /\ IdleCall.pc # "answered"
        /\ answered \in F /\ answered.rev # 0
    BY <1>3 DEF IdleCall
  <2> HIDE DEF F
  <2>2. CASE HeartbeatChecks
    BY <2>1, <2>2 DEF HeartbeatChecks, Ask, Call
  <2>3. CASE \E r \in Refresher : RefreshTimer(r)
    BY <2>1, <2>3 DEF RefreshTimer, Ask, Call
  <2>4. CASE \E r \in Call : Answer(r)
    BY <2>1, <2>4 DEF Answer
  <2>5. CASE \E r \in Call : ApplyUnsaved(r) \/ RefreshFails(r)
    BY <2>1, <2>5 DEF ApplyUnsaved, RefreshFails
  <2>6. CASE UNCHANGED configVars
    BY <2>6 DEF configVars
  <2> QED
    BY <2>2, <2>3, <2>4, <2>5, <2>6
<1>6. fetch' \in [Call -> F] /\ Answered'
  BY <1>5 DEF BookOK, Answered
<1>7. Latest' = Latest
  BY <1>1 DEF Latest
<1> QED
  BY <1>1, <1>4, <1>6, <1>7 DEF BookOK

-----------------------------------------------------------------------------
(* The steps                                                               *)

\* A new config changes nothing the daemon has.
LEMMA EditStep ==
    ASSUME TriggerInv, NEW c \in Configs, Edit(c)
    PROVE  TriggerInv'
<1>i. BookOK /\ ClockOK /\ RunsOK /\ CountsOK
  BY Parts
<1>1. /\ Latest < MaxRevisions /\ history' = Append(history, c)
      /\ UNCHANGED <<hostConfig, cacheFile, applied, lastSeen, fetch, due, timers, slot,
                     firedSpecial, ctl, queue, going, fresh, changes, faults>>
  BY DEF Edit, schedVars, runVars
<1>2. history \in Seq(Configs) /\ Latest \in Nat /\ Latest = Len(history)
  BY DEF Latest, BookOK, TriggerInv, Inv, TypeOK
<1>3. /\ history' \in Seq(Configs) /\ Latest' = Latest + 1
      /\ \A k \in 1..Latest : history'[k] = history[k]
  BY <1>1, <1>2 DEF Latest
<1>4. applied # 0 => Conf(applied)' = Conf(applied)
  BY <1>i, <1>1, <1>2, <1>3 DEF BookOK, Conf
<1>5. BookOK'
  <2>1. Latest' \in 1..MaxRevisions /\ 0..Latest \subseteq (0..Latest)'
    BY <1>1, <1>2, <1>3, BoundsAssumption
  <2>2. (fetch \in [Call -> [pc : {"idle", "asked", "answered"}, rev : 0..Latest]])'
    BY <1>i, <1>1, <2>1 DEF BookOK
  <2> QED
    BY <1>i, <1>1, <1>3, <2>1, <2>2 DEF BookOK, Answered
<1>6. ClockOK'
  <2>1. Timer \subseteq Timer'
    BY <1>2, <1>3 DEF Timer
  <2> QED
    BY <1>i, <1>1, <1>4, <2>1 DEF ClockOK, LiveTimersTracked, TimersFollow
<1>7. RunsOK' /\ CountsOK'
  BY <1>i, <1>1, <1>4 DEF RunsOK, WatchFollows, OwnedRuns, CountsOK
<1> QED
  BY <1>5, <1>6, <1>7, PartsPrimed

\* Steps under the config in force.
LEMMA SteadyStep ==
    ASSUME TriggerInv,
           \/ LocalChange \/ WatchFire \/ Tick \/ \E i \in TimerId : TimerSteps(i)
           \/ ManualSync \/ RunStart \/ RunPulls \/ RunEnds
           \/ HeartbeatChecks \/ \E r \in Refresher : RefreshTimer(r)
           \/ \E r \in Call : Answer(r) \/ ApplyUnsaved(r) \/ RefreshFails(r)
           \/ UNCHANGED vars
    PROVE  TriggerInv'
<1>i. BookOK /\ ClockOK /\ RunsOK /\ CountsOK
  BY Parts
<1>1. BookOK' /\ history' = history /\ applied' = applied
  <2>1. \/ HeartbeatChecks
        \/ \E r \in Refresher : RefreshTimer(r)
        \/ \E r \in Call : Answer(r) \/ ApplyUnsaved(r) \/ RefreshFails(r)
        \/ UNCHANGED configVars
    BY DEF LocalChange, WatchFire, Tick, TimerSteps, TimerReevaluates, TimerPaused, TimerFires,
           ManualSync, RunStart, RunPulls, RunEnds, vars
  <2> QED
    BY <1>i, <2>1, Book_Kept
<1>2. ClockOK' /\ firedSpecial' \in BOOLEAN
  <2>1. CASE \E i \in TimerId : TimerSteps(i)
    BY <1>i, <2>1, TimerSteps_Clock
  <2>2. CASE Tick
    BY <1>i, <2>2, Tick_Clock DEF Tick, CountsOK
  <2>3. CASE UNCHANGED schedVars
    BY <1>i, <1>1, <2>3, ClockKept DEF schedVars, CountsOK
  <2> QED
    BY <2>1, <2>2, <2>3
       DEF LocalChange, WatchFire, ManualSync, RunStart, RunPulls, RunEnds, HeartbeatChecks,
           RefreshTimer, Answer, ApplyUnsaved, RefreshFails, vars
<1>3. RunsOK'
  <2>1. \/ Event /\ UNCHANGED <<queue, going>>
        \/ WatchFire
        \/ Enqueue(FALSE) /\ UNCHANGED <<ctl, going, fresh>>
        \/ RunStart \/ RunEnds
        \/ UNCHANGED <<ctl, queue, going, fresh>>
    BY DEF LocalChange, Tick, TimerSteps, TimerReevaluates, TimerPaused, TimerFires,
           ManualSync, RunPulls, HeartbeatChecks, RefreshTimer, Answer, ApplyUnsaved,
           RefreshFails, vars, runVars
  <2> QED
    BY <1>i, <1>1, <2>1, Runs_Kept
<1>4. changes' \in 0..MaxChanges /\ faults' \in 0..MaxFaults
  <2>1. \/ changes' = changes
        \/ changes < MaxChanges /\ changes' = changes + 1
    BY DEF LocalChange, WatchFire, Tick, TimerSteps, TimerReevaluates, TimerPaused, TimerFires,
           ManualSync, RunStart, RunPulls, RunEnds, HeartbeatChecks, RefreshTimer, Answer,
           ApplyUnsaved, RefreshFails, vars
  <2>2. faults' = faults \/ Fault
    BY DEF LocalChange, WatchFire, Tick, TimerSteps, TimerReevaluates, TimerPaused, TimerFires,
           ManualSync, RunStart, RunPulls, RunEnds, HeartbeatChecks, RefreshTimer, Answer,
           ApplyUnsaved, RefreshFails, vars
  <2> QED
    BY <1>i, <2>1, <2>2, BoundsAssumption DEF CountsOK, Fault
<1> QED
  BY <1>1, <1>2, <1>3, <1>4, PartsPrimed DEF CountsOK

\* A refreshed config comes into force.
LEMMA ApplyStep ==
    ASSUME TriggerInv, NEW r \in Call, Apply(r)
    PROVE  TriggerInv'
<1>i. BookOK /\ ClockOK /\ RunsOK /\ CountsOK
  BY Parts
<1> DEFINE rev == fetch[r].rev
<1>1. /\ fetch[r].pc = "answered"
      /\ fetch' = [fetch EXCEPT ![r] = IdleCall]
      /\ hostConfig' = rev /\ cacheFile' = rev /\ applied' = rev
      /\ lastSeen' \in {rev, lastSeen}
      /\ Schedule(Stopped, rev, firedSpecial)
      /\ Rewatch(Conf(rev))
      /\ UNCHANGED <<history, firedSpecial, going, changes, faults>>
  BY DEF Apply, Recorded
<1>2. rev \in 1..Latest /\ Latest \in Nat
  <2>1. fetch[r] \in [pc : {"idle", "asked", "answered"}, rev : 0..Latest]
    BY <1>i DEF BookOK
  <2>2. rev \in 0..Latest /\ rev # 0 /\ Latest \in Nat
    BY <1>i, <1>1, <2>1, BoundsAssumption DEF BookOK, Answered
  <2> QED
    BY <2>2
<1> HIDE DEF rev
<1>3. BookOK'
  <2>1. IdleCall \in [pc : {"idle", "asked", "answered"}, rev : 0..Latest] /\ IdleCall.pc = "idle"
    BY <1>2 DEF IdleCall
  <2>2. Latest' = Latest
    BY <1>1 DEF Latest
  <2>3. fetch' \in [Call -> [pc : {"idle", "asked", "answered"}, rev : 0..Latest]] /\ Answered'
    BY <1>i, <1>1, <2>1 DEF BookOK, Answered
  <2> QED
    BY <1>i, <1>1, <1>2, <2>2, <2>3 DEF BookOK
<1>4. ClockOK'
  <2>1. Stopped = NoTimers /\ due \in 0..MaxDue
    BY <1>i, NothingLeft DEF ClockOK
  <2> QED
    BY <1>i, <1>1, <1>2, <2>1, ClockSet
<1>5. RunsOK'
  BY <1>i, <1>1, <1>2, Runs_Rewatched
<1> QED
  BY <1>i, <1>1, <1>3, <1>4, <1>5, PartsPrimed DEF CountsOK

\* The daemon boots.
LEMMA RestartStep ==
    ASSUME TriggerInv, Restart
    PROVE  TriggerInv'
<1>i. BookOK /\ ClockOK /\ RunsOK /\ CountsOK
  BY Parts
<1>1. /\ Fault
      /\ hostConfig' = cacheFile /\ applied' = cacheFile /\ lastSeen' = cacheFile
      /\ firedSpecial' = FALSE
      /\ queue' = <<>> /\ going' = FALSE /\ fresh' = FALSE
      /\ UNCHANGED <<history, cacheFile, changes>>
  BY DEF Restart
<1> DEFINE F == [pc : {"idle", "asked", "answered"}, rev : 0..Latest]
           asked == [pc |-> "asked", rev |-> 0]
<1>2. Latest' = Latest /\ Latest \in Nat /\ cacheFile \in 0..Latest
  BY <1>i, <1>1, BoundsAssumption DEF Latest, BookOK
<1>3. fetch' \in [Call -> F] /\ Answered'
  <2>1. /\ asked \in F /\ asked.pc # "answered"
        /\ IdleCall \in F /\ IdleCall.pc # "answered"
    BY <1>2 DEF IdleCall
  <2> HIDE DEF F
  <2>2. \A r \in Call : fetch'[r] \in {asked, IdleCall}
    BY DEF Restart
  <2>3. fetch' = [r \in Call |-> fetch'[r]]
    BY DEF Restart
  <2> QED
    BY <2>1, <2>2, <2>3 DEF Answered
<1>4. BookOK'
  BY <1>i, <1>1, <1>2, <1>3 DEF BookOK
<1>5. CountsOK'
  <2>1. firedSpecial' \in BOOLEAN
    BY <1>1
  <2>2. changes' \in 0..MaxChanges /\ faults' \in 0..MaxFaults
    BY <1>i, <1>1, BoundsAssumption DEF CountsOK, Fault
  <2> QED
    BY <2>1, <2>2 DEF CountsOK
<1>6. /\ queue' \in Seq([own : BOOLEAN]) /\ Len(queue') = 0 /\ 0 <= MaxQueue /\ OwnedRuns'
  BY <1>1, BoundsAssumption DEF OwnedRuns
<1>7. CASE cacheFile = 0
  <2>1. timers' = NoTimers /\ slot' = 0 /\ ctl' = None /\ due' = due
    BY <1>7 DEF Restart
  <2>2. ClockOK'
    BY <1>i, <2>1 DEF ClockOK, LiveTimersTracked, TimersFollow, NoTimers
  <2>3. RunsOK'
    BY <1>1, <1>6, <2>1 DEF RunsOK, WatchFollows
  <2> QED
    BY <1>4, <1>5, <2>2, <2>3, PartsPrimed
<1>8. CASE cacheFile # 0
  <2>1. /\ Schedule(NoTimers, cacheFile, FALSE)
        /\ ctl' = IF Rewatched(Conf(cacheFile)) = None THEN None
                  ELSE NewController(Conf(cacheFile).watch)
    BY <1>8 DEF Restart
  <2>2. cacheFile \in 1..Latest
    BY <1>2, <1>8
  <2>3. ClockOK'
    BY <1>i, <1>1, <2>1, <2>2, ClockSet DEF ClockOK
  <2>4. /\ ctl' \in {None} \union Controller
        /\ ctl' # None => Conf(cacheFile).enabled
    BY <1>i, <2>1, <2>2, Watchable DEF Rewatched
  <2>5. WatchFollows'
    BY <1>1, <1>8, <2>4 DEF WatchFollows, Conf
  <2>6. RunsOK'
    BY <1>1, <1>6, <2>4, <2>5 DEF RunsOK
  <2> QED
    BY <1>4, <1>5, <2>3, <2>6, PartsPrimed
<1> QED
  BY <1>7, <1>8

LEMMA TriggerStep ==
    ASSUME TriggerInv, [Next]_vars
    PROVE  TriggerInv'
  BY EditStep, SteadyStep, ApplyStep, RestartStep DEF Next

LEMMA TriggerStart == Init => TriggerInv
<1> SUFFICES ASSUME Init PROVE TriggerInv
  OBVIOUS
<1>1. PICK c \in Configs : history = <<c>>
  BY DEF Init
<1>2. history \in Seq(Configs) /\ Latest = 1
  BY <1>1 DEF Latest
<1> DEFINE F == [pc : {"idle", "asked", "answered"}, rev : 0..Latest]
           asked == [pc |-> "asked", rev |-> 0]
<1>3. fetch \in [Call -> F] /\ Answered
  <2>1. /\ asked \in F /\ asked.pc # "answered"
        /\ IdleCall \in F /\ IdleCall.pc # "answered"
    BY <1>2 DEF IdleCall
  <2> HIDE DEF F
  <2> QED
    BY <2>1 DEF Init, Answered
<1>4. BookOK
  BY <1>2, <1>3, BoundsAssumption DEF Init, BookOK
<1>5. ClockOK
  <2>1. timers = NoTimers /\ slot = 0 /\ due \in 0..MaxDue
    BY BoundsAssumption DEF Init
  <2> QED
    BY <2>1 DEF ClockOK, LiveTimersTracked, TimersFollow, NoTimers
<1>6. RunsOK
  <2>1. queue = <<>> /\ queue \in Seq([own : BOOLEAN]) /\ Len(queue) = 0 /\ 0 <= MaxQueue
    BY BoundsAssumption DEF Init
  <2>2. going \in BOOLEAN /\ ~going /\ fresh \in BOOLEAN
    BY DEF Init
  <2>3. ctl = None
    BY DEF Init
  <2> QED
    BY <2>1, <2>2, <2>3 DEF RunsOK, WatchFollows, OwnedRuns
<1>7. CountsOK
  <2>1. firedSpecial \in BOOLEAN
    BY DEF Init
  <2>2. changes \in 0..MaxChanges /\ faults \in 0..MaxFaults
    BY BoundsAssumption DEF Init
  <2> QED
    BY <2>1, <2>2 DEF CountsOK
<1> QED
  BY <1>4, <1>5, <1>6, <1>7, Parts

-----------------------------------------------------------------------------
(* What follows                                                            *)

\* The scheduler's map holds every live timer of the assignment, and each
\* copy of the config is one the server gave out (Scheduler.schedule and
\* stop, refreshConfig): for every number of refreshes that overlap, failed
\* saves and restarts.
THEOREM TimersTracked == Spec => []Inv
<1>1. TriggerInv /\ [Next]_vars => TriggerInv'
  BY TriggerStep
<1>2. TriggerInv => Inv
  BY DEF TriggerInv
<1> QED
  BY <1>1, <1>2, TriggerStart, PTL DEF Spec

\* Once a config that disables the assignment is in force, neither a timer
\* nor a watcher of an older one starts a run (Scheduler.schedule,
\* FolderWatcher.reconcile).
THEOREM ConfigRules == Spec => TriggersFollowConfig
<1>1. TriggerInv /\ [Next]_vars => TriggerInv'
  BY TriggerStep
<1>2. TriggerInv => (WatchFire \/ (\E i \in TimerId : TimerFires(i)) => Conf(applied).enabled)
  BY DEF TriggerInv, WatchFollows, TimersFollow, WatchFire, TimerFires
<1>3. TriggerInv /\ [Next]_vars =>
          [WatchFire \/ (\E i \in TimerId : TimerFires(i)) => Conf(applied).enabled]_vars
  BY <1>2
<1> QED
  BY <1>1, <1>3, TriggerStart, PTL DEF Spec, TriggersFollowConfig

\* A cron never fires before its occurrence, however far away that is and
\* whatever the runtime's limit on one timer (planTimerDelay).
THEOREM CronNeverEarly == Spec => NeverEarly
<1>1. TriggerInv /\ [Next]_vars => TriggerInv'
  BY TriggerStep
<1>2. TriggerInv => (\A i \in TimerId : TimerFires(i) /\ timers[i].kind = "cron" => due = 0)
  BY DEF TriggerInv, TimersFollow, TimerFires
<1>3. TriggerInv /\ [Next]_vars =>
          [\A i \in TimerId : TimerFires(i) /\ timers[i].kind = "cron" => due = 0]_vars
  BY <1>2
<1> QED
  BY <1>1, <1>3, TriggerStart, PTL DEF Spec, NeverEarly

\* Each step of the daemon is a step of what FolderRuns promises, or none.
LEMMA PromiseStep ==
    ASSUME TriggerInv, [Next]_vars
    PROVE  [Promise!Next]_(Promise!runVars)
<1>t. fresh \in BOOLEAN /\ going \in BOOLEAN
  BY DEF TriggerInv, Inv, TypeOK
<1>1. CASE Event /\ going' = going
  BY <1>1, <1>t DEF Event, Promise!Next, Promise!Change, Promise!runVars
<1>2. CASE RunStart
  BY <1>2, <1>t DEF RunStart, MutexFree, Promise!Next, Promise!Begin
<1>3. CASE RunEnds
  BY <1>3, <1>t DEF RunEnds, Promise!Next, Promise!Finish
<1>4. CASE Restart
  BY <1>4 DEF Restart, Promise!Next, Promise!Halt
<1>5. CASE \E r \in Call : Apply(r)
  <2>1. fresh' \in {fresh, FALSE} /\ going' = going
    BY <1>5, <1>t DEF Apply, Rewatch
  <2> QED
    BY <2>1 DEF Promise!Next, Promise!Unwatch, Promise!runVars
<1>6. CASE UNCHANGED <<fresh, going>>
  BY <1>6 DEF Promise!runVars
<1> QED
  BY <1>1, <1>2, <1>3, <1>4, <1>5, <1>6
     DEF Next, Edit, LocalChange, WatchFire, Tick, TimerSteps, TimerReevaluates, TimerPaused,
         TimerFires, ManualSync, RunPulls, HeartbeatChecks, RefreshTimer, Answer, ApplyUnsaved,
         RefreshFails, vars, runVars

\* The controller, the scheduler and the mutex implement FolderRuns up to its
\* fairness: runs of the folder do not overlap, and only a run that begins, or
\* the end of the watch, makes a change that was seen old (WatchController,
\* KeyedMutex, runOnce).
THEOREM RunsImplementPromise ==
    Spec => Promise!Init /\ [][Promise!Next]_(Promise!runVars)
<1>1. TriggerInv /\ [Next]_vars => TriggerInv'
  BY TriggerStep
<1>2. Init => Promise!Init
  BY DEF Init, Promise!Init
<1>3. TriggerInv /\ [Next]_vars => [Promise!Next]_(Promise!runVars)
  BY PromiseStep
<1> QED
  BY <1>1, <1>2, <1>3, TriggerStart, PTL DEF Spec
===============================================================================
