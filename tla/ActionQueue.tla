----------------------------- MODULE ActionQueue -----------------------------
(***************************************************************************)
(* The queue of remote actions: the `queued_actions` table and its         *)
(* handlers on the server (routes/actions.ts), and the daemon's side in    *)
(* index.ts: the action timer with pollActions, the boot reclaim,          *)
(* executeAction with its ack, the lease timer and the restart that ends   *)
(* an `update_daemon` action.                                              *)
(*                                                                         *)
(* A loop is one invocation that works through a list of claimed actions:  *)
(* "boot" is the reclaim at startup, the others are calls of pollActions.  *)
(* An ack or a poll whose caller timed out may still reach the server.     *)
(* `fresh` is history: it records that the next execution of an action is  *)
(* its first one, or is owed to a crash or to an ack that failed.          *)
(***************************************************************************)
EXTENDS Naturals, FiniteSets

CONSTANTS
    Host,        \* daemons
    Action,      \* rows of queued_actions
    HostOf,      \* the host each action is queued for
    Update,      \* the actions of type update_daemon
    PollLoop,    \* calls of pollActions that could overlap
    None,
    Limit,       \* PENDING_TAKE_LIMIT
    LeaseTTL,    \* ACTION_LEASE_MS, in ticks
    MaxFaults,   \* bound: crashes, lost polls and lost acks
    Timely       \* TRUE: leases of running actions are renewed in time

Loop == PollLoop \cup {"boot"}

ASSUME ConstantsAssumption ==
    /\ HostOf \in [Action -> Host]
    /\ Update \subseteq Action
    /\ None \notin Action \cup Loop
    /\ "boot" \notin PollLoop
    /\ Limit \in Nat \ {0}
    /\ LeaseTTL \in Nat \ {0}
    /\ MaxFaults \in Nat
    /\ Timely \in BOOLEAN

VARIABLES
    status,     \* server: queued_actions.status, "none" before the insert
    leaseAge,   \* server: time since the lease was granted or renewed
    created,    \* server: the actions enqueued before each action
    logged,     \* server: operation_log rows written for each action
    daemon,     \* daemon: "down", "booting" or "up"
    polling,    \* daemon: pollingActions
    stage,      \* daemon: how far each loop got
    batch,      \* daemon: claimed actions the loop has not come to yet
    current,    \* daemon: the action the loop executes
    restarting, \* daemon: the update that asked systemd for a restart
    polls,      \* requests for pending actions on their way to the server
    acks,       \* completions on their way to the server
    fresh,      \* history: the next execution is the first, or is owed
    faults      \* faults so far

table == <<status, leaseAge, created, logged>>
loops == <<stage, batch, current>>
process == <<daemon, polling, restarting>>
net == <<polls, acks>>
vars == <<table, loops, process, net, fresh, faults>>

Status == {"none", "pending", "taken", "done", "failed"}

Outcome == {"done", "failed"}

\* "answered" and "recorded": the server has answered, the daemon has not
\* seen the answer yet.
Stage == {"idle", "asking", "answered", "draining", "executing", "acking", "recorded"}

\* `loop` is the caller that waits for the answer, None if it gave up.
Poll == [host: Host, loop: Loop \cup {None}]

Ack == [act: Action, outcome: Outcome, loop: Loop \cup {None}]

PollMsg(h, l) == [host |-> h, loop |-> l]

AckMsg(x, o, l) == [act |-> x, outcome |-> o, loop |-> l]

Terminal(x) == status[x] \in Outcome

\* The action is in inFlightActions of its host.
InFlight(x) == \E l \in Loop : current[HostOf[x]][l] = x

\* The lease is over.
Expired(x) == leaseAge[x] = LeaseTTL

TypeOK ==
    /\ status \in [Action -> Status]
    /\ leaseAge \in [Action -> 0..LeaseTTL]
    /\ created \in [Action -> SUBSET Action]
    /\ logged \in [Action -> Nat]
    /\ daemon \in [Host -> {"down", "booting", "up"}]
    /\ polling \in [Host -> BOOLEAN]
    /\ stage \in [Host -> [Loop -> Stage]]
    /\ batch \in [Host -> [Loop -> SUBSET Action]]
    /\ current \in [Host -> [Loop -> Action \cup {None}]]
    /\ restarting \in [Host -> Update \cup {None}]
    /\ polls \subseteq Poll
    /\ acks \subseteq Ack
    /\ fresh \in [Action -> BOOLEAN]
    /\ faults \in 0..MaxFaults

Init ==
    /\ status = [x \in Action |-> "none"]
    /\ leaseAge = [x \in Action |-> 0]
    /\ created = [x \in Action |-> {}]
    /\ logged = [x \in Action |-> 0]
    /\ daemon = [h \in Host |-> "down"]
    /\ polling = [h \in Host |-> FALSE]
    /\ stage = [h \in Host |-> [l \in Loop |-> "idle"]]
    /\ batch = [h \in Host |-> [l \in Loop |-> {}]]
    /\ current = [h \in Host |-> [l \in Loop |-> None]]
    /\ restarting = [h \in Host |-> None]
    /\ polls = {}
    /\ acks = {}
    /\ fresh = [x \in Action |-> TRUE]
    /\ faults = 0

-----------------------------------------------------------------------------
(* The server                                                              *)

\* POST /hosts/:hostId/actions.
Enqueue(x) ==
    /\ status[x] = "none"
    /\ status' = [status EXCEPT ![x] = "pending"]
    /\ created' = [created EXCEPT ![x] = {y \in Action : status[y] # "none"}]
    /\ UNCHANGED <<leaseAge, logged, loops, process, net, fresh, faults>>

\* Mutant of Reapable: a lease without end.
ReapableNever(x) == FALSE

\* Rows reapStaleTakenActions selects, of every host.
Reapable(x) == status[x] = "taken" /\ Expired(x)

\* The oldest rows of the host that are pending once the stale ones are
\* reaped, at most Limit of them.
Claimable(h) ==
    LET ready == {x \in Action :
                    HostOf[x] = h /\ (status[x] = "pending" \/ Reapable(x))}
    IN  {x \in ready : Cardinality(created[x] \cap ready) < Limit}

\* GET /actions/pending: reap, claim, answer.
ServePoll(m) ==
    LET mine == Claimable(m.host) IN
    /\ polls' = polls \ {m}
    /\ status' = [x \in Action |->
                    IF x \in mine THEN "taken"
                    ELSE IF Reapable(x) THEN "pending" ELSE status[x]]
    /\ leaseAge' = [x \in Action |->
                      IF x \in mine \/ Reapable(x) THEN 0 ELSE leaseAge[x]]
    /\ stage' = IF m.loop = None THEN stage
                ELSE [stage EXCEPT ![m.host][m.loop] = "answered"]
    /\ batch' = IF m.loop = None THEN batch
                ELSE [batch EXCEPT ![m.host][m.loop] = mine]
    /\ UNCHANGED <<created, logged, current, process, acks, fresh, faults>>

\* Mutant of Completes: a settled row is rewritten and logged again.
CompletesAgain(x) == TRUE

\* A completion takes effect only on a row that has no outcome yet.
Completes(x) == ~Terminal(x)

\* POST /actions/:id/complete.
ServeAck(m) ==
    LET x == m.act IN
    /\ acks' = acks \ {m}
    /\ \/ /\ Completes(x)
          /\ status' = [status EXCEPT ![x] = m.outcome]
          /\ leaseAge' = [leaseAge EXCEPT ![x] = 0]
          /\ logged' = [logged EXCEPT ![x] = @ + 1]
       \/ /\ ~Completes(x)
          /\ UNCHANGED <<status, leaseAge, logged>>
    /\ stage' = IF m.loop = None THEN stage
                ELSE [stage EXCEPT ![HostOf[x]][m.loop] = "recorded"]
    /\ UNCHANGED <<created, batch, current, process, polls, fresh, faults>>

\* POST /actions/:id/lease for an action in flight.  A 409 is only logged.
RenewLease(x) ==
    /\ InFlight(x)
    /\ status[x] = "taken"
    /\ leaseAge[x] > 0
    /\ leaseAge' = [leaseAge EXCEPT ![x] = 0]
    /\ UNCHANGED <<status, created, logged, loops, process, net, fresh, faults>>

\* The lease timer fires ten times per lease.
RenewalDue(x) == InFlight(x) /\ status[x] = "taken" /\ leaseAge[x] + 1 = LeaseTTL

\* The daemon takes up an answer within the client's timeout, a twentieth of
\* a lease, and goes from one action to the next without a pause.
Prompt(h, l) == stage[h][l] \in {"answered", "draining"}

Tick ==
    /\ \E x \in Action : status[x] = "taken" /\ ~Expired(x)
    /\ Timely => /\ \A x \in Action : ~RenewalDue(x)
                 /\ \A h \in Host, l \in Loop : ~Prompt(h, l)
    /\ leaseAge' = [x \in Action |->
                      IF status[x] = "taken" /\ ~Expired(x)
                      THEN leaseAge[x] + 1 ELSE leaseAge[x]]
    /\ UNCHANGED <<status, created, logged, loops, process, net, fresh, faults>>

-----------------------------------------------------------------------------
(* The daemon: polling                                                     *)

\* Mutant of MayPoll: the timer stacks polls.
MayPollAlways(h) == daemon[h] = "up"

\* pollActions goes on only when no other call of it is still draining.
MayPoll(h) == daemon[h] = "up" /\ ~polling[h]

\* The action timer, or the call at the end of boot.
PollTick(h, l) ==
    /\ MayPoll(h)
    /\ stage[h][l] = "idle"
    /\ polling' = [polling EXCEPT ![h] = TRUE]
    /\ stage' = [stage EXCEPT ![h][l] = "asking"]
    /\ polls' = polls \cup {PollMsg(h, l)}
    /\ UNCHANGED <<table, batch, current, daemon, restarting, acks, fresh, faults>>

PollReturns(h, l) ==
    /\ stage[h][l] = "answered"
    /\ stage' = [stage EXCEPT ![h][l] = "draining"]
    /\ UNCHANGED <<table, batch, current, process, net, fresh, faults>>

\* The request or its answer is lost; a request may still arrive unattended.
PollFails(h, l) ==
    /\ faults < MaxFaults
    /\ stage[h][l] \in {"asking", "answered"}
    /\ faults' = faults + 1
    /\ stage' = [stage EXCEPT ![h][l] = "idle"]
    /\ batch' = [batch EXCEPT ![h][l] = {}]
    /\ polling' = [polling EXCEPT ![h] = FALSE]
    /\ \/ polls' = polls \ {PollMsg(h, l)}
       \/ /\ PollMsg(h, l) \in polls
          /\ polls' = (polls \ {PollMsg(h, l)}) \cup {PollMsg(h, None)}
    /\ UNCHANGED <<table, current, daemon, restarting, acks, fresh>>

\* The API client takes the poll, a GET, for idempotent and repeats it after a
\* timeout.  Rows claimed for the first request stay taken: nobody has them.
PollRetry(h, l) ==
    /\ faults < MaxFaults
    /\ stage[h][l] \in {"asking", "answered"}
    /\ faults' = faults + 1
    /\ stage' = [stage EXCEPT ![h][l] = "asking"]
    /\ batch' = [batch EXCEPT ![h][l] = {}]
    /\ \/ polls' = polls \cup {PollMsg(h, l)}
       \/ /\ PollMsg(h, l) \in polls
          /\ polls' = polls \cup {PollMsg(h, l), PollMsg(h, None)}
    /\ UNCHANGED <<table, current, process, acks, fresh>>

\* The loop is through: `pollingActions = false`, or the end of the reclaim.
LoopDone(h, l) ==
    /\ stage[h][l] = "draining"
    /\ batch[h][l] = {}
    /\ stage' = [stage EXCEPT ![h][l] = "idle"]
    /\ polling' = IF l = "boot" THEN polling ELSE [polling EXCEPT ![h] = FALSE]
    /\ daemon' = IF l = "boot" THEN [daemon EXCEPT ![h] = "up"] ELSE daemon
    /\ UNCHANGED <<table, batch, current, restarting, net, fresh, faults>>

-----------------------------------------------------------------------------
(* The daemon: executing                                                   *)

\* executeAction, for any action left: the answer comes in no given order.
\* An action already in flight is a logged no-op.
ExecuteAction(h, l, x) ==
    /\ stage[h][l] = "draining"
    /\ x \in batch[h][l]
    /\ batch' = [batch EXCEPT ![h][l] = @ \ {x}]
    /\ \/ /\ InFlight(x)
          /\ UNCHANGED <<stage, current, fresh>>
       \/ /\ ~InFlight(x)
          /\ stage' = [stage EXCEPT ![h][l] = "executing"]
          /\ current' = [current EXCEPT ![h][l] = x]
          /\ fresh' = [fresh EXCEPT ![x] = FALSE]
    /\ UNCHANGED <<table, process, net, faults>>

\* executeActionBody has its outcome and acks it.
SendAck(h, l, o) ==
    /\ stage[h][l] = "executing"
    /\ stage' = [stage EXCEPT ![h][l] = "acking"]
    /\ acks' = acks \cup {AckMsg(current[h][l], o, l)}
    /\ UNCHANGED <<table, batch, current, process, polls, fresh, faults>>

\* The action leaves inFlightActions and the loop goes on.
Proceed(h, l) ==
    /\ stage' = [stage EXCEPT ![h][l] = "draining"]
    /\ current' = [current EXCEPT ![h][l] = None]

AckReturns(h, l) ==
    LET x == current[h][l] IN
    /\ stage[h][l] = "recorded"
    /\ Proceed(h, l)
    /\ restarting' \in IF x \in Update
                       THEN {restarting, [restarting EXCEPT ![h] = x]}
                       ELSE {restarting}
    /\ UNCHANGED <<table, batch, daemon, polling, net, fresh, faults>>

\* Mutant of RestartUnacked: the update restarts the service all the same.
RestartUnackedAnyway(h, x) ==
    restarting' = IF x \in Update THEN [restarting EXCEPT ![h] = x] ELSE restarting

\* runDaemonUpdateAction asks for no restart when the ack failed.
RestartUnacked(h, x) == UNCHANGED restarting

\* completeAction threw: logged, and the row stays as it is.
AckFails(h, l) ==
    LET x == current[h][l]
        sent == {m \in acks : m.act = x /\ m.loop = l}
    IN
    /\ faults < MaxFaults
    /\ stage[h][l] \in {"acking", "recorded"}
    /\ faults' = faults + 1
    /\ Proceed(h, l)
    /\ RestartUnacked(h, x)
    /\ fresh' = [fresh EXCEPT ![x] = TRUE]
    /\ \/ acks' = acks \ sent
       \/ /\ sent # {}
          /\ acks' = (acks \ sent) \cup {AckMsg(x, m.outcome, None) : m \in sent}
    /\ UNCHANGED <<table, batch, daemon, polling, polls>>

-----------------------------------------------------------------------------
(* The daemon: stopping and booting                                        *)

\* The process ends.  Executions it leaves behind are owed another one.
Stop(h) ==
    LET myPolls == {m \in polls : m.host = h /\ m.loop # None}
        myAcks == {m \in acks : HostOf[m.act] = h /\ m.loop # None}
    IN
    /\ daemon' = [daemon EXCEPT ![h] = "down"]
    /\ polling' = [polling EXCEPT ![h] = FALSE]
    /\ restarting' = [restarting EXCEPT ![h] = None]
    /\ stage' = [stage EXCEPT ![h] = [l \in Loop |-> "idle"]]
    /\ batch' = [batch EXCEPT ![h] = [l \in Loop |-> {}]]
    /\ current' = [current EXCEPT ![h] = [l \in Loop |-> None]]
    /\ fresh' = [x \in Action |-> fresh[x] \/ (HostOf[x] = h /\ InFlight(x))]
    /\ \/ polls' = polls \ myPolls
       \/ /\ myPolls # {}
          /\ polls' = (polls \ myPolls) \cup {PollMsg(h, None)}
    /\ \/ acks' = acks \ myAcks
       \/ /\ myAcks # {}
          /\ acks' = (acks \ myAcks) \cup {AckMsg(m.act, m.outcome, None) : m \in myAcks}
    /\ UNCHANGED table

Crash(h) ==
    /\ daemon[h] # "down"
    /\ faults < MaxFaults
    /\ faults' = faults + 1
    /\ Stop(h)

\* systemd carries out the restart an update asked for.
Restart(h) ==
    /\ restarting[h] # None
    /\ Stop(h)
    /\ UNCHANGED faults

\* Boot: GET /actions/taken lists what the last process left behind.
BootReclaim(h) ==
    /\ daemon[h] = "down"
    /\ daemon' = [daemon EXCEPT ![h] = "booting"]
    /\ stage' = [stage EXCEPT ![h]["boot"] = "draining"]
    /\ batch' = [batch EXCEPT ![h]["boot"] =
                   {x \in Action : HostOf[x] = h /\ status[x] = "taken"}]
    /\ UNCHANGED <<table, current, polling, restarting, net, fresh, faults>>

\* The listing failed; the daemon goes on without it.
ReclaimFails(h) ==
    /\ daemon[h] = "down"
    /\ faults < MaxFaults
    /\ faults' = faults + 1
    /\ daemon' = [daemon EXCEPT ![h] = "up"]
    /\ UNCHANGED <<table, loops, polling, restarting, net, fresh>>

-----------------------------------------------------------------------------
\* What a loop does on its own once it is started.
LoopStep(h, l) ==
    \/ PollReturns(h, l)
    \/ LoopDone(h, l)
    \/ \E x \in Action : ExecuteAction(h, l, x)
    \/ \E o \in Outcome : SendAck(h, l, o)
    \/ AckReturns(h, l)

LoopNext(h, l) ==
    \/ LoopStep(h, l)
    \/ PollFails(h, l)
    \/ PollRetry(h, l)
    \/ AckFails(h, l)

HostNext(h) ==
    \/ \E l \in PollLoop : PollTick(h, l)
    \/ \E l \in Loop : LoopNext(h, l)
    \/ Crash(h)
    \/ Restart(h)
    \/ BootReclaim(h)
    \/ ReclaimFails(h)

ServeRequest ==
    \/ \E m \in polls : ServePoll(m)
    \/ \E m \in acks : ServeAck(m)

Next ==
    \/ \E x \in Action : Enqueue(x) \/ RenewLease(x)
    \/ \E h \in Host : HostNext(h)
    \/ ServeRequest
    \/ Tick

Spec == Init /\ [][Next]_vars

\* What keeps running: the service manager starts the daemon, its timers
\* fire, its loops and the actions they execute end, the server answers.
Fairness ==
    /\ \A h \in Host :
        /\ WF_vars(BootReclaim(h) \/ ReclaimFails(h))
        /\ WF_vars(\E l \in PollLoop : PollTick(h, l))
        /\ \A l \in Loop : WF_vars(LoopStep(h, l))
    /\ \A x \in Action : WF_vars(RenewLease(x))
    /\ WF_vars(ServeRequest)
    /\ WF_vars(Tick)

FairSpec == Spec /\ Fairness

-----------------------------------------------------------------------------
(* Correctness                                                             *)

\* The audit log has one row for an action with an outcome and none before,
\* although acks are retried, arrive late and arrive for rows that were
\* reaped and claimed again (POST /actions/:id/complete).
AuditedOnce ==
    \A x \in Action : logged[x] = IF Terminal(x) THEN 1 ELSE 0

\* An execution is the first of its action, or follows a crash during the
\* one before or an ack that failed: neither overlapping polls, nor reaped
\* leases, nor the boot reclaim run an action twice (pollActions,
\* executeAction, reapStaleTakenActions).
RerunsAreOwed ==
    [][\A h \in Host, l \in Loop :
        current'[h][l] \notin {None, current[h][l]} => fresh[current'[h][l]]]_vars

\* A restart is asked for only when the update that wants it has its outcome
\* on the server, so no boot finds it and restarts again
\* (runDaemonUpdateAction).
RestartIsRecorded ==
    \A h \in Host : restarting[h] # None => Terminal(restarting[h])

\* Every action that is enqueued gets its outcome, though polls and acks are
\* lost and daemons crash on the way (reapStaleTakenActions, the reclaim).
ActionSettles ==
    \A x \in Action : status[x] = "pending" ~> Terminal(x)
=============================================================================
