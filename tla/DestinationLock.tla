--------------------------- MODULE DestinationLock ---------------------------
(***************************************************************************)
(* The canonical destination lock: the `folder_locks` table and its three  *)
(* handlers on the server (routes/operations.ts), the daemon's lock client *)
(* (lock.ts) and the part of a run that uses it (runLocked in the daemon's *)
(* index.ts).  An assignment is one (folder, host) row; runs of one        *)
(* assignment are serialised in process by `runMutex`, so a run is named   *)
(* by its assignment.  A switch between sync and mount takes the lock of   *)
(* its folder as well, outside that mutex and without keeping an id.       *)
(*                                                                         *)
(* Requests travel through `acquires` and `releases`.  The API client      *)
(* gives up after 30 s; the request it abandoned may be dropped or may     *)
(* still reach the server; requests that say the same are one.  Time is    *)
(* the age of each row, capped at the TTL.  A lock id is a random UUID:    *)
(* any id nobody refers to any more.                                       *)
(***************************************************************************)
EXTENDS Naturals

CONSTANTS
    Host,             \* daemons
    Assignment,       \* folder_assignments rows
    HostOf,           \* the host of each assignment
    Key,              \* canonical destination keys
    AssignedKey,      \* the destination each assignment starts with
    LockId,           \* UUIDs
    None,
    LockTTL,          \* DEFAULT_LOCK_TTL, in ticks
    MaxAttempts,      \* acquireLockWithRetry's maxAttempts
    MaxEdits,         \* bound: how often an operator re-targets an assignment
    Switchable        \* bound: the assignments an operator switches

ASSUME ConstantsAssumption ==
    /\ HostOf \in [Assignment -> Host]
    /\ AssignedKey \in [Assignment -> Key]
    /\ None \notin Key \cup LockId \cup Host
    /\ LockTTL \in Nat \ {0}
    /\ MaxAttempts \in Nat \ {0}
    /\ MaxEdits \in Nat
    /\ Switchable \subseteq Assignment

VARIABLES
    folderLocks,  \* server: folder_locks, one row or NoRow per destination
    dbKey,        \* server: the key derived from its own assignment rows
    edits,        \* re-targetings so far
    exposed,      \* history: transfers that may have lost their row
    cfgKey,       \* daemon: the key derived from the cached host config
    daemon,       \* daemon: "down", "booting" or "up"
    activeLocks,  \* daemon: keys this process believes it holds
    switching,    \* daemon: assignments a mode switch has locked
    phase,        \* run: how far it got
    tries,        \* run: acquire attempts of the current loop
    runKey,       \* run: the destination it was started for
    lockId,       \* run: the id its acquire was answered with
    aborted,      \* run: a heartbeat was answered "lost"
    acquires,     \* acquire requests on their way to the server
    releases,     \* release requests on their way to the server
    keyless       \* those of mode switches, which name neither key nor id

server == <<folderLocks, dbKey, edits, exposed>>
client == <<cfgKey, daemon, activeLocks, switching>>
runs   == <<phase, tries, runKey, lockId, aborted>>
net    == <<acquires, releases, keyless>>
vars   == <<server, client, runs, net>>

NoRow == [by |-> None, age |-> 0, id |-> None]

Row == [by: Host, age: 0..LockTTL, id: LockId]

\* "granted" and "contended": the server has answered, the daemon has not
\* seen the answer yet.
Phase == {"idle", "trying", "acquiring", "granted", "contended", "holding", "releasing"}

\* `live`: the caller still waits for the answer.
Acquire == [asg: Assignment, live: BOOLEAN]

Release == [host: Host, key: Key, id: LockId \cup {None}, live: BOOLEAN]

AcquireMsg(a, waited) == [asg |-> a, live |-> waited]

ReleaseMsg(h, k, i, waited) == [host |-> h, key |-> k, id |-> i, live |-> waited]

Held(k) == folderLocks[k] # NoRow

Expired(row) == row.age = LockTTL

\* A run that has been granted its lock and has not finished its transfer.
InTransfer(a) == phase[a] \in {"granted", "holding"}

\* Ids no row, run or request mentions.
FreshIds ==
    {i \in LockId :
        /\ \A k \in Key : folderLocks[k].id # i
        /\ \A a \in Assignment : lockId[a] # i
        /\ \A m \in releases : m.id # i}

TypeOK ==
    /\ folderLocks \in [Key -> Row \cup {NoRow}]
    /\ dbKey \in [Assignment -> Key]
    /\ edits \in 0..MaxEdits
    /\ exposed \subseteq Assignment
    /\ cfgKey \in [Assignment -> Key]
    /\ daemon \in [Host -> {"down", "booting", "up"}]
    /\ activeLocks \in [Host -> SUBSET Key]
    /\ switching \subseteq Switchable
    /\ phase \in [Assignment -> Phase]
    /\ tries \in [Assignment -> 0..MaxAttempts]
    /\ runKey \in [Assignment -> Key]
    /\ lockId \in [Assignment -> LockId \cup {None}]
    /\ aborted \in [Assignment -> BOOLEAN]
    /\ acquires \subseteq Acquire
    /\ releases \subseteq Release
    /\ keyless \subseteq Switchable

Init ==
    /\ folderLocks = [k \in Key |-> NoRow]
    /\ dbKey = AssignedKey
    /\ edits = 0
    /\ exposed = {}
    /\ cfgKey = AssignedKey
    /\ daemon = [h \in Host |-> "down"]
    /\ activeLocks = [h \in Host |-> {}]
    /\ switching = {}
    /\ phase = [a \in Assignment |-> "idle"]
    /\ tries = [a \in Assignment |-> 0]
    /\ runKey = AssignedKey
    /\ lockId = [a \in Assignment |-> None]
    /\ aborted = [a \in Assignment |-> FALSE]
    /\ acquires = {}
    /\ releases = {}
    /\ keyless = {}

-----------------------------------------------------------------------------
(* The daemon: acquiring                                                   *)

\* runOnce enters runLocked: the destination comes from the cached config.
StartRun(a) ==
    /\ daemon[HostOf[a]] = "up"
    /\ phase[a] = "idle"
    /\ phase' = [phase EXCEPT ![a] = "trying"]
    /\ runKey' = [runKey EXCEPT ![a] = cfgKey[a]]
    /\ UNCHANGED <<server, client, tries, lockId, aborted, net>>

\* The n-th attempt failed: sleep and try again, or report "deferred".
FailedAttempt(a, n) ==
    LET again == n < MaxAttempts IN
    /\ phase' = [phase EXCEPT ![a] = IF again THEN "trying" ELSE "idle"]
    /\ tries' = [tries EXCEPT ![a] = IF again THEN n ELSE 0]

\* acquireLock up to its first await: the in-process guard, then the request.
AcquireAttempt(a) ==
    /\ phase[a] = "trying"
    /\ \/ /\ runKey[a] \in activeLocks[HostOf[a]]
          /\ FailedAttempt(a, tries[a] + 1)
          /\ UNCHANGED acquires
       \/ /\ runKey[a] \notin activeLocks[HostOf[a]]
          /\ phase' = [phase EXCEPT ![a] = "acquiring"]
          /\ tries' = [tries EXCEPT ![a] = @ + 1]
          /\ acquires' = acquires \cup {AcquireMsg(a, TRUE)}
    /\ UNCHANGED <<server, client, runKey, lockId, aborted, releases, keyless>>

\* acquireLock resumes: the handle is registered under the client's own key.
AcquireGranted(a) ==
    /\ phase[a] = "granted"
    /\ phase' = [phase EXCEPT ![a] = "holding"]
    /\ tries' = [tries EXCEPT ![a] = 0]
    /\ activeLocks' = [activeLocks EXCEPT ![HostOf[a]] = @ \cup {runKey[a]}]
    /\ UNCHANGED <<server, cfgKey, daemon, switching, runKey, lockId, aborted, net>>

AcquireContended(a) ==
    /\ phase[a] = "contended"
    /\ FailedAttempt(a, tries[a])
    /\ UNCHANGED <<server, client, runKey, lockId, aborted, net>>

\* The server is out of reach or its answer is lost: "unreachable".  The
\* request itself is dropped or stays in flight with nobody waiting for it.
AcquireTimeout(a) ==
    /\ phase[a] \in {"acquiring", "granted", "contended"}
    /\ FailedAttempt(a, tries[a])
    /\ lockId' = [lockId EXCEPT ![a] = None]
    /\ \/ acquires' = acquires \ {AcquireMsg(a, TRUE)}
       \/ /\ AcquireMsg(a, TRUE) \in acquires
          /\ acquires' = (acquires \ {AcquireMsg(a, TRUE)})
                            \cup {AcquireMsg(a, FALSE)}
    /\ exposed' = exposed \ {a}
    /\ UNCHANGED <<folderLocks, dbKey, edits, client, runKey, aborted, releases, keyless>>

-----------------------------------------------------------------------------
(* The server                                                              *)

\* Mutant of Blocks: the owner is not compared.
BlocksNever(row, h) == FALSE

\* The row stands in the way of another host: 409 folder_locked.
Blocks(row, h) == row # NoRow /\ row.by # h /\ ~Expired(row)

NewId == CHOOSE i \in FreshIds : TRUE

\* INSERT OR REPLACE: a's host gets the row of the server's own key for a.
Grant(a) ==
    /\ ~Blocks(folderLocks[dbKey[a]], HostOf[a])
    /\ FreshIds # {}
    /\ folderLocks' = [folderLocks EXCEPT ![dbKey[a]] =
                          [by |-> HostOf[a], age |-> 0, id |-> NewId]]

\* POST /operations/acquire.  A run whose destination was edited after its
\* config was cached is given the row of another key.
ServeAcquire(m) ==
    LET a == m.asg IN
    /\ acquires' = acquires \ {m}
    /\ \/ /\ Blocks(folderLocks[dbKey[a]], HostOf[a])
          /\ phase' = IF m.live THEN [phase EXCEPT ![a] = "contended"] ELSE phase
          /\ UNCHANGED <<folderLocks, lockId, exposed>>
       \/ /\ Grant(a)
          /\ phase' = IF m.live THEN [phase EXCEPT ![a] = "granted"] ELSE phase
          /\ lockId' = IF m.live THEN [lockId EXCEPT ![a] = NewId] ELSE lockId
          /\ exposed' = exposed \cup {b \in {a} : m.live /\ dbKey[b] # runKey[b]}
    /\ UNCHANGED <<dbKey, edits, client, tries, runKey, aborted, releases, keyless>>

\* Mutant of Owns: the lock id is not compared.
OwnsByHost(row, h, i) == row # NoRow /\ row.by = h

\* The row is the caller's: same host and, when a lock id is given, same id.
Owns(row, h, i) == row # NoRow /\ row.by = h /\ (i = None \/ i = row.id)

\* The transfers of host h into k.
TransfersInto(h, k) == {a \in Assignment : InTransfer(a) /\ HostOf[a] = h /\ runKey[a] = k}

\* POST /operations/release.  It may free the row of a transfer it was not
\* meant for: without an id, or when the host's later acquire replaced the id.
ServeRelease(m) ==
    /\ releases' = releases \ {m}
    /\ folderLocks' = IF Owns(folderLocks[m.key], m.host, m.id)
                      THEN [folderLocks EXCEPT ![m.key] = NoRow] ELSE folderLocks
    /\ exposed' = exposed \cup
          {a \in TransfersInto(m.host, m.key) :
              IF m.id = None THEN ~m.live ELSE lockId[a] # m.id /\ folderLocks[m.key].id = m.id}
    /\ UNCHANGED <<dbKey, edits, client, runs, acquires, keyless>>

\* Mutant of Stale: strictly past the TTL, which no capped age ever is.
StaleStrict(row) == row # NoRow /\ row.age > LockTTL

\* Rows the reaper's WHERE clause selects: locked_at + lock_ttl * 1000 <= now.
Stale(row) == row # NoRow /\ Expired(row)

\* reapExpiredFolderLocks: startup hook and periodic timer.
ReapExpired ==
    /\ \E k \in Key : Stale(folderLocks[k])
    /\ folderLocks' = [k \in Key |-> IF Stale(folderLocks[k]) THEN NoRow ELSE folderLocks[k]]
    /\ UNCHANGED <<dbKey, edits, exposed, client, runs, net>>

\* An operator gives the assignment another destination.
EditDestination(a, k) ==
    /\ edits < MaxEdits
    /\ k # dbKey[a]
    /\ dbKey' = [dbKey EXCEPT ![a] = k]
    /\ edits' = edits + 1
    /\ UNCHANGED <<folderLocks, exposed, client, runs, net>>

-----------------------------------------------------------------------------
(* The daemon: holding and releasing                                       *)

\* Mutant of Renewable: a lost lock is reported as renewed.
RenewableAlways(row, h, i) == row # NoRow

\* POST /operations/heartbeat answers ok, rather than 404 or 409.
Renewable(row, h, i) == Owns(row, h, i) /\ ~Expired(row)

\* The 30 s heartbeat of a run that holds a handle, answered by the server
\* under the client's key.  A lost answer ("unknown") changes nothing.
Heartbeat(a) ==
    LET k == runKey[a] IN
    /\ phase[a] \in {"holding", "releasing"}
    /\ \/ /\ Renewable(folderLocks[k], HostOf[a], lockId[a])
          /\ folderLocks' = [folderLocks EXCEPT ![k].age = 0]
          /\ UNCHANGED aborted
       \/ /\ ~Renewable(folderLocks[k], HostOf[a], lockId[a])
          /\ aborted' = [aborted EXCEPT ![a] = TRUE]
          /\ UNCHANGED folderLocks
    /\ UNCHANGED <<dbKey, edits, exposed, client, phase, tries, runKey, lockId, net>>

ReleaseOf(a, waited) == ReleaseMsg(HostOf[a], runKey[a], lockId[a], waited)

\* executeAssignment returns (finished, failed, timed out or aborted), or
\* throws; either way releaseLock sends the handle back.
EndTransfer(a) ==
    /\ phase[a] = "holding"
    /\ phase' = [phase EXCEPT ![a] = "releasing"]
    /\ releases' = releases \cup {ReleaseOf(a, TRUE)}
    /\ exposed' = exposed \ {a}
    /\ UNCHANGED <<folderLocks, dbKey, edits, client, tries, runKey, lockId, aborted, acquires, keyless>>

\* releaseLock's `finally`: the guard is cleared whatever the server said.
ReleaseReturns(a) ==
    /\ phase[a] = "releasing"
    /\ phase' = [phase EXCEPT ![a] = "idle"]
    /\ lockId' = [lockId EXCEPT ![a] = None]
    /\ aborted' = [aborted EXCEPT ![a] = FALSE]
    /\ activeLocks' = [activeLocks EXCEPT ![HostOf[a]] = @ \ {runKey[a]}]
    /\ \/ releases' = releases \ {ReleaseOf(a, TRUE)}
       \/ /\ ReleaseOf(a, TRUE) \in releases
          /\ releases' = (releases \ {ReleaseOf(a, TRUE)}) \cup {ReleaseOf(a, FALSE)}
    /\ UNCHANGED <<server, cfgKey, daemon, switching, tries, runKey, acquires, keyless>>

-----------------------------------------------------------------------------
(* The daemon: a switch between sync and mount                             *)

\* switchToMount or switchToSync asks for the lock once, under its folder's
\* own guard, which no run looks at.  The answer may be lost.
SwitchLocks(a) ==
    /\ daemon[HostOf[a]] = "up"
    /\ a \in Switchable \ switching
    /\ \/ Grant(a) /\ switching' = switching \cup {a} /\ UNCHANGED acquires
       \/ /\ acquires' = acquires \cup {AcquireMsg(a, FALSE)}
          /\ UNCHANGED <<folderLocks, switching>>
    /\ UNCHANGED <<dbKey, edits, exposed, cfgKey, daemon, activeLocks, runs, releases, keyless>>

\* It is done or has failed, and releases the folder, naming no id and no key.
SwitchReleases(a) ==
    /\ a \in switching
    /\ switching' = switching \ {a}
    /\ keyless' \in {keyless, keyless \cup {a}}
    /\ UNCHANGED <<server, cfgKey, daemon, activeLocks, runs, acquires, releases>>

\* POST /operations/release of a switch: the key is the server's own.
ServeSwitchRelease(a) ==
    LET k == dbKey[a] IN
    /\ keyless' = keyless \ {a}
    /\ folderLocks' = IF Owns(folderLocks[k], HostOf[a], None)
                      THEN [folderLocks EXCEPT ![k] = NoRow] ELSE folderLocks
    /\ exposed' = exposed \cup TransfersInto(HostOf[a], k)
    /\ UNCHANGED <<dbKey, edits, client, runs, acquires, releases>>

-----------------------------------------------------------------------------
(* The daemon: crash, boot and config                                      *)

\* Requests of host h nobody waits for any more stay in flight, unattended,
\* or are dropped.
AbandonReleases(h) ==
    LET mine == {m \in releases : m.host = h /\ m.live}
    IN  \/ releases' = releases \ mine
        \/ /\ mine # {}
           /\ releases' = (releases \ mine) \cup
                {ReleaseMsg(h, m.key, m.id, FALSE) : m \in mine}

AbandonAcquires(h) ==
    LET mine == {m \in acquires : HostOf[m.asg] = h /\ m.live}
    IN  \/ acquires' = acquires \ mine
        \/ /\ mine # {}
           /\ acquires' = (acquires \ mine) \cup {AcquireMsg(m.asg, FALSE) : m \in mine}

\* The process dies with its runs and their rclone children.
Crash(h) ==
    /\ daemon[h] # "down"
    /\ daemon' = [daemon EXCEPT ![h] = "down"]
    /\ activeLocks' = [activeLocks EXCEPT ![h] = {}]
    /\ phase' = [a \in Assignment |-> IF HostOf[a] = h THEN "idle" ELSE phase[a]]
    /\ tries' = [a \in Assignment |-> IF HostOf[a] = h THEN 0 ELSE tries[a]]
    /\ lockId' = [a \in Assignment |-> IF HostOf[a] = h THEN None ELSE lockId[a]]
    /\ aborted' = [a \in Assignment |-> HostOf[a] # h /\ aborted[a]]
    /\ AbandonAcquires(h)
    /\ AbandonReleases(h)
    /\ switching' = {a \in switching : HostOf[a] # h}
    /\ exposed' = {a \in exposed : HostOf[a] # h}
    /\ UNCHANGED <<folderLocks, dbKey, edits, cfgKey, runKey, keyless>>

\* releaseStaleLocks: list this host's locks and release each without an id.
ReleaseStaleLocks(h) ==
    /\ daemon[h] = "down"
    /\ daemon' = [daemon EXCEPT ![h] = "booting"]
    /\ releases' = releases \cup
          {ReleaseMsg(h, k, None, TRUE) : k \in {j \in Key : folderLocks[j].by = h}}
    /\ UNCHANGED <<server, cfgKey, activeLocks, switching, runs, acquires, keyless>>

\* The listing failed; the error is logged and boot goes on.
StaleRecoveryFails(h) ==
    /\ daemon[h] = "down"
    /\ daemon' = [daemon EXCEPT ![h] = "up"]
    /\ UNCHANGED <<server, cfgKey, activeLocks, switching, runs, net>>

\* Every stale release was answered or timed out: the scheduler starts.
BootDone(h) ==
    /\ daemon[h] = "booting"
    /\ daemon' = [daemon EXCEPT ![h] = "up"]
    /\ AbandonReleases(h)
    /\ UNCHANGED <<server, cfgKey, activeLocks, switching, runs, acquires, keyless>>

\* refreshConfig replaces the whole cached host config.
RefreshConfig(h) ==
    /\ daemon[h] = "up"
    /\ \E a \in Assignment : HostOf[a] = h /\ cfgKey[a] # dbKey[a]
    /\ cfgKey' = [a \in Assignment |-> IF HostOf[a] = h THEN dbKey[a] ELSE cfgKey[a]]
    /\ UNCHANGED <<server, daemon, activeLocks, switching, runs, net>>

\* Time passes.  The heartbeat interval is a fortieth of the TTL; a row
\* expires under its transfer when none of them arrived.
Tick ==
    /\ \E k \in Key : Held(k) /\ ~Expired(folderLocks[k])
    /\ folderLocks' = [k \in Key |->
          IF Held(k) /\ ~Expired(folderLocks[k])
          THEN [folderLocks[k] EXCEPT !.age = @ + 1] ELSE folderLocks[k]]
    /\ exposed' = exposed \cup {a \in Assignment :
          /\ folderLocks[runKey[a]].age + 1 = LockTTL
          /\ a \in TransfersInto(folderLocks[runKey[a]].by, runKey[a])}
    /\ UNCHANGED <<dbKey, edits, client, runs, net>>

-----------------------------------------------------------------------------
\* The run itself, which goes on once started: one of these per phase.
RunStep(a) ==
    \/ AcquireAttempt(a)
    \/ AcquireGranted(a)
    \/ AcquireContended(a)
    \/ AcquireTimeout(a)
    \/ EndTransfer(a)
    \/ ReleaseReturns(a)

RunNext(a) ==
    \/ StartRun(a)
    \/ RunStep(a)
    \/ Heartbeat(a)
    \/ SwitchLocks(a)
    \/ SwitchReleases(a)
    \/ \E k \in Key : EditDestination(a, k)

HostNext(h) ==
    \/ Crash(h)
    \/ ReleaseStaleLocks(h)
    \/ StaleRecoveryFails(h)
    \/ BootDone(h)
    \/ RefreshConfig(h)

ServeRequest ==
    \/ \E m \in acquires : ServeAcquire(m)
    \/ \E m \in releases : ServeRelease(m)
    \/ \E a \in keyless : ServeSwitchRelease(a)

Next ==
    \/ \E a \in Assignment : RunNext(a)
    \/ \E h \in Host : HostNext(h)
    \/ ServeRequest
    \/ ReapExpired
    \/ Tick

Spec == Init /\ [][Next]_vars

\* What keeps running: the daemon's event loop with its API timeout, its
\* heartbeat timer, the server, the reaper's timer, the clock.  A transfer
\* must end only once it is aborted; crashes, boots, new runs and edits need
\* not happen.
Fairness ==
    /\ \A a \in Assignment :
        /\ WF_vars(RunStep(a) /\ (phase[a] = "holding" => aborted[a]))
        /\ WF_vars(Heartbeat(a))
    /\ \A h \in Host : WF_vars(BootDone(h))
    /\ WF_vars(ServeRequest)
    /\ WF_vars(ReapExpired)
    /\ WF_vars(Tick)

FairSpec == Spec /\ Fairness

-----------------------------------------------------------------------------
(* Correctness                                                             *)

\* Two hosts transfer into one destination at the same time only if one of the
\* runs is exposed: no heartbeat of it arrived for a whole TTL, its destination
\* was edited after its config was cached, a release without an id (a boot's or
\* a switch's) reached its row, or another run of its host, whose acquire had
\* replaced the row's id, released it.  No other order of acquires and releases,
\* of finished, abandoned and crashed runs as well, lets them overlap (acquire,
\* heartbeat and release in routes/operations.ts, lock.ts).
CrossHostExclusion ==
    \A a, b \in Assignment :
        /\ HostOf[a] # HostOf[b]
        /\ runKey[a] = runKey[b]
        /\ InTransfer(a)
        /\ InTransfer(b)
        => exposed \cap {a, b} # {}

\* An unexpired row passes from one host to another only through its release:
\* no acquire takes it over (the 409 branch of /operations/acquire).
LiveLockNotStolen ==
    [][\A k \in Key :
        Held(k) /\ ~Expired(folderLocks[k])
            => folderLocks'[k].by \in {folderLocks[k].by, None}]_vars

\* The step serves a release without an id of host h for k: one its boot has
\* given up, or one of a mode switch.
ServesIdless(h, k) ==
    \/ ReleaseMsg(h, k, None, FALSE) \in releases \ releases'
    \/ \E a \in keyless \ keyless' : HostOf[a] = h /\ dbKey[a] = k

\* While a run transfers under its own lock id, no release sent earlier, by a
\* finished run or by the process before a crash, takes the row from its host
\* (the lock_id_mismatch branch of /operations/release), unless it names no id.
TransferKeepsRow ==
    [][\A a \in Assignment :
        LET k == runKey[a] IN
        /\ InTransfer(a)
        /\ InTransfer(a)'
        /\ folderLocks[k].id = lockId[a]
        /\ ~Expired(folderLocks[k])
        => folderLocks'[k].by = HostOf[a] \/ ServesIdless(HostOf[a], k)]_vars

\* Nobody loses a live row to another host, neither to an acquire nor to a
\* late release or a renewal of an earlier holder.
LockKept == LiveLockNotStolen /\ TransferKeepsRow

\* Row i of destination k is no run's: its holder crashed, or gave up the
\* acquire it was granted for, or is a switch, which sends no heartbeats.
Orphaned(k, i) == folderLocks[k].id = i /\ \A a \in Assignment : lockId[a] # i

\* An orphaned row does not block its destination for ever: it is released,
\* taken over or reaped (reapExpiredFolderLocks, acquire, releaseStaleLocks).
OrphanFreed ==
    \A k \in Key, i \in LockId : Orphaned(k, i) ~> folderLocks[k].id # i

\* A run whose row is not its own does not go on: its next heartbeat aborts
\* it.  It got there because its heartbeats were lost for a whole TTL, so that
\* two hosts hold the destination, or because the destination was edited after
\* its config was cached (heartbeatLock, the heartbeat timer of runLocked).
MisdirectedRunEnds ==
    \A a \in Assignment :
        LET Misdirected == /\ phase[a] = "holding"
                           /\ folderLocks[runKey[a]].id # lockId[a]
        IN  Misdirected ~> ~Misdirected
=============================================================================
