--------------------------- MODULE TransfersProofs ---------------------------
(***************************************************************************)
(* What TLAPS proves of the protocols that move the files of a folder, for *)
(* every value of their constants.  Of the destination lock: types, that   *)
(* nobody loses a live row, and cross-host exclusion.  Of the archive of a *)
(* seed: what is published is a snapshot of the source, a completed seed   *)
(* is settled, and no file of the target's users is lost.  Of bisync runs: *)
(* listings made under some rules are never used under other ones, unless  *)
(* either set is empty, what is acknowledged is what was listed, and a run *)
(* that takes this host as the authority never replaces its file.          *)
(***************************************************************************)
EXTENDS MCTransfers, TLAPS

-----------------------------------------------------------------------------
(* The protocols side by side                                              *)

\* Whichever protocol runs, each one's variables follow its specification.
LEMMA SeedRuns == TransfersSpec => Seed!Spec
<1>1. TransfersInit => Seed!Init
    BY DEF TransfersInit
<1>2. archiveVars' = archiveVars => UNCHANGED Seed!vars
    BY DEF archiveVars, Seed!vars, Seed!job, Seed!sourceSide, Seed!targetSide, Seed!work, Seed!disk
<1>3. [LockStep \/ ArchiveStep \/ BaselineStep]_transferVars => [Seed!Next]_(Seed!vars)
    BY <1>2 DEF LockStep, ArchiveStep, BaselineStep, transferVars
<1> QED
    BY <1>1, <1>3, PTL DEF TransfersSpec, Seed!Spec

LEMMA SyncRuns == TransfersSpec => Sync!Spec
<1>1. TransfersInit => Sync!Init
    BY DEF TransfersInit
<1>2. baselineVars' = baselineVars => UNCHANGED Sync!vars
    BY DEF baselineVars, Sync!vars
<1>3. [LockStep \/ ArchiveStep \/ BaselineStep]_transferVars => [Sync!Next]_(Sync!vars)
    BY <1>2 DEF LockStep, ArchiveStep, BaselineStep, transferVars
<1> QED
    BY <1>1, <1>3, PTL DEF TransfersSpec, Sync!Spec

-----------------------------------------------------------------------------
(* The destination lock                                                    *)

\* A run has attempts left whenever it may start one.
AttemptsLeft ==
    \A a \in Assignment :
        phase[a] \notin {"acquiring", "granted", "contended"} => tries[a] < MaxAttempts

TypeInv == TypeOK /\ AttemptsLeft

\* A failed attempt keeps the attempt counter of every run in bounds.
LEMMA FailedAttemptType ==
    ASSUME TypeInv, NEW a \in Assignment, NEW n \in 0..MaxAttempts, FailedAttempt(a, n)
    PROVE  /\ phase' \in [Assignment -> Phase]
           /\ tries' \in [Assignment -> 0..MaxAttempts]
           /\ AttemptsLeft'
  BY ConstantsAssumption DEF TypeInv, TypeOK, AttemptsLeft, FailedAttempt, Phase

\* The requests the daemons send are requests.
LEMMA MessageTypes ==
    /\ \A a \in Assignment, l \in BOOLEAN : AcquireMsg(a, l) \in Acquire
    /\ \A h \in Host, k \in Key, i \in LockId \cup {None}, l \in BOOLEAN :
            ReleaseMsg(h, k, i, l) \in Release
  BY DEF Acquire, Release, AcquireMsg, ReleaseMsg

\* So is everything in flight after a step that sends or abandons requests.
LEMMA InFlightTypes ==
    ASSUME acquires \subseteq Acquire, releases \subseteq Release
    PROVE  /\ \A h \in Host : AbandonAcquires(h) => acquires' \subseteq Acquire
           /\ \A h \in Host : AbandonReleases(h) => releases' \subseteq Release
           /\ \A h \in Host : ReleaseStaleLocks(h) => releases' \subseteq Release
<1>1. \A m \in acquires : AcquireMsg(m.asg, FALSE) \in Acquire
    BY MessageTypes DEF Acquire
<1>2. \A m \in releases : m.key \in Key /\ m.id \in LockId \cup {None}
    BY DEF Release
<1>3. \A h \in Host : \A m \in releases : ReleaseMsg(h, m.key, m.id, FALSE) \in Release
    BY <1>2, MessageTypes
<1>4. \A h \in Host, k \in Key : ReleaseMsg(h, k, None, TRUE) \in Release
    BY MessageTypes
<1>5. ASSUME NEW h \in Host, AbandonAcquires(h), NEW x \in acquires' PROVE x \in Acquire
    <2>1. x \in acquires \/ \E m \in acquires : x = AcquireMsg(m.asg, FALSE)
        BY <1>5 DEF AbandonAcquires
    <2> QED BY <1>1, <2>1
<1>6. ASSUME NEW h \in Host, AbandonReleases(h), NEW x \in releases' PROVE x \in Release
    <2>1. x \in releases \/ \E m \in releases : x = ReleaseMsg(h, m.key, m.id, FALSE)
        BY <1>6 DEF AbandonReleases
    <2> QED BY <1>3, <2>1
<1>7. ASSUME NEW h \in Host, ReleaseStaleLocks(h), NEW x \in releases' PROVE x \in Release
    <2>1. x \in releases \/ \E k \in Key : x = ReleaseMsg(h, k, None, TRUE)
        BY <1>7 DEF ReleaseStaleLocks
    <2> QED BY <1>4, <2>1
<1> QED BY <1>5, <1>6, <1>7

LEMMA ReleaseOfType ==
    ASSUME TypeInv, NEW a \in Assignment
    PROVE  ReleaseOf(a, TRUE) \in Release /\ ReleaseOf(a, FALSE) \in Release
<1>1. HostOf[a] \in Host /\ runKey[a] \in Key /\ lockId[a] \in LockId \cup {None}
    BY ConstantsAssumption DEF TypeInv, TypeOK
<1> QED BY <1>1, MessageTypes DEF ReleaseOf

\* Rows stay rows as they get older and when they are renewed.
LEMMA RowAges ==
    ASSUME NEW r \in Row
    PROVE  /\ r.age # LockTTL => [r EXCEPT !.age = @ + 1] \in Row
           /\ [r EXCEPT !.age = 0] \in Row
  BY ConstantsAssumption DEF Row

\* A grant writes a row.
LEMMA GrantType ==
    ASSUME TypeOK, NEW a \in Assignment, Grant(a)
    PROVE  NewId \in LockId /\ folderLocks' \in [Key -> Row \cup {NoRow}]
<1>1. HostOf[a] \in Host /\ dbKey[a] \in Key
    BY ConstantsAssumption DEF TypeOK
<1>2. NewId \in LockId
    BY DEF Grant, NewId, FreshIds
<1>3. [by |-> HostOf[a], age |-> 0, id |-> NewId] \in Row
    BY <1>1, <1>2, ConstantsAssumption DEF Row
<1> QED BY <1>1, <1>2, <1>3 DEF Grant, TypeOK

LEMMA TypeInit == Init => TypeInv
  BY ConstantsAssumption DEF Init, TypeInv, TypeOK, AttemptsLeft, Phase

LEMMA TypeNext == TypeInv /\ [Next]_vars => TypeInv'
<1> SUFFICES ASSUME TypeInv, [Next]_vars PROVE TypeInv'
    OBVIOUS
<1> USE ConstantsAssumption DEF TypeInv, TypeOK, AttemptsLeft, server, client, runs, net
<1>1. ASSUME NEW a \in Assignment, StartRun(a) PROVE TypeInv'
    BY <1>1 DEF StartRun, Phase
<1>2. ASSUME NEW a \in Assignment, AcquireAttempt(a) PROVE TypeInv'
    <2>1. CASE FailedAttempt(a, tries[a] + 1) /\ UNCHANGED acquires
        BY <1>2, <2>1, FailedAttemptType DEF AcquireAttempt
    <2>2. CASE /\ phase' = [phase EXCEPT ![a] = "acquiring"]
               /\ tries' = [tries EXCEPT ![a] = @ + 1]
               /\ acquires' = acquires \cup {AcquireMsg(a, TRUE)}
        <3>1. acquires' \subseteq Acquire
            BY <2>2, MessageTypes
        <3>2. tries[a] < MaxAttempts
            BY <1>2 DEF AcquireAttempt
        <3>3. /\ phase' \in [Assignment -> Phase]
              /\ tries' \in [Assignment -> 0..MaxAttempts]
              /\ AttemptsLeft'
            BY <2>2, <3>2 DEF Phase
        <3> QED BY <1>2, <3>1, <3>3 DEF AcquireAttempt
    <2> QED BY <1>2, <2>1, <2>2 DEF AcquireAttempt
<1>3. ASSUME NEW a \in Assignment, AcquireGranted(a) PROVE TypeInv'
    BY <1>3 DEF AcquireGranted, Phase
<1>4. ASSUME NEW a \in Assignment, AcquireContended(a) PROVE TypeInv'
    BY <1>4, FailedAttemptType DEF AcquireContended
<1>5. ASSUME NEW a \in Assignment, AcquireTimeout(a) PROVE TypeInv'
    BY <1>5, FailedAttemptType, MessageTypes DEF AcquireTimeout
<1>6. ASSUME NEW m \in acquires, ServeAcquire(m) PROVE TypeInv'
    <2>1. m.asg \in Assignment
        BY DEF Acquire
    <2>2. folderLocks' \in [Key -> Row \cup {NoRow}]
        BY <1>6, <2>1, GrantType DEF ServeAcquire
    <2>3. lockId' \in [Assignment -> LockId \cup {None}]
        BY <1>6, <2>1, GrantType DEF ServeAcquire
    <2>4. phase' \in [Assignment -> Phase] /\ AttemptsLeft'
        BY <1>6, <2>1 DEF ServeAcquire, Phase
    <2>5. exposed' \subseteq Assignment
        BY <1>6, <2>1 DEF ServeAcquire
    <2> QED BY <1>6, <2>2, <2>3, <2>4, <2>5 DEF ServeAcquire
<1>7. ASSUME NEW m \in releases, ServeRelease(m) PROVE TypeInv'
    BY <1>7 DEF ServeRelease, Release, TransfersInto
<1>8. CASE ReapExpired
    BY <1>8 DEF ReapExpired
<1>9. ASSUME NEW a \in Assignment, NEW k \in Key, EditDestination(a, k) PROVE TypeInv'
    BY <1>9 DEF EditDestination
<1>10. ASSUME NEW a \in Assignment, Heartbeat(a) PROVE TypeInv'
    <2>1. [folderLocks EXCEPT ![runKey[a]].age = 0] \in [Key -> Row \cup {NoRow}]
        BY DEF Row, NoRow
    <2>2. folderLocks' \in [Key -> Row \cup {NoRow}]
        BY <1>10, <2>1 DEF Heartbeat
    <2>3. aborted' \in [Assignment -> BOOLEAN]
        BY <1>10 DEF Heartbeat
    <2> QED BY <1>10, <2>2, <2>3 DEF Heartbeat
<1>11. ASSUME NEW a \in Assignment, EndTransfer(a) PROVE TypeInv'
    <2>1. releases' \subseteq Release
        BY <1>11, ReleaseOfType DEF EndTransfer
    <2>2. phase' \in [Assignment -> Phase] /\ AttemptsLeft'
        BY <1>11 DEF EndTransfer, Phase
    <2> QED BY <1>11, <2>1, <2>2 DEF EndTransfer
<1>12. ASSUME NEW a \in Assignment, ReleaseReturns(a) PROVE TypeInv'
    <2>1. releases' \subseteq Release
        <3>1. ReleaseOf(a, FALSE) \in Release
            BY ReleaseOfType
        <3>2. releases' \subseteq releases \cup {ReleaseOf(a, FALSE)}
            BY <1>12 DEF ReleaseReturns
        <3> QED BY <3>1, <3>2
    <2>2. phase' \in [Assignment -> Phase] /\ AttemptsLeft'
        BY <1>12 DEF ReleaseReturns, Phase
    <2> QED BY <1>12, <2>1, <2>2 DEF ReleaseReturns
<1>13. ASSUME NEW h \in Host, Crash(h) PROVE TypeInv'
    <2>1. acquires' \subseteq Acquire /\ releases' \subseteq Release
        BY <1>13, InFlightTypes DEF Crash
    <2>2. phase' \in [Assignment -> Phase] /\ AttemptsLeft'
        BY <1>13 DEF Crash, Phase
    <2>3. tries' \in [Assignment -> 0..MaxAttempts]
        BY <1>13 DEF Crash
    <2> QED BY <1>13, <2>1, <2>2, <2>3 DEF Crash
<1>14. ASSUME NEW h \in Host, ReleaseStaleLocks(h) PROVE TypeInv'
    <2>1. releases' \subseteq Release
        BY <1>14, InFlightTypes
    <2> QED BY <1>14, <2>1 DEF ReleaseStaleLocks
<1>15. ASSUME NEW h \in Host, StaleRecoveryFails(h) PROVE TypeInv'
    BY <1>15 DEF StaleRecoveryFails
<1>16. ASSUME NEW h \in Host, BootDone(h) PROVE TypeInv'
    BY <1>16, InFlightTypes DEF BootDone
<1>17. ASSUME NEW h \in Host, RefreshConfig(h) PROVE TypeInv'
    BY <1>17 DEF RefreshConfig
<1>18. CASE Tick
    <2>1. ASSUME NEW k \in Key, Held(k), ~Expired(folderLocks[k])
          PROVE  [folderLocks[k] EXCEPT !.age = @ + 1] \in Row
        <3>1. folderLocks[k] \in Row
            BY <2>1 DEF Held
        <3> QED BY <2>1, <3>1, RowAges DEF Expired
    <2>2. folderLocks' \in [Key -> Row \cup {NoRow}]
        BY <1>18, <2>1 DEF Tick
    <2> QED BY <1>18, <2>2 DEF Tick, TransfersInto
<1>19. CASE UNCHANGED vars
    BY <1>19 DEF vars
<1>20. ASSUME NEW a \in Assignment, SwitchLocks(a) PROVE TypeInv'
    <2>1. folderLocks' \in [Key -> Row \cup {NoRow}]
        BY <1>20, GrantType DEF SwitchLocks
    <2>2. acquires' \subseteq Acquire /\ switching' \subseteq Switchable
        BY <1>20, MessageTypes DEF SwitchLocks
    <2> QED BY <1>20, <2>1, <2>2 DEF SwitchLocks
<1>21. ASSUME NEW a \in Assignment, SwitchReleases(a) PROVE TypeInv'
    BY <1>21 DEF SwitchReleases
<1>22. ASSUME NEW a \in keyless, ServeSwitchRelease(a) PROVE TypeInv'
    BY <1>22 DEF ServeSwitchRelease, TransfersInto
<1> QED
    BY <1>1, <1>2, <1>3, <1>4, <1>5, <1>6, <1>7, <1>8, <1>9, <1>10, <1>11, <1>12,
       <1>13, <1>14, <1>15, <1>16, <1>17, <1>18, <1>19, <1>20, <1>21, <1>22
    DEF Next, RunNext, RunStep, HostNext, ServeRequest

\* The lock table, the cached configuration, the runs and the requests in
\* flight keep their types, and a run never exceeds maxAttempts
\* (acquireLockWithRetry).
THEOREM TypeCorrect == Spec => []TypeOK
<1>1. TypeInv => TypeOK
    BY DEF TypeInv
<1> QED
    BY <1>1, TypeInit, TypeNext, PTL DEF Spec
-----------------------------------------------------------------------------
(***************************************************************************)
(* Runs and their requests.  Both results below rest on what requests may  *)
(* be in flight for a run in a given phase.                                *)
(***************************************************************************)

\* Only an acquiring run waits for the answer to an acquire.
Waiting == \A m \in acquires : m.live => phase[m.asg] = "acquiring"

\* Runs exist only in a daemon that is up.
RunsNeedDaemon == \A a \in Assignment : daemon[HostOf[a]] # "up" => phase[a] = "idle"

\* A daemon waits for a release without a lock id only while it boots.
StaleReleases ==
    \A m \in releases : m.id = None /\ m.live => daemon[m.host] = "booting"

\* A run in transfer has a lock id to release with.
Handles == \A a \in Assignment : InTransfer(a) => lockId[a] # None

RunInv == TypeInv /\ Waiting /\ RunsNeedDaemon /\ StaleReleases /\ Handles

\* A waited-for acquire is determined by its run.
LEMMA LiveAcquire ==
    ASSUME TypeInv, NEW m \in acquires, m.live
    PROVE  m.asg \in Assignment /\ m = AcquireMsg(m.asg, TRUE)
<1>1. m \in Acquire
    BY DEF TypeInv, TypeOK
<1> QED BY <1>1 DEF Acquire, AcquireMsg

\* Requests a daemon leaves behind are its own and keep their id.
LEMMA AbandonedReleases ==
    ASSUME NEW h \in Host, AbandonReleases(h), NEW x \in releases'
    PROVE  /\ x \in releases => ~(x.host = h /\ x.live)
           /\ x \notin releases =>
                /\ x.host = h /\ ~x.live
                /\ \E m \in releases : m.id = x.id
  BY DEF AbandonReleases, ReleaseMsg

\* What a run's own release says.
LEMMA ReleaseOfFields ==
    ASSUME NEW a, NEW w
    PROVE  /\ ReleaseOf(a, w).host = HostOf[a]
           /\ ReleaseOf(a, w).key = runKey[a]
           /\ ReleaseOf(a, w).id = lockId[a]
  BY DEF ReleaseOf, ReleaseMsg

LEMMA RunsInit == Init => RunInv
  BY TypeInit DEF Init, RunInv, Waiting, RunsNeedDaemon, StaleReleases, Handles, InTransfer

LEMMA RunsNext ==
    ASSUME RunInv, [Next]_vars
    PROVE  RunInv'
<1>0. TypeInv /\ TypeInv'
    BY TypeNext DEF RunInv
<1> USE DEF server, client, runs, net
<1> DEFINE Rest == Waiting /\ RunsNeedDaemon /\ StaleReleases /\ Handles
<1> SUFFICES Rest'
    BY <1>0 DEF RunInv
<1>1. ASSUME NEW a \in Assignment, StartRun(a) PROVE Rest'
    BY <1>0, <1>1 DEF RunInv, TypeInv, TypeOK, StartRun, Acquire, Waiting, RunsNeedDaemon,
        StaleReleases, Handles, InTransfer
<1>2. ASSUME NEW a \in Assignment, AcquireAttempt(a) PROVE Rest'
    BY <1>0, <1>2 DEF RunInv, TypeInv, TypeOK, AcquireAttempt, FailedAttempt, AcquireMsg, Acquire,
        Waiting, RunsNeedDaemon, StaleReleases, Handles, InTransfer
<1>3. ASSUME NEW a \in Assignment, AcquireGranted(a) PROVE Rest'
    BY <1>0, <1>3 DEF RunInv, TypeInv, TypeOK, AcquireGranted, Acquire, Waiting, RunsNeedDaemon,
        StaleReleases, Handles, InTransfer
<1>4. ASSUME NEW a \in Assignment, AcquireContended(a) PROVE Rest'
    BY <1>0, <1>4 DEF RunInv, TypeInv, TypeOK, AcquireContended, FailedAttempt, Acquire, Waiting,
        RunsNeedDaemon, StaleReleases, Handles, InTransfer
<1>5. ASSUME NEW a \in Assignment, AcquireTimeout(a) PROVE Rest'
    <2>1. Waiting'
        <3> SUFFICES ASSUME NEW m \in acquires', m.live PROVE phase'[m.asg] = "acquiring"
            BY DEF Waiting
        <3>1. m \in acquires /\ m # AcquireMsg(a, TRUE)
            BY <1>5 DEF AcquireTimeout, AcquireMsg
        <3>2. m.asg \in Assignment /\ m.asg # a
            BY <1>0, <3>1, LiveAcquire
        <3>3. phase[m.asg] = "acquiring"
            BY <3>1 DEF RunInv, Waiting
        <3> QED BY <1>0, <1>5, <3>2, <3>3 DEF TypeInv, TypeOK, AcquireTimeout, FailedAttempt
    <2> QED BY <1>0, <1>5, <2>1 DEF RunInv, TypeInv, TypeOK, AcquireTimeout, FailedAttempt,
                RunsNeedDaemon, StaleReleases, Handles, InTransfer
<1>6. ASSUME NEW m \in acquires, ServeAcquire(m) PROVE Rest'
    <2> DEFINE a == m.asg
    <2>0. a \in Assignment
        BY <1>0 DEF TypeInv, TypeOK, Acquire
    <2>1. Waiting'
        <3> SUFFICES ASSUME NEW q \in acquires', q.live PROVE phase'[q.asg] = "acquiring"
            BY DEF Waiting
        <3>1. q \in acquires /\ q # m
            BY <1>6 DEF ServeAcquire
        <3>2. q.asg \in Assignment /\ (m.live => q.asg # a)
            BY <1>0, <3>1, LiveAcquire
        <3>3. phase[q.asg] = "acquiring"
            BY <3>1 DEF RunInv, Waiting
        <3> QED BY <1>0, <1>6, <3>2, <3>3 DEF TypeInv, TypeOK, ServeAcquire
    <2>2. RunsNeedDaemon'
        <3>1. m.live => phase[a] = "acquiring"
            BY DEF RunInv, Waiting
        <3> QED BY <1>0, <1>6, <2>0, <3>1 DEF RunInv, TypeInv, TypeOK, RunsNeedDaemon, ServeAcquire
    <2>3. Grant(a) => NewId # None
        BY <1>0, <2>0, GrantType, ConstantsAssumption DEF TypeInv
    <2>4. Handles'
        BY <1>0, <1>6, <2>0, <2>3 DEF RunInv, TypeInv, TypeOK, ServeAcquire, Handles, InTransfer
    <2> QED BY <1>6, <2>1, <2>2, <2>4 DEF ServeAcquire, RunInv, StaleReleases
<1>7. ASSUME NEW m \in releases, ServeRelease(m) PROVE Rest'
    BY <1>0, <1>7 DEF RunInv, ServeRelease, Waiting, RunsNeedDaemon, StaleReleases, Handles,
        InTransfer
<1>8. ASSUME ReapExpired PROVE Rest'
    BY <1>8 DEF RunInv, ReapExpired, Waiting, RunsNeedDaemon, StaleReleases, Handles, InTransfer
<1>9. ASSUME NEW a \in Assignment, NEW k \in Key, EditDestination(a, k) PROVE Rest'
    BY <1>9 DEF RunInv, EditDestination, Waiting, RunsNeedDaemon, StaleReleases, Handles, InTransfer
<1>10. ASSUME NEW a \in Assignment, Heartbeat(a) PROVE Rest'
    BY <1>10 DEF RunInv, Heartbeat, Waiting, RunsNeedDaemon, StaleReleases, Handles, InTransfer
<1>11. ASSUME NEW a \in Assignment, EndTransfer(a) PROVE Rest'
    <2>1. releases' = releases \cup {ReleaseOf(a, TRUE)} /\ lockId[a] # None
        BY <1>11 DEF EndTransfer, RunInv, Handles, InTransfer
    <2>2. StaleReleases'
        <3>1. ReleaseOf(a, TRUE).id = lockId[a]
            BY ReleaseOfFields
        <3> QED BY <1>11, <2>1, <3>1 DEF EndTransfer, RunInv, StaleReleases
    <2> QED BY <1>0, <1>11, <2>2 DEF RunInv, TypeInv, TypeOK, EndTransfer, Waiting, RunsNeedDaemon,
                Handles, InTransfer, Acquire
<1>12. ASSUME NEW a \in Assignment, ReleaseReturns(a) PROVE Rest'
    <2>1. ASSUME NEW x \in releases', x \notin releases
          PROVE  ReleaseOf(a, TRUE) \in releases /\ x = ReleaseOf(a, FALSE)
        BY <1>12, <2>1 DEF ReleaseReturns
    <2>2. StaleReleases'
        <3>1. ~ReleaseOf(a, FALSE).live
            BY DEF ReleaseOf, ReleaseMsg
        <3> QED BY <1>12, <2>1, <3>1 DEF ReleaseReturns, RunInv, StaleReleases
    <2> QED BY <1>0, <1>12, <2>2 DEF RunInv, TypeInv, TypeOK, ReleaseReturns, Waiting,
                RunsNeedDaemon, Handles, InTransfer, Acquire
<1>13. ASSUME NEW h \in Host, Crash(h) PROVE Rest'
    <2>1. \A a \in Assignment : phase'[a] = IF HostOf[a] = h THEN "idle" ELSE phase[a]
        BY <1>13 DEF Crash
    <2>2. StaleReleases'
        <3> SUFFICES ASSUME NEW x \in releases', x.id = None, x.live
                     PROVE  daemon'[x.host] = "booting"
            BY DEF StaleReleases
        <3>1. x \in releases /\ daemon[x.host] = "booting" /\ x.host # h
            BY <1>13, AbandonedReleases DEF Crash, RunInv, StaleReleases
        <3> QED BY <1>0, <1>13, <3>1 DEF Crash, TypeInv, TypeOK
    <2>3. Waiting'
        <3> SUFFICES ASSUME NEW m \in acquires', m.live PROVE phase'[m.asg] = "acquiring"
            BY DEF Waiting
        <3>1. m \in acquires /\ HostOf[m.asg] # h
            BY <1>13 DEF Crash, AbandonAcquires, AcquireMsg
        <3>2. m.asg \in Assignment /\ phase[m.asg] = "acquiring"
            BY <1>0, <3>1, LiveAcquire DEF RunInv, Waiting
        <3> QED BY <2>1, <3>1, <3>2
    <2>4. RunsNeedDaemon'
        BY <1>0, <1>13, <2>1 DEF Crash, RunInv, RunsNeedDaemon, TypeInv, TypeOK
    <2>5. Handles'
        BY <1>13, <2>1 DEF Crash, RunInv, Handles, InTransfer
    <2> QED BY <2>2, <2>3, <2>4, <2>5
<1>14. ASSUME NEW h \in Host, ReleaseStaleLocks(h) PROVE Rest'
    <2>1. ASSUME NEW x \in releases', x \notin releases
          PROVE  x.host = h /\ x.id = None /\ x.live
        BY <1>14, <2>1 DEF ReleaseStaleLocks, ReleaseMsg
    <2>2. daemon[h] = "down" /\ daemon' = [daemon EXCEPT ![h] = "booting"]
        BY <1>14 DEF ReleaseStaleLocks
    <2>3. StaleReleases'
        BY <1>0, <2>1, <2>2 DEF RunInv, StaleReleases, TypeInv, TypeOK
    <2>4. RunsNeedDaemon'
        BY <1>0, <1>14, <2>2 DEF ReleaseStaleLocks, RunInv, RunsNeedDaemon, TypeInv, TypeOK
    <2> QED BY <1>14, <2>3, <2>4 DEF RunInv, ReleaseStaleLocks, Waiting, Handles, InTransfer
<1>15. ASSUME NEW h \in Host, StaleRecoveryFails(h) PROVE Rest'
    BY <1>0, <1>15 DEF RunInv, TypeInv, TypeOK, StaleRecoveryFails, Release, Waiting,
        RunsNeedDaemon, StaleReleases, Handles, InTransfer
<1>16. ASSUME NEW h \in Host, BootDone(h) PROVE Rest'
    <2>1. daemon[h] = "booting" /\ daemon' = [daemon EXCEPT ![h] = "up"]
        BY <1>16 DEF BootDone
    <2>2. StaleReleases'
        <3> SUFFICES ASSUME NEW x \in releases', x.id = None, x.live
                     PROVE  daemon'[x.host] = "booting"
            BY DEF StaleReleases
        <3>1. x \in releases /\ daemon[x.host] = "booting" /\ x.host # h
            BY <1>16, AbandonedReleases DEF BootDone, RunInv, StaleReleases
        <3> QED BY <1>0, <2>1, <3>1 DEF TypeInv, TypeOK
    <2>3. RunsNeedDaemon'
        BY <1>0, <1>16, <2>1 DEF BootDone, RunInv, RunsNeedDaemon, TypeInv, TypeOK
    <2> QED BY <1>16, <2>2, <2>3 DEF RunInv, BootDone, Waiting, Handles, InTransfer
<1>17. ASSUME NEW h \in Host, RefreshConfig(h) PROVE Rest'
    BY <1>17 DEF RunInv, RefreshConfig, Waiting, RunsNeedDaemon, StaleReleases, Handles, InTransfer
<1>18. ASSUME Tick PROVE Rest'
    BY <1>18 DEF RunInv, Tick, Waiting, RunsNeedDaemon, StaleReleases, Handles, InTransfer
<1>19. ASSUME UNCHANGED vars PROVE Rest'
    BY <1>19 DEF vars, RunInv, Waiting, RunsNeedDaemon, StaleReleases, Handles, InTransfer
<1>20. ASSUME NEW a \in Assignment, SwitchLocks(a) PROVE Rest'
    <2>1. \A m \in acquires' : m.live => m \in acquires
        BY <1>20 DEF SwitchLocks, AcquireMsg
    <2> QED BY <1>20, <2>1 DEF RunInv, SwitchLocks, Waiting, RunsNeedDaemon, StaleReleases, Handles,
                InTransfer
<1>21. ASSUME NEW a \in Assignment, SwitchReleases(a) PROVE Rest'
    BY <1>21 DEF RunInv, SwitchReleases, Waiting, RunsNeedDaemon, StaleReleases, Handles, InTransfer
<1>22. ASSUME NEW a \in keyless, ServeSwitchRelease(a) PROVE Rest'
    BY <1>22 DEF RunInv, ServeSwitchRelease, Waiting, RunsNeedDaemon, StaleReleases, Handles,
        InTransfer
<1> QED
    BY <1>1, <1>2, <1>3, <1>4, <1>5, <1>6, <1>7, <1>8, <1>9, <1>10, <1>11, <1>12,
       <1>13, <1>14, <1>15, <1>16, <1>17, <1>18, <1>19, <1>20, <1>21, <1>22
    DEF Next, RunNext, RunStep, HostNext, ServeRequest

-----------------------------------------------------------------------------
(***************************************************************************)
(* Nobody loses a live row.  What an id says: it belongs to one run, the   *)
(* row that carries it is that run's host's, and while the run transfers   *)
(* no release in flight carries it.                                        *)
(***************************************************************************)

IdsDistinct ==
    \A a, b \in Assignment : lockId[a] = lockId[b] /\ lockId[a] # None => a = b

RowsOfIds ==
    \A a \in Assignment, k \in Key :
        lockId[a] # None /\ folderLocks[k].id = lockId[a] => folderLocks[k].by = HostOf[a]

NotReleased ==
    \A a \in Assignment : InTransfer(a) => \A m \in releases : m.id # lockId[a]

HandleInv == RunInv /\ IdsDistinct /\ RowsOfIds /\ NotReleased

\* Steps that grant a run nothing, send no release of a transfer and write no
\* new owner under the id of a run keep it.
LEMMA HandlesKept ==
    ASSUME HandleInv,
           \A a \in Assignment : lockId'[a] \in {lockId[a], None},
           \A a \in Assignment : InTransfer(a)' => InTransfer(a) /\ lockId'[a] = lockId[a],
           \A k \in Key : \/ folderLocks'[k] = NoRow
                          \/ /\ folderLocks'[k].id = folderLocks[k].id
                             /\ folderLocks'[k].by = folderLocks[k].by
                          \/ \A b \in Assignment : folderLocks'[k].id # lockId[b],
           \A x \in releases' :
               \A a \in Assignment : InTransfer(a)' /\ x.id = lockId[a] => x \in releases
    PROVE  IdsDistinct' /\ RowsOfIds' /\ NotReleased'
<1>1. IdsDistinct'
    BY DEF HandleInv, IdsDistinct
<1>2. RowsOfIds'
    BY DEF HandleInv, RowsOfIds, NoRow
<1>3. NotReleased'
    BY DEF HandleInv, NotReleased
<1> QED BY <1>1, <1>2, <1>3

\* Nobody refers to the id of a grant yet.
LEMMA NewIdFresh ==
    ASSUME NEW a \in Assignment, Grant(a)
    PROVE  /\ NewId # None
           /\ \A k \in Key : folderLocks[k].id # NewId
           /\ \A b \in Assignment : lockId[b] # NewId
           /\ \A m \in releases : m.id # NewId
  BY ConstantsAssumption DEF Grant, NewId, FreshIds

LEMMA HandleNext ==
    ASSUME HandleInv, [Next]_vars
    PROVE  HandleInv'
<1>0. RunInv /\ RunInv' /\ TypeInv /\ TypeInv'
    BY RunsNext DEF HandleInv, RunInv
<1> USE DEF server, client, runs, net
<1> DEFINE Rest == IdsDistinct /\ RowsOfIds /\ NotReleased
<1> SUFFICES Rest'
    BY <1>0 DEF HandleInv
<1>1. ASSUME NEW a \in Assignment, StartRun(a) PROVE Rest'
    BY <1>0, <1>1, HandlesKept DEF TypeInv, TypeOK, StartRun, InTransfer
<1>2. ASSUME NEW a \in Assignment, AcquireAttempt(a) PROVE Rest'
    BY <1>0, <1>2, HandlesKept DEF TypeInv, TypeOK, AcquireAttempt, FailedAttempt, InTransfer
<1>3. ASSUME NEW a \in Assignment, AcquireGranted(a) PROVE Rest'
    BY <1>0, <1>3, HandlesKept DEF TypeInv, TypeOK, AcquireGranted, InTransfer
<1>4. ASSUME NEW a \in Assignment, AcquireContended(a) PROVE Rest'
    BY <1>0, <1>4, HandlesKept DEF TypeInv, TypeOK, AcquireContended, FailedAttempt, InTransfer
<1>5. ASSUME NEW a \in Assignment, AcquireTimeout(a) PROVE Rest'
    BY <1>0, <1>5, HandlesKept DEF TypeInv, TypeOK, AcquireTimeout, FailedAttempt, InTransfer
<1>6. ASSUME NEW m \in acquires, ServeAcquire(m) PROVE Rest'
    <2> DEFINE a == m.asg
               k == dbKey[a]
               i == NewId
    <2>0. m \in Acquire /\ a \in Assignment /\ k \in Key /\ releases' = releases
        BY <1>0, <1>6 DEF TypeInv, TypeOK, Acquire, ServeAcquire
    <2>1. CASE /\ UNCHANGED <<folderLocks, lockId>>
               /\ phase' \in {phase, [phase EXCEPT ![a] = "contended"]}
        <3>1. \A b \in Assignment : InTransfer(b)' => InTransfer(b)
            BY <1>0, <2>0, <2>1 DEF TypeInv, TypeOK, InTransfer
        <3> QED BY <2>0, <2>1, <3>1, HandlesKept
    <2>2. CASE /\ Grant(a)
               /\ phase' = IF m.live THEN [phase EXCEPT ![a] = "granted"] ELSE phase
               /\ lockId' = IF m.live THEN [lockId EXCEPT ![a] = i] ELSE lockId
        <3>1. /\ i # None
              /\ \A j \in Key : folderLocks[j].id # i
              /\ \A b \in Assignment : lockId[b] # i
              /\ \A r \in releases : r.id # i
            BY <2>0, <2>2, NewIdFresh
        <3>2. \A b \in Assignment : lockId'[b] = IF b = a /\ m.live THEN i ELSE lockId[b]
            BY <1>0, <2>0, <2>2 DEF TypeInv, TypeOK
        <3>3. \A j \in Key : folderLocks'[j] = IF j = k THEN [by |-> HostOf[a], age |-> 0, id |-> i]
                                                        ELSE folderLocks[j]
            BY <1>0, <2>0, <2>2 DEF TypeInv, TypeOK, Grant
        <3>4. IdsDistinct'
            BY <3>1, <3>2 DEF HandleInv, IdsDistinct
        <3>5. ASSUME NEW b \in Assignment, NEW j \in Key, lockId'[b] # None,
                     folderLocks'[j].id = lockId'[b]
              PROVE  folderLocks'[j].by = HostOf[b]
            <4>1. CASE j = k
                <5>1. folderLocks'[j] = [by |-> HostOf[a], age |-> 0, id |-> i]
                    BY <3>3, <4>1
                <5>2. folderLocks'[j].id = i /\ folderLocks'[j].by = HostOf[a]
                    BY <5>1
                <5>3. lockId[b] # i
                    BY <3>1
                <5>4. b = a
                    BY <3>2, <3>5, <5>2, <5>3
                <5> QED BY <5>2, <5>4
            <4>2. CASE j # k
                <5>1. folderLocks'[j] = folderLocks[j] /\ folderLocks[j].id # i
                    BY <3>1, <3>3, <4>2
                <5>2. lockId'[b] = lockId[b]
                    BY <3>2, <3>5, <5>1
                <5> QED BY <3>5, <5>1, <5>2 DEF HandleInv, RowsOfIds
            <4> QED BY <4>1, <4>2
        <3>6. \A b \in Assignment : InTransfer(b)' => InTransfer(b) \/ (b = a /\ m.live)
            BY <1>0, <2>0, <2>2 DEF TypeInv, TypeOK, InTransfer
        <3>7. NotReleased'
            BY <2>0, <3>1, <3>2, <3>6 DEF HandleInv, NotReleased
        <3> QED BY <3>4, <3>5, <3>7 DEF RowsOfIds
    <2> QED BY <1>6, <2>1, <2>2 DEF ServeAcquire
<1>7. ASSUME NEW m \in releases, ServeRelease(m) PROVE Rest'
    BY <1>0, <1>7, HandlesKept DEF TypeInv, TypeOK, ServeRelease, InTransfer
<1>8. ASSUME ReapExpired PROVE Rest'
    BY <1>0, <1>8, HandlesKept DEF TypeInv, TypeOK, ReapExpired, InTransfer
<1>9. ASSUME NEW a \in Assignment, NEW k \in Key, EditDestination(a, k) PROVE Rest'
    BY <1>0, <1>9, HandlesKept DEF TypeInv, TypeOK, EditDestination, InTransfer
<1>10. ASSUME NEW a \in Assignment, Heartbeat(a) PROVE Rest'
    <2>1. \A k \in Key : /\ folderLocks'[k].by = folderLocks[k].by
                          /\ folderLocks'[k].id = folderLocks[k].id
        BY <1>0, <1>10 DEF TypeInv, TypeOK, Heartbeat, Row, NoRow
    <2> QED BY <1>0, <1>10, <2>1, HandlesKept DEF Heartbeat, InTransfer
<1>11. ASSUME NEW a \in Assignment, EndTransfer(a) PROVE Rest'
    <2>1. \A b \in Assignment : InTransfer(b)' => b # a /\ InTransfer(b)
        BY <1>0, <1>11 DEF TypeInv, TypeOK, EndTransfer, InTransfer
    <2>2. ReleaseOf(a, TRUE).id = lockId[a]
        BY ReleaseOfFields
    <2>3. \A b \in Assignment : InTransfer(b)' => lockId[b] # lockId[a]
        BY <1>0, <1>11, <2>1 DEF EndTransfer, RunInv, Handles, HandleInv, IdsDistinct
    <2> QED BY <1>11, <2>1, <2>2, <2>3, HandlesKept DEF EndTransfer
<1>12. ASSUME NEW a \in Assignment, ReleaseReturns(a) PROVE Rest'
    <2>1. /\ \A b \in Assignment : InTransfer(b)' =>
                 b # a /\ InTransfer(b) /\ lockId'[b] = lockId[b]
          /\ \A b \in Assignment : lockId'[b] \in {lockId[b], None}
        BY <1>0, <1>12 DEF TypeInv, TypeOK, ReleaseReturns, InTransfer
    <2>2. ReleaseOf(a, FALSE).id = lockId[a]
        BY ReleaseOfFields
    <2>3. \A b \in Assignment : InTransfer(b)' => lockId[b] # lockId[a]
        BY <1>0, <2>1 DEF RunInv, Handles, HandleInv, IdsDistinct
    <2> QED BY <1>12, <2>1, <2>2, <2>3, HandlesKept DEF ReleaseReturns
<1>13. ASSUME NEW h \in Host, Crash(h) PROVE Rest'
    <2>1. /\ \A b \in Assignment : InTransfer(b)' => InTransfer(b) /\ lockId'[b] = lockId[b]
          /\ \A b \in Assignment : lockId'[b] \in {lockId[b], None}
        BY <1>13 DEF Crash, InTransfer
    <2>2. \A x \in releases' : \E r \in releases : r.id = x.id
        BY <1>13, AbandonedReleases DEF Crash
    <2>3. \A x \in releases', b \in Assignment : InTransfer(b) => x.id # lockId[b]
        BY <2>2 DEF HandleInv, NotReleased
    <2> QED BY <1>13, <2>1, <2>3, HandlesKept DEF Crash
<1>14. ASSUME NEW h \in Host, ReleaseStaleLocks(h) PROVE Rest'
    <2>1. \A x \in releases' : x \notin releases => x.id = None
        BY <1>14 DEF ReleaseStaleLocks, ReleaseMsg
    <2>2. \A b \in Assignment : InTransfer(b) => lockId[b] # None
        BY <1>0 DEF RunInv, Handles
    <2> QED BY <1>14, <2>1, <2>2, HandlesKept DEF ReleaseStaleLocks, InTransfer
<1>15. ASSUME NEW h \in Host, StaleRecoveryFails(h) PROVE Rest'
    BY <1>15, HandlesKept DEF StaleRecoveryFails, InTransfer
<1>16. ASSUME NEW h \in Host, BootDone(h) PROVE Rest'
    <2>1. \A x \in releases' : \E r \in releases : r.id = x.id
        BY <1>16, AbandonedReleases DEF BootDone
    <2>2. \A x \in releases', b \in Assignment : InTransfer(b) => x.id # lockId[b]
        BY <2>1 DEF HandleInv, NotReleased
    <2> QED BY <1>16, <2>2, HandlesKept DEF BootDone, InTransfer
<1>17. ASSUME NEW h \in Host, RefreshConfig(h) PROVE Rest'
    BY <1>17, HandlesKept DEF RefreshConfig, InTransfer
<1>18. ASSUME Tick PROVE Rest'
    <2>1. \A k \in Key : /\ folderLocks'[k].by = folderLocks[k].by
                          /\ folderLocks'[k].id = folderLocks[k].id
        BY <1>0, <1>18 DEF TypeInv, TypeOK, Tick, Row, Held
    <2> QED BY <1>18, <2>1, HandlesKept DEF Tick, InTransfer
<1>19. ASSUME UNCHANGED vars PROVE Rest'
    BY <1>19, HandlesKept DEF vars, InTransfer
<1>20. ASSUME NEW a \in Assignment, SwitchLocks(a) PROVE Rest'
    <2>1. \A k \in Key : folderLocks'[k] = folderLocks[k]
                          \/ \A b \in Assignment : folderLocks'[k].id # lockId[b]
        <3>1. CASE Grant(a)
            <4>1. \A k \in Key : folderLocks'[k] = folderLocks[k] \/ folderLocks'[k].id = NewId
                BY <1>0, <3>1 DEF Grant, TypeInv, TypeOK
            <4> QED BY <3>1, <4>1, NewIdFresh
        <3> QED BY <1>20, <3>1 DEF SwitchLocks
    <2> QED BY <1>20, <2>1, HandlesKept DEF SwitchLocks, InTransfer
<1>21. ASSUME NEW a \in Assignment, SwitchReleases(a) PROVE Rest'
    BY <1>21, HandlesKept DEF SwitchReleases, InTransfer
<1>22. ASSUME NEW a \in keyless, ServeSwitchRelease(a) PROVE Rest'
    BY <1>0, <1>22, HandlesKept DEF TypeInv, TypeOK, ServeSwitchRelease, InTransfer
<1> QED
    BY <1>1, <1>2, <1>3, <1>4, <1>5, <1>6, <1>7, <1>8, <1>9, <1>10, <1>11, <1>12,
       <1>13, <1>14, <1>15, <1>16, <1>17, <1>18, <1>19, <1>20, <1>21, <1>22
    DEF Next, RunNext, RunStep, HostNext, ServeRequest

\* A grant to another host needs a row that blocks nobody.
LEMMA GrantWrites ==
    ASSUME TypeInv, NEW a \in Assignment, Grant(a), NEW k \in Key
    PROVE  \/ folderLocks'[k] = folderLocks[k]
           \/ /\ k = dbKey[a]
              /\ ~Blocks(folderLocks[k], HostOf[a])
              /\ folderLocks'[k] = [by |-> HostOf[a], age |-> 0, id |-> NewId]
  BY DEF TypeInv, TypeOK, Grant

\* The only steps that write the owner of a row: a grant, a release with or
\* without an id, the reaper.
LEMMA OwnerWrites ==
    ASSUME TypeInv, [Next]_vars, NEW k \in Key
    PROVE  \/ folderLocks'[k].by = folderLocks[k].by
           \/ folderLocks'[k] = NoRow /\ Stale(folderLocks[k])
           \/ \E a \in Assignment : /\ ~Blocks(folderLocks[k], HostOf[a])
                                    /\ folderLocks'[k].by = HostOf[a]
           \/ \E m \in releases : ServeRelease(m) /\ m.key = k /\ Owns(folderLocks[k], m.host, m.id)
                                  /\ folderLocks'[k] = NoRow
           \/ \E a \in keyless : ServeSwitchRelease(a) /\ dbKey[a] = k /\ folderLocks'[k] = NoRow
                                 /\ Owns(folderLocks[k], HostOf[a], None)
<1> USE DEF server, client, runs, net
<1>1. CASE UNCHANGED folderLocks
    BY <1>1
<1>2. ASSUME NEW m \in acquires, ServeAcquire(m), folderLocks'[k].by # folderLocks[k].by
      PROVE  /\ m.asg \in Assignment
             /\ ~Blocks(folderLocks[k], HostOf[m.asg]) /\ folderLocks'[k].by = HostOf[m.asg]
    <2>1. m.asg \in Assignment /\ Grant(m.asg)
        BY <1>2 DEF TypeInv, TypeOK, Acquire, ServeAcquire
    <2>2. folderLocks'[k] = folderLocks[k] \/
              /\ ~Blocks(folderLocks[k], HostOf[m.asg])
              /\ folderLocks'[k] = [by |-> HostOf[m.asg], age |-> 0, id |-> NewId]
        BY <2>1, GrantWrites
    <2> QED BY <1>2, <2>1, <2>2
<1>3. ASSUME NEW m \in releases, ServeRelease(m), folderLocks'[k].by # folderLocks[k].by
      PROVE  m.key = k /\ Owns(folderLocks[k], m.host, m.id) /\ folderLocks'[k] = NoRow
    BY <1>3 DEF TypeInv, TypeOK, Release, ServeRelease
<1>4. CASE ReapExpired
    BY <1>4 DEF ReapExpired
<1>5. ASSUME NEW a \in Assignment, Heartbeat(a) PROVE folderLocks'[k].by = folderLocks[k].by
    BY <1>5 DEF TypeInv, TypeOK, Heartbeat, Row, NoRow
<1>6. CASE Tick
    BY <1>6 DEF TypeInv, TypeOK, Tick, Row, Held
<1>7. ASSUME NEW a \in Assignment, \/ StartRun(a) \/ RunStep(a) \/ SwitchReleases(a)
                                   \/ \E j \in Key : EditDestination(a, j)
      PROVE UNCHANGED folderLocks
    BY <1>7 DEF StartRun, RunStep, AcquireAttempt, AcquireGranted, AcquireContended,
        AcquireTimeout, EndTransfer, ReleaseReturns, SwitchReleases, EditDestination
<1>8. ASSUME NEW h \in Host, HostNext(h) PROVE UNCHANGED folderLocks
    BY <1>8 DEF HostNext, Crash, ReleaseStaleLocks, StaleRecoveryFails, BootDone, RefreshConfig
<1>9. CASE UNCHANGED vars
    BY <1>9 DEF vars
<1>10. ASSUME NEW a \in Assignment, SwitchLocks(a), folderLocks'[k].by # folderLocks[k].by
       PROVE  ~Blocks(folderLocks[k], HostOf[a]) /\ folderLocks'[k].by = HostOf[a]
    <2>1. Grant(a)
        BY <1>10 DEF SwitchLocks
    <2>2. folderLocks'[k] = folderLocks[k] \/
              /\ ~Blocks(folderLocks[k], HostOf[a])
              /\ folderLocks'[k] = [by |-> HostOf[a], age |-> 0, id |-> NewId]
        BY <2>1, GrantWrites
    <2> QED BY <1>10, <2>2
<1>11. ASSUME NEW a \in keyless, ServeSwitchRelease(a), folderLocks'[k].by # folderLocks[k].by
       PROVE  dbKey[a] = k /\ folderLocks'[k] = NoRow /\ Owns(folderLocks[k], HostOf[a], None)
    BY <1>11 DEF TypeInv, TypeOK, ServeSwitchRelease
<1> QED
    BY <1>1, <1>2, <1>3, <1>4, <1>5, <1>6, <1>7, <1>8, <1>9, <1>10, <1>11
    DEF Next, RunNext, ServeRequest

LEMMA HandlesAlways == Spec => []HandleInv
<1>1. Init => HandleInv
    <2>1. Init => RunInv
        BY RunsInit
    <2> QED BY <2>1 DEF Init, HandleInv, IdsDistinct, RowsOfIds, NotReleased, InTransfer
<1> QED BY <1>1, HandleNext, PTL DEF Spec

\* Nobody loses a live row: no acquire takes it over from another host, and no
\* release of an earlier run, however late, frees it under a transfer that
\* holds its id; only one without an id does, left behind by a boot or sent by
\* a switch.  It is lost neither to late heartbeats nor to edited destinations
\* (the 409 branches of acquire and release in routes/operations.ts).
THEOREM LiveLockKept == Spec => LockKept
<1>3. ASSUME HandleInv, [Next]_vars, NEW k \in Key, Held(k), ~Expired(folderLocks[k])
      PROVE  folderLocks'[k].by \in {folderLocks[k].by, None}
    <2>1. TypeInv
        BY <1>3 DEF HandleInv, RunInv
    <2> QED BY <1>3, <2>1, OwnerWrites DEF Held, Stale, Blocks, NoRow
<1>4. ASSUME HandleInv, [Next]_vars, NEW a \in Assignment, InTransfer(a), InTransfer(a)',
             folderLocks[runKey[a]].id = lockId[a], ~Expired(folderLocks[runKey[a]])
      PROVE  folderLocks'[runKey[a]].by = HostOf[a] \/ ServesIdless(HostOf[a], runKey[a])
    <2> DEFINE k == runKey[a]
    <2>1. TypeInv /\ k \in Key /\ lockId[a] # None
        BY <1>4 DEF HandleInv, RunInv, TypeInv, TypeOK, Handles
    <2>2. folderLocks[k].by = HostOf[a] /\ folderLocks[k] # NoRow
        BY <1>4, <2>1 DEF HandleInv, RowsOfIds, NoRow
    <2>3. ASSUME NEW m \in releases, ServeRelease(m), m.key = k, Owns(folderLocks[k], m.host, m.id)
          PROVE  ServesIdless(HostOf[a], k)
        <3>1. m.host = HostOf[a] /\ m.id # lockId[a]
            BY <1>4, <2>2, <2>3 DEF HandleInv, NotReleased, Owns
        <3>2. m.id = None
            BY <1>4, <2>3, <3>1 DEF Owns
        <3>3. ~m.live
            BY <1>4, <3>1, <3>2 DEF HandleInv, RunInv, StaleReleases, RunsNeedDaemon, InTransfer
        <3>4. m = ReleaseMsg(HostOf[a], k, None, FALSE)
            <4>1. m \in Release
                BY <2>1 DEF TypeInv, TypeOK
            <4> QED BY <2>3, <3>1, <3>2, <3>3, <4>1 DEF Release, ReleaseMsg
        <3> QED BY <2>3, <3>4 DEF ServeRelease, ServesIdless
    <2>4. ASSUME NEW b \in Assignment, ~Blocks(folderLocks[k], HostOf[b])
          PROVE  HostOf[b] = HostOf[a]
        BY <1>4, <2>2, <2>4 DEF Blocks
    <2>5. ASSUME NEW b \in keyless, ServeSwitchRelease(b), dbKey[b] = k,
                 Owns(folderLocks[k], HostOf[b], None)
          PROVE  ServesIdless(HostOf[a], k)
        BY <2>2, <2>5 DEF ServeSwitchRelease, Owns, ServesIdless
    <2> QED BY <1>4, <2>1, <2>2, <2>3, <2>4, <2>5, OwnerWrites DEF Stale
<1>5. HandleInv /\ [Next]_vars =>
        [\A k \in Key : Held(k) /\ ~Expired(folderLocks[k])
            => folderLocks'[k].by \in {folderLocks[k].by, None}]_vars
    BY <1>3
<1>6. HandleInv /\ [Next]_vars =>
        [\A a \in Assignment :
            LET k == runKey[a] IN
            /\ InTransfer(a)
            /\ InTransfer(a)'
            /\ folderLocks[k].id = lockId[a]
            /\ ~Expired(folderLocks[k])
            => folderLocks'[k].by = HostOf[a] \/ ServesIdless(HostOf[a], k)]_vars
    BY <1>4
<1> QED BY HandlesAlways, <1>5, <1>6, PTL DEF Spec, LockKept, LiveLockNotStolen, TransferKeepsRow
-----------------------------------------------------------------------------
(***************************************************************************)
(* Cross-host exclusion.  The invariant that carries it: while a run       *)
(* transfers and is not exposed, the row of its destination is its host's  *)
(* and unexpired.  A later grant to the same host may have replaced the    *)
(* row's id, so nothing is said about lockId and the row.                  *)
(***************************************************************************)

Guarded(a) ==
    LET row == folderLocks[runKey[a]] IN row.by = HostOf[a] /\ row.age < LockTTL

TransfersGuarded == \A a \in Assignment : InTransfer(a) /\ a \notin exposed => Guarded(a)

ExclusionInv == HandleInv /\ TransfersGuarded

\* Steps that start no transfer, retarget none and leave its row with its
\* owner, no older, keep it.
LEMMA GuardedKept ==
    ASSUME TransfersGuarded,
           \A a \in Assignment :
               InTransfer(a)' /\ a \notin exposed' =>
                   /\ InTransfer(a) /\ a \notin exposed /\ runKey'[a] = runKey[a]
                   /\ Guarded(a) => Guarded(a)'
    PROVE  TransfersGuarded'
  BY DEF TransfersGuarded

\* A grant leaves every guarded row with its host, or makes it younger.
LEMMA GrantGuards ==
    ASSUME TypeInv, NEW a \in Assignment, Grant(a), NEW b \in Assignment, Guarded(b),
           runKey'[b] = runKey[b]
    PROVE  Guarded(b)'
<1>1. runKey[b] \in Key /\ HostOf[b] \in Host /\ LockTTL \in Nat \ {0}
    BY ConstantsAssumption DEF TypeInv, TypeOK
<1>2. folderLocks[runKey[b]].by = HostOf[b] /\ folderLocks[runKey[b]].age < LockTTL
    BY DEF Guarded
<1>3. CASE folderLocks'[runKey[b]] = folderLocks[runKey[b]]
    BY <1>2, <1>3 DEF Guarded
<1>4. CASE /\ ~Blocks(folderLocks[runKey[b]], HostOf[a])
           /\ folderLocks'[runKey[b]] = [by |-> HostOf[a], age |-> 0, id |-> NewId]
    <2>1. folderLocks[runKey[b]] # NoRow /\ ~Expired(folderLocks[runKey[b]])
        BY <1>1, <1>2, ConstantsAssumption DEF NoRow, Expired
    <2>2. HostOf[a] = HostOf[b]
        BY <1>2, <1>4, <2>1 DEF Blocks
    <2>3. folderLocks'[runKey[b]].by = HostOf[b] /\ folderLocks'[runKey[b]].age = 0
        BY <1>4, <2>2
    <2> QED BY <1>1, <2>3 DEF Guarded
<1> QED BY <1>1, <1>3, <1>4, GrantWrites

\* The row of a guarded transfer is there and has not expired.
LEMMA GuardedRow ==
    ASSUME TypeInv, NEW a \in Assignment, Guarded(a)
    PROVE  /\ runKey[a] \in Key
           /\ folderLocks[runKey[a]] \in Row
           /\ Held(runKey[a])
           /\ ~Expired(folderLocks[runKey[a]])
  BY ConstantsAssumption DEF TypeInv, TypeOK, Guarded, NoRow, Held, Expired

LEMMA ExclusionNext ==
    ASSUME ExclusionInv, [Next]_vars
    PROVE  ExclusionInv'
<1>0. HandleInv /\ HandleInv' /\ RunInv /\ TypeInv
    BY HandleNext DEF ExclusionInv, HandleInv, RunInv
<1> USE DEF server, client, runs, net
<1> SUFFICES TransfersGuarded'
    BY <1>0 DEF ExclusionInv
<1>00. TransfersGuarded
    BY DEF ExclusionInv
<1>1. ASSUME NEW a \in Assignment, StartRun(a) PROVE TransfersGuarded'
    BY <1>0, <1>00, <1>1, GuardedKept DEF TypeInv, TypeOK, StartRun, InTransfer, Guarded
<1>2. ASSUME NEW a \in Assignment, AcquireAttempt(a) PROVE TransfersGuarded'
    BY <1>0, <1>00, <1>2, GuardedKept
    DEF TypeInv, TypeOK, AcquireAttempt, InTransfer, FailedAttempt, Guarded
<1>3. ASSUME NEW a \in Assignment, AcquireGranted(a) PROVE TransfersGuarded'
    BY <1>0, <1>00, <1>3, GuardedKept DEF TypeInv, TypeOK, AcquireGranted, InTransfer, Guarded
<1>4. ASSUME NEW a \in Assignment, AcquireContended(a) PROVE TransfersGuarded'
    BY <1>0, <1>00, <1>4, GuardedKept
    DEF TypeInv, TypeOK, AcquireContended, InTransfer, FailedAttempt, Guarded
<1>5. ASSUME NEW a \in Assignment, AcquireTimeout(a) PROVE TransfersGuarded'
    BY <1>0, <1>00, <1>5, GuardedKept
    DEF TypeInv, TypeOK, AcquireTimeout, FailedAttempt, InTransfer, Guarded
<1>6. ASSUME NEW m \in acquires, ServeAcquire(m) PROVE TransfersGuarded'
    <2> DEFINE a == m.asg
    <2>0. a \in Assignment /\ dbKey[a] \in Key /\ HostOf[a] \in Host /\ runKey' = runKey
        BY <1>0, <1>6, ConstantsAssumption DEF TypeInv, TypeOK, Acquire, ServeAcquire
    <2>1. CASE /\ Blocks(folderLocks[dbKey[a]], HostOf[a])
               /\ phase' = IF m.live THEN [phase EXCEPT ![a] = "contended"] ELSE phase
               /\ UNCHANGED <<folderLocks, lockId, exposed>>
        BY <1>0, <1>00, <2>0, <2>1, GuardedKept DEF TypeInv, TypeOK, InTransfer, Guarded
    <2>2. CASE /\ Grant(a)
               /\ phase' = IF m.live THEN [phase EXCEPT ![a] = "granted"] ELSE phase
               /\ exposed' = exposed \cup {b \in {a} : m.live /\ dbKey[b] # runKey[b]}
        <3>1. \A b \in Assignment : InTransfer(b)' => InTransfer(b) \/ (b = a /\ m.live)
            BY <1>0, <2>0, <2>2 DEF TypeInv, TypeOK, InTransfer
        <3>2. ASSUME NEW b \in Assignment, InTransfer(b)', b \notin exposed' PROVE Guarded(b)'
            <4>1. CASE b = a /\ m.live
                <5>1. dbKey[a] = runKey[a]
                    BY <2>2, <3>2, <4>1
                <5>2. folderLocks'[dbKey[a]] = [by |-> HostOf[a], age |-> 0, id |-> NewId]
                    BY <1>0, <2>0, <2>2 DEF Grant, TypeInv, TypeOK
                <5>3. folderLocks'[dbKey[a]].by = HostOf[a] /\ folderLocks'[dbKey[a]].age = 0
                    BY <5>2
                <5> QED BY <2>0, <4>1, <5>1, <5>3, ConstantsAssumption DEF Guarded
            <4>2. CASE ~(b = a /\ m.live)
                <5>1. InTransfer(b) /\ b \notin exposed
                    BY <2>2, <3>1, <3>2, <4>2
                <5>2. Guarded(b)
                    BY <1>00, <5>1 DEF TransfersGuarded
                <5> QED BY <1>0, <2>0, <2>2, <5>2, GrantGuards
            <4> QED BY <4>1, <4>2
        <3> QED BY <3>2 DEF TransfersGuarded
    <2> QED BY <1>6, <2>1, <2>2 DEF ServeAcquire
<1>7. ASSUME NEW m \in releases, ServeRelease(m) PROVE TransfersGuarded'
    <2>1. ASSUME NEW a \in Assignment, InTransfer(a)', a \notin exposed'
          PROVE  InTransfer(a) /\ a \notin exposed /\ folderLocks'[runKey[a]] = folderLocks[runKey[a]]
        <3>1. InTransfer(a) /\ a \notin exposed
            BY <1>7, <2>1 DEF ServeRelease, InTransfer
        <3>2. Guarded(a) /\ runKey[a] \in Key
            BY <1>0, <1>00, <3>1 DEF TransfersGuarded, TypeInv, TypeOK
        <3>3. CASE m.key = runKey[a] /\ Owns(folderLocks[m.key], m.host, m.id)
            <4>1. m.host = HostOf[a]
                BY <3>2, <3>3 DEF Owns, Guarded
            <4>2. a \in TransfersInto(m.host, m.key)
                BY <3>1, <3>3, <4>1 DEF TransfersInto
            <4>3. m.id # None
                <5>1. m.id = None => m.live
                    BY <1>7, <2>1, <4>2 DEF ServeRelease
                <5> QED BY <1>0, <3>1, <4>1, <5>1 DEF RunInv, StaleReleases, RunsNeedDaemon, InTransfer
            <4>4. folderLocks[m.key].id = m.id
                BY <3>3, <4>3 DEF Owns
            <4>5. lockId[a] = m.id
                BY <1>7, <2>1, <4>2, <4>3, <4>4 DEF ServeRelease
            <4> QED BY <1>0, <3>1, <4>5 DEF HandleInv, NotReleased
        <3>4. CASE ~(m.key = runKey[a] /\ Owns(folderLocks[m.key], m.host, m.id))
            BY <1>0, <1>7, <3>1, <3>2, <3>4 DEF ServeRelease, TypeInv, TypeOK
        <3> QED BY <3>3, <3>4
    <2> QED BY <1>00, <1>7, <2>1, GuardedKept DEF ServeRelease, Guarded
<1>8. ASSUME ReapExpired PROVE TransfersGuarded'
    <2>1. ASSUME NEW a \in Assignment, Guarded(a)
          PROVE  folderLocks'[runKey[a]] = folderLocks[runKey[a]]
        BY <1>0, <1>8, <2>1, GuardedRow DEF ReapExpired, Stale
    <2> QED BY <1>00, <1>8, <2>1, GuardedKept DEF ReapExpired, InTransfer, Guarded
<1>9. ASSUME NEW a \in Assignment, NEW k \in Key, EditDestination(a, k) PROVE TransfersGuarded'
    BY <1>00, <1>9, GuardedKept DEF EditDestination, InTransfer, Guarded
<1>10. ASSUME NEW a \in Assignment, Heartbeat(a) PROVE TransfersGuarded'
    <2>1. \A k \in Key : /\ folderLocks'[k].by = folderLocks[k].by
                          /\ folderLocks'[k].age \in {folderLocks[k].age, 0}
        BY <1>0, <1>10 DEF TypeInv, TypeOK, Heartbeat, Row, NoRow
    <2>2. ASSUME NEW b \in Assignment, Guarded(b) PROVE Guarded(b)'
        <3>1. runKey[b] \in Key /\ runKey'[b] = runKey[b] /\ LockTTL \in Nat \ {0}
            BY <1>0, <1>10, ConstantsAssumption DEF Heartbeat, TypeInv, TypeOK
        <3> QED BY <2>1, <2>2, <3>1 DEF Guarded
    <2> QED BY <1>00, <1>10, <2>2, GuardedKept DEF Heartbeat, InTransfer
<1>11. ASSUME NEW a \in Assignment, EndTransfer(a) \/ ReleaseReturns(a) PROVE TransfersGuarded'
    BY <1>0, <1>00, <1>11, GuardedKept
    DEF EndTransfer, ReleaseReturns, InTransfer, TypeInv, TypeOK, Guarded
<1>12. ASSUME NEW h \in Host, Crash(h) PROVE TransfersGuarded'
    BY <1>00, <1>12, GuardedKept DEF Crash, InTransfer, Guarded
<1>13. ASSUME NEW h \in Host, \/ ReleaseStaleLocks(h) \/ BootDone(h)
                              \/ StaleRecoveryFails(h) \/ RefreshConfig(h)
       PROVE  TransfersGuarded'
    BY <1>00, <1>13, GuardedKept
    DEF ReleaseStaleLocks, BootDone, StaleRecoveryFails, RefreshConfig, InTransfer, Guarded
<1>14. ASSUME Tick PROVE TransfersGuarded'
    <2>1. ASSUME NEW a \in Assignment, InTransfer(a)', a \notin exposed'
          PROVE  InTransfer(a) /\ a \notin exposed /\ Guarded(a)'
        <3> DEFINE k == runKey[a]
        <3>1. InTransfer(a) /\ a \notin exposed
            BY <1>14, <2>1 DEF Tick, InTransfer
        <3>2. Guarded(a)
            BY <1>00, <3>1 DEF TransfersGuarded
        <3>3. k \in Key /\ folderLocks[k] \in Row /\ Held(k) /\ ~Expired(folderLocks[k])
            BY <1>0, <3>2, GuardedRow
        <3>4. folderLocks'[k] = [folderLocks[k] EXCEPT !.age = @ + 1]
            BY <1>14, <3>3 DEF Tick
        <3>5. /\ folderLocks'[k].by = folderLocks[k].by
              /\ folderLocks'[k].age = folderLocks[k].age + 1
              /\ folderLocks[k].age \in 0..LockTTL
            BY <3>3, <3>4 DEF Row
        <3>6. folderLocks[k].age + 1 # LockTTL
            <4>1. a \in TransfersInto(folderLocks[k].by, k)
                BY <3>1, <3>2 DEF TransfersInto, Guarded
            <4> QED BY <1>14, <2>1, <4>1 DEF Tick
        <3>7. folderLocks'[k].age < LockTTL
            BY <3>2, <3>5, <3>6, ConstantsAssumption DEF Guarded
        <3> QED BY <1>14, <3>1, <3>2, <3>5, <3>7 DEF Tick, Guarded
    <2> QED BY <2>1 DEF TransfersGuarded
<1>15. ASSUME UNCHANGED vars PROVE TransfersGuarded'
    BY <1>00, <1>15 DEF vars, TransfersGuarded, Guarded, InTransfer
<1>16. ASSUME NEW a \in Assignment, SwitchLocks(a) PROVE TransfersGuarded'
    <2>1. \A b \in Assignment : Guarded(b) => Guarded(b)'
        <3>1. CASE Grant(a)
            BY <1>0, <1>16, <3>1, GrantGuards DEF SwitchLocks
        <3>2. CASE UNCHANGED folderLocks
            BY <1>16, <3>2 DEF SwitchLocks, Guarded
        <3> QED BY <1>16, <3>1, <3>2 DEF SwitchLocks
    <2> QED BY <1>00, <1>16, <2>1, GuardedKept DEF SwitchLocks, InTransfer
<1>17. ASSUME NEW a \in Assignment, SwitchReleases(a) PROVE TransfersGuarded'
    BY <1>00, <1>17, GuardedKept DEF SwitchReleases, InTransfer, Guarded
<1>18. ASSUME NEW a \in keyless, ServeSwitchRelease(a) PROVE TransfersGuarded'
    <2>1. ASSUME NEW b \in Assignment, InTransfer(b)', b \notin exposed'
          PROVE  InTransfer(b) /\ b \notin exposed /\ folderLocks'[runKey[b]] = folderLocks[runKey[b]]
        <3>1. InTransfer(b) /\ b \notin exposed /\ b \notin TransfersInto(HostOf[a], dbKey[a])
            BY <1>18, <2>1 DEF ServeSwitchRelease, InTransfer
        <3>2. Guarded(b) /\ runKey[b] \in Key
            BY <1>0, <1>00, <3>1 DEF TransfersGuarded, TypeInv, TypeOK
        <3>3. ~(dbKey[a] = runKey[b] /\ Owns(folderLocks[dbKey[a]], HostOf[a], None))
            BY <3>1, <3>2 DEF TransfersInto, Owns, Guarded
        <3> QED BY <1>0, <1>18, <3>1, <3>2, <3>3 DEF ServeSwitchRelease, TypeInv, TypeOK
    <2> QED BY <1>00, <1>18, <2>1, GuardedKept DEF ServeSwitchRelease, Guarded
<1> QED
    BY <1>1, <1>2, <1>3, <1>4, <1>5, <1>6, <1>7, <1>8, <1>9, <1>10, <1>11, <1>12,
       <1>13, <1>14, <1>15, <1>16, <1>17, <1>18
    DEF Next, RunNext, RunStep, HostNext, ServeRequest

\* Two hosts transfer into one destination together only if a run of theirs
\* is exposed: no heartbeat for a whole TTL, an edited destination, a release
\* without an id, a second run of its host.  Whatever else crashes, is given up
\* or arrives late (routes/operations.ts, lock.ts, runLocked), they do not.
THEOREM Exclusion == Spec => []CrossHostExclusion
<1>1. ExclusionInv => CrossHostExclusion
    BY DEF ExclusionInv, TransfersGuarded, Guarded, CrossHostExclusion
<1>2. Init => TransfersGuarded
    BY DEF Init, TransfersGuarded, InTransfer
<1>3. ExclusionInv /\ [Next]_vars => ExclusionInv'
    BY ExclusionNext
<1> QED BY HandlesAlways, <1>1, <1>2, <1>3, PTL DEF Spec, ExclusionInv
-----------------------------------------------------------------------------
(* The inductive invariant of an archive                                    *)

\* What a path of the source holds.
Content == Seed!Version \cup {Absent, Link}

\* The source's tree is the last of its history, and the next edit makes a
\* version nobody has seen.
SourceKnown ==
    /\ Seed!Contents(source) \in past
    /\ \A p \in Seed!Path : source[p].content \in Seed!Version =>
           source[p].content <= sourceEdits + 1

\* What the walk has hashed was in a tree of the past, file by file, and is
\* no version of the future.
HashedFromPast ==
    /\ manifest \in [Seed!Path -> Content]
    /\ \A p \in Seed!Path : manifest[p] \in Seed!Version => manifest[p] <= sourceEdits + 1
    /\ \A p \in Seed!Path : (spc = "walk" => p < next) /\ spc \notin {"idle", "done"} =>
           \E t \in past : t[p] = manifest[p]

\* What tar has to pack can be represented.
Representable(m) == \A p \in Seed!Path : m[p] # Link

\* Between tar's start and its end one tree of the past, the one at its start,
\* holds every file that tar packed, or would pack now, as it was hashed.
PackedAsHashed ==
    spc = "tar" =>
        /\ Representable(manifest)
        /\ \E t \in past : \A p \in Seed!Path :
               /\ manifest[p] \in Seed!Version
               /\ source[p].content = manifest[p] \/ archive[p] = manifest[p]
               => t[p] = manifest[p]

\* The files an archive and a manifest agree on were in one tree of the past,
\* and no file that was always there is missing.
Sound(trees, a, m) ==
    /\ m \in [Seed!Path -> Content] /\ Representable(m)
    /\ \E t \in trees : \A p \in Seed!Path : m[p] \in Seed!Version /\ a[p] = m[p] => t[p] = m[p]
    /\ \A p \in Seed!Path : \E t \in trees : t[p] = m[p]

UploadsSound == spc \in {"upload", "describe", "record"} => Sound(past, archive, manifest)

\* The facts are recorded once, at the source's last step.
FactsSound == facts # Gone => spc = "done" /\ Sound(past, facts.archive, facts.manifest)

\* What the target has downloaded has the recorded digests.
DownloadsRecorded ==
    /\ tpc \in {"manifest", "extract", "publish", "rmdir", "rename"} =>
           facts # Gone /\ payload = facts.archive
    /\ tpc \in {"extract", "publish", "rmdir", "rename"} => document = facts.manifest

\* The staging tree holds members of the archive, and once it is verified
\* all of them and those of the manifest.
StagedFromArchive ==
    /\ tpc = "extract" =>
           staging = Gone \/ \A p \in Seed!Path : staging[p] \in {Absent, payload[p]}
    /\ tpc \in {"publish", "rmdir", "rename"} =>
           staging # Gone /\ staging = payload /\ staging = document

TargetStands == tpc \in {"resync", "complete"} => target # Gone

\* The remote holds what the source synced until a resync fails the job.
PeerSynced == seedPhase # Seed!Failed => \E t \in past : peer = Seed!Synced(t)

SettledOnPast == tpc = "complete" => \E t \in past : settled = Seed!Synced(t)

ArchiveInv ==
    /\ Seed!TypeOK
    /\ SourceKnown /\ HashedFromPast /\ PackedAsHashed /\ UploadsSound
    /\ FactsSound /\ DownloadsRecorded /\ StagedFromArchive
    /\ TargetStands /\ PeerSynced /\ SettledOnPast
    /\ Seed!PublishedIsSnapshot /\ Seed!CompletedIsSettled
-----------------------------------------------------------------------------
(* Types                                                                   *)

\* What is not there is no tree.
LEMMA ArchiveFacts ==
    /\ Paths \in Nat /\ SourceEdits \in Nat /\ MaxOwn \in Nat /\ MaxFaults \in Nat
    /\ {Absent, Link, Own} \cap Nat = {}
    /\ Absent # Link /\ Absent # Own /\ Link # Own
    /\ Gone \notin Seed!Tree
BY ArchiveAssumption DEF Seed!Tree, Seed!Path, Seed!Version

\* The contents of a tree of the source are a tree of the history.
LEMMA ContentsTyped ==
    ASSUME NEW s, s \in [Seed!Path -> [content : Content, stat : 0 .. SourceEdits]]
    PROVE  /\ Seed!Contents(s) \in [Seed!Path -> Content]
           /\ Seed!Contents(s) \in Seed!Tree
           /\ \A p \in Seed!Path : Seed!Contents(s)[p] = s[p].content
BY DEF Seed!Contents, Content, Seed!Tree

LEMMA SyncedTyped ==
    ASSUME NEW t \in Seed!Tree
    PROVE  Seed!Synced(t) \in Seed!Tree
BY DEF Seed!Synced, Seed!Tree

\* A remote and a directory merge to a tree, whatever paths are done.
LEMMA MergedTyped ==
    ASSUME NEW S, target \in Seed!Tree, peer \in Seed!Tree
    PROVE  Seed!Merged(S) \in Seed!Tree
BY DEF Seed!Merged, Seed!Tree

LEMMA EmptyTyped == Seed!Empty \in Seed!Tree /\ Seed!Empty \in [Seed!Path -> Content]
BY DEF Seed!Empty, Seed!Tree, Content

LEMMA ArchiveInitTyped == Seed!Init => Seed!TypeOK
<1> SUFFICES ASSUME Seed!Init PROVE Seed!TypeOK
    OBVIOUS
<1> USE ArchiveFacts DEF Seed!Planned, Seed!Completed
<1>1. \A p \in Seed!Path : 1 \in Seed!Version
    BY DEF Seed!Version
<1>2. [p \in Seed!Path |-> 1] \in Seed!Tree
    BY <1>1 DEF Seed!Tree
<1>3. source \in
        [Seed!Path -> [content : Seed!Version \cup {Absent, Link}, stat : 0 .. SourceEdits]]
    BY <1>1 DEF Seed!Init
<1>4. past \subseteq Seed!Tree /\ peer \in Seed!Tree
    BY <1>2 DEF Seed!Init
<1>5. target \in Seed!Directory
    BY EmptyTyped DEF Seed!Init, Seed!Directory
<1> QED
    BY <1>3, <1>4, <1>5, EmptyTyped DEF Seed!Init, Seed!TypeOK, Seed!Directory

\* What the endings of the two sides do to the types they touch.
LEMMA SourceEndTyped ==
    ASSUME Seed!TypeOK,
           spc' \in {"idle", "done"}, next' = 1, manifest' = Seed!Empty, archive' = Seed!Empty,
           seedPhase' \in {seedPhase, Seed!Failed},
           objects' \in {objects, [archive |-> Gone, manifest |-> Gone]},
           UNCHANGED <<source, sourceEdits, past, facts, Seed!targetSide, Seed!disk, peer, settled>>
    PROVE  Seed!TypeOK'
<1> USE ArchiveFacts DEF Seed!Planned, Seed!Failed, Seed!Completed
<1>1. seedPhase' \in Seed!Planned .. Seed!Completed
    BY DEF Seed!TypeOK
<1>2. objects' \in [archive : Seed!Directory, manifest : Seed!Directory]
    BY DEF Seed!TypeOK, Seed!Directory
<1> QED
    BY <1>1, <1>2, EmptyTyped DEF Seed!TypeOK, Seed!targetSide, Seed!work, Seed!disk

LEMMA TargetEndTyped ==
    ASSUME Seed!TypeOK,
           tpc' \in {"idle", "done"}, payload' = Gone, document' = Gone,
           staging' \in {staging, Gone},
           seedPhase' \in {seedPhase, Seed!Failed, Seed!Completed},
           objects' \in {objects, [archive |-> Gone, manifest |-> Gone]},
           UNCHANGED <<source, sourceEdits, past, facts, Seed!sourceSide, Seed!disk, peer, settled>>
    PROVE  Seed!TypeOK'
<1> USE ArchiveFacts DEF Seed!Planned, Seed!Failed, Seed!Completed
<1>1. seedPhase' \in Seed!Planned .. Seed!Completed
    BY DEF Seed!TypeOK
<1>2. objects' \in [archive : Seed!Directory, manifest : Seed!Directory]
    BY DEF Seed!TypeOK, Seed!Directory
<1>3. staging' \in Seed!Directory /\ payload' \in Seed!Directory /\ document' \in Seed!Directory
    BY DEF Seed!TypeOK, Seed!Directory
<1> QED
    BY <1>1, <1>2, <1>3 DEF Seed!TypeOK, Seed!sourceSide, Seed!disk

\* An ending of the source, as SourceEndTyped takes it.
LEMMA SourceEndings ==
    ASSUME Seed!TypeOK,
           Seed!SourceFails \/ Seed!SourceStops \/ Seed!SourceBreaks \/ Seed!SourceCrash
    PROVE  /\ spc' \in {"idle", "done"}
           /\ next' = 1 /\ manifest' = Seed!Empty /\ archive' = Seed!Empty
           /\ seedPhase' \in {seedPhase, Seed!Failed} /\ (Seed!Terminal => seedPhase' = seedPhase)
           /\ objects' \in {objects, [archive |-> Gone, manifest |-> Gone]}
           /\ UNCHANGED <<source, sourceEdits, past, facts, Seed!targetSide, Seed!disk, peer,
                          settled>>
<1>1. CASE Seed!SourceFails
    BY <1>1 DEF Seed!SourceFails, Seed!SourceOver, Seed!FailedJob, Seed!Cleaned
<1>2. CASE Seed!SourceStops
    BY <1>2 DEF Seed!SourceStops, Seed!SourceOver, Seed!Cleaned
<1>3. CASE Seed!SourceBreaks
    BY <1>3 DEF Seed!SourceBreaks
<1>4. CASE Seed!SourceCrash
    BY <1>4 DEF Seed!SourceCrash, Seed!SourceFrame, Seed!job
<1> QED
    BY <1>1, <1>2, <1>3, <1>4

LEMMA TargetEndings ==
    ASSUME Seed!TypeOK,
           Seed!TargetFails \/ Seed!TargetStops \/ Seed!TargetBreaks \/ Seed!TargetCrash
    PROVE  /\ tpc' \in {"idle", "done"} /\ payload' = Gone /\ document' = Gone
           /\ staging' \in {staging, Gone}
           /\ seedPhase' \in {seedPhase, Seed!Failed} /\ (Seed!Terminal => seedPhase' = seedPhase)
           /\ objects' \in {objects, [archive |-> Gone, manifest |-> Gone]}
           /\ UNCHANGED <<source, sourceEdits, past, facts, Seed!sourceSide, Seed!disk, peer,
                          settled>>
<1>1. CASE Seed!TargetFails
    BY <1>1 DEF Seed!TargetFails, Seed!TargetOver, Seed!FailedJob, Seed!Cleaned
<1>2. CASE Seed!TargetStops
    BY <1>2 DEF Seed!TargetStops, Seed!TargetOver, Seed!Cleaned
<1>3. CASE Seed!TargetBreaks
    BY <1>3 DEF Seed!TargetBreaks
<1>4. CASE Seed!TargetCrash
    BY <1>4 DEF Seed!TargetCrash, Seed!TargetFrame
<1> QED
    BY <1>1, <1>2, <1>3, <1>4
LEMMA OutsideTyped ==
    ASSUME Seed!TypeOK, SourceKnown, Seed!Outside
    PROVE  Seed!TypeOK'
<1> USE ArchiveFacts DEF Seed!Planned, Seed!Failed, Seed!Completed
<1>1. ASSUME NEW p \in Seed!Path, Seed!Edit(p) PROVE Seed!TypeOK'
  <2>1. sourceEdits' \in 0 .. SourceEdits
      BY <1>1 DEF Seed!Edit, Seed!TypeOK
  <2>2. /\ sourceEdits + 2 \in Seed!Version
        /\ sourceEdits + 1 \in 0 .. SourceEdits
      BY <1>1 DEF Seed!Edit, Seed!TypeOK, Seed!Version
  <2>3. source' \in
          [Seed!Path -> [content : Seed!Version \cup {Absent, Link}, stat : 0 .. SourceEdits]]
    <3>1. ASSUME NEW s \in {source[p].stat, sourceEdits + 1},
                 source' = [source EXCEPT ![p] = [content |-> sourceEdits + 2, stat |-> s]]
          PROVE  source' \in
                   [Seed!Path -> [content : Seed!Version \cup {Absent, Link},
                                  stat : 0 .. SourceEdits]]
      <4>1. s \in 0 .. SourceEdits
          BY <2>2 DEF Seed!TypeOK
      <4>2. [content |-> sourceEdits + 2, stat |-> s]
                \in [content : Seed!Version \cup {Absent, Link}, stat : 0 .. SourceEdits]
          BY <2>2, <4>1
      <4> QED
          BY <3>1, <4>2 DEF Seed!TypeOK
    <3>2. ASSUME NEW c \in {Absent, Link},
                 source' = [source EXCEPT ![p] = [content |-> c, stat |-> 0]]
          PROVE  source' \in
                   [Seed!Path -> [content : Seed!Version \cup {Absent, Link},
                                  stat : 0 .. SourceEdits]]
      <4>1. [content |-> c, stat |-> 0]
                \in [content : Seed!Version \cup {Absent, Link}, stat : 0 .. SourceEdits]
          OBVIOUS
      <4> QED
          BY <3>2, <4>1 DEF Seed!TypeOK
    <3> QED
        BY <1>1, <3>1, <3>2 DEF Seed!Edit
  <2>4. Seed!Contents(source') \in Seed!Tree
      BY <2>3, ContentsTyped DEF Content
  <2>5. past' \subseteq Seed!Tree
      BY <1>1, <2>4 DEF Seed!Edit, Seed!TypeOK
  <2> QED
      BY <1>1, <2>1, <2>3, <2>5
      DEF Seed!Edit, Seed!TypeOK, Seed!job, Seed!sourceSide, Seed!targetSide, Seed!work, Seed!disk
<1>2. ASSUME NEW p \in Seed!Path, Seed!PutOwn(p) PROVE Seed!TypeOK'
  <2> DEFINE held == IF target = Gone THEN Seed!Empty ELSE target
  <2>1. held \in Seed!Tree
      BY EmptyTyped DEF Seed!TypeOK, Seed!Directory
  <2> HIDE DEF held
  <2>2. [held EXCEPT ![p] = Own] \in Seed!Tree
      BY <2>1 DEF Seed!Tree
  <2>3. target' \in Seed!Directory
      BY <1>2, <2>2 DEF Seed!PutOwn, Seed!Directory, held
  <2>4. own' \in 0 .. MaxOwn
      BY <1>2 DEF Seed!PutOwn, Seed!TypeOK
  <2> QED
      BY <1>2, <2>3, <2>4 DEF Seed!PutOwn, Seed!TypeOK, Seed!job, Seed!sourceSide, Seed!targetSide,
                              Seed!work
<1>3. ASSUME Seed!SyncSource PROVE Seed!TypeOK'
  <2>1. Seed!Contents(source) \in Seed!Tree
      BY ContentsTyped DEF Seed!TypeOK, Content
  <2>2. peer' \in Seed!Tree
      BY <1>3, <2>1, SyncedTyped DEF Seed!SyncSource
  <2> QED
      BY <1>3, <2>2 DEF Seed!SyncSource, Seed!TypeOK, Seed!job, Seed!sourceSide, Seed!targetSide,
                        Seed!work, Seed!disk
<1>4. ASSUME Seed!JobEnds PROVE Seed!TypeOK'
    BY <1>4 DEF Seed!JobEnds, Seed!Fault, Seed!TypeOK, Seed!sourceSide, Seed!targetSide, Seed!work,
                Seed!disk
<1> QED
    BY <1>1, <1>2, <1>3, <1>4 DEF Seed!Outside

LEMMA SourceTyped ==
    ASSUME Seed!TypeOK, Seed!SourceStep
    PROVE  Seed!TypeOK'
<1> USE ArchiveFacts DEF Seed!Planned, Seed!Measuring, Seed!Archiving, Seed!Uploading, Seed!Failed,
                         Seed!Completed
<1> USE DEF Seed!SourceFrame, Seed!targetSide, Seed!work, Seed!disk, Seed!job
<1>0. CASE Seed!SourceFails \/ Seed!SourceStops \/ Seed!SourceBreaks \/ Seed!SourceCrash
    BY <1>0, SourceEndings, SourceEndTyped
<1>1. CASE Seed!SourceStart
  <2>1. CASE spc' = "walk"
      BY <1>1, <2>1, EmptyTyped DEF Seed!SourceStart, Seed!SourceStops, Seed!SourceOver, Seed!TypeOK
  <2>2. CASE spc' = "done" /\ Seed!Terminal
      BY <1>1, <2>2 DEF Seed!SourceStart, Seed!TypeOK
  <2> QED
      BY <1>0, <1>1, <2>1, <2>2 DEF Seed!SourceStart
<1>2. CASE Seed!Hash
  <2>1. manifest' \in Seed!Tree
      BY <1>2 DEF Seed!Hash, Seed!TypeOK, Seed!Tree
  <2>2. next' \in 1 .. Paths + 1
      BY <1>2 DEF Seed!Hash, Seed!TypeOK, Seed!Path
  <2> QED
      BY <1>2, <2>1, <2>2 DEF Seed!Hash, Seed!TypeOK
<1>3. CASE Seed!StartTar
    BY <1>0, <1>3, EmptyTyped DEF Seed!StartTar, Seed!TypeOK
<1>4. CASE Seed!Pack
  <2>1. CASE ~(manifest[next] # Absent /\ source[next].content = Absent)
    <3>1. archive' \in Seed!Tree
        BY <1>4, <2>1 DEF Seed!Pack, Seed!TypeOK, Seed!Tree
    <3>2. next' \in 1 .. Paths + 1
        BY <1>4, <2>1 DEF Seed!Pack, Seed!TypeOK, Seed!Path
    <3> QED
        BY <1>4, <2>1, <3>1, <3>2 DEF Seed!Pack, Seed!TypeOK
  <2> QED
      BY <1>0, <1>4, <2>1 DEF Seed!Pack
<1>5. CASE Seed!FinishTar
    BY <1>0, <1>5 DEF Seed!FinishTar, Seed!TypeOK
<1>6. CASE Seed!UploadArchive
  <2>1. CASE Seed!Accepted(objects.archive, archive)
    <3>1. objects' \in [archive : Seed!Directory, manifest : Seed!Directory]
        BY <1>6, <2>1 DEF Seed!UploadArchive, Seed!TypeOK, Seed!Directory
    <3> QED
        BY <1>6, <2>1, <3>1 DEF Seed!UploadArchive, Seed!TypeOK
  <2> QED
      BY <1>0, <1>6, <2>1 DEF Seed!UploadArchive
<1>7. CASE Seed!UploadManifest
  <2>1. CASE Seed!Accepted(objects.manifest, manifest)
    <3>1. objects' \in [archive : Seed!Directory, manifest : Seed!Directory]
        BY <1>7, <2>1 DEF Seed!UploadManifest, Seed!TypeOK, Seed!Directory
    <3> QED
        BY <1>7, <2>1, <3>1 DEF Seed!UploadManifest, Seed!TypeOK
  <2> QED
      BY <1>0, <1>7, <2>1 DEF Seed!UploadManifest
<1>8. CASE Seed!RecordFacts
  <2>1. CASE ~Seed!Terminal
    <3>1. facts' \in [archive : Seed!Tree, manifest : Seed!Tree]
        BY <1>8, <2>1 DEF Seed!RecordFacts, Seed!TypeOK
    <3> QED
        BY <1>8, <2>1, <3>1, EmptyTyped DEF Seed!RecordFacts, Seed!TypeOK
  <2> QED
      BY <1>0, <1>8, <2>1 DEF Seed!RecordFacts
<1> QED
    BY <1>0, <1>1, <1>2, <1>3, <1>4, <1>5, <1>6, <1>7, <1>8 DEF Seed!SourceStep

LEMMA TargetTyped ==
    ASSUME Seed!TypeOK, TargetStands, FactsSound, DownloadsRecorded, StagedFromArchive,
           Seed!TargetStep
    PROVE  Seed!TypeOK'
<1> USE ArchiveFacts DEF Seed!Planned, Seed!Downloading, Seed!VerifyingArchive, Seed!Extracting,
        Seed!VerifyingTarget, Seed!Publishing, Seed!Baseline, Seed!Failed, Seed!Completed
<1> USE DEF Seed!TargetFrame, Seed!sourceSide, Seed!work, Seed!disk
<1>0. CASE Seed!TargetFails \/ Seed!TargetStops \/ Seed!TargetBreaks \/ Seed!TargetCrash
    BY <1>0, TargetEndings, TargetEndTyped
<1>1. CASE Seed!TargetStart
    BY <1>1 DEF Seed!TargetStart, Seed!TypeOK
<1>2. CASE Seed!GetArchive
    BY <1>0, <1>2 DEF Seed!GetArchive, Seed!TypeOK, Seed!Directory
<1>3. CASE Seed!GetManifest
    BY <1>0, <1>3 DEF Seed!GetManifest, Seed!TypeOK, Seed!Directory
<1>4. CASE Seed!Extract
  <2> DEFINE held == IF staging = Gone THEN Seed!Empty ELSE staging
  <2>1. CASE staging = Gone /\ ~Seed!Granted(Seed!Extracting)
      BY <1>0, <1>4, <2>1 DEF Seed!Extract
  <2>2. CASE ~(staging = Gone /\ ~Seed!Granted(Seed!Extracting))
    <3>1. held \in Seed!Tree
        BY EmptyTyped DEF Seed!TypeOK, Seed!Directory
    <3>2. payload \in Seed!Tree
        BY <1>4 DEF Seed!Extract, DownloadsRecorded, Seed!TypeOK
    <3> HIDE DEF held
    <3>3. PICK p \in Seed!Path : staging' = [held EXCEPT ![p] = payload[p]]
        BY <1>4, <2>2 DEF Seed!Extract, held
    <3>4. staging' \in Seed!Directory
        BY <3>1, <3>2, <3>3 DEF Seed!Tree, Seed!Directory
    <3> QED
        BY <1>4, <2>2, <3>4 DEF Seed!Extract, Seed!TypeOK
  <2> QED
      BY <2>1, <2>2
<1>5. CASE Seed!Verify
    BY <1>0, <1>5 DEF Seed!Verify, Seed!TypeOK
<1>6. CASE Seed!Look
    BY <1>0, <1>6 DEF Seed!Look, Seed!TypeOK
<1>7. CASE Seed!Rmdir
    BY <1>0, <1>7 DEF Seed!Rmdir, Seed!TypeOK, Seed!Directory
<1>8. CASE Seed!Rename
    BY <1>0, <1>8 DEF Seed!Rename, Seed!TypeOK, Seed!Directory
<1>9. ASSUME NEW S \in SUBSET Seed!Path, Seed!Resync(S) PROVE Seed!TypeOK'
  <2>1. CASE ~Seed!Granted(Seed!Baseline)
      BY <1>0, <1>9, <2>1 DEF Seed!Resync
  <2>2. CASE Seed!Granted(Seed!Baseline)
    <3>1. target \in Seed!Tree
        BY <1>9 DEF Seed!Resync, TargetStands, Seed!TypeOK, Seed!Directory
    <3>2. Seed!Merged(S) \in Seed!Tree
        BY <3>1, MergedTyped DEF Seed!TypeOK
    <3>3. [p \in Seed!Path |-> IF p \in S THEN Seed!Merged(S)[p] ELSE peer[p]] \in Seed!Tree
        BY <3>2 DEF Seed!TypeOK, Seed!Tree
    <3>4. target' \in Seed!Directory /\ peer' \in Seed!Tree
        BY <1>9, <2>2, <3>2, <3>3 DEF Seed!Resync, Seed!Directory
    <3>5. settled' \in Seed!Directory /\ payload' \in Seed!Directory /\ document' \in Seed!Directory
        BY <1>9, <2>2 DEF Seed!Resync, Seed!TypeOK, Seed!Directory
    <3>6. objects' \in [archive : Seed!Directory, manifest : Seed!Directory]
        BY <1>9, <2>2 DEF Seed!Resync, Seed!TypeOK, Seed!Directory
    <3>7. seedPhase' \in Seed!Planned .. Seed!Completed /\ tpc' \in {"complete", "done"}
        BY <1>9, <2>2 DEF Seed!Resync
    <3>8. UNCHANGED <<source, sourceEdits, past, facts, Seed!sourceSide, staging, own, published>>
        BY <1>9, <2>2 DEF Seed!Resync
    <3> QED
        BY <3>4, <3>5, <3>6, <3>7, <3>8 DEF Seed!TypeOK
  <2> QED
      BY <2>1, <2>2
<1>10. CASE Seed!Complete
    BY <1>10, TargetEndTyped DEF Seed!Complete, Seed!TargetOver, Seed!Cleaned
<1> QED
    BY <1>0, <1>1, <1>2, <1>3, <1>4, <1>5, <1>6, <1>7, <1>8, <1>9, <1>10 DEF Seed!TargetStep
-----------------------------------------------------------------------------
(* The source's side                                                       *)

\* A history that grows keeps what is sound.
LEMMA SoundMonotone ==
    ASSUME NEW P, NEW Q, P \subseteq Q, NEW a, NEW m, Sound(P, a, m)
    PROVE  Sound(Q, a, m)
BY DEF Sound

\* What an edit does to the contents and to the history.
LEMMA EditEffect ==
    ASSUME Seed!TypeOK, SourceKnown, NEW p \in Seed!Path, Seed!Edit(p)
    PROVE  /\ past \subseteq past' /\ Seed!Contents(source') \in past'
           /\ sourceEdits' = sourceEdits + 1
           /\ \A q \in Seed!Path :
                  source'[q].content \in {source[q].content, sourceEdits + 2, Absent, Link}
           /\ UNCHANGED <<Seed!job, objects, Seed!sourceSide, Seed!targetSide, Seed!disk, peer,
                          settled>>
<1>1. \A q \in Seed!Path :
                  source'[q].content \in {source[q].content, sourceEdits + 2, Absent, Link}
  <2>1. ASSUME NEW s, source' = [source EXCEPT ![p] = [content |-> sourceEdits + 2, stat |-> s]]
        PROVE  \A q \in Seed!Path :
                  source'[q].content \in {source[q].content, sourceEdits + 2, Absent, Link}
      BY <2>1 DEF Seed!TypeOK
  <2>2. ASSUME NEW c \in {Absent, Link},
               source' = [source EXCEPT ![p] = [content |-> c, stat |-> 0]]
        PROVE  \A q \in Seed!Path :
                  source'[q].content \in {source[q].content, sourceEdits + 2, Absent, Link}
      BY <2>2 DEF Seed!TypeOK
  <2> QED
      BY <2>1, <2>2 DEF Seed!Edit
<1> QED
    BY <1>1 DEF Seed!Edit

LEMMA EditKeepsSource ==
    ASSUME Seed!TypeOK, SourceKnown, HashedFromPast, PackedAsHashed, UploadsSound, FactsSound,
           NEW p \in Seed!Path, Seed!Edit(p), Seed!TypeOK'
    PROVE  (SourceKnown /\ HashedFromPast /\ PackedAsHashed /\ UploadsSound /\ FactsSound)'
<1> USE ArchiveFacts, EditEffect
<1>0. sourceEdits \in Nat /\ sourceEdits + 2 \notin 1 .. sourceEdits + 1
    BY DEF Seed!TypeOK
<1>1. SourceKnown'
  <2>1. ASSUME NEW q \in Seed!Path, source'[q].content \in Seed!Version
        PROVE  source'[q].content <= sourceEdits' + 1
      BY <1>0, <2>1 DEF SourceKnown, Seed!Version
  <2> QED
      BY <2>1 DEF SourceKnown
<1>2. HashedFromPast'
  <2>1. \A q \in Seed!Path : manifest[q] \in Seed!Version => manifest[q] <= sourceEdits' + 1
      BY <1>0 DEF HashedFromPast, Seed!Version
  <2> QED
      BY <2>1 DEF HashedFromPast, Seed!sourceSide
<1>3. PackedAsHashed'
  <2> SUFFICES ASSUME spc = "tar" PROVE PackedAsHashed'
      BY DEF PackedAsHashed, Seed!sourceSide
  <2>1. PICK t \in past : \A q \in Seed!Path :
            /\ manifest[q] \in Seed!Version
            /\ source[q].content = manifest[q] \/ archive[q] = manifest[q]
            => t[q] = manifest[q]
      BY DEF PackedAsHashed
  <2>2. ASSUME NEW q \in Seed!Path, manifest[q] \in Seed!Version, source'[q].content = manifest[q]
        PROVE  source[q].content = manifest[q]
      BY <1>0, <2>2 DEF HashedFromPast, Seed!Version
  <2>3. \A q \in Seed!Path :
            /\ manifest[q] \in Seed!Version
            /\ source'[q].content = manifest[q] \/ archive[q] = manifest[q]
            => t[q] = manifest[q]
      BY <2>1, <2>2
  <2> QED
      BY <2>3 DEF PackedAsHashed, Seed!sourceSide
<1>4. UploadsSound' /\ FactsSound'
    BY SoundMonotone DEF UploadsSound, FactsSound, Seed!sourceSide, Seed!job
<1> QED
    BY <1>1, <1>2, <1>3, <1>4

\* The source's side stands as long as its variables and the facts do.
LEMMA SourceUndisturbed ==
    ASSUME SourceKnown, HashedFromPast, PackedAsHashed, UploadsSound, FactsSound,
           UNCHANGED <<source, sourceEdits, past, facts, Seed!sourceSide>>
    PROVE  (SourceKnown /\ HashedFromPast /\ PackedAsHashed /\ UploadsSound /\ FactsSound)'
BY DEF SourceKnown, HashedFromPast, PackedAsHashed, UploadsSound, FactsSound, Seed!sourceSide

LEMMA SourceKeepsSource ==
    ASSUME Seed!TypeOK, SourceKnown, HashedFromPast, PackedAsHashed, UploadsSound, FactsSound,
           Seed!SourceStep
    PROVE  (SourceKnown /\ HashedFromPast /\ PackedAsHashed /\ UploadsSound /\ FactsSound)'
<1> USE ArchiveFacts
<1> USE DEF Seed!SourceFrame, Seed!job
<1>0. CASE Seed!SourceFails \/ Seed!SourceStops \/ Seed!SourceBreaks \/ Seed!SourceCrash
  <2>1. /\ spc' \in {"idle", "done"} /\ manifest' = Seed!Empty
        /\ UNCHANGED <<source, sourceEdits, past, facts>>
      BY <1>0, SourceEndings
  <2>2. spc = "done" => spc' = "done"
    <3>1. CASE Seed!SourceFails \/ Seed!SourceStops
        BY <3>1 DEF Seed!SourceFails, Seed!SourceStops, Seed!SourceOver
    <3>2. CASE Seed!SourceBreaks \/ Seed!SourceCrash
        BY <3>2 DEF Seed!SourceBreaks, Seed!SourceCrash
    <3> QED
        BY <1>0, <3>1, <3>2
  <2>3. HashedFromPast'
      BY <2>1, EmptyTyped DEF HashedFromPast, Seed!Empty, Seed!Version
  <2> QED
      BY <2>1, <2>2, <2>3 DEF SourceKnown, PackedAsHashed, UploadsSound, FactsSound
<1>1. CASE Seed!SourceStart
  <2>1. CASE spc' = "walk"
    <3>1. manifest' = Seed!Empty /\ next' = 1 /\ UNCHANGED <<source, sourceEdits, past, facts>>
        BY <1>1, <2>1 DEF Seed!SourceStart, Seed!SourceStops, Seed!SourceOver
    <3>2. HashedFromPast'
        BY <2>1, <3>1, EmptyTyped DEF HashedFromPast, Seed!Empty, Seed!Version, Seed!Path
    <3> QED
        BY <1>1, <2>1, <3>1, <3>2 DEF Seed!SourceStart, SourceKnown, PackedAsHashed, UploadsSound,
                                      FactsSound
  <2>2. CASE spc' = "done" /\ Seed!Terminal
      BY <1>1, <2>2
      DEF Seed!SourceStart, SourceKnown, HashedFromPast, PackedAsHashed, UploadsSound, FactsSound
  <2> QED
      BY <1>0, <1>1, <2>1, <2>2 DEF Seed!SourceStart
<1>2. CASE Seed!Hash
  <2>1. /\ spc = "walk" /\ spc' = "walk" /\ next \in Seed!Path /\ next' = next + 1
        /\ manifest' = [manifest EXCEPT ![next] = source[next].content]
        /\ UNCHANGED <<source, sourceEdits, past, facts>>
      BY <1>2 DEF Seed!Hash
  <2>2. source[next].content \in Content
      BY <2>1 DEF Seed!TypeOK, Content
  <2>3. manifest' \in [Seed!Path -> Content]
      BY <2>1, <2>2 DEF HashedFromPast
  <2>4. \A p \in Seed!Path : manifest'[p] \in Seed!Version => manifest'[p] <= sourceEdits + 1
      BY <2>1 DEF HashedFromPast, SourceKnown
  <2>5. \A p \in Seed!Path : p < next' => \E t \in past : t[p] = manifest'[p]
    <3> TAKE p \in Seed!Path
    <3> HAVE p < next'
    <3>1. CASE p = next
      <4>1. Seed!Contents(source)[p] = manifest'[p]
          BY <2>1, <3>1 DEF Seed!Contents, HashedFromPast
      <4> QED
          BY <4>1 DEF SourceKnown
    <3>2. CASE p # next
      <4>1. p < next
          BY <2>1, <3>2 DEF Seed!Path
      <4> QED
          BY <2>1, <3>2, <4>1 DEF HashedFromPast
    <3> QED
        BY <3>1, <3>2
  <2> QED
      BY <2>1, <2>3, <2>4, <2>5
      DEF SourceKnown, HashedFromPast, PackedAsHashed, UploadsSound, FactsSound
<1>3. CASE Seed!StartTar
  <2>1. CASE Seed!Granted(Seed!Archiving) /\ ~(Seed!Blocked(manifest) \/ manifest = Seed!Empty)
    <3>1. /\ spc = "walk" /\ spc' = "tar" /\ next \notin Seed!Path /\ ~Seed!Blocked(manifest)
          /\ archive' = Seed!Empty /\ UNCHANGED <<source, sourceEdits, past, facts, manifest>>
        BY <1>3, <2>1 DEF Seed!StartTar
    <3>2. \A p \in Seed!Path : p < next
        BY <3>1 DEF Seed!TypeOK, Seed!Path
    <3>3. HashedFromPast'
        BY <3>1, <3>2 DEF HashedFromPast
    <3>4. Representable(manifest)
        BY <3>1 DEF Seed!Blocked, Representable
    <3>5. \A p \in Seed!Path :
              /\ manifest[p] \in Seed!Version
              /\ source[p].content = manifest[p] \/ archive'[p] = manifest[p]
              => Seed!Contents(source)[p] = manifest[p]
        BY <3>1 DEF Seed!Contents, Seed!Empty, Seed!Version
    <3>6. PackedAsHashed'
        BY <3>1, <3>4, <3>5 DEF PackedAsHashed, SourceKnown, Representable
    <3> QED
        BY <3>1, <3>3, <3>6 DEF SourceKnown, UploadsSound, FactsSound
  <2> QED
      BY <1>0, <1>3, <2>1 DEF Seed!StartTar
<1>4. CASE Seed!Pack
  <2>1. CASE ~(manifest[next] # Absent /\ source[next].content = Absent)
    <3>1. /\ spc = "tar" /\ spc' = "tar" /\ next \in Seed!Path
          /\ archive' = [archive EXCEPT ![next] =
                  IF manifest[next] = Absent THEN Absent ELSE source[next].content]
          /\ UNCHANGED <<source, sourceEdits, past, facts, manifest>>
        BY <1>4, <2>1 DEF Seed!Pack
    <3>2. \A p \in Seed!Path : manifest[p] \in Seed!Version /\ archive'[p] = manifest[p]
              => source[p].content = manifest[p] \/ archive[p] = manifest[p]
        BY <3>1 DEF Seed!TypeOK, Seed!Tree, Seed!Version
    <3>3. PackedAsHashed'
        BY <3>1, <3>2 DEF PackedAsHashed
    <3>4. HashedFromPast'
        BY <3>1 DEF HashedFromPast
    <3> QED
        BY <3>1, <3>3, <3>4 DEF SourceKnown, UploadsSound, FactsSound
  <2> QED
      BY <1>0, <1>4, <2>1 DEF Seed!Pack
<1>5. CASE Seed!FinishTar
  <2>1. CASE ~(Seed!Churned \/ Seed!Mismatched) /\ Seed!Granted(Seed!Uploading)
    <3>1. /\ spc = "tar" /\ spc' = "upload"
          /\ UNCHANGED <<source, sourceEdits, past, facts, manifest, archive>>
        BY <1>5, <2>1 DEF Seed!FinishTar
    <3>2. HashedFromPast'
        BY <3>1 DEF HashedFromPast
    <3>3. Sound(past, archive, manifest)
      <4>1. \E t \in past : \A p \in Seed!Path :
                manifest[p] \in Seed!Version /\ archive[p] = manifest[p] => t[p] = manifest[p]
          BY <3>1 DEF PackedAsHashed
      <4>2. \A p \in Seed!Path : \E t \in past : t[p] = manifest[p]
          BY <3>1 DEF HashedFromPast
      <4> QED
          BY <3>1, <4>1, <4>2 DEF Sound, PackedAsHashed, HashedFromPast
    <3> QED
        BY <3>1, <3>2, <3>3 DEF SourceKnown, PackedAsHashed, UploadsSound, FactsSound
  <2> QED
      BY <1>0, <1>5, <2>1 DEF Seed!FinishTar
<1>6. CASE Seed!UploadArchive
  <2>1. CASE Seed!Accepted(objects.archive, archive)
      BY <1>6, <2>1 DEF Seed!UploadArchive, SourceKnown, HashedFromPast, PackedAsHashed,
                        UploadsSound, FactsSound
  <2> QED
      BY <1>0, <1>6, <2>1 DEF Seed!UploadArchive
<1>7. CASE Seed!UploadManifest
  <2>1. CASE Seed!Accepted(objects.manifest, manifest)
      BY <1>7, <2>1 DEF Seed!UploadManifest, SourceKnown, HashedFromPast, PackedAsHashed,
                        UploadsSound, FactsSound
  <2> QED
      BY <1>0, <1>7, <2>1 DEF Seed!UploadManifest
<1>8. CASE Seed!RecordFacts
  <2>1. CASE ~Seed!Terminal
    <3>1. /\ spc = "record" /\ spc' = "done" /\ manifest' = Seed!Empty
          /\ facts' = [archive |-> archive, manifest |-> manifest]
          /\ UNCHANGED <<source, sourceEdits, past>>
        BY <1>8, <2>1 DEF Seed!RecordFacts
    <3>2. HashedFromPast'
        BY <3>1, EmptyTyped DEF HashedFromPast, Seed!Empty, Seed!Version
    <3>3. FactsSound'
        BY <3>1 DEF FactsSound, UploadsSound
    <3> QED
        BY <3>1, <3>2, <3>3 DEF SourceKnown, PackedAsHashed, UploadsSound
  <2> QED
      BY <1>0, <1>8, <2>1 DEF Seed!RecordFacts
<1> QED
    BY <1>0, <1>1, <1>2, <1>3, <1>4, <1>5, <1>6, <1>7, <1>8 DEF Seed!SourceStep
-----------------------------------------------------------------------------
(* The target's side                                                       *)

\* What the target's side says.
TargetSide ==
    /\ DownloadsRecorded /\ StagedFromArchive /\ TargetStands
    /\ PeerSynced /\ SettledOnPast /\ Seed!PublishedIsSnapshot /\ Seed!CompletedIsSettled

\* A published snapshot stays one while the history grows.
LEMMA SnapshotKept ==
    ASSUME Seed!PublishedIsSnapshot, past \subseteq past', published' = published
    PROVE  Seed!PublishedIsSnapshot'
BY DEF Seed!PublishedIsSnapshot

\* The target's side stands while its own variables do, the history grows,
\* the facts are recorded at most once and no phase but the failed one and
\* those before completion is entered.
LEMMA TargetUndisturbed ==
    ASSUME TargetSide, past \subseteq past', facts # Gone => facts' = facts,
           UNCHANGED <<Seed!targetSide, published, settled>>,
           target' = target \/ target' # Gone,
           peer' = peer \/ \E t \in past' : peer' = Seed!Synced(t),
           seedPhase = Seed!Failed => seedPhase' = Seed!Failed,
           seedPhase' = Seed!Completed => seedPhase = Seed!Completed
    PROVE  TargetSide'
<1>1. DownloadsRecorded' /\ StagedFromArchive'
    BY DEF TargetSide, DownloadsRecorded, StagedFromArchive, Seed!targetSide, Seed!work
<1>2. TargetStands' /\ SettledOnPast'
    BY DEF TargetSide, TargetStands, SettledOnPast, Seed!targetSide
<1>3. PeerSynced'
    BY DEF TargetSide, PeerSynced
<1>4. Seed!CompletedIsSettled'
    BY DEF TargetSide, Seed!CompletedIsSettled
<1> QED
    BY <1>1, <1>2, <1>3, <1>4, SnapshotKept DEF TargetSide

LEMMA OutsideKeepsTarget ==
    ASSUME Seed!TypeOK, SourceKnown, TargetSide, Seed!Outside
    PROVE  TargetSide'
<1>1. ASSUME NEW p \in Seed!Path, Seed!Edit(p) PROVE TargetSide'
    BY <1>1, EditEffect, TargetUndisturbed DEF Seed!job, Seed!disk
<1>2. ASSUME NEW p \in Seed!Path, Seed!PutOwn(p) PROVE TargetSide'
  <2> DEFINE held == IF target = Gone THEN Seed!Empty ELSE target
  <2>1. held \in Seed!Tree
      BY EmptyTyped DEF Seed!TypeOK, Seed!Directory
  <2> HIDE DEF held
  <2>2. [held EXCEPT ![p] = Own] # Gone
      BY <2>1, ArchiveFacts DEF Seed!Tree
  <2>3. target' # Gone
      BY <1>2, <2>2 DEF Seed!PutOwn, held
  <2> QED
      BY <1>2, <2>3, TargetUndisturbed DEF Seed!PutOwn, Seed!job
<1>3. CASE Seed!SyncSource
    BY <1>3, TargetUndisturbed DEF Seed!SyncSource, SourceKnown, Seed!job, Seed!disk
<1>4. CASE Seed!JobEnds
    BY <1>4, TargetUndisturbed DEF Seed!JobEnds, Seed!Fault, Seed!Terminal, Seed!Failed,
                                   Seed!Completed, Seed!disk
<1> QED
    BY <1>1, <1>2, <1>3, <1>4 DEF Seed!Outside

LEMMA SourceKeepsTarget ==
    ASSUME Seed!TypeOK, FactsSound, TargetSide, Seed!SourceStep
    PROVE  TargetSide'
<1> USE DEF Seed!SourceFrame, Seed!job, Seed!disk
<1>0. CASE Seed!SourceFails \/ Seed!SourceStops \/ Seed!SourceBreaks \/ Seed!SourceCrash
    BY <1>0, SourceEndings, TargetUndisturbed DEF Seed!Terminal, Seed!Failed, Seed!Completed
<1>1. CASE Seed!SourceStart
    BY <1>0, <1>1, TargetUndisturbed
    DEF Seed!SourceStart, Seed!Granted, Seed!Terminal, Seed!Measuring, Seed!Failed, Seed!Completed
<1>2. CASE Seed!Hash
    BY <1>2, TargetUndisturbed DEF Seed!Hash
<1>3. CASE Seed!StartTar
    BY <1>0, <1>3, TargetUndisturbed
    DEF Seed!StartTar, Seed!Granted, Seed!Terminal, Seed!Archiving, Seed!Failed, Seed!Completed
<1>4. CASE Seed!Pack
    BY <1>0, <1>4, TargetUndisturbed DEF Seed!Pack
<1>5. CASE Seed!FinishTar
    BY <1>0, <1>5, TargetUndisturbed
    DEF Seed!FinishTar, Seed!Granted, Seed!Terminal, Seed!Uploading, Seed!Failed, Seed!Completed
<1>6. CASE Seed!UploadArchive
    BY <1>0, <1>6, TargetUndisturbed DEF Seed!UploadArchive
<1>7. CASE Seed!UploadManifest
    BY <1>0, <1>7, TargetUndisturbed DEF Seed!UploadManifest
<1>8. CASE Seed!RecordFacts
    BY <1>0, <1>8, TargetUndisturbed DEF Seed!RecordFacts, FactsSound
<1> QED
    BY <1>0, <1>1, <1>2, <1>3, <1>4, <1>5, <1>6, <1>7, <1>8 DEF Seed!SourceStep

\* What was renamed into place agrees with the archive and the manifest.
LEMMA SoundIsSnapshot ==
    ASSUME NEW P, NEW m, m # Gone, Sound(P, m, m)
    PROVE  /\ \E t \in P : \A p \in Seed!Path : m[p] # Absent => m[p] = t[p]
           /\ \A p \in Seed!Path : (\A t \in P : t[p] \notin {Absent, Link}) => m[p] # Absent
BY DEF Sound, Representable, Content

\* A granted phase is entered from one that has not ended.
LEMMA GrantedRuns ==
    ASSUME NEW k, Seed!Granted(k)
    PROVE  seedPhase # Seed!Failed /\ seedPhase # Seed!Completed
BY DEF Seed!Granted, Seed!Terminal

LEMMA TargetKeepsTarget ==
    ASSUME Seed!TypeOK, SourceKnown, FactsSound, TargetSide, Seed!TargetStep, Seed!TypeOK'
    PROVE  TargetSide'
<1> USE ArchiveFacts DEF Seed!TargetFrame, Seed!work, Seed!disk
<1> USE DEF Seed!Downloading, Seed!VerifyingArchive, Seed!Extracting, Seed!VerifyingTarget,
            Seed!Publishing, Seed!Baseline,
            Seed!Failed, Seed!Completed
<1>a. ASSUME past' = past, published' = published
      PROVE  Seed!PublishedIsSnapshot'
    BY <1>a, SnapshotKept DEF TargetSide
<1>b. ASSUME past' = past, peer' = peer, seedPhase = Seed!Failed => seedPhase' = Seed!Failed
      PROVE  PeerSynced'
    BY <1>b DEF TargetSide, PeerSynced
<1>c. ASSUME past' = past, settled' = settled,
             seedPhase' = Seed!Completed => seedPhase = Seed!Completed
      PROVE  Seed!CompletedIsSettled'
    BY <1>c DEF TargetSide, Seed!CompletedIsSettled
<1>0. CASE Seed!TargetFails \/ Seed!TargetStops \/ Seed!TargetBreaks \/ Seed!TargetCrash
  <2>1. /\ tpc' \in {"idle", "done"}
        /\ UNCHANGED <<past, published, peer, settled>>
        /\ seedPhase' \in {seedPhase, Seed!Failed} /\ (Seed!Terminal => seedPhase' = seedPhase)
      BY <1>0, TargetEndings
  <2>2. Seed!PublishedIsSnapshot' /\ PeerSynced' /\ Seed!CompletedIsSettled'
      BY <2>1, <1>a, <1>b, <1>c DEF Seed!Terminal
  <2> QED
      BY <2>1, <2>2
      DEF TargetSide, DownloadsRecorded, StagedFromArchive, TargetStands, SettledOnPast
<1>1. CASE Seed!TargetStart
  <2>1. Seed!PublishedIsSnapshot' /\ PeerSynced' /\ Seed!CompletedIsSettled'
      BY <1>1, <1>a, <1>b, <1>c DEF Seed!TargetStart
  <2> QED
      BY <1>1, <2>1 DEF Seed!TargetStart, TargetSide, DownloadsRecorded, StagedFromArchive,
                        TargetStands, SettledOnPast
<1>2. CASE Seed!GetArchive
  <2>1. CASE Seed!Granted(Seed!Downloading) /\ Seed!Download(objects.archive, facts.archive)
    <3>1. Seed!PublishedIsSnapshot' /\ PeerSynced' /\ Seed!CompletedIsSettled'
        BY <1>2, <2>1, <1>a, <1>b, <1>c, GrantedRuns DEF Seed!GetArchive
    <3>2. facts # Gone
        BY <1>2, <2>1 DEF Seed!GetArchive, Seed!Granted
    <3> QED
        BY <1>2, <2>1, <3>1, <3>2
        DEF Seed!GetArchive, Seed!Download, TargetSide, DownloadsRecorded, StagedFromArchive,
            TargetStands, SettledOnPast
  <2> QED
      BY <1>0, <1>2, <2>1 DEF Seed!GetArchive
<1>3. CASE Seed!GetManifest
  <2>1. CASE Seed!Granted(Seed!VerifyingArchive) /\ Seed!Download(objects.manifest, facts.manifest)
    <3>1. Seed!PublishedIsSnapshot' /\ PeerSynced' /\ Seed!CompletedIsSettled'
        BY <1>3, <2>1, <1>a, <1>b, <1>c, GrantedRuns DEF Seed!GetManifest
    <3> QED
        BY <1>3, <2>1, <3>1
        DEF Seed!GetManifest, Seed!Download, TargetSide, DownloadsRecorded, StagedFromArchive,
            TargetStands, SettledOnPast
  <2> QED
      BY <1>0, <1>3, <2>1 DEF Seed!GetManifest
<1>4. CASE Seed!Extract
  <2>1. CASE staging = Gone /\ ~Seed!Granted(Seed!Extracting)
      BY <1>0, <1>4, <2>1 DEF Seed!Extract
  <2>2. CASE ~(staging = Gone /\ ~Seed!Granted(Seed!Extracting))
    <3> DEFINE held == IF staging = Gone THEN Seed!Empty ELSE staging
    <3>1. /\ tpc = "extract" /\ tpc' = "extract"
          /\ seedPhase' = IF Seed!Terminal THEN seedPhase ELSE Seed!Extracting
          /\ UNCHANGED <<payload, document, past, facts, published, peer, settled, target>>
        BY <1>4, <2>2 DEF Seed!Extract
    <3>2. Seed!PublishedIsSnapshot' /\ PeerSynced' /\ Seed!CompletedIsSettled'
        BY <3>1, <1>a, <1>b, <1>c DEF Seed!Terminal
    <3>3. held \in Seed!Tree /\ \A q \in Seed!Path : held[q] \in {Absent, payload[q]}
        BY <3>1, EmptyTyped DEF TargetSide, StagedFromArchive, Seed!TypeOK, Seed!Directory,
                                Seed!Empty
    <3> HIDE DEF held
    <3>4. PICK p \in Seed!Path : staging' = [held EXCEPT ![p] = payload[p]]
        BY <1>4, <2>2 DEF Seed!Extract, held
    <3>5. \A q \in Seed!Path : staging'[q] \in {Absent, payload[q]}
        BY <3>3, <3>4 DEF Seed!Tree
    <3> QED
        BY <3>1, <3>2, <3>5
        DEF TargetSide, DownloadsRecorded, StagedFromArchive, TargetStands, SettledOnPast
  <2> QED
      BY <2>1, <2>2
<1>5. CASE Seed!Verify
  <2>1. CASE Seed!Granted(Seed!VerifyingTarget) /\ Seed!Verified
    <3>1. /\ tpc = "extract" /\ tpc' = "publish" /\ staging # Gone /\ staging = document
          /\ \A p \in Seed!Path : ~Seed!Missing(p)
          /\ UNCHANGED <<payload, document, staging, past, facts, published, peer, settled, target>>
        BY <1>5, <2>1 DEF Seed!Verify, Seed!Verified
    <3>2. Seed!PublishedIsSnapshot' /\ PeerSynced' /\ Seed!CompletedIsSettled'
        BY <1>5, <2>1, <3>1, <1>a, <1>b, <1>c, GrantedRuns DEF Seed!Verify
    <3>3. staging \in Seed!Tree /\ payload \in Seed!Tree
        BY <3>1 DEF Seed!TypeOK, Seed!Directory, TargetSide, DownloadsRecorded
    <3>4. \A p \in Seed!Path : staging[p] = payload[p]
        BY <3>1 DEF Seed!Missing, TargetSide, StagedFromArchive
    <3>5. staging = payload
        BY <3>3, <3>4 DEF Seed!Tree
    <3> QED
        BY <3>1, <3>2, <3>5
        DEF TargetSide, DownloadsRecorded, StagedFromArchive, TargetStands, SettledOnPast
  <2> QED
      BY <1>0, <1>5, <2>1 DEF Seed!Verify
<1>6. CASE Seed!Look
  <2>1. CASE Seed!Granted(Seed!Publishing) /\ target \in {Gone, Seed!Empty}
    <3>1. Seed!PublishedIsSnapshot' /\ PeerSynced' /\ Seed!CompletedIsSettled'
        BY <1>6, <2>1, <1>a, <1>b, <1>c, GrantedRuns DEF Seed!Look
    <3> QED
        BY <1>6, <2>1, <3>1
        DEF Seed!Look, TargetSide, DownloadsRecorded, StagedFromArchive, TargetStands, SettledOnPast
  <2> QED
      BY <1>0, <1>6, <2>1 DEF Seed!Look
<1>7. CASE Seed!Rmdir
  <2>1. CASE Seed!Removable
    <3>1. Seed!PublishedIsSnapshot' /\ PeerSynced' /\ Seed!CompletedIsSettled'
        BY <1>7, <2>1, <1>a, <1>b, <1>c DEF Seed!Rmdir
    <3> QED
        BY <1>7, <2>1, <3>1
        DEF Seed!Rmdir, TargetSide, DownloadsRecorded, StagedFromArchive, TargetStands,
            SettledOnPast
  <2> QED
      BY <1>0, <1>7, <2>1 DEF Seed!Rmdir
<1>8. CASE Seed!Rename
  <2>1. CASE target \in {Gone, Seed!Empty}
    <3>1. /\ tpc = "rename" /\ tpc' = "resync" /\ target' = staging /\ published' = staging
          /\ UNCHANGED <<past, facts, peer, settled, seedPhase>>
        BY <1>8, <2>1 DEF Seed!Rename
    <3>2. /\ facts # Gone /\ staging # Gone
          /\ staging = facts.archive /\ staging = facts.manifest
        BY <3>1 DEF TargetSide, DownloadsRecorded, StagedFromArchive
    <3>3. Sound(past, staging, staging)
        BY <3>2 DEF FactsSound
    <3>4. Seed!PublishedIsSnapshot'
        BY <3>1, <3>2, <3>3, SoundIsSnapshot DEF Seed!PublishedIsSnapshot
    <3>5. PeerSynced' /\ Seed!CompletedIsSettled'
        BY <3>1, <1>b, <1>c
    <3> QED
        BY <3>1, <3>2, <3>4, <3>5
        DEF TargetSide, DownloadsRecorded, StagedFromArchive, TargetStands, SettledOnPast
  <2> QED
      BY <1>0, <1>8, <2>1 DEF Seed!Rename
<1>9. ASSUME NEW S \in SUBSET Seed!Path, Seed!Resync(S) PROVE TargetSide'
  <2>1. CASE ~Seed!Granted(Seed!Baseline)
      BY <1>0, <1>9, <2>1 DEF Seed!Resync
  <2>2. CASE Seed!Granted(Seed!Baseline)
    <3> DEFINE done == S = Seed!Path /\ Seed!Unchanged
    <3>1. /\ tpc = "resync" /\ target' = Seed!Merged(S)
          /\ peer' = [p \in Seed!Path |-> IF p \in S THEN Seed!Merged(S)[p] ELSE peer[p]]
          /\ seedPhase' = IF done THEN Seed!Baseline ELSE Seed!Failed
          /\ tpc' = IF done THEN "complete" ELSE "done"
          /\ settled' = IF done THEN target ELSE Gone
          /\ UNCHANGED <<past, facts, published>>
        BY <1>9, <2>2 DEF Seed!Resync
    <3>2. target \in Seed!Tree /\ target # Gone
        BY <3>1 DEF TargetSide, TargetStands, Seed!TypeOK, Seed!Directory
    <3>3. Seed!Merged(S) \in Seed!Tree
        BY <3>2, MergedTyped DEF Seed!TypeOK
    <3>4. target' # Gone
        BY <3>1, <3>3
    <3>5. Seed!PublishedIsSnapshot'
        BY <3>1, <1>a
    <3>6. CASE done
      <4>1. \A p \in Seed!Path : Seed!Merged(S)[p] = peer[p]
          BY <3>2, <3>6 DEF Seed!Merged, Seed!Unchanged
      <4>2. peer' = peer
          BY <3>1, <4>1 DEF Seed!TypeOK, Seed!Tree
      <4>3. PICK t \in past : peer = Seed!Synced(t)
          BY <2>2, GrantedRuns DEF TargetSide, PeerSynced
      <4>4. settled' = Seed!Synced(t)
          BY <3>1, <3>6, <4>3 DEF Seed!Unchanged
      <4> QED
          BY <3>1, <3>4, <3>5, <3>6, <4>2, <4>3, <4>4
          DEF TargetSide, DownloadsRecorded, StagedFromArchive, TargetStands, PeerSynced,
              SettledOnPast, Seed!CompletedIsSettled
    <3>7. CASE ~done
        BY <3>1, <3>4, <3>5, <3>7
        DEF TargetSide, DownloadsRecorded, StagedFromArchive, TargetStands, PeerSynced,
            SettledOnPast, Seed!CompletedIsSettled
    <3> QED
        BY <3>6, <3>7
  <2> QED
      BY <2>1, <2>2
<1>10. CASE Seed!Complete
  <2>1. /\ tpc = "complete" /\ tpc' = "done"
        /\ seedPhase' = IF Seed!Terminal THEN seedPhase ELSE Seed!Completed
        /\ UNCHANGED <<past, facts, published, peer, settled, target>>
      BY <1>10 DEF Seed!Complete, Seed!TargetOver
  <2>2. Seed!PublishedIsSnapshot' /\ PeerSynced'
      BY <2>1, <1>a, <1>b DEF Seed!Terminal
  <2>3. Seed!CompletedIsSettled'
      BY <2>1 DEF TargetSide, SettledOnPast, Seed!CompletedIsSettled
  <2> QED
      BY <2>1, <2>2, <2>3
      DEF TargetSide, DownloadsRecorded, StagedFromArchive, TargetStands, SettledOnPast
<1> QED
    BY <1>0, <1>1, <1>2, <1>3, <1>4, <1>5, <1>6, <1>7, <1>8, <1>9, <1>10 DEF Seed!TargetStep

-----------------------------------------------------------------------------
(* The theorems                                                            *)

LEMMA ArchiveInitSafe == Seed!Init => ArchiveInv
<1> SUFFICES ASSUME Seed!Init PROVE ArchiveInv
    OBVIOUS
<1> USE ArchiveFacts DEF Seed!Planned, Seed!Failed, Seed!Completed
<1>1. Seed!TypeOK
    BY ArchiveInitTyped
<1>2. SourceKnown
    BY DEF Seed!Init, SourceKnown, Seed!Contents
<1>3. HashedFromPast
    BY EmptyTyped DEF Seed!Init, HashedFromPast, Seed!Empty, Seed!Version
<1>4. PeerSynced
  <2>1. peer = Seed!Synced([p \in Seed!Path |-> 1])
      BY DEF Seed!Init, Seed!Synced
  <2> QED
      BY <2>1 DEF Seed!Init, PeerSynced
<1> QED
    BY <1>1, <1>2, <1>3, <1>4
    DEF Seed!Init, ArchiveInv, PackedAsHashed, UploadsSound, FactsSound, DownloadsRecorded,
        StagedFromArchive, TargetStands, SettledOnPast, Seed!PublishedIsSnapshot,
        Seed!CompletedIsSettled

LEMMA ArchiveStepSafe == ArchiveInv /\ [Seed!Next]_(Seed!vars) => ArchiveInv'
<1> SUFFICES ASSUME ArchiveInv, [Seed!Next]_(Seed!vars) PROVE ArchiveInv'
    OBVIOUS
<1> USE DEF ArchiveInv
<1>0. TargetSide
    BY DEF TargetSide
<1>1. CASE Seed!Outside
  <2>1. Seed!TypeOK'
      BY <1>1, OutsideTyped
  <2>2. (SourceKnown /\ HashedFromPast /\ PackedAsHashed /\ UploadsSound /\ FactsSound)'
    <3>1. ASSUME NEW p \in Seed!Path, Seed!Edit(p)
          PROVE  (SourceKnown /\ HashedFromPast /\ PackedAsHashed /\ UploadsSound /\ FactsSound)'
        BY <2>1, <3>1, EditKeepsSource
    <3>2. CASE \/ \E p \in Seed!Path : Seed!PutOwn(p)
               \/ Seed!SyncSource
               \/ Seed!JobEnds
        BY <3>2, SourceUndisturbed DEF Seed!PutOwn, Seed!SyncSource, Seed!JobEnds, Seed!job
    <3> QED
        BY <1>1, <3>1, <3>2 DEF Seed!Outside
  <2>3. TargetSide'
      BY <1>0, <1>1, OutsideKeepsTarget
  <2> QED
      BY <2>1, <2>2, <2>3 DEF TargetSide
<1>2. CASE Seed!SourceStep
  <2>1. Seed!TypeOK'
      BY <1>2, SourceTyped
  <2>2. (SourceKnown /\ HashedFromPast /\ PackedAsHashed /\ UploadsSound /\ FactsSound)'
      BY <1>2, SourceKeepsSource
  <2>3. TargetSide'
      BY <1>0, <1>2, SourceKeepsTarget
  <2> QED
      BY <2>1, <2>2, <2>3 DEF TargetSide
<1>3. CASE Seed!TargetStep
  <2>1. Seed!TypeOK'
      BY <1>3, TargetTyped
  <2>2. UNCHANGED <<source, sourceEdits, past, facts, Seed!sourceSide>>
    <3>1. CASE Seed!TargetFails \/ Seed!TargetStops \/ Seed!TargetBreaks \/ Seed!TargetCrash
        BY <3>1, TargetEndings
    <3>2. CASE \/ Seed!TargetStart \/ Seed!GetArchive \/ Seed!GetManifest
               \/ Seed!Extract \/ Seed!Verify
               \/ Seed!Look \/ Seed!Rmdir \/ Seed!Rename
        BY <3>1, <3>2 DEF Seed!TargetStart, Seed!GetArchive, Seed!GetManifest, Seed!Extract,
                          Seed!Verify, Seed!Look, Seed!Rmdir,
                          Seed!Rename, Seed!TargetFrame
    <3>3. ASSUME NEW S \in SUBSET Seed!Path, Seed!Resync(S)
          PROVE  UNCHANGED <<source, sourceEdits, past, facts, Seed!sourceSide>>
        BY <3>1, <3>3 DEF Seed!Resync
    <3>4. CASE Seed!Complete
        BY <3>4 DEF Seed!Complete, Seed!TargetOver
    <3> QED
        BY <1>3, <3>1, <3>2, <3>3, <3>4 DEF Seed!TargetStep
  <2>3. (SourceKnown /\ HashedFromPast /\ PackedAsHashed /\ UploadsSound /\ FactsSound)'
      BY <2>2, SourceUndisturbed
  <2>4. TargetSide'
      BY <1>0, <1>3, <2>1, TargetKeepsTarget
  <2> QED
      BY <2>1, <2>3, <2>4 DEF TargetSide
<1>4. CASE UNCHANGED Seed!vars
  <2>1. Seed!TypeOK'
      BY <1>4 DEF Seed!TypeOK, Seed!vars, Seed!job, Seed!sourceSide, Seed!targetSide, Seed!work,
                  Seed!disk
  <2>2. (SourceKnown /\ HashedFromPast /\ PackedAsHashed /\ UploadsSound /\ FactsSound)'
      BY <1>4, SourceUndisturbed DEF Seed!vars, Seed!job
  <2>3. TargetSide'
      BY <1>0, <1>4, TargetUndisturbed DEF Seed!vars, Seed!job, Seed!disk
  <2> QED
      BY <2>1, <2>2, <2>3 DEF TargetSide
<1> QED
    BY <1>1, <1>2, <1>3, <1>4 DEF Seed!Next

LEMMA ArchiveSafe == Seed!Spec => []ArchiveInv
BY ArchiveInitSafe, ArchiveStepSafe, PTL DEF Seed!Spec

\* What is renamed into the target is, file by file, a tree the source had at
\* one moment, however it was edited under the walk and under tar, and a
\* completed seed left the target as a tree the source had synced, for any
\* number of paths, edits, faults and restarts of either daemon
\* (buildSeedManifest, createSeedArchive, verifyExtractedTree,
\* publishStagedTree, seedBaselineVerdict).
THEOREM PublishedSeedIsSnapshot == TransfersSpec => []SeedIsSnapshot
<1>1. ArchiveInv => SeedIsSnapshot
    BY DEF ArchiveInv, SeedIsSnapshot
<1> QED
    BY <1>1, SeedRuns, ArchiveSafe, PTL

\* The publication's action property holds of every step.
LEMMA StepSparesFiles ==
    ArchiveInv /\ [Seed!Next]_(Seed!vars) =>
        [\A p \in Seed!Path :
            tpc # "resync" /\ target # Gone /\ target[p] = Own
                => target' # Gone /\ target'[p] = Own]_(Seed!vars)
<1> SUFFICES ASSUME ArchiveInv, Seed!Next, NEW p \in Seed!Path,
                    tpc # "resync", target # Gone, target[p] = Own
             PROVE  target' # Gone /\ target'[p] = Own
    OBVIOUS
<1> USE ArchiveFacts
<1>0. target \in Seed!Tree /\ target # Seed!Empty
    BY DEF ArchiveInv, Seed!TypeOK, Seed!Directory, Seed!Empty
<1>1. ASSUME target' = target PROVE target' # Gone /\ target'[p] = Own
    BY <1>1
<1>2. CASE Seed!Outside
  <2>1. ASSUME NEW q \in Seed!Path, Seed!PutOwn(q) PROVE target' # Gone /\ target'[p] = Own
    <3>1. target' = [target EXCEPT ![q] = Own]
        BY <2>1 DEF Seed!PutOwn
    <3>2. target' \in Seed!Tree /\ target'[p] = Own
        BY <1>0, <3>1 DEF Seed!Tree
    <3> QED
        BY <3>2
  <2>2. CASE Seed!SyncSource \/ Seed!JobEnds
      BY <1>1, <2>2 DEF Seed!SyncSource, Seed!JobEnds, Seed!disk
  <2>3. ASSUME NEW q \in Seed!Path, Seed!Edit(q) PROVE target' = target
      BY <2>3 DEF Seed!Edit, Seed!disk
  <2> QED
      BY <1>1, <1>2, <2>1, <2>2, <2>3 DEF Seed!Outside
<1>3. CASE Seed!SourceStep
  <2>1. CASE Seed!SourceFails \/ Seed!SourceStops \/ Seed!SourceBreaks \/ Seed!SourceCrash
      BY <1>1, <2>1, SourceEndings DEF ArchiveInv, Seed!disk
  <2> QED
      BY <1>1, <1>3, <2>1
      DEF Seed!SourceStep, Seed!SourceStart, Seed!Hash, Seed!StartTar, Seed!Pack, Seed!FinishTar,
          Seed!UploadArchive,
          Seed!UploadManifest, Seed!RecordFacts, Seed!SourceFrame, Seed!disk
<1>4. CASE Seed!TargetStep
  <2>1. CASE Seed!TargetFails \/ Seed!TargetStops \/ Seed!TargetBreaks \/ Seed!TargetCrash
      BY <1>1, <2>1, TargetEndings DEF ArchiveInv, Seed!disk
  <2>2. CASE Seed!TargetStart \/ Seed!GetArchive \/ Seed!GetManifest \/ Seed!Extract
             \/ Seed!Verify \/ Seed!Look \/ Seed!Complete
      BY <1>1, <2>1, <2>2 DEF Seed!TargetStart, Seed!GetArchive, Seed!GetManifest, Seed!Extract,
                              Seed!Verify, Seed!Look,
                              Seed!Complete, Seed!TargetOver, Seed!disk
  <2>3. CASE Seed!Rmdir \/ Seed!Rename
      BY <1>0, <1>1, <2>1, <2>3 DEF Seed!Rmdir, Seed!Removable, Seed!Rename
  <2>4. ASSUME NEW S \in SUBSET Seed!Path, Seed!Resync(S) PROVE FALSE
      BY <2>4 DEF Seed!Resync
  <2> QED
      BY <1>4, <2>1, <2>2, <2>3, <2>4 DEF Seed!TargetStep
<1> QED
    BY <1>2, <1>3, <1>4 DEF Seed!Next

\* No step of the publication removes or replaces a file that users put into
\* the target, whenever it appears between the look, the rmdir and the rename
\* (publishStagedTree).
THEOREM PublicationSparesFiles == TransfersSpec => PublishSparesFiles
BY SeedRuns, ArchiveSafe, StepSparesFiles, PTL
DEF Seed!Spec, PublishSparesFiles, Seed!PublishSparesFiles

-----------------------------------------------------------------------------
(* The bisync runs of a folder                                             *)


-----------------------------------------------------------------------------
(* The inductive invariant.                                                *)

\* A pair is of some rules, or of none.
PairRuled == Sync!Present => dir.under \in Filter

\* Only a pair carries an acknowledged fingerprint, that of its rules; a run
\* without rules rewrites the pair and leaves the fingerprint.
Acknowledged == dir.fp # None => Sync!Present /\ ~dir.marker /\ dir.under \in {dir.fp, NoFilter}

\* A run that found the rules changed has set the fingerprint aside; any other
\* holds the rules of the fingerprint that is left, or none.
RunKnowsFilter ==
    run.pc # "idle" =>
        /\ run.filter \in Filter
        /\ run.changed => run.filter # NoFilter /\ dir.fp = None
        /\ ~run.changed => dir.fp \in {None, run.filter} \/ run.filter = NoFilter

\* Until rclone has run, a pair it may use without a resync is of its rules,
\* unless one of the two has none.
PairUsable ==
    run.pc \in {"gate", "again", "rclone", "rerun"} /\ run.resync = None /\ Sync!Present
        => dir.under = run.filter \/ NoFilter \in {dir.under, run.filter}

\* A clean exit leaves a pair of the rules it was given.
PairMade == run.pc = "post" => dir.lst = "ready" /\ dir.under = run.filter

\* The recovery runs in a workdir that was just set aside.
RerunClean == run.pc = "rerun" => dir.fp = None

Listings == PairRuled /\ Acknowledged /\ RunKnowsFilter /\ PairUsable /\ PairMade /\ RerunClean

\* A run whose authority is this host resyncs with its side as the winner,
\* in its recovery too.
LocalWins == run.pc # "idle" /\ run.control = "local" => run.resync = "local"


-----------------------------------------------------------------------------
(* Types.                                                                  *)

DirType == [lst : {"none", "ready", "busy", "error"}, under : Filter \union {None},
            base : [Sync!Side -> Sync!Version], fp : Filter \union {None}, marker : BOOLEAN]
RunType == [pc : {"idle", "gate", "rclone", "rerun", "again", "post"}, control : Sync!Control,
            filter : Filter \union {None}, changed : BOOLEAN, resync : Sync!Side \union {None},
            tries : 0 .. MaxRetries, conflict : BOOLEAN]
AskType == [pc : {"none", "recheck", "run"}, control : Sync!Control]
PlanType == {None} \union [control : Sync!Side, absent : BOOLEAN, same : BOOLEAN, filter : Filter,
                           zero : BOOLEAN]
ConfType == [status : {"none", "pending", "resolved"},
             resolution : {None, "local", "remote", "both"},
             applied : BOOLEAN]

Types ==
    /\ file \in [Sync!Side -> Sync!Version] /\ fileEdits \in 0 .. FileEdits
    /\ strategy \in Strategies /\ filter \in Filter
    /\ dir \in DirType /\ run \in RunType
    /\ ask \in AskType /\ plan \in PlanType /\ conf \in ConfType
    /\ runFaults \in 0 .. RunFaults

LEMMA TypesAre == Sync!TypeOK <=> Types
BY DEF Sync!TypeOK, Types, DirType, RunType, AskType, PlanType, ConfType

LEMMA Bases == 0 \in Sync!Version /\ 1 \in Sync!Version /\ 0 \in 0 .. MaxRetries
    /\ 0 \in 0 .. RunFaults
BY BaselineAssumption DEF Sync!Version

LEMMA EmptyType == Sync!Empty \in DirType
BY Bases DEF Sync!Empty, DirType

LEMMA IdleType == Sync!Idle \in RunType
BY Bases DEF Sync!Idle, RunType, Sync!Control

LEMMA OtherType == \A s \in Sync!Side : Sync!Other(s) \in Sync!Side
BY DEF Sync!Other, Sync!Side

LEMMA MovedType == plan \in PlanType => Sync!PairMoved \in PlanType
BY DEF Sync!PairMoved, PlanType

LEMMA SyncedType ==
    ASSUME Types
    PROVE  Sync!Synced \in [Sync!Side -> Sync!Version]
<1>1. CASE run.resync # None
  <2>1. run.resync \in Sync!Side
    BY <1>1 DEF Types, RunType
  <2>2. Sync!Synced = LET w == IF file[run.resync] # 0 THEN run.resync ELSE Sync!Other(run.resync)
                 IN [s \in Sync!Side |-> file[w]]
    BY <1>1 DEF Sync!Synced
  <2> QED
    BY <2>1, <2>2, OtherType DEF Types
<1>2. CASE run.resync = None /\ \E s \in Sync!Side : Sync!Changed(s) /\ ~Sync!Changed(Sync!Other(s))
  <2> DEFINE w == CHOOSE s \in Sync!Side : Sync!Changed(s)
  <2>1. w \in Sync!Side
    BY <1>2
  <2>2. Sync!Synced = [s \in Sync!Side |-> file[w]]
    BY <1>2 DEF Sync!Synced
  <2> HIDE DEF w
  <2> QED
    BY <2>1, <2>2 DEF Types
<1>3. CASE /\ run.resync = None
           /\ ~(\E s \in Sync!Side : Sync!Changed(s) /\ ~Sync!Changed(Sync!Other(s)))
  BY <1>3 DEF Sync!Synced, Types
<1> QED
  BY <1>1, <1>2, <1>3

LEMMA FaultType ==
    ASSUME runFaults \in 0 .. RunFaults, Sync!Fault
    PROVE  runFaults' \in 0 .. RunFaults
BY BaselineAssumption DEF Sync!Fault

LEMMA WorkdirType ==
    ASSUME Types
    PROVE  /\ Sync!Interrupted \in DirType
           /\ \A d \in DirType : Sync!Marked(d) \in DirType
           /\ Sync!Acknowledge \in DirType
<1>1. Sync!Interrupted \in DirType
  BY DEF Types, Sync!Interrupted, DirType
<1>2. \A d \in DirType : Sync!Marked(d) \in DirType
  BY DEF Types, Sync!Marked, DirType, RunType
<1>3. Sync!Acknowledge \in DirType
  BY DEF Types, Sync!Acknowledge, DirType, RunType
<1> QED
  BY <1>1, <1>2, <1>3

LEMMA StartTypes ==
    ASSUME Types, NEW control \in Sync!Control, Sync!StartRun(control)
    PROVE  /\ file' \in [Sync!Side -> Sync!Version] /\ conf' \in ConfType
           /\ dir' \in DirType /\ plan' \in PlanType /\ run' \in RunType
<1>1. file' \in [Sync!Side -> Sync!Version] /\ conf' \in ConfType
  BY DEF Sync!StartRun, Sync!ApplyResolved, Sync!Applied, Types, ConfType, Sync!Side
<1>2. dir' \in DirType /\ plan' \in PlanType
  BY EmptyType, MovedType DEF Sync!StartRun, Sync!Archive, Types
<1>3. run' \in RunType
  <2>1. Sync!FilterChanged \in BOOLEAN
    BY DEF Sync!FilterChanged
  <2>2. Sync!ResyncPlan(control, Sync!Ready, Sync!FilterChanged) \in Sync!Side \union {None}
    BY DEF Sync!ResyncPlan, Sync!Control, Sync!Side
  <2>3. run' = [Sync!Idle EXCEPT !.pc = "gate", !.control = control, !.filter = filter,
                            !.changed = Sync!FilterChanged,
                            !.resync = Sync!ResyncPlan(control, Sync!Ready, Sync!FilterChanged)]
    BY DEF Sync!StartRun
  <2> HIDE DEF Sync!FilterChanged, Sync!ResyncPlan
  <2> QED
    BY <2>1, <2>2, <2>3, IdleType DEF RunType, Types
<1> QED
  BY <1>1, <1>2, <1>3

LEMMA TypeStep ==
    ASSUME Types, [Sync!Next]_(Sync!vars)
    PROVE  Types'
<1>f. ASSUME Sync!Fault PROVE runFaults' \in 0 .. RunFaults
  BY <1>f, FaultType DEF Types
<1>i. Sync!Idle \in RunType /\ Sync!NoAsk \in AskType
  BY IdleType DEF Sync!NoAsk, AskType, Sync!Control
<1>w. Sync!Interrupted \in DirType /\ Sync!Acknowledge \in DirType
      /\ \A d \in DirType : Sync!Marked(d) \in DirType
  BY WorkdirType
<1>1. CASE Sync!Scheduled \/ Sync!Intervene
  <2>1. \E control \in Sync!Control : Sync!StartRun(control)
    BY <1>1 DEF Sync!Scheduled, Sync!Intervene, Sync!Control, Types, AskType
  <2>2. ask' \in AskType /\ UNCHANGED <<fileEdits, filter, runFaults, strategy>>
    BY <1>1, <1>i DEF Sync!Scheduled, Sync!Intervene, Sync!StartRun, Types
  <2> QED
    BY <2>1, <2>2, StartTypes DEF Types
<1>2. CASE Sync!Gate
  <2>1. run' \in RunType
    BY <1>2, <1>i DEF Sync!Gate, Sync!Return, Types, RunType
  <2>2. runFaults' \in 0 .. RunFaults
    BY <1>2, <1>f DEF Sync!Gate, Types
  <2> QED
    BY <1>2, <2>1, <2>2 DEF Sync!Gate, Types
<1>3. CASE Sync!RcloneOk
  <2>1. dir' \in DirType
    BY <1>3, SyncedType DEF Sync!RcloneOk, Types, DirType, RunType
  <2>2. run' \in RunType
    <3>1. (Sync!Synced["local"] # Sync!Synced["remote"]) \in BOOLEAN
      OBVIOUS
    <3> QED
      BY <1>3, <3>1 DEF Sync!RcloneOk, Types, RunType
  <2> QED
    BY <1>3, <2>1, <2>2, SyncedType, MovedType DEF Sync!RcloneOk, Types
<1>4. CASE Sync!RcloneTransient
  <2>1. PICK d \in {dir, Sync!Interrupted} :
            IF Sync!MayRetry
            THEN /\ run' = [run EXCEPT !.pc = "again", !.tries = @ + 1]
                 /\ dir' = d
                 /\ UNCHANGED runFaults
            ELSE Sync!Fault /\ Sync!Return /\ dir' = Sync!Marked(d)
    BY <1>4 DEF Sync!RcloneTransient
  <2>2. d \in DirType
    BY <1>w, <2>1 DEF Types
  <2>3. dir' \in DirType
    BY <1>w, <2>1, <2>2
  <2>4. run' \in RunType
    <3>1. CASE Sync!MayRetry
      <4>1. run.tries + 1 \in 0 .. MaxRetries
        BY <3>1, BaselineAssumption DEF Sync!MayRetry, Types, RunType
      <4>2. run' = [run EXCEPT !.pc = "again", !.tries = @ + 1]
        BY <2>1, <3>1
      <4> QED
        BY <4>1, <4>2 DEF Types, RunType
    <3>2. CASE ~Sync!MayRetry
      BY <1>i, <2>1, <3>2 DEF Sync!Return
    <3> QED
      BY <3>1, <3>2
  <2>5. runFaults' \in 0 .. RunFaults
    BY <1>f, <2>1 DEF Types
  <2> QED
    BY <1>4, <2>3, <2>4, <2>5 DEF Sync!RcloneTransient, Types
<1>5. CASE Sync!RcloneStops
  <2>1. dir' \in DirType
    BY <1>5, <1>w DEF Sync!RcloneStops, Types
  <2> QED
    BY <1>5, <1>f, <1>i, <2>1 DEF Sync!RcloneStops, Sync!Return, Types
<1>6. CASE Sync!RcloneAborts
  <2>1. run' \in RunType
    BY <1>6 DEF Sync!RcloneAborts, Sync!RecoveryMode, Types, RunType, Sync!Side
  <2>2. runFaults' \in 0 .. RunFaults
    BY <1>6, <1>f DEF Sync!RcloneAborts, Types
  <2> QED
    BY <1>6, <2>1, <2>2, EmptyType, MovedType DEF Sync!RcloneAborts, Sync!Archive, Types
<1>7. CASE Sync!RcloneCritical
  <2>1. [dir EXCEPT !.lst = "error"] \in DirType
    BY DEF Types, DirType
  <2>2. dir' \in DirType
    BY <1>7, <1>w, <2>1 DEF Sync!RcloneCritical
  <2> QED
    BY <1>7, <1>i, <2>2, MovedType DEF Sync!RcloneCritical, Sync!Return, Types
<1>8. CASE Sync!Finish
  <2>1. dir' \in DirType
    BY <1>8, <1>w DEF Sync!Finish, Types
  <2>2. Sync!ConflictWinner \in Sync!Side
    BY DEF Sync!ConflictWinner, Sync!Side
  <2>3. file' \in [Sync!Side -> Sync!Version]
    BY <1>8, <2>2 DEF Sync!Finish, Sync!SettleConflict, Types
  <2>4. conf' \in ConfType
    <3>1. [status |-> "pending", resolution |-> None, applied |-> FALSE] \in ConfType
      BY DEF ConfType
    <3>2. conf' \in {conf, [status |-> "pending", resolution |-> None, applied |-> FALSE]}
      BY <1>8 DEF Sync!Finish, Sync!SettleConflict
    <3> QED
      BY <3>1, <3>2 DEF Types
  <2>5. runFaults' \in 0 .. RunFaults
    BY <1>8, <1>f DEF Sync!Finish, Sync!SettleConflict, Types
  <2> QED
    BY <1>8, <1>i, <2>1, <2>3, <2>4, <2>5 DEF Sync!Finish, Sync!Return, Types
<1>9. ASSUME NEW s \in Sync!Side, Sync!Plan(s) PROVE Types'
  <2>1. plan' \in PlanType
    <3>1. (~Sync!Present) \in BOOLEAN /\ (file["local"] = file["remote"]) \in BOOLEAN
      BY DEF Sync!Present
    <3> QED
      BY <1>9, <3>1 DEF Sync!Plan, PlanType, Types
  <2> QED
    BY <1>9, <2>1 DEF Sync!Plan, Types
<1>10. ASSUME NEW s \in Sync!Side, Sync!Edit(s) PROVE Types'
  <2>1. fileEdits' \in 0 .. FileEdits /\ fileEdits + 1 \in Sync!Version
    BY <1>10, BaselineAssumption DEF Sync!Edit, Types, Sync!Version
  <2>2. file' \in [Sync!Side -> Sync!Version]
    BY <1>10, <2>1 DEF Sync!Edit, Types
  <2> QED
    BY <1>10, <2>1, <2>2 DEF Sync!Edit, Types
<1>11. CASE Sync!Approve
  <2>1. plan.control \in Sync!Control
    BY <1>11 DEF Sync!Approve, Types, PlanType, Sync!Control
  <2>2. ask' \in AskType
    BY <1>11, <2>1 DEF Sync!Approve, AskType
  <2> QED
    BY <1>11, <2>2 DEF Sync!Approve, Types
<1>12. CASE Sync!Recheck
  <2>1. ask' \in AskType
    BY <1>12, <1>i DEF Sync!Recheck, AskType, Types
  <2> QED
    BY <1>12, <2>1 DEF Sync!Recheck, Types
<1>13. CASE Sync!ChangeFilter
  BY <1>13 DEF Sync!ChangeFilter, Types
<1>14. CASE Sync!Resolve
  <2>1. conf' \in ConfType
    BY <1>14 DEF Sync!Resolve, ConfType
  <2> QED
    BY <1>14, <2>1 DEF Sync!Resolve, Types
<1>15. CASE Sync!Crash
  <2>1. dir' \in DirType
    BY <1>15, <1>w DEF Sync!Crash, Types
  <2> QED
    BY <1>15, <1>f, <1>i, <2>1 DEF Sync!Crash, Types
<1>16. CASE UNCHANGED Sync!vars
  BY <1>16 DEF Sync!vars, Types
<1> QED
  BY <1>1, <1>2, <1>3, <1>4, <1>5, <1>6, <1>7, <1>8, <1>9, <1>10, <1>11, <1>12, <1>13, <1>14, <1>15,
     <1>16 DEF Sync!Next, Sync!RunStep

LEMMA TypeStart == Sync!Init => Types
BY EmptyType, IdleType, Bases, BaselineAssumption
   DEF Sync!Init, Types, Sync!NoAsk, AskType, Sync!Control, PlanType, ConfType

-----------------------------------------------------------------------------
(* Listings and the rules they were made with.                             *)

\* The workdir after the decisions: set aside, or a pair of the live rules
\* that is used without a resync.
LEMMA StartListings ==
    ASSUME Types, Listings, NEW control \in Sync!Control, Sync!StartRun(control)
    PROVE  Listings'
<1>t. filter \in Filter /\ filter # None /\ dir \in DirType
  BY BaselineAssumption DEF Types
<1>1. /\ run'.pc = "gate" /\ run'.filter = filter /\ run'.changed = Sync!FilterChanged
      /\ run'.resync = Sync!ResyncPlan(control, Sync!Ready, Sync!FilterChanged)
  <2> HIDE DEF Sync!FilterChanged, Sync!ResyncPlan
  <2>1. run' = [Sync!Idle EXCEPT !.pc = "gate", !.control = control, !.filter = filter,
                            !.changed = Sync!FilterChanged,
                            !.resync = Sync!ResyncPlan(control, Sync!Ready, Sync!FilterChanged)]
    BY DEF Sync!StartRun
  <2> QED
    BY <2>1 DEF Sync!Idle
<1>2. CASE dir' = Sync!Empty
  <2>1. dir'.fp = None /\ ~Sync!Present'
    BY <1>2 DEF Sync!Empty, Sync!Present
  <2> QED
    BY <1>1, <1>t, <2>1 DEF Listings, PairRuled, Acknowledged, RunKnowsFilter, PairUsable, PairMade,
                            RerunClean, Sync!FilterChanged
<1>3. CASE dir' = dir
  <2>1. \/ ~(control # "normal" \/ ~Sync!Ready \/ Sync!FilterChanged)
        \/ ~(Sync!Present \/ dir.lst = "error") \/ dir = Sync!Empty
    BY <1>3 DEF Sync!StartRun, Sync!Archive
  <2>2. Sync!Present => dir.fp = filter \/ filter = NoFilter \/ dir = Sync!Empty
    BY <2>1 DEF Sync!FilterChanged
  <2>3. ~Sync!Present => dir.fp = None
    BY DEF Listings, Acknowledged
  <2>4. Sync!Empty.fp = None /\ Sync!Empty.lst = "none"
    BY DEF Sync!Empty
  <2>5. Acknowledged' /\ PairRuled'
    BY <1>3 DEF Listings, Acknowledged, PairRuled, Sync!Present
  <2>6. RunKnowsFilter'
    <3>1. Sync!FilterChanged => filter # NoFilter /\ dir.fp = None
      BY <2>1, <2>2, <2>3, <2>4 DEF Sync!FilterChanged
    <3>2. ~Sync!FilterChanged => dir.fp \in {None, filter} \/ filter = NoFilter
      BY DEF Sync!FilterChanged
    <3> QED
      BY <1>1, <1>3, <1>t, <3>1, <3>2 DEF RunKnowsFilter
  <2>7. PairUsable'
    <3>1. Sync!Present => dir.under = filter \/ NoFilter \in {dir.under, filter}
      BY <1>t, <2>2, <2>4 DEF Listings, Acknowledged, Sync!Present
    <3> QED
      BY <1>1, <1>3, <3>1 DEF PairUsable, Sync!Present
  <2> QED
    BY <1>1, <2>5, <2>6, <2>7 DEF Listings, PairMade, RerunClean
<1> QED
  BY <1>2, <1>3 DEF Sync!StartRun, Sync!Archive

LEMMA ListingStep ==
    ASSUME Types, Listings, [Sync!Next]_(Sync!vars)
    PROVE  Listings'
<1> USE DEF Listings
<1>t. dir \in DirType /\ run \in RunType
  BY DEF Types
<1>1. CASE Sync!Scheduled \/ Sync!Intervene
  <2>1. \E control \in Sync!Control : Sync!StartRun(control)
    BY <1>1 DEF Sync!Scheduled, Sync!Intervene, Sync!Control, Types, AskType
  <2> QED
    BY <2>1, StartListings
<1>x. ASSUME run' = Sync!Idle, dir' = dir PROVE Listings'
  BY <1>x DEF Sync!Idle, PairRuled, Acknowledged, RunKnowsFilter, PairUsable, PairMade, RerunClean,
              Sync!Present
<1>m. ASSUME run.pc # "idle", run' = Sync!Idle, NEW d, d.fp = dir.fp, d.under = dir.under,
             d.marker = dir.marker,
             d.fp # None => d.lst \in {"ready", "busy"},
             d.lst \in {"ready", "busy"} => Sync!Present,
             dir' = Sync!Marked(d), d \in DirType
      PROVE  Listings'
  <2>1. /\ dir'.fp = dir.fp /\ dir'.under = dir.under /\ dir'.lst = d.lst
        /\ dir'.marker = (dir.marker \/ run.changed)
    BY <1>m DEF Sync!Marked, DirType
  <2>2. Acknowledged'
    BY <1>m, <1>t, <2>1 DEF Acknowledged, RunKnowsFilter, Sync!Present, RunType
  <2>3. PairRuled'
    BY <1>m, <2>1 DEF PairRuled, Sync!Present
  <2> QED
    BY <1>m, <2>2, <2>3 DEF Sync!Idle, RunKnowsFilter, PairUsable, PairMade, RerunClean
<1>i. ASSUME NEW d \in {dir, Sync!Interrupted}
      PROVE  /\ d.fp = dir.fp /\ d.under = dir.under /\ d.marker = dir.marker /\ d \in DirType
             /\ d.lst = dir.lst \/ (Sync!Present /\ d.lst = "busy")
  BY <1>t DEF Sync!Interrupted, DirType
<1>2. CASE Sync!Gate
  <2>1. CASE run' = [run EXCEPT !.pc = "rclone"]
    <3>1. /\ run'.pc = "rclone" /\ run'.resync = run.resync /\ run'.filter = run.filter
          /\ run'.changed = run.changed /\ dir' = dir /\ run.pc \in {"gate", "again"}
      BY <1>2, <1>t, <2>1 DEF Sync!Gate, RunType
    <3> QED
      BY <3>1 DEF PairRuled, Acknowledged, RunKnowsFilter, PairUsable, PairMade, RerunClean,
                  Sync!Present
  <2> QED
    BY <1>2, <1>x, <2>1 DEF Sync!Gate, Sync!Return
<1>3. CASE Sync!RcloneOk
  <2>1. /\ dir'.lst = "ready" /\ dir'.under = run.filter /\ dir'.fp = dir.fp
        /\ dir'.marker = dir.marker
    BY <1>3, <1>t DEF Sync!RcloneOk, DirType
  <2>2. /\ run'.pc = "post" /\ run'.filter = run.filter /\ run'.changed = run.changed
        /\ run.pc # "idle"
    BY <1>3, <1>t DEF Sync!RcloneOk, RunType, Sync!Running
  <2> QED
    BY <2>1, <2>2 DEF PairRuled, Acknowledged, RunKnowsFilter, PairUsable, PairMade, RerunClean,
                      Sync!Present
<1>4. CASE Sync!RcloneTransient
  <2>1. PICK d \in {dir, Sync!Interrupted} :
            IF Sync!MayRetry
            THEN /\ run' = [run EXCEPT !.pc = "again", !.tries = @ + 1]
                 /\ dir' = d
                 /\ UNCHANGED runFaults
            ELSE Sync!Fault /\ Sync!Return /\ dir' = Sync!Marked(d)
    BY <1>4 DEF Sync!RcloneTransient
  <2>2. run.pc \in {"rclone", "rerun"}
    BY <1>4 DEF Sync!RcloneTransient, Sync!Running
  <2>3. CASE Sync!MayRetry
    <3>1. /\ run'.pc = "again" /\ run'.resync = run.resync /\ run'.filter = run.filter
          /\ run'.changed = run.changed /\ dir' = d
      BY <1>t, <2>1, <2>3 DEF RunType
    <3>2. Sync!Present' = Sync!Present
      BY <1>i, <3>1 DEF Sync!Present
    <3> QED
      BY <1>i, <2>2, <3>1, <3>2 DEF PairRuled, Acknowledged, RunKnowsFilter, PairUsable, PairMade,
                                    RerunClean
  <2>4. CASE ~Sync!MayRetry
    <3>1. /\ d.fp # None => d.lst \in {"ready", "busy"}
          /\ d.lst \in {"ready", "busy"} => Sync!Present
      BY <1>i DEF Acknowledged, Sync!Present
    <3> QED
      BY <1>i, <1>m, <2>1, <2>2, <2>4, <3>1 DEF Sync!Return
  <2> QED
    BY <2>3, <2>4
<1>5. CASE Sync!RcloneStops
  <2>1. PICK d \in {dir, Sync!Interrupted} : dir' = Sync!Marked(d)
    BY <1>5 DEF Sync!RcloneStops
  <2>2. /\ d.fp # None => d.lst \in {"ready", "busy"}
        /\ d.lst \in {"ready", "busy"} => Sync!Present
    BY <1>i DEF Acknowledged, Sync!Present
  <2> QED
    BY <1>5, <1>i, <1>m, <2>1, <2>2 DEF Sync!RcloneStops, Sync!Return, Sync!Running
<1>6. CASE Sync!RcloneAborts
  <2>1. /\ dir'.fp = None /\ dir'.lst = "none"
    BY <1>6 DEF Sync!RcloneAborts, Sync!Archive, Sync!Empty
  <2>2. /\ run'.pc = "rerun" /\ run'.filter = run.filter /\ run'.changed = run.changed
        /\ run.pc = "rclone"
    BY <1>6, <1>t DEF Sync!RcloneAborts, RunType
  <2> QED
    BY <2>1, <2>2 DEF PairRuled, Acknowledged, RunKnowsFilter, PairUsable, PairMade, RerunClean,
                      Sync!Present
<1>7. CASE Sync!RcloneCritical
  <2> DEFINE d == [dir EXCEPT !.lst = "error"]
  <2>1. d.fp = dir.fp /\ d.under = dir.under /\ d.marker = dir.marker /\ d \in DirType
    BY <1>t DEF DirType
  <2>2. dir' = Sync!Marked(d) /\ run.pc = "rerun" /\ run' = Sync!Idle
    BY <1>7 DEF Sync!RcloneCritical, Sync!Return
  <2>3. d.fp = None /\ d.lst = "error"
    BY <1>t, <2>1, <2>2 DEF RerunClean, DirType
  <2> HIDE DEF d
  <2> QED
    BY <1>m, <2>1, <2>2, <2>3
<1>8. CASE Sync!Finish
  <2>1. CASE dir' = Sync!Acknowledge /\ run.changed
    <3>1. /\ dir'.fp = run.filter /\ ~dir'.marker
          /\ dir'.lst = dir.lst /\ dir'.under = dir.under
      BY <1>t, <2>1 DEF Sync!Acknowledge, DirType
    <3>2. dir.lst = "ready" /\ dir.under = run.filter /\ run' = Sync!Idle
      BY <1>8 DEF Sync!Finish, Sync!Return, PairMade
    <3> QED
      BY <3>1, <3>2 DEF Sync!Idle, PairRuled, Acknowledged, RunKnowsFilter, PairUsable, PairMade,
                        RerunClean, Sync!Present
  <2>2. CASE dir' = dir
    BY <1>8, <1>x, <2>2 DEF Sync!Finish, Sync!Return
  <2> QED
    BY <1>8, <2>1, <2>2 DEF Sync!Finish, Sync!Acknowledge
<1>9. CASE Sync!Crash
  <2>1. PICK d \in {dir, Sync!Interrupted} : dir' = d
    BY <1>9 DEF Sync!Crash
  <2>2. Sync!Present' = Sync!Present
    BY <1>i, <2>1 DEF Sync!Present
  <2>3. Acknowledged'
    BY <1>i, <2>1, <2>2 DEF Acknowledged
  <2>4. PairRuled'
    BY <1>i, <2>1, <2>2 DEF PairRuled
  <2> QED
    BY <1>9, <2>3, <2>4 DEF Sync!Crash, Sync!Idle, RunKnowsFilter, PairUsable, PairMade, RerunClean
<1>10. CASE UNCHANGED <<dir, run>>
  BY <1>10 DEF PairRuled, Acknowledged, RunKnowsFilter, PairUsable, PairMade, RerunClean,
               Sync!Present
<1>11. CASE \/ \E s \in Sync!Side : Sync!Plan(s) \/ Sync!Edit(s)
            \/ Sync!Approve \/ Sync!Recheck \/ Sync!ChangeFilter \/ Sync!Resolve
            \/ UNCHANGED Sync!vars
  BY <1>10, <1>11 DEF Sync!Plan, Sync!Edit, Sync!Approve, Sync!Recheck, Sync!ChangeFilter,
                      Sync!Resolve, Sync!vars
<1> QED
  BY <1>1, <1>2, <1>3, <1>4, <1>5, <1>6, <1>7, <1>8, <1>9, <1>11 DEF Sync!Next, Sync!RunStep

LEMMA ListingStart == Sync!Init => Listings
BY DEF Sync!Init, Listings, Sync!Empty, Sync!Idle, PairRuled, Acknowledged, RunKnowsFilter,
       PairUsable, PairMade, RerunClean,
   Sync!Present

LEMMA ListingsAlways == Sync!Spec => [](Types /\ Listings)
<1>1. Sync!Init => Types /\ Listings
  BY TypeStart, ListingStart
<1>2. Types /\ Listings /\ [Sync!Next]_(Sync!vars) => (Types /\ Listings)'
  BY TypeStep, ListingStep
<1> QED
  BY <1>1, <1>2, PTL DEF Sync!Spec

-----------------------------------------------------------------------------
(* What follows.                                                           *)

\* Two sets of rules are never taken for each other, whatever crashed or failed
\* between a change of the rules and its acknowledgement: rclone works without
\* --resync only on listings of the rules it is given, unless it is given none
\* or they were made with none (reconcileFingerprint, shouldAcknowledgeFilter,
\* the marker).
THEOREM RulesNotMixed == TransfersSpec => []RulesKept
<1>1. Types /\ Listings => RulesKept
  BY DEF Listings, PairUsable, RulesKept, Sync!RulesKept, Sync!Running
<1> QED
  BY <1>1, SyncRuns, ListingsAlways, PTL

\* A fingerprint that is on disk is that of the pair beside it, unless a run
\* without rules has made that pair since, and no forced resync is pending; and
\* every variable keeps its type (shouldAcknowledgeFilter and the marker it
\* leaves).
THEOREM AcknowledgedListed == TransfersSpec => []AcknowledgedIsListed
<1>1. Types /\ Listings => AcknowledgedIsListed
  BY TypesAre DEF Listings, Acknowledged, AcknowledgedIsListed, Sync!Inv,
                  Sync!AcknowledgedIsListed
<1> QED
  BY <1>1, SyncRuns, ListingsAlways, PTL

LEMMA AuthorityStep ==
    ASSUME Types, LocalWins, [Sync!Next]_(Sync!vars)
    PROVE  LocalWins'
<1>t. run \in RunType
  BY DEF Types
<1>0. ASSUME run' = Sync!Idle PROVE LocalWins'
  BY <1>0 DEF Sync!Idle, LocalWins
<1>1. ASSUME NEW control, Sync!StartRun(control) PROVE LocalWins'
  <2> HIDE DEF Sync!FilterChanged
  <2>1. /\ run'.control = control
        /\ run'.resync = Sync!ResyncPlan(control, Sync!Ready, Sync!FilterChanged)
    BY <1>1 DEF Sync!StartRun, Sync!Idle
  <2>2. control = "local" => Sync!ResyncPlan(control, Sync!Ready, Sync!FilterChanged) = "local"
    BY DEF Sync!ResyncPlan
  <2> QED
    BY <2>1, <2>2 DEF LocalWins
<1>2. CASE Sync!Gate \/ Sync!RcloneOk \/ Sync!RcloneTransient \/ Sync!RcloneStops
           \/ Sync!RcloneCritical \/ Sync!Finish \/ Sync!Crash
  <2>1. \/ run' = Sync!Idle
        \/ run'.control = run.control /\ run'.resync = run.resync /\ run.pc # "idle"
    <3>1. CASE Sync!Gate
      BY <1>t, <3>1 DEF Sync!Gate, Sync!Return, RunType
    <3>2. CASE Sync!RcloneOk
      BY <1>t, <3>2 DEF Sync!RcloneOk, RunType, Sync!Running
    <3>3. CASE Sync!RcloneTransient
      BY <1>t, <3>3 DEF Sync!RcloneTransient, Sync!Return, RunType, Sync!Running
    <3>4. CASE Sync!RcloneStops \/ Sync!RcloneCritical \/ Sync!Finish \/ Sync!Crash
      BY <3>4 DEF Sync!RcloneStops, Sync!RcloneCritical, Sync!Finish, Sync!Crash, Sync!Return
    <3> QED
      BY <1>2, <3>1, <3>2, <3>3, <3>4
  <2> QED
    BY <1>0, <2>1 DEF LocalWins
<1>3. CASE Sync!RcloneAborts
  <2>1. run'.control = run.control /\ run'.resync = Sync!RecoveryMode /\ run.pc # "idle"
    BY <1>t, <1>3 DEF Sync!RcloneAborts, RunType
  <2> QED
    BY <2>1, BaselineAssumption DEF LocalWins, Sync!RecoveryMode
<1>4. CASE UNCHANGED run
  BY <1>4 DEF LocalWins
<1>5. CASE \/ \E s \in Sync!Side : Sync!Plan(s) \/ Sync!Edit(s)
           \/ Sync!Approve \/ Sync!Recheck \/ Sync!ChangeFilter \/ Sync!Resolve
            \/ UNCHANGED Sync!vars
  BY <1>4, <1>5 DEF Sync!Plan, Sync!Edit, Sync!Approve, Sync!Recheck, Sync!ChangeFilter,
                    Sync!Resolve, Sync!vars
<1> QED
  BY <1>1, <1>2, <1>3, <1>5 DEF Sync!Next, Sync!RunStep, Sync!Scheduled, Sync!Intervene

\* A run with this host as the authority leaves the local file as it is: each
\* attempt, and the recovery that adds --resync to a command that lacks it,
\* keeps the side that was approved (bisyncResyncPlan, buildRcloneCommand).
THEOREM AuthorityKept == TransfersSpec => SeedKeepsLocal
<1>1. Sync!Init => Types /\ LocalWins
  BY TypeStart DEF Sync!Init, LocalWins, Sync!Idle
<1>2. Types /\ LocalWins /\ [Sync!Next]_(Sync!vars) => (Types /\ LocalWins)'
  BY TypeStep, AuthorityStep
<1>3. Types /\ LocalWins /\ [Sync!Next]_(Sync!vars) =>
        (run.control = "local" /\ Sync!Running /\ file["local"] # 0 /\ fileEdits' = fileEdits
            => file'["local"] = file["local"])
  <2> SUFFICES ASSUME Types, LocalWins, [Sync!Next]_(Sync!vars), run.control = "local",
                      Sync!Running,
                      file["local"] # 0, fileEdits' = fileEdits
               PROVE  file'["local"] = file["local"]
    OBVIOUS
  <2>1. CASE Sync!RcloneOk
    <3>1. run.resync = "local"
      BY DEF LocalWins, Sync!Running
    <3>2. Sync!Synced = [s \in Sync!Side |-> file["local"]]
      <4>1. run.resync # None
        BY <3>1, BaselineAssumption
      <4> QED
        BY <3>1, <4>1 DEF Sync!Synced
    <3> QED
      BY <2>1, <3>2 DEF Sync!RcloneOk, Sync!Side
  <2>2. ASSUME NEW s \in Sync!Side, Sync!Edit(s) PROVE FALSE
    BY <2>2 DEF Sync!Edit, Types
  <2>3. CASE Sync!Scheduled \/ Sync!Intervene \/ Sync!Finish
    BY <2>3 DEF Sync!Scheduled, Sync!Intervene, Sync!StartRun, Sync!MutexFree, Sync!Finish,
                Sync!Running
  <2>4. CASE file' = file
    BY <2>4
  <2> QED
    BY <2>1, <2>2, <2>3, <2>4 DEF Sync!Next, Sync!RunStep, Sync!Gate, Sync!RcloneTransient,
                                  Sync!RcloneStops, Sync!RcloneAborts,
       Sync!RcloneCritical, Sync!Plan, Sync!Approve, Sync!Recheck, Sync!ChangeFilter,
       Sync!Resolve, Sync!Crash, Sync!vars
<1> QED
  BY <1>1, <1>2, <1>3, SyncRuns, PTL DEF Sync!Spec, SeedKeepsLocal, Sync!SeedKeepsLocal

=============================================================================
