------------------------------ MODULE JobsProofs ------------------------------
(***************************************************************************)
(* What holds of the two tables of work of MCJobs for all constants.       *)
(*                                                                         *)
(* Queued actions.  One audit row per settled action, no restart for an    *)
(* update whose outcome is not on the server, and no execution that nobody *)
(* owes, for every number of hosts, actions and overlapping polls.  A      *)
(* restart follows from what a loop of the daemon saw, an outcome is in    *)
(* the table: the invariant says that an answered ack is the ack of the    *)
(* action its loop executes.  That no action runs twice follows from the   *)
(* loops of a host taking turns.                                           *)
(*                                                                         *)
(* Browse jobs.  One writer of a destination, no size older than a write,  *)
(* no move that loses a file.  A size is read long before it is cached:    *)
(* the invariant says of every measurement under way what makes it stand.  *)
(***************************************************************************)
EXTENDS MCJobs, TLAPS

\* A loop works on actions of its own host.
OwnBatch == \A h \in Host, l \in Loop : \A x \in batch[h][l] : HostOf[x] = h

OwnCurrent ==
    \A h \in Host, l \in Loop :
        current[h][l] # None => current[h][l] \in Action /\ HostOf[current[h][l]] = h

\* It executes one from the start of the execution to the answer to its ack.
Executing ==
    \A h \in Host, l \in Loop :
        stage[h][l] \in {"executing", "acking", "recorded"} => current[h][l] # None

\* Requests somebody waits for belong to the loop that waits.
PollAttended ==
    \A m \in polls : m.loop # None => stage[m.host][m.loop] = "asking"

AckAttended ==
    \A m \in acks :
        m.loop # None => /\ stage[HostOf[m.act]][m.loop] = "acking"
                         /\ current[HostOf[m.act]][m.loop] = m.act

\* An ack that was answered has settled its action.
Recorded ==
    \A h \in Host, l \in Loop : stage[h][l] = "recorded" => Terminal(current[h][l])

LoopInv == OwnBatch /\ OwnCurrent /\ Executing

\* Nothing runs in a daemon that is down.
DownIdle == \A h \in Host, l \in Loop : daemon[h] = "down" => stage[h][l] = "idle"

\* A loop waits for the answer to one ack.
OneAck ==
    \A m, n \in acks : m.loop # None /\ m.loop = n.loop /\ m.act = n.act => m = n

MailInv == PollAttended /\ AckAttended /\ OneAck

QueueInv ==
    /\ TypeOK
    /\ LoopInv
    /\ MailInv
    /\ DownIdle
    /\ Recorded
    /\ RestartIsRecorded
    /\ AuditedOnce

-----------------------------------------------------------------------------
(* Helpers                                                                 *)

\* Types, in the parts different actions change.
TableType ==
    /\ status \in [Action -> Status]
    /\ leaseAge \in [Action -> 0..LeaseTTL]
    /\ created \in [Action -> SUBSET Action]
    /\ logged \in [Action -> Nat]

LoopType ==
    /\ stage \in [Host -> [Loop -> Stage]]
    /\ batch \in [Host -> [Loop -> SUBSET Action]]
    /\ current \in [Host -> [Loop -> Action \cup {None}]]

MailType == polls \subseteq Poll /\ acks \subseteq Ack

ProcessType ==
    /\ daemon \in [Host -> {"down", "booting", "up"}]
    /\ polling \in [Host -> BOOLEAN]
    /\ restarting \in [Host -> Update \cup {None}]

CountType == fresh \in [Action -> BOOLEAN] /\ faults \in 0..MaxFaults

LEMMA TypeParts == TypeOK <=> TableType /\ LoopType /\ MailType /\ ProcessType /\ CountType
  BY DEF TypeOK, TableType, LoopType, MailType, ProcessType, CountType

LEMMA TypePartsPrimed ==
    TypeOK' <=> TableType' /\ LoopType' /\ MailType' /\ ProcessType' /\ CountType'
  BY DEF TypeOK, TableType, LoopType, MailType, ProcessType, CountType

\* A function of two arguments after an update at one place.
LEMMA Put ==
    ASSUME NEW S, NEW f \in [Host -> [Loop -> S]], NEW h \in Host, NEW l \in Loop, NEW v \in S
    PROVE  /\ [f EXCEPT ![h][l] = v] \in [Host -> [Loop -> S]]
           /\ \A g \in Host, k \in Loop :
                [f EXCEPT ![h][l] = v][g][k] = IF g = h /\ k = l THEN v ELSE f[g][k]
  OBVIOUS

\* The same for a whole row of it.
LEMMA PutRow ==
    ASSUME NEW S, NEW f \in [Host -> [Loop -> S]], NEW h \in Host, NEW v \in S
    PROVE  /\ [f EXCEPT ![h] = [l \in Loop |-> v]] \in [Host -> [Loop -> S]]
           /\ \A g \in Host, k \in Loop :
                [f EXCEPT ![h] = [l \in Loop |-> v]][g][k] = IF g = h THEN v ELSE f[g][k]
  OBVIOUS

LEMMA LoopNames == "boot" \in Loop /\ PollLoop \subseteq Loop /\ None \notin Loop /\ None \notin Action
  BY ConstantsAssumption DEF Loop

LEMMA OneMoreFault ==
    ASSUME faults \in 0..MaxFaults, faults < MaxFaults, faults' = faults + 1
    PROVE  faults' \in 0..MaxFaults
  BY ConstantsAssumption

\* The state of the server's table after any step.
TableNext ==
    /\ TableType'
    /\ AuditedOnce'
    /\ \A x \in Action : Terminal(x) => Terminal(x)'

LEMMA TableKept ==
    ASSUME TypeOK, AuditedOnce, UNCHANGED table
    PROVE  TableNext
  BY TypeParts DEF TableNext, TableType, AuditedOnce, Terminal, table

\* The rest of the invariant after any step.
DaemonNext ==
    /\ LoopType' /\ MailType' /\ ProcessType' /\ CountType'
    /\ LoopInv' /\ MailInv' /\ DownIdle'
    /\ Recorded' /\ RestartIsRecorded'

LEMMA InvParts ==
    ASSUME QueueInv
    PROVE  /\ TableType /\ LoopType /\ MailType /\ ProcessType /\ CountType
           /\ LoopInv /\ MailInv /\ DownIdle /\ Recorded /\ RestartIsRecorded /\ AuditedOnce
           /\ TypeOK
  BY TypeParts DEF QueueInv

LEMMA InvPrimed == TableNext /\ DaemonNext => QueueInv'
  BY TypePartsPrimed DEF TableNext, DaemonNext, QueueInv

\* Terminal rows stay terminal, so what a daemon saw recorded stays true.
LEMMA SeenKept ==
    ASSUME QueueInv, TableNext,
           \A h \in Host, l \in Loop :
               stage'[h][l] = "recorded" =>
                   stage[h][l] = "recorded" /\ current'[h][l] = current[h][l],
           restarting' = restarting
    PROVE  Recorded' /\ RestartIsRecorded'
<1> USE InvParts
<1>1. \A h \in Host, l \in Loop : stage[h][l] = "recorded" => current[h][l] \in Action
  BY DEF LoopInv, Executing, OwnCurrent
<1>2. \A h \in Host : restarting[h] # None => restarting[h] \in Action
  BY ConstantsAssumption DEF ProcessType
<1>3. Recorded'
  <2> SUFFICES ASSUME NEW h \in Host, NEW l \in Loop, stage'[h][l] = "recorded"
               PROVE  Terminal(current[h][l])' /\ current'[h][l] = current[h][l]
    BY DEF Recorded, Terminal
  <2>1. current[h][l] \in Action /\ Terminal(current[h][l])
    BY <1>1 DEF Recorded
  <2>2. status'[current[h][l]] \in Outcome
    BY <2>1 DEF TableNext, Terminal
  <2> QED
    BY <2>2 DEF Terminal
<1>4. RestartIsRecorded'
  <2> SUFFICES ASSUME NEW h \in Host, restarting[h] # None
               PROVE  status'[restarting[h]] \in Outcome
    BY DEF RestartIsRecorded, Terminal
  <2> QED
    BY <1>2 DEF RestartIsRecorded, TableNext, Terminal
<1> QED
  BY <1>3, <1>4

\* A loop starts only in a daemon that runs, and only Stop takes one down.
LEMMA DownKept ==
    ASSUME QueueInv,
           \A h \in Host, l \in Loop :
               daemon[h] = "down" /\ stage[h][l] = "idle" => stage'[h][l] = "idle",
           \A h \in Host : daemon'[h] = "down" => daemon[h] = "down"
    PROVE  DownIdle'
  BY InvParts DEF DownIdle

-----------------------------------------------------------------------------
(* The server's steps                                                      *)

LEMMA RowStep ==
    ASSUME QueueInv, NEW x \in Action, Enqueue(x) \/ RenewLease(x) \/ Tick
    PROVE  QueueInv'
<1> USE InvParts
<1>1. UNCHANGED <<logged, loops, process, net, fresh, faults>>
  BY DEF Enqueue, RenewLease, Tick
<1>2. leaseAge' \in [Action -> 0..LeaseTTL]
  <2>1. CASE Enqueue(x)
    BY <2>1 DEF Enqueue, TableType
  <2>2. CASE RenewLease(x)
    BY <2>2, ConstantsAssumption DEF RenewLease, TableType
  <2>3. CASE Tick
    BY <2>3, ConstantsAssumption DEF Tick, TableType, Expired
  <2> QED
    BY <2>1, <2>2, <2>3
<1>3. status' \in [Action -> Status] /\ created' \in [Action -> SUBSET Action]
  BY DEF Enqueue, RenewLease, Tick, TableType, Status
<1>4. \A y \in Action : Terminal(y) <=> Terminal(y)'
  BY DEF Enqueue, RenewLease, Tick, TableType, Terminal, Outcome
<1>5. TableNext
  BY <1>1, <1>2, <1>3, <1>4 DEF TableNext, TableType, AuditedOnce
<1>6. Recorded' /\ RestartIsRecorded'
  BY <1>1, <1>5, SeenKept DEF loops, process
<1>7. LoopType' /\ MailType' /\ ProcessType' /\ CountType' /\ LoopInv' /\ MailInv' /\ DownIdle'
  BY <1>1 DEF LoopType, MailType, ProcessType, CountType, LoopInv, MailInv, DownIdle, OwnBatch,
              OwnCurrent, Executing, PollAttended, AckAttended, OneAck, loops, process, net
<1> QED
  BY <1>5, <1>6, <1>7, InvPrimed DEF DaemonNext

LEMMA ServePollStep ==
    ASSUME QueueInv, NEW m \in polls, ServePoll(m)
    PROVE  QueueInv'
<1> USE InvParts
<1> DEFINE mine == Claimable(m.host)
<1>0. m \in Poll /\ m.host \in Host /\ m.loop \in Loop \cup {None}
  BY DEF MailType, Poll
<1>1. /\ polls' = polls \ {m}
      /\ UNCHANGED <<created, logged, current, process, acks, fresh, faults>>
  BY DEF ServePoll
<1>2. /\ mine \subseteq Action
      /\ \A x \in mine : HostOf[x] = m.host /\ (status[x] = "pending" \/ Reapable(x))
  BY DEF Claimable
<1>3. /\ status' = [x \in Action |->
                    IF x \in mine THEN "taken"
                    ELSE IF Reapable(x) THEN "pending" ELSE status[x]]
      /\ leaseAge' = [x \in Action |->
                      IF x \in mine \/ Reapable(x) THEN 0 ELSE leaseAge[x]]
      /\ stage' = IF m.loop = None THEN stage
                  ELSE [stage EXCEPT ![m.host][m.loop] = "answered"]
      /\ batch' = IF m.loop = None THEN batch
                  ELSE [batch EXCEPT ![m.host][m.loop] = mine]
  BY DEF ServePoll
<1> HIDE DEF mine
<1>4. TableNext
  <2>1. TableType'
    BY <1>1, <1>3, ConstantsAssumption DEF TableType, Status
  <2>2. \A x \in Action : Terminal(x) <=> Terminal(x)'
    BY <1>2, <1>3 DEF Reapable, Terminal, Outcome
  <2> QED
    BY <2>1, <2>2, <1>1 DEF TableNext, AuditedOnce
<1>5. /\ stage' \in [Host -> [Loop -> Stage]]
      /\ \A g \in Host, k \in Loop :
            stage'[g][k] = IF g = m.host /\ k = m.loop THEN "answered" ELSE stage[g][k]
  <2>1. "answered" \in Stage
    BY DEF Stage
  <2>2. CASE m.loop = None
    BY <2>2, <1>3, LoopNames DEF LoopType
  <2>3. CASE m.loop # None
    BY <2>1, <2>3, <1>0, <1>3, Put DEF LoopType
  <2> QED
    BY <2>2, <2>3
<1>6. /\ batch' \in [Host -> [Loop -> SUBSET Action]]
      /\ \A g \in Host, k \in Loop :
            batch'[g][k] = IF g = m.host /\ k = m.loop THEN mine ELSE batch[g][k]
  <2>2. CASE m.loop = None
    BY <2>2, <1>3, LoopNames DEF LoopType
  <2>3. CASE m.loop # None
    BY <2>3, <1>0, <1>2, <1>3, Put DEF LoopType
  <2> QED
    BY <2>2, <2>3
<1>7. LoopType' /\ MailType' /\ ProcessType' /\ CountType'
  BY <1>1, <1>5, <1>6 DEF LoopType, MailType, ProcessType, CountType, process
<1>8. LoopInv'
  BY <1>1, <1>2, <1>5, <1>6 DEF LoopInv, OwnBatch, OwnCurrent, Executing
<1>9. MailInv'
  <2>1. m.loop # None => stage[m.host][m.loop] = "asking"
    BY DEF MailInv, PollAttended
  <2>2. PollAttended'
    <3> SUFFICES ASSUME NEW n \in polls, n # m, n.loop # None
                 PROVE  stage'[n.host][n.loop] = "asking"
      BY <1>1 DEF PollAttended
    <3>1. n \in Poll /\ m \in Poll
      BY DEF MailType
    <3>2. ~(n.host = m.host /\ n.loop = m.loop)
      BY <3>1 DEF Poll
    <3>3. n.host \in Host /\ n.loop \in Loop
      BY <3>1 DEF Poll
    <3> QED
      BY <3>2, <3>3, <1>5 DEF MailInv, PollAttended
  <2>3. AckAttended'
    <3> SUFFICES ASSUME NEW n \in acks, n.loop # None
                 PROVE  /\ stage'[HostOf[n.act]][n.loop] = "acking"
                        /\ current[HostOf[n.act]][n.loop] = n.act
      BY <1>1 DEF AckAttended
    <3>1. HostOf[n.act] \in Host /\ n.loop \in Loop
      BY ConstantsAssumption DEF MailType, Ack
    <3>2. /\ stage[HostOf[n.act]][n.loop] = "acking"
          /\ current[HostOf[n.act]][n.loop] = n.act
      BY DEF MailInv, AckAttended
    <3> QED
      BY <2>1, <3>1, <3>2, <1>0, <1>5
  <2> QED
    BY <2>2, <2>3, <1>1 DEF MailInv, OneAck
<1>10. Recorded' /\ RestartIsRecorded'
  BY <1>1, <1>4, <1>5, SeenKept DEF process
<1>11. DownIdle'
  <2>1. m.loop # None => stage[m.host][m.loop] = "asking"
    BY DEF MailInv, PollAttended
  <2> QED
    BY <1>1, <1>5, <2>1, LoopNames, DownKept DEF process
<1> QED
  BY <1>4, <1>7, <1>8, <1>9, <1>10, <1>11, InvPrimed DEF DaemonNext

LEMMA ServeAckStep ==
    ASSUME QueueInv, NEW m \in acks, ServeAck(m)
    PROVE  QueueInv'
<1> USE InvParts
<1> DEFINE x == m.act
           h == HostOf[m.act]
<1>0. /\ m \in Ack /\ x \in Action /\ h \in Host
      /\ m.loop \in Loop \cup {None} /\ m.outcome \in Outcome
  BY ConstantsAssumption DEF MailType, Ack
<1>1. /\ acks' = acks \ {m}
      /\ UNCHANGED <<created, batch, current, process, polls, fresh, faults>>
      /\ stage' = IF m.loop = None THEN stage ELSE [stage EXCEPT ![h][m.loop] = "recorded"]
  BY DEF ServeAck
<1>2. /\ Terminal(x)'
      /\ TableNext
  <2>1. CASE ~Terminal(x)
    <3>1. /\ status' = [status EXCEPT ![x] = m.outcome]
          /\ leaseAge' = [leaseAge EXCEPT ![x] = 0]
          /\ logged' = [logged EXCEPT ![x] = @ + 1]
      BY <2>1 DEF ServeAck, Completes
    <3>2. TableType'
      BY <3>1, <1>0, <1>1, ConstantsAssumption DEF TableType, Status, Outcome
    <3>3. Terminal(x)' /\ \A y \in Action \ {x} : Terminal(y) <=> Terminal(y)'
      BY <3>1, <1>0 DEF TableType, Terminal
    <3>4. logged'[x] = 1
      BY <2>1, <3>1, <1>0 DEF TableType, AuditedOnce
    <3>5. AuditedOnce'
      BY <3>1, <3>3, <3>4, <1>0 DEF TableType, AuditedOnce
    <3> QED
      BY <3>2, <3>3, <3>5 DEF TableNext
  <2>2. CASE Terminal(x)
    <3>1. UNCHANGED table
      BY <2>2, <1>1 DEF ServeAck, Completes, table
    <3> QED
      BY <2>2, <3>1, TableKept DEF Terminal, table
  <2> QED
    BY <2>1, <2>2
<1> HIDE DEF x, h
<1>3. m.loop # None => stage[h][m.loop] = "acking" /\ current[h][m.loop] = x
  BY DEF MailInv, AckAttended, x, h
<1>4. /\ stage' \in [Host -> [Loop -> Stage]]
      /\ \A g \in Host, k \in Loop :
            stage'[g][k] = IF g = h /\ k = m.loop THEN "recorded" ELSE stage[g][k]
  <2>1. "recorded" \in Stage
    BY DEF Stage
  <2>2. CASE m.loop = None
    BY <2>2, <1>1, LoopNames DEF LoopType
  <2>3. CASE m.loop # None
    BY <2>1, <2>3, <1>0, <1>1, Put DEF LoopType
  <2> QED
    BY <2>2, <2>3
<1>5. LoopType' /\ MailType' /\ ProcessType' /\ CountType'
  BY <1>1, <1>4 DEF LoopType, MailType, ProcessType, CountType, process
<1>6. LoopInv'
  <2>1. OwnBatch' /\ OwnCurrent'
    BY <1>1 DEF LoopInv, OwnBatch, OwnCurrent
  <2>2. Executing'
    BY <1>0, <1>1, <1>3, <1>4, LoopNames DEF LoopInv, Executing
  <2> QED
    BY <2>1, <2>2 DEF LoopInv
<1>7. MailInv'
  <2>2. PollAttended'
    <3> SUFFICES ASSUME NEW n \in polls, n.loop # None
                 PROVE  stage'[n.host][n.loop] = "asking"
      BY <1>1 DEF PollAttended
    <3>1. n.host \in Host /\ n.loop \in Loop /\ stage[n.host][n.loop] = "asking"
      BY DEF MailInv, PollAttended, MailType, Poll
    <3> QED
      BY <3>1, <1>3, <1>4
  <2>3. AckAttended'
    <3> SUFFICES ASSUME NEW n \in acks, n # m, n.loop # None
                 PROVE  /\ stage'[HostOf[n.act]][n.loop] = "acking"
                        /\ current[HostOf[n.act]][n.loop] = n.act
      BY <1>1 DEF AckAttended
    <3>1. HostOf[n.act] \in Host /\ n.loop \in Loop
      BY ConstantsAssumption DEF MailType, Ack
    <3>2. /\ stage[HostOf[n.act]][n.loop] = "acking"
          /\ current[HostOf[n.act]][n.loop] = n.act
      BY DEF MailInv, AckAttended
    <3>3. ~(HostOf[n.act] = h /\ n.loop = m.loop)
      BY <3>2, <1>3 DEF MailInv, OneAck, x
    <3> QED
      BY <3>1, <3>2, <3>3, <1>4
  <2>4. OneAck'
    BY <1>1 DEF MailInv, OneAck
  <2> QED
    BY <2>2, <2>3, <2>4 DEF MailInv
<1>8. Recorded' /\ RestartIsRecorded'
  <2>1. Recorded'
    <3> SUFFICES ASSUME NEW g \in Host, NEW k \in Loop, stage'[g][k] = "recorded"
                 PROVE  status'[current[g][k]] \in Outcome
      BY <1>1 DEF Recorded, Terminal
    <3>1. CASE g = h /\ k = m.loop
      BY <3>1, <1>2, <1>3, LoopNames DEF Terminal
    <3>2. CASE ~(g = h /\ k = m.loop)
      <4>1. stage[g][k] = "recorded"
        BY <3>2, <1>4
      <4>2. current[g][k] \in Action /\ Terminal(current[g][k])
        BY <4>1 DEF Recorded, LoopInv, Executing, OwnCurrent
      <4> QED
        BY <4>2, <1>2 DEF TableNext, Terminal
    <3> QED
      BY <3>1, <3>2
  <2>2. RestartIsRecorded'
    <3>1. restarting' = restarting /\ \A g \in Host : restarting[g] \in Action \cup {None}
      BY <1>1, ConstantsAssumption DEF ProcessType, process
    <3> QED
      BY <3>1, <1>2 DEF RestartIsRecorded, TableNext, Terminal
  <2> QED
    BY <2>1, <2>2
<1>9. DownIdle'
  BY <1>1, <1>3, <1>4, LoopNames, DownKept DEF process
<1> QED
  BY <1>2, <1>5, <1>6, <1>7, <1>8, <1>9, InvPrimed DEF DaemonNext

-----------------------------------------------------------------------------
(* The daemon's steps                                                      *)

\* f is e except at h, l, where it is v.
IsPut(f, e, h, l, v) ==
    \A g \in Host, k \in Loop : f[g][k] = IF g = h /\ k = l THEN v ELSE e[g][k]

\* Nobody waits in a loop that does not ask.
LEMMA NoMail ==
    ASSUME QueueInv, NEW h \in Host, NEW l \in Loop
    PROVE  /\ stage[h][l] # "asking" =>
                \A m \in polls : ~(m.host = h /\ m.loop = l)
           /\ stage[h][l] # "acking" =>
                \A m \in acks : ~(HostOf[m.act] = h /\ m.loop = l)
  BY InvParts, LoopNames DEF MailInv, PollAttended, AckAttended

\* One loop moves to stage s with batch b and action c, the others stay.
Moves(h, l, s, b, c) ==
    /\ IsPut(stage', stage, h, l, s)
    /\ IsPut(batch', batch, h, l, b)
    /\ IsPut(current', current, h, l, c)
    /\ \A x \in b : HostOf[x] = h
    /\ c # None => HostOf[c] = h
    /\ s \in {"executing", "acking", "recorded"} => c # None

\* The requests after the move that somebody waits for.
MailMoves(h, l, s, c) ==
    /\ \A m \in polls' :
          /\ m \in Poll
          /\ m.loop # None => \/ m \in polls /\ ~(m.host = h /\ m.loop = l)
                              \/ m.host = h /\ m.loop = l /\ s = "asking"
    /\ \A m \in acks' :
          /\ m \in Ack
          /\ m.loop # None =>
               \/ m \in acks /\ ~(HostOf[m.act] = h /\ m.loop = l)
               \/ HostOf[m.act] = h /\ m.loop = l /\ s = "acking" /\ c = m.act
    /\ OneAck'

LEMMA LoopMoves ==
    ASSUME QueueInv, NEW h \in Host, NEW l \in Loop,
           NEW s \in Stage, NEW b \in SUBSET Action, NEW c \in Action \cup {None},
           Moves(h, l, s, b, c), MailMoves(h, l, s, c)
    PROVE  MailType' /\ LoopInv' /\ MailInv'
<1> USE InvParts
<1>1. OwnBatch' /\ OwnCurrent' /\ Executing'
  BY DEF Moves, IsPut, LoopInv, OwnBatch, OwnCurrent, Executing
<1>2. PollAttended'
  <2> SUFFICES ASSUME NEW m \in polls', m.loop # None
               PROVE  stage'[m.host][m.loop] = "asking"
    BY DEF PollAttended
  <2>1. m.host \in Host /\ m.loop \in Loop
    BY DEF MailMoves, Poll
  <2> QED
    BY <2>1 DEF Moves, MailMoves, IsPut, MailInv, PollAttended
<1>3. AckAttended'
  <2> SUFFICES ASSUME NEW m \in acks', m.loop # None
               PROVE  /\ stage'[HostOf[m.act]][m.loop] = "acking"
                      /\ current'[HostOf[m.act]][m.loop] = m.act
    BY DEF AckAttended
  <2>1. HostOf[m.act] \in Host /\ m.loop \in Loop
    BY ConstantsAssumption DEF MailMoves, Ack
  <2> QED
    BY <2>1 DEF Moves, MailMoves, IsPut, MailInv, AckAttended
<1> QED
  BY <1>1, <1>2, <1>3 DEF MailMoves, MailType, LoopInv, MailInv

\* The same for a step that sends nothing, of a loop nobody answers.
LEMMA QuietMove ==
    ASSUME QueueInv, NEW h \in Host, NEW l \in Loop,
           stage[h][l] \notin {"asking", "acking"},
           NEW s \in Stage, NEW b \in SUBSET Action, NEW c \in Action \cup {None},
           Moves(h, l, s, b, c), UNCHANGED net
    PROVE  MailType' /\ LoopInv' /\ MailInv'
<1>1. polls' = polls /\ acks' = acks /\ polls \subseteq Poll /\ acks \subseteq Ack
  BY InvParts DEF net, MailType
<1>2. OneAck'
  BY <1>1, InvParts DEF MailInv, OneAck
<1>3. MailMoves(h, l, s, c)
  BY <1>1, <1>2, NoMail DEF MailMoves
<1> QED
  BY <1>3, LoopMoves

LEMMA PollTickStep ==
    ASSUME QueueInv, NEW h \in Host, NEW l \in PollLoop, PollTick(h, l)
    PROVE  QueueInv'
<1> USE InvParts
<1>0. l \in Loop /\ stage[h][l] = "idle"
  BY LoopNames DEF PollTick
<1>1. /\ stage' = [stage EXCEPT ![h][l] = "asking"]
      /\ polls' = polls \cup {PollMsg(h, l)}
      /\ polling' = [polling EXCEPT ![h] = TRUE]
      /\ UNCHANGED <<table, batch, current, daemon, restarting, acks, fresh, faults>>
  BY DEF PollTick
<1>2. TableNext
  BY <1>1, TableKept
<1>3. /\ stage' \in [Host -> [Loop -> Stage]]
      /\ IsPut(stage', stage, h, l, "asking")
  BY <1>0, <1>1, Put DEF LoopType, Stage, IsPut
<1>4. LoopType' /\ ProcessType' /\ CountType'
  BY <1>1, <1>3 DEF LoopType, ProcessType, CountType
<1>5. MailType' /\ LoopInv' /\ MailInv'
  <2>1. PollMsg(h, l) \in Poll /\ PollMsg(h, l).host = h /\ PollMsg(h, l).loop = l
    BY <1>0 DEF PollMsg, Poll
  <2>2. polls \subseteq Poll /\ acks \subseteq Ack
    BY DEF MailType
  <2>3. /\ IsPut(batch', batch, h, l, batch[h][l]) /\ IsPut(current', current, h, l, current[h][l])
        /\ batch[h][l] \in SUBSET Action /\ current[h][l] \in Action \cup {None}
        /\ "asking" \in Stage
    BY <1>0, <1>1 DEF IsPut, LoopType, Stage
  <2>4. Moves(h, l, "asking", batch[h][l], current[h][l])
    BY <1>0, <1>3, <2>3 DEF Moves, LoopInv, OwnBatch, OwnCurrent
  <2>5. OneAck'
    BY <1>1 DEF MailInv, OneAck
  <2>6. MailMoves(h, l, "asking", current[h][l])
    BY <1>0, <1>1, <2>1, <2>2, <2>5, NoMail DEF MailMoves
  <2> QED
    BY <1>0, <2>3, <2>4, <2>6, LoopMoves
<1>6. Recorded' /\ RestartIsRecorded'
  BY <1>1, <1>2, <1>3, SeenKept DEF IsPut
<1>7. DownIdle'
  BY <1>0, <1>1, <1>3, DownKept DEF IsPut, PollTick, MayPoll
<1> QED
  BY <1>2, <1>4, <1>5, <1>6, <1>7, InvPrimed DEF DaemonNext

QuietGoal(h, l) ==
    \E s \in Stage, b \in SUBSET Action, c \in Action \cup {None} :
        /\ LoopType'
        /\ IsPut(stage', stage, h, l, s)
        /\ IsPut(batch', batch, h, l, b)
        /\ IsPut(current', current, h, l, c)
        /\ b \subseteq batch[h][l]
        /\ c = current[h][l] \/ c \in batch[h][l]
        /\ s \in {"draining", "idle", "executing"}
        /\ s = "executing" => c # None

\* The loop takes up an answer, executes, or is through.
LEMMA QuietStep ==
    ASSUME QueueInv, NEW h \in Host, NEW l \in Loop,
           PollReturns(h, l) \/ LoopDone(h, l) \/ \E x \in Action : ExecuteAction(h, l, x)
    PROVE  QueueInv'
<1> USE InvParts
<1>1. /\ stage[h][l] \in {"answered", "draining"}
      /\ UNCHANGED <<table, net, restarting, faults>>
  BY DEF PollReturns, LoopDone, ExecuteAction, process
<1>2. TableNext
  BY <1>1, TableKept
<1>3. ProcessType'
  BY DEF PollReturns, LoopDone, ExecuteAction, process, ProcessType
<1>4. CountType'
  BY DEF PollReturns, LoopDone, ExecuteAction, CountType
<1>5. QuietGoal(h, l)
  <2>0. stage[h][l] \in Stage /\ batch[h][l] \in SUBSET Action /\ current[h][l] \in Action \cup {None}
    BY DEF LoopType
  <2>1. CASE PollReturns(h, l)
    <3>1. /\ stage' = [stage EXCEPT ![h][l] = "draining"]
          /\ UNCHANGED <<batch, current>> /\ "draining" \in Stage
      BY <2>1 DEF PollReturns, Stage
    <3>2. stage' \in [Host -> [Loop -> Stage]] /\ IsPut(stage', stage, h, l, "draining")
      BY <3>1, Put DEF LoopType, IsPut
    <3>3. IsPut(batch', batch, h, l, batch[h][l]) /\ IsPut(current', current, h, l, current[h][l])
      BY <3>1 DEF IsPut
    <3> QED
      BY <2>0, <3>1, <3>2, <3>3 DEF LoopType, QuietGoal
  <2>2. CASE LoopDone(h, l)
    <3>1. /\ stage' = [stage EXCEPT ![h][l] = "idle"]
          /\ UNCHANGED <<batch, current>> /\ "idle" \in Stage
      BY <2>2 DEF LoopDone, Stage
    <3>2. stage' \in [Host -> [Loop -> Stage]] /\ IsPut(stage', stage, h, l, "idle")
      BY <3>1, Put DEF LoopType, IsPut
    <3>3. IsPut(batch', batch, h, l, batch[h][l]) /\ IsPut(current', current, h, l, current[h][l])
      BY <3>1 DEF IsPut
    <3> QED
      BY <2>0, <3>1, <3>2, <3>3 DEF LoopType, QuietGoal
  <2>3. ASSUME NEW x \in Action, ExecuteAction(h, l, x) PROVE QuietGoal(h, l)
    <3>1. x \in batch[h][l] /\ batch' = [batch EXCEPT ![h][l] = @ \ {x}]
      BY <2>3 DEF ExecuteAction
    <3>2. batch' = [batch EXCEPT ![h][l] = batch[h][l] \ {x}]
      BY <3>1
    <3>3. /\ batch' \in [Host -> [Loop -> SUBSET Action]]
          /\ IsPut(batch', batch, h, l, batch[h][l] \ {x})
      BY <2>0, <3>2, Put DEF LoopType, IsPut
    <3>4. CASE InFlight(x)
      <4>1. UNCHANGED <<stage, current>> /\ stage[h][l] = "draining"
        BY <2>3, <3>4 DEF ExecuteAction
      <4>2. IsPut(stage', stage, h, l, stage[h][l]) /\ IsPut(current', current, h, l, current[h][l])
        BY <4>1 DEF IsPut
      <4> QED
        BY <2>0, <3>3, <4>1, <4>2 DEF LoopType, QuietGoal
    <3>5. CASE ~InFlight(x)
      <4>1. /\ stage' = [stage EXCEPT ![h][l] = "executing"] /\ "executing" \in Stage
            /\ current' = [current EXCEPT ![h][l] = x]
        BY <2>3, <3>5 DEF ExecuteAction, Stage
      <4>2. /\ stage' \in [Host -> [Loop -> Stage]]
            /\ IsPut(stage', stage, h, l, "executing")
        BY <4>1, Put DEF LoopType, IsPut
      <4>3. /\ current' \in [Host -> [Loop -> Action \cup {None}]]
            /\ IsPut(current', current, h, l, x)
        BY <4>1, Put DEF LoopType, IsPut
      <4> QED
        BY <2>0, <3>1, <3>3, <4>1, <4>2, <4>3, LoopNames DEF LoopType, QuietGoal
    <3> QED
      BY <3>4, <3>5
  <2> QED
    BY <2>1, <2>2, <2>3
<1>6. PICK s \in Stage, b \in SUBSET Action, c \in Action \cup {None} :
        /\ LoopType'
        /\ IsPut(stage', stage, h, l, s)
        /\ IsPut(batch', batch, h, l, b)
        /\ IsPut(current', current, h, l, c)
        /\ b \subseteq batch[h][l]
        /\ c = current[h][l] \/ c \in batch[h][l]
        /\ s \in {"draining", "idle", "executing"}
        /\ s = "executing" => c # None
  BY <1>5 DEF QuietGoal
<1>7. MailType' /\ LoopInv' /\ MailInv'
  <2>1. Moves(h, l, s, b, c)
    BY <1>6 DEF Moves, LoopInv, OwnBatch, OwnCurrent
  <2>2. stage[h][l] \notin {"asking", "acking"} /\ UNCHANGED net
    BY <1>1
  <2> QED
    BY <1>6, <2>1, <2>2, QuietMove
<1>8. Recorded' /\ RestartIsRecorded'
  BY <1>1, <1>2, <1>6, SeenKept DEF IsPut
<1>9. DownIdle'
  <2>1. \A g \in Host : daemon'[g] = "down" => daemon[g] = "down"
    BY DEF PollReturns, LoopDone, ExecuteAction, process, ProcessType
  <2> QED
    BY <2>1, <1>1, <1>6, DownKept DEF IsPut
<1> QED
  BY <1>2, <1>3, <1>4, <1>6, <1>7, <1>8, <1>9, InvPrimed DEF DaemonNext

\* A poll that failed or is repeated.
LEMMA PollFaultStep ==
    ASSUME QueueInv, NEW h \in Host, NEW l \in Loop, PollFails(h, l) \/ PollRetry(h, l)
    PROVE  QueueInv'
<1> USE InvParts
<1>0. PICK s \in {"idle", "asking"} :
         /\ stage' = [stage EXCEPT ![h][l] = s]
         /\ s = "idle" => polls' = polls \ {PollMsg(h, l)} \/
                          polls' = (polls \ {PollMsg(h, l)}) \cup {PollMsg(h, None)}
         /\ s = "asking" => polls' = polls \cup {PollMsg(h, l)} \/
                            polls' = polls \cup {PollMsg(h, l), PollMsg(h, None)}
  BY DEF PollFails, PollRetry
<1>1. /\ stage[h][l] \in {"asking", "answered"}
      /\ batch' = [batch EXCEPT ![h][l] = {}]
      /\ faults < MaxFaults /\ faults' = faults + 1
      /\ UNCHANGED <<table, current, daemon, restarting, acks, fresh>>
  BY DEF PollFails, PollRetry, process
<1>2. TableNext
  BY <1>1, TableKept
<1>3. /\ stage' \in [Host -> [Loop -> Stage]] /\ s \in Stage
      /\ IsPut(stage', stage, h, l, s)
  BY <1>0, Put DEF LoopType, Stage, IsPut
<1>4. /\ batch' \in [Host -> [Loop -> SUBSET Action]]
      /\ IsPut(batch', batch, h, l, {})
  BY <1>1, Put DEF LoopType, IsPut
<1>5. LoopType' /\ ProcessType' /\ CountType'
  BY <1>1, <1>3, <1>4, OneMoreFault
  DEF LoopType, ProcessType, CountType, PollFails, PollRetry, process
<1>6. MailType' /\ LoopInv' /\ MailInv'
  <2>1. /\ PollMsg(h, l) \in Poll /\ PollMsg(h, l).host = h /\ PollMsg(h, l).loop = l
        /\ PollMsg(h, None) \in Poll /\ PollMsg(h, None).loop = None
    BY DEF PollMsg, Poll
  <2>2. polls \subseteq Poll /\ acks \subseteq Ack
    BY DEF MailType
  <2>3. /\ IsPut(current', current, h, l, current[h][l])
        /\ current[h][l] \in Action \cup {None}
    BY <1>1 DEF IsPut, LoopType
  <2>4. Moves(h, l, s, {}, current[h][l])
    BY <1>0, <1>3, <1>4, <2>3 DEF Moves, LoopInv, OwnCurrent
  <2>5. OneAck'
    BY <1>1 DEF MailInv, OneAck
  <2>6. \A m \in polls : m.host = h /\ m.loop = l => m = PollMsg(h, l)
    BY <2>2 DEF Poll, PollMsg
  <2>7. \A m \in polls' :
          /\ m \in Poll
          /\ m.loop # None => \/ m \in polls /\ ~(m.host = h /\ m.loop = l)
                              \/ m.host = h /\ m.loop = l /\ s = "asking"
    BY <1>0, <2>1, <2>2, <2>6
  <2>8. MailMoves(h, l, s, current[h][l])
    BY <1>1, <2>2, <2>5, <2>7, NoMail DEF MailMoves
  <2> QED
    BY <1>3, <2>3, <2>4, <2>8, LoopMoves
<1>7. Recorded' /\ RestartIsRecorded'
  BY <1>0, <1>1, <1>2, <1>3, SeenKept DEF IsPut
<1>8. DownIdle'
  BY <1>1, <1>3, DownKept DEF IsPut
<1> QED
  BY <1>2, <1>5, <1>6, <1>7, <1>8, InvPrimed DEF DaemonNext

LEMMA SendAckStep ==
    ASSUME QueueInv, NEW h \in Host, NEW l \in Loop, NEW o \in Outcome, SendAck(h, l, o)
    PROVE  QueueInv'
<1> USE InvParts
<1> DEFINE new == AckMsg(current[h][l], o, l)
<1>1. /\ stage[h][l] = "executing"
      /\ stage' = [stage EXCEPT ![h][l] = "acking"]
      /\ acks' = acks \cup {new}
      /\ UNCHANGED <<table, batch, current, process, polls, fresh, faults>>
  BY DEF SendAck
<1>2. TableNext
  BY <1>1, TableKept
<1>3. /\ stage' \in [Host -> [Loop -> Stage]] /\ "acking" \in Stage
      /\ IsPut(stage', stage, h, l, "acking")
  BY <1>1, Put DEF LoopType, Stage, IsPut
<1>4. LoopType' /\ ProcessType' /\ CountType'
  BY <1>1, <1>3 DEF LoopType, ProcessType, CountType, process
<1>5. /\ current[h][l] # None /\ current[h][l] \in Action
      /\ HostOf[current[h][l]] = h
  BY <1>1 DEF LoopInv, Executing, OwnCurrent
<1>6. new \in Ack /\ new.act = current[h][l] /\ new.loop = l
  BY <1>5 DEF AckMsg, Ack
<1> HIDE DEF new
<1>7. MailType' /\ LoopInv' /\ MailInv'
  <2>1. polls \subseteq Poll /\ acks \subseteq Ack
    BY DEF MailType
  <2>2. /\ IsPut(batch', batch, h, l, batch[h][l]) /\ IsPut(current', current, h, l, current[h][l])
        /\ batch[h][l] \in SUBSET Action
    BY <1>1 DEF IsPut, LoopType
  <2>3. Moves(h, l, "acking", batch[h][l], current[h][l])
    BY <1>3, <1>5, <2>2 DEF Moves, LoopInv, OwnBatch
  <2>4. \A m \in acks : ~(m.act = new.act /\ m.loop = new.loop)
    BY <1>1, <1>5, <1>6, NoMail
  <2>5. OneAck'
    BY <1>1, <2>4 DEF MailInv, OneAck
  <2>6. MailMoves(h, l, "acking", current[h][l])
    BY <1>1, <1>5, <1>6, <2>1, <2>5, NoMail DEF MailMoves
  <2> QED
    BY <1>3, <1>5, <2>2, <2>3, <2>6, LoopMoves
<1>8. Recorded' /\ RestartIsRecorded'
  BY <1>1, <1>2, <1>3, SeenKept DEF IsPut, process
<1>9. DownIdle'
  BY <1>1, <1>3, DownKept DEF IsPut, process
<1> QED
  BY <1>2, <1>4, <1>7, <1>8, <1>9, InvPrimed DEF DaemonNext

\* The loop goes on after an ack: what both outcomes of the ack share.
LEMMA ProceedMoves ==
    ASSUME QueueInv, NEW h \in Host, NEW l \in Loop, Proceed(h, l), UNCHANGED batch
    PROVE  /\ LoopType'
           /\ IsPut(stage', stage, h, l, "draining")
           /\ "draining" \in Stage /\ batch[h][l] \in SUBSET Action
           /\ Moves(h, l, "draining", batch[h][l], None)
<1> USE InvParts
<1>1. /\ stage' \in [Host -> [Loop -> Stage]] /\ "draining" \in Stage
      /\ IsPut(stage', stage, h, l, "draining")
  BY Put DEF Proceed, LoopType, Stage, IsPut
<1>2. /\ current' \in [Host -> [Loop -> Action \cup {None}]]
      /\ IsPut(current', current, h, l, None)
  BY Put DEF Proceed, LoopType, IsPut
<1>3. IsPut(batch', batch, h, l, batch[h][l]) /\ batch[h][l] \in SUBSET Action
  BY DEF IsPut, LoopType
<1> QED
  BY <1>1, <1>2, <1>3 DEF LoopType, Moves, LoopInv, OwnBatch

LEMMA AckReturnsStep ==
    ASSUME QueueInv, NEW h \in Host, NEW l \in Loop, AckReturns(h, l)
    PROVE  QueueInv'
<1> USE InvParts
<1> DEFINE x == current[h][l]
<1>1. /\ stage[h][l] = "recorded"
      /\ Proceed(h, l)
      /\ UNCHANGED <<table, batch, daemon, polling, net, fresh, faults>>
      /\ restarting' = restarting \/ (x \in Update /\ restarting' = [restarting EXCEPT ![h] = x])
  BY DEF AckReturns
<1>2. TableNext
  BY <1>1, TableKept
<1>3. /\ LoopType' /\ IsPut(stage', stage, h, l, "draining")
      /\ "draining" \in Stage /\ batch[h][l] \in SUBSET Action
      /\ Moves(h, l, "draining", batch[h][l], None)
  BY <1>1, ProceedMoves
<1>4. ProcessType' /\ CountType'
  BY <1>1 DEF ProcessType, CountType
<1>5. MailType' /\ LoopInv' /\ MailInv'
  BY <1>1, <1>3, QuietMove
<1>6. Recorded'
  <2> SUFFICES ASSUME NEW g \in Host, NEW k \in Loop, stage'[g][k] = "recorded"
               PROVE  status'[current'[g][k]] \in Outcome
    BY DEF Recorded, Terminal
  <2>1. stage[g][k] = "recorded" /\ current'[g][k] = current[g][k]
    BY <1>3 DEF Moves, IsPut
  <2> QED
    BY <1>1, <2>1 DEF Recorded, Terminal, table
<1>7. RestartIsRecorded'
  <2>1. status' = status /\ status[x] \in Outcome
    BY <1>1 DEF Recorded, Terminal, table
  <2> QED
    BY <1>1, <2>1 DEF RestartIsRecorded, Terminal, ProcessType
<1>8. DownIdle'
  BY <1>1, <1>3, DownKept DEF IsPut
<1> QED
  BY <1>2, <1>3, <1>4, <1>5, <1>6, <1>7, <1>8, InvPrimed DEF DaemonNext

LEMMA AckFailsStep ==
    ASSUME QueueInv, NEW h \in Host, NEW l \in Loop, AckFails(h, l)
    PROVE  QueueInv'
<1> USE InvParts
<1> DEFINE x == current[h][l]
           sent == {m \in acks : m.act = x /\ m.loop = l}
           late == {AckMsg(x, m.outcome, None) : m \in sent}
<1>1. /\ stage[h][l] \in {"acking", "recorded"}
      /\ Proceed(h, l)
      /\ faults < MaxFaults /\ faults' = faults + 1
      /\ fresh' = [fresh EXCEPT ![x] = TRUE]
      /\ acks' = acks \ sent \/ acks' = (acks \ sent) \cup late
      /\ UNCHANGED <<table, batch, daemon, polling, restarting, polls>>
  BY DEF AckFails, RestartUnacked
<1>2. TableNext
  BY <1>1, TableKept
<1>3. /\ LoopType' /\ IsPut(stage', stage, h, l, "draining")
      /\ "draining" \in Stage /\ batch[h][l] \in SUBSET Action
      /\ Moves(h, l, "draining", batch[h][l], None)
  BY <1>1, ProceedMoves
<1>4. ProcessType' /\ CountType'
  BY <1>1, OneMoreFault DEF ProcessType, CountType
<1>5. x \in Action /\ polls \subseteq Poll /\ acks \subseteq Ack
  BY <1>1 DEF LoopInv, Executing, OwnCurrent, MailType
<1>6. \A m \in late : m \in Ack /\ m.loop = None
  BY <1>5 DEF AckMsg, Ack
<1>7. \A m \in acks : HostOf[m.act] = h /\ m.loop = l => m \in sent
  BY LoopNames DEF MailInv, AckAttended
<1> HIDE DEF x, sent, late
<1>8. MailMoves(h, l, "draining", None)
  <2>1. OneAck'
    BY <1>1, <1>6 DEF MailInv, OneAck
  <2>2. \A m \in polls' : m \in Poll /\ ~(m.host = h /\ m.loop = l)
    BY <1>1, <1>5, NoMail
  <2>3. \A m \in acks' :
          /\ m \in Ack
          /\ m.loop # None => m \in acks /\ ~(HostOf[m.act] = h /\ m.loop = l)
    BY <1>1, <1>5, <1>6, <1>7
  <2> QED
    BY <1>1, <2>1, <2>2, <2>3 DEF MailMoves
<1>9. MailType' /\ LoopInv' /\ MailInv'
  BY <1>3, <1>8, LoopMoves
<1>10. Recorded' /\ RestartIsRecorded'
  BY <1>1, <1>2, <1>3, SeenKept DEF Moves, IsPut
<1>11. DownIdle'
  BY <1>1, <1>3, DownKept DEF IsPut
<1> QED
  BY <1>2, <1>3, <1>4, <1>9, <1>10, <1>11, InvPrimed DEF DaemonNext

\* A process that ends takes its loops, and those who wait, with it.
LEMMA StopStep ==
    ASSUME QueueInv, NEW h \in Host, Crash(h) \/ Restart(h)
    PROVE  QueueInv'
<1> USE InvParts
<1> DEFINE myPolls == {m \in polls : m.host = h /\ m.loop # None}
           myAcks == {m \in acks : HostOf[m.act] = h /\ m.loop # None}
           late == {AckMsg(m.act, m.outcome, None) : m \in myAcks}
<1>1. /\ daemon' = [daemon EXCEPT ![h] = "down"]
      /\ polling' = [polling EXCEPT ![h] = FALSE]
      /\ restarting' = [restarting EXCEPT ![h] = None]
      /\ stage' = [stage EXCEPT ![h] = [l \in Loop |-> "idle"]]
      /\ batch' = [batch EXCEPT ![h] = [l \in Loop |-> {}]]
      /\ current' = [current EXCEPT ![h] = [l \in Loop |-> None]]
      /\ fresh' = [x \in Action |-> fresh[x] \/ (HostOf[x] = h /\ InFlight(x))]
      /\ polls' = polls \ myPolls \/ polls' = (polls \ myPolls) \cup {PollMsg(h, None)}
      /\ acks' = acks \ myAcks \/ acks' = (acks \ myAcks) \cup late
      /\ UNCHANGED table
  BY DEF Crash, Restart, Stop
<1>2. TableNext
  BY <1>1, TableKept
<1>3. faults' \in 0..MaxFaults
  BY OneMoreFault DEF Crash, Restart, CountType
<1>4. /\ stage' \in [Host -> [Loop -> Stage]]
      /\ \A g \in Host, k \in Loop : stage'[g][k] = IF g = h THEN "idle" ELSE stage[g][k]
  BY <1>1, PutRow DEF LoopType, Stage
<1>5. /\ batch' \in [Host -> [Loop -> SUBSET Action]]
      /\ \A g \in Host, k \in Loop : batch'[g][k] = IF g = h THEN {} ELSE batch[g][k]
  BY <1>1, PutRow DEF LoopType
<1>6. /\ current' \in [Host -> [Loop -> Action \cup {None}]]
      /\ \A g \in Host, k \in Loop : current'[g][k] = IF g = h THEN None ELSE current[g][k]
  BY <1>1, PutRow DEF LoopType
<1>7. LoopType' /\ ProcessType' /\ CountType'
  <2>1. fresh' \in [Action -> BOOLEAN]
    BY <1>1 DEF CountType
  <2> QED
    BY <1>1, <1>3, <1>4, <1>5, <1>6, <2>1 DEF LoopType, ProcessType, CountType
<1>8. LoopInv'
  <2>1. OwnBatch'
    BY <1>5 DEF LoopInv, OwnBatch
  <2>2. OwnCurrent'
    BY <1>6 DEF LoopInv, OwnCurrent
  <2>3. Executing'
    BY <1>4, <1>6 DEF LoopInv, Executing
  <2> QED
    BY <2>1, <2>2, <2>3 DEF LoopInv
<1>9. /\ \A m \in late : m \in Ack /\ m.loop = None
      /\ PollMsg(h, None) \in Poll /\ PollMsg(h, None).loop = None
      /\ polls \subseteq Poll /\ acks \subseteq Ack
  BY DEF AckMsg, Ack, PollMsg, Poll, MailType
<1>10. /\ \A m \in polls' :
             m \in Poll /\ (m.loop # None => m \in polls /\ m.host # h)
       /\ \A m \in acks' :
             m \in Ack /\ (m.loop # None => m \in acks /\ HostOf[m.act] # h)
  <2> HIDE DEF late
  <2> QED
    BY <1>1, <1>9
<1> HIDE DEF myPolls, myAcks, late
<1>11. MailType' /\ MailInv'
  <2>1. MailType'
    BY <1>10 DEF MailType
  <2>2. PollAttended'
    <3> SUFFICES ASSUME NEW m \in polls', m.loop # None
                 PROVE  stage'[m.host][m.loop] = "asking"
      BY DEF PollAttended
    <3>1. m.host \in Host /\ m.loop \in Loop
      BY <1>10 DEF Poll
    <3> QED
      BY <1>4, <1>10, <3>1 DEF MailInv, PollAttended
  <2>3. AckAttended'
    <3> SUFFICES ASSUME NEW m \in acks', m.loop # None
                 PROVE  /\ stage'[HostOf[m.act]][m.loop] = "acking"
                        /\ current'[HostOf[m.act]][m.loop] = m.act
      BY DEF AckAttended
    <3>1. HostOf[m.act] \in Host /\ m.loop \in Loop
      BY <1>10, ConstantsAssumption DEF Ack
    <3> QED
      BY <1>4, <1>6, <1>10, <3>1 DEF MailInv, AckAttended
  <2>4. OneAck'
    BY <1>10 DEF MailInv, OneAck
  <2> QED
    BY <2>1, <2>2, <2>3, <2>4 DEF MailInv
<1>12. DownIdle'
  BY <1>1, <1>4 DEF DownIdle, ProcessType
<1>13. Recorded'
  <2> SUFFICES ASSUME NEW g \in Host, NEW k \in Loop, stage'[g][k] = "recorded"
               PROVE  status'[current'[g][k]] \in Outcome
    BY DEF Recorded, Terminal
  <2>1. stage[g][k] = "recorded" /\ current'[g][k] = current[g][k]
    BY <1>4, <1>6
  <2> QED
    BY <1>1, <2>1 DEF Recorded, Terminal, table
<1>14. RestartIsRecorded'
  BY <1>1 DEF RestartIsRecorded, Terminal, ProcessType, table
<1> QED
  BY <1>2, <1>7, <1>8, <1>11, <1>12, <1>13, <1>14, InvPrimed DEF DaemonNext

LEMMA BootReclaimStep ==
    ASSUME QueueInv, NEW h \in Host, BootReclaim(h)
    PROVE  QueueInv'
<1> USE InvParts
<1> DEFINE left == {x \in Action : HostOf[x] = h /\ status[x] = "taken"}
<1>1. /\ daemon[h] = "down"
      /\ daemon' = [daemon EXCEPT ![h] = "booting"]
      /\ stage' = [stage EXCEPT ![h]["boot"] = "draining"]
      /\ batch' = [batch EXCEPT ![h]["boot"] = left]
      /\ UNCHANGED <<table, current, polling, restarting, net, fresh, faults>>
  BY DEF BootReclaim
<1>2. TableNext
  BY <1>1, TableKept
<1>3. "boot" \in Loop /\ stage[h]["boot"] = "idle"
  BY <1>1, LoopNames DEF DownIdle
<1>4. /\ stage' \in [Host -> [Loop -> Stage]] /\ "draining" \in Stage
      /\ IsPut(stage', stage, h, "boot", "draining")
  BY <1>1, <1>3, Put DEF LoopType, Stage, IsPut
<1>5. left \in SUBSET Action /\ \A x \in left : HostOf[x] = h
  OBVIOUS
<1> HIDE DEF left
<1>6. /\ batch' \in [Host -> [Loop -> SUBSET Action]]
      /\ IsPut(batch', batch, h, "boot", left)
  BY <1>1, <1>3, <1>5, Put DEF LoopType, IsPut
<1>7. /\ IsPut(current', current, h, "boot", current[h]["boot"])
      /\ current[h]["boot"] \in Action \cup {None}
  BY <1>1, <1>3 DEF IsPut, LoopType
<1>8. LoopType' /\ ProcessType' /\ CountType'
  BY <1>1, <1>4, <1>6 DEF LoopType, ProcessType, CountType
<1>9. Moves(h, "boot", "draining", left, current[h]["boot"])
  BY <1>3, <1>4, <1>5, <1>6, <1>7 DEF Moves, LoopInv, OwnCurrent
<1>10. MailType' /\ LoopInv' /\ MailInv'
  BY <1>1, <1>3, <1>4, <1>5, <1>7, <1>9, QuietMove
<1>11. Recorded' /\ RestartIsRecorded'
  BY <1>1, <1>2, <1>4, SeenKept DEF IsPut
<1>12. DownIdle'
  BY <1>1, <1>4 DEF DownIdle, IsPut, ProcessType
<1> QED
  BY <1>2, <1>8, <1>10, <1>11, <1>12, InvPrimed DEF DaemonNext

LEMMA ReclaimFailsStep ==
    ASSUME QueueInv, NEW h \in Host, ReclaimFails(h)
    PROVE  QueueInv'
<1> USE InvParts
<1>1. /\ daemon' = [daemon EXCEPT ![h] = "up"]
      /\ faults < MaxFaults /\ faults' = faults + 1
      /\ UNCHANGED <<table, loops, polling, restarting, net, fresh>>
  BY DEF ReclaimFails
<1>2. TableNext
  BY <1>1, TableKept
<1>3. LoopType' /\ MailType' /\ LoopInv' /\ MailInv'
  BY <1>1 DEF LoopType, MailType, LoopInv, MailInv, OwnBatch, OwnCurrent, Executing,
              PollAttended, AckAttended, OneAck, loops, net
<1>4. ProcessType' /\ CountType'
  BY <1>1, OneMoreFault DEF ProcessType, CountType
<1>5. Recorded' /\ RestartIsRecorded'
  BY <1>1, <1>2, SeenKept DEF loops
<1>6. DownIdle'
  BY <1>1 DEF DownIdle, ProcessType, loops
<1> QED
  BY <1>2, <1>3, <1>4, <1>5, <1>6, InvPrimed DEF DaemonNext

-----------------------------------------------------------------------------
(* All steps                                                               *)

LEMMA QueueInvInit == Init => QueueInv
<1> SUFFICES ASSUME Init PROVE QueueInv
  OBVIOUS
<1>1. TypeOK
  BY ConstantsAssumption DEF Init, TypeOK, Status, Stage
<1>2. LoopInv /\ MailInv /\ DownIdle /\ Recorded
  BY DEF Init, LoopInv, OwnBatch, OwnCurrent, Executing, MailInv, PollAttended, AckAttended,
         OneAck, DownIdle, Recorded
<1>3. RestartIsRecorded /\ AuditedOnce
  BY DEF Init, RestartIsRecorded, AuditedOnce, Terminal, Outcome
<1> QED
  BY <1>1, <1>2, <1>3 DEF QueueInv

LEMMA QueueInvStep == QueueInv /\ [Next]_vars => QueueInv'
<1> SUFFICES ASSUME QueueInv, [Next]_vars PROVE QueueInv'
  OBVIOUS
<1>1. CASE \E x \in Action : Enqueue(x) \/ RenewLease(x)
  BY <1>1, RowStep
<1>2. CASE Tick
  BY <1>2, RowStep DEF Tick
<1>3. CASE ServeRequest
  BY <1>3, ServePollStep, ServeAckStep DEF ServeRequest
<1>4. ASSUME NEW h \in Host, HostNext(h) PROVE QueueInv'
  <2>1. ASSUME NEW l \in Loop, LoopNext(h, l) PROVE QueueInv'
    BY <2>1, QuietStep, SendAckStep, AckReturnsStep, AckFailsStep, PollFaultStep
    DEF LoopNext, LoopStep
  <2> QED
    BY <1>4, <2>1, PollTickStep, StopStep, BootReclaimStep, ReclaimFailsStep DEF HostNext
<1>5. CASE UNCHANGED vars
  <2>1. UNCHANGED <<table, loops, process, net, fresh, faults>>
    BY <1>5 DEF vars
  <2> QED
    BY <2>1 DEF table, loops, process, net, QueueInv, TypeOK, LoopInv, OwnBatch, OwnCurrent,
                Executing, MailInv, PollAttended, AckAttended, OneAck, DownIdle, Recorded,
                RestartIsRecorded, AuditedOnce, Terminal
<1> QED
  BY <1>1, <1>2, <1>3, <1>4, <1>5 DEF Next

-----------------------------------------------------------------------------
(* Executions that are owed                                                *)

\* Why an execution is never one too many: the loops of a host take turns, an
\* action that was executed without an outcome is still in a loop's hands,
\* and what lies in a batch has not been executed since it was last owed.
Busy(h, l) == stage[h][l] # "idle"

Rested ==
    \A h \in Host, l \in Loop :
        /\ ~Busy(h, l) => batch[h][l] = {}
        /\ current[h][l] # None => stage[h][l] \in {"executing", "acking", "recorded"}

\* At most one loop of a host is at work.
Alone == \A h \in Host, l, k \in Loop : Busy(h, l) /\ Busy(h, k) => l = k

\* The reclaim works during boot, a poll while pollingActions is set.
Gated ==
    \A h \in Host :
        /\ Busy(h, "boot") => daemon[h] = "booting"
        /\ \A l \in PollLoop : Busy(h, l) => daemon[h] = "up" /\ polling[h]

TurnInv == Rested /\ Alone /\ Gated

OwedBatch == \A h \in Host, l \in Loop : \A x \in batch[h][l] : fresh[x]

\* An action neither owed nor settled is being executed.
OwedRest == \A x \in Action : fresh[x] \/ Terminal(x) \/ InFlight(x)

OwedInv == QueueInv /\ TurnInv /\ OwedBatch /\ OwedRest

LEMMA LoopKinds == \A l \in Loop : l = "boot" \/ l \in PollLoop
  BY DEF Loop

\* No loop starts.
LEMMA GateKept ==
    ASSUME TurnInv, UNCHANGED <<daemon, polling>>,
           \A h \in Host, l \in Loop : Busy(h, l)' => Busy(h, l)
    PROVE  Alone' /\ Gated'
<1>1. Alone'
  BY DEF TurnInv, Alone
<1>2. Gated'
  BY LoopNames DEF TurnInv, Gated
<1> QED
  BY <1>1, <1>2

LEMMA OwedKept ==
    ASSUME QueueInv, OwedRest, UNCHANGED <<current, fresh>>,
           \A x \in Action : Terminal(x) => Terminal(x)'
    PROVE  OwedRest'
  BY DEF OwedRest, InFlight

\* While a loop of a host is not executing and no other works, none of the
\* host's actions is in flight.
LEMMA NoneInFlight ==
    ASSUME OwedInv, NEW h \in Host, NEW l \in Loop,
           Busy(h, l) => stage[h][l] \notin {"executing", "acking", "recorded"},
           \A k \in Loop : k # l => ~Busy(h, k),
           NEW x \in Action, HostOf[x] = h
    PROVE  ~InFlight(x)
<1>1. \A k \in Loop : current[h][k] = None
  BY DEF OwedInv, TurnInv, Rested, Busy
<1> QED
  BY <1>1, LoopNames DEF InFlight

LEMMA OwedRow ==
    ASSUME OwedInv, NEW x \in Action, Enqueue(x) \/ RenewLease(x) \/ Tick
    PROVE  TurnInv' /\ OwedBatch' /\ OwedRest'
<1>1. UNCHANGED <<loops, process, fresh>>
  BY DEF Enqueue, RenewLease, Tick
<1>2. UNCHANGED <<stage, batch, current, daemon, polling, fresh>>
  BY <1>1 DEF loops, process
<1>3. \A y \in Action : Terminal(y) => Terminal(y)'
  BY InvParts DEF OwedInv, Enqueue, RenewLease, Tick, TableType, Terminal, Outcome
<1>4. TurnInv' /\ OwedBatch'
  BY <1>2 DEF OwedInv, TurnInv, Rested, Alone, Gated, Busy, OwedBatch
<1> QED
  BY <1>2, <1>3, <1>4, OwedKept DEF OwedInv

\* A claim takes rows without an outcome, and the loop that asks for them has
\* the host to itself: what it gets is owed.
LEMMA OwedPoll ==
    ASSUME OwedInv, NEW m \in polls, ServePoll(m)
    PROVE  TurnInv' /\ OwedBatch' /\ OwedRest'
<1> USE InvParts DEF OwedInv
<1> DEFINE mine == Claimable(m.host)
<1>0. m.host \in Host /\ m.loop \in Loop \cup {None}
  BY DEF MailType, Poll
<1>1. UNCHANGED <<current, process, fresh>>
  BY DEF ServePoll
<1>2. \A x \in mine : x \in Action /\ HostOf[x] = m.host /\ ~Terminal(x)
  BY DEF Claimable, Reapable, Terminal, Outcome
<1>3. /\ status' = [x \in Action |->
                    IF x \in mine THEN "taken"
                    ELSE IF Reapable(x) THEN "pending" ELSE status[x]]
      /\ stage' = IF m.loop = None THEN stage
                  ELSE [stage EXCEPT ![m.host][m.loop] = "answered"]
      /\ batch' = IF m.loop = None THEN batch
                  ELSE [batch EXCEPT ![m.host][m.loop] = mine]
  BY DEF ServePoll
<1>4. mine \in SUBSET Action
  BY DEF Claimable
<1> HIDE DEF mine
<1>5. \A x \in Action : Terminal(x) => Terminal(x)'
  BY <1>2, <1>3 DEF Reapable, Terminal, Outcome
<1>6. OwedRest'
  BY <1>1, <1>5, OwedKept
<1>7. CASE m.loop = None
  <2>1. UNCHANGED <<stage, batch, current, daemon, polling, fresh>>
    BY <1>1, <1>3, <1>7 DEF process
  <2> QED
    BY <2>1, <1>6 DEF TurnInv, Rested, Alone, Gated, Busy, OwedBatch
<1>8. CASE m.loop # None
  <2> DEFINE h == m.host
             l == m.loop
  <2>1. h \in Host /\ l \in Loop /\ stage[h][l] = "asking"
    BY <1>0, <1>8 DEF MailInv, PollAttended
  <2>2. IsPut(stage', stage, h, l, "answered") /\ IsPut(batch', batch, h, l, mine)
    BY <2>1, <1>3, <1>4, <1>8, Put DEF LoopType, Stage, IsPut
  <2>3. \A x \in mine : fresh[x]
    <3> SUFFICES ASSUME NEW x \in mine PROVE fresh[x]
      OBVIOUS
    <3>1. x \in Action /\ HostOf[x] = h /\ ~Terminal(x)
      BY <1>2
    <3>2. \A k \in Loop : k # l => ~Busy(h, k)
      BY <2>1 DEF TurnInv, Alone, Busy
    <3>3. ~InFlight(x)
      BY <2>1, <3>1, <3>2, NoneInFlight
    <3> QED
      BY <3>1, <3>3 DEF OwedRest
  <2> HIDE DEF h, l
  <2>4. OwedBatch'
    BY <1>1, <2>1, <2>2, <2>3 DEF OwedBatch, IsPut
  <2>5. Rested'
    BY <1>1, <2>1, <2>2 DEF TurnInv, Rested, Busy, IsPut
  <2>6. \A g \in Host, k \in Loop : Busy(g, k)' => Busy(g, k)
    BY <2>1, <2>2 DEF Busy, IsPut
  <2>7. Alone' /\ Gated'
    BY <1>1, <2>6, GateKept DEF process
  <2> QED
    BY <1>6, <2>4, <2>5, <2>7 DEF TurnInv
<1> QED
  BY <1>7, <1>8

LEMMA OwedAck ==
    ASSUME OwedInv, NEW m \in acks, ServeAck(m)
    PROVE  TurnInv' /\ OwedBatch' /\ OwedRest'
<1> USE InvParts DEF OwedInv
<1> DEFINE h == HostOf[m.act]
<1>0. /\ m.act \in Action /\ h \in Host
      /\ m.loop \in Loop \cup {None} /\ m.outcome \in Outcome
  BY ConstantsAssumption DEF MailType, Ack
<1>1. /\ UNCHANGED <<batch, current, process, fresh>>
      /\ stage' = IF m.loop = None THEN stage ELSE [stage EXCEPT ![h][m.loop] = "recorded"]
  BY DEF ServeAck
<1>2. m.loop # None => stage[h][m.loop] = "acking"
  BY DEF MailInv, AckAttended
<1>3. \A x \in Action : Terminal(x) => Terminal(x)'
  BY <1>0 DEF ServeAck, Completes, TableType, Terminal, table
<1>4. OwedRest' /\ OwedBatch'
  BY <1>1, <1>3, OwedKept DEF OwedBatch
<1> HIDE DEF h
<1>5. \A g \in Host, k \in Loop :
         stage'[g][k] = IF g = h /\ k = m.loop THEN "recorded" ELSE stage[g][k]
  <2>1. CASE m.loop = None
    BY <2>1, <1>1, LoopNames
  <2>2. CASE m.loop # None
    BY <2>2, <1>0, <1>1, Put DEF LoopType, Stage
  <2> QED
    BY <2>1, <2>2
<1>6. Rested'
  BY <1>1, <1>2, <1>5, LoopNames DEF TurnInv, Rested, Busy
<1>7. \A g \in Host, k \in Loop : Busy(g, k)' => Busy(g, k)
  BY <1>2, <1>5, LoopNames DEF Busy
<1> QED
  BY <1>1, <1>4, <1>6, <1>7, GateKept DEF TurnInv, process

\* The first poll of a host that has none.
LEMMA OwedPollTick ==
    ASSUME OwedInv, NEW h \in Host, NEW l \in PollLoop, PollTick(h, l)
    PROVE  TurnInv' /\ OwedBatch' /\ OwedRest'
<1> USE InvParts DEF OwedInv
<1>1. /\ l \in Loop /\ stage[h][l] = "idle" /\ daemon[h] = "up" /\ ~polling[h]
      /\ stage' = [stage EXCEPT ![h][l] = "asking"]
      /\ polling' = [polling EXCEPT ![h] = TRUE]
      /\ UNCHANGED <<table, batch, current, daemon, fresh>>
  BY LoopNames DEF PollTick, MayPoll
<1>2. IsPut(stage', stage, h, l, "asking")
  BY <1>1, Put DEF LoopType, Stage, IsPut
<1>3. \A k \in Loop : ~Busy(h, k)
  BY <1>1, LoopKinds DEF TurnInv, Gated
<1>4. Rested' /\ Alone'
  BY <1>1, <1>2, <1>3 DEF TurnInv, Rested, Alone, Busy, IsPut
<1>5. Gated'
  <2>1. \A g \in Host : g # h => polling'[g] = polling[g]
    BY <1>1 DEF ProcessType
  <2>2. polling'[h]
    BY <1>1 DEF ProcessType
  <2>3. l # "boot"
    BY ConstantsAssumption
  <2> QED
    BY <1>1, <1>2, <1>3, <2>1, <2>2, <2>3, LoopNames DEF TurnInv, Gated, Busy, IsPut
<1>6. OwedBatch' /\ OwedRest'
  BY <1>1 DEF OwedBatch, OwedRest, InFlight, Terminal, table
<1> QED
  BY <1>4, <1>5, <1>6 DEF TurnInv

\* The steps of a loop that keep or end its turn and execute nothing.
LEMMA OwedTurn ==
    ASSUME OwedInv, NEW h \in Host, NEW l \in Loop,
           \/ PollReturns(h, l) \/ \E o \in Outcome : SendAck(h, l, o)
           \/ PollRetry(h, l)
    PROVE  TurnInv' /\ OwedBatch' /\ OwedRest'
<1> USE InvParts DEF OwedInv
<1>1. PICK s \in {"draining", "acking", "asking"} :
         /\ stage' = [stage EXCEPT ![h][l] = s]
         /\ Busy(h, l)
         /\ stage[h][l] = "executing" <=> s = "acking"
         /\ stage[h][l] \notin {"acking", "recorded"}
  BY DEF PollReturns, SendAck, PollRetry, Busy
<1>2. /\ UNCHANGED <<table, current, process, fresh>>
      /\ batch' = batch \/ batch' = [batch EXCEPT ![h][l] = {}]
  BY DEF PollReturns, SendAck, PollRetry
<1>3. IsPut(stage', stage, h, l, s)
  BY <1>1, Put DEF LoopType, Stage, IsPut
<1>4. \A g \in Host, k \in Loop : batch'[g][k] \subseteq batch[g][k]
  BY <1>2, Put DEF LoopType
<1>5. Rested'
  BY <1>1, <1>2, <1>3, <1>4 DEF TurnInv, Rested, Busy, IsPut
<1>6. Alone' /\ Gated'
  BY <1>1, <1>2, <1>3, GateKept DEF Busy, IsPut, process
<1>7. OwedBatch'
  BY <1>2, <1>4 DEF OwedBatch
<1>8. OwedRest'
  BY <1>2, OwedKept DEF Terminal, table
<1> QED
  BY <1>5, <1>6, <1>7, <1>8 DEF TurnInv

\* A loop that ends its turn leaves the host without one at work.
LEMMA OwedDone ==
    ASSUME OwedInv, NEW h \in Host, NEW l \in Loop, LoopDone(h, l) \/ PollFails(h, l)
    PROVE  TurnInv' /\ OwedBatch' /\ OwedRest'
<1> USE InvParts DEF OwedInv
<1>1. /\ stage[h][l] \in {"draining", "asking", "answered"}
      /\ stage' = [stage EXCEPT ![h][l] = "idle"]
      /\ UNCHANGED <<table, current, fresh>>
      /\ \A g \in Host : g # h => daemon'[g] = daemon[g] /\ polling'[g] = polling[g]
  BY DEF LoopDone, PollFails, ProcessType
<1>2. \A g \in Host, k \in Loop :
         batch'[g][k] = IF g = h /\ k = l THEN {} ELSE batch[g][k]
  <2>1. CASE LoopDone(h, l)
    BY <2>1 DEF LoopDone
  <2>2. CASE PollFails(h, l)
    BY <2>2, Put DEF PollFails, LoopType
  <2> QED
    BY <2>1, <2>2
<1>3. IsPut(stage', stage, h, l, "idle")
  BY <1>1, Put DEF LoopType, Stage, IsPut
<1>4. \A k \in Loop : ~Busy(h, k)'
  BY <1>1, <1>3 DEF TurnInv, Alone, Busy, IsPut
<1>5. Rested'
  BY <1>1, <1>2, <1>3 DEF TurnInv, Rested, Busy, IsPut
<1>6. Alone' /\ Gated'
  <2>1. \A g \in Host, k \in Loop : Busy(g, k)' => Busy(g, k) /\ g # h
    BY <1>3, <1>4 DEF Busy, IsPut
  <2>2. Alone'
    BY <2>1 DEF TurnInv, Alone
  <2>3. Gated'
    BY <1>1, <2>1, LoopNames DEF TurnInv, Gated
  <2> QED
    BY <2>2, <2>3
<1>7. OwedBatch'
  BY <1>1, <1>2 DEF OwedBatch
<1>8. OwedRest'
  BY <1>1, OwedKept DEF Terminal, table
<1> QED
  BY <1>5, <1>6, <1>7, <1>8 DEF TurnInv

\* What a batch holds is not in flight and owed; it lies in no other batch,
\* so executing it makes nobody's claim stale.
LEMMA OwedExecute ==
    ASSUME OwedInv, NEW h \in Host, NEW l \in Loop, NEW x \in Action, ExecuteAction(h, l, x)
    PROVE  TurnInv' /\ OwedBatch' /\ OwedRest'
<1> USE InvParts DEF OwedInv
<1>1. /\ stage[h][l] = "draining" /\ x \in batch[h][l]
      /\ batch' = [batch EXCEPT ![h][l] = batch[h][l] \ {x}]
      /\ UNCHANGED <<table, process>>
  BY DEF ExecuteAction
<1>2. IsPut(batch', batch, h, l, batch[h][l] \ {x})
  <2>1. batch[h][l] \ {x} \in SUBSET Action
    BY DEF LoopType
  <2> QED
    BY <1>1, <2>1, Put DEF LoopType, IsPut
<1>3. HostOf[x] = h /\ ~InFlight(x)
  <2>1. HostOf[x] = h
    BY <1>1 DEF LoopInv, OwnBatch
  <2>2. \A k \in Loop : k # l => ~Busy(h, k)
    BY <1>1 DEF TurnInv, Alone, Busy
  <2> QED
    BY <1>1, <2>1, <2>2, NoneInFlight
<1>4. /\ stage' = [stage EXCEPT ![h][l] = "executing"]
      /\ current' = [current EXCEPT ![h][l] = x]
      /\ fresh' = [fresh EXCEPT ![x] = FALSE]
  BY <1>3 DEF ExecuteAction
<1>5. IsPut(stage', stage, h, l, "executing") /\ IsPut(current', current, h, l, x)
  BY <1>4, Put DEF LoopType, Stage, IsPut
<1>6. Rested'
  BY <1>1, <1>2, <1>5 DEF TurnInv, Rested, Busy, IsPut
<1>7. Alone' /\ Gated'
  BY <1>1, <1>5, GateKept DEF Busy, IsPut, process
<1>8. OwedBatch'
  <2> SUFFICES ASSUME NEW g \in Host, NEW k \in Loop, NEW y \in batch'[g][k]
               PROVE  fresh'[y]
    BY DEF OwedBatch
  <2>1. y \in batch[g][k] /\ y \in Action /\ fresh[y]
    BY <1>2 DEF IsPut, LoopType, OwedBatch
  <2>2. y # x
    <3>1. CASE g = h /\ k = l
      BY <3>1, <1>2 DEF IsPut
    <3>2. CASE g = h /\ k # l
      BY <3>2, <2>1, <1>1 DEF TurnInv, Alone, Rested, Busy
    <3>3. CASE g # h
      BY <3>3, <2>1, <1>3 DEF LoopInv, OwnBatch
    <3> QED
      BY <3>1, <3>2, <3>3
  <2> QED
    BY <2>1, <2>2, <1>4 DEF CountType
<1>9. OwedRest'
  <2> SUFFICES ASSUME NEW y \in Action PROVE fresh'[y] \/ Terminal(y)' \/ InFlight(y)'
    BY DEF OwedRest
  <2>1. CASE y = x
    BY <2>1, <1>3, <1>5 DEF InFlight, IsPut
  <2>2. CASE y # x
    <3>1. fresh'[y] = fresh[y] /\ status'[y] = status[y]
      BY <2>2, <1>1, <1>4 DEF CountType, table
    <3>2. current[h][l] = None
      BY <1>1 DEF TurnInv, Rested
    <3>3. InFlight(y) => InFlight(y)'
      BY <1>5, <3>2, LoopNames, ConstantsAssumption DEF InFlight, IsPut
    <3> QED
      BY <3>1, <3>3 DEF OwedRest, Terminal
  <2> QED
    BY <2>1, <2>2
<1> QED
  BY <1>6, <1>7, <1>8, <1>9 DEF TurnInv

\* An execution that ends has an outcome on the server, or is owed again.
LEMMA OwedProceed ==
    ASSUME OwedInv, NEW h \in Host, NEW l \in Loop, AckReturns(h, l) \/ AckFails(h, l)
    PROVE  TurnInv' /\ OwedBatch' /\ OwedRest'
<1> USE InvParts DEF OwedInv
<1> DEFINE x == current[h][l]
<1>1. /\ stage[h][l] \in {"acking", "recorded"}
      /\ Proceed(h, l)
      /\ UNCHANGED <<table, batch, daemon, polling>>
  BY DEF AckReturns, AckFails
<1>2. IsPut(stage', stage, h, l, "draining") /\ IsPut(current', current, h, l, None)
  BY <1>1, Put DEF Proceed, LoopType, Stage, IsPut
<1>3. x \in Action /\ HostOf[x] = h
  BY <1>1 DEF LoopInv, Executing, OwnCurrent
<1>4. /\ \A y \in Action : fresh[y] => fresh'[y]
      /\ fresh'[x] \/ Terminal(x)
  <2>1. CASE AckReturns(h, l)
    BY <2>1 DEF AckReturns, Recorded
  <2>2. CASE AckFails(h, l)
    BY <2>2, <1>3 DEF AckFails, CountType
  <2> QED
    BY <2>1, <2>2
<1> HIDE DEF x
<1>5. Rested'
  BY <1>1, <1>2 DEF TurnInv, Rested, Busy, IsPut
<1>6. Alone' /\ Gated'
  BY <1>1, <1>2, GateKept DEF Busy, IsPut
<1>7. OwedBatch'
  BY <1>1, <1>4 DEF OwedBatch, LoopType
<1>8. OwedRest'
  <2> SUFFICES ASSUME NEW y \in Action PROVE fresh'[y] \/ Terminal(y)' \/ InFlight(y)'
    BY DEF OwedRest
  <2>1. Terminal(y) => Terminal(y)'
    BY <1>1 DEF Terminal, table
  <2>2. CASE y = x
    BY <2>1, <2>2, <1>4
  <2>3. CASE y # x
    <3>1. InFlight(y) => InFlight(y)'
      BY <2>3, <1>2, ConstantsAssumption DEF InFlight, IsPut, x
    <3> QED
      BY <2>1, <3>1, <1>4 DEF OwedRest
  <2> QED
    BY <2>2, <2>3
<1> QED
  BY <1>5, <1>6, <1>7, <1>8 DEF TurnInv

\* A process that ends owes what it was executing.
LEMMA OwedStop ==
    ASSUME OwedInv, NEW h \in Host, Crash(h) \/ Restart(h)
    PROVE  TurnInv' /\ OwedBatch' /\ OwedRest'
<1> USE InvParts DEF OwedInv
<1>1. /\ daemon' = [daemon EXCEPT ![h] = "down"]
      /\ polling' = [polling EXCEPT ![h] = FALSE]
      /\ stage' = [stage EXCEPT ![h] = [l \in Loop |-> "idle"]]
      /\ batch' = [batch EXCEPT ![h] = [l \in Loop |-> {}]]
      /\ current' = [current EXCEPT ![h] = [l \in Loop |-> None]]
      /\ fresh' = [x \in Action |-> fresh[x] \/ (HostOf[x] = h /\ InFlight(x))]
      /\ UNCHANGED table
  BY DEF Crash, Restart, Stop
<1>2. \A g \in Host, k \in Loop : stage'[g][k] = IF g = h THEN "idle" ELSE stage[g][k]
  BY <1>1, PutRow DEF LoopType, Stage
<1>3. \A g \in Host, k \in Loop : batch'[g][k] = IF g = h THEN {} ELSE batch[g][k]
  BY <1>1, PutRow DEF LoopType
<1>4. \A g \in Host, k \in Loop : current'[g][k] = IF g = h THEN None ELSE current[g][k]
  BY <1>1, PutRow DEF LoopType
<1>5. \A g \in Host : g # h => daemon'[g] = daemon[g] /\ polling'[g] = polling[g]
  BY <1>1 DEF ProcessType
<1>6. Rested'
  BY <1>2, <1>3, <1>4 DEF TurnInv, Rested, Busy
<1>7. Alone'
  BY <1>2 DEF TurnInv, Alone, Busy
<1>8. Gated'
  BY <1>2, <1>5, LoopNames DEF TurnInv, Gated, Busy
<1>9. OwedBatch'
  <2> SUFFICES ASSUME NEW g \in Host, NEW k \in Loop, NEW y \in batch'[g][k]
               PROVE  fresh'[y]
    BY DEF OwedBatch
  <2>1. y \in batch[g][k] /\ y \in Action /\ fresh[y]
    BY <1>3 DEF LoopType, OwedBatch
  <2> QED
    BY <1>1, <2>1
<1>10. OwedRest'
  <2> SUFFICES ASSUME NEW y \in Action PROVE fresh'[y] \/ Terminal(y)' \/ InFlight(y)'
    BY DEF OwedRest
  <2>1. Terminal(y) => Terminal(y)'
    BY <1>1 DEF Terminal, table
  <2>2. HostOf[y] \in Host
    BY ConstantsAssumption
  <2>3. InFlight(y) => fresh'[y] \/ InFlight(y)'
    BY <1>1, <1>4, <2>2 DEF InFlight
  <2>4. fresh[y] => fresh'[y]
    BY <1>1
  <2> QED
    BY <2>1, <2>3, <2>4 DEF OwedRest
<1> QED
  BY <1>6, <1>7, <1>8, <1>9, <1>10 DEF TurnInv

\* What a boot finds taken was in nobody's hands: the process before it ended.
LEMMA OwedBoot ==
    ASSUME OwedInv, NEW h \in Host, BootReclaim(h)
    PROVE  TurnInv' /\ OwedBatch' /\ OwedRest'
<1> USE InvParts DEF OwedInv
<1> DEFINE left == {x \in Action : HostOf[x] = h /\ status[x] = "taken"}
<1>1. /\ daemon[h] = "down"
      /\ daemon' = [daemon EXCEPT ![h] = "booting"]
      /\ stage' = [stage EXCEPT ![h]["boot"] = "draining"]
      /\ batch' = [batch EXCEPT ![h]["boot"] = left]
      /\ UNCHANGED <<table, current, polling, fresh>>
  BY DEF BootReclaim
<1>2. \A k \in Loop : ~Busy(h, k)
  BY <1>1 DEF DownIdle, Busy
<1>3. \A x \in left : fresh[x]
  <2> SUFFICES ASSUME NEW x \in left PROVE fresh[x]
    OBVIOUS
  <2>1. x \in Action /\ HostOf[x] = h /\ ~Terminal(x)
    BY DEF Terminal, Outcome
  <2>2. ~InFlight(x)
    BY <1>2, <2>1, LoopNames, NoneInFlight
  <2> QED
    BY <2>1, <2>2 DEF OwedRest
<1>4. IsPut(stage', stage, h, "boot", "draining") /\ IsPut(batch', batch, h, "boot", left)
  BY <1>1, LoopNames, Put DEF LoopType, Stage, IsPut
<1> HIDE DEF left
<1>5. OwedBatch' /\ OwedRest'
  BY <1>1, <1>3, <1>4, OwedKept DEF OwedBatch, IsPut, Terminal, table
<1>6. Rested' /\ Alone'
  BY <1>1, <1>2, <1>4 DEF TurnInv, Rested, Alone, Busy, IsPut
<1>7. Gated'
  <2>1. /\ daemon'[h] = "booting"
        /\ \A g \in Host : g # h => daemon'[g] = daemon[g]
    BY <1>1 DEF ProcessType
  <2> QED
    BY <1>1, <1>2, <1>4, <2>1, LoopNames, ConstantsAssumption DEF TurnInv, Gated, Busy, IsPut
<1> QED
  BY <1>5, <1>6, <1>7 DEF TurnInv

LEMMA OwedReclaimFails ==
    ASSUME OwedInv, NEW h \in Host, ReclaimFails(h)
    PROVE  TurnInv' /\ OwedBatch' /\ OwedRest'
<1> USE InvParts DEF OwedInv
<1>1. /\ daemon[h] = "down"
      /\ daemon' = [daemon EXCEPT ![h] = "up"]
      /\ UNCHANGED <<table, stage, batch, current, polling, fresh>>
  BY DEF ReclaimFails, loops
<1>2. \A k \in Loop : ~Busy(h, k)
  BY <1>1 DEF DownIdle, Busy
<1>3. Gated'
  BY <1>1, <1>2, LoopNames DEF TurnInv, Gated, Busy, ProcessType
<1>4. Rested' /\ Alone' /\ OwedBatch' /\ OwedRest'
  BY <1>1, OwedKept DEF TurnInv, Rested, Alone, Busy, OwedBatch, Terminal, table
<1> QED
  BY <1>3, <1>4 DEF TurnInv

LEMMA OwedInvInit == Init => OwedInv
<1> SUFFICES ASSUME Init PROVE OwedInv
  OBVIOUS
<1>1. Rested /\ Alone /\ Gated
  BY LoopNames DEF Init, Rested, Alone, Gated, Busy
<1>2. OwedBatch /\ OwedRest
  BY DEF Init, OwedBatch, OwedRest
<1> QED
  BY <1>1, <1>2, QueueInvInit DEF OwedInv, TurnInv

LEMMA OwedInvStep == OwedInv /\ [Next]_vars => OwedInv'
<1> SUFFICES ASSUME OwedInv, [Next]_vars PROVE TurnInv' /\ OwedBatch' /\ OwedRest'
  BY QueueInvStep DEF OwedInv
<1>1. CASE \E x \in Action : Enqueue(x) \/ RenewLease(x)
  BY <1>1, OwedRow
<1>2. CASE Tick
  BY <1>2, OwedRow DEF Tick
<1>3. CASE ServeRequest
  BY <1>3, OwedPoll, OwedAck DEF ServeRequest
<1>4. ASSUME NEW h \in Host, HostNext(h) PROVE TurnInv' /\ OwedBatch' /\ OwedRest'
  <2>1. ASSUME NEW l \in Loop, LoopNext(h, l) PROVE TurnInv' /\ OwedBatch' /\ OwedRest'
    BY <2>1, OwedTurn, OwedDone, OwedExecute, OwedProceed DEF LoopNext, LoopStep
  <2> QED
    BY <1>4, <2>1, OwedPollTick, OwedStop, OwedBoot, OwedReclaimFails DEF HostNext
<1>5. CASE UNCHANGED vars
  <2>1. UNCHANGED <<table, stage, batch, current, daemon, polling, fresh>>
    BY <1>5 DEF vars, loops, process
  <2> QED
    BY <2>1, OwedKept DEF OwedInv, TurnInv, Rested, Alone, Gated, Busy, OwedBatch, Terminal, table
<1> QED
  BY <1>1, <1>2, <1>3, <1>4, <1>5 DEF Next

\* Only executeAction puts an action in flight, and what it finds in its
\* batch is owed.
OwedStart(h, l) == current'[h][l] \notin {None, current[h][l]} => fresh[current'[h][l]]

LEMMA StartsOwed ==
    ASSUME OwedInv, [Next]_vars, NEW h \in Host, NEW l \in Loop
    PROVE  OwedStart(h, l)
<1> USE InvParts DEF OwedInv
<1>1. SUFFICES ASSUME current'[h][l] \notin {None, current[h][l]}
               PROVE  fresh[current'[h][l]]
  BY DEF OwedStart
<1>2. current' # current
  BY <1>1
<1>3. PICK g \in Host : HostNext(g)
  BY <1>2 DEF Next, vars, loops, Enqueue, RenewLease, Tick, ServeRequest, ServePoll, ServeAck
<1>4. ~(Crash(g) \/ Restart(g))
  <2> SUFFICES ASSUME Crash(g) \/ Restart(g) PROVE FALSE
    OBVIOUS
  <2>1. current' = [current EXCEPT ![g] = [k \in Loop |-> None]]
    BY DEF Crash, Restart, Stop
  <2>2. current'[h][l] = IF h = g THEN None ELSE current[h][l]
    BY <2>1, PutRow DEF LoopType
  <2> QED
    BY <1>1, <2>2
<1>5. PICK k \in Loop : \/ \E x \in Action : ExecuteAction(g, k, x)
                        \/ AckReturns(g, k)
                        \/ AckFails(g, k)
  BY <1>2, <1>3, <1>4
  DEF HostNext, LoopNext, LoopStep, PollTick, PollReturns, LoopDone, SendAck, PollFails,
      PollRetry, BootReclaim, ReclaimFails, loops
<1>6. CASE AckReturns(g, k) \/ AckFails(g, k)
  <2>1. current' = [current EXCEPT ![g][k] = None]
    BY <1>6 DEF AckReturns, AckFails, Proceed
  <2>2. current'[h][l] = IF h = g /\ l = k THEN None ELSE current[h][l]
    BY <2>1, Put DEF LoopType
  <2> QED
    BY <1>1, <2>2
<1>7. ASSUME NEW x \in Action, ExecuteAction(g, k, x) PROVE fresh[current'[h][l]]
  <2>1. current' = [current EXCEPT ![g][k] = x] /\ x \in batch[g][k]
    BY <1>2, <1>7 DEF ExecuteAction
  <2>2. current'[h][l] = IF h = g /\ l = k THEN x ELSE current[h][l]
    BY <2>1, Put DEF LoopType
  <2> QED
    BY <1>1, <2>1, <2>2 DEF OwedBatch
<1> QED
  BY <1>5, <1>6, <1>7

-----------------------------------------------------------------------------
(* The theorems                                                            *)

\* An action with an outcome has one row in the audit log and no other has
\* one, whatever acks are repeated, late or for rows that were reaped and
\* claimed again (POST /actions/:id/complete).
THEOREM ActionAuditedOnce == Spec => []AuditedOnce
<1>1. QueueInv => AuditedOnce
  BY DEF QueueInv
<1> QED
  BY <1>1, QueueInvInit, QueueInvStep, PTL DEF Spec

\* The service restarts for an update only when the update's outcome is on
\* the server, so the next boot does not find it taken and restart once more
\* (runDaemonUpdateAction).
THEOREM RestartOnlyRecorded == Spec => []RestartIsRecorded
<1>1. QueueInv => RestartIsRecorded
  BY DEF QueueInv
<1> QED
  BY <1>1, QueueInvInit, QueueInvStep, PTL DEF Spec

\* Every execution of an action is its first, or follows a crash during the
\* one before or an ack that failed: overlapping polls, reaped leases, late
\* requests and the boot reclaim run nothing twice (pollActions,
\* executeAction, reapStaleTakenActions).
THEOREM ExecutionsOwed == Spec => RerunsAreOwed
<1>1. OwedInv /\ [Next]_vars => [\A h \in Host, l \in Loop : OwedStart(h, l)]_vars
  BY StartsOwed
<1>2. RerunsAreOwed <=> [][\A h \in Host, l \in Loop : OwedStart(h, l)]_vars
  BY DEF RerunsAreOwed, OwedStart
<1> QED
  BY <1>1, <1>2, OwedInvInit, OwedInvStep, PTL DEF Spec

-----------------------------------------------------------------------------
(* The data browser's jobs.                                                *)

BrowseJob == 1 .. MaxJobs
Place == Dir \X Name
Held == {None} \union (0 .. MaxJobs + 1)
Ops == Browsing!Writes \union {"size"}
Working == {"run", "drain"}
Orphaned == {"orphan", "orphanDrain"}

Request ==
    [op : Ops \union {None}, src : Dir \union {None}, dst : Dir \union {None},
     names : SUBSET Name, to : Name \union {None},
     pc : Working \union Orphaned \union {"none", "seed", "ended"},
     todo : SUBSET Name, size : Held, gen : Nat, amid : BOOLEAN, raced : SUBSET Place]

\* What a request that was made asks for, and which jobs get where.
Shape(r) ==
    /\ r.todo \subseteq r.names
    /\ r.pc # "none" => r.op \in Ops /\ r.src \in Dir /\ r.dst \in Dir
    /\ r.pc # "none" /\ r.op = "rename" => r.to \in Name
    /\ r.pc # "none" /\ r.op = "move" => r.src # r.dst
    /\ r.pc # "none" /\ r.op = "size" => \E n \in Name : r.names = {n}
    /\ r.pc \in {"drain", "orphanDrain"} => r.op = "move"
    /\ r.pc = "orphan" => r.op \in Browsing!Writes
    /\ r.pc = "seed" => r.op = "size"

JobsType == job \in [BrowseJob -> Request] /\ \A j \in BrowseJob : Shape(job[j])

\* The rows tell which jobs there are, and a dead server works on none.
RowsType ==
    /\ row \in [BrowseJob -> {"none", "running", "done", "failed"}]
    /\ \A j \in BrowseJob :
          /\ row[j] = "none" <=> job[j].pc = "none"
          /\ job[j].pc \in Working \union {"seed"} => row[j] = "running" /\ up
    /\ up \in BOOLEAN /\ browseFaults \in 0 .. BrowseFaults

AtWork == {j \in BrowseJob : job[j].pc \in Working /\ job[j].op \in Browsing!Writes}

\* The guarded destinations are those of the jobs at work, each of one job.
Guarded ==
    /\ activeDestinations = {job[j].dst : j \in AtWork}
    /\ \A j, k \in AtWork : job[j].dst = job[k].dst => j = k

\* Jobs are numbered as they come, and each raises the generation by two at
\* most.
Numbered ==
    \E n \in 0 .. MaxJobs :
        /\ \A j \in BrowseJob : row[j] # "none" <=> j <= n
        /\ generation \in 0 .. 2 * n

StoreType ==
    /\ tree \in [Place -> Held]
    /\ sizes \in [Place -> {None} \union [of : Held, amid : BOOLEAN]]

OrphanOn(k, d) == job[k].pc \in Orphaned /\ d \in Browsing!Touches(k)
WriterOn(k, d) == Browsing!Writer(k) /\ d \in Browsing!Touches(k)
Measuring(j) == job[j].op = "size" /\ job[j].pc \in {"run", "seed"}

\* Where a process of a dead server may still write, no size is cached that
\* claims to be of a quiet directory.
OrphansUncached ==
    \A k \in BrowseJob : \A p \in Place :
        OrphanOn(k, p[1]) /\ sizes[p] # None => sizes[p].amid

\* A measurement of a quiet directory stands while no write was accepted.
\* Processes of a dead server were writing before it began.
Standing(j) ==
    /\ \A k \in BrowseJob : ~WriterOn(k, job[j].dst)
    /\ job[j].pc = "seed" => \A n \in job[j].names : job[j].size = tree[<<job[j].dst, n>>]

Measurements ==
    \A j \in BrowseJob :
        Measuring(j) =>
            /\ job[j].gen <= generation
            /\ ~job[j].amid => /\ \A k \in BrowseJob : ~OrphanOn(k, job[j].dst)
                               /\ generation <= job[j].gen => Standing(j)

CacheInv == Browsing!SizesFresh /\ OrphansUncached /\ Measurements

BrowseInv == JobsType /\ RowsType /\ Guarded /\ Numbered /\ StoreType /\ CacheInv

LEMMA BrowseSets ==
    /\ MaxJobs \in Nat /\ BrowseFaults \in Nat
    /\ Browsing!Job = BrowseJob /\ Browsing!Path = Place /\ Browsing!Content = Held
  BY BrowseAssumption
     DEF Browsing!Job, Browsing!Path, Browsing!Content, Browsing!Empty, Browsing!Old,
         BrowseJob, Place, Held

\* What the run checks follows from the invariant.
LEMMA BrowseChecked ==
    ASSUME BrowseInv
    PROVE  Browsing!TypeOK /\ Browsing!DestinationExclusive /\ Browsing!SizesFresh
<1> USE BrowseSets
<1>1. Browsing!SizesFresh
  BY DEF BrowseInv, CacheInv
<1>2. Browsing!DestinationExclusive
  BY DEF BrowseInv, Guarded, AtWork, Browsing!DestinationExclusive, Browsing!Writer, Working
<1>3. \A j \in BrowseJob :
         /\ job[j].pc \in {"none", "run", "drain", "seed", "orphan", "orphanDrain", "ended"}
         /\ job[j].todo \subseteq job[j].names
         /\ job[j].pc \in {"run", "drain", "seed"} => row[j] = "running" /\ up
  BY DEF BrowseInv, JobsType, RowsType, Request, Shape, Working, Orphaned
<1>4. \A k \in BrowseJob :
         (Browsing!Writer(k) /\ row[k] = "running" /\ job[k].pc \in {"run", "drain"})
         <=> k \in AtWork
  BY DEF BrowseInv, RowsType, AtWork, Browsing!Writer, Browsing!Live, Working
<1>5. activeDestinations = {job[j].dst : j \in {k \in BrowseJob :
                                Browsing!Writer(k) /\ row[k] = "running"
                                /\ job[k].pc \in {"run", "drain"}}}
  <2>1. {k \in BrowseJob : Browsing!Writer(k) /\ row[k] = "running"
                           /\ job[k].pc \in {"run", "drain"}} = AtWork
    BY <1>4 DEF AtWork
  <2> QED
    BY <2>1 DEF BrowseInv, Guarded
<1>6. generation \in 0 .. 2 * MaxJobs
  BY DEF BrowseInv, Numbered
<1>7. Browsing!TypeOK
  BY <1>3, <1>5, <1>6 DEF Browsing!TypeOK, BrowseInv, StoreType, RowsType
<1> QED
  BY <1>1, <1>2, <1>7

LEMMA BrowseStart == Browsing!Init => BrowseInv
<1> SUFFICES ASSUME Browsing!Init PROVE BrowseInv
  OBVIOUS
<1> USE BrowseSets DEF Browsing!Init
<1>1. /\ job = [j \in BrowseJob |-> Browsing!NoJob]
      /\ Browsing!NoJob \in Request /\ Shape(Browsing!NoJob) /\ Browsing!NoJob.pc = "none"
  BY DEF Browsing!NoJob, Request, Shape, Held, Working, Orphaned
<1>2. JobsType
  BY <1>1 DEF JobsType
<1>3. RowsType
  BY <1>1 DEF RowsType, Working
<1>4. Guarded
  BY <1>1 DEF Guarded, AtWork, Working
<1>5. Numbered
  <2>1. generation \in 0 .. 2 * 0 /\ \A j \in BrowseJob : row[j] # "none" <=> j <= 0
    BY DEF BrowseJob
  <2> QED
    BY <2>1 DEF Numbered
<1>6. StoreType
  BY DEF StoreType, Held, Browsing!Old
<1>7. CacheInv
  BY <1>1 DEF CacheInv, Browsing!SizesFresh, OrphansUncached, Measurements, Measuring
<1> QED
  BY <1>2, <1>3, <1>4, <1>5, <1>6, <1>7 DEF BrowseInv

-----------------------------------------------------------------------------
(* Steps of one job.                                                       *)

\* The step leaves job k as it is, but for the paths others wrote.
Same(k) ==
    /\ job'[k].op = job[k].op /\ job'[k].src = job[k].src /\ job'[k].dst = job[k].dst
    /\ job'[k].names = job[k].names /\ job'[k].to = job[k].to /\ job'[k].pc = job[k].pc
    /\ job'[k].todo = job[k].todo /\ job'[k].size = job[k].size
    /\ job'[k].gen = job[k].gen /\ job'[k].amid = job[k].amid

Others(j) == \A k \in BrowseJob \ {j} : Same(k)

LEMMA OneSet ==
    ASSUME JobsType, NEW j \in BrowseJob, NEW r \in Request, Shape(r),
           job' = [job EXCEPT ![j] = r]
    PROVE  JobsType' /\ job'[j] = r /\ Others(j)
  BY DEF JobsType, Shape, Others, Same

LEMMA OneAdvances ==
    ASSUME JobsType, NEW j \in BrowseJob, NEW r \in Request, Shape(r),
           NEW P \in SUBSET Place, Browsing!Advance(j, r, P)
    PROVE  JobsType' /\ job'[j] = r /\ Others(j)
<1> USE BrowseSets
<1>1. \A k \in BrowseJob :
         job'[k] = IF k = j THEN r
                   ELSE IF Browsing!Live(k) THEN [job[k] EXCEPT !.raced = @ \union P]
                   ELSE job[k]
  BY DEF Browsing!Advance
<1>2. job' = [k \in BrowseJob |-> job'[k]]
  BY DEF Browsing!Advance
<1>3. \A k \in BrowseJob : [job[k] EXCEPT !.raced = @ \union P] \in Request
  BY DEF JobsType, Request
<1>4. Others(j)
  <2> SUFFICES ASSUME NEW k \in BrowseJob \ {j} PROVE Same(k)
    BY DEF Others
  <2>1. job[k] \in Request
    BY DEF JobsType
  <2>2. job'[k] = [job[k] EXCEPT !.raced = @ \union P] \/ job'[k] = job[k]
    BY <1>1
  <2> QED
    BY <2>1, <2>2 DEF Same, Request
<1>5. \A k \in BrowseJob : job'[k] \in Request /\ Shape(job'[k])
  <2> SUFFICES ASSUME NEW k \in BrowseJob, k # j PROVE job'[k] \in Request /\ Shape(job'[k])
    BY <1>1
  <2>1. job'[k] \in Request
    BY <1>1, <1>3 DEF JobsType
  <2>2. Shape(job'[k])
    BY <1>4 DEF Others, Same, Shape, JobsType
  <2> QED
    BY <2>1, <2>2
<1> QED
  BY <1>1, <1>2, <1>4, <1>5 DEF JobsType

LEMMA GuardsKept ==
    ASSUME Guarded, NEW j \in BrowseJob, Others(j), activeDestinations' = activeDestinations,
           (j \in AtWork)' <=> j \in AtWork, j \in AtWork => job'[j].dst = job[j].dst
    PROVE  Guarded'
<1>1. AtWork' = AtWork
  BY DEF AtWork, Others, Same
<1>2. \A k \in AtWork : job'[k].dst = job[k].dst
  BY DEF AtWork, Others, Same
<1> QED
  BY <1>1, <1>2 DEF Guarded

LEMMA GuardReleased ==
    ASSUME Guarded, NEW j \in AtWork, Others(j), job'[j].pc \notin Working,
           activeDestinations' = activeDestinations \ {job[j].dst}
    PROVE  Guarded'
<1>1. AtWork' = AtWork \ {j}
  BY DEF AtWork, Others, Same
<1>2. \A k \in AtWork \ {j} : job'[k].dst = job[k].dst /\ job[k].dst # job[j].dst
  BY DEF Guarded, AtWork, Others, Same
<1> QED
  BY <1>1, <1>2 DEF Guarded

LEMMA GuardTaken ==
    ASSUME Guarded, NEW j \in BrowseJob \ AtWork, Others(j), (j \in AtWork)',
           job'[j].dst \notin activeDestinations,
           activeDestinations' = activeDestinations \union {job'[j].dst}
    PROVE  Guarded'
<1>1. AtWork' = AtWork \union {j}
  BY DEF AtWork, Others, Same
<1>2. \A k \in AtWork : job'[k].dst = job[k].dst /\ job[k].dst # job'[j].dst
  BY DEF Guarded, AtWork, Others, Same
<1> QED
  BY <1>1, <1>2 DEF Guarded

LEMMA NumbersKept ==
    ASSUME Numbered, generation' = generation,
           \A k \in BrowseJob : row'[k] = "none" <=> row[k] = "none"
    PROVE  Numbered'
  BY DEF Numbered

\* The job that is asked for has the next number.
LEMMA NumberTaken ==
    ASSUME Numbered, NEW j \in BrowseJob, Browsing!NextJob(j),
           NEW s, s # "none", RowsType, row' = [row EXCEPT ![j] = s],
           generation' \in {generation, generation + 1, generation + 2}
    PROVE  Numbered'
<1> USE BrowseSets
<1>1. PICK n \in 0 .. MaxJobs : /\ \A k \in BrowseJob : row[k] # "none" <=> k <= n
                                /\ generation \in 0 .. 2 * n
  BY DEF Numbered
<1>2. j = n + 1
  <2>1. j > n
    BY <1>1 DEF Browsing!NextJob, BrowseJob
  <2>2. ASSUME j # n + 1 PROVE FALSE
    <3>1. n + 1 \in BrowseJob /\ n + 1 < j
      BY <2>1, <2>2 DEF BrowseJob
    <3> QED
      BY <1>1, <3>1 DEF Browsing!NextJob
  <2> QED
    BY <2>2
<1>3. n + 1 \in 0 .. MaxJobs /\ generation' \in 0 .. 2 * (n + 1)
  BY <1>1, <1>2 DEF BrowseJob
<1>4. \A k \in BrowseJob : row'[k] # "none" <=> k <= n + 1
  BY <1>1, <1>2 DEF RowsType, BrowseJob
<1> QED
  BY <1>3, <1>4 DEF Numbered

\* What a job touches, and what it is at, is not changed by what others do.
LEMMA SameTouches ==
    ASSUME NEW k, Same(k)
    PROVE  /\ Browsing!Touches(k)' = Browsing!Touches(k)
           /\ Browsing!Writer(k)' <=> Browsing!Writer(k)
           /\ \A d : (WriterOn(k, d)' <=> WriterOn(k, d)) /\ (OrphanOn(k, d)' <=> OrphanOn(k, d))
           /\ Measuring(k)' <=> Measuring(k)
  BY DEF Same, Browsing!Touches, Browsing!Writer, Browsing!Live, WriterOn, OrphanOn, Measuring

\* The sizes stay true through a step that starts no write, puts nothing into
\* the cache, and changes the tree only where a write is at work; where it
\* ends a write, no size may stay that claims to be of a quiet directory.
LEMMA CacheFrame ==
    ASSUME JobsType, CacheInv, generation' = generation,
           \A k \in BrowseJob : \A p \in Place :
              /\ WriterOn(k, p[1])' => WriterOn(k, p[1])
              /\ WriterOn(k, p[1]) /\ ~WriterOn(k, p[1])' /\ sizes'[p] # None => sizes'[p].amid
              /\ OrphanOn(k, p[1])' => OrphanOn(k, p[1]),
           \A p \in Place :
              /\ sizes'[p] \in {None, sizes[p]}
              /\ tree'[p] # tree[p] => \E k \in BrowseJob : WriterOn(k, p[1]),
           \A k \in BrowseJob : Measuring(k)' =>
              /\ Measuring(k)
              /\ job'[k].gen = job[k].gen /\ job'[k].amid = job[k].amid
              /\ job'[k].dst = job[k].dst /\ job'[k].names = job[k].names
              /\ job'[k].pc = "seed" =>
                    \/ job[k].pc = "seed" /\ job'[k].size = job[k].size
                    \/ \A n \in job[k].names : job'[k].size = tree'[<<job[k].dst, n>>]
    PROVE  CacheInv'
<1> USE BrowseSets
<1>1. Browsing!SizesFresh'
  <2> SUFFICES ASSUME NEW p \in Place, sizes'[p] # None, ~sizes'[p].amid,
                      \A k \in BrowseJob : ~WriterOn(k, p[1])'
               PROVE  sizes'[p].of = tree'[p]
    BY DEF Browsing!SizesFresh, WriterOn
  <2>1. \A k \in BrowseJob : ~WriterOn(k, p[1])
    OBVIOUS
  <2>2. sizes'[p] = sizes[p] /\ tree'[p] = tree[p]
    BY <2>1
  <2> QED
    BY <2>1, <2>2 DEF CacheInv, Browsing!SizesFresh, WriterOn
<1>2. OrphansUncached'
  <2> SUFFICES ASSUME NEW k \in BrowseJob, NEW p \in Place, OrphanOn(k, p[1])', sizes'[p] # None
               PROVE  sizes'[p].amid
    BY DEF OrphansUncached
  <2>1. OrphanOn(k, p[1]) /\ sizes'[p] = sizes[p]
    OBVIOUS
  <2> QED
    BY <2>1 DEF CacheInv, OrphansUncached
<1>3. Measurements'
  <2> SUFFICES ASSUME NEW j \in BrowseJob, Measuring(j)'
               PROVE  /\ job'[j].gen <= generation'
                      /\ ~job'[j].amid => /\ \A k \in BrowseJob : ~OrphanOn(k, job[j].dst)'
                                          /\ generation' <= job'[j].gen => Standing(j)'
    BY DEF Measurements
  <2>1. /\ Measuring(j) /\ job'[j].gen = job[j].gen /\ job'[j].amid = job[j].amid
        /\ job'[j].dst = job[j].dst /\ job'[j].names = job[j].names
    OBVIOUS
  <2>2. /\ job[j].gen <= generation
        /\ ~job[j].amid => /\ \A k \in BrowseJob : ~OrphanOn(k, job[j].dst)
                           /\ generation <= job[j].gen => Standing(j)
    BY <2>1 DEF CacheInv, Measurements
  <2>3. PICK n \in Name : job[j].names = {n}
    BY <2>1 DEF Measuring, JobsType, Shape
  <2>4. job[j].dst \in Dir /\ <<job[j].dst, n>> \in Place
    BY <2>1 DEF Measuring, JobsType, Shape, Place
  <2>5. ASSUME ~job[j].amid PROVE \A k \in BrowseJob : ~OrphanOn(k, job[j].dst)'
    <3> DEFINE q == <<job[j].dst, n>>
    <3>1. q \in Place /\ q[1] = job[j].dst
      BY <2>4
    <3> HIDE DEF q
    <3> QED
      BY <2>2, <2>5, <3>1
  <2>6. ASSUME ~job[j].amid, generation <= job[j].gen PROVE Standing(j)'
    <3> DEFINE q == <<job[j].dst, n>>
    <3>1. q \in Place /\ q[1] = job[j].dst
      BY <2>4
    <3>2. Standing(j)
      BY <2>2, <2>6
    <3>3. \A k \in BrowseJob : ~WriterOn(k, q[1])
      BY <3>1, <3>2 DEF Standing
    <3>4. \A k \in BrowseJob : ~WriterOn(k, q[1])'
      BY <3>1, <3>3
    <3>5. tree'[q] = tree[q]
      BY <3>1, <3>3
    <3>6. job'[j].pc = "seed" => job'[j].size = tree'[q]
      BY <2>1, <2>3, <3>2, <3>5 DEF Standing
    <3> QED
      BY <2>1, <2>3, <3>1, <3>4, <3>6 DEF Standing
  <2> QED
    BY <2>1, <2>2, <2>5, <2>6
<1> QED
  BY <1>1, <1>2, <1>3 DEF CacheInv

-----------------------------------------------------------------------------
(* Requests.                                                               *)

LEMMA NotYet ==
    ASSUME BrowseInv, NEW j \in BrowseJob, Browsing!NextJob(j)
    PROVE  /\ row[j] = "none" /\ job[j].pc = "none" /\ j \notin AtWork
           /\ ~Measuring(j) /\ \A d : ~WriterOn(j, d) /\ ~OrphanOn(j, d)
  BY DEF BrowseInv, RowsType, Browsing!NextJob, AtWork, Working, Orphaned, Measuring, WriterOn,
         OrphanOn, Browsing!Writer, Browsing!Live

LEMMA RefusalKeeps ==
    ASSUME BrowseInv, NEW j \in BrowseJob, Browsing!NextJob(j), NEW r \in Request, Shape(r),
           r.pc = "run", Browsing!Refused(j, r), browseFaults' \in 0 .. BrowseFaults
    PROVE  BrowseInv'
<1> DEFINE e == [r EXCEPT !.pc = "ended"]
<1> USE BrowseSets
<1>1. e \in Request /\ Shape(e) /\ e.pc = "ended"
  BY DEF Request, Shape
<1>2. /\ row' = [row EXCEPT ![j] = "failed"] /\ job' = [job EXCEPT ![j] = e]
      /\ activeDestinations' = activeDestinations /\ up' = up
      /\ tree' = tree /\ sizes' = sizes /\ generation' = generation
  BY DEF Browsing!Refused, Browsing!guards
<1> HIDE DEF e
<1>3. JobsType' /\ job'[j] = e /\ Others(j)
  BY <1>1, <1>2, OneSet DEF BrowseInv
<1>4. RowsType'
  BY <1>1, <1>2, <1>3 DEF BrowseInv, RowsType, Others, Same, Working
<1>5. Guarded'
  <2>1. j \notin AtWork /\ ~(j \in AtWork)'
    BY <1>1, <1>3, NotYet DEF AtWork, Working
  <2> QED
    BY <1>2, <1>3, <2>1, GuardsKept DEF BrowseInv
<1>6. Numbered'
  BY <1>2, NumberTaken DEF BrowseInv
<1>7. StoreType'
  BY <1>2 DEF BrowseInv, StoreType
<1>8. CacheInv'
  <2>1. /\ ~Measuring(j)' /\ \A d : ~WriterOn(j, d)' /\ ~OrphanOn(j, d)'
    BY <1>1, <1>3 DEF Measuring, WriterOn, OrphanOn, Browsing!Writer, Browsing!Live, Orphaned
  <2>2. \A k \in BrowseJob \ {j} : Same(k)
    BY <1>3 DEF Others
  <2>3. \A k \in BrowseJob : \A d :
           /\ WriterOn(k, d)' <=> WriterOn(k, d)
           /\ OrphanOn(k, d)' <=> OrphanOn(k, d)
    BY <2>1, <2>2, NotYet, SameTouches
  <2>4. \A k \in BrowseJob : Measuring(k)' => Measuring(k) /\ Same(k)
    BY <2>1, <2>2, SameTouches
  <2> QED
    BY <1>2, <2>3, <2>4, CacheFrame DEF BrowseInv, Same
<1> QED
  BY <1>3, <1>4, <1>5, <1>6, <1>7, <1>8 DEF BrowseInv

\* An accepted write makes every measurement under way a stale one.
LEMMA AcceptanceKeeps ==
    ASSUME BrowseInv, NEW j \in BrowseJob, Browsing!NextJob(j), NEW r \in Request, Shape(r),
           r.pc = "run", r.op \in Browsing!Writes, r.dst \notin activeDestinations, up,
           row' = [row EXCEPT ![j] = "running"], job' = [job EXCEPT ![j] = r],
           activeDestinations' = activeDestinations \union {r.dst},
           generation' = generation + (IF r.op = "move" THEN 2 ELSE 1),
           UNCHANGED <<tree, sizes, up, browseFaults>>
    PROVE  BrowseInv'
<1> USE BrowseSets
<1>1. JobsType' /\ job'[j] = r /\ Others(j)
  BY OneSet DEF BrowseInv
<1>2. generation \in Nat /\ generation' \in Nat /\ generation' > generation
  BY DEF BrowseInv, Numbered
<1>3. RowsType'
  BY <1>1 DEF BrowseInv, RowsType, Others, Same, Working
<1>4. Guarded'
  <2>1. j \notin AtWork /\ (j \in AtWork)'
    BY <1>1, NotYet DEF AtWork, Working
  <2> QED
    BY <1>1, <2>1, GuardTaken DEF BrowseInv
<1>5. Numbered'
  <2>1. generation' \in {generation, generation + 1, generation + 2}
    OBVIOUS
  <2> QED
    BY <2>1, NumberTaken DEF BrowseInv
<1>6. StoreType'
  BY DEF BrowseInv, StoreType
<1>7. CacheInv'
  <2>1. ~Measuring(j)' /\ \A d : ~OrphanOn(j, d)' /\ ~WriterOn(j, d)
    BY <1>1, NotYet DEF Measuring, OrphanOn, Orphaned, Browsing!Writes
  <2>2. \A k \in BrowseJob \ {j} : Same(k)
    BY <1>1 DEF Others
  <2>3. \A k \in BrowseJob : \A d : /\ WriterOn(k, d) => WriterOn(k, d)'
                                    /\ OrphanOn(k, d)' => OrphanOn(k, d)
    BY <2>1, <2>2, SameTouches
  <2>4. \A k \in BrowseJob : Measuring(k)' => Measuring(k) /\ Same(k)
    BY <2>1, <2>2, SameTouches
  <2>5. Browsing!SizesFresh'
    BY <2>3 DEF BrowseInv, CacheInv, Browsing!SizesFresh, WriterOn
  <2>6. OrphansUncached'
    BY <2>3 DEF BrowseInv, CacheInv, OrphansUncached
  <2>7. Measurements'
    <3> SUFFICES ASSUME NEW k \in BrowseJob, Measuring(k)'
                 PROVE  /\ job'[k].gen < generation'
                        /\ ~job'[k].amid => \A o \in BrowseJob : ~OrphanOn(o, job[k].dst)'
      <4>1. \A k \in BrowseJob : Measuring(k)' => job'[k].gen \in Nat
        BY <1>1 DEF JobsType, Request
      <4> QED
        BY <1>2, <4>1 DEF Measurements
    <3>1. Measuring(k) /\ Same(k) /\ job[k].gen \in Nat
      BY <2>4 DEF BrowseInv, JobsType, Request
    <3>2. job[k].gen <= generation
          /\ (~job[k].amid => \A o \in BrowseJob : ~OrphanOn(o, job[k].dst))
      BY <3>1 DEF BrowseInv, CacheInv, Measurements
    <3>3. job'[k].dst = job[k].dst /\ job'[k].amid = job[k].amid /\ job'[k].gen = job[k].gen
      BY <3>1 DEF Same
    <3>4. ~job[k].amid => \A o \in BrowseJob : ~OrphanOn(o, job[k].dst)'
      BY <2>3, <3>2, <3>3
    <3> QED
      BY <1>2, <3>1, <3>2, <3>3, <3>4
  <2> QED
    BY <2>5, <2>6, <2>7 DEF CacheInv
<1> QED
  BY <1>1, <1>3, <1>4, <1>5, <1>6, <1>7 DEF BrowseInv

LEMMA StartKeeps ==
    ASSUME BrowseInv, NEW j \in BrowseJob, NEW r \in Request, Shape(r), r.pc = "run",
           r.op \in Browsing!Writes, Browsing!StartWrite(j, r)
    PROVE  BrowseInv'
<1>1. up /\ Browsing!NextJob(j) /\ browseFaults \in 0 .. BrowseFaults
  BY DEF Browsing!StartWrite, BrowseInv, RowsType
<1>2. CASE Browsing!Busy(r) /\ Browsing!Refused(j, r) /\ UNCHANGED browseFaults
  BY <1>1, <1>2, RefusalKeeps
<1>3. CASE Browsing!Fault /\ Browsing!Refused(j, r)
  <2>1. browseFaults' \in 0 .. BrowseFaults
    BY <1>1, <1>3, BrowseSets DEF Browsing!Fault
  <2> QED
    BY <1>1, <1>3, <2>1, RefusalKeeps
<1>4. CASE ~(Browsing!Busy(r) /\ Browsing!Refused(j, r) /\ UNCHANGED browseFaults)
           /\ ~(Browsing!Fault /\ Browsing!Refused(j, r))
  <2>1. /\ ~Browsing!Busy(r)
        /\ row' = [row EXCEPT ![j] = "running"] /\ job' = [job EXCEPT ![j] = r]
        /\ activeDestinations' = activeDestinations \union {r.dst}
        /\ generation' = generation + (IF r.op = "move" THEN 2 ELSE 1)
        /\ UNCHANGED <<tree, sizes, up, browseFaults>>
    BY <1>4 DEF Browsing!StartWrite
  <2>2. r.dst \notin activeDestinations
    BY <2>1 DEF Browsing!Busy
  <2> QED
    BY <1>1, <2>1, <2>2, AcceptanceKeeps
<1> QED
  BY <1>2, <1>3, <1>4

LEMMA RequestIs ==
    ASSUME NEW op \in Ops, NEW src \in Dir, NEW dst \in Dir, NEW names \in SUBSET Name,
           NEW to \in Name \union {None}, op = "rename" => to \in Name,
           op = "move" => src # dst, op = "size" => \E n \in Name : names = {n}
    PROVE  LET r == Browsing!Request(op, src, dst, names, to) IN
           /\ r \in Request /\ Shape(r) /\ r.pc = "run" /\ r.op = op /\ r.dst = dst
           /\ r.names = names
  BY DEF Browsing!Request, Browsing!NoJob, Request, Shape, Working, Held, Ops, Browsing!Writes

LEMMA RequestsKeep ==
    ASSUME BrowseInv, NEW j \in BrowseJob,
           Browsing!CopyMove(j) \/ Browsing!Rename(j) \/ Browsing!Delete(j) \/ Browsing!Create(j)
    PROVE  BrowseInv'
<1>1. PICK op \in Browsing!Writes, src \in Dir, dst \in Dir, names \in SUBSET Name,
           to \in Name \union {None} :
           /\ op = "rename" => to \in Name
           /\ op = "move" => src # dst
           /\ Browsing!StartWrite(j, Browsing!Request(op, src, dst, names, to))
  <2>1. CASE Browsing!CopyMove(j)
    BY <2>1 DEF Browsing!CopyMove, Browsing!Writes
  <2>2. CASE Browsing!Rename(j)
    BY <2>2 DEF Browsing!Rename, Browsing!Writes
  <2>3. CASE Browsing!Delete(j)
    BY <2>3 DEF Browsing!Delete, Browsing!Writes
  <2>4. CASE Browsing!Create(j)
    BY <2>4 DEF Browsing!Create, Browsing!Writes
  <2> QED
    BY <2>1, <2>2, <2>3, <2>4
<1> DEFINE r == Browsing!Request(op, src, dst, names, to)
<1>2. r \in Request /\ Shape(r) /\ r.pc = "run" /\ r.op \in Browsing!Writes
  <2>1. op \in Ops /\ op # "size"
    BY DEF Ops, Browsing!Writes
  <2> QED
    BY <1>1, <2>1, RequestIs
<1>3. Browsing!StartWrite(j, r)
  BY <1>1
<1> HIDE DEF r
<1> QED
  BY <1>2, <1>3, StartKeeps

\* A measurement begins: it is of a quiet directory or says it is not.
LEMMA SizeKeeps ==
    ASSUME BrowseInv, NEW j \in BrowseJob, Browsing!Size(j)
    PROVE  BrowseInv'
<1> USE BrowseSets
<1>1. /\ up /\ Browsing!NextJob(j) /\ row' = [row EXCEPT ![j] = "running"]
      /\ tree' = tree /\ activeDestinations' = activeDestinations /\ sizes' = sizes
      /\ generation' = generation /\ up' = up /\ browseFaults' = browseFaults
  BY DEF Browsing!Size, Browsing!guards
<1>2. PICK d \in Dir, n \in Name :
         job' = [job EXCEPT ![j] =
                   [Browsing!Request("size", d, d, {n}, None) EXCEPT
                      !.gen = generation,
                      !.amid = \E k \in BrowseJob : WriterOn(k, d)]]
  BY DEF Browsing!Size, WriterOn
<1> DEFINE q == Browsing!Request("size", d, d, {n}, None)
           r == [q EXCEPT !.gen = generation, !.amid = \E k \in BrowseJob : WriterOn(k, d)]
<1>3. q \in Request /\ Shape(q) /\ q.pc = "run" /\ q.op = "size" /\ q.dst = d /\ q.names = {n}
  <2>1. "size" \in Ops /\ {n} \in SUBSET Name /\ None \in Name \union {None}
    BY DEF Ops
  <2> QED
    BY <2>1, RequestIs
<1> HIDE DEF q
<1>4. generation \in Nat
  BY DEF BrowseInv, Numbered
<1>5. /\ r \in Request /\ Shape(r) /\ r.pc = "run" /\ r.op = "size" /\ r.dst = d
      /\ r.gen = generation /\ r.amid = \E k \in BrowseJob : WriterOn(k, d)
  BY <1>3, <1>4 DEF Request, Shape
<1>6. job' = [job EXCEPT ![j] = r]
  BY <1>2 DEF q
<1> HIDE DEF r
<1>7. JobsType' /\ job'[j] = r /\ Others(j)
  BY <1>5, <1>6, OneSet DEF BrowseInv
<1>8. RowsType'
  BY <1>1, <1>5, <1>7 DEF BrowseInv, RowsType, Others, Same, Working
<1>9. Guarded'
  <2>1. j \notin AtWork /\ ~(j \in AtWork)'
    BY <1>1, <1>5, <1>7, NotYet DEF AtWork, Browsing!Writes
  <2> QED
    BY <1>1, <1>7, <2>1, GuardsKept DEF BrowseInv
<1>10. Numbered'
  BY <1>1, NumberTaken DEF BrowseInv
<1>11. StoreType'
  BY <1>1 DEF BrowseInv, StoreType
<1>12. CacheInv'
  <2>1. \A e : ~WriterOn(j, e)' /\ ~OrphanOn(j, e)'
    BY <1>5, <1>7 DEF WriterOn, OrphanOn, Browsing!Writer, Browsing!Writes, Orphaned
  <2>2. \A k \in BrowseJob \ {j} : Same(k)
    BY <1>7 DEF Others
  <2>3. \A k \in BrowseJob : \A e : /\ WriterOn(k, e)' <=> WriterOn(k, e)
                                    /\ OrphanOn(k, e)' <=> OrphanOn(k, e)
    BY <1>1, <2>1, <2>2, NotYet, SameTouches
  <2>4. Browsing!SizesFresh'
    BY <1>1, <2>3 DEF BrowseInv, CacheInv, Browsing!SizesFresh, WriterOn
  <2>5. OrphansUncached'
    BY <1>1, <2>3 DEF BrowseInv, CacheInv, OrphansUncached
  <2>6. \A k \in BrowseJob : \A e : OrphanOn(k, e) => WriterOn(k, e)
    BY DEF BrowseInv, JobsType, Shape, OrphanOn, WriterOn, Orphaned, Browsing!Writer,
           Browsing!Live, Browsing!Writes
  <2>7. Measurements'
    <3> SUFFICES ASSUME NEW k \in BrowseJob, Measuring(k)'
                 PROVE  /\ job'[k].gen <= generation'
                        /\ ~job'[k].amid =>
                              /\ \A o \in BrowseJob : ~OrphanOn(o, job[k].dst)'
                              /\ generation' <= job'[k].gen => Standing(k)'
      BY DEF Measurements
    <3>1. CASE k = j
      <4>1. job'[k] = r
        BY <1>7, <3>1
      <4>2. ~r.amid => \A o \in BrowseJob : ~WriterOn(o, d)
        BY <1>5
      <4>3. ~r.amid => \A o \in BrowseJob : ~WriterOn(o, d)' /\ ~OrphanOn(o, d)'
        BY <2>3, <2>6, <4>2
      <4>4. ~job'[k].amid => /\ \A o \in BrowseJob : ~OrphanOn(o, job[k].dst)'
                             /\ Standing(k)'
        BY <1>5, <4>1, <4>3 DEF Standing
      <4>5. job'[k].gen <= generation'
        BY <1>1, <1>4, <1>5, <4>1
      <4> QED
        BY <4>4, <4>5
    <3>2. CASE k # j
      <4>1. Same(k) /\ Measuring(k)
        BY <2>2, <3>2, SameTouches
      <4>2. /\ job[k].gen <= generation
            /\ ~job[k].amid => /\ \A o \in BrowseJob : ~OrphanOn(o, job[k].dst)
                               /\ generation <= job[k].gen => Standing(k)
        BY <4>1 DEF BrowseInv, CacheInv, Measurements
      <4>3. ~job[k].amid => \A o \in BrowseJob : ~OrphanOn(o, job[k].dst)'
        BY <2>3, <4>1, <4>2 DEF Same
      <4>4. Standing(k) => Standing(k)'
        BY <1>1, <2>3, <4>1 DEF Standing, Same
      <4> QED
        BY <1>1, <4>1, <4>2, <4>3, <4>4 DEF Same
    <3> QED
      BY <3>1, <3>2
  <2> QED
    BY <2>4, <2>5, <2>7 DEF CacheInv
<1> QED
  BY <1>7, <1>8, <1>9, <1>10, <1>11, <1>12 DEF BrowseInv

-----------------------------------------------------------------------------
(* The work of a job.                                                      *)

\* A process at work changes the tree where its job writes, and nothing else
\* but the job's own progress.
LEMMA EntryKeeps ==
    ASSUME BrowseInv, NEW j \in AtWork, NEW r \in Request, Shape(r), r.pc \in Working,
           r.op = job[j].op, r.src = job[j].src, r.dst = job[j].dst,
           Browsing!Advance(j, r, Browsing!Changed),
           tree' \in [Place -> Held],
           \A p \in Place : tree'[p] # tree[p] => p[1] \in Browsing!Touches(j),
           UNCHANGED <<row, activeDestinations, sizes, generation, up, browseFaults>>
    PROVE  BrowseInv'
<1> USE BrowseSets
<1>1. j \in BrowseJob /\ job[j].op \in Browsing!Writes /\ job[j].pc \in Working
  BY DEF AtWork
<1>2. JobsType' /\ job'[j] = r /\ Others(j)
  <2>1. Browsing!Changed \in SUBSET Place
    BY DEF Browsing!Changed
  <2> HIDE DEF Browsing!Changed
  <2> QED
    BY <1>1, <2>1, OneAdvances DEF BrowseInv
<1>3. RowsType'
  BY <1>1, <1>2 DEF BrowseInv, RowsType, Others, Same, Working
<1>4. Guarded'
  <2>1. (j \in AtWork)'
    BY <1>1, <1>2 DEF AtWork
  <2> QED
    BY <1>1, <1>2, <2>1, GuardsKept DEF BrowseInv
<1>5. Numbered'
  BY NumbersKept DEF BrowseInv
<1>6. StoreType'
  BY DEF BrowseInv, StoreType
<1>7. CacheInv'
  <2>1. \A d : /\ WriterOn(j, d)' <=> WriterOn(j, d)
               /\ OrphanOn(j, d)' <=> OrphanOn(j, d)
    BY <1>1, <1>2 DEF WriterOn, OrphanOn, Browsing!Writer, Browsing!Live, Browsing!Touches,
                      Working, Orphaned
  <2>2. ~Measuring(j)'
    BY <1>1, <1>2 DEF Measuring, Browsing!Writes
  <2>3. \A k \in BrowseJob \ {j} : Same(k)
    BY <1>2 DEF Others
  <2>4. \A k \in BrowseJob : \A d : /\ WriterOn(k, d)' <=> WriterOn(k, d)
                                    /\ OrphanOn(k, d)' <=> OrphanOn(k, d)
    BY <2>1, <2>3, SameTouches
  <2>5. \A k \in BrowseJob : Measuring(k)' => Measuring(k) /\ Same(k)
    BY <2>2, <2>3, SameTouches
  <2>6. \A p \in Place : tree'[p] # tree[p] => WriterOn(j, p[1])
    BY <1>1 DEF WriterOn, Browsing!Writer, Browsing!Live, Working
  <2> QED
    BY <1>1, <2>4, <2>5, <2>6, CacheFrame DEF BrowseInv, Same
<1> QED
  BY <1>2, <1>3, <1>4, <1>5, <1>6, <1>7 DEF BrowseInv

\* What one process writes is where its job writes.
LEMMA WrittenWithin ==
    ASSUME BrowseInv, NEW j \in BrowseJob, job[j].op \in Browsing!Writes, job[j].pc # "none",
           NEW n \in job[j].names, NEW t, t = Browsing!Written(j, n)
    PROVE  /\ t \in [Place -> Held]
           /\ \A p \in Place : t[p] # tree[p] => p[1] \in Browsing!Touches(j)
<1> USE BrowseSets
<1> DEFINE r == job[j]
<1>1. /\ r.src \in Dir /\ r.dst \in Dir /\ n \in Name /\ (r.op = "rename" => r.to \in Name)
      /\ tree \in [Place -> Held]
  BY DEF BrowseInv, JobsType, Request, Shape, StoreType
<1>2. r.dst \in Browsing!Touches(j)
  BY DEF Browsing!Touches
<1>3. /\ <<r.src, n>> \in Place /\ <<r.dst, n>> \in Place
      /\ r.op = "rename" => <<r.dst, r.to>> \in Place
  BY <1>1 DEF Place
<1>4. tree[<<r.src, n>>] \in Held /\ None \in Held /\ 0 \in Held /\ j \in Held
  BY <1>1, <1>3 DEF Held, BrowseJob
<1>5. CASE r.op \in {"copy", "move"}
  <2>1. t = [tree EXCEPT ![<<r.dst, n>>] = tree[<<r.src, n>>]]
    BY <1>5 DEF Browsing!Written
  <2> QED
    BY <1>1, <1>2, <1>3, <1>4, <2>1
<1>6. CASE r.op = "rename"
  <2>1. t = [tree EXCEPT ![<<r.dst, r.to>>] = tree[<<r.src, n>>], ![<<r.dst, n>>] = None]
    BY <1>6 DEF Browsing!Written
  <2> QED
    BY <1>1, <1>2, <1>3, <1>4, <1>6, <2>1
<1>7. CASE r.op = "delete"
  <2>1. t = [tree EXCEPT ![<<r.dst, n>>] = None]
    BY <1>7 DEF Browsing!Written
  <2> QED
    BY <1>1, <1>2, <1>3, <1>4, <2>1
<1>8. CASE r.op = "mkdir"
  <2>1. t = [tree EXCEPT ![<<r.dst, n>>] = IF @ = None THEN 0 ELSE @]
    BY <1>8 DEF Browsing!Written, Browsing!Empty
  <2> QED
    BY <1>1, <1>2, <1>3, <1>4, <2>1
<1>9. CASE r.op = "upload"
  <2>1. t = [tree EXCEPT ![<<r.dst, n>>] = j]
    BY <1>9 DEF Browsing!Written
  <2> QED
    BY <1>1, <1>2, <1>3, <1>4, <2>1
<1> QED
  BY <1>5, <1>6, <1>7, <1>8, <1>9 DEF Browsing!Writes

LEMMA DrainWithin ==
    ASSUME BrowseInv, NEW j \in BrowseJob, job[j].op = "move", job[j].pc # "none",
           NEW n \in job[j].names, NEW t, t = [tree EXCEPT ![<<job[j].src, n>>] = None]
    PROVE  /\ t \in [Place -> Held]
           /\ \A p \in Place : t[p] # tree[p] => p[1] \in Browsing!Touches(j)
<1>1. /\ job[j].src \in Dir /\ n \in Name /\ tree \in [Place -> Held]
      /\ job[j].src \in Browsing!Touches(j)
  BY DEF BrowseInv, JobsType, Request, Shape, StoreType, Browsing!Touches
<1>2. <<job[j].src, n>> \in Place /\ None \in Held
  BY <1>1 DEF Place, Held
<1> QED
  BY <1>1, <1>2

LEMMA RunKeeps ==
    ASSUME BrowseInv, NEW j \in BrowseJob, NEW n \in Name, Browsing!RunEntry(j, n)
    PROVE  BrowseInv'
<1> DEFINE todo == job[j].todo \ {n}
           r == [job[j] EXCEPT !.todo = IF Browsing!Drains(j, todo) THEN job[j].names ELSE todo,
                               !.pc = IF Browsing!Drains(j, todo) THEN "drain" ELSE "run"]
<1>1. /\ job[j].pc = "run" /\ job[j].op \in Browsing!Writes /\ n \in job[j].todo
      /\ tree' = Browsing!Written(j, n) /\ Browsing!Advance(j, r, Browsing!Changed)
      /\ UNCHANGED <<row, activeDestinations, sizes, generation, up, browseFaults>>
  BY DEF Browsing!RunEntry, Browsing!guards
<1>2. job[j] \in Request /\ Shape(job[j]) /\ todo \subseteq job[j].names
  BY DEF BrowseInv, JobsType, Shape
<1>3. Browsing!Drains(j, todo) => job[j].op = "move"
  BY DEF Browsing!Drains
<1> HIDE DEF todo
<1>4. /\ r \in Request /\ Shape(r) /\ r.pc \in Working /\ r.op = job[j].op
      /\ r.src = job[j].src /\ r.dst = job[j].dst
  BY <1>1, <1>2, <1>3 DEF Request, Shape, Working, Browsing!Writes
<1> HIDE DEF r
<1>5. n \in job[j].names /\ job[j].pc # "none" /\ j \in AtWork
  BY <1>1, <1>2 DEF Shape, AtWork, Working
<1>6. /\ tree' \in [Place -> Held]
      /\ \A p \in Place : tree'[p] # tree[p] => p[1] \in Browsing!Touches(j)
  BY <1>1, <1>5, WrittenWithin
<1> QED
  BY <1>1, <1>4, <1>5, <1>6, EntryKeeps

LEMMA DrainKeeps ==
    ASSUME BrowseInv, NEW j \in BrowseJob, NEW n \in Name, Browsing!DrainEntry(j, n)
    PROVE  BrowseInv'
<1> DEFINE r == [job[j] EXCEPT !.todo = @ \ {n}]
<1>1. /\ job[j].pc = "drain" /\ n \in job[j].todo
      /\ tree' = [tree EXCEPT ![<<job[j].src, n>>] = None]
      /\ Browsing!Advance(j, r, Browsing!Changed)
      /\ UNCHANGED <<row, activeDestinations, sizes, generation, up, browseFaults>>
  BY DEF Browsing!DrainEntry, Browsing!guards
<1>2. job[j] \in Request /\ Shape(job[j])
  BY DEF BrowseInv, JobsType
<1>3. /\ r \in Request /\ Shape(r) /\ r.pc \in Working /\ r.op = job[j].op
      /\ r.src = job[j].src /\ r.dst = job[j].dst
  BY <1>1, <1>2 DEF Request, Shape, Working
<1> HIDE DEF r
<1>4. /\ n \in job[j].names /\ job[j].pc # "none" /\ j \in AtWork /\ job[j].op = "move"
  BY <1>1, <1>2 DEF Shape, AtWork, Working, Browsing!Writes
<1>5. /\ tree' \in [Place -> Held]
      /\ \A p \in Place : tree'[p] # tree[p] => p[1] \in Browsing!Touches(j)
  BY <1>1, <1>4, DrainWithin
<1> QED
  BY <1>1, <1>3, <1>4, <1>5, EntryKeeps

\* A job that ends leaves its guard and is none of those at work.
LEMMA EndingParts ==
    ASSUME BrowseInv, NEW j \in BrowseJob, job[j].pc # "none",
           job' = [job EXCEPT ![j].pc = "ended"],
           \E s \in {row[j], "done", "failed"} : row' = [row EXCEPT ![j] = s],
           activeDestinations' = IF j \in AtWork THEN activeDestinations \ {job[j].dst}
                                                 ELSE activeDestinations,
           browseFaults' \in 0 .. BrowseFaults, UNCHANGED <<generation, up>>
    PROVE  /\ JobsType' /\ RowsType' /\ Guarded' /\ Numbered' /\ Others(j)
           /\ ~Measuring(j)' /\ \A d : ~WriterOn(j, d)' /\ ~OrphanOn(j, d)'
           /\ \A k \in BrowseJob \ {j} : \A d : /\ WriterOn(k, d)' <=> WriterOn(k, d)
                                                /\ OrphanOn(k, d)' <=> OrphanOn(k, d)
           /\ \A k \in BrowseJob : Measuring(k)' => Measuring(k) /\ Same(k)
<1> USE BrowseSets
<1> DEFINE r == [job[j] EXCEPT !.pc = "ended"]
<1>1. r \in Request /\ Shape(r) /\ r.pc = "ended" /\ r.op = job[j].op /\ r.dst = job[j].dst
  BY DEF BrowseInv, JobsType, Request, Shape
<1>2. job' = [job EXCEPT ![j] = r]
  BY DEF BrowseInv, JobsType
<1> HIDE DEF r
<1>3. JobsType' /\ job'[j] = r /\ Others(j)
  BY <1>1, <1>2, OneSet DEF BrowseInv
<1>4. PICK s \in {row[j], "done", "failed"} : row' = [row EXCEPT ![j] = s]
  OBVIOUS
<1>5. row[j] # "none"
  BY DEF BrowseInv, RowsType
<1>6. RowsType'
  BY <1>1, <1>3, <1>4, <1>5 DEF BrowseInv, RowsType, Others, Same, Working
<1>7. Guarded'
  <2>1. ~(j \in AtWork)'
    BY <1>1, <1>3 DEF AtWork, Working
  <2>2. CASE j \in AtWork
    <3>1. job'[j].pc \notin Working
      BY <1>1, <1>3 DEF Working
    <3> QED
      BY <1>3, <2>2, <3>1, GuardReleased DEF BrowseInv
  <2>3. CASE j \notin AtWork
    BY <1>3, <2>1, <2>3, GuardsKept DEF BrowseInv
  <2> QED
    BY <2>2, <2>3
<1>8. Numbered'
  <2>1. \A k \in BrowseJob : row'[k] = "none" <=> row[k] = "none"
    BY <1>4, <1>5 DEF BrowseInv, RowsType
  <2> QED
    BY <2>1, NumbersKept DEF BrowseInv
<1>9. /\ ~Measuring(j)' /\ \A d : ~WriterOn(j, d)' /\ ~OrphanOn(j, d)'
  BY <1>1, <1>3 DEF Measuring, WriterOn, OrphanOn, Browsing!Writer, Browsing!Live, Orphaned
<1>10. \A k \in BrowseJob \ {j} : Same(k)
  BY <1>3 DEF Others
<1>11. \A k \in BrowseJob \ {j} : \A d : /\ WriterOn(k, d)' <=> WriterOn(k, d)
                                         /\ OrphanOn(k, d)' <=> OrphanOn(k, d)
  BY <1>10, SameTouches
<1>12. \A k \in BrowseJob : Measuring(k)' => Measuring(k) /\ Same(k)
  BY <1>9, <1>10, SameTouches
<1> QED
  BY <1>3, <1>6, <1>7, <1>8, <1>9, <1>11, <1>12

\* A job that ends writes no more: nothing may be cached then that claims to
\* be of a quiet directory the job wrote in.
LEMMA EndingKeeps ==
    ASSUME BrowseInv, NEW j \in BrowseJob, job[j].pc # "none",
           job' = [job EXCEPT ![j].pc = "ended"],
           \E s \in {row[j], "done", "failed"} : row' = [row EXCEPT ![j] = s],
           activeDestinations' = IF j \in AtWork THEN activeDestinations \ {job[j].dst}
                                                 ELSE activeDestinations,
           browseFaults' \in 0 .. BrowseFaults, UNCHANGED <<generation, up>>,
           tree' \in [Place -> Held],
           sizes' \in [Place -> {None} \union [of : Held, amid : BOOLEAN]],
           \A p \in Place : /\ sizes'[p] \in {None, sizes[p]}
                            /\ tree'[p] # tree[p] => WriterOn(j, p[1])
                            /\ WriterOn(j, p[1]) /\ sizes'[p] # None => sizes'[p].amid
    PROVE  BrowseInv'
<1>1. /\ JobsType' /\ RowsType' /\ Guarded' /\ Numbered'
      /\ ~Measuring(j)' /\ \A d : ~WriterOn(j, d)' /\ ~OrphanOn(j, d)'
      /\ \A k \in BrowseJob \ {j} : \A d : /\ WriterOn(k, d)' <=> WriterOn(k, d)
                                           /\ OrphanOn(k, d)' <=> OrphanOn(k, d)
      /\ \A k \in BrowseJob : Measuring(k)' => Measuring(k) /\ Same(k)
  BY EndingParts
<1>2. StoreType'
  BY DEF StoreType
<1>3. CacheInv'
  <2>1. \A k \in BrowseJob : \A p \in Place :
           /\ WriterOn(k, p[1])' => WriterOn(k, p[1])
           /\ WriterOn(k, p[1]) /\ ~WriterOn(k, p[1])' /\ sizes'[p] # None => sizes'[p].amid
           /\ OrphanOn(k, p[1])' => OrphanOn(k, p[1])
    BY <1>1
  <2> QED
    BY <1>1, <2>1, CacheFrame DEF BrowseInv, Same
<1> QED
  BY <1>1, <1>2, <1>3 DEF BrowseInv

LEMMA EndKeeps ==
    ASSUME BrowseInv, NEW j \in BrowseJob, Browsing!Finish(j) \/ Browsing!Fail(j)
    PROVE  BrowseInv'
<1> USE BrowseSets
<1>1. j \in AtWork /\ job[j].pc # "none"
  BY DEF Browsing!Finish, Browsing!Fail, AtWork, Working
<1>2. browseFaults' \in 0 .. BrowseFaults
  BY DEF Browsing!Finish, Browsing!Fail, Browsing!Fault, BrowseInv, RowsType
<1>3. Browsing!End(j, "done") \/ Browsing!End(j, "failed")
  BY DEF Browsing!Finish, Browsing!Fail
<1>4. /\ job' = [job EXCEPT ![j].pc = "ended"]
      /\ row' = [row EXCEPT ![j] = "done"] \/ row' = [row EXCEPT ![j] = "failed"]
      /\ activeDestinations' = activeDestinations \ {job[j].dst}
      /\ sizes' = Browsing!DroppedSizes(j)
      /\ UNCHANGED <<tree, generation, up>>
  BY <1>3 DEF Browsing!End, Browsing!Released
<1>5. /\ sizes' \in [Place -> {None} \union [of : Held, amid : BOOLEAN]]
      /\ \A p \in Place : /\ sizes'[p] \in {None, sizes[p]}
                          /\ p[1] \in Browsing!Touches(j) => sizes'[p] = None
  <2>1. sizes' = [p \in Place |-> IF p[1] \in Browsing!Touches(j) THEN None ELSE sizes[p]]
    BY <1>4 DEF Browsing!DroppedSizes
  <2>2. sizes \in [Place -> {None} \union [of : Held, amid : BOOLEAN]]
    BY DEF BrowseInv, StoreType
  <2> QED
    BY <2>1, <2>2
<1>6. /\ tree' \in [Place -> Held]
      /\ \A p \in Place : WriterOn(j, p[1]) => sizes'[p] = None
  BY <1>4, <1>5 DEF WriterOn, BrowseInv, StoreType
<1> QED
  BY <1>1, <1>2, <1>4, <1>5, <1>6, EndingKeeps

LEMMA MeasuringIs ==
    ASSUME BrowseInv, NEW j \in BrowseJob, job[j].op = "size", job[j].pc # "none"
    PROVE  /\ Browsing!Measured(j) \in Place
           /\ Browsing!Measured(j)[1] = job[j].dst
           /\ \A n \in job[j].names : Browsing!Measured(j) = <<job[j].dst, n>>
<1> USE BrowseSets
<1>1. PICK n \in Name : job[j].names = {n}
  BY DEF BrowseInv, JobsType, Shape
<1>2. job[j].dst \in Dir
  BY DEF BrowseInv, JobsType, Shape
<1>3. \E p \in Place : p[1] = job[j].dst /\ p[2] \in job[j].names
  <2>1. <<job[j].dst, n>> \in Place
    BY <1>2 DEF Place
  <2> QED
    BY <1>1, <2>1
<1>4. /\ Browsing!Measured(j) \in Place /\ Browsing!Measured(j)[1] = job[j].dst
      /\ Browsing!Measured(j)[2] \in job[j].names
  BY <1>3 DEF Browsing!Measured
<1>5. \A p \in Place : p = <<p[1], p[2]>>
  BY DEF Place
<1> QED
  BY <1>1, <1>4, <1>5

LEMMA MeasureFailsKeeps ==
    ASSUME BrowseInv, NEW j \in BrowseJob, Browsing!MeasureFails(j)
    PROVE  BrowseInv'
<1> USE BrowseSets
<1>1. /\ job[j].op = "size" /\ job[j].pc = "run"
      /\ job' = [job EXCEPT ![j].pc = "ended"] /\ row' = [row EXCEPT ![j] = "failed"]
      /\ activeDestinations' = activeDestinations /\ sizes' = sizes
      /\ UNCHANGED <<tree, generation, up>>
  BY DEF Browsing!MeasureFails, Browsing!guards
<1>2. j \notin AtWork /\ Measuring(j) /\ job[j].pc # "none"
  BY <1>1 DEF AtWork, Measuring, Browsing!Writes
<1>3. browseFaults' \in 0 .. BrowseFaults
  BY DEF Browsing!MeasureFails, Browsing!Fault, BrowseInv, RowsType
<1>4. /\ sizes \in [Place -> {None} \union [of : Held, amid : BOOLEAN]]
      /\ tree \in [Place -> Held]
      /\ \A p \in Place : ~WriterOn(j, p[1])
  BY <1>1 DEF BrowseInv, StoreType, WriterOn, Browsing!Writer, Browsing!Writes
<1> QED
  BY <1>1, <1>2, <1>3, <1>4, EndingKeeps

LEMMA MeasureKeeps ==
    ASSUME BrowseInv, NEW j \in BrowseJob, Browsing!Measure(j)
    PROVE  BrowseInv'
<1> USE BrowseSets
<1> DEFINE r == [job[j] EXCEPT !.size = tree[Browsing!Measured(j)], !.pc = "seed"]
<1>1. /\ job[j].op = "size" /\ job[j].pc = "run"
      /\ UNCHANGED <<tree, row, activeDestinations, sizes, generation, up, browseFaults>>
  BY DEF Browsing!Measure, Browsing!guards
<1>2. job' = [job EXCEPT ![j] = r]
  BY DEF Browsing!Measure, BrowseInv, JobsType
<1>3. /\ Browsing!Measured(j) \in Place
      /\ \A n \in job[j].names : Browsing!Measured(j) = <<job[j].dst, n>>
  BY <1>1, MeasuringIs
<1>4. tree[Browsing!Measured(j)] \in Held
  BY <1>3 DEF BrowseInv, StoreType
<1>5. /\ r \in Request /\ Shape(r) /\ r.pc = "seed" /\ r.op = "size" /\ r.dst = job[j].dst
      /\ r.names = job[j].names /\ r.gen = job[j].gen /\ r.amid = job[j].amid
      /\ \A n \in job[j].names : r.size = tree[<<job[j].dst, n>>]
  BY <1>1, <1>3, <1>4 DEF BrowseInv, JobsType, Request, Shape
<1> HIDE DEF r
<1>6. JobsType' /\ job'[j] = r /\ Others(j)
  BY <1>2, <1>5, OneSet DEF BrowseInv
<1>7. RowsType'
  BY <1>1, <1>5, <1>6 DEF BrowseInv, RowsType, Others, Same, Working
<1>8. Guarded'
  <2>1. j \notin AtWork /\ ~(j \in AtWork)'
    BY <1>1, <1>5, <1>6 DEF AtWork, Browsing!Writes
  <2> QED
    BY <1>1, <1>6, <2>1, GuardsKept DEF BrowseInv
<1>9. Numbered' /\ StoreType'
  BY <1>1, NumbersKept DEF BrowseInv, StoreType
<1>10. CacheInv'
  <2>1. /\ Measuring(j)
        /\ \A d : /\ WriterOn(j, d)' <=> WriterOn(j, d)
                  /\ OrphanOn(j, d)' <=> OrphanOn(j, d)
    BY <1>1, <1>5, <1>6 DEF Measuring, WriterOn, OrphanOn, Browsing!Writer, Browsing!Writes,
                            Orphaned
  <2>2. \A k \in BrowseJob \ {j} : Same(k)
    BY <1>6 DEF Others
  <2>3. \A k \in BrowseJob : \A d : /\ WriterOn(k, d)' <=> WriterOn(k, d)
                                    /\ OrphanOn(k, d)' <=> OrphanOn(k, d)
    BY <2>1, <2>2, SameTouches
  <2>4. \A k \in BrowseJob : Measuring(k)' =>
              /\ Measuring(k)
              /\ job'[k].gen = job[k].gen /\ job'[k].amid = job[k].amid
              /\ job'[k].dst = job[k].dst /\ job'[k].names = job[k].names
              /\ job'[k].pc = "seed" =>
                    \/ job[k].pc = "seed" /\ job'[k].size = job[k].size
                    \/ \A n \in job[k].names : job'[k].size = tree'[<<job[k].dst, n>>]
    <3> SUFFICES ASSUME NEW k \in BrowseJob, Measuring(k)'
                 PROVE  /\ Measuring(k)
                        /\ job'[k].gen = job[k].gen /\ job'[k].amid = job[k].amid
                        /\ job'[k].dst = job[k].dst /\ job'[k].names = job[k].names
                        /\ job'[k].pc = "seed" =>
                              \/ job[k].pc = "seed" /\ job'[k].size = job[k].size
                              \/ \A n \in job[k].names : job'[k].size = tree'[<<job[k].dst, n>>]
      OBVIOUS
    <3>1. CASE k = j
      BY <1>1, <1>5, <1>6, <2>1, <3>1
    <3>2. CASE k # j
      BY <2>2, <3>2, SameTouches DEF Same
    <3> QED
      BY <3>1, <3>2
  <2> QED
    BY <1>1, <2>3, <2>4, CacheFrame DEF BrowseInv
<1> QED
  BY <1>6, <1>7, <1>8, <1>9, <1>10 DEF BrowseInv

\* A size is cached only if no write was accepted since its measurement
\* began, so what was measured is there, or a write was under way.
LEMMA SeedKeeps ==
    ASSUME BrowseInv, NEW j \in BrowseJob, Browsing!SeedSize(j)
    PROVE  BrowseInv'
<1> USE BrowseSets
<1> DEFINE q == Browsing!Measured(j)
           e == [of |-> job[j].size, amid |-> job[j].amid]
<1>1. /\ job[j].pc = "seed"
      /\ sizes' = IF Browsing!Seeds(j) THEN [sizes EXCEPT ![q] = e] ELSE sizes
      /\ row' = [row EXCEPT ![j] = "done"] /\ job' = [job EXCEPT ![j].pc = "ended"]
      /\ activeDestinations' = activeDestinations
      /\ UNCHANGED <<tree, generation, up, browseFaults>>
  BY DEF Browsing!SeedSize, Browsing!guards
<1>2. job[j].op = "size" /\ Measuring(j) /\ j \notin AtWork /\ \A d : ~WriterOn(j, d)
  BY <1>1 DEF BrowseInv, JobsType, Shape, Measuring, AtWork, Working, WriterOn, Browsing!Writer,
              Browsing!Writes
<1>3. /\ q \in Place /\ q[1] = job[j].dst
      /\ \A n \in job[j].names : q = <<job[j].dst, n>>
  BY <1>1, <1>2, MeasuringIs
<1>4. e \in [of : Held, amid : BOOLEAN] /\ e.of = job[j].size /\ e.amid = job[j].amid
  BY DEF BrowseInv, JobsType, Request
<1>5. /\ sizes \in [Place -> {None} \union [of : Held, amid : BOOLEAN]]
      /\ tree \in [Place -> Held] /\ browseFaults \in 0 .. BrowseFaults
  BY DEF BrowseInv, StoreType, RowsType
<1> HIDE DEF q, e
<1>6. CASE ~Browsing!Seeds(j)
  BY <1>1, <1>2, <1>5, <1>6, EndingKeeps
<1>7. CASE Browsing!Seeds(j)
  <2>1. sizes' = [sizes EXCEPT ![q] = e]
    BY <1>1, <1>7
  <2>2. /\ JobsType' /\ RowsType' /\ Guarded' /\ Numbered'
        /\ ~Measuring(j)' /\ \A d : ~WriterOn(j, d)' /\ ~OrphanOn(j, d)'
        /\ \A k \in BrowseJob \ {j} : \A d : /\ WriterOn(k, d)' <=> WriterOn(k, d)
                                             /\ OrphanOn(k, d)' <=> OrphanOn(k, d)
        /\ \A k \in BrowseJob : Measuring(k)' => Measuring(k) /\ Same(k)
    BY <1>1, <1>2, <1>5, EndingParts
  <2>3. \A k \in BrowseJob : \A d : /\ WriterOn(k, d)' <=> WriterOn(k, d)
                                    /\ OrphanOn(k, d)' => OrphanOn(k, d)
    BY <1>2, <2>2
  <2>4. StoreType'
    BY <1>1, <1>3, <1>4, <1>5, <2>1 DEF StoreType
  <2>5. ~job[j].amid => Standing(j) /\ \A k \in BrowseJob : ~OrphanOn(k, job[j].dst)
    BY <1>2, <1>7 DEF BrowseInv, CacheInv, Measurements, Browsing!Seeds
  <2>6. ~e.amid => e.of = tree[q] /\ \A k \in BrowseJob : ~OrphanOn(k, q[1])
    <3>1. \E n \in Name : job[j].names = {n}
      BY <1>1, <1>2 DEF BrowseInv, JobsType, Shape
    <3> QED
      BY <1>1, <1>3, <1>4, <2>5, <3>1 DEF Standing
  <2>7. \A p \in Place : sizes'[p] = IF p = q THEN e ELSE sizes[p]
    BY <1>3, <1>5, <2>1
  <2>8. Browsing!SizesFresh'
    <3> SUFFICES ASSUME NEW p \in Place, sizes'[p] # None, ~sizes'[p].amid,
                        \A k \in BrowseJob : ~WriterOn(k, p[1])'
                 PROVE  sizes'[p].of = tree'[p]
      BY DEF Browsing!SizesFresh, WriterOn
    <3>1. CASE p = q
      BY <1>1, <2>6, <2>7, <3>1
    <3>2. CASE p # q
      BY <1>1, <2>3, <2>7, <3>2 DEF BrowseInv, CacheInv, Browsing!SizesFresh, WriterOn
    <3> QED
      BY <3>1, <3>2
  <2>9. OrphansUncached'
    <3> SUFFICES ASSUME NEW k \in BrowseJob, NEW p \in Place, OrphanOn(k, p[1])',
                        sizes'[p] # None
                 PROVE  sizes'[p].amid
      BY DEF OrphansUncached
    <3>1. OrphanOn(k, p[1])
      BY <2>3
    <3>2. CASE p = q
      BY <2>6, <2>7, <3>1, <3>2
    <3>3. CASE p # q
      BY <2>7, <3>1, <3>3 DEF BrowseInv, CacheInv, OrphansUncached
    <3> QED
      BY <3>2, <3>3
  <2>10. Measurements'
    <3> SUFFICES ASSUME NEW k \in BrowseJob, Measuring(k)'
                 PROVE  /\ job'[k].gen <= generation'
                        /\ ~job'[k].amid =>
                              /\ \A o \in BrowseJob : ~OrphanOn(o, job[k].dst)'
                              /\ generation' <= job'[k].gen => Standing(k)'
      BY DEF Measurements
    <3>1. Measuring(k) /\ Same(k)
      BY <2>2
    <3>2. /\ job[k].gen <= generation
          /\ ~job[k].amid => /\ \A o \in BrowseJob : ~OrphanOn(o, job[k].dst)
                             /\ generation <= job[k].gen => Standing(k)
      BY <3>1 DEF BrowseInv, CacheInv, Measurements
    <3>3. ~job[k].amid => \A o \in BrowseJob : ~OrphanOn(o, job[k].dst)'
      BY <2>3, <3>1, <3>2 DEF Same
    <3>4. Standing(k) => Standing(k)'
      BY <1>1, <2>3, <3>1 DEF Standing, Same
    <3> QED
      BY <1>1, <3>1, <3>2, <3>3, <3>4 DEF Same
  <2> QED
    BY <2>2, <2>4, <2>8, <2>9, <2>10 DEF BrowseInv, CacheInv
<1> QED
  BY <1>6, <1>7

LEMMA ExpireKeeps ==
    ASSUME BrowseInv, NEW p \in Place, Browsing!ExpireSize(p)
    PROVE  BrowseInv'
<1>1. /\ sizes' = [sizes EXCEPT ![p] = None]
      /\ UNCHANGED <<tree, row, job, activeDestinations, generation, up, browseFaults>>
  BY DEF Browsing!ExpireSize, Browsing!guards
<1>2. JobsType' /\ RowsType' /\ Guarded' /\ Numbered'
  BY <1>1 DEF BrowseInv, JobsType, RowsType, Guarded, AtWork, Numbered
<1>3. /\ StoreType'
      /\ \A q \in Place : sizes'[q] \in {None, sizes[q]}
  BY <1>1 DEF BrowseInv, StoreType
<1>4. \A k : Measuring(k)' = Measuring(k) /\ \A d : /\ WriterOn(k, d)' = WriterOn(k, d)
                                                    /\ OrphanOn(k, d)' = OrphanOn(k, d)
  BY <1>1 DEF Measuring, WriterOn, OrphanOn, Browsing!Writer, Browsing!Live, Browsing!Touches
<1>5. CacheInv'
  BY <1>1, <1>3, <1>4, CacheFrame DEF BrowseInv
<1> QED
  BY <1>2, <1>3, <1>5 DEF BrowseInv

-----------------------------------------------------------------------------
(* The server dies and boots.                                              *)

\* Guards and cache die with the server, and with them what is said of them.
LEMMA CrashKeeps ==
    ASSUME BrowseInv, Browsing!CrashServer
    PROVE  BrowseInv'
<1> USE BrowseSets
<1>1. /\ up' = FALSE /\ browseFaults' \in 0 .. BrowseFaults
      /\ activeDestinations' = {} /\ sizes' = [p \in Place |-> None] /\ generation' = 0
      /\ UNCHANGED <<tree, row>>
  BY DEF Browsing!CrashServer, Browsing!Fault, BrowseInv, RowsType
<1> DEFINE Becomes(j) ==
      CASE job[j].pc = "run" /\ job[j].op \in Browsing!Writes /\ job[j].todo # {} ->
             [job[j] EXCEPT !.pc = "orphan"]
        [] job[j].pc = "drain" /\ job[j].todo # {} -> [job[j] EXCEPT !.pc = "orphanDrain"]
        [] OTHER -> IF Browsing!Live(j) THEN [job[j] EXCEPT !.pc = "ended"] ELSE job[j]
<1>2. job' = [j \in BrowseJob |-> Becomes(j)]
  BY DEF Browsing!CrashServer
<1>3. ASSUME NEW j \in BrowseJob
      PROVE  /\ Becomes(j) \in Request /\ Shape(Becomes(j))
             /\ Becomes(j).pc \in Orphaned \union {"none", "ended"}
             /\ Becomes(j).pc = "none" <=> job[j].pc = "none"
  <2>1. job[j] \in Request /\ Shape(job[j])
    BY DEF BrowseInv, JobsType
  <2>2. CASE job[j].pc = "run" /\ job[j].op \in Browsing!Writes /\ job[j].todo # {}
    <3>1. Becomes(j) = [job[j] EXCEPT !.pc = "orphan"]
      BY <2>2
    <3> QED
      BY <2>1, <2>2, <3>1 DEF Request, Shape, Orphaned
  <2>3. CASE job[j].pc = "drain" /\ job[j].todo # {}
    <3>1. Becomes(j) = [job[j] EXCEPT !.pc = "orphanDrain"]
      BY <2>3
    <3> QED
      BY <2>1, <2>3, <3>1 DEF Request, Shape, Orphaned
  <2>4. CASE /\ ~(job[j].pc = "run" /\ job[j].op \in Browsing!Writes /\ job[j].todo # {})
             /\ ~(job[j].pc = "drain" /\ job[j].todo # {})
    <3>1. Becomes(j) = IF Browsing!Live(j) THEN [job[j] EXCEPT !.pc = "ended"] ELSE job[j]
      BY <2>4
    <3> QED
      BY <2>1, <3>1 DEF Request, Shape, Browsing!Live
  <2> QED
    BY <2>2, <2>3, <2>4
<1> HIDE DEF Becomes
<1>4. /\ JobsType'
      /\ \A j \in BrowseJob : /\ job'[j].pc \in Orphaned \union {"none", "ended"}
                              /\ job'[j].pc = "none" <=> job[j].pc = "none"
  BY <1>2, <1>3 DEF JobsType
<1>5. RowsType'
  BY <1>1, <1>4 DEF BrowseInv, RowsType, Working, Orphaned
<1>6. Guarded'
  <2>1. AtWork' = {}
    BY <1>4 DEF AtWork, Working, Orphaned
  <2> QED
    BY <1>1, <2>1 DEF Guarded
<1>7. Numbered'
  <2>1. PICK n \in 0 .. MaxJobs : \A j \in BrowseJob : row[j] # "none" <=> j <= n
    BY DEF BrowseInv, Numbered
  <2>2. 0 \in 0 .. 2 * n
    OBVIOUS
  <2> QED
    BY <1>1, <2>1, <2>2 DEF Numbered
<1>8. StoreType'
  BY <1>1 DEF BrowseInv, StoreType
<1>9. CacheInv'
  BY <1>1, <1>4 DEF CacheInv, Browsing!SizesFresh, OrphansUncached, Measurements, Measuring, Orphaned
<1> QED
  BY <1>4, <1>5, <1>6, <1>7, <1>8, <1>9 DEF BrowseInv

\* A process of a dead server ends, having written or not.
LEMMA OrphanKeeps ==
    ASSUME BrowseInv, NEW j \in BrowseJob, Browsing!OrphanEnds(j)
    PROVE  BrowseInv'
<1> USE BrowseSets
<1> DEFINE r == [job[j] EXCEPT !.pc = "ended"]
<1>1. /\ job[j].pc \in Orphaned /\ Browsing!Advance(j, r, Browsing!Changed)
      /\ UNCHANGED <<row, activeDestinations, sizes, generation, up, browseFaults>>
  BY DEF Browsing!OrphanEnds, Browsing!guards, Orphaned
<1>2. /\ job[j] \in Request /\ Shape(job[j]) /\ tree \in [Place -> Held]
  BY DEF BrowseInv, JobsType, StoreType
<1>3. /\ r \in Request /\ Shape(r) /\ r.pc = "ended"
      /\ job[j].op \in Browsing!Writes /\ job[j].pc # "none"
  BY <1>1, <1>2 DEF Request, Shape, Orphaned, Browsing!Writes
<1> HIDE DEF r
<1>4. JobsType' /\ job'[j] = r /\ Others(j)
  <2>1. Browsing!Changed \in SUBSET Place
    BY DEF Browsing!Changed
  <2> HIDE DEF Browsing!Changed
  <2> QED
    BY <1>1, <1>3, <2>1, OneAdvances DEF BrowseInv
<1>5. /\ tree' \in [Place -> Held]
      /\ \A p \in Place : tree'[p] # tree[p] => p[1] \in Browsing!Touches(j)
  <2>1. CASE \E n \in job[j].todo : tree' = Browsing!Written(j, n)
    BY <1>2, <1>3, <2>1, WrittenWithin DEF Shape
  <2>2. CASE /\ job[j].pc = "orphanDrain"
             /\ \E n \in job[j].todo : tree' = [tree EXCEPT ![<<job[j].src, n>>] = None]
    <3>1. job[j].op = "move"
      BY <1>2, <2>2 DEF Shape
    <3> QED
      BY <1>2, <1>3, <2>2, <3>1, DrainWithin DEF Shape
  <2>3. CASE tree' = tree
    BY <1>2, <2>3
  <2> QED
    BY <2>1, <2>2, <2>3 DEF Browsing!OrphanEnds
<1>6. RowsType'
  BY <1>1, <1>3, <1>4 DEF BrowseInv, RowsType, Others, Same, Working
<1>7. Guarded'
  <2>1. j \notin AtWork /\ ~(j \in AtWork)'
    BY <1>1, <1>3, <1>4 DEF AtWork, Working, Orphaned
  <2> QED
    BY <1>1, <1>4, <2>1, GuardsKept DEF BrowseInv
<1>8. Numbered'
  BY <1>1, NumbersKept DEF BrowseInv
<1>9. StoreType'
  BY <1>1, <1>5 DEF BrowseInv, StoreType
<1>10. CacheInv'
  <2>1. /\ ~Measuring(j)' /\ \A d : ~WriterOn(j, d)' /\ ~OrphanOn(j, d)'
    BY <1>3, <1>4 DEF Measuring, WriterOn, OrphanOn, Browsing!Writer, Browsing!Live, Orphaned
  <2>2. \A k \in BrowseJob \ {j} : Same(k)
    BY <1>4 DEF Others
  <2>3. \A k \in BrowseJob \ {j} : \A d : /\ WriterOn(k, d)' <=> WriterOn(k, d)
                                          /\ OrphanOn(k, d)' <=> OrphanOn(k, d)
    BY <2>2, SameTouches
  <2>4. \A k \in BrowseJob : Measuring(k)' => Measuring(k) /\ Same(k)
    BY <2>1, <2>2, SameTouches
  <2>5. \A p \in Place : WriterOn(j, p[1]) /\ sizes'[p] # None => sizes'[p].amid
    BY <1>1 DEF BrowseInv, CacheInv, OrphansUncached, OrphanOn, WriterOn
  <2>6. \A p \in Place : tree'[p] # tree[p] => WriterOn(j, p[1])
    BY <1>1, <1>3, <1>5 DEF WriterOn, Browsing!Writer, Browsing!Live, Orphaned
  <2>7. \A k \in BrowseJob : \A p \in Place :
           /\ WriterOn(k, p[1])' => WriterOn(k, p[1])
           /\ WriterOn(k, p[1]) /\ ~WriterOn(k, p[1])' /\ sizes'[p] # None => sizes'[p].amid
           /\ OrphanOn(k, p[1])' => OrphanOn(k, p[1])
    BY <2>1, <2>3, <2>5
  <2> QED
    BY <1>1, <2>4, <2>6, <2>7, CacheFrame DEF BrowseInv, Same
<1> QED
  BY <1>4, <1>6, <1>7, <1>8, <1>9, <1>10 DEF BrowseInv

LEMMA BootKeeps ==
    ASSUME BrowseInv, Browsing!Boot
    PROVE  BrowseInv'
<1> USE BrowseSets
<1>1. /\ ~up /\ up' = TRUE
      /\ row' = [j \in BrowseJob |-> IF row[j] = "running" THEN "failed" ELSE row[j]]
      /\ UNCHANGED <<tree, job, activeDestinations, sizes, generation, browseFaults>>
  BY DEF Browsing!Boot, Browsing!Reconciled, Browsing!guards
<1>2. \A j \in BrowseJob : row'[j] = "none" <=> row[j] = "none"
  BY <1>1
<1>3. JobsType' /\ Guarded' /\ StoreType'
  BY <1>1 DEF BrowseInv, JobsType, Guarded, AtWork, StoreType
<1>4. RowsType'
  BY <1>1, <1>2 DEF BrowseInv, RowsType
<1>5. Numbered'
  BY <1>1, <1>2, NumbersKept DEF BrowseInv
<1>6. CacheInv'
  BY <1>1 DEF BrowseInv, CacheInv, Browsing!SizesFresh, OrphansUncached, Measurements, Measuring,
              Standing, OrphanOn, WriterOn, Browsing!Writer, Browsing!Live, Browsing!Touches
<1> QED
  BY <1>3, <1>4, <1>5, <1>6 DEF BrowseInv

-----------------------------------------------------------------------------
LEMMA BrowseStepKeeps ==
    ASSUME BrowseInv, [Browsing!Next]_browseVars
    PROVE  BrowseInv'
<1> USE BrowseSets
<1>1. ASSUME NEW j \in BrowseJob,
             \/ Browsing!CopyMove(j) \/ Browsing!Rename(j) \/ Browsing!Delete(j)
             \/ Browsing!Create(j)
      PROVE  BrowseInv'
  BY <1>1, RequestsKeep
<1>2. ASSUME NEW j \in BrowseJob, Browsing!Size(j) PROVE BrowseInv'
  BY <1>2, SizeKeeps
<1>3. ASSUME NEW j \in BrowseJob, Browsing!JobStep(j) PROVE BrowseInv'
  BY <1>3, RunKeeps, DrainKeeps, EndKeeps, MeasureKeeps, SeedKeeps, MeasureFailsKeeps
     DEF Browsing!JobStep
<1>4. ASSUME NEW j \in BrowseJob, Browsing!OrphanEnds(j) PROVE BrowseInv'
  BY <1>4, OrphanKeeps
<1>5. ASSUME NEW p \in Place, Browsing!ExpireSize(p) PROVE BrowseInv'
  BY <1>5, ExpireKeeps
<1>6. ASSUME Browsing!CrashServer \/ Browsing!Boot PROVE BrowseInv'
  BY <1>6, CrashKeeps, BootKeeps
<1>7. ASSUME UNCHANGED browseVars PROVE BrowseInv'
  BY <1>7
     DEF browseVars, BrowseInv, JobsType, RowsType, Guarded, AtWork, Numbered, StoreType, CacheInv,
         Browsing!SizesFresh, OrphansUncached, Measurements, Measuring, Standing, OrphanOn, WriterOn,
         Browsing!Writer, Browsing!Live, Browsing!Touches
<1> QED
  BY <1>1, <1>2, <1>3, <1>4, <1>5, <1>6, <1>7 DEF Browsing!Next

JobsInv == QueueInv /\ BrowseInv

LEMMA JobsInvStep == JobsInv /\ [JobsNext]_jobsVars => JobsInv'
<1> SUFFICES ASSUME JobsInv, [JobsNext]_jobsVars PROVE JobsInv'
  OBVIOUS
<1>1. [Next]_vars
  BY DEF JobsNext, ActionsStep, BrowseStep, jobsVars
<1>2. [Browsing!Next]_browseVars
  BY DEF JobsNext, ActionsStep, BrowseStep, jobsVars
<1> QED
  BY <1>1, <1>2, QueueInvStep, BrowseStepKeeps DEF JobsInv

\* The two tables of work keep their types; no two accepted jobs of the data
\* browser write into one destination (activeDestinations, the rows asked by
\* findActiveJob); and where nothing writes a cached size is what is there,
\* unless it was measured during a write (writeGeneration, seedPrefixSize,
\* dropFolderPrefixSizes): whatever requests, failures, deaths of the server
\* and processes it leaves behind follow each other.
THEOREM JobsSafe == JobsSpec => []JobsInvariant
<1>1. JobsInit => JobsInv
  BY QueueInvInit, BrowseStart DEF JobsInit, JobsInv
<1>2. JobsInv /\ [JobsNext]_jobsVars => JobsInv'
  BY JobsInvStep
<1>3. JobsInv => JobsInvariant
  BY BrowseChecked DEF JobsInv, JobsInvariant, QueueInv
<1> QED
  BY <1>1, <1>2, <1>3, PTL DEF JobsSpec

-----------------------------------------------------------------------------
(* Moves.                                                                  *)

\* What a move copied it has in both places, until it drained the source or
\* another job wrote there.
Copied(j) == IF job[j].pc = "run" THEN job[j].names \ job[j].todo ELSE job[j].names

Moving(j) == job[j].op = "move" /\ job[j].pc \in Working \union {"orphanDrain"}

Safe(j, n) ==
    LET from == <<job[j].src, n>> to == <<job[j].dst, n>>
    IN  {from, to} \intersect job[j].raced # {} \/ tree[from] \in {None, tree[to]}

MovesInv == \A j \in BrowseJob : Moving(j) => \A n \in Copied(j) : Safe(j, n)

\* A change of the tree is noted by every other live job.
LEMMA ChangeNoted ==
    ASSUME BrowseInv, NEW j \in BrowseJob, NEW r, Browsing!Advance(j, r, Browsing!Changed),
           MovesInv, NEW k \in BrowseJob, k # j, Moving(k)'
    PROVE  \A n \in Copied(k)' : Safe(k, n)'
<1> USE BrowseSets
<1>1. job'[k] = IF Browsing!Live(k) THEN [job[k] EXCEPT !.raced = @ \union Browsing!Changed]
                                    ELSE job[k]
  BY DEF Browsing!Advance
<1>2. job[k] \in Request /\ Shape(job[k])
  BY DEF BrowseInv, JobsType
<1>3. Same(k)
  BY <1>1, <1>2 DEF Same, Request
<1>4. Moving(k) /\ Copied(k)' = Copied(k) /\ Browsing!Live(k)
  BY <1>3 DEF Same, Moving, Copied, Browsing!Live, Working
<1>5. job'[k].raced = job[k].raced \union {p \in Place : tree'[p] # tree[p]}
  BY <1>1, <1>2, <1>4 DEF Browsing!Changed, Request
<1> SUFFICES ASSUME NEW n \in Copied(k) PROVE Safe(k, n)'
  BY <1>4
<1>6. Safe(k, n)
  BY <1>4 DEF MovesInv
<1>7. <<job[k].src, n>> \in Place /\ <<job[k].dst, n>> \in Place
  BY <1>2, <1>4 DEF Copied, Moving, Shape, Request, Place, Working
<1> QED
  BY <1>3, <1>5, <1>6, <1>7 DEF Safe, Same

\* Nothing is written, and no job has copied more than before.
LEMMA MovesKept ==
    ASSUME MovesInv, tree' = tree,
           \A k \in BrowseJob : Moving(k)' =>
              \/ Copied(k)' = {}
              \/ /\ Moving(k) /\ Copied(k)' \subseteq Copied(k)
                 /\ job'[k].src = job[k].src /\ job'[k].dst = job[k].dst
                 /\ job'[k].raced = job[k].raced
    PROVE  MovesInv'
<1> SUFFICES ASSUME NEW k \in BrowseJob, Moving(k)', NEW n \in Copied(k)' PROVE Safe(k, n)'
  BY DEF MovesInv
<1>1. /\ Moving(k) /\ n \in Copied(k)
      /\ job'[k].src = job[k].src /\ job'[k].dst = job[k].dst /\ job'[k].raced = job[k].raced
  OBVIOUS
<1>2. Safe(k, n)
  BY <1>1 DEF MovesInv
<1> QED
  BY <1>1, <1>2 DEF Safe

\* The step replaces job j by r: another request, or one that goes on as it is.
LEMMA MoveSet ==
    ASSUME BrowseInv, MovesInv, NEW j \in BrowseJob, NEW r,
           job' = [job EXCEPT ![j] = r], tree' = tree,
           r.op # "move" \/ r.pc \notin Working \/ (r.pc = "run" /\ r.todo = r.names)
    PROVE  r.pc # "orphanDrain" => MovesInv'
<1>1. job'[j] = r /\ \A k \in BrowseJob \ {j} : job'[k] = job[k]
  BY DEF BrowseInv, JobsType
<1> SUFFICES ASSUME r.pc # "orphanDrain" PROVE MovesInv'
  OBVIOUS
<1>2. Moving(j)' => Copied(j)' = {}
  BY <1>1 DEF Moving, Copied, Working
<1>3. \A k \in BrowseJob \ {j} : Moving(k)' => Moving(k) /\ Copied(k)' = Copied(k)
  BY <1>1 DEF Moving, Copied
<1> QED
  BY <1>1, <1>2, <1>3, MovesKept

LEMMA RequestsMove ==
    ASSUME BrowseInv, MovesInv, NEW j \in BrowseJob,
           \/ Browsing!CopyMove(j) \/ Browsing!Rename(j) \/ Browsing!Delete(j)
           \/ Browsing!Create(j) \/ Browsing!Size(j)
    PROVE  MovesInv'
<1> USE BrowseSets
<1>1. CASE Browsing!Size(j)
  <2>1. PICK d \in Dir, n \in Name :
           job' = [job EXCEPT ![j] =
                     [Browsing!Request("size", d, d, {n}, None) EXCEPT
                        !.gen = generation,
                        !.amid = \E k \in BrowseJob : WriterOn(k, d)]]
    BY <1>1 DEF Browsing!Size, WriterOn
  <2> DEFINE r == [Browsing!Request("size", d, d, {n}, None) EXCEPT
                     !.gen = generation, !.amid = \E k \in BrowseJob : WriterOn(k, d)]
  <2>2. r.op = "size" /\ r.pc = "run"
    BY DEF Browsing!Request, Browsing!NoJob
  <2>3. tree' = tree /\ job' = [job EXCEPT ![j] = r]
    BY <1>1, <2>1 DEF Browsing!Size
  <2> HIDE DEF r
  <2> QED
    BY <2>2, <2>3, MoveSet
<1>2. CASE ~Browsing!Size(j)
  <2>1. PICK op, src, dst, names, to :
           Browsing!StartWrite(j, Browsing!Request(op, src, dst, names, to))
    BY <1>2 DEF Browsing!CopyMove, Browsing!Rename, Browsing!Delete, Browsing!Create
  <2> DEFINE r == Browsing!Request(op, src, dst, names, to)
             e == [r EXCEPT !.pc = "ended"]
  <2>2. r.pc = "run" /\ r.todo = r.names /\ e.pc = "ended"
    BY DEF Browsing!Request, Browsing!NoJob
  <2>3. tree' = tree /\ (job' = [job EXCEPT ![j] = r] \/ job' = [job EXCEPT ![j] = e])
    BY <2>1 DEF Browsing!StartWrite, Browsing!Refused
  <2> HIDE DEF r, e
  <2>4. e.pc \notin Working /\ r.pc # "orphanDrain" /\ e.pc # "orphanDrain"
    BY <2>2 DEF Working
  <2> QED
    BY <2>2, <2>3, <2>4, MoveSet
<1> QED
  BY <1>1, <1>2

\* One process of job j: what it writes is safe for its own move.
LEMMA EntryMoves ==
    ASSUME BrowseInv, MovesInv, NEW j \in BrowseJob, NEW r,
           Browsing!Advance(j, r, Browsing!Changed),
           Moving(j)' => \A n \in Copied(j)' : Safe(j, n)'
    PROVE  MovesInv'
  BY ChangeNoted DEF MovesInv

LEMMA RunMoves ==
    ASSUME BrowseInv, MovesInv, NEW j \in BrowseJob, NEW n \in Name, Browsing!RunEntry(j, n)
    PROVE  MovesInv'
<1> USE BrowseSets
<1> DEFINE todo == job[j].todo \ {n}
           r == [job[j] EXCEPT !.todo = IF Browsing!Drains(j, todo) THEN job[j].names ELSE todo,
                               !.pc = IF Browsing!Drains(j, todo) THEN "drain" ELSE "run"]
<1>1. /\ job[j].pc = "run" /\ job[j].op \in Browsing!Writes /\ n \in job[j].todo
      /\ Browsing!Present(j, n)
      /\ tree' = Browsing!Written(j, n) /\ Browsing!Advance(j, r, Browsing!Changed)
  BY DEF Browsing!RunEntry
<1>2. /\ job[j] \in Request /\ Shape(job[j]) /\ tree \in [Place -> Held]
  BY DEF BrowseInv, JobsType, StoreType
<1>3. job'[j] = r
  BY <1>1 DEF Browsing!Advance
<1>4. Browsing!Drains(j, todo) => todo = {}
  BY DEF Browsing!Drains
<1>5. /\ r.op = job[j].op /\ r.src = job[j].src /\ r.dst = job[j].dst /\ r.raced = job[j].raced
      /\ r.names = job[j].names
      /\ (r.pc = "run" /\ r.todo = todo) \/ (r.pc = "drain" /\ todo = {})
  BY <1>2, <1>4 DEF Request
<1> HIDE DEF todo, r
<1>6. ASSUME Moving(j)', NEW m \in Copied(j)' PROVE Safe(j, m)'
  <2>1. job[j].op = "move" /\ Moving(j) /\ m \in job[j].names \ todo
    BY <1>1, <1>3, <1>5, <1>6 DEF Moving, Copied, Working
  <2>2. /\ job[j].src # job[j].dst /\ job[j].src \in Dir /\ job[j].dst \in Dir
        /\ m \in Name /\ n \in job[j].names
    BY <1>1, <1>2, <2>1 DEF Shape, Request
  <2>3. tree' = [tree EXCEPT ![<<job[j].dst, n>>] = tree[<<job[j].src, n>>]]
    BY <1>1, <2>1 DEF Browsing!Written
  <2>4. /\ <<job[j].dst, n>> \in Place /\ <<job[j].src, m>> \in Place
        /\ <<job[j].dst, m>> \in Place /\ <<job[j].src, m>> # <<job[j].dst, n>>
    BY <2>2 DEF Place
  <2>5. tree'[<<job[j].src, m>>] = tree[<<job[j].src, m>>]
    BY <1>2, <2>3, <2>4
  <2>6. CASE m = n
    <3>1. tree'[<<job[j].dst, m>>] = tree[<<job[j].src, m>>]
      BY <1>2, <2>3, <2>4, <2>6
    <3> QED
      BY <1>3, <1>5, <2>5, <3>1 DEF Safe
  <2>7. CASE m # n
    <3>1. Safe(j, m)
      BY <1>1, <2>1, <2>7 DEF MovesInv, Copied, todo
    <3>2. tree'[<<job[j].dst, m>>] = tree[<<job[j].dst, m>>]
      BY <1>2, <2>3, <2>4, <2>7
    <3> QED
      BY <1>3, <1>5, <2>5, <3>1, <3>2 DEF Safe
  <2> QED
    BY <2>6, <2>7
<1> QED
  BY <1>1, <1>6, EntryMoves

LEMMA DrainMoves ==
    ASSUME BrowseInv, MovesInv, NEW j \in BrowseJob, NEW n \in Name, Browsing!DrainEntry(j, n)
    PROVE  MovesInv'
<1> USE BrowseSets
<1> DEFINE r == [job[j] EXCEPT !.todo = @ \ {n}]
<1>1. /\ job[j].pc = "drain" /\ n \in job[j].todo
      /\ tree' = [tree EXCEPT ![<<job[j].src, n>>] = None]
      /\ Browsing!Advance(j, r, Browsing!Changed)
  BY DEF Browsing!DrainEntry
<1>2. job[j] \in Request /\ Shape(job[j]) /\ tree \in [Place -> Held]
  BY DEF BrowseInv, JobsType, StoreType
<1>3. job'[j] = r
  BY <1>1 DEF Browsing!Advance
<1>4. /\ r.op = job[j].op /\ r.src = job[j].src /\ r.dst = job[j].dst /\ r.raced = job[j].raced
      /\ r.names = job[j].names /\ r.pc = job[j].pc
  BY <1>2 DEF Request
<1> HIDE DEF r
<1>5. ASSUME Moving(j)', NEW m \in Copied(j)' PROVE Safe(j, m)'
  <2>1. Moving(j) /\ m \in job[j].names /\ m \in Copied(j)
    BY <1>1, <1>3, <1>4, <1>5 DEF Moving, Copied
  <2>2. /\ job[j].src # job[j].dst /\ job[j].src \in Dir /\ job[j].dst \in Dir
        /\ m \in Name
    BY <1>1, <1>2, <2>1 DEF Shape, Request, Moving
  <2>3. /\ <<job[j].src, n>> \in Place /\ <<job[j].src, m>> \in Place
        /\ <<job[j].dst, m>> \in Place /\ <<job[j].dst, m>> # <<job[j].src, n>>
    BY <2>2 DEF Place
  <2>4. tree'[<<job[j].dst, m>>] = tree[<<job[j].dst, m>>]
    BY <1>1, <1>2, <2>3
  <2>5. tree'[<<job[j].src, m>>] \in {None, tree[<<job[j].src, m>>]}
    BY <1>1, <1>2, <2>3
  <2>6. Safe(j, m)
    BY <2>1 DEF MovesInv
  <2> QED
    BY <1>3, <1>4, <2>4, <2>5, <2>6 DEF Safe
<1> QED
  BY <1>1, <1>5, EntryMoves

LEMMA MoveStepKeeps ==
    ASSUME BrowseInv, MovesInv, [Browsing!Next]_browseVars
    PROVE  MovesInv'
<1> USE BrowseSets
<1>1. ASSUME NEW j \in BrowseJob,
             \/ Browsing!CopyMove(j) \/ Browsing!Rename(j) \/ Browsing!Delete(j)
             \/ Browsing!Create(j) \/ Browsing!Size(j)
      PROVE  MovesInv'
  BY <1>1, RequestsMove
<1>2. ASSUME NEW j \in BrowseJob, NEW n \in Name,
             Browsing!RunEntry(j, n) \/ Browsing!DrainEntry(j, n)
      PROVE  MovesInv'
  BY <1>2, RunMoves, DrainMoves
<1>3. ASSUME NEW j \in BrowseJob, NEW s \in {"ended", "seed"}, NEW z,
             tree' = tree,
             job' = [job EXCEPT ![j] = [@ EXCEPT !.size = z, !.pc = s]]
             \/ job' = [job EXCEPT ![j] = [@ EXCEPT !.pc = s]]
      PROVE  MovesInv'
  <2> DEFINE r == [job[j] EXCEPT !.size = z, !.pc = s]
             e == [job[j] EXCEPT !.pc = s]
  <2>1. job[j] \in Request
    BY DEF BrowseInv, JobsType
  <2>2. r.pc = s /\ e.pc = s
    BY <2>1 DEF Request
  <2>3. job' = [job EXCEPT ![j] = r] \/ job' = [job EXCEPT ![j] = e]
    BY <1>3
  <2> HIDE DEF r, e
  <2>4. /\ r.pc \notin Working /\ r.pc # "orphanDrain"
        /\ e.pc \notin Working /\ e.pc # "orphanDrain"
    BY <2>2 DEF Working
  <2> QED
    BY <1>3, <2>3, <2>4, MoveSet
<1>4. ASSUME NEW j \in BrowseJob,
             \/ Browsing!Finish(j) \/ Browsing!Fail(j) \/ Browsing!SeedSize(j)
             \/ Browsing!MeasureFails(j) \/ Browsing!Measure(j)
      PROVE  MovesInv'
  <2>1. CASE Browsing!Measure(j)
    BY <1>3, <2>1 DEF Browsing!Measure
  <2>2. CASE ~Browsing!Measure(j)
    <3>1. tree' = tree /\ job' = [job EXCEPT ![j] = [@ EXCEPT !.pc = "ended"]]
      BY <1>4, <2>2 DEF Browsing!Finish, Browsing!Fail, Browsing!End, Browsing!SeedSize,
                        Browsing!MeasureFails
    <3> QED
      BY <1>3, <3>1
  <2> QED
    BY <2>1, <2>2
<1>5. ASSUME NEW j \in BrowseJob, Browsing!OrphanEnds(j) PROVE MovesInv'
  <2> DEFINE r == [job[j] EXCEPT !.pc = "ended"]
  <2>1. Browsing!Advance(j, r, Browsing!Changed)
    BY <1>5 DEF Browsing!OrphanEnds
  <2>2. job'[j] = r /\ job[j] \in Request
    BY <2>1 DEF Browsing!Advance, BrowseInv, JobsType
  <2>3. ~Moving(j)'
    BY <2>2 DEF Moving, Working, Request
  <2> HIDE DEF r
  <2> QED
    BY <2>1, <2>3, EntryMoves
<1>6. ASSUME Browsing!CrashServer PROVE MovesInv'
  <2>1. ASSUME NEW k \in BrowseJob, Moving(k)'
        PROVE  /\ Moving(k) /\ Copied(k)' = Copied(k)
               /\ job'[k].src = job[k].src /\ job'[k].dst = job[k].dst
               /\ job'[k].raced = job[k].raced
    <3>1. job[k] \in Request
      BY DEF BrowseInv, JobsType
    <3>2. \/ job'[k] = [job[k] EXCEPT !.pc = "orphan"]
          \/ job[k].pc = "drain" /\ job'[k] = [job[k] EXCEPT !.pc = "orphanDrain"]
          \/ job'[k] = [job[k] EXCEPT !.pc = "ended"]
          \/ ~Browsing!Live(k) /\ job'[k] = job[k]
      BY <1>6 DEF Browsing!CrashServer
    <3> QED
      BY <2>1, <3>1, <3>2 DEF Moving, Copied, Working, Request, Browsing!Live
  <2>2. tree' = tree
    BY <1>6 DEF Browsing!CrashServer
  <2> QED
    BY <2>1, <2>2, MovesKept
<1>7. ASSUME Browsing!Boot \/ (\E p \in Place : Browsing!ExpireSize(p)) \/ UNCHANGED browseVars
      PROVE  MovesInv'
  <2>1. job' = job /\ tree' = tree
    BY <1>7 DEF Browsing!Boot, Browsing!ExpireSize, browseVars
  <2> QED
    BY <2>1 DEF MovesInv, Moving, Copied, Safe
<1> QED
  BY <1>1, <1>2, <1>4, <1>5, <1>6, <1>7 DEF Browsing!Next, Browsing!JobStep

NothingLost ==
    \A j \in Browsing!Job : job[j].pc \in {"drain", "orphanDrain"} =>
          \A n \in job[j].names :
             LET from == <<job[j].src, n>> to == <<job[j].dst, n>>
             IN  (tree[from] # None /\ tree'[from] = None /\ from \notin job'[j].raced)
                     => to \in job[j].raced \/ tree[to] = tree[from]

\* The tree changes by a process, and what was noted stays noted.
LEMMA ChangeKeepsNotes ==
    ASSUME BrowseInv, [Browsing!Next]_browseVars, tree' # tree, NEW j \in BrowseJob
    PROVE  job[j].raced \subseteq job'[j].raced
<1> USE BrowseSets
<1>1. \A k \in BrowseJob : job[k] \in Request
  BY DEF BrowseInv, JobsType
<1>2. PICK i \in BrowseJob :
         \/ Browsing!OrphanEnds(i)
         \/ \E n \in Name : Browsing!RunEntry(i, n) \/ Browsing!DrainEntry(i, n)
  <2>1. ASSUME NEW k \in BrowseJob,
               \/ Browsing!CopyMove(k) \/ Browsing!Rename(k) \/ Browsing!Delete(k)
               \/ Browsing!Create(k) \/ Browsing!Size(k)
        PROVE  FALSE
    <3>1. CASE Browsing!Size(k)
      BY <3>1 DEF Browsing!Size
    <3>2. CASE ~Browsing!Size(k)
      <4>1. PICK r : Browsing!StartWrite(k, r)
        BY <2>1, <3>2
           DEF Browsing!CopyMove, Browsing!Rename, Browsing!Delete, Browsing!Create
      <4> QED
        BY <4>1 DEF Browsing!StartWrite, Browsing!Refused
    <3> QED
      BY <3>1, <3>2
  <2>2. ASSUME NEW k \in BrowseJob,
               \/ Browsing!Finish(k) \/ Browsing!Fail(k) \/ Browsing!Measure(k)
               \/ Browsing!SeedSize(k) \/ Browsing!MeasureFails(k)
        PROVE  FALSE
    BY <2>2 DEF Browsing!Finish, Browsing!Fail, Browsing!End, Browsing!Measure,
                Browsing!SeedSize, Browsing!MeasureFails
  <2>3. ASSUME \/ \E p \in Place : Browsing!ExpireSize(p)
               \/ Browsing!CrashServer \/ Browsing!Boot \/ UNCHANGED browseVars
        PROVE  FALSE
    BY <2>3 DEF Browsing!ExpireSize, Browsing!CrashServer, Browsing!Boot, browseVars
  <2> QED
    BY <2>1, <2>2, <2>3 DEF Browsing!Next, Browsing!JobStep
<1>3. \E r \in Request : r.raced = job[i].raced /\ Browsing!Advance(i, r, Browsing!Changed)
  <2>1. CASE Browsing!OrphanEnds(i)
    <3> DEFINE r == [job[i] EXCEPT !.pc = "ended"]
    <3>1. r \in Request /\ r.raced = job[i].raced
      BY <1>1 DEF Request
    <3>2. Browsing!Advance(i, r, Browsing!Changed)
      BY <2>1 DEF Browsing!OrphanEnds
    <3> HIDE DEF r
    <3> QED
      BY <3>1, <3>2
  <2>2. CASE \E n \in Name : Browsing!DrainEntry(i, n)
    <3>1. PICK n \in Name : Browsing!DrainEntry(i, n)
      BY <2>2
    <3> DEFINE r == [job[i] EXCEPT !.todo = @ \ {n}]
    <3>2. r \in Request /\ r.raced = job[i].raced
      BY <1>1 DEF Request
    <3>3. Browsing!Advance(i, r, Browsing!Changed)
      BY <3>1 DEF Browsing!DrainEntry
    <3> HIDE DEF r
    <3> QED
      BY <3>2, <3>3
  <2>3. CASE \E n \in Name : Browsing!RunEntry(i, n)
    <3>1. PICK n \in Name : Browsing!RunEntry(i, n)
      BY <2>3
    <3> DEFINE todo == job[i].todo \ {n}
               r == [job[i] EXCEPT !.todo = IF Browsing!Drains(i, todo) THEN job[i].names
                                            ELSE todo,
                                   !.pc = IF Browsing!Drains(i, todo) THEN "drain" ELSE "run"]
    <3>2. r \in Request /\ r.raced = job[i].raced
      BY <1>1 DEF Request, Working
    <3>3. Browsing!Advance(i, r, Browsing!Changed)
      BY <3>1 DEF Browsing!RunEntry
    <3> HIDE DEF r
    <3> QED
      BY <3>2, <3>3
  <2> QED
    BY <1>2, <2>1, <2>2, <2>3
<1>4. PICK r \in Request : r.raced = job[i].raced /\ Browsing!Advance(i, r, Browsing!Changed)
  BY <1>3
<1>5. job'[j] = IF j = i THEN r
                ELSE IF Browsing!Live(j)
                     THEN [job[j] EXCEPT !.raced = @ \union Browsing!Changed] ELSE job[j]
  BY <1>4 DEF Browsing!Advance
<1> QED
  BY <1>1, <1>4, <1>5 DEF Request

LEMMA MoveLosesNone ==
    ASSUME BrowseInv, MovesInv, [Browsing!Next]_browseVars
    PROVE  NothingLost
<1> USE BrowseSets
<1> SUFFICES ASSUME NEW j \in BrowseJob, job[j].pc \in {"drain", "orphanDrain"},
                    NEW n \in job[j].names,
                    tree[<<job[j].src, n>>] # None, tree'[<<job[j].src, n>>] = None,
                    <<job[j].src, n>> \notin job'[j].raced
             PROVE  \/ <<job[j].dst, n>> \in job[j].raced
                    \/ tree[<<job[j].dst, n>>] = tree[<<job[j].src, n>>]
  BY DEF NothingLost
<1>1. <<job[j].src, n>> \notin job[j].raced
  BY ChangeKeepsNotes
<1>2. Safe(j, n)
  BY DEF MovesInv, Moving, Copied, Working, BrowseInv, JobsType, Shape
<1> QED
  BY <1>1, <1>2 DEF Safe

\* A move removes an entry of its source only when the destination holds what
\* the source does, unless another job wrote one of the two meanwhile
\* (startBrowseCopyMove, deleteSource): for any number of jobs, and with
\* processes that a dead server left behind.
THEOREM MovesKeepFiles == JobsSpec => MoveLosesNothing
<1>1. JobsInit => JobsInv /\ MovesInv
  <2>1. Browsing!Init => MovesInv
    BY BrowseSets DEF Browsing!Init, Browsing!NoJob, MovesInv, Moving, Working
  <2> QED
    BY <2>1, QueueInvInit, BrowseStart DEF JobsInit, JobsInv
<1>2. JobsInv /\ MovesInv /\ [JobsNext]_jobsVars => [Browsing!Next]_browseVars
  BY DEF JobsNext, ActionsStep, BrowseStep, jobsVars
<1>3. JobsInv /\ [JobsNext]_jobsVars => JobsInv'
  BY JobsInvStep
<1>4. JobsInv /\ MovesInv /\ [JobsNext]_jobsVars => MovesInv'
  BY <1>2, MoveStepKeeps DEF JobsInv
<1>5. JobsInv /\ MovesInv /\ [JobsNext]_jobsVars => [NothingLost]_(Browsing!vars)
  BY <1>2, MoveLosesNone DEF JobsInv
<1>6. MoveLosesNothing <=> [][NothingLost]_(Browsing!vars)
  BY DEF MoveLosesNothing, Browsing!MoveLosesNothing, NothingLost
<1> QED
  BY <1>1, <1>3, <1>4, <1>5, <1>6, PTL DEF JobsSpec
=============================================================================
