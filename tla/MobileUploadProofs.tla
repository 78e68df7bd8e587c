------------------------- MODULE MobileUploadProofs -------------------------
(***************************************************************************)
(* What TLAPS proves of MobileUpload, for files of any number of chunks,   *)
(* any number of versioned names and any number of faults: a DONE item is  *)
(* published, finalized and in the history, and one intent is published    *)
(* under at most one name.                                                 *)
(***************************************************************************)
EXTENDS MobileUpload, FiniteSetTheorems, TLAPS

-----------------------------------------------------------------------------
(* The inductive invariant.                                                *)

\* A chunk is only sent while the offset is short of the size.
ChunkFits == \A r \in net : r.op = "chunk" => r.off < Size

\* The worker awaits one answer at a time, and none between its calls; what it
\* asks to create or finalize is the name it is at.
OneCall ==
    /\ \A r, s \in net : r.by = "worker" /\ s.by = "worker" => r = s
    /\ \A m, n \in Name : srv[m].by = "worker" /\ srv[n].by = "worker" => m = n
    /\ \A r \in net : r.by = "worker" => /\ reply["worker"].kind = "none"
                                         /\ \A n \in Name : srv[n].by # "worker"
    /\ \A n \in Name : srv[n].by = "worker" => reply["worker"].kind = "none"
CallNamed ==
    /\ \A r \in net : r.by = "worker" /\ r.op \in {"create", "finalize"} => r.n = work.n
    /\ \A n \in Name : srv[n].by = "worker" => n = work.n
AtRest == work.pc \in {"idle", "sync", "clean"} => ~Waiting("worker")

\* A name that was refused for a collision belongs to somebody else.
CollisionReal == reply["worker"].kind = "collision" => obj[work.n] = "other"

\* The row and the file of a name while a handler holds its lock.
Held(n) ==
    /\ srv[n].pc # "idle" => row[n].status # "none"
    /\ srv[n].pc = "verify" => row[n].status \in {"verifying", "publishing"}
    /\ srv[n].pc = "publish" => row[n].status = "publishing" /\ ~folder
    /\ srv[n].pc \in {"verify", "publish"} /\ ~folder => obj[n] # "own"
    /\ srv[n].pc = "copying" => folder
    /\ srv[n].pc \in {"complete", "copied"} => obj[n] = "own"

\* A file of ours was put in place for a row, which says so in the landing
\* root; a finalized row has its file and its history.
Backed(n) ==
    /\ obj[n] = "own" => /\ row[n].status # "none"
                         /\ folder \/ row[n].status \in Terminal \cup {"publishing"}
    /\ row[n].status = "finalized" => obj[n] = "own" /\ hist[n] = "success"
    /\ n \in orphan => folder /\ row[n].status # "none"

Placed == \A n \in Name : Held(n) /\ Backed(n)

\* A receipt, and a cancel that lost, tell of a finalized row; so does DONE.
SomeFinal == \E n \in Name : row[n].status = "finalized"
Receipts ==
    /\ \A c \in Caller : reply[c].kind \in {"finalized", "receipt"} => SomeFinal
    /\ item.status = "DONE" => SomeFinal

\* A name is tried only when every name before it is somebody else's.
Tried(n) == \A m \in Name : m < n => obj[m] = "other"
NamesTried ==
    /\ Tried(item.n) /\ Tried(work.n)
    /\ item.uid # None => Tried(item.uid)
    /\ work.uid # None => Tried(work.uid)
    /\ \A r \in net : Tried(r.n)
    /\ \A n \in Name : row[n].status # "none" => Tried(n)

Calls == OneCall /\ CallNamed /\ AtRest
UploadInv ==
    /\ TypeOK /\ ChunkFits
    /\ Calls /\ CollisionReal
    /\ Placed
    /\ Receipts
    /\ NamesTried

-----------------------------------------------------------------------------
(* What one turn of the worker does with the answer it waited for: it rests, *)
(* makes its next call for the name it is at, or moves on to the next name.  *)

Written(status, n, uid) ==
    item' \in {item, Updated([status |-> status, n |-> n, uid |-> uid])}

Rests ==
    \E status \in {"BLOCKED", "FAILED", "DONE"}, again \in BOOLEAN :
        /\ Written(status, work.n, work.uid)
        /\ status = "DONE" => Reply.kind = "receipt"
        /\ work' = [work EXCEPT !.pc = "sync", !.again = again]
        /\ NoCall

CallsOn ==
    \E op \in {"chunk", "state", "finalize"}, at \in 0 .. Size, off \in 0 .. Size :
        /\ Written("UPLOADING", work.n, work.n)
        /\ op = "chunk" => off < Size
        /\ work' = [work EXCEPT !.pc = op, !.off = at]
        /\ Call(op, work.n, off)

MovesOn == CanRetry /\ Reply.kind = "collision" /\ Collided

Turn ==
    /\ work.pc \in {"create", "chunk", "state", "finalize"}
    /\ Reply.kind # "none"
    /\ Rests \/ CallsOn \/ MovesOn
    /\ copy' \in {copy, FALSE}
    /\ UNCHANGED <<due, ui, store, admin, kind, faults>>

LEMMA RestTurn ==
    ASSUME TypeOK, NEW status \in {"BLOCKED", "FAILED", "DONE"}, NEW again \in BOOLEAN,
           Outcome(status, again), status = "DONE" => Reply.kind = "receipt"
    PROVE  Rests
BY DEF Rests, Outcome, Written

LEMMA SupersedingTurn ==
    ASSUME TypeOK, Superseding
    PROVE  Rests
<1>1. work' = [work EXCEPT !.pc = "sync", !.again = work.again]
  BY DEF TypeOK, Superseding
<1>2. work.again \in BOOLEAN /\ Written("FAILED", work.n, work.uid) /\ NoCall
  BY DEF TypeOK, Superseding, Written
<1> QED
  BY <1>1, <1>2 DEF Rests

LEMMA ContinueTurn ==
    ASSUME TypeOK, NEW off \in 0 .. Size, Continue(off)
    PROVE  Rests \/ CallsOn
<1>1. CASE off < Size /\ copy
  BY <1>1, UploadAssumption DEF Continue, CallsOn, Written, Progress
<1>2. CASE off < Size /\ ~copy
  BY <1>2, RestTurn DEF Continue
<1>3. CASE ~(off < Size)
  <2>1. 0 \in 0 .. Size
    BY UploadAssumption
  <2> QED
    BY <1>3, <2>1 DEF Continue, CallsOn, Written, Progress
<1> QED
  BY <1>1, <1>2, <1>3

LEMMA CollidedTurn ==
    ASSUME TypeOK, Collided, Reply.kind = "collision"
    PROVE  Rests \/ MovesOn
BY RestTurn DEF Collided, MovesOn

LEMMA Turns ==
    ASSUME TypeOK, Created \/ ChunkSent \/ Requeried \/ Finalized
    PROVE  Turn
<1>0. Reply.off \in 0 .. Size
  BY DEF TypeOK, Reply, Caller
<1>1. CASE Created
  BY <1>0, <1>1, RestTurn, SupersedingTurn, ContinueTurn, CollidedTurn DEF Created, Got, Turn, Reply
<1>2. CASE ChunkSent
  <2>1. CASE Reply.kind = "conflict"
    <3>1. /\ work' = [work EXCEPT !.pc = "state"]
          /\ Call("state", work.n, 0)
          /\ UNCHANGED item
      BY <1>2, <2>1 DEF ChunkSent, Reply
    <3>2. work' = [work EXCEPT !.pc = "state", !.off = work.off]
      BY <3>1 DEF TypeOK
    <3>a. work.off \in 0 .. Size
      BY DEF TypeOK
    <3>b. 0 \in 0 .. Size
      BY UploadAssumption
    <3>3. CallsOn
      BY <3>1, <3>2, <3>a, <3>b DEF CallsOn, Written
    <3> QED
      BY <1>2, <3>3 DEF ChunkSent, Got, Turn, Reply
  <2>2. CASE Reply.kind # "conflict"
    BY <1>0, <1>2, <2>2, RestTurn, SupersedingTurn, ContinueTurn DEF ChunkSent, Got, Turn, Reply
  <2> QED
    BY <2>1, <2>2
<1>3. CASE Requeried
  BY <1>0, <1>3, RestTurn, SupersedingTurn, ContinueTurn DEF Requeried, Got, Turn, Reply
<1>4. CASE Finalized
  BY <1>0, <1>4, RestTurn, CollidedTurn DEF Finalized, Got, Turn, Reply
<1> QED
  BY <1>1, <1>2, <1>3, <1>4

-----------------------------------------------------------------------------
(* Types.                                                                  *)

ItemType == [status : Pending \union {"new", "staged", "CANCELLED", "DONE", "removed"},
             n : Name, uid : Name \union {None}]
WorkType == [pc : {"idle", "create", "chunk", "state", "finalize", "cancel", "sync", "clean"},
             n : Name, uid : Name \union {None}, off : 0 .. Size, again : BOOLEAN]
AnswerKind == {"none", "ok", "finalized", "receipt", "collision", "conflict", "refused", "error"}
ReplyType == [Caller -> [kind : AnswerKind, off : 0 .. Size]]
RowType == [status : Terminal \union {"none", "created", "uploading", "verifying", "publishing"},
            bytes : 0 .. Size]
SrvType == [pc : {"idle", "verify", "publish", "complete", "copying", "copied"},
            by : Caller \union {None}]

PhoneTypes == /\ item \in ItemType /\ work \in WorkType /\ ui \in Name \union {None}
              /\ copy \in BOOLEAN /\ due \in BOOLEAN
TalkTypes == net \subseteq Request /\ ChunkFits /\ reply \in ReplyType
StoreTypes == /\ row \in [Name -> RowType] /\ stage \in [Name -> BOOLEAN]
              /\ hist \in [Name -> {"none", "failed", "success"}]
              /\ obj \in [Name -> {"none", "own", "other"}]
              /\ srv \in [Name -> SrvType] /\ orphan \subseteq Name
RestTypes == /\ auto \in BOOLEAN /\ folder \in BOOLEAN /\ live \in BOOLEAN /\ dest \in BOOLEAN
             /\ faults \in 0 .. MaxFaults

LEMMA TypeParts == TypeOK /\ ChunkFits <=> PhoneTypes /\ TalkTypes /\ StoreTypes /\ RestTypes
BY DEF TypeOK, PhoneTypes, TalkTypes, StoreTypes, RestTypes, ItemType, WorkType, ReplyType,
       RowType, SrvType, AnswerKind

LEMMA Numbers == 0 \in Name /\ 0 \in 0 .. Size /\ None \notin Name
BY UploadAssumption DEF Name

LEMMA UpdatedType ==
    ASSUME item \in ItemType, NEW status \in Pending \union {"CANCELLED", "DONE"},
           NEW n \in Name, NEW uid \in Name \union {None}
    PROVE  Updated([status |-> status, n |-> n, uid |-> uid]) \in ItemType
BY DEF Updated, ItemType

LEMMA StatusType ==
    ASSUME item \in ItemType,
           NEW status \in Pending \union {"staged", "CANCELLED", "DONE", "removed"}
    PROVE  /\ [item EXCEPT !.status = status] \in ItemType
           /\ Updated([item EXCEPT !.status = status]) \in ItemType
BY DEF Updated, ItemType

LEMMA AnswerType ==
    ASSUME reply \in ReplyType, NEW c \in Caller \union {None}, NEW k \in AnswerKind,
           NEW off \in 0 .. Size, Answer(c, k, off)
    PROVE  reply' \in ReplyType
BY UploadAssumption DEF Answer, ReplyType

LEMMA NoReplyType ==
    ASSUME reply \in ReplyType, NEW c \in Caller
    PROVE  NoReply(c) \in ReplyType
BY Numbers DEF NoReply, ReplyType, AnswerKind

LEMMA CallType ==
    ASSUME TalkTypes, NEW op \in {"create", "chunk", "state", "finalize", "cancel"},
           NEW n \in Name, NEW off \in 0 .. Size, op = "chunk" => off < Size, Call(op, n, off)
    PROVE  TalkTypes'
<1>1. reply' \in ReplyType
  BY NoReplyType DEF Call, TalkTypes, Caller
<1>2. Ask("worker", op, n, off) \in Request
  BY DEF Ask, Request, Caller
<1>3. net' \subseteq Request
  BY <1>2 DEF Call, TalkTypes
<1>4. ChunkFits'
  BY DEF Call, TalkTypes, ChunkFits, Ask
<1> QED
  BY <1>1, <1>3, <1>4 DEF TalkTypes

LEMMA NoCallType == TalkTypes /\ NoCall => TalkTypes'
BY NoReplyType DEF NoCall, TalkTypes, ChunkFits, Caller

LEMMA DisownType ==
    ASSUME TalkTypes, NEW c \in Caller
    PROVE  /\ Disown(c) \subseteq Request
           /\ \A r \in Disown(c) : r.op = "chunk" => r.off < Size
<1> SUFFICES ASSUME NEW r \in net, NEW q, q = IF r.by = c THEN [r EXCEPT !.by = None] ELSE r
             PROVE  q \in Request /\ (q.op = "chunk" => q.off < Size)
  BY DEF Disown
<1>1. r \in Request /\ (r.op = "chunk" => r.off < Size)
  BY DEF TalkTypes, ChunkFits
<1> QED
  BY <1>1 DEF Request

LEMMA HangupType ==
    ASSUME srv \in [Name -> SrvType], NEW c \in Caller
    PROVE  Hangup(c) \in [Name -> SrvType]
BY DEF Hangup, SrvType

AllTypes == PhoneTypes /\ TalkTypes /\ StoreTypes /\ RestTypes

LEMMA TurnTypes ==
    ASSUME AllTypes, Turn
    PROVE  AllTypes'
<1> USE DEF AllTypes
<1>1. StoreTypes' /\ RestTypes' /\ ui' \in Name \union {None}
  BY DEF Turn, StoreTypes, RestTypes, PhoneTypes, store, admin, kind
<1>2. copy' \in BOOLEAN
  BY DEF Turn, PhoneTypes
<1>3. due' \in BOOLEAN
  BY DEF Turn, PhoneTypes
<1>w. work.n \in Name /\ work.uid \in Name \union {None}
  BY DEF PhoneTypes, WorkType
<1>4. CASE Rests
  <2>1. item' \in ItemType
    BY <1>4, <1>w, UpdatedType DEF Rests, Written, PhoneTypes, Pending
  <2>2. work' \in WorkType
    BY <1>4 DEF Rests, PhoneTypes, WorkType
  <2>3. TalkTypes'
    BY <1>4, NoCallType DEF Rests
  <2> QED
    BY <1>1, <1>2, <1>3, <2>1, <2>2, <2>3 DEF PhoneTypes
<1>5. CASE CallsOn
  <2>1. item' \in ItemType
    BY <1>5, <1>w, UpdatedType DEF CallsOn, Written, PhoneTypes, Pending
  <2>2. work' \in WorkType
    BY <1>5 DEF CallsOn, PhoneTypes, WorkType
  <2>3. TalkTypes'
    BY <1>5, <1>w, CallType DEF CallsOn
  <2> QED
    BY <1>1, <1>2, <1>3, <2>1, <2>2, <2>3 DEF PhoneTypes
<1>6. CASE MovesOn
  <2>0. work.n + 1 \in Name
    BY <1>6, <1>w, UploadAssumption DEF MovesOn, CanRetry, Name
  <2>1. item' \in ItemType
    BY <1>6, <1>w, <2>0, UpdatedType DEF MovesOn, Collided, PhoneTypes, Pending
  <2>2. work' \in WorkType
    BY <1>6, <2>0 DEF MovesOn, Collided, PhoneTypes, WorkType
  <2>3. TalkTypes'
    BY <1>6, <2>0, Numbers, CallType DEF MovesOn, Collided
  <2> QED
    BY <1>1, <1>2, <1>3, <2>1, <2>2, <2>3 DEF PhoneTypes
<1> QED
  BY <1>4, <1>5, <1>6 DEF Turn

LEMMA IdleType == Idle \in WorkType
BY Numbers DEF Idle, WorkType

LEMMA PhoneStepTypes ==
    ASSUME AllTypes, PhoneStep
    PROVE  AllTypes'
<1> USE DEF AllTypes
<1>i. item \in ItemType /\ work \in WorkType /\ item.n \in Name /\ item.uid \in Name \union {None}
  BY DEF PhoneTypes, ItemType
<1>k. Kept \in BOOLEAN
  BY DEF Kept
<1>1. CASE Stage \/ Enqueue \/ RetryItem \/ RemoveItem
  <2>1. item' \in ItemType
    BY <1>1, <1>i, StatusType DEF Stage, Enqueue, RetryItem, RemoveItem, Pending
  <2>2. copy' \in BOOLEAN /\ due' \in BOOLEAN
    <3>1. CASE Stage \/ RemoveItem
      BY <3>1 DEF Stage, RemoveItem, PhoneTypes
    <3>2. CASE Enqueue \/ RetryItem
      BY <1>k, <3>2 DEF Enqueue, RetryItem, PhoneTypes
    <3> QED
      BY <1>1, <3>1, <3>2
  <2>3. work' = work /\ ui' = ui /\ TalkTypes' /\ StoreTypes' /\ RestTypes'
    BY <1>1 DEF Stage, Enqueue, RetryItem, RemoveItem, TalkTypes, ChunkFits, StoreTypes, RestTypes,
                store, admin, kind
  <2> QED
    BY <2>1, <2>2, <2>3 DEF PhoneTypes
<1>2. CASE CancelItem
  <2>1. item' \in ItemType
    BY <1>2, <1>i, StatusType DEF CancelItem
  <2>2. copy' \in BOOLEAN /\ due' \in BOOLEAN
    BY <1>2 DEF CancelItem, PhoneTypes
  <2>3. work' \in WorkType
    BY <1>2, <1>i, IdleType DEF CancelItem
  <2>4. ui' \in Name \union {None}
    BY <1>2, <1>i DEF CancelItem
  <2>5. reply' \in ReplyType
    BY <1>2, NoReplyType DEF CancelItem, TalkTypes, Caller
  <2>6. net' \subseteq Request /\ ChunkFits'
    <3> DEFINE left == IF auto THEN net ELSE Disown("worker")
    <3>1. left \subseteq Request /\ \A r \in left : r.op = "chunk" => r.off < Size
      BY DisownType DEF TalkTypes, ChunkFits, Caller
    <3>2. net' = left \/ (item.uid # None /\ net' = left \union {Ask("ui", "cancel", item.uid, 0)})
      BY <1>2 DEF CancelItem
    <3>3. item.uid # None => Ask("ui", "cancel", item.uid, 0) \in Request
      BY <1>i, Numbers DEF Ask, Request, Caller
    <3>4. Ask("ui", "cancel", item.uid, 0).op = "cancel"
      BY DEF Ask
    <3> HIDE DEF left
    <3> QED
      BY <3>1, <3>2, <3>3, <3>4 DEF ChunkFits
  <2>7. srv' \in [Name -> SrvType]
    BY <1>2, HangupType DEF CancelItem, StoreTypes, Caller
  <2>8. StoreTypes' /\ RestTypes'
    BY <1>2, <2>7 DEF CancelItem, StoreTypes, RestTypes, admin, kind
  <2> QED
    BY <2>1, <2>2, <2>3, <2>4, <2>5, <2>6, <2>8 DEF PhoneTypes, TalkTypes
<1>3. CASE CancelAnswered
  <2>1. item' \in ItemType
    BY <1>3, <1>i, StatusType DEF CancelAnswered
  <2>2. copy' \in BOOLEAN /\ due' \in BOOLEAN /\ ui' \in Name \union {None} /\ work' = work
    BY <1>3 DEF CancelAnswered, PhoneTypes
  <2>3. reply' \in ReplyType
    BY <1>3, NoReplyType DEF CancelAnswered, TalkTypes, Caller
  <2>4. StoreTypes' /\ RestTypes' /\ net' = net
    BY <1>3 DEF CancelAnswered, StoreTypes, RestTypes, store, admin, kind
  <2> QED
    BY <2>1, <2>2, <2>3, <2>4 DEF PhoneTypes, TalkTypes, ChunkFits
<1>4. CASE WorkerStart
  <2>1. item' \in ItemType
    BY <1>4, <1>i, StatusType DEF WorkerStart, Pending
  <2>2. copy' \in BOOLEAN /\ ui' \in Name \union {None}
    BY <1>4 DEF WorkerStart, PhoneTypes
  <2>3. due' \in BOOLEAN
    BY <1>4 DEF WorkerStart
  <2>4. work' \in WorkType
    BY <1>4, <1>i, IdleType DEF WorkerStart, WorkType
  <2>5. TalkTypes'
    <3>1. CASE Call("create", item.n, 0)
      BY <3>1, <1>i, Numbers, CallType
    <3>2. CASE UNCHANGED <<net, reply>>
      BY <3>2 DEF TalkTypes, ChunkFits
    <3> QED
      BY <1>4, <3>1, <3>2 DEF WorkerStart
  <2>6. StoreTypes' /\ RestTypes'
    BY <1>4 DEF WorkerStart, StoreTypes, RestTypes, store, admin, kind
  <2> QED
    BY <2>1, <2>2, <2>3, <2>4, <2>5, <2>6 DEF PhoneTypes
<1>5. CASE Created \/ ChunkSent \/ Requeried \/ Finalized
  BY <1>5, TypeParts, Turns, TurnTypes
<1>6. CASE SyncCancellation
  <2>1. work' \in WorkType
    BY <1>6, <1>i DEF SyncCancellation, WorkType
  <2>2. TalkTypes'
    <3>1. CASE item.uid # None /\ Call("cancel", item.uid, 0)
      BY <3>1, <1>i, Numbers, CallType
    <3>2. CASE UNCHANGED <<net, reply>>
      BY <3>2 DEF TalkTypes, ChunkFits
    <3> QED
      BY <1>6, <3>1, <3>2 DEF SyncCancellation
  <2>3. StoreTypes' /\ RestTypes' /\ UNCHANGED <<item, copy, due, ui>>
    BY <1>6 DEF SyncCancellation, StoreTypes, RestTypes, store, admin, kind
  <2> QED
    BY <2>1, <2>2, <2>3 DEF PhoneTypes
<1>7. CASE SyncAnswered
  <2>1. item' \in ItemType
    BY <1>7, <1>i, StatusType DEF SyncAnswered
  <2>2. work' \in WorkType
    BY <1>7, <1>i DEF SyncAnswered, WorkType
  <2>3. TalkTypes'
    BY <1>7, NoCallType DEF SyncAnswered
  <2>4. StoreTypes' /\ RestTypes' /\ UNCHANGED <<copy, due, ui>>
    BY <1>7 DEF SyncAnswered, StoreTypes, RestTypes, store, admin, kind
  <2> QED
    BY <2>1, <2>2, <2>3, <2>4 DEF PhoneTypes
<1>8. CASE CleanupStaging
  <2>1. copy' \in BOOLEAN
    BY <1>8 DEF CleanupStaging
  <2>2. due' \in BOOLEAN
    BY <1>8 DEF CleanupStaging
  <2>3. work' \in WorkType
    BY <1>8, IdleType DEF CleanupStaging
  <2>4. StoreTypes' /\ RestTypes' /\ TalkTypes' /\ UNCHANGED <<item, ui>>
    BY <1>8 DEF CleanupStaging, StoreTypes, RestTypes, TalkTypes, ChunkFits, store, admin, kind
  <2> QED
    BY <2>1, <2>2, <2>3, <2>4 DEF PhoneTypes
<1>9. ASSUME NEW c \in Caller, GiveUp(c)
      PROVE  AllTypes'
  <2>1. faults' \in 0 .. MaxFaults
    BY <1>9, UploadAssumption DEF GiveUp, Fault, RestTypes
  <2>2. net' \subseteq Request /\ ChunkFits'
    BY <1>9, DisownType DEF GiveUp, ChunkFits
  <2>3. reply' \in ReplyType
    BY <1>9, Numbers DEF GiveUp, TalkTypes, ReplyType, AnswerKind
  <2>4. srv' \in [Name -> SrvType]
    BY <1>9, HangupType DEF GiveUp, StoreTypes
  <2>5. StoreTypes' /\ RestTypes' /\ PhoneTypes'
    BY <1>9, <2>1, <2>4 DEF GiveUp, StoreTypes, RestTypes, PhoneTypes, phone, admin, kind
  <2> QED
    BY <2>2, <2>3, <2>5 DEF TalkTypes
<1>10. CASE KillApp
  <2>1. faults' \in 0 .. MaxFaults
    BY <1>10, UploadAssumption DEF KillApp, Fault, RestTypes
  <2>2. net' \subseteq Request /\ ChunkFits'
    BY <1>10 DEF KillApp, TalkTypes, ChunkFits, Request
  <2>3. reply' \in ReplyType
    BY <1>10, Numbers DEF KillApp, ReplyType, AnswerKind
  <2>4. srv' \in [Name -> SrvType]
    BY <1>10 DEF KillApp, StoreTypes, SrvType
  <2>5. due' \in BOOLEAN
    BY <1>10 DEF KillApp
  <2>6. work' \in WorkType /\ ui' \in Name \union {None} /\ item' = item /\ copy' = copy
    BY <1>10, IdleType DEF KillApp
  <2>7. StoreTypes' /\ RestTypes'
    BY <1>10, <2>1, <2>4 DEF KillApp, StoreTypes, RestTypes, admin, kind
  <2> QED
    BY <2>2, <2>3, <2>5, <2>6, <2>7 DEF PhoneTypes, TalkTypes
<1> QED
  BY <1>1, <1>2, <1>3, <1>4, <1>5, <1>6, <1>7, <1>8, <1>9, <1>10 DEF PhoneStep, WorkerStep

LEMMA FailUploadType ==
    ASSUME AllTypes, NEW n \in Name, NEW by \in Caller \union {None}, NEW k \in AnswerKind,
           FailUpload(n, by, k)
    PROVE  StoreTypes' /\ reply' \in ReplyType
<1> USE DEF AllTypes
<1>1. row[n] \in RowType /\ hist[n] \in {"none", "failed", "success"}
  BY DEF StoreTypes
<1>2. FailedRow(n) \in RowType
  BY <1>1 DEF FailedRow, RowType, Terminal
<1>3. FailedHist(n) \in {"none", "failed", "success"}
  BY <1>1 DEF FailedHist
<1>4. row' \in [Name -> RowType]
  BY <1>2 DEF FailUpload, StoreTypes
<1>5. hist' \in [Name -> {"none", "failed", "success"}]
  BY <1>3 DEF FailUpload, StoreTypes
<1>6. stage' \in [Name -> BOOLEAN]
  BY DEF FailUpload, StoreTypes
<1>7. srv' \in [Name -> SrvType]
  BY DEF FailUpload, StoreTypes, SrvType
<1>8. reply' \in ReplyType
  BY AnswerType, Numbers DEF FailUpload, TalkTypes
<1> QED
  BY <1>4, <1>5, <1>6, <1>7, <1>8 DEF FailUpload, StoreTypes

LEMMA HandleTypes ==
    ASSUME AllTypes, NEW r \in net, Handle(r)
    PROVE  AllTypes'
<1> USE DEF AllTypes
<1>0. /\ r.n \in Name /\ r.off \in 0 .. Size /\ r.by \in Caller \union {None}
      /\ row[r.n] \in RowType /\ row[r.n].bytes \in 0 .. Size
      /\ r.op = "chunk" => r.off + 1 \in 0 .. Size
  BY UploadAssumption DEF TalkTypes, ChunkFits, Request, StoreTypes, RowType
<1>a. ASSUME NEW k \in AnswerKind, NEW off \in 0 .. Size, Answer(r.by, k, off)
      PROVE  reply' \in ReplyType
  BY <1>0, <1>a, AnswerType DEF TalkTypes
<1>b. net' = net \ {r} /\ PhoneTypes' /\ RestTypes'
  BY DEF Handle, Create, Chunk, State, Finalize, Cancel, Serve, PhoneTypes, RestTypes, phone, admin, kind
<1>c. net' \subseteq Request /\ ChunkFits'
  BY <1>b DEF TalkTypes, ChunkFits
<1> SUFFICES StoreTypes' /\ reply' \in ReplyType
  BY <1>b, <1>c DEF TalkTypes
<1>d. ASSUME Refuse(r) PROVE StoreTypes' /\ reply' \in ReplyType
  BY <1>d, <1>a, Numbers DEF Refuse, AnswerKind, StoreTypes, store
<1>e. ASSUME NEW k \in AnswerKind, NEW off \in 0 .. Size, Answer(r.by, k, off), UNCHANGED store
      PROVE  StoreTypes' /\ reply' \in ReplyType
  BY <1>e, <1>a DEF StoreTypes, store
<1>1. CASE Create(r)
  <2>1. CASE live /\ ~Known(r.n) /\ dest /\ ~Reserved(r.n)
    <3>1. row' = [row EXCEPT ![r.n] = [status |-> "created", bytes |-> 0]] /\ Answer(r.by, "ok", 0)
          /\ UNCHANGED <<stage, hist, obj, srv, orphan>>
      BY <1>1, <2>1 DEF Create
    <3>2. row' \in [Name -> RowType]
      BY <3>1, Numbers DEF StoreTypes, RowType
    <3> QED
      BY <3>1, <3>2, <1>a, Numbers DEF StoreTypes, AnswerKind
  <2>2. CASE ~(live /\ ~Known(r.n) /\ dest /\ ~Reserved(r.n))
    BY <1>0, <1>1, <1>d, <1>e, <2>2, Numbers DEF Create, AnswerKind
  <2> QED
    BY <2>1, <2>2
<1>2. CASE Chunk(r)
  <2> DEFINE fits == live /\ Unlocked(r.n) /\ row[r.n].status \in {"created", "uploading"}
                     /\ r.off = row[r.n].bytes
  <2>1. CASE fits
    <3>1. /\ row' = [row EXCEPT ![r.n] = [status |-> "uploading", bytes |-> r.off + 1]]
          /\ stage' = [stage EXCEPT ![r.n] = TRUE]
          /\ Answer(r.by, "ok", r.off + 1)
          /\ UNCHANGED <<hist, obj, srv, orphan>>
          /\ r.op = "chunk"
      BY <1>2, <2>1 DEF Chunk, Serve
    <3>2. row' \in [Name -> RowType]
      BY <1>0, <3>1 DEF StoreTypes, RowType
    <3>3. stage' \in [Name -> BOOLEAN]
      BY <3>1 DEF StoreTypes
    <3> QED
      BY <1>0, <3>1, <3>2, <3>3, <1>a DEF StoreTypes, AnswerKind
  <2>2. CASE ~fits
    BY <1>2, <1>d, <1>e, <2>2, Numbers DEF Chunk, AnswerKind
  <2> QED
    BY <2>1, <2>2
<1>3. CASE State(r)
  BY <1>0, <1>3, <1>d, <1>e DEF State, AnswerKind
<1>4. CASE Finalize(r)
  <2> DEFINE n == r.n
             here == ~folder /\ obj[n] # "none"
             to(pc) == srv' = [srv EXCEPT ![n] = [pc |-> pc, by |-> r.by]]
             goes == live /\ Unlocked(n) /\ Open(n) /\ dest
  <2>1. CASE goes /\ Publishing(n, here)
    <3>1. CASE ~here \/ ~Matches(n)
      <4>1. FailUpload(n, r.by, "error") \/ FailUpload(n, r.by, "collision")
        BY <1>4, <2>1, <3>1 DEF Finalize, Open, Terminal
      <4> QED
        BY <1>0, <4>1, FailUploadType DEF AnswerKind
    <3>2. CASE here /\ Matches(n)
      <4>1. to("complete") /\ UNCHANGED <<reply, row, stage, hist, obj, orphan>>
        BY <1>4, <2>1, <3>2 DEF Finalize, Open, Terminal
      <4> QED
        BY <1>0, <4>1 DEF StoreTypes, TalkTypes, SrvType
    <3> QED
      BY <3>1, <3>2
  <2>2. CASE goes /\ ~Publishing(n, here) /\ ~(row[n].bytes < Size)
    <3>1. /\ row' = [row EXCEPT ![n].status = IF @ = "publishing" THEN @ ELSE "verifying"]
          /\ IF stage[n] THEN to("verify") /\ UNCHANGED reply
             ELSE Answer(r.by, "error", 0) /\ UNCHANGED srv
          /\ UNCHANGED <<stage, hist, obj, orphan>>
      BY <1>4, <2>2 DEF Finalize, Open, Terminal
    <3>2. row' \in [Name -> RowType]
      BY <1>0, <3>1 DEF StoreTypes, RowType
    <3>3. srv' \in [Name -> SrvType]
      BY <1>0, <3>1 DEF StoreTypes, SrvType
    <3>4. reply' \in ReplyType
      BY <3>1, <1>a, Numbers DEF AnswerKind, TalkTypes
    <3> QED
      BY <3>1, <3>2, <3>3, <3>4 DEF StoreTypes
  <2>3. CASE ~(goes /\ (Publishing(n, here) \/ ~(row[n].bytes < Size)))
    <3>1. Refuse(r) \/ (\E k \in {"receipt", "error"} : Answer(r.by, k, 0) /\ UNCHANGED store)
      BY <1>4, <2>3 DEF Finalize, Open, Terminal
    <3> QED
      BY <3>1, <1>d, <1>e, Numbers DEF AnswerKind
  <2> QED
    BY <2>1, <2>2, <2>3
<1>5. CASE Cancel(r)
  <2> DEFINE cancels == live /\ Unlocked(r.n) /\ row[r.n].status \notin {"finalized", "failed"}
  <2>1. CASE cancels
    <3>1. /\ row' = [row EXCEPT ![r.n].status = "cancelled"]
          /\ stage' = [stage EXCEPT ![r.n] = FALSE]
          /\ Answer(r.by, "ok", 0)
          /\ UNCHANGED <<hist, obj, srv, orphan>>
      BY <1>5, <2>1 DEF Cancel
    <3>2. row' \in [Name -> RowType]
      BY <1>0, <3>1 DEF StoreTypes, RowType, Terminal
    <3>3. stage' \in [Name -> BOOLEAN]
      BY <3>1 DEF StoreTypes
    <3> QED
      BY <3>1, <3>2, <3>3, <1>a, Numbers DEF StoreTypes, AnswerKind
  <2>2. CASE ~cancels
    BY <1>5, <1>d, <1>e, <2>2, Numbers DEF Cancel, AnswerKind
  <2> QED
    BY <2>1, <2>2
<1> QED
  BY <1>1, <1>2, <1>3, <1>4, <1>5 DEF Handle

LEMMA HandlerTypes ==
    ASSUME AllTypes, NEW n \in Name, Handler(n)
    PROVE  AllTypes'
<1> USE DEF AllTypes
<1>0. /\ srv[n] \in SrvType /\ srv[n].by \in Caller \union {None} /\ row[n] \in RowType
      /\ [srv[n] EXCEPT !.pc = "complete"] \in SrvType
      /\ [pc |-> "idle", by |-> None] \in SrvType
  BY DEF StoreTypes, SrvType
<1>a. net' = net /\ PhoneTypes' /\ UNCHANGED <<live, dest, auto, folder>>
  BY DEF Handler, Verify, PublishLocal, CompleteLocal, CompleteFolder, Complete, CopyToFolder,
         PhoneTypes, phone, admin, kind
<1>b. faults' \in 0 .. MaxFaults
  BY UploadAssumption DEF Handler, Verify, PublishLocal, CompleteLocal, CompleteFolder, Complete,
     CopyToFolder, Fault, RestTypes
<1>c. RestTypes'
  BY <1>a, <1>b DEF RestTypes
<1> SUFFICES StoreTypes' /\ reply' \in ReplyType
  BY <1>a, <1>c DEF TalkTypes, ChunkFits
<1>1. CASE Verify(n)
  <2>1. CASE FailUpload(n, srv[n].by, "refused")
    BY <1>0, <2>1, FailUploadType DEF AnswerKind
  <2>2. CASE /\ row' = [row EXCEPT ![n].status = "publishing"]
             /\ srv' = [srv EXCEPT ![n].pc = IF folder THEN "copying" ELSE "publish"]
             /\ UNCHANGED <<reply, stage, hist, obj, orphan, faults>>
    <3>1. row' \in [Name -> RowType]
      BY <1>0, <2>2 DEF StoreTypes, RowType
    <3>2. srv' \in [Name -> SrvType]
      BY <1>0, <2>2 DEF StoreTypes, SrvType
    <3> QED
      BY <2>2, <3>1, <3>2 DEF StoreTypes, TalkTypes
  <2> QED
    BY <1>1, <2>1, <2>2 DEF Verify
<1>2. CASE PublishLocal(n)
  <2>1. CASE FailUpload(n, srv[n].by, "collision")
    BY <1>0, <2>1, FailUploadType DEF AnswerKind
  <2>2. CASE /\ obj' = [obj EXCEPT ![n] = "own"]
             /\ stage' = [stage EXCEPT ![n] = FALSE]
             /\ srv' = [srv EXCEPT ![n].pc = "complete"]
             /\ UNCHANGED <<reply, row, hist, orphan>>
    <3>1. obj' \in [Name -> {"none", "own", "other"}]
      BY <2>2 DEF StoreTypes
    <3>2. srv' \in [Name -> SrvType]
      BY <1>0, <2>2 DEF StoreTypes, SrvType
    <3>3. stage' \in [Name -> BOOLEAN]
      BY <2>2 DEF StoreTypes
    <3> QED
      BY <2>2, <3>1, <3>2, <3>3 DEF StoreTypes, TalkTypes
  <2> QED
    BY <1>2, <2>1, <2>2 DEF PublishLocal
<1>3. ASSUME NEW pc, Complete(n, pc) PROVE StoreTypes' /\ reply' \in ReplyType
  <2>1. srv' \in [Name -> SrvType]
    BY <1>3, <1>0 DEF Complete, StoreTypes
  <2>2. row' \in [Name -> RowType]
    BY <1>3, <1>0 DEF Complete, StoreTypes, RowType, Terminal
  <2>3. hist' \in [Name -> {"none", "failed", "success"}]
    BY <1>3 DEF Complete, StoreTypes
  <2>4. stage' \in [Name -> BOOLEAN]
    BY <1>3 DEF Complete, StoreTypes
  <2>5. reply' \in ReplyType
    BY <1>3, <1>0, AnswerType, Numbers DEF Complete, AnswerKind, TalkTypes
  <2> QED
    BY <1>3, <2>1, <2>2, <2>3, <2>4, <2>5 DEF Complete, StoreTypes
<1>4. CASE CopyToFolder(n)
  <2>1. srv' \in [Name -> SrvType]
    BY <1>4, <1>0 DEF CopyToFolder, StoreTypes, SrvType
  <2>2. obj' \in [Name -> {"none", "own", "other"}]
    BY <1>4 DEF CopyToFolder, StoreTypes
  <2>3. reply' \in ReplyType
    BY <1>4, <1>0, AnswerType, Numbers DEF CopyToFolder, AnswerKind, TalkTypes
  <2> QED
    BY <1>4, <2>1, <2>2, <2>3 DEF CopyToFolder, StoreTypes
<1> QED
  BY <1>1, <1>2, <1>3, <1>4 DEF Handler, CompleteLocal, CompleteFolder

LEMMA ServerStepTypes ==
    ASSUME AllTypes, ServerStep
    PROVE  AllTypes'
<1> USE DEF AllTypes
<1>1. ASSUME NEW n \in Name, Sweep(n) PROVE AllTypes'
  <2>1. StoreTypes' /\ reply' \in ReplyType
    BY <1>1, FailUploadType DEF Sweep, AnswerKind
  <2> QED
    BY <1>1, <2>1 DEF Sweep, PhoneTypes, TalkTypes, ChunkFits, RestTypes, phone, admin, kind
<1>2. ASSUME NEW n \in Name, OrphanCopies(n) \/ Occupy(n) PROVE AllTypes'
  <2>1. obj' \in [Name -> {"none", "own", "other"}]
    BY <1>2 DEF OrphanCopies, Occupy, StoreTypes
  <2>2. orphan' \subseteq Name
    BY <1>2 DEF OrphanCopies, Occupy, StoreTypes
  <2>3. /\ UNCHANGED <<phone, net, reply, admin, kind, faults>>
        /\ UNCHANGED <<row, stage, hist, srv>>
    BY <1>2 DEF OrphanCopies, Occupy
  <2> QED
    BY <2>1, <2>2, <2>3 DEF PhoneTypes, TalkTypes, ChunkFits, RestTypes, StoreTypes, phone, admin, kind
<1>3. CASE Revoke
  <2>1. \A n \in Name : FailedRow(n) \in RowType
    BY DEF FailedRow, RowType, Terminal, StoreTypes
  <2>2. row' \in [Name -> RowType]
    BY <1>3, <2>1 DEF Revoke, StoreTypes
  <2>3. hist' \in [Name -> {"none", "failed", "success"}]
    BY <1>3 DEF Revoke, StoreTypes, FailedHist
  <2>4. stage' \in [Name -> BOOLEAN]
    BY <1>3 DEF Revoke, StoreTypes
  <2>5. StoreTypes'
    BY <1>3, <2>2, <2>3, <2>4 DEF Revoke, StoreTypes
  <2>6. live' \in BOOLEAN /\ dest' \in BOOLEAN
    BY <1>3 DEF Revoke
  <2> QED
    BY <1>3, <2>5, <2>6 DEF Revoke, PhoneTypes, TalkTypes, ChunkFits, RestTypes, phone, kind
<1>4. CASE RevokeDestination
  <2>1. dest' \in BOOLEAN
    BY <1>4 DEF RevokeDestination
  <2> QED
    BY <1>4, <2>1 DEF RevokeDestination, PhoneTypes, TalkTypes, ChunkFits, RestTypes, StoreTypes,
       phone, store, kind
<1>5. CASE CrashServer
  <2>1. faults' \in 0 .. MaxFaults
    BY <1>5, UploadAssumption DEF CrashServer, Fault, RestTypes
  <2>2. srv' \in [Name -> SrvType]
    BY <1>5 DEF CrashServer, SrvType
  <2>3. reply' \in ReplyType
    BY <1>5, Numbers DEF CrashServer, TalkTypes, ReplyType, AnswerKind
  <2>4. orphan' \subseteq Name
    BY <1>5 DEF CrashServer, StoreTypes
  <2> QED
    BY <1>5, <2>1, <2>2, <2>3, <2>4 DEF CrashServer, PhoneTypes, TalkTypes, ChunkFits, RestTypes,
       StoreTypes, phone, admin, kind
<1> QED
  BY <1>1, <1>2, <1>3, <1>4, <1>5, HandleTypes, HandlerTypes DEF ServerStep

LEMMA TypeStep ==
    ASSUME TypeOK, ChunkFits, [Next]_vars
    PROVE  TypeOK' /\ ChunkFits'
<1>1. AllTypes
  BY TypeParts DEF AllTypes
<1>2. CASE UNCHANGED vars
  <2>1. AllTypes'
    BY <1>1, <1>2 DEF AllTypes, PhoneTypes, TalkTypes, ChunkFits, StoreTypes, RestTypes, vars, phone,
       store, admin, kind
  <2> QED
    BY <2>1 DEF AllTypes, TypeOK, PhoneTypes, TalkTypes, StoreTypes, RestTypes, ItemType, WorkType,
       ReplyType, RowType, SrvType, AnswerKind
<1>3. CASE Next
  <2>1. AllTypes'
    BY <1>1, <1>3, PhoneStepTypes, ServerStepTypes DEF Next
  <2> QED
    BY <2>1 DEF AllTypes, TypeOK, PhoneTypes, TalkTypes, StoreTypes, RestTypes, ItemType, WorkType,
       ReplyType, RowType, SrvType, AnswerKind
<1> QED
  BY <1>2, <1>3

-----------------------------------------------------------------------------
(* The store: rows, files and locks.                                       *)

\* The name is left as it was, but for who waits for its handler.
SameAt(m) ==
    /\ row'[m] = row[m] /\ obj'[m] = obj[m] /\ hist'[m] = hist[m]
    /\ srv'[m].pc = srv[m].pc
    /\ m \in orphan' => m \in orphan
    /\ folder' = folder

LEMMA SameKept ==
    ASSUME NEW m \in Name, Held(m), Backed(m), SameAt(m)
    PROVE  Held(m)' /\ Backed(m)'
BY DEF Held, Backed, SameAt

LEMMA PhoneSame ==
    ASSUME AllTypes, PhoneStep \/ UNCHANGED vars, NEW m \in Name
    PROVE  SameAt(m)
<1>1. CASE CancelItem
  BY <1>1 DEF CancelItem, Hangup, SameAt, AllTypes, StoreTypes, SrvType, kind
<1>2. ASSUME NEW c \in Caller, GiveUp(c) PROVE SameAt(m)
  BY <1>2 DEF GiveUp, Hangup, SameAt, AllTypes, StoreTypes, SrvType, kind
<1>3. CASE KillApp
  BY <1>3 DEF KillApp, SameAt, AllTypes, StoreTypes, SrvType, kind
<1>4. CASE \/ Stage \/ Enqueue \/ RetryItem \/ CancelAnswered \/ RemoveItem
           \/ WorkerStep \/ UNCHANGED vars
  BY <1>4 DEF Stage, Enqueue, RetryItem, CancelAnswered, RemoveItem, WorkerStep, WorkerStart, Created,
     ChunkSent, Requeried, Finalized, SyncCancellation, SyncAnswered, CleanupStaging, SameAt, store,
     kind, vars
<1> QED
  BY <1>1, <1>2, <1>3, <1>4 DEF PhoneStep

LEMMA FailUploadPlaced ==
    ASSUME AllTypes, NEW n \in Name, NEW by, NEW k, FailUpload(n, by, k), folder' = folder,
           Held(n), Backed(n), NEW m \in Name, Held(m), Backed(m)
    PROVE  Held(m)' /\ Backed(m)'
<1>1. CASE m # n
  <2>1. SameAt(m)
    BY <1>1 DEF FailUpload, SameAt, AllTypes, StoreTypes
  <2> QED
    BY <2>1, SameKept
<1>2. CASE m = n
  <2>1. row'[n] = FailedRow(n) /\ hist'[n] = FailedHist(n) /\ srv'[n].pc = "idle" /\ obj'[n] = obj[n]
        /\ orphan' = orphan
    BY DEF FailUpload, AllTypes, StoreTypes
  <2>2. FailedRow(n).status = row[n].status \/ (hist[n] = "none" /\ FailedRow(n).status = "failed")
    BY DEF FailedRow, AllTypes, StoreTypes, RowType
  <2> QED
    BY <1>2, <2>1, <2>2 DEF Held, Backed, FailedHist, Terminal
<1> QED
  BY <1>1, <1>2

LEMMA HandlePlaced ==
    ASSUME AllTypes, NEW r \in net, Handle(r), \A n \in Name : Held(n) /\ Backed(n), NEW m \in Name
    PROVE  Held(m)' /\ Backed(m)'
<1> DEFINE n == r.n
<1>0. n \in Name /\ folder' = folder /\ Held(n) /\ Backed(n) /\ Held(m) /\ Backed(m)
  BY DEF Handle, Create, Chunk, State, Finalize, Cancel, AllTypes, TalkTypes, Request, kind
<1>t. row \in [Name -> RowType] /\ obj \in [Name -> {"none", "own", "other"}]
      /\ srv \in [Name -> SrvType] /\ row[n] \in RowType /\ srv[n] \in SrvType
  BY <1>0 DEF AllTypes, StoreTypes
<1>s. ASSUME UNCHANGED store PROVE Held(m)' /\ Backed(m)'
  BY <1>s, <1>0, SameKept DEF SameAt, store
<1> HIDE DEF n
<1>1. CASE Create(r)
  <2>1. CASE /\ row' = [row EXCEPT ![n] = [status |-> "created", bytes |-> 0]]
             /\ UNCHANGED <<stage, hist, obj, srv, orphan>>
             /\ ~Known(n)
    <3>1. CASE m # n
      BY <1>0, <1>t, <2>1, <3>1, SameKept DEF SameAt
    <3>2. CASE m = n
      BY <1>0, <1>t, <2>1, <3>2 DEF Held, Backed, Known
    <3> QED
      BY <3>1, <3>2
  <2> QED
    BY <1>1, <1>s, <2>1 DEF Create, Refuse, n
<1>2. CASE Chunk(r)
  <2>1. CASE /\ row' = [row EXCEPT ![n] = [status |-> "uploading", bytes |-> r.off + 1]]
             /\ UNCHANGED <<hist, obj, srv, orphan>>
             /\ Unlocked(n) /\ row[n].status \in {"created", "uploading"}
    <3>1. CASE m # n
      BY <1>0, <1>t, <2>1, <3>1, SameKept DEF SameAt
    <3>2. CASE m = n
      BY <1>0, <1>t, <2>1, <3>2 DEF Held, Backed, Unlocked, Terminal
    <3> QED
      BY <3>1, <3>2
  <2> QED
    BY <1>2, <1>s, <2>1 DEF Chunk, Refuse, n
<1>3. CASE State(r)
  BY <1>3, <1>s DEF State, Refuse
<1>4. CASE Finalize(r)
  <2> DEFINE here == ~folder /\ obj[n] # "none"
             to(pc) == srv' = [srv EXCEPT ![n] = [pc |-> pc, by |-> r.by]]
             goes == live /\ Unlocked(n) /\ Open(n) /\ dest
  <2>1. CASE goes /\ Publishing(n, here)
    <3>1. CASE ~here \/ ~Matches(n)
      <4>1. FailUpload(n, r.by, "error") \/ FailUpload(n, r.by, "collision")
        BY <1>4, <2>1, <3>1 DEF Finalize, Open, Terminal, n
      <4> QED
        BY <1>0, <4>1, FailUploadPlaced
    <3>2. CASE here /\ Matches(n)
      <4>1. to("complete") /\ UNCHANGED <<reply, row, stage, hist, obj, orphan>>
        BY <1>4, <2>1, <3>2 DEF Finalize, Open, Terminal, n
      <4>2. CASE m # n
        BY <1>0, <1>t, <4>1, <4>2, SameKept DEF SameAt
      <4>3. CASE m = n
        <5>1. srv'[n].pc = "complete" /\ obj[n] = "own" /\ row[n].status # "none"
          BY <1>0, <1>t, <2>1, <3>2, <4>1 DEF Matches, Open
        <5> QED
          BY <1>0, <4>1, <4>3, <5>1 DEF Held, Backed
      <4> QED
        BY <4>2, <4>3
    <3> QED
      BY <3>1, <3>2
  <2>2. CASE goes /\ ~Publishing(n, here) /\ ~(row[n].bytes < Size)
    <3>1. /\ row' = [row EXCEPT ![n].status = IF @ = "publishing" THEN @ ELSE "verifying"]
          /\ IF stage[n] THEN to("verify") /\ UNCHANGED reply
             ELSE Answer(r.by, "error", 0) /\ UNCHANGED srv
          /\ UNCHANGED <<stage, hist, obj, orphan>>
      BY <1>4, <2>2 DEF Finalize, Open, Terminal, n
    <3>2. CASE m # n
      BY <1>0, <1>t, <3>1, <3>2, SameKept DEF SameAt
    <3>3. CASE m = n
      <4>1. row'[n].status \in {"verifying", "publishing"}
            /\ (row[n].status = "publishing" => row'[n].status = "publishing")
        BY <1>0, <1>t, <3>1 DEF RowType
      <4>2. srv'[n].pc \in {"idle", "verify"}
        BY <1>0, <1>t, <2>2, <3>1 DEF Unlocked
      <4>3. ~folder => obj[n] # "own"
        BY <1>0, <2>2 DEF Backed, Publishing, Open, Terminal
      <4> QED
        BY <1>0, <3>1, <3>3, <4>1, <4>2, <4>3 DEF Held, Backed
    <3> QED
      BY <3>2, <3>3
  <2>3. CASE ~(goes /\ (Publishing(n, here) \/ ~(row[n].bytes < Size)))
    <3>1. UNCHANGED store
      BY <1>4, <2>3 DEF Finalize, Open, Terminal, n, Refuse
    <3> QED
      BY <3>1, <1>s
  <2> QED
    BY <2>1, <2>2, <2>3
<1>5. CASE Cancel(r)
  <2>1. CASE /\ row' = [row EXCEPT ![n].status = "cancelled"]
             /\ UNCHANGED <<hist, obj, srv, orphan>>
             /\ Unlocked(n) /\ row[n].status # "finalized"
    <3>1. CASE m # n
      BY <1>0, <1>t, <2>1, <3>1, SameKept DEF SameAt
    <3>2. CASE m = n
      <4>1. row'[n].status = "cancelled"
        BY <1>0, <1>t, <2>1 DEF RowType
      <4> QED
        BY <1>0, <2>1, <3>2, <4>1 DEF Held, Backed, Unlocked, Terminal
    <3> QED
      BY <3>1, <3>2
  <2> QED
    BY <1>5, <1>s, <2>1 DEF Cancel, Refuse, n
<1> QED
  BY <1>1, <1>2, <1>3, <1>4, <1>5 DEF Handle

LEMMA HandlerPlaced ==
    ASSUME AllTypes, NEW n \in Name, Handler(n), \A k \in Name : Held(k) /\ Backed(k), NEW m \in Name
    PROVE  Held(m)' /\ Backed(m)'
<1>0. folder' = folder /\ Held(n) /\ Backed(n) /\ Held(m) /\ Backed(m)
  BY DEF Handler, Verify, PublishLocal, CompleteLocal, CompleteFolder, Complete, CopyToFolder, kind
<1>t. row \in [Name -> RowType] /\ obj \in [Name -> {"none", "own", "other"}]
      /\ hist \in [Name -> {"none", "failed", "success"}]
      /\ srv \in [Name -> SrvType] /\ row[n] \in RowType /\ srv[n] \in SrvType
  BY <1>0 DEF AllTypes, StoreTypes
<1>1. CASE m # n
  <2>1. row'[m] = row[m] /\ obj'[m] = obj[m] /\ hist'[m] = hist[m] /\ srv'[m] = srv[m]
    BY <1>t, <1>1 DEF Handler, Verify, PublishLocal, CompleteLocal, CompleteFolder, Complete,
       CopyToFolder, FailUpload
  <2>2. orphan' = orphan
    BY DEF Handler, Verify, PublishLocal, CompleteLocal, CompleteFolder, Complete, CopyToFolder, FailUpload
  <2> QED
    BY <1>0, <2>1, <2>2, SameKept DEF SameAt
<1>2. CASE m = n
  <2>f. ASSUME NEW by, NEW k, FailUpload(n, by, k) PROVE Held(m)' /\ Backed(m)'
    BY <1>0, <2>f, FailUploadPlaced
  <2>1. CASE Verify(n)
    <3>1. CASE /\ row' = [row EXCEPT ![n].status = "publishing"]
               /\ srv' = [srv EXCEPT ![n].pc = IF folder THEN "copying" ELSE "publish"]
               /\ UNCHANGED <<reply, stage, hist, obj, orphan, faults>>
      <4>1. row'[n].status = "publishing"
        BY <1>t, <3>1 DEF RowType
      <4>2. srv'[n].pc = IF folder THEN "copying" ELSE "publish"
        BY <1>t, <3>1 DEF SrvType
      <4> QED
        BY <1>0, <1>2, <2>1, <3>1, <4>1, <4>2 DEF Held, Backed, Verify
    <3> QED
      BY <2>1, <2>f, <3>1 DEF Verify
  <2>2. CASE PublishLocal(n)
    <3>1. CASE /\ obj' = [obj EXCEPT ![n] = "own"]
               /\ srv' = [srv EXCEPT ![n].pc = "complete"]
               /\ UNCHANGED <<reply, row, hist, orphan>>
      <4>1. obj'[n] = "own" /\ srv'[n].pc = "complete"
        BY <1>t, <3>1 DEF SrvType
      <4> QED
        BY <1>0, <1>2, <2>2, <3>1, <4>1 DEF Held, Backed, PublishLocal
    <3> QED
      BY <2>2, <2>f, <3>1 DEF PublishLocal
  <2>3. ASSUME NEW pc \in {"complete", "copied"}, Complete(n, pc) PROVE Held(m)' /\ Backed(m)'
    <3>1. srv'[n].pc = "idle" /\ UNCHANGED <<obj, orphan>>
      BY <1>t, <2>3 DEF Complete
    <3>2. obj[n] = "own"
      BY <1>0, <2>3 DEF Complete, Held
    <3>3. \/ row'[n] = row[n] /\ hist'[n] = hist[n]
          \/ row'[n].status = "finalized" /\ hist'[n] = "success"
      BY <1>t, <2>3 DEF Complete, RowType
    <3> QED
      BY <1>0, <1>2, <3>1, <3>2, <3>3 DEF Held, Backed, Terminal
  <2>4. CASE CopyToFolder(n)
    <3>1. /\ srv[n].pc = "copying"
          /\ \/ obj'[n] = "own" /\ srv'[n].pc = "copied"
             \/ obj'[n] = obj[n] /\ srv'[n].pc = "idle"
          /\ UNCHANGED <<row, hist, orphan>>
      BY <1>t, <2>4 DEF CopyToFolder, SrvType
    <3> QED
      BY <1>0, <1>2, <3>1 DEF Held, Backed
  <2> QED
    BY <2>1, <2>2, <2>3, <2>4 DEF Handler, CompleteLocal, CompleteFolder
<1> QED
  BY <1>1, <1>2

LEMMA PlacedStep ==
    ASSUME AllTypes, Placed, [Next]_vars
    PROVE  Placed'
<1> SUFFICES ASSUME NEW m \in Name
             PROVE  Held(m)' /\ Backed(m)'
  BY DEF Placed
<1>0. Held(m) /\ Backed(m) /\ \A n \in Name : Held(n) /\ Backed(n)
  BY DEF Placed
<1>1. CASE PhoneStep \/ UNCHANGED vars
  BY <1>0, <1>1, PhoneSame, SameKept
<1>2. ASSUME NEW n \in Name, Sweep(n) PROVE Held(m)' /\ Backed(m)'
  BY <1>0, <1>2, FailUploadPlaced DEF Sweep, kind
<1>3. ASSUME NEW n \in Name, OrphanCopies(n) PROVE Held(m)' /\ Backed(m)'
  <2>1. /\ UNCHANGED <<row, hist, srv, folder>>
        /\ m \in orphan' => m \in orphan
        /\ obj'[m] = IF m = n /\ obj[m] = "none" THEN "own" ELSE obj[m]
    BY <1>3 DEF OrphanCopies, AllTypes, StoreTypes, kind
  <2> QED
    BY <1>0, <1>3, <2>1 DEF OrphanCopies, Held, Backed
<1>4. ASSUME NEW n \in Name, Occupy(n) PROVE Held(m)' /\ Backed(m)'
  <2>1. /\ UNCHANGED <<row, hist, srv, folder, orphan>>
        /\ obj'[m] = IF m = n THEN "other" ELSE obj[m]
    BY <1>4 DEF Occupy, AllTypes, StoreTypes, kind
  <2> QED
    BY <1>0, <1>4, <2>1 DEF Occupy, Held, Backed
<1>5. CASE Revoke
  <2>1. /\ UNCHANGED <<obj, srv, orphan, folder>>
        /\ srv[m].pc \in {"idle", "copying", "copied"}
        /\ row'[m] = IF Open(m) THEN FailedRow(m) ELSE row[m]
        /\ hist'[m] = IF Open(m) THEN FailedHist(m) ELSE hist[m]
    BY <1>5 DEF Revoke, JsFree, kind
  <2>2. FailedRow(m).status = row[m].status \/ (hist[m] = "none" /\ FailedRow(m).status = "failed")
    BY DEF FailedRow, AllTypes, StoreTypes, RowType
  <2> QED
    BY <1>0, <2>1, <2>2 DEF Held, Backed, FailedHist, Terminal
<1>6. CASE RevokeDestination
  BY <1>0, <1>6, SameKept DEF RevokeDestination, SameAt, store, kind
<1>7. CASE CrashServer
  <2>1. /\ UNCHANGED <<row, hist, obj, folder>> /\ srv'[m].pc = "idle"
        /\ m \in orphan' => m \in orphan \/ srv[m].pc = "copying"
    BY <1>7 DEF CrashServer, kind
  <2> QED
    BY <1>0, <2>1 DEF Held, Backed
<1> QED
  BY <1>0, <1>1, <1>2, <1>3, <1>4, <1>5, <1>6, <1>7, HandlePlaced, HandlerPlaced DEF Next, ServerStep

-----------------------------------------------------------------------------
(* What lasts: a finalized row, a name that is somebody else's, and that a *)
(* row came from a request.                                                *)

Lasts(m) ==
    /\ row[m].status = "finalized" => row'[m].status = "finalized"
    /\ obj[m] = "other" => obj'[m] = "other"
    /\ row'[m].status # "none" => row[m].status # "none" \/ \E r \in net : r.n = m

\* The ways finalizeMobileUpload ends its first stretch.
Begins(r) ==
    LET n == r.n
        to(pc) == srv' = [srv EXCEPT ![n] = [pc |-> pc, by |-> r.by]]
    IN  \/ Refuse(r)
        \/ Answer(r.by, "receipt", 0) /\ UNCHANGED store /\ row[n].status = "finalized"
        \/ Answer(r.by, "error", 0) /\ UNCHANGED store
        \/ FailUpload(n, r.by, "error") /\ Open(n)
        \/ FailUpload(n, r.by, "collision") /\ Open(n) /\ obj[n] \notin {"none", "own"}
        \/ to("complete") /\ UNCHANGED <<reply, row, stage, hist, obj, orphan>>
        \/ /\ Open(n)
           /\ row' = [row EXCEPT ![n].status = IF @ = "publishing" THEN @ ELSE "verifying"]
           /\ \/ to("verify") /\ UNCHANGED reply
              \/ Answer(r.by, "error", 0) /\ UNCHANGED srv
           /\ UNCHANGED <<stage, hist, obj, orphan>>

LEMMA FinalizeBegins ==
    ASSUME NEW r, Finalize(r)
    PROVE  Begins(r)
<1> DEFINE n == r.n
           here == ~folder /\ obj[n] # "none"
           goes == live /\ Unlocked(n) /\ Open(n) /\ dest
<1>1. CASE goes /\ Publishing(n, here)
  BY <1>1 DEF Finalize, Begins, Open, Terminal, Matches
<1>2. CASE goes /\ ~Publishing(n, here) /\ ~(row[n].bytes < Size)
  BY <1>2 DEF Finalize, Begins, Open, Terminal
<1>3. CASE ~(goes /\ (Publishing(n, here) \/ ~(row[n].bytes < Size)))
  BY <1>3 DEF Finalize, Begins, Open, Terminal
<1> QED
  BY <1>1, <1>2, <1>3

LEMMA FailUploadLasts ==
    ASSUME AllTypes, NEW n \in Name, NEW by, NEW k, FailUpload(n, by, k), NEW m \in Name, Backed(m),
           row[n].status # "none"
    PROVE  Lasts(m)
<1>1. obj' = obj /\ row'[m] = IF m = n THEN FailedRow(n) ELSE row[m]
  BY DEF FailUpload, AllTypes, StoreTypes
<1> QED
  BY <1>1 DEF Lasts, FailedRow, Backed

LEMMA Lasting ==
    ASSUME AllTypes, Placed, [Next]_vars, NEW m \in Name
    PROVE  Lasts(m)
<1>0. Held(m) /\ Backed(m) /\ \A n \in Name : Held(n) /\ Backed(n)
  BY DEF Placed
<1>t. /\ row \in [Name -> RowType] /\ obj \in [Name -> {"none", "own", "other"}]
      /\ \A r \in net : r.n \in Name
  BY DEF AllTypes, StoreTypes, TalkTypes, Request
<1>s. ASSUME UNCHANGED <<row, obj>> PROVE Lasts(m)
  BY <1>s DEF Lasts
<1>1. CASE PhoneStep \/ UNCHANGED vars
  BY <1>1, PhoneSame DEF SameAt, Lasts
<1>2. ASSUME NEW r \in net, Handle(r) PROVE Lasts(m)
  <2>0. r.n \in Name
    BY <1>t
  <2>1. CASE Create(r)
    <3>1. obj' = obj /\ (row' = row \/ (row' = [row EXCEPT ![r.n] = [status |-> "created", bytes |-> 0]]
                                         /\ ~Known(r.n)))
      BY <2>1 DEF Create, Refuse, store
    <3> QED
      BY <1>t, <2>0, <3>1 DEF Lasts, Known
  <2>2. CASE Chunk(r)
    <3>1. obj' = obj /\ (row' = row \/ (row' = [row EXCEPT ![r.n] = [status |-> "uploading", bytes |-> r.off + 1]]
                                         /\ row[r.n].status \in {"created", "uploading"}))
      BY <2>2 DEF Chunk, Refuse, store
    <3> QED
      BY <1>t, <2>0, <3>1 DEF Lasts
  <2>3. CASE State(r)
    BY <2>3, <1>s DEF State, Refuse, store
  <2>4. CASE Finalize(r)
    <3>1. Begins(r)
      BY <2>4, FinalizeBegins
    <3>2. CASE \E k \in {"error", "collision"} : FailUpload(r.n, r.by, k) /\ Open(r.n)
      BY <1>0, <2>0, <3>2, FailUploadLasts DEF Open
    <3>3. CASE /\ row' = [row EXCEPT ![r.n].status = IF @ = "publishing" THEN @ ELSE "verifying"]
               /\ Open(r.n) /\ obj' = obj
      BY <1>t, <2>0, <3>3 DEF Open, Lasts, Terminal, RowType
    <3>4. CASE UNCHANGED <<row, obj>>
      BY <3>4, <1>s
    <3> QED
      BY <3>1, <3>2, <3>3, <3>4 DEF Begins, Refuse, store
  <2>5. CASE Cancel(r)
    <3>1. obj' = obj /\ (row' = row \/ (row' = [row EXCEPT ![r.n].status = "cancelled"]
                                         /\ row[r.n].status # "finalized"))
      BY <2>5 DEF Cancel, Refuse, store
    <3> QED
      BY <1>t, <2>0, <3>1 DEF Lasts, RowType
  <2> QED
    BY <1>2, <2>1, <2>2, <2>3, <2>4, <2>5 DEF Handle
<1>3. ASSUME NEW n \in Name, Handler(n) PROVE Lasts(m)
  <2>0. Held(n)
    BY <1>0
  <2>1. CASE Verify(n)
    <3>1. CASE FailUpload(n, srv[n].by, "refused")
      BY <1>0, <2>0, <2>1, <3>1, FailUploadLasts DEF Held, Verify
    <3>2. CASE row' = [row EXCEPT ![n].status = "publishing"] /\ obj' = obj
      BY <1>t, <2>0, <2>1, <3>2 DEF Held, Verify, Lasts, RowType
    <3> QED
      BY <2>1, <3>1, <3>2 DEF Verify
  <2>2. CASE PublishLocal(n)
    <3>1. CASE FailUpload(n, srv[n].by, "collision")
      BY <1>0, <2>0, <2>2, <3>1, FailUploadLasts DEF Held, PublishLocal
    <3>2. CASE row' = row /\ obj' = [obj EXCEPT ![n] = "own"] /\ obj[n] = "none"
      BY <1>t, <3>2 DEF Lasts
    <3> QED
      BY <2>2, <3>1, <3>2 DEF PublishLocal
  <2>3. ASSUME NEW pc \in {"complete", "copied"}, Complete(n, pc) PROVE Lasts(m)
    <3>1. obj' = obj /\ (row' = row \/ row' = [row EXCEPT ![n].status = "finalized"])
      BY <2>3 DEF Complete
    <3>2. row[n].status # "none"
      BY <2>0, <2>3 DEF Complete, Held
    <3> QED
      BY <1>t, <3>1, <3>2 DEF Lasts, RowType
  <2>4. CASE CopyToFolder(n)
    <3>1. row' = row /\ (obj' = obj \/ (obj' = [obj EXCEPT ![n] = "own"] /\ obj[n] # "other"))
      BY <2>4 DEF CopyToFolder
    <3> QED
      BY <1>t, <3>1 DEF Lasts
  <2> QED
    BY <1>3, <2>1, <2>2, <2>3, <2>4 DEF Handler, CompleteLocal, CompleteFolder
<1>4. ASSUME NEW n \in Name, Sweep(n) PROVE Lasts(m)
  BY <1>0, <1>4, FailUploadLasts DEF Sweep, Open
<1>5. ASSUME NEW n \in Name, OrphanCopies(n) \/ Occupy(n) PROVE Lasts(m)
  BY <1>5, <1>t DEF OrphanCopies, Occupy, Lasts
<1>6. CASE Revoke
  BY <1>0, <1>6 DEF Revoke, Lasts, Open, Backed, FailedRow
<1>7. CASE RevokeDestination \/ CrashServer
  BY <1>7, <1>s DEF RevokeDestination, CrashServer, store
<1> QED
  BY <1>1, <1>2, <1>3, <1>4, <1>5, <1>6, <1>7 DEF Next, ServerStep

-----------------------------------------------------------------------------
(* What a step of the server says to whom: it answers a request at once,   *)
(* takes the lock for one, answers as it gives the lock back, or says      *)
(* nothing.                                                                *)

\* The answer to a request about name n is true.
Tells(c, op, n) ==
    \E k \in AnswerKind, off \in 0 .. Size :
        /\ Answer(c, k, off)
        /\ k = "collision" => op \in {"create", "finalize"} /\ obj'[n] = "other"
        /\ k \in {"finalized", "receipt"} => \E m \in Name : row'[m].status = "finalized"

Answers(r) ==
    /\ net' = net \ {r}
    /\ Tells(r.by, r.op, r.n)
    /\ \A m \in Name : srv'[m].by \in {srv[m].by, None}

Locks(r) ==
    /\ net' = net \ {r}
    /\ r.op = "finalize"
    /\ reply' = reply
    /\ srv'[r.n].by = r.by
    /\ \A m \in Name : m # r.n => srv'[m].by = srv[m].by

Unlocks(n) ==
    /\ net' = net
    /\ Tells(srv[n].by, "finalize", n)
    /\ srv'[n].by = None
    /\ \A m \in Name : m # n => srv'[m].by = srv[m].by

Silent ==
    /\ net' = net
    /\ reply' = reply
    /\ \A m \in Name : srv'[m].by \in {srv[m].by, None}

Fails ==
    /\ net' = net
    /\ \A m \in Name : srv'[m].by = None
    /\ \A c \in Caller : reply'[c] = IF \E n \in Name : srv[n].by = c
                                     THEN [kind |-> "error", off |-> 0] ELSE reply[c]

LEMMA HandleTalks ==
    ASSUME AllTypes, Placed, NEW r \in net, Handle(r)
    PROVE  Answers(r) \/ Locks(r)
<1>0. r.n \in Name /\ r.by \in Caller \union {None} /\ r.off \in 0 .. Size /\ Backed(r.n)
  BY DEF AllTypes, TalkTypes, Request, Placed
<1>t. /\ row[r.n].bytes \in 0 .. Size /\ obj[r.n] \in {"none", "own", "other"}
      /\ srv \in [Name -> SrvType]
      /\ r.op = "chunk" => r.off + 1 \in 0 .. Size
  BY <1>0, UploadAssumption DEF AllTypes, StoreTypes, RowType, TalkTypes, ChunkFits
<1>n. net' = net \ {r}
  BY DEF Handle, Create, Chunk, State, Finalize, Cancel, Serve
<1>p. ASSUME NEW k \in {"ok", "conflict", "refused", "error"}, NEW off \in 0 .. Size,
             Answer(r.by, k, off), srv' = srv
      PROVE  Answers(r)
  BY <1>p, <1>n DEF Answers, Tells, AnswerKind
<1>r. ASSUME Refuse(r) PROVE Answers(r)
  BY <1>r, <1>p, Numbers DEF Refuse, store
<1>1. CASE Create(r)
  <2>1. CASE live /\ ~Known(r.n) /\ dest /\ Reserved(r.n)
    <3>1. Answer(r.by, "collision", 0) /\ UNCHANGED store /\ r.op = "create"
      BY <1>1, <2>1 DEF Create, Serve
    <3>2. obj'[r.n] = "other"
      BY <1>0, <1>t, <2>1, <3>1 DEF Known, Reserved, Backed, store
    <3> QED
      BY <1>n, <3>1, <3>2, Numbers DEF Answers, Tells, AnswerKind, store
  <2>2. CASE ~(live /\ ~Known(r.n) /\ dest /\ Reserved(r.n))
    <3>1. Refuse(r) \/ (\E off \in 0 .. Size : Answer(r.by, "ok", off) /\ srv' = srv)
      BY <1>1, <2>2, <1>t, Numbers DEF Create, store
    <3> QED
      BY <3>1, <1>r, <1>p
  <2> QED
    BY <2>1, <2>2
<1>2. CASE Chunk(r)
  <2>1. \/ Refuse(r)
        \/ r.op = "chunk" /\ Answer(r.by, "ok", r.off + 1) /\ srv' = srv
        \/ Answer(r.by, "conflict", 0) /\ srv' = srv
    BY <1>2 DEF Chunk, Serve, store
  <2> QED
    BY <2>1, <1>r, <1>p, <1>t, Numbers
<1>3. CASE State(r)
  <2>1. Refuse(r) \/ (Answer(r.by, "ok", row[r.n].bytes) /\ srv' = srv)
    BY <1>3 DEF State, store
  <2> QED
    BY <2>1, <1>r, <1>p, <1>t
<1>4. CASE Finalize(r)
  <2>0. r.op = "finalize" /\ Begins(r)
    BY <1>4, FinalizeBegins DEF Finalize, Serve
  <2>1. CASE Answer(r.by, "receipt", 0) /\ UNCHANGED store /\ row[r.n].status = "finalized"
    BY <1>0, <1>n, <2>1, Numbers DEF Answers, Tells, AnswerKind, store
  <2>2. CASE Answer(r.by, "error", 0) /\ srv' = srv
    BY <2>2, <1>p, Numbers
  <2>3. ASSUME NEW k \in {"error", "collision"}, FailUpload(r.n, r.by, k),
               k = "collision" => obj[r.n] \notin {"none", "own"}
        PROVE  Answers(r)
    <3>1. Answer(r.by, k, 0) /\ obj' = obj /\ srv' = [srv EXCEPT ![r.n] = [pc |-> "idle", by |-> None]]
      BY <2>3 DEF FailUpload
    <3>2. \A m \in Name : srv'[m].by \in {srv[m].by, None}
      BY <1>0, <1>t, <3>1
    <3>3. k = "collision" => obj'[r.n] = "other"
      BY <1>t, <2>3, <3>1
    <3> QED
      BY <1>n, <2>0, <3>1, <3>2, <3>3, Numbers DEF Answers, Tells, AnswerKind
  <2>4. ASSUME NEW pc, srv' = [srv EXCEPT ![r.n] = [pc |-> pc, by |-> r.by]], reply' = reply
        PROVE  Locks(r)
    BY <1>0, <1>t, <1>n, <2>0, <2>4 DEF Locks
  <2> QED
    BY <2>0, <2>1, <2>2, <2>3, <2>4, <1>r DEF Begins, store
<1>5. CASE Cancel(r)
  <2>1. CASE Answer(r.by, "finalized", 0) /\ UNCHANGED store /\ row[r.n].status = "finalized"
    BY <1>0, <1>n, <2>1, Numbers DEF Answers, Tells, AnswerKind, store
  <2>2. CASE \E k \in {"ok", "error"} : Answer(r.by, k, 0) /\ srv' = srv
    BY <2>2, <1>p, Numbers
  <2> QED
    BY <1>5, <2>1, <2>2, <1>r DEF Cancel, store
<1> QED
  BY <1>1, <1>2, <1>3, <1>4, <1>5 DEF Handle

LEMMA HandlerTalks ==
    ASSUME AllTypes, Placed, NEW n \in Name, Handler(n)
    PROVE  Unlocks(n) \/ Silent
<1>0. Held(n) /\ Backed(n)
  BY DEF Placed
<1>t. /\ srv \in [Name -> SrvType] /\ obj[n] \in {"none", "own", "other"} /\ row[n] \in RowType
      /\ row \in [Name -> RowType]
  BY DEF AllTypes, StoreTypes
<1>n. net' = net
  BY DEF Handler, Verify, PublishLocal, CompleteLocal, CompleteFolder, Complete, CopyToFolder
<1>f. ASSUME srv' = [srv EXCEPT ![n] = [pc |-> "idle", by |-> None]], Tells(srv[n].by, "finalize", n)
      PROVE  Unlocks(n)
  BY <1>f, <1>t, <1>n DEF Unlocks
<1>k. ASSUME NEW pc, srv' = [srv EXCEPT ![n].pc = pc], reply' = reply PROVE Silent
  BY <1>k, <1>t, <1>n DEF Silent, SrvType
<1>1. CASE Verify(n)
  <2>1. CASE FailUpload(n, srv[n].by, "refused")
    <3>1. Tells(srv[n].by, "finalize", n)
      BY <2>1, Numbers DEF FailUpload, Tells, AnswerKind
    <3> QED
      BY <2>1, <3>1, <1>f DEF FailUpload
  <2> QED
    BY <1>1, <2>1, <1>k DEF Verify
<1>2. CASE PublishLocal(n)
  <2>1. CASE FailUpload(n, srv[n].by, "collision") /\ obj[n] # "none"
    <3>1. obj'[n] = "other"
      BY <1>0, <1>t, <1>2, <2>1 DEF PublishLocal, Held, FailUpload
    <3>2. Tells(srv[n].by, "finalize", n)
      BY <2>1, <3>1, Numbers DEF FailUpload, Tells, AnswerKind
    <3> QED
      BY <2>1, <3>2, <1>f DEF FailUpload
  <2> QED
    BY <1>2, <2>1, <1>k DEF PublishLocal
<1>3. ASSUME NEW pc, Complete(n, pc) PROVE Unlocks(n)
  <2>1. CASE hist[n] = "none"
    <3>1. row'[n].status = "finalized"
      BY <1>3, <1>t, <2>1 DEF Complete, RowType
    <3>2. Tells(srv[n].by, "finalize", n)
      BY <1>3, <2>1, <3>1, Numbers DEF Complete, Tells, AnswerKind
    <3> QED
      BY <1>3, <1>f, <3>2 DEF Complete
  <2>2. CASE hist[n] # "none"
    <3>2. Tells(srv[n].by, "finalize", n)
      BY <1>3, <2>2, Numbers DEF Complete, Tells, AnswerKind
    <3> QED
      BY <1>3, <1>f, <3>2 DEF Complete
  <2> QED
    BY <2>1, <2>2
<1>4. CASE CopyToFolder(n)
  <2>1. CASE Answer(srv[n].by, "error", 0) /\ srv' = [srv EXCEPT ![n] = [pc |-> "idle", by |-> None]]
    <3>2. Tells(srv[n].by, "finalize", n)
      BY <2>1, Numbers DEF Tells, AnswerKind
    <3> QED
      BY <2>1, <1>f, <3>2
  <2> QED
    BY <1>4, <2>1, <1>k DEF CopyToFolder
<1> QED
  BY <1>1, <1>2, <1>3, <1>4 DEF Handler, CompleteLocal, CompleteFolder

LEMMA ServerTalks ==
    ASSUME AllTypes, Placed, ServerStep
    PROVE  /\ UNCHANGED <<item, work>>
           /\ \/ \E r \in net : Answers(r) \/ Locks(r)
              \/ \E n \in Name : Unlocks(n)
              \/ Silent
              \/ Fails
<1>1. UNCHANGED <<item, work>>
  BY DEF ServerStep, Handle, Create, Chunk, State, Finalize, Cancel, Handler, Verify, PublishLocal,
     CompleteLocal, CompleteFolder, Complete, CopyToFolder, Sweep, OrphanCopies, Occupy, Revoke,
     RevokeDestination, CrashServer, phone
<1>2. ASSUME NEW n \in Name, Sweep(n) PROVE Silent
  BY <1>2 DEF Sweep, FailUpload, Answer, Silent, AllTypes, StoreTypes
<1>3. ASSUME NEW n \in Name, OrphanCopies(n) \/ Occupy(n) PROVE Silent
  BY <1>3 DEF OrphanCopies, Occupy, Silent
<1>4. CASE Revoke \/ RevokeDestination
  BY <1>1, <1>4 DEF Revoke, RevokeDestination, Silent, store
<1>5. CASE CrashServer
  BY <1>1, <1>5 DEF CrashServer, Fails
<1> QED
  BY <1>1, <1>2, <1>3, <1>4, <1>5, HandleTalks, HandlerTalks DEF ServerStep

-----------------------------------------------------------------------------
(* Calls and answers.                                                      *)

LEMMA Heard ==
    ASSUME AllTypes, NEW c \in Caller \union {None}, NEW op, NEW n, Tells(c, op, n)
    PROVE  /\ c # "worker" => reply'["worker"] = reply["worker"]
           /\ reply'["worker"].kind = "collision" =>
                \/ reply["worker"].kind = "collision"
                \/ op \in {"create", "finalize"} /\ obj'[n] = "other"
<1>1. PICK k \in AnswerKind, off \in 0 .. Size :
        Answer(c, k, off) /\ (k = "collision" => op \in {"create", "finalize"} /\ obj'[n] = "other")
  BY DEF Tells
<1> QED
  BY <1>1 DEF Answer, AllTypes, TalkTypes, ReplyType, Caller

LEMMA ServerCalls ==
    ASSUME AllTypes, Placed, Calls, CollisionReal, ServerStep, \A m \in Name : Lasts(m)
    PROVE  Calls' /\ CollisionReal'
<1>0. UNCHANGED <<item, work>> /\ work.n \in Name
  BY ServerTalks DEF AllTypes, PhoneTypes, WorkType
<1>o. None # "worker"
  BY UploadAssumption DEF Caller
<1>c. CollisionReal => (reply["worker"].kind = "collision" => obj'[work.n] = "other")
  BY <1>0 DEF CollisionReal, Lasts
<1> USE DEF Calls
<1>1. ASSUME NEW r \in net, Answers(r) PROVE Calls' /\ CollisionReal'
  <2>1. /\ r.by \in Caller \union {None} /\ r.n \in Name
    BY DEF AllTypes, TalkTypes, Request
  <2>2. /\ r.by # "worker" => reply'["worker"] = reply["worker"]
        /\ reply'["worker"].kind = "collision" =>
                \/ reply["worker"].kind = "collision"
                \/ r.op \in {"create", "finalize"} /\ obj'[r.n] = "other"
    BY <1>1, <2>1, Heard DEF Answers
  <2>3. /\ net' = net \ {r}
        /\ \A m \in Name : srv'[m].by = "worker" => srv[m].by = "worker"
    BY <1>1, <1>o DEF Answers
  <2>4. OneCall'
    BY <2>2, <2>3 DEF OneCall
  <2>5. CallNamed'
    BY <1>0, <2>3 DEF CallNamed
  <2>6. AtRest'
    BY <1>0, <2>2, <2>3 DEF AtRest, Waiting
  <2>7. CollisionReal'
    BY <1>0, <1>c, <2>2 DEF CollisionReal, CallNamed
  <2> QED
    BY <2>4, <2>5, <2>6, <2>7
<1>2. ASSUME NEW r \in net, Locks(r) PROVE Calls' /\ CollisionReal'
  <2>1. r.n \in Name
    BY DEF AllTypes, TalkTypes, Request
  <2>2. /\ net' = net \ {r} /\ r.op = "finalize" /\ reply' = reply
        /\ \A m \in Name : srv'[m].by = IF m = r.n THEN r.by ELSE srv[m].by
    BY <1>2, <2>1 DEF Locks
  <2>3. OneCall'
    BY <2>2 DEF OneCall
  <2>4. CallNamed'
    BY <1>0, <2>2 DEF CallNamed
  <2>5. AtRest'
    BY <1>0, <2>2 DEF AtRest, Waiting
  <2>6. CollisionReal'
    BY <1>0, <1>c, <2>2 DEF CollisionReal
  <2> QED
    BY <2>3, <2>4, <2>5, <2>6
<1>3. ASSUME NEW n \in Name, Unlocks(n) PROVE Calls' /\ CollisionReal'
  <2>1. srv[n].by \in Caller \union {None}
    BY DEF AllTypes, StoreTypes, SrvType
  <2>2. /\ srv[n].by # "worker" => reply'["worker"] = reply["worker"]
        /\ reply'["worker"].kind = "collision" =>
                reply["worker"].kind = "collision" \/ obj'[n] = "other"
    BY <1>3, <2>1, Heard DEF Unlocks
  <2>3. /\ net' = net
        /\ \A m \in Name : srv'[m].by = "worker" => m # n /\ srv[m].by = "worker"
    BY <1>3, <1>o DEF Unlocks
  <2>4. OneCall'
    BY <2>2, <2>3 DEF OneCall
  <2>5. CallNamed'
    BY <1>0, <2>3 DEF CallNamed
  <2>6. AtRest'
    BY <1>0, <2>2, <2>3 DEF AtRest, Waiting
  <2>7. CollisionReal'
    BY <1>0, <1>c, <2>2 DEF CollisionReal, CallNamed
  <2> QED
    BY <2>4, <2>5, <2>6, <2>7
<1>4. CASE Silent
  <2>1. /\ net' = net /\ reply' = reply
        /\ \A m \in Name : srv'[m].by = "worker" => srv[m].by = "worker"
    BY <1>4, <1>o DEF Silent
  <2>2. OneCall' /\ CallNamed' /\ AtRest'
    BY <1>0, <2>1 DEF OneCall, CallNamed, AtRest, Waiting
  <2> QED
    BY <1>0, <1>c, <2>1, <2>2 DEF CollisionReal
<1>5. CASE Fails
  <2>1. /\ net' = net
        /\ \A m \in Name : srv'[m].by # "worker"
        /\ \/ (\A n \in Name : srv[n].by # "worker") /\ reply'["worker"] = reply["worker"]
           \/ (\E n \in Name : srv[n].by = "worker") /\ reply'["worker"].kind = "error"
    BY <1>5, <1>o DEF Fails, Caller
  <2>2. OneCall' /\ CallNamed' /\ AtRest'
    BY <1>0, <2>1 DEF OneCall, CallNamed, AtRest, Waiting
  <2> QED
    BY <1>0, <1>c, <2>1, <2>2 DEF CollisionReal
<1> QED
  BY <1>1, <1>2, <1>3, <1>4, <1>5, ServerTalks

\* The worker waits for nothing.
Quiet == /\ \A r \in net : r.by # "worker"
         /\ \A n \in Name : srv[n].by # "worker"
         /\ reply["worker"].kind = "none"

LEMMA QuietCalls == Quiet => Calls /\ CollisionReal
BY DEF Quiet, Calls, OneCall, CallNamed, AtRest, CollisionReal, Waiting

\* From rest, one call for the name the worker is at, or a cancel.
LEMMA CallMade ==
    ASSUME AllTypes, NEW op, NEW n, NEW off, Call(op, n, off), srv' = srv,
           \A r \in net : r.by # "worker", \A m \in Name : srv[m].by # "worker",
           work'.pc \notin {"idle", "sync", "clean"},
           op \in {"create", "finalize"} => n = work'.n
    PROVE  Calls' /\ CollisionReal'
<1>1. reply'["worker"].kind = "none"
  BY DEF Call, NoReply, AllTypes, TalkTypes, ReplyType, Caller
<1>2. \A r \in net' : r.by = "worker" => r = Ask("worker", op, n, off)
  BY DEF Call
<1>3. Ask("worker", op, n, off).n = n /\ Ask("worker", op, n, off).op = op
  BY DEF Ask
<1>4. OneCall'
  BY <1>1, <1>2 DEF OneCall
<1>5. CallNamed'
  BY <1>2, <1>3 DEF CallNamed
<1>6. AtRest' /\ CollisionReal'
  BY <1>1 DEF AtRest, CollisionReal
<1> QED
  BY <1>4, <1>5, <1>6 DEF Calls

LEMMA NoCallQuiet ==
    ASSUME AllTypes, NoCall, srv' = srv,
           \A r \in net : r.by # "worker", \A m \in Name : srv[m].by # "worker"
    PROVE  Quiet'
BY DEF NoCall, NoReply, AllTypes, TalkTypes, ReplyType, Caller, Quiet

LEMMA PhoneCalls ==
    ASSUME AllTypes, Calls, CollisionReal, PhoneStep \/ UNCHANGED vars
    PROVE  Calls' /\ CollisionReal'
<1>o. None # "worker" /\ "ui" # "worker"
  BY UploadAssumption DEF Caller
<1>q. Quiet' => Calls' /\ CollisionReal'
  BY QuietCalls, PTL
<1>g. reply["worker"].kind # "none" => /\ \A r \in net : r.by # "worker"
                                      /\ \A m \in Name : srv[m].by # "worker"
  BY DEF Calls, OneCall
<1>r. work.pc \in {"idle", "sync", "clean"} => Quiet
  BY DEF Calls, AtRest, Waiting, Quiet
<1>1. CASE \/ Stage \/ Enqueue \/ RetryItem \/ RemoveItem \/ UNCHANGED vars
  <2>1. UNCHANGED <<net, srv, reply, work, obj>>
    BY <1>1 DEF Stage, Enqueue, RetryItem, RemoveItem, store, vars, phone
  <2> QED
    BY <2>1 DEF Calls, OneCall, CallNamed, AtRest, Waiting, CollisionReal
<1>2. CASE CancelItem
  <2>1. CASE auto
    <3>1. /\ UNCHANGED <<work, srv, reply, obj>>
          /\ \A r \in net' : r.by = "worker" => r \in net
      BY <1>2, <1>o, <2>1 DEF CancelItem, Ask
    <3> QED
      BY <3>1 DEF Calls, OneCall, CallNamed, AtRest, Waiting, CollisionReal
  <2>2. CASE ~auto
    <3>1. \A r \in net' : r.by # "worker"
      <4>1. \A r \in Disown("worker") : r.by # "worker"
        BY <1>o DEF Disown, AllTypes, TalkTypes, Request
      <4> QED
        BY <1>2, <1>o, <2>2, <4>1 DEF CancelItem, Ask
    <3>2. \A m \in Name : srv'[m].by # "worker"
      BY <1>2, <1>o, <2>2 DEF CancelItem, Hangup, AllTypes, StoreTypes, SrvType
    <3>3. reply'["worker"].kind = "none"
      BY <1>2, <2>2 DEF CancelItem, NoReply, AllTypes, TalkTypes, ReplyType, Caller
    <3> QED
      BY <1>q, <3>1, <3>2, <3>3 DEF Quiet
  <2> QED
    BY <2>1, <2>2
<1>3. CASE CancelAnswered
  <2>1. UNCHANGED <<net, srv, work, obj>> /\ reply'["worker"] = reply["worker"]
    BY <1>3, <1>o DEF CancelAnswered, NoReply, store, AllTypes, TalkTypes, ReplyType, Caller
  <2> QED
    BY <2>1 DEF Calls, OneCall, CallNamed, AtRest, Waiting, CollisionReal
<1>4. CASE WorkerStart
  <2>1. Quiet /\ srv' = srv
    BY <1>4, <1>r DEF WorkerStart, store
  <2>2. CASE Call("create", item.n, 0)
             /\ work' = [Idle EXCEPT !.pc = "create", !.n = item.n, !.uid = item.uid]
    <3>1. work'.pc = "create" /\ work'.n = item.n
      BY <2>2 DEF Idle
    <3> QED
      BY <2>1, <2>2, <3>1, CallMade DEF Quiet
  <2>3. CASE UNCHANGED <<net, reply>>
    BY <1>q, <2>1, <2>3 DEF Quiet
  <2> QED
    BY <1>4, <2>2, <2>3 DEF WorkerStart
<1>5. CASE Created \/ ChunkSent \/ Requeried \/ Finalized
  <2>1. Turn
    BY <1>5, TypeParts, Turns DEF AllTypes
  <2>2. /\ \A r \in net : r.by # "worker"
        /\ \A m \in Name : srv[m].by # "worker"
        /\ srv' = srv
    BY <1>g, <2>1 DEF Turn, Reply, store
  <2>w. work \in WorkType
    BY DEF AllTypes, PhoneTypes
  <2>3. CASE Rests
    BY <1>q, <2>2, <2>3, NoCallQuiet DEF Rests
  <2>4. CASE CallsOn
    <3>1. PICK op \in {"chunk", "state", "finalize"}, at \in 0 .. Size, off \in 0 .. Size :
            work' = [work EXCEPT !.pc = op, !.off = at] /\ Call(op, work.n, off)
      BY <2>4 DEF CallsOn
    <3>2. work'.pc = op /\ work'.n = work.n
      BY <2>w, <3>1 DEF WorkType
    <3> QED
      BY <2>2, <3>1, <3>2, CallMade
  <2>5. CASE MovesOn
    <3>1. work' = [work EXCEPT !.pc = "create", !.n = @ + 1] /\ Call("create", work.n + 1, 0)
      BY <2>5 DEF MovesOn, Collided
    <3>2. work'.pc = "create" /\ work'.n = work.n + 1
      BY <2>w, <3>1 DEF WorkType
    <3> QED
      BY <2>2, <3>1, <3>2, CallMade
  <2> QED
    BY <2>1, <2>3, <2>4, <2>5 DEF Turn
<1>6. CASE SyncCancellation
  <2>1. Quiet /\ srv' = srv
    BY <1>6, <1>r DEF SyncCancellation, store
  <2>2. CASE Call("cancel", item.uid, 0) /\ work' = [work EXCEPT !.pc = "cancel"]
    <3>1. work'.pc = "cancel"
      BY <2>2 DEF AllTypes, PhoneTypes, WorkType
    <3> QED
      BY <2>1, <2>2, <3>1, CallMade DEF Quiet
  <2>3. CASE UNCHANGED <<net, reply>>
    BY <1>q, <2>1, <2>3 DEF Quiet
  <2> QED
    BY <1>6, <2>2, <2>3 DEF SyncCancellation
<1>7. CASE SyncAnswered
  <2>1. NoCall /\ srv' = srv /\ reply["worker"].kind # "none"
    BY <1>7 DEF SyncAnswered, Got, store
  <2> QED
    BY <1>g, <1>q, <2>1, NoCallQuiet
<1>8. CASE CleanupStaging
  <2>1. Quiet /\ UNCHANGED <<srv, net, reply>>
    BY <1>8, <1>r DEF CleanupStaging, store
  <2> QED
    BY <1>q, <2>1 DEF Quiet
<1>9. ASSUME NEW c \in Caller, GiveUp(c) PROVE Calls' /\ CollisionReal'
  <2>1. UNCHANGED <<work, obj>>
    BY <1>9 DEF GiveUp, phone
  <2>n. \A r \in net : r.by \in Caller \union {None} /\ r \in Request
    BY DEF AllTypes, TalkTypes, Request
  <2>2. CASE c = "worker"
    <3>1. \A r \in net' : r.by # "worker"
      BY <1>9, <1>o, <2>2, <2>n DEF GiveUp, Disown, Request
    <3>2. \A m \in Name : srv'[m].by # "worker"
      BY <1>9, <1>o, <2>2 DEF GiveUp, Hangup, AllTypes, StoreTypes, SrvType
    <3>3. reply'["worker"].kind = "error"
      BY <1>9, <2>2 DEF GiveUp, AllTypes, TalkTypes, ReplyType
    <3>4. Waiting("worker")
      BY <1>9, <2>2 DEF GiveUp
    <3> QED
      BY <2>1, <3>1, <3>2, <3>3, <3>4 DEF Calls, OneCall, CallNamed, AtRest, CollisionReal
  <2>3. CASE c # "worker"
    <3>1. \A r \in net' : r.by = "worker" => r \in net
      BY <1>9, <1>o, <2>3, <2>n DEF GiveUp, Disown, Request
    <3>2. \A m \in Name : srv'[m].by = "worker" => srv[m].by = "worker"
      BY <1>9, <1>o, <2>3 DEF GiveUp, Hangup, AllTypes, StoreTypes, SrvType
    <3>3. reply'["worker"] = reply["worker"]
      BY <1>9, <2>3 DEF GiveUp, AllTypes, TalkTypes, ReplyType, Caller
    <3> QED
      BY <2>1, <3>1, <3>2, <3>3 DEF Calls, OneCall, CallNamed, AtRest, Waiting, CollisionReal
  <2> QED
    BY <2>2, <2>3
<1>10. CASE KillApp
  <2>1. \A r \in net' : r.by # "worker"
    BY <1>10, <1>o DEF KillApp, AllTypes, TalkTypes, Request
  <2>2. \A m \in Name : srv'[m].by # "worker"
    BY <1>10, <1>o DEF KillApp, AllTypes, StoreTypes, SrvType
  <2>3. reply'["worker"].kind = "none"
    BY <1>10 DEF KillApp, Caller
  <2> QED
    BY <1>q, <2>1, <2>2, <2>3 DEF Quiet
<1> QED
  BY <1>1, <1>2, <1>3, <1>4, <1>5, <1>6, <1>7, <1>8, <1>9, <1>10 DEF PhoneStep, WorkerStep

-----------------------------------------------------------------------------
(* Receipts and names.                                                     *)

LEMMA ServerReceipts ==
    ASSUME AllTypes, Placed, Receipts, ServerStep, \A m \in Name : Lasts(m)
    PROVE  Receipts'
<1>0. UNCHANGED <<item, work>>
  BY ServerTalks
<1>1. SomeFinal => SomeFinal'
  BY DEF SomeFinal, Lasts
<1>2. ASSUME NEW c \in Caller \union {None}, NEW op, NEW n, Tells(c, op, n)
      PROVE  \A d \in Caller : reply'[d].kind \in {"finalized", "receipt"} => SomeFinal'
  <2>1. PICK k \in AnswerKind, off \in 0 .. Size :
          Answer(c, k, off) /\ (k \in {"finalized", "receipt"} => SomeFinal')
    BY <1>2 DEF Tells, SomeFinal
  <2>2. \A d \in Caller : reply'[d] = reply[d] \/ reply'[d].kind = k
    BY <2>1 DEF Answer, AllTypes, TalkTypes, ReplyType
  <2> QED
    BY <1>1, <2>1, <2>2 DEF Receipts
<1>3. \A d \in Caller : reply'[d].kind \in {"finalized", "receipt"} => SomeFinal'
  <2>1. ASSUME NEW r \in net, Answers(r)
        PROVE  \A d \in Caller : reply'[d].kind \in {"finalized", "receipt"} => SomeFinal'
    BY <1>2, <2>1 DEF Answers, AllTypes, TalkTypes, Request
  <2>2. ASSUME NEW n \in Name, Unlocks(n)
        PROVE  \A d \in Caller : reply'[d].kind \in {"finalized", "receipt"} => SomeFinal'
    BY <1>2, <2>2 DEF Unlocks, AllTypes, StoreTypes, SrvType
  <2>3. CASE Silent \/ \E r \in net : Locks(r)
    BY <1>1, <2>3 DEF Silent, Locks, Receipts
  <2>4. CASE Fails
    BY <1>1, <2>4 DEF Fails, Receipts
  <2> QED
    BY <2>1, <2>2, <2>3, <2>4, ServerTalks
<1> QED
  BY <1>0, <1>1, <1>3 DEF Receipts

LEMMA PhoneReceipts ==
    ASSUME AllTypes, Receipts, PhoneStep \/ UNCHANGED vars, \A m \in Name : Lasts(m)
    PROVE  Receipts'
<1>1. SomeFinal => SomeFinal'
  BY DEF SomeFinal, Lasts
<1>t. reply \in ReplyType /\ item \in ItemType
  BY DEF AllTypes, TalkTypes, PhoneTypes
<1>n. ASSUME NEW c \in Caller PROVE \A d \in Caller : NoReply(c)[d] = reply[d] \/ NoReply(c)[d].kind = "none"
  BY <1>t DEF NoReply, ReplyType
<1>s. Updated([item EXCEPT !.status = "PENDING"]).status # "DONE" \/ item.status = "DONE"
  BY <1>t DEF Updated, ItemType
<1>c. Updated([item EXCEPT !.status = "CANCELLED"]).status # "DONE" \/ item.status = "DONE"
  BY <1>t DEF Updated, ItemType
<1>b. Updated([item EXCEPT !.status = "BLOCKED"]).status # "DONE" \/ item.status = "DONE"
  BY <1>t DEF Updated, ItemType
<1>u. ASSUME NEW st, NEW n, NEW uid
      PROVE  LET u == Updated([status |-> st, n |-> n, uid |-> uid]) IN u.status = st \/ u = item
  BY DEF Updated
<1>2. \A c \in Caller : reply'[c] = reply[c] \/ reply'[c].kind \in {"none", "error"}
  <2>1. CASE \/ Stage \/ Enqueue \/ RetryItem \/ RemoveItem \/ CleanupStaging \/ UNCHANGED vars
    BY <2>1 DEF Stage, Enqueue, RetryItem, RemoveItem, CleanupStaging, vars
  <2>2. CASE reply' = reply \/ \E c \in Caller : reply' = NoReply(c)
    BY <2>2, <1>n
  <2>3. CASE CancelItem \/ CancelAnswered \/ WorkerStart \/ SyncCancellation \/ SyncAnswered
    <3>1. reply' = reply \/ reply' = NoReply("worker") \/ reply' = NoReply("ui")
      BY <2>3 DEF CancelItem, CancelAnswered, WorkerStart, SyncCancellation, SyncAnswered, Call, NoCall
    <3> QED
      BY <2>2, <3>1 DEF Caller
  <2>4. CASE Created \/ ChunkSent \/ Requeried \/ Finalized
    <3>1. Turn
      BY <2>4, TypeParts, Turns DEF AllTypes
    <3>2. reply' = NoReply("worker")
      BY <3>1 DEF Turn, Rests, CallsOn, MovesOn, Collided, Call, NoCall
    <3> QED
      BY <2>2, <3>2 DEF Caller
  <2>5. ASSUME NEW c \in Caller, GiveUp(c)
        PROVE  \A d \in Caller : reply'[d] = reply[d] \/ reply'[d].kind \in {"none", "error"}
    BY <1>t, <2>5 DEF GiveUp, ReplyType
  <2>6. CASE KillApp
    BY <2>6 DEF KillApp
  <2> QED
    BY <2>1, <2>3, <2>4, <2>5, <2>6 DEF PhoneStep, WorkerStep
<1>3. item'.status = "DONE" =>
        item.status = "DONE" \/ \E c \in Caller : reply[c].kind \in {"finalized", "receipt"}
  <2>1. CASE Stage \/ Enqueue \/ RemoveItem
    BY <1>t, <2>1 DEF Stage, Enqueue, RemoveItem, ItemType
  <2>2. CASE RetryItem \/ CancelItem \/ WorkerStart
    BY <1>s, <1>c, <1>b, <2>2 DEF RetryItem, CancelItem, WorkerStart
  <2>3. CASE CancelAnswered \/ SyncAnswered
    BY <2>3 DEF CancelAnswered, SyncAnswered, Caller, Reply
  <2>4. CASE Created \/ ChunkSent \/ Requeried \/ Finalized
    <3>1. Turn
      BY <2>4, TypeParts, Turns DEF AllTypes
    <3>2. CASE Rests
      BY <1>u, <3>2 DEF Rests, Written, Reply, Caller
    <3>3. CASE CallsOn
      BY <1>u, <3>3 DEF CallsOn, Written
    <3>4. CASE MovesOn
      BY <1>u, <3>4 DEF MovesOn, Collided
    <3> QED
      BY <3>1, <3>2, <3>3, <3>4 DEF Turn
  <2>5. CASE SyncCancellation \/ CleanupStaging \/ KillApp \/ (\E c \in Caller : GiveUp(c)) \/ UNCHANGED vars
    BY <2>5 DEF SyncCancellation, CleanupStaging, KillApp, GiveUp, vars, phone
  <2> QED
    BY <2>1, <2>2, <2>3, <2>4, <2>5 DEF PhoneStep, WorkerStep
<1> QED
  BY <1>1, <1>2, <1>3 DEF Receipts

LEMMA ServerNames ==
    ASSUME AllTypes, Placed, NamesTried, ServerStep, \A m \in Name : Lasts(m)
    PROVE  NamesTried'
<1>1. UNCHANGED <<item, work>> /\ net' \subseteq net
  BY ServerTalks DEF Answers, Locks, Unlocks, Silent, Fails
<1>2. \A n \in Name : row'[n].status # "none" => Tried(n)
  BY DEF Lasts, NamesTried
<1>3. \A n : Tried(n) => \A m \in Name : m < n => obj'[m] = "other"
  BY DEF Tried, Lasts
<1> QED
  BY <1>1, <1>2, <1>3 DEF NamesTried, Tried

LEMMA UpdatedNames ==
    ASSUME NEW st, NEW n, NEW uid, Tried(item.n), item.uid # None => Tried(item.uid),
           Tried(n), uid # None => Tried(uid),
           NEW new, new = Updated([status |-> st, n |-> n, uid |-> uid])
    PROVE  Tried(new.n) /\ (new.uid # None => Tried(new.uid))
<1>1. new = item \/ (new.n = n /\ new.uid = uid)
  BY DEF Updated
<1> QED
  BY <1>1

LEMMA StatusNames ==
    ASSUME item \in ItemType, NEW st, NEW new,
           new \in {item, [item EXCEPT !.status = st], Updated([item EXCEPT !.status = st])}
    PROVE  new.n = item.n /\ new.uid = item.uid
BY DEF Updated, ItemType

LEMMA PhoneNames ==
    ASSUME AllTypes, NamesTried, CollisionReal, PhoneStep \/ UNCHANGED vars, \A m \in Name : Lasts(m)
    PROVE  NamesTried'
<1>t. item \in ItemType /\ work \in WorkType /\ work.n \in Name
  BY DEF AllTypes, PhoneTypes, WorkType
<1>w. /\ Tried(item.n) /\ Tried(work.n) /\ \A r \in net : Tried(r.n)
      /\ item.uid # None => Tried(item.uid)
      /\ work.uid # None => Tried(work.uid)
  BY DEF NamesTried
<1>0. Tried(0)
  BY DEF Tried, Name
<1>i. Idle.n = 0 /\ Idle.uid = None
  BY DEF Idle
<1> SUFFICES /\ Tried(item'.n) /\ Tried(work'.n)
             /\ item'.uid # None => Tried(item'.uid)
             /\ work'.uid # None => Tried(work'.uid)
             /\ \A r \in net' : Tried(r.n)
  <2>1. \A n : Tried(n) => \A m \in Name : m < n => obj'[m] = "other"
    BY DEF Tried, Lasts
  <2>2. \A n \in Name : row'[n].status # "none" => Tried(n)
    BY DEF Lasts, NamesTried
  <2> QED
    BY <2>1, <2>2 DEF NamesTried, Tried
<1>d. ASSUME NEW c \in Caller PROVE \A r \in Disown(c) : Tried(r.n)
  BY <1>w DEF Disown, AllTypes, TalkTypes, Request
<1>a. \A c, op, n, off : Ask(c, op, n, off).n = n
  BY DEF Ask
<1>1. CASE Stage \/ Enqueue \/ RetryItem \/ RemoveItem
  <2>1. item'.n = item.n /\ item'.uid = item.uid
    BY <1>t, <1>1, StatusNames DEF Stage, Enqueue, RetryItem, RemoveItem
  <2>2. UNCHANGED <<work, net>>
    BY <1>1 DEF Stage, Enqueue, RetryItem, RemoveItem
  <2> QED
    BY <1>w, <2>1, <2>2
<1>2. CASE CancelItem
  <2>1. item'.n = item.n /\ item'.uid = item.uid
    BY <1>t, <1>2, StatusNames DEF CancelItem
  <2>2. work' = work \/ work' = Idle
    BY <1>2 DEF CancelItem
  <2>3. \A r \in net' : Tried(r.n)
    BY <1>2, <1>a, <1>d, <1>w DEF CancelItem, Caller
  <2> QED
    BY <1>0, <1>i, <1>w, <2>1, <2>2, <2>3
<1>3. CASE CancelAnswered \/ SyncAnswered
  <2>1. item'.n = item.n /\ item'.uid = item.uid
    BY <1>t, <1>3, StatusNames DEF CancelAnswered, SyncAnswered
  <2>2. work'.n = work.n /\ work'.uid = work.uid /\ net' = net
    BY <1>t, <1>3 DEF CancelAnswered, SyncAnswered, WorkType, NoCall
  <2> QED
    BY <1>w, <2>1, <2>2
<1>4. CASE WorkerStart
  <2>1. item'.n = item.n /\ item'.uid = item.uid
    BY <1>t, <1>4, StatusNames DEF WorkerStart
  <2>2. \/ work'.n = item.n /\ work'.uid = item.uid
        \/ work'.n = 0 /\ work'.uid = None
    BY <1>4 DEF WorkerStart, Idle
  <2>3. \A r \in net' : Tried(r.n)
    BY <1>4, <1>a, <1>w DEF WorkerStart, Call
  <2> QED
    BY <1>0, <1>w, <2>1, <2>2, <2>3
<1>5. CASE Created \/ ChunkSent \/ Requeried \/ Finalized
  <2>1. Turn
    BY <1>5, TypeParts, Turns DEF AllTypes
  <2>2. CASE Rests
    <3>1. work'.n = work.n /\ work'.uid = work.uid /\ net' = net
      BY <1>t, <2>2 DEF Rests, WorkType, NoCall
    <3>2. Tried(item'.n) /\ (item'.uid # None => Tried(item'.uid))
      BY <1>w, <2>2, UpdatedNames DEF Rests, Written
    <3> QED
      BY <1>w, <3>1, <3>2
  <2>3. CASE CallsOn
    <3>1. PICK op \in {"chunk", "state", "finalize"}, at \in 0 .. Size, off \in 0 .. Size :
            /\ Written("UPLOADING", work.n, work.n)
            /\ work' = [work EXCEPT !.pc = op, !.off = at]
            /\ Call(op, work.n, off)
      BY <2>3 DEF CallsOn
    <3>2. work'.n = work.n /\ work'.uid = work.uid
      BY <1>t, <3>1 DEF WorkType
    <3>3. Tried(item'.n) /\ (item'.uid # None => Tried(item'.uid))
      BY <1>w, <3>1, UpdatedNames DEF Written
    <3>4. \A r \in net' : Tried(r.n)
      BY <1>a, <1>w, <3>1 DEF Call
    <3> QED
      BY <1>w, <3>2, <3>3, <3>4
  <2>4. CASE MovesOn
    <3>1. /\ work' = [work EXCEPT !.pc = "create", !.n = @ + 1]
          /\ item' = Updated([status |-> "UPLOADING", n |-> work.n + 1, uid |-> work.uid])
          /\ Call("create", work.n + 1, 0)
          /\ Reply.kind = "collision"
      BY <2>4 DEF MovesOn, Collided
    <3>2. obj[work.n] = "other"
      BY <3>1 DEF CollisionReal, Reply
    <3>3. Tried(work.n + 1)
      BY <1>t, <1>w, <3>2, UploadAssumption DEF Tried, Name
    <3>4. work'.n = work.n + 1 /\ work'.uid = work.uid
      BY <1>t, <3>1 DEF WorkType
    <3>5. Tried(item'.n) /\ (item'.uid # None => Tried(item'.uid))
      BY <1>w, <3>1, <3>3, UpdatedNames
    <3>6. \A r \in net' : Tried(r.n)
      BY <1>a, <1>w, <3>1, <3>3 DEF Call
    <3> QED
      BY <1>w, <3>3, <3>4, <3>5, <3>6
  <2> QED
    BY <2>1, <2>2, <2>3, <2>4 DEF Turn
<1>6. CASE SyncCancellation
  <2>1. work'.n = work.n /\ work'.uid = work.uid /\ item' = item
    BY <1>t, <1>6 DEF SyncCancellation, WorkType
  <2>2. \A r \in net' : Tried(r.n)
    BY <1>6, <1>a, <1>w DEF SyncCancellation, Call
  <2> QED
    BY <1>w, <2>1, <2>2
<1>7. CASE CleanupStaging
  BY <1>0, <1>i, <1>w, <1>7 DEF CleanupStaging
<1>8. ASSUME NEW c \in Caller, GiveUp(c)
      PROVE  UNCHANGED <<item, work>> /\ \A r \in net' : Tried(r.n)
  BY <1>d, <1>8 DEF GiveUp, phone
<1>9. CASE KillApp
  <2>1. \A r \in net' : Tried(r.n)
    BY <1>w, <1>9 DEF KillApp, AllTypes, TalkTypes, Request
  <2> QED
    BY <1>0, <1>i, <1>w, <1>9, <2>1 DEF KillApp
<1>10. CASE UNCHANGED vars
  BY <1>w, <1>10 DEF vars, phone
<1> QED
  BY <1>1, <1>2, <1>3, <1>4, <1>5, <1>6, <1>7, <1>8, <1>9, <1>10, <1>w DEF PhoneStep, WorkerStep

-----------------------------------------------------------------------------
(* What follows.                                                           *)

LEMMA UploadStart == Init => UploadInv
<1> SUFFICES ASSUME Init PROVE UploadInv
  OBVIOUS
<1>0. faults \in 0 .. MaxFaults
  BY UploadAssumption DEF Init
<1>1. TypeOK
  <2>1. PhoneTypes
    BY Numbers DEF Init, PhoneTypes, ItemType, WorkType, Idle
  <2>2. TalkTypes
    BY Numbers DEF Init, TalkTypes, ChunkFits, ReplyType, AnswerKind
  <2>3. StoreTypes
    BY Numbers DEF Init, StoreTypes, RowType, SrvType
  <2>4. RestTypes
    BY <1>0 DEF Init, RestTypes
  <2> QED
    BY <2>1, <2>2, <2>3, <2>4, TypeParts
<1>2. ChunkFits
  BY DEF Init, ChunkFits
<1>3. Quiet
  BY UploadAssumption DEF Init, Quiet, Caller
<1>4. Placed
  BY DEF Init, Placed, Held, Backed
<1>5. Receipts
  BY DEF Init, Receipts
<1>6. NamesTried
  <2>1. Tried(0)
    BY DEF Tried, Name
  <2> QED
    BY <2>1 DEF Init, NamesTried, Idle
<1> QED
  BY <1>1, <1>2, <1>3, <1>4, <1>5, <1>6, QuietCalls DEF UploadInv

LEMMA UploadStep == UploadInv /\ [Next]_vars => UploadInv'
<1> SUFFICES ASSUME UploadInv, [Next]_vars PROVE UploadInv'
  OBVIOUS
<1>0. AllTypes /\ TypeOK /\ ChunkFits /\ Placed /\ Calls /\ CollisionReal /\ Receipts /\ NamesTried
  BY TypeParts DEF UploadInv, AllTypes
<1>1. TypeOK' /\ ChunkFits'
  BY <1>0, TypeStep
<1>2. Placed'
  BY <1>0, PlacedStep
<1>3. \A m \in Name : Lasts(m)
  BY <1>0, Lasting
<1>4. CASE ServerStep
  BY <1>0, <1>1, <1>2, <1>3, <1>4, ServerCalls, ServerReceipts, ServerNames DEF UploadInv
<1>5. CASE PhoneStep \/ UNCHANGED vars
  BY <1>0, <1>1, <1>2, <1>3, <1>5, PhoneCalls, PhoneReceipts, PhoneNames DEF UploadInv
<1> QED
  BY <1>4, <1>5 DEF Next

\* Two published names would each have to be somebody else's for the other.
LEMMA PublishedUnderOneName ==
    ASSUME TypeOK, Placed, NamesTried
    PROVE  PublishedOnce
<1> DEFINE Own == {n \in Name : obj[n] = "own"}
<1>1. \A m, n \in Own : m = n
  <2> SUFFICES ASSUME NEW m \in Own, NEW n \in Own, m < n PROVE FALSE
    BY UploadAssumption DEF Name
  <2>1. Tried(n)
    BY DEF Placed, Backed, NamesTried
  <2> QED
    BY <2>1 DEF Tried
<1>2. CASE Own = {}
  BY <1>2, FS_EmptySet DEF PublishedOnce
<1>3. CASE Own # {}
  <2>1. PICK n \in Own : TRUE
    BY <1>3
  <2>2. Own = {n}
    BY <1>1, <2>1
  <2>3. Cardinality(Own) = 1
    BY <2>2, FS_Singleton
  <2> QED
    BY <2>3 DEF PublishedOnce
<1> QED
  BY <1>2, <1>3

\* One intent is published under at most one name, and every variable keeps its
\* type: no crash of either side, lost answer, late request or revocation makes
\* the versioned retry of transferItem upload a file that finalizeMobileUpload
\* had already put in place, for any number of names, chunks and faults.
THEOREM UploadPublishedOnce == Spec => []UploadInvariant
<1>1. UploadInv => UploadInvariant
  BY PublishedUnderOneName DEF UploadInv, UploadInvariant
<1> QED
  BY <1>1, UploadStart, UploadStep, PTL DEF Spec

\* A phone that shows DONE has its file in place, its row finalized and the
\* success in the history (finalizeMobileUpload, syncServerCancellations,
\* cancelItem), whatever answers were lost and whoever crashed.
THEOREM DoneMeansPublished == Spec => []DoneIsPublished
<1>1. UploadInv => DoneIsPublished
  BY DEF UploadInv, Receipts, SomeFinal, Placed, Backed, DoneIsPublished
<1> QED
  BY <1>1, UploadStart, UploadStep, PTL DEF Spec

=============================================================================
