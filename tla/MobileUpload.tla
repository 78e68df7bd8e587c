---------------------------- MODULE MobileUpload ----------------------------
(***************************************************************************)
(* One file shared from the phone to the server: the queue item and its    *)
(* staged copy on the phone, the worker that drains the queue, the user's  *)
(* cancel, the requests between phone and server, and the server's upload  *)
(* rows with their staging file, published file and history row.           *)
(*                                                                         *)
(* An automatic item that meets a name collision is uploaded again under   *)
(* its next versioned name with the key derived for it, so that the        *)
(* attempt number stands for the name, the idempotency key, the server row *)
(* and the published path at once.                                         *)
(***************************************************************************)
EXTENDS Integers, FiniteSets

CONSTANTS
    Size,         \* chunks of the file
    MaxAttempts,  \* UploadNaming.MAX_ATTEMPTS
    MaxFaults,    \* give-ups, kills, crashes, failed copies, bad checksums
    None

Name == 0 .. MaxAttempts
Caller == {"worker", "ui"}

ASSUME UploadAssumption ==
    /\ Size \in Nat /\ MaxAttempts \in Nat /\ MaxFaults \in Nat
    /\ None \notin Name /\ None \notin Caller

VARIABLES
    auto,     \* the item carries a mediaIdentity
    folder,   \* the destination is a managed folder, not the landing root
    item,     \* the durable queue item
    copy,     \* the phone's staged copy exists
    due,      \* a worker pass is enqueued
    work,     \* the running worker
    ui,       \* the coroutine of cancelItem
    net,      \* requests on their way
    reply,    \* the answer each caller is about to read
    row,      \* mobile_uploads
    stage,    \* the server's staging file
    hist,     \* the operation_log row with the upload's dedupe_key
    obj,      \* what is published under the name
    srv,      \* the request that holds the upload lock
    orphan,   \* copies whose server died
    live,     \* the registration is not revoked
    dest,     \* the destination is not revoked
    faults

phone == <<item, copy, due, work, ui>>
store == <<row, stage, hist, obj, srv, orphan>>
admin == <<live, dest>>
kind == <<auto, folder>>
vars == <<phone, net, reply, store, admin, kind, faults>>

Pending == {"PENDING", "UPLOADING", "FAILED", "BLOCKED"}
Terminal == {"finalized", "failed", "cancelled"}

Request == [op : {"create", "chunk", "state", "finalize", "cancel"},
            n : Name, off : 0 .. Size, by : Caller \union {None}]

Idle == [pc |-> "idle", n |-> 0, uid |-> None, off |-> 0, again |-> FALSE]

TypeOK ==
    /\ auto \in BOOLEAN /\ folder \in BOOLEAN
    /\ item \in [status : Pending \union
                          {"new", "staged", "CANCELLED", "DONE", "removed"},
                 n : Name, uid : Name \union {None}]
    /\ copy \in BOOLEAN /\ due \in BOOLEAN
    /\ work \in [pc : {"idle", "create", "chunk", "state", "finalize", "cancel",
                       "sync", "clean"},
                 n : Name, uid : Name \union {None}, off : 0 .. Size,
                 again : BOOLEAN]
    /\ ui \in Name \union {None}
    /\ net \subseteq Request
    /\ reply \in [Caller -> [kind : {"none", "ok", "finalized", "receipt",
                                     "collision", "conflict", "refused",
                                     "error"},
                             off : 0 .. Size]]
    /\ row \in [Name -> [status : Terminal \union
                                  {"none", "created", "uploading",
                                   "verifying", "publishing"},
                         bytes : 0 .. Size]]
    /\ stage \in [Name -> BOOLEAN]
    /\ hist \in [Name -> {"none", "failed", "success"}]
    /\ obj \in [Name -> {"none", "own", "other"}]
    /\ srv \in [Name -> [pc : {"idle", "verify", "publish", "complete",
                               "copying", "copied"},
                         by : Caller \union {None}]]
    /\ orphan \subseteq Name
    /\ live \in BOOLEAN /\ dest \in BOOLEAN
    /\ faults \in 0 .. MaxFaults

Init ==
    /\ auto \in BOOLEAN /\ folder \in BOOLEAN
    /\ item = [status |-> "new", n |-> 0, uid |-> None]
    /\ copy = FALSE /\ due \in BOOLEAN
    /\ work = Idle /\ ui = None
    /\ net = {} /\ reply = [c \in Caller |-> [kind |-> "none", off |-> 0]]
    /\ row = [n \in Name |-> [status |-> "none", bytes |-> 0]]
    /\ stage = [n \in Name |-> FALSE]
    /\ hist = [n \in Name |-> "none"]
    /\ obj \in [Name -> {"none", "other"}]
    /\ srv = [n \in Name |-> [pc |-> "idle", by |-> None]]
    /\ orphan = {} /\ live = TRUE /\ dest = TRUE
    /\ faults = 0

Fault == faults < MaxFaults /\ faults' = faults + 1

-----------------------------------------------------------------------------
(* Requests and answers.  A caller waits for one answer at a time; a       *)
(* request it no longer waits for may still reach the server.              *)

Waiting(c) ==
    \/ \E r \in net : r.by = c
    \/ \E n \in Name : srv[n].by = c
    \/ reply[c].kind # "none"

Disown(c) ==
    {IF r.by = c THEN [r EXCEPT !.by = None] ELSE r : r \in net}

Hangup(c) == [n \in Name |-> IF srv[n].by = c THEN [srv[n] EXCEPT !.by = None]
                                              ELSE srv[n]]

NoReply(c) == [reply EXCEPT ![c] = [kind |-> "none", off |-> 0]]

Ask(c, op, n, off) == [op |-> op, n |-> n, off |-> off, by |-> c]

Answer(c, k, off) ==
    reply' = IF c = None THEN reply
             ELSE [reply EXCEPT ![c] = [kind |-> k, off |-> off]]

-----------------------------------------------------------------------------
(* The phone: the durable queue.                                           *)

\* UploadQueueStore.update: a terminal item is not resurrected.
Updated(new) ==
    IF \/ item.status \in {"new", "staged", "removed"}
       \/ item.status = "CANCELLED" /\ new.status \notin {"CANCELLED", "DONE"}
       \/ item.status = "DONE" /\ new.status # "DONE"
    THEN item ELSE new

\* ContentStager.stage: the copy is on disk before the queue knows of it.
Stage ==
    /\ item.status = "new"
    /\ item' = [item EXCEPT !.status = "staged"]
    /\ copy' = TRUE
    /\ UNCHANGED <<due, work, ui, net, reply, store, admin, kind, faults>>

\* ExistingWorkPolicy.KEEP: nothing is enqueued while a worker runs.
Kept == due \/ work.pc = "idle"

\* store.add and scheduleUploads.
Enqueue ==
    /\ item.status = "staged"
    /\ item' = [item EXCEPT !.status = "PENDING"]
    /\ due' = Kept
    /\ UNCHANGED <<copy, work, ui, net, reply, store, admin, kind, faults>>

RetryItem ==
    /\ item.status \in Pending \union {"CANCELLED"}
    /\ item' = Updated([item EXCEPT !.status = "PENDING"])
    /\ due' = Kept
    /\ UNCHANGED <<copy, work, ui, net, reply, store, admin, kind, faults>>

\* cancelItem: the durable request first; the running manual worker is
\* replaced (the automatic drainer is not); the remote cancel is sent when
\* the item knows its upload.
CancelItem ==
    /\ item.status \in Pending \union {"CANCELLED"}
    /\ ui = None
    /\ item' = Updated([item EXCEPT !.status = "CANCELLED"])
    /\ due' = TRUE
    /\ LET left == IF auto THEN net ELSE Disown("worker") IN
       IF item.uid = None
       THEN copy' = FALSE /\ ui' = None /\ net' = left
       ELSE /\ ui' = item.uid
            /\ net' = left \union {Ask("ui", "cancel", item.uid, 0)}
            /\ UNCHANGED copy
    /\ IF auto THEN UNCHANGED <<work, srv, reply>>
       ELSE /\ work' = Idle
            /\ srv' = Hangup("worker")
            /\ reply' = NoReply("worker")
    /\ UNCHANGED <<row, stage, hist, obj, orphan, admin, kind, faults>>

\* The rest of cancelItem: the copy is dropped after the remote attempt and
\* a cancel that lost to finalize becomes DONE.
CancelAnswered ==
    /\ ui # None
    /\ reply["ui"].kind # "none"
    /\ copy' = FALSE
    /\ item' = IF reply["ui"].kind = "finalized"
               THEN Updated([item EXCEPT !.status = "DONE"]) ELSE item
    /\ ui' = None
    /\ reply' = NoReply("ui")
    /\ UNCHANGED <<due, work, net, store, admin, kind, faults>>

RemoveItem ==
    /\ item.status \in {"FAILED", "BLOCKED", "CANCELLED", "DONE"}
    /\ item' = [item EXCEPT !.status = "removed"]
    /\ copy' = FALSE
    /\ UNCHANGED <<due, work, ui, net, reply, store, admin, kind, faults>>

-----------------------------------------------------------------------------
(* The phone: one pass of the worker.                                      *)

NoCall == UNCHANGED net /\ reply' = NoReply("worker")

Call(op, n, off) ==
    /\ net' = net \union {Ask("worker", op, n, off)}
    /\ reply' = NoReply("worker")

\* A pass reads pendingItems once; an item whose staged copy is gone is
\* blocked, and only an item still pending is transferred.
WorkerStart ==
    /\ work.pc = "idle"
    /\ due
    /\ due' = FALSE
    /\ IF item.status \in Pending /\ copy
       THEN /\ work' = [Idle EXCEPT !.pc = "create", !.n = item.n,
                                    !.uid = item.uid]
            /\ Call("create", item.n, 0)
            /\ UNCHANGED item
       ELSE /\ work' = [Idle EXCEPT !.pc = "sync"]
            /\ item' = IF item.status \in Pending
                       THEN Updated([item EXCEPT !.status = "BLOCKED"])
                       ELSE item
            /\ UNCHANGED <<net, reply>>
    /\ UNCHANGED <<copy, ui, store, admin, kind, faults>>

\* The outcome is written over the item as the pass loaded it: the upload id
\* that onProgress stored is not part of that snapshot.
Outcome(status, again) ==
    /\ item' = Updated([status |-> status, n |-> work.n, uid |-> work.uid])
    /\ work' = [work EXCEPT !.pc = "sync", !.again = again]
    /\ NoCall

\* onProgress: a durable CANCELLED or DONE ends the transfer.
Superseded == item.status \in {"CANCELLED", "DONE"}

Progress ==
    item' = Updated([status |-> "UPLOADING", n |-> work.n, uid |-> work.n])

\* The top of the chunk loop, at the durable offset; finalize after it.
Continue(off) ==
    IF off < Size
    THEN IF copy
         THEN /\ work' = [work EXCEPT !.pc = "chunk", !.off = off]
              /\ Call("chunk", work.n, off)
              /\ Progress
         ELSE Outcome("FAILED", FALSE)
    ELSE /\ work' = [work EXCEPT !.pc = "finalize", !.off = off]
         /\ Call("finalize", work.n, 0)
         /\ Progress

Superseding ==
    /\ work' = [work EXCEPT !.pc = "sync"]
    /\ NoCall
    /\ UNCHANGED item

\* UploadNaming.canRetry.
CanRetry == auto /\ work.n < MaxAttempts

\* transferItem: a collision is retried under the next name, persisted first.
Collided ==
    IF CanRetry
    THEN /\ work' = [work EXCEPT !.pc = "create", !.n = @ + 1]
         /\ item' = Updated([status |-> "UPLOADING", n |-> work.n + 1,
                             uid |-> work.uid])
         /\ Call("create", work.n + 1, 0)
    ELSE Outcome("BLOCKED", FALSE)

Got(op) == work.pc = op /\ reply["worker"].kind # "none"
Reply == reply["worker"]

Created ==
    /\ Got("create")
    /\ CASE Reply.kind = "ok" -> IF Superseded THEN Superseding
                                              ELSE Continue(Reply.off)
         [] Reply.kind = "collision" -> Collided
         [] Reply.kind = "refused" -> Outcome("BLOCKED", FALSE)
         [] OTHER -> Outcome("FAILED", TRUE)
    /\ UNCHANGED <<copy, due, ui, store, admin, kind, faults>>

ChunkSent ==
    /\ Got("chunk")
    /\ CASE Reply.kind = "ok" -> IF Superseded THEN Superseding
                                              ELSE Continue(Reply.off)
         [] Reply.kind = "conflict" ->
                /\ work' = [work EXCEPT !.pc = "state"]
                /\ Call("state", work.n, 0)
                /\ UNCHANGED item
         [] Reply.kind = "refused" -> Outcome("BLOCKED", FALSE)
         [] OTHER -> Outcome("FAILED", TRUE)
    /\ UNCHANGED <<copy, due, ui, store, admin, kind, faults>>

\* A refused offset: the server's state decides whether anything moved.
Requeried ==
    /\ Got("state")
    /\ CASE Reply.kind = "ok" ->
                IF Reply.off <= work.off THEN Outcome("FAILED", FALSE)
                ELSE IF Superseded THEN Superseding ELSE Continue(Reply.off)
         [] OTHER -> Outcome("FAILED", TRUE)
    /\ UNCHANGED <<copy, due, ui, store, admin, kind, faults>>

Finalized ==
    /\ Got("finalize")
    /\ CASE Reply.kind = "receipt" -> Outcome("DONE", FALSE) /\ copy' = FALSE
         [] Reply.kind = "collision" -> Collided /\ UNCHANGED copy
         [] Reply.kind = "refused" -> Outcome("BLOCKED", FALSE) /\ UNCHANGED copy
         [] OTHER -> Outcome("FAILED", TRUE) /\ UNCHANGED copy
    /\ UNCHANGED <<due, ui, store, admin, kind, faults>>

\* syncServerCancellations: a cancelled item that knows its upload is
\* cancelled on the server; one the server had finalized becomes DONE.
SyncCancellation ==
    /\ work.pc = "sync"
    /\ IF item.status = "CANCELLED" /\ item.uid # None
       THEN /\ work' = [work EXCEPT !.pc = "cancel"]
            /\ Call("cancel", item.uid, 0)
       ELSE work' = [work EXCEPT !.pc = "clean"] /\ UNCHANGED <<net, reply>>
    /\ UNCHANGED <<item, copy, due, ui, store, admin, kind, faults>>

SyncAnswered ==
    /\ Got("cancel")
    /\ item' = IF Reply.kind = "finalized"
               THEN Updated([item EXCEPT !.status = "DONE"]) ELSE item
    /\ work' = [work EXCEPT !.pc = "clean"]
    /\ NoCall
    /\ UNCHANGED <<copy, due, ui, store, admin, kind, faults>>

\* cleanupTerminalStaging, then success or a WorkManager retry.
CleanupStaging ==
    /\ work.pc = "clean"
    /\ copy' = (copy /\ item.status \in Pending)
    /\ work' = Idle
    /\ due' = (due \/ work.again)
    /\ UNCHANGED <<item, ui, net, reply, store, admin, kind, faults>>

\* No answer in time, or a server that failed: a network failure.
GiveUp(c) ==
    /\ Waiting(c)
    /\ reply[c].kind = "none"
    /\ Fault
    /\ net' = Disown(c)
    /\ srv' = Hangup(c)
    /\ reply' = [reply EXCEPT ![c] = [kind |-> "error", off |-> 0]]
    /\ UNCHANGED <<phone, row, stage, hist, obj, orphan, admin, kind>>

\* The process is killed; WorkManager runs an unfinished pass again.
KillApp ==
    /\ work.pc # "idle" \/ ui # None
    /\ Fault
    /\ due' = (due \/ work.pc # "idle")
    /\ work' = Idle
    /\ ui' = None
    /\ net' = {[r EXCEPT !.by = None] : r \in net}
    /\ srv' = [n \in Name |-> [srv[n] EXCEPT !.by = None]]
    /\ reply' = [c \in Caller |-> [kind |-> "none", off |-> 0]]
    /\ UNCHANGED <<item, copy, row, stage, hist, obj, orphan, admin, kind>>

-----------------------------------------------------------------------------
(* The server.  A handler without an await runs to its end: nothing else   *)
(* of the server runs between its steps, but it can be killed there.       *)

JsFree == \A n \in Name : srv[n].pc \in {"idle", "copying", "copied"}
Unlocked(n) == srv[n].pc = "idle"
Open(n) == row[n].status \notin Terminal \union {"none"}

\* Takes a request off the wire; a revoked registration is refused first.
Serve(r, op) ==
    /\ r \in net
    /\ r.op = op
    /\ JsFree
    /\ net' = net \ {r}

Refuse(r) == Answer(r.by, "refused", 0) /\ UNCHANGED store

\* A mutant: Only an unfinished upload is found by its idempotency key.
KnownOpen(n) == Open(n)

\* findUploadByIdempotency.
Known(n) == row[n].status # "none"

\* The final name belongs to another upload or to a file of the landing root.
Reserved(n) == row[n].status # "none" \/ (~folder /\ obj[n] # "none")

\* createMobileUpload: the idempotency key wins over every check.
Create(r) ==
    /\ Serve(r, "create")
    /\ IF ~live THEN Refuse(r)
       ELSE LET n == r.n IN
         CASE Known(n) ->
                Answer(r.by, "ok", row[n].bytes) /\ UNCHANGED store
           [] ~Known(n) /\ ~dest -> Refuse(r)
           [] ~Known(n) /\ dest /\ Reserved(n) ->
                Answer(r.by, "collision", 0) /\ UNCHANGED store
           [] OTHER ->
                /\ row' = [row EXCEPT ![n] = [status |-> "created", bytes |-> 0]]
                /\ Answer(r.by, "ok", 0)
                /\ UNCHANGED <<stage, hist, obj, srv, orphan>>
    /\ UNCHANGED <<phone, admin, kind, faults>>

\* appendMobileUploadChunk: accepted at the durable offset only.
Chunk(r) ==
    /\ Serve(r, "chunk")
    /\ LET n == r.n IN
       CASE ~live -> Refuse(r)
         [] live /\ Unlocked(n) /\ row[n].status \in {"created", "uploading"}
                 /\ r.off = row[n].bytes ->
              /\ row' = [row EXCEPT ![n] = [status |-> "uploading",
                                           bytes |-> r.off + 1]]
              /\ stage' = [stage EXCEPT ![n] = TRUE]
              /\ Answer(r.by, "ok", r.off + 1)
              /\ UNCHANGED <<hist, obj, srv, orphan>>
         [] OTHER -> Answer(r.by, "conflict", 0) /\ UNCHANGED store
    /\ UNCHANGED <<phone, admin, kind, faults>>

State(r) ==
    /\ Serve(r, "state")
    /\ IF live THEN Answer(r.by, "ok", row[r.n].bytes) /\ UNCHANGED store
               ELSE Refuse(r)
    /\ UNCHANGED <<phone, admin, kind, faults>>

\* The rows failUpload leaves: flag and history row commit together or, when
\* the history row is there already, not at all; the staging file goes.
FailedRow(n) ==
    IF hist[n] = "none" THEN [row[n] EXCEPT !.status = "failed"] ELSE row[n]
FailedHist(n) == IF hist[n] = "none" THEN "failed" ELSE hist[n]

FailUpload(n, by, answer) ==
    /\ row' = [row EXCEPT ![n] = FailedRow(n)]
    /\ hist' = [hist EXCEPT ![n] = FailedHist(n)]
    /\ stage' = [stage EXCEPT ![n] = FALSE]
    /\ srv' = [srv EXCEPT ![n] = [pc |-> "idle", by |-> None]]
    /\ Answer(by, answer, 0)
    /\ UNCHANGED <<obj, orphan>>

\* A mutant: finalize without the crash-window recovery.
PublishingForgotten(n, here) == FALSE /\ here

\* The crash window: the row says publishing and the file is in place, or
\* neither the file nor its staging is left.
Publishing(n, here) == row[n].status = "publishing" /\ (here \/ ~stage[n])

\* A mutant: The file found in place is not hashed.
MatchesUnseen(n) == n \in Name

\* The file in place has the digest the row recorded.
Matches(n) == obj[n] = "own"

\* finalizeMobileUpload up to its first write.  A publishing row whose file
\* is in place is completed, one that lost its data is failed.
Finalize(r) ==
    /\ Serve(r, "finalize")
    /\ LET n == r.n
           here == ~folder /\ obj[n] # "none"
           to(pc) == srv' = [srv EXCEPT ![n] = [pc |-> pc, by |-> r.by]]
       IN
       CASE ~live -> Refuse(r)
         [] live /\ row[n].status = "finalized" /\ Unlocked(n) ->
              Answer(r.by, "receipt", 0) /\ UNCHANGED store
         [] live /\ (~Unlocked(n) \/ row[n].status \in {"none", "failed", "cancelled"}) ->
              Answer(r.by, "error", 0) /\ UNCHANGED store
         [] live /\ Unlocked(n) /\ Open(n) /\ ~dest -> Refuse(r)
         [] live /\ Unlocked(n) /\ Open(n) /\ dest /\ Publishing(n, here) ->
              IF ~here THEN FailUpload(n, r.by, "error")
              ELSE IF ~Matches(n) THEN FailUpload(n, r.by, "collision")
              ELSE to("complete") /\ UNCHANGED <<reply, row, stage, hist, obj, orphan>>
         [] live /\ Unlocked(n) /\ Open(n) /\ dest /\ ~Publishing(n, here)
                 /\ row[n].bytes < Size ->
              Answer(r.by, "error", 0) /\ UNCHANGED store
         [] OTHER ->
              /\ row' = [row EXCEPT ![n].status =
                            IF @ = "publishing" THEN @ ELSE "verifying"]
              /\ IF stage[n] THEN to("verify") /\ UNCHANGED reply
                 ELSE Answer(r.by, "error", 0) /\ UNCHANGED srv
              /\ UNCHANGED <<stage, hist, obj, orphan>>
    /\ UNCHANGED <<phone, admin, kind, faults>>

\* The digest of the staging file against the declared one.
Verify(n) ==
    /\ srv[n].pc = "verify"
    /\ \/ /\ row' = [row EXCEPT ![n].status = "publishing"]
          /\ srv' = [srv EXCEPT ![n].pc = IF folder THEN "copying" ELSE "publish"]
          /\ UNCHANGED <<reply, stage, hist, obj, orphan, faults>>
       \/ Fault /\ FailUpload(n, srv[n].by, "refused")
    /\ UNCHANGED <<phone, net, admin, kind>>

\* Landing root: an occupied name is a collision, else the rename.
PublishLocal(n) ==
    /\ srv[n].pc = "publish"
    /\ IF obj[n] # "none" THEN FailUpload(n, srv[n].by, "collision")
       ELSE /\ obj' = [obj EXCEPT ![n] = "own"]
            /\ stage' = [stage EXCEPT ![n] = FALSE]
            /\ srv' = [srv EXCEPT ![n].pc = "complete"]
            /\ UNCHANGED <<reply, row, hist, orphan>>
    /\ UNCHANGED <<phone, net, admin, kind, faults>>

\* The completing transaction: finalized and history together; a history
\* row with this dedupe_key aborts it.
Complete(n, pc) ==
    /\ srv[n].pc = pc
    /\ srv' = [srv EXCEPT ![n] = [pc |-> "idle", by |-> None]]
    /\ IF hist[n] = "none"
       THEN /\ row' = [row EXCEPT ![n].status = "finalized"]
            /\ hist' = [hist EXCEPT ![n] = "success"]
            /\ stage' = [stage EXCEPT ![n] = FALSE]
            /\ Answer(srv[n].by, "receipt", 0)
       ELSE Answer(srv[n].by, "error", 0) /\ UNCHANGED <<row, hist, stage>>
    /\ UNCHANGED <<phone, net, obj, orphan, admin, kind, faults>>

CompleteLocal(n) == Complete(n, "complete")
CompleteFolder(n) == JsFree /\ Complete(n, "copied")

\* rclone copyto --immutable, in a process of its own; on failure the row
\* stays publishing.
CopyToFolder(n) ==
    /\ srv[n].pc = "copying"
    /\ \/ /\ obj[n] # "other"
          /\ obj' = [obj EXCEPT ![n] = "own"]
          /\ srv' = [srv EXCEPT ![n].pc = "copied"]
          /\ UNCHANGED <<reply, faults>>
       \/ /\ IF obj[n] = "other" \/ ~stage[n] THEN UNCHANGED faults ELSE Fault
          /\ JsFree
          /\ srv' = [srv EXCEPT ![n] = [pc |-> "idle", by |-> None]]
          /\ Answer(srv[n].by, "error", 0)
          /\ UNCHANGED obj
    /\ UNCHANGED <<phone, net, row, stage, hist, orphan, admin, kind>>

\* cancelMobileUpload.
Cancel(r) ==
    /\ Serve(r, "cancel")
    /\ LET n == r.n IN
       CASE ~live -> Refuse(r)
         [] live /\ ~Unlocked(n) -> Answer(r.by, "error", 0) /\ UNCHANGED store
         [] live /\ Unlocked(n) /\ row[n].status = "finalized" ->
              Answer(r.by, "finalized", 0) /\ UNCHANGED store
         [] live /\ Unlocked(n) /\ row[n].status = "failed" ->
              Answer(r.by, "ok", 0) /\ UNCHANGED store
         [] OTHER ->
              /\ row' = [row EXCEPT ![n].status = "cancelled"]
              /\ stage' = [stage EXCEPT ![n] = FALSE]
              /\ Answer(r.by, "ok", 0)
              /\ UNCHANGED <<hist, obj, srv, orphan>>
    /\ UNCHANGED <<phone, admin, kind, faults>>

\* reconcileAbandonedMobileUploads, for a row without activity for the TTL.
Sweep(n) ==
    /\ JsFree /\ Unlocked(n) /\ Open(n)
    /\ \A r \in net : r.by # None => r.n # n
    /\ work.pc \in {"create", "chunk", "state", "finalize"} => work.n # n
    /\ FailUpload(n, None, "error")
    /\ UNCHANGED <<phone, net, admin, kind, faults>>

\* Registration revoke with revokeRegistrationUploads: no lock is taken.
Revoke ==
    /\ JsFree /\ live
    /\ live' = FALSE /\ dest' = FALSE
    /\ row' = [n \in Name |-> IF Open(n) THEN FailedRow(n) ELSE row[n]]
    /\ hist' = [n \in Name |-> IF Open(n) THEN FailedHist(n) ELSE hist[n]]
    /\ stage' = [n \in Name |-> stage[n] /\ ~Open(n)]
    /\ UNCHANGED <<phone, net, reply, obj, srv, orphan, kind, faults>>

RevokeDestination ==
    /\ JsFree /\ dest
    /\ dest' = FALSE
    /\ UNCHANGED <<phone, net, reply, store, live, kind, faults>>

\* The server dies: the locks go with it, its callers see a network error
\* and a running rclone is left to itself.
CrashServer ==
    /\ \E n \in Name : srv[n].pc # "idle"
    /\ Fault
    /\ orphan' = orphan \union {n \in Name : srv[n].pc = "copying"}
    /\ srv' = [n \in Name |-> [pc |-> "idle", by |-> None]]
    /\ reply' = [c \in Caller |-> IF \E n \in Name : srv[n].by = c
                                  THEN [kind |-> "error", off |-> 0]
                                  ELSE reply[c]]
    /\ UNCHANGED <<phone, net, row, stage, hist, obj, admin, kind>>

OrphanCopies(n) ==
    /\ n \in orphan
    /\ orphan' = orphan \ {n}
    /\ obj' = [obj EXCEPT ![n] = IF @ = "none" THEN "own" ELSE @]
    /\ UNCHANGED <<phone, net, reply, row, stage, hist, srv, admin, kind, faults>>

\* Another file takes a free name of the destination.
Occupy(n) ==
    /\ obj[n] = "none"
    /\ obj' = [obj EXCEPT ![n] = "other"]
    /\ UNCHANGED <<phone, net, reply, row, stage, hist, srv, orphan, admin, kind,
                   faults>>

-----------------------------------------------------------------------------
WorkerStep ==
    \/ WorkerStart \/ Created \/ ChunkSent \/ Requeried \/ Finalized
    \/ SyncCancellation \/ SyncAnswered \/ CleanupStaging

PhoneStep ==
    \/ Stage \/ Enqueue \/ RetryItem \/ CancelItem \/ CancelAnswered \/ RemoveItem
    \/ WorkerStep
    \/ \E c \in Caller : GiveUp(c)
    \/ KillApp

Handle(r) == Create(r) \/ Chunk(r) \/ State(r) \/ Finalize(r) \/ Cancel(r)

Handler(n) == \/ Verify(n) \/ PublishLocal(n) \/ CompleteLocal(n)
              \/ CopyToFolder(n) \/ CompleteFolder(n)

ServerStep ==
    \/ \E r \in net : Handle(r)
    \/ \E n \in Name : Handler(n) \/ Sweep(n) \/ OrphanCopies(n) \/ Occupy(n)
    \/ Revoke \/ RevokeDestination \/ CrashServer

Next == PhoneStep \/ ServerStep

Spec == Init /\ [][Next]_vars

\* The worker and the handlers keep going and an awaited request is served;
\* nothing is assumed of the user, the administrator or the network.
Fairness ==
    /\ WF_vars(WorkerStep)
    /\ WF_vars(\E r \in net : r.by # None /\ Handle(r))
    /\ \A n \in Name : WF_vars(Handler(n))

FairSpec == Spec /\ Fairness

-----------------------------------------------------------------------------
\* A phone that shows DONE has its file published under the receipt's name,
\* by a finalized row with its success in the history: the receipt is only
\* sent after the completing transaction, whatever crashed before it.
DoneIsPublished ==
    item.status = "DONE" =>
        \E n \in Name : /\ obj[n] = "own"
                        /\ row[n].status = "finalized"
                        /\ hist[n] = "success"

\* One intent is published once: a crash, a lost answer or a restart never
\* makes the versioned retry of transferItem upload a file the server had
\* already put in place under an earlier name.
PublishedOnce == Cardinality({n \in Name : obj[n] = "own"}) <= 1

\* The state invariant: types, and what is published once.
UploadInvariant == TypeOK /\ PublishedOnce

\* A transfer that began ends: verified, given up by the user or the
\* administrator, or refused for a reason the user must resolve.
UploadSettles ==
    item.status = "UPLOADING" ~>
        \/ item.status \in {"DONE", "CANCELLED", "BLOCKED", "removed"}
        \/ \E n \in Name : row[n].status \in {"failed", "cancelled"}
        \/ folder /\ \E n \in Name : obj[n] = "other"
=============================================================================
