----------------------------- MODULE AutoProtect -----------------------------
(***************************************************************************)
(* Automatic protection of camera media by the Android companion: two work *)
(* lanes scan the media library page by page, commit records and a cursor  *)
(* (MediaDiscoveryEngine, MediaProtectionEngine.discover), stage what is   *)
(* not yet protected and queue it for upload (protectPending), while the   *)
(* upload worker completes items and reconciles the records, the user      *)
(* edits, deletes and restores media, and the process may die.             *)
(*                                                                         *)
(* One collection on one volume.  A media row is its key, in the order of  *)
(* (date_added, _id); its bytes and its size and date are one revision.    *)
(* The transfer of an item is in MobileUpload; here it is one step.        *)
(***************************************************************************)
EXTENDS Integers, FiniteSets, FiniteSetsExt

CONSTANTS
    Lane,          \* the unique works "periodic" and "discovery"
    Rows,          \* keys 1 .. Rows
    PageSize,
    Granted,       \* the media permission at the start
    Selected,      \* the rows the user selects for partial access
    MaxRevision,   \* bound on edits of one row
    MaxEvents      \* bound on what users do, on failed queries and on deaths of the process

ASSUME GrantedAssumption == Granted \in {"FULL", "PARTIAL", "NOT_GRANTED"}
ASSUME BoundsAssumption ==
    /\ {Rows, MaxEvents} \subseteq Nat
    /\ {PageSize, MaxRevision} \subseteq Nat \ {0}

Media == 1 .. Rows
NoMark == -1      \* a watermark that is not set

VARIABLES
    born,          \* newest key ever inserted
    content,       \* content[m]: revision and name of a row, and whether it is there
    scope,         \* media permission
    inbox,         \* the server has a Camera inbox for the device
    mode,          \* settings.scopeMode
    cached,        \* settings.cameraDestinationId is set
    recs,          \* the record registry
    cursor,        \* the cursor of the collection
    queue,         \* queue[m][v]: the upload item of a revision
    published,     \* revisions the server holds
    recon,         \* the upload worker's reconcileCompleted
    lane,          \* the two workers
    dropped,       \* revisions whose item the user cancelled or removed
    hidden,        \* rows that have at some time not been visible
    switched,      \* the user has changed the mode
    events

env == <<born, content, scope, inbox, hidden, switched>>
store == <<recs, cursor, mode, cached>>
transfer == <<queue, published, recon, dropped>>
vars == <<env, store, transfer, lane, events>>

-----------------------------------------------------------------------------
NoRecord == [status |-> "NONE", meta |-> 0, name |-> 0, sha |-> 0, item |-> 0]
Discovered(m) ==
    [status |-> "DISCOVERED", meta |-> content[m].rev, name |-> content[m].name,
     sha |-> 0, item |-> 0]

IdleLane ==
    [pc |-> "idle", mode |-> "new", scope |-> "FULL", snap |-> [m \in Media |-> NoRecord],
     cur |-> [mark |-> NoMark, full |-> FALSE], high |-> NoMark, after |-> Rows + 1,
     backfill |-> FALSE, found |-> [m \in Media |-> NoRecord], todo |-> {}, listed |-> "none"]

NoRecon == [pc |-> "idle", m |-> 0, v |-> 0, rec |-> NoRecord]

\* What a query of the media store returns now.
Accessible(m) == scope = "FULL" \/ (scope = "PARTIAL" /\ m \in Selected)
Visible(m) == content[m].here /\ Accessible(m)

Newest == Max({m \in Media : Visible(m)} \cup {NoMark})

Overwrite(f, g) == [m \in Media |-> IF g[m] = NoRecord THEN f[m] ELSE g[m]]

Init ==
    /\ born \in 0 .. Rows
    /\ content = [m \in Media |-> [rev |-> 1, name |-> 0, here |-> m <= born]]
    /\ scope = Granted /\ inbox = TRUE /\ mode \in {"new", "history"} /\ cached = FALSE
    /\ recs = [m \in Media |-> NoRecord]
    /\ cursor = [mark |-> NoMark, full |-> FALSE]
    /\ queue = [m \in Media |-> [v \in 1 .. MaxRevision |-> "none"]]
    /\ published = {}
    /\ recon = NoRecon
    /\ lane = [l \in Lane |-> IdleLane]
    /\ dropped = {} /\ hidden = {m \in 1 .. born : ~Accessible(m)} /\ switched = FALSE
    /\ events = 0

\* What is bounded.
Event == events < MaxEvents /\ events' = events + 1

-----------------------------------------------------------------------------
(* The user, the camera and the administrator                              *)

\* The camera adds a row with the largest key yet.
Capture ==
    /\ born < Rows
    /\ Event
    /\ born' = born + 1
    /\ content' = [content EXCEPT ![born + 1].here = TRUE]
    /\ hidden' = IF Accessible(born + 1) THEN hidden ELSE hidden \cup {born + 1}
    /\ UNCHANGED <<scope, inbox, switched, store, transfer, lane>>

Edit(m) ==
    /\ content[m].here /\ content[m].rev < MaxRevision
    /\ content' = [content EXCEPT ![m].rev = @ + 1]
    /\ UNCHANGED <<born, scope, inbox, hidden>>

Rename(m) ==
    /\ content[m].here /\ content[m].name = 0
    /\ content' = [content EXCEPT ![m].name = 1]
    /\ UNCHANGED <<born, scope, inbox, hidden>>

\* To the phone's own trash and back.
DeleteOrRestore(m) ==
    /\ m <= born
    /\ content' = [content EXCEPT ![m].here = ~@]
    /\ hidden' = hidden \cup {m}
    /\ UNCHANGED <<born, scope, inbox>>

\* Android kills the process when a permission is taken away.
ChangeScope(s) ==
    /\ s # scope
    /\ Event
    /\ scope' = s
    /\ hidden' = hidden \cup {m \in 1 .. born : s = "NOT_GRANTED" \/ (s = "PARTIAL" /\ m \notin Selected)}
    /\ IF s = "FULL" \/ scope = "NOT_GRANTED"
         THEN UNCHANGED <<lane, recon>>
         ELSE lane' = [l \in Lane |-> IdleLane] /\ recon' = NoRecon
    /\ UNCHANGED <<born, content, inbox, switched, store, queue, published, dropped>>

ToggleInbox == inbox' = ~inbox /\ UNCHANGED <<born, content, scope, hidden>>

Environment ==
    /\ Event
    /\ (\E m \in Media : Edit(m) \/ Rename(m) \/ DeleteOrRestore(m)) \/ ToggleInbox
    /\ UNCHANGED <<switched, store, transfer, lane>>

\* The discovery work is replaced, so that a running one is cancelled.
SetScopeMode ==
    /\ Event
    /\ mode' = IF mode = "new" THEN "history" ELSE "new"
    /\ switched' = TRUE
    /\ lane' = [l \in Lane |-> IF l = "discovery" THEN IdleLane ELSE lane[l]]
    /\ UNCHANGED <<born, content, scope, inbox, hidden, recs, cursor, cached, transfer>>

\* The upload screen: cancelItem and removeItem.
CancelItem(m, v) ==
    /\ queue[m][v] = "pending"
    /\ queue' = [queue EXCEPT ![m][v] = "cancelled"]
    /\ dropped' = dropped \cup {<<m, v>>}
    /\ Event
    /\ UNCHANGED <<env, store, published, recon, lane>>

\* (a "pending" item may be FAILED or BLOCKED, which can be removed too)
RemoveItem(m, v) ==
    /\ queue[m][v] # "none"
    /\ queue' = [queue EXCEPT ![m][v] = "none"]
    /\ dropped' = dropped \cup {<<m, v>>}
    /\ Event
    /\ UNCHANGED <<env, store, published, recon, lane>>

-----------------------------------------------------------------------------
(* The upload worker                                                       *)

\* The server finalizes the bytes; the answer may find the item cancelled.
Publish(m, v) ==
    /\ queue[m][v] = "pending" /\ <<m, v>> \notin published
    /\ published' = published \cup {<<m, v>>}
    /\ UNCHANGED <<env, store, queue, recon, dropped, lane, events>>

UploadDone(m, v) ==
    /\ queue[m][v] \in {"pending", "cancelled"} /\ <<m, v>> \in published
    /\ recon = NoRecon
    /\ queue' = [queue EXCEPT ![m][v] = "done"]
    /\ recon' = [pc |-> "read", m |-> m, v |-> v, rec |-> NoRecord]
    /\ UNCHANGED <<env, store, published, dropped, lane, events>>

\* A mutant: whatever completes protects the record.
CompletedAny(r, v) == [r EXCEPT !.status = "PROTECTED", !.sha = v]

\* The completion of another revision than the record's is provenance only.
Completed(r, v) ==
    IF r.item = v THEN [r EXCEPT !.status = "PROTECTED", !.sha = v] ELSE r

\* reconcileCompleted reads the record under the lock, and writes all of it
\* back under the lock later.
ReconcileRead ==
    /\ recon.pc = "read"
    /\ LET r == recs[recon.m] IN
         IF r = NoRecord \/ (r.status = "PROTECTED" /\ r.item = recon.v)
           THEN recon' = NoRecon
           ELSE recon' = [recon EXCEPT !.pc = "write", !.rec = Completed(r, recon.v)]
    /\ UNCHANGED <<env, store, queue, published, dropped, lane, events>>

ReconcileWrite ==
    /\ recon.pc = "write"
    /\ recs' = [recs EXCEPT ![recon.m] = recon.rec]
    /\ recon' = NoRecon
    /\ UNCHANGED <<env, cursor, mode, cached, queue, published, dropped, lane, events>>

-----------------------------------------------------------------------------
(* Discovery                                                               *)

\* doWork up to the snapshot that discover loads.  The discovery lane is
\* enqueued when the app is opened or the settings change.
StartScan(l) ==
    /\ lane[l].pc = "idle"
    /\ scope # "NOT_GRANTED"
    /\ IF l = "periodic" THEN UNCHANGED events ELSE Event
    /\ lane' = [lane EXCEPT ![l] = [IdleLane EXCEPT !.pc = "boundary", !.mode = mode,
                                    !.scope = scope, !.snap = recs, !.cur = cursor]]
    /\ UNCHANGED <<env, store, transfer>>

\* The boundary is taken before the first page.  A completed backfill goes
\* on from its boundary, with the bottom for none.
Boundary(l) ==
    LET w == lane[l]
        backfill == w.mode = "history" /\ ~w.cur.full
        mark == IF w.cur.mark # NoMark THEN w.cur.mark
                ELSE IF w.mode = "history" THEN 0 ELSE Newest
    IN
    /\ w.pc = "boundary"
    /\ lane' = [lane EXCEPT ![l].pc = "walk", ![l].high = Newest, ![l].backfill = backfill,
                            ![l].cur = IF backfill THEN @ ELSE [@ EXCEPT !.mark = mark]]
    /\ UNCHANGED <<env, store, transfer, events>>

\* The next rows below the keyset position, newest first.
PageRows(after) ==
    LET below == {m \in Media : m < after /\ Visible(m)}
    IN  {m \in below : Cardinality({n \in below : n > m}) < PageSize}

\* A changed row is protected anew.
RevisionOf(r, m) ==
    [r EXCEPT !.status = "DISCOVERED", !.meta = content[m].rev, !.sha = 0, !.item = 0]

\* Its row compared with the record of the snapshot.
WhenRecord(r, m) ==
    IF r.status \in {"NONE", "LOCALLY_DELETED"} THEN Discovered(m)
    ELSE IF r.name # content[m].name THEN [Discovered(m) EXCEPT !.status = "UNREADABLE"]
    ELSE IF r.meta # content[m].rev THEN RevisionOf(r, m) ELSE NoRecord

\* One page and its durable commit: the records of the page and the cursor.
Page(l) ==
    LET w == lane[l]
        rows == PageRows(w.after)
        finished == Cardinality(rows) < PageSize
        fresh == [m \in Media |-> IF m \in rows /\ (w.backfill \/ m > w.cur.mark)
                                    THEN WhenRecord(w.snap[m], m) ELSE NoRecord]
        next == IF ~w.backfill THEN w.cur
                ELSE IF finished
                THEN [mark |-> IF w.high = NoMark THEN w.cur.mark ELSE w.high, full |-> TRUE]
                ELSE [mark |-> Min(rows), full |-> FALSE]
    IN
    /\ w.pc = "walk"
    /\ recs' = Overwrite(recs, fresh)
    /\ cursor' = next
    /\ lane' = [lane EXCEPT ![l] = [w EXCEPT !.found = Overwrite(w.found, fresh), !.cur = next,
                                    !.after = IF finished THEN w.after ELSE Min(rows),
                                    !.pc = IF finished THEN "known" ELSE "walk"]]
    /\ UNCHANGED <<env, mode, cached, transfer, events>>

\* A failed page ends the walk with the cursor of the last completed one.
PageFails(l) ==
    /\ lane[l].pc \in {"boundary", "walk"}
    /\ Event
    /\ lane' = [lane EXCEPT ![l].pc = "interrupted"]
    /\ UNCHANGED <<env, store, transfer>>

\* A known row that is gone: deleted after it was protected, lost before, or
\* not to be told.
Absence(r, w) ==
    IF w.scope = "PARTIAL"
    THEN IF r.status \in {"PROTECTED", "STAGED"} THEN NoRecord ELSE [r EXCEPT !.status = "UNREADABLE"]
    ELSE IF r.status = "STAGED" \/ w.pc = "interrupted" THEN NoRecord
    ELSE IF r.status = "PROTECTED" THEN [r EXCEPT !.status = "LOCALLY_DELETED", !.item = 0]
    ELSE [r EXCEPT !.status = "UNREADABLE"]

\* The known rows looked up by id.
Known(r, m, w) ==
    IF r.status \in {"NONE", "LOCALLY_DELETED"} THEN NoRecord
    ELSE IF ~Visible(m) THEN Absence(r, w)
    ELSE IF r.meta # content[m].rev THEN RevisionOf(r, m) ELSE NoRecord

\* The last commit of the scan writes every record of the snapshot back,
\* over what others have written since.
CommitScan(l) ==
    LET w == lane[l]
        known == [m \in Media |-> Known(w.snap[m], m, w)]
        Only(gone) == [m \in Media |-> IF (known[m].status = "LOCALLY_DELETED") = gone
                                          THEN known[m] ELSE NoRecord]
        merged == Overwrite(Overwrite(Overwrite(w.snap, Only(TRUE)), w.found), Only(FALSE))
    IN
    /\ w.pc \in {"known", "interrupted"}
    /\ recs' = Overwrite(recs, merged)
    /\ cursor' = w.cur
    /\ lane' = [lane EXCEPT ![l] = [IdleLane EXCEPT !.pc = "list"]]
    /\ UNCHANGED <<env, mode, cached, transfer, events>>

\* The lookup of the known rows throws: the run ends without that commit.
KnownFails(l) ==
    /\ lane[l].pc \in {"known", "interrupted"}
    /\ Event
    /\ lane' = [lane EXCEPT ![l] = IdleLane]
    /\ UNCHANGED <<env, store, transfer>>

-----------------------------------------------------------------------------
(* Staging                                                                 *)

\* The server's answer about the device's inboxes.
ListInboxes(l) ==
    /\ lane[l].pc = "list"
    /\ lane' = [lane EXCEPT ![l].pc = "prepare", ![l].listed = IF inbox THEN "camera" ELSE "missing"]
    /\ UNCHANGED <<env, store, transfer, events>>

ListFails(l) ==
    /\ lane[l].pc = "list"
    /\ Event
    /\ lane' = [lane EXCEPT ![l].pc = "prepare", ![l].listed = "network"]
    /\ UNCHANGED <<env, store, transfer>>

\* A mutant: a row that could not be read once is not tried again.
PrepareReadable(l) ==
    LET w == lane[l]
        usable == w.listed = "camera" \/ (w.listed = "network" /\ cached)
        work == {m \in Media : \/ recs[m].status = "STAGED"
                               \/ usable /\ recs[m].status = "DISCOVERED"}
    IN
    /\ w.pc = "prepare"
    /\ cached' = usable
    /\ lane' = [lane EXCEPT ![l].pc = "stage", ![l].snap = recs, ![l].todo = work]
    /\ UNCHANGED <<env, recs, cursor, mode, transfer, events>>

\* protectPending: the destination, fresh or cached, and the snapshot.
Prepare(l) ==
    LET w == lane[l]
        usable == w.listed = "camera" \/ (w.listed = "network" /\ cached)
        work == {m \in Media : \/ recs[m].status = "STAGED"
                               \/ usable /\ recs[m].status \in {"DISCOVERED", "UNREADABLE"}}
    IN
    /\ w.pc = "prepare"
    /\ cached' = usable
    /\ lane' = [lane EXCEPT ![l].pc = "stage", ![l].snap = recs, ![l].todo = work]
    /\ UNCHANGED <<env, recs, cursor, mode, transfer, events>>

\* enqueueStaged: the record after its bytes have been staged as revision v.
Enqueued(r, m, v) ==
    CASE queue[m][v] = "none" -> [r EXCEPT !.status = "STAGED", !.sha = v, !.item = v]
      [] queue[m][v] = "done" -> [r EXCEPT !.status = "PROTECTED", !.sha = v, !.item = v]
      [] OTHER -> [r EXCEPT !.sha = v, !.item = v]

\* One record of the loop: the bytes staged are those of this moment.
StageRecord(l, m) ==
    LET w == lane[l]
        r == w.snap[m]
        v == content[m].rev
        update == IF r.status = "STAGED"
                  THEN IF queue[m][r.item] = "done"
                       THEN [r EXCEPT !.status = "PROTECTED", !.sha = r.item] ELSE NoRecord
                  ELSE IF Visible(m) THEN Enqueued(r, m, v) ELSE [r EXCEPT !.status = "UNREADABLE"]
    IN
    /\ w.pc = "stage" /\ m \in w.todo
    /\ queue' = IF r.status # "STAGED" /\ Visible(m) /\ queue[m][v] = "none"
                  THEN [queue EXCEPT ![m][v] = "pending"] ELSE queue
    /\ lane' = [lane EXCEPT ![l].todo = @ \ {m}, ![l].found[m] = update]
    /\ UNCHANGED <<env, store, published, recon, dropped, events>>

\* updateRecords, with the records as the snapshot had them.
FinishRun(l) ==
    /\ lane[l].pc = "stage" /\ lane[l].todo = {}
    /\ recs' = Overwrite(recs, lane[l].found)
    /\ lane' = [lane EXCEPT ![l] = IdleLane]
    /\ UNCHANGED <<env, cursor, mode, cached, transfer, events>>

\* The process dies; WorkManager starts the lanes again.
ProcessDies ==
    /\ Event
    /\ lane' = [l \in Lane |-> IdleLane]
    /\ recon' = NoRecon
    /\ UNCHANGED <<env, store, queue, published, dropped>>

-----------------------------------------------------------------------------
Scan(l) == Boundary(l) \/ Page(l) \/ CommitScan(l)
Stage(l) == ListInboxes(l) \/ Prepare(l) \/ (\E m \in Media : StageRecord(l, m)) \/ FinishRun(l)

Next ==
    \/ Capture \/ Environment \/ SetScopeMode
    \/ \E s \in {"FULL", "PARTIAL", "NOT_GRANTED"} : ChangeScope(s)
    \/ \E m \in Media, v \in 1 .. MaxRevision :
         CancelItem(m, v) \/ RemoveItem(m, v) \/ Publish(m, v) \/ UploadDone(m, v)
    \/ ReconcileRead \/ ReconcileWrite
    \/ \E l \in Lane :
         \/ StartScan(l) \/ Scan(l) \/ Stage(l)
         \/ PageFails(l) \/ KnownFails(l) \/ ListFails(l)
    \/ ProcessDies

Spec == Init /\ [][Next]_vars

\* WorkManager repeats the periodic lane and runs what was started; the
\* transfer worker drains the queue (MobileUpload).
Fairness ==
    /\ WF_vars(StartScan("periodic"))
    /\ \A l \in Lane : WF_vars(Scan(l) \/ Stage(l))
    /\ \A m \in Media, v \in 1 .. MaxRevision : WF_vars(Publish(m, v)) /\ SF_vars(UploadDone(m, v))
    /\ WF_vars(ReconcileRead \/ ReconcileWrite)

FairSpec == Spec /\ Fairness
-----------------------------------------------------------------------------
(* Correctness                                                             *)

Status == {"NONE", "DISCOVERED", "STAGED", "PROTECTED", "LOCALLY_DELETED", "UNREADABLE"}
Record == [status : Status, meta : 0 .. MaxRevision, name : 0 .. 1,
           sha : 0 .. MaxRevision, item : 0 .. MaxRevision]

\* The types of the registry, the cursor, the upload items and the workers.
TypeOK ==
    /\ recs \in [Media -> Record]
    /\ cursor \in [mark : NoMark .. Rows, full : BOOLEAN]
    /\ queue \in [Media -> [1 .. MaxRevision -> {"none", "pending", "done", "cancelled"}]]
    /\ published \subseteq Media \X (1 .. MaxRevision)
    /\ \A l \in Lane :
         /\ lane[l].pc \in {"idle", "boundary", "walk", "known", "interrupted", "list", "prepare", "stage"}
         /\ lane[l].snap \in [Media -> Record] /\ lane[l].found \in [Media -> Record]

\* A record that is called protected, or deleted after it was protected,
\* names bytes the server holds, and they are at least as new as the size
\* and date the next scan compares with: an edit that was not uploaded is
\* still seen as a change, whatever lanes, completions and deaths overlap
\* (reconcileCompleted, enqueueStaged and absenceDecision).
ProtectedIsUploaded ==
    \A m \in Media : recs[m].status \in {"PROTECTED", "LOCALLY_DELETED"} =>
        <<m, recs[m].sha>> \in published /\ recs[m].sha >= recs[m].meta

\* With the history mode on from the start and an inbox, a row that has been
\* visible ever since it was captured and whose item the user leaves alone
\* comes to be protected in its current revision, although scans write old
\* records back over newer ones (discover and protectPending).
HistoryProtected ==
    \A m \in Media :
        <>[](/\ mode = "history" /\ ~switched /\ inbox /\ m <= born /\ m \notin hidden
             /\ <<m, content[m].rev>> \notin dropped)
          => <>[](recs[m].status = "PROTECTED" /\ recs[m].sha = content[m].rev)

\* The screen says of partial access "Grant full access in App settings to
\* protect the whole camera roll" (AutoWaitingReasons.human): with full
\* access and the history mode every row that is there comes to be protected.
FullAccessProtects ==
    \A m \in Media :
        <>[](/\ mode = "history" /\ ~switched /\ inbox /\ scope = "FULL" /\ content[m].here
             /\ \A v \in 1 .. MaxRevision : <<m, v>> \notin dropped)
          => <>(recs[m].status = "PROTECTED")
=============================================================================
