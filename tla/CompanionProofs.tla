-------------------------- MODULE CompanionProofs ---------------------------
(***************************************************************************)
(* What holds of the two protocols of MCCompanion for all constants.       *)
(*                                                                         *)
(* Automatic protection.  Workers write whole records back that they read  *)
(* long before, so that nothing can be said of the registry alone: every   *)
(* copy of a record, in a snapshot, among what a worker found or in a      *)
(* completion under way, is sound at any later time (Sound), since rows    *)
(* only get newer and the server only gets more.  Then it does not matter  *)
(* which copy is written last.                                             *)
(*                                                                         *)
(* Enrollment.  The live grants and the tokens of registered hosts name    *)
(* each other (GrantsInv), which every exchange and every revocation keeps *)
(* in one transaction; sessions and sockets hang on the grants.            *)
(***************************************************************************)
EXTENDS MCCompanion, FiniteSetTheorems, WellFoundedInduction, TLAPS

-----------------------------------------------------------------------------
(* Automatic protection: the invariant.                                    *)

Revision == 1 .. MaxRevision
Scope == {"FULL", "PARTIAL", "NOT_GRANTED"}
Mode == {"new", "history"}
Cursor == [mark : NoMark .. Rows, full : BOOLEAN]
ItemStatus == {"none", "pending", "done", "cancelled"}

Worker ==
    [pc : {"idle", "boundary", "walk", "known", "interrupted", "list", "prepare", "stage"},
     mode : Mode, scope : Scope, snap : [Media -> Record], cur : Cursor,
     high : NoMark .. Rows, after : 0 .. Rows + 1, backfill : BOOLEAN,
     found : [Media -> Record], todo : SUBSET Media,
     listed : {"none", "camera", "missing", "network"}]

CameraType ==
    /\ content \in [Media -> [rev : Revision, name : 0 .. 1, here : BOOLEAN]]
    /\ born \in 0 .. Rows /\ scope \in Scope /\ mode \in Mode

\* An item that is done has its bytes on the server.
ItemsInv ==
    /\ queue \in [Media -> [Revision -> ItemStatus]]
    /\ published \subseteq Media \X Revision
    /\ \A m \in Media : \A v \in Revision : queue[m][v] = "done" => <<m, v>> \in published

\* What a record of row m may say, whoever holds a copy of it, when c is the
\* content of the library and P what the server holds: it is no newer than
\* the row, the item it waits for is no older than it, and what it calls
\* protected is there and is no older either.
Sound(m, r, c, P) ==
    /\ r \in Record
    /\ r.meta <= c[m].rev
    /\ r.item # 0 => r.item >= r.meta
    /\ r.status = "STAGED" => r.item # 0
    /\ r.status \in {"PROTECTED", "LOCALLY_DELETED"} => <<m, r.sha>> \in P /\ r.sha >= r.meta

AllSound(f, c, P) == f \in [Media -> Record] /\ \A m \in Media : Sound(m, f[m], c, P)

\* A worker's snapshot and what it found; only what may be uploaded again is
\* on its list.
WorkerSound(w, c, P) ==
    /\ AllSound(w.snap, c, P)
    /\ AllSound(w.found, c, P)
    /\ \A m \in w.todo : w.snap[m].status \in {"DISCOVERED", "STAGED", "UNREADABLE"}

LanesInv ==
    /\ lane \in [Lane -> Worker]
    /\ \A l \in Lane : WorkerSound(lane[l], content, published)

\* A completion is about bytes the server holds.
ReconInv ==
    /\ recon \in [pc : {"idle", "read", "write"}, m : 0 .. Rows, v : 0 .. MaxRevision, rec : Record]
    /\ recon.pc # "idle" => recon.m \in Media /\ recon.v \in Revision
                            /\ <<recon.m, recon.v>> \in published
    /\ recon.pc = "write" => Sound(recon.m, recon.rec, content, published)

CameraInv ==
    /\ CameraType
    /\ ItemsInv
    /\ cursor \in Cursor
    /\ AllSound(recs, content, published)
    /\ LanesInv
    /\ ReconInv

LEMMA Bounds == /\ Rows \in Nat /\ MaxRevision \in Nat \ {0} /\ PageSize \in Nat \ {0}
                /\ Media = 1 .. Rows /\ Revision = 1 .. MaxRevision /\ NoMark = -1
  BY BoundsAssumption DEF Media, Revision, NoMark

LEMMA CameraChecked ==
    ASSUME CameraInv
    PROVE  TypeOK /\ ProtectedIsUploaded
<1>1. TypeOK
  BY DEF CameraInv, TypeOK, AllSound, ItemsInv, LanesInv, WorkerSound, Worker, Cursor, Revision, ItemStatus
<1>2. ProtectedIsUploaded
  BY DEF CameraInv, ProtectedIsUploaded, AllSound, Sound
<1> QED
  BY <1>1, <1>2

LEMMA EmptySound ==
    ASSUME NEW c, NEW P, NEW m \in Media, c[m].rev \in Revision
    PROVE  NoRecord \in Record /\ Sound(m, NoRecord, c, P)
  BY Bounds DEF NoRecord, Record, Status, Sound

LEMMA IdleIs ==
    /\ IdleLane \in Worker
    /\ IdleLane.snap = [m \in Media |-> NoRecord] /\ IdleLane.found = [m \in Media |-> NoRecord]
    /\ IdleLane.todo = {}
<1>1. NoRecord \in Record
  BY Bounds DEF NoRecord, Record, Status
<1>2. /\ NoMark \in NoMark .. Rows /\ Rows + 1 \in 0 .. Rows + 1
  BY Bounds
<1> QED
  BY <1>1, <1>2 DEF IdleLane, Worker, Mode, Scope, Cursor

LEMMA IdleSound ==
    ASSUME NEW c, NEW P, \A m \in Media : c[m].rev \in Revision
    PROVE  WorkerSound(IdleLane, c, P)
  BY IdleIs, EmptySound DEF AllSound, WorkerSound

LEMMA CameraStart == Init => CameraInv
<1> SUFFICES ASSUME Init PROVE CameraInv
  OBVIOUS
<1> USE Bounds
<1>1. CameraType
  <2>1. Granted \in Scope
    BY GrantedAssumption DEF Scope
  <2> QED
    BY <2>1 DEF Init, CameraType, Mode
<1>2. ItemsInv
  BY DEF Init, ItemsInv, ItemStatus
<1>3. cursor \in Cursor
  BY DEF Init, Cursor
<1>4. \A m \in Media : content[m].rev \in Revision
  BY <1>1 DEF CameraType
<1>5. AllSound(recs, content, published)
  BY <1>4, EmptySound DEF Init, AllSound
<1>6. LanesInv
  BY <1>4, IdleIs, IdleSound DEF Init, LanesInv
<1>7. ReconInv
  <2>1. NoRecord \in Record
    BY DEF NoRecord, Record, Status
  <2> QED
    BY <2>1 DEF Init, ReconInv, NoRecon
<1> QED
  BY <1>1, <1>2, <1>3, <1>5, <1>6, <1>7 DEF CameraInv

-----------------------------------------------------------------------------
(* What keeps a copy sound.                                                *)

\* Rows only get newer and the server only gets more.
LEMMA SoundStays ==
    ASSUME NEW m, NEW r, NEW c, NEW d, NEW P, NEW Q, Sound(m, r, c, P),
           c[m].rev \in Revision, d[m].rev \in Revision, c[m].rev <= d[m].rev, P \subseteq Q
    PROVE  Sound(m, r, d, Q)
<1>1. r.meta \in Nat
  BY Bounds DEF Sound, Record
<1> QED
  BY <1>1, Bounds DEF Sound

LEMMA AllStays ==
    ASSUME NEW f, NEW c, NEW d, NEW P, NEW Q, AllSound(f, c, P), P \subseteq Q,
           \A m \in Media : /\ c[m].rev \in Revision /\ d[m].rev \in Revision
                            /\ c[m].rev <= d[m].rev
    PROVE  AllSound(f, d, Q)
  BY SoundStays DEF AllSound

LEMMA OverwriteSound ==
    ASSUME NEW f, NEW g, NEW c, NEW P, AllSound(f, c, P), AllSound(g, c, P)
    PROVE  AllSound(Overwrite(f, g), c, P)
  BY DEF AllSound, Overwrite

\* The copies stay sound while rows get newer and the server gets more.
LEMMA CopiesStay ==
    ASSUME CameraInv, CameraType', published \subseteq published',
           \A m \in Media : content[m].rev <= content'[m].rev
    PROVE  /\ AllSound(recs, content', published')
           /\ \A l \in Lane : WorkerSound(lane[l], content', published')
           /\ recon.pc = "write" => Sound(recon.m, recon.rec, content', published')
           /\ recon.pc # "idle" => <<recon.m, recon.v>> \in published'
<1>1. \A m \in Media : content[m].rev \in Revision /\ content'[m].rev \in Revision
  BY DEF CameraInv, CameraType
<1>2. AllSound(recs, content', published')
  BY <1>1, AllStays DEF CameraInv
<1>3. \A l \in Lane : WorkerSound(lane[l], content', published')
  BY <1>1, AllStays DEF CameraInv, LanesInv, WorkerSound
<1>4. recon.pc = "write" => Sound(recon.m, recon.rec, content', published')
  BY <1>1, SoundStays DEF CameraInv, ReconInv
<1> QED
  BY <1>2, <1>3, <1>4 DEF CameraInv, ReconInv

\* The library changes, nothing else does but workers that are put to rest.
LEMMA LibraryKeeps ==
    ASSUME CameraInv, CameraType', \A m \in Media : content[m].rev <= content'[m].rev,
           \A l \in Lane : lane'[l] \in {lane[l], IdleLane}, lane' = [l \in Lane |-> lane'[l]],
           recon' \in {recon, NoRecon}, UNCHANGED <<recs, cursor, queue, published>>
    PROVE  CameraInv'
<1>1. /\ AllSound(recs, content', published')
      /\ \A l \in Lane : WorkerSound(lane[l], content', published')
      /\ recon.pc = "write" => Sound(recon.m, recon.rec, content', published')
      /\ recon.pc # "idle" => <<recon.m, recon.v>> \in published'
  BY CopiesStay
<1>2. \A m \in Media : content'[m].rev \in Revision
  BY DEF CameraType
<1>3. LanesInv'
  <2>1. \A l \in Lane : lane'[l] \in Worker
    BY IdleIs DEF CameraInv, LanesInv
  <2>2. \A l \in Lane : WorkerSound(lane'[l], content', published')
    BY <1>1, <1>2, IdleSound
  <2> QED
    BY <2>1, <2>2 DEF LanesInv
<1>4. ReconInv'
  <2>1. NoRecon \in [pc : {"idle", "read", "write"}, m : 0 .. Rows, v : 0 .. MaxRevision,
                     rec : Record] /\ NoRecon.pc = "idle"
    BY Bounds DEF NoRecon, NoRecord, Record, Status
  <2> QED
    BY <1>1, <2>1 DEF CameraInv, ReconInv
<1> QED
  BY <1>1, <1>3, <1>4 DEF CameraInv, ItemsInv

-----------------------------------------------------------------------------
(* The steps of the library, of the user and of the upload worker.         *)

LEMMA CaptureKeeps ==
    ASSUME CameraInv, Capture
    PROVE  CameraInv'
<1> USE Bounds
<1>1. born + 1 \in Media /\ born' = born + 1
  BY DEF CameraInv, CameraType, Capture
<1>2. content' = [content EXCEPT ![born + 1].here = TRUE]
  BY DEF Capture
<1>3. CameraType' /\ \A m \in Media : content[m].rev <= content'[m].rev
  <2>1. content' \in [Media -> [rev : Revision, name : 0 .. 1, here : BOOLEAN]]
    BY <1>1, <1>2 DEF CameraInv, CameraType
  <2>2. \A m \in Media : content'[m].rev = content[m].rev /\ content[m].rev \in Nat
    BY <1>1, <1>2 DEF CameraInv, CameraType
  <2>3. born' \in 0 .. Rows /\ scope' = scope /\ mode' = mode
    BY <1>1 DEF Capture, store
  <2> QED
    BY <2>1, <2>2, <2>3 DEF CameraInv, CameraType
<1>4. lane' = lane /\ recon' = recon /\ UNCHANGED <<recs, cursor, queue, published>>
  BY DEF Capture, store, transfer
<1> QED
  BY <1>3, <1>4, LibraryKeeps DEF CameraInv, LanesInv

LEMMA EnvironmentKeeps ==
    ASSUME CameraInv, Environment
    PROVE  CameraInv'
<1> USE Bounds
<1>1. lane' = lane /\ recon' = recon /\ UNCHANGED <<recs, cursor, queue, published, mode>>
  BY DEF Environment, store, transfer
<1>2. CameraType' /\ \A m \in Media : content[m].rev <= content'[m].rev
  <2>0. \A m \in Media : content[m].rev \in Nat
    BY DEF CameraInv, CameraType
  <2>1. ASSUME NEW m \in Media, Edit(m)
        PROVE  CameraType' /\ \A n \in Media : content[n].rev <= content'[n].rev
    <3>1. content' = [content EXCEPT ![m].rev = @ + 1] /\ content[m].rev + 1 \in Revision
      BY <2>0, <2>1, Bounds DEF Edit, CameraInv, CameraType
    <3>2. \A n \in Media : \/ content'[n].rev = content[n].rev \/ content'[n].rev = content[n].rev + 1
      BY <3>1 DEF CameraInv, CameraType
    <3>3. content' \in [Media -> [rev : Revision, name : 0 .. 1, here : BOOLEAN]]
      <4>1. PICK v \in Revision : v = content[m].rev + 1
        BY <3>1
      <4>2. content' = [content EXCEPT ![m].rev = v]
        BY <3>1, <4>1
      <4> QED
        BY <4>2 DEF CameraInv, CameraType
    <3> QED
      BY <1>1, <2>0, <3>2, <3>3, <2>1 DEF Edit, CameraInv, CameraType
  <2>2. ASSUME NEW m \in Media, Rename(m)
        PROVE  CameraType' /\ \A n \in Media : content[n].rev <= content'[n].rev
    BY <1>1, <2>0, <2>2 DEF Rename, CameraInv, CameraType
  <2>3. ASSUME NEW m \in Media, DeleteOrRestore(m)
        PROVE  CameraType' /\ \A n \in Media : content[n].rev <= content'[n].rev
    <3> DEFINE b == ~content[m].here
    <3>1. content' = [content EXCEPT ![m].here = b] /\ b \in BOOLEAN
      BY <2>3 DEF DeleteOrRestore
    <3> HIDE DEF b
    <3>2. \A n \in Media : content'[n].rev = content[n].rev
      BY <3>1 DEF CameraInv, CameraType
    <3>3. content' \in [Media -> [rev : Revision, name : 0 .. 1, here : BOOLEAN]]
      BY <3>1 DEF CameraInv, CameraType
    <3> QED
      BY <1>1, <2>0, <3>2, <3>3, <2>3 DEF DeleteOrRestore, CameraInv, CameraType
  <2>4. ASSUME ToggleInbox
        PROVE  CameraType' /\ \A n \in Media : content[n].rev <= content'[n].rev
    BY <1>1, <2>0, <2>4 DEF ToggleInbox, CameraInv, CameraType
  <2> QED
    BY <2>1, <2>2, <2>3, <2>4 DEF Environment
<1> QED
  BY <1>1, <1>2, LibraryKeeps DEF CameraInv, LanesInv

LEMMA SetScopeModeKeeps ==
    ASSUME CameraInv, SetScopeMode
    PROVE  CameraInv'
<1>1. CameraType' /\ \A m \in Media : content[m].rev <= content'[m].rev
  BY Bounds DEF SetScopeMode, CameraInv, CameraType, Mode
<1>2. /\ \A l \in Lane : lane'[l] \in {lane[l], IdleLane}
      /\ lane' = [l \in Lane |-> lane'[l]]
      /\ recon' = recon /\ UNCHANGED <<recs, cursor, queue, published>>
  BY DEF SetScopeMode, transfer
<1> QED
  BY <1>1, <1>2, LibraryKeeps

LEMMA ChangeScopeKeeps ==
    ASSUME CameraInv, NEW s \in Scope, ChangeScope(s)
    PROVE  CameraInv'
<1>1. CameraType' /\ \A m \in Media : content[m].rev <= content'[m].rev
  BY Bounds DEF ChangeScope, CameraInv, CameraType, store
<1>2. /\ \A l \in Lane : lane'[l] \in {lane[l], IdleLane}
      /\ lane' = [l \in Lane |-> lane'[l]]
      /\ recon' \in {recon, NoRecon} /\ UNCHANGED <<recs, cursor, queue, published>>
  BY DEF ChangeScope, store, CameraInv, LanesInv
<1> QED
  BY <1>1, <1>2, LibraryKeeps

LEMMA ProcessDiesKeeps ==
    ASSUME CameraInv, ProcessDies
    PROVE  CameraInv'
<1>1. CameraType' /\ \A m \in Media : content[m].rev <= content'[m].rev
  BY Bounds DEF ProcessDies, CameraInv, CameraType, store, env
<1>2. /\ \A l \in Lane : lane'[l] \in {lane[l], IdleLane}
      /\ lane' = [l \in Lane |-> lane'[l]]
      /\ recon' \in {recon, NoRecon} /\ UNCHANGED <<recs, cursor, queue, published>>
  BY DEF ProcessDies, store
<1> QED
  BY <1>1, <1>2, LibraryKeeps

\* Items and what is published change, nothing that holds a record does.
LEMMA ItemsKeep ==
    ASSUME CameraInv, ItemsInv', published \subseteq published',
           UNCHANGED <<content, born, scope, mode, recs, cursor, lane>>,
           \/ recon' = recon
           \/ /\ recon' \in [pc : {"read"}, m : Media, v : Revision, rec : {NoRecord}]
              /\ <<recon'.m, recon'.v>> \in published'
    PROVE  CameraInv'
<1>1. CameraType' /\ \A m \in Media : content[m].rev <= content'[m].rev
  BY Bounds DEF CameraInv, CameraType
<1>2. /\ AllSound(recs, content', published')
      /\ \A l \in Lane : WorkerSound(lane[l], content', published')
      /\ recon.pc = "write" => Sound(recon.m, recon.rec, content', published')
      /\ recon.pc # "idle" => <<recon.m, recon.v>> \in published'
  BY <1>1, CopiesStay
<1>3. LanesInv'
  BY <1>2 DEF CameraInv, LanesInv
<1>4. ReconInv'
  <2>1. CASE recon' = recon
    BY <1>2, <2>1 DEF CameraInv, ReconInv
  <2>2. CASE /\ recon' \in [pc : {"read"}, m : Media, v : Revision, rec : {NoRecord}]
             /\ <<recon'.m, recon'.v>> \in published'
    <3>1. NoRecord \in Record /\ Media \subseteq 0 .. Rows /\ Revision \subseteq 0 .. MaxRevision
      BY Bounds DEF NoRecord, Record, Status
    <3> QED
      BY <2>2, <3>1 DEF ReconInv
  <2> QED
    BY <2>1, <2>2
<1> QED
  BY <1>1, <1>2, <1>3, <1>4 DEF CameraInv

LEMMA CancelItemKeeps ==
    ASSUME CameraInv, NEW m \in Media, NEW v \in Revision, CancelItem(m, v)
    PROVE  CameraInv'
<1>1. ItemsInv'
  BY DEF CameraInv, ItemsInv, CancelItem, ItemStatus
<1> QED
  BY <1>1, ItemsKeep DEF CancelItem, env, store

LEMMA RemoveItemKeeps ==
    ASSUME CameraInv, NEW m \in Media, NEW v \in Revision, RemoveItem(m, v)
    PROVE  CameraInv'
<1>1. ItemsInv'
  BY DEF CameraInv, ItemsInv, RemoveItem, ItemStatus
<1> QED
  BY <1>1, ItemsKeep DEF RemoveItem, env, store

LEMMA PublishKeeps ==
    ASSUME CameraInv, NEW m \in Media, NEW v \in Revision, Publish(m, v)
    PROVE  CameraInv'
<1>1. ItemsInv' /\ published \subseteq published'
  BY DEF CameraInv, ItemsInv, Publish, ItemStatus
<1> QED
  BY <1>1, ItemsKeep DEF Publish, env, store

LEMMA UploadDoneKeeps ==
    ASSUME CameraInv, NEW m \in Media, NEW v \in Revision, UploadDone(m, v)
    PROVE  CameraInv'
<1>1. ItemsInv'
  BY DEF CameraInv, ItemsInv, UploadDone, ItemStatus
<1>2. /\ recon' \in [pc : {"read"}, m : Media, v : Revision, rec : {NoRecord}]
      /\ <<recon'.m, recon'.v>> \in published'
  BY DEF UploadDone
<1> QED
  BY <1>1, <1>2, ItemsKeep DEF UploadDone, env, store

LEMMA ReconcileReadKeeps ==
    ASSUME CameraInv, ReconcileRead
    PROVE  CameraInv'
<1> DEFINE r == recs[recon.m]
<1>1. recon.m \in Media /\ recon.v \in Revision /\ <<recon.m, recon.v>> \in published
  BY DEF ReconcileRead, CameraInv, ReconInv
<1>2. Sound(recon.m, r, content, published)
  BY <1>1 DEF CameraInv, AllSound
<1>3. Completed(r, recon.v) \in Record /\ Sound(recon.m, Completed(r, recon.v), content, published)
  <2>1. CASE r.item = recon.v
    <3>1. Completed(r, recon.v) = [r EXCEPT !.status = "PROTECTED", !.sha = recon.v]
      BY <2>1 DEF Completed
    <3>2. r \in Record /\ r.item \in Nat /\ r.meta \in Nat /\ r.item # 0
      BY <1>1, <1>2, <2>1, Bounds DEF Sound, Record
    <3>3. recon.v \in 0 .. MaxRevision
      BY <1>1, Bounds
    <3> HIDE DEF r
    <3> QED
      BY <1>1, <1>2, <2>1, <3>1, <3>2, <3>3 DEF Sound, Record, Status
  <2>2. CASE r.item # recon.v
    BY <1>2, <2>2 DEF Completed, Sound
  <2> QED
    BY <2>1, <2>2
<1>4. ReconInv'
  <2>1. NoRecon \in [pc : {"idle", "read", "write"}, m : 0 .. Rows, v : 0 .. MaxRevision,
                     rec : Record] /\ NoRecon.pc = "idle"
    BY Bounds DEF NoRecon, NoRecord, Record, Status
  <2>2. UNCHANGED <<content, published>>
    BY DEF ReconcileRead, env
  <2>3. CASE recon' = NoRecon
    BY <2>1, <2>3 DEF ReconInv
  <2>4. CASE recon' = [recon EXCEPT !.pc = "write", !.rec = Completed(r, recon.v)]
    <3> HIDE DEF r
    <3>1. /\ recon'.pc = "write" /\ recon'.m = recon.m /\ recon'.v = recon.v
          /\ recon'.rec = Completed(r, recon.v)
          /\ recon' \in [pc : {"idle", "read", "write"}, m : 0 .. Rows, v : 0 .. MaxRevision,
                         rec : Record]
      BY <1>3, <2>4 DEF CameraInv, ReconInv
    <3> QED
      BY <1>1, <1>3, <2>2, <3>1 DEF ReconInv
  <2> QED
    BY <2>3, <2>4 DEF ReconcileRead
<1> QED
  BY <1>4 DEF ReconcileRead, CameraInv, CameraType, ItemsInv, LanesInv, env, store

LEMMA ReconcileWriteKeeps ==
    ASSUME CameraInv, ReconcileWrite
    PROVE  CameraInv'
<1>1. recon.m \in Media /\ Sound(recon.m, recon.rec, content, published)
  BY DEF ReconcileWrite, CameraInv, ReconInv
<1>2. AllSound(recs', content, published)
  BY <1>1 DEF ReconcileWrite, CameraInv, AllSound, Sound
<1>3. ReconInv'
  <2>1. NoRecon \in [pc : {"idle", "read", "write"}, m : 0 .. Rows, v : 0 .. MaxRevision,
                     rec : Record] /\ NoRecon.pc = "idle"
    BY Bounds DEF NoRecon, NoRecord, Record, Status
  <2> QED
    BY <2>1 DEF ReconcileWrite, ReconInv
<1> QED
  BY <1>2, <1>3 DEF ReconcileWrite, CameraInv, CameraType, ItemsInv, LanesInv, env

-----------------------------------------------------------------------------
(* Bounds of finite sets of keys.                                          *)

LEMMA LeastElement ==
    ASSUME NEW T \in SUBSET Nat, T # {}
    PROVE  \E x \in T : \A y \in T : x =< y
<1>1. PICK x \in T : \A y \in T : <<y, x>> \notin OpToRel(<, Nat)
  BY WFMin, NatLessThanWellFounded, Zenon
<1>2. \A y \in T : ~(y < x)
  BY <1>1, Zenon DEF OpToRel
<1> QED
  BY <1>2

LEMMA LeastRow ==
    ASSUME NEW T \in SUBSET Media, T # {}
    PROVE  Min(T) \in T
<1>1. T \subseteq Nat
  BY Bounds
<1> QED
  BY <1>1, LeastElement DEF Min

LEMMA GreatestElement ==
    ASSUME NEW T \in SUBSET (NoMark .. Rows), T # {}
    PROVE  Max(T) \in T
<1> DEFINE U == {Rows - x : x \in T}
<1>1. U \in SUBSET Nat /\ U # {}
  <2>1. \A x \in T : Rows - x \in Int
    BY Bounds
  <2>2. \A x \in T : Rows - x \in Nat
    BY Bounds
  <2> QED
    BY <2>2
<1>2. PICK u \in U : \A y \in U : u =< y
  <2> HIDE DEF U
  <2> QED
    BY <1>1, LeastElement
<1>3. PICK z \in T : u = Rows - z
  OBVIOUS
<1>4. \A y \in T : z >= y
  <2> SUFFICES ASSUME NEW y \in T PROVE z >= y
    OBVIOUS
  <2>1. Rows - z =< Rows - y
    BY <1>2, <1>3
  <2> QED
    BY <2>1, Bounds
<1> QED
  BY <1>4 DEF Max

LEMMA NewestType == Newest \in NoMark .. Rows
<1> DEFINE T == {m \in Media : Visible(m)} \cup {NoMark}
<1>1. T \in SUBSET (NoMark .. Rows) /\ T # {}
  BY Bounds
<1>2. Max(T) \in T
  <2> HIDE DEF T
  <2> QED
    BY <1>1, GreatestElement
<1> QED
  BY <1>1, <1>2 DEF Newest

LEMMA FullPage ==
    ASSUME NEW T \in SUBSET Media, ~(Cardinality(T) < PageSize)
    PROVE  Min(T) \in Media
<1>1. IsFiniteSet(T) /\ Cardinality(T) \in Nat
  <2>1. IsFiniteSet(Media)
    BY Bounds, FS_Interval
  <2> QED
    BY <2>1, FS_Subset, FS_CardinalityType
<1>2. T # {}
  BY <1>1, FS_EmptySet, Bounds
<1> QED
  BY <1>2, LeastRow

-----------------------------------------------------------------------------
(* The steps of the two lanes.                                             *)

\* One worker takes a step that leaves the library and the server alone.
LEMMA LaneKeeps ==
    ASSUME CameraInv, NEW l \in Lane, lane' = [lane EXCEPT ![l] = lane'[l]],
           lane'[l] \in Worker, WorkerSound(lane'[l], content, published),
           UNCHANGED <<content, born, scope, mode, published, recon>>,
           AllSound(recs', content, published), cursor' \in Cursor, ItemsInv'
    PROVE  CameraInv'
<1>1. LanesInv'
  <2>1. \A k \in Lane : WorkerSound(lane'[k], content, published)
    BY DEF CameraInv, LanesInv
  <2>2. lane' \in [Lane -> Worker]
    BY DEF CameraInv, LanesInv
  <2> QED
    BY <2>1, <2>2 DEF LanesInv
<1>2. CameraType' /\ ReconInv'
  BY DEF CameraInv, CameraType, ReconInv
<1> QED
  BY <1>1, <1>2 DEF CameraInv

\* The same for a worker that writes nothing but its own state.
LEMMA LaneOnly ==
    ASSUME CameraInv, NEW l \in Lane, lane' = [lane EXCEPT ![l] = lane'[l]],
           lane'[l] \in Worker, WorkerSound(lane'[l], content, published),
           UNCHANGED <<content, born, scope, mode, published, recon, recs, cursor, queue>>
    PROVE  CameraInv'
<1>1. ItemsInv' /\ AllSound(recs', content, published) /\ cursor' \in Cursor
  BY DEF CameraInv, ItemsInv
<1> QED
  BY <1>1, LaneKeeps

LEMMA StartScanKeeps ==
    ASSUME CameraInv, NEW l \in Lane, StartScan(l)
    PROVE  CameraInv'
<1>1. /\ lane' = [lane EXCEPT ![l] = lane'[l]]
      /\ lane'[l] = [IdleLane EXCEPT !.pc = "boundary", !.mode = mode,
                                     !.scope = scope, !.snap = recs, !.cur = cursor]
  BY DEF StartScan, CameraInv, LanesInv
<1>2. recs \in [Media -> Record] /\ AllSound(recs, content, published)
  BY DEF CameraInv, AllSound
<1>3. lane'[l] \in Worker
  BY <1>1, <1>2, IdleIs DEF Worker, CameraInv, CameraType
<1>4. WorkerSound(lane'[l], content, published)
  <2>1. lane'[l].snap = recs /\ lane'[l].found = IdleLane.found /\ lane'[l].todo = {}
    BY <1>1, IdleIs DEF Worker
  <2>2. WorkerSound(IdleLane, content, published)
    BY IdleSound DEF CameraInv, CameraType
  <2> QED
    BY <1>2, <2>1, <2>2 DEF WorkerSound
<1> QED
  BY <1>1, <1>3, <1>4, LaneOnly DEF StartScan, env, store, transfer

LEMMA BoundaryKeeps ==
    ASSUME CameraInv, NEW l \in Lane, Boundary(l)
    PROVE  CameraInv'
<1> DEFINE w == lane[l]
           backfill == w.mode = "history" /\ ~w.cur.full
           mark == IF w.cur.mark # NoMark THEN w.cur.mark
                   ELSE IF w.mode = "history" THEN 0 ELSE Newest
           cur == IF backfill THEN w.cur ELSE [w.cur EXCEPT !.mark = mark]
<1>0. w \in Worker /\ WorkerSound(w, content, published)
  BY DEF CameraInv, LanesInv
<1>1. /\ lane' = [lane EXCEPT ![l] = lane'[l]]
      /\ lane'[l] = [w EXCEPT !.pc = "walk", !.high = Newest, !.backfill = backfill, !.cur = cur]
  <2>1. lane' = [lane EXCEPT ![l].pc = "walk", ![l].high = Newest, ![l].backfill = backfill,
                             ![l].cur = IF backfill THEN @ ELSE [@ EXCEPT !.mark = mark]]
    BY DEF Boundary
  <2>2. lane \in [Lane -> Worker]
    BY DEF CameraInv, LanesInv
  <2> HIDE DEF backfill, mark
  <2>3. lane' = [lane EXCEPT ![l] = [w EXCEPT !.pc = "walk", !.high = Newest,
                                              !.backfill = backfill, !.cur = cur]]
    BY <2>1, <2>2 DEF Worker
  <2> QED
    BY <2>2, <2>3
<1>2. backfill \in BOOLEAN /\ cur \in Cursor
  <2>1. w.cur \in Cursor
    BY <1>0 DEF Worker
  <2>2. mark \in NoMark .. Rows
    BY <2>1, NewestType, Bounds DEF Cursor
  <2> HIDE DEF mark
  <2> QED
    BY <2>1, <2>2 DEF Cursor
<1> HIDE DEF backfill, cur, w
<1>3. lane'[l] \in Worker /\ WorkerSound(lane'[l], content, published)
  <2>1. lane'[l] \in Worker
    BY <1>0, <1>1, <1>2, NewestType DEF Worker
  <2>2. lane'[l].snap = w.snap /\ lane'[l].found = w.found /\ lane'[l].todo = w.todo
    BY <1>0, <1>1 DEF Worker
  <2> QED
    BY <1>0, <2>1, <2>2 DEF WorkerSound
<1> QED
  BY <1>1, <1>3, LaneOnly DEF Boundary, env, store, transfer

LEMMA WorkerMoves ==
    ASSUME NEW w \in Worker, NEW p \in {"interrupted", "prepare"},
           NEW d \in {"none", "camera", "missing", "network"}
    PROVE  [w EXCEPT !.pc = p, !.listed = d] \in Worker
<1> DEFINE x == [w EXCEPT !.pc = p]
<1>1. x \in Worker
  BY DEF Worker
<1>2. [x EXCEPT !.listed = d] \in Worker
  <2> HIDE DEF x
  <2> QED
    BY <1>1 DEF Worker
<1> QED
  BY <1>2

\* A worker that only moves on: its records and its list stay.
LEMMA MovesOn ==
    ASSUME CameraInv, NEW l \in Lane,
           NEW p \in {"interrupted", "prepare"}, NEW d \in {"none", "camera", "missing", "network"},
           lane' = [lane EXCEPT ![l] = [lane[l] EXCEPT !.pc = p, !.listed = d]],
           UNCHANGED <<content, born, scope, mode, published, recon, recs, cursor, queue>>
    PROVE  CameraInv'
<1>0. lane[l] \in Worker /\ WorkerSound(lane[l], content, published)
  BY DEF CameraInv, LanesInv
<1>1. /\ lane' = [lane EXCEPT ![l] = lane'[l]]
      /\ lane'[l] = [lane[l] EXCEPT !.pc = p, !.listed = d]
  BY DEF CameraInv, LanesInv
<1>2. lane'[l] \in Worker
  <2>1. [lane[l] EXCEPT !.pc = p, !.listed = d] \in Worker
    BY <1>0, WorkerMoves, Zenon
  <2> QED
    BY <1>1, <2>1, Zenon
<1>3. lane'[l].snap = lane[l].snap /\ lane'[l].found = lane[l].found /\ lane'[l].todo = lane[l].todo
  BY <1>0, <1>1 DEF Worker
<1> QED
  BY <1>0, <1>1, <1>2, <1>3, LaneOnly DEF WorkerSound

LEMMA PageFailsKeeps ==
    ASSUME CameraInv, NEW l \in Lane, PageFails(l)
    PROVE  CameraInv'
<1>1. lane[l] \in Worker /\ lane \in [Lane -> Worker]
  BY DEF CameraInv, LanesInv
<1>2. lane' = [lane EXCEPT ![l] = [lane[l] EXCEPT !.pc = "interrupted", !.listed = lane[l].listed]]
  BY <1>1 DEF PageFails, Worker
<1>3. lane[l].listed \in {"none", "camera", "missing", "network"}
  BY <1>1 DEF Worker
<1> QED
  BY <1>2, <1>3, MovesOn DEF PageFails, env, store, transfer

LEMMA ListKeeps ==
    ASSUME CameraInv, NEW l \in Lane, ListInboxes(l) \/ ListFails(l)
    PROVE  CameraInv'
<1>1. PICK d \in {"camera", "missing", "network"} :
        lane' = [lane EXCEPT ![l] = [lane[l] EXCEPT !.pc = "prepare", !.listed = d]]
  <2>1. lane[l] \in Worker /\ lane \in [Lane -> Worker]
    BY DEF CameraInv, LanesInv
  <2>2. ASSUME ListFails(l)
        PROVE  lane' = [lane EXCEPT ![l] = [lane[l] EXCEPT !.pc = "prepare", !.listed = "network"]]
    BY <2>1, <2>2 DEF ListFails, Worker
  <2>3. ASSUME ListInboxes(l), inbox
        PROVE  lane' = [lane EXCEPT ![l] = [lane[l] EXCEPT !.pc = "prepare", !.listed = "camera"]]
    BY <2>1, <2>3 DEF ListInboxes, Worker
  <2>4. ASSUME ListInboxes(l), ~inbox
        PROVE  lane' = [lane EXCEPT ![l] = [lane[l] EXCEPT !.pc = "prepare", !.listed = "missing"]]
    BY <2>1, <2>4 DEF ListInboxes, Worker
  <2> QED
    BY <2>2, <2>3, <2>4
<1>2. UNCHANGED <<content, born, scope, mode, published, recon, recs, cursor, queue>>
  BY DEF ListInboxes, ListFails, env, store, transfer
<1> QED
  BY <1>1, <1>2, MovesOn

LEMMA KnownFailsKeeps ==
    ASSUME CameraInv, NEW l \in Lane, KnownFails(l)
    PROVE  CameraInv'
<1>1. /\ lane' = [lane EXCEPT ![l] = lane'[l]]
      /\ lane'[l] = IdleLane
  BY DEF KnownFails, CameraInv, LanesInv
<1>2. WorkerSound(IdleLane, content, published)
  BY IdleSound DEF CameraInv, CameraType
<1> QED
  BY <1>1, <1>2, IdleIs, LaneOnly DEF KnownFails, env, store, transfer

-----------------------------------------------------------------------------
(* What discovery writes is sound.                                         *)

LEMMA DiscoveredSound ==
    ASSUME CameraType, NEW m \in Media
    PROVE  /\ Discovered(m) \in Record /\ Sound(m, Discovered(m), content, published)
           /\ Sound(m, [Discovered(m) EXCEPT !.status = "UNREADABLE"], content, published)
<1>1. /\ content[m].rev \in Revision /\ content[m].name \in 0 .. 1
      /\ content[m].rev \in 0 .. MaxRevision
  BY Bounds DEF CameraType
<1> QED
  BY <1>1, Bounds DEF Discovered, Sound, Record, Status

LEMMA RevisionOfSound ==
    ASSUME CameraType, NEW m \in Media, NEW r, Sound(m, r, content, published)
    PROVE  Sound(m, RevisionOf(r, m), content, published)
<1>1. content[m].rev \in Revision /\ content[m].rev \in 0 .. MaxRevision
  BY Bounds DEF CameraType
<1>2. r \in Record
  BY DEF Sound
<1>3. "DISCOVERED" \in Status /\ 0 \in 0 .. MaxRevision
  BY Bounds DEF Status
<1> DEFINE q == RevisionOf(r, m)
<1>4. q \in Record /\ q.status = "DISCOVERED" /\ q.meta = content[m].rev /\ q.item = 0
  <2> DEFINE x == content[m].rev
  <2>1. q = [r EXCEPT !.status = "DISCOVERED", !.meta = x, !.sha = 0, !.item = 0]
    BY DEF RevisionOf
  <2>2. x \in 0 .. MaxRevision
    BY <1>1
  <2> HIDE DEF q, x
  <2>3. q \in Record /\ q.status = "DISCOVERED" /\ q.meta = x /\ q.item = 0
    BY <1>2, <1>3, <2>1, <2>2 DEF Record
  <2> QED
    BY <2>3 DEF x
<1> HIDE DEF q
<1>5. Sound(m, q, content, published)
  BY <1>1, <1>4, Bounds DEF Sound
<1> QED
  BY <1>5 DEF q

LEMMA StatusSound ==
    ASSUME NEW m \in Media, NEW r, NEW c, NEW P, Sound(m, r, c, P)
    PROVE  Sound(m, [r EXCEPT !.status = "UNREADABLE"], c, P)
  BY DEF Sound, Record, Status

LEMMA WhenRecordSound ==
    ASSUME CameraType, NEW m \in Media, NEW r, Sound(m, r, content, published)
    PROVE  Sound(m, WhenRecord(r, m), content, published)
<1>1. Sound(m, NoRecord, content, published)
  BY EmptySound DEF CameraType
<1> QED
  BY <1>1, DiscoveredSound, RevisionOfSound DEF WhenRecord

LEMMA AbsenceSound ==
    ASSUME CameraType, NEW m \in Media, NEW r, NEW w, Sound(m, r, content, published)
    PROVE  Sound(m, Absence(r, w), content, published)
<1>1. Sound(m, NoRecord, content, published)
  BY EmptySound DEF CameraType
<1>2. Sound(m, [r EXCEPT !.status = "UNREADABLE"], content, published)
  BY StatusSound
<1>3. ASSUME r.status = "PROTECTED"
      PROVE  Sound(m, [r EXCEPT !.status = "LOCALLY_DELETED", !.item = 0], content, published)
  <2>1. r \in Record
    BY DEF Sound
  <2>2. "LOCALLY_DELETED" \in Status /\ 0 \in 0 .. MaxRevision
    BY Bounds DEF Status
  <2> DEFINE q == [r EXCEPT !.status = "LOCALLY_DELETED", !.item = 0]
  <2>3. /\ q \in Record /\ q.status = "LOCALLY_DELETED" /\ q.meta = r.meta
        /\ q.sha = r.sha /\ q.item = 0
    <3>1. q = [r EXCEPT !.status = "LOCALLY_DELETED", !.item = 0]
      OBVIOUS
    <3> HIDE DEF q
    <3> QED
      BY <2>1, <2>2, <3>1 DEF Record
  <2> HIDE DEF q
  <2>4. Sound(m, q, content, published)
    BY <1>3, <2>3 DEF Sound
  <2> QED
    BY <2>4 DEF q
<1> QED
  BY <1>1, <1>2, <1>3 DEF Absence

LEMMA KnownSound ==
    ASSUME CameraType, NEW m \in Media, NEW r, NEW w, Sound(m, r, content, published)
    PROVE  Sound(m, Known(r, m, w), content, published)
<1>1. Sound(m, NoRecord, content, published)
  BY EmptySound DEF CameraType
<1> QED
  BY <1>1, AbsenceSound, RevisionOfSound DEF Known

LEMMA PageKeeps ==
    ASSUME CameraInv, NEW l \in Lane, Page(l)
    PROVE  CameraInv'
<1> DEFINE w == lane[l]
           rows == PageRows(w.after)
           finished == Cardinality(rows) < PageSize
           fresh == [m \in Media |-> IF m \in rows /\ (w.backfill \/ m > w.cur.mark)
                                       THEN WhenRecord(w.snap[m], m) ELSE NoRecord]
           next == IF ~w.backfill THEN w.cur
                   ELSE IF finished
                   THEN [mark |-> IF w.high = NoMark THEN w.cur.mark ELSE w.high, full |-> TRUE]
                   ELSE [mark |-> Min(rows), full |-> FALSE]
           found == Overwrite(w.found, fresh)
           after == IF finished THEN w.after ELSE Min(rows)
           pc == IF finished THEN "known" ELSE "walk"
<1>0. w \in Worker /\ WorkerSound(w, content, published) /\ CameraType
  BY DEF CameraInv, LanesInv
<1>1. /\ lane' = [lane EXCEPT ![l] = [w EXCEPT !.found = found, !.cur = next,
                                               !.after = after, !.pc = pc]]
      /\ recs' = Overwrite(recs, fresh) /\ cursor' = next
  BY DEF Page
<1>2. AllSound(fresh, content, published)
  <2>1. ASSUME NEW m \in Media PROVE Sound(m, fresh[m], content, published)
    <3>1. Sound(m, WhenRecord(w.snap[m], m), content, published)
      BY <1>0, WhenRecordSound DEF WorkerSound, AllSound
    <3>2. Sound(m, NoRecord, content, published)
      BY <1>0, EmptySound DEF CameraType
    <3> QED
      BY <3>1, <3>2
  <2> HIDE DEF w, rows
  <2> QED
    BY <2>1 DEF AllSound, Sound
<1>3. AllSound(recs', content, published) /\ AllSound(found, content, published)
  <2>1. AllSound(recs, content, published) /\ AllSound(w.found, content, published)
    BY <1>0 DEF CameraInv, WorkerSound
  <2> HIDE DEF fresh, w
  <2> QED
    BY <1>1, <1>2, <2>1, OverwriteSound
<1>4. ~finished => Min(rows) \in Media
  <2>1. rows \in SUBSET Media
    BY DEF PageRows
  <2> HIDE DEF rows
  <2> QED
    BY <2>1, FullPage
<1> HIDE DEF rows, finished, fresh
<1>5. /\ next \in Cursor /\ after \in 0 .. Rows + 1
      /\ pc \in {"walk", "known"}
  <2>1. w.cur \in Cursor /\ w.high \in NoMark .. Rows /\ w.after \in 0 .. Rows + 1
    BY <1>0 DEF Worker
  <2>2. Media \subseteq 0 .. Rows + 1 /\ Media \subseteq NoMark .. Rows
    BY Bounds
  <2> HIDE DEF w
  <2> QED
    BY <1>4, <2>1, <2>2 DEF Cursor
<1>6. found \in [Media -> Record]
  BY <1>3 DEF AllSound
<1> HIDE DEF next, after, pc, found, w
<1>7. lane \in [Lane -> Worker]
  BY DEF CameraInv, LanesInv
<1>8. /\ lane' = [lane EXCEPT ![l] = lane'[l]]
      /\ lane'[l] = [w EXCEPT !.found = found, !.cur = next, !.after = after, !.pc = pc]
  BY <1>1, <1>7
<1>9. lane'[l] \in Worker
  BY <1>0, <1>5, <1>6, <1>8 DEF Worker
<1>10. WorkerSound(lane'[l], content, published)
  <2>1. lane'[l].snap = w.snap /\ lane'[l].found = found /\ lane'[l].todo = w.todo
    BY <1>0, <1>8 DEF Worker
  <2> QED
    BY <1>0, <1>3, <2>1 DEF WorkerSound
<1>11. UNCHANGED <<content, born, scope, mode, published, recon>> /\ ItemsInv'
  BY DEF Page, env, transfer, CameraInv, ItemsInv
<1> QED
  BY <1>1, <1>3, <1>5, <1>8, <1>9, <1>10, <1>11, LaneKeeps

LEMMA CommitScanKeeps ==
    ASSUME CameraInv, NEW l \in Lane, CommitScan(l)
    PROVE  CameraInv'
<1> DEFINE w == lane[l]
           known == [m \in Media |-> Known(w.snap[m], m, w)]
           Only(gone) == [m \in Media |-> IF (known[m].status = "LOCALLY_DELETED") = gone
                                             THEN known[m] ELSE NoRecord]
           merged == Overwrite(Overwrite(Overwrite(w.snap, Only(TRUE)), w.found), Only(FALSE))
<1>0. w \in Worker /\ WorkerSound(w, content, published) /\ CameraType /\ lane \in [Lane -> Worker]
  BY DEF CameraInv, LanesInv
<1>1. recs' = Overwrite(recs, merged) /\ cursor' = w.cur
  BY DEF CommitScan
<1>2. \A m \in Media : Sound(m, known[m], content, published)
  BY <1>0, KnownSound DEF WorkerSound, AllSound
<1>3. AllSound(Only(TRUE), content, published) /\ AllSound(Only(FALSE), content, published)
  <2>1. \A m \in Media : Sound(m, NoRecord, content, published)
    BY <1>0, EmptySound DEF CameraType
  <2> HIDE DEF known, w
  <2>2. /\ \A m \in Media : Only(TRUE)[m] \in {known[m], NoRecord}
        /\ \A m \in Media : Only(FALSE)[m] \in {known[m], NoRecord}
    BY Zenon
  <2>3. /\ \A m \in Media : Sound(m, Only(TRUE)[m], content, published)
        /\ \A m \in Media : Sound(m, Only(FALSE)[m], content, published)
    BY <1>2, <2>1, <2>2
  <2>4. Only(TRUE) = [m \in Media |-> Only(TRUE)[m]] /\ Only(FALSE) = [m \in Media |-> Only(FALSE)[m]]
    OBVIOUS
  <2> HIDE DEF Only
  <2> QED
    BY <2>3, <2>4 DEF AllSound, Sound
<1>4. AllSound(recs', content, published)
  <2>1. /\ AllSound(recs, content, published) /\ AllSound(w.found, content, published)
        /\ AllSound(w.snap, content, published)
    BY <1>0 DEF CameraInv, WorkerSound
  <2> HIDE DEF w, Only
  <2>2. AllSound(Overwrite(w.snap, Only(TRUE)), content, published)
    BY <1>3, <2>1, OverwriteSound
  <2>3. AllSound(Overwrite(Overwrite(w.snap, Only(TRUE)), w.found), content, published)
    BY <2>1, <2>2, OverwriteSound
  <2>4. AllSound(merged, content, published)
    BY <1>3, <2>3, OverwriteSound
  <2> HIDE DEF merged
  <2> QED
    BY <1>1, <2>1, <2>4, OverwriteSound
<1>5. cursor' \in Cursor
  BY <1>0, <1>1 DEF Worker
<1>6. /\ lane' = [lane EXCEPT ![l] = lane'[l]]
      /\ lane'[l] = [IdleLane EXCEPT !.pc = "list"]
  BY <1>0 DEF CommitScan
<1>7. lane'[l] \in Worker /\ WorkerSound(lane'[l], content, published)
  <2>1. WorkerSound(IdleLane, content, published)
    BY <1>0, IdleSound DEF CameraType
  <2>2. lane'[l] \in Worker
    BY <1>6, IdleIs DEF Worker
  <2>3. lane'[l].snap = IdleLane.snap /\ lane'[l].found = IdleLane.found /\ lane'[l].todo = IdleLane.todo
    BY <1>6, IdleIs DEF Worker
  <2> QED
    BY <2>1, <2>2, <2>3 DEF WorkerSound
<1>8. UNCHANGED <<content, born, scope, mode, published, recon>> /\ ItemsInv'
  BY DEF CommitScan, env, transfer, CameraInv, ItemsInv
<1> QED
  BY <1>4, <1>5, <1>6, <1>7, <1>8, LaneKeeps

-----------------------------------------------------------------------------
(* What staging writes is sound.                                           *)

LEMMA PrepareKeeps ==
    ASSUME CameraInv, NEW l \in Lane, Prepare(l)
    PROVE  CameraInv'
<1> DEFINE w == lane[l]
           usable == w.listed = "camera" \/ (w.listed = "network" /\ cached)
           work == {m \in Media : \/ recs[m].status = "STAGED"
                                  \/ usable /\ recs[m].status \in {"DISCOVERED", "UNREADABLE"}}
<1>0. w \in Worker /\ WorkerSound(w, content, published) /\ lane \in [Lane -> Worker]
  BY DEF CameraInv, LanesInv
<1>1. lane' = [lane EXCEPT ![l].pc = "stage", ![l].snap = recs, ![l].todo = work]
  BY DEF Prepare
<1>2. work \subseteq Media /\ \A m \in work : recs[m].status \in {"DISCOVERED", "STAGED", "UNREADABLE"}
  OBVIOUS
<1>3. recs \in [Media -> Record] /\ AllSound(recs, content, published)
  BY DEF CameraInv, AllSound
<1> HIDE DEF work, w
<1>4. /\ lane' = [lane EXCEPT ![l] = lane'[l]]
      /\ lane'[l] = [w EXCEPT !.pc = "stage", !.snap = recs, !.todo = work]
  BY <1>0, <1>1 DEF Worker, w
<1>5. lane'[l] \in Worker
  BY <1>0, <1>2, <1>3, <1>4 DEF Worker
<1>6. WorkerSound(lane'[l], content, published)
  <2>1. lane'[l].snap = recs /\ lane'[l].found = w.found /\ lane'[l].todo = work
    BY <1>0, <1>4 DEF Worker
  <2> QED
    BY <1>0, <1>2, <1>3, <2>1 DEF WorkerSound
<1> QED
  BY <1>4, <1>5, <1>6, LaneOnly DEF Prepare, env, transfer

LEMMA EnqueuedSound ==
    ASSUME CameraType, ItemsInv, NEW m \in Media, NEW r, Sound(m, r, content, published),
           r.status \in {"DISCOVERED", "UNREADABLE"}
    PROVE  Sound(m, Enqueued(r, m, content[m].rev), content, published)
<1> DEFINE v == content[m].rev
<1>1. /\ v \in Revision /\ v \in 0 .. MaxRevision /\ v # 0 /\ v >= v
      /\ r \in Record /\ r.meta <= v /\ r.meta \in Nat
  BY Bounds DEF CameraType, Sound, Record
<1>2. queue[m][v] = "done" => <<m, v>> \in published
  BY <1>1 DEF ItemsInv
<1> HIDE DEF v
<1>3. r.meta <= v /\ v >= r.meta
  BY <1>1, Bounds
<1>4. ASSUME NEW s \in {"STAGED", "DISCOVERED", "UNREADABLE"} \cup {"PROTECTED"},
             s = "PROTECTED" => <<m, v>> \in published,
             NEW q, q = [status |-> s, meta |-> r.meta, name |-> r.name, sha |-> v, item |-> v]
      PROVE  Sound(m, q, content, published)
  <2>1. q \in Record
    BY <1>1, <1>4 DEF Record, Status
  <2> QED
    BY <1>1, <1>3, <1>4, <2>1 DEF Sound, v
<1>5. CASE queue[m][v] = "none"
  <2>1. Enqueued(r, m, v) = [status |-> "STAGED", meta |-> r.meta, name |-> r.name, sha |-> v, item |-> v]
    BY <1>1, <1>5 DEF Enqueued, Record
  <2> QED
    BY <1>4, <2>1 DEF v
<1>6. CASE queue[m][v] = "done"
  <2>1. Enqueued(r, m, v) = [status |-> "PROTECTED", meta |-> r.meta, name |-> r.name, sha |-> v, item |-> v]
    BY <1>1, <1>6 DEF Enqueued, Record
  <2> QED
    BY <1>2, <1>4, <1>6, <2>1 DEF v
<1>7. CASE queue[m][v] \notin {"none", "done"}
  <2>1. Enqueued(r, m, v) = [status |-> r.status, meta |-> r.meta, name |-> r.name, sha |-> v, item |-> v]
    BY <1>1, <1>7 DEF Enqueued, Record
  <2> QED
    BY <1>4, <2>1 DEF v
<1> QED
  BY <1>5, <1>6, <1>7

LEMMA StageRecordKeeps ==
    ASSUME CameraInv, NEW l \in Lane, NEW m \in Media, StageRecord(l, m)
    PROVE  CameraInv'
<1> DEFINE w == lane[l]
           r == w.snap[m]
           v == content[m].rev
           update == IF r.status = "STAGED"
                     THEN IF queue[m][r.item] = "done"
                          THEN [r EXCEPT !.status = "PROTECTED", !.sha = r.item] ELSE NoRecord
                     ELSE IF Visible(m) THEN Enqueued(r, m, v) ELSE [r EXCEPT !.status = "UNREADABLE"]
<1>0. /\ w \in Worker /\ WorkerSound(w, content, published) /\ lane \in [Lane -> Worker]
      /\ CameraType /\ ItemsInv
  BY DEF CameraInv, LanesInv
<1>1. /\ lane' = [lane EXCEPT ![l].todo = @ \ {m}, ![l].found[m] = update]
      /\ m \in w.todo
      /\ queue' = IF r.status # "STAGED" /\ Visible(m) /\ queue[m][v] = "none"
                    THEN [queue EXCEPT ![m][v] = "pending"] ELSE queue
  BY DEF StageRecord
<1>2. Sound(m, r, content, published) /\ r.status \in {"DISCOVERED", "STAGED", "UNREADABLE"}
  BY <1>0, <1>1 DEF WorkerSound, AllSound
<1>3. Sound(m, update, content, published)
  <2>1. CASE r.status = "STAGED"
    <3>1. Sound(m, NoRecord, content, published)
      BY <1>0, EmptySound DEF CameraType
    <3>2. ASSUME queue[m][r.item] = "done"
          PROVE  Sound(m, [r EXCEPT !.status = "PROTECTED", !.sha = r.item], content, published)
      <4> HIDE DEF r
      <4>1. r \in Record /\ r.item \in 0 .. MaxRevision /\ r.item # 0 /\ r.item >= r.meta
        BY <1>2, <2>1 DEF Sound, Record
      <4>2. r.item \in Revision
        BY <4>1, Bounds
      <4>3. <<m, r.item>> \in published
        BY <1>0, <3>2, <4>2 DEF ItemsInv
      <4>4. "PROTECTED" \in Status
        BY DEF Status
      <4> DEFINE q == [r EXCEPT !.status = "PROTECTED", !.sha = r.item]
      <4>5. /\ q \in Record /\ q.status = "PROTECTED" /\ q.meta = r.meta
            /\ q.sha = r.item /\ q.item = r.item
        <5>1. q = [r EXCEPT !.status = "PROTECTED", !.sha = r.item]
          OBVIOUS
        <5> HIDE DEF q
        <5> QED
          BY <4>1, <4>4, <5>1 DEF Record
      <4> HIDE DEF q
      <4>6. Sound(m, q, content, published)
        BY <1>2, <4>1, <4>3, <4>5 DEF Sound
      <4> QED
        BY <4>6 DEF q
    <3> QED
      BY <2>1, <3>1, <3>2
  <2>2. CASE r.status # "STAGED"
    <3>1. Sound(m, Enqueued(r, m, v), content, published)
      BY <1>0, <1>2, <2>2, EnqueuedSound
    <3>2. Sound(m, [r EXCEPT !.status = "UNREADABLE"], content, published)
      BY <1>2, StatusSound
    <3> QED
      BY <2>2, <3>1, <3>2
  <2> QED
    BY <2>1, <2>2
<1>4. update \in Record
  BY <1>3 DEF Sound
<1>5. ItemsInv' /\ published' = published
  <2>1. v \in Revision
    BY <1>0 DEF CameraType
  <2>2. published' = published
    BY DEF StageRecord
  <2> HIDE DEF v, r
  <2> QED
    BY <1>0, <1>1, <2>1, <2>2 DEF ItemsInv, ItemStatus
<1> HIDE DEF update, v, r
<1>6. /\ lane' = [lane EXCEPT ![l] = lane'[l]]
      /\ lane'[l] = [w EXCEPT !.todo = w.todo \ {m}, !.found = [w.found EXCEPT ![m] = update]]
  BY <1>0, <1>1 DEF Worker
<1> HIDE DEF w
<1> DEFINE found == [w.found EXCEPT ![m] = update]
           todo == w.todo \ {m}
<1>7. found \in [Media -> Record] /\ todo \in SUBSET Media /\ AllSound(found, content, published)
  BY <1>0, <1>3, <1>4 DEF Worker, WorkerSound, AllSound
<1>8. lane'[l] = [w EXCEPT !.todo = todo, !.found = found] /\ todo \subseteq w.todo
  BY <1>6
<1> HIDE DEF found, todo
<1>9. lane'[l] \in Worker
  BY <1>0, <1>7, <1>8 DEF Worker
<1>10. WorkerSound(lane'[l], content, published)
  <2>1. lane'[l].snap = w.snap /\ lane'[l].found = found /\ lane'[l].todo = todo
    BY <1>0, <1>8 DEF Worker
  <2> QED
    BY <1>0, <1>7, <1>8, <2>1 DEF WorkerSound
<1>11. /\ UNCHANGED <<content, born, scope, mode, published, recon>>
       /\ AllSound(recs', content, published) /\ cursor' \in Cursor
  BY DEF StageRecord, env, store, CameraInv
<1> QED
  BY <1>5, <1>6, <1>9, <1>10, <1>11, LaneKeeps

LEMMA FinishRunKeeps ==
    ASSUME CameraInv, NEW l \in Lane, FinishRun(l)
    PROVE  CameraInv'
<1>1. /\ lane' = [lane EXCEPT ![l] = lane'[l]]
      /\ lane'[l] = IdleLane
  BY DEF FinishRun, CameraInv, LanesInv
<1>2. WorkerSound(IdleLane, content, published)
  BY IdleSound DEF CameraInv, CameraType
<1>3. AllSound(recs', content, published)
  BY OverwriteSound DEF FinishRun, CameraInv, LanesInv, WorkerSound
<1>4. /\ UNCHANGED <<content, born, scope, mode, published, recon>>
      /\ cursor' \in Cursor /\ ItemsInv'
  BY DEF FinishRun, env, transfer, CameraInv, ItemsInv
<1> QED
  BY <1>1, <1>2, <1>3, <1>4, IdleIs, LaneKeeps

LEMMA CameraStep ==
    ASSUME CameraInv, [Next]_vars
    PROVE  CameraInv'
<1>1. CASE UNCHANGED vars
  BY <1>1 DEF vars, env, store, transfer, CameraInv, CameraType, ItemsInv, LanesInv, ReconInv
<1>2. ASSUME NEW m \in Media, NEW v \in 1 .. MaxRevision,
             CancelItem(m, v) \/ RemoveItem(m, v) \/ Publish(m, v) \/ UploadDone(m, v)
      PROVE  CameraInv'
  BY <1>2, CancelItemKeeps, RemoveItemKeeps, PublishKeeps, UploadDoneKeeps DEF Revision
<1>3. ASSUME NEW l \in Lane, StartScan(l) \/ Scan(l) \/ PageFails(l) \/ KnownFails(l)
      PROVE  CameraInv'
  BY <1>3, StartScanKeeps, BoundaryKeeps, PageKeeps, CommitScanKeeps, PageFailsKeeps,
     KnownFailsKeeps DEF Scan
<1>4. ASSUME NEW l \in Lane, Stage(l) \/ ListFails(l)
      PROVE  CameraInv'
  BY <1>4, ListKeeps, PrepareKeeps, StageRecordKeeps, FinishRunKeeps DEF Stage
<1>5. ASSUME NEW s \in {"FULL", "PARTIAL", "NOT_GRANTED"}, ChangeScope(s)
      PROVE  CameraInv'
  BY <1>5, ChangeScopeKeeps DEF Scope
<1> QED
  BY <1>1, <1>2, <1>3, <1>4, <1>5, CaptureKeeps, EnvironmentKeeps, SetScopeModeKeeps,
     ReconcileReadKeeps, ReconcileWriteKeeps, ProcessDiesKeeps DEF Next

LEMMA CameraHolds == CompanionSpec => []CameraInv
<1>1. CompanionInit => CameraInv
  BY CameraStart DEF CompanionInit
<1>2. CameraInv /\ [CompanionNext]_companionVars => CameraInv'
  BY CameraStep DEF CompanionNext, ProtectionStep, EnrollmentStep, companionVars
<1> QED
  BY <1>1, <1>2, PTL DEF CompanionSpec

\* A record that is called protected names bytes the server holds, at least
\* as new as the size and date the next scan compares with
\* (reconcileCompleted, enqueueStaged, absenceDecision).
THEOREM ProtectedUploaded == CompanionSpec => []ProtectedIsUploaded
<1>1. CameraInv => ProtectedIsUploaded
  BY CameraChecked
<1> QED
  BY <1>1, CameraHolds, PTL

-----------------------------------------------------------------------------
(* Enrollment: what the server keeps.                                      *)

EnrollmentStatus == {"none", "pending", "used", "revoked", "expired"}

ServerType ==
    /\ enr \in [Enr -> [st : EnrollmentStatus, host : Enr \cup {None}, admin : BOOLEAN]]
    /\ token \in [Enr -> Enr \cup {None}]
    /\ revoked \subseteq Enr
    /\ grants \subseteq Enr
    /\ sess \in [Session -> [grant : Enr \cup {None}, st : {"none", "live", "revoked", "expired"}]]
    /\ sockets \subseteq Session

\* An enrollment is of a host that was enrolled itself, and has its authority.
HostsInv ==
    \A e \in Enr :
        IF enr[e].st = "none" THEN enr[e].host = None
        ELSE /\ enr[e].host \in Enr /\ enr[enr[e].host].st # "none"
             /\ enr[enr[e].host].host = enr[e].host
             /\ enr[e].admin = enr[enr[e].host].admin

TokensInv == \A h \in Enr : token[h] # None => enr[token[h]].host = h

\* The live grants are those minted with the tokens of registered hosts.
GrantsInv ==
    /\ \A g \in grants : enr[g].host \in Enr /\ token[enr[g].host] = g /\ enr[g].host \notin revoked
    /\ \A h \in Enr : Enrolling!Registered(h) => token[h] \in grants

RevokedInv ==
    \A h \in revoked : /\ enr[h].st # "none"
                       /\ \A e \in Enr : enr[e].host = h => enr[e].st \notin {"pending", "used"}

SessionsInv ==
    \A s \in Session :
        /\ sess[s].grant # None => enr[sess[s].grant].host \in Enr
        /\ sess[s].st = "live" => sess[s].grant # None /\ enr[sess[s].grant].host \notin revoked

SocketsInv == \A s \in sockets : sess[s].st # "revoked" /\ sess[s].grant \in grants

ServerInv ==
    /\ ServerType /\ HostsInv /\ TokensInv /\ GrantsInv /\ RevokedInv /\ SessionsInv /\ SocketsInv

(* What the app keeps: only without an unconfirmed removal is a code       *)
(* exchanged, and what leaves or exchanges knows of which host or code.    *)

AppInv ==
    /\ vault \in Enr \cup {None}
    /\ binding \in [enr : Enr \cup {None}, stage : {"none", "EXCHANGED", "REGISTERED"}]
    /\ reg \in Enr \cup {None}
    /\ cookie \in Session \cup {None}
    /\ marker \in BOOLEAN
    /\ flow \in [at : {"idle", "exchange", "me", "bootstrap", "leave", "revoke"},
                 enr : Enr \cup {None}, sess : Session \cup {None}]
    /\ check \in [host : Enr \cup {None}, tok : Enr \cup {None}]
    /\ marker => vault = None /\ binding = Enrolling!Unbound
    /\ flow.at = "exchange" => ~marker
    /\ flow.at \in {"exchange", "leave", "revoke"} => flow.enr \in Enr

LEMMA OneGrant ==
    ASSUME ServerInv, NEW h \in Enr, Enrolling!Registered(h)
    PROVE  /\ token[h] \in Enr /\ Enrolling!GrantsOf(h) = {token[h]}
           /\ enr[h].st # "none" /\ enr[h].host = h /\ enr[token[h]].admin = enr[h].admin
           /\ h \notin revoked
<1>1. token[h] # None /\ h \notin revoked /\ token[h] \in Enr /\ enr[token[h]].host = h
  BY DEF ServerInv, ServerType, TokensInv, Enrolling!Registered
<1>2. Enrolling!GrantsOf(h) = {token[h]}
  <2>1. token[h] \in Enrolling!GrantsOf(h)
    BY <1>1 DEF ServerInv, GrantsInv, Enrolling!GrantsOf
  <2>2. \A g \in Enrolling!GrantsOf(h) : g = token[h]
    BY DEF ServerInv, GrantsInv, Enrolling!GrantsOf
  <2> QED
    BY <2>1, <2>2
<1>3. enr[token[h]].st # "none"
  BY <1>1, EnrollmentAssumption DEF ServerInv, HostsInv
<1> QED
  BY <1>1, <1>2, <1>3 DEF ServerInv, HostsInv

LEMMA EnrollmentChecked ==
    ASSUME ServerInv, AppInv
    PROVE  Enrolling!TypeOK /\ Enrolling!OneLiveGrant /\ PairingHolds
<1>1. Enrolling!TypeOK
  BY DEF ServerInv, ServerType, EnrollmentStatus, AppInv, Enrolling!TypeOK
<1>2. Enrolling!OneLiveGrant
  BY OneGrant DEF Enrolling!OneLiveGrant
<1>3. Enrolling!SocketsUnrevoked
  <2>1. ASSUME NEW s \in sockets
        PROVE  Enrolling!Registered(enr[sess[s].grant].host)
    <3>1. sess[s].grant \in grants /\ grants \subseteq Enr
      BY DEF ServerInv, ServerType, SocketsInv
    <3> QED
      BY <3>1, EnrollmentAssumption DEF ServerInv, GrantsInv, Enrolling!Registered
  <2> QED
    BY <2>1 DEF ServerInv, SocketsInv, Enrolling!SocketsUnrevoked
<1>4. Enrolling!RevokedForGood
  <2>1. ASSUME NEW h \in revoked
        PROVE  Enrolling!GrantsOf(h) = {}
    BY DEF ServerInv, GrantsInv, Enrolling!GrantsOf
  <2>2. ASSUME NEW h \in revoked, NEW s \in Enrolling!SessionsOf(h)
        PROVE  sess[s].st # "live"
    BY DEF ServerInv, SessionsInv, Enrolling!SessionsOf
  <2> QED
    BY <2>1, <2>2 DEF ServerInv, RevokedInv, Enrolling!RevokedForGood
<1>5. Enrolling!CleanupSparesPairing
  BY DEF AppInv, Enrolling!CleanupSparesPairing
<1> QED
  BY <1>1, <1>2, <1>3, <1>4, <1>5 DEF PairingHolds

LEMMA EnrollmentStart == Enrolling!Init => ServerInv /\ AppInv
<1> SUFFICES ASSUME Enrolling!Init PROVE ServerInv /\ AppInv
  OBVIOUS
<1> USE EnrollmentAssumption
<1>1. ServerType
  BY DEF Enrolling!Init, ServerType, EnrollmentStatus, Enrolling!NoRow, Enrolling!NoSession
<1>2. HostsInv /\ TokensInv /\ RevokedInv /\ SessionsInv /\ SocketsInv
  BY DEF Enrolling!Init, HostsInv, TokensInv, RevokedInv, SessionsInv, SocketsInv,
         Enrolling!NoRow, Enrolling!NoSession
<1>3. GrantsInv
  BY DEF Enrolling!Init, GrantsInv, Enrolling!Registered
<1>4. AppInv
  BY DEF Enrolling!Init, AppInv, Enrolling!Unbound, Enrolling!Idle, Enrolling!NoCheck
<1> QED
  BY <1>1, <1>2, <1>3, <1>4 DEF ServerInv

-----------------------------------------------------------------------------
(* What the server does.                                                   *)

\* Enrollments are made or closed, nothing that was given is.
LEMMA CreateEnrollmentKeeps ==
    ASSUME ServerInv, NEW e \in Enr, NEW admin \in BOOLEAN, Enrolling!CreateEnrollment(e, admin)
    PROVE  ServerInv'
<1> USE EnrollmentAssumption
<1>1. /\ enr[e].st = "none" /\ enr[e].host = None
      /\ UNCHANGED <<token, revoked, grants, sess, sockets>>
  BY DEF Enrolling!CreateEnrollment, ServerInv, HostsInv
<1>2. enr' = [x \in Enr |->
                  IF x = e THEN [st |-> "pending", host |-> e, admin |-> admin]
                  ELSE IF enr[x].st = "pending" /\ enr[x].host = x
                       THEN [enr[x] EXCEPT !.st = "revoked"] ELSE enr[x]]
  BY DEF Enrolling!CreateEnrollment
<1>3. ServerType'
  <2>1. enr \in [Enr -> [st : EnrollmentStatus, host : Enr \cup {None}, admin : BOOLEAN]]
    BY DEF ServerInv, ServerType
  <2>2. \A x \in Enr : enr'[x] \in [st : EnrollmentStatus, host : Enr \cup {None}, admin : BOOLEAN]
    BY <1>2, <2>1 DEF EnrollmentStatus
  <2>3. enr' = [x \in Enr |-> enr'[x]]
    BY <1>2
  <2>4. enr' \in [Enr -> [st : EnrollmentStatus, host : Enr \cup {None}, admin : BOOLEAN]]
    BY <2>2, <2>3
  <2> QED
    BY <1>1, <2>4 DEF ServerInv, ServerType
<1>4. /\ enr'[e].st = "pending" /\ enr'[e].host = e /\ enr'[e].admin = admin
      /\ \A x \in Enr \ {e} : /\ enr'[x].host = enr[x].host /\ enr'[x].admin = enr[x].admin
                              /\ enr'[x].st = enr[x].st \/ (enr[x].st = "pending" /\ enr'[x].st = "revoked")
  BY <1>2 DEF ServerInv, ServerType
<1>5. HostsInv'
  BY <1>1, <1>4 DEF ServerInv, ServerType, HostsInv
<1>6. TokensInv'
  BY <1>1, <1>4 DEF ServerInv, ServerType, HostsInv, TokensInv
<1>7. GrantsInv'
  BY <1>1, <1>4 DEF ServerInv, ServerType, GrantsInv, Enrolling!Registered
<1>8. RevokedInv'
  BY <1>1, <1>4 DEF ServerInv, ServerType, RevokedInv
<1>9. SessionsInv' /\ SocketsInv'
  BY <1>1, <1>4 DEF ServerInv, ServerType, SessionsInv, SocketsInv
<1> QED
  BY <1>3, <1>5, <1>6, <1>7, <1>8, <1>9 DEF ServerInv

\* A reconnect asks for the authority the host was paired with.
LEMMA CreateReconnectKeeps ==
    ASSUME ServerInv, NEW e \in Enr, NEW h \in Enr, Enrolling!CreateReconnect(e, h)
    PROVE  ServerInv'
<1> USE EnrollmentAssumption
<1>1. /\ enr[e].st = "none" /\ enr[e].host = None /\ Enrolling!Registered(h)
      /\ UNCHANGED <<token, revoked, grants, sess, sockets>>
  BY DEF Enrolling!CreateReconnect, ServerInv, HostsInv
<1>2. /\ Enrolling!GrantsOf(h) = {token[h]} /\ enr[token[h]].admin = enr[h].admin
      /\ enr[h].st # "none" /\ enr[h].host = h /\ h # e /\ h \notin revoked
  BY <1>1, OneGrant
<1> DEFINE admin == Enrolling!RestoredAuthority(h)
<1>3. enr' = [x \in Enr |->
                  IF x = e THEN [st |-> "pending", host |-> h, admin |-> admin]
                  ELSE IF enr[x].st = "pending" /\ enr[x].host = h /\ x # h
                       THEN [enr[x] EXCEPT !.st = "revoked"] ELSE enr[x]]
  BY DEF Enrolling!CreateReconnect
<1>4. admin = enr[h].admin /\ admin \in BOOLEAN
  <2>1. enr[h].admin \in BOOLEAN
    BY DEF ServerInv, ServerType
  <2>2. admin \in BOOLEAN
    BY DEF Enrolling!RestoredAuthority
  <2>3. admin <=> enr[h].admin
    BY <1>2, Zenon DEF Enrolling!RestoredAuthority
  <2> HIDE DEF admin
  <2> QED
    BY <2>1, <2>2, <2>3
<1> HIDE DEF admin
<1>5. ServerType'
  <2>1. enr \in [Enr -> [st : EnrollmentStatus, host : Enr \cup {None}, admin : BOOLEAN]]
    BY DEF ServerInv, ServerType
  <2>2. \A x \in Enr : enr'[x] \in [st : EnrollmentStatus, host : Enr \cup {None}, admin : BOOLEAN]
    BY <1>3, <1>4, <2>1 DEF EnrollmentStatus
  <2>3. enr' = [x \in Enr |-> enr'[x]]
    BY <1>3
  <2>4. enr' \in [Enr -> [st : EnrollmentStatus, host : Enr \cup {None}, admin : BOOLEAN]]
    BY <2>2, <2>3
  <2> QED
    BY <1>1, <2>4 DEF ServerInv, ServerType
<1>6. /\ enr'[e].st = "pending" /\ enr'[e].host = h /\ enr'[e].admin = enr[h].admin
      /\ \A x \in Enr \ {e} : /\ enr'[x].host = enr[x].host /\ enr'[x].admin = enr[x].admin
                              /\ enr'[x].st = enr[x].st \/ (enr[x].st = "pending" /\ enr'[x].st = "revoked")
  BY <1>3, <1>4 DEF ServerInv, ServerType
<1>7. HostsInv'
  BY <1>1, <1>2, <1>6 DEF ServerInv, ServerType, HostsInv
<1>8. TokensInv'
  BY <1>1, <1>6 DEF ServerInv, ServerType, HostsInv, TokensInv
<1>9. GrantsInv'
  BY <1>1, <1>6 DEF ServerInv, ServerType, GrantsInv, Enrolling!Registered
<1>10. RevokedInv'
  BY <1>1, <1>2, <1>6 DEF ServerInv, ServerType, RevokedInv
<1>11. SessionsInv' /\ SocketsInv'
  BY <1>1, <1>6 DEF ServerInv, ServerType, SessionsInv, SocketsInv
<1> QED
  BY <1>5, <1>7, <1>8, <1>9, <1>10, <1>11 DEF ServerInv

LEMMA ExpireKeeps ==
    ASSUME ServerInv, NEW e \in Enr, Enrolling!Expire(e)
    PROVE  ServerInv'
<1> USE EnrollmentAssumption
<1>1. /\ enr[e].st = "pending" /\ enr' = [enr EXCEPT ![e].st = "expired"]
      /\ UNCHANGED <<token, revoked, grants, sess, sockets>>
  BY DEF Enrolling!Expire
<1>2. ServerType'
  BY <1>1 DEF ServerInv, ServerType, EnrollmentStatus
<1>3. \A x \in Enr : /\ enr'[x].host = enr[x].host /\ enr'[x].admin = enr[x].admin
                     /\ enr'[x].st = enr[x].st \/ (enr[x].st = "pending" /\ enr'[x].st = "expired")
  BY <1>1 DEF ServerInv, ServerType
<1>4. HostsInv' /\ TokensInv'
  BY <1>1, <1>3 DEF ServerInv, ServerType, HostsInv, TokensInv
<1>5. GrantsInv'
  BY <1>1, <1>3 DEF ServerInv, ServerType, GrantsInv, Enrolling!Registered
<1>6. RevokedInv' /\ SessionsInv' /\ SocketsInv'
  BY <1>1, <1>3 DEF ServerInv, ServerType, RevokedInv, SessionsInv, SocketsInv
<1> QED
  BY <1>2, <1>4, <1>5, <1>6 DEF ServerInv

\* A revocation takes the grant, the sessions, the codes and the sockets.
LEMMA RevokedKeeps ==
    ASSUME ServerInv, NEW h \in Enr, Enrolling!Registered(h), Enrolling!Revoked(h)
    PROVE  ServerInv'
<1> USE EnrollmentAssumption
<1>1. /\ enr[h].st # "none" /\ h \notin revoked
      /\ Enrolling!GrantsOf(h) = {token[h]}
  BY OneGrant
<1>2. /\ revoked' = revoked \cup {h} /\ grants' = grants \ Enrolling!GrantsOf(h)
      /\ sockets' = sockets \ Enrolling!SessionsOf(h) /\ token' = token
  BY DEF Enrolling!Revoked
<1>3. enr' = [x \in Enr |-> IF enr[x].host = h THEN [enr[x] EXCEPT !.st = "revoked"] ELSE enr[x]]
  BY DEF Enrolling!Revoked, Enrolling!EnrollmentsRevoked
<1>4. sess' = [s \in Session |-> IF s \in Enrolling!SessionsOf(h) /\ sess[s].st # "none"
                                 THEN [sess[s] EXCEPT !.st = "revoked"] ELSE sess[s]]
  BY DEF Enrolling!Revoked, Enrolling!SessionsRevoked
<1>5. \A x \in Enr : /\ enr'[x].host = enr[x].host /\ enr'[x].admin = enr[x].admin
                     /\ IF enr[x].host = h THEN enr'[x].st = "revoked" ELSE enr'[x].st = enr[x].st
  BY <1>3 DEF ServerInv, ServerType
<1>6. \A s \in Session : /\ sess'[s].grant = sess[s].grant
                         /\ IF s \in Enrolling!SessionsOf(h) /\ sess[s].st # "none"
                            THEN sess'[s].st = "revoked" ELSE sess'[s].st = sess[s].st
  BY <1>4 DEF ServerInv, ServerType
<1>7. ServerType'
  <2>1. /\ enr \in [Enr -> [st : EnrollmentStatus, host : Enr \cup {None}, admin : BOOLEAN]]
        /\ sess \in [Session -> [grant : Enr \cup {None}, st : {"none", "live", "revoked", "expired"}]]
    BY DEF ServerInv, ServerType
  <2>2. enr' \in [Enr -> [st : EnrollmentStatus, host : Enr \cup {None}, admin : BOOLEAN]]
    BY <1>3, <2>1 DEF EnrollmentStatus
  <2>3. sess' \in [Session -> [grant : Enr \cup {None}, st : {"none", "live", "revoked", "expired"}]]
    BY <1>4, <2>1
  <2> QED
    BY <1>2, <2>2, <2>3 DEF ServerInv, ServerType
<1>8. HostsInv'
  <2> SUFFICES ASSUME NEW e \in Enr
               PROVE  IF enr'[e].st = "none" THEN enr'[e].host = None
                      ELSE /\ enr'[e].host \in Enr /\ enr'[enr'[e].host].st # "none"
                           /\ enr'[enr'[e].host].host = enr'[e].host
                           /\ enr'[e].admin = enr'[enr'[e].host].admin
    BY DEF HostsInv
  <2>1. IF enr[e].st = "none" THEN enr[e].host = None
        ELSE /\ enr[e].host \in Enr /\ enr[enr[e].host].st # "none"
             /\ enr[enr[e].host].host = enr[e].host
             /\ enr[e].admin = enr[enr[e].host].admin
    BY DEF ServerInv, HostsInv
  <2> QED
    BY <1>5, <2>1
<1>9. TokensInv'
  BY <1>2, <1>5 DEF ServerInv, ServerType, TokensInv
<1>10. GrantsInv'
  <2>1. ASSUME NEW g \in grants'
        PROVE  enr'[g].host \in Enr /\ token'[enr'[g].host] = g /\ enr'[g].host \notin revoked'
    BY <1>2, <1>5 DEF ServerInv, ServerType, GrantsInv, Enrolling!GrantsOf
  <2>2. ASSUME NEW k \in Enr, Enrolling!Registered(k)'
        PROVE  token'[k] \in grants'
    <3>1. Enrolling!Registered(k) /\ k # h
      BY <1>2, <2>2 DEF Enrolling!Registered
    <3>2. token[k] \in grants /\ enr[token[k]].host = k
      BY <3>1 DEF ServerInv, TokensInv, GrantsInv, Enrolling!Registered
    <3> QED
      BY <1>2, <3>1, <3>2 DEF Enrolling!GrantsOf
  <2> QED
    BY <2>1, <2>2 DEF GrantsInv
<1>11. RevokedInv'
  BY <1>1, <1>2, <1>5 DEF ServerInv, ServerType, RevokedInv
<1>12. SessionsInv'
  <2> SUFFICES ASSUME NEW s \in Session
               PROVE  /\ sess'[s].grant # None => enr'[sess'[s].grant].host \in Enr
                      /\ sess'[s].st = "live" => /\ sess'[s].grant # None
                                                 /\ enr'[sess'[s].grant].host \notin revoked'
    BY DEF SessionsInv
  <2>1. sess[s].grant \in Enr \cup {None} /\ sess'[s].grant = sess[s].grant
    BY <1>6 DEF ServerInv, ServerType
  <2>2. sess[s].grant # None => enr'[sess[s].grant].host = enr[sess[s].grant].host
    BY <1>5, <2>1
  <2>3. sess'[s].st = "live" => s \notin Enrolling!SessionsOf(h) /\ sess[s].st = "live"
    BY <1>6
  <2> QED
    BY <1>2, <2>1, <2>2, <2>3 DEF ServerInv, SessionsInv, Enrolling!SessionsOf
<1>13. SocketsInv'
  <2> SUFFICES ASSUME NEW s \in sockets' PROVE sess'[s].st # "revoked" /\ sess'[s].grant \in grants'
    BY DEF SocketsInv
  <2>1. /\ s \in Session /\ s \in sockets /\ s \notin Enrolling!SessionsOf(h)
        /\ sess[s].st # "revoked" /\ sess[s].grant \in grants
    BY <1>2 DEF ServerInv, ServerType, SocketsInv
  <2>2. sess[s].grant \notin Enrolling!GrantsOf(h)
    BY <2>1 DEF Enrolling!GrantsOf, Enrolling!SessionsOf, ServerInv, ServerType
  <2> QED
    BY <1>2, <1>6, <2>1, <2>2
<1> QED
  BY <1>7, <1>8, <1>9, <1>10, <1>11, <1>12, <1>13 DEF ServerInv

\* An exchange rotates what the host was given: the new token with the new
\* grant, the sessions and the sockets of the old ones closed.
LEMMA ExchangedKeeps ==
    ASSUME ServerInv, NEW e \in Enr, Enrolling!Exchangeable(e), Enrolling!Exchanged(e)
    PROVE  ServerInv'
<1> USE EnrollmentAssumption
<1> DEFINE h == enr[e].host
<1>1. /\ enr[e].st = "pending" /\ h \in Enr /\ enr[h].st # "none" /\ enr[h].host = h
      /\ h \notin revoked
  BY DEF Enrolling!Exchangeable, ServerInv, HostsInv, RevokedInv
<1>2. /\ enr' = [enr EXCEPT ![e].st = "used"] /\ token' = [token EXCEPT ![h] = e]
      /\ grants' = (grants \ Enrolling!GrantsOf(h)) \cup {e}
      /\ sockets' = sockets \ Enrolling!SessionsOf(h) /\ revoked' = revoked
  BY DEF Enrolling!Exchanged, Enrolling!Swept
<1>3. sess' = [s \in Session |-> IF s \in Enrolling!SessionsOf(h) /\ sess[s].st # "none"
                                 THEN [sess[s] EXCEPT !.st = "revoked"] ELSE sess[s]]
  BY DEF Enrolling!Exchanged, Enrolling!SessionsRevoked
<1>4. \A x \in Enr : /\ enr'[x].host = enr[x].host /\ enr'[x].admin = enr[x].admin
                     /\ IF x = e THEN enr'[x].st = "used" ELSE enr'[x].st = enr[x].st
  BY <1>2 DEF ServerInv, ServerType
<1>h. enr[e].host = h
  OBVIOUS
<1> HIDE DEF h
<1>5. \A s \in Session : /\ sess'[s].grant = sess[s].grant
                         /\ IF s \in Enrolling!SessionsOf(h) /\ sess[s].st # "none"
                            THEN sess'[s].st = "revoked" ELSE sess'[s].st = sess[s].st
  BY <1>3 DEF ServerInv, ServerType
<1>6. ServerType'
  <2>1. /\ enr \in [Enr -> [st : EnrollmentStatus, host : Enr \cup {None}, admin : BOOLEAN]]
        /\ sess \in [Session -> [grant : Enr \cup {None}, st : {"none", "live", "revoked", "expired"}]]
    BY DEF ServerInv, ServerType
  <2>2. enr' \in [Enr -> [st : EnrollmentStatus, host : Enr \cup {None}, admin : BOOLEAN]]
    BY <1>2, <2>1 DEF EnrollmentStatus
  <2>3. sess' \in [Session -> [grant : Enr \cup {None}, st : {"none", "live", "revoked", "expired"}]]
    BY <1>3, <2>1
  <2>4. token' \in [Enr -> Enr \cup {None}]
    BY <1>1, <1>2 DEF ServerInv, ServerType
  <2> QED
    BY <1>2, <2>2, <2>3, <2>4 DEF ServerInv, ServerType
<1>7. HostsInv'
  <2> SUFFICES ASSUME NEW x \in Enr
               PROVE  IF enr'[x].st = "none" THEN enr'[x].host = None
                      ELSE /\ enr'[x].host \in Enr /\ enr'[enr'[x].host].st # "none"
                           /\ enr'[enr'[x].host].host = enr'[x].host
                           /\ enr'[x].admin = enr'[enr'[x].host].admin
    BY DEF HostsInv
  <2>1. IF enr[x].st = "none" THEN enr[x].host = None
        ELSE /\ enr[x].host \in Enr /\ enr[enr[x].host].st # "none"
             /\ enr[enr[x].host].host = enr[x].host
             /\ enr[x].admin = enr[enr[x].host].admin
    BY DEF ServerInv, HostsInv
  <2> QED
    BY <1>1, <1>4, <2>1
<1>8. TokensInv'
  BY <1>1, <1>2, <1>4, <1>h DEF ServerInv, ServerType, TokensInv
<1>9. GrantsInv'
  <2>1. ASSUME NEW g \in grants'
        PROVE  enr'[g].host \in Enr /\ token'[enr'[g].host] = g /\ enr'[g].host \notin revoked'
    <3>1. CASE g = e
      BY <1>1, <1>2, <1>4, <1>h, <3>1 DEF ServerInv, ServerType
    <3>2. CASE g # e
      <4>1. g \in grants /\ g \in Enr /\ enr[g].host # h
        BY <1>2, <2>1, <3>2 DEF ServerInv, ServerType, Enrolling!GrantsOf
      <4> QED
        BY <1>1, <1>2, <1>4, <4>1 DEF ServerInv, ServerType, GrantsInv
    <3> QED
      BY <3>1, <3>2
  <2>2. ASSUME NEW k \in Enr, Enrolling!Registered(k)'
        PROVE  token'[k] \in grants'
    <3>1. CASE k = h
      BY <1>1, <1>2, <3>1 DEF ServerInv, ServerType
    <3>2. CASE k # h
      <4>1. Enrolling!Registered(k) /\ token'[k] = token[k]
        BY <1>1, <1>2, <2>2, <3>2 DEF Enrolling!Registered, ServerInv, ServerType
      <4>2. token[k] \in grants /\ enr[token[k]].host = k
        BY <4>1 DEF ServerInv, TokensInv, GrantsInv, Enrolling!Registered
      <4> QED
        BY <1>2, <3>2, <4>1, <4>2 DEF Enrolling!GrantsOf
    <3> QED
      BY <3>1, <3>2
  <2> QED
    BY <2>1, <2>2 DEF GrantsInv
<1>10. RevokedInv'
  BY <1>1, <1>2, <1>4, <1>h DEF ServerInv, ServerType, RevokedInv
<1>11. SessionsInv'
  <2> SUFFICES ASSUME NEW s \in Session
               PROVE  /\ sess'[s].grant # None => enr'[sess'[s].grant].host \in Enr
                      /\ sess'[s].st = "live" => /\ sess'[s].grant # None
                                                 /\ enr'[sess'[s].grant].host \notin revoked'
    BY DEF SessionsInv
  <2>1. sess[s].grant \in Enr \cup {None} /\ sess'[s].grant = sess[s].grant
    BY <1>5 DEF ServerInv, ServerType
  <2>2. sess[s].grant # None => enr'[sess[s].grant].host = enr[sess[s].grant].host
    BY <1>4, <2>1
  <2>3. sess'[s].st = "live" => sess[s].st = "live"
    BY <1>5
  <2> QED
    BY <1>2, <2>1, <2>2, <2>3 DEF ServerInv, SessionsInv
<1>12. SocketsInv'
  <2> SUFFICES ASSUME NEW s \in sockets' PROVE sess'[s].st # "revoked" /\ sess'[s].grant \in grants'
    BY DEF SocketsInv
  <2>1. /\ s \in Session /\ s \in sockets /\ s \notin Enrolling!SessionsOf(h)
        /\ sess[s].st # "revoked" /\ sess[s].grant \in grants
    BY <1>2 DEF ServerInv, ServerType, SocketsInv
  <2>2. sess[s].grant \notin Enrolling!GrantsOf(h)
    BY <2>1 DEF Enrolling!GrantsOf, Enrolling!SessionsOf, ServerInv, ServerType
  <2> QED
    BY <1>2, <1>5, <2>1, <2>2
<1> QED
  BY <1>6, <1>7, <1>8, <1>9, <1>10, <1>11, <1>12 DEF ServerInv

LEMMA BootstrappedKeeps ==
    ASSUME ServerInv, AppInv, NEW s \in Session, Enrolling!Bootstrappable, Enrolling!Bootstrapped(s)
    PROVE  ServerInv'
<1> USE EnrollmentAssumption
<1>1. /\ vault \in grants /\ vault \in Enr /\ enr[vault].host \in Enr /\ enr[vault].host \notin revoked
  BY DEF Enrolling!Bootstrappable, ServerInv, ServerType, GrantsInv
<1>2. /\ sess' = [sess EXCEPT ![s] = [grant |-> vault, st |-> "live"]]
      /\ UNCHANGED <<enr, token, revoked, grants, sockets>>
  BY DEF Enrolling!Bootstrapped
<1>3. ServerType' /\ SessionsInv' /\ SocketsInv'
  BY <1>1, <1>2 DEF ServerInv, ServerType, SessionsInv, SocketsInv
<1>4. HostsInv' /\ TokensInv' /\ RevokedInv'
  BY <1>2 DEF ServerInv, HostsInv, TokensInv, RevokedInv
<1>5. GrantsInv'
  BY <1>2 DEF ServerInv, GrantsInv, Enrolling!Registered
<1> QED
  BY <1>3, <1>4, <1>5 DEF ServerInv

\* Sockets open only with a live session; sessions end, sockets close.
LEMMA SessionsKeep ==
    ASSUME ServerInv, UNCHANGED <<enr, token, revoked, grants>>,
           sess' \in [Session -> [grant : Enr \cup {None}, st : {"none", "live", "revoked", "expired"}]],
           \A s \in Session : /\ sess'[s].grant = sess[s].grant
                              /\ sess'[s].st = "live" => sess[s].st = "live",
           sockets' \subseteq Session,
           \A s \in sockets' : sess'[s].st # "revoked" /\ sess'[s].grant \in grants
    PROVE  ServerInv'
<1>1. ServerType' /\ SessionsInv' /\ SocketsInv'
  BY DEF ServerInv, ServerType, SessionsInv, SocketsInv
<1>2. HostsInv' /\ TokensInv' /\ RevokedInv'
  BY DEF ServerInv, HostsInv, TokensInv, RevokedInv
<1>3. GrantsInv'
  BY DEF ServerInv, GrantsInv, Enrolling!Registered
<1> QED
  BY <1>1, <1>2, <1>3 DEF ServerInv

LEMMA OpenSocketKeeps ==
    ASSUME ServerInv, AppInv, Enrolling!OpenSocket
    PROVE  ServerInv'
<1>1. cookie \in Session /\ sess[cookie].st = "live" /\ sess[cookie].grant \in grants
  BY DEF AppInv, Enrolling!OpenSocket, Enrolling!Live
<1>2. sockets' = sockets \cup {cookie} /\ UNCHANGED <<enr, token, revoked, grants, sess>>
  BY DEF Enrolling!OpenSocket
<1> QED
  BY <1>1, <1>2, SessionsKeep DEF ServerInv, ServerType, SocketsInv

LEMMA LogoutKeeps ==
    ASSUME ServerInv, AppInv, Enrolling!Logout
    PROVE  ServerInv'
<1>1. cookie \in Session
  BY DEF AppInv, Enrolling!Logout
<1>2. /\ sess' = [sess EXCEPT ![cookie].st = "revoked"] /\ sockets' = sockets \ {cookie}
      /\ UNCHANGED <<enr, token, revoked, grants>>
  BY DEF Enrolling!Logout
<1>3. sess' \in [Session -> [grant : Enr \cup {None}, st : {"none", "live", "revoked", "expired"}]]
  BY <1>2 DEF ServerInv, ServerType
<1>4. \A s \in Session : /\ sess'[s].grant = sess[s].grant
                         /\ sess'[s].st = "live" => sess[s].st = "live"
                         /\ s # cookie => sess'[s] = sess[s]
  BY <1>1, <1>2 DEF ServerInv, ServerType
<1>5. sockets \subseteq Session
  BY DEF ServerInv, ServerType
<1> QED
  BY <1>1, <1>2, <1>3, <1>4, <1>5, SessionsKeep DEF ServerInv, SocketsInv

LEMMA SessionExpiresKeeps ==
    ASSUME ServerInv, NEW k \in Session, Enrolling!SessionExpires(k)
    PROVE  ServerInv'
<1>1. /\ sess[k].st = "live" /\ sess' = [sess EXCEPT ![k].st = "expired"]
      /\ UNCHANGED <<enr, token, revoked, grants, sockets>>
  BY DEF Enrolling!SessionExpires
<1>2. sess' \in [Session -> [grant : Enr \cup {None}, st : {"none", "live", "revoked", "expired"}]]
  BY <1>1 DEF ServerInv, ServerType
<1>3. \A s \in Session : /\ sess'[s].grant = sess[s].grant
                         /\ sess'[s].st = "live" => sess[s].st = "live"
                         /\ sess'[s].st = "revoked" => sess[s].st = "revoked"
  BY <1>1 DEF ServerInv, ServerType
<1>4. sockets \subseteq Session
  BY DEF ServerInv, ServerType
<1> QED
  BY <1>1, <1>2, <1>3, <1>4, SessionsKeep DEF ServerInv, SocketsInv

LEMMA SocketsCloseKeep ==
    ASSUME ServerInv, sockets' \subseteq sockets, UNCHANGED <<enr, token, revoked, grants, sess>>
    PROVE  ServerInv'
  BY SessionsKeep DEF ServerInv, ServerType, SocketsInv

-----------------------------------------------------------------------------
(* What the app does.                                                      *)

App == <<vault, binding, reg, cookie, marker, flow, check>>

LEMMA IdleApp ==
    /\ Enrolling!Idle \in [at : {"idle", "exchange", "me", "bootstrap", "leave", "revoke"},
                           enr : Enr \cup {None}, sess : Session \cup {None}]
    /\ Enrolling!Idle.at = "idle"
    /\ Enrolling!Unbound \in [enr : Enr \cup {None}, stage : {"none", "EXCHANGED", "REGISTERED"}]
    /\ Enrolling!NoCheck \in [host : Enr \cup {None}, tok : Enr \cup {None}]
  BY DEF Enrolling!Idle, Enrolling!Unbound, Enrolling!NoCheck

LEMMA AtApp ==
    ASSUME NEW p \in {"exchange", "me", "bootstrap"}, NEW e \in Enr \cup {None}
    PROVE  /\ Enrolling!At(p, e) \in [at : {"idle", "exchange", "me", "bootstrap", "leave", "revoke"},
                                      enr : Enr \cup {None}, sess : Session \cup {None}]
           /\ Enrolling!At(p, e).at = p /\ Enrolling!At(p, e).enr = e
  BY DEF Enrolling!At

\* The flow ends and nothing is stored that was not.
LEMMA ToIdle ==
    ASSUME AppInv, flow' = Enrolling!Idle, vault' \in {vault, None}, reg' \in Enr \cup {None},
           cookie' \in Session \cup {None}, check' \in {check, Enrolling!NoCheck},
           \/ binding' = binding /\ marker' = marker
           \/ binding' = Enrolling!Unbound /\ vault' = None /\ marker' \in BOOLEAN
    PROVE  AppInv'
  BY IdleApp DEF AppInv

\* The flow moves on to a step without a code of its own.
LEMMA ToStep ==
    ASSUME AppInv, NEW p \in {"me", "bootstrap"}, flow' = Enrolling!At(p, None),
           UNCHANGED <<vault, cookie, marker, check>>, reg' \in Enr \cup {None},
           binding' \in [enr : Enr \cup {None}, stage : {"none", "EXCHANGED", "REGISTERED"}],
           binding' = binding \/ ~marker
    PROVE  AppInv'
  BY AtApp DEF AppInv

LEMMA TeardownKeeps ==
    ASSUME AppInv, Enrolling!Teardown, check' = check
    PROVE  AppInv'
<1>1. /\ vault' = None /\ binding' = Enrolling!Unbound /\ reg' = None
      /\ flow' = Enrolling!Idle /\ marker' \in BOOLEAN
  BY DEF Enrolling!Teardown, Enrolling!StoresCleared
<1>2. cookie' \in Session \cup {None}
  BY DEF AppInv, Enrolling!Teardown
<1> QED
  BY <1>1, <1>2, ToIdle

\* A wipe that stops half way leaves the credentials or has removed them.
LEMMA WipeStopped ==
    ASSUME AppInv, Enrolling!WipeStops, UNCHANGED <<binding, reg, marker, flow, check>>
    PROVE  AppInv'
<1>1. cookie' \in Session \cup {None} /\ vault' \in {vault, None}
  BY DEF AppInv, Enrolling!WipeStops
<1> QED
  BY <1>1 DEF AppInv

LEMMA ResumeKeeps ==
    ASSUME AppInv, Enrolling!Resume, UNCHANGED <<vault, binding, reg, cookie, marker, check>>
    PROVE  AppInv'
<1>1. PICK p \in {"me", "bootstrap"} : flow' = Enrolling!At(p, None)
  BY DEF Enrolling!Resume
<1> QED
  BY <1>1, ToStep DEF AppInv

LEMMA ConfirmKeeps ==
    ASSUME AppInv, NEW e \in Enr, Enrolling!Confirm(e)
    PROVE  AppInv'
<1>0. check' = check
  BY DEF Enrolling!Confirm
<1>1. CASE binding.enr = e /\ vault # None
  BY <1>0, <1>1, ResumeKeeps DEF Enrolling!Confirm, Enrolling!stores
<1>2. CASE /\ Enrolling!StoresCleared /\ cookie' = None /\ marker' = FALSE
           /\ flow' = Enrolling!At("exchange", e)
  <2>1. /\ flow' \in [at : {"idle", "exchange", "me", "bootstrap", "leave", "revoke"},
                       enr : Enr \cup {None}, sess : Session \cup {None}]
        /\ flow'.at = "exchange" /\ flow'.enr = e
    BY <1>2, AtApp
  <2>2. vault' = None /\ binding' = Enrolling!Unbound /\ reg' = None
    BY <1>2 DEF Enrolling!StoresCleared
  <2> QED
    BY <1>0, <1>2, <2>1, <2>2, IdleApp DEF AppInv
<1>3. CASE Enrolling!WipeStops /\ UNCHANGED <<binding, reg, marker, flow>>
  BY <1>0, <1>3, WipeStopped
<1>4. CASE ~Enrolling!Wiped /\ flow' = Enrolling!At("exchange", e) /\ UNCHANGED Enrolling!stores
  <2>1. ~marker
    BY <1>4 DEF Enrolling!Wiped
  <2> QED
    BY <1>0, <1>4, <2>1, AtApp DEF AppInv, Enrolling!stores
<1> QED
  BY <1>1, <1>2, <1>3, <1>4 DEF Enrolling!Confirm

LEMMA ExchangeKeeps ==
    ASSUME AppInv, Enrolling!Exchange
    PROVE  AppInv'
<1>1. ~marker /\ flow.enr \in Enr
  BY DEF AppInv, Enrolling!Exchange
<1>2. /\ vault' = flow.enr /\ binding' = [enr |-> flow.enr, stage |-> "EXCHANGED"]
      /\ flow' = Enrolling!At("me", None) /\ UNCHANGED <<reg, cookie, marker, check>>
  BY DEF Enrolling!Exchange
<1> QED
  BY <1>1, <1>2, AtApp DEF AppInv

LEMMA ExchangeLostKeeps ==
    ASSUME AppInv, Enrolling!ExchangeLost
    PROVE  AppInv'
<1>1. ~marker /\ flow.enr \in Enr
  BY DEF AppInv, Enrolling!ExchangeLost
<1>2. /\ vault' \in {vault, flow.enr} /\ flow' = Enrolling!Idle
      /\ check' \in {check, Enrolling!NoCheck} /\ UNCHANGED <<binding, reg, cookie, marker>>
  BY DEF Enrolling!ExchangeLost
<1> QED
  BY <1>1, <1>2, IdleApp DEF AppInv

LEMMA FailsKeep ==
    ASSUME AppInv, NEW p \in {"exchange", "me", "bootstrap"}, Enrolling!Fails(p)
    PROVE  AppInv'
<1>1. flow' = Enrolling!Idle /\ UNCHANGED <<vault, binding, reg, cookie, marker, check>>
  BY DEF Enrolling!Fails, Enrolling!stores
<1> QED
  BY <1>1, ToIdle DEF AppInv

LEMMA TokenHostType == Enrolling!TokenHost \in Enr \cup {None}
  BY DEF Enrolling!TokenHost

LEMMA MeKeeps ==
    ASSUME AppInv, Enrolling!Me
    PROVE  AppInv'
<1>1. /\ vault # None /\ reg' = Enrolling!TokenHost
      /\ binding' = [binding EXCEPT !.stage = "REGISTERED"]
      /\ flow' = Enrolling!At("bootstrap", None) /\ UNCHANGED <<vault, cookie, marker, check>>
  BY DEF Enrolling!Me
<1>2. ~marker
  BY <1>1 DEF AppInv
<1>3. binding' \in [enr : Enr \cup {None}, stage : {"none", "EXCHANGED", "REGISTERED"}]
  BY <1>1 DEF AppInv
<1> QED
  BY <1>1, <1>2, <1>3, TokenHostType, ToStep

LEMMA BootstrapKeeps ==
    ASSUME AppInv, NEW s \in Session, Enrolling!Bootstrap(s) \/ Enrolling!BootstrapLost(s)
    PROVE  AppInv'
<1>1. /\ flow' = Enrolling!Idle /\ UNCHANGED <<vault, binding, reg, marker, check>>
      /\ cookie' \in {cookie, s}
  BY DEF Enrolling!Bootstrap, Enrolling!BootstrapLost, Enrolling!stores
<1> QED
  BY <1>1, ToIdle DEF AppInv

LEMMA ContinueKeeps ==
    ASSUME AppInv, Enrolling!Continue
    PROVE  AppInv'
<1>1. UNCHANGED <<vault, binding, reg, cookie, marker, check>>
  BY DEF Enrolling!Continue, Enrolling!stores
<1>2. CASE Enrolling!Resume
  BY <1>1, <1>2, ResumeKeeps
<1>3. CASE flow' = Enrolling!At("bootstrap", None)
  BY <1>1, <1>3, ToStep DEF AppInv
<1> QED
  BY <1>2, <1>3 DEF Enrolling!Continue

LEMMA CheckInKeeps ==
    ASSUME AppInv, Enrolling!CheckIn \/ Enrolling!CheckInDone
    PROVE  AppInv'
<1>1. CASE Enrolling!CheckIn
  BY <1>1 DEF AppInv, Enrolling!CheckIn, Enrolling!stores
<1>2. CASE Enrolling!CheckInDone
  <2>1. reg' \in {reg, check.host} /\ check' = Enrolling!NoCheck
        /\ UNCHANGED <<vault, binding, cookie, marker, flow>>
    BY <1>2 DEF Enrolling!CheckInDone
  <2>2. check.host \in Enr \cup {None}
    BY DEF AppInv
  <2> QED
    BY <2>1, <2>2, IdleApp DEF AppInv
<1> QED
  BY <1>1, <1>2

LEMMA LeaveKeeps ==
    ASSUME AppInv, Enrolling!Leave
    PROVE  AppInv'
<1>1. /\ reg \in Enr /\ UNCHANGED <<vault, binding, reg, cookie, marker, check>>
      /\ flow' = [at |-> "leave", enr |-> reg, sess |-> None]
  BY DEF AppInv, Enrolling!Leave, Enrolling!stores
<1> QED
  BY <1>1 DEF AppInv

LEMMA LeaveBootstrapKeeps ==
    ASSUME AppInv, NEW s \in Session, Enrolling!LeaveBootstrap(s)
    PROVE  AppInv'
<1>1. /\ flow.at = "leave" /\ UNCHANGED <<vault, binding, reg, cookie, marker, check>>
      /\ flow' = [flow EXCEPT !.at = "revoke", !.sess = s]
  BY DEF Enrolling!LeaveBootstrap, Enrolling!stores
<1>2. /\ flow' \in [at : {"idle", "exchange", "me", "bootstrap", "leave", "revoke"},
                    enr : Enr \cup {None}, sess : Session \cup {None}]
      /\ flow'.at = "revoke" /\ flow'.enr = flow.enr
  BY <1>1 DEF AppInv
<1> QED
  BY <1>1, <1>2 DEF AppInv

LEMMA RetryCleanupKeeps ==
    ASSUME AppInv, Enrolling!RetryCleanup
    PROVE  AppInv'
<1>1. UNCHANGED <<flow, check>>
  BY DEF Enrolling!RetryCleanup
<1>2. CASE Enrolling!StoresCleared /\ cookie' = None /\ marker' = FALSE
  BY <1>1, <1>2, IdleApp DEF AppInv, Enrolling!StoresCleared
<1>3. CASE Enrolling!WipeStops /\ UNCHANGED <<binding, reg, marker>>
  BY <1>1, <1>3, WipeStopped
<1> QED
  BY <1>2, <1>3 DEF Enrolling!RetryCleanup

LEMMA KillKeeps ==
    ASSUME AppInv, Enrolling!Kill \/ Enrolling!KillTeardown
    PROVE  AppInv'
<1>1. CASE Enrolling!Kill
  <2>1. /\ flow' = Enrolling!Idle /\ check' = Enrolling!NoCheck
        /\ UNCHANGED <<vault, binding, cookie, marker>>
        /\ reg' \in {reg, Enrolling!TokenHost}
    BY <1>1 DEF Enrolling!Kill
  <2> QED
    BY <2>1, TokenHostType, ToIdle DEF AppInv
<1>2. CASE Enrolling!KillTeardown
  <2>1. /\ flow' = Enrolling!Idle /\ check' = Enrolling!NoCheck /\ vault' = None
        /\ cookie' \in {cookie, None}
        /\ \/ UNCHANGED <<binding, reg, marker>>
           \/ binding' = Enrolling!Unbound /\ reg' = None /\ marker' = FALSE
    BY <1>2 DEF Enrolling!KillTeardown
  <2> QED
    BY <2>1, ToIdle DEF AppInv
<1> QED
  BY <1>1, <1>2

\* What the app's steps do to the server is what the server does.
LEMMA PhoneKeeps ==
    ASSUME ServerInv, AppInv, Enrolling!Phone
    PROVE  ServerInv' /\ AppInv'
<1>0. ASSUME UNCHANGED Enrolling!server
      PROVE  ServerInv'
  BY <1>0, SocketsCloseKeep DEF Enrolling!server
<1>1. ASSUME NEW e \in Enr, Enrolling!Confirm(e)
      PROVE  ServerInv' /\ AppInv'
  BY <1>0, <1>1, ConfirmKeeps DEF Enrolling!Confirm
<1>2. CASE Enrolling!Exchange \/ Enrolling!ExchangeLost
  <2>1. flow.enr \in Enr /\ Enrolling!Exchangeable(flow.enr) /\ Enrolling!Exchanged(flow.enr)
    BY <1>2 DEF AppInv, Enrolling!Exchange, Enrolling!ExchangeLost
  <2> QED
    BY <1>2, <2>1, ExchangedKeeps, ExchangeKeeps, ExchangeLostKeeps
<1>3. CASE Enrolling!ExchangeRefused \/ Enrolling!MeRefused \/ Enrolling!BootstrapRefused
  <2>1. PICK p \in {"exchange", "me", "bootstrap"} : Enrolling!Fails(p)
    BY <1>3 DEF Enrolling!ExchangeRefused, Enrolling!MeRefused, Enrolling!BootstrapRefused
  <2> QED
    BY <1>0, <2>1, FailsKeep DEF Enrolling!Fails
<1>4. CASE Enrolling!Me
  BY <1>0, <1>4, MeKeeps DEF Enrolling!Me
<1>5. ASSUME NEW s \in Session, Enrolling!Bootstrap(s) \/ Enrolling!BootstrapLost(s)
      PROVE  ServerInv' /\ AppInv'
  <2>1. Enrolling!Bootstrappable /\ Enrolling!Bootstrapped(s)
    BY <1>5 DEF Enrolling!Bootstrap, Enrolling!BootstrapLost
  <2> QED
    BY <1>5, <2>1, BootstrappedKeeps, BootstrapKeeps
<1>6. ASSUME NEW s \in Session, Enrolling!LeaveBootstrap(s)
      PROVE  ServerInv' /\ AppInv'
  <2>1. Enrolling!Bootstrappable /\ Enrolling!Bootstrapped(s)
    BY <1>6 DEF Enrolling!LeaveBootstrap
  <2> QED
    BY <1>6, <2>1, BootstrappedKeeps, LeaveBootstrapKeeps
<1>7. CASE Enrolling!Continue
  BY <1>0, <1>7, ContinueKeeps DEF Enrolling!Continue
<1>8. CASE Enrolling!CheckIn \/ Enrolling!CheckInDone
  BY <1>0, <1>8, CheckInKeeps DEF Enrolling!CheckIn, Enrolling!CheckInDone
<1>9. CASE Enrolling!OpenSocket
  <2>1. AppInv'
    BY <1>9 DEF AppInv, Enrolling!OpenSocket, Enrolling!stores
  <2> QED
    BY <1>9, <2>1, OpenSocketKeeps
<1>10. CASE Enrolling!Logout
  <2>1. AppInv'
    BY <1>10 DEF AppInv, Enrolling!Logout
  <2> QED
    BY <1>10, <2>1, LogoutKeeps
<1>11. CASE Enrolling!Leave
  BY <1>0, <1>11, LeaveKeeps DEF Enrolling!Leave
<1>12. CASE Enrolling!LeaveLocally \/ Enrolling!LeaveAnyway
  BY <1>0, <1>12, TeardownKeeps DEF Enrolling!LeaveLocally, Enrolling!LeaveAnyway
<1>13. CASE Enrolling!LeaveRevoke
  <2>1. flow.enr \in Enr
    BY <1>13 DEF AppInv, Enrolling!LeaveRevoke
  <2>2. ServerInv'
    BY <1>0, <1>13, <2>1, RevokedKeeps DEF Enrolling!LeaveRevoke
  <2> QED
    BY <1>13, <2>2, TeardownKeeps DEF Enrolling!LeaveRevoke
<1>14. CASE Enrolling!RetryCleanup
  BY <1>0, <1>14, RetryCleanupKeeps DEF Enrolling!RetryCleanup
<1>15. CASE Enrolling!Kill \/ Enrolling!KillTeardown
  BY <1>0, <1>15, KillKeeps DEF Enrolling!Kill, Enrolling!KillTeardown
<1> QED
  BY <1>1, <1>2, <1>3, <1>4, <1>5, <1>6, <1>7, <1>8, <1>9, <1>10, <1>11, <1>12, <1>13, <1>14,
     <1>15 DEF Enrolling!Phone

LEMMA EnrollmentStepKeeps ==
    ASSUME ServerInv, AppInv, Enrolling!Next
    PROVE  ServerInv' /\ AppInv'
<1>0. ASSUME UNCHANGED App
      PROVE  AppInv'
  BY <1>0 DEF App, AppInv
<1>1. ASSUME NEW e \in Enr, NEW admin \in BOOLEAN, Enrolling!CreateEnrollment(e, admin)
      PROVE  ServerInv' /\ AppInv'
  BY <1>0, <1>1, CreateEnrollmentKeeps DEF Enrolling!CreateEnrollment, Enrolling!stores, App
<1>2. ASSUME NEW e \in Enr, NEW h \in Enr, Enrolling!CreateReconnect(e, h)
      PROVE  ServerInv' /\ AppInv'
  BY <1>0, <1>2, CreateReconnectKeeps DEF Enrolling!CreateReconnect, Enrolling!stores, App
<1>3. ASSUME NEW e \in Enr, Enrolling!Expire(e)
      PROVE  ServerInv' /\ AppInv'
  BY <1>0, <1>3, ExpireKeeps DEF Enrolling!Expire, Enrolling!stores, App
<1>4. ASSUME NEW h \in Enr, Enrolling!Revoke(h)
      PROVE  ServerInv' /\ AppInv'
  BY <1>0, <1>4, RevokedKeeps DEF Enrolling!Revoke, Enrolling!stores, App
<1>5. ASSUME NEW s \in Session, Enrolling!SessionExpires(s)
      PROVE  ServerInv' /\ AppInv'
  BY <1>0, <1>5, SessionExpiresKeeps DEF Enrolling!SessionExpires, Enrolling!stores, App
<1>6. ASSUME NEW s \in Session, Enrolling!SocketExpires(s) \/ Enrolling!SocketDrops(s)
      PROVE  ServerInv' /\ AppInv'
  BY <1>0, <1>6, SocketsCloseKeep
     DEF Enrolling!SocketExpires, Enrolling!SocketDrops, Enrolling!stores, App
<1>7. CASE Enrolling!ServerRestarts
  BY <1>0, <1>7, SocketsCloseKeep DEF Enrolling!ServerRestarts, Enrolling!stores, App
<1> QED
  BY <1>1, <1>2, <1>3, <1>4, <1>5, <1>6, <1>7, PhoneKeeps DEF Enrolling!Next

LEMMA CompanionHolds == CompanionSpec => [](CameraInv /\ ServerInv /\ AppInv)
<1>1. CompanionInit => ServerInv /\ AppInv
  BY EnrollmentStart DEF CompanionInit
<1>2. ServerInv /\ AppInv /\ [CompanionNext]_companionVars => ServerInv' /\ AppInv'
  <2> SUFFICES ASSUME ServerInv, AppInv, [CompanionNext]_companionVars
               PROVE  ServerInv' /\ AppInv'
    OBVIOUS
  <2>1. CASE EnrollmentStep
    BY <2>1, EnrollmentStepKeeps DEF EnrollmentStep
  <2>2. CASE UNCHANGED enrollmentVars
    <3>1. UNCHANGED <<enr, token, revoked, grants, sess, sockets>> /\ UNCHANGED App
      BY <2>2 DEF enrollmentVars, App
    <3>2. ServerInv'
      BY <3>1, SocketsCloseKeep
    <3> QED
      BY <3>1, <3>2 DEF App, AppInv
  <2> QED
    BY <2>1, <2>2 DEF CompanionNext, ProtectionStep, companionVars
<1>3. CompanionSpec => [](ServerInv /\ AppInv)
  BY <1>1, <1>2, PTL DEF CompanionSpec
<1> QED
  BY <1>3, CameraHolds, PTL

\* A registered host has one live grant, minted with its token and with the
\* authority the host was paired with, however often it was reconnected
\* (resolveReconnectAuthority, exchangeMobileEnrollment).
THEOREM OneGrantKept == CompanionSpec => []CompanionInvariant
<1>1. CameraInv /\ ServerInv /\ AppInv => CompanionInvariant
  BY CameraChecked, EnrollmentChecked DEF CompanionInvariant
<1> QED
  BY <1>1, CompanionHolds, PTL

\* No socket outlives its authority, nothing of a revoked device is live or
\* pending, and a cleanup never erases a newer pairing
\* (disconnectMobileRegistration, revokeMobileRegistration, retryLocalCleanup).
THEOREM PairingKept == CompanionSpec => []PairingHolds
<1>1. CameraInv /\ ServerInv /\ AppInv => PairingHolds
  BY EnrollmentChecked
<1> QED
  BY <1>1, CompanionHolds, PTL

=============================================================================
