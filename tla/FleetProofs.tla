----------------------------- MODULE FleetProofs -----------------------------
(***************************************************************************)
(* The three registries of the server, each for every number of hosts,     *)
(* writes and requests.                                                    *)
(*                                                                         *)
(* A revision names one config: a daemon never holds a revision the server *)
(* has not reached, so that any bump makes what it holds outdated, and     *)
(* each write bumps every host whose config it touches.  A code mints one  *)
(* key, and what names a host follows it: a code that minted is used for   *)
(* good.  A seed runs only through a proven bucket: what a host holds was  *)
(* issued to the job it names, and what was issued was proven.             *)
(***************************************************************************)
EXTENDS MCFleet, Sequences, TLAPS

-----------------------------------------------------------------------------
(* The config of hosts                                                     *)

\* A served revision is one the row has reached, and the row is still there:
\* a row that is registered again starts over, and so does its daemon.
ServedBound ==
    \A h \in Device : served[h].fresh => row[h].here /\ served[h].rev <= row[h].rev

ConfigInv == TypeOK /\ ServedBound /\ ConfigSafety

-----------------------------------------------------------------------------
\* What a bump does to the rows.
LEMMA BumpedRows ==
    ASSUME TypeOK, NEW H, Bump(H)
    PROVE  /\ row' \in [Device -> HostRow]
           /\ \A h \in Device : row'[h].here = row[h].here
           /\ \A h \in Device : h \in H /\ row[h].here => row'[h].rev = row[h].rev + 1
           /\ \A h \in Device : ~(h \in H /\ row[h].here) => row'[h] = row[h]
<1>1. \A h \in Device : row[h] \in HostRow
  BY DEF TypeOK
<1>2. row' = [h \in Device |-> IF h \in H /\ row[h].here
                               THEN [row[h] EXCEPT !.rev = @ + 1] ELSE row[h]]
  BY DEF Bump
<1>3. \A h \in Device : /\ [row[h] EXCEPT !.rev = @ + 1] \in HostRow
                        /\ [row[h] EXCEPT !.rev = @ + 1].rev = row[h].rev + 1
                        /\ [row[h] EXCEPT !.rev = @ + 1].here = row[h].here
  BY <1>1 DEF HostRow
<1> QED
  BY <1>1, <1>2, <1>3

\* The config of a host depends on its assignments, on the folders they name,
\* on the backend if there are any, and on its protections.
LEMMA OwnKept ==
    ASSUME NEW h \in Device,
           \A f \in Folder : assigned'[<<f, h>>] = assigned[<<f, h>>],
           \A f \in Folder : assigned[<<f, h>>] # {} => folder'[f] = folder[f],
           backend' = backend, apps'[h] = apps[h]
    PROVE  OwnConfig(h)' = OwnConfig(h)
<1> DEFINE mine == {f \in Folder : assigned[<<f, h>>] # {}}
           rows == [f \in mine |-> assigned[<<f, h>>]]
           named == [f \in mine |-> folder[f]]
           behind == IF mine = {} THEN 0 ELSE backend
<1>1. mine' = mine
  OBVIOUS
<1>2. rows' = rows /\ named' = named /\ behind' = behind
  BY <1>1
<1>3. /\ OwnConfig(h) = [assignments |-> rows, folders |-> named, backend |-> behind,
                         apps |-> apps[h]]
      /\ OwnConfig(h)' = [assignments |-> rows', folders |-> named', backend |-> behind',
                          apps |-> apps'[h]]
  BY DEF OwnConfig
<1> HIDE DEF rows, named, behind
<1> QED
  BY <1>2, <1>3

\* A step that leaves a host alone which holds the current revision after it.
LEMMA NameKept ==
    ASSUME RevisionNamesConfig, RevisionNamesPause, now' = now,
           \A h \in Device :
               ThinksCurrent(h)' => /\ ThinksCurrent(h)
                                    /\ served'[h] = served[h]
                                    /\ OwnConfig(h)' = OwnConfig(h)
                                    /\ until'[h] = until[h]
                                    /\ until'[Global] = until[Global]
    PROVE  RevisionNamesConfig' /\ RevisionNamesPause'
<1>1. RevisionNamesConfig'
  BY DEF RevisionNamesConfig
<1>2. \A h \in Device : ThinksCurrent(h)' => EffectivePause(h)' = EffectivePause(h)
  BY DEF EffectivePause
<1>3. RevisionNamesPause'
  BY <1>2 DEF RevisionNamesPause
<1> QED
  BY <1>1, <1>3

\* A write that bumps every host whose config it touches.
LEMMA WriteNames ==
    ASSUME ConfigInv, NEW H, Write(H),
           \A h \in Device \ H : /\ OwnConfig(h)' = OwnConfig(h)
                                 /\ until'[h] = until[h]
                                 /\ until'[Global] = until[Global]
    PROVE  /\ ServedBound' /\ RevisionNamesConfig' /\ RevisionNamesPause'
           /\ row' \in [Device -> HostRow]
           /\ \A h \in Device : row'[h].here = row[h].here
           /\ writes' \in Stamp /\ writes' = writes + 1 /\ writes' # 0
           /\ UNCHANGED <<bumps, reports, now, served>>
<1>1. TypeOK /\ ServedBound /\ RevisionNamesConfig /\ RevisionNamesPause
  BY DEF ConfigInv, ConfigSafety
<1>2. /\ Bump(H) /\ writes < MaxWrites /\ writes' = writes + 1
      /\ UNCHANGED <<bumps, reports, now, served>>
  BY DEF Write
<1>3. writes' \in Stamp /\ writes' # 0
  BY <1>1, <1>2, ConfigAssumption DEF TypeOK, Stamp
<1>4. /\ row' \in [Device -> HostRow]
      /\ \A h \in Device : row'[h].here = row[h].here
      /\ \A h \in Device : h \in H /\ row[h].here => row'[h].rev = row[h].rev + 1
      /\ \A h \in Device : ~(h \in H /\ row[h].here) => row'[h] = row[h]
  BY <1>1, <1>2, BumpedRows
<1>5. \A h \in Device : row[h].rev \in Nat /\ served[h].rev \in Nat
  BY <1>1 DEF TypeOK, HostRow
<1>6. ServedBound'
  BY <1>1, <1>2, <1>4, <1>5 DEF ServedBound
<1>7. \A h \in Device : ThinksCurrent(h)' => h \notin H /\ ThinksCurrent(h)
  BY <1>1, <1>2, <1>4, <1>5 DEF ServedBound, ThinksCurrent
<1>8. RevisionNamesConfig' /\ RevisionNamesPause'
  BY <1>1, <1>2, <1>7, NameKept
<1> QED
  BY <1>2, <1>3, <1>4, <1>6, <1>8

-----------------------------------------------------------------------------
(* The writes of operators                                                 *)

LEMMA FolderWrites ==
    ASSUME ConfigInv, NEW f \in Folder, PostFolder(f) \/ PutFolder(f) \/ DeleteFolder(f)
    PROVE  ConfigInv'
<1>i. TypeOK /\ NoOrphans
  BY DEF ConfigInv, ConfigSafety
<1>1. CASE PostFolder(f) \/ PutFolder(f)
  <2> DEFINE H == IF PostFolder(f) THEN Device ELSE AssignedTo(f)
  <2>1. /\ Write(H)
        /\ folder' = [folder EXCEPT ![f] = writes + 1]
        /\ UNCHANGED <<assigned, backend, apps, until>>
    BY <1>1 DEF PostFolder, PutFolder
  <2>2. ASSUME NEW h \in Device \ H
        PROVE  OwnConfig(h)' = OwnConfig(h)
    <3>1. assigned[<<f, h>>] = {}
      BY <2>2 DEF AssignedTo
    <3>2. \A g \in Folder : assigned[<<g, h>>] # {} => folder'[g] = folder[g]
      BY <1>i, <2>1, <3>1 DEF TypeOK
    <3> QED
      BY <2>1, <2>2, <3>2, OwnKept
  <2> HIDE DEF H
  <2>3. /\ ServedBound' /\ RevisionNamesConfig' /\ RevisionNamesPause'
        /\ row' \in [Device -> HostRow]
        /\ \A h \in Device : row'[h].here = row[h].here
        /\ writes' \in Stamp /\ writes' = writes + 1 /\ writes' # 0
        /\ UNCHANGED <<bumps, reports, now, served>>
    BY <2>1, <2>2, WriteNames
  <2>4. TypeOK'
    BY <1>i, <2>1, <2>3 DEF TypeOK, Stamp
  <2>5. NoOrphans'
    BY <1>i, <2>1, <2>3 DEF TypeOK, NoOrphans
  <2> QED
    BY <2>3, <2>4, <2>5 DEF ConfigInv, ConfigSafety
<1>2. CASE DeleteFolder(f)
  <2>1. /\ Write(Device)
        /\ folder' = [folder EXCEPT ![f] = 0]
        /\ assigned' = [p \in Folder \X Device |-> IF p[1] = f THEN {} ELSE assigned[p]]
        /\ UNCHANGED <<backend, apps, until>>
    BY <1>2 DEF DeleteFolder
  <2>2. /\ ServedBound' /\ RevisionNamesConfig' /\ RevisionNamesPause'
        /\ row' \in [Device -> HostRow]
        /\ \A h \in Device : row'[h].here = row[h].here
        /\ writes' \in Stamp
        /\ UNCHANGED <<bumps, reports, now, served>>
    BY <2>1, WriteNames
  <2>3. assigned' \in [Folder \X Device -> SUBSET Stamp]
    BY <1>i, <2>1 DEF TypeOK
  <2>4. TypeOK'
    BY <1>i, <2>1, <2>2, <2>3, ConfigAssumption DEF TypeOK, Stamp
  <2>5. \A g \in Folder, h \in Device : assigned'[<<g, h>>] # {} => g # f /\ assigned[<<g, h>>] # {}
    BY <2>1
  <2>6. \A g \in Folder \ {f} : folder'[g] = folder[g]
    BY <1>i, <2>1 DEF TypeOK
  <2>7. NoOrphans'
    BY <1>i, <2>2, <2>5, <2>6 DEF NoOrphans
  <2> QED
    BY <2>2, <2>4, <2>7 DEF ConfigInv, ConfigSafety
<1> QED
  BY <1>1, <1>2

LEMMA AssignmentWrites ==
    ASSUME ConfigInv, NEW f \in Folder, NEW h \in Device,
           Assign(f, h) \/ Unassign(f, h) \/ PatchAssignment(f, h)
    PROVE  ConfigInv'
<1>i. TypeOK /\ NoOrphans
  BY DEF ConfigInv, ConfigSafety
<1>1. Write({h}) /\ UNCHANGED <<folder, backend, apps, until>>
  BY DEF Assign, Unassign, PatchAssignment
<1>2. writes + 1 \in Stamp
  BY <1>i, <1>1, ConfigAssumption DEF Write, TypeOK, Stamp
<1>3. PICK S \in SUBSET Stamp : assigned' = [assigned EXCEPT ![<<f, h>>] = S]
  <2>1. assigned[<<f, h>>] \in SUBSET Stamp
    BY <1>i DEF TypeOK
  <2>2. CASE Assign(f, h)
    <3>1. assigned[<<f, h>>] \cup {writes + 1} \in SUBSET Stamp
      BY <1>2, <2>1
    <3> QED
      BY <2>2, <3>1 DEF Assign
  <2>3. CASE Unassign(f, h)
    BY <2>3 DEF Unassign
  <2>4. CASE PatchAssignment(f, h)
    BY <1>2, <2>4 DEF PatchAssignment
  <2> QED
    BY <2>2, <2>3, <2>4
<1>4. \A g \in Folder, d \in Device \ {h} : assigned'[<<g, d>>] = assigned[<<g, d>>]
  BY <1>i, <1>3 DEF TypeOK
<1>5. \A d \in Device \ {h} : OwnConfig(d)' = OwnConfig(d)
  BY <1>1, <1>4, OwnKept
<1>6. /\ ServedBound' /\ RevisionNamesConfig' /\ RevisionNamesPause'
      /\ row' \in [Device -> HostRow]
      /\ \A d \in Device : row'[d].here = row[d].here
      /\ writes' \in Stamp
      /\ UNCHANGED <<bumps, reports, now, served>>
  BY <1>1, <1>5, WriteNames
<1>7. TypeOK'
  BY <1>i, <1>1, <1>3, <1>6 DEF TypeOK, Stamp
<1>8. NoOrphans'
  <2>1. folder[f] # 0 /\ row[h].here
    BY <1>i DEF Assign, Unassign, PatchAssignment, NoOrphans
  <2>2. \A g \in Folder, d \in Device : <<g, d>> # <<f, h>> => assigned'[<<g, d>>] = assigned[<<g, d>>]
    BY <1>i, <1>3 DEF TypeOK
  <2> QED
    BY <1>i, <1>1, <1>6, <2>1, <2>2 DEF NoOrphans
<1> QED
  BY <1>6, <1>7, <1>8 DEF ConfigInv, ConfigSafety

LEMMA OtherWrites ==
    ASSUME ConfigInv,
           \/ PutBackend
           \/ \E h \in Device : WriteProtection(h)
           \/ \E i \in Device \cup {Global} : DeletePause(i) \/ \E t \in 1 .. MaxTime : PostPause(i, t)
    PROVE  ConfigInv'
<1>i. TypeOK /\ NoOrphans
  BY DEF ConfigInv, ConfigSafety
<1> DEFINE Result ==
      /\ ServedBound' /\ RevisionNamesConfig' /\ RevisionNamesPause'
      /\ row' \in [Device -> HostRow]
      /\ \A h \in Device : row'[h].here = row[h].here
      /\ writes' \in Stamp /\ writes' = writes + 1
      /\ UNCHANGED <<bumps, reports, now, served>>
<1>1. CASE PutBackend
  <2>1. Write(Device) /\ backend' = writes + 1 /\ UNCHANGED <<folder, assigned, apps, until>>
    BY <1>1 DEF PutBackend
  <2>2. Result
    BY <2>1, WriteNames
  <2>3. TypeOK' /\ NoOrphans'
    BY <1>i, <2>1, <2>2 DEF TypeOK, NoOrphans, Stamp
  <2> QED
    BY <2>2, <2>3 DEF ConfigInv, ConfigSafety
<1>2. CASE \E h \in Device : WriteProtection(h)
  <2>1. PICK h \in Device, s \in {0, writes + 1} :
          /\ Write({h}) /\ apps' = [apps EXCEPT ![h] = s]
          /\ UNCHANGED <<folder, assigned, backend, until>>
    BY <1>2 DEF WriteProtection
  <2>2. \A d \in Device \ {h} : OwnConfig(d)' = OwnConfig(d)
    BY <1>i, <2>1, OwnKept DEF TypeOK
  <2>3. Result
    BY <2>1, <2>2, WriteNames
  <2>4. s \in Stamp
    BY <2>1, <2>3, ConfigAssumption DEF Stamp
  <2>5. TypeOK' /\ NoOrphans'
    BY <1>i, <2>1, <2>3, <2>4 DEF TypeOK, NoOrphans, Stamp
  <2> QED
    BY <2>3, <2>5 DEF ConfigInv, ConfigSafety
<1>3. CASE \E i \in Device \cup {Global} : DeletePause(i) \/ \E t \in 1 .. MaxTime : PostPause(i, t)
  <2>1. PICK i \in Device \cup {Global}, t \in 0 .. MaxTime :
          /\ Write(Paused(i)) /\ until' = [until EXCEPT ![i] = t]
          /\ UNCHANGED <<folder, assigned, backend, apps>>
    BY <1>3, ConfigAssumption DEF DeletePause, PostPause
  <2>2. \A h \in Device \ Paused(i) : OwnConfig(h)' = OwnConfig(h)
    BY <2>1, OwnKept
  <2>3. \A h \in Device \ Paused(i) : until'[h] = until[h] /\ until'[Global] = until[Global]
    BY <1>i, <2>1 DEF Paused, TypeOK
  <2>4. Result
    BY <2>1, <2>2, <2>3, WriteNames
  <2>5. TypeOK' /\ NoOrphans'
    BY <1>i, <2>1, <2>4 DEF TypeOK, NoOrphans, Stamp
  <2> QED
    BY <2>4, <2>5 DEF ConfigInv, ConfigSafety
<1> QED
  BY <1>1, <1>2, <1>3

LEMMA HostDeleted ==
    ASSUME ConfigInv, NEW h \in Device, DeleteHost(h)
    PROVE  ConfigInv'
<1>i. TypeOK /\ ServedBound /\ NoOrphans /\ RevisionNamesConfig /\ RevisionNamesPause
  BY DEF ConfigInv, ConfigSafety
<1> DEFINE gone == [here |-> FALSE, rev |-> 0, tailnet |-> NoAddress, online |-> FALSE]
<1>1. /\ row' = [row EXCEPT ![h] = gone]
      /\ assigned' = [p \in Folder \X Device |-> IF p[2] = h THEN {} ELSE assigned[p]]
      /\ apps' = [apps EXCEPT ![h] = 0]
      /\ served' = [served EXCEPT ![h] = NotServed]
      /\ writes < MaxWrites /\ writes' = writes + 1
      /\ UNCHANGED <<folder, backend, until, now, reports, bumps>>
  BY DEF DeleteHost
<1>2. gone \in HostRow /\ gone.here = FALSE
  BY DEF HostRow
<1>3. /\ NotServed.fresh \in BOOLEAN /\ ~NotServed.fresh
      /\ NotServed.rev = 0 /\ NotServed.pause = 0
  BY DEF NotServed
<1> HIDE DEF gone
<1>4. \A d \in Device \ {h} : row'[d] = row[d] /\ served'[d] = served[d] /\ apps'[d] = apps[d]
  BY <1>i, <1>1 DEF TypeOK
<1>5. row'[h] = gone /\ served'[h] = NotServed /\ DOMAIN served' = Device
  BY <1>i, <1>1 DEF TypeOK
<1>6. TypeOK'
  <2>1. row' \in [Device -> HostRow] /\ apps' \in [Device -> Stamp]
    BY <1>i, <1>1, <1>2, ConfigAssumption DEF TypeOK, Stamp
  <2>2. assigned' \in [Folder \X Device -> SUBSET Stamp]
    BY <1>i, <1>1 DEF TypeOK
  <2>3. writes' \in 0 .. MaxWrites
    BY <1>i, <1>1, ConfigAssumption DEF TypeOK
  <2>4. \A d \in Device : /\ served'[d].rev \in Nat
                          /\ served'[d].pause \in 0 .. MaxTime
                          /\ served'[d].fresh \in BOOLEAN
    <3>1. ASSUME NEW d \in Device, d # h
          PROVE  /\ served'[d].rev \in Nat
                 /\ served'[d].pause \in 0 .. MaxTime
                 /\ served'[d].fresh \in BOOLEAN
      BY <1>i, <1>4, <3>1 DEF TypeOK
    <3>2. /\ served'[h].rev \in Nat
          /\ served'[h].pause \in 0 .. MaxTime
          /\ served'[h].fresh \in BOOLEAN
      BY <1>3, <1>5, ConfigAssumption
    <3> QED
      BY <3>1, <3>2
  <2> QED
    BY <1>i, <1>1, <1>5, <2>1, <2>2, <2>3, <2>4 DEF TypeOK
<1>7. ServedBound'
  BY <1>i, <1>3, <1>4, <1>5 DEF ServedBound
<1>8. ASSUME NEW d \in Device, ThinksCurrent(d)'
      PROVE  d # h /\ ThinksCurrent(d) /\ served'[d] = served[d] /\ OwnConfig(d)' = OwnConfig(d)
  <2>1. d # h
    BY <1>2, <1>5, <1>8 DEF ThinksCurrent
  <2>2. ThinksCurrent(d) /\ served'[d] = served[d]
    BY <1>4, <1>8, <2>1 DEF ThinksCurrent
  <2>3. \A f \in Folder : assigned'[<<f, d>>] = assigned[<<f, d>>]
    BY <1>1, <2>1
  <2> QED
    BY <1>1, <1>4, <2>1, <2>2, <2>3, OwnKept
<1>9. RevisionNamesConfig' /\ RevisionNamesPause'
  BY <1>i, <1>1, <1>8, NameKept
<1>10. NoOrphans'
  <2>1. \A f \in Folder, d \in Device : assigned'[<<f, d>>] # {} => d # h /\ assigned[<<f, d>>] # {}
    BY <1>1
  <2> QED
    BY <1>i, <1>1, <1>4, <2>1 DEF NoOrphans
<1> QED
  BY <1>6, <1>7, <1>9, <1>10 DEF ConfigInv, ConfigSafety

-----------------------------------------------------------------------------
(* Daemons, reports and time                                               *)

\* An effective window is over or lies ahead.
LEMMA PauseAhead ==
    ASSUME TypeOK, NEW h \in Device
    PROVE  /\ EffectivePause(h) \in 0 .. MaxTime
           /\ EffectivePause(h) = 0 \/ EffectivePause(h) > now
  BY ConfigAssumption DEF TypeOK, EffectivePause

LEMMA ConfigFetched ==
    ASSUME ConfigInv, NEW h \in Device, GetConfig(h)
    PROVE  ConfigInv'
<1>i. TypeOK /\ ServedBound /\ NoOrphans /\ RevisionNamesConfig /\ RevisionNamesPause
  BY DEF ConfigInv, ConfigSafety
<1> DEFINE given == [rev |-> row[h].rev, own |-> OwnConfig(h), pause |-> EffectivePause(h),
                     peers |-> Peers(h), fresh |-> TRUE]
<1>1. /\ row[h].here
      /\ until' = [i \in DOMAIN until |-> IF until[i] > now THEN until[i] ELSE 0]
      /\ served' = [served EXCEPT ![h] = given]
      /\ UNCHANGED <<row, bumps, reports, folder, assigned, backend, apps, now, writes>>
  BY DEF GetConfig, regVars
<1>2. /\ given.rev = row[h].rev /\ given.own = OwnConfig(h)
      /\ given.pause = EffectivePause(h)
      /\ given.fresh \in BOOLEAN /\ given.fresh
  OBVIOUS
<1> HIDE DEF given
<1>3. /\ \A d \in Device \ {h} : served'[d] = served[d]
      /\ served'[h] = given /\ DOMAIN served' = Device
  BY <1>i, <1>1 DEF TypeOK
<1>4. DOMAIN until = Device \cup {Global}
  BY <1>i DEF TypeOK
<1>5. until' \in [Device \cup {Global} -> 0 .. MaxTime]
  BY <1>i, <1>1, <1>4, ConfigAssumption DEF TypeOK
<1>6. TypeOK'
  <2>1. ASSUME NEW d \in Device, d # h
        PROVE  /\ served'[d].rev \in Nat
               /\ served'[d].pause \in 0 .. MaxTime
               /\ served'[d].fresh \in BOOLEAN
    BY <1>i, <1>3, <2>1 DEF TypeOK
  <2>2. /\ served'[h].rev \in Nat
        /\ served'[h].pause \in 0 .. MaxTime
        /\ served'[h].fresh \in BOOLEAN
    <3>1. row[h].rev \in Nat
      BY <1>i DEF TypeOK, HostRow
    <3> QED
      BY <1>i, <1>2, <1>3, <3>1, PauseAhead
  <2> QED
    BY <1>i, <1>1, <1>3, <1>5, <2>1, <2>2 DEF TypeOK
<1>7. ServedBound'
  <2>1. row[h].rev \in Nat
    BY <1>i DEF TypeOK, HostRow
  <2> QED
    BY <1>i, <1>1, <1>2, <1>3, <2>1 DEF ServedBound
<1>8. NoOrphans'
  BY <1>i, <1>1 DEF NoOrphans
<1>9. \A d \in Device : OwnConfig(d)' = OwnConfig(d)
  BY <1>1, OwnKept
<1>10. RevisionNamesConfig'
  BY <1>i, <1>1, <1>2, <1>3, <1>9 DEF RevisionNamesConfig, ThinksCurrent
<1>11. \A d \in Device : EffectivePause(d)' = EffectivePause(d)
  BY <1>i, <1>1, <1>4, ConfigAssumption DEF EffectivePause, TypeOK
<1>12. RevisionNamesPause'
  <2>1. ASSUME NEW d \in Device, d # h, ThinksCurrent(d)'
        PROVE  \/ EffectivePause(d) = (IF served[d].pause > now THEN served[d].pause ELSE 0)
               \/ served[d].pause \in 1 .. now /\ EffectivePause(d) = until'[Global]
    <3>1. ThinksCurrent(d)
      BY <1>1, <1>3, <2>1 DEF ThinksCurrent
    <3>2. EffectivePause(d) = until[Global] => EffectivePause(d) = until'[Global]
      BY <1>i, <1>1, <1>4, PauseAhead, ConfigAssumption DEF TypeOK
    <3> QED
      BY <1>i, <3>1, <3>2 DEF RevisionNamesPause
  <2>2. EffectivePause(h) = IF served'[h].pause > now THEN served'[h].pause ELSE 0
    BY <1>i, <1>2, <1>3, PauseAhead, ConfigAssumption DEF TypeOK
  <2>3. now' = now
    BY <1>1
  <2> QED
    BY <1>3, <1>11, <2>1, <2>2, <2>3 DEF RevisionNamesPause
<1> QED
  BY <1>6, <1>7, <1>8, <1>10, <1>12 DEF ConfigInv, ConfigSafety

\* A window ends: the daemon's copy of it ends at the same time.
LEMMA TimePasses ==
    ASSUME ConfigInv, Tick
    PROVE  ConfigInv'
<1>i. TypeOK /\ ServedBound /\ NoOrphans /\ RevisionNamesConfig /\ RevisionNamesPause
  BY DEF ConfigInv, ConfigSafety
<1>1. /\ now < MaxTime /\ now' = now + 1
      /\ UNCHANGED <<row, bumps, reports, folder, assigned, backend, apps, until, writes, served>>
  BY DEF Tick, regVars, dataVars
<1>2. TypeOK'
  BY <1>i, <1>1, ConfigAssumption DEF TypeOK
<1>3. ServedBound' /\ NoOrphans'
  BY <1>i, <1>1 DEF ServedBound, NoOrphans
<1>4. \A h \in Device : ThinksCurrent(h)' <=> ThinksCurrent(h)
  BY <1>1 DEF ThinksCurrent
<1>5. RevisionNamesConfig'
  <2>1. \A h \in Device : OwnConfig(h)' = OwnConfig(h)
    BY <1>1, OwnKept
  <2> QED
    BY <1>i, <1>1, <1>4, <2>1 DEF RevisionNamesConfig
<1>6. ASSUME NEW h \in Device, ThinksCurrent(h)
      PROVE  \/ EffectivePause(h)' = (IF served[h].pause > now' THEN served[h].pause ELSE 0)
             \/ served[h].pause \in 1 .. now' /\ EffectivePause(h)' = until[Global]
  <2> DEFINE u == until[h]
             g == until[Global]
             p == served[h].pause
  <2>1. u \in Nat /\ g \in Nat /\ p \in Nat /\ now \in Nat
    BY <1>i, ConfigAssumption DEF TypeOK
  <2>2. EffectivePause(h) = IF u > now THEN u ELSE IF g > now THEN g ELSE 0
    BY DEF EffectivePause
  <2>3. EffectivePause(h)' = IF u > now + 1 THEN u ELSE IF g > now + 1 THEN g ELSE 0
    BY <1>1 DEF EffectivePause
  <2>4. \/ EffectivePause(h) = (IF p > now THEN p ELSE 0)
        \/ p \in 1 .. now /\ EffectivePause(h) = g
    BY <1>i, <1>6 DEF RevisionNamesPause
  <2> HIDE DEF u, g, p
  <2>5. \/ EffectivePause(h)' = (IF p > now + 1 THEN p ELSE 0)
        \/ p \in 1 .. now + 1 /\ EffectivePause(h)' = g
    BY <2>1, <2>2, <2>3, <2>4
  <2> QED
    BY <1>1, <2>5 DEF p, g
<1>7. RevisionNamesPause'
  BY <1>1, <1>4, <1>6 DEF RevisionNamesPause
<1> QED
  BY <1>2, <1>3, <1>5, <1>7 DEF ConfigInv, ConfigSafety

\* Steps that write rows of hosts and nothing else.
LEMMA RowsWritten ==
    ASSUME ConfigInv, UNCHANGED <<folder, assigned, backend, apps, until, now, writes, served>>,
           row' \in [Device -> HostRow], bumps' \subseteq SUBSET Device,
           reports' \in 0 .. MaxReports,
           \A h \in Device : row[h].here => row'[h].here /\ row'[h].rev >= row[h].rev
    PROVE  ConfigInv'
<1>i. TypeOK /\ ServedBound /\ NoOrphans /\ RevisionNamesConfig /\ RevisionNamesPause
  BY DEF ConfigInv, ConfigSafety
<1>1. TypeOK'
  BY <1>i DEF TypeOK
<1>2. \A h \in Device : row[h].rev \in Nat /\ row'[h].rev \in Nat /\ served[h].rev \in Nat
  BY <1>i DEF TypeOK, HostRow
<1>3. ServedBound' /\ NoOrphans'
  BY <1>i, <1>2 DEF ServedBound, NoOrphans
<1>4. \A h \in Device : ThinksCurrent(h)' => ThinksCurrent(h)
  BY <1>i, <1>2 DEF ServedBound, ThinksCurrent
<1>5. \A h \in Device : OwnConfig(h)' = OwnConfig(h)
  BY OwnKept
<1>6. RevisionNamesConfig' /\ RevisionNamesPause'
  BY <1>i, <1>4, <1>5, NameKept
<1> QED
  BY <1>1, <1>3, <1>6 DEF ConfigInv, ConfigSafety

LEMMA HostReports ==
    ASSUME ConfigInv, NEW h \in Device, NEW a \in Address \cup {NoAddress},
           Register(h, a) \/ Heartbeat(h, a)
    PROVE  ConfigInv'
<1>i. TypeOK
  BY DEF ConfigInv
<1>1. row[h] \in HostRow
  BY <1>i DEF TypeOK
<1>2. PICK r \in HostRow, B \in SUBSET SUBSET Device :
        /\ Report(h, r, B)
        /\ row[h].here => r.here /\ r.rev = row[h].rev
  <2>1. CASE Register(h, a)
    <3> DEFINE r == [here |-> TRUE, rev |-> IF row[h].here THEN row[h].rev ELSE 0,
                     tailnet |-> a, online |-> TRUE]
    <3>1. r \in HostRow /\ (row[h].here => r.here /\ r.rev = row[h].rev)
      BY <1>1 DEF HostRow
    <3>2. Report(h, r, {Device \ {h}})
      BY <2>1 DEF Register
    <3> QED
      BY <3>1, <3>2
  <2>2. CASE Heartbeat(h, a)
    <3> DEFINE r == [row[h] EXCEPT !.tailnet = a, !.online = TRUE]
    <3>1. r \in HostRow /\ r.here = row[h].here /\ r.rev = row[h].rev
      BY <1>1 DEF HostRow
    <3> DEFINE B == IF a = row[h].tailnet THEN {} ELSE {{h}}
    <3>2. Report(h, r, B)
      BY <2>2 DEF Heartbeat
    <3>3. B \in SUBSET SUBSET Device
      OBVIOUS
    <3> HIDE DEF r, B
    <3> QED
      BY <3>1, <3>2, <3>3
  <2> QED
    BY <2>1, <2>2
<1>3. /\ reports < MaxReports /\ reports' = reports + 1
      /\ row' = [row EXCEPT ![h] = r]
      /\ bumps' = bumps \cup B
      /\ UNCHANGED <<folder, assigned, backend, apps, until, now, writes, served>>
  BY <1>2 DEF Report, dataVars
<1>4. reports' \in 0 .. MaxReports /\ bumps' \subseteq SUBSET Device
  BY <1>i, <1>3, ConfigAssumption DEF TypeOK
<1>5. row' \in [Device -> HostRow]
  BY <1>i, <1>2, <1>3 DEF TypeOK
<1>6. \A d \in Device : row[d].here => row'[d].here /\ row'[d].rev >= row[d].rev
  BY <1>i, <1>2, <1>3 DEF TypeOK, HostRow
<1> QED
  BY <1>3, <1>4, <1>5, <1>6, RowsWritten

LEMMA RowsSwept ==
    ASSUME ConfigInv, (\E H \in bumps : LateBump(H)) \/ (\E h \in Device : GoesOffline(h))
    PROVE  ConfigInv'
<1>i. TypeOK
  BY DEF ConfigInv
<1>n. \A d \in Device : row[d].rev \in Nat
  BY <1>i DEF TypeOK, HostRow
<1>1. CASE \E H \in bumps : LateBump(H)
  <2>1. PICK H \in bumps : LateBump(H)
    BY <1>1
  <2>2. /\ Bump(H) /\ bumps' = bumps \ {H}
        /\ UNCHANGED <<folder, assigned, backend, apps, until, now, writes, served, reports>>
    BY <2>1 DEF LateBump, dataVars
  <2>3. /\ row' \in [Device -> HostRow]
        /\ \A h \in Device : row'[h].here = row[h].here
        /\ \A h \in Device : h \in H /\ row[h].here => row'[h].rev = row[h].rev + 1
        /\ \A h \in Device : ~(h \in H /\ row[h].here) => row'[h] = row[h]
    BY <1>i, <2>2, BumpedRows
  <2>4. \A h \in Device : row[h].here => row'[h].here /\ row'[h].rev >= row[h].rev
    BY <1>n, <2>3
  <2>5. bumps' \subseteq SUBSET Device /\ reports' \in 0 .. MaxReports
    BY <1>i, <2>2 DEF TypeOK
  <2> QED
    BY <2>2, <2>3, <2>4, <2>5, RowsWritten
<1>2. CASE \E h \in Device : GoesOffline(h)
  <2>1. PICK h \in Device : GoesOffline(h)
    BY <1>2
  <2>2. /\ row' = [row EXCEPT ![h].online = FALSE]
        /\ UNCHANGED <<folder, assigned, backend, apps, until, now, writes, served, reports, bumps>>
    BY <2>1 DEF GoesOffline, dataVars
  <2>3. /\ row' \in [Device -> HostRow]
        /\ \A d \in Device : row'[d].here = row[d].here /\ row'[d].rev = row[d].rev
    <3> DEFINE r == [row[h] EXCEPT !.online = FALSE]
    <3>1. row[h] \in HostRow /\ row' = [row EXCEPT ![h] = r]
      BY <1>i, <2>2 DEF TypeOK
    <3>2. r \in HostRow /\ r.here = row[h].here /\ r.rev = row[h].rev
      BY <3>1 DEF HostRow
    <3> HIDE DEF r
    <3> QED
      BY <1>i, <3>1, <3>2 DEF TypeOK
  <2>4. bumps' \subseteq SUBSET Device /\ reports' \in 0 .. MaxReports
    BY <1>i, <2>2 DEF TypeOK
  <2> QED
    BY <1>n, <2>2, <2>3, <2>4, RowsWritten
<1> QED
  BY <1>1, <1>2

LEMMA ConfigStart == Init => ConfigInv
<1> SUFFICES ASSUME Init PROVE ConfigInv
  OBVIOUS
<1>1. \A h \in Device : /\ served[h].fresh \in BOOLEAN /\ ~served[h].fresh
                        /\ served[h].rev = 0 /\ served[h].pause = 0
  BY DEF Init, NotServed
<1>2. row \in [Device -> HostRow]
  BY DEF Init, HostRow
<1>3. TypeOK
  <2>1. assigned \in [Folder \X Device -> SUBSET Stamp]
    BY DEF Init
  <2>2. 0 \in Stamp /\ 0 \in 0 .. MaxTime /\ 0 \in 0 .. MaxWrites /\ 0 \in 0 .. MaxReports
    BY ConfigAssumption DEF Stamp
  <2>3. /\ folder \in [Folder -> Stamp] /\ backend \in Stamp /\ apps \in [Device -> Stamp]
        /\ until \in [Device \cup {Global} -> 0 .. MaxTime] /\ DOMAIN served = Device
    BY <2>2 DEF Init
  <2>4. /\ now \in 0 .. MaxTime /\ writes \in 0 .. MaxWrites /\ reports \in 0 .. MaxReports
        /\ bumps \subseteq SUBSET Device
    BY <2>2 DEF Init
  <2> QED
    BY <1>1, <1>2, <2>1, <2>2, <2>3, <2>4 DEF TypeOK
<1>4. ServedBound
  BY <1>1 DEF ServedBound
<1>5. RevisionNamesConfig /\ RevisionNamesPause
  BY <1>1 DEF RevisionNamesConfig, RevisionNamesPause, ThinksCurrent
<1>6. NoOrphans
  BY DEF Init, NoOrphans
<1> QED
  BY <1>3, <1>4, <1>5, <1>6 DEF ConfigInv, ConfigSafety

LEMMA ConfigKept ==
    ASSUME ConfigInv, [Next]_vars
    PROVE  ConfigInv'
<1>1. CASE Operator
  BY <1>1, FolderWrites, AssignmentWrites, OtherWrites, HostDeleted DEF Operator
<1>2. CASE Daemons
  BY <1>2, ConfigFetched, HostReports, ConfigAssumption DEF Daemons
<1>3. CASE Server
  BY <1>3, RowsSwept, TimePasses DEF Server
<1>4. CASE UNCHANGED vars
  <2>1. UNCHANGED <<row, bumps, reports, folder, assigned, backend, apps, until, now, writes, served>>
    BY <1>4 DEF vars
  <2>2. \A h \in Device : row[h].rev \in Nat
    BY DEF ConfigInv, TypeOK, HostRow
  <2>3. /\ row' \in [Device -> HostRow] /\ bumps' \subseteq SUBSET Device
        /\ reports' \in 0 .. MaxReports
    BY <2>1 DEF ConfigInv, TypeOK
  <2>4. \A h \in Device : row[h].here => row'[h].here /\ row'[h].rev >= row[h].rev
    BY <2>1, <2>2
  <2> QED
    BY <2>1, <2>3, <2>4, RowsWritten
<1> QED
  BY <1>1, <1>2, <1>3, <1>4 DEF Next

-----------------------------------------------------------------------------
(* The identity of hosts                                                   *)

\* A code that minted a key is used for good: it cannot be claimed again and
\* is not among the codes that are swept.
MintedUsed ==
    \A k \in Key :
        key[k] # Identity!Unminted => /\ key[k].code \in Code
                                      /\ code[key[k].code].status = "used"

\* What the rows, and what names them, keep.
RowsSafe == Identity!NamesDistinct /\ Identity!ConfigOwned /\ Identity!TrailFollows

IdentityInv ==
    /\ Identity!TypeOK
    /\ MintedUsed
    /\ Identity!CodeMintsOnce
    /\ RowsSafe

CodeRow == [status : {"none", "pending", "used", "expired"}, ends : Nat]
KeyRow == [host : Name \cup {None}, revoked : BOOLEAN, code : Code \cup {None}]

LEMMA IdentityTypes ==
    Identity!TypeOK <=>
        /\ host \in [Identity!Id -> Name \cup PhoneName \cup {None}]
        /\ configured \subseteq Identity!Id
        /\ trail \subseteq Identity!Id
        /\ left \subseteq Identity!Id
        /\ code \in [Code -> CodeRow]
        /\ key \in [Key -> KeyRow]
        /\ toml \in [Machine -> [name : Name \cup {None}, key : Key \cup {Master, None}]]
        /\ clock \in 0 .. CodeTime
  BY DEF Identity!TypeOK, CodeRow, KeyRow

\* No row stands for no key.
LEMMA UnmintedRow ==
    /\ Identity!Unminted \in KeyRow
    /\ Identity!Unminted.code = None /\ Identity!Unminted.host = None
    /\ None \notin Code /\ None \notin Name
  BY IdentityAssumption DEF Identity!Unminted, KeyRow

\* Reading the codes only lets pending ones expire.
LEMMA PrunedRows ==
    ASSUME Identity!TypeOK
    PROVE  /\ Identity!Pruned \in [Code -> CodeRow]
           /\ \A c \in Code : code[c].status = "used" => Identity!Pruned[c].status = "used"
<1>1. \A c \in Code : code[c] \in CodeRow
  BY IdentityTypes
<1>2. \A c \in Code : /\ [code[c] EXCEPT !.status = "expired"] \in CodeRow
  BY <1>1 DEF CodeRow
<1> QED
  BY <1>1, <1>2 DEF Identity!Pruned

\* The codes and keys after a step that mints nothing.
LEMMA NothingMinted ==
    ASSUME IdentityInv, UNCHANGED <<host, configured, trail, left>>,
           code' \in [Code -> CodeRow], key' \in [Key -> KeyRow],
           \A c \in Code : code[c].status = "used" => code'[c].status = "used",
           \A k \in Key : /\ key'[k].code = key[k].code
                          /\ key'[k] # Identity!Unminted => key[k] # Identity!Unminted
    PROVE  MintedUsed' /\ Identity!CodeMintsOnce' /\ RowsSafe'
<1>1. MintedUsed'
  BY DEF IdentityInv, MintedUsed, Identity!Unminted
<1>2. Identity!CodeMintsOnce'
  BY DEF IdentityInv, Identity!CodeMintsOnce, Identity!Unminted
<1>3. RowsSafe'
  BY DEF IdentityInv, RowsSafe, Identity!NamesDistinct, Identity!ConfigOwned,
         Identity!TrailFollows, Identity!Here
<1> QED
  BY <1>1, <1>2, <1>3

LEMMA PairingStep ==
    ASSUME IdentityInv, Identity!Pairing
    PROVE  IdentityInv'
<1> USE DEF IdentityInv
<1>1. UNCHANGED <<host, configured, trail, left>>
  BY DEF Identity!Pairing, Identity!PostPairing, Identity!Exchange, Identity!SweepCodes,
         Identity!RevokeKey, Identity!Tick, Identity!records
<1>2. ASSUME NEW c \in Code, Identity!PostPairing(c) PROVE IdentityInv'
  <2>1. /\ code' = [code EXCEPT ![c] = [status |-> "pending", ends |-> clock + Lifetime]]
        /\ code[c].status = "none" /\ UNCHANGED <<key, toml, clock>>
    BY <1>2 DEF Identity!PostPairing
  <2>2. [status |-> "pending", ends |-> clock + Lifetime] \in CodeRow
    BY IdentityTypes, IdentityAssumption DEF CodeRow
  <2>3. code' \in [Code -> CodeRow]
    BY <2>1, <2>2, IdentityTypes
  <2>4. \A d \in Code : code[d].status = "used" => code'[d].status = "used"
    BY <2>1, IdentityTypes
  <2>5. Identity!TypeOK'
    BY <1>1, <2>1, <2>3, IdentityTypes DEF Identity!TypeOK, CodeRow
  <2> QED
    BY <1>1, <2>1, <2>3, <2>4, <2>5, IdentityTypes, NothingMinted
<1>3. CASE Identity!SweepCodes
  <2>1. /\ code' = [c \in Code |-> IF Identity!Pruned[c].status = "expired"
                                   THEN [status |-> "none", ends |-> 0] ELSE Identity!Pruned[c]]
        /\ UNCHANGED <<key, toml, clock>>
    BY <1>3 DEF Identity!SweepCodes
  <2>2. [status |-> "none", ends |-> 0] \in CodeRow
    BY DEF CodeRow
  <2>3. /\ code' \in [Code -> CodeRow]
        /\ \A d \in Code : code[d].status = "used" => code'[d].status = "used"
    BY <2>1, <2>2, PrunedRows
  <2>5. Identity!TypeOK'
    BY <1>1, <2>1, <2>3 DEF Identity!TypeOK, CodeRow
  <2> QED
    BY <1>1, <2>1, <2>3, <2>5, IdentityTypes, NothingMinted
<1>4. ASSUME NEW k \in Key, Identity!RevokeKey(k) PROVE IdentityInv'
  <2>1. /\ key' = [key EXCEPT ![k].revoked = TRUE] /\ key[k] # Identity!Unminted
        /\ UNCHANGED <<code, toml, clock>>
    BY <1>4 DEF Identity!RevokeKey
  <2>2. /\ [key[k] EXCEPT !.revoked = TRUE] \in KeyRow
        /\ [key[k] EXCEPT !.revoked = TRUE].code = key[k].code
    BY IdentityTypes DEF KeyRow
  <2>3. key' \in [Key -> KeyRow] /\ \A l \in Key : key'[l].code = key[l].code
    BY <2>1, <2>2, IdentityTypes
  <2>4. \A l \in Key : key'[l] # Identity!Unminted => key[l] # Identity!Unminted
    BY <2>1, IdentityTypes
  <2>5. Identity!TypeOK'
    BY <1>1, <2>1, <2>3 DEF Identity!TypeOK, KeyRow
  <2> QED
    BY <1>1, <2>1, <2>3, <2>4, <2>5, IdentityTypes, NothingMinted
<1>5. CASE Identity!Tick
  <2>1. clock' \in 0 .. CodeTime /\ UNCHANGED <<code, key, toml>>
    BY <1>5, IdentityTypes, IdentityAssumption DEF Identity!Tick
  <2>2. Identity!TypeOK'
    BY <1>1, <2>1 DEF Identity!TypeOK
  <2> QED
    BY <1>1, <2>1, <2>2, IdentityTypes, NothingMinted
<1>6. ASSUME NEW m \in Machine, NEW c \in Code, NEW n \in Name, Identity!Exchange(m, c, n)
      PROVE  IdentityInv'
  <2> DEFINE taken == [Identity!Pruned[c] EXCEPT !.status = "used"]
  <2>1. /\ code[c].status = "pending"
        /\ code' = [Identity!Pruned EXCEPT ![c] = taken]
        /\ UNCHANGED clock
    BY <1>6, PrunedRows DEF Identity!Exchange, Identity!Claimable
  <2>2. taken \in CodeRow /\ taken.status = "used"
    BY PrunedRows DEF CodeRow
  <2> HIDE DEF taken
  <2>3. /\ code' \in [Code -> CodeRow] /\ code'[c].status = "used"
        /\ \A d \in Code : code[d].status = "used" => code'[d].status = "used"
    BY <2>1, <2>2, PrunedRows
  <2>4. CASE UNCHANGED <<key, toml>>
    <3>1. Identity!TypeOK'
      BY <1>1, <2>1, <2>3, <2>4 DEF Identity!TypeOK, CodeRow
    <3> QED
      BY <1>1, <2>3, <2>4, <3>1, IdentityTypes, NothingMinted
  <2>5. CASE ~UNCHANGED <<key, toml>>
    <3> DEFINE minted == [host |-> n, revoked |-> FALSE, code |-> c]
    <3>1. PICK k \in Key : /\ key[k] = Identity!Unminted
                           /\ key' = [key EXCEPT ![k] = minted]
                           /\ Identity!WriteClientToml(m, n, k)
      BY <1>6, <2>5 DEF Identity!Exchange
    <3>2. minted \in KeyRow /\ minted.code = c
      BY DEF KeyRow
    <3> HIDE DEF minted
    <3>3. key' \in [Key -> KeyRow] /\ \A l \in Key : key'[l] = IF l = k THEN minted ELSE key[l]
      BY <3>1, <3>2, IdentityTypes
    <3>4. toml' \in [Machine -> [name : Name \cup {None}, key : Key \cup {Master, None}]]
      <4>1. [name |-> n, key |-> k] \in [name : Name \cup {None}, key : Key \cup {Master, None}]
        OBVIOUS
      <4> QED
        BY <3>1, <4>1, IdentityTypes DEF Identity!WriteClientToml
    <3>5. Identity!TypeOK'
      BY <1>1, <2>1, <2>3, <3>3, <3>4 DEF Identity!TypeOK, CodeRow, KeyRow
    <3>6. MintedUsed'
      BY <2>3, <3>2, <3>3 DEF MintedUsed, Identity!Unminted
    <3>7. \A l \in Key : key[l].code # c
      BY <2>1, UnmintedRow DEF MintedUsed
    <3>8. Identity!CodeMintsOnce'
      BY <3>2, <3>3, <3>7 DEF Identity!CodeMintsOnce, Identity!Unminted
    <3>9. RowsSafe'
      BY <1>1 DEF RowsSafe, Identity!NamesDistinct, Identity!ConfigOwned, Identity!TrailFollows,
                  Identity!Here
    <3> QED
      BY <3>5, <3>6, <3>8, <3>9
  <2> QED
    BY <2>4, <2>5
<1> QED
  BY <1>2, <1>3, <1>4, <1>5, <1>6 DEF Identity!Pairing

LabelType == [Identity!Id -> Name \cup PhoneName \cup {None}]

\* Row i gets the label v, or is deleted.
RowSet(i, v) == \A j \in Identity!Id : host'[j] = IF j = i THEN v ELSE host[j]

\* A row moves to the new id n, and what names it as well.
RowMoved(old, n) ==
    /\ \A i \in Identity!Id : host'[i] = IF i = n THEN n ELSE IF i = old THEN None ELSE host[i]
    /\ \A i \in configured' : i = n \/ (i \in configured /\ i # old)
    /\ \A i \in trail' : i = n \/ (i \in trail /\ i # old)

\* Steps of registration mint no key.
LEMMA RowsTyped ==
    ASSUME IdentityInv, UNCHANGED <<code, key, clock>>, host' \in LabelType,
           configured' \subseteq Identity!Id, trail' \subseteq Identity!Id,
           left' \subseteq Identity!Id,
           toml' \in [Machine -> [name : Name \cup {None}, key : Key \cup {Master, None}]],
           RowsSafe'
    PROVE  IdentityInv'
  BY DEF IdentityInv, Identity!TypeOK, MintedUsed, Identity!CodeMintsOnce, LabelType

\* Labels and ids stay apart when a row takes a label that is its id or is
\* free, or one a phone enrolls with.
LEMMA LabelSet ==
    ASSUME Identity!NamesDistinct, NEW i \in Identity!Id, NEW v, RowSet(i, v),
           v \in Name \ PhoneName =>
               \A j \in Identity!Id \ {i} : host[j] # None => v # j /\ v # host[j],
           host[i] # None \/ i \notin Name
               \/ \A j \in Identity!Id \ {i} : host[j] # i
    PROVE  Identity!NamesDistinct'
<1> SUFFICES ASSUME NEW j \in Identity!Id, NEW k \in Identity!Id, j # k,
                    host'[j] # None, host'[k] # None, host'[j] \in Name \ PhoneName
             PROVE  host'[j] # k /\ host'[j] # host'[k]
  BY DEF Identity!NamesDistinct, Identity!Here
<1>1. CASE j = i
  BY <1>1 DEF RowSet
<1>2. CASE j # i /\ k # i
  BY <1>2 DEF RowSet, Identity!NamesDistinct, Identity!Here
<1>3. CASE k = i
  <2>1. host'[j] = host[j] /\ host'[k] = v
    BY <1>3 DEF RowSet
  <2>2. host[j] # v
    BY <1>3, <2>1
  <2>3. host[j] # i
    BY <1>3, <2>1 DEF Identity!NamesDistinct, Identity!Here
  <2> QED
    BY <1>3, <2>1, <2>2, <2>3
<1> QED
  BY <1>1, <1>2, <1>3

\* A registration under the new label of a host whose id is free moves the
\* row; any other one gives a row its own id for a label, and then no other
\* row has that label, or the row was there.
LEMMA RegisterRows ==
    ASSUME IdentityInv, NEW m \in Machine, Identity!Register(m)
    PROVE  \E n \in Name :
             /\ UNCHANGED <<code, key, toml, clock>>
             /\ host' \in LabelType /\ configured' \subseteq Identity!Id
             /\ trail' \subseteq Identity!Id /\ left' = left \ {n}
             /\ \/ \E old \in Identity!Id : /\ host[old] = n /\ old # n /\ host[n] = None
                                            /\ RowMoved(old, n)
                \/ /\ RowSet(n, n) /\ configured' = configured /\ trail' \subseteq trail \cup {n}
                   /\ \/ host[n] # None
                      \/ \A i \in Identity!Id : i # n => host[i] # n
<1> USE DEF IdentityInv
<1> DEFINE n == toml[m].name
           labelled == {i \in Identity!Id : host[i] = n /\ i # n}
<1>1. n \in Name /\ n \in Identity!Id /\ UNCHANGED <<code, key, toml, clock>> /\ left' = left \ {n}
  BY IdentityTypes DEF Identity!Register, Identity!Id
<1>2. CASE labelled # {} /\ ~Identity!Here(n)
  <2>1. PICK old \in labelled : /\ host' = Identity!Rekeyed(old, n).host
                                /\ configured' = Identity!Rekeyed(old, n).configured
                                /\ trail' = Identity!Rekeyed(old, n).trail
    BY <1>2 DEF Identity!Register
  <2> HIDE DEF n
  <2>2. /\ host' = [host EXCEPT ![old] = None, ![n] = n]
        /\ configured' = Identity!Moved(configured, old, n)
        /\ trail' = Identity!Moved(trail, old, n)
    BY <2>1 DEF Identity!Rekeyed
  <2>3. old \in Identity!Id /\ host[old] = n /\ old # n /\ host[n] = None
    BY <1>2 DEF Identity!Here
  <2>4. RowMoved(old, n)
    BY <1>1, <2>2, <2>3, IdentityTypes DEF RowMoved, Identity!Moved
  <2>5. host' \in LabelType
    BY <1>1, <2>2, <2>3, IdentityTypes DEF LabelType
  <2>6. configured' \subseteq Identity!Id /\ trail' \subseteq Identity!Id
    BY <1>1, <2>4, IdentityTypes DEF RowMoved
  <2> QED
    BY <1>1, <2>3, <2>4, <2>5, <2>6
<1>3. CASE ~(labelled # {} /\ ~Identity!Here(n))
  <2>1. /\ host' = [host EXCEPT ![n] = n] /\ configured' = configured
        /\ trail' \subseteq trail \cup {n}
    BY <1>3 DEF Identity!Register
  <2> HIDE DEF n
  <2>2. RowSet(n, n) /\ host' \in LabelType
    BY <1>1, <2>1, IdentityTypes DEF RowSet, LabelType
  <2>3. host[n] # None \/ \A i \in Identity!Id : i # n => host[i] # n
    BY <1>3 DEF Identity!Here
  <2>4. configured' \subseteq Identity!Id /\ trail' \subseteq Identity!Id
    BY <1>1, <2>1, IdentityTypes
  <2> QED
    BY <1>1, <2>1, <2>2, <2>3, <2>4
<1> QED
  BY <1>2, <1>3

LEMMA RegisterStep ==
    ASSUME IdentityInv, NEW m \in Machine, Identity!Register(m)
    PROVE  IdentityInv'
<1>1. PICK n \in Name :
         /\ UNCHANGED <<code, key, toml, clock>>
         /\ host' \in LabelType /\ configured' \subseteq Identity!Id
         /\ trail' \subseteq Identity!Id /\ left' = left \ {n}
         /\ \/ \E old \in Identity!Id : /\ host[old] = n /\ old # n /\ host[n] = None
                                        /\ RowMoved(old, n)
            \/ /\ RowSet(n, n) /\ configured' = configured /\ trail' \subseteq trail \cup {n}
               /\ \/ host[n] # None
                  \/ \A i \in Identity!Id : i # n => host[i] # n
  BY RegisterRows
<1>2. n \in Identity!Id /\ n # None
  BY UnmintedRow DEF Identity!Id
<1>3. /\ Identity!NamesDistinct /\ Identity!ConfigOwned /\ Identity!TrailFollows
      /\ configured \subseteq Identity!Id /\ trail \subseteq Identity!Id
  BY IdentityTypes DEF IdentityInv, RowsSafe
<1>4. ASSUME NEW old \in Identity!Id, host[old] = n, old # n, host[n] = None, RowMoved(old, n)
      PROVE  RowsSafe'
  <2>1. Identity!NamesDistinct'
    <3> SUFFICES ASSUME NEW i \in Identity!Id, NEW j \in Identity!Id, i # j,
                        host'[i] # None, host'[j] # None, host'[i] \in Name \ PhoneName
                 PROVE  host'[i] # j /\ host'[i] # host'[j]
      BY DEF Identity!NamesDistinct, Identity!Here
    <3>1. i # old /\ j # old
      BY <1>4 DEF RowMoved
    <3>2. ASSUME NEW k \in Identity!Id, k # old, k # n, host'[k] # None, n \notin PhoneName
          PROVE  host'[k] = host[k] /\ host[k] # n
      BY <1>2, <1>3, <1>4, <3>2 DEF RowMoved, Identity!NamesDistinct, Identity!Here
    <3>3. CASE i = n
      BY <1>2, <1>4, <3>1, <3>2, <3>3 DEF RowMoved
    <3>4. CASE i # n /\ j = n
      BY <1>2, <1>4, <3>1, <3>2, <3>4 DEF RowMoved
    <3>5. CASE i # n /\ j # n
      BY <1>3, <1>4, <3>1, <3>5 DEF RowMoved, Identity!NamesDistinct, Identity!Here
    <3> QED
      BY <3>3, <3>4, <3>5
  <2>2. Identity!ConfigOwned'
    BY <1>2, <1>3, <1>4 DEF RowMoved, Identity!ConfigOwned, Identity!Here
  <2>3. Identity!TrailFollows'
    BY <1>1, <1>2, <1>3, <1>4 DEF RowMoved, Identity!TrailFollows, Identity!Here
  <2> QED
    BY <2>1, <2>2, <2>3 DEF RowsSafe
<1>5. ASSUME RowSet(n, n), configured' = configured, trail' \subseteq trail \cup {n},
             host[n] # None \/ \A i \in Identity!Id : i # n => host[i] # n
      PROVE  RowsSafe'
  <2>1. n \in Name \ PhoneName =>
           \A j \in Identity!Id \ {n} : host[j] # None => n # j /\ n # host[j]
    BY <1>2, <1>3, <1>5 DEF Identity!NamesDistinct, Identity!Here
  <2>2. Identity!NamesDistinct'
    BY <1>2, <1>3, <1>5, <2>1, LabelSet
  <2>3. Identity!ConfigOwned'
    BY <1>2, <1>3, <1>5 DEF RowSet, Identity!ConfigOwned, Identity!Here
  <2>4. Identity!TrailFollows'
    BY <1>1, <1>2, <1>3, <1>5 DEF RowSet, Identity!TrailFollows, Identity!Here
  <2> QED
    BY <2>2, <2>3, <2>4 DEF RowsSafe
<1>6. RowsSafe'
  BY <1>1, <1>4, <1>5
<1>7. /\ left' \subseteq Identity!Id
      /\ toml' \in [Machine -> [name : Name \cup {None}, key : Key \cup {Master, None}]]
  BY <1>1, IdentityTypes DEF IdentityInv
<1> QED
  BY <1>1, <1>6, <1>7, RowsTyped

\* An unused name keeps labels and ids apart.
LEMMA RenameStep ==
    ASSUME IdentityInv, NEW i \in Identity!Id, NEW n \in Name, Identity!Rename(i, n)
    PROVE  IdentityInv'
<1>1. /\ host[i] # None /\ Identity!NameFree(i, n)
      /\ host' = [host EXCEPT ![i] = n] /\ trail' = trail \cup {i}
      /\ UNCHANGED <<configured, left, code, key, toml, clock>>
  BY DEF Identity!Rename, Identity!Here
<1>2. /\ host' \in LabelType /\ RowSet(i, n)
      /\ configured \subseteq Identity!Id /\ trail' \subseteq Identity!Id
      /\ trail \subseteq Identity!Id
  BY <1>1, IdentityTypes DEF IdentityInv, RowSet, LabelType
<1>3. n # None
  BY UnmintedRow
<1>4. Identity!NamesDistinct'
  BY <1>1, <1>2, LabelSet DEF IdentityInv, RowsSafe, Identity!NameFree, Identity!Here
<1>5. Identity!ConfigOwned' /\ Identity!TrailFollows'
  BY <1>1, <1>2, <1>3
  DEF IdentityInv, RowsSafe, Identity!ConfigOwned, Identity!TrailFollows, Identity!Here, RowSet
<1> QED
  BY <1>1, <1>2, <1>4, <1>5, RowsTyped, IdentityTypes DEF IdentityInv, RowsSafe

\* The display name of a phone is no label that is kept apart, nor is its id.
LEMMA EnrollStep ==
    ASSUME IdentityInv, NEW p \in Phone, NEW n \in PhoneName, Identity!EnrollPhone(p, n)
    PROVE  IdentityInv'
<1>1. /\ p \in Identity!Id /\ host[p] = None
      /\ host' = [host EXCEPT ![p] = n]
      /\ UNCHANGED <<configured, trail, left, code, key, toml, clock>>
  BY DEF Identity!EnrollPhone, Identity!Here, Identity!Id, Identity!records
<1>2. /\ host' \in LabelType /\ RowSet(p, n)
      /\ configured \subseteq Identity!Id /\ trail \subseteq Identity!Id
  BY <1>1, IdentityTypes DEF IdentityInv, RowSet, LabelType
<1>3. n # None /\ p \notin Name
  BY IdentityAssumption
<1>4. Identity!NamesDistinct'
  BY <1>1, <1>2, <1>3, LabelSet DEF IdentityInv, RowsSafe
<1>5. Identity!ConfigOwned' /\ Identity!TrailFollows'
  BY <1>1, <1>2, <1>3
  DEF IdentityInv, RowsSafe, Identity!ConfigOwned, Identity!TrailFollows, Identity!Here, RowSet
<1> QED
  BY <1>1, <1>2, <1>4, <1>5, RowsTyped, IdentityTypes DEF IdentityInv, RowsSafe

\* A deletion takes the assignments along and strands the rest.
LEMMA DeleteStep ==
    ASSUME IdentityInv, NEW i \in Identity!Id, Identity!DeleteHost(i)
    PROVE  IdentityInv'
<1>1. /\ host' = [host EXCEPT ![i] = None] /\ configured' = configured \ {i}
      /\ left' = left \cup (trail \cap {i})
      /\ UNCHANGED <<trail, code, key, toml, clock>>
  BY DEF Identity!DeleteHost
<1>2. /\ host' \in LabelType /\ RowSet(i, None)
      /\ configured \subseteq Identity!Id /\ trail \subseteq Identity!Id
      /\ left' \subseteq Identity!Id
  BY <1>1, IdentityTypes DEF IdentityInv, RowSet, LabelType
<1>3. Identity!NamesDistinct'
  BY <1>2 DEF IdentityInv, RowsSafe, Identity!NamesDistinct, Identity!Here, RowSet
<1>4. Identity!ConfigOwned' /\ Identity!TrailFollows'
  BY <1>1, <1>2
  DEF IdentityInv, RowsSafe, Identity!ConfigOwned, Identity!TrailFollows, Identity!Here, RowSet
<1> QED
  BY <1>1, <1>2, <1>3, <1>4, RowsTyped, IdentityTypes DEF IdentityInv, RowsSafe

\* Assignments, actions and reports only add records, of hosts that are there
\* or under a key that is; the operator's file names no host.
LEMMA RecordStep ==
    ASSUME IdentityInv,
           \/ \E m \in Machine, n \in Name :
                Identity!Install(m, n) \/ Identity!EditToml(m, n) \/ Identity!Report(m, n)
           \/ \E i \in Identity!Id : Identity!Configure(i) \/ Identity!QueueAction(i)
    PROVE  IdentityInv'
<1> DEFINE T == [name : Name \cup {None}, key : Key \cup {Master, None}]
<1>0. /\ toml \in [Machine -> T] /\ host \in LabelType
      /\ configured \subseteq Identity!Id /\ trail \subseteq Identity!Id
      /\ left \subseteq Identity!Id /\ RowsSafe
  BY IdentityTypes DEF IdentityInv, LabelType
<1>1. ASSUME UNCHANGED host PROVE Identity!NamesDistinct'
  BY <1>0, <1>1 DEF RowsSafe, Identity!NamesDistinct, Identity!Here
<1>2. ASSUME NEW m \in Machine, NEW n \in Name, Identity!Install(m, n) \/ Identity!EditToml(m, n)
      PROVE  IdentityInv'
  <2>1. /\ UNCHANGED <<host, configured, trail, left, code, key, clock>>
        /\ \/ toml' = [toml EXCEPT ![m] = [name |-> n, key |-> Master]]
           \/ toml' = [toml EXCEPT ![m].name = n]
    BY <1>2 DEF Identity!Install, Identity!EditToml, Identity!records
  <2>2. [name |-> n, key |-> Master] \in T /\ [toml[m] EXCEPT !.name = n] \in T
    BY <1>0
  <2>3. toml' \in [Machine -> T]
    BY <1>0, <2>1, <2>2
  <2>4. Identity!ConfigOwned' /\ Identity!TrailFollows'
    BY <1>0, <2>1 DEF RowsSafe, Identity!ConfigOwned, Identity!TrailFollows, Identity!Here
  <2> QED
    BY <1>0, <1>1, <2>1, <2>3, <2>4, RowsTyped DEF RowsSafe
<1>3. ASSUME NEW i \in Identity!Id, Identity!Configure(i) PROVE IdentityInv'
  <2>1. /\ UNCHANGED <<host, trail, left, code, key, toml, clock>> /\ host[i] # None
        /\ configured' \subseteq configured \cup {i}
    BY <1>3 DEF Identity!Configure, Identity!Here
  <2>2. Identity!ConfigOwned' /\ Identity!TrailFollows'
    BY <1>0, <2>1 DEF RowsSafe, Identity!ConfigOwned, Identity!TrailFollows, Identity!Here
  <2> QED
    BY <1>0, <1>1, <2>1, <2>2, RowsTyped DEF RowsSafe
<1>4. ASSUME NEW i \in Identity!Id, Identity!QueueAction(i) PROVE IdentityInv'
  <2>1. /\ UNCHANGED <<host, configured, left, code, key, toml, clock>> /\ host[i] # None
        /\ trail' = trail \cup {i}
    BY <1>4 DEF Identity!QueueAction, Identity!Here
  <2>2. Identity!ConfigOwned' /\ Identity!TrailFollows'
    BY <1>0, <2>1 DEF RowsSafe, Identity!ConfigOwned, Identity!TrailFollows, Identity!Here
  <2> QED
    BY <1>0, <1>1, <2>1, <2>2, RowsTyped DEF RowsSafe
<1>5. ASSUME NEW m \in Machine, NEW n \in Name, Identity!Report(m, n) PROVE IdentityInv'
  <2>1. /\ UNCHANGED <<host, configured, code, key, toml, clock>> /\ n \in Identity!Id
        /\ trail' = trail \cup {n}
        /\ left' = left \cup {j \in {n} : host[j] = None}
    BY <1>5 DEF Identity!Report, Identity!Here, Identity!Id
  <2>2. left' \subseteq Identity!Id /\ trail' \subseteq Identity!Id
    BY <1>0, <2>1
  <2>3. Identity!ConfigOwned' /\ Identity!TrailFollows'
    BY <1>0, <2>1 DEF RowsSafe, Identity!ConfigOwned, Identity!TrailFollows, Identity!Here
  <2> QED
    BY <1>0, <1>1, <2>1, <2>2, <2>3, RowsTyped DEF RowsSafe
<1> QED
  BY <1>2, <1>3, <1>4, <1>5

LEMMA IdentityNext ==
    ASSUME IdentityInv, Identity!Next
    PROVE  IdentityInv'
<1>1. CASE Identity!Pairing
  BY <1>1, PairingStep
<1>2. CASE Identity!Registering
  BY <1>2, RegisterStep, RenameStep, EnrollStep, DeleteStep, RecordStep DEF Identity!Registering
<1> QED
  BY <1>1, <1>2 DEF Identity!Next

LEMMA IdentityStart ==
    ASSUME Identity!Init
    PROVE  IdentityInv
<1>1. /\ host = [i \in Identity!Id |-> None] /\ configured = {} /\ trail = {} /\ left = {}
      /\ code = [c \in Code |-> [status |-> "none", ends |-> 0]]
      /\ key = [k \in Key |-> Identity!Unminted]
      /\ toml = [m \in Machine |-> Identity!NoToml] /\ clock = 0
  BY DEF Identity!Init
<1>2. /\ [status |-> "none", ends |-> 0] \in CodeRow
      /\ Identity!NoToml \in [name : Name \cup {None}, key : Key \cup {Master, None}]
      /\ clock \in 0 .. CodeTime
  BY <1>1, IdentityAssumption DEF CodeRow, Identity!NoToml
<1>3. Identity!TypeOK
  BY <1>1, <1>2, UnmintedRow, IdentityTypes
<1>4. MintedUsed /\ Identity!CodeMintsOnce
  BY <1>1 DEF MintedUsed, Identity!CodeMintsOnce
<1>5. RowsSafe
  BY <1>1 DEF RowsSafe, Identity!NamesDistinct, Identity!ConfigOwned, Identity!TrailFollows,
              Identity!Here
<1> QED
  BY <1>3, <1>4, <1>5 DEF IdentityInv

LEMMA IdentityKept ==
    ASSUME IdentityInv, [ConfigStep \/ IdentityStep \/ PilotStep]_fleetVars
    PROVE  IdentityInv'
<1>1. CASE IdentityStep
  BY <1>1, IdentityNext DEF IdentityStep
<1>2. CASE UNCHANGED identityVars
  BY <1>2 DEF identityVars, IdentityInv, Identity!TypeOK, MintedUsed, Identity!CodeMintsOnce,
              RowsSafe, Identity!NamesDistinct, Identity!ConfigOwned, Identity!TrailFollows,
              Identity!Here
<1> QED
  BY <1>1, <1>2 DEF ConfigStep, PilotStep, fleetVars, identityVars

-----------------------------------------------------------------------------
(* The gate of a seed                                                      *)

PilotRow ==
    [enabled : BOOLEAN, pair : PilotHost \cup {Nothing}, bucket : Bucket \cup {Nothing},
     revision : 0 .. PilotWrites,
     verdict : [state : {"unknown", "ready", "failed"}, print : Pilot!Fingerprint \cup {Nothing}]]

Proof == [revision : 1 .. PilotWrites, pair : PilotHost, print : Pilot!Fingerprint]

JobRow == [pair : PilotHost, live : BOOLEAN, issued : SUBSET Pilot!Fingerprint]

SideRow == [state : {"none", "queued", "over"}, print : Pilot!Fingerprint \cup {Nothing}]

GateType ==
    /\ pilot \in PilotRow
    /\ credential \in Credential \cup {Nothing}
    /\ probes \subseteq [revision : 1 .. PilotWrites, print : Pilot!Fingerprint]
    /\ passed \subseteq Proof

SpentType == spent \in [rotations : 0 .. MaxRotations, probes : 0 .. MaxProbes]

JobsType ==
    /\ job \in Seq(JobRow) /\ Len(job) <= MaxJobs
    /\ config \in [PilotHost -> Pilot!Space \cup {Nothing}]
    /\ side \in [1 .. MaxJobs -> [Pilot!Role -> SideRow]]

\* An enabled pilot is for a pair and a bucket, and its verdict is ready only
\* when a probe passed for exactly what is written now.
EnabledPilot ==
    pilot.enabled => pilot.pair \in PilotHost /\ pilot.bucket \in Bucket /\ pilot.revision >= 1

ReadyPassed ==
    pilot.enabled /\ pilot.verdict.state = "ready" =>
        [revision |-> pilot.revision, pair |-> pilot.pair, print |-> pilot.verdict.print] \in passed

GateInv == GateType /\ EnabledPilot /\ ReadyPassed

\* What was issued to a job was proven for its pair; a live job that is
\* eligible now has been issued the space of now.
IssuedProven ==
    \A j \in DOMAIN job : \A f \in job[j].issued :
        \E c \in passed : c.pair = job[j].pair /\ c.print = f

IssuedNow ==
    \A j \in DOMAIN job :
        job[j].live /\ Pilot!Eligible(job[j].pair) => Pilot!LivePrint \in job[j].issued

\* What a host holds and what a side uses was issued to the job it names.
SpacesIssued ==
    \A h \in PilotHost :
        config[h] # Nothing => /\ config[h].job \in DOMAIN job
                               /\ config[h].print \in job[config[h].job].issued

SidesIssued ==
    \A j \in DOMAIN job, r \in Pilot!Role :
        side[j][r].print # Nothing => side[j][r].print \in job[j].issued

JobsInv == JobsType /\ IssuedProven /\ IssuedNow /\ SpacesIssued /\ SidesIssued /\ Pilot!OneSeedPerPair

PilotInv == GateInv /\ JobsInv /\ SpentType

LEMMA PilotTypes == GateType /\ JobsType /\ SpentType => Pilot!TypeOK
<1> SUFFICES ASSUME GateType, JobsType, SpentType PROVE Pilot!TypeOK
  OBVIOUS
<1>1. \A j \in 1 .. Len(job) : job[j] \in JobRow
  BY DEF JobsType
<1> QED
  BY <1>1 DEF GateType, JobsType, SpentType, Pilot!TypeOK, PilotRow, Proof, JobRow, SideRow

LEMMA JobRows ==
    ASSUME job \in Seq(JobRow)
    PROVE  DOMAIN job = 1 .. Len(job) /\ Len(job) \in Nat /\ \A j \in DOMAIN job : job[j] \in JobRow
  OBVIOUS

\* A pair that is eligible has a proven space.
LEMMA EligibleProven ==
    ASSUME GateInv, NEW p \in PilotHost, Pilot!Eligible(p)
    PROVE  /\ Pilot!LivePrint \in Pilot!Fingerprint
           /\ [revision |-> pilot.revision, pair |-> p, print |-> Pilot!LivePrint] \in passed
  BY DEF GateInv, GateType, EnabledPilot, ReadyPassed, Pilot!Eligible, Pilot!ReadinessIsCurrent,
         Pilot!LivePrint, Pilot!Fingerprint, PilotRow

LEMMA EligibleProvenNext ==
    ASSUME GateInv', NEW p \in PilotHost, Pilot!Eligible(p)'
    PROVE  /\ Pilot!LivePrint' \in Pilot!Fingerprint
           /\ [revision |-> pilot'.revision, pair |-> p, print |-> Pilot!LivePrint'] \in passed'
  BY DEF GateInv, GateType, EnabledPilot, ReadyPassed, Pilot!Eligible, Pilot!ReadinessIsCurrent,
         Pilot!LivePrint, Pilot!Fingerprint, PilotRow

\* Jobs keep their pair and what was issued to them, and none comes to life.
JobsGrow ==
    /\ job' \in Seq(JobRow) /\ Len(job') = Len(job)
    /\ \A j \in DOMAIN job :
          /\ job'[j].pair = job[j].pair
          /\ job'[j].live => job[j].live
          /\ job[j].issued \subseteq job'[j].issued

LEMMA GrownJobs ==
    ASSUME JobsInv, JobsGrow, UNCHANGED <<config, side>>
    PROVE  JobsType' /\ SpacesIssued' /\ SidesIssued' /\ Pilot!OneSeedPerPair'
<1>1. DOMAIN job' = DOMAIN job
  BY DEF JobsInv, JobsType, JobsGrow
<1>2. JobsType'
  BY DEF JobsInv, JobsType, JobsGrow
<1>3. SpacesIssued'
  BY <1>1 DEF JobsInv, SpacesIssued, JobsGrow
<1>4. SidesIssued'
  BY <1>1 DEF JobsInv, SidesIssued, JobsGrow
<1>5. Pilot!OneSeedPerPair'
  BY <1>1 DEF JobsInv, Pilot!OneSeedPerPair, JobsGrow
<1> QED
  BY <1>2, <1>3, <1>4, <1>5

\* A step that may make a pair eligible notes the space for its live jobs.
LEMMA NotedJobs ==
    ASSUME JobsInv, GateInv', passed \subseteq passed', UNCHANGED <<config, side>>,
           Pilot!NoteIssued
    PROVE  JobsInv'
<1> USE DEF JobsInv
<1> DEFINE notes(j) == job[j].live /\ \E p \in PilotHost : p = job[j].pair /\ Pilot!Eligible(p)'
           noted(j) == [job[j] EXCEPT !.issued = @ \cup {Pilot!LivePrint'}]
<1>1. job' = [j \in DOMAIN job |-> IF notes(j) THEN noted(j) ELSE job[j]]
  BY DEF Pilot!NoteIssued
<1>2. /\ DOMAIN job = 1 .. Len(job) /\ Len(job) \in Nat
      /\ \A j \in DOMAIN job : job[j] \in JobRow
  BY JobRows DEF JobsType
<1>3. \A j \in DOMAIN job : notes(j) => Pilot!LivePrint' \in Pilot!Fingerprint
  BY EligibleProvenNext
<1>4. ASSUME NEW j \in DOMAIN job, notes(j)
      PROVE  /\ noted(j) \in JobRow /\ noted(j).pair = job[j].pair /\ noted(j).live = job[j].live
             /\ noted(j).issued = job[j].issued \cup {Pilot!LivePrint'}
  BY <1>2, <1>3, <1>4 DEF JobRow
<1> HIDE DEF noted
<1>5. \A j \in DOMAIN job :
         /\ job'[j] \in JobRow /\ job'[j].pair = job[j].pair /\ job'[j].live = job[j].live
         /\ notes(j) => job'[j].issued = job[j].issued \cup {Pilot!LivePrint'}
         /\ ~notes(j) => job'[j].issued = job[j].issued
  BY <1>1, <1>2, <1>4
<1> HIDE DEF notes
<1>6. DOMAIN job' = DOMAIN job /\ job' \in Seq(JobRow) /\ Len(job') = Len(job)
  <2>1. job' \in [1 .. Len(job) -> JobRow]
    BY <1>1, <1>2, <1>5
  <2> QED
    BY <1>2, <2>1
<1>7. JobsType' /\ SpacesIssued' /\ SidesIssued' /\ Pilot!OneSeedPerPair'
  BY <1>5, <1>6, GrownJobs DEF JobsGrow
<1>8. IssuedProven'
  <2> SUFFICES ASSUME NEW j \in DOMAIN job, NEW f \in job'[j].issued
               PROVE  \E c \in passed' : c.pair = job'[j].pair /\ c.print = f
    BY <1>6 DEF IssuedProven
  <2>1. CASE f \in job[j].issued
    BY <2>1, <1>5 DEF IssuedProven
  <2>2. CASE f \notin job[j].issued
    <3>1. notes(j) /\ f = Pilot!LivePrint'
      BY <2>2, <1>5
    <3>2. PICK p \in PilotHost : p = job[j].pair /\ Pilot!Eligible(p)'
      BY <3>1 DEF notes
    <3>3. [revision |-> pilot'.revision, pair |-> p, print |-> f] \in passed'
      BY <3>1, <3>2, EligibleProvenNext
    <3> QED
      BY <3>2, <3>3, <1>5
  <2> QED
    BY <2>1, <2>2
<1>9. IssuedNow'
  <2> SUFFICES ASSUME NEW j \in DOMAIN job, job'[j].live,
                      NEW p \in PilotHost, p = job'[j].pair, Pilot!Eligible(p)'
               PROVE  Pilot!LivePrint' \in job'[j].issued
    BY <1>5, <1>6 DEF IssuedNow, Pilot!Eligible, JobRow
  <2>1. notes(j)
    BY <1>5 DEF notes
  <2> QED
    BY <2>1, <1>5
<1> QED
  BY <1>7, <1>8, <1>9

\* The jobs when no pair becomes eligible.
LEMMA JobsStay ==
    ASSUME JobsInv, UNCHANGED <<job, config, side>>, passed \subseteq passed',
           \A p \in PilotHost :
               Pilot!Eligible(p)' => Pilot!Eligible(p) /\ Pilot!LivePrint' = Pilot!LivePrint
    PROVE  JobsInv'
<1>1. job' = job /\ config' = config /\ side' = side
  OBVIOUS
<1>2. JobsType' /\ SpacesIssued' /\ SidesIssued' /\ Pilot!OneSeedPerPair'
  BY <1>1 DEF JobsInv, JobsType, SpacesIssued, SidesIssued, Pilot!OneSeedPerPair
<1>3. IssuedProven'
  BY <1>1 DEF JobsInv, IssuedProven
<1>4. IssuedNow'
  <2> SUFFICES ASSUME NEW j \in DOMAIN job, job[j].live,
                      NEW p \in PilotHost, p = job[j].pair, Pilot!Eligible(p)'
               PROVE  Pilot!LivePrint' \in job[j].issued
    BY <1>1, JobRows DEF JobsInv, JobsType, JobRow, IssuedNow, Pilot!Eligible
  <2> QED
    BY DEF JobsInv, IssuedNow
<1> QED
  BY <1>2, <1>3, <1>4 DEF JobsInv

\* A write leaves a verdict only to a pilot it disables.
LEMMA WrittenStep ==
    ASSUME PilotInv,
           \/ \E e \in BOOLEAN, p \in PilotHost, b \in Bucket : Pilot!PutPilot(e, p, b)
           \/ Pilot!ClearPilot
    PROVE  PilotInv'
<1> USE DEF PilotInv
<1>1. PICK e \in BOOLEAN, p \in PilotHost \cup {Nothing}, b \in Bucket \cup {Nothing} :
         /\ pilot' = Pilot!Written(e, p, b)
         /\ e => p \in PilotHost /\ b \in Bucket
  BY DEF Pilot!PutPilot, Pilot!ClearPilot
<1>2. /\ pilot.revision < PilotWrites
      /\ UNCHANGED <<credential, probes, passed, job, config, side, spent>>
  BY DEF Pilot!PutPilot, Pilot!ClearPilot, Pilot!jobVars
<1>3. /\ Pilot!Unknown \in [state : {"unknown", "ready", "failed"},
                            print : Pilot!Fingerprint \cup {Nothing}]
      /\ Pilot!Unknown.state = "unknown"
  BY DEF Pilot!Unknown
<1>4. /\ pilot' \in PilotRow /\ pilot'.enabled = e /\ pilot'.pair = p /\ pilot'.bucket = b
      /\ pilot'.revision = pilot.revision + 1
      /\ e => pilot'.verdict.state = "unknown"
  BY <1>1, <1>2, <1>3, PilotAssumption
  DEF GateInv, GateType, PilotRow, Pilot!Written, Pilot!KeepVerdict
<1>5. GateInv'
  <2>1. GateType'
    BY <1>2, <1>4 DEF GateInv, GateType
  <2>2. EnabledPilot'
    BY <1>1, <1>2, <1>4, PilotAssumption DEF GateInv, GateType, PilotRow, EnabledPilot
  <2>3. ReadyPassed'
    BY <1>4 DEF ReadyPassed
  <2> QED
    BY <2>1, <2>2, <2>3 DEF GateInv
<1>6. \A q \in PilotHost : ~Pilot!Eligible(q)'
  BY <1>4 DEF Pilot!Eligible, Pilot!ReadinessIsCurrent
<1>7. JobsInv'
  BY <1>2, <1>6, JobsStay
<1> QED
  BY <1>2, <1>5, <1>7 DEF SpentType

LEMMA RotateStep ==
    ASSUME PilotInv, NEW c \in Credential \cup {Nothing}, Pilot!Rotate(c)
    PROVE  PilotInv'
<1> USE DEF PilotInv
<1>1. /\ spent.rotations < MaxRotations /\ credential' = c
      /\ spent' = [spent EXCEPT !.rotations = @ + 1]
      /\ UNCHANGED <<pilot, probes, passed, config, side>>
      /\ Pilot!NoteIssued
  BY DEF Pilot!Rotate
<1>2. GateInv'
  BY <1>1 DEF GateInv, GateType, EnabledPilot, ReadyPassed
<1>3. SpentType'
  BY <1>1, PilotAssumption DEF SpentType
<1>4. JobsInv'
  BY <1>1, <1>2, NotedJobs
<1> QED
  BY <1>2, <1>3, <1>4

LEMMA StartProbeStep ==
    ASSUME PilotInv, Pilot!StartProbe
    PROVE  PilotInv'
<1> USE DEF PilotInv
<1>1. /\ pilot.enabled /\ spent.probes < MaxProbes
      /\ spent' = [spent EXCEPT !.probes = @ + 1]
      /\ UNCHANGED <<credential, passed, job, config, side>>
  BY DEF Pilot!StartProbe, Pilot!jobVars
<1>2. SpentType'
  BY <1>1, PilotAssumption DEF SpentType
<1>3. CASE Pilot!LivePrint = Nothing
  <2> DEFINE none == [state |-> "failed", print |-> Nothing]
  <2>1. pilot' = [pilot EXCEPT !.verdict = none] /\ UNCHANGED probes
    BY <1>3 DEF Pilot!StartProbe
  <2>2. none \in [state : {"unknown", "ready", "failed"}, print : Pilot!Fingerprint \cup {Nothing}]
    OBVIOUS
  <2>3. /\ pilot' \in PilotRow /\ pilot'.enabled = pilot.enabled /\ pilot'.pair = pilot.pair
        /\ pilot'.bucket = pilot.bucket /\ pilot'.revision = pilot.revision
        /\ pilot'.verdict.state = "failed"
    BY <2>1, <2>2 DEF GateInv, GateType, PilotRow
  <2>4. GateInv'
    BY <1>1, <2>1, <2>3 DEF GateInv, GateType, EnabledPilot, ReadyPassed
  <2>5. \A q \in PilotHost : ~Pilot!Eligible(q)'
    BY <2>3 DEF Pilot!Eligible, Pilot!ReadinessIsCurrent
  <2> QED
    BY <1>1, <1>2, <2>4, <2>5, JobsStay
<1>4. CASE Pilot!LivePrint # Nothing
  <2> DEFINE new == [revision |-> pilot.revision, print |-> Pilot!LivePrint]
  <2>1. probes' = probes \cup {new} /\ UNCHANGED pilot
    BY <1>4 DEF Pilot!StartProbe
  <2>2. Pilot!LivePrint \in Pilot!Fingerprint
    BY <1>4 DEF GateInv, GateType, EnabledPilot, Pilot!LivePrint, Pilot!Fingerprint
  <2>3. new \in [revision : 1 .. PilotWrites, print : Pilot!Fingerprint]
    BY <1>1, <2>2, PilotAssumption DEF GateInv, GateType, PilotRow, EnabledPilot
  <2> HIDE DEF new
  <2>4. GateInv'
    BY <1>1, <2>1, <2>3 DEF GateInv, GateType, EnabledPilot, ReadyPassed
  <2>5. \A q \in PilotHost :
           Pilot!Eligible(q)' => Pilot!Eligible(q) /\ Pilot!LivePrint' = Pilot!LivePrint
    BY <1>1, <2>1 DEF Pilot!Eligible, Pilot!ReadinessIsCurrent, Pilot!LivePrint
  <2> QED
    BY <1>1, <1>2, <2>4, <2>5, JobsStay
<1> QED
  BY <1>3, <1>4

\* The compare-and-set: a verdict is recorded only for the pilot the probe was
\* started for, and a probe that passes for it is noted.
LEMMA EndProbeStep ==
    ASSUME PilotInv, NEW b \in probes, NEW ok \in BOOLEAN, Pilot!EndProbe(b, ok)
    PROVE  PilotInv'
<1> USE DEF PilotInv
<1> DEFINE verdict == [state |-> IF ok THEN "ready" ELSE "failed", print |-> b.print]
           proof == [revision |-> b.revision, pair |-> pilot.pair, print |-> b.print]
<1>1. /\ probes' = probes \ {b}
      /\ pilot' = IF Pilot!Recorded(b) THEN [pilot EXCEPT !.verdict = verdict] ELSE pilot
      /\ passed' = IF ok /\ pilot.enabled /\ pilot.revision = b.revision
                   THEN passed \cup {proof} ELSE passed
      /\ UNCHANGED <<credential, config, side, spent>>
      /\ Pilot!NoteIssued
  BY DEF Pilot!EndProbe
<1>2. b.revision \in 1 .. PilotWrites /\ b.print \in Pilot!Fingerprint
  BY DEF GateInv, GateType
<1>3. /\ verdict \in [state : {"unknown", "ready", "failed"}, print : Pilot!Fingerprint \cup {Nothing}]
      /\ verdict.print = b.print /\ (verdict.state = "ready" => ok)
  BY <1>2
<1>4. pilot.enabled => proof \in Proof
  BY <1>2 DEF GateInv, EnabledPilot, Proof
<1> HIDE DEF verdict
<1>5. /\ pilot' \in PilotRow /\ pilot'.enabled = pilot.enabled /\ pilot'.pair = pilot.pair
      /\ pilot'.bucket = pilot.bucket /\ pilot'.revision = pilot.revision
      /\ pilot'.verdict = IF Pilot!Recorded(b) THEN verdict ELSE pilot.verdict
  BY <1>1, <1>3 DEF GateInv, GateType, PilotRow
<1>6. ReadyPassed'
  <2>1. CASE Pilot!Recorded(b)
    BY <1>1, <1>3, <1>5, <2>1 DEF Pilot!Recorded, ReadyPassed
  <2>2. CASE ~Pilot!Recorded(b)
    BY <1>1, <1>5, <2>2 DEF GateInv, ReadyPassed
  <2> QED
    BY <2>1, <2>2
<1> HIDE DEF proof
<1>7. GateInv'
  BY <1>1, <1>4, <1>5, <1>6 DEF GateInv, GateType, EnabledPilot
<1>8. JobsInv'
  BY <1>1, <1>7, NotedJobs
<1> QED
  BY <1>1, <1>7, <1>8 DEF SpentType

LEMMA ProbeLostStep ==
    ASSUME PilotInv, NEW b \in probes, Pilot!ProbeLost(b)
    PROVE  PilotInv'
<1>1. probes' = probes \ {b} /\ UNCHANGED <<pilot, credential, passed, job, config, side, spent>>
  BY DEF Pilot!ProbeLost, Pilot!jobVars
<1>2. GateInv' /\ SpentType'
  BY <1>1 DEF PilotInv, GateInv, GateType, EnabledPilot, ReadyPassed, SpentType
<1>3. JobsInv'
  BY <1>1, JobsStay DEF PilotInv, Pilot!Eligible, Pilot!ReadinessIsCurrent, Pilot!LivePrint
<1> QED
  BY <1>2, <1>3 DEF PilotInv

-----------------------------------------------------------------------------
LEMMA GateStays ==
    ASSUME PilotInv, UNCHANGED <<pilot, credential, probes, passed, spent>>
    PROVE  /\ GateInv' /\ SpentType'
           /\ \A p \in PilotHost : Pilot!Eligible(p)' <=> Pilot!Eligible(p)
           /\ Pilot!LivePrint' = Pilot!LivePrint
  BY DEF PilotInv, GateInv, GateType, EnabledPilot, ReadyPassed, SpentType, Pilot!Eligible,
         Pilot!ReadinessIsCurrent, Pilot!LivePrint

LEMMA CreateStep ==
    ASSUME PilotInv, NEW p \in PilotHost, Pilot!CreateSeedJob(p)
    PROVE  PilotInv'
<1> USE DEF PilotInv, JobsInv
<1> DEFINE n == Len(job) + 1
           new == [pair |-> p, live |-> TRUE, issued |-> {Pilot!LivePrint}]
           sides == [r \in Pilot!Role |-> [state |-> "queued", print |-> Nothing]]
<1>1. /\ Len(job) < MaxJobs /\ Pilot!Eligible(p) /\ Pilot!ActiveSeedJobs(p) = {}
      /\ job' = Append(job, new)
      /\ side' = [side EXCEPT ![n] = sides]
      /\ UNCHANGED <<pilot, credential, probes, passed, config, spent>>
  BY DEF Pilot!CreateSeedJob, Pilot!pilotVars
<1>2. /\ Pilot!LivePrint \in Pilot!Fingerprint
      /\ [revision |-> pilot.revision, pair |-> p, print |-> Pilot!LivePrint] \in passed
  BY <1>1, EligibleProven
<1>3. /\ DOMAIN job = 1 .. Len(job) /\ Len(job) \in Nat
      /\ \A j \in DOMAIN job : job[j] \in JobRow
  BY JobRows DEF JobsType
<1>4. new \in JobRow /\ sides \in [Pilot!Role -> SideRow] /\ n \in 1 .. MaxJobs
  BY <1>1, <1>2, <1>3, PilotAssumption DEF JobRow, SideRow, JobsType
<1>5. /\ job' \in Seq(JobRow) /\ Len(job') = n /\ DOMAIN job' = DOMAIN job \cup {n}
      /\ n \notin DOMAIN job /\ job'[n] = new
      /\ \A j \in DOMAIN job : job'[j] = job[j]
  BY <1>1, <1>3, <1>4 DEF JobsType
<1>6. /\ side' \in [1 .. MaxJobs -> [Pilot!Role -> SideRow]]
      /\ \A r \in Pilot!Role : side'[n][r].print = Nothing
      /\ \A j \in DOMAIN job : side'[j] = side[j]
  BY <1>1, <1>3, <1>4, <1>5 DEF JobsType
<1>7. /\ new.pair = p /\ new.live /\ new.issued = {Pilot!LivePrint}
  OBVIOUS
<1> HIDE DEF new, sides, n
<1>8. JobsType'
  BY <1>1, <1>4, <1>5, <1>6 DEF JobsType
<1>9. IssuedProven'
  BY <1>1, <1>2, <1>5, <1>7 DEF IssuedProven
<1>10. IssuedNow'
  <2>1. Pilot!LivePrint' = Pilot!LivePrint
    BY <1>1, GateStays
  <2>2. \A j \in DOMAIN job :
           job[j].live /\ pilot'.enabled /\ pilot'.pair = job[j].pair /\ Pilot!ReadinessIsCurrent'
               => Pilot!LivePrint' \in job[j].issued
    BY <1>1, <2>1 DEF IssuedNow, Pilot!Eligible, Pilot!ReadinessIsCurrent
  <2> QED
    BY <1>5, <1>7, <2>1, <2>2 DEF IssuedNow, Pilot!Eligible
<1>11. SpacesIssued' /\ SidesIssued'
  BY <1>1, <1>5, <1>6 DEF SpacesIssued, SidesIssued
<1>12. Pilot!OneSeedPerPair'
  <2>1. \A j \in DOMAIN job : ~(job[j].live /\ job[j].pair = p)
    BY <1>1 DEF Pilot!ActiveSeedJobs
  <2> QED
    BY <1>5, <1>7, <2>1 DEF Pilot!OneSeedPerPair
<1> QED
  BY <1>1, <1>8, <1>9, <1>10, <1>11, <1>12, GateStays

LEMMA JobEndsStep ==
    ASSUME PilotInv, NEW j \in DOMAIN job, Pilot!SeedJobEnds(j)
    PROVE  PilotInv'
<1> USE DEF PilotInv
<1>1. /\ job' = [job EXCEPT ![j].live = FALSE]
      /\ UNCHANGED <<pilot, credential, probes, passed, config, side, spent>>
  BY DEF Pilot!SeedJobEnds, Pilot!pilotVars
<1>2. /\ DOMAIN job = 1 .. Len(job) /\ Len(job) \in Nat
      /\ \A k \in DOMAIN job : job[k] \in JobRow
  BY JobRows DEF JobsInv, JobsType
<1>3. /\ [job[j] EXCEPT !.live = FALSE] \in JobRow
      /\ [job[j] EXCEPT !.live = FALSE].pair = job[j].pair
      /\ [job[j] EXCEPT !.live = FALSE].issued = job[j].issued
      /\ [job[j] EXCEPT !.live = FALSE].live = FALSE
  BY <1>2 DEF JobRow
<1>4. /\ DOMAIN job' = DOMAIN job /\ job' \in Seq(JobRow) /\ Len(job') = Len(job)
      /\ \A k \in DOMAIN job :
            /\ job'[k].pair = job[k].pair /\ job'[k].issued = job[k].issued
            /\ job'[k].live => job[k].live
  <2>1. job' \in [1 .. Len(job) -> JobRow]
    BY <1>1, <1>2, <1>3
  <2> QED
    BY <1>1, <1>2, <1>3, <2>1
<1>5. JobsType' /\ SpacesIssued' /\ SidesIssued' /\ Pilot!OneSeedPerPair'
  BY <1>1, <1>4, GrownJobs DEF JobsGrow
<1>6. IssuedProven'
  BY <1>1, <1>4 DEF JobsInv, IssuedProven
<1>7. IssuedNow'
  BY <1>1, <1>4, GateStays DEF JobsInv, IssuedNow, Pilot!Eligible, Pilot!ReadinessIsCurrent
<1> QED
  BY <1>1, <1>5, <1>6, <1>7, GateStays DEF JobsInv

\* The space a host gets is that of the one live job of the eligible pair, and
\* was issued to it.
LEMMA SpaceOfLiveJob ==
    ASSUME PilotInv, NEW h \in PilotHost
    PROVE  /\ Pilot!RelaySpace(h) \in Pilot!Space \cup {Nothing}
           /\ Pilot!RelaySpace(h) # Nothing =>
                /\ Pilot!RelaySpace(h).job \in DOMAIN job
                /\ Pilot!RelaySpace(h).print \in job[Pilot!RelaySpace(h).job].issued
<1> USE DEF PilotInv, JobsInv
<1> DEFINE space == Pilot!RelaySpace(h)
<1>1. CASE ~(Pilot!ReadinessIsCurrent /\ Pilot!SpaceJobs # {})
  BY <1>1 DEF Pilot!RelaySpace
<1>2. CASE Pilot!ReadinessIsCurrent /\ Pilot!SpaceJobs # {}
  <2>1. PICK j \in DOMAIN job : job[j].live /\ job[j].pair = pilot.pair
    BY <1>2 DEF Pilot!SpaceJobs
  <2>2. Pilot!SpaceJobs = {j}
    BY <2>1 DEF Pilot!SpaceJobs, Pilot!OneSeedPerPair
  <2>3. DOMAIN job = 1 .. Len(job) /\ Len(job) \in Nat /\ job[j] \in JobRow
    BY JobRows DEF JobsType
  <2>4. (CHOOSE k \in Pilot!SpaceJobs : \A i \in Pilot!SpaceJobs : i <= k) = j
    BY <2>2, <2>3
  <2>5. space = [job |-> j, role |-> Pilot!RoleIn(pilot.pair, h), print |-> Pilot!LivePrint]
    BY <1>2, <2>4 DEF Pilot!RelaySpace
  <2>6. Pilot!Eligible(job[j].pair) /\ job[j].pair \in PilotHost
    BY <1>2, <2>1, <2>3
    DEF Pilot!Eligible, Pilot!ReadinessIsCurrent, Pilot!LivePrint, JobRow
  <2>7. Pilot!LivePrint \in job[j].issued /\ Pilot!LivePrint \in Pilot!Fingerprint
    BY <2>1, <2>6, EligibleProven DEF IssuedNow
  <2>8. Pilot!RoleIn(pilot.pair, h) \in Pilot!Role /\ j \in 1 .. MaxJobs
    BY <2>3, PilotAssumption DEF Pilot!RoleIn, Pilot!Role, JobsType
  <2> QED
    BY <2>5, <2>7, <2>8 DEF Pilot!Space
<1> QED
  BY <1>1, <1>2

LEMMA RefreshStep ==
    ASSUME PilotInv, NEW h \in PilotHost, Pilot!RefreshConfig(h)
    PROVE  PilotInv'
<1> USE DEF PilotInv, JobsInv
<1>1. /\ config' = [config EXCEPT ![h] = Pilot!RelaySpace(h)]
      /\ UNCHANGED <<pilot, credential, probes, passed, job, side, spent>>
  BY DEF Pilot!RefreshConfig, Pilot!pilotVars
<1>2. JobsType'
  BY <1>1, SpaceOfLiveJob DEF JobsType
<1>3. SpacesIssued'
  BY <1>1, SpaceOfLiveJob DEF SpacesIssued, JobsType
<1>4. IssuedProven' /\ SidesIssued' /\ Pilot!OneSeedPerPair'
  BY <1>1 DEF IssuedProven, SidesIssued, Pilot!OneSeedPerPair
<1>5. IssuedNow'
  BY <1>1, GateStays DEF IssuedNow, Pilot!Eligible, Pilot!ReadinessIsCurrent
<1> QED
  BY <1>1, <1>2, <1>3, <1>4, <1>5, GateStays

\* A side that starts uses what its host holds for its job, or nothing.
LEMMA StartSideStep ==
    ASSUME PilotInv, NEW j \in DOMAIN job, NEW r \in Pilot!Role, NEW a \in BOOLEAN,
           Pilot!StartSide(j, r, a)
    PROVE  PilotInv'
<1> USE DEF PilotInv, JobsInv
<1> DEFINE h == IF r = "source" THEN job[j].pair ELSE Pilot!Target(job[j].pair)
           fresh == IF Pilot!Usable(config[h], j, r) \/ ~a THEN config[h] ELSE Pilot!RelaySpace(h)
           over == [state |-> "over",
                    print |-> IF Pilot!Usable(fresh, j, r) /\ job[j].live THEN fresh.print ELSE Nothing]
<1>1. /\ config' = [config EXCEPT ![h] = fresh]
      /\ side' = [side EXCEPT ![j][r] = over]
      /\ UNCHANGED <<pilot, credential, probes, passed, job, spent>>
  BY DEF Pilot!StartSide, Pilot!pilotVars
<1>2. /\ DOMAIN job = 1 .. Len(job) /\ Len(job) \in Nat /\ job[j] \in JobRow
      /\ DOMAIN job \subseteq 1 .. MaxJobs
  BY JobRows, PilotAssumption DEF JobsType
<1>3. h \in PilotHost
  <2>1. job[j].pair \in PilotHost
    BY <1>2 DEF JobRow
  <2>2. Pilot!Target(job[j].pair) \in PilotHost
    BY <2>1, PilotAssumption DEF Pilot!Target
  <2> QED
    BY <2>1, <2>2
<1> HIDE DEF h
<1>4. /\ fresh \in Pilot!Space \cup {Nothing}
      /\ fresh # Nothing => fresh.job \in DOMAIN job /\ fresh.print \in job[fresh.job].issued
  BY <1>3, SpaceOfLiveJob DEF JobsType, SpacesIssued
<1> HIDE DEF fresh
<1>5. /\ over \in SideRow
      /\ over.print # Nothing => over.print \in job[j].issued
  <2>1. fresh # Nothing => fresh.print \in Pilot!Fingerprint
    BY <1>4 DEF Pilot!Space
  <2> QED
    BY <1>4, <2>1 DEF SideRow, Pilot!Usable
<1> HIDE DEF over
<1>6. /\ side' \in [1 .. MaxJobs -> [Pilot!Role -> SideRow]]
      /\ \A k \in 1 .. MaxJobs, s \in Pilot!Role :
            side'[k][s] = IF k = j /\ s = r THEN over ELSE side[k][s]
  BY <1>1, <1>2, <1>5 DEF JobsType
<1>7. JobsType'
  BY <1>1, <1>3, <1>4, <1>6 DEF JobsType
<1>8. SpacesIssued'
  BY <1>1, <1>3, <1>4 DEF SpacesIssued, JobsType
<1>9. SidesIssued'
  BY <1>1, <1>2, <1>5, <1>6 DEF SidesIssued
<1>10. IssuedProven' /\ Pilot!OneSeedPerPair'
  BY <1>1 DEF IssuedProven, Pilot!OneSeedPerPair
<1>11. IssuedNow'
  BY <1>1, GateStays DEF IssuedNow, Pilot!Eligible, Pilot!ReadinessIsCurrent
<1> QED
  BY <1>1, <1>7, <1>8, <1>9, <1>10, <1>11, GateStays

LEMMA PilotStart ==
    ASSUME Pilot!Init
    PROVE  PilotInv
<1> USE DEF Pilot!Init
<1>1. GateInv
  BY PilotAssumption
  DEF GateInv, GateType, EnabledPilot, ReadyPassed, PilotRow, Pilot!Unknown
<1>2. SpentType
  BY PilotAssumption DEF SpentType
<1>3. job \in Seq(JobRow) /\ Len(job) = 0 /\ DOMAIN job = {}
  OBVIOUS
<1>4. JobsType
  BY <1>3, PilotAssumption DEF JobsType, SideRow
<1>5. IssuedProven /\ IssuedNow /\ SpacesIssued /\ SidesIssued /\ Pilot!OneSeedPerPair
  BY <1>3 DEF IssuedProven, IssuedNow, SpacesIssued, SidesIssued, Pilot!OneSeedPerPair
<1> QED
  BY <1>1, <1>2, <1>4, <1>5 DEF PilotInv, JobsInv

LEMMA PilotKept ==
    ASSUME PilotInv, [ConfigStep \/ IdentityStep \/ PilotStep]_fleetVars
    PROVE  PilotInv'
<1>1. CASE PilotStep
  <2>1. CASE Pilot!Operator
    BY <2>1, WrittenStep, RotateStep, StartProbeStep, CreateStep DEF Pilot!Operator
  <2>2. CASE Pilot!Progress
    BY <2>2, EndProbeStep, ProbeLostStep, JobEndsStep, StartSideStep, RefreshStep
    DEF Pilot!Progress
  <2> QED
    BY <1>1, <2>1, <2>2 DEF PilotStep, Pilot!Next
<1>2. CASE UNCHANGED pilotVars
  <2>1. UNCHANGED <<pilot, credential, probes, passed, job, config, side, spent>>
    BY <1>2 DEF pilotVars
  <2>2. JobsInv'
    BY <2>1, GateStays, JobsStay DEF PilotInv
  <2> QED
    BY <2>1, <2>2, GateStays DEF PilotInv
<1> QED
  BY <1>1, <1>2 DEF ConfigStep, IdentityStep, fleetVars, pilotVars

\* What the invariant says of eligible pairs, of the sides of a job and of the
\* live jobs of a pair.
LEMMA PilotSafe == PilotInv => SeedIsAuthorized
<1> SUFFICES ASSUME PilotInv PROVE SeedIsAuthorized
  OBVIOUS
<1> USE DEF PilotInv, JobsInv
<1>1. Pilot!TypeOK
  BY PilotTypes DEF GateInv
<1>2. Pilot!ReadyIsProven
  BY EligibleProven DEF Pilot!ReadyIsProven
<1>3. Pilot!RunsThroughProven
  BY DEF SidesIssued, IssuedProven, Pilot!RunsThroughProven
<1> QED
  BY <1>1, <1>2, <1>3 DEF SeedIsAuthorized

-----------------------------------------------------------------------------
(* The theorems                                                            *)

\* A daemon that holds its host's current revision holds the current
\* assignments, folders, backend and protections and pauses when the server
\* would have it pause, and nothing is assigned that does not exist
\* (config-revision.ts, the bump of every route that writes, pause.ts,
\* DELETE /folders and /hosts): for every fleet, and for every interleaving
\* of writes, registrations whose bump comes late, fetches and time.
THEOREM RevisionsNameConfigs == Spec => []ConfigSafety
<1>1. ConfigInv /\ [Next]_vars => ConfigInv'
  BY ConfigKept
<1>2. ConfigInv => ConfigSafety
  BY DEF ConfigInv
<1> QED
  BY <1>1, <1>2, ConfigStart, PTL DEF Spec

\* A pairing code yields at most one device key; no two hosts share a label
\* that no phone enrolls with, and none is another host's id; no assignment or
\* protection names a host that is gone, and no record is left behind by a new
\* id: whoever types the codes, however the exchanges end, and whatever
\* renames, registrations, removals and late reports follow each other
\* (claimSessionForExchange, PATCH and DELETE /hosts, cascadeHostId).
THEOREM IdentitySafe == FleetSpec => []IdentityHolds
<1>1. FleetInit => IdentityInv
  BY IdentityStart DEF FleetInit
<1>2. IdentityInv /\ [ConfigStep \/ IdentityStep \/ PilotStep]_fleetVars => IdentityInv'
  BY IdentityKept
<1>3. IdentityInv => IdentityHolds
  BY DEF IdentityInv, RowsSafe, IdentityHolds, Identity!IdentitySafety
<1> QED
  BY <1>1, <1>2, <1>3, PTL DEF FleetSpec

\* A seed runs only through a bucket that a probe proved for the pair of its
\* job as it was written then, and a pair has one live job, although hosts keep
\* the spaces of earlier jobs and probes end after the pilot moved on
\* (recordSeedPilotReadiness, seedRelaySpaceForHost, activeSeedJobForPair).
THEOREM SeedAuthorized == FleetSpec => []SeedIsAuthorized
<1>1. FleetInit => PilotInv
  BY PilotStart DEF FleetInit
<1>2. PilotInv /\ [ConfigStep \/ IdentityStep \/ PilotStep]_fleetVars => PilotInv'
  BY PilotKept
<1> QED
  BY <1>1, <1>2, PilotSafe, PTL DEF FleetSpec
===============================================================================
