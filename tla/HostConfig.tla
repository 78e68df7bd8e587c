----------------------------- MODULE HostConfig -----------------------------
(***************************************************************************)
(* The config registry of the server: folders, their assignments to        *)
(* devices, the backend behind them, app protections and pause windows,    *)
(* out of which GET /config/:hostId builds what one daemon follows, and    *)
(* the revision counter of each host (config-revision.ts) that tells a     *)
(* daemon when to fetch again.  FolderTriggers takes a revision to be the  *)
(* name of one config; the properties here are about that name.            *)
(*                                                                         *)
(* Every write carries a fresh stamp, so two configs are equal exactly     *)
(* when they are made of the same writes.  What a value looks like, and    *)
(* the validation that refuses a request without a write, is left out.     *)
(***************************************************************************)
EXTENDS Naturals, FiniteSets

CONSTANTS
    Device,        \* host ids
    Watched,       \* the devices whose daemons fetch their config
    Folder,        \* folder ids
    Address,       \* tailnet addresses
    NoAddress,     \* tailnet_ip NULL
    Global,        \* the id of the fleet-wide pause row
    MaxWrites,     \* bound: writes by operators
    MaxReports,    \* bound: registrations and heartbeats
    MaxTime        \* bound: the clock of the pause windows

ASSUME ConfigAssumption ==
    /\ Watched \subseteq Device
    /\ MaxWrites \in Nat /\ MaxReports \in Nat /\ MaxTime \in Nat

VARIABLES
    row,       \* hosts: [here, rev, tailnet, online]
    folder,    \* folders: stamp of the last write, 0 when there is none
    assigned,  \* folder_assignments: stamps of the rows of a folder and a host
    backend,   \* stamp of the backend the folders refer to
    apps,      \* application_protections of a host: stamp, 0 when none is enabled
    until,     \* pause_state: end of the window, 0 when there is no row
    now,       \* the clock
    writes,    \* writes so far
    reports,   \* registrations and heartbeats so far
    bumps,     \* requests between their write and their bump
    served     \* the last config given to the host's daemon

regVars == <<row, bumps, reports>>
dataVars == <<folder, assigned, backend, apps, until>>
vars == <<row, folder, assigned, backend, apps, until, now, writes, reports, bumps, served>>

Stamp == 0 .. MaxWrites
NotServed == [rev |-> 0, own |-> <<>>, pause |-> 0, peers |-> <<>>, fresh |-> FALSE]

Init ==
    /\ row = [h \in Device |-> [here |-> TRUE, rev |-> 0, tailnet |-> NoAddress,
                                online |-> TRUE]]
    /\ folder = [f \in Folder |-> 0]
    /\ assigned = [p \in Folder \X Device |-> {}]
    /\ backend = 0
    /\ apps = [h \in Device |-> 0]
    /\ until = [i \in Device \cup {Global} |-> 0]
    /\ now = 0 /\ writes = 0 /\ reports = 0
    /\ bumps = {}
    /\ served = [h \in Device |-> NotServed]

-----------------------------------------------------------------------------
(* The config of a host                                                    *)

\* The host's own part: its assignments, the folders they name, the backend
\* their remotes are built from, its enabled protections.
OwnConfig(h) ==
    LET mine == {f \in Folder : assigned[<<f, h>>] # {}}
    IN  [assignments |-> [f \in mine |-> assigned[<<f, h>>]],
         folders     |-> [f \in mine |-> folder[f]],
         backend     |-> IF mine = {} THEN 0 ELSE backend,
         apps        |-> apps[h]]

\* The host's window wins over the fleet's; an ended window is no window.
EffectivePause(h) ==
    IF until[h] > now THEN until[h] ELSE IF until[Global] > now THEN until[Global] ELSE 0

\* detectLanPeers: the other online hosts, at the address their remote is built from.
Peers(h) == [d \in {e \in Device \ {h} : row[e].here /\ row[e].online} |-> row[d].tailnet]

\* GET /config/:hostId.  resolveEffectivePause deletes the ended windows.
GetConfig(h) ==
    /\ row[h].here
    /\ until' = [i \in DOMAIN until |-> IF until[i] > now THEN until[i] ELSE 0]
    /\ served' = [served EXCEPT ![h] = [rev |-> row[h].rev, own |-> OwnConfig(h),
                                        pause |-> EffectivePause(h), peers |-> Peers(h),
                                        fresh |-> TRUE]]
    /\ UNCHANGED <<regVars, folder, assigned, backend, apps, now, writes>>

-----------------------------------------------------------------------------
(* Revisions                                                               *)

\* UPDATE hosts SET config_revision = config_revision + 1 of the hosts in H.
Bump(H) ==
    row' = [h \in Device |-> IF h \in H /\ row[h].here
                             THEN [row[h] EXCEPT !.rev = @ + 1] ELSE row[h]]

AssignedTo(f) == {h \in Device : assigned[<<f, h>>] # {}}

\* A write of an operator, with the hosts it bumps.
Write(H) ==
    /\ writes < MaxWrites
    /\ writes' = writes + 1
    /\ Bump(H)
    /\ UNCHANGED <<bumps, reports, now, served>>

-----------------------------------------------------------------------------
(* Folders, assignments, backend, protections                              *)

PostFolder(f) ==
    /\ folder[f] = 0
    /\ folder' = [folder EXCEPT ![f] = writes + 1]
    /\ Write(Device)
    /\ UNCHANGED <<assigned, backend, apps, until>>

PutFolder(f) ==
    /\ folder[f] # 0
    /\ folder' = [folder EXCEPT ![f] = writes + 1]
    /\ Write(AssignedTo(f))
    /\ UNCHANGED <<assigned, backend, apps, until>>

\* A mistake: only the hosts of the rows that were just deleted are bumped.
BumpDeletedRows(f) ==
    /\ folder[f] # 0
    /\ folder' = [folder EXCEPT ![f] = 0]
    /\ assigned' = [p \in Folder \X Device |-> IF p[1] = f THEN {} ELSE assigned[p]]
    /\ Write({h \in Device : assigned'[<<f, h>>] # {}})
    /\ UNCHANGED <<backend, apps, until>>

\* The assignments go first: who had the folder is no longer known, so every
\* host is bumped.
DeleteFolder(f) ==
    /\ folder[f] # 0
    /\ folder' = [folder EXCEPT ![f] = 0]
    /\ assigned' = [p \in Folder \X Device |-> IF p[1] = f THEN {} ELSE assigned[p]]
    /\ Write(Device)
    /\ UNCHANGED <<backend, apps, until>>

\* Nothing refuses a second assignment of the folder to the same host.
Assign(f, h) ==
    /\ folder[f] # 0 /\ row[h].here
    /\ assigned' = [assigned EXCEPT ![<<f, h>>] = @ \cup {writes + 1}]
    /\ Write({h})
    /\ UNCHANGED <<folder, backend, apps, until>>

Unassign(f, h) ==
    /\ assigned[<<f, h>>] # {}
    /\ assigned' = [assigned EXCEPT ![<<f, h>>] = {}]
    /\ Write({h})
    /\ UNCHANGED <<folder, backend, apps, until>>

\* The update names the folder and the host, and so writes each of their rows.
PatchAssignment(f, h) ==
    /\ assigned[<<f, h>>] # {}
    /\ assigned' = [assigned EXCEPT ![<<f, h>>] = {writes + 1}]
    /\ Write({h})
    /\ UNCHANGED <<folder, backend, apps, until>>

PutBackend ==
    /\ backend' = writes + 1
    /\ Write(Device)
    /\ UNCHANGED <<folder, assigned, apps, until>>

\* Enrolled, changed, or disabled and deleted.
WriteProtection(h) ==
    /\ row[h].here
    /\ \E s \in {0, writes + 1} : apps' = [apps EXCEPT ![h] = s]
    /\ Write({h})
    /\ UNCHANGED <<folder, assigned, backend, until>>

-----------------------------------------------------------------------------
(* Pause windows                                                           *)

\* A mistake: a change of the fleet's window spares the hosts that are paused already.
PausedSpared(i) == IF i = Global THEN {h \in Device : EffectivePause(h) = 0} ELSE {i}

\* Whom a change of a pause row concerns.
Paused(i) == IF i = Global THEN Device ELSE {i}

PostPause(i, t) ==
    /\ i # Global => row[i].here
    /\ t > now
    /\ until' = [until EXCEPT ![i] = t]
    /\ Write(Paused(i))
    /\ UNCHANGED <<folder, assigned, backend, apps>>

DeletePause(i) ==
    /\ until' = [until EXCEPT ![i] = 0]
    /\ Write(Paused(i))
    /\ UNCHANGED <<folder, assigned, backend, apps>>

Tick ==
    /\ now < MaxTime
    /\ now' = now + 1
    /\ UNCHANGED <<regVars, dataVars, writes, served>>

-----------------------------------------------------------------------------
(* Hosts                                                                   *)

\* A row is written and, once the release cache has answered, the bump follows.
Report(h, r, bump) ==
    /\ reports < MaxReports
    /\ reports' = reports + 1
    /\ row' = [row EXCEPT ![h] = r]
    /\ bumps' = bumps \cup bump
    /\ UNCHANGED <<dataVars, now, writes, served>>

\* POST /register: a new row starts at revision 0, an old one keeps its own.
Register(h, a) ==
    Report(h, [here |-> TRUE, rev |-> IF row[h].here THEN row[h].rev ELSE 0,
               tailnet |-> a, online |-> TRUE], {Device \ {h}})

\* POST /report/health: a missing address keeps the stored one, and only a
\* changed address is followed by a bump, of the reporting host.
Heartbeat(h, a) ==
    /\ row[h].here
    /\ Report(h, [row[h] EXCEPT !.tailnet = a, !.online = TRUE],
              IF a = row[h].tailnet THEN {} ELSE {{h}})

LateBump(H) ==
    /\ bumps' = bumps \ {H}
    /\ Bump(H)
    /\ UNCHANGED <<dataVars, now, writes, reports, served>>

\* The sweep of the notifications marks a silent host offline.
GoesOffline(h) ==
    /\ row[h].here /\ row[h].online
    /\ row' = [row EXCEPT ![h].online = FALSE]
    /\ UNCHANGED <<dataVars, now, writes, reports, bumps, served>>

\* The row goes with its assignments and protections, its pause row stays; a
\* later registration counts its revisions from 0 again, so what was served
\* before then is not comparable.
DeleteHost(h) ==
    /\ row[h].here
    /\ writes < MaxWrites
    /\ writes' = writes + 1
    /\ row' = [row EXCEPT ![h] = [here |-> FALSE, rev |-> 0, tailnet |-> NoAddress,
                                 online |-> FALSE]]
    /\ assigned' = [p \in Folder \X Device |-> IF p[2] = h THEN {} ELSE assigned[p]]
    /\ apps' = [apps EXCEPT ![h] = 0]
    /\ served' = [served EXCEPT ![h] = NotServed]
    /\ UNCHANGED <<folder, backend, until, now, reports, bumps>>

-----------------------------------------------------------------------------
Operator ==
    \/ \E f \in Folder : PostFolder(f) \/ PutFolder(f) \/ DeleteFolder(f)
    \/ \E f \in Folder, h \in Device : Assign(f, h) \/ Unassign(f, h) \/ PatchAssignment(f, h)
    \/ PutBackend
    \/ \E h \in Device : WriteProtection(h) \/ DeleteHost(h)
    \/ \E i \in Device \cup {Global} : DeletePause(i) \/ \E t \in 1 .. MaxTime : PostPause(i, t)

Daemons ==
    \/ \E h \in Watched : GetConfig(h)
    \/ \E h \in Device, a \in Address \cup {NoAddress} : Register(h, a) \/ Heartbeat(h, a)

Server ==
    \/ \E H \in bumps : LateBump(H)
    \/ \E h \in Device : GoesOffline(h)
    \/ Tick

Next == Operator \/ Daemons \/ Server

Spec == Init /\ [][Next]_vars

-----------------------------------------------------------------------------
(* Correctness                                                             *)

HostRow == [here: BOOLEAN, rev: Nat, tailnet: Address \cup {NoAddress}, online: BOOLEAN]

TypeOK ==
    /\ row \in [Device -> HostRow]
    /\ folder \in [Folder -> Stamp]
    /\ assigned \in [Folder \X Device -> SUBSET Stamp]
    /\ backend \in Stamp
    /\ apps \in [Device -> Stamp]
    /\ until \in [Device \cup {Global} -> 0 .. MaxTime]
    /\ now \in 0 .. MaxTime
    /\ writes \in 0 .. MaxWrites /\ reports \in 0 .. MaxReports
    /\ bumps \subseteq SUBSET Device
    /\ DOMAIN served = Device
    /\ \A h \in Device : /\ served[h].rev \in Nat
                         /\ served[h].pause \in 0 .. MaxTime
                         /\ served[h].fresh \in BOOLEAN

\* The daemon holds what the server last gave it and nothing tells it to fetch again.
ThinksCurrent(h) == row[h].here /\ served[h].fresh /\ served[h].rev = row[h].rev

\* A revision names one config: a daemon that holds the current revision holds
\* the current assignments, folders, backend and protections (each route's bump).
RevisionNamesConfig ==
    \A h \in Device : ThinksCurrent(h) => served[h].own = OwnConfig(h)

\* A daemon that holds the current revision pauses exactly when the server
\* would have it pause, unless its own window has just ended over a longer one
\* of the fleet (pause.ts and resolveEffectivePause).
RevisionNamesPause ==
    \A h \in Device :
        ThinksCurrent(h) =>
            \/ EffectivePause(h) = (IF served[h].pause > now THEN served[h].pause ELSE 0)
            \/ /\ served[h].pause \in 1 .. now
               /\ EffectivePause(h) = until[Global]

\* Nothing is ever assigned that does not exist (no foreign key guards it:
\* DELETE /folders and DELETE /hosts remove the rows themselves).
NoOrphans ==
    \A f \in Folder, h \in Device :
        assigned[<<f, h>>] # {} => folder[f] # 0 /\ row[h].here

ConfigSafety == RevisionNamesConfig /\ RevisionNamesPause /\ NoOrphans

\* hosts.ts: "a tailnet IP change must bump config_revision so every daemon
\* re-pulls": a daemon that holds the current revision, with no bump under
\* way, knows its peers' addresses.
AddressesReachPeers ==
    \A h \in Device :
        ThinksCurrent(h) /\ bumps = {} =>
            \A d \in DOMAIN served[h].peers \cap DOMAIN Peers(h) :
                served[h].peers[d] = Peers(h)[d]

=============================================================================
