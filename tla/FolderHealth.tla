---------------------------- MODULE FolderHealth -----------------------------
(***************************************************************************)
(* The health of one shared sync folder on several hosts: what each daemon *)
(* probes (daemon/src/folder-health.ts), the reports it sends, which may   *)
(* be late, lost or out of order, the row the server keeps per assignment  *)
(* while assignments come and go, and the state every reader derives from  *)
(* it (server/src/folder-health.ts, core/src/folder-health.ts).            *)
(*                                                                         *)
(* The number of entries in the remote's listing is a class: 0 for none,   *)
(* 1 for few and 2 for many, where few is at most half of many and many is *)
(* at least 20.                                                            *)
(***************************************************************************)
EXTENDS Naturals, FiniteSets

CONSTANTS
    Device,          \* the hosts
    MaxAssignments,  \* bound: assignments that are ever made
    MaxChanges,      \* bound: what happens to the folder on the hosts
    MaxFlight,       \* bound: reports under way
    None             \* no row, no host

Assignment == 1 .. MaxAssignments
Entries == 0 .. 2
Unread == 3

Facts == [pair : {"none", "incomplete", "error", "ready"}, entries : Entries \cup {Unread},
          pending : BOOLEAN, last : {"none", "success", "failed", "interrupted"},
          running : BOOLEAN, blocked : BOOLEAN]

VARIABLES
    owner,    \* server: the host of each assignment, None when there is none
    made,     \* assignments made so far
    row,      \* server: folder_health; history: the assignment the report was made for
    held,     \* per host: the assignments in the config the daemon holds
    facts,    \* per host: what a probe that reads everything would find
    changes,  \* changes so far
    flight    \* reports under way

serverVars == <<owner, made, row>>
hostVars == <<held, facts, changes>>
vars == <<serverVars, hostVars, flight>>

Owned(h) == {a \in Assignment : owner[a] = h}

TypeOK ==
    /\ owner \in [Assignment -> Device \cup {None}]
    /\ made \in 0 .. MaxAssignments
    /\ \A a \in Assignment : row[a] = None \/ row[a] \in [facts : Facts, by : Assignment]
    /\ held \in [Device -> SUBSET Assignment]
    /\ facts \in [Device -> Facts]
    /\ changes \in 0 .. MaxChanges
    /\ flight \subseteq [host : Device, for : Assignment, facts : Facts]
    /\ Cardinality(flight) <= MaxFlight

Unsynced == [pair |-> "none", entries |-> 0, pending |-> FALSE, last |-> "none",
             running |-> FALSE, blocked |-> FALSE]

Init ==
    /\ owner = [a \in Assignment |-> None]
    /\ made = 0
    /\ row = [a \in Assignment |-> None]
    /\ held = [h \in Device |-> {}]
    /\ facts = [h \in Device |-> Unsynced]
    /\ changes = 0
    /\ flight = {}

-----------------------------------------------------------------------------
(* Assignments and the config of a host                                    *)

\* POST /folders/:id/assign: a new id each time, an existing one is no obstacle.
Assign(h) ==
    /\ made < MaxAssignments
    /\ made' = made + 1
    /\ owner' = [owner EXCEPT ![made + 1] = h]
    /\ UNCHANGED <<row, hostVars, flight>>

\* The assignment a host's folder resolves to: the first row.
AssignmentFor(h) == CHOOSE a \in Owned(h) : \A b \in Owned(h) : a <= b

\* DELETE /folders/:id/assign/:hostId: the health of the one that is found
\* goes, and every assignment of the pair.
Unassign(h) ==
    /\ Owned(h) # {}
    /\ row' = [row EXCEPT ![AssignmentFor(h)] = None]
    /\ owner' = [a \in Assignment |-> IF owner[a] = h THEN None ELSE owner[a]]
    /\ UNCHANGED <<made, hostVars, flight>>

\* refreshConfig of the daemon.
Refresh(h) ==
    /\ held[h] # Owned(h)
    /\ held' = [held EXCEPT ![h] = Owned(h)]
    /\ UNCHANGED <<serverVars, facts, changes, flight>>

-----------------------------------------------------------------------------
(* The folder on its host                                                  *)

Change(h, f) ==
    /\ changes < MaxChanges
    /\ f # facts[h]
    /\ changes' = changes + 1
    /\ facts' = [facts EXCEPT ![h] = f]
    /\ UNCHANGED <<serverVars, held, flight>>

\* A bisync run starts.
StartRun(h) ==
    /\ held[h] # {} /\ ~facts[h].running
    /\ Change(h, [facts[h] EXCEPT !.running = TRUE])

\* It succeeds with a pair of some size, ends with a critical error, or
\* stops before it touched the pair or beside new listings.
EndRun(h) ==
    /\ facts[h].running
    /\ LET over == [facts[h] EXCEPT !.running = FALSE]
       IN  \/ \E n \in Entries :
                Change(h, [over EXCEPT !.pair = "ready", !.entries = n, !.pending = FALSE, !.last = "success"])
           \/ Change(h, [over EXCEPT !.pair = "error", !.last = "failed"])
           \/ Change(h, [over EXCEPT !.last = "interrupted"])
           \/ facts[h].pair = "ready" /\ Change(h, [over EXCEPT !.pair = "incomplete", !.last = "interrupted"])

\* The ignore rules change, or a precondition of a run comes or goes.
Disturb(h) ==
    \/ Change(h, [facts[h] EXCEPT !.pending = facts[h].pair = "ready"])
    \/ Change(h, [facts[h] EXCEPT !.blocked = ~@])

\* The daemon restarts: the last run is not remembered.
Restart(h) == Change(h, [facts[h] EXCEPT !.running = FALSE, !.last = "none"])

-----------------------------------------------------------------------------
(* Reports                                                                 *)

\* inspectBisyncBaseline: the entries are counted only when asked for.
Probed(h, counted) ==
    IF counted /\ facts[h].pair \in {"ready", "incomplete"}
    THEN facts[h]
    ELSE [facts[h] EXCEPT !.entries = Unread]

\* The reports that stay under way beside a new one: one is lost when the
\* bound is reached.
Room == IF Cardinality(flight) < MaxFlight THEN {flight} ELSE {flight \ {r} : r \in flight}

\* requestHealthReport: with counts after a run, at boot and for a
\* diagnosis, without at a heartbeat.
Report(h, a, counted) ==
    /\ a \in held[h]
    /\ \E rest \in Room :
         flight' = rest \cup {[host |-> h, for |-> a, facts |-> Probed(h, counted)]}
    /\ UNCHANGED <<serverVars, hostVars>>

\* Mutant of Accepts: the host alone decides.
AcceptsHost(r) == Owned(r.host) # {}

\* POST /folder-health: the host's assignment, and the one the report names.
Accepts(r) == Owned(r.host) # {} /\ r.for = AssignmentFor(r.host)

\* Mutant of Recorded: a report that derives the same state changes nothing.
RecordedOnChange(r) ==
    LET a == AssignmentFor(r.host)
    IN  IF row[a] # None /\ row[a].facts.pair = r.facts.pair THEN row
        ELSE [row EXCEPT ![a] = [facts |-> r.facts, by |-> r.for]]

\* recordFolderHealth: the report replaces the row.
Recorded(r) == [row EXCEPT ![AssignmentFor(r.host)] = [facts |-> r.facts, by |-> r.for]]

Deliver(r) ==
    /\ r \in flight
    /\ flight' = flight \ {r}
    /\ row' = IF Accepts(r) THEN Recorded(r) ELSE row
    /\ UNCHANGED <<owner, made, hostVars>>

Lose(r) ==
    /\ r \in flight
    /\ flight' = flight \ {r}
    /\ UNCHANGED <<serverVars, hostVars>>

-----------------------------------------------------------------------------
(* What a reader sees                                                      *)

Severity == [unsafe |-> 6, resync_required |-> 5, blocked |-> 4, recoverable |-> 3,
             new_host |-> 2, healthy |-> 0]

\* The states the reasons of deriveFolderHealth establish.
Codes(f) ==
    {"healthy"} \cup
    {s \in DOMAIN Severity :
        \/ s = "unsafe" /\ f.pair = "error"
        \/ s = "new_host" /\ f.pair = "none"
        \/ s = "resync_required" /\ (f.pair = "incomplete" \/ f.pending \/ (f.pair = "ready" /\ f.entries = 0))
        \/ s = "recoverable" /\ f.last \in {"failed", "interrupted"}
        \/ s = "blocked" /\ f.blocked}

\* The worst of them, and a run hides the rest.
Derived(f) ==
    IF f.running THEN "busy"
    ELSE CHOOSE s \in Codes(f) : \A t \in Codes(f) : Severity[t] <= Severity[s]

\* applyFleetBaselineCheck: the counts of the hosts that share the remote.
Counts ==
    {a \in Assignment :
        /\ owner[a] # None /\ row[a] # None
        /\ row[a].facts.pair = "ready" /\ ~row[a].facts.pending /\ row[a].facts.entries # Unread}

FewerThanSibling(a) ==
    /\ a \in Counts
    /\ row[a].facts.entries < 2
    /\ \E b \in Counts : row[b].facts.entries = 2

\* loadDerivedFolderHealth
Shown(a) ==
    LET s == Derived(row[a].facts)
    IN  IF FewerThanSibling(a) /\ s \notin {"unsafe", "resync_required"} THEN "resync_required" ELSE s

-----------------------------------------------------------------------------
Next ==
    \/ \E h \in Device :
         \/ Assign(h) \/ Unassign(h) \/ Refresh(h)
         \/ StartRun(h) \/ EndRun(h) \/ Disturb(h) \/ Restart(h)
         \/ \E a \in Assignment, c \in BOOLEAN : Report(h, a, c)
    \/ \E r \in flight : Deliver(r) \/ Lose(r)

\* The config timer and the heartbeat go on, and the server answers a host
\* again and again.
Fairness ==
    \A h \in Device :
        /\ WF_vars(Refresh(h))
        /\ \A a \in Assignment : WF_vars(Report(h, a, FALSE))
        /\ SF_vars(\E r \in flight : r.host = h /\ Accepts(r) /\ Deliver(r))
        /\ WF_vars(\E r \in flight : r.host = h /\ (Deliver(r) \/ Lose(r)))

Spec == Init /\ [][Next]_vars /\ Fairness

-----------------------------------------------------------------------------
(* Correctness                                                             *)

\* The health of an assignment was reported for that assignment, however late
\* a report of an earlier one arrives, and an assignment that was removed has
\* none (POST /folder-health: "a daemon cannot report health for another
\* assignment"; DELETE assign: "keeps no health state").
HealthIsOwn ==
    \A a \in Assignment : row[a] # None => row[a].by = a /\ owner[a] # None

\* In the end the server shows what the probe of the host finds, apart from
\* the counts, whatever order its reports arrived in (requestHealthReport).
HealthConverges ==
    <>[](\A h \in Device : Owned(h) # {} =>
            LET a == AssignmentFor(h)
            IN  row[a] # None /\ [row[a].facts EXCEPT !.entries = Unread] = [facts[h] EXCEPT !.entries = Unread])

\* A host whose listing of the shared remote is a small part of another's
\* stays flagged until a run, a rule or an assignment changes
\* (applyFleetBaselineCheck: "exactly the dev-vm failure that previously
\* reported `healthy`").
IncompleteStaysFlagged ==
    [][\A a \in Assignment :
        row[a] # None /\ FewerThanSibling(a) /\ UNCHANGED <<owner, facts>> => FewerThanSibling(a)']_vars
=============================================================================
