---------------------------- MODULE HostIdentity ----------------------------
(***************************************************************************)
(* How a machine comes to act for a host: a pairing code is exchanged for  *)
(* a device key bound to a host id, client.toml keeps the name and the     *)
(* key, the daemon registers under that name at boot, and a rename changes *)
(* the label first and the id when the daemon registers under the new      *)
(* name.  Phones enter the same table through their enrollment.            *)
(*                                                                         *)
(* Host ids and host names are one space: a daemon registers with its name *)
(* as its id.                                                              *)
(***************************************************************************)
EXTENDS Naturals, FiniteSets

CONSTANTS
    Machine,     \* computers that run a daemon
    Name,        \* host ids and names of computers
    Phone,       \* registration ids of phones, which are host ids too
    PhoneName,   \* display names phones enroll with
    Code,        \* pairing codes
    Key,         \* managed API keys
    Master,      \* LAMASYNC_API_KEY, the key of an installation by hand
    None,        \* no key, no name
    Lifetime,    \* life of a pairing code
    MaxTime      \* bound: the clock

VARIABLES
    host,       \* hosts: id -> its hostname, None when there is no row
    configured, \* the ids that folder assignments and protections name
    trail,      \* the ids that other records name: queued actions, the operation
                \* log, conflicts, restic rows, notifications, lock holders
    left,       \* history: ids whose trail belongs to no host since a deletion
                \* or a report of a daemon without a row
    code,       \* pairing_sessions: [status, ends]
    key,        \* api_keys: [host, revoked, code]
    toml,       \* client.toml of a machine: [name, key]
    now

records == <<configured, trail, left>>
vars == <<host, records, code, key, toml, now>>

Id == Name \cup Phone
NoToml == [name |-> None, key |-> None]
Unminted == [host |-> None, revoked |-> FALSE, code |-> None]

Init ==
    /\ host = [i \in Id |-> None]
    /\ configured = {}
    /\ trail = {}
    /\ left = {}
    /\ code = [c \in Code |-> [status |-> "none", ends |-> 0]]
    /\ key = [k \in Key |-> Unminted]
    /\ toml = [m \in Machine |-> NoToml]
    /\ now = 0

Here(i) == host[i] # None

-----------------------------------------------------------------------------
(* Pairing                                                                 *)

\* createSessionRow: the codes of rows that are still there are not drawn again.
PostPairing(c) ==
    /\ code[c].status = "none"
    /\ now < MaxTime
    /\ code' = [code EXCEPT ![c] = [status |-> "pending", ends |-> now + Lifetime]]
    /\ UNCHANGED <<host, records, key, toml, now>>

\* pruneExpiredPending, on every read.
Pruned ==
    [c \in Code |-> IF code[c].status = "pending" /\ code[c].ends <= now
                    THEN [code[c] EXCEPT !.status = "expired"] ELSE code[c]]

\* A mistake: the code is looked at, and not whether it was used.
ClaimableTwice(c) == code[c].status \in {"pending", "used"} /\ code[c].ends > now

\* claimSessionForExchange
Claimable(c) == code[c].status = "pending" /\ code[c].ends > now

\* lamasync register writes the file, or fails to once the code is spent.
WriteClientToml(m, n, k) == toml' \in {toml, [toml EXCEPT ![m] = [name |-> n, key |-> k]]}

\* POST /pairing/:code/exchange: the claim holds even if no key can be issued,
\* and a key is bound to the host id that was submitted.
Exchange(m, c, n) ==
    /\ Claimable(c)
    /\ code' = [Pruned EXCEPT ![c].status = "used"]
    /\ \/ UNCHANGED <<key, toml>>
       \/ \E k \in Key :
            /\ key[k] = Unminted
            /\ key' = [key EXCEPT ![k] = [host |-> n, revoked |-> FALSE, code |-> c]]
            /\ WriteClientToml(m, n, k)
    /\ UNCHANGED <<host, records, now>>

\* sweepExpiredPairingSessions: a code that was never used may be drawn again.
SweepCodes ==
    /\ \E c \in Code : Pruned[c].status = "expired"
    /\ code' = [c \in Code |-> IF Pruned[c].status = "expired"
                               THEN [status |-> "none", ends |-> 0] ELSE Pruned[c]]
    /\ UNCHANGED <<host, records, key, toml, now>>

RevokeKey(k) ==
    /\ key[k] # Unminted /\ ~key[k].revoked
    /\ key' = [key EXCEPT ![k].revoked = TRUE]
    /\ UNCHANGED <<host, records, code, toml, now>>

Tick == now < MaxTime /\ now' = now + 1 /\ UNCHANGED <<host, records, code, key, toml>>

-----------------------------------------------------------------------------
(* The operator at the machine                                             *)

\* An installation by hand, with the master key.
Install(m, n) ==
    /\ toml[m] = NoToml
    /\ toml' = [toml EXCEPT ![m] = [name |-> n, key |-> Master]]
    /\ UNCHANGED <<host, records, code, key, now>>

\* The new name is written into client.toml after a rename.
EditToml(m, n) ==
    /\ toml[m] # NoToml /\ toml[m].name # n
    /\ \E i \in Name : host[i] = n
    /\ toml' = [toml EXCEPT ![m].name = n]
    /\ UNCHANGED <<host, records, code, key, now>>

-----------------------------------------------------------------------------
(* Registration                                                            *)

\* resolvePrincipal and deviceMayAccessHost: a device key acts for its own host.
MayAccess(k, i) ==
    \/ k = Master
    \/ k \in Key /\ key[k] # Unminted /\ ~key[k].revoked /\ key[k].host = i

\* UPDATE ... SET host_id = n WHERE host_id = old.
Moved(ids, old, n) == {IF i = old THEN n ELSE i : i \in ids}

\* A mistake: the rows that name the host are not moved with its id.
RekeyedAlone(old, n) ==
    [host |-> [host EXCEPT ![old] = None, ![n] = n], configured |-> configured, trail |-> trail]

\* cascadeHostId: the row gets its new id, and what names the host follows.
Rekeyed(old, n) ==
    [host |-> [host EXCEPT ![old] = None, ![n] = n],
     configured |-> Moved(configured, old, n), trail |-> Moved(trail, old, n)]

\* POST /register at boot, with the name as the id: a row with this label
\* under another id is the renamed host, unless the id is taken.  A host that
\* was offline is announced.
Register(m) ==
    LET n == toml[m].name
        labelled == {i \in Id : host[i] = n /\ i # n}
    IN  /\ n # None
        /\ MayAccess(toml[m].key, n)
        /\ IF labelled # {} /\ ~Here(n)
           THEN \E old \in labelled :
                   /\ host' = Rekeyed(old, n).host
                   /\ configured' = Rekeyed(old, n).configured
                   /\ trail' = Rekeyed(old, n).trail
           ELSE /\ host' = [host EXCEPT ![n] = n]
                /\ trail' \in IF Here(n) THEN {trail, trail \cup {n}} ELSE {trail}
                /\ UNCHANGED configured
        /\ left' = left \ {n}
        /\ UNCHANGED <<code, key, toml, now>>

\* Folders are assigned to the host and apps protected, or no longer.
Configure(i) ==
    /\ Here(i)
    /\ configured' \in {configured \cup {i}, configured \ {i}}
    /\ UNCHANGED <<host, trail, left, code, key, toml, now>>

\* POST /hosts/:hostId/actions
QueueAction(i) ==
    /\ Here(i)
    /\ trail' = trail \cup {i}
    /\ UNCHANGED <<host, configured, left, code, key, toml, now>>

\* POST /report and /conflicts ask for the key and not for the host: a daemon
\* that is still running after its host was deleted goes on reporting.
Report(m, i) ==
    /\ MayAccess(toml[m].key, i)
    /\ trail' = trail \cup {i}
    /\ left' = left \cup {j \in {i} : ~Here(j)}
    /\ UNCHANGED <<host, configured, code, key, toml, now>>

\* A mistake: only the labels are compared, not the ids.
LabelFree(i, n) == ~\E j \in Id \ {i} : host[j] = n

\* The collision check of the rename: ids and labels of the other hosts.
NameFree(i, n) == ~\E j \in Id \ {i} : Here(j) /\ n \in {j, host[j]}

\* PATCH /hosts/:hostId: the label only, and a line of the operation log.
Rename(i, n) ==
    /\ Here(i) /\ host[i] # n
    /\ NameFree(i, n)
    /\ host' = [host EXCEPT ![i] = n]
    /\ trail' = trail \cup {i}
    /\ UNCHANGED <<configured, left, code, key, toml, now>>

\* A mistake: the row is deleted alone.
DeleteRow(i) ==
    /\ Here(i)
    /\ host' = [host EXCEPT ![i] = None]
    /\ left' = left \cup (trail \cap {i})
    /\ UNCHANGED <<configured, trail, code, key, toml, now>>

\* DELETE /hosts/:hostId deletes the assignments and the protections with the
\* row; actions, log, conflicts, snapshots, events and locks keep the id.
DeleteHost(i) ==
    /\ Here(i)
    /\ host' = [host EXCEPT ![i] = None]
    /\ configured' = configured \ {i}
    /\ left' = left \cup (trail \cap {i})
    /\ UNCHANGED <<trail, code, key, toml, now>>

\* exchangeNewEnrollment: the display name is the label, and is not compared.
EnrollPhone(p, n) ==
    /\ ~Here(p)
    /\ host' = [host EXCEPT ![p] = n]
    /\ UNCHANGED <<records, code, key, toml, now>>

-----------------------------------------------------------------------------
Pairing ==
    \/ \E c \in Code : PostPairing(c) \/ \E m \in Machine, n \in Name : Exchange(m, c, n)
    \/ SweepCodes
    \/ \E k \in Key : RevokeKey(k)
    \/ Tick

Registering ==
    \/ \E m \in Machine : Register(m)
    \/ \E m \in Machine, n \in Name : Install(m, n) \/ EditToml(m, n) \/ Report(m, n)
    \/ \E i \in Id, n \in Name : Rename(i, n)
    \/ \E i \in Id : DeleteHost(i) \/ Configure(i) \/ QueueAction(i)
    \/ \E p \in Phone, n \in PhoneName : EnrollPhone(p, n)

Next == Pairing \/ Registering

Spec == Init /\ [][Next]_vars

-----------------------------------------------------------------------------
(* Correctness                                                             *)

TypeOK ==
    /\ host \in [Id -> Name \cup PhoneName \cup {None}]
    /\ configured \subseteq Id
    /\ trail \subseteq Id
    /\ left \subseteq Id
    /\ code \in [Code -> [status : {"none", "pending", "used", "expired"}, ends : Nat]]
    /\ key \in [Key -> [host : Name \cup {None}, revoked : BOOLEAN, code : Code \cup {None}]]
    /\ toml \in [Machine -> [name : Name \cup {None}, key : Key \cup {Master, None}]]
    /\ now \in 0 .. MaxTime

\* A pairing code yields at most one device key, whoever types it and
\* however the exchange ends (claimSessionForExchange, single use).
CodeMintsOnce ==
    \A k, l \in Key : key[k] # Unminted /\ key[k].code = key[l].code => k = l

\* Of the labels that no phone enrolls with, none is the label of two hosts or
\* the id of another one, whatever renames and registrations follow each other
\* (PATCH /hosts, POST /register).  The enrollment compares the display names
\* of phones with nothing, so that they may repeat a label.
NamesDistinct ==
    \A i, j \in Id : i # j /\ Here(i) /\ Here(j) /\ host[i] \in Name \ PhoneName =>
        host[i] # j /\ host[i] # host[j]

\* A folder assignment or a protection always names a host that is there: it
\* goes where the id goes and with the host (cascadeHostId, DELETE /hosts).
ConfigOwned == \A i \in configured : Here(i)

\* "History follows the host instead of being orphaned" (cascadeHostId): a
\* record under an id that no host has was left there by a deletion of the
\* host or reported without one, never by a new id.
TrailFollows == \A i \in trail : Here(i) \/ i \in left

IdentitySafety == CodeMintsOnce /\ NamesDistinct /\ ConfigOwned /\ TrailFollows

\* hosts.ts: "Pairing mints the device key bound to this same id, so
\* re-registration after a rename keeps working": a machine with a live device
\* key, whose client.toml carries the new label of the host its key is bound
\* to, may register.
RenamedMayRegister ==
    \A m \in Machine, i \in Name :
        host[i] = toml[m].name /\ MayAccess(toml[m].key, i)
            => MayAccess(toml[m].key, toml[m].name)
=============================================================================
