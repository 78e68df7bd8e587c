----------------------------- MODULE Enrollment -----------------------------
(***************************************************************************)
(* Mobile enrollment: the server's enrollments, registrations, web grants, *)
(* web sessions and live WebSockets (mobile-store.ts, routes/mobile.ts,    *)
(* ws.ts) and the companion app that exchanges a QR code, keeps what it    *)
(* was given and leaves again (CompanionRepository.kt,                     *)
(* SessionViewModel.kt, SessionCookieJar.kt).                              *)
(*                                                                         *)
(* An enrollment stands for its QR code and for the native token and the   *)
(* web grant its exchange mints.  A new enrollment also names the host it  *)
(* creates; a reconnect rotates the credentials of an earlier host.  One   *)
(* server: the app's comparisons of origins all succeed.                   *)
(***************************************************************************)
EXTENDS Naturals, FiniteSets

CONSTANTS
    Enr,        \* enrollments
    Session,    \* web sessions
    None,
    MaxFaults   \* bound: lost requests or answers, kills, cookies not removed

VARIABLES
    enr,      \* server: enrollment -> status, host, web admin
    token,    \* server: host -> the enrollment of its native token, or None
    revoked,  \* server: hosts whose registration is revoked
    grants,   \* server: live web grants
    sess,     \* server: session -> its grant, and whether live
    sockets,  \* server memory: sessions with an open WebSocket
    vault,    \* app: the stored credentials, or None
    binding,  \* app: the enrollment they are bound to, and its stage
    reg,      \* app: host of the stored registration, or None
    cookie,   \* app: session whose cookie the WebView holds, or None
    marker,   \* app: a cookie removal is unconfirmed
    flow,     \* app: what the session view model is doing
    check,    \* app: a check-in under way: registration and token it read
    faults    \* faults so far

server == <<enr, token, revoked, grants, sess, sockets>>
stores == <<vault, binding, reg, cookie, marker>>
vars == <<enr, token, revoked, grants, sess, sockets,
          vault, binding, reg, cookie, marker, flow, check, faults>>

NoRow == [st |-> "none", host |-> None, admin |-> FALSE]
NoSession == [grant |-> None, st |-> "none"]
Idle == [at |-> "idle", enr |-> None, sess |-> None]

TypeOK ==
    /\ enr \in [Enr -> [st : {"none", "pending", "used", "revoked", "expired"},
                        host : Enr \cup {None}, admin : BOOLEAN]]
    /\ token \in [Enr -> Enr \cup {None}]
    /\ revoked \subseteq Enr
    /\ grants \subseteq Enr
    /\ sess \in [Session -> [grant : Enr \cup {None}, st : {"none", "live", "revoked", "expired"}]]
    /\ sockets \subseteq Session
    /\ vault \in Enr \cup {None}
    /\ binding \in [enr : Enr \cup {None}, stage : {"none", "EXCHANGED", "REGISTERED"}]
    /\ reg \in Enr \cup {None}
    /\ cookie \in Session \cup {None}
    /\ marker \in BOOLEAN
    /\ flow \in [at : {"idle", "exchange", "me", "bootstrap", "leave", "revoke"},
                 enr : Enr \cup {None}, sess : Session \cup {None}]
    /\ check \in [host : Enr \cup {None}, tok : Enr \cup {None}]

Unbound == [enr |-> None, stage |-> "none"]
NoCheck == [host |-> None, tok |-> None]

Init ==
    /\ enr = [e \in Enr |-> NoRow]
    /\ token = [h \in Enr |-> None]
    /\ revoked = {}
    /\ grants = {}
    /\ sess = [s \in Session |-> NoSession]
    /\ sockets = {}
    /\ vault = None
    /\ binding = Unbound
    /\ reg = None
    /\ cookie = None
    /\ marker = FALSE
    /\ flow = Idle
    /\ check = NoCheck
    /\ faults = 0

Fault == faults < MaxFaults /\ faults' = faults + 1
NoFault == UNCHANGED faults

Registered(h) == token[h] # None /\ h \notin revoked
GrantsOf(h) == {g \in grants : enr[g].host = h}
SessionsOf(h) == {s \in Session : sess[s].grant # None /\ enr[sess[s].grant].host = h}

\* revoked_at of the sessions of h that have none.
SessionsRevoked(h) ==
    [s \in Session |-> IF s \in SessionsOf(h) /\ sess[s].st # "none"
                       THEN [sess[s] EXCEPT !.st = "revoked"] ELSE sess[s]]

\* resolveLiveSession: the session, its registration and its grant.
Live(s) ==
    /\ sess[s].st = "live"
    /\ sess[s].grant \in grants
    /\ Registered(enr[sess[s].grant].host)

-----------------------------------------------------------------------------
(* The admin                                                               *)

\* createMobileEnrollment: the other pending new enrollments are revoked.
CreateEnrollment(e, admin) ==
    /\ enr[e].st = "none"
    /\ enr' = [x \in Enr |->
                  IF x = e THEN [st |-> "pending", host |-> e, admin |-> admin]
                  ELSE IF enr[x].st = "pending" /\ enr[x].host = x
                       THEN [enr[x] EXCEPT !.st = "revoked"] ELSE enr[x]]
    /\ UNCHANGED <<token, revoked, grants, sess, sockets, stores, flow, check, faults>>

\* Mutant of RestoredAuthority: a reconnect always asks for admin.
RestoredAuthorityAdmin(h) == TRUE

\* resolveReconnectAuthority: that of the one live grant.
RestoredAuthority(h) == \E g \in GrantsOf(h) : enr[g].admin

\* createReconnectEnrollment, for a live registration with one live grant.
CreateReconnect(e, h) ==
    /\ enr[e].st = "none"
    /\ Registered(h)
    /\ Cardinality(GrantsOf(h)) = 1
    /\ enr' = [x \in Enr |->
                  IF x = e THEN [st |-> "pending", host |-> h, admin |-> RestoredAuthority(h)]
                  ELSE IF enr[x].st = "pending" /\ enr[x].host = h /\ x # h
                       THEN [enr[x] EXCEPT !.st = "revoked"] ELSE enr[x]]
    /\ UNCHANGED <<token, revoked, grants, sess, sockets, stores, flow, check, faults>>

\* ENROLLMENT_TTL_MS passes; the status read is "expired".
Expire(e) ==
    /\ enr[e].st = "pending"
    /\ enr' = [enr EXCEPT ![e].st = "expired"]
    /\ UNCHANGED <<token, revoked, grants, sess, sockets, stores, flow, check, faults>>

\* Mutant of EnrollmentsRevoked: a reconnect code on show is forgotten.
EnrollmentsRevokedUsed(h) ==
    [x \in Enr |-> IF enr[x].host = h /\ enr[x].st = "used"
                   THEN [enr[x] EXCEPT !.st = "revoked"] ELSE enr[x]]

\* Every enrollment of the host, one that waits for a scan too.
EnrollmentsRevoked(h) ==
    [x \in Enr |-> IF enr[x].host = h THEN [enr[x] EXCEPT !.st = "revoked"] ELSE enr[x]]

\* revokeMobileRegistration, then the sockets of the registration.
Revoked(h) ==
    /\ revoked' = revoked \cup {h}
    /\ grants' = grants \ GrantsOf(h)
    /\ sess' = SessionsRevoked(h)
    /\ enr' = EnrollmentsRevoked(h)
    /\ sockets' = sockets \ SessionsOf(h)
    /\ UNCHANGED token

\* POST /mobile/registrations/:hostId/revoke, from the desktop.
Revoke(h) ==
    /\ Registered(h)
    /\ Revoked(h)
    /\ UNCHANGED <<stores, flow, check, faults>>

-----------------------------------------------------------------------------
(* Exchange of a code                                                      *)

\* Mutant of Swept: the sockets of a rotated registration stay open.
SweptNot(h) == sockets

\* The sockets the route closes after a rotation has committed.
Swept(h) == sockets \ SessionsOf(h)

\* exchangeMobileEnrollment of a pending code, one transaction.
Exchanged(e) ==
    LET h == enr[e].host
    IN  /\ enr' = [enr EXCEPT ![e].st = "used"]
        /\ token' = [token EXCEPT ![h] = e]
        /\ grants' = (grants \ GrantsOf(h)) \cup {e}
        /\ sess' = SessionsRevoked(h)
        /\ sockets' = Swept(h)
        /\ UNCHANGED revoked

\* A reconnect code of a host that is no longer registered is refused.
Exchangeable(e) ==
    /\ enr[e].st = "pending"
    /\ enr[e].host # e => Registered(enr[e].host)

At(step, e) == [at |-> step, enr |-> e, sess |-> None]

\* Mutant of Wiped: an unconfirmed removal is not looked at.
WipedWithoutMarker == reg # None \/ binding # Unbound

\* clearLocalAuth knows an origin: it has something to clear.
Wiped == reg # None \/ binding # Unbound \/ marker

\* The vault and the stores are cleared, the marker with them.
StoresCleared == vault' = None /\ binding' = Unbound /\ reg' = None

\* The cookie's removal is not confirmed and nothing else is cleared, or the
\* app is killed before the stores are.
WipeStops ==
    /\ Fault
    /\ \/ cookie' \in {cookie, None} /\ UNCHANGED vault
       \/ cookie' = None /\ vault' = None

\* resumeEnrollment: from the stage that was reached.
Resume == flow' = IF binding.stage = "EXCHANGED" THEN At("me", None) ELSE At("bootstrap", None)

\* enroll: the code whose exchange is stored resumes; any other one first
\* clears what is there, and goes no further when a cookie stays.
Confirm(e) ==
    /\ flow = Idle
    /\ enr[e].st # "none"
    /\ \/ /\ binding.enr = e /\ vault # None
          /\ Resume
          /\ UNCHANGED <<stores, faults>>
       \/ /\ ~(binding.enr = e /\ vault # None)
          /\ Wiped
          /\ StoresCleared /\ cookie' = None /\ marker' = FALSE
          /\ flow' = At("exchange", e)
          /\ NoFault
       \/ /\ ~(binding.enr = e /\ vault # None)
          /\ Wiped
          /\ WipeStops
          /\ UNCHANGED <<binding, reg, marker, flow>>
       \/ /\ ~(binding.enr = e /\ vault # None)
          /\ ~Wiped
          /\ flow' = At("exchange", e)
          /\ UNCHANGED <<stores, faults>>
    /\ UNCHANGED <<server, check>>

\* The code is exchanged; credentials, then the binding, are stored.
Exchange ==
    /\ flow.at = "exchange"
    /\ Exchangeable(flow.enr)
    /\ Exchanged(flow.enr)
    /\ vault' = flow.enr
    /\ binding' = [enr |-> flow.enr, stage |-> "EXCHANGED"]
    /\ flow' = At("me", None)
    /\ UNCHANGED <<reg, cookie, marker, check, faults>>

\* The answer is lost or cannot be stored, or the app is killed before the
\* binding is written.
ExchangeLost ==
    /\ flow.at = "exchange"
    /\ Fault
    /\ Exchangeable(flow.enr)
    /\ Exchanged(flow.enr)
    /\ vault' \in {vault, flow.enr}
    /\ flow' = Idle
    /\ check' \in {check, NoCheck}
    /\ UNCHANGED <<binding, reg, cookie, marker>>

\* A step of the flow fails: refused, or the server is not reached.
Fails(step) ==
    /\ flow.at = step
    /\ flow' = Idle
    /\ UNCHANGED <<server, stores, check>>

ExchangeRefused ==
    /\ Fails("exchange")
    /\ ~Exchangeable(flow.enr)
    /\ NoFault

\* The host of the native token in the vault, None when it is not valid.
TokenHost ==
    IF \E h \in Enr : Registered(h) /\ token[h] = vault
    THEN CHOOSE h \in Enr : Registered(h) /\ token[h] = vault
    ELSE None

\* GET /mobile/me: the registration is saved, then the stage.
Me ==
    /\ flow.at = "me"
    /\ vault # None /\ TokenHost # None
    /\ reg' = TokenHost
    /\ binding' = [binding EXCEPT !.stage = "REGISTERED"]
    /\ flow' = At("bootstrap", None)
    /\ UNCHANGED <<server, vault, cookie, marker, check, faults>>

MeRefused ==
    /\ Fails("me")
    /\ vault = None \/ TokenHost = None
    /\ NoFault

\* bootstrapMobileWebSession: a live grant with admin, a fresh session.
Bootstrappable == vault \in grants /\ enr[vault].admin /\ Registered(enr[vault].host)

Bootstrapped(s) ==
    /\ sess[s].st = "none"
    /\ sess' = [sess EXCEPT ![s] = [grant |-> vault, st |-> "live"]]
    /\ UNCHANGED <<enr, token, revoked, grants, sockets>>

\* finishRegisteredEnrollment and reconnectWebSession.
Bootstrap(s) ==
    /\ flow.at = "bootstrap"
    /\ reg # None /\ Bootstrappable
    /\ Bootstrapped(s)
    /\ cookie' = s
    /\ flow' = Idle
    /\ UNCHANGED <<vault, binding, reg, marker, check, faults>>

\* The answer is lost, or the platform does not take the cookie.
BootstrapLost(s) ==
    /\ flow.at = "bootstrap"
    /\ Fault
    /\ reg # None /\ Bootstrappable
    /\ Bootstrapped(s)
    /\ flow' = Idle
    /\ UNCHANGED <<stores, check>>

BootstrapRefused ==
    /\ Fails("bootstrap")
    /\ ~(reg # None /\ Bootstrappable)
    /\ NoFault

\* resumePendingEnrollment, retryEnrollment and reconnectWebSession.
Continue ==
    /\ flow = Idle
    /\ vault # None
    /\ \/ binding # Unbound /\ Resume
       \/ reg # None /\ flow' = At("bootstrap", None)
    /\ UNCHANGED <<server, stores, check, faults>>

-----------------------------------------------------------------------------
(* Check-in, the web session, and leaving                                  *)

\* checkIn reads the registration and the token, and posts.
CheckIn ==
    /\ check = NoCheck
    /\ reg # None /\ vault # None
    /\ check' = [host |-> reg, tok |-> vault]
    /\ UNCHANGED <<server, stores, flow, faults>>

\* updateCheckIn saves the registration that was read.
CheckInDone ==
    /\ check # NoCheck
    /\ IF \E h \in Enr : Registered(h) /\ token[h] = check.tok
       THEN reg' = check.host ELSE UNCHANGED reg
    /\ check' = NoCheck
    /\ UNCHANGED <<server, vault, binding, cookie, marker, flow, faults>>

\* The WebView connects with its cookie.
OpenSocket ==
    /\ cookie # None
    /\ Live(cookie)
    /\ sockets' = sockets \cup {cookie}
    /\ UNCHANGED <<enr, token, revoked, grants, sess, stores, flow, check, faults>>

\* Logout in the WebView: this session and its sockets.
Logout ==
    /\ cookie # None
    /\ Live(cookie)
    /\ sess' = [sess EXCEPT ![cookie].st = "revoked"]
    /\ sockets' = sockets \ {cookie}
    /\ cookie' = None
    /\ UNCHANGED <<enr, token, revoked, grants, vault, binding, reg, marker, flow, check, faults>>

\* SESSION_TTL_MS passes.
SessionExpires(s) ==
    /\ sess[s].st = "live"
    /\ sess' = [sess EXCEPT ![s].st = "expired"]
    /\ UNCHANGED <<enr, token, revoked, grants, sockets, stores, flow, check, faults>>

\* The connection's own timer.
SocketExpires(s) ==
    /\ s \in sockets
    /\ sess[s].st = "expired"
    /\ sockets' = sockets \ {s}
    /\ UNCHANGED <<enr, token, revoked, grants, sess, stores, flow, check, faults>>

\* The client goes, or the network fails it (unregisterConnection).
SocketDrops(s) ==
    /\ s \in sockets
    /\ sockets' = sockets \ {s}
    /\ UNCHANGED <<enr, token, revoked, grants, sess, stores, flow, check, faults>>

ServerRestarts ==
    /\ Fault
    /\ sockets' = {}
    /\ UNCHANGED <<enr, token, revoked, grants, sess, stores, flow, check>>

\* Local teardown of disconnect; a cookie that stays leaves the marker.
Teardown ==
    /\ StoresCleared
    /\ \/ /\ cookie' = IF reg # None \/ binding # Unbound THEN None ELSE cookie
          /\ marker' = FALSE
          /\ NoFault
       \/ /\ reg # None \/ binding # Unbound
          /\ Fault
          /\ cookie' \in {cookie, None}
          /\ marker' = TRUE
    /\ flow' = Idle

\* disconnect: without a registration or a grant it is local only.
Leave ==
    /\ flow = Idle
    /\ reg # None /\ vault # None
    /\ flow' = [at |-> "leave", enr |-> reg, sess |-> None]
    /\ UNCHANGED <<server, stores, check, faults>>

LeaveLocally ==
    /\ flow = Idle
    /\ reg = None \/ vault = None
    /\ reg # None \/ binding # Unbound
    /\ Teardown
    /\ UNCHANGED <<server, check>>

\* A fresh session, for the revocation only.
LeaveBootstrap(s) ==
    /\ flow.at = "leave"
    /\ vault # None /\ Bootstrappable
    /\ Bootstrapped(s)
    /\ flow' = [flow EXCEPT !.at = "revoke", !.sess = s]
    /\ UNCHANGED <<stores, check, faults>>

\* The revocation of the registration that disconnect read at its start.
LeaveRevoke ==
    /\ flow.at = "revoke"
    /\ Live(flow.sess)
    /\ IF Registered(flow.enr) THEN Revoked(flow.enr) ELSE UNCHANGED server
    /\ Teardown
    /\ UNCHANGED check

\* The server refuses or is not reached: the teardown all the same.
LeaveAnyway ==
    /\ \/ flow.at = "leave"
       \/ flow.at = "revoke"
    /\ Teardown
    /\ UNCHANGED <<server, check>>

\* retryLocalCleanup: cookie, vault and stores.
RetryCleanup ==
    /\ flow = Idle
    /\ marker
    /\ \/ StoresCleared /\ cookie' = None /\ marker' = FALSE /\ NoFault
       \/ WipeStops /\ UNCHANGED <<binding, reg, marker>>
    /\ UNCHANGED <<server, flow, check>>

\* The app is killed, between the two writes after the identity too.
Kill ==
    /\ Fault
    /\ flow # Idle \/ check # NoCheck
    /\ \/ flow.at = "me" /\ vault # None /\ TokenHost # None /\ reg' = TokenHost
       \/ UNCHANGED reg
    /\ flow' = Idle
    /\ check' = NoCheck
    /\ UNCHANGED <<server, vault, binding, cookie, marker>>

\* The app is killed in the teardown: the cookie, the vault and the stores
\* are cleared one after the other, and the marker is written last.
KillTeardown ==
    /\ flow.at \in {"leave", "revoke"}
    /\ Fault
    /\ cookie' \in {cookie, None}
    /\ vault' = None
    /\ \/ UNCHANGED <<binding, reg, marker>>
       \/ binding' = Unbound /\ reg' = None /\ marker' = FALSE
    /\ flow' = Idle
    /\ check' = NoCheck
    /\ UNCHANGED server

Phone ==
    \/ \E e \in Enr : Confirm(e)
    \/ Exchange \/ ExchangeLost \/ ExchangeRefused
    \/ Me \/ MeRefused
    \/ \E s \in Session : Bootstrap(s) \/ BootstrapLost(s) \/ LeaveBootstrap(s)
    \/ BootstrapRefused
    \/ Continue \/ CheckIn \/ CheckInDone
    \/ OpenSocket \/ Logout
    \/ Leave \/ LeaveLocally \/ LeaveRevoke \/ LeaveAnyway \/ RetryCleanup
    \/ Kill \/ KillTeardown

Next ==
    \/ \E e \in Enr :
        \/ \E admin \in BOOLEAN : CreateEnrollment(e, admin)
        \/ \E h \in Enr : CreateReconnect(e, h)
        \/ Expire(e) \/ Revoke(e)
    \/ \E s \in Session : SessionExpires(s) \/ SocketExpires(s) \/ SocketDrops(s)
    \/ ServerRestarts
    \/ Phone

Spec == Init /\ [][Next]_vars

-----------------------------------------------------------------------------
(* Correctness                                                             *)

\* "Exactly one live grant is the invariant the enrollment exchange
\* maintains" (resolveReconnectAuthority): a registered host has one live
\* grant, minted with its token, and with the authority it was paired with,
\* however often it was reconnected.
OneLiveGrant ==
    \A h \in Enr : Registered(h) =>
        /\ GrantsOf(h) = {token[h]}
        /\ enr[token[h]].admin = enr[h].admin

\* No socket outlives the revocation, the rotation or the logout of what it
\* was opened with (disconnectMobileRegistration, disconnectWebSession).
SocketsUnrevoked ==
    \A s \in sockets :
        /\ sess[s].st # "revoked"
        /\ sess[s].grant \in grants
        /\ Registered(enr[sess[s].grant].host)

\* "a revoked device cannot be revived by a QR shown earlier"
\* (revokeMobileRegistration): nothing of a revoked host is live or pending.
RevokedForGood ==
    \A h \in revoked :
        /\ GrantsOf(h) = {}
        /\ \A s \in SessionsOf(h) : sess[s].st # "live"
        /\ \A e \in Enr : enr[e].host = h => enr[e].st \notin {"pending", "used"}

\* "an old cleanup must never erase that newer enrollment"
\* (retryLocalCleanup): while a cleanup can be retried nothing newer is
\* stored, the same server included.
CleanupSparesPairing == marker => vault = None /\ binding = Unbound
=============================================================================
