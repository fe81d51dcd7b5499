-------------------------------- MODULE Link --------------------------------
(***************************************************************************)
(* BrightLink sessions and credential delivery.  Each connection of the    *)
(* bridge is served by a thread with a ConnectionHandler of its own: the   *)
(* session, the replay counter and the failure limiter belong to one       *)
(* thread.  The threads share the attestation policy, the credential store *)
(* and two clocks with each other and with the settings dialog, so         *)
(* LINK_DELIVER is cut into one step per access to something shared:       *)
(*                                                                         *)
(*   LinkDeliver   session present, wall clock against its expiry          *)
(*   CheckPeer     first read of the policy (attestation mode)             *)
(*   OpenMessage   fields, counter, AES-GCM, payload: private to the thread*)
(*   RecordDeliverFailure   the limiter, after any refusal above           *)
(*   ReadCeiling   second read of the policy (credential lifetime)         *)
(*   Accept        wall clock again, counter consumed                      *)
(*   Insert        the entry put into the shared store under its lock      *)
(*                                                                         *)
(* A request answered with an error before anything is assigned (no        *)
(* session, expired session, every error of LINK_REGISTER, the commands    *)
(* that only read) leaves every variable as it is: a stuttering step.      *)
(***************************************************************************)
EXTENDS RateLimiter, FiniteSets

CONSTANTS
    Conn,           \* connection slots, each one thread
    Nobody,         \* stands for no connection
    Context,        \* credential contexts, the keys of the store
    Absent,         \* a payload without a context of its own
    MaxTtl,         \* MAX_TTL_SECONDS
    MaxAhead,       \* the most issued_at_unix may be ahead of the clock
    DefaultTtl,     \* lifetime of a credential that asks for none
    MinCeiling, MaxCeiling, DefaultCeiling,
    ReplayWindow    \* how far a counter may jump ahead

\* What clients and the user may ask for, and the bounds of the model.
CONSTANTS
    Valid,          \* outcomes of attesting a peer's package signature
    Counter,        \* counters on the wire
    Inner,          \* contexts inside payloads
    SessionTtl,     \* ttlSeconds of registrations
    IssuedAt,       \* issue times of registrations, as issued_at_unix (see RegisterTime)
    CredentialTtl,  \* ttl fields of payloads
    CeilingChoice,  \* values of the settings dialog's spin button
    ClockStep,      \* corrections of the wall clock
    MaxSessions, Horizon, MaxSteps \* registrations, seconds, clock corrections

ASSUME LinkAssumption ==
    /\ Context # {} /\ Absent \notin Context
    /\ Nobody \notin Conn
    /\ {MaxTtl, MaxAhead, DefaultTtl, ReplayWindow} \subseteq Nat
    /\ {MinCeiling, MaxCeiling, DefaultCeiling} \subseteq Nat
    /\ 0 < MinCeiling /\ MinCeiling <= DefaultCeiling
    /\ DefaultCeiling <= MaxCeiling
    /\ 0 < DefaultTtl
    /\ Valid \subseteq BOOLEAN
    /\ Counter \subseteq Nat
    /\ Inner \subseteq Context \cup {Absent}
    /\ {SessionTtl, IssuedAt, CredentialTtl, ClockStep} \subseteq SUBSET Int
    /\ CeilingChoice \subseteq Nat \ {0}
    /\ {MaxSessions, Horizon, MaxSteps} \subseteq Nat

VARIABLES
    wall,           \* SystemTime, in seconds: may be corrected
    mono,           \* Instant, in seconds: only moves forward
    steps,          \* corrections of the wall clock so far
    policy,         \* POLICY: attestation mode and credential ceiling
    saving,         \* ceiling the dialog has still to write, 0 when none
    signature_valid,\* connections whose PeerInfo.signature_valid is true
    session,        \* ConnectionHandler.session
    limiter,        \* ConnectionHandler.deliver_limiter
    pc,             \* where the thread of a connection is
    req,            \* the LINK_DELIVER it handles
    ttl,            \* resolved_ttl of that delivery
    expires_at,     \* expires_at of that delivery
    store,          \* EphemeralStore.inner.entries
    sessions,       \* sessions registered so far: their identifiers are 1..sessions
    accepted,       \* history: <<key, counter>> of every message accepted
    acceptances     \* history: how many times one was

clocks == <<wall, mono, steps>>
settings == <<policy, saving>>
delivery == <<req, ttl, expires_at>>
vars == <<clocks, settings, signature_valid, session, limiter, pc, delivery,
          store, sessions, accepted, acceptances>>
-----------------------------------------------------------------------------
\* Mutations of Clamp: one of the two bounds forgotten.
ClampAbove(x, low, high) == IF x > high THEN high ELSE x
ClampBelow(x, low, high) == IF x < low THEN low ELSE x

Clamp(x, low, high) == IF x < low THEN low ELSE IF x > high THEN high ELSE x

\* Session identifiers are fresh random bytes; 0 is the identifier of none.
NoSession == [id |-> 0, bridge_issued_at |-> 0, ttl_seconds |-> 0,
              last_inbound_counter |-> 0]

Session == [id : Nat, bridge_issued_at : Int, ttl_seconds : Nat,
            last_inbound_counter : Nat]

ExpiresAtUnix(s) == s.bridge_issued_at + s.ttl_seconds

\* A delivery as the handler sees it.  key is the session whose key sealed the
\* ciphertext under exactly this counter, type and context (0: none did, the
\* message is forged, altered or damaged).  content is what the fields and the
\* plaintext amount to: a field missing or not base64, a plaintext that is not
\* JSON, a payload.
Request == [content : {"incomplete", "undecodable", "payload"},
            counter : Counter \cup {0}, key : Nat, wire : Context,
            inner : Context \cup {Absent}, ttl : Int]

NoRequest == [content |-> "incomplete", counter |-> 0, key |-> 0,
              wire |-> CHOOSE x \in Context : TRUE, inner |-> Absent, ttl |-> 0]

\* Requests that can be on the wire: one that is incomplete; bytes no session
\* key sealed; a message some session sealed, the receiving one or another.
Requests ==
    {NoRequest}
    \cup [content : {"payload"}, counter : Counter, key : {0},
          wire : {NoRequest.wire}, inner : {Absent}, ttl : {0}]
    \cup [content : {"undecodable", "payload"}, counter : Counter,
          key : 1..sessions, wire : Context, inner : Inner, ttl : CredentialTtl]

\* decode_payload: a context inside the plaintext wins over the wire's.
PayloadContext(r) == IF r.inner = Absent THEN r.wire ELSE r.inner

\* An entry names the session that delivered it and the message it came in.
Entry == [session_id : Nat, key : Nat, counter : Nat, expires_at : Int]
NoEntry == [session_id |-> 0, key |-> 0, counter |-> 0, expires_at |-> 0]

Modes == {"LogOnly", "Enforce"}
Policy == [mode : Modes, ceiling : Nat]

Steps == {"closed", "idle", "attest", "open", "failed", "price", "stamp",
          "insert"}

TypeOK ==
    /\ wall \in Int /\ mono \in Nat /\ steps \in Nat
    /\ policy \in Policy /\ saving \in Nat
    /\ signature_valid \subseteq Conn
    /\ session \in [Conn -> Session]
    /\ limiter \in [Conn -> Limiter]
    /\ pc \in [Conn -> Steps]
    /\ req \in [Conn -> Request]
    /\ ttl \in [Conn -> Int]
    /\ expires_at \in [Conn -> Int]
    /\ store \in [Context -> Entry]
    /\ sessions \in Nat
    /\ accepted \subseteq Nat \X Nat /\ acceptances \in Nat

Init ==
    /\ wall = 0 /\ mono = 0 /\ steps = 0
    /\ policy = [mode |-> "LogOnly", ceiling |-> DefaultCeiling]
    /\ saving = 0
    /\ signature_valid = {}
    /\ session = [c \in Conn |-> NoSession]
    /\ limiter = [c \in Conn |-> Reset(0)]
    /\ pc = [c \in Conn |-> "closed"]
    /\ req = [c \in Conn |-> NoRequest]
    /\ ttl = [c \in Conn |-> 0]
    /\ expires_at = [c \in Conn |-> 0]
    /\ store = [x \in Context |-> NoEntry]
    /\ sessions = 0
    /\ accepted = {} /\ acceptances = 0
-----------------------------------------------------------------------------
Goto(c, step) == pc' = [pc EXCEPT ![c] = step]

\* A connection is accepted: ConnectionHandler::new for an attested peer.
Connect(c, valid) ==
    /\ pc[c] = "closed"
    /\ Goto(c, "idle")
    /\ signature_valid' = IF valid THEN signature_valid \cup {c}
                          ELSE signature_valid \ {c}
    /\ limiter' = [limiter EXCEPT ![c] = Reset(mono)]
    /\ UNCHANGED <<clocks, settings, session, delivery, store, sessions, accepted,
                   acceptances>>

\* The peer hangs up, or the answer to the last request cannot be written:
\* the handler is dropped and its session wiped.
Disconnect(c) ==
    /\ pc[c] = "idle"
    /\ Goto(c, "closed")
    /\ session' = [session EXCEPT ![c] = NoSession]
    /\ UNCHANGED <<clocks, settings, signature_valid, limiter, delivery, store,
                   sessions, accepted, acceptances>>

\* Mutation: the failures held against the old session are not forgotten.
LinkRegisterKeepsLimiter(c, issued_at, ttl_seconds) ==
    /\ pc[c] = "idle"
    /\ sessions < MaxSessions
    /\ issued_at - wall <= MaxAhead
    /\ sessions' = sessions + 1
    /\ session' = [session EXCEPT ![c] =
                      [id |-> sessions', bridge_issued_at |-> wall,
                       ttl_seconds |-> Clamp(ttl_seconds, 0, MaxTtl),
                       last_inbound_counter |-> 0]]
    /\ UNCHANGED <<clocks, settings, signature_valid, limiter, pc, delivery, store,
                   accepted, acceptances>>

\* LINK_REGISTER once the envelope is open: the old session is wiped, the
\* limiter reset and a session with fresh identifier and key installed.
LinkRegister(c, issued_at, ttl_seconds) ==
    /\ pc[c] = "idle"
    /\ sessions < MaxSessions
    /\ issued_at - wall <= MaxAhead
    /\ sessions' = sessions + 1
    /\ session' = [session EXCEPT ![c] =
                      [id |-> sessions', bridge_issued_at |-> wall,
                       ttl_seconds |-> Clamp(ttl_seconds, 0, MaxTtl),
                       last_inbound_counter |-> 0]]
    /\ limiter' = [limiter EXCEPT ![c] = Reset(mono)]
    /\ UNCHANGED <<clocks, settings, signature_valid, pc, delivery, store, accepted,
                   acceptances>>

\* LINK_DELIVER passes its first two checks: a session, and not expired.
LinkDeliver(c, r) ==
    /\ pc[c] = "idle"
    /\ session[c].id # 0
    /\ wall <= ExpiresAtUnix(session[c])
    /\ req' = [req EXCEPT ![c] = r]
    /\ Goto(c, "attest")
    /\ UNCHANGED <<clocks, settings, signature_valid, session, limiter, ttl,
                   expires_at, store, sessions, accepted, acceptances>>

\* Mutation: attestation is read but not enforced.
CheckPeerLogOnly(c) ==
    /\ pc[c] = "attest"
    /\ Goto(c, "open")
    /\ UNCHANGED <<clocks, settings, signature_valid, session, limiter,
                   delivery, store, sessions, accepted, acceptances>>

\* Enforce mode refuses a peer whose package signature did not verify.
CheckPeer(c) ==
    /\ pc[c] = "attest"
    /\ Goto(c, IF policy.mode = "Enforce" /\ c \notin signature_valid
               THEN "failed" ELSE "open")
    /\ UNCHANGED <<clocks, settings, signature_valid, session, limiter,
                   delivery, store, sessions, accepted, acceptances>>

\* Mutation: the last counter itself is let through.
InReplayWindowInclusive(s, n) ==
    /\ n >= s.last_inbound_counter
    /\ n <= s.last_inbound_counter + ReplayWindow

\* The counter is new and no further ahead than the replay window.
InReplayWindow(s, n) ==
    /\ n > s.last_inbound_counter
    /\ n <= s.last_inbound_counter + ReplayWindow

\* Mutation: a message sealed under another session is opened.
OpensAnyKey(s, r) ==
    r.content = "payload" /\ InReplayWindow(s, r.counter)

\* Every check from the fields of the request to its decoded payload.
Opens(s, r) ==
    /\ r.content = "payload"
    /\ InReplayWindow(s, r.counter)
    /\ r.key = s.id

OpenMessage(c) ==
    /\ pc[c] = "open"
    /\ Goto(c, IF Opens(session[c], req[c]) THEN "price" ELSE "failed")
    /\ UNCHANGED <<clocks, settings, signature_valid, session, limiter,
                   delivery, store, sessions, accepted, acceptances>>

\* record_deliver_failure, then the error response: the request is over.
RecordDeliverFailure(c) ==
    /\ pc[c] = "failed"
    /\ Goto(c, "idle")
    /\ limiter' = [limiter EXCEPT ![c] = AfterFailure(@, mono)]
    /\ session' = [session EXCEPT ![c] =
                      IF Trips(limiter[c], mono) THEN NoSession ELSE @]
    /\ req' = [req EXCEPT ![c] = NoRequest]
    /\ UNCHANGED <<clocks, settings, signature_valid, ttl, expires_at, store,
                   sessions, accepted, acceptances>>

\* The second read of the policy: the lifetime the credential gets.
RequestedTtl(r) == IF r.ttl > 0 THEN r.ttl ELSE DefaultTtl

\* Mutation: the larger of the two instead of the smaller.
ResolvedTtlMax(r, ceiling) ==
    IF RequestedTtl(r) > ceiling THEN RequestedTtl(r) ELSE ceiling

ResolvedTtl(r, ceiling) ==
    IF RequestedTtl(r) < ceiling THEN RequestedTtl(r) ELSE ceiling

ReadCeiling(c) ==
    /\ pc[c] = "price"
    /\ ttl' = [ttl EXCEPT ![c] = ResolvedTtl(req[c], policy.ceiling)]
    /\ Goto(c, "stamp")
    /\ UNCHANGED <<clocks, settings, signature_valid, session, limiter, req,
                   expires_at, store, sessions, accepted, acceptances>>

\* The credential's deadline is fixed and its counter consumed.
Accept(c) ==
    /\ pc[c] = "stamp"
    /\ expires_at' = [expires_at EXCEPT ![c] = wall + ttl[c]]
    /\ session' = [session EXCEPT ![c].last_inbound_counter = req[c].counter]
    /\ accepted' = accepted \cup {<<req[c].key, req[c].counter>>}
    /\ acceptances' = acceptances + 1
    /\ Goto(c, "insert")
    /\ UNCHANGED <<clocks, settings, signature_valid, limiter, req, ttl, store,
                   sessions>>

\* EphemeralStore::insert: whatever the context held before is replaced.
Insert(c) ==
    /\ pc[c] = "insert"
    /\ store' = [store EXCEPT ![PayloadContext(req[c])] =
                    [session_id |-> session[c].id, key |-> req[c].key,
                     counter |-> req[c].counter, expires_at |-> expires_at[c]]]
    /\ Goto(c, "idle")
    /\ req' = [req EXCEPT ![c] = NoRequest]
    /\ ttl' = [ttl EXCEPT ![c] = 0]
    /\ expires_at' = [expires_at EXCEPT ![c] = 0]
    /\ UNCHANGED <<clocks, settings, signature_valid, session, limiter,
                   sessions, accepted, acceptances>>
-----------------------------------------------------------------------------
\* "Save" in the settings dialog writes the policy twice, mode first.
SetPeerAttestationMode(mode, seconds) ==
    /\ saving = 0
    /\ policy' = [policy EXCEPT !.mode = mode]
    /\ saving' = seconds
    /\ UNCHANGED <<clocks, signature_valid, session, limiter, pc, delivery,
                   store, sessions, accepted, acceptances>>

SetTtlCeiling ==
    /\ saving # 0
    /\ policy' = [policy EXCEPT !.ceiling = Clamp(saving, MinCeiling, MaxCeiling)]
    /\ saving' = 0
    /\ UNCHANGED <<clocks, signature_valid, session, limiter, pc, delivery,
                   store, sessions, accepted, acceptances>>

\* "Clear All" in the window or the tray, on the thread of the dialog.
RemoveAll ==
    /\ saving = 0
    /\ store' = [x \in Context |-> NoEntry]
    /\ UNCHANGED <<clocks, settings, signature_valid, session, limiter, pc,
                   delivery, sessions, accepted, acceptances>>

\* A second passes on both clocks.
Tick ==
    /\ mono < Horizon
    /\ mono' = mono + 1
    /\ wall' = wall + 1
    /\ UNCHANGED <<steps, settings, signature_valid, session, limiter, pc,
                   delivery, store, sessions, accepted, acceptances>>

\* The wall clock is corrected by hand or by a time daemon.
CorrectClock(d) ==
    /\ steps < MaxSteps
    /\ steps' = steps + 1
    /\ wall' = wall + d
    /\ UNCHANGED <<mono, settings, signature_valid, session, limiter, pc,
                   delivery, store, sessions, accepted, acceptances>>

Handler(c) ==
    \/ \E valid \in Valid : Connect(c, valid)
    \/ Disconnect(c)
    \/ \E issued_at \in IssuedAt, s \in SessionTtl : LinkRegister(c, issued_at, s)
    \/ \E r \in Requests : LinkDeliver(c, r)
    \/ CheckPeer(c)
    \/ OpenMessage(c)
    \/ RecordDeliverFailure(c)
    \/ ReadCeiling(c)
    \/ Accept(c)
    \/ Insert(c)

UserInterface ==
    \/ \E mode \in Modes, seconds \in CeilingChoice :
           SetPeerAttestationMode(mode, seconds)
    \/ SetTtlCeiling
    \/ RemoveAll

Environment ==
    \/ Tick
    \/ \E d \in ClockStep : CorrectClock(d)

Next == (\E c \in Conn : Handler(c)) \/ UserInterface \/ Environment

Spec == Init /\ [][Next]_vars
-----------------------------------------------------------------------------
\* The connection whose handler holds session s.
Owner(s) ==
    IF \E c \in Conn : session[c].id = s
    THEN CHOOSE c \in Conn : session[c].id = s
    ELSE Nobody

Channel == INSTANCE SealedChannel WITH
              opened <- sessions,
              owner <- [s \in 1..sessions |-> Owner(s)],
              received <- accepted,
              receptions <- acceptances

\* Replay protection.  The handlers implement the sealed channel: a message
\* sealed under a session key is accepted at most once, in counter order, only
\* on the connection that registered the session and only while the session
\* lives: through failures, lockouts, registrations anew and reconnections.
ReplayProtected == Channel!Spec

\* What follows for one message: there are as many acceptances as messages
\* that were accepted, on whatever connection they were played again.
AcceptedOnce == IsFiniteSet(accepted) /\ acceptances = Cardinality(accepted)

\* No handler keeps a session through a full window of failures: whenever a
\* session lives, its limiter stands below the threshold (handler.rs,
\* record_deliver_failure; a registration resets the limiter).
LockoutArmed ==
    \A c \in Conn : session[c].id # 0 => limiter[c].count < Threshold

\* A stored credential was sealed under the session that the store names as
\* its origin, that session was registered, and its message was accepted.
StoreAuthentic ==
    \A x \in Context : store[x] # NoEntry =>
        /\ store[x].key = store[x].session_id
        /\ store[x].session_id \in 1..sessions
        /\ <<store[x].key, store[x].counter>> \in accepted
-----------------------------------------------------------------------------
\* What the two invariants above and the refinement rest on, made inductive.

\* Sessions are numbered as they are registered; no two handlers share one.
SessionsOwned ==
    /\ \A c \in Conn : session[c].id \in 0..sessions
    /\ \A c, d \in Conn : c # d /\ session[c].id = session[d].id => session[c].id = 0

\* The message a handler works on: its session is there from the first check
\* to the insertion, and what was opened stays acceptable until it is accepted.
MessageInHand ==
    \A c \in Conn :
        /\ pc[c] \notin {"closed", "idle"} => session[c].id # 0
        /\ pc[c] \in {"price", "stamp"} => Opens(session[c], req[c])
        /\ pc[c] = "insert" => /\ req[c].key = session[c].id
                               /\ <<req[c].key, req[c].counter>> \in accepted

\* The last counter of a session is the highest accepted under its key.
CountersAccountedFor ==
    /\ \A m \in accepted : m[1] \in 1..sessions
    /\ \A m \in accepted, c \in Conn :
           session[c].id = m[1] => m[2] <= session[c].last_inbound_counter
    /\ \A c \in Conn : session[c].id # 0 /\ session[c].last_inbound_counter > 0 =>
           <<session[c].id, session[c].last_inbound_counter>> \in accepted

LinkInv ==
    /\ SessionsOwned
    /\ MessageInHand
    /\ CountersAccountedFor
    /\ LockoutArmed
    /\ StoreAuthentic
=============================================================================
