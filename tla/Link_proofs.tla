----------------------------- MODULE Link_proofs ----------------------------
(***************************************************************************)
(* Theorems about Link, for every value of its constants.                  *)
(***************************************************************************)
EXTENDS Link, FiniteSetTheorems, TLAPS

\* The assumptions on the constants, one by one.
LEMMA Constants ==
    /\ Context # {} /\ Nobody \notin Conn
    /\ MaxTtl \in Nat /\ ReplayWindow \in Nat
    /\ DefaultTtl \in Nat /\ DefaultTtl > 0
    /\ MinCeiling \in Nat /\ MaxCeiling \in Nat /\ DefaultCeiling \in Nat
    /\ 0 < MinCeiling /\ MinCeiling <= DefaultCeiling /\ DefaultCeiling <= MaxCeiling
    /\ Valid \subseteq BOOLEAN /\ Counter \subseteq Nat
    /\ Inner \subseteq Context \cup {Absent}
    /\ SessionTtl \subseteq Int /\ IssuedAt \subseteq Int
    /\ CredentialTtl \subseteq Int /\ ClockStep \subseteq Int
    /\ CeilingChoice \subseteq Nat \ {0}
    /\ Threshold \in Nat /\ Threshold > 1 /\ Window \in Nat
  BY LinkAssumption, LimiterAssumption DEF LinkAssumption, LimiterAssumption

LEMMA CounterType == ASSUME NEW n \in Counter \cup {0}
                     PROVE  n \in Nat
<1>1. Counter \subseteq Nat
  BY Constants
<1>2. CASE n \in Counter
  BY <1>1, <1>2
<1>3. CASE n = 0
  BY <1>3
<1>4. QED
  BY <1>2, <1>3

LEMMA NoRequestType == NoRequest \in Request
<1>1. (CHOOSE x \in Context : TRUE) \in Context
  BY Constants, Zenon
<1>2. QED
  BY <1>1 DEF NoRequest, Request

LEMMA RequestsType == ASSUME sessions \in Nat, NEW r \in Requests
                      PROVE  r \in Request
<1>1. CASE r = NoRequest
  BY <1>1, NoRequestType
<1>2. CASE r \in [content : {"payload"}, counter : Counter, key : {0},
                  wire : {NoRequest.wire}, inner : {Absent}, ttl : {0}]
  <2>1. r.counter \in Counter
    BY <1>2
  <2>2. r.wire \in Context
    BY <1>2, NoRequestType DEF Request
  <2>3. r = [content |-> r.content, counter |-> r.counter, key |-> r.key,
             wire |-> r.wire, inner |-> r.inner, ttl |-> r.ttl]
    BY <1>2
  <2>4. r.content = "payload" /\ r.key = 0 /\ r.inner = Absent /\ r.ttl = 0
    BY <1>2
  <2>5. QED
    BY <2>1, <2>2, <2>3, <2>4 DEF Request
<1>3. CASE r \in [content : {"undecodable", "payload"}, counter : Counter,
                  key : 1..sessions, wire : Context, inner : Inner,
                  ttl : CredentialTtl]
  <2>1. r.content \in {"incomplete", "undecodable", "payload"}
    BY <1>3
  <2>2. r.counter \in Counter
    BY <1>3
  <2>3. r.key \in Nat
    BY <1>3
  <2>4. r.wire \in Context
    BY <1>3
  <2>5. r.inner \in Context \cup {Absent}
    BY <1>3, Constants
  <2>6. r.ttl \in Int
    BY <1>3, Constants
  <2>7. r = [content |-> r.content, counter |-> r.counter, key |-> r.key,
             wire |-> r.wire, inner |-> r.inner, ttl |-> r.ttl]
    BY <1>3
  <2>8. QED
    BY <2>1, <2>2, <2>3, <2>4, <2>5, <2>6, <2>7 DEF Request
<1>4. QED
  BY <1>1, <1>2, <1>3 DEF Requests

LEMMA NoSessionType == NoSession \in Session
  BY DEF NoSession, Session

LEMMA ClampType == ASSUME NEW x \in Int, NEW low \in Nat, NEW high \in Nat, low <= high
                   PROVE  Clamp(x, low, high) \in low..high
  BY DEF Clamp
LEMMA ResetType == ASSUME NEW now \in Nat
                   PROVE  Reset(now) \in Limiter
  BY DEF Reset, Limiter

LEMMA AfterFailureType == ASSUME NEW l \in Limiter, NEW now \in Nat
                          PROVE  AfterFailure(l, now) \in Limiter
  BY DEF AfterFailure, Limiter

LEMMA ResolvedTtlType == ASSUME NEW r \in Request, NEW ceiling \in Nat
                         PROVE  ResolvedTtl(r, ceiling) \in Int
  BY Constants DEF ResolvedTtl, RequestedTtl, Request

-----------------------------------------------------------------------------
LEMMA TypeInit == Init => TypeOK
  BY Constants, NoRequestType, NoSessionType, ResetType
     DEF Init, TypeOK, Policy, Modes, Steps, Entry, NoEntry

LEMMA TypeStep == TypeOK /\ [Next]_vars => TypeOK'
<1> SUFFICES ASSUME TypeOK, [Next]_vars
             PROVE  TypeOK'
  OBVIOUS
<1> USE DEF TypeOK, Goto, clocks, settings, delivery
<1>1. ASSUME NEW c \in Conn, NEW valid \in Valid, Connect(c, valid)
      PROVE  TypeOK'
  BY <1>1, ResetType DEF Connect, Steps
<1>2. ASSUME NEW c \in Conn, Disconnect(c)
      PROVE  TypeOK'
  BY <1>2, NoSessionType DEF Disconnect, Steps
<1>3. ASSUME NEW c \in Conn, NEW issued_at \in IssuedAt, NEW s \in SessionTtl,
                        LinkRegister(c, issued_at, s)
      PROVE  TypeOK'
  <2>1. Clamp(s, 0, MaxTtl) \in Nat
    BY Constants, ClampType
  <2>2. sessions' \in Nat
    BY <1>3 DEF LinkRegister
  <2>3. [id |-> sessions', bridge_issued_at |-> wall,
         ttl_seconds |-> Clamp(s, 0, MaxTtl), last_inbound_counter |-> 0]
            \in Session
    BY <2>1, <2>2 DEF Session
  <2>4. QED
    BY <1>3, <2>2, <2>3, ResetType DEF LinkRegister
<1>4. ASSUME NEW c \in Conn, NEW r \in Requests, LinkDeliver(c, r)
      PROVE  TypeOK'
  BY <1>4, RequestsType DEF LinkDeliver, Steps
<1>5. ASSUME NEW c \in Conn, CheckPeer(c)
      PROVE  TypeOK'
  BY <1>5 DEF CheckPeer, Steps
<1>6. ASSUME NEW c \in Conn, OpenMessage(c)
      PROVE  TypeOK'
  BY <1>6 DEF OpenMessage, Steps
<1>7. ASSUME NEW c \in Conn, RecordDeliverFailure(c)
      PROVE  TypeOK'
  BY <1>7, AfterFailureType, NoSessionType, NoRequestType DEF RecordDeliverFailure, Steps
<1>8. ASSUME NEW c \in Conn, ReadCeiling(c)
      PROVE  TypeOK'
  BY <1>8, ResolvedTtlType DEF ReadCeiling, Steps, Policy
<1>9. ASSUME NEW c \in Conn, Accept(c)
      PROVE  TypeOK'
  <2>1. req[c].counter \in Nat
    <3>1. req[c] \in Request
      OBVIOUS
    <3>2. req[c].counter \in Counter \cup {0}
      BY <3>1 DEF Request
    <3>3. QED
      BY <3>2, CounterType
  <2>2. req[c].key \in Nat
    <3>1. req[c] \in Request
      OBVIOUS
    <3>2. QED
      BY <3>1 DEF Request
  <2>3. session' \in [Conn -> Session]
    BY <1>9, <2>1 DEF Accept, Session
  <2>4. QED
    BY <1>9, <2>1, <2>2, <2>3 DEF Accept, Steps
<1>10. ASSUME NEW c \in Conn, Insert(c)
      PROVE  TypeOK'
  <2> DEFINE e == [session_id |-> session[c].id, key |-> req[c].key,
                   counter |-> req[c].counter, expires_at |-> expires_at[c]]
  <2>1. session[c] \in Session /\ req[c] \in Request /\ expires_at[c] \in Int
    OBVIOUS
  <2>2. req[c].counter \in Counter \cup {0}
    BY <2>1 DEF Request
  <2>3. req[c].counter \in Nat
    BY <2>2, CounterType
  <2>4. e \in Entry
    BY <2>1, <2>3 DEF Entry, Session, Request
  <2>5. store' \in [Context -> Entry]
    BY <1>10, <2>4 DEF Insert
  <2>6. QED
    BY <1>10, <2>5, NoRequestType DEF Insert, Steps
<1>11. ASSUME NEW mode \in Modes, NEW seconds \in CeilingChoice,
              SetPeerAttestationMode(mode, seconds)
      PROVE  TypeOK'
  BY <1>11, Constants DEF SetPeerAttestationMode, Policy
<1>12. ASSUME SetTtlCeiling
      PROVE  TypeOK'
  <2>1. Clamp(saving, MinCeiling, MaxCeiling) \in Nat
    BY Constants DEF Clamp
  <2>2. policy' \in Policy
    BY <1>12, <2>1 DEF SetTtlCeiling, Policy
  <2>3. QED
    BY <1>12, <2>2 DEF SetTtlCeiling
<1>13. ASSUME RemoveAll
      PROVE  TypeOK'
  BY <1>13 DEF RemoveAll, NoEntry, Entry
<1>14. ASSUME Tick
      PROVE  TypeOK'
  BY <1>14 DEF Tick
<1>15. ASSUME NEW d \in ClockStep, CorrectClock(d)
      PROVE  TypeOK'
  BY <1>15, Constants DEF CorrectClock
<1>16. CASE UNCHANGED vars
  BY <1>16 DEF vars
<1>17. QED
  BY <1>1, <1>2, <1>3, <1>4, <1>5, <1>6, <1>7, <1>8, <1>9, <1>10, <1>11, <1>12, <1>13, <1>14, <1>15, <1>16
     DEF Next, Handler, UserInterface, Environment

\* Every variable keeps its type, whatever the peers send and in whatever
\* order the threads, the user and the clocks take their steps.
THEOREM TypeCorrect == Spec => []TypeOK
<1>1. Init => TypeOK
  BY TypeInit
<1>2. TypeOK /\ [Next]_vars => TypeOK'
  BY TypeStep
<1>3. QED
  BY <1>1, <1>2, PTL DEF Spec

-----------------------------------------------------------------------------
LEMMA InvInit == Init => LinkInv
  BY Constants DEF Init, LinkInv, SessionsOwned, MessageInHand,
     CountersAccountedFor, LockoutArmed, StoreAuthentic, NoSession, NoEntry

LEMMA InvStep == TypeOK /\ LinkInv /\ [Next]_vars => LinkInv'
<1> SUFFICES ASSUME TypeOK, LinkInv, [Next]_vars
             PROVE  LinkInv'
  OBVIOUS
<1> USE DEF TypeOK, LinkInv, Goto, clocks, settings, delivery
<1>1. ASSUME NEW c \in Conn, NEW valid \in Valid, Connect(c, valid)
      PROVE  LinkInv'
  <2>1. SessionsOwned'
    BY <1>1 DEF Connect, SessionsOwned
  <2>2. MessageInHand'
    BY <1>1 DEF Connect, MessageInHand
  <2>3. CountersAccountedFor'
    BY <1>1 DEF Connect, CountersAccountedFor
  <2>4. LockoutArmed'
    BY <1>1, Constants DEF Reset, Connect, LockoutArmed
  <2>5. StoreAuthentic'
    BY <1>1 DEF Connect, StoreAuthentic
  <2>6. QED
    BY <2>1, <2>2, <2>3, <2>4, <2>5
<1>2. ASSUME NEW c \in Conn, Disconnect(c)
      PROVE  LinkInv'
  <2>1. SessionsOwned'
    BY <1>2 DEF NoSession, Disconnect, SessionsOwned
  <2>2. MessageInHand'
    BY <1>2 DEF Disconnect, MessageInHand
  <2>3. CountersAccountedFor'
    BY <1>2 DEF NoSession, Disconnect, CountersAccountedFor
  <2>4. LockoutArmed'
    BY <1>2 DEF NoSession, Disconnect, LockoutArmed
  <2>5. StoreAuthentic'
    BY <1>2 DEF Disconnect, StoreAuthentic
  <2>6. QED
    BY <2>1, <2>2, <2>3, <2>4, <2>5
<1>3. ASSUME NEW c \in Conn, NEW issued_at \in IssuedAt, NEW s \in SessionTtl,
             LinkRegister(c, issued_at, s)
      PROVE  LinkInv'
  <2>1. SessionsOwned'
    BY <1>3 DEF LinkRegister, SessionsOwned
  <2>2. MessageInHand'
    BY <1>3 DEF LinkRegister, MessageInHand
  <2>3. CountersAccountedFor'
    BY <1>3 DEF LinkRegister, CountersAccountedFor
  <2>4. LockoutArmed'
    BY <1>3, Constants DEF Reset, LinkRegister, LockoutArmed
  <2>5. StoreAuthentic'
    BY <1>3 DEF LinkRegister, StoreAuthentic
  <2>6. QED
    BY <2>1, <2>2, <2>3, <2>4, <2>5
<1>4. ASSUME NEW c \in Conn, NEW r \in Requests, LinkDeliver(c, r)
      PROVE  LinkInv'
  <2>1. SessionsOwned'
    BY <1>4 DEF LinkDeliver, SessionsOwned
  <2>2. MessageInHand'
    BY <1>4 DEF LinkDeliver, MessageInHand
  <2>3. CountersAccountedFor'
    BY <1>4 DEF LinkDeliver, CountersAccountedFor
  <2>4. LockoutArmed'
    BY <1>4 DEF LinkDeliver, LockoutArmed
  <2>5. StoreAuthentic'
    BY <1>4 DEF LinkDeliver, StoreAuthentic
  <2>6. QED
    BY <2>1, <2>2, <2>3, <2>4, <2>5
<1>5. ASSUME NEW c \in Conn, CheckPeer(c)
      PROVE  LinkInv'
  <2>1. SessionsOwned'
    BY <1>5 DEF CheckPeer, SessionsOwned
  <2>2. MessageInHand'
    BY <1>5 DEF CheckPeer, MessageInHand
  <2>3. CountersAccountedFor'
    BY <1>5 DEF CheckPeer, CountersAccountedFor
  <2>4. LockoutArmed'
    BY <1>5 DEF CheckPeer, LockoutArmed
  <2>5. StoreAuthentic'
    BY <1>5 DEF CheckPeer, StoreAuthentic
  <2>6. QED
    BY <2>1, <2>2, <2>3, <2>4, <2>5
<1>6. ASSUME NEW c \in Conn, OpenMessage(c)
      PROVE  LinkInv'
  <2>1. SessionsOwned'
    BY <1>6 DEF OpenMessage, SessionsOwned
  <2>2. MessageInHand'
    BY <1>6 DEF OpenMessage, MessageInHand
  <2>3. CountersAccountedFor'
    BY <1>6 DEF OpenMessage, CountersAccountedFor
  <2>4. LockoutArmed'
    BY <1>6 DEF OpenMessage, LockoutArmed
  <2>5. StoreAuthentic'
    BY <1>6 DEF OpenMessage, StoreAuthentic
  <2>6. QED
    BY <2>1, <2>2, <2>3, <2>4, <2>5
<1>7. ASSUME NEW c \in Conn, RecordDeliverFailure(c)
      PROVE  LinkInv'
  <2>1. SessionsOwned'
    BY <1>7 DEF NoSession, RecordDeliverFailure, SessionsOwned
  <2>2. MessageInHand'
    BY <1>7 DEF RecordDeliverFailure, MessageInHand
  <2>3. CountersAccountedFor'
    BY <1>7 DEF NoSession, RecordDeliverFailure, CountersAccountedFor
  <2>4. LockoutArmed'
    <3> SUFFICES ASSUME NEW d \in Conn, session'[d].id # 0
                 PROVE  limiter'[d].count < Threshold
      BY DEF LockoutArmed
    <3>1. CASE d # c
      BY <1>7, <3>1 DEF RecordDeliverFailure, LockoutArmed
    <3>2. CASE d = c
      <4>1. ~Trips(limiter[c], mono)
        BY <1>7, <3>2 DEF RecordDeliverFailure, NoSession
      <4>2. limiter'[c] = AfterFailure(limiter[c], mono)
        BY <1>7 DEF RecordDeliverFailure
      <4>3. limiter[c] \in Limiter
        OBVIOUS
      <4>4. AfterFailure(limiter[c], mono).count < Threshold
        BY <4>1, <4>3, Constants DEF AfterFailure, Trips, WindowOver, Limiter
      <4>5. QED
        BY <3>2, <4>2, <4>4
    <3>3. QED
      BY <3>1, <3>2
  <2>5. StoreAuthentic'
    BY <1>7 DEF RecordDeliverFailure, StoreAuthentic
  <2>6. QED
    BY <2>1, <2>2, <2>3, <2>4, <2>5
<1>8. ASSUME NEW c \in Conn, ReadCeiling(c)
      PROVE  LinkInv'
  <2>1. SessionsOwned'
    BY <1>8 DEF ReadCeiling, SessionsOwned
  <2>2. MessageInHand'
    BY <1>8 DEF ReadCeiling, MessageInHand
  <2>3. CountersAccountedFor'
    BY <1>8 DEF ReadCeiling, CountersAccountedFor
  <2>4. LockoutArmed'
    BY <1>8 DEF ReadCeiling, LockoutArmed
  <2>5. StoreAuthentic'
    BY <1>8 DEF ReadCeiling, StoreAuthentic
  <2>6. QED
    BY <2>1, <2>2, <2>3, <2>4, <2>5
<1>9. ASSUME NEW c \in Conn, Accept(c)
      PROVE  LinkInv'
  <2>1. SessionsOwned'
    BY <1>9 DEF Accept, SessionsOwned
  <2> DEFINE k == session[c].id
             n == req[c].counter
  <2>a. /\ req[c].key = k /\ k # 0 /\ k \in 1..sessions
        /\ n > session[c].last_inbound_counter
        /\ n \in Nat /\ session[c].last_inbound_counter \in Nat
    <3>1. session[c] \in Session /\ req[c] \in Request
      OBVIOUS
    <3>2. n \in Nat /\ session[c].last_inbound_counter \in Nat /\ k \in Nat
      <4>1. n \in Counter \cup {0}
        BY <3>1 DEF Request
      <4>2. QED
        BY <3>1, <4>1, CounterType DEF Session
    <3>3. k # 0 /\ Opens(session[c], req[c])
      BY <1>9 DEF Accept, MessageInHand
    <3>4. req[c].key = k /\ n > session[c].last_inbound_counter
      BY <3>3 DEF Opens, InReplayWindow
    <3>5. k \in 1..sessions
      BY <3>2, <3>3 DEF SessionsOwned
    <3>6. QED
      BY <3>2, <3>3, <3>4, <3>5
  <2>b. /\ session'[c].id = k
        /\ session'[c].last_inbound_counter = n
        /\ \A d \in Conn : d # c => session'[d] = session[d]
        /\ \A d \in Conn : session'[d].id = session[d].id
    BY <1>9 DEF Accept, Session
  <2>c. accepted' = accepted \cup {<<k, n>>}
    BY <1>9, <2>a DEF Accept
  <2>2. MessageInHand'
    <3>1. ASSUME NEW d \in Conn, d # c, pc'[d] \in {"price", "stamp"}
          PROVE  Opens(session'[d], req'[d])
      BY <1>9, <2>b, <3>1 DEF Accept, MessageInHand
    <3>2. pc'[c] = "insert" /\ req' = req
      BY <1>9 DEF Accept
    <3>3. ASSUME NEW d \in Conn, pc'[d] = "insert"
          PROVE  /\ req'[d].key = session'[d].id
                 /\ <<req'[d].key, req'[d].counter>> \in accepted'
      BY <1>9, <2>a, <2>b, <2>c, <3>2, <3>3 DEF Accept, MessageInHand
    <3>4. ASSUME NEW d \in Conn, pc'[d] \notin {"closed", "idle"}
          PROVE  session'[d].id # 0
      BY <1>9, <2>a, <2>b, <3>4 DEF Accept, MessageInHand
    <3>5. QED
      BY <3>1, <3>2, <3>3, <3>4 DEF MessageInHand
  <2>3. CountersAccountedFor'
    <3>1. \A m \in accepted' : m[1] \in 1..sessions'
      BY <1>9, <2>a, <2>c DEF Accept, CountersAccountedFor
    <3>2. ASSUME NEW m \in accepted', NEW d \in Conn, session'[d].id = m[1]
          PROVE  m[2] <= session'[d].last_inbound_counter
      <4>1. CASE d = c
        BY <2>a, <2>b, <2>c, <3>2, <4>1 DEF CountersAccountedFor
      <4>2. CASE d # c
        BY <2>a, <2>b, <2>c, <3>2, <4>2 DEF CountersAccountedFor, SessionsOwned
      <4>3. QED
        BY <4>1, <4>2
    <3>3. ASSUME NEW d \in Conn, session'[d].id # 0,
                 session'[d].last_inbound_counter > 0
          PROVE  <<session'[d].id, session'[d].last_inbound_counter>> \in accepted'
      BY <2>b, <2>c, <3>3 DEF CountersAccountedFor
    <3>4. QED
      BY <3>1, <3>2, <3>3 DEF CountersAccountedFor
  <2>4. LockoutArmed'
    BY <1>9 DEF Accept, LockoutArmed
  <2>5. StoreAuthentic'
    BY <1>9 DEF Accept, StoreAuthentic
  <2>6. QED
    BY <2>1, <2>2, <2>3, <2>4, <2>5
<1>10. ASSUME NEW c \in Conn, Insert(c)
      PROVE  LinkInv'
  <2>1. SessionsOwned'
    BY <1>10 DEF Insert, SessionsOwned
  <2>2. MessageInHand'
    BY <1>10 DEF Insert, MessageInHand
  <2>3. CountersAccountedFor'
    BY <1>10 DEF Insert, CountersAccountedFor
  <2>4. LockoutArmed'
    BY <1>10 DEF Insert, LockoutArmed
  <2>5. StoreAuthentic'
    <3> SUFFICES ASSUME NEW x \in Context, store'[x] # NoEntry
                 PROVE  /\ store'[x].key = store'[x].session_id
                        /\ store'[x].session_id \in 1..sessions
                        /\ <<store'[x].key, store'[x].counter>> \in accepted
      BY <1>10 DEF Insert, StoreAuthentic
    <3>1. /\ req[c].key = session[c].id
          /\ session[c].id \in 1..sessions
          /\ <<req[c].key, req[c].counter>> \in accepted
      BY <1>10 DEF Insert, MessageInHand, SessionsOwned
    <3>2. CASE x = PayloadContext(req[c])
      BY <1>10, <3>1, <3>2 DEF Insert
    <3>3. CASE x # PayloadContext(req[c])
      BY <1>10, <3>3 DEF Insert, StoreAuthentic
    <3>4. QED
      BY <3>2, <3>3
  <2>6. QED
    BY <2>1, <2>2, <2>3, <2>4, <2>5
<1>11. ASSUME NEW mode \in Modes, NEW seconds \in CeilingChoice,
             SetPeerAttestationMode(mode, seconds)
      PROVE  LinkInv'
  <2>1. SessionsOwned'
    BY <1>11 DEF SetPeerAttestationMode, SessionsOwned
  <2>2. MessageInHand'
    BY <1>11 DEF SetPeerAttestationMode, MessageInHand
  <2>3. CountersAccountedFor'
    BY <1>11 DEF SetPeerAttestationMode, CountersAccountedFor
  <2>4. LockoutArmed'
    BY <1>11 DEF SetPeerAttestationMode, LockoutArmed
  <2>5. StoreAuthentic'
    BY <1>11 DEF SetPeerAttestationMode, StoreAuthentic
  <2>6. QED
    BY <2>1, <2>2, <2>3, <2>4, <2>5
<1>12. ASSUME SetTtlCeiling
      PROVE  LinkInv'
  <2>1. SessionsOwned'
    BY <1>12 DEF SetTtlCeiling, SessionsOwned
  <2>2. MessageInHand'
    BY <1>12 DEF SetTtlCeiling, MessageInHand
  <2>3. CountersAccountedFor'
    BY <1>12 DEF SetTtlCeiling, CountersAccountedFor
  <2>4. LockoutArmed'
    BY <1>12 DEF SetTtlCeiling, LockoutArmed
  <2>5. StoreAuthentic'
    BY <1>12 DEF SetTtlCeiling, StoreAuthentic
  <2>6. QED
    BY <2>1, <2>2, <2>3, <2>4, <2>5
<1>13. ASSUME RemoveAll
      PROVE  LinkInv'
  <2>1. SessionsOwned'
    BY <1>13 DEF RemoveAll, SessionsOwned
  <2>2. MessageInHand'
    BY <1>13 DEF RemoveAll, MessageInHand
  <2>3. CountersAccountedFor'
    BY <1>13 DEF RemoveAll, CountersAccountedFor
  <2>4. LockoutArmed'
    BY <1>13 DEF RemoveAll, LockoutArmed
  <2>5. StoreAuthentic'
    BY <1>13 DEF RemoveAll, StoreAuthentic
  <2>6. QED
    BY <2>1, <2>2, <2>3, <2>4, <2>5
<1>14. ASSUME Tick
      PROVE  LinkInv'
  <2>1. SessionsOwned'
    BY <1>14 DEF Tick, SessionsOwned
  <2>2. MessageInHand'
    BY <1>14 DEF Tick, MessageInHand
  <2>3. CountersAccountedFor'
    BY <1>14 DEF Tick, CountersAccountedFor
  <2>4. LockoutArmed'
    BY <1>14 DEF Tick, LockoutArmed
  <2>5. StoreAuthentic'
    BY <1>14 DEF Tick, StoreAuthentic
  <2>6. QED
    BY <2>1, <2>2, <2>3, <2>4, <2>5
<1>15. ASSUME NEW d \in ClockStep, CorrectClock(d)
      PROVE  LinkInv'
  <2>1. SessionsOwned'
    BY <1>15 DEF CorrectClock, SessionsOwned
  <2>2. MessageInHand'
    BY <1>15 DEF CorrectClock, MessageInHand
  <2>3. CountersAccountedFor'
    BY <1>15 DEF CorrectClock, CountersAccountedFor
  <2>4. LockoutArmed'
    BY <1>15 DEF CorrectClock, LockoutArmed
  <2>5. StoreAuthentic'
    BY <1>15 DEF CorrectClock, StoreAuthentic
  <2>6. QED
    BY <2>1, <2>2, <2>3, <2>4, <2>5
<1>16. CASE UNCHANGED vars
  BY <1>16 DEF vars, SessionsOwned, MessageInHand, CountersAccountedFor,
     LockoutArmed, StoreAuthentic
<1>17. QED
  BY <1>1, <1>2, <1>3, <1>4, <1>5, <1>6, <1>7, <1>8, <1>9, <1>10, <1>11, <1>12, <1>13, <1>14, <1>15, <1>16
     DEF Next, Handler, UserInterface, Environment

\* Whenever a session lives, its limiter stands below the threshold; every
\* stored credential is authentic; and the facts about sessions, messages in
\* hand and counters that these rest on.
THEOREM LinkInvariant == Spec => []LinkInv
<1>1. Init => LinkInv
  BY InvInit
<1>2. TypeOK /\ LinkInv /\ [Next]_vars => LinkInv'
  BY InvStep
<1>3. QED
  BY <1>1, <1>2, TypeCorrect, PTL DEF Spec

\* No handler keeps a session through a full window of failures.
THEOREM Lockout == Spec => []LockoutArmed
<1>1. LinkInv => LockoutArmed
  BY DEF LinkInv
<1>2. QED
  BY <1>1, LinkInvariant, PTL

\* A stored credential was sealed under, and accepted from, the session that
\* the store names as its origin.
THEOREM Authenticity == Spec => []StoreAuthentic
<1>1. LinkInv => StoreAuthentic
  BY DEF LinkInv
<1>2. QED
  BY <1>1, LinkInvariant, PTL

-----------------------------------------------------------------------------
\* Link implements SealedChannel.

\* The owner of a handler's session is that handler; a session no handler has
\* is nobody's.
LEMMA OwnerOfSession ==
    ASSUME SessionsOwned, NEW c \in Conn, session[c].id # 0
    PROVE  Owner(session[c].id) = c
<1>1. \A d \in Conn : session[d].id = session[c].id <=> d = c
  BY DEF SessionsOwned
<1>2. QED
  BY <1>1 DEF Owner

LEMMA OwnerOfNone ==
    ASSUME NEW s, \A c \in Conn : session[c].id # s
    PROVE  Owner(s) = Nobody
  BY DEF Owner

LEMMA ChannelInit == Init => Channel!Init
  BY DEF Init, Channel!Init

\* A step that touches neither sessions nor counters is a stuttering step.
LEMMA ChannelStutter ==
    ASSUME UNCHANGED <<session, sessions, accepted, acceptances>>
    PROVE  UNCHANGED Channel!vars
  BY DEF Channel!vars, Owner

\* A handler that gives up its session closes it.
LEMMA ChannelClose ==
    ASSUME TypeOK, SessionsOwned, SessionsOwned', NEW c \in Conn,
           session' = [session EXCEPT ![c] = NoSession],
           UNCHANGED <<sessions, accepted, acceptances>>
    PROVE  Channel!Close(c)
<1>1. ASSUME NEW s \in 1..sessions
      PROVE  Owner(s)' = IF Owner(s) = c THEN Nobody ELSE Owner(s)
  <2>1. s \in Nat \ {0} /\ s # 0
    BY DEF TypeOK
  <2>2. session'[c].id = 0
    BY DEF TypeOK, NoSession
  <2>3. \A d \in Conn : d # c => session'[d] = session[d]
    BY DEF TypeOK
  <2>4. CASE \E d \in Conn : d # c /\ session[d].id = s
    <3>1. PICK d \in Conn : d # c /\ session[d].id = s
      BY <2>4
    <3>2. Owner(s) = d
      BY <2>1, <3>1, OwnerOfSession
    <3>3. session'[d].id = s /\ session'[c].id # s
      BY <2>1, <2>2, <2>3, <3>1
    <3>4. \A e \in Conn : session'[e].id = s <=> e = d
      BY <2>1, <3>1, <3>3 DEF SessionsOwned
    <3>5. Owner(s)' = d
      BY <3>4 DEF Owner
    <3>6. QED
      BY <3>1, <3>2, <3>5
  <2>5. CASE \A d \in Conn : d # c => session[d].id # s
    <3>1. \A d \in Conn : session'[d].id # s
      BY <2>1, <2>2, <2>3, <2>5
    <3>2. Owner(s)' = Nobody
      BY <3>1 DEF Owner
    <3>3. Owner(s) = c \/ Owner(s) = Nobody
      BY <2>1, <2>5, OwnerOfSession, OwnerOfNone
    <3>4. QED
      BY <3>2, <3>3
  <2>6. QED
    BY <2>4, <2>5
<1>2. QED
  BY <1>1 DEF Channel!Close, Channel!Released

\* A registration opens a session and closes the one the handler had.
LEMMA ChannelOpen ==
    ASSUME TypeOK, SessionsOwned, SessionsOwned', NEW c \in Conn,
           NEW issued_at \in IssuedAt, NEW ttl_seconds \in SessionTtl,
           LinkRegister(c, issued_at, ttl_seconds)
    PROVE  Channel!Open(c)
<1>1. /\ sessions \in Nat /\ sessions' = sessions + 1 /\ accepted' = accepted
      /\ session'[c].id = sessions + 1
      /\ \A d \in Conn : d # c => session'[d] = session[d]
  BY DEF TypeOK, LinkRegister
<1>2. ASSUME NEW s, s = sessions + 1
      PROVE  Owner(s)' = c
  <2>1. session'[c].id # 0
    BY <1>1
  <2>2. \A d \in Conn : session'[d].id = s <=> d = c
    BY <1>1, <1>2, <2>1 DEF SessionsOwned
  <2>3. QED
    BY <2>2 DEF Owner
<1>3. ASSUME NEW s \in 1..sessions
      PROVE  Owner(s)' = IF Owner(s) = c THEN Nobody ELSE Owner(s)
  <2>1. s # 0 /\ session'[c].id # s
    BY <1>1
  <2>2. CASE \E d \in Conn : d # c /\ session[d].id = s
    <3>1. PICK d \in Conn : d # c /\ session[d].id = s
      BY <2>2
    <3>2. Owner(s) = d
      BY <2>1, <3>1, OwnerOfSession
    <3>3. \A e \in Conn : session'[e].id = s <=> e = d
      BY <1>1, <2>1, <3>1 DEF SessionsOwned
    <3>4. Owner(s)' = d
      BY <3>3 DEF Owner
    <3>5. QED
      BY <3>1, <3>2, <3>4
  <2>3. CASE \A d \in Conn : d # c => session[d].id # s
    <3>1. \A d \in Conn : session'[d].id # s
      BY <1>1, <2>1, <2>3
    <3>2. Owner(s)' = Nobody
      BY <3>1 DEF Owner
    <3>3. Owner(s) = c \/ Owner(s) = Nobody
      BY <2>1, <2>3, OwnerOfSession, OwnerOfNone
    <3>4. QED
      BY <3>2, <3>3
  <2>4. QED
    BY <2>2, <2>3
<1>4. [s \in 1..sessions' |-> Owner(s)'] =
          [s \in 1..(sessions + 1) |->
              IF s = sessions + 1 THEN c
              ELSE [t \in 1..sessions |-> IF Owner(t) = c THEN Nobody ELSE Owner(t)][s]]
  <2>1. ASSUME NEW s \in 1..(sessions + 1)
        PROVE  Owner(s)' = IF s = sessions + 1 THEN c
                           ELSE [t \in 1..sessions |->
                                    IF Owner(t) = c THEN Nobody ELSE Owner(t)][s]
    <3>1. CASE s = sessions + 1
      BY <1>2, <3>1
    <3>2. CASE s # sessions + 1
      <4>1. s \in 1..sessions
        BY <1>1, <3>2
      <4>2. QED
        BY <1>3, <3>2, <4>1
    <3>3. QED
      BY <3>1, <3>2
  <2>2. QED
    BY <1>1, <2>1
<1>5. Channel!Released(c) =
          [t \in 1..sessions |-> IF Owner(t) = c THEN Nobody ELSE Owner(t)]
  <2>1. DOMAIN [t \in 1..sessions |-> Owner(t)] = 1..sessions
    OBVIOUS
  <2>2. \A t \in 1..sessions : [u \in 1..sessions |-> Owner(u)][t] = Owner(t)
    OBVIOUS
  <2>3. QED
    BY <2>1, <2>2 DEF Channel!Released
<1>6. accepted' = accepted /\ acceptances' = acceptances
  BY DEF LinkRegister
<1>7. QED
  BY <1>1, <1>4, <1>5, <1>6 DEF Channel!Open

\* An accepted message is received by the owner of the session that sealed it.
LEMMA ChannelReceive ==
    ASSUME TypeOK, LinkInv, LinkInv', NEW c \in Conn, Accept(c)
    PROVE  \E s \in 1..sessions, n \in Counter : Channel!Receive(c, s, n)
<1> DEFINE k == session[c].id
           n == req[c].counter
           last == session[c].last_inbound_counter
<1>1. k # 0 /\ Opens(session[c], req[c])
  BY DEF Accept, LinkInv, MessageInHand
<1>2. session[c] \in Session /\ req[c] \in Request
  BY DEF TypeOK
<1>3. k \in Nat /\ last \in Nat /\ n \in Counter \cup {0}
  BY <1>2 DEF Session, Request
<1>4. n \in Nat
  BY <1>3, CounterType
<1>5. req[c].key = k /\ n > last /\ n <= last + ReplayWindow
  BY <1>1 DEF Opens, InReplayWindow
<1>6. n > 0 /\ n \in Counter
  BY <1>3, <1>4, <1>5
<1>7. k \in 1..sessions
  BY <1>1, <1>3 DEF LinkInv, SessionsOwned
<1>8. Owner(k) = c
  BY <1>1, OwnerOfSession DEF LinkInv
<1>9. \A m \in accepted : m[1] = k => m[2] < n
  <2> SUFFICES ASSUME NEW m \in accepted, m[1] = k
               PROVE  m[2] < n
    OBVIOUS
  <2>1. m[2] <= last
    BY DEF LinkInv, CountersAccountedFor
  <2>2. m[2] \in Nat
    BY DEF TypeOK
  <2>3. QED
    BY <1>3, <1>4, <1>5, <2>1, <2>2
<1>10. \/ n <= ReplayWindow
       \/ \E m \in accepted : m[1] = k /\ n <= m[2] + ReplayWindow
  <2>1. CASE last = 0
    BY <1>4, <1>5, <2>1, Constants
  <2>2. CASE last # 0
    <3>1. <<k, last>> \in accepted
      BY <1>1, <1>3, <2>2 DEF LinkInv, CountersAccountedFor
    <3>2. <<k, last>>[1] = k /\ <<k, last>>[2] = last
      OBVIOUS
    <3>3. QED
      BY <1>5, <3>1, <3>2
  <2>3. QED
    BY <2>1, <2>2
<1>11. /\ accepted' = accepted \cup {<<k, n>>} /\ sessions' = sessions
       /\ acceptances' = acceptances + 1
  BY <1>5 DEF Accept
<1>12. [s \in 1..sessions' |-> Owner(s)'] = [s \in 1..sessions |-> Owner(s)]
  <2>1. \A d \in Conn : session'[d].id = session[d].id
    BY DEF Accept, TypeOK, Session
  <2>2. \A s : Owner(s)' = Owner(s)
    BY <2>1 DEF Owner
  <2>3. QED
    BY <1>11, <2>2
<1>13. Channel!Receive(c, k, n)
  BY <1>6, <1>7, <1>8, <1>9, <1>10, <1>11, <1>12 DEF Channel!Receive
<1>14. QED
  BY <1>6, <1>7, <1>13

LEMMA ChannelStep ==
    ASSUME TypeOK, LinkInv, LinkInv', [Next]_vars
    PROVE  [Channel!Next]_(Channel!vars)
<1>1. ASSUME NEW c \in Conn, Handler(c)
      PROVE  [Channel!Next]_(Channel!vars)
  <2>1. ASSUME NEW valid \in Valid, Connect(c, valid)
        PROVE  [Channel!Next]_(Channel!vars)
    BY <2>1, ChannelStutter DEF Connect
  <2>2. CASE Disconnect(c)
    BY <2>2, ChannelClose DEF Disconnect, LinkInv, Channel!Next
  <2>3. ASSUME NEW issued_at \in IssuedAt, NEW s \in SessionTtl,
               LinkRegister(c, issued_at, s)
        PROVE  [Channel!Next]_(Channel!vars)
    BY <2>3, ChannelOpen DEF LinkInv, Channel!Next
  <2>4. ASSUME NEW r \in Requests, LinkDeliver(c, r)
        PROVE  [Channel!Next]_(Channel!vars)
    BY <2>4, ChannelStutter DEF LinkDeliver
  <2>5. CASE CheckPeer(c) \/ OpenMessage(c) \/ ReadCeiling(c) \/ Insert(c)
    BY <2>5, ChannelStutter DEF CheckPeer, OpenMessage, ReadCeiling, Insert
  <2>6. CASE RecordDeliverFailure(c)
    <3>1. CASE Trips(limiter[c], mono)
      <4>1. session' = [session EXCEPT ![c] = NoSession]
        BY <2>6, <3>1 DEF RecordDeliverFailure
      <4>2. Channel!Close(c)
        BY <2>6, <4>1, ChannelClose DEF RecordDeliverFailure, LinkInv
      <4>3. QED
        BY <4>2 DEF Channel!Next
    <3>2. CASE ~Trips(limiter[c], mono)
      <4>1. session' = session
        BY <2>6, <3>2 DEF RecordDeliverFailure, TypeOK
      <4>2. QED
        BY <2>6, <4>1, ChannelStutter DEF RecordDeliverFailure
    <3>3. QED
      BY <3>1, <3>2
  <2>7. CASE Accept(c)
    BY <2>7, ChannelReceive DEF Channel!Next
  <2>8. QED
    BY <1>1, <2>1, <2>2, <2>3, <2>4, <2>5, <2>6, <2>7 DEF Handler
<1>2. CASE UserInterface \/ Environment
  BY <1>2, ChannelStutter DEF UserInterface, Environment,
     SetPeerAttestationMode, SetTtlCeiling, RemoveAll, Tick, CorrectClock
<1>3. CASE UNCHANGED vars
  BY <1>3, ChannelStutter DEF vars
<1>4. QED
  BY <1>1, <1>2, <1>3 DEF Next

\* Replay protection: the handlers, however their steps interleave with each
\* other, the user and the clocks, implement the sealed channel.
THEOREM ChannelRefinement == Spec => ReplayProtected
<1>1. Init => Channel!Init
  BY ChannelInit
<1>2. TypeOK /\ LinkInv /\ LinkInv' /\ [Next]_vars => [Channel!Next]_(Channel!vars)
  BY ChannelStep
<1>3. QED
  BY <1>1, <1>2, TypeCorrect, LinkInvariant, PTL
     DEF Spec, ReplayProtected, Channel!Spec

-----------------------------------------------------------------------------
\* What the sealed channel promises.

LEMMA OnceEachStep == AcceptedOnce /\ [Channel!Next]_(Channel!vars) => AcceptedOnce'
<1> SUFFICES ASSUME AcceptedOnce, [Channel!Next]_(Channel!vars)
             PROVE  AcceptedOnce'
  OBVIOUS
<1>1. IsFiniteSet(accepted) /\ acceptances = Cardinality(accepted)
  BY DEF AcceptedOnce
<1>2. CASE accepted' = accepted /\ acceptances' = acceptances
  BY <1>1, <1>2 DEF AcceptedOnce
<1>3. ASSUME NEW c \in Conn, NEW s \in 1..sessions, NEW n \in Counter, Channel!Receive(c, s, n)
      PROVE  AcceptedOnce'
  <2>1. /\ accepted' = accepted \cup {<<s, n>>} /\ acceptances' = acceptances + 1
        /\ \A m \in accepted : m[1] = s => m[2] < n
    BY <1>3 DEF Channel!Receive
  <2>2. <<s, n>> \notin accepted
    <3>1. n \in Nat
      BY CounterType
    <3>2. ~(n < n) /\ <<s, n>>[1] = s /\ <<s, n>>[2] = n
      BY <3>1
    <3>3. QED
      BY <2>1, <3>2
  <2>3. /\ IsFiniteSet(accepted \cup {<<s, n>>})
        /\ Cardinality(accepted \cup {<<s, n>>}) = Cardinality(accepted) + 1
    BY <1>1, <2>2, FS_AddElement
  <2>4. QED
    BY <1>1, <2>1, <2>3 DEF AcceptedOnce
<1>4. QED
  BY <1>2, <1>3 DEF Channel!Next, Channel!Open, Channel!Close, Channel!vars

\* No message is accepted twice, whatever is replayed on whichever connection:
\* there are as many acceptances as messages accepted.
THEOREM NoReplay == Spec => []AcceptedOnce
<1>1. Channel!Init => AcceptedOnce
  BY FS_EmptySet DEF Channel!Init, AcceptedOnce
<1>2. Channel!Spec => []AcceptedOnce
  BY <1>1, OnceEachStep, PTL DEF Channel!Spec
<1>3. QED
  BY <1>2, ChannelRefinement, PTL DEF ReplayProtected
=============================================================================
