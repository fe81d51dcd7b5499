-------------------------- MODULE LinkAudit_proofs ---------------------------
(***************************************************************************)
(* Theorems about Link observed over time: when a change of policy takes   *)
(* effect, and how long a session can last under a clock that is corrected.*)
(* They use the theorems about Link, whose steps the history never         *)
(* restricts.                                                              *)
(***************************************************************************)
EXTENDS LinkAudit, Link_proofs

\* A history variable observes the steps of Link and nothing else.
LEMMA AuditRefinesLink == AuditSpec => Spec
<1>1. AuditInit => Init
  BY DEF AuditInit
<1>2. [AuditNext]_auditVars => [Next]_vars
  BY DEF AuditNext, auditVars
<1>3. QED
  BY <1>1, <1>2, PTL DEF AuditSpec, Spec

LEMMA AuditLinkInv == AuditSpec => [](TypeOK /\ LinkInv)
BY AuditRefinesLink, TypeCorrect, LinkInvariant, PTL

\* What a step leaves of a connection when it is not its handler's.
Rests(c) ==
    /\ pc'[c] = pc[c] /\ session'[c] = session[c] /\ ttl'[c] = ttl[c]
    /\ limiter'[c] = limiter[c]
    /\ c \in signature_valid' <=> c \in signature_valid

LEMMA OthersRest ==
    ASSUME TypeOK, NEW c \in Conn, NEW d \in Conn, c # d, Handler(c)
    PROVE  Rests(d)
<1> USE DEF Rests, TypeOK, Goto
<1>1. CASE \E valid \in Valid : Connect(c, valid)
  BY <1>1 DEF Connect, delivery
<1>2. CASE Disconnect(c)
  BY <1>2 DEF Disconnect, delivery
<1>3. CASE \E issued_at \in IssuedAt, s \in SessionTtl : LinkRegister(c, issued_at, s)
  BY <1>3 DEF LinkRegister, delivery
<1>4. CASE (\E r \in Requests : LinkDeliver(c, r)) \/ ReadCeiling(c) \/ Insert(c)
  BY <1>4 DEF LinkDeliver, ReadCeiling, Insert
<1>5. CASE CheckPeer(c) \/ OpenMessage(c)
  BY <1>5 DEF CheckPeer, OpenMessage, delivery
<1>6. CASE RecordDeliverFailure(c)
  BY <1>6 DEF RecordDeliverFailure
<1>7. CASE Accept(c)
  BY <1>7 DEF Accept
<1>8. QED
  BY <1>1, <1>2, <1>3, <1>4, <1>5, <1>6, <1>7 DEF Handler

LEMMA HandlerShares ==
    ASSUME NEW c \in Conn, Handler(c)
    PROVE  UNCHANGED <<wall, mono, policy>>
BY DEF Handler, Connect, Disconnect, LinkRegister, LinkDeliver, CheckPeer, OpenMessage,
       RecordDeliverFailure, ReadCeiling, Accept, Insert, clocks, settings

LEMMA ElsewhereRests ==
    ASSUME UserInterface \/ Environment, NEW c \in Conn
    PROVE  Rests(c)
BY DEF UserInterface, Environment, SetPeerAttestationMode, SetTtlCeiling, RemoveAll,
       Tick, CorrectClock, Rests, delivery

\* The ceiling is always positive: the setter clamps it from below.
LEMMA PolicyStep ==
    ASSUME TypeOK, policy.ceiling > 0, [Next]_vars
    PROVE  policy'.ceiling > 0
<1>1. CASE UNCHANGED policy
  BY <1>1
<1>2. CASE \E mode \in Modes, seconds \in CeilingChoice :
               SetPeerAttestationMode(mode, seconds)
  BY <1>2 DEF SetPeerAttestationMode, TypeOK, Policy
<1>3. CASE SetTtlCeiling
  <2>1. Clamp(saving, MinCeiling, MaxCeiling) > 0
    BY Constants DEF Clamp, TypeOK
  <2>2. QED
    BY <1>3, <2>1 DEF SetTtlCeiling, TypeOK, Policy
<1>4. QED
  BY <1>1, <1>2, <1>3, HandlerShares
     DEF Next, UserInterface, Environment, RemoveAll, Tick, CorrectClock, vars, settings

\* The history of one connection.
LEMMA RecordTypes ==
    ASSUME TypeOK, TypeOK', AuditInv, Record
    PROVE  /\ back' \in Int
           /\ born' \in [Conn -> [at : Nat, back : Int]]
           /\ late' \in [Conn -> Nat] /\ top' \in [Conn -> Nat]
<1>1. /\ wall \in Int /\ wall' \in Int /\ mono \in Nat /\ back \in Int
      /\ policy.ceiling \in Nat /\ policy'.ceiling \in Nat
  BY DEF TypeOK, Policy, AuditInv
<1>2. back' \in Int
  BY <1>1 DEF Record
<1>3. born' \in [Conn -> [at : Nat, back : Int]]
  BY <1>1 DEF Record, AuditInv
<1>4. late' \in [Conn -> Nat]
  BY DEF Record, AuditInv
<1>5. top' \in [Conn -> Nat]
  BY <1>1 DEF Record, AuditInv, Larger
<1>6. QED
  BY <1>2, <1>3, <1>4, <1>5
-----------------------------------------------------------------------------
\* The clocks.

LEMMA ClockStepKeeps ==
    ASSUME TypeOK, TypeOK', LinkInv, AuditInv, Next, Record, NEW d \in Conn
    PROVE  ClockAccount(d)'
<1>1. ClockAccount(d)
  BY DEF AuditInv
<1>2. /\ wall \in Int /\ wall' \in Int /\ mono \in Nat /\ mono' \in Nat /\ back \in Int
      /\ born[d].at \in Nat /\ born[d].back \in Int
      /\ session[d].bridge_issued_at \in Int /\ session[d].ttl_seconds \in Nat
      /\ MaxTtl \in Nat
  BY Constants DEF AuditInv, TypeOK, Session
<1>3. /\ born'[d] = IF ChangesSession(d) THEN [at |-> mono, back |-> back] ELSE born[d]
      /\ back' = IF wall' < wall THEN back + (wall - wall') ELSE back
  BY DEF Record
<1>4. CASE /\ ~ChangesSession(d) /\ wall' = wall /\ mono' = mono
           /\ session'[d].bridge_issued_at = session[d].bridge_issued_at
           /\ session'[d].ttl_seconds = session[d].ttl_seconds
  BY <1>1, <1>2, <1>3, <1>4 DEF ClockAccount, ChangesSession
<1>5. CASE session'[d].id = 0
  BY <1>5 DEF ClockAccount
<1>6. ASSUME NEW c \in Conn, Handler(c)
      PROVE  ClockAccount(d)'
  <2>1. wall' = wall /\ mono' = mono
    BY <1>6, HandlerShares
  <2>2. CASE c # d
    <3>1. session'[d] = session[d]
      BY <1>6, <2>2, OthersRest DEF Rests
    <3>2. QED
      BY <1>4, <2>1, <3>1 DEF ChangesSession
  <2>3. CASE c = d /\ session'[d] = session[d]
    BY <1>4, <2>1, <2>3 DEF ChangesSession
  <2>4. CASE \E issued_at \in IssuedAt, s \in SessionTtl : LinkRegister(d, issued_at, s)
    <3>1. PICK s \in SessionTtl :
              session'[d] = [id |-> sessions', bridge_issued_at |-> wall,
                             ttl_seconds |-> Clamp(s, 0, MaxTtl),
                             last_inbound_counter |-> 0]
      BY <2>4 DEF LinkRegister, TypeOK
    <3>2. sessions' = sessions + 1 /\ session[d].id \in 0..sessions /\ sessions \in Nat
      BY <2>4 DEF LinkRegister, LinkInv, SessionsOwned, TypeOK
    <3>3. ChangesSession(d)
      BY <3>1, <3>2 DEF ChangesSession
    <3>4. Clamp(s, 0, MaxTtl) \in 0..MaxTtl
      <4>1. s \in Int /\ MaxTtl \in Nat
        BY Constants
      <4>2. 0 \in Nat /\ 0 <= MaxTtl
        BY <4>1
      <4>3. QED
        BY <4>1, <4>2, ClampType
    <3>5. born'[d].at = mono /\ born'[d].back = back /\ back' = back
      BY <1>2, <1>3, <2>1, <3>3
    <3>6. session'[d].bridge_issued_at = wall /\ session'[d].ttl_seconds <= MaxTtl
      BY <1>2, <3>1, <3>4
    <3>7. (mono - mono) - (back - back) <= wall - wall
      BY <1>2
    <3>8. QED
      BY <2>1, <3>5, <3>6, <3>7 DEF ClockAccount
  <2>5. CASE Disconnect(d)
    BY <1>5, <2>5 DEF Disconnect, NoSession, TypeOK
  <2>6. CASE RecordDeliverFailure(d)
    <3>1. session'[d] \in {NoSession, session[d]}
      BY <2>6 DEF RecordDeliverFailure, TypeOK
    <3>2. QED
      BY <1>4, <1>5, <2>1, <3>1 DEF ChangesSession, NoSession
  <2>7. CASE Accept(d)
    <3>1. /\ session'[d].bridge_issued_at = session[d].bridge_issued_at
          /\ session'[d].ttl_seconds = session[d].ttl_seconds
          /\ session'[d].id = session[d].id
      BY <2>7 DEF Accept, TypeOK, Session
    <3>2. QED
      BY <1>4, <2>1, <3>1 DEF ChangesSession
  <2>8. QED
    BY <1>6, <2>2, <2>3, <2>4, <2>5, <2>6, <2>7
       DEF Handler, Connect, LinkDeliver, CheckPeer, OpenMessage, ReadCeiling, Insert
<1>7. CASE UserInterface
  BY <1>4, <1>7, ElsewhereRests
     DEF Rests, ChangesSession, UserInterface, SetPeerAttestationMode, SetTtlCeiling,
         RemoveAll, clocks
<1>8. CASE Environment
  <2>1. session'[d] = session[d]
    BY <1>8, ElsewhereRests DEF Rests
  <2>2. born'[d] = born[d]
    BY <1>3, <2>1 DEF ChangesSession
  <2>3. CASE Tick
    <3>1. wall' = wall + 1 /\ mono' = mono + 1
      BY <2>3 DEF Tick
    <3>2. back' = back
      BY <1>2, <1>3, <3>1
    <3>3. QED
      BY <1>1, <1>2, <2>1, <2>2, <3>1, <3>2 DEF ClockAccount
  <2>4. CASE mono' = mono
    <3>1. wall' < wall => back' = back + (wall - wall')
      BY <1>3
    <3>2. ~(wall' < wall) => back' = back
      BY <1>3
    <3>3. QED
      BY <1>1, <1>2, <2>1, <2>2, <2>4, <3>1, <3>2 DEF ClockAccount
  <2>5. QED
    BY <1>8, <2>3, <2>4 DEF Environment, CorrectClock
<1>9. QED
  BY <1>6, <1>7, <1>8 DEF Next
-----------------------------------------------------------------------------
\* The policy.

LEMMA EnforceStepKeeps ==
    ASSUME TypeOK, AuditInv, Next, Record, NEW d \in Conn
    PROVE  EnforceAccount(d)'
<1>1. EnforceAccount(d) /\ late[d] \in Nat
  BY DEF AuditInv
<1>2. late'[d] = IF policy'.mode # "Enforce" THEN 0
                 ELSE IF Stores(d) /\ d \notin signature_valid THEN late[d] + 1
                 ELSE late[d]
  BY DEF Record
<1>3. CASE policy'.mode # "Enforce"
  BY <1>2, <1>3 DEF EnforceAccount
<1>4. CASE policy'.mode = "Enforce" /\ Rests(d)
  <2>1. late'[d] = late[d]
    BY <1>2, <1>4 DEF Rests, Stores
  <2>2. QED
    BY <1>1, <1>4, <2>1 DEF EnforceAccount, Rests
<1>5. CASE policy'.mode = "Enforce" /\ Handler(d)
  <2>1. policy' = policy
    BY <1>5, HandlerShares
  <2>2. CASE /\ late'[d] = late[d]
             /\ signature_valid' = signature_valid
             /\ pc'[d] \in {"closed", "idle", "attest", "failed"}
    BY <1>1, <1>5, <2>2 DEF EnforceAccount
  <2>3. CASE /\ late'[d] = late[d]
             /\ signature_valid' = signature_valid
             /\ pc[d] \in {"open", "price", "stamp"}
    BY <1>1, <1>5, <2>3 DEF EnforceAccount
  <2>4. CASE \E valid \in Valid : Connect(d, valid)
    <3>1. pc'[d] = "idle" /\ ~Stores(d)
      BY <2>4 DEF Connect, Goto, TypeOK, Stores
    <3>2. QED
      BY <1>1, <1>2, <1>5, <3>1 DEF EnforceAccount
  <2>5. CASE Disconnect(d)
    BY <1>2, <1>5, <2>2, <2>5 DEF Disconnect, Goto, TypeOK, Stores
  <2>6. CASE \E issued_at \in IssuedAt, s \in SessionTtl : LinkRegister(d, issued_at, s)
    BY <1>2, <1>5, <2>2, <2>6 DEF LinkRegister, Stores
  <2>7. CASE \E r \in Requests : LinkDeliver(d, r)
    BY <1>2, <1>5, <2>2, <2>7 DEF LinkDeliver, Goto, TypeOK, Stores
  <2>8. CASE CheckPeer(d)
    <3>1. late'[d] = late[d] /\ signature_valid' = signature_valid
      BY <1>2, <1>5, <2>8 DEF CheckPeer, Stores
    <3>2. d \notin signature_valid => pc'[d] = "failed"
      BY <1>5, <2>1, <2>8 DEF CheckPeer, Goto, TypeOK
    <3>3. QED
      BY <1>1, <1>5, <3>1, <3>2 DEF EnforceAccount
  <2>9. CASE OpenMessage(d) \/ ReadCeiling(d) \/ Accept(d)
    BY <1>2, <1>5, <2>3, <2>9 DEF OpenMessage, ReadCeiling, Accept, Stores
  <2>10. CASE RecordDeliverFailure(d)
    BY <1>2, <1>5, <2>2, <2>10 DEF RecordDeliverFailure, Goto, TypeOK, Stores
  <2>11. CASE Insert(d)
    <3>1. pc[d] = "insert" /\ pc'[d] = "idle" /\ signature_valid' = signature_valid
      BY <2>11 DEF Insert, Goto, TypeOK
    <3>2. CASE d \in signature_valid
      BY <1>1, <1>2, <1>5, <3>1, <3>2 DEF EnforceAccount
    <3>3. CASE d \notin signature_valid
      <4>1. late[d] = 0
        BY <1>1, <3>1, <3>3 DEF EnforceAccount
      <4>2. late'[d] = 1
        BY <1>2, <1>5, <3>1, <3>3, <4>1 DEF Stores
      <4>3. QED
        BY <1>5, <3>1, <4>2 DEF EnforceAccount
    <3>4. QED
      BY <3>2, <3>3
  <2>12. QED
    BY <1>5, <2>4, <2>5, <2>6, <2>7, <2>8, <2>9, <2>10, <2>11 DEF Handler
<1>6. Rests(d) \/ Handler(d)
  BY OthersRest, ElsewhereRests DEF Next
<1>7. QED
  BY <1>3, <1>4, <1>5, <1>6

LEMMA CeilingStepKeeps ==
    ASSUME TypeOK, TypeOK', AuditInv, Next, Record, NEW d \in Conn
    PROVE  CeilingAccount(d)'
<1>1. /\ CeilingAccount(d) /\ top[d] \in Nat /\ policy.ceiling > 0
      /\ policy.ceiling \in Nat /\ policy'.ceiling \in Nat /\ ttl[d] \in Int
  BY DEF AuditInv, TypeOK, Policy
<1>2. top'[d] = IF pc'[d] \in {"closed", "idle"} THEN 0
                ELSE IF Begins(d) THEN policy.ceiling
                ELSE Larger(top[d], policy'.ceiling)
  BY DEF Record
<1>3. CASE pc'[d] \in {"closed", "idle"}
  BY <1>3 DEF CeilingAccount
<1>4. CASE Rests(d) /\ pc'[d] \notin {"closed", "idle"}
  <2>1. top'[d] = Larger(top[d], policy'.ceiling)
    BY <1>2, <1>4 DEF Rests, Begins
  <2>2. top'[d] >= top[d] /\ top'[d] >= policy'.ceiling /\ top'[d] \in Nat
    BY <1>1, <2>1 DEF Larger
  <2>3. QED
    BY <1>1, <1>4, <2>2 DEF CeilingAccount, Rests
<1>5. CASE Handler(d) /\ pc'[d] \notin {"closed", "idle"}
  <2>1. policy' = policy
    BY <1>5, HandlerShares
  <2>2. CASE Begins(d)
    BY <1>1, <1>2, <1>5, <2>1, <2>2 DEF Begins, CeilingAccount
  <2>3. CASE pc[d] \in {"closed", "idle"} /\ ~Begins(d)
    BY <1>5, <2>3 DEF Handler, Connect, Disconnect, LinkRegister, LinkDeliver, CheckPeer,
                      OpenMessage, RecordDeliverFailure, ReadCeiling, Accept, Insert,
                      Goto, TypeOK, Begins
  <2>4. CASE pc[d] \notin {"closed", "idle"}
    <3>1. policy.ceiling <= top[d]
      BY <1>1, <2>4 DEF CeilingAccount
    <3>2. top'[d] = top[d]
      BY <1>1, <1>2, <1>5, <2>1, <2>4, <3>1 DEF Larger, Begins
    <3>3. CASE pc'[d] \notin {"stamp", "insert"}
      BY <2>1, <3>1, <3>2, <3>3 DEF CeilingAccount
    <3>4. CASE ReadCeiling(d)
      <4>1. ttl'[d] = ResolvedTtl(req[d], policy.ceiling)
        BY <3>4 DEF ReadCeiling, TypeOK
      <4>2. req[d].ttl \in Int
        BY DEF TypeOK, Request
      <4>3. ResolvedTtl(req[d], policy.ceiling) \in 1..policy.ceiling
        BY <1>1, <4>2, Constants DEF ResolvedTtl, RequestedTtl
      <4>4. QED
        BY <1>1, <2>1, <3>1, <3>2, <4>1, <4>3 DEF CeilingAccount
    <3>5. CASE Accept(d)
      <4>1. pc[d] = "stamp" /\ ttl'[d] = ttl[d]
        BY <3>5 DEF Accept
      <4>2. QED
        BY <1>1, <2>1, <3>1, <3>2, <4>1 DEF CeilingAccount
    <3>6. QED
      BY <1>5, <2>4, <3>3, <3>4, <3>5
         DEF Handler, Connect, Disconnect, LinkRegister, LinkDeliver, CheckPeer,
             OpenMessage, RecordDeliverFailure, Insert, Goto, TypeOK
  <2>5. QED
    BY <2>2, <2>3, <2>4
<1>6. Rests(d) \/ Handler(d)
  BY OthersRest, ElsewhereRests DEF Next
<1>7. QED
  BY <1>3, <1>4, <1>5, <1>6
-----------------------------------------------------------------------------
LEMMA AuditInvInit == AuditInit => AuditInv
<1> SUFFICES ASSUME AuditInit PROVE AuditInv
  OBVIOUS
<1>1. /\ back \in Int /\ born \in [Conn -> [at : Nat, back : Int]]
      /\ late \in [Conn -> Nat] /\ top \in [Conn -> Nat]
  BY DEF AuditInit
<1>2. policy.ceiling > 0
  BY Constants DEF AuditInit, Init
<1>3. ASSUME NEW c \in Conn
      PROVE  session[c].id = 0 /\ late[c] = 0 /\ pc[c] = "closed"
  BY DEF AuditInit, Init, NoSession
<1>4. QED
  BY <1>1, <1>2, <1>3 DEF AuditInv, ClockAccount, EnforceAccount, CeilingAccount

\* The inductive invariant of the audited Link.
THEOREM AuditInvariant == AuditSpec => []AuditInv
<1>1. TypeOK /\ LinkInv /\ AuditInv /\ [AuditNext]_auditVars /\ TypeOK' => AuditInv'
  <2> SUFFICES ASSUME TypeOK, LinkInv, AuditInv, [AuditNext]_auditVars, TypeOK'
               PROVE  AuditInv'
    OBVIOUS
  <2>1. CASE Next /\ Record
    <3>1. policy'.ceiling > 0
      BY <2>1, PolicyStep DEF AuditInv
    <3>2. QED
      BY <2>1, <3>1, RecordTypes, ClockStepKeeps, EnforceStepKeeps, CeilingStepKeeps
         DEF AuditInv
  <2>2. CASE UNCHANGED auditVars
    BY <2>2 DEF auditVars, vars, history, clocks, settings, delivery, AuditInv,
                ClockAccount, EnforceAccount, CeilingAccount
  <2>3. QED
    BY <2>1, <2>2 DEF AuditNext
<1>2. QED
  BY <1>1, AuditInvInit, AuditLinkInv, PTL DEF AuditSpec

\* Once the user enforces attestation, an unattested connection stores at most
\* one more credential, however many are being delivered and connections made.
THEOREM EnforceEffective == AuditSpec => []EnforceTakesEffect
<1>1. AuditInv => EnforceTakesEffect
  BY DEF AuditInv, EnforceAccount, EnforceTakesEffect
<1>2. QED
  BY <1>1, AuditInvariant, PTL

\* A credential's lifetime is positive and within a ceiling that was in force
\* while it was delivered.
THEOREM CeilingEffective == AuditSpec => []CeilingTakesEffect
<1>1. AuditInv => CeilingTakesEffect
  BY DEF AuditInv, CeilingAccount, CeilingTakesEffect
<1>2. QED
  BY <1>1, AuditInvariant, PTL

\* However often and however far the wall clock is corrected, no delivery
\* begins later than the longest session and what the clock was set back.
THEOREM SessionsEnd == AuditSpec => SessionLifetime
<1>1. ASSUME TypeOK, AuditInv, [AuditNext]_auditVars
      PROVE  [\A c \in Conn : Begins(c) =>
                  mono - born[c].at <= MaxTtl + (back - born[c].back)]_auditVars
  <2> SUFFICES ASSUME Next, NEW c \in Conn, Begins(c)
               PROVE  mono - born[c].at <= MaxTtl + (back - born[c].back)
    BY <1>1 DEF AuditNext
  <2>1. ~Rests(c)
    BY DEF Begins, Rests
  <2>2. Handler(c)
    BY <1>1, <2>1, OthersRest, ElsewhereRests DEF Next
  <2>3. \E r \in Requests : LinkDeliver(c, r)
    BY <1>1, <2>2 DEF Handler, Connect, Disconnect, LinkRegister, CheckPeer, OpenMessage,
                      RecordDeliverFailure, ReadCeiling, Accept, Insert, Goto, TypeOK,
                      Begins
  <2>4. session[c].id # 0 /\ wall <= session[c].bridge_issued_at + session[c].ttl_seconds
    BY <2>3 DEF LinkDeliver, ExpiresAtUnix
  <2>5. /\ wall \in Int /\ mono \in Nat /\ back \in Int
        /\ born[c].at \in Nat /\ born[c].back \in Int
        /\ session[c].bridge_issued_at \in Int /\ session[c].ttl_seconds \in Nat
        /\ MaxTtl \in Nat
    BY <1>1, Constants DEF AuditInv, TypeOK, Session
  <2>6. ClockAccount(c)
    BY <1>1 DEF AuditInv
  <2>7. QED
    BY <2>4, <2>5, <2>6 DEF ClockAccount
<1>2. QED
  BY <1>1, AuditInvariant, AuditLinkInv, PTL DEF AuditSpec, SessionLifetime
-----------------------------------------------------------------------------
\* The failures.

Bursts(c) ==
    \A i, j \in DOMAIN failures[c] :
        i <= j /\ failures[c][j] - failures[c][i] <= Window =>
            j - i + 1 <= 2 * (Threshold - 1)

\* The failures of one connection are not touched, and no less than accounted for.
LEMMA BurstRests ==
    ASSUME NEW d \in Conn, TypeOK, TypeOK', FailuresAccountedFor(d), Bursts(d),
           failures'[d] = failures[d], failures[d] \in Seq(Nat),
           limiter'[d] = limiter[d], session'[d].id = session[d].id,
           pc[d] # "closed" => pc'[d] # "closed", mono' >= mono
    PROVE  FailuresAccountedFor(d)' /\ Bursts(d)'
<1>1. Bursts(d)'
  BY DEF Bursts
<1>2. CASE session[d].id = 0
  BY <1>1, <1>2 DEF FailuresAccountedFor
<1>3. CASE session[d].id # 0
  <2>1. /\ mono \in Nat /\ mono' \in Nat /\ limiter[d].start \in Nat
        /\ limiter[d].count \in Nat /\ Len(failures[d]) \in Nat
    BY DEF TypeOK, Limiter
  <2>2. BurstAccount(d) /\ pc[d] # "closed"
    BY <1>3 DEF FailuresAccountedFor
  <2>3. \A n \in 0..mono : n \in 0..mono'
    BY <2>1
  <2>4. BurstAccount(d)'
    BY <2>1, <2>2, <2>3 DEF BurstAccount
  <2>5. QED
    BY <1>1, <1>3, <2>2, <2>4 DEF FailuresAccountedFor
<1>4. QED
  BY <1>2, <1>3

\* A session begins or ends: its failures are forgotten.
LEMMA BurstForgotten ==
    ASSUME NEW d \in Conn, failures'[d] = << >>,
           session'[d].id # 0 => /\ pc'[d] # "closed" /\ limiter'[d] = Reset(mono)
                                 /\ mono' = mono /\ mono \in Nat
    PROVE  FailuresAccountedFor(d)' /\ Bursts(d)'
<1>1. Len(failures'[d]) = 0 /\ DOMAIN failures'[d] = {}
  OBVIOUS
<1>2. Bursts(d)'
  BY <1>1 DEF Bursts
<1>3. session'[d].id # 0 => BurstAccount(d)'
  BY <1>1 DEF BurstAccount, Reset
<1>4. QED
  BY <1>2, <1>3 DEF FailuresAccountedFor

\* Failures at F[1] to F[n], the last of them, after the k-th, in the window opened at
\* start; one more comes now.
LEMMA OneMore ==
    ASSUME NEW n \in Nat, NEW count \in Nat, NEW start \in Nat, NEW k \in Nat, k = n - count,
           NEW F, \A i \in 1..n : F[i] \in Nat, NEW now \in Nat,
           NEW T \in Nat, T >= 2, NEW W \in Nat, count < T, start <= now,
           \A i \in 1..n : i <= k => F[i] <= start,
           \A i \in 1..n : i <= k /\ F[i] + W >= start => k - i + 1 < T,
           NEW i \in 1..n, now - F[i] <= W
    PROVE  /\ count + 1 < T => n + 1 - i + 1 <= 2 * (T - 1)
           /\ now - start > W => n - i + 1 < T
<1>1. F[i] \in Nat
  OBVIOUS
<1>2. CASE i > k
  BY <1>2
<1>3. CASE i <= k
  <2>1. F[i] <= start
    BY <1>3
  <2>2. ~(now - start > W)
    BY <1>1, <2>1
  <2>3. F[i] + W >= start
    BY <1>1
  <2>4. k - i + 1 < T
    BY <1>3, <2>3
  <2>5. QED
    BY <2>2, <2>4
<1>4. QED
  BY <1>2, <1>3

\* Before and after it, the failures are as near to each other as may be.
LEMMA StillApart ==
    ASSUME NEW n \in Nat, NEW G, NEW T \in Nat, T >= 2, NEW W \in Nat,
           \A i, j \in 1..n : i <= j /\ G[j] - G[i] <= W => j - i + 1 <= 2 * (T - 1),
           \A i \in 1..n : G[n + 1] - G[i] <= W => n + 1 - i + 1 <= 2 * (T - 1)
    PROVE  \A i, j \in 1..n + 1 : i <= j /\ G[j] - G[i] <= W => j - i + 1 <= 2 * (T - 1)
<1> SUFFICES ASSUME NEW i \in 1..n + 1, NEW j \in 1..n + 1, i <= j, G[j] - G[i] <= W
             PROVE  j - i + 1 <= 2 * (T - 1)
  OBVIOUS
<1>1. CASE j \in 1..n
  <2>1. i \in 1..n
    BY <1>1
  <2>2. QED
    BY <1>1, <2>1
<1>2. CASE j = n + 1 /\ i \in 1..n
  BY <1>2
<1>3. CASE j = n + 1 /\ i = n + 1
  BY <1>3
<1>4. QED
  BY <1>1, <1>2, <1>3

\* What is said of the failures, of a sequence F and the limiter's count and start.
Accounted(F, n, k, start, now) ==
    /\ k >= 0 /\ start <= now
    /\ \A i \in 1..n :
        /\ F[i] \in 0..now
        /\ i > k => F[i] >= start
        /\ i <= k => F[i] <= start
        /\ i <= k /\ F[i] + Window >= start => k - i + 1 < Threshold

FarApart(F, n) ==
    \A i, j \in 1..n : i <= j /\ F[j] - F[i] <= Window => j - i + 1 <= 2 * (Threshold - 1)

LEMMA WindowGoesOn ==
    ASSUME NEW n \in Nat, NEW count \in Nat, NEW start \in Nat, NEW now \in Nat, NEW F, NEW G,
           Accounted(F, n, n - count, start, now), FarApart(F, n), count + 1 < Threshold,
           \A i \in 1..n : G[i] = F[i], G[n + 1] = now
    PROVE  /\ Accounted(G, n + 1, (n + 1) - (count + 1), start, now)
           /\ FarApart(G, n + 1)
<1>1. Threshold \in Nat /\ Threshold >= 2 /\ Window \in Nat
  BY LimiterAssumption
<1>2. PICK k \in Nat : k = n - count
  BY DEF Accounted
<1>3. (n + 1) - (count + 1) = k
  BY <1>2
<1>4. Accounted(F, n, k, start, now)
  BY <1>2
<1>5. \A i \in 1..n : now - F[i] <= Window => n + 1 - i + 1 <= 2 * (Threshold - 1)
  BY <1>1, <1>2, <1>4, OneMore DEF Accounted
<1>6. ASSUME NEW i \in 1..n + 1
      PROVE  /\ G[i] \in 0..now
             /\ i > k => G[i] >= start
             /\ i <= k => G[i] <= start
             /\ i <= k /\ G[i] + Window >= start => k - i + 1 < Threshold
  <2>1. CASE i \in 1..n
    BY <1>4, <2>1 DEF Accounted
  <2>2. CASE i = n + 1
    BY <1>2, <1>4, <2>2 DEF Accounted
  <2>3. QED
    BY <2>1, <2>2
<1>7. Accounted(G, n + 1, k, start, now)
  BY <1>4, <1>6 DEF Accounted
<1>8. FarApart(G, n + 1)
  BY <1>1, <1>5, StillApart DEF FarApart
<1>9. QED
  BY <1>3, <1>7, <1>8

LEMMA WindowOpens ==
    ASSUME NEW n \in Nat, NEW count \in Nat, NEW start \in Nat, NEW now \in Nat, NEW F, NEW G,
           Accounted(F, n, n - count, start, now), FarApart(F, n), count < Threshold,
           now - start > Window,
           \A i \in 1..n : G[i] = F[i], G[n + 1] = now
    PROVE  /\ Accounted(G, n + 1, (n + 1) - 1, now, now)
           /\ FarApart(G, n + 1)
<1>1. Threshold \in Nat /\ Threshold >= 2 /\ Window \in Nat
  BY LimiterAssumption
<1>2. PICK k \in Nat : k = n - count
  BY DEF Accounted
<1>3. (n + 1) - 1 = n
  OBVIOUS
<1>4. Accounted(F, n, k, start, now)
  BY <1>2
<1>5. \A i \in 1..n : now - F[i] <= Window => n - i + 1 < Threshold
  BY <1>1, <1>2, <1>4, OneMore DEF Accounted
<1>6. ASSUME NEW i \in 1..n + 1
      PROVE  /\ G[i] \in 0..now
             /\ i > n => G[i] >= now
             /\ i <= n => G[i] <= now
             /\ i <= n /\ G[i] + Window >= now => n - i + 1 < Threshold
  <2>1. CASE i \in 1..n
    <3>1. G[i] \in 0..now
      BY <1>4, <2>1 DEF Accounted
    <3>2. G[i] = F[i]
      BY <2>1
    <3>3. QED
      BY <1>1, <1>5, <2>1, <3>1, <3>2
  <2>2. CASE i = n + 1
    BY <2>2
  <2>3. QED
    BY <2>1, <2>2
<1>7. Accounted(G, n + 1, n, now, now)
  BY <1>6 DEF Accounted
<1>8. \A i \in 1..n : now - F[i] <= Window => n + 1 - i + 1 <= 2 * (Threshold - 1)
  BY <1>1, <1>5
<1>9. FarApart(G, n + 1)
  BY <1>1, <1>8, StillApart DEF FarApart
<1>10. QED
  BY <1>3, <1>7, <1>9

\* A failure the session survives joins those of its window, or opens a window
\* when the last one is over.
LEMMA BurstGrows ==
    ASSUME NEW d \in Conn, TypeOK, FailuresAccountedFor(d), Bursts(d),
           failures[d] \in Seq(Nat), limiter[d].count < Threshold,
           session[d].id # 0, session'[d].id # 0, pc'[d] # "closed",
           ~Trips(limiter[d], mono), mono' = mono,
           limiter'[d] = AfterFailure(limiter[d], mono),
           failures'[d] = Append(failures[d], mono)
    PROVE  FailuresAccountedFor(d)' /\ Bursts(d)'
<1>1. PICK F, n, count, start, G :
          /\ F = failures[d] /\ n = Len(F) /\ G = failures'[d]
          /\ count = limiter[d].count /\ start = limiter[d].start
  OBVIOUS
<1>2. n \in Nat /\ count \in Nat /\ start \in Nat /\ mono \in Nat
  BY <1>1 DEF TypeOK, Limiter
<1>3. /\ DOMAIN F = 1..n /\ DOMAIN G = 1..n + 1 /\ Len(G) = n + 1
      /\ G[n + 1] = mono /\ \A i \in 1..n : G[i] = F[i]
  BY <1>1, <1>2
<1>4. Accounted(F, n, n - count, start, mono) /\ FarApart(F, n)
  BY <1>1, <1>3 DEF FailuresAccountedFor, BurstAccount, Accounted, Bursts, FarApart
<1>5. CASE ~WindowOver(limiter[d], mono)
  <2>1. limiter'[d].count = count + 1 /\ limiter'[d].start = start /\ count + 1 < Threshold
    <3>1. limiter'[d] = [limiter[d] EXCEPT !.count = @ + 1]
      BY <1>5 DEF AfterFailure
    <3>2. ~(count + 1 >= Threshold)
      BY <1>1, <1>5 DEF Trips
    <3>3. QED
      BY <1>1, <1>2, <3>1, <3>2, LimiterAssumption DEF TypeOK, Limiter
  <2>2. Accounted(G, n + 1, (n + 1) - (count + 1), start, mono) /\ FarApart(G, n + 1)
    BY <1>2, <1>3, <1>4, <2>1, WindowGoesOn
  <2>3. BurstAccount(d)'
    BY <1>1, <1>3, <2>1, <2>2 DEF BurstAccount, Accounted
  <2>4. QED
    BY <1>1, <1>3, <2>2, <2>3 DEF FailuresAccountedFor, Bursts, FarApart
<1>6. CASE WindowOver(limiter[d], mono)
  <2>1. limiter'[d].count = 1 /\ limiter'[d].start = mono
    BY <1>6 DEF AfterFailure
  <2>2. mono - start > Window
    BY <1>1, <1>6 DEF WindowOver
  <2>3. Accounted(G, n + 1, (n + 1) - 1, mono, mono) /\ FarApart(G, n + 1)
    BY <1>1, <1>2, <1>3, <1>4, <2>2, WindowOpens
  <2>4. BurstAccount(d)'
    BY <1>1, <1>3, <2>1, <2>3 DEF BurstAccount, Accounted
  <2>5. QED
    BY <1>1, <1>3, <2>3, <2>4 DEF FailuresAccountedFor, Bursts, FarApart
<1>7. QED
  BY <1>5, <1>6

LEMMA BurstStep ==
    ASSUME TypeOK, TypeOK', LinkInv, BurstInv, Next, Record, NEW d \in Conn
    PROVE  FailuresAccountedFor(d)' /\ Bursts(d)'
<1>1. /\ FailuresAccountedFor(d) /\ Bursts(d) /\ failures[d] \in Seq(Nat)
      /\ failures'[d] = IF ChangesSession(d) THEN << >>
                        ELSE IF Fails(d) THEN Append(failures[d], mono)
                        ELSE failures[d]
      /\ mono \in Nat /\ mono' \in Nat
  BY DEF BurstInv, FailureBurst, Bursts, Record, TypeOK
<1>2. mono' >= mono
  BY <1>1, HandlerShares
     DEF Next, UserInterface, Environment, SetPeerAttestationMode, SetTtlCeiling, RemoveAll,
         Tick, CorrectClock, clocks
<1>3. CASE Rests(d)
  <2>1. failures'[d] = failures[d]
    BY <1>1, <1>3 DEF Rests, ChangesSession, Fails
  <2>2. QED
    BY <1>1, <1>2, <1>3, <2>1, BurstRests DEF Rests
<1>4. CASE Handler(d)
  <2>1. mono' = mono
    BY <1>4, HandlerShares
  <2>2. CASE /\ session'[d].id = session[d].id /\ limiter'[d] = limiter[d]
             /\ pc[d] # "failed" /\ (pc[d] # "closed" => pc'[d] # "closed")
    BY <1>1, <1>2, <2>2, BurstRests DEF ChangesSession, Fails
  <2>3. CASE \E valid \in Valid : Connect(d, valid)
    <3>1. pc[d] = "closed" /\ session'[d] = session[d]
      BY <2>3 DEF Connect
    <3>2. failures'[d] = << >> /\ session'[d].id = 0
      BY <1>1, <3>1 DEF FailuresAccountedFor, ChangesSession, Fails
    <3>3. QED
      BY <3>2, BurstForgotten
  <2>4. CASE Disconnect(d)
    <3>1. session'[d].id = 0 /\ pc[d] = "idle"
      BY <2>4 DEF Disconnect, NoSession, TypeOK
    <3>2. failures'[d] = << >>
      BY <1>1, <3>1 DEF FailuresAccountedFor, ChangesSession, Fails
    <3>3. QED
      BY <3>1, <3>2, BurstForgotten
  <2>5. CASE \E issued_at \in IssuedAt, s \in SessionTtl : LinkRegister(d, issued_at, s)
    <3>1. /\ session'[d].id = sessions + 1
          /\ pc'[d] = "idle" /\ limiter'[d] = Reset(mono)
      BY <2>5 DEF LinkRegister, TypeOK
    <3>2. session[d].id \in 0..sessions /\ sessions \in Nat
      BY DEF LinkInv, SessionsOwned, TypeOK
    <3>3. failures'[d] = << >>
      BY <1>1, <3>1, <3>2 DEF ChangesSession
    <3>4. QED
      BY <1>1, <2>1, <3>1, <3>3, BurstForgotten
  <2>6. CASE \E r \in Requests : LinkDeliver(d, r)
    <3>1. pc[d] = "idle" /\ pc'[d] = "attest"
      BY <2>6 DEF LinkDeliver, Goto, TypeOK
    <3>2. QED
      BY <2>2, <2>6, <3>1 DEF LinkDeliver
  <2>7. CASE CheckPeer(d) \/ OpenMessage(d)
    <3>1. pc[d] \in {"attest", "open"} /\ pc'[d] \in {"open", "price", "failed"}
      BY <2>7 DEF CheckPeer, OpenMessage, Goto, TypeOK
    <3>2. QED
      BY <2>2, <2>7, <3>1 DEF CheckPeer, OpenMessage
  <2>8. CASE ReadCeiling(d) \/ Insert(d)
    <3>1. pc[d] \in {"price", "insert"} /\ pc'[d] \in {"stamp", "idle"}
      BY <2>8 DEF ReadCeiling, Insert, Goto, TypeOK
    <3>2. QED
      BY <2>2, <2>8, <3>1 DEF ReadCeiling, Insert
  <2>9. CASE Accept(d)
    <3>1. pc[d] = "stamp" /\ pc'[d] = "insert" /\ session'[d].id = session[d].id
      BY <2>9 DEF Accept, Goto, TypeOK, Session
    <3>2. QED
      BY <2>2, <2>9, <3>1 DEF Accept
  <2>10. CASE RecordDeliverFailure(d)
    <3>1. /\ pc[d] = "failed" /\ pc'[d] = "idle"
          /\ limiter'[d] = AfterFailure(limiter[d], mono)
          /\ session'[d] = IF Trips(limiter[d], mono) THEN NoSession ELSE session[d]
      BY <2>10 DEF RecordDeliverFailure, Goto, TypeOK
    <3>2. session[d].id # 0 /\ limiter[d].count < Threshold
      BY <3>1 DEF LinkInv, MessageInHand, LockoutArmed
    <3>3. CASE Trips(limiter[d], mono)
      <4>1. session'[d].id = 0
        BY <3>1, <3>3 DEF NoSession
      <4>2. failures'[d] = << >>
        BY <1>1, <3>2, <4>1 DEF ChangesSession
      <4>3. QED
        BY <4>1, <4>2, BurstForgotten
    <3>4. CASE ~Trips(limiter[d], mono)
      <4>1. failures'[d] = Append(failures[d], mono)
        BY <1>1, <3>1, <3>4 DEF ChangesSession, Fails
      <4>2. session'[d].id # 0
        BY <3>1, <3>2, <3>4
      <4>3. QED
        BY <1>1, <2>1, <3>1, <3>2, <3>4, <4>1, <4>2, BurstGrows
    <3>5. QED
      BY <3>3, <3>4
  <2>11. QED
    BY <1>4, <2>3, <2>4, <2>5, <2>6, <2>7, <2>8, <2>9, <2>10 DEF Handler
<1>5. QED
  BY <1>3, <1>4, OthersRest, ElsewhereRests DEF Next

LEMMA BurstInvInit == AuditInit => BurstInv
<1> SUFFICES ASSUME AuditInit PROVE BurstInv
  OBVIOUS
<1>1. \A c \in Conn : failures[c] = << >> /\ session[c].id = 0
  BY DEF AuditInit, Init, NoSession
<1>2. failures \in [Conn -> Seq(Nat)]
  BY DEF AuditInit
<1>3. FailureBurst
  BY <1>1 DEF FailureBurst
<1>4. QED
  BY <1>1, <1>2, <1>3 DEF BurstInv, FailuresAccountedFor

LEMMA BurstInvariant == AuditSpec => []BurstInv
<1>1. TypeOK /\ LinkInv /\ BurstInv /\ [AuditNext]_auditVars /\ TypeOK' => BurstInv'
  <2> SUFFICES ASSUME TypeOK, LinkInv, BurstInv, [AuditNext]_auditVars, TypeOK'
               PROVE  BurstInv'
    OBVIOUS
  <2>1. CASE Next /\ Record
    <3>1. failures' \in [Conn -> Seq(Nat)]
      BY <2>1 DEF Record, BurstInv, TypeOK
    <3>2. \A d \in Conn : FailuresAccountedFor(d)' /\ Bursts(d)'
      BY <2>1, BurstStep
    <3>3. FailureBurst'
      BY <3>2 DEF FailureBurst, Bursts
    <3>4. QED
      BY <3>1, <3>2, <3>3 DEF BurstInv
  <2>2. CASE UNCHANGED auditVars
    BY <2>2 DEF auditVars, vars, history, clocks, BurstInv, FailuresAccountedFor,
                BurstAccount, FailureBurst
  <2>3. QED
    BY <2>1, <2>2 DEF AuditNext
<1>2. QED
  BY <1>1, BurstInvInit, AuditLinkInv, PTL DEF AuditSpec

\* Whatever the threshold and the window, and however failures fall around the
\* ends of windows, no session survives twice the threshold of them in an
\* interval as long as a window.
THEOREM BurstsBounded == AuditSpec => []FailureBurst
<1>1. BurstInv => FailureBurst
  BY DEF BurstInv
<1>2. QED
  BY <1>1, BurstInvariant, PTL
=============================================================================
