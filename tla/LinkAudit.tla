----------------------------- MODULE LinkAudit ------------------------------
(***************************************************************************)
(* Link observed over time.  History variables record what the code does   *)
(* not keep: when failures happened, when a session was registered, which  *)
(* policies were in force.  They never restrict a step of Link.            *)
(***************************************************************************)
EXTENDS Link, Sequences

VARIABLES
    failures,   \* instants of the failures the live session survived
    back,       \* seconds the wall clock has been set back in total
    born,       \* instant, and value of back, at the registration
    late,       \* credentials stored by unattested peers under Enforce
    top         \* highest ceiling in force since the delivery began

history == <<failures, back, born, late, top>>
auditVars == <<vars, history>>

AuditInit ==
    /\ Init
    /\ failures = [c \in Conn |-> << >>]
    /\ back = 0
    /\ born = [c \in Conn |-> [at |-> 0, back |-> 0]]
    /\ late = [c \in Conn |-> 0]
    /\ top = [c \in Conn |-> 0]

\* What a step of Link did, read off the state before and after it.
Fails(c) == pc[c] = "failed" /\ pc'[c] = "idle"
Stores(c) == pc[c] = "insert" /\ pc'[c] = "idle"
Begins(c) == pc[c] = "idle" /\ pc'[c] = "attest"
ChangesSession(c) == session'[c].id # session[c].id

Larger(m, n) == IF m < n THEN n ELSE m

Record ==
    /\ failures' = [c \in Conn |-> IF ChangesSession(c) THEN << >>
                                   ELSE IF Fails(c) THEN Append(failures[c], mono)
                                   ELSE failures[c]]
    /\ back' = IF wall' < wall THEN back + (wall - wall') ELSE back
    /\ born' = [c \in Conn |-> IF ChangesSession(c) THEN [at |-> mono, back |-> back]
                               ELSE born[c]]
    /\ late' = [c \in Conn |->
                   IF policy'.mode # "Enforce" THEN 0
                   ELSE IF Stores(c) /\ c \notin signature_valid THEN late[c] + 1
                   ELSE late[c]]
    /\ top' = [c \in Conn |->
                  IF pc'[c] \in {"closed", "idle"} THEN 0
                  ELSE IF Begins(c) THEN policy.ceiling
                  ELSE Larger(top[c], policy'.ceiling)]

AuditNext == Next /\ Record

AuditSpec == AuditInit /\ [][AuditNext]_auditVars
-----------------------------------------------------------------------------
\* The limiter's window tumbles, so the code does not promise fewer than
\* Threshold failures in every Window; what it does promise of every interval
\* of that length is twice Threshold - 1: the end of one window, the start of
\* the next (credentials.rs, record_failure; handler.rs, record_deliver_failure).
FailureBurst ==
    \A c \in Conn : \A i, j \in DOMAIN failures[c] :
        i <= j /\ failures[c][j] - failures[c][i] <= Window =>
            j - i + 1 <= 2 * (Threshold - 1)

\* No delivery begins later after the registration, by the clock that never
\* turns back, than the longest session (MAX_TTL_SECONDS) plus what the wall
\* clock was set back in between: the session's expiry is wall-clock time.
SessionLifetime ==
    [][\A c \in Conn : Begins(c) =>
          mono - born[c].at <= MaxTtl + (back - born[c].back)]_auditVars

\* Once the user enforces attestation, an unattested connection stores at most
\* the one credential whose check of the policy had already been passed.
EnforceTakesEffect == \A c \in Conn : late[c] <= 1

\* A credential gets a positive lifetime, no longer than some ceiling that was
\* in force while it was being delivered: after a lower ceiling is saved, only
\* deliveries already begun may still get more.
CeilingTakesEffect ==
    \A c \in Conn : pc[c] \in {"stamp", "insert"} => ttl[c] \in 1..top[c]
-----------------------------------------------------------------------------
\* Why these hold, made inductive.

\* The last limiter.count failures came since the window was opened, the others
\* before it, and fewer than Threshold of them within a Window before it.
BurstAccount(c) ==
    LET earlier == Len(failures[c]) - limiter[c].count
        start == limiter[c].start
        at(i) == failures[c][i]
    IN  /\ earlier >= 0 /\ start <= mono
        /\ \A i \in DOMAIN failures[c] :
            /\ at(i) \in 0..mono
            /\ i > earlier => at(i) >= start
            /\ i <= earlier => at(i) <= start
            /\ i <= earlier /\ at(i) + Window >= start => earlier - i + 1 < Threshold

FailuresAccountedFor(c) ==
    IF session[c].id = 0 THEN failures[c] = << >>
    ELSE pc[c] # "closed" /\ BurstAccount(c)

\* Since its registration a session has lost no more time on the wall clock
\* than the clock was set back.
ClockAccount(c) ==
    session[c].id # 0 =>
        /\ session[c].ttl_seconds <= MaxTtl
        /\ (mono - born[c].at) - (back - born[c].back) <= wall - session[c].bridge_issued_at

\* An unattested connection that has stored under Enforce is before the check,
\* or has failed it.
EnforceAccount(c) ==
    /\ late[c] <= 1
    /\ late[c] # 0 => policy.mode = "Enforce"
    /\ late[c] # 0 /\ c \notin signature_valid =>
           pc[c] \in {"closed", "idle", "attest", "failed"}

\* The ceiling in force has been in force during the delivery.
CeilingAccount(c) ==
    /\ pc[c] \notin {"closed", "idle"} => policy.ceiling <= top[c]
    /\ pc[c] \in {"stamp", "insert"} => ttl[c] \in 1..top[c]

AuditInv ==
    /\ back \in Int
    /\ born \in [Conn -> [at : Nat, back : Int]]
    /\ late \in [Conn -> Nat] /\ top \in [Conn -> Nat]
    /\ policy.ceiling > 0
    /\ \A c \in Conn : ClockAccount(c) /\ EnforceAccount(c) /\ CeilingAccount(c)

BurstInv ==
    /\ failures \in [Conn -> Seq(Nat)]
    /\ \A c \in Conn : FailuresAccountedFor(c)
    /\ FailureBurst
=============================================================================
