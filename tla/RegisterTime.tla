---------------------------- MODULE RegisterTime ----------------------------
(***************************************************************************)
(* The numbers of LINK_REGISTER, at the width and on the scale the code    *)
(* gives them.  Link computes with mathematical integers on one scale;     *)
(* here the issue time a client claims is sent as a BrightDate, days since *)
(* J2000, and becomes seconds since J2000.  Those seconds are a float      *)
(* converted twice, to i64 for the staleness test (handler.rs) and to u64  *)
(* for the signed transcript (session.rs).  The test compares them with    *)
(* the clock's seconds since 1970: nothing moves the one epoch to the      *)
(* other, so the test is J2000 seconds, some thirty years, more lenient    *)
(* than its sixty seconds say.  The difference of two i64 can overflow: a  *)
(* build with overflow checks ends the connection's thread there, one      *)
(* without wraps.                                                          *)
(***************************************************************************)
EXTENDS Integers

CONSTANTS
    IntMax,         \* i64::MAX
    MaxTtl,         \* MAX_TTL_SECONDS
    MaxAhead,       \* the most the staleness test's difference may be (60)
    J2000,          \* the Unix time BrightDates count from (946728000)
    Claims,         \* the Unix times clients say they issue at: any size
    Ttls,           \* ttlSeconds
    Clock           \* readings of the wall clock

\* The clock is far from the end of time, a ttl is an i64.
ASSUME RegisterTimeAssumption ==
    /\ {IntMax, MaxTtl, MaxAhead, J2000} \subseteq Nat
    /\ Claims \subseteq Int
    /\ Ttls \subseteq (-IntMax - 1)..IntMax
    /\ Clock \subseteq Nat
    /\ \A now \in Clock : now + MaxTtl <= IntMax /\ now + MaxAhead < IntMax

VARIABLES
    checked,        \* the build has overflow checks
    wall,           \* unix_now()
    serving,        \* the connection's thread is alive
    asked,          \* the last registration: what it claimed, when, the answer
    session         \* ConnectionHandler.session and its transcript's issue time

vars == <<checked, wall, serving, asked, session>>
-----------------------------------------------------------------------------
Within(x, low, high) == IF x < low THEN low ELSE IF x > high THEN high ELSE x

\* What a difference of two i64 becomes when nobody checks it.
Wrapped(x) == IF x < -IntMax - 1 THEN x + 2 * IntMax + 2 ELSE x

\* Mutation: the low bits are kept, as a cast of an integer would.
AsI64Truncates(x) ==
    ((x + IntMax + 1) % (2 * IntMax + 2)) - (IntMax + 1)

\* `as i64' and `as u64' of a float saturate.
AsI64(x) == Within(x, -IntMax - 1, IntMax)
AsU64(x) == Within(x, 0, 2 * IntMax + 1)

\* issuedAtBd * 86400.0, rounded, of a client that issues at the Unix time
\* claim: what the code names issued_at_unix.
BrightSeconds(claim) == claim - J2000

\* issued_at_unix - now_unix.
Lead(claim, now) == AsI64(BrightSeconds(claim)) - now
Overflows(claim, now) == Lead(claim, now) < -IntMax - 1

\* Mutation: a registration too old is refused like one too new.
StaleEitherWay(claim, now) ==
    \/ Wrapped(Lead(claim, now)) > MaxAhead
    \/ Lead(claim, now) < -MaxAhead

Stale(claim, now) == Wrapped(Lead(claim, now)) > MaxAhead

NoSession == [at |-> -1, ttl_seconds |-> 0, claim |-> 0, signed |-> 0]
Nothing == [claim |-> 0, at |-> 0, answer |-> "none"]

TypeOK ==
    /\ checked \in BOOLEAN
    /\ wall \in Clock
    /\ serving \in BOOLEAN
    /\ asked \in [claim : Int, at : Nat,
                  answer : {"none", "ok", "stale", "panic"}]
    /\ session \in [at : Clock, ttl_seconds : 0..MaxTtl, claim : Int,
                    signed : 0..(2 * IntMax + 1)] \cup {NoSession}

Init ==
    /\ checked \in BOOLEAN
    /\ wall \in Clock
    /\ serving = TRUE
    /\ asked = Nothing
    /\ session = NoSession
-----------------------------------------------------------------------------
Answer(claim, answer) ==
    asked' = [claim |-> claim, at |-> wall, answer |-> answer]

\* The subtraction overflows where that is checked: the thread unwinds and
\* its handler, with the session, is dropped.
Panic(claim) ==
    /\ serving
    /\ checked /\ Overflows(claim, wall)
    /\ Answer(claim, "panic")
    /\ serving' = FALSE
    /\ session' = NoSession
    /\ UNCHANGED <<checked, wall>>

\* "Stale registration": the session there was stays.
Refuse(claim) ==
    /\ serving
    /\ ~(checked /\ Overflows(claim, wall))
    /\ Stale(claim, wall)
    /\ Answer(claim, "stale")
    /\ UNCHANGED <<checked, wall, serving, session>>

Accept(claim, ttl_seconds) ==
    /\ serving
    /\ ~(checked /\ Overflows(claim, wall))
    /\ ~Stale(claim, wall)
    /\ Answer(claim, "ok")
    /\ session' = [at |-> wall, ttl_seconds |-> Within(ttl_seconds, 0, MaxTtl),
                   claim |-> claim, signed |-> AsU64(BrightSeconds(claim))]
    /\ UNCHANGED <<checked, wall, serving>>

\* The peer connects again: a thread and a handler of its own.
Reconnect ==
    /\ serving' = TRUE
    /\ session' = NoSession
    /\ asked' = Nothing
    /\ UNCHANGED <<checked, wall>>

\* The system's clock runs, or is set.
SetClock(now) ==
    /\ wall' = now
    /\ UNCHANGED <<checked, serving, asked, session>>

Register(claim, ttl_seconds) ==
    Panic(claim) \/ Refuse(claim) \/ Accept(claim, ttl_seconds)

Next ==
    \/ \E claim \in Claims, ttl_seconds \in Ttls : Register(claim, ttl_seconds)
    \/ Reconnect
    \/ \E now \in Clock : SetClock(now)

Spec == Init /\ [][Next]_vars
-----------------------------------------------------------------------------
\* An accepted registration was issued, in the client's own time, no further
\* ahead of the bridge's clock than the distance of the two epochs and
\* MaxAhead, however the claim is converted: what the staleness test of
\* handler.rs bounds is thirty years and a minute, not the minute it says.
\* The sum that gives the session's expiry fits.
AcceptedOnTime ==
    session # NoSession =>
        /\ session.claim <= session.at + J2000 + MaxAhead
        /\ session.at + session.ttl_seconds \in session.at..IntMax

\* A registration within that bound is refused, or kills the thread, only
\* when the difference handler.rs takes does not fit an i64: any other is
\* accepted, so "Stale registration" never refuses one for being old.
PastAccepted ==
    /\ asked.answer \in {"stale", "panic"}
    /\ asked.claim <= asked.at + J2000 + MaxAhead
    => BrightSeconds(asked.claim) - asked.at < -IntMax - 1

\* The two conversions of the claim, in handler.rs and in session.rs, agree on
\* every session unless the claim is before J2000: the signed transcript says
\* the time the test was made on.
ConversionsAgree ==
    session # NoSession =>
        LET seconds == BrightSeconds(session.claim) IN
            session.signed = IF seconds < 0 THEN 0 ELSE AsI64(seconds)
=============================================================================
