---------------------------- MODULE RateLimiter ----------------------------
(***************************************************************************)
(* DeliverRateLimiter (credentials.rs): a count of failures and the        *)
(* Instant at which the current window was opened.  The window tumbles: it *)
(* is opened by a reset, or by the first failure that finds it over.       *)
(***************************************************************************)
EXTENDS Integers

CONSTANTS
    Threshold,      \* failures in one window that end the session (30)
    Window          \* length of a window in seconds (60)

\* With a threshold of one the failure that opens a window would go unnoticed.
ASSUME LimiterAssumption == Threshold \in Nat \ {0, 1} /\ Window \in Nat

Limiter == [count : Nat, start : Nat]

\* reset(): nothing has failed since now.
Reset(now) == [count |-> 0, start |-> now]

WindowOver(limiter, now) == now - limiter.start > Window

\* Mutation: the new window keeps the old start, so it is over at once.
AfterFailureKeepsStart(limiter, now) ==
    IF WindowOver(limiter, now)
    THEN [limiter EXCEPT !.count = 1]
    ELSE [limiter EXCEPT !.count = @ + 1]

\* The state record_failure() leaves behind.
AfterFailure(limiter, now) ==
    IF WindowOver(limiter, now)
    THEN [count |-> 1, start |-> now]
    ELSE [limiter EXCEPT !.count = @ + 1]

\* Mutation: the threshold is compared with the count before the failure.
TripsLate(limiter, now) ==
    ~WindowOver(limiter, now) /\ limiter.count >= Threshold

\* What record_failure() returns: TRUE when the session has to go.
Trips(limiter, now) ==
    ~WindowOver(limiter, now) /\ limiter.count + 1 >= Threshold

=============================================================================
