--------------------------- MODULE SealedChannel ---------------------------
(***************************************************************************)
(* What a BrightLink session promises, whatever the handler does inside:   *)
(* a session belongs to the one connection that opened it until it is      *)
(* closed, a closed session stays closed, and the messages sealed under a  *)
(* session are received by its owner in the order of their counters, each  *)
(* at most once and none more than a window beyond the last.               *)
(***************************************************************************)
EXTENDS Integers

CONSTANTS
    Conn,
    Nobody,         \* the owner of a closed session
    Counter,        \* message counters
    ReplayWindow

VARIABLES
    opened,         \* sessions opened so far, 1..opened
    owner,          \* the connection each of them belongs to
    received,       \* <<session, counter>> of the messages received
    receptions      \* how many times one was

vars == <<opened, owner, received, receptions>>

Init ==
    /\ opened = 0
    /\ owner = [s \in 1..0 |-> Nobody]
    /\ received = {} /\ receptions = 0

\* The sessions of a connection when it gives up the one it has.
Released(c) == [s \in DOMAIN owner |-> IF owner[s] = c THEN Nobody ELSE owner[s]]

\* A connection opens a session; the one it had, if any, is closed.
Open(c) ==
    /\ opened' = opened + 1
    /\ owner' = [s \in 1..(opened + 1) |->
                    IF s = opened + 1 THEN c ELSE Released(c)[s]]
    /\ UNCHANGED <<received, receptions>>

\* A session is closed: hang-up, or too many failures.
Close(c) ==
    /\ owner' = Released(c)
    /\ UNCHANGED <<opened, received, receptions>>

\* The owner of s receives message n: later than all it received before, and
\* within the window after one of them (or after the start of the session).
Receive(c, s, n) ==
    /\ receptions' = receptions + 1
    /\ s \in 1..opened
    /\ owner[s] = c
    /\ n > 0
    /\ \A m \in received : m[1] = s => m[2] < n
    /\ \/ n <= ReplayWindow
       \/ \E m \in received : m[1] = s /\ n <= m[2] + ReplayWindow
    /\ received' = received \cup {<<s, n>>}
    /\ UNCHANGED <<opened, owner>>

Next ==
    \E c \in Conn :
        \/ Open(c)
        \/ Close(c)
        \/ \E s \in 1..opened, n \in Counter : Receive(c, s, n)

Spec == Init /\ [][Next]_vars
=============================================================================
