---------------------------- MODULE MCLinkAudit -----------------------------
(***************************************************************************)
(* An instance of LinkAudit for TLC.                                       *)
(***************************************************************************)
EXTENDS LinkAudit

\* Registrations that ask for less than nothing and for more than the longest
\* session, and corrections of the wall clock in both directions.
SessionTtls == {-1, 9}
Corrections == {-2, 1}

\* The user changes the settings, at an instant, under sessions of one length;
AtOnce ==
    /\ mono = 0 /\ steps = 0
    /\ \A c \in Conn : /\ session[c].id # 0 => session[c].ttl_seconds = MaxTtl
                       /\ limiter[c].count <= 1

\* or time passes, and deliveries differ in nothing but their outcome.
OverTime ==
    /\ saving = 0 /\ policy = [mode |-> "LogOnly", ceiling |-> DefaultCeiling]
    /\ {c \in Conn : pc[c] # "closed"} \subseteq signature_valid
    /\ \A c \in Conn : req[c].counter <= 1 /\ req[c].ttl = 0

Apart == AtOnce \/ OverTime
=============================================================================
