------------------------------- MODULE MCLink -------------------------------
(***************************************************************************)
(* An instance of Link for TLC.                                            *)
(***************************************************************************)
EXTENDS Link, TLC

Symmetric == Permutations(Conn)

Corrections == {-1}

\* Two sessions and every counter, up to three acceptances, while time and
\* settings stand still; and one of each while they move.
StandStill ==
    /\ mono = 0 /\ steps = 0 /\ acceptances <= 3
    /\ settings = <<[mode |-> "LogOnly", ceiling |-> DefaultCeiling], 0>>
OneOfEach == sessions <= 1 /\ \A c \in Conn : req[c].counter <= 1

StillOrFew == StandStill \/ OneOfEach
=============================================================================
