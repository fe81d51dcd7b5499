------------------------------ MODULE MCSession -------------------------------
(***************************************************************************)
(* An instance of RegisterTime and Encoding for TLC: the numbers of a      *)
(* registration, in integers of five bits, and the bytes of what is signed *)
(* and sealed, with numbers around the byte boundaries and names that look *)
(* like the lengths written before them.                                   *)
(***************************************************************************)
EXTENDS RegisterTime, Encoding

\* With J2000 = 4, seconds since J2000 at and around every boundary: the ends
\* of both types, zero, and the staleness test's bound at each clock reading.
MCClaims == {-36, -13, -12, -11, -5, 3, 4, 5, 6, 7, 8, 13, 14, 15, 16, 19, 20, 37, 44}
MCTtls == {-16, 0, 1, 15}
MCClock == {0, 1, 8}

Fill(n, b) == [i \in 1..n |-> b]
MCHeader == Fill(25, 66)

Names == UNION {[1..n -> {0, 1}] : n \in 0..2}
         \cup {<<1, 0, 0, 0>>, <<1, 0, 0, 0, 1>>, <<0, 0, 0, 0>>}

MCDeliveries ==
    [kind : {"deliver"}, direction : {1, 2}, counter : {1, 256, 65536},
     type : Names, context : Names]

MCRegistrations ==
    [kind : {"register"}, client_nonce : {Fill(16, 1), Fill(16, 2)},
     client_pub : {Fill(65, 4)}, client_share : {Fill(32, 1), Fill(32, 2)},
     session_id : {Fill(16, 1), Fill(16, 2)},
     bridge_share : {Fill(32, 1), Fill(32, 2)},
     issued_at : {-1, 0, 1}, bridge_issued_at : {0, 65536}, ttl : {0, 1}]

MCEnvelopes ==
    [kind : {"envelope"}, ephemeral : {Fill(33, 2), Fill(33, 3)},
     iv : {Fill(12, 1), Fill(12, 2)}, tag : {Fill(16, 1), Fill(16, 2)},
     ciphertext : Names]
-----------------------------------------------------------------------------
\* The two modules share no variable: each moves while the other rests.
EncodingRests == said = CHOOSE f \in MCEnvelopes : TRUE
RegisterRests ==
    wall = 0 /\ ~checked /\ serving /\ asked = Nothing /\ session = NoSession

SessionInit == Init /\ EncodingInit /\ (EncodingRests \/ RegisterRests)

SessionNext ==
    \/ EncodingRests /\ Next /\ UNCHANGED encodingVars
    \/ RegisterRests /\ Say /\ UNCHANGED vars

SessionSpec == SessionInit /\ [][SessionNext]_<<vars, encodingVars>>
=============================================================================
