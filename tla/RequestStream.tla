---------------------------- MODULE RequestStream ----------------------------
(***************************************************************************)
(* What a connection of the socket server promises its client, however the *)
(* operating system cuts the stream of bytes: the requests received are    *)
(* answered one by one, in the order in which they were completed, until   *)
(* the connection ends.                                                    *)
(***************************************************************************)
EXTENDS Sequences, Naturals

VARIABLES
    asked,      \* the requests received in full, in order
    answered,   \* those answered in full, in order
    open        \* does the connection still stand?

vars == <<asked, answered, open>>

Init == asked = <<>> /\ answered = <<>> /\ open = TRUE

\* More bytes arrive and complete some requests.
Ask ==
    /\ open
    /\ Len(asked) < Len(asked') /\ SubSeq(asked', 1, Len(asked)) = asked
    /\ UNCHANGED <<answered, open>>

\* The oldest request without an answer gets one.
Answer ==
    /\ open
    /\ Len(answered) < Len(asked)
    /\ answered' = Append(answered, asked[Len(answered) + 1])
    /\ UNCHANGED <<asked, open>>

End == open /\ open' = FALSE /\ UNCHANGED <<asked, answered>>

Next == Ask \/ Answer \/ End

Spec == Init /\ [][Next]_vars
=============================================================================
