-------------------------- MODULE MCEphemeralStore --------------------------
(***************************************************************************)
(* Instances of EphemeralStore for TLC.                                    *)
(***************************************************************************)
EXTENDS EphemeralStore

\* The program after its window was built over the empty store: connection
\* handlers insert, the window and the tray clear.  Nothing else is called.
WindowNext ==
    \/ \E t \in Thread : Proceed(t)
    \/ \E t \in Handler, x \in Context, life \in Lifetime : BeginInsert(t, x, life)
    \/ \E t \in Ui : BeginClear(t)
    \/ Tick

WindowSpec == Init /\ [][WindowNext]_vars /\ Fairness /\ WF_vars(Tick)
=============================================================================
