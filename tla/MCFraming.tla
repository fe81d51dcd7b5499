------------------------------ MODULE MCFraming ------------------------------
(***************************************************************************)
(* Instances of Framing for TLC, and a grammar the scanner is compared     *)
(* with.                                                                   *)
(***************************************************************************)
EXTENDS Framing

CONSTANT MaxLen     \* length of the streams that are compared with the grammar

\* Requests back to back, with line ends, braces and quotes inside strings,
\* nested, cut short, and with bytes around them that belong to no request.
Conversations == {
    <<"{", "x", "}", "{", "}", "{", "{", "}", "}", "{", "}">>,
    <<"{", "{", "}", "{", "x", "}", "}", "x", "{", "\"", "}", "\"", "}">>,
    <<"}", "\"", "{", "\"", "\\", "\"", "}", "\"", "}", "{", "x">>,
    <<"{", "\"", "\\", "\\", "\"", "}", "x", "x", "{", "x", "x", "x">>}

\* With every stream of up to MaxLen bytes.
MCStreams == Conversations \cup UNION {[1..n -> Byte] : n \in 1..MaxLen}
-----------------------------------------------------------------------------
\* The words of length n of
\*    object ::= "{" item* "}"    item ::= object | string | "x" | "\"
\*    string ::= quote (char | "\" byte)* quote
Cat(A, B) == {a \o b : a \in A, b \in B}

RECURSIVE Chars(_), Object(_), Items(_)
Chars(n) ==
    IF n = 0 THEN {<<>>}
    ELSE Cat(Chars(n - 1), {<<b>> : b \in Byte \ {"\"", "\\"}})
         \cup (IF n = 1 THEN {} ELSE Cat(Chars(n - 2), {<<"\\", b>> : b \in Byte}))
String(n) == IF n < 2 THEN {} ELSE Cat(Cat({<<"\"">>}, Chars(n - 2)), {<<"\"">>})
Object(n) == IF n < 2 THEN {} ELSE Cat(Cat({<<"{">>}, Items(n - 2)), {<<"}">>})
Item(n) == Object(n) \cup String(n) \cup (IF n = 1 THEN {<<"x">>, <<"\\">>} ELSE {})
Items(n) == IF n = 0 THEN {<<>>}
            ELSE UNION {Cat(Item(k), Items(n - k)) : k \in 1..n}

\* The objects of Framing are the words of the grammar.
ASSUME GrammarAgrees ==
    \A n \in 0..MaxLen + 2 :
        LET objects == Object(n) IN \A s \in [1..n -> Byte] : IsObject(s) <=> s \in objects
=============================================================================
