------------------------------ MODULE Encoding ------------------------------
(***************************************************************************)
(* The byte strings whose meaning client and bridge must agree on: the     *)
(* additional data of a delivery and the signed transcript (session.rs),   *)
(* and the ECIES envelope (ecies.rs).  A tag or a signature covers bytes;  *)
(* what it vouches for are the fields, so different fields must not give   *)
(* the same bytes.                                                         *)
(***************************************************************************)
EXTENDS Integers, Sequences

CONSTANTS
    Header,                                 \* TRANSCRIPT_HEADER
    Deliveries, Registrations, Envelopes    \* what is encoded

VARIABLES
    said,       \* the fields
    bytes       \* what they were encoded to

encodingVars == <<said, bytes>>
-----------------------------------------------------------------------------
Byte == 0..255
Bytes(n) == {s \in Seq(Byte) : Len(s) = n}

Shift(v) == v \div 256
High(v) == Shift(Shift(Shift(Shift(v))))
Fits32(v) == v \in Nat /\ High(v) = 0
Fits64(v) == v \in Nat /\ High(High(v)) = 0

\* to_le_bytes and to_be_bytes; a wider number loses its high bytes.
Le32(v) == <<v % 256, Shift(v) % 256, Shift(Shift(v)) % 256,
             Shift(Shift(Shift(v))) % 256>>
Be32(v) == <<Shift(Shift(Shift(v))) % 256, Shift(Shift(v)) % 256,
             Shift(v) % 256, v % 256>>
Be64(v) == Be32(High(v)) \o Be32(v)

Prefixed(s) == Le32(Len(s)) \o s

\* A float cast to u64 saturates.
Unsigned(i) == IF i < 0 THEN 0 ELSE i

\* Mutation: the type goes without its length.
DeliverAadNoLength(f) ==
    Le32(1) \o <<f.direction>> \o Le32(8) \o Be64(f.counter)
        \o f.type \o Prefixed(f.context)

\* build_deliver_aad
DeliverAad(f) ==
    (Le32(1) \o <<f.direction>> \o Le32(8) \o Be64(f.counter))
        \o (Prefixed(f.type) \o Prefixed(f.context))

\* build_transcript; issued_at is the client's time in rounded seconds.
Transcript(f) ==
    Header \o Prefixed(f.client_nonce) \o Prefixed(f.client_pub)
        \o Prefixed(f.client_share) \o Prefixed(f.session_id)
        \o Prefixed(f.bridge_share)
        \o Le32(8) \o Be64(Unsigned(f.issued_at))
        \o Le32(8) \o Be64(f.bridge_issued_at)
        \o Le32(4) \o Be32(f.ttl)

\* ecies_encrypt: version, suite, type, and what follows them.
Envelope(f) == <<1, 1, 33>> \o f.ephemeral \o f.iv \o f.tag \o f.ciphertext

Refused == [ephemeral |-> <<>>, iv |-> <<>>, tag |-> <<>>, ciphertext |-> <<>>]

\* Mutation: an empty ciphertext is refused.
OpenEnvelopeOneLong(e) ==
    IF Len(e) < 65 \/ SubSeq(e, 1, 3) # <<1, 1, 33>> \/ e[4] \notin {2, 3}
    THEN Refused
    ELSE [ephemeral |-> SubSeq(e, 4, 36), iv |-> SubSeq(e, 37, 48),
          tag |-> SubSeq(e, 49, 64), ciphertext |-> SubSeq(e, 65, Len(e))]

\* ecies_decrypt, up to the use of what it finds.
OpenEnvelope(e) ==
    IF Len(e) < 64 \/ SubSeq(e, 1, 3) # <<1, 1, 33>> \/ e[4] \notin {2, 3}
    THEN Refused
    ELSE [ephemeral |-> SubSeq(e, 4, 36), iv |-> SubSeq(e, 37, 48),
          tag |-> SubSeq(e, 49, 64), ciphertext |-> SubSeq(e, 65, Len(e))]
-----------------------------------------------------------------------------
\* Directions, numbers and names as the handler passes them, keys, nonces and
\* shares of the sizes it has checked or made.
Delivery(f) ==
    /\ f \in [kind : {"deliver"}, direction : Byte, counter : Nat,
              type : Seq(Byte), context : Seq(Byte)]
    /\ Fits64(f.counter) /\ Fits32(Len(f.type)) /\ Fits32(Len(f.context))

Registration(f) ==
    /\ f \in [kind : {"register"}, client_nonce : Bytes(16), client_pub : Bytes(65),
              client_share : Bytes(32), session_id : Bytes(16),
              bridge_share : Bytes(32), issued_at : Int, bridge_issued_at : Nat,
              ttl : Nat]
    /\ Fits64(Unsigned(f.issued_at)) /\ Fits64(f.bridge_issued_at) /\ Fits32(f.ttl)

Sealed(f) ==
    /\ f \in [kind : {"envelope"}, ephemeral : Bytes(33), iv : Bytes(12),
              tag : Bytes(16), ciphertext : Seq(Byte)]
    /\ f.ephemeral[1] \in {2, 3}

ASSUME EncodingAssumption ==
    /\ Header \in Bytes(25)
    /\ \A f \in Deliveries : Delivery(f)
    /\ \A f \in Registrations : Registration(f)
    /\ \A f \in Envelopes : Sealed(f)

Encode(f) ==
    CASE f.kind = "deliver" -> DeliverAad(f)
      [] f.kind = "register" -> Transcript(f)
      [] f.kind = "envelope" -> Envelope(f)

Statements == Deliveries \cup Registrations \cup Envelopes

EncodingInit == said \in Statements /\ bytes = Encode(said)

\* Client or bridge encodes the next.
Say == said' \in Statements /\ bytes' = Encode(said')

EncodingSpec == EncodingInit /\ [][Say]_encodingVars
-----------------------------------------------------------------------------
\* The bytes decide the fields: two deliveries that differ in direction,
\* counter, type or context have different additional data, and two
\* registrations that differ have different transcripts, except that times
\* before the epoch are all written as 0 (session.rs, the cast to u64).
BytesDecide ==
    [][said'.kind = said.kind /\ bytes' = bytes =>
        IF said.kind = "register"
        THEN [said' EXCEPT !.issued_at = Unsigned(@)]
                = [said EXCEPT !.issued_at = Unsigned(@)]
        ELSE said' = said]_encodingVars

\* What ecies_decrypt cuts an envelope into is what ecies_encrypt put together,
\* and however much of an envelope is lost at its end, it is refused or keeps
\* its key, iv and tag whole.
EnvelopeOpens ==
    said.kind = "envelope" =>
        \A n \in 0..Len(bytes) :
            OpenEnvelope(SubSeq(bytes, 1, n)) =
                IF n < 64 THEN Refused
                ELSE [ephemeral |-> said.ephemeral, iv |-> said.iv, tag |-> said.tag,
                      ciphertext |-> SubSeq(said.ciphertext, 1, n - 64)]
=============================================================================
