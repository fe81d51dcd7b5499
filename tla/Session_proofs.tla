----------------------------- MODULE Session_proofs ----------------------------
(***************************************************************************)
(* Theorems about what a session is made of.  The numbers of a             *)
(* registration: for every width of integer, every claim and both kinds of *)
(* build.  The bytes: a parser that knows the layout finds every field     *)
(* where it was put.  The layout is taken apart from the end as long as    *)
(* the parts have fixed lengths, and from the front where a length is      *)
(* written before its part.                                                *)
(***************************************************************************)
EXTENDS RegisterTime, Encoding, SequenceTheorems, TLAPS

\* The saturating conversions stay in range and are exact inside it.
LEMMA Conversions ==
    ASSUME NEW x \in Int
    PROVE  /\ AsI64(x) \in (-IntMax - 1)..IntMax
           /\ AsU64(x) \in 0..(2 * IntMax + 1)
           /\ x <= IntMax => x <= AsI64(x)
           /\ x \in (-IntMax - 1)..IntMax => AsI64(x) = x
           /\ x > IntMax => AsI64(x) = IntMax
           /\ x \in 0..(2 * IntMax + 1) => AsU64(x) = x
           /\ x < 0 => AsU64(x) = 0
BY RegisterTimeAssumption DEF AsI64, AsU64, Within

\* A granted lifetime is between zero and MaxTtl.
LEMMA Granted ==
    ASSUME NEW x \in Int
    PROVE  Within(x, 0, MaxTtl) \in 0..MaxTtl
BY RegisterTimeAssumption DEF Within

\* The seconds the test is made on are an integer.
LEMMA Seconds == ASSUME NEW claim \in Int
                 PROVE  /\ BrightSeconds(claim) \in Int
                        /\ claim = BrightSeconds(claim) + J2000
BY RegisterTimeAssumption DEF BrightSeconds

\* What passes the staleness test is, in seconds since J2000, at most MaxAhead
\* more than the clock's seconds since 1970.
LEMMA NotStale ==
    ASSUME NEW claim \in Int, NEW now \in Clock, ~Stale(claim, now)
    PROVE  BrightSeconds(claim) <= now + MaxAhead
<1> DEFINE b == BrightSeconds(claim)
<1>0. b \in Int
  BY Seconds
<1>1. now \in Nat /\ now + MaxAhead < IntMax /\ MaxAhead \in Nat
      /\ IntMax \in Nat
  BY RegisterTimeAssumption
<1>2. Wrapped(AsI64(b) - now) <= MaxAhead
  <2>1. AsI64(b) \in Int
    BY <1>0, <1>1, Conversions
  <2> QED
    BY <1>1, <2>1 DEF Stale, Lead, Wrapped
<1> HIDE DEF b
<1>3. AsI64(b) - now <= MaxAhead
  BY <1>0, <1>1, <1>2, Conversions DEF Wrapped
<1>4. b <= now + MaxAhead
  <2>1. CASE b <= IntMax
    BY <1>0, <1>1, <1>3, <2>1, Conversions
  <2>2. CASE b > IntMax
    BY <1>0, <1>1, <1>3, <2>2, Conversions
  <2> QED
    BY <1>0, <1>1, <2>1, <2>2
<1> QED
  BY <1>4 DEF b

\* A claim refused or fatal though it is not ahead is too far back to subtract.
LEMMA TooFarBack ==
    ASSUME NEW claim \in Int, NEW now \in Clock,
           BrightSeconds(claim) <= now + MaxAhead,
           Stale(claim, now) \/ Overflows(claim, now)
    PROVE  BrightSeconds(claim) - now < -IntMax - 1
<1> DEFINE b == BrightSeconds(claim)
<1>0. b \in Int /\ b <= now + MaxAhead
  BY Seconds
<1>1. now \in Nat /\ now + MaxAhead < IntMax /\ MaxAhead \in Nat
      /\ IntMax \in Nat
  BY RegisterTimeAssumption
<1>2. \/ AsI64(b) - now < -IntMax - 1
      \/ Wrapped(AsI64(b) - now) > MaxAhead
  BY DEF Stale, Overflows, Lead
<1> HIDE DEF b
<1>3. b <= IntMax
  BY <1>0, <1>1
<1>4. b - now < -IntMax - 1
  <2>1. CASE b < -IntMax - 1
    BY <1>0, <1>1, <2>1
  <2>2. CASE b >= -IntMax - 1
    <3>1. AsI64(b) = b
      BY <1>0, <1>1, <1>3, <2>2, Conversions
    <3>2. CASE Wrapped(b - now) > MaxAhead
      BY <1>0, <1>1, <3>2 DEF Wrapped
    <3> QED
      BY <1>2, <3>1, <3>2
  <2> QED
    BY <1>0, <1>1, <2>1, <2>2
<1> QED
  BY <1>4 DEF b

\* The bound on a claim and the bound on its seconds are the same.
LEMMA SameBound ==
    ASSUME NEW claim \in Int, NEW now \in Nat
    PROVE  claim <= now + J2000 + MaxAhead
           <=> BrightSeconds(claim) <= now + MaxAhead
BY RegisterTimeAssumption DEF BrightSeconds
-----------------------------------------------------------------------------
Invariant == TypeOK /\ AcceptedOnTime /\ PastAccepted /\ ConversionsAgree

LEMMA InitInvariant == Init => Invariant
BY DEF Init, Invariant, TypeOK, AcceptedOnTime, PastAccepted, ConversionsAgree,
       Nothing, NoSession

\* Each outcome of a registration keeps the invariant.
LEMMA PanicKeeps ==
    ASSUME Invariant, NEW claim \in Claims, Panic(claim)
    PROVE  Invariant'
<1>1. claim \in Int /\ wall \in Clock /\ wall \in Nat
  BY RegisterTimeAssumption DEF Invariant, TypeOK
<1>2. claim <= wall + J2000 + MaxAhead
      => BrightSeconds(claim) - wall < -IntMax - 1
  BY <1>1, TooFarBack, SameBound DEF Panic
<1>3. TypeOK'
  BY <1>1 DEF Invariant, TypeOK, Panic, Answer
<1>4. PastAccepted'
  BY <1>1, <1>2 DEF PastAccepted, Panic, Answer
<1> QED
  BY <1>3, <1>4 DEF Invariant, AcceptedOnTime, ConversionsAgree, Panic

LEMMA RefuseKeeps ==
    ASSUME Invariant, NEW claim \in Claims, Refuse(claim)
    PROVE  Invariant'
<1>1. claim \in Int /\ wall \in Clock /\ wall \in Nat
  BY RegisterTimeAssumption DEF Invariant, TypeOK
<1>2. claim <= wall + J2000 + MaxAhead
      => BrightSeconds(claim) - wall < -IntMax - 1
  BY <1>1, TooFarBack, SameBound DEF Refuse
<1>3. TypeOK'
  BY <1>1 DEF Invariant, TypeOK, Refuse, Answer
<1>4. PastAccepted'
  BY <1>1, <1>2 DEF PastAccepted, Refuse, Answer
<1> QED
  BY <1>3, <1>4 DEF Invariant, AcceptedOnTime, ConversionsAgree, Refuse

LEMMA AcceptKeeps ==
    ASSUME Invariant, NEW claim \in Claims, NEW ttl_seconds \in Ttls,
           Accept(claim, ttl_seconds)
    PROVE  Invariant'
<1> DEFINE granted == Within(ttl_seconds, 0, MaxTtl)
           b == BrightSeconds(claim)
<1>1. /\ claim \in Int /\ ttl_seconds \in Int /\ b \in Int
      /\ wall \in Clock /\ wall \in Nat
      /\ {IntMax, MaxTtl, MaxAhead} \subseteq Nat
      /\ wall + MaxTtl <= IntMax /\ wall + MaxAhead < IntMax
  BY RegisterTimeAssumption, Seconds DEF Invariant, TypeOK
<1>2. granted \in 0..MaxTtl
  BY <1>1, Granted
<1>3. b <= wall + MaxAhead /\ claim <= wall + J2000 + MaxAhead
  BY <1>1, NotStale, SameBound DEF Accept
<1>4. AsU64(b) \in 0..(2 * IntMax + 1)
  BY <1>1, Conversions
<1>5. /\ session' = [at |-> wall, ttl_seconds |-> granted, claim |-> claim,
                     signed |-> AsU64(b)]
      /\ asked' = [claim |-> claim, at |-> wall, answer |-> "ok"]
      /\ wall' = wall /\ serving' = serving /\ checked' = checked
  BY DEF Accept, Answer
<1> HIDE DEF granted
<1>6. TypeOK'
  <2> HIDE DEF b
  <2> QED
    BY <1>1, <1>2, <1>4, <1>5 DEF Invariant, TypeOK
<1>7. AcceptedOnTime'
  <2>1. wall + granted \in wall..IntMax
    BY <1>1, <1>2
  <2> QED
    BY <1>3, <1>5, <2>1 DEF AcceptedOnTime
<1>8. PastAccepted'
  BY <1>5 DEF PastAccepted
<1>9. AsU64(b) = IF b < 0 THEN 0 ELSE AsI64(b)
  <2> HIDE DEF b
  <2>1. CASE b < 0
    BY <1>1, <2>1, Conversions
  <2>2. CASE b >= 0
    <3>1. b \in 0..IntMax
      BY <1>1, <1>3, <2>2
    <3>2. AsU64(b) = b /\ AsI64(b) = b
      BY <1>1, <3>1, Conversions
    <3> QED
      BY <1>1, <2>2, <3>2
  <2> QED
    BY <1>1, <2>1, <2>2
<1>10. session'.claim = claim /\ session'.signed = AsU64(b)
  BY <1>5
<1>11. ConversionsAgree'
  BY <1>9, <1>10 DEF ConversionsAgree
<1> QED
  BY <1>6, <1>7, <1>8, <1>11 DEF Invariant

LEMMA NextKeeps == Invariant /\ [Next]_vars => Invariant'
<1> SUFFICES ASSUME Invariant, [Next]_vars
             PROVE  Invariant'
  OBVIOUS
<1>1. CASE \E claim \in Claims, ttl_seconds \in Ttls :
              Register(claim, ttl_seconds)
  BY <1>1, PanicKeeps, RefuseKeeps, AcceptKeeps DEF Register
<1>2. CASE Reconnect
  BY <1>2 DEF Reconnect, Invariant, TypeOK, AcceptedOnTime, PastAccepted,
              ConversionsAgree, Nothing, NoSession
<1>3. CASE \E now \in Clock : SetClock(now)
  BY <1>3 DEF SetClock, Invariant, TypeOK, AcceptedOnTime, PastAccepted,
              ConversionsAgree
<1>4. CASE UNCHANGED vars
  BY <1>4 DEF vars, Invariant, TypeOK, AcceptedOnTime, PastAccepted,
              ConversionsAgree
<1> QED
  BY <1>1, <1>2, <1>3, <1>4 DEF Next

\* Whatever the width of the integers, the distance of the epochs and the kind
\* of build: the variables keep their types, LINK_REGISTER accepts what was
\* issued at most J2000 + MaxAhead ahead of the clock, what it refuses or dies
\* of within that bound is too far back to subtract, and the signed transcript
\* says the time that was tested.
THEOREM RegistersInvariant == Spec => []Invariant
<1> QED
  BY InitInvariant, NextKeeps, PTL DEF Spec

\* handle_link_register's staleness test, which mixes two epochs: what it does
\* bound is the issue time to J2000 + MaxAhead seconds ahead, not to MaxAhead.
THEOREM RegistersOnTime == Spec => []AcceptedOnTime
<1>1. Invariant => AcceptedOnTime
  BY DEF Invariant
<1> QED
  BY <1>1, RegistersInvariant, PTL

\* The bound is exact: within it, the overflow of that test's subtraction is the
\* only reason to refuse, and no age is.
THEOREM RegistersThePast == Spec => []PastAccepted
<1>1. Invariant => PastAccepted
  BY DEF Invariant
<1> QED
  BY <1>1, RegistersInvariant, PTL

\* build_transcript's conversion of the claim is the one that was tested.
THEOREM RegistersSameTime == Spec => []ConversionsAgree
<1>1. Invariant => ConversionsAgree
  BY DEF Invariant
<1> QED
  BY <1>1, RegistersInvariant, PTL

\* Every variable keeps its type.
THEOREM RegistersTyped == Spec => []TypeOK
<1>1. Invariant => TypeOK
  BY DEF Invariant
<1> QED
  BY <1>1, RegistersInvariant, PTL
-----------------------------------------------------------------------------
\* Concatenation of byte strings, of which only the next lemmas are used.
Cat(a, b) == a \o b

LEMMA Join == ASSUME NEW a \in Seq(Byte), NEW b \in Seq(Byte)
              PROVE  Cat(a, b) \in Seq(Byte) /\ Len(Cat(a, b)) = Len(a) + Len(b)
  BY ConcatProperties DEF Cat

LEMMA Assoc == ASSUME NEW a \in Seq(Byte), NEW b \in Seq(Byte), NEW c \in Seq(Byte)
               PROVE  Cat(Cat(a, b), c) = Cat(a, Cat(b, c))
  BY ConcatAssociative DEF Cat

\* Two ways to cut a string into two parts agree when the first parts are of
\* the same length, and when the last are.
LEMMA Front == ASSUME NEW a \in Seq(Byte), NEW x \in Seq(Byte),
                      NEW b \in Seq(Byte), NEW y \in Seq(Byte),
                      Cat(a, x) = Cat(b, y), Len(a) = Len(b)
               PROVE  a = b /\ x = y
<1>1. Len(a) \in Nat /\ Len(x) \in Nat /\ Len(y) \in Nat
  BY LenProperties
<1>2. Len(x) = Len(y)
  <2>1. Len(Cat(a, x)) = Len(a) + Len(x)
    BY Join
  <2>2. Len(Cat(b, y)) = Len(b) + Len(y)
    BY Join
  <2>3. QED
    BY <1>1, <2>1, <2>2
<1>3. ASSUME NEW i \in 1..Len(a) PROVE a[i] = b[i]
  BY <1>1, <1>2, ConcatProperties DEF Cat
<1>4. ASSUME NEW i \in 1..Len(x) PROVE x[i] = y[i]
  <2>1. /\ Len(a) + i \in 1..Len(a) + Len(x) /\ Len(b) + i \in 1..Len(b) + Len(y)
        /\ ~(Len(a) + i <= Len(a)) /\ (Len(a) + i) - Len(a) = i
    BY <1>1, <1>2, <1>4
  <2>2. (a \o x)[Len(a) + i] = x[(Len(a) + i) - Len(a)]
    BY <2>1, ConcatProperties
  <2>3. (b \o y)[Len(b) + i] = y[(Len(b) + i) - Len(b)]
    BY <2>1, ConcatProperties
  <2>4. QED
    BY <2>1, <2>2, <2>3 DEF Cat
<1>5. QED
  BY <1>2, <1>3, <1>4, SeqEqual

LEMMA Back == ASSUME NEW a \in Seq(Byte), NEW x \in Seq(Byte),
                     NEW b \in Seq(Byte), NEW y \in Seq(Byte),
                     Cat(a, x) = Cat(b, y), Len(x) = Len(y)
              PROVE  a = b /\ x = y
<1>1. Len(a) \in Nat /\ Len(b) \in Nat /\ Len(x) \in Nat
  BY LenProperties
<1>2. Len(a) = Len(b)
  <2>1. Len(Cat(a, x)) = Len(a) + Len(x)
    BY Join
  <2>2. Len(Cat(b, y)) = Len(b) + Len(y)
    BY Join
  <2>3. QED
    BY <1>1, <2>1, <2>2
<1>3. QED
  BY <1>2, Front

\* The bytes of a number decide it, if it fits the width.
LEMMA ShiftType == ASSUME NEW v \in Nat
                   PROVE  Shift(v) \in Nat /\ v = 256 * Shift(v) + (v % 256)
  BY DEF Shift

LEMMA HighType == ASSUME NEW v \in Nat PROVE High(v) \in Nat
  BY ShiftType DEF High

LEMMA FourBytes == ASSUME NEW a \in Byte, NEW b \in Byte, NEW c \in Byte, NEW d \in Byte
                   PROVE  <<a, b, c, d>> \in Seq(Byte) /\ Len(<<a, b, c, d>>) = 4
  OBVIOUS

LEMMA NumberType == ASSUME NEW v \in Nat
    PROVE  /\ Le32(v) \in Seq(Byte) /\ Len(Le32(v)) = 4
           /\ Be32(v) \in Seq(Byte) /\ Len(Be32(v)) = 4
           /\ Be64(v) \in Seq(Byte) /\ Len(Be64(v)) = 8
<1>1. ASSUME NEW u \in Nat PROVE u % 256 \in Byte
  BY DEF Byte
<1>2. ASSUME NEW u \in Nat PROVE Be32(u) \in Seq(Byte) /\ Len(Be32(u)) = 4
  <2>1. Shift(u) \in Nat /\ Shift(Shift(u)) \in Nat /\ Shift(Shift(Shift(u))) \in Nat
    BY ShiftType
  <2>2. /\ Shift(Shift(Shift(u))) % 256 \in Byte /\ Shift(Shift(u)) % 256 \in Byte
        /\ Shift(u) % 256 \in Byte /\ u % 256 \in Byte
    BY <1>1, <2>1
  <2>3. PICK a \in Byte, b \in Byte, c \in Byte, d \in Byte :
             /\ a = Shift(Shift(Shift(u))) % 256 /\ b = Shift(Shift(u)) % 256
             /\ c = Shift(u) % 256 /\ d = u % 256
    BY <2>2
  <2>4. <<a, b, c, d>> \in Seq(Byte) /\ Len(<<a, b, c, d>>) = 4
    BY FourBytes
  <2>5. Be32(u) = <<a, b, c, d>>
    BY <2>3, Zenon DEF Be32
  <2>6. QED
    BY <2>4, <2>5, Zenon
<1>3. Le32(v) \in Seq(Byte) /\ Len(Le32(v)) = 4
  <2>1. Shift(v) \in Nat /\ Shift(Shift(v)) \in Nat /\ Shift(Shift(Shift(v))) \in Nat
    BY ShiftType
  <2>2. /\ Shift(Shift(Shift(v))) % 256 \in Byte /\ Shift(Shift(v)) % 256 \in Byte
        /\ Shift(v) % 256 \in Byte /\ v % 256 \in Byte
    BY <1>1, <2>1
  <2>3. PICK a \in Byte, b \in Byte, c \in Byte, d \in Byte :
             /\ a = v % 256 /\ b = Shift(v) % 256
             /\ c = Shift(Shift(v)) % 256 /\ d = Shift(Shift(Shift(v))) % 256
    BY <2>2
  <2>4. <<a, b, c, d>> \in Seq(Byte) /\ Len(<<a, b, c, d>>) = 4
    BY FourBytes
  <2>5. Le32(v) = <<a, b, c, d>>
    BY <2>3, Zenon DEF Le32
  <2>6. QED
    BY <2>4, <2>5, Zenon
<1>4. Be64(v) \in Seq(Byte) /\ Len(Be64(v)) = 8
  <2>1. /\ Be32(High(v)) \in Seq(Byte) /\ Len(Be32(High(v))) = 4
        /\ Be32(v) \in Seq(Byte) /\ Len(Be32(v)) = 4
    BY <1>2, HighType
  <2>2. Be64(v) = Cat(Be32(High(v)), Be32(v))
    BY Zenon DEF Be64, Cat
  <2>3. /\ Be64(v) \in Seq(Byte)
        /\ Len(Be64(v)) = Len(Be32(High(v))) + Len(Be32(v))
    BY <2>1, <2>2, Join, Zenon
  <2>4. QED
    BY <2>1, <2>3
<1>5. QED
  BY <1>2, <1>3, <1>4

\* The low four bytes and what is above them decide a number.
LEMMA LowBytes == ASSUME NEW u \in Nat, NEW v \in Nat, High(u) = High(v),
                         Be32(u) = Be32(v)
                  PROVE  u = v
<1>1. /\ u % 256 = v % 256 /\ Shift(u) % 256 = Shift(v) % 256
      /\ Shift(Shift(u)) % 256 = Shift(Shift(v)) % 256
      /\ Shift(Shift(Shift(u))) % 256 = Shift(Shift(Shift(v))) % 256
  BY DEF Be32
<1>2. ASSUME NEW m \in Nat, NEW n \in Nat, m % 256 = n % 256, Shift(m) = Shift(n)
      PROVE  m = n
  <2>1. m = 256 * Shift(m) + (m % 256) /\ n = 256 * Shift(n) + (n % 256)
    BY ShiftType
  <2>2. QED
    BY <2>1, <1>2
<1>3. Shift(Shift(Shift(u))) = Shift(Shift(Shift(v)))
  <2>1. Shift(Shift(Shift(u))) \in Nat /\ Shift(Shift(Shift(v))) \in Nat
    BY ShiftType
  <2>2. Shift(Shift(Shift(Shift(u)))) = Shift(Shift(Shift(Shift(v))))
    BY DEF High
  <2>3. QED
    BY <1>1, <1>2, <2>1, <2>2
<1>4. Shift(Shift(u)) = Shift(Shift(v))
  BY <1>1, <1>2, <1>3, ShiftType
<1>5. Shift(u) = Shift(v)
  BY <1>1, <1>2, <1>4, ShiftType
<1>6. QED
  BY <1>1, <1>2, <1>5

LEMMA Be32Decides == ASSUME NEW u, NEW v, Fits32(u), Fits32(v), Be32(u) = Be32(v)
                     PROVE  u = v
  BY LowBytes DEF Fits32

LEMMA Be64Decides == ASSUME NEW u, NEW v, Fits64(u), Fits64(v), Be64(u) = Be64(v)
                     PROVE  u = v
<1>1. u \in Nat /\ v \in Nat /\ High(u) \in Nat /\ High(v) \in Nat
  BY HighType DEF Fits64
<1>2. Be32(High(u)) = Be32(High(v)) /\ Be32(u) = Be32(v)
  <2>1. Be64(u) = Cat(Be32(High(u)), Be32(u)) /\ Be64(v) = Cat(Be32(High(v)), Be32(v))
    BY Zenon DEF Be64, Cat
  <2>2. /\ Be32(High(u)) \in Seq(Byte) /\ Len(Be32(High(u))) = 4 /\ Be32(u) \in Seq(Byte)
        /\ Be32(High(v)) \in Seq(Byte) /\ Len(Be32(High(v))) = 4 /\ Be32(v) \in Seq(Byte)
    BY <1>1, NumberType
  <2>3. QED
    BY <2>1, <2>2, Front
<1>3. High(u) = High(v)
  BY <1>1, <1>2, LowBytes DEF Fits64
<1>4. QED
  BY <1>1, <1>2, <1>3, LowBytes

LEMMA Le32Decides == ASSUME NEW u, NEW v, Fits32(u), Fits32(v), Le32(u) = Le32(v)
                     PROVE  u = v
<1>1. Be32(u) = Be32(v)
  BY DEF Le32, Be32
<1>2. QED
  BY <1>1, Be32Decides

LEMMA PrefixedType == ASSUME NEW s \in Seq(Byte)
                      PROVE  Prefixed(s) \in Seq(Byte) /\ Len(Prefixed(s)) = Len(s) + 4
<1>1. Len(s) \in Nat
  OBVIOUS
<1>2. Le32(Len(s)) \in Seq(Byte) /\ Len(Le32(Len(s))) = 4
  BY <1>1, NumberType
<1>3. Prefixed(s) = Cat(Le32(Len(s)), s)
  BY Zenon DEF Prefixed, Cat
<1>4. Prefixed(s) \in Seq(Byte) /\ Len(Prefixed(s)) = Len(Le32(Len(s))) + Len(s)
  BY <1>2, <1>3, Join, Zenon
<1>5. QED
  BY <1>1, <1>2, <1>4

\* A length written before a string tells where it ends.
LEMMA PrefixedCut == ASSUME NEW a \in Seq(Byte), NEW x \in Seq(Byte),
                            NEW b \in Seq(Byte), NEW y \in Seq(Byte),
                            Fits32(Len(a)), Fits32(Len(b)),
                            Cat(Prefixed(a), x) = Cat(Prefixed(b), y)
                     PROVE  a = b /\ x = y
<1>1. /\ Le32(Len(a)) \in Seq(Byte) /\ Len(Le32(Len(a))) = 4
      /\ Le32(Len(b)) \in Seq(Byte) /\ Len(Le32(Len(b))) = 4
  BY NumberType DEF Fits32
<1>2. Cat(a, x) \in Seq(Byte) /\ Cat(b, y) \in Seq(Byte)
  BY Join
<1>3. Cat(Le32(Len(a)), Cat(a, x)) = Cat(Le32(Len(b)), Cat(b, y))
  <2>1. Prefixed(a) = Cat(Le32(Len(a)), a) /\ Prefixed(b) = Cat(Le32(Len(b)), b)
    BY Zenon DEF Prefixed, Cat
  <2>2. QED
    BY <1>1, <2>1, Assoc
<1>4. Le32(Len(a)) = Le32(Len(b)) /\ Cat(a, x) = Cat(b, y)
  BY <1>1, <1>2, <1>3, Front
<1>5. Len(a) = Len(b)
  BY <1>4, Le32Decides
<1>6. QED
  BY <1>4, <1>5, Front
-----------------------------------------------------------------------------
\* The additional data of a delivery decides direction, counter, type and
\* context.
LEMMA AadDecides == ASSUME NEW f, NEW g, Delivery(f), Delivery(g),
                           DeliverAad(f) = DeliverAad(g)
                    PROVE  /\ f.direction = g.direction /\ f.counter = g.counter
                           /\ f.type = g.type /\ f.context = g.context
<1> DEFINE one == Le32(1)
           eight == Le32(8)
           dir(h) == <<h.direction>>
           tag(h) == Cat(one, dir(h))
           start(h) == Cat(tag(h), eight)
           number(h) == Cat(start(h), Be64(h.counter))
           names(h) == Cat(Prefixed(h.type), Prefixed(h.context))
<1>1. ASSUME NEW h
      PROVE  /\ DeliverAad(h) = Cat(number(h), names(h))
             /\ number(h) = Cat(start(h), Be64(h.counter))
             /\ start(h) = Cat(tag(h), eight) /\ tag(h) = Cat(one, dir(h))
             /\ dir(h) = <<h.direction>>
             /\ names(h) = Cat(Prefixed(h.type), Prefixed(h.context))
  BY Zenon DEF DeliverAad, Cat
<1> HIDE DEF one, eight, dir, tag, start, number, names
<1>2. /\ one \in Seq(Byte) /\ Len(one) = 4
      /\ eight \in Seq(Byte) /\ Len(eight) = 4
  BY NumberType DEF one, eight
<1>3. ASSUME NEW h, Delivery(h)
      PROVE  /\ dir(h) \in Seq(Byte) /\ Len(dir(h)) = 1
             /\ tag(h) \in Seq(Byte) /\ start(h) \in Seq(Byte)
             /\ Be64(h.counter) \in Seq(Byte) /\ Len(Be64(h.counter)) = 8
             /\ number(h) \in Seq(Byte) /\ Len(number(h)) = 17
             /\ Prefixed(h.type) \in Seq(Byte) /\ Prefixed(h.context) \in Seq(Byte)
             /\ names(h) \in Seq(Byte)
  <2>1. h.direction \in Byte /\ h.counter \in Nat
        /\ h.type \in Seq(Byte) /\ h.context \in Seq(Byte)
    BY <1>3 DEF Delivery, Fits64
  <2>2. /\ one \in Seq(Byte) /\ Len(one) = 4
        /\ eight \in Seq(Byte) /\ Len(eight) = 4
        /\ Be64(h.counter) \in Seq(Byte) /\ Len(Be64(h.counter)) = 8
    BY <1>2, <2>1, NumberType
  <2>3. dir(h) \in Seq(Byte) /\ Len(dir(h)) = 1
    <3>1. dir(h) = <<h.direction>>
      BY <1>1
    <3>2. QED
      BY <2>1, <3>1
  <2>4. /\ number(h) = Cat(start(h), Be64(h.counter))
        /\ start(h) = Cat(tag(h), eight) /\ tag(h) = Cat(one, dir(h))
        /\ names(h) = Cat(Prefixed(h.type), Prefixed(h.context))
    BY <1>1
  <2>5. tag(h) \in Seq(Byte) /\ Len(tag(h)) = 5
    <3>1. tag(h) \in Seq(Byte) /\ Len(tag(h)) = Len(one) + Len(dir(h))
      BY <2>2, <2>3, <2>4, Join, Zenon
    <3>2. Len(one) = 4 /\ Len(dir(h)) = 1
      BY <2>2, <2>3
    <3>3. QED
      BY <3>1, <3>2
  <2>6. start(h) \in Seq(Byte) /\ Len(start(h)) = 9
    <3>1. start(h) \in Seq(Byte) /\ Len(start(h)) = Len(tag(h)) + Len(eight)
      BY <2>2, <2>4, <2>5, Join, Zenon
    <3>2. Len(tag(h)) = 5 /\ Len(eight) = 4
      BY <2>2, <2>5
    <3>3. QED
      BY <3>1, <3>2
  <2>7. number(h) \in Seq(Byte) /\ Len(number(h)) = 17
    <3>1. /\ number(h) \in Seq(Byte)
          /\ Len(number(h)) = Len(start(h)) + Len(Be64(h.counter))
      BY <2>2, <2>4, <2>6, Join, Zenon
    <3>2. Len(start(h)) = 9 /\ Len(Be64(h.counter)) = 8
      BY <2>2, <2>6
    <3>3. QED
      BY <3>1, <3>2
  <2>8. Prefixed(h.type) \in Seq(Byte) /\ Prefixed(h.context) \in Seq(Byte)
    BY <2>1, PrefixedType
  <2>9. names(h) \in Seq(Byte)
    BY <2>4, <2>8, Join, Zenon
  <2>10. QED
    BY <2>2, <2>3, <2>4, <2>5, <2>6, <2>7, <2>8, <2>9, Zenon
<1>4. number(f) = number(g) /\ names(f) = names(g)
  <2>1. Cat(number(f), names(f)) = Cat(number(g), names(g))
    BY <1>1
  <2>2. QED
    BY <1>3, <2>1, Front
<1>5. start(f) = start(g) /\ Be64(f.counter) = Be64(g.counter)
  <2>1. Cat(start(f), Be64(f.counter)) = Cat(start(g), Be64(g.counter))
    BY <1>1, <1>4
  <2>2. QED
    BY <1>3, <2>1, Back
<1>6. tag(f) = tag(g)
  <2>1. Cat(tag(f), eight) = Cat(tag(g), eight) /\ eight \in Seq(Byte)
    BY <1>1, <1>5, <1>2
  <2>2. QED
    BY <1>3, <2>1, Back
<1>7. f.direction = g.direction /\ f.counter = g.counter
  <2>1. /\ Cat(one, dir(f)) = Cat(one, dir(g))
        /\ one \in Seq(Byte)
    BY <1>1, <1>6, <1>2
  <2>2. dir(f) = dir(g)
    BY <1>3, <2>1, Front
  <2>3. f.counter = g.counter
    BY <1>5, Be64Decides DEF Delivery
  <2>4. QED
    BY <2>2, <2>3 DEF dir
<1>8. f.type = g.type /\ Prefixed(f.context) = Prefixed(g.context)
  <2>1. /\ f.type \in Seq(Byte) /\ g.type \in Seq(Byte)
        /\ Fits32(Len(f.type)) /\ Fits32(Len(g.type))
        /\ Prefixed(f.context) \in Seq(Byte) /\ Prefixed(g.context) \in Seq(Byte)
    BY <1>3 DEF Delivery
  <2>2. Cat(Prefixed(f.type), Prefixed(f.context))
                = Cat(Prefixed(g.type), Prefixed(g.context))
    BY <1>1, <1>4
  <2>3. QED
    BY <2>1, <2>2, PrefixedCut
<1>9. f.context = g.context
  <2>1. /\ f.context \in Seq(Byte) /\ g.context \in Seq(Byte) /\ <<>> \in Seq(Byte)
        /\ Fits32(Len(f.context)) /\ Fits32(Len(g.context))
    BY DEF Delivery
  <2>2. Cat(Prefixed(f.context), <<>>) = Cat(Prefixed(g.context), <<>>)
    BY <1>8
  <2>3. QED
    BY <2>1, <2>2, PrefixedCut
<1>10. QED
  BY <1>7, <1>8, <1>9
-----------------------------------------------------------------------------
LEMMA PrefixedDecides == ASSUME NEW s \in Seq(Byte), NEW t \in Seq(Byte),
                                Len(s) = Len(t), Prefixed(s) = Prefixed(t)
                         PROVE  s = t
<1>1. Le32(Len(s)) \in Seq(Byte)
  BY NumberType, LenProperties
<1>2. Cat(Le32(Len(s)), s) = Cat(Le32(Len(s)), t)
  BY Zenon DEF Prefixed, Cat
<1>3. QED
  BY <1>1, <1>2, Front

\* A transcript decides everything that was said in it, times before the epoch
\* excepted.
LEMMA TranscriptDecides ==
    ASSUME NEW f, NEW g, Registration(f), Registration(g),
           Header \in Seq(Byte), Transcript(f) = Transcript(g)
    PROVE  /\ f.client_nonce = g.client_nonce /\ f.client_pub = g.client_pub
           /\ f.client_share = g.client_share /\ f.session_id = g.session_id
           /\ f.bridge_share = g.bridge_share
           /\ Unsigned(f.issued_at) = Unsigned(g.issued_at)
           /\ f.bridge_issued_at = g.bridge_issued_at /\ f.ttl = g.ttl
<1> DEFINE eight == Le32(8)
           four == Le32(4)
           p(s) == Prefixed(s)
           issued(h) == Be64(Unsigned(h.issued_at))
           begun(h) == Be64(h.bridge_issued_at)
           ttl(h) == Be32(h.ttl)
           t1(h) == Cat(Header, p(h.client_nonce))
           t2(h) == Cat(t1(h), p(h.client_pub))
           t3(h) == Cat(t2(h), p(h.client_share))
           t4(h) == Cat(t3(h), p(h.session_id))
           t5(h) == Cat(t4(h), p(h.bridge_share))
           t6(h) == Cat(t5(h), eight)
           t7(h) == Cat(t6(h), issued(h))
           t8(h) == Cat(t7(h), eight)
           t9(h) == Cat(t8(h), begun(h))
           t10(h) == Cat(t9(h), four)
<1>1. ASSUME NEW h PROVE Transcript(h) = Cat(t10(h), ttl(h))
  BY Zenon DEF Transcript, Cat
<1>2. /\ eight \in Seq(Byte) /\ Len(eight) = 4
      /\ four \in Seq(Byte) /\ Len(four) = 4
  BY NumberType
<1>3. ASSUME NEW h, Registration(h)
      PROVE  /\ h.client_nonce \in Seq(Byte) /\ Len(h.client_nonce) = 16
             /\ h.client_pub \in Seq(Byte) /\ Len(h.client_pub) = 65
             /\ h.client_share \in Seq(Byte) /\ Len(h.client_share) = 32
             /\ h.session_id \in Seq(Byte) /\ Len(h.session_id) = 16
             /\ h.bridge_share \in Seq(Byte) /\ Len(h.bridge_share) = 32
             /\ Fits64(Unsigned(h.issued_at)) /\ Fits64(h.bridge_issued_at)
             /\ Fits32(h.ttl)
  BY <1>3 DEF Registration, Bytes
<1> HIDE DEF eight, four
<1>4. ASSUME NEW h, Registration(h)
      PROVE  /\ issued(h) \in Seq(Byte) /\ Len(issued(h)) = 8
             /\ begun(h) \in Seq(Byte) /\ Len(begun(h)) = 8
             /\ ttl(h) \in Seq(Byte) /\ Len(ttl(h)) = 4
  <2>1. Unsigned(h.issued_at) \in Nat /\ h.bridge_issued_at \in Nat /\ h.ttl \in Nat
    BY <1>3, <1>4 DEF Fits64, Fits32
  <2>2. QED
    BY <2>1, NumberType
<1>5. ASSUME NEW s \in Seq(Byte), NEW t \in Seq(Byte), Len(s) = Len(t)
      PROVE  p(s) \in Seq(Byte) /\ p(t) \in Seq(Byte) /\ Len(p(s)) = Len(p(t))
  <2>1. Len(p(s)) = Len(s) + 4 /\ Len(p(t)) = Len(t) + 4
    BY PrefixedType
  <2>2. QED
    BY <1>5, <2>1, PrefixedType
<1> HIDE DEF p, issued, begun, ttl
<1>6. ASSUME NEW h, Registration(h)
      PROVE  /\ t1(h) \in Seq(Byte) /\ t2(h) \in Seq(Byte) /\ t3(h) \in Seq(Byte)
             /\ t4(h) \in Seq(Byte) /\ t5(h) \in Seq(Byte) /\ t6(h) \in Seq(Byte)
             /\ t7(h) \in Seq(Byte) /\ t8(h) \in Seq(Byte) /\ t9(h) \in Seq(Byte)
             /\ t10(h) \in Seq(Byte)
  <2>1. /\ p(h.client_nonce) \in Seq(Byte) /\ p(h.client_pub) \in Seq(Byte)
        /\ p(h.client_share) \in Seq(Byte) /\ p(h.session_id) \in Seq(Byte)
        /\ p(h.bridge_share) \in Seq(Byte)
    BY <1>3, <1>5, <1>6
  <2>2. t1(h) \in Seq(Byte)
    BY <2>1, Join
  <2> HIDE DEF t1
  <2>3. t2(h) \in Seq(Byte)
    BY <2>1, <2>2, Join
  <2> HIDE DEF t2
  <2>4. t3(h) \in Seq(Byte)
    BY <2>1, <2>3, Join
  <2> HIDE DEF t3
  <2>5. t4(h) \in Seq(Byte)
    BY <2>1, <2>4, Join
  <2> HIDE DEF t4
  <2>6. t5(h) \in Seq(Byte)
    BY <2>1, <2>5, Join
  <2> HIDE DEF t5
  <2>7. t6(h) \in Seq(Byte)
    BY <1>2, <2>6, Join
  <2> HIDE DEF t6
  <2>8. t7(h) \in Seq(Byte)
    BY <1>4, <1>6, <2>7, Join
  <2> HIDE DEF t7
  <2>9. t8(h) \in Seq(Byte)
    BY <1>2, <2>8, Join
  <2> HIDE DEF t8
  <2>10. t9(h) \in Seq(Byte)
    BY <1>4, <1>6, <2>9, Join
  <2> HIDE DEF t9
  <2>11. t10(h) \in Seq(Byte)
    BY <1>2, <2>10, Join
  <2>12. QED
    BY <2>2, <2>3, <2>4, <2>5, <2>6, <2>7, <2>8, <2>9, <2>10, <2>11
<1> HIDE DEF t1, t2, t3, t4, t5, t6, t7, t8, t9, t10
<1>7. t10(f) = t10(g) /\ ttl(f) = ttl(g)
  <2>1. Cat(t10(f), ttl(f)) = Cat(t10(g), ttl(g))
    BY <1>1
  <2>2. t10(f) \in Seq(Byte) /\ t10(g) \in Seq(Byte)
    BY <1>6
  <2>3. ttl(f) \in Seq(Byte) /\ ttl(g) \in Seq(Byte) /\ Len(ttl(f)) = Len(ttl(g))
    BY <1>4
  <2>4. QED
    BY <2>1, <2>2, <2>3, Back
<1>8. t9(f) = t9(g)
  <2>1. Cat(t9(f), four) = Cat(t9(g), four)
    BY <1>7 DEF t10
  <2>2. t9(f) \in Seq(Byte) /\ t9(g) \in Seq(Byte)
    BY <1>6
  <2>3. QED
    BY <1>2, <2>1, <2>2, Back
<1>9. t8(f) = t8(g) /\ begun(f) = begun(g)
  <2>1. Cat(t8(f), begun(f)) = Cat(t8(g), begun(g))
    BY <1>8 DEF t9
  <2>2. t8(f) \in Seq(Byte) /\ t8(g) \in Seq(Byte)
    BY <1>6
  <2>3. begun(f) \in Seq(Byte) /\ begun(g) \in Seq(Byte) /\ Len(begun(f)) = Len(begun(g))
    BY <1>4
  <2>4. QED
    BY <2>1, <2>2, <2>3, Back
<1>10. t7(f) = t7(g)
  <2>1. Cat(t7(f), eight) = Cat(t7(g), eight)
    BY <1>9 DEF t8
  <2>2. t7(f) \in Seq(Byte) /\ t7(g) \in Seq(Byte)
    BY <1>6
  <2>3. QED
    BY <1>2, <2>1, <2>2, Back
<1>11. t6(f) = t6(g) /\ issued(f) = issued(g)
  <2>1. Cat(t6(f), issued(f)) = Cat(t6(g), issued(g))
    BY <1>10 DEF t7
  <2>2. t6(f) \in Seq(Byte) /\ t6(g) \in Seq(Byte)
    BY <1>6
  <2>3. issued(f) \in Seq(Byte) /\ issued(g) \in Seq(Byte) /\ Len(issued(f)) = Len(issued(g))
    BY <1>4
  <2>4. QED
    BY <2>1, <2>2, <2>3, Back
<1>12. t5(f) = t5(g)
  <2>1. Cat(t5(f), eight) = Cat(t5(g), eight)
    BY <1>11 DEF t6
  <2>2. t5(f) \in Seq(Byte) /\ t5(g) \in Seq(Byte)
    BY <1>6
  <2>3. QED
    BY <1>2, <2>1, <2>2, Back
<1>13. t4(f) = t4(g) /\ p(f.bridge_share) = p(g.bridge_share)
  <2>1. Cat(t4(f), p(f.bridge_share)) = Cat(t4(g), p(g.bridge_share))
    BY <1>12 DEF t5
  <2>2. t4(f) \in Seq(Byte) /\ t4(g) \in Seq(Byte)
    BY <1>6
  <2>3. p(f.bridge_share) \in Seq(Byte) /\ p(g.bridge_share) \in Seq(Byte) /\ Len(p(f.bridge_share)) = Len(p(g.bridge_share))
    BY <1>3, <1>5
  <2>4. QED
    BY <2>1, <2>2, <2>3, Back
<1>14. t3(f) = t3(g) /\ p(f.session_id) = p(g.session_id)
  <2>1. Cat(t3(f), p(f.session_id)) = Cat(t3(g), p(g.session_id))
    BY <1>13 DEF t4
  <2>2. t3(f) \in Seq(Byte) /\ t3(g) \in Seq(Byte)
    BY <1>6
  <2>3. p(f.session_id) \in Seq(Byte) /\ p(g.session_id) \in Seq(Byte) /\ Len(p(f.session_id)) = Len(p(g.session_id))
    BY <1>3, <1>5
  <2>4. QED
    BY <2>1, <2>2, <2>3, Back
<1>15. t2(f) = t2(g) /\ p(f.client_share) = p(g.client_share)
  <2>1. Cat(t2(f), p(f.client_share)) = Cat(t2(g), p(g.client_share))
    BY <1>14 DEF t3
  <2>2. t2(f) \in Seq(Byte) /\ t2(g) \in Seq(Byte)
    BY <1>6
  <2>3. p(f.client_share) \in Seq(Byte) /\ p(g.client_share) \in Seq(Byte) /\ Len(p(f.client_share)) = Len(p(g.client_share))
    BY <1>3, <1>5
  <2>4. QED
    BY <2>1, <2>2, <2>3, Back
<1>16. t1(f) = t1(g) /\ p(f.client_pub) = p(g.client_pub)
  <2>1. Cat(t1(f), p(f.client_pub)) = Cat(t1(g), p(g.client_pub))
    BY <1>15 DEF t2
  <2>2. t1(f) \in Seq(Byte) /\ t1(g) \in Seq(Byte)
    BY <1>6
  <2>3. p(f.client_pub) \in Seq(Byte) /\ p(g.client_pub) \in Seq(Byte) /\ Len(p(f.client_pub)) = Len(p(g.client_pub))
    BY <1>3, <1>5
  <2>4. QED
    BY <2>1, <2>2, <2>3, Back
<1>17. p(f.client_nonce) = p(g.client_nonce)
  <2>1. Cat(Header, p(f.client_nonce)) = Cat(Header, p(g.client_nonce))
    BY <1>16 DEF t1
  <2>2. p(f.client_nonce) \in Seq(Byte) /\ p(g.client_nonce) \in Seq(Byte)
    BY <1>3, <1>5
  <2>3. QED
    BY <2>1, <2>2, Front
<1>18. /\ Unsigned(f.issued_at) = Unsigned(g.issued_at)
       /\ f.bridge_issued_at = g.bridge_issued_at /\ f.ttl = g.ttl
  BY <1>3, <1>7, <1>9, <1>11, Be64Decides, Be32Decides DEF issued, begun, ttl
<1>19. /\ f.client_nonce = g.client_nonce /\ f.client_pub = g.client_pub
       /\ f.client_share = g.client_share /\ f.session_id = g.session_id
       /\ f.bridge_share = g.bridge_share
  BY <1>3, <1>13, <1>14, <1>15, <1>16, <1>17, PrefixedDecides DEF p
<1>20. QED
  BY <1>18, <1>19
-----------------------------------------------------------------------------
\* An envelope decides its parts.
LEMMA EnvelopeDecides ==
    ASSUME NEW f, NEW g, Sealed(f), Sealed(g), Envelope(f) = Envelope(g)
    PROVE  /\ f.ephemeral = g.ephemeral /\ f.iv = g.iv /\ f.tag = g.tag
           /\ f.ciphertext = g.ciphertext
<1> DEFINE head == <<1, 1, 33>>
           e1(h) == Cat(head, h.ephemeral)
           e2(h) == Cat(e1(h), h.iv)
           e3(h) == Cat(e2(h), h.tag)
<1>1. ASSUME NEW h PROVE Envelope(h) = Cat(e3(h), h.ciphertext)
  BY Zenon DEF Envelope, Cat
<1>2. head \in Seq(Byte)
  BY DEF Byte
<1>3. ASSUME NEW h, Sealed(h)
      PROVE  /\ h.ephemeral \in Seq(Byte) /\ Len(h.ephemeral) = 33
             /\ h.iv \in Seq(Byte) /\ Len(h.iv) = 12
             /\ h.tag \in Seq(Byte) /\ Len(h.tag) = 16
             /\ h.ciphertext \in Seq(Byte)
  BY <1>3 DEF Sealed, Bytes
<1> HIDE DEF head
<1>4. ASSUME NEW h, Sealed(h)
      PROVE  /\ e1(h) \in Seq(Byte) /\ Len(e1(h)) = Len(head) + Len(h.ephemeral)
             /\ e2(h) \in Seq(Byte) /\ Len(e2(h)) = Len(e1(h)) + Len(h.iv)
             /\ e3(h) \in Seq(Byte) /\ Len(e3(h)) = Len(e2(h)) + Len(h.tag)
  <2>1. e1(h) \in Seq(Byte) /\ Len(e1(h)) = Len(head) + Len(h.ephemeral)
    BY <1>2, <1>3, <1>4, Join
  <2> HIDE DEF e1
  <2>2. e2(h) \in Seq(Byte) /\ Len(e2(h)) = Len(e1(h)) + Len(h.iv)
    BY <1>3, <1>4, <2>1, Join
  <2> HIDE DEF e2
  <2>3. e3(h) \in Seq(Byte) /\ Len(e3(h)) = Len(e2(h)) + Len(h.tag)
    BY <1>3, <1>4, <2>2, Join
  <2> HIDE DEF e3
  <2>4. QED
    BY <2>1, <2>2, <2>3
<1> HIDE DEF e1, e2, e3
<1>5. Len(e3(f)) = Len(e3(g))
  <2>1. Len(e1(f)) = Len(e1(g))
    BY <1>3, <1>4
  <2>2. Len(e2(f)) = Len(e2(g))
    BY <1>3, <1>4, <2>1
  <2>3. QED
    BY <1>3, <1>4, <2>2
<1>6. e3(f) = e3(g) /\ f.ciphertext = g.ciphertext
  <2>1. Cat(e3(f), f.ciphertext) = Cat(e3(g), g.ciphertext)
    BY <1>1
  <2>2. QED
    BY <1>3, <1>4, <1>5, <2>1, Front
<1>7. e2(f) = e2(g) /\ f.tag = g.tag
  <2>1. Cat(e2(f), f.tag) = Cat(e2(g), g.tag)
    BY <1>6 DEF e3
  <2>2. QED
    BY <1>3, <1>4, <2>1, Back
<1>8. e1(f) = e1(g) /\ f.iv = g.iv
  <2>1. Cat(e1(f), f.iv) = Cat(e1(g), g.iv)
    BY <1>7 DEF e2
  <2>2. QED
    BY <1>3, <1>4, <2>1, Back
<1>9. f.ephemeral = g.ephemeral
  <2>1. Cat(head, f.ephemeral) = Cat(head, g.ephemeral)
    BY <1>8 DEF e1
  <2>2. QED
    BY <1>2, <1>3, <2>1, Front
<1>10. QED
  BY <1>6, <1>7, <1>8, <1>9
-----------------------------------------------------------------------------
\* What is on the wire is what was said.
Faithful == said \in Statements /\ bytes = Encode(said)

LEMMA FaithfulInvariant == EncodingSpec => []Faithful
<1>1. EncodingInit => Faithful
  BY DEF EncodingInit, Faithful
<1>2. Faithful /\ [Say]_encodingVars => Faithful'
  BY DEF Say, Faithful, encodingVars, Statements, Encode
<1>3. QED
  BY <1>1, <1>2, PTL DEF EncodingSpec

\* For every set of statements: the bytes decide the fields (session.rs,
\* build_deliver_aad and build_transcript; ecies.rs, ecies_encrypt).
THEOREM EncodingDecides == EncodingSpec => BytesDecide
<1> DEFINE A == said'.kind = said.kind /\ bytes' = bytes =>
                    IF said.kind = "register"
                    THEN [said' EXCEPT !.issued_at = Unsigned(@)]
                            = [said EXCEPT !.issued_at = Unsigned(@)]
                    ELSE said' = said
<1>1. ASSUME Faithful, Say, said'.kind = said.kind, bytes' = bytes
      PROVE  IF said.kind = "register"
             THEN [said' EXCEPT !.issued_at = Unsigned(@)]
                     = [said EXCEPT !.issued_at = Unsigned(@)]
             ELSE said' = said
  <2>1. said \in Statements /\ said' \in Statements /\ Encode(said') = Encode(said)
    BY <1>1 DEF Faithful, Say
  <2>2. ASSUME NEW f, f \in Statements
        PROVE  \/ f.kind = "deliver" /\ Delivery(f)
               \/ f.kind = "register" /\ Registration(f)
               \/ f.kind = "envelope" /\ Sealed(f)
    BY <2>2, EncodingAssumption
       DEF EncodingAssumption, Statements, Delivery, Registration, Sealed
  <2>3. Header \in Seq(Byte)
    BY EncodingAssumption DEF EncodingAssumption, Bytes
  <2>4. CASE said.kind = "deliver"
    <3>1. Delivery(said) /\ Delivery(said')
      BY <1>1, <2>1, <2>2, <2>4
    <3>2. DeliverAad(said') = DeliverAad(said)
      BY <1>1, <2>1, <2>4 DEF Encode
    <3>3. QED
      BY <2>4, <3>1, <3>2, AadDecides DEF Delivery
  <2>5. CASE said.kind = "register"
    <3>1. Registration(said) /\ Registration(said')
      BY <1>1, <2>1, <2>2, <2>5
    <3>2. Transcript(said') = Transcript(said)
      BY <1>1, <2>1, <2>5 DEF Encode
    <3>3. QED
      BY <2>3, <2>5, <3>1, <3>2, TranscriptDecides DEF Registration
  <2>6. CASE said.kind = "envelope"
    <3>1. Sealed(said) /\ Sealed(said')
      BY <1>1, <2>1, <2>2, <2>6
    <3>2. Envelope(said') = Envelope(said)
      BY <1>1, <2>1, <2>6 DEF Encode
    <3>3. QED
      BY <2>6, <3>1, <3>2, EnvelopeDecides DEF Sealed
  <2>7. QED
    BY <2>1, <2>2, <2>4, <2>5, <2>6
<1>2. Faithful /\ [Say]_encodingVars => [A]_encodingVars
  BY <1>1
<1>3. QED
  BY <1>2, FaithfulInvariant, PTL DEF EncodingSpec, BytesDecide
-----------------------------------------------------------------------------
\* A byte string e holds s behind its first k bytes.
Holds(e, k, s) == \A i \in 1..Len(s) : e[k + i] = s[i]

LEMMA HoldsBoth ==
    ASSUME NEW a \in Seq(Byte), NEW b \in Seq(Byte)
    PROVE  Holds(Cat(a, b), 0, a) /\ Holds(Cat(a, b), Len(a), b)
<1>1. Len(a) \in Nat /\ Len(b) \in Nat
  BY LenProperties
<1>2. \A i \in 1..Len(a) + Len(b) :
          Cat(a, b)[i] = IF i <= Len(a) THEN a[i] ELSE b[i - Len(a)]
  BY ConcatProperties DEF Cat
<1>3. ASSUME NEW i \in 1..Len(a)
      PROVE  Cat(a, b)[0 + i] = a[i]
  BY <1>1, <1>2
<1>4. ASSUME NEW i \in 1..Len(b)
      PROVE  Cat(a, b)[Len(a) + i] = b[i]
  <2>1. /\ Len(a) + i \in 1..Len(a) + Len(b) /\ ~(Len(a) + i <= Len(a))
        /\ (Len(a) + i) - Len(a) = i
    BY <1>1
  <2>2. QED
    BY <1>2, <2>1
<1>5. QED
  BY <1>3, <1>4 DEF Holds

LEMMA HoldsStill ==
    ASSUME NEW a \in Seq(Byte), NEW b \in Seq(Byte), NEW s \in Seq(Byte), NEW k \in Nat,
           k + Len(s) <= Len(a), Holds(a, k, s)
    PROVE  Holds(Cat(a, b), k, s)
<1>1. Len(a) \in Nat /\ Len(s) \in Nat
  BY LenProperties
<1>2. \A i \in 1..Len(a) : Cat(a, b)[0 + i] = a[i]
  BY HoldsBoth DEF Holds
<1>3. ASSUME NEW i \in 1..Len(s)
      PROVE  Cat(a, b)[k + i] = s[i]
  <2>1. k + i \in 1..Len(a) /\ 0 + (k + i) = k + i
    BY <1>1
  <2>2. QED
    BY <1>2, <2>1 DEF Holds
<1>4. QED
  BY <1>3 DEF Holds

LEMMA PrefixHolds ==
    ASSUME NEW e \in Seq(Byte), NEW n \in 0..Len(e), NEW s \in Seq(Byte), NEW k \in Nat,
           k + Len(s) <= n, Holds(e, k, s)
    PROVE  /\ SubSeq(e, 1, n) \in Seq(Byte) /\ Len(SubSeq(e, 1, n)) = n
           /\ Holds(SubSeq(e, 1, n), k, s)
<1>1. Len(e) \in Nat /\ Len(s) \in Nat
  BY LenProperties
<1>2. \A i \in 1..n : e[i] \in Byte
  BY <1>1, ElementOfSeq
<1>3. /\ SubSeq(e, 1, n) \in Seq(Byte) /\ Len(SubSeq(e, 1, n)) = n
      /\ \A i \in 1..n : SubSeq(e, 1, n)[i] = e[i]
  BY <1>1, <1>2, SubSeqProperties
<1> DEFINE p == SubSeq(e, 1, n)
<1> HIDE DEF p
<1>4. ASSUME NEW i \in 1..Len(s)
      PROVE  p[k + i] = s[i]
  <2>1. k + i \in 1..n
    BY <1>1
  <2>2. QED
    BY <1>3, <2>1 DEF Holds, p
<1>5. QED
  BY <1>3, <1>4 DEF Holds, p

\* A part is found again where it is held.
LEMMA CutOut ==
    ASSUME NEW p \in Seq(Byte), NEW s \in Seq(Byte), NEW k \in Nat,
           k + Len(s) <= Len(p), Holds(p, k, s)
    PROVE  SubSeq(p, k + 1, k + Len(s)) = s
<1>1. Len(p) \in Nat /\ Len(s) \in Nat
  BY LenProperties
<1>2. \A i \in k + 1..k + Len(s) : p[i] \in Byte
  BY <1>1, ElementOfSeq
<1>3. SubSeq(p, k + 1, k + Len(s)) \in Seq(Byte)
  BY <1>1, <1>2, SubSeqProperties
<1>4. PICK m \in Int, n \in Int : m = k + 1 /\ n = k + Len(s)
  BY <1>1
<1>5. n - m + 1 = Len(s) /\ (m <= n \/ Len(s) = 0)
  BY <1>1, <1>4
<1>6. \A i \in m..n : p[i] \in Byte
  BY <1>2, <1>4
<1> DEFINE c == SubSeq(p, m, n)
<1>7. /\ c \in Seq(Byte)
      /\ Len(c) = Len(s)
      /\ \A i \in 1..n - m + 1 : c[i] = p[m + i - 1]
  BY <1>1, <1>5, <1>6, SubSeqProperties
<1> HIDE DEF c
<1>8. ASSUME NEW i \in 1..Len(s)
      PROVE  c[i] = s[i]
  <2>1. m + i - 1 = k + i
    BY <1>1, <1>4
  <2>2. QED
    BY <1>5, <1>7, <2>1 DEF Holds
<1>9. c = s
  BY <1>7, <1>8, SeqEqual
<1>10. QED
  BY <1>4, <1>9 DEF c

\* Where the parts of an envelope are.
LEMMA EnvelopeLayout ==
    ASSUME NEW f, Sealed(f)
    PROVE  /\ Envelope(f) \in Seq(Byte) /\ Len(Envelope(f)) = 64 + Len(f.ciphertext)
           /\ Holds(Envelope(f), 0, <<1, 1, 33>>)
           /\ Holds(Envelope(f), 3, f.ephemeral)
           /\ Holds(Envelope(f), 36, f.iv)
           /\ Holds(Envelope(f), 48, f.tag)
           /\ Holds(Envelope(f), 64, f.ciphertext)
<1>1. PICK head, eph, iv, tag, c :
          /\ head = <<1, 1, 33>> /\ eph = f.ephemeral /\ iv = f.iv /\ tag = f.tag
          /\ c = f.ciphertext
  OBVIOUS
<1>2. /\ head \in Seq(Byte) /\ Len(head) = 3
      /\ eph \in Seq(Byte) /\ Len(eph) = 33
      /\ iv \in Seq(Byte) /\ Len(iv) = 12
      /\ tag \in Seq(Byte) /\ Len(tag) = 16
      /\ c \in Seq(Byte) /\ Len(c) \in Nat
  <2>1. <<1, 1, 33>> \in Seq(Byte) /\ Len(<<1, 1, 33>>) = 3
    BY DEF Byte
  <2>2. QED
    BY <1>1, <2>1 DEF Sealed, Bytes
<1>3. Envelope(f) = Cat(Cat(Cat(Cat(head, eph), iv), tag), c)
  BY <1>1, Zenon DEF Envelope, Cat
<1>4. PICK e1 : e1 = Cat(head, eph)
  OBVIOUS
<1>5. PICK e2 : e2 = Cat(e1, iv)
  OBVIOUS
<1>6. PICK e3 : e3 = Cat(e2, tag)
  OBVIOUS
<1>7. PICK e4 : e4 = Cat(e3, c)
  OBVIOUS
<1>8. /\ e1 \in Seq(Byte) /\ Len(e1) = 36
      /\ Holds(e1, 0, head) /\ Holds(e1, 3, eph)
  <2>1. e1 \in Seq(Byte) /\ Len(e1) = Len(head) + Len(eph)
    BY <1>2, <1>4, Join
  <2>2. Holds(e1, 0, head) /\ Holds(e1, Len(head), eph)
    BY <1>2, <1>4, HoldsBoth
  <2>3. QED
    BY <1>2, <2>1, <2>2
<1>9. /\ e2 \in Seq(Byte) /\ Len(e2) = 48
      /\ Holds(e2, 0, head) /\ Holds(e2, 3, eph) /\ Holds(e2, 36, iv)
  <2>1. e2 \in Seq(Byte) /\ Len(e2) = Len(e1) + Len(iv)
    BY <1>2, <1>5, <1>8, Join
  <2>2. Holds(e2, Len(e1), iv)
    BY <1>2, <1>5, <1>8, HoldsBoth
  <2>3. 0 + Len(head) <= Len(e1) /\ 3 + Len(eph) <= Len(e1)
    BY <1>2, <1>8
  <2>4. Holds(e2, 0, head) /\ Holds(e2, 3, eph)
    BY <1>2, <1>5, <1>8, <2>3, HoldsStill
  <2>5. QED
    BY <1>2, <1>8, <2>1, <2>2, <2>4
<1>10. /\ e3 \in Seq(Byte) /\ Len(e3) = 64
       /\ Holds(e3, 0, head) /\ Holds(e3, 3, eph) /\ Holds(e3, 36, iv) /\ Holds(e3, 48, tag)
  <2>1. e3 \in Seq(Byte) /\ Len(e3) = Len(e2) + Len(tag)
    BY <1>2, <1>6, <1>9, Join
  <2>2. Holds(e3, Len(e2), tag)
    BY <1>2, <1>6, <1>9, HoldsBoth
  <2>3. 0 + Len(head) <= Len(e2) /\ 3 + Len(eph) <= Len(e2) /\ 36 + Len(iv) <= Len(e2)
    BY <1>2, <1>9
  <2>4. Holds(e3, 0, head) /\ Holds(e3, 3, eph) /\ Holds(e3, 36, iv)
    BY <1>2, <1>6, <1>9, <2>3, HoldsStill
  <2>5. QED
    BY <1>2, <1>9, <2>1, <2>2, <2>4
<1>11. /\ e4 \in Seq(Byte) /\ Len(e4) = 64 + Len(c)
       /\ Holds(e4, 0, head) /\ Holds(e4, 3, eph) /\ Holds(e4, 36, iv) /\ Holds(e4, 48, tag)
       /\ Holds(e4, 64, c)
  <2>1. e4 \in Seq(Byte) /\ Len(e4) = Len(e3) + Len(c)
    BY <1>2, <1>7, <1>10, Join
  <2>2. Holds(e4, Len(e3), c)
    BY <1>2, <1>7, <1>10, HoldsBoth
  <2>3. /\ 0 + Len(head) <= Len(e3) /\ 3 + Len(eph) <= Len(e3) /\ 36 + Len(iv) <= Len(e3)
        /\ 48 + Len(tag) <= Len(e3)
    BY <1>2, <1>10
  <2>4. Holds(e4, 0, head) /\ Holds(e4, 3, eph) /\ Holds(e4, 36, iv) /\ Holds(e4, 48, tag)
    BY <1>2, <1>7, <1>10, <2>3, HoldsStill
  <2>5. QED
    BY <1>2, <1>10, <2>1, <2>2, <2>4
<1>12. QED
  BY <1>1, <1>3, <1>4, <1>5, <1>6, <1>7, <1>11

LEMMA OpensEnvelope ==
    ASSUME NEW f, Sealed(f), NEW n \in 0..Len(Envelope(f))
    PROVE  OpenEnvelope(SubSeq(Envelope(f), 1, n)) =
               IF n < 64 THEN Refused
               ELSE [ephemeral |-> f.ephemeral, iv |-> f.iv, tag |-> f.tag,
                     ciphertext |-> SubSeq(f.ciphertext, 1, n - 64)]
<1>1. PICK e : e = Envelope(f)
  OBVIOUS
<1>2. PICK head, eph, iv, tag, c :
          /\ head = <<1, 1, 33>> /\ eph = f.ephemeral /\ iv = f.iv /\ tag = f.tag
          /\ c = f.ciphertext
  OBVIOUS
<1>3. /\ head \in Seq(Byte) /\ Len(head) = 3
      /\ eph \in Seq(Byte) /\ Len(eph) = 33 /\ eph[1] \in {2, 3}
      /\ iv \in Seq(Byte) /\ Len(iv) = 12
      /\ tag \in Seq(Byte) /\ Len(tag) = 16
      /\ c \in Seq(Byte) /\ Len(c) \in Nat
  <2>1. <<1, 1, 33>> \in Seq(Byte) /\ Len(<<1, 1, 33>>) = 3
    BY DEF Byte
  <2>2. QED
    BY <1>2, <2>1 DEF Sealed, Bytes
<1>4. /\ e \in Seq(Byte) /\ Len(e) = 64 + Len(c)
      /\ Holds(e, 0, head) /\ Holds(e, 3, eph) /\ Holds(e, 36, iv) /\ Holds(e, 48, tag)
      /\ Holds(e, 64, c)
  BY <1>1, <1>2, EnvelopeLayout
<1>5. n \in 0..Len(e) /\ n \in Nat
  BY <1>1, <1>3, <1>4
<1>6. PICK p : p = SubSeq(e, 1, n)
  OBVIOUS
<1>7. p \in Seq(Byte) /\ Len(p) = n
  <2>1. \A i \in 1..n : e[i] \in Byte
    BY <1>4, <1>5, ElementOfSeq
  <2>2. QED
    BY <1>5, <1>6, <2>1, SubSeqProperties
<1>8. CASE n < 64
  <2>1. OpenEnvelope(p) = Refused
    BY <1>5, <1>7, <1>8 DEF OpenEnvelope
  <2>2. QED
    BY <1>1, <1>6, <1>8, <2>1
<1>9. CASE n >= 64
  <2>1. /\ 0 + Len(head) <= n /\ 0 + 1 = 1 /\ 0 + Len(head) = 3
        /\ 3 + Len(eph) <= n /\ 3 + 1 = 4 /\ 3 + Len(eph) = 36
        /\ 36 + Len(iv) <= n /\ 36 + 1 = 37 /\ 36 + Len(iv) = 48
        /\ 48 + Len(tag) <= n /\ 48 + 1 = 49 /\ 48 + Len(tag) = 64
    BY <1>3, <1>5, <1>9
  <2>2. /\ Holds(p, 0, head) /\ Holds(p, 3, eph) /\ Holds(p, 36, iv) /\ Holds(p, 48, tag)
    BY <1>3, <1>4, <1>5, <1>6, <2>1, PrefixHolds
  <2>3. SubSeq(p, 1, 3) = head
    <3>1. 0 \in Nat /\ 0 + Len(head) <= Len(p)
      BY <1>7, <2>1
    <3>2. SubSeq(p, 0 + 1, 0 + Len(head)) = head
      BY <1>3, <1>7, <2>2, <3>1, CutOut
    <3>3. QED
      BY <2>1, <3>2, Zenon
  <2>4. SubSeq(p, 4, 36) = eph
    <3>1. 3 \in Nat /\ 3 + Len(eph) <= Len(p)
      BY <1>7, <2>1
    <3>2. SubSeq(p, 3 + 1, 3 + Len(eph)) = eph
      BY <1>3, <1>7, <2>2, <3>1, CutOut
    <3>3. QED
      BY <2>1, <3>2, Zenon
  <2>5. SubSeq(p, 37, 48) = iv
    <3>1. 36 \in Nat /\ 36 + Len(iv) <= Len(p)
      BY <1>7, <2>1
    <3>2. SubSeq(p, 36 + 1, 36 + Len(iv)) = iv
      BY <1>3, <1>7, <2>2, <3>1, CutOut
    <3>3. QED
      BY <2>1, <3>2, Zenon
  <2>6. SubSeq(p, 49, 64) = tag
    <3>1. 48 \in Nat /\ 48 + Len(tag) <= Len(p)
      BY <1>7, <2>1
    <3>2. SubSeq(p, 48 + 1, 48 + Len(tag)) = tag
      BY <1>3, <1>7, <2>2, <3>1, CutOut
    <3>3. QED
      BY <2>1, <3>2, Zenon
  <2>7. p[4] \in {2, 3}
    <3>1. 1 \in 1..Len(eph)
      BY <1>3
    <3>2. p[3 + 1] = eph[1]
      BY <2>2, <3>1, Zenon DEF Holds
    <3>3. p[4] = eph[1]
      BY <2>1, <3>2, Zenon
    <3>4. QED
      BY <1>3, <3>3, Zenon
  <2>8. PICK k \in 0..Len(c) : k = n - 64
    <3>1. Len(e) = 64 + Len(c)
      BY <1>4
    <3>2. n <= Len(e) /\ n \in Nat /\ Len(c) \in Nat
      BY <1>3, <1>5, <3>1
    <3>3. n - 64 \in 0..Len(c)
      BY <1>9, <3>1, <3>2
    <3>4. QED
      BY <3>3
  <2>9. PICK d : d = SubSeq(c, 1, k)
    OBVIOUS
  <2>10. /\ d \in Seq(Byte) /\ Len(d) = k
         /\ \A i \in 1..k : d[i] = c[i]
    <3>1. \A i \in 1..k : c[i] \in Byte
      BY <1>3, ElementOfSeq
    <3>2. QED
      BY <1>3, <2>9, <3>1, SubSeqProperties
  <2>11. 64 + Len(d) = n /\ 64 + 1 = 65
    BY <1>5, <2>8, <2>10
  <2>12. Holds(e, 64, d)
    <3>1. ASSUME NEW i \in 1..Len(d)
          PROVE  e[64 + i] = d[i]
      <4>1. i \in 1..Len(c) /\ i \in 1..k
        BY <1>3, <2>10
      <4>2. e[64 + i] = c[i]
        BY <1>4, <4>1, Zenon DEF Holds
      <4>3. QED
        BY <2>10, <4>1, <4>2, Zenon
    <3>2. QED
      BY <3>1, Zenon DEF Holds
  <2>13. Holds(p, 64, d)
    BY <1>4, <1>5, <1>6, <2>10, <2>11, <2>12, PrefixHolds
  <2>14. SubSeq(p, 65, Len(p)) = d
    <3>1. 64 \in Nat /\ 64 + Len(d) <= Len(p)
      BY <1>5, <1>7, <2>11
    <3>2. SubSeq(p, 64 + 1, 64 + Len(d)) = d
      BY <1>7, <2>10, <2>13, <3>1, CutOut
    <3>3. QED
      BY <1>7, <2>11, <3>2, Zenon
  <2>15. ~(Len(p) < 64)
    <3>1. Len(p) = n
      BY <1>7
    <3>2. ~(n < 64)
      BY <1>5, <1>9
    <3>3. QED
      BY <3>1, <3>2, Zenon
  <2>16. OpenEnvelope(p) = [ephemeral |-> eph, iv |-> iv, tag |-> tag, ciphertext |-> d]
    BY <1>2, <2>3, <2>4, <2>5, <2>6, <2>7, <2>14, <2>15, Zenon DEF OpenEnvelope
  <2>17. QED
    BY <1>1, <1>2, <1>5, <1>6, <1>9, <2>8, <2>9, <2>16
<1>10. QED
  BY <1>5, <1>8, <1>9

\* For every envelope and every place at which it may be cut off (ecies.rs,
\* ecies_decrypt).
THEOREM EnvelopesOpen == EncodingSpec => []EnvelopeOpens
<1>1. Faithful => EnvelopeOpens
  <2> SUFFICES ASSUME Faithful, said.kind = "envelope", NEW n \in 0..Len(bytes)
               PROVE  OpenEnvelope(SubSeq(bytes, 1, n)) =
                          IF n < 64 THEN Refused
                          ELSE [ephemeral |-> said.ephemeral, iv |-> said.iv,
                                tag |-> said.tag,
                                ciphertext |-> SubSeq(said.ciphertext, 1, n - 64)]
    BY DEF EnvelopeOpens
  <2>1. bytes = Envelope(said)
    BY DEF Faithful, Encode
  <2>2. Sealed(said)
    BY EncodingAssumption DEF EncodingAssumption, Faithful, Statements, Delivery, Registration
  <2>3. QED
    BY <2>1, <2>2, OpensEnvelope
<1>2. QED
  BY <1>1, FaithfulInvariant, PTL
=============================================================================
