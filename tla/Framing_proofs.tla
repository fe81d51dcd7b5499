--------------------------- MODULE Framing_proofs ----------------------------
(***************************************************************************)
(* Theorems about Framing: however the bytes of a client are cut into      *)
(* chunks, the server finds the objects that one pass over them would      *)
(* find, and answers each once and in order.  The two recursive functions  *)
(* (the scanner over a string, the reference over the stream) are shown to *)
(* exist by induction, and what is said of each of their values follows by *)
(* induction over the length of what was read.  What is cut off is shown   *)
(* to be an object by a definition that has no scanner, and the work of    *)
(* the server's thread to come to an end.                                  *)
(***************************************************************************)
EXTENDS Framing, SequenceTheorems, FiniteSetTheorems, WellFoundedInduction, TLAPS

-----------------------------------------------------------------------------
\* Induction over a part of the natural numbers.

\* A set of natural numbers has a least element.
LEMMA Least ==
    ASSUME NEW T, T \subseteq Nat, T # {}
    PROVE  Min(T) \in T /\ \A y \in T : Min(T) <= y
<1> DEFINE R == OpToRel(<, Nat)
<1>1. IsWellFoundedOn(R, Nat)
  BY NatLessThanWellFounded
<1>2. \E x \in T : \A y \in T : ~(<<y, x>> \in R)
  <2> HIDE DEF R
  <2> QED
    BY <1>1, WFMin, Zenon
<1>3. PICK x \in T : \A y \in T : ~(<<y, x>> \in R)
  BY <1>2
<1>4. \A y \in T : ~(y < x)
  <2>1. x \in Nat /\ \A y \in T : y \in Nat
    OBVIOUS
  <2>2. ASSUME NEW y \in T, y < x
        PROVE  FALSE
    <3>1. <<y, x>> \in {ss \in Nat \X Nat : ss[1] < ss[2]}
      BY <2>1, <2>2
    <3>2. QED
      BY <1>3, <3>1, Zenon DEF OpToRel
  <2>3. QED
    BY <2>2
<1>5. \A y \in T : x <= y
  BY <1>4
<1>6. QED
  BY <1>5 DEF Min

LEMMA Induct ==
    ASSUME NEW n \in Nat, NEW P, 0 \in P, \A i \in 1..n : i - 1 \in P => i \in P
    PROVE  \A i \in 0..n : i \in P
<1> DEFINE Bad == {i \in 0..n : i \notin P}
<1>1. SUFFICES ASSUME Bad # {} PROVE FALSE
  OBVIOUS
<1>2. PICK m \in Bad : \A i \in Bad : m <= i
  <2>1. Bad \subseteq Nat
    OBVIOUS
  <2>2. QED
    BY <1>1, <2>1, Least
<1>3. m \in 1..n /\ m - 1 \in 0..n
  BY <1>2
<1>4. m - 1 \in P
  <2>1. ~(m <= m - 1)
    BY <1>3
  <2>2. QED
    BY <1>2, <1>3, <2>1
<1>5. QED
  BY <1>2, <1>3, <1>4

\* The function that takes a string a step at a time.
Goes(f, g, n, first, step, s) ==
    f = [i \in 0..n |-> IF i = 0 THEN first ELSE step[<<g[i - 1], s[i]>>]]

Course(n, first, step, s) == CHOOSE f : Goes(f, f, n, first, step, s)

LEMMA GoesAt ==
    ASSUME NEW n \in Nat, NEW first, NEW step, NEW s, NEW f, NEW g,
           Goes(f, g, n, first, step, s)
    PROVE  /\ f[0] = first
           /\ \A i \in 1..n : f[i] = step[<<g[i - 1], s[i]>>]
<1>1. 0 \in 0..n /\ \A i \in 1..n : i \in 0..n /\ i # 0
  OBVIOUS
<1>2. \A i \in 0..n : f[i] = IF i = 0 THEN first ELSE step[<<g[i - 1], s[i]>>]
  BY Zenon DEF Goes
<1>3. QED
  BY <1>1, <1>2, Zenon

LEMMA CourseExists ==
    ASSUME NEW n \in Nat, NEW first, NEW step, NEW s
    PROVE  \E f : Goes(f, f, n, first, step, s)
<1> DEFINE P == {m \in 0..n : \E f : Goes(f, f, m, first, step, s)}
<1>1. 0 \in P
  <2>1. PICK f : f = [i \in 0..0 |-> first]
    OBVIOUS
  <2>2. Goes(f, f, 0, first, step, s)
    BY <2>1 DEF Goes
  <2>3. 0 \in 0..n
    OBVIOUS
  <2>4. QED
    BY <2>2, <2>3, Zenon
<1>2. ASSUME NEW m \in 1..n, m - 1 \in P
      PROVE  m \in P
  <2>1. PICK g : Goes(g, g, m - 1, first, step, s)
    BY <1>2
  <2>2. PICK f : Goes(f, g, m, first, step, s)
    <3>1. PICK h : h = [i \in 0..m |-> IF i = 0 THEN first ELSE step[<<g[i - 1], s[i]>>]]
      OBVIOUS
    <3>2. Goes(h, g, m, first, step, s)
      BY <3>1 DEF Goes
    <3>3. QED
      BY <3>2, Zenon
  <2>3. \A i \in 0..m - 1 : f[i] = g[i]
    <3>1. m \in Nat /\ m - 1 \in Nat
      OBVIOUS
    <3>2. /\ f[0] = first
          /\ \A i \in 1..m : f[i] = step[<<g[i - 1], s[i]>>]
      BY <2>2, <3>1, GoesAt
    <3>3. /\ g[0] = first
          /\ \A i \in 1..m - 1 : g[i] = step[<<g[i - 1], s[i]>>]
      BY <2>1, <3>1, GoesAt
    <3>4. \A i \in 0..m - 1 : i = 0 \/ (i \in 1..m /\ i \in 1..m - 1)
      OBVIOUS
    <3>5. QED
      BY <3>2, <3>3, <3>4
  <2>4. \A i \in 0..m : i # 0 => f[i - 1] = g[i - 1]
    <3>1. \A i \in 0..m : i # 0 => i - 1 \in 0..m - 1
      OBVIOUS
    <3>2. QED
      BY <2>3, <3>1
  <2>5. Goes(f, f, m, first, step, s)
    BY <2>2, <2>4 DEF Goes
  <2>6. m \in 0..n
    OBVIOUS
  <2>7. QED
    BY <2>5, <2>6, Zenon
<1> HIDE DEF P
<1>3. n \in P
  <2>1. \A i \in 0..n : i \in P
    BY <1>1, <1>2, Induct
  <2>2. QED
    BY <2>1
<1>4. QED
  BY <1>3, Zenon DEF P

LEMMA CourseGoes ==
    ASSUME NEW n \in Nat, NEW first, NEW step, NEW s
    PROVE  LET f == Course(n, first, step, s) IN
           /\ f[0] = first
           /\ \A i \in 1..n : f[i] = step[<<f[i - 1], s[i]>>]
<1> DEFINE f == Course(n, first, step, s)
<1>1. Goes(f, f, n, first, step, s)
  BY CourseExists, Zenon DEF Course
<1> HIDE DEF f
<1>2. f[0] = first /\ \A i \in 1..n : f[i] = step[<<f[i - 1], s[i]>>]
  BY <1>1, GoesAt
<1>3. QED
  BY <1>2 DEF f
-----------------------------------------------------------------------------
\* The scanner.

LEMMA BytesDiffer ==
    /\ Opening # Closing /\ Opening # Quote
    /\ Closing # Quote /\ Backslash # Quote
BY Zenon DEF Opening, Closing, Quote, Backslash

LEMMA DepthType ==
    ASSUME NEW d \in Nat, NEW b \in Byte
    PROVE  Depth(d, b) \in Nat
BY DEF Depth

LEMMA ScanInString ==
    ASSUME NEW a \in Scanner, NEW b \in Byte, a.in_string
    PROVE  /\ Scan(a, b) \in Scanner
           /\ Scan(a, b).depth = a.depth
           /\ Scan(a, b).in_string <=> b # Quote \/ a.escape
           /\ Scan(a, b).escape <=> b = Backslash /\ ~a.escape
<1>1. /\ a.depth \in Nat /\ a.in_string \in BOOLEAN /\ a.escape \in BOOLEAN
      /\ a = [depth |-> a.depth, in_string |-> a.in_string, escape |-> a.escape]
  BY DEF Scanner
<1>2. PICK d \in Nat : d = a.depth
  BY <1>1
<1>3. PICK i \in BOOLEAN : i = (b # Quote \/ a.escape)
  OBVIOUS
<1>4. PICK e \in BOOLEAN : e = (b = Backslash /\ ~a.escape)
  OBVIOUS
<1>5. Scan(a, b) = [a EXCEPT !.escape = e, !.in_string = i]
  BY <1>3, <1>4, Zenon DEF Scan
<1>6. Scan(a, b) = [depth |-> d, in_string |-> i, escape |-> e]
  BY <1>1, <1>2, <1>5
<1>7. Scan(a, b) \in Scanner
  BY <1>6 DEF Scanner
<1>8. Scan(a, b).depth = d /\ Scan(a, b).in_string = i /\ Scan(a, b).escape = e
  BY <1>6
<1>9. QED
  BY <1>2, <1>3, <1>4, <1>7, <1>8, Zenon

LEMMA ScanOutOfString ==
    ASSUME NEW a \in Scanner, NEW b \in Byte, ~a.in_string
    PROVE  /\ Scan(a, b) \in Scanner
           /\ Scan(a, b).depth = Depth(a.depth, b)
           /\ Scan(a, b).in_string <=> b = Quote /\ a.depth > 0
           /\ Scan(a, b).escape <=> a.escape
<1>1. /\ a.depth \in Nat /\ a.in_string \in BOOLEAN /\ a.escape \in BOOLEAN
      /\ a = [depth |-> a.depth, in_string |-> a.in_string, escape |-> a.escape]
  BY DEF Scanner
<1>2. PICK d \in Nat : d = Depth(a.depth, b)
  BY <1>1, DepthType
<1>3. PICK i \in BOOLEAN : i = (b = Quote /\ a.depth > 0)
  OBVIOUS
<1>4. PICK e \in BOOLEAN : e = a.escape
  BY <1>1
<1>5. Scan(a, b) = [a EXCEPT !.in_string = i, !.depth = d]
  BY <1>2, <1>3, Zenon DEF Scan
<1>6. Scan(a, b) = [depth |-> d, in_string |-> i, escape |-> e]
  BY <1>1, <1>4, <1>5
<1>7. Scan(a, b) \in Scanner
  BY <1>6 DEF Scanner
<1>8. Scan(a, b).depth = d /\ Scan(a, b).in_string = i /\ Scan(a, b).escape = e
  BY <1>6
<1>9. QED
  BY <1>2, <1>3, <1>4, <1>7, <1>8, Zenon

LEMMA ScanType ==
    ASSUME NEW a \in Scanner, NEW b \in Byte
    PROVE  Scan(a, b) \in Scanner
BY ScanInString, ScanOutOfString

\* Outside an object there is no string, and outside a string no escape.
Sound(a) == (a.depth = 0 => ~a.in_string) /\ (~a.in_string => ~a.escape)

LEMMA ScanSound ==
    ASSUME NEW a \in Scanner, NEW b \in Byte, Sound(a)
    PROVE  Sound(Scan(a, b))
<1>1. CASE a.in_string
  <2>1. Scan(a, b).depth # 0
    BY <1>1, ScanInString DEF Sound
  <2>2. Scan(a, b).in_string <=> b # Quote \/ a.escape
    BY <1>1, ScanInString
  <2>3. Scan(a, b).escape <=> b = Backslash /\ ~a.escape
    BY <1>1, ScanInString
  <2>4. QED
    BY <2>1, <2>2, <2>3, BytesDiffer DEF Sound
<1>2. CASE ~a.in_string
  <2>1. Scan(a, b).depth = Depth(a.depth, b)
    BY <1>2, ScanOutOfString
  <2>2. Scan(a, b).in_string <=> b = Quote /\ a.depth > 0
    BY <1>2, ScanOutOfString
  <2>3. ~Scan(a, b).escape
    BY <1>2, ScanOutOfString DEF Sound
  <2>4. ASSUME b = Quote, a.depth > 0
        PROVE  Depth(a.depth, b) # 0
    BY <2>4, BytesDiffer DEF Depth
  <2>5. QED
    BY <2>1, <2>2, <2>3, <2>4 DEF Sound
<1>3. QED
  BY <1>1, <1>2

\* At depth 0 there is one state of the scanner.
LEMMA OneOutside ==
    ASSUME NEW a \in Scanner, Sound(a), a.depth = 0
    PROVE  a = Outside
<1>1. a = [depth |-> a.depth, in_string |-> a.in_string, escape |-> a.escape]
  BY DEF Scanner
<1>2. a.in_string = FALSE /\ a.escape = FALSE
  <2>1. a.in_string \in BOOLEAN /\ a.escape \in BOOLEAN
    BY DEF Scanner
  <2>2. ~a.in_string /\ ~a.escape
    BY DEF Sound
  <2>3. QED
    BY <2>1, <2>2
<1>3. QED
  BY <1>1, <1>2 DEF Outside

\* From outside, an object is entered by its brace and by nothing else.
LEMMA ScanFromOutside ==
    ASSUME NEW b \in Byte
    PROVE  /\ Outside \in Scanner /\ Sound(Outside)
           /\ b # Opening => Scan(Outside, b) = Outside
           /\ b = Opening => Scan(Outside, b).depth = 1
<1>1. Outside \in Scanner /\ Sound(Outside) /\ ~Outside.in_string /\ Outside.depth = 0
  BY DEF Outside, Scanner, Sound
<1>2. Scan(Outside, b).depth = Depth(0, b)
  BY <1>1, ScanOutOfString
<1>3. Scan(Outside, b) \in Scanner /\ Sound(Scan(Outside, b))
  BY <1>1, ScanType, ScanSound
<1>4. (b # Opening => Depth(0, b) = 0) /\ (b = Opening => Depth(0, b) = 1)
  BY DEF Depth
<1>5. QED
  BY <1>1, <1>2, <1>3, <1>4, OneOutside

LEMMA ScanOfGoes ==
    ASSUME NEW s \in Seq(Byte)
    PROVE  /\ ScanOf(s)[0] = Outside
           /\ \A i \in 0..Len(s) : ScanOf(s)[i] \in Scanner /\ Sound(ScanOf(s)[i])
           /\ \A i \in 1..Len(s) : ScanOf(s)[i] = Scan(ScanOf(s)[i - 1], s[i])
<1> DEFINE step == [p \in Scanner \X Byte |-> Scan(p[1], p[2])]
<1>1. PICK f : f = ScanOf(s)
  OBVIOUS
<1>2. PICK n \in Nat : n = Len(s)
  OBVIOUS
<1>3. \A i \in 1..n : s[i] \in Byte
  BY <1>2
<1>4. f = Course(n, Outside, step, s)
  BY <1>1, <1>2 DEF ScanOf, Course, Goes
<1>5. f[0] = Outside /\ \A i \in 1..n : f[i] = step[<<f[i - 1], s[i]>>]
  <2> HIDE DEF step
  <2>1. QED
    BY <1>4, CourseGoes
<1>6. \A a \in Scanner, b \in Byte : step[<<a, b>>] = Scan(a, b)
  OBVIOUS
<1> HIDE DEF step
<1>7. \A i \in 0..n : f[i] \in Scanner /\ Sound(f[i])
  <2> DEFINE P == {i \in 0..n : f[i] \in Scanner /\ Sound(f[i])}
  <2>1. 0 \in P
    <3>1. f[0] \in Scanner /\ Sound(f[0])
      BY <1>5 DEF Outside, Scanner, Sound
    <3>2. QED
      BY <3>1
  <2>2. ASSUME NEW i \in 1..n, i - 1 \in P
        PROVE  i \in P
    <3>1. f[i - 1] \in Scanner /\ Sound(f[i - 1]) /\ s[i] \in Byte
      BY <1>3, <2>2
    <3>2. f[i] = Scan(f[i - 1], s[i])
      BY <1>5, <1>6, <3>1
    <3>3. f[i] \in Scanner /\ Sound(f[i])
      BY <3>1, <3>2, ScanType, ScanSound
    <3>4. QED
      BY <3>3
  <2> HIDE DEF P
  <2>3. \A i \in 0..n : i \in P
    BY <2>1, <2>2, Induct
  <2>4. QED
    BY <2>3 DEF P
<1>8. \A i \in 1..n : f[i] = Scan(f[i - 1], s[i])
  <2>1. \A i \in 1..n : i - 1 \in 0..n
    OBVIOUS
  <2>2. QED
    BY <1>3, <1>5, <1>6, <1>7, <2>1
<1>9. QED
  BY <1>1, <1>2, <1>5, <1>7, <1>8
-----------------------------------------------------------------------------
\* The reference, one byte at a time.

LEMMA FeedGoes ==
    ASSUME NEW r \in Reading, NEW b \in Byte
    PROVE  /\ Feed(r, b) \in Reading
           /\ Feed(r, b).scan = Scan(r.scan, b)
           /\ Feed(r, b).object =
                IF Scan(r.scan, b).depth > 0 THEN Append(r.object, b) ELSE <<>>
           /\ Feed(r, b).objects =
                IF r.scan.depth > 0 /\ Scan(r.scan, b).depth = 0
                THEN Append(r.objects, Append(r.object, b)) ELSE r.objects
<1>1. /\ r.scan \in Scanner /\ r.object \in Seq(Byte) /\ r.objects \in Seq(Seq(Byte))
  BY DEF Reading
<1>2. PICK c \in Scanner : c = Scan(r.scan, b)
  BY <1>1, ScanType
<1>3. PICK o \in Seq(Byte) : o = Append(r.object, b)
  BY <1>1, AppendProperties
<1>4. PICK os \in Seq(Seq(Byte)) : os = Append(r.objects, o)
  BY <1>1, AppendProperties
<1>5. PICK k \in Seq(Byte) : k = IF c.depth > 0 THEN o ELSE <<>>
  BY EmptySeq
<1>6. PICK ks \in Seq(Seq(Byte)) : ks = IF r.scan.depth > 0 /\ c.depth = 0 THEN os ELSE r.objects
  BY <1>1
<1>7. Feed(r, b) = [scan |-> c, object |-> k, objects |-> ks]
  BY <1>2, <1>3, <1>4, <1>5, <1>6, Zenon DEF Feed
<1>8. Feed(r, b) \in Reading /\ Feed(r, b).scan = c /\ Feed(r, b).object = k
      /\ Feed(r, b).objects = ks
  BY <1>7 DEF Reading
<1>9. QED
  BY <1>2, <1>3, <1>4, <1>5, <1>6, <1>8, Zenon

LEMMA BlankType == Blank \in Reading /\ Sound(Blank.scan)
<1>1. Outside \in Scanner /\ Sound(Outside)
  BY DEF Outside, Scanner, Sound
<1>2. <<>> \in Seq(Byte) /\ <<>> \in Seq(Seq(Byte))
  BY EmptySeq
<1>3. QED
  BY <1>1, <1>2 DEF Blank, Reading

LEMMA ReadingOfGoes ==
    ASSUME NEW s \in Seq(Byte)
    PROVE  /\ ReadingOf(s)[0] = Blank
           /\ \A i \in 0..Len(s) : ReadingOf(s)[i] \in Reading /\ Sound(ReadingOf(s)[i].scan)
           /\ \A i \in 1..Len(s) : ReadingOf(s)[i] = Feed(ReadingOf(s)[i - 1], s[i])
<1> DEFINE step == [p \in Reading \X Byte |-> Feed(p[1], p[2])]
<1>1. PICK f : f = ReadingOf(s)
  OBVIOUS
<1>2. PICK n \in Nat : n = Len(s)
  OBVIOUS
<1>3. \A i \in 1..n : s[i] \in Byte
  BY <1>2
<1>4. f = Course(n, Blank, step, s)
  BY <1>1, <1>2 DEF ReadingOf, Course, Goes
<1>5. f[0] = Blank /\ \A i \in 1..n : f[i] = step[<<f[i - 1], s[i]>>]
  <2> HIDE DEF step
  <2>1. QED
    BY <1>4, CourseGoes
<1>6. \A a \in Reading, b \in Byte : step[<<a, b>>] = Feed(a, b)
  OBVIOUS
<1> HIDE DEF step
<1>7. \A i \in 0..n : f[i] \in Reading /\ Sound(f[i].scan)
  <2> DEFINE P == {i \in 0..n : f[i] \in Reading /\ Sound(f[i].scan)}
  <2>1. 0 \in P
    BY <1>5, BlankType
  <2>2. ASSUME NEW i \in 1..n, i - 1 \in P
        PROVE  i \in P
    <3>1. f[i - 1] \in Reading /\ Sound(f[i - 1].scan) /\ s[i] \in Byte
      BY <1>3, <2>2
    <3>2. f[i] = Feed(f[i - 1], s[i])
      BY <1>5, <1>6, <3>1
    <3>3. f[i - 1].scan \in Scanner
      BY <3>1 DEF Reading
    <3>4. f[i] \in Reading /\ Sound(f[i].scan)
      BY <3>1, <3>2, <3>3, FeedGoes, ScanSound
    <3>5. QED
      BY <3>4
  <2> HIDE DEF P
  <2>3. \A i \in 0..n : i \in P
    BY <2>1, <2>2, Induct
  <2>4. QED
    BY <2>3 DEF P
<1>8. \A i \in 1..n : f[i] = Feed(f[i - 1], s[i])
  <2>1. \A i \in 1..n : i - 1 \in 0..n
    OBVIOUS
  <2>2. QED
    BY <1>3, <1>5, <1>6, <1>7, <2>1
<1>9. QED
  BY <1>1, <1>2, <1>5, <1>7, <1>8

\* One list continues another.
Extends(p, q) == Len(p) <= Len(q) /\ \A i \in 1..Len(p) : q[i] = p[i]

LEMMA AppendExtends ==
    ASSUME NEW S, NEW p \in Seq(S), NEW x \in S, NEW q \in Seq(S), q = Append(p, x)
    PROVE  Extends(p, q)
<1>1. Len(q) = Len(p) + 1 /\ \A i \in 1..Len(p) : q[i] = p[i]
  BY AppendProperties
<1>2. Len(p) \in Nat
  OBVIOUS
<1>3. QED
  BY <1>1, <1>2 DEF Extends

LEMMA ExtendsTransitive ==
    ASSUME NEW p, NEW q, NEW r, Len(p) \in Nat, Len(q) \in Nat, Len(r) \in Nat,
           Extends(p, q), Extends(q, r)
    PROVE  Extends(p, r)
BY DEF Extends

\* What was found stays found.
LEMMA FoundStays ==
    ASSUME NEW s \in Seq(Byte), NEW i \in 0..Len(s), NEW j \in i..Len(s)
    PROVE  Extends(ReadingOf(s)[i].objects, ReadingOf(s)[j].objects)
<1>1. PICK n \in Nat : n = Len(s)
  OBVIOUS
<1>2. PICK f : f = ReadingOf(s)
  OBVIOUS
<1>3. \A k \in 0..n : f[k] \in Reading
  BY <1>1, <1>2, ReadingOfGoes
<1>4. \A k \in 0..n : f[k].objects \in Seq(Seq(Byte)) /\ Len(f[k].objects) \in Nat
  BY <1>3 DEF Reading
<1>5. \A k \in 1..n : Extends(f[k - 1].objects, f[k].objects)
  <2> TAKE k \in 1..n
  <2>1. s[k] \in Byte /\ k - 1 \in 0..n /\ k \in 0..n
    BY <1>1
  <2>2. f[k] = Feed(f[k - 1], s[k])
    BY <1>1, <1>2, ReadingOfGoes
  <2>3. f[k - 1] \in Reading /\ f[k] \in Reading
    BY <1>3, <2>1
  <2>4. PICK o \in Seq(Byte) : o = Append(f[k - 1].object, s[k])
    <3>1. f[k - 1].object \in Seq(Byte)
      BY <2>3 DEF Reading
    <3>2. QED
      BY <2>1, <3>1, AppendProperties
  <2>5. \/ f[k].objects = f[k - 1].objects
        \/ f[k].objects = Append(f[k - 1].objects, o)
    <3>1. Feed(f[k - 1], s[k]).objects =
            IF f[k - 1].scan.depth > 0 /\ Scan(f[k - 1].scan, s[k]).depth = 0
            THEN Append(f[k - 1].objects, Append(f[k - 1].object, s[k]))
            ELSE f[k - 1].objects
      BY <2>1, <2>3, FeedGoes, Zenon
    <3>2. \/ Feed(f[k - 1], s[k]).objects = f[k - 1].objects
          \/ Feed(f[k - 1], s[k]).objects =
               Append(f[k - 1].objects, Append(f[k - 1].object, s[k]))
      BY <3>1, Zenon
    <3>3. QED
      BY <2>2, <2>4, <3>2, Zenon
  <2>6. f[k - 1].objects \in Seq(Seq(Byte)) /\ f[k].objects \in Seq(Seq(Byte))
    BY <1>4, <2>1
  <2>7. CASE f[k].objects = f[k - 1].objects
    BY <1>4, <2>1, <2>7 DEF Extends
  <2>8. CASE f[k].objects = Append(f[k - 1].objects, o)
    BY <2>6, <2>8, AppendExtends
  <2>9. QED
    BY <2>5, <2>7, <2>8
<1> DEFINE P == {k \in 0..n : k >= i => Extends(f[i].objects, f[k].objects)}
<1>6. i \in Nat /\ i \in 0..n /\ j \in i..n
  BY <1>1
<1>7. Extends(f[i].objects, f[i].objects)
  BY <1>4, <1>6 DEF Extends
<1>8. 0 \in P
  <2>1. 0 >= i => i = 0
    BY <1>6
  <2>2. QED
    BY <1>7, <2>1
<1>9. ASSUME NEW k \in 1..n, k - 1 \in P
      PROVE  k \in P
  <2>1. k \in 0..n /\ k - 1 \in 0..n
    OBVIOUS
  <2>2. CASE k = i
    BY <1>7, <2>1, <2>2
  <2>3. CASE k # i
    <3>1. k >= i => k - 1 >= i
      BY <1>6, <2>3
    <3>2. k >= i => Extends(f[i].objects, f[k - 1].objects)
      BY <1>9, <3>1
    <3>3. k >= i => Extends(f[i].objects, f[k].objects)
      BY <1>4, <1>5, <1>6, <2>1, <3>2, ExtendsTransitive
    <3>4. QED
      BY <2>1, <3>3
  <2>4. QED
    BY <2>2, <2>3
<1> HIDE DEF P
<1>10. j \in P
  <2>1. \A k \in 0..n : k \in P
    BY <1>8, <1>9, Induct
  <2>2. QED
    BY <1>6, <2>1
<1>11. QED
  BY <1>2, <1>6, <1>10 DEF P
-----------------------------------------------------------------------------
\* The server cuts off what the reference finds.

LEMMA EndsAre ==
    ASSUME NEW b, NEW i
    PROVE  i \in Ends(b) <=>
             i \in 1..Len(b) /\ ScanOf(b)[i - 1].depth > 0 /\ ScanOf(b)[i].depth = 0
BY DEF Ends

\* Where the reference is in a string whose first object is not complete: before
\* it, or inside it with all its bytes so far.
Before(b, i) == \A j \in 1..i : b[j] # Opening
Starts(b, st) == b[st] = Opening /\ \A j \in 1..st - 1 : b[j] # Opening
Under(b, r, i) ==
    \/ r.scan = Outside /\ r.object = <<>> /\ Before(b, i)
    \/ /\ r.scan.depth > 0
       /\ \E st \in 1..i : Starts(b, st) /\ r.object = SubSeq(b, st, i)

\* A reading G of the string b, by one that was between two objects at its start.
Reads(G, b, h) ==
    /\ G[0] = [scan |-> Outside, object |-> <<>>, objects |-> h]
    /\ \A i \in 1..Len(b) : G[i] = Feed(G[i - 1], b[i])

LEMMA ReadsType ==
    ASSUME NEW b \in Seq(Byte), NEW h \in Seq(Seq(Byte)), NEW G, Reads(G, b, h)
    PROVE  \A i \in 0..Len(b) : G[i] \in Reading /\ G[i].scan = ScanOf(b)[i]
<1>1. PICK n \in Nat : n = Len(b)
  OBVIOUS
<1> DEFINE P == {i \in 0..n : G[i] \in Reading /\ G[i].scan = ScanOf(b)[i]}
<1>2. 0 \in P
  <2>1. Outside \in Scanner
    BY DEF Outside, Scanner
  <2>2. G[0] = [scan |-> Outside, object |-> <<>>, objects |-> h]
    BY DEF Reads
  <2>3. <<>> \in Seq(Byte)
    BY EmptySeq
  <2>4. G[0] \in Reading /\ G[0].scan = Outside
    BY <2>1, <2>2, <2>3 DEF Reading
  <2>5. QED
    BY <2>4, ScanOfGoes
<1>3. ASSUME NEW i \in 1..n, i - 1 \in P
      PROVE  i \in P
  <2>1. G[i] = Feed(G[i - 1], b[i]) /\ b[i] \in Byte
    BY <1>1 DEF Reads
  <2>2. G[i - 1] \in Reading /\ G[i - 1].scan = ScanOf(b)[i - 1]
    BY <1>3
  <2>3. G[i] \in Reading /\ G[i].scan = Scan(G[i - 1].scan, b[i])
    BY <2>1, <2>2, FeedGoes
  <2>4. ScanOf(b)[i] = Scan(ScanOf(b)[i - 1], b[i])
    BY <1>1, ScanOfGoes
  <2>5. i \in 0..n
    OBVIOUS
  <2>6. QED
    BY <2>2, <2>3, <2>4, <2>5
<1> HIDE DEF P
<1>4. \A i \in 0..n : i \in P
  BY <1>2, <1>3, Induct
<1>5. QED
  BY <1>1, <1>4 DEF P

\* One byte further, still before the end of the first object.
LEMMA UnderGoes ==
    ASSUME NEW b \in Seq(Byte), NEW i \in 1..Len(b), NEW r \in Reading, Sound(r.scan),
           Under(b, r, i - 1),
           ~(r.scan.depth > 0 /\ Scan(r.scan, b[i]).depth = 0)
    PROVE  Under(b, Feed(r, b[i]), i) /\ Feed(r, b[i]).objects = r.objects
<1> DEFINE q == Feed(r, b[i])
<1>1. b[i] \in Byte /\ r.scan \in Scanner
  BY DEF Reading
<1>2. /\ q.scan = Scan(r.scan, b[i])
      /\ q.object = IF Scan(r.scan, b[i]).depth > 0 THEN Append(r.object, b[i]) ELSE <<>>
      /\ q.objects = r.objects
  BY <1>1, FeedGoes, Zenon
<1>3. q.scan \in Scanner /\ Sound(q.scan) /\ q.scan.depth \in Nat
  BY <1>1, <1>2, ScanType, ScanSound DEF Scanner
<1> HIDE DEF q
<1>4. CASE r.scan = Outside /\ r.object = <<>> /\ Before(b, i - 1) /\ b[i] # Opening
  <2>1. q.scan = Outside /\ Outside.depth = 0
    BY <1>1, <1>2, <1>4, ScanFromOutside DEF Outside
  <2>2. q.object = <<>>
    BY <1>2, <2>1
  <2>3. Before(b, i)
    <3>1. \A j \in 1..i : j = i \/ j \in 1..i - 1
      OBVIOUS
    <3>2. QED
      BY <1>4, <3>1 DEF Before
  <2>4. QED
    BY <1>2, <2>1, <2>2, <2>3 DEF Under, q
<1>5. CASE r.scan = Outside /\ r.object = <<>> /\ Before(b, i - 1) /\ b[i] = Opening
  <2>1. q.scan.depth = 1
    BY <1>1, <1>2, <1>5, ScanFromOutside
  <2>2. q.object = <<b[i]>>
    BY <1>2, <1>5, <2>1
  <2>3. SubSeq(b, i, i) = <<b[i]>>
    <3>1. i \in 1..Len(b) /\ i \in i..Len(b) /\ i \in Int /\ i - 1 \in Int /\ i - 1 < i
      OBVIOUS
    <3>2. SubSeq(b, i, i) = SubSeq(b, i, i - 1) \o <<b[i]>>
      BY <3>1, SubSeqRecursiveSecond
    <3>3. SubSeq(b, i, i - 1) = <<>>
      BY <3>1, SubSeqEmpty
    <3>4. <<b[i]>> \in Seq(Byte)
      BY <1>1
    <3>5. QED
      BY <3>2, <3>3, <3>4, ConcatEmptySeq
  <2>4. Starts(b, i) /\ i \in 1..i
    BY <1>5 DEF Starts, Before
  <2>5. \E st \in 1..i : Starts(b, st) /\ q.object = SubSeq(b, st, i)
    BY <2>2, <2>3, <2>4
  <2>6. q.scan.depth > 0
    BY <2>1
  <2>7. QED
    BY <1>2, <2>5, <2>6 DEF Under, q
<1>6. CASE r.scan.depth > 0 /\ \E st \in 1..i - 1 : Starts(b, st) /\ r.object = SubSeq(b, st, i - 1)
  <2>1. q.scan.depth > 0
    BY <1>2, <1>3, <1>6
  <2>2. PICK st \in 1..i - 1 : Starts(b, st) /\ r.object = SubSeq(b, st, i - 1)
    BY <1>6
  <2>3. st \in 1..Len(b) /\ i \in st..Len(b) /\ st \in 1..i
    OBVIOUS
  <2>4. SubSeq(b, st, i) = SubSeq(b, st, i - 1) \o <<b[i]>>
    BY <2>3, SubSeqRecursiveSecond
  <2>5. q.object = Append(r.object, b[i])
    BY <1>2, <2>1
  <2>6. Append(r.object, b[i]) = r.object \o <<b[i]>>
    BY <1>1, AppendIsConcat DEF Reading
  <2>7. q.object = SubSeq(b, st, i)
    BY <2>2, <2>4, <2>5, <2>6
  <2>8. QED
    BY <1>2, <2>1, <2>2, <2>3, <2>7 DEF Under, q
<1>7. QED
  BY <1>4, <1>5, <1>6 DEF Under

\* Before the end of the first object nothing is found.
LEMMA NothingFound ==
    ASSUME NEW b \in Seq(Byte), NEW h \in Seq(Seq(Byte)), NEW G, Reads(G, b, h),
           NEW k \in 0..Len(b), \A j \in 1..k : j \notin Ends(b)
    PROVE  Under(b, G[k], k) /\ G[k].objects = h
<1>1. PICK n \in Nat : n = Len(b)
  OBVIOUS
<1>2. k \in Nat /\ k <= n
  BY <1>1
<1> DEFINE P == {i \in 0..k : Under(b, G[i], i) /\ G[i].objects = h}
<1>3. 0 \in P
  <2>1. G[0] = [scan |-> Outside, object |-> <<>>, objects |-> h]
    BY DEF Reads
  <2>2. Before(b, 0)
    BY DEF Before
  <2>3. Under(b, G[0], 0) /\ G[0].objects = h
    BY <2>1, <2>2 DEF Under
  <2>4. QED
    BY <1>2, <2>3
<1>4. ASSUME NEW i \in 1..k, i - 1 \in P
      PROVE  i \in P
  <2>1. i \in 1..n /\ i - 1 \in 0..n /\ i \in 0..n /\ i \in 0..k
    BY <1>2
  <2>2. i \notin Ends(b)
    OBVIOUS
  <2>3. G[i] = Feed(G[i - 1], b[i])
    BY <1>1, <2>1 DEF Reads
  <2>4. G[i - 1] \in Reading /\ G[i - 1].scan = ScanOf(b)[i - 1]
    BY <1>1, <2>1, ReadsType
  <2>5. Sound(G[i - 1].scan)
    BY <1>1, <2>1, <2>4, ScanOfGoes
  <2>6. ScanOf(b)[i] = Scan(ScanOf(b)[i - 1], b[i])
    BY <1>1, <2>1, ScanOfGoes
  <2>7. ~(G[i - 1].scan.depth > 0 /\ Scan(G[i - 1].scan, b[i]).depth = 0)
    BY <1>1, <2>1, <2>2, <2>4, <2>6, EndsAre
  <2>8. Under(b, G[i - 1], i - 1) /\ G[i - 1].objects = h
    BY <1>4
  <2>9. Under(b, G[i], i) /\ G[i].objects = h
    <3>1. i \in 1..Len(b)
      BY <1>1, <2>1
    <3>2. /\ Under(b, Feed(G[i - 1], b[i]), i)
          /\ Feed(G[i - 1], b[i]).objects = G[i - 1].objects
      BY <2>4, <2>5, <2>7, <2>8, <3>1, UnderGoes, Zenon
    <3>3. QED
      BY <2>3, <2>8, <3>2, Zenon
  <2>10. QED
    BY <2>1, <2>9
<1> HIDE DEF P
<1>5. k \in P
  <2>1. \A i \in 0..k : i \in P
    BY <1>2, <1>3, <1>4, Induct
  <2>2. QED
    BY <1>2, <2>1
<1>6. QED
  BY <1>5 DEF P

LEMMA NoneComplete ==
    ASSUME NEW b \in Seq(Byte), NEW h \in Seq(Seq(Byte)), NEW G, Reads(G, b, h),
           ~Complete(b)
    PROVE  G[Len(b)].objects = h
<1>1. Len(b) \in 0..Len(b) /\ \A j \in 1..Len(b) : j \notin Ends(b)
  BY DEF Complete
<1>2. QED
  BY <1>1, NothingFound

\* The first end, and the object before it.
LEMMA FirstFound ==
    ASSUME NEW b \in Seq(Byte), NEW h \in Seq(Seq(Byte)), NEW G, Reads(G, b, h),
           Complete(b)
    PROVE  LET found == ExtractJsonObject(b)
               end == Min(Ends(b))
           IN  /\ end \in 1..Len(b)
               /\ found.msg \in Seq(Byte)
               /\ found.rest = SubSeq(b, end + 1, Len(b))
               /\ G[end] = [scan |-> Outside, object |-> <<>>,
                            objects |-> Append(h, found.msg)]
<1>1. PICK n \in Nat : n = Len(b)
  OBVIOUS
<1>2. PICK end \in 1..n : /\ end = Min(Ends(b))
                          /\ end \in Ends(b)
                          /\ \A j \in 1..end - 1 : j \notin Ends(b)
  <2>1. Ends(b) \subseteq Nat /\ Ends(b) # {} /\ Ends(b) \subseteq 1..n
    BY <1>1 DEF Complete, Ends
  <2>2. Min(Ends(b)) \in Ends(b) /\ \A y \in Ends(b) : Min(Ends(b)) <= y
    BY <2>1, Least
  <2>3. QED
    BY <2>1, <2>2
<1>3. end - 1 \in 0..n /\ end \in 0..n
  BY <1>2
<1>4. Under(b, G[end - 1], end - 1) /\ G[end - 1].objects = h
  BY <1>1, <1>2, <1>3, NothingFound
<1>5. /\ G[end - 1] \in Reading /\ G[end] \in Reading
      /\ G[end - 1].scan = ScanOf(b)[end - 1] /\ G[end].scan = ScanOf(b)[end]
  BY <1>1, <1>3, ReadsType
<1>6. ScanOf(b)[end - 1].depth > 0 /\ ScanOf(b)[end].depth = 0
  BY <1>2, EndsAre
<1>7. G[end].scan = Outside
  <2>1. ScanOf(b)[end] \in Scanner /\ Sound(ScanOf(b)[end])
    BY <1>1, <1>3, ScanOfGoes
  <2>2. QED
    BY <1>5, <1>6, <2>1, OneOutside
<1>8. PICK st \in 1..end - 1 : Starts(b, st) /\ G[end - 1].object = SubSeq(b, st, end - 1)
  <2>1. G[end - 1].scan # Outside
    BY <1>5, <1>6 DEF Outside
  <2>2. QED
    BY <1>4, <2>1 DEF Under
<1>9. Min({i \in 1..Len(b) : b[i] = Opening}) = st
  <2> DEFINE T == {i \in 1..n : b[i] = Opening}
  <2>1. T \subseteq Nat /\ st \in T /\ \A i \in T : i \in 1..n /\ b[i] = Opening
    BY <1>8 DEF Starts
  <2>2. Min(T) \in T /\ \A y \in T : Min(T) <= y
    <3> HIDE DEF T
    <3>1. QED
      BY <2>1, Least
  <2>3. Min(T) \in 1..n /\ b[Min(T)] = Opening /\ Min(T) <= st
    BY <2>1, <2>2
  <2>4. ~(Min(T) \in 1..st - 1)
    BY <1>8, <2>3 DEF Starts
  <2>5. Min(T) = st
    BY <2>3, <2>4
  <2>6. QED
    BY <1>1, <2>5
<1>10. PICK msg \in Seq(Byte) : msg = SubSeq(b, st, end)
  <2>1. \A i \in st..end : b[i] \in Byte
    BY <1>1, <1>2
  <2>2. st \in Int /\ end \in Int
    OBVIOUS
  <2>3. SubSeq(b, st, end) \in Seq(Byte)
    BY <2>1, <2>2, SubSeqProperties, Zenon
  <2>4. QED
    BY <2>3
<1>11. ExtractJsonObject(b) = [msg |-> msg, rest |-> SubSeq(b, end + 1, Len(b))]
  BY <1>2, <1>9, <1>10, Zenon DEF ExtractJsonObject
<1>12. Append(G[end - 1].object, b[end]) = msg
  <2>1. st \in 1..Len(b) /\ end \in st..Len(b)
    BY <1>1, <1>2
  <2>2. msg = SubSeq(b, st, end - 1) \o <<b[end]>>
    BY <1>10, <2>1, SubSeqRecursiveSecond
  <2>3. G[end - 1].object \in Seq(Byte) /\ b[end] \in Byte
    BY <1>1, <1>2, <1>5 DEF Reading
  <2>4. QED
    BY <1>8, <2>2, <2>3, AppendIsConcat
<1>13. G[end].object = <<>> /\ G[end].objects = Append(h, msg)
  <2>1. b[end] \in Byte
    BY <1>1, <1>2
  <2>2. G[end] = Feed(G[end - 1], b[end])
    BY <1>1, <1>2 DEF Reads
  <2>3. Scan(G[end - 1].scan, b[end]).depth = 0 /\ G[end - 1].scan.depth > 0
    <3>1. Feed(G[end - 1], b[end]).scan = Scan(G[end - 1].scan, b[end])
      BY <1>5, <2>1, FeedGoes, Zenon
    <3>2. QED
      BY <1>5, <1>6, <2>2, <3>1, Zenon
  <2>4. ~(Scan(G[end - 1].scan, b[end]).depth > 0)
    BY <2>3
  <2>5. Feed(G[end - 1], b[end]).object = <<>>
    BY <1>5, <2>1, <2>4, FeedGoes, Zenon
  <2>6. Feed(G[end - 1], b[end]).objects = Append(h, msg)
    BY <1>4, <1>5, <1>12, <2>1, <2>3, FeedGoes, Zenon
  <2>7. QED
    BY <2>2, <2>5, <2>6
<1>14. G[end] = [scan |-> Outside, object |-> <<>>, objects |-> Append(h, msg)]
  BY <1>5, <1>7, <1>13 DEF Reading
<1>15. /\ ExtractJsonObject(b).msg = msg
       /\ ExtractJsonObject(b).rest = SubSeq(b, end + 1, Len(b))
  BY <1>11
<1>16. QED
  BY <1>1, <1>2, <1>10, <1>14, <1>15, Zenon
-----------------------------------------------------------------------------
\* What the buffer says of the stream.

\* The string between the cut and what was read, and the reference over it.
LEMMA FromCut ==
    ASSUME NEW s \in Seq(Byte), NEW n \in 0..Len(s), NEW c \in 0..n, NEW b, NEW h,
           b = SubSeq(s, c + 1, n),
           ReadingOf(s)[c] = [scan |-> Outside, object |-> <<>>, objects |-> h]
    PROVE  /\ b \in Seq(Byte) /\ Len(b) = n - c
           /\ Reads([i \in 0..Len(b) |-> ReadingOf(s)[c + i]], b, h)
<1>1. c + 1 \in Int /\ n \in Int /\ c \in Nat /\ n \in Nat
  OBVIOUS
<1>2. \A i \in c + 1..n : i \in 1..Len(s) /\ s[i] \in Byte
  BY <1>1
<1>3. /\ b \in Seq(Byte)
      /\ Len(b) = IF c + 1 <= n THEN n - (c + 1) + 1 ELSE 0
      /\ \A i \in 1..n - (c + 1) + 1 : b[i] = s[c + 1 + i - 1]
  BY <1>1, <1>2, SubSeqProperties
<1>4. PICK m \in Nat : m = Len(b) /\ m = n - c
  BY <1>1, <1>3
<1>5. \A i \in 1..m : b[i] = s[c + i] /\ c + i \in 1..Len(s)
  <2>1. \A i \in 1..m : i \in 1..n - (c + 1) + 1 /\ c + 1 + i - 1 = c + i
    BY <1>1, <1>4
  <2>2. \A i \in 1..m : c + i \in c + 1..n
    BY <1>1, <1>4
  <2>3. QED
    BY <1>2, <1>3, <2>1, <2>2
<1>6. PICK f : f = ReadingOf(s)
  OBVIOUS
<1>7. PICK G : G = [i \in 0..m |-> f[c + i]]
  OBVIOUS
<1>8. \A i \in 1..m : G[i] = Feed(G[i - 1], b[i])
  <2> TAKE i \in 1..m
  <2>1. c + i \in 1..Len(s) /\ b[i] = s[c + i]
    BY <1>5
  <2>2. f[c + i] = Feed(f[c + i - 1], s[c + i])
    BY <1>6, <2>1, ReadingOfGoes
  <2>3. G[i] = f[c + i] /\ G[i - 1] = f[c + i - 1]
    <3>1. i \in 0..m /\ i - 1 \in 0..m /\ c + (i - 1) = c + i - 1
      BY <1>1
    <3>2. QED
      BY <1>7, <3>1
  <2>4. QED
    BY <2>1, <2>2, <2>3
<1>9. G[0] = [scan |-> Outside, object |-> <<>>, objects |-> h]
  <2>1. 0 \in 0..m /\ c + 0 = c
    BY <1>1
  <2>2. QED
    BY <1>6, <1>7, <2>1
<1>10. Reads(G, b, h)
  BY <1>4, <1>8, <1>9 DEF Reads
<1>11. QED
  BY <1>3, <1>4, <1>6, <1>7, <1>10

\* The objects read and not handed over are in the buffer, the first one first.
LEMMA BufferHolds ==
    ASSUME TypeOK, BufferKept
    PROVE  /\ Extends(handled, Received)
           /\ ~Complete(buf) => Received = handled
           /\ Complete(buf) =>
                LET found == ExtractJsonObject(buf)
                    end == Min(Ends(buf))
                IN  /\ end \in 1..Len(buf)
                    /\ found.msg \in Seq(Byte)
                    /\ found.rest = SubSeq(buf, end + 1, Len(buf))
                    /\ ReadingOf(stream)[received - Len(buf) + end] =
                         [scan |-> Outside, object |-> <<>>,
                          objects |-> Append(handled, found.msg)]
<1>1. /\ stream \in Seq(Byte) /\ received \in 0..Len(stream)
      /\ handled \in Seq(Seq(Byte)) /\ Len(buf) \in Nat
  BY DEF TypeOK
<1>2. PICK c : c = received - Len(buf)
  OBVIOUS
<1>3. /\ Len(buf) <= received
      /\ buf = SubSeq(stream, c + 1, received)
      /\ ReadingOf(stream)[c] = [scan |-> Outside, object |-> <<>>, objects |-> handled]
  BY <1>2 DEF BufferKept
<1>4. c \in 0..received /\ c \in 0..Len(stream) /\ received \in c..Len(stream)
  BY <1>1, <1>2, <1>3
<1>5. PICK G : G = [i \in 0..Len(buf) |-> ReadingOf(stream)[c + i]]
  OBVIOUS
<1>6. /\ buf \in Seq(Byte) /\ Len(buf) = received - c
      /\ Reads(G, buf, handled)
  BY <1>1, <1>3, <1>4, <1>5, FromCut
<1>7. Extends(handled, Received)
  <2>1. Extends(ReadingOf(stream)[c].objects, ReadingOf(stream)[received].objects)
    BY <1>1, <1>4, FoundStays
  <2>2. ReadingOf(stream)[c].objects = handled
    BY <1>3
  <2>3. QED
    BY <2>1, <2>2 DEF Received
<1>8. ASSUME ~Complete(buf)
      PROVE  Received = handled
  <2>1. G[Len(buf)].objects = handled
    BY <1>1, <1>6, <1>8, NoneComplete
  <2>2. G[Len(buf)] = ReadingOf(stream)[received]
    <3>1. Len(buf) \in 0..Len(buf) /\ c + Len(buf) = received
      BY <1>1, <1>4, <1>6
    <3>2. QED
      BY <1>5, <3>1
  <2>3. QED
    BY <2>1, <2>2 DEF Received
<1>9. ASSUME Complete(buf)
      PROVE  LET found == ExtractJsonObject(buf)
                 end == Min(Ends(buf))
             IN  /\ end \in 1..Len(buf)
                 /\ found.msg \in Seq(Byte)
                 /\ found.rest = SubSeq(buf, end + 1, Len(buf))
                 /\ ReadingOf(stream)[received - Len(buf) + end] =
                      [scan |-> Outside, object |-> <<>>,
                       objects |-> Append(handled, found.msg)]
  <2>1. PICK end : end = Min(Ends(buf))
    OBVIOUS
  <2>2. PICK found : found = ExtractJsonObject(buf)
    OBVIOUS
  <2>3. /\ end \in 1..Len(buf)
        /\ found.msg \in Seq(Byte)
        /\ found.rest = SubSeq(buf, end + 1, Len(buf))
        /\ G[end] = [scan |-> Outside, object |-> <<>>,
                     objects |-> Append(handled, found.msg)]
    BY <1>1, <1>6, <1>9, <2>1, <2>2, FirstFound
  <2>4. G[end] = ReadingOf(stream)[received - Len(buf) + end]
    <3>1. end \in 0..Len(buf)
      BY <1>1, <2>3
    <3>2. QED
      BY <1>2, <1>5, <3>1
  <2>5. QED
    BY <2>1, <2>2, <2>3, <2>4
<1>10. QED
  BY <1>7, <1>8, <1>9
-----------------------------------------------------------------------------
\* The invariant.

LEMMA NewlineIsNoObject == Newline \notin Seq(Byte)
<1>1. PICK c : c = "\n"
  OBVIOUS
<1>2. c \notin Byte
  BY <1>1, Zenon DEF Byte, Opening, Closing, Quote, Backslash
<1>3. Newline = <<c>>
  BY <1>1, Zenon DEF Newline
<1>4. QED
  BY <1>2, <1>3

LEMMA FramingStarts == Init => FramingInv
<1> SUFFICES ASSUME Init PROVE FramingInv
  OBVIOUS
<1>1. /\ stream \in Seq(Byte) /\ sent = 0 /\ peer = "open" /\ taken = 0
      /\ received = 0 /\ buf = <<>> /\ pc = "read" /\ handled = <<>> /\ written = <<>>
  BY FramingAssumption DEF Init
<1>2. Len(stream) \in Nat /\ Len(buf) = 0 /\ Len(written) = 0 /\ Len(handled) = 0
  BY <1>1
<1>3. TypeOK
  <2>1. buf \in Seq(Byte) /\ handled \in Seq(Seq(Byte)) /\ written \in Seq(Seq(Byte) \cup {Newline})
    BY <1>1, EmptySeq
  <2>2. DOMAIN written = {}
    BY <1>1
  <2>3. QED
    BY <1>1, <1>2, <2>1, <2>2 DEF TypeOK
<1>4. BufferKept
  <2>1. received - Len(buf) = 0
    <3>1. received = 0 /\ Len(buf) = 0
      BY <1>1, <1>2
    <3>2. QED
      BY <3>1
  <2>2. buf = SubSeq(stream, 0 + 1, received)
    BY <1>1, SubSeqEmpty
  <2>3. ReadingOf(stream)[0] = [scan |-> Outside, object |-> <<>>, objects |-> handled]
    BY <1>1, ReadingOfGoes DEF Blank
  <2>4. QED
    BY <1>1, <1>2, <2>1, <2>2, <2>3 DEF BufferKept
<1>5. WritesKept
  BY <1>1, <1>2 DEF WritesKept
<1>6. ~Complete(buf)
  BY <1>2 DEF Complete, Ends
<1>7. QED
  BY <1>3, <1>4, <1>5, <1>6 DEF FramingInv

\* The client's steps, and those after which the thread has ended.
LEMMA ClientKeeps ==
    ASSUME FramingInv, Client
    PROVE  FramingInv'
<1>1. UNCHANGED server /\ stream' = stream
  BY DEF Client, Send, Take, Leave
<1>2. TypeOK
  BY DEF FramingInv
<1>3. /\ stream \in Seq(Byte) /\ sent \in 0..Len(stream) /\ received \in 0..sent
      /\ Len(stream) \in Nat /\ Len(written) \in Nat /\ taken \in 0..Len(written)
      /\ peer \in {"open", "half", "gone"}
  BY <1>2 DEF TypeOK
<1>4. sent' \in 0..Len(stream) /\ received \in 0..sent' /\ peer' \in {"open", "half", "gone"}
      /\ taken' \in 0..Len(written)
  <2>1. CASE Send
    BY <1>3, <2>1 DEF Send
  <2>2. CASE Take
    BY <1>3, <2>2 DEF Take
  <2>3. CASE \E how \in {"half", "gone"} : Leave(how)
    BY <1>3, <2>3 DEF Leave
  <2>4. QED
    BY <2>1, <2>2, <2>3 DEF Client
<1>5. TypeOK'
  BY <1>1, <1>2, <1>4 DEF TypeOK, server
<1>6. BufferKept' /\ WritesKept' /\ (pc' = "read" => ~Complete(buf'))
  BY <1>1 DEF FramingInv, BufferKept, WritesKept, server
<1>7. QED
  BY <1>5, <1>6 DEF FramingInv

LEMMA EndKeeps ==
    ASSUME FramingInv, ReadEnds \/ WriteFails \/ Panic
    PROVE  FramingInv'
<1>1. pc' = "closed" /\ UNCHANGED <<client, received, buf, handled, written>>
  BY DEF ReadEnds, WriteFails, Panic
<1>2. TypeOK'
  BY <1>1 DEF FramingInv, TypeOK, client
<1>3. BufferKept'
  BY <1>1 DEF FramingInv, BufferKept, client
<1>4. WritesKept'
  BY <1>1 DEF FramingInv, WritesKept
<1>5. QED
  BY <1>1, <1>2, <1>3, <1>4 DEF FramingInv

LEMMA ReadKeeps ==
    ASSUME FramingInv, Read
    PROVE  FramingInv'
<1>1. /\ pc = "read" /\ received < sent /\ pc' = "extract"
      /\ received' = Min({sent, received + Chunk})
      /\ buf' = buf \o SubSeq(stream, received + 1, received')
      /\ UNCHANGED <<client, handled, written>>
  BY DEF Read
<1>2. TypeOK /\ BufferKept /\ WritesKept
  BY DEF FramingInv
<1>3. /\ stream \in Seq(Byte) /\ sent \in 0..Len(stream) /\ received \in 0..sent
      /\ Len(stream) \in Nat /\ buf \in Seq(Byte) /\ Len(buf) \in Nat
  BY <1>2 DEF TypeOK
<1>4. PICK n \in received + 1..sent : n = received'
  <2> DEFINE T == {sent, received + Chunk}
  <2>1. Chunk \in Nat \ {0}
    BY FramingAssumption
  <2>2. T \subseteq Nat /\ T # {} /\ \A x \in T : x = sent \/ x = received + Chunk
    BY <1>3, <2>1
  <2>3. Min(T) \in T /\ \A y \in T : Min(T) <= y
    <3> HIDE DEF T
    <3>1. QED
      BY <2>2, Least
  <2>4. Min(T) \in received + 1..sent
    BY <1>1, <1>3, <2>1, <2>2, <2>3
  <2>5. QED
    BY <1>1, <2>4
<1>5. PICK c : c = received - Len(buf)
  OBVIOUS
<1>6. /\ Len(buf) <= received
      /\ buf = SubSeq(stream, c + 1, received)
      /\ ReadingOf(stream)[c] = [scan |-> Outside, object |-> <<>>, objects |-> handled]
  BY <1>2, <1>5 DEF BufferKept
<1>7. c \in 0..received /\ c + 1 \in 1..Len(stream) + 1 /\ received \in (c + 1) - 1..Len(stream)
      /\ n \in received..Len(stream) /\ n \in 0..Len(stream) /\ c \in 0..n
      /\ received <= n /\ n <= sent /\ n \in Nat
  <2>1. PICK l \in Nat : l = Len(stream)
    BY <1>3
  <2>2. PICK m \in Nat : m = Len(buf)
    BY <1>3
  <2>3. sent \in 0..l /\ received \in 0..sent /\ m <= received /\ c = received - m
    BY <1>3, <1>5, <1>6, <2>1, <2>2
  <2>4. /\ c \in 0..received /\ c + 1 \in 1..l + 1 /\ received \in (c + 1) - 1..l
        /\ n \in received..l /\ n \in 0..l /\ c \in 0..n
        /\ received <= n /\ n <= sent /\ n \in Nat
    BY <1>4, <2>3
  <2>5. QED
    BY <2>1, <2>4
<1>8. buf' = SubSeq(stream, c + 1, n)
  <2>1. SubSeq(stream, c + 1, received) \o SubSeq(stream, received + 1, n) = SubSeq(stream, c + 1, n)
    BY <1>3, <1>7, ConcatAdjacentSubSeq
  <2>2. QED
    BY <1>1, <1>4, <1>6, <2>1
<1>9. buf' \in Seq(Byte) /\ Len(buf') = n - c
  BY <1>3, <1>6, <1>7, <1>8, FromCut
<1>10. received' - Len(buf') = c /\ Len(buf') <= received' /\ received' \in 0..sent
  <2>1. PICK k : k = Len(buf')
    OBVIOUS
  <2>2. k = n - c /\ received' = n
    BY <1>4, <1>9, <2>1
  <2>3. n - k = c /\ k <= n /\ n \in 0..sent
    BY <1>4, <1>7, <2>2
  <2>4. QED
    BY <2>1, <2>2, <2>3
<1>11. UNCHANGED <<stream, sent, peer, taken, handled, written>>
  BY <1>1 DEF client
<1>12. TypeOK'
  BY <1>1, <1>2, <1>9, <1>10, <1>11 DEF TypeOK
<1>13. BufferKept'
  BY <1>4, <1>6, <1>8, <1>10, <1>11 DEF BufferKept
<1>14. WritesKept'
  BY <1>1, <1>2 DEF WritesKept
<1>15. QED
  BY <1>1, <1>12, <1>13, <1>14 DEF FramingInv

LEMMA SubOfSub ==
    ASSUME NEW s \in Seq(Byte), NEW i \in 1..Len(s), NEW j \in 1..Len(s),
           NEW m \in 1..j - i + 1, NEW n \in 1..j - i + 1
    PROVE  SubSeq(SubSeq(s, i, j), m, n) = SubSeq(s, i + m - 1, i + n - 1)
BY SubSeqOfSubSeq

LEMMA ExtractKeeps ==
    ASSUME FramingInv, Extract
    PROVE  FramingInv'
<1>1. TypeOK /\ BufferKept /\ WritesKept
  BY DEF FramingInv
<1>2. pc = "extract" /\ UNCHANGED <<stream, sent, peer, taken, received, written>>
  BY DEF Extract, client
<1>3. CASE ~Complete(buf)
  <2>1. pc' = "read" /\ UNCHANGED <<buf, handled>>
    BY <1>3 DEF Extract
  <2>2. TypeOK'
    BY <1>1, <1>2, <2>1 DEF TypeOK
  <2>3. BufferKept'
    BY <1>1, <1>2, <2>1 DEF BufferKept
  <2>4. WritesKept'
    BY <1>1, <1>2, <2>1 DEF WritesKept
  <2>5. QED
    BY <1>3, <2>1, <2>2, <2>3, <2>4 DEF FramingInv
<1>4. CASE Complete(buf)
  <2>1. PICK found : found = ExtractJsonObject(buf)
    OBVIOUS
  <2>2. PICK end : end = Min(Ends(buf))
    OBVIOUS
  <2>3. buf' = found.rest /\ handled' = Append(handled, found.msg) /\ pc' = "respond"
    BY <1>4, <2>1, Zenon DEF Extract
  <2>4. /\ end \in 1..Len(buf)
        /\ found.msg \in Seq(Byte)
        /\ found.rest = SubSeq(buf, end + 1, Len(buf))
        /\ ReadingOf(stream)[received - Len(buf) + end] =
             [scan |-> Outside, object |-> <<>>, objects |-> Append(handled, found.msg)]
    BY <1>1, <1>4, <2>1, <2>2, BufferHolds
  <2>5. /\ stream \in Seq(Byte) /\ sent \in 0..Len(stream) /\ received \in 0..sent
        /\ Len(stream) \in Nat /\ buf \in Seq(Byte) /\ Len(buf) \in Nat
        /\ handled \in Seq(Seq(Byte)) /\ Len(handled) \in Nat
        /\ written \in Seq(Seq(Byte) \cup {Newline}) /\ Len(written) \in Nat
    BY <1>1 DEF TypeOK
  <2>6. PICK c : c = received - Len(buf)
    OBVIOUS
  <2>7. Len(buf) <= received /\ buf = SubSeq(stream, c + 1, received)
    BY <1>1, <2>6 DEF BufferKept
  <2>8. PICK d : d = c + end
    OBVIOUS
  <2>9. /\ c \in 0..received /\ d \in 0..received /\ end \in Nat /\ c + Len(buf) = received
        /\ received \in 0..Len(stream) /\ received - c = Len(buf)
    BY <2>4, <2>5, <2>6, <2>7, <2>8
  <2>10. buf' = SubSeq(stream, d + 1, received)
    <3>1. buf' = SubSeq(buf, end + 1, Len(buf))
      BY <2>3, <2>4
    <3>2. CASE end = Len(buf)
      <4>1. end + 1 \in Int /\ Len(buf) \in Int /\ Len(buf) < end + 1
            /\ d + 1 \in Int /\ received \in Int /\ received < d + 1
        BY <2>5, <2>8, <2>9, <3>2
      <4>2. SubSeq(buf, end + 1, Len(buf)) = <<>> /\ SubSeq(stream, d + 1, received) = <<>>
        BY <4>1, SubSeqEmpty
      <4>3. QED
        BY <3>1, <4>2
    <3>3. CASE end # Len(buf)
      <4>1. /\ c + 1 \in 1..Len(stream) /\ received \in 1..Len(stream)
            /\ end + 1 \in 1..received - (c + 1) + 1
            /\ Len(buf) \in 1..received - (c + 1) + 1
            /\ (c + 1) + (end + 1) - 1 = d + 1
            /\ (c + 1) + Len(buf) - 1 = received
        BY <2>4, <2>5, <2>8, <2>9, <3>3
      <4>2. SubSeq(SubSeq(stream, c + 1, received), end + 1, Len(buf))
              = SubSeq(stream, (c + 1) + (end + 1) - 1, (c + 1) + Len(buf) - 1)
        <5>1. PICK i \in 1..Len(stream) : i = c + 1
          BY <4>1
        <5>2. PICK x \in 1..received - i + 1 : x = end + 1
          BY <4>1, <5>1
        <5>3. PICK y \in 1..received - i + 1 : y = Len(buf)
          BY <4>1, <5>1
        <5>4. SubSeq(SubSeq(stream, i, received), x, y) = SubSeq(stream, i + x - 1, i + y - 1)
          BY <2>5, <4>1, SubOfSub, Zenon
        <5>5. QED
          BY <5>1, <5>2, <5>3, <5>4, Zenon
      <4>3. QED
        BY <2>7, <3>1, <4>1, <4>2
    <3>4. QED
      BY <3>2, <3>3
  <2>11. ReadingOf(stream)[d] = [scan |-> Outside, object |-> <<>>, objects |-> handled']
    BY <2>3, <2>4, <2>6, <2>8
  <2>12. buf' \in Seq(Byte) /\ Len(buf') = received - d
    BY <2>5, <2>9, <2>10, <2>11, FromCut
  <2>13. received - Len(buf') = d /\ Len(buf') <= received
    BY <2>5, <2>9, <2>12
  <2>14. /\ handled' \in Seq(Seq(Byte)) /\ Len(handled') = Len(handled) + 1
         /\ \A i \in 1..Len(handled) : handled'[i] = handled[i]
    BY <2>3, <2>4, <2>5, AppendProperties
  <2>15. TypeOK'
    BY <1>1, <1>2, <2>3, <2>12, <2>14 DEF TypeOK
  <2>16. BufferKept'
    BY <1>2, <2>10, <2>11, <2>13 DEF BufferKept
  <2>17. WritesKept'
    <3>1. /\ Len(written) = 2 * Len(handled)
          /\ \A i \in 1..Len(handled) : 2 * i - 1 <= Len(written) => written[2 * i - 1] = handled[i]
      BY <1>1, <1>2 DEF WritesKept
    <3>2. \A i \in 1..Len(handled') : 2 * i - 1 <= Len(written) => i \in 1..Len(handled)
      BY <2>5, <2>14, <3>1
    <3>3. \A i \in 1..Len(handled') : 2 * i - 1 <= Len(written) => written[2 * i - 1] = handled'[i]
      BY <2>14, <3>1, <3>2
    <3>4. Len(written) <= 2 * Len(handled') /\ Len(written) = 2 * Len(handled') - 2
      BY <2>5, <2>14, <3>1
    <3>5. QED
      BY <1>2, <2>3, <3>3, <3>4 DEF WritesKept
  <2>18. QED
    BY <2>3, <2>15, <2>16, <2>17 DEF FramingInv
<1>5. QED
  BY <1>3, <1>4

\* A write of the object in hand, or of the newline after it.
LEMMA WriteGoes ==
    ASSUME FramingInv, NEW what \in Seq(Byte) \cup {Newline}, NEW next, Write(what, next),
           next \in {"newline", "extract"}, what = Newline <=> (Len(written) + 1) % 2 = 0
    PROVE  /\ TypeOK' /\ BufferKept'
           /\ Len(written') = Len(written) + 1
           /\ written'[Len(written) + 1] = what
           /\ \A i \in 1..Len(written) : written'[i] = written[i]
<1>1. /\ written' = Append(written, what) /\ pc' = next
      /\ UNCHANGED <<stream, sent, peer, taken, received, buf, handled>>
  BY DEF Write, client
<1>2. TypeOK /\ BufferKept
  BY DEF FramingInv
<1>3. /\ written \in Seq(Seq(Byte) \cup {Newline}) /\ Len(written) \in Nat
      /\ taken \in 0..Len(written)
      /\ \A i \in 1..Len(written) : written[i] = Newline <=> i % 2 = 0
  BY <1>2 DEF TypeOK
<1>4. /\ written' \in Seq(Seq(Byte) \cup {Newline})
      /\ Len(written') = Len(written) + 1
      /\ written'[Len(written) + 1] = what
      /\ \A i \in 1..Len(written) : written'[i] = written[i]
  BY <1>1, <1>3, AppendProperties
<1>5. /\ taken' \in 0..Len(written')
      /\ \A i \in 1..Len(written') : i = Len(written) + 1 \/ i \in 1..Len(written)
  BY <1>1, <1>3, <1>4
<1>6. \A i \in 1..Len(written') : written'[i] = Newline <=> i % 2 = 0
  <2> TAKE i \in 1..Len(written')
  <2>1. CASE i = Len(written) + 1
    BY <1>4, <2>1, Zenon
  <2>2. CASE i \in 1..Len(written)
    BY <1>3, <1>4, <2>2, Zenon
  <2>3. QED
    BY <1>5, <2>1, <2>2
<1>7. DOMAIN written' = 1..Len(written')
  BY <1>4
<1>8. TypeOK'
  BY <1>1, <1>2, <1>4, <1>5, <1>6, <1>7 DEF TypeOK
<1>9. BufferKept'
  BY <1>1, <1>2 DEF BufferKept
<1>10. QED
  BY <1>4, <1>8, <1>9

LEMMA WriteResponseKeeps ==
    ASSUME FramingInv, WriteResponse
    PROVE  FramingInv'
<1>1. pc = "respond" /\ Write(Last(handled), "newline") /\ pc' = "newline" /\ handled' = handled
  BY DEF WriteResponse, Write
<1>2. TypeOK /\ WritesKept
  BY DEF FramingInv
<1>3. handled \in Seq(Seq(Byte)) /\ Len(handled) \in Nat /\ Len(written) \in Nat
  BY <1>2 DEF TypeOK
<1>4. PICK n \in Nat : n = Len(handled)
  BY <1>3
<1>5. PICK m \in Nat : m = Len(written)
  BY <1>3
<1>6. m = 2 * n - 2 /\ \A i \in 1..n : 2 * i - 1 <= m => written[2 * i - 1] = handled[i]
  BY <1>1, <1>2, <1>4, <1>5 DEF WritesKept
<1>7. n \in 1..n /\ m + 1 = 2 * n - 1 /\ (m + 1) % 2 = 1
  <2>1. m = 2 * n - 2
    BY <1>6
  <2>2. QED
    BY <2>1
<1>8. PICK what \in Seq(Byte) : what = Last(handled) /\ what = handled[n]
  BY <1>3, <1>4, <1>7 DEF Last
<1>9. what # Newline
  BY NewlineIsNoObject
<1>10. /\ TypeOK' /\ BufferKept'
       /\ Len(written') = m + 1
       /\ written'[m + 1] = what
       /\ \A i \in 1..m : written'[i] = written[i]
  <2>1. Write(what, "newline")
    BY <1>1, <1>8
  <2>2. what = Newline <=> (Len(written) + 1) % 2 = 0
    BY <1>5, <1>7, <1>9
  <2>3. QED
    BY <1>5, <2>1, <2>2, WriteGoes
<1>11. \A i \in 1..n : 2 * i - 1 <= m + 1 => written'[2 * i - 1] = handled[i]
  <2> TAKE i \in 1..n
  <2>1. CASE i = n
    BY <1>7, <1>8, <1>10, <2>1
  <2>2. CASE i # n
    <3>1. 2 * i - 1 \in 1..m /\ 2 * i - 1 <= m
      <4>1. m = 2 * n - 2
        BY <1>6
      <4>2. QED
        BY <2>2, <4>1
    <3>2. QED
      BY <1>6, <1>10, <3>1
  <2>3. QED
    BY <2>1, <2>2
<1>12. WritesKept'
  <2>1. Len(written') = m + 1 /\ Len(handled') = n /\ m + 1 = 2 * n - 1 /\ m + 1 <= 2 * n
    BY <1>1, <1>4, <1>7, <1>10
  <2>2. \A i \in 1..Len(handled') : 2 * i - 1 <= Len(written') => written'[2 * i - 1] = handled'[i]
    BY <1>1, <1>11, <2>1
  <2>3. QED
    BY <1>1, <2>1, <2>2 DEF WritesKept
<1>13. QED
  BY <1>1, <1>10, <1>12 DEF FramingInv

LEMMA WriteNewlineKeeps ==
    ASSUME FramingInv, WriteNewline
    PROVE  FramingInv'
<1>1. pc = "newline" /\ Write(Newline, "extract") /\ pc' = "extract" /\ handled' = handled
  BY DEF WriteNewline, Write
<1>2. TypeOK /\ WritesKept
  BY DEF FramingInv
<1>3. Len(handled) \in Nat /\ Len(written) \in Nat
  BY <1>2 DEF TypeOK
<1>4. PICK n \in Nat : n = Len(handled)
  BY <1>3
<1>5. PICK m \in Nat : m = Len(written)
  BY <1>3
<1>6. m = 2 * n - 1 /\ \A i \in 1..n : 2 * i - 1 <= m => written[2 * i - 1] = handled[i]
  BY <1>1, <1>2, <1>4, <1>5 DEF WritesKept
<1>7. m + 1 = 2 * n /\ (m + 1) % 2 = 0
  <2>1. m = 2 * n - 1
    BY <1>6
  <2>2. QED
    BY <2>1
<1>8. /\ TypeOK' /\ BufferKept'
      /\ Len(written') = m + 1
      /\ \A i \in 1..m : written'[i] = written[i]
  <2>1. (Len(written) + 1) % 2 = 0
    BY <1>5, <1>7
  <2>2. QED
    BY <1>1, <1>5, <2>1, WriteGoes
<1>9. \A i \in 1..n : written'[2 * i - 1] = handled[i]
  <2> TAKE i \in 1..n
  <2>1. 2 * i - 1 \in 1..m /\ 2 * i - 1 <= m
    <3>1. m = 2 * n - 1
      BY <1>6
    <3>2. QED
      BY <3>1
  <2>2. QED
    BY <1>6, <1>8, <2>1
<1>10. WritesKept'
  <2>1. Len(written') = 2 * n /\ Len(handled') = n /\ Len(written') <= 2 * n
    BY <1>1, <1>4, <1>7, <1>8
  <2>2. QED
    BY <1>1, <1>9, <2>1 DEF WritesKept
<1>11. QED
  BY <1>1, <1>8, <1>10 DEF FramingInv

LEMMA FramingKeeps == FramingInv /\ [Next]_vars => FramingInv'
<1> SUFFICES ASSUME FramingInv, [Next]_vars PROVE FramingInv'
  OBVIOUS
<1>1. CASE UNCHANGED vars
  <2>1. UNCHANGED <<stream, sent, peer, taken, received, buf, pc, handled, written>>
    BY <1>1 DEF vars, client, server
  <2>2. TypeOK' /\ BufferKept' /\ WritesKept' /\ (pc' = "read" => ~Complete(buf'))
    BY <2>1 DEF FramingInv, TypeOK, BufferKept, WritesKept
  <2>3. QED
    BY <2>2 DEF FramingInv
<1>2. CASE Read
  BY <1>2, ReadKeeps
<1>3. CASE ReadEnds \/ WriteFails \/ Panic
  BY <1>3, EndKeeps
<1>4. CASE Extract
  BY <1>4, ExtractKeeps
<1>5. CASE WriteResponse
  BY <1>5, WriteResponseKeeps
<1>6. CASE WriteNewline
  BY <1>6, WriteNewlineKeeps
<1>7. CASE Client
  BY <1>7, ClientKeeps
<1>8. QED
  BY <1>1, <1>2, <1>3, <1>4, <1>5, <1>6, <1>7 DEF Next, ServeConnection

THEOREM FramingHolds == Spec => []FramingInv
BY FramingStarts, FramingKeeps, PTL DEF Spec

\* The state of a connection stays what its declarations say, and answers and
\* newlines alternate.
THEOREM FramingTyped == Spec => []TypeOK
<1>1. FramingInv => TypeOK
  BY DEF FramingInv
<1>2. QED
  BY <1>1, FramingHolds, PTL
-----------------------------------------------------------------------------
\* What has been answered.

LEMMA Halves ==
    ASSUME NEW n \in Nat, NEW m \in Nat, m = 2 * n \/ m = 2 * n + 1
    PROVE  m \div 2 = n
OBVIOUS

\* Every second of the strings written, the first of the objects, and how they are paired with the objects.
Half(w) == [i \in 1..Len(w) \div 2 |-> w[2 * i - 1]]
First(h, k) == [i \in 1..k |-> h[i]]
Paired(w, h) ==
    /\ Len(w) \in Nat /\ Len(h) \in Nat /\ Len(w) <= 2 * Len(h)
    /\ \A i \in 1..Len(h) : 2 * i - 1 <= Len(w) => w[2 * i - 1] = h[i]

LEMMA AnsweredIs ==
    ASSUME NEW w, NEW h, Paired(w, h),
           NEW k \in Nat, Len(w) = 2 * k \/ Len(w) = 2 * k + 1
    PROVE  Half(w) = First(h, k)
<1>1. PICK m \in Nat : m = Len(w)
  BY DEF Paired
<1>2. PICK n \in Nat : n = Len(h)
  BY DEF Paired
<1>3. m \div 2 = k
  BY <1>1, Halves
<1>4. \A i \in 1..k : i \in 1..n /\ 2 * i - 1 <= m
  <2>1. m <= 2 * n /\ (m = 2 * k \/ m = 2 * k + 1)
    BY <1>1, <1>2 DEF Paired
  <2>2. QED
    BY <2>1
<1>5. \A i \in 1..k : w[2 * i - 1] = h[i]
  BY <1>1, <1>2, <1>4 DEF Paired
<1>6. [i \in 1..k |-> w[2 * i - 1]] = [i \in 1..k |-> h[i]]
  BY <1>5
<1>7. QED
  BY <1>1, <1>3, <1>6 DEF Half, First

LEMMA InvPaired ==
    ASSUME FramingInv
    PROVE  /\ Paired(written, handled) /\ Answered = Half(written)
           /\ Len(written) \in Nat /\ Len(handled) \in Nat
           /\ handled \in Seq(Seq(Byte))
<1>1. TypeOK /\ WritesKept
  BY DEF FramingInv
<1>2. Len(written) \in Nat /\ Len(handled) \in Nat /\ handled \in Seq(Seq(Byte))
  BY <1>1 DEF TypeOK
<1>3. Paired(written, handled)
  BY <1>1, <1>2 DEF WritesKept, Paired
<1>4. QED
  BY <1>2, <1>3 DEF Half, Answered

LEMMA WholeList ==
    ASSUME NEW S, NEW q \in Seq(S)
    PROVE  q = [i \in 1..Len(q) |-> q[i]]
OBVIOUS

\* Whenever the thread waits for more input, whatever the client sent and however
\* the kernel cut it, every request that has arrived in full has its answer.
THEOREM AnsweredFirst == Spec => []AnsweredBeforeWaiting
<1>1. FramingInv => AnsweredBeforeWaiting
  <2> SUFFICES ASSUME FramingInv, pc = "read"
               PROVE  Answered = Received
    BY DEF AnsweredBeforeWaiting
  <2>1. /\ Paired(written, handled) /\ Answered = Half(written)
        /\ Len(handled) \in Nat /\ handled \in Seq(Seq(Byte))
    BY InvPaired
  <2>2. Len(written) = 2 * Len(handled)
    BY DEF FramingInv, WritesKept
  <2>3. Answered = First(handled, Len(handled))
    BY <2>1, <2>2, AnsweredIs
  <2>4. Received = handled
    BY BufferHolds DEF FramingInv
  <2>5. QED
    BY <2>1, <2>3, <2>4, WholeList DEF First
<1>2. QED
  BY <1>1, FramingHolds, PTL
-----------------------------------------------------------------------------
\* The connection as its client sees it.

\* Nothing the client could notice.
LEMMA Unnoticed ==
    ASSUME Received' = Received, Answered' = Answered, pc' = "closed" <=> pc = "closed"
    PROVE  UNCHANGED Stream!vars
<1>1. (pc # "closed")' = (pc # "closed")
  BY Zenon
<1>2. QED
  BY <1>1, Zenon DEF Stream!vars

LEMMA ReadAsks ==
    ASSUME FramingInv, Read
    PROVE  Stream!Ask \/ UNCHANGED Stream!vars
<1>1. /\ pc = "read" /\ pc' = "extract" /\ received < sent
      /\ received' = Min({sent, received + Chunk})
      /\ UNCHANGED <<stream, sent, written>>
  BY DEF Read, client
<1>2. stream \in Seq(Byte) /\ sent \in 0..Len(stream) /\ received \in 0..sent /\ Len(stream) \in Nat
  BY DEF FramingInv, TypeOK
<1>3. TypeOK'
  BY ReadKeeps DEF FramingInv
<1>4. Answered' = Answered
  BY <1>1 DEF Answered
<1>5. received <= received' /\ received' \in 0..Len(stream)
  <2>1. received' \in 0..sent
    BY <1>1, <1>3 DEF TypeOK
  <2>2. \A x \in {sent, received + Chunk} : received <= x /\ x \in Nat
    <3>1. Chunk \in Nat
      BY FramingAssumption
    <3>2. QED
      BY <1>2, <3>1
  <2>3. received' \in {sent, received + Chunk}
    <3> DEFINE T == {sent, received + Chunk}
    <3>1. T \subseteq Nat /\ T # {}
      BY <2>2
    <3>2. Min(T) \in T
      <4> HIDE DEF T
      <4>1. QED
        BY <3>1, Least
    <3>3. QED
      BY <1>1, <3>2
  <2>4. QED
    BY <1>2, <2>1, <2>2, <2>3
<1>6. Extends(Received, Received')
  <2>1. received \in 0..Len(stream) /\ received' \in received..Len(stream)
    BY <1>2, <1>5
  <2>2. Extends(ReadingOf(stream)[received].objects, ReadingOf(stream)[received'].objects)
    BY <1>2, <2>1, FoundStays
  <2>3. QED
    BY <1>1, <2>2 DEF Received
<1>7. Received \in Seq(Seq(Byte)) /\ Received' \in Seq(Seq(Byte))
  <2>1. \A i \in 0..Len(stream) : ReadingOf(stream)[i].objects \in Seq(Seq(Byte))
    BY <1>2, ReadingOfGoes DEF Reading
  <2>2. QED
    BY <1>1, <1>2, <1>5, <2>1 DEF Received
<1>8. CASE Len(Received') = Len(Received)
  <2>1. Received' = Received
    BY <1>6, <1>7, <1>8, WholeList DEF Extends
  <2>2. QED
    BY <1>1, <1>4, <2>1, Unnoticed
<1>9. CASE Len(Received') # Len(Received)
  <2>1. PICK a \in Seq(Seq(Byte)) : a = Received
    BY <1>7
  <2>2. PICK b \in Seq(Seq(Byte)) : b = Received'
    BY <1>7
  <2>3. Len(a) \in Nat /\ Len(b) \in Nat /\ Len(a) < Len(b)
    BY <1>6, <1>9, <2>1, <2>2 DEF Extends
  <2>4. SubSeq(b, 1, Len(a)) = a
    <3>1. \A i \in 1..Len(a) : b[i] = a[i]
      BY <1>6, <2>1, <2>2 DEF Extends
    <3>2. SubSeq(b, 1, Len(a)) = [i \in 1..Len(a) |-> b[i]]
      BY <2>3
    <3>3. QED
      BY <3>1, <3>2, WholeList
  <2>5. (pc # "closed") /\ (pc # "closed")' = (pc # "closed")
    BY <1>1, Zenon
  <2>6. Stream!Ask
    BY <1>4, <2>1, <2>2, <2>3, <2>4, <2>5, Zenon DEF Stream!Ask
  <2>7. QED
    BY <2>6
<1>10. QED
  BY <1>8, <1>9

LEMMA PairedNext ==
    ASSUME FramingInv', handled' = handled
    PROVE  Paired(written', handled) /\ Answered' = Half(written')
<1>1. TypeOK' /\ WritesKept'
  BY DEF FramingInv
<1>2. Len(written') \in Nat /\ Len(handled') \in Nat
  BY <1>1 DEF TypeOK
<1>3. Paired(written', handled')
  BY <1>1, <1>2 DEF WritesKept, Paired
<1>4. QED
  BY <1>3 DEF Half, Answered

LEMMA NewlineAnswers ==
    ASSUME FramingInv, WriteNewline
    PROVE  Stream!Answer
<1>1. pc = "newline" /\ pc' = "extract" /\ UNCHANGED <<stream, received, handled>>
  BY DEF WriteNewline, Write, client
<1>2. handled \in Seq(Seq(Byte)) /\ Len(handled) \in Nat /\ Len(written) \in Nat
  BY DEF FramingInv, TypeOK
<1>3. PICK n \in Nat : n = Len(handled)
  BY <1>2
<1>4. Len(written) = 2 * n - 1
  BY <1>1, <1>3 DEF FramingInv, WritesKept
<1>5. PICK k \in Nat : n = k + 1 /\ Len(written) = 2 * k + 1
  <2>1. PICK m \in Nat : m = Len(written)
    BY <1>2
  <2>2. m = 2 * n - 1
    BY <1>4, <2>1
  <2>3. n - 1 \in Nat /\ n = (n - 1) + 1 /\ m = 2 * (n - 1) + 1
    BY <2>2
  <2>4. QED
    BY <2>1, <2>3
<1>6. Answered = First(handled, k)
  <2>1. Paired(written, handled) /\ Answered = Half(written)
    BY InvPaired
  <2>2. QED
    BY <1>5, <2>1, AnsweredIs
<1>7. Answered' = handled
  <2>1. FramingInv' /\ pc' = "extract" /\ handled' = handled
    BY <1>1, WriteNewlineKeeps
  <2>2. Paired(written', handled) /\ Answered' = Half(written')
    BY <2>1, PairedNext
  <2>3. Len(written') = 2 * n
    BY <1>3, <2>1 DEF FramingInv, WritesKept
  <2>4. Half(written') = First(handled, n)
    BY <2>2, <2>3, AnsweredIs
  <2>5. QED
    BY <1>2, <1>3, <2>2, <2>4, WholeList DEF First
<1>8. Answered \in Seq(Seq(Byte)) /\ Len(Answered) = k
  <2>1. \A i \in 1..k : handled[i] \in Seq(Byte)
    <3>1. \A i \in 1..n : handled[i] \in Seq(Byte)
      BY <1>2, <1>3
    <3>2. \A i \in 1..k : i \in 1..n
      BY <1>5
    <3>3. QED
      BY <3>1, <3>2
  <2>2. QED
    BY <1>6, <2>1 DEF First
<1>9. Received' = Received
  BY <1>1 DEF Received
<1>10. Extends(handled, Received)
  BY BufferHolds DEF FramingInv
<1>11. k < Len(Received) /\ Received[k + 1] = handled[k + 1]
  BY <1>2, <1>3, <1>5, <1>10 DEF Extends
<1>12. handled = Append(Answered, handled[k + 1])
  <2>1. handled[k + 1] \in Seq(Byte)
    <3>1. \A i \in 1..n : handled[i] \in Seq(Byte)
      BY <1>2, <1>3
    <3>2. k + 1 \in 1..n
      BY <1>5
    <3>3. QED
      BY <3>1, <3>2
  <2>2. PICK q \in Seq(Seq(Byte)) : q = Append(Answered, handled[k + 1])
    BY <1>8, <2>1, AppendProperties
  <2>3. /\ Len(q) = k + 1 /\ q[k + 1] = handled[k + 1]
        /\ \A i \in 1..k : q[i] = Answered[i]
    BY <1>8, <2>1, <2>2, AppendProperties
  <2>4. \A i \in 1..k + 1 : q[i] = handled[i]
    BY <1>6, <2>3 DEF First
  <2>5. QED
    BY <1>2, <1>3, <1>5, <2>2, <2>3, <2>4, SeqEqual
<1>13. (pc # "closed") /\ (pc # "closed")' = (pc # "closed")
  BY <1>1, Zenon
<1>14. QED
  BY <1>7, <1>8, <1>9, <1>11, <1>12, <1>13, Zenon DEF Stream!Answer

LEMMA ResponseUnnoticed ==
    ASSUME FramingInv, WriteResponse
    PROVE  UNCHANGED Stream!vars
<1>1. pc = "respond" /\ pc' = "newline" /\ UNCHANGED <<stream, received, handled>>
  BY DEF WriteResponse, Write, client
<1>2. /\ Paired(written, handled) /\ Answered = Half(written)
      /\ Len(written) \in Nat /\ Len(handled) \in Nat
  BY InvPaired
<1>3. FramingInv'
  BY WriteResponseKeeps
<1>4. Paired(written', handled) /\ Answered' = Half(written')
  BY <1>1, <1>3, PairedNext
<1>5. PICK k \in Nat : Len(written) = 2 * k /\ Len(written') = 2 * k + 1
  <2>1. PICK n \in Nat : n = Len(handled)
    BY <1>2
  <2>2. PICK m \in Nat : m = Len(written)
    BY <1>2
  <2>3. m = 2 * n - 2
    BY <1>1, <2>1, <2>2 DEF FramingInv, WritesKept
  <2>4. Len(written') = 2 * n - 1
    BY <1>1, <1>3, <2>1 DEF FramingInv, WritesKept
  <2>5. n - 1 \in Nat /\ m = 2 * (n - 1) /\ 2 * n - 1 = 2 * (n - 1) + 1
    BY <2>3
  <2>6. QED
    BY <2>2, <2>4, <2>5
<1>6. Answered = First(handled, k)
  BY <1>2, <1>5, AnsweredIs
<1>7. Answered' = First(handled, k)
  <2>1. PICK w : w = written'
    OBVIOUS
  <2>2. Half(w) = First(handled, k)
    BY <1>4, <1>5, <2>1, AnsweredIs
  <2>3. QED
    BY <1>4, <2>1, <2>2
<1>8. Received' = Received
  BY <1>1 DEF Received
<1>9. QED
  BY <1>1, <1>6, <1>7, <1>8, Unnoticed

LEMMA StreamStarts == Init => Stream!Init
<1> SUFFICES ASSUME Init PROVE Stream!Init
  OBVIOUS
<1>1. /\ stream \in Seq(Byte) /\ received = 0 /\ pc = "read" /\ written = <<>>
  BY FramingAssumption DEF Init
<1>2. Received = <<>>
  BY <1>1, ReadingOfGoes DEF Received, Blank
<1>3. Answered = <<>>
  <2>1. Len(written) \div 2 = 0
    <3>1. Len(written) = 2 * 0
      BY <1>1
    <3>2. QED
      BY <3>1, Halves
  <2>2. [i \in 1..0 |-> written[2 * i - 1]] = <<>>
    OBVIOUS
  <2>3. QED
    BY <2>1, <2>2 DEF Answered
<1>4. (pc # "closed") = TRUE
  BY <1>1
<1>5. QED
  BY <1>2, <1>3, <1>4, Zenon DEF Stream!Init

LEMMA StreamSteps ==
    ASSUME FramingInv, [Next]_vars
    PROVE  [Stream!Next]_(Stream!vars)
<1>1. CASE UNCHANGED vars \/ Client
  <2>1. UNCHANGED <<stream, received, pc, written>>
    BY <1>1 DEF vars, client, server, Client, Send, Take, Leave
  <2>2. Received' = Received /\ Answered' = Answered
    BY <2>1 DEF Received, Answered
  <2>3. QED
    BY <2>1, <2>2, Unnoticed
<1>2. CASE Read
  BY <1>2, ReadAsks DEF Stream!Next
<1>3. CASE ReadEnds \/ WriteFails \/ Panic
  <2>1. pc # "closed" /\ pc' = "closed" /\ UNCHANGED <<stream, received, written>>
    BY <1>3 DEF ReadEnds, WriteFails, Panic, client
  <2>2. Received' = Received /\ Answered' = Answered
    BY <2>1 DEF Received, Answered
  <2>3. (pc # "closed") /\ (pc # "closed")' = FALSE
    BY <2>1
  <2>4. Stream!End
    BY <2>2, <2>3, Zenon DEF Stream!End
  <2>5. QED
    BY <2>4 DEF Stream!Next
<1>4. CASE Extract
  <2>1. pc # "closed" /\ pc' # "closed" /\ UNCHANGED <<stream, received, written>>
    BY <1>4 DEF Extract, client
  <2>2. Received' = Received /\ Answered' = Answered
    BY <2>1 DEF Received, Answered
  <2>3. QED
    BY <2>1, <2>2, Unnoticed
<1>5. CASE WriteResponse
  BY <1>5, ResponseUnnoticed
<1>6. CASE WriteNewline
  BY <1>6, NewlineAnswers DEF Stream!Next
<1>7. QED
  BY <1>1, <1>2, <1>3, <1>4, <1>5, <1>6 DEF Next, ServeConnection

\* The connection implements RequestStream: however its bytes are cut, each request
\* is answered once, in the order in which they arrived, until the connection ends.
THEOREM RequestsInOrder == Spec => InOrder
<1>1. Init => Stream!Init
  BY StreamStarts
<1>2. FramingInv /\ [Next]_vars => [Stream!Next]_(Stream!vars)
  BY StreamSteps
<1>3. QED
  BY <1>1, <1>2, FramingHolds, PTL DEF Spec, InOrder, Stream!Spec
-----------------------------------------------------------------------------
\* What the handler is given.

LEMMA BeforeOpening ==
    ASSUME NEW b \in Seq(Byte), NEW n \in 0..Len(b), Before(b, n)
    PROVE  ScanOf(b)[n] = Outside
<1>1. PICK l \in Nat : l = Len(b)
  OBVIOUS
<1>2. n \in Nat /\ n \in 0..l
  BY <1>1
<1> DEFINE P == {i \in 0..n : ScanOf(b)[i] = Outside}
<1>3. 0 \in P
  BY <1>2, ScanOfGoes
<1>4. ASSUME NEW i \in 1..n, i - 1 \in P
      PROVE  i \in P
  <2>1. i \in 1..l /\ i \in 0..n
    BY <1>2
  <2>2. b[i] \in Byte /\ b[i] # Opening
    BY <1>1, <2>1 DEF Before
  <2>3. ScanOf(b)[i] = Scan(ScanOf(b)[i - 1], b[i])
    BY <1>1, <2>1, ScanOfGoes
  <2>4. ScanOf(b)[i] = Outside
    BY <1>4, <2>2, <2>3, ScanFromOutside
  <2>5. QED
    BY <2>1, <2>4
<1> HIDE DEF P
<1>5. n \in P
  <2>1. \A i \in 0..n : i \in P
    BY <1>2, <1>3, <1>4, Induct
  <2>2. QED
    BY <1>2, <2>1
<1>6. QED
  BY <1>5 DEF P

\* o is b from st to end, byte by byte and scanned alike.
PartOf(o, b, st, end) ==
  /\ o \in Seq(Byte) /\ Len(o) = end - st + 1
  /\ \A i \in 1..Len(o) : o[i] = b[st + i - 1]
  /\ \A i \in 0..Len(o) : ScanOf(o)[i] = ScanOf(b)[st + i - 1]

\* The scan of a part that begins outside is the scan of the whole.
LEMMA ScanOfPart ==
    ASSUME NEW b \in Seq(Byte), NEW st \in 1..Len(b), NEW end \in st..Len(b), NEW o,
           o = SubSeq(b, st, end), ScanOf(b)[st - 1] = Outside
    PROVE  PartOf(o, b, st, end)
<1>1. PICK l \in Nat : l = Len(b)
  OBVIOUS
<1>2. st \in Int /\ end \in Int /\ st \in 1..l /\ end \in st..l
  BY <1>1
<1>3. \A i \in st..end : b[i] \in Byte
  BY <1>1, <1>2
<1>4. PICK m \in Nat : m = end - st + 1
  BY <1>2
<1>5. o \in Seq(Byte) /\ Len(o) = m /\ \A i \in 1..m : o[i] = b[st + i - 1]
  <2>1. /\ SubSeq(b, st, end) \in Seq(Byte)
        /\ Len(SubSeq(b, st, end)) = IF st <= end THEN end - st + 1 ELSE 0
        /\ \A i \in 1..end - st + 1 : SubSeq(b, st, end)[i] = b[st + i - 1]
    BY <1>2, <1>3, SubSeqProperties
  <2>2. st <= end
    BY <1>2
  <2>3. QED
    BY <1>4, <2>1, <2>2, Zenon
<1> DEFINE P == {i \in 0..m : ScanOf(o)[i] = ScanOf(b)[st + i - 1]}
<1>6. 0 \in P
  <2>1. st + 0 - 1 = st - 1 /\ 0 \in 0..m
    BY <1>2, <1>4
  <2>2. ScanOf(o)[0] = Outside
    BY <1>5, ScanOfGoes
  <2>3. QED
    BY <2>1, <2>2
<1>7. ASSUME NEW i \in 1..m, i - 1 \in P
      PROVE  i \in P
  <2>1. PICK j \in 1..l : j = st + i - 1 /\ j - 1 = st + (i - 1) - 1
    BY <1>2, <1>4
  <2>2. ScanOf(o)[i] = Scan(ScanOf(o)[i - 1], o[i])
    BY <1>5, ScanOfGoes
  <2>3. ScanOf(b)[j] = Scan(ScanOf(b)[j - 1], b[j])
    BY <1>1, ScanOfGoes
  <2>4. o[i] = b[j] /\ ScanOf(o)[i - 1] = ScanOf(b)[j - 1]
    BY <1>5, <1>7, <2>1
  <2>5. ScanOf(o)[i] = ScanOf(b)[st + i - 1]
    BY <2>1, <2>2, <2>3, <2>4
  <2>6. QED
    BY <2>5
<1> HIDE DEF P
<1>8. \A i \in 0..m : i \in P
  BY <1>6, <1>7, Induct
<1>9. QED
  BY <1>4, <1>5, <1>8 DEF P, PartOf

\* An object to the scanner: its first byte opens it, its last one ends it.
WholeObject(s) == s[1] = Opening /\ Ends(s) = {Len(s)}

LEMMA ExtractsWhole ==
    ASSUME NEW b \in Seq(Byte), Complete(b)
    PROVE  WholeObject(ExtractJsonObject(b).msg)
<1>1. PICK n \in Nat : n = Len(b)
  OBVIOUS
<1>2. PICK end \in 1..n : /\ end = Min(Ends(b)) /\ end \in Ends(b)
                          /\ \A j \in Ends(b) : end <= j
  <2>1. Ends(b) \subseteq Nat /\ Ends(b) # {} /\ Ends(b) \subseteq 1..n
    BY <1>1 DEF Complete, Ends
  <2>2. Min(Ends(b)) \in Ends(b) /\ \A y \in Ends(b) : Min(Ends(b)) <= y
    BY <2>1, Least
  <2>3. QED
    BY <2>1, <2>2
<1>3. PICK st \in 1..end - 1 : /\ st = Min({i \in 1..Len(b) : b[i] = Opening})
                               /\ Starts(b, st)
  <2> DEFINE T == {i \in 1..n : b[i] = Opening}
  <2>1. ~Before(b, end - 1)
    <3>1. ScanOf(b)[end - 1].depth > 0
      BY <1>2, EndsAre
    <3>2. ScanOf(b)[end - 1] # Outside
      BY <3>1 DEF Outside
    <3>3. end - 1 \in 0..Len(b)
      BY <1>1
    <3>4. QED
      BY <3>2, <3>3, BeforeOpening
  <2>2. PICK j \in 1..end - 1 : b[j] = Opening
    BY <2>1 DEF Before
  <2>3. T \subseteq Nat /\ j \in T /\ \A i : i \in T <=> i \in 1..n /\ b[i] = Opening
    BY <2>2
  <2>4. Min(T) \in T /\ \A y \in T : Min(T) <= y
    <3> HIDE DEF T
    <3>1. QED
      BY <2>3, Least
  <2>5. PICK st \in 1..end - 1 : st = Min(T) /\ b[st] = Opening
    <3>1. PICK x : x = Min(T)
      OBVIOUS
    <3>2. x \in 1..n /\ b[x] = Opening /\ x <= j
      BY <2>3, <2>4, <3>1
    <3>3. x \in 1..end - 1
      BY <3>2
    <3>4. QED
      BY <3>1, <3>2, <3>3
  <2>6. \A i \in 1..st - 1 : b[i] # Opening
    <3>1. \A i \in 1..st - 1 : i \in 1..n /\ ~(st <= i)
      OBVIOUS
    <3>2. QED
      BY <2>3, <2>4, <2>5, <3>1
  <2>7. QED
    BY <1>1, <2>5, <2>6 DEF Starts
<1>4. ExtractJsonObject(b).msg = SubSeq(b, st, end)
  <2>1. ExtractJsonObject(b) = [msg |-> SubSeq(b, st, end), rest |-> SubSeq(b, end + 1, Len(b))]
    BY <1>2, <1>3, Zenon DEF ExtractJsonObject
  <2>2. QED
    BY <2>1
<1>5. PICK o : o = SubSeq(b, st, end)
  OBVIOUS
<1>6. ScanOf(b)[st - 1] = Outside
  <2>1. Before(b, st - 1)
    BY <1>3 DEF Starts, Before
  <2>2. st - 1 \in 0..Len(b)
    BY <1>1
  <2>3. QED
    BY <2>1, <2>2, BeforeOpening
<1>7. PICK m \in Nat : m = end - st + 1
  OBVIOUS
<1>8. /\ Len(o) = m
      /\ \A i \in 1..m : o[i] = b[st + i - 1]
      /\ \A i \in 0..m : ScanOf(o)[i] = ScanOf(b)[st + i - 1]
  <2>1. st \in 1..Len(b) /\ end \in st..Len(b)
    BY <1>1
  <2>2. PartOf(o, b, st, end)
    BY <1>5, <1>6, <2>1, ScanOfPart
  <2>3. QED
    BY <1>7, <2>2, Zenon DEF PartOf
<1>9. \A i \in 1..m : i \in Ends(o) <=> st + i - 1 \in Ends(b)
  <2> TAKE i \in 1..m
  <2>1. PICK j \in 1..n : j = st + i - 1 /\ j - 1 = st + (i - 1) - 1
    BY <1>7
  <2>2. ScanOf(o)[i] = ScanOf(b)[j] /\ ScanOf(o)[i - 1] = ScanOf(b)[j - 1]
    <3>1. i \in 0..m /\ i - 1 \in 0..m
      OBVIOUS
    <3>2. QED
      BY <1>8, <2>1, <3>1
  <2>3. i \in Ends(o) <=> ScanOf(o)[i - 1].depth > 0 /\ ScanOf(o)[i].depth = 0
    BY <1>8, EndsAre
  <2>4. j \in Ends(b) <=> ScanOf(b)[j - 1].depth > 0 /\ ScanOf(b)[j].depth = 0
    BY <1>1, EndsAre
  <2>5. QED
    BY <2>1, <2>2, <2>3, <2>4, Zenon
<1>10. Ends(o) = {Len(o)}
  <2>1. m \in 1..m /\ st + m - 1 = end
    BY <1>7
  <2>2. m \in Ends(o)
    BY <1>2, <1>9, <2>1
  <2>3. ASSUME NEW i \in Ends(o)
        PROVE  i = m
    <3>1. i \in 1..m
      BY <1>8, EndsAre
    <3>2. end <= st + i - 1
      BY <1>2, <1>9, <3>1
    <3>3. QED
      BY <1>7, <3>1, <3>2
  <2>4. QED
    BY <1>8, <2>2, <2>3
<1>11. o[1] = Opening
  <2>1. 1 \in 1..m /\ st + 1 - 1 = st
    BY <1>7
  <2>2. QED
    BY <1>3, <1>8, <2>1 DEF Starts
<1>12. QED
  BY <1>4, <1>5, <1>10, <1>11 DEF WholeObject
-----------------------------------------------------------------------------
\* The scanner's state after each byte, as three functions.
DepthAt(s, i) == ScanOf(s)[i].depth
InString(s, i) == ScanOf(s)[i].in_string
Escaped(s, i) == ScanOf(s)[i].escape

LEMMA ScanBegins ==
    ASSUME NEW s \in Seq(Byte)
    PROVE  DepthAt(s, 0) = 0 /\ ~InString(s, 0) /\ ~Escaped(s, 0)
<1>1. ScanOf(s)[0] = Outside
  BY ScanOfGoes
<1>2. Outside.depth = 0 /\ ~Outside.in_string /\ ~Outside.escape
  BY DEF Outside
<1>3. QED
  BY <1>1, <1>2, Zenon DEF DepthAt, InString, Escaped

LEMMA ScanKeeps ==
    ASSUME NEW s \in Seq(Byte), NEW i \in 0..Len(s)
    PROVE  /\ DepthAt(s, i) \in Nat
           /\ DepthAt(s, i) = 0 => ~InString(s, i)
           /\ ~InString(s, i) => ~Escaped(s, i)
<1>1. ScanOf(s)[i] \in Scanner /\ Sound(ScanOf(s)[i])
  BY ScanOfGoes
<1>2. PICK a \in Scanner : a = ScanOf(s)[i]
  BY <1>1
<1>3. a.depth \in Nat
  BY DEF Scanner
<1>4. Sound(a)
  BY <1>1, <1>2
<1>5. QED
  BY <1>2, <1>3, <1>4, Zenon DEF Sound, DepthAt, InString, Escaped

LEMMA StepInString ==
    ASSUME NEW s \in Seq(Byte), NEW i \in 1..Len(s), InString(s, i - 1)
    PROVE  /\ DepthAt(s, i) = DepthAt(s, i - 1)
           /\ InString(s, i) <=> s[i] # Quote \/ Escaped(s, i - 1)
           /\ Escaped(s, i) <=> s[i] = Backslash /\ ~Escaped(s, i - 1)
<1>1. i - 1 \in 0..Len(s) /\ s[i] \in Byte
  OBVIOUS
<1>2. PICK a \in Scanner : a = ScanOf(s)[i - 1]
  BY <1>1, ScanOfGoes
<1>3. ScanOf(s)[i] = Scan(a, s[i])
  BY <1>2, ScanOfGoes
<1>4. a.in_string
  BY <1>2 DEF InString
<1>5. PICK b \in Byte : b = s[i]
  BY <1>1
<1>6. /\ Scan(a, b).depth = a.depth
      /\ Scan(a, b).in_string <=> b # Quote \/ a.escape
      /\ Scan(a, b).escape <=> b = Backslash /\ ~a.escape
  BY <1>4, ScanInString
<1>7. QED
  BY <1>2, <1>3, <1>5, <1>6, Zenon DEF DepthAt, InString, Escaped

LEMMA StepOutOfString ==
    ASSUME NEW s \in Seq(Byte), NEW i \in 1..Len(s), ~InString(s, i - 1)
    PROVE  /\ DepthAt(s, i) = Depth(DepthAt(s, i - 1), s[i])
           /\ InString(s, i) <=> s[i] = Quote /\ DepthAt(s, i - 1) > 0
           /\ ~Escaped(s, i)
<1>1. i - 1 \in 0..Len(s) /\ s[i] \in Byte
  OBVIOUS
<1>2. PICK a \in Scanner : a = ScanOf(s)[i - 1] /\ Sound(a)
  BY <1>1, ScanOfGoes
<1>3. ScanOf(s)[i] = Scan(a, s[i])
  BY <1>2, ScanOfGoes
<1>4. ~a.in_string /\ ~a.escape
  BY <1>2, Zenon DEF InString, Sound
<1>5. PICK b \in Byte : b = s[i]
  BY <1>1
<1>6. /\ Scan(a, b).depth = Depth(a.depth, b)
      /\ Scan(a, b).in_string <=> b = Quote /\ a.depth > 0
      /\ ~Scan(a, b).escape
  BY <1>4, ScanOutOfString
<1>7. QED
  BY <1>2, <1>3, <1>5, <1>6, Zenon DEF DepthAt, InString, Escaped
-----------------------------------------------------------------------------
\* What protects a quote.

LEMMA Greatest ==
    ASSUME NEW n \in Nat, NEW T, T \subseteq 0..n, T # {}
    PROVE  \E x \in T : \A y \in T : y <= x
<1> DEFINE U == {n - y : y \in T}
<1>1. U \subseteq Nat /\ U # {}
  <2>1. \A y \in T : n - y \in Nat
    OBVIOUS
  <2>2. QED
    BY <2>1
<1>2. Min(U) \in U /\ \A u \in U : Min(U) <= u
  <2> HIDE DEF U
  <2>1. QED
    BY <1>1, Least
<1>3. PICK x \in T : Min(U) = n - x
  BY <1>2
<1>4. \A y \in T : n - x <= n - y
  BY <1>2, <1>3
<1>5. \A y \in T : y <= x
  BY <1>4
<1>6. QED
  BY <1>5

LEMMA ProtectedFirst ==
    ASSUME NEW s, NEW i \in Nat
    PROVE  ~Protected(s, i, i + 1)
<1>1. \A m \in i..(i + 1) - 1 : m = i
  OBVIOUS
<1>2. ((i + 1) - i) % 2 # 0
  OBVIOUS
<1>3. QED
  BY <1>1, <1>2 DEF Protected

\* m is the last byte before k, from i on, that is no backslash.
LastPlain(s, i, k, m) ==
    m \in i..k - 1 /\ s[m] # Backslash /\ \A p \in m + 1..k - 1 : s[p] = Backslash

LEMMA LastPlainIs ==
    ASSUME NEW s, NEW i \in Nat, NEW k \in Nat, i < k, s[i] # Backslash
    PROVE  \E m \in Nat : /\ LastPlain(s, i, k, m)
                          /\ Protected(s, i, k) <=> (k - m) % 2 = 0
<1> DEFINE T == {m \in i..k - 1 : s[m] # Backslash}
<1>1. T \subseteq 0..k /\ i \in T
  OBVIOUS
<1>2. PICK m \in T : \A y \in T : y <= m
  <2> HIDE DEF T
  <2>1. QED
    BY <1>1, Greatest
<1>3. m \in Nat /\ m \in i..k - 1 /\ s[m] # Backslash
  OBVIOUS
<1>4. ASSUME NEW p \in m + 1..k - 1
      PROVE  s[p] = Backslash
  <2>1. p \in i..k - 1 /\ ~(p <= m)
    BY <1>3
  <2>2. QED
    BY <1>2, <2>1
<1>5. LastPlain(s, i, k, m)
  BY <1>3, <1>4 DEF LastPlain
<1>6. ASSUME NEW q \in i..k - 1, s[q] # Backslash, \A p \in q + 1..k - 1 : s[p] = Backslash
      PROVE  q = m
  <2>1. q <= m
    BY <1>2, <1>6
  <2>2. ~(q < m)
    <3>1. q < m => m \in q + 1..k - 1
      BY <1>3
    <3>2. QED
      BY <1>3, <1>6, <3>1
  <2>3. QED
    BY <1>3, <2>1, <2>2
<1>7. Protected(s, i, k) <=> (k - m) % 2 = 0
  BY <1>3, <1>4, <1>6 DEF Protected
<1>8. QED
  BY <1>3, <1>5, <1>7

LEMMA ProtectedNext ==
    ASSUME NEW s, NEW i \in Nat, NEW k \in Nat, i < k, s[i] # Backslash
    PROVE  Protected(s, i, k + 1) <=> s[k] = Backslash /\ ~Protected(s, i, k)
<1>1. PICK m \in Nat : /\ LastPlain(s, i, k, m)
                       /\ Protected(s, i, k) <=> (k - m) % 2 = 0
  BY LastPlainIs
<1>2. PICK q \in Nat : /\ LastPlain(s, i, k + 1, q)
                       /\ Protected(s, i, k + 1) <=> ((k + 1) - q) % 2 = 0
  <2>1. k + 1 \in Nat /\ i < k + 1
    OBVIOUS
  <2>2. QED
    BY <2>1, LastPlainIs
<1>3. CASE s[k] # Backslash
  <2>1. q = k
    <3>1. q \in i..k
      BY <1>2 DEF LastPlain
    <3>2. q < k => k \in q + 1..(k + 1) - 1
      BY <1>2
    <3>3. QED
      BY <1>2, <1>3, <3>1, <3>2 DEF LastPlain
  <2>2. ((k + 1) - k) % 2 # 0
    OBVIOUS
  <2>3. QED
    BY <1>2, <1>3, <2>1, <2>2
<1>4. CASE s[k] = Backslash
  <2>1. q # k /\ q \in i..k /\ m \in i..k - 1
    BY <1>1, <1>2, <1>4 DEF LastPlain
  <2>2. ~(q < m)
    <3>1. q < m => m \in q + 1..(k + 1) - 1
      BY <2>1
    <3>2. QED
      BY <1>1, <1>2, <3>1 DEF LastPlain
  <2>3. ~(m < q)
    <3>1. m < q => q \in m + 1..k - 1
      BY <2>1
    <3>2. QED
      BY <1>1, <1>2, <3>1 DEF LastPlain
  <2>4. q = m
    BY <2>1, <2>2, <2>3
  <2>5. PICK d \in Nat : d = k - m /\ (k + 1) - m = d + 1
    BY <2>1
  <2>6. (d + 1) % 2 = 0 <=> d % 2 # 0
    OBVIOUS
  <2>7. QED
    BY <1>1, <1>2, <1>4, <2>4, <2>5, <2>6
<1>5. QED
  BY <1>3, <1>4

\* Within a string, the scanner's flag says which byte is protected.
LEMMA EscapedIs ==
    ASSUME NEW s \in Seq(Byte), NEW i \in 1..Len(s), NEW j \in i..Len(s),
           s[i] = Quote, ~InString(s, i - 1), \A k \in i..j - 1 : InString(s, k)
    PROVE  \A k \in i..j : Escaped(s, k) <=> Protected(s, i, k + 1)
<1>1. PICK n \in Nat : n = Len(s)
  OBVIOUS
<1>2. i \in Nat /\ i \in 1..n /\ j \in i..n
  BY <1>1
<1>3. PICK l \in Nat : l = j - i
  BY <1>2
<1> DEFINE P == {d \in 0..l : Escaped(s, i + d) <=> Protected(s, i, i + d + 1)}
<1>4. 0 \in P
  <2>1. ~Escaped(s, i)
    BY StepOutOfString
  <2>2. ~Protected(s, i, i + 1)
    BY <1>2, ProtectedFirst
  <2>3. i + 0 = i /\ i + 0 + 1 = i + 1
    BY <1>2
  <2>4. QED
    BY <2>1, <2>2, <2>3
<1>5. ASSUME NEW d \in 1..l, d - 1 \in P
      PROVE  d \in P
  <2>1. PICK k \in i + 1..j : k = i + d /\ k - 1 = i + (d - 1) /\ k = i + (d - 1) + 1
    BY <1>2, <1>3
  <2>2. k \in 1..Len(s) /\ k \in Nat /\ i < k /\ k - 1 \in i..j - 1
    BY <1>1, <1>2, <2>1
  <2>3. Escaped(s, k) <=> s[k] = Backslash /\ ~Escaped(s, k - 1)
    BY <2>2, StepInString
  <2>4. Escaped(s, k - 1) <=> Protected(s, i, k)
    BY <1>5, <2>1
  <2>5. Protected(s, i, k + 1) <=> s[k] = Backslash /\ ~Protected(s, i, k)
    BY <1>2, <2>2, ProtectedNext, BytesDiffer
  <2>6. Escaped(s, k) <=> Protected(s, i, k + 1)
    BY <2>3, <2>4, <2>5
  <2>7. QED
    BY <2>1, <2>6
<1> HIDE DEF P
<1>6. \A d \in 0..l : d \in P
  BY <1>4, <1>5, Induct
<1>7. ASSUME NEW k \in i..j
      PROVE  Escaped(s, k) <=> Protected(s, i, k + 1)
  <2>1. k - i \in 0..l /\ i + (k - i) = k
    BY <1>2, <1>3
  <2>2. k - i \in P
    BY <1>6, <2>1
  <2>3. QED
    BY <2>1, <2>2 DEF P
<1>8. QED
  BY <1>7
-----------------------------------------------------------------------------
\* Counting braces.

LEMMA BracesNone ==
    ASSUME NEW s, NEW lits, NEW b
    PROVE  IsFiniteSet(Braces(s, lits, 0, b)) /\ Cardinality(Braces(s, lits, 0, b)) = 0
<1>1. Braces(s, lits, 0, b) = {}
  BY DEF Braces, Bare
<1>2. QED
  BY <1>1, FS_EmptySet, Zenon

LEMMA BracesMore ==
    ASSUME NEW s \in Seq(Byte), NEW lits, NEW b, NEW n \in 1..Len(s),
           IsFiniteSet(Braces(s, lits, n - 1, b))
    PROVE  /\ IsFiniteSet(Braces(s, lits, n, b))
           /\ Cardinality(Braces(s, lits, n, b)) =
                  IF n \in Bare(s, lits) /\ s[n] = b
                  THEN Cardinality(Braces(s, lits, n - 1, b)) + 1
                  ELSE Cardinality(Braces(s, lits, n - 1, b))
<1>1. \A k \in 1..Len(s) : k <= n <=> k <= n - 1 \/ k = n
  OBVIOUS
<1>2. n \notin Braces(s, lits, n - 1, b)
  BY DEF Braces
<1>3. CASE n \in Bare(s, lits) /\ s[n] = b
  <2>1. Braces(s, lits, n, b) = Braces(s, lits, n - 1, b) \cup {n}
    BY <1>1, <1>3 DEF Braces, Bare
  <2>2. QED
    BY <1>2, <1>3, <2>1, FS_AddElement
<1>4. CASE ~(n \in Bare(s, lits) /\ s[n] = b)
  <2>1. Braces(s, lits, n, b) = Braces(s, lits, n - 1, b)
    BY <1>1, <1>4 DEF Braces, Bare
  <2>2. QED
    BY <1>4, <2>1, Zenon
<1>5. QED
  BY <1>3, <1>4

LEMMA BracesCounted ==
    ASSUME NEW s \in Seq(Byte), NEW lits, NEW b, NEW n \in 0..Len(s)
    PROVE  IsFiniteSet(Braces(s, lits, n, b)) /\ Cardinality(Braces(s, lits, n, b)) \in Nat
<1>1. PICK l \in Nat : l = Len(s)
  OBVIOUS
<1> DEFINE P == {i \in 0..l : IsFiniteSet(Braces(s, lits, i, b))}
<1>2. 0 \in P
  BY BracesNone
<1>3. ASSUME NEW i \in 1..l, i - 1 \in P
      PROVE  i \in P
  <2>1. IsFiniteSet(Braces(s, lits, i, b))
    BY <1>1, <1>3, BracesMore
  <2>2. QED
    BY <2>1
<1> HIDE DEF P
<1>4. n \in P
  <2>1. \A i \in 0..l : i \in P
    BY <1>2, <1>3, Induct
  <2>2. QED
    BY <1>1, <2>1
<1>5. QED
  BY <1>4, FS_CardinalityType DEF P

LEMMA SurplusNone ==
    ASSUME NEW s, NEW lits
    PROVE  Surplus(s, lits, 0) = 0
<1>1. /\ Cardinality(Braces(s, lits, 0, Opening)) = 0
      /\ Cardinality(Braces(s, lits, 0, Closing)) = 0
  BY BracesNone
<1>2. QED
  BY <1>1 DEF Surplus

LEMMA SurplusMore ==
    ASSUME NEW s \in Seq(Byte), NEW lits, NEW n \in 1..Len(s)
    PROVE  /\ Surplus(s, lits, n - 1) \in Int
           /\ n \notin Bare(s, lits) => Surplus(s, lits, n) = Surplus(s, lits, n - 1)
           /\ n \in Bare(s, lits) =>
                  Surplus(s, lits, n) =
                      IF s[n] = Opening THEN Surplus(s, lits, n - 1) + 1
                      ELSE IF s[n] = Closing THEN Surplus(s, lits, n - 1) - 1
                      ELSE Surplus(s, lits, n - 1)
<1>1. n - 1 \in 0..Len(s)
  OBVIOUS
<1>2. PICK o \in Nat, c \in Nat :
          /\ o = Cardinality(Braces(s, lits, n - 1, Opening))
          /\ c = Cardinality(Braces(s, lits, n - 1, Closing))
  BY <1>1, BracesCounted
<1>3. Cardinality(Braces(s, lits, n, Opening)) =
          IF n \in Bare(s, lits) /\ s[n] = Opening THEN o + 1 ELSE o
  <2>1. PICK b \in {Opening} : b = Opening
    OBVIOUS
  <2>2. Cardinality(Braces(s, lits, n, b)) =
            IF n \in Bare(s, lits) /\ s[n] = b
            THEN Cardinality(Braces(s, lits, n - 1, b)) + 1
            ELSE Cardinality(Braces(s, lits, n - 1, b))
    <3>1. IsFiniteSet(Braces(s, lits, n - 1, b))
      BY <1>1, BracesCounted
    <3>2. QED
      BY <3>1, BracesMore
  <2>3. QED
    BY <1>2, <2>1, <2>2, Zenon
<1>4. Cardinality(Braces(s, lits, n, Closing)) =
          IF n \in Bare(s, lits) /\ s[n] = Closing THEN c + 1 ELSE c
  <2>1. PICK b \in {Closing} : b = Closing
    OBVIOUS
  <2>2. Cardinality(Braces(s, lits, n, b)) =
            IF n \in Bare(s, lits) /\ s[n] = b
            THEN Cardinality(Braces(s, lits, n - 1, b)) + 1
            ELSE Cardinality(Braces(s, lits, n - 1, b))
    <3>1. IsFiniteSet(Braces(s, lits, n - 1, b))
      BY <1>1, BracesCounted
    <3>2. QED
      BY <3>1, BracesMore
  <2>3. QED
    BY <1>2, <2>1, <2>2, Zenon
<1>5. Surplus(s, lits, n - 1) = o - c
  BY <1>2, Zenon DEF Surplus
<1>6. Surplus(s, lits, n) = Cardinality(Braces(s, lits, n, Opening))
                            - Cardinality(Braces(s, lits, n, Closing))
  BY Zenon DEF Surplus
<1>7. CASE n \notin Bare(s, lits)
  BY <1>3, <1>4, <1>5, <1>6, <1>7
<1>8. CASE n \in Bare(s, lits) /\ s[n] = Opening
  BY <1>3, <1>4, <1>5, <1>6, <1>8, BytesDiffer
<1>9. CASE n \in Bare(s, lits) /\ s[n] # Opening
  BY <1>3, <1>4, <1>5, <1>6, <1>9
<1>10. QED
  BY <1>7, <1>8, <1>9

\* A byte outside the strings counts for the scanner as it counts here, a byte in one
\* does not.
LEMMA CountedAlike ==
    ASSUME NEW s \in Seq(Byte), NEW lits, NEW n \in 1..Len(s),
           DepthAt(s, n - 1) = Surplus(s, lits, n - 1),
           DepthAt(s, n - 1) > 0 \/ s[n] = Opening,
           n \in Bare(s, lits) => ~InString(s, n - 1),
           n \notin Bare(s, lits) => InString(s, n - 1) \/ s[n] = Quote
    PROVE  DepthAt(s, n) = Surplus(s, lits, n)
<1>1. PICK d \in Nat : d = DepthAt(s, n - 1) /\ d = Surplus(s, lits, n - 1)
  <2>1. n - 1 \in 0..Len(s)
    OBVIOUS
  <2>2. QED
    BY <2>1, ScanKeeps
<1>2. d > 0 \/ s[n] = Opening
  BY <1>1
<1>3. CASE n \in Bare(s, lits)
  <2>1. DepthAt(s, n) = Depth(d, s[n])
    BY <1>1, <1>3, StepOutOfString
  <2>2. Surplus(s, lits, n) = IF s[n] = Opening THEN d + 1
                              ELSE IF s[n] = Closing THEN d - 1 ELSE d
    BY <1>1, <1>3, SurplusMore, Zenon
  <2>3. QED
    BY <1>2, <2>1, <2>2 DEF Depth
<1>4. CASE n \notin Bare(s, lits)
  <2>1. DepthAt(s, n) = d
    <3>1. CASE InString(s, n - 1)
      BY <1>1, <3>1, StepInString
    <3>2. CASE ~InString(s, n - 1) /\ s[n] = Quote
      <4>1. DepthAt(s, n) = Depth(d, s[n])
        BY <1>1, <3>2, StepOutOfString
      <4>2. QED
        BY <3>2, <4>1, BytesDiffer DEF Depth
    <3>3. QED
      BY <1>4, <3>1, <3>2
  <2>2. QED
    BY <1>1, <1>4, <2>1, SurplusMore
<1>5. QED
  BY <1>3, <1>4
-----------------------------------------------------------------------------
\* What is whole to the scanner is an object.

\* The strings the scanner finds, with their quotes.
Strings(s) ==
    {l \in (1..Len(s)) \X (1..Len(s)) :
        /\ l[1] < l[2] /\ ~InString(s, l[1] - 1) /\ ~InString(s, l[2])
        /\ \A k \in l[1]..l[2] - 1 : InString(s, k)}

LEMMA StringIsLiteral ==
    ASSUME NEW s \in Seq(Byte), NEW l \in Strings(s)
    PROVE  l \in Literals(s)
<1>1. PICK n \in Nat : n = Len(s)
  OBVIOUS
<1>2. PICK i \in 1..n, j \in 1..n : l = <<i, j>>
  BY <1>1 DEF Strings
<1>3. i < j /\ ~InString(s, i - 1) /\ ~InString(s, j) /\ \A k \in i..j - 1 : InString(s, k)
  BY <1>2 DEF Strings
<1>4. s[i] = Quote
  <2>1. InString(s, i)
    BY <1>3
  <2>2. QED
    BY <1>1, <1>3, <2>1, StepOutOfString
<1>5. \A k \in i..j : Escaped(s, k) <=> Protected(s, i, k + 1)
  <2>1. i \in 1..Len(s) /\ j \in i..Len(s)
    BY <1>1, <1>3
  <2>2. QED
    BY <1>3, <1>4, <2>1, EscapedIs
<1>6. ASSUME NEW k \in i + 1..j
      PROVE  s[k] = Quote /\ ~Protected(s, i, k) <=> k = j
  <2>1. k - 1 \in i..j - 1 /\ k - 1 \in i..j /\ (k - 1) + 1 = k /\ k \in 1..Len(s)
    BY <1>1
  <2>2. InString(s, k) <=> s[k] # Quote \/ Escaped(s, k - 1)
    BY <1>3, <2>1, StepInString
  <2>3. Escaped(s, k - 1) <=> Protected(s, i, k)
    BY <1>5, <2>1
  <2>4. InString(s, k) <=> k # j
    BY <1>3
  <2>5. QED
    BY <2>2, <2>3, <2>4
<1>7. <<i, j>>[1] = i /\ <<i, j>>[2] = j /\ <<i, j>> \in (1..Len(s)) \X (1..Len(s))
  BY <1>1
<1>8. QED
  BY <1>2, <1>3, <1>4, <1>6, <1>7, Zenon DEF Literals

LEMMA StringsApart ==
    ASSUME NEW s \in Seq(Byte), NEW l \in Strings(s), NEW m \in Strings(s)
    PROVE  l = m \/ l[2] < m[1] \/ m[2] < l[1]
<1>1. PICK n \in Nat : n = Len(s)
  OBVIOUS
<1>2. PICK i \in 1..n, j \in 1..n : l = <<i, j>>
  BY <1>1 DEF Strings
<1>3. i < j /\ ~InString(s, i - 1) /\ ~InString(s, j) /\ \A k \in i..j - 1 : InString(s, k)
  BY <1>2 DEF Strings
<1>4. PICK g \in 1..n, h \in 1..n : m = <<g, h>>
  BY <1>1 DEF Strings
<1>5. g < h /\ ~InString(s, g - 1) /\ ~InString(s, h) /\ \A k \in g..h - 1 : InString(s, k)
  BY <1>4 DEF Strings
<1>6. CASE i < g
  <2>1. ~(g - 1 \in i..j - 1)
    BY <1>3, <1>5
  <2>2. j < g
    BY <1>6, <2>1
  <2>3. QED
    BY <1>2, <1>4, <2>2
<1>7. CASE g < i
  <2>1. ~(i - 1 \in g..h - 1)
    BY <1>3, <1>5
  <2>2. h < i
    BY <1>7, <2>1
  <2>3. QED
    BY <1>2, <1>4, <2>2
<1>8. CASE i = g
  <2>1. ~(j \in g..h - 1) /\ ~(h \in i..j - 1)
    BY <1>3, <1>5
  <2>2. j = h
    BY <1>3, <1>5, <1>8, <2>1
  <2>3. QED
    BY <1>2, <1>4, <1>8, <2>2
<1>9. QED
  BY <1>6, <1>7, <1>8

LEMMA StringsCover ==
    ASSUME NEW s \in Seq(Byte), ~InString(s, Len(s)), NEW x \in 1..Len(s), InString(s, x)
    PROVE  \E l \in Strings(s) : l[1] <= x /\ x < l[2]
<1>1. PICK n \in Nat : n = Len(s)
  OBVIOUS
<1>2. x \in 1..n - 1
  BY <1>1
<1>3. PICK i \in 1..x : /\ ~InString(s, i - 1)
                        /\ \A y \in 1..x : ~InString(s, y - 1) => y <= i
  <2> DEFINE T == {i \in 1..x : ~InString(s, i - 1)}
  <2>1. T \subseteq 0..n /\ 1 \in T
    <3>1. 1 \in 1..x /\ 1 - 1 = 0
      BY <1>2
    <3>2. ~InString(s, 1 - 1)
      BY <3>1, ScanBegins
    <3>3. QED
      BY <1>2, <3>1, <3>2
  <2>2. PICK i \in T : \A y \in T : y <= i
    <3> HIDE DEF T
    <3>1. QED
      BY <2>1, Greatest
  <2>3. QED
    BY <2>2
<1>4. PICK j \in x + 1..n : /\ ~InString(s, j)
                            /\ \A y \in x + 1..n : ~InString(s, y) => j <= y
  <2> DEFINE T == {j \in x + 1..n : ~InString(s, j)}
  <2>1. T \subseteq Nat /\ n \in T
    BY <1>1, <1>2
  <2>2. Min(T) \in T /\ \A y \in T : Min(T) <= y
    <3> HIDE DEF T
    <3>1. QED
      BY <2>1, Least
  <2>3. QED
    BY <2>2
<1>5. ASSUME NEW k \in i..j - 1
      PROVE  InString(s, k)
  <2>1. CASE k = x
    BY <2>1
  <2>2. CASE k < x
    <3>1. k + 1 \in 1..x /\ (k + 1) - 1 = k /\ ~(k + 1 <= i)
      BY <2>2
    <3>2. QED
      BY <1>3, <3>1
  <2>3. CASE k > x
    <3>1. k \in x + 1..n /\ ~(j <= k)
      BY <2>3
    <3>2. QED
      BY <1>4, <3>1
  <2>4. QED
    BY <1>2, <2>1, <2>2, <2>3
<1>6. <<i, j>> \in Strings(s)
  <2>1. <<i, j>> \in (1..Len(s)) \X (1..Len(s)) /\ i < j
    BY <1>1, <1>2
  <2>2. <<i, j>>[1] = i /\ <<i, j>>[2] = j
    OBVIOUS
  <2>3. QED
    BY <1>3, <1>4, <1>5, <2>1, <2>2, Zenon DEF Strings
<1>7. <<i, j>>[1] <= x /\ x < <<i, j>>[2]
  BY <1>2
<1>8. QED
  BY <1>6, <1>7

LEMMA BareIs ==
    ASSUME NEW s \in Seq(Byte), ~InString(s, Len(s)), NEW k \in 1..Len(s)
    PROVE  k \in Bare(s, Strings(s)) <=> ~InString(s, k - 1) /\ ~InString(s, k)
<1>1. PICK n \in Nat : n = Len(s)
  OBVIOUS
<1>2. k \in Bare(s, Strings(s)) <=> \A l \in Strings(s) : k < l[1] \/ l[2] < k
  BY DEF Bare
<1>3. ASSUME InString(s, k)
      PROVE  k \notin Bare(s, Strings(s))
  <2>1. PICK l \in Strings(s) : l[1] <= k /\ k < l[2]
    BY <1>3, StringsCover
  <2>2. l[1] \in Int /\ l[2] \in Int
    BY DEF Strings
  <2>3. QED
    BY <1>2, <2>1, <2>2
<1>4. ASSUME InString(s, k - 1)
      PROVE  k \notin Bare(s, Strings(s))
  <2>1. k - 1 # 0
    BY <1>4, ScanBegins
  <2>2. k - 1 \in 1..Len(s)
    BY <2>1
  <2>3. PICK l \in Strings(s) : l[1] <= k - 1 /\ k - 1 < l[2]
    BY <1>4, <2>2, StringsCover
  <2>4. l[1] \in Int /\ l[2] \in Int
    BY DEF Strings
  <2>5. ~(k < l[1]) /\ ~(l[2] < k)
    BY <2>3, <2>4
  <2>6. QED
    BY <1>2, <2>3, <2>5
<1>5. ASSUME NEW l \in Strings(s), ~(k < l[1]), ~(l[2] < k)
      PROVE  InString(s, k - 1) \/ InString(s, k)
  <2>1. /\ l[1] \in Int /\ l[2] \in Int /\ l[1] < l[2]
        /\ \A y \in l[1]..l[2] - 1 : InString(s, y)
    BY DEF Strings
  <2>2. k \in l[1]..l[2] - 1 \/ k - 1 \in l[1]..l[2] - 1
    BY <1>5, <2>1
  <2>3. QED
    BY <2>1, <2>2
<1>6. QED
  BY <1>2, <1>3, <1>4, <1>5

LEMMA WholeIsDeep ==
    ASSUME NEW s \in Seq(Byte), WholeObject(s)
    PROVE  /\ s # <<>> /\ Len(s) > 1
           /\ \A i \in 1..Len(s) - 1 : DepthAt(s, i) > 0
           /\ DepthAt(s, Len(s)) = 0
<1>1. PICK n \in Nat : n = Len(s)
  OBVIOUS
<1>2. n \in 1..n /\ DepthAt(s, n - 1) > 0 /\ DepthAt(s, n) = 0
  <2>1. n \in Ends(s)
    BY <1>1 DEF WholeObject
  <2>2. QED
    BY <1>1, <2>1, EndsAre DEF DepthAt
<1>3. n > 1
  <2>1. n - 1 # 0
    BY <1>2, ScanBegins
  <2>2. QED
    BY <1>2, <2>1
<1> DEFINE P == {i \in 0..n - 1 : i > 0 => DepthAt(s, i) > 0}
<1>4. 0 \in P
  BY <1>3
<1>5. ASSUME NEW i \in 1..n - 1, i - 1 \in P
      PROVE  i \in P
  <2>1. CASE i = 1
    <3>1. 1 \in 1..Len(s) /\ 1 - 1 = 0
      BY <1>1, <1>3
    <3>2. DepthAt(s, 1) = Depth(0, s[1])
      BY <3>1, ScanBegins, StepOutOfString
    <3>3. Depth(0, s[1]) = 1
      BY DEF WholeObject, Depth
    <3>4. QED
      BY <2>1, <3>2, <3>3
  <2>2. CASE i # 1
    <3>1. DepthAt(s, i - 1) > 0
      BY <1>5, <2>2
    <3>2. i \notin Ends(s) /\ i \in 1..Len(s)
      BY <1>1 DEF WholeObject
    <3>3. DepthAt(s, i) # 0
      BY <3>1, <3>2, EndsAre DEF DepthAt
    <3>4. DepthAt(s, i) \in Nat
      BY <1>1, ScanKeeps
    <3>5. QED
      BY <3>3, <3>4
  <2>3. QED
    BY <2>1, <2>2
<1> HIDE DEF P
<1>6. \A i \in 0..n - 1 : i \in P
  <2>1. n - 1 \in Nat
    BY <1>3
  <2>2. QED
    BY <1>4, <1>5, <2>1, Induct
<1>7. \A i \in 1..n - 1 : DepthAt(s, i) > 0
  BY <1>6 DEF P
<1>8. QED
  BY <1>1, <1>2, <1>3, <1>7

LEMMA WholeIsObject ==
    ASSUME NEW s \in Seq(Byte), WholeObject(s)
    PROVE  IsObject(s)
<1>1. PICK n \in Nat : n = Len(s)
  OBVIOUS
<1>2. n > 1 /\ DepthAt(s, n) = 0 /\ \A i \in 1..n - 1 : DepthAt(s, i) > 0
  BY <1>1, WholeIsDeep
<1>3. ~InString(s, Len(s))
  BY <1>1, <1>2, ScanKeeps
<1>4. \A k \in 1..n : k \in Bare(s, Strings(s)) <=> ~InString(s, k - 1) /\ ~InString(s, k)
  BY <1>1, <1>3, BareIs
<1>5. \A k \in 1..n : k # 1 => DepthAt(s, k - 1) > 0
  BY <1>2
<1>6. s[1] = Opening
  BY DEF WholeObject
<1>7. ASSUME NEW k \in Bare(s, Strings(s))
      PROVE  s[k] # Quote
  <2>1. k \in 1..n
    BY <1>1 DEF Bare
  <2>2. ~InString(s, k - 1) /\ ~InString(s, k)
    BY <1>4, <2>1
  <2>3. ~(s[k] = Quote /\ DepthAt(s, k - 1) > 0)
    BY <1>1, <2>1, <2>2, StepOutOfString
  <2>4. QED
    BY <1>5, <1>6, <2>1, <2>3, BytesDiffer
<1> DEFINE P == {i \in 0..n : DepthAt(s, i) = Surplus(s, Strings(s), i)}
<1>8. 0 \in P
  BY ScanBegins, SurplusNone
<1>9. ASSUME NEW i \in 1..n, i - 1 \in P
      PROVE  i \in P
  <2>1. DepthAt(s, i - 1) > 0 \/ s[i] = Opening
    BY <1>5, <1>6
  <2>2. i \in Bare(s, Strings(s)) => ~InString(s, i - 1)
    BY <1>4
  <2>3. i \notin Bare(s, Strings(s)) => InString(s, i - 1) \/ s[i] = Quote
    BY <1>1, <1>4, StepOutOfString
  <2>4. DepthAt(s, i) = Surplus(s, Strings(s), i)
    BY <1>1, <1>9, <2>1, <2>2, <2>3, CountedAlike
  <2>5. QED
    BY <2>4
<1> HIDE DEF P
<1>10. \A i \in 0..n : i \in P
  BY <1>8, <1>9, Induct
<1>11. \A i \in 0..n : Surplus(s, Strings(s), i) = DepthAt(s, i)
  BY <1>10 DEF P
<1>12. /\ \A i \in 1..Len(s) - 1 : Surplus(s, Strings(s), i) > 0
       /\ Surplus(s, Strings(s), Len(s)) = 0
  <2>1. n \in 0..n /\ \A i \in 1..n - 1 : i \in 0..n
    OBVIOUS
  <2>2. QED
    BY <1>1, <1>2, <1>11, <2>1
<1>13. Strings(s) \in SUBSET Literals(s)
  BY StringIsLiteral
<1>14. \A l, m \in Strings(s) : l = m \/ l[2] < m[1] \/ m[2] < l[1]
  BY StringsApart
<1>15. s # <<>>
  BY <1>1, <1>2
<1>16. QED
  BY <1>6, <1>7, <1>12, <1>13, <1>14, <1>15, Zenon DEF IsObject
-----------------------------------------------------------------------------
\* An object ends where the scanner says that one ends.

LEMMA LiteralIs ==
    ASSUME NEW s \in Seq(Byte), NEW l \in Literals(s)
    PROVE  /\ l[1] \in 1..Len(s) /\ l[2] \in 1..Len(s) /\ l[1] < l[2]
           /\ s[l[1]] = Quote
           /\ \A k \in l[1] + 1..l[2] : s[k] = Quote /\ ~Protected(s, l[1], k) <=> k = l[2]
<1>1. l \in (1..Len(s)) \X (1..Len(s))
  BY DEF Literals
<1>2. l[1] \in 1..Len(s) /\ l[2] \in 1..Len(s)
  BY <1>1
<1>3. QED
  BY <1>2, Zenon DEF Literals

\* Some literals of s that do not overlap and leave no quote over.
Splits(s, lits) ==
    /\ lits \in SUBSET Literals(s)
    /\ \A l, m \in lits : l = m \/ l[2] < m[1] \/ m[2] < l[1]
    /\ \A k \in Bare(s, lits) : s[k] # Quote

Within(l, n) == l[1] <= n /\ n < l[2]

\* After n bytes the scanner knows the string it is in, and counts as one would
\* who has set the literals aside.
Agrees(s, lits, n) ==
    /\ DepthAt(s, n) = Surplus(s, lits, n)
    /\ InString(s, n) <=> \E l \in lits : Within(l, n)
    /\ \A l \in lits : Within(l, n) => (Escaped(s, n) <=> Protected(s, l[1], n + 1))

LEMMA AgreesInside ==
    ASSUME NEW s \in Seq(Byte), NEW lits, Splits(s, lits), NEW n \in 1..Len(s),
           Agrees(s, lits, n - 1), DepthAt(s, n - 1) > 0 \/ s[n] = Opening,
           NEW l \in lits, Within(l, n - 1)
    PROVE  Agrees(s, lits, n)
<1>1. l \in Literals(s)
  BY DEF Splits
<1>2. PICK i \in 1..Len(s), j \in 1..Len(s) : i = l[1] /\ j = l[2]
  BY <1>1, LiteralIs
<1>3. i < n /\ n \in i + 1..j /\ n - 1 \in Nat /\ n \in Nat /\ i \in Nat /\ (n - 1) + 1 = n
  BY <1>2 DEF Within
<1>4. /\ s[i] = Quote
      /\ s[n] = Quote /\ ~Protected(s, i, n) <=> n = j
  BY <1>1, <1>2, <1>3, LiteralIs
<1>5. InString(s, n - 1)
  BY DEF Agrees
<1>6. Escaped(s, n - 1) <=> Protected(s, i, n)
  BY <1>2, <1>3, Zenon DEF Agrees
<1>7. InString(s, n) <=> n # j
  BY <1>4, <1>5, <1>6, StepInString
<1>8. ASSUME NEW m \in lits, Within(m, n)
      PROVE  m = l /\ n # j
  <2>1. m \in Literals(s)
    BY DEF Splits
  <2>2. PICK g \in 1..Len(s), h \in 1..Len(s) : g = m[1] /\ h = m[2]
    BY <2>1, LiteralIs
  <2>3. g <= n /\ n < h
    BY <1>8, <2>2 DEF Within
  <2>4. ~(j < g) /\ ~(h < i)
    BY <1>3, <2>3
  <2>5. m = l
    BY <1>2, <2>2, <2>4, Zenon DEF Splits
  <2>6. QED
    BY <1>2, <2>2, <2>3, <2>5
<1>9. n # j => Within(l, n)
  BY <1>2, <1>3 DEF Within
<1>10. Escaped(s, n) <=> Protected(s, i, n + 1)
  <2>1. Escaped(s, n) <=> s[n] = Backslash /\ ~Escaped(s, n - 1)
    BY <1>5, StepInString
  <2>2. Protected(s, i, n + 1) <=> s[n] = Backslash /\ ~Protected(s, i, n)
    BY <1>3, <1>4, ProtectedNext, BytesDiffer
  <2>3. QED
    BY <1>6, <2>1, <2>2
<1>11. DepthAt(s, n) = Surplus(s, lits, n)
  <2>1. n \notin Bare(s, lits)
    BY <1>2, <1>3 DEF Bare
  <2>2. QED
    BY <1>5, <2>1, CountedAlike DEF Agrees
<1>12. QED
  BY <1>2, <1>7, <1>8, <1>9, <1>10, <1>11, Zenon DEF Agrees

LEMMA AgreesOutside ==
    ASSUME NEW s \in Seq(Byte), NEW lits, Splits(s, lits), NEW n \in 1..Len(s),
           Agrees(s, lits, n - 1), DepthAt(s, n - 1) > 0 \/ s[n] = Opening,
           \A l \in lits : ~Within(l, n - 1)
    PROVE  Agrees(s, lits, n)
<1>1. ~InString(s, n - 1)
  BY DEF Agrees
<1>2. /\ DepthAt(s, n) = Depth(DepthAt(s, n - 1), s[n])
      /\ InString(s, n) <=> s[n] = Quote /\ DepthAt(s, n - 1) > 0
      /\ ~Escaped(s, n)
  BY <1>1, StepOutOfString
<1>3. ASSUME NEW l \in lits
      PROVE  /\ Within(l, n) <=> l[1] = n
             /\ l[1] = n => s[n] = Quote
             /\ n < l[1] \/ l[2] < n \/ l[1] = n
  <2>1. l \in Literals(s)
    BY DEF Splits
  <2>2. l[1] \in 1..Len(s) /\ l[2] \in 1..Len(s) /\ l[1] < l[2] /\ s[l[1]] = Quote
    BY <2>1, LiteralIs
  <2>3. ~(l[1] <= n - 1 /\ n - 1 < l[2])
    BY DEF Within
  <2>4. PICK i \in 1..Len(s), j \in 1..Len(s) : i = l[1] /\ j = l[2]
    BY <2>2
  <2>5. i < j /\ ~(i <= n - 1 /\ n - 1 < j)
    BY <2>2, <2>3, <2>4
  <2>6. (i <= n /\ n < j <=> i = n) /\ (n < i \/ j < n \/ i = n)
    BY <2>5
  <2>7. QED
    BY <2>2, <2>4, <2>6, Zenon DEF Within
<1>4. n \in Bare(s, lits) <=> \A l \in lits : l[1] # n
  <2>1. n \in Bare(s, lits) <=> \A l \in lits : n < l[1] \/ l[2] < n
    BY DEF Bare
  <2>2. ASSUME NEW l \in lits, l[1] = n
        PROVE  ~(n < l[1]) /\ ~(l[2] < n)
    <3>1. l \in Literals(s)
      BY DEF Splits
    <3>2. l[1] \in 1..Len(s) /\ l[2] \in 1..Len(s) /\ l[1] < l[2]
      BY <3>1, LiteralIs
    <3>3. QED
      BY <2>2, <3>2
  <2>3. QED
    BY <1>3, <2>1, <2>2, Zenon
<1>5. n \in Bare(s, lits) <=> s[n] # Quote
  BY <1>3, <1>4, Zenon DEF Splits
<1>6. InString(s, n) <=> \E l \in lits : Within(l, n)
  <2>1. s[n] = Quote => DepthAt(s, n - 1) > 0
    BY BytesDiffer
  <2>2. QED
    BY <1>2, <1>3, <1>4, <1>5, <2>1, Zenon
<1>7. ASSUME NEW l \in lits, Within(l, n)
      PROVE  ~Protected(s, l[1], n + 1)
  <2>1. l[1] = n /\ n \in Nat
    BY <1>3, <1>7
  <2>2. QED
    BY <2>1, ProtectedFirst
<1>8. DepthAt(s, n) = Surplus(s, lits, n)
  BY <1>1, <1>5, CountedAlike DEF Agrees
<1>9. QED
  BY <1>2, <1>6, <1>7, <1>8, Zenon DEF Agrees

LEMMA ObjectEnds ==
    ASSUME NEW s \in Seq(Byte), IsObject(s)
    PROVE  Len(s) \in Ends(s)
<1>1. PICK n \in Nat : n = Len(s)
  OBVIOUS
<1>2. n > 0 /\ s[1] = Opening
  BY <1>1 DEF IsObject
<1>3. PICK lits : /\ Splits(s, lits)
                  /\ \A i \in 1..n - 1 : Surplus(s, lits, i) > 0
                  /\ Surplus(s, lits, n) = 0
  BY <1>1, Zenon DEF IsObject, Splits
<1> DEFINE P == {i \in 0..n : Agrees(s, lits, i)}
<1>4. 0 \in P
  <2>1. DepthAt(s, 0) = 0 /\ ~InString(s, 0) /\ Surplus(s, lits, 0) = 0
    BY ScanBegins, SurplusNone
  <2>2. ASSUME NEW l \in lits
        PROVE  ~Within(l, 0)
    <3>1. l \in Literals(s)
      BY <1>3 DEF Splits
    <3>2. l[1] \in 1..Len(s)
      BY <3>1, LiteralIs
    <3>3. ~(l[1] <= 0)
      BY <1>1, <3>2
    <3>4. QED
      BY <3>3 DEF Within
  <2>3. Agrees(s, lits, 0)
    BY <2>1, <2>2, Zenon DEF Agrees
  <2>4. QED
    BY <2>3
<1>5. ASSUME NEW i \in 1..n, i - 1 \in P
      PROVE  i \in P
  <2>1. Agrees(s, lits, i - 1) /\ i \in 1..Len(s)
    BY <1>1, <1>5
  <2>2. DepthAt(s, i - 1) > 0 \/ s[i] = Opening
    <3>1. CASE i = 1
      BY <1>2, <3>1
    <3>2. CASE i # 1
      <4>1. i - 1 \in 1..n - 1
        BY <3>2
      <4>2. QED
        BY <1>3, <2>1, <4>1 DEF Agrees
    <3>3. QED
      BY <3>1, <3>2
  <2>3. Agrees(s, lits, i)
    <3>1. CASE \E l \in lits : Within(l, i - 1)
      BY <1>3, <2>1, <2>2, <3>1, AgreesInside
    <3>2. CASE \A l \in lits : ~Within(l, i - 1)
      BY <1>3, <2>1, <2>2, <3>2, AgreesOutside
    <3>3. QED
      BY <3>1, <3>2
  <2>4. QED
    BY <2>3
<1> HIDE DEF P
<1>6. \A i \in 0..n : i \in P
  BY <1>4, <1>5, Induct
<1>7. \A i \in 0..n : DepthAt(s, i) = Surplus(s, lits, i)
  BY <1>6, Zenon DEF P, Agrees
<1>8. DepthAt(s, n) = 0
  <2>1. n \in 0..n
    BY <1>1
  <2>2. QED
    BY <1>3, <1>7, <2>1
<1>9. n # 1
  <2>1. DepthAt(s, 1) = Depth(0, Opening)
    <3>1. 1 \in 1..Len(s) /\ 1 - 1 = 0
      BY <1>1, <1>2
    <3>2. QED
      BY <1>2, <3>1, ScanBegins, StepOutOfString
  <2>2. Depth(0, Opening) = 1
    BY DEF Depth
  <2>3. QED
    BY <1>8, <2>1, <2>2
<1>10. DepthAt(s, n - 1) > 0
  <2>1. n - 1 \in 1..n - 1 /\ n - 1 \in 0..n
    BY <1>2, <1>9
  <2>2. DepthAt(s, n - 1) = Surplus(s, lits, n - 1) /\ Surplus(s, lits, n - 1) > 0
    BY <1>3, <1>7, <2>1, Zenon
  <2>3. QED
    BY <2>2
<1>11. n \in 1..Len(s)
  BY <1>1, <1>2
<1>12. QED
  BY <1>1, <1>8, <1>10, <1>11, EndsAre DEF DepthAt
-----------------------------------------------------------------------------
\* What the handler is given, and what is kept from it.

LEMMA ObjectCompletes ==
    ASSUME NEW b \in Seq(Byte), NEW j \in 1..Len(b), Before(b, j - 1),
           NEW k \in j..Len(b), IsObject(SubSeq(b, j, k))
    PROVE  Complete(b)
<1>1. PICK o : o = SubSeq(b, j, k)
  OBVIOUS
<1>2. PartOf(o, b, j, k)
  <2>1. j - 1 \in 0..Len(b)
    OBVIOUS
  <2>2. ScanOf(b)[j - 1] = Outside
    BY <2>1, BeforeOpening
  <2>3. QED
    BY <1>1, <2>2, ScanOfPart
<1>3. o \in Seq(Byte) /\ IsObject(o)
  BY <1>1, <1>2 DEF PartOf
<1>4. PICK m \in Nat : m = Len(o) /\ m = k - j + 1
  BY <1>2 DEF PartOf
<1>5. m \in 1..m /\ ScanOf(o)[m - 1].depth > 0 /\ ScanOf(o)[m].depth = 0
  <2>1. m \in Ends(o)
    BY <1>3, <1>4, ObjectEnds
  <2>2. QED
    BY <1>4, <2>1, EndsAre
<1>6. m \in 0..Len(o) /\ m - 1 \in 0..Len(o) /\ j + m - 1 = k /\ j + (m - 1) - 1 = k - 1
  BY <1>4, <1>5
<1>7. ScanOf(o)[m] = ScanOf(b)[k] /\ ScanOf(o)[m - 1] = ScanOf(b)[k - 1]
  <2>1. \A i \in 0..Len(o) : ScanOf(o)[i] = ScanOf(b)[j + i - 1]
    BY <1>2 DEF PartOf
  <2>2. ScanOf(o)[m] = ScanOf(b)[j + m - 1] /\ ScanOf(o)[m - 1] = ScanOf(b)[j + (m - 1) - 1]
    BY <1>6, <2>1
  <2>3. QED
    BY <1>6, <2>2
<1>8. k \in Ends(b)
  <2>1. k \in 1..Len(b)
    OBVIOUS
  <2>2. QED
    BY <1>5, <1>7, <2>1, EndsAre
<1>9. QED
  BY <1>8 DEF Complete

HandledObjects == \A i \in 1..Len(handled) : IsObject(handled[i])

LEMMA ExtractsObject ==
    ASSUME FramingInv, HandledObjects, Extract, Complete(buf)
    PROVE  HandledObjects'
<1>1. handled' = Append(handled, ExtractJsonObject(buf).msg)
  BY Zenon DEF Extract
<1>2. handled \in Seq(Seq(Byte)) /\ ExtractJsonObject(buf).msg \in Seq(Byte)
  BY BufferHolds DEF FramingInv, TypeOK
<1>3. IsObject(ExtractJsonObject(buf).msg)
  <2>1. WholeObject(ExtractJsonObject(buf).msg)
    BY ExtractsWhole DEF FramingInv, TypeOK
  <2>2. QED
    BY <1>2, <2>1, WholeIsObject
<1>4. /\ Len(handled') = Len(handled) + 1
      /\ handled'[Len(handled) + 1] = ExtractJsonObject(buf).msg
      /\ \A i \in 1..Len(handled) : handled'[i] = handled[i]
  BY <1>1, <1>2, AppendProperties
<1>5. \A i \in 1..Len(handled') : i = Len(handled) + 1 \/ i \in 1..Len(handled)
  BY <1>2, <1>4
<1>6. \A i \in 1..Len(handled') : IsObject(handled'[i])
  BY <1>3, <1>4, <1>5, Zenon DEF HandledObjects
<1>7. QED
  BY <1>6 DEF HandledObjects

\* However the bytes are cut, every message the handler is given is an object, by a
\* definition that sets string literals aside and counts braces; and while the thread
\* waits for more input, no part of its buffer from the first brace on is one.
THEOREM CutsAreObjects == Spec => []CutsObjects
<1>1. Init => HandledObjects
  BY DEF Init, HandledObjects
<1>2. FramingInv /\ HandledObjects /\ [Next]_vars => HandledObjects'
  <2> SUFFICES ASSUME FramingInv, HandledObjects, [Next]_vars
               PROVE  HandledObjects'
    OBVIOUS
  <2>1. CASE Extract /\ Complete(buf)
    BY <2>1, ExtractsObject
  <2>2. CASE ~(Extract /\ Complete(buf))
    <3>1. handled' = handled
      BY <2>2 DEF Next, ServeConnection, Read, ReadEnds, Extract, WriteResponse, WriteNewline,
                  Write, WriteFails, Panic, Client, Send, Take, Leave, vars, server
    <3>2. QED
      BY <3>1 DEF HandledObjects
  <2>3. QED
    BY <2>1, <2>2
<1>3. FramingInv /\ HandledObjects => CutsObjects
  <2> SUFFICES ASSUME FramingInv, HandledObjects, pc = "read",
                      NEW j \in 1..Len(buf), \A i \in 1..j - 1 : buf[i] # Opening,
                      NEW k \in j..Len(buf)
               PROVE  ~IsObject(SubSeq(buf, j, k))
    BY DEF CutsObjects, HandledObjects
  <2>1. buf \in Seq(Byte) /\ ~Complete(buf) /\ Before(buf, j - 1)
    BY DEF FramingInv, TypeOK, Before
  <2>2. QED
    BY <2>1, ObjectCompletes
<1>4. QED
  BY <1>1, <1>2, <1>3, FramingHolds, PTL DEF Spec
-----------------------------------------------------------------------------
\* How much the server can do before it has to wait for more bytes.

\* What is left of an object's work at each step of it.
Stage(p) ==
    CASE p = "closed" -> 0 [] p = "read" -> 1 [] p = "extract" -> 2
      [] p = "newline" -> 3 [] p = "respond" -> 4

\* Bytes not yet read weigh more than those in the buffer, those more than none.
Work == 6 * (Len(stream) - received) + 4 * Len(buf) + Stage(pc)

\* The thread works its load off, and nothing puts it up again.
BoundedWork == [][/\ Work' \in 0..Work
                  /\ ServeConnection => Work' < Work]_vars

LEMMA StageIs ==
    /\ Stage("closed") = 0 /\ Stage("read") = 1 /\ Stage("extract") = 2
    /\ Stage("newline") = 3 /\ Stage("respond") = 4
<1>1. Stage("closed") = 0
  BY DEF Stage
<1>2. Stage("read") = 1
  BY DEF Stage
<1>3. Stage("extract") = 2
  BY DEF Stage
<1>4. Stage("newline") = 3
  BY DEF Stage
<1>5. Stage("respond") = 4
  BY DEF Stage
<1>6. QED
  BY <1>1, <1>2, <1>3, <1>4, <1>5

LEMMA WorkIs ==
    ASSUME TypeOK
    PROVE  \E l, b \in Nat : \E r \in 0..l, k \in 0..4 :
               /\ l = Len(stream) /\ b = Len(buf) /\ r = received /\ k = Stage(pc)
               /\ Work = 6 * (l - r) + 4 * b + k /\ Work \in Nat
<1>1. PICK l \in Nat, b \in Nat : l = Len(stream) /\ b = Len(buf)
  BY DEF TypeOK
<1>2. PICK r \in 0..l : r = received
  BY <1>1 DEF TypeOK
<1>3. PICK k \in 0..4 : k = Stage(pc)
  BY StageIs DEF TypeOK
<1>4. 6 * (l - r) + 4 * b + k \in Nat
  OBVIOUS
<1>5. Work = 6 * (l - r) + 4 * b + k
  BY <1>1, <1>2, <1>3, Zenon DEF Work
<1>6. QED
  BY <1>1, <1>2, <1>3, <1>4, <1>5

LEMMA ReadWeighs ==
    ASSUME NEW l \in Nat, NEW b \in Nat, NEW r \in 0..l, NEW n \in r + 1..l
    PROVE  /\ 6 * (l - n) + 4 * (b + (n - r)) + 2 \in Nat
           /\ 6 * (l - n) + 4 * (b + (n - r)) + 2 < 6 * (l - r) + 4 * b + 1
<1>1. n \in Nat /\ r \in Nat /\ r + 1 <= n /\ n <= l
  OBVIOUS
<1>2. QED
  BY <1>1

\* A read moves bytes into the buffer, an extraction takes some out of it.
LEMMA ReadWorks ==
    ASSUME FramingInv, Read
    PROVE  Work' \in Nat /\ Work' < Work
<1>1. FramingInv'
  BY ReadKeeps
<1>2. /\ stream' = stream /\ pc = "read" /\ pc' = "extract" /\ received < sent
      /\ received' = Min({sent, received + Chunk})
      /\ buf' = buf \o SubSeq(stream, received + 1, received')
  BY DEF Read, client
<1>3. TypeOK /\ TypeOK'
  BY <1>1 DEF FramingInv
<1>4. PICK l \in Nat, b \in Nat : \E r \in 0..l, k \in 0..4 :
          /\ l = Len(stream) /\ b = Len(buf) /\ r = received /\ k = Stage(pc)
          /\ Work = 6 * (l - r) + 4 * b + k /\ Work \in Nat
  BY <1>3, WorkIs
<1>5. PICK r \in 0..l : r = received /\ Work = 6 * (l - r) + 4 * b + 1
  BY <1>2, <1>4, StageIs
<1>6. PICK n \in r + 1..l : n = received'
  <2>1. sent \in 0..l /\ r < sent /\ Chunk \in Nat \ {0}
    BY <1>2, <1>3, <1>4, <1>5, FramingAssumption DEF TypeOK
  <2> DEFINE T == {sent, r + Chunk}
  <2>2. T \subseteq Nat /\ T # {} /\ \A x \in T : x = sent \/ x = r + Chunk
    BY <2>1
  <2>3. Min(T) \in T /\ \A y \in T : Min(T) <= y
    <3> HIDE DEF T
    <3>1. QED
      BY <2>2, Least
  <2>4. Min(T) \in r + 1..l
    BY <2>1, <2>2, <2>3
  <2>5. QED
    BY <1>2, <1>5, <2>4
<1>7. Len(buf') = b + (n - r)
  <2>1. stream \in Seq(Byte) /\ buf \in Seq(Byte) /\ r + 1 \in 1..l /\ n \in 1..l
    BY <1>3, <1>6 DEF TypeOK
  <2>2. /\ SubSeq(stream, r + 1, n) \in Seq(Byte)
        /\ Len(SubSeq(stream, r + 1, n)) = n - (r + 1) + 1
    <3>1. \A i \in r + 1..n : stream[i] \in Byte
      BY <1>4, <1>6, <2>1
    <3>2. /\ SubSeq(stream, r + 1, n) \in Seq(Byte)
          /\ Len(SubSeq(stream, r + 1, n)) = IF r + 1 <= n THEN n - (r + 1) + 1 ELSE 0
      BY <1>6, <3>1, SubSeqProperties
    <3>3. r + 1 <= n
      BY <1>6
    <3>4. QED
      BY <3>2, <3>3
  <2>3. PICK c \in Seq(Byte) : c = SubSeq(stream, r + 1, n)
    BY <2>2
  <2>4. Len(buf \o c) = Len(buf) + Len(c)
    BY <2>1, ConcatProperties
  <2>5. Len(c) = n - r
    BY <1>6, <2>2, <2>3
  <2>6. QED
    BY <1>2, <1>4, <1>5, <1>6, <2>3, <2>4, <2>5
<1>8. Work' = 6 * (l - n) + 4 * (b + (n - r)) + 2
  BY <1>2, <1>4, <1>6, <1>7, StageIs, Zenon DEF Work
<1>9. /\ 6 * (l - n) + 4 * (b + (n - r)) + 2 \in Nat
      /\ 6 * (l - n) + 4 * (b + (n - r)) + 2 < 6 * (l - r) + 4 * b + 1
  BY ReadWeighs
<1>10. QED
  BY <1>5, <1>8, <1>9

LEMMA ExtractWorks ==
    ASSUME FramingInv, Extract
    PROVE  Work' \in Nat /\ Work' < Work
<1>1. TypeOK /\ BufferKept
  BY DEF FramingInv
<1>2. PICK l \in Nat, b \in Nat : \E r \in 0..l, k \in 0..4 :
          /\ l = Len(stream) /\ b = Len(buf) /\ r = received /\ k = Stage(pc)
          /\ Work = 6 * (l - r) + 4 * b + k /\ Work \in Nat
  BY <1>1, WorkIs
<1>3. PICK r \in 0..l : r = received /\ Work = 6 * (l - r) + 4 * b + 2
  BY <1>2, StageIs DEF Extract
<1>4. stream' = stream /\ received' = received
  BY DEF Extract, client
<1>5. CASE Complete(buf)
  <2>1. pc' = "respond" /\ buf' = ExtractJsonObject(buf).rest
    BY <1>5, Zenon DEF Extract
  <2>2. PICK end \in 1..b : ExtractJsonObject(buf).rest = SubSeq(buf, end + 1, b)
    BY <1>1, <1>2, <1>5, BufferHolds
  <2>3. PICK c \in 0..b - 1 : c = Len(buf')
    <3>1. \A i \in end + 1..b : buf[i] \in Byte
      BY <1>1, <1>2 DEF TypeOK
    <3>2. Len(SubSeq(buf, end + 1, b)) = IF end + 1 <= b THEN b - (end + 1) + 1 ELSE 0
      BY <3>1, SubSeqProperties
    <3>3. CASE end + 1 <= b
      BY <2>1, <2>2, <3>2, <3>3
    <3>4. CASE ~(end + 1 <= b)
      BY <2>1, <2>2, <3>2, <3>4
    <3>5. QED
      BY <3>3, <3>4
  <2>4. Work' = 6 * (l - r) + 4 * c + 4
    BY <1>2, <1>3, <1>4, <2>1, <2>3, StageIs, Zenon DEF Work
  <2>5. /\ 6 * (l - r) + 4 * c + 4 \in Nat
        /\ 6 * (l - r) + 4 * c + 4 < 6 * (l - r) + 4 * b + 2
    OBVIOUS
  <2>6. QED
    BY <1>3, <2>4, <2>5
<1>6. CASE ~Complete(buf)
  <2>1. pc' = "read" /\ buf' = buf
    BY <1>6 DEF Extract
  <2>2. Work' = 6 * (l - r) + 4 * b + 1
    BY <1>2, <1>3, <1>4, <2>1, StageIs, Zenon DEF Work
  <2>3. QED
    BY <1>3, <2>2
<1>7. QED
  BY <1>5, <1>6

\* The other steps leave the bytes where they are.
LEMMA StageWorks ==
    ASSUME TypeOK, NEW p \in Nat, Stage(pc)' = p, p <= Stage(pc),
           UNCHANGED <<stream, received, buf>>
    PROVE  Work' \in 0..Work /\ (p < Stage(pc) => Work' < Work)
<1>1. PICK l \in Nat, b \in Nat : \E r \in 0..l, k \in 0..4 :
          /\ l = Len(stream) /\ b = Len(buf) /\ r = received /\ k = Stage(pc)
          /\ Work = 6 * (l - r) + 4 * b + k /\ Work \in Nat
  BY WorkIs
<1>2. PICK r \in 0..l, k \in 0..4 :
          r = received /\ k = Stage(pc) /\ Work = 6 * (l - r) + 4 * b + k
  BY <1>1
<1>3. Work' = 6 * (l - r) + 4 * b + p
  BY <1>1, <1>2, Zenon DEF Work
<1>4. /\ 6 * (l - r) + 4 * b + p \in 0..6 * (l - r) + 4 * b + k
      /\ p < k => 6 * (l - r) + 4 * b + p < 6 * (l - r) + 4 * b + k
  BY <1>2
<1>5. QED
  BY <1>2, <1>3, <1>4

LEMMA ServingWorks ==
    ASSUME FramingInv, ServeConnection
    PROVE  Work' \in Nat /\ Work' < Work
<1>1. TypeOK
  BY DEF FramingInv
<1>2. CASE Read
  BY <1>2, ReadWorks
<1>3. CASE Extract
  BY <1>3, ExtractWorks
<1>4. CASE ReadEnds \/ WriteResponse \/ WriteNewline \/ WriteFails
  <2>1. UNCHANGED <<stream, received, buf>>
    BY <1>4 DEF ReadEnds, WriteResponse, WriteNewline, WriteFails, Write, client
  <2>2. /\ Stage(pc') \in Nat /\ Stage(pc') < Stage(pc) /\ Stage(pc) \in Nat
    <3>1. CASE ReadEnds
      BY <3>1, StageIs DEF ReadEnds
    <3>2. CASE WriteResponse
      BY <3>2, StageIs DEF WriteResponse, Write
    <3>3. CASE WriteNewline
      BY <3>3, StageIs DEF WriteNewline, Write
    <3>4. CASE WriteFails
      BY <3>4, StageIs DEF WriteFails
    <3>5. QED
      BY <1>4, <3>1, <3>2, <3>3, <3>4
  <2>3. PICK p \in Nat : p = Stage(pc') /\ p <= Stage(pc) /\ p < Stage(pc)
    BY <2>2
  <2>4. Work' \in 0..Work /\ Work' < Work
    BY <1>1, <2>1, <2>3, StageWorks
  <2>5. PICK l \in Nat : l = Work
    BY <1>1, WorkIs
  <2>6. QED
    BY <2>4, <2>5
<1>5. QED
  BY <1>2, <1>3, <1>4 DEF ServeConnection

\* Whatever the client does and however it is scheduled, each step of the connection's
\* thread leaves less work and no step of the client or end of the handler leaves more:
\* for a stream of n bytes the thread takes at most 6 n + 1 steps, so that it never
\* goes round without reading or answering.
THEOREM WorkEnds == Spec => BoundedWork
<1>1. FramingInv /\ [Next]_vars => [/\ Work' \in 0..Work
                                    /\ ServeConnection => Work' < Work]_vars
  <2> SUFFICES ASSUME FramingInv, Next
               PROVE  Work' \in 0..Work /\ (ServeConnection => Work' < Work)
    OBVIOUS
  <2>1. TypeOK
    BY DEF FramingInv
  <2>2. PICK w \in Nat : w = Work
    BY <2>1, WorkIs
  <2>3. CASE ServeConnection
    <3>1. Work' \in Nat /\ Work' < Work
      BY <2>3, ServingWorks
    <3>2. QED
      BY <2>2, <3>1
  <2>4. CASE ~ServeConnection
    <3>1. UNCHANGED <<stream, received, buf>>
      BY <2>4 DEF Next, Panic, Client, Send, Take, Leave, client, server
    <3>2. Stage(pc') \in Nat /\ Stage(pc') <= Stage(pc)
      <4>1. CASE Panic
        BY <4>1, StageIs DEF Panic
      <4>2. CASE pc' = pc
        BY <2>1, <4>2, StageIs DEF TypeOK
      <4>3. QED
        BY <2>4, <4>1, <4>2 DEF Next, Client, Send, Take, Leave, server
    <3>3. PICK p \in Nat : p = Stage(pc') /\ p <= Stage(pc)
      BY <3>2
    <3>4. QED
      BY <2>1, <2>4, <3>1, <3>3, StageWorks
  <2>5. QED
    BY <2>3, <2>4
<1>2. QED
  BY <1>1, FramingHolds, PTL DEF Spec, BoundedWork

\* The guards of the thread's steps, and of the client's read.
CanServe ==
    \/ pc = "read" /\ (received < sent \/ peer # "open")
    \/ pc = "extract"
    \/ pc \in {"respond", "newline"} /\ (peer = "gone" \/ Len(written) - taken < Outbound)
CanTake == peer # "gone" /\ taken < Len(written)

\* No request that has arrived is left with both sides waiting.
NeverStuck == pc = "closed" \/ Answered = Received \/ CanServe \/ CanTake

\* While a request that has arrived is not answered, the thread has a step to take or
\* the client an answer to read: the two never wait for each other unless the client
\* will not read.
THEOREM NobodyWaits == Spec => []NeverStuck
<1>1. FramingInv /\ AnsweredBeforeWaiting => NeverStuck
  <2> SUFFICES ASSUME FramingInv, AnsweredBeforeWaiting, pc \in {"respond", "newline"},
                      ~(Len(written) - taken < Outbound)
               PROVE  taken < Len(written)
    BY DEF NeverStuck, CanServe, CanTake, AnsweredBeforeWaiting, FramingInv, TypeOK
  <2>1. PICK l \in Nat : l = Len(written)
    BY DEF FramingInv, TypeOK
  <2>2. taken \in 0..l /\ Outbound \in Nat \ {0} /\ ~(l - taken < Outbound)
    BY <2>1, FramingAssumption DEF FramingInv, TypeOK
  <2>3. QED
    BY <2>1, <2>2
<1>2. QED
  BY <1>1, FramingHolds, AnsweredFirst, PTL
=============================================================================
