----------------------------- MODULE Geo_proofs ------------------------------
(***************************************************************************)
(* Theorems about Geo: whatever the connections ask for at once and        *)
(* however often the clock is set back, answers rest on current fixes,     *)
(* dwell times are explained by the order of the answers, and a request    *)
(* gets nearer to its answer with each of its steps.                       *)
(***************************************************************************)
EXTENDS Geo, FiniteSetTheorems, WellFoundedInduction, TLAPS

Stages == {"idle", "fix", "clock", "decide", "connect", "poll", "sleep", "stamp", "store",
           "hung"}

\* What the argument needs to know of the types: unlike TypeOK, without bounds.
AnyThread == [at : Stages, cmd : {"none", "zone", "proximity", "get", "refresh"},
              fix : AnyFix \cup {None}, bd : Int, epoch : Int, polls : Int,
              since : Nat, began : Nat]

Typed ==
    /\ now \in Nat /\ set_backs \in Nat
    /\ stored \in Seq(AnyFix)
    /\ thread \in [Thread -> AnyThread]
    /\ last_fix \in AnyFix \cup {None}
    /\ \E S : answers \in Seq(S)

LEMMA FixType ==
    ASSUME NEW p \in Place, NEW bd \in Int, NEW sb \in Int, NEW since \in Nat
    PROVE  /\ Fix(p, bd, sb, since) \in AnyFix
           /\ Fix(p, bd, sb, since).brightdate = bd
           /\ Fix(p, bd, sb, since).set_backs = sb
           /\ Fix(p, bd, sb, since).since = since
BY DEF Fix, AnyFix

\* A thread takes a step of its own.
LEMMA ThreadType ==
    ASSUME Typed, NEW t \in Thread, NEW r \in AnyThread, thread' = [thread EXCEPT ![t] = r]
    PROVE  /\ thread' \in [Thread -> AnyThread]
           /\ thread'[t] = r
           /\ \A u \in Thread \ {t} : thread'[u] = thread[u]
BY DEF Typed

LEMMA IdleType == Idle \in AnyThread
BY DEF Idle, AnyThread, Stages

-----------------------------------------------------------------------------
\* A thread moves on and nothing is stored or answered.
LEMMA OrderedMove ==
    ASSUME Typed, FixesOrdered, NEW t \in Thread, NEW r \in AnyThread,
           thread' = [thread EXCEPT ![t] = r],
           UNCHANGED <<clock, last_fix, history>>,
           r.at \in {"poll", "sleep", "stamp"} => r.since <= Len(stored),
           r.at \in {"clock", "decide"} => InOrder(r.fix),
           r.at = "store" => InOrder(r.fix) /\ StampedBefore(r.fix)
    PROVE  Typed' /\ FixesOrdered'
<1>1. Typed'
  BY ThreadType DEF Typed, clock, history
<1>2. /\ thread'[t] = r
      /\ \A u \in Thread \ {t} : thread'[u] = thread[u]
  BY ThreadType
<1>3. UNCHANGED <<now, set_backs, stored, answers>>
  BY DEF clock, history
<1>4. \A f : (InOrder(f) => InOrder(f)') /\ (StampedBefore(f) => StampedBefore(f)')
  BY <1>3 DEF InOrder, StampedBefore
<1>5. ASSUME NEW u \in Thread
      PROVE  ThreadOrdered(u)'
  <2>1. CASE u = t
    BY <1>2, <1>3, <2>1 DEF ThreadOrdered, InOrder, StampedBefore
  <2>2. CASE u # t
    BY <1>2, <1>3, <2>2 DEF ThreadOrdered, FixesOrdered, InOrder, StampedBefore
  <2>3. QED
    BY <2>1, <2>2
<1>6. QED
  BY <1>1, <1>3, <1>5 DEF FixesOrdered, InOrder, StampedBefore

LEMMA OrderedServe ==
    ASSUME Typed, FixesOrdered, NEW t \in Thread,
           \/ \E cmd \in {"zone", "proximity", "get", "refresh"} : Ask(t, cmd)
           \/ CurrentFix(t) \/ ReadClock(t) \/ DecideProximity(t)
           \/ RefreshAtOnce(t) \/ Connect(t) \/ RefreshFails(t)
           \/ Poll(t) \/ Sleep(t) \/ Stamp(t) \/ Hang(t)
    PROVE  Typed' /\ FixesOrdered'
<1>1. /\ thread[t] \in AnyThread /\ now \in Nat /\ set_backs \in Nat
      /\ Len(stored) \in Nat /\ stored \in Seq(AnyFix)
  BY DEF Typed
<1>2. CASE Done(t) /\ UNCHANGED <<clock, last_fix, history>>
  BY <1>2, IdleType, OrderedMove DEF Done, Idle
<1>3. CASE \E cmd \in {"zone", "proximity", "get", "refresh"} : Ask(t, cmd)
  <2>1. PICK cmd \in {"zone", "proximity", "get", "refresh"} : Ask(t, cmd)
    BY <1>3
  <2> DEFINE r == [thread[t] EXCEPT !.at = IF cmd = "refresh" THEN "connect" ELSE "fix",
                                    !.cmd = cmd, !.since = Len(stored),
                                    !.began = Len(answers)]
  <2>2. Len(answers) \in Nat
    BY DEF Typed
  <2>3. r \in AnyThread /\ r.at \in {"connect", "fix"}
    BY <1>1, <2>2 DEF AnyThread, Stages
  <2>4. thread' = [thread EXCEPT ![t] = r] /\ UNCHANGED <<clock, last_fix, history>>
    BY <2>1 DEF Ask, engine, Typed
  <2> HIDE DEF r
  <2>5. QED
    BY <2>3, <2>4, OrderedMove
<1>4. CASE CurrentFix(t)
  <2>1. CASE thread' = [thread EXCEPT ![t].at = "connect"]
    <3> DEFINE r == [thread[t] EXCEPT !.at = "connect"]
    <3>1. r \in AnyThread /\ r.at = "connect" /\ thread' = [thread EXCEPT ![t] = r]
      BY <1>1, <2>1 DEF AnyThread, Stages
    <3> HIDE DEF r
    <3>2. QED
      BY <1>4, <3>1, OrderedMove DEF CurrentFix, engine
  <2>2. CASE /\ last_fix # None
             /\ thread' = [thread EXCEPT ![t].fix = last_fix,
                    ![t].at = IF thread[t].cmd = "zone" THEN "clock" ELSE "decide"]
    <3> DEFINE r == [thread[t] EXCEPT !.fix = last_fix,
                        !.at = IF thread[t].cmd = "zone" THEN "clock" ELSE "decide"]
    <3>1. /\ r \in AnyThread /\ r.fix = last_fix /\ r.at \in {"clock", "decide"}
          /\ thread' = [thread EXCEPT ![t] = r]
      BY <1>1, <2>2 DEF AnyThread, Stages, Typed
    <3>2. InOrder(last_fix)
      BY <2>2 DEF FixesOrdered
    <3> HIDE DEF r
    <3>3. QED
      BY <1>4, <3>1, <3>2, OrderedMove DEF CurrentFix, engine
  <2>3. UNCHANGED <<clock, last_fix, history>>
    BY <1>4 DEF CurrentFix, engine
  <2>4. \/ Done(t)
        \/ thread' = [thread EXCEPT ![t].at = "connect"]
        \/ /\ last_fix # None
           /\ thread' = [thread EXCEPT ![t].fix = last_fix,
                  ![t].at = IF thread[t].cmd = "zone" THEN "clock" ELSE "decide"]
    BY <1>4 DEF CurrentFix
  <2>5. QED
    BY <1>2, <2>1, <2>2, <2>3, <2>4
<1>5. CASE ReadClock(t)
  <2> DEFINE r == [thread[t] EXCEPT !.at = "decide", !.bd = now, !.epoch = set_backs]
  <2>1. now \in Int /\ set_backs \in Int
    BY <1>1
  <2>2. r \in AnyThread /\ r.fix = thread[t].fix /\ r.at = "decide"
    BY <1>1, <2>1 DEF AnyThread, Stages
  <2>3. thread' = [thread EXCEPT ![t] = r]
    BY <1>5 DEF ReadClock, Typed
  <2>4. InOrder(thread[t].fix)
    BY <1>5 DEF ReadClock, FixesOrdered, ThreadOrdered
  <2> HIDE DEF r
  <2>5. QED
    BY <1>5, <2>2, <2>3, <2>4, OrderedMove DEF ReadClock, engine
<1>6. CASE DecideProximity(t) \/ RefreshAtOnce(t) \/ RefreshFails(t)
  BY <1>2, <1>6 DEF DecideProximity, RefreshAtOnce, RefreshFails, engine
<1>7. CASE Connect(t)
  <2> DEFINE r == [thread[t] EXCEPT !.at = "poll", !.since = Len(stored)]
  <2>1. /\ r \in AnyThread /\ r.since = Len(stored) /\ r.at = "poll"
        /\ thread' = [thread EXCEPT ![t] = r]
    BY <1>1, <1>7 DEF Connect, AnyThread, Stages
  <2>2. r.since <= Len(stored)
    BY <1>1, <2>1
  <2>3. UNCHANGED <<clock, last_fix, history>>
    BY <1>7 DEF Connect, engine
  <2> HIDE DEF r
  <2>4. QED
    BY <2>1, <2>2, <2>3, OrderedMove
<1>8. CASE Poll(t) \/ Sleep(t)
  <2>1. thread[t].since <= Len(stored)
    BY <1>8 DEF Poll, Sleep, FixesOrdered, ThreadOrdered
  <2>2. ASSUME NEW at \in {"stamp", "sleep", "poll"}, NEW n \in Int,
               \/ thread' = [thread EXCEPT ![t].at = at]
               \/ thread' = [thread EXCEPT ![t].at = at, ![t].polls = n],
               UNCHANGED <<clock, last_fix, history>>
        PROVE  Typed' /\ FixesOrdered'
    <3>1. PICK r \in {[thread[t] EXCEPT !.at = at],
                      [thread[t] EXCEPT !.at = at, !.polls = n]} :
              thread' = [thread EXCEPT ![t] = r]
      BY <2>2
    <3>2. r \in AnyThread /\ r.at = at /\ r.since = thread[t].since
      BY <1>1, <3>1 DEF AnyThread, Stages
    <3>3. QED
      BY <2>1, <2>2, <3>1, <3>2, OrderedMove
  <2>3. thread[t].polls + 1 \in Int
    BY <1>1 DEF AnyThread
  <2>4. CASE Poll(t)
    BY <1>2, <2>2, <2>3, <2>4 DEF Poll, engine
  <2>5. CASE Sleep(t)
    BY <2>2, <2>3, <2>5 DEF Sleep, engine
  <2>6. QED
    BY <1>8, <2>4, <2>5
<1>9. CASE Stamp(t)
  <2>1. PICK p \in Place : thread' = [thread EXCEPT ![t].at = "store",
                                  ![t].fix = Fix(p, now, set_backs, thread[t].since)]
    BY <1>9 DEF Stamp
  <2> DEFINE f == Fix(p, now, set_backs, thread[t].since)
             r == [thread[t] EXCEPT !.at = "store", !.fix = f]
  <2>2. thread[t].since \in Nat /\ now \in Int /\ set_backs \in Int
    BY <1>1 DEF AnyThread
  <2>3. /\ f \in AnyFix /\ f.brightdate = now /\ f.set_backs = set_backs
        /\ f.since = thread[t].since
    BY <2>2, FixType
  <2> HIDE DEF f
  <2>4. /\ r \in AnyThread /\ r.fix = f /\ r.at = "store"
        /\ thread' = [thread EXCEPT ![t] = r]
    BY <1>1, <2>1, <2>3 DEF AnyThread, Stages, f
  <2>5. thread[t].since <= Len(stored)
    BY <1>9 DEF Stamp, FixesOrdered, ThreadOrdered
  <2>6. ASSUME NEW i \in 1..f.since
        PROVE  f.brightdate >= stored[i].brightdate \/ f.set_backs # stored[i].set_backs
    <3>1. i \in 1..Len(stored)
      BY <1>1, <2>2, <2>3, <2>5
    <3>2. StampedBefore(stored[i]) /\ stored[i] \in AnyFix
      BY <1>1, <3>1 DEF FixesOrdered
    <3>3. stored[i].brightdate \in Int
      BY <3>2 DEF AnyFix
    <3>4. QED
      BY <1>1, <2>3, <3>2, <3>3 DEF StampedBefore
  <2>7. InOrder(f)
    BY <2>3, <2>5, <2>6 DEF InOrder
  <2>8. StampedBefore(f)
    BY <1>1, <2>3 DEF StampedBefore
  <2> HIDE DEF r
  <2>9. QED
    BY <1>9, <2>4, <2>7, <2>8, OrderedMove DEF Stamp, engine
<1>10. CASE Hang(t)
  <2> DEFINE r == [thread[t] EXCEPT !.at = "hung"]
  <2>1. r \in AnyThread /\ r.at = "hung" /\ thread' = [thread EXCEPT ![t] = r]
    BY <1>1, <1>10 DEF Hang, AnyThread, Stages
  <2> HIDE DEF r
  <2>2. QED
    BY <1>10, <2>1, OrderedMove DEF Hang, engine
<1>11. QED
  BY <1>3, <1>4, <1>5, <1>6, <1>7, <1>8, <1>9, <1>10
-----------------------------------------------------------------------------
\* A fix is stored: what was in order with the fixes stored before still is.
LEMMA OrderedStore ==
    ASSUME Typed, FixesOrdered, NEW t \in Thread, Store(t)
    PROVE  Typed' /\ FixesOrdered'
<1> DEFINE f == thread[t].fix
<1>1. InOrder(f) /\ StampedBefore(f)
  BY DEF Store, FixesOrdered, ThreadOrdered
<1>2. /\ stored' = Append(stored, f) /\ last_fix' = f
      /\ thread' = [thread EXCEPT ![t] = Idle]
      /\ UNCHANGED <<now, set_backs, answers>>
  BY DEF Store, Done, clock
<1>3. f \in AnyFix
  BY <1>1 DEF InOrder
<1> HIDE DEF f
<1>4. /\ stored \in Seq(AnyFix) /\ stored' \in Seq(AnyFix) /\ Len(stored) \in Nat
      /\ Len(stored') = Len(stored) + 1
      /\ \A i \in 1..Len(stored) : stored'[i] = stored[i]
      /\ stored'[Len(stored) + 1] = f
  BY <1>2, <1>3 DEF Typed
<1>5. /\ thread' \in [Thread -> AnyThread] /\ thread'[t] = Idle
      /\ \A u \in Thread \ {t} : thread'[u] = thread[u]
  BY <1>2, IdleType, ThreadType
<1>6. Typed'
  BY <1>2, <1>3, <1>4, <1>5 DEF Typed
<1>7. ASSUME NEW g, InOrder(g)
      PROVE  InOrder(g)'
  <2>1. g.since \in Nat /\ g.since <= Len(stored)
    BY <1>7 DEF InOrder, AnyFix
  <2>2. \A i \in 1..g.since : stored'[i] = stored[i]
    BY <1>4, <2>1
  <2>3. g.since <= Len(stored')
    BY <1>4, <2>1
  <2>4. QED
    BY <1>7, <2>2, <2>3 DEF InOrder
<1>8. \A i \in 1..Len(stored') : StampedBefore(stored'[i])
  <2> SUFFICES ASSUME NEW i \in 1..Len(stored')
               PROVE  StampedBefore(stored'[i])
    OBVIOUS
  <2>1. i \in 1..Len(stored) \/ i = Len(stored) + 1
    BY <1>4
  <2>2. QED
    BY <1>1, <1>4, <2>1 DEF FixesOrdered
<1>9. \A i \in 1..Len(stored') : StampedBefore(stored[i])'
  BY <1>2, <1>8 DEF StampedBefore
<1>10. ASSUME NEW u \in Thread
       PROVE  ThreadOrdered(u)'
  <2>1. CASE u = t
    BY <1>5, <2>1 DEF ThreadOrdered, Idle
  <2>2. CASE u # t
    <3>1. ThreadOrdered(u) /\ thread'[u] = thread[u] /\ thread[u].since \in Nat
      BY <1>5, <2>2 DEF FixesOrdered, Typed, AnyThread
    <3>2. thread[u].since <= Len(stored) => thread[u].since <= Len(stored')
      BY <1>4, <3>1
    <3>3. QED
      BY <1>2, <1>7, <3>1, <3>2 DEF ThreadOrdered, StampedBefore
  <2>3. QED
    BY <2>1, <2>2
<1>11. InOrder(last_fix)' /\ \A j \in 1..Len(answers') : InOrder(answers[j].fix)'
  BY <1>1, <1>2, <1>7 DEF FixesOrdered
<1>12. QED
  BY <1>6, <1>9, <1>10, <1>11 DEF FixesOrdered

\* A zone is answered: with a fix in order.
LEMMA OrderedDecide ==
    ASSUME Typed, FixesOrdered, NEW t \in Thread, DecideZone(t)
    PROVE  Typed' /\ FixesOrdered'
<1>1. InOrder(thread[t].fix)
  BY DEF DecideZone, FixesOrdered, ThreadOrdered
<1>2. PICK a : answers' = Append(answers, a) /\ a.fix = thread[t].fix
  BY DEF DecideZone, Answer
<1>3. PICK S : answers \in Seq(S)
  BY DEF Typed
<1>4. /\ answers' \in Seq(S \cup {a}) /\ Len(answers') = Len(answers) + 1
      /\ Len(answers) \in Nat
      /\ \A j \in 1..Len(answers) : answers'[j] = answers[j]
      /\ answers'[Len(answers) + 1] = a
  <2>1. answers \in Seq(S \cup {a}) /\ a \in S \cup {a}
    BY <1>3
  <2>2. QED
    BY <1>2, <2>1
<1>5. /\ thread' = [thread EXCEPT ![t] = Idle]
      /\ UNCHANGED <<now, set_backs, last_fix, stored>>
  BY DEF DecideZone, Done, clock
<1>6. /\ thread' \in [Thread -> AnyThread] /\ thread'[t] = Idle
      /\ \A u \in Thread \ {t} : thread'[u] = thread[u]
  BY <1>5, IdleType, ThreadType
<1>7. Typed'
  BY <1>4, <1>5, <1>6 DEF Typed
<1>8. ASSUME NEW j \in 1..Len(answers')
      PROVE  InOrder(answers'[j].fix)
  <2>1. j \in 1..Len(answers) \/ j = Len(answers) + 1
    BY <1>4
  <2>2. QED
    BY <1>1, <1>2, <1>4, <2>1 DEF FixesOrdered
<1>9. ASSUME NEW u \in Thread
      PROVE  ThreadOrdered(u)'
  <2>1. CASE u = t
    BY <1>6, <2>1 DEF ThreadOrdered, Idle
  <2>2. CASE u # t
    BY <1>5, <1>6, <2>2 DEF FixesOrdered, ThreadOrdered, InOrder, StampedBefore
  <2>3. QED
    BY <2>1, <2>2
<1>10. QED
  BY <1>5, <1>7, <1>8, <1>9 DEF FixesOrdered, InOrder, StampedBefore

\* Time passes, or is set back: then no fix bears the new count of corrections.
LEMMA OrderedClock ==
    ASSUME Typed, FixesOrdered, Tick \/ SetBack
    PROVE  Typed' /\ FixesOrdered'
<1>1. /\ UNCHANGED <<last_fix, thread, stored, answers>>
      /\ \/ set_backs' = set_backs /\ now' = now + 1
         \/ set_backs' = set_backs + 1 /\ now' \in 0..now - 1
  BY DEF Tick, SetBack, engine, history
<1>2. now \in Nat /\ set_backs \in Nat
  BY DEF Typed
<1>3. now' \in Nat /\ set_backs' \in Nat
  BY <1>1, <1>2
<1>4. Typed'
  BY <1>1, <1>3 DEF Typed
<1>5. ASSUME NEW f \in AnyFix, StampedBefore(f)
      PROVE  StampedBefore(f)'
  BY <1>1, <1>2, <1>5 DEF StampedBefore, AnyFix
<1>6. ASSUME NEW u \in Thread
      PROVE  ThreadOrdered(u)'
  <2>1. ThreadOrdered(u) /\ thread'[u] = thread[u]
    BY <1>1 DEF FixesOrdered
  <2>2. CASE thread[u].at = "store"
    <3>1. thread[u].fix \in AnyFix /\ StampedBefore(thread[u].fix)
      BY <2>1, <2>2 DEF ThreadOrdered, InOrder
    <3>2. QED
      BY <1>1, <1>5, <2>1, <2>2, <3>1 DEF ThreadOrdered, InOrder
  <2>3. CASE thread[u].at # "store"
    BY <1>1, <2>1, <2>3 DEF ThreadOrdered, InOrder
  <2>4. QED
    BY <2>2, <2>3
<1>7. ASSUME NEW i \in 1..Len(stored)
      PROVE  StampedBefore(stored[i])'
  <2>1. stored[i] \in AnyFix /\ StampedBefore(stored[i]) /\ stored'[i] = stored[i]
    BY <1>1 DEF Typed, FixesOrdered
  <2>2. QED
    BY <1>5, <2>1
<1>8. QED
  BY <1>1, <1>4, <1>6, <1>7 DEF FixesOrdered, InOrder

LEMMA OrderedInit == Init => Typed /\ FixesOrdered
<1> SUFFICES ASSUME Init PROVE Typed /\ FixesOrdered
  OBVIOUS
<1>1. stored = <<>> /\ answers = <<>> /\ now = 0 /\ set_backs = 0
  BY DEF Init
<1>2. \A t \in Thread : thread[t] = Idle
  BY DEF Init
<1>3. thread \in [Thread -> AnyThread]
  BY IdleType DEF Init
<1>4. last_fix = None \/ \E p \in Place : last_fix = Fix(p, 0, 0, 0)
  BY DEF Init
<1>5. last_fix # None => last_fix \in AnyFix /\ last_fix.since = 0
  BY <1>4, FixType
<1>6. answers \in Seq({}) /\ stored \in Seq(AnyFix) /\ Len(stored) = 0 /\ Len(answers) = 0
  BY <1>1
<1>7. Typed
  BY <1>1, <1>3, <1>5, <1>6 DEF Typed
<1>8. \A t \in Thread : ThreadOrdered(t)
  BY <1>2 DEF ThreadOrdered, Idle
<1>9. QED
  BY <1>5, <1>6, <1>7, <1>8 DEF FixesOrdered, InOrder

LEMMA OrderedStep ==
    ASSUME Typed, FixesOrdered, [Next]_vars
    PROVE  Typed' /\ FixesOrdered'
<1>1. CASE UNCHANGED <<now, set_backs, last_fix, thread, stored, answers>>
  <2>1. Typed'
    BY <1>1 DEF Typed
  <2>2. QED
    BY <1>1, <2>1 DEF FixesOrdered, ThreadOrdered, InOrder, StampedBefore
<1>2. CASE UNCHANGED vars \/ LoadZones
  BY <1>1, <1>2 DEF vars, clock, engine, history, LoadZones
<1>3. QED
  BY <1>2, OrderedClock, OrderedServe, OrderedStore, OrderedDecide DEF Next, Serve

\* No answer rests on a fix older than one stored before its refresh began, for
\* any number of connections, places and refreshes, unless the clock was set
\* back in between.
THEOREM CurrentAnswers == Spec => []AnswersAreCurrent
<1>1. Typed /\ FixesOrdered => AnswersAreCurrent
  <2> SUFFICES ASSUME Typed, FixesOrdered, NEW j \in DOMAIN answers,
                      NEW i \in 1..answers[j].since
               PROVE  LET fix == answers[j].fix
                      IN  \/ fix.brightdate >= stored[i].brightdate
                          \/ fix.set_backs # stored[i].set_backs
                          \/ fix.since < i
    BY DEF AnswersAreCurrent
  <2>1. j \in 1..Len(answers)
    BY DEF Typed
  <2>2. InOrder(answers[j].fix)
    BY <2>1 DEF FixesOrdered
  <2>3. answers[j].fix.since \in Nat
    BY <2>2 DEF InOrder, AnyFix
  <2>4. i \in 1..answers[j].fix.since \/ answers[j].fix.since < i
    BY <2>3
  <2>5. QED
    BY <2>2, <2>4 DEF InOrder
<1>2. QED
  BY <1>1, OrderedInit, OrderedStep, PTL DEF Spec
-----------------------------------------------------------------------------
\* Rows of answers that name the same zone.

\* A set of natural numbers has a least element.
LEMMA Least ==
    ASSUME NEW T, T \subseteq Nat, T # {}
    PROVE  Min(T) \in T /\ \A y \in T : Min(T) <= y
<1> DEFINE R == OpToRel(<, Nat)
<1>1. IsWellFoundedOn(R, Nat)
  BY NatLessThanWellFounded
<1>2. \E x \in T : \A y \in T : ~(<<y, x>> \in R)
  <2> HIDE DEF R
  <2> QED
    BY <1>1, WFMin, Zenon
<1>3. PICK x \in T : \A y \in T : ~(<<y, x>> \in R)
  BY <1>2
<1>4. \A y \in T : ~(y < x)
  <2>1. x \in Nat /\ \A y \in T : y \in Nat
    OBVIOUS
  <2>2. ASSUME NEW y \in T, y < x
        PROVE  FALSE
    <3>1. <<y, x>> \in {ss \in Nat \X Nat : ss[1] < ss[2]}
      BY <2>1, <2>2
    <3>2. QED
      BY <1>3, <3>1, Zenon DEF OpToRel
  <2>3. QED
    BY <2>2
<1>5. \A y \in T : x <= y
  BY <1>4
<1>6. QED
  BY <1>5 DEF Min

LEMMA RowBegins ==
    ASSUME NEW s, NEW j \in Nat \ {0}
    PROVE  /\ Entry(s, j) \in 1..j
           /\ \A k \in Entry(s, j)..j : s[k].zone = s[j].zone
           /\ \A i \in Row(s, j) : Entry(s, j) <= i
<1>1. Row(s, j) \subseteq Nat /\ j \in Row(s, j)
  BY DEF Row
<1>2. Entry(s, j) \in Row(s, j) /\ \A i \in Row(s, j) : Entry(s, j) <= i
  BY <1>1, Least DEF Entry
<1>3. QED
  BY <1>2 DEF Row

\* An answer more changes no row,
LEMMA RowStays ==
    ASSUME NEW s, NEW r, NEW j \in Nat, \A i \in 1..j : r[i] = s[i]
    PROVE  Entry(r, j) = Entry(s, j)
<1>1. Row(r, j) = Row(s, j)
  BY DEF Row
<1>2. QED
  BY <1>1 DEF Entry

\* continues the last one if it names the same zone,
LEMMA RowGoesOn ==
    ASSUME NEW s, NEW j \in Nat \ {0}, s[j + 1].zone = s[j].zone
    PROVE  Entry(s, j + 1) = Entry(s, j)
<1> DEFINE m == Entry(s, j)
           n == Entry(s, j + 1)
<1>1. /\ m \in 1..j
      /\ \A k \in m..j : s[k].zone = s[j].zone
      /\ \A i \in Row(s, j) : m <= i
  BY RowBegins
<1>2. /\ n \in 1..(j + 1)
      /\ \A k \in n..(j + 1) : s[k].zone = s[j + 1].zone
      /\ \A i \in Row(s, j + 1) : n <= i
  <2>1. j + 1 \in Nat \ {0}
    OBVIOUS
  <2>2. QED
    BY <2>1, RowBegins
<1> HIDE DEF m, n
<1>3. m \in Row(s, j + 1)
  BY <1>1 DEF Row
<1>4. n <= m /\ n \in 1..j
  BY <1>1, <1>2, <1>3
<1>5. n \in Row(s, j)
  BY <1>2, <1>4 DEF Row
<1>6. m <= n
  BY <1>1, <1>5
<1>7. m = n
  BY <1>1, <1>2, <1>4, <1>6
<1>8. QED
  BY <1>7 DEF m, n

\* or begins one.
LEMMA RowIsNew ==
    ASSUME NEW s, NEW j \in Nat, j = 0 \/ s[j + 1].zone # s[j].zone
    PROVE  Entry(s, j + 1) = j + 1
<1> DEFINE n == Entry(s, j + 1)
<1>1. n \in 1..(j + 1) /\ \A k \in n..(j + 1) : s[k].zone = s[j + 1].zone
  <2>1. j + 1 \in Nat \ {0}
    OBVIOUS
  <2>2. QED
    BY <2>1, RowBegins
<1> HIDE DEF n
<1>2. n = j + 1
  <2>1. CASE n # j + 1
    <3>1. j # 0 /\ j \in n..(j + 1)
      BY <1>1, <2>1
    <3>2. QED
      BY <1>1, <3>1
  <2>2. QED
    BY <2>1
<1>3. QED
  BY <1>2 DEF n
-----------------------------------------------------------------------------
\* Dwell times.

\* The clock goes on, or a step that reads or answers nothing is taken.
LEMMA DwellMove ==
    ASSUME Typed, DwellInv, UNCHANGED <<zone_entered_at, answers>>,
           zones' \in ZoneLists,
           \A r : ReadBefore(r, now, set_backs) => ReadBefore(r, now', set_backs'),
           \A t \in Thread : ThreadRead(t)'
    PROVE  DwellInv'
<1>1. \A r : ReadAfter(r, answers) => ReadAfter(r, answers')
  BY DEF ReadAfter
<1>2. EntryKept' /\ \A j : Entry(answers', j) = Entry(answers, j)
  BY DEF EntryKept, DwellInv, Entry
<1>3. ASSUME NEW j \in 1..Len(answers')
      PROVE  /\ ReadBefore(answers'[j], now', set_backs') /\ ReadAfter(answers'[j], answers')
             /\ answers'[j].dwell = IF answers'[j].zone = None THEN 0
                                    ELSE answers'[j].bd - answers'[Entry(answers', j)].bd
  BY <1>1, <1>2 DEF DwellInv
<1>4. QED
  BY <1>2, <1>3 DEF DwellInv

\* One thread moves.
LEMMA DwellThread ==
    ASSUME Typed, DwellInv, NEW t \in Thread,
           UNCHANGED <<clock, zones, zone_entered_at, answers>>,
           \A u \in Thread \ {t} : thread'[u] = thread[u],
           thread'[t].began \in {thread[t].began, Len(answers), 0},
           thread'[t].at # "decide" \/ thread'[t].cmd # "zone"
    PROVE  DwellInv'
<1>1. \A r : (ReadBefore(r, now, set_backs) <=> ReadBefore(r, now', set_backs')) /\ (ReadAfter(r, answers) <=> ReadAfter(r, answers'))
  BY DEF ReadBefore, ReadAfter, clock
<1>2. Len(answers) \in Nat
  BY DEF Typed
<1>3. ASSUME NEW u \in Thread
      PROVE  ThreadRead(u)'
  <2>1. ThreadRead(u) /\ ThreadRead(t)
    BY DEF DwellInv
  <2>2. CASE u = t
    BY <1>2, <2>1, <2>2 DEF ThreadRead
  <2>3. CASE u # t
    BY <1>1, <2>1, <2>3 DEF ThreadRead
  <2>4. QED
    BY <2>2, <2>3
<1>4. zones' \in ZoneLists
  BY DEF DwellInv
<1>5. QED
  BY <1>1, <1>3, <1>4, DwellMove

LEMMA DwellServe ==
    ASSUME Typed, DwellInv, NEW t \in Thread,
           \/ \E cmd \in {"zone", "proximity", "get", "refresh"} : Ask(t, cmd)
           \/ CurrentFix(t) \/ DecideProximity(t)
           \/ RefreshAtOnce(t) \/ Connect(t) \/ RefreshFails(t)
           \/ Poll(t) \/ Sleep(t) \/ Stamp(t) \/ Store(t) \/ Hang(t)
    PROVE  DwellInv'
<1>1. thread \in [Thread -> AnyThread] /\ thread[t] \in AnyThread
  BY DEF Typed
<1>2. UNCHANGED <<clock, zones, zone_entered_at, answers>>
  BY DEF Ask, CurrentFix, DecideProximity, RefreshAtOnce, Connect, RefreshFails, Poll,
         Sleep, Stamp, Store, Hang, engine, history
<1>3. CASE Done(t)
  BY <1>1, <1>2, <1>3, DwellThread DEF Done, Idle
<1>4. CASE \E cmd \in {"zone", "proximity", "get", "refresh"} : Ask(t, cmd)
  <2>1. /\ \A u \in Thread \ {t} : thread'[u] = thread[u]
        /\ thread'[t].began = Len(answers)
        /\ thread'[t].at \in {"connect", "fix"}
    BY <1>1, <1>4 DEF Ask, AnyThread
  <2>2. QED
    BY <1>2, <2>1, DwellThread
<1>5. CASE CurrentFix(t) /\ ~Done(t)
  <2>1. /\ \A u \in Thread \ {t} : thread'[u] = thread[u]
        /\ thread'[t].began = thread[t].began /\ thread'[t].cmd = thread[t].cmd
        /\ thread'[t].at = IF last_fix = None THEN "connect"
                           ELSE IF thread[t].cmd = "zone" THEN "clock" ELSE "decide"
    <3>1. CASE last_fix = None
      <4>1. thread' = [thread EXCEPT ![t].at = "connect"]
        BY <1>5, <3>1 DEF CurrentFix
      <4>2. QED
        BY <1>1, <3>1, <4>1 DEF AnyThread
    <3>2. CASE last_fix # None
      <4>1. thread' = [thread EXCEPT ![t].fix = last_fix,
                  ![t].at = IF thread[t].cmd = "zone" THEN "clock" ELSE "decide"]
        BY <1>5, <3>2 DEF CurrentFix
      <4>2. QED
        BY <1>1, <3>2, <4>1 DEF AnyThread
    <3>3. QED
      BY <3>1, <3>2
  <2>2. QED
    BY <1>2, <2>1, DwellThread
<1>6. CASE ~Done(t) /\ (Connect(t) \/ Poll(t) \/ Sleep(t) \/ Stamp(t) \/ Hang(t))
  <2>1. /\ \A u \in Thread \ {t} : thread'[u] = thread[u]
        /\ thread'[t].began = thread[t].began
        /\ thread'[t].at \in {"poll", "stamp", "sleep", "store", "hung"}
    BY <1>1, <1>6 DEF Connect, Poll, Sleep, Stamp, Hang, AnyThread
  <2>2. QED
    BY <1>2, <2>1, DwellThread
<1>7. QED
  BY <1>3, <1>4, <1>5, <1>6 DEF DecideProximity, RefreshAtOnce, RefreshFails, Store

\* The clock that is read is not behind any answer of the same epoch.
LEMMA DwellReadClock ==
    ASSUME Typed, DwellInv, NEW t \in Thread, ReadClock(t)
    PROVE  DwellInv'
<1>1. /\ UNCHANGED <<now, set_backs, zones, zone_entered_at, answers>>
      /\ \A u \in Thread \ {t} : thread'[u] = thread[u]
      /\ thread'[t].began = thread[t].began
      /\ thread'[t].bd = now /\ thread'[t].epoch = set_backs
  BY DEF ReadClock, Typed, AnyThread, clock, engine, history
<1>2. \A r : (ReadBefore(r, now, set_backs) <=> ReadBefore(r, now', set_backs')) /\ (ReadAfter(r, answers) <=> ReadAfter(r, answers'))
  BY <1>1 DEF ReadBefore, ReadAfter
<1>3. now \in Nat /\ set_backs \in Nat /\ Len(answers) \in Nat
  BY DEF Typed
<1>4. thread[t].began \in 0..Len(answers)
  BY DEF DwellInv, ThreadRead
<1>5. ASSUME NEW i \in 1..thread[t].began, set_backs = answers[i].epoch
      PROVE  now >= answers[i].bd
  <2>1. i \in 1..Len(answers)
    BY <1>3, <1>4
  <2>2. QED
    BY <1>3, <1>5, <2>1 DEF DwellInv, ReadBefore
<1>6. ThreadRead(t)'
  BY <1>1, <1>3, <1>4, <1>5 DEF ThreadRead, ReadBefore, ReadAfter
<1>7. ASSUME NEW u \in Thread \ {t}
      PROVE  ThreadRead(u)'
  BY <1>1, <1>2 DEF DwellInv, ThreadRead
<1>8. zones' \in ZoneLists
  BY <1>1 DEF DwellInv
<1>9. QED
  BY <1>1, <1>2, <1>6, <1>7, <1>8, DwellMove

LEMMA DwellClock ==
    ASSUME Typed, DwellInv, Tick \/ SetBack
    PROVE  DwellInv'
<1>1. /\ UNCHANGED <<zones, zone_entered_at, thread, answers>>
      /\ \/ set_backs' = set_backs /\ now' = now + 1
         \/ set_backs' = set_backs + 1 /\ now' \in 0..now - 1
  BY DEF Tick, SetBack, engine, history
<1>2. now \in Nat /\ set_backs \in Nat
  BY DEF Typed
<1>3. \A r : ReadBefore(r, now, set_backs) => ReadBefore(r, now', set_backs')
  BY <1>1, <1>2 DEF ReadBefore
<1>4. \A r : ReadAfter(r, answers) => ReadAfter(r, answers')
  BY <1>1 DEF ReadAfter
<1>5. \A t \in Thread : ThreadRead(t)'
  BY <1>1, <1>3, <1>4 DEF DwellInv, ThreadRead
<1>6. zones' \in ZoneLists
  BY <1>1 DEF DwellInv
<1>7. QED
  BY <1>1, <1>3, <1>5, <1>6, DwellMove

\* What the lock's holder decides: without a zone, in the zone it was in, or
\* in one it enters.
LEMMA VerdictCases ==
    ASSUME Typed, DwellInv, NEW t \in Thread, thread[t].bd \in Nat
    PROVE  LET v == Verdict(t) IN
           \/ v.zone = None /\ v.dwell = 0 /\ v.entered = None
           \/ /\ zone_entered_at # None /\ v.zone = zone_entered_at.name /\ v.zone # None
              /\ v.dwell = thread[t].bd - zone_entered_at.at
              /\ v.entered = zone_entered_at
           \/ /\ zone_entered_at = None \/ zone_entered_at.name # v.zone
              /\ v.zone # None /\ v.dwell = 0 /\ v.entered # None
              /\ v.entered.name = v.zone /\ v.entered.at = thread[t].bd
<1> DEFINE here == ZonesAt(thread[t].fix.place)
           name == zones[Min(here)].name
           bd == thread[t].bd
<1>1. here = {} => Verdict(t) = [zone |-> None, dwell |-> 0, entered |-> None]
  BY DEF Verdict
<1>2. here # {} /\ zone_entered_at # None /\ zone_entered_at.name = name =>
          Verdict(t) = [zone |-> name, dwell |-> bd - zone_entered_at.at,
                        entered |-> zone_entered_at]
  BY DEF Verdict, Dwell
<1>3. here # {} /\ ~(zone_entered_at # None /\ zone_entered_at.name = name) =>
          Verdict(t) = [zone |-> name, dwell |-> 0, entered |-> [name |-> name, at |-> bd]]
  BY DEF Verdict
<1>4. here # {} => name # None /\ [name |-> name, at |-> bd] # None
  <2>1. here \subseteq DOMAIN zones
    BY DEF ZonesAt
  <2>2. DOMAIN zones \subseteq Nat
    BY GeoAssumption DEF DwellInv
  <2>3. here # {} => Min(here) \in DOMAIN zones
    BY <2>1, <2>2, Least
  <2> DEFINE Names == {zones[i].name : i \in DOMAIN zones}
  <2>4. None \notin Names \cup [name : Names, at : Nat]
    BY GeoAssumption DEF DwellInv
  <2>5. here # {} => name \in Names
    BY <2>3
  <2> HIDE DEF Names, name
  <2>6. QED
    BY <2>4, <2>5
<1> HIDE DEF here, name
<1>5. QED
  BY <1>1, <1>2, <1>3, <1>4

LEMMA DwellDecide ==
    ASSUME Typed, DwellInv, NEW t \in Thread, DecideZone(t)
    PROVE  DwellInv'
<1> DEFINE v == Verdict(t)
           n == Len(answers)
<1>1. ReadBefore(thread[t], now, set_backs) /\ ReadAfter(thread[t], answers) /\ thread[t].bd \in Nat
  BY DEF DecideZone, DwellInv, ThreadRead, ReadBefore
<1>2. PICK a : /\ answers' = Append(answers, a)
               /\ a.zone = v.zone /\ a.dwell = v.dwell
               /\ a.bd = thread[t].bd /\ a.epoch = thread[t].epoch
               /\ a.began = thread[t].began
  BY DEF DecideZone, Answer
<1>3. /\ zone_entered_at' = v.entered
      /\ UNCHANGED <<now, set_backs, zones>>
      /\ thread' = [thread EXCEPT ![t] = Idle]
  BY DEF DecideZone, Done, clock
<1>4. /\ n \in Nat /\ Len(answers') = n + 1
      /\ \A j \in 1..n : answers'[j] = answers[j]
      /\ answers'[n + 1] = a
      /\ answers' # <<>> /\ (answers # <<>> <=> n # 0)
  <2>1. PICK S : answers \in Seq(S)
    BY DEF Typed
  <2>2. answers \in Seq(S \cup {a}) /\ a \in S \cup {a}
    BY <2>1
  <2>3. QED
    BY <1>2, <2>2
<1>5. \/ v.zone = None /\ v.dwell = 0 /\ v.entered = None
      \/ /\ zone_entered_at # None /\ v.zone = zone_entered_at.name /\ v.zone # None
         /\ v.dwell = thread[t].bd - zone_entered_at.at
         /\ v.entered = zone_entered_at
      \/ /\ zone_entered_at = None \/ zone_entered_at.name # v.zone
         /\ v.zone # None /\ v.dwell = 0 /\ v.entered # None
         /\ v.entered.name = v.zone /\ v.entered.at = thread[t].bd
  BY <1>1, VerdictCases
<1>6. \A j \in 1..n : Entry(answers', j) = Entry(answers, j) /\ Entry(answers, j) \in 1..n
  <2> SUFFICES ASSUME NEW j \in 1..n
               PROVE  Entry(answers', j) = Entry(answers, j) /\ Entry(answers, j) \in 1..n
    OBVIOUS
  <2>1. j \in Nat \ {0} /\ 1..j \subseteq 1..n /\ \A i \in 1..j : answers'[i] = answers[i]
    BY <1>4
  <2>2. QED
    BY <2>1, RowStays, RowBegins
<1> HIDE DEF v, n
\* What the new answer says, and the entry it leaves.
<1>7. /\ a.dwell = IF a.zone = None THEN 0 ELSE a.bd - answers'[Entry(answers', n + 1)].bd
      /\ EntryKept'
  <2>1. CASE v.zone = None
    <3>1. v.dwell = 0 /\ v.entered = None
      BY <1>5, <2>1
    <3>2. QED
      BY <1>2, <1>3, <1>4, <2>1, <3>1 DEF EntryKept
  <2>2. CASE v.zone # None /\ zone_entered_at # None /\ v.zone = zone_entered_at.name
    <3>1. v.dwell = thread[t].bd - zone_entered_at.at /\ v.entered = zone_entered_at
      BY <1>5, <2>2
    <3>2. /\ n # 0 /\ zone_entered_at.name = answers[n].zone
          /\ zone_entered_at.at = answers[Entry(answers, n)].bd
      BY <1>4, <2>2 DEF DwellInv, EntryKept, n
    <3>3. n \in Nat \ {0} /\ n \in 1..n
      BY <1>4, <3>2
    <3>4. answers'[n + 1].zone = answers'[n].zone
      BY <1>2, <1>4, <2>2, <3>2, <3>3
    <3>5. Entry(answers', n + 1) = Entry(answers', n) /\ Entry(answers', n) = Entry(answers, n)
      BY <1>6, <3>3, <3>4, RowGoesOn
    <3>6. answers'[Entry(answers', n + 1)].bd = zone_entered_at.at
      BY <1>4, <1>6, <3>2, <3>3, <3>5
    <3>7. EntryKept'
      BY <1>2, <1>3, <1>4, <2>2, <3>1, <3>6 DEF EntryKept
    <3>8. QED
      BY <1>2, <3>1, <3>6, <3>7, <2>2
  <2>3. CASE v.zone # None /\ ~(zone_entered_at # None /\ v.zone = zone_entered_at.name)
    <3>1. /\ v.dwell = 0 /\ v.entered # None
          /\ v.entered.name = v.zone /\ v.entered.at = thread[t].bd
      BY <1>5, <2>3
    <3>2. n = 0 \/ answers[n].zone # v.zone
      BY <1>4, <2>3 DEF DwellInv, EntryKept, n
    <3>3. n = 0 \/ answers'[n + 1].zone # answers'[n].zone
      <4>1. n # 0 => n \in 1..n
        BY <1>4
      <4>2. QED
        BY <1>2, <1>4, <3>2, <4>1
    <3>4. Entry(answers', n + 1) = n + 1
      BY <1>4, <3>3, RowIsNew
    <3>5. answers'[Entry(answers', n + 1)].bd = thread[t].bd
      BY <1>2, <1>4, <3>4
    <3>6. EntryKept'
      BY <1>2, <1>3, <1>4, <3>1, <3>5 DEF EntryKept
    <3>7. a.dwell = a.bd - answers'[Entry(answers', n + 1)].bd
      BY <1>1, <1>2, <3>1, <3>5
    <3>8. QED
      BY <3>6, <3>7, <1>2, <2>3
  <2>4. QED
    BY <2>1, <2>2, <2>3
<1>8. \A r : ReadBefore(r, now, set_backs) <=> ReadBefore(r, now', set_backs')
  BY <1>3 DEF ReadBefore
<1>9. ASSUME NEW r, ReadAfter(r, answers)
       PROVE  ReadAfter(r, answers')
  <2>1. r.began \in 0..n /\ r.began \in 0..(n + 1)
    BY <1>4, <1>9 DEF ReadAfter, n
  <2>2. \A i \in 1..r.began : answers'[i] = answers[i]
    BY <1>4, <2>1
  <2>3. QED
    BY <1>4, <1>9, <2>1, <2>2 DEF ReadAfter
<1>10. ReadBefore(a, now', set_backs') /\ ReadAfter(a, answers')
  <2>1. ReadBefore(a, now, set_backs) /\ ReadAfter(a, answers)
    BY <1>1, <1>2 DEF ReadBefore, ReadAfter
  <2>2. QED
    BY <1>8, <1>9, <2>1
<1>11. ASSUME NEW j \in 1..Len(answers')
       PROVE  /\ ReadBefore(answers'[j], now', set_backs') /\ ReadAfter(answers'[j], answers')
              /\ answers'[j].dwell = IF answers'[j].zone = None THEN 0
                                     ELSE answers'[j].bd - answers'[Entry(answers', j)].bd
  <2>1. CASE j \in 1..n
    <3>1. /\ ReadBefore(answers[j], now, set_backs) /\ ReadAfter(answers[j], answers)
          /\ answers[j].dwell = IF answers[j].zone = None THEN 0
                                ELSE answers[j].bd - answers[Entry(answers, j)].bd
      BY <2>1 DEF DwellInv, n
    <3>2. answers'[j] = answers[j] /\ answers'[Entry(answers', j)] = answers[Entry(answers, j)]
      BY <1>4, <1>6, <2>1
    <3>3. QED
      BY <1>8, <1>9, <3>1, <3>2
  <2>2. CASE j = n + 1
    BY <1>4, <1>7, <1>10, <2>2
  <2>3. QED
    BY <1>4, <2>1, <2>2
<1>12. ASSUME NEW u \in Thread
       PROVE  ThreadRead(u)'
  <2>1. CASE u = t
    <3>1. thread'[u] = Idle
      BY <1>3, <2>1 DEF Typed
    <3>2. QED
      BY <1>4, <3>1 DEF ThreadRead, Idle
  <2>2. CASE u # t
    <3>1. thread'[u] = thread[u] /\ ThreadRead(u)
      BY <1>3, <2>2 DEF Typed, DwellInv
    <3>2. thread[u].began \in 0..Len(answers')
      BY <1>4, <3>1 DEF ThreadRead, n
    <3>3. QED
      BY <1>8, <1>9, <3>1, <3>2 DEF ThreadRead
  <2>3. QED
    BY <2>1, <2>2
<1>13. zones' \in ZoneLists
  BY <1>3 DEF DwellInv
<1>14. QED
  BY <1>7, <1>11, <1>12, <1>13 DEF DwellInv

LEMMA DwellInit == Init => DwellInv
<1> SUFFICES ASSUME Init PROVE DwellInv
  OBVIOUS
<1>1. answers = <<>> /\ Len(answers) = 0 /\ zone_entered_at = None /\ zones \in ZoneLists
  BY DEF Init
<1>2. \A t \in Thread : thread[t] = Idle
  BY DEF Init
<1>3. \A t \in Thread : ThreadRead(t)
  BY <1>1, <1>2 DEF ThreadRead, Idle
<1>4. QED
  BY <1>1, <1>3 DEF DwellInv, EntryKept

LEMMA DwellStep ==
    ASSUME Typed, DwellInv, [Next]_vars
    PROVE  DwellInv'
<1>1. CASE UNCHANGED vars \/ LoadZones
  <2>1. UNCHANGED <<now, set_backs, zone_entered_at, thread, answers>> /\ zones' \in ZoneLists
    BY <1>1 DEF vars, clock, engine, history, LoadZones, DwellInv
  <2>2. \A r : (ReadBefore(r, now, set_backs) <=> ReadBefore(r, now', set_backs')) /\ (ReadAfter(r, answers) <=> ReadAfter(r, answers'))
    BY <2>1 DEF ReadBefore, ReadAfter
  <2>3. \A t \in Thread : ThreadRead(t)'
    BY <2>1, <2>2 DEF DwellInv, ThreadRead
  <2>4. QED
    BY <2>1, <2>2, <2>3, DwellMove
<1>2. QED
  BY <1>1, DwellClock, DwellServe, DwellReadClock, DwellDecide DEF Next, Serve

LEMMA DwellInvariant == Spec => [](Typed /\ DwellInv)
<1>1. Init => Typed /\ FixesOrdered /\ DwellInv
  BY OrderedInit, DwellInit
<1>2. Typed /\ FixesOrdered /\ DwellInv /\ [Next]_vars => (Typed /\ FixesOrdered /\ DwellInv)'
  BY OrderedStep, DwellStep
<1>3. QED
  BY <1>1, <1>2, PTL DEF Spec

\* Whatever the connections do at once, a dwell is counted from the first
\* answer of the row that named the same zone: for any number of connections,
\* any zones and any corrections of the clock.
THEOREM DwellsExplained == Spec => []DwellFromAnswers
<1>1. Typed /\ DwellInv => DwellFromAnswers
  BY DEF Typed, DwellInv, DwellFromAnswers
<1>2. QED
  BY <1>1, DwellInvariant, PTL

\* A negative dwell answers a request that was under way when the zone was
\* entered, or the clock was set back in between.
THEOREM NegativeDwells == Spec => []NegativeDwellOverlaps
<1>1. Typed /\ DwellInv => NegativeDwellOverlaps
  <2> SUFFICES ASSUME Typed, DwellInv, NEW j \in DOMAIN answers, answers[j].dwell < 0,
                      ~(answers[j].began < Entry(answers, j))
               PROVE  answers[j].epoch # answers[Entry(answers, j)].epoch
    BY DEF NegativeDwellOverlaps
  <2>1. j \in 1..Len(answers) /\ j \in Nat \ {0}
    BY DEF Typed
  <2>2. Entry(answers, j) \in 1..j
    BY <2>1, RowBegins
  <2>3. /\ ReadBefore(answers[j], now, set_backs) /\ ReadAfter(answers[j], answers)
        /\ answers[j].dwell = IF answers[j].zone = None THEN 0
                              ELSE answers[j].bd - answers[Entry(answers, j)].bd
    BY <2>1 DEF DwellInv
  <2>4. Entry(answers, j) \in 1..answers[j].began /\ Entry(answers, j) \in 1..Len(answers)
    BY <2>1, <2>2, <2>3 DEF ReadAfter
  <2>5. answers[j].bd \in Nat /\ answers[Entry(answers, j)].bd \in Nat
    BY <2>3, <2>4 DEF DwellInv, ReadBefore
  <2>6. answers[j].bd < answers[Entry(answers, j)].bd
    BY <2>3, <2>5
  <2>7. QED
    BY <2>3, <2>4, <2>5, <2>6 DEF ReadAfter
<1>2. QED
  BY <1>1, DwellInvariant, PTL
-----------------------------------------------------------------------------
\* The types, with their bounds.

ThreadSet == [at : Stages, cmd : {"none", "zone", "proximity", "get", "refresh"},
              fix : FixSet \cup {None}, bd : 0..MaxTime, epoch : 0..MaxSetBacks,
              polls : 0..Polls, since : 0..MaxEvents, began : 0..MaxEvents]

Bounded == TypeOK /\ WithinBounds /\ \E S : answers \in Seq(S)

LEMMA BoundedThread ==
    ASSUME Bounded, NEW t \in Thread
    PROVE  /\ thread \in [Thread -> ThreadSet] /\ thread[t] \in ThreadSet
           /\ now \in 0..MaxTime /\ set_backs \in 0..MaxSetBacks
           /\ Len(stored) \in 0..MaxEvents /\ Len(answers) \in 0..MaxEvents
           /\ Cardinality(Busy) \in Nat
           /\ {Polls, MaxTime, MaxSetBacks, MaxEvents} \subseteq Nat
<1>1. Cardinality(Busy) \in Nat
  BY FS_CardinalityType DEF Bounded, WithinBounds
<1>2. Len(stored) \in Nat /\ Len(answers) \in Nat
  BY DEF Bounded, TypeOK
<1>3. {Polls, MaxTime, MaxSetBacks, MaxEvents} \subseteq Nat
  BY GeoAssumption
<1>4. Len(stored) + Len(answers) + Cardinality(Busy) <= MaxEvents
  BY DEF Bounded, WithinBounds
<1>5. Len(stored) \in 0..MaxEvents /\ Len(answers) \in 0..MaxEvents
  BY <1>1, <1>2, <1>3, <1>4
<1>6. QED
  BY <1>1, <1>3, <1>5 DEF Bounded, TypeOK, ThreadSet, Stages

\* How a thread's step changes the requests under way.
LEMMA BusyStep ==
    ASSUME Bounded, NEW t \in Thread, NEW r \in ThreadSet,
           thread' = [thread EXCEPT ![t] = r]
    PROVE  /\ IsFiniteSet(Busy')
           /\ Cardinality(Busy') \in Nat
           /\ thread[t].at # "idle" => Cardinality(Busy') <= Cardinality(Busy)
           /\ thread[t].at # "idle" /\ r.at = "idle" =>
                  Cardinality(Busy') = Cardinality(Busy) - 1
           /\ Cardinality(Busy') <= Cardinality(Busy) + 1
<1>1. IsFiniteSet(Busy)
  BY DEF Bounded, WithinBounds
<1>2. Cardinality(Busy) \in Nat
  BY BoundedThread
<1>3. /\ thread'[t] = r
      /\ \A u \in Thread \ {t} : thread'[u] = thread[u]
  BY BoundedThread
<1>4. CASE r.at = "idle"
  <2>1. Busy' = Busy \ {t}
    BY <1>3, <1>4 DEF Busy
  <2>2. thread[t].at # "idle" <=> t \in Busy
    BY DEF Busy
  <2>3. /\ IsFiniteSet(Busy \ {t})
        /\ Cardinality(Busy \ {t}) =
               IF t \in Busy THEN Cardinality(Busy) - 1 ELSE Cardinality(Busy)
    BY <1>1, FS_RemoveElement
  <2>4. Cardinality(Busy \ {t}) \in Nat
    BY <2>3, FS_CardinalityType
  <2>5. QED
    BY <1>2, <2>1, <2>2, <2>3, <2>4
<1>5. CASE r.at # "idle"
  <2>1. Busy' = Busy \cup {t}
    BY <1>3, <1>5 DEF Busy
  <2>2. thread[t].at # "idle" <=> t \in Busy
    BY DEF Busy
  <2>3. /\ IsFiniteSet(Busy \cup {t})
        /\ Cardinality(Busy \cup {t}) =
               IF t \in Busy THEN Cardinality(Busy) ELSE Cardinality(Busy) + 1
    BY <1>1, FS_AddElement
  <2>4. Cardinality(Busy \cup {t}) \in Nat
    BY <2>3, FS_CardinalityType
  <2>5. QED
    BY <1>2, <1>5, <2>1, <2>2, <2>3, <2>4
<1>6. QED
  BY <1>4, <1>5

\* A thread moves on and nothing is stored or answered.
LEMMA BoundedMove ==
    ASSUME Bounded, NEW t \in Thread, NEW r \in ThreadSet,
           thread' = [thread EXCEPT ![t] = r],
           UNCHANGED <<source, clock, engine, history>>,
           \/ thread[t].at # "idle"
           \/ Len(stored) + Len(answers) + Cardinality(Busy) < MaxEvents,
           r.at = "sleep" => r.polls < Polls,
           r.at \in {"clock", "decide", "store"} => r.fix \in FixSet
    PROVE  Bounded'
<1>1. UNCHANGED <<source, now, set_backs, last_fix, zones, zone_entered_at, stored, answers>>
  BY DEF clock, engine, history
<1>2. /\ thread' \in [Thread -> ThreadSet]
      /\ thread'[t] = r
      /\ \A u \in Thread \ {t} : thread'[u] = thread[u]
  BY BoundedThread
<1>3. TypeOK'
  BY <1>1, <1>2 DEF Bounded, TypeOK, ThreadSet, Stages
<1>4. Len(stored) + Len(answers) + Cardinality(Busy') <= MaxEvents
  <2>1. /\ Len(stored) \in Nat /\ Len(answers) \in Nat /\ MaxEvents \in Nat
        /\ Cardinality(Busy) \in Nat
    BY BoundedThread
  <2>2. Len(stored) + Len(answers) + Cardinality(Busy) <= MaxEvents
    BY DEF Bounded, WithinBounds
  <2>3. /\ Cardinality(Busy') \in Nat
        /\ thread[t].at # "idle" => Cardinality(Busy') <= Cardinality(Busy)
        /\ Cardinality(Busy') <= Cardinality(Busy) + 1
    BY BusyStep
  <2>4. QED
    BY <2>1, <2>2, <2>3
<1>5. IsFiniteSet(Busy')
  BY BusyStep
<1>6. WithinBounds'
  BY <1>1, <1>2, <1>4, <1>5 DEF Bounded, WithinBounds
<1>7. QED
  BY <1>1, <1>3, <1>6 DEF Bounded

LEMMA BoundedIdle == Idle \in ThreadSet
BY GeoAssumption DEF Idle, ThreadSet, Stages

\* A refresh or an answer ends t's request.
LEMMA BoundedEnd ==
    ASSUME Bounded, NEW t \in Thread, thread[t].at # "idle", Done(t),
           UNCHANGED <<source, clock, zones>>,
           last_fix' \in FixSet \cup {None},
           zone_entered_at' = None \/ zone_entered_at'.at \in 0..MaxTime,
           \/ /\ \E fix \in FixSet : stored' = Append(stored, fix)
              /\ UNCHANGED answers
           \/ /\ \E a : answers' = Append(answers, a)
              /\ UNCHANGED stored
    PROVE  Bounded'
<1>1. UNCHANGED <<source, now, set_backs, zones>>
  BY DEF clock
<1>2. /\ thread' \in [Thread -> ThreadSet]
      /\ thread'[t] = Idle
      /\ \A u \in Thread \ {t} : thread'[u] = thread[u]
  BY BoundedThread, BoundedIdle DEF Done
<1>3. PICK S : answers \in Seq(S)
  BY DEF Bounded
<1>4. /\ stored' \in Seq(FixSet) /\ Len(stored') \in Nat /\ Len(answers') \in Nat
      /\ \E T : answers' \in Seq(T)
      /\ Len(stored') + Len(answers') = Len(stored) + Len(answers) + 1
  <2>1. stored \in Seq(FixSet) /\ Len(stored) \in Nat /\ Len(answers) \in Nat
    BY <1>3 DEF Bounded, TypeOK
  <2>2. CASE (\E fix \in FixSet : stored' = Append(stored, fix)) /\ UNCHANGED answers
    <3>1. stored' \in Seq(FixSet) /\ Len(stored') = Len(stored) + 1
      BY <2>1, <2>2
    <3>2. QED
      BY <1>3, <2>1, <2>2, <3>1
  <2>3. CASE (\E a : answers' = Append(answers, a)) /\ UNCHANGED stored
    <3>1. PICK a : answers' = Append(answers, a)
      BY <2>3
    <3>2. answers \in Seq(S \cup {a})
      BY <1>3
    <3>3. answers' \in Seq(S \cup {a}) /\ Len(answers') = Len(answers) + 1
      BY <3>1, <3>2
    <3>4. QED
      BY <2>1, <2>3, <3>3
  <2>4. QED
    BY <2>2, <2>3
<1>5. /\ IsFiniteSet(Busy')
      /\ Cardinality(Busy') \in Nat
      /\ Cardinality(Busy') = Cardinality(Busy) - 1
  BY <1>2, BusyStep, BoundedIdle DEF Done, Idle
<1>6. Len(stored') + Len(answers') + Cardinality(Busy') <= MaxEvents
  <2>1. /\ Len(stored) \in Nat /\ Len(answers) \in Nat /\ MaxEvents \in Nat
        /\ Cardinality(Busy) \in Nat
    BY BoundedThread
  <2>2. Len(stored) + Len(answers) + Cardinality(Busy) <= MaxEvents
    BY DEF Bounded, WithinBounds
  <2>3. QED
    BY <1>4, <1>5, <2>1, <2>2
<1>7. Len(answers') <= MaxEvents
  BY <1>4, <1>5, <1>6, GeoAssumption
<1>8. TypeOK'
  BY <1>1, <1>2, <1>4, <1>7 DEF Bounded, TypeOK, ThreadSet, Stages
<1>9. WithinBounds'
  BY <1>2, <1>5, <1>6 DEF Bounded, WithinBounds, Idle
<1>10. QED
  BY <1>4, <1>8, <1>9 DEF Bounded

LEMMA BoundedServe ==
    ASSUME Bounded, NEW t \in Thread,
           \/ \E cmd \in {"zone", "proximity", "get", "refresh"} : Ask(t, cmd)
           \/ CurrentFix(t) \/ ReadClock(t) \/ DecideProximity(t)
           \/ RefreshAtOnce(t) \/ Connect(t) \/ RefreshFails(t)
           \/ Poll(t) \/ Sleep(t) \/ Stamp(t) \/ Hang(t)
    PROVE  Bounded'
<1>1. /\ thread[t] \in ThreadSet /\ now \in 0..MaxTime /\ set_backs \in 0..MaxSetBacks
      /\ Len(stored) \in 0..MaxEvents /\ Len(answers) \in 0..MaxEvents
      /\ last_fix \in FixSet \cup {None}
      /\ thread[t].at = "sleep" => thread[t].polls < Polls
      /\ thread[t].at \in {"clock", "decide", "store"} => thread[t].fix \in FixSet
  BY BoundedThread DEF Bounded, TypeOK, WithinBounds
<1>2. CASE Done(t) /\ thread[t].at # "idle" /\ UNCHANGED <<source, clock, engine, history>>
  BY <1>2, BoundedIdle, BoundedMove DEF Done, Idle
<1>3. CASE \E cmd \in {"zone", "proximity", "get", "refresh"} : Ask(t, cmd)
  <2>1. PICK cmd \in {"zone", "proximity", "get", "refresh"} : Ask(t, cmd)
    BY <1>3
  <2> DEFINE r == [thread[t] EXCEPT !.at = IF cmd = "refresh" THEN "connect" ELSE "fix",
                                    !.cmd = cmd, !.since = Len(stored),
                                    !.began = Len(answers)]
  <2>2. r \in ThreadSet /\ r.at \in {"connect", "fix"}
    BY <1>1 DEF ThreadSet, Stages
  <2>3. thread' = [thread EXCEPT ![t] = r] /\ UNCHANGED <<source, clock, engine, history>>
    BY <2>1 DEF Ask, Bounded, TypeOK
  <2>4. Len(stored) + Len(answers) + Cardinality(Busy) < MaxEvents
    BY <2>1 DEF Ask
  <2> HIDE DEF r
  <2>5. QED
    BY <2>2, <2>3, <2>4, BoundedMove
<1>4. CASE CurrentFix(t)
  <2>1. CASE thread' = [thread EXCEPT ![t].at = "connect"]
    <3> DEFINE r == [thread[t] EXCEPT !.at = "connect"]
    <3>1. r \in ThreadSet /\ r.at = "connect" /\ thread' = [thread EXCEPT ![t] = r]
      BY <1>1, <2>1 DEF ThreadSet, Stages
    <3> HIDE DEF r
    <3>2. QED
      BY <1>4, <3>1, BoundedMove DEF CurrentFix
  <2>2. CASE /\ last_fix # None
             /\ thread' = [thread EXCEPT ![t].fix = last_fix,
                    ![t].at = IF thread[t].cmd = "zone" THEN "clock" ELSE "decide"]
    <3> DEFINE r == [thread[t] EXCEPT !.fix = last_fix,
                         !.at = IF thread[t].cmd = "zone" THEN "clock" ELSE "decide"]
    <3>1. r \in ThreadSet /\ r.at \in {"clock", "decide"} /\ r.fix = last_fix
      BY <1>1 DEF ThreadSet, Stages
    <3>2. thread' = [thread EXCEPT ![t] = r]
      BY <2>2 DEF Bounded, TypeOK
    <3>3. /\ thread[t].at # "idle" /\ UNCHANGED <<source, clock, engine, history>>
          /\ r.fix \in FixSet
      BY <1>1, <1>4, <2>2, <3>1 DEF CurrentFix
    <3> HIDE DEF r
    <3>4. QED
      BY <3>1, <3>2, <3>3, BoundedMove
  <2>3. QED
    BY <1>2, <1>4, <2>1, <2>2 DEF CurrentFix
<1>5. CASE ReadClock(t)
  <2> DEFINE r == [thread[t] EXCEPT !.at = "decide", !.bd = now, !.epoch = set_backs]
  <2>1. r \in ThreadSet /\ r.at = "decide" /\ r.fix = thread[t].fix
    BY <1>1 DEF ThreadSet, Stages
  <2>2. thread' = [thread EXCEPT ![t] = r]
    BY <1>5 DEF ReadClock, Bounded, TypeOK
  <2> HIDE DEF r
  <2>3. QED
    BY <1>1, <1>5, <2>1, <2>2, BoundedMove DEF ReadClock
<1>6. CASE Connect(t)
  <2> DEFINE r == [thread[t] EXCEPT !.at = "poll", !.since = Len(stored)]
  <2>1. r \in ThreadSet /\ r.at = "poll"
    BY <1>1 DEF ThreadSet, Stages
  <2>2. thread' = [thread EXCEPT ![t] = r]
    BY <1>6 DEF Connect, Bounded, TypeOK
  <2> HIDE DEF r
  <2>3. QED
    BY <1>6, <2>1, <2>2, BoundedMove DEF Connect
<1>7. CASE Poll(t)
  <2>1. CASE thread' = [thread EXCEPT ![t].at = "stamp"]
    <3> DEFINE r == [thread[t] EXCEPT !.at = "stamp"]
    <3>1. r \in ThreadSet /\ r.at = "stamp" /\ thread' = [thread EXCEPT ![t] = r]
      BY <1>1, <2>1 DEF ThreadSet, Stages
    <3> HIDE DEF r
    <3>2. QED
      BY <1>7, <3>1, BoundedMove DEF Poll
  <2>2. CASE thread[t].polls < Polls /\ thread' = [thread EXCEPT ![t].at = "sleep"]
    <3> DEFINE r == [thread[t] EXCEPT !.at = "sleep"]
    <3>1. /\ r \in ThreadSet /\ r.at = "sleep" /\ r.polls < Polls
          /\ thread' = [thread EXCEPT ![t] = r]
      BY <1>1, <2>2 DEF ThreadSet, Stages
    <3> HIDE DEF r
    <3>2. QED
      BY <1>7, <3>1, BoundedMove DEF Poll
  <2>3. QED
    BY <1>2, <1>7, <2>1, <2>2 DEF Poll
<1>8. CASE Sleep(t)
  <2> DEFINE r == [thread[t] EXCEPT !.at = "poll", !.polls = thread[t].polls + 1]
  <2>1. thread[t].polls + 1 \in 0..Polls
    <3>1. thread[t].polls \in 0..Polls /\ thread[t].polls < Polls
      BY <1>1, <1>8 DEF Sleep, ThreadSet
    <3>2. QED
      BY <3>1, GeoAssumption
  <2>2. r \in ThreadSet /\ r.at = "poll"
    BY <1>1, <2>1 DEF ThreadSet, Stages
  <2>3. thread' = [thread EXCEPT ![t] = r]
    BY <1>8 DEF Sleep, Bounded, TypeOK
  <2> HIDE DEF r
  <2>4. QED
    BY <1>8, <2>2, <2>3, BoundedMove DEF Sleep
<1>9. CASE Stamp(t)
  <2>1. PICK p \in Place : thread' = [thread EXCEPT ![t].at = "store",
                              ![t].fix = Fix(p, now, set_backs, thread[t].since)]
    BY <1>9 DEF Stamp
  <2>2. Fix(p, now, set_backs, thread[t].since) \in FixSet
    BY <1>1 DEF Fix, FixSet, ThreadSet
  <2> DEFINE r == [thread[t] EXCEPT !.at = "store",
                                    !.fix = Fix(p, now, set_backs, thread[t].since)]
  <2>4. /\ r \in ThreadSet /\ r.at = "store" /\ r.fix \in FixSet
        /\ thread' = [thread EXCEPT ![t] = r]
    BY <1>1, <2>1, <2>2 DEF ThreadSet, Stages
  <2> HIDE DEF r
  <2>5. QED
    BY <1>9, <2>4, BoundedMove DEF Stamp
<1>10. CASE DecideProximity(t) \/ RefreshAtOnce(t) \/ RefreshFails(t)
  BY <1>2, <1>10 DEF DecideProximity, RefreshAtOnce, RefreshFails
<1>11. CASE Hang(t)
  <2> DEFINE r == [thread[t] EXCEPT !.at = "hung"]
  <2>1. r \in ThreadSet /\ r.at = "hung" /\ thread' = [thread EXCEPT ![t] = r]
    BY <1>1, <1>11 DEF Hang, ThreadSet, Stages
  <2> HIDE DEF r
  <2>2. QED
    BY <1>11, <2>1, BoundedMove DEF Hang
<1>12. QED
  BY <1>3, <1>4, <1>5, <1>6, <1>7, <1>8, <1>9, <1>10, <1>11

LEMMA BoundedStore ==
    ASSUME Bounded, NEW t \in Thread, Store(t)
    PROVE  Bounded'
<1>1. thread[t].at = "store" /\ thread[t].fix \in FixSet
  BY DEF Store, Bounded, WithinBounds
<1>2. zone_entered_at' = None \/ zone_entered_at'.at \in 0..MaxTime
  BY DEF Store, Bounded, TypeOK
<1>3. QED
  BY <1>1, <1>2, BoundedEnd DEF Store

LEMMA BoundedDecide ==
    ASSUME Bounded, NEW t \in Thread, DecideZone(t)
    PROVE  Bounded'
<1>1. thread[t].at = "decide" /\ thread[t].bd \in 0..MaxTime
  BY BoundedThread DEF DecideZone, ThreadSet
<1>2. \/ Verdict(t).entered = None
      \/ Verdict(t).entered = zone_entered_at
      \/ Verdict(t).entered.at = thread[t].bd
  BY DEF Verdict
<1>3. zone_entered_at' = None \/ zone_entered_at'.at \in 0..MaxTime
  BY <1>1, <1>2 DEF DecideZone, Bounded, TypeOK
<1>4. last_fix' \in FixSet \cup {None}
  BY DEF DecideZone, Bounded, TypeOK
<1>5. QED
  BY <1>1, <1>3, <1>4, BoundedEnd DEF DecideZone, Answer

LEMMA BoundedInit == Init => Bounded
<1> SUFFICES ASSUME Init PROVE Bounded
  OBVIOUS
<1>1. Busy = {} /\ stored = <<>> /\ answers = <<>>
  BY DEF Init, Busy, Idle
<1>2. WithinBounds
  BY <1>1, FS_EmptySet, GeoAssumption DEF WithinBounds, Init, Idle
<1>3. \A p \in Place : Fix(p, 0, 0, 0) \in FixSet
  BY GeoAssumption DEF Fix, FixSet
<1>4. last_fix \in FixSet \cup {None}
  BY <1>3 DEF Init
<1>5. source \in {"fixed", "ip", "geoclue"}
  BY DEF Init, SelectGeoSource
<1>6. thread \in [Thread -> ThreadSet]
  BY BoundedIdle DEF Init
<1>7. TypeOK
  BY <1>1, <1>4, <1>5, <1>6, GeoAssumption DEF Init, TypeOK, ThreadSet, Stages
<1>8. \E S : answers \in Seq(S)
  BY <1>1
<1>9. QED
  BY <1>2, <1>7, <1>8 DEF Bounded

LEMMA BoundedStep ==
    ASSUME Bounded, [Next]_vars
    PROVE  Bounded'
<1>1. CASE /\ UNCHANGED <<source, last_fix, zone_entered_at, thread, stored, answers>>
           /\ now' \in 0..MaxTime /\ set_backs' \in 0..MaxSetBacks
           /\ zones' \in ZoneLists
  BY <1>1 DEF Bounded, TypeOK, WithinBounds, Busy
<1>2. CASE Tick \/ SetBack \/ LoadZones \/ UNCHANGED vars
  <2>1. /\ now \in 0..MaxTime /\ set_backs \in 0..MaxSetBacks /\ zones \in ZoneLists
        /\ MaxTime \in Nat /\ MaxSetBacks \in Nat
    BY GeoAssumption DEF Bounded, TypeOK
  <2>2. CASE Tick \/ SetBack
    BY <1>1, <2>1, <2>2 DEF Tick, SetBack, engine, history
  <2>3. CASE LoadZones \/ UNCHANGED vars
    BY <1>1, <2>1, <2>3 DEF LoadZones, vars, clock, engine, history
  <2>4. QED
    BY <1>2, <2>2, <2>3
<1>3. QED
  BY <1>2, BoundedServe, BoundedStore, BoundedDecide DEF Next, Serve

\* No time, poll count or place in a history leaves its bounds, for any number
\* of connections: the guard on new requests counts those under way.
THEOREM GeoTyped == Spec => []TypeOK
<1>1. Bounded => TypeOK
  BY DEF Bounded
<1>2. QED
  BY <1>1, BoundedInit, BoundedStep, PTL DEF Spec
-----------------------------------------------------------------------------
\* Waiting.

\* The steps a request under way has yet to take, at most: two for each poll that fits
\* in the deadline.  One that hangs takes none.
StepsLeft(r) ==
    CASE r.at \in {"idle", "hung"} -> 0
      [] r.at \in {"decide", "store"} -> 1
      [] r.at \in {"clock", "stamp"} -> 2
      [] r.at = "sleep" -> 2 * (Polls - r.polls) + 2
      [] r.at = "poll" -> 2 * (Polls - r.polls) + 3
      [] r.at = "connect" -> 2 * Polls + 4
      [] r.at = "fix" -> 2 * Polls + 5

\* A request moves in one direction only, its polls included.
RequestsBounded ==
    [][\A t \in Thread :
          thread[t].at # "idle" /\ thread'[t] # thread[t] =>
              StepsLeft(thread'[t]) \in 0..StepsLeft(thread[t]) - 1]_vars

LEMMA StepsLeftIs ==
    ASSUME NEW r \in ThreadSet
    PROVE  /\ StepsLeft(r) \in Nat
           /\ r.at \in {"idle", "hung"} => StepsLeft(r) = 0
           /\ r.at \in {"decide", "store"} => StepsLeft(r) = 1
           /\ r.at \in {"clock", "stamp"} => StepsLeft(r) = 2
           /\ r.at = "sleep" => StepsLeft(r) = 2 * (Polls - r.polls) + 2
           /\ r.at = "poll" => StepsLeft(r) = 2 * (Polls - r.polls) + 3
           /\ r.at = "connect" => StepsLeft(r) = 2 * Polls + 4
           /\ r.at = "fix" => StepsLeft(r) = 2 * Polls + 5
<1>1. Polls \in Nat /\ r.polls \in 0..Polls
  BY GeoAssumption DEF ThreadSet
<1>2. 2 * (Polls - r.polls) + 2 \in Nat /\ 2 * (Polls - r.polls) + 3 \in Nat
  BY <1>1
<1>3. r.at \in Stages
  BY DEF ThreadSet
<1>4. QED
  BY <1>1, <1>2, <1>3 DEF StepsLeft, Stages

\* From one step of a request to the next.
Onward(r, q) ==
    \/ r.at \notin {"idle", "hung"} /\ q.at \in {"idle", "hung"}
    \/ r.at = "fix" /\ q.at \in {"connect", "clock", "decide"}
    \/ r.at = "clock" /\ q.at = "decide"
    \/ r.at = "connect" /\ q.at = "poll"
    \/ r.at = "poll" /\ q.at = "stamp"
    \/ r.at = "poll" /\ q.at = "sleep" /\ q.polls = r.polls
    \/ r.at = "sleep" /\ q.at = "poll" /\ q.polls = r.polls + 1
    \/ r.at = "stamp" /\ q.at = "store"

LEMMA OnwardShortens ==
    ASSUME NEW r \in ThreadSet, NEW q \in ThreadSet, Onward(r, q)
    PROVE  StepsLeft(q) \in 0..StepsLeft(r) - 1
<1>1. Polls \in Nat /\ r.polls \in 0..Polls /\ q.polls \in 0..Polls
  BY GeoAssumption DEF ThreadSet
<1>2. r.at \in Stages /\ q.at \in Stages
  BY DEF ThreadSet
<1>3. CASE r.at \notin {"idle", "hung"} /\ q.at \in {"idle", "hung"}
  <2>1. StepsLeft(q) = 0
    BY <1>3, StepsLeftIs
  <2>2. StepsLeft(r) \in Nat /\ StepsLeft(r) # 0
    BY <1>1, <1>2, <1>3, StepsLeftIs DEF Stages
  <2>3. QED
    BY <2>1, <2>2
<1>4. CASE r.at = "fix" /\ q.at \in {"connect", "clock", "decide"}
  BY <1>1, <1>4, StepsLeftIs
<1>5. CASE r.at = "clock" /\ q.at = "decide"
  BY <1>5, StepsLeftIs
<1>6. CASE r.at = "connect" /\ q.at = "poll"
  BY <1>1, <1>6, StepsLeftIs
<1>7. CASE r.at = "poll" /\ q.at = "stamp"
  BY <1>1, <1>7, StepsLeftIs
<1>8. CASE r.at = "poll" /\ q.at = "sleep" /\ q.polls = r.polls
  BY <1>1, <1>8, StepsLeftIs
<1>9. CASE r.at = "sleep" /\ q.at = "poll" /\ q.polls = r.polls + 1
  BY <1>1, <1>9, StepsLeftIs
<1>10. CASE r.at = "stamp" /\ q.at = "store"
  BY <1>10, StepsLeftIs
<1>11. QED
  BY <1>3, <1>4, <1>5, <1>6, <1>7, <1>8, <1>9, <1>10 DEF Onward

LEMMA ServeOnward ==
    ASSUME Bounded, NEW t \in Thread, Serve(t) \/ Hang(t)
    PROVE  Onward(thread[t], thread'[t]) /\ \A u \in Thread \ {t} : thread'[u] = thread[u]
<1>1. thread \in [Thread -> ThreadSet] /\ thread[t] \in ThreadSet
  BY BoundedThread
<1>2. \A r : thread' = [thread EXCEPT ![t] = r] =>
          thread'[t] = r /\ \A u \in Thread \ {t} : thread'[u] = thread[u]
  BY <1>1
<1>3. CASE Done(t) /\ thread[t].at \notin {"idle", "hung"}
  BY <1>2, <1>3 DEF Done, Idle, Onward
<1>4. CASE CurrentFix(t)
  <2>1. CASE thread' = [thread EXCEPT ![t].at = "connect"]
    BY <1>1, <1>4, <2>1 DEF CurrentFix, Onward, ThreadSet
  <2>2. CASE thread' = [thread EXCEPT ![t].fix = last_fix,
                    ![t].at = IF thread[t].cmd = "zone" THEN "clock" ELSE "decide"]
    BY <1>1, <1>4, <2>2 DEF CurrentFix, Onward, ThreadSet
  <2>3. QED
    BY <1>3, <1>4, <2>1, <2>2 DEF CurrentFix
<1>5. CASE ReadClock(t)
  BY <1>1, <1>5 DEF ReadClock, Onward, ThreadSet
<1>6. CASE Connect(t)
  BY <1>1, <1>6 DEF Connect, Onward, ThreadSet
<1>7. CASE Poll(t)
  <2>1. CASE thread' = [thread EXCEPT ![t].at = "stamp"]
    BY <1>1, <1>7, <2>1 DEF Poll, Onward, ThreadSet
  <2>2. CASE thread' = [thread EXCEPT ![t].at = "sleep"]
    BY <1>1, <1>7, <2>2 DEF Poll, Onward, ThreadSet
  <2>3. QED
    BY <1>3, <1>7, <2>1, <2>2 DEF Poll
<1>8. CASE Sleep(t)
  BY <1>1, <1>8 DEF Sleep, Onward, ThreadSet
<1>9. CASE Stamp(t)
  BY <1>1, <1>9 DEF Stamp, Onward, ThreadSet
<1>10. CASE DecideZone(t) \/ DecideProximity(t) \/ RefreshAtOnce(t) \/ RefreshFails(t) \/ Store(t)
  BY <1>3, <1>10 DEF DecideZone, DecideProximity, RefreshAtOnce, RefreshFails, Store
<1>11. CASE Hang(t)
  BY <1>1, <1>11 DEF Hang, Onward, ThreadSet
<1>12. QED
  BY <1>4, <1>5, <1>6, <1>7, <1>8, <1>9, <1>10, <1>11 DEF Serve

\* A request under way is only ever brought nearer to its answer: whatever the other
\* connections do and whenever the clock is set back, it takes at most 2 * Polls + 5
\* steps, the polls of GeoClue included, and nothing sets its deadline anew.  The
\* last of them may be into a D-Bus call that does not return.
THEOREM RequestsEnd == Spec => RequestsBounded
<1>1. Bounded /\ Bounded' /\ [Next]_vars =>
        [\A t \in Thread :
            thread[t].at # "idle" /\ thread'[t] # thread[t] =>
                StepsLeft(thread'[t]) \in 0..StepsLeft(thread[t]) - 1]_vars
  <2> SUFFICES ASSUME Bounded, Bounded', Next, NEW t \in Thread,
                      thread[t].at # "idle", thread'[t] # thread[t]
               PROVE  StepsLeft(thread'[t]) \in 0..StepsLeft(thread[t]) - 1
    OBVIOUS
  <2>1. thread[t] \in ThreadSet /\ thread'[t] \in ThreadSet
    BY DEF Bounded, TypeOK, ThreadSet, Stages
  <2>2. CASE \E u \in Thread : Serve(u) \/ Hang(u)
    BY <2>1, <2>2, ServeOnward, OnwardShortens
  <2>3. ASSUME NEW u \in Thread, NEW cmd, Ask(u, cmd)
        PROVE  FALSE
    BY <2>3 DEF Ask, Bounded, TypeOK
  <2>4. QED
    BY <2>2, <2>3 DEF Next, Tick, SetBack, LoadZones
<1>2. QED
  BY <1>1, BoundedInit, BoundedStep, PTL DEF Spec, RequestsBounded
=============================================================================
