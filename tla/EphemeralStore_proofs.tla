----------------------- MODULE EphemeralStore_proofs -----------------------
(***************************************************************************)
(* Theorems about EphemeralStore.  For any number of threads, calls and    *)
(* credentials each mutex is held by the thread that is between its lock   *)
(* and its release; the last snapshot shows the store, and a sweep removes *)
(* nothing that is still active, except where the clock was set back after *)
(* it was read; no circle of threads waits, and every call gets nearer to  *)
(* its return.                                                             *)
(***************************************************************************)
EXTENDS EphemeralStore, TLAPS

LEMMA Facts ==
    /\ Handler \cap Ui = {} /\ Nobody \notin Thread
    /\ Context # {}
    /\ Lifetime \subseteq Nat
BY StoreAssumption DEF Thread

LEMMA HandleType == \A t : HandleOf(t) \in Handle
BY DEF HandleOf, Handle

LEMMA NoArgType == NoArg \in Arg
<1>1. NoArg.context \in Context
  BY Facts DEF NoArg
<1>2. QED
  BY <1>1 DEF NoArg, Arg

LEMMA ActiveType ==
    ASSUME entries \in Entries, NEW time \in Nat
    PROVE  ActiveAt(time) \in Entries
BY DEF Entries, ActiveAt

-----------------------------------------------------------------------------
\* Types.

LEMMA GotoType ==
    ASSUME TypeOK, NEW t \in Thread, NEW step \in Steps, Goto(t, step)
    PROVE  /\ pc' \in [Thread -> Steps]
           /\ \A u \in Thread : pc'[u] = IF u = t THEN step ELSE pc[u]
BY DEF TypeOK, Goto

LEMMA ArgType ==
    ASSUME TypeOK, NEW t \in Thread, NEW value \in Arg,
           arg' = [arg EXCEPT ![t] = value]
    PROVE  arg' \in [Thread -> Arg]
BY DEF TypeOK

LEMMA BeginType ==
    ASSUME TypeOK, NEW t \in Thread, NEW step \in Steps, NEW x \in Context,
           NEW time \in Nat, Begin(t, step, x, time)
    PROVE  TypeOK'
<1>1. pc' \in [Thread -> Steps]
  BY GotoType DEF Begin
<1>2. arg' \in [Thread -> Arg]
  <2>1. [context |-> x, time |-> time, epoch |-> set_backs] \in Arg
    BY DEF Arg, TypeOK
  <2>2. QED
    BY <2>1, ArgType DEF Begin
<1>3. ops' \in Nat
  BY DEF TypeOK, Begin
<1>4. QED
  BY <1>1, <1>2, <1>3 DEF TypeOK, Begin, clock, history

LEMMA CallType ==
    ASSUME TypeOK, Call
    PROVE  TypeOK'
<1>1. now \in Nat /\ NoArg.context \in Context
  BY NoArgType DEF TypeOK, Arg
<1>2. {"lock_insert", "lock_clear", "lock_sweep", "lock_build"} \subseteq Steps
  BY DEF Steps
<1>3. ASSUME NEW t \in Handler, NEW x \in Context, NEW life \in Lifetime,
             BeginInsert(t, x, life)
      PROVE  TypeOK'
  <2>1. now + life \in Nat /\ t \in Thread
    BY <1>1, Facts DEF Thread
  <2>2. QED
    BY <1>2, <1>3, <2>1, BeginType DEF BeginInsert
<1>4. ASSUME NEW t \in Handler, BeginSweep(t)
      PROVE  TypeOK'
  BY <1>1, <1>2, <1>4, BeginType DEF BeginSweep, Thread
<1>5. ASSUME NEW t \in Ui, BeginClear(t) \/ BeginBuild(t)
      PROVE  TypeOK'
  BY <1>1, <1>2, <1>5, BeginType DEF BeginClear, BeginBuild, Thread
<1>6. QED
  BY <1>3, <1>4, <1>5 DEF Call

LEMMA CallBegins ==
    ASSUME Call
    PROVE  \E t \in Thread, step \in {"lock_insert", "lock_clear", "lock_sweep", "lock_build"} :
               \E x, time : /\ Begin(t, step, x, time)
                            /\ step = "lock_sweep" => time = now
<1>1. ASSUME NEW t \in Handler, NEW x, NEW life, BeginInsert(t, x, life)
      PROVE  Begin(t, "lock_insert", x, now + life) /\ t \in Thread
  BY <1>1 DEF BeginInsert, Thread
<1>2. ASSUME NEW t \in Handler, BeginSweep(t)
      PROVE  Begin(t, "lock_sweep", NoArg.context, now) /\ t \in Thread
  BY <1>2 DEF BeginSweep, Thread
<1>3. ASSUME NEW t \in Ui, BeginClear(t)
      PROVE  Begin(t, "lock_clear", NoArg.context, 0) /\ t \in Thread
  BY <1>3 DEF BeginClear, Thread
<1>4. ASSUME NEW t \in Ui, BeginBuild(t)
      PROVE  Begin(t, "lock_build", NoArg.context, now) /\ t \in Thread
  BY <1>4 DEF BeginBuild, Thread
<1>5. "lock_insert" # "lock_sweep" /\ "lock_clear" # "lock_sweep" /\ "lock_build" # "lock_sweep"
  OBVIOUS
<1>6. QED
  BY <1>1, <1>2, <1>3, <1>4, <1>5, Zenon DEF Call

\* The steps that end the hold of the mutex around the entries.
LEMMA ReleaseType ==
    ASSUME TypeOK, NEW t \in Thread, NEW step \in Steps, Goto(t, step),
           inner' = Nobody, entries' \in Entries, window' \in Entries,
           arg' = [arg EXCEPT ![t] = NoArg],
           UNCHANGED <<clock, on_change, notifying, seen, view, history, ops>>
    PROVE  TypeOK'
<1>1. pc' \in [Thread -> Steps]
  BY GotoType
<1>2. arg' \in [Thread -> Arg]
  BY ArgType, NoArgType
<1>3. QED
  BY <1>1, <1>2 DEF TypeOK, clock, history

LEMMA ProceedType ==
    ASSUME TypeOK, NEW t \in Thread, Proceed(t)
    PROVE  TypeOK'
<1>1. /\ arg[t] \in Arg /\ arg[t].time \in Nat /\ arg[t].context \in Context
      /\ entries \in Entries /\ window \in Entries
      /\ now \in Nat /\ set_backs \in Nat
      /\ Empty \in Entries
  BY DEF TypeOK, Empty, Entries, Arg
<1>2. {"insert", "clear", "sweep", "build", "refresh", "notify", "idle", "callback",
       "lock_refresh", "show"} \subseteq Steps
  BY DEF Steps
<1>3. ActiveAt(arg[t].time) \in Entries
  BY <1>1, ActiveType
<1>4. ASSUME NEW waiting, NEW step \in Steps, LockInner(t, waiting, step)
      PROVE  TypeOK'
  <2>1. pc' \in [Thread -> Steps]
    BY <1>4, GotoType DEF LockInner
  <2>2. QED
    BY <1>4, <2>1 DEF TypeOK, LockInner, clock, history
<1>5. CASE Insert(t)
  <2>1. entries' \in Entries
    BY <1>1, <1>5 DEF Insert, Entries
  <2>2. QED
    BY <1>1, <1>2, <1>5, <2>1, ReleaseType DEF Insert
<1>6. ASSUME NEW step, NEW left \in Entries, Shrink(t, step, left)
      PROVE  TypeOK'
  BY <1>1, <1>2, <1>6, ReleaseType DEF Shrink
<1>7. CASE RemoveAll(t) \/ Sweep(t)
  BY <1>1, <1>3, <1>6, <1>7 DEF RemoveAll, Sweep
<1>8. CASE Build(t)
  BY <1>1, <1>2, <1>3, <1>8, ReleaseType DEF Build
<1>9. CASE Notify(t)
  <2>1. pc' \in [Thread -> Steps]
    BY <1>2, <1>9, GotoType DEF Notify
  <2>2. notifying' \in [Handle -> Thread \cup {Nobody}] /\ missed' \in BOOLEAN
    BY <1>9, HandleType DEF Notify, TypeOK
  <2>3. QED
    BY <1>9, <2>1, <2>2 DEF TypeOK, Notify, clock, history
<1>10. CASE Callback(t)
  <2>1. pc' \in [Thread -> Steps]
    BY <1>2, <1>10, GotoType DEF Callback
  <2>2. [arg[t] EXCEPT !.time = now, !.epoch = set_backs] \in Arg
    BY <1>1 DEF Arg
  <2>3. arg' = [arg EXCEPT ![t] = [arg[t] EXCEPT !.time = now, !.epoch = set_backs]]
    BY <1>10 DEF Callback
  <2>4. arg' \in [Thread -> Arg]
    BY <2>2, <2>3, ArgType
  <2>5. QED
    BY <1>10, <2>1, <2>4 DEF TypeOK, Callback, clock, history
<1>11. CASE Refresh(t)
  <2>1. pc' \in [Thread -> Steps]
    BY <1>2, <1>11, GotoType DEF Refresh
  <2>2. seen' \in [Thread -> Entries]
    BY <1>3, <1>11 DEF Refresh, TypeOK
  <2>3. taken' \in Arg
    BY <1>1, <1>11 DEF Refresh
  <2>4. QED
    BY <1>11, <2>1, <2>2, <2>3 DEF TypeOK, Refresh, clock
<1>12. CASE Show(t)
  <2>1. pc' \in [Thread -> Steps]
    BY <1>2, <1>12, GotoType DEF Show
  <2>2. seen' \in [Thread -> Entries] /\ view' \in Entries
    BY <1>1, <1>12 DEF Show, TypeOK
  <2>3. arg' \in [Thread -> Arg]
    BY <1>12, ArgType, NoArgType DEF Show
  <2>4. notifying' \in [Handle -> Thread \cup {Nobody}]
    BY <1>12, HandleType DEF Show, TypeOK
  <2>5. QED
    BY <1>12, <2>1, <2>2, <2>3, <2>4 DEF TypeOK, Show, clock, history
<1>13. QED
  BY <1>2, <1>4, <1>5, <1>7, <1>8, <1>9, <1>10, <1>11, <1>12 DEF Proceed

LEMMA StoreTypeInit == Init => TypeOK
<1> SUFFICES ASSUME Init PROVE TypeOK
  OBVIOUS
<1>1. Empty \in Entries /\ "idle" \in Steps
  BY DEF Empty, Entries, Steps
<1>2. /\ arg \in [Thread -> Arg]
      /\ seen \in [Thread -> Entries]
      /\ pc \in [Thread -> Steps]
  BY <1>1, NoArgType DEF Init
<1>3. /\ on_change \in [Handle -> BOOLEAN]
      /\ notifying \in [Handle -> Thread \cup {Nobody}]
  BY DEF Init
<1>4. QED
  BY <1>1, <1>2, <1>3, NoArgType DEF Init, TypeOK

LEMMA StoreTypeStep == TypeOK /\ [Next]_vars => TypeOK'
<1> SUFFICES ASSUME TypeOK, [Next]_vars PROVE TypeOK'
  OBVIOUS
<1>1. CASE UNCHANGED vars
  BY <1>1 DEF vars, clock, history, TypeOK
<1>2. CASE SetOnChange
  <2>1. on_change' \in [Handle -> BOOLEAN]
    BY <1>2 DEF SetOnChange, TypeOK
  <2>2. QED
    BY <1>2, <2>1 DEF SetOnChange, TypeOK, clock, history
<1>3. CASE Tick \/ SetBack
  <2>1. now' \in Nat /\ set_backs' \in Nat
    BY <1>3 DEF Tick, SetBack, TypeOK
  <2>2. QED
    BY <1>3, <2>1 DEF Tick, SetBack, TypeOK, history
<1>4. QED
  BY <1>1, <1>2, <1>3, CallType, ProceedType DEF Next

\* Every variable of the store keeps its type.
THEOREM StoreTypes == Spec => []TypeOK
<1>1. QED
  BY StoreTypeInit, StoreTypeStep, PTL DEF Spec
-----------------------------------------------------------------------------
\* The mutexes.

\* A step takes a mutex that nobody holds, gives one back, or does neither.
LEMMA MutexesMove ==
    ASSUME TypeOK, MutexesSound, NEW t \in Thread, NEW step \in Steps, Goto(t, step),
           \/ inner' = inner /\ (pc[t] \in Critical <=> step \in Critical)
           \/ inner = Nobody /\ inner' = t /\ step \in Critical
           \/ pc[t] \in Critical /\ inner' = Nobody /\ step \notin Critical,
           \/ notifying' = notifying /\ (pc[t] \in InCallback <=> step \in InCallback)
           \/ /\ notifying[HandleOf(t)] = Nobody /\ step \in InCallback
              /\ notifying' = [notifying EXCEPT ![HandleOf(t)] = t]
           \/ /\ pc[t] \in InCallback /\ step \notin InCallback
              /\ notifying' = [notifying EXCEPT ![HandleOf(t)] = Nobody]
    PROVE  MutexesSound'
<1>1. \A u \in Thread : pc'[u] = IF u = t THEN step ELSE pc[u]
  BY GotoType
<1>2. ASSUME NEW u \in Thread
      PROVE  pc'[u] \in Critical <=> inner' = u
  BY <1>1, Facts DEF MutexesSound
<1>3. ASSUME NEW u \in Thread
      PROVE  pc'[u] \in InCallback <=> notifying'[HandleOf(u)] = u
  <2>1. /\ pc[u] \in InCallback <=> notifying[HandleOf(u)] = u
        /\ pc[t] \in InCallback <=> notifying[HandleOf(t)] = t
    BY DEF MutexesSound
  <2>3. HandleOf(t) \in Handle /\ HandleOf(u) \in Handle
    BY HandleType
  <2>4. CASE notifying' = notifying /\ (pc[t] \in InCallback <=> step \in InCallback)
    BY <1>1, <2>1, <2>4
  <2>5. CASE /\ notifying[HandleOf(t)] = Nobody /\ step \in InCallback
             /\ notifying' = [notifying EXCEPT ![HandleOf(t)] = t]
    <3>1. notifying'[HandleOf(u)] =
              IF HandleOf(u) = HandleOf(t) THEN t ELSE notifying[HandleOf(u)]
      BY <2>3, <2>5 DEF TypeOK
    <3>2. QED
      BY <1>1, <2>1, <2>5, <3>1, Facts
  <2>6. CASE /\ pc[t] \in InCallback /\ step \notin InCallback
             /\ notifying' = [notifying EXCEPT ![HandleOf(t)] = Nobody]
    <3>1. notifying'[HandleOf(u)] =
              IF HandleOf(u) = HandleOf(t) THEN Nobody ELSE notifying[HandleOf(u)]
      BY <2>3, <2>6 DEF TypeOK
    <3>2. QED
      BY <1>1, <2>1, <2>6, <3>1, Facts
  <2>7. QED
    BY <2>4, <2>5, <2>6
<1>4. QED
  BY <1>2, <1>3 DEF MutexesSound

LEMMA MutexesProceed ==
    ASSUME TypeOK, MutexesSound, NEW t \in Thread, Proceed(t)
    PROVE  MutexesSound'
<1> USE DEF Steps, Critical, InCallback
<1>1. ASSUME NEW waiting \in {"lock_insert", "lock_clear", "lock_sweep", "lock_build"},
             NEW step \in {"insert", "clear", "sweep", "build"},
             LockInner(t, waiting, step)
      PROVE  MutexesSound'
  BY <1>1, MutexesMove DEF LockInner
<1>2. CASE LockInner(t, "lock_refresh", "refresh")
  BY <1>2, MutexesMove DEF LockInner
<1>3. CASE Insert(t) \/ Build(t)
  BY <1>3, MutexesMove DEF Insert, Build
<1>4. CASE RemoveAll(t) \/ Sweep(t)
  BY <1>4, MutexesMove DEF RemoveAll, Sweep, Shrink
<1>5. CASE Notify(t)
  BY <1>5, MutexesMove DEF Notify
<1>6. CASE Callback(t)
  BY <1>6, MutexesMove DEF Callback
<1>7. CASE Refresh(t)
  BY <1>7, MutexesMove DEF Refresh
<1>8. CASE Show(t)
  BY <1>8, MutexesMove DEF Show
<1>9. QED
  BY <1>1, <1>2, <1>3, <1>4, <1>5, <1>6, <1>7, <1>8 DEF Proceed

LEMMA MutexesStep == TypeOK /\ MutexesSound /\ [Next]_vars => MutexesSound'
<1> SUFFICES ASSUME TypeOK, MutexesSound, [Next]_vars PROVE MutexesSound'
  OBVIOUS
<1>1. CASE Call
  <2>1. \E t \in Thread, step \in {"lock_insert", "lock_clear", "lock_sweep", "lock_build"} :
            \E x, time : Begin(t, step, x, time)
    BY <1>1, CallBegins
  <2>2. QED
    BY <2>1, MutexesMove DEF Begin, Steps, Critical, InCallback
<1>2. CASE SetOnChange \/ Tick \/ SetBack \/ UNCHANGED vars
  BY <1>2 DEF SetOnChange, Tick, SetBack, vars, MutexesSound
<1>3. QED
  BY <1>1, <1>2, MutexesProceed DEF Next

\* However calls and callbacks interleave, each of the two kinds of mutex is
\* held by the thread that is between its lock and its release.
THEOREM MutexesHeld == Spec => []MutexesSound
<1>1. Init => MutexesSound
  BY Facts DEF Init, MutexesSound, Critical, InCallback, HandleOf, Handle
<1>2. QED
  BY <1>1, MutexesStep, StoreTypes, PTL DEF Spec
-----------------------------------------------------------------------------
\* The last snapshot.

LEMMA CloneStep == TypeOK /\ CloneSilent /\ [Next]_vars => CloneSilent'
<1> SUFFICES ASSUME TypeOK, CloneSilent, [Next]_vars PROVE CloneSilent'
  OBVIOUS
<1>1. "clone" \in Handle /\ "bridge" # "clone"
  BY DEF Handle
<1>2. ASSUME NEW t \in Thread, Proceed(t)
      PROVE  CloneSilent'
  <2>1. CASE UNCHANGED <<on_change, notifying>>
    BY <2>1 DEF CloneSilent
  <2>2. CASE Notify(t)
    BY <1>1, <2>2 DEF Notify, CloneSilent, TypeOK
  <2>3. CASE Show(t)
    BY <1>1, <2>3 DEF Show, CloneSilent, TypeOK
  <2>4. QED
    BY <1>2, <2>1, <2>2, <2>3 DEF Proceed, LockInner, Insert, RemoveAll, Sweep, Shrink,
                                  Build, Callback, Refresh
<1>3. CASE SetOnChange
  BY <1>1, <1>3 DEF SetOnChange, CloneSilent, TypeOK
<1>4. CASE Call \/ Tick \/ SetBack \/ UNCHANGED vars
  BY <1>4 DEF Call, BeginInsert, BeginClear, BeginSweep, BeginBuild, Begin, Tick, SetBack,
              vars, CloneSilent
<1>5. QED
  BY <1>2, <1>3, <1>4 DEF Next

\* Time passes, or the clock is set back and the set-back counted: a reading
\* is as much in the past as it was.
LEMMA PastStays ==
    ASSUME TypeOK, NEW reading \in Arg, Past(reading),
           \/ UNCHANGED clock
           \/ now' = now + 1 /\ set_backs' = set_backs
           \/ set_backs' = set_backs + 1
    PROVE  /\ reading.epoch <= set_backs'
           /\ reading.epoch = set_backs' => reading.time <= now'
<1>1. /\ now \in Nat /\ set_backs \in Nat
      /\ reading.epoch \in Nat /\ reading.time \in Nat
  BY DEF TypeOK, Arg
<1>2. QED
  BY <1>1 DEF Past, clock

Clocked == {"lock_sweep", "sweep", "lock_refresh", "refresh"}

\* The clock is read by a thread that goes to one of the steps that use it.
LEMMA ClocksMove ==
    ASSUME TypeOK, ClocksPast, NEW t \in Thread, NEW step \in Steps, Goto(t, step),
           UNCHANGED clock,
           \A u \in Thread \ {t} : arg'[u] = arg[u],
           \/ step \notin Clocked
           \/ arg'[t] = arg[t] /\ pc[t] \in Clocked
           \/ arg'[t].time = now /\ arg'[t].epoch = set_backs,
           taken' = taken \/ (taken' = arg[t] /\ pc[t] \in Clocked)
    PROVE  ClocksPast'
<1>1. \A u \in Thread : pc'[u] = IF u = t THEN step ELSE pc[u]
  BY GotoType
<1>2. now' = now /\ set_backs' = set_backs /\ now \in Nat /\ set_backs \in Nat
  BY DEF clock, TypeOK
<1>3. ASSUME NEW u \in Thread, pc'[u] \in Clocked
      PROVE  /\ arg'[u].epoch <= set_backs'
             /\ arg'[u].epoch = set_backs' => arg'[u].time <= now'
  BY <1>1, <1>2, <1>3 DEF ClocksPast, Clocked, Past
<1>4. /\ taken'.epoch <= set_backs'
      /\ taken'.epoch = set_backs' => taken'.time <= now'
  BY <1>2 DEF ClocksPast, Clocked, Past
<1>5. QED
  BY <1>3, <1>4 DEF ClocksPast, Clocked, Past

LEMMA ClocksProceed ==
    ASSUME TypeOK, ClocksPast, NEW t \in Thread, Proceed(t)
    PROVE  ClocksPast'
<1> USE DEF Steps, history
<1>1. CASE \/ LockInner(t, "lock_insert", "insert") \/ LockInner(t, "lock_clear", "clear")
           \/ LockInner(t, "lock_build", "build")
  BY <1>1, ClocksMove DEF LockInner, Clocked
<1>2. CASE LockInner(t, "lock_sweep", "sweep") \/ LockInner(t, "lock_refresh", "refresh")
  BY <1>2, ClocksMove DEF LockInner, Clocked
<1>3. CASE Insert(t) \/ RemoveAll(t) \/ Sweep(t) \/ Build(t) \/ Show(t)
  <2>1. arg' = [arg EXCEPT ![t] = NoArg] /\ UNCHANGED clock /\ taken' = taken
    BY <1>3 DEF Insert, RemoveAll, Sweep, Shrink, Build, Show
  <2>2. \E step \in {"notify", "idle"} : Goto(t, step)
    BY <1>3 DEF Insert, RemoveAll, Sweep, Shrink, Build, Show
  <2>3. \A u \in Thread \ {t} : arg'[u] = arg[u]
    BY <2>1 DEF TypeOK
  <2>4. QED
    BY <2>1, <2>2, <2>3, ClocksMove DEF Clocked
<1>4. CASE Callback(t)
  <2>1. /\ arg'[t].time = now /\ arg'[t].epoch = set_backs
        /\ \A u \in Thread \ {t} : arg'[u] = arg[u]
    BY <1>4 DEF Callback, TypeOK, Arg
  <2>2. QED
    BY <1>4, <2>1, ClocksMove DEF Callback
<1>5. CASE Notify(t)
  BY <1>5, ClocksMove DEF Notify, Clocked
<1>6. CASE Refresh(t)
  BY <1>6, ClocksMove DEF Refresh, Clocked
<1>7. QED
  BY <1>1, <1>2, <1>3, <1>4, <1>5, <1>6 DEF Proceed

LEMMA ClocksStep == TypeOK /\ ClocksPast /\ [Next]_vars => ClocksPast'
<1> SUFFICES ASSUME TypeOK, ClocksPast, [Next]_vars PROVE ClocksPast'
  OBVIOUS
<1>1. CASE Call
  <2>1. \E t \in Thread, step \in {"lock_insert", "lock_clear", "lock_sweep", "lock_build"} :
            \E x, time : /\ Begin(t, step, x, time)
                         /\ step = "lock_sweep" => time = now
    BY <1>1, CallBegins
  <2>2. ASSUME NEW t \in Thread, NEW x, NEW time,
               NEW step \in {"lock_insert", "lock_clear", "lock_sweep", "lock_build"},
               Begin(t, step, x, time), step = "lock_sweep" => time = now
        PROVE  ClocksPast'
    <3>1. /\ arg'[t].time = time /\ arg'[t].epoch = set_backs
          /\ \A u \in Thread \ {t} : arg'[u] = arg[u]
          /\ step \in Steps /\ UNCHANGED clock /\ taken' = taken /\ Goto(t, step)
      BY <2>2 DEF Begin, TypeOK, Steps, history
    <3>2. QED
      BY <2>2, <3>1, ClocksMove DEF Clocked
  <2>3. QED
    BY <2>1, <2>2
<1>2. CASE SetOnChange \/ Tick \/ SetBack \/ UNCHANGED vars
  <2>1. /\ UNCHANGED <<pc, arg, taken>>
        /\ \/ UNCHANGED clock
           \/ now' = now + 1 /\ set_backs' = set_backs
           \/ set_backs' = set_backs + 1
    BY <1>2 DEF SetOnChange, Tick, SetBack, vars, history, clock
  <2>2. taken \in Arg /\ \A t \in Thread : arg[t] \in Arg
    BY DEF TypeOK
  <2>3. ASSUME NEW t \in Thread, pc[t] \in Clocked
        PROVE  /\ arg[t].epoch <= set_backs'
               /\ arg[t].epoch = set_backs' => arg[t].time <= now'
    BY <2>1, <2>2, <2>3, PastStays DEF ClocksPast, Clocked
  <2>4. /\ taken.epoch <= set_backs'
        /\ taken.epoch = set_backs' => taken.time <= now'
    BY <2>1, <2>2, PastStays DEF ClocksPast
  <2>5. QED
    BY <2>1, <2>3, <2>4 DEF ClocksPast, Clocked, Past
<1>3. QED
  BY <1>1, <1>2, ClocksProceed DEF Next

\* Callbacks run one at a time.
LEMMA OneCallback ==
    ASSUME TypeOK, MutexesSound, CloneSilent,
           NEW t \in Thread, NEW u \in Thread, pc[t] \in InCallback, pc[u] \in InCallback
    PROVE  t = u
<1>1. notifying[HandleOf(t)] = t /\ notifying[HandleOf(u)] = u
  BY DEF MutexesSound
<1>2. HandleOf(t) = "bridge" /\ HandleOf(u) = "bridge"
  BY <1>1, Facts DEF CloneSilent, HandleOf
<1>3. QED
  BY <1>1, <1>2

\* A step that changes neither the entries nor what is to be shown.
LEMMA SnapshotRests ==
    ASSUME TypeOK, SnapshotCurrent, NEW t \in Thread, NEW step \in Steps, Goto(t, step),
           pc[t] # "show", step # "show",
           Pending(t) => step \in {"notify", "callback", "lock_refresh", "refresh"},
           UNCHANGED <<entries, history, view, seen>>
    PROVE  SnapshotCurrent'
<1>1. \A u \in Thread : pc'[u] = IF u = t THEN step ELSE pc[u]
  BY GotoType
<1>2. Snapshot' = Snapshot /\ missed' = missed
  BY DEF Snapshot, ActiveAt, history
<1>3. CASE \E u \in Thread : Pending(u)
  BY <1>1, <1>3 DEF Pending, SnapshotCurrent
<1>4. CASE \E u \in Thread : pc[u] = "show" /\ seen[u] = Snapshot
  BY <1>1, <1>2, <1>4 DEF SnapshotCurrent
<1>5. CASE (\A u \in Thread : pc[u] # "show") /\ view = Snapshot
  BY <1>1, <1>2, <1>5 DEF SnapshotCurrent
<1>6. QED
  BY <1>2, <1>3, <1>4, <1>5 DEF SnapshotCurrent

\* A snapshot shows what is active, as far as the clock it was taken with can
\* tell.
LEMMA SnapshotShows ==
    ASSUME TypeOK, ClocksPast
    PROVE  Current(Snapshot)
<1>1. /\ now \in Nat /\ set_backs \in Nat /\ taken.time \in Nat /\ taken.epoch \in Nat
      /\ \A x \in Context : entries[x] \in Nat
  BY DEF TypeOK, Entries, Arg
<1>2. Past(taken)
  BY DEF ClocksPast
<1>3. QED
  BY <1>1, <1>2 DEF Current, Snapshot, ActiveAt, Overtaken, Past

LEMMA SnapshotProceed ==
    ASSUME TypeOK, MutexesSound, CloneSilent, SnapshotCurrent,
           NEW t \in Thread, Proceed(t)
    PROVE  SnapshotCurrent'
<1> USE DEF Steps
<1>1. ASSUME NEW step \in {"notify", "callback"}, Goto(t, step)
      PROVE  SnapshotCurrent'
  BY <1>1, GotoType DEF Pending, SnapshotCurrent
<1>2. ASSUME NEW waiting \in {"lock_insert", "lock_clear", "lock_sweep", "lock_build",
                              "lock_refresh"},
             NEW step \in {"insert", "clear", "sweep", "build", "refresh"},
             LockInner(t, waiting, step), waiting = "lock_refresh" <=> step = "refresh"
      PROVE  SnapshotCurrent'
  BY <1>2, SnapshotRests DEF LockInner, Pending
<1>3. CASE Insert(t)
  BY <1>1, <1>3 DEF Insert
<1>4. CASE RemoveAll(t) \/ Sweep(t)
  <2>1. ASSUME NEW step \in {"clear", "sweep"}, NEW left, Shrink(t, step, left)
        PROVE  SnapshotCurrent'
    <3>1. CASE left # entries
      BY <1>1, <2>1, <3>1 DEF Shrink
    <3>2. CASE left = entries
      BY <2>1, <3>2, SnapshotRests DEF Shrink, Pending
    <3>3. QED
      BY <3>1, <3>2
  <2>2. QED
    BY <1>4, <2>1 DEF RemoveAll, Sweep
<1>5. CASE Build(t)
  BY <1>5, SnapshotRests DEF Build, Pending
<1>6. CASE Notify(t)
  <2>1. CASE Goto(t, "callback")
    BY <1>1, <2>1
  <2>2. CASE missed' = TRUE
    BY <2>2 DEF SnapshotCurrent
  <2>3. QED
    BY <1>6, <2>1, <2>2 DEF Notify
<1>7. CASE Callback(t)
  <2>1. pc'[t] = "lock_refresh"
    BY <1>7, GotoType DEF Callback
  <2>2. QED
    BY <2>1 DEF Pending, SnapshotCurrent
<1>8. CASE Refresh(t)
  <2>1. /\ pc'[t] = "show" /\ seen'[t] = ActiveAt(arg[t].time)
        /\ entries' = entries /\ taken' = arg[t]
    BY <1>8, GotoType DEF Refresh, TypeOK
  <2>2. seen'[t] = Snapshot'
    BY <2>1 DEF Snapshot, ActiveAt
  <2>3. QED
    BY <2>1, <2>2 DEF SnapshotCurrent
<1>9. CASE Show(t)
  <2>1. /\ pc[t] = "show" /\ \A u \in Thread : pc'[u] = IF u = t THEN "idle" ELSE pc[u]
        /\ view' = seen[t] /\ missed' = missed
    BY <1>9, GotoType DEF Show, history
  <2>2. \A u \in Thread : pc[u] = "show" => u = t
    BY <2>1, OneCallback DEF InCallback
  <2>3. CASE missed
    BY <2>1, <2>3 DEF SnapshotCurrent
  <2>4. CASE \E u \in Thread : Pending(u)
    BY <2>1, <2>4 DEF Pending, SnapshotCurrent
  <2>5. CASE seen[t] = Snapshot
    <3>1. Snapshot' = Snapshot
      BY <1>9 DEF Show, Snapshot, ActiveAt, history
    <3>2. \A u \in Thread : pc'[u] # "show"
      BY <2>1, <2>2
    <3>3. QED
      BY <2>1, <2>5, <3>1, <3>2 DEF SnapshotCurrent
  <2>6. QED
    BY <2>1, <2>2, <2>3, <2>4, <2>5 DEF SnapshotCurrent
<1>10. QED
  BY <1>2, <1>3, <1>4, <1>5, <1>6, <1>7, <1>8, <1>9 DEF Proceed

LEMMA SnapshotStep ==
    ASSUME TypeOK, MutexesSound, CloneSilent, SnapshotCurrent, [Next]_vars
    PROVE  SnapshotCurrent'
<1>1. CASE Call
  <2>1. \E t \in Thread, step \in {"lock_insert", "lock_clear", "lock_sweep", "lock_build"} :
            \E x, time : Begin(t, step, x, time)
    BY <1>1, CallBegins
  <2>2. QED
    BY <2>1, SnapshotRests DEF Begin, Steps, Pending
<1>2. CASE SetOnChange \/ Tick \/ SetBack \/ UNCHANGED vars
  <2>1. UNCHANGED <<pc, entries, seen, view, taken, missed>>
    BY <1>2 DEF SetOnChange, Tick, SetBack, vars, history
  <2>2. QED
    BY <2>1 DEF SnapshotCurrent, Pending, Snapshot, ActiveAt
<1>3. QED
  BY <1>1, <1>2, SnapshotProceed DEF Next

\* The inductive invariant of the store.
THEOREM StoreInvariant == Spec => []StoreInv
<1>1. Init => CloneSilent /\ ClocksPast /\ SnapshotCurrent
  <2> SUFFICES ASSUME Init PROVE CloneSilent /\ ClocksPast /\ SnapshotCurrent
    OBVIOUS
  <2>1. Snapshot = Empty
    BY DEF Init, Snapshot, ActiveAt, Empty, NoArg
  <2>2. CloneSilent
    BY DEF Init, CloneSilent, Handle
  <2>3. ClocksPast
    BY DEF Init, ClocksPast, Past, NoArg
  <2>4. SnapshotCurrent
    BY <2>1 DEF Init, SnapshotCurrent
  <2>5. QED
    BY <2>2, <2>3, <2>4
<1>2. TypeOK /\ StoreInv /\ [Next]_vars => (CloneSilent /\ ClocksPast /\ SnapshotCurrent)'
  BY CloneStep, ClocksStep, SnapshotStep DEF StoreInv
<1>3. StoreInv <=> MutexesSound /\ CloneSilent /\ ClocksPast /\ SnapshotCurrent
  BY DEF StoreInv
<1>4. QED
  BY <1>1, <1>2, <1>3, MutexesHeld, StoreTypes, PTL DEF Spec

\* When no call is under way the view shows the store, as far as the clock it
\* was taken with can tell, unless a change went through a handle without
\* callback.
THEOREM ViewIsCurrent == Spec => []ViewCurrent
<1>1. TypeOK /\ StoreInv => ViewCurrent
  BY SnapshotShows DEF StoreInv, SnapshotCurrent, Pending, ViewCurrent
<1>2. QED
  BY <1>1, StoreTypes, StoreInvariant, PTL

\* A sweep removes a credential that is active when it takes place only if the
\* clock was set back after it was read, before the mutex was taken.
THEOREM SweepIsSafe == Spec => SweepSparesActive
<1>1. ASSUME TypeOK, StoreInv, [Next]_vars
      PROVE  [\A t \in Thread : pc[t] = "sweep" /\ pc'[t] # "sweep" =>
                  \A x \in Context :
                      entries[x] > now =>
                          entries'[x] = entries[x] \/ Overtaken(arg[t], x)]_vars
  <2> SUFFICES ASSUME Next, NEW t \in Thread, pc[t] = "sweep", pc'[t] # "sweep"
               PROVE  \A x \in Context :
                          entries[x] > now =>
                              entries'[x] = entries[x] \/ Overtaken(arg[t], x)
    BY <1>1
  <2>1. Proceed(t)
    <3>1. ASSUME NEW u \in Thread, u # t, Proceed(u)
          PROVE  FALSE
      <4>1. \E step : Goto(u, step)
        BY <3>1 DEF Proceed, LockInner, Insert, RemoveAll, Sweep, Shrink, Build, Notify,
                    Callback, Refresh, Show
      <4>2. QED
        BY <1>1, <3>1, <4>1 DEF Goto, TypeOK
    <3>2. CASE Call
      <4>1. \E u \in Thread : pc[u] = "idle" /\ \E step : Goto(u, step)
        BY <3>2 DEF Call, BeginInsert, BeginClear, BeginSweep, BeginBuild, Begin, Thread
      <4>2. QED
        BY <1>1, <4>1 DEF Goto, TypeOK
    <3>3. QED
      BY <3>1, <3>2 DEF Next, SetOnChange, Tick, SetBack
  <2>2. Sweep(t)
    BY <2>1 DEF Proceed, LockInner, Insert, RemoveAll, Shrink, Build, Notify, Callback,
                Refresh, Show
  <2>3. now \in Nat /\ arg[t].time \in Nat /\ \A x \in Context : entries[x] \in Nat
    BY <1>1 DEF TypeOK, Entries, Arg
  <2>4. arg[t].epoch = set_backs => arg[t].time <= now
    BY <1>1 DEF StoreInv, ClocksPast, Past
  <2>5. QED
    BY <2>2, <2>3, <2>4 DEF Sweep, Shrink, ActiveAt, Overtaken
<1>2. QED
  BY <1>1, StoreInvariant, StoreTypes, PTL DEF Spec, SweepSparesActive

-----------------------------------------------------------------------------
\* Waiting.

LEMMA OwnStep == TypeOK /\ OwnCallback /\ [Next]_vars => OwnCallback'
<1> SUFFICES ASSUME TypeOK, OwnCallback, [Next]_vars PROVE OwnCallback'
  OBVIOUS
<1>1. CASE UNCHANGED notifying
  BY <1>1 DEF OwnCallback
<1>2. ASSUME NEW t \in Thread, Notify(t), ~UNCHANGED notifying
      PROVE  OwnCallback'
  <2>1. notifying' = [notifying EXCEPT ![HandleOf(t)] = t] /\ HandleOf(t) \in Handle
    BY <1>2, HandleType DEF Notify
  <2>2. QED
    BY <2>1 DEF OwnCallback, TypeOK
<1>3. ASSUME NEW t \in Thread, Show(t)
      PROVE  OwnCallback'
  <2>1. notifying' = [notifying EXCEPT ![HandleOf(t)] = Nobody] /\ HandleOf(t) \in Handle
    BY <1>3, HandleType DEF Show
  <2>2. QED
    BY <2>1 DEF OwnCallback, TypeOK
<1>4. ASSUME NEW t \in Thread, Proceed(t)
      PROVE  UNCHANGED notifying \/ Notify(t) \/ Show(t)
  BY <1>4 DEF Proceed, LockInner, Insert, RemoveAll, Sweep, Shrink, Build, Callback, Refresh
<1>5. CASE Call \/ SetOnChange \/ Tick \/ SetBack \/ UNCHANGED vars
  BY <1>1, <1>5 DEF Call, BeginInsert, BeginClear, BeginSweep, BeginBuild, Begin,
                    SetOnChange, Tick, SetBack, vars
<1>6. QED
  BY <1>1, <1>2, <1>3, <1>4, <1>5 DEF Next

LEMMA HolderMoves ==
    ASSUME TypeOK, MutexesSound, inner # Nobody
    PROVE  inner \in Thread /\ pc[inner] # "idle" /\ ~Blocked(inner)
<1>1. inner \in Thread
  BY DEF TypeOK
<1>2. pc[inner] \in Critical
  BY <1>1 DEF MutexesSound
<1>3. QED
  BY <1>1, <1>2 DEF Critical, Blocked

LEMMA NotifierMoves ==
    ASSUME TypeOK, MutexesSound, OwnCallback, inner = Nobody,
           NEW h \in Handle, notifying[h] # Nobody
    PROVE  \E u \in Thread : pc[u] # "idle" /\ ~Blocked(u)
<1>1. PICK u \in Thread : notifying[h] = u
  BY DEF TypeOK
<1>2. pc[u] \in InCallback
  <2>1. HandleOf(u) = h
    BY <1>1 DEF OwnCallback
  <2>2. QED
    BY <1>1, <2>1 DEF MutexesSound
<1>3. QED
  BY <1>1, <1>2 DEF InCallback, Blocked

\* No circle of threads waits for the two kinds of mutex: who holds the one
\* around the entries waits for nothing, and who runs a callback waits for no
\* more than that one.
THEOREM NobodyStuck == Spec => []NoDeadlock
<1>1. TypeOK /\ MutexesSound /\ OwnCallback => NoDeadlock
  <2> SUFFICES ASSUME TypeOK, MutexesSound, OwnCallback, NEW t \in Thread, pc[t] # "idle"
               PROVE  \E u \in Thread : pc[u] # "idle" /\ ~Blocked(u)
    BY DEF NoDeadlock
  <2>1. CASE inner # Nobody
    BY <2>1, HolderMoves
  <2>2. CASE inner = Nobody /\ notifying[HandleOf(t)] # Nobody
    BY <2>2, HandleType, NotifierMoves
  <2>3. CASE inner = Nobody /\ notifying[HandleOf(t)] = Nobody
    BY <2>3 DEF Blocked
  <2>4. QED
    BY <2>1, <2>2, <2>3
<1>2. Init => OwnCallback
  BY DEF Init, OwnCallback
<1>3. QED
  BY <1>1, <1>2, OwnStep, StoreTypes, MutexesHeld, PTL DEF Spec
-----------------------------------------------------------------------------
\* The steps a call has yet to take, at most.
StepsLeft(p) ==
    CASE p = "idle" -> 0 [] p \in {"show", "build"} -> 1
      [] p \in {"refresh", "lock_build"} -> 2 [] p = "lock_refresh" -> 3
      [] p = "callback" -> 4 [] p = "notify" -> 5
      [] p \in {"insert", "clear", "sweep"} -> 6
      [] p \in {"lock_insert", "lock_clear", "lock_sweep"} -> 7

\* Once begun, a call moves in one direction only.
CallsBounded ==
    [][\A t \in Thread :
          pc[t] # "idle" /\ pc'[t] # pc[t] => StepsLeft(pc'[t]) < StepsLeft(pc[t])]_vars

LEMMA StepsLeftIs ==
    /\ StepsLeft("idle") = 0 /\ StepsLeft("show") = 1 /\ StepsLeft("build") = 1
    /\ StepsLeft("refresh") = 2 /\ StepsLeft("lock_build") = 2
    /\ StepsLeft("lock_refresh") = 3 /\ StepsLeft("callback") = 4 /\ StepsLeft("notify") = 5
    /\ \A p \in {"insert", "clear", "sweep"} : StepsLeft(p) = 6
    /\ \A p \in {"lock_insert", "lock_clear", "lock_sweep"} : StepsLeft(p) = 7
BY DEF StepsLeft

LEMMA StepsProceed ==
    ASSUME TypeOK, NEW t \in Thread, Proceed(t)
    PROVE  /\ StepsLeft(pc'[t]) < StepsLeft(pc[t])
           /\ \A u \in Thread \ {t} : pc'[u] = pc[u]
<1>1. ASSUME NEW p, NEW q, pc[t] = p, Goto(t, q), StepsLeft(q) < StepsLeft(p)
      PROVE  /\ StepsLeft(pc'[t]) < StepsLeft(pc[t])
             /\ \A u \in Thread \ {t} : pc'[u] = pc[u]
  BY <1>1 DEF TypeOK, Goto
<1>2. CASE \/ LockInner(t, "lock_insert", "insert") \/ LockInner(t, "lock_clear", "clear")
           \/ LockInner(t, "lock_sweep", "sweep") \/ LockInner(t, "lock_build", "build")
           \/ LockInner(t, "lock_refresh", "refresh")
  BY <1>1, <1>2, StepsLeftIs DEF LockInner
<1>3. CASE Insert(t) \/ RemoveAll(t) \/ Sweep(t)
  BY <1>1, <1>3, StepsLeftIs DEF Insert, RemoveAll, Sweep, Shrink
<1>4. CASE Notify(t)
  BY <1>1, <1>4, StepsLeftIs DEF Notify
<1>5. CASE Callback(t) \/ Refresh(t) \/ Show(t) \/ Build(t)
  BY <1>1, <1>5, StepsLeftIs DEF Callback, Refresh, Show, Build
<1>6. QED
  BY <1>2, <1>3, <1>4, <1>5 DEF Proceed

\* A call that has begun is never sent back: each of its steps brings it nearer to its
\* return and nothing else moves it, so that it takes at most seven, whatever the other
\* threads do meanwhile.
THEOREM CallsEnd == Spec => CallsBounded
<1>1. TypeOK /\ [Next]_vars =>
        [\A t \in Thread :
            pc[t] # "idle" /\ pc'[t] # pc[t] => StepsLeft(pc'[t]) < StepsLeft(pc[t])]_vars
  <2> SUFFICES ASSUME TypeOK, Next, NEW t \in Thread, pc[t] # "idle", pc'[t] # pc[t]
               PROVE  StepsLeft(pc'[t]) < StepsLeft(pc[t])
    OBVIOUS
  <2>1. ASSUME NEW u \in Thread, Proceed(u)
        PROVE  StepsLeft(pc'[t]) < StepsLeft(pc[t])
    BY <2>1, StepsProceed
  <2>2. ~Call
    <3>1. Call => \E u \in Thread : pc[u] = "idle" /\ \E step : Goto(u, step)
      BY DEF Call, BeginInsert, BeginClear, BeginSweep, BeginBuild, Begin, Thread
    <3>2. QED
      BY <3>1 DEF Goto, TypeOK
  <2>3. QED
    BY <2>1, <2>2 DEF Next, SetOnChange, Tick, SetBack
<1>2. QED
  BY <1>1, StoreTypes, PTL DEF Spec, CallsBounded
=============================================================================
