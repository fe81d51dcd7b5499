-------------------------- MODULE EphemeralStore ---------------------------
(***************************************************************************)
(* The credential store (credentials.rs) under its two kinds of mutex: one *)
(* around the entries, shared by every clone of the store, and one around  *)
(* the on_change callback, which each clone has for itself and which is    *)
(* held while the callback runs.  Connection handlers use the bridge's     *)
(* store; the window and the tray use clones, which start with no callback.*)
(*                                                                         *)
(* The callback is supplied by the embedder.  It is modelled as one that   *)
(* refreshes a view: it takes active_entries() and then shows them.        *)
(***************************************************************************)
EXTENDS Integers

CONSTANTS
    Handler,        \* threads that use the bridge's store
    Ui,             \* threads that use a clone of it
    Nobody,         \* a mutex nobody holds
    Context,
    Lifetime,       \* lifetimes of credentials, in seconds
    MaxOps, Horizon,    \* bounds: operations begun, seconds
    MaxSetBacks         \* bound: corrections that set the wall clock back

ASSUME StoreAssumption ==
    /\ Handler \cap Ui = {} /\ Nobody \notin Handler \cup Ui
    /\ Context # {}
    /\ Lifetime \subseteq Nat \ {0}
    /\ {MaxOps, Horizon, MaxSetBacks} \subseteq Nat

VARIABLES
    now,            \* Utc::now(), the wall clock
    set_backs,      \* how often it has been set back
    entries,        \* StoreInner.entries: expiry by context, 0 when absent
    inner,          \* holder of the mutex around the entries
    on_change,      \* has this handle a callback?
    notifying,      \* holder of the mutex around the callback of a handle
    pc,             \* step of each thread
    arg,            \* what to insert, or the clock as it was read
    seen,           \* what active_entries() returned to a callback
    view,           \* what the callback shows
    window,         \* what build_credentials shows
    taken,          \* history: the clock a callback read for the last snapshot
    missed,         \* history: a change since the last snapshot had no callback
    ops             \* operations begun

clock == <<now, set_backs>>
history == <<taken, missed>>

vars == <<clock, entries, inner, on_change, notifying, pc, arg, seen, view,
          window, history, ops>>

Thread == Handler \cup Ui
Handle == {"bridge", "clone"}
HandleOf(t) == IF t \in Ui THEN "clone" ELSE "bridge"

Entries == [Context -> Nat]
Empty == [x \in Context |-> 0]
\* A time, with the number of set-backs before the clock was read for it.
Arg == [context : Context, time : Nat, epoch : Nat]
NoArg == [context |-> CHOOSE x \in Context : TRUE, time |-> 0, epoch |-> 0]

Steps == {"idle", "lock_insert", "insert", "lock_clear", "clear", "lock_sweep",
          "sweep", "notify", "callback", "lock_refresh", "refresh", "show",
          "lock_build", "build"}

\* The steps between lock() and the drop of the guard around the entries.
Critical == {"insert", "clear", "sweep", "refresh", "build"}
\* The steps during which notify() holds the callback's mutex.
InCallback == {"callback", "lock_refresh", "refresh", "show"}

TypeOK ==
    /\ now \in Nat /\ set_backs \in Nat /\ ops \in Nat
    /\ entries \in Entries /\ view \in Entries /\ window \in Entries
    /\ inner \in Thread \cup {Nobody}
    /\ on_change \in [Handle -> BOOLEAN]
    /\ notifying \in [Handle -> Thread \cup {Nobody}]
    /\ pc \in [Thread -> Steps]
    /\ arg \in [Thread -> Arg]
    /\ seen \in [Thread -> Entries]
    /\ taken \in Arg /\ missed \in BOOLEAN

Init ==
    /\ now = 0 /\ set_backs = 0 /\ ops = 0
    /\ entries = Empty /\ view = Empty /\ window = Empty
    /\ inner = Nobody
    /\ on_change = [h \in Handle |-> FALSE]
    /\ notifying = [h \in Handle |-> Nobody]
    /\ pc = [t \in Thread |-> "idle"]
    /\ arg = [t \in Thread |-> NoArg]
    /\ seen = [t \in Thread |-> Empty]
    /\ taken = NoArg /\ missed = FALSE
-----------------------------------------------------------------------------
Goto(t, step) == pc' = [pc EXCEPT ![t] = step]

\* A call begins; sweep and active_entries read the clock before they lock.
Begin(t, step, x, time) ==
    /\ pc[t] = "idle"
    /\ ops < MaxOps
    /\ ops' = ops + 1
    /\ arg' = [arg EXCEPT ![t] = [context |-> x, time |-> time, epoch |-> set_backs]]
    /\ Goto(t, step)
    /\ UNCHANGED <<clock, entries, inner, on_change, notifying, seen, view,
                   window, history>>

BeginInsert(t, x, life) == Begin(t, "lock_insert", x, now + life)
BeginClear(t) == Begin(t, "lock_clear", NoArg.context, 0)
BeginSweep(t) == Begin(t, "lock_sweep", NoArg.context, now)
\* The application is activated: a window is built.
BeginBuild(t) == Begin(t, "lock_build", NoArg.context, now)

\* inner.lock(): blocks while another thread holds it.
LockInner(t, waiting, step) ==
    /\ pc[t] = waiting
    /\ inner = Nobody
    /\ inner' = t
    /\ Goto(t, step)
    /\ UNCHANGED <<clock, entries, on_change, notifying, arg, seen, view, window,
                   history, ops>>

\* insert: the entry goes in, the guard is dropped, then notify().
Insert(t) ==
    /\ pc[t] = "insert"
    /\ entries' = [entries EXCEPT ![arg[t].context] = arg[t].time]
    /\ inner' = Nobody
    /\ arg' = [arg EXCEPT ![t] = NoArg]
    /\ Goto(t, "notify")
    /\ UNCHANGED <<clock, on_change, notifying, seen, view, window, history, ops>>

\* remove_all and sweep: drop the guard, and notify() if something went.
Shrink(t, step, left) ==
    /\ pc[t] = step
    /\ entries' = left
    /\ inner' = Nobody
    /\ arg' = [arg EXCEPT ![t] = NoArg]
    /\ Goto(t, IF left # entries THEN "notify" ELSE "idle")
    /\ UNCHANGED <<clock, on_change, notifying, seen, view, window, history, ops>>

\* Mutation: remaining lifetimes, with no test whether any is left.
RemainingAt(time) == [x \in Context |-> entries[x] - time]

\* The entries that outlive a given time.
ActiveAt(time) == [x \in Context |-> IF entries[x] > time THEN entries[x] ELSE 0]

\* Mutation: the last second of every credential is swept away.
SweepEarly(t) == Shrink(t, "sweep", ActiveAt(arg[t].time + 1))

\* Mutation: sweep does not drop the guard before notify(), so that the
\* callback finds it held.
SweepKeepsGuard(t) ==
    LET left == ActiveAt(arg[t].time) IN
    IF left # entries /\ on_change[HandleOf(t)]
    THEN /\ pc[t] = "sweep"
         /\ entries' = left
         /\ arg' = [arg EXCEPT ![t] = NoArg]
         /\ Goto(t, "notify")
         /\ UNCHANGED <<clock, inner, on_change, notifying, seen, view, window, history, ops>>
    ELSE Shrink(t, "sweep", left)

RemoveAll(t) == Shrink(t, "clear", Empty)
Sweep(t) == Shrink(t, "sweep", ActiveAt(arg[t].time))

\* Mutation: the callback is copied out of its mutex and called without it.
NotifyUnlocked(t) ==
    /\ pc[t] = "notify"
    /\ Goto(t, IF on_change[HandleOf(t)] THEN "callback" ELSE "idle")
    /\ missed' = (missed \/ ~on_change[HandleOf(t)])
    /\ UNCHANGED <<clock, entries, inner, on_change, notifying, arg, seen, view,
                   window, taken, ops>>

\* notify(): the callback's mutex is taken and, if there is a callback, held.
Notify(t) ==
    LET h == HandleOf(t) IN
    /\ pc[t] = "notify"
    /\ notifying[h] = Nobody
    /\ IF on_change[h]
       THEN /\ notifying' = [notifying EXCEPT ![h] = t]
            /\ Goto(t, "callback")
            /\ UNCHANGED missed
       ELSE /\ Goto(t, "idle")
            /\ missed' = TRUE
            /\ UNCHANGED notifying
    /\ UNCHANGED <<clock, entries, inner, on_change, arg, seen, view, window,
                   taken, ops>>

\* The callback calls active_entries(): clock first, then the mutex.
Callback(t) ==
    /\ pc[t] = "callback"
    /\ arg' = [arg EXCEPT ![t] = [@ EXCEPT !.time = now, !.epoch = set_backs]]
    /\ Goto(t, "lock_refresh")
    /\ UNCHANGED <<clock, entries, inner, on_change, notifying, seen, view,
                   window, history, ops>>

Refresh(t) ==
    /\ pc[t] = "refresh"
    /\ seen' = [seen EXCEPT ![t] = ActiveAt(arg[t].time)]
    /\ inner' = Nobody
    /\ taken' = arg[t] /\ missed' = FALSE
    /\ Goto(t, "show")
    /\ UNCHANGED <<clock, entries, on_change, notifying, arg, view, window, ops>>

\* The callback shows what it got and returns; notify() lets its mutex go.
Show(t) ==
    /\ pc[t] = "show"
    /\ view' = seen[t]
    /\ seen' = [seen EXCEPT ![t] = Empty]
    /\ arg' = [arg EXCEPT ![t] = NoArg]
    /\ notifying' = [notifying EXCEPT ![HandleOf(t)] = Nobody]
    /\ Goto(t, "idle")
    /\ UNCHANGED <<clock, entries, inner, on_change, window, history, ops>>

\* build_credentials: the rows of a new window, never touched again.
Build(t) ==
    /\ pc[t] = "build"
    /\ window' = ActiveAt(arg[t].time)
    /\ inner' = Nobody
    /\ arg' = [arg EXCEPT ![t] = NoArg]
    /\ Goto(t, "idle")
    /\ UNCHANGED <<clock, entries, on_change, notifying, seen, view, history, ops>>

\* set_on_change on the bridge's store: waits for a callback that is running.
SetOnChange ==
    /\ ~on_change["bridge"]
    /\ notifying["bridge"] = Nobody
    /\ on_change' = [on_change EXCEPT !["bridge"] = TRUE]
    /\ UNCHANGED <<clock, entries, inner, notifying, pc, arg, seen, view, window,
                   history, ops>>

Tick ==
    /\ now < Horizon
    /\ now' = now + 1
    /\ UNCHANGED <<set_backs, entries, inner, on_change, notifying, pc, arg, seen, view,
                   window, history, ops>>

\* The wall clock is corrected.
SetBack ==
    /\ set_backs < MaxSetBacks
    /\ \E time \in 0..now : time < now /\ now' = time
    /\ set_backs' = set_backs + 1
    /\ UNCHANGED <<entries, inner, on_change, notifying, pc, arg, seen, view,
                   window, history, ops>>

\* What a thread does once its call has begun.
Proceed(t) ==
    \/ LockInner(t, "lock_insert", "insert") \/ Insert(t)
    \/ LockInner(t, "lock_clear", "clear") \/ RemoveAll(t)
    \/ LockInner(t, "lock_sweep", "sweep") \/ Sweep(t)
    \/ LockInner(t, "lock_build", "build") \/ Build(t)
    \/ Notify(t) \/ Callback(t)
    \/ LockInner(t, "lock_refresh", "refresh") \/ Refresh(t)
    \/ Show(t)

\* What the threads call.  Nothing in the program calls sweep or set_on_change;
\* they are part of the store's interface.
Call ==
    \/ \E t \in Handler, x \in Context, life \in Lifetime : BeginInsert(t, x, life)
    \/ \E t \in Handler : BeginSweep(t)
    \/ \E t \in Ui : BeginClear(t)
    \/ \E t \in Ui : BeginBuild(t)

Next ==
    \/ \E t \in Thread : Proceed(t)
    \/ Call
    \/ SetOnChange
    \/ Tick
    \/ SetBack

Spec == Init /\ [][Next]_vars

\* A thread that can move is scheduled.  Since calls are finitely many a mutex
\* is not kept from a waiting thread for ever, whoever is served first.
Fairness == \A t \in Thread : WF_vars(Proceed(t))

FairSpec == Spec /\ Fairness
-----------------------------------------------------------------------------
\* Each mutex is held by a thread that is between its lock and its release.
MutexesSound ==
    /\ \A t \in Thread : pc[t] \in Critical <=> inner = t
    /\ \A t \in Thread : pc[t] \in InCallback <=> notifying[HandleOf(t)] = t

\* The clock as it was read takes for expired what has not, because it has
\* been set back since.
Overtaken(reading, x) == reading.epoch # set_backs /\ entries[x] <= reading.time

\* The snapshot shows the entries that are active and no other than these,
\* except those that were expired before the clock was set back.
Current(snapshot) ==
    \A x \in Context :
        /\ entries[x] > now => snapshot[x] = entries[x] \/ Overtaken(taken, x)
        /\ snapshot[x] # 0 => snapshot[x] = entries[x]

\* When no call is under way, the view shows the store as it is, apart from
\* entries that have expired since and from those that were expired before a
\* set-back of the clock made them active again: unless a change went through
\* a handle that had no callback, as every change made by the window or the
\* tray does.
ViewCurrent == (\A t \in Thread : pc[t] = "idle") /\ ~missed => Current(view)

\* sweep(), though it decides with a clock it read before it had the mutex,
\* removes a credential that is active by then only if the clock has been set
\* back meanwhile, from a time at which that credential was expired.
SweepSparesActive ==
    [][\A t \in Thread : pc[t] = "sweep" /\ pc'[t] # "sweep" =>
          \A x \in Context :
              entries[x] > now => entries'[x] = entries[x] \/ Overtaken(arg[t], x)]_vars

\* Why the three above hold, made inductive.

\* The clones have no callback, so that all callbacks exclude each other.
CloneSilent == ~on_change["clone"] /\ notifying["clone"] = Nobody

\* A clock that was read to decide what has expired is not ahead of time,
\* unless it has been set back since.
Past(reading) ==
    /\ reading.epoch <= set_backs
    /\ reading.epoch = set_backs => reading.time <= now

ClocksPast ==
    /\ \A t \in Thread :
           pc[t] \in {"lock_sweep", "sweep", "lock_refresh", "refresh"} => Past(arg[t])
    /\ Past(taken)

\* Between notify() and the snapshot a new snapshot is still to come.
Pending(t) == pc[t] \in {"notify", "callback", "lock_refresh", "refresh"}

\* The store as it was at the time of the last snapshot.
Snapshot == ActiveAt(taken.time)

\* Unless a change was missed the last snapshot is still to come, or is about
\* to be shown, or is shown; and the entries are those it was taken of.
SnapshotCurrent ==
    \/ missed
    \/ \E t \in Thread : Pending(t)
    \/ \E t \in Thread : pc[t] = "show" /\ seen[t] = Snapshot
    \/ (\A t \in Thread : pc[t] # "show") /\ view = Snapshot

StoreInv == MutexesSound /\ CloneSilent /\ ClocksPast /\ SnapshotCurrent

\* The mutex of a callback is held by a thread that uses its handle.
OwnCallback == \A h \in Handle : notifying[h] # Nobody => HandleOf(notifying[h]) = h

\* A thread that another one has to let go on.
Blocked(t) ==
    \/ pc[t] \in {"lock_insert", "lock_clear", "lock_sweep", "lock_build", "lock_refresh"}
       /\ inner # Nobody
    \/ pc[t] = "notify" /\ notifying[HandleOf(t)] # Nobody

\* The two kinds of mutex are never waited for in a circle: as long as a call
\* is under way there is one whose thread is not kept waiting.
NoDeadlock ==
    (\E t \in Thread : pc[t] # "idle") => \E t \in Thread : pc[t] # "idle" /\ ~Blocked(t)

\* Every call returns: no thread waits for ever on the two kinds of mutex.
CallsReturn == \A t \in Thread : pc[t] # "idle" ~> pc[t] = "idle"

\* Captured credentials surface in the credentials view of the window: none
\* expires, with no call under way, that has not been shown there.
CredentialsSurface ==
    [][\A x \in Context :
          /\ \A t \in Thread : pc[t] = "idle"
          /\ entries[x] > now /\ entries[x] <= now'
          => window[x] = entries[x]]_vars
=============================================================================
