--------------------------------- MODULE Geo ---------------------------------
(***************************************************************************)
(* The geo engine (geo.rs) and its sources (geoclue.rs, geo_source.rs,     *)
(* FixedGeoSource), as the threads of several connections use them at      *)
(* once.  A thread reads the last fix, reads the clock and only then takes *)
(* the lock of the zones; a refresh stamps a fix and stores it later; the  *)
(* clock may be set back in between.  Distances are abstracted to the set  *)
(* of places a zone covers, Julian days to integers.                       *)
(***************************************************************************)
EXTENDS Integers, Sequences, FiniteSets, FiniteSetsExt

CONSTANTS
    Thread,                 \* connections, each with its thread
    Modes,                  \* values of BRIGHTNEXUS_GEO_SOURCE to consider
    Place,                  \* where the machine may be
    ZoneLists,              \* contents the zones may be given
    Polls,                  \* polls of GeoClue that fit in its 15 seconds
    None,                   \* Option::None
    MaxTime, MaxSetBacks, MaxEvents     \* bounds; the last of both histories

ASSUME GeoAssumption ==
    /\ {Polls, MaxTime, MaxSetBacks, MaxEvents} \subseteq Nat
    /\ \A zs \in ZoneLists :
        LET Names == {zs[i].name : i \in DOMAIN zs} IN
        /\ DOMAIN zs \subseteq Nat
        /\ \A i \in DOMAIN zs : zs[i].area \subseteq Place
        /\ None \notin Names \cup [name : Names, at : Nat]

VARIABLES
    source,             \* which source was selected at startup
    now, set_backs,     \* wall clock, and how often it was set back
    last_fix,           \* the source's fix
    zones,              \* what the zones lock protects
    zone_entered_at,    \* zone of the last answer and since when
    thread,             \* each thread's request and local variables
    stored,             \* history: the fixes stored by refreshes
    answers             \* history: what LINK_GEO_ZONE answered, in lock order

clock == <<now, set_backs>>
engine == <<last_fix, zones, zone_entered_at>>
history == <<stored, answers>>
vars == <<source, clock, engine, thread, history>>
-----------------------------------------------------------------------------
\* The source an environment and a build select.
SelectGeoSource(mode, built, available) ==
    CASE mode \in {"fixed", "ip"} -> mode
      [] mode = "geoclue" /\ built -> "geoclue"
      [] OTHER -> IF built /\ available THEN "geoclue" ELSE "ip"

\* A fix remembers, for the properties only, how often the clock had been set
\* back and how many fixes had been stored when its refresh began.
Fix(p, bd, sb, since) ==
    [place |-> p, brightdate |-> bd, set_backs |-> sb, since |-> since]

Idle == [at |-> "idle", cmd |-> "none", fix |-> None, bd |-> 0, epoch |-> 0,
         polls |-> 0, since |-> 0, began |-> 0]

ZonesAt(p) == {i \in DOMAIN zones : p \in zones[i].area}
-----------------------------------------------------------------------------
FixSet == [place : Place, brightdate : 0..MaxTime, set_backs : 0..MaxSetBacks,
           since : 0..MaxEvents]

TypeOK ==
    /\ source \in {"fixed", "ip", "geoclue"}
    /\ now \in 0..MaxTime /\ set_backs \in 0..MaxSetBacks
    /\ last_fix \in FixSet \cup {None}
    /\ zones \in ZoneLists
    /\ zone_entered_at = None \/ zone_entered_at.at \in 0..MaxTime
    /\ thread \in [Thread ->
            [at : {"idle", "fix", "clock", "decide", "connect", "poll", "sleep",
                   "stamp", "store", "hung"},
             cmd : {"none", "zone", "proximity", "get", "refresh"},
             fix : FixSet \cup {None}, bd : 0..MaxTime, epoch : 0..MaxSetBacks,
             polls : 0..Polls, since : 0..MaxEvents, began : 0..MaxEvents]]
    /\ stored \in Seq(FixSet) /\ Len(answers) <= MaxEvents

Init ==
    /\ \E mode \in Modes, built, available \in BOOLEAN :
            source = SelectGeoSource(mode, built, available)
    /\ now = 0 /\ set_backs = 0
    /\ last_fix \in IF source = "fixed" THEN {Fix(p, 0, 0, 0) : p \in Place}
                                        ELSE {None}
    /\ zones \in ZoneLists
    /\ zone_entered_at = None
    /\ thread = [t \in Thread |-> Idle]
    /\ stored = <<>> /\ answers = <<>>
-----------------------------------------------------------------------------
\* The wall clock goes on, or is corrected.
Tick ==
    /\ now < MaxTime
    /\ now' = now + 1
    /\ UNCHANGED <<source, set_backs, engine, thread, history>>

SetBack ==
    /\ now > 0 /\ set_backs < MaxSetBacks
    /\ now' \in 0..now - 1 /\ set_backs' = set_backs + 1
    /\ UNCHANGED <<source, engine, thread, history>>

\* load_zones_from_file and set_zones: a file that cannot be read or parsed
\* leaves the zones as they are.
LoadZones ==
    /\ zones' \in ZoneLists
    /\ UNCHANGED <<source, clock, last_fix, zone_entered_at, thread, history>>

\* The requests under way.
Busy == {t \in Thread : thread[t].at # "idle"}

\* A request arrives on t's connection.
Ask(t, cmd) ==
    /\ thread[t].at = "idle"
    /\ Len(stored) + Len(answers) + Cardinality(Busy) < MaxEvents
    /\ thread' = [thread EXCEPT
            ![t].at = IF cmd = "refresh" THEN "connect" ELSE "fix",
            ![t].cmd = cmd, ![t].since = Len(stored), ![t].began = Len(answers)]
    /\ UNCHANGED <<source, clock, engine, history>>

Done(t) == thread' = [thread EXCEPT ![t] = Idle]

\* current_fix(): without one, a zone is null, a proximity is an error, and
\* only LINK_GEO_GET looks for a fix.
CurrentFix(t) ==
    /\ thread[t].at = "fix"
    /\ CASE last_fix = None /\ thread[t].cmd = "get" ->
                thread' = [thread EXCEPT ![t].at = "connect"]
         [] last_fix # None /\ thread[t].cmd # "get" ->
                thread' = [thread EXCEPT ![t].fix = last_fix,
                    ![t].at = IF thread[t].cmd = "zone" THEN "clock" ELSE "decide"]
         [] OTHER -> Done(t)
    /\ UNCHANGED <<source, clock, engine, history>>

\* brightdate_now(), before the zones are locked.
ReadClock(t) ==
    /\ thread[t].at = "clock"
    /\ thread' = [thread EXCEPT ![t].at = "decide",
                                ![t].bd = now, ![t].epoch = set_backs]
    /\ UNCHANGED <<source, clock, engine, history>>

\* Mutation: the difference the wrong way round.
DwellSwapped(bd, entry) == entry.at - bd

\* The time since the zone was entered, in the units of the clock.
Dwell(bd, entry) == bd - entry.at

\* What t answers under the lock: zone, dwell and the entry it leaves.
Verdict(t) ==
    LET here == ZonesAt(thread[t].fix.place)
        name == zones[Min(here)].name
        bd == thread[t].bd
    IN  CASE here = {} -> [zone |-> None, dwell |-> 0, entered |-> None]
          [] here # {} /\ zone_entered_at # None /\ zone_entered_at.name = name ->
                [zone |-> name, dwell |-> Dwell(bd, zone_entered_at),
                 entered |-> zone_entered_at]
          [] OTHER -> [zone |-> name, dwell |-> 0,
                       entered |-> [name |-> name, at |-> bd]]

Answer(t, verdict) ==
    answers' = Append(answers,
        [zone |-> verdict.zone, dwell |-> verdict.dwell, bd |-> thread[t].bd,
         epoch |-> thread[t].epoch, began |-> thread[t].began,
         since |-> thread[t].since, fix |-> thread[t].fix])

\* Mutation: leaving every zone does not forget the zone left.
DecideKeepsEntry(t) ==
    /\ thread[t].at = "decide" /\ thread[t].cmd = "zone"
    /\ Answer(t, Verdict(t))
    /\ zone_entered_at' = IF Verdict(t).zone = None THEN zone_entered_at
                                                    ELSE Verdict(t).entered
    /\ Done(t)
    /\ UNCHANGED <<source, clock, last_fix, zones, stored>>

\* handle_zone from its lock on: the first zone that covers the fix.
DecideZone(t) ==
    /\ thread[t].at = "decide" /\ thread[t].cmd = "zone"
    /\ Answer(t, Verdict(t))
    /\ zone_entered_at' = Verdict(t).entered
    /\ Done(t)
    /\ UNCHANGED <<source, clock, last_fix, zones, stored>>

\* handle_proximity from its lock on: changes nothing.
DecideProximity(t) ==
    /\ thread[t].at = "decide" /\ thread[t].cmd = "proximity"
    /\ Done(t)
    /\ UNCHANGED <<source, clock, engine, history>>
-----------------------------------------------------------------------------
\* request_refresh() of the sources that keep no fix.
RefreshAtOnce(t) ==
    /\ thread[t].at = "connect" /\ source # "geoclue"
    /\ Done(t)
    /\ UNCHANGED <<source, clock, engine, history>>

\* fetch_from_geoclue() up to Start.
Connect(t) ==
    /\ thread[t].at = "connect" /\ source = "geoclue"
    /\ thread' = [thread EXCEPT ![t].at = "poll", ![t].since = Len(stored)]
    /\ UNCHANGED <<source, clock, engine, history>>

\* A D-Bus call fails, whichever.
RefreshFails(t) ==
    /\ thread[t].at \in {"connect", "stamp"} /\ source = "geoclue"
    /\ Done(t)
    /\ UNCHANGED <<source, clock, engine, history>>

\* A D-Bus call does not return: the calls have no deadline of their own and the
\* one the caller gives is not used.  The connection waits for ever, with no
\* lock held.
Hang(t) ==
    /\ thread[t].at \in {"connect", "poll", "stamp"} /\ source = "geoclue"
    /\ thread' = [thread EXCEPT ![t].at = "hung"]
    /\ UNCHANGED <<source, clock, engine, history>>

\* Mutation: the deadline is passed a poll late.
PollLate(t) ==
    /\ thread[t].at = "poll"
    /\ \/ thread' = [thread EXCEPT ![t].at = "stamp"]
       \/ thread[t].polls > Polls /\ Done(t)
       \/ thread[t].polls <= Polls /\ thread' = [thread EXCEPT ![t].at = "sleep"]
    /\ UNCHANGED <<source, clock, engine, history>>

\* wait_for_location: a location first, the deadline after it.
Poll(t) ==
    /\ thread[t].at = "poll"
    /\ \/ thread' = [thread EXCEPT ![t].at = "stamp"]
       \/ thread[t].polls >= Polls /\ Done(t)
       \/ thread[t].polls < Polls /\ thread' = [thread EXCEPT ![t].at = "sleep"]
    /\ UNCHANGED <<source, clock, engine, history>>

\* Mutation: the deadline is set anew in each round.
SleepRearms(t) ==
    /\ thread[t].at = "sleep"
    /\ thread' = [thread EXCEPT ![t].at = "poll", ![t].polls = 0]
    /\ UNCHANGED <<source, clock, engine, history>>

Sleep(t) ==
    /\ thread[t].at = "sleep"
    /\ thread' = [thread EXCEPT ![t].at = "poll", ![t].polls = @ + 1]
    /\ UNCHANGED <<source, clock, engine, history>>

\* Mutation: the fix bears the time at which GeoClue located the machine.
StampOfLocation(t) ==
    /\ thread[t].at = "stamp"
    /\ \E p \in Place, bd \in 0..now :
        thread' = [thread EXCEPT ![t].at = "store",
                                 ![t].fix = Fix(p, bd, set_backs, thread[t].since)]
    /\ UNCHANGED <<source, clock, engine, history>>

\* The location has been read; the fix bears the time at which it was.
Stamp(t) ==
    /\ thread[t].at = "stamp"
    /\ \E p \in Place :
        thread' = [thread EXCEPT ![t].at = "store",
                            ![t].fix = Fix(p, now, set_backs, thread[t].since)]
    /\ UNCHANGED <<source, clock, engine, history>>

\* The lock on last_fix comes after the refresh, and the answer with it.
Store(t) ==
    /\ thread[t].at = "store"
    /\ last_fix' = thread[t].fix
    /\ stored' = Append(stored, thread[t].fix)
    /\ Done(t)
    /\ UNCHANGED <<source, clock, zones, zone_entered_at, answers>>
-----------------------------------------------------------------------------
Serve(t) ==
    \/ CurrentFix(t) \/ ReadClock(t) \/ DecideZone(t) \/ DecideProximity(t)
    \/ RefreshAtOnce(t) \/ Connect(t) \/ RefreshFails(t)
    \/ Poll(t) \/ Sleep(t) \/ Stamp(t) \/ Store(t)

Next ==
    \/ Tick \/ SetBack \/ LoadZones
    \/ \E t \in Thread :
        \/ \E cmd \in {"zone", "proximity", "get", "refresh"} : Ask(t, cmd)
        \/ Serve(t) \/ Hang(t)

Spec == Init /\ [][Next]_vars

\* Threads are scheduled.  That a call to D-Bus returns is not assumed: instead
\* of the step that follows it, the thread may take Hang.
FairSpec == Spec /\ \A t \in Thread : WF_vars(Serve(t))
-----------------------------------------------------------------------------
\* The answers in a row, up to the j-th of s, that named j's zone, and the first.
Row(s, j) == {i \in 1..j : \A k \in i..j : s[k].zone = s[j].zone}

Entry(s, j) == Min(Row(s, j))

\* Whatever the connections do at once, the answers are explained by the order
\* in which they took the lock: a dwell is counted from the first answer of the
\* row that named the same zone (geo.rs, handle_zone).
DwellFromAnswers ==
    \A j \in DOMAIN answers :
        answers[j].zone # None =>
            answers[j].dwell = answers[j].bd - answers[Entry(answers, j)].bd

\* The clock is read before the lock is taken, so a dwell may be negative; only
\* to a request that began before the entry was answered, unless the clock was
\* set back in between.
NegativeDwellOverlaps ==
    \A j \in DOMAIN answers :
        answers[j].dwell < 0 => \/ answers[j].began < Entry(answers, j)
                                \/ answers[j].epoch # answers[Entry(answers, j)].epoch

\* A fix is stored after it was stamped, so a slower refresh may put an older
\* one in the place of a newer.  Still no answer rests on a fix older than one
\* stored before the request, unless the refresh it came from began before that
\* one was stored, or the clock was set back (geoclue.rs, request_refresh).
AnswersAreCurrent ==
    \A j \in DOMAIN answers : \A i \in 1..answers[j].since :
        LET fix == answers[j].fix IN
        \/ fix.brightdate >= stored[i].brightdate
        \/ fix.set_backs # stored[i].set_backs
        \/ fix.since < i

\* Every request is answered while GeoClue answers, however late the location
\* is: the polls of wait_for_location have a deadline.  A LINK_GEO_GET or
\* LINK_GEO_REFRESH whose D-Bus call never returns waits for ever, and no other
\* request waits with it, not even for the fix that call was to bring: no lock
\* is held across it (geoclue.rs, request_refresh).
Answered ==
    \A t \in Thread :
        thread[t].at # "idle" ~>
            \/ thread[t].at = "idle"
            \/ thread[t].at = "hung" /\ thread[t].cmd \in {"get", "refresh"}
-----------------------------------------------------------------------------
\* Why answers are current, made inductive.

AnyFix == [place : Place, brightdate : Int, set_backs : Int, since : Nat]

\* A fix was stamped before this moment, as far as the clock can tell.
StampedBefore(fix) ==
    /\ fix.set_backs <= set_backs
    /\ fix.set_backs = set_backs => fix.brightdate <= now

\* It is in order with all fixes that were stored before its refresh began.
InOrder(fix) ==
    /\ fix \in AnyFix
    /\ fix.since <= Len(stored)
    /\ \A i \in 1..fix.since :
           fix.brightdate >= stored[i].brightdate \/ fix.set_backs # stored[i].set_backs

ThreadOrdered(t) ==
    /\ thread[t].at \in {"poll", "sleep", "stamp"} => thread[t].since <= Len(stored)
    /\ thread[t].at \in {"clock", "decide"} => InOrder(thread[t].fix)
    /\ thread[t].at = "store" => InOrder(thread[t].fix) /\ StampedBefore(thread[t].fix)

\* So are the fix of the source, those the threads work with and those that
\* were answered.
FixesOrdered ==
    /\ \A i \in 1..Len(stored) : StampedBefore(stored[i])
    /\ last_fix # None => InOrder(last_fix)
    /\ \A t \in Thread : ThreadOrdered(t)
    /\ \A j \in 1..Len(answers) : InOrder(answers[j].fix)

\* Why dwell times are what they should be, made inductive.

\* What a thread or an answer says of the clock was read in the past,
ReadBefore(r, bd, epoch) ==
    /\ r.bd \in Nat /\ r.epoch \in Nat
    /\ r.epoch <= epoch
    /\ r.epoch = epoch => r.bd <= bd

\* and after all the answers that were given before its request began.
ReadAfter(r, s) ==
    /\ r.began \in 0..Len(s)
    /\ \A i \in 1..r.began : r.epoch = s[i].epoch => r.bd >= s[i].bd

ThreadRead(t) ==
    /\ thread[t].began \in 0..Len(answers)
    /\ thread[t].at = "decide" /\ thread[t].cmd = "zone" =>
           ReadBefore(thread[t], now, set_backs) /\ ReadAfter(thread[t], answers)

\* The entry is that of the last answer's row.
EntryKept ==
    IF zone_entered_at = None
    THEN answers # <<>> => answers[Len(answers)].zone = None
    ELSE /\ answers # <<>>
         /\ zone_entered_at.name = answers[Len(answers)].zone
         /\ zone_entered_at.at = answers[Entry(answers, Len(answers))].bd

DwellInv ==
    /\ zones \in ZoneLists
    /\ \A t \in Thread : ThreadRead(t)
    /\ \A j \in 1..Len(answers) :
        /\ ReadBefore(answers[j], now, set_backs) /\ ReadAfter(answers[j], answers)
        /\ answers[j].dwell = IF answers[j].zone = None THEN 0
                              ELSE answers[j].bd - answers[Entry(answers, j)].bd
    /\ EntryKept

\* Why the bounds hold, made inductive: every request under way may still be
\* answered, and none sleeps after its last poll.
WithinBounds ==
    /\ IsFiniteSet(Busy)
    /\ Len(stored) + Len(answers) + Cardinality(Busy) <= MaxEvents
    /\ \A t \in Thread :
        /\ thread[t].at = "sleep" => thread[t].polls < Polls
        /\ thread[t].at \in {"clock", "decide", "store"} => thread[t].fix \in FixSet
=============================================================================
