# BrightNexus for Linux: TLA+ models and proofs

BrightNexus is a bridge between local agents and the user: a daemon (or a GTK application with the
same core) that owns an ECIES key and a signing identity, accepts connections on a Unix socket,
establishes *BrightLink* sessions with the peers (`LINK_REGISTER`) and receives credentials sealed
under the session key (`LINK_DELIVER`).  This directory models the parts of it whose correctness
depends on order, concurrency, time, failure or the width of a number, checks the models with TLC and
proves theorems about them with TLAPS.  Source paths below are relative to `src/crates/`.

Contents: [1 The system](#1-the-system) · [2 What is hard](#2-what-is-hard) ·
[3 Modules](#3-modules) · [4 Runs](#4-runs) · [5 Fairness](#5-fairness) · [6 Proofs](#6-proofs) ·
[7 Where code and documents disagree](#7-where-code-and-documents-disagree) ·
[8 Not modelled](#8-not-modelled) · [9 What is left](#9-what-is-left)

## 1. The system

| Component | Source | State | Operations | Correct when |
|---|---|---|---|---|
| LINK sessions and delivery | `brightnexus-core/src/handler.rs`, `session.rs` | per connection: session (key, id, ttl, last counter), limiter, peer | `LINK_REGISTER`, `LINK_DELIVER`, `record_deliver_failure`, connect, drop; commands that only read | a message is accepted at most once, in order, under its own session; sessions end by expiry, lockout or hang-up; what is signed of a registration is what was tested |
| Delivery rate limiter | `credentials.rs` 151-180 | failures, start of the window | `reset`, `record_failure` | no session survives the threshold's number of failures in a window |
| Credential store | `credentials.rs` 25-117 | entries by context under a mutex; callback under another | `insert`, `remove_all`, `sweep`, `active_entries`, `set_on_change`, `clone` | no deadlock; the last notification shows the store as it is; live entries survive a sweep, unless the clock is set back under it |
| Policy, settings dialog | `policy.rs`, `brightnexus-gtk/src/settings.rs` | attestation mode and credential ceiling of the process | two setters, two getters | a saved setting takes effect at the next delivery at the latest |
| Window and tray | `brightnexus-gtk/src/app.rs`, `tray.rs` | a snapshot of the credentials | build, clear all | the user sees what is stored |
| Startup, keys, identities | `bridge.rs`, `paths.rs`, `ecies.rs`, `factory.rs`, `file_identity.rs`, `tpm2.rs`, both `main.rs` | key files, kind file, keyring | load or create, select, fall back | keys survive restarts, unless one cannot be read; required hardware is not traded away |
| Socket server | `socket.rs` | socket path; a byte buffer per connection | exists, remove, bind, chmod; accept, read, frame, answer | the path names a listener; every request is answered once, in order, before the thread waits for more |
| Geo engine | `geo.rs`, `geoclue.rs`, `geo_source.rs` | zones, dwell entry, last fix; access list | status, get, refresh, proximity, zone | dwell times follow the order of the answers; an older fix wins only over a refresh it overlaps; every request is answered, but one that GeoClue never answers |
| Peer attestation | `attestation.rs` | none of its own; it reads `/proc` and the package database | `attest_stream`, `lineage_pids`, `detect_ssh_session` | what it signs was true, while it looked, of a process with the peer's identifier (which may be used again); the walk to the ancestors ends |
| Cryptography and encodings | `crypto.rs`, `ecies.rs`, `session.rs` | none | AES-GCM, ECIES, key schedule, transcripts | the bytes that are authenticated determine the fields |

How they interact.  `main` selects an identity, builds a `Bridge` (keys, store, geo engine) and runs
the socket server, in the daemon on the main thread and in the application on a thread of its own.
Each accepted connection gets a thread, which attests the peer, cuts requests off the stream and
hands them to a `ConnectionHandler`; all handlers share the bridge's store, the geo engine and the
process-wide `POLICY`.  The application's main thread writes the policy from the settings dialog, and
reads and clears the store through a *clone* of it, which shares the entries but not the `on_change`
callback.  Daemon and application share files, keyring and socket path but no memory.

## 2. What is hard

`PROJECT.json` lists the hazards at their lines; in short:

* a request sent again, after failures, a lockout, a new registration or over another connection;
* a window of failures that tumbles instead of sliding;
* wall-clock expiry under a clock that is corrected; lifetimes and issue times chosen by the client,
  which are converted twice, count from another epoch than the clock they are compared with, and are
  subtracted where the difference may not fit;
* a policy read twice in one delivery and written twice by one dialog;
* callbacks run under a mutex, snapshots that overtake each other, clocks read before locks and set
  back before those are taken;
* two processes that create the same files, a death between the creation and the write, and a read
  error that is taken for a missing file;
* two instances that probe, remove and bind one socket path, and one that does so before it knows
  that it is not needed;
* requests that arrive in pieces or several at once, at a client that does not read its answers;
* dwell times measured between the answers of different connections, with a clock read before the
  lock; location refreshes that overtake each other, never hear of a location, or wait for a D-Bus
  call that never returns;
* process identifiers that are looked up after their process has gone or has become another;
* statements of variable length next to numbers under one authentication tag.

## 3. Modules

| Module | Models | Composition |
|---|---|---|
| `RateLimiter` | `DeliverRateLimiter` as operators on a record | extended by `Link` |
| `SealedChannel` | what a session promises: an abstract specification with three actions | implemented by `Link` |
| `Link` | connections, sessions, delivery, policy, settings dialog, clocks | `INSTANCE SealedChannel` |
| `LinkAudit` | `Link` with history variables that never restrict it | extends `Link` |
| `RegisterTime` | the numbers of `LINK_REGISTER` at the width and on the scale the code gives them | alone; `Link` uses mathematical integers and takes `issued_at_unix` as the handler has computed it, which this justifies for issue times in range |
| `Encoding` | what is signed, authenticated and sealed, as bytes | alone; `Link` takes messages as their fields, which it justifies |
| `EphemeralStore` | the store with its two mutexes, callbacks and clones, thread by thread | alone; `Link` uses `insert` and `remove_all` as atomic steps, which `MutexesSound` justifies |
| `Startup` | both `main` functions up to the listening socket, over shared files | alone |
| `RequestStream` | what a connection promises its client: an abstract specification | implemented by `Framing` |
| `Framing` | `serve_connection`, `extract_json_object` and the client at the other end | `INSTANCE RequestStream` |
| `Geo` | the `LINK_GEO` commands of concurrent connections, the three sources, GeoClue's deadline | alone |
| `Attestation` | `attest_stream`, `lineage_pids`, `detect_ssh_session` against a changing process table | alone; `Link` takes the outcome as `signature_valid` |
| `Link_proofs`, `LinkAudit_proofs`, `Session_proofs` (over `RegisterTime` and `Encoding`), `EphemeralStore_proofs`, `Startup_proofs`, `Framing_proofs`, `Geo_proofs`, `Attestation_proofs` | theorems | extend the module and `TLAPS` |
| `MCLink`, `MCLinkAudit`, `MCSession`, `MCEphemeralStore`, `MCStartup`, `MCFraming`, `MCGeo`, `MCAttestation` | instances for TLC | |

**Link.**  One variable per field the handlers keep (`session`, `limiter`, `signature_valid`), the
shared state (`policy`, `store`), two clocks (`wall`, `mono`: `SystemTime` and `Instant`) and `pc`,
the place of each connection's thread.  What a thread does between two accesses to something shared
is one step: `LinkDeliver` (session and expiry), `CheckPeer` (first read of the policy),
`OpenMessage` (everything private to the thread), `ReadCeiling` (second read), `Accept` (clock read
again, counter consumed), `Insert`; every refusal ends in `RecordDeliverFailure`.  `LINK_REGISTER`
shares nothing but the clock and is one step.  A request that is refused before anything is assigned
leaves every variable alone and so is a stuttering step.  A message is the session whose key sealed
it, its counter, and the contexts outside and inside; the messages on the wire are all those that
some registered session could have sealed, plus one that none did and one with missing fields:
replay, reordering, loss and delivery over the wrong connection all come from choosing any of them at
any time.  Sessions are numbered by registration, which stands for fresh random identifiers and keys.

**LinkAudit** records instants of failures, how far the clock was set back, credentials stored
against the enforced policy and the highest ceiling since a delivery began.

**RegisterTime.**  A client sends `issuedAtBd`, a BrightDate: days since J2000 (`geo.rs`:141-149).
`handler.rs`:286 multiplies it by 86400 and compares the product, seconds since J2000
(`BrightSeconds`), with `unix_now()`, seconds since 1970; nothing moves one epoch to the other, and
neither does the model.  The product is a float; `as i64` and `as u64` saturate (`AsI64`, `AsU64`),
and `issued_at_unix - now_unix` is checked in a debug build, where it ends the connection's thread
(`Panic`), and wraps in a release build (`Wrapped`).  The width and `J2000` are parameters.  `claim`
is the Unix time at which the client says it issued, so that a property can speak of the claim itself
and not of what it was converted to.

**Encoding.**  `build_deliver_aad`, `build_transcript` and the ECIES envelope as sequences of bytes;
`bytes` is what `said` was encoded to, and a step says the next thing, so that an action property
relates two statements.

**EphemeralStore.**  Threads with a program counter; `inner` and `notifying` are the holders of the
two kinds of mutex.  The callback is an embedder's; it is modelled as one that takes
`active_entries()` and shows them.  The model includes `sweep` and `set_on_change`, which are part
of the store's interface although nothing in the program calls them.  `now` is `Utc::now()`, the wall
clock: it runs (`Tick`) and is set back (`SetBack`).  A clock that a thread has read before it takes a
lock is in `arg`, with the number of set-backs at the time of reading; so an entry that the reading
takes for expired, and that a set-back has made active again, can be told apart (`Overtaken`).  It is
the only exception to `SweepSparesActive`, and to `ViewCurrent` but for changes through a clone, which
notify nobody.

**Startup.**  Per process a program counter and what it holds in memory; shared, the files that
exist, the keys in them (0 for a file not written in full), the kind file, the keyring and what the
socket path names.  Creating a file and writing it are separate steps, and `Die` may come between
any two.  A TPM device and `BRIGHTNEXUS_REQUIRE_HARDWARE` are chosen anew at each start.
`FallBack` is `factory.rs`: any error of the TPM slot leads to the key file, or out of `main` if
hardware is required.  `ServerFails` differs by process: the daemon exits, the application logs the
error and lives on without a server.  `Register` is `GApplication`'s uniqueness, an external
behaviour: `app.run()` of a second instance activates the first one and returns.

An I/O error leads out of `main`, which is `Die`, with these exceptions.  Any error of the slot file, or
of the public key that is written with it, is an error of the TPM identity, which the factory answers
(`SlotFails`).  An error in reading the key file is dropped by `if let Ok(raw)`
(`file_identity.rs`:26): the start goes on to the keyring and, if that has nothing, generates a key and
overwrites the file (`MisreadKey`, with `misread` and `replaced` as its history).  A keyring that fails
is one that has no key (`OpenKeyring`, `Mirror`).  Section 8 names the errors left out.

**Framing.**  A stream of bytes, of which the scanner tells five apart, two kernel buffers of finite
size, and the thread's loop: `Read` (a chunk), `Extract` (the head of the inner loop, with the
handler's work on what it cut off), `WriteResponse` and `WriteNewline` (each waits for room).  The
client writes ahead, reads late, shuts its side or goes (`Leave`); `Panic` ends the thread of a
handler.  `Scan` is the body of the loop over bytes, `Ends` the places where it finds an object
complete.  Cutting anew from the start of the buffer, as the code does, is `ExtractJsonObject`;
`Received`, the reference, passes over the stream once with one state (`Feed`), and never cuts;
`IsObject` says what an object is without a scanner.

**Geo.**  A thread reads the last fix (`CurrentFix`), the clock (`ReadClock`) and then, under the
lock, decides and answers in one step (`DecideZone`); a refresh connects, polls until GeoClue has a
location or its deadline has passed, stamps the fix and stores it, each a step.  At each of the steps
that wait for D-Bus the call may fail (`RefreshFails`) or never return (`Hang`): the deadline is on the
polling, not on a call, and the caller's timeout is not used (`geoclue.rs`:152).  The wall clock runs
and is set back; the list of zones is replaced.  A zone is the set of places it covers.  Two histories
keep the fixes stored and the answers given.

**Attestation.**  Processes fork, exec and exit, orphans go to init and identifiers are used again
(`World`); packages are altered and restored.  Each look at `/proc` is one step of the thread,
and so are `dpkg-query` and `dpkg-verify` together: which package a path belongs to does not change in
the model, so that only the moment of the second matters.

## 4. Runs

| Run | Properties | Shows | Bounds |
|---|---|---|---|
| `replay` | `ReplayProtected`, `LinkInv`, `StoreAuthentic` | two connections, every message of either session at any time: `Link` implements `SealedChannel` | `StillOrFew`: two registrations (one session that replaces, or one that rivals another) with counters 1-3 against a replay window of 2 (one is out of it), while time and settings stand still; one registration and one counter while time passes, the clock is set back and the settings change. A lockout needs two failures. Symmetric in the connections |
| `audit` | `TypeOK`, `LockoutArmed`, `FailureBurst`, `EnforceTakesEffect`, `CeilingTakesEffect`, `SessionLifetime` | bursts of failures and the lives of sessions are bounded; a change of policy misses at most the delivery in flight | `Apart`: either settings change, at one instant and at every point of a delivery, with two ceilings and both modes; or time passes, four seconds against a window of one and sessions of at most two, with a correction of −2 or +1. Threshold 3, lifetimes below zero and above the maximum, two registrations |
| `session` | `AcceptedOnTime`, `PastAccepted`, `EnvelopeOpens`, `BytesDecide` | what is accepted is at most the distance of the epochs and the tolerance ahead, and within that bound a claim is refused or fatal only where the subtraction overflows; different statements have different bytes; an envelope that is cut short keeps its fields whole or is refused | integers of five bits, epochs four seconds apart, claims at and beyond both ends of both types and at the bound for each reading of the clock; numbers around the byte boundaries and names that look like the lengths written before them |
| `store` | `TypeOK`, `MutexesSound`, `ViewCurrent`, `SweepSparesActive`, `CallsReturn` | no deadlock, no stale view, no live entry swept, but for entries that had expired before the clock was set back | two handlers and the interface, three calls: two that race and one that changes in between, or notifies through the clone. Three instants and one set-back, so that a credential expires, is taken for expired, and is active again |
| `window` | `CredentialsSurface` (violated) | section 7. The window is built over an empty store; then a credential is stored and lives out its life unshown. The specification, `WindowSpec`, leaves out the calls that nothing in the program makes | one handler, a credential of two seconds, three calls |
| `turns` | `EciesKeyPersists`, `IdentityPersists`, `PublishedByLatest`, `KeysSurvive` | starts that take turns, with and without TPM and required hardware, killed or failing anywhere: keys persist, but for a key file that could not be read and is overwritten | four starts and three failures (deaths, errors of the slot file, read errors): one for each of the three key files and a start that finds all of them |
| `overlap` | `TypeOK`, `UnusableOnlyByDeath`, `HardwareRequired`, `SomeoneReachable` | starts that overlap: the path is not left without a listener and no unusable key file is left behind, unless a process was killed; required hardware is never traded for a key file | two processes, three starts, one failure: a death, or any error of the slot file. A TPM device is always seen, so that both identities are reached: the key file's through a slot file that is cut short or still being written |
| `first_start` | `EciesKeyPersists` (violated) | section 7 | one start each |
| `relaunch` | `Reachable` (violated) | section 7 | two launches |
| `framing` | `TypeOK`, `AnsweredBeforeWaiting`, `CutsObjects`, `InOrder`, `EveryAnswered` | however the stream is cut, each request is answered once, in order, and before the thread waits for more; what is cut off is an object by a definition that has no scanner (string literals set aside, braces counted), and what is kept while the thread waits starts none that is complete; `GrammarAgrees` evaluates that this definition and a recursive grammar of objects agree on every string of up to seven bytes (`InOrder`: `Framing` implements `RequestStream`) | every stream of up to five bytes, and four longer conversations with requests back to back, nested, cut short, with braces and quotes inside strings and bytes that belong to no request; chunks of up to three bytes through a kernel buffer of three, and one answer at a time on the way back, so that both sides wait for each other |
| `geo` | `TypeOK`, `DwellFromAnswers`, `NegativeDwellOverlaps`, `AnswersAreCurrent`, `Answered` | dwell times are explained by the order of the lock, and a negative one needs an overlap or a clock set back; an older fix wins only over an overlapping refresh; every request is answered, but one whose D-Bus call never returns, and that one holds up no other | two connections, every source, two places, two lists of zones, two instants and one correction, one poll before the deadline, three requests: one that enters a zone, one that overtakes, one that is overtaken |
| `attestation` | `SignedWasTrue`, `NoCircle`, `WholeChain`, `NearestSsh` | what is signed was true meanwhile; the walk never circles, and when nothing happens it is complete | four processes in a chain and in a tree, with every assignment of executables and unreadable links, a cap of two, two events: one process that exits and one that takes its identifier |

The two constraints leave out combinations of dimensions that do not meet in the code: an acceptance
reads no clock but for the expiry, and the limiter reads no setting.  A constraint can only leave
behaviours out, and neither of the two runs has a liveness property that this could make vacuous;
what they leave out is covered by the proofs of section 6, which know no bounds.

Deadlock is not checked where a bound (`MaxSessions`, `Horizon`, `MaxOps`, `MaxStarts`, `MaxEvents`,
...) or the end of a conversation stops the model and the program would go on, or is right to stop;
`session` and `attestation` check it.  That no thread waits for ever is a property of its own instead:
`CallsReturn`, `EveryAnswered`, `Answered`.  The registrations, clock corrections and other inputs
that a configuration leaves out are named by a set without them; every action is fired by some passing
run.  `MCSession` checks two modules that share no variable in one run: each moves while the other
rests in one state.

Every property is paired with a mutation of the code's model, defined next to the original, that
violates it: a dropped guard, a counter compared one off, a reset forgotten, an order swapped.

## 5. Fairness

| Specification | Assumed | Why |
|---|---|---|
| `EphemeralStore!FairSpec` | a thread whose next step is possible takes it sooner or later (`WF(Proceed(t))` per thread) | the operating system's scheduler. `std::sync::Mutex` promises no order among waiting threads, and weak fairness assumes none: that no thread starves is because calls are finitely many. Calls themselves are not fair: nobody has to use the store; nor are time and set-backs, which no call waits for |
| `MCEphemeralStore!WindowSpec` | the same, and time passes (`WF(Tick)`) | a violation has to be one of a program that goes on |
| `Framing!FairSpec` | the thread is scheduled (`WF(ServeConnection)`) and the client reads what it is sent (`WF(Take)`) | the second is a duty of the client: one that only writes until it blocks leaves both sides waiting for ever, since `serve_connection` answers before it reads on. Sending, leaving and panics are not fair |
| `Geo!FairSpec` | each thread is scheduled (`WF(Serve(t))`) | that a D-Bus call returns is *not* assumed, nor that GeoClue has a location: a thread that waits may take `Hang` instead of its next step, and stays there. `Answered` therefore promises an answer or, to `get` and `refresh` only, a call that never returns; all other requests are answered whatever hangs. Requests, time and corrections are not fair |

## 6. Proofs

All theorems hold for every value of the constants, under the assumptions named in the modules:
`LimiterAssumption` (a threshold above one: with one, the failure that opens a window would go
unnoticed; the code has 30), `RegisterTimeAssumption` (the clock is not within a session of the end of
time), `FramingAssumption` (chunks and kernel buffers hold at least one byte), `EncodingAssumption` (the sizes the handler has checked), `GeoAssumption` (no zone has the name
that stands for having none), and for the others the types of the
parameters.  The bounds of the models are parameters, so the theorems hold for any; no theorem assumes
a constraint of section 4.

**`Link_proofs`.**
`TypeCorrect` proves `[]TypeOK`.  `LinkInvariant` proves `[]LinkInv`, whose five conjuncts need one
another: *SessionsOwned* (two handlers never share a session, as a session belongs to one thread),
*MessageInHand* (from the first check to the insertion the session is there, and a message that was
opened stays acceptable until its counter is consumed, although other threads run in between: the
reason why the check and the assignment need no lock), *CountersAccountedFor* (the last counter of a
session is the highest accepted under its key), *LockoutArmed* and *StoreAuthentic*.  The last two
are safety properties of the runs, restated as `Lockout` and `Authenticity`; neither is inductive
alone.  `ChannelRefinement` proves `Spec => Channel!Spec`: initial states map to initial states and
every step to `Open`, `Close`, `Receive` or a stutter; registration and lockout need `SessionsOwned`
to compute the owner before and after, acceptance needs the rest.  `Channel` counts receptions, so
that a message accepted twice would not be mistaken for one accepted once: `NoReplay` derives from the
refinement that there are as many acceptances as accepted messages, since a message received again
would not be later than itself.

**`LinkAudit_proofs`** builds on it: an audited step is a step of `Link` or a stutter, so `LinkInv`
holds.  `AuditInvariant` proves `[]AuditInv`, with one account per property for each connection:
*ClockAccount* (a session has lost no more seconds on the wall clock than the clock was set back),
*EnforceAccount* (an unattested connection that has stored under `Enforce` is before the check of the
peer, or has failed it) and *CeilingAccount* (the ceiling in force has been in force during the
delivery, and a lifetime is within a ceiling that was).  `SessionsEnd`, `EnforceEffective` and
`CeilingEffective` follow.  `BurstsBounded` (`FailureBurst`) rests on `BurstInv`, which relates the
history of failures to the limiter (*FailuresAccountedFor*): the failures
since the limiter's window began are those it has counted, and of those before, fewer than the
threshold lie within a window's length of that beginning.

**`Session_proofs`** holds the theorems about `RegisterTime` and `Encoding`.  For integers of any
width and any distance `J2000` of the two epochs: `RegistersOnTime` (`AcceptedOnTime`) says that what is
accepted was issued at most `J2000 + MaxAhead` ahead of the clock, and `RegistersThePast`
(`PastAccepted`) that this bound is exact, so that the test is thirty years more lenient than its sixty
seconds say and never refuses a registration for being old.  `RegistersSameTime`: the issue time in the
signed transcript is the one that was tested, except that times before J2000 are signed as zero.  The
argument is a case distinction on where the seconds since J2000 saturate; the first needs now plus sixty
seconds to be strictly below the greatest integer, or a saturated claim would pass for one in range.
`EncodingDecides` (`BytesDecide`): equal additional data mean equal direction, counter, type and
context, for names of any length that fits four bytes, and equal transcripts equal registrations.
Fixed-width numbers are injective below their width (division by 256 step by step), a length in front
of a string makes the concatenation with what follows decodable, and the transcript's fields have
fixed sizes.  `EnvelopesOpen` (`EnvelopeOpens`): for a ciphertext of any length and every place at
which the envelope may be cut, opening it is refused below 64 bytes and otherwise gives the ephemeral
key, the nonce and the tag as they were sealed, and a prefix of the ciphertext; the lemmas say which
bytes a part of a concatenation consists of.

**`EphemeralStore_proofs`.**
`StoreTypes` and `MutexesHeld` prove the types and that each mutex is held by the thread between its
lock and its release.  `StoreInvariant` proves `[]StoreInv`, which adds *CloneSilent* (clones have no
callback, hence callbacks run one at a time), *ClocksPast* (a clock that was read before a lock is in
the past, unless it was set back since) and *SnapshotCurrent*: unless a change was missed, a snapshot is
still to come, or has been taken of the entries as they are and is about to be shown, or is shown.
`ViewIsCurrent` and `SweepIsSafe` follow: what is active now had not expired at an old reading of the
clock, but for what a set-back has made active again, which both theorems except.
`NobodyStuck` is the part of `CallsReturn` that needs no fairness: while a call is under way, some
thread that has one is not kept waiting.  Who holds the mutex around the entries waits for nothing,
and who runs a callback, which is a thread of that handle (*OwnCallback*), at most for that one.  `CallsEnd` gives the rank: a call takes at most seven steps, and no step of
another thread sends it back or on.

**`Startup_proofs`.**
`StartupTypes` proves `[]TypeOK`.  Three theorems hold for any number of overlapping starts and
deaths: `PathNamesListener` (`SomeoneReachable`, inductive given the types), `HardwareIsRequired`
(`HardwareRequired`, by *HardwareKept*: such a start never reaches the steps of the key file) and
`UnusableFileMeansDeath` (`UnusableOnlyByDeath`, by *KeyInHand*).  `KeysInvariant` proves, if starts do
not overlap, `[]KeysInv`: at most one process is starting (*Alone*), a file that holds a key exists
and the keyring mirrors only the key file until that is replaced (*DiskSound*), and for each process, a
key is generated only where the disk has none or by a start that failed to read it, and what it holds
for good is what the disk holds unless such a start has replaced the key file (*KeysKept*).
`ServedKeysPersist`, `ServedIdentityPersists` and `KeysStayOnDisk` (`KeysSurvive`) follow; the last says
who replaces a key file and that nothing else replaces any key.  `LatestPublishes`
(`PublishedByLatest`) has the same hypothesis and an invariant of its own, `PublishedInv`: only the
latest instance is starting, and nobody else writes.  The hypothesis is
necessary: `first_start` is the counterexample without it.  Each lemma handles one kind of step
(create, write, identify, pass, disappear), so that the proof of an action only says which kind it is.

**`Geo_proofs`** proves `GeoTyped` (`TypeOK`, with the bounds of every clock and counter: a request under
way is one of those begun, and GeoClue is polled no longer than its deadline) and `CurrentAnswers` (`AnswersAreCurrent`) from *FixesOrdered*: stored fixes were
stamped in the past, as far as the clock can tell, and the source's fix, those in the hands of threads
and those that were answered are in order with all that had been stored before their refresh began.
`DwellsExplained` and `NegativeDwells` (`DwellFromAnswers`, `NegativeDwellOverlaps`) rest on `DwellInv`: a clock that a thread has read was read in the past, and after all answers that were given
before its request began; and the entry that the engine keeps is the first of the last answer's row.
The lemmas on rows say that an answer more changes none of the earlier ones and either continues the
last or begins another.  `RequestsEnd` is what `Answered` says without fairness: every step of a request
brings it nearer to its end, at most `2 * Polls + 5` steps away, and nothing sets its deadline anew; the
end is its answer, or a D-Bus call that does not return.

**`Attestation_proofs`** proves `AttestationTyped` and `LineageEnds` (`NoCircle`) for any process table
and any events: the lineage grows by one identifier that was not in it, and only below the cap.
`SignaturesWereTrue` (`SignedWasTrue`) rests on *Witnessed*: the histories hold all that is true now,
and what the thread has in hand has been true, however the processes have changed since.
`WalkFindsChain` and `SearchFindsNearest` (`WholeChain`, `NearestSsh`) are about a walk during which
nothing happens.  They rest on the process table being a tree at any time (*Tree*: there is a numbering
of the processes in which every parent comes before its children, and forks, exits and the adoption of
orphans preserve that), without which the walk could meet a process twice and stop early.  *ChainInv*
says that the lineage is linked parent by parent, and descends in every such numbering; *SearchInv*
that no process before the one in hand ended the search.

**`Framing_proofs`** proves, for any stream, chunk and kernel buffers, `FramingHolds`
(`[]FramingInv`) and from it `FramingTyped`, `AnsweredFirst` (`AnsweredBeforeWaiting`) and
`RequestsInOrder`: `Framing` implements `RequestStream` (`InOrder`), a read is an `Ask`
if it completes an object, the newline is the `Answer`, and the rest of the loop goes unnoticed.  The invariant says that
the buffer is what was read and not yet cut off (*BufferKept*), that one pass over the stream would
stand outside every object at the cut and have found exactly the objects handled, and that what is
written are those objects, each with its newline, but for the one in hand (*WritesKept*).  The heart of
the proof is that scanning anew from a cut is scanning on: the pass over a concatenation is the pass
over its second part from the state that the first part leaves, and the first object complete in the
buffer is the next that the pass over the stream completes.  These are inductions over the positions
of a stream; they are done by the least position at which the claim fails, on the recursive functions
`ScanOf` and `ReadingOf`, whose existence is proved too.

`CutsAreObjects` (`CutsObjects`) relates the scanner to what an object is.  If a string is whole to the
scanner, the stretches in which it is within a string are literals that do not overlap and cover its
quotes, and outside them its depth is the number of braces opened less those closed: so the string is
an object (`WholeIsObject`).  Conversely, given the literals of an object, after each byte the scanner
is in a string just where one of them is open, its escape flag is set just where the next quote would
be protected, and its depth is the count (*Agrees*): so the scan ends where the object does
(`ObjectEnds`), and a thread that waits has none complete in its buffer.

`WorkEnds` and `NobodyWaits` are what `EveryAnswered` says without fairness.  Each step of the thread
lowers *Work*, which weighs the bytes not yet read, those in the buffer and the work on the object in
hand, and no other step raises it; and while a request that has arrived is unanswered the thread has a
step to take or the client an answer to read.

**Model-checked only**: the liveness properties `CallsReturn`, `EveryAnswered` and `Answered`.  Liveness
under fairness and `ENABLED` are out of the prover's reach; proved are the ranks and the absence of
circular waiting on which they rest (`CallsEnd` and `NobodyStuck`, `WorkEnds` and `NobodyWaits`,
`RequestsEnd`).  `GrammarAgrees` is evaluated up to a length and cannot be proved here, since the grammar is
recursive; no theorem uses it.

## 7. Where code and documents disagree

* **Credentials do not surface** (run `window`).  The view is filled once, when the window is built
  (`app.rs`:94); nothing subscribes to the store, so what is captured afterwards expires unshown.
  `docs/index.html`:981-984 promises the view and live countdowns.
* **The ECIES key may not persist** (run `first_start`).  `load_or_create_ecies_key` tests and creates
  in separate steps; if daemon and application start together for the first time, the one that wrote
  first serves with a key that the other has overwritten.  `docs/index.html`:963 calls the key
  persistent.
* **A second launch makes the application unreachable** (run `relaunch`).  The server thread takes the
  socket path before `GApplication` finds out that another instance runs; the second instance exits,
  and its socket file stays behind.  `docs/index.html`:1278-1280 says what a process that can connect
  can do while the bridge is running; here none can, while it runs.

Without a run, because no document or test states the contrary in terms of behaviour, or because what
differs is a form:

* **The staleness test mixes two epochs.**  `handler.rs`:286 does not add `J2000_UNIX`
  (`geo.rs`:141-149), so a registration may be issued up to thirty years ahead, and "Stale registration"
  is said of claims too far in the future only: none is refused for being old (`AcceptedOnTime`,
  `PastAccepted`).  The test's own value (`9638.0`, `brightnexus-bridge/tests/integration.rs`:193) is a BrightDate of 2026.  The
  transcript signs the same unconverted seconds (`session.rs`:76).
* **A key file that cannot be read is replaced.**  `if let Ok(raw)` (`file_identity.rs`:26) takes an I/O
  error of `fs::read` (121) for a missing file; without a keyring a new key is generated and overwrites
  the file (132).  A bridge that still serves then has an identity that is nowhere on disk
  (`KeysSurvive`, `IdentityPersists` name the exception).
* **A sweep can remove a live credential**, and a view miss one, if the clock is set back between its
  reading and the lock (`credentials.rs`:102-103).  The program calls no sweep.
* **A hung D-Bus call hangs its request**: `request_refresh` discards the caller's timeout
  (`geoclue.rs`:152), and only the polling has a deadline.
* `docs/index.html`:801-802 describes a key that stays in the TPM, while `tpm2.rs`:23-25 says that
  version 0.1 keeps a software key in a slot file; `docs/index.html`:838-846 describes a secondary socket
  and a migration that the code does not have; `docs/index.html`:860-862 says that there is no newline
  delimiter, while `socket.rs`:70 writes one after each answer (and accepts requests without);
  `docs/index.html`:984-986 calls the `LINK_GEO` commands reserved, while `handler.rs` and `geo.rs`
  implement them.

## 8. Not modelled

* **Cryptography** is ideal: a ciphertext opens under exactly the key, counter, type and context it was
  sealed for, and random values are fresh.  Base64 and JSON are the outcomes of `content`.
* **Geo access list and prompt** (`acl_allows_scope`, `sign_acl`, `set_prompt_coordinator`): only a test
  calls them.  Distances and coordinates are floating-point formulas over the places.
* **Attestation**: the environment of a process is only copied; `PeerInfo::from_stream` is not used,
  since every program of the repository sets the attestation callback.  The status of a live process can
  always be read (`attestation.rs`:104; a `/proc` mounted with `hidepid` would end the walk there, as a
  process that has gone does).
* **Geo**: the answers recorded are those of `LINK_GEO_ZONE`, so `AnswersAreCurrent` speaks of these;
  `GET`, `PROXIMITY` and `REFRESH` take the same steps but what they return is not kept.
* **Commands that only read** (`VERSION`, `LIST_KEYS`, `ENCLAVE_SIGN`, ...) change nothing;
  `SET_PEER_PUBLIC_KEY` assigns a field that only `STATUS` reads.
* **Layout** of window, tray and dialogs; error type and re-exports (`error.rs`, `lib.rs`).
* **Files**: directories, permissions and the zone and access-list files, which the program never writes.
  Errors of `stat` in `exists()`, which count as a missing file; an error in changing the mode of the
  public key, which is ignored; and errors of the socket calls other than those an interleaving causes,
  which would leave an application without a server as `ServerFails` does.  Something else than a socket
  at the socket path stops a start before it has changed anything.

Seven hazards have no property; `PROJECT.json` says why for each.  The mode and the ceiling of two different
settings in one delivery (`handler.rs`:439), changes through a clone, which notifies nobody (`app.rs`:88),
an expired session that keeps its key until the connection ends (`handler.rs`:360), an object that is
never closed and grows the buffer without limit (`socket.rs`:65), a client that never reads (`socket.rs`:69),
an identifier that another process has by the time it is looked up (`attestation.rs`:31), and an unreadable
link that ends the search for sshd (123): no document promises otherwise, and the properties about these
places say what does hold.

## 9. What is left

1. The geo access list and its prompt, once a command of the program consults them.
2. A bound on the buffer and the lifetime of an expired session's key, if the program ever promises one.
