------------------------------ MODULE Startup -------------------------------
(***************************************************************************)
(* Startup of the bridge.  The daemon and the GTK application run the same *)
(* sequence over one directory and may run at the same time:               *)
(*                                                                         *)
(*   select_bridge_identity   the TPM slot file, else the key file, else   *)
(*                            the keyring, else a new key                  *)
(*   Bridge::new              what the socket path names, the ECIES key    *)
(*                            file, the kind file                          *)
(*   run_socket_server        the socket path: exists, remove, bind, chmod *)
(*                                                                         *)
(* Files are created and written in two steps, and a process may die       *)
(* between any two; most I/O errors make it exit.  Those of the slot file  *)
(* are the factory's to handle; one in reading the key file is taken for a *)
(* missing file.  A test for a file and the read after it are one step: *)
(* no file but the socket is ever removed, so the pair behaves as a whole  *)
(* at the moment of the one or of the other.                               *)
(***************************************************************************)
EXTENDS Integers

CONSTANTS
    Process,        \* instances of the program
    Gtk,            \* those that are the GTK application, not the daemon
    Nobody, Stale,  \* a socket path that is free; one left by a dead process
    Device,         \* whether a TPM device may be seen at a start
    Hardware,       \* values of BRIGHTNEXUS_REQUIRE_HARDWARE at a start
    Overlap,        \* may one instance start while another still is starting?
    MaxStarts, MaxFailures \* bounds: starts; deaths and I/O errors

ASSUME StartupAssumption ==
    /\ Gtk \subseteq Process
    /\ Nobody \notin Process /\ Stale \notin Process /\ Nobody # Stale
    /\ Device \subseteq BOOLEAN /\ Hardware \subseteq BOOLEAN
    /\ Overlap \in BOOLEAN
    /\ MaxStarts \in Nat /\ MaxFailures \in Nat

VARIABLES
    exists,         \* the files that are there
    content,        \* the key each of them holds, 0 unless written in full
    kind_file,      \* what bridge-identity.kind says, "" when cut short
    keyring,        \* the identity key mirrored in the keyring, 0 for none
    path,           \* the process whose listener the socket path names
    primary,        \* the GTK instance that owns the application's name
    pc,             \* where each process is
    require_hardware, identity, kind, ecies_key, \* memory of each process
    made,           \* keys generated so far: 1..made
    starts, failures, \* so far
    latest,         \* history: the process that was started last
    cut,            \* history: a process died before it wrote the ECIES key file it created
    orphaned,       \* history: a death took the path away from a listener
    misread,        \* history: the processes that could not read the key file
    replaced        \* history: one of them has truncated it

memory == <<require_hardware, identity, kind, ecies_key>>
disk == <<exists, content, kind_file, keyring>>
bounds == <<made, starts, failures>>
history == <<latest, cut, orphaned, misread, replaced>>
vars == <<disk, path, primary, pc, memory, bounds, history>>

File == {"slot", "key", "pub", "ecies"}
Kind == {"Tpm2BridgeIdentity", "FileBridgeIdentity"}

\* The file an identity of a kind is kept in.
KeyFile == [k \in Kind |-> IF k = "Tpm2BridgeIdentity" THEN "slot" ELSE "key"]

SocketSteps == {"probe", "remove", "bind", "chmod"}
Starting == SocketSteps \cup
    {"slot", "slot_create", "slot_write", "key", "keyring", "key_create",
     "key_write", "mirror", "pub_create", "pub_write", "squat_probe", "squat_stat",
     "ecies", "ecies_create", "ecies_write", "kind_create", "kind_write"}
\* deaf: the GTK application whose socket server has failed.
Steps == Starting \cup {"off", "serving", "deaf"}

\* The processes that have a listening socket, whether the path names it or not.
Listening == {p \in Process : pc[p] \in {"chmod", "serving"}}

TypeOK ==
    /\ exists \subseteq File
    /\ content \in [File -> Nat]
    /\ kind_file \in Kind \cup {""}
    /\ keyring \in Nat
    /\ path \in Process \cup {Nobody, Stale}
    /\ primary \in Gtk \cup {Nobody}
    /\ pc \in [Process -> Steps]
    /\ require_hardware \in [Process -> BOOLEAN]
    /\ identity \in [Process -> Nat]
    /\ kind \in [Process -> Kind]
    /\ ecies_key \in [Process -> Nat]
    /\ made \in Nat /\ starts \in Nat /\ failures \in Nat
    /\ latest \in Process \cup {Nobody}
    /\ cut \in BOOLEAN /\ orphaned \in BOOLEAN
    /\ misread \subseteq Process /\ replaced \in BOOLEAN

Init ==
    /\ exists = {} /\ content = [f \in File |-> 0]
    /\ kind_file = "" /\ keyring = 0
    /\ path = Nobody /\ primary = Nobody
    /\ pc = [p \in Process |-> "off"]
    /\ require_hardware = [p \in Process |-> FALSE]
    /\ identity = [p \in Process |-> 0]
    /\ kind = [p \in Process |-> "FileBridgeIdentity"]
    /\ ecies_key = [p \in Process |-> 0]
    /\ made = 0 /\ starts = 0 /\ failures = 0
    /\ latest = Nobody /\ cut = FALSE /\ orphaned = FALSE
    /\ misread = {} /\ replaced = FALSE
-----------------------------------------------------------------------------
Goto(p, step) == pc' = [pc EXCEPT ![p] = step]

\* The memory of p is gone, its listener closed and its name released.  The
\* socket file stays behind.
Gone(p) ==
    /\ Goto(p, "off")
    /\ require_hardware' = [require_hardware EXCEPT ![p] = FALSE]
    /\ identity' = [identity EXCEPT ![p] = 0]
    /\ kind' = [kind EXCEPT ![p] = "FileBridgeIdentity"]
    /\ ecies_key' = [ecies_key EXCEPT ![p] = 0]
    /\ path' = IF path = p THEN Stale ELSE path
    /\ primary' = IF primary = p THEN Nobody ELSE primary
    /\ cut' = (cut \/ pc[p] = "ecies_write")
    /\ orphaned' = (orphaned \/ /\ path = p \/ pc[p] = "bind"
                                /\ Listening \ {p} # {})
    /\ misread' = misread \ {p}
    /\ UNCHANGED <<disk, made, starts, latest, replaced>>

\* Killed, crashed or quit, or out of main with an I/O error.
Die(p) ==
    /\ pc[p] # "off"
    /\ failures < MaxFailures
    /\ failures' = failures + 1
    /\ Gone(p)

\* main returns the error before there is a socket.
Exit(p) == Gone(p) /\ UNCHANGED failures

Generate(p, step) ==
    /\ made' = made + 1
    /\ Goto(p, step)

\* main, as far as the environment and the TPM device decide it.
Start(p, device, hardware) ==
    /\ pc[p] = "off"
    /\ starts < MaxStarts
    /\ Overlap \/ \A q \in Process : pc[q] \notin Starting
    /\ device \/ ~hardware
    /\ starts' = starts + 1
    /\ latest' = p
    /\ Goto(p, IF device THEN "slot" ELSE "key")
    /\ require_hardware' = [require_hardware EXCEPT ![p] = hardware]
    /\ UNCHANGED <<disk, path, primary, identity, kind, ecies_key, made, failures,
                   cut, orphaned, misread, replaced>>

\* open, creating the file; truncated or not.
Create(p, step, f, truncate, next) ==
    /\ pc[p] = step
    /\ exists' = exists \cup {f}
    /\ content' = [content EXCEPT ![f] = IF truncate THEN 0 ELSE @]
    /\ Goto(p, next)
    /\ UNCHANGED <<kind_file, keyring, path, primary, memory, bounds, latest, cut,
                   orphaned, misread>>

\* A single write of the whole content.
Write(p, step, f, key, next) ==
    /\ pc[p] = step
    /\ content' = [content EXCEPT ![f] = key]
    /\ Goto(p, next)
    /\ UNCHANGED <<exists, kind_file, keyring, path, primary, memory, bounds, history>>

\* A process learns the identity it has from a file, the keyring or its dice.
Identify(p, k, key) ==
    /\ identity' = [identity EXCEPT ![p] = key]
    /\ kind' = [kind EXCEPT ![p] = k]
    /\ UNCHANGED <<disk, path, primary, require_hardware, ecies_key, starts,
                   failures, history>>

\* Mutation: the factory falls back whether hardware is required or not.
FallBackAlways(p) ==
    Goto(p, "key") /\ UNCHANGED <<disk, path, primary, memory, made, starts, history>>

\* Tpm2BridgeIdentity::open_or_create returns an error: the factory falls back
\* to the key file unless hardware is required.
FallBack(p) ==
    IF require_hardware[p]
    THEN Gone(p)
    ELSE Goto(p, "key") /\ UNCHANGED <<disk, path, primary, memory, made, starts, history>>

\* The slot file is read if it is there; one of the wrong length is an error.
OpenSlot(p) ==
    /\ pc[p] = "slot"
    /\ \/ /\ "slot" \notin exists
          /\ Generate(p, "slot_create")
          /\ Identify(p, "Tpm2BridgeIdentity", made')
       \/ /\ content["slot"] # 0
          /\ Goto(p, "pub_create")
          /\ Identify(p, "Tpm2BridgeIdentity", content["slot"])
          /\ UNCHANGED made
       \/ /\ "slot" \in exists /\ content["slot"] = 0
          /\ FallBack(p)
          /\ UNCHANGED failures

CreateSlot(p) ==
    Create(p, "slot_create", "slot", TRUE, "slot_write") /\ UNCHANGED replaced
WriteSlot(p) == Write(p, "slot_write", "slot", identity[p], "pub_create")

\* The slot file cannot be read, created or written, or the public key that
\* goes with it cannot.
SlotFails(p) ==
    /\ \/ pc[p] \in {"slot", "slot_create", "slot_write"}
       \/ pc[p] \in {"pub_create", "pub_write"} /\ kind[p] = "Tpm2BridgeIdentity"
    /\ failures < MaxFailures
    /\ failures' = failures + 1
    /\ FallBack(p)

\* Mutation: the key file is never read back.
OpenKeySkips(p) ==
    /\ pc[p] = "key"
    /\ Goto(p, "keyring")
    /\ UNCHANGED <<disk, path, primary, memory, bounds, history>>

\* Mutation: only a new identity is published.
OpenKeyUnpublished(p) ==
    /\ pc[p] = "key"
    /\ \/ /\ content["key"] # 0
          /\ Goto(p, "squat_probe")
          /\ Identify(p, "FileBridgeIdentity", content["key"])
       \/ /\ content["key"] = 0
          /\ Goto(p, "keyring")
          /\ UNCHANGED <<disk, path, primary, memory, starts, failures, history>>
    /\ UNCHANGED made

\* FileBridgeIdentity::open_or_create: the key file, unless it is missing or
\* of the wrong length.
OpenKey(p) ==
    /\ pc[p] = "key"
    /\ \/ /\ content["key"] # 0
          /\ Goto(p, "pub_create")
          /\ Identify(p, "FileBridgeIdentity", content["key"])
       \/ /\ content["key"] = 0
          /\ Goto(p, "keyring")
          /\ UNCHANGED <<disk, path, primary, memory, starts, failures, history>>
    /\ UNCHANGED made

\* A key file that is there cannot be read: if let Ok(raw) drops the error, and
\* the process goes on as if there were none.
MisreadKey(p) ==
    /\ pc[p] = "key"
    /\ content["key"] # 0
    /\ failures < MaxFailures
    /\ failures' = failures + 1
    /\ misread' = misread \cup {p}
    /\ Goto(p, "keyring")
    /\ UNCHANGED <<disk, path, primary, memory, made, starts, latest, cut, orphaned,
                   replaced>>

\* The keyring, which may be locked or not there; else a new key.
OpenKeyring(p) ==
    /\ pc[p] = "keyring"
    /\ \/ /\ keyring # 0
          /\ Goto(p, "pub_create")
          /\ Identify(p, "FileBridgeIdentity", keyring)
          /\ UNCHANGED made
       \/ /\ Generate(p, "key_create")
          /\ Identify(p, "FileBridgeIdentity", made')

CreateKey(p) ==
    /\ Create(p, "key_create", "key", TRUE, "key_write")
    /\ replaced' = (replaced \/ (p \in misread /\ content["key"] # 0))
WriteKey(p) == Write(p, "key_write", "key", identity[p], "mirror")

\* save_secret mirrors the key in the keyring, if it can.
Mirror(p) ==
    /\ pc[p] = "mirror"
    /\ keyring' \in {keyring, identity[p]}
    /\ Goto(p, "pub_create")
    /\ UNCHANGED <<exists, content, kind_file, path, primary, memory, bounds, history>>

\* The public key is known by the private one it belongs to.
CreatePub(p) == Create(p, "pub_create", "pub", TRUE, "pub_write") /\ UNCHANGED replaced
WritePub(p) == Write(p, "pub_write", "pub", identity[p], "squat_probe")

\* verify_socket_squatting: what the path names, if anything, is a socket; that
\* it names nothing any more is an error.
SquatProbe(p) ==
    /\ pc[p] = "squat_probe"
    /\ Goto(p, IF path = Nobody THEN "ecies" ELSE "squat_stat")
    /\ UNCHANGED <<disk, path, primary, memory, bounds, history>>

SquatStat(p) ==
    /\ pc[p] = "squat_stat"
    /\ \/ /\ path = Nobody
          /\ Exit(p)
          /\ UNCHANGED made
       \/ /\ path # Nobody
          /\ Goto(p, "ecies")
          /\ UNCHANGED <<disk, path, primary, memory, bounds, history>>

\* Mutation: the file is not read, every start makes a key of its own.
LoadEciesAnew(p) ==
    /\ pc[p] = "ecies"
    /\ Generate(p, "ecies_create")
    /\ ecies_key' = [ecies_key EXCEPT ![p] = made']
    /\ UNCHANGED <<disk, path, primary, require_hardware, identity, kind, starts,
                   failures, history>>

\* load_or_create_ecies_key: a file of the wrong length is an error.
LoadEcies(p) ==
    /\ pc[p] = "ecies"
    /\ \/ /\ "ecies" \notin exists
          /\ Generate(p, "ecies_create")
          /\ ecies_key' = [ecies_key EXCEPT ![p] = made']
          /\ UNCHANGED <<path, primary, require_hardware, identity, kind, failures, history>>
       \/ /\ content["ecies"] # 0
          /\ Goto(p, "kind_create")
          /\ ecies_key' = [ecies_key EXCEPT ![p] = content["ecies"]]
          /\ UNCHANGED <<path, primary, require_hardware, identity, kind, made, failures, history>>
       \/ /\ "ecies" \in exists /\ content["ecies"] = 0
          /\ Exit(p)
          /\ UNCHANGED made
    /\ UNCHANGED <<disk, starts>>

\* The file is opened without truncation.
CreateEcies(p) ==
    Create(p, "ecies_create", "ecies", FALSE, "ecies_write") /\ UNCHANGED replaced

\* Mutation: the key does not get from its buffer into the file.
WriteEciesLost(p) == Write(p, "ecies_write", "ecies", 0, "kind_create")

WriteEcies(p) == Write(p, "ecies_write", "ecies", ecies_key[p], "kind_create")

CreateKind(p) ==
    /\ pc[p] = "kind_create"
    /\ kind_file' = ""
    /\ Goto(p, "kind_write")
    /\ UNCHANGED <<exists, content, keyring, path, primary, memory, bounds, history>>

WriteKind(p) ==
    /\ pc[p] = "kind_write"
    /\ kind_file' = kind[p]
    /\ Goto(p, "probe")
    /\ UNCHANGED <<exists, content, keyring, path, primary, memory, bounds, history>>
-----------------------------------------------------------------------------
\* Mutation: a server that fails cleans the socket path up.
ServerFailsUnlinks(p) ==
    /\ path' = Nobody
    /\ Goto(p, "deaf")
    /\ UNCHANGED <<disk, primary, memory, bounds, history>>

\* run_blocking returns an error: the daemon exits with it, the application
\* logs it on the thread of the server and goes on without one.
ServerFails(p) ==
    IF p \in Gtk
    THEN Goto(p, "deaf") /\ UNCHANGED <<disk, path, primary, memory, bounds, history>>
    ELSE Exit(p) /\ UNCHANGED made

Probe(p) ==
    /\ pc[p] = "probe"
    /\ Goto(p, IF path = Nobody THEN "bind" ELSE "remove")
    /\ UNCHANGED <<disk, path, primary, memory, bounds, history>>

Remove(p) ==
    /\ pc[p] = "remove"
    /\ IF path = Nobody
       THEN ServerFails(p)
       ELSE /\ path' = Nobody
            /\ Goto(p, "bind")
            /\ UNCHANGED <<disk, primary, memory, bounds, history>>

Bind(p) ==
    /\ pc[p] = "bind"
    /\ IF path # Nobody
       THEN ServerFails(p)
       ELSE /\ path' = p
            /\ Goto(p, "chmod")
            /\ UNCHANGED <<disk, primary, memory, bounds, history>>

\* The permissions of whatever the path names now.
Chmod(p) ==
    /\ pc[p] = "chmod"
    /\ IF path = Nobody
       THEN ServerFails(p)
       ELSE /\ Goto(p, "serving")
            /\ UNCHANGED <<disk, path, primary, memory, bounds, history>>

\* Mutation: the daemon takes the application's name as well.
RegisterAnyone(p) ==
    /\ pc[p] \in SocketSteps \cup {"serving", "deaf"}
    /\ primary # p
    /\ IF primary = Nobody
       THEN /\ primary' = p
            /\ UNCHANGED <<disk, path, pc, memory, bounds, history>>
       ELSE Exit(p) /\ UNCHANGED made

\* The application registers its name once the server's thread is running; an
\* instance that finds it taken activates the first one's window and returns.
Register(p) ==
    /\ p \in Gtk
    /\ pc[p] \in SocketSteps \cup {"serving", "deaf"}
    /\ primary # p
    /\ IF primary = Nobody
       THEN /\ primary' = p
            /\ UNCHANGED <<disk, path, pc, memory, bounds, history>>
       ELSE Exit(p) /\ UNCHANGED made

SelectIdentity(p) ==
    \/ OpenSlot(p) \/ CreateSlot(p) \/ WriteSlot(p) \/ SlotFails(p)
    \/ OpenKey(p) \/ MisreadKey(p) \/ OpenKeyring(p) \/ CreateKey(p) \/ WriteKey(p) \/ Mirror(p)
    \/ CreatePub(p) \/ WritePub(p)

BridgeNew(p) ==
    \/ SquatProbe(p) \/ SquatStat(p)
    \/ LoadEcies(p) \/ CreateEcies(p) \/ WriteEcies(p)
    \/ CreateKind(p) \/ WriteKind(p)

RunSocketServer(p) == Probe(p) \/ Remove(p) \/ Bind(p) \/ Chmod(p)

Next ==
    \E p \in Process :
        \/ \E device \in Device, hardware \in Hardware : Start(p, device, hardware)
        \/ SelectIdentity(p) \/ BridgeNew(p) \/ RunSocketServer(p)
        \/ Register(p)
        \/ Die(p)

Spec == Init /\ [][Next]_vars
-----------------------------------------------------------------------------
\* The ECIES key an instance serves with is the one on disk, which the next
\* start will load: clients that trust it reach the same bridge again.
EciesKeyPersists ==
    \A p \in Process : pc[p] = "serving" => ecies_key[p] = content["ecies"]

\* So is its signing identity, in the file of its kind: unless a start
\* that could not read the key file has replaced the key in it.
IdentityPersists ==
    \A p \in Process : pc[p] = "serving" =>
        \/ identity[p] = content[KeyFile[kind[p]]]
        \/ kind[p] = "FileBridgeIdentity" /\ replaced

\* Once a key is on disk it stays, whoever starts, dies or falls back, except
\* that a start which could not read the key file overwrites it.
KeysSurvive ==
    [][/\ \A f \in {"slot", "ecies"} : content[f] # 0 => content'[f] = content[f]
       /\ content["key"] # 0 /\ content'["key"] # content["key"] =>
              \E p \in misread : pc[p] = "key_create"]_vars

\* Why the three above hold when starts do not overlap, made inductive.

\* Instances start one at a time.
Alone ==
    \A p, q \in Process : pc[p] \in Starting /\ pc[q] \in Starting => p = q

\* The steps at which a process has its identity, and its ECIES key, for good.
Identified == (Starting \cup {"serving", "deaf"}) \
    {"slot", "slot_create", "slot_write", "key", "keyring", "key_create",
     "key_write", "mirror"}
Keyed == SocketSteps \cup {"kind_create", "kind_write", "serving", "deaf"}

\* A key is generated only where there is none on disk, or none that could be
\* read, and written next; what a process has for good is on disk, unless the
\* key file was replaced.
KeysKept(p) ==
    /\ pc[p] \in {"slot_create", "slot_write"} =>
           content["slot"] = 0 /\ identity[p] # 0 /\ kind[p] = "Tpm2BridgeIdentity"
    /\ pc[p] \in {"keyring", "key_create"} => content["key"] = 0 \/ p \in misread
    /\ pc[p] = "key_write" => content["key"] = 0
    /\ pc[p] \in {"key_create", "key_write", "mirror"} =>
           identity[p] # 0 /\ kind[p] = "FileBridgeIdentity"
    /\ pc[p] = "mirror" => identity[p] = content["key"]
    /\ pc[p] \in {"ecies_create", "ecies_write"} =>
           content["ecies"] = 0 /\ ecies_key[p] # 0
    /\ pc[p] \in Identified =>
           /\ identity[p] # 0
           /\ \/ identity[p] = content[KeyFile[kind[p]]]
              \/ kind[p] = "FileBridgeIdentity" /\ replaced
    /\ pc[p] \in Keyed => ecies_key[p] # 0 /\ ecies_key[p] = content["ecies"]
    /\ pc[p] = "slot_write" => "slot" \in exists
    /\ pc[p] = "ecies_write" => "ecies" \in exists

\* A file that holds a key exists; the keyring mirrors the key file until that
\* is replaced.
DiskSound ==
    /\ \A f \in {"slot", "ecies"} : content[f] # 0 => f \in exists
    /\ keyring # 0 /\ ~replaced => content["key"] = keyring

KeysInv == Alone /\ DiskSound /\ \A p \in Process : KeysKept(p)

\* What the last instance to start has published is its own identity and kind.
PublishedByLatest ==
    latest # Nobody /\ pc[latest] \in SocketSteps \cup {"serving", "deaf"} =>
        /\ content["pub"] = identity[latest]
        /\ kind_file = kind[latest]

\* Why, made inductive, when starts do not overlap: only the latest instance is
\* starting, and nobody else writes.
PubSteps == SocketSteps \cup
    {"squat_probe", "squat_stat", "ecies", "ecies_create", "ecies_write",
     "kind_create", "kind_write", "serving", "deaf"}

PublishedInv ==
    /\ \A p \in Process : pc[p] \in Starting => p = latest
    /\ latest # Nobody /\ pc[latest] \in PubSteps => content["pub"] = identity[latest]
    /\ latest # Nobody /\ pc[latest] \in SocketSteps \cup {"serving", "deaf"} =>
           kind_file = kind[latest]

\* An ECIES key file that no start will accept is left behind only by a death
\* between its creation and its one write: starts that overlap do not cause it.
UnusableOnlyByDeath ==
    "ecies" \in exists /\ content["ecies"] = 0 =>
        cut \/ \E p \in Process : pc[p] = "ecies_write"

\* Why, made inductive: who is about to write the file has a key for it.
KeyInHand(p) == pc[p] \in {"ecies_create", "ecies_write"} => ecies_key[p] # 0

UsableInv == UnusableOnlyByDeath /\ \A p \in Process : KeyInHand(p)

\* A start told to require hardware never ends up with a key file's identity,
\* however the slot file fails it (policy.rs, require_hardware; factory.rs).
HardwareRequired ==
    \A p \in Process :
        require_hardware[p] /\ pc[p] \notin {"off", "slot"} => kind[p] = "Tpm2BridgeIdentity"

\* Why, made inductive: it never gets to the steps of the key file either.
HardwareKept(p) ==
    require_hardware[p] =>
        /\ pc[p] \notin {"off", "key", "keyring", "key_create", "key_write", "mirror"}
        /\ pc[p] # "slot" => kind[p] = "Tpm2BridgeIdentity"

HardwareInv == \A p \in Process : HardwareKept(p)

\* Instances that start together, remove each other's sockets and fail do not
\* leave the path without a listener, unless a death did: as long as someone
\* listens, the path names a listener, or is about to name one again.
SomeoneReachable ==
    Listening # {} /\ ~orphaned =>
        path \in Listening \/ (path = Nobody /\ \E p \in Process : pc[p] = "bind")

\* While an instance serves and none is starting, connecting to the path
\* reaches one.
Reachable ==
    (\E p \in Process : pc[p] = "serving") /\ (\A p \in Process : pc[p] \notin Starting)
        => path \in Listening
=============================================================================
