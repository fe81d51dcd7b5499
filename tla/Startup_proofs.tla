--------------------------- MODULE Startup_proofs ---------------------------
(***************************************************************************)
(* Theorems about Startup.  For any number of instances, starts and deaths *)
(* the socket path is not left without a listener by anything but a death; *)
(* when starts do not overlap, keys live and stay on disk, except that a   *)
(* start which cannot read the key file replaces it.                       *)
(***************************************************************************)
EXTENDS Startup, TLAPS

\* The constants, and the steps that are not the whole of a set.
LEMMA Facts ==
    /\ Gtk \subseteq Process /\ Nobody \notin Process /\ Stale \notin Process
    /\ Nobody # Stale
    /\ Device \subseteq BOOLEAN /\ Hardware \subseteq BOOLEAN
BY StartupAssumption

-----------------------------------------------------------------------------
\* Types.

LEMMA FlagType ==
    ASSUME NEW S, NEW f \in [S -> BOOLEAN], NEW x \in S, NEW flag \in BOOLEAN
    PROVE  [f EXCEPT ![x] = flag] \in [S -> BOOLEAN]
OBVIOUS

LEMMA GotoType ==
    ASSUME TypeOK, NEW p \in Process, NEW step \in Steps, Goto(p, step)
    PROVE  pc' \in [Process -> Steps]
BY DEF TypeOK, Goto

LEMMA GoneType ==
    ASSUME TypeOK, NEW p \in Process, Gone(p), failures' \in Nat
    PROVE  TypeOK'
<1>1. "off" \in Steps /\ "FileBridgeIdentity" \in Kind
  BY DEF Steps, Kind
<1>2. pc' \in [Process -> Steps]
  BY <1>1, GotoType DEF Gone
<1>3. /\ require_hardware' \in [Process -> BOOLEAN]
      /\ identity' \in [Process -> Nat]
      /\ ecies_key' \in [Process -> Nat]
  BY DEF TypeOK, Gone
<1>4. kind' \in [Process -> Kind]
  BY <1>1 DEF TypeOK, Gone
<1>5. path' \in Process \cup {Nobody, Stale} /\ primary' \in Gtk \cup {Nobody}
  BY DEF TypeOK, Gone
<1>6. cut' \in BOOLEAN /\ orphaned' \in BOOLEAN /\ misread' \subseteq Process
  BY DEF TypeOK, Gone
<1>7. QED
  BY <1>2, <1>3, <1>4, <1>5, <1>6 DEF TypeOK, Gone, disk

LEMMA IdentifyType ==
    ASSUME TypeOK, NEW p \in Process, NEW k \in Kind, NEW key \in Nat,
           NEW step \in Steps, Goto(p, step), Identify(p, k, key), made' \in Nat
    PROVE  TypeOK'
<1>1. pc' \in [Process -> Steps]
  BY GotoType
<1>2. identity' \in [Process -> Nat] /\ kind' \in [Process -> Kind]
  BY DEF TypeOK, Identify
<1>3. QED
  BY <1>1, <1>2 DEF TypeOK, Identify, disk, history

LEMMA CreateType ==
    ASSUME TypeOK, NEW p \in Process, NEW step, NEW f \in File,
           NEW truncate \in BOOLEAN, NEW next \in Steps,
           Create(p, step, f, truncate, next), replaced' \in BOOLEAN
    PROVE  TypeOK'
<1>1. pc' \in [Process -> Steps]
  BY GotoType DEF Create
<1>2. exists' \subseteq File /\ content' \in [File -> Nat]
  BY DEF TypeOK, Create
<1>3. QED
  BY <1>1, <1>2 DEF TypeOK, Create, memory, bounds

LEMMA WriteType ==
    ASSUME TypeOK, NEW p \in Process, NEW step, NEW f \in File, NEW key \in Nat,
           NEW next \in Steps, Write(p, step, f, key, next)
    PROVE  TypeOK'
<1>1. pc' \in [Process -> Steps]
  BY GotoType DEF Write
<1>2. content' \in [File -> Nat]
  BY DEF TypeOK, Write
<1>3. QED
  BY <1>1, <1>2 DEF TypeOK, Write, memory, bounds, history

\* A step that moves one process and changes nothing else.
LEMMA MoveType ==
    ASSUME TypeOK, NEW p \in Process, NEW step \in Steps, Goto(p, step),
           UNCHANGED <<disk, path, primary, memory, bounds, history>>
    PROVE  TypeOK'
<1>1. pc' \in [Process -> Steps]
  BY GotoType
<1>2. QED
  BY <1>1 DEF TypeOK, disk, memory, bounds, history

LEMMA FallBackType ==
    ASSUME TypeOK, NEW p \in Process, FallBack(p), failures' \in Nat
    PROVE  TypeOK'
<1>1. CASE require_hardware[p]
  BY <1>1, GoneType DEF FallBack
<1>2. CASE ~require_hardware[p]
  <2>1. "key" \in Steps
    BY DEF Steps, Starting
  <2>2. pc' \in [Process -> Steps]
    BY <1>2, <2>1, GotoType DEF FallBack
  <2>3. QED
    BY <1>2, <2>2 DEF FallBack, TypeOK, disk, memory, history
<1>3. QED
  BY <1>1, <1>2

LEMMA ServerFailsType ==
    ASSUME TypeOK, NEW p \in Process, ServerFails(p)
    PROVE  TypeOK'
<1>1. CASE p \in Gtk
  <2>1. "deaf" \in Steps
    BY DEF Steps
  <2>2. QED
    BY <1>1, <2>1, MoveType DEF ServerFails
<1>2. CASE p \notin Gtk
  <2>1. Gone(p) /\ failures' \in Nat
    BY <1>2 DEF ServerFails, Exit, TypeOK
  <2>2. QED
    BY <2>1, GoneType
<1>3. QED
  BY <1>1, <1>2

LEMMA StartupTypeInit == Init => TypeOK
<1> SUFFICES ASSUME Init PROVE TypeOK
  OBVIOUS
<1>1. pc \in [Process -> Steps] /\ kind \in [Process -> Kind]
  BY DEF Init, Steps, Kind
<1>2. require_hardware \in [Process -> BOOLEAN]
  BY DEF Init
<1>3. /\ content \in [File -> Nat] /\ identity \in [Process -> Nat]
      /\ ecies_key \in [Process -> Nat]
  BY DEF Init
<1>4. QED
  BY <1>1, <1>2, <1>3 DEF Init, TypeOK

LEMMA StepNames ==
    /\ {"off", "slot", "slot_create", "slot_write", "key", "keyring", "key_create",
        "key_write", "mirror", "pub_create", "pub_write", "squat_probe", "squat_stat",
        "ecies", "ecies_create", "ecies_write", "kind_create", "kind_write", "probe", "remove", "bind",
        "chmod", "serving", "deaf"} = Steps
    /\ "slot" \in File /\ "key" \in File /\ "pub" \in File /\ "ecies" \in File
    /\ "Tpm2BridgeIdentity" \in Kind /\ "FileBridgeIdentity" \in Kind
BY DEF Steps, Starting, SocketSteps, File, Kind

LEMMA SelectIdentityType ==
    ASSUME TypeOK, NEW p \in Process, SelectIdentity(p)
    PROVE  TypeOK'
<1>1. /\ \A f \in File : content[f] \in Nat
      /\ identity[p] \in Nat /\ keyring \in Nat /\ made \in Nat /\ failures \in Nat
      /\ replaced \in BOOLEAN
  BY DEF TypeOK
<1>2. CASE OpenSlot(p)
  <2>1. CASE "slot" \notin exists
    <3>1. \/ /\ Goto(p, "slot_create") /\ made' = made + 1
             /\ Identify(p, "Tpm2BridgeIdentity", made')
          \/ /\ Goto(p, "pub_create") /\ made' = made
             /\ Identify(p, "Tpm2BridgeIdentity", content["slot"])
      BY <1>2, <2>1 DEF OpenSlot, Generate
    <3>2. QED
      BY <1>1, <3>1, IdentifyType, StepNames
  <2>2. CASE "slot" \in exists
    <3>1. \/ /\ Goto(p, "pub_create") /\ made' = made
             /\ Identify(p, "Tpm2BridgeIdentity", content["slot"])
          \/ FallBack(p) /\ failures' = failures
      BY <1>2, <2>2 DEF OpenSlot
    <3>2. QED
      BY <1>1, <3>1, IdentifyType, FallBackType, StepNames
  <2>3. QED
    BY <2>1, <2>2
<1>3. CASE CreateSlot(p)
  BY <1>1, <1>3, CreateType, StepNames DEF CreateSlot
<1>4. CASE WriteSlot(p)
  BY <1>1, <1>4, WriteType, StepNames DEF WriteSlot
<1>5. CASE SlotFails(p)
  BY <1>1, <1>5, FallBackType DEF SlotFails
<1>6. CASE OpenKey(p)
  <2>1. \/ /\ Goto(p, "pub_create") /\ made' = made
           /\ Identify(p, "FileBridgeIdentity", content["key"])
        \/ /\ Goto(p, "keyring")
           /\ UNCHANGED <<disk, path, primary, memory, bounds, history>>
    BY <1>6 DEF OpenKey, bounds
  <2>2. QED
    BY <1>1, <2>1, IdentifyType, MoveType, StepNames
<1>7. CASE OpenKeyring(p)
  <2>1. \/ /\ Goto(p, "pub_create") /\ made' = made
           /\ Identify(p, "FileBridgeIdentity", keyring)
        \/ /\ Goto(p, "key_create") /\ made' = made + 1
           /\ Identify(p, "FileBridgeIdentity", made')
    BY <1>7 DEF OpenKeyring, Generate
  <2>2. QED
    BY <1>1, <2>1, IdentifyType, StepNames
<1>8. CASE CreateKey(p)
  <2>1. replaced' \in BOOLEAN
    BY <1>1, <1>8 DEF CreateKey
  <2>2. QED
    BY <1>8, <2>1, CreateType, StepNames DEF CreateKey
<1>9. CASE WriteKey(p)
  BY <1>1, <1>9, WriteType, StepNames DEF WriteKey
<1>10. CASE Mirror(p)
  <2>1. pc' \in [Process -> Steps]
    BY <1>10, GotoType, StepNames DEF Mirror
  <2>2. QED
    BY <1>1, <1>10, <2>1 DEF Mirror, TypeOK, memory, bounds, history
<1>11. CASE CreatePub(p)
  BY <1>1, <1>11, CreateType, StepNames DEF CreatePub
<1>12. CASE WritePub(p)
  BY <1>1, <1>12, WriteType, StepNames DEF WritePub
<1>13. CASE MisreadKey(p)
  <2>1. pc' \in [Process -> Steps]
    BY <1>13, GotoType, StepNames DEF MisreadKey
  <2>2. failures' \in Nat /\ misread' \subseteq Process
    <3>1. failures' = failures + 1 /\ misread' = misread \cup {p} /\ misread \subseteq Process
      BY <1>13 DEF MisreadKey, TypeOK
    <3>2. QED
      BY <1>1, <3>1
  <2>3. QED
    BY <1>13, <2>1, <2>2 DEF MisreadKey, TypeOK, disk, memory
<1>14. QED
  BY <1>2, <1>3, <1>4, <1>5, <1>6, <1>7, <1>8, <1>9, <1>10, <1>11, <1>12, <1>13
     DEF SelectIdentity

LEMMA BridgeNewType ==
    ASSUME TypeOK, NEW p \in Process, BridgeNew(p)
    PROVE  TypeOK'
<1>1. /\ \A f \in File : content[f] \in Nat
      /\ ecies_key[p] \in Nat /\ kind[p] \in Kind /\ made \in Nat /\ failures \in Nat
  BY DEF TypeOK
<1>2. CASE LoadEcies(p)
  <2>1. \/ /\ Goto(p, "ecies_create")
           /\ ecies_key' = [ecies_key EXCEPT ![p] = made']
           /\ made' = made + 1
           /\ UNCHANGED <<disk, path, primary, require_hardware, identity, kind,
                          starts, failures, history>>
        \/ /\ Goto(p, "kind_create")
           /\ ecies_key' = [ecies_key EXCEPT ![p] = content["ecies"]]
           /\ made' = made
           /\ UNCHANGED <<disk, path, primary, require_hardware, identity, kind,
                          starts, failures, history>>
        \/ Gone(p) /\ failures' = failures
    BY <1>2 DEF LoadEcies, Generate, Exit
  <2>2. ASSUME NEW step \in Steps, NEW key \in Nat,
               Goto(p, step), ecies_key' = [ecies_key EXCEPT ![p] = key],
               made' \in Nat,
               UNCHANGED <<disk, path, primary, require_hardware, identity, kind,
                           starts, failures, history>>
        PROVE  TypeOK'
    <3>1. pc' \in [Process -> Steps] /\ ecies_key' \in [Process -> Nat]
      BY <2>2, GotoType DEF TypeOK
    <3>2. QED
      BY <2>2, <3>1 DEF TypeOK, disk, history
  <2>3. CASE Gone(p) /\ failures' = failures
    BY <1>1, <2>3, GoneType
  <2>4. QED
    BY <1>1, <2>1, <2>2, <2>3, StepNames
<1>3. CASE CreateEcies(p)
  <2>1. replaced' \in BOOLEAN
    BY <1>3 DEF CreateEcies, TypeOK
  <2>2. QED
    BY <1>3, <2>1, CreateType, StepNames DEF CreateEcies
<1>4. CASE WriteEcies(p)
  BY <1>1, <1>4, WriteType, StepNames DEF WriteEcies
<1>5. CASE CreateKind(p)
  <2>1. pc' \in [Process -> Steps]
    BY <1>5, GotoType, StepNames DEF CreateKind
  <2>2. QED
    BY <1>5, <2>1 DEF CreateKind, TypeOK, memory, bounds, history
<1>6. CASE WriteKind(p)
  <2>1. pc' \in [Process -> Steps]
    BY <1>6, GotoType, StepNames DEF WriteKind
  <2>2. QED
    BY <1>1, <1>6, <2>1 DEF WriteKind, TypeOK, memory, bounds, history
<1>7. CASE SquatProbe(p) \/ SquatStat(p)
  <2>1. \/ /\ Goto(p, "squat_stat") \/ Goto(p, "ecies")
           /\ UNCHANGED <<disk, path, primary, memory, bounds, history>>
        \/ Gone(p) /\ failures' = failures
    BY <1>7 DEF SquatProbe, SquatStat, Exit
  <2>2. QED
    BY <1>1, <2>1, MoveType, GoneType, StepNames
<1>8. QED
  BY <1>2, <1>3, <1>4, <1>5, <1>6, <1>7 DEF BridgeNew

LEMMA RunSocketServerType ==
    ASSUME TypeOK, NEW p \in Process, RunSocketServer(p) \/ Register(p)
    PROVE  TypeOK'
<1>1. CASE Probe(p)
  BY <1>1, MoveType, StepNames DEF Probe
<1>2. CASE ServerFails(p)
  BY <1>2, ServerFailsType
<1>3. CASE \E step \in {"bind", "chmod", "serving"} :
              /\ Goto(p, step)
              /\ path' \in {path, p, Nobody}
              /\ UNCHANGED <<disk, primary, memory, bounds, history>>
  <2>1. pc' \in [Process -> Steps]
    BY <1>3, GotoType, StepNames
  <2>2. QED
    BY <1>3, <2>1 DEF TypeOK, disk, memory, bounds, history
<1>4. CASE Register(p)
  <2>1. CASE primary = Nobody
    BY <1>4, <2>1 DEF Register, TypeOK, disk, memory, bounds, history
  <2>2. CASE primary # Nobody
    <3>1. Gone(p) /\ failures' \in Nat
      BY <1>4, <2>2 DEF Register, Exit, TypeOK
    <3>2. QED
      BY <3>1, GoneType
  <2>3. QED
    BY <2>1, <2>2
<1>5. QED
  BY <1>1, <1>2, <1>3, <1>4 DEF RunSocketServer, Remove, Bind, Chmod

LEMMA StartupTypeStep == TypeOK /\ [Next]_vars => TypeOK'
<1> SUFFICES ASSUME TypeOK, [Next]_vars PROVE TypeOK'
  OBVIOUS
<1>0. failures \in Nat /\ starts \in Nat
  BY DEF TypeOK
<1>1. CASE UNCHANGED vars
  BY <1>1 DEF vars, TypeOK, disk, memory, bounds, history
<1>2. ASSUME NEW p \in Process, NEW device \in Device, NEW hardware \in Hardware,
             Start(p, device, hardware)
      PROVE  TypeOK'
  <2>1. pc' \in [Process -> Steps]
    BY <1>2, GotoType, StepNames DEF Start
  <2>2. require_hardware' = [require_hardware EXCEPT ![p] = hardware]
    BY <1>2 DEF Start
  <2>3. require_hardware' \in [Process -> BOOLEAN]
    <3>1. hardware \in BOOLEAN
      BY Facts
    <3>2. require_hardware \in [Process -> BOOLEAN]
      BY DEF TypeOK
    <3>3. QED
      BY <2>2, <3>1, <3>2, FlagType
  <2>4. /\ starts' \in Nat /\ latest' \in Process
        /\ UNCHANGED <<disk, path, primary, identity, kind, ecies_key, made, failures,
                       cut, orphaned, misread, replaced>>
    BY <1>0, <1>2 DEF Start
  <2>5. QED
    BY <2>1, <2>3, <2>4 DEF TypeOK, disk
<1>3. ASSUME NEW p \in Process, Die(p)
      PROVE  TypeOK'
  <2>1. Gone(p) /\ failures' \in Nat
    BY <1>0, <1>3 DEF Die
  <2>2. QED
    BY <2>1, GoneType
<1>4. QED
  BY <1>1, <1>2, <1>3, SelectIdentityType, BridgeNewType, RunSocketServerType DEF Next

\* Every variable of Startup keeps its type.
THEOREM StartupTypes == Spec => []TypeOK
<1>1. Init => TypeOK
  BY StartupTypeInit
<1>2. TypeOK /\ [Next]_vars => TypeOK'
  BY StartupTypeStep
<1>3. QED
  BY <1>1, <1>2, PTL DEF Spec
-----------------------------------------------------------------------------
\* The socket path.

\* A step of a process that neither listens nor is about to bind, before or
\* after it, except that it may come to bind.
LEMMA PathMove ==
    ASSUME TypeOK, SomeoneReachable, NEW p \in Process, NEW step, Goto(p, step),
           pc[p] \notin {"bind", "chmod", "serving"}, step \notin {"chmod", "serving"},
           path' = path, orphaned' = orphaned
    PROVE  SomeoneReachable'
<1>1. \A q \in Process : pc'[q] = IF q = p THEN step ELSE pc[q]
  BY DEF Goto, TypeOK
<1>2. Listening' = Listening
  BY <1>1 DEF Listening
<1>3. ASSUME NEW q \in Process, pc[q] = "bind"
      PROVE  pc'[q] = "bind"
  BY <1>1, <1>3
<1>4. QED
  BY <1>2, <1>3 DEF SomeoneReachable

\* A process disappears: either it had the path to itself, or it did not
\* matter to those that still listen, or the death is on record.
LEMMA PathGone ==
    ASSUME TypeOK, SomeoneReachable, NEW p \in Process, Gone(p)
    PROVE  SomeoneReachable'
<1>1. \A q \in Process : pc'[q] = IF q = p THEN "off" ELSE pc[q]
  BY DEF Gone, Goto, TypeOK
<1>2. Listening' = Listening \ {p}
  BY <1>1 DEF Listening
<1>3. SUFFICES ASSUME Listening \ {p} # {}, ~orphaned'
               PROVE  \/ path' \in Listening \ {p}
                      \/ path' = Nobody /\ \E q \in Process : pc'[q] = "bind"
  BY <1>2 DEF SomeoneReachable
<1>4. ~orphaned /\ path # p /\ pc[p] # "bind"
  BY <1>3 DEF Gone
<1>5. path' = path
  BY <1>4 DEF Gone
<1>6. CASE path \in Listening
  BY <1>4, <1>5, <1>6
<1>7. CASE path = Nobody /\ \E q \in Process : pc[q] = "bind"
  BY <1>1, <1>4, <1>5, <1>7
<1>8. QED
  BY <1>3, <1>4, <1>6, <1>7 DEF SomeoneReachable

LEMMA PathServerFails ==
    ASSUME TypeOK, SomeoneReachable, NEW p \in Process, ServerFails(p),
           \/ pc[p] \in {"remove", "chmod"} /\ path = Nobody
           \/ pc[p] = "bind" /\ path # Nobody
    PROVE  SomeoneReachable'
<1>1. CASE Gone(p)
  BY <1>1, PathGone
<1>2. CASE Goto(p, "deaf") /\ UNCHANGED <<path, orphaned>>
  <2>1. \A q \in Process : pc'[q] = IF q = p THEN "deaf" ELSE pc[q]
    BY <1>2 DEF Goto, TypeOK
  <2>2. Listening' = Listening \ {p}
    BY <2>1 DEF Listening
  <2>3. p \notin Listening \/ path = Nobody
    BY DEF Listening
  <2>4. path # p \/ p \notin Listening
    BY <2>3, Facts
  <2>5. CASE path = Nobody
    BY <1>2, <2>1, <2>2, <2>5, Facts DEF SomeoneReachable, Listening
  <2>6. CASE path # Nobody
    BY <1>2, <2>2, <2>4, <2>6 DEF SomeoneReachable
  <2>7. QED
    BY <2>5, <2>6
<1>3. QED
  BY <1>1, <1>2 DEF ServerFails, Exit, history

LEMMA PathRunSocketServer ==
    ASSUME TypeOK, SomeoneReachable, NEW p \in Process, RunSocketServer(p)
    PROVE  SomeoneReachable'
<1>1. CASE Probe(p)
  BY <1>1, PathMove DEF Probe, history
<1>2. CASE Remove(p)
  <2>1. CASE path = Nobody
    BY <1>2, <2>1, PathServerFails DEF Remove
  <2>2. CASE path # Nobody
    <3>1. pc'[p] = "bind" /\ path' = Nobody
      BY <1>2, <2>2 DEF Remove, Goto, TypeOK
    <3>2. QED
      BY <3>1 DEF SomeoneReachable
  <2>3. QED
    BY <2>1, <2>2
<1>3. CASE Bind(p)
  <2>1. CASE path # Nobody
    BY <1>3, <2>1, PathServerFails DEF Bind
  <2>2. CASE path = Nobody
    <3>1. pc'[p] = "chmod" /\ path' = p
      BY <1>3, <2>2 DEF Bind, Goto, TypeOK
    <3>2. p \in Listening'
      BY <3>1 DEF Listening
    <3>3. QED
      BY <3>1, <3>2 DEF SomeoneReachable
  <2>3. QED
    BY <2>1, <2>2
<1>4. CASE Chmod(p)
  <2>1. CASE path = Nobody
    BY <1>4, <2>1, PathServerFails DEF Chmod
  <2>2. CASE path # Nobody
    <3>1. \A q \in Process : pc'[q] = IF q = p THEN "serving" ELSE pc[q]
      BY <1>4, <2>2 DEF Chmod, Goto, TypeOK
    <3>2. Listening' = Listening
      BY <1>4, <3>1 DEF Chmod, Listening
    <3>3. path' = path /\ orphaned' = orphaned
      BY <1>4, <2>2 DEF Chmod, history
    <3>4. QED
      BY <2>2, <3>2, <3>3 DEF SomeoneReachable
  <2>3. QED
    BY <2>1, <2>2
<1>5. QED
  BY <1>1, <1>2, <1>3, <1>4 DEF RunSocketServer

\* No step of the selection of an identity, or of Bridge::new, touches the path.
LEMMA PathSelectIdentity ==
    ASSUME TypeOK, SomeoneReachable, NEW p \in Process, SelectIdentity(p)
    PROVE  SomeoneReachable'
<1>1. CASE Gone(p)
  BY <1>1, PathGone
<1>2. CASE \E step \in Starting \ {"bind", "chmod"} :
              /\ Goto(p, step)
              /\ pc[p] \notin {"bind", "chmod", "serving"}
              /\ path' = path /\ orphaned' = orphaned
  BY <1>2, PathMove DEF Starting, SocketSteps
<1>3. CASE FallBack(p) /\ pc[p] \in {"slot", "slot_create", "slot_write", "pub_create",
                                      "pub_write"}
  <2>1. "key" \in Starting \ {"bind", "chmod"}
    BY DEF Starting
  <2>2. QED
    BY <1>1, <1>2, <1>3, <2>1 DEF FallBack, history
<1>4. {"slot_create", "slot_write", "keyring", "key_create", "key_write", "mirror",
       "pub_create", "pub_write", "squat_probe"} \subseteq Starting \ {"bind", "chmod"}
  BY DEF Starting
<1>5. CASE OpenSlot(p)
  BY <1>2, <1>3, <1>4, <1>5 DEF OpenSlot, Generate, Identify, history
<1>6. CASE CreateSlot(p) \/ CreateKey(p) \/ CreatePub(p)
  BY <1>2, <1>4, <1>6 DEF CreateSlot, CreateKey, CreatePub, Create, history
<1>7. CASE WriteSlot(p) \/ WriteKey(p) \/ WritePub(p)
  BY <1>2, <1>4, <1>7 DEF WriteSlot, WriteKey, WritePub, Write, history
<1>8. CASE SlotFails(p)
  BY <1>3, <1>8 DEF SlotFails
<1>9. CASE OpenKey(p) \/ MisreadKey(p)
  BY <1>2, <1>4, <1>9 DEF OpenKey, MisreadKey, Identify, history
<1>10. CASE OpenKeyring(p)
  BY <1>2, <1>4, <1>10 DEF OpenKeyring, Generate, Identify, history
<1>11. CASE Mirror(p)
  BY <1>2, <1>4, <1>11 DEF Mirror, history
<1>12. QED
  BY <1>5, <1>6, <1>7, <1>8, <1>9, <1>10, <1>11 DEF SelectIdentity

LEMMA PathBridgeNew ==
    ASSUME TypeOK, SomeoneReachable, NEW p \in Process, BridgeNew(p)
    PROVE  SomeoneReachable'
<1>1. CASE Gone(p)
  BY <1>1, PathGone
<1>2. CASE \E step \in Starting \ {"bind", "chmod"} :
              /\ Goto(p, step)
              /\ pc[p] \notin {"bind", "chmod", "serving"}
              /\ path' = path /\ orphaned' = orphaned
  BY <1>2, PathMove DEF Starting, SocketSteps
<1>3. {"squat_stat", "ecies", "ecies_create", "ecies_write", "kind_create",
       "kind_write", "probe"} \subseteq Starting \ {"bind", "chmod"}
  BY DEF Starting, SocketSteps
<1>4. CASE LoadEcies(p)
  BY <1>1, <1>2, <1>3, <1>4 DEF LoadEcies, Generate, Exit, history
<1>5. CASE CreateEcies(p) \/ WriteEcies(p)
  BY <1>2, <1>3, <1>5 DEF CreateEcies, WriteEcies, Create, Write, history
<1>6. CASE CreateKind(p) \/ WriteKind(p)
  BY <1>2, <1>3, <1>6 DEF CreateKind, WriteKind, history
<1>7. CASE SquatProbe(p) \/ SquatStat(p)
  BY <1>1, <1>2, <1>3, <1>7 DEF SquatProbe, SquatStat, Exit, history
<1>8. QED
  BY <1>4, <1>5, <1>6, <1>7 DEF BridgeNew

\* However many instances start together, the path comes to name a listener
\* again unless a death took it away.
THEOREM PathNamesListener == Spec => []SomeoneReachable
<1>1. Init => SomeoneReachable
  BY DEF Init, SomeoneReachable, Listening
<1>2. TypeOK /\ SomeoneReachable /\ [Next]_vars => SomeoneReachable'
  <2> SUFFICES ASSUME TypeOK, SomeoneReachable, [Next]_vars
               PROVE  SomeoneReachable'
    OBVIOUS
  <2>1. CASE UNCHANGED vars
    BY <2>1 DEF vars, history, SomeoneReachable, Listening
  <2>2. ASSUME NEW p \in Process, NEW device \in Device, NEW hardware \in Hardware,
               Start(p, device, hardware)
        PROVE  SomeoneReachable'
    <3>1. \E step \in {"slot", "key"} : Goto(p, step)
      BY <2>2 DEF Start
    <3>2. pc[p] = "off" /\ path' = path /\ orphaned' = orphaned
      BY <2>2 DEF Start
    <3>3. QED
      BY <3>1, <3>2, PathMove
  <2>3. ASSUME NEW p \in Process, Register(p)
        PROVE  SomeoneReachable'
    <3>1. CASE primary = Nobody
      BY <2>3, <3>1 DEF Register, history, SomeoneReachable, Listening
    <3>2. CASE primary # Nobody
      BY <2>3, <3>2, PathGone DEF Register, Exit
    <3>3. QED
      BY <3>1, <3>2
  <2>4. ASSUME NEW p \in Process, Die(p)
        PROVE  SomeoneReachable'
    BY <2>4, PathGone DEF Die
  <2>5. QED
    BY <2>1, <2>2, <2>3, <2>4, PathSelectIdentity, PathBridgeNew,
       PathRunSocketServer DEF Next
<1>3. QED
  BY <1>1, <1>2, StartupTypes, PTL DEF Spec
-----------------------------------------------------------------------------
\* The keys on disk and in memory, when starts do not overlap.

\* A step of one process that writes at most one file, which holds no key until
\* then or is the key file and replaced.
LEMMA KeysMove ==
    ASSUME TypeOK, KeysInv, NEW p \in Process, NEW step \in Steps, Goto(p, step),
           pc[p] \in Starting \/ step \notin Starting,
           exists \subseteq exists',
           \A q \in Process \ {p} : /\ identity'[q] = identity[q]
                                    /\ kind'[q] = kind[q]
                                    /\ ecies_key'[q] = ecies_key[q],
           \A q \in Process \ {p} : q \in misread => q \in misread',
           replaced => replaced',
           NEW f \in File,
           \A g \in File \ {f} : content'[g] = content[g],
           \/ content'[f] = content[f]
           \/ f = "pub"
           \/ content[f] = 0 /\ pc[p] \in Starting
           \/ f = "key" /\ replaced' /\ pc[p] \in Starting,
           DiskSound', KeysKept(p)'
    PROVE  KeysInv'
<1>1. \A q \in Process : pc'[q] = IF q = p THEN step ELSE pc[q]
  BY DEF Goto, TypeOK
<1>2. Alone'
  BY <1>1 DEF KeysInv, Alone
<1>3. ASSUME NEW q \in Process, q # p
      PROVE  KeysKept(q)'
  <2>1. KeysKept(q) /\ pc'[q] = pc[q]
    BY <1>1, <1>3 DEF KeysInv
  <2>2. KeyFile[kind[q]] \in {"slot", "key"}
    BY StepNames DEF TypeOK, KeyFile, Kind
  <2>3. /\ "slot" \in File /\ "key" \in File /\ "ecies" \in File
        /\ f # "pub" \/ (f # "slot" /\ f # "key" /\ f # "ecies")
    BY StepNames
  <2>4. CASE content'[f] = content[f] \/ f = "pub"
    <3>1. \A g \in {"slot", "key", "ecies"} : content'[g] = content[g]
      BY <2>3, <2>4
    <3>2. QED
      BY <1>3, <2>1, <2>2, <3>1 DEF KeysKept
  <2>5. CASE (content[f] = 0 \/ (f = "key" /\ replaced')) /\ pc[p] \in Starting
    <3>1. pc[q] \notin Starting
      BY <1>3, <2>5 DEF KeysInv, Alone
    <3>2. pc[q] \in {"off", "serving", "deaf"}
      BY <3>1 DEF TypeOK, Steps
    <3>3. CASE pc[q] = "off"
      BY <2>1, <3>3 DEF KeysKept, Identified, Keyed, Starting, SocketSteps
    <3>4. CASE pc[q] \in {"serving", "deaf"}
      <4>1. pc[q] \in Identified /\ pc[q] \in Keyed
        BY <3>4 DEF Identified, Keyed
      <4>2. /\ identity[q] # 0 /\ ecies_key[q] # 0 /\ ecies_key[q] = content["ecies"]
            /\ \/ identity[q] = content[KeyFile[kind[q]]]
               \/ kind[q] = "FileBridgeIdentity" /\ replaced
        BY <2>1, <4>1 DEF KeysKept
      <4>3. content'["ecies"] = content["ecies"]
        BY <2>3, <2>5, <4>2
      <4>4. \/ content'[KeyFile[kind[q]]] = content[KeyFile[kind[q]]]
            \/ kind[q] = "FileBridgeIdentity" /\ replaced'
        <5>1. kind[q] # "FileBridgeIdentity" => KeyFile[kind[q]] = "slot"
          BY DEF TypeOK, Kind, KeyFile
        <5>2. CASE f = KeyFile[kind[q]]
          BY <2>5, <4>2, <5>1, <5>2
        <5>3. CASE f # KeyFile[kind[q]]
          BY <2>2, <2>3, <5>3
        <5>4. QED
          BY <5>2, <5>3
      <4>5. /\ pc'[q] = pc[q] /\ identity'[q] = identity[q] /\ kind'[q] = kind[q]
            /\ ecies_key'[q] = ecies_key[q]
        BY <1>3, <2>1
      <4>6. \/ identity'[q] = content'[KeyFile[kind'[q]]]
            \/ kind'[q] = "FileBridgeIdentity" /\ replaced'
        BY <4>2, <4>4, <4>5
      <4>7. QED
        BY <3>4, <4>2, <4>3, <4>5, <4>6 DEF KeysKept
    <3>5. QED
      BY <3>2, <3>3, <3>4
  <2>6. QED
    BY <2>4, <2>5
<1>4. QED
  BY <1>2, <1>3 DEF KeysInv

\* A step that leaves the disk as it is.
LEMMA KeysStay ==
    ASSUME TypeOK, KeysInv, NEW p \in Process, NEW step \in Steps, Goto(p, step),
           pc[p] \in Starting \/ step \notin Starting,
           UNCHANGED <<exists, content, keyring, replaced>>,
           \A q \in Process \ {p} : /\ identity'[q] = identity[q]
                                    /\ kind'[q] = kind[q]
                                    /\ ecies_key'[q] = ecies_key[q],
           \A q \in Process \ {p} : q \in misread => q \in misread',
           KeysKept(p)'
    PROVE  KeysInv'
<1>1. DiskSound'
  BY DEF KeysInv, DiskSound
<1>2. \A g \in File : content'[g] = content[g]
  OBVIOUS
<1>3. QED
  BY <1>1, <1>2, KeysMove, StepNames

LEMMA KeysGone ==
    ASSUME TypeOK, KeysInv, NEW p \in Process, Gone(p)
    PROVE  KeysInv'
<1>1. pc'[p] = "off"
  BY DEF Gone, Goto, TypeOK
<1>2. KeysKept(p)'
  BY <1>1 DEF KeysKept, Identified, Keyed, Starting, SocketSteps
<1>3. \A q \in Process \ {p} : /\ identity'[q] = identity[q]
                               /\ kind'[q] = kind[q]
                               /\ ecies_key'[q] = ecies_key[q]
  BY DEF Gone, TypeOK
<1>4. "off" \notin Starting
  BY DEF Starting, SocketSteps
<1>5. QED
  BY <1>2, <1>3, <1>4, KeysStay, StepNames DEF Gone, disk

\* One that leaves all keys in memory as they are, too.
LEMMA KeysPass ==
    ASSUME TypeOK, KeysInv, NEW p \in Process, NEW step \in Steps, Goto(p, step),
           pc[p] \in Starting \/ step \notin Starting,
           UNCHANGED <<exists, content, keyring, identity, kind, ecies_key, replaced>>,
           misread \subseteq misread',
           \/ pc[p] \in Identified /\ step \in {"pub_create", "pub_write", "squat_stat", "ecies"}
           \/ pc[p] \in Keyed /\ step \in Keyed
           \/ step = "key"
           \/ step = "keyring" /\ (content["key"] = 0 \/ p \in misread')
    PROVE  KeysInv'
<1>1. pc'[p] = step
  BY DEF Goto, TypeOK
<1>2. Keyed \subseteq Identified
  BY DEF Keyed, Identified, Starting, SocketSteps
<1>3. KeysKept(p)
  BY DEF KeysInv
<1>4. CASE pc[p] \in Identified /\ step \in {"pub_create", "pub_write", "squat_stat", "ecies"}
  <2>1. step \in Identified /\ step \notin Keyed
    BY <1>4 DEF Identified, Keyed, Starting, SocketSteps
  <2>2. KeysKept(p)'
    BY <1>1, <1>3, <1>4, <2>1 DEF KeysKept
  <2>3. QED
    BY <2>2, KeysStay
<1>5. CASE pc[p] \in Keyed /\ step \in Keyed
  <2>1. step \notin {"slot_create", "slot_write", "keyring", "key_create", "key_write",
                     "mirror", "ecies_create", "ecies_write"}
    BY <1>5 DEF Keyed, SocketSteps
  <2>2. KeysKept(p)'
    BY <1>1, <1>2, <1>3, <1>5, <2>1 DEF KeysKept
  <2>3. QED
    BY <2>2, KeysStay
<1>6. CASE /\ step \in {"key", "keyring"}
           /\ step = "keyring" => content["key"] = 0 \/ p \in misread'
  <2>1. step \notin Identified /\ step \notin Keyed
    BY <1>6 DEF Identified, Keyed, SocketSteps
  <2>2. KeysKept(p)'
    BY <1>1, <1>6, <2>1 DEF KeysKept
  <2>3. QED
    BY <2>2, KeysStay
<1>7. QED
  BY <1>4, <1>5, <1>6

\* A process opens a file for its key, still empty, or publishes one.
LEMMA KeysCreate ==
    ASSUME TypeOK, KeysInv, NEW p \in Process, NEW step, NEW f \in File,
           NEW truncate \in BOOLEAN, NEW next \in Steps,
           Create(p, step, f, truncate, next), step \in Starting,
           replaced => replaced',
           f = "pub" \/ content[f] = 0 \/ (f = "key" /\ replaced'), KeysKept(p)'
    PROVE  KeysInv'
<1>1. /\ \A g \in File \ {f} : content'[g] = content[g]
      /\ content'[f] = content[f] \/ f = "pub" \/ (f = "key" /\ replaced')
  BY DEF Create, TypeOK
<1>2. DiskSound'
  BY <1>1, StepNames DEF KeysInv, DiskSound, Create
<1>3. /\ Goto(p, next) /\ pc[p] \in Starting /\ exists \subseteq exists'
      /\ UNCHANGED <<identity, kind, ecies_key, misread>>
  BY DEF Create, memory
<1>4. QED
  BY <1>1, <1>2, <1>3, KeysMove

\* It writes its key to the file it opened.
LEMMA KeysWrite ==
    ASSUME TypeOK, KeysInv, NEW p \in Process, NEW step, NEW f \in File,
           NEW key \in Nat, NEW next \in Steps, Write(p, step, f, key, next),
           step \in Starting, key # 0,
           f = "pub" \/ content[f] = 0,
           f \in {"slot", "ecies"} => f \in exists,
           KeysKept(p)'
    PROVE  KeysInv'
<1>1. /\ \A g \in File \ {f} : content'[g] = content[g]
      /\ content'[f] = key /\ exists' = exists /\ keyring' = keyring
      /\ replaced' = replaced /\ misread' = misread
  BY DEF Write, TypeOK, history
<1>2. DiskSound'
  BY <1>1, StepNames DEF KeysInv, DiskSound
<1>3. /\ Goto(p, next) /\ pc[p] \in Starting
      /\ UNCHANGED <<identity, kind, ecies_key>>
  BY DEF Write, memory
<1>4. QED
  BY <1>1, <1>2, <1>3, KeysMove

\* A process takes the identity it found, or a new one.
LEMMA KeysIdentify ==
    ASSUME TypeOK, KeysInv, NEW p \in Process, NEW step \in Steps, Goto(p, step),
           NEW k \in Kind, NEW key \in Nat, Identify(p, k, key), key # 0,
           pc[p] \in Starting,
           \/ /\ step = "pub_create"
              /\ key = content[KeyFile[k]] \/ (k = "FileBridgeIdentity" /\ replaced)
           \/ step = "slot_create" /\ k = "Tpm2BridgeIdentity" /\ content["slot"] = 0
           \/ /\ step = "key_create" /\ k = "FileBridgeIdentity"
              /\ content["key"] = 0 \/ p \in misread
    PROVE  KeysInv'
<1>1. /\ pc'[p] = step /\ identity'[p] = key /\ kind'[p] = k
      /\ UNCHANGED <<exists, content, keyring, ecies_key, replaced, misread>>
  BY DEF Goto, Identify, TypeOK, disk, history
<1>2. \A q \in Process \ {p} : /\ identity'[q] = identity[q]
                               /\ kind'[q] = kind[q]
                               /\ ecies_key'[q] = ecies_key[q]
  BY DEF Identify, TypeOK
<1>3. step \notin Keyed /\ (step \in Identified => step = "pub_create")
  BY DEF Keyed, Identified, SocketSteps, Starting
<1>4. KeysKept(p)'
  BY <1>1, <1>3 DEF KeysKept
<1>5. QED
  BY <1>1, <1>2, <1>4, KeysStay

LEMMA KeysFallBack ==
    ASSUME TypeOK, KeysInv, NEW p \in Process, FallBack(p), pc[p] \in Starting
    PROVE  KeysInv'
<1>1. CASE Gone(p)
  BY <1>1, KeysGone
<1>2. CASE Goto(p, "key") /\ UNCHANGED <<disk, memory, history>>
  BY <1>2, KeysPass, StepNames DEF disk, memory, history
<1>3. QED
  BY <1>1, <1>2 DEF FallBack

\* The steps at which a process is starting, and what it has settled then.
LEMMA Stages ==
    /\ Starting = Steps \ {"off", "serving", "deaf"}
    /\ SocketSteps \subseteq Keyed /\ Keyed \subseteq Identified
    /\ {"pub_create", "pub_write", "squat_probe", "squat_stat", "ecies", "ecies_create",
        "ecies_write"}
           \subseteq Identified \ Keyed
    /\ {"off", "slot", "slot_create", "slot_write", "key", "keyring", "key_create",
        "key_write", "mirror"} \cap Identified = {}
    /\ {"kind_create", "kind_write", "serving", "deaf"} \subseteq Keyed
BY DEF Starting, Steps, SocketSteps, Identified, Keyed

LEMMA KeysSelectIdentity ==
    ASSUME TypeOK, KeysInv, NEW p \in Process, SelectIdentity(p)
    PROVE  KeysInv'
<1>1. /\ \A f \in File : content[f] \in Nat
      /\ identity[p] \in Nat /\ keyring \in Nat /\ made + 1 \in Nat \ {0}
      /\ kind[p] \in Kind
  <2>1. /\ identity[p] \in Nat /\ keyring \in Nat /\ made \in Nat
        /\ \A f \in File : content[f] \in Nat
        /\ kind[p] \in Kind
    BY DEF TypeOK
  <2>2. QED
    BY <2>1
<1>2. KeysKept(p) /\ DiskSound
  BY DEF KeysInv
<1>3. /\ KeyFile["Tpm2BridgeIdentity"] = "slot" /\ KeyFile["FileBridgeIdentity"] = "key"
  BY StepNames DEF KeyFile
<1>4. CASE OpenSlot(p)
  <2>1. pc[p] \in Starting
    BY <1>4, Stages, StepNames DEF OpenSlot
  <2>2. \/ /\ "slot" \notin exists /\ made' = made + 1
           /\ Goto(p, "slot_create") /\ Identify(p, "Tpm2BridgeIdentity", made')
        \/ /\ content["slot"] # 0
           /\ Goto(p, "pub_create") /\ Identify(p, "Tpm2BridgeIdentity", content["slot"])
        \/ FallBack(p)
    BY <1>4 DEF OpenSlot, Generate
  <2>3. "slot" \notin exists => content["slot"] = 0
    BY <1>2 DEF DiskSound
  <2>4. QED
    BY <1>1, <1>3, <2>1, <2>2, <2>3, KeysIdentify, KeysFallBack, StepNames
<1>5. CASE CreateSlot(p)
  <2>1. /\ pc'[p] = "slot_write" /\ content'["slot"] = 0 /\ "slot" \in exists'
        /\ identity'[p] = identity[p] /\ kind'[p] = kind[p] /\ pc[p] = "slot_create"
    BY <1>5, StepNames DEF CreateSlot, Create, Goto, TypeOK, memory
  <2>2. KeysKept(p)'
    BY <1>2, <2>1, Stages DEF KeysKept
  <2>3. content["slot"] = 0
    BY <1>2, <2>1 DEF KeysKept
  <2>4. QED
    BY <1>5, <2>2, <2>3, KeysCreate, Stages, StepNames DEF CreateSlot
<1>6. CASE WriteSlot(p)
  <2>1. /\ pc'[p] = "pub_create" /\ content'["slot"] = identity[p] /\ pc[p] = "slot_write"
        /\ identity'[p] = identity[p] /\ kind'[p] = kind[p]
    BY <1>6, StepNames DEF WriteSlot, Write, Goto, TypeOK, memory
  <2>2. /\ content["slot"] = 0 /\ "slot" \in exists /\ identity[p] # 0
        /\ kind[p] = "Tpm2BridgeIdentity"
    BY <1>2, <2>1 DEF KeysKept
  <2>3. KeysKept(p)'
    BY <1>3, <2>1, <2>2, Stages DEF KeysKept
  <2>4. QED
    BY <1>1, <1>6, <2>2, <2>3, KeysWrite, Stages, StepNames DEF WriteSlot
<1>7. CASE SlotFails(p)
  BY <1>7, KeysFallBack, Stages, StepNames DEF SlotFails
<1>8. CASE OpenKey(p) \/ MisreadKey(p)
  <2>1. pc[p] \in Starting
    BY <1>8, Stages, StepNames DEF OpenKey, MisreadKey
  <2>2. \/ /\ content["key"] # 0
           /\ Goto(p, "pub_create") /\ Identify(p, "FileBridgeIdentity", content["key"])
        \/ /\ content["key"] = 0 \/ p \in misread'
           /\ misread \subseteq misread'
           /\ Goto(p, "keyring") /\ UNCHANGED <<disk, memory, replaced>>
    BY <1>8 DEF OpenKey, MisreadKey, history
  <2>3. QED
    BY <1>1, <1>3, <2>1, <2>2, KeysIdentify, KeysPass, StepNames DEF disk, memory
<1>9. CASE OpenKeyring(p)
  <2>1. pc[p] = "keyring" /\ pc[p] \in Starting
    BY <1>9, Stages, StepNames DEF OpenKeyring
  <2>2. content["key"] = 0 \/ p \in misread
    BY <1>2, <2>1 DEF KeysKept
  <2>3. keyring # 0 => keyring = content["key"] \/ replaced
    BY <1>2 DEF DiskSound
  <2>4. \/ /\ keyring # 0
           /\ Goto(p, "pub_create") /\ Identify(p, "FileBridgeIdentity", keyring)
        \/ /\ Goto(p, "key_create") /\ made' = made + 1
           /\ Identify(p, "FileBridgeIdentity", made')
    BY <1>9 DEF OpenKeyring, Generate
  <2>5. QED
    BY <1>1, <1>3, <2>1, <2>2, <2>3, <2>4, KeysIdentify, StepNames
<1>10. CASE CreateKey(p)
  <2>1. /\ pc'[p] = "key_write" /\ content'["key"] = 0 /\ pc[p] = "key_create"
        /\ identity'[p] = identity[p] /\ kind'[p] = kind[p]
    BY <1>10, StepNames DEF CreateKey, Create, Goto, TypeOK, memory
  <2>2. KeysKept(p)'
    BY <1>2, <2>1, Stages DEF KeysKept
  <2>3. (replaced => replaced') /\ (content["key"] = 0 \/ replaced')
    BY <1>2, <1>10, <2>1 DEF KeysKept, CreateKey
  <2>4. QED
    BY <1>10, <2>2, <2>3, KeysCreate, Stages, StepNames DEF CreateKey
<1>11. CASE WriteKey(p)
  <2>1. /\ pc'[p] = "mirror" /\ content'["key"] = identity[p] /\ pc[p] = "key_write"
        /\ identity'[p] = identity[p] /\ kind'[p] = kind[p]
    BY <1>11, StepNames DEF WriteKey, Write, Goto, TypeOK, memory
  <2>2. /\ content["key"] = 0 /\ identity[p] # 0 /\ kind[p] = "FileBridgeIdentity"
    BY <1>2, <2>1 DEF KeysKept
  <2>3. KeysKept(p)'
    BY <1>3, <2>1, <2>2, Stages DEF KeysKept
  <2>4. QED
    BY <1>1, <1>11, <2>2, <2>3, KeysWrite, Stages, StepNames DEF WriteKey
<1>12. CASE Mirror(p)
  <2>1. /\ pc'[p] = "pub_create" /\ pc[p] = "mirror" /\ keyring' \in {keyring, identity[p]}
        /\ Goto(p, "pub_create")
        /\ UNCHANGED <<exists, content, identity, kind, ecies_key, misread, replaced>>
    BY <1>12, StepNames DEF Mirror, Goto, TypeOK, memory, history
  <2>2. identity[p] # 0 /\ content["key"] = identity[p]
    BY <1>2, <1>3, <2>1 DEF KeysKept
  <2>3. DiskSound'
    BY <1>2, <2>1, <2>2 DEF DiskSound
  <2>4. KeysKept(p)'
    BY <1>2, <1>3, <2>1, Stages DEF KeysKept
  <2>5. \A g \in File : content'[g] = content[g]
    BY <2>1
  <2>6. QED
    BY <2>1, <2>3, <2>4, <2>5, KeysMove, Stages, StepNames
<1>13. CASE CreatePub(p)
  <2>1. /\ pc'[p] = "pub_write" /\ pc[p] = "pub_create"
        /\ \A f \in {"slot", "key", "ecies"} : content'[f] = content[f]
        /\ identity'[p] = identity[p] /\ kind'[p] = kind[p] /\ replaced' = replaced
    BY <1>13, StepNames DEF CreatePub, Create, Goto, TypeOK, memory
  <2>2. KeyFile[kind[p]] \in {"slot", "key"}
    BY <1>1, <1>3 DEF Kind
  <2>3. KeysKept(p)'
    BY <1>2, <2>1, <2>2, Stages DEF KeysKept
  <2>4. QED
    BY <1>13, <2>3, KeysCreate, Stages, StepNames DEF CreatePub
<1>14. CASE WritePub(p)
  <2>1. /\ pc'[p] = "squat_probe" /\ pc[p] = "pub_write"
        /\ \A f \in {"slot", "key", "ecies"} : content'[f] = content[f]
        /\ identity'[p] = identity[p] /\ kind'[p] = kind[p] /\ replaced' = replaced
    BY <1>14, StepNames DEF WritePub, Write, Goto, TypeOK, memory, history
  <2>2. KeyFile[kind[p]] \in {"slot", "key"} /\ identity[p] # 0
    BY <1>1, <1>2, <1>3, <2>1, Stages DEF Kind, KeysKept
  <2>3. KeysKept(p)'
    BY <1>2, <2>1, <2>2, Stages DEF KeysKept
  <2>4. QED
    BY <1>1, <1>14, <2>2, <2>3, KeysWrite, Stages, StepNames DEF WritePub
<1>15. QED
  BY <1>4, <1>5, <1>6, <1>7, <1>8, <1>9, <1>10, <1>11, <1>12, <1>13, <1>14
     DEF SelectIdentity

LEMMA KeysBridgeNew ==
    ASSUME TypeOK, KeysInv, NEW p \in Process, BridgeNew(p)
    PROVE  KeysInv'
<1>1. /\ content["ecies"] \in Nat /\ ecies_key[p] \in Nat /\ made + 1 \in Nat \ {0}
      /\ kind[p] \in Kind
  <2>1. made \in Nat /\ content["ecies"] \in Nat /\ ecies_key[p] \in Nat /\ kind[p] \in Kind
    BY StepNames DEF TypeOK
  <2>2. QED
    BY <2>1
<1>2. KeysKept(p) /\ DiskSound
  BY DEF KeysInv
<1>3. KeyFile[kind[p]] \in {"slot", "key"}
  BY <1>1 DEF Kind, KeyFile
<1>4. CASE LoadEcies(p)
  <2>1. CASE Gone(p)
    BY <2>1, KeysGone
  <2>2. ASSUME NEW key, ecies_key' = [ecies_key EXCEPT ![p] = key],
               NEW step \in {"ecies_create", "kind_create"}, Goto(p, step), key # 0,
               UNCHANGED <<disk, identity, kind, history>>,
               step = "ecies_create" => content["ecies"] = 0,
               step = "kind_create" => key = content["ecies"]
        PROVE  KeysInv'
    <3>1. pc[p] = "ecies" /\ pc'[p] = step /\ ecies_key'[p] = key
      BY <1>4, <2>2 DEF LoadEcies, Goto, TypeOK
    <3>2. UNCHANGED <<exists, content, keyring, identity, kind, replaced, misread>>
      BY <2>2 DEF disk, history
    <3>3. KeysKept(p)'
      BY <1>2, <2>2, <3>1, <3>2, Stages DEF KeysKept
    <3>4. \A q \in Process \ {p} : ecies_key'[q] = ecies_key[q]
      BY <2>2 DEF TypeOK
    <3>5. QED
      BY <2>2, <3>1, <3>2, <3>3, <3>4, KeysStay, Stages, StepNames
  <2>3. CASE /\ "ecies" \notin exists /\ made' = made + 1 /\ Goto(p, "ecies_create")
             /\ ecies_key' = [ecies_key EXCEPT ![p] = made']
             /\ UNCHANGED <<disk, identity, kind, history>>
    <3>1. content["ecies"] = 0
      BY <1>2, <2>3 DEF DiskSound
    <3>2. QED
      BY <1>1, <2>2, <2>3, <3>1
  <2>4. CASE /\ content["ecies"] # 0 /\ Goto(p, "kind_create")
             /\ ecies_key' = [ecies_key EXCEPT ![p] = content["ecies"]]
             /\ UNCHANGED <<disk, identity, kind, history>>
    BY <2>2, <2>4
  <2>5. QED
    BY <1>4, <2>1, <2>3, <2>4 DEF LoadEcies, Generate, Exit
<1>5. CASE CreateEcies(p)
  <2>1. /\ pc'[p] = "ecies_write" /\ pc[p] = "ecies_create" /\ "ecies" \in exists'
        /\ \A f \in {"slot", "key", "ecies"} : content'[f] = content[f]
        /\ identity'[p] = identity[p] /\ kind'[p] = kind[p]
        /\ ecies_key'[p] = ecies_key[p] /\ replaced' = replaced
    BY <1>5, StepNames DEF CreateEcies, Create, Goto, TypeOK, memory
  <2>2. content["ecies"] = 0
    BY <1>2, <2>1 DEF KeysKept
  <2>3. KeysKept(p)'
    BY <1>2, <1>3, <2>1, Stages DEF KeysKept
  <2>4. QED
    BY <1>5, <2>2, <2>3, KeysCreate, Stages, StepNames DEF CreateEcies
<1>6. CASE WriteEcies(p)
  <2>1. /\ pc'[p] = "kind_create" /\ pc[p] = "ecies_write"
        /\ \A f \in {"slot", "key"} : content'[f] = content[f]
        /\ content'["ecies"] = ecies_key[p]
        /\ identity'[p] = identity[p] /\ kind'[p] = kind[p]
        /\ ecies_key'[p] = ecies_key[p] /\ replaced' = replaced
    BY <1>6, StepNames DEF WriteEcies, Write, Goto, TypeOK, memory, history
  <2>2. content["ecies"] = 0 /\ ecies_key[p] # 0 /\ "ecies" \in exists
    BY <1>2, <2>1 DEF KeysKept
  <2>3. KeysKept(p)'
    BY <1>2, <1>3, <2>1, <2>2, Stages DEF KeysKept
  <2>4. QED
    BY <1>1, <1>6, <2>2, <2>3, KeysWrite, Stages, StepNames DEF WriteEcies
<1>7. CASE CreateKind(p) \/ WriteKind(p)
  <2>1. \E step \in {"kind_write", "probe"} :
            /\ Goto(p, step) /\ pc[p] \in {"kind_create", "kind_write"}
            /\ UNCHANGED <<exists, content, keyring, memory, history>>
    BY <1>7 DEF CreateKind, WriteKind
  <2>2. QED
    BY <2>1, KeysPass, Stages, StepNames DEF memory, history, SocketSteps, Keyed
<1>8. CASE SquatProbe(p) \/ SquatStat(p)
  <2>1. CASE Gone(p)
    BY <2>1, KeysGone
  <2>2. CASE \E step \in {"squat_stat", "ecies"} :
                /\ Goto(p, step) /\ pc[p] \in {"squat_probe", "squat_stat"}
                /\ UNCHANGED <<disk, memory, history>>
    BY <2>2, KeysPass, Stages, StepNames DEF disk, memory, history
  <2>3. QED
    BY <1>8, <2>1, <2>2 DEF SquatProbe, SquatStat, Exit
<1>9. QED
  BY <1>4, <1>5, <1>6, <1>7, <1>8 DEF BridgeNew

LEMMA KeysRunSocketServer ==
    ASSUME TypeOK, KeysInv, NEW p \in Process, RunSocketServer(p) \/ Register(p)
    PROVE  KeysInv'
<1>1. CASE Gone(p)
  BY <1>1, KeysGone
<1>2. CASE \E step \in {"remove", "bind", "chmod", "serving", "deaf"} :
              /\ Goto(p, step) /\ pc[p] \in SocketSteps
              /\ UNCHANGED <<disk, memory, history>>
  <2>1. {"remove", "bind", "chmod", "serving", "deaf"} \subseteq Keyed
    BY DEF Keyed, SocketSteps
  <2>2. pc[p] \in Starting /\ pc[p] \in Keyed
    BY <1>2, Stages DEF Starting
  <2>3. QED
    BY <1>2, <2>1, <2>2, KeysPass, StepNames DEF disk, memory, history
<1>3. CASE ServerFails(p) /\ pc[p] \in SocketSteps
  BY <1>1, <1>2, <1>3 DEF ServerFails, Exit
<1>4. CASE UNCHANGED <<disk, pc, memory, history>>
  BY <1>4 DEF disk, memory, history, KeysInv, Alone, DiskSound, KeysKept
<1>5. CASE Probe(p)
  BY <1>2, <1>5 DEF Probe, SocketSteps
<1>6. CASE Remove(p)
  BY <1>2, <1>3, <1>6 DEF Remove, SocketSteps
<1>7. CASE Bind(p)
  BY <1>2, <1>3, <1>7 DEF Bind, SocketSteps
<1>8. CASE Chmod(p)
  BY <1>2, <1>3, <1>8 DEF Chmod, SocketSteps
<1>9. CASE Register(p)
  BY <1>1, <1>4, <1>9 DEF Register, Exit
<1>10. QED
  BY <1>5, <1>6, <1>7, <1>8, <1>9 DEF RunSocketServer

\* Only a start can put a second process among those that are starting.
LEMMA KeysStart ==
    ASSUME TypeOK, KeysInv, ~Overlap, NEW p \in Process, NEW device, NEW hardware,
           Start(p, device, hardware)
    PROVE  KeysInv'
<1>1. PICK step \in {"slot", "key"} : Goto(p, step)
  BY DEF Start
<1>2. /\ \A q \in Process : pc[q] \notin Starting
      /\ UNCHANGED <<exists, content, keyring, identity, kind, ecies_key, misread,
                     replaced>>
  BY DEF Start, disk
<1>3. \A q \in Process : pc'[q] = IF q = p THEN step ELSE pc[q]
  BY <1>1 DEF Goto, TypeOK
<1>4. Alone'
  BY <1>2, <1>3 DEF Alone
<1>5. DiskSound'
  BY <1>2 DEF KeysInv, DiskSound
<1>6. KeysKept(p)'
  BY <1>1, <1>3, Stages DEF KeysKept
<1>7. ASSUME NEW q \in Process, q # p
      PROVE  KeysKept(q)'
  BY <1>2, <1>3, <1>7 DEF KeysInv, KeysKept
<1>8. QED
  BY <1>4, <1>5, <1>6, <1>7 DEF KeysInv

LEMMA KeysInit == Init => KeysInv
<1> SUFFICES ASSUME Init PROVE KeysInv
  OBVIOUS
<1>1. \A p \in Process : pc[p] = "off" /\ pc[p] \notin Starting
  BY DEF Init, Starting, SocketSteps
<1>2. Alone /\ DiskSound
  BY <1>1, StepNames DEF Init, Alone, DiskSound
<1>3. \A p \in Process : KeysKept(p)
  BY <1>1, Stages DEF KeysKept
<1>4. QED
  BY <1>2, <1>3 DEF KeysInv

LEMMA KeysStep ==
    ASSUME ~Overlap, TypeOK, KeysInv, [Next]_vars
    PROVE  KeysInv'
<1>1. CASE UNCHANGED vars
  BY <1>1 DEF vars, disk, memory, history, KeysInv, Alone, DiskSound, KeysKept
<1>2. ASSUME NEW p \in Process, Die(p)
      PROVE  KeysInv'
  BY <1>2, KeysGone DEF Die
<1>3. QED
  BY <1>1, <1>2, KeysStart, KeysSelectIdentity, KeysBridgeNew, KeysRunSocketServer
     DEF Next

\* When starts do not overlap, a key is generated only where there is none on
\* disk, or none that could be read, and what a process has is what the disk
\* has, unless the key file was replaced for that reason.
THEOREM KeysInvariant ==
    ASSUME ~Overlap
    PROVE  Spec => []KeysInv
<1>1. Init => KeysInv
  BY KeysInit
<1>2. TypeOK /\ KeysInv /\ [Next]_vars => KeysInv'
  BY KeysStep
<1>3. QED
  BY <1>1, <1>2, StartupTypes, PTL DEF Spec

\* Then an instance serves with the ECIES key that the next start will find on
\* disk.
THEOREM ServedKeysPersist ==
    ASSUME ~Overlap
    PROVE  Spec => []EciesKeyPersists
<1>1. KeysInv => EciesKeyPersists
  BY Stages DEF KeysInv, KeysKept, EciesKeyPersists
<1>2. QED
  BY <1>1, KeysInvariant, PTL

\* And with the identity it will find, in the file of the same kind, unless a
\* start that could not read the key file has replaced it.
THEOREM ServedIdentityPersists ==
    ASSUME ~Overlap
    PROVE  Spec => []IdentityPersists
<1>1. KeysInv => IdentityPersists
  BY Stages DEF KeysInv, KeysKept, IdentityPersists
<1>2. QED
  BY <1>1, KeysInvariant, PTL

\* What happens to a key on disk: nothing, or a start replaces the one it could
\* not read.
Survives(f) ==
    content'[f] = content[f] \/ (f = "key" /\ \E p \in misread : pc[p] = "key_create")

\* A file is created or written only while it holds no key, the public one and
\* a key file that could not be read aside.
LEMMA KeysWrittenOnce ==
    ASSUME TypeOK, KeysInv, Next, NEW f \in {"slot", "key", "ecies"}, content[f] # 0
    PROVE  Survives(f)
<1>1. f \in File /\ f # "pub"
  BY DEF File
<1>2. ASSUME NEW p \in Process, SelectIdentity(p) \/ BridgeNew(p)
      PROVE  Survives(f)
  <2>1. KeysKept(p)
    BY DEF KeysInv
  <2>2. CASE content' = content
    BY <2>2 DEF Survives
  <2>3. ASSUME NEW step, NEW g \in File, NEW truncate, NEW next,
               Create(p, step, g, truncate, next), g # "pub" => content[g] = 0
        PROVE  Survives(f)
    BY <1>1, <2>3 DEF Create, TypeOK, Survives
  <2>4. ASSUME NEW step, NEW g \in File, NEW key, NEW next,
               Write(p, step, g, key, next), g # "pub" => content[g] = 0
        PROVE  Survives(f)
    BY <1>1, <2>4 DEF Write, TypeOK, Survives
  <2>5. CASE CreateSlot(p) \/ CreateKey(p) \/ CreatePub(p) \/ CreateEcies(p)
    <3>1. /\ pc[p] = "slot_create" => content["slot"] = 0
          /\ pc[p] = "key_create" => content["key"] = 0 \/ p \in misread
          /\ pc[p] = "ecies_create" => content["ecies"] = 0
      BY <2>1 DEF KeysKept
    <3>2. CASE CreateSlot(p)
      BY <2>3, <3>1, <3>2, StepNames DEF CreateSlot, Create
    <3>3. CASE CreateKey(p)
      <4>1. CASE content["key"] = 0
        BY <2>3, <3>3, <4>1, StepNames DEF CreateKey
      <4>2. CASE p \in misread /\ f = "key"
        BY <3>3, <4>2 DEF CreateKey, Create, Survives
      <4>3. CASE f # "key"
        BY <1>1, <3>3, <4>3 DEF CreateKey, Create, TypeOK, Survives
      <4>4. QED
        BY <3>1, <3>3, <4>1, <4>2, <4>3 DEF CreateKey, Create
    <3>4. CASE CreatePub(p)
      BY <2>3, <3>4, StepNames DEF CreatePub
    <3>5. CASE CreateEcies(p)
      BY <2>3, <3>1, <3>5, StepNames DEF CreateEcies, Create
    <3>6. QED
      BY <2>5, <3>2, <3>3, <3>4, <3>5
  <2>6. CASE WriteSlot(p) \/ WriteKey(p) \/ WritePub(p) \/ WriteEcies(p)
    <3>1. /\ pc[p] = "slot_write" => content["slot"] = 0
          /\ pc[p] = "key_write" => content["key"] = 0
          /\ pc[p] = "ecies_write" => content["ecies"] = 0
      BY <2>1 DEF KeysKept
    <3>2. CASE WriteSlot(p)
      BY <2>4, <3>1, <3>2, StepNames DEF WriteSlot, Write
    <3>3. CASE WriteKey(p)
      BY <2>4, <3>1, <3>3, StepNames DEF WriteKey, Write
    <3>4. CASE WritePub(p)
      BY <2>4, <3>4, StepNames DEF WritePub
    <3>5. CASE WriteEcies(p)
      BY <2>4, <3>1, <3>5, StepNames DEF WriteEcies, Write
    <3>6. QED
      BY <2>6, <3>2, <3>3, <3>4, <3>5
  <2>7. CASE OpenSlot(p) \/ SlotFails(p) \/ OpenKey(p) \/ MisreadKey(p)
             \/ OpenKeyring(p) \/ Mirror(p)
    BY <2>2, <2>7 DEF OpenSlot, SlotFails, FallBack, Gone, OpenKey, MisreadKey,
                      OpenKeyring, Identify, Mirror, disk
  <2>8. CASE \/ LoadEcies(p) \/ CreateKind(p) \/ WriteKind(p)
             \/ SquatProbe(p) \/ SquatStat(p)
    BY <2>2, <2>8 DEF LoadEcies, CreateKind, WriteKind, SquatProbe, SquatStat,
                      Exit, Gone, disk
  <2>9. QED
    BY <1>2, <2>5, <2>6, <2>7, <2>8 DEF SelectIdentity, BridgeNew
<1>3. ASSUME NEW p \in Process, RunSocketServer(p) \/ Register(p) \/ Die(p)
      PROVE  Survives(f)
  BY <1>3 DEF Survives, RunSocketServer, Probe, Remove, Bind, Chmod, ServerFails, Register,
              Exit, Die, Gone, disk
<1>4. ASSUME NEW p \in Process, NEW device, NEW hardware, Start(p, device, hardware)
      PROVE  Survives(f)
  BY <1>4 DEF Survives, Start, disk
<1>5. QED
  BY <1>2, <1>3, <1>4 DEF Next

\* And a key that is on disk stays there, whoever starts, dies or falls back,
\* except that a start which could not read the key file overwrites it.
THEOREM KeysStayOnDisk ==
    ASSUME ~Overlap
    PROVE  Spec => KeysSurvive
<1>1. TypeOK /\ KeysInv /\ [Next]_vars =>
        [/\ \A f \in {"slot", "ecies"} : content[f] # 0 => content'[f] = content[f]
         /\ content["key"] # 0 /\ content'["key"] # content["key"] =>
                \E p \in misread : pc[p] = "key_create"]_vars
  BY KeysWrittenOnce DEF Survives
<1>2. QED
  BY <1>1, KeysInvariant, StartupTypes, PTL DEF Spec, KeysSurvive
-----------------------------------------------------------------------------
\* Required hardware, for starts that overlap as they like.

\* What a step leaves to the other processes.
Others(p) ==
    \A q \in Process \ {p} :
        /\ pc'[q] = pc[q] /\ require_hardware'[q] = require_hardware[q]
        /\ kind'[q] = kind[q] /\ ecies_key'[q] = ecies_key[q]

LEMMA OthersRest ==
    ASSUME TypeOK, NEW p \in Process, NEW step, Goto(p, step),
           \/ UNCHANGED <<require_hardware, kind, ecies_key>>
           \/ \E k, key : Identify(p, k, key)
           \/ \E key : /\ ecies_key' = [ecies_key EXCEPT ![p] = key]
                       /\ UNCHANGED <<require_hardware, kind>>
    PROVE  Others(p) /\ pc'[p] = step
BY DEF TypeOK, Goto, Identify, Others

LEMMA HardwareOthers ==
    ASSUME HardwareInv, NEW p \in Process, Others(p), HardwareKept(p)'
    PROVE  HardwareInv'
<1>1. ASSUME NEW q \in Process \ {p}
      PROVE  HardwareKept(q)'
  BY DEF HardwareInv, HardwareKept, Others
<1>2. QED
  BY <1>1 DEF HardwareInv

LEMMA HardwareGone ==
    ASSUME TypeOK, HardwareInv, NEW p \in Process, Gone(p)
    PROVE  HardwareInv'
<1>1. Others(p) /\ require_hardware'[p] = FALSE
  BY DEF TypeOK, Gone, Goto, Others
<1>2. HardwareKept(p)'
  BY <1>1 DEF HardwareKept
<1>3. QED
  BY <1>1, <1>2, HardwareOthers

\* A step that moves one process on.
LEMMA HardwarePass ==
    ASSUME TypeOK, HardwareInv, NEW p \in Process, NEW step, Goto(p, step),
           UNCHANGED <<require_hardware, kind>>,
           Others(p),
           pc[p] # "slot" \/ ~require_hardware[p],
           \/ ~require_hardware[p]
           \/ step \notin {"off", "key", "keyring", "key_create", "key_write", "mirror"}
           \/ pc[p] \in {"key", "keyring", "key_create", "key_write"}
    PROVE  HardwareInv'
<1>1. pc'[p] = step
  BY DEF TypeOK, Goto
<1>2. HardwareKept(p)'
  BY <1>1 DEF HardwareInv, HardwareKept
<1>3. QED
  BY <1>2, HardwareOthers

LEMMA HardwareIdentify ==
    ASSUME TypeOK, HardwareInv, NEW p \in Process, NEW step, Goto(p, step),
           NEW k, NEW key, Identify(p, k, key),
           \/ k = "Tpm2BridgeIdentity" /\ step \in {"slot_create", "pub_create"}
           \/ ~require_hardware[p]
    PROVE  HardwareInv'
<1>1. /\ pc'[p] = step /\ kind'[p] = k /\ require_hardware'[p] = require_hardware[p]
      /\ Others(p)
  BY OthersRest DEF TypeOK, Goto, Identify
<1>2. HardwareKept(p)'
  BY <1>1 DEF HardwareKept
<1>3. QED
  BY <1>1, <1>2, HardwareOthers

LEMMA HardwareFallBack ==
    ASSUME TypeOK, HardwareInv, NEW p \in Process, FallBack(p)
    PROVE  HardwareInv'
<1>1. CASE require_hardware[p]
  BY <1>1, HardwareGone DEF FallBack
<1>2. CASE ~require_hardware[p]
  <2>1. Goto(p, "key") /\ UNCHANGED <<require_hardware, kind, ecies_key>>
    BY <1>2 DEF FallBack, memory
  <2>2. QED
    BY <1>2, <2>1, OthersRest, HardwarePass
<1>3. QED
  BY <1>1, <1>2

LEMMA HardwareSelectIdentity ==
    ASSUME TypeOK, HardwareInv, NEW p \in Process, SelectIdentity(p)
    PROVE  HardwareInv'
<1>1. HardwareKept(p)
  BY DEF HardwareInv
<1>2. CASE OpenSlot(p)
  BY <1>2, HardwareFallBack, HardwareIdentify DEF OpenSlot, Generate
<1>3. CASE SlotFails(p)
  BY <1>3, HardwareFallBack DEF SlotFails
<1>4. CASE OpenKey(p) \/ MisreadKey(p)
  <2>1. ~require_hardware[p]
    BY <1>1, <1>4 DEF OpenKey, MisreadKey, HardwareKept
  <2>2. \/ \E key : Goto(p, "pub_create") /\ Identify(p, "FileBridgeIdentity", key)
        \/ Goto(p, "keyring") /\ UNCHANGED <<require_hardware, kind, ecies_key>>
    BY <1>4 DEF OpenKey, MisreadKey, memory
  <2>3. QED
    BY <2>1, <2>2, OthersRest, HardwareIdentify, HardwarePass
<1>5. CASE OpenKeyring(p)
  <2>1. ~require_hardware[p]
    BY <1>1, <1>5 DEF OpenKeyring, HardwareKept
  <2>2. \E step, key : Goto(p, step) /\ Identify(p, "FileBridgeIdentity", key)
    BY <1>5 DEF OpenKeyring, Generate
  <2>3. QED
    BY <2>1, <2>2, HardwareIdentify
<1>6. CASE \/ CreateSlot(p) \/ WriteSlot(p) \/ CreateKey(p) \/ WriteKey(p)
           \/ Mirror(p) \/ CreatePub(p) \/ WritePub(p)
  <2>1. PICK step \in {"slot_write", "key_write", "mirror", "pub_create", "pub_write",
                       "squat_probe"} :
            /\ Goto(p, step) /\ pc[p] # "slot"
            /\ step \in {"key_write", "mirror"} => pc[p] \in {"key_create", "key_write"}
            /\ UNCHANGED <<require_hardware, kind, ecies_key>>
    BY <1>6 DEF CreateSlot, WriteSlot, CreateKey, WriteKey, Mirror, CreatePub,
                WritePub, Create, Write, memory
  <2>2. QED
    BY <2>1, OthersRest, HardwarePass
<1>7. QED
  BY <1>2, <1>3, <1>4, <1>5, <1>6 DEF SelectIdentity

LEMMA HardwareBridgeNew ==
    ASSUME TypeOK, HardwareInv, NEW p \in Process, BridgeNew(p)
    PROVE  HardwareInv'
<1>1. CASE Gone(p)
  BY <1>1, HardwareGone
<1>2. CASE \E step \in {"squat_stat", "ecies", "ecies_create", "ecies_write",
                        "kind_create", "kind_write", "probe"} :
              /\ Goto(p, step) /\ pc[p] # "slot"
              /\ UNCHANGED <<require_hardware, kind>>
              /\ \/ UNCHANGED ecies_key
                 \/ \E key : ecies_key' = [ecies_key EXCEPT ![p] = key]
  BY <1>2, OthersRest, HardwarePass
<1>3. CASE LoadEcies(p)
  BY <1>1, <1>2, <1>3 DEF LoadEcies, Generate, Exit
<1>4. CASE CreateEcies(p) \/ WriteEcies(p)
  BY <1>2, <1>4 DEF CreateEcies, WriteEcies, Create, Write, memory
<1>5. CASE CreateKind(p) \/ WriteKind(p)
  BY <1>2, <1>5 DEF CreateKind, WriteKind, memory
<1>6. CASE SquatProbe(p) \/ SquatStat(p)
  BY <1>1, <1>2, <1>6 DEF SquatProbe, SquatStat, Exit, memory
<1>7. QED
  BY <1>3, <1>4, <1>5, <1>6 DEF BridgeNew

LEMMA HardwareRunSocketServer ==
    ASSUME TypeOK, HardwareInv, NEW p \in Process, RunSocketServer(p) \/ Register(p)
    PROVE  HardwareInv'
<1>1. CASE Gone(p)
  BY <1>1, HardwareGone
<1>2. CASE \E step \in {"remove", "bind", "chmod", "serving", "deaf"} :
              /\ Goto(p, step) /\ pc[p] \in SocketSteps
              /\ UNCHANGED <<require_hardware, kind, ecies_key>>
  BY <1>2, OthersRest, HardwarePass DEF SocketSteps
<1>3. CASE ServerFails(p) /\ pc[p] \in SocketSteps
  BY <1>1, <1>2, <1>3 DEF ServerFails, Exit, memory
<1>4. CASE Probe(p) \/ Remove(p) \/ Bind(p) \/ Chmod(p)
  BY <1>2, <1>3, <1>4 DEF Probe, Remove, Bind, Chmod, SocketSteps, memory
<1>5. CASE Register(p)
  BY <1>1, <1>5 DEF Register, Exit, memory, HardwareInv, HardwareKept
<1>6. QED
  BY <1>4, <1>5 DEF RunSocketServer

LEMMA HardwareStart ==
    ASSUME TypeOK, HardwareInv, NEW p \in Process, NEW device \in Device,
           NEW hardware \in Hardware, Start(p, device, hardware)
    PROVE  HardwareInv'
<1>1. hardware \in BOOLEAN /\ device \in BOOLEAN /\ (device \/ ~hardware)
  BY Facts DEF Start
<1>2. /\ pc'[p] = IF device THEN "slot" ELSE "key"
      /\ require_hardware'[p] = hardware
      /\ Others(p)
  BY DEF Start, Goto, TypeOK, Others
<1>3. HardwareKept(p)'
  BY <1>1, <1>2 DEF HardwareKept
<1>4. QED
  BY <1>2, <1>3, HardwareOthers

\* Whatever the slot file, the TPM device and the other instances do, a start
\* told to require hardware either has the identity of the slot file or ends.
THEOREM HardwareIsRequired == Spec => []HardwareRequired
<1>1. Init => HardwareInv
  BY DEF Init, HardwareInv, HardwareKept
<1>2. TypeOK /\ HardwareInv /\ [Next]_vars => HardwareInv'
  <2> SUFFICES ASSUME TypeOK, HardwareInv, [Next]_vars
               PROVE  HardwareInv'
    OBVIOUS
  <2>1. CASE UNCHANGED vars
    BY <2>1 DEF vars, memory, HardwareInv, HardwareKept
  <2>2. ASSUME NEW p \in Process, Die(p)
        PROVE  HardwareInv'
    BY <2>2, HardwareGone DEF Die
  <2>3. QED
    BY <2>1, <2>2, HardwareStart, HardwareSelectIdentity, HardwareBridgeNew,
       HardwareRunSocketServer DEF Next
<1>3. HardwareInv => HardwareRequired
  BY DEF HardwareInv, HardwareKept, HardwareRequired
<1>4. QED
  BY <1>1, <1>2, <1>3, StartupTypes, PTL DEF Spec
-----------------------------------------------------------------------------
\* The ECIES key file, for starts that overlap as they like.

UnwrittenEcies == "ecies" \in exists /\ content["ecies"] = 0

\* A step that does not write the file, of a process that was not about to.
LEMMA UsableMove ==
    ASSUME TypeOK, UsableInv, NEW p \in Process, NEW step, Goto(p, step), Others(p),
           pc[p] # "ecies_write", cut' = cut,
           step = "ecies_write" \/ (UnwrittenEcies' => UnwrittenEcies),
           KeyInHand(p)'
    PROVE  UsableInv'
<1>1. \A q \in Process : pc'[q] = IF q = p THEN step ELSE pc[q]
  BY DEF Goto, TypeOK
<1>2. UnusableOnlyByDeath'
  BY <1>1 DEF UsableInv, UnusableOnlyByDeath, UnwrittenEcies
<1>3. ASSUME NEW q \in Process \ {p}
      PROVE  KeyInHand(q)'
  BY DEF UsableInv, KeyInHand, Others
<1>4. QED
  BY <1>2, <1>3 DEF UsableInv

\* One that leaves the disk, or at least this file, as it is.
LEMMA UsablePass ==
    ASSUME TypeOK, UsableInv, NEW p \in Process, NEW step, Goto(p, step), Others(p),
           pc[p] # "ecies_write", cut' = cut,
           "ecies" \in exists' => "ecies" \in exists,
           content'["ecies"] = content["ecies"],
           step \notin {"ecies_create", "ecies_write"}
    PROVE  UsableInv'
<1>1. pc'[p] = step
  BY DEF Goto, TypeOK
<1>2. KeyInHand(p)' /\ (UnwrittenEcies' => UnwrittenEcies)
  BY <1>1 DEF KeyInHand, UnwrittenEcies
<1>3. QED
  BY <1>2, UsableMove

\* A process that disappears in front of the write is on record.
LEMMA UsableGone ==
    ASSUME TypeOK, UsableInv, NEW p \in Process, Gone(p)
    PROVE  UsableInv'
<1>1. Goto(p, "off") /\ Others(p) /\ pc'[p] = "off"
  BY DEF TypeOK, Gone, Goto, Others
<1>2. exists' = exists /\ content' = content /\ cut' = (cut \/ pc[p] = "ecies_write")
  BY DEF Gone, disk
<1>3. CASE pc[p] = "ecies_write"
  <2>1. UnusableOnlyByDeath'
    BY <1>2, <1>3 DEF UnusableOnlyByDeath
  <2>2. ASSUME NEW q \in Process
        PROVE  KeyInHand(q)'
    BY <1>1 DEF UsableInv, KeyInHand, Others
  <2>3. QED
    BY <2>1, <2>2 DEF UsableInv
<1>4. CASE pc[p] # "ecies_write"
  <2>1. cut' = cut
    BY <1>2, <1>4 DEF TypeOK
  <2>2. QED
    BY <1>1, <1>2, <1>4, <2>1, UsablePass
<1>5. QED
  BY <1>3, <1>4

LEMMA UsableFallBack ==
    ASSUME TypeOK, UsableInv, NEW p \in Process, FallBack(p),
           pc[p] # "ecies_write"
    PROVE  UsableInv'
<1>1. CASE Gone(p)
  BY <1>1, UsableGone
<1>2. CASE /\ Goto(p, "key") /\ UNCHANGED <<disk, memory, history>>
  BY <1>2, OthersRest, UsablePass DEF disk, memory, history
<1>3. QED
  BY <1>1, <1>2 DEF FallBack

LEMMA UsableSelectIdentity ==
    ASSUME TypeOK, UsableInv, NEW p \in Process, SelectIdentity(p)
    PROVE  UsableInv'
<1>1. ASSUME NEW step \in {"slot_create", "pub_create", "key_create", "keyring"},
             Goto(p, step), pc[p] # "ecies_write", UNCHANGED <<disk, cut>>,
             (\E k, key : Identify(p, k, key)) \/ UNCHANGED memory
      PROVE  UsableInv'
  BY <1>1, OthersRest, UsablePass DEF disk, memory, history
<1>2. CASE OpenSlot(p)
  BY <1>1, <1>2, UsableFallBack DEF OpenSlot, Generate, Identify, history
<1>3. CASE SlotFails(p)
  BY <1>3, UsableFallBack DEF SlotFails
<1>4. CASE OpenKey(p) \/ MisreadKey(p)
  BY <1>1, <1>4 DEF OpenKey, MisreadKey, Identify, history
<1>5. CASE OpenKeyring(p)
  BY <1>1, <1>5 DEF OpenKeyring, Generate, Identify, history
<1>6. CASE Mirror(p)
  BY <1>6, OthersRest, UsablePass DEF Mirror, memory, history
<1>7. ASSUME NEW step \in Steps, NEW f \in File \ {"ecies"}, NEW truncate,
             NEW next \in {"slot_write", "key_write", "pub_write"},
             Create(p, step, f, truncate, next), step # "ecies_write"
      PROVE  UsableInv'
  <2>1. content'["ecies"] = content["ecies"]
    BY <1>7, StepNames DEF Create, TypeOK
  <2>2. QED
    BY <1>7, <2>1, OthersRest, UsablePass DEF Create, memory, history
<1>8. ASSUME NEW step \in Steps, NEW f \in File \ {"ecies"}, NEW key,
             NEW next \in {"pub_create", "mirror", "squat_probe"},
             Write(p, step, f, key, next), step # "ecies_write"
      PROVE  UsableInv'
  <2>1. content'["ecies"] = content["ecies"]
    BY <1>8, StepNames DEF Write, TypeOK
  <2>2. QED
    BY <1>8, <2>1, OthersRest, UsablePass DEF Write, memory, history
<1>9. CASE CreateSlot(p) \/ CreateKey(p) \/ CreatePub(p)
  BY <1>7, <1>9, StepNames DEF CreateSlot, CreateKey, CreatePub
<1>10. CASE WriteSlot(p) \/ WriteKey(p) \/ WritePub(p)
  BY <1>8, <1>10, StepNames DEF WriteSlot, WriteKey, WritePub
<1>11. QED
  BY <1>2, <1>3, <1>4, <1>5, <1>6, <1>9, <1>10 DEF SelectIdentity

LEMMA UsableBridgeNew ==
    ASSUME TypeOK, UsableInv, NEW p \in Process, BridgeNew(p)
    PROVE  UsableInv'
<1>1. CASE LoadEcies(p)
  <2>1. CASE Gone(p)
    BY <2>1, UsableGone
  <2>2. ASSUME NEW step \in {"ecies_create", "kind_create"}, NEW key, Goto(p, step),
               ecies_key' = [ecies_key EXCEPT ![p] = key], key # 0,
               UNCHANGED <<disk, require_hardware, kind, history>>
        PROVE  UsableInv'
    <3>1. KeyInHand(p)'
      BY <2>2 DEF KeyInHand, TypeOK
    <3>2. UnwrittenEcies' => UnwrittenEcies
      BY <2>2 DEF UnwrittenEcies, disk
    <3>3. QED
      BY <1>1, <2>2, <3>1, <3>2, OthersRest, UsableMove DEF LoadEcies, history
  <2>3. made + 1 # 0
    <3>1. made \in Nat
      BY DEF TypeOK
    <3>2. QED
      BY <3>1
  <2>4. QED
    BY <1>1, <2>1, <2>2, <2>3 DEF LoadEcies, Generate, Exit
<1>2. CASE CreateEcies(p)
  <2>1. /\ pc[p] = "ecies_create" /\ Goto(p, "ecies_write")
        /\ UNCHANGED <<require_hardware, kind, ecies_key, cut>>
    BY <1>2 DEF CreateEcies, Create, memory, history
  <2>2. KeyInHand(p)'
    BY <2>1 DEF UsableInv, KeyInHand
  <2>3. QED
    BY <2>1, <2>2, OthersRest, UsableMove
<1>3. CASE WriteEcies(p)
  <2>1. /\ pc[p] = "ecies_write" /\ Goto(p, "kind_create")
        /\ UNCHANGED <<require_hardware, kind, ecies_key, cut>>
        /\ content'["ecies"] = ecies_key[p]
    BY <1>3, StepNames DEF WriteEcies, Write, memory, history, TypeOK
  <2>2. content'["ecies"] # 0
    BY <2>1 DEF UsableInv, KeyInHand
  <2>3. Others(p) /\ pc'[p] = "kind_create"
    BY <2>1, OthersRest
  <2>4. ASSUME NEW q \in Process
        PROVE  KeyInHand(q)'
    BY <2>1, <2>3 DEF UsableInv, KeyInHand, Others
  <2>5. QED
    BY <2>2, <2>4 DEF UsableInv, UnusableOnlyByDeath
<1>4. CASE CreateKind(p) \/ WriteKind(p)
  BY <1>4, OthersRest, UsablePass DEF CreateKind, WriteKind, memory, history
<1>5. CASE SquatProbe(p) \/ SquatStat(p)
  <2>1. CASE Gone(p)
    BY <2>1, UsableGone
  <2>2. CASE \E step \in {"squat_stat", "ecies"} :
                 /\ Goto(p, step) /\ pc[p] # "ecies_write"
                 /\ UNCHANGED <<disk, memory, history>>
    BY <2>2, OthersRest, UsablePass DEF disk, memory, history
  <2>3. QED
    BY <1>5, <2>1, <2>2 DEF SquatProbe, SquatStat, Exit
<1>6. QED
  BY <1>1, <1>2, <1>3, <1>4, <1>5 DEF BridgeNew

LEMMA UsableRunSocketServer ==
    ASSUME TypeOK, UsableInv, NEW p \in Process, RunSocketServer(p) \/ Register(p)
    PROVE  UsableInv'
<1>1. CASE Gone(p)
  BY <1>1, UsableGone
<1>2. CASE \E step \in {"remove", "bind", "chmod", "serving", "deaf"} :
              /\ Goto(p, step) /\ pc[p] \in SocketSteps
              /\ UNCHANGED <<disk, memory, history>>
  BY <1>2, OthersRest, UsablePass DEF SocketSteps, disk, memory, history
<1>3. CASE ServerFails(p) /\ pc[p] \in SocketSteps
  BY <1>1, <1>2, <1>3 DEF ServerFails, Exit
<1>4. CASE Probe(p) \/ Remove(p) \/ Bind(p) \/ Chmod(p)
  BY <1>2, <1>3, <1>4 DEF Probe, Remove, Bind, Chmod, SocketSteps
<1>5. CASE UNCHANGED <<disk, pc, memory, history>>
  BY <1>5 DEF disk, memory, history, UsableInv, UnusableOnlyByDeath, KeyInHand
<1>6. QED
  BY <1>1, <1>4, <1>5 DEF RunSocketServer, Register, Exit

\* However starts overlap and wherever processes die, an ECIES key file that no
\* start accepts is there only after a death between its creation and its write.
THEOREM UnusableFileMeansDeath == Spec => []UnusableOnlyByDeath
<1>1. Init => UsableInv
  BY DEF Init, UsableInv, UnusableOnlyByDeath, KeyInHand
<1>2. TypeOK /\ UsableInv /\ [Next]_vars => UsableInv'
  <2> SUFFICES ASSUME TypeOK, UsableInv, [Next]_vars
               PROVE  UsableInv'
    OBVIOUS
  <2>1. CASE UNCHANGED vars
    BY <2>1 DEF vars, disk, memory, history, UsableInv, UnusableOnlyByDeath, KeyInHand
  <2>2. ASSUME NEW p \in Process, NEW device \in Device, NEW hardware \in Hardware,
               Start(p, device, hardware)
        PROVE  UsableInv'
    <3>1. PICK step \in {"slot", "key"} : Goto(p, step)
      BY <2>2 DEF Start
    <3>2. Others(p) /\ pc[p] = "off" /\ UNCHANGED <<exists, content, cut>>
      BY <2>2, <3>1 DEF Start, Goto, Others, TypeOK, disk
    <3>3. QED
      BY <3>1, <3>2, UsablePass
  <2>3. ASSUME NEW p \in Process, Die(p)
        PROVE  UsableInv'
    BY <2>3, UsableGone DEF Die
  <2>4. QED
    BY <2>1, <2>2, <2>3, UsableSelectIdentity, UsableBridgeNew,
       UsableRunSocketServer DEF Next
<1>3. UsableInv => UnusableOnlyByDeath
  BY DEF UsableInv
<1>4. QED
  BY <1>1, <1>2, <1>3, StartupTypes, PTL DEF Spec
-----------------------------------------------------------------------------
\* What is published, for starts that take turns.

Published(p) ==
    /\ pc[p] \in PubSteps => content["pub"] = identity[p]
    /\ pc[p] \in SocketSteps \cup {"serving", "deaf"} => kind_file = kind[p]

\* A step of one process: only the latest may write.
LEMMA PublishedMove ==
    ASSUME TypeOK, PublishedInv, NEW p \in Process,
           \A q \in Process \ {p} :
               pc'[q] = pc[q] /\ identity'[q] = identity[q] /\ kind'[q] = kind[q],
           latest' = latest,
           pc'[p] \in Starting => pc[p] \in Starting,
           pc[p] \in Starting \/ (content'["pub"] = content["pub"] /\ kind_file' = kind_file),
           Published(p)' \/ p # latest
    PROVE  PublishedInv'
<1>1. \A q \in Process : pc'[q] \in Starting => q = latest'
  BY DEF PublishedInv
<1>2. ASSUME latest' # Nobody, latest # p
      PROVE  Published(latest)'
  <2>1. latest \in Process \ {p}
    BY <1>2 DEF TypeOK
  <2>2. content'["pub"] = content["pub"] /\ kind_file' = kind_file
    BY <1>2 DEF PublishedInv
  <2>3. QED
    BY <1>2, <2>1, <2>2 DEF Published, PublishedInv
<1>3. latest' # Nobody => Published(latest)'
  BY <1>2
<1>4. QED
  BY <1>1, <1>3 DEF Published, PublishedInv

LEMMA PublishedGone ==
    ASSUME TypeOK, PublishedInv, NEW p \in Process, Gone(p)
    PROVE  PublishedInv'
<1>1. \A q \in Process \ {p} :
          pc'[q] = pc[q] /\ identity'[q] = identity[q] /\ kind'[q] = kind[q]
  BY DEF Gone, Goto, TypeOK
<1>2. /\ pc'[p] = "off" /\ latest' = latest
      /\ content' = content /\ kind_file' = kind_file
  BY DEF Gone, Goto, TypeOK, disk
<1>3. "off" \notin Starting \cup PubSteps
  BY DEF Starting, PubSteps, SocketSteps
<1>4. Published(p)'
  BY <1>2, <1>3 DEF Published, PubSteps, SocketSteps
<1>5. QED
  BY <1>1, <1>2, <1>3, <1>4, PublishedMove

\* Before the public key is written there is nothing to publish.
LEMMA PublishedEarly ==
    ASSUME TypeOK, PublishedInv, NEW p \in Process,
           NEW step \in {"slot_create", "slot_write", "key", "keyring", "key_create",
                         "key_write", "mirror", "pub_create", "pub_write"},
           Goto(p, step), pc[p] \in Starting, latest' = latest,
           (\E k, key : Identify(p, k, key)) \/ UNCHANGED memory
    PROVE  PublishedInv'
<1>1. \A q \in Process \ {p} :
          pc'[q] = pc[q] /\ identity'[q] = identity[q] /\ kind'[q] = kind[q]
  BY DEF Goto, Identify, TypeOK, memory
<1>2. pc'[p] = step
  BY DEF Goto, TypeOK
<1>3. Published(p)'
  BY <1>2 DEF Published, PubSteps, SocketSteps
<1>4. QED
  BY <1>1, <1>3, PublishedMove

\* After it, a step that writes neither the public key nor the kind.
LEMMA PublishedPass ==
    ASSUME TypeOK, PublishedInv, NEW p \in Process, NEW step \in PubSteps,
           Goto(p, step), pc[p] \in Starting \cap PubSteps, latest' = latest,
           UNCHANGED <<identity, kind>>, content'["pub"] = content["pub"],
           \/ step \notin SocketSteps \cup {"serving", "deaf"}
           \/ pc[p] \in SocketSteps /\ kind_file' = kind_file
    PROVE  PublishedInv'
<1>1. (\A q \in Process \ {p} : pc'[q] = pc[q]) /\ pc'[p] = step
  BY DEF Goto, TypeOK
<1>2. Published(p)' \/ p # latest
  BY <1>1, Facts DEF Published, PublishedInv
<1>3. QED
  BY <1>1, <1>2, PublishedMove

LEMMA PublishedSelectIdentity ==
    ASSUME TypeOK, PublishedInv, NEW p \in Process, SelectIdentity(p)
    PROVE  PublishedInv'
<1> USE DEF Starting
<1>1. CASE FallBack(p) /\ pc[p] \in Starting
  BY <1>1, PublishedGone, PublishedEarly DEF FallBack, history
<1>2. CASE OpenSlot(p)
  BY <1>1, <1>2, PublishedEarly DEF OpenSlot, Generate, Identify, history
<1>3. CASE SlotFails(p)
  BY <1>1, <1>3 DEF SlotFails
<1>4. CASE OpenKey(p) \/ MisreadKey(p)
  BY <1>4, PublishedEarly DEF OpenKey, MisreadKey, Identify, history
<1>5. CASE OpenKeyring(p)
  BY <1>5, PublishedEarly DEF OpenKeyring, Generate, Identify, history
<1>6. CASE \/ CreateSlot(p) \/ WriteSlot(p) \/ CreateKey(p) \/ WriteKey(p)
           \/ Mirror(p) \/ CreatePub(p)
  <2>1. \E step \in {"slot_write", "key_write", "mirror", "pub_create", "pub_write"} :
            Goto(p, step) /\ pc[p] \in Starting /\ latest' = latest /\ UNCHANGED memory
    BY <1>6 DEF CreateSlot, WriteSlot, CreateKey, WriteKey, Mirror, CreatePub, Create,
                Write, history
  <2>2. QED
    BY <2>1, PublishedEarly
<1>7. CASE WritePub(p)
  <2>1. /\ pc[p] = "pub_write" /\ Goto(p, "squat_probe") /\ latest' = latest
        /\ UNCHANGED memory /\ content'["pub"] = identity[p]
    BY <1>7, StepNames DEF WritePub, Write, TypeOK, history
  <2>2. /\ \A q \in Process \ {p} : pc'[q] = pc[q]
        /\ pc'[p] = "squat_probe" /\ UNCHANGED <<identity, kind>>
    BY <2>1 DEF Goto, TypeOK, memory
  <2>3. Published(p)'
    BY <2>1, <2>2 DEF Published, SocketSteps
  <2>4. QED
    BY <2>1, <2>2, <2>3, PublishedMove
<1>8. QED
  BY <1>2, <1>3, <1>4, <1>5, <1>6, <1>7 DEF SelectIdentity

LEMMA PublishedBridgeNew ==
    ASSUME TypeOK, PublishedInv, NEW p \in Process, BridgeNew(p)
    PROVE  PublishedInv'
<1>1. CASE Gone(p)
  BY <1>1, PublishedGone
<1>2. CASE \E step \in {"squat_stat", "ecies", "ecies_create", "ecies_write",
                        "kind_create", "kind_write"} :
              /\ Goto(p, step) /\ latest' = latest
              /\ pc[p] \in Starting \cap PubSteps
              /\ UNCHANGED <<identity, kind>> /\ content'["pub"] = content["pub"]
  BY <1>2, PublishedPass DEF PubSteps, SocketSteps
<1>3. CASE SquatProbe(p) \/ SquatStat(p)
  BY <1>1, <1>2, <1>3 DEF SquatProbe, SquatStat, Exit, disk, memory, history, Starting,
                          PubSteps
<1>4. CASE LoadEcies(p)
  BY <1>1, <1>2, <1>4 DEF LoadEcies, Generate, Exit, disk, history, Starting, PubSteps
<1>5. CASE CreateEcies(p) \/ WriteEcies(p)
  <2>1. content'["pub"] = content["pub"]
    BY <1>5, StepNames DEF CreateEcies, WriteEcies, Create, Write, TypeOK
  <2>2. QED
    BY <1>2, <1>5, <2>1 DEF CreateEcies, WriteEcies, Create, Write, memory, history,
                            Starting, PubSteps
<1>6. CASE CreateKind(p)
  BY <1>2, <1>6 DEF CreateKind, memory, history, Starting, PubSteps
<1>7. CASE WriteKind(p)
  <2>1. /\ pc[p] = "kind_write" /\ latest' = latest /\ kind_file' = kind[p]
        /\ \A q \in Process \ {p} : pc'[q] = pc[q]
        /\ pc'[p] = "probe" /\ UNCHANGED <<identity, kind, content>>
    BY <1>7 DEF WriteKind, Goto, TypeOK, memory, history
  <2>2. pc[p] \in Starting /\ pc[p] \in PubSteps
    BY <2>1 DEF Starting, PubSteps
  <2>3. Published(p)' \/ p # latest
    BY <2>1, <2>2, Facts DEF Published, PublishedInv
  <2>4. QED
    BY <2>1, <2>2, <2>3, PublishedMove
<1>8. QED
  BY <1>3, <1>4, <1>5, <1>6, <1>7 DEF BridgeNew

LEMMA PublishedRunSocketServer ==
    ASSUME TypeOK, PublishedInv, NEW p \in Process, RunSocketServer(p) \/ Register(p)
    PROVE  PublishedInv'
<1>1. CASE Gone(p)
  BY <1>1, PublishedGone
<1>2. CASE \E step \in {"remove", "bind", "chmod", "serving", "deaf"} :
              /\ Goto(p, step) /\ pc[p] \in SocketSteps
              /\ UNCHANGED <<disk, memory, history>>
  BY <1>2, PublishedPass DEF disk, memory, history, Starting, PubSteps, SocketSteps
<1>3. CASE ServerFails(p) /\ pc[p] \in SocketSteps
  BY <1>1, <1>2, <1>3 DEF ServerFails, Exit
<1>4. CASE Probe(p) \/ Remove(p) \/ Bind(p) \/ Chmod(p)
  BY <1>2, <1>3, <1>4 DEF Probe, Remove, Bind, Chmod, SocketSteps
<1>5. CASE UNCHANGED <<disk, pc, memory, history>>
  BY <1>5 DEF disk, memory, history, PublishedInv
<1>6. QED
  BY <1>1, <1>4, <1>5 DEF RunSocketServer, Register, Exit

LEMMA PublishedStart ==
    ASSUME TypeOK, PublishedInv, ~Overlap, NEW p \in Process, NEW device, NEW hardware,
           Start(p, device, hardware)
    PROVE  PublishedInv'
<1>1. /\ latest' = p /\ pc'[p] \in {"slot", "key"}
      /\ \A q \in Process \ {p} : pc'[q] = pc[q] /\ pc[q] \notin Starting
  BY DEF Start, Goto, TypeOK
<1>2. pc'[p] \notin PubSteps
  BY <1>1 DEF PubSteps, SocketSteps
<1>3. QED
  BY <1>1, <1>2 DEF PublishedInv, PubSteps

\* If starts do not overlap, the public key and the kind on disk are those of
\* the last instance to start, whatever identity it fell back to.
THEOREM LatestPublishes ==
    ASSUME ~Overlap
    PROVE  Spec => []PublishedByLatest
<1>1. Init => PublishedInv
  BY DEF Init, PublishedInv, Starting, SocketSteps
<1>2. TypeOK /\ PublishedInv /\ [Next]_vars => PublishedInv'
  <2> SUFFICES ASSUME TypeOK, PublishedInv, [Next]_vars
               PROVE  PublishedInv'
    OBVIOUS
  <2>1. CASE UNCHANGED vars
    BY <2>1 DEF vars, disk, memory, history, PublishedInv
  <2>2. ASSUME NEW p \in Process, Die(p)
        PROVE  PublishedInv'
    BY <2>2, PublishedGone DEF Die
  <2>3. QED
    BY <2>1, <2>2, PublishedStart, PublishedSelectIdentity, PublishedBridgeNew,
       PublishedRunSocketServer DEF Next
<1>3. PublishedInv => PublishedByLatest
  BY DEF PublishedInv, PublishedByLatest, PubSteps
<1>4. QED
  BY <1>1, <1>2, <1>3, StartupTypes, PTL DEF Spec
=============================================================================
