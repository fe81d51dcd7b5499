------------------------- MODULE Attestation_proofs -------------------------
(***************************************************************************)
(* The walk up a peer's ancestors ends, with no process named twice, for   *)
(* any number of processes, any cap and whatever the processes do; and a   *)
(* signature vouches for what was true while it was looked for.            *)
(***************************************************************************)
EXTENDS Attestation, TLAPS

\* Beyond the types: where the thread is says what its variables hold.
Places ==
    /\ at \in {"walk", "search", "ssh"} => lineage # <<>>
    /\ at \in {"search", "ssh"} => i \in 1..Len(lineage)
    /\ at \in {"dpkg", "ssh"} => path \in Exe
    /\ at = "dpkg" => info.executable_path = path

AttestInv == TypeOK /\ Places /\ NoCircle

\* What a link reads is an executable or nothing.
LEMMA LinkType ==
    ASSUME NEW p \in Pid, proc \in [Pid -> Process]
    PROVE  Link(p) \in Exe \cup {None}
BY DEF Link, Process, Image

\* A process not met before keeps the chain free of repetitions.
LEMMA OneMore ==
    ASSUME NEW S, NEW s \in Seq(S), IsInjective(s), NEW x \in S,
           ~Contains(s, x)
    PROVE  /\ IsInjective(Append(s, x))
           /\ Append(s, x) \in Seq(S) /\ Append(s, x) # <<>>
           /\ Len(Append(s, x)) = Len(s) + 1
<1> DEFINE t == Append(s, x)
<1>1. /\ t \in Seq(S) /\ Len(t) = Len(s) + 1 /\ DOMAIN t = 1..(Len(s) + 1)
      /\ \A k \in 1..Len(s) : t[k] = s[k]
      /\ t[Len(s) + 1] = x
  OBVIOUS
<1>2. \A k \in 1..Len(s) : s[k] # x
  BY DEF Contains
<1>3. \A j, k \in 1..Len(s) : s[j] = s[k] => j = k
  BY DEF IsInjective
<1>4. \A j, k \in 1..(Len(s) + 1) : t[j] = t[k] => j = k
  <2>1. \A k \in 1..(Len(s) + 1) : k \in 1..Len(s) \/ k = Len(s) + 1
    OBVIOUS
  <2> HIDE DEF t
  <2> QED
    BY <1>1, <1>2, <1>3, <2>1
<1>5. IsInjective(t)
  BY <1>1, <1>4 DEF IsInjective
<1> QED
  BY <1>1, <1>5
-----------------------------------------------------------------------------
\* What the two constructors of a PeerInfo make.
LEMMA PeerInfoType ==
    ASSUME NEW exe \in Exe \cup {None}
    PROVE  /\ PeerInfo(exe) \in PeerInfos /\ PeerInfo(exe).executable_path = exe
           /\ [PeerInfo(exe) EXCEPT !.attestation_class = "Unsigned"] \in PeerInfos
BY DEF PeerInfo, PeerInfos

LEMMA EnrichedType ==
    ASSUME NEW new \in PeerInfos, NEW pkg \in Package, NEW signed \in BOOLEAN,
           NEW class \in {"DpkgSigned", "Unsigned"}
    PROVE  [new EXCEPT !.attestation_class = class, !.subject_id = pkg,
                       !.signature_valid = signed] \in PeerInfos
BY DEF PeerInfos

LEMMA UnsignedType ==
    ASSUME NEW new \in PeerInfos
    PROVE  [new EXCEPT !.attestation_class = "Unsigned"] \in PeerInfos
BY DEF PeerInfos

LEMMA InitAttestInv == Init => AttestInv
<1> SUFFICES ASSUME Init PROVE AttestInv
  OBVIOUS
<1>1. TypeOK
  <2>1. proc \in [Pid -> Process] /\ altered \subseteq Package
    BY AttestationAssumption DEF Init
  <2>2. events \in 0..MaxEvents /\ i \in 0..Len(lineage) /\ lineage \in Seq(Pid)
    BY AttestationAssumption DEF Init
  <2>3. info \in PeerInfos
    BY PeerInfoType DEF Init
  <2> QED
    BY <2>1, <2>2, <2>3, AttestationAssumption DEF Init, TypeOK
<1>2. Places /\ NoCircle
  BY AttestationAssumption DEF Init, Places, NoCircle, IsInjective
<1> QED
  BY <1>1, <1>2 DEF AttestInv

\* A process table that only has processes in it keeps the invariant: the
\* thread's own variables are not touched.
LEMMA BecomesKeeps ==
    ASSUME AttestInv, NEW table \in [Pid -> Process], Event, Becomes(table)
    PROVE  AttestInv'
<1>1. table[pid].exe \in Image \cup {None}
  BY DEF AttestInv, TypeOK, Process
<1>2. events' \in 0..MaxEvents
  BY AttestationAssumption DEF AttestInv, TypeOK, Event
<1>3. TypeOK'
  BY <1>1, <1>2 DEF AttestInv, TypeOK, Becomes, Local
<1> QED
  BY <1>3 DEF AttestInv, Places, NoCircle, Becomes, Local

LEMMA WorldKeeps ==
    ASSUME AttestInv, World
    PROVE  AttestInv'
<1>0. proc \in [Pid -> Process] /\ 1 \in Pid
  BY AttestationAssumption DEF AttestInv, TypeOK
<1>1. ASSUME NEW p \in Pid, NEW q \in Pid, Fork(p, q) PROVE AttestInv'
  <2> DEFINE child == [ppid |-> p, exe |-> proc[p].exe]
  <2>1. child \in Process
    BY <1>0 DEF Process
  <2>2. [proc EXCEPT ![q] = child] \in [Pid -> Process]
    BY <1>0, <2>1
  <2> QED
    BY <1>1, <2>2, BecomesKeeps DEF Fork
<1>2. ASSUME NEW p \in Pid, NEW e \in Image, Exec(p, e) PROVE AttestInv'
  <2>1. [proc EXCEPT ![p].exe = e] \in [Pid -> Process]
    BY <1>0 DEF Process
  <2> QED
    BY <1>2, <2>1, BecomesKeeps DEF Exec
<1>3. ASSUME NEW p \in Pid, Exit(p) PROVE AttestInv'
  <2> DEFINE table == [q \in Pid |->
                IF q = p THEN Gone
                ELSE IF proc[q].ppid = p THEN [proc[q] EXCEPT !.ppid = 1]
                ELSE proc[q]]
  <2>1. Gone \in Process
    BY DEF Gone, Process
  <2>2. ASSUME NEW q \in Pid PROVE [proc[q] EXCEPT !.ppid = 1] \in Process
    BY <1>0 DEF Process
  <2>3. table \in [Pid -> Process]
    BY <1>0, <2>1, <2>2
  <2> QED
    BY <1>3, <2>3, BecomesKeeps DEF Exit
<1>4. ASSUME NEW pkg \in Package, Alter(pkg) PROVE AttestInv'
  <2>1. altered' \subseteq Package /\ verified' \subseteq Package
        /\ events' \in 0..MaxEvents
    BY <1>4, AttestationAssumption DEF Alter, Event, AttestInv, TypeOK
  <2>2. UNCHANGED <<proc, ran, Local>> /\ calm' = FALSE
    BY <1>4 DEF Alter
  <2> QED
    BY <2>1, <2>2 DEF AttestInv, TypeOK, Places, NoCircle, Local
<1> QED
  BY <1>1, <1>2, <1>3, <1>4 DEF World

\* The two ways to begin.
LEMMA BeginKeeps ==
    ASSUME AttestInv, NEW p \in Pid, Attest(p) \/ Walk(p)
    PROVE  AttestInv'
<1>1. proc[p].exe \in Image \cup {None} /\ Package \ altered \subseteq Package
  BY DEF AttestInv, TypeOK, Process
<1>2. CASE Attest(p)
  <2>1. TypeOK'
    BY <1>1, <1>2 DEF Attest, Begin, AttestInv, TypeOK, world
  <2>2. IsInjective(<<>>) /\ Len(<<>>) = 0
    BY DEF IsInjective
  <2>3. NoCircle'
    BY <1>2, <2>2, AttestationAssumption DEF Attest, NoCircle
  <2> QED
    BY <1>2, <2>1, <2>3 DEF Attest, Begin, AttestInv, Places
<1>3. CASE Walk(p)
  <2>1. <<p>> \in Seq(Pid) /\ Len(<<p>>) = 1 /\ IsInjective(<<p>>)
    BY DEF IsInjective
  <2>2. TypeOK'
    BY <1>1, <1>3, <2>1 DEF Walk, Begin, AttestInv, TypeOK, world
  <2>3. NoCircle'
    BY <1>3, <2>1, AttestationAssumption DEF Walk, NoCircle
  <2> QED
    BY <1>3, <2>1, <2>2, <2>3 DEF Walk, Begin, AttestInv, Places
<1> QED
  BY <1>2, <1>3

\* attest_stream leaves the lineage alone.
LEMMA AttestKeeps ==
    ASSUME AttestInv, NoCredentials \/ ReadExe \/ Enrich
    PROVE  AttestInv'
<1>1. UNCHANGED <<world, pid, lineage, i, ssh, history>>
  BY DEF NoCredentials, ReadExe, Enrich
<1>2. at' \in {"idle", "dpkg"} /\ info' \in PeerInfos /\ path' \in Exe \cup {None}
      /\ (at' = "dpkg" => path' \in Exe /\ info'.executable_path = path')
  <2>1. CASE NoCredentials
    BY <2>1, PeerInfoType DEF NoCredentials, AttestInv, TypeOK
  <2>2. CASE ReadExe
    <3>1. Link(pid) \in Exe \cup {None}
      BY LinkType DEF AttestInv, TypeOK
    <3>2. CASE path' = None
      BY <2>2, <3>2, PeerInfoType DEF ReadExe, Unsigned
    <3>3. CASE path' # None
      BY <2>2, <3>1, <3>3, PeerInfoType DEF ReadExe
    <3> QED
      BY <3>2, <3>3
  <2>3. CASE Enrich
    <3>1. path \in Exe /\ info \in PeerInfos /\ path' = path
      BY <2>3 DEF Enrich, AttestInv, TypeOK, Places
    <3>2. CASE Known(path)
      <4>1. PackageOf[path] \in Package
        BY <3>1, <3>2, AttestationAssumption DEF Known
      <4>2. PICK signed \in BOOLEAN, class \in {"DpkgSigned", "Unsigned"} :
                /\ info' = [info EXCEPT !.attestation_class = class,
                                        !.subject_id = PackageOf[path],
                                        !.signature_valid = signed]
                /\ at' = "idle"
        BY <2>3, <3>2 DEF Enrich
      <4>3. info' \in PeerInfos
        BY <3>1, <4>1, <4>2, EnrichedType
      <4> QED
        BY <3>1, <4>2, <4>3
    <3>3. CASE ~Known(path)
      BY <2>3, <3>1, <3>3, UnsignedType DEF Enrich, Unsigned
    <3> QED
      BY <3>2, <3>3
  <2> QED
    BY <2>1, <2>2, <2>3
<1>3. TypeOK' /\ NoCircle'
  BY <1>1, <1>2 DEF AttestInv, TypeOK, NoCircle, world, history
<1> QED
  BY <1>2, <1>3 DEF AttestInv, Places

\* One turn of lineage_pids: it adds a parent only while there is room and
\* only one it has not met.
LEMMA StepUpKeeps ==
    ASSUME AttestInv, StepUp
    PROVE  AttestInv'
<1> DEFINE ppid == proc[Last(lineage)].ppid
<1>1. /\ lineage \in Seq(Pid) /\ lineage # <<>> /\ Len(lineage) \in Nat \ {0}
      /\ at = "walk"
  BY DEF AttestInv, TypeOK, Places, StepUp
<1>2. Last(lineage) \in Pid
  BY <1>1 DEF Last
<1>3. ppid \in Pid \cup {0}
  BY <1>2 DEF AttestInv, TypeOK, Process
<1> HIDE DEF ppid
<1>4. CASE Len(lineage) <= Cap /\ ppid # 0 /\ ~Contains(lineage, ppid)
  <2>1. lineage' = Append(lineage, ppid) /\ UNCHANGED <<at, i>>
        /\ UNCHANGED <<world, pid, info, path, ssh, history>>
    BY <1>4 DEF StepUp, ppid
  <2>2. /\ IsInjective(lineage') /\ lineage' \in Seq(Pid) /\ lineage' # <<>>
        /\ Len(lineage') = Len(lineage) + 1
    <3>1. ppid \in Pid /\ IsInjective(lineage)
      BY <1>3, <1>4 DEF AttestInv, NoCircle
    <3> QED
      BY <1>1, <1>4, <2>1, <3>1, OneMore
  <2>3. TypeOK'
    BY <1>1, <2>1, <2>2 DEF AttestInv, TypeOK, world, history
  <2>4. NoCircle'
    BY <1>1, <1>4, <2>2, AttestationAssumption DEF NoCircle
  <2> QED
    BY <1>1, <2>1, <2>2, <2>3, <2>4 DEF AttestInv, Places
<1>5. CASE ~(Len(lineage) <= Cap /\ ppid # 0 /\ ~Contains(lineage, ppid))
  <2>1. /\ at' = "search" /\ i' = 1 /\ UNCHANGED lineage
        /\ UNCHANGED <<world, pid, info, path, ssh, history>>
    BY <1>5 DEF StepUp, ppid
  <2> QED
    BY <1>1, <2>1 DEF AttestInv, TypeOK, Places, NoCircle, world, history
<1> QED
  BY <1>4, <1>5

\* detect_ssh_session reads the lineage and never changes it.
LEMMA SearchKeeps ==
    ASSUME AttestInv, Look \/ CheckSsh
    PROVE  AttestInv'
<1>1. /\ lineage \in Seq(Pid) /\ i \in 1..Len(lineage) /\ lineage[i] \in Pid
      /\ at \in {"search", "ssh"}
  BY DEF AttestInv, TypeOK, Places, Look, CheckSsh
<1>2. Link(lineage[i]) \in Exe \cup {None}
  BY <1>1, LinkType DEF AttestInv, TypeOK
<1>3. ASSUME NextUp PROVE /\ at' \in {"idle", "search"}
                          /\ at' = "search" => i' \in 1..Len(lineage)
                          /\ i' \in 0..Len(lineage) /\ ssh' \in Pid \cup {None}
  BY <1>1, <1>3 DEF NextUp, Ends, AttestInv, TypeOK
<1>4. CASE Look
  <2>1. /\ path' = Link(lineage[i])
        /\ UNCHANGED <<world, pid, info, lineage, history>>
    BY <1>4 DEF Look
  <2>2. \/ Ends(None)
        \/ path' # None /\ at' = "ssh" /\ UNCHANGED <<i, ssh>>
        \/ NextUp
    <3>1. CASE path' = None
      BY <1>4, <3>1, AttestationAssumption DEF Look, Image
    <3>2. CASE path' # None /\ path' \in Sshd
      BY <1>4, <3>2 DEF Look
    <3>3. CASE path' # None /\ path' \notin Sshd
      BY <1>4, <3>3 DEF Look
    <3> QED
      BY <3>1, <3>2, <3>3
  <2> QED
    BY <1>1, <1>2, <1>3, <2>1, <2>2
       DEF Ends, AttestInv, TypeOK, Places, NoCircle, world, history
<1>5. CASE CheckSsh
  <2>1. UNCHANGED <<world, pid, info, lineage, path, history>>
        /\ (Ends(lineage[i]) \/ NextUp)
    BY <1>5 DEF CheckSsh
  <2> QED
    BY <1>1, <1>3, <2>1
       DEF Ends, AttestInv, TypeOK, Places, NoCircle, world, history
<1> QED
  BY <1>4, <1>5

LEMMA NextKeepsAttestInv == AttestInv /\ [Next]_vars => AttestInv'
<1>1. ASSUME AttestInv, UNCHANGED vars PROVE AttestInv'
  BY <1>1 DEF vars, world, history, AttestInv, TypeOK, Places, NoCircle
<1> QED
  BY <1>1, WorldKeeps, BeginKeeps, AttestKeeps, StepUpKeeps, SearchKeeps
     DEF Next

\* The inductive invariant: types, places and the lineage.
LEMMA AttestInvariant == Spec => []AttestInv
<1> QED
  BY InitAttestInv, NextKeepsAttestInv, PTL DEF Spec

\* Every variable of Attestation keeps its type; the search never looks
\* beyond the end of the lineage.
THEOREM AttestationTyped == Spec => []TypeOK
<1>1. AttestInv => TypeOK
  BY DEF AttestInv
<1> QED
  BY <1>1, AttestInvariant, PTL

\* lineage_pids names nobody twice and stops within its cap, for any number of
\* processes that fork, exec, exit and are numbered anew while it walks.
THEOREM LineageEnds == Spec => []NoCircle
<1>1. AttestInv => NoCircle
  BY DEF AttestInv
<1> QED
  BY <1>1, AttestInvariant, PTL
-----------------------------------------------------------------------------
\* What a signature vouches for.

\* The histories hold what is true now, and what the thread has in hand was.
Witnessed ==
    /\ at # "idle" => proc[pid].exe \in ran /\ Package \ altered \subseteq verified
    /\ at = "dpkg" => path \in ran /\ info = PeerInfo(path)
    /\ SignedWasTrue

\* A step that leaves the thread alone and only adds to the histories.
LEMMA WitnessesStay ==
    ASSUME Witnessed, UNCHANGED Local,
           ran \subseteq ran', verified \subseteq verified',
           proc'[pid].exe \in ran' \/ (proc' = proc /\ ran' = ran),
           Package \ altered' \subseteq verified' \/ (altered' = altered /\ verified' = verified)
    PROVE  Witnessed'
BY DEF Witnessed, SignedWasTrue, Attested, Local

LEMMA WorldWitnessed ==
    ASSUME AttestInv, Witnessed, World
    PROVE  Witnessed'
<1>1. ASSUME NEW table, Becomes(table) PROVE Witnessed'
  BY <1>1, WitnessesStay DEF Becomes
<1>2. ASSUME NEW pkg \in Package, Alter(pkg) PROVE Witnessed'
  <2>1. UNCHANGED Local /\ proc' = proc /\ ran' = ran
    BY <1>2 DEF Alter
  <2>2. verified' = verified \cup {pkg} /\ altered' \subseteq altered \cup {pkg}
    BY <1>2 DEF Alter
  <2>3. altered \subseteq altered' \cup {pkg}
    BY <1>2 DEF Alter
  <2>4. at # "idle" => Package \ altered' \subseteq verified'
    BY <2>2, <2>3 DEF Witnessed
  <2> QED
    BY <2>1, <2>2, <2>4 DEF Witnessed, SignedWasTrue, Attested, Local
<1> QED
  BY <1>1, <1>2 DEF World, Fork, Exec, Exit

\* A thread that begins begins the histories as well.
LEMMA BeginWitnessed ==
    ASSUME Witnessed, NEW p \in Pid, Attest(p) \/ Walk(p)
    PROVE  Witnessed'
BY DEF Witnessed, SignedWasTrue, Attested, Begin, Attest, Walk, world

LEMMA AttestWitnessed ==
    ASSUME AttestInv, Witnessed, NoCredentials \/ ReadExe \/ Enrich
    PROVE  Witnessed'
<1>1. CASE NoCredentials
  BY <1>1 DEF NoCredentials, Witnessed, SignedWasTrue, Attested, PeerInfo
<1>2. CASE ReadExe
  <2>1. /\ path' = Link(pid) /\ path' \in ran \cup {None}
        /\ at = "exe" /\ UNCHANGED <<world, pid, lineage, history>>
    BY <1>2 DEF ReadExe, Link, Witnessed
  <2>2. CASE path' = None
    <3>1. info'.executable_path = None /\ info'.signature_valid = FALSE /\ at' = "idle"
      BY <1>2, <2>2 DEF ReadExe, Unsigned, PeerInfo
    <3> QED
      BY <2>1, <3>1 DEF Witnessed, SignedWasTrue, Attested, world, history
  <2>3. CASE path' # None
    <3>1. info' = PeerInfo(path') /\ at' = "dpkg"
      BY <1>2, <2>3 DEF ReadExe
    <3> QED
      BY <2>1, <2>3, <3>1 DEF Witnessed, SignedWasTrue, Attested, world, history
  <2> QED
    BY <2>2, <2>3
<1>3. CASE Enrich
  <2>1. /\ path \in Exe /\ path \in ran /\ info \in PeerInfos /\ info = PeerInfo(path)
        /\ Package \ altered \subseteq verified
        /\ at' = "idle" /\ UNCHANGED <<world, pid, lineage, history>>
    BY <1>3 DEF Enrich, Unsigned, Witnessed, AttestInv, TypeOK, Places
  <2>2. info.executable_path = path /\ info.signature_valid = FALSE
    BY <2>1 DEF PeerInfo
  <2>3. CASE Known(path)
    <3>1. PackageOf[path] \in Package
      BY <2>1, <2>3, AttestationAssumption DEF Known
    <3>2. /\ info'.executable_path = path /\ info'.subject_id = PackageOf[path]
          /\ info'.signature_valid <=> PackageOf[path] \notin altered
          /\ info'.signature_valid => info'.attestation_class = "DpkgSigned"
      BY <1>3, <2>1, <2>2, <2>3 DEF Enrich, PeerInfos
    <3> QED
      BY <2>1, <3>1, <3>2 DEF Witnessed, SignedWasTrue, Attested, world, history
  <2>4. CASE ~Known(path)
    <3>1. info'.executable_path = path /\ info'.signature_valid = FALSE
      BY <1>3, <2>1, <2>2, <2>4 DEF Enrich, Unsigned, PeerInfos
    <3> QED
      BY <2>1, <3>1 DEF Witnessed, SignedWasTrue, Attested, world, history
  <2> QED
    BY <2>3, <2>4
<1> QED
  BY <1>1, <1>2, <1>3

\* The walk and the search have a lineage, so that they never end attested.
LEMMA WalkWitnessed ==
    ASSUME AttestInv, Witnessed, StepUp \/ Look \/ CheckSsh
    PROVE  Witnessed'
<1>1. lineage # <<>> /\ at \in {"walk", "search", "ssh"}
  BY DEF AttestInv, Places, StepUp, Look, CheckSsh
<1>2. /\ lineage' # <<>> /\ at' \in {"idle", "walk", "search", "ssh"}
      /\ UNCHANGED <<world, pid, history>>
  <2>1. CASE StepUp
    BY <1>1, <2>1, OneMore DEF StepUp, AttestInv, TypeOK, Places
  <2>2. CASE Look \/ CheckSsh
    BY <1>1, <2>2 DEF Look, CheckSsh, NextUp, Ends
  <2> QED
    BY <2>1, <2>2
<1> QED
  BY <1>1, <1>2 DEF Witnessed, SignedWasTrue, Attested, world, history

\* A valid signature is one of the package of an executable the peer's process
\* really ran, unaltered at some moment of the attestation: for any processes,
\* any packages and any events between the looks at them.
THEOREM SignaturesWereTrue == Spec => []SignedWasTrue
<1>1. Init => Witnessed
  <2>1. PeerInfo(None).attestation_class = ""
    BY DEF PeerInfo
  <2> QED
    BY <2>1 DEF Init, Witnessed, SignedWasTrue, Attested
<1>2. AttestInv /\ Witnessed /\ [Next]_vars => Witnessed'
  <2>1. ASSUME Witnessed, UNCHANGED vars PROVE Witnessed'
    BY <2>1 DEF vars, world, history, Witnessed, SignedWasTrue, Attested
  <2> QED
    BY <2>1, NextKeepsAttestInv, WorldWitnessed, BeginWitnessed, AttestWitnessed,
       WalkWitnessed DEF Next
<1>3. Witnessed => SignedWasTrue
  BY DEF Witnessed
<1> QED
  BY <1>1, <1>2, <1>3, AttestInvariant, PTL DEF Spec
-----------------------------------------------------------------------------
\* Processes are a tree: there is a generation for each, greater than that of its
\* parent, and only init has the first.
Generations(age) ==
    /\ age \in [Pid -> Nat] /\ age[1] = 0
    /\ \A p \in Pid \ {1} : age[p] > 0
    /\ \A p \in Pid : proc[p].ppid # 0 => age[proc[p].ppid] < age[p]

Tree ==
    /\ Live(1) /\ \A p \in Pid : proc[p].ppid # 0 => Live(proc[p].ppid)
    /\ \E age : Generations(age)

LEMMA TreeInit == Init => Tree
<1> SUFFICES ASSUME Init PROVE Tree
  OBVIOUS
<1>1. /\ proc \in [Pid -> Process] /\ 1 \in Pid /\ 0 \notin Pid /\ Pid \subseteq Nat
      /\ proc[1].ppid = 0 /\ proc[1].exe # None
      /\ \A p \in Pid \ {1} : \/ proc[p] = Gone
                              \/ proc[p].ppid \in 1..(p - 1) /\ proc[proc[p].ppid] # Gone
  BY AttestationAssumption DEF Init
<1>2. Live(1) /\ \A p \in Pid : proc[p].ppid # 0 => Live(proc[p].ppid)
  BY <1>1 DEF Live, Gone
<1>3. PICK age : age = [p \in Pid |-> p - 1]
  OBVIOUS
<1>4. \A p \in Pid : p \in Nat /\ p > 0 /\ age[p] = p - 1
  BY <1>1, <1>3
<1>5. age \in [Pid -> Nat] /\ age[1] = 0 /\ \A p \in Pid \ {1} : age[p] > 0
  <2>1. \A p \in Pid : p - 1 \in Nat
    BY <1>4
  <2>2. QED
    BY <1>1, <1>3, <1>4, <2>1
<1>6. ASSUME NEW p \in Pid, proc[p].ppid # 0
      PROVE  age[proc[p].ppid] < age[p]
  <2>1. p # 1 /\ proc[p].ppid \in 1..(p - 1)
    BY <1>1, <1>6 DEF Gone
  <2>2. proc[p].ppid \in Pid
    BY <1>1, <1>6 DEF Process
  <2>3. QED
    BY <1>4, <2>1, <2>2
<1>7. QED
  BY <1>2, <1>5, <1>6 DEF Tree, Generations

\* It stays one: a fork adds a leaf, and the orphans of an exit go to the root.
LEMMA TreeFork ==
    ASSUME TypeOK, Tree, NEW p \in Pid, NEW q \in Pid, Fork(p, q)
    PROVE  Tree'
<1>1. /\ proc \in [Pid -> Process] /\ 1 \in Pid /\ 0 \notin Pid
  BY AttestationAssumption DEF TypeOK
<1>2. /\ Live(p) /\ ~Live(q)
      /\ proc' = [proc EXCEPT ![q] = [ppid |-> p, exe |-> proc[p].exe]]
  BY DEF Fork, Becomes
<1>3. /\ proc'[q].ppid = p
      /\ \A r \in Pid \ {q} : proc'[r] = proc[r]
      /\ p # q /\ q # 1
  BY <1>1, <1>2 DEF Tree
<1>4. \A r \in Pid : proc[r].ppid # q
  BY <1>1, <1>2 DEF Tree
<1>5. proc'[1] # Gone /\ \A r \in Pid : proc'[r].ppid # 0 => proc'[proc'[r].ppid] # Gone
  <2>1. \A r \in Pid \ {q} : Live(r) => proc'[r] # Gone
    BY <1>3 DEF Live
  <2>2. ASSUME NEW r \in Pid, proc'[r].ppid # 0
        PROVE  proc'[proc'[r].ppid] # Gone
    <3>1. CASE r = q
      BY <1>2, <1>3, <2>1, <3>1
    <3>2. CASE r # q
      <4>1. proc'[r].ppid = proc[r].ppid /\ proc[r].ppid \in Pid \ {q}
        BY <1>1, <1>3, <1>4, <2>2, <3>2 DEF Process
      <4>2. QED
        BY <2>1, <2>2, <4>1 DEF Tree
    <3>3. QED
      BY <3>1, <3>2
  <2>3. QED
    BY <1>1, <1>3, <2>1, <2>2 DEF Tree
<1>6. PICK age : Generations(age)
  BY DEF Tree
<1>7. PICK older : older = [age EXCEPT ![q] = age[p] + 1]
  OBVIOUS
<1>8. /\ older \in [Pid -> Nat] /\ older[q] = age[p] + 1
      /\ \A r \in Pid \ {q} : older[r] = age[r]
      /\ \A r \in Pid : age[r] \in Nat
  BY <1>6, <1>7 DEF Generations
<1>9. ASSUME NEW r \in Pid, proc'[r].ppid # 0
      PROVE  older[proc'[r].ppid] < older[r]
  <2>1. CASE r = q
    BY <1>3, <1>8, <2>1
  <2>2. CASE r # q
    <3>1. proc'[r].ppid = proc[r].ppid /\ proc[r].ppid \in Pid \ {q}
      BY <1>1, <1>3, <1>4, <1>9, <2>2 DEF Process
    <3>2. QED
      BY <1>6, <1>8, <1>9, <2>2, <3>1 DEF Generations
  <2>3. QED
    BY <2>1, <2>2
<1>10. older[1] = 0 /\ \A r \in Pid \ {1} : older[r] > 0
  BY <1>1, <1>3, <1>6, <1>8 DEF Generations
<1>11. QED
  BY <1>5, <1>8, <1>9, <1>10 DEF Tree, Generations, Live

LEMMA TreeExec ==
    ASSUME TypeOK, Tree, NEW p \in Pid, NEW e \in Image, Exec(p, e)
    PROVE  Tree'
<1>1. /\ proc \in [Pid -> Process] /\ 1 \in Pid /\ e # None
  BY AttestationAssumption DEF TypeOK
<1>2. proc' = [proc EXCEPT ![p].exe = e] /\ Live(p)
  BY DEF Exec, Becomes
<1>3. /\ \A r \in Pid : proc'[r].ppid = proc[r].ppid
      /\ \A r \in Pid \ {p} : proc'[r] = proc[r]
      /\ proc'[p].exe = e
  BY <1>1, <1>2 DEF Process
<1>4. \A r \in Pid : Live(r) => proc'[r] # Gone
  BY <1>1, <1>3 DEF Live, Gone
<1>5. \A r \in Pid : proc[r].ppid \in Pid \cup {0}
  BY <1>1 DEF Process
<1>6. PICK age : Generations(age)
  BY DEF Tree
<1>7. Generations(age)'
  BY <1>3, <1>6 DEF Generations
<1>8. QED
  BY <1>1, <1>3, <1>4, <1>5, <1>7 DEF Tree, Live

LEMMA TreeExit ==
    ASSUME TypeOK, Tree, NEW p \in Pid, Exit(p)
    PROVE  Tree'
<1>1. /\ proc \in [Pid -> Process] /\ 1 \in Pid /\ 0 \notin Pid /\ p # 1
  BY AttestationAssumption DEF TypeOK, Exit
<1>2. \A r \in Pid : proc'[r] = IF r = p THEN Gone
                                ELSE IF proc[r].ppid = p THEN [proc[r] EXCEPT !.ppid = 1]
                                ELSE proc[r]
  BY DEF Exit, Becomes
<1>3. /\ proc'[p] = Gone /\ Gone.ppid = 0
      /\ \A r \in Pid \ {p} : \/ proc'[r] = proc[r] /\ proc[r].ppid # p
                              \/ proc[r].ppid = p /\ proc'[r].ppid = 1
                                    /\ proc'[r].exe = proc[r].exe
  BY <1>1, <1>2 DEF Gone, Process
<1>4. PICK age : Generations(age)
  BY DEF Tree
<1>5. proc[1].ppid = 0
  <2>1. proc[1].ppid # 0 => proc[1].ppid \in Pid
    BY <1>1 DEF Process
  <2>2. \A r \in Pid : age[r] \in Nat
    BY <1>4 DEF Generations
  <2>3. QED
    BY <1>1, <1>4, <2>1, <2>2 DEF Generations
<1>6. proc'[1] = proc[1]
  BY <1>1, <1>3, <1>5
<1>7. \A r \in Pid \ {p} : Live(r) => proc'[r] # Gone
  <2>1. ASSUME NEW r \in Pid \ {p}, Live(r) PROVE proc'[r] # Gone
    <3>1. CASE proc'[r] = proc[r]
      BY <2>1, <3>1 DEF Live
    <3>2. CASE proc'[r].ppid = 1
      BY <3>2 DEF Live, Gone
    <3>3. QED
      BY <1>3, <3>1, <3>2
  <2>2. QED
    BY <2>1
<1>8. ASSUME NEW r \in Pid, proc'[r].ppid # 0
      PROVE  proc'[proc'[r].ppid] # Gone /\ age[proc'[r].ppid] < age[r]
  <2>1. r # p
    BY <1>3, <1>8
  <2>2. CASE proc'[r] = proc[r] /\ proc[r].ppid # p
    <3>1. proc[r].ppid \in Pid \ {p} /\ Live(proc[r].ppid)
      BY <1>1, <1>8, <2>2 DEF Process, Tree
    <3>2. QED
      BY <1>4, <1>7, <1>8, <2>2, <3>1 DEF Generations, Live
  <2>3. CASE proc[r].ppid = p /\ proc'[r].ppid = 1
    <3>1. r # 1
      BY <1>1, <1>5, <2>3
    <3>2. QED
      BY <1>1, <1>4, <1>7, <2>3, <3>1 DEF Generations, Tree
  <2>4. QED
    BY <1>3, <2>1, <2>2, <2>3
<1>9. Generations(age)'
  BY <1>4, <1>8 DEF Generations
<1>10. QED
  BY <1>1, <1>7, <1>8, <1>9 DEF Tree, Live

\* Events leave a tree behind; the thread changes no process.
LEMMA TreeStep ==
    ASSUME TypeOK, Tree, [Next]_vars
    PROVE  Tree'
<1>1. CASE UNCHANGED proc
  BY <1>1 DEF Tree, Live, Generations
<1>2. CASE World
  BY <1>1, <1>2, TreeFork, TreeExec, TreeExit DEF World, Alter
<1>3. QED
  BY <1>1, <1>2 DEF Next, Attest, Walk, Begin, NoCredentials, ReadExe, Enrich, StepUp, Look,
                    CheckSsh, vars, world
-----------------------------------------------------------------------------
\* The walk while nothing happens: each is followed by its parent, so that the
\* generations go down along the lineage and no parent has been met before.
Linked ==
    \A k \in 1..Len(lineage) - 1 : proc[lineage[k]].ppid = lineage[k + 1]

Descends(age) ==
    \A j, k \in 1..Len(lineage) : j < k => age[lineage[k]] < age[lineage[j]]

Stopped == proc[Last(lineage)].ppid = 0 \/ Len(lineage) = Cap + 1

ChainInv ==
    /\ Tree
    /\ calm /\ lineage # <<>> => /\ Linked
                                 /\ \A age : Generations(age) => Descends(age)
    /\ calm /\ Walked => Stopped
    /\ at \in {"exe", "dpkg"} => lineage = <<>>

LEMMA ChainRests ==
    ASSUME ChainInv, Tree', UNCHANGED <<proc, lineage>>, calm' => calm,
           Walked' => Walked, at' \in {"exe", "dpkg"} => at \in {"exe", "dpkg"}
    PROVE  ChainInv'
BY DEF ChainInv, Linked, Descends, Generations, Stopped

\* One turn of lineage_pids finds the parent, and finds it new.
LEMMA ChainUp ==
    ASSUME AttestInv, ChainInv, Tree', StepUp
    PROVE  ChainInv'
<1> DEFINE ppid == proc[Last(lineage)].ppid
<1>1. PICK n \in Nat : n = Len(lineage)
  BY DEF AttestInv, TypeOK
<1>2. /\ lineage \in Seq(Pid) /\ lineage # <<>> /\ n > 0 /\ at = "walk"
      /\ Last(lineage) = lineage[n] /\ lineage[n] \in Pid
      /\ UNCHANGED <<proc, calm>>
  BY <1>1 DEF AttestInv, TypeOK, Places, StepUp, Last, world, history
<1>3. ppid \in Pid \cup {0}
  BY <1>2 DEF AttestInv, TypeOK, Process
<1>4. \A k \in 1..n : lineage[k] \in Pid
  BY <1>1, <1>2
<1>5. ASSUME NEW age, Generations(age), Descends(age), ppid # 0
      PROVE  \A k \in 1..n : age[ppid] < age[lineage[k]]
  <2>1. age[ppid] < age[lineage[n]]
    BY <1>2, <1>5 DEF Generations
  <2>2. ASSUME NEW k \in 1..n
        PROVE  age[ppid] < age[lineage[k]]
    <3>1. age[ppid] \in Nat /\ age[lineage[k]] \in Nat /\ age[lineage[n]] \in Nat
      BY <1>2, <1>3, <1>4, <1>5 DEF Generations
    <3>2. k = n \/ age[lineage[n]] < age[lineage[k]]
      BY <1>1, <1>5 DEF Descends
    <3>3. QED
      BY <2>1, <3>1, <3>2
  <2>3. QED
    BY <2>2
<1> HIDE DEF ppid
<1>6. CASE Len(lineage) <= Cap /\ ppid # 0 /\ ~Contains(lineage, ppid)
  <2>1. lineage' = Append(lineage, ppid) /\ at' = "walk"
    BY <1>2, <1>6 DEF StepUp, ppid
  <2>2. /\ Len(lineage') = n + 1 /\ lineage'[n + 1] = ppid
        /\ \A k \in 1..n : lineage'[k] = lineage[k]
    BY <1>1, <1>2, <2>1
  <2>3. ASSUME calm
        PROVE  Linked'
    <3>1. ASSUME NEW k \in 1..n
          PROVE  proc[lineage'[k]].ppid = lineage'[k + 1]
      <4>1. CASE k = n
        BY <1>2, <2>2, <4>1 DEF ppid
      <4>2. CASE k \in 1..n - 1
        <5>1. k + 1 \in 1..n
          BY <4>2
        <5>2. proc[lineage[k]].ppid = lineage[k + 1]
          BY <1>1, <1>2, <2>3, <4>2 DEF ChainInv, Linked
        <5>3. QED
          BY <2>2, <5>1, <5>2
      <4>3. QED
        BY <4>1, <4>2
    <3>2. Len(lineage') - 1 = n
      BY <2>2
    <3>3. QED
      BY <1>2, <3>1, <3>2 DEF Linked
  <2>4. ASSUME calm, NEW age, Generations(age)
        PROVE  Descends(age)'
    <3>1. Descends(age)
      BY <1>2, <2>4 DEF ChainInv
    <3>2. \A k \in 1..n : age[ppid] < age[lineage[k]]
      BY <1>5, <1>6, <2>4, <3>1
    <3>3. ASSUME NEW j \in 1..n + 1, NEW k \in 1..n + 1, j < k
          PROVE  age[lineage'[k]] < age[lineage'[j]]
      <4>1. j \in 1..n
        BY <3>3
      <4>2. CASE k = n + 1
        BY <2>2, <3>2, <4>1, <4>2
      <4>3. CASE k \in 1..n
        BY <1>1, <2>2, <3>1, <3>3, <4>1, <4>3 DEF Descends
      <4>4. QED
        BY <4>2, <4>3
    <3>4. QED
      BY <2>2, <3>3 DEF Descends
  <2>5. \A age : Generations(age)' => Generations(age)
    BY <1>2 DEF Generations
  <2>6. ~Walked' /\ at' = "walk"
    BY <2>1 DEF Walked
  <2>7. QED
    BY <1>2, <2>3, <2>4, <2>5, <2>6 DEF ChainInv
<1>7. CASE ~(Len(lineage) <= Cap /\ ppid # 0 /\ ~Contains(lineage, ppid))
  <2>1. UNCHANGED lineage /\ at' = "search"
    BY <1>7 DEF StepUp, ppid
  <2>2. ASSUME calm, ppid # 0
        PROVE  ~Contains(lineage, ppid)
    <3>1. PICK age : Generations(age)
      BY DEF ChainInv, Tree
    <3>2. Descends(age)
      BY <1>2, <2>2, <3>1 DEF ChainInv
    <3>3. \A k \in 1..n : age[ppid] < age[lineage[k]]
      BY <1>5, <2>2, <3>1, <3>2
    <3>4. ppid \in Pid /\ age[ppid] \in Nat
      BY <1>3, <2>2, <3>1 DEF Generations
    <3>5. \A k \in 1..n : ppid # lineage[k]
      BY <3>3, <3>4
    <3>6. QED
      BY <1>1, <3>5 DEF Contains
  <2>3. calm => Stopped
    <3>1. Len(lineage) <= Cap + 1 /\ Cap \in Nat
      BY AttestationAssumption DEF AttestInv, NoCircle
    <3>2. calm => ppid = 0 \/ ~(Len(lineage) <= Cap)
      BY <1>7, <2>2
    <3>3. QED
      BY <1>1, <3>1, <3>2 DEF Stopped, ppid
  <2>4. Stopped' <=> Stopped
    BY <1>2, <2>1 DEF Stopped
  <2>5. QED
    <3>1. Linked' <=> Linked
      BY <1>2, <2>1 DEF Linked
    <3>2. \A age : /\ Generations(age)' <=> Generations(age)
                   /\ Descends(age)' <=> Descends(age)
      BY <1>2, <2>1 DEF Generations, Descends
    <3>3. QED
      BY <1>2, <2>1, <2>3, <2>4, <3>1, <3>2 DEF ChainInv
<1>8. QED
  BY <1>6, <1>7

LEMMA ChainStep ==
    ASSUME AttestInv, ChainInv, [Next]_vars
    PROVE  ChainInv'
<1>1. Tree'
  BY TreeStep DEF AttestInv, ChainInv
<1>2. CASE World
  <2>1. calm' = FALSE /\ UNCHANGED <<at, lineage>>
    BY <1>2 DEF World, Fork, Exec, Exit, Becomes, Alter, Local
  <2>2. QED
    BY <1>1, <2>1 DEF ChainInv
<1>3. ASSUME NEW p \in Pid, Attest(p)
      PROVE  ChainInv'
  <2>1. lineage' = <<>> /\ at' = "exe"
    BY <1>3 DEF Attest, Begin
  <2>2. QED
    BY <1>1, <2>1 DEF ChainInv, Walked
<1>4. ASSUME NEW p \in Pid, Walk(p)
      PROVE  ChainInv'
  <2>1. lineage' = <<p>> /\ at' = "walk"
    BY <1>4 DEF Walk, Begin
  <2>2. Linked' /\ \A age : Descends(age)'
    BY <2>1 DEF Linked, Descends
  <2>3. QED
    BY <1>1, <2>1, <2>2 DEF ChainInv, Walked
<1>5. CASE NoCredentials \/ ReadExe \/ Enrich
  <2>1. UNCHANGED <<proc, lineage, calm>>
    BY <1>5 DEF NoCredentials, ReadExe, Enrich, world, history
  <2>2. lineage = <<>> /\ at' \in {"idle", "dpkg"}
    BY <1>5 DEF NoCredentials, ReadExe, Enrich, Unsigned, ChainInv
  <2>3. QED
    BY <1>1, <2>1, <2>2 DEF ChainInv, Walked
<1>6. CASE StepUp
  BY <1>1, <1>6, ChainUp
<1>7. CASE Look \/ CheckSsh
  <2>1. /\ UNCHANGED <<proc, lineage, calm>> /\ at \in {"search", "ssh"}
        /\ at' \in {"idle", "search", "ssh"}
    BY <1>7 DEF Look, CheckSsh, Ends, NextUp, world, history
  <2>2. QED
    BY <1>1, <2>1, ChainRests DEF Walked
<1>8. CASE UNCHANGED vars
  BY <1>1, <1>8, ChainRests DEF vars, world, history, Walked
<1>9. QED
  BY <1>2, <1>3, <1>4, <1>5, <1>6, <1>7, <1>8 DEF Next

\* While nothing happens lineage_pids finds the whole chain, up to init, to a
\* process that has gone or to the cap: for every tree of processes, whatever
\* they did before the walk began.
THEOREM WalkFindsChain == Spec => []WholeChain
<1>1. Init => ChainInv
  <2>1. Init => at = "idle" /\ lineage = <<>>
    BY DEF Init
  <2>2. QED
    BY <2>1, TreeInit DEF ChainInv, Walked
<1>2. AttestInv /\ ChainInv => WholeChain
  <2>1. ASSUME AttestInv, Walked
        PROVE  lineage # <<>>
    BY <2>1 DEF AttestInv, Places, Walked
  <2>2. QED
    BY <2>1 DEF ChainInv, Linked, Stopped, WholeChain
<1>3. QED
  BY <1>1, <1>2, ChainStep, AttestInvariant, PTL DEF Spec
-----------------------------------------------------------------------------
\* The search while nothing happens.

Reached(k) == Link(lineage[k]) \in Sshd /\ IsOpensshServer(Link(lineage[k]))

Halts(k) == Link(lineage[k]) = None \/ Reached(k)

First == {k \in DOMAIN lineage : Halts(k) /\ \A j \in 1..(k - 1) : ~Halts(j)}

Nearest == ssh = IF \E k \in First : Reached(k)
                 THEN lineage[CHOOSE k \in First : TRUE] ELSE None

SearchInv ==
    calm =>
        /\ at \in {"search", "ssh"} => \A j \in 1..(i - 1) : ~Halts(j)
        /\ at = "ssh" => path = Link(lineage[i]) /\ path \in Sshd
        /\ at = "idle" /\ lineage # <<>> => Nearest

LEMMA NearestIsNearest == (at = "idle" /\ lineage # <<>> /\ calm => Nearest) <=> NearestSsh
BY DEF Nearest, NearestSsh, First, Halts, Reached

\* The answer when the search ends where it stands, or at the end of the lineage.
LEMMA EndsHere ==
    ASSUME AttestInv, \A j \in 1..(i - 1) : ~Halts(j), i \in 1..Len(lineage), Halts(i),
           UNCHANGED <<world, lineage>>, ssh' = IF Reached(i) THEN lineage[i] ELSE None
    PROVE  Nearest'
<1>1. DOMAIN lineage = 1..Len(lineage) /\ Len(lineage) \in Nat
  BY DEF AttestInv, TypeOK
<1>2. ASSUME NEW k \in 1..Len(lineage), Halts(k), \A j \in 1..(k - 1) : ~Halts(j)
      PROVE  k = i
  BY <1>1, <1>2
<1>3. First = {i}
  BY <1>1, <1>2 DEF First
<1>4. Nearest' <=> ssh' = IF \E k \in First : Reached(k)
                          THEN lineage[CHOOSE k \in First : TRUE] ELSE None
  BY DEF Nearest, First, Halts, Reached, Link, IsOpensshServer, world
<1>5. QED
  BY <1>3, <1>4

LEMMA EndsNowhere ==
    ASSUME AttestInv, \A j \in 1..Len(lineage) : ~Halts(j),
           UNCHANGED <<world, lineage>>, ssh' = None
    PROVE  Nearest'
<1>1. DOMAIN lineage = 1..Len(lineage)
  BY DEF AttestInv, TypeOK
<1>2. First = {}
  BY <1>1 DEF First
<1>3. Nearest' <=> ssh' = IF \E k \in First : Reached(k)
                          THEN lineage[CHOOSE k \in First : TRUE] ELSE None
  BY DEF Nearest, First, Halts, Reached, Link, IsOpensshServer, world
<1>4. QED
  BY <1>2, <1>3

LEMMA GoesOn ==
    ASSUME AttestInv, \A j \in 1..(i - 1) : ~Halts(j), i \in 1..Len(lineage), ~Halts(i),
           UNCHANGED <<world, lineage, calm>>, NextUp
    PROVE  SearchInv'
<1>1. Len(lineage) \in Nat
  BY DEF AttestInv, TypeOK
<1>2. \A j \in 1..i : ~Halts(j)
  <2>1. \A j \in 1..i : j \in 1..(i - 1) \/ j = i
    BY <1>1
  <2>2. QED
    BY <2>1
<1>3. \A j : Halts(j)' <=> Halts(j)
  BY DEF Halts, Reached, Link, IsOpensshServer, world
<1>4. CASE i < Len(lineage)
  <2>1. at' = "search" /\ i' = i + 1 /\ i' - 1 = i
    BY <1>1, <1>4 DEF NextUp
  <2>2. \A j \in 1..(i' - 1) : ~(Halts(j)')
    BY <1>2, <1>3, <2>1
  <2>3. QED
    BY <2>1, <2>2 DEF SearchInv
<1>5. CASE ~(i < Len(lineage))
  <2>1. i = Len(lineage) /\ at' = "idle" /\ ssh' = None
    BY <1>1, <1>5 DEF NextUp, Ends
  <2>2. Nearest'
    BY <1>2, <2>1, EndsNowhere
  <2>3. QED
    BY <2>1, <2>2 DEF SearchInv
<1>6. QED
  BY <1>4, <1>5

LEMMA SearchStep ==
    ASSUME AttestInv, SearchInv, Look \/ CheckSsh
    PROVE  SearchInv'
<1>1. /\ i \in 1..Len(lineage) /\ lineage[i] \in Pid
      /\ UNCHANGED <<world, lineage, calm>>
  BY DEF AttestInv, TypeOK, Places, Look, CheckSsh, history
<1>2. \A j : Halts(j)' <=> Halts(j)
  BY <1>1 DEF Halts, Reached, Link, IsOpensshServer, world
<1>3. CASE ~calm
  BY <1>1, <1>3 DEF SearchInv
<1>4. CASE calm
  <2>1. \A j \in 1..(i - 1) : ~Halts(j)
    BY <1>4 DEF SearchInv, Look, CheckSsh
  <2>2. CASE Look
    <3>1. path' = Link(lineage[i]) /\ Link(lineage[i]) \in Exe \cup {None} /\ None \notin Sshd
      BY <1>1, <2>2, LinkType, AttestationAssumption DEF Look, AttestInv, TypeOK, Image
    <3>2. CASE path' = None
      <4>1. at' = "idle" /\ ssh' = None
        BY <2>2, <3>1, <3>2 DEF Look, Ends
      <4>2. Halts(i) /\ ~Reached(i)
        BY <3>1, <3>2 DEF Halts, Reached
      <4>3. Nearest'
        BY <1>1, <2>1, <4>1, <4>2, EndsHere
      <4>4. QED
        BY <4>1, <4>3 DEF SearchInv
    <3>3. CASE path' # None /\ path' \in Sshd
      <4>1. at' = "ssh" /\ i' = i
        BY <2>2, <3>3 DEF Look
      <4>2. path' = Link(lineage[i])'
        BY <1>1, <3>1, <4>1 DEF Link, world
      <4>3. \A j \in 1..(i' - 1) : ~(Halts(j)')
        BY <1>2, <2>1, <4>1
      <4>4. QED
        BY <3>3, <4>1, <4>2, <4>3 DEF SearchInv
    <3>4. CASE path' # None /\ path' \notin Sshd
      <4>1. NextUp
        BY <2>2, <3>4 DEF Look
      <4>2. ~Halts(i)
        BY <3>1, <3>4 DEF Halts, Reached
      <4>3. QED
        BY <1>1, <2>1, <4>1, <4>2, GoesOn
    <3>5. QED
      BY <3>2, <3>3, <3>4
  <2>3. CASE CheckSsh
    <3>1. path = Link(lineage[i]) /\ path \in Sshd /\ None \notin Sshd
      BY <1>4, <2>3, AttestationAssumption DEF SearchInv, CheckSsh, Image
    <3>2. CASE IsOpensshServer(path)
      <4>1. at' = "idle" /\ ssh' = lineage[i]
        BY <2>3, <3>2 DEF CheckSsh, Ends
      <4>2. Reached(i) /\ Halts(i)
        BY <3>1, <3>2 DEF Halts, Reached
      <4>3. Nearest'
        BY <1>1, <2>1, <4>1, <4>2, EndsHere
      <4>4. QED
        BY <4>1, <4>3 DEF SearchInv
    <3>3. CASE ~IsOpensshServer(path)
      <4>1. NextUp
        BY <2>3, <3>3 DEF CheckSsh
      <4>2. ~Halts(i)
        BY <3>1, <3>3 DEF Halts, Reached
      <4>3. QED
        BY <1>1, <2>1, <4>1, <4>2, GoesOn
    <3>4. QED
      BY <3>2, <3>3
  <2>4. QED
    BY <2>2, <2>3
<1>5. QED
  BY <1>3, <1>4

LEMMA SearchNext ==
    ASSUME AttestInv, ChainInv, SearchInv, [Next]_vars
    PROVE  SearchInv'
<1>1. CASE World
  <2>1. calm' = FALSE
    BY <1>1 DEF World, Fork, Exec, Exit, Becomes, Alter
  <2>2. QED
    BY <2>1 DEF SearchInv
<1>2. CASE (\E p \in Pid : Attest(p) \/ Walk(p)) \/ NoCredentials \/ ReadExe \/ Enrich
  <2>1. /\ at' \in {"exe", "dpkg", "walk", "idle"}
        /\ at' = "idle" => lineage' = <<>>
    BY <1>2 DEF Attest, Walk, Begin, NoCredentials, ReadExe, Enrich, Unsigned, ChainInv
  <2>2. QED
    BY <2>1 DEF SearchInv
<1>3. CASE StepUp
  <2>1. at' \in {"walk", "search"} /\ (at' = "search" => i' = 1)
    BY <1>3 DEF StepUp
  <2>2. \A j \in 1..(1 - 1) : FALSE
    OBVIOUS
  <2>3. QED
    BY <2>1, <2>2 DEF SearchInv
<1>4. CASE Look \/ CheckSsh
  BY <1>4, SearchStep
<1>5. CASE UNCHANGED vars
  <2>1. UNCHANGED <<proc, altered, lineage, i, path, ssh, at, calm>>
    BY <1>5 DEF vars, world, history
  <2>2. \A k : (Halts(k)' <=> Halts(k)) /\ (Reached(k)' <=> Reached(k))
    BY <2>1 DEF Halts, Reached, Link, IsOpensshServer
  <2>3. First' = First
    BY <2>1, <2>2 DEF First
  <2>4. Nearest' <=> Nearest
    BY <2>1, <2>2, <2>3 DEF Nearest
  <2>5. QED
    BY <2>1, <2>2, <2>4 DEF SearchInv, Link
<1>6. QED
  BY <1>1, <1>2, <1>3, <1>4, <1>5 DEF Next

\* While nothing happens detect_ssh_session answers with the nearest ancestor
\* that runs an unaltered openssh-server, unless a link before it is hidden.
THEOREM SearchFindsNearest == Spec => []NearestSsh
<1>1. Init => ChainInv /\ SearchInv
  <2>1. Init => at = "idle" /\ lineage = <<>>
    BY DEF Init
  <2>2. QED
    BY <2>1, TreeInit DEF ChainInv, SearchInv, Walked
<1>2. SearchInv => NearestSsh
  BY NearestIsNearest DEF SearchInv
<1>3. QED
  BY <1>1, <1>2, ChainStep, SearchNext, AttestInvariant, PTL DEF Spec
=============================================================================
