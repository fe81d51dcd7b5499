----------------------------- MODULE Attestation -----------------------------
(***************************************************************************)
(* Peer attestation on Linux (attestation.rs): what a thread reads about   *)
(* the process at the other end of its socket, and about that process'     *)
(* ancestors, while processes fork, exec and exit, their identifiers are   *)
(* used again, orphans go to init and packages change on the disk.  Every  *)
(* look at /proc and every run of dpkg-query or dpkg-verify is a step.     *)
(***************************************************************************)
EXTENDS Naturals, Sequences, SequencesExt, FiniteSets

CONSTANTS
    Pid,            \* process identifiers; 1 is init, 0 the parent of init
    Exe,            \* executables
    Hidden,         \* an exe link the bridge may not read
    Package,        \* packages dpkg knows
    PackageOf,      \* the package each executable is installed by
    NoPackage,      \* what installed the others
    OpenSsh,        \* the packages whose name contains openssh-server
    Sshd,           \* the executables whose path contains sshd
    HasVerify,      \* there is a program dpkg-verify to run
    Cap,            \* LINEAGE_CAP
    None,           \* Option::None
    Tables,         \* process tables to begin with
    MaxEvents       \* bound: process and package events

Image == Exe \cup {Hidden}
Process == [ppid : Pid \cup {0}, exe : Image \cup {None}]
Gone == [ppid |-> 0, exe |-> None]

\* Everything alive descends from init.
ASSUME AttestationAssumption ==
    /\ 1 \in Pid /\ 0 \notin Pid /\ Pid \subseteq Nat
    /\ Hidden \notin Exe /\ NoPackage \notin Package
    /\ None \notin Image /\ None \notin Pid /\ None \notin Package
    /\ PackageOf \in [Exe -> Package \cup {NoPackage}]
    /\ OpenSsh \subseteq Package /\ Sshd \subseteq Exe
    /\ Cap \in Nat \ {0} /\ HasVerify \in BOOLEAN /\ MaxEvents \in Nat
    /\ Tables \subseteq [Pid -> Process]
    /\ \A t \in Tables :
        /\ t[1].ppid = 0 /\ t[1].exe # None
        /\ \A p \in Pid \ {1} :
            \/ t[p] = Gone
            \/ t[p].ppid \in 1..(p - 1) /\ t[t[p].ppid] # Gone

VARIABLES
    proc,           \* the process table
    altered,        \* packages with a file that is not as it was installed
    events,         \* events so far
    at,             \* where the thread is
    pid,            \* SO_PEERCRED of the connection, or lineage_pids' argument
    info,           \* attest_stream's PeerInfo
    lineage,        \* lineage_pids' out
    i,              \* where in it detect_ssh_session looks
    path,           \* the path dpkg_info is asked about
    ssh,            \* detect_ssh_session's answer
    ran,            \* history: executables pid ran since the thread began
    verified,       \* history: packages unaltered at some time since
    calm            \* history: no process or package has changed since

world == <<proc, altered, events>>
history == <<ran, verified, calm>>
vars == <<world, at, pid, info, lineage, i, path, ssh, history>>
-----------------------------------------------------------------------------
Live(p) == proc[p] # Gone

\* read_link of /proc/pid/exe.
Link(p) == IF proc[p].exe = Hidden THEN None ELSE proc[p].exe

PeerInfos == [executable_path : Exe \cup {None},
              attestation_class : {"", "DpkgSigned", "Unsigned"},
              subject_id : Package \cup {None}, signature_valid : BOOLEAN]

PeerInfo(exe) == [executable_path |-> exe, attestation_class |-> "",
                  subject_id |-> None, signature_valid |-> FALSE]

\* dpkg-query names a package, and dpkg-verify can be run on it.
Known(e) == PackageOf[e] # NoPackage /\ HasVerify

TypeOK ==
    /\ proc \in [Pid -> Process]
    /\ altered \subseteq Package /\ events \in 0..MaxEvents
    /\ at \in {"idle", "exe", "dpkg", "walk", "search", "ssh"}
    /\ pid \in Pid
    /\ info \in PeerInfos
    /\ lineage \in Seq(Pid) /\ i \in 0..Len(lineage)
    /\ path \in Exe \cup {None}
    /\ ssh \in Pid \cup {None}
    /\ ran \subseteq Image \cup {None} /\ verified \subseteq Package
    /\ calm \in BOOLEAN

Init ==
    /\ proc \in Tables
    /\ altered \in SUBSET Package /\ events = 0
    /\ at = "idle" /\ pid = 1 /\ info = PeerInfo(None)
    /\ lineage = <<>> /\ i = 0 /\ path = None /\ ssh = None
    /\ ran = {} /\ verified = {} /\ calm = TRUE
-----------------------------------------------------------------------------
\* What processes do.  A process forks into an identifier that is free.
Event == events < MaxEvents /\ events' = events + 1
Local == <<at, pid, info, lineage, i, path, ssh>>

Becomes(table) ==
    /\ proc' = table
    /\ ran' = ran \cup {table[pid].exe}
    /\ calm' = FALSE
    /\ UNCHANGED <<altered, verified, Local>>

Fork(p, q) ==
    /\ Event
    /\ Live(p) /\ ~Live(q)
    /\ Becomes([proc EXCEPT ![q] = [ppid |-> p, exe |-> proc[p].exe]])

Exec(p, e) ==
    /\ Event
    /\ Live(p)
    /\ Becomes([proc EXCEPT ![p].exe = e])

\* Its children go to init.
Exit(p) ==
    /\ Event
    /\ Live(p) /\ p # 1
    /\ Becomes([q \in Pid |->
            IF q = p THEN Gone
            ELSE IF proc[q].ppid = p THEN [proc[q] EXCEPT !.ppid = 1]
            ELSE proc[q]])

\* A package is upgraded, or a file of it written.
Alter(pkg) ==
    /\ Event
    /\ altered' = IF pkg \in altered THEN altered \ {pkg} ELSE altered \cup {pkg}
    /\ verified' = verified \cup {pkg}
    /\ calm' = FALSE
    /\ UNCHANGED <<proc, ran, Local>>

World ==
    \/ \E p, q \in Pid : Fork(p, q)
    \/ \E p \in Pid, e \in Image : Exec(p, e)
    \/ \E p \in Pid : Exit(p)
    \/ \E pkg \in Package : Alter(pkg)
-----------------------------------------------------------------------------
Begin(p, step) ==
    /\ at = "idle" /\ at' = step
    /\ pid' = p
    /\ ran' = {proc[p].exe} /\ verified' = Package \ altered /\ calm' = TRUE

\* attest_stream of a connection made by p, which may have gone since.
Attest(p) ==
    /\ Begin(p, "exe")
    /\ lineage' = <<>> /\ i' = 0 /\ path' = None /\ ssh' = None
    /\ UNCHANGED <<world, info>>

\* The credentials of the socket cannot be had: PeerInfo::default().
NoCredentials ==
    /\ at = "exe" /\ at' = "idle"
    /\ info' = PeerInfo(None)
    /\ UNCHANGED <<world, pid, lineage, i, path, ssh, history>>

Unsigned(new) ==
    /\ info' = [new EXCEPT !.attestation_class = "Unsigned"]
    /\ at' = "idle"

\* Mutation: without a link the path found last time stays.
ReadExeKeepsPath ==
    /\ at = "exe"
    /\ LET e == IF Link(pid) = None THEN info.executable_path ELSE Link(pid) IN
        /\ path' = e
        /\ IF e = None THEN Unsigned(PeerInfo(None))
           ELSE info' = PeerInfo(e) /\ at' = "dpkg"
    /\ UNCHANGED <<world, pid, lineage, i, ssh, history>>

\* peer_cred: the link of whatever process has the identifier by now.
ReadExe ==
    /\ at = "exe"
    /\ path' = Link(pid)
    /\ IF path' = None THEN Unsigned(PeerInfo(None))
       ELSE info' = PeerInfo(path') /\ at' = "dpkg"
    /\ UNCHANGED <<world, pid, lineage, i, ssh, history>>

\* enrich_linux.
Enrich ==
    /\ at = "dpkg"
    /\ IF Known(path)
       THEN LET signed == PackageOf[path] \notin altered IN
            /\ info' = [info EXCEPT
                    !.attestation_class = IF signed THEN "DpkgSigned"
                                                    ELSE "Unsigned",
                    !.subject_id = PackageOf[path], !.signature_valid = signed]
            /\ at' = "idle"
       ELSE Unsigned(info)
    /\ UNCHANGED <<world, pid, lineage, i, path, ssh, history>>
-----------------------------------------------------------------------------
\* lineage_pids(p), and detect_ssh_session of what it returns.
Walk(p) ==
    /\ Begin(p, "walk")
    /\ lineage' = <<p>> /\ i' = 0 /\ path' = None /\ ssh' = None
    /\ UNCHANGED <<world, info>>

\* Mutation: nobody looks whether the parent was met before.
StepUpBlindly ==
    /\ at = "walk"
    /\ LET ppid == proc[Last(lineage)].ppid IN
        IF Len(lineage) <= Cap /\ ppid # 0
        THEN lineage' = Append(lineage, ppid) /\ UNCHANGED <<at, i>>
        ELSE at' = "search" /\ i' = 1 /\ UNCHANGED lineage
    /\ UNCHANGED <<world, pid, info, path, ssh, history>>

\* Mutation: one turn fewer than the cap allows.
StepUpEarly ==
    /\ at = "walk"
    /\ LET ppid == proc[Last(lineage)].ppid IN
        IF Len(lineage) < Cap /\ ppid # 0 /\ ~Contains(lineage, ppid)
        THEN lineage' = Append(lineage, ppid) /\ UNCHANGED <<at, i>>
        ELSE at' = "search" /\ i' = 1 /\ UNCHANGED lineage
    /\ UNCHANGED <<world, pid, info, path, ssh, history>>

\* One turn of the loop: the status of a process that has gone cannot be read
\* and names no parent.
StepUp ==
    /\ at = "walk"
    /\ LET ppid == proc[Last(lineage)].ppid IN
        IF Len(lineage) <= Cap /\ ppid # 0 /\ ~Contains(lineage, ppid)
        THEN lineage' = Append(lineage, ppid) /\ UNCHANGED <<at, i>>
        ELSE at' = "search" /\ i' = 1 /\ UNCHANGED lineage
    /\ UNCHANGED <<world, pid, info, path, ssh, history>>

Ends(answer) == at' = "idle" /\ ssh' = answer /\ UNCHANGED i

NextUp == IF i < Len(lineage)
          THEN at' = "search" /\ i' = i + 1 /\ UNCHANGED ssh
          ELSE Ends(None)

\* Mutation: the search ends at the first process that is not an sshd.
LookFirstOnly ==
    /\ at = "search"
    /\ path' = Link(lineage[i])
    /\ IF path' \in Sshd THEN at' = "ssh" /\ UNCHANGED <<i, ssh>> ELSE Ends(None)
    /\ UNCHANGED <<world, pid, info, lineage, history>>

\* A link that cannot be read ends the search.
Look ==
    /\ at = "search"
    /\ path' = Link(lineage[i])
    /\ CASE path' = None -> Ends(None)
         [] path' \in Sshd -> at' = "ssh" /\ UNCHANGED <<i, ssh>>
         [] OTHER -> NextUp
    /\ UNCHANGED <<world, pid, info, lineage, history>>

IsOpensshServer(e) == Known(e) /\ PackageOf[e] \in OpenSsh \ altered

CheckSsh ==
    /\ at = "ssh"
    /\ IF IsOpensshServer(path) THEN Ends(lineage[i]) ELSE NextUp
    /\ UNCHANGED <<world, pid, info, lineage, path, history>>

Next ==
    \/ World
    \/ \E p \in Pid : Attest(p) \/ Walk(p)
    \/ NoCredentials \/ ReadExe \/ Enrich
    \/ StepUp \/ Look \/ CheckSsh

Spec == Init /\ [][Next]_vars
-----------------------------------------------------------------------------
\* attest_stream has answered.
Attested == at = "idle" /\ info.attestation_class # "" /\ lineage = <<>>

\* What handle_link_deliver trusts: a valid signature is one of the package of
\* an executable that a process with the peer's identifier really ran, and that
\* package was unaltered, at some moment of this attestation.
SignedWasTrue ==
    Attested =>
        /\ info.executable_path \in ran \cup {None}
        /\ info.signature_valid =>
            /\ info.attestation_class = "DpkgSigned"
            /\ info.subject_id = PackageOf[info.executable_path]
            /\ info.subject_id \in verified

\* Whatever processes do during the walk, orphans and identifiers used again
\* included, lineage_pids names nobody twice and stops within the cap.
NoCircle == IsInjective(lineage) /\ Len(lineage) <= Cap + 1

\* The walk is over.
Walked == at \in {"search", "ssh"} \/ (at = "idle" /\ lineage # <<>>)

\* While nothing happens the walk finds the whole chain up to the cap: it
\* stops at init, at a process that has gone, or full.
WholeChain ==
    Walked /\ calm =>
        /\ \A k \in 1..(Len(lineage) - 1) : proc[lineage[k]].ppid = lineage[k + 1]
        /\ proc[Last(lineage)].ppid = 0 \/ Len(lineage) = Cap + 1

\* While nothing happens the search answers with the nearest ancestor that runs
\* an unaltered openssh-server, provided every link up to it can be read.
NearestSsh ==
    at = "idle" /\ lineage # <<>> /\ calm =>
        LET Answers(k) == Link(lineage[k]) \in Sshd
                          /\ IsOpensshServer(Link(lineage[k]))
            Stops(k) == Link(lineage[k]) = None \/ Answers(k)
            first == {k \in DOMAIN lineage : Stops(k)
                            /\ \A j \in 1..(k - 1) : ~Stops(j)}
        IN  ssh = IF \E k \in first : Answers(k)
                  THEN lineage[CHOOSE k \in first : TRUE] ELSE None
=============================================================================
