---------------------------- MODULE MCAttestation ----------------------------
(***************************************************************************)
(* An instance of Attestation for TLC: a shell of no package, a server of  *)
(* its own, links nobody may read; a chain of processes and a small tree.  *)
(***************************************************************************)
EXTENDS Attestation

MCExe == {"sh", "sshd"}
MCPackageOf == [e \in MCExe |-> IF e = "sshd" THEN "openssh-server" ELSE "none"]

Parents == {<<0, 1, 2, 3>>, <<0, 1, 1, 0>>}
Images == {e \in [Pid -> MCExe \cup {Hidden}] : e[1] = Hidden}
MCTables ==
    {[p \in Pid |-> [ppid |-> parent[p],
                     exe |-> IF p # 1 /\ parent[p] = 0 THEN None ELSE e[p]]] :
        parent \in Parents, e \in Images}
=============================================================================
