---------------------------- MODULE MCNodeTools -----------------------------
(***************************************************************************)
(* Two names for the same address, checked on first use, and one host with *)
(* a known_hosts file; 110 is the number of a VM whose address is          *)
(* declared, 111 of one whose address is not.  Workers and guests are      *)
(* interchangeable.  The components share nothing but the container's      *)
(* command, so the loads put together what can meet.                       *)
(***************************************************************************)
EXTENDS NodeTools, TLC

CONSTANTS k1, k2

MCHosts ==
  <<[name |-> "pve", addr |-> "10.0.0.1", known_hosts |-> FALSE, strict |-> "unset"],
    [name |-> "pve-ro", addr |-> "10.0.0.1", known_hosts |-> FALSE, strict |-> "unset"],
    [name |-> "vm", addr |-> "10.0.0.110", known_hosts |-> TRUE, strict |-> "no"]>>
MCVmidAddr == [id \in {"110", "111"} |-> IF id = "110" THEN "10.0.0.110" ELSE "10.0.0.111"]
MCFileKeys == [a \in {"10.0.0.1", "10.0.0.110"} |-> IF a = "10.0.0.110" THEN {k1} ELSE {}]

Load(c, r, u, t, i) == [call |-> c, run |-> r, use |-> u, transfer |-> t, ilo |-> i]
MCLoads == {Load(1, 1, 0, 0, 0), Load(0, 2, 0, 0, 0), Load(0, 1, 1, 0, 0), Load(0, 0, 2, 0, 0),
            Load(0, 0, 0, 2, 0), Load(0, 0, 0, 0, 3)}

NodeSymmetry == Permutations(Worker) \cup Permutations(Vmid)
=============================================================================
