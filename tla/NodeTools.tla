----------------------------- MODULE NodeTools ------------------------------
(***************************************************************************)
(* The tools that reach the nodes, their guests and their BMCs, together:  *)
(* calls over the Proxmox API (ToolCalls), commands in VMs (GuestExec),    *)
(* SSH (SshClient), file transfers (Transfers) and the way to an iLO       *)
(* (IloTunnel).  They share the event loop and the thread pool and hand    *)
(* work to each other: proxmox_run in a container is an SSH command on its *)
(* node.                                                                   *)
(***************************************************************************)
EXTENDS GuestExec, SshClient, Transfers, IloTunnel

CONSTANTS
  NodeHost,   \* the name under which the node is declared in ssh.hosts[]
  Loads       \* bounds: how many calls, commands, SSH uses, transfers and iLO calls meet

ASSUME NodeToolsAssumption == Loads \subseteq [call : Nat, run : Nat, use : Nat, transfer : Nat, ilo : Nat]

VARIABLE load   \* the bound of this behaviour

nodeVars == <<toolVars, execVars, sshVars, transferVars, iloVars, load>>

NodeInit ==
  /\ ToolInit /\ ExecInit /\ SshInit /\ TransferInit /\ IloInit
  /\ load \in Loads

\* The container's command, quoted for `pct exec', is started on the node.
run_in_container(w) ==
  /\ ForSsh(w)
  /\ calls' = [calls EXCEPT ![w] = Free]
  /\ exec_command_async(NodeHost)
  /\ UNCHANGED <<toolCalls, execVars, transferVars, iloVars>>

Within ==
  /\ toolCalls <= load.call /\ runs <= load.run /\ Len(uses) <= load.use
  /\ Len(transfers) <= load.transfer /\ Len(iloCalls) <= load.ilo

NodeStep ==
  \/ load.call + load.run > 0 /\ ToolNext /\ UNCHANGED <<execVars, sshVars, transferVars, iloVars>>
  \/ load.run > 0 /\ ExecNext /\ UNCHANGED <<sshVars, transferVars, iloVars>>
  \/ load.use > 0 /\ SshNext /\ UNCHANGED <<toolVars, execVars, transferVars, iloVars>>
  \/ load.transfer > 0 /\ TransferNext /\ UNCHANGED <<toolVars, execVars, sshVars, iloVars>>
  \/ load.ilo > 0 /\ IloNext /\ UNCHANGED <<toolVars, execVars, sshVars, transferVars>>
  \/ \E w \in Worker : run_in_container(w)

NodeNext == NodeStep /\ UNCHANGED load /\ Within'

NodeSpec == NodeInit /\ [][NodeNext]_nodeVars
=============================================================================
