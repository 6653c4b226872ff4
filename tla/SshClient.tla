----------------------------- MODULE SshClient ------------------------------
(***************************************************************************)
(* The SSH client (src/src/beaconmcp/ssh/client.py and tools.py): which    *)
(* host an identifier means, how a server's key is checked and pinned on   *)
(* first use, the cache of connections, and the commands that run on them. *)
(*                                                                         *)
(* A use is a coroutine that needs a connection: the task of an ssh_run,   *)
(* or an awaited exec_command or SFTP operation, which take the same steps *)
(* and hand their outcome to the caller instead of a session.  A sync      *)
(* ssh_run only looks at its session until the deadline.                   *)
(*                                                                         *)
(* Servers are external: one presents the key it has, and may be           *)
(* reinstalled.  The operator may then remove the pin of an address        *)
(* (ssh-keygen -R); `forgotten' counts how often.  A connection grows old  *)
(* (_CONNECTION_TTL) or drops at any moment.                               *)
(*                                                                         *)
(* Definitions whose names end in Bug are not part of the specification:   *)
(* they are what the definition after them must not be.                    *)
(***************************************************************************)
EXTENDS Naturals, Sequences, FiniteSets

CONSTANTS
  Hosts,      \* ssh.hosts[]: a sequence of [name, addr, known_hosts, strict]
  SshKnownHosts, SshStrict,  \* the same settings at the level of ssh:
  VmidAddr,   \* ssh.vmid_to_ip: the address of each numeric identifier
  FileKeys,   \* the keys of the known_hosts files, for each address
  HostKey,    \* the keys a server can have
  FirstKey,   \* the one they have at the beginning
  MaxUse,     \* bound on the uses
  MaxChange   \* bound on reinstallations and on removed pins, each

ASSUME SshAssumption == MaxUse \in Nat /\ MaxChange \in Nat /\ SshStrict \in {"yes", "no", "unset"}

VARIABLES
  pins,       \* ssh_known_hosts: the keys on file for each address
  presents,   \* external: the key of the server at each address
  forgotten,  \* how often the operator removed the pin of an address
  reinstalled,\* how many servers were reinstalled
  cache,      \* _connection_cache: the connection of each name
  conns,      \* connections, in the order in which they were made
  uses,       \* coroutines, in the order in which they were started
  displaced   \* history: connections a later one took the place of in the cache

sshVars == <<pins, presents, forgotten, reinstalled, cache, conns, uses, displaced>>

Name       == {Hosts[i].name : i \in DOMAIN Hosts}
Addr       == {Hosts[i].addr : i \in DOMAIN Hosts}
Identifier == Name \cup Addr \cup DOMAIN VmidAddr
HostSpec(name) == Hosts[CHOOSE i \in DOMAIN Hosts : Hosts[i].name = name]

SshInit ==
  /\ pins = [a \in Addr |-> {}] /\ presents = [a \in Addr |-> FirstKey]
  /\ forgotten = [a \in Addr |-> 0] /\ reinstalled = 0
  /\ cache = [n \in {} |-> 0] /\ conns = <<>> /\ uses = <<>> /\ displaced = {}

-----------------------------------------------------------------------------
\* The first host declared with an address, if any.
ByAddress(a) ==
  {Hosts[i].name : i \in {j \in DOMAIN Hosts : Hosts[j].addr = a /\ \A k \in 1..j - 1 : Hosts[k].addr # a}}

\* resolve: a declared name, then a number through the template, then an
\* address.  Empty when nothing matches: SSHHostResolutionError.
resolve(id) ==
  IF id \in Name THEN {id}
  ELSE IF id \in DOMAIN VmidAddr THEN ByAddress(VmidAddr[id])
  ELSE ByAddress(id)

\* A known_hosts file at either level always applies; then the host's own
\* strict_host_key_checking, then the general one.
host_key_policy(name) ==
  LET strict == IF HostSpec(name).strict = "unset" THEN SshStrict ELSE HostSpec(name).strict
  IN  IF HostSpec(name).known_hosts \/ SshKnownHosts THEN "file"
      ELSE CASE strict = "yes" -> "system" [] strict = "no" -> "any" [] OTHER -> "tofu"

\* Sessions that ended are forgotten an hour after they began (_SSH_SESSION_TTL):
\* any of them may be that old.
_prune_ssh_sessions(stale) ==
  [u \in DOMAIN uses |-> IF u \in stale THEN [pc |-> "pruned"] ELSE uses[u]]

\* exec_command_async: the session is there before the task runs.
exec_command_async(id) ==
  /\ Len(uses) < MaxUse
  /\ \E stale \in SUBSET {u \in DOMAIN uses : uses[u].pc = "ended"} :
       uses' = Append(_prune_ssh_sessions(stale), [pc |-> "start", host |-> id])
  /\ UNCHANGED <<pins, presents, forgotten, reinstalled, cache, conns, displaced>>

\* ssh_run starts a session; waiting for it and polling it only read.
ssh_run(id) == exec_command_async(id)

Ended(u, status) == [uses EXCEPT ![u] = [pc |-> "ended", status |-> status]]

\* The identifier is resolved inside the task: an unknown one is a session that failed.
not_resolved(u) ==
  /\ uses[u].pc = "start" /\ resolve(uses[u].host) = {}
  /\ uses' = Ended(u, "failed")
  /\ UNCHANGED <<pins, presents, forgotten, reinstalled, cache, conns, displaced>>

\* _get_connection until it awaits: a young open connection is shared, any other
\* one is closed and forgotten, whoever still uses it.
Usable(c)    == conns[c].state = "young"
HungUpBug(c) == conns
HungUp(c)    == [conns EXCEPT ![c].state = "closed"]

_get_connection(u) ==
  /\ uses[u].pc = "start"
  /\ \E name \in resolve(uses[u].host) :
       LET a == HostSpec(name).addr
       IN  IF name \in DOMAIN cache /\ Usable(cache[name])
             THEN /\ uses' = [uses EXCEPT ![u] = [pc |-> "command", conn |-> cache[name]]]
                  /\ UNCHANGED <<cache, conns>>
             ELSE /\ uses' = [uses EXCEPT ![u] =
                       [pc |-> "connect", host |-> name, since |-> forgotten[a],
                        known |-> IF host_key_policy(name) = "tofu" THEN pins[a] ELSE FileKeys[a]]]
                  /\ cache' = [n \in DOMAIN cache \ {name} |-> cache[n]]
                  /\ conns' = IF name \in DOMAIN cache THEN HungUp(cache[name]) ELSE conns
  /\ UNCHANGED <<pins, presents, forgotten, reinstalled, displaced>>

(***************************************************************************)
(* The handshake.  A key among those that were on file when the connection *)
(* was begun is accepted (asyncssh).  Any other goes to                    *)
(* validate_host_public_key, which reads the file again under its lock: a  *)
(* key that is there now is accepted, the first one is recorded, and any   *)
(* other is refused.                                                       *)
(***************************************************************************)
OnFileBug(u) == uses[u].known
OnFile(u)    == pins[HostSpec(uses[u].host).addr]

validate_host_public_key(u, key) ==
  \/ /\ key \in OnFile(u)
     /\ UNCHANGED pins
  \/ /\ OnFile(u) = {}
     /\ pins' = [pins EXCEPT ![HostSpec(uses[u].host).addr] = @ \cup {key}]

Accepted(u, key) ==
  \/ /\ key \in uses[u].known \/ host_key_policy(uses[u].host) = "any"
     /\ UNCHANGED pins
  \/ /\ key \notin uses[u].known /\ host_key_policy(uses[u].host) = "tofu"
     /\ validate_host_public_key(u, key)

handshake(u) ==
  /\ uses[u].pc = "connect"
  /\ Accepted(u, presents[HostSpec(uses[u].host).addr])
  /\ uses' = [uses EXCEPT ![u].pc = "login", ![u].known = {presents[HostSpec(uses[u].host).addr]}]
  /\ UNCHANGED <<presents, forgotten, reinstalled, cache, conns, displaced>>

\* Signed in: the connection goes into the cache, over one that another use may
\* have put there meanwhile.
connected(u) ==
  LET name == uses[u].host  c == Len(conns) + 1
  IN  /\ uses[u].pc = "login"
      /\ conns' = Append(conns, [name |-> name, key |-> CHOOSE k \in uses[u].known : TRUE,
                                 state |-> "young", since |-> uses[u].since])
      /\ displaced' = displaced \cup (IF name \in DOMAIN cache THEN {cache[name]} ELSE {})
      /\ cache' = [n \in DOMAIN cache \cup {name} |-> IF n = name THEN c ELSE cache[n]]
      /\ uses' = [uses EXCEPT ![u] = [pc |-> "command", conn |-> c]]
      /\ UNCHANGED <<pins, presents, forgotten, reinstalled>>

\* Refused for its key, out of reach, or not let in.
connect_fails(u) ==
  /\ uses[u].pc \in {"connect", "login"}
  /\ uses' = Ended(u, "failed")
  /\ UNCHANGED <<pins, presents, forgotten, reinstalled, cache, conns, displaced>>

\* The command ends on an open connection, or has run for as long as it may, or
\* its connection is gone.
command_ends(u, status) ==
  /\ uses[u].pc = "command"
  /\ status = "completed" => conns[uses[u].conn].state # "closed"
  /\ uses' = Ended(u, status)
  /\ UNCHANGED <<pins, presents, forgotten, reinstalled, cache, conns, displaced>>

conn_drops(c) ==
  /\ conns[c].state # "closed"
  /\ conns' = [conns EXCEPT ![c].state = "closed"]
  /\ UNCHANGED <<pins, presents, forgotten, reinstalled, cache, uses, displaced>>

conn_grows_old(c) ==
  /\ conns[c].state = "young"
  /\ conns' = [conns EXCEPT ![c].state = "old"]
  /\ UNCHANGED <<pins, presents, forgotten, reinstalled, cache, uses, displaced>>

server_reinstalled(a, key) ==
  /\ key # presents[a] /\ reinstalled < MaxChange /\ uses # <<>>
  /\ reinstalled' = reinstalled + 1
  /\ presents' = [presents EXCEPT ![a] = key]
  /\ UNCHANGED <<pins, forgotten, cache, conns, uses, displaced>>

pin_removed(a) ==
  /\ pins[a] # {} /\ forgotten[a] < MaxChange
  /\ forgotten' = [forgotten EXCEPT ![a] = @ + 1]
  /\ pins' = [pins EXCEPT ![a] = {}]
  /\ UNCHANGED <<presents, reinstalled, cache, conns, uses, displaced>>

SshStep(u) ==
  \/ not_resolved(u) \/ _get_connection(u) \/ handshake(u) \/ connected(u) \/ connect_fails(u)
  \/ \E status \in {"completed", "timeout", "failed"} : command_ends(u, status)

SshNext ==
  \/ \E id \in Identifier : ssh_run(id)
  \/ \E u \in DOMAIN uses : SshStep(u)
  \/ \E c \in DOMAIN conns : conn_drops(c) \/ conn_grows_old(c)
  \/ \E a \in Addr : pin_removed(a) \/ \E key \in HostKey : server_reinstalled(a, key)

-----------------------------------------------------------------------------
\* Trust on first use: there is never more than one key on file for an address,
\* and every connection that is checked against that file is to a server with
\* this key, however many first connections run at the same time and whatever
\* the server becomes, unless the operator removed the pin since it was begun.
PinHolds ==
  /\ \A a \in Addr : Cardinality(pins[a]) <= 1
  /\ \A c \in DOMAIN conns :
       LET a == HostSpec(conns[c].name).addr
       IN  host_key_policy(conns[c].name) = "tofu" /\ conns[c].since = forgotten[a] =>
             conns[c].key \in pins[a]

\* No connection is left open: one that is open is in the cache under its name,
\* or in use, or two uses had missed the cache at the same time and the later
\* connection took its place.
ConnectionsAccounted ==
  \A c \in DOMAIN conns : conns[c].state # "closed" =>
    \/ \E n \in DOMAIN cache : cache[n] = c
    \/ \E u \in DOMAIN uses : uses[u].pc = "command" /\ uses[u].conn = c
    \/ c \in displaced
=============================================================================
