----------------------------- MODULE ToolCalls ------------------------------
(***************************************************************************)
(* A call of a tool that changes something on a node or a server, from the *)
(* wrapper every tool has (_metric_tool of server.py, with the question of *)
(* confirm.py) to the requests it sends: the tools of proxmox/vms.py, the  *)
(* bulk action of proxmox/aggregators.py, proxmox_write_file of            *)
(* proxmox/system.py and the power tools of bmc/tools.py, over api_call of *)
(* proxmox/client.py or over the drivers of bmc/.                          *)
(*                                                                         *)
(* A call is the list of requests it has left to send for the guest at     *)
(* hand: `guest' and `lxc' find out what the guest is (a GET each, the     *)
(* second when the first found nothing), `vm' is `guest' for a tool that   *)
(* only VMs have, `run' is `guest' for proxmox_run, which leaves           *)
(* containers to SSH, `read' is a GET whose answer may end the call, `hint' *)
(* a GET and `probe' a POST whose answer does not matter, and `change' the *)
(* one request that changes something.  What a node answers is its own     *)
(* choice; an answer that rules the rest out (the VM is not running, the   *)
(* file is too large) is one it refuses.  Each thread has connections of   *)
(* its own: they are left out.                                             *)
(*                                                                         *)
(* Definitions whose names end in Bug are not part of the specification:   *)
(* they are what the definition after them must not be.                    *)
(***************************************************************************)
EXTENDS Integers, Sequences, FiniteSets

CONSTANTS
  Worker,          \* calls that can be in progress at the same time
  Vmid,
  RETRY_ATTEMPTS,  \* _RETRY_ATTEMPTS
  MaxToolCall      \* bound on the calls of this module

ASSUME ToolCallsAssumption ==
  RETRY_ATTEMPTS \in Nat \ {0} /\ MaxToolCall \in Nat

VARIABLES
  calls,      \* what each worker is doing
  toolCalls   \* how many calls were made

toolVars == <<calls, toolCalls>>

Free == [pc |-> "free"]

Busy(w)    == calls[w].pc # "free"
Calling(w) == calls[w].pc \in {"confirm", "run", "done"}

-----------------------------------------------------------------------------
(***************************************************************************)
(* What each tool asks for.  A set of plans: one for each kind of argument *)
(* that changes the requests.                                              *)
(***************************************************************************)
ChangesGuest    == {<<"guest", "change">>}
vm_power        == ChangesGuest                              \* start, stop, restart
vm_copy         == ChangesGuest                              \* clone, migrate
backup_create   == ChangesGuest
snapshot_change == ChangesGuest                              \* rollback, delete
vm_create       == {<<"change">>}
vm_config       == {<<"guest", "read">>, <<"guest", "change">>}
snapshot_list   == {<<"guest", "read">>}
\* With the memory of the VM, only for a VM that is running.
snapshot_create == {<<"guest", "change">>, <<"vm", "read", "change">>}
\* The type of a backup is in its name, or in the storage's listing.
backup_restore  == {<<"change">>, <<"read", "change">>}
backup_list     == {<<"read">>}
write_file      == {<<"vm", "change">>, <<"vm">>}            \* the second: too long to write
\* stat in the VM tells the size, if it can; then the file.
read_file       == {<<"vm", "probe", "read">>, <<"vm", "probe", "hint", "read">>}
storage_status  == {<<"hint">>, <<"hint", "hint">>}          \* an error is a row of the answer
network_config  == {<<"read">>}
\* Each guest of the list is looked for and changed on a thread of its own.  They
\* share nothing: here they take turns.  There is one node to look on; a further
\* one would only add GETs before `not found'.
vm_bulk_action  == {<<"guest", "change">>}
redfish_power   == {<<"read", "change">>}                    \* finds the system first
ipmi_power      == {<<"change">>}
ilo_power       == {<<"change">>}
bmc_power       == redfish_power \cup ipmi_power \cup ilo_power

\* Nothing is sent: the arguments are refused, or they name a node or a device
\* that is not configured.
Refused == {<<>>}

Tool == [name : {"vm_power", "vm_copy", "vm_create", "vm_config", "snapshot_list", "snapshot_create",
                 "snapshot_rollback", "snapshot_delete", "backup_create", "backup_restore", "backup_list",
                 "write_file", "read_file", "storage_status", "network_config", "bulk",
                 "bmc_power_on", "bmc_power_off"},
         dry_run : BOOLEAN, force : BOOLEAN]

Plans(name) ==
  CASE name = "vm_power"        -> vm_power
    [] name = "vm_copy"         -> vm_copy
    [] name = "backup_create"   -> backup_create
    [] name \in {"snapshot_rollback", "snapshot_delete"} -> snapshot_change
    [] name = "vm_create"       -> vm_create
    [] name = "vm_config"       -> vm_config
    [] name = "snapshot_list"   -> snapshot_list
    [] name = "snapshot_create" -> snapshot_create
    [] name = "backup_restore"  -> backup_restore
    [] name = "backup_list"     -> backup_list
    [] name = "write_file"      -> write_file
    [] name = "read_file"       -> read_file
    [] name = "storage_status"  -> storage_status
    [] name = "network_config"  -> network_config
    [] name = "bulk"            -> vm_bulk_action
    [] OTHER                    -> bmc_power

HasDryRun(name) == name \in {"snapshot_create", "snapshot_rollback", "snapshot_delete"}

Targets(name) == {vmids \in SUBSET Vmid : IF name = "bulk" THEN vmids # {} ELSE Cardinality(vmids) = 1}

Client(name) == IF name \in {"bmc_power_on", "bmc_power_off"} THEN "bmc" ELSE "proxmox"

\* bmc_power_off stands for bmc_power_reset too.
CONFIRM_TOOLS == {"bmc_power_off", "snapshot_rollback", "snapshot_delete", "backup_restore"}

_needs_confirmation(tool) ==
  /\ tool.name \in CONFIRM_TOOLS
  /\ ~ tool.dry_run
  /\ tool.name = "backup_restore" => tool.force

-----------------------------------------------------------------------------
\* What a call tells its caller about a guest; `none' until it is known.
Answer == {"none", "ok", "error", "maybe", "unreachable", "not_found", "gave_up",
           "unsupported", "container", "dry_run", "declined", "unavailable", "cancelled"}

\* In these the caller is told, in so many words or by the nature of the
\* answer, that nothing was done.
NothingDone == {"unreachable", "not_found", "gave_up", "unsupported", "container", "dry_run",
                "declined", "unavailable", "cancelled"}

ToolInit ==
  /\ calls = [w \in Worker |-> Free]
  /\ toolCalls = 0

NewCall(client, todo, plan) ==
  [pc |-> "run", client |-> client, todo |-> todo, plan |-> plan, left |-> plan, attempt |-> 1,
   exec |-> 0, hits |-> [v \in Vmid |-> 0], answers |-> [v \in Vmid |-> "none"]]

\* Every guest the call was for, and did not get to, has the answer a.
Closed(c, a) ==
  [c EXCEPT !.pc = "done", !.todo = {},
            !.answers = [v \in Vmid |-> IF v \in c.todo THEN a ELSE c.answers[v]]]

\* The guest at hand is done with: the next one, or the end of the call.
Settled(c, v, a) ==
  LET rest == c.todo \ {v}
  IN  [c EXCEPT !.pc = IF rest = {} THEN "done" ELSE "run", !.todo = rest, !.left = c.plan,
                !.attempt = 1, !.answers[v] = a]

\* Sets are in no order: the guest at hand is any that is left, but the same one
\* until it is settled.
AtHand(c) == CHOOSE v \in c.todo : TRUE

Started(c) == IF c.plan = <<>> THEN Closed(c, "unsupported") ELSE [c EXCEPT !.pc = "run"]

\* The wrapper: a tool that needs it asks first, when the client has a form to
\* ask with.  vm_bulk_action works through its list without duplicates, the
\* others have one guest.
Opening(tool, vmids, plan, form) ==
  LET c == NewCall(Client(tool.name), vmids, plan)
  IN  IF _needs_confirmation(tool) /\ form THEN [c EXCEPT !.pc = "confirm"]
      ELSE IF tool.dry_run THEN Closed(c, "dry_run")
      ELSE Started(c)

Openings ==
  UNION {{Opening(tool, vmids, plan, form) : plan \in Plans(tool.name) \cup Refused, form \in BOOLEAN,
                                             vmids \in Targets(tool.name)} :
         tool \in {t \in Tool : t.dry_run => HasDryRun(t.name)}}

call_tool(w) ==
  /\ ~ Busy(w) /\ toolCalls < MaxToolCall
  /\ \E c \in Openings : calls' = [calls EXCEPT ![w] = c]
  /\ toolCalls' = toolCalls + 1

\* confirm_destructive: the dialog is answered, could not be shown, or the call
\* is cancelled while it is open.
GoAhead(reply) == reply = "accept"

confirm_destructive(w, reply) ==
  /\ calls[w].pc = "confirm"
  /\ calls' = [calls EXCEPT ![w] = IF GoAhead(reply) THEN Started(calls[w])
                                   ELSE Closed(calls[w], reply)]
  /\ UNCHANGED toolCalls

-----------------------------------------------------------------------------
(***************************************************************************)
(* api_call.  A request is answered, refused by the node (any other        *)
(* exception), never sent, or sent and its answer lost: then it reached    *)
(* the node or not.                                                        *)
(***************************************************************************)
Reply == {"answer", "refused", "never_sent", "lost"}

\* Whether the node carried the request out.  A node that refuses may have
\* begun: nothing is claimed about it.
MayReach(reply) ==
  CASE reply = "answer"     -> {TRUE}
    [] reply = "never_sent" -> {FALSE}
    [] OTHER                -> BOOLEAN

\* A GET is safe to send twice, anything else only when it never went out.
RetryableBug(get, reply) == reply \in {"never_sent", "lost"}
Retryable(get, reply)    == reply = "never_sent" \/ (get /\ reply = "lost")

api_result(get, reply) ==
  CASE reply = "answer"               -> "ok"
    [] reply = "refused"              -> "error"
    [] Retryable(get, reply)          -> "unreachable"
    [] OTHER                          -> "maybe"

\* The drivers of bmc/ send once, and an error is an error.
bmc_result(reply) == IF reply = "answer" THEN "ok" ELSE "error"

\* _detect_vm_type: no VM of that number, so is there a container?
AsContainer    == [guest |-> "lxc", vm |-> "lxc_vm", run |-> "lxc_run"]
ContainerStage == {"lxc", "lxc_vm", "lxc_run"}

\* What the call does with the result of the request at the head of `left'.
After(c, v, result) ==
  LET stage == Head(c.left)
      rest  == [c EXCEPT !.left = Tail(c.left), !.attempt = 1]
      next  == IF rest.left = <<>> THEN Settled(c, v, result) ELSE rest
  IN  CASE stage \in DOMAIN AsContainer /\ result # "ok" ->
             [c EXCEPT !.left = <<AsContainer[stage]>> \o Tail(c.left), !.attempt = 1]
        [] stage \in ContainerStage /\ result # "ok" -> Settled(c, v, "not_found")
        [] stage = "lxc_vm" /\ result = "ok"   -> Settled(c, v, "unsupported")
        [] stage = "lxc_run" /\ result = "ok"  -> Settled(c, v, "container")
        [] stage = "vm" /\ result = "ok" /\ rest.left = <<>> -> Settled(c, v, "unsupported")
        [] stage = "read" /\ result # "ok"     -> Settled(c, v, "gave_up")
        [] OTHER                               -> next

\* One attempt of a request.
Attempt(c, v, reply, reached) ==
  LET get  == Head(c.left) \notin {"change", "probe"}
      sent == IF reached /\ Head(c.left) = "change" THEN [c EXCEPT !.hits[v] = c.hits[v] + 1] ELSE c
  IN  IF c.client = "bmc" THEN After(sent, v, bmc_result(reply))
      ELSE IF Retryable(get, reply) /\ c.attempt < RETRY_ATTEMPTS
        THEN [sent EXCEPT !.attempt = c.attempt + 1]
        ELSE After(sent, v, api_result(get, reply))

api_call(w, reply, reached) ==
  /\ calls[w].pc = "run" /\ Head(calls[w].left) # "insert"
  /\ reached \in MayReach(reply)
  /\ calls' = [calls EXCEPT ![w] = Attempt(calls[w], AtHand(calls[w]), reply, reached)]
  /\ UNCHANGED toolCalls

\* proxmox_run found a container: it goes on with SSH.
ForSsh(w) == calls[w].pc = "done" /\ \E v \in Vmid : calls[w].answers[v] = "container"

\* The tool has answered.
tool_returns(w) ==
  /\ calls[w].pc = "done" /\ calls[w].exec = 0 /\ ~ ForSsh(w)
  /\ calls' = [calls EXCEPT ![w] = Free]
  /\ UNCHANGED toolCalls

ToolNext ==
  \E w \in Worker :
    \/ call_tool(w)
    \/ \E reply \in {"accept", "declined", "unavailable", "cancelled"} : confirm_destructive(w, reply)
    \/ \E reply \in Reply, reached \in BOOLEAN : api_call(w, reply, reached)
    \/ tool_returns(w)

-----------------------------------------------------------------------------
\* Whatever a node does with a request and whatever is retried, a guest gets at
\* most one change out of a call, a call that answers with success made it, and a
\* call whose answer says that nothing was done (refused in the dialog, guest not
\* found, node unreachable) made none.
AppliedOnce ==
  \A w \in Worker : Calling(w) =>
    \A v \in Vmid :
      /\ calls[w].hits[v] <= 1
      /\ calls[w].answers[v] \in NothingDone => calls[w].hits[v] = 0
      /\ calls[w].answers[v] = "ok" /\ calls[w].plan[Len(calls[w].plan)] = "change" =>
           calls[w].hits[v] = 1
=============================================================================
