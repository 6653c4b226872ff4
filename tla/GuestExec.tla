----------------------------- MODULE GuestExec ------------------------------
(***************************************************************************)
(* Commands in a VM: proxmox_run of proxmox/system.py, with its sessions   *)
(* (_start_async_qemu) and polls (_poll_session).  They run on threads of  *)
(* the executor and share the sessions without a lock, so each assignment  *)
(* another thread could see is a step.  A sync call is the same polls,     *)
(* made by the tool itself until its deadline.                             *)
(*                                                                         *)
(* The command starts when the node carries the request out and exits when *)
(* it likes.  A session's age goes from young to old (600 s) to stale      *)
(* (_EXEC_SESSION_TTL) at any moment.                                      *)
(*                                                                         *)
(* Definitions whose names end in Bug are not part of the specification:   *)
(* they are what the definition after them must not be.                    *)
(***************************************************************************)
EXTENDS ToolCalls

CONSTANT MaxExec   \* bound on the commands

ASSUME GuestExecAssumption == MaxExec \in Nat

VARIABLES
  execs,    \* _exec_sessions; `known' until it is pruned
  runs,     \* how many commands were asked for
  exited    \* external: the commands that have exited in their guest

execVars == <<execs, runs, exited>>

ExecSession == [status : {"running", "completed", "failed", "timeout"}, stdout : {"", "output"},
                pid : BOOLEAN, age : {"young", "old", "stale"}, known : BOOLEAN]

Finished(e) == execs[e].status # "running"

ExecInit == execs = <<>> /\ runs = 0 /\ exited = {}

\* _guest_argv asks for the guest's operating system between the session and
\* agent/exec; without an answer it is taken for a POSIX system.
_guest_argv == <<"hint">>

\* A command is started as a call of its own.
proxmox_run(w, v) ==
  /\ ~ Busy(w) /\ runs < MaxExec
  /\ calls' = [calls EXCEPT ![w] = NewCall("proxmox", {v}, <<"run", "insert">> \o _guest_argv \o <<"change">>)]
  /\ runs' = runs + 1
  /\ UNCHANGED <<toolCalls, execs, exited>>

\* Sessions that ended an hour ago are forgotten, the others never.
_prune_exec_sessions ==
  [e \in DOMAIN execs |-> [execs[e] EXCEPT !.known = @ /\ ~ (Finished(e) /\ execs[e].age = "stale")]]

\* The session is there before the request is sent.
_start_async_qemu(w) ==
  LET e == Len(execs) + 1
  IN  /\ calls[w].pc = "run" /\ Head(calls[w].left) = "insert"
      /\ execs' = Append(_prune_exec_sessions,
                         [status |-> "running", stdout |-> "", pid |-> FALSE, age |-> "young",
                          known |-> TRUE])
      /\ calls' = [calls EXCEPT ![w].left = Tail(@), ![w].exec = e]
      /\ UNCHANGED <<toolCalls, runs, exited>>

\* agent/exec was answered, or was not.
exec_started(w) ==
  /\ calls[w].pc = "done" /\ calls[w].exec # 0
  /\ LET e  == calls[w].exec
         ok == \A v \in Vmid : calls[w].answers[v] \in {"none", "ok"}
     IN  execs' = [execs EXCEPT ![e].pid = ok, ![e].status = IF ok THEN @ ELSE "failed"]
  /\ calls' = [calls EXCEPT ![w] = Free]
  /\ UNCHANGED <<toolCalls, runs, exited>>

guest_exits(e) ==
  /\ execs[e].pid /\ e \notin exited
  /\ exited' = exited \cup {e}
  /\ UNCHANGED <<toolVars, execs, runs>>

ages(e) ==
  /\ execs[e].age # "stale"
  /\ execs' = [execs EXCEPT ![e].age = IF @ = "young" THEN "old" ELSE "stale"]
  /\ UNCHANGED <<toolVars, runs, exited>>

-----------------------------------------------------------------------------
Polling(pc, e) == [pc |-> pc, exec |-> e]

\* _poll_session: a finished session is reported as it is; of a running one
\* with a pid the agent is asked.
_poll_session(w, e) ==
  /\ ~ Busy(w) /\ execs[e].known /\ ~ Finished(e)
  /\ calls' = [calls EXCEPT ![w] = Polling(IF execs[e].pid THEN "ask" ELSE "late", e)]
  /\ UNCHANGED <<toolCalls, execVars>>

\* agent/exec-status says that the command has exited, that it has not, or
\* nothing: the request failed, or the agent has forgotten the command.
SaysExitedBug(reply) == reply # "running"
SaysExited(reply)    == reply = "exited"

exec_status(w, reply) ==
  /\ calls[w].pc = "ask"
  /\ reply = "exited" => calls[w].exec \in exited
  /\ reply = "running" => calls[w].exec \notin exited
  /\ calls' = [calls EXCEPT ![w].pc = IF SaysExited(reply) THEN "mark" ELSE "late"]
  /\ UNCHANGED <<toolCalls, execVars>>

\* The status is written before the output.
poll_completes(w) ==
  /\ calls[w].pc = "mark"
  /\ execs' = [execs EXCEPT ![calls[w].exec].status = "completed"]
  /\ calls' = [calls EXCEPT ![w].pc = "fill"]
  /\ UNCHANGED <<toolCalls, runs, exited>>

poll_fills(w) ==
  /\ calls[w].pc = "fill"
  /\ execs' = [execs EXCEPT ![calls[w].exec].stdout = "output"]
  /\ calls' = [calls EXCEPT ![w].pc = "late"]
  /\ UNCHANGED <<toolCalls, runs, exited>>

\* After 600 s any poll that saw the session running calls it a timeout.
poll_ends(w) ==
  /\ calls[w].pc = "late"
  /\ execs' = [execs EXCEPT ![calls[w].exec].status = IF execs[calls[w].exec].age = "young" THEN @ ELSE "timeout"]
  /\ calls' = [calls EXCEPT ![w] = Free]
  /\ UNCHANGED <<toolCalls, runs, exited>>

ExecNext ==
  \/ \E w \in Worker :
       \/ \E v \in Vmid : proxmox_run(w, v)
       \/ _start_async_qemu(w) \/ exec_started(w)
       \/ \E e \in DOMAIN execs : _poll_session(w, e)
       \/ \E reply \in {"exited", "running", "error"} : exec_status(w, reply)
       \/ poll_completes(w) \/ poll_fills(w) \/ poll_ends(w)
  \/ \E e \in DOMAIN execs : guest_exits(e) \/ ages(e)

-----------------------------------------------------------------------------
\* A command is reported as completed only when it has exited in its guest, and
\* with its output, unless the poll that found out is just writing it down.
\* Polls of the same command on several threads, errors of the agent and the
\* timeout do not change that.
CompletedHasOutput ==
  \A e \in DOMAIN execs :
    /\ execs[e].stdout # "" => e \in exited
    /\ execs[e].status = "completed" =>
         /\ e \in exited
         /\ execs[e].stdout # "" \/ \E w \in Worker : calls[w].pc = "fill" /\ calls[w].exec = e
=============================================================================
