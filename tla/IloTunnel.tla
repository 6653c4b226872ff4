----------------------------- MODULE IloTunnel ------------------------------
(***************************************************************************)
(* The way to an iLO behind a jump host (src/src/beaconmcp/bmc/hp_ilo.py): *)
(* one SSH connection with a forwarded port, kept for the next call.       *)
(*                                                                         *)
(* Calls are coroutines and share three attributes of the backend, without *)
(* a lock: a step is what a call does from one await to the next.  Tunnels *)
(* are numbered in the order in which they are opened, and the port that a *)
(* tunnel forwards has its number.  The jump host is declared: without it  *)
(* every call ends at once.  A tunnel drops at any moment, and a call is   *)
(* cancelled at any await (its client gives it up).                        *)
(*                                                                         *)
(* Definitions whose names end in Bug are not part of the specification:   *)
(* they are what the definition after them must not be.                    *)
(***************************************************************************)
EXTENDS Naturals, Sequences

CONSTANT MaxIlo   \* bound on the calls

ASSUME IloAssumption == MaxIlo \in Nat

VARIABLES
  tunnel,      \* _tunnel, 0 when there is none
  listener,    \* _tunnel_listener: the tunnel it belongs to, or 0
  port,        \* _tunnel_local_port, or 0
  tunnels,     \* external: the connections, whether they are open and forward
  iloCalls,    \* the calls, in the order in which they began
  overlapped   \* history: a call began while another was opening a tunnel

iloVars == <<tunnel, listener, port, tunnels, iloCalls, overlapped>>

IloInit ==
  /\ tunnel = 0 /\ listener = 0 /\ port = 0
  /\ tunnels = <<>> /\ iloCalls = <<>> /\ overlapped = FALSE

OpensTunnel(c) == c.pc \in {"connect", "forward"}

\* Whether a request to the port reaches the iLO.
Leads(p) == tunnels[p].open /\ tunnels[p].forwards

\* `via' and `led' are history: the backend's tunnel when the endpoint was handed
\* out, and whether the endpoint led to the iLO then.
Endpoint(p, led) == [pc |-> "request", port |-> p, via |-> tunnel, led |-> led]

\* A call that was cancelled while it had the port of tunnel t forwarded, or (0)
\* elsewhere.  Tunnel t stays the backend's, with the port of the one before it.
Cancelled(t) == [pc |-> "done", result |-> "cancelled", own |-> t]
Abandoned(t) == \E i \in DOMAIN iloCalls : iloCalls[i] = Cancelled(t)

ReusableBug == tunnel # 0 /\ port # 0
Reusable    == tunnel # 0 /\ tunnels[tunnel].open /\ port # 0

\* What is left of the last tunnel goes before the next one is opened.
Dropped ==
  [t \in DOMAIN tunnels |->
    [open     |-> tunnels[t].open /\ t # tunnel,
     forwards |-> tunnels[t].forwards /\ t # tunnel /\ t # listener]]

\* _resolve_endpoint until it awaits.
_resolve_endpoint ==
  /\ Len(iloCalls) < MaxIlo
  /\ IF Reusable
       THEN /\ iloCalls' = Append(iloCalls, Endpoint(port, Leads(port)))
            /\ UNCHANGED tunnels
       ELSE /\ iloCalls' = Append(iloCalls, [pc |-> "connect"])
            /\ tunnels' = Dropped
  /\ overlapped' = (overlapped \/ \E i \in DOMAIN iloCalls : OpensTunnel(iloCalls[i]))
  /\ UNCHANGED <<tunnel, listener, port>>

\* The connection is the backend's tunnel at once, its port only when the jump
\* host has agreed to forward it: until then the last port is still there.
tunnel_connected(i) ==
  LET t == Len(tunnels) + 1
  IN  /\ iloCalls[i].pc = "connect"
      /\ tunnels' = Append(tunnels, [open |-> TRUE, forwards |-> FALSE])
      /\ tunnel' = t
      /\ iloCalls' = [iloCalls EXCEPT ![i] = [pc |-> "forward", own |-> t]]
      /\ UNCHANGED <<listener, port, overlapped>>

port_forwarded(i) ==
  LET t == iloCalls[i].own
  IN  /\ iloCalls[i].pc = "forward" /\ tunnels[t].open
      /\ tunnels' = [tunnels EXCEPT ![t].forwards = TRUE]
      /\ listener' = t /\ port' = t
      /\ iloCalls' = [iloCalls EXCEPT ![i] = Endpoint(t, TRUE)]
      /\ UNCHANGED <<tunnel, overlapped>>

\* An Exception, and nothing is kept; a connection whose port could not be
\* forwarded is not closed.
tunnel_fails(i) ==
  /\ OpensTunnel(iloCalls[i])
  /\ tunnel' = 0 /\ listener' = 0 /\ port' = 0
  /\ iloCalls' = [iloCalls EXCEPT ![i] = [pc |-> "done", result |-> "error"]]
  /\ UNCHANGED <<tunnels, overlapped>>

\* CancelledError is not an Exception: whatever the attributes are, they stay.
\* The thread of a request goes on, and nobody hears of it.
cancel(i) ==
  /\ iloCalls[i].pc # "done"
  /\ iloCalls' = [iloCalls EXCEPT ![i] = Cancelled(IF iloCalls[i].pc = "forward" THEN iloCalls[i].own ELSE 0)]
  /\ UNCHANGED <<tunnel, listener, port, tunnels, overlapped>>

\* _call: RIBCL through the port, on a thread; an error for any reason.
ilo_answers(i, result) ==
  /\ iloCalls[i].pc = "request"
  /\ result = "success" => Leads(iloCalls[i].port)
  /\ iloCalls' = [iloCalls EXCEPT ![i] = [pc |-> "done", result |-> result]]
  /\ UNCHANGED <<tunnel, listener, port, tunnels, overlapped>>

tunnel_drops(t) ==
  /\ tunnels[t].open
  /\ tunnels' = [tunnels EXCEPT ![t] = [open |-> FALSE, forwards |-> FALSE]]
  /\ UNCHANGED <<tunnel, listener, port, iloCalls, overlapped>>

IloNext ==
  \/ _resolve_endpoint
  \/ \E i \in DOMAIN iloCalls :
       \/ tunnel_connected(i) \/ port_forwarded(i) \/ tunnel_fails(i) \/ cancel(i)
       \/ \E result \in {"success", "error"} : ilo_answers(i, result)
  \/ \E t \in DOMAIN tunnels : tunnel_drops(t)

-----------------------------------------------------------------------------
\* The endpoint a call is given leads to the iLO at that moment, after any
\* sequence of dropped tunnels, failed attempts and cancelled calls, but for two
\* cases.  One is a tunnel whose opener was cancelled before it had its port: the
\* port of the last tunnel is handed out until that tunnel drops, and not after.
\* The other is a call that begins while another one opens a tunnel: it can be
\* given the port of the last tunnel, and two that open one can leave the tunnel
\* of the one with the port of the other.
EndpointLeads ==
  \A i \in DOMAIN iloCalls : iloCalls[i].pc = "request" =>
    iloCalls[i].led \/ overlapped \/ Abandoned(iloCalls[i].via)
=============================================================================
