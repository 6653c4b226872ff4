-------------------------- MODULE NodeToolsProofs --------------------------
(***************************************************************************)
(* What is proved of the tools that reach the nodes, for any number of     *)
(* workers, guests, hosts, keys, commands, transfers and calls.            *)
(*                                                                         *)
(* The invariant has one part per component, and each is inductive by      *)
(* itself; NodeTools' composition only has to show which parts a step      *)
(* leaves alone.                                                           *)
(*                                                                         *)
(* IloGood: one call at a time opens a tunnel, unless calls overlapped     *)
(* there, and otherwise the port is that of the tunnel, unless the call    *)
(* that opened it was cancelled before it had its port.                    *)
(*                                                                         *)
(* SshGood: what a use has learnt about its server (the keys it read       *)
(* before the handshake) is still pinned, unless the operator removed the  *)
(* pin since; every open connection is in the cache or was displaced.      *)
(*                                                                         *)
(* ExecGood: the list of requests a call still has to send has its change  *)
(* last or not at all, so a request that is tried again never is one that  *)
(* has reached the guest; a poll that marks a session has seen the exit.   *)
(*                                                                         *)
(* TransferGood: the checksum a push compares with is of its own body, the *)
(* files a transfer has are named after where it is, and, until two        *)
(* downloads overlap, at most one is between its first byte and its        *)
(* rename, so what it hashed is what it renames.                           *)
(***************************************************************************)
EXTENDS NodeTools, TLAPS, FiniteSetTheorems

\* What a sequence over S has at its places.
LEMMA ElementOfSeq ==
  ASSUME NEW S, NEW s \in Seq(S)
  PROVE  /\ Len(s) \in Nat /\ DOMAIN s = 1..Len(s)
         /\ \A i \in DOMAIN s : s[i] \in S
OBVIOUS

\* A sequence, of whatever it is.
IsSeq(s) == s \in Seq({s[i] : i \in DOMAIN s})

\* A function on 1..n is a sequence of length n.
LEMMA IsSeqFun ==
  ASSUME NEW n \in Nat, NEW f, DOMAIN f = 1..n, f = [i \in 1..n |-> f[i]]
  PROVE  IsSeq(f) /\ Len(f) = n
BY DEF IsSeq

\* A sequence is a function on 1..Len.
LEMMA IsSeqIs ==
  ASSUME NEW s, IsSeq(s)
  PROVE  Len(s) \in Nat /\ DOMAIN s = 1..Len(s) /\ s = [i \in 1..Len(s) |-> s[i]]
BY DEF IsSeq

\* A sequence with one entry replaced.
LEMMA IsSeqExcept ==
  ASSUME NEW s, IsSeq(s), NEW i \in DOMAIN s, NEW x
  PROVE  /\ IsSeq([s EXCEPT ![i] = x]) /\ DOMAIN [s EXCEPT ![i] = x] = DOMAIN s
         /\ Len([s EXCEPT ![i] = x]) = Len(s)
         /\ [s EXCEPT ![i] = x][i] = x
         /\ \A j \in DOMAIN s : j # i => [s EXCEPT ![i] = x][j] = s[j]
<1>1. Len(s) \in Nat /\ DOMAIN s = 1..Len(s)
  BY IsSeqIs
<1>2. PICK f : f = [s EXCEPT ![i] = x]
  OBVIOUS
<1>3. DOMAIN f = 1..Len(s) /\ f = [k \in 1..Len(s) |-> f[k]]
  BY <1>1, <1>2
<1>4. IsSeq(f) /\ Len(f) = Len(s)
  BY <1>1, <1>3, IsSeqFun
<1> QED BY <1>1, <1>2, <1>4

\* A sequence with one entry more.
LEMMA IsSeqAppend ==
  ASSUME NEW s, IsSeq(s), NEW x
  PROVE  /\ IsSeq(Append(s, x)) /\ DOMAIN Append(s, x) = DOMAIN s \cup {Len(s) + 1}
         /\ Len(Append(s, x)) = Len(s) + 1
         /\ Len(s) + 1 \in Nat \ {0} /\ Len(s) + 1 \notin DOMAIN s
         /\ Append(s, x)[Len(s) + 1] = x
         /\ \A j \in DOMAIN s : Append(s, x)[j] = s[j]
<1>1. Len(s) \in Nat /\ DOMAIN s = 1..Len(s)
  BY IsSeqIs
<1>2. PICK S : S = {s[i] : i \in DOMAIN s} \cup {x}
  OBVIOUS
<1>3. s \in Seq(S) /\ x \in S
  BY <1>2 DEF IsSeq
<1>4. PICK f : f = Append(s, x)
  OBVIOUS
<1>5. f \in Seq(S) /\ Len(f) = Len(s) + 1 /\ f[Len(s) + 1] = x /\ \A j \in DOMAIN s : f[j] = s[j]
  BY <1>1, <1>3, <1>4
<1>6. DOMAIN f = 1..(Len(s) + 1) /\ f = [k \in 1..(Len(s) + 1) |-> f[k]]
  BY <1>5
<1>7. IsSeq(f)
  BY <1>1, <1>6, IsSeqFun
<1>8. 1..(Len(s) + 1) = 1..Len(s) \cup {Len(s) + 1} /\ Len(s) + 1 \in Nat \ {0} /\ Len(s) + 1 \notin 1..Len(s)
  BY <1>1
<1>9. DOMAIN f = DOMAIN s \cup {Len(s) + 1} /\ Len(s) + 1 \notin DOMAIN s
  BY <1>1, <1>6, <1>8
<1> QED BY <1>4, <1>5, <1>7, <1>8, <1>9

\* The same, with the type of the entries.
LEMMA SeqExcept ==
  ASSUME NEW S, NEW s \in Seq(S), NEW i \in DOMAIN s, NEW x \in S
  PROVE  /\ [s EXCEPT ![i] = x] \in Seq(S) /\ DOMAIN [s EXCEPT ![i] = x] = DOMAIN s
         /\ [s EXCEPT ![i] = x][i] = x
         /\ \A j \in DOMAIN s : j # i => [s EXCEPT ![i] = x][j] = s[j]
OBVIOUS
-----------------------------------------------------------------------------
(* The way to the iLO.                                                     *)

TunnelNo == DOMAIN tunnels \cup {0}

IloCall == [pc : {"connect"}] \cup [pc : {"forward"}, own : Nat]
             \cup [pc : {"request"}, port : Nat, via : Nat, led : BOOLEAN]
             \cup [pc : {"done"}, result : {"success", "error"}]
             \cup [pc : {"done"}, result : {"cancelled"}, own : Nat]

TunnelsGood ==
  /\ tunnels \in Seq([open : BOOLEAN, forwards : BOOLEAN])
  /\ tunnel \in TunnelNo /\ listener \in TunnelNo /\ port \in TunnelNo
  /\ iloCalls \in Seq(IloCall)
  /\ \A i \in DOMAIN iloCalls : iloCalls[i].pc = "forward" => iloCalls[i].own \in DOMAIN tunnels

\* While no call opens a tunnel, an endpoint that would be handed out is the
\* tunnel's own and leads to the iLO, unless the tunnel was abandoned.
PortGood ==
  (\A i \in DOMAIN iloCalls : ~OpensTunnel(iloCalls[i])) /\ Reusable /\ ~ Abandoned(tunnel) =>
    port = tunnel /\ tunnels[port].forwards

\* One call at a time opens a tunnel, nothing can be reused before it is there, and
\* then it is the backend's.
OpenerGood ==
  /\ \A i, j \in DOMAIN iloCalls : OpensTunnel(iloCalls[i]) /\ OpensTunnel(iloCalls[j]) => i = j
  /\ \A i \in DOMAIN iloCalls : iloCalls[i].pc = "connect" => ~ Reusable
  /\ \A i \in DOMAIN iloCalls : iloCalls[i].pc = "forward" => iloCalls[i].own = tunnel

IloGood == TunnelsGood /\ EndpointLeads /\ (overlapped \/ (PortGood /\ OpenerGood))

\* The list of tunnels, with an entry replaced and with one more.
LEMMA TunnelSeq ==
  ASSUME NEW ts \in Seq([open : BOOLEAN, forwards : BOOLEAN]),
         NEW x \in [open : BOOLEAN, forwards : BOOLEAN]
  PROVE  /\ Append(ts, x) \in Seq([open : BOOLEAN, forwards : BOOLEAN])
         /\ DOMAIN Append(ts, x) = DOMAIN ts \cup {Len(ts) + 1}
         /\ Len(ts) + 1 \notin DOMAIN ts /\ Len(ts) + 1 # 0
         /\ Append(ts, x)[Len(ts) + 1] = x
         /\ \A i \in DOMAIN ts : Append(ts, x)[i] = ts[i]
OBVIOUS

\* The list of calls to the iLO, likewise.
LEMMA IloSeq ==
  ASSUME NEW cs \in Seq(IloCall), NEW x \in IloCall
  PROVE  /\ Append(cs, x) \in Seq(IloCall)
         /\ DOMAIN Append(cs, x) = DOMAIN cs \cup {Len(cs) + 1}
         /\ Append(cs, x)[Len(cs) + 1] = x /\ Len(cs) + 1 \notin DOMAIN cs
         /\ \A i \in DOMAIN cs : Append(cs, x)[i] = cs[i]
OBVIOUS

\* A tunnel that was abandoned stays so: no call that has ended changes.
AbandonedStays == \A t : Abandoned(t) => \E i \in DOMAIN iloCalls' : iloCalls'[i] = Cancelled(t)

LEMMA EndedCallsStay ==
  ASSUME DOMAIN iloCalls \subseteq DOMAIN iloCalls',
         \A i \in DOMAIN iloCalls : iloCalls[i].pc = "done" => iloCalls'[i] = iloCalls[i]
  PROVE  AbandonedStays
<1> SUFFICES ASSUME NEW t, NEW i \in DOMAIN iloCalls, iloCalls[i] = Cancelled(t)
             PROVE  i \in DOMAIN iloCalls' /\ iloCalls'[i] = Cancelled(t)
  BY DEF AbandonedStays, Abandoned
<1>1. iloCalls[i].pc = "done"
  BY DEF Cancelled
<1> QED BY <1>1

\* What that means for the calls that have their endpoint.
LEMMA LeadsKept ==
  ASSUME EndpointLeads, AbandonedStays, overlapped => overlapped',
         \A i \in DOMAIN iloCalls' : iloCalls'[i].pc = "request" =>
           \/ i \in DOMAIN iloCalls /\ iloCalls'[i] = iloCalls[i]
           \/ iloCalls'[i].led \/ overlapped' \/ Abandoned(iloCalls'[i].via)
  PROVE  EndpointLeads'
<1> SUFFICES ASSUME NEW i \in DOMAIN iloCalls', iloCalls'[i].pc = "request"
             PROVE  iloCalls'[i].led \/ overlapped' \/ Abandoned(iloCalls[i].via)'
  BY DEF EndpointLeads
<1>1. iloCalls'[i].led \/ overlapped' \/ Abandoned(iloCalls'[i].via)
  BY DEF EndpointLeads
<1> QED BY <1>1 DEF AbandonedStays, Abandoned

\* What a tunnel that drops leaves of the list of tunnels.
LEMMA DroppedIs ==
  ASSUME TunnelsGood
  PROVE  /\ Dropped \in Seq([open : BOOLEAN, forwards : BOOLEAN])
         /\ DOMAIN Dropped = DOMAIN tunnels
         /\ tunnel # 0 => ~ Dropped[tunnel].open
<1>1. tunnels \in Seq([open : BOOLEAN, forwards : BOOLEAN])
  BY DEF TunnelsGood
<1>2. \A t \in DOMAIN tunnels : Dropped[t] \in [open : BOOLEAN, forwards : BOOLEAN]
  BY <1>1, Zenon DEF Dropped
<1>3. DOMAIN Dropped = 1..Len(tunnels) /\ DOMAIN tunnels = 1..Len(tunnels) /\ Len(tunnels) \in Nat
  BY <1>1 DEF Dropped
<1>4. Dropped = [t \in 1..Len(tunnels) |-> Dropped[t]]
  BY <1>3 DEF Dropped
<1>5. ASSUME tunnel # 0 PROVE ~ Dropped[tunnel].open
  <2>1. tunnel \in DOMAIN tunnels
    BY <1>5 DEF TunnelsGood, TunnelNo
  <2> QED BY <2>1 DEF Dropped
<1> QED BY <1>2, <1>3, <1>4, <1>5

\* A call that begins.
LEMMA IloBegins ==
  ASSUME IloGood, _resolve_endpoint
  PROVE  IloGood'
<1>1. TunnelsGood /\ EndpointLeads /\ (overlapped => overlapped') /\ UNCHANGED <<tunnel, listener, port>>
  BY Zenon DEF IloGood, _resolve_endpoint
<1>2. ~ overlapped' => ~ overlapped /\ PortGood /\ \A i \in DOMAIN iloCalls : ~ OpensTunnel(iloCalls[i])
  BY DEF IloGood, _resolve_endpoint
<1>3. CASE Reusable
  <2>1. iloCalls' = Append(iloCalls, Endpoint(port, Leads(port))) /\ UNCHANGED tunnels
    BY <1>3 DEF _resolve_endpoint
  <2>2. Endpoint(port, Leads(port)) \in IloCall
    <3>1. port \in Nat /\ tunnel \in Nat
      BY <1>1 DEF TunnelsGood, TunnelNo
    <3>2. Leads(port) \in BOOLEAN
      BY Zenon DEF Leads
    <3> QED BY <3>1, <3>2 DEF Endpoint, IloCall
  <2>3. PICK e : e = Endpoint(port, Leads(port))
    OBVIOUS
  <2>4. e \in IloCall /\ e.pc = "request" /\ e.led = Leads(port) /\ e.via = tunnel
    BY <2>2, <2>3 DEF Endpoint
  <2>5. /\ iloCalls' \in Seq(IloCall) /\ DOMAIN iloCalls' = DOMAIN iloCalls \cup {Len(iloCalls) + 1}
        /\ iloCalls'[Len(iloCalls) + 1] = e /\ \A i \in DOMAIN iloCalls : iloCalls'[i] = iloCalls[i]
    BY <1>1, <2>1, <2>3, <2>4, IloSeq DEF TunnelsGood
  <2>6. TunnelsGood'
    BY <1>1, <2>1, <2>4, <2>5 DEF TunnelsGood, TunnelNo
  <2>7. AbandonedStays
    BY <2>5, EndedCallsStay
  <2>8. overlapped' \/ Abandoned(tunnel) \/ Leads(port)
    BY <1>2, <1>3 DEF PortGood, Reusable, Leads
  <2>9. EndpointLeads'
    BY <1>1, <2>4, <2>5, <2>7, <2>8, LeadsKept
  <2>10. CASE ~ overlapped'
    <3>1. \A i \in DOMAIN iloCalls' : ~ OpensTunnel(iloCalls'[i])
      BY <1>2, <2>4, <2>5, <2>10 DEF OpensTunnel
    <3>2. OpenerGood'
      BY <3>1 DEF OpenerGood, OpensTunnel
    <3>3. Abandoned(tunnel) => Abandoned(tunnel)'
      BY <1>1, <2>7 DEF AbandonedStays, Abandoned
    <3>4. PortGood'
      BY <1>1, <1>2, <2>1, <2>10, <3>3 DEF PortGood, Reusable
    <3> QED BY <2>6, <2>9, <3>2, <3>4 DEF IloGood
  <2> QED BY <2>6, <2>9, <2>10 DEF IloGood
<1>4. CASE ~ Reusable
  <2>1. iloCalls' = Append(iloCalls, [pc |-> "connect"]) /\ tunnels' = Dropped
    BY <1>4 DEF _resolve_endpoint
  <2>2. [pc |-> "connect"] \in IloCall
    BY DEF IloCall
  <2>3. /\ iloCalls' \in Seq(IloCall) /\ DOMAIN iloCalls' = DOMAIN iloCalls \cup {Len(iloCalls) + 1}
        /\ iloCalls'[Len(iloCalls) + 1] = [pc |-> "connect"]
        /\ \A i \in DOMAIN iloCalls : iloCalls'[i] = iloCalls[i]
    BY <1>1, <2>1, <2>2, IloSeq DEF TunnelsGood
  <2>4. TunnelsGood'
    BY <1>1, <2>1, <2>3, DroppedIs DEF TunnelsGood, TunnelNo
  <2>5. AbandonedStays
    BY <2>3, EndedCallsStay
  <2>6. EndpointLeads'
    <3>1. "connect" # "request"
      OBVIOUS
    <3> QED BY <1>1, <2>3, <2>5, <3>1, LeadsKept
  <2>7. CASE ~ overlapped'
    <3>1. \A i \in DOMAIN iloCalls : ~ OpensTunnel(iloCalls[i])
      BY <1>2, <2>7
    <3>2. ~ Reusable'
      BY <1>1, <2>1, DroppedIs DEF Reusable
    <3>3. OpenerGood'
      BY <2>3, <3>1, <3>2 DEF OpenerGood, OpensTunnel
    <3>4. PortGood'
      BY <3>2 DEF PortGood
    <3> QED BY <2>4, <2>6, <3>3, <3>4 DEF IloGood
  <2> QED BY <2>4, <2>6, <2>7 DEF IloGood
<1> QED BY <1>3, <1>4

\* One entry of the list of calls changes.
LEMMA IloEntry ==
  ASSUME TunnelsGood, NEW i \in DOMAIN iloCalls, NEW x \in IloCall,
         iloCalls' = [iloCalls EXCEPT ![i] = x], iloCalls[i].pc # "done"
  PROVE  /\ iloCalls' \in Seq(IloCall) /\ DOMAIN iloCalls' = DOMAIN iloCalls /\ iloCalls'[i] = x
         /\ \A j \in DOMAIN iloCalls : j # i => iloCalls'[j] = iloCalls[j]
         /\ AbandonedStays
<1>1. /\ iloCalls' \in Seq(IloCall) /\ DOMAIN iloCalls' = DOMAIN iloCalls /\ iloCalls'[i] = x
      /\ \A j \in DOMAIN iloCalls : j # i => iloCalls'[j] = iloCalls[j]
  BY DEF TunnelsGood
<1> QED BY <1>1, EndedCallsStay

\* The SSH tunnel of a call is there, or is not.
LEMMA IloConnects ==
  ASSUME IloGood, NEW i \in DOMAIN iloCalls, tunnel_connected(i)
  PROVE  IloGood'
<1>1. TunnelsGood /\ EndpointLeads
  BY DEF IloGood
<1>2. PICK t : t = Len(tunnels) + 1
  OBVIOUS
<1>3. PICK x : x = [open |-> TRUE, forwards |-> FALSE]
  OBVIOUS
<1>4. /\ iloCalls[i].pc = "connect" /\ tunnels' = Append(tunnels, x) /\ tunnel' = t
      /\ iloCalls' = [iloCalls EXCEPT ![i] = [pc |-> "forward", own |-> t]]
      /\ UNCHANGED <<listener, port, overlapped>>
  BY <1>2, <1>3 DEF tunnel_connected
<1>5. /\ tunnels' \in Seq([open : BOOLEAN, forwards : BOOLEAN]) /\ DOMAIN tunnels' = DOMAIN tunnels \cup {t}
      /\ t \in Nat
  BY <1>1, <1>2, <1>3, <1>4, TunnelSeq DEF TunnelsGood
<1>6. [pc |-> "forward", own |-> t] \in IloCall
  BY <1>5 DEF IloCall
<1>7. /\ iloCalls' \in Seq(IloCall) /\ DOMAIN iloCalls' = DOMAIN iloCalls
      /\ iloCalls'[i].pc = "forward" /\ iloCalls'[i].own = t
      /\ \A j \in DOMAIN iloCalls : j # i => iloCalls'[j] = iloCalls[j]
      /\ AbandonedStays
  BY <1>1, <1>4, <1>6, IloEntry
<1>8. TunnelsGood'
  BY <1>1, <1>4, <1>5, <1>7 DEF TunnelsGood, TunnelNo
<1>9. EndpointLeads'
  BY <1>1, <1>4, <1>7, LeadsKept
<1>10. CASE ~ overlapped
  <2>1. OpenerGood
    BY <1>10 DEF IloGood
  <2>2. \A j \in DOMAIN iloCalls : OpensTunnel(iloCalls[j]) => j = i
    BY <1>4, <2>1 DEF OpenerGood, OpensTunnel
  <2>3. OpenerGood'
    BY <1>4, <1>7, <2>2 DEF OpenerGood, OpensTunnel
  <2>4. PortGood'
    BY <1>7 DEF PortGood, OpensTunnel
  <2> QED BY <1>8, <1>9, <2>3, <2>4 DEF IloGood
<1> QED BY <1>4, <1>8, <1>9, <1>10 DEF IloGood

\* Its port is forwarded, or is not.
LEMMA IloForwards ==
  ASSUME IloGood, NEW i \in DOMAIN iloCalls, port_forwarded(i)
  PROVE  IloGood'
<1>1. TunnelsGood /\ EndpointLeads
  BY DEF IloGood
<1>2. PICK t : t = iloCalls[i].own
  OBVIOUS
<1>3. /\ iloCalls[i].pc = "forward" /\ tunnels[t].open /\ tunnels' = [tunnels EXCEPT ![t].forwards = TRUE]
      /\ listener' = t /\ port' = t
      /\ iloCalls' = [iloCalls EXCEPT ![i] = Endpoint(t, TRUE)]
      /\ UNCHANGED <<tunnel, overlapped>>
  BY <1>2 DEF port_forwarded
<1>4. t \in DOMAIN tunnels /\ t \in Nat /\ tunnels[t] \in [open : BOOLEAN, forwards : BOOLEAN]
  <2>1. tunnels \in Seq([open : BOOLEAN, forwards : BOOLEAN]) /\ t \in DOMAIN tunnels
    BY <1>1, <1>2, <1>3 DEF TunnelsGood
  <2>2. \A s \in DOMAIN tunnels : tunnels[s] \in [open : BOOLEAN, forwards : BOOLEAN]
    BY <2>1, ElementOfSeq
  <2>3. t \in Nat
    BY <2>1
  <2> QED BY <2>1, <2>2, <2>3
<1>5. tunnels' \in Seq([open : BOOLEAN, forwards : BOOLEAN]) /\ DOMAIN tunnels' = DOMAIN tunnels
  <2>1. [tunnels[t] EXCEPT !.forwards = TRUE] \in [open : BOOLEAN, forwards : BOOLEAN]
    BY <1>4
  <2> QED BY <1>1, <1>3, <1>4, <2>1 DEF TunnelsGood
<1>6. tunnels'[t].forwards
  <2>1. tunnels'[t] = [tunnels[t] EXCEPT !.forwards = TRUE]
    BY <1>1, <1>3, <1>4 DEF TunnelsGood
  <2> QED BY <1>4, <2>1
<1>7. Endpoint(t, TRUE) \in IloCall
  <2>1. tunnel \in Nat
    BY <1>1 DEF TunnelsGood, TunnelNo
  <2> QED BY <1>4, <2>1 DEF IloCall, Endpoint
<1>8. /\ iloCalls' \in Seq(IloCall) /\ DOMAIN iloCalls' = DOMAIN iloCalls
      /\ iloCalls'[i].pc = "request" /\ iloCalls'[i].led
      /\ \A j \in DOMAIN iloCalls : j # i => iloCalls'[j] = iloCalls[j]
      /\ AbandonedStays
  BY <1>1, <1>3, <1>7, IloEntry DEF Endpoint
<1>9. TunnelsGood'
  BY <1>1, <1>3, <1>4, <1>5, <1>8 DEF TunnelsGood, TunnelNo
<1>10. EndpointLeads'
  BY <1>1, <1>3, <1>8, LeadsKept
<1>11. CASE ~ overlapped
  <2>1. OpenerGood
    BY <1>11 DEF IloGood
  <2>2. \A j \in DOMAIN iloCalls' : ~ OpensTunnel(iloCalls'[j])
    BY <1>3, <1>8, <2>1 DEF OpenerGood, OpensTunnel
  <2>3. OpenerGood'
    BY <2>2 DEF OpenerGood, OpensTunnel
  <2>4. PortGood'
    <3>1. t = tunnel
      BY <1>2, <1>3, <2>1 DEF OpenerGood
    <3> QED BY <1>3, <1>6, <3>1 DEF PortGood
  <2> QED BY <1>9, <1>10, <2>3, <2>4 DEF IloGood
<1> QED BY <1>3, <1>9, <1>10, <1>11 DEF IloGood

\* A call gives up on its way.
LEMMA IloFails ==
  ASSUME IloGood, NEW i \in DOMAIN iloCalls, tunnel_fails(i)
  PROVE  IloGood'
<1>1. TunnelsGood /\ EndpointLeads /\ iloCalls[i].pc # "done"
  BY DEF IloGood, tunnel_fails, OpensTunnel
<1>2. [pc |-> "done", result |-> "error"] \in IloCall
  BY DEF IloCall
<1>3. /\ iloCalls' \in Seq(IloCall) /\ DOMAIN iloCalls' = DOMAIN iloCalls /\ iloCalls'[i].pc = "done"
      /\ \A j \in DOMAIN iloCalls : j # i => iloCalls'[j] = iloCalls[j]
      /\ AbandonedStays
  BY <1>1, <1>2, IloEntry DEF tunnel_fails
<1>4. TunnelsGood'
  BY <1>1, <1>3 DEF TunnelsGood, TunnelNo, tunnel_fails
<1>5. EndpointLeads'
  BY <1>1, <1>3, LeadsKept DEF tunnel_fails
<1>6. ~ Reusable'
  BY DEF Reusable, tunnel_fails
<1>7. CASE ~ overlapped
  <2>1. OpenerGood /\ OpensTunnel(iloCalls[i])
    BY <1>7 DEF IloGood, tunnel_fails
  <2>2. OpenerGood'
    BY <1>3, <1>6, <2>1 DEF OpenerGood, OpensTunnel
  <2> QED BY <1>4, <1>5, <1>6, <2>2 DEF IloGood, PortGood
<1> QED BY <1>4, <1>5, <1>7 DEF IloGood, tunnel_fails

\* A call is cancelled.  If it was having its port forwarded, the tunnel counts as
\* abandoned; if it was connecting, what is left cannot be reused.
LEMMA IloCancelled ==
  ASSUME IloGood, NEW i \in DOMAIN iloCalls, cancel(i)
  PROVE  IloGood'
<1>1. TunnelsGood /\ EndpointLeads /\ iloCalls[i].pc # "done"
      /\ UNCHANGED <<tunnel, listener, port, tunnels, overlapped>>
  BY DEF IloGood, cancel
<1>2. PICK t : t = (IF iloCalls[i].pc = "forward" THEN iloCalls[i].own ELSE 0)
  OBVIOUS
<1>3. t \in Nat
  <2>1. iloCalls[i] \in IloCall
    BY <1>1, ElementOfSeq DEF TunnelsGood
  <2> QED BY <1>2, <2>1 DEF IloCall
<1>4. Cancelled(t) \in IloCall /\ Cancelled(t).pc = "done"
  BY <1>3 DEF IloCall, Cancelled
<1>5. /\ iloCalls' \in Seq(IloCall) /\ DOMAIN iloCalls' = DOMAIN iloCalls /\ iloCalls'[i] = Cancelled(t)
      /\ \A j \in DOMAIN iloCalls : j # i => iloCalls'[j] = iloCalls[j]
      /\ AbandonedStays
  BY <1>1, <1>2, <1>4, IloEntry DEF cancel
<1>6. TunnelsGood'
  BY <1>1, <1>4, <1>5 DEF TunnelsGood, TunnelNo
<1>7. EndpointLeads'
  BY <1>1, <1>4, <1>5, LeadsKept
<1>8. CASE ~ overlapped
  <2>1. PortGood /\ OpenerGood
    BY <1>8 DEF IloGood
  <2>2. OpenerGood'
    BY <1>1, <1>4, <1>5, <2>1 DEF OpenerGood, OpensTunnel, Reusable
  <2>3. PortGood'
    <3>1. CASE iloCalls[i].pc = "forward"
      <4>1. t = tunnel
        BY <1>2, <2>1, <3>1 DEF OpenerGood
      <4>2. Abandoned(tunnel)'
        BY <1>1, <1>5, <4>1 DEF Abandoned
      <4> QED BY <4>2 DEF PortGood
    <3>2. CASE iloCalls[i].pc = "connect"
      <4>1. ~ Reusable'
        BY <1>1, <2>1, <3>2 DEF OpenerGood, Reusable
      <4> QED BY <4>1 DEF PortGood
    <3>3. CASE ~ OpensTunnel(iloCalls[i])
      <4>1. Abandoned(tunnel) => Abandoned(tunnel)'
        BY <1>1, <1>5 DEF AbandonedStays, Abandoned
      <4> QED BY <1>1, <1>5, <2>1, <3>3, <4>1 DEF PortGood, Reusable
    <3> QED BY <3>1, <3>2, <3>3 DEF OpensTunnel
  <2> QED BY <1>6, <1>7, <2>2, <2>3 DEF IloGood
<1> QED BY <1>1, <1>6, <1>7, <1>8 DEF IloGood

\* The iLO answers, or nobody does.
LEMMA IloAnswers ==
  ASSUME IloGood, NEW i \in DOMAIN iloCalls, NEW result \in {"success", "error"}, ilo_answers(i, result)
  PROVE  IloGood'
<1>1. TunnelsGood /\ EndpointLeads /\ iloCalls[i].pc = "request"
      /\ UNCHANGED <<tunnel, listener, port, tunnels, overlapped>>
  BY DEF IloGood, ilo_answers
<1>2. [pc |-> "done", result |-> result] \in IloCall
  BY DEF IloCall
<1>3. /\ iloCalls' \in Seq(IloCall) /\ DOMAIN iloCalls' = DOMAIN iloCalls /\ iloCalls'[i].pc = "done"
      /\ \A j \in DOMAIN iloCalls : j # i => iloCalls'[j] = iloCalls[j]
      /\ AbandonedStays
  BY <1>1, <1>2, IloEntry DEF ilo_answers
<1>4. TunnelsGood'
  BY <1>1, <1>3 DEF TunnelsGood, TunnelNo
<1>5. EndpointLeads'
  BY <1>1, <1>3, LeadsKept
<1>6. CASE ~ overlapped
  <2>1. PortGood /\ OpenerGood
    BY <1>6 DEF IloGood
  <2>2. OpenerGood'
    BY <1>1, <1>3, <2>1 DEF OpenerGood, OpensTunnel, Reusable
  <2>3. Abandoned(tunnel) => Abandoned(tunnel)'
    BY <1>1, <1>3 DEF AbandonedStays, Abandoned
  <2>4. PortGood'
    BY <1>1, <1>3, <2>1, <2>3 DEF PortGood, OpensTunnel, Reusable
  <2> QED BY <1>4, <1>5, <2>2, <2>4 DEF IloGood
<1> QED BY <1>1, <1>4, <1>5, <1>6 DEF IloGood

\* A tunnel drops.
LEMMA IloDrops ==
  ASSUME IloGood, NEW t \in DOMAIN tunnels, tunnel_drops(t)
  PROVE  IloGood'
<1>1. TunnelsGood /\ EndpointLeads /\ UNCHANGED <<tunnel, listener, port, iloCalls, overlapped>>
  BY DEF IloGood, tunnel_drops
<1>2. /\ tunnels' \in Seq([open : BOOLEAN, forwards : BOOLEAN]) /\ DOMAIN tunnels' = DOMAIN tunnels
      /\ ~ tunnels'[t].open /\ \A s \in DOMAIN tunnels : s # t => tunnels'[s] = tunnels[s]
  BY <1>1 DEF TunnelsGood, tunnel_drops
<1>3. TunnelsGood'
  BY <1>1, <1>2 DEF TunnelsGood, TunnelNo
<1>4. EndpointLeads' /\ (Abandoned(tunnel)' <=> Abandoned(tunnel))
  BY <1>1 DEF EndpointLeads, Abandoned
<1>5. CASE ~ overlapped
  <2>1. PortGood /\ OpenerGood
    BY <1>5 DEF IloGood
  <2>2. Reusable' => Reusable /\ tunnel # t
    BY <1>1, <1>2 DEF Reusable, TunnelsGood, TunnelNo
  <2>3. OpenerGood'
    BY <1>1, <2>1, <2>2 DEF OpenerGood
  <2>4. PortGood'
    BY <1>1, <1>2, <1>4, <2>1, <2>2 DEF PortGood, Reusable, TunnelsGood, TunnelNo
  <2> QED BY <1>3, <1>4, <2>3, <2>4 DEF IloGood
<1> QED BY <1>1, <1>3, <1>4, <1>5 DEF IloGood

\* Every step of the way to the iLO keeps its invariant,
LEMMA IloStep ==
  ASSUME IloGood, IloNext
  PROVE  IloGood'
BY IloBegins, IloConnects, IloForwards, IloFails, IloCancelled, IloAnswers, IloDrops, Zenon DEF IloNext

\* and so does a step that leaves it alone.
LEMMA IloStutter ==
  ASSUME IloGood, UNCHANGED iloVars
  PROVE  IloGood'
BY DEF IloGood, iloVars, TunnelsGood, TunnelNo, EndpointLeads, PortGood, OpenerGood, Reusable, Abandoned

\* The invariant holds before the first call.
LEMMA IloInitially ==
  ASSUME IloInit
  PROVE  IloGood
BY DEF IloInit, IloGood, TunnelsGood, TunnelNo, EndpointLeads, PortGood, OpenerGood, Reusable
-----------------------------------------------------------------------------
(* SSH.                                                                    *)

\* A pin that nobody removed since still stands.
StillPinned(name, since, key) ==
  host_key_policy(name) = "tofu" /\ since = forgotten[HostSpec(name).addr] =>
    key \in pins[HostSpec(name).addr]

\* What a use has learnt about its server, and what a connection was made with.
ConnectingGood(u) ==
  /\ u.pc \in {"connect", "login"} =>
       /\ u = [pc |-> u.pc, host |-> u.host, since |-> u.since, known |-> u.known]
       /\ u.host \in Name /\ u.since \in Nat /\ u.since <= forgotten[HostSpec(u.host).addr]
       /\ \A k \in u.known : StillPinned(u.host, u.since, k)
  /\ u.pc = "login" => u.known # {}

ConnGood(c) ==
  /\ c = [name |-> c.name, key |-> c.key, state |-> c.state, since |-> c.since]
  /\ c.name \in Name /\ c.since \in Nat /\ c.since <= forgotten[HostSpec(c.name).addr]
  /\ StillPinned(c.name, c.since, c.key)

PinsGood ==
  /\ DOMAIN pins = Addr /\ forgotten \in [Addr -> Nat]
  /\ \A a \in Addr : \A x, y \in pins[a] : x = y
  /\ IsSeq(uses) /\ \A u \in DOMAIN uses : ConnectingGood(uses[u])
  /\ IsSeq(conns) /\ \A c \in DOMAIN conns : ConnGood(conns[c])

\* An open connection is in the cache or was displaced there, used or not.
CacheGood ==
  /\ \A n \in DOMAIN cache : cache[n] \in DOMAIN conns
  /\ \A c \in DOMAIN conns : conns[c].state # "closed" =>
       c \in displaced \/ \E n \in DOMAIN cache : cache[n] = c

SshGood == PinsGood /\ CacheGood

\* A declared host has an address.
LEMMA HostHasAddr ==
  ASSUME NEW name \in Name
  PROVE  HostSpec(name).addr \in Addr
<1>1. PICK i \in DOMAIN Hosts : Hosts[i].name = name
  BY DEF Name
<1>2. PICK j : j = CHOOSE k \in DOMAIN Hosts : Hosts[k].name = name
  OBVIOUS
<1>3. j \in DOMAIN Hosts
  BY <1>1, <1>2
<1>4. HostSpec(name) = Hosts[j]
  BY <1>2 DEF HostSpec
<1> QED BY <1>3, <1>4 DEF Addr

\* An identifier that resolves does so to a declared host.
LEMMA ResolvesToName ==
  ASSUME NEW id
  PROVE  resolve(id) \subseteq Name
<1>1. \A a : ByAddress(a) \subseteq Name
  BY DEF ByAddress, Name
<1> QED BY <1>1 DEF resolve

\* Steps that begin or end a use and touch nothing else.
LEMMA SshQuiet ==
  ASSUME SshGood, UNCHANGED <<pins, forgotten, cache, conns, displaced>>, IsSeq(uses'),
         \A u \in DOMAIN uses' : \/ u \in DOMAIN uses /\ uses'[u] = uses[u]
                                 \/ uses'[u].pc \notin {"connect", "login"}
  PROVE  SshGood'
<1>1. \A u \in DOMAIN uses' : ConnectingGood(uses[u])'
  <2> SUFFICES ASSUME NEW u \in DOMAIN uses' PROVE ConnectingGood(uses[u])'
    OBVIOUS
  <2>1. CASE u \in DOMAIN uses /\ uses'[u] = uses[u]
    <3>1. ConnectingGood(uses[u])
      BY <2>1 DEF SshGood, PinsGood
    <3> QED BY <2>1, <3>1 DEF ConnectingGood, StillPinned
  <2>2. CASE uses'[u].pc \notin {"connect", "login"}
    BY <2>2 DEF ConnectingGood
  <2> QED BY <2>1, <2>2
<1>2. \A c \in DOMAIN conns' : ConnGood(conns[c])'
  BY DEF SshGood, PinsGood, ConnGood, StillPinned
<1>3. PinsGood'
  BY <1>1, <1>2 DEF SshGood, PinsGood
<1>4. CacheGood'
  BY DEF SshGood, CacheGood
<1> QED BY <1>3, <1>4 DEF SshGood

\* A command that is begun, by a tool or by proxmox_run in a container.
LEMMA SshBegins ==
  ASSUME SshGood, NEW id, exec_command_async(id)
  PROVE  SshGood'
<1>1. PICK stale \in SUBSET {u \in DOMAIN uses : uses[u].pc = "ended"} :
        uses' = Append(_prune_ssh_sessions(stale), [pc |-> "start", host |-> id])
  BY DEF exec_command_async
<1>2. PICK us : us = _prune_ssh_sessions(stale)
  OBVIOUS
<1>3. IsSeq(uses) /\ Len(uses) \in Nat /\ DOMAIN uses = 1..Len(uses)
  BY IsSeqIs DEF SshGood, PinsGood
<1>4. /\ DOMAIN us = DOMAIN uses /\ us = [u \in 1..Len(uses) |-> us[u]]
      /\ \A u \in DOMAIN uses : us[u] = uses[u] \/ us[u].pc = "pruned"
  BY <1>2, <1>3 DEF _prune_ssh_sessions
<1>5. IsSeq(us)
  BY <1>3, <1>4, IsSeqFun
<1>6. PICK x : x = [pc |-> "start", host |-> id]
  OBVIOUS
<1>7. /\ IsSeq(uses') /\ DOMAIN uses' = DOMAIN us \cup {Len(us) + 1} /\ uses'[Len(us) + 1] = x
      /\ \A u \in DOMAIN us : uses'[u] = us[u]
  BY <1>1, <1>2, <1>5, <1>6, IsSeqAppend
<1>8. \A u \in DOMAIN uses' : \/ u \in DOMAIN uses /\ uses'[u] = uses[u]
                              \/ uses'[u].pc \notin {"connect", "login"}
  <2> SUFFICES ASSUME NEW u \in DOMAIN uses'
               PROVE  \/ u \in DOMAIN uses /\ uses'[u] = uses[u]
                      \/ uses'[u].pc \notin {"connect", "login"}
    OBVIOUS
  <2>1. CASE u \in DOMAIN us
    BY <1>4, <1>7, <2>1
  <2>2. CASE u = Len(us) + 1
    <3>1. uses'[u] = x
      BY <1>7, <2>2
    <3> QED BY <1>6, <3>1
  <2> QED BY <1>7, <2>1, <2>2
<1> QED BY <1>7, <1>8, SshQuiet DEF exec_command_async

\* A use that goes on without having to connect.
LEMMA SshUseQuiet ==
  ASSUME SshGood, UNCHANGED <<pins, forgotten, cache, conns, displaced>>,
         NEW u \in DOMAIN uses, NEW x, x.pc \notin {"connect", "login"},
         uses' = [uses EXCEPT ![u] = x]
  PROVE  SshGood'
<1>1. IsSeq(uses)
  BY DEF SshGood, PinsGood
<1>2. /\ IsSeq(uses') /\ DOMAIN uses' = DOMAIN uses /\ uses'[u] = x
      /\ \A j \in DOMAIN uses : j # u => uses'[j] = uses[j]
  BY <1>1, IsSeqExcept
<1> QED BY <1>2, SshQuiet

\* A use that has to connect reads what is pinned.
LEMMA SshConnecting ==
  ASSUME SshGood, NEW u \in DOMAIN uses, _get_connection(u)
  PROVE  SshGood'
<1>1. PICK name \in resolve(uses[u].host) :
        LET a == HostSpec(name).addr
        IN  IF name \in DOMAIN cache /\ Usable(cache[name])
              THEN /\ uses' = [uses EXCEPT ![u] = [pc |-> "command", conn |-> cache[name]]]
                   /\ UNCHANGED <<cache, conns>>
              ELSE /\ uses' = [uses EXCEPT ![u] =
                        [pc |-> "connect", host |-> name, since |-> forgotten[a],
                         known |-> IF host_key_policy(name) = "tofu" THEN pins[a] ELSE FileKeys[a]]]
                   /\ cache' = [n \in DOMAIN cache \ {name} |-> cache[n]]
                   /\ conns' = IF name \in DOMAIN cache THEN HungUp(cache[name]) ELSE conns
  BY DEF _get_connection
<1>2. name \in Name /\ HostSpec(name).addr \in Addr
  BY ResolvesToName, HostHasAddr
<1>3. UNCHANGED <<pins, forgotten, displaced>>
  BY DEF _get_connection
<1>4. CASE name \in DOMAIN cache /\ Usable(cache[name])
  <2>1. PICK x : x = [pc |-> "command", conn |-> cache[name]]
    OBVIOUS
  <2>2. uses' = [uses EXCEPT ![u] = x] /\ UNCHANGED <<cache, conns>> /\ x.pc = "command"
    BY <1>1, <1>4, <2>1
  <2> QED BY <1>3, <2>2, SshUseQuiet
<1>5. CASE ~ (name \in DOMAIN cache /\ Usable(cache[name]))
  <2>1. PICK a : a = HostSpec(name).addr
    OBVIOUS
  <2>2. PICK known : known = IF host_key_policy(name) = "tofu" THEN pins[a] ELSE FileKeys[a]
    OBVIOUS
  <2>3. PICK x : x = [pc |-> "connect", host |-> name, since |-> forgotten[a], known |-> known]
    OBVIOUS
  <2>4. uses' = [uses EXCEPT ![u] = x]
    BY <1>1, <1>5, <2>1, <2>2, <2>3
  <2>5. /\ cache' = [n \in DOMAIN cache \ {name} |-> cache[n]]
        /\ conns' = IF name \in DOMAIN cache THEN [conns EXCEPT ![cache[name]].state = "closed"] ELSE conns
    BY <1>1, <1>5 DEF HungUp
  <2>6. IsSeq(uses)
    BY DEF SshGood, PinsGood
  <2>7. /\ IsSeq(uses') /\ DOMAIN uses' = DOMAIN uses /\ uses'[u] = x
        /\ \A j \in DOMAIN uses : j # u => uses'[j] = uses[j]
    BY <2>4, <2>6, IsSeqExcept
  <2>8. forgotten[a] \in Nat /\ a \in Addr
    BY <1>2, <2>1 DEF SshGood, PinsGood
  <2>9. \A k \in known : StillPinned(name, forgotten[a], k)
    BY <2>1, <2>2 DEF StillPinned
  <2>10. ConnectingGood(x)
    BY <1>2, <2>1, <2>3, <2>8, <2>9 DEF ConnectingGood
  <2>11. \A j \in DOMAIN uses' : ConnectingGood(uses[j])'
    <3> SUFFICES ASSUME NEW j \in DOMAIN uses' PROVE ConnectingGood(uses[j])'
      OBVIOUS
    <3>1. PICK y : y = uses'[j]
      OBVIOUS
    <3>2. ConnectingGood(y)
      BY <2>7, <2>10, <3>1 DEF SshGood, PinsGood
    <3> QED BY <1>3, <3>1, <3>2 DEF ConnectingGood, StillPinned
  <2>12. /\ IsSeq(conns') /\ DOMAIN conns' = DOMAIN conns
         /\ \A c \in DOMAIN conns : \/ conns'[c] = conns[c] /\ ~ (name \in DOMAIN cache /\ c = cache[name])
                                    \/ /\ conns'[c] = [conns[c] EXCEPT !.state = "closed"]
                                       /\ name \in DOMAIN cache /\ c = cache[name]
    <3>1. IsSeq(conns)
      BY DEF SshGood, PinsGood
    <3>2. CASE name \in DOMAIN cache
      <4>1. PICK d : d = cache[name]
        OBVIOUS
      <4>2. d \in DOMAIN conns
        BY <3>2, <4>1 DEF SshGood, CacheGood
      <4>3. PICK y : y = [conns[d] EXCEPT !.state = "closed"]
        OBVIOUS
      <4>4. conns' = [conns EXCEPT ![d] = y]
        BY <2>5, <3>2, <4>1, <4>3
      <4> QED BY <3>1, <3>2, <4>1, <4>2, <4>3, <4>4, IsSeqExcept
    <3>3. CASE name \notin DOMAIN cache
      BY <2>5, <3>1, <3>3
    <3> QED BY <3>2, <3>3
  <2>13. \A c \in DOMAIN conns' : ConnGood(conns[c])'
    <3> SUFFICES ASSUME NEW c \in DOMAIN conns' PROVE ConnGood(conns[c])'
      OBVIOUS
    <3>1. ConnGood(conns[c])
      BY <2>12 DEF SshGood, PinsGood
    <3>2. /\ conns'[c].name = conns[c].name /\ conns'[c].key = conns[c].key /\ conns'[c].since = conns[c].since
          /\ conns'[c] = [name |-> conns[c].name, key |-> conns[c].key, state |-> conns'[c].state,
                          since |-> conns[c].since]
      BY <2>12, <3>1 DEF ConnGood
    <3> QED BY <1>3, <3>1, <3>2 DEF ConnGood, StillPinned
  <2>14. PinsGood'
    BY <1>3, <2>7, <2>11, <2>12, <2>13 DEF SshGood, PinsGood
  <2>15. CacheGood'
    <3>1. \A n \in DOMAIN cache' : cache'[n] \in DOMAIN conns'
      BY <2>5, <2>12 DEF SshGood, CacheGood
    <3>2. ASSUME NEW c \in DOMAIN conns', conns'[c].state # "closed"
          PROVE  c \in displaced' \/ \E n \in DOMAIN cache' : cache'[n] = c
      <4>1. conns[c].state # "closed" /\ ~ (name \in DOMAIN cache /\ c = cache[name])
        <5>1. ConnGood(conns[c])
          BY <2>12 DEF SshGood, PinsGood
        <5> QED BY <2>12, <3>2, <5>1 DEF ConnGood
      <4>2. c \in displaced \/ \E n \in DOMAIN cache : cache[n] = c
        BY <2>12, <4>1 DEF SshGood, CacheGood
      <4>3. ASSUME NEW n \in DOMAIN cache, cache[n] = c
            PROVE  n \in DOMAIN cache' /\ cache'[n] = c
        BY <2>5, <4>1, <4>3
      <4> QED BY <1>3, <4>2, <4>3
    <3> QED BY <3>1, <3>2 DEF CacheGood
  <2> QED BY <2>14, <2>15 DEF SshGood
<1> QED BY <1>4, <1>5

\* The first key is pinned, and another one refused, when the server shows it.
LEMMA SshHandshake ==
  ASSUME SshGood, NEW u \in DOMAIN uses, handshake(u)
  PROVE  SshGood'
<1>1. PICK name : name = uses[u].host
  OBVIOUS
<1>2. PICK a : a = HostSpec(name).addr
  OBVIOUS
<1>3. PICK key : key = presents[a]
  OBVIOUS
<1>4. /\ uses[u].pc = "connect" /\ Accepted(u, key)
      /\ uses' = [uses EXCEPT ![u].pc = "login", ![u].known = {key}]
      /\ UNCHANGED <<forgotten, cache, conns, displaced>>
  BY <1>1, <1>2, <1>3 DEF handshake
<1>5. /\ ConnectingGood(uses[u]) /\ name \in Name /\ a \in Addr
      /\ uses[u] = [pc |-> "connect", host |-> name, since |-> uses[u].since, known |-> uses[u].known]
      /\ uses[u].since \in Nat /\ uses[u].since <= forgotten[a]
      /\ \A k \in uses[u].known : StillPinned(name, uses[u].since, k)
  BY <1>1, <1>2, <1>4, HostHasAddr DEF SshGood, PinsGood, ConnectingGood
<1>6. PICK since : since = uses[u].since
  OBVIOUS
<1>7. PICK x : x = [pc |-> "login", host |-> name, since |-> since, known |-> {key}]
  OBVIOUS
<1>8. IsSeq(uses)
  BY DEF SshGood, PinsGood
<1>9. /\ IsSeq(uses') /\ DOMAIN uses' = DOMAIN uses /\ uses'[u] = x
      /\ \A j \in DOMAIN uses : j # u => uses'[j] = uses[j]
  <2>1. [[uses[u] EXCEPT !.pc = "login"] EXCEPT !.known = {key}] = x
    <3>1. PICK known : known = uses[u].known
      OBVIOUS
    <3>2. uses[u] = [pc |-> "connect", host |-> name, since |-> since, known |-> known]
      BY <1>5, <1>6, <3>1
    <3>3. [uses[u] EXCEPT !.pc = "login"] = [pc |-> "login", host |-> name, since |-> since, known |-> known]
      BY <3>2
    <3>4. [[pc |-> "login", host |-> name, since |-> since, known |-> known] EXCEPT !.known = {key}] = x
      BY <1>7
    <3> QED BY <3>3, <3>4
  <2>2. uses' = [uses EXCEPT ![u] = x]
    BY <1>4, <2>1
  <2> QED BY <1>8, <2>2, IsSeqExcept
\* What is on file stays there, and one key at most.
<1>10. /\ DOMAIN pins' = Addr /\ \A b \in Addr : pins[b] \subseteq pins'[b]
       /\ \A b \in Addr : \A y, z \in pins'[b] : y = z
       /\ host_key_policy(name) = "tofu" /\ key \notin uses[u].known => key \in pins'[a]
  <2>1. DOMAIN pins = Addr /\ \A b \in Addr : \A y, z \in pins[b] : y = z
    BY DEF SshGood, PinsGood
  <2>2. CASE UNCHANGED pins
    <3>1. \/ key \in uses[u].known \/ host_key_policy(name) = "any"
          \/ key \in pins[a] \/ pins' = [pins EXCEPT ![a] = @ \cup {key}]
      BY <1>1, <1>2, <1>4 DEF Accepted, validate_host_public_key, OnFile
    <3>2. pins' = [pins EXCEPT ![a] = @ \cup {key}] => key \in pins'[a]
      BY <1>5, <2>1
    <3>3. "any" # "tofu"
      OBVIOUS
    <3> QED BY <2>1, <2>2, <3>1, <3>2, <3>3
  <2>3. CASE pins[a] = {} /\ pins' = [pins EXCEPT ![a] = @ \cup {key}]
    BY <1>5, <2>1, <2>3
  <2> QED BY <1>1, <1>2, <1>4, <2>2, <2>3 DEF Accepted, validate_host_public_key, OnFile
<1>11. \A n, s, k : n \in Name /\ StillPinned(n, s, k) => StillPinned(n, s, k)'
  BY <1>4, <1>10, HostHasAddr DEF StillPinned
<1>12. StillPinned(name, since, key)'
  <2>1. CASE key \in uses[u].known
    BY <1>5, <1>6, <1>11, <2>1
  <2>2. CASE key \notin uses[u].known
    BY <1>2, <1>10, <2>2 DEF StillPinned
  <2> QED BY <2>1, <2>2
<1>13. \A j \in DOMAIN uses' : ConnectingGood(uses[j])'
  <2> SUFFICES ASSUME NEW j \in DOMAIN uses' PROVE ConnectingGood(uses[j])'
    OBVIOUS
  <2>1. PICK y : y = uses'[j]
    OBVIOUS
  <2>2. CASE j = u
    <3>1. y = x
      BY <1>9, <2>1, <2>2
    <3> QED BY <1>2, <1>4, <1>5, <1>6, <1>7, <1>12, <2>1, <3>1 DEF ConnectingGood
  <2>3. CASE j # u
    <3>1. ConnectingGood(y) /\ y = uses'[j]
      BY <1>9, <2>1, <2>3 DEF SshGood, PinsGood
    <3> QED BY <1>4, <1>11, <3>1 DEF ConnectingGood
  <2> QED BY <2>2, <2>3
<1>14. \A c \in DOMAIN conns' : ConnGood(conns[c])'
  <2> SUFFICES ASSUME NEW c \in DOMAIN conns' PROVE ConnGood(conns[c])'
    OBVIOUS
  <2>1. PICK y : y = conns[c]
    OBVIOUS
  <2>2. ConnGood(y) /\ y = conns'[c]
    BY <1>4, <2>1 DEF SshGood, PinsGood
  <2> QED BY <1>4, <1>11, <2>2 DEF ConnGood
<1>15. PinsGood'
  BY <1>4, <1>9, <1>10, <1>13, <1>14 DEF SshGood, PinsGood
<1>16. CacheGood'
  BY <1>4 DEF SshGood, CacheGood
<1> QED BY <1>15, <1>16 DEF SshGood

\* A connection that has logged in goes to the cache.
LEMMA SshConnected ==
  ASSUME SshGood, NEW u \in DOMAIN uses, connected(u)
  PROVE  SshGood'
<1>1. PICK name : name = uses[u].host
  OBVIOUS
<1>2. PICK c : c = Len(conns) + 1
  OBVIOUS
<1>3. PICK key : key = CHOOSE k \in uses[u].known : TRUE
  OBVIOUS
<1>4. PICK x : x = [name |-> name, key |-> key, state |-> "young", since |-> uses[u].since]
  OBVIOUS
<1>5. PICK y : y = [pc |-> "command", conn |-> c]
  OBVIOUS
<1>6. /\ uses[u].pc = "login" /\ conns' = Append(conns, x)
      /\ displaced' = displaced \cup (IF name \in DOMAIN cache THEN {cache[name]} ELSE {})
      /\ cache' = [n \in DOMAIN cache \cup {name} |-> IF n = name THEN c ELSE cache[n]]
      /\ uses' = [uses EXCEPT ![u] = y] /\ UNCHANGED <<pins, forgotten>>
  BY <1>1, <1>2, <1>3, <1>4, <1>5 DEF connected
<1>7. ConnectingGood(uses[u]) /\ IsSeq(uses) /\ IsSeq(conns)
  BY DEF SshGood, PinsGood
<1>8. key \in uses[u].known
  BY <1>3, <1>6, <1>7 DEF ConnectingGood
<1>9. ConnGood(x)
  BY <1>1, <1>4, <1>6, <1>7, <1>8 DEF ConnectingGood, ConnGood
<1>10. /\ IsSeq(conns') /\ DOMAIN conns' = DOMAIN conns \cup {c} /\ conns'[c] = x
       /\ \A d \in DOMAIN conns : conns'[d] = conns[d]
  BY <1>2, <1>6, <1>7, IsSeqAppend
<1>11. /\ IsSeq(uses') /\ DOMAIN uses' = DOMAIN uses /\ uses'[u] = y
       /\ \A j \in DOMAIN uses : j # u => uses'[j] = uses[j]
  BY <1>6, <1>7, IsSeqExcept
<1>12. \A j \in DOMAIN uses' : ConnectingGood(uses[j])'
  <2> SUFFICES ASSUME NEW j \in DOMAIN uses' PROVE ConnectingGood(uses[j])'
    OBVIOUS
  <2>1. CASE j = u
    BY <1>5, <1>11, <2>1 DEF ConnectingGood
  <2>2. CASE j # u
    <3>1. PICK z : z = uses[j]
      OBVIOUS
    <3>2. ConnectingGood(z) /\ z = uses'[j]
      BY <1>11, <2>2, <3>1 DEF SshGood, PinsGood
    <3> QED BY <1>6, <3>2 DEF ConnectingGood, StillPinned
  <2> QED BY <2>1, <2>2
<1>13. \A d \in DOMAIN conns' : ConnGood(conns[d])'
  <2> SUFFICES ASSUME NEW d \in DOMAIN conns' PROVE ConnGood(conns[d])'
    OBVIOUS
  <2>1. PICK z : z = conns'[d]
    OBVIOUS
  <2>2. ConnGood(z)
    BY <1>9, <1>10, <2>1 DEF SshGood, PinsGood
  <2> QED BY <1>6, <2>1, <2>2 DEF ConnGood, StillPinned
<1>14. PinsGood'
  BY <1>6, <1>10, <1>11, <1>12, <1>13 DEF SshGood, PinsGood
<1>15. CacheGood'
  <2>1. \A n \in DOMAIN cache' : cache'[n] \in DOMAIN conns'
    BY <1>6, <1>10 DEF SshGood, CacheGood
  <2>2. ASSUME NEW d \in DOMAIN conns', conns'[d].state # "closed"
        PROVE  d \in displaced' \/ \E n \in DOMAIN cache' : cache'[n] = d
    <3>1. CASE d = c
      BY <1>6, <3>1
    <3>2. CASE d # c
      <4>1. d \in displaced \/ \E n \in DOMAIN cache : cache[n] = d
        BY <1>10, <2>2, <3>2 DEF SshGood, CacheGood
      <4>2. ASSUME NEW n \in DOMAIN cache, cache[n] = d
            PROVE  d \in displaced' \/ (n \in DOMAIN cache' /\ cache'[n] = d)
        BY <1>6, <4>2
      <4> QED BY <1>6, <4>1, <4>2
    <3> QED BY <3>1, <3>2
  <2> QED BY <2>1, <2>2 DEF CacheGood
<1> QED BY <1>14, <1>15 DEF SshGood

\* A connection drops or grows old.
LEMMA SshConnState ==
  ASSUME SshGood, NEW c \in DOMAIN conns, conns[c].state # "closed", NEW s,
         conns' = [conns EXCEPT ![c].state = s], UNCHANGED <<pins, forgotten, cache, uses, displaced>>
  PROVE  SshGood'
<1>1. IsSeq(conns) /\ ConnGood(conns[c])
  BY DEF SshGood, PinsGood
<1>2. PICK x : x = [conns[c] EXCEPT !.state = s]
  OBVIOUS
<1>3. /\ IsSeq(conns') /\ DOMAIN conns' = DOMAIN conns /\ conns'[c] = x
      /\ \A d \in DOMAIN conns : d # c => conns'[d] = conns[d]
  BY <1>1, <1>2, IsSeqExcept
<1>4. /\ x.name = conns[c].name /\ x.key = conns[c].key /\ x.since = conns[c].since
      /\ x = [name |-> x.name, key |-> x.key, state |-> x.state, since |-> x.since]
  BY <1>1, <1>2 DEF ConnGood
<1>5. \A d \in DOMAIN conns' : ConnGood(conns[d])'
  <2> SUFFICES ASSUME NEW d \in DOMAIN conns' PROVE ConnGood(conns[d])'
    OBVIOUS
  <2>1. PICK z : z = conns'[d]
    OBVIOUS
  <2>2. ConnGood(x)
    BY <1>1, <1>4 DEF ConnGood
  <2>3. ConnGood(z)
    BY <1>3, <2>1, <2>2 DEF SshGood, PinsGood
  <2> QED BY <2>1, <2>3 DEF ConnGood, StillPinned
<1>6. \A j \in DOMAIN uses' : ConnectingGood(uses[j])'
  BY DEF SshGood, PinsGood, ConnectingGood, StillPinned
<1>7. PinsGood'
  BY <1>3, <1>5, <1>6 DEF SshGood, PinsGood
<1>8. CacheGood'
  BY <1>3 DEF SshGood, CacheGood
<1> QED BY <1>7, <1>8 DEF SshGood

\* The operator removes a pin: whatever relied on it was begun before.
LEMMA SshForgets ==
  ASSUME SshGood, NEW a \in Addr, pin_removed(a)
  PROVE  SshGood'
<1>1. /\ forgotten' = [forgotten EXCEPT ![a] = @ + 1] /\ pins' = [pins EXCEPT ![a] = {}]
      /\ UNCHANGED <<cache, conns, uses, displaced>>
  BY DEF pin_removed
<1>2. forgotten \in [Addr -> Nat] /\ DOMAIN pins = Addr
  BY DEF SshGood, PinsGood
<1>3. /\ forgotten' \in [Addr -> Nat] /\ DOMAIN pins' = Addr
      /\ \A b \in Addr : \A y, z \in pins'[b] : y = z
  BY <1>1, <1>2 DEF SshGood, PinsGood
<1>4. ASSUME NEW n \in Name, NEW s \in Nat, s <= forgotten[HostSpec(n).addr]
      PROVE  /\ s <= forgotten'[HostSpec(n).addr]
             /\ \A k : StillPinned(n, s, k) => StillPinned(n, s, k)'
  <2>1. PICK b : b = HostSpec(n).addr
    OBVIOUS
  <2>2. b \in Addr /\ s <= forgotten[b] /\ forgotten[b] \in Nat
    BY <1>2, <1>4, <2>1, HostHasAddr
  <2>3. b = a => s < forgotten'[b]
    BY <1>1, <1>2, <2>2
  <2>4. b # a => forgotten'[b] = forgotten[b] /\ pins'[b] = pins[b]
    BY <1>1, <1>2, <2>2
  <2>5. s <= forgotten'[b]
    BY <1>3, <2>2, <2>3, <2>4
  <2>6. b = a => s # forgotten'[b]
    BY <1>3, <2>2, <2>3
  <2> QED BY <2>1, <2>4, <2>5, <2>6 DEF StillPinned
<1>5. \A j \in DOMAIN uses' : ConnectingGood(uses[j])'
  <2> SUFFICES ASSUME NEW j \in DOMAIN uses' PROVE ConnectingGood(uses[j])'
    OBVIOUS
  <2>1. PICK z : z = uses[j]
    OBVIOUS
  <2>2. ConnectingGood(z) /\ z = uses'[j]
    BY <1>1, <2>1 DEF SshGood, PinsGood
  <2> QED BY <1>4, <2>2 DEF ConnectingGood
<1>6. \A d \in DOMAIN conns' : ConnGood(conns[d])'
  <2> SUFFICES ASSUME NEW d \in DOMAIN conns' PROVE ConnGood(conns[d])'
    OBVIOUS
  <2>1. PICK z : z = conns[d]
    OBVIOUS
  <2>2. ConnGood(z) /\ z = conns'[d]
    BY <1>1, <2>1 DEF SshGood, PinsGood
  <2> QED BY <1>4, <2>2 DEF ConnGood
<1>7. PinsGood'
  BY <1>1, <1>3, <1>5, <1>6 DEF SshGood, PinsGood
<1>8. CacheGood'
  BY <1>1 DEF SshGood, CacheGood
<1> QED BY <1>7, <1>8 DEF SshGood

\* A step that leaves SSH alone keeps its invariant,
LEMMA SshStutter ==
  ASSUME SshGood, UNCHANGED <<pins, forgotten, cache, conns, uses, displaced>>
  PROVE  SshGood'
BY DEF SshGood, PinsGood, CacheGood, ConnectingGood, ConnGood, StillPinned, IsSeq

\* and so does every step of SSH.
LEMMA SshStepsGood ==
  ASSUME SshGood, SshNext
  PROVE  SshGood'
<1>1. ASSUME NEW id \in Identifier, ssh_run(id) PROVE SshGood'
  BY <1>1, SshBegins DEF ssh_run
<1>2. ASSUME NEW u \in DOMAIN uses, SshStep(u) PROVE SshGood'
  <2>1. ASSUME NEW status, uses' = Ended(u, status),
               UNCHANGED <<pins, forgotten, cache, conns, displaced>>
        PROVE  SshGood'
    <3>1. PICK x : x = [pc |-> "ended", status |-> status]
      OBVIOUS
    <3>2. uses' = [uses EXCEPT ![u] = x] /\ x.pc = "ended"
      BY <2>1, <3>1 DEF Ended
    <3> QED BY <2>1, <3>2, SshUseQuiet
  <2>2. CASE not_resolved(u)
    BY <2>1, <2>2 DEF not_resolved
  <2>3. CASE connect_fails(u)
    BY <2>1, <2>3 DEF connect_fails
  <2>4. ASSUME NEW status, command_ends(u, status) PROVE SshGood'
    BY <2>1, <2>4 DEF command_ends
  <2> QED BY <1>2, <2>2, <2>3, <2>4, SshConnecting, SshHandshake, SshConnected DEF SshStep
<1>3. ASSUME NEW c \in DOMAIN conns, conn_drops(c) \/ conn_grows_old(c) PROVE SshGood'
  BY <1>3, SshConnState DEF conn_drops, conn_grows_old
<1>4. ASSUME NEW a \in Addr, NEW key, server_reinstalled(a, key) PROVE SshGood'
  BY <1>4, SshStutter DEF server_reinstalled
<1> QED BY <1>1, <1>2, <1>3, <1>4, SshForgets DEF SshNext

\* The invariant holds before the first use,
LEMMA SshInitially ==
  ASSUME SshInit
  PROVE  SshGood
<1>1. IsSeq(uses) /\ IsSeq(conns) /\ DOMAIN uses = {} /\ DOMAIN conns = {}
  BY DEF SshInit, IsSeq
<1> QED BY <1>1 DEF SshInit, SshGood, PinsGood, CacheGood

\* and it implies the two properties of SSH.
LEMMA SshGoodHolds ==
  ASSUME SshGood
  PROVE  PinHolds /\ ConnectionsAccounted
<1>1. \A a \in Addr : Cardinality(pins[a]) <= 1
  <2> SUFFICES ASSUME NEW a \in Addr PROVE Cardinality(pins[a]) <= 1
    OBVIOUS
  <2>1. CASE pins[a] = {}
    BY <2>1, FS_EmptySet
  <2>2. CASE pins[a] # {}
    <3>1. PICK k : k \in pins[a]
      BY <2>2
    <3>2. pins[a] = {k}
      BY <3>1 DEF SshGood, PinsGood
    <3> QED BY <3>2, FS_Singleton
  <2> QED BY <2>1, <2>2
<1>2. PinHolds
  BY <1>1 DEF PinHolds, SshGood, PinsGood, ConnGood, StillPinned
<1> QED BY <1>2 DEF SshGood, CacheGood, ConnectionsAccounted
-----------------------------------------------------------------------------
(* Calls of tools and commands in guests.                                  *)

Request == {"guest", "lxc", "vm", "lxc_vm", "run", "lxc_run", "read", "hint", "probe", "change", "insert"}
LastOf(s) == s[Len(s)]

\* The request that changes something is the last of its list, and a session is
\* never the last thing a list asks for.
InOrder(s) == \A i \in DOMAIN s : (s[i] = "change" => i = Len(s)) /\ (s[i] = "insert" => i # Len(s))

Count == Nat

CallRecord ==
  [pc : {"confirm", "run", "done"}, client : {"proxmox", "bmc"}, todo : SUBSET Vmid,
   plan : Seq(Request), left : Seq(Request), attempt : Count, exec : Count,
   hits : [Vmid -> 0..1], answers : [Vmid -> Answer]]

\* What a call has told about guest v goes with what reached it.
ToldTrue(c, v) ==
  /\ c.answers[v] \in NothingDone => c.hits[v] = 0
  /\ c.answers[v] = "ok" /\ LastOf(c.plan) = "change" => c.hits[v] = 1

\* A call that still has requests to send ends with a change if its plan does.
RunGood(c) ==
  /\ c.todo # {} /\ c.left # <<>> /\ c.plan # <<>> /\ InOrder(c.left)
  /\ (LastOf(c.left) = "change") <=> (LastOf(c.plan) = "change")

CallGood(c) ==
  /\ c \in CallRecord /\ InOrder(c.plan)
  /\ \A v \in c.todo : c.hits[v] = 0 /\ c.answers[v] = "none"
  /\ \A v \in Vmid \ c.todo : ToldTrue(c, v)
  /\ c.pc = "run" => RunGood(c)
  /\ c.pc = "confirm" => c.todo # {} /\ c.left = c.plan

\* A call whose request for guest v was just sent.
Midway(c, v) ==
  /\ c \in CallRecord /\ InOrder(c.plan) /\ c.pc = "run" /\ RunGood(c)
  /\ v \in c.todo /\ c.answers[v] = "none"
  /\ \A u \in c.todo \ {v} : c.hits[u] = 0 /\ c.answers[u] = "none"
  /\ \A u \in Vmid \ c.todo : ToldTrue(c, u)
  /\ c.hits[v] = 1 => Head(c.left) = "change"

\* What a worker is at.
WorkerGood(c) ==
  \/ c = Free
  \/ CallGood(c) /\ c.exec \in DOMAIN execs \cup {0}
  \/ /\ c = Polling(c.pc, c.exec) /\ c.pc \in {"ask", "late", "mark", "fill"} /\ c.exec \in DOMAIN execs
     /\ c.pc \in {"mark", "fill"} => c.exec \in exited

WorkGood == DOMAIN calls = Worker /\ \A w \in Worker : WorkerGood(calls[w])

ExecGood == WorkGood /\ execs \in Seq(ExecSession) /\ CompletedHasOutput

\* One field of a call after the other.
LEMMA CallField ==
  ASSUME NEW c \in CallRecord
  PROVE  /\ \A pc \in {"confirm", "run", "done"} : [c EXCEPT !.pc = pc] \in CallRecord
         /\ \A todo \in SUBSET Vmid : [c EXCEPT !.todo = todo] \in CallRecord
         /\ \A left \in Seq(Request) : [c EXCEPT !.left = left] \in CallRecord
         /\ \A attempt \in Count : [c EXCEPT !.attempt = attempt] \in CallRecord
         /\ \A exec \in Count : [c EXCEPT !.exec = exec] \in CallRecord
         /\ \A answers \in [Vmid -> Answer] : [c EXCEPT !.answers = answers] \in CallRecord
<1>1. \A pc \in {"confirm", "run", "done"} : [c EXCEPT !.pc = pc] \in CallRecord
  BY DEF CallRecord
<1>2. \A todo \in SUBSET Vmid : [c EXCEPT !.todo = todo] \in CallRecord
  BY DEF CallRecord
<1>3. \A left \in Seq(Request) : [c EXCEPT !.left = left] \in CallRecord
  BY DEF CallRecord
<1>4. \A attempt \in Count : [c EXCEPT !.attempt = attempt] \in CallRecord
  BY DEF CallRecord
<1>5. \A exec \in Count : [c EXCEPT !.exec = exec] \in CallRecord
  BY DEF CallRecord
<1>6. \A answers \in [Vmid -> Answer] : [c EXCEPT !.answers = answers] \in CallRecord
  BY DEF CallRecord
<1> QED BY <1>1, <1>2, <1>3, <1>4, <1>5, <1>6

\* The call with another list of requests, from the first attempt.
Advance(c, left) == [c EXCEPT !.left = left, !.attempt = 1]

\* The call with another list of requests is a call.
LEMMA CallNext ==
  ASSUME NEW c \in CallRecord, NEW left \in Seq(Request), NEW d, d = Advance(c, left)
  PROVE  /\ d \in CallRecord /\ d.pc = c.pc /\ d.todo = c.todo /\ d.plan = c.plan /\ d.hits = c.hits
         /\ d.answers = c.answers /\ d.exec = c.exec /\ d.left = left
<1>1. PICK e : e = [c EXCEPT !.left = left]
  OBVIOUS
<1>2. e \in CallRecord /\ d = [e EXCEPT !.attempt = 1]
  BY <1>1, CallField DEF Advance
<1>3. d \in CallRecord
  <2>1. 1 \in Count
    BY DEF Count
  <2>2. \A attempt \in Count : [e EXCEPT !.attempt = attempt] \in CallRecord
    BY <1>2, CallField, Zenon
  <2> QED BY <1>2, <2>1, <2>2, Zenon
<1>4. /\ d.pc = c.pc /\ d.todo = c.todo /\ d.plan = c.plan /\ d.hits = c.hits
      /\ d.answers = c.answers /\ d.exec = c.exec /\ d.left = left
  BY DEF CallRecord, Advance
<1> QED BY <1>3, <1>4

\* The rest of a list of requests, after its first.
LEMMA TailIs ==
  ASSUME NEW s \in Seq(Request), s # <<>>, InOrder(s), NEW r, r = Tail(s)
  PROVE  /\ r \in Seq(Request) /\ InOrder(r) /\ Head(s) \in Request
         /\ r = <<>> => LastOf(s) = Head(s) /\ Head(s) # "insert"
         /\ r # <<>> => LastOf(r) = LastOf(s) /\ Head(s) # "change"
<1>1. /\ Len(s) \in Nat /\ Len(s) # 0 /\ r \in Seq(Request) /\ Len(r) = Len(s) - 1 /\ Head(s) = s[1]
      /\ \A i \in 1..Len(r) : r[i] = s[i + 1]
  OBVIOUS
<1>2. DOMAIN s = 1..Len(s) /\ DOMAIN r = 1..Len(r) /\ 1 \in DOMAIN s
  BY <1>1
<1>3. InOrder(r)
  <2> SUFFICES ASSUME NEW i \in DOMAIN r
               PROVE  (r[i] = "change" => i = Len(r)) /\ (r[i] = "insert" => i # Len(r))
    BY DEF InOrder
  <2>1. PICK k : k = i + 1
    OBVIOUS
  <2>2. k \in DOMAIN s /\ r[i] = s[k] /\ (k = Len(s) <=> i = Len(r))
    BY <1>1, <1>2, <2>1
  <2> QED BY <2>2 DEF InOrder
<1>4. ASSUME r = <<>> PROVE LastOf(s) = Head(s) /\ Head(s) # "insert"
  <2>1. Len(r) = 0
    <3>1. Len(<<>>) = 0
      OBVIOUS
    <3> QED BY <1>4, <3>1, Zenon
  <2>2. Len(s) = 1
    BY <1>1, <2>1
  <2> QED BY <1>1, <1>2, <2>2 DEF LastOf, InOrder
<1>5. ASSUME r # <<>> PROVE LastOf(r) = LastOf(s) /\ Head(s) # "change"
  <2>1. Len(r) # 0 /\ Len(s) # 1
    BY <1>1, <1>5
  <2>2. Len(r) \in 1..Len(r) /\ Len(r) + 1 = Len(s)
    BY <1>1, <2>1
  <2>3. r[Len(r)] = s[Len(s)]
    BY <1>1, <2>2
  <2> QED BY <1>1, <1>2, <2>1, <2>3 DEF LastOf, InOrder
<1>6. Head(s) \in Request
  BY <1>1
<1> QED BY <1>1, <1>3, <1>4, <1>5, <1>6

\* A list of requests with a container's request in place of its first.
LEMMA InFront ==
  ASSUME NEW s \in Seq(Request), s # <<>>, InOrder(s), NEW x \in {"lxc", "lxc_vm", "lxc_run"},
         Head(s) # "change", NEW t, t = <<x>> \o Tail(s)
  PROVE  /\ t \in Seq(Request) /\ t # <<>> /\ InOrder(t)
         /\ (LastOf(t) = "change") <=> (LastOf(s) = "change")
<1>1. PICK r : r = Tail(s)
  OBVIOUS
<1>2. /\ r \in Seq(Request) /\ InOrder(r)
      /\ r = <<>> => LastOf(s) = Head(s)
      /\ r # <<>> => LastOf(r) = LastOf(s)
  BY <1>1, TailIs
<1>3. x \in Request /\ x # "change" /\ x # "insert"
  BY DEF Request
<1>4. /\ t \in Seq(Request) /\ Len(t) = Len(r) + 1 /\ Len(r) \in Nat /\ t[1] = x
      /\ \A i \in 1..Len(r) : t[i + 1] = r[i]
  BY <1>1, <1>2, <1>3
<1>5. InOrder(t)
  <2> SUFFICES ASSUME NEW i \in DOMAIN t
               PROVE  (t[i] = "change" => i = Len(t)) /\ (t[i] = "insert" => i # Len(t))
    BY DEF InOrder
  <2>1. CASE i = 1
    BY <1>3, <1>4, <2>1
  <2>2. CASE i # 1
    <3>1. PICK k : k = i - 1
      OBVIOUS
    <3>2. k \in 1..Len(r) /\ k \in DOMAIN r /\ i = k + 1
      BY <1>2, <1>4, <2>2, <3>1
    <3>3. t[i] = r[k] /\ (k = Len(r) <=> i = Len(t))
      BY <1>4, <3>2
    <3> QED BY <1>2, <3>2, <3>3 DEF InOrder
  <2> QED BY <2>1, <2>2
<1>6. CASE r = <<>>
  <2>1. Len(t) = 1
    BY <1>4, <1>6
  <2>2. LastOf(t) = x
    BY <1>4, <2>1 DEF LastOf
  <2> QED BY <1>2, <1>3, <1>4, <1>5, <1>6, <2>1, <2>2
<1>7. CASE r # <<>>
  <2>1. Len(r) \in 1..Len(r)
    BY <1>2, <1>4, <1>7
  <2>2. LastOf(t) = LastOf(r)
    BY <1>4, <2>1 DEF LastOf
  <2> QED BY <1>2, <1>4, <1>5, <1>7, <2>2
<1> QED BY <1>6, <1>7

\* A call that has its answer for a guest.
LEMMA SettledGood ==
  ASSUME NEW c, NEW v, Midway(c, v), NEW a \in Answer, a \in NothingDone => c.hits[v] = 0,
         a = "ok" /\ LastOf(c.plan) = "change" => c.hits[v] = 1
  PROVE  CallGood(Settled(c, v, a)) /\ Settled(c, v, a).exec = c.exec
<1>1. PICK d : d = Settled(c, v, a)
  OBVIOUS
<1>2. c \in CallRecord /\ v \in c.todo /\ c.todo \subseteq Vmid /\ v \in Vmid
  BY DEF Midway, CallRecord
<1>3. PICK pc : pc = IF c.todo \ {v} = {} THEN "done" ELSE "run"
  OBVIOUS
<1>4. PICK as : as = [c.answers EXCEPT ![v] = a]
  OBVIOUS
<1>5. d = [c EXCEPT !.pc = pc, !.todo = c.todo \ {v}, !.left = c.plan, !.attempt = 1, !.answers = as]
  BY <1>1, <1>3, <1>4 DEF Settled
<1>6. as \in [Vmid -> Answer] /\ as[v] = a /\ \A u \in Vmid \ {v} : as[u] = c.answers[u]
  BY <1>2, <1>4 DEF CallRecord
<1>7. pc \in {"confirm", "run", "done"}
  BY <1>3
<1>8. /\ d \in CallRecord /\ d.pc = pc /\ d.todo = c.todo \ {v} /\ d.left = c.plan /\ d.plan = c.plan
      /\ d.hits = c.hits /\ d.answers = as /\ d.exec = c.exec
  <2>1. PICK rest : rest = c.todo \ {v}
    OBVIOUS
  <2>2. rest \in SUBSET Vmid /\ c.plan \in Seq(Request)
    BY <1>2, <2>1 DEF CallRecord
  <2>3. d = [c EXCEPT !.pc = pc, !.todo = rest, !.left = c.plan, !.attempt = 1, !.answers = as]
    BY <1>5, <2>1
  <2>4. d \in CallRecord
    <3>1. PICK d1 : d1 = [c EXCEPT !.pc = pc]
      OBVIOUS
    <3>2. PICK d2 : d2 = [d1 EXCEPT !.todo = rest]
      OBVIOUS
    <3>3. PICK d3 : d3 = [d2 EXCEPT !.left = c.plan]
      OBVIOUS
    <3>4. PICK d4 : d4 = [d3 EXCEPT !.attempt = 1]
      OBVIOUS
    <3>5. d = [d4 EXCEPT !.answers = as]
      BY <2>3, <3>1, <3>2, <3>3, <3>4
    <3>6. d1 \in CallRecord
      BY <1>2, <1>7, <3>1, CallField
    <3>7. d2 \in CallRecord
      BY <2>2, <3>2, <3>6, CallField
    <3>8. d3 \in CallRecord
      BY <2>2, <3>3, <3>7, CallField
    <3>9. d4 \in CallRecord
      <4>1. 1 \in Count
        BY DEF Count
      <4> QED BY <3>4, <3>8, <4>1, CallField, Zenon
    <3> QED BY <1>6, <3>5, <3>9, CallField
  <2>5. /\ d.pc = pc /\ d.todo = rest /\ d.left = c.plan /\ d.plan = c.plan
        /\ d.hits = c.hits /\ d.answers = as /\ d.exec = c.exec
    BY <1>2, <2>3 DEF CallRecord
  <2> QED BY <2>1, <2>4, <2>5
<1>9. \A u \in d.todo : d.hits[u] = 0 /\ d.answers[u] = "none"
  BY <1>2, <1>6, <1>8 DEF Midway
<1>10. \A u \in Vmid \ d.todo : ToldTrue(d, u)
  <2> SUFFICES ASSUME NEW u \in Vmid \ d.todo PROVE ToldTrue(d, u)
    OBVIOUS
  <2>1. CASE u = v
    BY <1>6, <1>8, <2>1 DEF ToldTrue
  <2>2. CASE u # v
    <3>1. ToldTrue(c, u) /\ as[u] = c.answers[u]
      BY <1>6, <1>8, <2>2 DEF Midway
    <3> QED BY <1>8, <3>1 DEF ToldTrue
  <2> QED BY <2>1, <2>2
<1>11. d.pc = "run" => RunGood(d)
  BY <1>3, <1>8 DEF RunGood, Midway
<1>12. InOrder(d.plan) /\ d.pc # "confirm"
  BY <1>3, <1>8 DEF Midway
<1> QED BY <1>1, <1>8, <1>9, <1>10, <1>11, <1>12 DEF CallGood

\* Going on with the next request of the same guest, or trying again.
LEMMA GoesOn ==
  ASSUME NEW c, NEW v, Midway(c, v), c.hits[v] = 0, NEW d \in CallRecord, d.pc = c.pc,
         d.todo = c.todo, d.plan = c.plan, d.hits = c.hits, d.answers = c.answers, d.left # <<>>,
         InOrder(d.left), (LastOf(d.left) = "change") <=> (LastOf(c.plan) = "change")
  PROVE  CallGood(d)
<1>1. RunGood(d)
  BY DEF Midway, RunGood
<1>2. \A u \in Vmid \ d.todo : ToldTrue(d, u)
  BY DEF Midway, ToldTrue
<1>3. \A u \in d.todo : d.hits[u] = 0 /\ d.answers[u] = "none"
  BY DEF Midway
<1> QED BY <1>1, <1>2, <1>3 DEF CallGood, Midway

\* A call after the last attempt of a request.
LEMMA AfterGood ==
  ASSUME NEW c, NEW v, Midway(c, v), NEW result \in {"ok", "error", "unreachable", "maybe"},
         Head(c.left) # "insert", result = "unreachable" => c.hits[v] = 0,
         result = "ok" /\ Head(c.left) = "change" => c.hits[v] = 1
  PROVE  CallGood(After(c, v, result)) /\ After(c, v, result).exec = c.exec
<1>1. PICK stage : stage = Head(c.left)
  OBVIOUS
<1>2. PICK tl : tl = Tail(c.left)
  OBVIOUS
<1>3. /\ c \in CallRecord /\ c.left \in Seq(Request) /\ c.left # <<>> /\ InOrder(c.left) /\ c.exec \in Count
      /\ (LastOf(c.left) = "change") <=> (LastOf(c.plan) = "change")
  BY DEF Midway, RunGood, CallRecord
<1>4. /\ tl \in Seq(Request) /\ InOrder(tl)
      /\ tl = <<>> => LastOf(c.left) = stage
      /\ tl # <<>> => LastOf(tl) = LastOf(c.left) /\ stage # "change"
  BY <1>1, <1>2, <1>3, TailIs
<1>5. stage # "change" => c.hits[v] = 0
  BY <1>1 DEF Midway, CallRecord
<1>6. PICK rest : rest = [c EXCEPT !.left = tl, !.attempt = 1]
  OBVIOUS
<1>7. rest.left = tl
  BY <1>3, <1>6 DEF CallRecord
<1>8. PICK d : d = After(c, v, result)
  OBVIOUS
<1>9. d = CASE stage \in DOMAIN AsContainer /\ result # "ok" ->
                 [c EXCEPT !.left = <<AsContainer[stage]>> \o tl, !.attempt = 1]
            [] stage \in ContainerStage /\ result # "ok" -> Settled(c, v, "not_found")
            [] stage = "lxc_vm" /\ result = "ok"   -> Settled(c, v, "unsupported")
            [] stage = "lxc_run" /\ result = "ok"  -> Settled(c, v, "container")
            [] stage = "vm" /\ result = "ok" /\ tl = <<>> -> Settled(c, v, "unsupported")
            [] stage = "read" /\ result # "ok"     -> Settled(c, v, "gave_up")
            [] OTHER -> IF tl = <<>> THEN Settled(c, v, result) ELSE rest
  BY <1>1, <1>2, <1>6, <1>7, <1>8, Zenon DEF After
<1>10. DOMAIN AsContainer = {"guest", "vm", "run"} /\ \A x \in DOMAIN AsContainer : AsContainer[x] \in {"lxc", "lxc_vm", "lxc_run"}
  BY DEF AsContainer
<1>11. ASSUME d = Settled(c, v, result), tl = <<>> PROVE CallGood(d) /\ d.exec = c.exec
  <2>1. result \in Answer
    BY DEF Answer
  <2>2. result \in NothingDone => c.hits[v] = 0
    BY DEF NothingDone
  <2>3. result = "ok" /\ LastOf(c.plan) = "change" => c.hits[v] = 1
    BY <1>1, <1>3, <1>4, <1>11
  <2> QED BY <1>11, <2>1, <2>2, <2>3, SettledGood
<1>12. ASSUME d = rest, tl # <<>> PROVE CallGood(d) /\ d.exec = c.exec
  <2>1. /\ d \in CallRecord /\ d.pc = c.pc /\ d.todo = c.todo /\ d.plan = c.plan /\ d.hits = c.hits
        /\ d.answers = c.answers /\ d.exec = c.exec /\ d.left = tl
    <3>1. d = Advance(c, tl)
      BY <1>6, <1>12 DEF Advance
    <3> QED BY <1>3, <1>4, <3>1, CallNext
  <2> QED BY <1>3, <1>4, <1>5, <1>12, <2>1, GoesOn
<1>13. ASSUME NEW a \in NothingDone, d = Settled(c, v, a), stage # "change" PROVE CallGood(d) /\ d.exec = c.exec
  <2>1. a \in Answer /\ a # "ok"
    BY <1>13 DEF NothingDone, Answer
  <2> QED BY <1>5, <1>13, <2>1, SettledGood
<1>14. ASSUME stage \in DOMAIN AsContainer, d = [c EXCEPT !.left = <<AsContainer[stage]>> \o tl, !.attempt = 1]
       PROVE  CallGood(d) /\ d.exec = c.exec
  <2>1. PICK t : t = <<AsContainer[stage]>> \o tl
    OBVIOUS
  <2>2. stage # "change" /\ AsContainer[stage] \in {"lxc", "lxc_vm", "lxc_run"}
    BY <1>10, <1>14
  <2>3. /\ t \in Seq(Request) /\ t # <<>> /\ InOrder(t)
        /\ (LastOf(t) = "change") <=> (LastOf(c.left) = "change")
    BY <1>1, <1>2, <1>3, <2>1, <2>2, InFront
  <2>4. /\ d \in CallRecord /\ d.pc = c.pc /\ d.todo = c.todo /\ d.plan = c.plan /\ d.hits = c.hits
        /\ d.answers = c.answers /\ d.exec = c.exec /\ d.left = t
    <3>1. d = Advance(c, t)
      BY <1>14, <2>1 DEF Advance
    <3> QED BY <1>3, <2>3, <3>1, CallNext
  <2> QED BY <1>3, <1>5, <2>2, <2>3, <2>4, GoesOn
<1>15. /\ {"not_found", "unsupported", "container", "gave_up"} \subseteq NothingDone
       /\ ContainerStage = {"lxc", "lxc_vm", "lxc_run"}
  BY DEF NothingDone, ContainerStage
<1>16. CallGood(d) /\ d.exec = c.exec
  <2>1. CASE stage \in DOMAIN AsContainer /\ result # "ok"
    <3>1. d = [c EXCEPT !.left = <<AsContainer[stage]>> \o tl, !.attempt = 1]
      BY <1>9, <1>10, <1>15, <2>1
    <3> QED BY <1>14, <2>1, <3>1
  <2>2. CASE stage \in ContainerStage /\ result # "ok"
    <3>1. d = Settled(c, v, "not_found") /\ stage # "change"
      BY <1>9, <1>10, <1>15, <2>2
    <3> QED BY <1>13, <1>15, <3>1
  <2>3. CASE stage = "lxc_vm" /\ result = "ok"
    <3>1. d = Settled(c, v, "unsupported")
      BY <1>9, <2>3
    <3> QED BY <1>13, <1>15, <2>3, <3>1
  <2>4. CASE stage = "lxc_run" /\ result = "ok"
    <3>1. d = Settled(c, v, "container")
      BY <1>9, <2>4
    <3> QED BY <1>13, <1>15, <2>4, <3>1
  <2>5. CASE stage = "vm" /\ result = "ok" /\ tl = <<>>
    <3>1. d = Settled(c, v, "unsupported")
      BY <1>9, <2>5
    <3> QED BY <1>13, <1>15, <2>5, <3>1
  <2>6. CASE stage = "read" /\ result # "ok"
    <3>1. d = Settled(c, v, "gave_up")
      BY <1>9, <1>10, <1>15, <2>6
    <3> QED BY <1>13, <1>15, <2>6, <3>1
  <2>7. CASE /\ ~ (stage \in DOMAIN AsContainer /\ result # "ok") /\ ~ (stage \in ContainerStage /\ result # "ok")
             /\ ~ (stage = "lxc_vm" /\ result = "ok") /\ ~ (stage = "lxc_run" /\ result = "ok")
             /\ ~ (stage = "vm" /\ result = "ok" /\ tl = <<>>) /\ ~ (stage = "read" /\ result # "ok")
    <3>1. d = IF tl = <<>> THEN Settled(c, v, result) ELSE rest
      BY <1>9, <2>7
    <3> QED BY <1>11, <1>12, <3>1
  <2> QED BY <2>1, <2>2, <2>3, <2>4, <2>5, <2>6, <2>7
<1> QED BY <1>8, <1>16

\* Whatever becomes of a request, tried again or not.
LEMMA AttemptGood ==
  ASSUME NEW c, CallGood(c), c.pc = "run", Head(c.left) # "insert", NEW v \in c.todo,
         NEW reply \in Reply, NEW reached \in BOOLEAN, reached \in MayReach(reply)
  PROVE  CallGood(Attempt(c, v, reply, reached)) /\ Attempt(c, v, reply, reached).exec = c.exec
<1>1. c \in CallRecord /\ RunGood(c) /\ c.hits[v] = 0 /\ c.todo \subseteq Vmid /\ v \in Vmid /\ c.exec \in Count
  BY DEF CallGood, CallRecord
<1>2. Midway(c, v)
  BY <1>1 DEF CallGood, Midway
<1>3. PICK sent : sent = IF reached /\ Head(c.left) = "change" THEN [c EXCEPT !.hits[v] = c.hits[v] + 1] ELSE c
  OBVIOUS
<1>4. PICK get : get = (Head(c.left) \notin {"change", "probe"})
  OBVIOUS
<1>5. /\ reply = "answer" => reached
      /\ reply = "never_sent" => ~ reached
  BY DEF MayReach
<1>6. /\ Midway(sent, v) /\ sent.left = c.left /\ sent.exec = c.exec
      /\ ~ (reached /\ Head(c.left) = "change") => sent = c
      /\ reached /\ Head(c.left) = "change" => sent.hits[v] = 1
  <2>1. CASE reached /\ Head(c.left) = "change"
    <3>1. PICK hs : hs = [c.hits EXCEPT ![v] = 1]
      OBVIOUS
    <3>2. hs \in [Vmid -> 0..1] /\ hs[v] = 1 /\ \A u \in Vmid \ {v} : hs[u] = c.hits[u]
      BY <1>1, <3>1 DEF CallRecord
    <3>3. sent = [c EXCEPT !.hits = hs]
      BY <1>1, <1>3, <2>1, <3>1
    <3>4. /\ sent \in CallRecord /\ sent.pc = c.pc /\ sent.todo = c.todo /\ sent.left = c.left /\ sent.plan = c.plan
          /\ sent.hits = hs /\ sent.answers = c.answers /\ sent.exec = c.exec
      BY <1>1, <3>2, <3>3 DEF CallRecord
    <3>5. RunGood(sent)
      BY <1>1, <3>4 DEF RunGood
    <3>6. \A u \in Vmid \ sent.todo : ToldTrue(sent, u)
      BY <1>2, <3>2, <3>4 DEF Midway, ToldTrue
    <3>7. \A u \in c.todo \ {v} : sent.hits[u] = 0 /\ sent.answers[u] = "none"
      BY <1>1, <1>2, <3>2, <3>4 DEF Midway
    <3>8. Midway(sent, v)
      BY <1>2, <2>1, <3>4, <3>5, <3>6, <3>7 DEF Midway
    <3> QED BY <2>1, <3>2, <3>4, <3>8
  <2>2. CASE ~ (reached /\ Head(c.left) = "change")
    BY <1>2, <1>3, <2>2
  <2> QED BY <2>1, <2>2
<1>7. sent.hits[v] = 0 \/ (reached /\ Head(c.left) = "change")
  BY <1>1, <1>6
<1>8. /\ "ok" \in {"ok", "error", "unreachable", "maybe"} /\ "error" \in {"ok", "error", "unreachable", "maybe"}
      /\ bmc_result(reply) \in {"ok", "error"} /\ (bmc_result(reply) = "ok" => reply = "answer")
  BY DEF bmc_result
<1>9. /\ api_result(get, reply) \in {"ok", "error", "unreachable", "maybe"}
      /\ api_result(get, reply) = "ok" => reply = "answer"
      /\ api_result(get, reply) = "unreachable" => Retryable(get, reply)
  BY DEF api_result, Reply
<1>10. Retryable(get, reply) => sent = c
  BY <1>4, <1>5, <1>6, Zenon DEF Retryable
<1>11. PICK d : d = Attempt(c, v, reply, reached)
  OBVIOUS
<1>12. d = IF c.client = "bmc" THEN After(sent, v, bmc_result(reply))
           ELSE IF Retryable(get, reply) /\ c.attempt < RETRY_ATTEMPTS
             THEN [sent EXCEPT !.attempt = c.attempt + 1]
             ELSE After(sent, v, api_result(get, reply))
  BY <1>3, <1>4, <1>11, Zenon DEF Attempt
<1>13. ASSUME d = After(sent, v, bmc_result(reply)) PROVE CallGood(d) /\ d.exec = c.exec
  <2>1. PICK res : res = bmc_result(reply)
    OBVIOUS
  <2>2. res \in {"ok", "error", "unreachable", "maybe"} /\ res # "unreachable" /\ (res = "ok" => reached)
    BY <1>5, <1>8, <2>1
  <2>3. CallGood(After(sent, v, res)) /\ After(sent, v, res).exec = sent.exec
    BY <1>6, <2>2, AfterGood
  <2> QED BY <1>6, <1>13, <2>1, <2>3
<1>14. ASSUME d = After(sent, v, api_result(get, reply)) PROVE CallGood(d) /\ d.exec = c.exec
  <2>1. PICK res : res = api_result(get, reply)
    OBVIOUS
  <2>2. res \in {"ok", "error", "unreachable", "maybe"} /\ (res = "unreachable" => sent = c) /\ (res = "ok" => reached)
    BY <1>5, <1>9, <1>10, <2>1
  <2>3. CallGood(After(sent, v, res)) /\ After(sent, v, res).exec = sent.exec
    BY <1>1, <1>6, <2>2, AfterGood
  <2> QED BY <1>6, <1>14, <2>1, <2>3
<1>15. ASSUME d = [sent EXCEPT !.attempt = c.attempt + 1], sent = c PROVE CallGood(d) /\ d.exec = c.exec
  <2>1. c.attempt + 1 \in Count /\ c.left \in Seq(Request)
    <3>1. c.attempt \in Count /\ c.left \in Seq(Request)
      BY <1>1 DEF CallRecord
    <3> QED BY <3>1 DEF Count
  <2>2. /\ d \in CallRecord /\ d.pc = c.pc /\ d.todo = c.todo /\ d.plan = c.plan /\ d.hits = c.hits
        /\ d.answers = c.answers /\ d.exec = c.exec /\ d.left = c.left
    <3>1. PICK k : k = c.attempt + 1
      OBVIOUS
    <3>2. d = [c EXCEPT !.attempt = k] /\ k \in Count
      BY <1>15, <2>1, <3>1
    <3> QED BY <1>1, <3>2 DEF CallRecord
  <2> QED BY <1>1, <1>2, <2>1, <2>2, GoesOn DEF RunGood
<1>16. CallGood(d) /\ d.exec = c.exec
  BY <1>10, <1>12, <1>13, <1>14, <1>15
<1> QED BY <1>11, <1>16

\* Short lists of requests that are in order.
LEMMA ShortPlans ==
  /\ <<>> \in Seq(Request) /\ InOrder(<<>>)
  /\ \A a \in Request \ {"insert"} : <<a>> \in Seq(Request) /\ InOrder(<<a>>)
  /\ \A a \in Request \ {"change"}, b \in Request \ {"insert"} : <<a, b>> \in Seq(Request) /\ InOrder(<<a, b>>)
  /\ \A a, b \in Request \ {"change"}, c \in Request \ {"insert"} :
       <<a, b, c>> \in Seq(Request) /\ InOrder(<<a, b, c>>)
  /\ \A a, b, c \in Request \ {"change"}, d \in Request \ {"insert"} :
       <<a, b, c, d>> \in Seq(Request) /\ InOrder(<<a, b, c, d>>)
<1>1. <<>> \in Seq(Request) /\ InOrder(<<>>)
  BY DEF InOrder
<1>2. ASSUME NEW a \in Request \ {"insert"} PROVE <<a>> \in Seq(Request) /\ InOrder(<<a>>)
  BY DEF InOrder
<1>3. ASSUME NEW a \in Request \ {"change"}, NEW b \in Request \ {"insert"}
      PROVE  <<a, b>> \in Seq(Request) /\ InOrder(<<a, b>>)
  BY DEF InOrder
<1>4. ASSUME NEW a \in Request \ {"change"}, NEW b \in Request \ {"change"}, NEW c \in Request \ {"insert"}
      PROVE  <<a, b, c>> \in Seq(Request) /\ InOrder(<<a, b, c>>)
  BY DEF InOrder
<1>5. ASSUME NEW a \in Request \ {"change"}, NEW b \in Request \ {"change"}, NEW c \in Request \ {"change"},
             NEW d \in Request \ {"insert"}
      PROVE  <<a, b, c, d>> \in Seq(Request) /\ InOrder(<<a, b, c, d>>)
  BY DEF InOrder
<1> QED BY <1>1, <1>2, <1>3, <1>4, <1>5

\* Every tool asks for its change last.
LEMMA PlansInOrder ==
  ASSUME NEW name, NEW plan \in Plans(name) \cup Refused
  PROVE  plan \in Seq(Request) /\ InOrder(plan)
<1>1. Request = {"guest", "lxc", "vm", "lxc_vm", "run", "lxc_run", "read", "hint", "probe", "change", "insert"}
  BY DEF Request
<1>2. plan \in {<<>>, <<"guest", "change">>, <<"change">>, <<"guest", "read">>, <<"vm", "read", "change">>,
                <<"read", "change">>, <<"read">>, <<"vm", "change">>, <<"vm">>, <<"vm", "probe", "read">>,
                <<"vm", "probe", "hint", "read">>, <<"hint">>, <<"hint", "hint">>}
  BY Zenon DEF Plans, Refused, ChangesGuest, vm_power, vm_copy, backup_create, snapshot_change, vm_create, vm_config,
         snapshot_list, snapshot_create, backup_restore, backup_list, write_file, read_file, storage_status,
         network_config, vm_bulk_action, redfish_power, ipmi_power, ilo_power, bmc_power
<1> QED BY <1>1, <1>2, ShortPlans

\* What the record of a new call says.
IsNew(c, todo, plan) ==
  /\ c \in CallRecord /\ c.pc = "run" /\ c.todo = todo /\ c.plan = plan /\ c.left = plan /\ c.exec = 0
  /\ \A v \in Vmid : c.hits[v] = 0 /\ c.answers[v] = "none"

\* The record of a new call.
LEMMA NewCallIs ==
  ASSUME NEW client \in {"proxmox", "bmc"}, NEW todo \in SUBSET Vmid, NEW plan \in Seq(Request),
         NEW c, c = NewCall(client, todo, plan)
  PROVE  IsNew(c, todo, plan)
<1>1. PICK hs : hs = [v \in Vmid |-> 0]
  OBVIOUS
<1>2. PICK as : as = [v \in Vmid |-> "none"]
  OBVIOUS
<1>3. hs \in [Vmid -> 0..1] /\ as \in [Vmid -> Answer] /\ \A v \in Vmid : hs[v] = 0 /\ as[v] = "none"
  BY <1>1, <1>2 DEF Answer
<1>4. PICK one : one = 1
  OBVIOUS
<1>5. PICK zero : zero = 0
  OBVIOUS
<1>6. c = [pc |-> "run", client |-> client, todo |-> todo, plan |-> plan, left |-> plan, attempt |-> one,
           exec |-> zero, hits |-> hs, answers |-> as]
  BY <1>1, <1>2, <1>4, <1>5, Zenon DEF NewCall
<1>7. one \in Count /\ zero \in Count
  BY <1>4, <1>5 DEF Count
<1>8. c \in CallRecord
  <2>1. c \in [pc : {"confirm", "run", "done"}, client : {"proxmox", "bmc"}, todo : SUBSET Vmid,
              plan : Seq(Request), left : Seq(Request), attempt : Count, exec : Count,
              hits : {hs}, answers : {as}]
    BY <1>6, <1>7
  <2> QED BY <1>3, <2>1 DEF CallRecord
<1>9. c.pc = "run" /\ c.todo = todo /\ c.plan = plan /\ c.left = plan /\ c.exec = zero /\ c.hits = hs /\ c.answers = as
  BY <1>6
<1> QED BY <1>3, <1>5, <1>8, <1>9 DEF IsNew

\* A call for which nothing was done, since the dialog refused it.
LEMMA ClosedGood ==
  ASSUME NEW c \in CallRecord, InOrder(c.plan), NEW a \in NothingDone,
         \A v \in c.todo : c.hits[v] = 0 /\ c.answers[v] = "none",
         \A v \in Vmid \ c.todo : ToldTrue(c, v)
  PROVE  CallGood(Closed(c, a)) /\ Closed(c, a).exec = c.exec
<1>1. PICK as : as = [v \in Vmid |-> IF v \in c.todo THEN a ELSE c.answers[v]]
  OBVIOUS
<1>2. a \in Answer /\ a # "ok"
  BY DEF NothingDone, Answer
<1>3. as \in [Vmid -> Answer] /\ \A v \in Vmid : as[v] = IF v \in c.todo THEN a ELSE c.answers[v]
  BY <1>1, <1>2 DEF CallRecord
<1>4. PICK d : d = Closed(c, a)
  OBVIOUS
<1>5. PICK d1 : d1 = [c EXCEPT !.pc = "done"]
  OBVIOUS
<1>6. PICK d2 : d2 = [d1 EXCEPT !.todo = {}]
  OBVIOUS
<1>7. d = [d2 EXCEPT !.answers = as]
  BY <1>1, <1>4, <1>5, <1>6 DEF Closed
<1>8. d1 \in CallRecord
  BY <1>5, CallField
<1>9. d2 \in CallRecord
  BY <1>6, <1>8, CallField
<1>10. d \in CallRecord
  BY <1>3, <1>7, <1>9, CallField
<1>11. d.pc = "done" /\ d.todo = {} /\ d.plan = c.plan /\ d.hits = c.hits /\ d.answers = as /\ d.exec = c.exec
  BY <1>5, <1>6, <1>7, <1>8, <1>9 DEF CallRecord
<1>12. \A v \in Vmid : ToldTrue(d, v)
  <2> SUFFICES ASSUME NEW v \in Vmid PROVE ToldTrue(d, v)
    OBVIOUS
  <2>1. CASE v \in c.todo
    <3>1. d.answers[v] = a /\ d.hits[v] = 0
      BY <1>3, <1>11, <2>1
    <3> QED BY <1>2, <3>1 DEF ToldTrue
  <2>2. CASE v \notin c.todo
    <3>1. d.answers[v] = c.answers[v] /\ d.hits[v] = c.hits[v] /\ ToldTrue(c, v)
      BY <1>3, <1>11, <2>2
    <3> QED BY <1>11, <3>1 DEF ToldTrue
  <2> QED BY <2>1, <2>2
<1>13. CallGood(d)
  BY <1>10, <1>11, <1>12 DEF CallGood
<1> QED BY <1>4, <1>11, <1>13

\* A call that was confirmed.
LEMMA StartedGood ==
  ASSUME NEW c \in CallRecord, InOrder(c.plan), c.todo # {}, c.left = c.plan,
         \A v \in c.todo : c.hits[v] = 0 /\ c.answers[v] = "none",
         \A v \in Vmid \ c.todo : ToldTrue(c, v)
  PROVE  CallGood(Started(c)) /\ Started(c).exec = c.exec
<1>1. CASE c.plan = <<>>
  <2>1. Started(c) = Closed(c, "unsupported")
    BY <1>1 DEF Started
  <2>2. "unsupported" \in NothingDone
    BY DEF NothingDone
  <2> QED BY <2>1, <2>2, ClosedGood
<1>2. CASE c.plan # <<>>
  <2>1. PICK d : d = [c EXCEPT !.pc = "run"]
    OBVIOUS
  <2>2. d \in CallRecord
    BY <2>1, CallField
  <2>3. /\ d.pc = "run" /\ d.todo = c.todo /\ d.plan = c.plan /\ d.left = c.plan /\ d.hits = c.hits
        /\ d.answers = c.answers /\ d.exec = c.exec
    BY <2>1 DEF CallRecord
  <2>4. RunGood(d)
    BY <1>2, <2>3 DEF RunGood
  <2>5. \A v \in Vmid \ d.todo : ToldTrue(d, v)
    BY <2>3 DEF ToldTrue
  <2>6. CallGood(d)
    BY <2>2, <2>3, <2>4, <2>5 DEF CallGood
  <2> QED BY <1>2, <2>1, <2>3, <2>6 DEF Started
<1> QED BY <1>1, <1>2

\* A call whose session is being opened.
LEMMA OpeningGood ==
  ASSUME NEW c \in Openings
  PROVE  CallGood(c) /\ c.exec = 0
<1>1. PICK tool \in Tool : \E plan \in Plans(tool.name) \cup Refused, form \in BOOLEAN, vmids \in Targets(tool.name) :
                             c = Opening(tool, vmids, plan, form)
  BY DEF Openings
<1>2. PICK plan \in Plans(tool.name) \cup Refused, form \in BOOLEAN, vmids \in Targets(tool.name) :
        c = Opening(tool, vmids, plan, form)
  BY <1>1
<1>3. plan \in Seq(Request) /\ InOrder(plan)
  BY PlansInOrder
<1>4. vmids \in SUBSET Vmid /\ vmids # {}
  <2>1. Cardinality({}) = 0
    BY FS_EmptySet
  <2>2. vmids \in SUBSET Vmid /\ (vmids # {} \/ Cardinality(vmids) = 1)
    BY DEF Targets
  <2> QED BY <2>1, <2>2
<1>5. PICK n : n = NewCall(Client(tool.name), vmids, plan)
  OBVIOUS
<1>6. /\ n \in CallRecord /\ n.pc = "run" /\ n.todo = vmids /\ n.plan = plan /\ n.left = plan /\ n.exec = 0
      /\ \A v \in Vmid : n.hits[v] = 0 /\ n.answers[v] = "none"
  <2>1. Client(tool.name) \in {"proxmox", "bmc"}
    BY DEF Client
  <2>2. PICK client : client = Client(tool.name)
    OBVIOUS
  <2>3. client \in {"proxmox", "bmc"} /\ n = NewCall(client, vmids, plan)
    BY <1>5, <2>1, <2>2
  <2>4. PICK m : m = vmids
    OBVIOUS
  <2>5. PICK p : p = plan
    OBVIOUS
  <2>6. m \in SUBSET Vmid /\ p \in Seq(Request) /\ n = NewCall(client, m, p)
    BY <1>3, <1>4, <2>3, <2>4, <2>5
  <2>7. IsNew(n, m, p)
    BY <2>3, <2>6, NewCallIs
  <2> QED BY <2>4, <2>5, <2>7 DEF IsNew
<1>7. \A v \in Vmid : ToldTrue(n, v)
  BY <1>6 DEF ToldTrue
<1>8. n.todo \subseteq Vmid
  BY <1>4, <1>6
<1>9. CASE _needs_confirmation(tool) /\ form
  <2>1. c = [n EXCEPT !.pc = "confirm"]
    BY <1>2, <1>5, <1>9 DEF Opening
  <2>2. c \in CallRecord
    BY <1>6, <2>1, CallField
  <2>3. /\ c.pc = "confirm" /\ c.todo = n.todo /\ c.plan = n.plan /\ c.left = n.left /\ c.hits = n.hits
        /\ c.answers = n.answers /\ c.exec = n.exec
    BY <1>6, <2>1 DEF CallRecord
  <2>4. \A v \in Vmid : ToldTrue(c, v)
    BY <1>7, <2>3 DEF ToldTrue
  <2>5. CallGood(c)
    BY <1>3, <1>4, <1>6, <1>8, <2>2, <2>3, <2>4 DEF CallGood
  <2> QED BY <1>6, <2>3, <2>5
<1>10. CASE ~ (_needs_confirmation(tool) /\ form) /\ tool.dry_run
  <2>1. c = Closed(n, "dry_run")
    BY <1>2, <1>5, <1>10 DEF Opening
  <2>2. "dry_run" \in NothingDone
    BY DEF NothingDone
  <2> QED BY <1>3, <1>6, <1>7, <1>8, <2>1, <2>2, ClosedGood
<1>11. CASE ~ (_needs_confirmation(tool) /\ form) /\ ~ tool.dry_run
  <2>1. c = Started(n)
    BY <1>2, <1>5, <1>11 DEF Opening
  <2> QED BY <1>3, <1>4, <1>6, <1>7, <1>8, <2>1, StartedGood
<1> QED BY <1>9, <1>10, <1>11

\* A worker keeps its place while sessions begin and commands exit.
LEMMA WorkerKeeps ==
  ASSUME NEW c, WorkerGood(c), DOMAIN execs \subseteq DOMAIN execs', exited \subseteq exited'
  PROVE  WorkerGood(c)'
BY DEF WorkerGood

\* A worker that does not write into a session.
LEMMA WorkerStep ==
  ASSUME ExecGood, UNCHANGED <<execs, exited>>, NEW w \in Worker, calls[w].pc # "fill",
         NEW x, WorkerGood(x), calls' = [calls EXCEPT ![w] = x]
  PROVE  ExecGood'
<1>1. DOMAIN calls = Worker /\ \A u \in Worker : WorkerGood(calls[u])
  BY DEF ExecGood, WorkGood
<1>2. DOMAIN calls' = Worker /\ calls'[w] = x /\ \A u \in Worker : u # w => calls'[u] = calls[u]
  BY <1>1
<1>3. \A u \in Worker : WorkerGood(calls[u])'
  <2> SUFFICES ASSUME NEW u \in Worker PROVE WorkerGood(calls[u])'
    OBVIOUS
  <2>1. PICK y : y = calls'[u]
    OBVIOUS
  <2>2. WorkerGood(y)
    BY <1>1, <1>2, <2>1
  <2>3. WorkerGood(y)'
    BY <2>2, WorkerKeeps
  <2> QED BY <2>1, <2>3
<1>4. CompletedHasOutput'
  <2> SUFFICES ASSUME NEW e \in DOMAIN execs'
               PROVE  /\ execs'[e].stdout # "" => e \in exited'
                      /\ execs'[e].status = "completed" =>
                           /\ e \in exited'
                           /\ execs'[e].stdout # "" \/ \E u \in Worker : calls'[u].pc = "fill" /\ calls'[u].exec = e
    BY DEF CompletedHasOutput
  <2>1. /\ execs[e].stdout # "" => e \in exited
        /\ execs[e].status = "completed" =>
             /\ e \in exited
             /\ execs[e].stdout # "" \/ \E u \in Worker : calls[u].pc = "fill" /\ calls[u].exec = e
    BY DEF ExecGood, CompletedHasOutput
  <2>2. ASSUME NEW u \in Worker, calls[u].pc = "fill", calls[u].exec = e
        PROVE  calls'[u].pc = "fill" /\ calls'[u].exec = e
    BY <1>2, <2>2
  <2> QED BY <2>1, <2>2
<1> QED BY <1>2, <1>3, <1>4 DEF ExecGood, WorkGood

\* What a worker is at, read from its program counter.
LEMMA PcOfWorker ==
  ASSUME ExecGood, NEW w \in Worker
  PROVE  /\ calls[w].pc \in {"confirm", "run", "done"} => CallGood(calls[w]) /\ calls[w].exec \in DOMAIN execs \cup {0}
         /\ calls[w].pc \in {"ask", "late", "mark", "fill"} =>
              /\ calls[w] = Polling(calls[w].pc, calls[w].exec) /\ calls[w].exec \in DOMAIN execs
              /\ calls[w].pc \in {"mark", "fill"} => calls[w].exec \in exited
<1>1. WorkerGood(calls[w])
  BY DEF ExecGood, WorkGood
<1>2. CallGood(calls[w]) => calls[w].pc \in {"confirm", "run", "done"}
  BY DEF CallGood, CallRecord
<1> QED BY <1>1, <1>2 DEF WorkerGood, Free

\* A free worker is as it must be.
LEMMA FreeGood == WorkerGood(Free)
BY DEF WorkerGood

\* Every step of a tool over the API keeps the invariant.
LEMMA ToolStepsGood ==
  ASSUME ExecGood, ToolNext, UNCHANGED execVars
  PROVE  ExecGood'
<1>1. UNCHANGED <<execs, exited>>
  BY DEF execVars
<1>2. ASSUME NEW w \in Worker, call_tool(w) PROVE ExecGood'
  <2>1. PICK c \in Openings : calls' = [calls EXCEPT ![w] = c]
    BY <1>2 DEF call_tool
  <2>2. WorkerGood(c)
    BY OpeningGood DEF WorkerGood
  <2>3. calls[w].pc # "fill"
    BY <1>2 DEF call_tool, Busy
  <2> QED BY <1>1, <2>1, <2>2, <2>3, WorkerStep
<1>3. ASSUME NEW w \in Worker, NEW reply \in {"accept", "declined", "unavailable", "cancelled"}, confirm_destructive(w, reply)
      PROVE  ExecGood'
  <2>1. PICK c : c = calls[w]
    OBVIOUS
  <2>2. PICK x : x = IF GoAhead(reply) THEN Started(c) ELSE Closed(c, reply)
    OBVIOUS
  <2>3. c.pc = "confirm" /\ calls' = [calls EXCEPT ![w] = x]
    BY <1>3, <2>1, <2>2 DEF confirm_destructive
  <2>4. CallGood(c) /\ c.exec \in DOMAIN execs \cup {0}
    BY <2>1, <2>3, PcOfWorker
  <2>5. CallGood(x) /\ x.exec = c.exec
    <3>1. CASE GoAhead(reply)
      <4>1. x = Started(c)
        BY <2>2, <3>1
      <4> QED BY <2>3, <2>4, <4>1, StartedGood DEF CallGood
    <3>2. CASE ~ GoAhead(reply)
      <4>1. x = Closed(c, reply) /\ reply \in NothingDone
        BY <2>2, <3>2 DEF GoAhead, NothingDone
      <4> QED BY <2>4, <4>1, ClosedGood DEF CallGood
    <3> QED BY <3>1, <3>2
  <2>6. WorkerGood(x)
    BY <2>4, <2>5 DEF WorkerGood
  <2> QED BY <1>1, <2>1, <2>3, <2>6, WorkerStep
<1>4. ASSUME NEW w \in Worker, NEW reply \in Reply, NEW reached \in BOOLEAN, api_call(w, reply, reached)
      PROVE  ExecGood'
  <2>1. PICK c : c = calls[w]
    OBVIOUS
  <2>2. PICK v : v = AtHand(c)
    OBVIOUS
  <2>3. PICK x : x = Attempt(c, v, reply, reached)
    OBVIOUS
  <2>4. c.pc = "run" /\ Head(c.left) # "insert" /\ reached \in MayReach(reply) /\ calls' = [calls EXCEPT ![w] = x]
    BY <1>4, <2>1, <2>2, <2>3 DEF api_call
  <2>5. CallGood(c) /\ c.exec \in DOMAIN execs \cup {0}
    BY <2>1, <2>4, PcOfWorker
  <2>6. v \in c.todo
    BY <2>2, <2>4, <2>5 DEF CallGood, RunGood, AtHand
  <2>7. CallGood(x) /\ x.exec = c.exec
    BY <2>3, <2>4, <2>5, <2>6, AttemptGood
  <2>8. WorkerGood(x)
    BY <2>5, <2>7 DEF WorkerGood
  <2> QED BY <1>1, <2>1, <2>4, <2>8, WorkerStep
<1>5. ASSUME NEW w \in Worker, tool_returns(w) PROVE ExecGood'
  <2>1. calls' = [calls EXCEPT ![w] = Free] /\ calls[w].pc = "done"
    BY <1>5 DEF tool_returns
  <2> QED BY <1>1, <2>1, FreeGood, WorkerStep
<1> QED BY <1>2, <1>3, <1>4, <1>5 DEF ToolNext

\* The container's command leaves the call to SSH.
LEMMA ContainerRunGood ==
  ASSUME ExecGood, NEW w \in Worker, run_in_container(w)
  PROVE  ExecGood'
<1>1. calls' = [calls EXCEPT ![w] = Free] /\ calls[w].pc = "done" /\ UNCHANGED <<execs, exited>>
  BY DEF run_in_container, ForSsh, execVars
<1> QED BY <1>1, FreeGood, WorkerStep

\* A new call is as it must be.
LEMMA NewCallGood ==
  ASSUME NEW todo \in SUBSET Vmid, NEW plan \in Seq(Request), todo # {}, InOrder(plan), plan # <<>>,
         NEW c, c = NewCall("proxmox", todo, plan)
  PROVE  CallGood(c) /\ c.exec = 0
<1>1. PICK client : client = "proxmox"
  OBVIOUS
<1>2. client \in {"proxmox", "bmc"} /\ c = NewCall(client, todo, plan)
  BY <1>1
<1>3. /\ c \in CallRecord /\ c.pc = "run" /\ c.todo = todo /\ c.plan = plan /\ c.left = plan /\ c.exec = 0
      /\ \A u \in Vmid : c.hits[u] = 0 /\ c.answers[u] = "none"
  <2>1. IsNew(c, todo, plan)
    BY <1>2, NewCallIs
  <2> QED BY <2>1 DEF IsNew
<1>4. RunGood(c)
  BY <1>3 DEF RunGood
<1>5. \A u \in Vmid \ c.todo : ToldTrue(c, u)
  BY <1>3 DEF ToldTrue, NothingDone
<1> QED BY <1>3, <1>4, <1>5 DEF CallGood

\* What proxmox_run asks for.
LEMMA RunPlan ==
  ASSUME NEW plan, plan = <<"run", "insert">> \o _guest_argv \o <<"change">>
  PROVE  plan \in Seq(Request) /\ InOrder(plan) /\ plan # <<>>
<1>1. {"run", "insert", "hint", "change"} \subseteq Request
  BY DEF Request
<1>2. PICK a : a = <<"run", "insert">>
  OBVIOUS
<1>3. PICK b : b = <<"hint">>
  OBVIOUS
<1>4. PICK d : d = <<"change">>
  OBVIOUS
<1>5. a \in Seq(Request) /\ Len(a) = 2 /\ a[1] = "run" /\ a[2] = "insert"
  BY <1>1, <1>2
<1>6. b \in Seq(Request) /\ Len(b) = 1 /\ b[1] = "hint"
  BY <1>1, <1>3
<1>7. d \in Seq(Request) /\ Len(d) = 1 /\ d[1] = "change"
  BY <1>1, <1>4
<1>8. PICK f : f = a \o b
  OBVIOUS
<1>9. /\ f \in Seq(Request) /\ Len(f) = Len(a) + Len(b)
      /\ \A i \in 1..Len(a) : f[i] = a[i]
      /\ \A i \in 1..Len(b) : f[Len(a) + i] = b[i]
  <2>1. a \in Seq(Request) /\ b \in Seq(Request)
    BY <1>5, <1>6
  <2> QED BY <1>8, <2>1
<1>10. Len(f) = 3 /\ f[1] = "run" /\ f[2] = "insert" /\ f[3] = "hint"
  BY <1>5, <1>6, <1>9
<1>11. plan = f \o d
  BY <1>2, <1>3, <1>4, <1>8, Zenon DEF _guest_argv
<1>12. /\ plan \in Seq(Request) /\ Len(plan) = Len(f) + Len(d)
       /\ \A i \in 1..Len(f) : plan[i] = f[i]
       /\ \A i \in 1..Len(d) : plan[Len(f) + i] = d[i]
  <2>1. f \in Seq(Request) /\ d \in Seq(Request)
    BY <1>7, <1>9
  <2>2. PICK p : p = f \o d
    OBVIOUS
  <2>3. /\ p \in Seq(Request) /\ Len(p) = Len(f) + Len(d)
        /\ \A i \in 1..Len(f) : p[i] = f[i]
        /\ \A i \in 1..Len(d) : p[Len(f) + i] = d[i]
    BY <2>1, <2>2
  <2>4. p = plan
    BY <1>11, <2>2, Zenon
  <2> QED BY <2>3, <2>4, Zenon
<1>13. Len(plan) = 4 /\ plan[1] = "run" /\ plan[2] = "insert" /\ plan[3] = "hint" /\ plan[4] = "change"
  BY <1>7, <1>10, <1>12
<1> QED BY <1>12, <1>13 DEF InOrder

\* proxmox_run begins.
LEMMA RunGoodCall ==
  ASSUME ExecGood, NEW w \in Worker, NEW v \in Vmid, proxmox_run(w, v)
  PROVE  ExecGood'
<1>1. PICK plan : plan = <<"run", "insert">> \o _guest_argv \o <<"change">>
  OBVIOUS
<1>2. plan \in Seq(Request) /\ InOrder(plan) /\ plan # <<>>
  BY <1>1, RunPlan
<1>3. PICK todo : todo = {v}
  OBVIOUS
<1>4. todo \in SUBSET Vmid /\ todo # {}
  BY <1>3
<1>5. PICK c : c = NewCall("proxmox", todo, plan)
  OBVIOUS
<1>6. CallGood(c) /\ c.exec = 0
  BY <1>2, <1>4, <1>5, NewCallGood
<1>7. WorkerGood(c)
  BY <1>6 DEF WorkerGood
<1>8. calls' = [calls EXCEPT ![w] = c] /\ calls[w].pc = "free" /\ UNCHANGED <<execs, exited>>
  BY <1>1, <1>3, <1>5 DEF proxmox_run, Busy
<1> QED BY <1>7, <1>8, WorkerStep

\* A poll of a command begins.
LEMMA PollBegins ==
  ASSUME ExecGood, NEW w \in Worker, NEW e \in DOMAIN execs, _poll_session(w, e)
  PROVE  ExecGood'
<1>1. PICK pc : pc = IF execs[e].pid THEN "ask" ELSE "late"
  OBVIOUS
<1>2. PICK c : c = Polling(pc, e)
  OBVIOUS
<1>3. calls' = [calls EXCEPT ![w] = c] /\ calls[w].pc = "free" /\ UNCHANGED <<execs, exited>>
  BY <1>1, <1>2 DEF _poll_session, Busy, execVars
<1>4. WorkerGood(c)
  BY <1>1, <1>2 DEF WorkerGood, Polling
<1> QED BY <1>3, <1>4, WorkerStep

\* The agent's answer to a poll, or its error.
LEMMA StatusComes ==
  ASSUME ExecGood, NEW w \in Worker, NEW reply, exec_status(w, reply)
  PROVE  ExecGood'
<1>1. PICK pc : pc = IF SaysExited(reply) THEN "mark" ELSE "late"
  OBVIOUS
<1>2. PICK e : e = calls[w].exec
  OBVIOUS
<1>3. PICK c : c = Polling(pc, e)
  OBVIOUS
<1>4. calls[w].pc = "ask" /\ UNCHANGED <<execs, exited>> /\ (reply = "exited" => e \in exited)
  BY <1>2 DEF exec_status, execVars
<1>5. calls[w] = Polling("ask", e) /\ e \in DOMAIN execs
  BY <1>2, <1>4, PcOfWorker
<1>6. calls' = [calls EXCEPT ![w] = c]
  <2>1. [calls[w] EXCEPT !.pc = pc] = c
    BY <1>3, <1>5 DEF Polling
  <2>2. calls' = [calls EXCEPT ![w].pc = pc]
    BY <1>1 DEF exec_status
  <2> QED BY <2>1, <2>2
<1>7. WorkerGood(c)
  BY <1>1, <1>3, <1>4, <1>5 DEF WorkerGood, Polling, SaysExited
<1> QED BY <1>4, <1>6, <1>7, WorkerStep

\* One session changes, and the worker w with it: what WorkGood and
\* CompletedHasOutput ask of the rest is as it was.
LEMMA SessionStep ==
  ASSUME ExecGood, NEW w \in Worker, NEW x, WorkerGood(x), calls' = [calls EXCEPT ![w] = x],
         NEW e \in DOMAIN execs, NEW s \in ExecSession, execs' = [execs EXCEPT ![e] = s], UNCHANGED exited,
         calls[w].pc = "fill" => calls[w].exec = e,
         s.stdout # "" => e \in exited,
         s.status = "completed" =>
           /\ e \in exited
           /\ \/ s.stdout # "" \/ (x.pc = "fill" /\ x.exec = e)
              \/ execs[e].status = "completed" /\ s.stdout = execs[e].stdout /\ calls[w].pc # "fill"
  PROVE  ExecGood'
<1>1. DOMAIN calls = Worker /\ (\A u \in Worker : WorkerGood(calls[u])) /\ execs \in Seq(ExecSession)
  BY DEF ExecGood, WorkGood
<1>2. DOMAIN calls' = Worker /\ calls'[w] = x /\ \A u \in Worker : u # w => calls'[u] = calls[u]
  BY <1>1
<1>3. /\ execs' \in Seq(ExecSession) /\ DOMAIN execs' = DOMAIN execs /\ execs'[e] = s
      /\ \A d \in DOMAIN execs : d # e => execs'[d] = execs[d]
  BY <1>1, SeqExcept
<1>4. \A u \in Worker : WorkerGood(calls[u])'
  <2> SUFFICES ASSUME NEW u \in Worker PROVE WorkerGood(calls[u])'
    OBVIOUS
  <2>1. PICK y : y = calls'[u]
    OBVIOUS
  <2>2. WorkerGood(y)
    BY <1>1, <1>2, <2>1
  <2>3. WorkerGood(y)'
    BY <1>3, <2>2, WorkerKeeps
  <2> QED BY <2>1, <2>3
<1>5. CompletedHasOutput'
  <2> SUFFICES ASSUME NEW d \in DOMAIN execs'
               PROVE  /\ execs'[d].stdout # "" => d \in exited'
                      /\ execs'[d].status = "completed" =>
                           /\ d \in exited'
                           /\ execs'[d].stdout # "" \/ \E u \in Worker : calls'[u].pc = "fill" /\ calls'[u].exec = d
    BY DEF CompletedHasOutput
  <2>1. /\ execs[d].stdout # "" => d \in exited
        /\ execs[d].status = "completed" =>
             /\ d \in exited
             /\ execs[d].stdout # "" \/ \E u \in Worker : calls[u].pc = "fill" /\ calls[u].exec = d
    BY <1>3 DEF ExecGood, CompletedHasOutput
  <2>2. ASSUME NEW u \in Worker, calls[u].pc = "fill", calls[u].exec = d, d # e \/ calls[w].pc # "fill"
        PROVE  calls'[u].pc = "fill" /\ calls'[u].exec = d
    BY <1>2, <2>2
  <2>3. CASE d # e
    BY <1>3, <2>1, <2>2, <2>3
  <2>4. CASE d = e
    BY <1>2, <1>3, <2>1, <2>2, <2>4
  <2> QED BY <2>3, <2>4
<1> QED BY <1>2, <1>3, <1>4, <1>5 DEF ExecGood, WorkGood

\* A session with a field replaced.
LEMMA SessionIs ==
  ASSUME ExecGood, NEW e \in DOMAIN execs
  PROVE  execs[e] \in ExecSession
<1>1. execs \in Seq(ExecSession)
  BY DEF ExecGood
<1> QED BY <1>1, ElementOfSeq

\* The agent has started the command of a session.
LEMMA SessionStarted ==
  ASSUME ExecGood, NEW w \in Worker, exec_started(w)
  PROVE  ExecGood'
<1>1. PICK e : e = calls[w].exec
  OBVIOUS
<1>2. PICK ok \in BOOLEAN : ok = (\A v \in Vmid : calls[w].answers[v] \in {"none", "ok"})
  BY Zenon
<1>3. /\ calls[w].pc = "done" /\ e # 0 /\ calls' = [calls EXCEPT ![w] = Free] /\ UNCHANGED exited
      /\ execs' = [execs EXCEPT ![e].pid = ok, ![e].status = IF ok THEN @ ELSE "failed"]
  BY <1>1, <1>2, Zenon DEF exec_started
<1>4. e \in DOMAIN execs
  BY <1>1, <1>3, PcOfWorker
<1>5. execs[e] \in ExecSession
  BY <1>4, SessionIs
<1>6. PICK st : st = IF ok THEN execs[e].status ELSE "failed"
  OBVIOUS
<1>7. PICK s : s = [execs[e] EXCEPT !.pid = ok, !.status = st]
  OBVIOUS
<1>8. execs' = [execs EXCEPT ![e] = s]
  BY <1>3, <1>4, <1>5, <1>6, <1>7 DEF ExecSession
<1>9. s \in ExecSession /\ s.stdout = execs[e].stdout /\ (s.status = "completed" => execs[e].status = "completed")
  BY <1>5, <1>6, <1>7 DEF ExecSession
<1>10. /\ execs[e].stdout # "" => e \in exited
       /\ execs[e].status = "completed" => e \in exited
  BY <1>4 DEF ExecGood, CompletedHasOutput
<1>11. PICK x : x = Free
  OBVIOUS
<1>12. WorkerGood(x) /\ calls' = [calls EXCEPT ![w] = x]
  BY <1>3, <1>11, FreeGood
<1>13. calls[w].pc # "fill" /\ (s.stdout # "" => e \in exited)
  BY <1>3, <1>9, <1>10
<1>14. s.status = "completed" =>
         /\ e \in exited
         /\ \/ s.stdout # "" \/ (x.pc = "fill" /\ x.exec = e)
            \/ execs[e].status = "completed" /\ s.stdout = execs[e].stdout /\ calls[w].pc # "fill"
  BY <1>9, <1>10, <1>13
<1>15. s \in ExecSession /\ UNCHANGED exited
  BY <1>3, <1>9
<1> QED BY <1>4, <1>8, <1>12, <1>13, <1>14, <1>15, SessionStep

\* A poll marks its session as completed.
LEMMA PollMarks ==
  ASSUME ExecGood, NEW w \in Worker, poll_completes(w)
  PROVE  ExecGood'
<1>1. PICK e : e = calls[w].exec
  OBVIOUS
<1>2. /\ calls[w].pc = "mark" /\ calls' = [calls EXCEPT ![w].pc = "fill"] /\ UNCHANGED exited
      /\ execs' = [execs EXCEPT ![e].status = "completed"]
  BY <1>1 DEF poll_completes
<1>3. calls[w] = Polling("mark", e) /\ e \in DOMAIN execs /\ e \in exited
  BY <1>1, <1>2, PcOfWorker
<1>4. PICK c : c = Polling("fill", e)
  OBVIOUS
<1>5. calls' = [calls EXCEPT ![w] = c]
  <2>1. [calls[w] EXCEPT !.pc = "fill"] = c
    BY <1>3, <1>4 DEF Polling
  <2> QED BY <1>2, <2>1
<1>6. WorkerGood(c) /\ c.pc = "fill" /\ c.exec = e
  BY <1>3, <1>4 DEF WorkerGood, Polling
<1>7. execs[e] \in ExecSession
  BY <1>3, SessionIs
<1>8. PICK s : s = [execs[e] EXCEPT !.status = "completed"]
  OBVIOUS
<1>9. execs' = [execs EXCEPT ![e] = s]
  BY <1>2, <1>8
<1>10. s \in ExecSession
  BY <1>7, <1>8 DEF ExecSession
<1>11. calls[w].pc # "fill" /\ UNCHANGED exited
  BY <1>2
<1> QED BY <1>3, <1>5, <1>6, <1>9, <1>10, <1>11, SessionStep

\* A poll fills in the output.
LEMMA PollFills ==
  ASSUME ExecGood, NEW w \in Worker, poll_fills(w)
  PROVE  ExecGood'
<1>1. PICK e : e = calls[w].exec
  OBVIOUS
<1>2. /\ calls[w].pc = "fill" /\ calls' = [calls EXCEPT ![w].pc = "late"] /\ UNCHANGED exited
      /\ execs' = [execs EXCEPT ![e].stdout = "output"]
  BY <1>1 DEF poll_fills
<1>3. calls[w] = Polling("fill", e) /\ e \in DOMAIN execs /\ e \in exited
  BY <1>1, <1>2, PcOfWorker
<1>4. PICK c : c = Polling("late", e)
  OBVIOUS
<1>5. calls' = [calls EXCEPT ![w] = c]
  <2>1. [calls[w] EXCEPT !.pc = "late"] = c
    BY <1>3, <1>4 DEF Polling
  <2> QED BY <1>2, <2>1
<1>6. WorkerGood(c)
  BY <1>3, <1>4 DEF WorkerGood, Polling
<1>7. execs[e] \in ExecSession
  BY <1>3, SessionIs
<1>8. PICK s : s = [execs[e] EXCEPT !.stdout = "output"]
  OBVIOUS
<1>9. execs' = [execs EXCEPT ![e] = s]
  BY <1>2, <1>8
<1>10. s \in ExecSession /\ s.stdout = "output" /\ "output" # ""
  BY <1>7, <1>8 DEF ExecSession
<1>11. calls[w].exec = e /\ UNCHANGED exited
  BY <1>1, <1>2
<1> QED BY <1>3, <1>5, <1>6, <1>9, <1>10, <1>11, SessionStep

\* A poll ends.
LEMMA PollEnds ==
  ASSUME ExecGood, NEW w \in Worker, poll_ends(w)
  PROVE  ExecGood'
<1>1. PICK e : e = calls[w].exec
  OBVIOUS
<1>2. PICK st : st = IF execs[e].age = "young" THEN execs[e].status ELSE "timeout"
  OBVIOUS
<1>3. /\ calls[w].pc = "late" /\ calls' = [calls EXCEPT ![w] = Free] /\ UNCHANGED exited
      /\ execs' = [execs EXCEPT ![e].status = st]
  BY <1>1, <1>2 DEF poll_ends
<1>4. e \in DOMAIN execs
  BY <1>1, <1>3, PcOfWorker
<1>5. execs[e] \in ExecSession
  BY <1>4, SessionIs
<1>6. PICK s : s = [execs[e] EXCEPT !.status = st]
  OBVIOUS
<1>7. execs' = [execs EXCEPT ![e] = s]
  BY <1>3, <1>6
<1>8. s \in ExecSession /\ s.stdout = execs[e].stdout /\ (s.status = "completed" => execs[e].status = "completed")
  BY <1>2, <1>5, <1>6 DEF ExecSession
<1>9. /\ execs[e].stdout # "" => e \in exited
      /\ execs[e].status = "completed" => e \in exited
  BY <1>4 DEF ExecGood, CompletedHasOutput
<1>10. PICK x : x = Free
  OBVIOUS
<1>11. WorkerGood(x) /\ calls' = [calls EXCEPT ![w] = x]
  BY <1>3, <1>10, FreeGood
<1>12. calls[w].pc # "fill" /\ (s.stdout # "" => e \in exited)
  BY <1>3, <1>8, <1>9
<1>13. s.status = "completed" =>
         /\ e \in exited
         /\ \/ s.stdout # "" \/ (x.pc = "fill" /\ x.exec = e)
            \/ execs[e].status = "completed" /\ s.stdout = execs[e].stdout /\ calls[w].pc # "fill"
  BY <1>8, <1>9, <1>12
<1>14. s \in ExecSession /\ UNCHANGED exited
  BY <1>3, <1>8
<1> QED BY <1>4, <1>7, <1>11, <1>12, <1>13, <1>14, SessionStep

\* The list of sessions with one more.
LEMMA SessionAppend ==
  ASSUME NEW ss \in Seq(ExecSession), NEW x \in ExecSession
  PROVE  /\ Append(ss, x) \in Seq(ExecSession) /\ Len(Append(ss, x)) = Len(ss) + 1
         /\ Append(ss, x)[Len(ss) + 1] = x
         /\ \A j \in 1..Len(ss) : Append(ss, x)[j] = ss[j]
OBVIOUS

\* A session is opened for a call.
LEMMA SessionBegins ==
  ASSUME ExecGood, NEW w \in Worker, _start_async_qemu(w)
  PROVE  ExecGood'
<1>1. PICK e : e = Len(execs) + 1
  OBVIOUS
<1>2. PICK s : s = [status |-> "running", stdout |-> "", pid |-> FALSE, age |-> "young", known |-> TRUE]
  OBVIOUS
<1>3. PICK pr : pr = _prune_exec_sessions
  OBVIOUS
<1>4. PICK c : c = calls[w]
  OBVIOUS
<1>5. PICK x : x = [c EXCEPT !.left = Tail(c.left), !.exec = e]
  OBVIOUS
<1>6. /\ c.pc = "run" /\ Head(c.left) = "insert" /\ execs' = Append(pr, s) /\ UNCHANGED exited
      /\ calls' = [calls EXCEPT ![w].left = Tail(@), ![w].exec = e]
  BY <1>1, <1>2, <1>3, <1>4 DEF _start_async_qemu
<1>7. DOMAIN calls = Worker /\ (\A u \in Worker : WorkerGood(calls[u])) /\ execs \in Seq(ExecSession)
  BY DEF ExecGood, WorkGood
<1>8. calls' = [calls EXCEPT ![w] = x]
  BY <1>4, <1>5, <1>6
<1>9. /\ pr \in Seq(ExecSession) /\ Len(pr) = Len(execs) /\ DOMAIN pr = DOMAIN execs
      /\ \A d \in DOMAIN execs : pr[d].status = execs[d].status /\ pr[d].stdout = execs[d].stdout
  <2>1. DOMAIN pr = 1..Len(execs) /\ Len(execs) \in Nat /\ DOMAIN execs = 1..Len(execs)
    BY <1>3, <1>7 DEF _prune_exec_sessions
  <2>2. ASSUME NEW d \in DOMAIN execs
        PROVE  pr[d] \in ExecSession /\ pr[d].status = execs[d].status /\ pr[d].stdout = execs[d].stdout
    <3>1. execs[d] \in ExecSession
      BY SessionIs
    <3>2. PICK k \in BOOLEAN : k = (execs[d].known /\ ~ (Finished(d) /\ execs[d].age = "stale"))
      BY Zenon
    <3>3. pr[d] = [execs[d] EXCEPT !.known = k]
      BY <1>3, <3>2, Zenon DEF _prune_exec_sessions
    <3> QED BY <3>1, <3>3 DEF ExecSession
  <2>3. pr = [d \in 1..Len(execs) |-> pr[d]]
    BY <1>3, <2>1 DEF _prune_exec_sessions
  <2> QED BY <2>1, <2>2, <2>3
<1>10. s \in ExecSession /\ s.status = "running" /\ s.stdout = ""
  BY <1>2 DEF ExecSession
<1>11. /\ execs' \in Seq(ExecSession) /\ DOMAIN execs' = DOMAIN execs \cup {e} /\ execs'[e] = s /\ e \in Count
       /\ \A d \in DOMAIN execs : execs'[d] = pr[d]
  <2>1. /\ execs' \in Seq(ExecSession) /\ Len(execs') = Len(execs) + 1 /\ execs'[e] = s
        /\ \A d \in 1..Len(pr) : execs'[d] = pr[d]
    <3>1. PICK t : t = Append(pr, s)
      OBVIOUS
    <3>2. t \in Seq(ExecSession) /\ Len(t) = Len(pr) + 1 /\ t[Len(pr) + 1] = s /\ \A d \in 1..Len(pr) : t[d] = pr[d]
      BY <1>9, <1>10, <3>1, SessionAppend
    <3> QED BY <1>1, <1>6, <1>9, <3>1, <3>2
  <2>2. /\ DOMAIN execs' = 1..(Len(execs) + 1) /\ DOMAIN execs = 1..Len(execs) /\ Len(execs) \in Nat
        /\ DOMAIN pr = 1..Len(pr)
    BY <1>7, <1>9, <2>1
  <2>3. 1..(Len(execs) + 1) = 1..Len(execs) \cup {e} /\ e \in Count
    BY <1>1, <2>2 DEF Count
  <2> QED BY <1>9, <2>1, <2>2, <2>3
<1>12. CallGood(c) /\ c.exec \in DOMAIN execs \cup {0}
  BY <1>4, <1>6, PcOfWorker
<1>13. CallGood(x) /\ x.exec = e
  <2>1. /\ c \in CallRecord /\ RunGood(c) /\ c.left \in Seq(Request) /\ c.left # <<>> /\ InOrder(c.left) /\ c.todo # {}
    BY <1>6, <1>12 DEF CallGood, RunGood, CallRecord
  <2>2. PICK v : v \in c.todo
    BY <2>1
  <2>3. Midway(c, v) /\ c.hits[v] = 0
    BY <1>6, <1>12, <2>1, <2>2 DEF CallGood, Midway
  <2>4. PICK tl : tl = Tail(c.left)
    OBVIOUS
  <2>5. tl \in Seq(Request) /\ InOrder(tl) /\ tl # <<>> /\ LastOf(tl) = LastOf(c.left)
    BY <1>6, <2>1, <2>4, TailIs
  <2>6. PICK d : d = [c EXCEPT !.left = tl]
    OBVIOUS
  <2>7. d \in CallRecord /\ x = [d EXCEPT !.exec = e]
    BY <1>5, <2>1, <2>4, <2>5, <2>6, CallField
  <2>8. x \in CallRecord
    BY <1>11, <2>7, CallField
  <2>9. /\ x.pc = c.pc /\ x.todo = c.todo /\ x.plan = c.plan /\ x.hits = c.hits /\ x.answers = c.answers
        /\ x.left = tl /\ x.exec = e
    BY <1>5, <2>1, <2>4 DEF CallRecord
  <2> QED BY <2>1, <2>3, <2>5, <2>8, <2>9, GoesOn DEF RunGood
<1>14. \A u \in Worker : WorkerGood(calls[u])'
  <2> SUFFICES ASSUME NEW u \in Worker PROVE WorkerGood(calls[u])'
    OBVIOUS
  <2>1. PICK y : y = calls'[u]
    OBVIOUS
  <2>2. CASE u = w
    <3>1. y = x
      BY <1>7, <1>8, <2>1, <2>2
    <3> QED BY <1>11, <1>13, <2>1, <3>1 DEF WorkerGood
  <2>3. CASE u # w
    <3>1. WorkerGood(y)
      BY <1>7, <1>8, <2>1, <2>3
    <3>2. WorkerGood(y)'
      BY <1>6, <1>11, <3>1, WorkerKeeps
    <3> QED BY <2>1, <3>2
  <2> QED BY <2>2, <2>3
<1>15. CompletedHasOutput'
  <2> SUFFICES ASSUME NEW d \in DOMAIN execs'
               PROVE  /\ execs'[d].stdout # "" => d \in exited'
                      /\ execs'[d].status = "completed" =>
                           /\ d \in exited'
                           /\ execs'[d].stdout # "" \/ \E u \in Worker : calls'[u].pc = "fill" /\ calls'[u].exec = d
    BY DEF CompletedHasOutput
  <2>1. CASE d = e
    <3>1. execs'[d].stdout = "" /\ execs'[d].status = "running"
      BY <1>10, <1>11, <2>1
    <3> QED BY <3>1
  <2>2. CASE d \in DOMAIN execs
    <3>1. execs'[d].stdout = execs[d].stdout /\ execs'[d].status = execs[d].status
      BY <1>9, <1>11, <2>2
    <3>2. /\ execs[d].stdout # "" => d \in exited
          /\ execs[d].status = "completed" =>
               /\ d \in exited
               /\ execs[d].stdout # "" \/ \E u \in Worker : calls[u].pc = "fill" /\ calls[u].exec = d
      BY <2>2 DEF ExecGood, CompletedHasOutput
    <3>3. ASSUME NEW u \in Worker, calls[u].pc = "fill", calls[u].exec = d
          PROVE  calls'[u].pc = "fill" /\ calls'[u].exec = d
      BY <1>4, <1>6, <1>7, <1>8, <3>3
    <3> QED BY <1>6, <3>1, <3>2, <3>3
  <2> QED BY <1>11, <2>1, <2>2
<1>16. DOMAIN calls' = Worker
  BY <1>7, <1>8
<1> QED BY <1>11, <1>14, <1>15, <1>16 DEF ExecGood, WorkGood

\* The guest's side: a command exits, a session ages.
LEMMA GuestSteps ==
  ASSUME ExecGood, NEW e \in DOMAIN execs, guest_exits(e) \/ ages(e)
  PROVE  ExecGood'
<1>1. UNCHANGED calls
  BY DEF guest_exits, ages, toolVars
<1>2. CASE guest_exits(e)
  <2>1. exited \subseteq exited' /\ UNCHANGED execs
    BY <1>2 DEF guest_exits
  <2>2. \A u \in Worker : WorkerGood(calls[u])'
    <3> SUFFICES ASSUME NEW u \in Worker PROVE WorkerGood(calls[u])'
      OBVIOUS
    <3>1. PICK y : y = calls[u]
      OBVIOUS
    <3>2. WorkerGood(y)
      BY <3>1 DEF ExecGood, WorkGood
    <3>3. WorkerGood(y)'
      BY <2>1, <3>2, WorkerKeeps
    <3> QED BY <1>1, <3>1, <3>3
  <2>3. CompletedHasOutput'
    BY <1>1, <2>1 DEF ExecGood, CompletedHasOutput
  <2> QED BY <1>1, <2>1, <2>2, <2>3 DEF ExecGood, WorkGood
<1>3. CASE ages(e)
  <2>1. PICK a : a = IF execs[e].age = "young" THEN "old" ELSE "stale"
    OBVIOUS
  <2>2. PICK s : s = [execs[e] EXCEPT !.age = a]
    OBVIOUS
  <2>3. execs' = [execs EXCEPT ![e] = s] /\ UNCHANGED exited
    BY <1>3, <2>1, <2>2 DEF ages
  <2>4. execs[e] \in ExecSession
    BY SessionIs
  <2>5. s \in ExecSession /\ s.stdout = execs[e].stdout /\ s.status = execs[e].status
    BY <2>1, <2>2, <2>4 DEF ExecSession
  <2>6. execs \in Seq(ExecSession)
    BY DEF ExecGood
  <2>7. /\ execs' \in Seq(ExecSession) /\ DOMAIN execs' = DOMAIN execs
        /\ \A d \in DOMAIN execs : execs'[d].stdout = execs[d].stdout /\ execs'[d].status = execs[d].status
    BY <2>3, <2>5, <2>6
  <2>8. \A u \in Worker : WorkerGood(calls[u])'
    <3> SUFFICES ASSUME NEW u \in Worker PROVE WorkerGood(calls[u])'
      OBVIOUS
    <3>1. PICK y : y = calls[u]
      OBVIOUS
    <3>2. WorkerGood(y)
      BY <3>1 DEF ExecGood, WorkGood
    <3>3. WorkerGood(y)'
      BY <2>3, <2>7, <3>2, WorkerKeeps
    <3> QED BY <1>1, <3>1, <3>3
  <2>9. CompletedHasOutput'
    <3> SUFFICES ASSUME NEW d \in DOMAIN execs'
                 PROVE  /\ execs'[d].stdout # "" => d \in exited'
                        /\ execs'[d].status = "completed" =>
                             /\ d \in exited'
                             /\ execs'[d].stdout # "" \/ \E u \in Worker : calls'[u].pc = "fill" /\ calls'[u].exec = d
      BY DEF CompletedHasOutput
    <3>1. /\ execs[d].stdout # "" => d \in exited
          /\ execs[d].status = "completed" =>
               /\ d \in exited
               /\ execs[d].stdout # "" \/ \E u \in Worker : calls[u].pc = "fill" /\ calls[u].exec = d
      BY <2>7 DEF ExecGood, CompletedHasOutput
    <3>2. execs'[d].stdout = execs[d].stdout /\ execs'[d].status = execs[d].status
      BY <2>7
    <3> QED BY <1>1, <2>3, <3>1, <3>2
  <2> QED BY <1>1, <2>7, <2>8, <2>9 DEF ExecGood, WorkGood
<1> QED BY <1>2, <1>3

\* Every step of a command in a guest keeps the invariant,
LEMMA ExecStepsGood ==
  ASSUME ExecGood, ExecNext
  PROVE  ExecGood'
BY RunGoodCall, SessionBegins, SessionStarted, PollBegins, StatusComes, PollMarks, PollFills, PollEnds, GuestSteps
   DEF ExecNext

\* and so does a step that leaves calls and commands alone.
LEMMA ExecStutter ==
  ASSUME ExecGood, UNCHANGED <<calls, execs, exited>>
  PROVE  ExecGood'
<1>1. \A u \in Worker : WorkerGood(calls[u])'
  <2> SUFFICES ASSUME NEW u \in Worker PROVE WorkerGood(calls[u])'
    OBVIOUS
  <2>1. PICK y : y = calls[u]
    OBVIOUS
  <2>2. WorkerGood(y)
    BY <2>1 DEF ExecGood, WorkGood
  <2>3. WorkerGood(y)'
    BY <2>2, WorkerKeeps
  <2> QED BY <2>1, <2>3
<1> QED BY <1>1 DEF ExecGood, WorkGood, CompletedHasOutput

\* The invariant holds before the first call,
LEMMA ExecInitially ==
  ASSUME ToolInit, ExecInit
  PROVE  ExecGood
<1>1. \A w \in Worker : WorkerGood(calls[w])
  BY FreeGood DEF ToolInit
<1> QED BY <1>1 DEF ToolInit, ExecInit, ExecGood, WorkGood, CompletedHasOutput

\* and it implies the properties of calls and of commands.
LEMMA ExecGoodHolds ==
  ASSUME ExecGood
  PROVE  AppliedOnce /\ CompletedHasOutput
<1>1. AppliedOnce
  <2> SUFFICES ASSUME NEW w \in Worker, Calling(w), NEW v \in Vmid
               PROVE  /\ calls[w].hits[v] <= 1
                      /\ calls[w].answers[v] \in NothingDone => calls[w].hits[v] = 0
                      /\ calls[w].answers[v] = "ok" /\ calls[w].plan[Len(calls[w].plan)] = "change" =>
                           calls[w].hits[v] = 1
    BY DEF AppliedOnce
  <2>1. PICK c : c = calls[w]
    OBVIOUS
  <2>2. CallGood(c)
    BY <2>1, PcOfWorker DEF Calling
  <2>3. c.hits[v] \in 0..1
    BY <2>2 DEF CallGood, CallRecord
  <2>4. CASE v \in c.todo
    <3>1. c.hits[v] = 0 /\ c.answers[v] = "none"
      BY <2>2, <2>4 DEF CallGood
    <3> QED BY <2>1, <3>1
  <2>5. CASE v \notin c.todo
    <3>1. ToldTrue(c, v)
      BY <2>2, <2>5 DEF CallGood
    <3> QED BY <2>1, <2>3, <3>1 DEF ToldTrue, LastOf
  <2> QED BY <2>4, <2>5
<1> QED BY <1>1 DEF ExecGood
-----------------------------------------------------------------------------
(* Transfers.                                                              *)

\* Where a push and a download can be, where a transfer has a copy on the node,
\* and where a download has begun its part of the staged file.
PushPlace     == {"pending", "fetch", "receive", "check", "hash", "put", "push", "write", "clean", "verify"}
DownloadPlace == {"look", "pull", "get", "getting", "undo", "tidy", "sum", "replace"}
OnNode        == {"push", "write", "clean", "get", "getting", "undo", "tidy"}
PartPlace     == {"getting", "undo", "tidy", "sum", "replace"}
TransferField == {"op", "guest", "verify", "pc", "sha", "data", "failed", "left", "open"}

\* What transfer n is while it is under way.
PlaceGood(n, t) ==
  /\ DOMAIN t = TransferField
  /\ t.op \in {"link", "fetch", "upload", "download"} /\ t.guest \in Guest
  /\ t.pc \in PushPlace \cup DownloadPlace
  /\ (t.pc \in DownloadPlace) <=> (t.op = "download")
  /\ t.pc \in {"pending", "fetch", "receive"} => t.op \in {"link", "fetch"}
  /\ t.left => t.pc \in {"verify", "sum", "replace"}
  /\ t.pc \in {"push", "clean", "pull", "tidy"} => t.guest = "lxc"
  /\ t.op \in {"link", "fetch"} /\ (t.pc = "verify" \/ (t.verify /\ t.pc \in {"put", "push", "write", "clean"})) =>
       t.sha = n
  /\ t.op = "download" /\ t.sha # 0 => t.verify

\* The staged files are a transfer's own from the moment a body is received.
HasOwn(t)   == t.pc \in PushPlace \ {"pending", "fetch"} /\ t.op \in {"link", "fetch"}
NodeKept(t) == t.left \/ (t.pc \in OnNode /\ t.guest = "lxc")

VerifiedGood(n, t) ==
  t.pc = "done" /\ t.result = "verified" =>
    /\ t.op \in {"link", "fetch", "upload", "download"}
    /\ t.op \in {"link", "fetch"} => t.got = n
    /\ t.op = "upload" => t.got = t.sha
    /\ t.op = "download" => raced \/ t.got = t.sha

StagedGood(n) ==
  /\ staged[Own(n)] \in {0, n}
  /\ (n \in DOMAIN transfers /\ HasOwn(transfers[n])) \/ (staged[Own(n)] = 0 /\ staged[OwnPart(n)] = 0)

NodeTmpGood(n) == nodeTmp[n] # 0 => n \in DOMAIN transfers /\ NodeKept(transfers[n])

\* Until two downloads overlap, one at most is between its first byte and its
\* rename, and what it has hashed is what it renames, if it is still there.
OneInPart == \A m, n \in DOMAIN transfers : transfers[m].pc \in PartPlace /\ transfers[n].pc \in PartPlace => m = n
HashedIsThere(t) == t.pc = "replace" /\ t.verify => staged[PlainPart] = 0 \/ staged[PlainPart] = t.data

TransferGood ==
  /\ IsSeq(transfers) /\ Len(transfers) <= MaxTransfer
  /\ DOMAIN staged = Path /\ DOMAIN nodeTmp = 1..MaxTransfer
  /\ \A n \in DOMAIN transfers :
       (transfers[n].pc # "done" => PlaceGood(n, transfers[n])) /\ VerifiedGood(n, transfers[n])
  /\ \A n \in 1..MaxTransfer : StagedGood(n) /\ NodeTmpGood(n)
  /\ raced \/ (OneInPart /\ \A n \in DOMAIN transfers : HashedIsThere(transfers[n]))

\* Two states of a transfer that differ at most in where its open file is.
Alike(s, t) == s = t \/ (s.pc = "getting" /\ DOMAIN s = TransferField /\ \E o : t = [s EXCEPT !.open = o])

\* A step of transfer n leaves the other transfers and their files alone, except
\* that it may remove the file that one of them has open,
OneMoves(n) ==
  /\ IsSeq(transfers') /\ DOMAIN transfers' = DOMAIN transfers
  /\ \A m \in DOMAIN transfers : m # n => Alike(transfers[m], transfers'[m])
  /\ DOMAIN staged' = Path /\ DOMAIN nodeTmp' = 1..MaxTransfer
  /\ \A m \in 1..MaxTransfer : m # n =>
       /\ nodeTmp'[m] = nodeTmp[m]
       /\ staged'[Own(m)] = staged[Own(m)] /\ staged'[OwnPart(m)] = staged[OwnPart(m)]
  /\ raced => raced'

\* leaves its own as they must be,
MoverGood(n) ==
  /\ transfers'[n].pc # "done" => PlaceGood(n, transfers'[n])
  /\ VerifiedGood(n, transfers[n])'
  /\ staged'[Own(n)] \in {0, n}
  /\ HasOwn(transfers'[n]) \/ (staged'[Own(n)] = 0 /\ staged'[OwnPart(n)] = 0)
  /\ nodeTmp'[n] # 0 => NodeKept(transfers'[n])

\* and disturbs no other download to the same name without being noticed.
Alone(n) == \A m \in DOMAIN transfers : m # n => transfers[m].pc \notin PartPlace
PartGood(n) ==
  \/ raced'
  \/ /\ transfers'[n].pc \in PartPlace => transfers[n].pc \in PartPlace \/ Alone(n)
     /\ staged'[PlainPart] \in {0, staged[PlainPart]} \/ transfers[n].pc \in PartPlace \/ Alone(n)
     /\ HashedIsThere(transfers[n])'

\* The bound on the transfers is a number.
LEMMA TransferBounds == MaxTransfer \in Nat
BY TransfersAssumption

\* The names of the staged files of a transfer, and the shared ones.
LEMMA PathFacts ==
  ASSUME NEW n \in 1..MaxTransfer
  PROVE  /\ Own(n) \in Path /\ OwnPart(n) \in Path /\ Plain \in Path /\ PlainPart \in Path
         /\ Own(n) # OwnPart(n) /\ Plain # PlainPart
         /\ Own(n) # Plain /\ OwnPart(n) # Plain /\ Own(n) # PlainPart /\ OwnPart(n) # PlainPart
BY TransferBounds DEF Path, Own, OwnPart, Plain, PlainPart

\* Two transfers have no staged file in common.
LEMMA PathsDiffer ==
  ASSUME NEW n \in 1..MaxTransfer, NEW m \in 1..MaxTransfer, m # n
  PROVE  /\ Own(m) # Own(n) /\ Own(m) # OwnPart(n)
         /\ OwnPart(m) # OwnPart(n) /\ OwnPart(m) # Own(n)
BY DEF Own, OwnPart

\* The number of a transfer is within the bound.
LEMMA TransferNumbers ==
  ASSUME TransferGood, NEW n \in DOMAIN transfers
  PROVE  n \in 1..MaxTransfer
<1>1. Len(transfers) \in Nat /\ DOMAIN transfers = 1..Len(transfers)
  BY IsSeqIs DEF TransferGood
<1>2. Len(transfers) <= MaxTransfer
  BY DEF TransferGood
<1> QED BY <1>1, <1>2, TransferBounds

\* What holds of a transfer whose open file is moved.
LEMMA AlikeKeeps ==
  ASSUME NEW n, NEW s, NEW t, Alike(s, t), s.pc # "done" => PlaceGood(n, s)
  PROVE  /\ t.pc = s.pc /\ (s.pc = "done" => t = s)
         /\ t.pc # "done" => PlaceGood(n, t)
         /\ HasOwn(s) => HasOwn(t)
         /\ NodeKept(s) => NodeKept(t)
<1>1. CASE s = t
  BY <1>1
<1>2. CASE s # t
  <2>1. PICK o : t = [s EXCEPT !.open = o]
    BY <1>2 DEF Alike
  <2>2. s.pc = "getting" /\ DOMAIN s = TransferField
    BY <1>2 DEF Alike
  <2>3. /\ DOMAIN t = TransferField /\ t.op = s.op /\ t.guest = s.guest /\ t.verify = s.verify /\ t.pc = s.pc
        /\ t.sha = s.sha /\ t.left = s.left
    BY <2>1, <2>2 DEF TransferField
  <2>4. PlaceGood(n, s) /\ s.pc # "done"
    BY <2>2
  <2>5. PlaceGood(n, t)
    BY <2>3, <2>4 DEF PlaceGood
  <2> QED BY <2>2, <2>3, <2>4, <2>5 DEF HasOwn, NodeKept
<1> QED BY <1>1, <1>2

\* The frame of every step: what one transfer does to its own is all that has to be looked at.
LEMMA OneMovesGood ==
  ASSUME TransferGood, NEW n \in DOMAIN transfers, OneMoves(n), MoverGood(n), PartGood(n)
  PROVE  TransferGood'
<1>0. Len(transfers) \in Nat /\ DOMAIN transfers = 1..Len(transfers) /\ n \in 1..MaxTransfer
  BY IsSeqIs, TransferNumbers DEF TransferGood
<1>1. PICK ts : ts = transfers'
  OBVIOUS
<1>2. IsSeq(ts) /\ DOMAIN ts = DOMAIN transfers
  BY <1>1 DEF OneMoves
<1>3. Len(ts) \in Nat /\ DOMAIN ts = 1..Len(ts)
  BY <1>2, IsSeqIs
<1>4. Len(ts) = Len(transfers)
  BY <1>0, <1>2, <1>3
<1>5. IsSeq(transfers)' /\ Len(transfers') <= MaxTransfer
  BY <1>1, <1>2, <1>4 DEF TransferGood, IsSeq
<1>6. DOMAIN staged' = Path /\ DOMAIN nodeTmp' = 1..MaxTransfer
  BY DEF OneMoves
<1>7. ASSUME NEW m \in DOMAIN transfers, m # n
      PROVE  /\ ts[m].pc = transfers[m].pc /\ (ts[m].pc = "done" => ts[m] = transfers[m])
             /\ ts[m].pc # "done" => PlaceGood(m, ts[m])
             /\ HasOwn(transfers[m]) => HasOwn(ts[m])
             /\ NodeKept(transfers[m]) => NodeKept(ts[m])
  <2>1. Alike(transfers[m], ts[m])
    BY <1>1, <1>7 DEF OneMoves
  <2>2. transfers[m].pc # "done" => PlaceGood(m, transfers[m])
    BY DEF TransferGood
  <2>3. PICK s : s = transfers[m]
    OBVIOUS
  <2>4. PICK t : t = ts[m]
    OBVIOUS
  <2> QED BY <2>1, <2>2, <2>3, <2>4, AlikeKeeps
<1>8. ASSUME NEW m \in DOMAIN transfers'
      PROVE  (transfers'[m].pc # "done" => PlaceGood(m, transfers'[m])) /\ VerifiedGood(m, transfers[m])'
  <2>1. m \in DOMAIN transfers
    BY <1>1, <1>2, <1>8
  <2>2. CASE m = n
    BY <2>2 DEF MoverGood
  <2>3. CASE m # n
    <3>1. transfers'[m].pc # "done" => PlaceGood(m, transfers'[m])
      BY <2>1, <2>3, <1>7, <1>1
    <3>2. transfers'[m].pc = "done" => transfers'[m] = transfers[m]
      BY <2>1, <2>3, <1>7, <1>1
    <3>3. VerifiedGood(m, transfers[m]) /\ (raced => raced')
      BY <2>1 DEF TransferGood, OneMoves
    <3>4. VerifiedGood(m, transfers[m])'
      BY <3>2, <3>3 DEF VerifiedGood
    <3> QED BY <3>1, <3>4
  <2> QED BY <2>2, <2>3
<1>9. ASSUME NEW m \in 1..MaxTransfer
      PROVE  StagedGood(m)' /\ NodeTmpGood(m)'
  <2>0. StagedGood(m) /\ NodeTmpGood(m)
    BY DEF TransferGood
  <2>1. CASE m = n
    BY <2>1, <1>1, <1>2 DEF MoverGood, StagedGood, NodeTmpGood
  <2>2. CASE m # n
    <3>1. /\ nodeTmp'[m] = nodeTmp[m]
          /\ staged'[Own(m)] = staged[Own(m)] /\ staged'[OwnPart(m)] = staged[OwnPart(m)]
      BY <2>2 DEF OneMoves
    <3>2. /\ m \in DOMAIN transfers /\ HasOwn(transfers[m]) => m \in DOMAIN ts /\ HasOwn(ts[m])
          /\ m \in DOMAIN transfers /\ NodeKept(transfers[m]) => m \in DOMAIN ts /\ NodeKept(ts[m])
      BY <2>2, <1>2, <1>7
    <3>3. StagedGood(m)'
      BY <2>0, <3>1, <3>2, <1>1 DEF StagedGood
    <3>4. NodeTmpGood(m)'
      BY <2>0, <3>1, <3>2, <1>1 DEF NodeTmpGood
    <3> QED BY <3>3, <3>4
  <2> QED BY <2>1, <2>2
<1>10. ASSUME ~ raced'
       PROVE  OneInPart' /\ \A m \in DOMAIN transfers' : HashedIsThere(transfers[m])'
  <2>1. ~ raced /\ OneInPart /\ \A m \in DOMAIN transfers : HashedIsThere(transfers[m])
    BY <1>10 DEF OneMoves, TransferGood
  <2>2. /\ ts[n].pc \in PartPlace => transfers[n].pc \in PartPlace \/ Alone(n)
        /\ staged'[PlainPart] \in {0, staged[PlainPart]} \/ transfers[n].pc \in PartPlace \/ Alone(n)
        /\ HashedIsThere(transfers[n])'
    BY <1>1, <1>10 DEF PartGood
  <2>3. ASSUME NEW k \in DOMAIN ts, NEW l \in DOMAIN ts, ts[k].pc \in PartPlace, ts[l].pc \in PartPlace
        PROVE  k = l
    <3>1. \A m \in DOMAIN transfers : m # n => ts[m].pc = transfers[m].pc
      BY <1>7
    <3>2. k \in DOMAIN transfers /\ l \in DOMAIN transfers
      BY <1>2, <2>3
    <3>3. \A i, j \in DOMAIN transfers : transfers[i].pc \in PartPlace /\ transfers[j].pc \in PartPlace => i = j
      BY <2>1 DEF OneInPart
    <3> QED BY <2>2, <2>3, <3>1, <3>2, <3>3 DEF Alone
  <2>4. OneInPart'
    BY <1>1, <2>3 DEF OneInPart
  <2>5. ASSUME NEW m \in DOMAIN transfers'
        PROVE  HashedIsThere(transfers[m])'
    <3>1. CASE m = n
      BY <3>1, <2>2
    <3>2. CASE m # n
      <4>1. m \in DOMAIN transfers
        BY <1>1, <1>2, <2>5
      <4>2. Alike(transfers[m], transfers'[m]) /\ transfers'[m].pc = transfers[m].pc
        BY <1>1, <1>7, <3>2, <4>1 DEF OneMoves
      <4>3. CASE transfers[m].pc = "replace"
        <5>1. transfers'[m] = transfers[m]
          BY <4>2, <4>3 DEF Alike
        <5>2. transfers[m].pc \in PartPlace
          BY <4>3 DEF PartPlace
        <5>3. transfers[n].pc \notin PartPlace /\ ~ Alone(n)
          BY <5>2, <4>1, <3>2, <2>1 DEF OneInPart, Alone
        <5>4. staged'[PlainPart] \in {0, staged[PlainPart]}
          BY <5>3, <2>2
        <5>5. HashedIsThere(transfers[m])
          BY <2>1, <4>1
        <5> QED BY <5>1, <5>4, <5>5 DEF HashedIsThere
      <4>4. CASE transfers[m].pc # "replace"
        BY <4>2, <4>4 DEF HashedIsThere
      <4> QED BY <4>3, <4>4
    <3> QED BY <3>1, <3>2
  <2> QED BY <2>4, <2>5
<1>11. \A m \in DOMAIN transfers' : (transfers'[m].pc # "done" => PlaceGood(m, transfers'[m])) /\ VerifiedGood(m, transfers[m])'
  BY <1>8
<1>12. \A m \in 1..MaxTransfer : StagedGood(m)' /\ NodeTmpGood(m)'
  BY <1>9
<1>13. raced' \/ (OneInPart' /\ \A m \in DOMAIN transfers' : HashedIsThere(transfers[m])')
  BY <1>10
<1> QED BY <1>5, <1>6, <1>11, <1>12, <1>13 DEF TransferGood, PlaceGood, VerifiedGood, StagedGood, NodeTmpGood, HashedIsThere

\* The frame when the other transfers do not change at all.
LEMMA OneMovesWhen ==
  ASSUME TransferGood, NEW n \in DOMAIN transfers, NEW x, transfers' = [transfers EXCEPT ![n] = x],
         DOMAIN staged' = Path, \A m \in 1..MaxTransfer : m # n =>
            staged'[Own(m)] = staged[Own(m)] /\ staged'[OwnPart(m)] = staged[OwnPart(m)],
         DOMAIN nodeTmp' = 1..MaxTransfer, \A m \in 1..MaxTransfer : m # n => nodeTmp'[m] = nodeTmp[m],
         raced => raced'
  PROVE  OneMoves(n) /\ transfers'[n] = x
<1>1. IsSeq(transfers)
  BY DEF TransferGood
<1>2. PICK ts : ts = [transfers EXCEPT ![n] = x]
  OBVIOUS
<1>3. IsSeq(ts) /\ DOMAIN ts = DOMAIN transfers /\ ts[n] = x /\ \A m \in DOMAIN transfers : m # n => ts[m] = transfers[m]
  BY <1>1, <1>2, IsSeqExcept
<1>4. IsSeq(transfers')
  BY <1>2, <1>3
<1> QED BY <1>2, <1>3, <1>4 DEF OneMoves, Alike

\* A step that leaves the staging directory alone.
LEMMA QuietGood ==
  ASSUME TransferGood, NEW n \in DOMAIN transfers, NEW x, transfers' = [transfers EXCEPT ![n] = x],
         staged' = staged, raced' = raced,
         DOMAIN nodeTmp' = 1..MaxTransfer, \A m \in 1..MaxTransfer : m # n => nodeTmp'[m] = nodeTmp[m],
         x.pc # "done" => PlaceGood(n, x), VerifiedGood(n, x),
         HasOwn(transfers[n]) => HasOwn(x), nodeTmp'[n] # 0 => NodeKept(x),
         x.pc \in PartPlace => transfers[n].pc \in PartPlace, raced \/ HashedIsThere(x)
  PROVE  TransferGood'
<1>0. n \in 1..MaxTransfer
  BY TransferNumbers
<1>1. DOMAIN staged = Path /\ StagedGood(n)
  BY <1>0 DEF TransferGood
<1>2. OneMoves(n) /\ transfers'[n] = x
  BY <1>1, OneMovesWhen
<1>3. VerifiedGood(n, transfers[n])'
  BY <1>2 DEF VerifiedGood
<1>4. MoverGood(n)
  BY <1>1, <1>2, <1>3 DEF MoverGood, StagedGood
<1>5. PartGood(n)
  BY <1>2 DEF PartGood, HashedIsThere
<1> QED BY <1>2, <1>4, <1>5, OneMovesGood

\* A step that writes to files of its own there, or removes them.
LEMMA OwnFilesGood ==
  ASSUME TransferGood, NEW n \in DOMAIN transfers, NEW x, transfers' = [transfers EXCEPT ![n] = x],
         NEW a \in {0, n}, NEW b, staged' = [staged EXCEPT ![OwnPart(n)] = b, ![Own(n)] = a], raced' = raced,
         DOMAIN nodeTmp' = 1..MaxTransfer, \A m \in 1..MaxTransfer : m # n => nodeTmp'[m] = nodeTmp[m],
         x.pc # "done" => PlaceGood(n, x), VerifiedGood(n, x),
         HasOwn(x) \/ (a = 0 /\ b = 0), nodeTmp'[n] # 0 => NodeKept(x), x.pc \notin PartPlace
  PROVE  TransferGood'
<1>0. n \in 1..MaxTransfer
  BY TransferNumbers
<1>1. DOMAIN staged = Path
  BY DEF TransferGood
<1>2. DOMAIN staged' = Path /\ staged'[Own(n)] = a /\ staged'[OwnPart(n)] = b
      /\ \A p \in Path : p # Own(n) /\ p # OwnPart(n) => staged'[p] = staged[p]
  BY <1>0, <1>1, PathFacts
<1>3. \A m \in 1..MaxTransfer : m # n => staged'[Own(m)] = staged[Own(m)] /\ staged'[OwnPart(m)] = staged[OwnPart(m)]
  BY <1>0, <1>2, PathFacts, PathsDiffer
<1>4. staged'[PlainPart] = staged[PlainPart]
  BY <1>0, <1>2, PathFacts
<1>5. OneMoves(n) /\ transfers'[n] = x
  BY <1>2, <1>3, OneMovesWhen
<1>6. VerifiedGood(n, transfers[n])'
  BY <1>5 DEF VerifiedGood
<1>7. MoverGood(n)
  BY <1>2, <1>5, <1>6 DEF MoverGood
<1>8. x.pc # "replace"
  BY DEF PartPlace
<1>9. PartGood(n)
  BY <1>4, <1>5, <1>8 DEF PartGood, HashedIsThere
<1> QED BY <1>5, <1>7, <1>9, OneMovesGood

\* The end of a push.
LEMMA FinishGood ==
  ASSUME TransferGood, NEW n \in DOMAIN transfers, NEW x, Finish(n, x), raced' = raced,
         DOMAIN nodeTmp' = 1..MaxTransfer, \A m \in 1..MaxTransfer : m # n => nodeTmp'[m] = nodeTmp[m],
         x.pc = "done", VerifiedGood(n, x), nodeTmp'[n] # 0 => x.left
  PROVE  TransferGood'
<1>1. x.pc \notin PartPlace /\ (nodeTmp'[n] # 0 => NodeKept(x))
  BY DEF PartPlace, NodeKept
<1>2. transfers' = [transfers EXCEPT ![n] = x] /\ staged' = [staged EXCEPT ![OwnPart(n)] = 0, ![Own(n)] = 0]
  BY DEF Finish, Unlinked
<1> QED BY <1>1, <1>2, OwnFilesGood

\* What holds of a transfer that is under way.
LEMMA UnderWay ==
  ASSUME TransferGood, NEW n \in DOMAIN transfers, transfers[n].pc # "done"
  PROVE  /\ PlaceGood(n, transfers[n]) /\ n \in 1..MaxTransfer
         /\ DOMAIN nodeTmp = 1..MaxTransfer /\ DOMAIN staged = Path
         /\ staged[Own(n)] \in {0, n} /\ (nodeTmp[n] # 0 => NodeKept(transfers[n]))
         /\ HasOwn(transfers[n]) \/ (staged[Own(n)] = 0 /\ staged[OwnPart(n)] = 0)
BY TransferNumbers DEF TransferGood, StagedGood, NodeTmpGood

\* The record of a transfer after one of its fields has changed.
LEMMA FieldChanges ==
  ASSUME NEW t, DOMAIN t = TransferField, NEW f \in TransferField, NEW v
  PROVE  /\ DOMAIN [t EXCEPT ![f] = v] = TransferField /\ [t EXCEPT ![f] = v][f] = v
         /\ \A g \in TransferField : g # f => [t EXCEPT ![f] = v][g] = t[g]
OBVIOUS

\* A push that ends with no copy on the node, or says that it left one.
LEMMA OverGood ==
  ASSUME TransferGood, NEW n \in DOMAIN transfers, NEW r, NEW left, Finish(n, Over(r, left)), raced' = raced,
         r # "verified",
         DOMAIN nodeTmp' = 1..MaxTransfer, \A m \in 1..MaxTransfer : m # n => nodeTmp'[m] = nodeTmp[m],
         nodeTmp'[n] # 0 => left
  PROVE  TransferGood'
<1>1. PICK x : x = Over(r, left)
  OBVIOUS
<1>2. x.pc = "done" /\ x.result # "verified"
  BY <1>1 DEF Over
<1>3. nodeTmp'[n] # 0 => x.left
  BY <1>1, Zenon DEF Over
<1>4. VerifiedGood(n, x)
  BY <1>2 DEF VerifiedGood
<1> QED BY <1>1, <1>2, <1>3, <1>4, FinishGood

\* A link until its body is received.
LEMMA LinkStepsGood ==
  ASSUME TransferGood, NEW n \in DOMAIN transfers, transfers[n].op # "download",
         link_expires(n) \/ claim(n) \/ claim_refused(n) \/ received(n) \/ fetch_answers(n)
  PROVE  TransferGood'
<1>1. PICK t : t = transfers[n]
  OBVIOUS
<1>2. CASE link_expires(n) \/ claim_refused(n)
  <2>1. t.pc = "pending" /\ UNCHANGED <<staged, nodeTmp, raced>>
    BY <1>1, <1>2 DEF link_expires, claim_refused, At
  <2>2. PICK x : transfers' = [transfers EXCEPT ![n] = x] /\ x.pc = "done" /\ x.result = "error"
    BY <1>2 DEF link_expires, claim_refused, Over
  <2>3. PlaceGood(n, t) /\ DOMAIN nodeTmp = 1..MaxTransfer /\ (nodeTmp[n] # 0 => NodeKept(t)) /\ ~ HasOwn(t)
    BY <1>1, <2>1, UnderWay DEF HasOwn
  <2>4. nodeTmp'[n] = 0
    BY <2>1, <2>3 DEF PlaceGood, NodeKept, OnNode
  <2>5. VerifiedGood(n, x) /\ HashedIsThere(x) /\ x.pc \notin PartPlace
    BY <2>2 DEF VerifiedGood, HashedIsThere, PartPlace
  <2> QED BY <1>1, <2>1, <2>2, <2>3, <2>4, <2>5, QuietGood
<1>3. ASSUME claim(n) \/ fetch_answers(n)
      PROVE  TransferGood'
  <2>1. t.pc \in {"pending", "fetch"} /\ UNCHANGED <<nodeTmp, raced>>
    BY <1>1, <1>3 DEF claim, fetch_answers, At
  <2>2. PlaceGood(n, t) /\ DOMAIN nodeTmp = 1..MaxTransfer /\ DOMAIN staged = Path /\ n \in 1..MaxTransfer
        /\ (nodeTmp[n] # 0 => NodeKept(t)) /\ staged[Own(n)] = 0
    BY <1>1, <2>1, UnderWay DEF HasOwn
  <2>3. PICK x : x = [t EXCEPT !.pc = "receive"]
    OBVIOUS
  <2>4. transfers' = [transfers EXCEPT ![n] = x]
    BY <1>1, <1>3, <2>3 DEF claim, fetch_answers, Goto
  <2>5. staged' = [staged EXCEPT ![OwnPart(n)] = Part(n)]
    BY <1>3 DEF claim, fetch_answers
  <2>6. staged' = [staged EXCEPT ![OwnPart(n)] = Part(n), ![Own(n)] = 0]
    BY <2>2, <2>5, PathFacts
  <2>7. DOMAIN x = TransferField /\ x.pc = "receive" /\ x.op = t.op /\ x.guest = t.guest /\ x.verify = t.verify
        /\ x.sha = t.sha /\ x.left = t.left
    BY <2>2, <2>3 DEF PlaceGood, TransferField
  <2>8. PlaceGood(n, x) /\ HasOwn(x)
    BY <2>1, <2>2, <2>7 DEF PlaceGood, HasOwn, PushPlace, DownloadPlace
  <2>9. nodeTmp'[n] = 0
    BY <2>1, <2>2 DEF PlaceGood, NodeKept, OnNode
  <2>10. VerifiedGood(n, x) /\ x.pc \notin PartPlace
    BY <2>7 DEF VerifiedGood, PartPlace
  <2> QED BY <2>1, <2>2, <2>4, <2>6, <2>8, <2>9, <2>10, OwnFilesGood
<1>4. CASE received(n)
  <2>1. t.pc = "receive" /\ UNCHANGED <<nodeTmp, raced>>
    BY <1>1, <1>4 DEF received, At
  <2>2. PlaceGood(n, t) /\ DOMAIN nodeTmp = 1..MaxTransfer /\ DOMAIN staged = Path /\ n \in 1..MaxTransfer
        /\ (nodeTmp[n] # 0 => NodeKept(t))
    BY <1>1, <2>1, UnderWay
  <2>3. PICK x : x = [t EXCEPT !.pc = "check"]
    OBVIOUS
  <2>4. transfers' = [transfers EXCEPT ![n] = x]
    BY <1>1, <1>4, <2>3 DEF received, Goto
  <2>5. staged' = [staged EXCEPT ![Own(n)] = n, ![OwnPart(n)] = 0]
    BY <1>4 DEF received
  <2>6. staged' = [staged EXCEPT ![OwnPart(n)] = 0, ![Own(n)] = n]
    BY <2>2, <2>5, PathFacts
  <2>7. DOMAIN x = TransferField /\ x.pc = "check" /\ x.op = t.op /\ x.guest = t.guest /\ x.verify = t.verify
        /\ x.sha = t.sha /\ x.left = t.left
    BY <2>2, <2>3 DEF PlaceGood, TransferField
  <2>8. PlaceGood(n, x) /\ HasOwn(x)
    BY <2>1, <2>2, <2>7 DEF PlaceGood, HasOwn, PushPlace, DownloadPlace
  <2>9. nodeTmp'[n] = 0
    BY <2>1, <2>2 DEF PlaceGood, NodeKept, OnNode
  <2>10. VerifiedGood(n, x) /\ x.pc \notin PartPlace
    BY <2>7 DEF VerifiedGood, PartPlace
  <2> QED BY <2>1, <2>2, <2>4, <2>6, <2>8, <2>9, <2>10, OwnFilesGood
<1> QED BY <1>2, <1>3, <1>4

\* The push t of number n goes on as x, to a later place of the same push.
PushesOn(n, t, x) ==
  /\ t.pc # "done" /\ t.op # "download"
  /\ DOMAIN x = TransferField /\ x.op = t.op /\ x.guest = t.guest /\ x.verify = t.verify
  /\ x.pc \in PushPlace /\ x.pc \notin {"pending", "fetch", "receive"}
  /\ x.left => x.pc = "verify"
  /\ x.pc \in {"push", "clean"} => t.guest = "lxc"
  /\ t.op \in {"link", "fetch"} /\ (x.pc = "verify" \/ (t.verify /\ x.pc \in {"put", "push", "write", "clean"})) => x.sha = n

\* No step of n touches the temporary file of another transfer on the node.
OthersOnNode(n) ==
  DOMAIN nodeTmp' = 1..MaxTransfer /\ \A m \in 1..MaxTransfer : m # n => nodeTmp'[m] = nodeTmp[m]

\* A step of a push that only goes on to its next place.
LEMMA PushGoesOn ==
  ASSUME TransferGood, NEW n \in DOMAIN transfers, NEW t, t = transfers[n],
         NEW x, transfers' = [transfers EXCEPT ![n] = x], UNCHANGED <<staged, raced>>,
         OthersOnNode(n), PushesOn(n, t, x), nodeTmp'[n] # 0 => NodeKept(x)
  PROVE  TransferGood'
<1>1. t.pc # "done" /\ PlaceGood(n, t)
  BY UnderWay DEF PushesOn
<1>2. PlaceGood(n, x)
  BY <1>1 DEF PushesOn, PlaceGood, PushPlace, DownloadPlace
<1>3. VerifiedGood(n, x) /\ HashedIsThere(x) /\ x.pc \notin PartPlace /\ (HasOwn(t) => HasOwn(x))
  BY DEF PushesOn, VerifiedGood, HashedIsThere, PartPlace, PushPlace, HasOwn
<1>4. /\ DOMAIN nodeTmp' = 1..MaxTransfer /\ \A m \in 1..MaxTransfer : m # n => nodeTmp'[m] = nodeTmp[m]
      /\ x.op = t.op
  BY DEF OthersOnNode, PushesOn
<1> QED BY <1>1, <1>2, <1>3, <1>4, QuietGood

\* The look at the guest and the local checksum.
LEMMA HashStepsGood ==
  ASSUME TransferGood, NEW n \in DOMAIN transfers, transfers[n].op # "download",
         guest_is_running(n) \/ hash_local(n)
  PROVE  TransferGood'
<1>1. PICK t : t = transfers[n]
  OBVIOUS
<1>2. t.pc \in {"check", "hash"} /\ UNCHANGED <<staged, nodeTmp, raced>>
  BY <1>1 DEF guest_is_running, hash_local, At
<1>3. PlaceGood(n, t) /\ DOMAIN nodeTmp = 1..MaxTransfer /\ (nodeTmp[n] # 0 => NodeKept(t))
      /\ DOMAIN t = TransferField /\ staged[Own(n)] \in {0, n}
  BY <1>1, <1>2, UnderWay DEF PlaceGood
<1>4. ~ t.left /\ nodeTmp'[n] = 0
  BY <1>2, <1>3 DEF PlaceGood, NodeKept, OnNode
<1>5. CASE guest_is_running(n)
  <2>1. PICK x : x = [t EXCEPT !.pc = IF t.verify THEN "hash" ELSE "put"]
    OBVIOUS
  <2>2. transfers' = [transfers EXCEPT ![n] = x]
    BY <1>1, <1>5, <2>1 DEF guest_is_running, Goto
  <2>3. /\ DOMAIN x = TransferField /\ x.op = t.op /\ x.guest = t.guest /\ x.verify = t.verify /\ x.left = t.left
        /\ x.pc = IF t.verify THEN "hash" ELSE "put"
    BY <1>3, <2>1 DEF TransferField
  <2>4. x.pc \in {"hash", "put"} /\ x.pc \in PushPlace /\ ~ (t.verify /\ x.pc = "put")
    BY <2>3 DEF PushPlace
  <2>5. PushesOn(n, t, x)
    BY <1>1, <1>2, <1>4, <2>3, <2>4 DEF PushesOn
  <2>6. OthersOnNode(n) /\ UNCHANGED <<staged, raced>>
    BY <1>2, <1>3 DEF OthersOnNode
  <2> QED BY <1>1, <1>4, <2>2, <2>5, <2>6, PushGoesOn
<1>6. CASE hash_local(n)
  <2>1. PICK x : x = [t EXCEPT !.pc = "put", !.sha = staged[Source(n)]]
    OBVIOUS
  <2>2. transfers' = [transfers EXCEPT ![n] = x] /\ staged[Source(n)] # 0
    BY <1>1, <1>6, <2>1 DEF hash_local
  <2>3. /\ DOMAIN x = TransferField /\ x.op = t.op /\ x.guest = t.guest /\ x.verify = t.verify /\ x.left = t.left
        /\ x.pc = "put" /\ x.sha = staged[Source(n)]
    BY <1>3, <2>1 DEF TransferField
  <2>4. t.op \in {"link", "fetch"} => x.sha = n
    BY <1>1, <1>3, <2>2, <2>3 DEF Source
  <2>5. x.pc \in PushPlace
    BY <2>3 DEF PushPlace
  <2>6. PushesOn(n, t, x)
    BY <1>1, <1>2, <1>4, <2>3, <2>4, <2>5 DEF PushesOn
  <2>7. OthersOnNode(n) /\ UNCHANGED <<staged, raced>>
    BY <1>2, <1>3 DEF OthersOnNode
  <2> QED BY <1>1, <1>4, <2>2, <2>6, <2>7, PushGoesOn
<1> QED BY <1>5, <1>6

\* The copy to the node, and the start of the write into the guest.
LEMMA PutStepsGood ==
  ASSUME TransferGood, NEW n \in DOMAIN transfers, transfers[n].op # "download",
         put_on_node(n) \/ put_on_node_fails(n) \/ write_begins(n)
  PROVE  TransferGood'
<1>1. PICK t : t = transfers[n]
  OBVIOUS
<1>2. t.pc \in {"put", "push"} /\ UNCHANGED <<staged, raced>>
  BY <1>1 DEF put_on_node, put_on_node_fails, write_begins, At
<1>3. PlaceGood(n, t) /\ DOMAIN nodeTmp = 1..MaxTransfer /\ (nodeTmp[n] # 0 => NodeKept(t))
      /\ DOMAIN t = TransferField
  BY <1>1, <1>2, UnderWay DEF PlaceGood
<1>4. ~ t.left /\ (nodeTmp[n] # 0 => t.guest = "lxc")
      /\ (t.op \in {"link", "fetch"} /\ t.verify => t.sha = n)
  BY <1>2, <1>3 DEF PlaceGood, NodeKept
<1>5. CASE put_on_node(n) \/ put_on_node_fails(n)
  <2>1. t.guest = "lxc" /\ \E c : nodeTmp' = [nodeTmp EXCEPT ![n] = c]
    BY <1>1, <1>5 DEF put_on_node, put_on_node_fails
  <2>2. OthersOnNode(n)
    BY <1>3, <2>1 DEF OthersOnNode
  <2>3. PICK x : /\ transfers' = [transfers EXCEPT ![n] = x]
                 /\ x = [t EXCEPT !.pc = "push"] \/ x = [t EXCEPT !.pc = "clean", !.failed = TRUE]
    BY <1>1, <1>5 DEF put_on_node, put_on_node_fails
  <2>4. /\ DOMAIN x = TransferField /\ x.op = t.op /\ x.guest = t.guest /\ x.verify = t.verify /\ x.left = t.left
        /\ x.pc \in {"push", "clean"} /\ x.sha = t.sha
    BY <1>3, <2>3 DEF TransferField
  <2>5. x.pc \in PushPlace /\ NodeKept(x)
    BY <2>1, <2>4 DEF PushPlace, NodeKept, OnNode
  <2>6. PushesOn(n, t, x)
    BY <1>1, <1>2, <1>4, <2>1, <2>4, <2>5 DEF PushesOn
  <2>7. transfers' = [transfers EXCEPT ![n] = x]
    BY <2>3
  <2> QED BY <1>1, <1>2, <2>2, <2>5, <2>6, <2>7, PushGoesOn
<1>6. CASE write_begins(n)
  <2>1. PICK d : transfers' = [transfers EXCEPT ![n].pc = "write", ![n].data = d]
    BY <1>6 DEF write_begins
  <2>2. PICK x : x = [t EXCEPT !.pc = "write", !.data = d]
    OBVIOUS
  <2>3. transfers' = [transfers EXCEPT ![n] = x] /\ nodeTmp' = nodeTmp
    BY <1>1, <1>6, <2>1, <2>2 DEF write_begins
  <2>4. /\ DOMAIN x = TransferField /\ x.op = t.op /\ x.guest = t.guest /\ x.verify = t.verify /\ x.left = t.left
        /\ x.pc = "write" /\ x.sha = t.sha
    BY <1>3, <2>2 DEF TransferField
  <2>5. x.pc \in PushPlace /\ (nodeTmp'[n] # 0 => NodeKept(x))
    BY <1>4, <2>3, <2>4 DEF PushPlace, NodeKept, OnNode
  <2>6. PushesOn(n, t, x)
    BY <1>1, <1>2, <1>4, <2>4, <2>5 DEF PushesOn
  <2>7. OthersOnNode(n)
    BY <1>3, <2>3 DEF OthersOnNode
  <2> QED BY <1>1, <1>2, <2>3, <2>5, <2>6, <2>7, PushGoesOn
<1> QED BY <1>5, <1>6

\* The end of the write into the guest, good or bad.
LEMMA WriteStepsGood ==
  ASSUME TransferGood, NEW n \in DOMAIN transfers, transfers[n].op # "download",
         write_ends(n) \/ write_fails(n)
  PROVE  TransferGood'
<1>1. PICK t : t = transfers[n]
  OBVIOUS
<1>2. t.pc \in {"write", "push"} /\ UNCHANGED <<nodeTmp, raced>>
  BY <1>1 DEF write_ends, write_fails, At
<1>3. PlaceGood(n, t) /\ DOMAIN nodeTmp = 1..MaxTransfer /\ (nodeTmp[n] # 0 => NodeKept(t))
      /\ DOMAIN t = TransferField /\ t.guest \in {"lxc", "qemu"}
  BY <1>1, <1>2, UnderWay DEF PlaceGood, Guest
<1>4. ~ t.left /\ (nodeTmp[n] # 0 => t.guest = "lxc")
      /\ (t.op \in {"link", "fetch"} /\ t.verify => t.sha = n)
  BY <1>2, <1>3 DEF PlaceGood, NodeKept
<1>5. \/ /\ staged' = staged
         /\ \/ t.guest = "lxc" /\ transfers' = [transfers EXCEPT ![n].pc = "clean"]
            \/ t.guest = "lxc" /\ transfers' = [transfers EXCEPT ![n].pc = "clean", ![n].failed = TRUE]
            \/ t.guest # "lxc" /\ t.verify /\ transfers' = [transfers EXCEPT ![n].pc = "verify"]
      \/ t.guest # "lxc" /\ \E r \in {"success", "error"} : Finish(n, Over(r, FALSE))
  BY <1>1 DEF write_ends, write_fails, Goto
<1>6. CASE staged' = staged /\ t.guest = "lxc" /\
           (transfers' = [transfers EXCEPT ![n].pc = "clean"] \/ transfers' = [transfers EXCEPT ![n].pc = "clean", ![n].failed = TRUE])
  <2>1. PICK x : /\ transfers' = [transfers EXCEPT ![n] = x]
                 /\ x = [t EXCEPT !.pc = "clean"] \/ x = [t EXCEPT !.pc = "clean", !.failed = TRUE]
    BY <1>1, <1>6
  <2>2. /\ DOMAIN x = TransferField /\ x.op = t.op /\ x.guest = t.guest /\ x.verify = t.verify /\ x.left = t.left
        /\ x.pc = "clean" /\ x.sha = t.sha
    BY <1>3, <2>1 DEF TransferField
  <2>3. x.pc \in PushPlace /\ NodeKept(x)
    BY <1>6, <2>2 DEF PushPlace, NodeKept, OnNode
  <2>4. PushesOn(n, t, x)
    BY <1>1, <1>2, <1>4, <1>6, <2>2, <2>3 DEF PushesOn
  <2>5. transfers' = [transfers EXCEPT ![n] = x]
    BY <2>1
  <2>6. OthersOnNode(n) /\ UNCHANGED <<staged, raced>>
    BY <1>2, <1>3, <1>6 DEF OthersOnNode
  <2> QED BY <1>1, <2>3, <2>4, <2>5, <2>6, PushGoesOn
<1>7. CASE staged' = staged /\ t.guest # "lxc" /\ t.verify /\ transfers' = [transfers EXCEPT ![n].pc = "verify"]
  <2>1. PICK x : x = [t EXCEPT !.pc = "verify"]
    OBVIOUS
  <2>2. /\ DOMAIN x = TransferField /\ x.op = t.op /\ x.guest = t.guest /\ x.verify = t.verify /\ x.left = t.left
        /\ x.pc = "verify" /\ x.sha = t.sha
    BY <1>3, <2>1 DEF TransferField
  <2>3. x.pc \in PushPlace
    BY <2>2 DEF PushPlace
  <2>4. PushesOn(n, t, x)
    BY <1>1, <1>2, <1>4, <1>7, <2>2, <2>3 DEF PushesOn
  <2>7. nodeTmp'[n] # 0 => NodeKept(x)
    BY <1>2, <1>4, <1>7
  <2>5. transfers' = [transfers EXCEPT ![n] = x]
    BY <1>1, <1>7, <2>1
  <2>6. OthersOnNode(n) /\ UNCHANGED <<staged, raced>>
    BY <1>2, <1>3, <1>7 DEF OthersOnNode
  <2> QED BY <1>1, <2>4, <2>5, <2>6, <2>7, PushGoesOn
<1>8. CASE t.guest # "lxc" /\ \E r \in {"success", "error"} : Finish(n, Over(r, FALSE))
  <2>1. PICK r \in {"success", "error"} : Finish(n, Over(r, FALSE))
    BY <1>8
  <2>2. nodeTmp'[n] = 0 /\ DOMAIN nodeTmp' = 1..MaxTransfer /\ \A m \in 1..MaxTransfer : m # n => nodeTmp'[m] = nodeTmp[m]
    BY <1>2, <1>3, <1>4, <1>8
  <2>3. PICK left : left = FALSE
    OBVIOUS
  <2>4. Finish(n, Over(r, left))
    BY <2>1, <2>3, Zenon
  <2> QED BY <1>2, <2>2, <2>4, OverGood
<1> QED BY <1>5, <1>6, <1>7, <1>8

\* The removal of the node's copy.
LEMMA RemoveQuietlyGood ==
  ASSUME TransferGood, NEW n \in DOMAIN transfers, transfers[n].op # "download",
         NEW ok \in BOOLEAN, remove_quietly(n, ok)
  PROVE  TransferGood'
<1>1. PICK t : t = transfers[n]
  OBVIOUS
<1>2. t.pc = "clean" /\ raced' = raced
  BY <1>1 DEF remove_quietly, At
<1>3. PlaceGood(n, t) /\ DOMAIN nodeTmp = 1..MaxTransfer /\ (nodeTmp[n] # 0 => NodeKept(t))
      /\ DOMAIN t = TransferField
  BY <1>1, <1>2, UnderWay DEF PlaceGood
<1>4. t.op \in {"link", "fetch"} /\ t.verify => t.sha = n
  BY <1>2, <1>3 DEF PlaceGood
<1>5. PICK left : left = ~ ok
  OBVIOUS
<1>6. nodeTmp' = [nodeTmp EXCEPT ![n] = IF ok THEN 0 ELSE @] /\ n \in 1..MaxTransfer
  BY TransferNumbers DEF remove_quietly
<1>7. DOMAIN nodeTmp' = 1..MaxTransfer /\ (\A m \in 1..MaxTransfer : m # n => nodeTmp'[m] = nodeTmp[m])
      /\ (nodeTmp'[n] # 0 => ~ ok)
  BY <1>3, <1>6
<1>8. nodeTmp'[n] # 0 => left
  BY <1>5, <1>7, Zenon
<1>9. CASE t.verify /\ ~ t.failed
  <2>1. transfers' = [transfers EXCEPT ![n].pc = "verify", ![n].left = ~ ok] /\ staged' = staged
    BY <1>1, <1>9 DEF remove_quietly
  <2>2. PICK x : x = [t EXCEPT !.pc = "verify", !.left = ~ ok]
    OBVIOUS
  <2>3. /\ DOMAIN x = TransferField /\ x.op = t.op /\ x.guest = t.guest /\ x.verify = t.verify
        /\ x.pc = "verify" /\ x.sha = t.sha /\ x.left = ~ ok
    BY <1>3, <2>2 DEF TransferField
  <2>4. x.pc \in PushPlace
    BY <2>3 DEF PushPlace
  <2>5. x.left = left
    BY <1>5, <2>3, Zenon
  <2>6. PushesOn(n, t, x)
    BY <1>1, <1>2, <1>4, <1>9, <2>3, <2>4 DEF PushesOn
  <2>7. nodeTmp'[n] # 0 => NodeKept(x)
    BY <1>8, <2>5, Zenon DEF NodeKept
  <2>8. transfers' = [transfers EXCEPT ![n] = x]
    BY <1>1, <2>1, <2>2
  <2>9. OthersOnNode(n) /\ UNCHANGED <<staged, raced>>
    BY <1>2, <1>7, <2>1 DEF OthersOnNode
  <2> QED BY <1>1, <2>6, <2>7, <2>8, <2>9, PushGoesOn
<1>10. CASE ~ (t.verify /\ ~ t.failed)
  <2>1. PICK r : r = IF t.failed THEN "error" ELSE "success"
    OBVIOUS
  <2>2. r # "verified"
    BY <2>1
  <2>3. Finish(n, Over(r, left))
    BY <1>1, <1>5, <1>10, <2>1, Zenon DEF remove_quietly
  <2> QED BY <1>2, <1>7, <1>8, <2>2, <2>3, OverGood
<1> QED BY <1>9, <1>10

\* The guest's checksum is compared.
LEMMA VerifyPushGood ==
  ASSUME TransferGood, NEW n \in DOMAIN transfers, transfers[n].op # "download",
         NEW reply \in {"sum", "unavailable", "error"}, verify_push(n, reply)
  PROVE  TransferGood'
<1>1. PICK t : t = transfers[n]
  OBVIOUS
<1>2. t.pc = "verify" /\ UNCHANGED <<nodeTmp, raced>>
  BY <1>1 DEF verify_push, At
<1>3. PlaceGood(n, t) /\ DOMAIN nodeTmp = 1..MaxTransfer /\ (nodeTmp[n] # 0 => NodeKept(t))
  BY <1>1, <1>2, UnderWay
<1>4. (t.op \in {"link", "fetch"} => t.sha = n) /\ (nodeTmp'[n] # 0 => t.left) /\ t.op \in {"link", "fetch", "upload"}
  BY <1>1, <1>2, <1>3 DEF PlaceGood, NodeKept, OnNode
<1>5. DOMAIN nodeTmp' = 1..MaxTransfer /\ \A m \in 1..MaxTransfer : m # n => nodeTmp'[m] = nodeTmp[m]
  BY <1>2, <1>3
<1>6. PICK there : there = guestFile[transfers[n].guest]
  OBVIOUS
<1>7. \/ \E r \in {"error", "success"} : Finish(n, Over(r, t.left))
      \/ Finish(n, Verified(n, there)) /\ t.sha = there
  BY <1>1, <1>6 DEF verify_push, Mismatch
<1>8. CASE \E r \in {"error", "success"} : Finish(n, Over(r, t.left))
  <2>1. PICK r \in {"error", "success"} : Finish(n, Over(r, t.left))
    BY <1>8
  <2>2. PICK left : left = t.left
    OBVIOUS
  <2> QED BY <1>2, <1>4, <1>5, <2>1, <2>2, OverGood
<1>9. CASE Finish(n, Verified(n, there)) /\ t.sha = there
  <2>1. PICK x : x = Verified(n, there)
    OBVIOUS
  <2>2. x.pc = "done" /\ x.op = t.op /\ x.sha = t.sha /\ x.got = there /\ x.left = t.left
    BY <1>1, <2>1 DEF Verified
  <2>3. VerifiedGood(n, x)
    BY <1>4, <1>9, <2>2 DEF VerifiedGood
  <2> QED BY <1>2, <1>4, <1>5, <1>9, <2>1, <2>2, <2>3, FinishGood
<1> QED BY <1>7, <1>8, <1>9

\* A push that fails where nothing but the staged file is left.
LEMMA PushFailsGood ==
  ASSUME TransferGood, NEW n \in DOMAIN transfers, transfers[n].op # "download",
         push_fails(n) \/ put_in_vm_breaks_off(n)
  PROVE  TransferGood'
<1>1. PICK t : t = transfers[n]
  OBVIOUS
<1>2. t.pc \in {"fetch", "receive", "check", "hash", "put", "verify"} /\ UNCHANGED <<nodeTmp, raced>>
  BY <1>1 DEF push_fails, put_in_vm_breaks_off, At, Harmless
<1>3. PlaceGood(n, t) /\ DOMAIN nodeTmp = 1..MaxTransfer /\ (nodeTmp[n] # 0 => NodeKept(t))
  BY <1>1, <1>2, UnderWay
<1>4. (nodeTmp'[n] # 0 => t.left) /\ (t.pc = "put" => ~ t.left)
  BY <1>1, <1>2, <1>3 DEF PlaceGood, NodeKept, OnNode
<1>5. DOMAIN nodeTmp' = 1..MaxTransfer /\ \A m \in 1..MaxTransfer : m # n => nodeTmp'[m] = nodeTmp[m]
  BY <1>2, <1>3
<1>6. CASE push_fails(n)
  <2>1. PICK left : left = t.left
    OBVIOUS
  <2>2. Finish(n, Over("error", left))
    BY <1>1, <1>6, <2>1 DEF push_fails
  <2> QED BY <1>2, <1>4, <1>5, <2>1, <2>2, OverGood
<1>7. CASE put_in_vm_breaks_off(n)
  <2>1. PICK left : left = FALSE
    OBVIOUS
  <2>2. Finish(n, Over("error", left))
    BY <1>7, <2>1, Zenon DEF put_in_vm_breaks_off
  <2>3. t.pc = "put"
    BY <1>1, <1>7 DEF put_in_vm_breaks_off, At
  <2>4. nodeTmp'[n] = 0
    BY <1>4, <2>3
  <2> QED BY <1>2, <1>5, <2>2, <2>4, OverGood
<1> QED BY <1>6, <1>7

\* Every step of a push.
LEMMA PushStepGood ==
  ASSUME TransferGood, NEW n \in DOMAIN transfers, PushStep(n)
  PROVE  TransferGood'
<1>1. transfers[n].op # "download"
  BY DEF PushStep
<1>2. \/ link_expires(n) \/ claim(n) \/ claim_refused(n) \/ received(n) \/ fetch_answers(n)
      \/ guest_is_running(n) \/ hash_local(n) \/ put_on_node(n) \/ put_on_node_fails(n)
      \/ write_begins(n) \/ write_ends(n) \/ write_fails(n)
      \/ \E ok \in BOOLEAN : remove_quietly(n, ok)
      \/ \E reply \in {"sum", "unavailable", "error"} : verify_push(n, reply)
      \/ push_fails(n) \/ put_in_vm_breaks_off(n)
  BY DEF PushStep
<1>3. ASSUME NEW ok \in BOOLEAN, remove_quietly(n, ok)
      PROVE  TransferGood'
  BY <1>1, <1>3, RemoveQuietlyGood
<1>4. ASSUME NEW reply \in {"sum", "unavailable", "error"}, verify_push(n, reply)
      PROVE  TransferGood'
  BY <1>1, <1>4, VerifyPushGood
<1> QED BY <1>1, <1>2, <1>3, <1>4, LinkStepsGood, HashStepsGood, PutStepsGood, WriteStepsGood, PushFailsGood

\* Where a file is moved from under a download, the download goes on as before.
Fit(ts) == \A m \in DOMAIN ts : ts[m].pc = "getting" => DOMAIN ts[m] = TransferField

\* Moving an open file changes nothing but where it is.
LEMMA MovedAlike ==
  ASSUME NEW ts, IsSeq(ts), Fit(ts), NEW from, NEW to
  PROVE  /\ IsSeq(Moved(ts, from, to)) /\ DOMAIN Moved(ts, from, to) = DOMAIN ts
         /\ Fit(Moved(ts, from, to))
         /\ \A m \in DOMAIN ts : Alike(ts[m], Moved(ts, from, to)[m])
<1>1. Len(ts) \in Nat /\ DOMAIN ts = 1..Len(ts)
  BY IsSeqIs
<1>2. PICK f : f = Moved(ts, from, to)
  OBVIOUS
<1>3. DOMAIN f = DOMAIN ts /\ f = [m \in DOMAIN ts |-> f[m]]
  BY <1>2 DEF Moved
<1>4. IsSeq(f)
  BY <1>1, <1>3, IsSeqFun
<1>5. ASSUME NEW m \in DOMAIN ts
      PROVE  Alike(ts[m], f[m]) /\ (f[m].pc = "getting" => DOMAIN f[m] = TransferField)
  <2>1. f[m] = IF ts[m].pc = "getting" /\ ts[m].open = from THEN [ts[m] EXCEPT !.open = to] ELSE ts[m]
    BY <1>2 DEF Moved
  <2>2. ts[m].pc = "getting" => DOMAIN ts[m] = TransferField
    BY DEF Fit
  <2> QED BY <2>1, <2>2 DEF Alike
<1> QED BY <1>2, <1>3, <1>4, <1>5 DEF Fit

\* Moving it twice does not either.
LEMMA AlikeTwice ==
  ASSUME NEW s, NEW t, NEW u, Alike(s, t), Alike(t, u)
  PROVE  Alike(s, u)
<1>1. CASE s = t \/ t = u
  BY <1>1
<1>2. CASE s # t /\ t # u
  <2>1. PICK o : t = [s EXCEPT !.open = o]
    BY <1>2 DEF Alike
  <2>2. PICK q : u = [t EXCEPT !.open = q]
    BY <1>2 DEF Alike
  <2>3. s.pc = "getting" /\ DOMAIN s = TransferField
    BY <1>2 DEF Alike
  <2>4. u = [s EXCEPT !.open = q]
    BY <2>1, <2>2
  <2> QED BY <2>3, <2>4 DEF Alike
<1> QED BY <1>1, <1>2

\* The invariant makes MovedAlike apply.
LEMMA TransfersFit ==
  ASSUME TransferGood
  PROVE  IsSeq(transfers) /\ Fit(transfers)
BY DEF TransferGood, Fit, PlaceGood

\* A step of a download.
LEMMA PlainFilesGood ==
  ASSUME TransferGood, NEW n \in DOMAIN transfers, transfers[n].op = "download", transfers[n].pc # "done",
         NEW ts, IsSeq(ts), DOMAIN ts = DOMAIN transfers, \A m \in DOMAIN transfers : Alike(transfers[m], ts[m]),
         NEW x, transfers' = [ts EXCEPT ![n] = x],
         DOMAIN staged' = Path, \A p \in Path : p # Plain /\ p # PlainPart => staged'[p] = staged[p],
         DOMAIN nodeTmp' = 1..MaxTransfer, \A m \in 1..MaxTransfer : m # n => nodeTmp'[m] = nodeTmp[m],
         raced => raced',
         x.pc # "done" => PlaceGood(n, x), VerifiedGood(n, x), nodeTmp'[n] # 0 => NodeKept(x),
         raced' \/ (x.pc \in PartPlace => transfers[n].pc \in PartPlace \/ Alone(n)),
         staged'[PlainPart] \in {0, staged[PlainPart]} \/ transfers[n].pc \in PartPlace \/ raced' \/ Alone(n),
         raced' \/ (x.pc = "replace" /\ x.verify => staged'[PlainPart] = 0 \/ staged'[PlainPart] = x.data)
  PROVE  TransferGood'
<1>1. n \in 1..MaxTransfer /\ staged[Own(n)] = 0 /\ staged[OwnPart(n)] = 0
  BY UnderWay DEF HasOwn
<1>2. \A m \in 1..MaxTransfer : staged'[Own(m)] = staged[Own(m)] /\ staged'[OwnPart(m)] = staged[OwnPart(m)]
  BY PathFacts
<1>3. PICK us : us = [ts EXCEPT ![n] = x]
  OBVIOUS
<1>4. IsSeq(us) /\ DOMAIN us = DOMAIN transfers /\ us[n] = x /\ \A m \in DOMAIN transfers : m # n => us[m] = ts[m]
  BY <1>3, IsSeqExcept
<1>5. IsSeq(transfers')
  BY <1>3, <1>4
<1>6. OneMoves(n) /\ transfers'[n] = x
  BY <1>2, <1>3, <1>4, <1>5 DEF OneMoves
<1>7. VerifiedGood(n, transfers[n])'
  BY <1>6 DEF VerifiedGood
<1>8. MoverGood(n)
  BY <1>1, <1>2, <1>6, <1>7 DEF MoverGood
<1>9. PartGood(n)
  BY <1>6 DEF PartGood, HashedIsThere
<1> QED BY <1>6, <1>8, <1>9, OneMovesGood

\* One that leaves the staging directory and the other downloads alone.
LEMMA DownloadGoesOn ==
  ASSUME TransferGood, NEW n \in DOMAIN transfers, transfers[n].op = "download", transfers[n].pc # "done",
         NEW x, transfers' = [transfers EXCEPT ![n] = x], UNCHANGED <<staged, raced>>,
         DOMAIN nodeTmp' = 1..MaxTransfer, \A m \in 1..MaxTransfer : m # n => nodeTmp'[m] = nodeTmp[m],
         x.pc # "done" => PlaceGood(n, x), VerifiedGood(n, x), nodeTmp'[n] # 0 => NodeKept(x),
         x.pc \in PartPlace => transfers[n].pc \in PartPlace,
         x.pc = "replace" /\ x.verify => staged[PlainPart] = 0 \/ staged[PlainPart] = x.data
  PROVE  TransferGood'
<1>1. HasOwn(transfers[n]) => HasOwn(x)
  BY DEF HasOwn
<1>2. raced \/ HashedIsThere(x)
  BY DEF HashedIsThere
<1> QED BY <1>1, <1>2, QuietGood

\* The end of one.
LEMMA DownloadOver ==
  ASSUME TransferGood, NEW n \in DOMAIN transfers, transfers[n].op = "download", transfers[n].pc # "done",
         NEW x, transfers' = [transfers EXCEPT ![n] = x], UNCHANGED <<staged, raced>>,
         DOMAIN nodeTmp' = 1..MaxTransfer, \A m \in 1..MaxTransfer : m # n => nodeTmp'[m] = nodeTmp[m],
         x.pc = "done", x.result = "error", nodeTmp'[n] # 0 => x.left
  PROVE  TransferGood'
<1>1. VerifiedGood(n, x) /\ x.pc \notin PartPlace /\ x.pc # "replace" /\ (nodeTmp'[n] # 0 => NodeKept(x))
  BY DEF VerifiedGood, PartPlace, NodeKept
<1> QED BY <1>1, DownloadGoesOn

\* What a download is when its place, and what belongs to it, changes.
LEMMA PlaceChanges ==
  ASSUME NEW n, NEW t, PlaceGood(n, t), t.op = "download", NEW x,
         DOMAIN x = TransferField, x.op = t.op, x.guest = t.guest, x.verify = t.verify,
         x.pc \in DownloadPlace, x.left => x.pc \in {"sum", "replace"}, x.pc \in {"pull", "tidy"} => t.guest = "lxc",
         x.sha # 0 => t.verify
  PROVE  PlaceGood(n, x) /\ VerifiedGood(n, x) /\ x.pc # "done"
<1>1. x.pc # "done" /\ x.pc \notin PushPlace
  BY DEF DownloadPlace, PushPlace
<1>2. x.pc \notin {"pending", "fetch", "receive", "push", "clean", "verify"}
  BY DEF DownloadPlace
<1>3. PlaceGood(n, x)
  BY <1>2 DEF PlaceGood
<1> QED BY <1>1, <1>3 DEF VerifiedGood

\* The look at the source of a download.
LEMMA LookStepsGood ==
  ASSUME TransferGood, NEW n \in DOMAIN transfers, transfers[n].op = "download",
         (\E sum \in BOOLEAN : look_at_source(n, sum)) \/ look_fails(n)
  PROVE  TransferGood'
<1>1. PICK t : t = transfers[n]
  OBVIOUS
<1>2. t.pc = "look" /\ UNCHANGED <<staged, nodeTmp, raced>>
  BY <1>1 DEF look_at_source, look_fails, At
<1>3. PlaceGood(n, t) /\ DOMAIN nodeTmp = 1..MaxTransfer /\ (nodeTmp[n] # 0 => NodeKept(t))
      /\ DOMAIN t = TransferField /\ t.guest \in {"lxc", "qemu"}
  BY <1>1, <1>2, UnderWay DEF PlaceGood, Guest
<1>4. ~ t.left /\ nodeTmp'[n] = 0
  BY <1>2, <1>3 DEF PlaceGood, NodeKept, OnNode
<1>5. DOMAIN nodeTmp' = 1..MaxTransfer /\ \A m \in 1..MaxTransfer : m # n => nodeTmp'[m] = nodeTmp[m]
  BY <1>2, <1>3
<1>6. CASE \E sum \in BOOLEAN : look_at_source(n, sum)
  <2>1. PICK sum \in BOOLEAN : look_at_source(n, sum)
    BY <1>6
  <2>2. PICK c : c = IF sum THEN guestFile[transfers[n].guest] ELSE 0
    OBVIOUS
  <2>3. c # 0 => t.verify
    BY <1>1, <2>1, <2>2 DEF look_at_source
  <2>4. PICK x : x = [t EXCEPT !.pc = IF t.guest = "lxc" THEN "pull" ELSE "get", !.sha = c]
    OBVIOUS
  <2>5. transfers' = [transfers EXCEPT ![n] = x]
    BY <1>1, <2>1, <2>2, <2>4 DEF look_at_source
  <2>6. DOMAIN x = TransferField /\ x.op = t.op /\ x.guest = t.guest /\ x.verify = t.verify /\ x.left = t.left
        /\ x.sha = c /\ x.pc = IF t.guest = "lxc" THEN "pull" ELSE "get"
    BY <1>3, <2>4 DEF TransferField
  <2>7. x.pc \in {"pull", "get"} /\ (x.pc = "pull" => t.guest = "lxc") /\ x.pc \in DownloadPlace /\ x.pc \notin PartPlace
    BY <2>6 DEF DownloadPlace, PartPlace
  <2>8. PlaceGood(n, x) /\ VerifiedGood(n, x) /\ x.pc # "done"
    BY <1>1, <1>3, <1>4, <2>3, <2>6, <2>7, PlaceChanges
  <2> QED BY <1>1, <1>2, <1>4, <1>5, <2>5, <2>7, <2>8, DownloadGoesOn
<1>7. CASE look_fails(n)
  <2>1. PICK x : x = Over("error", transfers[n].left)
    OBVIOUS
  <2>2. transfers' = [transfers EXCEPT ![n] = x]
    BY <1>7, <2>1 DEF look_fails, Fails
  <2>3. x.pc = "done" /\ x.result = "error"
    BY <2>1 DEF Over
  <2> QED BY <1>1, <1>2, <1>4, <1>5, <2>2, <2>3, DownloadOver
<1> QED BY <1>6, <1>7

\* The copy from the container to the node.
LEMMA PullStepsGood ==
  ASSUME TransferGood, NEW n \in DOMAIN transfers, transfers[n].op = "download",
         pct_pull(n) \/ \E ok \in BOOLEAN : pull_fails(n, ok)
  PROVE  TransferGood'
<1>1. PICK t : t = transfers[n]
  OBVIOUS
<1>2. t.pc = "pull" /\ UNCHANGED <<staged, raced>>
  BY <1>1 DEF pct_pull, pull_fails, At
<1>3. PlaceGood(n, t) /\ DOMAIN nodeTmp = 1..MaxTransfer /\ n \in 1..MaxTransfer /\ DOMAIN t = TransferField
  BY <1>1, <1>2, UnderWay DEF PlaceGood
<1>4. ~ t.left /\ t.guest = "lxc" /\ (t.sha # 0 => t.verify)
  BY <1>1, <1>2, <1>3 DEF PlaceGood
<1>5. \E c : nodeTmp' = [nodeTmp EXCEPT ![n] = c]
  BY DEF pct_pull, pull_fails
<1>6. DOMAIN nodeTmp' = 1..MaxTransfer /\ \A m \in 1..MaxTransfer : m # n => nodeTmp'[m] = nodeTmp[m]
  BY <1>3, <1>5
<1>7. CASE pct_pull(n)
  <2>1. PICK x : x = [t EXCEPT !.pc = "get"]
    OBVIOUS
  <2>2. transfers' = [transfers EXCEPT ![n] = x]
    BY <1>1, <1>7, <2>1 DEF pct_pull, Goto
  <2>3. DOMAIN x = TransferField /\ x.op = t.op /\ x.guest = t.guest /\ x.verify = t.verify /\ x.left = t.left
        /\ x.sha = t.sha /\ x.pc = "get"
    BY <1>3, <2>1 DEF TransferField
  <2>4. x.pc \in DownloadPlace /\ x.pc \notin PartPlace /\ NodeKept(x)
    BY <1>4, <2>3 DEF DownloadPlace, PartPlace, NodeKept, OnNode
  <2>5. PlaceGood(n, x) /\ VerifiedGood(n, x) /\ x.pc # "done"
    BY <1>1, <1>3, <1>4, <2>3, <2>4, PlaceChanges
  <2> QED BY <1>1, <1>2, <1>6, <2>2, <2>3, <2>4, <2>5, DownloadGoesOn
<1>8. ASSUME NEW ok \in BOOLEAN, pull_fails(n, ok)
      PROVE  TransferGood'
  <2>1. nodeTmp'[n] # 0 => ~ ok
    BY <1>3, <1>8 DEF pull_fails
  <2>2. PICK x : x = Over("error", ~ ok)
    OBVIOUS
  <2>3. transfers' = [transfers EXCEPT ![n] = x]
    BY <1>8, <2>2, Zenon DEF pull_fails
  <2>4. x.pc = "done" /\ x.result = "error"
    BY <2>2 DEF Over
  <2>5. nodeTmp'[n] # 0 => x.left
    BY <2>1, <2>2, Zenon DEF Over
  <2> QED BY <1>1, <1>2, <1>6, <2>3, <2>4, <2>5, DownloadOver
<1> QED BY <1>7, <1>8

\* The part is opened: another download that has one open is noticed.
LEMMA GetBeginsGood ==
  ASSUME TransferGood, NEW n \in DOMAIN transfers, transfers[n].op = "download", get_begins(n)
  PROVE  TransferGood'
<1>1. PICK t : t = transfers[n]
  OBVIOUS
<1>2. t.pc = "get" /\ UNCHANGED nodeTmp
  BY <1>1 DEF get_begins, At
<1>3. PlaceGood(n, t) /\ DOMAIN nodeTmp = 1..MaxTransfer /\ DOMAIN staged = Path /\ (nodeTmp[n] # 0 => NodeKept(t))
      /\ DOMAIN t = TransferField /\ n \in 1..MaxTransfer
  BY <1>1, <1>2, UnderWay DEF PlaceGood
<1>4. ~ t.left /\ (t.sha # 0 => t.verify) /\ (nodeTmp'[n] # 0 => t.guest = "lxc")
  BY <1>1, <1>2, <1>3 DEF PlaceGood, NodeKept
<1>5. DOMAIN nodeTmp' = 1..MaxTransfer /\ \A m \in 1..MaxTransfer : m # n => nodeTmp'[m] = nodeTmp[m]
  BY <1>2, <1>3
<1>6. PICK data : /\ staged' = [staged EXCEPT ![PlainPart] = Part(data)]
                  /\ transfers' = [transfers EXCEPT ![n].pc = "getting", ![n].data = data, ![n].open = "part"]
  BY DEF get_begins
<1>7. DOMAIN staged' = Path /\ \A p \in Path : p # Plain /\ p # PlainPart => staged'[p] = staged[p]
  BY <1>3, <1>6
<1>8. (raced => raced') /\ (raced' \/ Alone(n))
  BY DEF get_begins, InPart, PartPlace, Alone
<1>9. PICK x : x = [t EXCEPT !.pc = "getting", !.data = data, !.open = "part"]
  OBVIOUS
<1>10. transfers' = [transfers EXCEPT ![n] = x]
  BY <1>1, <1>6, <1>9
<1>11. DOMAIN x = TransferField /\ x.op = t.op /\ x.guest = t.guest /\ x.verify = t.verify /\ x.left = t.left
       /\ x.sha = t.sha /\ x.pc = "getting"
  BY <1>3, <1>9 DEF TransferField
<1>12. x.pc \in DownloadPlace /\ (nodeTmp'[n] # 0 => NodeKept(x))
  BY <1>4, <1>11 DEF DownloadPlace, NodeKept, OnNode
<1>13. PlaceGood(n, x) /\ VerifiedGood(n, x) /\ x.pc # "done"
  BY <1>1, <1>3, <1>4, <1>11, <1>12, PlaceChanges
<1>14. IsSeq(transfers) /\ \A m \in DOMAIN transfers : Alike(transfers[m], transfers[m])
  BY DEF TransferGood, Alike
<1>15. PICK ts : ts = transfers
  OBVIOUS
<1> QED BY <1>1, <1>2, <1>5, <1>7, <1>8, <1>10, <1>11, <1>12, <1>13, <1>14, <1>15, PlainFilesGood

\* The part is complete, or is not.
LEMMA GetStepsGood ==
  ASSUME TransferGood, NEW n \in DOMAIN transfers, transfers[n].op = "download", get_ends(n) \/ get_fails(n)
  PROVE  TransferGood'
<1>1. PICK t : t = transfers[n]
  OBVIOUS
<1>2. t.pc = "getting" /\ UNCHANGED <<nodeTmp, raced>>
  BY <1>1 DEF get_ends, get_fails, At
<1>3. PlaceGood(n, t) /\ DOMAIN nodeTmp = 1..MaxTransfer /\ DOMAIN staged = Path /\ (nodeTmp[n] # 0 => NodeKept(t))
      /\ DOMAIN t = TransferField /\ n \in 1..MaxTransfer
  BY <1>1, <1>2, UnderWay DEF PlaceGood
<1>4. ~ t.left /\ (t.sha # 0 => t.verify) /\ (nodeTmp'[n] # 0 => t.guest = "lxc")
  BY <1>1, <1>2, <1>3 DEF PlaceGood, NodeKept
<1>5. DOMAIN nodeTmp' = 1..MaxTransfer /\ \A m \in 1..MaxTransfer : m # n => nodeTmp'[m] = nodeTmp[m]
  BY <1>2, <1>3
<1>6. staged' = staged \/ \E p \in {Plain, PlainPart} : \E c : staged' = [staged EXCEPT ![p] = c]
  BY DEF get_ends, get_fails
<1>7. DOMAIN staged' = Path /\ \A p \in Path : p # Plain /\ p # PlainPart => staged'[p] = staged[p]
  BY <1>3, <1>6
<1>8. PICK pc : /\ pc = "undo" \/ pc = IF t.guest = "lxc" THEN "tidy" ELSE IF t.verify THEN "sum" ELSE "replace"
                /\ transfers' = [transfers EXCEPT ![n].pc = pc, ![n].open = "none"]
                     \/ transfers' = [transfers EXCEPT ![n].open = "none", ![n].pc = pc]
  BY <1>1 DEF get_ends, get_fails
<1>9. PICK x : x = [t EXCEPT !.pc = pc, !.open = "none"]
  OBVIOUS
<1>10. transfers' = [transfers EXCEPT ![n] = x]
  BY <1>1, <1>8, <1>9
<1>11. DOMAIN x = TransferField /\ x.op = t.op /\ x.guest = t.guest /\ x.verify = t.verify /\ x.left = t.left
       /\ x.sha = t.sha /\ x.pc = pc
  BY <1>3, <1>9 DEF TransferField
<1>12. x.pc \in {"undo", "tidy", "sum", "replace"} /\ (x.pc = "tidy" => t.guest = "lxc")
       /\ (t.guest = "lxc" => x.pc \in {"undo", "tidy"}) /\ ~ (x.pc = "replace" /\ x.verify)
  BY <1>8, <1>11
<1>13. x.pc \in DownloadPlace /\ (nodeTmp'[n] # 0 => NodeKept(x))
  BY <1>4, <1>11, <1>12 DEF DownloadPlace, NodeKept, OnNode
<1>14. PlaceGood(n, x) /\ VerifiedGood(n, x) /\ x.pc # "done"
  BY <1>1, <1>3, <1>4, <1>11, <1>12, <1>13, PlaceChanges
<1>15. IsSeq(transfers) /\ \A m \in DOMAIN transfers : Alike(transfers[m], transfers[m])
  BY DEF TransferGood, Alike
<1>16. transfers[n].pc \in PartPlace /\ transfers[n].pc # "done"
  BY <1>1, <1>2 DEF PartPlace
<1>17. PICK ts : ts = transfers
  OBVIOUS
<1> QED BY <1>1, <1>2, <1>5, <1>7, <1>10, <1>12, <1>13, <1>14, <1>15, <1>16, <1>17, PlainFilesGood

\* A download that failed removes the part.
LEMMA UndoGood ==
  ASSUME TransferGood, NEW n \in DOMAIN transfers, transfers[n].op = "download", NEW ok \in BOOLEAN, undo(n, ok)
  PROVE  TransferGood'
<1>1. PICK t : t = transfers[n]
  OBVIOUS
<1>2. t.pc = "undo" /\ raced' = raced
  BY <1>1 DEF undo, At
<1>3. DOMAIN nodeTmp = 1..MaxTransfer /\ DOMAIN staged = Path /\ n \in 1..MaxTransfer
  BY <1>1, <1>2, UnderWay
<1>4. DOMAIN nodeTmp' = 1..MaxTransfer /\ (\A m \in 1..MaxTransfer : m # n => nodeTmp'[m] = nodeTmp[m])
      /\ (nodeTmp'[n] # 0 => ~ ok)
  BY <1>3 DEF undo
<1>5. staged' = [staged EXCEPT ![PlainPart] = 0]
  BY DEF undo
<1>6. DOMAIN staged' = Path /\ staged'[PlainPart] = 0 /\ \A p \in Path : p # Plain /\ p # PlainPart => staged'[p] = staged[p]
  BY <1>3, <1>5, PathFacts
<1>7. PICK ts : ts = Moved(transfers, "part", "gone")
  OBVIOUS
<1>8. IsSeq(ts) /\ DOMAIN ts = DOMAIN transfers /\ \A m \in DOMAIN transfers : Alike(transfers[m], ts[m])
  BY <1>7, MovedAlike, TransfersFit
<1>9. PICK x : x = Over("error", ~ ok)
  OBVIOUS
<1>10. transfers' = [ts EXCEPT ![n] = x]
  BY <1>7, <1>9, Zenon DEF undo
<1>11. x.pc = "done" /\ x.result = "error"
  BY <1>9 DEF Over
<1>12. nodeTmp'[n] # 0 => x.left
  BY <1>4, <1>9, Zenon DEF Over
<1>13. VerifiedGood(n, x) /\ x.pc \notin PartPlace /\ (nodeTmp'[n] # 0 => NodeKept(x))
  BY <1>11, <1>12 DEF VerifiedGood, PartPlace, NodeKept
<1> QED BY <1>1, <1>2, <1>4, <1>6, <1>8, <1>10, <1>11, <1>13, PlainFilesGood

\* A download removes the node's copy.
LEMMA TidyGood ==
  ASSUME TransferGood, NEW n \in DOMAIN transfers, transfers[n].op = "download", NEW ok \in BOOLEAN, tidy(n, ok)
  PROVE  TransferGood'
<1>1. PICK t : t = transfers[n]
  OBVIOUS
<1>2. t.pc = "tidy" /\ UNCHANGED <<staged, raced>>
  BY <1>1 DEF tidy, At
<1>3. PlaceGood(n, t) /\ DOMAIN nodeTmp = 1..MaxTransfer /\ n \in 1..MaxTransfer /\ DOMAIN t = TransferField
  BY <1>1, <1>2, UnderWay DEF PlaceGood
<1>4. t.sha # 0 => t.verify
  BY <1>1, <1>3 DEF PlaceGood
<1>5. DOMAIN nodeTmp' = 1..MaxTransfer /\ (\A m \in 1..MaxTransfer : m # n => nodeTmp'[m] = nodeTmp[m])
      /\ (nodeTmp'[n] # 0 => ~ ok)
  BY <1>3 DEF tidy
<1>6. PICK x : x = [t EXCEPT !.pc = IF t.verify THEN "sum" ELSE "replace", !.left = ~ ok]
  OBVIOUS
<1>7. transfers' = [transfers EXCEPT ![n] = x]
  BY <1>1, <1>6 DEF tidy
<1>8. DOMAIN x = TransferField /\ x.op = t.op /\ x.guest = t.guest /\ x.verify = t.verify
      /\ x.sha = t.sha /\ x.pc = IF t.verify THEN "sum" ELSE "replace"
  BY <1>3, <1>6 DEF TransferField
<1>9. x.left = ~ ok
  BY <1>3, <1>6 DEF TransferField
<1>10. x.pc \in {"sum", "replace"} /\ x.pc \in DownloadPlace /\ ~ (x.pc = "replace" /\ x.verify)
  BY <1>8 DEF DownloadPlace
<1>11. nodeTmp'[n] # 0 => NodeKept(x)
  BY <1>5, <1>9, Zenon DEF NodeKept
<1>12. PlaceGood(n, x) /\ VerifiedGood(n, x) /\ x.pc # "done"
  BY <1>1, <1>3, <1>4, <1>8, <1>10, PlaceChanges
<1>13. transfers[n].pc \in PartPlace /\ transfers[n].pc # "done"
  BY <1>1, <1>2 DEF PartPlace
<1> QED BY <1>1, <1>2, <1>5, <1>7, <1>10, <1>11, <1>12, <1>13, DownloadGoesOn

\* The checksum of the part is taken.
LEMMA HashPartGood ==
  ASSUME TransferGood, NEW n \in DOMAIN transfers, transfers[n].op = "download", hash_part(n)
  PROVE  TransferGood'
<1>1. PICK t : t = transfers[n]
  OBVIOUS
<1>2. t.pc = "sum" /\ UNCHANGED <<staged, nodeTmp, raced>>
  BY <1>1 DEF hash_part, At
<1>3. PlaceGood(n, t) /\ DOMAIN nodeTmp = 1..MaxTransfer /\ (nodeTmp[n] # 0 => NodeKept(t)) /\ DOMAIN t = TransferField
  BY <1>1, <1>2, UnderWay DEF PlaceGood
<1>4. (t.sha # 0 => t.verify) /\ (nodeTmp'[n] # 0 => t.left)
  BY <1>1, <1>2, <1>3 DEF PlaceGood, NodeKept, OnNode
<1>5. DOMAIN nodeTmp' = 1..MaxTransfer /\ \A m \in 1..MaxTransfer : m # n => nodeTmp'[m] = nodeTmp[m]
  BY <1>2, <1>3
<1>6. CASE Fails(n)
  <2>1. PICK x : x = Over("error", t.left)
    OBVIOUS
  <2>2. transfers' = [transfers EXCEPT ![n] = x]
    BY <1>1, <1>6, <2>1 DEF Fails
  <2>3. x.pc = "done" /\ x.result = "error" /\ x.left = t.left
    BY <2>1 DEF Over
  <2> QED BY <1>1, <1>2, <1>4, <1>5, <2>2, <2>3, DownloadOver
<1>7. CASE transfers' = [transfers EXCEPT ![n].pc = "replace", ![n].data = staged[PlainPart]]
  <2>1. PICK x : x = [t EXCEPT !.pc = "replace", !.data = staged[PlainPart]]
    OBVIOUS
  <2>2. transfers' = [transfers EXCEPT ![n] = x]
    BY <1>1, <1>7, <2>1
  <2>3. DOMAIN x = TransferField /\ x.op = t.op /\ x.guest = t.guest /\ x.verify = t.verify /\ x.left = t.left
        /\ x.sha = t.sha /\ x.pc = "replace" /\ x.data = staged[PlainPart]
    BY <1>3, <2>1 DEF TransferField
  <2>4. x.pc \in DownloadPlace /\ (nodeTmp'[n] # 0 => NodeKept(x))
    BY <1>4, <2>3 DEF DownloadPlace, NodeKept
  <2>5. PlaceGood(n, x) /\ VerifiedGood(n, x) /\ x.pc # "done"
    BY <1>1, <1>3, <1>4, <2>3, <2>4, PlaceChanges
  <2>6. transfers[n].pc \in PartPlace /\ transfers[n].pc # "done"
    BY <1>1, <1>2 DEF PartPlace
  <2> QED BY <1>1, <1>2, <1>5, <2>2, <2>3, <2>4, <2>5, <2>6, DownloadGoesOn
<1> QED BY <1>6, <1>7 DEF hash_part

\* What is renamed is what was hashed, unless another download was in the way.
LEMMA ReplaceGood ==
  ASSUME TransferGood, NEW n \in DOMAIN transfers, transfers[n].op = "download", replace(n)
  PROVE  TransferGood'
<1>1. PICK t : t = transfers[n]
  OBVIOUS
<1>2. t.pc = "replace" /\ UNCHANGED <<nodeTmp, raced>>
  BY <1>1 DEF replace, At
<1>3. PlaceGood(n, t) /\ DOMAIN nodeTmp = 1..MaxTransfer /\ (nodeTmp[n] # 0 => NodeKept(t))
      /\ DOMAIN staged = Path /\ n \in 1..MaxTransfer
  BY <1>1, <1>2, UnderWay
<1>4. (t.sha # 0 => t.verify) /\ (nodeTmp'[n] # 0 => t.left)
  BY <1>1, <1>2, <1>3 DEF PlaceGood, NodeKept, OnNode
<1>5. DOMAIN nodeTmp' = 1..MaxTransfer /\ \A m \in 1..MaxTransfer : m # n => nodeTmp'[m] = nodeTmp[m]
  BY <1>2, <1>3
<1>6. raced \/ (t.verify => staged[PlainPart] = 0 \/ staged[PlainPart] = t.data)
  BY <1>1, <1>2 DEF TransferGood, HashedIsThere
<1>7. PICK c : c = staged[PlainPart]
  OBVIOUS
<1>8. PICK bad : bad = (t.verify /\ t.sha # 0 /\ Mismatch(t.sha, t.data))
  OBVIOUS
<1>9. \/ /\ staged' = [staged EXCEPT ![PlainPart] = 0]
         /\ transfers' = [Moved(transfers, "part", "gone") EXCEPT ![n] = Over("error", t.left)]
      \/ /\ ~ bad /\ c # 0
         /\ staged' = [staged EXCEPT ![Plain] = c, ![PlainPart] = 0]
         /\ transfers' = [Moved(Moved(transfers, "plain", "gone"), "part", "plain") EXCEPT
                            ![n] = IF t.sha # 0 THEN Verified(n, c) ELSE Over("success", t.left)]
  BY <1>1, <1>7, <1>8 DEF replace
<1>10. DOMAIN staged' = Path /\ staged'[PlainPart] = 0 /\ \A p \in Path : p # Plain /\ p # PlainPart => staged'[p] = staged[p]
  BY <1>3, <1>9, PathFacts
<1>11. IsSeq(transfers) /\ Fit(transfers)
  BY TransfersFit
<1>12. PICK us : us = Moved(transfers, "part", "gone")
  OBVIOUS
<1>13. IsSeq(us) /\ DOMAIN us = DOMAIN transfers /\ \A m \in DOMAIN transfers : Alike(transfers[m], us[m])
  BY <1>11, <1>12, MovedAlike
<1>14. PICK vs : vs = Moved(transfers, "plain", "gone")
  OBVIOUS
<1>15. IsSeq(vs) /\ Fit(vs) /\ DOMAIN vs = DOMAIN transfers /\ \A m \in DOMAIN transfers : Alike(transfers[m], vs[m])
  BY <1>11, <1>14, MovedAlike
<1>16. PICK ws : ws = Moved(vs, "part", "plain")
  OBVIOUS
<1>17. IsSeq(ws) /\ DOMAIN ws = DOMAIN transfers /\ \A m \in DOMAIN transfers : Alike(vs[m], ws[m])
  BY <1>15, <1>16, MovedAlike
<1>18. \A m \in DOMAIN transfers : Alike(transfers[m], ws[m])
  BY <1>15, <1>17, AlikeTwice
<1>19. PICK x : \/ x = Over("error", t.left) /\ transfers' = [us EXCEPT ![n] = x]
                \/ x = Over("success", t.left) /\ transfers' = [ws EXCEPT ![n] = x]
                \/ x = Verified(n, c) /\ transfers' = [ws EXCEPT ![n] = x] /\ ~ bad /\ c # 0 /\ t.sha # 0
  BY <1>9, <1>12, <1>14, <1>16
<1>20. x.pc = "done" /\ x.left = t.left
  BY <1>1, <1>19 DEF Over, Verified
<1>21. VerifiedGood(n, x)
  <2>1. CASE x \in {Over("error", t.left), Over("success", t.left)}
    BY <2>1 DEF Over, VerifiedGood
  <2>2. CASE x = Verified(n, c) /\ ~ bad /\ c # 0 /\ t.sha # 0
    <3>1. x.op = "download" /\ x.sha = t.sha /\ x.got = c
      BY <1>1, <2>2 DEF Verified
    <3>2. t.verify /\ t.sha = t.data
      BY <1>4, <1>8, <2>2 DEF Mismatch
    <3>3. raced \/ c = t.data
      BY <1>6, <1>7, <2>2, <3>2
    <3> QED BY <3>1, <3>2, <3>3 DEF VerifiedGood
  <2> QED BY <1>19, <2>1, <2>2
<1>22. x.pc \notin PartPlace /\ (nodeTmp'[n] # 0 => NodeKept(x))
  BY <1>4, <1>20 DEF PartPlace, NodeKept
<1>23. PICK ts : (ts = us \/ ts = ws) /\ transfers' = [ts EXCEPT ![n] = x]
  BY <1>19
<1>24. IsSeq(ts) /\ DOMAIN ts = DOMAIN transfers /\ \A m \in DOMAIN transfers : Alike(transfers[m], ts[m])
  BY <1>13, <1>17, <1>18, <1>23
<1> QED BY <1>1, <1>2, <1>5, <1>10, <1>20, <1>21, <1>22, <1>23, <1>24, PlainFilesGood

\* A download is cancelled.
LEMMA DownloadCancelledGood ==
  ASSUME TransferGood, NEW n \in DOMAIN transfers, transfers[n].op = "download", download_cancelled(n)
  PROVE  TransferGood'
<1>1. transfers[n].pc # "done" /\ UNCHANGED <<staged, nodeTmp, raced>>
  BY DEF download_cancelled
<1>2. DOMAIN nodeTmp = 1..MaxTransfer
  BY DEF TransferGood
<1>3. PICK x : x = Over("error", TRUE)
  OBVIOUS
<1>4. transfers' = [transfers EXCEPT ![n] = x]
  BY <1>3 DEF download_cancelled
<1>5. x.pc = "done" /\ x.result = "error" /\ x.left
  BY <1>3 DEF Over
<1> QED BY <1>1, <1>2, <1>4, <1>5, DownloadOver

\* Every step of a download.
LEMMA DownloadStepGood ==
  ASSUME TransferGood, NEW n \in DOMAIN transfers, DownloadStep(n)
  PROVE  TransferGood'
<1>1. transfers[n].op = "download"
  BY DEF DownloadStep
<1>2. \/ \E sum \in BOOLEAN : look_at_source(n, sum)
      \/ look_fails(n) \/ pct_pull(n) \/ get_begins(n) \/ get_ends(n) \/ get_fails(n) \/ hash_part(n)
      \/ replace(n) \/ download_cancelled(n)
      \/ \E ok \in BOOLEAN : pull_fails(n, ok) \/ undo(n, ok) \/ tidy(n, ok)
  BY DEF DownloadStep
<1>3. ASSUME NEW ok \in BOOLEAN, undo(n, ok)
      PROVE  TransferGood'
  BY <1>1, <1>3, UndoGood
<1>4. ASSUME NEW ok \in BOOLEAN, tidy(n, ok)
      PROVE  TransferGood'
  BY <1>1, <1>4, TidyGood
<1>5. CASE (\E sum \in BOOLEAN : look_at_source(n, sum)) \/ look_fails(n)
  BY <1>1, <1>5, LookStepsGood
<1>6. CASE pct_pull(n) \/ \E ok \in BOOLEAN : pull_fails(n, ok)
  BY <1>1, <1>6, PullStepsGood
<1>7. CASE get_begins(n) \/ get_ends(n) \/ get_fails(n) \/ hash_part(n) \/ replace(n) \/ download_cancelled(n)
  BY <1>1, <1>7, GetBeginsGood, GetStepsGood, HashPartGood, ReplaceGood, DownloadCancelledGood
<1> QED BY <1>2, <1>3, <1>4, <1>5, <1>6, <1>7

\* A transfer begins with a number, and so with files, that nobody has.
LEMMA BeginGood ==
  ASSUME TransferGood, NEW op, NEW g \in Guest, NEW verify \in BOOLEAN, NEW pc, Begin(op, g, verify, pc),
         UNCHANGED <<staged, nodeTmp, raced>>,
         <<op, pc>> \in {<<"link", "pending">>, <<"fetch", "fetch">>, <<"upload", "check">>, <<"download", "look">>}
  PROVE  TransferGood'
<1>1. IsSeq(transfers) /\ Len(transfers) < MaxTransfer
  BY DEF TransferGood, Begin
<1>2. PICK x : x = [op |-> op, guest |-> g, verify |-> verify, pc |-> pc, sha |-> 0, data |-> 0,
                    failed |-> FALSE, left |-> FALSE, open |-> "none"]
  OBVIOUS
<1>3. DOMAIN x = TransferField /\ x.op = op /\ x.guest = g /\ x.pc = pc /\ x.sha = 0 /\ ~ x.left
  BY <1>2 DEF TransferField
<1>4. PICK k : k = Len(transfers) + 1
  OBVIOUS
<1>5. PICK ts : ts = Append(transfers, x)
  OBVIOUS
<1>6. transfers' = ts
  BY <1>2, <1>5 DEF Begin
<1>7. /\ IsSeq(ts) /\ DOMAIN ts = DOMAIN transfers \cup {k} /\ Len(ts) = k
      /\ k \in Nat \ {0} /\ k \notin DOMAIN transfers
      /\ ts[k] = x
      /\ \A j \in DOMAIN transfers : ts[j] = transfers[j]
  BY <1>1, <1>4, <1>5, IsSeqAppend
<1>8. k <= MaxTransfer /\ k \in 1..MaxTransfer
  BY <1>1, <1>4, <1>7, TransferBounds, IsSeqIs
<1>9. x.pc # "done" /\ x.pc \notin PartPlace /\ PlaceGood(k, x)
  BY <1>3 DEF PlaceGood, PushPlace, DownloadPlace, PartPlace
<1>10. VerifiedGood(k, x) /\ HashedIsThere(x)
  BY <1>9 DEF VerifiedGood, HashedIsThere, PartPlace
<1>11. \A n \in DOMAIN ts : (ts[n].pc # "done" => PlaceGood(n, ts[n])) /\ VerifiedGood(n, ts[n])
  BY <1>7, <1>9, <1>10 DEF TransferGood
<1>12. ASSUME NEW n \in 1..MaxTransfer
       PROVE  StagedGood(n)' /\ NodeTmpGood(n)'
  <2>1. StagedGood(n) /\ NodeTmpGood(n)
    BY DEF TransferGood
  <2>2. n \in DOMAIN transfers => n \in DOMAIN ts /\ ts[n] = transfers[n]
    BY <1>7
  <2> QED BY <1>6, <2>1, <2>2 DEF StagedGood, NodeTmpGood
<1>13. raced \/ ((\A m, n \in DOMAIN ts : ts[m].pc \in PartPlace /\ ts[n].pc \in PartPlace => m = n)
                 /\ \A n \in DOMAIN ts : HashedIsThere(ts[n]))
  BY <1>7, <1>9, <1>10 DEF TransferGood, OneInPart
<1>14. DOMAIN staged = Path /\ DOMAIN nodeTmp = 1..MaxTransfer
  BY DEF TransferGood
<1>15. IsSeq(transfers) /\ IsSeq(transfers')
  BY <1>1, <1>6, <1>7
<1>16. \A n \in DOMAIN transfers' : (transfers'[n].pc # "done" => PlaceGood(n, transfers'[n])) /\ VerifiedGood(n, transfers[n])'
  BY <1>6, <1>11 DEF VerifiedGood
<1>17. raced' \/ (OneInPart' /\ \A n \in DOMAIN transfers' : HashedIsThere(transfers[n])')
  BY <1>6, <1>13 DEF OneInPart, HashedIsThere
<1>18. Len(transfers') <= MaxTransfer
  BY <1>6, <1>7, <1>8
<1> QED BY <1>12, <1>14, <1>15, <1>16, <1>17, <1>18 DEF TransferGood

\* A staged file is deleted, in use or not.
LEMMA DeleteGood ==
  ASSUME TransferGood, NEW p \in Path, delete_transfer(p)
  PROVE  TransferGood'
<1>1. UNCHANGED <<nodeTmp, raced>> /\ DOMAIN staged = Path /\ DOMAIN nodeTmp = 1..MaxTransfer
  BY DEF delete_transfer, TransferGood
<1>2. staged' = [staged EXCEPT ![p] = 0]
  BY DEF delete_transfer
<1>3. DOMAIN staged' = Path /\ \A q \in Path : staged'[q] \in {0, staged[q]}
  BY <1>1, <1>2
<1>4. PICK ts : ts = transfers'
  OBVIOUS
<1>5. ts \in {Moved(transfers, "plain", "gone"), Moved(transfers, "part", "gone"), transfers}
  <2>1. p = Plain => ts = Moved(transfers, "plain", "gone")
    BY <1>4 DEF delete_transfer, Plain, PlainPart
  <2>2. p = PlainPart => ts = Moved(transfers, "part", "gone")
    BY <1>4 DEF delete_transfer, Plain, PlainPart
  <2>3. p # Plain /\ p # PlainPart => ts = transfers
    BY <1>4 DEF delete_transfer
  <2> QED BY <2>1, <2>2, <2>3
<1>6. IsSeq(transfers) /\ Fit(transfers) /\ \A m \in DOMAIN transfers : Alike(transfers[m], transfers[m])
  BY TransfersFit DEF Alike
<1>7. IsSeq(ts) /\ DOMAIN ts = DOMAIN transfers /\ \A m \in DOMAIN transfers : Alike(transfers[m], ts[m])
  <2>1. CASE ts = transfers
    BY <1>6, <2>1
  <2>2. CASE ts = Moved(transfers, "plain", "gone")
    BY <1>6, <2>2, MovedAlike
  <2>3. CASE ts = Moved(transfers, "part", "gone")
    BY <1>6, <2>3, MovedAlike
  <2> QED BY <1>5, <2>1, <2>2, <2>3
<1>8. ASSUME NEW m \in DOMAIN transfers
      PROVE  /\ ts[m].pc = transfers[m].pc /\ (ts[m].pc = "done" => ts[m] = transfers[m])
             /\ ts[m].pc # "done" => PlaceGood(m, ts[m])
             /\ HasOwn(transfers[m]) => HasOwn(ts[m])
             /\ NodeKept(transfers[m]) => NodeKept(ts[m])
             /\ ts[m].pc = "replace" => ts[m] = transfers[m]
  <2>1. transfers[m].pc # "done" => PlaceGood(m, transfers[m])
    BY DEF TransferGood
  <2>2. PICK s : s = transfers[m]
    OBVIOUS
  <2>3. PICK t : t = ts[m]
    OBVIOUS
  <2>4. Alike(s, t)
    BY <1>7, <2>2, <2>3
  <2>5. t.pc = "replace" => t = s
    <3>1. t.pc = s.pc
      BY <2>1, <2>2, <2>4, AlikeKeeps
    <3> QED BY <2>4, <3>1 DEF Alike
  <2> QED BY <2>1, <2>2, <2>3, <2>4, <2>5, AlikeKeeps
<1>9. Len(ts) <= MaxTransfer
  <2>1. Len(ts) \in Nat /\ DOMAIN ts = 1..Len(ts) /\ Len(transfers) \in Nat /\ DOMAIN transfers = 1..Len(transfers)
    BY <1>6, <1>7, IsSeqIs
  <2>2. PICK a \in Nat, b \in Nat : a = Len(ts) /\ b = Len(transfers)
    BY <2>1
  <2>3. 1..a = 1..b
    BY <1>7, <2>1, <2>2
  <2>4. a = b
    BY <2>3
  <2> QED BY <2>2, <2>4 DEF TransferGood
<1>10. \A n \in DOMAIN ts : (ts[n].pc # "done" => PlaceGood(n, ts[n])) /\ VerifiedGood(n, ts[n])
  BY <1>7, <1>8 DEF TransferGood, VerifiedGood
<1>11. ASSUME NEW n \in 1..MaxTransfer
       PROVE  StagedGood(n)' /\ NodeTmpGood(n)'
  <2>1. StagedGood(n) /\ NodeTmpGood(n)
    BY DEF TransferGood
  <2>2. staged'[Own(n)] \in {0, staged[Own(n)]} /\ staged'[OwnPart(n)] \in {0, staged[OwnPart(n)]}
    BY <1>3, PathFacts
  <2>3. StagedGood(n)'
    BY <1>4, <1>7, <1>8, <2>1, <2>2 DEF StagedGood
  <2>4. NodeTmpGood(n)'
    BY <1>1, <1>4, <1>7, <1>8, <2>1 DEF NodeTmpGood
  <2> QED BY <2>3, <2>4
<1>12. raced' \/ (OneInPart' /\ \A n \in DOMAIN transfers' : HashedIsThere(transfers[n])')
  <2>1. staged'[PlainPart] \in {0, staged[PlainPart]}
    BY <1>3, TransferBounds DEF Path, PlainPart
  <2>2. SUFFICES ASSUME ~ raced'
                 PROVE  OneInPart' /\ \A n \in DOMAIN transfers' : HashedIsThere(transfers[n])'
    OBVIOUS
  <2>3. OneInPart /\ \A n \in DOMAIN transfers : HashedIsThere(transfers[n])
    BY <1>1, <2>2 DEF TransferGood
  <2>4. OneInPart'
    BY <1>4, <1>7, <1>8, <2>3 DEF OneInPart
  <2>5. \A n \in DOMAIN transfers' : HashedIsThere(transfers[n])'
    BY <1>4, <1>7, <1>8, <2>1, <2>3 DEF HashedIsThere
  <2> QED BY <2>4, <2>5
<1>13. IsSeq(transfers')
  BY <1>4, <1>7
<1>14. \A n \in DOMAIN transfers' : (transfers'[n].pc # "done" => PlaceGood(n, transfers'[n])) /\ VerifiedGood(n, transfers[n])'
  BY <1>1, <1>4, <1>10 DEF VerifiedGood
<1>15. Len(transfers') <= MaxTransfer
  BY <1>4, <1>9
<1> QED BY <1>1, <1>3, <1>11, <1>12, <1>13, <1>14, <1>15 DEF TransferGood

\* Every step of the transfers keeps their invariant,
LEMMA TransferStepsGood ==
  ASSUME TransferGood, TransferNext
  PROVE  TransferGood'
<1>1. ASSUME NEW g \in Guest, NEW verify \in BOOLEAN,
             \/ proxmox_upload_link(g, verify) \/ fetch_url(g, verify) \/ upload_file(g, verify)
             \/ \E overwrite \in BOOLEAN : download_file(g, verify, overwrite)
      PROVE  TransferGood'
  <2>1. \/ Begin("link", g, verify, "pending") \/ Begin("fetch", g, verify, "fetch")
        \/ Begin("upload", g, verify, "check") \/ Begin("download", g, verify, "look")
    BY <1>1, Zenon DEF proxmox_upload_link, issue, fetch_url, upload_file, download_file
  <2>2. UNCHANGED <<staged, nodeTmp, raced>>
    BY <1>1 DEF proxmox_upload_link, fetch_url, upload_file, download_file
  <2> QED BY <2>1, <2>2, BeginGood
<1>2. ASSUME NEW n \in DOMAIN transfers, PushStep(n) \/ DownloadStep(n)
      PROVE  TransferGood'
  BY <1>2, PushStepGood, DownloadStepGood
<1>3. ASSUME NEW p \in Path, delete_transfer(p)
      PROVE  TransferGood'
  BY <1>3, DeleteGood
<1> QED BY <1>1, <1>2, <1>3 DEF TransferNext

\* and so does a step that leaves them alone.
LEMMA TransferStutter ==
  ASSUME TransferGood, UNCHANGED <<transfers, staged, nodeTmp, raced>>
  PROVE  TransferGood'
BY DEF TransferGood, IsSeq, VerifiedGood, StagedGood, NodeTmpGood, OneInPart, HashedIsThere

\* The invariant holds before the first transfer,
LEMMA TransferInitially ==
  ASSUME TransferInit
  PROVE  TransferGood
<1>1. transfers = <<>> /\ raced = FALSE /\ nodeTmp = [n \in 1..MaxTransfer |-> 0]
  BY DEF TransferInit
<1>2. IsSeq(transfers) /\ Len(transfers) = 0 /\ DOMAIN transfers = {}
  BY <1>1 DEF IsSeq
<1>3. \E c : staged = [p \in Path |-> IF p = <<0, "file">> THEN c ELSE 0]
  BY DEF TransferInit
<1>4. DOMAIN staged = Path /\ DOMAIN nodeTmp = 1..MaxTransfer
  BY <1>1, <1>3
<1>5. ASSUME NEW n \in 1..MaxTransfer
      PROVE  StagedGood(n) /\ NodeTmpGood(n)
  <2>1. Own(n) \in Path /\ OwnPart(n) \in Path /\ Own(n) # <<0, "file">> /\ OwnPart(n) # <<0, "file">>
    BY PathFacts DEF Plain
  <2>2. staged[Own(n)] = 0 /\ staged[OwnPart(n)] = 0 /\ nodeTmp[n] = 0
    BY <1>1, <1>3, <2>1
  <2> QED BY <2>2 DEF StagedGood, NodeTmpGood
<1>6. OneInPart
  BY <1>2 DEF OneInPart
<1> QED BY <1>2, <1>4, <1>5, <1>6, TransferBounds DEF TransferGood

\* and it implies the two properties of transfers.
LEMMA TransferGoodHolds ==
  ASSUME TransferGood
  PROVE  VerifiedIsTrue /\ NothingLeftBehind
<1>1. ASSUME NEW n \in DOMAIN transfers, transfers[n].pc = "done", transfers[n].result = "verified"
      PROVE  /\ transfers[n].op \in {"link", "fetch", "upload", "download"}
             /\ transfers[n].op \in {"link", "fetch"} => transfers[n].got = n
             /\ transfers[n].op = "upload" => transfers[n].got = transfers[n].sha
             /\ transfers[n].op = "download" => raced \/ transfers[n].got = transfers[n].sha
  BY <1>1 DEF TransferGood, VerifiedGood
<1>2. VerifiedIsTrue
  BY <1>1 DEF VerifiedIsTrue, At
<1>3. ASSUME NEW n \in DOMAIN transfers, transfers[n].pc = "done"
      PROVE  staged[Own(n)] = 0 /\ staged[OwnPart(n)] = 0 /\ (nodeTmp[n] # 0 => transfers[n].left)
  <2>1. n \in 1..MaxTransfer
    BY TransferNumbers
  <2>2. StagedGood(n) /\ NodeTmpGood(n)
    BY <2>1 DEF TransferGood
  <2> QED BY <1>3, <2>2 DEF StagedGood, NodeTmpGood, HasOwn, NodeKept, PushPlace, OnNode
<1>4. NothingLeftBehind
  BY <1>3 DEF NothingLeftBehind
<1> QED BY <1>2, <1>4

-----------------------------------------------------------------------------
(* The components together.                                                *)

NodeGood == IloGood /\ SshGood /\ ExecGood /\ TransferGood

\* One step of NodeTools is a step of one component and leaves the others alone,
\* except that proxmox_run in a container is a step of two.
LEMMA NodeStepGood ==
  ASSUME NodeGood, NodeStep
  PROVE  NodeGood'
<1>0. IloGood /\ SshGood /\ ExecGood /\ TransferGood
  BY DEF NodeGood
<1>1. ASSUME UNCHANGED iloVars
      PROVE  IloGood'
  BY <1>0, <1>1, IloStutter
<1>2. ASSUME UNCHANGED sshVars
      PROVE  SshGood'
  <2>1. UNCHANGED <<pins, forgotten, cache, conns, uses, displaced>>
    BY <1>2 DEF sshVars
  <2> QED BY <1>0, <2>1, SshStutter
<1>3. ASSUME UNCHANGED <<toolVars, execVars>>
      PROVE  ExecGood'
  <2>1. UNCHANGED <<calls, execs, exited>>
    BY <1>3 DEF toolVars, execVars
  <2> QED BY <1>0, <2>1, ExecStutter
<1>4. ASSUME UNCHANGED transferVars
      PROVE  TransferGood'
  <2>1. UNCHANGED <<transfers, staged, nodeTmp, raced>>
    BY <1>4 DEF transferVars
  <2> QED BY <1>0, <2>1, TransferStutter
<1>5. CASE ToolNext /\ UNCHANGED <<execVars, sshVars, transferVars, iloVars>>
  <2>1. ExecGood'
    BY <1>0, <1>5, ToolStepsGood
  <2> QED BY <1>1, <1>2, <1>4, <1>5, <2>1 DEF NodeGood
<1>6. CASE ExecNext /\ UNCHANGED <<sshVars, transferVars, iloVars>>
  <2>1. ExecGood'
    BY <1>0, <1>6, ExecStepsGood
  <2> QED BY <1>1, <1>2, <1>4, <1>6, <2>1 DEF NodeGood
<1>7. CASE SshNext /\ UNCHANGED <<toolVars, execVars, transferVars, iloVars>>
  <2>1. SshGood'
    BY <1>0, <1>7, SshStepsGood
  <2> QED BY <1>1, <1>3, <1>4, <1>7, <2>1 DEF NodeGood
<1>8. CASE TransferNext /\ UNCHANGED <<toolVars, execVars, sshVars, iloVars>>
  <2>1. TransferGood'
    BY <1>0, <1>8, TransferStepsGood
  <2> QED BY <1>1, <1>2, <1>3, <1>8, <2>1 DEF NodeGood
<1>9. CASE IloNext /\ UNCHANGED <<toolVars, execVars, sshVars, transferVars>>
  <2>1. IloGood'
    BY <1>0, <1>9, IloStep
  <2> QED BY <1>2, <1>3, <1>4, <1>9, <2>1 DEF NodeGood
<1>10. ASSUME NEW w \in Worker, run_in_container(w)
       PROVE  NodeGood'
  <2>1. exec_command_async(NodeHost) /\ UNCHANGED <<transferVars, iloVars>>
    BY <1>10 DEF run_in_container
  <2>2. SshGood'
    BY <1>0, <2>1, SshBegins
  <2>3. ExecGood'
    BY <1>0, <1>10, ContainerRunGood
  <2> QED BY <1>1, <1>4, <2>1, <2>2, <2>3 DEF NodeGood
<1> QED BY <1>5, <1>6, <1>7, <1>8, <1>9, <1>10 DEF NodeStep

\* The four invariants hold together in every state of NodeTools.
THEOREM NodeInductive == NodeSpec => []NodeGood
<1>1. NodeInit => NodeGood
  BY IloInitially, SshInitially, ExecInitially, TransferInitially DEF NodeInit, NodeGood
<1>2. NodeGood /\ [NodeNext]_nodeVars => NodeGood'
  <2> SUFFICES ASSUME NodeGood, [NodeNext]_nodeVars
               PROVE  NodeGood'
    OBVIOUS
  <2>1. CASE NodeNext
    BY <2>1, NodeStepGood DEF NodeNext
  <2>2. CASE UNCHANGED nodeVars
    <3>1. IloGood /\ SshGood /\ ExecGood /\ TransferGood
      BY DEF NodeGood
    <3>2. UNCHANGED iloVars
      BY <2>2 DEF nodeVars
    <3>3. UNCHANGED <<pins, forgotten, cache, conns, uses, displaced>>
      BY <2>2 DEF nodeVars, sshVars
    <3>4. UNCHANGED <<calls, execs, exited>>
      BY <2>2 DEF nodeVars, toolVars, execVars
    <3>5. UNCHANGED <<transfers, staged, nodeTmp, raced>>
      BY <2>2 DEF nodeVars, transferVars
    <3> QED BY <3>1, <3>2, <3>3, <3>4, <3>5, IloStutter, SshStutter, ExecStutter, TransferStutter DEF NodeGood
  <2> QED BY <2>1, <2>2
<1> QED BY <1>1, <1>2, PTL DEF NodeSpec

\* The endpoint that a call to an iLO is given led there at that moment, whenever
\* tunnels drop, attempts fail and calls are cancelled, unless the tunnel is one
\* whose opener was cancelled before it had its port, or a call began while
\* another one was opening a tunnel.
THEOREM RequestsReachTheIlo == NodeSpec => []EndpointLeads
<1>1. NodeGood => EndpointLeads
  BY DEF NodeGood, IloGood
<1> QED BY <1>1, NodeInductive, PTL

\* Keys are pinned on first use: at most one per address, and a connection is only
\* made to a server with it, whatever the server becomes and however first
\* connections interleave, unless the operator removed the pin in between.
THEOREM PinsHold == NodeSpec => []PinHolds
<1>1. NodeGood => PinHolds
  BY SshGoodHolds DEF NodeGood
<1> QED BY <1>1, NodeInductive, PTL

\* No SSH connection is left open and forgotten, other than one that a later
\* connection displaced in the cache because both uses had missed it.
THEOREM NoConnectionIsLost == NodeSpec => []ConnectionsAccounted
<1>1. NodeGood => ConnectionsAccounted
  BY SshGoodHolds DEF NodeGood
<1> QED BY <1>1, NodeInductive, PTL

\* Retries, and requests of several guests in one call, apply a change at most
\* once to a guest, and an answer that says that nothing was done is true.
THEOREM ChangesApplyOnce == NodeSpec => []AppliedOnce
<1>1. NodeGood => AppliedOnce
  BY ExecGoodHolds DEF NodeGood
<1> QED BY <1>1, NodeInductive, PTL

\* A command that is reported as completed has its output, whichever polls of it
\* run on other threads.
THEOREM CompletedCommandsHaveOutput == NodeSpec => []CompletedHasOutput
<1>1. NodeGood => CompletedHasOutput
  BY ExecGoodHolds DEF NodeGood
<1> QED BY <1>1, NodeInductive, PTL

\* A transfer that is reported as verified moved the bytes it says, whatever other
\* transfers and deletions do to the shared files in between.
THEOREM VerifiedTransfersAreTrue == NodeSpec => []VerifiedIsTrue
<1>1. NodeGood => VerifiedIsTrue
  BY TransferGoodHolds DEF NodeGood
<1> QED BY <1>1, NodeInductive, PTL

\* A transfer that has ended, however it did, left no file of its own in the
\* staging directory, and none on the node without saying so.
THEOREM TransfersLeaveNothing == NodeSpec => []NothingLeftBehind
<1>1. NodeGood => NothingLeftBehind
  BY TransferGoodHolds DEF NodeGood
<1> QED BY <1>1, NodeInductive, PTL
=============================================================================
