------------------------------- MODULE Usage -------------------------------
(***************************************************************************)
(* The spending meter of the dashboard chat (class UsageStore of           *)
(* src/src/beaconmcp/dashboard/usage.py): an append-only ledger, and for   *)
(* every client the window of five hours that its first turn opens.        *)
(* Amounts count model rounds; the price list is left out.                 *)
(***************************************************************************)
EXTENDS Integers, Sequences

CONSTANTS
  Client,
  FIVE_HOURS, SEVEN_DAYS,  \* lengths of the two windows
  LIMIT_5H, LIMIT_WEEK,    \* the two caps, 0 for none
  MaxTime                  \* bound on the clock

ASSUME UsageAssumption ==
  /\ FIVE_HOURS \in Nat \ {0} /\ SEVEN_DAYS \in Nat \ {0}
  /\ LIMIT_5H \in Nat /\ LIMIT_WEEK \in Nat /\ MaxTime \in Nat

VARIABLES
  now,
  usage_events,  \* the ledger
  sessions_5h    \* usage_5h_sessions: start and cost of each client's window

usageVars == <<usage_events, sessions_5h>>

Event  == [client : Client, ts : Nat, cost : Nat]
Window == [started_at : Nat, cost : Nat]
NoRow  == [started_at |-> 0, cost |-> 0]

UsageTypeOK ==
  /\ now \in 0..MaxTime
  /\ usage_events \in Seq(Event)
  /\ sessions_5h \in [Client -> Window]

UsageInit ==
  /\ now = 0
  /\ usage_events = <<>>
  /\ sessions_5h = [c \in Client |-> NoRow]

\* The sum of a sequence of amounts.
Total(amounts) ==
  LET sum[n \in 0..Len(amounts)] == IF n = 0 THEN 0 ELSE sum[n - 1] + amounts[n]
  IN sum[Len(amounts)]

\* What event e counts for client c since time t.
Counted(e, c, t) == IF e.client = c /\ e.ts >= t THEN e.cost ELSE 0

\* What client c has in the ledger since time t.
SpentSince(c, t) == Total([i \in DOMAIN usage_events |-> Counted(usage_events[i], c, t)])

(* Definitions whose names end in Bug are not part of the specification:   *)
(* each is a defect the property named in PROJECT.json must detect.        *)
AppliedBug(row, cost) ==
  IF now - row.started_at >= FIVE_HOURS
    THEN [started_at |-> now, cost |-> row.cost + cost]
    ELSE [row EXCEPT !.cost = @ + cost]
Applied(row, cost) ==
  IF row = NoRow \/ now - row.started_at >= FIVE_HOURS
    THEN [started_at |-> now, cost |-> cost]
    ELSE [row EXCEPT !.cost = @ + cost]

record_turn(c, cost) ==
  /\ usage_events' = Append(usage_events, [client |-> c, ts |-> now, cost |-> cost])
  /\ sessions_5h' = [sessions_5h EXCEPT ![c] = Applied(@, cost)]

\* snapshot
Spent5h(c) == IF now - sessions_5h[c].started_at >= FIVE_HOURS THEN 0 ELSE sessions_5h[c].cost
SpentWeek(c) == SpentSince(c, now - SEVEN_DAYS)

\* check_budget: whether a turn may begin.
WithinBudget(c) ==
  /\ LIMIT_5H = 0 \/ Spent5h(c) < LIMIT_5H
  /\ LIMIT_WEEK = 0 \/ SpentWeek(c) < LIMIT_WEEK

\* The window row and the ledger, written one after the other, never disagree:
\* the row holds exactly what the ledger has since the window opened.
WindowAgrees ==
  \A c \in Client : sessions_5h[c].cost = SpentSince(c, sessions_5h[c].started_at)
=============================================================================
