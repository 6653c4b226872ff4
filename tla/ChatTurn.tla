------------------------------ MODULE ChatTurn ------------------------------
(***************************************************************************)
(* A turn of the dashboard chat: api_chat_stream and api_chat_confirm      *)
(* (src/src/beaconmcp/dashboard/app.py), the tool loop of GeminiChatEngine *)
(* (dashboard/chat.py) and class ConfirmationStore                         *)
(* (dashboard/confirmations.py), billed through Usage.                     *)
(*                                                                         *)
(* Turns are coroutines of one event loop; they give way at every event    *)
(* that they send and at every await, so a step runs from one such point   *)
(* to the next.  The k-th tool call of a turn is the pair of turn and k.   *)
(* Gemini may name its calls; if it does not, the engine numbers them      *)
(* within the turn.  The texts, the arguments and the stored messages are  *)
(* left out.                                                               *)
(***************************************************************************)
EXTENDS Usage

CONSTANTS
  Turn,             \* turns
  Session,          \* dashboard sessions
  session,          \* the session that each turn runs in
  client_of,        \* the client of a session
  Named,            \* whether Gemini names its calls
  MAX_TOOL_ROUNDS,
  MAX_RETRIES       \* length of the list of backoffs

ASSUME ChatAssumption ==
  /\ session \in [Turn -> Session]
  /\ client_of \in [Session -> Client]
  /\ Named \in BOOLEAN
  /\ MAX_TOOL_ROUNDS \in Nat \ {0} /\ MAX_RETRIES \in Nat
  /\ "none" \notin Turn

VARIABLES
  pc,       \* where it is
  calls,    \* how many tool calls it made
  attempt,  \* how often it started over
  usage,    \* usage_event: the rounds to bill, 0 for none
  issued,   \* issued_call_ids
  future,   \* the future of its last confirmation
  pending,  \* ConfirmationStore._pending: the turn that waits under each id
  clicks,   \* history: what the user answered on each card
  ran       \* history: the calls that ran and needed approval

turnVars == <<pc, calls, attempt, usage, issued, future, pending, clicks, ran>>
vars == <<now, usageVars, turnVars>>

Call   == Turn \X (1..MAX_TOOL_ROUNDS)
NoTurn == "none"
CallId == (Turn \cup {"fc"}) \X (1..MAX_TOOL_ROUNDS)

(* Definitions whose names end in Bug are not part of the specification:   *)
(* each is a defect the property named in PROJECT.json must detect.        *)
IdOfBug(c) == <<"fc", c[2]>>
IdOf(c)    == IF Named THEN c ELSE <<"fc", c[2]>>

Current(t) == <<t, calls[t]>>

ChatTypeOK ==
  /\ UsageTypeOK
  /\ pc \in [Turn -> {"idle", "model", "asked", "confirm", "tool", "finish", "bill", "done"}]
  /\ calls \in [Turn -> 0..MAX_TOOL_ROUNDS]
  /\ attempt \in [Turn -> 0..MAX_RETRIES]
  /\ usage \in [Turn -> 0..(MAX_TOOL_ROUNDS + 1)]
  /\ issued \in [Turn -> SUBSET CallId]
  /\ future \in [Turn -> {"waiting", "approved", "rejected", "cancelled"}]
  /\ pending \in [CallId -> Turn \cup {NoTurn}]
  /\ clicks \in [Call -> {"none", "approved", "rejected"}]
  /\ ran \subseteq Call

Init ==
  /\ UsageInit
  /\ pc = [t \in Turn |-> "idle"]
  /\ calls = [t \in Turn |-> 0]
  /\ attempt = [t \in Turn |-> 0]
  /\ usage = [t \in Turn |-> 0]
  /\ issued = [t \in Turn |-> {}]
  /\ future = [t \in Turn |-> "waiting"]
  /\ pending = [i \in CallId |-> NoTurn]
  /\ clicks = [c \in Call |-> "none"]
  /\ ran = {}

Goto(t, p) == pc' = [pc EXCEPT ![t] = p]

-----------------------------------------------------------------------------
(* ConfirmationStore.                                                      *)

create(t) ==
  /\ pending' = [pending EXCEPT ![IdOf(Current(t))] = t]
  /\ future' = [future EXCEPT ![t] = "waiting"]

\* cancel, for every id of a set: whoever waits there is cancelled.
cancel(ids) ==
  /\ pending' = [i \in CallId |-> IF i \in ids THEN NoTurn ELSE pending[i]]
  /\ future' = [u \in Turn |-> IF (\E i \in ids : pending[i] = u) /\ future[u] = "waiting"
                                 THEN "cancelled" ELSE future[u]]

MayResolve(s, i) == pending[i] # NoTurn /\ session[pending[i]] = s

resolve(s, i, answer) ==
  IF MayResolve(s, i) /\ future[pending[i]] = "waiting"
    THEN /\ future' = [future EXCEPT ![pending[i]] = answer]
         /\ pending' = [pending EXCEPT ![i] = NoTurn]
    ELSE UNCHANGED <<future, pending>>

Shown(c) == IdOf(c) \in issued[c[1]] \/ (pc[c[1]] = "asked" /\ c = Current(c[1]))

\* api_chat_confirm: session s answers under the id of a card that was shown.
\* The card is in the browser of the turn's own session, and it may be answered
\* before the engine waits for it or after it gave up.
api_chat_confirm(s, c, answer) ==
  /\ Shown(c)
  /\ clicks[c] = "none"
  /\ resolve(s, IdOf(c), answer)
  /\ clicks' = IF s = session[c[1]] THEN [clicks EXCEPT ![c] = answer] ELSE clicks
  /\ UNCHANGED <<now, usageVars, pc, calls, attempt, usage, issued, ran>>

-----------------------------------------------------------------------------
(* A turn.                                                                 *)

begin(t) ==
  /\ pc[t] = "idle"
  /\ WithinBudget(client_of[session[t]])
  /\ Goto(t, "model")
  /\ UNCHANGED <<now, usageVars, calls, attempt, usage, issued, future, pending,
                 clicks, ran>>

\* The model calls a tool, of which only the first per round counts; one that
\* needs approval puts a card on the screen.
model_calls(t) ==
  /\ pc[t] = "model"
  /\ calls' = [calls EXCEPT ![t] = @ + 1]
  /\ \E p \in {"asked", "tool"} : Goto(t, p)
  /\ UNCHANGED <<now, usageVars, attempt, usage, issued, future, pending, clicks, ran>>

model_answers(t) ==
  /\ pc[t] = "model"
  /\ usage' = [usage EXCEPT ![t] = calls[t] + 1]
  /\ Goto(t, "finish")
  /\ UNCHANGED <<now, usageVars, calls, attempt, issued, future, pending, clicks, ran>>

Retryable(t) == calls[t] = 0 /\ attempt[t] < MAX_RETRIES

\* A transient error before the turn has sent anything starts it over.
model_retry(t) ==
  /\ pc[t] = "model"
  /\ Retryable(t)
  /\ attempt' = [attempt EXCEPT ![t] = @ + 1]
  /\ UNCHANGED <<now, usageVars, pc, calls, usage, issued, future, pending, clicks, ran>>

\* Any other error ends it, with no usage to bill.
model_fails(t) ==
  /\ pc[t] = "model"
  /\ Goto(t, "finish")
  /\ UNCHANGED <<now, usageVars, calls, attempt, usage, issued, future, pending,
                 clicks, ran>>

\* _confirm, once the card has been sent.
confirm(t) ==
  /\ pc[t] = "asked"
  /\ create(t)
  /\ issued' = [issued EXCEPT ![t] = @ \cup {IdOf(Current(t))}]
  /\ Goto(t, "confirm")
  /\ UNCHANGED <<now, usageVars, calls, attempt, usage, clicks, ran>>

\* After a call: back to the model, or out at the limit, billed.
Resume(t) ==
  IF calls[t] < MAX_TOOL_ROUNDS
    THEN Goto(t, "model") /\ UNCHANGED usage
    ELSE Goto(t, "finish") /\ usage' = [usage EXCEPT ![t] = calls[t]]

ApprovedBug(t) == future[t] # "rejected"
Approved(t)    == future[t] = "approved"

confirm_approved(t) ==
  /\ pc[t] = "confirm"
  /\ Approved(t)
  /\ ran' = ran \cup {Current(t)}
  /\ Goto(t, "tool")
  /\ UNCHANGED <<now, usageVars, calls, attempt, usage, issued, future, pending, clicks>>

confirm_rejected(t) ==
  /\ pc[t] = "confirm"
  /\ future[t] = "rejected"
  /\ Resume(t)
  /\ UNCHANGED <<now, usageVars, calls, attempt, issued, future, pending, clicks, ran>>

\* Five minutes are over, or the future was cancelled: the call counts as
\* rejected and its id is given up.
GivesUpBug(t) == future[t] = "cancelled"
GivesUp(t)    == future[t] \in {"waiting", "cancelled"}

confirm_given_up(t) ==
  /\ pc[t] = "confirm"
  /\ GivesUp(t)
  /\ cancel({IdOf(Current(t))})
  /\ Resume(t)
  /\ UNCHANGED <<now, usageVars, calls, attempt, issued, clicks, ran>>

tool_returns(t) ==
  /\ pc[t] = "tool"
  /\ Resume(t)
  /\ UNCHANGED <<now, usageVars, calls, attempt, issued, future, pending, clicks, ran>>

Ended(t) ==
  /\ Goto(t, "done")
  /\ usage' = [usage EXCEPT ![t] = 0]
  /\ attempt' = [attempt EXCEPT ![t] = 0]

DroppedBug(t) == {}
Dropped(t)    == issued[t]

\* The end of the stream: its futures go, the message is stored.
finish(t) ==
  /\ pc[t] = "finish"
  /\ cancel(Dropped(t))
  /\ IF usage[t] = 0 THEN Ended(t) ELSE Goto(t, "bill") /\ UNCHANGED <<attempt, usage>>
  /\ UNCHANGED <<now, usageVars, calls, issued, clicks, ran>>

bill(t) ==
  /\ pc[t] = "bill"
  /\ record_turn(client_of[session[t]], usage[t])
  /\ Ended(t)
  /\ UNCHANGED <<now, calls, issued, future, pending, clicks, ran>>

\* The browser went away, the conversation was deleted or the ledger could not
\* be written: the turn ends here, and unbilled.
abort(t) ==
  /\ pc[t] \notin {"idle", "done"}
  /\ cancel(Dropped(t))
  /\ Ended(t)
  /\ UNCHANGED <<now, usageVars, calls, issued, clicks, ran>>

tick ==
  /\ now < MaxTime
  /\ now' = now + 1
  /\ UNCHANGED <<usageVars, turnVars>>

TurnStep(t) ==
  \/ model_calls(t) \/ model_answers(t) \/ model_retry(t) \/ model_fails(t)
  \/ confirm(t) \/ confirm_approved(t) \/ confirm_rejected(t) \/ confirm_given_up(t)
  \/ tool_returns(t) \/ finish(t) \/ bill(t)

Next ==
  \/ \E t \in Turn : begin(t) \/ TurnStep(t) \/ abort(t)
  \/ \E s \in Session, c \in Call, answer \in {"approved", "rejected"} :
       api_chat_confirm(s, c, answer)
  \/ tick

\* A confirmation waits five minutes and a tool call has a read timeout of as
\* much.  The code sets none on Gemini: that it answers or fails in the end is
\* assumed of the service.  No user need ever answer.
Fairness == \A t \in Turn : WF_vars(TurnStep(t))

Spec == Init /\ [][Next]_vars /\ Fairness

-----------------------------------------------------------------------------
(* Properties.                                                             *)

\* A tool that needs approval runs only if the user of the turn's session
\* approved that very call on its card, whatever else is answered meanwhile.
ExplicitGreenLight == \A c \in ran : clicks[c] = "approved"

\* A waiting call is decided by its own user and nobody else: not by another
\* session, and not by the end or the timeout of another turn.
WaitsForItsUser ==
  \A t \in Turn : pc[t] = "confirm" /\ future[t] # "waiting" => future[t] = clicks[Current(t)]

\* No confirmation dangles: whatever waits in the store belongs to a turn that
\* is waiting for it now.
NoDanglingEntry ==
  \A i \in CallId : pending[i] # NoTurn =>
    pc[pending[i]] = "confirm" /\ future[pending[i]] = "waiting" /\ IdOf(Current(pending[i])) = i

\* Every turn ends, although the user may never answer.
TurnEnds == \A t \in Turn : pc[t] # "idle" ~> pc[t] = "done"
=============================================================================
