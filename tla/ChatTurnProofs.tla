--------------------------- MODULE ChatTurnProofs ---------------------------
(***************************************************************************)
(* The dashboard chat, for every number of turns, sessions, clients and    *)
(* tool calls.                                                             *)
(*                                                                         *)
(* Confirmations (TurnInv) need that no two calls share an id: that is so  *)
(* when Gemini names its calls, and when there is one turn only            *)
(* (IdsDistinctWhenNamed, IdsDistinctInOneTurn).  Without it the engine's  *)
(* own numbers clash between turns, which the run chat_turn_tabs shows.    *)
(* The three properties depend on each other.  An answer reaches the right *)
(* future because what waits in the store is the call its turn is at       *)
(* (NoDanglingEntry), which stays so because whatever leaves the wait      *)
(* takes the entry along, and that needs to know that the entry is under   *)
(* one of the ids the turn issued (CallsGood).                             *)
(*                                                                         *)
(* The meter (MeterGood) needs no such condition: the row of a client's    *)
(* window is the sum of the ledger since it opened, and a client exceeds   *)
(* its caps by no more than its turns under way may cost (SetAside).       *)
(* Last, every turn has a bounded amount of work to do (WindsDown).        *)
(***************************************************************************)
EXTENDS ChatTurn, FiniteSets, FiniteSetTheorems, WellFoundedInduction, TLAPS

IdsDistinct == \A c, d \in Call : IdOf(c) = IdOf(d) => c = d

\* A turn waits for its current call, of which there are not too many, under
\* an id it issued, and every id it issued is of a call of its own.
CallsGood ==
  \A t \in Turn :
    /\ pc[t] \in {"idle", "model"} => calls[t] < MAX_TOOL_ROUNDS
    /\ pc[t] \in {"asked", "confirm", "tool"} => calls[t] > 0
    /\ pc[t] = "confirm" => IdOf(Current(t)) \in issued[t]
    /\ \A i \in issued[t] : \E k \in 1..MAX_TOOL_ROUNDS : i = IdOf(<<t, k>>)

TurnTypes ==
  /\ pc \in [Turn -> {"idle", "model", "asked", "confirm", "tool", "finish", "bill", "done"}]
  /\ calls \in [Turn -> 0..MAX_TOOL_ROUNDS]
  /\ issued \in [Turn -> SUBSET CallId]
  /\ future \in [Turn -> {"waiting", "approved", "rejected", "cancelled"}]
  /\ pending \in [CallId -> Turn \cup {NoTurn}]
  /\ clicks \in [Call -> {"none", "approved", "rejected"}]
  /\ ran \subseteq Call

TurnInv ==
  /\ TurnTypes /\ CallsGood
  /\ NoDanglingEntry /\ WaitsForItsUser /\ ExplicitGreenLight

-----------------------------------------------------------------------------
\* Gemini's names are the calls themselves.
LEMMA IdsDistinctWhenNamed == Named => IdsDistinct
BY DEF IdsDistinct, IdOf

\* The engine's numbers are unique within a turn.
LEMMA IdsDistinctInOneTurn == (\A t, u \in Turn : t = u) => IdsDistinct
BY DEF IdsDistinct, IdOf, Call

\* Every call has its id among the ids.
LEMMA IdIsCallId == \A c \in Call : IdOf(c) \in CallId
BY DEF IdOf, Call, CallId

\* What a turn past its first call is at is a call.
LEMMA CurrentIsCall ==
  ASSUME TurnTypes, NEW t \in Turn, calls[t] > 0
  PROVE  Current(t) \in Call
BY ChatAssumption DEF TurnTypes, Current, Call

\* Whoever waits under the id of a call is the turn that makes it, at that call.
LEMMA WaitingIsCurrent ==
  ASSUME IdsDistinct, TurnInv, NEW c \in Call, pending[IdOf(c)] # NoTurn
  PROVE  pending[IdOf(c)] = c[1] /\ Current(c[1]) = c /\ pc[c[1]] = "confirm"
<1> DEFINE u == pending[IdOf(c)]
<1>1. IdOf(c) \in CallId /\ u \in Turn
  BY IdIsCallId DEF TurnInv, TurnTypes
<1>2. pc[u] = "confirm" /\ IdOf(Current(u)) = IdOf(c)
  BY <1>1 DEF TurnInv, NoDanglingEntry
<1>3. Current(u) \in Call
  BY <1>1, <1>2, CurrentIsCall DEF TurnInv, CallsGood
<1>4. Current(u) = c
  BY <1>2, <1>3 DEF IdsDistinct
<1> QED BY <1>2, <1>4 DEF Current

\* What cancel does: the entries go, and who waited under them is told.
LEMMA CancelOwn ==
  ASSUME IdsDistinct, TurnInv, NEW t \in Turn,
         NEW ids \in SUBSET {IdOf(<<t, k>>) : k \in 1..MAX_TOOL_ROUNDS}, cancel(ids)
  PROVE  /\ \A u \in Turn : u # t => future'[u] = future[u]
         /\ \A i \in CallId : pending'[i] = IF i \in ids THEN NoTurn ELSE pending[i]
         /\ future' \in [Turn -> {"waiting", "approved", "rejected", "cancelled"}]
         /\ pending' \in [CallId -> Turn \cup {NoTurn}]
<1>1. \A i \in ids : pending[i] \in {t, NoTurn}
  <2> SUFFICES ASSUME NEW i \in ids, pending[i] # NoTurn PROVE pending[i] = t
    OBVIOUS
  <2>1. PICK k \in 1..MAX_TOOL_ROUNDS : i = IdOf(<<t, k>>)
    OBVIOUS
  <2>2. <<t, k>> \in Call
    BY DEF Call
  <2> QED BY <2>1, <2>2, WaitingIsCurrent
<1>2. \A u \in Turn : u # NoTurn
  BY ChatAssumption DEF NoTurn
<1>3. \A u \in Turn : u # t => future'[u] = future[u]
  BY <1>1, <1>2 DEF cancel
<1> QED BY <1>3 DEF cancel, TurnInv, TurnTypes

\* A turn that is not waiting, before and after, has nothing in the store; so
\* what it does elsewhere disturbs nobody.
LEMMA ElsewhereKeeps ==
  ASSUME TurnInv, NEW t \in Turn, NEW p, pc[t] # "confirm", p # "confirm", Goto(t, p),
         TurnTypes', CallsGood',
         \A u \in Turn : u # t => calls'[u] = calls[u],
         UNCHANGED <<future, pending, clicks, ran>>
  PROVE  TurnInv'
<1>1. \A u \in Turn : u # t => pc'[u] = pc[u] /\ Current(u)' = Current(u)
  BY DEF Goto, Current, TurnInv, TurnTypes
<1>2. pc'[t] = p
  BY DEF Goto, TurnInv, TurnTypes
<1>3. NoDanglingEntry'
  BY <1>1 DEF TurnInv, TurnTypes, NoDanglingEntry
<1>4. WaitsForItsUser'
  BY <1>1, <1>2 DEF TurnInv, TurnTypes, WaitsForItsUser
<1>5. ExplicitGreenLight'
  BY DEF TurnInv, ExplicitGreenLight
<1> QED BY <1>3, <1>4, <1>5 DEF TurnInv

-----------------------------------------------------------------------------
\* One lemma per kind of step of a turn.

\* The steps that touch neither the store nor a wait.
LEMMA ModelKeeps ==
  ASSUME TurnInv, NEW t \in Turn,
         \/ begin(t) \/ model_calls(t) \/ model_answers(t) \/ model_retry(t) \/ model_fails(t)
         \/ tool_returns(t) \/ bill(t)
  PROVE  TurnInv'
<1>0. pc[t] = "model" => calls[t] + 1 \in 1..MAX_TOOL_ROUNDS
  <2>1. pc[t] = "model" => calls[t] < MAX_TOOL_ROUNDS
    BY DEF TurnInv, CallsGood
  <2>2. calls[t] \in Nat /\ MAX_TOOL_ROUNDS \in Nat
    BY ChatAssumption DEF TurnInv, TurnTypes
  <2> QED BY <2>1, <2>2
<1> USE ChatAssumption DEF TurnInv, TurnTypes, CallsGood, Goto, Current
<1>1. CASE begin(t)
  <2>1. TurnTypes' /\ CallsGood'
    BY <1>1 DEF begin
  <2> QED BY <1>1, <2>1, ElsewhereKeeps DEF begin
<1>2. CASE model_calls(t)
  <2>1. TurnTypes' /\ CallsGood'
    BY <1>0, <1>2 DEF model_calls
  <2> QED BY <1>2, <2>1, ElsewhereKeeps DEF model_calls
<1>3. CASE model_answers(t)
  <2>1. TurnTypes' /\ CallsGood'
    BY <1>3 DEF model_answers
  <2> QED BY <1>3, <2>1, ElsewhereKeeps DEF model_answers
<1>4. CASE model_retry(t)
  BY <1>4 DEF model_retry, NoDanglingEntry, WaitsForItsUser, ExplicitGreenLight
<1>5. CASE model_fails(t)
  <2>1. TurnTypes' /\ CallsGood'
    BY <1>5 DEF model_fails
  <2> QED BY <1>5, <2>1, ElsewhereKeeps DEF model_fails
<1>6. CASE tool_returns(t)
  <2>1. TurnTypes' /\ CallsGood'
    BY <1>6 DEF tool_returns, Resume
  <2> QED BY <1>6, <2>1, ElsewhereKeeps DEF tool_returns, Resume
<1>7. CASE bill(t)
  <2>1. TurnTypes' /\ CallsGood'
    BY <1>7 DEF bill, Ended
  <2> QED BY <1>7, <2>1, ElsewhereKeeps DEF bill, Ended
<1> QED BY <1>1, <1>2, <1>3, <1>4, <1>5, <1>6, <1>7

\* The turn starts to wait, under a fresh entry.
LEMMA ConfirmKeeps ==
  ASSUME IdsDistinct, TurnInv, NEW t \in Turn, confirm(t)
  PROVE  TurnInv'
<1> USE ChatAssumption
<1>1. PICK i : i = IdOf(Current(t))
  OBVIOUS
<1>2. /\ pc[t] = "asked" /\ pc' = [pc EXCEPT ![t] = "confirm"]
      /\ pending' = [pending EXCEPT ![i] = t]
      /\ future' = [future EXCEPT ![t] = "waiting"]
      /\ issued' = [issued EXCEPT ![t] = @ \cup {i}]
      /\ UNCHANGED <<calls, clicks, ran>>
  BY <1>1 DEF confirm, create, Goto
<1>3. Current(t) \in Call /\ i \in CallId /\ calls[t] \in 1..MAX_TOOL_ROUNDS
  BY <1>1, <1>2, CurrentIsCall, IdIsCallId DEF TurnInv, TurnTypes, CallsGood
<1>4. \A u \in Turn : Current(u)' = Current(u) /\ IdOf(Current(u))' = IdOf(Current(u))
  BY <1>2 DEF Current, IdOf
<1>5. TurnTypes'
  BY <1>2, <1>3 DEF TurnInv, TurnTypes
<1>6. CallsGood'
  <2>1. i = IdOf(<<t, calls[t]>>)
    BY <1>1 DEF Current
  <2> SUFFICES ASSUME NEW u \in Turn
               PROVE  /\ pc'[u] \in {"idle", "model"} => calls[u] < MAX_TOOL_ROUNDS
                      /\ pc'[u] \in {"asked", "confirm", "tool"} => calls[u] > 0
                      /\ pc'[u] = "confirm" => IdOf(Current(u)) \in issued'[u]
                      /\ \A j \in issued'[u] : \E k \in 1..MAX_TOOL_ROUNDS : j = IdOf(<<u, k>>)
    BY <1>2, <1>4 DEF CallsGood
  <2>2. CASE u = t
    <3>1. pc'[t] = "confirm" /\ issued'[t] = issued[t] \cup {i}
      BY <1>2 DEF TurnInv, TurnTypes
    <3>2. \A j \in issued[t] : \E k \in 1..MAX_TOOL_ROUNDS : j = IdOf(<<t, k>>)
      BY DEF TurnInv, CallsGood
    <3>3. \A j \in issued'[t] : \E k \in 1..MAX_TOOL_ROUNDS : j = IdOf(<<t, k>>)
      BY <1>3, <2>1, <3>1, <3>2
    <3>4. calls[t] > 0 /\ IdOf(Current(t)) \in issued'[t]
      BY <1>1, <1>3, <3>1
    <3> QED BY <2>2, <3>1, <3>3, <3>4
  <2>3. CASE u # t
    BY <1>2, <2>3 DEF TurnInv, TurnTypes, CallsGood
  <2> QED BY <2>2, <2>3
<1>7. NoDanglingEntry'
  <2> SUFFICES ASSUME NEW j \in CallId, pending'[j] # NoTurn
               PROVE  /\ pc'[pending'[j]] = "confirm" /\ future'[pending'[j]] = "waiting"
                      /\ IdOf(Current(pending[j]))' = j
    BY DEF NoDanglingEntry
  <2>1. CASE j = i
    BY <1>1, <1>2, <1>3, <1>4, <2>1 DEF TurnInv, TurnTypes
  <2>2. CASE j # i
    <3>1. pending'[j] = pending[j] /\ pending[j] \in Turn
      BY <1>2, <2>2 DEF TurnInv, TurnTypes
    <3>2. /\ pc[pending[j]] = "confirm" /\ future[pending[j]] = "waiting"
          /\ IdOf(Current(pending[j])) = j
      BY <3>1, ChatAssumption DEF TurnInv, NoDanglingEntry, NoTurn
    <3>3. IdOf(Current(pending[j]))' = IdOf(Current(pending[j]))
      BY <1>2, <3>1 DEF Current, IdOf
    <3> QED BY <1>2, <3>1, <3>2, <3>3 DEF TurnInv, TurnTypes
  <2> QED BY <2>1, <2>2
<1>8. WaitsForItsUser' /\ ExplicitGreenLight'
  BY <1>2, <1>4 DEF TurnInv, TurnTypes, WaitsForItsUser, ExplicitGreenLight
<1> QED BY <1>5, <1>6, <1>7, <1>8 DEF TurnInv

\* The answer is in: the turn goes on, and its entry was taken by the answer.
LEMMA AnsweredKeeps ==
  ASSUME TurnInv, NEW t \in Turn, confirm_approved(t) \/ confirm_rejected(t)
  PROVE  TurnInv'
<1> USE ChatAssumption
<1>1. PICK p \in {"tool", "model", "finish"} :
        /\ pc' = [pc EXCEPT ![t] = p] /\ pc[t] = "confirm" /\ future[t] # "waiting"
        /\ p = "model" => calls[t] < MAX_TOOL_ROUNDS
        /\ UNCHANGED <<calls, issued, future, pending, clicks>>
        /\ ran' = ran \/ (ran' = ran \cup {Current(t)} /\ future[t] = "approved")
  BY DEF confirm_approved, confirm_rejected, Approved, Resume, Goto
<1>2. Current(t) \in Call /\ calls[t] > 0
  BY <1>1, CurrentIsCall DEF TurnInv, CallsGood
<1>3. \A u \in Turn : Current(u)' = Current(u) /\ IdOf(Current(u))' = IdOf(Current(u))
  BY <1>1 DEF Current, IdOf
<1>4. TurnTypes'
  BY <1>1, <1>2 DEF TurnInv, TurnTypes
<1>5. CallsGood'
  BY <1>1, <1>2, <1>3 DEF TurnInv, TurnTypes, CallsGood
<1>6. NoDanglingEntry'
  BY <1>1, <1>3 DEF TurnInv, TurnTypes, NoDanglingEntry
<1>7. WaitsForItsUser'
  BY <1>1, <1>3 DEF TurnInv, TurnTypes, WaitsForItsUser
<1>8. ExplicitGreenLight'
  BY <1>1 DEF TurnInv, WaitsForItsUser, ExplicitGreenLight
<1> QED BY <1>4, <1>5, <1>6, <1>7, <1>8 DEF TurnInv

\* The turn leaves the wait, or the loop, and gives its ids up.
LEMMA GiveUpKeeps ==
  ASSUME IdsDistinct, TurnInv, NEW t \in Turn, NEW p \in {"model", "finish", "bill", "done"},
         Goto(t, p), p = "model" => calls[t] < MAX_TOOL_ROUNDS,
         NEW ids \in SUBSET {IdOf(<<t, k>>) : k \in 1..MAX_TOOL_ROUNDS}, cancel(ids),
         pc[t] = "confirm" => IdOf(Current(t)) \in ids,
         UNCHANGED <<calls, issued, clicks, ran>>
  PROVE  TurnInv'
<1> USE ChatAssumption
<1>1. /\ \A u \in Turn : u # t => future'[u] = future[u]
      /\ \A i \in CallId : pending'[i] = IF i \in ids THEN NoTurn ELSE pending[i]
      /\ future' \in [Turn -> {"waiting", "approved", "rejected", "cancelled"}]
      /\ pending' \in [CallId -> Turn \cup {NoTurn}]
  BY CancelOwn
<1>2. pc' = [pc EXCEPT ![t] = p]
  BY DEF Goto
<1>3. \A u \in Turn : Current(u)' = Current(u) /\ IdOf(Current(u))' = IdOf(Current(u))
  BY DEF Current, IdOf
<1>4. TurnTypes'
  BY <1>1, <1>2 DEF TurnInv, TurnTypes
<1>5. CallsGood'
  BY <1>2, <1>3 DEF TurnInv, TurnTypes, CallsGood
<1>6. NoDanglingEntry'
  <2> SUFFICES ASSUME NEW j \in CallId, pending'[j] # NoTurn
               PROVE  /\ pc'[pending'[j]] = "confirm" /\ future'[pending'[j]] = "waiting"
                      /\ IdOf(Current(pending[j]))' = j
    BY DEF NoDanglingEntry
  <2>1. j \notin ids /\ pending'[j] = pending[j] /\ pending[j] \in Turn
    BY <1>1 DEF TurnInv, TurnTypes
  <2>2. /\ pc[pending[j]] = "confirm" /\ future[pending[j]] = "waiting"
        /\ IdOf(Current(pending[j])) = j
    BY <2>1 DEF TurnInv, NoDanglingEntry, NoTurn
  <2>3. pending[j] # t
    BY <2>1, <2>2
  <2>4. IdOf(Current(pending[j]))' = IdOf(Current(pending[j]))
    BY <2>1 DEF Current, IdOf
  <2> QED BY <1>1, <1>2, <2>1, <2>2, <2>3, <2>4 DEF TurnInv, TurnTypes
<1>7. WaitsForItsUser'
  BY <1>1, <1>2, <1>3 DEF TurnInv, TurnTypes, WaitsForItsUser
<1>8. ExplicitGreenLight'
  BY DEF TurnInv, ExplicitGreenLight
<1> QED BY <1>4, <1>5, <1>6, <1>7, <1>8 DEF TurnInv

\* The stream ends, or is aborted: every id the turn issued is dropped.
LEMMA EndKeeps ==
  ASSUME IdsDistinct, TurnInv, NEW t \in Turn, confirm_given_up(t) \/ finish(t) \/ abort(t)
  PROVE  TurnInv'
<1> USE ChatAssumption
<1> DEFINE own == {IdOf(<<t, k>>) : k \in 1..MAX_TOOL_ROUNDS}
<1>1. issued[t] \subseteq own /\ (pc[t] = "confirm" => IdOf(Current(t)) \in issued[t])
  BY DEF TurnInv, CallsGood
<1>2. CASE confirm_given_up(t)
  <2>1. IdOf(Current(t)) \in own
    BY <1>1, <1>2 DEF confirm_given_up
  <2>2. \E p \in {"model", "finish"} : Goto(t, p) /\ (p = "model" => calls[t] < MAX_TOOL_ROUNDS)
    BY <1>2 DEF confirm_given_up, Resume
  <2>3. cancel({IdOf(Current(t))}) /\ UNCHANGED <<calls, issued, clicks, ran>>
    BY <1>2 DEF confirm_given_up
  <2>4. {IdOf(Current(t))} \in SUBSET own
    BY <2>1
  <2> HIDE DEF own
  <2> QED BY <2>2, <2>3, <2>4, GiveUpKeeps DEF own
<1>3. CASE finish(t) \/ abort(t)
  <2>1. \E p \in {"bill", "done"} : Goto(t, p)
    BY <1>3 DEF finish, abort, Ended
  <2>2. cancel(issued[t]) /\ UNCHANGED <<calls, issued, clicks, ran>>
    BY <1>3 DEF finish, abort, Dropped
  <2> QED BY <1>1, <2>1, <2>2, GiveUpKeeps
<1> QED BY <1>2, <1>3

-----------------------------------------------------------------------------
\* An answer reaches the future of the call on whose card it was given.
LEMMA AnswerKeeps ==
  ASSUME IdsDistinct, TurnInv, NEW s \in Session, NEW c \in Call,
         NEW answer \in {"approved", "rejected"}, api_chat_confirm(s, c, answer)
  PROVE  TurnInv'
<1> USE ChatAssumption
<1>1. PICK i : i = IdOf(c)
  OBVIOUS
<1>2. i \in CallId /\ c[1] \in Turn
  BY <1>1, IdIsCallId DEF Call
<1>3. /\ clicks[c] = "none" /\ resolve(s, i, answer)
      /\ clicks' = IF s = session[c[1]] THEN [clicks EXCEPT ![c] = answer] ELSE clicks
      /\ UNCHANGED <<pc, calls, issued, ran>>
  BY <1>1 DEF api_chat_confirm
<1>4. \A u \in Turn : Current(u)' = Current(u) /\ IdOf(Current(u))' = IdOf(Current(u))
  BY <1>3 DEF Current, IdOf
<1>5. clicks' \in [Call -> {"none", "approved", "rejected"}]
  BY <1>3 DEF TurnInv, TurnTypes
<1>6. ExplicitGreenLight'
  BY <1>3 DEF TurnInv, TurnTypes, ExplicitGreenLight
<1>7. CallsGood'
  BY <1>3, <1>4 DEF TurnInv, CallsGood
\* Whoever has been told something is not at the call that is being answered.
<1>8. \A u \in Turn : pc[u] = "confirm" /\ future[u] # "waiting" =>
                        Current(u) # c /\ clicks'[Current(u)] = clicks[Current(u)]
  BY <1>3 DEF TurnInv, TurnTypes, WaitsForItsUser
<1>9. CASE MayResolve(s, i) /\ future[pending[i]] = "waiting"
  <2>1. pending[i] = c[1] /\ Current(c[1]) = c /\ pc[c[1]] = "confirm"
    BY <1>1, <1>9, WaitingIsCurrent DEF MayResolve
  <2>2. s = session[c[1]]
    BY <1>9, <2>1 DEF MayResolve
  <2>3. /\ future' = [future EXCEPT ![c[1]] = answer]
        /\ pending' = [pending EXCEPT ![i] = NoTurn]
        /\ clicks' = [clicks EXCEPT ![c] = answer]
    BY <1>3, <1>9, <2>1, <2>2 DEF resolve
  <2>4. TurnTypes'
    BY <1>2, <1>3, <1>5, <2>3 DEF TurnInv, TurnTypes
  <2>5. NoDanglingEntry'
    <3> SUFFICES ASSUME NEW j \in CallId, pending'[j] # NoTurn
                 PROVE  /\ pc'[pending'[j]] = "confirm" /\ future'[pending'[j]] = "waiting"
                        /\ IdOf(Current(pending[j]))' = j
      BY DEF NoDanglingEntry
    <3>1. j # i /\ pending'[j] = pending[j] /\ pending[j] \in Turn
      BY <1>2, <2>3 DEF TurnInv, TurnTypes
    <3>2. /\ pc[pending[j]] = "confirm" /\ future[pending[j]] = "waiting"
          /\ IdOf(Current(pending[j])) = j
      BY <3>1 DEF TurnInv, NoDanglingEntry, NoTurn
    <3>3. pending[j] # c[1]
      BY <1>1, <2>1, <3>1, <3>2
    <3>4. IdOf(Current(pending[j]))' = IdOf(Current(pending[j]))
      BY <1>3, <3>1 DEF Current, IdOf
    <3> QED BY <1>3, <2>3, <3>1, <3>2, <3>3, <3>4 DEF TurnInv, TurnTypes
  <2>6. WaitsForItsUser'
    <3> SUFFICES ASSUME NEW u \in Turn, pc[u] = "confirm", future'[u] # "waiting"
                 PROVE  future'[u] = clicks'[Current(u)]
      BY <1>3, <1>4 DEF WaitsForItsUser
    <3>1. CASE u = c[1]
      BY <1>2, <2>1, <2>3, <3>1 DEF TurnInv, TurnTypes
    <3>2. CASE u # c[1]
      BY <1>8, <2>3, <3>2 DEF TurnInv, TurnTypes, WaitsForItsUser
    <3> QED BY <3>1, <3>2
  <2> QED BY <1>6, <1>7, <2>4, <2>5, <2>6 DEF TurnInv
<1>10. CASE ~(MayResolve(s, i) /\ future[pending[i]] = "waiting")
  <2>1. UNCHANGED <<future, pending>>
    BY <1>3, <1>10 DEF resolve
  <2>2. TurnTypes'
    BY <1>3, <1>5, <2>1 DEF TurnInv, TurnTypes
  <2>3. NoDanglingEntry'
    BY <1>3, <1>4, <2>1 DEF TurnInv, TurnTypes, NoDanglingEntry
  <2>4. WaitsForItsUser'
    BY <1>3, <1>4, <1>8, <2>1 DEF TurnInv, WaitsForItsUser
  <2> QED BY <1>6, <1>7, <2>2, <2>3, <2>4 DEF TurnInv
<1> QED BY <1>9, <1>10

-----------------------------------------------------------------------------
\* The invariant of the confirmations (ConfirmationStore and the tool loop).
THEOREM TurnInductive ==
  ASSUME IdsDistinct
  PROVE  Spec => []TurnInv
<1>1. Init => TurnInv
  BY ChatAssumption
     DEF Init, TurnInv, TurnTypes, CallsGood, NoDanglingEntry, WaitsForItsUser, ExplicitGreenLight
<1>2. TurnInv /\ [Next]_vars => TurnInv'
  <2> SUFFICES ASSUME TurnInv, [Next]_vars PROVE TurnInv'
    OBVIOUS
  <2>1. ASSUME UNCHANGED turnVars PROVE TurnInv'
    BY <2>1 DEF turnVars, TurnInv, TurnTypes, CallsGood, NoDanglingEntry, WaitsForItsUser,
                ExplicitGreenLight, Current
  <2>2. ASSUME NEW t \in Turn, begin(t) \/ TurnStep(t) \/ abort(t) PROVE TurnInv'
    BY <2>2, ModelKeeps, ConfirmKeeps, AnsweredKeeps, EndKeeps DEF TurnStep
  <2>3. CASE tick
    BY <2>1, <2>3 DEF tick
  <2>4. CASE UNCHANGED vars
    BY <2>1, <2>4 DEF vars
  <2> QED BY <2>2, <2>3, <2>4, AnswerKeeps DEF Next
<1> QED BY <1>1, <1>2, PTL DEF Spec

\* While no two calls share an id, a tool that needs approval runs only if the
\* user of its own session approved that very call.
THEOREM RunsOnlyApproved ==
  ASSUME IdsDistinct
  PROVE  Spec => []ExplicitGreenLight
<1>1. TurnInv => ExplicitGreenLight
  BY DEF TurnInv
<1> QED BY <1>1, TurnInductive, PTL

\* While no two calls share an id, only its own user decides a waiting call.
THEOREM OwnUserDecides ==
  ASSUME IdsDistinct
  PROVE  Spec => []WaitsForItsUser
<1>1. TurnInv => WaitsForItsUser
  BY DEF TurnInv
<1> QED BY <1>1, TurnInductive, PTL

\* While no two calls share an id, ConfirmationStore holds nothing that nobody
\* waits for: every way out of _confirm and of the stream takes its entry along.
THEOREM StoreHasNoLeftovers ==
  ASSUME IdsDistinct
  PROVE  Spec => []NoDanglingEntry
<1>1. TurnInv => NoDanglingEntry
  BY DEF TurnInv
<1> QED BY <1>1, TurnInductive, PTL

-----------------------------------------------------------------------------
(* Sums.  The library's induction takes an operator as its parameter; here *)
(* it is stated for a set of numbers, from the fact that < is well-founded. *)

\* Every set of numbers that is not empty has a least one.
LEMMA LeastNumber ==
  ASSUME NEW T \in SUBSET Nat, T # {}
  PROVE  \E m \in T : \A k \in T : m <= k
<1>1. PICK R : R = OpToRel(<, Nat)
  OBVIOUS
<1>2. IsWellFoundedOn(R, Nat)
  BY <1>1, NatLessThanWellFounded, Zenon
<1>3. PICK m \in T : \A k \in T : ~ (<<k, m>> \in R)
  BY <1>2, WFMin
<1>4. \A k \in T : k < m => <<k, m>> \in R
  BY <1>1 DEF OpToRel
<1>5. ASSUME NEW k \in T PROVE m <= k
  <2>1. k \in Nat /\ m \in Nat /\ ~ (k < m)
    BY <1>3, <1>4
  <2> QED BY <2>1
<1> QED BY <1>3, <1>5

\* Induction over the numbers, for a set of them.
LEMMA NumbersInTurn ==
  ASSUME NEW T \in SUBSET Nat, 0 \in T, \A n \in T : n + 1 \in T
  PROVE  \A n \in Nat : n \in T
<1> SUFFICES ASSUME Nat \ T # {} PROVE FALSE
  OBVIOUS
<1>1. PICK m \in Nat \ T : \A k \in Nat \ T : m <= k
  BY LeastNumber
<1>2. m # 0 /\ m - 1 \in Nat /\ ~ (m <= m - 1)
  BY <1>1
<1>3. m - 1 \in T
  BY <1>1, <1>2
<1>4. (m - 1) + 1 \in T
  BY <1>3
<1> QED BY <1>1, <1>2, <1>4

\* f[k] is the sum of the first k of the amounts a.
Sums(f, a, n) == f \in [0..n -> Nat] /\ f[0] = 0 /\ \A k \in 1..n : f[k] = f[k - 1] + a[k]

\* There are sums,
LEMMA SumsExist ==
  ASSUME NEW a \in Seq(Nat)
  PROVE  \E f : Sums(f, a, Len(a))
<1> DEFINE T == {n \in Nat : n <= Len(a) => \E f : Sums(f, a, n)}
<1>1. 0 \in T
  <2>1. PICK f : f = [k \in 0..0 |-> 0]
    OBVIOUS
  <2>2. Sums(f, a, 0)
    BY <2>1 DEF Sums
  <2> QED BY <2>2
<1>2. ASSUME NEW n \in T PROVE n + 1 \in T
  <2> SUFFICES ASSUME n + 1 <= Len(a) PROVE \E f : Sums(f, a, n + 1)
    OBVIOUS
  <2>1. PICK f : Sums(f, a, n)
    OBVIOUS
  <2>2. a[n + 1] \in Nat /\ f[n] \in Nat /\ n \in Nat
    BY <2>1 DEF Sums
  <2>3. PICK x \in Nat : x = f[n] + a[n + 1]
    BY <2>2
  <2>4. PICK g : g = [k \in 0..(n + 1) |-> IF k = n + 1 THEN x ELSE f[k]]
    OBVIOUS
  <2>5. g \in [0..(n + 1) -> Nat] /\ g[0] = 0 /\ g[n + 1] = x /\ \A k \in 0..n : g[k] = f[k]
    BY <2>1, <2>4 DEF Sums
  <2>6. ASSUME NEW k \in 1..(n + 1) PROVE g[k] = g[k - 1] + a[k]
    <3>1. CASE k = n + 1
      BY <2>2, <2>3, <2>5, <3>1
    <3>2. CASE k # n + 1
      <4>1. k \in 1..n /\ k \in 0..n /\ k - 1 \in 0..n
        BY <2>2, <3>2
      <4> QED BY <2>1, <2>5, <4>1 DEF Sums
    <3> QED BY <3>1, <3>2
  <2>7. Sums(g, a, n + 1)
    BY <2>5, <2>6 DEF Sums
  <2> QED BY <2>7
<1>3. \A n \in Nat : n \in T
  <2> HIDE DEF T
  <2>1. T \in SUBSET Nat
    BY DEF T
  <2> QED BY <1>1, <1>2, <2>1, NumbersInTurn
<1> QED BY <1>3

\* and the total is the last of them.
LEMMA TotalIsSum ==
  ASSUME NEW a \in Seq(Nat)
  PROVE  \E f : Sums(f, a, Len(a)) /\ Total(a) = f[Len(a)]
<1> DEFINE IsSum(f) == f = [n \in 0..Len(a) |-> IF n = 0 THEN 0 ELSE f[n - 1] + a[n]]
<1>1. PICK g : Sums(g, a, Len(a))
  BY SumsExist
<1>2. IsSum(g)
  <2>1. PICK h : h = [n \in 0..Len(a) |-> IF n = 0 THEN 0 ELSE g[n - 1] + a[n]]
    OBVIOUS
  <2>2. \A n \in 0..Len(a) : h[n] = g[n]
    BY <1>1, <2>1 DEF Sums
  <2>3. g = h
    BY <1>1, <2>1, <2>2 DEF Sums
  <2> QED BY <2>1, <2>3
<1>3. PICK f : f = CHOOSE s : s = [n \in 0..Len(a) |-> IF n = 0 THEN 0 ELSE s[n - 1] + a[n]]
  OBVIOUS
<1>4. f = [n \in 0..Len(a) |-> IF n = 0 THEN 0 ELSE f[n - 1] + a[n]]
  BY <1>2, <1>3
<1>5. Total(a) = f[Len(a)]
  BY <1>3 DEF Total
<1>6. \A n \in 0..Len(a) : f[n] = g[n]
  <2> DEFINE T == {n \in Nat : n <= Len(a) => f[n] = g[n]}
  <2>1. 0 \in T
    BY <1>1, <1>4 DEF Sums
  <2>2. ASSUME NEW n \in T PROVE n + 1 \in T
    <3> SUFFICES ASSUME n + 1 <= Len(a) PROVE f[n + 1] = g[n + 1]
      OBVIOUS
    <3>1. n \in Nat /\ n + 1 \in 0..Len(a) /\ n + 1 \in 1..Len(a) /\ f[n] = g[n] /\ (n + 1) - 1 = n
      OBVIOUS
    <3>2. f[n + 1] = f[n] + a[n + 1]
      BY <1>4, <3>1
    <3>3. g[n + 1] = g[n] + a[n + 1]
      BY <1>1, <3>1 DEF Sums
    <3> QED BY <3>1, <3>2, <3>3
  <2>3. \A n \in Nat : n \in T
    <3> HIDE DEF T
    <3>1. T \in SUBSET Nat
      BY DEF T
    <3> QED BY <2>1, <2>2, <3>1, NumbersInTurn
  <2> QED BY <2>3
<1>7. Len(a) \in 0..Len(a)
  OBVIOUS
<1> QED BY <1>1, <1>5, <1>6, <1>7

\* What sums are: numbers, each the one before and the next amount.
LEMMA SumsStep ==
  ASSUME NEW a \in Seq(Nat), NEW f, Sums(f, a, Len(a))
  PROVE  /\ \A n \in 0..Len(a) : f[n] \in Nat
         /\ f[0] = 0
         /\ \A n \in Nat : n + 1 <= Len(a) =>
              f[n + 1] = f[n] + a[n + 1] /\ f[n] \in Nat /\ a[n + 1] \in Nat
<1>1. (\A n \in 0..Len(a) : f[n] \in Nat) /\ f[0] = 0
  BY DEF Sums
<1>2. ASSUME NEW n \in Nat, n + 1 <= Len(a)
      PROVE  f[n + 1] = f[n] + a[n + 1] /\ f[n] \in Nat /\ a[n + 1] \in Nat
  <2>1. n + 1 \in 1..Len(a) /\ n \in 0..Len(a) /\ (n + 1) - 1 = n
    BY <1>2
  <2> QED BY <1>1, <2>1 DEF Sums
<1> QED BY <1>1, <1>2

\* A total of amounts that are not greater is not greater.
LEMMA TotalOfLess ==
  ASSUME NEW a \in Seq(Nat), NEW b \in Seq(Nat), Len(a) = Len(b), \A i \in 1..Len(a) : a[i] <= b[i]
  PROVE  Total(a) <= Total(b)
<1>1. PICK f : Sums(f, a, Len(a)) /\ Total(a) = f[Len(a)]
  BY TotalIsSum
<1>2. PICK g : Sums(g, b, Len(b)) /\ Total(b) = g[Len(b)]
  BY TotalIsSum
<1> DEFINE T == {n \in Nat : n <= Len(a) => f[n] <= g[n]}
<1>3. 0 \in T
  BY <1>1, <1>2, SumsStep
<1>4. ASSUME NEW n \in T PROVE n + 1 \in T
  <2> SUFFICES ASSUME n + 1 <= Len(a) PROVE f[n + 1] <= g[n + 1]
    OBVIOUS
  <2>1. n \in Nat /\ n + 1 \in 1..Len(a) /\ n + 1 <= Len(b) /\ f[n] <= g[n]
    OBVIOUS
  <2>2. f[n + 1] = f[n] + a[n + 1] /\ f[n] \in Nat /\ a[n + 1] \in Nat
    BY <1>1, <2>1, SumsStep
  <2>3. g[n + 1] = g[n] + b[n + 1] /\ g[n] \in Nat /\ b[n + 1] \in Nat
    BY <1>2, <2>1, SumsStep
  <2>4. a[n + 1] <= b[n + 1]
    BY <2>1
  <2> QED BY <2>1, <2>2, <2>3, <2>4
<1>5. \A n \in Nat : n \in T
  <2> HIDE DEF T
  <2>1. T \in SUBSET Nat
    BY DEF T
  <2> QED BY <1>3, <1>4, <2>1, NumbersInTurn
<1> QED BY <1>1, <1>2, <1>5

\* A total is a number.
LEMMA TotalIsNat ==
  ASSUME NEW a \in Seq(Nat)
  PROVE  Total(a) \in Nat
<1>1. PICK f : Sums(f, a, Len(a)) /\ Total(a) = f[Len(a)]
  BY TotalIsSum
<1>2. Len(a) \in 0..Len(a)
  OBVIOUS
<1> QED BY <1>1, <1>2, SumsStep

\* One more amount adds itself to the total.
LEMMA TotalAppend ==
  ASSUME NEW a \in Seq(Nat), NEW x \in Nat, NEW b \in Seq(Nat), Len(b) = Len(a) + 1, b[Len(b)] = x,
         \A i \in 1..Len(a) : b[i] = a[i]
  PROVE  Total(b) = Total(a) + x
<1>1. PICK f : Sums(f, a, Len(a)) /\ Total(a) = f[Len(a)]
  BY TotalIsSum
<1>2. PICK g : Sums(g, b, Len(b)) /\ Total(b) = g[Len(b)]
  BY TotalIsSum
<1>3. Len(a) \in Nat /\ Len(b) = Len(a) + 1
  OBVIOUS
<1> DEFINE T == {n \in Nat : n <= Len(a) => f[n] = g[n]}
<1>4. 0 \in T
  BY <1>1, <1>2 DEF Sums
<1>5. ASSUME NEW n \in T PROVE n + 1 \in T
  <2> SUFFICES ASSUME n + 1 <= Len(a) PROVE f[n + 1] = g[n + 1]
    OBVIOUS
  <2>1. n \in Nat /\ n + 1 \in 1..Len(a) /\ n + 1 \in 1..Len(b) /\ (n + 1) - 1 = n /\ f[n] = g[n]
    BY <1>3
  <2>2. f[n + 1] = f[n] + a[n + 1] /\ g[n + 1] = g[n] + b[n + 1] /\ a[n + 1] = b[n + 1]
    BY <1>1, <1>2, <2>1 DEF Sums
  <2> QED BY <2>1, <2>2
<1>6. \A n \in Nat : n \in T
  <2> HIDE DEF T
  <2>1. T \in SUBSET Nat
    BY DEF T
  <2> QED BY <1>4, <1>5, <2>1, NumbersInTurn
<1>7. f[Len(a)] = g[Len(a)]
  BY <1>3, <1>6
<1>8. Len(b) \in 1..Len(b) /\ Len(b) - 1 = Len(a)
  BY <1>3
<1>9. g[Len(b)] = g[Len(a)] + x
  BY <1>2, <1>8 DEF Sums
<1> QED BY <1>1, <1>2, <1>7, <1>9

\* A total of nothing but zeros is zero.
LEMMA TotalOfZeros ==
  ASSUME NEW a \in Seq(Nat), \A i \in 1..Len(a) : a[i] = 0
  PROVE  Total(a) = 0
<1>1. PICK f : Sums(f, a, Len(a)) /\ Total(a) = f[Len(a)]
  BY TotalIsSum
<1> DEFINE T == {n \in Nat : n <= Len(a) => f[n] = 0}
<1>2. 0 \in T
  BY <1>1 DEF Sums
<1>3. ASSUME NEW n \in T PROVE n + 1 \in T
  <2> SUFFICES ASSUME n + 1 <= Len(a) PROVE f[n + 1] = 0
    OBVIOUS
  <2>1. n \in Nat /\ Len(a) \in Nat /\ n + 1 \in 1..Len(a) /\ (n + 1) - 1 = n /\ f[n] = 0
    OBVIOUS
  <2>2. f[n + 1] = f[n] + a[n + 1] /\ a[n + 1] = 0
    BY <1>1, <2>1 DEF Sums
  <2> QED BY <2>1, <2>2
<1>4. \A n \in Nat : n \in T
  <2> HIDE DEF T
  <2>1. T \in SUBSET Nat
    BY DEF T
  <2> QED BY <1>2, <1>3, <2>1, NumbersInTurn
<1> QED BY <1>1, <1>4

-----------------------------------------------------------------------------
(* Types and counts, which need nothing of the ids.                        *)

\* A turn calls tools as often as it may, and is billed for as many rounds.
RoundsGood ==
  \A t \in Turn :
    /\ pc[t] \in {"idle", "model"} => calls[t] < MAX_TOOL_ROUNDS
    /\ pc[t] \in {"asked", "confirm", "tool"} => calls[t] > 0
    /\ usage[t] <= MAX_TOOL_ROUNDS
    /\ pc[t] = "bill" => usage[t] > 0

\* What a window becomes is a window.
LEMMA AppliedIs ==
  ASSUME now \in Nat, NEW row \in Window, NEW cost \in Nat
  PROVE  /\ Applied(row, cost) \in Window
         /\ \/ /\ row = NoRow \/ now - row.started_at >= FIVE_HOURS
               /\ Applied(row, cost).started_at = now /\ Applied(row, cost).cost = cost
            \/ /\ row # NoRow /\ now - row.started_at < FIVE_HOURS
               /\ Applied(row, cost).started_at = row.started_at
               /\ Applied(row, cost).cost = row.cost + cost
<1> USE UsageAssumption
<1>1. CASE row = NoRow \/ now - row.started_at >= FIVE_HOURS
  <2>1. Applied(row, cost) = [started_at |-> now, cost |-> cost]
    BY <1>1 DEF Applied
  <2> QED BY <1>1, <2>1 DEF Window
<1>2. CASE ~ (row = NoRow \/ now - row.started_at >= FIVE_HOURS)
  <2>1. Applied(row, cost) = [row EXCEPT !.cost = @ + cost]
    BY <1>2 DEF Applied
  <2>2. row.started_at \in Nat /\ row.cost \in Nat /\ DOMAIN row = {"started_at", "cost"}
    BY DEF Window
  <2>3. row.cost + cost \in Nat /\ now - row.started_at < FIVE_HOURS
    BY <1>2, <2>2
  <2> QED BY <1>2, <2>1, <2>2, <2>3 DEF Window
<1> QED BY <1>1, <1>2

\* The ledger and the windows after a turn was billed.
LEMMA RecordTypes ==
  ASSUME UsageTypeOK, NEW c \in Client, NEW cost \in Nat, record_turn(c, cost), now' = now
  PROVE  UsageTypeOK'
<1>1. now \in Nat
  BY UsageAssumption DEF UsageTypeOK
<1>2. PICK e : e = [client |-> c, ts |-> now, cost |-> cost]
  OBVIOUS
<1>3. e \in Event
  BY <1>1, <1>2 DEF Event
<1>4. usage_events' = Append(usage_events, e)
  BY <1>2 DEF record_turn
<1>5. usage_events' \in Seq(Event)
  BY <1>3, <1>4 DEF UsageTypeOK
<1>6. PICK w : w = Applied(sessions_5h[c], cost)
  OBVIOUS
<1>7. w \in Window
  BY <1>1, <1>6, AppliedIs DEF UsageTypeOK
<1>8. sessions_5h' = [sessions_5h EXCEPT ![c] = w]
  BY <1>6 DEF record_turn
<1> QED BY <1>5, <1>7, <1>8 DEF UsageTypeOK

\* A turn that goes on keeps the types, and its counts.
LEMMA GoingOnTypes ==
  ASSUME ChatTypeOK, RoundsGood, NEW t \in Turn,
         \/ begin(t) \/ model_calls(t) \/ model_answers(t) \/ model_retry(t) \/ model_fails(t)
         \/ tool_returns(t) \/ confirm_approved(t) \/ confirm_rejected(t)
  PROVE  ChatTypeOK' /\ RoundsGood'
<1>1. MAX_TOOL_ROUNDS \in Nat \ {0} /\ MAX_RETRIES \in Nat
  BY ChatAssumption
<1>2. calls[t] \in 0..MAX_TOOL_ROUNDS /\ attempt[t] \in 0..MAX_RETRIES
  BY DEF ChatTypeOK
<1>3. UsageTypeOK' /\ UNCHANGED <<issued, future, pending, clicks>>
  BY DEF ChatTypeOK, UsageTypeOK, usageVars, begin, model_calls, model_answers, model_retry,
         model_fails, tool_returns, confirm_approved, confirm_rejected
<1>4. CASE begin(t) \/ model_fails(t)
  BY <1>1, <1>3, <1>4 DEF ChatTypeOK, RoundsGood, begin, model_fails, Goto
<1>5. CASE model_calls(t)
  <2>1. calls[t] + 1 \in 1..MAX_TOOL_ROUNDS
    BY <1>1, <1>2, <1>5 DEF model_calls, RoundsGood
  <2>2. /\ calls' = [calls EXCEPT ![t] = calls[t] + 1]
        /\ \E p \in {"asked", "tool"} : pc' = [pc EXCEPT ![t] = p]
        /\ UNCHANGED <<attempt, usage, ran>>
    BY <1>5 DEF model_calls, Goto
  <2> QED BY <1>1, <1>3, <2>1, <2>2 DEF ChatTypeOK, RoundsGood
<1>6. CASE model_answers(t)
  <2>1. calls[t] + 1 \in 1..MAX_TOOL_ROUNDS
    BY <1>1, <1>2, <1>6 DEF model_answers, RoundsGood
  <2> QED BY <1>1, <1>3, <1>6, <2>1 DEF model_answers, ChatTypeOK, RoundsGood, Goto
<1>7. CASE model_retry(t)
  <2>1. attempt[t] + 1 \in 0..MAX_RETRIES
    BY <1>1, <1>2, <1>7 DEF model_retry, Retryable
  <2> QED BY <1>3, <1>7, <2>1 DEF model_retry, ChatTypeOK, RoundsGood
<1>8. CASE tool_returns(t) \/ confirm_rejected(t)
  BY <1>1, <1>2, <1>3, <1>8 DEF tool_returns, confirm_rejected, Resume, ChatTypeOK, RoundsGood, Goto
<1>9. CASE confirm_approved(t)
  <2>1. Current(t) \in Call
    BY <1>1, <1>2, <1>9 DEF confirm_approved, RoundsGood, Current, Call
  <2> QED BY <1>1, <1>3, <1>9, <2>1 DEF confirm_approved, ChatTypeOK, RoundsGood, Goto
<1> QED BY <1>4, <1>5, <1>6, <1>7, <1>8, <1>9

\* What cancel leaves is a store.
LEMMA CancelTypes ==
  ASSUME ChatTypeOK, NEW ids, cancel(ids)
  PROVE  /\ future' \in [Turn -> {"waiting", "approved", "rejected", "cancelled"}]
         /\ pending' \in [CallId -> Turn \cup {NoTurn}]
BY DEF cancel, ChatTypeOK

\* So does one that asks, gives up or ends,
LEMMA EndingTypes ==
  ASSUME ChatTypeOK, RoundsGood, NEW t \in Turn,
         confirm(t) \/ confirm_given_up(t) \/ finish(t) \/ bill(t) \/ abort(t)
  PROVE  ChatTypeOK' /\ RoundsGood'
<1>1. MAX_TOOL_ROUNDS \in Nat \ {0} /\ MAX_RETRIES \in Nat
  BY ChatAssumption
<1>2. calls[t] \in 0..MAX_TOOL_ROUNDS /\ usage[t] \in Nat
  BY <1>1 DEF ChatTypeOK
<1>3. CASE confirm(t)
  <2>1. PICK i : i = IdOf(Current(t))
    OBVIOUS
  <2>2. Current(t) \in Call
    BY <1>1, <1>2, <1>3 DEF confirm, RoundsGood, Current, Call
  <2>3. i \in CallId
    BY <2>1, <2>2, IdIsCallId
  <2>4. /\ pending' = [pending EXCEPT ![i] = t] /\ future' = [future EXCEPT ![t] = "waiting"]
        /\ issued' = [issued EXCEPT ![t] = @ \cup {i}] /\ pc' = [pc EXCEPT ![t] = "confirm"]
        /\ pc[t] = "asked" /\ UNCHANGED <<now, usage_events, sessions_5h, calls, attempt, usage, clicks, ran>>
    BY <1>3, <2>1 DEF confirm, create, Goto, usageVars
  <2>5. UsageTypeOK'
    BY <2>4 DEF ChatTypeOK, UsageTypeOK
  <2>6. ChatTypeOK'
    BY <2>3, <2>4, <2>5 DEF ChatTypeOK
  <2> QED BY <2>4, <2>6 DEF ChatTypeOK, RoundsGood
<1>4. CASE confirm_given_up(t)
  <2>1. UsageTypeOK'
    BY <1>4 DEF confirm_given_up, usageVars, ChatTypeOK, UsageTypeOK
  <2>2. /\ future' \in [Turn -> {"waiting", "approved", "rejected", "cancelled"}]
        /\ pending' \in [CallId -> Turn \cup {NoTurn}]
    BY <1>4, CancelTypes DEF confirm_given_up
  <2> QED BY <1>1, <1>2, <1>4, <2>1, <2>2 DEF confirm_given_up, Resume, ChatTypeOK, RoundsGood, Goto
<1>5. CASE finish(t) \/ abort(t)
  <2>1. UsageTypeOK'
    BY <1>5 DEF finish, abort, usageVars, ChatTypeOK, UsageTypeOK
  <2>2. /\ future' \in [Turn -> {"waiting", "approved", "rejected", "cancelled"}]
        /\ pending' \in [CallId -> Turn \cup {NoTurn}]
    BY <1>5, CancelTypes DEF finish, abort
  <2>3. /\ \/ pc' = [pc EXCEPT ![t] = "done"] /\ usage' = [usage EXCEPT ![t] = 0] /\ attempt' = [attempt EXCEPT ![t] = 0]
           \/ pc' = [pc EXCEPT ![t] = "bill"] /\ usage[t] # 0 /\ UNCHANGED <<usage, attempt>>
        /\ UNCHANGED <<calls, issued, clicks, ran>>
    BY <1>5 DEF finish, abort, Ended, Goto
  <2> QED BY <1>1, <1>2, <2>1, <2>2, <2>3 DEF ChatTypeOK, RoundsGood
<1>6. CASE bill(t)
  <2>1. client_of[session[t]] \in Client
    BY ChatAssumption
  <2>2. PICK c \in Client : c = client_of[session[t]]
    BY <2>1
  <2>3. PICK u \in Nat : u = usage[t]
    BY <1>2
  <2>4. record_turn(c, u) /\ now' = now
    BY <1>6, <2>2, <2>3 DEF bill
  <2>5. UsageTypeOK'
    BY <2>4, RecordTypes DEF ChatTypeOK
  <2> QED BY <1>1, <1>6, <2>5 DEF bill, Ended, ChatTypeOK, RoundsGood, Goto
<1> QED BY <1>3, <1>4, <1>5, <1>6

\* and an answer on a card.
LEMMA AnswerTypes ==
  ASSUME ChatTypeOK, RoundsGood, NEW s \in Session, NEW c \in Call,
         NEW answer \in {"approved", "rejected"}, api_chat_confirm(s, c, answer)
  PROVE  ChatTypeOK' /\ RoundsGood'
<1>1. PICK i : i = IdOf(c)
  OBVIOUS
<1>2. i \in CallId
  BY <1>1, IdIsCallId
<1>3. resolve(s, i, answer) /\ UNCHANGED <<now, usage_events, sessions_5h, pc, calls, attempt, usage, issued, ran>>
  BY <1>1 DEF api_chat_confirm, usageVars
<1>4. /\ future' \in [Turn -> {"waiting", "approved", "rejected", "cancelled"}]
      /\ pending' \in [CallId -> Turn \cup {NoTurn}]
  BY <1>2, <1>3 DEF resolve, MayResolve, ChatTypeOK
<1>5. clicks' \in [Call -> {"none", "approved", "rejected"}]
  BY DEF api_chat_confirm, ChatTypeOK
<1>6. UsageTypeOK'
  BY <1>3 DEF ChatTypeOK, UsageTypeOK
<1> QED BY <1>3, <1>4, <1>5, <1>6 DEF ChatTypeOK, RoundsGood

\* The types hold initially and every step keeps them.
LEMMA TypesInit ==
  ASSUME Init
  PROVE  ChatTypeOK /\ RoundsGood
<1>1. NoRow \in Window
  BY DEF NoRow, Window
<1>2. UsageTypeOK
  BY <1>1, UsageAssumption DEF Init, UsageInit, UsageTypeOK
<1> QED BY <1>2, ChatAssumption DEF Init, ChatTypeOK, RoundsGood

\* No step breaks the types, whatever the ids.
LEMMA TypesStep ==
  ASSUME ChatTypeOK, RoundsGood, [Next]_vars
  PROVE  ChatTypeOK' /\ RoundsGood'
<1>1. ASSUME NEW t \in Turn, begin(t) \/ TurnStep(t) \/ abort(t) PROVE ChatTypeOK' /\ RoundsGood'
  BY <1>1, GoingOnTypes, EndingTypes DEF TurnStep
<1>2. CASE tick
  <2>1. now + 1 \in 0..MaxTime
    BY <1>2, UsageAssumption DEF tick, ChatTypeOK, UsageTypeOK
  <2> QED BY <1>2, <2>1 DEF tick, turnVars, usageVars, ChatTypeOK, UsageTypeOK, RoundsGood
<1>3. CASE UNCHANGED vars
  BY <1>3 DEF vars, turnVars, usageVars, ChatTypeOK, UsageTypeOK, RoundsGood
<1> QED BY <1>1, <1>2, <1>3, AnswerTypes DEF Next

-----------------------------------------------------------------------------
(* The ledger and its sums.                                                *)

\* What the events of the ledger count for client c since t.
Amounts(c, t) == [i \in DOMAIN usage_events |-> Counted(usage_events[i], c, t)]

\* An event counts a number,
LEMMA CountedIsNat ==
  ASSUME NEW e \in Event, NEW c, NEW t
  PROVE  Counted(e, c, t) \in Nat
<1>1. e.cost \in Nat
  BY DEF Event
<1> QED BY <1>1 DEF Counted

\* and the amounts are as many as the events.
LEMMA AmountsAre ==
  ASSUME usage_events \in Seq(Event), NEW c, NEW t
  PROVE  /\ Amounts(c, t) \in Seq(Nat) /\ Len(Amounts(c, t)) = Len(usage_events)
         /\ \A i \in 1..Len(usage_events) : Amounts(c, t)[i] = Counted(usage_events[i], c, t)
         /\ SpentSince(c, t) = Total(Amounts(c, t))
<1>1. DOMAIN usage_events = 1..Len(usage_events) /\ Len(usage_events) \in Nat
  OBVIOUS
<1>2. \A i \in 1..Len(usage_events) : Counted(usage_events[i], c, t) \in Nat
  <2>1. \A i \in 1..Len(usage_events) : usage_events[i] \in Event
    OBVIOUS
  <2> QED BY <2>1, CountedIsNat
<1>3. PICK a : a = Amounts(c, t)
  OBVIOUS
<1>4. a = [i \in 1..Len(usage_events) |-> Counted(usage_events[i], c, t)]
  BY <1>1, <1>3 DEF Amounts
<1>5. a \in Seq(Nat) /\ Len(a) = Len(usage_events)
  BY <1>1, <1>2, <1>4
<1> QED BY <1>3, <1>4, <1>5 DEF SpentSince, Amounts

\* What a client spent is a number, and no more since later.
LEMMA SpentLater ==
  ASSUME usage_events \in Seq(Event), NEW c, NEW t \in Int, NEW u \in Int, t <= u
  PROVE  SpentSince(c, u) <= SpentSince(c, t) /\ SpentSince(c, t) \in Nat
<1>1. PICK a : a = Amounts(c, u)
  OBVIOUS
<1>2. PICK b : b = Amounts(c, t)
  OBVIOUS
<1>3. /\ a \in Seq(Nat) /\ b \in Seq(Nat) /\ Len(a) = Len(usage_events) /\ Len(b) = Len(usage_events)
      /\ SpentSince(c, u) = Total(a) /\ SpentSince(c, t) = Total(b)
  BY <1>1, <1>2, AmountsAre
<1>4. ASSUME NEW i \in 1..Len(a) PROVE a[i] <= b[i]
  <2>1. a[i] = Counted(usage_events[i], c, u) /\ b[i] = Counted(usage_events[i], c, t)
    BY <1>1, <1>2, <1>3, AmountsAre
  <2>2. usage_events[i] \in Event
    BY <1>3
  <2>3. usage_events[i].ts \in Nat /\ usage_events[i].cost \in Nat
    BY <2>2 DEF Event
  <2> QED BY <2>1, <2>3 DEF Counted
<1>5. Len(a) = Len(b)
  BY <1>3
<1>6. Total(a) <= Total(b)
  BY <1>3, <1>4, <1>5, TotalOfLess
<1>7. Total(b) \in Nat
  BY <1>3, TotalIsNat
<1> QED BY <1>3, <1>6, <1>7

\* A client without events since t has spent nothing since t.
LEMMA SpentNothing ==
  ASSUME usage_events \in Seq(Event), NEW c, NEW t \in Int,
         \A i \in DOMAIN usage_events : usage_events[i].client = c => usage_events[i].ts < t
  PROVE  SpentSince(c, t) = 0
<1>1. PICK a : a = Amounts(c, t)
  OBVIOUS
<1>2. /\ a \in Seq(Nat) /\ Len(a) = Len(usage_events) /\ SpentSince(c, t) = Total(a)
      /\ \A i \in 1..Len(a) : a[i] = Counted(usage_events[i], c, t)
  BY <1>1, AmountsAre
<1>3. ASSUME NEW i \in 1..Len(a) PROVE a[i] = 0
  <2>1. usage_events[i] \in Event /\ i \in DOMAIN usage_events
    BY <1>2
  <2>2. usage_events[i].ts \in Nat
    BY <2>1 DEF Event
  <2>3. ~ (usage_events[i].client = c /\ usage_events[i].ts >= t)
    BY <2>1, <2>2
  <2>4. a[i] = Counted(usage_events[i], c, t)
    BY <1>2
  <2> QED BY <2>3, <2>4 DEF Counted
<1> QED BY <1>2, <1>3, TotalOfZeros

\* A billed turn adds what it cost, for its client and since any time until now.
LEMMA SpentAfterTurn ==
  ASSUME UsageTypeOK, NEW d \in Client, NEW cost \in Nat, record_turn(d, cost), NEW c, NEW t \in Int
  PROVE  SpentSince(c, t)' = SpentSince(c, t) + (IF d = c /\ now >= t THEN cost ELSE 0)
<1>1. PICK e : e = [client |-> d, ts |-> now, cost |-> cost]
  OBVIOUS
<1>2. now \in Nat /\ usage_events \in Seq(Event)
  BY UsageAssumption DEF UsageTypeOK
<1>3. e \in Event /\ e.client = d /\ e.ts = now /\ e.cost = cost
  BY <1>1, <1>2 DEF Event
<1>4. usage_events' = Append(usage_events, e)
  BY <1>1 DEF record_turn
<1>5. /\ usage_events' \in Seq(Event) /\ Len(usage_events') = Len(usage_events) + 1
      /\ usage_events'[Len(usage_events')] = e
      /\ \A i \in 1..Len(usage_events) : usage_events'[i] = usage_events[i]
  BY <1>2, <1>3, <1>4
<1>6. PICK a : a = Amounts(c, t)
  OBVIOUS
<1>7. PICK b : b = Amounts(c, t)'
  OBVIOUS
<1>8. /\ a \in Seq(Nat) /\ Len(a) = Len(usage_events) /\ SpentSince(c, t) = Total(a)
      /\ \A i \in 1..Len(a) : a[i] = Counted(usage_events[i], c, t)
  BY <1>2, <1>6, AmountsAre
<1>9. /\ b \in Seq(Nat) /\ Len(b) = Len(usage_events') /\ SpentSince(c, t)' = Total(b)
      /\ \A i \in 1..Len(b) : b[i] = Counted(usage_events'[i], c, t)
  <2>1. DOMAIN usage_events' = 1..Len(usage_events') /\ Len(usage_events') \in Nat
    BY <1>5
  <2>2. \A i \in 1..Len(usage_events') : Counted(usage_events'[i], c, t) \in Nat
    <3>1. \A i \in 1..Len(usage_events') : usage_events'[i] \in Event
      BY <1>5
    <3> QED BY <3>1, CountedIsNat
  <2>3. b = [i \in 1..Len(usage_events') |-> Counted(usage_events'[i], c, t)]
    BY <1>7, <2>1 DEF Amounts
  <2>4. b \in Seq(Nat) /\ Len(b) = Len(usage_events')
    BY <2>1, <2>2, <2>3
  <2>5. SpentSince(c, t)' = Total(b)
    BY <1>7 DEF SpentSince, Amounts
  <2> QED BY <2>3, <2>4, <2>5
<1>10. PICK x \in Nat : x = IF d = c /\ now >= t THEN cost ELSE 0
  OBVIOUS
<1>11. Len(b) = Len(a) + 1 /\ Len(a) \in Nat
  BY <1>5, <1>8, <1>9
<1>12. b[Len(b)] = x
  <2>1. Len(b) \in 1..Len(b)
    BY <1>11
  <2>2. b[Len(b)] = Counted(e, c, t)
    BY <1>5, <1>9, <2>1
  <2> QED BY <1>3, <1>10, <2>2 DEF Counted
<1>13. \A i \in 1..Len(a) : b[i] = a[i]
  <2> SUFFICES ASSUME NEW i \in 1..Len(a) PROVE b[i] = a[i]
    OBVIOUS
  <2>1. i \in 1..Len(b)
    BY <1>11
  <2> QED BY <1>5, <1>8, <1>9, <2>1
<1>14. Total(b) = Total(a) + x
  BY <1>8, <1>9, <1>11, <1>12, <1>13, TotalAppend
<1> QED BY <1>8, <1>9, <1>10, <1>14

-----------------------------------------------------------------------------
(* The window and the ledger.                                              *)

\* No event of a client is later than its window, so that a new one begins
\* with nothing in the ledger; and who has no window has no event.
LedgerGood ==
  \A c \in Client :
    /\ sessions_5h[c].started_at <= now
    /\ \A i \in DOMAIN usage_events : usage_events[i].client = c =>
         /\ usage_events[i].ts < sessions_5h[c].started_at + FIVE_HOURS
         /\ sessions_5h[c] # NoRow

MeterGood == ChatTypeOK /\ RoundsGood /\ LedgerGood /\ WindowAgrees

\* A billed turn: the row and the ledger, written one after the other, agree.
LEMMA RecordGood ==
  ASSUME UsageTypeOK, LedgerGood, WindowAgrees, NEW d \in Client, NEW cost \in Nat, cost > 0,
         record_turn(d, cost), now' = now
  PROVE  LedgerGood' /\ WindowAgrees'
<1>1. now \in Nat /\ usage_events \in Seq(Event) /\ sessions_5h \in [Client -> Window] /\ FIVE_HOURS \in Nat \ {0}
  BY UsageAssumption DEF UsageTypeOK
<1>2. PICK row \in Window : row = sessions_5h[d]
  BY <1>1
<1>3. PICK w : w = Applied(row, cost)
  OBVIOUS
<1>4. /\ w \in Window
      /\ \/ /\ row = NoRow \/ now - row.started_at >= FIVE_HOURS
            /\ w.started_at = now /\ w.cost = cost
         \/ /\ row # NoRow /\ now - row.started_at < FIVE_HOURS
            /\ w.started_at = row.started_at /\ w.cost = row.cost + cost
  BY <1>1, <1>3, AppliedIs
<1>5. /\ row.started_at \in Nat /\ row.cost \in Nat /\ w.started_at \in Nat /\ w.cost \in Nat
      /\ row.started_at <= now
  BY <1>1, <1>2, <1>4 DEF Window, LedgerGood
<1>6. sessions_5h'[d] = w /\ \A c \in Client : c # d => sessions_5h'[c] = sessions_5h[c]
  BY <1>1, <1>2, <1>3 DEF record_turn
<1>7. w.cost # 0 /\ w # NoRow /\ w.started_at <= now /\ now < w.started_at + FIVE_HOURS /\ row.started_at <= w.started_at
  BY <1>1, <1>4, <1>5 DEF NoRow
<1>8. PICK e : e = [client |-> d, ts |-> now, cost |-> cost]
  OBVIOUS
<1>9. usage_events' = Append(usage_events, e) /\ e.client = d /\ e.ts = now
  BY <1>8 DEF record_turn
<1>10. LedgerGood'
  <2> SUFFICES ASSUME NEW c \in Client
               PROVE  /\ sessions_5h'[c].started_at <= now
                      /\ \A i \in DOMAIN usage_events' : usage_events'[i].client = c =>
                           /\ usage_events'[i].ts < sessions_5h'[c].started_at + FIVE_HOURS
                           /\ sessions_5h'[c] # NoRow
    BY DEF LedgerGood
  <2>1. sessions_5h'[c].started_at <= now
    BY <1>6, <1>7 DEF LedgerGood
  <2>2. ASSUME NEW i \in DOMAIN usage_events', usage_events'[i].client = c
        PROVE  /\ usage_events'[i].ts < sessions_5h'[c].started_at + FIVE_HOURS
               /\ sessions_5h'[c] # NoRow
    <3>1. \/ usage_events'[i] = e
          \/ i \in DOMAIN usage_events /\ usage_events'[i] = usage_events[i]
      BY <1>1, <1>9
    <3>2. CASE usage_events'[i] = e
      BY <1>6, <1>7, <1>9, <2>2, <3>2
    <3>3. CASE i \in DOMAIN usage_events /\ usage_events'[i] = usage_events[i]
      <4>1. /\ usage_events[i].ts < sessions_5h[c].started_at + FIVE_HOURS /\ sessions_5h[c] # NoRow
            /\ usage_events[i] \in Event
        BY <1>1, <2>2, <3>3 DEF LedgerGood
      <4>2. usage_events[i].ts \in Nat
        BY <4>1 DEF Event
      <4>3. CASE c = d
        BY <1>1, <1>2, <1>5, <1>6, <1>7, <3>3, <4>1, <4>2, <4>3
      <4>4. CASE c # d
        BY <1>6, <3>3, <4>1, <4>4
      <4> QED BY <4>3, <4>4
    <3> QED BY <3>1, <3>2, <3>3
  <2> QED BY <2>1, <2>2
<1>11. WindowAgrees'
  <2> SUFFICES ASSUME NEW c \in Client
               PROVE  sessions_5h'[c].cost = SpentSince(c, sessions_5h[c].started_at)'
    BY DEF WindowAgrees
  <2>1. PICK s : s = sessions_5h'[c].started_at
    OBVIOUS
  <2>2. SpentSince(c, sessions_5h[c].started_at)' = SpentSince(c, s)'
    BY <2>1 DEF SpentSince
  <2>3. s \in Int
    <3>1. CASE c = d
      BY <1>5, <1>6, <2>1, <3>1
    <3>2. CASE c # d
      <4>1. sessions_5h[c] \in Window
        BY <1>1
      <4>2. sessions_5h[c].started_at \in Nat
        BY <4>1 DEF Window
      <4> QED BY <1>6, <2>1, <3>2, <4>2
    <3> QED BY <3>1, <3>2
  <2>4. SpentSince(c, s)' = SpentSince(c, s) + (IF d = c /\ now >= s THEN cost ELSE 0)
    BY <2>3, SpentAfterTurn
  <2>5. CASE c # d
    <3>1. s = sessions_5h[c].started_at /\ sessions_5h'[c].cost = sessions_5h[c].cost
      BY <1>6, <2>1, <2>5
    <3>2. sessions_5h[c].cost = SpentSince(c, s) /\ SpentSince(c, s) \in Nat
      BY <1>1, <2>3, <3>1, SpentLater DEF WindowAgrees
    <3> QED BY <2>2, <2>4, <2>5, <3>1, <3>2
  <2>6. CASE c = d /\ row # NoRow /\ now - row.started_at < FIVE_HOURS
    <3>1. s = row.started_at /\ sessions_5h'[c].cost = row.cost + cost
      BY <1>1, <1>4, <1>5, <1>6, <2>1, <2>6
    <3>2. row.cost = SpentSince(c, s)
      BY <1>2, <2>6, <3>1 DEF WindowAgrees
    <3> QED BY <1>5, <2>2, <2>4, <2>6, <3>1, <3>2
  <2>7. CASE c = d /\ (row = NoRow \/ now - row.started_at >= FIVE_HOURS)
    <3>1. s = now /\ sessions_5h'[c].cost = cost
      BY <1>1, <1>4, <1>5, <1>6, <2>1, <2>7
    <3>2. ASSUME NEW i \in DOMAIN usage_events, usage_events[i].client = c
          PROVE  usage_events[i].ts < s
      <4>1. /\ usage_events[i].ts < row.started_at + FIVE_HOURS /\ row # NoRow
            /\ usage_events[i] \in Event
        BY <1>1, <1>2, <2>7, <3>2 DEF LedgerGood
      <4>2. usage_events[i].ts \in Nat
        BY <4>1 DEF Event
      <4> QED BY <1>1, <1>5, <2>7, <3>1, <4>1, <4>2
    <3>3. SpentSince(c, s) = 0
      BY <1>1, <2>3, <3>2, SpentNothing
    <3> QED BY <1>1, <2>2, <2>4, <2>7, <3>1, <3>3
  <2>8. (row # NoRow /\ now - row.started_at < FIVE_HOURS) \/ row = NoRow \/ now - row.started_at >= FIVE_HOURS
    BY <1>4
  <2> QED BY <2>5, <2>6, <2>7, <2>8
<1> QED BY <1>10, <1>11

\* The ledger is good initially and every step keeps it so.
LEMMA MeterInit ==
  ASSUME Init
  PROVE  MeterGood
<1>1. ChatTypeOK /\ RoundsGood
  BY TypesInit
<1>2. /\ usage_events = <<>> /\ now = 0
      /\ \A c \in Client : sessions_5h[c] = NoRow /\ NoRow.started_at = 0 /\ NoRow.cost = 0
  BY DEF Init, UsageInit, NoRow
<1>3. LedgerGood
  <2>1. DOMAIN usage_events = {} /\ \A c \in Client : sessions_5h[c].started_at <= now
    BY <1>2
  <2> QED BY <2>1 DEF LedgerGood
<1>4. ASSUME NEW c \in Client PROVE SpentSince(c, 0) = 0
  <2>1. usage_events \in Seq(Event) /\ DOMAIN usage_events = {}
    BY <1>2
  <2> QED BY <2>1, SpentNothing
<1>5. WindowAgrees
  BY <1>2, <1>4 DEF WindowAgrees
<1> QED BY <1>1, <1>3, <1>5 DEF MeterGood

\* A step appends to the ledger through record_turn only, or moves the clock.
LEMMA MeterStep ==
  ASSUME MeterGood, [Next]_vars
  PROVE  MeterGood'
<1>1. ChatTypeOK' /\ RoundsGood'
  BY TypesStep DEF MeterGood
<1>2. ASSUME UNCHANGED usageVars, now' >= now PROVE LedgerGood' /\ WindowAgrees'
  <2>1. LedgerGood'
    <3>1. \A c \in Client : sessions_5h[c].started_at \in Nat
      BY DEF MeterGood, ChatTypeOK, UsageTypeOK, Window
    <3>2. now \in Nat /\ now' \in Nat
      BY <1>1, UsageAssumption DEF MeterGood, ChatTypeOK, UsageTypeOK
    <3> QED BY <1>2, <3>1, <3>2 DEF usageVars, MeterGood, LedgerGood
  <2>2. WindowAgrees'
    BY <1>2 DEF usageVars, MeterGood, WindowAgrees, SpentSince
  <2> QED BY <2>1, <2>2
<1>3. now \in Nat
  BY UsageAssumption DEF MeterGood, ChatTypeOK, UsageTypeOK
<1>4. ASSUME NEW t \in Turn, bill(t) PROVE LedgerGood' /\ WindowAgrees'
  <2>1. PICK c \in Client : c = client_of[session[t]]
    BY ChatAssumption
  <2>2. usage[t] \in Nat /\ usage[t] > 0
    BY <1>4, ChatAssumption DEF bill, MeterGood, ChatTypeOK, RoundsGood
  <2>3. PICK u \in Nat : u = usage[t]
    BY <2>2
  <2>4. record_turn(c, u) /\ now' = now /\ u > 0
    BY <1>4, <2>1, <2>2, <2>3 DEF bill
  <2> QED BY <2>4, RecordGood DEF MeterGood, ChatTypeOK
<1>5. CASE tick
  <2>1. now' >= now /\ UNCHANGED usageVars
    BY <1>3, <1>5 DEF tick
  <2> QED BY <1>1, <1>2, <2>1 DEF MeterGood
<1>6. CASE UNCHANGED vars
  <2>1. now' >= now /\ UNCHANGED usageVars
    BY <1>3, <1>6 DEF vars
  <2> QED BY <1>1, <1>2, <2>1 DEF MeterGood
<1>7. ASSUME NEW s \in Session, NEW c \in Call, NEW a \in {"approved", "rejected"}, api_chat_confirm(s, c, a)
      PROVE  MeterGood'
  <2>1. now' >= now /\ UNCHANGED usageVars
    BY <1>3, <1>7 DEF api_chat_confirm
  <2> QED BY <1>1, <1>2, <2>1 DEF MeterGood
<1>8. ASSUME NEW t \in Turn, begin(t) \/ TurnStep(t) \/ abort(t), ~ bill(t) PROVE MeterGood'
  <2>1. now' >= now /\ UNCHANGED usageVars
    BY <1>3, <1>8 DEF TurnStep, begin, abort, model_calls, model_answers, model_retry, model_fails,
                      confirm, confirm_approved, confirm_rejected, confirm_given_up, tool_returns, finish
  <2> QED BY <1>1, <1>2, <2>1 DEF MeterGood
<1> QED BY <1>1, <1>4, <1>5, <1>6, <1>7, <1>8 DEF Next, MeterGood

\* The invariant of the meter: types and counts of turns, and the ledger.
THEOREM MeterInductive == Spec => []MeterGood
<1>1. Init => MeterGood
  BY MeterInit
<1>2. MeterGood /\ [Next]_vars => MeterGood'
  BY MeterStep
<1> QED BY <1>1, <1>2, PTL DEF Spec

\* A turn is always in one of its places, with counts within their bounds.
THEOREM ChatTypeCorrect == Spec => []ChatTypeOK
<1>1. MeterGood => ChatTypeOK
  BY DEF MeterGood
<1> QED BY <1>1, MeterInductive, PTL

\* The row of a client's window, which record_turn updates after it appended to
\* the ledger, holds exactly what the ledger has for it since the window opened.
THEOREM WindowIsLedger == Spec => []WindowAgrees
<1>1. MeterGood => WindowAgrees
  BY DEF MeterGood
<1> QED BY <1>1, MeterInductive, PTL

-----------------------------------------------------------------------------
(* The caps.  check_budget looks at what was billed before a turn begins,  *)
(* and a turn is billed when it ends, so a client can overdraw: by what    *)
(* the turns under way may still cost, and by no more.                     *)

\* The turns of client c that began and have not ended.
UnderWay(c) == {t \in Turn : client_of[session[t]] = c /\ pc[t] \notin {"idle", "done"}}

\* Client c has at most K turns under way.
AtMost(c, K) == Cardinality(UnderWay(c)) <= K

\* No cap is exceeded by more than K turns of the longest kind.
Overdraft(c, K) ==
  /\ LIMIT_5H # 0 => Spent5h(c) <= LIMIT_5H - 1 + MAX_TOOL_ROUNDS * K
  /\ LIMIT_WEEK # 0 => SpentWeek(c) <= LIMIT_WEEK - 1 + MAX_TOOL_ROUNDS * K

\* The turns under way have their cost set aside in each window; a window that
\* is over counts no more.
SetAside(c, K) ==
  /\ IsFiniteSet(UnderWay(c))
  /\ LIMIT_5H # 0 /\ now - sessions_5h[c].started_at < FIVE_HOURS =>
       sessions_5h[c].cost + MAX_TOOL_ROUNDS * Cardinality(UnderWay(c)) <= LIMIT_5H - 1 + MAX_TOOL_ROUNDS * K
  /\ LIMIT_WEEK # 0 =>
       SpentWeek(c) + MAX_TOOL_ROUNDS * Cardinality(UnderWay(c)) <= LIMIT_WEEK - 1 + MAX_TOOL_ROUNDS * K

\* More turns may cost more.
LEMMA MoreTurnsCostMore ==
  ASSUME NEW r \in Nat, NEW m \in Nat, NEW n \in Nat, m <= n
  PROVE  r * m \in Nat /\ r * n \in Nat /\ r * m <= r * n
<1>1. PICK d \in Nat : n = m + d
  <2>1. n - m \in Nat /\ n = m + (n - m)
    OBVIOUS
  <2> QED BY <2>1
<1>2. r * n = r * m + r * d
  BY <1>1
<1>3. r * m \in Nat /\ r * d \in Nat
  OBVIOUS
<1> QED BY <1>2, <1>3

\* One turn more may cost what a turn may cost.
LEMMA OneTurnMore ==
  ASSUME NEW r \in Nat, NEW m \in Nat
  PROVE  r * (m + 1) = r * m + r /\ r * m \in Nat
OBVIOUS

\* What a state has for the sums: numbers.
LEMMA SpendTypes ==
  ASSUME MeterGood, NEW c \in Client
  PROVE  /\ now \in Nat /\ usage_events \in Seq(Event) /\ UsageTypeOK
         /\ sessions_5h[c] \in Window /\ sessions_5h[c].started_at \in Nat /\ sessions_5h[c].cost \in Nat
         /\ SpentWeek(c) \in Nat /\ now - SEVEN_DAYS \in Int
         /\ FIVE_HOURS \in Nat \ {0} /\ SEVEN_DAYS \in Nat \ {0} /\ LIMIT_5H \in Nat /\ LIMIT_WEEK \in Nat
         /\ MAX_TOOL_ROUNDS \in Nat
<1>1. /\ now \in Nat /\ usage_events \in Seq(Event) /\ UsageTypeOK /\ sessions_5h[c] \in Window
      /\ FIVE_HOURS \in Nat \ {0} /\ SEVEN_DAYS \in Nat \ {0} /\ LIMIT_5H \in Nat /\ LIMIT_WEEK \in Nat
      /\ MAX_TOOL_ROUNDS \in Nat
  BY UsageAssumption, ChatAssumption DEF MeterGood, ChatTypeOK, UsageTypeOK
<1>2. sessions_5h[c].started_at \in Nat /\ sessions_5h[c].cost \in Nat
  BY <1>1 DEF Window
<1>3. PICK t \in Int : t = now - SEVEN_DAYS
  BY <1>1
<1>4. SpentSince(c, t) \in Nat
  BY <1>1, SpentLater
<1> QED BY <1>1, <1>2, <1>3, <1>4 DEF SpentWeek

\* What a step does to the turns of client c and to its money.
LEMMA SpendCases ==
  ASSUME MeterGood, NEW c \in Client, [Next]_vars
  PROVE  \/ UnderWay(c)' \subseteq UnderWay(c) /\ UNCHANGED <<now, usage_events, sessions_5h>>
         \/ /\ \E t \in Turn : t \notin UnderWay(c) /\ UnderWay(c)' = UnderWay(c) \cup {t}
            /\ WithinBudget(c) /\ UNCHANGED <<now, usage_events, sessions_5h>>
         \/ /\ \E t \in UnderWay(c) : UnderWay(c)' = UnderWay(c) \ {t}
            /\ now' = now /\ \E u \in 0..MAX_TOOL_ROUNDS : record_turn(c, u)
         \/ /\ UnderWay(c)' = UnderWay(c)
            /\ now' = now /\ \E d \in Client, u \in Nat : d # c /\ record_turn(d, u)
         \/ UnderWay(c)' = UnderWay(c) /\ UNCHANGED <<usage_events, sessions_5h>> /\ now' = now + 1
<1>1. pc \in [Turn -> {"idle", "model", "asked", "confirm", "tool", "finish", "bill", "done"}]
  BY DEF MeterGood, ChatTypeOK
<1>2. ASSUME NEW t \in Turn, begin(t)
      PROVE  \/ UnderWay(c)' \subseteq UnderWay(c) /\ UNCHANGED <<now, usage_events, sessions_5h>>
             \/ /\ \E u \in Turn : u \notin UnderWay(c) /\ UnderWay(c)' = UnderWay(c) \cup {u}
                /\ WithinBudget(c) /\ UNCHANGED <<now, usage_events, sessions_5h>>
  <2>1. pc[t] = "idle" /\ pc' = [pc EXCEPT ![t] = "model"] /\ UNCHANGED <<now, usage_events, sessions_5h>>
        /\ WithinBudget(client_of[session[t]])
    BY <1>2 DEF begin, Goto, usageVars
  <2>2. CASE client_of[session[t]] = c
    <3>1. t \notin UnderWay(c) /\ UnderWay(c)' = UnderWay(c) \cup {t}
      BY <1>1, <2>1, <2>2 DEF UnderWay
    <3> QED BY <2>1, <2>2, <3>1
  <2>3. CASE client_of[session[t]] # c
    <3>1. UnderWay(c)' \subseteq UnderWay(c)
      BY <1>1, <2>1, <2>3 DEF UnderWay
    <3> QED BY <2>1, <3>1
  <2> QED BY <2>2, <2>3
<1>3. ASSUME NEW t \in Turn, bill(t)
      PROVE  \/ /\ \E v \in UnderWay(c) : UnderWay(c)' = UnderWay(c) \ {v}
                /\ now' = now /\ \E u \in 0..MAX_TOOL_ROUNDS : record_turn(c, u)
             \/ /\ UnderWay(c)' = UnderWay(c)
                /\ now' = now /\ \E d \in Client, u \in Nat : d # c /\ record_turn(d, u)
  <2>1. pc[t] = "bill" /\ pc' = [pc EXCEPT ![t] = "done"] /\ now' = now
        /\ record_turn(client_of[session[t]], usage[t])
    BY <1>3 DEF bill, Ended, Goto
  <2>2. usage[t] \in 0..MAX_TOOL_ROUNDS /\ usage[t] \in Nat /\ client_of[session[t]] \in Client
    BY ChatAssumption DEF MeterGood, ChatTypeOK, RoundsGood
  <2>3. CASE client_of[session[t]] = c
    <3>1. t \in UnderWay(c) /\ UnderWay(c)' = UnderWay(c) \ {t}
      BY <1>1, <2>1, <2>3 DEF UnderWay
    <3> QED BY <2>1, <2>2, <2>3, <3>1
  <2>4. CASE client_of[session[t]] # c
    <3>1. UnderWay(c)' = UnderWay(c)
      BY <1>1, <2>1, <2>4 DEF UnderWay
    <3> QED BY <2>1, <2>2, <2>4, <3>1
  <2> QED BY <2>3, <2>4
<1>4. ASSUME NEW t \in Turn, TurnStep(t) \/ abort(t), ~ bill(t)
      PROVE  UnderWay(c)' \subseteq UnderWay(c) /\ UNCHANGED <<now, usage_events, sessions_5h>>
  <2>1. UNCHANGED <<now, usage_events, sessions_5h>>
    BY <1>4 DEF TurnStep, abort, model_calls, model_answers, model_retry, model_fails, confirm, usageVars,
                confirm_approved, confirm_rejected, confirm_given_up, tool_returns, finish
  <2>2. pc[t] \notin {"idle", "done"} /\ (pc' = pc \/ \E p : pc' = [pc EXCEPT ![t] = p])
    BY <1>4 DEF TurnStep, abort, model_calls, model_answers, model_retry, model_fails, confirm, Ended, Goto,
                confirm_approved, confirm_rejected, confirm_given_up, tool_returns, finish, Resume
  <2> QED BY <1>1, <2>1, <2>2 DEF UnderWay
<1>5. CASE tick
  <2>1. UNCHANGED <<usage_events, sessions_5h, pc>> /\ now' = now + 1
    BY <1>5 DEF tick, usageVars, turnVars
  <2> QED BY <2>1 DEF UnderWay
<1>6. ASSUME UNCHANGED vars \/ \E s \in Session, k \in Call, a \in {"approved", "rejected"} : api_chat_confirm(s, k, a)
      PROVE  UnderWay(c)' \subseteq UnderWay(c) /\ UNCHANGED <<now, usage_events, sessions_5h>>
  <2>1. UNCHANGED <<now, usage_events, sessions_5h, pc>>
    BY <1>6 DEF vars, usageVars, turnVars, api_chat_confirm
  <2> QED BY <2>1 DEF UnderWay
<1>7. CASE Next
  <2>1. CASE \E t \in Turn : begin(t) \/ TurnStep(t) \/ abort(t)
    BY <1>2, <1>3, <1>4, <2>1
  <2> QED BY <1>5, <1>6, <1>7, <2>1 DEF Next
<1> QED BY <1>6, <1>7

\* Fewer turns and the same money.
LEMMA SpendFewer ==
  ASSUME MeterGood, NEW c \in Client, NEW K \in Nat, SetAside(c, K),
         UnderWay(c)' \subseteq UnderWay(c), UNCHANGED <<now, usage_events, sessions_5h>>
  PROVE  SetAside(c, K)'
<1>0. /\ now \in Nat /\ sessions_5h[c].started_at \in Nat /\ sessions_5h[c].cost \in Nat /\ SpentWeek(c) \in Nat
      /\ FIVE_HOURS \in Nat /\ LIMIT_5H \in Nat /\ LIMIT_WEEK \in Nat /\ MAX_TOOL_ROUNDS \in Nat
  BY SpendTypes
<1>1. PICK n : n = Cardinality(UnderWay(c))
  OBVIOUS
<1>2. PICK m : m = Cardinality(UnderWay(c))'
  OBVIOUS
<1>3. IsFiniteSet(UnderWay(c)) /\ IsFiniteSet(UnderWay(c))' /\ n \in Nat /\ m \in Nat /\ m <= n
  BY <1>1, <1>2, FS_Subset, FS_CardinalityType DEF SetAside
<1>4. PICK x : x = MAX_TOOL_ROUNDS * n
  OBVIOUS
<1>5. PICK y : y = MAX_TOOL_ROUNDS * m
  OBVIOUS
<1>6. PICK z : z = MAX_TOOL_ROUNDS * K
  OBVIOUS
<1>7. x \in Nat /\ y \in Nat /\ z \in Nat /\ y <= x
  <2>1. x \in Nat /\ y \in Nat /\ y <= x
    BY <1>0, <1>3, <1>4, <1>5, MoreTurnsCostMore
  <2>2. z \in Nat
    BY <1>0, <1>6
  <2> QED BY <2>1, <2>2
<1>8. SpentWeek(c)' = SpentWeek(c)
  BY DEF SpentWeek, SpentSince
<1>9. /\ LIMIT_5H # 0 /\ now - sessions_5h[c].started_at < FIVE_HOURS => sessions_5h[c].cost + x <= LIMIT_5H - 1 + z
      /\ LIMIT_WEEK # 0 => SpentWeek(c) + x <= LIMIT_WEEK - 1 + z
  BY <1>1, <1>4, <1>6 DEF SetAside
<1>10. /\ LIMIT_5H # 0 /\ now - sessions_5h[c].started_at < FIVE_HOURS => sessions_5h[c].cost + y <= LIMIT_5H - 1 + z
       /\ LIMIT_WEEK # 0 => SpentWeek(c) + y <= LIMIT_WEEK - 1 + z
  BY <1>0, <1>7, <1>9
<1> QED BY <1>2, <1>3, <1>5, <1>6, <1>8, <1>10 DEF SetAside

\* A turn begins, within the budget.
LEMMA SpendBegin ==
  ASSUME MeterGood, NEW c \in Client, NEW K \in Nat, SetAside(c, K), AtMost(c, K)',
         NEW t \in Turn, t \notin UnderWay(c), UnderWay(c)' = UnderWay(c) \cup {t},
         WithinBudget(c), UNCHANGED <<now, usage_events, sessions_5h>>
  PROVE  SetAside(c, K)'
<1>0. /\ now \in Nat /\ sessions_5h[c].started_at \in Nat /\ sessions_5h[c].cost \in Nat /\ SpentWeek(c) \in Nat
      /\ FIVE_HOURS \in Nat /\ LIMIT_5H \in Nat /\ LIMIT_WEEK \in Nat /\ MAX_TOOL_ROUNDS \in Nat
  BY SpendTypes
<1>1. PICK m : m = Cardinality(UnderWay(c))'
  OBVIOUS
<1>2. IsFiniteSet(UnderWay(c))' /\ m \in Nat /\ m <= K
  BY <1>1, FS_AddElement, FS_CardinalityType DEF SetAside, AtMost
<1>3. PICK y : y = MAX_TOOL_ROUNDS * m
  OBVIOUS
<1>4. PICK z : z = MAX_TOOL_ROUNDS * K
  OBVIOUS
<1>5. y \in Nat /\ z \in Nat /\ y <= z
  BY <1>0, <1>2, <1>3, <1>4, MoreTurnsCostMore
<1>6. SpentWeek(c)' = SpentWeek(c)
  BY DEF SpentWeek, SpentSince
<1>7. /\ LIMIT_5H # 0 /\ now - sessions_5h[c].started_at < FIVE_HOURS => sessions_5h[c].cost < LIMIT_5H
      /\ LIMIT_WEEK # 0 => SpentWeek(c) < LIMIT_WEEK
  BY <1>0 DEF WithinBudget, Spent5h
<1>8. /\ LIMIT_5H # 0 /\ now - sessions_5h[c].started_at < FIVE_HOURS => sessions_5h[c].cost + y <= LIMIT_5H - 1 + z
      /\ LIMIT_WEEK # 0 => SpentWeek(c) + y <= LIMIT_WEEK - 1 + z
  BY <1>0, <1>5, <1>7
<1> QED BY <1>1, <1>2, <1>3, <1>4, <1>6, <1>8 DEF SetAside

\* A turn is billed, for no more than was set aside.
LEMMA SpendBill ==
  ASSUME MeterGood, NEW c \in Client, NEW K \in Nat, SetAside(c, K), AtMost(c, K),
         NEW t \in UnderWay(c), UnderWay(c)' = UnderWay(c) \ {t}, now' = now,
         NEW u \in 0..MAX_TOOL_ROUNDS, record_turn(c, u)
  PROVE  SetAside(c, K)'
<1>0. /\ now \in Nat /\ sessions_5h[c].started_at \in Nat /\ sessions_5h[c].cost \in Nat /\ SpentWeek(c) \in Nat
      /\ FIVE_HOURS \in Nat /\ LIMIT_5H \in Nat /\ LIMIT_WEEK \in Nat /\ MAX_TOOL_ROUNDS \in Nat
  BY SpendTypes
<1>1. PICK n : n = Cardinality(UnderWay(c))
  OBVIOUS
<1>2. PICK m : m = Cardinality(UnderWay(c))'
  OBVIOUS
<1>3. IsFiniteSet(UnderWay(c))' /\ n \in Nat /\ m \in Nat /\ n = m + 1 /\ n <= K
  <2>1. IsFiniteSet(UnderWay(c)) /\ n \in Nat /\ n <= K
    BY <1>1, FS_CardinalityType DEF SetAside, AtMost
  <2>2. IsFiniteSet(UnderWay(c) \ {t}) /\ Cardinality(UnderWay(c) \ {t}) = n - 1
    BY <1>1, <2>1, FS_RemoveElement
  <2>3. IsFiniteSet(UnderWay(c))' /\ m = n - 1
    BY <1>2, <2>2
  <2>4. m \in Nat
    BY <1>2, <2>3, FS_CardinalityType
  <2> QED BY <2>1, <2>3, <2>4
<1>4. PICK x : x = MAX_TOOL_ROUNDS * n
  OBVIOUS
<1>5. PICK y : y = MAX_TOOL_ROUNDS * m
  OBVIOUS
<1>6. PICK z : z = MAX_TOOL_ROUNDS * K
  OBVIOUS
<1>7. MAX_TOOL_ROUNDS \in Nat /\ u \in Nat /\ u <= MAX_TOOL_ROUNDS
  BY ChatAssumption
<1>8. x = y + MAX_TOOL_ROUNDS /\ x \in Nat /\ y \in Nat /\ z \in Nat /\ x <= z
  BY <1>3, <1>4, <1>5, <1>6, <1>7, MoreTurnsCostMore, OneTurnMore
<1>9. /\ LIMIT_5H # 0 /\ now - sessions_5h[c].started_at < FIVE_HOURS => sessions_5h[c].cost + x <= LIMIT_5H - 1 + z
      /\ LIMIT_WEEK # 0 => SpentWeek(c) + x <= LIMIT_WEEK - 1 + z
  BY <1>1, <1>4, <1>6 DEF SetAside
<1>10. SpentWeek(c)' = SpentWeek(c) + u
  <2>1. PICK s \in Int : s = now - SEVEN_DAYS /\ now >= s
    BY SpendTypes
  <2>2. SpentSince(c, s)' = SpentSince(c, s) + u
    BY <1>7, <2>1, SpendTypes, SpentAfterTurn
  <2>3. SpentWeek(c)' = SpentSince(c, s)' /\ SpentWeek(c) = SpentSince(c, s)
    BY <2>1 DEF SpentWeek, SpentSince
  <2> QED BY <2>2, <2>3
<1>11. LIMIT_WEEK # 0 => SpentWeek(c)' + y <= LIMIT_WEEK - 1 + z
  BY <1>0, <1>7, <1>8, <1>9, <1>10
<1>12. LIMIT_5H # 0 /\ now - sessions_5h'[c].started_at < FIVE_HOURS => sessions_5h'[c].cost + y <= LIMIT_5H - 1 + z
  <2>1. PICK row \in Window : row = sessions_5h[c]
    BY SpendTypes
  <2>2. row.started_at \in Nat /\ row.cost \in Nat
    BY <2>1, SpendTypes
  <2>3. PICK w : w = Applied(row, u)
    OBVIOUS
  <2>4. sessions_5h'[c] = w
    BY <2>1, <2>3 DEF record_turn, MeterGood, ChatTypeOK, UsageTypeOK
  <2>5. \/ w.cost = u
        \/ now - row.started_at < FIVE_HOURS /\ w.cost = row.cost + u
    BY <1>7, <2>3, SpendTypes, AppliedIs
  <2>6. u + y <= z /\ u + y \in Nat
    BY <1>7, <1>8
  <2>7. CASE w.cost = u
    BY <1>0, <1>8, <2>4, <2>6, <2>7
  <2>8. CASE now - row.started_at < FIVE_HOURS /\ w.cost = row.cost + u
    BY <1>0, <1>7, <1>8, <1>9, <2>1, <2>2, <2>4, <2>8
  <2> QED BY <2>5, <2>7, <2>8
<1> QED BY <1>2, <1>3, <1>5, <1>6, <1>11, <1>12 DEF SetAside

\* A turn of another client is billed.
LEMMA SpendOther ==
  ASSUME MeterGood, NEW c \in Client, NEW K \in Nat, SetAside(c, K),
         UnderWay(c)' = UnderWay(c), now' = now,
         NEW d \in Client, NEW u \in Nat, d # c, record_turn(d, u)
  PROVE  SetAside(c, K)'
<1>1. sessions_5h'[c] = sessions_5h[c]
  BY DEF record_turn, MeterGood, ChatTypeOK, UsageTypeOK
<1>2. SpentWeek(c)' = SpentWeek(c)
  <2>1. PICK s \in Int : s = now - SEVEN_DAYS
    BY SpendTypes
  <2>2. SpentSince(c, s)' = SpentSince(c, s) + 0
    BY <2>1, SpendTypes, SpentAfterTurn
  <2>3. SpentWeek(c)' = SpentSince(c, s)' /\ SpentWeek(c) = SpentSince(c, s)
    BY <2>1 DEF SpentWeek, SpentSince
  <2>4. SpentSince(c, s) \in Nat
    BY <2>3, SpendTypes
  <2> QED BY <2>2, <2>3, <2>4
<1> QED BY <1>1, <1>2 DEF SetAside

\* Time passes: a window ends, or the week forgets.
LEMMA SpendTick ==
  ASSUME MeterGood, NEW c \in Client, NEW K \in Nat, SetAside(c, K),
         UnderWay(c)' = UnderWay(c), UNCHANGED <<usage_events, sessions_5h>>, now' = now + 1
  PROVE  SetAside(c, K)'
<1>0. /\ now \in Nat /\ sessions_5h[c].started_at \in Nat /\ sessions_5h[c].cost \in Nat /\ SpentWeek(c) \in Nat
      /\ FIVE_HOURS \in Nat /\ LIMIT_5H \in Nat /\ LIMIT_WEEK \in Nat /\ MAX_TOOL_ROUNDS \in Nat
  BY SpendTypes
<1>1. PICK x : x = MAX_TOOL_ROUNDS * Cardinality(UnderWay(c))
  OBVIOUS
<1>2. PICK z : z = MAX_TOOL_ROUNDS * K
  OBVIOUS
<1>3. Cardinality(UnderWay(c)) \in Nat
  BY FS_CardinalityType DEF SetAside
<1>4. x \in Nat /\ z \in Nat
  BY <1>0, <1>1, <1>2, <1>3
<1>5. SpentWeek(c)' <= SpentWeek(c) /\ SpentWeek(c)' \in Nat
  <2>1. PICK s \in Int : s = now - SEVEN_DAYS
    BY SpendTypes
  <2>2. PICK q \in Int : q = now' - SEVEN_DAYS /\ s <= q
    BY <2>1, SpendTypes
  <2>3. SpentSince(c, q) <= SpentSince(c, s) /\ SpentSince(c, q) \in Nat
    BY <2>1, <2>2, SpendTypes, SpentLater
  <2>4. SpentWeek(c)' = SpentSince(c, q) /\ SpentWeek(c) = SpentSince(c, s)
    BY <2>1, <2>2 DEF SpentWeek, SpentSince
  <2> QED BY <2>3, <2>4
<1>6. /\ LIMIT_5H # 0 /\ now - sessions_5h[c].started_at < FIVE_HOURS => sessions_5h[c].cost + x <= LIMIT_5H - 1 + z
      /\ LIMIT_WEEK # 0 => SpentWeek(c) + x <= LIMIT_WEEK - 1 + z
  BY <1>1, <1>2 DEF SetAside
<1>7. now' - sessions_5h[c].started_at < FIVE_HOURS => now - sessions_5h[c].started_at < FIVE_HOURS
  BY <1>0
<1>8. LIMIT_WEEK # 0 => SpentWeek(c)' + x <= LIMIT_WEEK - 1 + z
  BY <1>0, <1>4, <1>5, <1>6
<1> QED BY <1>1, <1>2, <1>6, <1>7, <1>8 DEF SetAside

\* If client c never has more than K turns under way, its spending exceeds
\* neither cap by more than K turns: check_budget before a turn and record_turn
\* after it bound what a client spends, although they are not one step.
THEOREM OverdraftIsBounded ==
  ASSUME NEW c \in Client, NEW K \in Nat
  PROVE  Spec /\ []AtMost(c, K) => []Overdraft(c, K)
<1>1. Init => SetAside(c, K)
  <2> SUFFICES ASSUME Init PROVE SetAside(c, K)
    OBVIOUS
  <2>1. MeterGood /\ UnderWay(c) = {} /\ usage_events = <<>> /\ sessions_5h[c].cost = 0
    BY MeterInit DEF Init, UsageInit, UnderWay, NoRow
  <2>2. IsFiniteSet(UnderWay(c)) /\ Cardinality(UnderWay(c)) = 0
    BY <2>1, FS_EmptySet
  <2>3. SpentWeek(c) = 0
    <3>1. PICK s \in Int : s = now - SEVEN_DAYS
      BY <2>1, SpendTypes
    <3>2. usage_events \in Seq(Event) /\ DOMAIN usage_events = {}
      BY <2>1
    <3>3. SpentSince(c, s) = 0
      BY <3>2, SpentNothing
    <3> QED BY <3>1, <3>3 DEF SpentWeek
  <2>4. MAX_TOOL_ROUNDS * 0 = 0 /\ MAX_TOOL_ROUNDS * K \in Nat
    BY ChatAssumption
  <2>5. LIMIT_5H \in Nat /\ LIMIT_WEEK \in Nat
    BY UsageAssumption
  <2>6. PICK z \in Nat : z = MAX_TOOL_ROUNDS * K
    BY <2>4
  <2>7. (LIMIT_5H # 0 => 0 + 0 <= LIMIT_5H - 1 + z) /\ (LIMIT_WEEK # 0 => 0 + 0 <= LIMIT_WEEK - 1 + z)
    BY <2>5, <2>6
  <2> QED BY <2>1, <2>2, <2>3, <2>4, <2>6, <2>7 DEF SetAside
<1>2. MeterGood /\ SetAside(c, K) /\ AtMost(c, K) /\ AtMost(c, K)' /\ [Next]_vars => SetAside(c, K)'
  <2> SUFFICES ASSUME MeterGood, SetAside(c, K), AtMost(c, K), AtMost(c, K)', [Next]_vars
               PROVE  SetAside(c, K)'
    OBVIOUS
  <2> QED BY SpendCases, SpendFewer, SpendBegin, SpendBill, SpendOther, SpendTick
<1>3. MeterGood /\ SetAside(c, K) => Overdraft(c, K)
  <2> SUFFICES ASSUME MeterGood, SetAside(c, K) PROVE Overdraft(c, K)
    OBVIOUS
  <2>0. /\ now \in Nat /\ sessions_5h[c].started_at \in Nat /\ sessions_5h[c].cost \in Nat /\ SpentWeek(c) \in Nat
        /\ FIVE_HOURS \in Nat /\ LIMIT_5H \in Nat /\ LIMIT_WEEK \in Nat /\ MAX_TOOL_ROUNDS \in Nat
    BY SpendTypes
  <2>1. PICK x : x = MAX_TOOL_ROUNDS * Cardinality(UnderWay(c))
    OBVIOUS
  <2>2. PICK z : z = MAX_TOOL_ROUNDS * K
    OBVIOUS
  <2>3. Cardinality(UnderWay(c)) \in Nat
    BY FS_CardinalityType DEF SetAside
  <2>4. x \in Nat /\ z \in Nat
    BY <2>0, <2>1, <2>2, <2>3
  <2>5. /\ LIMIT_5H # 0 /\ now - sessions_5h[c].started_at < FIVE_HOURS => sessions_5h[c].cost + x <= LIMIT_5H - 1 + z
        /\ LIMIT_WEEK # 0 => SpentWeek(c) + x <= LIMIT_WEEK - 1 + z
    BY <2>1, <2>2 DEF SetAside
  <2>6. LIMIT_5H # 0 => Spent5h(c) <= LIMIT_5H - 1 + z
    BY <2>0, <2>4, <2>5 DEF Spent5h
  <2>7. LIMIT_WEEK # 0 => SpentWeek(c) <= LIMIT_WEEK - 1 + z
    BY <2>0, <2>4, <2>5
  <2> QED BY <2>2, <2>6, <2>7 DEF Overdraft
<1> QED BY <1>1, <1>2, <1>3, MeterInductive, PTL DEF Spec

-----------------------------------------------------------------------------
(* The end of a turn.  That a turn ends needs fairness and is left to TLC; *)
(* what makes it end is proved: every step of a turn uses up some of the   *)
(* work it may still do, and nobody else's step gives it more.             *)

\* How many steps a turn at place p, with n calls made and a retries used, may
\* still take, at most: each tool call takes four and each retry one.
WorkAt(p, n, a) ==
  LET left == 4 * (MAX_TOOL_ROUNDS - n) + (MAX_RETRIES - a)
  IN  CASE p = "idle"    -> left + 4
        [] p = "model"   -> left + 3
        [] p = "asked"   -> left + 6
        [] p = "confirm" -> left + 5
        [] p = "tool"    -> left + 4
        [] p = "finish"  -> 2
        [] p = "bill"    -> 1
        [] p = "done"    -> 0

Work(t) == WorkAt(pc[t], calls[t], attempt[t])

\* A step of a turn uses up work, and no step gives any turn more.
WindsDown ==
  \A t \in Turn :
    /\ Work(t)' <= Work(t)
    /\ begin(t) \/ TurnStep(t) \/ abort(t) => Work(t)' < Work(t)


\* The work, place by place.
LEMMA WorkIs ==
  ASSUME NEW p, NEW n, NEW a,
         NEW left, left = 4 * (MAX_TOOL_ROUNDS - n) + (MAX_RETRIES - a)
  PROVE  /\ p = "idle" => WorkAt(p, n, a) = left + 4
         /\ p = "model" => WorkAt(p, n, a) = left + 3
         /\ p = "asked" => WorkAt(p, n, a) = left + 6
         /\ p = "confirm" => WorkAt(p, n, a) = left + 5
         /\ p = "tool" => WorkAt(p, n, a) = left + 4
         /\ p = "finish" => WorkAt(p, n, a) = 2
         /\ p = "bill" => WorkAt(p, n, a) = 1
         /\ p = "done" => WorkAt(p, n, a) = 0
BY DEF WorkAt

\* The work is a number, and never more than that of a turn that has not begun.
LEMMA WorkIsNat ==
  ASSUME ChatTypeOK, RoundsGood, NEW t \in Turn
  PROVE  Work(t) \in 0..(4 * MAX_TOOL_ROUNDS + MAX_RETRIES + 4)
<1>1. /\ calls[t] \in 0..MAX_TOOL_ROUNDS /\ attempt[t] \in 0..MAX_RETRIES
      /\ pc[t] \in {"idle", "model", "asked", "confirm", "tool", "finish", "bill", "done"}
  BY DEF ChatTypeOK
<1>2. pc[t] \in {"asked", "confirm", "tool"} => calls[t] > 0
  BY DEF RoundsGood
<1>3. PICK left : left = 4 * (MAX_TOOL_ROUNDS - calls[t]) + (MAX_RETRIES - attempt[t])
  OBVIOUS
<1>4. /\ left \in 0..(4 * MAX_TOOL_ROUNDS + MAX_RETRIES)
      /\ calls[t] > 0 => left <= 4 * MAX_TOOL_ROUNDS + MAX_RETRIES - 4
  BY <1>1, <1>3, ChatAssumption
<1>5. /\ pc[t] = "idle" => Work(t) = left + 4
      /\ pc[t] = "model" => Work(t) = left + 3
      /\ pc[t] = "asked" => Work(t) = left + 6
      /\ pc[t] = "confirm" => Work(t) = left + 5
      /\ pc[t] = "tool" => Work(t) = left + 4
      /\ pc[t] = "finish" => Work(t) = 2
      /\ pc[t] = "bill" => Work(t) = 1
      /\ pc[t] = "done" => Work(t) = 0
  BY <1>3, WorkIs DEF Work
<1> QED BY <1>1, <1>2, <1>4, <1>5, ChatAssumption

\* A turn's own step: where it goes and what it counts.
LEMMA StepMoves ==
  ASSUME ChatTypeOK, NEW t \in Turn, begin(t) \/ TurnStep(t) \/ abort(t)
  PROVE  /\ \A u \in Turn \ {t} : pc[u]' = pc[u] /\ calls[u]' = calls[u] /\ attempt[u]' = attempt[u]
         /\ \/ /\ calls[t]' = calls[t] /\ attempt[t]' = attempt[t]
               /\ \/ pc[t] = "idle" /\ pc[t]' = "model"
                  \/ pc[t] = "model" /\ pc[t]' = "finish"
                  \/ pc[t] = "asked" /\ pc[t]' = "confirm"
                  \/ pc[t] = "confirm" /\ pc[t]' \in {"tool", "model", "finish"}
                  \/ pc[t] = "tool" /\ pc[t]' \in {"model", "finish"}
                  \/ pc[t] = "finish" /\ pc[t]' = "bill"
            \/ pc[t] = "model" /\ pc[t]' \in {"asked", "tool"} /\ calls[t]' = calls[t] + 1 /\ attempt[t]' = attempt[t]
            \/ pc[t] = "model" /\ pc[t]' = "model" /\ calls[t]' = calls[t] /\ attempt[t]' = attempt[t] + 1
            \/ pc[t] # "done" /\ pc[t]' = "done"
<1> USE DEF ChatTypeOK, Goto, Resume, Ended
<1>1. CASE begin(t)
  BY <1>1 DEF begin
<1>2. CASE model_calls(t)
  BY <1>2 DEF model_calls
<1>3. CASE model_answers(t) \/ model_fails(t)
  BY <1>3 DEF model_answers, model_fails
<1>4. CASE model_retry(t)
  BY <1>4 DEF model_retry
<1>5. CASE confirm(t)
  BY <1>5 DEF confirm
<1>6. CASE confirm_approved(t)
  BY <1>6 DEF confirm_approved
<1>7. CASE confirm_rejected(t)
  BY <1>7 DEF confirm_rejected
<1>8. CASE confirm_given_up(t)
  BY <1>8 DEF confirm_given_up
<1>9. CASE tool_returns(t)
  BY <1>9 DEF tool_returns
<1>10. CASE finish(t)
  BY <1>10 DEF finish
<1>11. CASE bill(t)
  BY <1>11 DEF bill
<1>12. CASE abort(t)
  BY <1>12 DEF abort
<1> QED BY <1>1, <1>2, <1>3, <1>4, <1>5, <1>6, <1>7, <1>8, <1>9, <1>10, <1>11, <1>12 DEF TurnStep

\* Its own step uses up some of a turn's work,
LEMMA WorkShrinks ==
  ASSUME ChatTypeOK, ChatTypeOK', NEW t \in Turn, begin(t) \/ TurnStep(t) \/ abort(t)
  PROVE  Work(t)' < Work(t) /\ Work(t)' <= Work(t)
<1>0. /\ MAX_TOOL_ROUNDS \in Nat /\ MAX_RETRIES \in Nat
      /\ calls[t] \in 0..MAX_TOOL_ROUNDS /\ attempt[t] \in 0..MAX_RETRIES
      /\ calls[t]' \in 0..MAX_TOOL_ROUNDS /\ attempt[t]' \in 0..MAX_RETRIES
      /\ pc[t] \in {"idle", "model", "asked", "confirm", "tool", "finish", "bill", "done"}
  BY ChatAssumption DEF ChatTypeOK
<1>1. PICK left : left = 4 * (MAX_TOOL_ROUNDS - calls[t]) + (MAX_RETRIES - attempt[t])
  OBVIOUS
<1>2. PICK leftNext : leftNext = 4 * (MAX_TOOL_ROUNDS - calls[t]') + (MAX_RETRIES - attempt[t]')
  OBVIOUS
<1>3. /\ pc[t] = "idle" => Work(t) = left + 4
      /\ pc[t] = "model" => Work(t) = left + 3
      /\ pc[t] = "asked" => Work(t) = left + 6
      /\ pc[t] = "confirm" => Work(t) = left + 5
      /\ pc[t] = "tool" => Work(t) = left + 4
      /\ pc[t] = "finish" => Work(t) = 2
      /\ pc[t] = "bill" => Work(t) = 1
  BY <1>1, WorkIs DEF Work
<1>4. /\ pc[t]' = "model" => Work(t)' = leftNext + 3
      /\ pc[t]' = "asked" => Work(t)' = leftNext + 6
      /\ pc[t]' = "confirm" => Work(t)' = leftNext + 5
      /\ pc[t]' = "tool" => Work(t)' = leftNext + 4
      /\ pc[t]' = "finish" => Work(t)' = 2
      /\ pc[t]' = "bill" => Work(t)' = 1
      /\ pc[t]' = "done" => Work(t)' = 0
  BY <1>2, WorkIs DEF Work
<1>5. calls[t]' = calls[t] /\ attempt[t]' = attempt[t] => leftNext = left
  BY <1>1, <1>2
<1>6. calls[t]' = calls[t] + 1 /\ attempt[t]' = attempt[t] => leftNext = left - 4
  BY <1>0, <1>1, <1>2
<1>7. calls[t]' = calls[t] /\ attempt[t]' = attempt[t] + 1 => leftNext = left - 1
  BY <1>0, <1>1, <1>2
<1>8. left \in Nat /\ leftNext \in Nat
  BY <1>0, <1>1, <1>2
<1> QED BY <1>0, <1>3, <1>4, <1>5, <1>6, <1>7, <1>8, StepMoves

\* and no step gives any turn more.
LEMMA WorkStep ==
  ASSUME ChatTypeOK, RoundsGood, ChatTypeOK', [Next]_vars
  PROVE  WindsDown
<1>1. \A t \in Turn : Work(t) \in Nat
  BY WorkIsNat, ChatAssumption
<1>2. ASSUME NEW t \in Turn, begin(t) \/ TurnStep(t) \/ abort(t) PROVE Work(t)' < Work(t)
  BY <1>2, WorkShrinks
<1>3. ASSUME NEW t \in Turn PROVE Work(t)' <= Work(t)
  <2>1. CASE begin(t) \/ TurnStep(t) \/ abort(t)
    BY <2>1, WorkShrinks
  <2>2. CASE \E u \in Turn \ {t} : begin(u) \/ TurnStep(u) \/ abort(u)
    <3>1. pc[t]' = pc[t] /\ calls[t]' = calls[t] /\ attempt[t]' = attempt[t]
      BY <2>2, StepMoves
    <3> QED BY <1>1, <3>1 DEF Work
  <2>3. CASE UNCHANGED <<pc, calls, attempt>>
    BY <1>1, <2>3 DEF Work
  <2>4. \/ \E u \in Turn : begin(u) \/ TurnStep(u) \/ abort(u)
        \/ UNCHANGED <<pc, calls, attempt>>
    BY DEF Next, vars, turnVars, api_chat_confirm, tick
  <2> QED BY <2>1, <2>2, <2>3, <2>4
<1> QED BY <1>2, <1>3 DEF WindsDown

\* A turn of the chat does a bounded amount: Work(t) starts at four steps for
\* each of the MAX_TOOL_ROUNDS calls, one for each retry and four more; every
\* step of the turn (retry, rejected and expired confirmations included) lowers
\* it, and nothing raises it.  This is why TurnEnds, which TLC checks, holds.
THEOREM TurnsWindDown == Spec => [][WindsDown]_vars
<1>1. MeterGood /\ MeterGood' /\ [Next]_vars => [WindsDown]_vars
  BY WorkStep DEF MeterGood
<1> QED BY <1>1, MeterInductive, PTL DEF Spec
=============================================================================
