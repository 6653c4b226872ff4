-------------------------- MODULE TotpGuardProofs --------------------------
(***************************************************************************)
(* The second factor, for every number of clients, addresses, attempts and *)
(* every setting of the limits: a code is accepted once, guessing stays    *)
(* within its budget, and nobody locks out a source that passed lately.    *)
(*                                                                         *)
(* The budget is not inductive: it says what was guessed, and the code     *)
(* counts strikes.  GuessesGood ties the two together (as many strikes as  *)
(* guesses, a cooldown that ends LOCKOUT after the last of them).  Neither *)
(* is the last property: the code forgets trusted sources above a cap, and *)
(* TrustGood says which, a source is forgotten only when KNOWN_GOOD_CAP    *)
(* others passed no earlier.                                               *)
(***************************************************************************)
EXTENDS TotpGuard, TLAPS, FiniteSetTheorems

\* Codes are accepted in the order of their steps, and the last one is known.
CodesGood ==
  /\ lastStep \in [Client -> Step \cup {NoStep}]
  /\ accepted \in Seq(Owner \X Step)
  /\ \A i \in DOMAIN accepted : accepted[i][2] <= lastStep[accepted[i][1]]
  /\ CodeSpentOnce

\* Strike e counts n guesses, the last of them made at time t.
Counts(e, n, t) ==
  /\ e.count = n
  /\ n > 0 => e.until = t + LOCKOUT /\ now < e.until

GuessesGood ==
  /\ sourceStrikes \in [Source -> Strikes]
  /\ clientStrikes \in [Owner -> Strikes]
  /\ sourceGuesses \in [Source -> Seq(Nat)]
  /\ clientGuesses \in [Owner -> Seq(Guess)]
  /\ \A s \in Source :
       /\ Counts(sourceStrikes[s], Len(sourceGuesses[s]), sourceGuesses[s][Len(sourceGuesses[s])])
       /\ Len(sourceGuesses[s]) <= PER_SOURCE
  /\ \A o \in Owner :
       /\ Counts(clientStrikes[o], Len(clientGuesses[o]), clientGuesses[o][Len(clientGuesses[o])].at)
       /\ \A i \in DOMAIN clientGuesses[o] : ~clientGuesses[o][i].trusted => i <= PER_CLIENT

\* The other sources that passed no earlier than s did.
NoEarlier(s) == {t \in Source \ {s} : passed[t] >= passed[s]}

Trusted(s) ==
  IF passed[s] = NoStep THEN knownGood[s] = 0
  ELSE /\ passed[s] <= now /\ now < passed[s] + KNOWN_GOOD
       /\ \/ knownGood[s] = passed[s] + KNOWN_GOOD
          \/ knownGood[s] = 0 /\ Cardinality(NoEarlier(s)) >= KNOWN_GOOD_CAP

TrustGood ==
  /\ now \in 0..MaxTime
  /\ knownGood \in [Source -> Nat]
  /\ passed \in [Source -> Nat \cup {NoStep}]
  /\ \A s \in Source : Trusted(s)

GuardInv == CodesGood /\ GuessesGood /\ TrustGood

-----------------------------------------------------------------------------
\* What the three properties need of the invariant.

LEMMA SourceFinite == IsFiniteSet(Source)
BY OwnerAssumption, FS_Product DEF Source

\* A part of the first n numbers has at most n members.
LEMMA PartOfPrefix ==
  ASSUME NEW n \in Nat, NEW S \in SUBSET (1..n)
  PROVE  Cardinality(S) \in Nat /\ Cardinality(S) <= n
<1>1. IsFiniteSet(1..n) /\ Cardinality(1..n) = n
  BY FS_Interval
<1>2. IsFiniteSet(S) /\ Cardinality(S) <= Cardinality(1..n)
  BY <1>1, FS_Subset
<1> QED BY <1>1, <1>2, FS_CardinalityType

LEMMA BudgetFollows == GuessesGood => GuessBudget
<1> SUFFICES ASSUME GuessesGood PROVE GuessBudget
  OBVIOUS
<1> USE NumberAssumption
<1>1. ASSUME NEW s \in Source, NEW i \in DOMAIN sourceGuesses[s]
      PROVE  Cardinality({j \in 1..i : InWindow(sourceGuesses[s][j], sourceGuesses[s][i])})
               <= PER_SOURCE
  <2>1. i \in Nat /\ i <= PER_SOURCE
    BY <1>1 DEF GuessesGood
  <2> QED BY <2>1, PartOfPrefix
<1>2. ASSUME NEW o \in Owner, NEW i \in DOMAIN clientGuesses[o], ~clientGuesses[o][i].trusted
      PROVE  Cardinality({j \in 1..i : InWindow(clientGuesses[o][j].at, clientGuesses[o][i].at)})
               <= PER_CLIENT
  <2>1. i \in Nat /\ i <= PER_CLIENT
    BY <1>2 DEF GuessesGood
  <2> QED BY <2>1, PartOfPrefix
<1> QED BY <1>1, <1>2 DEF GuessBudget

LEMMA NotLockedFollows == GuessesGood /\ TrustGood => NotLockedByOthers
<1> SUFFICES ASSUME GuessesGood, TrustGood, NEW s \in Source,
                    passed[s] # NoStep,
                    Len(sourceGuesses[s]) < PER_SOURCE,
                    Cardinality({t \in Source \ {s} : passed[t] >= passed[s]}) < KNOWN_GOOD_CAP
             PROVE  ~locked(s)
  BY DEF NotLockedByOthers
<1> USE NumberAssumption
<1>1. Cardinality(NoEarlier(s)) \in Nat
  BY SourceFinite, FS_Subset, FS_CardinalityType DEF NoEarlier
<1>2. IsKnownGood(s)
  BY <1>1 DEF TrustGood, Trusted, NoEarlier, IsKnownGood
<1>3. sourceStrikes[s].count < PER_SOURCE
  BY DEF GuessesGood, Counts
<1>4. Count(sourceStrikes[s]) < PER_SOURCE
  BY <1>3 DEF Count
<1>5. Count(sourceStrikes[s]) \in Nat
  BY DEF Count, GuessesGood, Strikes
<1> QED BY <1>2, <1>4, <1>5 DEF locked

-----------------------------------------------------------------------------
\* Codes: the guard of check_totp against the last accepted step.

LEMMA CodesAccept ==
  ASSUME CodesGood, NEW c \in Client, NEW ip \in Ip, NEW code \in Step, totp_ok(c, ip, code)
  PROVE  CodesGood'
<1> DEFINE o == seed_owner[c]
<1>1. o \in Owner /\ o \in Client
  BY OwnerAssumption
<1>2. /\ code > lastStep[o]
      /\ lastStep' = [lastStep EXCEPT ![o] = code]
      /\ accepted' = Append(accepted, <<o, code>>)
  BY DEF totp_ok, ReplayKey
<1>3. lastStep' \in [Client -> Step \cup {NoStep}] /\ accepted' \in Seq(Owner \X Step)
  BY <1>1, <1>2 DEF CodesGood
<1> DEFINE n == Len(accepted)
<1>4. /\ n \in Nat /\ Len(accepted') = n + 1 /\ DOMAIN accepted' = 1..(n + 1)
      /\ DOMAIN accepted = 1..n
      /\ accepted'[n + 1] = <<o, code>>
      /\ \A i \in 1..n : accepted'[i] = accepted[i] /\ accepted[i] \in Owner \X Step
  BY <1>1, <1>2 DEF CodesGood
<1>5. \A i \in 1..n : accepted[i][1] = o => accepted[i][2] < code
  <2> SUFFICES ASSUME NEW i \in 1..n, accepted[i][1] = o
               PROVE  accepted[i][2] < code
    OBVIOUS
  <2>1. accepted[i][2] <= lastStep[o] /\ accepted[i][2] \in Step
    BY <1>4 DEF CodesGood
  <2>2. lastStep[o] \in Int /\ accepted[i][2] \in Int /\ code \in Int
    BY <1>1, <2>1, NumberAssumption DEF CodesGood, Step, NoStep
  <2> QED BY <1>2, <2>1, <2>2
<1>6. \A i \in DOMAIN accepted' : accepted'[i][2] <= lastStep'[accepted'[i][1]]
  <2> SUFFICES ASSUME NEW i \in 1..(n + 1)
               PROVE  accepted'[i][2] <= lastStep'[accepted'[i][1]]
    BY <1>4
  <2>1. CASE i = n + 1
    BY <1>1, <1>2, <1>4, <2>1 DEF CodesGood, Step
  <2>2. CASE i \in 1..n
    <3>1. accepted[i][1] \in Owner /\ accepted[i][1] \in Client /\ accepted[i][2] \in Step
      BY <1>4, <2>2, OwnerAssumption
    <3>2. accepted[i][2] <= lastStep[accepted[i][1]]
      BY <1>4, <2>2 DEF CodesGood
    <3>3. CASE accepted[i][1] = o
      BY <1>1, <1>2, <1>4, <1>5, <2>2, <3>1, <3>3 DEF CodesGood, Step
    <3>4. CASE accepted[i][1] # o
      BY <1>1, <1>2, <1>4, <2>2, <3>1, <3>2, <3>4 DEF CodesGood
    <3> QED BY <3>3, <3>4
  <2> QED BY <1>4, <2>1, <2>2
<1>7. CodeSpentOnce'
  <2> SUFFICES ASSUME NEW i \in 1..(n + 1), NEW j \in 1..(n + 1),
                      i < j, accepted'[i][1] = accepted'[j][1]
               PROVE  accepted'[i][2] < accepted'[j][2]
    BY <1>4 DEF CodeSpentOnce
  <2>1. CASE j = n + 1
    BY <1>4, <1>5, <2>1
  <2>2. CASE j \in 1..n
    <3>1. i \in 1..n /\ accepted[i][1] = accepted[j][1]
      BY <1>4, <2>2
    <3>2. accepted[i][2] < accepted[j][2]
      BY <1>4, <2>2, <3>1 DEF CodesGood, CodeSpentOnce
    <3> QED BY <1>4, <2>2, <3>1, <3>2
  <2> QED BY <1>4, <2>1, <2>2
<1> QED BY <1>3, <1>6, <1>7 DEF CodesGood

-----------------------------------------------------------------------------
\* Guesses: each strike goes with a guess, each reset with a reset.

\* Looking at a strike says what the history says.
LEMMA CountIsLength ==
  ASSUME NEW e \in Strikes, NEW n \in Nat, NEW t, Counts(e, n, t), now \in Nat
  PROVE  Count(e) = n
BY DEF Counts, Count, Strikes

LEMMA GuessesSuccess ==
  ASSUME GuessesGood, NEW s \in Source, record_success(s),
         UNCHANGED <<now, clientStrikes, clientGuesses>>
  PROVE  GuessesGood'
<1> USE NumberAssumption
<1>1. /\ sourceStrikes' = [sourceStrikes EXCEPT ![s] = NoStrike]
      /\ sourceGuesses' = [sourceGuesses EXCEPT ![s] = <<>>]
  BY DEF record_success
<1>2. sourceStrikes' \in [Source -> Strikes] /\ sourceGuesses' \in [Source -> Seq(Nat)]
  BY <1>1 DEF GuessesGood, Strikes, NoStrike
<1>3. ASSUME NEW u \in Source
      PROVE  /\ Counts(sourceStrikes[u], Len(sourceGuesses[u]),
                       sourceGuesses[u][Len(sourceGuesses[u])])'
             /\ Len(sourceGuesses'[u]) <= PER_SOURCE
  <2>1. CASE u = s
    BY <1>1, <2>1 DEF GuessesGood, Counts, NoStrike
  <2>2. CASE u # s
    BY <1>1, <2>2 DEF GuessesGood, Counts
  <2> QED BY <2>1, <2>2
<1>4. ASSUME NEW o \in Owner
      PROVE  /\ Counts(clientStrikes[o], Len(clientGuesses[o]),
                       clientGuesses[o][Len(clientGuesses[o])].at)'
             /\ \A i \in DOMAIN clientGuesses'[o] :
                  ~clientGuesses'[o][i].trusted => i <= PER_CLIENT
  BY DEF GuessesGood, Counts
<1>5. clientStrikes' \in [Owner -> Strikes] /\ clientGuesses' \in [Owner -> Seq(Guess)]
  BY DEF GuessesGood
<1> QED BY <1>2, <1>3, <1>4, <1>5 DEF GuessesGood

LEMMA GuessesFailure ==
  ASSUME GuessesGood, now \in Nat, NEW s \in Source, ~locked(s), record_failure(s),
         UNCHANGED now
  PROVE  GuessesGood'
<1> USE NumberAssumption
<1> DEFINE o == s[1]
           n == Len(sourceGuesses[s])
           m == Len(clientGuesses[o])
           g == [at |-> now, trusted |-> IsKnownGood(s)]
<1>1. o \in Owner
  BY DEF Source
<1>2. /\ sourceStrikes' = [sourceStrikes EXCEPT ![s] = Struck(sourceStrikes[s])]
      /\ clientStrikes' = [clientStrikes EXCEPT ![o] = Struck(clientStrikes[o])]
      /\ sourceGuesses' = [sourceGuesses EXCEPT ![s] = Append(sourceGuesses[s], now)]
      /\ clientGuesses' = [clientGuesses EXCEPT ![o] = Append(clientGuesses[o], g)]
  BY DEF record_failure
<1>3. n \in Nat /\ m \in Nat /\ g \in Guess
  BY <1>1 DEF GuessesGood, Guess, IsKnownGood
<1>4. Count(sourceStrikes[s]) = n /\ Count(clientStrikes[o]) = m
  BY <1>1, <1>3, CountIsLength DEF GuessesGood
<1>5. n < PER_SOURCE /\ (g.trusted \/ m < PER_CLIENT)
  BY <1>3, <1>4 DEF locked
<1>6. /\ Struck(sourceStrikes[s]) = [count |-> n + 1, until |-> now + LOCKOUT]
      /\ Struck(clientStrikes[o]) = [count |-> m + 1, until |-> now + LOCKOUT]
  BY <1>4 DEF Struck
<1>7. /\ sourceStrikes' \in [Source -> Strikes] /\ sourceGuesses' \in [Source -> Seq(Nat)]
      /\ clientStrikes' \in [Owner -> Strikes] /\ clientGuesses' \in [Owner -> Seq(Guess)]
  <2>1. [count |-> n + 1, until |-> now + LOCKOUT] \in Strikes
    BY <1>3 DEF Strikes
  <2>2. [count |-> m + 1, until |-> now + LOCKOUT] \in Strikes
    BY <1>3 DEF Strikes
  <2>3. Append(sourceGuesses[s], now) \in Seq(Nat)
    BY DEF GuessesGood
  <2>4. Append(clientGuesses[o], g) \in Seq(Guess)
    BY <1>1, <1>3 DEF GuessesGood
  <2> HIDE DEF g
  <2> QED BY <1>2, <1>6, <2>1, <2>2, <2>3, <2>4 DEF GuessesGood
<1>8. ASSUME NEW u \in Source
      PROVE  /\ Counts(sourceStrikes[u], Len(sourceGuesses[u]),
                       sourceGuesses[u][Len(sourceGuesses[u])])'
             /\ Len(sourceGuesses'[u]) <= PER_SOURCE
  <2>1. CASE u = s
    <3>1. /\ sourceStrikes'[u] = [count |-> n + 1, until |-> now + LOCKOUT]
          /\ sourceGuesses'[u] = Append(sourceGuesses[s], now)
      BY <1>2, <1>6, <2>1 DEF GuessesGood
    <3>2. Len(sourceGuesses'[u]) = n + 1 /\ sourceGuesses'[u][n + 1] = now
      BY <3>1 DEF GuessesGood
    <3> QED BY <1>3, <1>5, <3>1, <3>2 DEF Counts
  <2>2. CASE u # s
    BY <1>2, <2>2 DEF GuessesGood, Counts
  <2> QED BY <2>1, <2>2
<1>9. ASSUME NEW p \in Owner
      PROVE  /\ Counts(clientStrikes[p], Len(clientGuesses[p]),
                       clientGuesses[p][Len(clientGuesses[p])].at)'
             /\ \A i \in DOMAIN clientGuesses'[p] :
                  ~clientGuesses'[p][i].trusted => i <= PER_CLIENT
  <2>1. CASE p = o
    <3>1. /\ clientStrikes'[p] = [count |-> m + 1, until |-> now + LOCKOUT]
          /\ clientGuesses'[p] = Append(clientGuesses[o], g)
      BY <1>2, <1>6, <2>1 DEF GuessesGood
    <3>2. /\ Len(clientGuesses'[p]) = m + 1 /\ clientGuesses'[p][m + 1] = g
          /\ DOMAIN clientGuesses'[p] = 1..(m + 1)
          /\ \A i \in 1..m : clientGuesses'[p][i] = clientGuesses[o][i]
      BY <1>1, <1>3, <3>1 DEF GuessesGood
    <3>3. \A i \in 1..m : ~clientGuesses[o][i].trusted => i <= PER_CLIENT
      BY <1>1 DEF GuessesGood
    <3> QED BY <1>3, <1>5, <3>1, <3>2, <3>3 DEF Counts
  <2>2. CASE p # o
    BY <1>2, <2>2 DEF GuessesGood, Counts
  <2> QED BY <2>1, <2>2
<1> QED BY <1>7, <1>8, <1>9 DEF GuessesGood

\* The clock drops a strike at the moment it drops the guesses it counts.
LEMMA GuessesTick ==
  ASSUME GuessesGood, now \in Nat, tick
  PROVE  GuessesGood'
<1> USE NumberAssumption
<1>1. /\ now' = now + 1
      /\ sourceStrikes' = [s \in Source |-> Current(sourceStrikes[s], now + 1)]
      /\ clientStrikes' = [o \in Owner |-> Current(clientStrikes[o], now + 1)]
      /\ sourceGuesses' = [s \in Source |->
                             IF Over(sourceGuesses[s], now + 1) THEN <<>> ELSE sourceGuesses[s]]
      /\ clientGuesses' = [o \in Owner |->
                             IF OverAll(clientGuesses[o], now + 1) THEN <<>>
                             ELSE clientGuesses[o]]
  BY DEF tick
<1>2. /\ sourceStrikes' \in [Source -> Strikes] /\ sourceGuesses' \in [Source -> Seq(Nat)]
      /\ clientStrikes' \in [Owner -> Strikes] /\ clientGuesses' \in [Owner -> Seq(Guess)]
  BY <1>1 DEF GuessesGood, Current, NoStrike, Strikes
<1>3. ASSUME NEW s \in Source
      PROVE  /\ Counts(sourceStrikes[s], Len(sourceGuesses[s]),
                       sourceGuesses[s][Len(sourceGuesses[s])])'
             /\ Len(sourceGuesses'[s]) <= PER_SOURCE
  <2> DEFINE q == sourceGuesses[s]
             e == sourceStrikes[s]
  <2>1. /\ sourceStrikes'[s] = Current(e, now + 1)
        /\ sourceGuesses'[s] = IF Over(q, now + 1) THEN <<>> ELSE q
    BY <1>1
  <2>2. q \in Seq(Nat) /\ e \in Strikes /\ Counts(e, Len(q), q[Len(q)]) /\ Len(q) <= PER_SOURCE
    BY DEF GuessesGood
  <2> HIDE DEF q, e
  <2>3. CASE q = <<>>
    BY <1>1, <2>1, <2>2, <2>3 DEF Counts, Current, Over, NoStrike
  <2>4. CASE q # <<>> /\ Over(q, now + 1)
    BY <1>1, <2>1, <2>2, <2>4 DEF Counts, Current, Over, InWindow, NoStrike, Strikes
  <2>5. CASE q # <<>> /\ ~Over(q, now + 1)
    <3>1. Len(q) > 0 /\ e.until = q[Len(q)] + LOCKOUT /\ now + 1 < e.until
      BY <2>2, <2>5 DEF Counts, Over, InWindow
    <3>2. sourceStrikes'[s] = e /\ sourceGuesses'[s] = q
      BY <2>1, <2>2, <2>5, <3>1 DEF Current, Strikes
    <3> QED BY <1>1, <2>2, <3>1, <3>2 DEF Counts
  <2> QED BY <2>3, <2>4, <2>5
<1>4. ASSUME NEW o \in Owner
      PROVE  /\ Counts(clientStrikes[o], Len(clientGuesses[o]),
                       clientGuesses[o][Len(clientGuesses[o])].at)'
             /\ \A i \in DOMAIN clientGuesses'[o] :
                  ~clientGuesses'[o][i].trusted => i <= PER_CLIENT
  <2> DEFINE q == clientGuesses[o]
             e == clientStrikes[o]
  <2>1. /\ clientStrikes'[o] = Current(e, now + 1)
        /\ clientGuesses'[o] = IF OverAll(q, now + 1) THEN <<>> ELSE q
    BY <1>1
  <2>2. /\ q \in Seq(Guess) /\ e \in Strikes /\ Counts(e, Len(q), q[Len(q)].at)
        /\ \A i \in DOMAIN q : ~q[i].trusted => i <= PER_CLIENT
    BY DEF GuessesGood
  <2> HIDE DEF q, e
  <2>3. CASE q = <<>>
    BY <1>1, <2>1, <2>2, <2>3 DEF Counts, Current, OverAll, NoStrike
  <2>4. CASE q # <<>> /\ OverAll(q, now + 1)
    BY <1>1, <2>1, <2>2, <2>4 DEF Counts, Current, OverAll, InWindow, NoStrike, Strikes
  <2>5. CASE q # <<>> /\ ~OverAll(q, now + 1)
    <3>1. Len(q) > 0 /\ e.until = q[Len(q)].at + LOCKOUT /\ now + 1 < e.until
      BY <2>2, <2>5 DEF Counts, OverAll, InWindow
    <3>2. clientStrikes'[o] = e /\ clientGuesses'[o] = q
      BY <2>1, <2>2, <2>5, <3>1 DEF Current, Strikes
    <3> QED BY <1>1, <2>2, <3>1, <3>2 DEF Counts
  <2> QED BY <2>3, <2>4, <2>5
<1> QED BY <1>2, <1>3, <1>4 DEF GuessesGood

-----------------------------------------------------------------------------
\* Trust: which sources record_success forgets.

LEMMA TrustSuccess ==
  ASSUME TrustGood, NEW s \in Source, record_success(s), UNCHANGED now
  PROVE  TrustGood'
<1> USE NumberAssumption
<1> DEFINE K == [knownGood EXCEPT ![s] = now + KNOWN_GOOD]
           live == {t \in Source : now < K[t]}
<1>1. passed' = [passed EXCEPT ![s] = now] /\ knownGood' \in Remembered(K)
  BY DEF record_success
<1>2. K \in [Source -> Nat] /\ now \in Nat
  BY DEF TrustGood
<1>3. passed' \in [Source -> Nat \cup {NoStep}]
  BY <1>1, <1>2 DEF TrustGood
\* Every mark is live: it is what its source's pass gave it.
<1>4. \A t \in Source : K[t] # 0 => K[t] = passed'[t] + KNOWN_GOOD /\ passed'[t] # NoStep /\ now < K[t]
  BY <1>1, <1>2 DEF TrustGood, Trusted, NoStep
<1>5. live = {t \in Source : K[t] # 0}
  BY <1>2, <1>4
<1>6. \A t \in Source : passed'[t] # NoStep => passed'[t] <= now /\ now < passed'[t] + KNOWN_GOOD
  BY <1>1, <1>2 DEF TrustGood, Trusted
<1>7. \A t \in Source : passed'[t] = NoStep => K[t] = 0
  BY <1>1, <1>2 DEF TrustGood, Trusted, NoStep
\* A source that was forgotten before stays behind those it was behind of.
<1>8. ASSUME NEW t \in Source, K[t] = 0, passed'[t] # NoStep
      PROVE  Cardinality(NoEarlier(t)') >= KNOWN_GOOD_CAP
  <2>1. t # s /\ passed'[t] = passed[t] /\ knownGood[t] = 0
    BY <1>1, <1>2, <1>8 DEF TrustGood
  <2>2. Cardinality(NoEarlier(t)) >= KNOWN_GOOD_CAP
    BY <1>8, <2>1 DEF TrustGood, Trusted, NoStep
  <2>3. NoEarlier(t) \subseteq NoEarlier(t)'
    BY <1>1, <1>6, <1>8, <2>1 DEF NoEarlier, TrustGood, Trusted
  <2>4. IsFiniteSet(NoEarlier(t)')
    BY SourceFinite, FS_Subset DEF NoEarlier
  <2>5. Cardinality(NoEarlier(t)) <= Cardinality(NoEarlier(t)')
    BY <2>3, <2>4, FS_Subset
  <2>6. Cardinality(NoEarlier(t)) \in Nat /\ Cardinality(NoEarlier(t)') \in Nat
    BY <2>3, <2>4, FS_Subset, FS_CardinalityType
  <2> QED BY <2>2, <2>5, <2>6
<1> HIDE DEF K
<1>9. CASE Cardinality({t \in Source : K[t] # 0}) <= KNOWN_GOOD_CAP
  <2>1. knownGood' = K
    BY <1>1, <1>9 DEF Remembered
  <2>2. ASSUME NEW t \in Source PROVE Trusted(t)'
    BY <1>4, <1>6, <1>7, <1>8, <2>1 DEF Trusted
  <2> QED BY <1>2, <1>3, <2>1, <2>2 DEF TrustGood
<1>10. CASE ~(Cardinality({t \in Source : K[t] # 0}) <= KNOWN_GOOD_CAP)
  <2>1. PICK S \in SUBSET live :
          /\ Cardinality(S) = IF Cardinality(live) < KNOWN_GOOD_CAP
                                 THEN Cardinality(live) ELSE KNOWN_GOOD_CAP
          /\ \A u \in S, t \in live \ S : K[u] >= K[t]
          /\ knownGood' = [t \in Source |-> IF t \in S THEN K[t] ELSE 0]
    BY <1>1, <1>10 DEF Remembered
  <2>2. IsFiniteSet(live) /\ Cardinality(live) \in Nat
    BY SourceFinite, FS_Subset, FS_CardinalityType
  <2>3. Cardinality(S) = KNOWN_GOOD_CAP
    BY <1>5, <1>10, <2>1, <2>2
  <2>4. knownGood' \in [Source -> Nat]
    BY <1>2, <2>1
  <2>5. ASSUME NEW t \in Source PROVE Trusted(t)'
    <3>1. CASE K[t] = 0
      BY <1>6, <1>7, <1>8, <2>1, <3>1 DEF Trusted
    <3>2. CASE t \in S
      BY <1>4, <1>5, <1>6, <1>7, <2>1, <3>2 DEF Trusted
    <3>3. CASE K[t] # 0 /\ t \notin S
      <4>1. t \in live \ S /\ passed'[t] # NoStep /\ K[t] = passed'[t] + KNOWN_GOOD
        BY <1>4, <1>5, <3>3
      <4>2. \A u \in S : u \in Source \ {t} /\ passed'[u] >= passed'[t]
        <5> SUFFICES ASSUME NEW u \in S PROVE u \in Source \ {t} /\ passed'[u] >= passed'[t]
          OBVIOUS
        <5>1. u \in Source /\ u # t /\ K[u] >= K[t] /\ K[u] = passed'[u] + KNOWN_GOOD
          BY <1>4, <1>5, <2>1, <4>1
        <5>2. passed'[u] \in Int /\ passed'[t] \in Int
          BY <1>3, <5>1 DEF NoStep
        <5> QED BY <4>1, <5>1, <5>2
      <4>3. IsFiniteSet(NoEarlier(t)') /\ S \subseteq NoEarlier(t)'
        BY <4>2, SourceFinite, FS_Subset DEF NoEarlier
      <4>4. Cardinality(S) <= Cardinality(NoEarlier(t)')
        BY <4>3, FS_Subset
      <4>5. Cardinality(NoEarlier(t)') >= KNOWN_GOOD_CAP
        BY <2>3, <4>4
      <4>6. knownGood'[t] = 0
        BY <2>1, <3>3
      <4> QED BY <1>6, <4>1, <4>5, <4>6 DEF Trusted
    <3> QED BY <3>1, <3>2, <3>3
  <2> QED BY <1>2, <1>3, <2>4, <2>5 DEF TrustGood
<1> QED BY <1>9, <1>10

LEMMA TrustTick ==
  ASSUME TrustGood, tick
  PROVE  TrustGood'
<1> USE NumberAssumption
<1>1. /\ now' = now + 1 /\ now < MaxTime
      /\ knownGood' = [s \in Source |-> IF now + 1 >= knownGood[s] THEN 0 ELSE knownGood[s]]
      /\ passed' = [s \in Source |->
                      IF passed[s] + KNOWN_GOOD <= now + 1 THEN NoStep ELSE passed[s]]
  BY DEF tick
<1>2. /\ now' \in 0..MaxTime /\ knownGood' \in [Source -> Nat]
      /\ passed' \in [Source -> Nat \cup {NoStep}]
  BY <1>1 DEF TrustGood
<1>3. ASSUME NEW s \in Source PROVE Trusted(s)'
  <2>1. /\ passed[s] \in Int /\ knownGood[s] \in Nat /\ now \in Nat
        /\ Trusted(s)
        /\ passed'[s] = IF passed[s] + KNOWN_GOOD <= now + 1 THEN NoStep ELSE passed[s]
        /\ knownGood'[s] = IF now + 1 >= knownGood[s] THEN 0 ELSE knownGood[s]
    BY <1>1 DEF TrustGood, NoStep
  <2>2. CASE passed'[s] = NoStep
    BY <2>1, <2>2 DEF Trusted
  <2>3. CASE passed'[s] # NoStep
    <3>1. passed'[s] = passed[s] /\ passed[s] # NoStep /\ now + 1 < passed[s] + KNOWN_GOOD
      BY <2>1, <2>3
    <3>2. CASE knownGood[s] = passed[s] + KNOWN_GOOD
      BY <1>1, <2>1, <3>1, <3>2 DEF Trusted
    <3>3. CASE knownGood[s] = 0 /\ Cardinality(NoEarlier(s)) >= KNOWN_GOOD_CAP
      <4>1. \A t \in Source : passed[t] >= passed[s] => passed'[t] = passed[t]
        BY <1>1, <2>1, <3>1 DEF TrustGood, NoStep
      <4>2. NoEarlier(s) \subseteq NoEarlier(s)'
        BY <3>1, <4>1 DEF NoEarlier
      <4>3. IsFiniteSet(NoEarlier(s)')
        BY SourceFinite, FS_Subset DEF NoEarlier
      <4>4. /\ Cardinality(NoEarlier(s)) <= Cardinality(NoEarlier(s)')
            /\ Cardinality(NoEarlier(s)) \in Nat /\ Cardinality(NoEarlier(s)') \in Nat
        BY <4>2, <4>3, FS_Subset, FS_CardinalityType
      <4>5. Cardinality(NoEarlier(s)') >= KNOWN_GOOD_CAP
        BY <3>3, <4>4
      <4>6. knownGood'[s] = 0
        BY <2>1, <3>3
      <4> QED BY <1>1, <2>1, <3>1, <4>5, <4>6 DEF Trusted
    <3> QED BY <2>1, <3>1, <3>2, <3>3 DEF Trusted
  <2> QED BY <2>2, <2>3
<1> QED BY <1>2, <1>3 DEF TrustGood

-----------------------------------------------------------------------------
\* The invariant holds at the start and after every step.

LEMMA GuardStarts == GuardInit => GuardInv
<1> SUFFICES ASSUME GuardInit PROVE GuardInv
  OBVIOUS
<1> USE NumberAssumption DEF GuardInit
<1>1. CodesGood
  BY DEF CodesGood, CodeSpentOnce
<1>2. GuessesGood
  BY DEF GuessesGood, Counts, NoStrike, Strikes
<1>3. TrustGood
  BY DEF TrustGood, Trusted
<1> QED BY <1>1, <1>2, <1>3 DEF GuardInv

LEMMA GuardRestarts ==
  ASSUME GuardInv, guard_restart
  PROVE  GuardInv'
<1> USE NumberAssumption DEF guard_restart
<1>1. CodesGood'
  BY DEF CodesGood, CodeSpentOnce
<1>2. GuessesGood'
  BY DEF GuessesGood, Counts, NoStrike, Strikes
<1>3. TrustGood'
  BY DEF GuardInv, TrustGood, Trusted
<1> QED BY <1>1, <1>2, <1>3 DEF GuardInv

LEMMA GuardKept == GuardInv /\ [GuardNext]_guardVars => GuardInv'
<1> SUFFICES ASSUME GuardInv, [GuardNext]_guardVars PROVE GuardInv'
  OBVIOUS
<1>1. CodesGood /\ GuessesGood /\ TrustGood /\ now \in Nat
  BY DEF GuardInv, TrustGood
<1>2. \A c \in Client, ip \in Ip : SourceOf(c, ip) \in Source
  BY OwnerAssumption DEF SourceOf, Source
<1>3. ASSUME NEW c \in Client, NEW ip \in Ip, NEW code \in Step, totp_ok(c, ip, code)
      PROVE  GuardInv'
  <2>1. record_success(SourceOf(c, ip)) /\ UNCHANGED <<now, clientStrikes, clientGuesses>>
    BY <1>3 DEF totp_ok
  <2>2. CodesGood'
    BY <1>1, <1>3, CodesAccept
  <2>3. GuessesGood' /\ TrustGood'
    BY <1>1, <1>2, <2>1, GuessesSuccess, TrustSuccess
  <2> QED BY <2>2, <2>3 DEF GuardInv
<1>4. ASSUME NEW c \in Client, NEW ip \in Ip, totp_invalid(c, ip)
      PROVE  GuardInv'
  <2>1. /\ ~locked(SourceOf(c, ip)) /\ record_failure(SourceOf(c, ip))
        /\ UNCHANGED <<now, knownGood, lastStep, accepted, passed>>
    BY <1>4 DEF totp_invalid
  <2>2. GuessesGood'
    BY <1>1, <1>2, <2>1, GuessesFailure
  <2>3. CodesGood' /\ TrustGood'
    BY <1>1, <2>1 DEF CodesGood, CodeSpentOnce, TrustGood, Trusted, NoEarlier
  <2> QED BY <2>2, <2>3 DEF GuardInv
<1>5. ASSUME NEW c \in Client, NEW ip \in Ip, passkey_ok(c, ip)
      PROVE  GuardInv'
  <2>1. /\ record_success(SourceOf(c, ip))
        /\ UNCHANGED <<now, clientStrikes, lastStep, clientGuesses, accepted>>
    BY <1>5 DEF passkey_ok
  <2>2. GuessesGood' /\ TrustGood'
    BY <1>1, <1>2, <2>1, GuessesSuccess, TrustSuccess
  <2>3. CodesGood'
    BY <1>1, <2>1 DEF CodesGood, CodeSpentOnce
  <2> QED BY <2>2, <2>3 DEF GuardInv
<1>6. ASSUME tick PROVE GuardInv'
  <2>1. GuessesGood' /\ TrustGood'
    BY <1>1, <1>6, GuessesTick, TrustTick
  <2>2. CodesGood'
    BY <1>1, <1>6 DEF tick, CodesGood, CodeSpentOnce
  <2> QED BY <2>1, <2>2 DEF GuardInv
<1>7. ASSUME UNCHANGED guardVars PROVE GuardInv'
  BY <1>1, <1>7 DEF guardVars, GuardInv, CodesGood, CodeSpentOnce, GuessesGood, Counts,
                    TrustGood, Trusted, NoEarlier
<1> QED BY <1>3, <1>4, <1>5, <1>6, <1>7, GuardRestarts DEF GuardNext

LEMMA GuardInvImplies ==
  GuardInv => GuardTypeOK /\ CodeSpentOnce /\ GuessBudget /\ NotLockedByOthers
BY BudgetFollows, NotLockedFollows
   DEF GuardInv, GuardTypeOK, CodesGood, GuessesGood, TrustGood

-----------------------------------------------------------------------------
\* The invariant of the second factor: accepted codes rise, strikes count the
\* guesses made (TotpLockout._strikes), and trust is forgotten only above the
\* cap (TotpLockout._known_good).
THEOREM GuardInductive == GuardSpec => []GuardInv
<1>1. GuardInit => GuardInv
  BY GuardStarts
<1>2. GuardInv /\ [GuardNext]_guardVars => GuardInv'
  BY GuardKept
<1> QED BY <1>1, <1>2, PTL DEF GuardSpec

\* The tables of TotpLockout and check_totp keep their types.
THEOREM GuardTypeCorrect == GuardSpec => []GuardTypeOK
BY GuardInductive, GuardInvImplies, PTL

\* check_totp accepts no step of a seed twice, nor one older than the last it
\* accepted, whoever delegates to that seed.
THEOREM CodesAreSpentOnce == GuardSpec => []CodeSpentOnce
BY GuardInductive, GuardInvImplies, PTL

\* TotpLockout bounds guessing: within any cooldown, PER_SOURCE wrong codes from
\* one source and PER_CLIENT from all the sources that are not trusted, for any
\* number of sources and any timing.
THEOREM GuessingIsBounded == GuardSpec => []GuessBudget
BY GuardInductive, GuardInvImplies, PTL

\* Failures elsewhere never lock out a source that passed within KNOWN_GOOD and
\* is among the KNOWN_GOOD_CAP last to pass.
THEOREM OthersCannotLock == GuardSpec => []NotLockedByOthers
BY GuardInductive, GuardInvImplies, PTL
=============================================================================
