----------------------------- MODULE TotpGuard -----------------------------
(***************************************************************************)
(* The second factor: ClientStore.check_totp (src/src/beaconmcp/auth.py),  *)
(* which accepts each six-digit code once, and TotpLockout                 *)
(* (src/src/beaconmcp/ratelimit.py), which stops the guessing of codes.    *)
(* The sign-in page, the token endpoint and the dashboard all make the     *)
(* same three calls (locked, check_totp, record_failure or                 *)
(* record_success) on the event loop with no await between them, so an     *)
(* attempt is one step.                                                    *)
(*                                                                         *)
(* Time counts TOTP steps of 30 s.  A code is the step it was made for; a  *)
(* wrong code matches no step.  Every table here lives in memory only.     *)
(***************************************************************************)
EXTENDS Integers, Sequences, FiniteSets

CONSTANTS
  Client,              \* client ids
  Owner,               \* the clients that have a seed
  seed_owner,          \* whose seed each client's codes are checked against
  Ip,                  \* source addresses
  PER_SOURCE,          \* wrong codes that lock one source out
  PER_CLIENT,          \* wrong codes, from any source, that lock a client out
  LOCKOUT,             \* cooldown after the last failure
  KNOWN_GOOD,          \* how long a source that passed is trusted
  KNOWN_GOOD_CAP,      \* how many such sources are remembered
  MaxTime,             \* bound on the clock
  MaxGuess             \* bound on the wrong codes checked

ASSUME OwnerAssumption ==
  /\ Owner \subseteq Client
  /\ seed_owner \in [Client -> Owner]
  /\ IsFiniteSet(Ip) /\ IsFiniteSet(Owner)

ASSUME NumberAssumption ==
  /\ PER_SOURCE \in Nat \ {0} /\ PER_CLIENT \in Nat \ {0}
  /\ LOCKOUT \in Nat \ {0} /\ KNOWN_GOOD \in Nat \ {0} /\ KNOWN_GOOD_CAP \in Nat \ {0}
  /\ MaxTime \in Nat /\ MaxGuess \in Nat

VARIABLES
  now,
  sourceStrikes,  \* _strikes under ("src", client, ip): failures and cooldown
  clientStrikes,  \* _strikes under ("client", client)
  knownGood,      \* _known_good: until when a source is trusted, 0 if it is not
  lastStep,       \* _last_totp_step of each seed's owner, NoStep at first
  sourceGuesses,  \* history: when each source had wrong codes checked since it last
                  \* passed, or last was quiet for a whole cooldown
  clientGuesses,  \* history: the wrong codes checked against each seed since it last
                  \* was quiet for a whole cooldown
  accepted,       \* history: the codes accepted since the server started
  passed          \* history: when each source last passed, NoStep for never

guardVars == <<now, sourceStrikes, clientStrikes, knownGood, lastStep, sourceGuesses,
               clientGuesses, accepted, passed>>

NoStep   == -2
Step     == -1..(MaxTime + 1)
Source   == Owner \X Ip
Strikes  == [count : Nat, until : Nat]
NoStrike == [count |-> 0, until |-> 0]

Guess    == [at : Nat, trusted : BOOLEAN]

GuardTypeOK ==
  /\ now \in 0..MaxTime
  /\ sourceStrikes \in [Source -> Strikes]
  /\ clientStrikes \in [Owner -> Strikes]
  /\ knownGood \in [Source -> Nat]
  /\ lastStep \in [Client -> Step \cup {NoStep}]
  /\ sourceGuesses \in [Source -> Seq(Nat)]
  /\ clientGuesses \in [Owner -> Seq(Guess)]
  /\ accepted \in Seq(Owner \X Step)
  /\ passed \in [Source -> Nat \cup {NoStep}]

GuardInit ==
  /\ now = 0
  /\ sourceStrikes = [s \in Source |-> NoStrike]
  /\ clientStrikes = [o \in Owner |-> NoStrike]
  /\ knownGood = [s \in Source |-> 0]
  /\ lastStep = [c \in Client |-> NoStep]
  /\ sourceGuesses = [s \in Source |-> <<>>]
  /\ clientGuesses = [o \in Owner |-> <<>>]
  /\ accepted = <<>>
  /\ passed = [s \in Source |-> NoStep]

-----------------------------------------------------------------------------
(* TotpLockout.  An entry whose time has come counts for nothing; the code *)
(* deletes it when it next looks at it.                                    *)

Count(e) == IF now >= e.until THEN 0 ELSE e.count

IsKnownGood(s) == now < knownGood[s]

(* Definitions whose names end in Bug are not part of the specification:   *)
(* each is a defect the property named in PROJECT.json must detect.        *)
lockedBug(s) ==
  \/ Count(sourceStrikes[s]) >= PER_SOURCE
  \/ Count(clientStrikes[s[1]]) >= PER_CLIENT
locked(s) ==
  \/ Count(sourceStrikes[s]) >= PER_SOURCE
  \/ ~IsKnownGood(s) /\ Count(clientStrikes[s[1]]) >= PER_CLIENT

StruckBug(e) == [count |-> Count(e) + 1, until |-> IF Count(e) = 0 THEN now + LOCKOUT ELSE e.until]
Struck(e)    == [count |-> Count(e) + 1, until |-> now + LOCKOUT]

record_failure(s) ==
  /\ sourceStrikes' = [sourceStrikes EXCEPT ![s] = Struck(@)]
  /\ clientStrikes' = [clientStrikes EXCEPT ![s[1]] = Struck(@)]
  /\ sourceGuesses' = [sourceGuesses EXCEPT ![s] = Append(@, now)]
  /\ clientGuesses' = [clientGuesses EXCEPT
                         ![s[1]] = Append(@, [at |-> now, trusted |-> IsKnownGood(s)])]

\* Above the cap the expired marks go, and then the oldest ones.
Remembered(K) ==
  LET live == {s \in Source : now < K[s]}
  IN  IF Cardinality({s \in Source : K[s] # 0}) <= KNOWN_GOOD_CAP THEN {K}
      ELSE {[s \in Source |-> IF s \in kept THEN K[s] ELSE 0] :
              kept \in {S \in SUBSET live :
                          /\ Cardinality(S) = IF Cardinality(live) < KNOWN_GOOD_CAP
                                                THEN Cardinality(live) ELSE KNOWN_GOOD_CAP
                          /\ \A s \in S, t \in live \ S : K[s] >= K[t]}}

record_success(s) ==
  /\ sourceStrikes' = [sourceStrikes EXCEPT ![s] = NoStrike]
  /\ knownGood' \in Remembered([knownGood EXCEPT ![s] = now + KNOWN_GOOD])
  /\ passed' = [passed EXCEPT ![s] = now]
  /\ sourceGuesses' = [sourceGuesses EXCEPT ![s] = <<>>]

-----------------------------------------------------------------------------
(* An attempt of client c from address ip.  A locked source is turned away *)
(* before its code is looked at, and a code that was spent already is      *)
(* refused without counting against anyone; neither changes anything.      *)

SourceOf(c, ip) == <<seed_owner[c], ip>>

\* One step of clock drift is tolerated each way.
Matches(code) == code \in (now - 1)..(now + 1)

ReplayKeyBug(c) == c
ReplayKey(c)    == seed_owner[c]

totp_ok(c, ip, code) ==
  /\ ~locked(SourceOf(c, ip))
  /\ Matches(code)
  /\ code > lastStep[ReplayKey(c)]
  /\ lastStep' = [lastStep EXCEPT ![ReplayKey(c)] = code]
  /\ accepted' = Append(accepted, <<seed_owner[c], code>>)
  /\ record_success(SourceOf(c, ip))
  /\ UNCHANGED <<now, clientStrikes, clientGuesses>>

totp_invalid(c, ip) ==
  /\ ~locked(SourceOf(c, ip))
  /\ Len(clientGuesses[seed_owner[c]]) < MaxGuess
  /\ record_failure(SourceOf(c, ip))
  /\ UNCHANGED <<now, knownGood, lastStep, accepted, passed>>

\* A passkey is no guess: it is checked whether the source is locked or not.
passkey_ok(c, ip) ==
  /\ record_success(SourceOf(c, ip))
  /\ UNCHANGED <<now, clientStrikes, lastStep, clientGuesses, accepted>>

guard_restart ==
  /\ sourceStrikes' = [s \in Source |-> NoStrike]
  /\ clientStrikes' = [o \in Owner |-> NoStrike]
  /\ knownGood' = [s \in Source |-> 0]
  /\ lastStep' = [c \in Client |-> NoStep]
  /\ sourceGuesses' = [s \in Source |-> <<>>]
  /\ clientGuesses' = [o \in Owner |-> <<>>]
  /\ accepted' = <<>>
  /\ passed' = [s \in Source |-> NoStep]
  /\ UNCHANGED now

InWindow(t, u) == u < t + LOCKOUT

\* Entries whose time has come are dropped, which the code does when it next
\* looks at them, and so is history that no window reaches back to.
Current(e, t) == IF t >= e.until THEN NoStrike ELSE e
Over(seq, t)  == seq = <<>> \/ ~InWindow(seq[Len(seq)], t)
OverAll(seq, t) == seq = <<>> \/ ~InWindow(seq[Len(seq)].at, t)

tick ==
  /\ now < MaxTime
  /\ now' = now + 1
  /\ sourceStrikes' = [s \in Source |-> Current(sourceStrikes[s], now + 1)]
  /\ clientStrikes' = [o \in Owner |-> Current(clientStrikes[o], now + 1)]
  /\ knownGood' = [s \in Source |-> IF now + 1 >= knownGood[s] THEN 0 ELSE knownGood[s]]
  /\ sourceGuesses' = [s \in Source |->
                         IF Over(sourceGuesses[s], now + 1) THEN <<>> ELSE sourceGuesses[s]]
  /\ clientGuesses' = [o \in Owner |->
                         IF OverAll(clientGuesses[o], now + 1) THEN <<>> ELSE clientGuesses[o]]
  /\ passed' = [s \in Source |-> IF passed[s] + KNOWN_GOOD <= now + 1 THEN NoStep ELSE passed[s]]
  /\ UNCHANGED <<lastStep, accepted>>

GuardNext ==
  \/ \E c \in Client, ip \in Ip :
       \/ \E code \in Step : totp_ok(c, ip, code)
       \/ totp_invalid(c, ip)
       \/ passkey_ok(c, ip)
  \/ guard_restart
  \/ tick

GuardSpec == GuardInit /\ [][GuardNext]_guardVars

-----------------------------------------------------------------------------
(* Properties.                                                             *)

\* A code opens one door once: no step of a seed is accepted twice while the
\* server runs, not even by two clients that delegate to the same owner, and
\* not out of order.
CodeSpentOnce ==
  \A i, j \in DOMAIN accepted :
    i < j /\ accepted[i][1] = accepted[j][1] => accepted[i][2] < accepted[j][2]

\* The guessing budget.  Within one cooldown a source has at most PER_SOURCE
\* wrong codes looked at (its own success starts a new count), and all the
\* sources that are not trusted have at most PER_CLIENT between them, however
\* they spread and time the attempts.
GuessBudget ==
  /\ \A s \in Source : \A i \in DOMAIN sourceGuesses[s] :
        Cardinality({j \in 1..i : InWindow(sourceGuesses[s][j], sourceGuesses[s][i])})
          <= PER_SOURCE
  /\ \A o \in Owner : \A i \in DOMAIN clientGuesses[o] :
        ~clientGuesses[o][i].trusted =>
          Cardinality({j \in 1..i : InWindow(clientGuesses[o][j].at, clientGuesses[o][i].at)})
            <= PER_CLIENT

\* Nobody can lock the owner out from elsewhere: a source that passed within
\* KNOWN_GOOD, that has failed fewer than PER_SOURCE times since it did or since
\* it was last quiet for a cooldown, and that is
\* still among the KNOWN_GOOD_CAP last to pass, is not locked, whatever the
\* other sources do.
NotLockedByOthers ==
  \A s \in Source :
    /\ passed[s] # NoStep
    /\ now < passed[s] + KNOWN_GOOD
    /\ Len(sourceGuesses[s]) < PER_SOURCE
    /\ Cardinality({t \in Source \ {s} : passed[t] >= passed[s]}) < KNOWN_GOOD_CAP
    => ~locked(s)
=============================================================================
