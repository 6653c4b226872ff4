------------------------------ MODULE Passkeys ------------------------------
(***************************************************************************)
(* Passkeys (src/src/beaconmcp/dashboard/passkeys.py): the table of        *)
(* credentials, the single-use challenges held in memory, and the two      *)
(* ceremonies.  The WebAuthn library is external: it accepts what an       *)
(* authenticator signed for the challenge, so a credential is presented    *)
(* here or it is not, and what it refuses is a rejected ceremony.          *)
(*                                                                         *)
(* Challenges live three minutes: one may expire at any moment.            *)
(*                                                                         *)
(* Definitions whose names end in Bug are not part of the specification:   *)
(* they are what the definition after them must not be.                    *)
(***************************************************************************)
EXTENDS Naturals, FiniteSets

CONSTANTS
  Key,          \* credentials an authenticator can hold
  NoSession,    \* a ceremony of the authorize page has no session
  MAX_PASSKEYS_PER_CLIENT,
  MaxChallenge  \* bound on the ceremonies that are started

ASSUME PasskeyAssumption ==
  /\ MAX_PASSKEYS_PER_CLIENT \in Nat \ {0}
  /\ MaxChallenge \in Nat

VARIABLES
  passkeys,    \* table passkeys: the client of each credential
  challenges,  \* ChallengeStore._items
  started,     \* how many challenges were issued: the source of fresh states
  overlapped   \* history: clients that had two registrations under way at once

passkeyVars == <<passkeys, challenges, started, overlapped>>

PasskeyInit ==
  /\ passkeys = <<>>
  /\ challenges = <<>>
  /\ started = 0
  /\ overlapped = {}

-----------------------------------------------------------------------------
list_for_client(c) == {k \in DOMAIN passkeys : passkeys[k] = c}

Registering(c) ==
  {st \in DOMAIN challenges : challenges[st].purpose = "register" /\ challenges[st].client = c}

\* ChallengeStore.issue: a fresh state, bound to a client and maybe a session.
issue_challenge(purpose, c, s) ==
  /\ started < MaxChallenge
  /\ started' = started + 1
  /\ challenges' = [st \in DOMAIN challenges \cup {started + 1} |->
                      IF st \in DOMAIN challenges THEN challenges[st]
                      ELSE [purpose |-> purpose, client |-> c, session |-> s]]

\* ChallengeStore.consume pops the challenge whatever comes of it.
SpentStateBug(st) == {}
SpentState(st)    == {st}

consume_challenge(st) ==
  challenges' = [x \in DOMAIN challenges \ SpentState(st) |-> challenges[x]]

(***************************************************************************)
(* Registration.  The cap is read here and nowhere later.                  *)
(***************************************************************************)
UnderCapBug(c) == Cardinality(list_for_client(c)) <= MAX_PASSKEYS_PER_CLIENT
UnderCap(c)    == Cardinality(list_for_client(c)) < MAX_PASSKEYS_PER_CLIENT

registration_options(c, s) ==
  /\ UnderCap(c)
  /\ issue_challenge("register", c, s)
  /\ overlapped' = overlapped \cup (IF Registering(c) = {} THEN {} ELSE {c})
  /\ UNCHANGED passkeys

\* A ceremony that was started in a session is finished in that session.
SameSession(st, s) == challenges[st].session \in {NoSession, s}

verify_registration(st, k, s) ==
  /\ challenges[st].purpose = "register"
  /\ SameSession(st, s)
  /\ k \notin DOMAIN passkeys
  /\ consume_challenge(st)
  /\ passkeys' = [x \in DOMAIN passkeys \cup {k} |->
                    IF x = k THEN challenges[st].client ELSE passkeys[x]]
  /\ UNCHANGED <<started, overlapped>>

(***************************************************************************)
(* Authentication, and what follows when either ceremony is refused: the   *)
(* challenge is gone, nothing else happens.  The signature counter that    *)
(* touch stores is only read by the library.                               *)
(***************************************************************************)
authentication_options(c) ==
  /\ list_for_client(c) # {}
  /\ issue_challenge("authenticate", c, NoSession)
  /\ UNCHANGED <<passkeys, overlapped>>

Rightful(st, k) == passkeys[k] = challenges[st].client

verify_authentication(st, k) ==
  /\ challenges[st].purpose = "authenticate"
  /\ k \in DOMAIN passkeys
  /\ Rightful(st, k)
  /\ consume_challenge(st)
  /\ UNCHANGED <<passkeys, started, overlapped>>

ceremony_refused(st) ==
  /\ consume_challenge(st)
  /\ UNCHANGED <<passkeys, started, overlapped>>

delete_passkey(k, c) ==
  /\ passkeys[k] = c
  /\ passkeys' = [x \in DOMAIN passkeys \ {k} |-> passkeys[x]]
  /\ UNCHANGED <<challenges, started, overlapped>>

challenges_lost ==
  /\ challenges' = <<>>
  /\ UNCHANGED <<passkeys, started, overlapped>>
=============================================================================
