----------------------------- MODULE TokenStore -----------------------------
(***************************************************************************)
(* The token store of the BeaconMCP server (class TokenStore of            *)
(* src/src/beaconmcp/auth.py).  It holds three in-memory dictionaries,     *)
(*                                                                         *)
(*   _tokens          bearers of the dashboard: session bearers, memory    *)
(*                    only, and named API tokens, persisted                *)
(*   _oauth_tokens    bearers of the OAuth grants, persisted               *)
(*   _refresh_tokens  refresh tokens of the OAuth sign-ins, persisted      *)
(*                                                                         *)
(* and three SQLite tables that a restart reads them back from.  All the   *)
(* refresh and access tokens minted from one authorization_code exchange   *)
(* form a family, which ends SESSION_LIFETIME after the exchange.          *)
(*                                                                         *)
(* Every method runs under one re-entrant lock, so its effect on memory is *)
(* one step.  It is not one step on disk: each SQL statement is a commit   *)
(* of its own.  A method therefore leaves the statements it still has to   *)
(* run in `writes', each db_write runs the next, and Return releases the   *)
(* lock and answers the caller.  The process can die between any two.      *)
(* Deletes of rows that are past their expiry are not queued: no start     *)
(* ever loads such a row, so the moment it goes cannot be observed.        *)
(***************************************************************************)
EXTENDS Integers, Sequences, FiniteSets

CONSTANTS
  Client,                \* client ids
  TOKEN_TTL,             \* lifetime of a session or OAuth bearer
  NAMED_TOKEN_TTL,       \* lifetime of a named token, 0 for no expiry
  SESSION_LIFETIME,      \* absolute lifetime of a sign-in
  REFRESH_TOKEN_TTL,     \* idle lifetime of a refresh token
  REFRESH_REUSE_GRACE,   \* how long a resent refresh gets the same answer
  REVOKE_GRACE_SECONDS,  \* how long a revoked bearer still works
  NAMED_TOKEN_CAP,       \* named tokens per client
  MaxTime,               \* bound on the clock
  MaxMint,               \* bound on the tokens or token pairs minted
  MaxIssue,              \* only the first MaxIssue of them may be dashboard bearers
  MaxLostWrites          \* bound on the SQL statements that fail

ASSUME ClientAssumption == IsFiniteSet(Client)

\* A refresh lifetime outside (0, SESSION_LIFETIME] is refused at start-up.
ASSUME TimeAssumption ==
  /\ TOKEN_TTL \in Nat \ {0}
  /\ NAMED_TOKEN_TTL \in Nat
  /\ SESSION_LIFETIME \in Nat \ {0}
  /\ REFRESH_TOKEN_TTL \in 1..SESSION_LIFETIME
  /\ REFRESH_REUSE_GRACE \in Nat
  /\ REVOKE_GRACE_SECONDS \in Nat

ASSUME BoundAssumption ==
  /\ NAMED_TOKEN_CAP \in Nat
  /\ MaxTime \in Nat
  /\ MaxMint \in Nat
  /\ MaxIssue \in 0..MaxMint
  /\ MaxLostWrites \in Nat

VARIABLES
  now,          \* time.time()
  tokens,       \* _tokens
  oauth,        \* _oauth_tokens
  refresh,      \* _refresh_tokens
  namedRows,    \* table named_tokens
  oauthRows,    \* table oauth_tokens
  refreshRows,  \* table refresh_tokens
  writes,       \* statements the method holding the lock has yet to commit
  promise,      \* what that method's answer tells its caller
  minted,       \* how many tokens or pairs were minted: the source of fresh ids
  lost,         \* how many statements failed
  start,        \* history: when each family signed in
  told          \* history: everything the answers have told so far

vars == <<now, tokens, oauth, refresh, namedRows, oauthRows, refreshRows,
          writes, promise, minted, lost, start, told>>

memory == <<tokens, oauth, refresh>>
disk   == <<namedRows, oauthRows, refreshRows>>

-----------------------------------------------------------------------------
(* Tokens.  secrets.token_hex never repeats: the n-th mint has id n.  A    *)
(* pair shares one id, and a family is named after the pair that opened it.*)

Id       == 1..MaxMint
NoFamily == 0
NoGrant  == 0
NoEnd    == -1                     \* family_expires_at IS NULL: older builds
Forever  == MaxTime + 1            \* float("inf"): after every clock reading
Time     == Nat

AccessToken == [id : Id, client_id : Client, expires_at : Time, named : BOOLEAN]

OauthToken == [id : Id, client_id : Client, family_id : Id \cup {NoFamily},
               expires_at : Time]

\* used_at and replay live in memory only; in a row they are blank.
RefreshToken == [id : Id, client_id : Client, family_id : Id, expires_at : Time,
                 created_at : Time, family_expires_at : Time, used : BOOLEAN,
                 used_at : Time, replay : Id \cup {NoGrant}]

\* rt with the fields that a rotation changes.
Rotated(rt, used, at, replay, end) ==
  [id |-> rt.id, client_id |-> rt.client_id, family_id |-> rt.family_id,
   expires_at |-> end, created_at |-> rt.created_at,
   family_expires_at |-> rt.family_expires_at,
   used |-> used, used_at |-> at, replay |-> replay]

RowBug(rt) == Rotated(rt, FALSE, 0, NoGrant, rt.expires_at)
Row(rt)    == Rotated(rt, rt.used, 0, NoGrant, rt.expires_at)

MinOf(a, b) == IF a <= b THEN a ELSE b

\* A bearer is good up to and including its expiry (`now > expires_at' drops
\* it), but a start loads only what expires strictly later.
Live(S)   == {t \in S : now <= t.expires_at}
Loaded(S) == {t \in S : now < t.expires_at}

WithoutIds(S, ids) == {t \in S : t.id \notin ids}

-----------------------------------------------------------------------------
(* SQL statements: DELETE WHERE token_hash / family_id / client_id, and    *)
(* INSERT OR REPLACE, which deletes the row with the same key first.       *)

StatementOn(table, R) ==
  [table : {table}, ids : SUBSET Id, families : SUBSET Id, clients : SUBSET Client,
   rows : SUBSET R]

Statement == StatementOn("named", AccessToken) \cup StatementOn("oauth", OauthToken)
               \cup StatementOn("refresh", RefreshToken)

Insert(table, row) == [table |-> table, ids |-> {row.id}, families |-> {},
                       clients |-> {}, rows |-> {row}]
Delete(table, ids, families, clients) ==
  [table |-> table, ids |-> ids, families |-> families, clients |-> clients, rows |-> {}]

(* Definitions whose names end in Bug are not part of the specification:   *)
(* each is a defect the property named in PROJECT.json must detect.        *)
persistBug(at)         == Delete("named", {at.id}, {}, {})
DeleteOauthBug(id)     == Delete("oauth", {}, {}, {})

persist(at)            == Insert("named", at)
unpersist(id)          == Delete("named", {id}, {}, {})
persist_oauth(at)      == Insert("oauth", at)
persist_refresh(rt)    == Insert("refresh", Row(rt))
DeleteOauth(id)        == Delete("oauth", {id}, {}, {})
DeleteFamily(table, f) == Delete(table, {}, {f}, {})
DeleteClient(table, c) == Delete(table, {}, {}, {c})

NamedAfter(s)   == WithoutIds(namedRows, s.ids) \cup s.rows
OauthAfter(s)   == {t \in WithoutIds(oauthRows, s.ids) :
                      t.family_id \notin s.families /\ t.client_id \notin s.clients}
                     \cup s.rows
RefreshAfter(s) == {t \in WithoutIds(refreshRows, s.ids) :
                      t.family_id \notin s.families /\ t.client_id \notin s.clients}
                     \cup s.rows

-----------------------------------------------------------------------------
(* What an answer tells its caller, kept to state what must stay true:     *)
(*   spent    refresh tokens a caller exchanged for the next pair          *)
(*   closed   families that may mint nothing any more                      *)
(*   ended    families of which no bearer may be accepted any more         *)
(*   revoked  bearers a caller had revoked                                 *)

Told    == [spent : SUBSET Id, closed : SUBSET Id, ended : SUBSET Id, revoked : SUBSET Id]
Tell(spent, closed, ended, revoked) ==
  [spent |-> spent, closed |-> closed, ended |-> ended, revoked |-> revoked]
Nothing == Tell({}, {}, {}, {})

\* The lock is free.
Idle == writes = <<>> /\ promise = Nothing

TypeOK ==
  /\ now \in 0..MaxTime
  /\ tokens \subseteq AccessToken
  /\ oauth \subseteq OauthToken
  /\ refresh \subseteq RefreshToken
  /\ namedRows \subseteq AccessToken
  /\ oauthRows \subseteq OauthToken
  /\ refreshRows \subseteq RefreshToken
  /\ writes \in Seq(Statement)
  /\ promise \in Told
  /\ minted \in 0..MaxMint
  /\ lost \in 0..MaxLostWrites
  /\ start \in [Id -> Time]
  /\ told \in Told

Init ==
  /\ now = 0
  /\ tokens = {} /\ oauth = {} /\ refresh = {}
  /\ namedRows = {} /\ oauthRows = {} /\ refreshRows = {}
  /\ writes = <<>>
  /\ promise = Nothing
  /\ minted = 0
  /\ lost = 0
  /\ start = [i \in Id |-> 0]
  /\ told = Nothing

-----------------------------------------------------------------------------
(* _cleanup: forget what has expired, in memory and on disk, and the pairs *)
(* kept for retries once their grace is over.                              *)

ExpiredIds(S) == {t.id : t \in S \ Live(S)}

GraceOver(rt) == rt.replay # NoGrant /\ now - rt.used_at > REFRESH_REUSE_GRACE

ForgetReplay(rt) == IF GraceOver(rt) THEN [rt EXCEPT !.replay = NoGrant] ELSE rt

\* The dictionaries become T, O and R, and then _cleanup runs.
CleanedUp(T, O, R) ==
  /\ tokens'  = Live(T)
  /\ oauth'   = Live(O)
  /\ refresh' = {ForgetReplay(rt) : rt \in Live(R)}
  /\ namedRows'   = WithoutIds(namedRows, ExpiredIds(T))
  /\ oauthRows'   = WithoutIds(oauthRows, ExpiredIds(O))
  /\ refreshRows' = WithoutIds(refreshRows, ExpiredIds(R))

-----------------------------------------------------------------------------
(* issue: a session bearer at login, a named token from the API page.      *)

NamedTokens(c) == {t \in Live(tokens) : t.named /\ t.client_id = c}

NamedExpiry == IF NAMED_TOKEN_TTL = 0 THEN Forever ELSE now + NAMED_TOKEN_TTL

issue(c) ==
  LET at == [id |-> minted + 1, client_id |-> c,
             expires_at |-> now + TOKEN_TTL, named |-> FALSE]
  IN  /\ Idle
      /\ minted < MaxIssue
      /\ minted' = minted + 1
      /\ CleanedUp(tokens \cup {at}, oauth, refresh)
      /\ UNCHANGED <<now, writes, promise, lost, start, told>>

issue_named(c) ==
  LET at == [id |-> minted + 1, client_id |-> c,
             expires_at |-> NamedExpiry, named |-> TRUE]
  IN  /\ Idle
      /\ minted < MaxIssue
      /\ Cardinality(NamedTokens(c)) < NAMED_TOKEN_CAP
      /\ minted' = minted + 1
      /\ writes' = <<persist(at)>>
      /\ CleanedUp(tokens \cup {at}, oauth, refresh)
      /\ UNCHANGED <<now, promise, lost, start, told>>

\* list_named, and an issue that raises TokenCapExceeded: only _cleanup runs.
list_named ==
  /\ Idle
  /\ CleanedUp(tokens, oauth, refresh)
  /\ UNCHANGED <<now, writes, promise, minted, lost, start, told>>

-----------------------------------------------------------------------------
(* OAuth grants.                                                           *)

\* The bearer and the refresh token of _mint_oauth; neither outlives `end'.
BearerBug(c, f, end) ==
  [id |-> minted + 1, client_id |-> c, family_id |-> f, expires_at |-> now + TOKEN_TTL]

Bearer(c, f, end) ==
  [id |-> minted + 1, client_id |-> c, family_id |-> f,
   expires_at |-> MinOf(now + TOKEN_TTL, end)]

Renewal(c, f, end) ==
  [id |-> minted + 1, client_id |-> c, family_id |-> f,
   expires_at |-> MinOf(now + REFRESH_TOKEN_TTL, end), created_at |-> now,
   family_expires_at |-> end, used |-> FALSE, used_at |-> 0, replay |-> NoGrant]

\* client_credentials: a bearer and no refresh token.
issue_oauth(c) ==
  LET at == Bearer(c, NoFamily, now + SESSION_LIFETIME)
  IN  /\ Idle
      /\ minted < MaxMint
      /\ minted' = minted + 1
      /\ writes' = <<persist_oauth(at)>>
      /\ CleanedUp(tokens, oauth \cup {at}, refresh)
      /\ UNCHANGED <<now, promise, lost, start, told>>

\* authorization_code: the pair that opens a family.
issue_oauth_refresh(c) ==
  LET f  == minted + 1
      at == Bearer(c, f, now + SESSION_LIFETIME)
      rt == Renewal(c, f, now + SESSION_LIFETIME)
  IN  /\ Idle
      /\ minted < MaxMint
      /\ minted' = minted + 1
      /\ start' = [start EXCEPT ![f] = now]
      /\ writes' = <<persist_oauth(at), persist_refresh(rt)>>
      /\ CleanedUp(tokens, oauth \cup {at}, refresh \cup {rt})
      /\ UNCHANGED <<now, promise, lost, told>>

-----------------------------------------------------------------------------
(* refresh.  An unknown token, or one of another client, is refused and    *)
(* changes nothing; so does the answer to a retry within the grace.        *)

WithinGrace(rt) == rt.replay # NoGrant /\ now - rt.used_at <= REFRESH_REUSE_GRACE

IsReuse(rt)   == rt.used /\ now < rt.family_expires_at
IsExpired(rt) == now > rt.expires_at \/ now >= rt.family_expires_at

OfFamily(S, f)    == {t \in S : t.family_id = f}
NotOfFamily(S, f) == {t \in S : t.family_id # f}

FamilyDeletesBug(f) == <<DeleteFamily("refresh", f)>>
FamilyDeletes(f)    == <<DeleteFamily("refresh", f), DeleteFamily("oauth", f)>>

revoke_family(f) ==
  /\ oauth' = NotOfFamily(oauth, f)
  /\ refresh' = NotOfFamily(refresh, f)
  /\ writes' = FamilyDeletes(f)
  /\ promise' = Tell({}, {f}, {f}, {})
  /\ UNCHANGED <<tokens, disk>>

\* The old token is marked used on disk before anything new is written.
RotationWritesBug(used, at, new) ==
  <<persist_oauth(at), persist_refresh(new), persist_refresh(used)>>
RotationWrites(used, at, new) ==
  <<persist_refresh(used), persist_oauth(at), persist_refresh(new)>>

refresh_rotated(rt) ==
  LET end  == rt.family_expires_at
      at   == Bearer(rt.client_id, rt.family_id, end)
      new  == Renewal(rt.client_id, rt.family_id, end)
      used == Rotated(rt, TRUE, now, new.id, end)
  IN  /\ Idle
      /\ minted < MaxMint
      /\ ~IsReuse(rt) /\ ~IsExpired(rt)
      /\ minted' = minted + 1
      /\ writes' = RotationWrites(used, at, new)
      /\ promise' = Tell({rt.id}, {}, {}, {})
      /\ CleanedUp(tokens, oauth \cup {at}, (refresh \ {rt}) \cup {used, new})
      /\ UNCHANGED <<now, lost, start, told>>

refresh_reused(rt) ==
  /\ Idle
  /\ IsReuse(rt) /\ ~WithinGrace(rt)
  /\ revoke_family(rt.family_id)
  /\ UNCHANGED <<now, minted, lost, start, told>>

\* The sign-in is over.
refresh_ended(rt) ==
  /\ Idle
  /\ ~IsReuse(rt) /\ now >= rt.family_expires_at
  /\ revoke_family(rt.family_id)
  /\ UNCHANGED <<now, minted, lost, start, told>>

\* The token idled past its own lifetime and takes only itself out.
refresh_idled(rt) ==
  /\ Idle
  /\ ~IsReuse(rt) /\ now > rt.expires_at /\ now < rt.family_expires_at
  /\ refresh' = refresh \ {rt}
  /\ refreshRows' = WithoutIds(refreshRows, {rt.id})
  /\ UNCHANGED <<now, tokens, oauth, namedRows, oauthRows, writes, promise,
                 minted, lost, start, told>>

-----------------------------------------------------------------------------
(* Deleting a client takes its OAuth tokens with it.                       *)

OfClients(S, C)    == {t \in S : t.client_id \in C}
NotOfClients(S, C) == {t \in S : t.client_id \notin C}

FamiliesOf(C) ==
  {t.family_id : t \in OfClients(refresh, C)}
    \cup ({t.family_id : t \in OfClients(oauth, C)} \ {NoFamily})

\* revoke_client for the clients of the sequence cs, one after the other.
revoke_clients(cs) ==
  LET C == {cs[i] : i \in DOMAIN cs}
  IN  /\ oauth' = NotOfClients(oauth, C)
      /\ refresh' = NotOfClients(refresh, C)
      /\ writes' = [i \in 1..(2 * Len(cs)) |->
                      DeleteClient(IF i % 2 = 1 THEN "oauth" ELSE "refresh",
                                   cs[(i + 1) \div 2])]
      /\ promise' = Tell({}, FamiliesOf(C), FamiliesOf(C), {})
      /\ UNCHANGED <<tokens, disk>>

revoke_client(c) ==
  /\ Idle
  /\ revoke_clients(<<c>>)
  /\ UNCHANGED <<now, minted, lost, start, told>>

\* Run at start-up, and when clients.json turns out to have lost a client.
prune_unknown_clients(known) ==
  LET owners == {t.client_id : t \in oauth} \cup {t.client_id : t \in refresh}
      stale  == owners \ known
  IN  /\ Idle
      /\ stale # {}
      /\ \E cs \in [1..Cardinality(stale) -> stale] :
            /\ {cs[i] : i \in DOMAIN cs} = stale
            /\ revoke_clients(cs)
      /\ UNCHANGED <<now, minted, lost, start, told>>

-----------------------------------------------------------------------------
(* validate forgets a bearer it finds expired.                             *)

validate(t) ==
  /\ Idle
  /\ now > t.expires_at
  /\ tokens' = tokens \ {t}
  /\ namedRows' = WithoutIds(namedRows, {t.id})
  /\ UNCHANGED <<now, oauth, refresh, oauthRows, refreshRows, writes, promise,
                 minted, lost, start, told>>

validate_oauth(t) ==
  /\ Idle
  /\ now > t.expires_at
  /\ oauth' = oauth \ {t}
  /\ oauthRows' = WithoutIds(oauthRows, {t.id})
  /\ UNCHANGED <<now, tokens, refresh, namedRows, refreshRows, writes, promise,
                 minted, lost, start, told>>

-----------------------------------------------------------------------------
(* revoke: security_end_session, logout, and revoke_named, which calls it  *)
(* on the one named token of the client that its prefix matches.  The      *)
(* bearer works for a few more seconds, but it leaves the disk at once.    *)

DeadlineBug(t) == [t EXCEPT !.expires_at = MinOf(@, now - REVOKE_GRACE_SECONDS)]
Deadline(t)    == [t EXCEPT !.expires_at = MinOf(@, now + REVOKE_GRACE_SECONDS)]

revoke(t) ==
  /\ Idle
  /\ tokens' = (tokens \ {t}) \cup {Deadline(t)}
  /\ writes' = IF t.named THEN <<unpersist(t.id)>> ELSE <<>>
  /\ promise' = Tell({}, {}, {}, {t.id})
  /\ UNCHANGED <<now, oauth, refresh, disk, minted, lost, start, told>>

\* The family of an OAuth bearer loses its refresh tokens, so it mints no more.
revoke_oauth(t) ==
  /\ Idle
  /\ oauth' = (oauth \ {t}) \cup {Deadline(t)}
  /\ IF t.family_id = NoFamily
       THEN /\ refresh' = refresh
            /\ writes' = <<DeleteOauth(t.id)>>
            /\ promise' = Tell({}, {}, {}, {t.id})
       ELSE /\ refresh' = NotOfFamily(refresh, t.family_id)
            /\ writes' = <<DeleteOauth(t.id), DeleteFamily("refresh", t.family_id)>>
            /\ promise' = Tell({}, {t.family_id}, {}, {t.id})
  /\ UNCHANGED <<now, tokens, disk, minted, lost, start, told>>

-----------------------------------------------------------------------------
(* The disk, the lock, the process and the clock.                          *)

\* The next statement of the method that holds the lock.
db_write ==
  /\ writes # <<>>
  /\ LET s == Head(writes)
     IN  /\ namedRows'   = IF s.table = "named"   THEN NamedAfter(s)   ELSE namedRows
         /\ oauthRows'   = IF s.table = "oauth"   THEN OauthAfter(s)   ELSE oauthRows
         /\ refreshRows' = IF s.table = "refresh" THEN RefreshAfter(s) ELSE refreshRows
  /\ writes' = Tail(writes)
  /\ UNCHANGED <<now, memory, promise, minted, lost, start, told>>

\* The statement raises; the error is logged and the method goes on.
db_write_fails ==
  /\ writes # <<>>
  /\ lost < MaxLostWrites
  /\ writes' = Tail(writes)
  /\ lost' = lost + 1
  /\ UNCHANGED <<now, memory, disk, promise, minted, start, told>>

\* The method answers.
Return ==
  /\ writes = <<>>
  /\ promise # Nothing
  /\ told' = [k \in DOMAIN told |-> told[k] \cup promise[k]]
  /\ promise' = Nothing
  /\ UNCHANGED <<now, memory, disk, writes, minted, lost, start>>

Least(S) == CHOOSE x \in S : \A y \in S : x <= y

\* _bound_legacy_sessions: rows of older builds have no family end.
FamilyEndBug(rt, R) ==
  IF rt.family_expires_at # NoEnd THEN rt.family_expires_at
  ELSE SESSION_LIFETIME + rt.created_at

FamilyEnd(rt, R) ==
  IF rt.family_expires_at # NoEnd THEN rt.family_expires_at
  ELSE SESSION_LIFETIME + Least({r.created_at : r \in OfFamily(R, rt.family_id)})

Bounded(rt, end) ==
  [id |-> rt.id, client_id |-> rt.client_id, family_id |-> rt.family_id,
   expires_at |-> MinOf(rt.expires_at, end), created_at |-> rt.created_at,
   family_expires_at |-> end, used |-> rt.used, used_at |-> 0, replay |-> NoGrant]

BoundRefresh(R) == {Bounded(rt, FamilyEnd(rt, R)) : rt \in R}

BearerEnd(at, R) ==
  Least({at.expires_at} \cup {r.family_expires_at : r \in OfFamily(R, at.family_id)})

BoundOauth(O, R) == {[at EXCEPT !.expires_at = BearerEnd(at, R)] : at \in O}

\* The process dies, wherever it is, and starts again: _init_db.
Restart ==
  LET R == BoundRefresh(refreshRows)
      O == BoundOauth(oauthRows, R)
  IN  /\ tokens'  = Loaded(namedRows)
      /\ oauth'   = Loaded(O)
      /\ refresh' = Loaded(R)
      /\ namedRows'   = Loaded(namedRows)
      /\ oauthRows'   = Loaded(O)
      /\ refreshRows' = Loaded(R)
      /\ writes' = <<>>
      /\ promise' = Nothing
      /\ UNCHANGED <<now, minted, lost, start, told>>

Tick ==
  /\ now < MaxTime
  /\ now' = now + 1
  /\ UNCHANGED <<memory, disk, writes, promise, minted, lost, start, told>>

Refresh ==
  \E rt \in refresh :
    \/ refresh_rotated(rt)
    \/ refresh_reused(rt)
    \/ refresh_ended(rt)
    \/ refresh_idled(rt)

Next ==
  \/ \E c \in Client : issue(c)
  \/ \E c \in Client : issue_named(c)
  \/ list_named
  \/ \E c \in Client : issue_oauth(c)
  \/ \E c \in Client : issue_oauth_refresh(c)
  \/ Refresh
  \/ \E c \in Client : revoke_client(c)
  \/ \E known \in SUBSET Client : prune_unknown_clients(known)
  \/ \E t \in tokens : validate(t)
  \/ \E t \in oauth : validate_oauth(t)
  \/ \E t \in tokens : revoke(t)
  \/ \E t \in oauth : revoke_oauth(t)
  \/ db_write
  \/ db_write_fails
  \/ Return
  \/ Restart
  \/ Tick

Spec == Init /\ [][Next]_vars

-----------------------------------------------------------------------------
(* Properties.                                                             *)

EndOf(f) == start[f] + SESSION_LIFETIME

BearerBounded(at)  == at.family_id # NoFamily => at.expires_at <= EndOf(at.family_id)
RenewalBounded(rt) == /\ rt.expires_at <= rt.family_expires_at
                      /\ rt.family_expires_at = EndOf(rt.family_id)

\* A sign-in never outlives SESSION_LIFETIME: however often it is refreshed, by
\* whatever path its tokens reach memory (minting, rotation, a restart), no
\* bearer or refresh token of a family expires later than the exchange that
\* opened the family plus SESSION_LIFETIME, in memory or on disk.
SignInBounded ==
  /\ \A at \in oauth \cup oauthRows : BearerBounded(at)
  /\ \A rt \in refresh \cup refreshRows : RenewalBounded(rt)

Unused(R) == {rt \in R : ~rt.used}

\* A family never forks: at most one of its refresh tokens can still be
\* exchanged, in memory and among the rows a restart would load, whatever
\* statement of a rotation the process died at.
OneUsableRefresh ==
  \A R \in {refresh, refreshRows} : \A r1, r2 \in Unused(R) :
    r1.family_id = r2.family_id => r1.id = r2.id

\* A refresh token a caller exchanged is never exchangeable again, after any
\* sequence of crashes: this is what makes a second use recognisable as reuse.
SpentStaysSpent ==
  \A rt \in refresh \cup refreshRows : rt.id \in told.spent => rt.used

\* When a caller was told that a family is closed (reuse detected, session
\* ended, client deleted) the family has no refresh token, and when it was told
\* that the family is gone no bearer either, in memory or on disk, for ever.
ClosedStaysClosed ==
  /\ \A rt \in refresh \cup refreshRows : rt.family_id \notin told.closed
  /\ \A at \in oauth \cup oauthRows : at.family_id \notin told.ended

\* A bearer whose revocation was acknowledged is not on disk, so no restart
\* brings it back, and it is refused REVOKE_GRACE_SECONDS after the call.
RevokedStaysRevoked ==
  /\ \A t \in namedRows \cup oauthRows : t.id \notin told.revoked
  /\ \A t \in tokens \cup oauth :
        t.id \in told.revoked => t.expires_at <= now + REVOKE_GRACE_SECONDS

\* What a restart would hand out is what the running store hands out: when no
\* method holds the lock, the rows a start would load are exactly the live
\* tokens in memory, but for session bearers and revoked tokens in their grace.
RestartKeepsTokens ==
  Idle =>
    /\ Loaded(namedRows) = {t \in Loaded(tokens) : t.named /\ t.id \notin told.revoked}
    /\ Loaded(oauthRows) = {t \in Loaded(oauth) : t.id \notin told.revoked}
    /\ Loaded(refreshRows) = {Row(rt) : rt \in Loaded(refresh)}

\* The tokens that can extend sign-in f: its exchangeable row on disk, which is
\* what survives, or, while a method is writing one, the row that is to come.
Keys(f) ==
  LET stored  == {rt.id : rt \in Unused(OfFamily(refreshRows, f))}
      pending == {rt.id : rt \in
                    Unused(OfFamily(UNION {writes[i].rows : i \in
                                     {j \in DOMAIN writes : writes[j].table = "refresh"}}, f))}
  IN  IF stored # {} THEN stored ELSE pending

\* Refinement: seen through Keys, every behaviour of the store, crashes between
\* any two statements included, is a behaviour of the rotation chain SignIn.
Chain == INSTANCE SignIn WITH issued <- minted, keys <- [f \in Id |-> Keys(f)]

ImplementsSignIn == Chain!Spec
=============================================================================
