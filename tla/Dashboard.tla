----------------------------- MODULE Dashboard ------------------------------
(***************************************************************************)
(* The control panel (src/src/beaconmcp/dashboard/app.py and session.py):  *)
(* sign-in with a TOTP code or a passkey, the session row and the bearer   *)
(* it carries, and what a signed-in operator does: refresh, sign out, mint *)
(* and revoke tokens, links, connectors and passkeys.  It composes DynReg  *)
(* (links and registered clients) and Passkeys.                            *)
(*                                                                         *)
(* A handler of the panel reads the session, checks that its bearer lives, *)
(* and only then awaits the request's body: panel_request is what comes    *)
(* before the await, the action named after the handler is what comes      *)
(* after, with whatever the others did in between.  Handlers that await    *)
(* first (login, logout, the passkey sign-in) are one step.                *)
(*                                                                         *)
(* Rows and links are on disk; bearers without a name and challenges are   *)
(* in memory.  Time enters through what may expire at any moment.  The     *)
(* codes of the second factor and their budget are TotpGuard's: here a     *)
(* code is right or wrong, and right only if its client can have one.      *)
(*                                                                         *)
(* Definitions whose names end in Bug are not part of the specification:   *)
(* they are what the definition after them must not be.                    *)
(***************************************************************************)
EXTENDS DynReg, Passkeys

CONSTANTS
  Slot,             \* requests that can be in progress at the same time
  NAMED_TOKEN_CAP,
  MaxSession,       \* bound on the sessions that are opened
  MaxBearer,        \* bound on the bearers that are issued
  MaxFresh          \* bound on the sessions, bearers, links, clients and challenges together

ASSUME DashboardAssumption ==
  MaxSession \in Nat /\ MaxBearer \in Nat /\ MaxFresh \in Nat /\ NAMED_TOKEN_CAP \in Nat
  /\ NoSession \notin 1..MaxSession

VARIABLES
  sessions,    \* table sessions: client, current bearer, and whether its time has not passed
  bearers,     \* TokenStore._tokens, and as history which of them a refresh replaced
  requests,    \* handlers suspended on their request's body
  opened,      \* how many sessions were opened
  issued,      \* how many bearers were issued
  signedOut,   \* history: sessions whose operator signed out
  doors        \* history: sessions and approvals a passkey opened

panelVars == <<sessions, bearers, requests, opened, issued, signedOut, doors>>
dashVars  == <<dynVars, passkeyVars, panelVars>>

Session == 1..MaxSession
Bearer  == 1..MaxBearer
Idle    == [op |-> "idle"]

DashTypeOK ==
  /\ DynTypeOK
  /\ \A k \in DOMAIN passkeys : passkeys[k] \in Client
  /\ \A st \in DOMAIN challenges :
       /\ st \in 1..started
       /\ challenges[st] \in [purpose : {"register", "authenticate"}, client : Client,
                              session : Session \cup {NoSession}]
  /\ \A s \in DOMAIN sessions : s \in 1..opened /\ sessions[s] \in [client : Client, bearer : Bearer, valid : BOOLEAN]
  /\ \A b \in DOMAIN bearers :
       b \in 1..issued /\ bearers[b] \in [client : Client, session : Session, named : BOOLEAN,
                                          ending : BOOLEAN, replaced : BOOLEAN]

DashInit ==
  /\ DynInit /\ PasskeyInit
  /\ sessions = <<>> /\ bearers = <<>>
  /\ requests = [r \in Slot |-> Idle]
  /\ opened = 0 /\ issued = 0
  /\ signedOut = {} /\ doors = {}

Without(f, x)  == [y \in DOMAIN f \ {x} |-> f[y]]
With(f, x, v)  == [y \in DOMAIN f \cup {x} |-> IF y = x THEN v ELSE f[y]]

-----------------------------------------------------------------------------
(***************************************************************************)
(* The token store, as the panel uses it.                                  *)
(***************************************************************************)
\* _bearer_live: its time has not passed, and the store still knows it.
bearer_valid(s) == sessions[s].valid
Live(s)         == bearer_valid(s) /\ sessions[s].bearer \in DOMAIN bearers

issue(old, c, s, named) ==
  /\ issued < MaxBearer
  /\ issued' = issued + 1
  /\ bearers' = With(old, issued + 1,
                     [client |-> c, session |-> s, named |-> named, ending |-> FALSE,
                      replaced |-> FALSE])

Named(c) == {b \in DOMAIN bearers : bearers[b].named /\ bearers[b].client = c}

\* revoke: a last grace, during which the bearer still answers.
revoke_bearer(b) ==
  bearers' = IF b \in DOMAIN bearers THEN [bearers EXCEPT ![b].ending = TRUE] ELSE bearers

TimeUp(b) ==
  sessions' = [s \in DOMAIN sessions |->
                 IF sessions[s].bearer = b THEN [sessions[s] EXCEPT !.valid = FALSE]
                                           ELSE sessions[s]]

\* The bearer's grace or its day is over; the row knows only of the day.  A
\* bearer the store has lost still has its day in the row.
bearer_expires(b) ==
  /\ b \in DOMAIN bearers
  /\ bearers' = Without(bearers, b)
  /\ IF bearers[b].ending THEN UNCHANGED sessions ELSE TimeUp(b)
  /\ UNCHANGED <<dynVars, passkeyVars, requests, opened, issued, signedOut, doors>>

row_expires(s) ==
  /\ sessions[s].valid /\ sessions[s].bearer \notin DOMAIN bearers
  /\ TimeUp(sessions[s].bearer)
  /\ UNCHANGED <<dynVars, passkeyVars, bearers, requests, opened, issued, signedOut, doors>>

\* security_end_session, called through the panel with the session's bearer
security_end_session(s) ==
  /\ Live(s)
  /\ revoke_bearer(sessions[s].bearer)
  /\ UNCHANGED <<dynVars, passkeyVars, sessions, requests, opened, issued, signedOut, doors>>

\* ClientStore.verify with the client's own secret, and check_totp: a client
\* that delegates needs its owner, which needs a seed of its own.
verify(c) == c \in DOMAIN clients

HasCode(c) ==
  /\ c \in DOMAIN clients
  /\ clients[c] # NoOne => clients[c] \in Owner \cap DOMAIN clients

-----------------------------------------------------------------------------
(***************************************************************************)
(* Sign-in.                                                                *)
(***************************************************************************)
_start_session(c) ==
  /\ opened < MaxSession
  /\ opened' = opened + 1
  /\ issue(bearers, c, opened + 1, FALSE)
  /\ sessions' = With(sessions, opened + 1, [client |-> c, bearer |-> issued + 1, valid |-> TRUE])

login_post(c) ==
  /\ verify(c) /\ HasCode(c)
  /\ _start_session(c)
  /\ UNCHANGED <<dynVars, passkeyVars, requests, signedOut, doors>>

api_passkeys_auth_options(c) ==
  /\ verify(c)
  /\ authentication_options(c)
  /\ UNCHANGED <<dynVars, panelVars>>

\* _passkey_owner
_passkey_owner(c) == IF c \in DOMAIN clients /\ clients[c] # NoOne THEN clients[c] ELSE c

Door(st, k, c, guard) ==
  doors' = doors \cup {[nr |-> Cardinality(doors) + 1, state |-> st, holder |-> passkeys[k],
                        asked |-> challenges[st].client, guard |-> guard, client |-> c]}

\* The secret is verified again; the credential must be this client's.
api_passkeys_auth_verify(c, st, k) ==
  /\ verify(c)
  /\ verify_authentication(st, k)
  /\ IF passkeys[k] = c
       THEN /\ _start_session(c)
            /\ Door(st, k, c, c)
       ELSE UNCHANGED <<sessions, bearers, opened, issued, doors>>
  /\ UNCHANGED <<dynVars, requests, signedOut>>

\* The same ceremony on the authorize page, for the client or its owner's.
oauth_passkey_options(c) ==
  /\ c \in DOMAIN clients
  /\ authentication_options(_passkey_owner(c))
  /\ UNCHANGED <<dynVars, panelVars>>

oauth_passkey_verify(c, st, k) ==
  /\ c \in DOMAIN clients
  /\ verify_authentication(st, k)
  /\ IF passkeys[k] = _passkey_owner(c) THEN Door(st, k, c, _passkey_owner(c))
                                        ELSE UNCHANGED doors
  /\ UNCHANGED <<dynVars, sessions, bearers, requests, opened, issued, signedOut>>

\* An approval that waits on the authorize page may enrol a passkey; it may
\* have outlived its client.
oauth_passkey_register_options(c) ==
  /\ c \in Owner \cup 1..made
  /\ registration_options(_passkey_owner(c), NoSession)
  /\ UNCHANGED <<dynVars, panelVars>>

oauth_passkey_register_verify(st, k) ==
  /\ verify_registration(st, k, NoSession)
  /\ UNCHANGED <<dynVars, panelVars>>

\* A ceremony is refused (wrong page, wrong session, unknown credential, a
\* signature the library does not accept), or its challenge expires.
passkey_refused(st) ==
  /\ ceremony_refused(st)
  /\ UNCHANGED <<dynVars, panelVars>>

-----------------------------------------------------------------------------
(***************************************************************************)
(* What a session may do.  _load_session drops a row that has expired and  *)
(* leaves its bearer alone.                                                *)
(***************************************************************************)
load_expired(s) ==
  /\ s \in DOMAIN sessions
  /\ sessions' = Without(sessions, s)
  /\ UNCHANGED <<dynVars, passkeyVars, bearers, requests, opened, issued, signedOut, doors>>

(***************************************************************************)
(* The pages: each is served or sends the browser on to another.  engine   *)
(* tells whether the chat is configured.                                   *)
(***************************************************************************)
SignedIn(s) == s \in DOMAIN sessions

_default_landing(engine) == IF engine THEN "chat" ELSE "tokens"

IfLive(s, page) ==
  CASE ~SignedIn(s)             -> "login"
    [] SignedIn(s) /\ Live(s)   -> page
    [] SignedIn(s) /\ ~Live(s)  -> "refresh"

login_get(s, engine) == IfLive(s, _default_landing(engine))

refresh_getBug(s, engine) ==
  IF SignedIn(s) /\ bearer_valid(s) THEN _default_landing(engine) ELSE IfLive(s, "tokens")
refresh_get(s, engine) == IfLive(s, _default_landing(engine))

tokens_get(s) == IfLive(s, "tokens")

chat_get(s, engine) == IfLive(s, IF engine THEN "chat" ELSE "tokens")

\* dcr: whether there is a store of links
connectors_get(s, dcr) == IF dcr THEN IfLive(s, "connectors") ELSE "tokens"

Get(page, s, engine, dcr) ==
  CASE page = "login"   -> login_get(s, engine)
    [] page = "refresh" -> refresh_get(s, engine)
    [] page = "tokens"  -> tokens_get(s)
    [] page = "chat"    -> chat_get(s, engine)
    [] page = "connectors" -> connectors_get(s, dcr)

\* The part before the await is the same for all of them: only refreshing asks
\* for no live bearer.  Which handler it was shows when it resumes.
panel_request(r, op, s) ==
  /\ requests[r] = Idle
  /\ s \in DOMAIN sessions
  /\ op = "panel" => Live(s)
  /\ requests' = [requests EXCEPT ![r] = [op |-> op, session |-> s,
                                          client |-> sessions[s].client]]
  /\ UNCHANGED <<dynVars, passkeyVars, sessions, bearers, opened, issued, signedOut, doors>>

Resume(r, op) ==
  /\ requests[r].op = op
  /\ requests' = [requests EXCEPT ![r] = Idle]

\* A wrong or spent code, an empty field, a failed CSRF check: no effect.
turned_down(r) ==
  /\ requests[r] # Idle
  /\ requests' = [requests EXCEPT ![r] = Idle]
  /\ UNCHANGED <<dynVars, passkeyVars, sessions, bearers, opened, issued, signedOut, doors>>

\* The stored secret must still be there and still be right; if not, the row
\* goes.  The bearer that is replaced is not revoked.
SecretBug(r) == verify(requests[r].client)
Secret(r)    == requests[r].session \in DOMAIN sessions /\ verify(requests[r].client)

update_bearer(s, b) ==
  sessions' = IF s \in DOMAIN sessions THEN [sessions EXCEPT ![s].bearer = b, ![s].valid = TRUE]
                                       ELSE sessions

Replaced(s) ==
  [b \in DOMAIN bearers |->
     IF s \in DOMAIN sessions /\ sessions[s].bearer = b
       THEN [bearers[b] EXCEPT !.replaced = TRUE] ELSE bearers[b]]

refresh_post(r) ==
  LET s == requests[r].session
      c == requests[r].client
  IN  /\ Resume(r, "refresh")
      /\ HasCode(c)
      /\ IF Secret(r)
           THEN /\ issue(Replaced(s), c, s, FALSE)
                /\ update_bearer(s, issued + 1)
           ELSE /\ sessions' = Without(sessions, s)
                /\ UNCHANGED <<bearers, issued>>
      /\ UNCHANGED <<dynVars, passkeyVars, opened, signedOut, doors>>

logout(s) ==
  /\ s \in DOMAIN sessions
  /\ sessions' = Without(sessions, s)
  /\ revoke_bearer(sessions[s].bearer)
  /\ signedOut' = signedOut \cup {s}
  /\ UNCHANGED <<dynVars, passkeyVars, requests, opened, issued, doors>>

tokens_create(r) ==
  LET c == requests[r].client
  IN  /\ Resume(r, "panel")
      /\ HasCode(c)
      /\ Cardinality(Named(c)) < NAMED_TOKEN_CAP
      /\ issue(bearers, c, requests[r].session, TRUE)
      /\ UNCHANGED <<dynVars, passkeyVars, sessions, opened, signedOut, doors>>

tokens_revoke(r, b) ==
  /\ Resume(r, "panel")
  /\ b \in Named(requests[r].client)
  /\ revoke_bearer(b)
  /\ UNCHANGED <<dynVars, passkeyVars, sessions, opened, issued, signedOut, doors>>

connectors_mint(r) ==
  /\ Resume(r, "panel")
  /\ HasCode(requests[r].client)
  /\ mint(requests[r].client)
  /\ UNCHANGED <<passkeyVars, clients, made, registered, stray, sessions, bearers, opened,
                 issued, signedOut, doors>>

connectors_slug_delete(r, s) ==
  /\ Resume(r, "panel")
  /\ delete_unused(s, requests[r].client)
  /\ UNCHANGED <<passkeyVars, clients, made, minted, registered, stray, sessions, bearers,
                 opened, issued, signedOut, doors>>

\* Only clients that delegate to the session's own.
connectors_revoke(r, d) ==
  /\ Resume(r, "panel")
  /\ d \in DOMAIN clients /\ clients[d] = requests[r].client
  /\ revoke(d)
  /\ UNCHANGED <<passkeyVars, slugs, made, minted, registered, stray, sessions, bearers,
                 opened, issued, signedOut, doors>>

api_passkeys_register_options(r) ==
  /\ Resume(r, "panel")
  /\ registration_options(requests[r].client, requests[r].session)
  /\ UNCHANGED <<dynVars, sessions, bearers, opened, issued, signedOut, doors>>

api_passkeys_register_verify(r, st, k) ==
  /\ Resume(r, "panel")
  /\ verify_registration(st, k, requests[r].session)
  /\ UNCHANGED <<dynVars, sessions, bearers, opened, issued, signedOut, doors>>

\* api_passkeys_delete and its form twin passkeys_remove
api_passkeys_delete(r, k) ==
  /\ Resume(r, "panel")
  /\ delete_passkey(k, requests[r].client)
  /\ UNCHANGED <<dynVars, sessions, bearers, opened, issued, signedOut, doors>>

-----------------------------------------------------------------------------
(***************************************************************************)
(* Registration of a connector through a link, in the same process.        *)
(***************************************************************************)
dcr_request(r, s) ==
  /\ requests[r] = Idle
  /\ load_slug(s)
  /\ requests' = [requests EXCEPT ![r] = [op |-> "dcr", slug |-> s, owner |-> slugs[s].owner]]
  /\ UNCHANGED <<dynVars, passkeyVars, sessions, bearers, opened, issued, signedOut, doors>>

dcr_answer(r) ==
  /\ Resume(r, "dcr")
  /\ dcr_register(requests[r].slug, requests[r].owner)
  /\ UNCHANGED <<passkeyVars, sessions, bearers, opened, issued, signedOut, doors>>

\* A restart keeps the rows and the named tokens.
Reboot ==
  /\ bearers' = [b \in {x \in DOMAIN bearers : bearers[x].named /\ ~bearers[x].ending} |-> bearers[b]]
  /\ requests' = [r \in Slot |-> Idle]
  /\ challenges_lost
  /\ UNCHANGED <<sessions, opened, issued, signedOut, doors>>

restart == Reboot /\ UNCHANGED dynVars

dcr_dies(r) ==
  /\ requests[r].op = "dcr"
  /\ dcr_register_dies(requests[r].slug, requests[r].owner)
  /\ Reboot

\* `beaconmcp auth revoke', which the server sees at its next look at the file
auth_revoke(c) ==
  /\ c \in DOMAIN clients
  /\ revoke(c)
  /\ UNCHANGED <<passkeyVars, panelVars, slugs, made, minted, registered, stray>>

link_expires(s) ==
  /\ slug_expires(s)
  /\ UNCHANGED <<passkeyVars, panelVars>>

Step ==
  \/ \E c \in Client :
       \/ login_post(c) \/ api_passkeys_auth_options(c) \/ oauth_passkey_options(c)
       \/ oauth_passkey_register_options(c) \/ auth_revoke(c)
       \/ \E st \in DOMAIN challenges, k \in Key :
            api_passkeys_auth_verify(c, st, k) \/ oauth_passkey_verify(c, st, k)
  \/ \E st \in DOMAIN challenges :
       passkey_refused(st) \/ \E k \in Key : oauth_passkey_register_verify(st, k)
  \/ \E s \in DOMAIN sessions : load_expired(s) \/ logout(s) \/ row_expires(s) \/ security_end_session(s)
  \/ \E b \in DOMAIN bearers : bearer_expires(b)
  \/ \E s \in DOMAIN slugs : link_expires(s)
  \/ \E r \in Slot :
       \/ turned_down(r) \/ refresh_post(r) \/ tokens_create(r) \/ connectors_mint(r)
       \/ api_passkeys_register_options(r) \/ dcr_answer(r) \/ dcr_dies(r)
       \/ \E s \in DOMAIN sessions, op \in {"panel", "refresh"} : panel_request(r, op, s)
       \/ \E s \in DOMAIN slugs : dcr_request(r, s) \/ connectors_slug_delete(r, s)
       \/ \E b \in DOMAIN bearers : tokens_revoke(r, b)
       \/ \E d \in DOMAIN clients : connectors_revoke(r, d)
       \/ \E k \in DOMAIN passkeys : api_passkeys_delete(r, k)
       \/ \E st \in DOMAIN challenges, k \in Key : api_passkeys_register_verify(r, st, k)
  \/ restart

DashNext == Step /\ made' + minted' + started' + opened' + issued' <= MaxFresh

DashSpec == DashInit /\ [][DashNext]_dashVars

-----------------------------------------------------------------------------
(***************************************************************************)
(* Properties.                                                             *)
(***************************************************************************)
\* A link hands out credentials at most once, whoever races for it, deletes it
\* or crashes on the way; every registered client was either answered for or
\* left behind by a crash, so a race that was lost leaves nothing.
LinkHandsOutOnce ==
  /\ \A x, y \in registered : x.slug = y.slug => x = y
  /\ \A x \in registered : slugs[x.slug].status = "used" /\ slugs[x.slug].client = x.client
  /\ DOMAIN clients \cap Derived \subseteq {x.client : x \in registered} \cup stray

\* Signing out ends the session for good: the row stays gone and no handler
\* that was suspended meanwhile gives it a new bearer.  A bearer of it that is
\* not ending is one an earlier refresh replaced.
SignedOutStaysOut ==
  \A s \in signedOut :
    /\ s \notin DOMAIN sessions
    /\ \A b \in DOMAIN bearers :
         bearers[b].session = s /\ ~bearers[b].named => bearers[b].ending \/ bearers[b].replaced

\* A client that was revoked gains nothing more, whichever of its handlers was
\* under way: no bearer, no session, no link and no derived client.
RevokedGainsNothing ==
  [][\A c \in Client \ DOMAIN clients :
       /\ \A b \in DOMAIN bearers' \ DOMAIN bearers : bearers'[b].client # c
       /\ \A s \in DOMAIN sessions' \ DOMAIN sessions : sessions'[s].client # c
       /\ \A s \in DOMAIN slugs' \ DOMAIN slugs : slugs'[s].owner # c
       /\ \A d \in DOMAIN clients' \ DOMAIN clients : clients'[d] # c]_dashVars

\* A challenge opens one door, and a passkey only the door of the client it is
\* registered for or of one that delegates to it.
PasskeyOpensOwnDoor ==
  \A d \in doors :
    /\ d.holder = d.guard /\ d.asked = d.guard
    /\ \A e \in doors : e.state = d.state => e = d

\* A browser that follows the redirects of any page is served one, also when the
\* store has lost or revoked a bearer whose row still looks valid.
BrowserSettles ==
  \A s \in Session, engine, dcr \in BOOLEAN,
     page \in {"login", "refresh", "tokens", "chat", "connectors"} :
    LET last == Get(Get(page, s, engine, dcr), s, engine, dcr)
    IN  Get(last, s, engine, dcr) = last

\* The cap is passed only by registrations of one client that overlap.
CapUnlessOverlap ==
  \A c \in Client : Cardinality(list_for_client(c)) > MAX_PASSKEYS_PER_CLIENT => c \in overlapped
=============================================================================
