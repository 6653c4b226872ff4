-------------------------- MODULE DashboardProofs --------------------------
(***************************************************************************)
(* What is proved of the control panel, for any number of owners, keys,    *)
(* suspended requests and ids.                                             *)
(*                                                                         *)
(* The inductive invariant DashGood has one part per table.  RequestsGood  *)
(* is what a suspended handler still knows after its await: an id that was *)
(* given out, not one that is still there.  SessionsGood explains why a    *)
(* suspended refresh cannot undo a sign-out: a bearer without a name that  *)
(* is neither ending nor replaced is the current bearer of its row, or its *)
(* row has expired.  CapGood counts the registrations under way: unless    *)
(* they overlapped, a client has at most one, and then a free place.       *)
(* Each part is kept by every step; the steps that leave its variables     *)
(* alone are discharged by the first step of each proof.                   *)
(* RegistryMove, PasskeyMove and NamedMove say once what the handlers can  *)
(* do to the registry, the passkeys and the named tokens.  On them rest    *)
(* the two caps, and that the registry changes as ClientStore says.        *)
(***************************************************************************)
EXTENDS Dashboard, TLAPS, FiniteSetTheorems

\* The registry: derived ids are the ones that were given out.
ClientsGood ==
  /\ made \in 0..MaxDerived
  /\ DOMAIN clients \subseteq Client
  /\ DOMAIN clients \cap Derived \subseteq 1..made
  /\ \A c \in DOMAIN clients : clients[c] \in Client \cup {NoOne}

\* What a suspended handler holds was valid when it was read.
RequestsGood ==
  /\ DOMAIN requests = Slot
  /\ \A r \in Slot :
       /\ requests[r].op \in {"idle", "panel", "refresh", "dcr"}
       /\ requests[r].op \in {"panel", "refresh"} =>
            requests[r].session \in 1..opened /\ requests[r].client \in Client
       /\ requests[r].op = "dcr" =>
            requests[r].slug \in 1..minted /\ requests[r].owner \in Client

\* Links and what they handed out.
LinksGood ==
  /\ minted \in 0..MaxSlug
  /\ slugs \in [1..minted -> SlugRow]
  /\ registered \subseteq [slug : 1..minted, client : Derived]
  /\ stray \subseteq Derived
  /\ LinkHandsOutOnce

SessionRow == [client : Client, bearer : Bearer, valid : BOOLEAN]
BearerRow  == [client : Client, session : Session, named : BOOLEAN, ending : BOOLEAN,
               replaced : BOOLEAN]

\* A bearer that is not, or no longer, the current one of a session.
Over(b) == bearers[b].named \/ bearers[b].ending \/ bearers[b].replaced

SessionsGood ==
  /\ opened \in 0..MaxSession /\ issued \in 0..MaxBearer
  /\ \A s \in DOMAIN sessions : s \in 1..opened /\ sessions[s] \in SessionRow
  /\ \A b \in DOMAIN bearers :
       b \in 1..issued /\ bearers[b] \in BearerRow /\ bearers[b].session <= opened
  /\ \A s \in signedOut : s \in 1..opened /\ s \notin DOMAIN sessions
  /\ \A b \in DOMAIN bearers :
       \/ Over(b)
       \/ /\ bearers[b].session \notin signedOut
          /\ bearers[b].session \in DOMAIN sessions =>
               sessions[bearers[b].session].bearer = b

\* A door that was opened has spent its challenge.
DoorsGood ==
  /\ started \in 0..MaxChallenge
  /\ \A k \in DOMAIN passkeys : passkeys[k] \in Client
  /\ \A st \in DOMAIN challenges :
       /\ st \in 1..started
       /\ challenges[st] \in [purpose : {"register", "authenticate"}, client : Client,
                              session : Session \cup {NoSession}]
  /\ \A d \in doors : d.state \in 1..started /\ d.state \notin DOMAIN challenges
  /\ PasskeyOpensOwnDoor

\* Registrations under way and the cap.
CapGood ==
  /\ IsFiniteSet(DOMAIN passkeys)
  /\ \A c \in Client \ overlapped :
       \/ /\ Registering(c) = {}
          /\ Cardinality(list_for_client(c)) <= MAX_PASSKEYS_PER_CLIENT
       \/ /\ \E st \in DOMAIN challenges : Registering(c) = {st}
          /\ Cardinality(list_for_client(c)) < MAX_PASSKEYS_PER_CLIENT

\* What a step gives to client c: nothing.
GainsNothingOf(c) ==
  /\ \A b \in DOMAIN bearers' \ DOMAIN bearers : bearers'[b].client # c
  /\ \A s \in DOMAIN sessions' \ DOMAIN sessions : sessions'[s].client # c
  /\ \A s \in DOMAIN slugs' \ DOMAIN slugs : slugs'[s].owner # c
  /\ \A d \in DOMAIN clients' \ DOMAIN clients : clients'[d] # c

GainsNothing == \A c \in Client \ DOMAIN clients : GainsNothingOf(c)

\* Taking a key out of a table leaves the other rows.
LEMMA WithoutKey ==
  ASSUME NEW f, NEW x
  PROVE  /\ DOMAIN Without(f, x) = DOMAIN f \ {x}
         /\ \A y \in DOMAIN f \ {x} : Without(f, x)[y] = f[y]
BY DEF Without

\* The steps of the registry: nothing, a client of the registry is revoked, or
\* one is created for an owner that is there.
RegistryMove ==
  \/ UNCHANGED <<clients, made>>
  \/ UNCHANGED made /\ \E c \in DOMAIN clients : revoke(c)
  \/ \E owner \in Client : CanCreate(owner) /\ create_dynamic(owner, made + 1)

\* Only create_dynamic adds to the registry, only revoke removes from it.
LEMMA RegistryMoves ==
  ASSUME RequestsGood, [DashNext]_dashVars
  PROVE  RegistryMove
<1> USE DEF dynVars, passkeyVars, panelVars
<1>1. ASSUME UNCHANGED <<clients, made>> PROVE RegistryMove
  BY <1>1 DEF RegistryMove
<1>2. ASSUME NEW c \in Client, login_post(c) PROVE RegistryMove
  BY <1>1, <1>2 DEF login_post
<1>3. ASSUME NEW c \in Client, api_passkeys_auth_options(c) PROVE RegistryMove
  BY <1>1, <1>3 DEF api_passkeys_auth_options
<1>4. ASSUME NEW c \in Client, oauth_passkey_options(c) PROVE RegistryMove
  BY <1>1, <1>4 DEF oauth_passkey_options
<1>5. ASSUME NEW c \in Client, oauth_passkey_register_options(c) PROVE RegistryMove
  BY <1>1, <1>5 DEF oauth_passkey_register_options
<1>6. ASSUME NEW c \in Client, auth_revoke(c) PROVE RegistryMove
  BY <1>6 DEF auth_revoke, RegistryMove
<1>7. ASSUME NEW c \in Client, NEW st \in DOMAIN challenges, NEW k \in Key,
             api_passkeys_auth_verify(c, st, k)
      PROVE RegistryMove
  BY <1>1, <1>7 DEF api_passkeys_auth_verify
<1>8. ASSUME NEW c \in Client, NEW st \in DOMAIN challenges, NEW k \in Key,
             oauth_passkey_verify(c, st, k)
      PROVE RegistryMove
  BY <1>1, <1>8 DEF oauth_passkey_verify
<1>9. ASSUME NEW st \in DOMAIN challenges, passkey_refused(st) PROVE RegistryMove
  BY <1>1, <1>9 DEF passkey_refused
<1>10. ASSUME NEW st \in DOMAIN challenges, NEW k \in Key, oauth_passkey_register_verify(st, k)
      PROVE RegistryMove
  BY <1>1, <1>10 DEF oauth_passkey_register_verify
<1>11. ASSUME NEW s \in DOMAIN sessions, load_expired(s) PROVE RegistryMove
  BY <1>1, <1>11 DEF load_expired
<1>12. ASSUME NEW s \in DOMAIN sessions, logout(s) PROVE RegistryMove
  BY <1>1, <1>12 DEF logout
<1>13. ASSUME NEW s \in DOMAIN sessions, row_expires(s) PROVE RegistryMove
  BY <1>1, <1>13 DEF row_expires
<1>14. ASSUME NEW s \in DOMAIN sessions, security_end_session(s) PROVE RegistryMove
  BY <1>1, <1>14 DEF security_end_session
<1>15. ASSUME NEW b \in DOMAIN bearers, bearer_expires(b) PROVE RegistryMove
  BY <1>1, <1>15 DEF bearer_expires
<1>16. ASSUME NEW s \in DOMAIN slugs, link_expires(s) PROVE RegistryMove
  BY <1>1, <1>16 DEF link_expires, slug_expires
<1>17. ASSUME NEW r \in Slot, turned_down(r) PROVE RegistryMove
  BY <1>1, <1>17 DEF turned_down
<1>18. ASSUME NEW r \in Slot, refresh_post(r) PROVE RegistryMove
  BY <1>1, <1>18 DEF refresh_post
<1>19. ASSUME NEW r \in Slot, tokens_create(r) PROVE RegistryMove
  BY <1>1, <1>19 DEF tokens_create
<1>20. ASSUME NEW r \in Slot, connectors_mint(r) PROVE RegistryMove
  BY <1>1, <1>20 DEF connectors_mint
<1>21. ASSUME NEW r \in Slot, api_passkeys_register_options(r) PROVE RegistryMove
  BY <1>1, <1>21 DEF api_passkeys_register_options
<1>22. ASSUME NEW r \in Slot, dcr_answer(r) PROVE RegistryMove
  <2>1. requests[r].op = "dcr" /\ requests[r].owner \in Client
    BY <1>22 DEF dcr_answer, Resume, RequestsGood
  <2>2. CASE UNCHANGED <<clients, made>>
    BY <1>1, <2>2
  <2>3. CASE create_dynamic(requests[r].owner, made + 1)
    BY <1>22, <2>1, <2>3 DEF dcr_answer, dcr_register, RegistryMove
  <2> QED BY <1>22, <2>2, <2>3 DEF dcr_answer, dcr_register
<1>23. ASSUME NEW r \in Slot, dcr_dies(r) PROVE RegistryMove
  <2>1. requests[r].op = "dcr" /\ requests[r].owner \in Client
    BY <1>23 DEF dcr_dies, RequestsGood
  <2>2. CanCreate(requests[r].owner) /\ create_dynamic(requests[r].owner, made + 1)
    BY <1>23 DEF dcr_dies, dcr_register_dies
  <2> QED BY <2>1, <2>2 DEF RegistryMove
<1>24. ASSUME NEW r \in Slot, NEW s \in DOMAIN sessions, NEW op \in {"panel", "refresh"},
             panel_request(r, op, s)
      PROVE RegistryMove
  BY <1>1, <1>24 DEF panel_request
<1>25. ASSUME NEW r \in Slot, NEW s \in DOMAIN slugs, dcr_request(r, s) PROVE RegistryMove
  BY <1>1, <1>25 DEF dcr_request
<1>26. ASSUME NEW r \in Slot, NEW s \in DOMAIN slugs, connectors_slug_delete(r, s)
      PROVE RegistryMove
  BY <1>1, <1>26 DEF connectors_slug_delete
<1>27. ASSUME NEW r \in Slot, NEW b \in DOMAIN bearers, tokens_revoke(r, b) PROVE RegistryMove
  BY <1>1, <1>27 DEF tokens_revoke
<1>28. ASSUME NEW r \in Slot, NEW d \in DOMAIN clients, connectors_revoke(r, d)
      PROVE RegistryMove
  BY <1>28 DEF connectors_revoke, RegistryMove
<1>29. ASSUME NEW r \in Slot, NEW k \in DOMAIN passkeys, api_passkeys_delete(r, k)
      PROVE RegistryMove
  BY <1>1, <1>29 DEF api_passkeys_delete
<1>30. ASSUME NEW r \in Slot, NEW st \in DOMAIN challenges, NEW k \in Key,
             api_passkeys_register_verify(r, st, k)
      PROVE RegistryMove
  BY <1>1, <1>30 DEF api_passkeys_register_verify
<1>31. CASE restart
  BY <1>1, <1>31 DEF restart
<1>32. CASE UNCHANGED dashVars
  BY <1>1, <1>32 DEF dashVars
<1> QED BY <1>2, <1>3, <1>4, <1>5, <1>6, <1>7, <1>8, <1>9, <1>10, <1>11, <1>12, <1>13, <1>14,
         <1>15, <1>16, <1>17, <1>18, <1>19, <1>20, <1>21, <1>22, <1>23, <1>24, <1>25, <1>26,
         <1>27, <1>28, <1>29, <1>30, <1>31, <1>32
        DEF DashNext, Step

\* The registry is kept.
LEMMA ClientsKept ==
  ASSUME ClientsGood, RequestsGood, [DashNext]_dashVars
  PROVE  ClientsGood'
<1>1. CASE UNCHANGED <<clients, made>>
  BY <1>1 DEF ClientsGood
<1>2. ASSUME NEW c \in DOMAIN clients, UNCHANGED made, revoke(c) PROVE ClientsGood'
  BY <1>2 DEF revoke, ClientsGood
<1>3. ASSUME NEW owner \in Client, create_dynamic(owner, made + 1) PROVE ClientsGood'
  BY <1>3 DEF create_dynamic, ClientsGood, Client, Derived
<1> QED BY <1>1, <1>2, <1>3, RegistryMoves DEF RegistryMove

\* Suspended handlers keep what they read.
LEMMA RequestsKept ==
  ASSUME RequestsGood, ClientsGood, SessionsGood, LinksGood, [DashNext]_dashVars
  PROVE  RequestsGood'
<1> USE DEF dynVars, passkeyVars, panelVars
<1>1. ASSUME UNCHANGED <<requests, opened, minted>> PROVE RequestsGood'
  BY <1>1 DEF RequestsGood
<1>2. ASSUME NEW c \in Client, login_post(c) PROVE RequestsGood'
  <2>1. opened' = opened + 1 /\ opened \in Nat /\ UNCHANGED <<requests, minted>>
    BY <1>2 DEF login_post, _start_session, SessionsGood
  <2> QED BY <2>1 DEF RequestsGood
<1>3. ASSUME NEW c \in Client, api_passkeys_auth_options(c) PROVE RequestsGood'
  BY <1>1, <1>3 DEF api_passkeys_auth_options
<1>4. ASSUME NEW c \in Client, oauth_passkey_options(c) PROVE RequestsGood'
  BY <1>1, <1>4 DEF oauth_passkey_options
<1>5. ASSUME NEW c \in Client, oauth_passkey_register_options(c) PROVE RequestsGood'
  BY <1>1, <1>5 DEF oauth_passkey_register_options
<1>6. ASSUME NEW c \in Client, auth_revoke(c) PROVE RequestsGood'
  BY <1>1, <1>6 DEF auth_revoke
<1>7. ASSUME NEW c \in Client, NEW st \in DOMAIN challenges, NEW k \in Key,
             api_passkeys_auth_verify(c, st, k)
      PROVE RequestsGood'
  <2>1. CASE passkeys[k] = c
    <3>1. opened' = opened + 1 /\ opened \in Nat /\ UNCHANGED <<requests, minted>>
      BY <1>7, <2>1 DEF api_passkeys_auth_verify, _start_session, SessionsGood
    <3> QED BY <3>1 DEF RequestsGood
  <2>2. CASE passkeys[k] # c
    BY <1>1, <1>7, <2>2 DEF api_passkeys_auth_verify
  <2> QED BY <2>1, <2>2
<1>8. ASSUME NEW c \in Client, NEW st \in DOMAIN challenges, NEW k \in Key,
             oauth_passkey_verify(c, st, k)
      PROVE RequestsGood'
  BY <1>1, <1>8 DEF oauth_passkey_verify
<1>9. ASSUME NEW st \in DOMAIN challenges, passkey_refused(st) PROVE RequestsGood'
  BY <1>1, <1>9 DEF passkey_refused
<1>10. ASSUME NEW st \in DOMAIN challenges, NEW k \in Key, oauth_passkey_register_verify(st, k)
      PROVE RequestsGood'
  BY <1>1, <1>10 DEF oauth_passkey_register_verify
<1>11. ASSUME NEW s \in DOMAIN sessions, load_expired(s) PROVE RequestsGood'
  BY <1>1, <1>11 DEF load_expired
<1>12. ASSUME NEW s \in DOMAIN sessions, logout(s) PROVE RequestsGood'
  BY <1>1, <1>12 DEF logout
<1>13. ASSUME NEW s \in DOMAIN sessions, row_expires(s) PROVE RequestsGood'
  BY <1>1, <1>13 DEF row_expires
<1>14. ASSUME NEW s \in DOMAIN sessions, security_end_session(s) PROVE RequestsGood'
  BY <1>1, <1>14 DEF security_end_session
<1>15. ASSUME NEW b \in DOMAIN bearers, bearer_expires(b) PROVE RequestsGood'
  BY <1>1, <1>15 DEF bearer_expires
<1>16. ASSUME NEW s \in DOMAIN slugs, link_expires(s) PROVE RequestsGood'
  BY <1>1, <1>16 DEF link_expires, slug_expires
<1>17. ASSUME NEW r \in Slot, turned_down(r) PROVE RequestsGood'
  <2>1. requests' = [requests EXCEPT ![r] = Idle] /\ UNCHANGED <<opened, minted>>
    BY <1>17 DEF turned_down, Idle
  <2> QED BY <2>1 DEF RequestsGood, Idle
<1>18. ASSUME NEW r \in Slot, refresh_post(r) PROVE RequestsGood'
  <2>1. requests' = [requests EXCEPT ![r] = Idle] /\ UNCHANGED <<opened, minted>>
    BY <1>18 DEF refresh_post, Resume
  <2> QED BY <2>1 DEF RequestsGood, Idle
<1>19. ASSUME NEW r \in Slot, tokens_create(r) PROVE RequestsGood'
  <2>1. requests' = [requests EXCEPT ![r] = Idle] /\ UNCHANGED <<opened, minted>>
    BY <1>19 DEF tokens_create, Resume
  <2> QED BY <2>1 DEF RequestsGood, Idle
<1>20. ASSUME NEW r \in Slot, connectors_mint(r) PROVE RequestsGood'
  <2>1. /\ requests' = [requests EXCEPT ![r] = Idle]
        /\ minted' = minted + 1 /\ minted \in Nat /\ UNCHANGED opened
    BY <1>20 DEF connectors_mint, Resume, mint, LinksGood
  <2> QED BY <2>1 DEF RequestsGood, Idle
<1>21. ASSUME NEW r \in Slot, api_passkeys_register_options(r) PROVE RequestsGood'
  <2>1. requests' = [requests EXCEPT ![r] = Idle] /\ UNCHANGED <<opened, minted>>
    BY <1>21 DEF api_passkeys_register_options, Resume
  <2> QED BY <2>1 DEF RequestsGood, Idle
<1>22. ASSUME NEW r \in Slot, dcr_answer(r) PROVE RequestsGood'
  <2>1. requests' = [requests EXCEPT ![r] = Idle] /\ UNCHANGED <<opened, minted>>
    BY <1>22 DEF dcr_answer, Resume, dcr_register
  <2> QED BY <2>1 DEF RequestsGood, Idle
<1>23. ASSUME NEW r \in Slot, dcr_dies(r) PROVE RequestsGood'
  <2>1. requests' = [q \in Slot |-> Idle] /\ UNCHANGED <<opened, minted>>
    BY <1>23 DEF dcr_dies, Reboot, dcr_register_dies
  <2> QED BY <2>1 DEF RequestsGood, Idle
<1>24. ASSUME NEW r \in Slot, NEW s \in DOMAIN sessions, NEW op \in {"panel", "refresh"},
             panel_request(r, op, s)
      PROVE RequestsGood'
  <2>1. requests' = [requests EXCEPT ![r] = [op |-> op, session |-> s, client |-> sessions[s].client]]
        /\ s \in 1..opened /\ sessions[s].client \in Client /\ UNCHANGED <<opened, minted>>
    BY <1>24 DEF panel_request, SessionsGood, SessionRow
  <2> QED BY <2>1 DEF RequestsGood
<1>25. ASSUME NEW r \in Slot, NEW s \in DOMAIN slugs, dcr_request(r, s) PROVE RequestsGood'
  <2>1. requests' = [requests EXCEPT ![r] = [op |-> "dcr", slug |-> s, owner |-> slugs[s].owner]]
        /\ s \in 1..minted /\ slugs[s].owner \in Client /\ UNCHANGED <<opened, minted>>
    BY <1>25 DEF dcr_request, LinksGood, SlugRow
  <2> QED BY <2>1 DEF RequestsGood
<1>26. ASSUME NEW r \in Slot, NEW s \in DOMAIN slugs, connectors_slug_delete(r, s)
      PROVE RequestsGood'
  <2>1. requests' = [requests EXCEPT ![r] = Idle] /\ UNCHANGED <<opened, minted>>
    BY <1>26 DEF connectors_slug_delete, Resume
  <2> QED BY <2>1 DEF RequestsGood, Idle
<1>27. ASSUME NEW r \in Slot, NEW b \in DOMAIN bearers, tokens_revoke(r, b) PROVE RequestsGood'
  <2>1. requests' = [requests EXCEPT ![r] = Idle] /\ UNCHANGED <<opened, minted>>
    BY <1>27 DEF tokens_revoke, Resume
  <2> QED BY <2>1 DEF RequestsGood, Idle
<1>28. ASSUME NEW r \in Slot, NEW d \in DOMAIN clients, connectors_revoke(r, d)
      PROVE RequestsGood'
  <2>1. requests' = [requests EXCEPT ![r] = Idle] /\ UNCHANGED <<opened, minted>>
    BY <1>28 DEF connectors_revoke, Resume
  <2> QED BY <2>1 DEF RequestsGood, Idle
<1>29. ASSUME NEW r \in Slot, NEW k \in DOMAIN passkeys, api_passkeys_delete(r, k)
      PROVE RequestsGood'
  <2>1. requests' = [requests EXCEPT ![r] = Idle] /\ UNCHANGED <<opened, minted>>
    BY <1>29 DEF api_passkeys_delete, Resume
  <2> QED BY <2>1 DEF RequestsGood, Idle
<1>30. ASSUME NEW r \in Slot, NEW st \in DOMAIN challenges, NEW k \in Key,
             api_passkeys_register_verify(r, st, k)
      PROVE RequestsGood'
  <2>1. requests' = [requests EXCEPT ![r] = Idle] /\ UNCHANGED <<opened, minted>>
    BY <1>30 DEF api_passkeys_register_verify, Resume
  <2> QED BY <2>1 DEF RequestsGood, Idle
<1>31. CASE restart
  <2>1. requests' = [r \in Slot |-> Idle] /\ UNCHANGED <<opened, minted>>
    BY <1>31 DEF restart, Reboot
  <2> QED BY <2>1 DEF RequestsGood, Idle
<1>32. CASE UNCHANGED dashVars
  BY <1>1, <1>32 DEF dashVars
<1> QED BY <1>2, <1>3, <1>4, <1>5, <1>6, <1>7, <1>8, <1>9, <1>10, <1>11, <1>12, <1>13, <1>14,
         <1>15, <1>16, <1>17, <1>18, <1>19, <1>20, <1>21, <1>22, <1>23, <1>24, <1>25, <1>26,
         <1>27, <1>28, <1>29, <1>30, <1>31, <1>32
        DEF DashNext, Step

\* The status of a link moves on, and a link that was used stays as it is.
LEMMA LinksMove ==
  ASSUME LinksGood, slugs' \in [1..minted' -> SlugRow], minted' \in minted..MaxSlug,
         \A s \in 1..minted : slugs[s].status = "used" => slugs'[s] = slugs[s],
         DOMAIN clients' \subseteq DOMAIN clients, UNCHANGED <<registered, stray>>
  PROVE  LinksGood'
<1>1. minted' \in 0..MaxSlug /\ 1..minted \subseteq 1..minted'
  BY DEF LinksGood
<1>2. registered \subseteq [slug : 1..minted', client : Derived]
  BY <1>1 DEF LinksGood
<1>3. \A x \in registered : x.slug \in 1..minted
  BY DEF LinksGood
<1>4. LinkHandsOutOnce'
  BY <1>3 DEF LinksGood, LinkHandsOutOnce
<1> QED BY <1>1, <1>2, <1>4 DEF LinksGood

\* Links are kept by every step.
LEMMA LinksKept ==
  ASSUME LinksGood, ClientsGood, RequestsGood, [DashNext]_dashVars
  PROVE  LinksGood'
<1> USE DEF dynVars, passkeyVars, panelVars
<1>1. ASSUME UNCHANGED <<dynVars>> PROVE LinksGood'
  BY <1>1 DEF LinksGood, LinkHandsOutOnce
<1>2. ASSUME NEW c \in Client, login_post(c) PROVE LinksGood'
  BY <1>1, <1>2 DEF login_post
<1>3. ASSUME NEW c \in Client, api_passkeys_auth_options(c) PROVE LinksGood'
  BY <1>1, <1>3 DEF api_passkeys_auth_options
<1>4. ASSUME NEW c \in Client, oauth_passkey_options(c) PROVE LinksGood'
  BY <1>1, <1>4 DEF oauth_passkey_options
<1>5. ASSUME NEW c \in Client, oauth_passkey_register_options(c) PROVE LinksGood'
  BY <1>1, <1>5 DEF oauth_passkey_register_options
<1>6. ASSUME NEW c \in Client, auth_revoke(c) PROVE LinksGood'
  <2>1. DOMAIN clients' \subseteq DOMAIN clients /\ UNCHANGED <<slugs, minted, registered, stray>>
    BY <1>6 DEF auth_revoke, revoke
  <2>2. slugs' \in [1..minted' -> SlugRow] /\ minted' \in minted..MaxSlug
    BY <2>1 DEF LinksGood
  <2> QED BY <2>1, <2>2, LinksMove
<1>7. ASSUME NEW c \in Client, NEW st \in DOMAIN challenges, NEW k \in Key,
             api_passkeys_auth_verify(c, st, k)
      PROVE LinksGood'
  BY <1>1, <1>7 DEF api_passkeys_auth_verify
<1>8. ASSUME NEW c \in Client, NEW st \in DOMAIN challenges, NEW k \in Key,
             oauth_passkey_verify(c, st, k)
      PROVE LinksGood'
  BY <1>1, <1>8 DEF oauth_passkey_verify
<1>9. ASSUME NEW st \in DOMAIN challenges, passkey_refused(st) PROVE LinksGood'
  BY <1>1, <1>9 DEF passkey_refused
<1>10. ASSUME NEW st \in DOMAIN challenges, NEW k \in Key, oauth_passkey_register_verify(st, k)
      PROVE LinksGood'
  BY <1>1, <1>10 DEF oauth_passkey_register_verify
<1>11. ASSUME NEW s \in DOMAIN sessions, load_expired(s) PROVE LinksGood'
  BY <1>1, <1>11 DEF load_expired
<1>12. ASSUME NEW s \in DOMAIN sessions, logout(s) PROVE LinksGood'
  BY <1>1, <1>12 DEF logout
<1>13. ASSUME NEW s \in DOMAIN sessions, row_expires(s) PROVE LinksGood'
  BY <1>1, <1>13 DEF row_expires
<1>14. ASSUME NEW s \in DOMAIN sessions, security_end_session(s) PROVE LinksGood'
  BY <1>1, <1>14 DEF security_end_session
<1>15. ASSUME NEW b \in DOMAIN bearers, bearer_expires(b) PROVE LinksGood'
  BY <1>1, <1>15 DEF bearer_expires
<1>16. ASSUME NEW s \in DOMAIN slugs, link_expires(s) PROVE LinksGood'
  <2>1. /\ slugs' = [slugs EXCEPT ![s].status = "expired"] /\ slugs[s].status = "open"
        /\ UNCHANGED <<clients, minted, registered, stray>>
    BY <1>16 DEF link_expires, slug_expires
  <2>2. slugs' \in [1..minted' -> SlugRow] /\ minted' \in minted..MaxSlug
    BY <2>1 DEF LinksGood, SlugRow
  <2>3. \A u \in 1..minted : slugs[u].status = "used" => slugs'[u] = slugs[u]
    BY <2>1 DEF LinksGood
  <2> QED BY <2>1, <2>2, <2>3, LinksMove
<1>17. ASSUME NEW r \in Slot, turned_down(r) PROVE LinksGood'
  BY <1>1, <1>17 DEF turned_down
<1>18. ASSUME NEW r \in Slot, refresh_post(r) PROVE LinksGood'
  BY <1>1, <1>18 DEF refresh_post
<1>19. ASSUME NEW r \in Slot, tokens_create(r) PROVE LinksGood'
  BY <1>1, <1>19 DEF tokens_create
<1>20. ASSUME NEW r \in Slot, connectors_mint(r) PROVE LinksGood'
  <2>1. requests[r].client \in Client /\ mint(requests[r].client)
        /\ UNCHANGED <<clients, registered, stray>>
    BY <1>20 DEF connectors_mint, Resume, RequestsGood
  <2>2. PICK row : row = [owner |-> requests[r].client, status |-> "open", client |-> NoOne]
    OBVIOUS
  <2>3. row \in SlugRow
    BY <2>1, <2>2 DEF SlugRow
  <2>4. /\ minted' = minted + 1 /\ minted' \in minted..MaxSlug /\ minted \in Nat
        /\ slugs' = [s \in 1..(minted + 1) |->
                       IF s > minted THEN row
                       ELSE IF slugs[s].status = "expired" THEN [slugs[s] EXCEPT !.status = "deleted"]
                       ELSE slugs[s]]
    BY <2>1, <2>2, DynRegAssumption DEF mint, LinksGood
  <2>5. \A s \in 1..minted : slugs[s] \in SlugRow /\ [slugs[s] EXCEPT !.status = "deleted"] \in SlugRow
    BY DEF LinksGood, SlugRow
  <2>6. slugs' \in [1..minted' -> SlugRow]
    <3>1. ASSUME NEW s \in 1..(minted + 1) PROVE slugs'[s] \in SlugRow
      <4>1. CASE s > minted
        BY <2>3, <2>4, <4>1
      <4>2. CASE ~(s > minted)
        <5>1. s \in 1..minted
          BY <2>4, <4>2
        <5>2. slugs'[s] \in {slugs[s], [slugs[s] EXCEPT !.status = "deleted"]}
          BY <2>4, <4>2
        <5> QED BY <2>5, <5>1, <5>2
      <4> QED BY <4>1, <4>2
    <3> QED BY <2>4, <3>1
  <2>7. \A s \in 1..minted : slugs[s].status = "used" => slugs'[s] = slugs[s]
    BY <2>4
  <2> QED BY <2>1, <2>4, <2>6, <2>7, LinksMove
<1>21. ASSUME NEW r \in Slot, api_passkeys_register_options(r) PROVE LinksGood'
  BY <1>1, <1>21 DEF api_passkeys_register_options
<1>22. ASSUME NEW r \in Slot, dcr_answer(r) PROVE LinksGood'
  <2> DEFINE s == requests[r].slug
             d == made + 1
  <2>1. s \in 1..minted /\ dcr_register(s, requests[r].owner)
    BY <1>22 DEF dcr_answer, Resume, RequestsGood
  <2>2. CASE ~Consumable(s)
    BY <1>1, <2>1, <2>2 DEF dcr_register
  <2>3. CASE Consumable(s)
    <3>0. PICK x : x = [slug |-> s, client |-> d]
      OBVIOUS
    <3>1. /\ d \in Derived /\ DOMAIN clients' = DOMAIN clients \cup {d}
          /\ slugs' = [slugs EXCEPT ![s].status = "used", ![s].client = d]
          /\ slugs[s].status = "open"
          /\ registered' = registered \cup {x}
          /\ UNCHANGED <<minted, stray>>
      BY <2>1, <2>3, <3>0 DEF dcr_register, Consumable, create_dynamic, consume
    <3>2. slugs[s] \in SlugRow
      BY <2>1 DEF LinksGood
    <3>3. /\ slugs' \in [1..minted -> SlugRow]
          /\ slugs'[s].status = "used" /\ slugs'[s].client = d
          /\ \A u \in 1..minted : u # s => slugs'[u] = slugs[u]
      BY <2>1, <3>1, <3>2 DEF LinksGood, SlugRow
    <3>4. x.slug = s /\ x.client = d /\ x \in [slug : 1..minted, client : Derived]
      BY <2>1, <3>0, <3>1
    <3>5. \A y \in registered : y.slug \in 1..minted /\ y.slug # s
      BY <3>1 DEF LinksGood, LinkHandsOutOnce
    <3>6. LinkHandsOutOnce'
      <4>1. \A y, z \in registered' : y.slug = z.slug => y = z
        BY <3>1, <3>4, <3>5 DEF LinksGood, LinkHandsOutOnce
      <4>2. \A y \in registered' : slugs'[y.slug].status = "used" /\ slugs'[y.slug].client = y.client
        BY <3>1, <3>3, <3>4, <3>5 DEF LinksGood, LinkHandsOutOnce
      <4>3. DOMAIN clients' \cap Derived \subseteq {y.client : y \in registered'} \cup stray'
        BY <3>1, <3>4 DEF LinksGood, LinkHandsOutOnce
      <4> QED BY <4>1, <4>2, <4>3 DEF LinkHandsOutOnce
    <3> QED BY <3>1, <3>3, <3>4, <3>6 DEF LinksGood
  <2> QED BY <2>2, <2>3
<1>23. ASSUME NEW r \in Slot, dcr_dies(r) PROVE LinksGood'
  <2>1. /\ made + 1 \in Derived /\ DOMAIN clients' = DOMAIN clients \cup {made + 1}
        /\ stray' = stray \cup {made + 1}
        /\ UNCHANGED <<slugs, minted, registered>>
    BY <1>23 DEF dcr_dies, dcr_register_dies, create_dynamic
  <2> QED BY <2>1 DEF LinksGood, LinkHandsOutOnce
<1>24. ASSUME NEW r \in Slot, NEW s \in DOMAIN sessions, NEW op \in {"panel", "refresh"},
             panel_request(r, op, s)
      PROVE LinksGood'
  BY <1>1, <1>24 DEF panel_request
<1>25. ASSUME NEW r \in Slot, NEW s \in DOMAIN slugs, dcr_request(r, s) PROVE LinksGood'
  BY <1>1, <1>25 DEF dcr_request
<1>26. ASSUME NEW r \in Slot, NEW s \in DOMAIN slugs, connectors_slug_delete(r, s)
      PROVE LinksGood'
  <2>1. /\ slugs' = [slugs EXCEPT ![s].status = "deleted"] /\ slugs[s].status \in {"open", "expired"}
        /\ UNCHANGED <<clients, minted, registered, stray>>
    BY <1>26 DEF connectors_slug_delete, delete_unused, Deletable
  <2>2. slugs' \in [1..minted' -> SlugRow] /\ minted' \in minted..MaxSlug
    BY <2>1 DEF LinksGood, SlugRow
  <2>3. \A u \in 1..minted : slugs[u].status = "used" => slugs'[u] = slugs[u]
    BY <2>1 DEF LinksGood
  <2> QED BY <2>1, <2>2, <2>3, LinksMove
<1>27. ASSUME NEW r \in Slot, NEW b \in DOMAIN bearers, tokens_revoke(r, b) PROVE LinksGood'
  BY <1>1, <1>27 DEF tokens_revoke
<1>28. ASSUME NEW r \in Slot, NEW d \in DOMAIN clients, connectors_revoke(r, d)
      PROVE LinksGood'
  <2>1. DOMAIN clients' \subseteq DOMAIN clients /\ UNCHANGED <<slugs, minted, registered, stray>>
    BY <1>28 DEF connectors_revoke, revoke
  <2>2. slugs' \in [1..minted' -> SlugRow] /\ minted' \in minted..MaxSlug
    BY <2>1 DEF LinksGood
  <2> QED BY <2>1, <2>2, LinksMove
<1>29. ASSUME NEW r \in Slot, NEW k \in DOMAIN passkeys, api_passkeys_delete(r, k)
      PROVE LinksGood'
  BY <1>1, <1>29 DEF api_passkeys_delete
<1>30. ASSUME NEW r \in Slot, NEW st \in DOMAIN challenges, NEW k \in Key,
             api_passkeys_register_verify(r, st, k)
      PROVE LinksGood'
  BY <1>1, <1>30 DEF api_passkeys_register_verify
<1>31. CASE restart
  BY <1>1, <1>31 DEF restart
<1>32. CASE UNCHANGED dashVars
  BY <1>1, <1>32 DEF dashVars
<1> QED BY <1>2, <1>3, <1>4, <1>5, <1>6, <1>7, <1>8, <1>9, <1>10, <1>11, <1>12, <1>13, <1>14,
         <1>15, <1>16, <1>17, <1>18, <1>19, <1>20, <1>21, <1>22, <1>23, <1>24, <1>25, <1>26,
         <1>27, <1>28, <1>29, <1>30, <1>31, <1>32
        DEF DashNext, Step

\* Rows and bearers that only go, expire or end: no session gains a bearer.
LEMMA SessionsShrink ==
  ASSUME SessionsGood, UNCHANGED <<opened, issued, signedOut>>,
         DOMAIN sessions' \subseteq DOMAIN sessions,
         \A s \in DOMAIN sessions' :
           sessions'[s] \in SessionRow /\ sessions'[s].bearer = sessions[s].bearer,
         DOMAIN bearers' \subseteq DOMAIN bearers,
         \A b \in DOMAIN bearers' :
           /\ bearers'[b] \in BearerRow /\ bearers'[b].session = bearers[b].session
           /\ Over(b) => Over(b)'
  PROVE  SessionsGood'
<1>1. \A b \in DOMAIN bearers' :
        Over(b)' \/ /\ bearers'[b].session \notin signedOut'
                    /\ bearers'[b].session \in DOMAIN sessions' =>
                         sessions'[bearers'[b].session].bearer = b
  BY DEF SessionsGood
<1> QED BY <1>1 DEF SessionsGood

\* What revoke_bearer does to the bearers.
LEMMA BearerEnds ==
  ASSUME SessionsGood, NEW b, revoke_bearer(b)
  PROVE  /\ DOMAIN bearers' = DOMAIN bearers
         /\ \A x \in DOMAIN bearers :
              /\ bearers'[x] \in BearerRow /\ bearers'[x].session = bearers[x].session
              /\ Over(x) => Over(x)'
              /\ x = b => Over(x)'
<1>1. \A x \in DOMAIN bearers : bearers[x] \in BearerRow
  BY DEF SessionsGood
<1> QED BY <1>1 DEF revoke_bearer, BearerRow, Over

\* What TimeUp does to the rows.
LEMMA TimeIsUp ==
  ASSUME SessionsGood, NEW b, TimeUp(b)
  PROVE  /\ DOMAIN sessions' = DOMAIN sessions
         /\ \A s \in DOMAIN sessions :
              sessions'[s] \in SessionRow /\ sessions'[s].bearer = sessions[s].bearer
<1>1. \A s \in DOMAIN sessions : sessions[s] \in SessionRow
  BY DEF SessionsGood
<1> QED BY <1>1 DEF TimeUp, SessionRow

\* The row types alone.
LEMMA SessionsAsTheyAre ==
  ASSUME SessionsGood
  PROVE  /\ \A s \in DOMAIN sessions : sessions[s] \in SessionRow
         /\ \A b \in DOMAIN bearers : bearers[b] \in BearerRow
BY DEF SessionsGood

\* A session is opened with a bearer of its own.
LEMMA SessionStarts ==
  ASSUME SessionsGood, NEW c \in Client, _start_session(c), UNCHANGED signedOut
  PROVE  SessionsGood'
<1>1. PICK row : row = [client |-> c, bearer |-> issued + 1, valid |-> TRUE]
  OBVIOUS
<1>2. PICK new : new = [client |-> c, session |-> opened + 1, named |-> FALSE, ending |-> FALSE,
                        replaced |-> FALSE]
  OBVIOUS
<1>3. /\ opened' = opened + 1 /\ issued' = issued + 1
      /\ opened \in Nat /\ issued \in Nat /\ opened < MaxSession /\ issued < MaxBearer
      /\ sessions' = With(sessions, opened + 1, row) /\ bearers' = With(bearers, issued + 1, new)
  BY <1>1, <1>2 DEF _start_session, issue, SessionsGood
<1>4. row \in SessionRow /\ row.bearer = issued + 1 /\ new \in BearerRow /\ new.session = opened + 1
  BY <1>1, <1>2, <1>3, DashboardAssumption DEF SessionRow, BearerRow, Session, Bearer
<1>5. /\ DOMAIN sessions' = DOMAIN sessions \cup {opened + 1} /\ sessions'[opened + 1] = row
      /\ \A s \in DOMAIN sessions \ {opened + 1} : sessions'[s] = sessions[s]
  BY <1>3 DEF With
<1>6. /\ DOMAIN bearers' = DOMAIN bearers \cup {issued + 1} /\ bearers'[issued + 1] = new
      /\ \A b \in DOMAIN bearers \ {issued + 1} : bearers'[b] = bearers[b]
  BY <1>3 DEF With
<1>7. opened' \in 0..MaxSession /\ issued' \in 0..MaxBearer
  BY <1>3, DashboardAssumption
<1>8. \A s \in DOMAIN sessions' : s \in 1..opened' /\ sessions'[s] \in SessionRow
  BY <1>3, <1>4, <1>5 DEF SessionsGood
<1>9. \A b \in DOMAIN bearers' :
        b \in 1..issued' /\ bearers'[b] \in BearerRow /\ bearers'[b].session <= opened'
  <2>1. \A b \in DOMAIN bearers : b \in 1..issued /\ b # issued + 1
                                  /\ bearers[b] \in BearerRow /\ bearers[b].session \in 1..opened
    BY <1>3 DEF SessionsGood, BearerRow, Session
  <2> QED BY <2>1, <1>3, <1>4, <1>6
<1>10. \A s \in signedOut' : s \in 1..opened' /\ s \notin DOMAIN sessions'
  BY <1>3, <1>5 DEF SessionsGood
<1>11. ASSUME NEW b \in DOMAIN bearers'
       PROVE  Over(b)' \/ /\ bearers'[b].session \notin signedOut'
                          /\ bearers'[b].session \in DOMAIN sessions' =>
                               sessions'[bearers'[b].session].bearer = b
  <2>1. CASE b = issued + 1
    <3>1. bearers'[b].session = opened + 1 /\ sessions'[opened + 1].bearer = b
      BY <1>4, <1>5, <1>6, <2>1
    <3>2. opened + 1 \notin signedOut
      BY <1>3 DEF SessionsGood
    <3> QED BY <3>1, <3>2
  <2>2. CASE b \in DOMAIN bearers /\ b # issued + 1
    <3>1. bearers'[b] = bearers[b]
      BY <1>6, <2>2
    <3>2. bearers[b].session \in 1..opened
      BY <2>2 DEF SessionsGood, BearerRow, Session
    <3>3. /\ bearers[b].session \in DOMAIN sessions' => bearers[b].session \in DOMAIN sessions
          /\ bearers[b].session \in DOMAIN sessions =>
               sessions'[bearers[b].session] = sessions[bearers[b].session]
      BY <1>3, <1>5, <3>2
    <3>4. Over(b) => Over(b)'
      BY <3>1 DEF Over
    <3> QED BY <2>2, <3>1, <3>3, <3>4 DEF SessionsGood
  <2> QED BY <1>6, <2>1, <2>2
<1> QED BY <1>7, <1>8, <1>9, <1>10, <1>11 DEF SessionsGood

\* A bearer with a name is added.
LEMMA NamedBearer ==
  ASSUME SessionsGood, NEW c \in Client, NEW s \in 1..opened, issue(bearers, c, s, TRUE),
         UNCHANGED <<sessions, opened, signedOut>>
  PROVE  SessionsGood'
<1>1. PICK new : new = [client |-> c, session |-> s, named |-> TRUE, ending |-> FALSE,
                        replaced |-> FALSE]
  OBVIOUS
<1>2. /\ issued' = issued + 1 /\ issued \in Nat /\ issued < MaxBearer
      /\ bearers' = With(bearers, issued + 1, new)
  BY <1>1 DEF issue, SessionsGood
<1>3. new \in BearerRow /\ new.session = s /\ new.named
  BY <1>1, DashboardAssumption DEF SessionsGood, BearerRow, Session
<1>4. /\ DOMAIN bearers' = DOMAIN bearers \cup {issued + 1} /\ bearers'[issued + 1] = new
      /\ \A b \in DOMAIN bearers \ {issued + 1} : bearers'[b] = bearers[b]
  BY <1>2 DEF With
<1>5. issued' \in 0..MaxBearer /\ opened' \in 0..MaxSession
  BY <1>2, DashboardAssumption DEF SessionsGood
<1>6. \A b \in DOMAIN bearers' :
        b \in 1..issued' /\ bearers'[b] \in BearerRow /\ bearers'[b].session <= opened'
  <2>1. \A b \in DOMAIN bearers : b \in 1..issued /\ b # issued + 1
                                  /\ bearers[b] \in BearerRow /\ bearers[b].session <= opened
    BY <1>2 DEF SessionsGood
  <2> QED BY <2>1, <1>2, <1>3, <1>4 DEF SessionsGood
<1>7. ASSUME NEW b \in DOMAIN bearers'
      PROVE  Over(b)' \/ /\ bearers'[b].session \notin signedOut'
                         /\ bearers'[b].session \in DOMAIN sessions' =>
                              sessions'[bearers'[b].session].bearer = b
  <2>1. CASE b = issued + 1
    BY <1>3, <1>4, <2>1 DEF Over
  <2>2. CASE b \in DOMAIN bearers /\ b # issued + 1
    BY <1>4, <2>2 DEF SessionsGood, Over
  <2> QED BY <1>4, <2>1, <2>2
<1> QED BY <1>5, <1>6, <1>7 DEF SessionsGood

\* A refresh gives the session a new bearer and marks the one it had.
LEMMA BearerReplaced ==
  ASSUME SessionsGood, NEW c \in Client, NEW s \in DOMAIN sessions,
         issue(Replaced(s), c, s, FALSE), update_bearer(s, issued + 1),
         UNCHANGED <<opened, signedOut>>
  PROVE  SessionsGood'
<1>1. PICK new : new = [client |-> c, session |-> s, named |-> FALSE, ending |-> FALSE,
                        replaced |-> FALSE]
  OBVIOUS
<1>2. PICK old : old = Replaced(s)
  OBVIOUS
<1>3. /\ issued' = issued + 1 /\ issued \in Nat /\ issued < MaxBearer
      /\ bearers' = With(old, issued + 1, new)
      /\ sessions' = [sessions EXCEPT ![s].bearer = issued + 1, ![s].valid = TRUE]
  BY <1>1, <1>2 DEF issue, update_bearer, SessionsGood
<1>4. s \in 1..opened /\ new \in BearerRow /\ new.session = s
  BY <1>1, DashboardAssumption DEF SessionsGood, BearerRow, Session
<1>5. /\ DOMAIN old = DOMAIN bearers
      /\ \A b \in DOMAIN bearers :
           /\ old[b] \in BearerRow /\ old[b].session = bearers[b].session
           /\ old[b].named = bearers[b].named /\ old[b].ending = bearers[b].ending
           /\ old[b].replaced \/ (old[b] = bearers[b] /\ sessions[s].bearer # b)
  <2>1. \A b \in DOMAIN bearers : bearers[b] \in BearerRow
    BY DEF SessionsGood
  <2> QED BY <1>2, <2>1 DEF Replaced, BearerRow
<1>6. /\ DOMAIN bearers' = DOMAIN bearers \cup {issued + 1} /\ bearers'[issued + 1] = new
      /\ \A b \in DOMAIN bearers \ {issued + 1} : bearers'[b] = old[b]
  BY <1>3, <1>5 DEF With
<1>7. /\ DOMAIN sessions' = DOMAIN sessions
      /\ sessions'[s] \in SessionRow /\ sessions'[s].bearer = issued + 1
      /\ \A t \in DOMAIN sessions \ {s} : sessions'[t] = sessions[t]
  <2>1. sessions[s] \in SessionRow /\ issued + 1 \in Bearer
    BY <1>3, DashboardAssumption DEF SessionsGood, Bearer
  <2> QED BY <1>3, <2>1 DEF SessionRow
<1>8. issued' \in 0..MaxBearer /\ opened' \in 0..MaxSession
  BY <1>3, DashboardAssumption DEF SessionsGood
<1>9. \A t \in DOMAIN sessions' : t \in 1..opened' /\ sessions'[t] \in SessionRow
  BY <1>7 DEF SessionsGood
<1>10. \A b \in DOMAIN bearers' :
         b \in 1..issued' /\ bearers'[b] \in BearerRow /\ bearers'[b].session <= opened'
  <2>1. \A b \in DOMAIN bearers : b \in 1..issued /\ b # issued + 1 /\ bearers[b].session <= opened
    BY <1>3 DEF SessionsGood
  <2> QED BY <2>1, <1>3, <1>4, <1>5, <1>6 DEF SessionsGood
<1>11. ASSUME NEW b \in DOMAIN bearers'
       PROVE  Over(b)' \/ /\ bearers'[b].session \notin signedOut'
                          /\ bearers'[b].session \in DOMAIN sessions' =>
                               sessions'[bearers'[b].session].bearer = b
  <2>1. CASE b = issued + 1
    <3>1. s \notin signedOut
      BY DEF SessionsGood
    <3> QED BY <1>4, <1>6, <1>7, <2>1, <3>1
  <2>2. CASE b \in DOMAIN bearers /\ b # issued + 1
    <3>1. bearers'[b] = old[b] /\ bearers'[b].session = bearers[b].session
      BY <1>5, <1>6, <2>2
    <3>2. CASE old[b].replaced
      BY <3>1, <3>2 DEF Over
    <3>3. CASE old[b] = bearers[b] /\ sessions[s].bearer # b
      <4>1. Over(b) => Over(b)'
        BY <3>1, <3>3 DEF Over
      <4>2. CASE Over(b)
        BY <4>1, <4>2
      <4>3. CASE ~Over(b)
        <5>1. /\ bearers[b].session \notin signedOut
              /\ bearers[b].session \in DOMAIN sessions => sessions[bearers[b].session].bearer = b
          BY <2>2, <4>3 DEF SessionsGood
        <5>2. bearers[b].session # s
          BY <3>3, <5>1
        <5> QED BY <1>7, <3>1, <5>1, <5>2
      <4> QED BY <4>2, <4>3
    <3> QED BY <1>5, <2>2, <3>2, <3>3
  <2> QED BY <1>6, <2>1, <2>2
<1>12. \A t \in signedOut' : t \in 1..opened' /\ t \notin DOMAIN sessions'
  BY <1>7 DEF SessionsGood
<1> QED BY <1>8, <1>9, <1>10, <1>11, <1>12 DEF SessionsGood

\* Sessions and bearers are kept by every step.
LEMMA SessionsKept ==
  ASSUME SessionsGood, RequestsGood, [DashNext]_dashVars
  PROVE  SessionsGood'
<1> USE DEF dynVars, passkeyVars, panelVars
<1>1. ASSUME UNCHANGED <<sessions, bearers, opened, issued, signedOut>> PROVE SessionsGood'
  BY <1>1 DEF SessionsGood, Over
<1>2. ASSUME NEW c \in Client, login_post(c) PROVE SessionsGood'
  BY <1>2, SessionStarts DEF login_post
<1>3. ASSUME NEW c \in Client, api_passkeys_auth_options(c) PROVE SessionsGood'
  BY <1>1, <1>3 DEF api_passkeys_auth_options
<1>4. ASSUME NEW c \in Client, oauth_passkey_options(c) PROVE SessionsGood'
  BY <1>1, <1>4 DEF oauth_passkey_options
<1>5. ASSUME NEW c \in Client, oauth_passkey_register_options(c) PROVE SessionsGood'
  BY <1>1, <1>5 DEF oauth_passkey_register_options
<1>6. ASSUME NEW c \in Client, auth_revoke(c) PROVE SessionsGood'
  BY <1>1, <1>6 DEF auth_revoke
<1>7. ASSUME NEW c \in Client, NEW st \in DOMAIN challenges, NEW k \in Key,
             api_passkeys_auth_verify(c, st, k)
      PROVE SessionsGood'
  <2>1. CASE passkeys[k] = c
    BY <1>7, <2>1, SessionStarts DEF api_passkeys_auth_verify
  <2>2. CASE passkeys[k] # c
    BY <1>1, <1>7, <2>2 DEF api_passkeys_auth_verify
  <2> QED BY <2>1, <2>2
<1>8. ASSUME NEW c \in Client, NEW st \in DOMAIN challenges, NEW k \in Key,
             oauth_passkey_verify(c, st, k)
      PROVE SessionsGood'
  BY <1>1, <1>8 DEF oauth_passkey_verify
<1>9. ASSUME NEW st \in DOMAIN challenges, passkey_refused(st) PROVE SessionsGood'
  BY <1>1, <1>9 DEF passkey_refused
<1>10. ASSUME NEW st \in DOMAIN challenges, NEW k \in Key, oauth_passkey_register_verify(st, k)
      PROVE SessionsGood'
  BY <1>1, <1>10 DEF oauth_passkey_register_verify
<1>11. ASSUME NEW s \in DOMAIN sessions, load_expired(s) PROVE SessionsGood'
  <2>1. /\ sessions' = Without(sessions, s)
        /\ UNCHANGED <<bearers, opened, issued, signedOut>>
    BY <1>11 DEF load_expired
  <2>2. /\ DOMAIN sessions' \subseteq DOMAIN sessions
        /\ \A t \in DOMAIN sessions' : sessions'[t] = sessions[t]
    BY <2>1, WithoutKey
  <2>3. \A b \in DOMAIN bearers : Over(b) => Over(b)'
    BY <2>1 DEF Over
  <2> QED BY <2>1, <2>2, <2>3, SessionsShrink, SessionsAsTheyAre
<1>12. ASSUME NEW s \in DOMAIN sessions, logout(s) PROVE SessionsGood'
  <2>1. /\ sessions' = Without(sessions, s) /\ revoke_bearer(sessions[s].bearer)
        /\ signedOut' = signedOut \cup {s} /\ UNCHANGED <<opened, issued>>
    BY <1>12 DEF logout
  <2>2. PICK b : b = sessions[s].bearer
    OBVIOUS
  <2>3. revoke_bearer(b)
    BY <2>1, <2>2 DEF revoke_bearer
  <2>4. /\ DOMAIN bearers' = DOMAIN bearers
        /\ \A x \in DOMAIN bearers :
             /\ bearers'[x] \in BearerRow /\ bearers'[x].session = bearers[x].session
             /\ Over(x) => Over(x)'
             /\ x = b => Over(x)'
    BY <2>3, BearerEnds
  <2>5. /\ DOMAIN sessions' = DOMAIN sessions \ {s}
        /\ \A t \in DOMAIN sessions' : sessions'[t] = sessions[t]
    BY <2>1, WithoutKey
  <2>6. ASSUME NEW x \in DOMAIN bearers'
        PROVE  Over(x)' \/ /\ bearers'[x].session \notin signedOut'
                           /\ bearers'[x].session \in DOMAIN sessions' =>
                                sessions'[bearers'[x].session].bearer = x
    <3>1. CASE Over(x)
      BY <2>4, <2>6, <3>1
    <3>2. CASE x = b
      BY <2>4, <2>6, <3>2
    <3>3. CASE ~Over(x) /\ x # b
      <4>1. /\ bearers[x].session \notin signedOut
            /\ bearers[x].session \in DOMAIN sessions => sessions[bearers[x].session].bearer = x
        BY <2>4, <3>3 DEF SessionsGood
      <4>2. bearers[x].session # s
        BY <2>2, <3>3, <4>1
      <4> QED BY <2>1, <2>4, <2>5, <4>1, <4>2
    <3> QED BY <3>1, <3>2, <3>3
  <2> QED BY <2>1, <2>4, <2>5, <2>6 DEF SessionsGood
<1>13. ASSUME NEW s \in DOMAIN sessions, row_expires(s) PROVE SessionsGood'
  <2>1. TimeUp(sessions[s].bearer) /\ UNCHANGED <<bearers, opened, issued, signedOut>>
    BY <1>13 DEF row_expires
  <2>2. PICK b : b = sessions[s].bearer
    OBVIOUS
  <2>3. TimeUp(b)
    BY <2>1, <2>2 DEF TimeUp
  <2>4. \A x \in DOMAIN bearers : Over(x) => Over(x)'
    BY <2>1 DEF Over
  <2> QED BY <2>1, <2>3, <2>4, TimeIsUp, SessionsShrink, SessionsAsTheyAre
<1>14. ASSUME NEW s \in DOMAIN sessions, security_end_session(s) PROVE SessionsGood'
  <2>1. revoke_bearer(sessions[s].bearer) /\ UNCHANGED <<sessions, opened, issued, signedOut>>
    BY <1>14 DEF security_end_session
  <2>2. PICK b : b = sessions[s].bearer
    OBVIOUS
  <2>3. revoke_bearer(b)
    BY <2>1, <2>2 DEF revoke_bearer
  <2> QED BY <2>1, <2>3, BearerEnds, SessionsShrink, SessionsAsTheyAre
<1>15. ASSUME NEW b \in DOMAIN bearers, bearer_expires(b) PROVE SessionsGood'
  <2>1. bearers' = Without(bearers, b) /\ UNCHANGED <<opened, issued, signedOut>>
    BY <1>15 DEF bearer_expires
  <2>2. /\ DOMAIN bearers' \subseteq DOMAIN bearers
        /\ \A x \in DOMAIN bearers' : bearers'[x] = bearers[x]
    BY <2>1, WithoutKey
  <2>3. \A x \in DOMAIN bearers' : Over(x) => Over(x)'
    BY <2>2 DEF Over
  <2>4. CASE UNCHANGED sessions
    BY <2>1, <2>2, <2>3, <2>4, SessionsShrink, SessionsAsTheyAre
  <2>5. CASE TimeUp(b)
    BY <2>1, <2>2, <2>3, <2>5, TimeIsUp, SessionsShrink, SessionsAsTheyAre
  <2> QED BY <1>15, <2>4, <2>5 DEF bearer_expires
<1>16. ASSUME NEW s \in DOMAIN slugs, link_expires(s) PROVE SessionsGood'
  BY <1>1, <1>16 DEF link_expires
<1>17. ASSUME NEW r \in Slot, turned_down(r) PROVE SessionsGood'
  BY <1>1, <1>17 DEF turned_down
<1>18. ASSUME NEW r \in Slot, refresh_post(r) PROVE SessionsGood'
  <2>1. requests[r].op = "refresh"
    BY <1>18 DEF refresh_post, Resume
  <2>2. requests[r].client \in Client
    BY <2>1 DEF RequestsGood
  <2>3. PICK c : c = requests[r].client
    OBVIOUS
  <2>4. PICK s : s = requests[r].session
    OBVIOUS
  <2>5. CASE Secret(r)
    <3>1. /\ s \in DOMAIN sessions /\ issue(Replaced(s), c, s, FALSE)
          /\ update_bearer(s, issued + 1) /\ UNCHANGED <<opened, signedOut>>
      BY <1>18, <2>3, <2>4, <2>5 DEF refresh_post, Secret
    <3> QED BY <2>2, <2>3, <3>1, BearerReplaced
  <2>6. CASE ~Secret(r)
    <3>1. sessions' = Without(sessions, s) /\ UNCHANGED <<bearers, opened, issued, signedOut>>
      BY <1>18, <2>4, <2>6 DEF refresh_post
    <3>2. /\ DOMAIN sessions' \subseteq DOMAIN sessions
          /\ \A t \in DOMAIN sessions' : sessions'[t] = sessions[t]
      BY <3>1, WithoutKey
    <3>3. \A b \in DOMAIN bearers : Over(b) => Over(b)'
      BY <3>1 DEF Over
    <3> QED BY <3>1, <3>2, <3>3, SessionsShrink, SessionsAsTheyAre
  <2> QED BY <2>5, <2>6
<1>19. ASSUME NEW r \in Slot, tokens_create(r) PROVE SessionsGood'
  <2>1. requests[r].op = "panel"
    BY <1>19 DEF tokens_create, Resume
  <2>2. requests[r].client \in Client /\ requests[r].session \in 1..opened
    BY <2>1 DEF RequestsGood
  <2>3. PICK c : c = requests[r].client
    OBVIOUS
  <2>4. PICK s : s = requests[r].session
    OBVIOUS
  <2>5. issue(bearers, c, s, TRUE) /\ UNCHANGED <<sessions, opened, signedOut>>
    BY <1>19, <2>3, <2>4 DEF tokens_create, issue
  <2> QED BY <2>2, <2>3, <2>4, <2>5, NamedBearer
<1>20. ASSUME NEW r \in Slot, connectors_mint(r) PROVE SessionsGood'
  BY <1>1, <1>20 DEF connectors_mint
<1>21. ASSUME NEW r \in Slot, api_passkeys_register_options(r) PROVE SessionsGood'
  BY <1>1, <1>21 DEF api_passkeys_register_options
<1>22. ASSUME NEW r \in Slot, dcr_answer(r) PROVE SessionsGood'
  BY <1>1, <1>22 DEF dcr_answer
<1>23. ASSUME NEW r \in Slot, dcr_dies(r) PROVE SessionsGood'
  <2>1. /\ DOMAIN bearers' \subseteq DOMAIN bearers
        /\ \A x \in DOMAIN bearers' : bearers'[x] = bearers[x]
        /\ UNCHANGED <<sessions, opened, issued, signedOut>>
    BY <1>23 DEF dcr_dies, Reboot
  <2>2. \A x \in DOMAIN bearers' : Over(x) => Over(x)'
    BY <2>1 DEF Over
  <2> QED BY <2>1, <2>2, SessionsShrink, SessionsAsTheyAre
<1>24. ASSUME NEW r \in Slot, NEW s \in DOMAIN sessions, NEW op \in {"panel", "refresh"},
             panel_request(r, op, s)
      PROVE SessionsGood'
  BY <1>1, <1>24 DEF panel_request
<1>25. ASSUME NEW r \in Slot, NEW s \in DOMAIN slugs, dcr_request(r, s) PROVE SessionsGood'
  BY <1>1, <1>25 DEF dcr_request
<1>26. ASSUME NEW r \in Slot, NEW s \in DOMAIN slugs, connectors_slug_delete(r, s)
      PROVE SessionsGood'
  BY <1>1, <1>26 DEF connectors_slug_delete
<1>27. ASSUME NEW r \in Slot, NEW b \in DOMAIN bearers, tokens_revoke(r, b) PROVE SessionsGood'
  <2>1. revoke_bearer(b) /\ UNCHANGED <<sessions, opened, issued, signedOut>>
    BY <1>27 DEF tokens_revoke
  <2> QED BY <2>1, BearerEnds, SessionsShrink, SessionsAsTheyAre
<1>28. ASSUME NEW r \in Slot, NEW d \in DOMAIN clients, connectors_revoke(r, d)
      PROVE SessionsGood'
  BY <1>1, <1>28 DEF connectors_revoke
<1>29. ASSUME NEW r \in Slot, NEW k \in DOMAIN passkeys, api_passkeys_delete(r, k)
      PROVE SessionsGood'
  BY <1>1, <1>29 DEF api_passkeys_delete
<1>30. ASSUME NEW r \in Slot, NEW st \in DOMAIN challenges, NEW k \in Key,
             api_passkeys_register_verify(r, st, k)
      PROVE SessionsGood'
  BY <1>1, <1>30 DEF api_passkeys_register_verify
<1>31. CASE restart
  <2>1. /\ DOMAIN bearers' \subseteq DOMAIN bearers
        /\ \A x \in DOMAIN bearers' : bearers'[x] = bearers[x]
        /\ UNCHANGED <<sessions, opened, issued, signedOut>>
    BY <1>31 DEF restart, Reboot
  <2>2. \A x \in DOMAIN bearers' : Over(x) => Over(x)'
    BY <2>1 DEF Over
  <2> QED BY <2>1, <2>2, SessionsShrink, SessionsAsTheyAre
<1>32. CASE UNCHANGED dashVars
  BY <1>1, <1>32 DEF dashVars
<1> QED BY <1>2, <1>3, <1>4, <1>5, <1>6, <1>7, <1>8, <1>9, <1>10, <1>11, <1>12, <1>13, <1>14,
         <1>15, <1>16, <1>17, <1>18, <1>19, <1>20, <1>21, <1>22, <1>23, <1>24, <1>25, <1>26,
         <1>27, <1>28, <1>29, <1>30, <1>31, <1>32
        DEF DashNext, Step

ChallengeRow == [purpose : {"register", "authenticate"}, client : Client,
                 session : Session \cup {NoSession}]

\* A fresh challenge has opened no door.
LEMMA ChallengeIssued ==
  ASSUME DoorsGood, NEW p \in {"register", "authenticate"}, NEW c \in Client,
         NEW s \in Session \cup {NoSession}, issue_challenge(p, c, s), UNCHANGED <<passkeys, doors>>
  PROVE  DoorsGood'
<1>1. PICK row : row = [purpose |-> p, client |-> c, session |-> s]
  OBVIOUS
<1>2. /\ started \in Nat /\ started' = started + 1 /\ started' \in 0..MaxChallenge
      /\ DOMAIN challenges' = DOMAIN challenges \cup {started + 1}
      /\ \A st \in DOMAIN challenges : challenges'[st] = challenges[st]
      /\ started + 1 \notin DOMAIN challenges => challenges'[started + 1] = row
  BY <1>1, PasskeyAssumption DEF issue_challenge, DoorsGood
<1>3. row \in ChallengeRow
  BY <1>1 DEF ChallengeRow
<1>4. \A st \in DOMAIN challenges : st \in 1..started /\ challenges[st] \in ChallengeRow
  BY DEF DoorsGood, ChallengeRow
<1>5. \A st \in DOMAIN challenges' : st \in 1..started' /\ challenges'[st] \in ChallengeRow
  BY <1>2, <1>3, <1>4
<1>6. \A d \in doors : d.state \in 1..started' /\ d.state \notin DOMAIN challenges'
  BY <1>2 DEF DoorsGood
<1> QED BY <1>2, <1>5, <1>6 DEF DoorsGood, ChallengeRow, PasskeyOpensOwnDoor

\* Challenges that only go open no door.
LEMMA ChallengesShrink ==
  ASSUME DoorsGood, DOMAIN challenges' \subseteq DOMAIN challenges,
         \A st \in DOMAIN challenges' : challenges'[st] = challenges[st],
         \A k \in DOMAIN passkeys' : passkeys'[k] \in Client, UNCHANGED <<started, doors>>
  PROVE  DoorsGood'
BY DEF DoorsGood, PasskeyOpensOwnDoor

\* What consume_challenge does to the challenges.
LEMMA ChallengeSpent ==
  ASSUME NEW st, consume_challenge(st)
  PROVE  /\ DOMAIN challenges' = DOMAIN challenges \ {st}
         /\ \A x \in DOMAIN challenges' : challenges'[x] = challenges[x]
BY DEF consume_challenge, SpentState

\* The challenge that opens a door is spent by it.
LEMMA DoorOpens ==
  ASSUME DoorsGood, NEW st \in DOMAIN challenges, NEW k, NEW c, NEW g,
         verify_authentication(st, k), passkeys[k] = g, Door(st, k, c, g)
  PROVE  DoorsGood'
<1>1. PICK x : x = [nr |-> Cardinality(doors) + 1, state |-> st, holder |-> passkeys[k],
                    asked |-> challenges[st].client, guard |-> g, client |-> c]
  OBVIOUS
<1>2. doors' = doors \cup {x} /\ x.state = st /\ x.holder = g /\ x.asked = g /\ x.guard = g
  BY <1>1 DEF Door, verify_authentication, Rightful
<1>3. /\ DOMAIN challenges' = DOMAIN challenges \ {st}
      /\ \A y \in DOMAIN challenges' : challenges'[y] = challenges[y]
      /\ UNCHANGED <<passkeys, started>>
  BY ChallengeSpent DEF verify_authentication
<1>4. \A d \in doors : d.state \in 1..started /\ d.state # st
  BY DEF DoorsGood
<1>5. st \in 1..started
  BY DEF DoorsGood
<1>6. PasskeyOpensOwnDoor'
  BY <1>2, <1>4 DEF DoorsGood, PasskeyOpensOwnDoor
<1>7. \A d \in doors' : d.state \in 1..started' /\ d.state \notin DOMAIN challenges'
  BY <1>2, <1>3, <1>4, <1>5 DEF DoorsGood
<1> QED BY <1>3, <1>6, <1>7 DEF DoorsGood

\* A ceremony is held for a client or the owner it delegates to.
LEMMA OwnerIsClient ==
  ASSUME ClientsGood, NEW c \in Client
  PROVE  _passkey_owner(c) \in Client
BY DEF ClientsGood, _passkey_owner

\* Doors and challenges are kept by every step.
LEMMA DoorsKept ==
  ASSUME DoorsGood, ClientsGood, RequestsGood, SessionsGood, [DashNext]_dashVars
  PROVE  DoorsGood'
<1> USE DEF dynVars, passkeyVars, panelVars
<1>1. ASSUME UNCHANGED <<passkeys, challenges, started, doors>> PROVE DoorsGood'
  BY <1>1 DEF DoorsGood, PasskeyOpensOwnDoor
<1>2. ASSUME NEW c \in Client, login_post(c) PROVE DoorsGood'
  BY <1>1, <1>2 DEF login_post
<1>3. ASSUME NEW c \in Client, api_passkeys_auth_options(c) PROVE DoorsGood'
  BY <1>3, ChallengeIssued DEF api_passkeys_auth_options, authentication_options
<1>4. ASSUME NEW c \in Client, oauth_passkey_options(c) PROVE DoorsGood'
  <2>1. PICK o : o = _passkey_owner(c)
    OBVIOUS
  <2>2. o \in Client /\ issue_challenge("authenticate", o, NoSession) /\ UNCHANGED <<passkeys, doors>>
    BY <1>4, <2>1, OwnerIsClient DEF oauth_passkey_options, authentication_options
  <2> QED BY <2>2, ChallengeIssued
<1>5. ASSUME NEW c \in Client, oauth_passkey_register_options(c) PROVE DoorsGood'
  <2>1. PICK o : o = _passkey_owner(c)
    OBVIOUS
  <2>2. o \in Client /\ issue_challenge("register", o, NoSession) /\ UNCHANGED <<passkeys, doors>>
    BY <1>5, <2>1, OwnerIsClient DEF oauth_passkey_register_options, registration_options
  <2> QED BY <2>2, ChallengeIssued
<1>6. ASSUME NEW c \in Client, auth_revoke(c) PROVE DoorsGood'
  BY <1>1, <1>6 DEF auth_revoke
<1>7. ASSUME NEW c \in Client, NEW st \in DOMAIN challenges, NEW k \in Key,
             api_passkeys_auth_verify(c, st, k)
      PROVE DoorsGood'
  <2>1. verify_authentication(st, k)
    BY <1>7 DEF api_passkeys_auth_verify
  <2>2. CASE passkeys[k] = c
    BY <1>7, <2>1, <2>2, DoorOpens DEF api_passkeys_auth_verify
  <2>3. CASE passkeys[k] # c
    <3>1. consume_challenge(st) /\ UNCHANGED <<passkeys, started, doors>>
      BY <1>7, <2>1, <2>3 DEF api_passkeys_auth_verify, verify_authentication
    <3>2. \A x \in DOMAIN passkeys' : passkeys'[x] \in Client
      BY <3>1 DEF DoorsGood
    <3> QED BY <3>1, <3>2, ChallengeSpent, ChallengesShrink
  <2> QED BY <2>2, <2>3
<1>8. ASSUME NEW c \in Client, NEW st \in DOMAIN challenges, NEW k \in Key,
             oauth_passkey_verify(c, st, k)
      PROVE DoorsGood'
  <2>1. verify_authentication(st, k)
    BY <1>8 DEF oauth_passkey_verify
  <2>2. PICK o : o = _passkey_owner(c)
    OBVIOUS
  <2>3. CASE passkeys[k] = o
    BY <1>8, <2>1, <2>2, <2>3, DoorOpens DEF oauth_passkey_verify
  <2>4. CASE passkeys[k] # o
    <3>1. consume_challenge(st) /\ UNCHANGED <<passkeys, started, doors>>
      BY <1>8, <2>1, <2>2, <2>4 DEF oauth_passkey_verify, verify_authentication
    <3>2. \A x \in DOMAIN passkeys' : passkeys'[x] \in Client
      BY <3>1 DEF DoorsGood
    <3> QED BY <3>1, <3>2, ChallengeSpent, ChallengesShrink
  <2> QED BY <2>3, <2>4
<1>9. ASSUME NEW st \in DOMAIN challenges, passkey_refused(st) PROVE DoorsGood'
  <2>1. consume_challenge(st) /\ UNCHANGED <<passkeys, started, doors>>
    BY <1>9 DEF passkey_refused, ceremony_refused
  <2>2. \A x \in DOMAIN passkeys' : passkeys'[x] \in Client
    BY <2>1 DEF DoorsGood
  <2> QED BY <2>1, <2>2, ChallengeSpent, ChallengesShrink
<1>10. ASSUME NEW st \in DOMAIN challenges, NEW k \in Key, oauth_passkey_register_verify(st, k)
      PROVE DoorsGood'
  <2>1. /\ consume_challenge(st) /\ UNCHANGED <<started, doors>>
        /\ passkeys' = [x \in DOMAIN passkeys \cup {k} |->
                          IF x = k THEN challenges[st].client ELSE passkeys[x]]
    BY <1>10 DEF oauth_passkey_register_verify, verify_registration
  <2>2. challenges[st].client \in Client
    BY DEF DoorsGood
  <2>3. \A x \in DOMAIN passkeys' : passkeys'[x] \in Client
    BY <2>1, <2>2 DEF DoorsGood
  <2> QED BY <2>1, <2>3, ChallengeSpent, ChallengesShrink
<1>11. ASSUME NEW s \in DOMAIN sessions, load_expired(s) PROVE DoorsGood'
  BY <1>1, <1>11 DEF load_expired
<1>12. ASSUME NEW s \in DOMAIN sessions, logout(s) PROVE DoorsGood'
  BY <1>1, <1>12 DEF logout
<1>13. ASSUME NEW s \in DOMAIN sessions, row_expires(s) PROVE DoorsGood'
  BY <1>1, <1>13 DEF row_expires
<1>14. ASSUME NEW s \in DOMAIN sessions, security_end_session(s) PROVE DoorsGood'
  BY <1>1, <1>14 DEF security_end_session
<1>15. ASSUME NEW b \in DOMAIN bearers, bearer_expires(b) PROVE DoorsGood'
  BY <1>1, <1>15 DEF bearer_expires
<1>16. ASSUME NEW s \in DOMAIN slugs, link_expires(s) PROVE DoorsGood'
  BY <1>1, <1>16 DEF link_expires
<1>17. ASSUME NEW r \in Slot, turned_down(r) PROVE DoorsGood'
  BY <1>1, <1>17 DEF turned_down
<1>18. ASSUME NEW r \in Slot, refresh_post(r) PROVE DoorsGood'
  BY <1>1, <1>18 DEF refresh_post
<1>19. ASSUME NEW r \in Slot, tokens_create(r) PROVE DoorsGood'
  BY <1>1, <1>19 DEF tokens_create
<1>20. ASSUME NEW r \in Slot, connectors_mint(r) PROVE DoorsGood'
  BY <1>1, <1>20 DEF connectors_mint
<1>21. ASSUME NEW r \in Slot, api_passkeys_register_options(r) PROVE DoorsGood'
  <2>1. requests[r].op = "panel"
    BY <1>21 DEF api_passkeys_register_options, Resume
  <2>2. PICK c : c = requests[r].client
    OBVIOUS
  <2>3. PICK s : s = requests[r].session
    OBVIOUS
  <2>4. c \in Client /\ s \in Session
    BY <2>1, <2>2, <2>3, DashboardAssumption DEF RequestsGood, SessionsGood, Session
  <2>5. issue_challenge("register", c, s) /\ UNCHANGED <<passkeys, doors>>
    BY <1>21, <2>2, <2>3 DEF api_passkeys_register_options, registration_options
  <2> QED BY <2>4, <2>5, ChallengeIssued
<1>22. ASSUME NEW r \in Slot, dcr_answer(r) PROVE DoorsGood'
  BY <1>1, <1>22 DEF dcr_answer
<1>23. ASSUME NEW r \in Slot, dcr_dies(r) PROVE DoorsGood'
  <2>1. DOMAIN challenges' = {} /\ UNCHANGED <<passkeys, started, doors>>
    BY <1>23 DEF dcr_dies, Reboot, challenges_lost
  <2>2. \A x \in DOMAIN passkeys' : passkeys'[x] \in Client
    BY <2>1 DEF DoorsGood
  <2> QED BY <2>1, <2>2, ChallengesShrink
<1>24. ASSUME NEW r \in Slot, NEW s \in DOMAIN sessions, NEW op \in {"panel", "refresh"},
             panel_request(r, op, s)
      PROVE DoorsGood'
  BY <1>1, <1>24 DEF panel_request
<1>25. ASSUME NEW r \in Slot, NEW s \in DOMAIN slugs, dcr_request(r, s) PROVE DoorsGood'
  BY <1>1, <1>25 DEF dcr_request
<1>26. ASSUME NEW r \in Slot, NEW s \in DOMAIN slugs, connectors_slug_delete(r, s)
      PROVE DoorsGood'
  BY <1>1, <1>26 DEF connectors_slug_delete
<1>27. ASSUME NEW r \in Slot, NEW b \in DOMAIN bearers, tokens_revoke(r, b) PROVE DoorsGood'
  BY <1>1, <1>27 DEF tokens_revoke
<1>28. ASSUME NEW r \in Slot, NEW d \in DOMAIN clients, connectors_revoke(r, d)
      PROVE DoorsGood'
  BY <1>1, <1>28 DEF connectors_revoke
<1>29. ASSUME NEW r \in Slot, NEW k \in DOMAIN passkeys, api_passkeys_delete(r, k)
      PROVE DoorsGood'
  <2>1. /\ UNCHANGED <<challenges, started, doors>>
        /\ passkeys' = [x \in DOMAIN passkeys \ {k} |-> passkeys[x]]
    BY <1>29 DEF api_passkeys_delete, delete_passkey
  <2> QED BY <2>1, ChallengesShrink DEF DoorsGood
<1>30. ASSUME NEW r \in Slot, NEW st \in DOMAIN challenges, NEW k \in Key,
             api_passkeys_register_verify(r, st, k)
      PROVE DoorsGood'
  <2>1. /\ consume_challenge(st) /\ UNCHANGED <<started, doors>>
        /\ passkeys' = [x \in DOMAIN passkeys \cup {k} |->
                          IF x = k THEN challenges[st].client ELSE passkeys[x]]
    BY <1>30 DEF api_passkeys_register_verify, verify_registration
  <2>2. challenges[st].client \in Client
    BY DEF DoorsGood
  <2>3. \A x \in DOMAIN passkeys' : passkeys'[x] \in Client
    BY <2>1, <2>2 DEF DoorsGood
  <2> QED BY <2>1, <2>3, ChallengeSpent, ChallengesShrink
<1>31. CASE restart
  <2>1. DOMAIN challenges' = {} /\ UNCHANGED <<passkeys, started, doors>>
    BY <1>31 DEF restart, Reboot, challenges_lost
  <2>2. \A x \in DOMAIN passkeys' : passkeys'[x] \in Client
    BY <2>1 DEF DoorsGood
  <2> QED BY <2>1, <2>2, ChallengesShrink
<1>32. CASE UNCHANGED dashVars
  BY <1>1, <1>32 DEF dashVars
<1> QED BY <1>2, <1>3, <1>4, <1>5, <1>6, <1>7, <1>8, <1>9, <1>10, <1>11, <1>12, <1>13, <1>14,
         <1>15, <1>16, <1>17, <1>18, <1>19, <1>20, <1>21, <1>22, <1>23, <1>24, <1>25, <1>26,
         <1>27, <1>28, <1>29, <1>30, <1>31, <1>32
        DEF DashNext, Step

\* The passkeys of a client can be counted.
LEMMA ListFinite ==
  ASSUME IsFiniteSet(DOMAIN passkeys), NEW c
  PROVE  IsFiniteSet(list_for_client(c)) /\ Cardinality(list_for_client(c)) \in Nat
<1>1. list_for_client(c) \subseteq DOMAIN passkeys
  BY DEF list_for_client
<1> QED BY <1>1, FS_Subset, FS_CardinalityType

\* Challenges that only go leave a client no closer to its cap.
LEMMA CapChallengesShrink ==
  ASSUME CapGood, DOMAIN challenges' \subseteq DOMAIN challenges,
         \A st \in DOMAIN challenges' : challenges'[st] = challenges[st],
         UNCHANGED <<passkeys, overlapped>>
  PROVE  CapGood'
<1> SUFFICES ASSUME NEW c \in Client \ overlapped
             PROVE  \/ /\ Registering(c)' = {}
                       /\ Cardinality(list_for_client(c)) <= MAX_PASSKEYS_PER_CLIENT
                    \/ /\ \E st \in DOMAIN challenges' : Registering(c)' = {st}
                       /\ Cardinality(list_for_client(c)) < MAX_PASSKEYS_PER_CLIENT
  BY DEF CapGood, list_for_client
<1>1. Registering(c)' \subseteq Registering(c) /\ Registering(c)' \subseteq DOMAIN challenges'
  BY DEF Registering
<1>2. Cardinality(list_for_client(c)) \in Nat
  BY ListFinite DEF CapGood
<1>3. CASE Registering(c) = {} /\ Cardinality(list_for_client(c)) <= MAX_PASSKEYS_PER_CLIENT
  BY <1>1, <1>3
<1>4. CASE /\ \E st \in DOMAIN challenges : Registering(c) = {st}
           /\ Cardinality(list_for_client(c)) < MAX_PASSKEYS_PER_CLIENT
  <2>1. Registering(c)' = {} \/ \E st \in DOMAIN challenges' : Registering(c)' = {st}
    BY <1>1, <1>4
  <2> QED BY <1>2, <1>4, <2>1, PasskeyAssumption
<1> QED BY <1>3, <1>4 DEF CapGood

\* A challenge to sign in with is no registration.
LEMMA CapSignInIssued ==
  ASSUME CapGood, DoorsGood, NEW c, NEW s, issue_challenge("authenticate", c, s),
         UNCHANGED <<passkeys, overlapped>>
  PROVE  CapGood'
<1>1. /\ DOMAIN challenges \subseteq DOMAIN challenges'
      /\ \A st \in DOMAIN challenges : challenges'[st] = challenges[st]
      /\ \A st \in DOMAIN challenges' \ DOMAIN challenges : challenges'[st].purpose = "authenticate"
  BY DEF issue_challenge
<1>2. ASSUME NEW x PROVE Registering(x)' = Registering(x)
  BY <1>1 DEF Registering
<1> QED BY <1>1, <1>2 DEF CapGood, list_for_client

\* A registration starts below the cap; a second one beside it is an overlap.
LEMMA CapRegistrationIssued ==
  ASSUME CapGood, DoorsGood, NEW c \in Client, NEW s, registration_options(c, s)
  PROVE  CapGood'
<1>1. PICK new : new = started + 1
  OBVIOUS
<1>2. new \notin DOMAIN challenges
  BY <1>1 DEF DoorsGood
<1>3. /\ DOMAIN challenges' = DOMAIN challenges \cup {new}
      /\ \A st \in DOMAIN challenges : challenges'[st] = challenges[st]
      /\ challenges'[new].purpose = "register" /\ challenges'[new].client = c
      /\ overlapped \subseteq overlapped' /\ (Registering(c) # {} => c \in overlapped')
      /\ UNCHANGED passkeys
  BY <1>1, <1>2 DEF registration_options, issue_challenge
<1>4. Cardinality(list_for_client(c)) < MAX_PASSKEYS_PER_CLIENT
  BY DEF registration_options, UnderCap
<1>5. \A x : list_for_client(x)' = list_for_client(x)
  BY <1>3 DEF list_for_client
<1>6. \A x \in Client : x # c => Registering(x)' = Registering(x)
  BY <1>2, <1>3 DEF Registering
<1>7. Registering(c) = {} => Registering(c)' = {new}
  BY <1>2, <1>3 DEF Registering
<1>8. ASSUME NEW x \in Client \ overlapped'
      PROVE  \/ /\ Registering(x)' = {}
                /\ Cardinality(list_for_client(x)') <= MAX_PASSKEYS_PER_CLIENT
             \/ /\ \E st \in DOMAIN challenges' : Registering(x)' = {st}
                /\ Cardinality(list_for_client(x)') < MAX_PASSKEYS_PER_CLIENT
  <2>1. CASE x = c
    BY <1>3, <1>4, <1>5, <1>7, <2>1
  <2>2. CASE x # c
    BY <1>3, <1>5, <1>6, <2>2 DEF CapGood
  <2> QED BY <2>1, <2>2
<1> QED BY <1>3, <1>8 DEF CapGood

\* A registration is finished: the one that was under way took one place.
LEMMA CapRegistered ==
  ASSUME CapGood, DoorsGood, NEW st \in DOMAIN challenges, NEW k, NEW s,
         verify_registration(st, k, s)
  PROVE  CapGood'
<1>1. PICK c : c = challenges[st].client
  OBVIOUS
<1>2. /\ c \in Client /\ st \in Registering(c) /\ k \notin DOMAIN passkeys
      /\ passkeys' = [x \in DOMAIN passkeys \cup {k} |-> IF x = k THEN c ELSE passkeys[x]]
      /\ UNCHANGED overlapped
  BY <1>1 DEF verify_registration, Registering, DoorsGood
<1>3. /\ DOMAIN challenges' = DOMAIN challenges \ {st}
      /\ \A x \in DOMAIN challenges' : challenges'[x] = challenges[x]
  BY ChallengeSpent DEF verify_registration
<1>4. \A x \in Client : x # c => Registering(x)' = Registering(x)
                                 /\ list_for_client(x)' = list_for_client(x)
  <2> SUFFICES ASSUME NEW x \in Client, x # c
               PROVE  Registering(x)' = Registering(x) /\ list_for_client(x)' = list_for_client(x)
    OBVIOUS
  <2>1. st \notin Registering(x)
    BY <1>1 DEF Registering
  <2>2. Registering(x)' = Registering(x)
    BY <1>3, <2>1 DEF Registering
  <2>3. list_for_client(x)' = list_for_client(x)
    BY <1>2 DEF list_for_client
  <2> QED BY <2>2, <2>3
<1>5. Registering(c)' = Registering(c) \ {st} /\ list_for_client(c)' = list_for_client(c) \cup {k}
  BY <1>2, <1>3 DEF Registering, list_for_client
<1>6. IsFiniteSet(DOMAIN passkeys')
  BY <1>2, FS_AddElement DEF CapGood
<1>7. k \notin list_for_client(c)
  BY <1>2 DEF list_for_client
<1>8. /\ Cardinality(list_for_client(c)) \in Nat
      /\ Cardinality(list_for_client(c)') = Cardinality(list_for_client(c)) + 1
  BY <1>5, <1>7, ListFinite, FS_AddElement DEF CapGood
<1>9. ASSUME NEW x \in Client \ overlapped'
      PROVE  \/ /\ Registering(x)' = {}
                /\ Cardinality(list_for_client(x)') <= MAX_PASSKEYS_PER_CLIENT
             \/ /\ \E y \in DOMAIN challenges' : Registering(x)' = {y}
                /\ Cardinality(list_for_client(x)') < MAX_PASSKEYS_PER_CLIENT
  <2>1. CASE x = c
    <3>1. /\ \E y \in DOMAIN challenges : Registering(c) = {y}
          /\ Cardinality(list_for_client(c)) < MAX_PASSKEYS_PER_CLIENT
      BY <1>2, <2>1 DEF CapGood
    <3>2. Registering(c)' = {}
      BY <1>2, <1>5, <3>1
    <3> QED BY <1>8, <2>1, <3>1, <3>2, PasskeyAssumption
  <2>2. CASE x # c
    <3>1. Registering(x)' \subseteq DOMAIN challenges'
      BY DEF Registering
    <3> QED BY <1>2, <1>4, <2>2, <3>1 DEF CapGood
  <2> QED BY <2>1, <2>2
<1> QED BY <1>6, <1>9 DEF CapGood

\* A passkey is deleted.
LEMMA CapDeleted ==
  ASSUME CapGood, NEW k, NEW c, delete_passkey(k, c)
  PROVE  CapGood'
<1>1. passkeys' = [x \in DOMAIN passkeys \ {k} |-> passkeys[x]] /\ UNCHANGED <<challenges, overlapped>>
  BY DEF delete_passkey
<1>2. IsFiniteSet(DOMAIN passkeys')
  BY <1>1, FS_RemoveElement DEF CapGood
<1>3. ASSUME NEW x
      PROVE  /\ Cardinality(list_for_client(x)) \in Nat /\ Cardinality(list_for_client(x)') \in Nat
             /\ Cardinality(list_for_client(x)') <= Cardinality(list_for_client(x))
             /\ Registering(x)' = Registering(x)
  <2>1. list_for_client(x)' \subseteq list_for_client(x)
    BY <1>1 DEF list_for_client
  <2>2. IsFiniteSet(list_for_client(x)) /\ Cardinality(list_for_client(x)) \in Nat
    BY ListFinite DEF CapGood
  <2>3. Registering(x)' = Registering(x)
    BY <1>1 DEF Registering
  <2> QED BY <2>1, <2>2, <2>3, FS_Subset, FS_CardinalityType
<1> QED BY <1>1, <1>2, <1>3, PasskeyAssumption DEF CapGood

\* The steps of the passkeys and their challenges: nothing, a challenge to
\* register or to sign in with is issued, one is consumed, a registration is
\* finished, a passkey is deleted, or the challenges are lost in a restart.
PasskeyMove ==
  \/ UNCHANGED <<passkeys, challenges, overlapped>>
  \/ \E c \in Client : \E s : registration_options(c, s)
  \/ (\E c, s : issue_challenge("authenticate", c, s)) /\ UNCHANGED <<passkeys, overlapped>>
  \/ (\E st \in DOMAIN challenges : consume_challenge(st)) /\ UNCHANGED <<passkeys, overlapped>>
  \/ \E st \in DOMAIN challenges : \E k, s : verify_registration(st, k, s)
  \/ \E k, c : delete_passkey(k, c)
  \/ DOMAIN challenges' = {} /\ UNCHANGED <<passkeys, overlapped>>

\* Every handler makes one of them.
LEMMA PasskeyMoves ==
  ASSUME ClientsGood, RequestsGood, [DashNext]_dashVars
  PROVE  PasskeyMove
<1> USE DEF dynVars, passkeyVars, panelVars
<1>1. ASSUME UNCHANGED <<passkeys, challenges, overlapped>> PROVE PasskeyMove
  BY <1>1 DEF PasskeyMove
<1>2. ASSUME NEW c \in Client, login_post(c) PROVE PasskeyMove
  BY <1>1, <1>2 DEF login_post
<1>3. ASSUME NEW c \in Client, api_passkeys_auth_options(c) PROVE PasskeyMove
  BY <1>3 DEF api_passkeys_auth_options, authentication_options, PasskeyMove
<1>4. ASSUME NEW c \in Client, oauth_passkey_options(c) PROVE PasskeyMove
  <2>1. PICK o : o = _passkey_owner(c)
    OBVIOUS
  <2>2. issue_challenge("authenticate", o, NoSession) /\ UNCHANGED <<passkeys, overlapped>>
    BY <1>4, <2>1 DEF oauth_passkey_options, authentication_options
  <2> QED BY <2>2 DEF PasskeyMove
<1>5. ASSUME NEW c \in Client, oauth_passkey_register_options(c) PROVE PasskeyMove
  <2>1. PICK o : o = _passkey_owner(c)
    OBVIOUS
  <2>2. o \in Client /\ registration_options(o, NoSession)
    BY <1>5, <2>1, OwnerIsClient DEF oauth_passkey_register_options
  <2> QED BY <2>2 DEF PasskeyMove
<1>6. ASSUME NEW c \in Client, auth_revoke(c) PROVE PasskeyMove
  BY <1>1, <1>6 DEF auth_revoke
<1>7. ASSUME NEW c \in Client, NEW st \in DOMAIN challenges, NEW k \in Key,
             api_passkeys_auth_verify(c, st, k)
      PROVE PasskeyMove
  <2>1. consume_challenge(st) /\ UNCHANGED <<passkeys, overlapped>>
    BY <1>7 DEF api_passkeys_auth_verify, verify_authentication
  <2> QED BY <2>1 DEF PasskeyMove
<1>8. ASSUME NEW c \in Client, NEW st \in DOMAIN challenges, NEW k \in Key,
             oauth_passkey_verify(c, st, k)
      PROVE PasskeyMove
  <2>1. consume_challenge(st) /\ UNCHANGED <<passkeys, overlapped>>
    BY <1>8 DEF oauth_passkey_verify, verify_authentication
  <2> QED BY <2>1 DEF PasskeyMove
<1>9. ASSUME NEW st \in DOMAIN challenges, passkey_refused(st) PROVE PasskeyMove
  <2>1. consume_challenge(st) /\ UNCHANGED <<passkeys, overlapped>>
    BY <1>9 DEF passkey_refused, ceremony_refused
  <2> QED BY <2>1 DEF PasskeyMove
<1>10. ASSUME NEW st \in DOMAIN challenges, NEW k \in Key, oauth_passkey_register_verify(st, k)
      PROVE PasskeyMove
  BY <1>10 DEF oauth_passkey_register_verify, PasskeyMove
<1>11. ASSUME NEW s \in DOMAIN sessions, load_expired(s) PROVE PasskeyMove
  BY <1>1, <1>11 DEF load_expired
<1>12. ASSUME NEW s \in DOMAIN sessions, logout(s) PROVE PasskeyMove
  BY <1>1, <1>12 DEF logout
<1>13. ASSUME NEW s \in DOMAIN sessions, row_expires(s) PROVE PasskeyMove
  BY <1>1, <1>13 DEF row_expires
<1>14. ASSUME NEW s \in DOMAIN sessions, security_end_session(s) PROVE PasskeyMove
  BY <1>1, <1>14 DEF security_end_session
<1>15. ASSUME NEW b \in DOMAIN bearers, bearer_expires(b) PROVE PasskeyMove
  BY <1>1, <1>15 DEF bearer_expires
<1>16. ASSUME NEW s \in DOMAIN slugs, link_expires(s) PROVE PasskeyMove
  BY <1>1, <1>16 DEF link_expires
<1>17. ASSUME NEW r \in Slot, turned_down(r) PROVE PasskeyMove
  BY <1>1, <1>17 DEF turned_down
<1>18. ASSUME NEW r \in Slot, refresh_post(r) PROVE PasskeyMove
  BY <1>1, <1>18 DEF refresh_post
<1>19. ASSUME NEW r \in Slot, tokens_create(r) PROVE PasskeyMove
  BY <1>1, <1>19 DEF tokens_create
<1>20. ASSUME NEW r \in Slot, connectors_mint(r) PROVE PasskeyMove
  BY <1>1, <1>20 DEF connectors_mint
<1>21. ASSUME NEW r \in Slot, api_passkeys_register_options(r) PROVE PasskeyMove
  <2>1. requests[r].op = "panel"
    BY <1>21 DEF api_passkeys_register_options, Resume
  <2>2. PICK c : c = requests[r].client
    OBVIOUS
  <2>3. PICK s : s = requests[r].session
    OBVIOUS
  <2>4. c \in Client /\ registration_options(c, s)
    BY <1>21, <2>1, <2>2, <2>3 DEF api_passkeys_register_options, RequestsGood
  <2> QED BY <2>4 DEF PasskeyMove
<1>22. ASSUME NEW r \in Slot, dcr_answer(r) PROVE PasskeyMove
  BY <1>1, <1>22 DEF dcr_answer
<1>23. ASSUME NEW r \in Slot, dcr_dies(r) PROVE PasskeyMove
  <2>1. DOMAIN challenges' = {} /\ UNCHANGED <<passkeys, overlapped>>
    BY <1>23 DEF dcr_dies, Reboot, challenges_lost
  <2> QED BY <2>1 DEF PasskeyMove
<1>24. ASSUME NEW r \in Slot, NEW s \in DOMAIN sessions, NEW op \in {"panel", "refresh"},
             panel_request(r, op, s)
      PROVE PasskeyMove
  BY <1>1, <1>24 DEF panel_request
<1>25. ASSUME NEW r \in Slot, NEW s \in DOMAIN slugs, dcr_request(r, s) PROVE PasskeyMove
  BY <1>1, <1>25 DEF dcr_request
<1>26. ASSUME NEW r \in Slot, NEW s \in DOMAIN slugs, connectors_slug_delete(r, s)
      PROVE PasskeyMove
  BY <1>1, <1>26 DEF connectors_slug_delete
<1>27. ASSUME NEW r \in Slot, NEW b \in DOMAIN bearers, tokens_revoke(r, b) PROVE PasskeyMove
  BY <1>1, <1>27 DEF tokens_revoke
<1>28. ASSUME NEW r \in Slot, NEW d \in DOMAIN clients, connectors_revoke(r, d) PROVE PasskeyMove
  BY <1>1, <1>28 DEF connectors_revoke
<1>29. ASSUME NEW r \in Slot, NEW k \in DOMAIN passkeys, api_passkeys_delete(r, k)
      PROVE PasskeyMove
  <2>1. PICK c : c = requests[r].client
    OBVIOUS
  <2>2. delete_passkey(k, c)
    BY <1>29, <2>1 DEF api_passkeys_delete
  <2> QED BY <2>2 DEF PasskeyMove
<1>30. ASSUME NEW r \in Slot, NEW st \in DOMAIN challenges, NEW k \in Key,
             api_passkeys_register_verify(r, st, k)
      PROVE PasskeyMove
  <2>1. PICK s : s = requests[r].session
    OBVIOUS
  <2>2. verify_registration(st, k, s)
    BY <1>30, <2>1 DEF api_passkeys_register_verify
  <2> QED BY <2>2 DEF PasskeyMove
<1>31. CASE restart
  <2>1. DOMAIN challenges' = {} /\ UNCHANGED <<passkeys, overlapped>>
    BY <1>31 DEF restart, Reboot, challenges_lost
  <2> QED BY <2>1 DEF PasskeyMove
<1>32. CASE UNCHANGED dashVars
  BY <1>1, <1>32 DEF dashVars
<1> QED BY <1>2, <1>3, <1>4, <1>5, <1>6, <1>7, <1>8, <1>9, <1>10, <1>11, <1>12, <1>13, <1>14,
         <1>15, <1>16, <1>17, <1>18, <1>19, <1>20, <1>21, <1>22, <1>23, <1>24, <1>25, <1>26,
         <1>27, <1>28, <1>29, <1>30, <1>31, <1>32
        DEF DashNext, Step

\* The count behind the cap is kept by every step.
LEMMA CapKept ==
  ASSUME CapGood, DoorsGood, ClientsGood, RequestsGood, [DashNext]_dashVars
  PROVE  CapGood'
<1>1. CASE UNCHANGED <<passkeys, challenges, overlapped>>
  BY <1>1 DEF CapGood, Registering, list_for_client
<1>2. ASSUME NEW c \in Client, NEW s, registration_options(c, s) PROVE CapGood'
  BY <1>2, CapRegistrationIssued
<1>3. ASSUME NEW c, NEW s, issue_challenge("authenticate", c, s), UNCHANGED <<passkeys, overlapped>>
      PROVE  CapGood'
  BY <1>3, CapSignInIssued
<1>4. ASSUME NEW st \in DOMAIN challenges, consume_challenge(st), UNCHANGED <<passkeys, overlapped>>
      PROVE  CapGood'
  BY <1>4, ChallengeSpent, CapChallengesShrink
<1>5. ASSUME NEW st \in DOMAIN challenges, NEW k, NEW s, verify_registration(st, k, s) PROVE CapGood'
  BY <1>5, CapRegistered
<1>6. ASSUME NEW k, NEW c, delete_passkey(k, c) PROVE CapGood'
  BY <1>6, CapDeleted
<1>7. CASE DOMAIN challenges' = {} /\ UNCHANGED <<passkeys, overlapped>>
  BY <1>7, CapChallengesShrink
<1> QED BY <1>1, <1>2, <1>3, <1>4, <1>5, <1>6, <1>7, PasskeyMoves DEF PasskeyMove

\* A session that starts is its own client's.
LEMMA StartGains ==
  ASSUME NEW c \in DOMAIN clients, _start_session(c), UNCHANGED <<slugs, clients>>
  PROVE  GainsNothing
<1>1. \A b \in DOMAIN bearers' \ DOMAIN bearers : bearers'[b].client = c
  BY DEF _start_session, issue, With
<1>2. \A s \in DOMAIN sessions' \ DOMAIN sessions : sessions'[s].client = c
  BY DEF _start_session, With
<1> QED BY <1>1, <1>2 DEF GainsNothing, GainsNothingOf

\* No step gives anything to a client that is not in the registry.
LEMMA NothingGained ==
  ASSUME ClientsGood, SessionsGood, LinksGood, RequestsGood, [DashNext]_dashVars
  PROVE  GainsNothing
<1> USE DEF dynVars, passkeyVars, panelVars
<1>1. ASSUME NEW c \in Client, login_post(c) PROVE GainsNothing
  BY <1>1, StartGains DEF login_post, verify
<1>2. ASSUME NEW c \in Client, api_passkeys_auth_options(c) PROVE GainsNothing
  BY <1>2 DEF api_passkeys_auth_options, GainsNothing, GainsNothingOf
<1>3. ASSUME NEW c \in Client, oauth_passkey_options(c) PROVE GainsNothing
  BY <1>3 DEF oauth_passkey_options, GainsNothing, GainsNothingOf
<1>4. ASSUME NEW c \in Client, oauth_passkey_register_options(c) PROVE GainsNothing
  BY <1>4 DEF oauth_passkey_register_options, GainsNothing, GainsNothingOf
<1>5. ASSUME NEW c \in Client, auth_revoke(c) PROVE GainsNothing
  <2>1. /\ DOMAIN bearers' \subseteq DOMAIN bearers /\ DOMAIN sessions' \subseteq DOMAIN sessions
        /\ DOMAIN slugs' \subseteq DOMAIN slugs /\ DOMAIN clients' \subseteq DOMAIN clients
    BY <1>5 DEF auth_revoke, revoke
  <2> QED BY <2>1 DEF GainsNothing, GainsNothingOf
<1>6. ASSUME NEW c \in Client, NEW st \in DOMAIN challenges, NEW k \in Key,
             api_passkeys_auth_verify(c, st, k)
      PROVE GainsNothing
  <2>1. c \in DOMAIN clients /\ UNCHANGED <<slugs, clients>>
    BY <1>6 DEF api_passkeys_auth_verify, verify
  <2>2. CASE passkeys[k] = c
    BY <1>6, <2>1, <2>2, StartGains DEF api_passkeys_auth_verify
  <2>3. CASE passkeys[k] # c
    BY <1>6, <2>1, <2>3 DEF api_passkeys_auth_verify, GainsNothing, GainsNothingOf
  <2> QED BY <2>2, <2>3
<1>7. ASSUME NEW c \in Client, NEW st \in DOMAIN challenges, NEW k \in Key,
             oauth_passkey_verify(c, st, k)
      PROVE GainsNothing
  BY <1>7 DEF oauth_passkey_verify, GainsNothing, GainsNothingOf
<1>8. ASSUME NEW st \in DOMAIN challenges, passkey_refused(st) PROVE GainsNothing
  BY <1>8 DEF passkey_refused, GainsNothing, GainsNothingOf
<1>9. ASSUME NEW st \in DOMAIN challenges, NEW k \in Key, oauth_passkey_register_verify(st, k)
      PROVE GainsNothing
  BY <1>9 DEF oauth_passkey_register_verify, GainsNothing, GainsNothingOf
<1>10. ASSUME NEW s \in DOMAIN sessions, load_expired(s) PROVE GainsNothing
  <2>1. /\ DOMAIN bearers' \subseteq DOMAIN bearers /\ DOMAIN sessions' \subseteq DOMAIN sessions
        /\ DOMAIN slugs' \subseteq DOMAIN slugs /\ DOMAIN clients' \subseteq DOMAIN clients
    BY <1>10 DEF load_expired, Without
  <2> QED BY <2>1 DEF GainsNothing, GainsNothingOf
<1>11. ASSUME NEW s \in DOMAIN sessions, logout(s) PROVE GainsNothing
  <2>1. /\ DOMAIN bearers' \subseteq DOMAIN bearers /\ DOMAIN sessions' \subseteq DOMAIN sessions
        /\ DOMAIN slugs' \subseteq DOMAIN slugs /\ DOMAIN clients' \subseteq DOMAIN clients
    BY <1>11 DEF logout, Without, revoke_bearer
  <2> QED BY <2>1 DEF GainsNothing, GainsNothingOf
<1>12. ASSUME NEW s \in DOMAIN sessions, row_expires(s) PROVE GainsNothing
  <2>1. /\ DOMAIN bearers' \subseteq DOMAIN bearers /\ DOMAIN sessions' \subseteq DOMAIN sessions
        /\ DOMAIN slugs' \subseteq DOMAIN slugs /\ DOMAIN clients' \subseteq DOMAIN clients
    BY <1>12 DEF row_expires, TimeUp
  <2> QED BY <2>1 DEF GainsNothing, GainsNothingOf
<1>13. ASSUME NEW s \in DOMAIN sessions, security_end_session(s) PROVE GainsNothing
  <2>1. /\ DOMAIN bearers' \subseteq DOMAIN bearers /\ DOMAIN sessions' \subseteq DOMAIN sessions
        /\ DOMAIN slugs' \subseteq DOMAIN slugs /\ DOMAIN clients' \subseteq DOMAIN clients
    BY <1>13 DEF security_end_session, revoke_bearer
  <2> QED BY <2>1 DEF GainsNothing, GainsNothingOf
<1>14. ASSUME NEW b \in DOMAIN bearers, bearer_expires(b) PROVE GainsNothing
  <2>1. /\ DOMAIN bearers' \subseteq DOMAIN bearers /\ DOMAIN sessions' \subseteq DOMAIN sessions
        /\ DOMAIN slugs' \subseteq DOMAIN slugs /\ DOMAIN clients' \subseteq DOMAIN clients
    BY <1>14 DEF bearer_expires, Without, TimeUp
  <2> QED BY <2>1 DEF GainsNothing, GainsNothingOf
<1>15. ASSUME NEW s \in DOMAIN slugs, link_expires(s) PROVE GainsNothing
  <2>1. /\ DOMAIN bearers' \subseteq DOMAIN bearers /\ DOMAIN sessions' \subseteq DOMAIN sessions
        /\ DOMAIN slugs' \subseteq DOMAIN slugs /\ DOMAIN clients' \subseteq DOMAIN clients
    BY <1>15 DEF link_expires, slug_expires
  <2> QED BY <2>1 DEF GainsNothing, GainsNothingOf
<1>16. ASSUME NEW r \in Slot, turned_down(r) PROVE GainsNothing
  BY <1>16 DEF turned_down, GainsNothing, GainsNothingOf
<1>17. ASSUME NEW r \in Slot, refresh_post(r) PROVE GainsNothing
  <2>1. PICK c : c = requests[r].client
    OBVIOUS
  <2>2. PICK s : s = requests[r].session
    OBVIOUS
  <2>3. UNCHANGED <<slugs, clients>>
    BY <1>17 DEF refresh_post
  <2>4. CASE Secret(r)
    <3>1. c \in DOMAIN clients /\ issue(Replaced(s), c, s, FALSE) /\ update_bearer(s, issued + 1)
      BY <1>17, <2>1, <2>2, <2>4 DEF refresh_post, Secret, verify
    <3>2. \A b \in DOMAIN bearers' \ DOMAIN bearers : bearers'[b].client = c
      BY <3>1 DEF issue, With, Replaced
    <3>3. DOMAIN sessions' = DOMAIN sessions
      BY <3>1 DEF update_bearer
    <3> QED BY <2>3, <3>1, <3>2, <3>3 DEF GainsNothing, GainsNothingOf
  <2>5. CASE ~Secret(r)
    <3>1. sessions' = Without(sessions, s) /\ UNCHANGED bearers
      BY <1>17, <2>2, <2>5 DEF refresh_post
    <3>2. DOMAIN sessions' \subseteq DOMAIN sessions
      BY <3>1, WithoutKey
    <3> QED BY <2>3, <3>1, <3>2 DEF GainsNothing, GainsNothingOf
  <2> QED BY <2>4, <2>5
<1>18. ASSUME NEW r \in Slot, tokens_create(r) PROVE GainsNothing
  <2>1. PICK c : c = requests[r].client
    OBVIOUS
  <2>2. /\ c \in DOMAIN clients /\ issue(bearers, c, requests[r].session, TRUE)
        /\ UNCHANGED <<slugs, clients, sessions>>
    BY <1>18, <2>1 DEF tokens_create, HasCode
  <2>3. \A b \in DOMAIN bearers' \ DOMAIN bearers : bearers'[b].client = c
    BY <2>2 DEF issue, With
  <2> QED BY <2>2, <2>3 DEF GainsNothing, GainsNothingOf
<1>19. ASSUME NEW r \in Slot, connectors_mint(r) PROVE GainsNothing
  <2>1. PICK c : c = requests[r].client
    OBVIOUS
  <2>2. c \in DOMAIN clients /\ mint(c) /\ UNCHANGED <<clients, sessions, bearers>>
    BY <1>19, <2>1 DEF connectors_mint, HasCode
  <2>3. minted \in Nat /\ DOMAIN slugs = 1..minted
    BY DEF LinksGood
  <2>4. \A s \in DOMAIN slugs' \ DOMAIN slugs : slugs'[s].owner = c
    BY <2>2, <2>3 DEF mint
  <2> QED BY <2>2, <2>4 DEF GainsNothing, GainsNothingOf
<1>20. ASSUME NEW r \in Slot, api_passkeys_register_options(r) PROVE GainsNothing
  BY <1>20 DEF api_passkeys_register_options, GainsNothing, GainsNothingOf
<1>21. ASSUME NEW r \in Slot, dcr_answer(r) PROVE GainsNothing
  <2>1. PICK o : o = requests[r].owner
    OBVIOUS
  <2>2. o \in DOMAIN clients /\ dcr_register(requests[r].slug, o) /\ UNCHANGED <<sessions, bearers>>
    BY <1>21, <2>1 DEF dcr_answer, dcr_register, CanCreate
  <2>3. DOMAIN slugs' = DOMAIN slugs
    BY <2>2 DEF dcr_register, consume
  <2>4. \A d \in DOMAIN clients' \ DOMAIN clients : clients'[d] = o
    BY <2>2 DEF dcr_register, create_dynamic
  <2> QED BY <2>2, <2>3, <2>4 DEF GainsNothing, GainsNothingOf
<1>22. ASSUME NEW r \in Slot, dcr_dies(r) PROVE GainsNothing
  <2>1. PICK o : o = requests[r].owner
    OBVIOUS
  <2>2. /\ o \in DOMAIN clients /\ create_dynamic(o, made + 1)
        /\ DOMAIN bearers' \subseteq DOMAIN bearers /\ UNCHANGED <<sessions, slugs>>
    BY <1>22, <2>1 DEF dcr_dies, dcr_register_dies, CanCreate, Reboot
  <2>3. \A d \in DOMAIN clients' \ DOMAIN clients : clients'[d] = o
    BY <2>2 DEF create_dynamic
  <2> QED BY <2>2, <2>3 DEF GainsNothing, GainsNothingOf
<1>23. ASSUME NEW r \in Slot, NEW s \in DOMAIN sessions, NEW op \in {"panel", "refresh"},
             panel_request(r, op, s)
      PROVE GainsNothing
  BY <1>23 DEF panel_request, GainsNothing, GainsNothingOf
<1>24. ASSUME NEW r \in Slot, NEW s \in DOMAIN slugs, dcr_request(r, s) PROVE GainsNothing
  BY <1>24 DEF dcr_request, GainsNothing, GainsNothingOf
<1>25. ASSUME NEW r \in Slot, NEW s \in DOMAIN slugs, connectors_slug_delete(r, s)
      PROVE GainsNothing
  <2>1. /\ DOMAIN bearers' \subseteq DOMAIN bearers /\ DOMAIN sessions' \subseteq DOMAIN sessions
        /\ DOMAIN slugs' \subseteq DOMAIN slugs /\ DOMAIN clients' \subseteq DOMAIN clients
    BY <1>25 DEF connectors_slug_delete, delete_unused
  <2> QED BY <2>1 DEF GainsNothing, GainsNothingOf
<1>26. ASSUME NEW r \in Slot, NEW b \in DOMAIN bearers, tokens_revoke(r, b) PROVE GainsNothing
  <2>1. /\ DOMAIN bearers' \subseteq DOMAIN bearers /\ DOMAIN sessions' \subseteq DOMAIN sessions
        /\ DOMAIN slugs' \subseteq DOMAIN slugs /\ DOMAIN clients' \subseteq DOMAIN clients
    BY <1>26 DEF tokens_revoke, revoke_bearer
  <2> QED BY <2>1 DEF GainsNothing, GainsNothingOf
<1>27. ASSUME NEW r \in Slot, NEW d \in DOMAIN clients, connectors_revoke(r, d)
      PROVE GainsNothing
  <2>1. /\ DOMAIN bearers' \subseteq DOMAIN bearers /\ DOMAIN sessions' \subseteq DOMAIN sessions
        /\ DOMAIN slugs' \subseteq DOMAIN slugs /\ DOMAIN clients' \subseteq DOMAIN clients
    BY <1>27 DEF connectors_revoke, revoke
  <2> QED BY <2>1 DEF GainsNothing, GainsNothingOf
<1>28. ASSUME NEW r \in Slot, NEW k \in DOMAIN passkeys, api_passkeys_delete(r, k)
      PROVE GainsNothing
  BY <1>28 DEF api_passkeys_delete, GainsNothing, GainsNothingOf
<1>29. ASSUME NEW r \in Slot, NEW st \in DOMAIN challenges, NEW k \in Key,
             api_passkeys_register_verify(r, st, k)
      PROVE GainsNothing
  BY <1>29 DEF api_passkeys_register_verify, GainsNothing, GainsNothingOf
<1>30. CASE restart
  <2>1. /\ DOMAIN bearers' \subseteq DOMAIN bearers /\ DOMAIN sessions' \subseteq DOMAIN sessions
        /\ DOMAIN slugs' \subseteq DOMAIN slugs /\ DOMAIN clients' \subseteq DOMAIN clients
    BY <1>30 DEF restart, Reboot
  <2> QED BY <2>1 DEF GainsNothing, GainsNothingOf
<1>31. CASE UNCHANGED dashVars
  BY <1>31 DEF dashVars, GainsNothing, GainsNothingOf
<1> QED BY <1>1, <1>2, <1>3, <1>4, <1>5, <1>6, <1>7, <1>8, <1>9, <1>10, <1>11, <1>12, <1>13,
         <1>14, <1>15, <1>16, <1>17, <1>18, <1>19, <1>20, <1>21, <1>22, <1>23, <1>24, <1>25,
         <1>26, <1>27, <1>28, <1>29, <1>30, <1>31
        DEF DashNext, Step

-----------------------------------------------------------------------------
\* The inductive invariant of the panel.
DashGood ==
  ClientsGood /\ RequestsGood /\ LinksGood /\ SessionsGood /\ DoorsGood /\ CapGood

\* It holds when the server starts.
LEMMA DashInitGood ==
  ASSUME DashInit
  PROVE  DashGood
<1>1. /\ made \in 0..MaxDerived
      /\ DOMAIN clients = Owner \cup 1..made /\ \A c \in DOMAIN clients : clients[c] \in Owner \cup {NoOne}
      /\ minted = 0 /\ slugs = <<>> /\ registered = {} /\ stray = 1..made
  BY DEF DashInit, DynInit
<1>2. /\ passkeys = <<>> /\ challenges = <<>> /\ started = 0 /\ overlapped = {}
      /\ sessions = <<>> /\ bearers = <<>> /\ requests = [r \in Slot |-> Idle]
      /\ opened = 0 /\ issued = 0 /\ signedOut = {} /\ doors = {}
  BY DEF DashInit, PasskeyInit
<1>3. 1..made \subseteq Derived
  BY <1>1, DynRegAssumption DEF Derived
<1>4. ClientsGood
  <2>1. DOMAIN clients \cap Derived \subseteq 1..made
    BY <1>1, DynRegAssumption DEF Derived
  <2> QED BY <1>1, <1>3, <2>1 DEF ClientsGood, Client
<1>5. RequestsGood
  BY <1>2 DEF RequestsGood, Idle
<1>6. LinksGood
  <2>1. DOMAIN clients \cap Derived \subseteq stray
    BY <1>1, DynRegAssumption DEF Derived
  <2> QED BY <1>1, <1>3, <2>1, DynRegAssumption DEF LinksGood, LinkHandsOutOnce
<1>7. SessionsGood
  BY <1>2, DashboardAssumption DEF SessionsGood
<1>8. DoorsGood
  BY <1>2, PasskeyAssumption DEF DoorsGood, PasskeyOpensOwnDoor
<1>9. CapGood
  <2>1. \A c : Registering(c) = {} /\ list_for_client(c) = {}
    BY <1>2 DEF Registering, list_for_client
  <2>2. DOMAIN passkeys = {}
    BY <1>2
  <2> QED BY <2>1, <2>2, FS_EmptySet, PasskeyAssumption DEF CapGood
<1> QED BY <1>4, <1>5, <1>6, <1>7, <1>8, <1>9 DEF DashGood

\* It is kept by every step.
LEMMA DashStepGood ==
  ASSUME DashGood, [DashNext]_dashVars
  PROVE  DashGood'
BY ClientsKept, RequestsKept, LinksKept, SessionsKept, DoorsKept, CapKept DEF DashGood

\* The invariant of the panel holds of every reachable state.
THEOREM DashInductive == DashSpec => []DashGood
BY DashInitGood, DashStepGood, PTL DEF DashSpec

\* Every row, bearer, challenge and link of the panel keeps its type, and none
\* carries an id that was never given out.
THEOREM DashTypeCorrect == DashSpec => []DashTypeOK
<1>1. ASSUME DashGood PROVE DashTypeOK
  <2>1. DynTypeOK
    <3>1. 1..minted \subseteq Slug
      BY <1>1, DynRegAssumption DEF DashGood, LinksGood, Slug
    <3>2. registered \subseteq [slug : Slug, client : Derived]
      BY <1>1, <3>1 DEF DashGood, LinksGood
    <3> QED BY <1>1, <3>2 DEF DashGood, ClientsGood, LinksGood, DynTypeOK
  <2> QED BY <1>1, <2>1
          DEF DashGood, SessionsGood, DoorsGood, SessionRow, BearerRow, DashTypeOK
<1> QED BY <1>1, DashInductive, PTL

\* A link hands out credentials at most once, through POST /register, its
\* races, deletions, expiries and crashes, and no registered client is
\* unaccounted for.
THEOREM LinksHandOutOnce == DashSpec => []LinkHandsOutOnce
<1>1. ASSUME DashGood PROVE LinkHandsOutOnce
  BY <1>1 DEF DashGood, LinksGood
<1> QED BY <1>1, DashInductive, PTL

\* logout ends the session for good: no refresh that was suspended meanwhile
\* brings the row back or gives it a bearer.
THEOREM SignOutIsFinal == DashSpec => []SignedOutStaysOut
<1>1. ASSUME DashGood PROVE SignedOutStaysOut
  <2> SUFFICES ASSUME NEW s \in signedOut
               PROVE  /\ s \notin DOMAIN sessions
                      /\ \A b \in DOMAIN bearers :
                           bearers[b].session = s /\ ~bearers[b].named =>
                             bearers[b].ending \/ bearers[b].replaced
    BY DEF SignedOutStaysOut
  <2> QED BY <1>1 DEF DashGood, SessionsGood, Over
<1> QED BY <1>1, DashInductive, PTL

\* A challenge opens one door, and a passkey only its client's or that of a
\* client that delegates to it (api_passkeys_auth_verify, oauth_passkey_verify).
THEOREM PasskeysOpenOwnDoor == DashSpec => []PasskeyOpensOwnDoor
<1>1. ASSUME DashGood PROVE PasskeyOpensOwnDoor
  BY <1>1 DEF DashGood, DoorsGood
<1> QED BY <1>1, DashInductive, PTL

\* The cap that registration_options reads, and verify_registration does not,
\* is passed only by registrations of one client that overlap.
THEOREM CapHoldsUnlessOverlap == DashSpec => []CapUnlessOverlap
<1>1. ASSUME DashGood PROVE CapUnlessOverlap
  <2> SUFFICES ASSUME NEW c \in Client, c \notin overlapped
               PROVE  ~(Cardinality(list_for_client(c)) > MAX_PASSKEYS_PER_CLIENT)
    BY DEF CapUnlessOverlap
  <2>1. Cardinality(list_for_client(c)) \in Nat
    BY <1>1, ListFinite DEF DashGood, CapGood
  <2>2. Cardinality(list_for_client(c)) <= MAX_PASSKEYS_PER_CLIENT
    BY <1>1, <2>1, PasskeyAssumption DEF DashGood, CapGood
  <2> QED BY <2>1, <2>2, PasskeyAssumption
<1> QED BY <1>1, DashInductive, PTL

\* A client that was revoked gains no bearer, session, link or derived client
\* in any step, whichever of its handlers was suspended when it was revoked.
THEOREM RevokedNeverGains == DashSpec => RevokedGainsNothing
<1>1. ASSUME DashGood, [DashNext]_dashVars
      PROVE  \A c \in Client \ DOMAIN clients :
               /\ \A b \in DOMAIN bearers' \ DOMAIN bearers : bearers'[b].client # c
               /\ \A s \in DOMAIN sessions' \ DOMAIN sessions : sessions'[s].client # c
               /\ \A s \in DOMAIN slugs' \ DOMAIN slugs : slugs'[s].owner # c
               /\ \A d \in DOMAIN clients' \ DOMAIN clients : clients'[d] # c
  BY <1>1, NothingGained DEF DashGood, GainsNothing, GainsNothingOf
<1> QED BY <1>1, DashInductive, PTL DEF DashSpec, RevokedGainsNothing

\* The redirects of the pages lead to a page within two hops, whatever the row,
\* its bearer and the configuration are.
THEOREM PagesSettle == DashSpec => []BrowserSettles
<1>1. BrowserSettles
  <2> SUFFICES ASSUME NEW s \in Session, NEW engine \in BOOLEAN, NEW dcr \in BOOLEAN,
                      NEW page \in {"login", "refresh", "tokens", "chat", "connectors"}
               PROVE  Get(Get(Get(page, s, engine, dcr), s, engine, dcr), s, engine, dcr)
                        = Get(Get(page, s, engine, dcr), s, engine, dcr)
    BY DEF BrowserSettles
  <2> DEFINE land == IF engine THEN "chat" ELSE "tokens"
  <2>1. /\ Get("login", s, engine, dcr) = IfLive(s, land)
        /\ Get("refresh", s, engine, dcr) = IfLive(s, land)
        /\ Get("tokens", s, engine, dcr) = IfLive(s, "tokens")
        /\ Get("chat", s, engine, dcr) = IfLive(s, land)
        /\ Get("connectors", s, engine, dcr) = IF dcr THEN IfLive(s, "connectors") ELSE "tokens"
    BY DEF Get, login_get, refresh_get, tokens_get, chat_get, connectors_get, _default_landing
  <2>2. CASE ~SignedIn(s)
    <3>1. \A p : IfLive(s, p) = "login"
      BY <2>2 DEF IfLive
    <3> QED BY <2>1, <3>1
  <2>3. CASE SignedIn(s) /\ Live(s)
    <3>1. \A p : IfLive(s, p) = p
      BY <2>3 DEF IfLive
    <3> QED BY <2>1, <3>1
  <2>4. CASE SignedIn(s) /\ ~Live(s)
    <3>1. \A p : IfLive(s, p) = "refresh"
      BY <2>4 DEF IfLive
    <3> QED BY <2>1, <3>1
  <2> QED BY <2>2, <2>3, <2>4
<1> QED BY <1>1, PTL

-----------------------------------------------------------------------------
(* Two caps.  The one on named tokens is read in the step that issues the  *)
(* token, and holds.  The one on passkeys is read when a registration      *)
(* starts, and is exceeded by no more than the registrations under way.    *)

\* What a step does to the named tokens of client n: it adds none, or one while
\* they are below the cap.
NamedMove(n) ==
  \/ Named(n)' \subseteq Named(n)
  \/ /\ Cardinality(Named(n)) < NAMED_TOKEN_CAP
     /\ \E b : Named(n)' \subseteq Named(n) \cup {b}

\* The bearer of a session has no name.
LEMMA SessionNotNamed ==
  ASSUME NEW n \in Client, NEW c, _start_session(c)
  PROVE  NamedMove(n)
<1>1. \A b \in DOMAIN bearers' : bearers'[b].named => b \in DOMAIN bearers /\ bearers'[b] = bearers[b]
  BY DEF _start_session, issue, With
<1> QED BY <1>1 DEF NamedMove, Named

\* A bearer that is revoked keeps its name until its grace is over.
LEMMA EndingNamed ==
  ASSUME SessionsGood, NEW n \in Client, NEW x, revoke_bearer(x)
  PROVE  NamedMove(n)
<1>1. /\ DOMAIN bearers' = DOMAIN bearers
      /\ \A b \in DOMAIN bearers : bearers'[b].named = bearers[b].named /\ bearers'[b].client = bearers[b].client
  BY DEF revoke_bearer, SessionsGood, BearerRow
<1> QED BY <1>1 DEF NamedMove, Named

\* A restart keeps named tokens and adds none.
LEMMA RebootNamed ==
  ASSUME NEW n \in Client, Reboot
  PROVE  NamedMove(n)
BY DEF Reboot, NamedMove, Named

\* Only tokens_create adds a named token, and only below the cap.
LEMMA NamedMoves ==
  ASSUME SessionsGood, NEW n \in Client, [DashNext]_dashVars
  PROVE  NamedMove(n)
<1> USE DEF dynVars, passkeyVars, panelVars
<1>1. ASSUME UNCHANGED bearers PROVE NamedMove(n)
  BY <1>1 DEF NamedMove, Named
<1>2. ASSUME NEW c \in Client, login_post(c) PROVE NamedMove(n)
  BY <1>2, SessionNotNamed DEF login_post
<1>3. ASSUME NEW c \in Client, api_passkeys_auth_options(c) PROVE NamedMove(n)
  BY <1>1, <1>3 DEF api_passkeys_auth_options
<1>4. ASSUME NEW c \in Client, oauth_passkey_options(c) PROVE NamedMove(n)
  BY <1>1, <1>4 DEF oauth_passkey_options
<1>5. ASSUME NEW c \in Client, oauth_passkey_register_options(c) PROVE NamedMove(n)
  BY <1>1, <1>5 DEF oauth_passkey_register_options
<1>6. ASSUME NEW c \in Client, auth_revoke(c) PROVE NamedMove(n)
  BY <1>1, <1>6 DEF auth_revoke
<1>7. ASSUME NEW c \in Client, NEW st \in DOMAIN challenges, NEW k \in Key,
             api_passkeys_auth_verify(c, st, k)
      PROVE NamedMove(n)
  <2>1. _start_session(c) \/ UNCHANGED bearers
    BY <1>7 DEF api_passkeys_auth_verify
  <2> QED BY <1>1, <2>1, SessionNotNamed
<1>8. ASSUME NEW c \in Client, NEW st \in DOMAIN challenges, NEW k \in Key,
             oauth_passkey_verify(c, st, k)
      PROVE NamedMove(n)
  BY <1>1, <1>8 DEF oauth_passkey_verify
<1>9. ASSUME NEW st \in DOMAIN challenges, passkey_refused(st) PROVE NamedMove(n)
  BY <1>1, <1>9 DEF passkey_refused
<1>10. ASSUME NEW st \in DOMAIN challenges, NEW k \in Key, oauth_passkey_register_verify(st, k)
      PROVE NamedMove(n)
  BY <1>1, <1>10 DEF oauth_passkey_register_verify
<1>11. ASSUME NEW s \in DOMAIN sessions, load_expired(s) PROVE NamedMove(n)
  BY <1>1, <1>11 DEF load_expired
<1>12. ASSUME NEW s \in DOMAIN sessions, logout(s) PROVE NamedMove(n)
  BY <1>12, EndingNamed DEF logout
<1>13. ASSUME NEW s \in DOMAIN sessions, row_expires(s) PROVE NamedMove(n)
  BY <1>1, <1>13 DEF row_expires
<1>14. ASSUME NEW s \in DOMAIN sessions, security_end_session(s) PROVE NamedMove(n)
  BY <1>14, EndingNamed DEF security_end_session
<1>15. ASSUME NEW b \in DOMAIN bearers, bearer_expires(b) PROVE NamedMove(n)
  BY <1>15 DEF bearer_expires, Without, NamedMove, Named
<1>16. ASSUME NEW s \in DOMAIN slugs, link_expires(s) PROVE NamedMove(n)
  BY <1>1, <1>16 DEF link_expires, slug_expires
<1>17. ASSUME NEW r \in Slot, turned_down(r) PROVE NamedMove(n)
  BY <1>1, <1>17 DEF turned_down
<1>18. ASSUME NEW r \in Slot, refresh_post(r) PROVE NamedMove(n)
  <2>1. CASE UNCHANGED bearers
    BY <1>1, <2>1
  <2>2. CASE issue(Replaced(requests[r].session), requests[r].client, requests[r].session, FALSE)
    <3>1. \A b \in DOMAIN bearers' : bearers'[b].named =>
            b \in DOMAIN bearers /\ bearers'[b].named = bearers[b].named /\ bearers'[b].client = bearers[b].client
      BY <2>2 DEF issue, With, Replaced, SessionsGood, BearerRow
    <3> QED BY <3>1 DEF NamedMove, Named
  <2> QED BY <1>18, <2>1, <2>2 DEF refresh_post
<1>19. ASSUME NEW r \in Slot, tokens_create(r) PROVE NamedMove(n)
  <2>1. PICK c : c = requests[r].client
    OBVIOUS
  <2>2. PICK new : new = issued + 1
    OBVIOUS
  <2>3. /\ Cardinality(Named(c)) < NAMED_TOKEN_CAP
        /\ DOMAIN bearers' = DOMAIN bearers \cup {new} /\ bearers'[new].client = c
        /\ \A b \in DOMAIN bearers : b # new => bearers'[b] = bearers[b]
    BY <1>19, <2>1, <2>2 DEF tokens_create, issue, With
  <2>4. CASE n = c
    BY <2>3, <2>4 DEF NamedMove, Named
  <2>5. CASE n # c
    BY <2>3, <2>5 DEF NamedMove, Named
  <2> QED BY <2>4, <2>5
<1>20. ASSUME NEW r \in Slot, connectors_mint(r) PROVE NamedMove(n)
  BY <1>1, <1>20 DEF connectors_mint
<1>21. ASSUME NEW r \in Slot, api_passkeys_register_options(r) PROVE NamedMove(n)
  BY <1>1, <1>21 DEF api_passkeys_register_options
<1>22. ASSUME NEW r \in Slot, dcr_answer(r) PROVE NamedMove(n)
  BY <1>1, <1>22 DEF dcr_answer
<1>23. ASSUME NEW r \in Slot, dcr_dies(r) PROVE NamedMove(n)
  BY <1>23, RebootNamed DEF dcr_dies
<1>24. ASSUME NEW r \in Slot, NEW s \in DOMAIN sessions, NEW op \in {"panel", "refresh"},
             panel_request(r, op, s)
      PROVE NamedMove(n)
  BY <1>1, <1>24 DEF panel_request
<1>25. ASSUME NEW r \in Slot, NEW s \in DOMAIN slugs, dcr_request(r, s) PROVE NamedMove(n)
  BY <1>1, <1>25 DEF dcr_request
<1>26. ASSUME NEW r \in Slot, NEW s \in DOMAIN slugs, connectors_slug_delete(r, s)
      PROVE NamedMove(n)
  BY <1>1, <1>26 DEF connectors_slug_delete
<1>27. ASSUME NEW r \in Slot, NEW b \in DOMAIN bearers, tokens_revoke(r, b) PROVE NamedMove(n)
  BY <1>27, EndingNamed DEF tokens_revoke
<1>28. ASSUME NEW r \in Slot, NEW d \in DOMAIN clients, connectors_revoke(r, d)
      PROVE NamedMove(n)
  BY <1>1, <1>28 DEF connectors_revoke
<1>29. ASSUME NEW r \in Slot, NEW k \in DOMAIN passkeys, api_passkeys_delete(r, k)
      PROVE NamedMove(n)
  BY <1>1, <1>29 DEF api_passkeys_delete
<1>30. ASSUME NEW r \in Slot, NEW st \in DOMAIN challenges, NEW k \in Key,
             api_passkeys_register_verify(r, st, k)
      PROVE NamedMove(n)
  BY <1>1, <1>30 DEF api_passkeys_register_verify
<1>31. CASE restart
  BY <1>31, RebootNamed DEF restart
<1>32. CASE UNCHANGED dashVars
  BY <1>1, <1>32 DEF dashVars
<1> QED BY <1>2, <1>3, <1>4, <1>5, <1>6, <1>7, <1>8, <1>9, <1>10, <1>11, <1>12, <1>13, <1>14,
         <1>15, <1>16, <1>17, <1>18, <1>19, <1>20, <1>21, <1>22, <1>23, <1>24, <1>25, <1>26,
         <1>27, <1>28, <1>29, <1>30, <1>31, <1>32
        DEF DashNext, Step

\* No client has more named tokens than the cap.
TokenCap == \A c \in Client : Cardinality(Named(c)) <= NAMED_TOKEN_CAP

\* The named tokens of a client can be counted.
LEMMA NamedFinite ==
  ASSUME SessionsGood, NEW c \in Client
  PROVE  IsFiniteSet(Named(c)) /\ Cardinality(Named(c)) \in Nat
<1>1. Named(c) \subseteq 1..issued /\ issued \in Nat
  BY DashboardAssumption DEF Named, SessionsGood
<1>2. IsFiniteSet(1..issued)
  BY <1>1, FS_Interval
<1> QED BY <1>1, <1>2, FS_Subset, FS_CardinalityType

\* tokens_create counts the client's named tokens after it awaited the form, in
\* the step that issues the next, so requests that overlap cannot pass the cap.
THEOREM TokenCapHolds == DashSpec => []TokenCap
<1>1. DashInit => TokenCap
  <2> SUFFICES ASSUME DashInit, NEW c \in Client PROVE Cardinality(Named(c)) <= NAMED_TOKEN_CAP
    BY DEF TokenCap
  <2>1. Named(c) = {}
    BY DEF DashInit, Named
  <2> QED BY <2>1, FS_EmptySet, DashboardAssumption
<1>2. ASSUME DashGood, DashGood', TokenCap, [DashNext]_dashVars PROVE TokenCap'
  <2> SUFFICES ASSUME NEW c \in Client PROVE Cardinality(Named(c)') <= NAMED_TOKEN_CAP
    BY DEF TokenCap
  <2>1. /\ IsFiniteSet(Named(c)) /\ Cardinality(Named(c)) \in Nat
        /\ Cardinality(Named(c)) <= NAMED_TOKEN_CAP /\ NAMED_TOKEN_CAP \in Nat
    BY <1>2, NamedFinite, DashboardAssumption DEF DashGood, TokenCap
  <2>2. CASE Named(c)' \subseteq Named(c)
    <3>1. Cardinality(Named(c)') \in Nat /\ Cardinality(Named(c)') <= Cardinality(Named(c))
      BY <2>1, <2>2, FS_Subset, FS_CardinalityType
    <3> QED BY <2>1, <3>1
  <2>3. ASSUME Cardinality(Named(c)) < NAMED_TOKEN_CAP, NEW b, Named(c)' \subseteq Named(c) \cup {b}
        PROVE  Cardinality(Named(c)') <= NAMED_TOKEN_CAP
    <3>1. /\ IsFiniteSet(Named(c) \cup {b}) /\ Cardinality(Named(c) \cup {b}) \in Nat
          /\ Cardinality(Named(c) \cup {b}) <= Cardinality(Named(c)) + 1
      <4>1. /\ IsFiniteSet(Named(c) \cup {b})
            /\ Cardinality(Named(c) \cup {b}) = Cardinality(Named(c))
               \/ Cardinality(Named(c) \cup {b}) = Cardinality(Named(c)) + 1
        BY <2>1, FS_AddElement
      <4> QED BY <2>1, <4>1
    <3>2. Cardinality(Named(c)') \in Nat /\ Cardinality(Named(c)') <= Cardinality(Named(c) \cup {b})
      BY <2>3, <3>1, FS_Subset, FS_CardinalityType
    <3> QED BY <2>1, <2>3, <3>1, <3>2
  <2> QED BY <1>2, <2>2, <2>3, NamedMoves DEF DashGood, NamedMove
<1> QED BY <1>1, <1>2, DashInductive, PTL DEF DashSpec

\* The registrations of a client that are under way, and its passkeys.
UnderWay(c, K) == Cardinality(Registering(c)) <= K
Excess(c, K)   == Cardinality(list_for_client(c)) <= MAX_PASSKEYS_PER_CLIENT - 1 + K

\* Each registration under way has its place set aside.
PlacesGood(c, K) ==
  Cardinality(list_for_client(c)) + Cardinality(Registering(c)) <= MAX_PASSKEYS_PER_CLIENT - 1 + K

\* Both can be counted.
LEMMA PlacesFinite ==
  ASSUME DashGood, NEW c
  PROVE  /\ IsFiniteSet(list_for_client(c)) /\ Cardinality(list_for_client(c)) \in Nat
         /\ IsFiniteSet(Registering(c)) /\ Cardinality(Registering(c)) \in Nat
<1>1. IsFiniteSet(list_for_client(c)) /\ Cardinality(list_for_client(c)) \in Nat
  BY ListFinite DEF DashGood, CapGood
<1>2. Registering(c) \subseteq 1..started /\ started \in Nat
  BY PasskeyAssumption DEF Registering, DashGood, DoorsGood
<1>3. IsFiniteSet(1..started)
  BY <1>2, FS_Interval
<1> QED BY <1>1, <1>2, <1>3, FS_Subset, FS_CardinalityType

\* Fewer of both: the places are enough.
LEMMA PlacesShrink ==
  ASSUME DashGood, NEW c, NEW K \in Nat, PlacesGood(c, K),
         list_for_client(c)' \subseteq list_for_client(c), Registering(c)' \subseteq Registering(c)
  PROVE  PlacesGood(c, K)'
<1>1. /\ Cardinality(list_for_client(c)') \in Nat
      /\ Cardinality(list_for_client(c)') <= Cardinality(list_for_client(c))
      /\ Cardinality(list_for_client(c)) \in Nat
  BY PlacesFinite, FS_Subset, FS_CardinalityType
<1>2. /\ Cardinality(Registering(c)') \in Nat
      /\ Cardinality(Registering(c)') <= Cardinality(Registering(c))
      /\ Cardinality(Registering(c)) \in Nat
  BY PlacesFinite, FS_Subset, FS_CardinalityType
<1> QED BY <1>1, <1>2, PasskeyAssumption DEF PlacesGood

\* A registration starts: the client is below the cap.
LEMMA PlacesRegistrationIssued ==
  ASSUME DashGood, DashGood', NEW c \in Client, NEW K \in Nat, PlacesGood(c, K), UnderWay(c, K)',
         NEW d \in Client, NEW s, registration_options(d, s)
  PROVE  PlacesGood(c, K)'
<1>1. PICK new : new = started + 1
  OBVIOUS
<1>2. new \notin DOMAIN challenges
  BY <1>1 DEF DashGood, DoorsGood
<1>3. /\ DOMAIN challenges' = DOMAIN challenges \cup {new}
      /\ \A st \in DOMAIN challenges : challenges'[st] = challenges[st]
      /\ challenges'[new].client = d
      /\ UNCHANGED passkeys
  BY <1>1, <1>2 DEF registration_options, issue_challenge
<1>4. list_for_client(c)' = list_for_client(c)
  BY <1>3 DEF list_for_client
<1>5. CASE d # c
  <2>1. Registering(c)' \subseteq Registering(c)
    BY <1>2, <1>3, <1>5 DEF Registering
  <2> QED BY <1>4, <2>1, PlacesShrink
<1>6. CASE d = c
  <2>1. Cardinality(list_for_client(c)) < MAX_PASSKEYS_PER_CLIENT
    BY <1>6 DEF registration_options, UnderCap
  <2>2. Cardinality(Registering(c)') <= K
    BY DEF UnderWay
  <2>3. Cardinality(list_for_client(c)) \in Nat
    BY PlacesFinite
  <2>4. Cardinality(Registering(c)') \in Nat
    <3>1. Registering(c)' \subseteq Registering(c) \cup {new}
      BY <1>3 DEF Registering
    <3> QED BY <3>1, PlacesFinite, FS_AddElement, FS_Subset, FS_CardinalityType
  <2> QED BY <1>4, <2>1, <2>2, <2>3, <2>4, PasskeyAssumption DEF PlacesGood
<1> QED BY <1>5, <1>6

\* A registration is finished: it takes the place that was set aside.
LEMMA PlacesRegistered ==
  ASSUME DashGood, NEW c \in Client, NEW K \in Nat, PlacesGood(c, K),
         NEW st \in DOMAIN challenges, NEW k, NEW s, verify_registration(st, k, s)
  PROVE  PlacesGood(c, K)'
<1>1. PICK d : d = challenges[st].client
  OBVIOUS
<1>2. /\ st \in Registering(d) /\ k \notin DOMAIN passkeys
      /\ passkeys' = [x \in DOMAIN passkeys \cup {k} |-> IF x = k THEN d ELSE passkeys[x]]
  BY <1>1 DEF verify_registration, Registering
<1>3. /\ DOMAIN challenges' = DOMAIN challenges \ {st}
      /\ \A x \in DOMAIN challenges' : challenges'[x] = challenges[x]
  BY ChallengeSpent DEF verify_registration
<1>4. CASE d # c
  <2>1. list_for_client(c)' \subseteq list_for_client(c) /\ Registering(c)' \subseteq Registering(c)
    BY <1>2, <1>3, <1>4 DEF list_for_client, Registering
  <2> QED BY <2>1, PlacesShrink
<1>5. CASE d = c
  <2>1. Registering(c)' = Registering(c) \ {st} /\ list_for_client(c)' = list_for_client(c) \cup {k}
    BY <1>2, <1>3, <1>5 DEF Registering, list_for_client
  <2>2. k \notin list_for_client(c) /\ st \in Registering(c)
    BY <1>2, <1>5 DEF list_for_client
  <2>3. /\ Cardinality(list_for_client(c)) \in Nat
        /\ Cardinality(list_for_client(c)') = Cardinality(list_for_client(c)) + 1
    BY <2>1, <2>2, PlacesFinite, FS_AddElement
  <2>4. /\ Cardinality(Registering(c)) \in Nat
        /\ Cardinality(Registering(c)') = Cardinality(Registering(c)) - 1
    BY <2>1, <2>2, PlacesFinite, FS_RemoveElement
  <2> QED BY <2>3, <2>4, PasskeyAssumption DEF PlacesGood
<1> QED BY <1>4, <1>5

\* The places are enough after every step.
LEMMA PlacesKept ==
  ASSUME DashGood, DashGood', NEW c \in Client, NEW K \in Nat, PlacesGood(c, K), UnderWay(c, K)',
         [DashNext]_dashVars
  PROVE  PlacesGood(c, K)'
<1>1. CASE UNCHANGED <<passkeys, challenges, overlapped>>
  BY <1>1 DEF PlacesGood, Registering, list_for_client
<1>2. ASSUME NEW d \in Client, NEW s, registration_options(d, s) PROVE PlacesGood(c, K)'
  BY <1>2, PlacesRegistrationIssued
<1>3. ASSUME NEW d, NEW s, issue_challenge("authenticate", d, s), UNCHANGED <<passkeys, overlapped>>
      PROVE  PlacesGood(c, K)'
  <2>1. /\ \A st \in DOMAIN challenges : challenges'[st] = challenges[st]
        /\ \A st \in DOMAIN challenges' \ DOMAIN challenges : challenges'[st].purpose = "authenticate"
    BY <1>3 DEF issue_challenge
  <2>2. list_for_client(c)' \subseteq list_for_client(c) /\ Registering(c)' \subseteq Registering(c)
    BY <1>3, <2>1 DEF list_for_client, Registering
  <2> QED BY <2>2, PlacesShrink
<1>4. ASSUME NEW st \in DOMAIN challenges, consume_challenge(st), UNCHANGED <<passkeys, overlapped>>
      PROVE  PlacesGood(c, K)'
  <2>1. /\ DOMAIN challenges' = DOMAIN challenges \ {st}
        /\ \A x \in DOMAIN challenges' : challenges'[x] = challenges[x]
    BY <1>4, ChallengeSpent
  <2>2. list_for_client(c)' \subseteq list_for_client(c) /\ Registering(c)' \subseteq Registering(c)
    BY <1>4, <2>1 DEF list_for_client, Registering
  <2> QED BY <2>2, PlacesShrink
<1>5. ASSUME NEW st \in DOMAIN challenges, NEW k, NEW s, verify_registration(st, k, s)
      PROVE  PlacesGood(c, K)'
  BY <1>5, PlacesRegistered
<1>6. ASSUME NEW k, NEW d, delete_passkey(k, d) PROVE PlacesGood(c, K)'
  <2>1. list_for_client(c)' \subseteq list_for_client(c) /\ Registering(c)' \subseteq Registering(c)
    BY <1>6 DEF delete_passkey, list_for_client, Registering
  <2> QED BY <2>1, PlacesShrink
<1>7. CASE DOMAIN challenges' = {} /\ UNCHANGED <<passkeys, overlapped>>
  <2>1. list_for_client(c)' \subseteq list_for_client(c) /\ Registering(c)' \subseteq Registering(c)
    BY <1>7 DEF list_for_client, Registering
  <2> QED BY <2>1, PlacesShrink
<1> QED BY <1>1, <1>2, <1>3, <1>4, <1>5, <1>6, <1>7, PasskeyMoves DEF PasskeyMove, DashGood

\* registration_options reads the cap and verify_registration does not: if
\* client c never has more than K registrations under way, it never has more
\* than K - 1 passkeys too many.
THEOREM PasskeyExcessIsBounded ==
  ASSUME NEW c \in Client, NEW K \in Nat
  PROVE  DashSpec /\ []UnderWay(c, K) => []Excess(c, K)
<1>1. DashInit => PlacesGood(c, K)
  <2> SUFFICES ASSUME DashInit PROVE PlacesGood(c, K)
    OBVIOUS
  <2>1. list_for_client(c) = {} /\ Registering(c) = {}
    BY DEF DashInit, PasskeyInit, list_for_client, Registering
  <2> QED BY <2>1, FS_EmptySet, PasskeyAssumption DEF PlacesGood
<1>2. DashGood /\ DashGood' /\ PlacesGood(c, K) /\ UnderWay(c, K)' /\ [DashNext]_dashVars => PlacesGood(c, K)'
  BY PlacesKept
<1>3. DashGood /\ PlacesGood(c, K) => Excess(c, K)
  BY PlacesFinite, PasskeyAssumption DEF PlacesGood, Excess
<1> QED BY <1>1, <1>2, <1>3, DashInductive, PTL DEF DashSpec

-----------------------------------------------------------------------------
(* The registry as the panel sees it and as ClientStore has it are the     *)
(* same code (class ClientStore of src/src/beaconmcp/auth.py), here with a *)
(* function and there with the rows of the file.  Only operators on rows   *)
(* are used of ClientStore: its processes and files are not instantiated   *)
(* with anything in particular.                                            *)
Store == INSTANCE ClientStore WITH
  Server <- "server", Cli <- "cli", Root <- Owner, Connector <- Derived, NoOwner <- NoOne,
  MaxWrites <- 1, MaxStarts <- 0,
  content <- "any", mtime <- "any", file <- "any", tmp <- "any", clock <- "any", pc <- "any",
  op <- "any", booting <- "any", clients <- "any", disk_sig <- "any", seen <- "any",
  stamp <- "any", removed <- "any", fd <- "any", saveFor <- "any", bearers <- "any",
  made <- "any", starts <- "any", ledger <- "any", revoked <- "any", asked <- "any",
  spared <- "any", overlapped <- "any"

\* The rows that the file has for the registry.
RowOf(d)     == [id |-> d, owner |-> clients[d], seed |-> clients[d] = NoOne]
RegistryRows == {RowOf(d) : d \in DOMAIN clients}

\* A step is a call of ClientStore, of those that the panel makes, or none.
RegistryCall ==
  \/ RegistryRows' = RegistryRows
  \/ \E o \in Store!Op : /\ o.kind \in {"create_dynamic", "revoke"}
                         /\ RegistryRows' = Store!Effect(o, RegistryRows)

\* What is in a row, and what is in the rows.
LEMMA RowFields ==
  /\ \A d : RowOf(d).id = d /\ RowOf(d).owner = clients[d]
  /\ \A r : r \in RegistryRows <=> \E d \in DOMAIN clients : r = RowOf(d)
BY DEF RegistryRows, RowOf

\* The rows have the ids of the registry,
LEMMA RowsAre == Store!Ids(RegistryRows) = DOMAIN clients
<1>1. \A x : x \in Store!Ids(RegistryRows) <=> \E r \in RegistryRows : x = r.id
  BY DEF Store!Ids
<1>2. \A x : x \in Store!Ids(RegistryRows) <=> x \in DOMAIN clients
  BY <1>1, RowFields
<1>3. Store!Ids(RegistryRows) \subseteq DOMAIN clients /\ DOMAIN clients \subseteq Store!Ids(RegistryRows)
  BY <1>2
<1> QED BY <1>3

\* revoking a client there takes the same clients along as here,
LEMMA CascadesAgree ==
  ASSUME NEW c \in DOMAIN clients
  PROVE  {c} \cup Store!Cascade(RegistryRows, c) = Cascade(c)
<1>1. (\E r \in RegistryRows : r.id = c /\ r.owner = NoOne) <=> clients[c] = NoOne
  BY RowFields
<1>2. {r.id : r \in {x \in RegistryRows : x.owner = c}} = {d \in DOMAIN clients : clients[d] = c}
  <2> DEFINE derived == {x \in RegistryRows : x.owner = c}
  <2>1. \A d : d \in {r.id : r \in derived} <=> \E r \in derived : d = r.id
    OBVIOUS
  <2>2. \A r : r \in derived <=> \E d \in DOMAIN clients : r = RowOf(d) /\ clients[d] = c
    BY RowFields
  <2> HIDE DEF derived
  <2>3. \A d : d \in {r.id : r \in derived} <=> d \in DOMAIN clients /\ clients[d] = c
    BY <2>1, <2>2, RowFields
  <2> QED BY <2>3 DEF derived
<1> QED BY <1>1, <1>2 DEF Store!Cascade, Cascade

\* leaves the same clients,
LEMMA RevokesAgree ==
  ASSUME ClientsGood, NEW c \in DOMAIN clients, revoke(c)
  PROVE  RegistryCall
<1> DEFINE o == [kind |-> "revoke", id |-> c, owner |-> NoOne]
<1>1. o \in Store!Op
  BY DEF ClientsGood, Store!Op, Store!Writing, Store!Client, Client
<1>2. Store!Effect(o, RegistryRows)
        = {r \in RegistryRows : r.id \notin {c} \cup Store!Cascade(RegistryRows, c)}
  BY DEF Store!Effect
<1>3. Store!Effect(o, RegistryRows) = {r \in RegistryRows : r.id \notin Cascade(c)}
  BY <1>2, CascadesAgree
<1>4. DOMAIN clients' = DOMAIN clients \ Cascade(c) /\ \A d \in DOMAIN clients' : clients'[d] = clients[d]
  BY DEF revoke
<1>5. RegistryRows' = {r \in RegistryRows : r.id \notin Cascade(c)}
  <2>1. \A d \in DOMAIN clients' : RowOf(d)' = RowOf(d)
    BY <1>4 DEF RowOf
  <2>2. \A r : r \in RegistryRows' <=> \E d \in DOMAIN clients' : r = RowOf(d)'
    BY DEF RegistryRows
  <2> QED BY <1>4, <2>1, <2>2, RowFields
<1> QED BY <1>1, <1>3, <1>5 DEF RegistryCall

\* and creating one adds the same row, if its owner is there.
LEMMA CreationsAgree ==
  ASSUME ClientsGood, NEW owner \in Client, CanCreate(owner), create_dynamic(owner, made + 1),
         made + 1 \notin DOMAIN clients
  PROVE  RegistryCall
<1>0. PICK n : n = made + 1
  OBVIOUS
<1> DEFINE o == [kind |-> "create_dynamic", id |-> n, owner |-> owner]
<1>1. o \in Store!Op
  BY <1>0 DEF create_dynamic, Store!Op, Store!Writing, Store!Client, Client
<1>2. owner # NoOne
  BY DynRegAssumption DEF Client, Derived
<1>3. owner \in Store!Ids(RegistryRows)
  BY RowsAre DEF CanCreate
<1>4. Store!Effect(o, RegistryRows) = RegistryRows \cup {[id |-> n, owner |-> owner, seed |-> FALSE]}
  BY <1>2, <1>3 DEF Store!Effect, Store!Added
<1>5. /\ DOMAIN clients' = DOMAIN clients \cup {n}
      /\ clients'[n] = owner /\ \A d \in DOMAIN clients : clients'[d] = clients[d]
  BY <1>0 DEF create_dynamic
<1>6. RegistryRows' = RegistryRows \cup {[id |-> n, owner |-> owner, seed |-> FALSE]}
  <2>1. \A d \in DOMAIN clients : RowOf(d)' = RowOf(d)
    BY <1>5 DEF RowOf
  <2>2. RowOf(n)' = [id |-> n, owner |-> owner, seed |-> FALSE]
    BY <1>2, <1>5 DEF RowOf
  <2>3. \A r : r \in RegistryRows' <=> \E d \in DOMAIN clients' : r = RowOf(d)'
    BY DEF RegistryRows
  <2>4. \A r : r \in RegistryRows' <=> r \in RegistryRows \/ r = RowOf(n)'
    BY <1>5, <2>1, <2>3, RowFields
  <2> QED BY <2>2, <2>4
<1> QED BY <1>1, <1>4, <1>6 DEF RegistryCall

\* Every step of the panel, of the registration links and of `beaconmcp auth
\* revoke' changes the registry as one call of create_dynamic or revoke, with
\* the cascade and the check of the owner that ClientStore specifies: the two
\* models of the registry do not differ.
THEOREM RegistriesAgree == DashSpec => [][RegistryCall]_dashVars
<1>1. ASSUME DashGood, [DashNext]_dashVars PROVE RegistryCall
  <2>0. ClientsGood /\ RequestsGood /\ RegistryMove
    BY <1>1, RegistryMoves DEF DashGood
  <2>1. CASE UNCHANGED <<clients, made>>
    BY <2>1 DEF RegistryCall, RegistryRows, RowOf
  <2>2. ASSUME NEW c \in DOMAIN clients, revoke(c) PROVE RegistryCall
    BY <2>0, <2>2, RevokesAgree
  <2>3. ASSUME NEW owner \in Client, CanCreate(owner), create_dynamic(owner, made + 1)
        PROVE  RegistryCall
    <3>1. made + 1 \notin DOMAIN clients
      BY <2>0, <2>3 DEF ClientsGood, create_dynamic
    <3> QED BY <2>0, <2>3, <3>1, CreationsAgree
  <2> QED BY <2>0, <2>1, <2>2, <2>3 DEF RegistryMove
<1> QED BY <1>1, DashInductive, PTL DEF DashSpec
=============================================================================
