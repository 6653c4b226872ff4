---------------------------- MODULE OAuthServer ----------------------------
(***************************************************************************)
(* The sign-in of an OAuth client (the handlers of /oauth/authorize and    *)
(* /oauth/token in src/src/beaconmcp/__main__.py, and class CodeStore of   *)
(* src/src/beaconmcp/auth.py), on top of the second factor of TotpGuard.   *)
(*                                                                         *)
(*   2FA on the authorize page -> ticket -> Finish -> code -> token        *)
(*                                                                         *)
(* The ticket gives the operator ten minutes on the confirmation screen;   *)
(* the authorization code is minted when they press Finish and lives a     *)
(* minute.  client_credentials takes a TOTP code and no detour.  Tickets   *)
(* and codes live in memory only.  Each handler awaits its request's body  *)
(* first and nothing after it, so it is one step.                          *)
(***************************************************************************)
EXTENDS TotpGuard

CONSTANTS
  Request,                     \* redirect_uri and PKCE challenge of a client's attempt
  NoRequest,                   \* client_credentials has neither
  PENDING_AUTHORIZATION_TTL,
  CODE_TTL,
  MaxApproval,                 \* bound on the second factors that pass
  MaxBoot                      \* bound on the restarts

ASSUME TtlAssumption ==
  /\ PENDING_AUTHORIZATION_TTL \in Nat /\ CODE_TTL \in Nat /\ MaxApproval \in Nat
  /\ MaxBoot \in Nat
  /\ NoRequest \notin Request

VARIABLES
  clients,    \* clients that exist
  tickets,    \* pending_authorizations
  codes,      \* CodeStore._codes
  approvals,  \* history: the second factors that passed, in order
  grants,     \* history: the tokens issued, in order
  burned,     \* history: approvals whose code was presented wrongly
  boot        \* history: how often the server started

flowVars == <<clients, tickets, codes, approvals, grants, burned, boot>>
oauthVars == <<guardVars, flowVars>>

Approval == 1..MaxApproval
Pending  == [approval : Approval, client : Client, request : Request, expires_at : Nat]
Passed   == [client : Client, request : Request \cup {NoRequest}, at : Nat, boot : Nat]
Grant    == [approval : Approval, client : Client, request : Request \cup {NoRequest},
             at : Nat, boot : Nat]

OAuthTypeOK ==
  /\ GuardTypeOK
  /\ clients \subseteq Client
  /\ tickets \subseteq Pending
  /\ codes \subseteq Pending
  /\ approvals \in Seq(Passed)
  /\ grants \in Seq(Grant)
  /\ burned \subseteq Approval
  /\ boot \in Nat

OAuthInit ==
  /\ GuardInit
  /\ clients = Client
  /\ tickets = {} /\ codes = {}
  /\ approvals = <<>> /\ grants = <<>>
  /\ burned = {}
  /\ boot = 0

Unexpired(S) == {x \in S : now <= x.expires_at}

(* Definitions whose names end in Bug are not part of the specification:   *)
(* each is a defect the property named in PROJECT.json must detect.        *)
Expiry(ttl) == now + ttl

-----------------------------------------------------------------------------
\* _issue_pending: the approval becomes a ticket.
Approve(c, r) ==
  LET n == Len(approvals) + 1
  IN  /\ n <= MaxApproval
      /\ approvals' = Append(approvals, [client |-> c, request |-> r, at |-> now, boot |-> boot])
      /\ tickets' = Unexpired(tickets) \cup
           {[approval |-> n, client |-> c, request |-> r,
             expires_at |-> Expiry(PENDING_AUTHORIZATION_TTL)]}

oauth_authorize_post(c, ip, code, r) ==
  /\ c \in clients
  /\ totp_ok(c, ip, code)
  /\ Approve(c, r)
  /\ UNCHANGED <<clients, codes, grants, burned, boot>>

oauth_passkey_verify(c, ip, r) ==
  /\ c \in clients
  /\ passkey_ok(c, ip)
  /\ Approve(c, r)
  /\ UNCHANGED <<clients, codes, grants, burned, boot>>

\* A wrong code, on the authorize page or at the token endpoint.
wrong_totp(c, ip) ==
  /\ c \in clients
  /\ totp_invalid(c, ip)
  /\ UNCHANGED flowVars

\* _consume_pending pops the ticket, and CodeStore.issue makes a code of it.
SpentBug(t) == {}
Spent(t)    == {t}

oauth_authorize_finalize(t) ==
  /\ t \in Unexpired(tickets)
  /\ tickets' = Unexpired(tickets) \ Spent(t)
  /\ codes' = Unexpired(codes \cup {[t EXCEPT !.expires_at = Expiry(CODE_TTL)]})
  /\ UNCHANGED <<guardVars, clients, approvals, grants, burned, boot>>

\* The code is popped whatever comes next: a client that presents another's
\* code, or the wrong redirect_uri or verifier, has spoilt it.
ConsumedBug(x, right) == IF right THEN {x} ELSE {}
Consumed(x, right)    == {x}

MatchingBug(x, c, r) == x.request = r
Matching(x, c, r)    == x.client = c /\ x.request = r

oauth_token_code(x, c, r) ==
  LET right == now <= x.expires_at /\ Matching(x, c, r)
  IN  /\ c \in clients
      /\ codes' = codes \ Consumed(x, right)
      /\ grants' = IF right
                     THEN Append(grants, [approval |-> x.approval, client |-> c, request |-> r,
                                          at |-> now, boot |-> boot])
                     ELSE grants
      /\ burned' = IF right THEN burned ELSE burned \cup {x.approval}
      /\ UNCHANGED <<guardVars, clients, tickets, approvals, boot>>

\* client_credentials: the second factor is spent on the token itself.
oauth_token_totp(c, ip, code) ==
  LET n == Len(approvals) + 1
  IN  /\ c \in clients
      /\ n <= MaxApproval
      /\ totp_ok(c, ip, code)
      /\ approvals' = Append(approvals, [client |-> c, request |-> NoRequest, at |-> now, boot |-> boot])
      /\ grants' = Append(grants, [approval |-> n, client |-> c, request |-> NoRequest,
                                   at |-> now, boot |-> boot])
      /\ UNCHANGED <<clients, tickets, codes, burned, boot>>

\* `beaconmcp auth revoke': verify and exists fail from now on, for the client
\* and for those that delegate to it.
auth_revoke(c) ==
  /\ c \in clients
  /\ clients' = {d \in clients : d # c /\ seed_owner[d] # c}
  /\ UNCHANGED <<guardVars, tickets, codes, approvals, grants, burned, boot>>

restart ==
  /\ boot < MaxBoot
  /\ boot' = boot + 1
  /\ guard_restart
  /\ tickets' = {} /\ codes' = {}
  /\ UNCHANGED <<clients, approvals, grants, burned>>

time_passes == tick /\ UNCHANGED flowVars

OAuthNext ==
  \/ \E c \in Client, ip \in Ip, r \in Request :
       \/ \E code \in Step : oauth_authorize_post(c, ip, code, r)
       \/ oauth_passkey_verify(c, ip, r)
  \/ \E c \in Client, ip \in Ip :
       \/ \E code \in Step : oauth_token_totp(c, ip, code)
       \/ wrong_totp(c, ip)
  \/ \E t \in tickets : oauth_authorize_finalize(t)
  \/ \E x \in codes, c \in Client, r \in Request : oauth_token_code(x, c, r)
  \/ \E c \in Client : auth_revoke(c)
  \/ restart
  \/ time_passes

OAuthSpec == OAuthInit /\ [][OAuthNext]_oauthVars

-----------------------------------------------------------------------------
(* Properties.                                                             *)

\* A second factor signs in once: from the moment it passes, an approval is in
\* at most one place, as a ticket, as a code or as issued tokens, however the
\* forms and token requests are repeated.
OneGrantPerApproval ==
  LET Granted == {grants[i].approval : i \in DOMAIN grants}
      InFlight == {t.approval : t \in tickets}
      Coded    == {x.approval : x \in codes}
  IN  /\ \A i, j \in DOMAIN grants : i # j => grants[i].approval # grants[j].approval
      /\ Granted \cap InFlight = {} /\ Granted \cap Coded = {} /\ InFlight \cap Coded = {}

\* The tokens go to whom the operator approved: the same client, for the same
\* redirect_uri and challenge, within the lifetimes of ticket and code, and
\* before any restart.
GrantMatchesApproval ==
  \A i \in DOMAIN grants :
    LET g == grants[i] a == approvals[g.approval]
    IN  /\ g.client = a.client /\ g.request = a.request /\ g.boot = a.boot
        /\ g.at <= a.at + PENDING_AUTHORIZATION_TTL + CODE_TTL

\* A code that was once presented wrongly (by another client, or with another
\* redirect_uri or verifier) never yields tokens afterwards.
BurnedStaysBurned ==
  \A i \in DOMAIN grants : grants[i].approval \notin burned
=============================================================================
