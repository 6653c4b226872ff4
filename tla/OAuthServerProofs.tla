------------------------- MODULE OAuthServerProofs -------------------------
(***************************************************************************)
(* The OAuth sign-in, for every number of clients, requests, approvals and *)
(* restarts.  Each handler makes the calls on the second factor in the     *)
(* order TotpGuard allows, so that what TotpGuardProofs shows holds of the *)
(* whole server.  And an approval yields one set of tokens at most, for    *)
(* the client and the request it was given for.                            *)
(*                                                                         *)
(* The promise about tokens is about the end of a path: ticket, code,      *)
(* tokens.  The invariant has to follow the approval along the path        *)
(* (TicketsGood, CodesInFlight, GrantsGood: what each place knows of its   *)
(* approval, including how late it may be used) and say that it is in one  *)
(* place only (PlacesApart), the places of spoilt approvals among them.    *)
(***************************************************************************)
EXTENDS OAuthServer, TotpGuardProofs

\* Pending p belongs to approval p.approval, given since the server started.
Belongs(p) ==
  LET a == approvals[p.approval]
  IN  /\ p.approval <= Len(approvals)
      /\ p.client = a.client /\ p.request = a.request /\ boot = a.boot

FlowTypes ==
  /\ clients \subseteq Client
  /\ tickets \subseteq Pending
  /\ codes \subseteq Pending
  /\ approvals \in Seq(Passed) /\ Len(approvals) <= MaxApproval
  /\ grants \in Seq(Grant)
  /\ burned \in SUBSET Approval
  /\ boot \in Nat

TicketsGood ==
  \A t \in tickets :
    /\ Belongs(t)
    /\ t.expires_at <= approvals[t.approval].at + PENDING_AUTHORIZATION_TTL

CodesInFlight ==
  \A x \in codes :
    /\ Belongs(x)
    /\ x.expires_at <= approvals[x.approval].at + PENDING_AUTHORIZATION_TTL + CODE_TTL

GrantsGood ==
  /\ \A i \in DOMAIN grants : grants[i].approval <= Len(approvals)
  /\ GrantMatchesApproval

\* An approval is one ticket, one code, one grant or spoilt, never two of them.
PlacesApart ==
  /\ \A t, u \in tickets : t.approval = u.approval => t = u
  /\ \A x, y \in codes : x.approval = y.approval => x = y
  /\ \A i, j \in DOMAIN grants : i # j => grants[i].approval # grants[j].approval
  /\ \A t \in tickets : /\ \A x \in codes : t.approval # x.approval
                        /\ \A i \in DOMAIN grants : t.approval # grants[i].approval
                        /\ t.approval \notin burned
  /\ \A x \in codes : /\ \A i \in DOMAIN grants : x.approval # grants[i].approval
                      /\ x.approval \notin burned
  /\ \A i \in DOMAIN grants : grants[i].approval \notin burned
  /\ \A b \in burned : b <= Len(approvals)

FlowInv == FlowTypes /\ TicketsGood /\ CodesInFlight /\ GrantsGood /\ PlacesApart

-----------------------------------------------------------------------------
\* Each handler is one attempt of the second factor, or none.

LEMMA HandlersUseGuard == [OAuthNext]_oauthVars => [GuardNext]_guardVars
<1> SUFFICES ASSUME [OAuthNext]_oauthVars PROVE [GuardNext]_guardVars
  OBVIOUS
<1>1. ASSUME NEW c \in Client, NEW ip \in Ip, NEW r \in Request, NEW code \in Step,
             oauth_authorize_post(c, ip, code, r)
      PROVE  GuardNext
  BY <1>1 DEF oauth_authorize_post, GuardNext
<1>2. ASSUME NEW c \in Client, NEW ip \in Ip, NEW r \in Request, oauth_passkey_verify(c, ip, r)
      PROVE  GuardNext
  BY <1>2 DEF oauth_passkey_verify, GuardNext
<1>3. ASSUME NEW c \in Client, NEW ip \in Ip, NEW code \in Step, oauth_token_totp(c, ip, code)
      PROVE  GuardNext
  BY <1>3 DEF oauth_token_totp, GuardNext
<1>4. ASSUME NEW c \in Client, NEW ip \in Ip, wrong_totp(c, ip)
      PROVE  GuardNext
  BY <1>4 DEF wrong_totp, GuardNext
<1>5. ASSUME NEW t \in tickets, oauth_authorize_finalize(t)
      PROVE  UNCHANGED guardVars
  BY <1>5 DEF oauth_authorize_finalize
<1>6. ASSUME NEW x \in codes, NEW c \in Client, NEW r \in Request, oauth_token_code(x, c, r)
      PROVE  UNCHANGED guardVars
  BY <1>6 DEF oauth_token_code
<1>7. ASSUME NEW c \in Client, auth_revoke(c)
      PROVE  UNCHANGED guardVars
  BY <1>7 DEF auth_revoke
<1>8. CASE restart
  BY <1>8 DEF restart, GuardNext
<1>9. CASE time_passes
  BY <1>9 DEF time_passes, GuardNext
<1>10. CASE UNCHANGED oauthVars
  BY <1>10 DEF oauthVars
<1> QED BY <1>1, <1>2, <1>3, <1>4, <1>5, <1>6, <1>7, <1>8, <1>9, <1>10 DEF OAuthNext

\* The sign-in runs the second factor as TotpGuard specifies it: every handler of
\* /oauth/authorize and /oauth/token is one of its attempts or leaves it alone.
THEOREM OAuthImplementsGuard == OAuthSpec => GuardSpec
<1>1. OAuthInit => GuardInit
  BY DEF OAuthInit
<1>2. [OAuthNext]_oauthVars => [GuardNext]_guardVars
  BY HandlersUseGuard
<1> QED BY <1>1, <1>2, PTL DEF OAuthSpec, GuardSpec

-----------------------------------------------------------------------------
\* What a handler does to the path of an approval.

\* Appending to a history leaves the older entries where they were.
LEMMA Appended ==
  ASSUME NEW S, NEW q \in Seq(S), NEW e \in S
  PROVE  /\ Append(q, e) \in Seq(S)
         /\ Len(q) \in Nat /\ Len(Append(q, e)) = Len(q) + 1
         /\ DOMAIN q = 1..Len(q) /\ DOMAIN Append(q, e) = 1..(Len(q) + 1)
         /\ \A i \in 1..Len(q) : Append(q, e)[i] = q[i]
         /\ Append(q, e)[Len(q) + 1] = e
OBVIOUS

\* Whatever names an approval names one that was given.
LEMMA ApprovalsKnown ==
  ASSUME FlowInv
  PROVE  /\ \A t \in tickets : t \in Pending /\ t.approval \in 1..Len(approvals)
         /\ \A x \in codes : x \in Pending /\ x.approval \in 1..Len(approvals)
         /\ \A i \in DOMAIN grants : grants[i].approval \in 1..Len(approvals)
         /\ \A b \in burned : b \in 1..Len(approvals)
         /\ \A k \in 1..Len(approvals) : approvals[k] \in Passed /\ approvals[k].at \in Nat
<1> USE TtlAssumption
<1>1. /\ tickets \subseteq Pending /\ codes \subseteq Pending /\ grants \in Seq(Grant)
      /\ burned \in SUBSET Approval /\ approvals \in Seq(Passed) /\ Len(approvals) \in Nat
  BY DEF FlowInv, FlowTypes
<1>2. /\ \A p \in Pending : p.approval \in Nat \ {0}
      /\ \A g \in Grant : g.approval \in Nat \ {0}
      /\ \A a \in Passed : a.at \in Nat
  BY DEF Pending, Grant, Passed, Approval
<1>3. \A t \in tickets : t.approval <= Len(approvals)
  BY DEF FlowInv, TicketsGood, Belongs
<1>4. \A x \in codes : x.approval <= Len(approvals)
  BY DEF FlowInv, CodesInFlight, Belongs
<1>5. \A i \in DOMAIN grants : grants[i].approval \in Nat \ {0}
                               /\ grants[i].approval <= Len(approvals)
  <2>1. \A i \in DOMAIN grants : grants[i] \in Grant
    BY <1>1
  <2> QED BY <1>2, <2>1 DEF FlowInv, GrantsGood
<1>6. \A b \in burned : b \in Nat \ {0} /\ b <= Len(approvals)
  BY <1>1 DEF FlowInv, PlacesApart, Approval
<1>7. \A k \in 1..Len(approvals) : approvals[k] \in Passed /\ approvals[k].at \in Nat
  <2>1. \A k \in 1..Len(approvals) : approvals[k] \in Passed
    BY <1>1
  <2> QED BY <1>2, <2>1
<1> QED BY <1>1, <1>2, <1>3, <1>4, <1>5, <1>6, <1>7

LEMMA ApproveKeeps ==
  ASSUME FlowInv, now \in Nat, NEW c \in Client, NEW r \in Request, Approve(c, r),
         UNCHANGED <<clients, codes, grants, burned, boot>>
  PROVE  FlowInv'
<1> USE TtlAssumption
<1> DEFINE n == Len(approvals)
           a == [client |-> c, request |-> r, at |-> now, boot |-> boot]
<1>0. PICK t : t = [approval |-> n + 1, client |-> c, request |-> r,
                    expires_at |-> now + PENDING_AUTHORIZATION_TTL]
  OBVIOUS
<1>1. /\ n + 1 <= MaxApproval
      /\ approvals' = Append(approvals, a)
      /\ tickets' = Unexpired(tickets) \cup {t}
  BY <1>0 DEF Approve, Expiry
<1>2. a \in Passed
  BY DEF FlowInv, FlowTypes, Passed
<1>3. approvals \in Seq(Passed) /\ n \in Nat
  BY DEF FlowInv, FlowTypes
<1>4. /\ approvals' \in Seq(Passed) /\ Len(approvals') = n + 1
      /\ \A i \in 1..n : approvals'[i] = approvals[i]
      /\ approvals'[n + 1] = a
  BY <1>1, <1>2, <1>3, Appended
<1>5. t \in Pending
  BY <1>0, <1>1, <1>3 DEF Pending, Approval
<1>6. tickets' \subseteq tickets \cup {t}
  BY <1>1 DEF Unexpired
<1>7. /\ \A u \in tickets : u.approval \in 1..n
      /\ \A x \in codes : x.approval \in 1..n
      /\ \A i \in DOMAIN grants : grants[i].approval \in 1..n
      /\ \A b \in burned : b \in 1..n
  BY ApprovalsKnown
<1>8. FlowTypes'
  BY <1>1, <1>4, <1>5, <1>6 DEF FlowInv, FlowTypes
<1>9. TicketsGood'
  <2>1. ASSUME NEW u \in tickets
        PROVE  /\ Belongs(u)'
               /\ u.expires_at <= approvals'[u.approval].at + PENDING_AUTHORIZATION_TTL
    BY <1>4, <1>7 DEF FlowInv, TicketsGood, Belongs
  <2>2. /\ Belongs(t)'
        /\ t.expires_at <= approvals'[t.approval].at + PENDING_AUTHORIZATION_TTL
    BY <1>0, <1>3, <1>4 DEF Belongs
  <2> QED BY <1>6, <2>1, <2>2 DEF TicketsGood
<1>10. CodesInFlight'
  BY <1>4, <1>7 DEF FlowInv, CodesInFlight, Belongs
<1>11. GrantsGood'
  BY <1>3, <1>4, <1>7 DEF FlowInv, GrantsGood, GrantMatchesApproval
<1>12. PlacesApart'
  <2>1. t.approval = n + 1
    BY <1>0
  <2> QED BY <1>3, <1>4, <1>6, <1>7, <2>1 DEF FlowInv, PlacesApart
<1> QED BY <1>8, <1>9, <1>10, <1>11, <1>12 DEF FlowInv

LEMMA FinalizeKeeps ==
  ASSUME FlowInv, now \in Nat, NEW t \in tickets, oauth_authorize_finalize(t)
  PROVE  FlowInv'
<1> USE TtlAssumption
<1>0. PICK x : x = [t EXCEPT !.expires_at = now + CODE_TTL]
  OBVIOUS
<1>1. /\ now <= t.expires_at
      /\ tickets' \subseteq tickets \ {t}
      /\ codes' \subseteq codes \cup {x}
      /\ UNCHANGED <<clients, approvals, grants, burned, boot>>
  BY <1>0 DEF oauth_authorize_finalize, Unexpired, Spent, Expiry
<1>2. t \in Pending
  BY DEF FlowInv, FlowTypes
<1>3. /\ x \in Pending /\ x.approval = t.approval /\ x.client = t.client
      /\ x.request = t.request /\ x.expires_at = now + CODE_TTL
  BY <1>0, <1>2 DEF Pending
<1>4. FlowTypes'
  BY <1>1, <1>3 DEF FlowInv, FlowTypes
<1>5. TicketsGood'
  BY <1>1 DEF FlowInv, TicketsGood, Belongs
<1>6. CodesInFlight'
  <2>1. Belongs(x)'
    BY <1>1, <1>3 DEF FlowInv, TicketsGood, Belongs
  <2>2. t.approval \in 1..Len(approvals) /\ approvals[t.approval].at \in Nat /\ t.expires_at \in Nat
    BY <1>2, ApprovalsKnown DEF Pending
  <2>3. x.expires_at <= approvals[x.approval].at + PENDING_AUTHORIZATION_TTL + CODE_TTL
    BY <1>1, <1>3, <2>2 DEF FlowInv, TicketsGood
  <2> QED BY <1>1, <2>1, <2>3 DEF FlowInv, CodesInFlight, Belongs
<1>7. GrantsGood'
  BY <1>1 DEF FlowInv, GrantsGood, GrantMatchesApproval
<1>8. PlacesApart'
  BY <1>1, <1>3 DEF FlowInv, PlacesApart
<1> QED BY <1>4, <1>5, <1>6, <1>7, <1>8 DEF FlowInv

LEMMA TokenCodeKeeps ==
  ASSUME FlowInv, now \in Nat, NEW x \in codes, NEW c \in Client, NEW r \in Request,
         oauth_token_code(x, c, r)
  PROVE  FlowInv'
<1> USE TtlAssumption
<1> DEFINE right == now <= x.expires_at /\ Matching(x, c, r)
           g == [approval |-> x.approval, client |-> c, request |-> r, at |-> now, boot |-> boot]
<1>1. /\ codes' = codes \ {x}
      /\ grants' = IF right THEN Append(grants, g) ELSE grants
      /\ burned' = IF right THEN burned ELSE burned \cup {x.approval}
      /\ UNCHANGED <<clients, tickets, approvals, boot>>
  BY DEF oauth_token_code, Consumed
<1>2. x \in Pending /\ x.approval \in 1..Len(approvals) /\ x.approval \in Approval
  BY DEF FlowInv, FlowTypes, CodesInFlight, Belongs, Pending, Approval
<1>3. TicketsGood' /\ CodesInFlight'
  BY <1>1 DEF FlowInv, TicketsGood, CodesInFlight, Belongs
<1>4. CASE ~right
  <2>1. grants' = grants /\ burned' = burned \cup {x.approval}
    BY <1>1, <1>4
  <2> HIDE DEF right
  <2>2. FlowTypes'
    BY <1>1, <1>2, <2>1 DEF FlowInv, FlowTypes
  <2>3. GrantsGood'
    BY <1>1, <2>1 DEF FlowInv, GrantsGood, GrantMatchesApproval
  <2>4. PlacesApart'
    BY <1>1, <1>2, <2>1 DEF FlowInv, PlacesApart
  <2> QED BY <1>3, <2>2, <2>3, <2>4 DEF FlowInv
<1>5. CASE right
  <2>1. grants' = Append(grants, g) /\ burned' = burned
    BY <1>1, <1>5
  <2>2. now <= x.expires_at /\ x.client = c /\ x.request = r
    BY <1>5 DEF Matching
  <2>3. g \in Grant
    BY <1>2 DEF Grant, FlowInv, FlowTypes
  <2>4. /\ g.approval = x.approval /\ g.client = x.client /\ g.request = x.request
        /\ g.at = now /\ g.boot = boot
    BY <2>2
  <2> HIDE DEF right, g
  <2> DEFINE m == Len(grants)
  <2>5. grants \in Seq(Grant)
    BY DEF FlowInv, FlowTypes
  <2>6. /\ grants' \in Seq(Grant) /\ m \in Nat
        /\ DOMAIN grants = 1..m /\ DOMAIN grants' = 1..(m + 1)
        /\ \A i \in 1..m : grants'[i] = grants[i]
        /\ grants'[m + 1] = g
    BY <2>1, <2>3, <2>5, Appended
  <2>7. FlowTypes'
    BY <1>1, <2>1, <2>6 DEF FlowInv, FlowTypes
  <2>8. GrantsGood'
    <3> DEFINE a == approvals[x.approval]
    <3>1. /\ g.client = a.client /\ g.request = a.request /\ g.boot = a.boot
          /\ x.expires_at <= a.at + PENDING_AUTHORIZATION_TTL + CODE_TTL
      BY <2>4 DEF FlowInv, CodesInFlight, Belongs
    <3>2. a.at \in Nat /\ x.expires_at \in Nat
      BY <1>2, ApprovalsKnown DEF Pending
    <3>3. g.at <= a.at + PENDING_AUTHORIZATION_TTL + CODE_TTL
      BY <2>2, <2>4, <3>1, <3>2
    <3>4. ASSUME NEW i \in DOMAIN grants'
          PROVE  LET h == grants'[i] b == approvals[h.approval]
                 IN  /\ h.client = b.client /\ h.request = b.request /\ h.boot = b.boot
                     /\ h.at <= b.at + PENDING_AUTHORIZATION_TTL + CODE_TTL
                     /\ h.approval <= Len(approvals)
      <4>1. CASE i = m + 1
        BY <1>2, <2>4, <2>6, <3>1, <3>3, <4>1
      <4>2. CASE i \in 1..m
        BY <2>6, <4>2 DEF FlowInv, GrantsGood, GrantMatchesApproval
      <4> QED BY <2>6, <4>1, <4>2
    <3> QED BY <1>1, <3>4 DEF GrantsGood, GrantMatchesApproval
  <2>9. PlacesApart'
    BY <1>1, <1>2, <2>1, <2>4, <2>6 DEF FlowInv, PlacesApart
  <2> QED BY <1>3, <2>7, <2>8, <2>9 DEF FlowInv
<1> QED BY <1>4, <1>5

LEMMA TokenTotpKeeps ==
  ASSUME FlowInv, now \in Nat, NEW c \in Client, NEW ip \in Ip, NEW code \in Step,
         oauth_token_totp(c, ip, code)
  PROVE  FlowInv'
<1> USE TtlAssumption
<1> DEFINE n == Len(approvals)
           m == Len(grants)
           a == [client |-> c, request |-> NoRequest, at |-> now, boot |-> boot]
           g == [approval |-> n + 1, client |-> c, request |-> NoRequest, at |-> now,
                 boot |-> boot]
<1>1. /\ n + 1 <= MaxApproval
      /\ approvals' = Append(approvals, a)
      /\ grants' = Append(grants, g)
      /\ UNCHANGED <<clients, tickets, codes, burned, boot>>
  BY DEF oauth_token_totp
<1>2. a \in Passed /\ approvals \in Seq(Passed) /\ n \in Nat /\ grants \in Seq(Grant)
  BY DEF FlowInv, FlowTypes, Passed
<1>3. g \in Grant
  BY <1>1, <1>2 DEF FlowInv, FlowTypes, Grant, Approval
<1>4. /\ approvals' \in Seq(Passed) /\ Len(approvals') = n + 1
      /\ \A i \in 1..n : approvals'[i] = approvals[i]
      /\ approvals'[n + 1] = a
  BY <1>1, <1>2, Appended
<1>5. /\ grants' \in Seq(Grant) /\ m \in Nat
      /\ DOMAIN grants = 1..m /\ DOMAIN grants' = 1..(m + 1)
      /\ \A i \in 1..m : grants'[i] = grants[i]
      /\ grants'[m + 1] = g
  BY <1>1, <1>2, <1>3, Appended
<1>6. /\ \A u \in tickets : u.approval \in 1..n
      /\ \A x \in codes : x.approval \in 1..n
      /\ \A i \in DOMAIN grants : grants[i].approval \in 1..n
      /\ \A b \in burned : b \in 1..n
  BY ApprovalsKnown
<1>7. FlowTypes'
  BY <1>1, <1>4, <1>5 DEF FlowInv, FlowTypes
<1>8. TicketsGood' /\ CodesInFlight'
  BY <1>1, <1>2, <1>4, <1>6 DEF FlowInv, TicketsGood, CodesInFlight, Belongs
<1>9. GrantsGood'
  <2>1. ASSUME NEW i \in DOMAIN grants'
        PROVE  LET h == grants'[i] b == approvals'[h.approval]
               IN  /\ h.client = b.client /\ h.request = b.request /\ h.boot = b.boot
                   /\ h.at <= b.at + PENDING_AUTHORIZATION_TTL + CODE_TTL
                   /\ h.approval <= Len(approvals')
    <3>1. CASE i = m + 1
      BY <1>2, <1>4, <1>5, <3>1
    <3>2. CASE i \in 1..m
      BY <1>2, <1>4, <1>5, <1>6, <3>2 DEF FlowInv, GrantsGood, GrantMatchesApproval
    <3> QED BY <1>5, <3>1, <3>2
  <2> QED BY <2>1 DEF GrantsGood, GrantMatchesApproval
<1>10. PlacesApart'
  <2>1. g.approval = n + 1
    OBVIOUS
  <2> HIDE DEF g
  <2> QED BY <1>1, <1>2, <1>4, <1>5, <1>6, <2>1 DEF FlowInv, PlacesApart
<1> QED BY <1>7, <1>8, <1>9, <1>10 DEF FlowInv

LEMMA FlowKept ==
  FlowInv /\ now \in Nat /\ [OAuthNext]_oauthVars => FlowInv'
<1> SUFFICES ASSUME FlowInv, now \in Nat, [OAuthNext]_oauthVars PROVE FlowInv'
  OBVIOUS
<1>1. ASSUME UNCHANGED flowVars PROVE FlowInv'
  BY <1>1 DEF flowVars, FlowInv, FlowTypes, TicketsGood, CodesInFlight, GrantsGood, PlacesApart,
              Belongs, GrantMatchesApproval
<1>2. ASSUME NEW c \in Client, NEW ip \in Ip, NEW r \in Request, NEW code \in Step,
             oauth_authorize_post(c, ip, code, r)
      PROVE  FlowInv'
  BY <1>2, ApproveKeeps DEF oauth_authorize_post
<1>3. ASSUME NEW c \in Client, NEW ip \in Ip, NEW r \in Request, oauth_passkey_verify(c, ip, r)
      PROVE  FlowInv'
  BY <1>3, ApproveKeeps DEF oauth_passkey_verify
<1>4. ASSUME NEW c \in Client, NEW ip \in Ip, wrong_totp(c, ip)
      PROVE  FlowInv'
  BY <1>1, <1>4 DEF wrong_totp
<1>5. ASSUME NEW c \in Client, auth_revoke(c)
      PROVE  FlowInv'
  <2>1. clients' \subseteq clients /\ UNCHANGED <<tickets, codes, approvals, grants, burned, boot>>
    BY <1>5 DEF auth_revoke
  <2> QED BY <2>1 DEF FlowInv, FlowTypes, TicketsGood, CodesInFlight, GrantsGood, PlacesApart,
                      Belongs, GrantMatchesApproval
<1>6. CASE restart
  <2>1. /\ boot' = boot + 1 /\ tickets' = {} /\ codes' = {}
        /\ UNCHANGED <<clients, approvals, grants, burned>>
    BY <1>6 DEF restart
  <2> QED BY <2>1 DEF FlowInv, FlowTypes, TicketsGood, CodesInFlight, GrantsGood, PlacesApart,
                      GrantMatchesApproval
<1>7. CASE time_passes
  BY <1>1, <1>7 DEF time_passes
<1>8. CASE UNCHANGED oauthVars
  BY <1>1, <1>8 DEF oauthVars
<1> QED BY <1>2, <1>3, <1>4, <1>5, <1>6, <1>7, <1>8, FinalizeKeeps, TokenCodeKeeps,
           TokenTotpKeeps DEF OAuthNext

LEMMA FlowStarts == OAuthInit => FlowInv
<1> SUFFICES ASSUME OAuthInit PROVE FlowInv
  OBVIOUS
<1> QED BY TtlAssumption
        DEF OAuthInit, FlowInv, FlowTypes, TicketsGood, CodesInFlight, GrantsGood, PlacesApart,
            GrantMatchesApproval

-----------------------------------------------------------------------------
\* The invariant of the sign-in: every ticket, code and grant belongs to the
\* approval it names (_issue_pending, _consume_pending, CodeStore), and none of
\* them shares it.
THEOREM FlowInductive == OAuthSpec => [](GuardInv /\ FlowInv)
<1>1. OAuthInit => GuardInv /\ FlowInv
  BY GuardStarts, FlowStarts DEF OAuthInit
<1>2. (GuardInv /\ FlowInv) /\ [OAuthNext]_oauthVars => (GuardInv /\ FlowInv)'
  <2>1. GuardInv => now \in Nat
    BY NumberAssumption DEF GuardInv, TrustGood
  <2> QED BY <2>1, HandlersUseGuard, GuardKept, FlowKept
<1> QED BY <1>1, <1>2, PTL DEF OAuthSpec

LEMMA FlowInvImplies ==
  FlowInv => OneGrantPerApproval /\ GrantMatchesApproval /\ BurnedStaysBurned
<1> SUFFICES ASSUME FlowInv
             PROVE  OneGrantPerApproval /\ GrantMatchesApproval /\ BurnedStaysBurned
  OBVIOUS
<1>1. OneGrantPerApproval
  BY DEF FlowInv, PlacesApart, OneGrantPerApproval
<1>2. BurnedStaysBurned
  BY DEF FlowInv, PlacesApart, BurnedStaysBurned
<1> QED BY <1>1, <1>2 DEF FlowInv, GrantsGood

\* The tables of the sign-in keep their types.
THEOREM OAuthTypeCorrect == OAuthSpec => []OAuthTypeOK
<1>1. GuardInv /\ FlowInv => OAuthTypeOK
  BY GuardInvImplies DEF FlowInv, FlowTypes, OAuthTypeOK
<1> QED BY <1>1, FlowInductive, PTL

\* One second factor, one set of tokens: however often the forms and the token
\* requests are repeated, an approval is a ticket, a code or tokens, once.
THEOREM ApprovalGrantsOnce == OAuthSpec => []OneGrantPerApproval
BY FlowInductive, FlowInvImplies, PTL

\* Tokens go to the client and the request that were approved, within the
\* lifetimes of ticket and code, and not across a restart.
THEOREM TokensGoWhereApproved == OAuthSpec => []GrantMatchesApproval
BY FlowInductive, FlowInvImplies, PTL

\* CodeStore pops a code whatever the outcome: once presented wrongly, it yields
\* no tokens.
THEOREM SpoiltCodesYieldNothing == OAuthSpec => []BurnedStaysBurned
BY FlowInductive, FlowInvImplies, PTL

\* The second factor's promises hold of the whole sign-in.
THEOREM GuardHoldsInOAuth ==
  OAuthSpec => [](CodeSpentOnce /\ GuessBudget /\ NotLockedByOthers)
BY FlowInductive, GuardInvImplies, PTL
=============================================================================
