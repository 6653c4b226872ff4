-------------------------- MODULE TokenStoreProofs --------------------------
(***************************************************************************)
(* The token store, for every number of clients, tokens and failed writes  *)
(* and every setting of the lifetimes.  Three results, each with its own   *)
(* inductive invariant.                                                    *)
(*                                                                         *)
(* Type correctness, and that no sign-in outlives SESSION_LIFETIME (IInv). *)
(* Neither fact is inductive by itself.  A restart caps the expiry of each *)
(* bearer at the least family end among the refresh rows of its family;    *)
(* that this is a time at all, and changes nothing, holds because the      *)
(* rows are bounded already.  And opening a family sets its start, which   *)
(* leaves older rows bounded because none of them can carry a number that  *)
(* has not been minted.  The statements a method has yet to commit carry   *)
(* rows too, so they are part of the invariant.                            *)
(*                                                                         *)
(* What a caller was told survives every crash, as long as no SQL          *)
(* statement failed (Kept): memory and disk are in step but for the        *)
(* statements in the queue.                                                *)
(*                                                                         *)
(* The store implements the rotation chain SignIn (ChainKept): the queue   *)
(* holds the next key of a family only behind the statement that retires   *)
(* the old one.                                                            *)
(***************************************************************************)
EXTENDS TokenStore, TLAPS, FiniteSetTheorems

GoodBearer(at) ==
  /\ at \in OauthToken
  /\ at.family_id <= minted
  /\ BearerBounded(at)

GoodRenewal(rt) ==
  /\ rt \in RefreshToken
  /\ rt.family_id <= minted
  /\ RenewalBounded(rt)

GoodStatement(s) ==
  /\ s \in Statement
  /\ s.table = "oauth" => \A at \in s.rows : GoodBearer(at)
  /\ s.table = "refresh" => \A rt \in s.rows : GoodRenewal(rt)

\* The parts of the invariant that speak of tokens: in memory, on disk, and in
\* the statements still to be committed.
MemoryGood ==
  /\ tokens \subseteq AccessToken
  /\ \A at \in oauth : GoodBearer(at)
  /\ \A rt \in refresh : GoodRenewal(rt)

DiskGood ==
  /\ namedRows \subseteq AccessToken
  /\ \A at \in oauthRows : GoodBearer(at)
  /\ \A rt \in refreshRows : GoodRenewal(rt)

WritesGood ==
  /\ writes \in Seq(Statement)
  /\ \A i \in DOMAIN writes : GoodStatement(writes[i])

ScalarsGood ==
  /\ now \in 0..MaxTime
  /\ minted \in 0..MaxMint
  /\ lost \in 0..MaxLostWrites
  /\ start \in [Id -> Time]
  /\ promise \in Told
  /\ told \in Told

IInv == MemoryGood /\ DiskGood /\ WritesGood /\ ScalarsGood

-----------------------------------------------------------------------------
\* The invariant contains the two properties it is for.
LEMMA InvImplies == IInv => TypeOK /\ SignInBounded
<1> SUFFICES ASSUME IInv PROVE TypeOK /\ SignInBounded
  OBVIOUS
<1>1. TypeOK
  BY DEF IInv, MemoryGood, DiskGood, WritesGood, ScalarsGood, TypeOK,
         GoodBearer, GoodRenewal
<1>2. SignInBounded
  BY DEF IInv, MemoryGood, DiskGood, SignInBounded, GoodBearer, GoodRenewal
<1> QED BY <1>1, <1>2

LEMMA InitInv == Init => IInv
<1> SUFFICES ASSUME Init PROVE IInv
  OBVIOUS
<1> USE TimeAssumption, BoundAssumption
<1>1. MemoryGood /\ DiskGood
  BY DEF Init, MemoryGood, DiskGood
<1>2. WritesGood
  BY DEF Init, WritesGood
<1>3. ScalarsGood
  BY DEF Init, ScalarsGood, Nothing, Tell, Told, Time, Id
<1> QED BY <1>1, <1>2, <1>3 DEF IInv

\* A good row stays good while the families that exist keep their start.
LEMMA GoodStable ==
  ASSUME minted \in Nat, minted' \in Nat, minted <= minted',
         \A f \in Id : f <= minted => start'[f] = start[f]
  PROVE  /\ \A at : GoodBearer(at) => GoodBearer(at)'
         /\ \A rt : GoodRenewal(rt) => GoodRenewal(rt)'
         /\ \A s : GoodStatement(s) => GoodStatement(s)'
<1>1. ASSUME NEW at, GoodBearer(at) PROVE GoodBearer(at)'
  <2>1. at.family_id \in Id \cup {NoFamily} /\ at.family_id <= minted'
    BY <1>1, BoundAssumption DEF GoodBearer, OauthToken, Id, NoFamily
  <2>2. at.family_id # NoFamily => EndOf(at.family_id)' = EndOf(at.family_id)
    BY <1>1, <2>1 DEF GoodBearer, EndOf
  <2> QED BY <1>1, <2>1, <2>2 DEF GoodBearer, BearerBounded
<1>2. ASSUME NEW rt, GoodRenewal(rt) PROVE GoodRenewal(rt)'
  <2>1. rt.family_id \in Id /\ rt.family_id <= minted'
    BY <1>2, BoundAssumption DEF GoodRenewal, RefreshToken, Id
  <2>2. EndOf(rt.family_id)' = EndOf(rt.family_id)
    BY <1>2, <2>1 DEF GoodRenewal, EndOf
  <2> QED BY <1>2, <2>1, <2>2 DEF GoodRenewal, RenewalBounded
<1> QED BY <1>1, <1>2 DEF GoodStatement

\* _cleanup only removes tokens and blanks replays, so it keeps what is good.
LEMMA CleanUpGood ==
  ASSUME NEW T, NEW O, NEW R, CleanedUp(T, O, R),
         T \subseteq AccessToken,
         \A at \in O : GoodBearer(at)',
         \A rt \in R : GoodRenewal(rt)',
         namedRows \subseteq AccessToken,
         \A at \in oauthRows : GoodBearer(at)',
         \A rt \in refreshRows : GoodRenewal(rt)'
  PROVE  MemoryGood' /\ DiskGood'
<1>1. DiskGood'
  BY DEF CleanedUp, DiskGood, WithoutIds
<1>2. tokens' \subseteq AccessToken
  BY DEF CleanedUp, Live
<1>3. \A at \in oauth' : GoodBearer(at)'
  BY DEF CleanedUp, Live
<1>4. ASSUME NEW rt \in R, NEW x, x = ForgetReplay(rt) PROVE GoodRenewal(x)'
  <2>1. rt \in RefreshToken
    BY <1>4 DEF GoodRenewal
  <2>2. x \in RefreshToken
    BY <1>4, <2>1 DEF ForgetReplay, RefreshToken, NoGrant
  <2>3. /\ x.family_id = rt.family_id
        /\ x.expires_at = rt.expires_at
        /\ x.family_expires_at = rt.family_expires_at
    BY <1>4, <2>1 DEF ForgetReplay, RefreshToken
  <2>4. rt.family_id <= minted' /\ RenewalBounded(rt)'
    BY <1>4 DEF GoodRenewal
  <2> QED BY <2>2, <2>3, <2>4 DEF GoodRenewal, RenewalBounded
<1>5. \A rt \in refresh' : GoodRenewal(rt)'
  BY <1>4 DEF CleanedUp, Live
<1> QED BY <1>1, <1>2, <1>3, <1>5 DEF MemoryGood

\* What _mint_oauth makes for a family that ends at `end' is good.
LEMMA MintGood ==
  ASSUME IInv, minted < MaxMint, minted' = minted + 1,
         NEW c \in Client, NEW f \in 1..(minted + 1), NEW end \in Nat,
         end = EndOf(f)',
         NEW at, at = Bearer(c, f, end), NEW rt, rt = Renewal(c, f, end)
  PROVE  GoodBearer(at)' /\ GoodRenewal(rt)'
<1> USE TimeAssumption, BoundAssumption
<1>1. minted \in 0..MaxMint /\ now \in 0..MaxTime
  BY DEF IInv, ScalarsGood
<1>2. minted + 1 \in Id /\ f \in Id
  BY <1>1 DEF Id
<1>3. at \in OauthToken /\ at.family_id = f /\ at.expires_at <= end
  BY <1>1, <1>2 DEF Bearer, OauthToken, Time, MinOf
<1>4. /\ rt \in RefreshToken /\ rt.family_id = f
      /\ rt.expires_at <= end /\ rt.family_expires_at = end
  BY <1>1, <1>2 DEF Renewal, RefreshToken, Time, MinOf, NoGrant
<1> QED
  BY <1>1, <1>3, <1>4 DEF GoodBearer, GoodRenewal, BearerBounded, RenewalBounded

\* The statements that insert a row carry what they were given.
LEMMA InsertGood ==
  /\ \A at \in AccessToken : GoodStatement(persist(at))'
  /\ \A at : GoodBearer(at)' => GoodStatement(persist_oauth(at))'
  /\ \A rt : GoodRenewal(rt)' => GoodStatement(persist_refresh(rt))'
<1> USE DEF Insert, Statement, StatementOn
<1>1. ASSUME NEW at \in AccessToken PROVE GoodStatement(persist(at))'
  BY DEF GoodStatement, persist, AccessToken
<1>2. ASSUME NEW at, GoodBearer(at)' PROVE GoodStatement(persist_oauth(at))'
  <2>1. at \in OauthToken
    BY <1>2 DEF GoodBearer
  <2>2. persist_oauth(at) \in Statement
    BY <2>1 DEF persist_oauth, OauthToken
  <2> QED BY <1>2, <2>2 DEF GoodStatement, persist_oauth
<1>3. ASSUME NEW rt, GoodRenewal(rt)' PROVE GoodStatement(persist_refresh(rt))'
  <2>1. rt \in RefreshToken
    BY <1>3 DEF GoodRenewal
  <2>2. ASSUME NEW x, x = Row(rt) PROVE GoodRenewal(x)'
    <3>1. x \in RefreshToken
      BY <2>1, <2>2 DEF Row, Rotated, RefreshToken, Time, NoGrant
    <3>2. /\ x.family_id = rt.family_id
          /\ x.expires_at = rt.expires_at
          /\ x.family_expires_at = rt.family_expires_at
      BY <2>2 DEF Row, Rotated
    <3> QED BY <1>3, <3>1, <3>2 DEF GoodRenewal, RenewalBounded
  <2>3. Row(rt) \in RefreshToken /\ Row(rt).id \in Id
    BY <2>2 DEF GoodRenewal, RefreshToken
  <2>4. persist_refresh(rt) \in Statement
    BY <2>3 DEF persist_refresh
  <2> QED BY <2>2, <2>4 DEF GoodStatement, persist_refresh
<1> QED BY <1>1, <1>2, <1>3

\* The statements that only delete carry no row at all.
LEMMA DeleteGood ==
  /\ \A id \in Id : GoodStatement(unpersist(id))' /\ GoodStatement(DeleteOauth(id))'
  /\ \A t \in {"oauth", "refresh"}, f \in Id : GoodStatement(DeleteFamily(t, f))'
  /\ \A t \in {"oauth", "refresh"}, c \in Client : GoodStatement(DeleteClient(t, c))'
BY DEF GoodStatement, unpersist, DeleteOauth, DeleteFamily, DeleteClient, Delete,
       Statement, StatementOn

\* Sequences of one, two and three good statements.
LEMMA QueueGood ==
  /\ \A a : GoodStatement(a)' /\ writes' = <<a>> => WritesGood'
  /\ \A a, b : GoodStatement(a)' /\ GoodStatement(b)' /\ writes' = <<a, b>> => WritesGood'
  /\ \A a, b, c : GoodStatement(a)' /\ GoodStatement(b)' /\ GoodStatement(c)'
                    /\ writes' = <<a, b, c>> => WritesGood'
<1>1. ASSUME NEW a, GoodStatement(a)', writes' = <<a>> PROVE WritesGood'
  BY <1>1 DEF WritesGood, GoodStatement
<1>2. ASSUME NEW a, NEW b, GoodStatement(a)', GoodStatement(b)', writes' = <<a, b>>
      PROVE WritesGood'
  BY <1>2 DEF WritesGood, GoodStatement
<1>3. ASSUME NEW a, NEW b, NEW c, GoodStatement(a)', GoodStatement(b)', GoodStatement(c)',
             writes' = <<a, b, c>>
      PROVE WritesGood'
  BY <1>3 DEF WritesGood, GoodStatement
<1> QED BY <1>1, <1>2, <1>3

-----------------------------------------------------------------------------
(* One lemma per method.                                                   *)

LEMMA IssueInv ==
  ASSUME IInv, NEW c \in Client, issue(c) \/ issue_named(c)
  PROVE  IInv'
<1> USE TimeAssumption, BoundAssumption
<1>1. minted \in 0..MaxMint /\ now \in 0..MaxTime /\ minted < MaxMint /\ minted' = minted + 1
  BY DEF IInv, ScalarsGood, issue, issue_named
<1>2. ScalarsGood'
  BY <1>1 DEF IInv, ScalarsGood, issue, issue_named
<1>3. /\ \A at : GoodBearer(at) => GoodBearer(at)'
      /\ \A rt : GoodRenewal(rt) => GoodRenewal(rt)'
  BY <1>1, GoodStable DEF issue, issue_named
<1>4. CASE issue(c)
  <2> DEFINE at == [id |-> minted + 1, client_id |-> c,
                    expires_at |-> now + TOKEN_TTL, named |-> FALSE]
  <2>1. at \in AccessToken
    BY <1>1 DEF AccessToken, Id, Time
  <2>2. CleanedUp(tokens \cup {at}, oauth, refresh) /\ writes = <<>> /\ writes' = writes
    BY <1>4 DEF issue, Idle
  <2> HIDE DEF at
  <2>3. MemoryGood' /\ DiskGood'
    BY <1>3, <2>1, <2>2, CleanUpGood DEF IInv, MemoryGood, DiskGood
  <2>4. WritesGood'
    BY <2>2 DEF WritesGood
  <2> QED BY <1>2, <2>3, <2>4 DEF IInv
<1>5. CASE issue_named(c)
  <2> DEFINE at == [id |-> minted + 1, client_id |-> c,
                    expires_at |-> NamedExpiry, named |-> TRUE]
  <2>1. at \in AccessToken
    BY <1>1 DEF AccessToken, Id, Time, NamedExpiry, Forever
  <2>2. CleanedUp(tokens \cup {at}, oauth, refresh) /\ writes' = <<persist(at)>>
    BY <1>5 DEF issue_named
  <2> HIDE DEF at
  <2>3. MemoryGood' /\ DiskGood'
    BY <1>3, <2>1, <2>2, CleanUpGood DEF IInv, MemoryGood, DiskGood
  <2>4. WritesGood'
    <3>1. PICK a : a = at
      OBVIOUS
    <3>2. GoodStatement(persist(a))'
      BY <2>1, <3>1, InsertGood
    <3>3. writes' = <<persist(a)>>
      BY <2>2, <3>1
    <3> QED BY <3>2, <3>3, QueueGood DEF persist, Insert
  <2> QED BY <1>2, <2>3, <2>4 DEF IInv
<1> QED BY <1>4, <1>5

LEMMA ListInv ==
  ASSUME IInv, list_named
  PROVE  IInv'
<1>1. minted \in Nat /\ UNCHANGED <<now, writes, promise, minted, lost, start, told>>
  BY BoundAssumption DEF list_named, IInv, ScalarsGood
<1>2. /\ \A at : GoodBearer(at) => GoodBearer(at)'
      /\ \A rt : GoodRenewal(rt) => GoodRenewal(rt)'
      /\ \A s : GoodStatement(s) => GoodStatement(s)'
  BY <1>1, GoodStable
<1>3. MemoryGood' /\ DiskGood'
  BY <1>2, CleanUpGood DEF IInv, MemoryGood, DiskGood, list_named
<1>4. WritesGood' /\ ScalarsGood'
  BY <1>1, <1>2 DEF IInv, WritesGood, ScalarsGood
<1> QED BY <1>3, <1>4 DEF IInv

\* A bearer outside any family is good whatever its expiry.
LEMMA IssueOauthInv ==
  ASSUME IInv, NEW c \in Client, issue_oauth(c)
  PROVE  IInv'
<1> USE TimeAssumption, BoundAssumption
<1>1. minted \in 0..MaxMint /\ now \in 0..MaxTime /\ minted < MaxMint /\ minted' = minted + 1
  BY DEF IInv, ScalarsGood, issue_oauth
<1>2. ScalarsGood'
  BY <1>1 DEF IInv, ScalarsGood, issue_oauth
<1>3. /\ \A at : GoodBearer(at) => GoodBearer(at)'
      /\ \A rt : GoodRenewal(rt) => GoodRenewal(rt)'
  BY <1>1, GoodStable DEF issue_oauth
<1>4. PICK at : at = Bearer(c, NoFamily, now + SESSION_LIFETIME)
  OBVIOUS
<1>5. CleanedUp(tokens, oauth \cup {at}, refresh) /\ writes' = <<persist_oauth(at)>>
  BY <1>4 DEF issue_oauth
<1>6. GoodBearer(at)'
  <2>1. at \in OauthToken /\ at.family_id = NoFamily
    BY <1>1, <1>4 DEF Bearer, OauthToken, Id, Time, MinOf
  <2> QED BY <1>1, <2>1 DEF GoodBearer, BearerBounded, NoFamily
<1>7. MemoryGood' /\ DiskGood'
  BY <1>3, <1>5, <1>6, CleanUpGood DEF IInv, MemoryGood, DiskGood
<1>8. WritesGood'
  BY <1>5, <1>6, InsertGood, QueueGood DEF persist_oauth, Insert
<1> QED BY <1>2, <1>7, <1>8 DEF IInv

\* Opening a family: no row carries its number yet, so nothing else moves.
LEMMA SignInInv ==
  ASSUME IInv, NEW c \in Client, issue_oauth_refresh(c)
  PROVE  IInv'
<1> USE TimeAssumption, BoundAssumption
<1>1. /\ minted \in 0..MaxMint /\ now \in 0..MaxTime /\ minted < MaxMint
      /\ minted' = minted + 1 /\ minted + 1 \in Id
      /\ start \in [Id -> Nat] /\ start' = [start EXCEPT ![minted + 1] = now]
  BY DEF IInv, ScalarsGood, issue_oauth_refresh, Id, Time
<1>2. ScalarsGood'
  BY <1>1 DEF IInv, ScalarsGood, issue_oauth_refresh, Time
<1>3. /\ \A at : GoodBearer(at) => GoodBearer(at)'
      /\ \A rt : GoodRenewal(rt) => GoodRenewal(rt)'
  <2>1. \A f \in Id : f <= minted => start'[f] = start[f]
    BY <1>1 DEF Id
  <2> QED BY <1>1, <2>1, GoodStable
<1>4. PICK at, rt : /\ at = Bearer(c, minted + 1, now + SESSION_LIFETIME)
                    /\ rt = Renewal(c, minted + 1, now + SESSION_LIFETIME)
  OBVIOUS
<1>5. /\ CleanedUp(tokens, oauth \cup {at}, refresh \cup {rt})
      /\ writes' = <<persist_oauth(at), persist_refresh(rt)>>
  BY <1>4 DEF issue_oauth_refresh
<1>6. PICK f, end : f = minted + 1 /\ end = now + SESSION_LIFETIME
  OBVIOUS
<1>7. end \in Nat /\ f \in 1..(minted + 1) /\ end = EndOf(f)'
  BY <1>1, <1>6 DEF EndOf
<1>8. GoodBearer(at)' /\ GoodRenewal(rt)'
  BY <1>1, <1>4, <1>6, <1>7, MintGood
<1>9. MemoryGood' /\ DiskGood'
  BY <1>3, <1>5, <1>8, CleanUpGood DEF IInv, MemoryGood, DiskGood
<1>10. WritesGood'
  BY <1>5, <1>8, InsertGood, QueueGood DEF persist_oauth, persist_refresh, Insert, Row, Rotated
<1> QED BY <1>2, <1>9, <1>10 DEF IInv

\* A rotation hands the family's end on unchanged.
LEMMA RotateInv ==
  ASSUME IInv, NEW rt \in refresh, refresh_rotated(rt)
  PROVE  IInv'
<1> USE TimeAssumption, BoundAssumption
<1>1. /\ minted \in 0..MaxMint /\ now \in 0..MaxTime /\ minted < MaxMint
      /\ minted' = minted + 1 /\ minted + 1 \in Id /\ start' = start
  BY DEF IInv, ScalarsGood, refresh_rotated, Id, Time
<1>2. /\ rt \in RefreshToken /\ rt.family_id <= minted /\ RenewalBounded(rt)
      /\ rt.family_id \in Id /\ rt.client_id \in Client /\ rt.family_expires_at \in Nat
      /\ rt.id \in Id
  BY DEF IInv, MemoryGood, GoodRenewal, RefreshToken, Time
<1>3. /\ \A at : GoodBearer(at) => GoodBearer(at)'
      /\ \A r : GoodRenewal(r) => GoodRenewal(r)'
  BY <1>1, GoodStable
<1>4. PICK at, new, used :
        /\ at = Bearer(rt.client_id, rt.family_id, rt.family_expires_at)
        /\ new = Renewal(rt.client_id, rt.family_id, rt.family_expires_at)
        /\ used = Rotated(rt, TRUE, now, new.id, rt.family_expires_at)
  OBVIOUS
<1>5. /\ CleanedUp(tokens, oauth \cup {at}, (refresh \ {rt}) \cup {used, new})
      /\ writes' = <<persist_refresh(used), persist_oauth(at), persist_refresh(new)>>
  BY <1>4 DEF refresh_rotated, RotationWrites
<1>6. PICK f, end, c : f = rt.family_id /\ end = rt.family_expires_at /\ c = rt.client_id
  OBVIOUS
<1>7. c \in Client /\ end \in Nat /\ f \in 1..(minted + 1) /\ end = EndOf(f)'
  BY <1>1, <1>2, <1>6 DEF EndOf, RenewalBounded, Id
<1>8. GoodBearer(at)' /\ GoodRenewal(new)'
  BY <1>1, <1>4, <1>6, <1>7, MintGood
<1>9. GoodRenewal(used)'
  <2>1. new.id \in Id
    BY <1>1, <1>4 DEF Renewal
  <2>2. used \in RefreshToken
    BY <1>1, <1>2, <1>4, <2>1 DEF Rotated, RefreshToken, Time
  <2>3. /\ used.family_id = rt.family_id /\ used.expires_at = rt.family_expires_at
        /\ used.family_expires_at = rt.family_expires_at
    BY <1>4 DEF Rotated
  <2>4. rt.family_id <= minted' /\ rt.family_expires_at = EndOf(rt.family_id)'
    BY <1>1, <1>2 DEF EndOf, RenewalBounded, Id
  <2> QED BY <1>2, <2>2, <2>3, <2>4 DEF GoodRenewal, RenewalBounded
<1>10. MemoryGood' /\ DiskGood'
  BY <1>3, <1>5, <1>8, <1>9, CleanUpGood DEF IInv, MemoryGood, DiskGood
<1>11. WritesGood'
  BY <1>5, <1>8, <1>9, InsertGood, QueueGood
     DEF persist_oauth, persist_refresh, Insert, Row, Rotated
<1>12. ScalarsGood'
  BY <1>1, <1>2 DEF IInv, ScalarsGood, refresh_rotated, Tell, Told
<1> QED BY <1>10, <1>11, <1>12 DEF IInv

\* Steps that leave the clock of every family alone keep good rows good.
LEMMA Quiet ==
  ASSUME IInv, UNCHANGED <<minted, start>>
  PROVE  /\ \A at : GoodBearer(at) => GoodBearer(at)'
         /\ \A rt : GoodRenewal(rt) => GoodRenewal(rt)'
         /\ \A s : GoodStatement(s) => GoodStatement(s)'
<1>1. minted \in Nat
  BY BoundAssumption DEF IInv, ScalarsGood
<1> QED BY <1>1, GoodStable

LEMMA RevokeFamilyInv ==
  ASSUME IInv, NEW f \in Id, revoke_family(f), UNCHANGED <<now, minted, lost, start, told>>
  PROVE  IInv'
<1>1. MemoryGood' /\ DiskGood'
  BY Quiet DEF revoke_family, disk, IInv, MemoryGood, DiskGood, NotOfFamily
<1>2. WritesGood'
  BY DeleteGood, QueueGood DEF revoke_family, FamilyDeletes, DeleteFamily, Delete
<1>3. ScalarsGood'
  BY DEF revoke_family, IInv, ScalarsGood, Tell, Told
<1> QED BY <1>1, <1>2, <1>3 DEF IInv

LEMMA RefreshInv ==
  ASSUME IInv, Refresh
  PROVE  IInv'
<1>1. PICK rt \in refresh : \/ refresh_rotated(rt)
                            \/ refresh_reused(rt)
                            \/ refresh_ended(rt)
                            \/ refresh_idled(rt)
  BY DEF Refresh
<1>2. rt.family_id \in Id
  BY DEF IInv, MemoryGood, GoodRenewal, RefreshToken
<1>3. CASE refresh_rotated(rt)
  BY <1>3, RotateInv
<1>4. CASE refresh_reused(rt) \/ refresh_ended(rt)
  BY <1>2, <1>4, RevokeFamilyInv DEF refresh_reused, refresh_ended
<1>5. CASE refresh_idled(rt)
  <2>1. UNCHANGED <<now, tokens, oauth, namedRows, oauthRows, writes, promise,
                    minted, lost, start, told>>
    BY <1>5 DEF refresh_idled
  <2>2. MemoryGood' /\ DiskGood'
    BY <1>5, <2>1, Quiet DEF refresh_idled, IInv, MemoryGood, DiskGood, WithoutIds
  <2>3. WritesGood' /\ ScalarsGood'
    BY <2>1, Quiet DEF IInv, WritesGood, ScalarsGood
  <2> QED BY <2>2, <2>3 DEF IInv
<1> QED BY <1>1, <1>3, <1>4, <1>5

\* The queue of revoke_client: only deletes, two for each client.
LEMMA RevokeClientsInv ==
  ASSUME IInv, NEW cs \in Seq(Client), revoke_clients(cs),
         UNCHANGED <<now, minted, lost, start, told>>
  PROVE  IInv'
<1>1. MemoryGood' /\ DiskGood'
  BY Quiet DEF revoke_clients, disk, IInv, MemoryGood, DiskGood, NotOfClients
<1>2. WritesGood'
  <2> DEFINE w == [i \in 1..(2 * Len(cs)) |->
                    DeleteClient(IF i % 2 = 1 THEN "oauth" ELSE "refresh", cs[(i + 1) \div 2])]
  <2>1. writes' = w
    BY DEF revoke_clients
  <2>2. Len(cs) \in Nat
    OBVIOUS
  <2>3. ASSUME NEW i \in 1..(2 * Len(cs)) PROVE GoodStatement(w[i])'
    <3>1. (i + 1) \div 2 \in 1..Len(cs)
      BY <2>2
    <3>2. PICK c \in Client : c = cs[(i + 1) \div 2]
      BY <3>1
    <3>3. PICK t \in {"oauth", "refresh"} : t = IF i % 2 = 1 THEN "oauth" ELSE "refresh"
      OBVIOUS
    <3>4. w[i] = DeleteClient(t, c)
      BY <3>2, <3>3
    <3>5. GoodStatement(DeleteClient(t, c))'
      BY DeleteGood
    <3>6. PICK d : d = DeleteClient(t, c)
      OBVIOUS
    <3>7. GoodStatement(d)'
      BY <3>5, <3>6 DEF DeleteClient, Delete
    <3> QED BY <2>1, <3>4, <3>5, <3>6, <3>7 DEF DeleteClient, Delete
  <2>4. writes' \in Seq(Statement)
    <3>1. \A i \in 1..(2 * Len(cs)) : w[i] \in Statement
      BY <2>3 DEF GoodStatement
    <3> QED BY <2>1, <2>2, <3>1
  <2> QED BY <2>1, <2>2, <2>3, <2>4 DEF WritesGood
<1>3. ScalarsGood'
  <2>1. ASSUME NEW C PROVE FamiliesOf(C) \subseteq Id
    BY DEF FamiliesOf, OfClients, IInv, MemoryGood, GoodBearer, GoodRenewal,
           OauthToken, RefreshToken
  <2> QED BY <2>1 DEF revoke_clients, IInv, ScalarsGood, Tell, Told
<1> QED BY <1>1, <1>2, <1>3 DEF IInv

LEMMA PruneInv ==
  ASSUME IInv,
         \/ \E c \in Client : revoke_client(c)
         \/ \E known \in SUBSET Client : prune_unknown_clients(known)
  PROVE  IInv'
<1>1. ASSUME NEW c \in Client, revoke_client(c) PROVE IInv'
  <2>1. PICK cs : cs = <<c>>
    OBVIOUS
  <2>2. cs \in Seq(Client)
    BY <2>1
  <2>3. revoke_clients(cs) /\ UNCHANGED <<now, minted, lost, start, told>>
    BY <1>1, <2>1 DEF revoke_client
  <2> QED BY <2>2, <2>3, RevokeClientsInv
<1>2. ASSUME NEW known \in SUBSET Client, prune_unknown_clients(known) PROVE IInv'
  <2> DEFINE owners == {t.client_id : t \in oauth} \cup {t.client_id : t \in refresh}
             stale  == owners \ known
  <2>1. owners \subseteq Client
    BY DEF IInv, MemoryGood, GoodBearer, GoodRenewal, OauthToken, RefreshToken
  <2>2. IsFiniteSet(stale)
    BY <2>1, ClientAssumption, FS_Subset
  <2>3. Cardinality(stale) \in Nat
    BY <2>2, FS_CardinalityType
  <2>4. PICK cs \in [1..Cardinality(stale) -> stale] : revoke_clients(cs)
    BY <1>2 DEF prune_unknown_clients
  <2>5. cs \in Seq(Client)
    <3>1. PICK n \in Nat : n = Cardinality(stale)
      BY <2>3
    <3>2. cs \in [1..n -> Client]
      BY <2>1, <2>4, <3>1
    <3> QED BY <3>2
  <2>6. UNCHANGED <<now, minted, lost, start, told>>
    BY <1>2 DEF prune_unknown_clients
  <2> QED BY <2>4, <2>5, <2>6, RevokeClientsInv
<1> QED BY <1>1, <1>2

LEMMA ValidateInv ==
  ASSUME IInv, \/ \E t \in tokens : validate(t)
               \/ \E t \in oauth : validate_oauth(t)
  PROVE  IInv'
<1>1. UNCHANGED <<now, writes, promise, minted, lost, start, told, refresh, refreshRows>>
  BY DEF validate, validate_oauth
<1>2. /\ tokens' \subseteq tokens /\ oauth' \subseteq oauth
      /\ namedRows' \subseteq namedRows /\ oauthRows' \subseteq oauthRows
  BY DEF validate, validate_oauth, WithoutIds
<1>3. MemoryGood' /\ DiskGood'
  BY <1>1, <1>2, Quiet DEF IInv, MemoryGood, DiskGood
<1>4. WritesGood' /\ ScalarsGood'
  BY <1>1, Quiet DEF IInv, WritesGood, ScalarsGood
<1> QED BY <1>3, <1>4 DEF IInv

\* A revocation moves an expiry to an earlier time, never to a later one.
LEMMA RevokeInv ==
  ASSUME IInv, NEW t \in tokens, revoke(t)
  PROVE  IInv'
<1> USE TimeAssumption, BoundAssumption
<1>1. /\ UNCHANGED <<now, oauth, refresh, namedRows, oauthRows, refreshRows,
                     minted, lost, start, told>>
      /\ tokens' = (tokens \ {t}) \cup {Deadline(t)}
      /\ writes' = IF t.named THEN <<unpersist(t.id)>> ELSE <<>>
      /\ promise' = Tell({}, {}, {}, {t.id})
  BY DEF revoke, disk
<1>2. t \in AccessToken /\ t.id \in Id /\ now \in Nat
  BY DEF IInv, MemoryGood, ScalarsGood, AccessToken
<1>3. Deadline(t) \in AccessToken
  BY <1>2 DEF Deadline, AccessToken, MinOf, Time
<1>4. MemoryGood' /\ DiskGood'
  BY <1>1, <1>3, Quiet DEF IInv, MemoryGood, DiskGood
<1>5. WritesGood'
  <2>1. CASE t.named
    BY <1>1, <1>2, <2>1, DeleteGood, QueueGood DEF unpersist, Delete
  <2>2. CASE ~t.named
    BY <1>1, <2>2 DEF WritesGood
  <2> QED BY <2>1, <2>2
<1>6. ScalarsGood'
  BY <1>1, <1>2 DEF IInv, ScalarsGood, Tell, Told
<1> QED BY <1>4, <1>5, <1>6 DEF IInv

LEMMA RevokeOauthInv ==
  ASSUME IInv, NEW t \in oauth, revoke_oauth(t)
  PROVE  IInv'
<1> USE TimeAssumption, BoundAssumption
<1>1. /\ UNCHANGED <<now, tokens, namedRows, oauthRows, refreshRows, minted, lost, start, told>>
      /\ oauth' = (oauth \ {t}) \cup {Deadline(t)}
      /\ refresh' \subseteq refresh
  BY DEF revoke_oauth, disk, NotOfFamily
<1>2. /\ t \in OauthToken /\ t.id \in Id /\ now \in Nat /\ t.expires_at \in Nat
      /\ t.family_id \in Id \cup {NoFamily} /\ GoodBearer(t)
  BY DEF IInv, MemoryGood, ScalarsGood, OauthToken, GoodBearer, Time
<1>3. PICK d : d = Deadline(t)
  OBVIOUS
<1>4. GoodBearer(d)'
  <2>1. /\ d \in OauthToken /\ d.family_id = t.family_id /\ d.expires_at <= t.expires_at
        /\ d.expires_at \in Nat
    BY <1>2, <1>3 DEF Deadline, OauthToken, MinOf, Time
  <2>2. t.family_id # NoFamily => EndOf(t.family_id) \in Nat
    BY <1>2 DEF IInv, ScalarsGood, EndOf, Time
  <2>3. GoodBearer(d)
    BY <1>2, <2>1, <2>2 DEF GoodBearer, BearerBounded
  <2> QED BY <1>1, <2>3, Quiet
<1>5. MemoryGood' /\ DiskGood'
  BY <1>1, <1>3, <1>4, Quiet DEF IInv, MemoryGood, DiskGood
<1>6. WritesGood'
  <2>1. CASE t.family_id = NoFamily
    BY <1>2, <2>1, DeleteGood, QueueGood DEF revoke_oauth, DeleteOauth, Delete
  <2>2. CASE t.family_id # NoFamily
    BY <1>2, <2>2, DeleteGood, QueueGood DEF revoke_oauth, DeleteOauth, DeleteFamily, Delete
  <2> QED BY <2>1, <2>2
<1>7. ScalarsGood'
  <2>1. promise' \in Told
    BY <1>2 DEF revoke_oauth, Tell, Told, NoFamily
  <2> QED BY <1>1, <2>1 DEF IInv, ScalarsGood
<1> QED BY <1>5, <1>6, <1>7 DEF IInv

\* A commit moves rows from the queue to their table.
LEMMA WriteInv ==
  ASSUME IInv, db_write \/ db_write_fails
  PROVE  IInv'
<1>1. /\ UNCHANGED <<now, tokens, oauth, refresh, promise, minted, start, told>>
      /\ writes # <<>> /\ writes' = Tail(writes)
  BY DEF db_write, db_write_fails, memory
<1>2. ScalarsGood'
  BY <1>1, BoundAssumption DEF IInv, ScalarsGood, db_write, db_write_fails
<1>3. MemoryGood'
  BY <1>1, Quiet DEF IInv, MemoryGood
<1>4. WritesGood'
  <2>1. writes \in Seq(Statement) /\ Tail(writes) \in Seq(Statement)
    BY <1>1 DEF IInv, WritesGood
  <2>2. \A i \in DOMAIN Tail(writes) : i + 1 \in DOMAIN writes /\ Tail(writes)[i] = writes[i + 1]
    BY <1>1, <2>1
  <2>3. \A i \in DOMAIN writes' : GoodStatement(writes'[i])
    BY <1>1, <2>2 DEF IInv, WritesGood
  <2> QED BY <1>1, <2>1, <2>3, Quiet DEF WritesGood
<1>5. PICK s : s = Head(writes)
  OBVIOUS
<1>6. GoodStatement(s)
  BY <1>1, <1>5 DEF IInv, WritesGood
<1>7. CASE db_write
  <2>1. namedRows' \subseteq AccessToken
    <3>1. s.table = "named" => s.rows \subseteq AccessToken
      BY <1>6 DEF GoodStatement, Statement, StatementOn
    <3> QED BY <1>5, <1>7, <3>1 DEF db_write, NamedAfter, WithoutIds, IInv, DiskGood
  <2>2. \A at \in oauthRows' : GoodBearer(at)
    BY <1>5, <1>6, <1>7 DEF db_write, OauthAfter, WithoutIds, IInv, DiskGood, GoodStatement
  <2>3. \A rt \in refreshRows' : GoodRenewal(rt)
    BY <1>5, <1>6, <1>7 DEF db_write, RefreshAfter, WithoutIds, IInv, DiskGood, GoodStatement
  <2>4. DiskGood'
    BY <1>1, <2>1, <2>2, <2>3, Quiet DEF DiskGood
  <2> QED BY <1>2, <1>3, <1>4, <2>4 DEF IInv
<1>8. CASE db_write_fails
  <2>1. DiskGood'
    BY <1>1, <1>8, Quiet DEF db_write_fails, disk, IInv, DiskGood
  <2> QED BY <1>2, <1>3, <1>4, <2>1 DEF IInv
<1> QED BY <1>7, <1>8

LEMMA ReturnInv ==
  ASSUME IInv, Return
  PROVE  IInv'
<1>1. UNCHANGED <<now, tokens, oauth, refresh, namedRows, oauthRows, refreshRows,
                  writes, minted, lost, start>>
  BY DEF Return, memory, disk
<1>2. MemoryGood' /\ DiskGood' /\ WritesGood'
  BY <1>1, Quiet DEF IInv, MemoryGood, DiskGood, WritesGood
<1>3. promise' \in Told
  BY DEF Return, Nothing, Tell, Told
<1>4. told' \in Told
  BY DEF Return, IInv, ScalarsGood, Told
<1> QED BY <1>1, <1>2, <1>3, <1>4 DEF IInv, ScalarsGood

\* The least element of a set of integers that has a known lower bound in it.
LEMMA LeastOf ==
  ASSUME NEW e \in Int, NEW S, S \subseteq Int, e \in S, \A y \in S : e <= y
  PROVE  Least(S) = e
<1>1. \E x \in S : \A y \in S : x <= y
  OBVIOUS
<1>2. Least(S) \in S /\ \A y \in S : Least(S) <= y
  BY <1>1, Zenon DEF Least
<1>3. \A m \in Int : m <= e /\ e <= m => m = e
  OBVIOUS
<1> QED BY <1>2, <1>3

\* A start changes no row: each is bounded by its family's end already.
LEMMA RestartInv ==
  ASSUME IInv, Restart
  PROVE  IInv'
<1> USE TimeAssumption, BoundAssumption
<1> DEFINE R == BoundRefresh(refreshRows)
           O == BoundOauth(oauthRows, R)
<1>1. UNCHANGED <<now, minted, lost, start, told>>
  BY DEF Restart
<1>2. ASSUME NEW rt \in refreshRows, NEW x, x = Bounded(rt, FamilyEnd(rt, refreshRows))
      PROVE  GoodRenewal(x)
  <2>1. rt \in RefreshToken /\ GoodRenewal(rt)
    BY DEF IInv, DiskGood, GoodRenewal
  <2>2. /\ rt.family_expires_at \in Nat /\ rt.expires_at \in Nat
        /\ FamilyEnd(rt, refreshRows) = rt.family_expires_at
    BY <2>1 DEF FamilyEnd, RefreshToken, Time, NoEnd
  <2>3. x \in RefreshToken
    BY <1>2, <2>1, <2>2 DEF Bounded, RefreshToken, Time, MinOf, NoGrant
  <2>4. /\ x.family_id = rt.family_id /\ x.expires_at <= x.family_expires_at
        /\ x.family_expires_at = rt.family_expires_at
    BY <1>2, <2>2 DEF Bounded, MinOf
  <2> QED BY <2>1, <2>3, <2>4 DEF GoodRenewal, RenewalBounded
<1>3. \A x \in R : GoodRenewal(x)
  BY <1>2 DEF BoundRefresh
<1> HIDE DEF R
<1>4. ASSUME NEW at \in oauthRows, NEW x, x = [at EXCEPT !.expires_at = BearerEnd(at, R)]
      PROVE  GoodBearer(x)
  <2>1. at \in OauthToken /\ at.expires_at \in Nat /\ GoodBearer(at)
    BY DEF IInv, DiskGood, GoodBearer, OauthToken, Time
  <2> DEFINE S == {at.expires_at} \cup {r.family_expires_at : r \in OfFamily(R, at.family_id)}
  <2>2. \A y \in S : y \in Int /\ at.expires_at <= y
    <3>1. ASSUME NEW r \in OfFamily(R, at.family_id)
          PROVE  r.family_expires_at \in Int /\ at.expires_at <= r.family_expires_at
      <4>1. GoodRenewal(r) /\ r.family_id = at.family_id
        BY <1>3 DEF OfFamily
      <4>2. r.family_expires_at \in Nat /\ at.family_id \in Id /\ at.family_id # NoFamily
        BY <4>1 DEF GoodRenewal, RefreshToken, Time, Id, NoFamily
      <4> QED BY <2>1, <4>1, <4>2 DEF GoodRenewal, RenewalBounded, GoodBearer, BearerBounded
    <3> QED BY <2>1, <3>1
  <2>3. BearerEnd(at, R) = at.expires_at
    <3>1. at.expires_at \in S
      OBVIOUS
    <3>2. BearerEnd(at, R) = Least(S)
      BY DEF BearerEnd
    <3> HIDE DEF S
    <3> QED BY <2>1, <2>2, <3>1, <3>2, LeastOf
  <2>4. x = at
    BY <1>4, <2>1, <2>3 DEF OauthToken
  <2> QED BY <2>1, <2>4
<1>5. \A x \in O : GoodBearer(x)
  BY <1>4 DEF BoundOauth
<1>6. MemoryGood' /\ DiskGood'
  <2>1. /\ tokens' \subseteq namedRows /\ namedRows' \subseteq namedRows
        /\ oauth' \subseteq O /\ oauthRows' \subseteq O
        /\ refresh' \subseteq R /\ refreshRows' \subseteq R
    BY DEF Restart, Loaded, R
  <2> HIDE DEF O
  <2> QED BY <1>1, <1>3, <1>5, <2>1, Quiet DEF IInv, MemoryGood, DiskGood
<1>7. WritesGood'
  BY DEF Restart, WritesGood
<1>8. ScalarsGood'
  BY <1>1 DEF Restart, IInv, ScalarsGood, Nothing, Tell, Told
<1> QED BY <1>6, <1>7, <1>8 DEF IInv

LEMMA TickInv ==
  ASSUME IInv, Tick
  PROVE  IInv'
<1>1. UNCHANGED <<tokens, oauth, refresh, namedRows, oauthRows, refreshRows,
                  writes, promise, minted, lost, start, told>>
  BY DEF Tick, memory, disk
<1>2. MemoryGood' /\ DiskGood' /\ WritesGood'
  BY <1>1, Quiet DEF IInv, MemoryGood, DiskGood, WritesGood
<1>3. now' \in 0..MaxTime
  BY BoundAssumption DEF Tick, IInv, ScalarsGood
<1> QED BY <1>1, <1>2, <1>3 DEF IInv, ScalarsGood

LEMMA StutterInv ==
  ASSUME IInv, UNCHANGED vars
  PROVE  IInv'
<1>1. UNCHANGED <<now, tokens, oauth, refresh, namedRows, oauthRows, refreshRows,
                  writes, promise, minted, lost, start, told>>
  BY DEF vars
<1>2. MemoryGood' /\ DiskGood' /\ WritesGood' /\ ScalarsGood'
  BY <1>1, Quiet DEF IInv, MemoryGood, DiskGood, WritesGood, ScalarsGood
<1> QED BY <1>2 DEF IInv

-----------------------------------------------------------------------------
\* The invariant holds in every state of every behaviour of the store.
THEOREM Inductive == Spec => []IInv
<1>1. Init => IInv
  BY InitInv
<1>2. IInv /\ [Next]_vars => IInv'
  <2> SUFFICES ASSUME IInv, [Next]_vars PROVE IInv'
    OBVIOUS
  <2>1. ASSUME NEW c \in Client, issue(c) \/ issue_named(c) PROVE IInv'
    BY <2>1, IssueInv
  <2>2. CASE list_named
    BY <2>2, ListInv
  <2>3. ASSUME NEW c \in Client, issue_oauth(c) PROVE IInv'
    BY <2>3, IssueOauthInv
  <2>4. ASSUME NEW c \in Client, issue_oauth_refresh(c) PROVE IInv'
    BY <2>4, SignInInv
  <2>5. CASE Refresh
    BY <2>5, RefreshInv
  <2>6. CASE \/ \E c \in Client : revoke_client(c)
             \/ \E known \in SUBSET Client : prune_unknown_clients(known)
    BY <2>6, PruneInv
  <2>7. CASE \/ \E t \in tokens : validate(t)
             \/ \E t \in oauth : validate_oauth(t)
    BY <2>7, ValidateInv
  <2>8. ASSUME NEW t \in tokens, revoke(t) PROVE IInv'
    BY <2>8, RevokeInv
  <2>9. ASSUME NEW t \in oauth, revoke_oauth(t) PROVE IInv'
    BY <2>9, RevokeOauthInv
  <2>10. CASE db_write \/ db_write_fails
    BY <2>10, WriteInv
  <2>11. CASE Return
    BY <2>11, ReturnInv
  <2>12. CASE Restart
    BY <2>12, RestartInv
  <2>13. CASE Tick
    BY <2>13, TickInv
  <2>14. CASE UNCHANGED vars
    BY <2>14, StutterInv
  <2> QED
    BY <2>1, <2>2, <2>3, <2>4, <2>5, <2>6, <2>7, <2>8, <2>9, <2>10, <2>11,
       <2>12, <2>13, <2>14 DEF Next
<1> QED BY <1>1, <1>2, PTL DEF Spec

\* Every variable of the store keeps its type, whatever it does.
THEOREM TypeCorrect == Spec => []TypeOK
<1>1. IInv => TypeOK
  BY InvImplies
<1> QED BY <1>1, Inductive, PTL

\* However often it is refreshed, and wherever the process dies, no sign-in
\* outlives SESSION_LIFETIME: neither in memory nor in the rows of the disk.
THEOREM SignInNeverOutlivesSession == Spec => []SignInBounded
<1>1. IInv => SignInBounded
  BY InvImplies
<1> QED BY <1>1, Inductive, PTL

-----------------------------------------------------------------------------
(***************************************************************************)
(* What survives a crash.  As long as no SQL statement was lost, memory    *)
(* and disk are in step: once the statements that are still queued have    *)
(* run, each table holds what a start would need to rebuild its            *)
(* dictionary.  Promises are kept in memory from the moment a method gives *)
(* them, on disk from the moment it answers; the answer comes when the     *)
(* queue is empty, and then being in step makes the two the same.  The     *)
(* invariant has one part per table, and one for what the parts share.     *)
(***************************************************************************)
SameId(S) == \A a, b \in S : a.id = b.id => a = b

\* What the answers have told, and what the one under way is about to tell.
KnownRevoked == told.revoked \cup promise.revoked
KnownEnded   == told.ended \cup promise.ended
KnownClosed  == told.closed \cup promise.closed
KnownSpent   == told.spent \cup promise.spent

\* The statements that are still to run, and what they will do to a table.
Pending(table)   == {i \in DOMAIN writes : writes[i].table = table}
Coming(table)    == UNION {writes[i].rows : i \in Pending(table)}
Hits(s, t)       == t.id \in s.ids \/ t.family_id \in s.families \/ t.client_id \in s.clients
Doomed(table, t) == \E i \in Pending(table) : Hits(writes[i], t)
NamedDoomed(t)   == \E i \in Pending("named") : t.id \in writes[i].ids

NamedKept ==
  /\ SameId(tokens) /\ SameId(namedRows)
  /\ \A t \in tokens \cup namedRows : t.id <= minted
  /\ \A t \in tokens : t.id \in KnownRevoked => t.expires_at <= now + REVOKE_GRACE_SECONDS
  /\ \A t \in namedRows : t.named /\ t.id \notin told.revoked
  /\ \A i, j \in Pending("named") : i = j
  /\ {t \in namedRows : ~NamedDoomed(t)} \cup Coming("named")
       = {t \in tokens : t.named /\ t.id \notin KnownRevoked}

OauthKept ==
  /\ SameId(oauth) /\ SameId(oauthRows)
  /\ \A t \in oauth \cup oauthRows : t.id <= minted
  /\ \A t \in oauth : /\ t.id \in KnownRevoked => t.expires_at <= now + REVOKE_GRACE_SECONDS
                      /\ t.family_id \notin KnownEnded
  /\ \A t \in oauthRows : t.id \notin told.revoked /\ t.family_id \notin told.ended
  /\ \A i, j \in Pending("oauth") : i # j => \A t \in writes[i].rows : ~Hits(writes[j], t)
  /\ {t \in oauthRows : ~Doomed("oauth", t)} \cup Coming("oauth")
       = {t \in oauth : t.id \notin KnownRevoked}

OneUnused(R) ==
  \A r1, r2 \in R : ~r1.used /\ ~r2.used /\ r1.family_id = r2.family_id => r1.id = r2.id

\* A statement that adds an exchangeable row is the last one of its table.
RefreshKept ==
  /\ SameId(refresh) /\ SameId(refreshRows)
  /\ \A t \in refresh \cup refreshRows : t.id <= minted
  /\ \A t \in refresh : t.family_id \notin KnownClosed /\ (t.id \in KnownSpent => t.used)
  /\ \A t \in refreshRows : /\ Row(t) = t /\ t.family_id \notin told.closed
                            /\ t.id \in told.spent => t.used
  /\ OneUnused(refresh) /\ OneUnused(refreshRows)
  /\ \A i, j \in Pending("refresh") : i # j => \A t \in writes[i].rows : ~Hits(writes[j], t)
  /\ \A i \in Pending("refresh") :
       (\A t \in writes[i].rows : t.used) \/ (\A j \in Pending("refresh") : j <= i)
  /\ {t \in refreshRows : ~Doomed("refresh", t)} \cup Coming("refresh")
       = {Row(rt) : rt \in refresh}

FamilyTokens == oauth \cup refresh \cup oauthRows \cup refreshRows

TellGood(p) ==
  /\ p.spent \cup p.closed \cup p.revoked \subseteq 1..minted
  /\ p.ended \subseteq p.closed

\* A family has one client, dashboard and OAuth bearers share no id, and what
\* was told speaks of tokens that were minted.
SharedKept ==
  /\ \A a, b \in FamilyTokens :
       a.family_id = b.family_id /\ a.family_id # NoFamily => a.client_id = b.client_id
  /\ \A t \in tokens \cup namedRows, at \in oauth \cup oauthRows : t.id # at.id
  /\ TellGood(told) /\ TellGood(promise)

Kept == NamedKept /\ OauthKept /\ RefreshKept /\ SharedKept


\* The types that IInv gives each table.
LEMMA TypesOf ==
  ASSUME IInv
  PROVE  /\ now \in Nat /\ minted \in 0..MaxMint /\ told \in Told /\ promise \in Told
         /\ \A t \in tokens \cup namedRows : t \in AccessToken
         /\ \A t \in oauth \cup oauthRows : t \in OauthToken /\ GoodBearer(t)
         /\ \A t \in refresh \cup refreshRows : t \in RefreshToken /\ GoodRenewal(t)
         /\ writes \in Seq(Statement)
BY DEF IInv, MemoryGood, DiskGood, WritesGood, ScalarsGood, GoodBearer, GoodRenewal

\* An empty queue.
LEMMA NothingPending ==
  ASSUME writes = <<>>
  PROVE  /\ \A T : Pending(T) = {} /\ Coming(T) = {}
         /\ \A T, t : ~Doomed(T, t)
         /\ \A t : ~NamedDoomed(t)
<1>1. \A T : Pending(T) = {}
  BY DEF Pending
<1> QED BY <1>1 DEF Coming, Doomed, NamedDoomed

\* With nothing queued the tables are what memory says.
LEMMA InStepNow ==
  ASSUME Kept, writes = <<>>
  PROVE  /\ namedRows = {t \in tokens : t.named /\ t.id \notin KnownRevoked}
         /\ oauthRows = {t \in oauth : t.id \notin KnownRevoked}
         /\ refreshRows = {Row(rt) : rt \in refresh}
<1>1. /\ \A T : Coming(T) = {} /\ \A t : ~Doomed(T, t)
      /\ \A t : ~NamedDoomed(t)
  BY NothingPending
<1> QED BY <1>1 DEF Kept, NamedKept, OauthKept, RefreshKept

\* Ids tell the tokens that expired from the others.
LEMMA ExpiredById ==
  ASSUME NEW S, SameId(S)
  PROVE  \A x \in S : x.id \in ExpiredIds(S) <=> x \notin Live(S)
BY DEF SameId, ExpiredIds, Live

\* A row keeps what the invariant speaks of.
LEMMA RowFields ==
  ASSUME NEW rt
  PROVE  /\ Row(rt).id = rt.id /\ Row(rt).family_id = rt.family_id
         /\ Row(rt).client_id = rt.client_id /\ Row(rt).used = rt.used
         /\ Row(rt).expires_at = rt.expires_at
         /\ Row(Row(rt)) = Row(rt)
BY DEF Row, Rotated

LEMMA ForgetFields ==
  ASSUME NEW rt \in RefreshToken
  PROVE  /\ ForgetReplay(rt).id = rt.id /\ ForgetReplay(rt).family_id = rt.family_id
         /\ ForgetReplay(rt).client_id = rt.client_id /\ ForgetReplay(rt).used = rt.used
         /\ Row(ForgetReplay(rt)) = Row(rt)
BY DEF ForgetReplay, Row, Rotated, RefreshToken

-----------------------------------------------------------------------------
(* The named tokens.                                                       *)

\* _cleanup, after the bearers of A were minted; those with a name are queued.
LEMMA NamedMinted ==
  ASSUME IInv, Kept, writes = <<>>, NEW A, NEW O, NEW R, CleanedUp(tokens \cup A, O, R),
         \A a \in A : a.id = minted + 1 /\ now <= a.expires_at, \A a, b \in A : a = b,
         minted' \in {minted, minted + 1}, A # {} => minted' = minted + 1,
         UNCHANGED now, told'.revoked = told.revoked, KnownRevoked' = KnownRevoked,
         \A i, j \in Pending("named")' : i = j,
         Coming("named")' = {a \in A : a.named},
         \A t \in namedRows : ~NamedDoomed(t)'
  PROVE  NamedKept'
<1>1. /\ minted \in Nat /\ \A t \in tokens \cup namedRows : t.id \in Int /\ t.id <= minted
      /\ minted + 1 \notin KnownRevoked
  BY TypesOf, BoundAssumption
     DEF Kept, NamedKept, SharedKept, TellGood, KnownRevoked, AccessToken, Id
<1>2. SameId(tokens \cup A)
  BY <1>1 DEF Kept, NamedKept, SameId
<1>3. tokens' = Live(tokens) \cup A
  BY DEF CleanedUp, Live
<1>4. namedRows = {t \in tokens : t.named /\ t.id \notin KnownRevoked}
  BY InStepNow
<1>5. namedRows' = {t \in namedRows : t \in Live(tokens)}
  <2>1. namedRows' = {t \in namedRows : t.id \notin ExpiredIds(tokens \cup A)}
    BY DEF CleanedUp, WithoutIds
  <2>2. \A t \in tokens : t.id \in ExpiredIds(tokens \cup A) <=> t \notin Live(tokens \cup A)
    BY <1>2, ExpiredById
  <2>3. \A t \in tokens : t \in Live(tokens \cup A) <=> t \in Live(tokens)
    BY DEF Live
  <2> QED BY <1>4, <2>1, <2>2, <2>3
<1>6. SameId(tokens') /\ SameId(namedRows')
  BY <1>1, <1>3, <1>5 DEF Kept, NamedKept, SameId, Live
<1>7. \A t \in tokens' \cup namedRows' : t.id <= minted'
  BY <1>1, <1>3, <1>5 DEF Live
<1>8. \A t \in tokens' : t.id \in KnownRevoked' => t.expires_at <= now' + REVOKE_GRACE_SECONDS
  BY <1>1, <1>3 DEF Kept, NamedKept, Live
<1>9. \A t \in namedRows' : t.named /\ t.id \notin told'.revoked
  BY <1>5 DEF Kept, NamedKept
<1>10. {t \in namedRows' : ~NamedDoomed(t)'} \cup Coming("named")'
         = {t \in tokens' : t.named /\ t.id \notin KnownRevoked'}
  <2>1. {t \in namedRows' : ~NamedDoomed(t)'} = namedRows'
    BY <1>5
  <2> QED BY <1>1, <1>3, <1>4, <1>5, <2>1 DEF Live
<1> QED BY <1>6, <1>7, <1>8, <1>9, <1>10 DEF NamedKept

\* A method that leaves the named tokens alone, while nothing is queued for them.
LEMMA NamedSame ==
  ASSUME IInv, NamedKept, UNCHANGED <<tokens, namedRows, minted, now>>,
         Pending("named") = {}, Pending("named")' = {},
         \A t \in tokens : t.id \in KnownRevoked' <=> t.id \in KnownRevoked,
         \A t \in namedRows : t.id \notin told'.revoked
  PROVE  NamedKept'
<1>1. Coming("named") = {} /\ \A t : ~NamedDoomed(t)
  BY DEF Coming, NamedDoomed
<1>2. Coming("named")' = {} /\ \A t : ~NamedDoomed(t)'
  BY DEF Coming, NamedDoomed
<1>3. {t \in namedRows' : ~NamedDoomed(t)'} \cup Coming("named")'
        = {t \in tokens' : t.named /\ t.id \notin KnownRevoked'}
  BY <1>1, <1>2 DEF NamedKept
<1> QED BY <1>3 DEF NamedKept

\* validate finds a bearer expired.
LEMMA NamedExpired ==
  ASSUME IInv, Kept, NEW t \in tokens, validate(t)
  PROVE  NamedKept'
<1>1. /\ tokens' = tokens \ {t} /\ namedRows' = {x \in namedRows : x.id # t.id}
      /\ writes = <<>> /\ UNCHANGED <<now, writes, promise, minted, told>>
  BY DEF validate, Idle, WithoutIds
<1>2. KnownRevoked' = KnownRevoked
  BY <1>1 DEF KnownRevoked
<1>3. namedRows = {x \in tokens : x.named /\ x.id \notin KnownRevoked}
  BY <1>1, InStepNow
<1>4. namedRows' = {x \in tokens' : x.named /\ x.id \notin KnownRevoked'}
  BY <1>1, <1>2, <1>3 DEF Kept, NamedKept, SameId
<1>5. Pending("named")' = {} /\ Coming("named")' = {} /\ \A x : ~NamedDoomed(x)'
  BY <1>1 DEF Pending, Coming, NamedDoomed
<1> QED BY <1>1, <1>2, <1>4, <1>5 DEF Kept, NamedKept, SameId

\* revoke gives a bearer its deadline and queues the row of a named one.
LEMMA NamedRevoked ==
  ASSUME IInv, Kept, NEW t \in tokens, revoke(t)
  PROVE  NamedKept'
<1>1. /\ tokens' = (tokens \ {t}) \cup {Deadline(t)}
      /\ writes' = IF t.named THEN <<unpersist(t.id)>> ELSE <<>>
      /\ promise' = Tell({}, {}, {}, {t.id}) /\ promise = Nothing
      /\ writes = <<>> /\ UNCHANGED <<now, minted, told, namedRows>>
  BY DEF revoke, Idle, disk
<1>2. KnownRevoked' = KnownRevoked \cup {t.id} /\ told'.revoked = told.revoked
  BY <1>1 DEF KnownRevoked, Tell, Nothing
<1>3. PICK d : d = Deadline(t)
  OBVIOUS
<1>4. d.id = t.id /\ d.named = t.named /\ d.expires_at <= now + REVOKE_GRACE_SECONDS
  <2>1. t \in AccessToken /\ t.expires_at \in Nat /\ now \in Nat
    BY TypesOf DEF AccessToken, Time
  <2> QED BY <1>3, <2>1, TimeAssumption DEF Deadline, MinOf, AccessToken
<1>5. namedRows = {x \in tokens : x.named /\ x.id \notin KnownRevoked}
  BY <1>1, InStepNow
<1>6. /\ \A i, j \in Pending("named")' : i = j
      /\ Coming("named")' = {} /\ \A x : NamedDoomed(x)' <=> t.named /\ x.id = t.id
  <2>1. CASE t.named
    <3>1. PICK u : u = unpersist(t.id)
      OBVIOUS
    <3>2. u.table = "named" /\ u.rows = {} /\ u.ids = {t.id} /\ writes' = <<u>>
      BY <1>1, <2>1, <3>1 DEF unpersist, Delete
    <3>3. Pending("named")' = {1} /\ writes'[1] = u
      BY <3>2 DEF Pending
    <3> QED BY <2>1, <3>2, <3>3 DEF Coming, NamedDoomed
  <2>2. CASE ~t.named
    BY <1>1, <2>2 DEF Pending, Coming, NamedDoomed
  <2> QED BY <2>1, <2>2
<1>7. {x \in namedRows' : ~NamedDoomed(x)'} \cup Coming("named")'
        = {x \in tokens' : x.named /\ x.id \notin KnownRevoked'}
  BY <1>1, <1>2, <1>3, <1>4, <1>5, <1>6 DEF Kept, NamedKept, SameId
<1>8. SameId(tokens') /\ SameId(namedRows')
  BY <1>1, <1>3, <1>4 DEF Kept, NamedKept, SameId
<1>9. /\ \A x \in tokens' \cup namedRows' : x.id <= minted'
      /\ \A x \in tokens' : x.id \in KnownRevoked' => x.expires_at <= now' + REVOKE_GRACE_SECONDS
      /\ \A x \in namedRows' : x.named /\ x.id \notin told'.revoked
  BY <1>1, <1>2, <1>3, <1>4 DEF Kept, NamedKept, SameId
<1> QED BY <1>6, <1>7, <1>8, <1>9 DEF NamedKept

-----------------------------------------------------------------------------
(* The OAuth bearers.                                                      *)

\* _cleanup, after the bearer of B was minted and queued.
LEMMA OauthMinted ==
  ASSUME IInv, Kept, writes = <<>>, NEW B, NEW T, NEW R, CleanedUp(T, oauth \cup B, R),
         \A a \in B : a.id = minted + 1 /\ now <= a.expires_at /\ a.family_id \notin KnownEnded,
         \A a, b \in B : a = b,
         minted' \in {minted, minted + 1}, B # {} => minted' = minted + 1,
         UNCHANGED <<now, told>>, KnownRevoked' = KnownRevoked, KnownEnded' = KnownEnded,
         \A i, j \in Pending("oauth")' : i = j, Coming("oauth")' = B,
         \A t \in oauthRows : ~Doomed("oauth", t)'
  PROVE  OauthKept'
<1>1. /\ minted \in Nat /\ \A t \in oauth \cup oauthRows : t.id \in Int /\ t.id <= minted
      /\ minted + 1 \notin KnownRevoked
  BY TypesOf, BoundAssumption
     DEF Kept, OauthKept, SharedKept, TellGood, KnownRevoked, OauthToken, Id
<1>2. SameId(oauth \cup B)
  BY <1>1 DEF Kept, OauthKept, SameId
<1>3. oauth' = Live(oauth) \cup B
  BY DEF CleanedUp, Live
<1>4. oauthRows = {t \in oauth : t.id \notin KnownRevoked}
  BY InStepNow
<1>5. oauthRows' = {t \in oauthRows : t \in Live(oauth)}
  <2>1. oauthRows' = {t \in oauthRows : t.id \notin ExpiredIds(oauth \cup B)}
    BY DEF CleanedUp, WithoutIds
  <2>2. \A t \in oauth : t.id \in ExpiredIds(oauth \cup B) <=> t \notin Live(oauth \cup B)
    BY <1>2, ExpiredById
  <2>3. \A t \in oauth : t \in Live(oauth \cup B) <=> t \in Live(oauth)
    BY DEF Live
  <2> QED BY <1>4, <2>1, <2>2, <2>3
<1>6. SameId(oauth') /\ SameId(oauthRows')
  BY <1>1, <1>3, <1>5 DEF Kept, OauthKept, SameId, Live
<1>7. \A t \in oauth' \cup oauthRows' : t.id <= minted'
  BY <1>1, <1>3, <1>5 DEF Live
<1>8. \A t \in oauth' : /\ t.id \in KnownRevoked' => t.expires_at <= now' + REVOKE_GRACE_SECONDS
                        /\ t.family_id \notin KnownEnded'
  BY <1>1, <1>3 DEF Kept, OauthKept, Live
<1>9. \A t \in oauthRows' : t.id \notin told'.revoked /\ t.family_id \notin told'.ended
  BY <1>5 DEF Kept, OauthKept
<1>10. {t \in oauthRows' : ~Doomed("oauth", t)'} \cup Coming("oauth")'
         = {t \in oauth' : t.id \notin KnownRevoked'}
  <2>1. {t \in oauthRows' : ~Doomed("oauth", t)'} = oauthRows'
    BY <1>5
  <2> QED BY <1>1, <1>3, <1>4, <1>5, <2>1 DEF Live
<1> QED BY <1>6, <1>7, <1>8, <1>9, <1>10 DEF OauthKept

\* A method that leaves the OAuth bearers alone.
LEMMA OauthSame ==
  ASSUME IInv, OauthKept, UNCHANGED <<oauth, oauthRows, minted, now>>,
         Pending("oauth") = {}, Pending("oauth")' = {},
         \A t \in oauth : t.id \in KnownRevoked' <=> t.id \in KnownRevoked,
         \A t \in oauth : t.family_id \notin KnownEnded',
         \A t \in oauthRows : t.id \notin told'.revoked /\ t.family_id \notin told'.ended
  PROVE  OauthKept'
<1>1. Coming("oauth") = {} /\ \A t : ~Doomed("oauth", t)
  BY DEF Coming, Doomed
<1>2. Coming("oauth")' = {} /\ \A t : ~Doomed("oauth", t)'
  BY DEF Coming, Doomed
<1>3. {t \in oauthRows' : ~Doomed("oauth", t)'} \cup Coming("oauth")'
        = {t \in oauth' : t.id \notin KnownRevoked'}
  BY <1>1, <1>2 DEF OauthKept
<1> QED BY <1>3 DEF OauthKept

\* A family or a client loses its bearers: memory at once, the rows are queued.
LEMMA OauthDropped ==
  ASSUME IInv, Kept, writes = <<>>, NEW G, oauth' = oauth \ G, told' = told,
         UNCHANGED <<oauthRows, minted, now>>, KnownRevoked' = KnownRevoked,
         \A t \in oauth' : t.family_id \notin KnownEnded',
         \A i \in Pending("oauth")' : writes'[i].rows = {},
         \A t \in oauth : Doomed("oauth", t)' <=> t \in G
  PROVE  OauthKept'
<1>1. oauthRows = {t \in oauth : t.id \notin KnownRevoked}
  BY InStepNow
<1>2. Coming("oauth")' = {}
  BY DEF Coming
<1>3. {t \in oauthRows' : ~Doomed("oauth", t)'} \cup Coming("oauth")'
        = {t \in oauth' : t.id \notin KnownRevoked'}
  BY <1>1, <1>2
<1> QED BY <1>3 DEF Kept, OauthKept, SameId

\* validate_oauth finds a bearer expired.
LEMMA OauthExpired ==
  ASSUME IInv, Kept, NEW t \in oauth, validate_oauth(t)
  PROVE  OauthKept'
<1>1. /\ oauth' = oauth \ {t} /\ oauthRows' = {x \in oauthRows : x.id # t.id}
      /\ writes = <<>> /\ UNCHANGED <<now, writes, promise, minted, told>>
  BY DEF validate_oauth, Idle, WithoutIds
<1>2. KnownRevoked' = KnownRevoked /\ KnownEnded' = KnownEnded
  BY <1>1 DEF KnownRevoked, KnownEnded
<1>3. oauthRows = {x \in oauth : x.id \notin KnownRevoked}
  BY <1>1, InStepNow
<1>4. oauthRows' = {x \in oauth' : x.id \notin KnownRevoked'}
  BY <1>1, <1>2, <1>3 DEF Kept, OauthKept, SameId
<1>5. Pending("oauth")' = {} /\ Coming("oauth")' = {} /\ \A x : ~Doomed("oauth", x)'
  BY <1>1 DEF Pending, Coming, Doomed
<1> QED BY <1>1, <1>2, <1>4, <1>5 DEF Kept, OauthKept, SameId

\* revoke of an OAuth bearer: its deadline, and its row is queued.
LEMMA OauthRevoked ==
  ASSUME IInv, Kept, NEW t \in oauth, revoke_oauth(t)
  PROVE  OauthKept'
<1>1. /\ oauth' = (oauth \ {t}) \cup {Deadline(t)} /\ promise = Nothing
      /\ writes = <<>> /\ UNCHANGED <<now, minted, told, oauthRows>>
  BY DEF revoke_oauth, Idle, disk
<1>2. /\ KnownRevoked' = KnownRevoked \cup {t.id} /\ told'.revoked = told.revoked
      /\ KnownEnded' = KnownEnded /\ told'.ended = told.ended
  BY <1>1 DEF revoke_oauth, KnownRevoked, KnownEnded, Tell, Nothing
<1>3. PICK d : d = Deadline(t)
  OBVIOUS
<1>4. d.id = t.id /\ d.family_id = t.family_id /\ d.expires_at <= now + REVOKE_GRACE_SECONDS
  <2>1. t \in OauthToken /\ t.expires_at \in Nat /\ now \in Nat
    BY TypesOf DEF OauthToken, Time
  <2> QED BY <1>3, <2>1, TimeAssumption DEF Deadline, MinOf, OauthToken
<1>5. oauthRows = {x \in oauth : x.id \notin KnownRevoked}
  BY <1>1, InStepNow
<1>6. PICK u : u = DeleteOauth(t.id)
  OBVIOUS
<1>7. u.table = "oauth" /\ u.rows = {} /\ u.ids = {t.id} /\ u.families = {} /\ u.clients = {}
  BY <1>6 DEF DeleteOauth, Delete
<1>8. Pending("oauth")' = {1} /\ writes'[1] = u
  <2>1. CASE t.family_id = NoFamily
    <3>1. writes' = <<u>>
      BY <1>6, <2>1 DEF revoke_oauth
    <3> QED BY <1>7, <3>1 DEF Pending
  <2>2. CASE t.family_id # NoFamily
    <3>1. PICK v : v = DeleteFamily("refresh", t.family_id)
      OBVIOUS
    <3>2. writes' = <<u, v>> /\ v.table = "refresh"
      BY <1>6, <2>2, <3>1 DEF revoke_oauth, DeleteFamily, Delete
    <3> QED BY <1>7, <3>2 DEF Pending
  <2> QED BY <2>1, <2>2
<1>9. Coming("oauth")' = {} /\ \A x : Doomed("oauth", x)' <=> x.id = t.id
  BY <1>7, <1>8 DEF Coming, Doomed, Hits
<1>10. {x \in oauthRows' : ~Doomed("oauth", x)'} \cup Coming("oauth")'
        = {x \in oauth' : x.id \notin KnownRevoked'}
  BY <1>1, <1>2, <1>3, <1>4, <1>5, <1>9 DEF Kept, OauthKept, SameId
<1>11. SameId(oauth') /\ SameId(oauthRows')
  BY <1>1, <1>3, <1>4 DEF Kept, OauthKept, SameId
<1>12. /\ \A x \in oauth' \cup oauthRows' : x.id <= minted'
       /\ \A x \in oauth' : /\ x.id \in KnownRevoked' => x.expires_at <= now' + REVOKE_GRACE_SECONDS
                            /\ x.family_id \notin KnownEnded'
       /\ \A x \in oauthRows' : x.id \notin told'.revoked /\ x.family_id \notin told'.ended
  BY <1>1, <1>2, <1>3, <1>4 DEF Kept, OauthKept, SameId
<1> QED BY <1>8, <1>10, <1>11, <1>12 DEF OauthKept

-----------------------------------------------------------------------------
(* The refresh tokens.                                                     *)

\* _cleanup, after the tokens of Y were put in and queued: each replaces the
\* token with its id.
LEMMA RefreshMinted ==
  ASSUME IInv, Kept, writes = <<>>, NEW Y, NEW T, NEW O, NEW R, CleanedUp(T, O, R),
         R \subseteq RefreshToken, SameId(R), OneUnused(R), Y \subseteq Live(R),
         R \ Y \subseteq refresh, \A r \in refresh \ R : \E y \in Y : y.id = r.id,
         \A r \in R : /\ r.id <= minted' /\ r.family_id \notin KnownClosed'
                      /\ r.id \in KnownSpent' => r.used,
         minted' \in {minted, minted + 1}, UNCHANGED <<now, told>>,
         Coming("refresh")' = {Row(y) : y \in Y},
         \A t : Doomed("refresh", t)' <=> \E y \in Y : t.id = y.id,
         \A i, j \in Pending("refresh")' : i # j => \A t \in writes'[i].rows : ~Hits(writes'[j], t),
         \A i \in Pending("refresh")' :
           (\A t \in writes'[i].rows : t.used) \/ (\A j \in Pending("refresh")' : j <= i)
  PROVE  RefreshKept'
<1>1. refresh' = {ForgetReplay(r) : r \in Live(R)} /\ Live(R) \subseteq R
  BY DEF CleanedUp, Live
<1>2. \A r \in R : /\ ForgetReplay(r).id = r.id /\ ForgetReplay(r).family_id = r.family_id
                   /\ ForgetReplay(r).used = r.used /\ Row(ForgetReplay(r)) = Row(r)
  BY ForgetFields
<1>3. refreshRows = {Row(r) : r \in refresh}
  BY InStepNow
<1>4. refreshRows' = {t \in refreshRows : t.id \notin ExpiredIds(R)}
  BY DEF CleanedUp, WithoutIds
<1>5. SameId(refresh') /\ OneUnused(refresh')
  BY <1>1, <1>2 DEF SameId, OneUnused
<1>6. SameId(refreshRows') /\ OneUnused(refreshRows')
  BY <1>4 DEF Kept, RefreshKept, SameId, OneUnused
<1>7. \A t \in refresh' : /\ t.id <= minted' /\ t.family_id \notin KnownClosed'
                          /\ t.id \in KnownSpent' => t.used
  BY <1>1, <1>2
<1>8. \A t \in refreshRows' : /\ t.id <= minted' /\ Row(t) = t /\ t.family_id \notin told'.closed
                              /\ t.id \in told'.spent => t.used
  <2>1. \A t \in refreshRows' : t.id \in Int /\ t.id <= minted /\ minted \in Nat
    BY <1>4, TypesOf, BoundAssumption DEF Kept, RefreshKept, RefreshToken, Id
  <2> QED BY <1>4, <2>1 DEF Kept, RefreshKept
<1>9. \A r \in R : r.id \in ExpiredIds(R) <=> r \notin Live(R)
  BY ExpiredById
<1>10. {t \in refreshRows' : ~Doomed("refresh", t)'} \cup Coming("refresh")'
         = {Row(r) : r \in refresh'}
  <2>1. {Row(r) : r \in refresh'} = {Row(r) : r \in Live(R)}
    BY <1>1, <1>2
  <2>2. ASSUME NEW r \in refresh, Row(r).id \notin ExpiredIds(R), ~\E y \in Y : Row(r).id = y.id
        PROVE  r \in Live(R)
    BY <1>9, <2>2, RowFields
  <2>3. ASSUME NEW r \in Live(R)
        PROVE  \/ Row(r) \in {Row(y) : y \in Y}
               \/ /\ r \in refresh /\ Row(r).id \notin ExpiredIds(R)
                  /\ ~\E y \in Y : Row(r).id = y.id
    BY <1>1, <1>9, <2>3, RowFields DEF SameId
  <2>4. ASSUME NEW x \in refreshRows', ~Doomed("refresh", x)' PROVE \E r \in Live(R) : x = Row(r)
    <3>1. PICK r \in refresh : x = Row(r)
      BY <1>3, <1>4, <2>4
    <3>2. x.id \notin ExpiredIds(R) /\ ~\E y \in Y : x.id = y.id
      BY <1>4, <2>4
    <3> QED BY <2>2, <3>1, <3>2
  <2>5. ASSUME NEW r \in Live(R), Row(r) \notin {Row(y) : y \in Y}
        PROVE  Row(r) \in refreshRows' /\ ~Doomed("refresh", Row(r))'
    BY <1>3, <1>4, <2>3, <2>5
  <2> QED BY <2>1, <2>4, <2>5
<1> QED BY <1>5, <1>6, <1>7, <1>8, <1>10 DEF RefreshKept

\* A method that leaves the refresh tokens alone.
LEMMA RefreshSame ==
  ASSUME IInv, RefreshKept, UNCHANGED <<refresh, refreshRows, minted>>,
         Pending("refresh") = {}, Pending("refresh")' = {},
         \A t \in refresh : t.family_id \notin KnownClosed' /\ (t.id \in KnownSpent' => t.used),
         \A t \in refreshRows : t.family_id \notin told'.closed /\ (t.id \in told'.spent => t.used)
  PROVE  RefreshKept'
<1>1. Coming("refresh") = {} /\ \A t : ~Doomed("refresh", t)
  BY DEF Coming, Doomed
<1>2. Coming("refresh")' = {} /\ \A t : ~Doomed("refresh", t)'
  BY DEF Coming, Doomed
<1>3. {t \in refreshRows' : ~Doomed("refresh", t)'} \cup Coming("refresh")'
        = {Row(rt) : rt \in refresh'}
  BY <1>1, <1>2 DEF RefreshKept
<1> QED BY <1>3 DEF RefreshKept

\* A family or a client loses its refresh tokens.
LEMMA RefreshDropped ==
  ASSUME IInv, Kept, writes = <<>>, NEW G, refresh' = refresh \ G, told' = told,
         UNCHANGED <<refreshRows, minted>>, KnownSpent' = KnownSpent,
         \A t \in refresh' : t.family_id \notin KnownClosed',
         \A i \in Pending("refresh")' : writes'[i].rows = {},
         \A t \in refresh : Doomed("refresh", Row(t))' <=> t \in G
  PROVE  RefreshKept'
<1>1. refreshRows = {Row(t) : t \in refresh}
  BY InStepNow
<1>2. Coming("refresh")' = {}
  BY DEF Coming
<1>3. {t \in refreshRows' : ~Doomed("refresh", t)'} \cup Coming("refresh")'
        = {Row(t) : t \in refresh'}
  <2>1. \A a, b \in refresh : Row(a) = Row(b) => a = b
    <3>1. \A a, b \in refresh : Row(a) = Row(b) => a.id = b.id
      BY RowFields
    <3> QED BY <3>1 DEF Kept, RefreshKept, SameId
  <2> QED BY <1>1, <1>2, <2>1
<1> QED BY <1>3 DEF Kept, RefreshKept, SameId, OneUnused

\* A token that idled takes itself out.
LEMMA RefreshIdled ==
  ASSUME IInv, Kept, NEW rt \in refresh, refresh_idled(rt)
  PROVE  RefreshKept'
<1>1. /\ refresh' = refresh \ {rt} /\ refreshRows' = {x \in refreshRows : x.id # rt.id}
      /\ writes = <<>> /\ UNCHANGED <<writes, promise, minted, told>>
  BY DEF refresh_idled, Idle, WithoutIds
<1>2. KnownClosed' = KnownClosed /\ KnownSpent' = KnownSpent
  BY <1>1 DEF KnownClosed, KnownSpent
<1>3. refreshRows = {Row(t) : t \in refresh}
  BY <1>1, InStepNow
<1>4. refreshRows' = {Row(t) : t \in refresh'}
  <2>1. \A t \in refresh : Row(t).id = rt.id <=> t = rt
    BY RowFields DEF Kept, RefreshKept, SameId
  <2> QED BY <1>1, <1>3, <2>1
<1>5. Pending("refresh")' = {} /\ Coming("refresh")' = {} /\ \A x : ~Doomed("refresh", x)'
  BY <1>1 DEF Pending, Coming, Doomed
<1> QED BY <1>1, <1>2, <1>4, <1>5 DEF Kept, RefreshKept, SameId, OneUnused

-----------------------------------------------------------------------------
(* What the tables share.                                                  *)

\* Tokens that carry a family and a client carry ones that were there before.
LEMMA SharedFamilies ==
  ASSUME SharedKept,
         \A a \in FamilyTokens' : \E b \in FamilyTokens :
           a.family_id = b.family_id /\ a.client_id = b.client_id
  PROVE  \A a, b \in FamilyTokens' :
           a.family_id = b.family_id /\ a.family_id # NoFamily => a.client_id = b.client_id
BY DEF SharedKept

\* So do their copies in a queue, a row and a token that forgets its replay.
LEMMA SharedSame ==
  ASSUME SharedKept, UNCHANGED <<told, promise>>, minted' = minted,
         \A a \in FamilyTokens' : \E b \in FamilyTokens :
           a.family_id = b.family_id /\ a.client_id = b.client_id,
         \A t \in tokens' \cup namedRows' : \E u \in tokens \cup namedRows : t.id = u.id,
         \A t \in oauth' \cup oauthRows' : \E u \in oauth \cup oauthRows : t.id = u.id
  PROVE  SharedKept'
BY SharedFamilies DEF SharedKept, TellGood

\* The fields of the statements that insert.
LEMMA InsertFields ==
  /\ \A t : /\ persist(t).table = "named" /\ persist(t).ids = {t.id} /\ persist(t).rows = {t}
            /\ persist(t).families = {} /\ persist(t).clients = {}
  /\ \A t : /\ persist_oauth(t).table = "oauth" /\ persist_oauth(t).ids = {t.id}
            /\ persist_oauth(t).rows = {t}
            /\ persist_oauth(t).families = {} /\ persist_oauth(t).clients = {}
  /\ \A t : /\ persist_refresh(t).table = "refresh" /\ persist_refresh(t).ids = {t.id}
            /\ persist_refresh(t).rows = {Row(t)}
            /\ persist_refresh(t).families = {} /\ persist_refresh(t).clients = {}
<1>1. \A t : Row(t).id = t.id
  BY RowFields
<1> QED BY <1>1 DEF persist, persist_oauth, persist_refresh, Insert

\* _cleanup alone keeps each table in step.
LEMMA NamedCleaned ==
  ASSUME IInv, Kept, writes = <<>>, NEW O, NEW R, CleanedUp(tokens, O, R),
         minted' \in {minted, minted + 1}, UNCHANGED <<now, told>>,
         KnownRevoked' = KnownRevoked, Pending("named")' = {}
  PROVE  NamedKept'
<1>1. Coming("named")' = {} /\ \A t : ~NamedDoomed(t)'
  BY DEF Coming, NamedDoomed
<1>2. PICK A : A = {}
  OBVIOUS
<1>3. tokens \cup A = tokens
  BY <1>2
<1> QED BY <1>1, <1>2, <1>3, NamedMinted

LEMMA OauthCleaned ==
  ASSUME IInv, Kept, writes = <<>>, NEW T, NEW R, CleanedUp(T, oauth, R),
         minted' \in {minted, minted + 1}, UNCHANGED <<now, told, promise>>, Pending("oauth")' = {}
  PROVE  OauthKept'
<1>1. Coming("oauth")' = {} /\ \A t : ~Doomed("oauth", t)'
  BY DEF Coming, Doomed
<1>2. PICK B : B = {}
  OBVIOUS
<1>3. oauth \cup B = oauth
  BY <1>2
<1>4. KnownRevoked' = KnownRevoked /\ KnownEnded' = KnownEnded
  BY DEF KnownRevoked, KnownEnded
<1> QED BY <1>1, <1>2, <1>3, <1>4, OauthMinted

LEMMA RefreshCleaned ==
  ASSUME IInv, Kept, writes = <<>>, NEW T, NEW O, CleanedUp(T, O, refresh),
         minted' \in {minted, minted + 1}, UNCHANGED <<now, told, promise>>, Pending("refresh")' = {}
  PROVE  RefreshKept'
<1>1. Coming("refresh")' = {} /\ \A t : ~Doomed("refresh", t)'
  BY DEF Coming, Doomed
<1>2. KnownClosed' = KnownClosed /\ KnownSpent' = KnownSpent
  BY DEF KnownClosed, KnownSpent
<1>3. \A r \in refresh : r.id <= minted'
  <2>1. \A r \in refresh : r.id \in Int /\ r.id <= minted /\ minted \in Nat
    BY TypesOf, BoundAssumption DEF Kept, RefreshKept, RefreshToken, Id
  <2> QED BY <2>1
<1>4. refresh \subseteq RefreshToken
  BY TypesOf
<1>5. PICK Y : Y = {}
  OBVIOUS
<1>6. Coming("refresh")' = {Row(y) : y \in Y} /\ \A t : Doomed("refresh", t)' <=> \E y \in Y : t.id = y.id
  BY <1>1, <1>5
<1> QED BY <1>2, <1>3, <1>4, <1>5, <1>6, RefreshMinted DEF Kept, RefreshKept

\* What _cleanup leaves of the tokens that were there before.
LEMMA CleanedFrom ==
  ASSUME IInv, NEW T, NEW O, NEW R, R \subseteq RefreshToken, CleanedUp(T, O, R)
  PROVE  /\ tokens' \subseteq T /\ oauth' \subseteq O
         /\ namedRows' \subseteq namedRows /\ oauthRows' \subseteq oauthRows
         /\ refreshRows' \subseteq refreshRows
         /\ \A x \in refresh' : \E r \in R :
              x.id = r.id /\ x.family_id = r.family_id /\ x.client_id = r.client_id
<1>1. refresh' = {ForgetReplay(r) : r \in Live(R)} /\ Live(R) \subseteq R
  BY DEF CleanedUp, Live
<1>2. \A r \in R : /\ ForgetReplay(r).id = r.id /\ ForgetReplay(r).family_id = r.family_id
                   /\ ForgetReplay(r).client_id = r.client_id
  BY ForgetFields
<1>3. \A x \in refresh' : \E r \in R :
              x.id = r.id /\ x.family_id = r.family_id /\ x.client_id = r.client_id
  BY <1>1, <1>2
<1> QED BY <1>3 DEF CleanedUp, Live, WithoutIds

-----------------------------------------------------------------------------
(* One lemma per method.                                                   *)

LEMMA IssueKept ==
  ASSUME IInv, Kept, NEW c \in Client, issue(c)
  PROVE  Kept'
<1> USE TimeAssumption, BoundAssumption
<1>1. PICK at : at = [id |-> minted + 1, client_id |-> c, expires_at |-> now + TOKEN_TTL, named |-> FALSE]
  OBVIOUS
<1>2. PICK A : A = {at}
  OBVIOUS
<1>3. /\ writes = <<>> /\ writes' = <<>> /\ minted' = minted + 1
      /\ CleanedUp(tokens \cup A, oauth, refresh) /\ UNCHANGED <<now, promise, told>>
  BY <1>1, <1>2 DEF issue, Idle
<1>4. now \in Nat /\ at.id = minted + 1 /\ now <= at.expires_at /\ ~at.named
  BY <1>1, TypesOf
<1>5. \A T : Pending(T)' = {} /\ Coming(T)' = {}
  BY <1>3 DEF Pending, Coming
<1>6. \A t : ~NamedDoomed(t)'
  BY <1>5 DEF NamedDoomed
<1>7. KnownRevoked' = KnownRevoked
  BY <1>3 DEF KnownRevoked
<1>8. NamedKept'
  <2>1. Coming("named")' = {a \in A : a.named}
    BY <1>2, <1>4, <1>5
  <2> QED BY <1>2, <1>3, <1>4, <1>5, <1>6, <1>7, <2>1, NamedMinted
<1>9. OauthKept' /\ RefreshKept'
  BY <1>3, <1>5, OauthCleaned, RefreshCleaned
<1>10. SharedKept'
  <2>1. /\ tokens' \subseteq tokens \cup {at} /\ oauth' \subseteq oauth
        /\ namedRows' \subseteq namedRows /\ oauthRows' \subseteq oauthRows
        /\ \A a \in FamilyTokens' : \E b \in FamilyTokens :
             a.family_id = b.family_id /\ a.client_id = b.client_id
    BY <1>2, <1>3, CleanedFrom, TypesOf DEF FamilyTokens
  <2>2. \A t \in oauth \cup oauthRows : t.id # at.id
    BY <1>4, TypesOf DEF Kept, OauthKept, OauthToken, Id
  <2>3. TellGood(told)' /\ TellGood(promise)'
    BY <1>3, TypesOf DEF Kept, SharedKept, TellGood
  <2> QED BY <2>1, <2>2, <2>3, SharedFamilies DEF Kept, SharedKept
<1> QED BY <1>8, <1>9, <1>10 DEF Kept

LEMMA IssueNamedKept ==
  ASSUME IInv, Kept, NEW c \in Client, issue_named(c)
  PROVE  Kept'
<1> USE TimeAssumption, BoundAssumption
<1>1. PICK at : at = [id |-> minted + 1, client_id |-> c, expires_at |-> NamedExpiry, named |-> TRUE]
  OBVIOUS
<1>2. PICK A : A = {at}
  OBVIOUS
<1>3. PICK w : w = persist(at)
  OBVIOUS
<1>4. /\ writes = <<>> /\ writes' = <<w>> /\ minted' = minted + 1
      /\ CleanedUp(tokens \cup A, oauth, refresh) /\ UNCHANGED <<now, promise, told>>
  BY <1>1, <1>2, <1>3 DEF issue_named, Idle
<1>5. now \in 0..MaxTime /\ at.id = minted + 1 /\ now <= at.expires_at /\ at.named
  BY <1>1 DEF IInv, ScalarsGood, NamedExpiry, Forever
<1>6. w.table = "named" /\ w.ids = {at.id} /\ w.rows = {at}
  BY <1>3, InsertFields
<1>7. Pending("named")' = {1} /\ writes'[1] = w /\ Pending("oauth")' = {} /\ Pending("refresh")' = {}
  BY <1>4, <1>6 DEF Pending
<1>8. Coming("named")' = A /\ \A t : NamedDoomed(t)' <=> t.id = at.id
  BY <1>2, <1>6, <1>7 DEF Coming, NamedDoomed
<1>9. KnownRevoked' = KnownRevoked
  BY <1>4 DEF KnownRevoked
<1>10. NamedKept'
  <2>1. Coming("named")' = {a \in A : a.named}
    BY <1>2, <1>5, <1>8
  <2>2. \A t \in namedRows : ~NamedDoomed(t)'
    BY <1>5, <1>8, TypesOf DEF Kept, NamedKept, AccessToken, Id
  <2> QED BY <1>2, <1>4, <1>5, <1>7, <1>9, <2>1, <2>2, NamedMinted
<1>11. OauthKept' /\ RefreshKept'
  BY <1>4, <1>7, OauthCleaned, RefreshCleaned
<1>12. SharedKept'
  <2>1. /\ tokens' \subseteq tokens \cup {at} /\ oauth' \subseteq oauth
        /\ namedRows' \subseteq namedRows /\ oauthRows' \subseteq oauthRows
        /\ \A a \in FamilyTokens' : \E b \in FamilyTokens :
             a.family_id = b.family_id /\ a.client_id = b.client_id
    BY <1>2, <1>4, CleanedFrom, TypesOf DEF FamilyTokens
  <2>2. \A t \in oauth \cup oauthRows : t.id # at.id
    BY <1>5, TypesOf DEF Kept, OauthKept, OauthToken, Id
  <2>3. TellGood(told)' /\ TellGood(promise)'
    BY <1>4, TypesOf DEF Kept, SharedKept, TellGood
  <2> QED BY <2>1, <2>2, <2>3, SharedFamilies DEF Kept, SharedKept
<1> QED BY <1>10, <1>11, <1>12 DEF Kept

LEMMA ListKept ==
  ASSUME IInv, Kept, list_named
  PROVE  Kept'
<1>1. /\ writes = <<>> /\ writes' = <<>> /\ minted' = minted
      /\ CleanedUp(tokens, oauth, refresh) /\ UNCHANGED <<now, promise, told>>
  BY DEF list_named, Idle
<1>2. \A T : Pending(T)' = {}
  BY <1>1 DEF Pending
<1>3. KnownRevoked' = KnownRevoked
  BY <1>1 DEF KnownRevoked
<1>4. NamedKept' /\ OauthKept' /\ RefreshKept'
  BY <1>1, <1>2, <1>3, NamedCleaned, OauthCleaned, RefreshCleaned
<1>5. SharedKept'
  BY <1>1, CleanedFrom, TypesOf, SharedSame DEF FamilyTokens, Kept
<1> QED BY <1>4, <1>5 DEF Kept

\* A bearer is live when it is minted.
LEMMA BearerFields ==
  ASSUME IInv, NEW c, NEW f, NEW end \in Nat, now < end
  PROVE  /\ Bearer(c, f, end).id = minted + 1 /\ Bearer(c, f, end).family_id = f
         /\ Bearer(c, f, end).client_id = c /\ now <= Bearer(c, f, end).expires_at
<1>1. now \in Nat
  BY TypesOf
<1> QED BY <1>1, TimeAssumption DEF Bearer, MinOf

LEMMA IssueOauthKept ==
  ASSUME IInv, Kept, NEW c \in Client, issue_oauth(c)
  PROVE  Kept'
<1> USE TimeAssumption, BoundAssumption
<1>1. PICK at : at = Bearer(c, NoFamily, now + SESSION_LIFETIME)
  OBVIOUS
<1>2. PICK B : B = {at}
  OBVIOUS
<1>3. PICK w : w = persist_oauth(at)
  OBVIOUS
<1>4. /\ writes = <<>> /\ writes' = <<w>> /\ minted' = minted + 1
      /\ CleanedUp(tokens, oauth \cup B, refresh) /\ UNCHANGED <<now, promise, told>>
  BY <1>1, <1>2, <1>3 DEF issue_oauth, Idle
<1>5. at.id = minted + 1 /\ at.family_id = NoFamily /\ now <= at.expires_at
  BY <1>1, TypesOf, BearerFields
<1>6. /\ w.table = "oauth" /\ w.ids = {at.id} /\ w.rows = {at}
      /\ w.families = {} /\ w.clients = {}
  BY <1>3, InsertFields
<1>7. Pending("oauth")' = {1} /\ writes'[1] = w /\ Pending("named")' = {} /\ Pending("refresh")' = {}
  BY <1>4, <1>6 DEF Pending
<1>8. Coming("oauth")' = B /\ \A t : Doomed("oauth", t)' <=> t.id = at.id
  BY <1>2, <1>6, <1>7 DEF Coming, Doomed, Hits
<1>9. KnownRevoked' = KnownRevoked /\ KnownEnded' = KnownEnded
  BY <1>4 DEF KnownRevoked, KnownEnded
<1>10. OauthKept'
  <2>1. \A t \in oauthRows : ~Doomed("oauth", t)'
    BY <1>5, <1>8, TypesOf DEF Kept, OauthKept, OauthToken, Id
  <2>2. NoFamily \notin KnownEnded
    BY TypesOf DEF Told, KnownEnded, Id, NoFamily
  <2> QED BY <1>2, <1>4, <1>5, <1>7, <1>8, <1>9, <2>1, <2>2, OauthMinted
<1>11. NamedKept' /\ RefreshKept'
  BY <1>4, <1>7, <1>9, NamedCleaned, RefreshCleaned
<1>12. SharedKept'
  <2>1. /\ tokens' \subseteq tokens /\ oauth' \subseteq oauth \cup {at}
        /\ namedRows' \subseteq namedRows /\ oauthRows' \subseteq oauthRows
        /\ \A a \in FamilyTokens' : a = at \/ \E b \in FamilyTokens :
             a.family_id = b.family_id /\ a.client_id = b.client_id
    BY <1>2, <1>4, CleanedFrom, TypesOf DEF FamilyTokens
  <2>2. \A t \in tokens \cup namedRows : t.id # at.id
    BY <1>5, TypesOf DEF Kept, NamedKept, AccessToken, Id
  <2>3. TellGood(told)' /\ TellGood(promise)'
    BY <1>4, TypesOf DEF Kept, SharedKept, TellGood
  <2>4. \A a, b \in FamilyTokens' :
          a.family_id = b.family_id /\ a.family_id # NoFamily => a.client_id = b.client_id
    BY <1>5, <2>1 DEF Kept, SharedKept
  <2> QED BY <2>1, <2>2, <2>3, <2>4 DEF Kept, SharedKept
<1> QED BY <1>10, <1>11, <1>12 DEF Kept

\* A refresh token is live and exchangeable when it is minted.
LEMMA RenewalFields ==
  ASSUME IInv, NEW c, NEW f, NEW end \in Nat, now < end
  PROVE  /\ Renewal(c, f, end).id = minted + 1 /\ Renewal(c, f, end).family_id = f
         /\ Renewal(c, f, end).client_id = c /\ now <= Renewal(c, f, end).expires_at
<1>1. now \in Nat
  BY TypesOf
<1> QED BY <1>1, TimeAssumption DEF Renewal, MinOf

\* No token carries the family that is being opened, and no answer told of it.
LEMMA FreshFamily ==
  ASSUME IInv, Kept
  PROVE  /\ \A t \in FamilyTokens : t.family_id # minted + 1
         /\ minted + 1 \notin KnownClosed /\ minted + 1 \notin KnownEnded
         /\ minted + 1 \notin KnownSpent /\ minted + 1 \notin KnownRevoked
<1>1. minted \in Nat
  BY TypesOf, BoundAssumption
<1>2. \A t \in oauth \cup oauthRows : t.family_id \in Nat /\ t.family_id <= minted
  BY TypesOf DEF OauthToken, GoodBearer, Id, NoFamily
<1>3. \A t \in refresh \cup refreshRows : t.family_id \in Nat /\ t.family_id <= minted
  BY TypesOf DEF RefreshToken, GoodRenewal, Id
<1> QED BY <1>1, <1>2, <1>3 DEF FamilyTokens, Kept, SharedKept, TellGood, KnownClosed, KnownEnded,
                                KnownSpent, KnownRevoked

LEMMA SignInKept ==
  ASSUME IInv, IInv', Kept, NEW c \in Client, issue_oauth_refresh(c)
  PROVE  Kept'
<1> USE TimeAssumption, BoundAssumption
<1>1. PICK f : f = minted + 1
  OBVIOUS
<1>2. PICK at, rt : /\ at = Bearer(c, f, now + SESSION_LIFETIME)
                    /\ rt = Renewal(c, f, now + SESSION_LIFETIME)
  OBVIOUS
<1>3. PICK B, Y, R : B = {at} /\ Y = {rt} /\ R = refresh \cup {rt}
  OBVIOUS
<1>4. PICK w, v : w = persist_oauth(at) /\ v = persist_refresh(rt)
  OBVIOUS
<1>5. /\ writes = <<>> /\ writes' = <<w, v>> /\ minted' = minted + 1
      /\ CleanedUp(tokens, oauth \cup B, R) /\ UNCHANGED <<now, promise, told>>
  BY <1>1, <1>2, <1>3, <1>4 DEF issue_oauth_refresh, Idle
<1>6. minted \in Nat /\ now \in Nat
  BY TypesOf
<1>7. at.id = f /\ at.family_id = f /\ at.client_id = c /\ now <= at.expires_at
  BY <1>1, <1>2, <1>6, BearerFields
<1>8. rt.id = f /\ rt.family_id = f /\ rt.client_id = c /\ now <= rt.expires_at
  BY <1>1, <1>2, <1>6, RenewalFields
<1>9. rt \in RefreshToken
  <2>1. /\ f \in Id /\ now \in Nat /\ SESSION_LIFETIME \in Nat
    BY <1>1, <1>5, <1>6, TypesOf DEF IInv, ScalarsGood, Id
  <2> QED BY <1>1, <1>2, <2>1 DEF Renewal, RefreshToken, Time, MinOf, NoGrant
<1>10. /\ w.table = "oauth" /\ w.ids = {f} /\ w.rows = {at} /\ w.families = {} /\ w.clients = {}
       /\ v.table = "refresh" /\ v.ids = {f} /\ v.rows = {Row(rt)} /\ v.families = {} /\ v.clients = {}
  BY <1>4, <1>7, <1>8, InsertFields
<1>11. /\ Pending("oauth")' = {1} /\ Pending("refresh")' = {2} /\ Pending("named")' = {}
       /\ writes'[1] = w /\ writes'[2] = v
  BY <1>5, <1>10 DEF Pending
<1>12. /\ Coming("oauth")' = B /\ Coming("refresh")' = {Row(rt)}
       /\ \A t : (Doomed("oauth", t)' <=> t.id = f) /\ (Doomed("refresh", t)' <=> t.id = f)
  BY <1>3, <1>10, <1>11 DEF Coming, Doomed, Hits
<1>13. /\ KnownRevoked' = KnownRevoked /\ KnownEnded' = KnownEnded
       /\ KnownClosed' = KnownClosed /\ KnownSpent' = KnownSpent
  BY <1>5 DEF KnownRevoked, KnownEnded, KnownClosed, KnownSpent
<1>14. OauthKept'
  <2>1. \A t \in oauthRows : ~Doomed("oauth", t)'
    BY <1>1, <1>6, <1>12, TypesOf DEF Kept, OauthKept, OauthToken, Id
  <2>2. at.family_id \notin KnownEnded
    BY <1>1, <1>7, FreshFamily
  <2> QED BY <1>1, <1>3, <1>5, <1>7, <1>11, <1>12, <1>13, <2>1, <2>2, OauthMinted
<1>15. RefreshKept'
  <2>1. \A r \in refresh : /\ r \in RefreshToken /\ r.id <= minted /\ r.id \in Nat /\ r.id # f
                           /\ r.family_id # f
    BY <1>1, <1>6, TypesOf, FreshFamily DEF Kept, RefreshKept, RefreshToken, Id, FamilyTokens
  <2>2. SameId(R) /\ OneUnused(R)
    BY <1>3, <1>8, <2>1 DEF Kept, RefreshKept, SameId, OneUnused
  <2>3. R \subseteq RefreshToken /\ Y \subseteq Live(R) /\ R \ Y \subseteq refresh /\ refresh \subseteq R
    BY <1>3, <1>8, <1>9, <2>1 DEF Live
  <2>4. \A r \in R : /\ r.id <= minted' /\ r.family_id \notin KnownClosed'
                     /\ r.id \in KnownSpent' => r.used
    BY <1>1, <1>3, <1>5, <1>6, <1>8, <1>13, <2>1, FreshFamily DEF Kept, RefreshKept
  <2>5. Coming("refresh")' = {Row(y) : y \in Y} /\ \A t : Doomed("refresh", t)' <=> \E y \in Y : t.id = y.id
    BY <1>3, <1>8, <1>12
  <2> QED BY <1>5, <1>11, <2>2, <2>3, <2>4, <2>5, RefreshMinted
<1>16. NamedKept'
  BY <1>5, <1>11, <1>13, NamedCleaned
<1>17. SharedKept'
  <2>1. R \subseteq RefreshToken
    BY <1>3, <1>9, TypesOf
  <2>2. /\ tokens' \subseteq tokens /\ oauth' \subseteq oauth \cup {at}
        /\ namedRows' \subseteq namedRows /\ oauthRows' \subseteq oauthRows
        /\ \A a \in FamilyTokens' :
             \/ a.family_id = f /\ a.client_id = c
             \/ \E b \in FamilyTokens : a.family_id = b.family_id /\ a.client_id = b.client_id
    BY <1>3, <1>5, <1>7, <1>8, <2>1, CleanedFrom DEF FamilyTokens
  <2>3. \A t \in tokens \cup namedRows : t.id # at.id
    BY <1>1, <1>6, <1>7, TypesOf DEF Kept, NamedKept, AccessToken, Id
  <2>4. TellGood(told)' /\ TellGood(promise)'
    BY <1>5, <1>6 DEF Kept, SharedKept, TellGood
  <2>5. \A a, b \in FamilyTokens' :
          a.family_id = b.family_id /\ a.family_id # NoFamily => a.client_id = b.client_id
    BY <1>1, <2>2, FreshFamily DEF Kept, SharedKept
  <2> QED BY <2>2, <2>3, <2>4, <2>5 DEF Kept, SharedKept
<1> QED BY <1>14, <1>15, <1>16, <1>17 DEF Kept

\* A rotation: the token that is exchanged is the family's only exchangeable
\* one; the queue marks it used before it adds the next.
LEMMA RotateKept ==
  ASSUME IInv, IInv', Kept, NEW rt \in refresh, refresh_rotated(rt)
  PROVE  Kept'
<1> USE TimeAssumption, BoundAssumption
<1>1. PICK f, c, end : f = rt.family_id /\ c = rt.client_id /\ end = rt.family_expires_at
  OBVIOUS
<1>2. PICK at, new : at = Bearer(c, f, end) /\ new = Renewal(c, f, end)
  OBVIOUS
<1>3. PICK used : used = Rotated(rt, TRUE, now, new.id, end)
  OBVIOUS
<1>4. PICK B, Y, R : B = {at} /\ Y = {used, new} /\ R = (refresh \ {rt}) \cup {used, new}
  OBVIOUS
<1>5. PICK w1, w2, w3 : w1 = persist_refresh(used) /\ w2 = persist_oauth(at) /\ w3 = persist_refresh(new)
  OBVIOUS
<1>6. /\ writes = <<>> /\ writes' = <<w1, w2, w3>> /\ minted' = minted + 1
      /\ CleanedUp(tokens, oauth \cup B, R) /\ UNCHANGED <<now, told>>
      /\ promise = Nothing /\ promise' = Tell({rt.id}, {}, {}, {})
      /\ ~IsReuse(rt) /\ ~IsExpired(rt)
  BY <1>1, <1>2, <1>3, <1>4, <1>5 DEF refresh_rotated, Idle, RotationWrites
<1>7. /\ minted \in Nat /\ now \in Nat /\ end \in Nat /\ rt \in RefreshToken /\ f \in Id
      /\ rt.id \in Nat /\ rt.id <= minted /\ minted + 1 \in Id /\ rt.id \in Id /\ c \in Client
  <2>1. rt \in RefreshToken /\ rt.id <= minted
    BY TypesOf DEF Kept, RefreshKept
  <2>2. minted \in Nat /\ now \in Nat /\ minted' \in 0..MaxMint
    BY TypesOf DEF IInv, ScalarsGood
  <2> QED BY <1>1, <1>6, <2>1, <2>2 DEF RefreshToken, Time, Id
<1>8. now < end /\ ~rt.used
  <2>1. now < end
    BY <1>1, <1>6, <1>7 DEF IsExpired
  <2> QED BY <1>1, <1>6, <2>1, Zenon DEF IsReuse
<1>9. at.id = minted + 1 /\ at.family_id = f /\ at.client_id = c /\ now <= at.expires_at
  BY <1>2, <1>7, <1>8, BearerFields
<1>10. new.id = minted + 1 /\ new.family_id = f /\ new.client_id = c /\ now <= new.expires_at
  BY <1>2, <1>7, <1>8, RenewalFields
<1>11. /\ used.id = rt.id /\ used.family_id = f /\ used.client_id = c /\ used.used
       /\ now <= used.expires_at
  BY <1>1, <1>3, <1>7, <1>8 DEF Rotated
<1>12. new \in RefreshToken /\ used \in RefreshToken
  <2>1. new \in RefreshToken
    BY <1>2, <1>7 DEF Renewal, RefreshToken, Time, MinOf, NoGrant
  <2>2. rt.created_at \in Nat
    BY <1>7 DEF RefreshToken, Time
  <2>3. used \in RefreshToken
    BY <1>1, <1>3, <1>7, <1>10, <2>2 DEF Rotated, RefreshToken, Time
  <2> QED BY <2>1, <2>3
<1>13. /\ w1.table = "refresh" /\ w1.ids = {rt.id} /\ w1.rows = {Row(used)}
       /\ w1.families = {} /\ w1.clients = {}
       /\ w2.table = "oauth" /\ w2.ids = {minted + 1} /\ w2.rows = {at}
       /\ w2.families = {} /\ w2.clients = {}
       /\ w3.table = "refresh" /\ w3.ids = {minted + 1} /\ w3.rows = {Row(new)}
       /\ w3.families = {} /\ w3.clients = {}
  BY <1>5, <1>9, <1>10, <1>11, InsertFields
<1>14. /\ Pending("oauth")' = {2} /\ Pending("refresh")' = {1, 3} /\ Pending("named")' = {}
       /\ writes'[1] = w1 /\ writes'[2] = w2 /\ writes'[3] = w3
  BY <1>6, <1>13 DEF Pending
<1>15. /\ Coming("oauth")' = B /\ Coming("refresh")' = {Row(used), Row(new)}
       /\ \A t : Doomed("oauth", t)' <=> t.id = minted + 1
       /\ \A t : Doomed("refresh", t)' <=> t.id \in {rt.id, minted + 1}
  BY <1>4, <1>13, <1>14 DEF Coming, Doomed, Hits
<1>16. /\ KnownRevoked' = KnownRevoked /\ KnownEnded' = KnownEnded
       /\ KnownClosed' = KnownClosed /\ KnownSpent' = KnownSpent \cup {rt.id}
  BY <1>6 DEF KnownRevoked, KnownEnded, KnownClosed, KnownSpent, Tell, Nothing
<1>17. f \notin KnownClosed /\ f \notin KnownEnded
  BY <1>1 DEF Kept, RefreshKept, SharedKept, TellGood, KnownClosed, KnownEnded
<1>18. OauthKept'
  <2>1. \A t \in oauthRows : ~Doomed("oauth", t)'
    BY <1>7, <1>15, TypesOf DEF Kept, OauthKept, OauthToken, Id
  <2> QED BY <1>4, <1>6, <1>9, <1>14, <1>15, <1>16, <1>17, <2>1, OauthMinted
<1>19. RefreshKept'
  <2>1. \A r \in refresh \ {rt} : r \in RefreshToken /\ r.id <= minted /\ r.id \in Nat /\ r.id # rt.id
    BY TypesOf DEF Kept, RefreshKept, RefreshToken, Id, SameId
  <2>2. SameId(R)
    BY <1>4, <1>7, <1>10, <1>11, <2>1 DEF Kept, RefreshKept, SameId
  <2>3. OneUnused(R)
    <3>1. \A r \in refresh \ {rt} : r.family_id = f => r.used
      BY <1>1, <1>8, <2>1 DEF Kept, RefreshKept, OneUnused
    <3> QED BY <1>4, <1>10, <1>11, <3>1 DEF Kept, RefreshKept, OneUnused
  <2>4. R \subseteq RefreshToken /\ Y \subseteq Live(R) /\ R \ Y \subseteq refresh
    BY <1>4, <1>10, <1>11, <1>12, <2>1 DEF Live
  <2>5. \A r \in refresh \ R : \E y \in Y : y.id = r.id
    BY <1>4, <1>11
  <2>6. \A r \in R : /\ r.id <= minted' /\ r.family_id \notin KnownClosed'
                     /\ r.id \in KnownSpent' => r.used
    <3>1. minted + 1 \notin KnownSpent
      BY FreshFamily
    <3> QED BY <1>4, <1>6, <1>7, <1>10, <1>11, <1>16, <1>17, <2>1, <3>1 DEF Kept, RefreshKept
  <2>7. /\ Coming("refresh")' = {Row(y) : y \in Y}
        /\ \A t : Doomed("refresh", t)' <=> \E y \in Y : t.id = y.id
    BY <1>4, <1>10, <1>11, <1>15
  <2>8. /\ \A i, j \in Pending("refresh")' : i # j => \A t \in writes'[i].rows : ~Hits(writes'[j], t)
        /\ \A i \in Pending("refresh")' :
             (\A t \in writes'[i].rows : t.used) \/ (\A j \in Pending("refresh")' : j <= i)
    <3>1. Row(used).id = rt.id /\ Row(new).id = minted + 1 /\ Row(used).used
      BY <1>10, <1>11, RowFields
    <3> QED BY <1>7, <1>13, <1>14, <3>1 DEF Hits
  <2> QED BY <1>6, <2>2, <2>3, <2>4, <2>5, <2>6, <2>7, <2>8, RefreshMinted
<1>20. NamedKept'
  BY <1>6, <1>14, <1>16, NamedCleaned
<1>21. SharedKept'
  <2>1. R \subseteq RefreshToken
    BY <1>4, <1>12, TypesOf
  <2>2. /\ tokens' \subseteq tokens /\ oauth' \subseteq oauth \cup {at}
        /\ namedRows' \subseteq namedRows /\ oauthRows' \subseteq oauthRows
        /\ \A a \in FamilyTokens' : \E b \in FamilyTokens :
             a.family_id = b.family_id /\ a.client_id = b.client_id
    <3>1. rt \in FamilyTokens /\ rt.family_id = f /\ rt.client_id = c
      BY <1>1 DEF FamilyTokens
    <3> QED BY <1>4, <1>6, <1>9, <1>10, <1>11, <2>1, <3>1, CleanedFrom DEF FamilyTokens
  <2>3. \A t \in tokens \cup namedRows : t.id # at.id
    BY <1>7, <1>9, TypesOf DEF Kept, NamedKept, AccessToken, Id
  <2>4. TellGood(told)' /\ TellGood(promise)'
    BY <1>6, <1>7 DEF Kept, SharedKept, TellGood, Tell, Id
  <2> QED BY <2>2, <2>3, <2>4, SharedFamilies DEF Kept, SharedKept
<1> QED BY <1>18, <1>19, <1>20, <1>21 DEF Kept

\* Reuse was detected, or the session ended: the whole family goes.
LEMMA RevokeFamilyKept ==
  ASSUME IInv, Kept, Idle, NEW f \in 1..minted, revoke_family(f), UNCHANGED <<now, minted, told>>
  PROVE  Kept'
<1>1. PICK w, v : w = DeleteFamily("refresh", f) /\ v = DeleteFamily("oauth", f)
  OBVIOUS
<1>2. /\ writes = <<>> /\ promise = Nothing /\ writes' = <<w, v>>
      /\ oauth' = oauth \ OfFamily(oauth, f) /\ refresh' = refresh \ OfFamily(refresh, f)
      /\ promise' = Tell({}, {f}, {f}, {}) /\ UNCHANGED <<tokens, namedRows, oauthRows, refreshRows>>
  BY <1>1 DEF Idle, revoke_family, FamilyDeletes, NotOfFamily, OfFamily, disk
<1>3. /\ w.table = "refresh" /\ w.rows = {} /\ w.ids = {} /\ w.families = {f} /\ w.clients = {}
      /\ v.table = "oauth" /\ v.rows = {} /\ v.ids = {} /\ v.families = {f} /\ v.clients = {}
  BY <1>1 DEF DeleteFamily, Delete
<1>4. /\ Pending("refresh")' = {1} /\ Pending("oauth")' = {2} /\ Pending("named")' = {}
      /\ writes'[1] = w /\ writes'[2] = v /\ Pending("named") = {}
  BY <1>2, <1>3 DEF Pending
<1>5. \A t : (Doomed("oauth", t)' <=> t.family_id = f) /\ (Doomed("refresh", t)' <=> t.family_id = f)
  BY <1>3, <1>4 DEF Doomed, Hits
<1>6. /\ KnownRevoked' = KnownRevoked /\ KnownEnded' = KnownEnded \cup {f}
      /\ KnownClosed' = KnownClosed \cup {f} /\ KnownSpent' = KnownSpent
  BY <1>2 DEF KnownRevoked, KnownEnded, KnownClosed, KnownSpent, Tell, Nothing
<1>7. OauthKept'
  <2>1. PICK G : G = OfFamily(oauth, f)
    OBVIOUS
  <2>2. oauth' = oauth \ G /\ \A t \in oauth : Doomed("oauth", t)' <=> t \in G
    BY <1>2, <1>5, <2>1 DEF OfFamily
  <2>3. \A t \in oauth' : t.family_id \notin KnownEnded'
    BY <1>2, <1>6 DEF OfFamily, Kept, OauthKept
  <2>4. \A i \in Pending("oauth")' : writes'[i].rows = {}
    BY <1>3, <1>4
  <2> QED BY <1>2, <1>6, <2>2, <2>3, <2>4, OauthDropped
<1>8. RefreshKept'
  <2>1. PICK G : G = OfFamily(refresh, f)
    OBVIOUS
  <2>2. refresh' = refresh \ G /\ \A t \in refresh : Doomed("refresh", Row(t))' <=> t \in G
    BY <1>2, <1>5, <2>1, RowFields DEF OfFamily
  <2>3. \A t \in refresh' : t.family_id \notin KnownClosed'
    BY <1>2, <1>6 DEF OfFamily, Kept, RefreshKept
  <2>4. \A i \in Pending("refresh")' : writes'[i].rows = {}
    BY <1>3, <1>4
  <2> QED BY <1>2, <1>6, <2>2, <2>3, <2>4, RefreshDropped
<1>9. NamedKept'
  BY <1>2, <1>4, <1>6, NamedSame DEF Kept, NamedKept
<1>10. SharedKept'
  <2>1. FamilyTokens' \subseteq FamilyTokens /\ oauth' \subseteq oauth
    BY <1>2 DEF FamilyTokens
  <2>2. TellGood(told)' /\ TellGood(promise)'
    BY <1>2 DEF Kept, SharedKept, TellGood, Tell
  <2> QED BY <1>2, <2>1, <2>2 DEF Kept, SharedKept
<1> QED BY <1>7, <1>8, <1>9, <1>10 DEF Kept

LEMMA RefreshMethodKept ==
  ASSUME IInv, IInv', Kept, Refresh
  PROVE  Kept'
<1>1. PICK rt \in refresh : \/ refresh_rotated(rt) \/ refresh_reused(rt)
                            \/ refresh_ended(rt) \/ refresh_idled(rt)
  BY DEF Refresh
<1>2. CASE refresh_rotated(rt)
  BY <1>2, RotateKept
<1>3. CASE refresh_reused(rt) \/ refresh_ended(rt)
  <2>1. PICK f : f = rt.family_id
    OBVIOUS
  <2>2. f \in 1..minted
    BY <2>1, TypesOf DEF RefreshToken, GoodRenewal, Id
  <2>3. Idle /\ revoke_family(f) /\ UNCHANGED <<now, minted, told>>
    BY <1>3, <2>1 DEF refresh_reused, refresh_ended
  <2> QED BY <2>2, <2>3, RevokeFamilyKept
<1>4. CASE refresh_idled(rt)
  <2>1. /\ writes = <<>> /\ UNCHANGED <<now, tokens, oauth, namedRows, oauthRows, writes, promise,
                                         minted, told>>
        /\ refresh' \subseteq refresh /\ refreshRows' \subseteq refreshRows
    BY <1>4 DEF refresh_idled, Idle, WithoutIds
  <2>2. /\ KnownRevoked' = KnownRevoked /\ KnownEnded' = KnownEnded
        /\ Pending("named") = {} /\ Pending("named")' = {}
        /\ Pending("oauth") = {} /\ Pending("oauth")' = {}
    BY <2>1 DEF KnownRevoked, KnownEnded, Pending
  <2>3. NamedKept'
    BY <2>1, <2>2, NamedSame DEF Kept, NamedKept
  <2>4. OauthKept'
    BY <2>1, <2>2, OauthSame DEF Kept, OauthKept
  <2>5. RefreshKept'
    BY <1>4, RefreshIdled
  <2>6. SharedKept'
    BY <2>1, SharedSame DEF Kept, FamilyTokens
  <2> QED BY <2>3, <2>4, <2>5, <2>6 DEF Kept
<1> QED BY <1>1, <1>2, <1>3, <1>4

\* A family has one client, so its tokens go together when a client goes.
LEMMA RevokeClientsKept ==
  ASSUME IInv, Kept, Idle, NEW cs \in Seq(Client), revoke_clients(cs), UNCHANGED <<now, minted, told>>
  PROVE  Kept'
<1>1. PICK C : C = {cs[i] : i \in DOMAIN cs}
  OBVIOUS
<1>2. PICK n \in Nat : n = Len(cs) /\ DOMAIN cs = 1..n
  OBVIOUS
<1>3. PICK F : F = FamiliesOf(C)
  OBVIOUS
<1>4. /\ writes = <<>> /\ promise = Nothing
      /\ writes' = [i \in 1..(2 * n) |->
                      DeleteClient(IF i % 2 = 1 THEN "oauth" ELSE "refresh", cs[(i + 1) \div 2])]
      /\ oauth' = oauth \ OfClients(oauth, C) /\ refresh' = refresh \ OfClients(refresh, C)
      /\ promise' = Tell({}, F, F, {}) /\ UNCHANGED <<tokens, namedRows, oauthRows, refreshRows>>
  BY <1>1, <1>2, <1>3 DEF Idle, revoke_clients, NotOfClients, OfClients, disk
<1>5. \A i \in 1..(2 * n) : /\ writes'[i].rows = {} /\ writes'[i].ids = {} /\ writes'[i].families = {}
                            /\ writes'[i].clients = {cs[(i + 1) \div 2]}
                            /\ writes'[i].table = IF i % 2 = 1 THEN "oauth" ELSE "refresh"
  BY <1>4 DEF DeleteClient, Delete
<1>6. DOMAIN writes' = 1..(2 * n)
  BY <1>4
<1>7. \A k \in 1..n : /\ 2 * k - 1 \in 1..(2 * n) /\ 2 * k \in 1..(2 * n)
                      /\ (2 * k - 1) % 2 = 1 /\ (2 * k) % 2 # 1
                      /\ (2 * k - 1 + 1) \div 2 = k /\ (2 * k + 1) \div 2 = k
  OBVIOUS
<1>8. \A i \in 1..(2 * n) : (i + 1) \div 2 \in 1..n
  OBVIOUS
<1>9. \A t : (Doomed("oauth", t)' <=> t.client_id \in C) /\ (Doomed("refresh", t)' <=> t.client_id \in C)
  <2>1. ASSUME NEW t, NEW T \in {"oauth", "refresh"}, Doomed(T, t)' PROVE t.client_id \in C
    <3>1. PICK i \in 1..(2 * n) : Hits(writes'[i], t)
      BY <1>6, <2>1 DEF Doomed, Pending, Hits
    <3>2. t.client_id = cs[(i + 1) \div 2]
      BY <1>5, <3>1 DEF Hits
    <3> QED BY <1>1, <1>2, <1>8, <3>2
  <2>2. ASSUME NEW t, t.client_id \in C PROVE Doomed("oauth", t)' /\ Doomed("refresh", t)'
    <3>1. PICK k \in 1..n : t.client_id = cs[k]
      BY <1>1, <1>2, <2>2
    <3>2. PICK i, j : i = 2 * k - 1 /\ j = 2 * k
      OBVIOUS
    <3>3. /\ i \in Pending("oauth")' /\ writes'[i].clients = {cs[k]}
          /\ j \in Pending("refresh")' /\ writes'[j].clients = {cs[k]}
      BY <1>5, <1>6, <1>7, <3>2 DEF Pending
    <3> QED BY <3>1, <3>3 DEF Doomed, Hits
  <2> QED BY <2>1, <2>2
<1>10. /\ KnownRevoked' = KnownRevoked /\ KnownEnded' = KnownEnded \cup F
       /\ KnownClosed' = KnownClosed \cup F /\ KnownSpent' = KnownSpent
  BY <1>4 DEF KnownRevoked, KnownEnded, KnownClosed, KnownSpent, Tell, Nothing
<1>11. \A x \in F : x \in 1..minted /\ \E u \in oauth \cup refresh : u.family_id = x /\ u.client_id \in C
  <2>1. \A t \in oauth : t.family_id # NoFamily => t.family_id \in 1..minted
    BY TypesOf DEF OauthToken, GoodBearer, Id
  <2>2. \A t \in refresh : t.family_id \in 1..minted
    BY TypesOf DEF RefreshToken, GoodRenewal, Id
  <2> QED BY <1>3, <2>1, <2>2 DEF FamiliesOf, OfClients
<1>12. \A t \in oauth' \cup refresh' : t.family_id \notin F
  <2> SUFFICES ASSUME NEW t \in oauth' \cup refresh', t.family_id \in F PROVE FALSE
    OBVIOUS
  <2>1. PICK u \in oauth \cup refresh : u.family_id = t.family_id /\ u.client_id \in C
    BY <1>11
  <2>2. t \in oauth \cup refresh /\ t.client_id \notin C /\ t.family_id # NoFamily
    BY <1>4, <1>11 DEF OfClients, NoFamily
  <2> QED BY <2>1, <2>2 DEF Kept, SharedKept, FamilyTokens
<1>13. OauthKept'
  <2>1. PICK G : G = OfClients(oauth, C)
    OBVIOUS
  <2>2. oauth' = oauth \ G /\ \A t \in oauth : Doomed("oauth", t)' <=> t \in G
    BY <1>4, <1>9, <2>1 DEF OfClients
  <2>3. \A t \in oauth' : t.family_id \notin KnownEnded'
    BY <1>4, <1>10, <1>12 DEF Kept, OauthKept
  <2>4. \A i \in Pending("oauth")' : writes'[i].rows = {}
    BY <1>5, <1>6 DEF Pending
  <2> QED BY <1>4, <1>10, <2>2, <2>3, <2>4, OauthDropped
<1>14. RefreshKept'
  <2>1. PICK G : G = OfClients(refresh, C)
    OBVIOUS
  <2>2. refresh' = refresh \ G /\ \A t \in refresh : Doomed("refresh", Row(t))' <=> t \in G
    BY <1>4, <1>9, <2>1, RowFields DEF OfClients
  <2>3. \A t \in refresh' : t.family_id \notin KnownClosed'
    BY <1>4, <1>10, <1>12 DEF Kept, RefreshKept
  <2>4. \A i \in Pending("refresh")' : writes'[i].rows = {}
    BY <1>5, <1>6 DEF Pending
  <2> QED BY <1>4, <1>10, <2>2, <2>3, <2>4, RefreshDropped
<1>15. NamedKept'
  <2>1. Pending("named")' = {}
    BY <1>5, <1>6 DEF Pending
  <2>2. Pending("named") = {}
    BY <1>4 DEF Pending
  <2> QED BY <1>4, <1>10, <2>1, <2>2, NamedSame DEF Kept, NamedKept
<1>16. SharedKept'
  <2>1. FamilyTokens' \subseteq FamilyTokens /\ oauth' \subseteq oauth
    BY <1>4 DEF FamilyTokens
  <2>2. TellGood(told)' /\ TellGood(promise)'
    BY <1>4, <1>11 DEF Kept, SharedKept, TellGood, Tell
  <2> QED BY <1>4, <2>1, <2>2 DEF Kept, SharedKept
<1> QED BY <1>13, <1>14, <1>15, <1>16 DEF Kept

LEMMA PruneKept ==
  ASSUME IInv, Kept,
         \/ \E c \in Client : revoke_client(c)
         \/ \E known \in SUBSET Client : prune_unknown_clients(known)
  PROVE  Kept'
<1>1. ASSUME NEW c \in Client, revoke_client(c) PROVE Kept'
  <2>1. PICK cs : cs = <<c>>
    OBVIOUS
  <2>2. cs \in Seq(Client)
    BY <2>1
  <2>3. Idle /\ revoke_clients(cs) /\ UNCHANGED <<now, minted, told>>
    BY <1>1, <2>1 DEF revoke_client
  <2> QED BY <2>2, <2>3, RevokeClientsKept
<1>2. ASSUME NEW known \in SUBSET Client, prune_unknown_clients(known) PROVE Kept'
  <2> DEFINE owners == {t.client_id : t \in oauth} \cup {t.client_id : t \in refresh}
             stale  == owners \ known
  <2>1. owners \subseteq Client
    BY DEF IInv, MemoryGood, GoodBearer, GoodRenewal, OauthToken, RefreshToken
  <2>2. IsFiniteSet(stale)
    BY <2>1, ClientAssumption, FS_Subset
  <2>3. Cardinality(stale) \in Nat
    BY <2>2, FS_CardinalityType
  <2>4. PICK cs \in [1..Cardinality(stale) -> stale] : revoke_clients(cs)
    BY <1>2 DEF prune_unknown_clients
  <2>5. cs \in Seq(Client)
    <3>1. PICK n \in Nat : n = Cardinality(stale)
      BY <2>3
    <3>2. cs \in [1..n -> Client]
      BY <2>1, <2>4, <3>1
    <3> QED BY <3>2
  <2>6. Idle /\ UNCHANGED <<now, minted, told>>
    BY <1>2 DEF prune_unknown_clients
  <2> QED BY <2>4, <2>5, <2>6, RevokeClientsKept
<1> QED BY <1>1, <1>2

\* A bearer found expired, and a bearer that is revoked.
LEMMA ValidateKept ==
  ASSUME IInv, Kept, (\E t \in tokens : validate(t)) \/ (\E t \in oauth : validate_oauth(t))
  PROVE  Kept'
<1>1. ASSUME NEW t \in tokens, validate(t) PROVE Kept'
  <2>1. /\ writes = <<>> /\ writes' = <<>> /\ tokens' \subseteq tokens /\ namedRows' \subseteq namedRows
        /\ UNCHANGED <<now, oauth, refresh, oauthRows, refreshRows, promise, minted, told>>
    BY <1>1 DEF validate, Idle, WithoutIds
  <2>2. /\ KnownRevoked' = KnownRevoked /\ KnownEnded' = KnownEnded
        /\ KnownClosed' = KnownClosed /\ KnownSpent' = KnownSpent
        /\ \A T : Pending(T) = {} /\ Pending(T)' = {}
    BY <2>1 DEF KnownRevoked, KnownEnded, KnownClosed, KnownSpent, Pending
  <2>3. NamedKept'
    BY <1>1, NamedExpired
  <2>4. OauthKept'
    BY <2>1, <2>2, OauthSame DEF Kept, OauthKept
  <2>5. RefreshKept'
    BY <2>1, <2>2, RefreshSame DEF Kept, RefreshKept
  <2>6. SharedKept'
    BY <2>1, SharedSame DEF Kept, FamilyTokens
  <2> QED BY <2>3, <2>4, <2>5, <2>6 DEF Kept
<1>2. ASSUME NEW t \in oauth, validate_oauth(t) PROVE Kept'
  <2>1. /\ writes = <<>> /\ writes' = <<>> /\ oauth' \subseteq oauth /\ oauthRows' \subseteq oauthRows
        /\ UNCHANGED <<now, tokens, refresh, namedRows, refreshRows, promise, minted, told>>
    BY <1>2 DEF validate_oauth, Idle, WithoutIds
  <2>2. /\ KnownRevoked' = KnownRevoked
        /\ KnownClosed' = KnownClosed /\ KnownSpent' = KnownSpent
        /\ \A T : Pending(T) = {} /\ Pending(T)' = {}
    BY <2>1 DEF KnownRevoked, KnownClosed, KnownSpent, Pending
  <2>3. NamedKept'
    BY <2>1, <2>2, NamedSame DEF Kept, NamedKept
  <2>4. OauthKept'
    BY <1>2, OauthExpired
  <2>5. RefreshKept'
    BY <2>1, <2>2, RefreshSame DEF Kept, RefreshKept
  <2>6. SharedKept'
    BY <2>1, SharedSame DEF Kept, FamilyTokens
  <2> QED BY <2>3, <2>4, <2>5, <2>6 DEF Kept
<1> QED BY <1>1, <1>2

LEMMA RevokeKept ==
  ASSUME IInv, Kept, NEW t \in tokens, revoke(t)
  PROVE  Kept'
<1>1. PICK d : d = Deadline(t)
  OBVIOUS
<1>2. /\ writes = <<>> /\ promise = Nothing /\ tokens' = (tokens \ {t}) \cup {d}
      /\ promise' = Tell({}, {}, {}, {t.id})
      /\ writes' = IF t.named THEN <<unpersist(t.id)>> ELSE <<>>
      /\ UNCHANGED <<now, oauth, refresh, namedRows, oauthRows, refreshRows, minted, told>>
  BY <1>1 DEF revoke, Idle, disk
<1>3. d.id = t.id /\ t.id \in 1..minted
  <2>1. t \in AccessToken /\ t.id <= minted
    BY TypesOf DEF Kept, NamedKept
  <2> QED BY <1>1, <2>1 DEF Deadline, AccessToken, Id
<1>4. /\ KnownRevoked' = KnownRevoked \cup {t.id} /\ KnownEnded' = KnownEnded
      /\ KnownClosed' = KnownClosed /\ KnownSpent' = KnownSpent
  BY <1>2 DEF KnownRevoked, KnownEnded, KnownClosed, KnownSpent, Tell, Nothing
<1>5. Pending("oauth")' = {} /\ Pending("refresh")' = {} /\ \A T : Pending(T) = {}
  <2>1. CASE t.named
    <3>1. PICK u : u = unpersist(t.id)
      OBVIOUS
    <3>2. writes' = <<u>> /\ u.table = "named"
      BY <1>2, <2>1, <3>1 DEF unpersist, Delete
    <3> QED BY <1>2, <3>2 DEF Pending
  <2>2. CASE ~t.named
    BY <1>2, <2>2 DEF Pending
  <2> QED BY <2>1, <2>2
<1>6. NamedKept'
  BY NamedRevoked
<1>7. \A x \in oauth : x.id # t.id
  BY DEF Kept, SharedKept
<1>8. OauthKept'
  BY <1>2, <1>4, <1>5, <1>7, OauthSame DEF Kept, OauthKept
<1>9. RefreshKept'
  BY <1>2, <1>4, <1>5, RefreshSame DEF Kept, RefreshKept
<1>10. SharedKept'
  <2>1. TellGood(told)' /\ TellGood(promise)'
    BY <1>2, <1>3 DEF Kept, SharedKept, TellGood, Tell
  <2> QED BY <1>2, <1>3, <2>1 DEF Kept, SharedKept, FamilyTokens
<1> QED BY <1>6, <1>8, <1>9, <1>10 DEF Kept

LEMMA RevokeOauthKept ==
  ASSUME IInv, Kept, NEW t \in oauth, revoke_oauth(t)
  PROVE  Kept'
<1>1. PICK d : d = Deadline(t)
  OBVIOUS
<1>2. PICK f : f = t.family_id
  OBVIOUS
<1>3. /\ writes = <<>> /\ promise = Nothing /\ oauth' = (oauth \ {t}) \cup {d}
      /\ UNCHANGED <<now, tokens, namedRows, oauthRows, refreshRows, minted, told>>
  BY <1>1 DEF revoke_oauth, Idle, disk
<1>4. /\ d.id = t.id /\ d.family_id = f /\ d.client_id = t.client_id /\ t.id \in 1..minted
      /\ f # NoFamily => f \in 1..minted
  <2>1. t \in OauthToken /\ t.id <= minted /\ t.family_id <= minted
    BY TypesOf DEF Kept, OauthKept, GoodBearer
  <2> QED BY <1>1, <1>2, <2>1 DEF Deadline, OauthToken, Id, NoFamily
<1>5. PICK u, v : u = DeleteOauth(t.id) /\ v = DeleteFamily("refresh", f)
  OBVIOUS
<1>6. /\ u.table = "oauth" /\ v.table = "refresh" /\ v.rows = {}
      /\ v.ids = {} /\ v.families = {f} /\ v.clients = {}
  BY <1>5 DEF DeleteOauth, DeleteFamily, Delete
<1>7. PICK F : F = IF f = NoFamily THEN {} ELSE {f}
  OBVIOUS
<1>8. /\ promise' = Tell({}, F, {}, {t.id})
      /\ writes' = IF f = NoFamily THEN <<u>> ELSE <<u, v>>
      /\ refresh' = IF f = NoFamily THEN refresh ELSE NotOfFamily(refresh, f)
  BY <1>2, <1>5, <1>7 DEF revoke_oauth
<1>9. /\ KnownRevoked' = KnownRevoked \cup {t.id} /\ KnownEnded' = KnownEnded
      /\ KnownClosed' = KnownClosed \cup F /\ KnownSpent' = KnownSpent
  BY <1>3, <1>8 DEF KnownRevoked, KnownEnded, KnownClosed, KnownSpent, Tell, Nothing
<1>10. \A T : Pending(T) = {}
  BY <1>3 DEF Pending
<1>11. NamedKept'
  <2>1. Pending("named")' = {}
    BY <1>6, <1>8 DEF Pending
  <2>2. \A x \in tokens : x.id # t.id
    BY DEF Kept, SharedKept
  <2> QED BY <1>3, <1>9, <1>10, <2>1, <2>2, NamedSame DEF Kept, NamedKept
<1>12. OauthKept'
  BY OauthRevoked
<1>13. RefreshKept'
  <2>1. CASE f = NoFamily
    <3>1. Pending("refresh")' = {} /\ refresh' = refresh /\ KnownClosed' = KnownClosed
      BY <1>6, <1>7, <1>8, <1>9, <2>1 DEF Pending
    <3> QED BY <1>3, <1>9, <1>10, <3>1, RefreshSame DEF Kept, RefreshKept
  <2>2. CASE f # NoFamily
    <3>1. writes' = <<u, v>> /\ refresh' = NotOfFamily(refresh, f) /\ F = {f}
      BY <1>7, <1>8, <2>2
    <3>2. Pending("refresh")' = {2} /\ writes'[2] = v
      BY <1>6, <3>1 DEF Pending
    <3>3. \A x : Doomed("refresh", x)' <=> x.family_id = f
      BY <1>6, <3>2 DEF Doomed, Hits
    <3>4. PICK G : G = OfFamily(refresh, f)
      OBVIOUS
    <3>5. refresh' = refresh \ G /\ \A x \in refresh : Doomed("refresh", Row(x))' <=> x \in G
      BY <3>1, <3>3, <3>4, RowFields DEF OfFamily, NotOfFamily
    <3>6. \A x \in refresh' : x.family_id \notin KnownClosed'
      BY <1>9, <3>1 DEF NotOfFamily, Kept, RefreshKept
    <3>7. \A i \in Pending("refresh")' : writes'[i].rows = {}
      BY <1>6, <3>2
    <3> QED BY <1>3, <1>9, <3>5, <3>6, <3>7, RefreshDropped
  <2> QED BY <2>1, <2>2
<1>14. SharedKept'
  <2>1. TellGood(told)' /\ TellGood(promise)'
    BY <1>3, <1>4, <1>7, <1>8 DEF Kept, SharedKept, TellGood, Tell
  <2>2. refresh' \subseteq refresh
    BY <1>8 DEF NotOfFamily
  <2>3. \A a \in FamilyTokens' : \E b \in FamilyTokens :
          a.family_id = b.family_id /\ a.client_id = b.client_id
    BY <1>2, <1>3, <1>4, <2>2 DEF FamilyTokens
  <2> QED BY <1>3, <1>4, <2>1, <2>3, SharedFamilies DEF Kept, SharedKept
<1> QED BY <1>11, <1>12, <1>13, <1>14 DEF Kept

\* The answer: with the queue empty, disk is what memory says.
LEMMA ReturnKept ==
  ASSUME IInv, Kept, Return
  PROVE  Kept'
<1>1. /\ writes = <<>> /\ writes' = <<>>
      /\ UNCHANGED <<now, tokens, oauth, refresh, namedRows, oauthRows, refreshRows, minted>>
      /\ told' = [k \in DOMAIN told |-> told[k] \cup promise[k]] /\ promise' = Nothing
  BY DEF Return, memory, disk
<1>2. /\ told'.spent = KnownSpent /\ told'.closed = KnownClosed
      /\ told'.ended = KnownEnded /\ told'.revoked = KnownRevoked
  BY <1>1, TypesOf DEF Told, KnownRevoked, KnownEnded, KnownClosed, KnownSpent
<1>3. /\ KnownRevoked' = KnownRevoked /\ KnownEnded' = KnownEnded
      /\ KnownClosed' = KnownClosed /\ KnownSpent' = KnownSpent
  <2>1. promise'.spent = {} /\ promise'.closed = {} /\ promise'.ended = {} /\ promise'.revoked = {}
    BY <1>1 DEF Nothing, Tell
  <2>2. /\ KnownRevoked' = told'.revoked \cup promise'.revoked /\ KnownEnded' = told'.ended \cup promise'.ended
        /\ KnownClosed' = told'.closed \cup promise'.closed /\ KnownSpent' = told'.spent \cup promise'.spent
    BY DEF KnownRevoked, KnownEnded, KnownClosed, KnownSpent
  <2> QED BY <1>2, <2>1, <2>2
<1>4. \A T : Pending(T) = {} /\ Pending(T)' = {}
  BY <1>1 DEF Pending
<1>5. NamedKept'
  <2>1. \A t \in namedRows : t.id \notin told'.revoked
    BY <1>1, <1>2, InStepNow
  <2> QED BY <1>1, <1>3, <1>4, <2>1, NamedSame DEF Kept
<1>6. OauthKept'
  <2>1. \A t \in oauthRows : t.id \notin told'.revoked /\ t.family_id \notin told'.ended
    BY <1>1, <1>2, InStepNow DEF Kept, OauthKept
  <2>2. \A t \in oauth : t.family_id \notin KnownEnded'
    BY <1>3 DEF Kept, OauthKept
  <2> QED BY <1>1, <1>3, <1>4, <2>1, <2>2, OauthSame DEF Kept
<1>7. RefreshKept'
  <2>1. \A t \in refreshRows : t.family_id \notin told'.closed /\ (t.id \in told'.spent => t.used)
    <3>1. \A r \in refresh : /\ Row(r).family_id \notin told'.closed
                             /\ Row(r).id \in told'.spent => Row(r).used
      BY <1>2, RowFields DEF Kept, RefreshKept
    <3> QED BY <1>1, <3>1, InStepNow
  <2>2. \A t \in refresh : t.family_id \notin KnownClosed' /\ (t.id \in KnownSpent' => t.used)
    BY <1>3 DEF Kept, RefreshKept
  <2> QED BY <1>1, <1>4, <2>1, <2>2, RefreshSame DEF Kept
<1>8. SharedKept'
  <2>1. TellGood(told)' /\ TellGood(promise)'
    <3>1. TellGood(told)'
      BY <1>1, <1>2 DEF Kept, SharedKept, TellGood, KnownRevoked, KnownEnded, KnownClosed, KnownSpent
    <3>2. TellGood(promise)'
      BY <1>1 DEF TellGood, Nothing, Tell
    <3> QED BY <3>1, <3>2
  <2> QED BY <1>1, <2>1 DEF Kept, SharedKept, FamilyTokens
<1> QED BY <1>5, <1>6, <1>7, <1>8 DEF Kept

LEMMA TickKept ==
  ASSUME IInv, Kept, Tick
  PROVE  Kept'
<1>1. /\ now' = now + 1 /\ now \in Nat
      /\ UNCHANGED <<tokens, oauth, refresh, namedRows, oauthRows, refreshRows, writes, promise,
                     minted, told>>
  BY TypesOf DEF Tick, memory, disk
<1>2. /\ KnownRevoked' = KnownRevoked /\ KnownEnded' = KnownEnded
      /\ KnownClosed' = KnownClosed /\ KnownSpent' = KnownSpent
      /\ \A T : Pending(T)' = Pending(T) /\ Coming(T)' = Coming(T)
  BY <1>1 DEF KnownRevoked, KnownEnded, KnownClosed, KnownSpent, Pending, Coming
<1>3. \A T, t : (Doomed(T, t)' <=> Doomed(T, t)) /\ (NamedDoomed(t)' <=> NamedDoomed(t))
  BY <1>1, <1>2 DEF Doomed, NamedDoomed
<1>4. \A x \in Nat : x <= now + REVOKE_GRACE_SECONDS => x <= now' + REVOKE_GRACE_SECONDS
  BY <1>1, TimeAssumption
<1>5. \A t \in tokens \cup oauth : t.expires_at \in Nat
  BY TypesOf DEF AccessToken, OauthToken, Time
<1>6. NamedKept'
  BY <1>1, <1>2, <1>3, <1>4, <1>5 DEF Kept, NamedKept
<1>7. OauthKept'
  BY <1>1, <1>2, <1>3, <1>4, <1>5 DEF Kept, OauthKept
<1>8. RefreshKept'
  BY <1>1, <1>2, <1>3 DEF Kept, RefreshKept
<1>9. SharedKept'
  BY <1>1 DEF Kept, SharedKept, FamilyTokens, TellGood
<1> QED BY <1>6, <1>7, <1>8, <1>9 DEF Kept

LEMMA InitKept == Init => Kept
<1> SUFFICES ASSUME Init PROVE Kept
  OBVIOUS
<1>1. \A T : Pending(T) = {} /\ Coming(T) = {}
  BY DEF Init, Pending, Coming
<1>2. NamedKept /\ OauthKept /\ RefreshKept
  BY <1>1 DEF Init, NamedKept, OauthKept, RefreshKept, SameId, OneUnused
<1>3. SharedKept
  BY DEF Init, SharedKept, FamilyTokens, TellGood, Nothing, Tell
<1> QED BY <1>2, <1>3 DEF Kept

-----------------------------------------------------------------------------
(* The disk.                                                               *)

\* A statement that inserts a row deletes the one with the same key first.
KeyedWrites == \A i \in DOMAIN writes : \A t \in writes[i].rows : t.id \in writes[i].ids

LEMMA KeyedStep ==
  ASSUME IInv, KeyedWrites, [Next]_vars
  PROVE  KeyedWrites'
<1>1. CASE writes' = <<>>
  BY <1>1 DEF KeyedWrites
<1>2. CASE writes' = writes
  BY <1>2 DEF KeyedWrites
<1>3. CASE writes # <<>> /\ writes' = Tail(writes)
  <2>1. \A i \in DOMAIN Tail(writes) : i + 1 \in DOMAIN writes /\ Tail(writes)[i] = writes[i + 1]
    BY <1>3, TypesOf
  <2> QED BY <1>3, <2>1 DEF KeyedWrites
<1>4. ASSUME NEW w, w.rows = {} \/ \E t : w.rows = {t} /\ w.ids = {t.id}
      PROVE  \A t \in w.rows : t.id \in w.ids
  BY <1>4
<1>5. /\ \A t : persist(t).rows = {t} /\ persist(t).ids = {t.id}
      /\ \A t : persist_oauth(t).rows = {t} /\ persist_oauth(t).ids = {t.id}
      /\ \A t : persist_refresh(t).rows = {Row(t)} /\ persist_refresh(t).ids = {Row(t).id}
  BY InsertFields, RowFields
<1>6. CASE \E a : writes' = <<persist(a)>> \/ writes' = <<persist_oauth(a)>>
  <2>1. PICK a, w : (w = persist(a) \/ w = persist_oauth(a)) /\ writes' = <<w>>
    BY <1>6
  <2>2. w.rows = {a} /\ w.ids = {a.id}
    BY <1>5, <2>1
  <2> QED BY <2>1, <2>2 DEF KeyedWrites
<1>7. CASE \E a, r : writes' = <<persist_oauth(a), persist_refresh(r)>>
  <2>1. PICK a, r, w, v : w = persist_oauth(a) /\ v = persist_refresh(r) /\ writes' = <<w, v>>
    BY <1>7
  <2>2. w.rows = {a} /\ w.ids = {a.id} /\ v.rows = {Row(r)} /\ v.ids = {Row(r).id}
    BY <1>5, <2>1
  <2> QED BY <2>1, <2>2 DEF KeyedWrites
<1>8. CASE \E a, r, q : writes' = <<persist_refresh(q), persist_oauth(a), persist_refresh(r)>>
  <2>1. PICK a, r, q, u, w, v : /\ u = persist_refresh(q) /\ w = persist_oauth(a) /\ v = persist_refresh(r)
                                /\ writes' = <<u, w, v>>
    BY <1>8
  <2>2. /\ u.rows = {Row(q)} /\ u.ids = {Row(q).id}
        /\ w.rows = {a} /\ w.ids = {a.id} /\ v.rows = {Row(r)} /\ v.ids = {Row(r).id}
    BY <1>5, <2>1
  <2> QED BY <2>1, <2>2 DEF KeyedWrites
<1>9. CASE \A i \in DOMAIN writes' : writes'[i].rows = {}
  BY <1>9 DEF KeyedWrites
<1>10. ASSUME \E f : writes' = FamilyDeletes(f) PROVE \A i \in DOMAIN writes' : writes'[i].rows = {}
  BY <1>10 DEF FamilyDeletes, DeleteFamily, Delete
<1>11. ASSUME \E cs : revoke_clients(cs) PROVE \A i \in DOMAIN writes' : writes'[i].rows = {}
  BY <1>11 DEF revoke_clients, DeleteClient, Delete
<1>12. ASSUME \E t : revoke(t) \/ revoke_oauth(t) PROVE \A i \in DOMAIN writes' : writes'[i].rows = {}
  <2>1. PICK t : revoke(t) \/ revoke_oauth(t)
    BY <1>12
  <2>2. CASE revoke(t)
    BY <2>2 DEF revoke, unpersist, Delete
  <2>3. CASE revoke_oauth(t)
    BY <2>3 DEF revoke_oauth, DeleteOauth, DeleteFamily, Delete
  <2> QED BY <2>1, <2>2, <2>3
<1>13. ASSUME NEW c \in Client, issue(c) \/ issue_named(c) \/ issue_oauth(c) \/ issue_oauth_refresh(c)
       PROVE  KeyedWrites'
  BY <1>2, <1>6, <1>7, <1>13 DEF issue, issue_named, issue_oauth, issue_oauth_refresh
<1>14. CASE Refresh
  <2>1. PICK rt \in refresh : \/ refresh_rotated(rt) \/ refresh_reused(rt)
                              \/ refresh_ended(rt) \/ refresh_idled(rt)
    BY <1>14 DEF Refresh
  <2>2. CASE refresh_rotated(rt)
    BY <1>8, <2>2 DEF refresh_rotated, RotationWrites
  <2>3. CASE refresh_reused(rt) \/ refresh_ended(rt)
    BY <1>9, <1>10, <2>3 DEF refresh_reused, refresh_ended, revoke_family
  <2>4. CASE refresh_idled(rt)
    BY <1>2, <2>4 DEF refresh_idled
  <2> QED BY <2>1, <2>2, <2>3, <2>4
<1>15. CASE \/ \E c \in Client : revoke_client(c)
            \/ \E known \in SUBSET Client : prune_unknown_clients(known)
  BY <1>9, <1>11, <1>15 DEF revoke_client, prune_unknown_clients
<1>16. CASE \/ \E t \in tokens : validate(t) \/ revoke(t)
            \/ \E t \in oauth : validate_oauth(t) \/ revoke_oauth(t)
  BY <1>2, <1>9, <1>12, <1>16 DEF validate, validate_oauth
<1>17. CASE list_named \/ db_write \/ db_write_fails \/ Return \/ Restart \/ Tick \/ UNCHANGED vars
  BY <1>1, <1>2, <1>3, <1>17 DEF list_named, db_write, db_write_fails, Return, Restart, Tick, vars
<1> QED BY <1>13, <1>14, <1>15, <1>16, <1>17 DEF Next

\* What is left of the queue when its first statement runs.
LEMMA QueueStep ==
  ASSUME writes \in Seq(Statement), writes # <<>>, writes' = Tail(writes), NEW s, s = Head(writes),
         NEW T
  PROVE  /\ 1 \in DOMAIN writes /\ writes[1] = s
         /\ s.table = T => 1 \in Pending(T)
         /\ \A i \in Pending(T)' : /\ i \in Nat \ {0} /\ i + 1 \in Pending(T)
                                   /\ writes'[i] = writes[i + 1]
         /\ \A k \in Pending(T) : k # 1 => k - 1 \in Pending(T)' /\ writes'[k - 1] = writes[k]
         /\ \A k \in Pending(T) : k \in Nat \ {0}
<1>1. /\ 1 \in DOMAIN writes /\ writes[1] = s
      /\ \A i \in DOMAIN Tail(writes) : /\ i \in Nat \ {0} /\ i + 1 \in DOMAIN writes
                                        /\ Tail(writes)[i] = writes[i + 1]
      /\ \A k \in DOMAIN writes : /\ k \in Nat \ {0}
                                  /\ k # 1 => /\ k - 1 \in DOMAIN Tail(writes)
                                              /\ Tail(writes)[k - 1] = writes[k]
  OBVIOUS
<1> QED BY <1>1 DEF Pending

\* Its effect moves from what is coming to what is there.
LEMMA QueueEffect ==
  ASSUME writes \in Seq(Statement), writes # <<>>, writes' = Tail(writes), NEW s, s = Head(writes),
         NEW T
  PROVE  /\ Coming(T) = (IF s.table = T THEN s.rows ELSE {}) \cup Coming(T)'
         /\ \A t : Doomed(T, t) <=> (s.table = T /\ Hits(s, t)) \/ Doomed(T, t)'
         /\ \A t : T = "named" =>
              (NamedDoomed(t) <=> (s.table = T /\ t.id \in s.ids) \/ NamedDoomed(t)')
<1>1. /\ 1 \in DOMAIN writes /\ writes[1] = s
      /\ 1 \in Pending(T) <=> s.table = T
      /\ \A i \in Pending(T)' : i + 1 \in Pending(T) /\ writes'[i] = writes[i + 1]
      /\ \A k \in Pending(T) : k # 1 => k - 1 \in Pending(T)' /\ writes'[k - 1] = writes[k]
  BY QueueStep DEF Pending
<1>2. Coming(T) = (IF s.table = T THEN s.rows ELSE {}) \cup Coming(T)'
  <2>1. ASSUME NEW x \in Coming(T)
        PROVE  x \in (IF s.table = T THEN s.rows ELSE {}) \cup Coming(T)'
    <3>1. PICK k \in Pending(T) : x \in writes[k].rows
      BY <2>1 DEF Coming
    <3>2. CASE k = 1
      BY <1>1, <3>1, <3>2
    <3>3. CASE k # 1
      BY <1>1, <3>1, <3>3 DEF Coming
    <3> QED BY <3>2, <3>3
  <2>2. ASSUME NEW x \in (IF s.table = T THEN s.rows ELSE {}) \cup Coming(T)'
        PROVE  x \in Coming(T)
    <3>1. CASE s.table = T /\ x \in s.rows
      BY <1>1, <3>1 DEF Coming
    <3>2. CASE x \in Coming(T)'
      <4>1. PICK i \in Pending(T)' : x \in writes'[i].rows
        BY <3>2 DEF Coming
      <4>2. i + 1 \in Pending(T) /\ x \in writes[i + 1].rows
        BY <1>1, <4>1
      <4> QED BY <4>2, Zenon DEF Coming
    <3> QED BY <2>2, <3>1, <3>2
  <2> QED BY <2>1, <2>2
<1>3. ASSUME NEW t PROVE Doomed(T, t) <=> (s.table = T /\ Hits(s, t)) \/ Doomed(T, t)'
  <2>1. ASSUME Doomed(T, t) PROVE (s.table = T /\ Hits(s, t)) \/ Doomed(T, t)'
    <3>1. PICK k \in Pending(T) : Hits(writes[k], t)
      BY <2>1 DEF Doomed
    <3>2. CASE k = 1
      BY <1>1, <3>1, <3>2
    <3>3. CASE k # 1
      <4>1. k - 1 \in Pending(T)' /\ Hits(writes'[k - 1], t)
        BY <1>1, <3>1, <3>3
      <4> QED BY <4>1 DEF Doomed, Hits
    <3> QED BY <3>2, <3>3
  <2>2. ASSUME Doomed(T, t)' PROVE Doomed(T, t)
    <3>1. PICK i \in Pending(T)' : Hits(writes'[i], t)
      BY <2>2 DEF Doomed, Hits
    <3>2. i + 1 \in Pending(T) /\ Hits(writes[i + 1], t)
      BY <1>1, <3>1
    <3> QED BY <3>2 DEF Doomed
  <2>3. ASSUME s.table = T, Hits(s, t) PROVE Doomed(T, t)
    BY <1>1, <2>3 DEF Doomed
  <2> QED BY <2>1, <2>2, <2>3
<1>4. ASSUME NEW t, T = "named"
      PROVE  NamedDoomed(t) <=> (s.table = T /\ t.id \in s.ids) \/ NamedDoomed(t)'
  <2>1. ASSUME NamedDoomed(t) PROVE (s.table = T /\ t.id \in s.ids) \/ NamedDoomed(t)'
    <3>1. PICK k \in Pending(T) : t.id \in writes[k].ids
      BY <1>4, <2>1 DEF NamedDoomed
    <3>2. CASE k = 1
      BY <1>1, <3>1, <3>2
    <3>3. CASE k # 1
      <4>1. k - 1 \in Pending(T)' /\ t.id \in writes'[k - 1].ids
        BY <1>1, <3>1, <3>3
      <4> QED BY <1>4, <4>1 DEF NamedDoomed
    <3> QED BY <3>2, <3>3
  <2>2. ASSUME NamedDoomed(t)' PROVE NamedDoomed(t)
    <3>1. PICK i \in Pending(T)' : t.id \in writes'[i].ids
      BY <1>4, <2>2 DEF NamedDoomed
    <3>2. i + 1 \in Pending(T) /\ t.id \in writes[i + 1].ids
      BY <1>1, <3>1
    <3> QED BY <1>4, <3>2 DEF NamedDoomed
  <2>3. ASSUME s.table = T, t.id \in s.ids PROVE NamedDoomed(t)
    BY <1>1, <1>4, <2>3 DEF NamedDoomed
  <2> QED BY <2>1, <2>2, <2>3
<1> QED BY <1>2, <1>3, <1>4

\* A commit on each table.
LEMMA NamedCommit ==
  ASSUME IInv, Kept, db_write
  PROVE  NamedKept'
<1>1. PICK s : s = Head(writes)
  OBVIOUS
<1>2. /\ writes # <<>> /\ writes' = Tail(writes) /\ writes \in Seq(Statement)
      /\ UNCHANGED <<now, tokens, promise, minted, told>>
      /\ namedRows' = IF s.table = "named" THEN NamedAfter(s) ELSE namedRows
  BY <1>1, TypesOf DEF db_write, memory
<1>3. KnownRevoked' = KnownRevoked
  BY <1>2 DEF KnownRevoked
<1>4. /\ Coming("named") = (IF s.table = "named" THEN s.rows ELSE {}) \cup Coming("named")'
      /\ \A t : NamedDoomed(t) <=> (s.table = "named" /\ t.id \in s.ids) \/ NamedDoomed(t)'
  BY <1>1, <1>2, QueueEffect
<1>5. /\ s.table = "named" => 1 \in Pending("named")
      /\ \A i \in Pending("named")' : i \in Nat \ {0} /\ i + 1 \in Pending("named")
  BY <1>1, <1>2, QueueStep
<1>6. \A i, j \in Pending("named")' : i = j
  <2> SUFFICES ASSUME NEW i \in Pending("named")', NEW j \in Pending("named")' PROVE i = j
    OBVIOUS
  <2>1. i + 1 = j + 1 /\ i \in Nat /\ j \in Nat
    BY <1>5 DEF Kept, NamedKept
  <2> QED BY <2>1
<1>7. CASE s.table = "named"
  <2>1. Pending("named")' = {}
    <3> SUFFICES ASSUME NEW i \in Pending("named")' PROVE FALSE
      OBVIOUS
    <3>1. i + 1 = 1 /\ i \in Nat \ {0}
      BY <1>5, <1>7 DEF Kept, NamedKept
    <3> QED BY <3>1
  <2>2. Coming("named")' = {} /\ \A t : ~NamedDoomed(t)'
    BY <2>1 DEF Coming, NamedDoomed
  <2>3. namedRows' = {t \in namedRows : ~NamedDoomed(t)} \cup Coming("named")
    BY <1>2, <1>4, <1>7, <2>2 DEF NamedAfter, WithoutIds
  <2>4. namedRows' = {t \in tokens : t.named /\ t.id \notin KnownRevoked}
    BY <2>3 DEF Kept, NamedKept
  <2>5. \A t \in namedRows' : t.named /\ t.id \notin told.revoked
    BY <2>4 DEF KnownRevoked
  <2> QED BY <1>2, <1>3, <1>6, <2>2, <2>4, <2>5 DEF Kept, NamedKept, SameId
<1>8. CASE s.table # "named"
  <2>1. namedRows' = namedRows /\ Coming("named")' = Coming("named")
        /\ \A t : NamedDoomed(t)' <=> NamedDoomed(t)
    BY <1>2, <1>4, <1>8
  <2> QED BY <1>2, <1>3, <1>6, <2>1 DEF Kept, NamedKept
<1> QED BY <1>7, <1>8

LEMMA OauthCommit ==
  ASSUME IInv, Kept, KeyedWrites, db_write
  PROVE  OauthKept'
<1>1. PICK s : s = Head(writes)
  OBVIOUS
<1>2. /\ writes # <<>> /\ writes' = Tail(writes) /\ writes \in Seq(Statement)
      /\ UNCHANGED <<now, oauth, promise, minted, told>>
      /\ oauthRows' = IF s.table = "oauth" THEN OauthAfter(s) ELSE oauthRows
  BY <1>1, TypesOf DEF db_write, memory
<1>3. KnownRevoked' = KnownRevoked /\ KnownEnded' = KnownEnded
  BY <1>2 DEF KnownRevoked, KnownEnded
<1>4. /\ Coming("oauth") = (IF s.table = "oauth" THEN s.rows ELSE {}) \cup Coming("oauth")'
      /\ \A t : Doomed("oauth", t) <=> (s.table = "oauth" /\ Hits(s, t)) \/ Doomed("oauth", t)'
  BY <1>1, <1>2, QueueEffect
<1>5. /\ 1 \in DOMAIN writes /\ writes[1] = s
      /\ s.table = "oauth" => 1 \in Pending("oauth")
      /\ \A i \in Pending("oauth")' : /\ i \in Nat \ {0} /\ i + 1 \in Pending("oauth")
                                      /\ writes'[i] = writes[i + 1]
  BY <1>1, <1>2, QueueStep
<1>6. \A i, j \in Pending("oauth")' : i # j => \A t \in writes'[i].rows : ~Hits(writes'[j], t)
  <2> SUFFICES ASSUME NEW i \in Pending("oauth")', NEW j \in Pending("oauth")', i # j,
                      NEW t \in writes'[i].rows
               PROVE  ~Hits(writes'[j], t)
    OBVIOUS
  <2>1. PICK k, m : k = i + 1 /\ m = j + 1
    OBVIOUS
  <2>2. k # m /\ k \in Pending("oauth") /\ m \in Pending("oauth")
    BY <1>5, <2>1
  <2>3. writes'[i] = writes[k] /\ writes'[j] = writes[m]
    BY <1>5, <2>1
  <2> QED BY <2>2, <2>3 DEF Kept, OauthKept
<1>7. \A t \in Coming("oauth") : t \in oauth /\ t.id \notin KnownRevoked
  BY DEF Kept, OauthKept
<1>8. CASE s.table = "oauth"
  <2>1. oauthRows' = {t \in oauthRows : ~Hits(s, t)} \cup s.rows
    BY <1>2, <1>8 DEF OauthAfter, WithoutIds, Hits
  <2>2. \A t \in s.rows : ~Doomed("oauth", t)'
    <3> SUFFICES ASSUME NEW t \in s.rows, Doomed("oauth", t)' PROVE FALSE
      OBVIOUS
    <3>1. PICK i \in Pending("oauth")' : Hits(writes'[i], t)
      BY DEF Doomed, Hits
    <3>2. PICK k : k = i + 1
      OBVIOUS
    <3>3. k \in Pending("oauth") /\ k # 1 /\ Hits(writes[k], t)
      BY <1>5, <3>1, <3>2
    <3> QED BY <1>5, <1>8, <3>3 DEF Kept, OauthKept
  <2>3. {t \in oauthRows' : ~Doomed("oauth", t)'} \cup Coming("oauth")'
          = {t \in oauth' : t.id \notin KnownRevoked'}
    <3>1. {t \in oauthRows' : ~Doomed("oauth", t)'} \cup Coming("oauth")'
            = {t \in oauthRows : ~Doomed("oauth", t)} \cup Coming("oauth")
      BY <1>4, <1>8, <2>1, <2>2
    <3> QED BY <1>2, <1>3, <3>1 DEF Kept, OauthKept
  <2>4. \A t \in s.rows : t \in oauth /\ t.id \notin KnownRevoked /\ t.id \in s.ids
    BY <1>4, <1>5, <1>7, <1>8 DEF KeyedWrites
  <2>5. SameId(oauthRows')
    BY <2>1, <2>4 DEF Kept, OauthKept, SameId, Hits
  <2>6. /\ \A t \in oauthRows' : t.id <= minted
        /\ \A t \in oauthRows' : t.id \notin told.revoked /\ t.family_id \notin told.ended
    BY <2>1, <2>4 DEF Kept, OauthKept, KnownRevoked, KnownEnded
  <2> QED BY <1>2, <1>3, <1>6, <2>3, <2>5, <2>6 DEF Kept, OauthKept
<1>9. CASE s.table # "oauth"
  <2>1. oauthRows' = oauthRows /\ Coming("oauth")' = Coming("oauth")
        /\ \A t : Doomed("oauth", t)' <=> Doomed("oauth", t)
    BY <1>2, <1>4, <1>9
  <2> QED BY <1>2, <1>3, <1>6, <2>1 DEF Kept, OauthKept
<1> QED BY <1>8, <1>9

LEMMA RefreshCommit ==
  ASSUME IInv, Kept, KeyedWrites, db_write
  PROVE  RefreshKept'
<1>1. PICK s : s = Head(writes)
  OBVIOUS
<1>2. /\ writes # <<>> /\ writes' = Tail(writes) /\ writes \in Seq(Statement)
      /\ UNCHANGED <<now, refresh, promise, minted, told>>
      /\ refreshRows' = IF s.table = "refresh" THEN RefreshAfter(s) ELSE refreshRows
  BY <1>1, TypesOf DEF db_write, memory
<1>3. KnownClosed' = KnownClosed /\ KnownSpent' = KnownSpent
  BY <1>2 DEF KnownClosed, KnownSpent
<1>4. /\ Coming("refresh") = (IF s.table = "refresh" THEN s.rows ELSE {}) \cup Coming("refresh")'
      /\ \A t : Doomed("refresh", t) <=> (s.table = "refresh" /\ Hits(s, t)) \/ Doomed("refresh", t)'
  BY <1>1, <1>2, QueueEffect
<1>5. /\ 1 \in DOMAIN writes /\ writes[1] = s
      /\ s.table = "refresh" => 1 \in Pending("refresh")
      /\ \A i \in Pending("refresh")' : /\ i \in Nat \ {0} /\ i + 1 \in Pending("refresh")
                                        /\ writes'[i] = writes[i + 1]
  BY <1>1, <1>2, QueueStep
<1>6. \A i, j \in Pending("refresh")' : i # j => \A t \in writes'[i].rows : ~Hits(writes'[j], t)
  <2> SUFFICES ASSUME NEW i \in Pending("refresh")', NEW j \in Pending("refresh")', i # j,
                      NEW t \in writes'[i].rows
               PROVE  ~Hits(writes'[j], t)
    OBVIOUS
  <2>1. PICK k, m : k = i + 1 /\ m = j + 1
    OBVIOUS
  <2>2. k # m /\ k \in Pending("refresh") /\ m \in Pending("refresh")
    BY <1>5, <2>1
  <2>3. writes'[i] = writes[k] /\ writes'[j] = writes[m]
    BY <1>5, <2>1
  <2> QED BY <2>2, <2>3 DEF Kept, RefreshKept
<1>7. \A i \in Pending("refresh")' :
        (\A t \in writes'[i].rows : t.used) \/ (\A j \in Pending("refresh")' : j <= i)
  <2> SUFFICES ASSUME NEW i \in Pending("refresh")', NEW t \in writes'[i].rows, ~t.used,
                      NEW j \in Pending("refresh")'
               PROVE  j <= i
    OBVIOUS
  <2>1. PICK k, m : k = i + 1 /\ m = j + 1
    OBVIOUS
  <2>2. k \in Pending("refresh") /\ m \in Pending("refresh") /\ i \in Nat /\ j \in Nat
    BY <1>5, <2>1
  <2>3. writes'[i] = writes[k]
    BY <1>5, <2>1
  <2>4. m <= k
    BY <2>2, <2>3 DEF Kept, RefreshKept
  <2> QED BY <2>1, <2>2, <2>4
<1>8. \A t \in Coming("refresh") : \E rt \in refresh : t = Row(rt)
  BY DEF Kept, RefreshKept
<1>9. CASE s.table = "refresh"
  <2>1. refreshRows' = {t \in refreshRows : ~Hits(s, t)} \cup s.rows
    BY <1>2, <1>9 DEF RefreshAfter, WithoutIds, Hits
  <2>2. \A t \in s.rows : ~Doomed("refresh", t)'
    <3> SUFFICES ASSUME NEW t \in s.rows, Doomed("refresh", t)' PROVE FALSE
      OBVIOUS
    <3>1. PICK i \in Pending("refresh")' : Hits(writes'[i], t)
      BY DEF Doomed, Hits
    <3>2. PICK k : k = i + 1
      OBVIOUS
    <3>3. k \in Pending("refresh") /\ k # 1 /\ Hits(writes[k], t)
      BY <1>5, <3>1, <3>2
    <3> QED BY <1>5, <1>9, <3>3 DEF Kept, RefreshKept
  <2>3. {t \in refreshRows' : ~Doomed("refresh", t)'} \cup Coming("refresh")'
          = {Row(rt) : rt \in refresh'}
    <3>1. {t \in refreshRows' : ~Doomed("refresh", t)'} \cup Coming("refresh")'
            = {t \in refreshRows : ~Doomed("refresh", t)} \cup Coming("refresh")
      BY <1>4, <1>9, <2>1, <2>2
    <3> QED BY <1>2, <3>1 DEF Kept, RefreshKept
  <2>4. \A t \in s.rows : t.id \in s.ids /\ \E rt \in refresh : t = Row(rt)
    BY <1>4, <1>5, <1>8, <1>9 DEF KeyedWrites
  <2>5. \A rt \in refresh : Row(rt).id = rt.id
    BY RowFields
  <2>6. SameId(refreshRows')
    BY <2>1, <2>4, <2>5 DEF Kept, RefreshKept, SameId, Hits
  <2>7. \A rt \in refresh : /\ Row(rt).id <= minted /\ Row(Row(rt)) = Row(rt)
                            /\ Row(rt).family_id \notin told.closed
                            /\ Row(rt).id \in told.spent => Row(rt).used
    BY RowFields DEF Kept, RefreshKept, KnownClosed, KnownSpent
  <2>8. \A t \in refreshRows' : /\ t.id <= minted /\ Row(t) = t /\ t.family_id \notin told.closed
                                /\ t.id \in told.spent => t.used
    BY <2>1, <2>4, <2>7 DEF Kept, RefreshKept
  <2>9. OneUnused(refreshRows')
    <3>1. CASE \A t \in s.rows : t.used
      BY <2>1, <3>1 DEF Kept, RefreshKept, OneUnused
    <3>2. CASE \A j \in Pending("refresh") : j <= 1
      <4>1. Pending("refresh")' = {}
        BY <1>5, <3>2
      <4>2. Coming("refresh")' = {} /\ \A t : ~Doomed("refresh", t)'
        BY <4>1 DEF Coming, Doomed
      <4>3. refreshRows' = {Row(rt) : rt \in refresh}
        BY <1>2, <2>3, <4>2
      <4>4. \A rt \in refresh : Row(rt).used = rt.used /\ Row(rt).family_id = rt.family_id
        BY RowFields
      <4> QED BY <2>5, <4>3, <4>4 DEF Kept, RefreshKept, OneUnused
    <3> QED BY <1>5, <1>9, <3>1, <3>2 DEF Kept, RefreshKept
  <2> QED BY <1>2, <1>3, <1>6, <1>7, <2>3, <2>6, <2>8, <2>9 DEF Kept, RefreshKept
<1>10. CASE s.table # "refresh"
  <2>1. refreshRows' = refreshRows /\ Coming("refresh")' = Coming("refresh")
        /\ \A t : Doomed("refresh", t)' <=> Doomed("refresh", t)
    BY <1>2, <1>4, <1>10
  <2> QED BY <1>2, <1>3, <1>6, <1>7, <2>1 DEF Kept, RefreshKept
<1> QED BY <1>9, <1>10

LEMMA CommitKept ==
  ASSUME IInv, Kept, KeyedWrites, db_write
  PROVE  Kept'
<1>1. PICK s : s = Head(writes)
  OBVIOUS
<1>2. /\ writes # <<>> /\ writes' = Tail(writes) /\ writes \in Seq(Statement)
      /\ UNCHANGED <<tokens, oauth, refresh, promise, minted, told>>
      /\ namedRows' = IF s.table = "named" THEN NamedAfter(s) ELSE namedRows
      /\ oauthRows' = IF s.table = "oauth" THEN OauthAfter(s) ELSE oauthRows
      /\ refreshRows' = IF s.table = "refresh" THEN RefreshAfter(s) ELSE refreshRows
  BY <1>1, TypesOf DEF db_write, memory
<1>3. \A T : s.table = T => s.rows \subseteq Coming(T)
  BY <1>1, <1>2, QueueEffect
<1>4. namedRows' \subseteq namedRows \cup tokens
  <2>1. Coming("named") \subseteq tokens
    BY DEF Kept, NamedKept
  <2> QED BY <1>2, <1>3, <2>1 DEF NamedAfter, WithoutIds
<1>5. oauthRows' \subseteq oauthRows \cup oauth
  <2>1. Coming("oauth") \subseteq oauth
    BY DEF Kept, OauthKept
  <2> QED BY <1>2, <1>3, <2>1 DEF OauthAfter, WithoutIds
<1>6. \A t \in refreshRows' : t \in refreshRows \/ \E rt \in refresh : t = Row(rt)
  <2>1. \A t \in Coming("refresh") : \E rt \in refresh : t = Row(rt)
    BY DEF Kept, RefreshKept
  <2> QED BY <1>2, <1>3, <2>1 DEF RefreshAfter, WithoutIds
<1>7. \A a \in FamilyTokens' : \E b \in FamilyTokens :
        a.family_id = b.family_id /\ a.client_id = b.client_id
  BY <1>2, <1>5, <1>6, RowFields DEF FamilyTokens
<1>8. SharedKept'
  BY <1>2, <1>4, <1>5, <1>7, SharedSame DEF Kept
<1> QED BY <1>8, NamedCommit, OauthCommit, RefreshCommit DEF Kept

\* A start finds the rows already bounded.
LEMMA RowsBounded ==
  ASSUME IInv, Kept
  PROVE  BoundRefresh(refreshRows) = refreshRows /\ BoundOauth(oauthRows, refreshRows) = oauthRows
<1> USE TimeAssumption, BoundAssumption
<1>1. ASSUME NEW rt \in refreshRows PROVE Bounded(rt, FamilyEnd(rt, refreshRows)) = rt
  <2>1. rt \in RefreshToken /\ GoodRenewal(rt) /\ Row(rt) = rt
    BY TypesOf DEF Kept, RefreshKept
  <2>2. /\ rt.family_expires_at \in Nat /\ rt.expires_at \in Nat
        /\ FamilyEnd(rt, refreshRows) = rt.family_expires_at
        /\ rt.expires_at <= rt.family_expires_at
    BY <2>1 DEF FamilyEnd, RefreshToken, Time, NoEnd, GoodRenewal, RenewalBounded
  <2>3. MinOf(rt.expires_at, rt.family_expires_at) = rt.expires_at
    BY <2>2 DEF MinOf
  <2>4. Bounded(rt, rt.family_expires_at) = Row(rt)
    BY <2>3 DEF Bounded, Row, Rotated
  <2> QED BY <2>1, <2>2, <2>4
<1>2. BoundRefresh(refreshRows) = refreshRows
  BY <1>1 DEF BoundRefresh
<1>3. ASSUME NEW at \in oauthRows PROVE [at EXCEPT !.expires_at = BearerEnd(at, refreshRows)] = at
  <2>1. at \in OauthToken /\ at.expires_at \in Nat /\ GoodBearer(at)
    BY TypesOf DEF OauthToken, Time
  <2> DEFINE S == {at.expires_at} \cup {r.family_expires_at : r \in OfFamily(refreshRows, at.family_id)}
  <2>2. \A y \in S : y \in Int /\ at.expires_at <= y
    <3>1. ASSUME NEW r \in OfFamily(refreshRows, at.family_id)
          PROVE  r.family_expires_at \in Int /\ at.expires_at <= r.family_expires_at
      <4>1. GoodRenewal(r) /\ r.family_id = at.family_id
        BY TypesOf DEF OfFamily
      <4>2. r.family_expires_at \in Nat /\ at.family_id \in Id /\ at.family_id # NoFamily
        BY <4>1 DEF GoodRenewal, RefreshToken, Time, Id, NoFamily
      <4> QED BY <2>1, <4>1, <4>2 DEF GoodRenewal, RenewalBounded, GoodBearer, BearerBounded
    <3> QED BY <2>1, <3>1
  <2>3. BearerEnd(at, refreshRows) = at.expires_at
    <3>1. at.expires_at \in S
      OBVIOUS
    <3>2. BearerEnd(at, refreshRows) = Least(S)
      BY DEF BearerEnd
    <3> HIDE DEF S
    <3> QED BY <2>1, <2>2, <3>1, <3>2, LeastOf
  <2> QED BY <2>1, <2>3 DEF OauthToken
<1>4. BoundOauth(oauthRows, refreshRows) = oauthRows
  BY <1>3 DEF BoundOauth
<1> QED BY <1>2, <1>4

LEMMA RestartKept ==
  ASSUME IInv, Kept, Restart
  PROVE  Kept'
<1>1. /\ tokens' = Loaded(namedRows) /\ namedRows' = Loaded(namedRows)
      /\ oauth' = Loaded(oauthRows) /\ oauthRows' = Loaded(oauthRows)
      /\ refresh' = Loaded(refreshRows) /\ refreshRows' = Loaded(refreshRows)
      /\ writes' = <<>> /\ promise' = Nothing /\ UNCHANGED <<now, minted, told>>
  BY RowsBounded DEF Restart
<1>2. /\ Loaded(namedRows) \subseteq namedRows /\ Loaded(oauthRows) \subseteq oauthRows
      /\ Loaded(refreshRows) \subseteq refreshRows
  BY DEF Loaded
<1>3. /\ KnownRevoked' = told.revoked /\ KnownEnded' = told.ended
      /\ KnownClosed' = told.closed /\ KnownSpent' = told.spent
  BY <1>1 DEF KnownRevoked, KnownEnded, KnownClosed, KnownSpent, Nothing, Tell
<1>4. \A T : Pending(T)' = {} /\ Coming(T)' = {}
  BY <1>1 DEF Pending, Coming
<1>5. \A T, t : ~Doomed(T, t)' /\ ~NamedDoomed(t)'
  BY <1>4 DEF Doomed, NamedDoomed
<1>6. NamedKept'
  BY <1>1, <1>2, <1>3, <1>4, <1>5 DEF Kept, NamedKept, SameId
<1>7. OauthKept'
  BY <1>1, <1>2, <1>3, <1>4, <1>5 DEF Kept, OauthKept, SameId
<1>8. RefreshKept'
  <2>1. refreshRows' = {Row(rt) : rt \in refresh'}
    BY <1>1, <1>2 DEF Kept, RefreshKept
  <2>2. {t \in refreshRows' : ~Doomed("refresh", t)'} \cup Coming("refresh")' = refreshRows'
    BY <1>4, <1>5
  <2>3. /\ SameId(refresh') /\ SameId(refreshRows') /\ OneUnused(refresh') /\ OneUnused(refreshRows')
    BY <1>1, <1>2 DEF Kept, RefreshKept, SameId, OneUnused
  <2>4. /\ \A t \in refresh' \cup refreshRows' : t.id <= minted'
        /\ \A t \in refresh' : t.family_id \notin KnownClosed' /\ (t.id \in KnownSpent' => t.used)
        /\ \A t \in refreshRows' : /\ Row(t) = t /\ t.family_id \notin told'.closed
                                   /\ t.id \in told'.spent => t.used
    BY <1>1, <1>2, <1>3 DEF Kept, RefreshKept
  <2> QED BY <1>4, <2>1, <2>2, <2>3, <2>4 DEF RefreshKept
<1>9. SharedKept'
  <2>1. FamilyTokens' \subseteq FamilyTokens
    BY <1>1, <1>2 DEF FamilyTokens
  <2>2. TellGood(told)' /\ TellGood(promise)'
    BY <1>1 DEF Kept, SharedKept, TellGood, Nothing, Tell
  <2> QED BY <1>1, <1>2, <2>1, <2>2 DEF Kept, SharedKept
<1> QED BY <1>6, <1>7, <1>8, <1>9 DEF Kept

-----------------------------------------------------------------------------
(* The theorems.                                                           *)

InStep == lost = 0 => Kept

LEMMA StutterKept ==
  ASSUME Kept, UNCHANGED vars
  PROVE  Kept'
<1>1. UNCHANGED <<now, tokens, oauth, refresh, namedRows, oauthRows, refreshRows,
                  writes, promise, minted, told>>
  BY DEF vars
<1>2. /\ KnownRevoked' = KnownRevoked /\ KnownEnded' = KnownEnded
      /\ KnownClosed' = KnownClosed /\ KnownSpent' = KnownSpent
      /\ \A T : Pending(T)' = Pending(T) /\ Coming(T)' = Coming(T)
  BY <1>1 DEF KnownRevoked, KnownEnded, KnownClosed, KnownSpent, Pending, Coming
<1>3. \A T, t : (Doomed(T, t)' <=> Doomed(T, t)) /\ (NamedDoomed(t)' <=> NamedDoomed(t))
  BY <1>1, <1>2 DEF Doomed, NamedDoomed
<1>4. NamedKept' /\ OauthKept' /\ RefreshKept'
  BY <1>1, <1>2, <1>3 DEF Kept, NamedKept, OauthKept, RefreshKept
<1>5. SharedKept'
  BY <1>1 DEF Kept, SharedKept, FamilyTokens, TellGood
<1> QED BY <1>4, <1>5 DEF Kept

\* A statement that was lost stays lost.
LEMMA LostStays ==
  ASSUME IInv, [Next]_vars, lost' = 0
  PROVE  lost = 0 /\ ~db_write_fails
<1>1. lost \in Nat
  BY BoundAssumption DEF IInv, ScalarsGood
<1>2. lost' = lost \/ (db_write_fails /\ lost' = lost + 1)
  BY DEF Next, vars, issue, issue_named, list_named, issue_oauth, issue_oauth_refresh, Refresh,
         refresh_rotated, refresh_reused, refresh_ended, refresh_idled, revoke_client,
         prune_unknown_clients, validate, validate_oauth, revoke, revoke_oauth, db_write,
         db_write_fails, Return, Restart, Tick
<1>3. db_write_fails => lost' = lost + 1
  BY DEF db_write_fails
<1> QED BY <1>1, <1>2, <1>3

LEMMA KeptStep ==
  ASSUME IInv, IInv', KeyedWrites, Kept, [Next]_vars, ~db_write_fails
  PROVE  Kept'
<1>1. ASSUME NEW c \in Client, issue(c) PROVE Kept'
  BY <1>1, IssueKept
<1>2. ASSUME NEW c \in Client, issue_named(c) PROVE Kept'
  BY <1>2, IssueNamedKept
<1>3. CASE list_named
  BY <1>3, ListKept
<1>4. ASSUME NEW c \in Client, issue_oauth(c) PROVE Kept'
  BY <1>4, IssueOauthKept
<1>5. ASSUME NEW c \in Client, issue_oauth_refresh(c) PROVE Kept'
  BY <1>5, SignInKept
<1>6. CASE Refresh
  BY <1>6, RefreshMethodKept
<1>7. CASE \/ \E c \in Client : revoke_client(c)
           \/ \E known \in SUBSET Client : prune_unknown_clients(known)
  BY <1>7, PruneKept
<1>8. CASE \/ \E t \in tokens : validate(t)
           \/ \E t \in oauth : validate_oauth(t)
  BY <1>8, ValidateKept
<1>9. ASSUME NEW t \in tokens, revoke(t) PROVE Kept'
  BY <1>9, RevokeKept
<1>10. ASSUME NEW t \in oauth, revoke_oauth(t) PROVE Kept'
  BY <1>10, RevokeOauthKept
<1>11. CASE db_write
  BY <1>11, CommitKept
<1>12. CASE Return
  BY <1>12, ReturnKept
<1>13. CASE Restart
  BY <1>13, RestartKept
<1>14. CASE Tick
  BY <1>14, TickKept
<1>15. CASE UNCHANGED vars
  BY <1>15, StutterKept
<1> QED BY <1>1, <1>2, <1>3, <1>4, <1>5, <1>6, <1>7, <1>8, <1>9, <1>10, <1>11, <1>12, <1>13,
           <1>14, <1>15 DEF Next

\* As long as no SQL statement failed, memory and disk are in step: whatever
\* statement the process dies at, the tables hold what was promised.
THEOREM MemoryAndDiskInStep == Spec => []InStep
<1>1. Init => KeyedWrites /\ InStep
  BY InitKept DEF Init, KeyedWrites, InStep
<1>2. IInv /\ IInv' /\ KeyedWrites /\ InStep /\ [Next]_vars => KeyedWrites' /\ InStep'
  BY KeyedStep, LostStays, KeptStep DEF InStep
<1> QED BY <1>1, <1>2, Inductive, PTL DEF Spec

\* A family never forks, in memory or among the rows a restart would load,
\* whatever statement of a rotation the process died at.
THEOREM FamilyNeverForks == Spec => [](lost = 0 => OneUsableRefresh)
<1>1. InStep => (lost = 0 => OneUsableRefresh)
  BY DEF InStep, Kept, RefreshKept, OneUnused, OneUsableRefresh, Unused
<1> QED BY <1>1, MemoryAndDiskInStep, PTL

\* A refresh token that a caller exchanged is never exchangeable again, after
\* any sequence of crashes.
THEOREM SpentForEver == Spec => [](lost = 0 => SpentStaysSpent)
<1>1. InStep => (lost = 0 => SpentStaysSpent)
  BY DEF InStep, Kept, RefreshKept, SpentStaysSpent, KnownSpent
<1> QED BY <1>1, MemoryAndDiskInStep, PTL

\* A family that a caller was told is closed has no refresh token, and one it
\* was told is gone no bearer, in memory or on disk.
THEOREM ClosedForEver == Spec => [](lost = 0 => ClosedStaysClosed)
<1>1. InStep => (lost = 0 => ClosedStaysClosed)
  BY DEF InStep, Kept, OauthKept, RefreshKept, ClosedStaysClosed, KnownClosed, KnownEnded
<1> QED BY <1>1, MemoryAndDiskInStep, PTL

\* A bearer whose revocation was acknowledged is on no table, and memory
\* forgets it within REVOKE_GRACE_SECONDS.
THEOREM RevokedForEver == Spec => [](lost = 0 => RevokedStaysRevoked)
<1>1. InStep => (lost = 0 => RevokedStaysRevoked)
  BY DEF InStep, Kept, NamedKept, OauthKept, RevokedStaysRevoked, KnownRevoked
<1> QED BY <1>1, MemoryAndDiskInStep, PTL

\* When no method holds the lock, a restart would hand out exactly what the
\* running store hands out, session bearers and revoked ones apart.
THEOREM RestartLosesNothing == Spec => [](lost = 0 => RestartKeepsTokens)
<1>1. ASSUME InStep, lost = 0 PROVE RestartKeepsTokens
  <2> SUFFICES ASSUME Idle
               PROVE  /\ Loaded(namedRows) = {t \in Loaded(tokens) : t.named /\ t.id \notin told.revoked}
                      /\ Loaded(oauthRows) = {t \in Loaded(oauth) : t.id \notin told.revoked}
                      /\ Loaded(refreshRows) = {Row(rt) : rt \in Loaded(refresh)}
    BY DEF RestartKeepsTokens
  <2>1. Kept /\ writes = <<>> /\ KnownRevoked = told.revoked
    BY <1>1 DEF InStep, Idle, KnownRevoked, Nothing, Tell
  <2>2. /\ namedRows = {t \in tokens : t.named /\ t.id \notin told.revoked}
        /\ oauthRows = {t \in oauth : t.id \notin told.revoked}
        /\ refreshRows = {Row(rt) : rt \in refresh}
    BY <2>1, InStepNow
  <2>3. \A rt \in refresh : Row(rt).expires_at = rt.expires_at
    BY RowFields
  <2> QED BY <2>2, <2>3 DEF Loaded
<1> QED BY <1>1, MemoryAndDiskInStep, PTL

-----------------------------------------------------------------------------
(* The store implements the rotation chain.                                *)

Stored(f)  == {rt.id : rt \in Unused(OfFamily(refreshRows, f))}
Waiting(f) == {rt.id : rt \in Unused(OfFamily(Coming("refresh"), f))}

\* No exchangeable row is queued.
NoKeyComing == \A i \in Pending("refresh") : \A u \in writes[i].rows : u.used

\* A statement that adds an exchangeable row does nothing else, and the row is
\* younger than any other, on disk or in the queue.
ChainKept ==
  \A i \in Pending("refresh") : \A u \in writes[i].rows : ~u.used =>
    /\ writes[i].ids = {u.id} /\ writes[i].families = {} /\ writes[i].clients = {}
    /\ \A t \in refreshRows : t.id < u.id
    /\ \A j \in Pending("refresh") : j # i => \A t \in writes[j].rows : t.id < u.id

LEMMA KeysAre ==
  \A f : /\ Keys(f) = IF Stored(f) # {} THEN Stored(f) ELSE Waiting(f)
         /\ Keys(f)' = IF Stored(f)' # {} THEN Stored(f)' ELSE Waiting(f)'
BY DEF Keys, Stored, Waiting, Coming, Pending

\* At most one token extends a family.
LEMMA OneKey ==
  ASSUME IInv, Kept, NEW f
  PROVE  /\ Stored(f) \subseteq Id /\ Waiting(f) \subseteq Id
         /\ \A x, y \in Stored(f) : x = y
         /\ \A x, y \in Waiting(f) : x = y
         /\ \A x \in Waiting(f) : x <= minted
<1>1. \A t \in refreshRows : t.id \in Id
  BY TypesOf DEF RefreshToken
<1>2. \A t \in Coming("refresh") : \E rt \in refresh : t = Row(rt)
  BY DEF Kept, RefreshKept
<1>3. \A rt \in refresh : /\ Row(rt).id = rt.id /\ Row(rt).family_id = rt.family_id
                          /\ Row(rt).used = rt.used /\ rt.id \in Id /\ rt.id <= minted
  BY RowFields, TypesOf DEF RefreshToken, Kept, RefreshKept
<1>4. Stored(f) \subseteq Id /\ \A x, y \in Stored(f) : x = y
  BY <1>1 DEF Stored, Unused, OfFamily, Kept, RefreshKept, OneUnused
<1>5. \A a, b \in Coming("refresh") : ~a.used /\ ~b.used /\ a.family_id = b.family_id => a.id = b.id
  BY <1>2, <1>3 DEF Kept, RefreshKept, OneUnused
<1>6. \A a \in Coming("refresh") : a.id \in Id /\ a.id <= minted
  BY <1>2, <1>3
<1>7. Waiting(f) \subseteq Id /\ (\A x, y \in Waiting(f) : x = y) /\ \A x \in Waiting(f) : x <= minted
  BY <1>5, <1>6 DEF Waiting, Unused, OfFamily
<1> QED BY <1>4, <1>7

\* Rows only go, and none that could be exchanged is queued: each family keeps
\* its key or closes.
LEMMA KeysOnlyGo ==
  ASSUME IInv, Kept, NEW f, refreshRows' \subseteq refreshRows, Waiting(f)' = {}
  PROVE  Keys(f)' = Keys(f) \/ Keys(f)' = {}
<1>1. Stored(f)' \subseteq Stored(f)
  BY DEF Stored, Unused, OfFamily
<1>2. Keys(f)' = Stored(f)'
  BY KeysAre
<1>3. CASE Stored(f) = {}
  BY <1>1, <1>2, <1>3
<1>4. CASE Stored(f) # {}
  BY <1>1, <1>2, <1>4, OneKey, KeysAre
<1> QED BY <1>3, <1>4

\* Most methods queue no exchangeable row.
LEMMA OtherMethods ==
  ASSUME IInv, Kept,
         \/ \E c \in Client : issue(c) \/ issue_named(c) \/ issue_oauth(c)
         \/ list_named
         \/ \E rt \in refresh : refresh_reused(rt) \/ refresh_ended(rt) \/ refresh_idled(rt)
         \/ \E c \in Client : revoke_client(c)
         \/ \E known \in SUBSET Client : prune_unknown_clients(known)
         \/ \E t \in tokens : validate(t) \/ revoke(t)
         \/ \E t \in oauth : validate_oauth(t) \/ revoke_oauth(t)
         \/ Return \/ Restart
  PROVE  /\ NoKeyComing' /\ refreshRows' \subseteq refreshRows
         /\ minted' \in {minted, minted + 1}
<1>1. ASSUME writes' = <<>> PROVE NoKeyComing'
  BY <1>1 DEF NoKeyComing, Pending
<1>2. ASSUME NEW w, writes' = <<w>>, w.table # "refresh" PROVE NoKeyComing'
  BY <1>2 DEF NoKeyComing, Pending
<1>3. ASSUME \A i \in DOMAIN writes' : writes'[i].rows = {} PROVE NoKeyComing'
  BY <1>3 DEF NoKeyComing, Pending
<1>4. ASSUME NEW T, NEW O, CleanedUp(T, O, refresh) PROVE refreshRows' \subseteq refreshRows
  BY <1>4 DEF CleanedUp, WithoutIds
<1>5. ASSUME NEW c \in Client, issue(c) \/ issue_named(c) \/ issue_oauth(c)
      PROVE  NoKeyComing' /\ refreshRows' \subseteq refreshRows /\ minted' = minted + 1
  <2>1. CASE issue(c)
    BY <1>1, <1>4, <2>1 DEF issue, Idle
  <2>2. CASE issue_named(c)
    <3>1. PICK at : writes' = <<persist(at)>> /\ minted' = minted + 1 /\ refreshRows' \subseteq refreshRows
      BY <1>4, <2>2 DEF issue_named
    <3>2. PICK w : w = persist(at)
      OBVIOUS
    <3>3. w.table = "named" /\ writes' = <<w>>
      BY <3>1, <3>2, InsertFields
    <3> QED BY <1>2, <3>1, <3>3
  <2>3. CASE issue_oauth(c)
    <3>1. PICK at : writes' = <<persist_oauth(at)>> /\ minted' = minted + 1 /\ refreshRows' \subseteq refreshRows
      BY <1>4, <2>3 DEF issue_oauth
    <3>2. PICK w : w = persist_oauth(at)
      OBVIOUS
    <3>3. w.table = "oauth" /\ writes' = <<w>>
      BY <3>1, <3>2, InsertFields
    <3> QED BY <1>2, <3>1, <3>3
  <2> QED BY <1>5, <2>1, <2>2, <2>3
<1>6. CASE list_named
  BY <1>1, <1>4, <1>6 DEF list_named, Idle
<1>7. ASSUME NEW rt \in refresh, refresh_reused(rt) \/ refresh_ended(rt) \/ refresh_idled(rt)
      PROVE  NoKeyComing' /\ refreshRows' \subseteq refreshRows /\ minted' = minted
  <2>1. CASE refresh_reused(rt) \/ refresh_ended(rt)
    <3>1. \A i \in DOMAIN writes' : writes'[i].rows = {}
      BY <2>1 DEF refresh_reused, refresh_ended, revoke_family, FamilyDeletes, DeleteFamily, Delete
    <3> QED BY <1>3, <2>1, <3>1 DEF refresh_reused, refresh_ended, revoke_family, disk
  <2>2. CASE refresh_idled(rt)
    BY <1>1, <2>2 DEF refresh_idled, Idle, WithoutIds
  <2> QED BY <1>7, <2>1, <2>2
<1>8. CASE \/ \E c \in Client : revoke_client(c)
           \/ \E known \in SUBSET Client : prune_unknown_clients(known)
  <2>1. (\E cs : revoke_clients(cs)) /\ minted' = minted
    BY <1>8 DEF revoke_client, prune_unknown_clients
  <2>2. \A i \in DOMAIN writes' : writes'[i].rows = {}
    BY <2>1 DEF revoke_clients, DeleteClient, Delete
  <2>3. refreshRows' = refreshRows
    BY <2>1 DEF revoke_clients, disk
  <2> QED BY <1>3, <2>1, <2>2, <2>3
<1>9. CASE \/ \E t \in tokens : validate(t) \/ revoke(t)
           \/ \E t \in oauth : validate_oauth(t) \/ revoke_oauth(t)
  <2>1. ASSUME NEW t, validate(t) \/ validate_oauth(t)
        PROVE  writes' = <<>> /\ refreshRows' = refreshRows /\ minted' = minted
    BY <2>1 DEF validate, validate_oauth, Idle
  <2>2. ASSUME NEW t, revoke(t)
        PROVE  /\ \A i \in DOMAIN writes' : writes'[i].rows = {}
               /\ refreshRows' = refreshRows /\ minted' = minted
    BY <2>2 DEF revoke, unpersist, Delete, disk
  <2>3. ASSUME NEW t, revoke_oauth(t)
        PROVE  /\ \A i \in DOMAIN writes' : writes'[i].rows = {}
               /\ refreshRows' = refreshRows /\ minted' = minted
    BY <2>3 DEF revoke_oauth, DeleteOauth, DeleteFamily, Delete, disk
  <2> QED BY <1>1, <1>3, <1>9, <2>1, <2>2, <2>3
<1>10. CASE Return
  BY <1>1, <1>10 DEF Return, disk
<1>11. CASE Restart
  <2>1. writes' = <<>> /\ minted' = minted /\ refreshRows' = Loaded(refreshRows)
    BY <1>11, RowsBounded DEF Restart
  <2> QED BY <1>1, <2>1 DEF Loaded
<1> QED BY <1>5, <1>6, <1>7, <1>8, <1>9, <1>10, <1>11

LEMMA NothingWaits ==
  ASSUME NoKeyComing'
  PROVE  \A f : Waiting(f)' = {}
BY DEF NoKeyComing, Waiting, Unused, OfFamily, Coming

\* The pair that opens a family.
LEMMA SignInChain ==
  ASSUME IInv, IInv', Kept, NEW c \in Client, issue_oauth_refresh(c)
  PROVE  /\ ChainKept' /\ minted' = minted + 1
         /\ \A f \in Id : \/ Keys(f)' = Keys(f) \/ Keys(f)' = {}
                          \/ f = minted + 1 /\ Keys(f)' = {f}
<1>1. PICK f : f = minted + 1
  OBVIOUS
<1>2. PICK at, rt : /\ at = Bearer(c, f, now + SESSION_LIFETIME)
                    /\ rt = Renewal(c, f, now + SESSION_LIFETIME)
  OBVIOUS
<1>3. PICK w, v : w = persist_oauth(at) /\ v = persist_refresh(rt)
  OBVIOUS
<1>4. writes' = <<w, v>> /\ minted' = minted + 1 /\ refreshRows' \subseteq refreshRows
  BY <1>1, <1>2, <1>3 DEF issue_oauth_refresh, CleanedUp, WithoutIds
<1>5. rt.id = f /\ rt.family_id = f
  BY <1>1, <1>2 DEF Renewal
<1>6. Row(rt).id = f /\ Row(rt).family_id = f /\ ~Row(rt).used
  <2>1. ~rt.used
    BY <1>2, Zenon DEF Renewal
  <2> QED BY <1>5, <2>1, RowFields
<1>7. /\ w.table = "oauth" /\ v.table = "refresh" /\ v.ids = {f} /\ v.rows = {Row(rt)}
      /\ v.families = {} /\ v.clients = {}
  BY <1>3, <1>5, InsertFields
<1>8. Pending("refresh")' = {2} /\ writes'[2] = v
  BY <1>4, <1>7 DEF Pending
<1>9. \A t \in refreshRows : t.id < f /\ t.family_id # f
  BY <1>1, TypesOf, FreshFamily DEF Kept, RefreshKept, RefreshToken, Id, FamilyTokens
<1>10. ChainKept'
  BY <1>4, <1>6, <1>7, <1>8, <1>9 DEF ChainKept
<1>11. Coming("refresh")' = {Row(rt)}
  BY <1>7, <1>8 DEF Coming
<1>12. \A g : Waiting(g)' = IF g = f THEN {f} ELSE {}
  BY <1>6, <1>11 DEF Waiting, Unused, OfFamily
<1>13. Stored(f)' = {}
  BY <1>4, <1>9 DEF Stored, Unused, OfFamily
<1>14. Keys(f)' = {f}
  BY <1>12, <1>13, KeysAre
<1>15. ASSUME NEW g \in Id, g # f PROVE Keys(g)' = Keys(g) \/ Keys(g)' = {}
  BY <1>4, <1>12, <1>15, KeysOnlyGo
<1> QED BY <1>1, <1>4, <1>10, <1>14, <1>15

\* A rotation leaves the old key in force until the disk forgets it.
LEMMA RotateChain ==
  ASSUME IInv, IInv', Kept, NEW rt \in refresh, refresh_rotated(rt)
  PROVE  /\ ChainKept' /\ minted' = minted + 1
         /\ \A f \in Id : Keys(f)' = Keys(f) \/ Keys(f)' = {}
<1> USE TimeAssumption, BoundAssumption
<1>1. PICK f, c, end : f = rt.family_id /\ c = rt.client_id /\ end = rt.family_expires_at
  OBVIOUS
<1>2. PICK at, new : at = Bearer(c, f, end) /\ new = Renewal(c, f, end)
  OBVIOUS
<1>3. PICK used : used = Rotated(rt, TRUE, now, new.id, end)
  OBVIOUS
<1>4. PICK R : R = (refresh \ {rt}) \cup {used, new}
  OBVIOUS
<1>5. PICK w1, w2, w3 : w1 = persist_refresh(used) /\ w2 = persist_oauth(at) /\ w3 = persist_refresh(new)
  OBVIOUS
<1>6. /\ writes = <<>> /\ writes' = <<w1, w2, w3>> /\ minted' = minted + 1
      /\ refreshRows' = WithoutIds(refreshRows, ExpiredIds(R))
      /\ ~IsReuse(rt) /\ ~IsExpired(rt)
  BY <1>1, <1>2, <1>3, <1>4, <1>5 DEF refresh_rotated, Idle, RotationWrites, CleanedUp
<1>7. /\ minted \in Nat /\ now \in Nat /\ end \in Nat /\ rt \in RefreshToken
      /\ rt.id \in Nat /\ rt.id <= minted
  <2>1. rt \in RefreshToken /\ rt.id <= minted
    BY TypesOf DEF Kept, RefreshKept
  <2>2. minted \in Nat /\ now \in Nat
    BY TypesOf
  <2> QED BY <1>1, <2>1, <2>2 DEF RefreshToken, Time, Id
<1>8. now < end /\ ~rt.used
  <2>1. now < end
    BY <1>1, <1>6, <1>7 DEF IsExpired
  <2> QED BY <1>1, <1>6, <2>1, Zenon DEF IsReuse
<1>9. new.id = minted + 1 /\ new.family_id = f
  BY <1>2 DEF Renewal
<1>10. used.id = rt.id /\ used.used /\ now <= used.expires_at
  BY <1>1, <1>3, <1>7, <1>8 DEF Rotated
<1>11. Row(new).id = minted + 1 /\ Row(new).family_id = f /\ Row(used).id = rt.id /\ Row(used).used
  BY <1>9, <1>10, RowFields
<1>12. /\ w1.table = "refresh" /\ w1.rows = {Row(used)} /\ w2.table = "oauth"
       /\ w3.table = "refresh" /\ w3.ids = {minted + 1} /\ w3.rows = {Row(new)}
       /\ w3.families = {} /\ w3.clients = {}
  BY <1>5, <1>9, InsertFields
<1>13. Pending("refresh")' = {1, 3} /\ writes'[1] = w1 /\ writes'[3] = w3
  BY <1>6, <1>12 DEF Pending
<1>14. refreshRows' \subseteq refreshRows
  BY <1>6 DEF WithoutIds
<1>15. \A t \in refreshRows : t.id < minted + 1
  BY <1>7, TypesOf DEF Kept, RefreshKept, RefreshToken, Id
<1>16. ChainKept'
  BY <1>7, <1>11, <1>12, <1>13, <1>14, <1>15 DEF ChainKept
<1>17. Coming("refresh")' = {Row(used), Row(new)}
  BY <1>12, <1>13 DEF Coming
<1>18. \A g : g # f => Waiting(g)' = {}
  BY <1>11, <1>17 DEF Waiting, Unused, OfFamily
<1>19. rt.id \in Stored(f)'
  <2>1. Row(rt) \in refreshRows
    BY <1>6, InStepNow
  <2>2. Row(rt).id = rt.id /\ Row(rt).family_id = f /\ ~Row(rt).used
    BY <1>1, <1>8, RowFields
  <2>3. rt.id \notin ExpiredIds(R)
    <3>1. \A r \in refresh \ {rt} : r.id # rt.id
      BY DEF Kept, RefreshKept, SameId
    <3>2. \A r \in R : r.id = rt.id => now <= r.expires_at
      BY <1>4, <1>7, <1>9, <1>10, <3>1
    <3> QED BY <3>2 DEF ExpiredIds, Live
  <2>4. Row(rt) \in refreshRows'
    BY <1>6, <2>1, <2>2, <2>3 DEF WithoutIds
  <2> QED BY <2>2, <2>4 DEF Stored, Unused, OfFamily
<1>20. Keys(f)' = Keys(f)
  <2>1. Stored(f)' \subseteq Stored(f)
    BY <1>14 DEF Stored, Unused, OfFamily
  <2>2. Stored(f)' = Stored(f)
    BY <1>19, <2>1, OneKey
  <2> QED BY <1>19, <2>2, KeysAre
<1>21. ASSUME NEW g \in Id, g # f PROVE Keys(g)' = Keys(g) \/ Keys(g)' = {}
  BY <1>14, <1>18, <1>21, KeysOnlyGo
<1> QED BY <1>6, <1>16, <1>20, <1>21

\* A commit: either nothing that counts changes, or the old key is marked used
\* and the one in the queue, which is younger, takes over.
LEMMA CommitChain ==
  ASSUME IInv, Kept, KeyedWrites, ChainKept, db_write
  PROVE  /\ ChainKept' /\ minted' = minted
         /\ \A f \in Id : \/ Keys(f)' = Keys(f) \/ Keys(f)' = {}
                          \/ \E old, new \in Id : /\ Keys(f) = {old} /\ Keys(f)' = {new}
                                                  /\ old < new /\ new <= minted
<1>1. PICK s : s = Head(writes)
  OBVIOUS
<1>2. /\ writes # <<>> /\ writes' = Tail(writes) /\ writes \in Seq(Statement)
      /\ UNCHANGED <<refresh, minted>>
      /\ refreshRows' = IF s.table = "refresh" THEN RefreshAfter(s) ELSE refreshRows
  BY <1>1, TypesOf DEF db_write, memory
<1>3. /\ Coming("refresh") = (IF s.table = "refresh" THEN s.rows ELSE {}) \cup Coming("refresh")'
      /\ \A t : Doomed("refresh", t) <=> (s.table = "refresh" /\ Hits(s, t)) \/ Doomed("refresh", t)'
  BY <1>1, <1>2, QueueEffect
<1>4. /\ 1 \in DOMAIN writes /\ writes[1] = s
      /\ s.table = "refresh" => 1 \in Pending("refresh")
      /\ \A i \in Pending("refresh")' : /\ i \in Nat \ {0} /\ i + 1 \in Pending("refresh")
                                        /\ writes'[i] = writes[i + 1]
  BY <1>1, <1>2, QueueStep
<1>5. s.table = "refresh" => refreshRows' = {t \in refreshRows : ~Hits(s, t)} \cup s.rows
  BY <1>2 DEF RefreshAfter, WithoutIds, Hits
<1>6. ChainKept'
  <2> SUFFICES ASSUME NEW i \in Pending("refresh")', NEW u \in writes'[i].rows, ~u.used
               PROVE  /\ writes'[i].ids = {u.id} /\ writes'[i].families = {} /\ writes'[i].clients = {}
                      /\ \A t \in refreshRows' : t.id < u.id
                      /\ \A j \in Pending("refresh")' : j # i => \A t \in writes'[j].rows : t.id < u.id
    BY DEF ChainKept
  <2>1. PICK k : k = i + 1
    OBVIOUS
  <2>2. k \in Pending("refresh") /\ writes'[i] = writes[k] /\ k # 1 /\ i \in Nat
    BY <1>4, <2>1
  <2>3. /\ writes'[i].ids = {u.id} /\ writes'[i].families = {} /\ writes'[i].clients = {}
        /\ \A t \in refreshRows : t.id < u.id
        /\ \A j \in Pending("refresh") : j # k => \A t \in writes[j].rows : t.id < u.id
    BY <2>2 DEF ChainKept
  <2>4. \A t \in refreshRows' : t.id < u.id
    BY <1>2, <1>4, <1>5, <2>2, <2>3
  <2>5. ASSUME NEW j \in Pending("refresh")', j # i, NEW t \in writes'[j].rows PROVE t.id < u.id
    <3>1. PICK m : m = j + 1
      OBVIOUS
    <3>2. m \in Pending("refresh") /\ writes'[j] = writes[m] /\ m # k
      BY <1>4, <2>1, <2>2, <2>5, <3>1
    <3> QED BY <2>3, <2>5, <3>2
  <2> QED BY <2>3, <2>4, <2>5
<1>7. CASE s.table # "refresh"
  <2>1. refreshRows' = refreshRows /\ Coming("refresh")' = Coming("refresh")
    BY <1>2, <1>3, <1>7
  <2>2. \A f : Stored(f)' = Stored(f) /\ Waiting(f)' = Waiting(f)
    BY <2>1 DEF Stored, Waiting, Unused, OfFamily
  <2>3. \A f : Keys(f)' = Keys(f)
    BY <2>2, KeysAre
  <2> QED BY <1>2, <1>6, <2>3
<1>8. CASE s.table = "refresh" /\ \A t \in s.rows : t.used
  <2> SUFFICES ASSUME NEW f \in Id
               PROVE  \/ Keys(f)' = Keys(f) \/ Keys(f)' = {}
                      \/ \E old, new \in Id : /\ Keys(f) = {old} /\ Keys(f)' = {new}
                                              /\ old < new /\ new <= minted
    BY <1>2, <1>6
  <2>1. Stored(f)' \subseteq Stored(f)
    BY <1>5, <1>8 DEF Stored, Unused, OfFamily
  <2>2. Waiting(f)' = Waiting(f)
    BY <1>3, <1>8 DEF Waiting, Unused, OfFamily
  <2>3. CASE Stored(f)' = Stored(f)
    BY <2>2, <2>3, KeysAre
  <2>4. CASE Stored(f)' # Stored(f)
    <3>1. PICK old \in Id : Stored(f) = {old}
      BY <2>1, <2>4, OneKey
    <3>2. Stored(f)' = {} /\ Keys(f) = {old} /\ Keys(f)' = Waiting(f)
      BY <2>1, <2>2, <2>4, <3>1, KeysAre
    <3>3. CASE Waiting(f) = {}
      BY <3>2, <3>3
    <3>4. CASE Waiting(f) # {}
      <4>1. PICK u \in Coming("refresh") : ~u.used /\ u.family_id = f
        BY <3>4 DEF Waiting, Unused, OfFamily
      <4>2. Waiting(f) = {u.id} /\ u.id \in Id /\ u.id <= minted
        <5>1. u.id \in Waiting(f)
          BY <4>1 DEF Waiting, Unused, OfFamily
        <5> QED BY <5>1, OneKey
      <4>3. PICK i \in Pending("refresh") : u \in writes[i].rows
        BY <4>1 DEF Coming
      <4>4. PICK t \in refreshRows : t.id = old
        BY <3>1 DEF Stored, Unused, OfFamily
      <4>5. old < u.id
        BY <4>1, <4>3, <4>4 DEF ChainKept
      <4> QED BY <3>2, <4>2, <4>5
    <3> QED BY <3>3, <3>4
  <2> QED BY <2>3, <2>4
<1>9. CASE s.table = "refresh" /\ ~\A t \in s.rows : t.used
  <2>1. PICK u \in s.rows : ~u.used
    BY <1>9
  <2>2. /\ s.ids = {u.id} /\ s.families = {} /\ s.clients = {}
        /\ \A t \in refreshRows : t.id < u.id
    BY <1>4, <1>9, <2>1 DEF ChainKept
  <2>3. \A j \in Pending("refresh") : j <= 1
    BY <1>4, <1>9, <2>1 DEF Kept, RefreshKept
  <2>4. Pending("refresh")' = {}
    BY <1>4, <2>3
  <2>5. Coming("refresh")' = {} /\ \A t : ~Doomed("refresh", t)'
    BY <2>4 DEF Coming, Doomed
  <2>6. Coming("refresh") = s.rows /\ \A t : Doomed("refresh", t) <=> Hits(s, t)
    BY <1>3, <1>9, <2>5
  <2>7. s.rows = {u}
    <3>1. \A t \in s.rows : t.id = u.id
      BY <1>4, <2>2 DEF KeyedWrites
    <3>2. \A t \in s.rows : \E rt \in refresh : t = Row(rt) /\ t.id = rt.id
      BY <2>6, RowFields DEF Kept, RefreshKept
    <3> QED BY <2>1, <3>1, <3>2 DEF Kept, RefreshKept, SameId
  <2>8. u.id \in Id /\ \A t \in refreshRows : t.id # u.id /\ ~Doomed("refresh", t)
    <3>1. u.id \in Id
      BY <2>1, <2>6, OneKey DEF Waiting, Unused, OfFamily
    <3>2. \A t \in refreshRows : t.id # u.id
      BY <2>2, <3>1, TypesOf DEF RefreshToken, Id
    <3>3. \A t \in refreshRows : ~Hits(s, t)
      BY <2>2, <3>2 DEF Hits
    <3> QED BY <2>6, <3>1, <3>2, <3>3
  <2>9. \A t \in refreshRows : t.family_id = u.family_id => t.used
    <3> SUFFICES ASSUME NEW t \in refreshRows, t.family_id = u.family_id, ~t.used PROVE FALSE
      OBVIOUS
    <3>1. t \in {Row(rt) : rt \in refresh} /\ u \in {Row(rt) : rt \in refresh}
      BY <2>6, <2>7, <2>8 DEF Kept, RefreshKept
    <3>2. PICK a \in refresh, b \in refresh : t = Row(a) /\ u = Row(b)
      BY <3>1
    <3>3. a.id = b.id
      BY <2>1, <3>2, RowFields DEF Kept, RefreshKept, OneUnused
    <3> QED BY <2>8, <3>2, <3>3, RowFields
  <2>10. refreshRows' = refreshRows \cup {u}
    BY <1>5, <1>9, <2>6, <2>7, <2>8
  <2>11. ASSUME NEW f \in Id PROVE Keys(f)' = Keys(f)
    <3>1. CASE f = u.family_id
      <4>1. Stored(f) = {} /\ Waiting(f) = {u.id}
        BY <2>1, <2>6, <2>7, <2>9, <3>1 DEF Stored, Waiting, Unused, OfFamily
      <4>2. Stored(f)' = {u.id}
        BY <2>1, <2>9, <2>10, <3>1 DEF Stored, Unused, OfFamily
      <4> QED BY <4>1, <4>2, KeysAre
    <3>2. CASE f # u.family_id
      <4>1. Stored(f)' = Stored(f)
        BY <2>10, <3>2 DEF Stored, Unused, OfFamily
      <4>2. Waiting(f) = {} /\ Waiting(f)' = {}
        BY <2>5, <2>6, <2>7, <3>2 DEF Waiting, Unused, OfFamily
      <4> QED BY <4>1, <4>2, KeysAre
    <3> QED BY <3>1, <3>2
  <2> QED BY <1>2, <1>6, <2>11
<1> QED BY <1>7, <1>8, <1>9

\* Every step that loses no statement is a step of the chain, or none.
LEMMA ChainStep ==
  ASSUME IInv, IInv', Kept, KeyedWrites, ChainKept, [Next]_vars, ~db_write_fails
  PROVE  /\ ChainKept'
         /\ minted' \in {minted, minted + 1}
         /\ \A f \in Id : \/ Keys(f)' = Keys(f) \/ Keys(f)' = {}
                          \/ minted' = f /\ minted < f /\ Keys(f)' = {f}
                          \/ \E old, new \in Id : /\ Keys(f) = {old} /\ Keys(f)' = {new}
                                                  /\ old < new /\ new <= minted
<1>1. minted \in Nat
  BY TypesOf
<1>2. ASSUME NEW c \in Client, issue_oauth_refresh(c)
      PROVE  /\ ChainKept' /\ minted' = minted + 1
             /\ \A f \in Id : \/ Keys(f)' = Keys(f) \/ Keys(f)' = {}
                              \/ minted' = f /\ minted < f /\ Keys(f)' = {f}
  BY <1>1, <1>2, SignInChain
<1>3. ASSUME NEW rt \in refresh, refresh_rotated(rt)
      PROVE  /\ ChainKept' /\ minted' = minted + 1
             /\ \A f \in Id : Keys(f)' = Keys(f) \/ Keys(f)' = {}
  BY <1>3, RotateChain
<1>4. CASE db_write
  BY <1>4, CommitChain
<1>5. CASE UNCHANGED <<writes, refreshRows, minted>>
  <2>1. Pending("refresh")' = Pending("refresh") /\ Coming("refresh")' = Coming("refresh")
    BY <1>5 DEF Pending, Coming
  <2>2. \A f : Keys(f)' = Keys(f)
    BY <1>5 DEF Keys
  <2>3. ChainKept'
    BY <1>5, <2>1 DEF ChainKept
  <2> QED BY <1>5, <2>2, <2>3
<1>6. ASSUME NoKeyComing', refreshRows' \subseteq refreshRows
      PROVE  ChainKept' /\ \A f \in Id : Keys(f)' = Keys(f) \/ Keys(f)' = {}
  <2>1. ChainKept'
    BY <1>6 DEF ChainKept, NoKeyComing
  <2>2. \A f \in Id : Keys(f)' = Keys(f) \/ Keys(f)' = {}
    BY <1>6, NothingWaits, KeysOnlyGo
  <2> QED BY <2>1, <2>2
<1>7. CASE \/ \E c \in Client : issue(c) \/ issue_named(c) \/ issue_oauth(c)
           \/ list_named
           \/ \E rt \in refresh : refresh_reused(rt) \/ refresh_ended(rt) \/ refresh_idled(rt)
           \/ \E c \in Client : revoke_client(c)
           \/ \E known \in SUBSET Client : prune_unknown_clients(known)
           \/ \E t \in tokens : validate(t) \/ revoke(t)
           \/ \E t \in oauth : validate_oauth(t) \/ revoke_oauth(t)
           \/ Return \/ Restart
  <2>1. NoKeyComing' /\ refreshRows' \subseteq refreshRows /\ minted' \in {minted, minted + 1}
    BY <1>7, OtherMethods
  <2> QED BY <1>6, <2>1
<1>8. CASE Tick
  BY <1>5, <1>8 DEF Tick, disk
<1>9. CASE UNCHANGED vars
  BY <1>5, <1>9 DEF vars
<1> QED BY <1>2, <1>3, <1>4, <1>7, <1>8, <1>9 DEF Next, Refresh

\* When no SQL statement can fail, the store, crashes between any two statements
\* included, implements the rotation chain of SignIn: a sign-in opens once, its
\* one key only ever passes to a younger token, and closing it is final.
THEOREM StoreImplementsChain ==
  ASSUME MaxLostWrites = 0
  PROVE  Spec => ImplementsSignIn
<1>1. Init => Chain!Init /\ ChainKept
  <2> SUFFICES ASSUME Init PROVE Chain!Init /\ ChainKept
    OBVIOUS
  <2>1. \A f : Keys(f) = {}
    BY DEF Init, Keys, Unused, OfFamily
  <2>2. ChainKept
    BY DEF Init, ChainKept, Pending
  <2> QED BY <2>1, <2>2 DEF Init, Chain!Init, Chain!Token, Id
<1>2. ASSUME IInv, IInv', KeyedWrites, InStep, ChainKept, [Next]_vars
      PROVE  ChainKept' /\ [Chain!Next]_<<minted, [f \in Id |-> Keys(f)]>>
  <2>1. lost = 0 /\ lost' = 0
    BY <1>2 DEF IInv, ScalarsGood
  <2>2. Kept /\ ~db_write_fails
    BY <1>2, <2>1, LostStays DEF InStep
  <2>3. /\ ChainKept'
        /\ minted' \in {minted, minted + 1}
        /\ \A f \in Id : \/ Keys(f)' = Keys(f) \/ Keys(f)' = {}
                         \/ minted' = f /\ minted < f /\ Keys(f)' = {f}
                         \/ \E old, new \in Id : /\ Keys(f) = {old} /\ Keys(f)' = {new}
                                                 /\ old < new /\ new <= minted
    BY <1>2, <2>2, ChainStep
  <2>4. Chain!Next
    BY <2>3 DEF Chain!Next, Chain!Token, Chain!Stays, Chain!Closes, Chain!Opens, Chain!Extends, Id
  <2> QED BY <2>3, <2>4
<1>3. Spec => []KeyedWrites
  <2>1. Init => KeyedWrites
    BY DEF Init, KeyedWrites
  <2>2. IInv /\ KeyedWrites /\ [Next]_vars => KeyedWrites'
    BY KeyedStep
  <2> QED BY <2>1, <2>2, Inductive, PTL DEF Spec
<1> QED BY <1>1, <1>2, <1>3, Inductive, MemoryAndDiskInStep, PTL DEF Spec, ImplementsSignIn, Chain!Spec
=============================================================================
