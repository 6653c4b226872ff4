------------------------- MODULE MCTokenStoreFaults -------------------------
(***************************************************************************)
(* The token store opened on a database that an older build left behind,   *)
(* whose refresh rows have no family end and whose tokens live past it,    *)
(* and with an SQL statement that may fail.                                *)
(***************************************************************************)
EXTENDS TokenStore, TLC

CONSTANT owner      \* the client of the old sign-in

OldNow == 1

\* One old sign-in: its first refresh token, rotated out at time 1, the token
\* it was exchanged for, and the bearer minted with it.
OldRefresh ==
  { [id |-> 1, client_id |-> owner, family_id |-> 1, expires_at |-> 6,
     created_at |-> 0, family_expires_at |-> NoEnd, used |-> TRUE,
     used_at |-> 0, replay |-> NoGrant],
    [id |-> 2, client_id |-> owner, family_id |-> 1, expires_at |-> 7,
     created_at |-> 1, family_expires_at |-> NoEnd, used |-> FALSE,
     used_at |-> 0, replay |-> NoGrant] }

OldOauth == {[id |-> 2, client_id |-> owner, family_id |-> 1, expires_at |-> 6]}

\* The first start of this build on that database.
OldInit ==
  /\ now = OldNow
  /\ tokens = {} /\ namedRows = {}
  /\ refresh = Loaded(BoundRefresh(OldRefresh)) /\ refreshRows = refresh
  /\ oauth = Loaded(BoundOauth(OldOauth, BoundRefresh(OldRefresh))) /\ oauthRows = oauth
  /\ writes = <<>> /\ promise = Nothing
  /\ minted = 2 /\ lost = 0
  /\ start = [i \in Id |-> 0]
  /\ told = Nothing

OldSpec == OldInit /\ [][Next]_vars
=============================================================================
