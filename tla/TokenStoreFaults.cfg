SPECIFICATION OldSpec
CONSTANTS
  owner = c1
  Client = {c1, c2}
  TOKEN_TTL = 2
  NAMED_TOKEN_TTL = 0
  SESSION_LIFETIME = 3
  REFRESH_TOKEN_TTL = 2
  REFRESH_REUSE_GRACE = 1
  REVOKE_GRACE_SECONDS = 1
  NAMED_TOKEN_CAP = 1
  MaxTime = 4
  MaxMint = 3
  MaxIssue = 3
  MaxLostWrites = 1
INVARIANTS SignInBounded
CHECK_DEADLOCK FALSE
