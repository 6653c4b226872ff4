SPECIFICATION Spec
CONSTANTS
  Client = {c1}
  TOKEN_TTL = 2
  NAMED_TOKEN_TTL = 2
  SESSION_LIFETIME = 3
  REFRESH_TOKEN_TTL = 2
  REFRESH_REUSE_GRACE = 1
  REVOKE_GRACE_SECONDS = 1
  NAMED_TOKEN_CAP = 1
  MaxTime = 4
  MaxMint = 3
  MaxIssue = 1
  MaxLostWrites = 0
INVARIANTS OneUsableRefresh SpentStaysSpent ClosedStaysClosed RevokedStaysRevoked RestartKeepsTokens
PROPERTY ImplementsSignIn
CHECK_DEADLOCK FALSE
