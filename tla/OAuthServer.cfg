SPECIFICATION OAuthSpec
CONSTANTS
  owner = owner
  derived = derived
  Client = {owner, derived}
  Owner = {owner}
  seed_owner <- MCSeedOwner
  Ip = {i1}
  PER_SOURCE = 1
  PER_CLIENT = 1
  LOCKOUT = 1
  KNOWN_GOOD = 1
  KNOWN_GOOD_CAP = 1
  MaxTime = 3
  MaxGuess = 1
  Request = {r1, r2}
  NoRequest = none
  PENDING_AUTHORIZATION_TTL = 1
  CODE_TTL = 1
  MaxApproval = 2
  MaxBoot = 1
INVARIANTS OneGrantPerApproval GrantMatchesApproval BurnedStaysBurned
SYMMETRY RequestSymmetry
CHECK_DEADLOCK FALSE
