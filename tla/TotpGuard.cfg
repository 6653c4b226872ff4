SPECIFICATION GuardSpec
CONSTANTS
  owner = owner
  derived = derived
  Client = {owner, derived}
  Owner = {owner}
  seed_owner <- MCSeedOwner
  Ip = {i1, i2}
  PER_SOURCE = 2
  PER_CLIENT = 3
  LOCKOUT = 2
  KNOWN_GOOD = 3
  KNOWN_GOOD_CAP = 1
  MaxTime = 3
  MaxGuess = 4
INVARIANTS CodeSpentOnce GuessBudget NotLockedByOthers
SYMMETRY Addresses
CHECK_DEADLOCK FALSE
