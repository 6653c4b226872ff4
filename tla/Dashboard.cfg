SPECIFICATION DashSpec
CONSTANTS
  Owner = {a, b}
  NoOne = none
  MaxSlug = 2
  MaxDerived = 2
  Key = {k1, k2}
  NoSession = none
  MAX_PASSKEYS_PER_CLIENT = 1
  MaxChallenge = 3
  Slot = {r1, r2}
  NAMED_TOKEN_CAP = 1
  MaxSession = 2
  MaxBearer = 3
  MaxFresh = 5
INVARIANTS LinkHandsOutOnce SignedOutStaysOut PasskeyOpensOwnDoor CapUnlessOverlap BrowserSettles
PROPERTY RevokedGainsNothing
SYMMETRY PanelSymmetry
CHECK_DEADLOCK FALSE
