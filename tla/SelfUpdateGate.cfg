SPECIFICATION Spec
CONSTANTS
  Updater = {dashboard, tool}
  Nobody = Nobody
  MaxRev = 4
  Signed = {1, 2, 4}
  Starts = {0, 1, 3, 4}
  Healthy = {0, 3, 4}
  require_signed = FALSE
  MaxDog = 2
  MaxEvent = 0
INVARIANT HardGate
CHECK_DEADLOCK FALSE
