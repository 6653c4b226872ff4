SPECIFICATION Spec
CONSTANTS
  Server = server
  Cli = cli
  Root = {a, b}
  Connector = {d}
  NoOwner = none
  MaxWrites = 5
  MaxStarts = 3
INVARIANTS FileIsLedger CopyIsCurrent RevokedCutOff OwnerPresent
CHECK_DEADLOCK FALSE
