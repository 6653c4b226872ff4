SPECIFICATION Spec
CONSTANTS
  Server = server
  Cli = cli
  Root = {a, b}
  Connector = {d}
  NoOwner = none
  MaxWrites = 5
  MaxStarts = 3
INVARIANT RevokedIsRefused
CHECK_DEADLOCK FALSE
