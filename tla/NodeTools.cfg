SPECIFICATION NodeSpec
CONSTANTS
  Worker = {w1, w2}
  Vmid = {v1, v2}
  RETRY_ATTEMPTS = 2
  MaxToolCall = 1
  MaxExec = 2
  k1 = k1
  k2 = k2
  Hosts <- MCHosts
  SshKnownHosts = FALSE
  SshStrict = "unset"
  VmidAddr <- MCVmidAddr
  FileKeys <- MCFileKeys
  FirstKey = k1
  HostKey = {k1, k2}
  MaxUse = 3
  MaxChange = 1
  MAX_PENDING_LINKS = 1
  MaxTransfer = 2
  MaxIlo = 3
  NodeHost = "pve"
  Loads <- MCLoads
INVARIANTS AppliedOnce CompletedHasOutput PinHolds ConnectionsAccounted VerifiedIsTrue NothingLeftBehind EndpointLeads
SYMMETRY NodeSymmetry
CHECK_DEADLOCK FALSE
