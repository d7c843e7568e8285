SPECIFICATION Spec
CONSTANTS
  cfg = cfg
  ctl = ctl
  vcp = vcp
  Nodes <- MCNodes
  Created <- MCCreated
  PoolOf <- MCPoolOf
  Master = cfg
  Mgmt = "admin"
  VipHolders = {ctl, vcp}
  NoOwner = keepalived
  Stage = "core_deployed"
  NoHost = NoHost
  AnyPool = "any"
  Missing = Missing
  Tries = 1
  SkipSync = FALSE
  MaxSessions = 2
  MaxTests = 3
INVARIANTS
  MergeIsExact
  NodesAreReached
  SyncFailsOnlyByServer
CHECK_DEADLOCK FALSE
