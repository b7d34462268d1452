SPECIFICATION WorkerSpec
CONSTANTS
  Addr <- MCPair
  Net <- MCNet
  Members <- MCMembers
  Base <- MCBase
  HostNet <- MCHostNet
  Canon <- MCCanon
  SubnetOf <- MCSubnetOf
  Configs <- MCConfigs
  MaxTrackedIps = 2
  MaxTrackedSubnets = 1
  MaxReputation = 2
  MaxActiveBans = 2
  MaxScore = 2
  MaxOffense = 1
  Weights = {2}
  ManualTargets <- MCManualBoth
  ManualDurations = {1}
  ExceptionSets <- MCExceptionSets
  FaultyBackend = {FALSE}
  FaultyDisk = FALSE
  MaxTime = 1
INVARIANT
  ExceptedNeverBlocked
CHECK_DEADLOCK FALSE
