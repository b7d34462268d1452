SPECIFICATION WorkerSpec
CONSTANTS
  Addr <- MCPair
  Net <- MCNet
  Members <- MCMembers
  Base <- MCBase
  HostNet <- MCHostNet
  Canon <- MCCanon
  SubnetOf <- MCSubnetOf
  Configs <- MCConfigs
  MaxTrackedIps = 1
  MaxTrackedSubnets = 1
  MaxReputation = 1
  MaxActiveBans = 2
  MaxScore = 2
  MaxOffense = 1
  Weights = {2}
  ManualTargets <- MCManualTargets
  ManualDurations = {1}
  ExceptionSets <- MCExceptionSets
  FaultyBackend = {TRUE}
  FaultyDisk = TRUE
  MaxTime = 1
INVARIANTS
  WorkerTypeOK
  BansDurable
  RestartKeepsBans
  

  
CHECK_DEADLOCK FALSE
