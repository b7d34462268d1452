SPECIFICATION WorkerSpec
CONSTANTS
  Addr <- MCOne
  Net <- MCNet
  Members <- MCMembers
  Base <- MCBase
  HostNet <- MCHostNet
  Canon <- MCCanon
  SubnetOf <- MCSubnetOf
  Configs <- MCConfigs
  MaxTrackedIps = 2
  MaxTrackedSubnets = 1
  MaxReputation = 2
  MaxActiveBans = 2
  MaxScore = 2
  MaxOffense = 1
  Weights = {2}
  ManualTargets <- MCManualTargets
  ManualDurations = {1}
  ExceptionSets <- MCExceptionOne
  FaultyBackend = {TRUE}
  FaultyDisk = TRUE
  MaxTime = 1
PROPERTIES
  ExpiredBansEnd
  StrayEntriesEnd
  BansReachFile
CHECK_DEADLOCK FALSE
