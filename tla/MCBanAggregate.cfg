SPECIFICATION MCSpec
CONSTANTS
  Addr <- MCAddr
  Net <- MCNet
  Members <- MCMembers
  Base <- MCBase
  HostNet <- MCHostNet
  Canon <- MCCanon
  SubnetOf <- MCSubnetOf
  Configs <- MCConfigs
  MaxTrackedIps = 2
  MaxTrackedSubnets = 1
  MaxReputation = 2
  MaxActiveBans = 2
  MaxScore = 2
  MaxOffense = 2
  Weights = {1, 2}
  ManualTargets <- MCManualTargets
  ManualDurations = {1}
  ExceptionSets <- MCExceptionSets
  FaultyBackend = {TRUE, FALSE}
  MaxTime = 2
INVARIANTS
  TypeOK
  BansAgree
  SubnetBansSubsume
  SubnetScoresExact
  WithinCapacity
  IpsetFollowsBans
PROPERTIES
  BansHold
CHECK_DEADLOCK FALSE
