CONSTANTS
  TxnId = {1, 2, 3}
  ResourceId = {1, 2}
  NumShards = 2
  shard_index <- MCShardIndex
  Threads = {th1}
  RequestModes = {"S", "X"}
  PointIds = {1, 2}
  SpaceIds = {}
  RequestRanges = {}
  MaxRangeLocks = 0
  Key = {}
  Wants <- MCReadersWriter
  Pollers = {3}
SPECIFICATION Spec
INVARIANTS
  ClientTypeOK
  OthersGenuine
  OnlyReleaseUndoes
  SilenceJustified
  EveryDeadlockTold
  RegistryExact
