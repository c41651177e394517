CONSTANTS
  TxnId = {1, 2}
  ResourceId = {1, 2}
  NumShards = 2
  shard_index <- MCShardIndex
  Threads = {th1}
  RequestModes = {"X"}
  PointIds = {1, 2}
  SpaceIds = {}
  RequestRanges = {}
  MaxRangeLocks = 0
  Key = {}
  Wants <- MCAll
  Pollers = {1, 2}
SPECIFICATION Spec
INVARIANTS
  ReportsGenuine
