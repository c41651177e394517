CONSTANTS
  TxnId = {1, 2}
  ResourceId = {1, 2}
  NumShards = 2
  shard_index <- MCShardIndex
  Threads = {1, 2}
  RequestModes = {"X"}
  PointIds = {1, 2}
  SpaceIds = {}
  RequestRanges = {}
  MaxRangeLocks = 0
  Key = {}
  Plans <- MCPairs
  Abort = "Youngest"
SPECIFICATION StormSpec
INVARIANTS
  ReportsStand
