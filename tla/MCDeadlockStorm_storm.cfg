CONSTANTS
  TxnId = {1, 2, 3}
  ResourceId = {1, 2, 3}
  NumShards = 2
  shard_index <- MCShardIndex
  Threads = {1, 2, 3}
  RequestModes = {"X"}
  PointIds = {1, 2, 3}
  SpaceIds = {}
  RequestRanges = {}
  MaxRangeLocks = 0
  Key = {}
  Plans <- MCRing
  Abort = "self"
SPECIFICATION StormSpec
INVARIANTS
  StormTypeOK
  GrantHeld
  NothingLingers
PROPERTIES
  DeadlockDissolved
  CallsReturn
  AttemptsEnd
