CONSTANTS
  TxnId = {t1, t2}
  ResourceId = {1, 2, 3}
  NumShards = 2
  shard_index <- MCShardIndex
  Threads = {th1}
  RequestModes = {"IS", "IX", "S", "SIX", "X"}
  PointIds = {1, 2, 3}
  SpaceIds = {}
  RequestRanges = {}
  MaxRangeLocks = 0
  Key = {}
  Above <- MCThreeLevels
  Rows = {3}
SPECIFICATION HierarchySpec
SYMMETRY MCSymmetry
CHECK_DEADLOCK FALSE
INVARIANTS
  HierarchyTypeOK
  IndexExact
  ItemsIsolated
  Serializable
