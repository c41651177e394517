CONSTANTS
  TxnId = {t1, t2}
  ResourceId = {1, 2, 3}
  NumShards = 1
  shard_index <- MCShardIndex
  Threads = {th1}
  RequestModes = {"S", "X"}
  PointIds = {1}
  SpaceIds = {2}
  RequestRanges <- MCScanInsert
  MaxRangeLocks = 1
  Key = {0, 1}
  Above <- MCFlat
  Rows = {1}
SPECIFICATION HierarchySpec
SYMMETRY MCSymmetry
CHECK_DEADLOCK FALSE
INVARIANTS
  ItemsIsolated
  Serializable
