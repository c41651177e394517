CONSTANTS
  TxnId = {t1, t2}
  ResourceId = {1}
  NumShards = 1
  shard_index <- MCOneShard
  Threads = {th1, th2}
  RequestModes = {"S", "IX"}
  PointIds = {1}
  SpaceIds = {1}
  RequestRanges <- MCTwoRanges
  MaxRangeLocks = 2
  Key = {0, 1, 2}
SPECIFICATION TableSpec
SYMMETRY MCSymmetry
INVARIANTS
  RangeKeysCompatible
  IndexExact
  RangeIndexExact
  SweptClean
PROPERTY
  ImplementsAbstract
