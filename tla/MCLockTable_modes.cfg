CONSTANTS
  TxnId = {t1, t2, t3}
  ResourceId = {1, 2, 3}
  NumShards = 2
  shard_index <- MCShardIndex
  Threads = {th1}
  RequestModes = {"IS", "IX", "S", "SIX", "X"}
  PointIds = {1, 2}
  SpaceIds = {}
  RequestRanges = {}
  MaxRangeLocks = 0
  Key = {}
SPECIFICATION TableSpec
SYMMETRY MCSymmetry
INVARIANTS
  TypeOK
  HoldersCompatible
  NoResidue
  RefusedIffBlocked
  SweptClean
