CONSTANTS
  W = 6
  FIB_HASH = 39
  MinShards = 2
  MaxShards = 8
  MaxCapacity = 20
  OverflowChecks = TRUE
SPECIFICATION RoutingSpec
INVARIANTS
  RoutingTypeOK
  IndexInBounds
  ShardsBalanced
