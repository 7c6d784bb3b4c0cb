SPECIFICATION CacheSpec
CONSTANTS
  c1 = c1
  c2 = c2
  c3 = c3
  p1 = p1
  p2 = p2
  p3 = p3
  p4 = p4
  Nothing = Nothing
  Client <- MCClient
  Address <- MCAddress
  Size = {1, 2}
  DeviceId = {0, 1}
  MaxCached = 2
  Compacts = TRUE
CHECK_DEADLOCK FALSE
INVARIANTS
  WorkspaceTypeOK
  CacheKnowsItsHolders
  BlocksAreLive
PROPERTIES
  ImplementsPromise
  LostOnlyWhenCompacting
