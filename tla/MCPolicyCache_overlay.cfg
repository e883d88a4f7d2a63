SPECIFICATION Spec
CONSTANTS
  Procs = {1, 2}
  Setups <- MCSetups
  Hash <- MCHash
  Ids <- MCIds
  MaxN = 2
  MaxIno = 4
  Names = {1, 2}
  Policies <- MCPolicies
  Overlays = 2
  RoDirs <- MCRoDirs
  MaxFaults = 1
  MaxWrites = 1
  StringSize = 24
  Trees <- MCTrees
  Chunk = 2
  Grows = FALSE
INVARIANT
  OverlayInBounds
CHECK_DEADLOCK FALSE
