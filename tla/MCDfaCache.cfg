SPECIFICATION Spec
CONSTANTS
  Parsers = {p1, p2}
  Blocks <- MCBlocks
  Policies <- MCPolicies
  Globals <- MCGlobals
  MaxRuns = 2
  MaxDfaSize = 1
  MaxPerms = 1
  Fnv <- MCFnv
INVARIANT CachedDfaIsOwn
SYMMETRY Symmetric
