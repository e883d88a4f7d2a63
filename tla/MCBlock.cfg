SPECIFICATION Spec
CONSTANTS
  Setups <- MCSetups
  ExecSlots = 2
INVARIANTS
  BlocksMean
  ProfileTables
  MergeKeepsPolicy
