SPECIFICATION PSpec
CONSTANTS
  Chars = {0, 1, 2, 3, 4}
  Inputs <- MCInputs
  Jobs <- MCJobs
  MaxAltDepth = 3
  MaxWord = 3
INVARIANTS
  TreesFaithful
  PermsAreRules
  TablesFaithful
  EntriesMean
  ClassesMean
