SPECIFICATION Spec
CONSTANTS
  Setups <- MCSetups
INVARIANTS
  ExpansionRight
  BuiltinsRestored
  AliasesOnce
