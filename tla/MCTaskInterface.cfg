SPECIFICATION Spec
CONSTANTS
  Tasks = {1, 2}
  Systems <- MCSystems
  Policies <- MCPolicies
  Requests <- MCRequests
  Tokens = {1, 2}
  MaxInits = 2
  Threads = {1, 2}
  PamArgs <- MCPamArgs
  ExecArgs <- MCExecArgs
  Contexts <- MCContexts
  GuessSize = 5
  LsmCtxSize = 2
  Align = 2
  MaxChanges = 1
  Queries <- MCQueries
CHECK_DEADLOCK FALSE
INVARIANTS
  CommandsDelivered
  HatsFollowRequests
  ConfinedOrRefused
  AnswersAreTrue
PROPERTY
  ReadingEnds
