SPECIFICATION Spec
CONSTANTS
  Txs <- MCTxs
  Paths <- MCPaths
INVARIANTS
  ExtractValid
  PassesSuffice
  FinalizeComplete
  FinalizeInpAtomic
PROPERTIES
  RolesKept
CHECK_DEADLOCK FALSE
