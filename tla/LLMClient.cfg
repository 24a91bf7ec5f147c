SPECIFICATION FairSpec
CONSTANTS
  c1 = c1
  c2 = c2
  None = None
  Calls = {c1, c2}
  Endpoints <- Chain
  Role <- RoleDef
  MaxRetries = 3
  MaxRepair = 1
  Usages = {0, 2}
  MaxUsage = 2
  MaxTokens = 3
\* These hold too: TypeOK, ChainTried.
INVARIANTS
  BudgetCaps
  ChatsAccounted
PROPERTIES
  CallEnds
CHECK_DEADLOCK FALSE
