SPECIFICATION FairSpec
CONSTANTS
  t1 = t1
  t2 = t2
  t3 = t3
  f1 = f1
  f2 = f2
  f3 = f3
  None = None
  Tasks = {t1, t2, t3}
  Files = {f1, f2, f3}
  Declared <- OwnFile
  DependsOn <- Fork
  Batches <- ForkBatches
  Order <- OrderDef
  GlobalTasks = {}
  MaxParallel = 2
  Validators <- ValidatorsDef
  Soft = {}
  Blocking <- BlockingDef
  Weight <- WeightDef
  Tolerance = 1
  MaxFindings = 1
  MaxFixPerTask = 1
  MaxFixTotal = 2
  FailFast = 1
  TimeBudget = TRUE
  Reviewer = TRUE
  ContinueOnFailure = FALSE
  MaxRuns = 2
CHECK_DEADLOCK FALSE
INVARIANTS
  FixBudget
PROPERTIES
  RunEnds
