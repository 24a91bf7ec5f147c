SPECIFICATION Spec
CONSTANTS
  t1 = t1
  t2 = t2
  t3 = t3
  f1 = f1
  f2 = f2
  f3 = f3
  None = None
  Tasks = {t1, t2, t3}
  Files = {f1, f2, f3}
  Declared <- OwnFile
  DependsOn <- Chain
  Batches <- ChainBatches
  Order <- OrderDef
  GlobalTasks = {}
  MaxParallel = 1
  Validators <- ValidatorsDef
  Soft = {}
  Blocking <- BlockingDef
  Weight <- WeightDef
  Tolerance = 1
  MaxFindings = 2
  MaxFixPerTask = 3
  MaxFixTotal = 3
  FailFast = 2
  TimeBudget = FALSE
  Reviewer = FALSE
  ContinueOnFailure = TRUE
  MaxRuns = 2
\* These hold too: TypeOK, CompletedIsFinal, CompletedRunComplete, CheckpointGrows.
INVARIANTS
  DependenciesFirst
  PassedIsRecorded
  AcceptedWorkKept
PROPERTIES
  FailedTaskUndone
