SPECIFICATION FairSpec
CONSTANTS
  MaxIterations = 3
  TimeBudget = 3
  MaxGateFailures = 2
  MaxNoImprovement = 1
  GateOutcomes <- MCGateOutcomes
  Durations = {2}
  GatePolicies = {TRUE}
  TornWrites = FALSE
  MaxStarts = 3
CHECK_DEADLOCK FALSE
\* These hold too: TypeOK, GuardSparesSuccess, GuardHolds.
INVARIANTS
  NoIterationRunTwice
  SuccessIsEarned
PROPERTIES
  EvidenceKept
  StartEnds
