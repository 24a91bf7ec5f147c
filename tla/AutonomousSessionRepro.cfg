\* Behaviours of AutonomousSession that contradict a document or a comment. One
\* row is checked at a time; a row names the settings it changes.
\* INVARIANT NoIndexLost               (as below)
\* PROPERTY NoIncidentWhenCompleted    MaxIterations = 2
\* INVARIANT EndIsTerminal             MaxIterations = 2
\* PROPERTY BudgetBoundsSession        Durations = {2}
\* INVARIANT NoIterationRunTwice       TornWrites = TRUE, MaxStarts = 3
\* INVARIANT GuardSparesSuccess        MaxGateFailures = 1, MaxNoImprovement = 1,
\*   GatePolicies = {TRUE, FALSE}
SPECIFICATION Spec
CONSTANTS
  MaxIterations = 3
  TimeBudget = 3
  MaxGateFailures = 3
  MaxNoImprovement = 2
  GateOutcomes <- MCGateOutcomes
  Durations = {1}
  GatePolicies = {TRUE}
  TornWrites = FALSE
  MaxStarts = 2
CHECK_DEADLOCK FALSE
INVARIANT NoIndexLost
