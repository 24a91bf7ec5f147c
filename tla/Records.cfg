SPECIFICATION RecordsSpec
CONSTANTS
  MaxIterations = 3
  TimeBudget = 3
  MaxGateFailures = 3
  MaxNoImprovement = 2
  GateOutcomes <- MCGateOutcomes
  Durations = {1, 3}
  GatePolicies = {TRUE, FALSE}
  TornWrites = TRUE
  MaxStarts = 2
  Validators = {"v1", "v2"}
  RollingWindow = 2
  HistoryLimit = 3
  Configs <- MCConfigs
  Sessions <- MCSessions
  Places <- MCPlaces
  Outcomes <- MCOutcomes
  Reviews <- MCReviews
  Past <- MCPast
  Flow <- MCFlow
  Restarts = {"resume"}
  TornFiles = FALSE
  MaxActs = 1
  MaxHours = 1
CHECK_DEADLOCK FALSE
\* This holds too: OverdueIsEscalated.
\* Not so these, promises the records around a session do not keep; each with
\* TornFiles = TRUE:
\* INVARIANT LegacyPolicyUsed      a profile without a quality_profile drops its legacy policy
\* INVARIANT ConfigCatchesAll      a limit no session can have passes load_config
\* INVARIANT TrustFollowsSession   a refused start leaves the older trust packet
\* INVARIANT SummaryAlways         a refused resume leaves an older session's guard file; with
\*                                 MaxStarts = 3, Restarts = {"fresh", "resume"},
\*                                 Durations = {1}, MaxActs = 0, MaxHours = 0
INVARIANTS
  PolicyIsSound
  NoThirdTry
PROPERTIES
  SummaryTrue
  TrustIsEarned
