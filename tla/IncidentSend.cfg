SPECIFICATION Spec
CONSTANTS
  s1 = s1
  s2 = s2
  p1 = p1
  None = None
  Senders = {s1, s2}
  Incidents = {p1}
  Targets = {"stdout", "log", "webhook"}
  Webhooks = {"webhook"}
  Loggers = {"log"}
  Fanouts <- FanoutsDef
  MaxPosts = 2
  DedupeWindow = 2
  RateWindow = 3
  GlobalMax = 2
  TargetMax = 1
  TicksPerSecond = 2
  TornWrites = TRUE
  MaxTime = 3
  MaxSends = 2
\* These hold too: TypeOK, HistoryAudited.
\* Not so this: the log target logs the packet in a dry run too
\* INVARIANT DryRunsReachNobody
INVARIANTS
  RowsAreTrue
  DedupeHolds
  RateHolds
SYMMETRY Symmetric
CHECK_DEADLOCK FALSE
