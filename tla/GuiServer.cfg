SPECIFICATION ServerSpec
CONSTANTS
  Tokens <- TokensDef
  Sessions <- SessionsDef
  Policies <- PoliciesDef
  DefaultPolicy = {}
  ServerEnv <- EnvDef
  Threads = {1, 2}
  Scenes <- ScenesDef
  Tails = {1, 2}
  Targets <- TargetsDef
  Queries <- QueriesDef
  MaxDeaths = 1
  MaxFaults = 2
  MaxTime = 2
\* These hold too: ListingWhole, WorkflowFollowsActions; RequestsEnd, under fairness.
\* Not so these; a row names the setting that shows it when it is another one.
\* INVARIANT IntegrityAlways         a snapshot saved without markdown is called altered
\* INVARIANT OneRunPerDirectory      resume accepts a run that is at work
\* INVARIANT WorkflowWritable        a torn workflow file is refused forever
\* INVARIANT RetriedOnce             the second retry sends again what the first has sent
\* INVARIANT AlwaysAnswered          an error that no handler catches
\* INVARIANT RefusedIsUndone         a deletion fails at the markdown, after the snapshot is gone
\* INVARIANT KeepNoneKeepsNone       a limit of 0 given as a number is taken for no limit
\* PROPERTY  StoppedIsTrue           a stop is answered as done while the process runs on
\* PROPERTY  DeletedStays            an edit writes back what was deleted meanwhile
INVARIANTS
  IntegrityTrue
  RetentionKeepsNewest
  DeliveryRowsTrue
  AnswersAreTrue
CHECK_DEADLOCK FALSE
