SPECIFICATION ContextSpec
CONSTANTS
  t1 = t1
  t2 = t2
  NoFile = NoFile
  None = None
  BadByte = "bad"
  Surrogate = "surrogate"
  Paths = {"m", "n", "a/b", "a__b", "f/x"}
  Names = {"s"}
  Lists <- ListsDef
  Found <- FoundDef
  Template <- TemplateDef
  Backup <- BackupDef
  Blocked = {"f/x"}
  MaxDeaths = 1
  Tasks = {t1, t2}
  Seeds <- SeedsDef
  Source = {"m", "n", "a/b"}
  Imported <- ImportedDef
  Shared <- SharedDef
  Keywords <- KeywordsDef
  MaxFiles = 2
  MaxLines = 1
  Stubs = TRUE
  MaxPrompts = 3
\* Not so these; a row names the setting that shows it when it is another one.
\* INVARIANT FailedListUndone
\* INVARIANT BackupsSound
\* INVARIANT StubsAreFiles
\* INVARIANT SeedsFirst                Keywords <- ManyKeywords
INVARIANTS SnapshotsSound
PROPERTIES ImplementsAtomic PromptsAreTrue
CHECK_DEADLOCK FALSE
