SPECIFICATION Spec
CONSTANTS
  Dockerfile = "clean"
  OnPath = {"python"}
  Scripts = {}
  AuditRequired = FALSE
  PluginCommand <- PluginDef
  Kinds <- KindsDef
  Paired <- PairedDef
  Speed <- SpeedDef
  Profiles <- ProfilesDef
  Gives <- GivesDef
  Lists <- ListsDef
\* These hold too: EscalationTrue.
\* Not so these; a row names the setting that shows it when it is another one.
\* PROPERTY PassRowsCurrent
\* INVARIANT CompletedAlwaysSound
\* PROPERTY SkipsAreHarmless           Profiles <- SoftDef
\* INVARIANT MergeIsWhole              Lists <- TwiceDef
\* INVARIANT StampIsTrue               Profiles <- RequirementsDef
\* INVARIANT TestsSeeRequirements      Profiles <- RequirementsDef
\* INVARIANT FailureAlwaysFelt        Profiles <- StopsDef
\* INVARIANT EnabledCanRun             Profiles <- SbomDef,
\*   Scripts = {"scripts/generate_sbom.py"}
INVARIANTS
  EnvCurrent
  FailureIsFelt
  SkipsAreBounded
  CompletedIsSound
  FixersApart
PROPERTIES
  PassIsEarned
CHECK_DEADLOCK FALSE
