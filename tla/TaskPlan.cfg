SPECIFICATION Spec
CONSTANTS
  t1 = t1
  t2 = t2
  t3 = t3
  t4 = t4
  f1 = f1
  f2 = f2
  glob = glob
  app = app
  test1 = test1
  unknown = unknown
  Tasks <- Four
  Listed <- FourListed
  Plans <- AllPlans
  Scenes <- AllScenes
  Matches <- MatchesOf
  Template <- TemplateOf
  TestOf <- Tests
  Widths = {2}
\* These hold too: TypeOK, RefusedIfCyclic, DependenciesSortedFirst, ChunksSound.
\* Not so these:
\* INVARIANT SkippedAlwaysDone     a retry with another key, or a repaired plan
\* PROPERTY  TestsSurvive          acceptance tests are written again over completed work
\* PROPERTY  ResumesInPlace        autodev --resume starts in a new directory
\* INVARIANT NeverUnbound          a cached plan that needs repair
\* INVARIANT NeverStuck            a refused plan stays in the cache
\* INVARIANT NotSlowerThanSlices   a chunk waits for its longest task
INVARIANTS
  ScheduleSound
  FilesApart
  SkippedWasDone
PROPERTIES
  WorkSurvives
