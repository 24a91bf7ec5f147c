SPECIFICATION FairSpec
CONSTANTS
  p1 = p1
  p2 = p2
  p3 = p3
  c1 = c1
  None = None
  Ids = {p1, p2, p3}
  Runs = {"r1", "r2"}
  Corrs = {c1}
  MaxRestarts = 1
\* These hold too: TypeOK, FileFollows, EndedIsFinal; LockReleased, under fairness.
\* Not so this: a server that dies before it writes a child starts it twice
\* INVARIANT OneChildPerRequest
\* Not so these, readings of a document or of the code; in the small table
\* Ids = {p1, p2}, Runs = {"r1"}:
\* PROPERTY StopEnds
\* INVARIANT ChildrenTracked
INVARIANTS
  RetryChain
  OneRetryPerRequest
  EndedIsTrue
CHECK_DEADLOCK FALSE
