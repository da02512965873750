\* One client that edits, publishes and reads, one that changes the source; debounced publications overlap.
CONSTANTS
  c1 = c1  c2 = c2  t1 = t1  t2 = t2   atlas = atlas  chunk = chunk
  Client = {c1, c2}
  Callback = {t1, t2}
  Part = {atlas, chunk}
  RootPart = {atlas}
  Asks <- MCAsks
  Failures = {"marker", "operation", "publish", "scheduled", "batch"}
  Debounce = 1
  MaxDelay = 1
  MaxChanges = 2
  MaxCrashes = 1
  None = None
SPECIFICATION Spec
SYMMETRY Symmetry
INVARIANTS TypeOK MarkerPrecedesChange NothingUnscheduled NotPutOff
PROPERTIES AnswersCurrent CommitsCurrent
