\* Three viewers and a publisher.  Two builds, or a build and the largest body, do not fit
\* the handoff store, and pins of the cached tiny body take its entries while builds run.
CONSTANTS
  large = large
  small = small
  tiny = tiny
  v1 = v1
  v2 = v2
  v3 = v3
  p1 = p1
  Viewer = {v1, v2, v3}
  Publisher = {p1}
  Key = {large, small, tiny}
  Size <- UnevenSizes
  MaxBytes = 3
  WorkBytes = 3
  HandoffBytes = 5
  WorkCapacity = 4
  MaxTasks = 2
  MaxEntries = 2
  CacheKeys = {tiny}
  MaxReads = 1
  MaxLate = 1
  Wants <- MixedWants
SPECIFICATION Spec
INVARIANTS TypeOK BudgetsExact NobodyOversleeps ClaimsCoverPromises NothingAfterClose
PROPERTIES BoundSuffices RequestsAnswered ShutdownCompletes
