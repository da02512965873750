\* The instance of Repository.cfg: a cached body is promised while a build runs.
CONSTANTS
  large = large
  small = small
  tiny = tiny
  v1 = v1
  v2 = v2
  v3 = v3
  p1 = p1
  Viewer = {v1, v2, v3}
  Publisher = {p1}
  Key = {large, small, tiny}
  Size <- UnevenSizes
  MaxBytes = 3
  WorkBytes = 3
  HandoffBytes = 5
  WorkCapacity = 4
  MaxTasks = 2
  MaxEntries = 2
  CacheKeys = {tiny}
  MaxReads = 1
  MaxLate = 1
  Wants <- MixedWants
SPECIFICATION Spec
INVARIANT AdmissionComesFirst
