\* The same record, when the head happens to be its parent again.
CONSTANTS
  p1 = p1  p2 = p2  mA = mA  mB = mB  o1 = o1  page = page
  Process = {p1, p2}
  Publication = {mA, mB}
  Object = {o1, page}
  Page = {page}
  Closure <- MCClosure
  RetainedMs = 1
  OrphanMs = 1
  None = None
  Absent = Absent
  MaxClock = 0
  MaxEpoch = 3
  MaxRevision = 3
SPECIFICATION Spec
SYMMETRY Symmetry
INVARIANTS LandedRecordNotReplayed
