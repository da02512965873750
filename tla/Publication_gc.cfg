\* Two publishers that collect and recover for each other, with a clock; retentions and orphan
\* ages of one tick; two contents that share a page, and are alike.
CONSTANTS
  p1 = p1  p2 = p2  mA = mA  mB = mB  o1 = o1  page = page
  Process = {p1, p2}
  Publication = {mA, mB}
  Object = {page}
  Page = {page}
  Closure <- SharedClosure
  RetainedMs = 1
  OrphanMs = 1
  None = None
  Absent = Absent
  MaxClock = 1
  MaxEpoch = 3
  MaxRevision = 2
SPECIFICATION Spec
SYMMETRY AlikeSymmetry
INVARIANTS TypeOK OwnerNeverStale RetentionPrecedesVisibility HeadComplete ReaderPromise
PROPERTIES HeadReplacesItsParent PreparedUntilVisible ImplementsRegister
