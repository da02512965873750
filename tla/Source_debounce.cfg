\* Nothing fails: the timer fires while a change of the source waits at the gate.
CONSTANTS
  c1 = c1  c2 = c2  t1 = t1  t2 = t2  atlas = atlas  chunk = chunk
  Client = {c1, c2}
  Callback = {t1, t2}
  Part = {atlas, chunk}
  RootPart = {atlas}
  Asks <- MCAsks
  Failures = {}
  Debounce = 2
  MaxDelay = 1
  MaxChanges = 2
  MaxCrashes = 0
  None = None
SPECIFICATION Spec
SYMMETRY Symmetry
PROPERTIES NoPartialPublication
