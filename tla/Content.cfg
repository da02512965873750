\* Two layers that show both versions of one medium or nothing, a map with one binding.
CONSTANTS
  c1 = c1  c2 = c2  l1 = l1  l2 = l2  v1 = v1  v2 = v2
  Client = {c1, c2}
  Reader = {r1}
  Layer = {l1, l2}
  Asset = {a1}
  Version = {v1, v2}
  Map = {m1}
  Binding = {b1}
  Features <- MCFeatures
  MaxRevision = 2
  MaxMedia = 3
  None = None
SPECIFICATION Spec
SYMMETRY Symmetry
INVARIANTS TypeOK ReferencesHeld ReadersServed
PROPERTIES CommittedStays
