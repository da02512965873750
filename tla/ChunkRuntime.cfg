SPECIFICATION Spec
CONSTANTS
  a = a
  b = b
  Chunk = {a, b}
  Near <- MCNear
  Worker = {w1, w2}
  JobId = {j1, j2}
  BatchId = {r1, r2}
  Kind = {"full"}
  Source <- Changing
  Malformed = {}
  Nothing = Nothing
  MaxBatch = 1
  Budgets <- Apart
INVARIANTS TypeOK PinsExact StoredMeansHeld EveryWaitIsAnswered MeshContentsTrue RefreshReachesAll NothingForgotten
SYMMETRY Symmetry
