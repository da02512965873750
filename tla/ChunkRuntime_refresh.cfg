SPECIFICATION Spec
CONSTANTS
  a = a
  b = b
  Chunk = {a, b}
  Near <- MCNear
  Worker = {w1}
  JobId = {j1, j2}
  BatchId = {r1, r2}
  Kind = {"full"}
  Source <- Changing
  Malformed = {}
  Nothing = Nothing
  MaxBatch = 2
  Budgets <- JustReplaced
INVARIANT RefreshReachesAll
SYMMETRY Symmetry
