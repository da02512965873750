SPECIFICATION FairSpec
CONSTANTS
  a = a
  b = b
  Chunk = {a, b}
  Near <- MCNear
  Worker = {w1}
  JobId = {j1, j2}
  BatchId = {r1}
  Kind = {"full"}
  Source <- Decaying
  Malformed = {"bad"}
  Nothing = Nothing
  MaxBatch = 1
  Budgets <- Each
PROPERTY WantedIsServed
