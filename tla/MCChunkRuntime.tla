--------------------------- MODULE MCChunkRuntime ---------------------------
(* ChunkRuntime with contents for TLC.                                      *)
EXTENDS ChunkRuntime, TLC

CONSTANTS a, b

MCNear == [k \in {a, b} |-> {a, b}]
Symmetry == Permutations(Worker) \cup Permutations(JobId) \cup Permutations(BatchId)

(* What the views serve for a and b: in Changing a is first replaced, then  *)
(* vanishes.                                                                *)
Old == [k \in {a, b} |-> "old"]
Serving(s) == [v \in 0..(Len(s) - 1) |-> s[v + 1]]
Changing == Serving(<<Old, [Old EXCEPT ![a] = "new"], [Old EXCEPT ![a] = "missing"]>>)
Decaying == Serving(<<Old, [Old EXCEPT ![a] = "missing", ![b] = "bad"]>>)

Budget(q, v, m, f) == [first |-> q, views |-> v, moves |-> m, faults |-> f]
Replaced == Budget(0, 1, 0, 0)
Vanished == Budget(1, 1, 0, 0)
JustReplaced == {Replaced}
JustVanished == {Vanished}
Apart == {Replaced, Vanished, Budget(0, 0, 2, 0), Budget(0, 0, 0, 1)}
Each == {Replaced, Budget(0, 0, 1, 0), Budget(0, 0, 0, 1)}
=============================================================================
