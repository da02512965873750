------------------------------ MODULE MCSource ------------------------------
(* Small instances of Source for TLC: a resource of the render root and one *)
(* that is not in it.                                                       *)
EXTENDS Source, TLC

CONSTANTS c1, c2, t1, t2, atlas, chunk

MCAsks == c1 :> {"content", "publish", "batch"} @@ c2 :> {"source"}
Symmetry == Permutations({t1, t2})
=============================================================================
