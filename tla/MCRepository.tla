---------------------------- MODULE MCRepository ----------------------------
(***************************************************************************)
(* An instance of Repository for TLC.                                       *)
(***************************************************************************)
EXTENDS Repository, TLC

CONSTANTS large, small, tiny, v1, v2, v3, p1

(* One resource is as large as builds declare, the others are smaller.      *)
UnevenSizes == [k \in Key |-> IF k = large THEN MaxBytes ELSE 1]

(* Two viewers of one resource, and a viewer and a publication of another;  *)
(* or a viewer of each of three, and a publication of the largest.          *)
MixedWants ==
  {(v1 :> large) @@ (v2 :> small) @@ (v3 :> k[1]) @@ (p1 :> k[2]) :
     k \in {<<large, small>>, <<tiny, large>>}}
=============================================================================
