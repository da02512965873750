----------------------------- MODULE MCContent ------------------------------
(* Instances of Content for TLC: layers that show every version or nothing. *)
EXTENDS Content, TLC

CONSTANTS c1, c2, l1, l2, v1, v2

MCFeatures == {{}, Ref}

Symmetry == Permutations({c1, c2}) \cup Permutations({l1, l2}) \cup Permutations({v1, v2})
=============================================================================
