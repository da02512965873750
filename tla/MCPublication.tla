--------------------------- MODULE MCPublication ---------------------------
(* Small instances of Publication for TLC: two publishers and two contents  *)
(* that share an index page, or that share nothing, one with an object and  *)
(* one with an index page.                                                  *)
EXTENDS Publication, TLC

CONSTANTS p1, p2, mA, mB, o1, page

MCClosure == mA :> {o1} @@ mB :> {page}
SharedClosure == mA :> {page} @@ mB :> {page}
Symmetry == Permutations({p1, p2})
AlikeSymmetry == Symmetry \cup Permutations({mA, mB})
=============================================================================
