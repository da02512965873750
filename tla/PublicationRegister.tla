------------------------- MODULE PublicationRegister -------------------------
(***************************************************************************)
(* What the publication store promises to those who read it: a register    *)
(* that holds the visible publication, whose every value can be read in    *)
(* full while it is visible and for a while after it was replaced.         *)
(***************************************************************************)
EXTENDS Naturals

CONSTANTS Publication, None

VARIABLES
  current,   \* the visible publication and its revision
  readable,  \* publications whose manifest, pages and objects all exist
  promised   \* replaced publications still inside their read promise

vars == <<current, readable, promised>>

Kept(c, promises) == (promises \cup {c.id}) \ {None}

Init ==
  /\ current = [id |-> None, revision |-> 0]
  /\ readable = {}
  /\ promised = {}

(* A readable publication becomes visible; the one it replaces is promised  *)
(* to its readers, unless the promise ran out while it was being replaced.  *)
Replace ==
  \E m \in readable \ {current.id} :
    /\ current' = [id |-> m, revision |-> current.revision + 1]
    /\ promised' \in SUBSET (Kept(current, promised) \ {m})
    /\ UNCHANGED readable

(* Time passes, publications are completed or collected.                    *)
Upkeep ==
  /\ UNCHANGED current
  /\ promised' \in SUBSET promised
  /\ readable' \in SUBSET Publication
  /\ Kept(current, promised') \subseteq readable'

Next == Replace \/ Upkeep

Spec == Init /\ [][Next]_vars
=============================================================================
