-------------------------- MODULE Repository_proofs --------------------------
(***************************************************************************)
(* The budgets of the repository are exact, whatever the requests, the      *)
(* resources, their sizes and the bounds.                                   *)
(*                                                                          *)
(* The budgets are followed through every action by their accounts (see     *)
(* ByteBudget_proofs): what each build, pin and transfer holds or waits for *)
(* is due, and the bytes in use are those due to whoever does not wait.     *)
(* Claims are counted in the same way, against the requests served by them. *)
(***************************************************************************)
EXTENDS Repository, Sums_proofs, SequenceTheorems, TLAPS

HF == INSTANCE ByteBudget_proofs
        WITH Capacity <- HandoffBytes, MaxQueued <- MaxTasks
WF == INSTANCE ByteBudget_proofs
        WITH Capacity <- WorkCapacity, MaxQueued <- MaxTasks

-----------------------------------------------------------------------------
(* The same operators, by two names.                                        *)

LEMMA SameSums ==
  /\ \A S : HF!IsFiniteSet(S) = IsFiniteSet(S)
  /\ \A S : WF!IsFiniteSet(S) = IsFiniteSet(S)
  /\ \A f, S : HF!Total(f, S) = Total(f, S)
  /\ \A f, S : WF!Total(f, S) = Total(f, S)
<1>1. \A S : HF!IsFiniteSet(S) = IsFiniteSet(S)
  BY DEF IsFiniteSet, HF!IsFiniteSet
<1>2. \A S : WF!IsFiniteSet(S) = IsFiniteSet(S)
  BY DEF IsFiniteSet, WF!IsFiniteSet
<1>3. \A f, S : HF!Total(f, S) = Total(f, S)
  BY DEF Total, MapThenSumSet, MapThenFoldSet,
         HF!Total, HF!MapThenSumSet, HF!MapThenFoldSet
<1>4. \A f, S : WF!Total(f, S) = Total(f, S)
  BY DEF Total, MapThenSumSet, MapThenFoldSet,
         WF!Total, WF!MapThenSumSet, WF!MapThenFoldSet
<1> QED
  BY <1>1, <1>2, <1>3, <1>4

LEMMA SameHandoff ==
  /\ Handoff!Empty = HF!Empty
  /\ \A b : /\ Handoff!Waiters(b) = HF!Waiters(b)
            /\ Handoff!HeadWaits(b) = HF!HeadWaits(b)
            /\ Handoff!Aborting(b) = HF!Aborting(b)
            /\ Handoff!Aborted(b) = HF!Aborted(b)
  /\ \A b, n : /\ Handoff!Fits(b, n) = HF!Fits(b, n)
               /\ Handoff!Refuses(b, n) = HF!Refuses(b, n)
               /\ Handoff!Reserved(b, n) = HF!Reserved(b, n)
               /\ Handoff!Released(b, n) = HF!Released(b, n)
               /\ Handoff!Left(b, n) = HF!Left(b, n)
  /\ \A b, c, n : /\ Handoff!Asked(b, c, n) = HF!Asked(b, c, n)
                  /\ Handoff!Replaced(b, c, n) = HF!Replaced(b, c, n)
<1>1. Handoff!Empty = HF!Empty
  BY DEF Handoff!Empty, HF!Empty
<1>2. \A b : Handoff!Waiters(b) = HF!Waiters(b)
  BY DEF Handoff!Waiters, HF!Waiters
<1>3. \A b : Handoff!HeadWaits(b) = HF!HeadWaits(b)
  BY DEF Handoff!HeadWaits, HF!HeadWaits, Handoff!Fits, HF!Fits
<1>4. \A b : Handoff!Aborting(b) = HF!Aborting(b)
  BY DEF Handoff!Aborting, HF!Aborting
<1>5. \A b : Handoff!Aborted(b) = HF!Aborted(b)
  BY <1>4 DEF Handoff!Aborted, HF!Aborted
<1>6. \A b, n : Handoff!Fits(b, n) = HF!Fits(b, n)
  BY DEF Handoff!Fits, HF!Fits
<1>7. \A b, n : Handoff!Refuses(b, n) = HF!Refuses(b, n)
  BY DEF Handoff!Refuses, HF!Refuses, Handoff!Fits, HF!Fits
<1>8. \A b, n : Handoff!Reserved(b, n) = HF!Reserved(b, n)
  BY DEF Handoff!Reserved, HF!Reserved
<1>9. \A b : Handoff!Woken(b) = HF!Woken(b)
  BY DEF Handoff!Woken, HF!Woken, Handoff!InUse, HF!InUse
<1>10. \A b, n : Handoff!Released(b, n) = HF!Released(b, n)
  BY <1>9 DEF Handoff!Released, HF!Released
<1>11. \A b, c : Handoff!Left(b, c) = HF!Left(b, c)
  <2>1. \A b, c : Handoff!Without(b, c) = HF!Without(b, c)
    BY DEF Handoff!Without, HF!Without
  <2> QED
    BY <1>9, <2>1 DEF Handoff!Left, HF!Left
<1>12. \A b, c, n : Handoff!Asked(b, c, n) = HF!Asked(b, c, n)
  BY <1>6, <1>8 DEF Handoff!Asked, HF!Asked
<1>13. \A b, c, n : Handoff!Replaced(b, c, n) = HF!Replaced(b, c, n)
  BY <1>9 DEF Handoff!Replaced, HF!Replaced
<1> QED
  BY <1>1, <1>2, <1>3, <1>4, <1>5, <1>6, <1>7, <1>8, <1>10, <1>11, <1>12, <1>13

LEMMA SameWork ==
  /\ Work!Empty = WF!Empty
  /\ \A b : /\ Work!Waiters(b) = WF!Waiters(b)
            /\ Work!HeadWaits(b) = WF!HeadWaits(b)
            /\ Work!Aborting(b) = WF!Aborting(b)
            /\ Work!Aborted(b) = WF!Aborted(b)
  /\ \A b, n : /\ Work!Fits(b, n) = WF!Fits(b, n)
               /\ Work!Refuses(b, n) = WF!Refuses(b, n)
               /\ Work!Reserved(b, n) = WF!Reserved(b, n)
               /\ Work!Released(b, n) = WF!Released(b, n)
               /\ Work!Left(b, n) = WF!Left(b, n)
  /\ \A b, c, n : /\ Work!Asked(b, c, n) = WF!Asked(b, c, n)
                  /\ Work!Replaced(b, c, n) = WF!Replaced(b, c, n)
<1>1. Work!Empty = WF!Empty
  BY DEF Work!Empty, WF!Empty
<1>2. \A b : Work!Waiters(b) = WF!Waiters(b)
  BY DEF Work!Waiters, WF!Waiters
<1>3. \A b : Work!HeadWaits(b) = WF!HeadWaits(b)
  BY DEF Work!HeadWaits, WF!HeadWaits, Work!Fits, WF!Fits
<1>4. \A b : Work!Aborting(b) = WF!Aborting(b)
  BY DEF Work!Aborting, WF!Aborting
<1>5. \A b : Work!Aborted(b) = WF!Aborted(b)
  BY <1>4 DEF Work!Aborted, WF!Aborted
<1>6. \A b, n : Work!Fits(b, n) = WF!Fits(b, n)
  BY DEF Work!Fits, WF!Fits
<1>7. \A b, n : Work!Refuses(b, n) = WF!Refuses(b, n)
  BY DEF Work!Refuses, WF!Refuses, Work!Fits, WF!Fits
<1>8. \A b, n : Work!Reserved(b, n) = WF!Reserved(b, n)
  BY DEF Work!Reserved, WF!Reserved
<1>9. \A b : Work!Woken(b) = WF!Woken(b)
  BY DEF Work!Woken, WF!Woken, Work!InUse, WF!InUse
<1>10. \A b, n : Work!Released(b, n) = WF!Released(b, n)
  BY <1>9 DEF Work!Released, WF!Released
<1>11. \A b, c : Work!Left(b, c) = WF!Left(b, c)
  <2>1. \A b, c : Work!Without(b, c) = WF!Without(b, c)
    BY DEF Work!Without, WF!Without
  <2> QED
    BY <1>9, <2>1 DEF Work!Left, WF!Left
<1>12. \A b, c, n : Work!Asked(b, c, n) = WF!Asked(b, c, n)
  BY <1>6, <1>8 DEF Work!Asked, WF!Asked
<1>13. \A b, c, n : Work!Replaced(b, c, n) = WF!Replaced(b, c, n)
  BY <1>9 DEF Work!Replaced, WF!Replaced
<1> QED
  BY <1>1, <1>2, <1>3, <1>4, <1>5, <1>6, <1>7, <1>8, <1>10, <1>11, <1>12, <1>13

-----------------------------------------------------------------------------
(* The handoff store.                                                       *)

Bounds(A) == [k \in Key |-> IF k \in A THEN MaxBytes ELSE 0]

(* The handoff budget holds the bounds of the builds A and the pins P.      *)
Holds(b, A, P) ==
  /\ HF!Account(b, Bounds(A), Key, Total(Size, P))
  /\ A \subseteq Key /\ P \subseteq Key
  /\ Handoff!Waiters(b) \subseteq A

LEMMA Numbers ==
  /\ MaxBytes \in Nat /\ WorkBytes \in Nat /\ HandoffBytes \in Nat
  /\ WorkCapacity \in Nat /\ MaxTasks \in Nat /\ MaxEntries \in Nat
  /\ MaxBytes <= HandoffBytes /\ MaxReads \in Nat /\ MaxReads > 0
  /\ \A k \in Key : Size[k] \in Nat /\ Size[k] <= MaxBytes
  /\ IsFiniteSet(Key) /\ IsFiniteSet(Reader)
  /\ Reader \cap Key = {} /\ Viewer \cap Publisher = {}
BY RepositoryAssumption DEF RepositoryAssumption

LEMMA BoundsType ==
  ASSUME NEW A
  PROVE  Bounds(A) \in [Key -> Nat]
BY Numbers DEF Bounds

LEMMA Sizes ==
  ASSUME NEW P, P \subseteq Key
  PROVE  /\ IsFiniteSet(P)
         /\ Total(Size, P) \in Nat
         /\ \A k \in P : Size[k] \in Nat
BY Numbers, FS_Subset, TotalNat

LEMMA HoldsAsked ==
  ASSUME NEW b, NEW A, NEW P, Holds(b, A, P), NEW k \in Key, k \notin A,
         ~Handoff!Refuses(b, MaxBytes)
  PROVE  /\ Holds(Handoff!Asked(b, k, MaxBytes), A \cup {k}, P)
         /\ Handoff!Waiters(Handoff!Asked(b, k, MaxBytes)) \subseteq Handoff!Waiters(b) \cup {k}
<1> DEFINE d == Handoff!Asked(b, k, MaxBytes)
<1>1. HF!Account(b, Bounds(A), Key, Total(Size, P)) /\ Bounds(A)[k] = 0
        /\ k \notin HF!Waiters(b) /\ ~HF!Refuses(b, MaxBytes) /\ d = HF!Asked(b, k, MaxBytes)
  BY SameHandoff DEF Holds, Bounds
<1>2. /\ HF!Account(d, [Bounds(A) EXCEPT ![k] = MaxBytes], Key, Total(Size, P))
      /\ HF!Waiters(d) \subseteq HF!Waiters(b) \cup {k}
  BY <1>1, Numbers, HF!AskedAccount
<1>3. [Bounds(A) EXCEPT ![k] = MaxBytes] = Bounds(A \cup {k})
  BY DEF Bounds
<1> HIDE DEF d
<1>4. Handoff!Waiters(d) \subseteq Handoff!Waiters(b) \cup {k}
  BY <1>2, SameHandoff, Zenon
<1> QED
  BY <1>2, <1>3, <1>4 DEF Holds, d

(* A build gives its bound back.                                            *)
LEMMA HoldsReleased ==
  ASSUME NEW b, NEW A, NEW P, Holds(b, A, P), NEW k \in A, k \notin Handoff!Waiters(b)
  PROVE  /\ Holds(Handoff!Released(b, MaxBytes), A \ {k}, P)
         /\ Handoff!Waiters(Handoff!Released(b, MaxBytes)) \subseteq Handoff!Waiters(b)
<1> DEFINE d == Handoff!Released(b, MaxBytes)
           s == Total(Size, P)
<1>1. /\ HF!Account(b, Bounds(A), Key, s) /\ Bounds(A)[k] = MaxBytes /\ k \in Key
      /\ k \notin HF!Waiters(b) /\ d = HF!Released(b, MaxBytes)
  BY SameHandoff DEF Holds, Bounds
<1>2. s \in Nat
  BY Sizes DEF Holds
<1> HIDE DEF d, s
<1>3. HF!Account(d, Bounds(A), Key, s - MaxBytes) /\ HF!Waiters(d) \subseteq HF!Waiters(b)
  BY <1>1, Numbers, HF!ReleasedAccount
<1>4. HF!Account(d, [Bounds(A) EXCEPT ![k] = 0], Key, s - MaxBytes + Bounds(A)[k] - 0)
  BY <1>1, <1>3, HF!OwedAccount
<1>5. s - MaxBytes + Bounds(A)[k] - 0 = s
  BY <1>1, <1>2, Numbers
<1>6. [Bounds(A) EXCEPT ![k] = 0] = Bounds(A \ {k})
  BY DEF Bounds
<1>7. HF!Account(d, Bounds(A \ {k}), Key, s)
  BY <1>4, <1>5, <1>6, Zenon
<1>8. Handoff!Waiters(d) \subseteq Handoff!Waiters(b)
  BY <1>3, SameHandoff, Zenon
<1> QED
  BY <1>7, <1>8 DEF Holds, d, s

(* A build stops waiting for its bound.                                     *)
LEMMA HoldsLeft ==
  ASSUME NEW b, NEW A, NEW P, Holds(b, A, P), NEW k \in Handoff!Waiters(b)
  PROVE  /\ Holds(Handoff!Left(b, k), A \ {k}, P)
         /\ Handoff!Waiters(Handoff!Left(b, k)) \subseteq Handoff!Waiters(b) \ {k}
<1> DEFINE d == Handoff!Left(b, k)
<1>1. HF!Account(b, Bounds(A), Key, Total(Size, P))
        /\ k \in HF!Waiters(b) /\ d = HF!Left(b, k)
  BY SameHandoff DEF Holds
<1>2. HF!Account(d, [Bounds(A) EXCEPT ![k] = 0], Key, Total(Size, P))
        /\ HF!Waiters(d) \subseteq HF!Waiters(b) \ {k}
  BY <1>1, Numbers, HF!LeftAccount
<1>3. [Bounds(A) EXCEPT ![k] = 0] = Bounds(A \ {k})
  BY DEF Bounds
<1> HIDE DEF d
<1>4. Handoff!Waiters(d) \subseteq Handoff!Waiters(b) \ {k}
  BY <1>2, SameHandoff, Zenon
<1> QED
  BY <1>2, <1>3, <1>4 DEF Holds, d

(* A body is pinned at once.                                                *)
LEMMA HoldsReserved ==
  ASSUME NEW b, NEW A, NEW P, Holds(b, A, P), NEW k \in Key, k \notin P,
         Handoff!Fits(b, Size[k])
  PROVE  /\ Holds(Handoff!Reserved(b, Size[k]), A, P \cup {k})
         /\ Handoff!Waiters(Handoff!Reserved(b, Size[k])) = Handoff!Waiters(b)
<1> DEFINE d == Handoff!Reserved(b, Size[k])
<1>1. HF!Account(b, Bounds(A), Key, Total(Size, P)) /\ HF!Fits(b, Size[k])
        /\ d = HF!Reserved(b, Size[k])
  BY SameHandoff DEF Holds
<1>2. HF!Account(d, Bounds(A), Key, Total(Size, P) + Size[k]) /\ HF!Waiters(d) = HF!Waiters(b)
  BY <1>1, Numbers, HF!ReservedAccount
<1>3. Total(Size, P \cup {k}) = Total(Size, P) + Size[k]
  BY Sizes, Numbers, TotalAdd DEF Holds
<1>4. HF!Account(d, Bounds(A), Key, Total(Size, P \cup {k}))
  BY <1>2, <1>3, Zenon
<1> HIDE DEF d
<1>5. Handoff!Waiters(d) = Handoff!Waiters(b)
  BY <1>2, SameHandoff, Zenon
<1> QED
  BY <1>4, <1>5 DEF Holds, d

(* Bodies are no longer pinned.                                             *)
LEMMA HoldsUnpinned ==
  ASSUME NEW b, NEW A, NEW f, NEW g, Holds(b, A, DOMAIN f), DOMAIN g \subseteq DOMAIN f
  PROVE  /\ Holds(Unpinned(b, f, g), A, DOMAIN g)
         /\ Handoff!Waiters(Unpinned(b, f, g)) \subseteq Handoff!Waiters(b)
<1> DEFINE G == DOMAIN f \ DOMAIN g
           t == Total(Size, G)
           s == Total(Size, DOMAIN f)
           d == Handoff!Released(b, t)
<1>1. CASE G = {}
  BY <1>1 DEF Unpinned
<1>2. CASE G # {}
  <2>1. Unpinned(b, f, g) = d
    BY <1>2 DEF Unpinned, Total
  <2>2. DOMAIN f \subseteq Key /\ HF!Account(b, Bounds(A), Key, s)
    BY DEF Holds
  <2>3. t \in Nat /\ s \in Nat
    BY <2>2, Sizes
  <2>4. Total(Size, DOMAIN g) = s - t
    <3>1. DOMAIN g = DOMAIN f \ G
      OBVIOUS
    <3>2. /\ IsFiniteSet(DOMAIN f) /\ G \in SUBSET DOMAIN f
          /\ \A x \in DOMAIN f : Size[x] \in Nat
      BY <2>2, Sizes
    <3>3. Total(Size, DOMAIN f \ G) = s - t
      <4> HIDE DEF G
      <4> QED
        BY <3>2, TotalSubset
    <3> QED
      BY <3>1, <3>3, Zenon
  <2>5. d = HF!Released(b, t)
    BY SameHandoff
  <2> HIDE DEF t, s, G
  <2>6. HF!Account(d, Bounds(A), Key, s - t) /\ HF!Waiters(d) \subseteq HF!Waiters(b)
    <3> HIDE DEF d
    <3> QED
      BY <2>2, <2>3, <2>5, Numbers, HF!ReleasedAccount
  <2> HIDE DEF d
  <2>7. HF!Account(d, Bounds(A), Key, Total(Size, DOMAIN g))
    BY <2>4, <2>6, Zenon
  <2>8. Handoff!Waiters(d) \subseteq Handoff!Waiters(b)
    BY <2>6, SameHandoff, Zenon
  <2> QED
    BY <2>1, <2>2, <2>7, <2>8 DEF Holds
<1> QED
  BY <1>1, <1>2

(* The bound of a build becomes a pin.                                      *)
LEMMA HoldsReplaced ==
  ASSUME NEW b, NEW A, NEW P, Holds(b, A, P), NEW k \in A, k \notin Handoff!Waiters(b),
         k \notin P => b.used - MaxBytes + Size[k] <= HandoffBytes
  PROVE  LET d == Handoff!Replaced(b, MaxBytes, IF k \in P THEN 0 ELSE Size[k])
         IN  Holds(d, A \ {k}, P \cup {k}) /\ Handoff!Waiters(d) \subseteq Handoff!Waiters(b)
<1> DEFINE n == IF k \in P THEN 0 ELSE Size[k]
           d == Handoff!Replaced(b, MaxBytes, n)
           s == Total(Size, P)
<1>1. /\ HF!Account(b, Bounds(A), Key, s) /\ Bounds(A)[k] = MaxBytes /\ k \in Key
      /\ k \notin HF!Waiters(b) /\ d = HF!Replaced(b, MaxBytes, n)
  BY SameHandoff DEF Holds, Bounds
<1>2. s \in Nat /\ n \in Nat /\ P \subseteq Key /\ A \subseteq Key
  BY <1>1, Sizes, Numbers DEF Holds
<1>3. Total(Size, P \cup {k}) = s + n
  <2>1. CASE k \in P
    <3>1. P \cup {k} = P /\ n = 0
      BY <2>1
    <3>2. Total(Size, P \cup {k}) = s
      BY <3>1, Zenon
    <3> HIDE DEF s
    <3> QED
      BY <1>2, <3>1, <3>2
  <2>2. CASE k \notin P
    BY <1>1, <1>2, <2>2, Sizes, Numbers, TotalAdd
  <2> QED
    BY <2>1, <2>2
<1>4. b.used - MaxBytes + n <= HandoffBytes
  <2>1. b.used \in Int /\ b.used <= HandoffBytes
    BY <1>1, HF!Places DEF HF!Account, HF!Balanced, HF!Orderly
  <2> QED
    BY <2>1, Numbers
<1> HIDE DEF d, s, n
<1>5. /\ HF!Account(d, Bounds(A), Key, s - MaxBytes + n)
      /\ HF!Waiters(d) \subseteq HF!Waiters(b)
  BY <1>1, <1>2, <1>4, Numbers, HF!ReplacedAccount
<1>6. HF!Account(d, [Bounds(A) EXCEPT ![k] = 0], Key, s - MaxBytes + n + Bounds(A)[k] - 0)
  BY <1>1, <1>5, HF!OwedAccount
<1>7. s - MaxBytes + n + Bounds(A)[k] - 0 = s + n
  BY <1>1, <1>2, Numbers
<1>8. [Bounds(A) EXCEPT ![k] = 0] = Bounds(A \ {k})
  BY DEF Bounds
<1>9. HF!Account(d, Bounds(A \ {k}), Key, Total(Size, P \cup {k}))
  BY <1>3, <1>6, <1>7, <1>8, Zenon
<1>10. Handoff!Waiters(d) \subseteq Handoff!Waiters(b)
  BY <1>5, SameHandoff, Zenon
<1>11. Holds(d, A \ {k}, P \cup {k})
  BY <1>1, <1>2, <1>5, <1>9, <1>10 DEF Holds
<1> QED
  BY <1>10, <1>11 DEF d, n

(* Shutdown: nobody waits, and those refused hold nothing.                  *)
LEMMA HoldsAborted ==
  ASSUME NEW b, NEW A, NEW P, Holds(b, A, P)
  PROVE  LET R == Handoff!Aborting(b).refused
         IN  /\ Holds(Handoff!Aborted(b), A \ R, P)
             /\ Handoff!Waiters(Handoff!Aborted(b)) = {}
             /\ R \subseteq Handoff!Waiters(b)
<1> DEFINE R == HF!Aborting(b).refused
<1>1. HF!Account(b, Bounds(A), Key, Total(Size, P))
  BY DEF Holds
<1>2. \A c \in Key : Bounds(A \ R)[c] = IF c \in R THEN 0 ELSE Bounds(A)[c]
  BY DEF Bounds
<1>3. /\ HF!Account(HF!Aborted(b), Bounds(A \ R), Key, Total(Size, P))
      /\ HF!Waiters(HF!Aborted(b)) = {}
      /\ R \subseteq HF!Waiters(b)
  <2> DEFINE due == Bounds(A)
             due2 == Bounds(A \ R)
             s == Total(Size, P)
  <2>1. /\ due2 \in [Key -> Nat] /\ HF!Account(b, due, Key, s)
        /\ \A c \in Key : due2[c] = IF c \in HF!Aborting(b).refused THEN 0 ELSE due[c]
    BY <1>1, <1>2, BoundsType
  <2>2. HandoffBytes \in Nat /\ MaxTasks \in Nat
    BY Numbers
  <2> HIDE DEF due, due2, s
  <2>3. /\ HF!Account(HF!Aborted(b), due2, Key, s)
        /\ HF!Waiters(HF!Aborted(b)) = {}
        /\ HF!Aborting(b).refused \subseteq HF!Waiters(b)
    BY <2>1, <2>2, HF!AbortedAccount
  <2> QED
    BY <2>3 DEF due2, s
<1> HIDE DEF R
<1>4. /\ HF!Account(Handoff!Aborted(b), Bounds(A \ R), Key, Total(Size, P))
      /\ Handoff!Waiters(Handoff!Aborted(b)) = {}
      /\ R \subseteq Handoff!Waiters(b)
  BY <1>3, SameHandoff, Zenon
<1>5. Holds(Handoff!Aborted(b), A \ R, P)
  BY <1>4 DEF Holds
<1>6. R = Handoff!Aborting(b).refused
  BY SameHandoff DEF R
<1> QED
  BY <1>4, <1>5, <1>6

(* Builds give their bounds back while nobody waits.                        *)
LEMMA HoldsWithout ==
  ASSUME NEW b, NEW A, NEW P, Holds(b, A, P), Handoff!Waiters(b) = {},
         NEW S, S \subseteq A
  PROVE  LET d == [b EXCEPT !.used = @ - MaxBytes * Cardinality(S)]
         IN  Holds(d, A \ S, P) /\ Handoff!Waiters(d) = {}
<1> DEFINE t == MaxBytes * Cardinality(S)
           d == HF!Using(b, -t)
           s == Total(Size, P)
<1>1. /\ HF!Account(b, Bounds(A), Key, s) /\ HF!Waiters(b) = {}
      /\ A \subseteq Key /\ P \subseteq Key
  BY SameHandoff DEF Holds
<1>2. IsFiniteSet(A) /\ IsFiniteSet(S) /\ s \in Nat
  BY <1>1, Sizes
<1>3. t \in Nat
  BY <1>2, FS_CardinalityType, Numbers
<1>4. /\ b.used \in Int /\ b.used <= HandoffBytes /\ HF!Balanced(b, Bounds(A), Key, s)
      /\ b = [used |-> b.used, waiting |-> b.waiting]
      /\ Len(b.waiting) \in Nat
  BY <1>1, HF!Places DEF HF!Account, HF!Balanced, HF!Orderly
<1>5. [b EXCEPT !.used = @ - t] = d
  <2>1. b.used + (-t) = b.used - t
    BY <1>3, <1>4
  <2> HIDE DEF t
  <2> QED
    BY <1>4, <2>1 DEF HF!Using
<1>6. Total(Bounds(A \ S), Key) = Total(Bounds(A), Key) - t
  <2>1. Total(Bounds(A), S) = t
    <3>1. \A x \in S : Bounds(A)[x] = MaxBytes
      BY <1>1 DEF Bounds
    <3> QED
      BY <1>2, <3>1, Numbers, TotalConstant
  <2>2. /\ \A x \in Key : Bounds(A)[x] \in Nat
        /\ \A x \in Key \ S : Bounds(A \ S)[x] = Bounds(A)[x]
        /\ \A x \in S : Bounds(A \ S)[x] = 0
    BY <1>1, Numbers DEF Bounds
  <2>3. Total(Bounds(A \ S), Key) = Total(Bounds(A), Key) - Total(Bounds(A), S)
    <3> DEFINE f == Bounds(A)
               g == Bounds(A \ S)
    <3>1. /\ \A x \in Key : f[x] \in Nat
          /\ \A x \in Key \ S : g[x] = f[x]
          /\ \A x \in S : g[x] = 0
          /\ IsFiniteSet(Key) /\ S \in SUBSET Key
      BY <1>1, <2>2, Numbers
    <3> HIDE DEF f, g
    <3>2. Total(g, Key) = Total(f, Key) - Total(f, S)
      BY <3>1, TotalZeroed
    <3> QED
      BY <3>2 DEF f, g
  <2> QED
    BY <2>1, <2>3, Zenon
<1> HIDE DEF t, s
<1>7. HF!Balanced(d, Bounds(A), Key, s + (-t)) /\ HF!Waiters(d) = HF!Waiters(b)
  <2>1. -t \in Int /\ b.used + (-t) <= HandoffBytes
    BY <1>3, <1>4, Numbers
  <2> QED
    BY <1>4, <2>1, Numbers, HF!UsingAccount
<1>8. HF!HeadWaits(d)
  <2>1. d.waiting = b.waiting
    BY DEF HF!Using
  <2>2. b.waiting # <<>> => Len(b.waiting) # 0
    <3>1. b.waiting \in Seq([who : Key, bytes : Nat])
      BY <1>4, HF!Places DEF HF!Balanced, HF!Orderly
    <3> QED
      BY <3>1, EmptySeq
  <2>3. ASSUME Len(b.waiting) # 0 PROVE FALSE
    <3>1. 1 \in 1..Len(b.waiting)
      BY <1>4, <2>3
    <3>2. b.waiting[1].who \in HF!Waiters(b)
      BY <3>1 DEF HF!Waiters
    <3> QED
      BY <1>1, <3>2
  <2> QED
    BY <2>1, <2>2, <2>3 DEF HF!HeadWaits
<1>9. HF!Account(d, Bounds(A), Key, s + (-t))
  BY <1>7, <1>8 DEF HF!Account
<1>10. HF!Account(d, Bounds(A \ S), Key,
                  s + (-t) + HF!Total(Bounds(A), Key) - HF!Total(Bounds(A \ S), Key))
  <2>1. \A w \in HF!Waiters(d) : Bounds(A \ S)[w] = Bounds(A)[w]
    BY <1>1, <1>7
  <2> QED
    BY <1>9, <2>1, BoundsType, HF!DueAccount
<1>11. s + (-t) + HF!Total(Bounds(A), Key) - HF!Total(Bounds(A \ S), Key) = s
  <2>1. HF!Total(Bounds(A), Key) = Total(Bounds(A), Key)
          /\ HF!Total(Bounds(A \ S), Key) = Total(Bounds(A \ S), Key)
    BY SameSums
  <2>2. Total(Bounds(A), Key) \in Nat /\ Total(Bounds(A \ S), Key) \in Nat
    <3>1. \A B : \A x \in Key : Bounds(B)[x] \in Nat
      BY Numbers DEF Bounds
    <3> QED
      BY <3>1, Numbers, TotalNat
  <2> QED
    BY <1>2, <1>3, <1>6, <2>1, <2>2
<1>12. HF!Account(d, Bounds(A \ S), Key, s)
  BY <1>10, <1>11, Zenon
<1>13. Handoff!Waiters(d) = {}
  BY <1>1, <1>7, SameHandoff
<1>14. Holds(d, A \ S, P)
  BY <1>1, <1>12, <1>13 DEF Holds, s
<1> QED
  BY <1>5, <1>13, <1>14 DEF t

-----------------------------------------------------------------------------
(* The work budget.                                                         *)

User == Key \cup Reader

(* The work budget holds what is due, and nothing else.                     *)
Works(b, due) == WF!Account(b, due, User, 0)

LEMMA WorksType ==
  ASSUME NEW b, NEW due, Works(b, due)
  PROVE  /\ due \in [User -> Nat]
         /\ Work!Waiters(b) \subseteq User
         /\ b.used \in Int /\ b.used <= WorkCapacity
         /\ Work!HeadWaits(b)
<1>1. WF!Orderly(b, due, User) /\ b.used <= WorkCapacity /\ WF!HeadWaits(b)
  BY DEF Works, WF!Account, WF!Balanced
<1>2. WF!Waiters(b) \subseteq User
  BY <1>1, WF!Totals
<1>3. b.used \in Int /\ due \in [User -> Nat]
  BY <1>1, WF!Places DEF WF!Orderly
<1> QED
  BY <1>1, <1>2, <1>3, SameWork

LEMMA WorksAsked ==
  ASSUME NEW b, NEW due, Works(b, due), NEW c \in User, c \notin Work!Waiters(b),
         NEW n \in Nat, due[c] = 0, ~Work!Refuses(b, n)
  PROVE  /\ Works(Work!Asked(b, c, n), [due EXCEPT ![c] = n])
         /\ Work!Waiters(Work!Asked(b, c, n)) \subseteq Work!Waiters(b) \cup {c}
<1> DEFINE d == Work!Asked(b, c, n)
<1>1. WF!Account(b, due, User, 0) /\ c \notin WF!Waiters(b) /\ ~WF!Refuses(b, n)
        /\ d = WF!Asked(b, c, n)
  BY SameWork DEF Works
<1>2. WF!Account(d, [due EXCEPT ![c] = n], User, 0) /\ WF!Waiters(d) \subseteq WF!Waiters(b) \cup {c}
  BY <1>1, Numbers, WF!AskedAccount
<1> HIDE DEF d
<1>3. Work!Waiters(d) \subseteq Work!Waiters(b) \cup {c}
  BY <1>2, SameWork, Zenon
<1> QED
  BY <1>2, <1>3 DEF Works, d

LEMMA WorksReleased ==
  ASSUME NEW b, NEW due, Works(b, due), NEW c \in User, c \notin Work!Waiters(b),
         NEW n \in Nat, due[c] = n
  PROVE  /\ Works(Work!Released(b, n), [due EXCEPT ![c] = 0])
         /\ Work!Waiters(Work!Released(b, n)) \subseteq Work!Waiters(b)
<1> DEFINE d == Work!Released(b, n)
<1>1. WF!Account(b, due, User, 0) /\ c \notin WF!Waiters(b) /\ d = WF!Released(b, n)
  BY SameWork DEF Works
<1> HIDE DEF d
<1>2. WF!Account(d, due, User, 0 - n) /\ WF!Waiters(d) \subseteq WF!Waiters(b)
  BY <1>1, Numbers, WF!ReleasedAccount
<1>3. WF!Account(d, [due EXCEPT ![c] = 0], User, 0 - n + due[c] - 0)
  BY <1>1, <1>2, WF!OwedAccount
<1>4. 0 - n + due[c] - 0 = 0
  OBVIOUS
<1>5. WF!Account(d, [due EXCEPT ![c] = 0], User, 0)
  BY <1>3, <1>4, Zenon
<1>6. Work!Waiters(d) \subseteq Work!Waiters(b)
  BY <1>2, SameWork, Zenon
<1> QED
  BY <1>5, <1>6 DEF Works, d

LEMMA WorksReserved ==
  ASSUME NEW b, NEW due, Works(b, due), NEW c \in User, c \notin Work!Waiters(b),
         NEW n \in Nat, Work!Fits(b, n)
  PROVE  /\ Works(Work!Reserved(b, n), [due EXCEPT ![c] = due[c] + n])
         /\ Work!Waiters(Work!Reserved(b, n)) = Work!Waiters(b)
<1> DEFINE d == Work!Reserved(b, n)
<1>1. WF!Account(b, due, User, 0) /\ c \notin WF!Waiters(b) /\ WF!Fits(b, n)
        /\ d = WF!Reserved(b, n)
  BY SameWork DEF Works
<1>2. due[c] \in Nat
  BY WorksType
<1> HIDE DEF d
<1>3. WF!Account(d, due, User, 0 + n) /\ WF!Waiters(d) = WF!Waiters(b)
  BY <1>1, Numbers, WF!ReservedAccount
<1>4. WF!Account(d, [due EXCEPT ![c] = due[c] + n], User, 0 + n + due[c] - (due[c] + n))
  BY <1>1, <1>2, <1>3, WF!OwedAccount
<1>5. 0 + n + due[c] - (due[c] + n) = 0
  BY <1>2
<1>6. WF!Account(d, [due EXCEPT ![c] = due[c] + n], User, 0)
  BY <1>4, <1>5, Zenon
<1>7. Work!Waiters(d) = Work!Waiters(b)
  BY <1>3, SameWork, Zenon
<1> QED
  BY <1>6, <1>7 DEF Works, d

LEMMA WorksLeft ==
  ASSUME NEW b, NEW due, Works(b, due), NEW c \in Work!Waiters(b)
  PROVE  /\ Works(Work!Left(b, c), [due EXCEPT ![c] = 0])
         /\ Work!Waiters(Work!Left(b, c)) \subseteq Work!Waiters(b) \ {c}
<1> DEFINE d == Work!Left(b, c)
<1>1. WF!Account(b, due, User, 0) /\ c \in WF!Waiters(b) /\ d = WF!Left(b, c)
  BY SameWork DEF Works
<1>2. WF!Account(d, [due EXCEPT ![c] = 0], User, 0)
        /\ WF!Waiters(d) \subseteq WF!Waiters(b) \ {c}
  BY <1>1, Numbers, WF!LeftAccount
<1> HIDE DEF d
<1>3. Work!Waiters(d) \subseteq Work!Waiters(b) \ {c}
  BY <1>2, SameWork, Zenon
<1> QED
  BY <1>2, <1>3 DEF Works, d

LEMMA WorksAborted ==
  ASSUME NEW b, NEW due, Works(b, due), NEW due2 \in [User -> Nat],
         \A c \in User : due2[c] = IF c \in Work!Aborting(b).refused THEN 0 ELSE due[c]
  PROVE  /\ Works(Work!Aborted(b), due2)
         /\ Work!Waiters(Work!Aborted(b)) = {}
         /\ Work!Aborting(b).refused \subseteq Work!Waiters(b)
<1>1. /\ WF!Account(b, due, User, 0)
      /\ \A c \in User : due2[c] = IF c \in WF!Aborting(b).refused THEN 0 ELSE due[c]
  BY SameWork DEF Works
<1>2. WorkCapacity \in Nat /\ MaxTasks \in Nat
  BY Numbers
<1>3. /\ WF!Account(WF!Aborted(b), due2, User, 0)
      /\ WF!Waiters(WF!Aborted(b)) = {}
      /\ WF!Aborting(b).refused \subseteq WF!Waiters(b)
  BY <1>1, <1>2, WF!AbortedAccount
<1>4. /\ WF!Account(Work!Aborted(b), due2, User, 0)
      /\ Work!Waiters(Work!Aborted(b)) = {}
      /\ Work!Aborting(b).refused \subseteq Work!Waiters(b)
  BY <1>3, SameWork, Zenon
<1> QED
  BY <1>4 DEF Works

-----------------------------------------------------------------------------
(* The invariant.                                                           *)

BuildStages == {"none", "handoff", "work", "retained", "refused"}
Stages == {"idle", "resolving", "ready", "restoring", "fetched",
           "acquiring", "opened", "sending", "done"}
Heavy == {"work", "retained", "refused"}
Moving == {"acquiring", "opened", "sending"}

Admitted(bld) == {k \in Key : bld[k] \in {"handoff", "work"}}

(* What is due of the work budget.                                          *)
Charge(bld, p, w) ==
  [c \in User |->
     IF c \in Key THEN IF bld[c] \in Heavy THEN WorkBytes ELSE 0
     ELSE IF p[c] \notin Moving THEN 0
     ELSE IF c \in Publisher /\ p[c] = "sending" THEN 3 * Size[w[c]]
     ELSE Size[w[c]]]

Claims(f) == DOMAIN f \subseteq Key /\ f \in [DOMAIN f -> Nat]

Typed ==
  /\ Claims(claims)
  /\ cache \subseteq CacheKeys
  /\ build \in [Key -> BuildStages]
  /\ pc \in [Reader -> Stages]
  /\ want \in [Reader -> Key]
  /\ promise \subseteq Viewer
  /\ leases \subseteq [key : Key, owners : SUBSET Reader,
                       why : {"resolving", "restoring"}]
  /\ IsFiniteSet(leases)
  /\ reads \in [Viewer -> 0..MaxReads]
  /\ \A v \in Viewer : pc[v] # "done" => reads[v] < MaxReads
  /\ late \in 0..MaxLate
  /\ service \in {"open", "closing", "closed"}

(* Only a build that has been admitted waits for its bound.                 *)
StoreExact ==
  /\ Holds(handoff, Admitted(build), DOMAIN claims)
  /\ \A k \in Handoff!Waiters(handoff) : build[k] = "handoff"

PoolExact ==
  /\ Works(work, Charge(build, pc, want))
  /\ \A c \in Work!Waiters(work) : \/ c \in Key /\ build[c] = "work"
                                   \/ c \in Reader /\ pc[c] = "acquiring"

EntriesExact ==
  reserved = Cardinality(Admitted(build)) /\ reserved <= MaxEntries

ClosedEmpty ==
  service = "closed" => DOMAIN claims = {} /\ Building = {} /\ cache = {}

Exact == Typed /\ StoreExact /\ PoolExact /\ EntriesExact /\ ClosedEmpty

-----------------------------------------------------------------------------
(* Claims.                                                                  *)

LEMMA ConsumedClaims ==
  ASSUME NEW f, Claims(f), NEW n \in [Key -> Nat]
  PROVE  Claims(Consumed(f, n)) /\ DOMAIN Consumed(f, n) \subseteq DOMAIN f
<1> DEFINE D == {k \in DOMAIN f : n[k] = 0 \/ f[k] > n[k]}
<1>1. Consumed(f, n) = [k \in D |-> f[k] - n[k]]
  BY DEF Consumed
<1>2. ASSUME NEW k \in D PROVE f[k] - n[k] \in Nat
  <2>1. f[k] \in Nat /\ n[k] \in Nat /\ (n[k] = 0 \/ f[k] > n[k])
    BY DEF Claims
  <2> QED
    BY <2>1
<1>3. D \subseteq DOMAIN f /\ D \subseteq Key
  BY DEF Claims
<1> HIDE DEF D
<1> QED
  BY <1>1, <1>2, <1>3 DEF Claims

LEMMA ForsakenClaims ==
  ASSUME NEW f, Claims(f), IsFiniteSet(leases), NEW rs
  PROVE  Claims(Forsaken(f, rs)) /\ DOMAIN Forsaken(f, rs) \subseteq DOMAIN f
<1> DEFINE n == [k \in Key |-> Cardinality({l \in LeasesOf(rs) : l.key = k})]
<1>1. ASSUME NEW k \in Key PROVE Cardinality({l \in LeasesOf(rs) : l.key = k}) \in Nat
  <2>1. {l \in LeasesOf(rs) : l.key = k} \subseteq leases
    BY DEF LeasesOf
  <2> QED
    BY <2>1, FS_Subset, FS_CardinalityType
<1>2. n \in [Key -> Nat]
  BY <1>1
<1>3. Forsaken(f, rs) = Consumed(f, n)
  BY DEF Forsaken
<1> HIDE DEF n
<1> QED
  BY <1>2, <1>3, ConsumedClaims

LEMMA DroppedClaims ==
  ASSUME NEW f, Claims(f), NEW k
  PROVE  Claims(DropUnclaimed(f, k)) /\ DOMAIN DropUnclaimed(f, k) \subseteq DOMAIN f
BY DEF Claims, DropUnclaimed

LEMMA ClaimedClaims ==
  ASSUME NEW f, Claims(f), NEW k \in Key, NEW n \in Nat
  PROVE  Claims(Claimed(f, k, n)) /\ DOMAIN Claimed(f, k, n) = DOMAIN f \cup {k}
BY DEF Claims, Claimed

-----------------------------------------------------------------------------
(* What every action needs to say of the budgets.                           *)

LEMMA ChargeType ==
  ASSUME NEW bld, NEW p, NEW w \in [Reader -> Key]
  PROVE  /\ Charge(bld, p, w) \in [User -> Nat]
         /\ \A k \in Key : Charge(bld, p, w)[k] = IF bld[k] \in Heavy THEN WorkBytes ELSE 0
         /\ \A r \in Reader : Charge(bld, p, w)[r] =
              IF p[r] \notin Moving THEN 0
              ELSE IF r \in Publisher /\ p[r] = "sending" THEN 3 * Size[w[r]]
              ELSE Size[w[r]]
<1>1. \A r \in Reader : r \notin Key /\ Size[w[r]] \in Nat /\ 3 * Size[w[r]] \in Nat
  BY Numbers
<1> QED
  BY <1>1, Numbers DEF Charge, User

(* Nothing that the work budget is about has changed.                       *)
LEMMA PoolSame ==
  ASSUME PoolExact, work' = work, want' = want,
         \A k \in Key : /\ build'[k] \in Heavy <=> build[k] \in Heavy
                        /\ k \in Work!Waiters(work) => build'[k] = build[k],
         \A r \in Reader : /\ pc'[r] \in Moving <=> pc[r] \in Moving
                           /\ r \in Publisher => (pc'[r] = "sending" <=> pc[r] = "sending")
                           /\ r \in Work!Waiters(work) => pc'[r] = pc[r]
  PROVE  PoolExact'
<1>1. Charge(build', pc', want') = Charge(build, pc, want)
  BY DEF Charge, User
<1>2. Works(work, Charge(build, pc, want))
  BY DEF PoolExact
<1>3. Works(work', Charge(build', pc', want'))
  BY <1>1, <1>2, Zenon
<1> QED
  BY <1>3 DEF PoolExact

(* What is due to one user has changed.                                     *)
LEMMA PoolMoves ==
  ASSUME PoolExact, want' = want, NEW c \in User, NEW n,
         Works(work', [Charge(build, pc, want) EXCEPT ![c] = n]),
         n = Charge(build', pc', want)[c],
         Work!Waiters(work') \subseteq Work!Waiters(work) \cup {c},
         c \in Work!Waiters(work') => \/ c \in Key /\ build'[c] = "work"
                                      \/ c \in Reader /\ pc'[c] = "acquiring",
         \A k \in Key \ {c} : /\ build'[k] \in Heavy <=> build[k] \in Heavy
                              /\ k \in Work!Waiters(work) => build'[k] = build[k],
         \A r \in Reader \ {c} :
              /\ pc'[r] \in Moving <=> pc[r] \in Moving
              /\ r \in Publisher => (pc'[r] = "sending" <=> pc[r] = "sending")
              /\ r \in Work!Waiters(work) => pc'[r] = pc[r]
  PROVE  PoolExact'
<1>1. Charge(build', pc', want') = [Charge(build, pc, want) EXCEPT ![c] = n]
  <2> DEFINE f == Charge(build, pc, want)
             g == Charge(build', pc', want)
  <2>1. ASSUME NEW x \in User, x # c PROVE g[x] = f[x]
    BY <2>1 DEF Charge, User
  <2>2. f = [x \in User |-> f[x]] /\ g = [x \in User |-> g[x]]
    BY DEF Charge
  <2>3. g[c] = n
    OBVIOUS
  <2> HIDE DEF f, g
  <2>4. g = [f EXCEPT ![c] = n]
    BY <2>1, <2>2, <2>3
  <2> QED
    BY <2>4 DEF f, g
<1>2. Works(work', Charge(build', pc', want'))
  BY <1>1, Zenon
<1> QED
  BY <1>2 DEF PoolExact

(* The requests rs fail.                                                    *)
LEMMA Stopped ==
  ASSUME Typed, NEW rs, NEW b, NEW f, Claims(f), NEW A,
         Holds(b, A, DOMAIN claims \cup DOMAIN f), Stop(rs, b, f)
  PROVE  /\ Claims(claims') /\ DOMAIN claims' \subseteq DOMAIN f
         /\ Holds(handoff', A, DOMAIN claims')
         /\ Handoff!Waiters(handoff') \subseteq Handoff!Waiters(b)
         /\ leases' \subseteq leases /\ IsFiniteSet(leases')
         /\ pc' \in [Reader -> Stages]
         /\ \A r \in Reader : IF r \in rs THEN pc'[r] \in {"idle", "ready"}
                              ELSE pc'[r] = pc[r]
<1> DEFINE g == Forsaken(f, rs)
           h == [k \in Pinned \cup DOMAIN f |-> 0]
<1>1. /\ claims' = g /\ handoff' = Unpinned(b, h, g)
      /\ leases' = leases \ LeasesOf(rs)
      /\ pc' = [r \in Reader |-> IF r \notin rs THEN pc[r]
                                 ELSE IF r \in promise THEN "ready" ELSE "idle"]
  BY DEF Stop
<1>2. Claims(g) /\ DOMAIN g \subseteq DOMAIN f
  BY ForsakenClaims DEF Typed
<1> HIDE DEF g
<1>3. DOMAIN h = DOMAIN claims \cup DOMAIN f
  BY DEF Pinned
<1> HIDE DEF h
<1>4. Holds(b, A, DOMAIN h)
  BY <1>3, Zenon
<1>5. Holds(handoff', A, DOMAIN g) /\ Handoff!Waiters(handoff') \subseteq Handoff!Waiters(b)
  BY <1>1, <1>2, <1>3, <1>4, HoldsUnpinned
<1>6. leases' \subseteq leases /\ IsFiniteSet(leases')
  BY <1>1, FS_Subset DEF Typed
<1>7. ASSUME NEW r \in Reader
      PROVE  IF r \in rs THEN pc'[r] \in {"idle", "ready"} ELSE pc'[r] = pc[r]
  BY <1>1
<1>8. pc' \in [Reader -> Stages]
  <2>1. pc' = [r \in Reader |-> pc'[r]]
    BY <1>1
  <2>2. \A r \in Reader : pc'[r] \in Stages
    BY <1>7 DEF Typed, Stages
  <2> QED
    BY <2>1, <2>2, Zenon
<1> QED
  BY <1>1, <1>2, <1>5, <1>6, <1>7, <1>8, Zenon

-----------------------------------------------------------------------------
(* The actions, one by one.                                                 *)

(* The store accounts for the pins of f, and nobody waits that did not.     *)
Covers(b, f) ==
  /\ Claims(f)
  /\ Holds(b, Admitted(build), DOMAIN f)
  /\ DOMAIN claims \subseteq DOMAIN f
  /\ Handoff!Waiters(b) \subseteq Handoff!Waiters(handoff)
  /\ service = "closed" => DOMAIN f = {}

LEMMA CoversItself ==
  ASSUME Exact
  PROVE  Covers(handoff, claims)
BY DEF Exact, Typed, StoreExact, ClosedEmpty, Covers

(* Who waits for work bytes.                                                *)
LEMMA PoolWaiters ==
  ASSUME Exact
  PROVE  /\ \A k \in Key : k \in Work!Waiters(work) => build[k] = "work"
         /\ \A r \in Reader : r \in Work!Waiters(work) => pc[r] = "acquiring"
BY Numbers DEF Exact, PoolExact

LEMMA StopKeeps ==
  ASSUME Exact, NEW rs, rs \subseteq Reader, NEW b, NEW f, Covers(b, f),
         \A r \in rs : pc[r] \notin Moving /\ pc[r] # "done",
         Stop(rs, b, f),
         UNCHANGED <<reserved, build, work, promise, cache, want, reads, late, service>>
  PROVE  Exact'
<1>1. DOMAIN claims \cup DOMAIN f = DOMAIN f
  BY DEF Covers
<1>2. Holds(b, Admitted(build), DOMAIN claims \cup DOMAIN f)
  BY <1>1, Zenon DEF Covers
<1>3. /\ Claims(claims') /\ DOMAIN claims' \subseteq DOMAIN f
      /\ Holds(handoff', Admitted(build), DOMAIN claims')
      /\ Handoff!Waiters(handoff') \subseteq Handoff!Waiters(b)
      /\ leases' \subseteq leases /\ IsFiniteSet(leases')
      /\ pc' \in [Reader -> Stages]
      /\ \A r \in Reader : IF r \in rs THEN pc'[r] \in {"idle", "ready"}
                           ELSE pc'[r] = pc[r]
  BY <1>2, Stopped DEF Exact, Covers
<1>4. Typed'
  <2>1. \A v \in Viewer : pc'[v] # "done" => reads[v] < MaxReads
    BY <1>3 DEF Exact, Typed, Reader
  <2> QED
    BY <1>3, <2>1 DEF Exact, Typed
<1>5. StoreExact'
  <2>1. Holds(handoff', Admitted(build'), DOMAIN claims')
    BY <1>3
  <2>2. \A k \in Handoff!Waiters(handoff') : build'[k] = "handoff"
    BY <1>3 DEF Exact, StoreExact, Covers
  <2> QED
    BY <2>1, <2>2 DEF StoreExact
<1>6. PoolExact'
  <2>1. \A r \in Reader : /\ pc'[r] \in Moving <=> pc[r] \in Moving
                          /\ r \in Publisher => (pc'[r] = "sending" <=> pc[r] = "sending")
                          /\ r \in Work!Waiters(work) => pc'[r] = pc[r]
    BY <1>3, PoolWaiters DEF Moving
  <2> QED
    BY <2>1, PoolSame DEF Exact
<1>7. EntriesExact'
  BY DEF Exact, EntriesExact
<1>8. ClosedEmpty'
  BY <1>3 DEF Exact, ClosedEmpty, Covers, Building
<1> QED
  BY <1>4, <1>5, <1>6, <1>7, <1>8 DEF Exact

LEMMA AdmittedAdd ==
  ASSUME Exact, NEW k \in Key, build[k] \notin {"handoff", "work"},
         NEW st \in {"handoff", "work"}, build' = [build EXCEPT ![k] = st]
  PROVE  /\ Admitted(build') = Admitted(build) \cup {k}
         /\ k \notin Admitted(build)
         /\ Cardinality(Admitted(build')) = Cardinality(Admitted(build)) + 1
<1>1. Admitted(build') = Admitted(build) \cup {k} /\ k \notin Admitted(build)
  BY DEF Admitted, Exact, Typed
<1>2. IsFiniteSet(Admitted(build))
  BY Numbers, FS_Subset DEF Admitted
<1>3. Cardinality(Admitted(build) \cup {k}) = Cardinality(Admitted(build)) + 1
  BY <1>1, <1>2, FS_AddElement
<1> QED
  BY <1>1, <1>3, Zenon

LEMMA AdmittedRemove ==
  ASSUME Exact, NEW S, S \subseteq Admitted(build),
         \A k \in Key : IF k \in S THEN build'[k] \notin {"handoff", "work"}
                        ELSE build'[k] \in {"handoff", "work"}
                               <=> build[k] \in {"handoff", "work"}
  PROVE  /\ Admitted(build') = Admitted(build) \ S
         /\ Cardinality(Admitted(build')) = Cardinality(Admitted(build)) - Cardinality(S)
         /\ Cardinality(Admitted(build)) \in Nat /\ Cardinality(S) \in Nat
<1>1. Admitted(build') = Admitted(build) \ S
  BY DEF Admitted
<1>2. IsFiniteSet(Admitted(build))
  BY Numbers, FS_Subset DEF Admitted
<1>3. /\ Cardinality(Admitted(build) \ S) = Cardinality(Admitted(build)) - Cardinality(S)
      /\ Cardinality(Admitted(build)) \in Nat /\ Cardinality(S) \in Nat
  <2>1. Admitted(build) \cap S = S
    OBVIOUS
  <2>2. IsFiniteSet(S) /\ Cardinality(Admitted(build) \ S)
          = Cardinality(Admitted(build)) - Cardinality(Admitted(build) \cap S)
    BY <1>2, FS_Difference, FS_Subset
  <2>3. Cardinality(Admitted(build) \cap S) = Cardinality(S)
    BY <2>1, Zenon
  <2>4. Cardinality(Admitted(build)) \in Nat /\ Cardinality(S) \in Nat
    BY <1>2, <2>2, FS_CardinalityType
  <2> QED
    BY <2>2, <2>3, <2>4
<1>4. Cardinality(Admitted(build')) = Cardinality(Admitted(build) \ S)
  BY <1>1, Zenon
<1> QED
  BY <1>1, <1>3, <1>4

LEMMA JoinKeeps ==
  ASSUME Exact, NEW r \in Reader, pc[r] \in {"idle", "ready"},
         NEW stage \in {"resolving", "restoring"}, Join(r, stage),
         UNCHANGED <<work, promise, cache, want, reads, late, service>>
  PROVE  Exact'
<1> DEFINE k == want[r]
<1>1. k \in Key
  BY DEF Exact, Typed
<1>2. ASSUME pc' = [pc EXCEPT ![r] = stage]
      PROVE  /\ pc' \in [Reader -> Stages]
             /\ \A v \in Viewer : pc'[v] # "done" => reads[v] < MaxReads
             /\ \A x \in Reader :
                  /\ pc'[x] \in Moving <=> pc[x] \in Moving
                  /\ x \in Publisher => (pc'[x] = "sending" <=> pc[x] = "sending")
                  /\ x \in Work!Waiters(work) => pc'[x] = pc[x]
  <2>1. pc \in [Reader -> Stages] /\ stage \in Stages
    BY DEF Exact, Typed, Stages
  <2>2. \A x \in Reader : pc'[x] = IF x = r THEN stage ELSE pc[x]
    BY <1>2, <2>1
  <2> QED
    BY <1>2, <2>1, <2>2, PoolWaiters DEF Exact, Typed, Moving, Reader
<1> HIDE DEF k
<1>3. CASE /\ service = "open" /\ build[k] # "none"
           /\ pc' = [pc EXCEPT ![r] = stage]
           /\ UNCHANGED <<handoff, reserved, claims, leases, build>>
  <2>1. Typed' /\ StoreExact' /\ EntriesExact' /\ ClosedEmpty'
    BY <1>2, <1>3 DEF Exact, Typed, StoreExact, EntriesExact, ClosedEmpty, Building
  <2>2. PoolExact'
    BY <1>2, <1>3, PoolSame DEF Exact
  <2> QED
    BY <2>1, <2>2 DEF Exact
<1>4. CASE /\ service = "open" /\ build[k] = "none" /\ CanBuild
           /\ pc' = [pc EXCEPT ![r] = stage]
           /\ build' = [build EXCEPT ![k] = "handoff"]
           /\ handoff' = Handoff!Asked(handoff, k, MaxBytes)
           /\ reserved' = reserved + 1
           /\ UNCHANGED <<claims, leases>>
  <2>1. /\ Admitted(build') = Admitted(build) \cup {k}
        /\ k \notin Admitted(build)
        /\ Cardinality(Admitted(build')) = Cardinality(Admitted(build)) + 1
    BY <1>1, <1>4, AdmittedAdd
  <2>2. \A x \in Key : build'[x] = IF x = k THEN "handoff" ELSE build[x]
    BY <1>4 DEF Exact, Typed
  <2>3. Typed'
    <3>1. build' \in [Key -> BuildStages]
      BY <1>1, <1>4 DEF Exact, Typed, BuildStages
    <3> QED
      BY <1>2, <1>4, <3>1 DEF Exact, Typed
  <2>4. StoreExact'
    <3>1. Holds(handoff, Admitted(build), DOMAIN claims)
      BY DEF Exact, StoreExact
    <3>2. ~Handoff!Refuses(handoff, MaxBytes)
      BY <1>4 DEF CanBuild
    <3>3. /\ Holds(handoff', Admitted(build) \cup {k}, DOMAIN claims)
          /\ Handoff!Waiters(handoff') \subseteq Handoff!Waiters(handoff) \cup {k}
      BY <1>1, <1>4, <2>1, <3>1, <3>2, HoldsAsked
    <3>4. Holds(handoff', Admitted(build'), DOMAIN claims')
      BY <1>4, <2>1, <3>3, Zenon
    <3>5. Handoff!Waiters(handoff) \subseteq Key
      BY <3>1 DEF Holds
    <3>6. \A x \in Handoff!Waiters(handoff') : build'[x] = "handoff"
      BY <1>1, <2>2, <3>3, <3>5 DEF Exact, StoreExact
    <3> QED
      BY <3>4, <3>6 DEF StoreExact
  <2>5. PoolExact'
    <3>1. \A x \in Key : /\ build'[x] \in Heavy <=> build[x] \in Heavy
                         /\ x \in Work!Waiters(work) => build'[x] = build[x]
      BY <1>4, <2>2, PoolWaiters DEF Heavy
    <3> QED
      BY <1>2, <1>4, <3>1, PoolSame DEF Exact
  <2>6. EntriesExact'
    <3>1. Cardinality(Pinned) \in Nat
      BY Sizes, FS_CardinalityType DEF Exact, Typed, Claims, Pinned
    <3>2. Cardinality(Admitted(build)) \in Nat
      BY Numbers, FS_Subset, FS_CardinalityType DEF Admitted
    <3>3. reserved = Cardinality(Admitted(build)) /\ Cardinality(Pinned) + reserved < MaxEntries
      BY <1>4 DEF Exact, EntriesExact, CanBuild
    <3>4. reserved' = Cardinality(Admitted(build')) /\ reserved' <= MaxEntries
      BY <1>4, <2>1, <3>1, <3>2, <3>3, Numbers
    <3> QED
      BY <3>4 DEF EntriesExact
  <2>7. ClosedEmpty'
    BY <1>4 DEF ClosedEmpty
  <2> QED
    BY <2>3, <2>4, <2>5, <2>6, <2>7 DEF Exact
<1>5. CASE /\ service # "open" \/ (build[k] = "none" /\ ~CanBuild)
           /\ Stop({r}, handoff, claims)
           /\ UNCHANGED <<reserved, build>>
  <2>1. \A x \in {r} : pc[x] \notin Moving /\ pc[x] # "done"
    BY DEF Moving
  <2> QED
    BY <1>5, <2>1, CoversItself, StopKeeps
<1> QED
  BY <1>3, <1>4, <1>5 DEF Join, k

(* What is available is leased.                                             *)
LEMMA LeaseCovers ==
  ASSUME Exact, NEW k \in Key, CanLease(k), NEW n \in Nat
  PROVE  /\ Covers(Leased(k), Claimed(claims, k, n))
         /\ DOMAIN Claimed(claims, k, n) = DOMAIN claims \cup {k}
         /\ service # "closed"
<1>1. /\ Claims(Claimed(claims, k, n))
      /\ DOMAIN Claimed(claims, k, n) = DOMAIN claims \cup {k}
  BY ClaimedClaims DEF Exact, Typed
<1>2. service # "closed"
  BY DEF Exact, ClosedEmpty, CanLease, Pinned
<1>3. Holds(handoff, Admitted(build), DOMAIN claims)
  BY DEF Exact, StoreExact
<1>4. /\ Holds(Leased(k), Admitted(build), DOMAIN claims \cup {k})
      /\ Handoff!Waiters(Leased(k)) \subseteq Handoff!Waiters(handoff)
  <2>1. CASE k \in DOMAIN claims
    <3>1. Leased(k) = handoff /\ DOMAIN claims \cup {k} = DOMAIN claims
      BY <2>1 DEF Leased, Pinned
    <3> QED
      BY <1>3, <3>1, Zenon
  <2>2. CASE k \notin DOMAIN claims
    <3>1. Leased(k) = Handoff!Reserved(handoff, Size[k]) /\ Handoff!Fits(handoff, Size[k])
      BY <2>2 DEF Leased, CanLease, Pinned
    <3>2. /\ Holds(Handoff!Reserved(handoff, Size[k]), Admitted(build), DOMAIN claims \cup {k})
          /\ Handoff!Waiters(Handoff!Reserved(handoff, Size[k])) = Handoff!Waiters(handoff)
      BY <1>3, <2>2, <3>1, HoldsReserved
    <3> QED
      BY <3>1, <3>2, Zenon
  <2> QED
    BY <2>1, <2>2
<1>5. Holds(Leased(k), Admitted(build), DOMAIN Claimed(claims, k, n))
  BY <1>1, <1>4, Zenon
<1> QED
  BY <1>1, <1>2, <1>4, <1>5 DEF Covers

(* Pins come or go, and no build moves.                                     *)
LEMMA CoveredKeeps ==
  ASSUME Exact, NEW b, NEW f, Covers(b, f), claims' = f, handoff' = b,
         UNCHANGED <<reserved, build, cache, service>>
  PROVE  StoreExact' /\ EntriesExact' /\ ClosedEmpty'
<1>1. StoreExact'
  <2>1. Holds(handoff', Admitted(build'), DOMAIN claims')
    BY DEF Covers
  <2>2. \A k \in Handoff!Waiters(handoff') : build'[k] = "handoff"
    BY DEF Exact, StoreExact, Covers
  <2> QED
    BY <2>1, <2>2 DEF StoreExact
<1>2. EntriesExact' /\ ClosedEmpty'
  BY DEF Exact, EntriesExact, ClosedEmpty, Covers, Building
<1> QED
  BY <1>1, <1>2

LEMMA UnpinnedKeeps ==
  ASSUME Exact, NEW g, Claims(g), DOMAIN g \subseteq DOMAIN claims,
         claims' = g, handoff' = Unpinned(handoff, claims, g),
         UNCHANGED <<reserved, build, cache, service>>
  PROVE  StoreExact' /\ EntriesExact' /\ ClosedEmpty'
<1>1. Holds(handoff, Admitted(build), DOMAIN claims)
  BY DEF Exact, StoreExact
<1>2. /\ Holds(Unpinned(handoff, claims, g), Admitted(build), DOMAIN g)
      /\ Handoff!Waiters(Unpinned(handoff, claims, g)) \subseteq Handoff!Waiters(handoff)
  BY <1>1, HoldsUnpinned
<1>3. StoreExact'
  <2>1. Holds(handoff', Admitted(build'), DOMAIN claims')
    BY <1>2
  <2>2. \A k \in Handoff!Waiters(handoff') : build'[k] = "handoff"
    BY <1>2 DEF Exact, StoreExact
  <2> QED
    BY <2>1, <2>2 DEF StoreExact
<1>4. EntriesExact' /\ ClosedEmpty'
  BY DEF Exact, EntriesExact, ClosedEmpty, Building
<1> QED
  BY <1>3, <1>4

LEMMA OnceType == ASSUME NEW k PROVE Once(k) \in [Key -> Nat]
BY DEF Once

(* One request moves on.                                                    *)
LEMMA StageType ==
  ASSUME Exact, NEW r \in Reader, NEW st \in Stages, pc' = [pc EXCEPT ![r] = st]
  PROVE  /\ pc' \in [Reader -> Stages]
         /\ \A x \in Reader : pc'[x] = IF x = r THEN st ELSE pc[x]
BY DEF Exact, Typed

LEMMA PromiseKeeps ==
  ASSUME Exact, NEW v \in Viewer, Promise(v)
  PROVE  Exact'
<1>1. v \in Reader /\ want[v] \in Key
  BY DEF Exact, Typed, Reader
<1>2. Covers(Leased(want[v]), Claimed(claims, want[v], 1))
  BY <1>1, LeaseCovers DEF Promise
<1>3. StoreExact' /\ EntriesExact' /\ ClosedEmpty'
  BY <1>2, CoveredKeeps DEF Promise
<1>4. pc' \in [Reader -> Stages] /\ \A x \in Reader : pc'[x] = IF x = v THEN "ready" ELSE pc[x]
  BY <1>1, StageType DEF Promise, Stages
<1>5. Typed'
  <2>1. Claims(claims')
    BY <1>2 DEF Covers, Promise
  <2>2. \A x \in Viewer : pc'[x] # "done" => reads[x] < MaxReads
    BY <1>4 DEF Exact, Typed, Promise, Reader
  <2> QED
    BY <1>4, <2>1, <2>2 DEF Exact, Typed, Promise
<1>6. PoolExact'
  <2>1. \A x \in Reader : /\ pc'[x] \in Moving <=> pc[x] \in Moving
                          /\ x \in Publisher => (pc'[x] = "sending" <=> pc[x] = "sending")
                          /\ x \in Work!Waiters(work) => pc'[x] = pc[x]
    BY <1>4, PoolWaiters DEF Moving, Promise
  <2> QED
    BY <2>1, PoolSame DEF Exact, Promise
<1> QED
  BY <1>3, <1>5, <1>6 DEF Exact

LEMMA CancelKeeps ==
  ASSUME Exact, NEW v \in Viewer, Cancel(v)
  PROVE  Exact'
<1> DEFINE g == Consumed(claims, Once(want[v]))
<1>1. v \in Reader /\ claims' = g /\ handoff' = Unpinned(handoff, claims, g)
  BY DEF Cancel, Reader
<1>2. Claims(g) /\ DOMAIN g \subseteq DOMAIN claims
  BY OnceType, ConsumedClaims DEF Exact, Typed
<1> HIDE DEF g
<1>3. StoreExact' /\ EntriesExact' /\ ClosedEmpty'
  BY <1>1, <1>2, UnpinnedKeeps DEF Cancel
<1>4. pc' \in [Reader -> Stages] /\ \A x \in Reader : pc'[x] = IF x = v THEN "done" ELSE pc[x]
  BY <1>1, StageType DEF Cancel, Stages
<1>5. Typed'
  <2>1. \A x \in Viewer : pc'[x] # "done" => reads[x] < MaxReads
    BY <1>4 DEF Exact, Typed, Reader
  <2> QED
    BY <1>1, <1>2, <1>4, <2>1 DEF Exact, Typed, Cancel
<1>6. PoolExact'
  <2>1. \A x \in Reader : /\ pc'[x] \in Moving <=> pc[x] \in Moving
                          /\ x \in Publisher => (pc'[x] = "sending" <=> pc[x] = "sending")
                          /\ x \in Work!Waiters(work) => pc'[x] = pc[x]
    BY <1>4, PoolWaiters DEF Moving, Cancel
  <2> QED
    BY <2>1, PoolSame DEF Exact, Cancel
<1> QED
  BY <1>3, <1>5, <1>6 DEF Exact

LEMMA DiscardKeeps ==
  ASSUME Exact, NEW p \in Publisher, Discard(p)
  PROVE  Exact'
<1> DEFINE g == DropUnclaimed(Forsaken(claims, {p}), want[p])
<1>1. p \in Reader /\ p \notin Viewer
        /\ claims' = g /\ handoff' = Unpinned(handoff, claims, g)
  BY Numbers DEF Discard, Reader
<1>2. Claims(g) /\ DOMAIN g \subseteq DOMAIN claims
  <2>1. /\ Claims(Forsaken(claims, {p}))
        /\ DOMAIN Forsaken(claims, {p}) \subseteq DOMAIN claims
    BY ForsakenClaims DEF Exact, Typed
  <2> QED
    BY <2>1, DroppedClaims
<1> HIDE DEF g
<1>3. StoreExact' /\ EntriesExact' /\ ClosedEmpty'
  BY <1>1, <1>2, UnpinnedKeeps DEF Discard
<1>4. pc' \in [Reader -> Stages] /\ \A x \in Reader : pc'[x] = IF x = p THEN "done" ELSE pc[x]
  BY <1>1, StageType DEF Discard, Stages
<1>5. Typed'
  <2>1. \A x \in Viewer : pc'[x] # "done" => reads[x] < MaxReads
    BY <1>1, <1>4 DEF Exact, Typed, Reader
  <2>2. leases' \subseteq leases /\ IsFiniteSet(leases')
    BY FS_Subset DEF Exact, Typed, Discard
  <2> QED
    BY <1>1, <1>2, <1>4, <2>1, <2>2 DEF Exact, Typed, Discard
<1>6. PoolExact'
  <2>1. \A x \in Reader : /\ pc'[x] \in Moving <=> pc[x] \in Moving
                          /\ x \in Publisher => (pc'[x] = "sending" <=> pc[x] = "sending")
                          /\ x \in Work!Waiters(work) => pc'[x] = pc[x]
    BY <1>4, PoolWaiters DEF Moving, Discard
  <2> QED
    BY <2>1, PoolSame DEF Exact, Discard
<1> QED
  BY <1>3, <1>5, <1>6 DEF Exact

LEMMA AskKeeps ==
  ASSUME Exact, NEW r \in Reader, pc[r] \in {"ready", "fetched"},
         NEW b, NEW f, Covers(b, f), Ask(r, b, f),
         UNCHANGED <<reserved, build, promise, cache, want, reads, late, service>>
  PROVE  Exact'
<1>1. CASE /\ service = "open" /\ ~Work!Refuses(work, Size[want[r]])
           /\ work' = Work!Asked(work, r, Size[want[r]])
           /\ pc' = [pc EXCEPT ![r] = "acquiring"]
           /\ handoff' = b /\ claims' = f
           /\ UNCHANGED leases
  <2>1. StoreExact' /\ EntriesExact' /\ ClosedEmpty'
    BY <1>1, CoveredKeeps
  <2>2. /\ pc' \in [Reader -> Stages]
        /\ \A x \in Reader : pc'[x] = IF x = r THEN "acquiring" ELSE pc[x]
    BY <1>1, StageType DEF Stages
  <2>3. Typed'
    <3>1. Claims(claims')
      BY <1>1 DEF Covers
    <3>2. \A x \in Viewer : pc'[x] # "done" => reads[x] < MaxReads
      BY <2>2 DEF Exact, Typed, Reader
    <3> QED
      BY <1>1, <2>2, <3>1, <3>2 DEF Exact, Typed
  <2>4. PoolExact'
    <3> DEFINE due == Charge(build, pc, want)
               n == Size[want[r]]
    <3>1. Works(work, due) /\ want \in [Reader -> Key] /\ r \in User
      BY DEF Exact, Typed, PoolExact, User
    <3>2. r \notin Work!Waiters(work) /\ n \in Nat
      BY <3>1, PoolWaiters, Numbers
    <3>3. due[r] = 0
      BY <3>1, ChargeType DEF Moving
    <3>4. n = Charge(build', pc', want)[r]
      <4>1. pc'[r] = "acquiring"
        BY <2>2
      <4> QED
        BY <3>1, <4>1, ChargeType DEF Moving
    <3> HIDE DEF due, n
    <3>5. /\ Works(work', [due EXCEPT ![r] = n])
          /\ Work!Waiters(work') \subseteq Work!Waiters(work) \cup {r}
      BY <1>1, <3>1, <3>2, <3>3, WorksAsked DEF n
    <3>6. /\ \A k \in Key \ {r} : /\ build'[k] \in Heavy <=> build[k] \in Heavy
                                  /\ k \in Work!Waiters(work) => build'[k] = build[k]
          /\ \A x \in Reader \ {r} :
               /\ pc'[x] \in Moving <=> pc[x] \in Moving
               /\ x \in Publisher => (pc'[x] = "sending" <=> pc[x] = "sending")
               /\ x \in Work!Waiters(work) => pc'[x] = pc[x]
          /\ pc'[r] = "acquiring"
      BY <2>2
    <3> QED
      BY <3>1, <3>4, <3>5, <3>6, PoolMoves DEF Exact, due
  <2> QED
    BY <2>1, <2>3, <2>4 DEF Exact
<1>2. CASE /\ service # "open" \/ Work!Refuses(work, Size[want[r]])
           /\ Stop({r}, b, f)
           /\ UNCHANGED work
  <2>1. \A x \in {r} : pc[x] \notin Moving /\ pc[x] # "done"
    BY DEF Moving
  <2> QED
    BY <1>2, <2>1, StopKeeps
<1> QED
  BY <1>1, <1>2 DEF Ask

LEMMA ReadKeeps ==
  ASSUME Exact, NEW r \in Reader, Read(r)
  PROVE  Exact'
<1>1. pc[r] = "ready" /\ want[r] \in Key
        /\ UNCHANGED <<promise, cache, want, reads, late, service>>
  BY DEF Read, Exact, Typed
<1>2. CASE Join(r, "restoring") /\ UNCHANGED work
  BY <1>1, <1>2, JoinKeeps
<1>3. CASE /\ CanLease(want[r])
           /\ Ask(r, Leased(want[r]), Claimed(claims, want[r], 0))
           /\ UNCHANGED <<reserved, build>>
  <2>1. Covers(Leased(want[r]), Claimed(claims, want[r], 0))
    BY <1>1, <1>3, LeaseCovers
  <2> QED
    BY <1>1, <1>3, <2>1, AskKeeps
<1>4. CASE Stop({r}, handoff, claims) /\ UNCHANGED <<work, reserved, build>>
  <2>1. \A x \in {r} : pc[x] \notin Moving /\ pc[x] # "done"
    BY <1>1 DEF Moving
  <2> QED
    BY <1>1, <1>4, <2>1, CoversItself, StopKeeps
<1> QED
  BY <1>2, <1>3, <1>4 DEF Read

LEMMA AcquireKeeps ==
  ASSUME Exact, NEW r \in Reader, Acquire(r)
  PROVE  Exact'
BY CoversItself, AskKeeps DEF Acquire

(* The builds ks and the requests rs fail: what is left to show is what     *)
(* becomes of the work bytes.                                               *)
LEMMA FailMost ==
  ASSUME Exact, NEW ks, ks \subseteq Key, NEW rs, rs \subseteq Reader,
         \A r \in rs : pc[r] # "done",
         NEW b, NEW f, Claims(f),
         Holds(b, Admitted(build) \ ks, DOMAIN claims \cup DOMAIN f),
         Handoff!Waiters(b) \subseteq Handoff!Waiters(handoff) \ ks,
         Stop(rs, b, f),
         build' \in [Key -> BuildStages],
         \A k \in Key : build'[k] = IF k \in ks THEN "none" ELSE build[k],
         reserved' = reserved - Cardinality(ks \cap Admitted(build)),
         UNCHANGED <<promise, cache, want, reads>>, late' \in 0..MaxLate,
         service' \in {"open", "closing", "closed"},
         service' = "closed" => service = "closed" /\ DOMAIN f = {}
  PROVE  /\ Typed' /\ StoreExact' /\ EntriesExact' /\ ClosedEmpty'
         /\ \A r \in Reader : IF r \in rs THEN pc'[r] \in {"idle", "ready"}
                              ELSE pc'[r] = pc[r]
<1>1. /\ Claims(claims') /\ DOMAIN claims' \subseteq DOMAIN f
      /\ Holds(handoff', Admitted(build) \ ks, DOMAIN claims')
      /\ Handoff!Waiters(handoff') \subseteq Handoff!Waiters(b)
      /\ leases' \subseteq leases /\ IsFiniteSet(leases')
      /\ pc' \in [Reader -> Stages]
      /\ \A r \in Reader : IF r \in rs THEN pc'[r] \in {"idle", "ready"}
                           ELSE pc'[r] = pc[r]
  BY Stopped DEF Exact
<1>2. Typed'
  <2>1. \A v \in Viewer : pc'[v] # "done" => reads[v] < MaxReads
    BY <1>1 DEF Exact, Typed, Reader
  <2> QED
    BY <1>1, <2>1 DEF Exact, Typed
<1> DEFINE S == ks \cap Admitted(build)
<1>3. /\ Admitted(build') = Admitted(build) \ S
      /\ Cardinality(Admitted(build')) = Cardinality(Admitted(build)) - Cardinality(S)
      /\ Cardinality(Admitted(build)) \in Nat /\ Cardinality(S) \in Nat
  <2>1. S \subseteq Admitted(build)
    OBVIOUS
  <2>2. \A k \in Key : IF k \in S THEN build'[k] \notin {"handoff", "work"}
                       ELSE build'[k] \in {"handoff", "work"}
                              <=> build[k] \in {"handoff", "work"}
    BY DEF Admitted
  <2> HIDE DEF S
  <2> QED
    BY <2>1, <2>2, AdmittedRemove
<1>4. Admitted(build) \ S = Admitted(build) \ ks
  OBVIOUS
<1>5. StoreExact'
  <2>1. Holds(handoff', Admitted(build'), DOMAIN claims')
    BY <1>1, <1>3, <1>4, Zenon
  <2>2. \A k \in Handoff!Waiters(handoff') : k \in Key /\ build'[k] = "handoff"
    <3>1. Handoff!Waiters(handoff) \subseteq Key
      BY DEF Exact, StoreExact, Holds
    <3> QED
      BY <1>1, <3>1 DEF Exact, StoreExact
  <2> QED
    BY <2>1, <2>2 DEF StoreExact
<1>6. EntriesExact'
  <2> HIDE DEF S
  <2>1. reserved' = Cardinality(Admitted(build')) /\ reserved' <= MaxEntries
    <3>1. reserved = Cardinality(Admitted(build)) /\ reserved <= MaxEntries
      BY DEF Exact, EntriesExact
    <3>2. reserved' = reserved - Cardinality(S)
      BY DEF S
    <3> QED
      BY <1>3, <3>1, <3>2, Numbers
  <2> QED
    BY <2>1 DEF EntriesExact
<1>7. ClosedEmpty'
  BY <1>1 DEF Exact, ClosedEmpty, Building
<1> QED
  BY <1>1, <1>2, <1>5, <1>6, <1>7

LEMMA StopMost ==
  ASSUME Exact, NEW rs, rs \subseteq Reader, NEW b, NEW f, Covers(b, f),
         \A r \in rs : pc[r] # "done", Stop(rs, b, f),
         UNCHANGED <<reserved, build, promise, cache, want, reads, service>>,
         late' \in 0..MaxLate
  PROVE  /\ Typed' /\ StoreExact' /\ EntriesExact' /\ ClosedEmpty'
         /\ \A r \in Reader : IF r \in rs THEN pc'[r] \in {"idle", "ready"}
                              ELSE pc'[r] = pc[r]
<1> DEFINE ks == {}
<1>1. /\ Admitted(build) \ ks = Admitted(build)
      /\ DOMAIN claims \cup DOMAIN f = DOMAIN f
      /\ ks \cap Admitted(build) = {}
  BY DEF Covers
<1>2. Holds(b, Admitted(build) \ ks, DOMAIN claims \cup DOMAIN f)
  BY <1>1, Zenon DEF Covers
<1>3. reserved' = reserved - Cardinality(ks \cap Admitted(build))
  <2>1. Cardinality(ks \cap Admitted(build)) = 0
    BY <1>1, FS_EmptySet
  <2>2. reserved \in Nat
    BY Numbers, FS_Subset, FS_CardinalityType DEF Exact, EntriesExact, Admitted
  <2> HIDE DEF ks
  <2> QED
    BY <2>1, <2>2
<1>4. /\ Handoff!Waiters(b) \subseteq Handoff!Waiters(handoff) \ ks
      /\ ks \subseteq Key /\ Claims(f)
      /\ build' \in [Key -> BuildStages]
      /\ \A k \in Key : build'[k] = IF k \in ks THEN "none" ELSE build[k]
      /\ service' \in {"open", "closing", "closed"}
      /\ service' = "closed" => service = "closed" /\ DOMAIN f = {}
      /\ UNCHANGED <<promise, cache, want, reads>>
  BY DEF Covers, Exact, Typed
<1> HIDE DEF ks
<1> QED
  BY <1>2, <1>3, <1>4, FailMost

LEMMA OpenKeeps ==
  ASSUME Exact, NEW r \in Reader, Open(r)
  PROVE  Exact'
<1> DEFINE k == want[r]
<1>1. /\ pc[r] = "acquiring" /\ r \notin Work!Waiters(work)
      /\ UNCHANGED <<reserved, promise, cache, build, want, reads, late, service>>
  BY DEF Open
<1>2. CASE /\ Available(k)
           /\ pc' = [pc EXCEPT ![r] =
                       IF r \in Viewer /\ LeasesOf({r}) = {} THEN "sending" ELSE "opened"]
           /\ UNCHANGED <<work, handoff, claims, leases>>
  <2> DEFINE st == IF r \in Viewer /\ LeasesOf({r}) = {} THEN "sending" ELSE "opened"
  <2>1. st \in {"sending", "opened"} /\ (r \in Publisher => st = "opened")
    BY Numbers
  <2> HIDE DEF st
  <2>2. pc' = [pc EXCEPT ![r] = st]
    BY <1>2 DEF st
  <2>3. /\ pc' \in [Reader -> Stages]
        /\ \A x \in Reader : pc'[x] = IF x = r THEN st ELSE pc[x]
    BY <2>1, <2>2, StageType DEF Stages
  <2>4. Typed'
    <3>1. \A x \in Viewer : pc'[x] # "done" => reads[x] < MaxReads
      BY <1>1, <2>3 DEF Exact, Typed, Reader
    <3> QED
      BY <1>1, <1>2, <2>3, <3>1 DEF Exact, Typed
  <2>5. StoreExact' /\ EntriesExact' /\ ClosedEmpty'
    BY <1>1, <1>2 DEF Exact, StoreExact, EntriesExact, ClosedEmpty, Building
  <2>6. PoolExact'
    <3>1. \A x \in Reader : /\ pc'[x] \in Moving <=> pc[x] \in Moving
                            /\ x \in Publisher => (pc'[x] = "sending" <=> pc[x] = "sending")
                            /\ x \in Work!Waiters(work) => pc'[x] = pc[x]
      BY <1>1, <2>1, <2>3 DEF Moving
    <3> QED
      BY <1>1, <1>2, <3>1, PoolSame DEF Exact
  <2> QED
    BY <2>4, <2>5, <2>6 DEF Exact
<1>3. CASE /\ ~Available(k)
           /\ work' = Work!Released(work, Size[k])
           /\ Stop({r}, handoff, claims)
  <2>1. late' \in 0..MaxLate /\ \A x \in {r} : pc[x] # "done"
    BY <1>1 DEF Exact, Typed
  <2>2. /\ Typed' /\ StoreExact' /\ EntriesExact' /\ ClosedEmpty'
        /\ \A x \in Reader : IF x \in {r} THEN pc'[x] \in {"idle", "ready"}
                             ELSE pc'[x] = pc[x]
    BY <1>1, <1>3, <2>1, CoversItself, StopMost
  <2>3. PoolExact'
    <3> DEFINE due == Charge(build, pc, want)
               n == Size[k]
    <3>1. Works(work, due) /\ want \in [Reader -> Key] /\ r \in User
      BY DEF Exact, Typed, PoolExact, User
    <3>2. n \in Nat
      BY <3>1, Numbers
    <3>3. due[r] = n
      BY <1>1, <3>1, ChargeType DEF Moving
    <3>4. 0 = Charge(build', pc', want)[r]
      <4>1. pc'[r] \notin Moving
        BY <2>2 DEF Moving
      <4> QED
        BY <3>1, <4>1, ChargeType
    <3> HIDE DEF due, n
    <3>5. /\ Works(work', [due EXCEPT ![r] = 0])
          /\ Work!Waiters(work') \subseteq Work!Waiters(work)
      BY <1>1, <1>3, <3>1, <3>2, <3>3, WorksReleased DEF n
    <3>6. /\ \A x \in Key \ {r} : /\ build'[x] \in Heavy <=> build[x] \in Heavy
                                  /\ x \in Work!Waiters(work) => build'[x] = build[x]
          /\ \A x \in Reader \ {r} :
               /\ pc'[x] \in Moving <=> pc[x] \in Moving
               /\ x \in Publisher => (pc'[x] = "sending" <=> pc[x] = "sending")
               /\ x \in Work!Waiters(work) => pc'[x] = pc[x]
          /\ r \notin Work!Waiters(work')
          /\ Work!Waiters(work') \subseteq Work!Waiters(work) \cup {r}
      BY <1>1, <2>2, <3>5
    <3> QED
      BY <1>1, <3>1, <3>4, <3>5, <3>6, PoolMoves DEF Exact, due
  <2> QED
    BY <2>2, <2>3 DEF Exact
<1> QED
  BY <1>2, <1>3 DEF Open

LEMMA ReturnKeeps ==
  ASSUME Exact, NEW v \in Viewer, Return(v)
  PROVE  Exact'
<1> DEFINE g == Forsaken(claims, {v})
<1>1. /\ v \in Reader /\ v \notin Publisher /\ pc[v] = "opened"
      /\ claims' = g /\ handoff' = Unpinned(handoff, claims, g)
  BY Numbers DEF Return, Reader
<1>2. Claims(g) /\ DOMAIN g \subseteq DOMAIN claims
  BY ForsakenClaims DEF Exact, Typed
<1> HIDE DEF g
<1>3. StoreExact' /\ EntriesExact' /\ ClosedEmpty'
  BY <1>1, <1>2, UnpinnedKeeps DEF Return
<1>4. /\ pc' \in [Reader -> Stages]
      /\ \A x \in Reader : pc'[x] = IF x = v THEN "sending" ELSE pc[x]
  BY <1>1, StageType DEF Return, Stages
<1>5. Typed'
  <2>1. \A x \in Viewer : pc'[x] # "done" => reads[x] < MaxReads
    BY <1>1, <1>4 DEF Exact, Typed, Reader
  <2>2. leases' \subseteq leases /\ IsFiniteSet(leases')
    BY FS_Subset DEF Exact, Typed, Return
  <2> QED
    BY <1>1, <1>2, <1>4, <2>1, <2>2 DEF Exact, Typed, Return
<1>6. PoolExact'
  <2>1. \A x \in Reader : /\ pc'[x] \in Moving <=> pc[x] \in Moving
                          /\ x \in Publisher => (pc'[x] = "sending" <=> pc[x] = "sending")
                          /\ x \in Work!Waiters(work) => pc'[x] = pc[x]
    BY <1>1, <1>4, PoolWaiters DEF Moving
  <2> QED
    BY <2>1, PoolSame DEF Exact, Return
<1> QED
  BY <1>3, <1>5, <1>6 DEF Exact

(* A transfer gives back what it held.                                      *)
LEMMA PoolReturns ==
  ASSUME Exact, NEW r \in Reader, pc[r] \in {"opened", "sending"}, NEW n,
         n = Charge(build, pc, want)[r],
         work' = Work!Released(work, n), UNCHANGED <<build, want>>,
         \A x \in Reader : IF x = r THEN pc'[x] \notin Moving ELSE pc'[x] = pc[x]
  PROVE  PoolExact'
<1> DEFINE due == Charge(build, pc, want)
<1>1. Works(work, due) /\ want \in [Reader -> Key] /\ r \in User
  BY DEF Exact, Typed, PoolExact, User
<1>2. r \notin Work!Waiters(work) /\ n \in Nat
  BY <1>1, PoolWaiters, WorksType
<1>3. 0 = Charge(build', pc', want)[r]
  BY <1>1, ChargeType
<1> HIDE DEF due
<1>4. /\ Works(work', [due EXCEPT ![r] = 0])
      /\ Work!Waiters(work') \subseteq Work!Waiters(work)
  BY <1>1, <1>2, WorksReleased DEF due
<1>5. /\ \A k \in Key \ {r} : /\ build'[k] \in Heavy <=> build[k] \in Heavy
                              /\ k \in Work!Waiters(work) => build'[k] = build[k]
      /\ \A x \in Reader \ {r} :
           /\ pc'[x] \in Moving <=> pc[x] \in Moving
           /\ x \in Publisher => (pc'[x] = "sending" <=> pc[x] = "sending")
           /\ x \in Work!Waiters(work) => pc'[x] = pc[x]
      /\ r \notin Work!Waiters(work')
      /\ Work!Waiters(work') \subseteq Work!Waiters(work) \cup {r}
  BY <1>2, <1>4
<1> QED
  BY <1>1, <1>3, <1>4, <1>5, PoolMoves DEF Exact, due

LEMMA FinishKeeps ==
  ASSUME Exact, NEW v \in Viewer, Finish(v)
  PROVE  Exact'
<1> DEFINE g == Consumed(claims, Once(want[v]))
           st == IF reads[v] + 1 < MaxReads THEN "ready" ELSE "done"
<1>1. /\ v \in Reader /\ v \notin Publisher /\ pc[v] = "sending"
      /\ claims' = g /\ handoff' = Unpinned(handoff, claims, g)
  BY Numbers DEF Finish, Reader
<1>2. Claims(g) /\ DOMAIN g \subseteq DOMAIN claims
  BY OnceType, ConsumedClaims DEF Exact, Typed
<1> HIDE DEF g
<1>3. StoreExact' /\ EntriesExact' /\ ClosedEmpty'
  BY <1>1, <1>2, UnpinnedKeeps DEF Finish
<1>4. pc' \in [Reader -> Stages] /\ \A x \in Reader : pc'[x] = IF x = v THEN st ELSE pc[x]
  <2>1. st \in Stages /\ pc' = [pc EXCEPT ![v] = st]
    BY DEF Finish, Stages
  <2> HIDE DEF st
  <2> QED
    BY <1>1, <2>1, StageType
<1>5. Typed'
  <2>1. /\ reads' = [reads EXCEPT ![v] = reads[v] + 1]
        /\ reads[v] \in 0..MaxReads /\ reads[v] < MaxReads
    BY <1>1 DEF Exact, Typed, Finish
  <2>2. reads[v] + 1 \in 0..MaxReads /\ (st # "done" => reads[v] + 1 < MaxReads)
    BY <2>1, Numbers
  <2> HIDE DEF st
  <2>3. reads' \in [Viewer -> 0..MaxReads]
    BY <2>1, <2>2 DEF Exact, Typed
  <2>4. \A x \in Viewer : reads'[x] = IF x = v THEN reads[v] + 1 ELSE reads[x]
    BY <2>1 DEF Exact, Typed
  <2>5. \A x \in Viewer : pc'[x] # "done" => reads'[x] < MaxReads
    BY <1>4, <2>2, <2>4 DEF Exact, Typed, Reader
  <2> QED
    BY <1>1, <1>2, <1>4, <2>3, <2>5 DEF Exact, Typed, Finish
<1>6. PoolExact'
  <2>1. Size[want[v]] = Charge(build, pc, want)[v]
    BY <1>1, ChargeType DEF Exact, Typed, Moving
  <2>2. \A x \in Reader : IF x = v THEN pc'[x] \notin Moving ELSE pc'[x] = pc[x]
    BY <1>4 DEF Moving
  <2> QED
    BY <1>1, <2>1, <2>2, PoolReturns DEF Finish
<1> QED
  BY <1>3, <1>5, <1>6 DEF Exact

LEMMA VerifyKeeps ==
  ASSUME Exact, NEW p \in Publisher, Verify(p)
  PROVE  Exact'
<1> DEFINE n == Size[want[p]]
           due == Charge(build, pc, want)
<1>1. /\ p \in Reader /\ p \notin Viewer /\ p \in User /\ pc[p] = "opened"
      /\ want \in [Reader -> Key] /\ n \in Nat /\ p \notin Work!Waiters(work)
  BY Numbers, PoolWaiters DEF Verify, Reader, User, Exact, Typed
<1>2. /\ pc' \in [Reader -> Stages]
      /\ \A x \in Reader : pc'[x] = IF x = p THEN "sending" ELSE pc[x]
  BY <1>1, StageType DEF Verify, Stages
<1>3. Typed'
  <2>1. \A x \in Viewer : pc'[x] # "done" => reads[x] < MaxReads
    BY <1>1, <1>2 DEF Exact, Typed, Reader
  <2> QED
    BY <1>2, <2>1 DEF Exact, Typed, Verify, pins
<1>4. StoreExact' /\ EntriesExact' /\ ClosedEmpty'
  BY DEF Exact, StoreExact, EntriesExact, ClosedEmpty, Building, Verify, pins
<1>5. PoolExact'
  <2>1. Works(work, due) /\ due[p] = n
    BY <1>1, ChargeType DEF Exact, PoolExact, Moving
  <2>2. due[p] + 2 * n = Charge(build', pc', want)[p]
    <3>1. Charge(build', pc', want)[p] = 3 * n
      BY <1>1, <1>2, ChargeType DEF Moving
    <3> HIDE DEF n, due
    <3> QED
      BY <1>1, <2>1, <3>1
  <2>3. 2 * n \in Nat
    BY <1>1
  <2>4. /\ Works(work', [due EXCEPT ![p] = due[p] + 2 * n])
        /\ Work!Waiters(work') = Work!Waiters(work)
    <3> HIDE DEF due
    <3> QED
      BY <1>1, <2>1, <2>3, WorksReserved DEF Verify
  <2>5. /\ \A k \in Key \ {p} : /\ build'[k] \in Heavy <=> build[k] \in Heavy
                                /\ k \in Work!Waiters(work) => build'[k] = build[k]
        /\ \A x \in Reader \ {p} :
             /\ pc'[x] \in Moving <=> pc[x] \in Moving
             /\ x \in Publisher => (pc'[x] = "sending" <=> pc[x] = "sending")
             /\ x \in Work!Waiters(work) => pc'[x] = pc[x]
        /\ p \notin Work!Waiters(work')
        /\ Work!Waiters(work') \subseteq Work!Waiters(work) \cup {p}
        /\ want' = want
    BY <1>1, <1>2, <2>4 DEF Verify
  <2> HIDE DEF n
  <2> QED
    BY <1>1, <2>2, <2>4, <2>5, PoolMoves DEF Exact
<1> QED
  BY <1>3, <1>4, <1>5 DEF Exact

LEMMA PublishedKeeps ==
  ASSUME Exact, NEW p \in Publisher, Published(p)
  PROVE  Exact'
<1> DEFINE g == Forsaken(DropUnclaimed(claims, want[p]), {p})
           st == IF pc[p] = "sending" THEN "done" ELSE "idle"
<1>1. /\ p \in Reader /\ p \notin Viewer /\ pc[p] \in {"sending", "opened"}
      /\ claims' = g /\ handoff' = Unpinned(handoff, claims, g)
      /\ want[p] \in Key
  BY Numbers DEF Published, Reader, Exact, Typed
<1>2. Claims(g) /\ DOMAIN g \subseteq DOMAIN claims
  <2>1. /\ Claims(DropUnclaimed(claims, want[p]))
        /\ DOMAIN DropUnclaimed(claims, want[p]) \subseteq DOMAIN claims
    BY DroppedClaims DEF Exact, Typed
  <2>2. /\ Claims(g) /\ DOMAIN g \subseteq DOMAIN DropUnclaimed(claims, want[p])
    BY <2>1, ForsakenClaims DEF Exact, Typed
  <2> QED
    BY <2>1, <2>2
<1> HIDE DEF g
<1>3. StoreExact' /\ EntriesExact' /\ ClosedEmpty'
  BY <1>1, <1>2, UnpinnedKeeps DEF Published
<1>4. pc' \in [Reader -> Stages] /\ \A x \in Reader : pc'[x] = IF x = p THEN st ELSE pc[x]
  <2>1. st \in Stages /\ pc' = [pc EXCEPT ![p] = st]
    BY DEF Published, Stages
  <2> HIDE DEF st
  <2> QED
    BY <1>1, <2>1, StageType
<1>5. Typed'
  <2>1. \A x \in Viewer : pc'[x] # "done" => reads[x] < MaxReads
    BY <1>1, <1>4 DEF Exact, Typed, Reader
  <2>2. leases' \subseteq leases /\ IsFiniteSet(leases')
    BY FS_Subset DEF Exact, Typed, Published
  <2> QED
    BY <1>1, <1>2, <1>4, <2>1, <2>2 DEF Exact, Typed, Published
<1>6. PoolExact'
  <2>1. (IF pc[p] = "sending" THEN 3 ELSE 1) * Size[want[p]] = Charge(build, pc, want)[p]
    <3>1. Size[want[p]] \in Nat
      BY <1>1, Numbers
    <3>2. Charge(build, pc, want)[p]
            = IF pc[p] = "sending" THEN 3 * Size[want[p]] ELSE Size[want[p]]
      BY <1>1, ChargeType DEF Exact, Typed, Moving
    <3> QED
      BY <3>1, <3>2
  <2>2. \A x \in Reader : IF x = p THEN pc'[x] \notin Moving ELSE pc'[x] = pc[x]
    BY <1>4 DEF Moving
  <2> QED
    BY <1>1, <2>1, <2>2, PoolReturns DEF Published
<1> QED
  BY <1>3, <1>5, <1>6 DEF Exact

-----------------------------------------------------------------------------
(* Builds.                                                                  *)

LEMMA ImageFinite ==
  ASSUME NEW S, IsFiniteSet(S), NEW f
  PROVE  IsFiniteSet({f[x] : x \in S})
<1> DEFINE g == [x \in S |-> f[x]]
           T == {f[x] : x \in S}
<1>1. g \in Surjection(S, T)
  BY DEF Surjection
<1> HIDE DEF g, T
<1>2. IsFiniteSet(T)
  BY <1>1, FS_Surjection
<1> QED
  BY <1>2 DEF T

LEMMA JoinersStage ==
  ASSUME NEW ks
  PROVE  /\ Joiners(ks) \subseteq Reader
         /\ \A r \in Joiners(ks) : pc[r] \in {"resolving", "restoring"}
BY DEF Joiners, Joined

(* The build of k is no longer admitted.                                    *)
LEMMA EntriesDrop ==
  ASSUME Exact, NEW k \in Key, build'[k] \notin {"handoff", "work"},
         \A x \in Key \ {k} : build'[x] = build[x],
         reserved' = IF k \in Admitted(build) THEN reserved - 1 ELSE reserved
  PROVE  /\ Admitted(build') = Admitted(build) \ {k}
         /\ EntriesExact'
<1> DEFINE S == {k} \cap Admitted(build)
<1>1. S \subseteq Admitted(build) /\ Admitted(build) \ S = Admitted(build) \ {k}
  OBVIOUS
<1>2. \A x \in Key : IF x \in S THEN build'[x] \notin {"handoff", "work"}
                     ELSE build'[x] \in {"handoff", "work"}
                            <=> build[x] \in {"handoff", "work"}
  BY DEF Admitted
<1>3. Cardinality(S) = IF k \in Admitted(build) THEN 1 ELSE 0
  <2>1. CASE k \in Admitted(build)
    <3>1. S = {k}
      BY <2>1
    <3>2. Cardinality(S) = 1
      BY <3>1, FS_Singleton, Zenon
    <3> QED
      BY <2>1, <3>2
  <2>2. CASE k \notin Admitted(build)
    <3>1. S = {}
      BY <2>2
    <3>2. Cardinality(S) = 0
      BY <3>1, FS_EmptySet, Zenon
    <3> QED
      BY <2>2, <3>2
  <2> QED
    BY <2>1, <2>2
<1> HIDE DEF S
<1>4. /\ Admitted(build') = Admitted(build) \ S
      /\ Cardinality(Admitted(build')) = Cardinality(Admitted(build)) - Cardinality(S)
      /\ Cardinality(Admitted(build)) \in Nat /\ Cardinality(S) \in Nat
  BY <1>1, <1>2, AdmittedRemove
<1>5. reserved = Cardinality(Admitted(build)) /\ reserved <= MaxEntries
  BY DEF Exact, EntriesExact
<1>6. reserved' = Cardinality(Admitted(build')) /\ reserved' <= MaxEntries
  <2>1. CASE k \in Admitted(build)
    BY <1>3, <1>4, <1>5, <2>1, Numbers
  <2>2. CASE k \notin Admitted(build)
    BY <1>3, <1>4, <1>5, <2>2, Numbers
  <2> QED
    BY <2>1, <2>2
<1> QED
  BY <1>1, <1>4, <1>6 DEF EntriesExact

(* The build of k fails: what is left to show is what becomes of its work   *)
(* bytes.                                                                   *)
LEMMA BuildFailsMost ==
  ASSUME Exact, NEW k \in Key, NEW b, NEW f, Claims(f), DOMAIN f \subseteq DOMAIN claims,
         Holds(b, Admitted(build) \ {k}, DOMAIN claims),
         Handoff!Waiters(b) \subseteq Handoff!Waiters(handoff) \ {k},
         BuildsFail({k}, b, f),
         reserved' = IF k \in Admitted(build) THEN reserved - 1 ELSE reserved,
         UNCHANGED <<promise, cache, want, reads, service>>, late' \in 0..MaxLate
  PROVE  /\ Typed' /\ StoreExact' /\ EntriesExact' /\ ClosedEmpty'
         /\ \A x \in Key : build'[x] = IF x = k THEN "none" ELSE build[x]
         /\ \A r \in Reader : \/ pc'[r] = pc[r]
                              \/ pc'[r] \notin Moving /\ pc[r] \notin Moving
<1> DEFINE rs == Joiners({k})
<1>1. /\ Stop(rs, b, f)
      /\ build' = [x \in Key |-> IF x \in {k} THEN "none" ELSE build[x]]
  BY DEF BuildsFail
<1>2. rs \subseteq Reader /\ \A r \in rs : pc[r] \in {"resolving", "restoring"}
  BY JoinersStage
<1> HIDE DEF rs
<1>3. \A x \in Key : build'[x] = IF x \in {k} THEN "none" ELSE build[x]
  BY <1>1
<1>4. build' \in [Key -> BuildStages]
  BY <1>1 DEF Exact, Typed, BuildStages
<1>5. reserved' = reserved - Cardinality({k} \cap Admitted(build))
  <2>1. reserved \in Nat
    BY Numbers, FS_Subset, FS_CardinalityType DEF Exact, EntriesExact, Admitted
  <2>2. CASE k \in Admitted(build)
    <3>1. {k} \cap Admitted(build) = {k}
      BY <2>2
    <3>2. Cardinality({k} \cap Admitted(build)) = 1
      BY <3>1, FS_Singleton, Zenon
    <3> QED
      BY <2>2, <3>2
  <2>3. CASE k \notin Admitted(build)
    <3>1. {k} \cap Admitted(build) = {}
      BY <2>3
    <3>2. Cardinality({k} \cap Admitted(build)) = 0
      BY <3>1, FS_EmptySet, Zenon
    <3> QED
      BY <2>1, <2>3, <3>2
  <2> QED
    BY <2>2, <2>3
<1>6. DOMAIN claims \cup DOMAIN f = DOMAIN claims
  OBVIOUS
<1>7. Holds(b, Admitted(build) \ {k}, DOMAIN claims \cup DOMAIN f)
  BY <1>6, Zenon
<1>8. /\ service' \in {"open", "closing", "closed"}
      /\ service' = "closed" => service = "closed" /\ DOMAIN f = {}
      /\ UNCHANGED <<promise, cache, want, reads>>
      /\ \A r \in rs : pc[r] # "done"
  BY <1>2 DEF Exact, Typed, ClosedEmpty
<1>9. /\ Typed' /\ StoreExact' /\ EntriesExact' /\ ClosedEmpty'
      /\ \A r \in Reader : IF r \in rs THEN pc'[r] \in {"idle", "ready"}
                           ELSE pc'[r] = pc[r]
  <2> DEFINE ks == {k}
  <2>1. /\ ks \subseteq Key
        /\ Handoff!Waiters(b) \subseteq Handoff!Waiters(handoff) \ ks
        /\ Holds(b, Admitted(build) \ ks, DOMAIN claims \cup DOMAIN f)
        /\ \A x \in Key : build'[x] = IF x \in ks THEN "none" ELSE build[x]
        /\ reserved' = reserved - Cardinality(ks \cap Admitted(build))
    BY <1>3, <1>5, <1>7
  <2>2. Stop(rs, b, f) /\ rs \subseteq Reader
    BY <1>1, <1>2
  <2> HIDE DEF ks
  <2> QED
    BY <1>4, <1>8, <2>1, <2>2, FailMost, ZenonT(30)
<1>10. \A r \in Reader : \/ pc'[r] = pc[r]
                         \/ pc'[r] \notin Moving /\ pc[r] \notin Moving
  BY <1>2, <1>9 DEF Moving
<1> QED
  BY <1>3, <1>9, <1>10

(* A build ends and gives its work bytes back.                              *)
LEMMA PoolBuildEnds ==
  ASSUME Exact, NEW k \in Key, build[k] \in Heavy, k \notin Work!Waiters(work),
         work' = Work!Released(work, WorkBytes), want' = want,
         build'[k] \notin Heavy, \A x \in Key \ {k} : build'[x] = build[x],
         \A r \in Reader : \/ pc'[r] = pc[r]
                           \/ pc'[r] \notin Moving /\ pc[r] \notin Moving
  PROVE  PoolExact'
<1> DEFINE due == Charge(build, pc, want)
<1>1. Works(work, due) /\ want \in [Reader -> Key] /\ k \in User
  BY DEF Exact, Typed, PoolExact, User
<1>2. due[k] = WorkBytes /\ 0 = Charge(build', pc', want)[k]
  BY <1>1, ChargeType
<1> HIDE DEF due
<1>3. /\ Works(work', [due EXCEPT ![k] = 0])
      /\ Work!Waiters(work') \subseteq Work!Waiters(work)
  BY <1>1, <1>2, WorksReleased, Numbers
<1>4. /\ \A x \in Key \ {k} : /\ build'[x] \in Heavy <=> build[x] \in Heavy
                              /\ x \in Work!Waiters(work) => build'[x] = build[x]
      /\ \A r \in Reader \ {k} :
           /\ pc'[r] \in Moving <=> pc[r] \in Moving
           /\ r \in Publisher => (pc'[r] = "sending" <=> pc[r] = "sending")
           /\ r \in Work!Waiters(work) => pc'[r] = pc[r]
      /\ k \notin Work!Waiters(work')
      /\ Work!Waiters(work') \subseteq Work!Waiters(work) \cup {k}
  BY <1>3, PoolWaiters DEF Moving
<1> QED
  BY <1>1, <1>2, <1>3, <1>4, PoolMoves DEF Exact, due

(* A build that holds its bound, gives it back and fails.                   *)
LEMMA BoundReturned ==
  ASSUME Exact, NEW k \in Key, build[k] \in {"handoff", "work"},
         k \notin Handoff!Waiters(handoff)
  PROVE  /\ k \in Admitted(build)
         /\ Holds(Handoff!Released(handoff, MaxBytes), Admitted(build) \ {k}, DOMAIN claims)
         /\ Handoff!Waiters(Handoff!Released(handoff, MaxBytes))
              \subseteq Handoff!Waiters(handoff) \ {k}
<1>1. k \in Admitted(build) /\ Holds(handoff, Admitted(build), DOMAIN claims)
  BY DEF Admitted, Exact, StoreExact
<1> QED
  BY <1>1, HoldsReleased

LEMMA AskWorkKeeps ==
  ASSUME Exact, NEW k \in Key, AskWork(k)
  PROVE  Exact'
<1>1. /\ build[k] = "handoff" /\ k \notin Handoff!Waiters(handoff)
      /\ UNCHANGED <<promise, cache, want, reads, late, service>>
      /\ k \notin Work!Waiters(work)
  BY PoolWaiters DEF AskWork
<1>2. CASE /\ service = "open" /\ ~Work!Refuses(work, WorkBytes)
           /\ work' = Work!Asked(work, k, WorkBytes)
           /\ build' = [build EXCEPT ![k] = "work"]
           /\ UNCHANGED <<handoff, reserved, claims, leases, pc>>
  <2>1. \A x \in Key : build'[x] = IF x = k THEN "work" ELSE build[x]
    BY <1>2 DEF Exact, Typed
  <2>2. Typed'
    <3>1. build' \in [Key -> BuildStages]
      BY <1>2 DEF Exact, Typed, BuildStages
    <3> QED
      BY <1>1, <1>2, <3>1 DEF Exact, Typed
  <2>3. Admitted(build') = Admitted(build)
    BY <1>1, <2>1 DEF Admitted
  <2>4. StoreExact'
    <3>1. Holds(handoff, Admitted(build), DOMAIN claims)
      BY DEF Exact, StoreExact
    <3>2. Holds(handoff', Admitted(build'), DOMAIN claims')
      BY <1>2, <2>3, <3>1
    <3>3. \A x \in Handoff!Waiters(handoff') : build'[x] = "handoff"
      <4>1. Handoff!Waiters(handoff) \subseteq Key
        BY <3>1 DEF Holds
      <4> QED
        BY <1>1, <1>2, <2>1, <4>1 DEF Exact, StoreExact
    <3> QED
      BY <3>2, <3>3 DEF StoreExact
  <2>5. EntriesExact' /\ ClosedEmpty'
    <3>1. EntriesExact'
      BY <1>2, <2>3 DEF Exact, EntriesExact
    <3>2. ClosedEmpty'
      BY <1>1, <1>2 DEF ClosedEmpty
    <3> QED
      BY <3>1, <3>2
  <2>6. PoolExact'
    <3> DEFINE due == Charge(build, pc, want)
    <3>1. Works(work, due) /\ want \in [Reader -> Key] /\ k \in User
      BY DEF Exact, Typed, PoolExact, User
    <3>2. due[k] = 0 /\ WorkBytes = Charge(build', pc', want)[k]
      BY <1>1, <2>1, <3>1, ChargeType DEF Heavy
    <3> HIDE DEF due
    <3>3. /\ Works(work', [due EXCEPT ![k] = WorkBytes])
          /\ Work!Waiters(work') \subseteq Work!Waiters(work) \cup {k}
      BY <1>1, <1>2, <3>1, <3>2, WorksAsked, Numbers
    <3>4. /\ \A x \in Key \ {k} : /\ build'[x] \in Heavy <=> build[x] \in Heavy
                                  /\ x \in Work!Waiters(work) => build'[x] = build[x]
          /\ \A r \in Reader \ {k} :
               /\ pc'[r] \in Moving <=> pc[r] \in Moving
               /\ r \in Publisher => (pc'[r] = "sending" <=> pc[r] = "sending")
               /\ r \in Work!Waiters(work) => pc'[r] = pc[r]
          /\ build'[k] = "work" /\ want' = want
      BY <1>1, <1>2, <2>1
    <3> QED
      BY <3>1, <3>2, <3>3, <3>4, PoolMoves DEF Exact, due
  <2> QED
    BY <2>2, <2>4, <2>5, <2>6 DEF Exact
<1>3. CASE /\ service # "open" \/ Work!Refuses(work, WorkBytes)
           /\ BuildsFail({k}, Handoff!Released(handoff, MaxBytes), claims)
           /\ reserved' = reserved - 1
           /\ UNCHANGED work
  <2>1. /\ k \in Admitted(build)
        /\ Holds(Handoff!Released(handoff, MaxBytes), Admitted(build) \ {k}, DOMAIN claims)
        /\ Handoff!Waiters(Handoff!Released(handoff, MaxBytes))
             \subseteq Handoff!Waiters(handoff) \ {k}
    BY <1>1, BoundReturned
  <2>2. Claims(claims) /\ late' \in 0..MaxLate
    BY <1>1 DEF Exact, Typed
  <2>3. /\ Typed' /\ StoreExact' /\ EntriesExact' /\ ClosedEmpty'
        /\ \A x \in Key : build'[x] = IF x = k THEN "none" ELSE build[x]
        /\ \A r \in Reader : \/ pc'[r] = pc[r]
                             \/ pc'[r] \notin Moving /\ pc[r] \notin Moving
    BY <1>1, <1>3, <2>1, <2>2, BuildFailsMost
  <2>4. PoolExact'
    <3>1. /\ \A x \in Key : /\ build'[x] \in Heavy <=> build[x] \in Heavy
                            /\ x \in Work!Waiters(work) => build'[x] = build[x]
          /\ \A r \in Reader :
               /\ pc'[r] \in Moving <=> pc[r] \in Moving
               /\ r \in Publisher => (pc'[r] = "sending" <=> pc[r] = "sending")
               /\ r \in Work!Waiters(work) => pc'[r] = pc[r]
      BY <1>1, <2>3, PoolWaiters DEF Heavy, Moving
    <3> QED
      BY <1>1, <1>3, <3>1, PoolSame DEF Exact
  <2> QED
    BY <2>3, <2>4 DEF Exact
<1> QED
  BY <1>2, <1>3 DEF AskWork

(* The build of k succeeds: what is left to show is what becomes of its     *)
(* work bytes.                                                              *)
LEMMA DeliverMost ==
  ASSUME Exact, NEW k \in Key, NEW b, NEW f, Claims(f), service # "closed",
         Holds(b, Admitted(build) \ {k}, DOMAIN f \cup {k}),
         Handoff!Waiters(b) \subseteq Handoff!Waiters(handoff) \ {k},
         Deliver(k, b, f),
         reserved' = IF k \in Admitted(build) THEN reserved - 1 ELSE reserved,
         UNCHANGED <<cache, want, reads, late, service>>
  PROVE  /\ Typed' /\ StoreExact' /\ EntriesExact' /\ ClosedEmpty'
         /\ \A x \in Key : build'[x] = IF x = k THEN "none" ELSE build[x]
         /\ \A r \in Reader : \/ pc'[r] = pc[r]
                              \/ pc'[r] \notin Moving /\ pc[r] \notin Moving
<1> DEFINE resolving == Joined({k}, "resolving") \cap Viewer
           restoring == Joined({k}, "restoring") \cap Viewer
           publishing == Joiners({k}) \cap Publisher
           lease(rs, why) == [key |-> k, owners |-> rs, why |-> why]
           own == [p \in publishing |-> lease({p}, pc[p])]
           owned == {lease({p}, pc[p]) : p \in publishing}
           shared == IF resolving = {} /\ restoring # {}
                     THEN {lease(restoring, "restoring")} ELSE {}
           new == owned \cup shared
           n == Cardinality(resolving) + Cardinality(new)
<1>1. /\ claims' = Claimed(f, k, n)
      /\ leases' = leases \cup new
      /\ promise' = promise \cup resolving
      /\ handoff' = b
      /\ build' = [build EXCEPT ![k] = "none"]
      /\ pc' = [r \in Reader |->
                  IF r \notin Joiners({k}) THEN pc[r]
                  ELSE IF pc[r] = "resolving" THEN "ready" ELSE "fetched"]
  BY DEF Deliver
<1>2. /\ resolving \subseteq Viewer /\ restoring \subseteq Reader
      /\ publishing \subseteq Reader
      /\ resolving \subseteq Reader
      /\ \A p \in publishing : pc[p] \in {"resolving", "restoring"}
  BY JoinersStage DEF Joined
<1>3. IsFiniteSet(new)
  <2>1. IsFiniteSet(publishing)
    BY <1>2, Numbers, FS_Subset
  <2>2. IsFiniteSet({own[p] : p \in publishing})
    <3> HIDE DEF own, publishing
    <3> QED
      BY <2>1, ImageFinite
  <2>3. {own[p] : p \in publishing} = owned
    <3> HIDE DEF publishing
    <3> QED
      OBVIOUS
  <2>4. IsFiniteSet(shared)
    BY FS_EmptySet, FS_Singleton
  <2>5. IsFiniteSet(owned)
    BY <2>2, <2>3, Zenon
  <2> HIDE DEF owned, shared
  <2> QED
    BY <2>4, <2>5, FS_Union
<1>4. n \in Nat
  <2>1. IsFiniteSet(resolving)
    BY <1>2, Numbers, FS_Subset
  <2>2. Cardinality(resolving) \in Nat /\ Cardinality(new) \in Nat
    <3> HIDE DEF resolving, new
    <3> QED
      BY <1>3, <2>1, FS_CardinalityType
  <2> HIDE DEF resolving, new
  <2> QED
    BY <2>2
<1>5. new \subseteq [key : Key, owners : SUBSET Reader, why : {"resolving", "restoring"}]
  <2> HIDE DEF resolving, restoring, publishing
  <2> QED
    BY <1>2
<1> HIDE DEF resolving, restoring, publishing, own, owned, shared, new, n
<1>6. Claims(claims') /\ DOMAIN claims' = DOMAIN f \cup {k}
  BY <1>1, <1>4, ClaimedClaims
<1>7. \A x \in Key : build'[x] = IF x = k THEN "none" ELSE build[x]
  BY <1>1 DEF Exact, Typed
<1>8. /\ pc' \in [Reader -> Stages]
      /\ \A r \in Reader : \/ pc'[r] = pc[r]
                           \/ pc'[r] \in {"ready", "fetched"}
                                /\ pc[r] \in {"resolving", "restoring"}
  <2>1. \A r \in Reader : pc'[r] = IF r \notin Joiners({k}) THEN pc[r]
                                   ELSE IF pc[r] = "resolving" THEN "ready" ELSE "fetched"
    BY <1>1
  <2>2. \A r \in Reader : \/ pc'[r] = pc[r]
                          \/ pc'[r] \in {"ready", "fetched"}
                               /\ pc[r] \in {"resolving", "restoring"}
    BY <2>1, JoinersStage
  <2>3. \A r \in Reader : pc'[r] \in Stages
    BY <2>2 DEF Exact, Typed, Stages
  <2>4. pc' = [r \in Reader |-> pc'[r]]
    BY <1>1
  <2> QED
    BY <2>2, <2>3, <2>4
<1>9. Typed'
  <2>1. build' \in [Key -> BuildStages]
    BY <1>1 DEF Exact, Typed, BuildStages
  <2>2. IsFiniteSet(leases')
    BY <1>1, <1>3, FS_Union DEF Exact, Typed
  <2>3. \A v \in Viewer : pc'[v] # "done" => reads[v] < MaxReads
    BY <1>8 DEF Exact, Typed, Reader
  <2> QED
    BY <1>1, <1>2, <1>5, <1>6, <1>8, <2>1, <2>2, <2>3 DEF Exact, Typed
<1>10. Admitted(build') = Admitted(build) \ {k} /\ EntriesExact'
  <2>1. build'[k] \notin {"handoff", "work"} /\ \A x \in Key \ {k} : build'[x] = build[x]
    BY <1>7
  <2> QED
    BY <2>1, EntriesDrop
<1>11. StoreExact'
  <2>1. Holds(handoff', Admitted(build'), DOMAIN claims')
    BY <1>1, <1>6, <1>10, Zenon
  <2>2. \A x \in Handoff!Waiters(handoff') : build'[x] = "handoff"
    <3>1. Handoff!Waiters(handoff) \subseteq Key
      BY DEF Exact, StoreExact, Holds
    <3> QED
      BY <1>1, <1>7, <3>1 DEF Exact, StoreExact
  <2> QED
    BY <2>1, <2>2 DEF StoreExact
<1>12. ClosedEmpty'
  BY DEF ClosedEmpty
<1> QED
  BY <1>7, <1>8, <1>9, <1>10, <1>11, <1>12 DEF Moving

LEMMA FoundKeeps ==
  ASSUME Exact, NEW k \in Key, Found(k)
  PROVE  Exact'
<1> DEFINE b == Handoff!Released(Leased(k), MaxBytes)
<1>1. /\ build[k] = "work" /\ k \notin Work!Waiters(work) /\ CanLease(k)
      /\ Deliver(k, b, claims) /\ reserved' = reserved - 1
      /\ work' = Work!Released(work, WorkBytes)
      /\ UNCHANGED <<cache, want, reads, late, service>>
      /\ service # "closed"
  BY DEF Found, Producing
<1>2. k \in Admitted(build) /\ k \notin Handoff!Waiters(handoff)
  BY <1>1 DEF Admitted, Exact, StoreExact
<1>3. /\ Holds(Leased(k), Admitted(build), DOMAIN claims \cup {k})
      /\ Handoff!Waiters(Leased(k)) \subseteq Handoff!Waiters(handoff)
  <2>1. /\ Covers(Leased(k), Claimed(claims, k, 0))
        /\ DOMAIN Claimed(claims, k, 0) = DOMAIN claims \cup {k}
    BY <1>1, LeaseCovers
  <2>2. /\ Holds(Leased(k), Admitted(build), DOMAIN Claimed(claims, k, 0))
        /\ Handoff!Waiters(Leased(k)) \subseteq Handoff!Waiters(handoff)
    BY <2>1 DEF Covers
  <2> QED
    BY <2>1, <2>2, Zenon
<1>4. /\ Holds(b, Admitted(build) \ {k}, DOMAIN claims \cup {k})
      /\ Handoff!Waiters(b) \subseteq Handoff!Waiters(handoff) \ {k}
  <2>1. k \notin Handoff!Waiters(Leased(k))
    BY <1>2, <1>3
  <2> QED
    BY <1>2, <1>3, <2>1, HoldsReleased
<1> HIDE DEF b
<1>5. /\ Typed' /\ StoreExact' /\ EntriesExact' /\ ClosedEmpty'
      /\ \A x \in Key : build'[x] = IF x = k THEN "none" ELSE build[x]
      /\ \A r \in Reader : \/ pc'[r] = pc[r]
                           \/ pc'[r] \notin Moving /\ pc[r] \notin Moving
  <2>1. Claims(claims) /\ reserved' = IF k \in Admitted(build) THEN reserved - 1 ELSE reserved
    BY <1>1, <1>2 DEF Exact, Typed
  <2> QED
    BY <1>1, <1>4, <2>1, DeliverMost
<1>6. PoolExact'
  <2>1. build[k] \in Heavy /\ build'[k] \notin Heavy /\ want' = want
          /\ \A x \in Key \ {k} : build'[x] = build[x]
    BY <1>1, <1>5 DEF Heavy
  <2> QED
    BY <1>1, <1>5, <2>1, PoolBuildEnds
<1> QED
  BY <1>5, <1>6 DEF Exact

LEMMA RetainKeeps ==
  ASSUME Exact, NEW k \in Key, Retain(k)
  PROVE  Exact'
<1>1. /\ build[k] = "work" /\ k \notin Work!Waiters(work)
      /\ reserved' = reserved - 1
      /\ UNCHANGED <<work, promise, leases, pc, want, reads, late, service>>
  BY DEF Retain, Producing, requests
<1>2. /\ k \in Admitted(build) /\ k \notin Handoff!Waiters(handoff)
      /\ Holds(handoff, Admitted(build), DOMAIN claims)
      /\ service # "closed"
  BY <1>1 DEF Admitted, Exact, StoreExact, ClosedEmpty, Building
(* Whatever becomes of the output, the bound is gone.                       *)
<1>3. ASSUME NEW st \in {"retained", "refused"}, build' = [build EXCEPT ![k] = st],
             Claims(claims'), cache' \subseteq CacheKeys,
             Holds(handoff', Admitted(build) \ {k}, DOMAIN claims'),
             Handoff!Waiters(handoff') \subseteq Handoff!Waiters(handoff)
      PROVE  Exact'
  <2>1. \A x \in Key : build'[x] = IF x = k THEN st ELSE build[x]
    BY <1>3 DEF Exact, Typed
  <2>2. Admitted(build') = Admitted(build) \ {k} /\ EntriesExact'
    <3>1. build'[k] \notin {"handoff", "work"} /\ \A x \in Key \ {k} : build'[x] = build[x]
      BY <2>1
    <3> QED
      BY <1>1, <1>2, <3>1, EntriesDrop
  <2>3. Typed'
    <3>1. build' \in [Key -> BuildStages]
      BY <1>3 DEF Exact, Typed, BuildStages
    <3> QED
      BY <1>1, <1>3, <3>1 DEF Exact, Typed
  <2>4. StoreExact'
    <3>1. Holds(handoff', Admitted(build'), DOMAIN claims')
      BY <1>3, <2>2, Zenon
    <3>2. \A x \in Handoff!Waiters(handoff') : build'[x] = "handoff"
      <4>1. Handoff!Waiters(handoff) \subseteq Key
        BY <1>2 DEF Holds
      <4> QED
        BY <1>2, <1>3, <2>1, <4>1 DEF Exact, StoreExact
    <3> QED
      BY <3>1, <3>2 DEF StoreExact
  <2>5. ClosedEmpty'
    BY <1>1, <1>2 DEF ClosedEmpty
  <2>6. PoolExact'
    <3>1. /\ \A x \in Key : /\ build'[x] \in Heavy <=> build[x] \in Heavy
                            /\ x \in Work!Waiters(work) => build'[x] = build[x]
          /\ \A r \in Reader :
               /\ pc'[r] \in Moving <=> pc[r] \in Moving
               /\ r \in Publisher => (pc'[r] = "sending" <=> pc[r] = "sending")
               /\ r \in Work!Waiters(work) => pc'[r] = pc[r]
      BY <1>1, <2>1 DEF Heavy
    <3> QED
      BY <1>1, <3>1, PoolSame DEF Exact
  <2> QED
    BY <2>2, <2>3, <2>4, <2>5, <2>6 DEF Exact
<1>4. CASE /\ k \in Pinned
              \/ /\ Cardinality(Pinned) < MaxEntries
                 /\ handoff.used - MaxBytes + Size[k] <= HandoffBytes
           /\ claims' = Claimed(claims, k, 1)
           /\ handoff' = Handoff!Replaced(handoff, MaxBytes,
                                          IF k \in Pinned THEN 0 ELSE Size[k])
           /\ build' = [build EXCEPT ![k] = "retained"]
           /\ cache' \in {cache, cache \cup ({k} \cap CacheKeys)}
  <2>1. Claims(claims') /\ DOMAIN claims' = DOMAIN claims \cup {k}
    BY <1>4, ClaimedClaims DEF Exact, Typed
  <2>2. /\ Holds(handoff', Admitted(build) \ {k}, DOMAIN claims \cup {k})
        /\ Handoff!Waiters(handoff') \subseteq Handoff!Waiters(handoff)
    BY <1>2, <1>4, HoldsReplaced DEF Pinned
  <2>3. Holds(handoff', Admitted(build) \ {k}, DOMAIN claims')
    BY <2>1, <2>2, Zenon
  <2>4. cache' \subseteq CacheKeys
    BY <1>4 DEF Exact, Typed
  <2> QED
    BY <1>3, <1>4, <2>1, <2>2, <2>3, <2>4
<1>5. CASE /\ handoff' = Handoff!Released(handoff, MaxBytes)
           /\ build' = [build EXCEPT ![k] = "refused"]
           /\ UNCHANGED <<claims, cache>>
  <2>1. /\ Holds(handoff', Admitted(build) \ {k}, DOMAIN claims')
        /\ Handoff!Waiters(handoff') \subseteq Handoff!Waiters(handoff)
    BY <1>2, <1>5, HoldsReleased
  <2>2. Claims(claims') /\ cache' \subseteq CacheKeys
    BY <1>5 DEF Exact, Typed
  <2> QED
    BY <1>3, <1>5, <2>1, <2>2
<1> QED
  BY <1>4, <1>5 DEF Retain

(* A build that holds no bound any more.                                    *)
LEMMA BoundGone ==
  ASSUME Exact, NEW k \in Key, build[k] \in {"retained", "refused"}
  PROVE  /\ k \notin Admitted(build) /\ k \notin Work!Waiters(work)
         /\ Holds(handoff, Admitted(build) \ {k}, DOMAIN claims)
         /\ Handoff!Waiters(handoff) \subseteq Handoff!Waiters(handoff) \ {k}
         /\ service # "closed"
<1>1. k \notin Admitted(build) /\ k \notin Handoff!Waiters(handoff) /\ service # "closed"
  BY DEF Admitted, Exact, StoreExact, ClosedEmpty, Building
<1>2. Admitted(build) \ {k} = Admitted(build)
  BY <1>1
<1>3. Holds(handoff, Admitted(build) \ {k}, DOMAIN claims)
  BY <1>2, Zenon DEF Exact, StoreExact
<1> QED
  BY <1>1, <1>3, PoolWaiters

LEMMA CompleteKeeps ==
  ASSUME Exact, NEW k \in Key, Complete(k)
  PROVE  Exact'
<1>1. /\ build[k] = "retained"
      /\ work' = Work!Released(work, WorkBytes)
      /\ UNCHANGED <<reserved, cache, want, reads, late, service>>
  BY DEF Complete
<1>2. /\ k \notin Admitted(build) /\ k \notin Work!Waiters(work)
      /\ Holds(handoff, Admitted(build) \ {k}, DOMAIN claims)
      /\ Handoff!Waiters(handoff) \subseteq Handoff!Waiters(handoff) \ {k}
      /\ service # "closed"
      /\ reserved' = IF k \in Admitted(build) THEN reserved - 1 ELSE reserved
  BY <1>1, BoundGone
<1>3. /\ Typed' /\ StoreExact' /\ EntriesExact' /\ ClosedEmpty'
      /\ \A x \in Key : build'[x] = IF x = k THEN "none" ELSE build[x]
      /\ \A r \in Reader : \/ pc'[r] = pc[r]
                           \/ pc'[r] \notin Moving /\ pc[r] \notin Moving
  <2>1. CASE /\ k \in Pinned /\ claims[k] > 0
             /\ Deliver(k, handoff, [claims EXCEPT ![k] = @ - 1])
    <3> DEFINE f == [claims EXCEPT ![k] = @ - 1]
    <3>1. DOMAIN f = DOMAIN claims /\ DOMAIN f \cup {k} = DOMAIN claims
      BY <2>1 DEF Pinned
    <3>2. Claims(f)
      <4>1. claims[k] \in Nat /\ claims[k] - 1 \in Nat
        BY <2>1 DEF Exact, Typed, Claims, Pinned
      <4> QED
        BY <4>1 DEF Exact, Typed, Claims
    <3>3. Deliver(k, handoff, f)
      BY <2>1
    <3> HIDE DEF f
    <3>4. Holds(handoff, Admitted(build) \ {k}, DOMAIN f \cup {k})
      BY <1>2, <3>1, Zenon
    <3> QED
      BY <1>1, <1>2, <3>2, <3>3, <3>4, DeliverMost
  <2>2. CASE BuildsFail({k}, handoff, claims) /\ UNCHANGED promise
    <3>1. Claims(claims) /\ late' \in 0..MaxLate
      BY <1>1 DEF Exact, Typed
    <3> QED
      BY <1>1, <1>2, <2>2, <3>1, BuildFailsMost
  <2> QED
    BY <2>1, <2>2 DEF Complete
<1>4. PoolExact'
  <2>1. build[k] \in Heavy /\ build'[k] \notin Heavy /\ want' = want
          /\ \A x \in Key \ {k} : build'[x] = build[x]
    BY <1>1, <1>3 DEF Heavy
  <2> QED
    BY <1>1, <1>2, <1>3, <2>1, PoolBuildEnds
<1> QED
  BY <1>3, <1>4 DEF Exact

LEMMA FailKeeps ==
  ASSUME Exact, NEW k \in Key, Fail(k)
  PROVE  Exact'
<1>1. /\ Producing(k) \/ build[k] \in {"retained", "refused"}
      /\ work' = Work!Released(work, WorkBytes)
      /\ UNCHANGED <<promise, cache, want, reads, late, service>>
      /\ Claims(claims) /\ late' \in 0..MaxLate
  BY DEF Fail, Exact, Typed
<1>2. k \notin Work!Waiters(work) /\ build[k] \in Heavy
  BY <1>1, PoolWaiters DEF Producing, Heavy
<1>3. /\ Typed' /\ StoreExact' /\ EntriesExact' /\ ClosedEmpty'
      /\ \A x \in Key : build'[x] = IF x = k THEN "none" ELSE build[x]
      /\ \A r \in Reader : \/ pc'[r] = pc[r]
                           \/ pc'[r] \notin Moving /\ pc[r] \notin Moving
  <2>1. CASE build[k] = "work"
    <3>1. /\ BuildsFail({k}, Handoff!Released(handoff, MaxBytes), claims)
          /\ reserved' = reserved - 1
      BY <2>1 DEF Fail
    <3>2. k \notin Handoff!Waiters(handoff)
      BY <2>1 DEF Exact, StoreExact
    <3>3. /\ k \in Admitted(build)
          /\ Holds(Handoff!Released(handoff, MaxBytes), Admitted(build) \ {k}, DOMAIN claims)
          /\ Handoff!Waiters(Handoff!Released(handoff, MaxBytes))
               \subseteq Handoff!Waiters(handoff) \ {k}
      BY <2>1, <3>2, BoundReturned
    <3> QED
      BY <1>1, <3>1, <3>3, BuildFailsMost
  <2>2. CASE build[k] # "work"
    <3> DEFINE f == IF build[k] = "retained" THEN Consumed(claims, Once(k)) ELSE claims
    <3>1. BuildsFail({k}, handoff, f) /\ UNCHANGED reserved
      BY <2>2 DEF Fail
    <3>2. Claims(f) /\ DOMAIN f \subseteq DOMAIN claims
      BY <1>1, OnceType, ConsumedClaims
    <3>3. /\ k \notin Admitted(build)
          /\ Holds(handoff, Admitted(build) \ {k}, DOMAIN claims)
          /\ Handoff!Waiters(handoff) \subseteq Handoff!Waiters(handoff) \ {k}
      BY <1>1, <2>2, BoundGone DEF Producing
    <3> HIDE DEF f
    <3> QED
      BY <1>1, <3>1, <3>2, <3>3, BuildFailsMost
  <2> QED
    BY <2>1, <2>2
<1>4. PoolExact'
  <2>1. build'[k] \notin Heavy /\ want' = want
          /\ \A x \in Key \ {k} : build'[x] = build[x]
    BY <1>1, <1>3 DEF Heavy
  <2> QED
    BY <1>1, <1>2, <1>3, <2>1, PoolBuildEnds
<1> QED
  BY <1>3, <1>4 DEF Exact

-----------------------------------------------------------------------------
(* Time and shutdown.                                                       *)

LEMMA Later ==
  ASSUME Exact, late < MaxLate, late' = late + 1
  PROVE  late' \in 0..MaxLate
BY RepositoryAssumption DEF RepositoryAssumption, Exact, Typed

LEMMA DeadlineKeeps ==
  ASSUME Exact, NEW w \in Key \cup Reader, Deadline(w)
  PROVE  Exact'
<1>1. /\ late' \in 0..MaxLate /\ Claims(claims)
      /\ UNCHANGED <<promise, cache, want, reads, service>>
  BY Later DEF Deadline, Exact, Typed
<1>2. CASE /\ w \in Handoff!Waiters(handoff)
           /\ BuildsFail({w}, Handoff!Left(handoff, w), claims)
           /\ reserved' = reserved - 1
           /\ UNCHANGED work
  <2>1. /\ Holds(handoff, Admitted(build), DOMAIN claims)
        /\ w \in Key /\ w \in Admitted(build) /\ build[w] = "handoff"
    BY <1>2 DEF Exact, StoreExact, Holds
  <2>2. /\ Holds(Handoff!Left(handoff, w), Admitted(build) \ {w}, DOMAIN claims)
        /\ Handoff!Waiters(Handoff!Left(handoff, w)) \subseteq Handoff!Waiters(handoff) \ {w}
    BY <1>2, <2>1, HoldsLeft
  <2>3. /\ Typed' /\ StoreExact' /\ EntriesExact' /\ ClosedEmpty'
        /\ \A x \in Key : build'[x] = IF x = w THEN "none" ELSE build[x]
        /\ \A r \in Reader : \/ pc'[r] = pc[r]
                             \/ pc'[r] \notin Moving /\ pc[r] \notin Moving
    BY <1>1, <1>2, <2>1, <2>2, BuildFailsMost
  <2>4. PoolExact'
    <3>1. /\ \A x \in Key : /\ build'[x] \in Heavy <=> build[x] \in Heavy
                            /\ x \in Work!Waiters(work) => build'[x] = build[x]
          /\ \A r \in Reader :
               /\ pc'[r] \in Moving <=> pc[r] \in Moving
               /\ r \in Publisher => (pc'[r] = "sending" <=> pc[r] = "sending")
               /\ r \in Work!Waiters(work) => pc'[r] = pc[r]
      BY <2>1, <2>3, PoolWaiters DEF Heavy, Moving
    <3> QED
      BY <1>1, <1>2, <3>1, PoolSame DEF Exact
  <2> QED
    BY <2>3, <2>4 DEF Exact
<1>3. CASE /\ w \in Key \cap Work!Waiters(work)
           /\ BuildsFail({w}, Handoff!Released(handoff, MaxBytes), claims)
           /\ reserved' = reserved - 1
           /\ work' = Work!Left(work, w)
  <2>1. w \in Key /\ build[w] = "work" /\ w \notin Handoff!Waiters(handoff)
    BY <1>3, PoolWaiters DEF Exact, StoreExact
  <2>2. /\ w \in Admitted(build)
        /\ Holds(Handoff!Released(handoff, MaxBytes), Admitted(build) \ {w}, DOMAIN claims)
        /\ Handoff!Waiters(Handoff!Released(handoff, MaxBytes))
             \subseteq Handoff!Waiters(handoff) \ {w}
    BY <2>1, BoundReturned
  <2>3. /\ Typed' /\ StoreExact' /\ EntriesExact' /\ ClosedEmpty'
        /\ \A x \in Key : build'[x] = IF x = w THEN "none" ELSE build[x]
        /\ \A r \in Reader : \/ pc'[r] = pc[r]
                             \/ pc'[r] \notin Moving /\ pc[r] \notin Moving
    BY <1>1, <1>3, <2>1, <2>2, BuildFailsMost
  <2>4. PoolExact'
    <3> DEFINE due == Charge(build, pc, want)
    <3>1. Works(work, due) /\ want \in [Reader -> Key] /\ w \in User
      BY DEF Exact, Typed, PoolExact, User
    <3>2. 0 = Charge(build', pc', want)[w]
      BY <2>1, <2>3, <3>1, ChargeType DEF Heavy
    <3> HIDE DEF due
    <3>3. /\ Works(work', [due EXCEPT ![w] = 0])
          /\ Work!Waiters(work') \subseteq Work!Waiters(work) \ {w}
      BY <1>3, <3>1, WorksLeft
    <3>4. /\ \A x \in Key \ {w} : /\ build'[x] \in Heavy <=> build[x] \in Heavy
                                  /\ x \in Work!Waiters(work) => build'[x] = build[x]
          /\ \A r \in Reader \ {w} :
               /\ pc'[r] \in Moving <=> pc[r] \in Moving
               /\ r \in Publisher => (pc'[r] = "sending" <=> pc[r] = "sending")
               /\ r \in Work!Waiters(work) => pc'[r] = pc[r]
          /\ w \notin Work!Waiters(work') /\ want' = want
          /\ Work!Waiters(work') \subseteq Work!Waiters(work) \cup {w}
      BY <1>1, <2>3, <3>3, PoolWaiters DEF Moving
    <3> QED
      BY <1>1, <3>1, <3>2, <3>3, <3>4, PoolMoves DEF Exact, due
  <2> QED
    BY <2>3, <2>4 DEF Exact
<1>4. CASE /\ w \in Reader \cap Work!Waiters(work)
           /\ Stop({w}, handoff, claims)
           /\ work' = Work!Left(work, w)
           /\ UNCHANGED <<reserved, build>>
  <2>1. w \in Reader /\ pc[w] = "acquiring" /\ \A x \in {w} : pc[x] # "done"
    BY <1>4, PoolWaiters
  <2>2. /\ Typed' /\ StoreExact' /\ EntriesExact' /\ ClosedEmpty'
        /\ \A x \in Reader : IF x \in {w} THEN pc'[x] \in {"idle", "ready"}
                             ELSE pc'[x] = pc[x]
    BY <1>1, <1>4, <2>1, CoversItself, StopMost
  <2>3. PoolExact'
    <3> DEFINE due == Charge(build, pc, want)
    <3>1. Works(work, due) /\ want \in [Reader -> Key] /\ w \in User
      BY DEF Exact, Typed, PoolExact, User
    <3>2. 0 = Charge(build', pc', want)[w]
      <4>1. pc'[w] \notin Moving
        BY <2>1, <2>2 DEF Moving
      <4> QED
        BY <2>1, <3>1, <4>1, ChargeType
    <3> HIDE DEF due
    <3>3. /\ Works(work', [due EXCEPT ![w] = 0])
          /\ Work!Waiters(work') \subseteq Work!Waiters(work) \ {w}
      BY <1>4, <3>1, WorksLeft
    <3>4. /\ \A x \in Key \ {w} : /\ build'[x] \in Heavy <=> build[x] \in Heavy
                                  /\ x \in Work!Waiters(work) => build'[x] = build[x]
          /\ \A r \in Reader \ {w} :
               /\ pc'[r] \in Moving <=> pc[r] \in Moving
               /\ r \in Publisher => (pc'[r] = "sending" <=> pc[r] = "sending")
               /\ r \in Work!Waiters(work) => pc'[r] = pc[r]
          /\ w \notin Work!Waiters(work') /\ want' = want
          /\ Work!Waiters(work') \subseteq Work!Waiters(work) \cup {w}
      BY <1>1, <1>4, <2>2, <3>3
    <3> QED
      BY <1>1, <3>1, <3>2, <3>3, <3>4, PoolMoves DEF Exact, due
  <2> QED
    BY <2>2, <2>3 DEF Exact
<1> QED
  BY <1>2, <1>3, <1>4 DEF Deadline

LEMMA ExpireKeeps ==
  ASSUME Exact, NEW k \in Key, Expire(k)
  PROVE  Exact'
<1> DEFINE g == [x \in Pinned \ {k} |-> claims[x]]
<1>1. /\ claims' = g /\ handoff' = Unpinned(handoff, claims, g)
      /\ late' \in 0..MaxLate
      /\ UNCHANGED <<work, reserved, leases, cache, build, pc, want, reads, service>>
  BY Later DEF Expire, requests
<1>2. Claims(g) /\ DOMAIN g \subseteq DOMAIN claims
  BY DEF Exact, Typed, Claims, Pinned
<1> HIDE DEF g
<1>3. StoreExact' /\ EntriesExact' /\ ClosedEmpty'
  BY <1>1, <1>2, UnpinnedKeeps
<1>4. Typed'
  <2>1. promise' \subseteq Viewer
    BY DEF Expire, Exact, Typed
  <2> QED
    BY <1>1, <1>2, <2>1 DEF Exact, Typed
<1>5. PoolExact'
  BY <1>1 DEF Exact, PoolExact
<1> QED
  BY <1>3, <1>4, <1>5 DEF Exact

LEMMA EvictKeeps ==
  ASSUME Exact, NEW k \in Key, Evict(k)
  PROVE  Exact'
<1>1. UNCHANGED <<handoff, work, reserved, claims, promise, leases, build, pc, want,
                  reads, late, service>> /\ cache' \subseteq cache
  BY DEF Evict, budgets, pins, requests
<1>2. Typed' /\ ClosedEmpty'
  BY <1>1 DEF Exact, Typed, ClosedEmpty, Building
<1>3. StoreExact' /\ PoolExact' /\ EntriesExact'
  BY <1>1 DEF Exact, StoreExact, PoolExact, EntriesExact
<1> QED
  BY <1>2, <1>3 DEF Exact

LEMMA CloseKeeps ==
  ASSUME Exact, Close
  PROVE  Exact'
<1> DEFINE failed == Handoff!Aborting(handoff).refused
           waited == Work!Aborting(work).refused
           W == waited \cap Key
           lost == failed \cup W
           rs == Joiners(lost) \cup (waited \cap Reader)
           b == Handoff!Aborted(handoff)
           d == [b EXCEPT !.used = @ - MaxBytes * Cardinality(W)]
           due == Charge(build, pc, want)
           due2 == [c \in User |-> IF c \in waited THEN 0 ELSE due[c]]
<1>1. /\ service' = "closing"
      /\ build' = [k \in Key |-> IF k \in lost THEN "none" ELSE build[k]]
      /\ reserved' = reserved - Cardinality(lost)
      /\ Stop(rs, d, claims)
      /\ work' = Work!Aborted(work)
      /\ UNCHANGED <<promise, cache, want, reads, late>>
  BY DEF Close
<1>2. /\ Works(work, due) /\ want \in [Reader -> Key] /\ due \in [User -> Nat]
      /\ Claims(claims) /\ late \in 0..MaxLate
  BY WorksType DEF Exact, PoolExact, Typed
<1>3. /\ Works(work', due2) /\ Work!Waiters(work') = {}
      /\ waited \subseteq Work!Waiters(work)
  <2>1. due2 \in [User -> Nat]
    <3> HIDE DEF due, waited
    <3> QED
      BY <1>2
  <2>2. \A c \in User : due2[c] = IF c \in Work!Aborting(work).refused THEN 0 ELSE due[c]
    OBVIOUS
  <2> HIDE DEF due, due2
  <2> QED
    BY <1>1, <1>2, <2>1, <2>2, WorksAborted
<1>4. /\ Holds(b, Admitted(build) \ failed, DOMAIN claims)
      /\ Handoff!Waiters(b) = {}
      /\ failed \subseteq Handoff!Waiters(handoff)
  BY HoldsAborted DEF Exact, StoreExact
<1> HIDE DEF failed, waited, b, due
<1>5. /\ \A k \in failed : k \in Key /\ build[k] = "handoff"
      /\ \A k \in W : build[k] = "work"
      /\ \A r \in waited \cap Reader : pc[r] = "acquiring"
  BY <1>3, <1>4, PoolWaiters DEF Exact, StoreExact, Holds
<1>6. W \subseteq Admitted(build) \ failed /\ lost \subseteq Admitted(build)
      /\ lost \subseteq Key
  BY <1>5 DEF Admitted
<1>7. /\ Holds(d, Admitted(build) \ lost, DOMAIN claims)
      /\ Handoff!Waiters(d) = {}
  <2>1. (Admitted(build) \ failed) \ W = Admitted(build) \ lost
    OBVIOUS
  <2> HIDE DEF W, lost
  <2>2. /\ Holds(d, (Admitted(build) \ failed) \ W, DOMAIN claims)
        /\ Handoff!Waiters(d) = {}
    BY <1>4, <1>6, HoldsWithout
  <2> QED
    BY <2>1, <2>2, Zenon
<1> HIDE DEF d
<1>8. /\ rs \subseteq Reader /\ waited \cap Reader \subseteq rs
      /\ \A r \in rs : /\ pc[r] \in {"resolving", "restoring", "acquiring"}
                       /\ r \in waited \/ pc[r] \in {"resolving", "restoring"}
  BY <1>5, JoinersStage
<1>9. /\ build' \in [Key -> BuildStages]
      /\ \A k \in Key : build'[k] = IF k \in lost THEN "none" ELSE build[k]
  BY <1>1 DEF Exact, Typed, BuildStages
<1> HIDE DEF lost, rs
<1>10. /\ Typed' /\ StoreExact' /\ EntriesExact' /\ ClosedEmpty'
       /\ \A r \in Reader : IF r \in rs THEN pc'[r] \in {"idle", "ready"}
                            ELSE pc'[r] = pc[r]
  <2>1. DOMAIN claims \cup DOMAIN claims = DOMAIN claims /\ lost \cap Admitted(build) = lost
    BY <1>6
  <2>2. Holds(d, Admitted(build) \ lost, DOMAIN claims \cup DOMAIN claims)
    BY <1>7, <2>1, Zenon
  <2>3. reserved' = reserved - Cardinality(lost \cap Admitted(build))
    BY <1>1, <2>1, Zenon
  <2>4. /\ Handoff!Waiters(d) \subseteq Handoff!Waiters(handoff) \ lost
        /\ \A r \in rs : pc[r] # "done"
        /\ service' \in {"open", "closing", "closed"}
        /\ service' = "closed" => service = "closed" /\ DOMAIN claims = {}
        /\ late' \in 0..MaxLate
        /\ UNCHANGED <<promise, cache, want, reads>>
        /\ Stop(rs, d, claims) /\ Claims(claims)
    BY <1>1, <1>2, <1>7, <1>8
  <2>5. lost \subseteq Key /\ rs \subseteq Reader
    BY <1>6, <1>8
  <2> HIDE DEF W, due2
  <2> QED
    BY <1>9, <2>2, <2>3, <2>4, <2>5, FailMost, ZenonT(60)
<1>11. PoolExact'
  <2>1. ASSUME NEW c \in Key PROVE Charge(build', pc', want')[c] = due2[c]
    <3>1. /\ Charge(build', pc', want')[c] = IF build'[c] \in Heavy THEN WorkBytes ELSE 0
          /\ due[c] = IF build[c] \in Heavy THEN WorkBytes ELSE 0
      BY <1>1, <1>2, ChargeType DEF due
    <3>2. due2[c] = IF c \in waited THEN 0 ELSE due[c]
      BY DEF User
    <3>3. CASE c \in lost
      BY <1>5, <1>9, <3>1, <3>2, <3>3 DEF lost, Heavy
    <3>4. CASE c \notin lost
      BY <1>9, <3>1, <3>2, <3>4 DEF lost
    <3> QED
      BY <3>3, <3>4
  <2>2. ASSUME NEW r \in Reader PROVE Charge(build', pc', want')[r] = due2[r]
    <3>1. /\ pc'[r] = pc[r] => Charge(build', pc', want')[r] = due[r]
          /\ pc'[r] \notin Moving => Charge(build', pc', want')[r] = 0
          /\ pc[r] \notin Moving => due[r] = 0
      BY <1>1, <1>2, ChargeType DEF due
    <3>2. due2[r] = IF r \in waited THEN 0 ELSE due[r]
      BY DEF User
    <3>3. CASE r \in rs
      BY <1>8, <1>10, <3>1, <3>2, <3>3 DEF Moving
    <3>4. CASE r \notin rs
      BY <1>8, <1>10, <3>1, <3>2, <3>4
    <3> QED
      BY <3>3, <3>4
  <2>3. Charge(build', pc', want') = due2
    <3>1. \A c \in User : Charge(build', pc', want')[c] = due2[c]
      BY <2>1, <2>2 DEF User
    <3>2. Charge(build', pc', want') = [c \in User |-> Charge(build', pc', want')[c]]
      BY DEF Charge
    <3> QED
      BY <3>1, <3>2
  <2>4. Works(work', Charge(build', pc', want'))
    BY <1>3, <2>3, Zenon
  <2> QED
    BY <1>3, <2>4 DEF PoolExact
<1> QED
  BY <1>10, <1>11 DEF Exact

LEMMA ClosedKeeps ==
  ASSUME Exact, Closed
  PROVE  Exact'
<1> DEFINE g == [k \in {} |-> 0]
<1>1. /\ Building = {} /\ service' = "closed"
      /\ claims' = g /\ handoff' = Unpinned(handoff, claims, g)
      /\ promise' = {} /\ cache' = {}
      /\ UNCHANGED <<work, reserved, leases, build, pc, want, reads, late>>
  BY DEF Closed, requests
<1>2. Claims(g) /\ DOMAIN g \subseteq DOMAIN claims /\ DOMAIN g = {}
  BY DEF Claims
<1> HIDE DEF g
<1>3. Typed'
  BY <1>1, <1>2 DEF Exact, Typed
<1>4. StoreExact'
  <2>1. /\ Holds(Unpinned(handoff, claims, g), Admitted(build), DOMAIN g)
        /\ Handoff!Waiters(Unpinned(handoff, claims, g)) \subseteq Handoff!Waiters(handoff)
    BY <1>2, HoldsUnpinned DEF Exact, StoreExact
  <2>2. Holds(handoff', Admitted(build'), DOMAIN claims')
    BY <1>1, <2>1, Zenon
  <2> QED
    BY <1>1, <2>1, <2>2 DEF Exact, StoreExact
<1>5. PoolExact' /\ EntriesExact'
  BY <1>1 DEF Exact, PoolExact, EntriesExact
<1>6. ClosedEmpty'
  BY <1>1, <1>2 DEF ClosedEmpty, Building
<1> QED
  BY <1>3, <1>4, <1>5, <1>6 DEF Exact

-----------------------------------------------------------------------------
(* The invariant holds.                                                     *)

LEMMA InitExact == Init => Exact
<1> SUFFICES ASSUME Init PROVE Exact
  OBVIOUS
<1>1. /\ handoff = Handoff!Empty /\ work = Work!Empty /\ reserved = 0
      /\ claims = [k \in {} |-> 0] /\ cache = {}
      /\ build = [k \in Key |-> "none"] /\ pc = [r \in Reader |-> "idle"]
      /\ want \in [Reader -> Key] /\ promise = {} /\ leases = {}
      /\ reads = [v \in Viewer |-> 0] /\ late = 0 /\ service = "open"
  BY RepositoryAssumption DEF Init, RepositoryAssumption
<1>2. Typed
  <2>1. /\ reads \in [Viewer -> 0..MaxReads] /\ late \in 0..MaxLate
        /\ \A v \in Viewer : reads[v] < MaxReads
    BY <1>1, RepositoryAssumption DEF RepositoryAssumption
  <2>2. Claims(claims)
    BY <1>1 DEF Claims
  <2>3. /\ build \in [Key -> BuildStages] /\ pc \in [Reader -> Stages]
        /\ cache \subseteq CacheKeys /\ promise \subseteq Viewer
        /\ leases \subseteq [key : Key, owners : SUBSET Reader,
                             why : {"resolving", "restoring"}]
        /\ IsFiniteSet(leases) /\ service \in {"open", "closing", "closed"}
    BY <1>1, FS_EmptySet DEF BuildStages, Stages
  <2> QED
    BY <1>1, <2>1, <2>2, <2>3 DEF Typed
<1>3. Admitted(build) = {} /\ DOMAIN claims = {}
  BY <1>1 DEF Admitted
<1>4. StoreExact
  <2>1. HF!Account(HF!Empty, Bounds({}), Key, 0) /\ HF!Waiters(HF!Empty) = {}
    <3>1. IsFiniteSet(Key) /\ Bounds({}) \in [Key -> Nat] /\ \A k \in Key : Bounds({})[k] = 0
      BY BoundsType, Numbers DEF Bounds
    <3> DEFINE due == Bounds({})
    <3> HIDE DEF due
    <3>2. HF!Account(HF!Empty, due, Key, 0) /\ HF!Waiters(HF!Empty) = {}
      <4>1. HF!IsFiniteSet(Key)
        BY <3>1, SameSums
      <4> QED
        BY <3>1, <4>1, Numbers, HF!EmptyAccount DEF due
    <3> QED
      BY <3>2 DEF due
  <2>2. Total(Size, {}) = 0
    BY TotalEmpty, Zenon
  <2>3. HF!Account(handoff, Bounds({}), Key, Total(Size, {})) /\ Handoff!Waiters(handoff) = {}
    BY <1>1, <2>1, <2>2, SameHandoff, Zenon
  <2>4. Holds(handoff, {}, {})
    BY <2>3 DEF Holds
  <2>5. Holds(handoff, Admitted(build), DOMAIN claims)
    BY <1>3, <2>4, Zenon
  <2> QED
    BY <2>3, <2>5 DEF StoreExact
<1>5. PoolExact
  <2> DEFINE due == Charge(build, pc, want)
  <2>1. due \in [User -> Nat] /\ \A c \in User : due[c] = 0
    <3>1. /\ due \in [User -> Nat]
          /\ \A k \in Key : due[k] = 0
          /\ \A r \in Reader : due[r] = 0
      BY <1>1, ChargeType DEF Heavy, Moving
    <3> QED
      BY <3>1 DEF User
  <2>2. IsFiniteSet(User) /\ WF!IsFiniteSet(User)
    BY Numbers, FS_Union, SameSums DEF User
  <2> HIDE DEF due
  <2>3. WF!Account(WF!Empty, due, User, 0) /\ WF!Waiters(WF!Empty) = {}
    BY <2>1, <2>2, Numbers, WF!EmptyAccount
  <2>4. WF!Account(work, due, User, 0) /\ Work!Waiters(work) = {}
    BY <1>1, <2>3, SameWork, Zenon
  <2> QED
    BY <2>4 DEF PoolExact, Works, due
<1>6. EntriesExact
  <2>1. Cardinality(Admitted(build)) = 0
    BY <1>3, FS_EmptySet, Zenon
  <2> QED
    BY <1>1, <2>1, Numbers DEF EntriesExact
<1>7. ClosedEmpty
  BY <1>1 DEF ClosedEmpty
<1> QED
  BY <1>2, <1>4, <1>5, <1>6, <1>7 DEF Exact

LEMMA NextKeeps == Exact /\ [Next]_vars => Exact'
<1> SUFFICES ASSUME Exact, [Next]_vars PROVE Exact'
  OBVIOUS
<1>1. CASE UNCHANGED vars
  BY <1>1 DEF vars, budgets, pins, requests, Exact, Typed, StoreExact, PoolExact,
              EntriesExact, ClosedEmpty, Building
<1>2. ASSUME NEW k \in Key, BuildStep(k) \/ Expire(k) \/ Evict(k) PROVE Exact'
  BY <1>2, AskWorkKeeps, FoundKeeps, RetainKeeps, CompleteKeeps, FailKeeps,
     ExpireKeeps, EvictKeeps DEF BuildStep
<1>3. ASSUME NEW r \in Reader, Resolve(r) PROVE Exact'
  BY <1>3, JoinKeeps DEF Resolve
<1>4. ASSUME NEW v \in Viewer,
             Promise(v) \/ Resolve(v) \/ Cancel(v) \/ ViewerStep(v)
      PROVE  Exact'
  <2>1. v \in Reader
    BY DEF Reader
  <2> QED
    BY <1>3, <1>4, <2>1, PromiseKeeps, CancelKeeps, ReadKeeps, AcquireKeeps,
       OpenKeeps, ReturnKeeps, FinishKeeps DEF ViewerStep
<1>5. ASSUME NEW p \in Publisher, Resolve(p) \/ PublisherStep(p) PROVE Exact'
  <2>1. p \in Reader
    BY DEF Reader
  <2> QED
    BY <1>3, <1>5, <2>1, ReadKeeps, AcquireKeeps, OpenKeeps, VerifyKeeps,
       PublishedKeeps, DiscardKeeps DEF PublisherStep
<1>6. ASSUME NEW w \in Key \cup Reader, Deadline(w) PROVE Exact'
  BY <1>6, DeadlineKeeps
<1>7. CASE Rest
  BY <1>1, <1>7 DEF Rest
<1> QED
  BY <1>1, <1>2, <1>4, <1>5, <1>6, <1>7, CloseKeeps, ClosedKeeps DEF Next

(* Every budget accounts for every build, pin and transfer, always.         *)
THEOREM Accounts == Spec => []Exact
<1>1. Init => Exact
  BY InitExact
<1>2. Exact /\ [Next]_vars => Exact'
  BY NextKeeps
<1> QED
  BY <1>1, <1>2, PTL DEF Spec

-----------------------------------------------------------------------------
(* What follows.                                                            *)

LEMMA BudgetSizes ==
  ASSUME Exact
  PROVE  /\ handoff.used \in 0..HandoffBytes /\ work.used \in 0..WorkCapacity
         /\ handoff.used = MaxBytes * Cardinality(Admitted(build) \ Handoff!Waiters(handoff))
                           + Total(Size, DOMAIN claims)
         /\ work.used = Total(Charge(build, pc, want), User \ Work!Waiters(work))
<1>1. handoff.used = MaxBytes * Cardinality(Admitted(build) \ Handoff!Waiters(handoff))
                     + Total(Size, DOMAIN claims)
        /\ handoff.used \in 0..HandoffBytes
  <2> DEFINE A == Admitted(build)
             W == Handoff!Waiters(handoff)
             due == Bounds(A)
             s == Total(Size, DOMAIN claims)
  <2>1. /\ HF!Account(handoff, due, Key, s) /\ A \subseteq Key /\ W = HF!Waiters(handoff)
        /\ s \in Nat
    BY SameHandoff, Sizes DEF Exact, StoreExact, Holds
  <2>2. handoff.used \in Int /\ handoff.used <= HandoffBytes
    BY <2>1, HF!Places DEF HF!Account, HF!Balanced, HF!Orderly
  <2>3. handoff.used = Total(due, Key \ W) + s
    <3> HIDE DEF due, s, W
    <3>1. handoff.used = HF!Total(due, Key \ W) + s
      BY <2>1, HF!InUseIs
    <3> QED
      BY <3>1, SameSums
  <2>4. Total(due, Key \ W) = MaxBytes * Cardinality(A \ W)
    <3>1. /\ IsFiniteSet(Key \ W) /\ A \ W \in SUBSET (Key \ W)
          /\ \A k \in A \ W : due[k] = MaxBytes
          /\ \A k \in (Key \ W) \ (A \ W) : due[k] = 0
      BY <2>1, Numbers, FS_Subset DEF Bounds
    <3> DEFINE T == A \ W
               S == Key \ W
    <3> HIDE DEF due, A, W
    <3>2. Total(due, S) = MaxBytes * Cardinality(T)
      <4> HIDE DEF S, T
      <4> QED
        BY <3>1, Numbers, TotalWhere DEF S, T
    <3> QED
      BY <3>2
  <2>5. MaxBytes * Cardinality(A \ W) \in Nat
    <3>1. IsFiniteSet(A \ W)
      BY <2>1, Numbers, FS_Subset
    <3> DEFINE n == Cardinality(A \ W)
    <3>2. n \in Nat
      BY <3>1, FS_CardinalityType
    <3> HIDE DEF n
    <3>3. MaxBytes * n \in Nat
      BY <3>2, Numbers
    <3> QED
      BY <3>3 DEF n
  <2> HIDE DEF A, W, due, s
  <2>6. handoff.used \in 0..HandoffBytes
    BY <2>1, <2>2, <2>3, <2>4, <2>5, Numbers
  <2> QED
    BY <2>3, <2>4, <2>6 DEF A, W, s
<1>2. work.used = Total(Charge(build, pc, want), User \ Work!Waiters(work))
        /\ work.used \in 0..WorkCapacity
  <2> DEFINE W == Work!Waiters(work)
             due == Charge(build, pc, want)
  <2>1. /\ WF!Account(work, due, User, 0) /\ W = WF!Waiters(work)
        /\ work.used \in Int /\ work.used <= WorkCapacity /\ due \in [User -> Nat]
    BY SameWork, WorksType DEF Exact, PoolExact, Works
  <2> HIDE DEF due, W
  <2>2. Total(due, User \ W) \in Nat
    <3>1. IsFiniteSet(User \ W)
      BY Numbers, FS_Union, FS_Subset DEF User
    <3> QED
      BY <2>1, <3>1, TotalNat
  <2>3. work.used = Total(due, User \ W) + 0
    <3>1. work.used = WF!Total(due, User \ W) + 0
      BY <2>1, WF!InUseIs
    <3> QED
      BY <3>1, SameSums
  <2> QED
    BY <2>1, <2>2, <2>3, Numbers DEF W, due
<1> QED
  BY <1>1, <1>2

LEMMA ExactTypes == Exact => TypeOK
<1> SUFFICES ASSUME Exact PROVE TypeOK
  OBVIOUS
<1>1. Handoff!BudgetType(handoff, Key)
  <2>1. /\ handoff.waiting \in Seq([who : Key, bytes : Nat])
        /\ Len(handoff.waiting) <= MaxTasks
    BY HF!Places DEF Exact, StoreExact, Holds, HF!Account, HF!Balanced, HF!Orderly
  <2> QED
    BY <2>1, BudgetSizes DEF Handoff!BudgetType
<1>2. Work!BudgetType(work, Key \cup Reader)
  <2>1. /\ work.waiting \in Seq([who : Key \cup Reader, bytes : Nat])
        /\ Len(work.waiting) <= MaxTasks
    BY WF!Places DEF Exact, PoolExact, Works, User, WF!Account, WF!Balanced, WF!Orderly
  <2> QED
    BY <2>1, BudgetSizes DEF Work!BudgetType
<1>3. reserved \in 0..MaxEntries
  BY Numbers, FS_Subset, FS_CardinalityType DEF Exact, EntriesExact, Admitted
<1>4. Pinned \subseteq Key /\ claims \in [Pinned -> Nat]
  BY DEF Exact, Typed, Claims, Pinned
<1> QED
  BY <1>1, <1>2, <1>3, <1>4 DEF Exact, Typed, BuildStages, Stages, TypeOK

(* TypeOK: every part of the state is what the module says it is.  That the *)
(* bytes in use are never negative and never above the capacity, and that   *)
(* no queue outgrows its bound, already needs the accounts.                 *)
THEOREM Types == Spec => []TypeOK
BY Accounts, ExactTypes, PTL

LEMMA ExactBudgets == Exact => BudgetsExact
<1> SUFFICES ASSUME Exact PROVE BudgetsExact
  OBVIOUS
<1> DEFINE W == Work!Waiters(work)
           admitted == {k \in Key : build[k] \in {"handoff", "work"}}
           working == {k \in Building : build[k] # "handoff" /\ k \notin W}
           transfer == [r \in Reader |->
             IF pc[r] \in {"acquiring", "opened", "sending"} /\ r \notin W
             THEN Size[want[r]] * (IF r \in Publisher /\ pc[r] = "sending" THEN 3 ELSE 1)
             ELSE 0]
           due == Charge(build, pc, want)
<1>1. reserved = Cardinality(admitted)
  BY DEF Exact, EntriesExact, Admitted
<1>2. handoff.used = MaxBytes * Cardinality(admitted \ Handoff!Waiters(handoff))
                     + Total(Size, Pinned)
  BY BudgetSizes DEF Admitted, Pinned
<1>3. /\ due \in [User -> Nat] /\ want \in [Reader -> Key] /\ build \in [Key -> BuildStages]
      /\ \A k \in Key : due[k] = IF build[k] \in Heavy THEN WorkBytes ELSE 0
      /\ \A r \in Reader : due[r] =
           IF pc[r] \notin Moving THEN 0
           ELSE IF r \in Publisher /\ pc[r] = "sending" THEN 3 * Size[want[r]]
           ELSE Size[want[r]]
  BY ChargeType DEF Exact, Typed
<1>4. work.used = Total(due, User \ W)
  BY BudgetSizes
<1>5. Total(due, Key \ W) = WorkBytes * Cardinality(working)
  <2>1. /\ IsFiniteSet(Key \ W) /\ working \in SUBSET (Key \ W)
        /\ \A k \in working : due[k] = WorkBytes
        /\ \A k \in (Key \ W) \ working : due[k] = 0
    BY <1>3, Numbers, FS_Subset DEF Building, Heavy, BuildStages
  <2> HIDE DEF due, W, working
  <2> QED
    BY <2>1, Numbers, TotalWhere
<1>6. Total(due, Reader \ W) = Total(transfer, Reader)
  <2> DEFINE T == Reader \cap W
  <2>1. ASSUME NEW r \in Reader, r \notin W PROVE transfer[r] = due[r]
    <3>1. Size[want[r]] \in Nat
      BY <1>3, Numbers
    <3>2. Size[want[r]] * 3 = 3 * Size[want[r]] /\ Size[want[r]] * 1 = Size[want[r]]
      BY <3>1
    <3>3. transfer[r] = IF pc[r] \in Moving
                        THEN Size[want[r]] * (IF r \in Publisher /\ pc[r] = "sending"
                                              THEN 3 ELSE 1)
                        ELSE 0
      BY <2>1 DEF Moving
    <3> HIDE DEF transfer, due
    <3> QED
      BY <1>3, <3>2, <3>3
  <2>2. /\ \A r \in Reader \ T : transfer[r] = due[r]
        /\ \A r \in T : transfer[r] = 0
        /\ \A r \in Reader : due[r] \in Nat
        /\ T \in SUBSET Reader /\ IsFiniteSet(Reader)
    BY <1>3, <2>1, Numbers DEF User
  <2>3. Reader \ W = Reader \ T
    OBVIOUS
  <2> HIDE DEF T, W, due, transfer
  <2>4. Total(transfer, Reader) = Total(due, Reader) - Total(due, T)
    BY <2>2, TotalZeroed
  <2>5. Total(due, Reader \ T) = Total(due, Reader) - Total(due, T)
    BY <2>2, TotalSubset
  <2> QED
    BY <2>3, <2>4, <2>5, Zenon
<1>7. work.used = WorkBytes * Cardinality(working) + Total(transfer, Reader)
  <2>1. /\ IsFiniteSet(Key \ W) /\ IsFiniteSet(Reader \ W)
        /\ (Key \ W) \cap (Reader \ W) = {}
        /\ \A c \in (Key \ W) \cup (Reader \ W) : due[c] \in Nat
        /\ User \ W = (Key \ W) \cup (Reader \ W)
    BY <1>3, Numbers, FS_Subset DEF User
  <2> DEFINE S == Key \ W
             T == Reader \ W
  <2>2. Total(due, S \cup T) = Total(due, S) + Total(due, T)
    <3> HIDE DEF S, T, due
    <3> QED
      BY <2>1, TotalUnion DEF S, T
  <2> HIDE DEF working, transfer, due
  <2> QED
    BY <1>4, <1>5, <1>6, <2>1, <2>2
<1>8. /\ handoff.used =
           MaxBytes * Cardinality(admitted \ Handoff!Waiters(handoff))
           + MapThenSumSet(LAMBDA k : Size[k], Pinned)
      /\ work.used =
           WorkBytes * Cardinality(working) + MapThenSumSet(LAMBDA r : transfer[r], Reader)
  BY <1>2, <1>7 DEF Total
<1> QED
  BY <1>1, <1>8 DEF BudgetsExact

(* BudgetsExact: the bytes and entries charged are those of the builds, the *)
(* pins and the transfers there are.  However requests, builds, deadlines   *)
(* and the shutdown interleave, nothing is leaked or given back twice.      *)
THEOREM NothingLeaks == Spec => []BudgetsExact
BY Accounts, ExactBudgets, PTL

(* NobodyOversleeps: whoever waits first for bytes waits because they are   *)
(* not free.                                                                *)
THEOREM NobodySleepsOn == Spec => []NobodyOversleeps
<1>1. Exact => NobodyOversleeps
  <2> SUFFICES ASSUME Exact PROVE NobodyOversleeps
    OBVIOUS
  <2>1. HF!HeadWaits(handoff)
    BY DEF Exact, StoreExact, Holds, HF!Account
  <2> QED
    BY <2>1, SameHandoff, WorksType DEF Exact, PoolExact, NobodyOversleeps
<1> QED
  BY <1>1, Accounts, PTL

(* NothingAfterClose: a store that is closed stays empty, and no build is   *)
(* left that could still pin something.                                     *)
THEOREM ClosedForGood == Spec => []NothingAfterClose
<1>1. Exact => NothingAfterClose
  <2> SUFFICES ASSUME Exact, service = "closed" PROVE NothingAfterClose
    BY DEF NothingAfterClose
  <2>1. DOMAIN claims = {} /\ Building = {} /\ cache = {}
    BY DEF Exact, ClosedEmpty
  <2>2. Admitted(build) = {}
    BY <2>1 DEF Admitted, Building
  <2>3. reserved = 0
    <3>1. Cardinality(Admitted(build)) = 0
      BY <2>2, FS_EmptySet, Zenon
    <3> QED
      BY <3>1 DEF Exact, EntriesExact
  <2>4. handoff = Handoff!Empty
    <3> DEFINE due == Bounds({})
    <3>1. Holds(handoff, {}, {})
      BY <2>1, <2>2, Zenon DEF Exact, StoreExact
    <3>2. Total(Size, {}) = 0
      BY TotalEmpty, Zenon
    <3>3. /\ HF!Account(handoff, due, Key, Total(Size, {}))
          /\ HF!Waiters(handoff) = {} /\ \A k \in Key : due[k] = 0
      BY <3>1, SameHandoff DEF Holds, Bounds
    <3> HIDE DEF due
    <3>4. HF!Account(handoff, due, Key, 0)
      BY <3>2, <3>3, Zenon
    <3>5. handoff = HF!Empty
      BY <3>3, <3>4, HF!AccountEmpty
    <3> QED
      BY <3>5, SameHandoff
  <2> QED
    BY <2>1, <2>3, <2>4 DEF NothingAfterClose, Pinned
<1> QED
  BY <1>1, Accounts, PTL

-----------------------------------------------------------------------------
(* The bound that a build declared is enough for its output.                *)

(* Only Retain refuses an output.                                           *)
LEMMA JoinRefuses ==
  ASSUME Exact, NEW r \in Reader, NEW stage, Join(r, stage), NEW k \in Key
  PROVE  build'[k] = build[k] \/ build'[k] # "refused"
BY DEF Join, Exact, Typed

LEMMA BuildsFailRefuses ==
  ASSUME NEW ks, NEW b, NEW f, BuildsFail(ks, b, f), NEW k \in Key
  PROVE  build'[k] = build[k] \/ build'[k] # "refused"
BY DEF BuildsFail

LEMMA DeliverRefuses ==
  ASSUME Exact, NEW x \in Key, NEW b, NEW f, Deliver(x, b, f), NEW k \in Key
  PROVE  build'[k] = build[k] \/ build'[k] # "refused"
<1>1. build' = [build EXCEPT ![x] = "none"]
  BY DEF Deliver
<1> QED
  BY <1>1 DEF Exact, Typed

LEMMA RetainRefuses ==
  ASSUME Exact, NEW x \in Key, Retain(x), NEW k \in Key,
         build[k] = "work", build'[k] = "refused"
  PROVE  Cardinality(Pinned) >= MaxEntries
<1>1. k = x /\ ~(k \in Pinned
        \/ /\ Cardinality(Pinned) < MaxEntries
           /\ handoff.used - MaxBytes + Size[k] <= HandoffBytes)
  BY DEF Retain, Exact, Typed
<1>2. handoff.used - MaxBytes + Size[k] <= HandoffBytes
  BY BudgetSizes, Numbers
<1>3. Cardinality(Pinned) \in Nat
  BY Sizes, FS_CardinalityType DEF Exact, Typed, Claims, Pinned
<1> QED
  BY <1>1, <1>2, <1>3, Numbers

LEMMA StepSuffices ==
  ASSUME Exact, [Next]_vars, NEW k \in Key, build[k] = "work", build'[k] = "refused"
  PROVE  Cardinality(Pinned) >= MaxEntries
<1>1. CASE UNCHANGED build
  BY <1>1
<1>2. ASSUME NEW x \in Key, BuildStep(x) \/ Expire(x) \/ Evict(x)
      PROVE  Cardinality(Pinned) >= MaxEntries
  <2>1. CASE AskWork(x)
    <3>1. build' = [build EXCEPT ![x] = "work"]
            \/ BuildsFail({x}, Handoff!Released(handoff, MaxBytes), claims)
      BY <2>1 DEF AskWork
    <3> QED
      BY <3>1, BuildsFailRefuses DEF Exact, Typed
  <2>2. CASE Found(x)
    BY <2>2, DeliverRefuses DEF Found
  <2>3. CASE Retain(x)
    BY <2>3, RetainRefuses
  <2>4. CASE Complete(x)
    BY <2>4, DeliverRefuses, BuildsFailRefuses DEF Complete
  <2>5. CASE Fail(x)
    <3>1. \E b, f : BuildsFail({x}, b, f)
      BY <2>5 DEF Fail
    <3> QED
      BY <3>1, BuildsFailRefuses
  <2>6. CASE Expire(x) \/ Evict(x)
    BY <1>1, <2>6 DEF Expire, Evict
  <2> QED
    BY <1>2, <2>1, <2>2, <2>3, <2>4, <2>5, <2>6 DEF BuildStep
<1>3. ASSUME NEW r \in Reader, Resolve(r) \/ Read(r)
      PROVE  Cardinality(Pinned) >= MaxEntries
  <2>1. UNCHANGED build \/ \E stage \in {"resolving", "restoring"} : Join(r, stage)
    BY <1>3 DEF Resolve, Read
  <2> QED
    BY <1>1, <2>1, JoinRefuses
<1>4. ASSUME NEW v \in Viewer,
             Promise(v) \/ Resolve(v) \/ Cancel(v) \/ ViewerStep(v)
      PROVE  Cardinality(Pinned) >= MaxEntries
  <2>1. v \in Reader
    BY DEF Reader
  <2>2. UNCHANGED build \/ Resolve(v) \/ Read(v)
    BY <1>4 DEF Promise, Cancel, ViewerStep, Acquire, Open, Return, Finish
  <2> QED
    BY <1>1, <1>3, <2>1, <2>2
<1>5. ASSUME NEW p \in Publisher, Resolve(p) \/ PublisherStep(p)
      PROVE  Cardinality(Pinned) >= MaxEntries
  <2>1. p \in Reader
    BY DEF Reader
  <2>2. UNCHANGED build \/ Resolve(p) \/ Read(p)
    BY <1>5 DEF PublisherStep, Acquire, Open, Verify, Published, Discard
  <2> QED
    BY <1>1, <1>3, <2>1, <2>2
<1>6. ASSUME NEW w \in Key \cup Reader, Deadline(w) PROVE Cardinality(Pinned) >= MaxEntries
  <2>1. UNCHANGED build \/ \E ks, b, f : BuildsFail(ks, b, f)
    BY <1>6 DEF Deadline
  <2> QED
    BY <1>1, <2>1, BuildsFailRefuses
<1>7. CASE Close
  <2>1. \E lost : build' = [x \in Key |-> IF x \in lost THEN "none" ELSE build[x]]
    BY <1>7 DEF Close
  <2> QED
    BY <2>1
<1>8. CASE Closed \/ Rest \/ UNCHANGED vars
  BY <1>1, <1>8 DEF Closed, Rest, vars
<1> QED
  BY <1>2, <1>4, <1>5, <1>6, <1>7, <1>8 DEF Next

(* BoundSuffices: an output that a build has produced within the bound it   *)
(* declared finds its bytes in the handoff store, whatever was pinned       *)
(* meanwhile; only the number of entries can refuse it.                     *)
THEOREM OutputsFit == Spec => BoundSuffices
<1>1. Exact /\ [Next]_vars =>
        [\A k \in Key : build[k] = "work" /\ build'[k] = "refused"
                          => Cardinality(Pinned) >= MaxEntries]_vars
  BY StepSuffices
<1> QED
  BY <1>1, Accounts, PTL DEF Spec, BoundSuffices

-----------------------------------------------------------------------------
(* Claims, while nothing is late.                                           *)

Served == {"ready", "acquiring", "opened", "sending"}

(* Those that hold a claim on the body of k.                                *)
Takers(p, w, k) == {r \in Reader : p[r] \in Served /\ w[r] = k}

Held(f, k) == IF k \in DOMAIN f THEN f[k] ELSE 0

Kept(bld, k) == IF bld[k] = "retained" THEN 1 ELSE 0

(* A publisher holds its claim by a lease of its own.                       *)
LeaseOf(p, w) == [key |-> w[p], owners |-> {p}, why |-> "resolving"]

(* A promise, or a lease, is what a request that is served has.             *)
Entitled ==
  /\ \A r \in Reader : pc[r] \notin {"restoring", "fetched"}
  /\ promise = {v \in Viewer : pc[v] \in Served}
  /\ leases = {LeaseOf(p, want) : p \in {q \in Publisher : pc[q] \in Served}}

Counted ==
  \A k \in Key : Held(claims, k) = Cardinality(Takers(pc, want, k)) + Kept(build, k)

Timely == late = 0 /\ service # "closed" => Entitled /\ Counted

LEMMA TakersFinite ==
  ASSUME NEW p, NEW w, NEW k
  PROVE  /\ IsFiniteSet(Takers(p, w, k))
         /\ Cardinality(Takers(p, w, k)) \in Nat
<1>1. Takers(p, w, k) \subseteq Reader
  BY DEF Takers
<1> QED
  BY <1>1, Numbers, FS_Subset, FS_CardinalityType

(* The requests of D that are about k.                                      *)
About(D, w, k) == {r \in D : w[r] = k}

(* In q the requests D are served as well.                                  *)
Joins(p, q, D) ==
  /\ D \subseteq Reader
  /\ \A r \in D : p[r] \notin Served /\ q[r] \in Served
  /\ \A r \in Reader \ D : q[r] \in Served <=> p[r] \in Served

LEMMA TakersGrow ==
  ASSUME NEW p, NEW q, NEW D, Joins(p, q, D), NEW w, NEW k
  PROVE  /\ Cardinality(Takers(q, w, k))
              = Cardinality(Takers(p, w, k)) + Cardinality(About(D, w, k))
         /\ Cardinality(About(D, w, k)) \in Nat
<1> DEFINE E == About(D, w, k)
           S == Takers(p, w, k)
<1>1. Takers(q, w, k) = S \cup E /\ S \cap E = {}
  BY DEF Takers, Joins, About
<1>2. IsFiniteSet(E) /\ IsFiniteSet(S)
  BY Numbers, TakersFinite, FS_Subset DEF Joins, About
<1> HIDE DEF E, S
<1>3. Cardinality(S \cup E) = Cardinality(S) + Cardinality(E) - Cardinality(S \cap E)
  BY <1>2, FS_Union
<1>4. Cardinality(S \cap E) = 0
  BY <1>1, FS_EmptySet, Zenon
<1>5. Cardinality(S) \in Nat /\ Cardinality(E) \in Nat
  BY <1>2, FS_CardinalityType
<1>6. Cardinality(S \cup E) = Cardinality(S) + Cardinality(E)
  BY <1>3, <1>4, <1>5
<1>7. Cardinality(Takers(q, w, k)) = Cardinality(S) + Cardinality(E)
  BY <1>1, <1>6, Zenon
<1> QED
  BY <1>5, <1>7 DEF E, S

LEMMA OneOf ==
  ASSUME NEW r, NEW w, NEW k
  PROVE  Cardinality(About({r}, w, k)) = IF w[r] = k THEN 1 ELSE 0
<1> DEFINE E == About({r}, w, k)
<1>1. CASE w[r] = k
  <2>1. E = {r}
    BY <1>1 DEF About
  <2>2. Cardinality(E) = 1
    BY <2>1, FS_Singleton, Zenon
  <2> QED
    BY <1>1, <2>2
<1>2. CASE w[r] # k
  <2>1. E = {}
    BY <1>2 DEF About
  <2>2. Cardinality(E) = 0
    BY <2>1, FS_EmptySet, Zenon
  <2> QED
    BY <1>2, <2>2
<1> QED
  BY <1>1, <1>2

LEMMA HeldType ==
  ASSUME NEW f, Claims(f), NEW k
  PROVE  Held(f, k) \in Nat
BY DEF Held, Claims

LEMMA ClaimedHeld ==
  ASSUME NEW f, Claims(f), NEW k \in Key, NEW n \in Nat, NEW x \in Key
  PROVE  Held(Claimed(f, k, n), x) = Held(f, x) + (IF x = k THEN n ELSE 0)
<1>1. x \in DOMAIN f => f[x] \in Nat
  BY DEF Claims
<1>2. DOMAIN Claimed(f, k, n) = DOMAIN f \cup {k}
  BY DEF Claimed
<1>3. x \in DOMAIN f \cup {k} =>
        Claimed(f, k, n)[x] = (IF x \in DOMAIN f THEN f[x] ELSE 0) + (IF x = k THEN n ELSE 0)
  BY DEF Claimed
<1>4. Held(Claimed(f, k, n), x)
        = IF x \in DOMAIN f \cup {k} THEN Claimed(f, k, n)[x] ELSE 0
  BY <1>2 DEF Held
<1> QED
  BY <1>1, <1>3, <1>4 DEF Held

LEMMA ConsumedHeld ==
  ASSUME NEW f, Claims(f), NEW n \in [Key -> Nat], NEW k \in Key, n[k] <= Held(f, k)
  PROVE  Held(Consumed(f, n), k) = Held(f, k) - n[k]
<1> DEFINE D == {x \in DOMAIN f : n[x] = 0 \/ f[x] > n[x]}
<1>1. Consumed(f, n) = [x \in D |-> f[x] - n[x]]
  BY DEF Consumed
<1>2. Held(Consumed(f, n), k) = IF k \in D THEN f[k] - n[k] ELSE 0
  <2> HIDE DEF D
  <2> QED
    BY <1>1 DEF Held
<1>3. n[k] \in Nat /\ (k \in DOMAIN f => f[k] \in Nat)
  BY DEF Claims
<1>4. k \in D <=> k \in DOMAIN f /\ (n[k] = 0 \/ f[k] > n[k])
  OBVIOUS
<1> HIDE DEF D
<1> QED
  BY <1>2, <1>3, <1>4 DEF Held

LEMMA DroppedHeld ==
  ASSUME NEW f, Claims(f), NEW k, NEW x
  PROVE  Held(DropUnclaimed(f, k), x) = Held(f, x)
<1> DEFINE D == {y \in DOMAIN f : y # k \/ f[y] > 0}
<1>1. DropUnclaimed(f, k) = [y \in D |-> f[y]]
  BY DEF DropUnclaimed
<1>2. Held(DropUnclaimed(f, k), x) = IF x \in D THEN f[x] ELSE 0
  <2> HIDE DEF D
  <2> QED
    BY <1>1 DEF Held
<1>3. x \in DOMAIN f => f[x] \in Nat
  BY DEF Claims
<1>4. x \in D <=> x \in DOMAIN f /\ (x # k \/ f[x] > 0)
  OBVIOUS
<1> HIDE DEF D
<1> QED
  BY <1>2, <1>3, <1>4 DEF Held

(* The publishers among rs that have a lease.                               *)
Leavers(rs) == {p \in Publisher : p \in rs /\ pc[p] \in Served}

LEMMA ImageSize ==
  ASSUME NEW S, IsFiniteSet(S), NEW f, \A x, y \in S : f[x] = f[y] => x = y
  PROVE  Cardinality({f[x] : x \in S}) = Cardinality(S)
<1> DEFINE g == [x \in S |-> f[x]]
           T == {f[x] : x \in S}
<1>1. g \in Bijection(S, T)
  <2>1. g \in [S -> T] /\ (\A t \in T : \E x \in S : g[x] = t) /\ DOMAIN g = S
    OBVIOUS
  <2>2. \A x, y \in S : g[x] = g[y] => x = y
    OBVIOUS
  <2> HIDE DEF g, T
  <2>3. IsInjective(g)
    BY <2>1, <2>2 DEF IsInjective
  <2> QED
    BY <2>1, <2>3 DEF Bijection, Injection, Surjection
<1> HIDE DEF g, T
<1>2. ExistsBijection(S, T)
  BY <1>1 DEF ExistsBijection
<1>3. Cardinality(S) = Cardinality(T)
  BY <1>2, FS_Bijection
<1> QED
  BY <1>3 DEF T

LEMMA LeasesAre ==
  ASSUME Entitled, NEW rs
  PROVE  /\ LeasesOf(rs) = {LeaseOf(p, want) : p \in Leavers(rs)}
         /\ leases \ LeasesOf(rs)
              = {LeaseOf(p, want) : p \in {q \in Publisher : q \notin rs /\ pc[q] \in Served}}
         /\ \A k : Cardinality({l \in LeasesOf(rs) : l.key = k})
                     = Cardinality(About(Leavers(rs), want, k))
<1>1. \A p : /\ LeaseOf(p, want).owners = {p} /\ LeaseOf(p, want).key = want[p]
             /\ LeaseOf(p, want).owners \cap rs # {} <=> p \in rs
  BY DEF LeaseOf
<1>2. leases = {LeaseOf(p, want) : p \in {q \in Publisher : pc[q] \in Served}}
  BY DEF Entitled
<1>3. LeasesOf(rs) = {LeaseOf(p, want) : p \in Leavers(rs)}
  <2>1. ASSUME NEW l PROVE l \in LeasesOf(rs) <=>
                             l \in {LeaseOf(p, want) : p \in Leavers(rs)}
    BY <1>1, <1>2 DEF LeasesOf, Leavers
  <2> QED
    BY <2>1
<1>4. leases \ LeasesOf(rs)
        = {LeaseOf(p, want) : p \in {q \in Publisher : q \notin rs /\ pc[q] \in Served}}
  <2>1. ASSUME NEW l
        PROVE  l \in leases \ LeasesOf(rs) <=>
                 l \in {LeaseOf(p, want) : p \in {q \in Publisher : q \notin rs /\ pc[q] \in Served}}
    BY <1>1, <1>2 DEF LeasesOf
  <2> QED
    BY <2>1
<1>5. ASSUME NEW k
      PROVE  Cardinality({l \in LeasesOf(rs) : l.key = k})
               = Cardinality(About(Leavers(rs), want, k))
  <2> DEFINE S == About(Leavers(rs), want, k)
             f == [p \in S |-> LeaseOf(p, want)]
  <2>1. IsFiniteSet(S)
    BY Numbers, FS_Subset DEF Leavers, Reader, About
  <2>2. \A x, y \in S : f[x] = f[y] => x = y
    <3>1. \A x, y \in S : LeaseOf(x, want) = LeaseOf(y, want) => x = y
      BY <1>1
    <3> HIDE DEF S
    <3> QED
      BY <3>1
  <2>3. {f[x] : x \in S} = {l \in LeasesOf(rs) : l.key = k}
    <3>1. {f[x] : x \in S} = {LeaseOf(x, want) : x \in S}
      <4> HIDE DEF S
      <4> QED
        OBVIOUS
    <3>2. {LeaseOf(x, want) : x \in S} = {l \in LeasesOf(rs) : l.key = k}
      BY <1>1, <1>3 DEF About
    <3> QED
      BY <3>1, <3>2
  <2> HIDE DEF S, f
  <2>4. Cardinality({f[x] : x \in S}) = Cardinality(S)
    BY <2>1, <2>2, ImageSize
  <2>5. Cardinality({l \in LeasesOf(rs) : l.key = k}) = Cardinality(S)
    BY <2>3, <2>4, Zenon
  <2> QED
    BY <2>5 DEF S
<1> QED
  BY <1>3, <1>4, <1>5

LEMMA ForsakenHeld ==
  ASSUME Entitled, NEW rs, NEW f, Claims(f), NEW k \in Key,
         Cardinality(About(Leavers(rs), want, k)) <= Held(f, k)
  PROVE  Held(Forsaken(f, rs), k)
           = Held(f, k) - Cardinality(About(Leavers(rs), want, k))
<1> DEFINE n == [x \in Key |-> Cardinality({l \in LeasesOf(rs) : l.key = x})]
<1>1. \A x \in Key : n[x] = Cardinality(About(Leavers(rs), want, x))
  <2>1. \A x \in Key : n[x] = Cardinality({l \in LeasesOf(rs) : l.key = x})
    OBVIOUS
  <2>2. \A x : Cardinality({l \in LeasesOf(rs) : l.key = x})
                  = Cardinality(About(Leavers(rs), want, x))
    BY LeasesAre, Zenon
  <2> HIDE DEF n
  <2> QED
    BY <2>1, <2>2, Zenon
<1>2. ASSUME NEW x \in Key PROVE Cardinality(About(Leavers(rs), want, x)) \in Nat
  <2>1. IsFiniteSet(About(Leavers(rs), want, x))
    BY Numbers, FS_Subset DEF Leavers, Reader, About
  <2> QED
    BY <2>1, FS_CardinalityType
<1>3. n \in [Key -> Nat] /\ n[k] <= Held(f, k)
  <2>1. \A x \in Key : n[x] \in Nat
    BY <1>1, <1>2
  <2>2. n = [x \in Key |-> n[x]]
    OBVIOUS
  <2> HIDE DEF n
  <2> QED
    BY <1>1, <2>1, <2>2
<1>4. Forsaken(f, rs) = Consumed(f, n)
  BY DEF Forsaken
<1> HIDE DEF n
<1>5. Held(Consumed(f, n), k) = Held(f, k) - n[k]
  BY <1>3, ConsumedHeld
<1> QED
  BY <1>1, <1>4, <1>5

LEMMA NoLeases ==
  ASSUME Entitled, NEW rs, rs \cap Publisher = {}
  PROVE  LeasesOf(rs) = {}
<1>1. Leavers(rs) = {}
  BY DEF Leavers
<1>2. LeasesOf(rs) = {LeaseOf(p, want) : p \in Leavers(rs)}
  BY LeasesAre, Zenon
<1> QED
  BY <1>1, <1>2

(* Whoever is served holds a claim beside that of the build.                *)
LEMMA ServedHolds ==
  ASSUME Exact, Counted, NEW D, D \subseteq Reader, NEW k \in Key,
         \A r \in D : pc[r] \in Served /\ want[r] = k
  PROVE  /\ Cardinality(D) \in Nat
         /\ Cardinality(D) + Kept(build, k) <= Held(claims, k)
<1>1. D \subseteq Takers(pc, want, k)
  BY DEF Takers
<1>2. /\ Cardinality(D) \in Nat
      /\ Cardinality(D) <= Cardinality(Takers(pc, want, k))
  BY <1>1, TakersFinite, FS_Subset, FS_CardinalityType
<1>3. Cardinality(Takers(pc, want, k)) \in Nat
  BY TakersFinite
<1>4. Held(claims, k) = Cardinality(Takers(pc, want, k)) + Kept(build, k)
  BY DEF Counted
<1>5. Kept(build, k) \in Nat
  BY DEF Kept
<1> QED
  BY <1>2, <1>3, <1>4, <1>5

LEMMA ServedPinned ==
  ASSUME Exact, Counted, NEW r \in Reader, pc[r] \in Served
  PROVE  /\ want[r] \in Key /\ want[r] \in Pinned
         /\ 1 <= Held(claims, want[r])
<1>1. want[r] \in Key
  BY DEF Exact, Typed
<1>2. Cardinality({r}) + Kept(build, want[r]) <= Held(claims, want[r])
  BY <1>1, ServedHolds
<1>3. Cardinality({r}) = 1
  BY FS_Singleton
<1>4. Kept(build, want[r]) \in Nat
  BY DEF Kept
<1>5. Held(claims, want[r]) \in Nat
  BY HeldType DEF Exact, Typed
<1>6. 1 <= Held(claims, want[r])
  BY <1>2, <1>3, <1>4, <1>5
<1> QED
  BY <1>1, <1>6 DEF Held, Pinned

LEMMA Balance ==
  ASSUME NEW h \in Nat, NEW g \in Nat, NEW t \in Nat, NEW d \in Nat,
         NEW b \in Nat, NEW c \in Nat,
         h = (t + d) + b, g + d + b = h + c
  PROVE  g = t + c
OBVIOUS

(* The same requests are served, with the same claims.                      *)
LEMMA SameServed ==
  ASSUME Exact, Entitled, Counted, UNCHANGED <<want, promise, leases>>, Claims(claims'),
         \A r \in Reader : /\ pc'[r] \in Served <=> pc[r] \in Served
                           /\ pc'[r] \notin {"restoring", "fetched"},
         \A k \in Key : Held(claims', k) + Kept(build, k) = Held(claims, k) + Kept(build', k)
  PROVE  Entitled' /\ Counted'
<1>1. ASSUME NEW k \in Key
      PROVE  Held(claims', k) = Cardinality(Takers(pc', want', k)) + Kept(build', k)
  <2>1. Takers(pc', want', k) = Takers(pc, want, k)
    BY DEF Takers
  <2>2. Held(claims, k) = Cardinality(Takers(pc, want, k)) + Kept(build, k)
    BY DEF Counted
  <2>3. Cardinality(Takers(pc, want, k)) \in Nat
    BY TakersFinite
  <2>4. Kept(build, k) \in Nat /\ Kept(build', k) \in Nat
    BY DEF Kept
  <2>5. Held(claims', k) + 0 + Kept(build, k) = Held(claims, k) + Kept(build', k)
    BY <2>4, HeldType
  <2>6. Held(claims', k) \in Nat /\ Held(claims, k) \in Nat
    BY HeldType DEF Exact, Typed
  <2>7. Held(claims, k) = (Cardinality(Takers(pc, want, k)) + 0) + Kept(build, k)
    BY <2>2, <2>3
  <2>8. Held(claims', k) = Cardinality(Takers(pc, want, k)) + Kept(build', k)
    BY <2>3, <2>4, <2>5, <2>6, <2>7, Balance
  <2> QED
    BY <2>1, <2>8
<1>2. Counted'
  BY <1>1 DEF Counted
<1>3. {v \in Viewer : pc'[v] \in Served} = {v \in Viewer : pc[v] \in Served}
  BY DEF Reader
<1>4. {q \in Publisher : pc'[q] \in Served} = {q \in Publisher : pc[q] \in Served}
  BY DEF Reader
<1>5. \A p : LeaseOf(p, want') = LeaseOf(p, want)
  BY DEF LeaseOf
<1>6. Entitled'
  BY <1>3, <1>4, <1>5 DEF Entitled
<1> QED
  BY <1>2, <1>6

(* The requests D are no longer served, and give their claims back.         *)
LEMMA Leave ==
  ASSUME Exact, Entitled, Counted, want' = want, Claims(claims'),
         NEW D, D \subseteq Reader, NEW rs,
         \A r \in D : pc[r] \in Served /\ pc'[r] \notin Served,
         \A r \in Reader \ D : pc'[r] \in Served <=> pc[r] \in Served,
         \A r \in Reader : pc'[r] \notin {"restoring", "fetched"},
         promise' = promise \ D,
         \A p \in Publisher : p \in D <=> p \in Leavers(rs),
         leases' = leases \ LeasesOf(rs),
         \A k \in Key : Held(claims', k) + Cardinality(About(D, want, k)) + Kept(build, k)
                          = Held(claims, k) + Kept(build', k)
  PROVE  Entitled' /\ Counted'
<1>1. ASSUME NEW k \in Key
      PROVE  Held(claims', k) = Cardinality(Takers(pc', want', k)) + Kept(build', k)
  <2>1. /\ Cardinality(Takers(pc, want, k))
             = Cardinality(Takers(pc', want, k)) + Cardinality(About(D, want, k))
        /\ Cardinality(About(D, want, k)) \in Nat
    <3>1. Joins(pc', pc, D)
      BY DEF Joins
    <3> QED
      BY <3>1, TakersGrow
  <2>2. Held(claims, k) = Cardinality(Takers(pc, want, k)) + Kept(build, k)
    BY DEF Counted
  <2>3. Cardinality(Takers(pc', want, k)) \in Nat
    BY TakersFinite
  <2>4. Kept(build, k) \in Nat /\ Kept(build', k) \in Nat
    BY DEF Kept
  <2>5. Held(claims', k) + Cardinality(About(D, want, k)) + Kept(build, k)
          = Held(claims, k) + Kept(build', k)
    OBVIOUS
  <2>6. Held(claims', k) \in Nat /\ Held(claims, k) \in Nat
    BY HeldType DEF Exact, Typed
  <2>7. Held(claims, k) = (Cardinality(Takers(pc', want, k))
                             + Cardinality(About(D, want, k))) + Kept(build, k)
    BY <2>1, <2>2
  <2>8. Held(claims', k) = Cardinality(Takers(pc', want, k)) + Kept(build', k)
    BY <2>1, <2>3, <2>4, <2>5, <2>6, <2>7, Balance
  <2> QED
    BY <2>8
<1>2. Counted'
  BY <1>1 DEF Counted
<1>3. promise' = {v \in Viewer : pc'[v] \in Served}
  BY DEF Entitled, Reader
<1>4. {q \in Publisher : pc'[q] \in Served} = {q \in Publisher : q \notin rs /\ pc[q] \in Served}
  BY DEF Leavers, Reader
<1>5. leases' = {LeaseOf(p, want) : p \in {q \in Publisher : q \notin rs /\ pc[q] \in Served}}
  BY LeasesAre, Zenon
<1>6. leases' = {LeaseOf(p, want') : p \in {q \in Publisher : pc'[q] \in Served}}
  BY <1>4, <1>5
<1>7. Entitled'
  BY <1>3, <1>6 DEF Entitled
<1> QED
  BY <1>2, <1>7

(* The publishers that stop give their leases back, the viewers keep their  *)
(* promises.                                                                *)
LEMMA StopsTimely ==
  ASSUME Exact, Entitled, Counted, UNCHANGED <<want, promise>>,
         NEW rs, rs \subseteq Reader, NEW b, NEW f, Claims(f), Stop(rs, b, f),
         \A k \in Key : Held(f, k) + Kept(build, k) = Held(claims, k) + Kept(build', k)
  PROVE  Entitled' /\ Counted'
<1> DEFINE D == Leavers(rs)
<1>1. /\ claims' = Forsaken(f, rs)
      /\ leases' = leases \ LeasesOf(rs)
      /\ pc' = [r \in Reader |-> IF r \notin rs THEN pc[r]
                                 ELSE IF r \in promise THEN "ready" ELSE "idle"]
  BY DEF Stop
<1>2. Claims(claims')
  BY <1>1, ForsakenClaims DEF Exact, Typed
<1>3. D \subseteq Reader /\ D \subseteq Publisher /\ D \subseteq rs
  BY DEF Leavers, Reader
<1>4. \A r \in D : pc[r] \in Served /\ pc'[r] \notin Served
  <2>1. \A r \in D : r \notin promise
    BY <1>3, RepositoryAssumption DEF Entitled
  <2> QED
    BY <1>1, <1>3, <2>1 DEF Leavers, Served
<1>5. \A r \in Reader \ D : pc'[r] \in Served <=> pc[r] \in Served
  <2>1. ASSUME NEW r \in Reader \ D PROVE pc'[r] \in Served <=> pc[r] \in Served
    <3>1. CASE r \notin rs
      BY <1>1, <3>1
    <3>2. CASE r \in rs /\ r \in Viewer
      BY <1>1, <3>2 DEF Entitled, Served
    <3>3. CASE r \in rs /\ r \in Publisher
      <4>1. pc[r] \notin Served /\ r \notin promise
        BY <3>3, RepositoryAssumption DEF Leavers, Entitled
      <4> QED
        BY <1>1, <3>3, <4>1 DEF Served
    <3> QED
      BY <3>1, <3>2, <3>3 DEF Reader
  <2> QED
    BY <2>1
<1>6. \A r \in Reader : pc'[r] \notin {"restoring", "fetched"}
  BY <1>1 DEF Entitled
<1>7. promise' = promise \ D
  BY <1>3, RepositoryAssumption DEF Entitled
<1>8. \A k \in Key : Held(claims', k) + Cardinality(About(D, want, k)) + Kept(build, k)
                       = Held(claims, k) + Kept(build', k)
  <2>1. ASSUME NEW k \in Key
        PROVE  Held(claims', k) + Cardinality(About(D, want, k)) + Kept(build, k)
                 = Held(claims, k) + Kept(build', k)
    <3> DEFINE d == Cardinality(About(D, want, k))
    <3>1. d \in Nat /\ d + Kept(build, k) <= Held(claims, k)
      <4>1. About(D, want, k) \subseteq Reader
        BY <1>3 DEF About
      <4>2. \A r \in About(D, want, k) : pc[r] \in Served /\ want[r] = k
        BY <1>4 DEF About
      <4> QED
        BY <4>1, <4>2, ServedHolds
    <3> HIDE DEF D, d
    <3>2. Held(f, k) + Kept(build, k) = Held(claims, k) + Kept(build', k)
      OBVIOUS
    <3>3. /\ Held(f, k) \in Nat /\ Held(claims, k) \in Nat
          /\ Kept(build, k) \in Nat /\ Kept(build', k) \in Nat
      BY HeldType DEF Exact, Typed, Kept
    <3>4. d <= Held(f, k)
      BY <3>1, <3>2, <3>3
    <3>5. Held(claims', k) = Held(f, k) - d
      BY <1>1, <3>4, ForsakenHeld DEF D, d
    <3> QED
      BY <3>1, <3>2, <3>3, <3>5 DEF d
  <2> QED
    BY <2>1
<1>9. \A p \in Publisher : p \in D <=> p \in Leavers(rs)
  OBVIOUS
<1> HIDE DEF D
<1> QED
  BY <1>1, <1>2, <1>3, <1>4, <1>5, <1>6, <1>7, <1>8, <1>9, Leave

LEMMA BuildsFailTimely ==
  ASSUME Exact, Entitled, Counted, UNCHANGED <<want, promise>>,
         NEW ks, NEW b, NEW f, Claims(f), BuildsFail(ks, b, f),
         \A k \in Key : Held(f, k) + Kept(build, k) = Held(claims, k) + Kept(build', k)
  PROVE  Entitled' /\ Counted'
<1>1. Joiners(ks) \subseteq Reader
  BY DEF Joiners, Joined
<1>2. Stop(Joiners(ks), b, f)
  BY DEF BuildsFail
<1> QED
  BY <1>1, <1>2, StopsTimely

(* The requests D are served, each with a claim.                            *)
LEMMA Enter ==
  ASSUME Exact, Entitled, Counted, want' = want, Claims(claims'), NEW D, Joins(pc, pc', D),
         \A r \in Reader : pc'[r] \notin {"restoring", "fetched"},
         promise' = promise \cup (D \cap Viewer),
         leases' = leases \cup {LeaseOf(p, want) : p \in D \cap Publisher},
         \A k \in Key : Held(claims', k) + Kept(build, k)
                          = Held(claims, k) + Cardinality(About(D, want, k)) + Kept(build', k)
  PROVE  Entitled' /\ Counted'
<1>1. ASSUME NEW k \in Key
      PROVE  Held(claims', k) = Cardinality(Takers(pc', want', k)) + Kept(build', k)
  <2>1. /\ Cardinality(Takers(pc', want, k))
             = Cardinality(Takers(pc, want, k)) + Cardinality(About(D, want, k))
        /\ Cardinality(About(D, want, k)) \in Nat
    BY TakersGrow
  <2>2. Held(claims, k) = Cardinality(Takers(pc, want, k)) + Kept(build, k)
    BY DEF Counted
  <2>3. Cardinality(Takers(pc, want, k)) \in Nat
    BY TakersFinite
  <2>4. Kept(build, k) \in Nat /\ Kept(build', k) \in Nat
    BY DEF Kept
  <2>5. Held(claims', k) + Kept(build, k)
          = Held(claims, k) + Cardinality(About(D, want, k)) + Kept(build', k)
    OBVIOUS
  <2>6. Held(claims', k) \in Nat
    BY HeldType
  <2>7. Held(claims', k) = Cardinality(Takers(pc', want, k)) + Kept(build', k)
    BY <2>1, <2>2, <2>3, <2>4, <2>5, <2>6
  <2> QED
    BY <2>7
<1>2. Counted'
  BY <1>1 DEF Counted
<1>3. promise' = {v \in Viewer : pc'[v] \in Served}
  BY DEF Entitled, Reader, Joins
<1>4. {q \in Publisher : pc'[q] \in Served}
        = {q \in Publisher : pc[q] \in Served} \cup (D \cap Publisher)
  BY DEF Joins, Reader
<1>5. leases' = {LeaseOf(p, want) : p \in {q \in Publisher : pc'[q] \in Served}}
  <2>1. leases = {LeaseOf(p, want) : p \in {q \in Publisher : pc[q] \in Served}}
    BY DEF Entitled
  <2> QED
    BY <1>4, <2>1
<1>6. leases' = {LeaseOf(p, want') : p \in {q \in Publisher : pc'[q] \in Served}}
  BY <1>5
<1>7. Entitled'
  BY <1>3, <1>6 DEF Entitled
<1> QED
  BY <1>2, <1>7

(* A viewer gives its promise and its claim back.                           *)
LEMMA ViewerLeaves ==
  ASSUME Exact, Entitled, Counted, UNCHANGED <<want, leases, build>>,
         NEW v \in Viewer, pc[v] \in Served,
         claims' = Consumed(claims, Once(want[v])),
         promise' = promise \ {v}, pc' = [pc EXCEPT ![v] = "done"]
  PROVE  Entitled' /\ Counted'
<1>1. v \in Reader /\ want[v] \in Key /\ Claims(claims)
  BY DEF Exact, Typed, Reader
<1>2. 1 <= Held(claims, want[v])
  BY <1>1, ServedPinned
<1>3. Claims(claims')
  BY <1>1, OnceType, ConsumedClaims
<1>4. {v} \subseteq Reader
  BY <1>1
<1>5. /\ \A r \in {v} : pc[r] \in Served /\ pc'[r] \notin Served
      /\ \A r \in Reader \ {v} : pc'[r] \in Served <=> pc[r] \in Served
      /\ \A r \in Reader : pc'[r] \notin {"restoring", "fetched"}
  BY <1>1 DEF Exact, Typed, Served, Entitled
<1>6. \A p \in Publisher : p \in {v} <=> p \in Leavers({v})
  BY RepositoryAssumption DEF Leavers
<1>7. leases' = leases \ LeasesOf({v})
  <2>1. {v} \cap Publisher = {}
    BY RepositoryAssumption
  <2>2. LeasesOf({v}) = {}
    BY <2>1, NoLeases
  <2> QED
    BY <2>2
<1>8. \A k \in Key : Held(claims', k) + Cardinality(About({v}, want, k)) + Kept(build, k)
                       = Held(claims, k) + Kept(build', k)
  <2>1. ASSUME NEW k \in Key
        PROVE  Held(claims', k) + Cardinality(About({v}, want, k)) + Kept(build, k)
                 = Held(claims, k) + Kept(build', k)
    <3>1. Cardinality(About({v}, want, k)) = IF want[v] = k THEN 1 ELSE 0
      BY OneOf
    <3>2. Once(want[v])[k] = IF want[v] = k THEN 1 ELSE 0
      BY DEF Once
    <3>3. Held(claims, k) \in Nat
      BY <1>1, HeldType
    <3>4. Once(want[v])[k] <= Held(claims, k)
      BY <1>2, <3>2, <3>3
    <3>5. Held(claims', k) = Held(claims, k) - Once(want[v])[k]
      BY <1>1, <3>4, OnceType, ConsumedHeld
    <3>6. Kept(build, k) \in Nat
      BY DEF Kept
    <3>7. Held(claims', k) + Cardinality(About({v}, want, k)) = Held(claims, k)
      BY <3>1, <3>2, <3>3, <3>5
    <3> QED
      BY <3>6, <3>7
  <2> QED
    BY <2>1
<1> QED
  BY <1>3, <1>4, <1>5, <1>6, <1>7, <1>8, Leave

(* A publisher gives its lease and its claim back.                          *)
LEMMA PublisherLeaves ==
  ASSUME Exact, Entitled, Counted, UNCHANGED <<want, promise, build>>,
         NEW p \in Publisher, pc[p] \in Served, NEW st \in {"done", "idle"},
         Claims(claims'),
         \A k \in Key : Held(claims', k)
                          = Held(claims, k) - Cardinality(About(Leavers({p}), want, k)),
         leases' = leases \ LeasesOf({p}), pc' = [pc EXCEPT ![p] = st]
  PROVE  Entitled' /\ Counted'
<1>1. p \in Reader /\ {p} \subseteq Reader
  BY DEF Reader
<1>2. /\ \A r \in {p} : pc[r] \in Served /\ pc'[r] \notin Served
      /\ \A r \in Reader \ {p} : pc'[r] \in Served <=> pc[r] \in Served
      /\ \A r \in Reader : pc'[r] \notin {"restoring", "fetched"}
  BY <1>1 DEF Exact, Typed, Served, Entitled
<1>3. Leavers({p}) = {p}
  BY DEF Leavers
<1>4. promise' = promise \ {p}
  BY RepositoryAssumption DEF Entitled
<1>5. \A k \in Key : Held(claims', k) + Cardinality(About({p}, want, k)) + Kept(build, k)
                       = Held(claims, k) + Kept(build', k)
  <2>1. ASSUME NEW k \in Key
        PROVE  Held(claims', k) + Cardinality(About({p}, want, k)) + Kept(build, k)
                 = Held(claims, k) + Kept(build', k)
    <3>1. Held(claims', k) = Held(claims, k) - Cardinality(About({p}, want, k))
      BY <1>3
    <3>2. Cardinality(About({p}, want, k)) \in Nat
      <4>1. Cardinality(About({p}, want, k)) = IF want[p] = k THEN 1 ELSE 0
        BY OneOf
      <4> QED
        BY <4>1
    <3>3. Held(claims, k) \in Nat /\ Kept(build, k) \in Nat
      BY HeldType DEF Exact, Typed, Kept
    <3> QED
      BY <3>1, <3>2, <3>3
  <2> QED
    BY <2>1
<1>6. \A q \in Publisher : q \in {p} <=> q \in Leavers({p})
  BY <1>3
<1> QED
  BY <1>1, <1>2, <1>4, <1>5, <1>6, Leave

LEMMA LeaversHold ==
  ASSUME Exact, Counted, NEW rs, NEW k \in Key
  PROVE  /\ Cardinality(About(Leavers(rs), want, k)) \in Nat
         /\ Cardinality(About(Leavers(rs), want, k)) <= Held(claims, k)
<1> DEFINE D == About(Leavers(rs), want, k)
<1>1. D \subseteq Reader /\ \A r \in D : pc[r] \in Served /\ want[r] = k
  BY DEF Leavers, Reader, About
<1> HIDE DEF D
<1>2. /\ Cardinality(D) \in Nat
      /\ Cardinality(D) + Kept(build, k) <= Held(claims, k)
  BY <1>1, ServedHolds
<1>3. Held(claims, k) \in Nat /\ Kept(build, k) \in Nat
  BY HeldType DEF Exact, Typed, Kept
<1>4. Cardinality(D) <= Held(claims, k)
  BY <1>2, <1>3
<1> QED
  BY <1>2, <1>4 DEF D

-----------------------------------------------------------------------------
(* The actions once more.                                                   *)

LEMMA PromiseTimely ==
  ASSUME Exact, Entitled, Counted, NEW v \in Viewer, Promise(v)
  PROVE  Entitled' /\ Counted'
<1>1. v \in Reader /\ want[v] \in Key /\ Claims(claims) /\ pc[v] = "idle"
  BY DEF Exact, Typed, Reader, Promise
<1>2. /\ claims' = Claimed(claims, want[v], 1) /\ promise' = promise \cup {v}
      /\ pc' = [pc EXCEPT ![v] = "ready"] /\ UNCHANGED <<leases, build, want>>
  BY DEF Promise
<1>3. Claims(claims')
  BY <1>1, <1>2, ClaimedClaims
<1>4. Joins(pc, pc', {v}) /\ \A r \in Reader : pc'[r] \notin {"restoring", "fetched"}
  BY <1>1, <1>2 DEF Joins, Served, Exact, Typed, Entitled
<1>5. promise' = promise \cup ({v} \cap Viewer)
  BY <1>2
<1>6. leases' = leases \cup {LeaseOf(p, want) : p \in {v} \cap Publisher}
  BY <1>2, RepositoryAssumption
<1>7. \A k \in Key : Held(claims', k) + Kept(build, k)
                       = Held(claims, k) + Cardinality(About({v}, want, k)) + Kept(build', k)
  <2>1. ASSUME NEW k \in Key
        PROVE  Held(claims', k) + Kept(build, k)
                 = Held(claims, k) + Cardinality(About({v}, want, k)) + Kept(build', k)
    <3>1. Cardinality(About({v}, want, k)) = IF want[v] = k THEN 1 ELSE 0
      BY OneOf
    <3>2. Held(claims', k) = Held(claims, k) + (IF k = want[v] THEN 1 ELSE 0)
      BY <1>1, <1>2, ClaimedHeld
    <3>3. Kept(build', k) = Kept(build, k)
      BY <1>2
    <3>4. Held(claims, k) \in Nat /\ Kept(build, k) \in Nat
      BY <1>1, HeldType DEF Kept
    <3>5. Held(claims', k) = Held(claims, k) + Cardinality(About({v}, want, k))
      BY <3>1, <3>2
    <3> QED
      BY <3>3, <3>5
  <2> QED
    BY <2>1
<1> QED
  BY <1>2, <1>3, <1>4, <1>5, <1>6, <1>7, Enter

LEMMA ResolveTimely ==
  ASSUME Exact, Entitled, Counted, NEW r \in Reader, Resolve(r)
  PROVE  Entitled' /\ Counted'
<1>1. pc[r] = "idle" /\ want[r] \in Key /\ UNCHANGED <<promise, want>> /\ Claims(claims)
  BY DEF Exact, Typed, Resolve
<1>2. CASE /\ pc' = [pc EXCEPT ![r] = "resolving"] /\ UNCHANGED <<claims, leases>>
           /\ \/ UNCHANGED build
              \/ build[want[r]] = "none" /\ build' = [build EXCEPT ![want[r]] = "handoff"]
  <2>1. \A x \in Reader : /\ pc'[x] \in Served <=> pc[x] \in Served
                          /\ pc'[x] \notin {"restoring", "fetched"}
    BY <1>1, <1>2 DEF Exact, Typed, Served, Entitled
  <2>2. \A k \in Key : Kept(build', k) = Kept(build, k)
    BY <1>1, <1>2 DEF Kept, Exact, Typed
  <2>3. Claims(claims')
    BY <1>1, <1>2
  <2> QED
    BY <1>1, <1>2, <2>1, <2>2, <2>3, SameServed
<1>3. CASE Stop({r}, handoff, claims) /\ UNCHANGED build
  BY <1>1, <1>3, StopsTimely
<1> QED
  BY <1>2, <1>3 DEF Resolve, Join

LEMMA CancelTimely ==
  ASSUME Exact, Entitled, Counted, NEW v \in Viewer, Cancel(v)
  PROVE  Entitled' /\ Counted'
<1>1. pc[v] \in Served /\ claims' = Consumed(claims, Once(want[v]))
  BY DEF Cancel, Served
<1> QED
  BY <1>1, ViewerLeaves DEF Cancel

LEMMA FinishTimely ==
  ASSUME MaxReads = 1, Exact, Entitled, Counted, NEW v \in Viewer, Finish(v)
  PROVE  Entitled' /\ Counted'
<1>1. pc[v] \in Served /\ claims' = Consumed(claims, Once(want[v]))
  BY DEF Finish, Served
<1>2. ~(reads[v] + 1 < MaxReads)
  BY DEF Exact, Typed
<1>3. pc' = [pc EXCEPT ![v] = "done"]
  BY <1>2 DEF Finish
<1> QED
  BY <1>1, <1>3, ViewerLeaves DEF Finish

LEMMA DiscardTimely ==
  ASSUME Exact, Entitled, Counted, NEW p \in Publisher, Discard(p)
  PROVE  Entitled' /\ Counted'
<1> DEFINE f == Forsaken(claims, {p})
<1>1. /\ pc[p] \in Served /\ claims' = DropUnclaimed(f, want[p])
      /\ leases' = leases \ LeasesOf({p}) /\ pc' = [pc EXCEPT ![p] = "done"]
      /\ UNCHANGED <<want, promise, build>>
  BY DEF Discard, Served
<1>2. Claims(f)
  BY ForsakenClaims DEF Exact, Typed
<1>3. \A k \in Key : Held(f, k) = Held(claims, k) - Cardinality(About(Leavers({p}), want, k))
  BY LeaversHold, ForsakenHeld DEF Exact, Typed
<1> HIDE DEF f
<1>4. Claims(claims') /\ \A k \in Key : Held(claims', k) = Held(f, k)
  BY <1>1, <1>2, DroppedClaims, DroppedHeld
<1> QED
  BY <1>1, <1>3, <1>4, PublisherLeaves

LEMMA PublishedTimely ==
  ASSUME Exact, Entitled, Counted, NEW p \in Publisher, Published(p)
  PROVE  Entitled' /\ Counted'
<1> DEFINE f == DropUnclaimed(claims, want[p])
           st == IF pc[p] = "sending" THEN "done" ELSE "idle"
<1>1. /\ pc[p] \in Served /\ claims' = Forsaken(f, {p})
      /\ leases' = leases \ LeasesOf({p}) /\ pc' = [pc EXCEPT ![p] = st]
      /\ UNCHANGED <<want, promise, build>> /\ st \in {"done", "idle"}
  BY DEF Published, Served
<1>2. Claims(f) /\ \A k \in Key : Held(f, k) = Held(claims, k)
  BY DroppedClaims, DroppedHeld DEF Exact, Typed
<1> HIDE DEF f, st
<1>3. \A k \in Key : Held(claims', k)
                       = Held(claims, k) - Cardinality(About(Leavers({p}), want, k))
  BY <1>1, <1>2, LeaversHold, ForsakenHeld
<1>4. Claims(claims')
  BY <1>1, <1>2, ForsakenClaims DEF Exact, Typed
<1> QED
  BY <1>1, <1>3, <1>4, PublisherLeaves

LEMMA StillServed ==
  ASSUME Exact, Entitled, Counted, UNCHANGED <<want, promise, leases, build>>,
         NEW r \in Reader, pc[r] \in Served, NEW st \in Served, pc' = [pc EXCEPT ![r] = st],
         Claims(claims'), \A k \in Key : Held(claims', k) = Held(claims, k)
  PROVE  Entitled' /\ Counted'
<1>1. \A x \in Reader : /\ pc'[x] \in Served <=> pc[x] \in Served
                        /\ pc'[x] \notin {"restoring", "fetched"}
  BY DEF Exact, Typed, Served, Entitled
<1>2. \A k \in Key : Kept(build', k) = Kept(build, k)
  OBVIOUS
<1> QED
  BY <1>1, <1>2, SameServed

(* What a request has resolved is pinned when it reads.                     *)
LEMMA ReadTimely ==
  ASSUME Exact, Entitled, Counted, NEW r \in Reader, Read(r)
  PROVE  Entitled' /\ Counted'
<1> DEFINE f == Claimed(claims, want[r], 0)
<1>1. pc[r] = "ready" /\ pc[r] \in Served /\ UNCHANGED <<promise, want>>
  BY DEF Read, Served
<1>2. want[r] \in Key /\ want[r] \in Pinned /\ Claims(claims)
  BY <1>1, ServedPinned DEF Exact, Typed
<1>3. Ask(r, Leased(want[r]), f) /\ UNCHANGED <<reserved, build>>
  BY <1>2 DEF Read, Available, CanLease
<1>4. Claims(f)
  BY <1>2, ClaimedClaims
<1>5. \A k \in Key : Held(f, k) = Held(claims, k)
  <2>1. ASSUME NEW k \in Key PROVE Held(f, k) = Held(claims, k)
    <3>1. Held(f, k) = Held(claims, k) + (IF k = want[r] THEN 0 ELSE 0)
      BY <1>2, ClaimedHeld
    <3>2. Held(claims, k) \in Nat
      BY <1>2, HeldType
    <3> HIDE DEF f
    <3> QED
      BY <3>1, <3>2
  <2> QED
    BY <2>1
<1> HIDE DEF f
<1>6. CASE /\ pc' = [pc EXCEPT ![r] = "acquiring"] /\ claims' = f /\ UNCHANGED leases
  <2>1. "acquiring" \in Served
    BY DEF Served
  <2> QED
    BY <1>1, <1>3, <1>4, <1>5, <1>6, <2>1, StillServed
<1>7. CASE Stop({r}, Leased(want[r]), f)
  <2>1. \A k \in Key : Held(f, k) + Kept(build, k) = Held(claims, k) + Kept(build', k)
    BY <1>3, <1>5
  <2> QED
    BY <1>1, <1>4, <1>7, <2>1, StopsTimely
<1> QED
  BY <1>3, <1>6, <1>7 DEF Ask

LEMMA AcquireTimely ==
  ASSUME Entitled, NEW r \in Reader, Acquire(r)
  PROVE  Entitled' /\ Counted'
BY DEF Entitled, Acquire

LEMMA OpenTimely ==
  ASSUME Exact, Entitled, Counted, NEW r \in Reader, Open(r)
  PROVE  Entitled' /\ Counted'
<1> DEFINE st == IF r \in Viewer /\ LeasesOf({r}) = {} THEN "sending" ELSE "opened"
<1>1. pc[r] \in Served /\ UNCHANGED <<promise, want, build>>
  BY DEF Open, Served
<1>2. want[r] \in Pinned
  BY <1>1, ServedPinned
<1>3. pc' = [pc EXCEPT ![r] = st] /\ UNCHANGED <<claims, leases>>
  BY <1>2 DEF Open, Available
<1>4. st \in Served /\ Claims(claims')
  BY <1>3 DEF Served, Exact, Typed
<1> HIDE DEF st
<1> QED
  BY <1>1, <1>3, <1>4, StillServed

(* A viewer has no lease to return.                                         *)
LEMMA ReturnTimely ==
  ASSUME Exact, Entitled, Counted, NEW v \in Viewer, Return(v)
  PROVE  Entitled' /\ Counted'
<1>1. /\ pc[v] \in Served /\ "sending" \in Served /\ v \in Reader
      /\ claims' = Forsaken(claims, {v}) /\ leases' = leases \ LeasesOf({v})
      /\ pc' = [pc EXCEPT ![v] = "sending"] /\ UNCHANGED <<promise, want, build>>
  BY DEF Return, Served, Reader
<1>2. LeasesOf({v}) = {}
  <2>1. {v} \cap Publisher = {}
    BY RepositoryAssumption
  <2> QED
    BY <2>1, NoLeases
<1>3. Claims(claims')
  BY <1>1, ForsakenClaims DEF Exact, Typed
<1>4. \A k \in Key : Held(claims', k) = Held(claims, k)
  <2>1. \A k \in Key : About(Leavers({v}), want, k) = {}
    BY RepositoryAssumption DEF About, Leavers
  <2>2. \A k \in Key : Cardinality(About(Leavers({v}), want, k)) = 0
    BY <2>1, FS_EmptySet
  <2>3. \A k \in Key : Held(claims', k)
                         = Held(claims, k) - Cardinality(About(Leavers({v}), want, k))
    BY <1>1, LeaversHold, ForsakenHeld DEF Exact, Typed
  <2>4. \A k \in Key : Held(claims, k) \in Nat
    BY HeldType DEF Exact, Typed
  <2> QED
    BY <2>2, <2>3, <2>4
<1>5. leases' = leases
  BY <1>1, <1>2
<1> QED
  BY <1>1, <1>3, <1>4, <1>5, StillServed

LEMMA VerifyTimely ==
  ASSUME Exact, Entitled, Counted, NEW p \in Publisher, Verify(p)
  PROVE  Entitled' /\ Counted'
<1>1. /\ pc[p] \in Served /\ "sending" \in Served /\ p \in Reader
      /\ pc' = [pc EXCEPT ![p] = "sending"] /\ UNCHANGED <<pins, want, build>>
  BY DEF Verify, Served, Reader
<1>2. Claims(claims') /\ UNCHANGED <<claims, promise, leases>>
  BY <1>1 DEF Exact, Typed, pins
<1> QED
  BY <1>1, <1>2, StillServed

(* Builds that make no difference to claims.                                *)
LEMMA SameRequests ==
  ASSUME Exact, Entitled, Counted, UNCHANGED <<pc, want, promise, leases>>, Claims(claims'),
         \A k \in Key : Held(claims', k) + Kept(build, k) = Held(claims, k) + Kept(build', k)
  PROVE  Entitled' /\ Counted'
<1>1. \A x \in Reader : /\ pc'[x] \in Served <=> pc[x] \in Served
                        /\ pc'[x] \notin {"restoring", "fetched"}
  BY DEF Entitled
<1> QED
  BY <1>1, SameServed

LEMMA AskWorkTimely ==
  ASSUME Exact, Entitled, Counted, NEW k \in Key, AskWork(k)
  PROVE  Entitled' /\ Counted'
<1>1. build[k] = "handoff" /\ UNCHANGED <<promise, want>> /\ Claims(claims)
  BY DEF AskWork, Exact, Typed
<1>2. CASE build' = [build EXCEPT ![k] = "work"] /\ UNCHANGED <<claims, leases, pc>>
  <2>1. \A x \in Key : Kept(build', x) = Kept(build, x)
    BY <1>1, <1>2 DEF Kept, Exact, Typed
  <2>2. Claims(claims')
    BY <1>1, <1>2
  <2> QED
    BY <1>1, <1>2, <2>1, <2>2, SameRequests
<1>3. CASE BuildsFail({k}, Handoff!Released(handoff, MaxBytes), claims)
  <2>1. \A x \in Key : Kept(build', x) = Kept(build, x)
    BY <1>1, <1>3 DEF BuildsFail, Kept, Exact, Typed
  <2>2. \A x \in Key : Held(claims, x) + Kept(build, x) = Held(claims, x) + Kept(build', x)
    BY <2>1
  <2> QED
    BY <1>1, <1>3, <2>2, BuildsFailTimely
<1> QED
  BY <1>2, <1>3 DEF AskWork

LEMMA RetainTimely ==
  ASSUME Exact, Entitled, Counted, NEW k \in Key, Retain(k)
  PROVE  Entitled' /\ Counted'
<1>1. /\ build[k] = "work" /\ UNCHANGED <<promise, leases, pc, want>> /\ Claims(claims)
      /\ build \in [Key -> BuildStages]
  BY DEF Retain, Producing, requests, Exact, Typed
<1>2. CASE claims' = Claimed(claims, k, 1) /\ build' = [build EXCEPT ![k] = "retained"]
  <2>1. ASSUME NEW x \in Key
        PROVE  Held(claims', x) + Kept(build, x) = Held(claims, x) + Kept(build', x)
    <3>1. Held(claims', x) = Held(claims, x) + (IF x = k THEN 1 ELSE 0)
      BY <1>1, <1>2, ClaimedHeld
    <3>2. Kept(build, x) + (IF x = k THEN 1 ELSE 0) = Kept(build', x)
      BY <1>1, <1>2 DEF Kept
    <3>3. Held(claims, x) \in Nat /\ Kept(build, x) \in Nat
      BY <1>1, HeldType DEF Kept
    <3> QED
      BY <3>1, <3>2, <3>3
  <2>2. Claims(claims')
    BY <1>1, <1>2, ClaimedClaims
  <2> QED
    BY <1>1, <2>1, <2>2, SameRequests
<1>3. CASE UNCHANGED claims /\ build' = [build EXCEPT ![k] = "refused"]
  <2>1. \A x \in Key : Kept(build', x) = Kept(build, x)
    BY <1>1, <1>3 DEF Kept
  <2>2. Claims(claims')
    BY <1>1, <1>3
  <2> QED
    BY <1>1, <1>3, <2>1, <2>2, SameRequests
<1> QED
  BY <1>2, <1>3 DEF Retain

(* Everyone who joined the build is served, with a claim of its own.        *)
LEMMA DeliverTimely ==
  ASSUME Exact, Entitled, Counted, want' = want, NEW k \in Key,
         NEW b, NEW f, Claims(f), Deliver(k, b, f),
         \A x \in Key : Held(f, x) + Kept(build, x) = Held(claims, x) + Kept(build', x)
  PROVE  Entitled' /\ Counted'
<1> DEFINE D == Joined({k}, "resolving")
           V == D \cap Viewer
           P == D \cap Publisher
           new == {LeaseOf(p, want) : p \in P}
           n == Cardinality(V) + Cardinality(new)
<1>1. Joined({k}, "restoring") = {} /\ Joiners({k}) = D
  BY DEF Entitled, Joiners, Joined
<1>2. D \subseteq Reader /\ \A r \in D : pc[r] = "resolving" /\ want[r] = k
  BY DEF Joined
<1>3. {[key |-> k, owners |-> {p}, why |-> pc[p]] : p \in P} = new
  BY <1>2 DEF LeaseOf
<1>4. /\ claims' = Claimed(f, k, n) /\ leases' = leases \cup new /\ promise' = promise \cup V
      /\ pc' = [r \in Reader |-> IF r \in D THEN "ready" ELSE pc[r]]
  <2> HIDE DEF D
  <2>1. /\ Joined({k}, "restoring") \cap Viewer = {}
        /\ Joined({k}, "resolving") \cap Viewer = V /\ Joiners({k}) \cap Publisher = P
    BY <1>1 DEF D
  <2> HIDE DEF V, P, new
  <2>2. /\ claims' = Claimed(f, k, n) /\ leases' = leases \cup new /\ promise' = promise \cup V
    BY <1>3, <2>1 DEF Deliver
  <2>3. pc' = [r \in Reader |-> IF r \notin D THEN pc[r]
                                ELSE IF pc[r] = "resolving" THEN "ready" ELSE "fetched"]
    BY <1>1, Zenon DEF Deliver
  <2>4. pc' = [r \in Reader |-> IF r \in D THEN "ready" ELSE pc[r]]
    BY <1>2, <2>3
  <2> QED
    BY <2>2, <2>4
<1>5. n \in Nat /\ n = Cardinality(D)
  <2>1. IsFiniteSet(D) /\ IsFiniteSet(V) /\ IsFiniteSet(P)
    BY Numbers, FS_Subset DEF Joined
  <2>2. Cardinality(new) = Cardinality(P)
    <3> DEFINE g == [p \in P |-> LeaseOf(p, want)]
    <3>1. \A x, y \in P : g[x] = g[y] => x = y
      <4>1. \A x, y \in P : LeaseOf(x, want) = LeaseOf(y, want) => x = y
        BY DEF LeaseOf
      <4> HIDE DEF P
      <4> QED
        BY <4>1
    <3>2. {g[x] : x \in P} = new
      <4> HIDE DEF P
      <4> QED
        OBVIOUS
    <3> HIDE DEF P, g, new
    <3>3. Cardinality({g[x] : x \in P}) = Cardinality(P)
      BY <2>1, <3>1, ImageSize
    <3> QED
      BY <3>2, <3>3, Zenon
  <2>3. V \cup P = D /\ V \cap P = {}
    BY RepositoryAssumption DEF Joined, Reader
  <2> HIDE DEF D, V, P, new
  <2>4. Cardinality(V \cup P) = Cardinality(V) + Cardinality(P) - Cardinality(V \cap P)
    BY <2>1, FS_Union
  <2>5. Cardinality(V \cap P) = 0
    BY <2>3, FS_EmptySet, Zenon
  <2>6. Cardinality(V) \in Nat /\ Cardinality(P) \in Nat
    BY <2>1, FS_CardinalityType
  <2>7. Cardinality(V \cup P) = Cardinality(V) + Cardinality(P)
    BY <2>4, <2>5, <2>6
  <2>8. Cardinality(D) = Cardinality(V) + Cardinality(P)
    BY <2>3, <2>7, Zenon
  <2> QED
    BY <2>2, <2>6, <2>8
<1>6. Joins(pc, pc', D) /\ \A r \in Reader : pc'[r] \notin {"restoring", "fetched"}
  <2> HIDE DEF D
  <2> QED
    BY <1>2, <1>4 DEF Joins, Served, Entitled
<1>7. \A x \in Key : Held(claims', x) + Kept(build, x)
                       = Held(claims, x) + Cardinality(About(D, want, x)) + Kept(build', x)
  <2>1. ASSUME NEW x \in Key
        PROVE  Held(claims', x) + Kept(build, x)
                 = Held(claims, x) + Cardinality(About(D, want, x)) + Kept(build', x)
    <3> HIDE DEF D, n
    <3>1. Cardinality(About(D, want, x)) = IF x = k THEN n ELSE 0
      <4>1. CASE x = k
        <5>1. About(D, want, x) = D
          BY <1>2, <4>1 DEF About
        <5> QED
          BY <1>5, <4>1, <5>1
      <4>2. CASE x # k
        <5>1. About(D, want, x) = {}
          BY <1>2, <4>2 DEF About
        <5>2. Cardinality(About(D, want, x)) = 0
          BY <5>1, FS_EmptySet, Zenon
        <5> QED
          BY <4>2, <5>2
      <4> QED
        BY <4>1, <4>2
    <3>2. Held(claims', x) = Held(f, x) + (IF x = k THEN n ELSE 0)
      BY <1>4, <1>5, ClaimedHeld
    <3>3. Held(f, x) + Kept(build, x) = Held(claims, x) + Kept(build', x)
      OBVIOUS
    <3>4. /\ Held(f, x) \in Nat /\ Held(claims, x) \in Nat
          /\ Kept(build, x) \in Nat /\ Kept(build', x) \in Nat
      BY HeldType DEF Exact, Typed, Kept
    <3> QED
      BY <1>5, <3>1, <3>2, <3>3, <3>4
  <2> QED
    BY <2>1
<1>8. Claims(claims')
  BY <1>4, <1>5, ClaimedClaims
<1> HIDE DEF D
<1> QED
  BY <1>4, <1>6, <1>7, <1>8, Enter

LEMMA FoundTimely ==
  ASSUME Exact, Entitled, Counted, NEW k \in Key, Found(k)
  PROVE  Entitled' /\ Counted'
<1> DEFINE b == Handoff!Released(Leased(k), MaxBytes)
<1>1. /\ build[k] = "work" /\ Deliver(k, b, claims) /\ UNCHANGED want /\ Claims(claims)
      /\ build \in [Key -> BuildStages]
  BY DEF Found, Producing, Exact, Typed
<1>2. build' = [build EXCEPT ![k] = "none"]
  BY <1>1 DEF Deliver
<1>3. \A x \in Key : Kept(build', x) = Kept(build, x)
  BY <1>1, <1>2 DEF Kept
<1>4. \A x \in Key : Held(claims, x) + Kept(build, x) = Held(claims, x) + Kept(build', x)
  BY <1>3
<1> HIDE DEF b
<1> QED
  BY <1>1, <1>4, DeliverTimely

(* The claim of a build is still there when the build is completed.         *)
LEMMA CompleteTimely ==
  ASSUME Exact, Entitled, Counted, NEW k \in Key, Complete(k)
  PROVE  Entitled' /\ Counted'
<1> DEFINE f == [claims EXCEPT ![k] = @ - 1]
<1>1. build[k] = "retained" /\ UNCHANGED want /\ Claims(claims) /\ build \in [Key -> BuildStages]
  BY DEF Complete, Exact, Typed
<1>2. k \in Pinned /\ claims[k] > 0 /\ claims[k] \in Nat
  <2>1. Held(claims, k) = Cardinality(Takers(pc, want, k)) + 1
    BY <1>1 DEF Counted, Kept
  <2>2. Cardinality(Takers(pc, want, k)) \in Nat
    BY TakersFinite
  <2>3. Held(claims, k) > 0 /\ Held(claims, k) \in Nat
    BY <2>1, <2>2
  <2> QED
    BY <2>3 DEF Held, Pinned
<1>3. Deliver(k, handoff, f)
  BY <1>1, <1>2 DEF Complete
<1>4. build' = [build EXCEPT ![k] = "none"]
  BY <1>3 DEF Deliver
<1>5. Claims(f) /\ \A x \in Key : Held(f, x) = IF x = k THEN Held(claims, x) - 1 ELSE Held(claims, x)
  BY <1>1, <1>2 DEF Claims, Held, Pinned
<1>6. ASSUME NEW x \in Key
      PROVE  Held(f, x) + Kept(build, x) = Held(claims, x) + Kept(build', x)
  <2>1. Kept(build, x) = (IF x = k THEN 1 ELSE Kept(build', x)) /\ (x = k => Kept(build', x) = 0)
    BY <1>1, <1>4 DEF Kept
  <2>2. Held(claims, x) \in Nat /\ Kept(build', x) \in Nat
    BY <1>1, HeldType DEF Kept
  <2>3. Held(f, x) = IF x = k THEN Held(claims, x) - 1 ELSE Held(claims, x)
    BY <1>5
  <2> HIDE DEF f
  <2> QED
    BY <2>1, <2>2, <2>3
<1> HIDE DEF f
<1> QED
  BY <1>1, <1>3, <1>5, <1>6, DeliverTimely

LEMMA FailTimely ==
  ASSUME Exact, Entitled, Counted, NEW k \in Key, Fail(k)
  PROVE  Entitled' /\ Counted'
<1> DEFINE f == IF build[k] = "retained" THEN Consumed(claims, Once(k)) ELSE claims
           b == IF build[k] = "work" THEN Handoff!Released(handoff, MaxBytes) ELSE handoff
<1>1. /\ BuildsFail({k}, b, f) /\ UNCHANGED <<want, promise>> /\ Claims(claims)
      /\ build \in [Key -> BuildStages]
  BY DEF Fail, Exact, Typed
<1>2. \A x \in Key : build'[x] = IF x = k THEN "none" ELSE build[x]
  BY <1>1 DEF BuildsFail
<1>3. Claims(f)
  BY <1>1, OnceType, ConsumedClaims
<1>4. ASSUME NEW x \in Key
      PROVE  Held(f, x) + Kept(build, x) = Held(claims, x) + Kept(build', x)
  <2>1. Held(claims, x) \in Nat /\ Kept(build', x) \in Nat
    BY <1>1, HeldType DEF Kept
  <2>2. CASE build[k] = "retained"
    <3>1. Once(k)[x] = IF x = k THEN 1 ELSE 0
      BY DEF Once
    <3>2. x = k => Held(claims, x) >= 1
      <4>1. Held(claims, k) = Cardinality(Takers(pc, want, k)) + 1
        BY <2>2 DEF Counted, Kept
      <4>2. Cardinality(Takers(pc, want, k)) \in Nat
        BY TakersFinite
      <4> QED
        BY <4>1, <4>2
    <3>3. Once(k)[x] <= Held(claims, x)
      BY <2>1, <3>1, <3>2
    <3>4. Held(Consumed(claims, Once(k)), x) = Held(claims, x) - Once(k)[x]
      BY <1>1, <3>3, OnceType, ConsumedHeld
    <3>5. Held(f, x) = Held(claims, x) - Once(k)[x]
      BY <2>2, <3>4
    <3>6. Kept(build, x) = (IF x = k THEN 1 ELSE Kept(build', x)) /\ (x = k => Kept(build', x) = 0)
      BY <1>2, <2>2 DEF Kept
    <3> HIDE DEF f
    <3> QED
      BY <2>1, <3>1, <3>5, <3>6
  <2>3. CASE build[k] # "retained"
    <3>1. Kept(build, x) = Kept(build', x)
      BY <1>2, <2>3 DEF Kept
    <3> QED
      BY <2>3, <3>1
  <2> QED
    BY <2>2, <2>3
<1> HIDE DEF f, b
<1> QED
  BY <1>1, <1>3, <1>4, BuildsFailTimely

LEMMA CloseTimely ==
  ASSUME Exact, Entitled, Counted, Close
  PROVE  Entitled' /\ Counted'
<1> DEFINE failed == Handoff!Aborting(handoff).refused
           waited == Work!Aborting(work).refused
           lost == failed \cup (waited \cap Key)
           rs == Joiners(lost) \cup (waited \cap Reader)
           b == [Handoff!Aborted(handoff) EXCEPT !.used = @ - MaxBytes * Cardinality(waited \cap Key)]
           due == Charge(build, pc, want)
<1>1. /\ build' = [k \in Key |-> IF k \in lost THEN "none" ELSE build[k]]
      /\ Stop(rs, b, claims) /\ UNCHANGED <<promise, want>>
  BY DEF Close
<1>2. waited \subseteq Work!Waiters(work)
  <2> DEFINE due2 == [c \in User |-> IF c \in waited THEN 0 ELSE due[c]]
  <2>1. Works(work, due) /\ due \in [User -> Nat]
    BY WorksType DEF Exact, PoolExact, Typed
  <2>2. due2 \in [User -> Nat]
    <3> HIDE DEF due, waited
    <3> QED
      BY <2>1
  <2>3. \A c \in User : due2[c] = IF c \in Work!Aborting(work).refused THEN 0 ELSE due[c]
    OBVIOUS
  <2> HIDE DEF due, due2
  <2> QED
    BY <2>1, <2>2, <2>3, WorksAborted
<1>3. failed \subseteq Handoff!Waiters(handoff)
  BY HoldsAborted DEF Exact, StoreExact
<1> HIDE DEF failed, waited, b
<1>4. \A k \in lost : k \in Key => build[k] \in {"handoff", "work"}
  BY <1>2, <1>3, PoolWaiters DEF Exact, StoreExact
<1>5. \A k \in Key : Kept(build', k) = Kept(build, k)
  <2> HIDE DEF lost
  <2> QED
    BY <1>1, <1>4 DEF Kept
<1>6. \A k \in Key : Held(claims, k) + Kept(build, k) = Held(claims, k) + Kept(build', k)
  BY <1>5
<1>7. rs \subseteq Reader
  BY DEF Joiners, Joined
<1>8. Claims(claims)
  BY DEF Exact, Typed
<1> HIDE DEF rs
<1> QED
  BY <1>1, <1>6, <1>7, <1>8, StopsTimely

LEMMA EvictTimely ==
  ASSUME Exact, Entitled, Counted, NEW k \in Key, Evict(k)
  PROVE  Entitled' /\ Counted'
<1>1. UNCHANGED <<claims, promise, leases, build, pc, want>>
  BY DEF Evict, pins, requests
<1>2. Claims(claims')
  BY <1>1 DEF Exact, Typed
<1>3. \A x \in Key : Held(claims', x) + Kept(build, x) = Held(claims, x) + Kept(build', x)
  BY <1>1
<1> QED
  BY <1>1, <1>2, <1>3, SameRequests

(* What passes a deadline or closes the store stays late, and closed.       *)
LEMMA LateStays ==
  ASSUME Exact, Next, late' = 0, service' # "closed"
  PROVE  /\ late = 0 /\ service # "closed"
         /\ \A k \in Key : ~Expire(k)
         /\ \A w \in Key \cup Reader : ~Deadline(w)
         /\ ~Closed
<1>1. late \in 0..MaxLate
  BY DEF Exact, Typed
<1>2. ~(late' = late + 1)
  BY <1>1, RepositoryAssumption
<1>3. /\ \A k \in Key : ~Expire(k)
      /\ \A w \in Key \cup Reader : ~Deadline(w)
  BY <1>2 DEF Expire, Deadline
<1>4. ~Closed
  BY DEF Closed
<1>5. ASSUME NEW k \in Key, BuildStep(k) \/ Evict(k) PROVE late = 0 /\ service # "closed"
  BY <1>5 DEF BuildStep, AskWork, Found, Retain, Complete, Fail, Evict
<1>6. ASSUME NEW r \in Reader, Resolve(r) \/ Read(r) \/ Acquire(r) \/ Open(r)
      PROVE  late = 0 /\ service # "closed"
  BY <1>6 DEF Resolve, Read, Acquire, Open
<1>7. ASSUME NEW v \in Viewer, Promise(v) \/ Cancel(v) \/ Return(v) \/ Finish(v)
      PROVE  late = 0 /\ service # "closed"
  BY <1>7 DEF Promise, Cancel, Return, Finish
<1>8. ASSUME NEW p \in Publisher, Verify(p) \/ Published(p) \/ Discard(p)
      PROVE  late = 0 /\ service # "closed"
  BY <1>8 DEF Verify, Published, Discard
<1>9. ASSUME Close PROVE late = 0 /\ service # "closed"
  <2>1. service = "open" /\ UNCHANGED late
    BY <1>9, Zenon DEF Close
  <2> QED
    BY <2>1
<1>10. ASSUME Rest PROVE late = 0 /\ service # "closed"
  BY <1>10 DEF Rest, vars
<1> QED
  BY <1>3, <1>4, <1>5, <1>6, <1>7, <1>8, <1>9, <1>10
     DEF Next, ViewerStep, PublisherStep, Reader

LEMMA StepTimely ==
  ASSUME MaxReads = 1, Exact, Timely, [Next]_vars
  PROVE  Timely'
<1> SUFFICES ASSUME late' = 0, service' # "closed"
             PROVE  Entitled' /\ Counted'
  BY DEF Timely
<1>1. CASE UNCHANGED vars
  BY <1>1 DEF vars, budgets, pins, requests, Timely, Entitled, Counted, Held, Kept,
              Takers, LeaseOf
<1> SUFFICES ASSUME Next PROVE Entitled' /\ Counted'
  BY <1>1
<1>2. /\ Entitled /\ Counted
      /\ \A k \in Key : ~Expire(k)
      /\ \A w \in Key \cup Reader : ~Deadline(w)
      /\ ~Closed
  BY LateStays DEF Timely
<1>3. ASSUME NEW k \in Key, BuildStep(k) \/ Evict(k) PROVE Entitled' /\ Counted'
  BY <1>2, <1>3, AskWorkTimely, FoundTimely, RetainTimely, CompleteTimely, FailTimely,
     EvictTimely DEF BuildStep
<1>4. ASSUME NEW r \in Reader, Resolve(r) \/ Read(r) \/ Acquire(r) \/ Open(r)
      PROVE  Entitled' /\ Counted'
  BY <1>2, <1>4, ResolveTimely, ReadTimely, AcquireTimely, OpenTimely
<1>5. ASSUME NEW v \in Viewer, Promise(v) \/ Cancel(v) \/ Return(v) \/ Finish(v)
      PROVE  Entitled' /\ Counted'
  BY <1>2, <1>5, PromiseTimely, CancelTimely, ReturnTimely, FinishTimely
<1>6. ASSUME NEW p \in Publisher, Verify(p) \/ Published(p) \/ Discard(p)
      PROVE  Entitled' /\ Counted'
  BY <1>2, <1>6, VerifyTimely, PublishedTimely, DiscardTimely
<1>7. CASE Rest
  BY <1>1, <1>7 DEF Rest
<1> QED
  BY <1>2, <1>3, <1>4, <1>5, <1>6, <1>7, CloseTimely
     DEF Next, ViewerStep, PublisherStep, Reader

LEMMA InitTimely == Init => Timely
<1> SUFFICES ASSUME Init PROVE Entitled /\ Counted
  BY DEF Timely
<1>1. /\ \A r \in Reader : pc[r] = "idle"
      /\ claims = [k \in {} |-> 0] /\ promise = {} /\ leases = {}
      /\ build = [k \in Key |-> "none"]
  BY DEF Init
<1>2. Entitled
  BY <1>1 DEF Entitled, Served, Reader
<1>3. ASSUME NEW k \in Key
      PROVE  Held(claims, k) = Cardinality(Takers(pc, want, k)) + Kept(build, k)
  <2>1. Takers(pc, want, k) = {}
    BY <1>1 DEF Takers, Served
  <2>2. Cardinality(Takers(pc, want, k)) = 0
    BY <2>1, FS_EmptySet, Zenon
  <2>3. Held(claims, k) = 0 /\ Kept(build, k) = 0
    BY <1>1 DEF Held, Kept
  <2> QED
    BY <2>2, <2>3
<1> QED
  BY <1>2, <1>3 DEF Counted

(* Those served are the viewers with a promise and the publishers with a    *)
(* lease.                                                                   *)
LEMMA TimelyClaims ==
  ASSUME Exact, Timely
  PROVE  ClaimsCoverPromises
<1> SUFFICES ASSUME late = 0, service # "closed", NEW k \in Key
             PROVE  (IF k \in Pinned THEN claims[k] ELSE 0)
                      = Cardinality({v \in promise : want[v] = k})
                        + Cardinality({l \in leases : l.key = k})
                        + (IF build[k] = "retained" THEN 1 ELSE 0)
  BY DEF ClaimsCoverPromises
<1> DEFINE S == Takers(pc, want, k)
           V == {v \in promise : want[v] = k}
           P == About(Leavers(Publisher), want, k)
           L == {l \in leases : l.key = k}
<1>1. Entitled /\ Counted
  BY DEF Timely
<1>2. Held(claims, k) = Cardinality(S) + Kept(build, k)
  BY <1>1 DEF Counted
<1>3. Cardinality(L) = Cardinality(P)
  <2>1. LeasesOf(Publisher) = leases
    BY <1>1 DEF LeasesOf, LeaseOf, Entitled
  <2>2. Cardinality({l \in LeasesOf(Publisher) : l.key = k}) = Cardinality(P)
    BY <1>1, LeasesAre
  <2> QED
    BY <2>1, <2>2
<1>4. S = V \cup P /\ V \cap P = {}
  BY <1>1, RepositoryAssumption DEF Takers, Entitled, About, Leavers, Reader
<1>5. IsFiniteSet(V) /\ IsFiniteSet(P)
  BY <1>1, Numbers, FS_Subset DEF Entitled, About, Leavers, Reader
<1> HIDE DEF S, V, P, L
<1>6. Cardinality(V \cup P) = Cardinality(V) + Cardinality(P) - Cardinality(V \cap P)
  BY <1>5, FS_Union
<1>7. Cardinality(V \cap P) = 0
  BY <1>4, FS_EmptySet, Zenon
<1>8. Cardinality(V) \in Nat /\ Cardinality(P) \in Nat
  BY <1>5, FS_CardinalityType
<1>9. Cardinality(V \cup P) = Cardinality(V) + Cardinality(P)
  BY <1>6, <1>7, <1>8
<1>10. Cardinality(S) = Cardinality(V) + Cardinality(P)
  BY <1>4, <1>9, Zenon
<1>11. Held(claims, k) = Cardinality(V) + Cardinality(L) + Kept(build, k)
  BY <1>2, <1>3, <1>10
<1> QED
  BY <1>11 DEF Held, Kept, Pinned, V, L

(* "Client transfers and publisher reads consume their own reservations":   *)
(* with viewers that read once under a reference, and as long as nothing is *)
(* late, a pin has exactly the claims of the promises not used, the leases  *)
(* and the build that has just made it.                                     *)
THEOREM ClaimsCover ==
  ASSUME MaxReads = 1
  PROVE  Spec => []ClaimsCoverPromises
<1> DEFINE Inv == Exact /\ Timely
<1>1. Init => Inv
  BY InitExact, InitTimely
<1>2. Inv /\ [Next]_vars => Inv'
  BY NextKeeps, StepTimely
<1>3. Inv => ClaimsCoverPromises
  BY TimelyClaims
<1> QED
  BY <1>1, <1>2, <1>3, PTL DEF Spec
=============================================================================
