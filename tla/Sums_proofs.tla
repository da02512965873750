----------------------------- MODULE Sums_proofs -----------------------------
(***************************************************************************)
(* Least elements, and sums over finite sets.                               *)
(*                                                                          *)
(* Induction is done by a minimal counterexample: the subsets of a finite   *)
(* set that fail would have a smallest one.  That is first-order, so that   *)
(* what the folds of the community modules compute can be proved of them.   *)
(***************************************************************************)
EXTENDS Integers, FiniteSetsExt, FiniteSetTheorems, TLAPS

LEMMA SmallestSubset ==
  ASSUME NEW S, IsFiniteSet(S), NEW F, F \subseteq SUBSET S, F # {}
  PROVE  \E U \in F : \A V \in F : V \subseteq U => V = U
<1>1. IsWellFoundedOn(StrictSubsetOrdering(S), FiniteSubsetsOf(S))
  BY FS_StrictSubsetOrderingWellFounded
<1>2. F \subseteq FiniteSubsetsOf(S)
  BY FS_FiniteSubsetsOfFinite
<1>3. PICK U \in F : \A V \in F : ~(<<V, U>> \in StrictSubsetOrdering(S))
  BY <1>1, <1>2, WFMin
<1>4. ASSUME NEW V \in F, V \subseteq U PROVE V = U
  BY <1>3, <1>4 DEF StrictSubsetOrdering
<1> QED
  BY <1>4

UpTo(T, t) == {u \in T : u <= t}

LEMMA UpToSmaller ==
  ASSUME NEW T, T \subseteq Nat, NEW t \in T, NEW n \in T, t <= n
  PROVE  /\ UpTo(T, t) \subseteq UpTo(T, n)
         /\ t \in UpTo(T, t) /\ t \in UpTo(T, n)
         /\ n \in UpTo(T, t) => t = n
<1>1. t \in Nat /\ n \in Nat
  OBVIOUS
<1>2. \A u \in T : u \in Nat
  OBVIOUS
<1>3. \A u \in T : u <= t => u <= n
  BY <1>1, <1>2
<1>4. UpTo(T, t) \subseteq UpTo(T, n)
  BY <1>3 DEF UpTo
<1>5. t \in UpTo(T, t)
  BY <1>1 DEF UpTo
<1>6. n \in UpTo(T, t) => t = n
  BY <1>1 DEF UpTo
<1> QED
  BY <1>4, <1>5, <1>6

LEMMA Least ==
  ASSUME NEW T, T \subseteq Nat, T # {}
  PROVE  \E x \in T : \A y \in T : x <= y
<1>0. PICK n \in T : n \in Nat
  OBVIOUS
<1> DEFINE family == {UpTo(T, t) : t \in UpTo(T, n)}
<1>1. IsFiniteSet(UpTo(T, n))
  <2>1. UpTo(T, n) \in SUBSET Nat /\ \A u \in UpTo(T, n) : u <= n
    BY DEF UpTo
  <2> QED
    BY <1>0, <2>1, FS_BoundedSetOfNaturals
<1>2. UpTo(T, n) \subseteq T /\ n \in UpTo(T, n)
        /\ \A t \in UpTo(T, n) : t \in Nat /\ t <= n
  BY <1>0 DEF UpTo
<1>3. family \subseteq SUBSET UpTo(T, n) /\ family # {}
  <2>1. \A t \in UpTo(T, n) : UpTo(T, t) \subseteq UpTo(T, n)
    BY <1>2, UpToSmaller
  <2> QED
    BY <1>2, <2>1
<1>4. PICK U \in family : \A V \in family : V \subseteq U => V = U
  <2> HIDE DEF family
  <2> QED
    BY <1>1, <1>3, SmallestSubset
<1>5. PICK x \in UpTo(T, n) : U = UpTo(T, x)
  OBVIOUS
<1>6. ASSUME NEW y \in T, ~(x <= y) PROVE FALSE
  <2>1. x \in Nat /\ y \in Nat /\ x \in T /\ y <= x /\ x # y /\ y <= n
    BY <1>0, <1>2, <1>6
  <2>2. y \in UpTo(T, n)
    BY <2>1 DEF UpTo
  <2> HIDE DEF family
  <2>3. UpTo(T, y) \subseteq UpTo(T, x) /\ x \in UpTo(T, x) /\ x \notin UpTo(T, y)
    <3>1. x <= x /\ ~(x <= y)
      BY <2>1
    <3>2. x \in UpTo(T, x) /\ x \notin UpTo(T, y)
      BY <2>1, <3>1 DEF UpTo
    <3>3. UpTo(T, y) \subseteq UpTo(T, x)
      BY <2>1, UpToSmaller
    <3> QED
      BY <3>2, <3>3
  <2> USE DEF family
  <2> QED
    BY <1>4, <1>5, <2>2, <2>3
<1> QED
  BY <1>2, <1>6

(* What lies below a bound has a greatest element.                          *)
LEMMA Greatest ==
  ASSUME NEW n \in Nat, NEW T, T \subseteq 0..n, T # {}
  PROVE  \E x \in T : \A y \in T : y <= x
<1> DEFINE D == {d \in 0..n : n - d \in T}
<1>1. D \subseteq Nat /\ D # {}
  <2>1. PICK t \in T : t \in 0..n
    OBVIOUS
  <2>2. n - t \in 0..n /\ n - (n - t) = t
    BY <2>1
  <2> QED
    BY <2>2
<1>2. PICK d \in D : \A e \in D : d <= e
  <2> HIDE DEF D
  <2> QED
    BY <1>1, Least
<1>3. ASSUME NEW y \in T PROVE y <= n - d
  <2>1. n - y \in 0..n /\ n - (n - y) = y /\ y \in Nat
    BY <1>3
  <2>2. d <= n - y /\ d \in Nat
    BY <1>2, <2>1
  <2> QED
    BY <2>1, <2>2
<1> QED
  BY <1>3

(* Induction up to n, on the set of the numbers for which a claim holds.    *)
LEMMA Upward ==
  ASSUME NEW n \in Nat, NEW T, 0 \in T, \A i \in 1..n : i - 1 \in T => i \in T
  PROVE  0..n \subseteq T
<1> DEFINE D == 0..n \ T
<1> SUFFICES ASSUME D # {} PROVE FALSE
  OBVIOUS
<1>1. PICK i \in D : \A j \in D : i <= j
  <2>1. D \subseteq Nat
    OBVIOUS
  <2> HIDE DEF D
  <2> QED
    BY <2>1, Least
<1>2. i \in 1..n /\ i - 1 \in 0..n /\ ~(i <= i - 1)
  OBVIOUS
<1>3. i - 1 \in T
  BY <1>1, <1>2
<1> QED
  BY <1>2, <1>3

(* A step can be taken n times.                                             *)
Iterates(f, n, S, base, step) ==
  /\ f \in [0..n -> S]
  /\ f[0] = base
  /\ \A i \in 1..n : f[i] = step[i][f[i - 1]]

LEMMA Iteration ==
  ASSUME NEW n \in Nat, NEW S, NEW base \in S, NEW step \in [1..n -> [S -> S]]
  PROVE  \E f : Iterates(f, n, S, base, step)
<1> DEFINE T == {m \in 0..n : \E f : Iterates(f, m, S, base, step)}
<1>1. 0 \in T
  <2>1. Iterates([i \in 0..0 |-> base], 0, S, base, step)
    BY DEF Iterates
  <2> QED
    BY <2>1
<1>2. ASSUME NEW m \in 1..n, m - 1 \in T PROVE m \in T
  <2>1. PICK f : Iterates(f, m - 1, S, base, step)
    BY <1>2
  <2> DEFINE g == [i \in 0..m |-> IF i = m THEN step[m][f[m - 1]] ELSE f[i]]
  <2>2. \A i \in 0..m : i # m => i \in 0..(m - 1)
    OBVIOUS
  <2>3. g \in [0..m -> S]
    <3>1. f[m - 1] \in S /\ step[m] \in [S -> S]
      BY <2>1 DEF Iterates
    <3> QED
      BY <2>1, <2>2, <3>1 DEF Iterates
  <2>4. g[0] = base
    BY <2>1 DEF Iterates
  <2>5. ASSUME NEW i \in 1..m PROVE g[i] = step[i][g[i - 1]]
    <3>1. i - 1 \in 0..m /\ i - 1 # m /\ i \in 0..m
      OBVIOUS
    <3>2. g[i - 1] = f[i - 1]
      BY <3>1
    <3>3. CASE i = m
      BY <3>1, <3>2, <3>3
    <3>4. CASE i # m
      <4>1. i \in 1..(m - 1) /\ g[i] = f[i]
        BY <3>1, <3>4
      <4> QED
        BY <2>1, <3>2, <4>1 DEF Iterates
    <3> QED
      BY <3>3, <3>4
  <2>6. Iterates(g, m, S, base, step)
    <3> HIDE DEF g
    <3> QED
      BY <2>3, <2>4, <2>5 DEF Iterates
  <2> QED
    BY <2>6
<1>3. 0..n \subseteq T
  <2> HIDE DEF T
  <2> QED
    BY <1>1, <1>2, Upward
<1> QED
  BY <1>3

-----------------------------------------------------------------------------
(* Sums.                                                                    *)

Total(f, S) == MapThenSumSet(LAMBDA x : f[x], S)

Chosen(s) == CHOOSE x \in s : TRUE
Others(s) == s \ {Chosen(s)}

(* h gives the sums of f over the subsets of S.                             *)
Summing(h, f, S) ==
  h = [s \in SUBSET S |-> IF s = {} THEN 0 ELSE f[Chosen(s)] + h[Others(s)]]

LEMMA TotalIsSumming ==
  ASSUME NEW f, NEW S
  PROVE  Total(f, S) = (CHOOSE h : Summing(h, f, S))[S]
BY DEF Total, Summing, Chosen, Others, MapThenSumSet, MapThenFoldSet

LEMMA Fewer ==
  ASSUME NEW s, s # {}
  PROVE  Chosen(s) \in s /\ Others(s) \subseteq s /\ Others(s) # s
BY DEF Chosen, Others

LEMMA SummingStep ==
  ASSUME NEW h, NEW f, NEW S, Summing(h, f, S)
  PROVE  /\ h[{}] = 0
         /\ \A s \in SUBSET S : s # {} => h[s] = f[Chosen(s)] + h[Others(s)]
<1>1. \A s \in SUBSET S :
        h[s] = IF s = {} THEN 0 ELSE f[Chosen(s)] + h[Others(s)]
  BY DEF Summing
<1> QED
  BY <1>1

LEMMA SummingUnique ==
  ASSUME NEW f, NEW S, IsFiniteSet(S), NEW T \in SUBSET S, NEW g, NEW h,
         Summing(g, f, S), Summing(h, f, T)
  PROVE  \A s \in SUBSET T : g[s] = h[s]
<1> DEFINE F == {s \in SUBSET T : g[s] # h[s]}
<1> SUFFICES ASSUME F # {} PROVE FALSE
  OBVIOUS
<1>1. PICK U \in F : \A V \in F : V \subseteq U => V = U
  <2>1. IsFiniteSet(T)
    BY FS_Subset
  <2>2. F \subseteq SUBSET T
    OBVIOUS
  <2> HIDE DEF F
  <2> QED
    BY <2>1, <2>2, SmallestSubset
<1>2. U # {}
  BY SummingStep
<1>3. Others(U) \in SUBSET T /\ Others(U) \notin F
  BY <1>1, <1>2, Fewer
<1> QED
  BY <1>2, <1>3, SummingStep

LEMMA SummingExists ==
  ASSUME NEW f, NEW S, IsFiniteSet(S)
  PROVE  \E h : Summing(h, f, S)
<1> DEFINE F == {s \in SUBSET S : ~ \E h : Summing(h, f, s)}
<1> SUFFICES ASSUME F # {} PROVE FALSE
  OBVIOUS
<1>1. PICK U \in F : \A V \in F : V \subseteq U => V = U
  <2>1. F \subseteq SUBSET S
    OBVIOUS
  <2> HIDE DEF F
  <2> QED
    BY <2>1, SmallestSubset
<1> DEFINE H(u) == CHOOSE h : Summing(h, f, u)
           sum == [s \in SUBSET U |->
                     IF s = {} THEN 0
                     ELSE f[Chosen(s)] + H(Others(s))[Others(s)]]
<1>2. ASSUME NEW u \in SUBSET U, u # U PROVE Summing(H(u), f, u)
  BY <1>1, <1>2
<1> HIDE DEF H
<1>3. ASSUME NEW u \in SUBSET U, u # U PROVE sum[u] = H(u)[u]
  <2>1. CASE u = {}
    BY <1>2, <1>3, <2>1, SummingStep
  <2>2. CASE u # {}
    <3>1. Others(u) \in SUBSET u /\ Others(u) \in SUBSET U /\ Others(u) # U
      BY <1>3, <2>2, Fewer
    <3>2. IsFiniteSet(u)
      BY FS_Subset
    <3>3. Summing(H(u), f, u) /\ Summing(H(Others(u)), f, Others(u))
      BY <1>2, <1>3, <3>1
    <3>4. H(u)[Others(u)] = H(Others(u))[Others(u)]
      BY <3>1, <3>2, <3>3, SummingUnique
    <3>5. H(u)[u] = f[Chosen(u)] + H(u)[Others(u)]
      BY <2>2, <3>3, SummingStep
    <3> QED
      BY <2>2, <3>4, <3>5
  <2> QED
    BY <2>1, <2>2
<1>4. \A s \in SUBSET U : s # {} => sum[Others(s)] = H(Others(s))[Others(s)]
  <2> SUFFICES ASSUME NEW s \in SUBSET U, s # {}
               PROVE  sum[Others(s)] = H(Others(s))[Others(s)]
    OBVIOUS
  <2>1. Others(s) \in SUBSET U /\ Others(s) # U
    BY Fewer
  <2> HIDE DEF sum
  <2> QED
    BY <1>3, <2>1
<1>5. Summing(sum, f, U)
  BY <1>4, Zenon DEF Summing
<1> QED
  BY <1>5

LEMMA TotalSums ==
  ASSUME NEW f, NEW S, IsFiniteSet(S), NEW T \in SUBSET S, NEW h,
         Summing(h, f, S)
  PROVE  Total(f, T) = h[T]
<1> DEFINE g == CHOOSE g : Summing(g, f, T)
<1>1. IsFiniteSet(T)
  BY FS_Subset
<1>2. Summing(g, f, T)
  BY <1>1, SummingExists
<1>3. Total(f, T) = g[T]
  BY TotalIsSumming
<1> HIDE DEF g
<1> QED
  BY <1>2, <1>3, SummingUnique

LEMMA TotalEmpty == ASSUME NEW f PROVE Total(f, {}) = 0
<1>1. PICK h : Summing(h, f, {})
  BY SummingExists, FS_EmptySet
<1> QED
  BY <1>1, TotalSums, SummingStep, FS_EmptySet

LEMMA TotalChosen ==
  ASSUME NEW f, NEW S, IsFiniteSet(S), S # {}
  PROVE  Total(f, S) = f[Chosen(S)] + Total(f, Others(S))
<1>1. PICK h : Summing(h, f, S)
  BY SummingExists
<1>2. Others(S) \in SUBSET S
  BY Fewer
<1>3. Total(f, S) = h[S] /\ Total(f, Others(S)) = h[Others(S)]
  BY <1>1, <1>2, TotalSums
<1> QED
  BY <1>1, <1>3, SummingStep
(* A sum of natural numbers.                                                *)
LEMMA TotalNat ==
  ASSUME NEW f, NEW S, IsFiniteSet(S), \A x \in S : f[x] \in Nat
  PROVE  Total(f, S) \in Nat
<1> DEFINE F == {s \in SUBSET S : Total(f, s) \notin Nat}
<1> SUFFICES ASSUME F # {} PROVE FALSE
  OBVIOUS
<1>1. PICK U \in F : \A V \in F : V \subseteq U => V = U
  <2>1. F \subseteq SUBSET S
    OBVIOUS
  <2> HIDE DEF F
  <2> QED
    BY <2>1, SmallestSubset
<1>2. U \in SUBSET S /\ IsFiniteSet(U)
  BY FS_Subset
<1>3. U # {}
  BY TotalEmpty
<1>4. Total(f, U) = f[Chosen(U)] + Total(f, Others(U))
  BY <1>2, <1>3, TotalChosen
<1>5. Chosen(U) \in S /\ Others(U) \in SUBSET S /\ Others(U) \notin F
  BY <1>1, <1>2, <1>3, Fewer
<1>6. f[Chosen(U)] \in Nat /\ Total(f, Others(U)) \in Nat
  BY <1>5
<1> QED
  BY <1>4, <1>6

(* Whichever element is taken away first, the sum is the same.              *)
LEMMA TotalRemove ==
  ASSUME NEW f, NEW S, IsFiniteSet(S), \A x \in S : f[x] \in Nat, NEW x \in S
  PROVE  Total(f, S) = f[x] + Total(f, S \ {x})
<1> DEFINE F == {s \in SUBSET S :
                   \E y \in s : Total(f, s) # f[y] + Total(f, s \ {y})}
<1> SUFFICES ASSUME F # {} PROVE FALSE
  OBVIOUS
<1>1. PICK U \in F : \A V \in F : V \subseteq U => V = U
  <2>1. F \subseteq SUBSET S
    OBVIOUS
  <2> HIDE DEF F
  <2> QED
    BY <2>1, SmallestSubset
<1>2. PICK y \in U : Total(f, U) # f[y] + Total(f, U \ {y})
  OBVIOUS
<1>3. U \in SUBSET S /\ IsFiniteSet(U) /\ U # {}
  BY FS_Subset
<1>4. Total(f, U) = f[Chosen(U)] + Total(f, Others(U))
  BY <1>3, TotalChosen
<1>5. y # Chosen(U) /\ Chosen(U) \in U
  BY <1>2, <1>3, <1>4, Fewer DEF Others
<1>6. Total(f, Others(U)) = f[y] + Total(f, Others(U) \ {y})
  <2>1. Others(U) \in SUBSET S /\ Others(U) \notin F /\ y \in Others(U)
    BY <1>1, <1>3, <1>5, Fewer DEF Others
  <2> QED
    BY <2>1
<1>7. Total(f, U \ {y}) = f[Chosen(U)] + Total(f, (U \ {y}) \ {Chosen(U)})
  <2>1. U \ {y} \in SUBSET S /\ U \ {y} \notin F /\ Chosen(U) \in U \ {y}
    BY <1>1, <1>3, <1>5
  <2> QED
    BY <2>1
<1>8. (U \ {y}) \ {Chosen(U)} = Others(U) \ {y}
  BY DEF Others
<1>9. f[y] \in Nat /\ f[Chosen(U)] \in Nat /\ Total(f, Others(U) \ {y}) \in Nat
  <2>1. IsFiniteSet(Others(U) \ {y}) /\ Others(U) \ {y} \subseteq S
    BY <1>3, FS_Subset DEF Others
  <2> QED
    BY <1>3, <1>5, <2>1, TotalNat
<1>10. Total(f, U \ {y}) = f[Chosen(U)] + Total(f, Others(U) \ {y})
  BY <1>7, <1>8, Zenon
<1> HIDE DEF F
<1> QED
  BY <1>2, <1>4, <1>6, <1>9, <1>10

LEMMA TotalAdd ==
  ASSUME NEW f, NEW S, IsFiniteSet(S), \A y \in S : f[y] \in Nat,
         NEW x, x \notin S, f[x] \in Nat
  PROVE  Total(f, S \cup {x}) = Total(f, S) + f[x]
<1>1. IsFiniteSet(S \cup {x}) /\ (S \cup {x}) \ {x} = S
  BY FS_AddElement
<1>2. Total(f, S \cup {x}) = f[x] + Total(f, (S \cup {x}) \ {x})
  <2>1. \A y \in S \cup {x} : f[y] \in Nat
    OBVIOUS
  <2> QED
    BY <1>1, <2>1, TotalRemove
<1>3. Total(f, S \cup {x}) = f[x] + Total(f, S)
  BY <1>1, <1>2, Zenon
<1>4. Total(f, S) \in Nat
  BY TotalNat
<1> QED
  BY <1>3, <1>4

LEMMA TotalSame ==
  ASSUME NEW f, NEW g, NEW S, IsFiniteSet(S), \A x \in S : f[x] = g[x]
  PROVE  Total(f, S) = Total(g, S)
<1> DEFINE F == {s \in SUBSET S : Total(f, s) # Total(g, s)}
<1> SUFFICES ASSUME F # {} PROVE FALSE
  OBVIOUS
<1>1. PICK U \in F : \A V \in F : V \subseteq U => V = U
  <2>1. F \subseteq SUBSET S
    OBVIOUS
  <2> HIDE DEF F
  <2> QED
    BY <2>1, SmallestSubset
<1>2. U \in SUBSET S /\ IsFiniteSet(U)
  BY FS_Subset
<1>3. U # {}
  BY TotalEmpty
<1>4. /\ Total(f, U) = f[Chosen(U)] + Total(f, Others(U))
      /\ Total(g, U) = g[Chosen(U)] + Total(g, Others(U))
  BY <1>2, <1>3, TotalChosen
<1>5. Chosen(U) \in S /\ Others(U) \in SUBSET S /\ Others(U) \notin F
  BY <1>1, <1>2, <1>3, Fewer
<1> QED
  BY <1>4, <1>5

LEMMA TotalUnion ==
  ASSUME NEW f, NEW S, NEW T, IsFiniteSet(S), IsFiniteSet(T), S \cap T = {},
         \A x \in S \cup T : f[x] \in Nat
  PROVE  Total(f, S \cup T) = Total(f, S) + Total(f, T)
<1> DEFINE F == {u \in SUBSET T : Total(f, S \cup u) # Total(f, S) + Total(f, u)}
<1> SUFFICES ASSUME F # {} PROVE FALSE
  OBVIOUS
<1>1. PICK U \in F : \A V \in F : V \subseteq U => V = U
  <2>1. F \subseteq SUBSET T
    OBVIOUS
  <2> HIDE DEF F
  <2> QED
    BY <2>1, SmallestSubset
<1>2. U \in SUBSET T /\ IsFiniteSet(U) /\ IsFiniteSet(S \cup U)
  BY FS_Subset, FS_Union
<1>3. Total(f, S) \in Nat
  BY TotalNat
<1>4. U # {}
  <2>1. S \cup {} = S /\ Total(f, S) + 0 = Total(f, S)
    BY <1>3
  <2> QED
    BY <2>1, TotalEmpty
<1>5. PICK x : x = Chosen(U) /\ x \in U /\ x \notin S
  BY <1>2, <1>4, Fewer
<1>6. Total(f, U) = f[x] + Total(f, U \ {x})
  BY <1>2, <1>5, TotalRemove
<1>7. Total(f, S \cup U) = f[x] + Total(f, S \cup (U \ {x}))
  <2>1. (S \cup U) \ {x} = S \cup (U \ {x})
    BY <1>5
  <2>2. \A y \in S \cup U : f[y] \in Nat
    BY <1>2
  <2> QED
    BY <1>2, <1>5, <2>1, <2>2, TotalRemove
<1>8. Total(f, S \cup (U \ {x})) = Total(f, S) + Total(f, U \ {x})
  <2>1. U \ {x} \in SUBSET T /\ U \ {x} \notin F
    BY <1>1, <1>2, <1>5
  <2> QED
    BY <2>1
<1>9. f[x] \in Nat /\ Total(f, U \ {x}) \in Nat
  <2>1. IsFiniteSet(U \ {x})
    BY <1>2, FS_Subset
  <2> QED
    BY <1>2, <1>5, <2>1, TotalNat
<1> QED
  BY <1>3, <1>6, <1>7, <1>8, <1>9

LEMMA TotalSubset ==
  ASSUME NEW f, NEW S, IsFiniteSet(S), \A x \in S : f[x] \in Nat,
         NEW T \in SUBSET S
  PROVE  /\ Total(f, S \ T) = Total(f, S) - Total(f, T)
         /\ Total(f, T) <= Total(f, S)
<1>1. IsFiniteSet(T) /\ IsFiniteSet(S \ T) /\ (S \ T) \cup T = S
  BY FS_Subset
<1>2. Total(f, S) = Total(f, S \ T) + Total(f, T)
  <2>1. (S \ T) \cap T = {} /\ \A x \in (S \ T) \cup T : f[x] \in Nat
    OBVIOUS
  <2> QED
    BY <1>1, <2>1, TotalUnion
<1>3. Total(f, T) \in Nat /\ Total(f, S \ T) \in Nat
  BY <1>1, TotalNat
<1> QED
  BY <1>2, <1>3

LEMMA TotalConstant ==
  ASSUME NEW f, NEW S, IsFiniteSet(S), NEW c \in Nat, \A x \in S : f[x] = c
  PROVE  Total(f, S) = c * Cardinality(S)
<1> DEFINE F == {s \in SUBSET S : Total(f, s) # c * Cardinality(s)}
<1> SUFFICES ASSUME F # {} PROVE FALSE
  OBVIOUS
<1>1. PICK U \in F : \A V \in F : V \subseteq U => V = U
  <2>1. F \subseteq SUBSET S
    OBVIOUS
  <2> HIDE DEF F
  <2> QED
    BY <2>1, SmallestSubset
<1>2. U \in SUBSET S /\ IsFiniteSet(U)
  BY FS_Subset
<1>3. U # {}
  <2>1. c * 0 = 0
    OBVIOUS
  <2> QED
    BY <2>1, TotalEmpty, FS_EmptySet
<1>4. PICK x : x = Chosen(U) /\ x \in U
  BY <1>3, Fewer
<1>5. Total(f, U) = c + Total(f, U \ {x})
  BY <1>2, <1>4, TotalRemove
<1>6. Cardinality(U) = Cardinality(U \ {x}) + 1 /\ Cardinality(U \ {x}) \in Nat
  <2>1. IsFiniteSet(U \ {x}) /\ Cardinality(U \ {x}) = Cardinality(U) - 1
    BY <1>2, <1>4, FS_RemoveElement
  <2> QED
    BY <1>2, <2>1, FS_CardinalityType
<1>7. Total(f, U \ {x}) = c * Cardinality(U \ {x})
  <2>1. U \ {x} \in SUBSET S /\ U \ {x} \notin F
    BY <1>1, <1>2, <1>4
  <2> QED
    BY <2>1
<1>8. \A n \in Nat : c + c * n = c * (n + 1)
  OBVIOUS
<1> QED
  BY <1>5, <1>6, <1>7, <1>8

(* The sum of a function that is now zero on T.                             *)
LEMMA TotalZeroed ==
  ASSUME NEW f, NEW g, NEW S, IsFiniteSet(S), NEW T \in SUBSET S,
         \A x \in S : f[x] \in Nat,
         \A x \in S \ T : g[x] = f[x], \A x \in T : g[x] = 0
  PROVE  Total(g, S) = Total(f, S) - Total(f, T)
<1>1. IsFiniteSet(T) /\ IsFiniteSet(S \ T) /\ (S \ T) \cup T = S /\ (S \ T) \cap T = {}
  BY FS_Subset
<1>2. \A x \in (S \ T) \cup T : g[x] \in Nat
  OBVIOUS
<1>3. Total(g, (S \ T) \cup T) = Total(g, S \ T) + Total(g, T)
  BY <1>1, <1>2, TotalUnion
<1>4. Total(g, S) = Total(g, S \ T) + Total(g, T)
  BY <1>1, <1>3, Zenon
<1>5. Total(g, T) = 0
  <2>1. Total(g, T) = 0 * Cardinality(T) /\ Cardinality(T) \in Nat
    BY <1>1, TotalConstant, FS_CardinalityType
  <2> QED
    BY <2>1
<1>6. Total(g, S \ T) = Total(f, S \ T)
  BY <1>1, TotalSame
<1>7. Total(f, S \ T) = Total(f, S) - Total(f, T)
        /\ Total(f, S) \in Nat /\ Total(f, T) \in Nat
  <2>1. \A x \in T : f[x] \in Nat
    OBVIOUS
  <2> QED
    BY <1>1, <2>1, TotalSubset, TotalNat
<1> QED
  BY <1>4, <1>5, <1>6, <1>7

(* The sum of a function that has changed at x.                             *)
LEMMA TotalChange ==
  ASSUME NEW f, NEW g, NEW S, IsFiniteSet(S), NEW x \in S,
         \A y \in S : f[y] \in Nat /\ g[y] \in Nat,
         \A y \in S : y # x => f[y] = g[y]
  PROVE  Total(g, S) = Total(f, S) - f[x] + g[x]
<1>1. IsFiniteSet(S \ {x}) /\ \A y \in S \ {x} : f[y] = g[y] /\ f[y] \in Nat
  BY FS_Subset
<1>2. Total(f, S \ {x}) = Total(g, S \ {x}) /\ Total(f, S \ {x}) \in Nat
  BY <1>1, TotalSame, TotalNat
<1>3. Total(f, S) = f[x] + Total(f, S \ {x}) /\ Total(g, S) = g[x] + Total(g, S \ {x})
  BY TotalRemove
<1> QED
  BY <1>2, <1>3

LEMMA TotalWhere ==
  ASSUME NEW f, NEW S, IsFiniteSet(S), NEW T \in SUBSET S, NEW c \in Nat,
         \A x \in T : f[x] = c, \A x \in S \ T : f[x] = 0
  PROVE  Total(f, S) = c * Cardinality(T)
<1>1. IsFiniteSet(T) /\ IsFiniteSet(S \ T)
  BY FS_Subset
<1>2. Total(f, T) = c * Cardinality(T)
  BY <1>1, TotalConstant
<1>3. Total(f, S \ T) = 0 * Cardinality(S \ T)
  BY <1>1, TotalConstant
<1>4. T \cup (S \ T) = S /\ T \cap (S \ T) = {} /\ \A x \in T \cup (S \ T) : f[x] \in Nat
  OBVIOUS
<1>5. Total(f, T \cup (S \ T)) = Total(f, T) + Total(f, S \ T)
  <2> DEFINE U == S \ T
  <2>1. IsFiniteSet(U) /\ T \cap U = {} /\ \A x \in T \cup U : f[x] \in Nat
    BY <1>1, <1>4
  <2> HIDE DEF U
  <2>2. Total(f, T \cup U) = Total(f, T) + Total(f, U)
    BY <1>1, <2>1, TotalUnion
  <2> QED
    BY <2>2 DEF U
<1>6. Total(f, S) = Total(f, T) + Total(f, S \ T)
  BY <1>4, <1>5, Zenon
<1>7. Cardinality(T) \in Nat /\ Cardinality(S \ T) \in Nat
  BY <1>1, FS_CardinalityType
<1>8. Total(f, S \ T) = 0 /\ Total(f, T) \in Nat
  <2>1. \A x \in T : f[x] \in Nat
    OBVIOUS
  <2> QED
    BY <1>1, <1>3, <1>7, <2>1, TotalNat
<1> QED
  BY <1>2, <1>6, <1>8
=============================================================================
