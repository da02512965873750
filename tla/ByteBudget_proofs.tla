-------------------------- MODULE ByteBudget_proofs --------------------------
(***************************************************************************)
(* What the operators of ByteBudget leave behind, whatever the capacity,    *)
(* the queue and the callers.                                               *)
(*                                                                          *)
(* due[c] is what caller c holds or waits for.  A budget's account is in    *)
(* order when the bytes in use, with those that the queue waits for, are    *)
(* those due and some others; each operation keeps it so.                   *)
(***************************************************************************)
EXTENDS ByteBudget, Integers, Sums_proofs, SequenceTheorems

Budget(b, C) == b \in [used : Int, waiting : Seq([who : C, bytes : Nat])]

(* Everyone waits once, for what is due.                                    *)
Orderly(b, due, C) ==
  /\ Budget(b, C)
  /\ IsFiniteSet(C)
  /\ due \in [C -> Nat]
  /\ \A i, j \in 1..Len(b.waiting) :
       b.waiting[i].who = b.waiting[j].who => i = j
  /\ \A i \in 1..Len(b.waiting) : b.waiting[i].bytes = due[b.waiting[i].who]

(* The first n of the queue.                                                *)
Front(b, n) == {b.waiting[i].who : i \in 1..n}

LEMMA Places ==
  ASSUME NEW b, NEW C, Budget(b, C)
  PROVE  /\ b.used \in Int
         /\ Len(b.waiting) \in Nat
         /\ b.waiting \in Seq([who : C, bytes : Nat])
         /\ \A i \in 1..Len(b.waiting) :
              /\ b.waiting[i] \in [who : C, bytes : Nat]
              /\ b.waiting[i].who \in C
              /\ b.waiting[i].bytes \in Nat
         /\ b = [used |-> b.used, waiting |-> b.waiting]
<1>1. b.waiting \in Seq([who : C, bytes : Nat]) /\ b.used \in Int
  BY DEF Budget
<1>2. Len(b.waiting) \in Nat
  BY <1>1, LenProperties
<1>3. \A i \in 1..Len(b.waiting) : b.waiting[i] \in [who : C, bytes : Nat]
  BY <1>1, ElementOfSeq
<1> QED
  BY <1>1, <1>2, <1>3 DEF Budget

-----------------------------------------------------------------------------
(* The bytes in use along the queue.                                        *)

Counting(f, b) ==
  f = [n \in 0..Len(b.waiting) |->
         IF n = 0 THEN b.used ELSE f[n - 1] + b.waiting[n].bytes]

LEMMA InUseCounts ==
  ASSUME NEW b, NEW C, Budget(b, C)
  PROVE  Counting(InUse(b), b)
<1> DEFINE N == Len(b.waiting)
           step == [n \in 1..N |-> [x \in Int |-> x + b.waiting[n].bytes]]
<1>1. b.used \in Int /\ N \in Nat /\ \A n \in 1..N : b.waiting[n].bytes \in Nat
  BY Places
<1>2. step \in [1..N -> [Int -> Int]]
  <2>1. ASSUME NEW n \in 1..N PROVE [x \in Int |-> x + b.waiting[n].bytes] \in [Int -> Int]
    BY <1>1
  <2> QED
    BY <2>1
<1>3. PICK f : Iterates(f, N, Int, b.used, step)
  <2> HIDE DEF N, step
  <2> QED
    BY <1>1, <1>2, Iteration
<1>4. \A n \in 1..N : f[n] = f[n - 1] + b.waiting[n].bytes
  <2> SUFFICES ASSUME NEW n \in 1..N PROVE f[n] = f[n - 1] + b.waiting[n].bytes
    OBVIOUS
  <2>1. n - 1 \in 0..N
    BY <1>1
  <2>2. f[n - 1] \in Int /\ f[n] = step[n][f[n - 1]]
    <3> HIDE DEF N, step
    <3> QED
      BY <1>3, <2>1 DEF Iterates
  <2> QED
    BY <2>2
<1>5. Counting(f, b)
  <2>1. f \in [0..N -> Int] /\ f[0] = b.used
    <3> HIDE DEF N, step
    <3> QED
      BY <1>3 DEF Iterates
  <2>2. \A n \in 0..N : n # 0 => n \in 1..N
    OBVIOUS
  <2>3. \A n \in 0..N : f[n] = IF n = 0 THEN b.used ELSE f[n - 1] + b.waiting[n].bytes
    <3> HIDE DEF step
    <3> QED
      BY <1>4, <2>1, <2>2
  <2> HIDE DEF step
  <2> QED
    BY <2>1, <2>3 DEF Counting
<1>6. InUse(b) = CHOOSE g : Counting(g, b)
  BY DEF InUse, Counting
<1> QED
  BY <1>5, <1>6

LEMMA FrontGrows ==
  ASSUME NEW b, NEW due, NEW C, Orderly(b, due, C), NEW n \in 1..Len(b.waiting)
  PROVE  /\ Front(b, n) = Front(b, n - 1) \cup {b.waiting[n].who}
         /\ b.waiting[n].who \notin Front(b, n - 1)
         /\ IsFiniteSet(Front(b, n - 1))
         /\ Front(b, n) \subseteq C
<1>1. Len(b.waiting) \in Nat /\ \A i \in 1..Len(b.waiting) : b.waiting[i].who \in C
  BY Places DEF Orderly
<1>2. n - 1 \in Nat /\ 1..n = (1..(n - 1)) \cup {n} /\ n \notin 1..(n - 1)
        /\ 1..(n - 1) \subseteq 1..Len(b.waiting) /\ 1..n \subseteq 1..Len(b.waiting)
  BY <1>1
<1>3. b.waiting[n].who \notin Front(b, n - 1)
  BY <1>2 DEF Front, Orderly
<1>4. Front(b, n - 1) \subseteq C /\ Front(b, n) \subseteq C
  BY <1>1, <1>2 DEF Front
<1>5. Front(b, n) = Front(b, n - 1) \cup {b.waiting[n].who}
  BY <1>2 DEF Front
<1>6. IsFiniteSet(Front(b, n - 1))
  BY <1>4, FS_Subset DEF Orderly
<1> QED
  BY <1>3, <1>4, <1>5, <1>6

(* What the first n wait for is what is due to them.                        *)
LEMMA InUseTotal ==
  ASSUME NEW b, NEW due, NEW C, Orderly(b, due, C)
  PROVE  \A n \in 0..Len(b.waiting) : InUse(b)[n] = b.used + Total(due, Front(b, n))
<1> DEFINE N == Len(b.waiting)
           T == {n \in 0..N : InUse(b)[n] = b.used + Total(due, Front(b, n))}
<1>1. N \in Nat /\ b.used \in Int
  BY Places DEF Orderly
<1>2. \A n \in 0..N :
        InUse(b)[n] = IF n = 0 THEN b.used ELSE InUse(b)[n - 1] + b.waiting[n].bytes
  BY InUseCounts DEF Orderly, Counting
<1>3. 0 \in T
  <2>1. Front(b, 0) = {}
    BY DEF Front
  <2>2. Total(due, Front(b, 0)) = 0
    BY <2>1, TotalEmpty, Zenon
  <2>3. 0 \in 0..N /\ InUse(b)[0] = b.used /\ b.used + 0 = b.used
    BY <1>1, <1>2
  <2> QED
    BY <2>2, <2>3
<1>4. ASSUME NEW n \in 1..N, n - 1 \in T PROVE n \in T
  <2>1. InUse(b)[n] = InUse(b)[n - 1] + b.waiting[n].bytes /\ n \in 0..N
    BY <1>1, <1>2
  <2>2. InUse(b)[n - 1] = b.used + Total(due, Front(b, n - 1))
    BY <1>4
  <2>3. \A c \in C : due[c] \in Nat
    BY DEF Orderly
  <2>4. b.waiting[n].who \in C /\ b.waiting[n].bytes = due[b.waiting[n].who]
          /\ Front(b, n - 1) \subseteq C
    BY Places, FrontGrows DEF Orderly
  <2>5. Total(due, Front(b, n)) = Total(due, Front(b, n - 1)) + due[b.waiting[n].who]
    <3>1. Total(due, Front(b, n - 1) \cup {b.waiting[n].who})
            = Total(due, Front(b, n - 1)) + due[b.waiting[n].who]
      BY <2>3, <2>4, FrontGrows, TotalAdd
    <3> QED
      BY <3>1, FrontGrows, Zenon
  <2>6. Total(due, Front(b, n - 1)) \in Nat /\ due[b.waiting[n].who] \in Nat
    BY <2>3, <2>4, FrontGrows, TotalNat
  <2>7. InUse(b)[n] = b.used + Total(due, Front(b, n))
    BY <1>1, <2>1, <2>2, <2>4, <2>5, <2>6
  <2> QED
    BY <2>1, <2>7
<1>5. 0..N \subseteq T
  <2> HIDE DEF T
  <2> QED
    BY <1>1, <1>3, <1>4, Upward
<1> QED
  BY <1>5

-----------------------------------------------------------------------------
(* Waking.                                                                  *)

LEMMA InUseInt ==
  ASSUME NEW b, NEW C, Budget(b, C)
  PROVE  InUse(b) \in [0..Len(b.waiting) -> Int] /\ InUse(b)[0] = b.used
<1> DEFINE N == Len(b.waiting)
           T == {n \in 0..N : InUse(b)[n] \in Int}
<1>1. /\ N \in Nat /\ b.used \in Int
      /\ \A n \in 1..N : b.waiting[n].bytes \in Nat
  BY Places
<1>2. InUse(b) = [n \in 0..N |->
        IF n = 0 THEN b.used ELSE InUse(b)[n - 1] + b.waiting[n].bytes]
  BY InUseCounts DEF Counting
<1>3. 0 \in T /\ InUse(b)[0] = b.used
  <2>1. 0 \in 0..N
    BY <1>1
  <2> QED
    BY <1>1, <1>2, <2>1
<1>4. ASSUME NEW n \in 1..N, n - 1 \in T PROVE n \in T
  <2>1. n \in 0..N /\ n # 0
    BY <1>1
  <2>2. InUse(b)[n] = InUse(b)[n - 1] + b.waiting[n].bytes
    BY <1>2, <2>1
  <2> QED
    BY <1>1, <1>4, <2>1, <2>2
<1>5. 0..N \subseteq T
  <2> HIDE DEF T
  <2> QED
    BY <1>1, <1>3, <1>4, Upward
<1> QED
  BY <1>2, <1>3, <1>5

(* n is the longest run of waiters at the head of the queue that fits.      *)
Runs(b, n) ==
  /\ n \in 0..Len(b.waiting)
  /\ n = 0 \/ InUse(b)[n] <= Capacity
  /\ n < Len(b.waiting) => InUse(b)[n + 1] > Capacity

(* What is left when they have been woken.                                  *)
Behind(b, n) == [used |-> InUse(b)[n],
                 waiting |-> SubSeq(b.waiting, n + 1, Len(b.waiting))]

LEMMA WokenRuns ==
  ASSUME NEW b, NEW C, Budget(b, C), Capacity \in Nat
  PROVE  \E n : Runs(b, n) /\ Woken(b) = Behind(b, n)
<1> DEFINE N == Len(b.waiting)
           T == {n \in 0..N : n = 0 \/ InUse(b)[n] <= Capacity}
<1>1. N \in Nat /\ \A n \in 0..N : InUse(b)[n] \in Int
  BY Places, InUseInt
<1>2. T # {} /\ T \subseteq 0..N
  <2>1. 0 \in 0..N
    BY <1>1
  <2> QED
    BY <2>1
<1>3. PICK m \in T : \A n \in T : n <= m
  <2> HIDE DEF T
  <2> QED
    BY <1>1, <1>2, Greatest
<1>4. Runs(b, m)
  <2>1. ASSUME m < N PROVE InUse(b)[m + 1] > Capacity
    <3>1. m + 1 \in 0..N /\ ~(m + 1 <= m) /\ m + 1 # 0
      BY <1>1, <2>1
    <3> QED
      BY <1>1, <1>3, <3>1
  <2> QED
    BY <2>1 DEF Runs
<1> DEFINE n == CHOOSE n \in 0..N :
                  /\ n = 0 \/ InUse(b)[n] <= Capacity
                  /\ n < N => InUse(b)[n + 1] > Capacity
<1>5. Runs(b, n)
  BY <1>4 DEF Runs
<1>6. Woken(b) = Behind(b, n)
  BY DEF Woken, Behind
<1> QED
  BY <1>5, <1>6

LEMMA WokenSettles ==
  ASSUME NEW b, NEW C, Budget(b, C), Capacity \in Nat
  PROVE  /\ Budget(Woken(b), C)
         /\ HeadWaits(Woken(b))
         /\ b.used <= Capacity => Woken(b).used <= Capacity
         /\ Len(Woken(b).waiting) <= Len(b.waiting)
<1> DEFINE N == Len(b.waiting)
           q == b.waiting
           R == [who : C, bytes : Nat]
<1>1. /\ N \in Nat /\ q \in Seq(R) /\ b.used \in Int
      /\ \A n \in 1..N : q[n].bytes \in Nat
  BY Places
<1>2. \A n \in 0..N : InUse(b)[n] \in Int
  BY InUseInt
<1>3. PICK n : Runs(b, n) /\ Woken(b) = Behind(b, n)
  BY WokenRuns
<1>4. n \in 0..N /\ n \in Nat
  BY <1>1, <1>3 DEF Runs
<1> DEFINE s == SubSeq(q, n + 1, N)
           u == InUse(b)[n]
<1>5. /\ s \in Seq(R) /\ Len(s) = N - n
      /\ \A i \in 1..(N - n) : s[i] = q[n + i]
  <2> HIDE DEF R
  <2> QED
    BY <1>1, <1>4
<1>6. Woken(b) = [used |-> u, waiting |-> s] /\ u \in Int
  BY <1>2, <1>3, <1>4 DEF Behind
<1> HIDE DEF s, u
<1>7. Woken(b).used = u /\ Woken(b).waiting = s
  BY <1>6
<1>8. Budget(Woken(b), C)
  BY <1>5, <1>6 DEF Budget
<1>9. ASSUME b.used <= Capacity PROVE u <= Capacity
  BY <1>1, <1>2, <1>3, <1>4, <1>9, InUseInt DEF Runs, u
<1>10. ASSUME s # <<>> PROVE ~(u + Head(s).bytes <= Capacity)
  <2>1. n < N
    <3> HIDE DEF R
    <3> QED
      BY <1>1, <1>4, <1>5, <1>10
  <2>2. Head(s) = q[n + 1]
    <3>1. 1 \in 1..(N - n)
      BY <1>1, <1>4, <2>1
    <3>2. s[1] = q[n + 1]
      BY <1>5, <3>1
    <3> QED
      BY <1>5, <1>10, <3>2
  <2>3. n + 1 \in 0..N /\ n + 1 \in 1..N /\ n + 1 # 0 /\ (n + 1) - 1 = n
    BY <1>1, <1>4, <2>1
  <2>4. InUse(b)[n + 1] = IF n + 1 = 0 THEN b.used
                          ELSE InUse(b)[(n + 1) - 1] + q[n + 1].bytes
    BY <2>3, InUseCounts DEF Counting
  <2>5. InUse(b)[n + 1] = u + q[n + 1].bytes
    BY <2>3, <2>4 DEF u
  <2>6. InUse(b)[n + 1] > Capacity
    BY <1>3, <2>1 DEF Runs
  <2> QED
    BY <1>1, <1>6, <2>2, <2>3, <2>5, <2>6
<1>11. N - n <= N
  BY <1>1, <1>4
<1>12. HeadWaits(Woken(b))
  BY <1>7, <1>10 DEF HeadWaits, Fits
<1> QED
  BY <1>5, <1>7, <1>8, <1>9, <1>11, <1>12

(* What is behind the first n of the queue.                                 *)
LEMMA BehindOrderly ==
  ASSUME NEW b, NEW due, NEW C, Orderly(b, due, C), NEW n \in 0..Len(b.waiting)
  PROVE  /\ Orderly(Behind(b, n), due, C)
         /\ Waiters(Behind(b, n)) = Waiters(b) \ Front(b, n)
         /\ Front(b, n) \subseteq Waiters(b)
<1> DEFINE c == Behind(b, n)
           N == Len(b.waiting)
           q == b.waiting
           s == SubSeq(q, n + 1, N)
           R == [who : C, bytes : Nat]
<1>1. N \in Nat /\ q \in Seq(R) /\ n \in Nat /\ n <= N /\ Budget(b, C)
  BY Places DEF Orderly
<1>2. s \in Seq(R) /\ Len(s) = N - n /\ \A i \in 1..(N - n) : s[i] = q[n + i]
  <2> HIDE DEF R
  <2> QED
    BY <1>1
<1>3. Budget(c, C) /\ c.waiting = s
  BY <1>1, <1>2, InUseInt DEF Budget, Behind
<1>4. /\ \A i, j \in 1..N : q[i].who = q[j].who => i = j
      /\ \A i \in 1..N : q[i].bytes = due[q[i].who]
  BY DEF Orderly
<1> HIDE DEF s, R
<1>5. \A i \in 1..(N - n) : n + i \in 1..N /\ s[i] = q[n + i]
  BY <1>1, <1>2
<1>6. ASSUME NEW i \in 1..N, i \notin 1..n
      PROVE  i - n \in 1..(N - n) /\ s[i - n] = q[i]
  <2>1. i - n \in 1..(N - n) /\ n + (i - n) = i
    BY <1>1, <1>6
  <2> QED
    BY <1>5, <2>1
<1> HIDE DEF N, q, c
<1>7. Orderly(c, due, C)
  <2>1. ASSUME NEW i \in 1..(N - n), NEW j \in 1..(N - n), s[i].who = s[j].who
        PROVE  i = j
    <3>1. n + i \in 1..N /\ n + j \in 1..N /\ q[n + i].who = q[n + j].who
      BY <1>5, <2>1
    <3>2. n + i = n + j
      BY <1>4, <3>1
    <3> QED
      BY <1>1, <3>2
  <2>2. \A i \in 1..(N - n) : s[i].bytes = due[s[i].who]
    BY <1>4, <1>5
  <2> QED
    BY <1>2, <1>3, <2>1, <2>2 DEF Orderly
<1>8. Waiters(b) = {q[i].who : i \in 1..N} /\ Waiters(c) = {s[i].who : i \in 1..(N - n)}
        /\ Front(b, n) = {q[i].who : i \in 1..n}
  BY <1>2, <1>3 DEF Waiters, Front, q, N
<1>9. \A i \in 1..n : i \in 1..N
  BY <1>1
<1>10. ASSUME NEW i \in 1..(N - n) PROVE s[i].who \notin Front(b, n)
  <2>1. n + i \in 1..N /\ s[i] = q[n + i] /\ n + i \notin 1..n
    BY <1>1, <1>5
  <2> QED
    BY <1>4, <1>8, <1>9, <2>1
<1>11. Waiters(c) \subseteq Waiters(b) \ Front(b, n)
  BY <1>5, <1>8, <1>10
<1>12. Waiters(b) \ Front(b, n) \subseteq Waiters(c)
  BY <1>6, <1>8
<1>13. Front(b, n) \subseteq Waiters(b)
  BY <1>8, <1>9
<1> QED
  BY <1>7, <1>11, <1>12, <1>13 DEF c

-----------------------------------------------------------------------------
(* Accounts.                                                                *)

LEMMA Fields ==
  ASSUME NEW b, b = [used |-> b.used, waiting |-> b.waiting], NEW u
  PROVE  [b EXCEPT !.used = u] = [used |-> u, waiting |-> b.waiting]
OBVIOUS

(* other: what is in use beside what is due.                                *)
Balanced(b, due, C, other) ==
  /\ Orderly(b, due, C)
  /\ other \in Int
  /\ b.used + Total(due, Waiters(b)) = Total(due, C) + other
  /\ Len(b.waiting) <= MaxQueued
  /\ b.used <= Capacity

Account(b, due, C, other) == Balanced(b, due, C, other) /\ HeadWaits(b)

LEMMA Totals ==
  ASSUME NEW b, NEW due, NEW C, Orderly(b, due, C)
  PROVE  /\ Waiters(b) \subseteq C
         /\ \A S \in SUBSET C : IsFiniteSet(S) /\ Total(due, S) \in Nat
         /\ \A c \in C : due[c] \in Nat
<1>1. Waiters(b) \subseteq C
  <2>1. Budget(b, C)
    BY DEF Orderly
  <2>2. \A i \in 1..Len(b.waiting) : b.waiting[i].who \in C
    BY <2>1, Places
  <2> QED
    BY <2>2 DEF Waiters
<1>2. \A c \in C : due[c] \in Nat
  BY DEF Orderly
<1>3. ASSUME NEW S \in SUBSET C PROVE IsFiniteSet(S) /\ Total(due, S) \in Nat
  <2>1. IsFiniteSet(S)
    BY FS_Subset DEF Orderly
  <2> QED
    BY <1>2, <2>1, TotalNat
<1> QED
  BY <1>1, <1>2, <1>3

(* Whoever is woken has what it waited for: nothing else changes.           *)
LEMMA WokenAccount ==
  ASSUME NEW b, NEW due, NEW C, NEW other, Balanced(b, due, C, other),
         Capacity \in Nat, MaxQueued \in Nat
  PROVE  Account(Woken(b), due, C, other) /\ Waiters(Woken(b)) \subseteq Waiters(b)
<1> DEFINE c == Woken(b)
<1>1. Orderly(b, due, C) /\ Budget(b, C) /\ b.used <= Capacity
        /\ Len(b.waiting) <= MaxQueued
  BY DEF Balanced, Orderly
<1>2. PICK n : Runs(b, n) /\ c = Behind(b, n)
  BY <1>1, WokenRuns
<1>3. n \in 0..Len(b.waiting)
  BY <1>2 DEF Runs
<1>4. Orderly(c, due, C) /\ Waiters(c) = Waiters(b) \ Front(b, n)
        /\ Front(b, n) \subseteq Waiters(b)
  <2> HIDE DEF c
  <2> QED
    BY <1>1, <1>2, <1>3, BehindOrderly
<1>5. c.used = b.used + Total(due, Front(b, n))
  <2>1. InUse(b)[n] = b.used + Total(due, Front(b, n))
    BY <1>1, <1>3, InUseTotal
  <2> HIDE DEF c
  <2> QED
    BY <1>2, <2>1 DEF Behind
<1>6. Total(due, Waiters(c)) = Total(due, Waiters(b)) - Total(due, Front(b, n))
  <2>1. /\ IsFiniteSet(Waiters(b))
        /\ \A x \in Waiters(b) : due[x] \in Nat
    BY <1>1, Totals
  <2>2. Total(due, Waiters(b) \ Front(b, n))
          = Total(due, Waiters(b)) - Total(due, Front(b, n))
    BY <1>4, <2>1, TotalSubset
  <2> QED
    BY <1>4, <2>2, Zenon
<1>7. Total(due, Waiters(b)) \in Nat /\ Total(due, Front(b, n)) \in Nat
        /\ Total(due, Waiters(c)) \in Nat /\ b.used \in Int
  <2>1. Front(b, n) \in SUBSET C /\ Waiters(b) \in SUBSET C /\ Waiters(c) \in SUBSET C
    BY <1>1, <1>4, Totals
  <2> HIDE DEF c
  <2> QED
    BY <1>1, <2>1, Totals, Places
<1>8. HeadWaits(c) /\ c.used <= Capacity /\ Len(c.waiting) <= Len(b.waiting)
  BY <1>1, WokenSettles
<1>9. Len(c.waiting) \in Nat /\ Len(b.waiting) \in Nat
  <2>1. Budget(c, C)
    BY <1>4 DEF Orderly
  <2> HIDE DEF c
  <2> QED
    BY <1>1, <2>1, Places
<1> HIDE DEF c
<1>10. Account(c, due, C, other)
  <2>1. c.used + Total(due, Waiters(c)) = b.used + Total(due, Waiters(b))
    BY <1>5, <1>6, <1>7
  <2>2. Len(c.waiting) <= MaxQueued
    BY <1>1, <1>8, <1>9
  <2> QED
    BY <1>4, <1>8, <2>1, <2>2 DEF Account, Balanced
<1> QED
  BY <1>4, <1>10 DEF c

(* More or less is in use, and nobody is woken.                             *)
Using(b, u) == [used |-> b.used + u, waiting |-> b.waiting]

LEMMA UsingAccount ==
  ASSUME NEW b, NEW due, NEW C, NEW other, Balanced(b, due, C, other),
         NEW u \in Int, b.used + u <= Capacity, Capacity \in Nat
  PROVE  Balanced(Using(b, u), due, C, other + u) /\ Waiters(Using(b, u)) = Waiters(b)
<1> DEFINE c == Using(b, u)
<1>1. Orderly(b, due, C) /\ Budget(b, C) /\ other \in Int
  BY DEF Balanced, Orderly
<1>2. c.used = b.used + u /\ c.waiting = b.waiting
  BY DEF Using
<1>3. Total(due, Waiters(b)) \in Nat /\ Total(due, C) \in Nat /\ b.used \in Int
  BY <1>1, Totals, Places
<1>4. Budget(c, C)
  <2>1. b.waiting \in Seq([who : C, bytes : Nat])
    BY <1>1, Places
  <2> QED
    BY <1>3, <2>1 DEF Budget, Using
<1> HIDE DEF c
<1>5. Waiters(c) = Waiters(b)
  BY <1>2 DEF Waiters
<1>6. Orderly(c, due, C)
  BY <1>1, <1>2, <1>4 DEF Orderly
<1>7. (b.used + u) + Total(due, Waiters(b)) = Total(due, C) + (other + u)
  <2>1. b.used + Total(due, Waiters(b)) = Total(due, C) + other
    BY DEF Balanced
  <2> QED
    BY <1>1, <1>3, <2>1
<1>8. c.used + Total(due, Waiters(c)) = Total(due, C) + (other + u)
  BY <1>2, <1>5, <1>7, Zenon
<1>9. c.used <= Capacity /\ Len(c.waiting) <= MaxQueued /\ other + u \in Int
  BY <1>1, <1>2 DEF Balanced
<1> QED
  BY <1>5, <1>6, <1>8, <1>9 DEF Balanced, c

LEMMA ReservedAccount ==
  ASSUME NEW b, NEW due, NEW C, NEW other, Account(b, due, C, other),
         NEW n \in Nat, Fits(b, n), Capacity \in Nat
  PROVE  Account(Reserved(b, n), due, C, other + n) /\ Waiters(Reserved(b, n)) = Waiters(b)
<1> DEFINE c == Using(b, n)
<1>1. Balanced(b, due, C, other) /\ Budget(b, C) /\ HeadWaits(b)
  BY DEF Account, Balanced, Orderly
<1>2. Reserved(b, n) = c
  <2>1. b = [used |-> b.used, waiting |-> b.waiting]
    BY <1>1, Places
  <2> QED
    BY <2>1, Fields DEF Reserved, Using
<1>3. b.used \in Int /\ Len(b.waiting) \in Nat
        /\ \A i \in 1..Len(b.waiting) : b.waiting[i].bytes \in Nat
  BY <1>1, Places
<1>4. Balanced(c, due, C, other + n) /\ Waiters(c) = Waiters(b)
  <2>1. n \in Int /\ b.used + n <= Capacity
    BY DEF Fits
  <2> QED
    BY <1>1, <2>1, UsingAccount
<1>5. HeadWaits(c)
  <2>1. c.used = b.used + n /\ c.waiting = b.waiting
    BY DEF Using
  <2> HIDE DEF c
  <2> SUFFICES ASSUME b.waiting # <<>> PROVE ~Fits(c, Head(b.waiting).bytes)
    BY <2>1 DEF HeadWaits
  <2>2. Head(b.waiting) = b.waiting[1] /\ 1 \in 1..Len(b.waiting)
    BY <1>1, Places
  <2>3. ~(b.used + b.waiting[1].bytes <= Capacity)
    BY <1>1, <2>2 DEF HeadWaits, Fits
  <2> QED
    BY <1>3, <2>1, <2>2, <2>3 DEF Fits
<1> QED
  BY <1>2, <1>4, <1>5 DEF Account

(* Bytes are given back, or exchanged for others.                           *)
LEMMA ReplacedAccount ==
  ASSUME NEW b, NEW due, NEW C, NEW other, Account(b, due, C, other),
         NEW bound \in Nat, NEW n \in Nat, b.used - bound + n <= Capacity,
         Capacity \in Nat, MaxQueued \in Nat
  PROVE  /\ Account(Replaced(b, bound, n), due, C, other - bound + n)
         /\ Waiters(Replaced(b, bound, n)) \subseteq Waiters(b)
<1> DEFINE u == n - bound
           c == Using(b, u)
<1>1. Balanced(b, due, C, other) /\ Budget(b, C) /\ other \in Int
  BY DEF Account, Balanced, Orderly
<1>2. /\ b.used \in Int /\ u \in Int
      /\ b.used + u = b.used - bound + n /\ b.used + u <= Capacity
      /\ other + u = other - bound + n
  <2>1. b.used \in Int
    BY <1>1, Places
  <2> QED
    BY <1>1, <2>1
<1>3. Replaced(b, bound, n) = Woken(c)
  <2>1. b = [used |-> b.used, waiting |-> b.waiting]
    BY <1>1, Places
  <2>2. [b EXCEPT !.used = b.used - bound + n] = c
    BY <1>2, <2>1, Fields DEF Using
  <2> HIDE DEF c
  <2> QED
    BY <2>2, Zenon DEF Replaced
<1> HIDE DEF u
<1>4. Balanced(c, due, C, other + u) /\ Waiters(c) = Waiters(b)
  BY <1>1, <1>2, UsingAccount
<1> HIDE DEF c
<1>5. Account(Woken(c), due, C, other + u) /\ Waiters(Woken(c)) \subseteq Waiters(c)
  BY <1>4, WokenAccount
<1> QED
  BY <1>2, <1>3, <1>4, <1>5

LEMMA ReleasedAccount ==
  ASSUME NEW b, NEW due, NEW C, NEW other, Account(b, due, C, other),
         NEW n \in Nat, Capacity \in Nat, MaxQueued \in Nat
  PROVE  /\ Account(Released(b, n), due, C, other - n)
         /\ Waiters(Released(b, n)) \subseteq Waiters(b)
<1>1. b.used \in Int /\ b.used <= Capacity /\ other \in Int
  BY Places DEF Account, Balanced, Orderly
<1>2. b.used - n + 0 = b.used - n /\ other - n + 0 = other - n /\ b.used - n + 0 <= Capacity
  BY <1>1
<1>3. Released(b, n) = Replaced(b, n, 0)
  BY <1>2 DEF Released, Replaced
<1>4. /\ Account(Replaced(b, n, 0), due, C, other - n + 0)
      /\ Waiters(Replaced(b, n, 0)) \subseteq Waiters(b)
  BY <1>2, ReplacedAccount
<1> QED
  BY <1>2, <1>3, <1>4

(* Those who do not wait may owe more or less.                              *)
LEMMA DueAccount ==
  ASSUME NEW b, NEW due, NEW C, NEW other, Account(b, due, C, other),
         NEW due2 \in [C -> Nat], \A w \in Waiters(b) : due2[w] = due[w]
  PROVE  Account(b, due2, C, other + Total(due, C) - Total(due2, C))
<1>1. Orderly(b, due, C) /\ Budget(b, C) /\ other \in Int /\ IsFiniteSet(C)
  BY DEF Account, Balanced, Orderly
<1>2. Orderly(b, due2, C)
  <2>1. \A i \in 1..Len(b.waiting) : b.waiting[i].who \in Waiters(b)
    BY DEF Waiters
  <2>2. \A i \in 1..Len(b.waiting) : b.waiting[i].bytes = due2[b.waiting[i].who]
    BY <1>1, <2>1 DEF Orderly
  <2> QED
    BY <1>1, <2>2 DEF Orderly
<1>3. Total(due2, Waiters(b)) = Total(due, Waiters(b))
  <2>1. IsFiniteSet(Waiters(b))
    BY <1>1, Totals
  <2> QED
    BY <2>1, TotalSame
<1>4. Total(due, Waiters(b)) \in Nat /\ Total(due, C) \in Nat /\ Total(due2, C) \in Nat
        /\ b.used \in Int
  BY <1>1, <1>2, Totals, Places
<1>5. b.used + Total(due, Waiters(b)) = Total(due, C) + other
  BY DEF Account, Balanced
<1>6. /\ b.used + Total(due, Waiters(b))
          = Total(due2, C) + (other + Total(due, C) - Total(due2, C))
      /\ other + Total(due, C) - Total(due2, C) \in Int
  BY <1>1, <1>4, <1>5
<1>7. b.used + Total(due2, Waiters(b))
        = Total(due2, C) + (other + Total(due, C) - Total(due2, C))
  BY <1>3, <1>6, Zenon
<1> QED
  BY <1>2, <1>6, <1>7 DEF Account, Balanced

(* c comes to owe n.                                                        *)
LEMMA OwedAccount ==
  ASSUME NEW b, NEW due, NEW C, NEW other, Account(b, due, C, other),
         NEW c \in C, c \notin Waiters(b), NEW n \in Nat
  PROVE  Account(b, [due EXCEPT ![c] = n], C, other + due[c] - n)
<1> DEFINE due2 == [due EXCEPT ![c] = n]
<1>1. Orderly(b, due, C) /\ other \in Int /\ IsFiniteSet(C) /\ due \in [C -> Nat]
  BY DEF Account, Balanced, Orderly
<1>2. due2 \in [C -> Nat] /\ due2[c] = n /\ \A y \in C : y # c => due[y] = due2[y]
  BY <1>1
<1>3. \A w \in Waiters(b) : due2[w] = due[w]
  BY <1>1, <1>2, Totals
<1> HIDE DEF due2
<1>4. Account(b, due2, C, other + Total(due, C) - Total(due2, C))
  BY <1>2, <1>3, DueAccount
<1>5. Total(due2, C) = Total(due, C) - due[c] + due2[c]
  <2>1. \A y \in C : due[y] \in Nat /\ due2[y] \in Nat
    BY <1>1, <1>2
  <2> QED
    BY <1>1, <1>2, <2>1, TotalChange
<1>6. other + Total(due, C) - Total(due2, C) = other + due[c] - n
  <2>1. Total(due, C) \in Nat /\ due[c] \in Nat
    BY <1>1, Totals
  <2> QED
    BY <1>1, <1>2, <1>5, <2>1
<1>7. Account(b, due2, C, other + due[c] - n)
  BY <1>4, <1>6, Zenon
<1> QED
  BY <1>7 DEF due2

(* A caller at the end of the queue.                                        *)
Last(b, c, n) == [used |-> b.used,
                  waiting |-> Append(b.waiting, [who |-> c, bytes |-> n])]

LEMMA AskedAccount ==
  ASSUME NEW b, NEW due, NEW C, NEW other, Account(b, due, C, other),
         NEW c \in C, c \notin Waiters(b), NEW n \in Nat, due[c] = 0, ~Refuses(b, n),
         Capacity \in Nat, MaxQueued \in Nat
  PROVE  /\ Account(Asked(b, c, n), [due EXCEPT ![c] = n], C, other)
         /\ Waiters(Asked(b, c, n)) \subseteq Waiters(b) \cup {c}
<1> DEFINE due2 == [due EXCEPT ![c] = n]
           d == Last(b, c, n)
           q == b.waiting
           r == Append(q, [who |-> c, bytes |-> n])
<1>1. Orderly(b, due, C) /\ other \in Int /\ IsFiniteSet(C) /\ due \in [C -> Nat]
        /\ Budget(b, C) /\ HeadWaits(b)
  BY DEF Account, Balanced, Orderly
<1>2. CASE Fits(b, n)
  <2>1. Account(Reserved(b, n), due, C, other + n) /\ Waiters(Reserved(b, n)) = Waiters(b)
    BY <1>2, ReservedAccount
  <2>2. Account(Reserved(b, n), due2, C, other + n + due[c] - n)
    BY <2>1, OwedAccount
  <2>3. other + n + due[c] - n = other
    BY <1>1
  <2>4. Account(Reserved(b, n), due2, C, other)
    BY <2>2, <2>3, Zenon
  <2> QED
    BY <1>2, <2>1, <2>4 DEF Asked
<1>3. CASE ~Fits(b, n)
  <2>1. due2 \in [C -> Nat] /\ due2[c] = n /\ \A y \in C : y # c => due[y] = due2[y]
    BY <1>1
  <2>2. Account(b, due2, C, other + due[c] - n)
    BY OwedAccount
  <2>3. other + due[c] - n = other - n
    BY <1>1
  <2>4. Account(b, due2, C, other - n)
    BY <2>2, <2>3, Zenon
  <2> HIDE DEF due2
  <2>5. /\ r \in Seq([who : C, bytes : Nat]) /\ Len(r) = Len(q) + 1
        /\ \A i \in 1..Len(q) : r[i] = q[i]
        /\ r[Len(q) + 1] = [who |-> c, bytes |-> n]
    <3>1. q \in Seq([who : C, bytes : Nat]) /\ [who |-> c, bytes |-> n] \in [who : C, bytes : Nat]
      BY <1>1, Places
    <3> QED
      BY <3>1, AppendProperties
  <2>6. Len(q) \in Nat /\ b.used \in Int
    BY <1>1, Places
  <2>7. /\ \A i \in 1..Len(r) : i \in 1..Len(q) \/ i = Len(q) + 1
        /\ \A i \in 1..Len(q) : i \in 1..Len(r) /\ i # Len(q) + 1 /\ r[i] = q[i]
        /\ Len(q) + 1 \in 1..Len(r)
        /\ r[Len(q) + 1].who = c /\ r[Len(q) + 1].bytes = n
    <3> HIDE DEF r
    <3> QED
      BY <2>5, <2>6
  <2>8. d.waiting = r /\ d.used = b.used /\ Budget(d, C)
    BY <2>5, <2>6 DEF Budget, Last
  <2>9. Asked(b, c, n) = d
    <3>1. b = [used |-> b.used, waiting |-> b.waiting]
      BY <1>1, Places
    <3>2. [b EXCEPT !.waiting = r] = [used |-> b.used, waiting |-> r]
      <4> HIDE DEF r
      <4> QED
        BY <3>1
    <3> HIDE <3>1
    <3> QED
      BY <1>3, <3>2 DEF Asked, Last
  <2> HIDE DEF r, d
  <2>10. Waiters(d) = Waiters(b) \cup {c}
    <3>1. Waiters(d) = {r[i].who : i \in 1..Len(r)} /\ Waiters(b) = {q[i].who : i \in 1..Len(q)}
      BY <2>8 DEF Waiters
    <3> HIDE DEF q
    <3> QED
      BY <2>7, <3>1
  <2>11. Orderly(d, due2, C)
    <3>1. /\ \A i, j \in 1..Len(q) : q[i].who = q[j].who => i = j
          /\ \A i \in 1..Len(q) : q[i].bytes = due2[q[i].who]
          /\ \A i \in 1..Len(q) : q[i].who # c
      <4>1. Orderly(b, due2, C) /\ \A i \in 1..Len(q) : q[i].who # c
        BY <2>4 DEF Account, Balanced, Waiters
      <4> QED
        BY <4>1 DEF Orderly
    <3> HIDE DEF q
    <3>2. \A i, j \in 1..Len(r) : r[i].who = r[j].who => i = j
      BY <2>7, <3>1
    <3>3. \A i \in 1..Len(r) : r[i].bytes = due2[r[i].who]
      BY <2>1, <2>7, <3>1
    <3> QED
      BY <1>1, <2>1, <2>8, <3>2, <3>3 DEF Orderly
  <2>12. Total(due2, Waiters(d)) = Total(due2, Waiters(b)) + n
    <3>1. IsFiniteSet(Waiters(b)) /\ \A w \in Waiters(b) : due2[w] \in Nat
      BY <1>1, <2>1, Totals
    <3>2. Total(due2, Waiters(b) \cup {c}) = Total(due2, Waiters(b)) + due2[c]
      BY <2>1, <3>1, TotalAdd
    <3> QED
      BY <2>1, <2>10, <3>2, Zenon
  <2>13. d.used + Total(due2, Waiters(d)) = Total(due2, C) + other
    <3>1. b.used + Total(due2, Waiters(b)) = Total(due2, C) + (other - n)
            /\ Orderly(b, due2, C)
      BY <2>4 DEF Account, Balanced
    <3>2. Total(due2, Waiters(b)) \in Nat /\ Total(due2, C) \in Nat
      BY <3>1, Totals
    <3>3. b.used + (Total(due2, Waiters(b)) + n) = Total(due2, C) + other
      BY <1>1, <2>6, <3>1, <3>2
    <3> QED
      BY <2>8, <2>12, <3>3, Zenon
  <2>14. Len(d.waiting) <= MaxQueued /\ d.used <= Capacity
    BY <1>3, <2>5, <2>6, <2>8 DEF Refuses, Account, Balanced
  <2>15. HeadWaits(d)
    <3>1. CASE Len(q) = 0
      <4>1. Head(r).bytes = n
        BY <2>5, <3>1
      <4> QED
        BY <1>3, <2>8, <4>1 DEF HeadWaits, Fits
    <3>2. CASE Len(q) # 0
      <4>1. 1 \in 1..Len(q) /\ r[1] = q[1]
        BY <2>5, <2>6, <3>2
      <4>2. q # <<>> /\ Head(r) = Head(q)
        BY <1>1, <2>5, <3>2, <4>1, Places
      <4> QED
        BY <1>1, <2>8, <4>2 DEF HeadWaits, Fits
    <3> QED
      BY <3>1, <3>2
  <2>16. Account(d, due2, C, other)
    BY <1>1, <2>11, <2>13, <2>14, <2>15 DEF Account, Balanced
  <2> QED
    BY <2>9, <2>10, <2>16 DEF due2
<1> QED
  BY <1>2, <1>3

-----------------------------------------------------------------------------
(* A caller leaves the queue.                                               *)

LEMMA WithoutOrderly ==
  ASSUME NEW b, NEW due, NEW C, Orderly(b, due, C), NEW c \in Waiters(b)
  PROVE  /\ Orderly(Without(b, c), due, C)
         /\ Waiters(Without(b, c)) = Waiters(b) \ {c}
         /\ Without(b, c).used = b.used
         /\ Len(Without(b, c).waiting) <= Len(b.waiting)
<1> DEFINE q == b.waiting
           N == Len(q)
           i == CHOOSE i \in 1..Len(b.waiting) : b.waiting[i].who = c
           r == SubSeq(q, 1, i - 1) \o SubSeq(q, i + 1, N)
           d == [used |-> b.used, waiting |-> r]
           R == [who : C, bytes : Nat]
<1>1. Budget(b, C) /\ N \in Nat /\ b.used \in Int /\ q \in Seq(R)
        /\ IsFiniteSet(C) /\ due \in [C -> Nat]
  BY Places DEF Orderly
<1>2. i \in 1..N /\ q[i].who = c
  BY DEF Waiters
<1>3. Without(b, c) = d
  <2>1. b = [used |-> b.used, waiting |-> b.waiting]
    BY <1>1, Places
  <2>2. Without(b, c) = [b EXCEPT !.waiting = r]
    BY DEF Without
  <2> HIDE DEF r, i
  <2> QED
    BY <2>1, <2>2
<1> HIDE DEF i, R
<1>4. r \in Seq(R) /\ Len(r) = N - 1
        /\ \A j \in 1..(N - 1) : r[j] = IF j < i THEN q[j] ELSE q[j + 1]
  <2>1. /\ SubSeq(q, 1, i - 1) \in Seq(R) /\ Len(SubSeq(q, 1, i - 1)) = i - 1
        /\ \A j \in 1..(i - 1) : SubSeq(q, 1, i - 1)[j] = q[j]
    BY <1>1, <1>2
  <2>2. /\ SubSeq(q, i + 1, N) \in Seq(R) /\ Len(SubSeq(q, i + 1, N)) = N - i
        /\ \A j \in 1..(N - i) : SubSeq(q, i + 1, N)[j] = q[i + j]
    BY <1>1, <1>2
  <2> DEFINE s == SubSeq(q, 1, i - 1)
             u == SubSeq(q, i + 1, N)
  <2> HIDE DEF s, u
  <2>3. /\ s \o u \in Seq(R) /\ Len(s \o u) = Len(s) + Len(u)
        /\ \A j \in 1..(Len(s) + Len(u)) :
             (s \o u)[j] = IF j <= Len(s) THEN s[j] ELSE u[j - Len(s)]
    BY <2>1, <2>2, ConcatProperties DEF s, u
  <2>4. Len(s) = i - 1 /\ Len(u) = N - i
    BY <2>1, <2>2 DEF s, u
  <2>5. ASSUME NEW j \in 1..(N - 1)
        PROVE  (s \o u)[j] = IF j < i THEN q[j] ELSE q[j + 1]
    <3>1. (s \o u)[j] = IF j <= i - 1 THEN s[j] ELSE u[j - (i - 1)]
      <4>1. j \in 1..(Len(s) + Len(u))
        BY <1>1, <1>2, <2>4
      <4> QED
        BY <2>3, <2>4, <4>1
    <3>2. CASE j < i
      <4>1. j \in 1..(i - 1) /\ j <= i - 1
        BY <1>1, <1>2, <3>2
      <4>2. s[j] = q[j]
        BY <2>1, <4>1 DEF s
      <4> QED
        BY <3>1, <3>2, <4>1, <4>2
    <3>3. CASE ~(j < i)
      <4>1. j - (i - 1) \in 1..(N - i) /\ ~(j <= i - 1) /\ i + (j - (i - 1)) = j + 1
        BY <1>1, <1>2, <3>3
      <4>2. u[j - (i - 1)] = q[j + 1]
        BY <2>2, <4>1 DEF u
      <4> QED
        BY <3>1, <3>3, <4>1, <4>2
    <3> QED
      BY <3>2, <3>3
  <2>6. Len(s \o u) = N - 1
    BY <1>1, <1>2, <2>3, <2>4
  <2> QED
    BY <2>3, <2>5, <2>6 DEF s, u
<1>5. Budget(d, C)
  BY <1>1, <1>4 DEF Budget, R
<1>6. /\ \A j \in 1..N, k \in 1..N : q[j].who = q[k].who => j = k
      /\ \A j \in 1..N : q[j].bytes = due[q[j].who]
  BY DEF Orderly
<1>7. Waiters(b) = {q[j].who : j \in 1..N}
  BY DEF Waiters
<1> HIDE DEF r, q, N
<1>8. ASSUME NEW j \in 1..(N - 1)
      PROVE  \E k \in 1..N : k # i /\ r[j] = q[k] /\ (k = IF j < i THEN j ELSE j + 1)
  <2>1. CASE j < i
    BY <1>1, <1>4, <2>1
  <2>2. CASE ~(j < i)
    <3>1. j + 1 \in 1..N /\ j + 1 # i
      BY <1>1, <1>2, <2>2
    <3> QED
      BY <1>4, <2>2, <3>1
  <2> QED
    BY <2>1, <2>2
<1>9. ASSUME NEW k \in 1..N, k # i
      PROVE  \E j \in 1..(N - 1) : r[j] = q[k]
  <2>1. CASE k < i
    <3>1. k \in 1..(N - 1)
      BY <1>1, <1>2, <2>1
    <3> QED
      BY <1>4, <2>1, <3>1
  <2>2. CASE ~(k < i)
    <3>1. k - 1 \in 1..(N - 1) /\ ~(k - 1 < i) /\ (k - 1) + 1 = k
      BY <1>1, <1>2, <1>9, <2>2
    <3>2. r[k - 1] = q[k]
      BY <1>4, <3>1
    <3> QED
      BY <3>1, <3>2
  <2> QED
    BY <2>1, <2>2
<1>10. d.used = b.used /\ d.waiting = r
  OBVIOUS
<1>11. Waiters(d) = {r[j].who : j \in 1..(N - 1)}
  BY <1>4, <1>10 DEF Waiters
<1> HIDE DEF d
<1>12. Waiters(d) = Waiters(b) \ {c}
  <2>1. ASSUME NEW j \in 1..(N - 1) PROVE r[j].who \in Waiters(b) \ {c}
    <3>1. PICK k \in 1..N : k # i /\ r[j] = q[k]
      BY <1>8
    <3> QED
      BY <1>2, <1>6, <1>7, <3>1
  <2>2. ASSUME NEW k \in 1..N, q[k].who # c PROVE q[k].who \in Waiters(d)
    <3>1. PICK j \in 1..(N - 1) : r[j] = q[k]
      BY <1>2, <1>9, <2>2
    <3> QED
      BY <1>11, <3>1
  <2> QED
    BY <1>7, <1>11, <2>1, <2>2
<1>13. Orderly(d, due, C)
  <2>1. ASSUME NEW j \in 1..(N - 1), NEW m \in 1..(N - 1), r[j].who = r[m].who
        PROVE  j = m
    <3>1. PICK k \in 1..N : r[j] = q[k] /\ (k = IF j < i THEN j ELSE j + 1)
      BY <1>8
    <3>2. PICK n \in 1..N : r[m] = q[n] /\ (n = IF m < i THEN m ELSE m + 1)
      BY <1>8
    <3>3. k = n
      BY <1>6, <2>1, <3>1, <3>2
    <3> QED
      BY <1>1, <1>2, <3>1, <3>2, <3>3
  <2>2. ASSUME NEW j \in 1..(N - 1) PROVE r[j].bytes = due[r[j].who]
    BY <1>6, <1>8
  <2> QED
    BY <1>1, <1>4, <1>5, <1>10, <2>1, <2>2 DEF Orderly
<1>14. Len(d.waiting) <= Len(b.waiting)
  BY <1>1, <1>4, <1>10 DEF N, q
<1> QED
  BY <1>3, <1>10, <1>12, <1>13, <1>14

LEMMA LeftAccount ==
  ASSUME NEW b, NEW due, NEW C, NEW other, Account(b, due, C, other),
         NEW c \in Waiters(b), Capacity \in Nat, MaxQueued \in Nat
  PROVE  /\ Account(Left(b, c), [due EXCEPT ![c] = 0], C, other)
         /\ Waiters(Left(b, c)) \subseteq Waiters(b) \ {c}
<1> DEFINE d == Without(b, c)
<1>1. Orderly(b, due, C) /\ other \in Int /\ IsFiniteSet(C) /\ due \in [C -> Nat]
        /\ Budget(b, C) /\ c \in C
  BY Totals DEF Account, Balanced, Orderly
<1>2. /\ Orderly(d, due, C) /\ Waiters(d) = Waiters(b) \ {c}
      /\ d.used = b.used /\ Len(d.waiting) <= Len(b.waiting)
  BY <1>1, WithoutOrderly
<1> HIDE DEF d
<1>3. Len(d.waiting) \in Nat /\ Len(b.waiting) \in Nat /\ b.used \in Int
  <2>1. Budget(d, C)
    BY <1>2 DEF Orderly
  <2> QED
    BY <1>1, <2>1, Places
<1>4. /\ Total(due, Waiters(b)) = due[c] + Total(due, Waiters(d))
      /\ Total(due, Waiters(d)) \in Nat /\ due[c] \in Nat /\ Total(due, C) \in Nat
  <2>1. IsFiniteSet(Waiters(b)) /\ \A w \in Waiters(b) : due[w] \in Nat
    BY <1>1, Totals
  <2>2. Total(due, Waiters(b)) = due[c] + Total(due, Waiters(b) \ {c})
    BY <2>1, TotalRemove
  <2>3. Total(due, Waiters(b)) = due[c] + Total(due, Waiters(d))
    BY <1>2, <2>2, Zenon
  <2> QED
    BY <1>1, <1>2, <2>3, Totals
<1>5. b.used + Total(due, Waiters(b)) = Total(due, C) + other
  BY DEF Account, Balanced
<1>6. d.used + Total(due, Waiters(d)) = Total(due, C) + (other - due[c])
  <2>1. other \in Int /\ d.used = b.used /\ b.used \in Int
    BY <1>1, <1>2, <1>3
  <2>2. b.used + Total(due, Waiters(d)) = Total(due, C) + (other - due[c])
    BY <1>4, <1>5, <2>1
  <2> QED
    BY <2>1, <2>2, Zenon
<1>7. Balanced(d, due, C, other - due[c])
  BY <1>1, <1>2, <1>3, <1>4, <1>6 DEF Account, Balanced
<1>8. /\ Account(Woken(d), due, C, other - due[c])
      /\ Waiters(Woken(d)) \subseteq Waiters(b) \ {c}
  BY <1>2, <1>7, WokenAccount
<1>9. Account(Woken(d), [due EXCEPT ![c] = 0], C, other - due[c] + due[c] - 0)
  BY <1>1, <1>8, OwedAccount
<1>10. other - due[c] + due[c] - 0 = other
  BY <1>1, <1>4
<1>11. Account(Woken(d), [due EXCEPT ![c] = 0], C, other)
  BY <1>9, <1>10, Zenon
<1> QED
  BY <1>8, <1>11 DEF Left, d

-----------------------------------------------------------------------------
(* Everyone leaves the queue.                                               *)

AbortState(C) == [used : Int, refused : SUBSET C]

(* What the n-th of the queue finds, when the signal reaches it.            *)
Reached(b, n, before) ==
  IF before.refused # {} /\ before.used + b.waiting[n].bytes <= Capacity
  THEN [before EXCEPT !.used = @ + b.waiting[n].bytes]
  ELSE [before EXCEPT !.refused = @ \cup {b.waiting[n].who}]

AbortCounting(f, b) ==
  f = [n \in 0..Len(b.waiting) |->
         IF n = 0 THEN [used |-> b.used, refused |-> {}] ELSE Reached(b, n, f[n - 1])]

LEMMA AbortingIs ==
  ASSUME NEW b
  PROVE  Aborting(b) = (CHOOSE f : AbortCounting(f, b))[Len(b.waiting)]
BY DEF Aborting, AbortCounting, Reached

LEMMA ReachedState ==
  ASSUME NEW b, NEW C, Budget(b, C), NEW n \in 1..Len(b.waiting),
         NEW x, x \in AbortState(C)
  PROVE  Reached(b, n, x) \in AbortState(C)
<1> DEFINE w == b.waiting[n]
<1>1. w.who \in C /\ w.bytes \in Nat
  BY Places
<1>2. x = [used |-> x.used, refused |-> x.refused] /\ x.used \in Int /\ x.refused \subseteq C
  BY DEF AbortState
<1>3. x.used + w.bytes \in Int /\ x.refused \cup {w.who} \subseteq C
  BY <1>1, <1>2
<1>4. \/ Reached(b, n, x) = [used |-> x.used + w.bytes, refused |-> x.refused]
      \/ Reached(b, n, x) = [used |-> x.used, refused |-> x.refused \cup {w.who}]
  BY <1>2 DEF Reached
<1> HIDE DEF w
<1> QED
  BY <1>2, <1>3, <1>4 DEF AbortState

LEMMA AbortCounts ==
  ASSUME NEW b, NEW C, Budget(b, C)
  PROVE  \E f : AbortCounting(f, b) /\ Aborting(b) = f[Len(b.waiting)]
<1> DEFINE N == Len(b.waiting)
           S == AbortState(C)
           start == [used |-> b.used, refused |-> {}]
           step == [n \in 1..N |-> [x \in S |-> Reached(b, n, x)]]
<1>1. N \in Nat /\ start \in S
  BY Places DEF AbortState
<1>2. step \in [1..N -> [S -> S]]
  <2>1. ASSUME NEW n \in 1..N, NEW x \in S PROVE Reached(b, n, x) \in S
    BY ReachedState
  <2> HIDE DEF N, S
  <2> QED
    BY <2>1
<1>3. PICK f : Iterates(f, N, S, start, step)
  <2> HIDE DEF N, S, start, step
  <2> QED
    BY <1>1, <1>2, Iteration
<1>4. AbortCounting(f, b)
  <2>1. f \in [0..N -> S] /\ f[0] = start /\ \A n \in 1..N : f[n] = step[n][f[n - 1]]
    <3> HIDE DEF N, S, start, step
    <3> QED
      BY <1>3 DEF Iterates
  <2>2. \A n \in 1..N : f[n] = Reached(b, n, f[n - 1])
    <3> SUFFICES ASSUME NEW n \in 1..N PROVE f[n] = Reached(b, n, f[n - 1])
      OBVIOUS
    <3>1. n - 1 \in 0..N
      BY <1>1
    <3>2. f[n - 1] \in S /\ f[n] = step[n][f[n - 1]]
      <4> HIDE DEF N, S, step
      <4> QED
        BY <2>1, <3>1
    <3> HIDE DEF S, N
    <3> QED
      BY <3>2
  <2>3. \A n \in 0..N : n # 0 => n \in 1..N
    BY <1>1
  <2>4. \A n \in 0..N : f[n] = IF n = 0 THEN start ELSE Reached(b, n, f[n - 1])
    <3> HIDE DEF N, S, start, step
    <3> QED
      BY <2>1, <2>2, <2>3
  <2> HIDE DEF S, step
  <2> QED
    BY <2>1, <2>4 DEF AbortCounting
<1>5. AbortCounting(CHOOSE g : AbortCounting(g, b), b)
  BY <1>4
<1> QED
  BY <1>5, AbortingIs

(* Along the queue, those that are not refused have got what is due.        *)
LEMMA AbortingAccount ==
  ASSUME NEW b, NEW due, NEW C, Orderly(b, due, C), b.used <= Capacity, Capacity \in Nat
  PROVE  /\ Aborting(b).refused \subseteq Waiters(b)
         /\ Aborting(b).used = b.used + Total(due, Waiters(b) \ Aborting(b).refused)
         /\ Aborting(b).used \in Int
         /\ Aborting(b).used <= Capacity
<1>1. Budget(b, C) /\ IsFiniteSet(C) /\ \A c \in C : due[c] \in Nat
  BY DEF Orderly
<1>2. PICK f : AbortCounting(f, b) /\ Aborting(b) = f[Len(b.waiting)]
  BY <1>1, AbortCounts
<1> DEFINE N == Len(b.waiting)
           Right(n) == /\ f[n] = [used |-> f[n].used, refused |-> f[n].refused]
                       /\ f[n].refused \subseteq Front(b, n)
                       /\ f[n].used = b.used + Total(due, Front(b, n) \ f[n].refused)
                       /\ f[n].used \in Int
                       /\ f[n].used <= Capacity
           T == {n \in 0..N : Right(n)}
<1>3. N \in Nat /\ b.used \in Int
  BY <1>1, Places
<1>4. \A n \in 0..N :
        f[n] = IF n = 0 THEN [used |-> b.used, refused |-> {}]
               ELSE Reached(b, n, f[n - 1])
  BY <1>2 DEF AbortCounting
<1>5. 0 \in T
  <2>0. 0 \in 0..N
    BY <1>3
  <2>1. f[0] = [used |-> b.used, refused |-> {}]
    BY <1>4, <2>0
  <2>2. Front(b, 0) \ f[0].refused = {}
    BY DEF Front
  <2>3. Total(due, Front(b, 0) \ f[0].refused) = 0
    BY <2>2, TotalEmpty, Zenon
  <2>4. f[0].used = b.used /\ f[0].refused = {}
    BY <2>1
  <2>5. b.used = b.used + 0
    BY <1>3
  <2>6. Right(0)
    BY <1>3, <2>1, <2>3, <2>4, <2>5, Zenon
  <2> QED
    BY <2>0, <2>6
<1>6. ASSUME NEW n \in 1..N, n - 1 \in T PROVE n \in T
  <2> DEFINE x == f[n - 1]
             w == b.waiting[n].who
             F == Front(b, n - 1)
  <2>1. /\ x = [used |-> x.used, refused |-> x.refused]
        /\ x.refused \subseteq F
        /\ x.used = b.used + Total(due, F \ x.refused)
        /\ x.used \in Int
        /\ x.used <= Capacity
    BY <1>6
  <2>2. n \in 0..N /\ n # 0 /\ f[n] = Reached(b, n, x)
    BY <1>3, <1>4
  <2>3. /\ Front(b, n) = F \cup {w} /\ w \notin F /\ IsFiniteSet(F)
        /\ Front(b, n) \subseteq C
    BY FrontGrows
  <2>4. b.waiting[n].bytes = due[w] /\ due[w] \in Nat /\ \A y \in F : due[y] \in Nat
    BY <1>1, <2>3 DEF Orderly
  <2>5. IsFiniteSet(F \ x.refused) /\ w \notin F \ x.refused
    BY <2>3, FS_Subset
  <2>6. Total(due, (F \ x.refused) \cup {w}) = Total(due, F \ x.refused) + due[w]
          /\ Total(due, F \ x.refused) \in Nat
    BY <2>4, <2>5, TotalAdd, TotalNat
  <2> HIDE DEF x, w, F
  <2>7. CASE x.refused # {} /\ x.used + b.waiting[n].bytes <= Capacity
    <3>1. f[n] = [used |-> x.used + due[w], refused |-> x.refused]
      BY <2>1, <2>2, <2>4, <2>7 DEF Reached
    <3>2. f[n].used = x.used + due[w] /\ f[n].refused = x.refused
            /\ f[n] = [used |-> f[n].used, refused |-> f[n].refused]
      BY <3>1
    <3>3. Front(b, n) \ f[n].refused = (F \ x.refused) \cup {w}
            /\ f[n].refused \subseteq Front(b, n)
      BY <2>1, <2>3, <3>2
    <3>4. Total(due, Front(b, n) \ f[n].refused) = Total(due, F \ x.refused) + due[w]
      BY <2>6, <3>3, Zenon
    <3>5. x.used + due[w] = b.used + (Total(due, F \ x.refused) + due[w])
            /\ x.used + due[w] \in Int /\ x.used + due[w] <= Capacity
      BY <1>3, <2>1, <2>4, <2>6, <2>7
    <3>6. Right(n)
      BY <3>2, <3>3, <3>4, <3>5, Zenon
    <3> QED
      BY <2>2, <3>6
  <2>8. CASE ~(x.refused # {} /\ x.used + b.waiting[n].bytes <= Capacity)
    <3>1. f[n] = [used |-> x.used, refused |-> x.refused \cup {w}]
      BY <2>1, <2>2, <2>8 DEF Reached, w
    <3>2. f[n].used = x.used /\ f[n].refused = x.refused \cup {w}
            /\ f[n] = [used |-> f[n].used, refused |-> f[n].refused]
      BY <3>1
    <3>3. Front(b, n) \ f[n].refused = F \ x.refused
            /\ f[n].refused \subseteq Front(b, n)
      BY <2>1, <2>3, <3>2
    <3>4. Total(due, Front(b, n) \ f[n].refused) = Total(due, F \ x.refused)
      BY <3>3, Zenon
    <3>5. Right(n)
      BY <2>1, <3>2, <3>3, <3>4, Zenon
    <3> QED
      BY <2>2, <3>5
  <2> QED
    BY <2>7, <2>8
<1>7. 0..N \subseteq T
  <2> HIDE DEF T, N
  <2> QED
    BY <1>3, <1>5, <1>6, Upward
<1>8. Right(N)
  <2>1. N \in 0..N
    BY <1>3
  <2>2. N \in T
    BY <1>7, <2>1, Zenon
  <2> QED
    BY <2>2
<1>9. Front(b, N) = Waiters(b)
  BY DEF Front, Waiters
<1> QED
  BY <1>2, <1>8, <1>9, Zenon

LEMMA AbortedAccount ==
  ASSUME NEW b, NEW due, NEW C, NEW other, Account(b, due, C, other),
         NEW due2 \in [C -> Nat],
         \A c \in C : due2[c] = IF c \in Aborting(b).refused THEN 0 ELSE due[c],
         Capacity \in Nat, MaxQueued \in Nat
  PROVE  /\ Account(Aborted(b), due2, C, other)
         /\ Waiters(Aborted(b)) = {}
         /\ Aborting(b).refused \subseteq Waiters(b)
<1> DEFINE R == Aborting(b).refused
           u == Aborting(b).used
           d == [used |-> u, waiting |-> <<>>]
<1>1. Orderly(b, due, C) /\ other \in Int /\ b.used <= Capacity
        /\ IsFiniteSet(C) /\ b.used \in Int /\ \A c \in C : due[c] \in Nat
  BY Places DEF Account, Balanced, Orderly
<1>2. /\ R \subseteq Waiters(b) /\ u \in Int /\ u <= Capacity
      /\ u = b.used + Total(due, Waiters(b) \ R)
  BY <1>1, AbortingAccount
<1>3. Waiters(b) \subseteq C /\ R \subseteq C
  BY <1>1, <1>2, Totals
<1>4. /\ IsFiniteSet(Waiters(b)) /\ IsFiniteSet(R)
      /\ Total(due, Waiters(b)) \in Nat /\ Total(due, R) \in Nat /\ Total(due, C) \in Nat
  BY <1>1, <1>3, Totals
<1>5. Total(due, Waiters(b) \ R) = Total(due, Waiters(b)) - Total(due, R)
  BY <1>1, <1>2, <1>3, <1>4, TotalSubset
<1>6. Total(due2, C) = Total(due, C) - Total(due, R)
  <2>1. \A x \in C \ R : due2[x] = due[x]
    OBVIOUS
  <2>2. \A x \in R : due2[x] = 0
    BY <1>3
  <2> HIDE DEF R
  <2> QED
    BY <1>1, <1>3, <2>1, <2>2, TotalZeroed
<1>7. b.used + Total(due, Waiters(b)) = Total(due, C) + other
  BY DEF Account, Balanced
<1>8. Aborted(b) = d
  BY DEF Aborted
<1> HIDE DEF R, u
<1>9. Waiters(d) = {}
  BY DEF Waiters
<1>10. Total(due2, Waiters(d)) = 0
  BY <1>9, TotalEmpty, Zenon
<1>11. u = Total(due2, C) + other
  BY <1>1, <1>2, <1>4, <1>5, <1>6, <1>7
<1>12. d.used + Total(due2, Waiters(d)) = Total(due2, C) + other
  <2>1. d.used = u /\ u + 0 = u
    BY <1>2
  <2> QED
    BY <1>10, <1>11, <2>1, Zenon
<1>13. Orderly(d, due2, C)
  BY <1>1, <1>2 DEF Orderly, Budget
<1>14. Len(d.waiting) <= MaxQueued /\ d.used <= Capacity /\ HeadWaits(d)
  BY <1>2 DEF HeadWaits
<1>15. Account(d, due2, C, other)
  BY <1>1, <1>12, <1>13, <1>14 DEF Account, Balanced
<1> QED
  BY <1>2, <1>8, <1>9, <1>15 DEF R

-----------------------------------------------------------------------------
(* A budget nobody uses.                                                    *)

LEMMA EmptyAccount ==
  ASSUME NEW C, IsFiniteSet(C), NEW due \in [C -> Nat], \A c \in C : due[c] = 0,
         Capacity \in Nat, MaxQueued \in Nat
  PROVE  Account(Empty, due, C, 0) /\ Waiters(Empty) = {}
<1> DEFINE d == [used |-> 0, waiting |-> <<>>]
<1>1. Empty = d /\ Waiters(d) = {}
  BY DEF Empty, Waiters
<1>2. Total(due, C) = 0 * Cardinality(C)
  BY TotalConstant
<1>3. Total(due, C) = 0
  BY <1>2, FS_CardinalityType
<1>4. Total(due, Waiters(d)) = 0
  BY <1>1, TotalEmpty, Zenon
<1>5. d.used + Total(due, Waiters(d)) = Total(due, C) + 0
  BY <1>3, <1>4
<1>6. Orderly(d, due, C)
  BY DEF Orderly, Budget
<1>7. Len(d.waiting) <= MaxQueued /\ d.used <= Capacity /\ HeadWaits(d)
  BY DEF HeadWaits
<1> QED
  BY <1>1, <1>5, <1>6, <1>7 DEF Account, Balanced

LEMMA AccountEmpty ==
  ASSUME NEW b, NEW due, NEW C, Account(b, due, C, 0),
         \A c \in C : due[c] = 0, Waiters(b) = {}
  PROVE  b = Empty
<1>1. Orderly(b, due, C) /\ b.used + Total(due, Waiters(b)) = Total(due, C) + 0
        /\ IsFiniteSet(C) /\ Budget(b, C)
  BY DEF Account, Balanced, Orderly
<1>2. Total(due, C) = 0
  <2>1. Total(due, C) = 0 * Cardinality(C)
    BY <1>1, TotalConstant
  <2> QED
    BY <1>1, <2>1, FS_CardinalityType
<1>3. Total(due, Waiters(b)) = 0
  BY TotalEmpty, Zenon
<1>4. /\ b.used \in Int /\ Len(b.waiting) \in Nat
      /\ b = [used |-> b.used, waiting |-> b.waiting]
      /\ b.waiting \in Seq([who : C, bytes : Nat])
  BY <1>1, Places
<1>5. b.used = 0
  BY <1>1, <1>2, <1>3, <1>4
<1>6. b.waiting = <<>>
  <2>1. ASSUME Len(b.waiting) # 0 PROVE FALSE
    <3>1. 1 \in 1..Len(b.waiting)
      BY <1>4, <2>1
    <3>2. b.waiting[1].who \in Waiters(b)
      BY <3>1 DEF Waiters
    <3> QED
      BY <3>2
  <2> QED
    BY <1>4, <2>1, EmptySeq
<1> QED
  BY <1>4, <1>5, <1>6 DEF Empty

(* What is in use is what is due to those who do not wait, and the others.  *)
LEMMA InUseIs ==
  ASSUME NEW b, NEW due, NEW C, NEW other, Account(b, due, C, other)
  PROVE  b.used = Total(due, C \ Waiters(b)) + other
<1>1. /\ Orderly(b, due, C) /\ b.used + Total(due, Waiters(b)) = Total(due, C) + other
      /\ IsFiniteSet(C) /\ Budget(b, C) /\ other \in Int
  BY DEF Account, Balanced, Orderly
<1>2. /\ Waiters(b) \in SUBSET C /\ \A c \in C : due[c] \in Nat
      /\ Total(due, C) \in Nat /\ Total(due, Waiters(b)) \in Nat
  BY <1>1, Totals
<1>3. Total(due, C \ Waiters(b)) = Total(due, C) - Total(due, Waiters(b))
  BY <1>1, <1>2, TotalSubset
<1>4. b.used \in Int
  BY <1>1, Places
<1>5. other \in Int /\ b.used + Total(due, Waiters(b)) = Total(due, C) + other
  BY <1>1
<1> QED
  BY <1>2, <1>3, <1>4, <1>5
=============================================================================
