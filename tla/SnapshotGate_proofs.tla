------------------------ MODULE SnapshotGate_proofs ------------------------
(***************************************************************************)
(* What holds of SnapshotGate for any number of callers, any queue and any  *)
(* number of readers.                                                       *)
(***************************************************************************)
EXTENDS SnapshotGate, FiniteSetTheorems, SequenceTheorems, TLAPS

Readers == {c \in Client : Holds(c) /\ ~write[c]}

(* The queue holds those that wait, each once.                              *)
QueueExact ==
  /\ \A i, j \in 1..Len(queue) : queue[i] = queue[j] => i = j
  /\ \A i \in 1..Len(queue) : phase[queue[i]] = "waiting"

Safe == TypeOK /\ QueueExact /\ CountersExact /\ Exclusion /\ NoLostWakeup

(* The first n of the queue.                                                *)
First(n) == {queue[i] : i \in 1..n}

-----------------------------------------------------------------------------
(* Counting.                                                                *)

LEMMA ReadersFinite == IsFiniteSet(Readers) /\ Cardinality(Readers) \in Nat
<1>1. Readers \in SUBSET Client
  BY DEF Readers
<1> QED
  BY <1>1, FS_Subset, FS_CardinalityType, GateAssumption

LEMMA FirstCount ==
  ASSUME TypeOK, QueueExact, NEW n \in 0..Len(queue)
  PROVE  /\ IsFiniteSet(First(n)) /\ Cardinality(First(n)) = n
         /\ First(n) \subseteq Client
<1> DEFINE f == [i \in 1..n |-> queue[i]]
<1>1. \A i \in 1..n : queue[i] \in Client /\ i \in 1..Len(queue)
  BY DEF TypeOK
<1>2. f \in Bijection(1..n, First(n))
  <2>1. f \in [1..n -> First(n)]
    BY DEF First
  <2>2. \A i, j \in 1..n : f[i] = f[j] => i = j
    BY <1>1 DEF QueueExact
  <2>3. \A c \in First(n) : \E i \in 1..n : f[i] = c
    BY DEF First
  <2> QED
    BY <2>1, <2>2, <2>3 DEF Bijection, Injection, Surjection, IsInjective
<1>3. ExistsBijection(1..n, First(n))
  BY <1>2 DEF ExistsBijection
<1>4. IsFiniteSet(1..n) /\ Cardinality(1..n) = n
  BY FS_Interval
<1>5. IsFiniteSet(First(n)) /\ Cardinality(First(n)) = n
  BY <1>3, <1>4, FS_Bijection
<1> QED
  BY <1>1, <1>5 DEF First

(* Nobody reads exactly when the counter says so; a writer is never beside  *)
(* a reader.                                                                *)
LEMMA Idle ==
  ASSUME Safe
  PROVE  /\ readers = 0 <=> Readers = {}
         /\ writer => readers = 0
         /\ writer => \A c, d \in Client : Holds(c) /\ Holds(d) => c = d
<1>1. readers = Cardinality(Readers) /\ IsFiniteSet(Readers)
  BY ReadersFinite DEF Safe, CountersExact, Readers
<1>2. readers = 0 <=> Readers = {}
  BY <1>1, FS_EmptySet
<1>3. ASSUME writer
      PROVE  Readers = {} /\ \A c, d \in Client : Holds(c) /\ Holds(d) => c = d
  <2>1. PICK c \in Client : Holds(c) /\ write[c]
    BY <1>3 DEF Safe, CountersExact
  <2> QED
    BY <2>1 DEF Safe, Exclusion, Readers
<1> QED
  BY <1>2, <1>3

-----------------------------------------------------------------------------
(* Each action keeps the gate safe.                                         *)

LEMMA InitSafe == Init => Safe
<1> SUFFICES ASSUME Init
             PROVE  Safe
  OBVIOUS
<1>1. {c \in Client : Holds(c) /\ ~write[c]} = {}
  BY DEF Init, Holds
<1>2. CountersExact
  BY <1>1, FS_EmptySet DEF Init, CountersExact, Holds
<1>3. queue \in Seq(Client) /\ Len(queue) = 0
  BY DEF Init
<1>4. TypeOK
  <2>1. readers \in 0..MaxReaders /\ Len(queue) <= MaxQueued
    BY <1>3, GateAssumption DEF Init
  <2>2. /\ writer \in BOOLEAN /\ tokens \in SUBSET Client
        /\ phase \in [Client -> {"idle", "waiting", "started", "running"}]
        /\ write \in [Client -> BOOLEAN]
    BY DEF Init
  <2> QED
    BY <1>3, <2>1, <2>2 DEF TypeOK
<1>5. QueueExact
  BY <1>3 DEF QueueExact
<1> QED
  BY <1>2, <1>4, <1>5 DEF Safe, Init, Exclusion, Holds, NoLostWakeup

LEMMA CallSafe ==
  ASSUME Safe, NEW c \in Client, NEW w \in BOOLEAN, Call(c, w)
  PROVE  Safe'
<1> USE DEF Call, Holds
<1>0. \/ queue' = queue
      \/ /\ queue' \in Seq(Client) /\ Len(queue') = Len(queue) + 1
         /\ \A i \in 1..Len(queue) : queue'[i] = queue[i]
         /\ queue'[Len(queue) + 1] = c /\ phase'[c] = "waiting"
  <2>1. CASE StartsAtOnce(w)
    BY <2>1
  <2>2. CASE ~StartsAtOnce(w)
    <3>1. queue' = Append(queue, c) /\ phase'[c] = "waiting"
      BY <2>2 DEF Safe, TypeOK
    <3> QED
      BY <3>1, AppendProperties DEF Safe, TypeOK
  <2> QED
    BY <2>1, <2>2
<1>1. TypeOK'
  <2>1. readers' \in 0..MaxReaders /\ writer' \in BOOLEAN
    BY GateAssumption DEF Safe, TypeOK, StartsAtOnce
  <2>2. queue' \in Seq(Client) /\ Len(queue') <= MaxQueued
    BY <1>0, GateAssumption DEF Safe, TypeOK
  <2>3. /\ tokens' \in SUBSET Client
        /\ phase' \in [Client -> {"idle", "waiting", "started", "running"}]
        /\ write' \in [Client -> BOOLEAN]
    BY DEF Safe, TypeOK
  <2> QED
    BY <2>1, <2>2, <2>3 DEF TypeOK
<1>2. QueueExact'
  <2>1. \A i \in 1..Len(queue) : queue[i] \in Client /\ queue[i] # c
    BY DEF Safe, TypeOK, QueueExact
  <2>2. \A i \in 1..Len(queue) : phase'[queue[i]] = "waiting"
    BY <2>1 DEF Safe, TypeOK, QueueExact
  <2>3. CASE queue' = queue
    BY <2>2, <2>3 DEF Safe, QueueExact
  <2>4. CASE queue' # queue
    <3>1. Len(queue) \in Nat
      BY DEF Safe, TypeOK
    <3>2. \A i \in 1..Len(queue') : i \in 1..Len(queue) \/ i = Len(queue) + 1
      BY <1>0, <2>4, <3>1
    <3> QED
      BY <1>0, <2>1, <2>2, <2>4, <3>1, <3>2 DEF Safe, QueueExact
  <2> QED
    BY <2>3, <2>4
<1>3. CASE StartsAtOnce(w) /\ w
  <2>1. \A d \in Client : ~Holds(d)
    BY <1>3, Idle DEF StartsAtOnce, Safe, CountersExact, Readers
  <2>2. Readers' = Readers
    BY <1>3, <2>1 DEF Readers, Safe, TypeOK
  <2>3. CountersExact'
    BY <1>3, <2>1, <2>2 DEF Safe, TypeOK, CountersExact, Readers
  <2>4. Exclusion' /\ NoLostWakeup'
    BY <1>3, <2>1 DEF Safe, TypeOK, Exclusion, NoLostWakeup, StartsAtOnce
  <2> QED
    BY <1>1, <1>2, <2>3, <2>4 DEF Safe
<1>4. CASE StartsAtOnce(w) /\ ~w
  <2>1. Readers' = Readers \cup {c} /\ c \notin Readers
    BY <1>4 DEF Readers, Safe, TypeOK
  <2>2. Cardinality(Readers') = Cardinality(Readers) + 1
    BY <2>1, ReadersFinite, FS_AddElement
  <2>3. CountersExact'
    <3>1. writer' <=> \E d \in Client : Holds(d)' /\ write'[d]
      BY <1>4 DEF Safe, TypeOK, CountersExact, StartsAtOnce
    <3>2. readers' = Cardinality(Readers')
      BY <1>4, <2>2 DEF Safe, CountersExact, Readers
    <3>3. tokens' = {d \in Client : phase'[d] = "running"}
      BY <1>4 DEF Safe, TypeOK, CountersExact
    <3> QED
      BY <3>1, <3>2, <3>3 DEF CountersExact, Readers
  <2>4. Exclusion' /\ NoLostWakeup'
    BY <1>4 DEF Safe, TypeOK, CountersExact, Exclusion, NoLostWakeup, StartsAtOnce
  <2> QED
    BY <1>1, <1>2, <2>3, <2>4 DEF Safe
<1>5. CASE ~StartsAtOnce(w)
  <2>1. \A d \in Client : Holds(d)' = Holds(d) /\ (Holds(d) => write'[d] = write[d])
    BY <1>5 DEF Safe, TypeOK
  <2>2. Readers' = Readers
    BY <2>1 DEF Readers
  <2>3. CountersExact'
    <3>1. writer' <=> \E d \in Client : Holds(d)' /\ write'[d]
      BY <1>5, <2>1 DEF Safe, CountersExact
    <3>2. readers' = Cardinality(Readers')
      BY <1>5, <2>2 DEF Safe, CountersExact, Readers
    <3>3. tokens' = {d \in Client : phase'[d] = "running"}
      BY <1>5 DEF Safe, TypeOK, CountersExact
    <3> QED
      BY <3>1, <3>2, <3>3 DEF CountersExact, Readers
  <2>4. Exclusion'
    BY <2>1 DEF Safe, Exclusion
  <2>5. NoLostWakeup'
    <3>1. CASE queue = <<>>
      <4>1. queue'[1] = c /\ write'[c] = w
        BY <1>5, <3>1 DEF Safe, TypeOK
      <4>2. writer' = writer /\ readers' = readers
        BY <1>5
      <4> QED
        BY <1>5, <3>1, <4>1, <4>2, GateAssumption DEF Safe, TypeOK, NoLostWakeup, StartsAtOnce
    <3>2. CASE queue # <<>>
      <4>1. queue'[1] = queue[1] /\ queue[1] # c /\ queue[1] \in Client
        BY <1>5, <3>2 DEF Safe, TypeOK, QueueExact
      <4> QED
        BY <1>5, <3>2, <4>1 DEF Safe, TypeOK, NoLostWakeup
    <3> QED
      BY <3>1, <3>2
  <2> QED
    BY <1>1, <1>2, <2>3, <2>4, <2>5 DEF Safe
<1> QED
  BY <1>3, <1>4, <1>5

LEMMA ResumeSafe ==
  ASSUME Safe, NEW c \in Client, Resume(c)
  PROVE  Safe'
<1> USE DEF Resume, Holds
<1>1. TypeOK' /\ QueueExact'
  BY DEF Safe, TypeOK, QueueExact
<1>2. \A d \in Client : Holds(d)' = Holds(d)
  BY DEF Safe, TypeOK
<1>3. Readers' = Readers
  BY <1>2 DEF Readers
<1>4. CountersExact'
  <2>1. writer' <=> \E d \in Client : Holds(d)' /\ write'[d]
    BY <1>2 DEF Safe, CountersExact
  <2>2. readers' = Cardinality(Readers')
    BY <1>3 DEF Safe, CountersExact, Readers
  <2>3. tokens' = {d \in Client : phase'[d] = "running"}
    BY DEF Safe, TypeOK, CountersExact
  <2> QED
    BY <2>1, <2>2, <2>3 DEF CountersExact, Readers
<1> QED
  BY <1>1, <1>2, <1>4 DEF Safe, Exclusion, NoLostWakeup

(* End starts the first n of the queue, and they are readers beside the r   *)
(* that go on or a writer alone.                                            *)
LEMMA EndSafe ==
  ASSUME Safe, NEW c \in Client, End(c)
  PROVE  Safe'
<1> DEFINE r == IF write[c] THEN readers ELSE readers - 1
           w == writer /\ ~write[c]
<1>1. PICK n \in 0..Len(queue) :
        /\ Drains(n, r, w)
        /\ queue' = SubSeq(queue, n + 1, Len(queue))
        /\ writer' = (w \/ (n > 0 /\ write[queue[1]]))
        /\ readers' = IF n > 0 /\ write[queue[1]] THEN r ELSE r + n
        /\ phase' = [d \in Client |->
             CASE d = c -> "idle"
               [] d \in {queue[i] : i \in 1..n} -> "started"
               [] OTHER -> phase[d]]
  BY DEF End
<1>2. /\ phase[c] = "running" /\ Holds(c)
      /\ tokens' = tokens \ {c} /\ write' = write
  BY DEF End, Holds
<1>3. /\ Len(queue) \in Nat /\ n \in Nat /\ n <= Len(queue)
      /\ readers \in Nat /\ readers <= MaxReaders /\ MaxReaders \in Nat
      /\ \A i \in 1..Len(queue) : queue[i] \in Client
  BY GateAssumption DEF Safe, TypeOK
<1>4. /\ IsFiniteSet(First(n)) /\ Cardinality(First(n)) = n
      /\ First(n) \subseteq Client
  BY FirstCount DEF Safe
<1>5. \A d \in First(n) : phase[d] = "waiting" /\ d # c /\ ~Holds(d)
  BY <1>2, <1>3 DEF Safe, QueueExact, First, Holds
<1>6. \A d \in Client : Holds(d)' <=> (d # c /\ Holds(d)) \/ d \in First(n)
  BY <1>1, <1>4, <1>5 DEF Holds, First
<1>7. /\ r = Cardinality(Readers \ {c}) /\ IsFiniteSet(Readers \ {c})
      /\ r \in Nat /\ r <= MaxReaders
  <2>1. c \in Readers <=> ~write[c]
    BY <1>2 DEF Readers
  <2>2. readers = Cardinality(Readers)
    BY DEF Safe, CountersExact, Readers
  <2>3. /\ IsFiniteSet(Readers \ {c}) /\ IsFiniteSet(Readers)
        /\ Cardinality(Readers \ {c}) =
             IF c \in Readers THEN Cardinality(Readers) - 1 ELSE Cardinality(Readers)
    BY ReadersFinite, FS_RemoveElement
  <2>4. r = Cardinality(Readers \ {c})
    BY <2>1, <2>2, <2>3
  <2>5. r \in Nat
    BY <2>3, <2>4, FS_CardinalityType
  <2> QED
    BY <1>3, <2>3, <2>4, <2>5
<1>8. /\ Len(queue') = Len(queue) - n /\ queue' \in Seq(Client)
      /\ \A i \in 1..Len(queue') : queue'[i] = queue[n + i]
  <2>1. \A i \in (n + 1)..Len(queue) : queue[i] \in Client
    BY <1>3
  <2>2. /\ queue' \in Seq(Client)
        /\ Len(queue') = IF n + 1 <= Len(queue) THEN Len(queue) - (n + 1) + 1 ELSE 0
        /\ \A i \in 1..(Len(queue) - (n + 1) + 1) : queue'[i] = queue[(n + 1) + i - 1]
    BY <1>1, <1>3, <2>1, SubSeqProperties
  <2>3. Len(queue') = Len(queue) - n
    BY <1>3, <2>2
  <2>4. \A i \in 1..Len(queue') : queue'[i] = queue[n + i]
    BY <1>3, <2>2, <2>3
  <2> QED
    BY <2>2, <2>3, <2>4
<1>9. n > 0 => /\ ~w
               /\ \/ n = 1 /\ write[queue[1]] /\ r = 0
                  \/ r + n <= MaxReaders /\ \A i \in 1..n : ~write[queue[i]]
  BY <1>1 DEF Drains, CanStart
<1>10. /\ n > 0 /\ write[queue[1]] => /\ n = 1 /\ r = 0 /\ ~w
                                      /\ First(n) = {queue[1]}
       /\ ~(n > 0 /\ write[queue[1]]) => /\ r + n <= MaxReaders
                                         /\ \A d \in First(n) : ~write[d]
  <2>1. 1 \in 1..1 /\ (n > 0 => 1 \in 1..n)
    BY <1>3
  <2>2. CASE n > 0 /\ write[queue[1]]
    BY <1>9, <2>1, <2>2 DEF First
  <2>3. CASE n = 0
    BY <1>7, <2>3 DEF First
  <2>4. CASE n > 0 /\ ~write[queue[1]]
    BY <1>9, <2>1, <2>4 DEF First
  <2> QED
    BY <1>3, <2>2, <2>3, <2>4
<1>11. w <=> \E d \in Client : d # c /\ Holds(d) /\ write[d]
  BY <1>2 DEF Safe, CountersExact, Exclusion
<1>12. TypeOK'
  <2>1. readers' \in 0..MaxReaders
    BY <1>1, <1>3, <1>7, <1>10
  <2>2. queue' \in Seq(Client) /\ Len(queue') <= MaxQueued
    BY <1>3, <1>8, GateAssumption DEF Safe, TypeOK
  <2>3. phase' \in [Client -> {"idle", "waiting", "started", "running"}]
    BY <1>1 DEF Safe, TypeOK
  <2>4. writer' \in BOOLEAN /\ tokens' \in SUBSET Client /\ write' \in [Client -> BOOLEAN]
    BY <1>1, <1>2, <1>11 DEF Safe, TypeOK
  <2> QED
    BY <2>1, <2>2, <2>3, <2>4 DEF TypeOK
<1>13. QueueExact'
  <2>1. \A i \in 1..Len(queue') : n + i \in 1..Len(queue) /\ n + i \notin 1..n
    BY <1>3, <1>8
  <2>2. \A i, j \in 1..Len(queue') : queue'[i] = queue'[j] => i = j
    BY <1>3, <1>8, <2>1 DEF Safe, QueueExact
  <2>3. \A i \in 1..Len(queue') : queue'[i] \notin First(n)
    BY <1>3, <1>8, <2>1 DEF Safe, QueueExact, First
  <2>4. \A i \in 1..Len(queue') : queue'[i] \in Client /\ phase[queue'[i]] = "waiting"
    BY <1>3, <1>8, <2>1 DEF Safe, QueueExact
  <2>5. \A i \in 1..Len(queue') : phase'[queue'[i]] = "waiting"
    BY <1>1, <1>2, <2>3, <2>4 DEF First
  <2> QED
    BY <2>2, <2>5 DEF QueueExact
<1>14. CountersExact'
  <2>1. writer' <=> \E d \in Client : Holds(d)' /\ write'[d]
    <3>1. CASE n > 0 /\ write[queue[1]]
      BY <1>1, <1>2, <1>4, <1>6, <1>10, <3>1
    <3>2. CASE ~(n > 0 /\ write[queue[1]])
      BY <1>1, <1>2, <1>6, <1>10, <1>11, <3>2
    <3> QED
      BY <3>1, <3>2
  <2>2. readers' = Cardinality(Readers')
    <3>1. CASE n > 0 /\ write[queue[1]]
      <4>1. Readers' = Readers \ {c}
        BY <1>2, <1>4, <1>6, <1>10, <3>1 DEF Readers
      <4> QED
        BY <1>1, <1>7, <3>1, <4>1
    <3>2. CASE ~(n > 0 /\ write[queue[1]])
      <4>1. Readers' = (Readers \ {c}) \cup First(n)
        BY <1>2, <1>4, <1>6, <1>10, <3>2 DEF Readers
      <4>2. (Readers \ {c}) \cap First(n) = {}
        BY <1>5 DEF Readers
      <4>3. Cardinality(Readers') = r + n - Cardinality((Readers \ {c}) \cap First(n))
        BY <1>4, <1>7, <4>1, FS_Union
      <4>4. Cardinality((Readers \ {c}) \cap First(n)) = 0
        BY <4>2, FS_EmptySet
      <4> HIDE DEF r
      <4>5. Cardinality(Readers') = r + n
        BY <1>3, <1>7, <4>3, <4>4
      <4> QED
        BY <1>1, <3>2, <4>5
    <3> QED
      BY <3>1, <3>2
  <2>3. tokens' = {d \in Client : phase'[d] = "running"}
    <3>1. \A d \in Client : phase'[d] = "running" <=> d # c /\ phase[d] = "running"
      BY <1>1, <1>5 DEF First
    <3> QED
      BY <1>2, <3>1 DEF Safe, CountersExact
  <2> QED
    BY <2>1, <2>2, <2>3 DEF CountersExact, Readers
<1>15. Exclusion'
  <2>1. CASE n > 0 /\ write[queue[1]]
    <3>1. Readers \ {c} = {}
      BY <1>7, <1>10, <2>1, FS_EmptySet
    <3>2. \A d \in Client : d # c => ~Holds(d)
      BY <1>10, <1>11, <2>1, <3>1 DEF Readers
    <3> QED
      BY <1>6, <1>10, <2>1, <3>2 DEF Exclusion
  <2>2. CASE n = 0
    BY <1>2, <1>6, <2>2 DEF Safe, Exclusion, First
  <2>3. CASE n > 0 /\ ~write[queue[1]]
    BY <1>2, <1>6, <1>9, <1>10, <1>11, <2>3 DEF Exclusion
  <2> QED
    BY <1>3, <2>1, <2>2, <2>3
<1>16. NoLostWakeup'
  <2>1. CASE queue' = <<>> \/ w \/ (n > 0 /\ write[queue[1]])
    BY <1>1, <2>1 DEF NoLostWakeup
  <2>2. CASE queue' # <<>> /\ ~w /\ ~(n > 0 /\ write[queue[1]])
    <3>1. Len(queue') \in Nat \ {0}
      BY <1>8, <2>2, EmptySeq
    <3>2. n < Len(queue) /\ queue'[1] = queue[n + 1]
      BY <1>3, <1>8, <3>1
    <3>3. /\ ~(n + 1 = 1 /\ write[queue[1]] /\ r = 0)
          /\ ~(r + (n + 1) <= MaxReaders /\ \A i \in 1..(n + 1) : ~write[queue[i]])
      BY <1>1, <2>2, <3>2 DEF Drains, CanStart
    <3>4. readers' = r + n
      BY <1>1, <2>2
    <3>5. CASE write[queue[n + 1]]
      <4>1. r + n > 0
        BY <1>3, <1>7, <3>3, <3>5
      <4> QED
        BY <1>2, <3>2, <3>4, <3>5, <4>1 DEF NoLostWakeup
    <3>6. CASE ~write[queue[n + 1]]
      <4>1. \A i \in 1..n : ~write[queue[i]]
        BY <1>3, <1>10, <2>2 DEF First
      <4>2. \A i \in 1..(n + 1) : ~write[queue[i]]
        BY <1>3, <3>6, <4>1
      <4>3. r + n = MaxReaders
        BY <1>3, <1>7, <1>10, <2>2, <3>3, <4>2
      <4> QED
        BY <1>2, <3>2, <3>4, <3>6, <4>3 DEF NoLostWakeup
    <3> QED
      BY <3>5, <3>6
  <2> QED
    BY <2>1, <2>2
<1> QED
  BY <1>12, <1>13, <1>14, <1>15, <1>16 DEF Safe

-----------------------------------------------------------------------------
(* The invariant: what the gate keeps exact, whoever calls and ends.         *)
THEOREM SafeInvariant == Spec => []Safe
<1>1. Safe /\ [Next]_vars => Safe'
  <2> SUFFICES ASSUME Safe, [Next]_vars
               PROVE  Safe'
    OBVIOUS
  <2>1. ASSUME NEW c \in Client, NEW w \in BOOLEAN, Call(c, w)
        PROVE  Safe'
    BY <2>1, CallSafe
  <2>2. ASSUME NEW c \in Client, Resume(c)
        PROVE  Safe'
    BY <2>2, ResumeSafe
  <2>3. ASSUME NEW c \in Client, End(c)
        PROVE  Safe'
    BY <2>3, EndSafe
  <2>4. CASE UNCHANGED vars
    BY <2>4 DEF vars, Safe, TypeOK, QueueExact, CountersExact, Exclusion,
                NoLostWakeup, Holds
  <2> QED
    BY <2>1, <2>2, <2>3, <2>4 DEF Next
<1> QED
  BY <1>1, InitSafe, PTL DEF Spec

(* Every counter, queue entry and token has its type, and the bounds on     *)
(* queue and readers are kept.                                              *)
THEOREM TypeCorrect == Spec => []TypeOK
BY SafeInvariant, PTL DEF Safe

(* A started writer is alone from its start to its end.                     *)
THEOREM WritersAlone == Spec => []Exclusion
BY SafeInvariant, PTL DEF Safe

(* The counters stand for the calls that hold the gate, and the active      *)
(* tokens are those of the operations that run.                             *)
THEOREM CountersCorrect == Spec => []CountersExact
BY SafeInvariant, PTL DEF Safe

(* The first of the queue waits only while a holder is in its way.          *)
THEOREM WakeupsArrive == Spec => []NoLostWakeup
BY SafeInvariant, PTL DEF Safe

(* Who waits is not passed by a later caller.                               *)
THEOREM QueueOrderKept == Spec => NoOvertaking
<1> DEFINE Passed ==
      \A i \in 1..Len(queue) :
        phase'[queue[i]] = "waiting" =>
          \A d \in Client : ~Holds(d) /\ Holds(d)' =>
            \E k \in 1..(i - 1) : queue[k] = d
<1>1. Safe /\ [Next]_vars => [Passed]_vars
  <2> SUFFICES ASSUME Safe, Next
               PROVE  Passed
    OBVIOUS
  <2>1. ASSUME NEW c \in Client, NEW w \in BOOLEAN, Call(c, w)
        PROVE  Passed
    <3>1. CASE StartsAtOnce(w)
      BY <3>1, EmptySeq DEF StartsAtOnce
    <3>2. CASE ~StartsAtOnce(w)
      BY <2>1, <3>2 DEF Call, Holds, Safe, TypeOK
    <3> QED
      BY <3>1, <3>2
  <2>2. ASSUME NEW c \in Client, Resume(c)
        PROVE  Passed
    BY <2>2 DEF Resume, Holds, Safe, TypeOK
  <2>3. ASSUME NEW c \in Client, End(c)
        PROVE  Passed
    <3>1. PICK n \in 0..Len(queue) :
            phase' = [d \in Client |->
              CASE d = c -> "idle"
                [] d \in {queue[i] : i \in 1..n} -> "started"
                [] OTHER -> phase[d]]
      BY <2>3 DEF End
    <3>2. ASSUME NEW i \in 1..Len(queue), phase'[queue[i]] = "waiting"
          PROVE  i > n
      <4>1. queue[i] \in Client
        BY DEF Safe, TypeOK
      <4> QED
        BY <3>1, <3>2, <4>1
    <3>3. ASSUME NEW d \in Client, ~Holds(d), Holds(d)'
          PROVE  \E k \in 1..n : queue[k] = d
      BY <3>1, <3>3 DEF Holds
    <3> QED
      BY <3>2, <3>3
  <2> QED
    BY <2>1, <2>2, <2>3 DEF Next
<1> QED
  BY <1>1, SafeInvariant, PTL DEF Spec, NoOvertaking
=============================================================================
