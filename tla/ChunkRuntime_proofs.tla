------------------------ MODULE ChunkRuntime_proofs ------------------------
(***************************************************************************)
(* Whatever the planner wants, however batches, views, meshes and workers   *)
(* interleave and fail, pins are exact, what is called stored is held by    *)
(* every worker, everyone who waits is waited for by somebody, what is      *)
(* displayed as clean is current, and no wanted chunk is left behind.       *)
(*                                                                          *)
(* Sound says so of a state; the methods of ChunkState keep it.  Most of    *)
(* them only take back what the runtime was about to do (Calmer), and are   *)
(* dealt with together.                                                     *)
(***************************************************************************)
EXTENDS ChunkInvariant, Sums_proofs, SequenceTheorems

-----------------------------------------------------------------------------
(* States and their parts.                                                  *)

LEMMA StateParts ==
  ASSUME NEW s \in StateType
  PROVE  /\ \A k \in Chunk : Has(s, k) => s.chunks[k] \in EntryType
         /\ \A j \in JobId : s.jobs[j] # Nothing => s.jobs[j] \in JobType
         /\ \A k \in Chunk : ~Has(s, k) => s.chunks[k] = Nothing
         /\ s.chunks \in [Chunk -> OrNone(EntryType)]
         /\ s.jobs \in [JobId -> OrNone(JobType)]
         /\ s.hashQ \subseteq Chunk /\ s.fetchQ \subseteq Chunk
         /\ s.demand \in [Chunk -> Kind \cup {"none", "stale"}] /\ s.up \in BOOLEAN
         /\ s.column \in [Worker -> Columns(Chunk)]
         /\ s.reply \in [Worker -> Seq(MessageType)]
BY DEF StateType, OrNone, Has

LEMMA EntryParts ==
  ASSUME NEW e \in EntryType
  PROVE  /\ e # Nothing
         /\ e.dig \in OrNone(Content) /\ e.res \in OrNone(Views)
         /\ e.req \in OrNone(BatchId) /\ e.mask \subseteq Worker
         /\ e.pins \in Nat /\ e.pend \in OrNone(JobId)
         /\ e.readyDig \in OrNone(Content) /\ e.dirty \in BOOLEAN
         /\ e.shown \in OrNone([kind : Kind, from : From])
BY NothingAssumption DEF EntryType

LEMMA JobParts ==
  ASSUME NEW x \in JobType
  PROVE  /\ x # Nothing
         /\ x.chunk \in OrNone(Chunk) /\ x.kind \in Kind
         /\ x.phase \in {"cache", "waiting", "worker"}
         /\ x.worker \in OrNone(Worker) /\ x.deps \subseteq Chunk
         /\ x.parts \in OrNone(AllParts)
BY NothingAssumption DEF JobType

LEMMA Counting ==
  ASSUME NEW s, NEW k
  PROVE  IsFiniteSet(Users(s, k)) /\ Cardinality(Users(s, k)) \in Nat
<1>1. Users(s, k) \subseteq JobId
  BY DEF Users
<1> QED
  BY <1>1, ChunkStateAssumption, FS_Subset, FS_CardinalityType

-----------------------------------------------------------------------------
(* Steps that only take back.                                               *)

LEMMA CalmerSelf ==
  ASSUME NEW s \in StateType, NEW X PROVE Calmer(s, s, X)
BY DEF Calmer, SameJob, Kept, Still

LEMMA CalmerMore ==
  ASSUME NEW s, NEW t, NEW X, NEW Y, Calmer(s, t, X), X \subseteq Y
  PROVE  Calmer(s, t, Y)
BY DEF Calmer

LEMMA CalmerAll ==
  ASSUME NEW s, NEW t, NEW X, Calmer(s, t, {})
  PROVE  Calmer(s, t, X)
<1>1. {} \subseteq X
  OBVIOUS
<1> QED
  BY <1>1, CalmerMore

LEMMA CalmerThen ==
  ASSUME NEW s, NEW t, NEW u, NEW X, Calmer(s, t, X), Calmer(t, u, X)
  PROVE  Calmer(s, u, X)
<1>1. u \in StateType /\ u.reply = s.reply
  BY DEF Calmer
<1>2. ASSUME NEW j \in JobId PROVE SameJob(s, u, j)
  <2>1. SameJob(s, t, j) /\ SameJob(t, u, j)
    BY DEF Calmer
  <2> QED
    BY <2>1 DEF SameJob
<1>3. ASSUME NEW k \in Chunk PROVE Kept(s, u, k)
  <2>1. Kept(s, t, k) /\ Kept(t, u, k)
    BY DEF Calmer
  <2> QED
    BY <2>1 DEF Kept
<1>4. ASSUME NEW k \in Chunk \ X PROVE Still(s, u, k)
  <2>1. Kept(s, t, k) /\ Still(s, t, k) /\ Still(t, u, k)
    BY DEF Calmer
  <2> QED
    BY <2>1 DEF Still, Kept
<1> QED
  BY <1>1, <1>2, <1>3, <1>4 DEF Calmer

(* A chunk that has settled has begun nothing. *)
LEMMA Settled ==
  ASSUME NEW s, NEW t, NEW k, Calmer(s, t, {k}),
         t.chunks[k].st \notin {"decoding", "stored", "resolving", "fetching"}
  PROVE  Calmer(s, t, {})
<1>1. \A n \in Chunk : n # k => Still(s, t, n)
  BY DEF Calmer
<1>2. Still(s, t, k)
  BY DEF Still
<1> QED
  BY <1>1, <1>2 DEF Calmer

LEMMA CalmerWaits ==
  ASSUME NEW s, NEW t, Calmer(s, t, {})
  PROVE  NoNewWaits(s, t)
<1> SUFFICES ASSUME NEW k \in Chunk, Waits(t, k)
             PROVE  /\ Waits(s, k) /\ t.chunks[k].st = s.chunks[k].st
                    /\ t.chunks[k].req = s.chunks[k].req
                    /\ t.chunks[k].res = Nothing => s.chunks[k].res = Nothing
  BY DEF NoNewWaits
<1>1. Kept(s, t, k) /\ Still(s, t, k)
  BY DEF Calmer
<1> QED
  BY <1>1 DEF Kept, Still, Waits

LEMMA FlowsKeep ==
  ASSUME NEW s \in StateType, NEW t, NEW X, Pinned(s), Held(s), Pending(s), Tasks(s),
         Calmer(s, t, X), \A k \in Chunk : k \in X => Flows(s, t, k)
  PROVE  /\ t \in StateType /\ Pinned(t) /\ Held(t) /\ Pending(t) /\ Tasks(t)
         /\ Due(s) => Due(t)
<1>1. s \in StateType /\ t \in StateType /\ t.reply = s.reply
  BY DEF Calmer
<1>0. \A k \in Chunk : Kept(s, t, k) /\ Flows(s, t, k)
  <2> SUFFICES ASSUME NEW k \in Chunk PROVE Kept(s, t, k) /\ Flows(s, t, k)
    OBVIOUS
  <2>1. Kept(s, t, k) /\ (k \notin X => Still(s, t, k))
    BY DEF Calmer
  <2> QED
    BY <2>1 DEF Still, Flows
<1>2. Pinned(t)
  <2> SUFFICES ASSUME NEW k \in Chunk
               PROVE  IF Has(t, k) THEN t.chunks[k].pins = Cardinality(Users(t, k))
                      ELSE Users(t, k) = {}
    BY DEF Pinned
  <2>1. Users(t, k) = Users(s, k)
    <3>1. \A j \in JobId : SameJob(s, t, j)
      BY DEF Calmer
    <3> QED
      BY <3>1 DEF Users, SameJob
  <2>2. Kept(s, t, k)
    BY DEF Calmer
  <2>3. IF Has(s, k) THEN s.chunks[k].pins = Cardinality(Users(s, k))
        ELSE Users(s, k) = {}
    BY DEF Pinned
  <2> QED
    BY <2>1, <2>2, <2>3 DEF Kept
<1>3. Held(t)
  <2> SUFFICES ASSUME NEW k \in Chunk, Has(t, k), t.chunks[k].st \in {"decoding", "stored"}
               PROVE  /\ t.chunks[k].st = "stored" => t.chunks[k].dig \notin Malformed
                      /\ t.chunks[k].dig \notin Malformed =>
                           \A w \in Worker : t.column[w][k] = t.chunks[k].dig
    BY DEF Held
  <2>1. Kept(s, t, k) /\ Flows(s, t, k)
    BY <1>0
  <2> QED
    BY <2>1 DEF Kept, Flows, Held
<1>4. ASSUME Due(s) PROVE Due(t)
  <2> SUFFICES ASSUME NEW k \in Chunk, Has(t, k), t.chunks[k].st = "decoding",
                      NEW w \in Worker \ t.chunks[k].mask
               PROVE  \E i \in 1..Len(t.reply[w]) : Answers(t, w, i, k, t.chunks[k].dig)
    BY DEF Due
  <2>1. Kept(s, t, k) /\ Flows(s, t, k)
    BY <1>0
  <2>2. \E i \in 1..Len(s.reply[w]) : Answers(s, w, i, k, s.chunks[k].dig)
    BY <1>4, <2>1 DEF Kept, Flows, Due
  <2>3. t.chunks[k].dig = s.chunks[k].dig
    BY <2>1 DEF Kept, Flows
  <2> QED
    BY <1>1, <2>2, <2>3 DEF Answers
<1>5. Pending(t)
  <2> SUFFICES ASSUME NEW k \in Chunk, Has(t, k), t.chunks[k].pend # Nothing
               PROVE  /\ t.jobs[t.chunks[k].pend] # Nothing
                      /\ t.jobs[t.chunks[k].pend].chunk = k
    BY DEF Pending
  <2>1. Kept(s, t, k)
    BY DEF Calmer
  <2>2. Has(s, k) /\ s.chunks[k].pend # Nothing /\ t.chunks[k].pend = s.chunks[k].pend
    BY <2>1 DEF Kept
  <2>3. s.chunks[k].pend \in JobId
    BY <1>1, <2>2, StateParts, EntryParts DEF OrNone
  <2>4. SameJob(s, t, s.chunks[k].pend)
    BY <2>3 DEF Calmer
  <2> QED
    BY <2>2, <2>4 DEF SameJob, Pending
<1>6. Tasks(t)
  <2>1. \A j \in JobId : SameJob(s, t, j)
    BY DEF Calmer
  <2>2. \A w \in Worker : \A i \in 1..Len(t.reply[w]) : EndsTask(t, w, i) =>
          EndsTask(s, w, i) /\ t.reply[w][i] = s.reply[w][i] /\ t.reply[w][i].job \in JobId
    <3> SUFFICES ASSUME NEW w \in Worker, NEW i \in 1..Len(t.reply[w]), EndsTask(t, w, i)
                 PROVE  t.reply[w][i].job \in JobId
      BY <1>1 DEF EndsTask
    <3>1. t.reply[w][i] \in MessageType
      BY <1>1, StateParts
    <3> QED
      BY <3>1 DEF MessageType, EndsTask
  <2>3. Tasks(s)
    BY SMTT(30)
  <2>4. ASSUME NEW w \in Worker, NEW i \in 1..Len(t.reply[w]), EndsTask(t, w, i)
        PROVE  Runs(t, w, i) /\ Alone(t, w, i)
    <3>1. EndsTask(s, w, i) /\ t.reply[w] = s.reply[w] /\ s.reply[w][i].job \in JobId
      BY <1>1, <2>2, <2>4
    <3>2. SameJob(s, t, s.reply[w][i].job)
      BY <2>1, <3>1
    <3>3. i \in 1..Len(s.reply[w])
      BY <3>1 DEF EndsTask
    <3>4. Runs(s, w, i) /\ Alone(s, w, i)
      BY <2>3, <3>1, <3>3 DEF Tasks
    <3>5. Alone(t, w, i)
      BY <3>1, <3>4 DEF EndsTask, Alone
    <3> QED
      BY <3>1, <3>2, <3>4, <3>5 DEF Runs, TaskOf, SameJob
  <2>5. \A j \in JobId : t.jobs[j] # Nothing /\ t.jobs[j].phase # "worker" =>
          t.jobs[j].deps = {}
    BY <2>1, <2>3 DEF Tasks, SameJob
  <2> QED
    BY <2>4, <2>5 DEF Tasks
<1> QED
  BY <1>1, <1>2, <1>3, <1>4, <1>5, <1>6

LEMMA FlowsSound ==
  ASSUME NEW s, NEW t, NEW X, Sound(s), Calmer(s, t, X),
         \A k \in Chunk : k \in X => Flows(s, t, k)
  PROVE  Sound(t)
BY FlowsKeep DEF Sound

LEMMA CalmerSound ==
  ASSUME NEW s, NEW t, Sound(s), Calmer(s, t, {})
  PROVE  Moves(s, t)
BY CalmerWaits, FlowsSound DEF Moves

LEMMA MovesThen ==
  ASSUME NEW s, NEW t, NEW u, Moves(s, t), Moves(t, u)
  PROVE  Moves(s, u)
BY DEF Moves, NoNewWaits

-----------------------------------------------------------------------------
(* The methods that only take back.                                         *)

LEMMA PutEntry ==
  ASSUME NEW s \in StateType, NEW k \in Chunk, NEW e \in OrNone(EntryType), NEW t,
         t = Put(s, k, e)
  PROVE  /\ t \in StateType /\ t.chunks[k] = e
         /\ \A n \in Chunk : n # k => t.chunks[n] = s.chunks[n]
         /\ t.jobs = s.jobs /\ t.column = s.column /\ t.reply = s.reply
         /\ t.up = s.up /\ t.demand = s.demand
         /\ t.hashQ = s.hashQ /\ t.fetchQ = s.fetchQ
BY DEF StateType, Put

LEMMA EntryCalmer ==
  ASSUME NEW s \in StateType, NEW k \in Chunk, Has(s, k), NEW e \in EntryType, NEW t,
         t = Put(s, k, e),
         e.pins = s.chunks[k].pins, e.pend \in {s.chunks[k].pend, Nothing}
  PROVE  /\ Calmer(s, t, {k}) /\ t \in StateType /\ Has(t, k) /\ t.chunks[k] = e
         /\ t.column = s.column /\ t.reply = s.reply /\ t.up = s.up /\ t.jobs = s.jobs
<1>1. e \in OrNone(EntryType) /\ e # Nothing
  BY EntryParts DEF OrNone
<1>2. /\ t \in StateType /\ t.chunks[k] = e
      /\ \A n \in Chunk : n # k => t.chunks[n] = s.chunks[n]
      /\ t.jobs = s.jobs /\ t.column = s.column /\ t.reply = s.reply /\ t.up = s.up
  BY <1>1, PutEntry
<1>3. \A n \in Chunk : Kept(s, t, n)
  BY <1>1, <1>2 DEF Kept, Has
<1>4. \A n \in Chunk \ {k} : Still(s, t, n)
  BY <1>2 DEF Still
<1>5. \A j \in JobId : SameJob(s, t, j)
  BY <1>2 DEF SameJob
<1> QED
  BY <1>1, <1>2, <1>3, <1>4, <1>5 DEF Calmer, Has

(* An entry whose work goes on, or which has settled, has begun nothing. *)
LEMMA EntryStill ==
  ASSUME NEW s \in StateType, NEW k \in Chunk, Has(s, k), NEW e \in EntryType, NEW t,
         t = Put(s, k, e),
         e.pins = s.chunks[k].pins, e.pend \in {s.chunks[k].pend, Nothing},
         e.st \in {"decoding", "stored"} =>
           e.st = s.chunks[k].st /\ e.dig = s.chunks[k].dig /\ e.mask = s.chunks[k].mask,
         e.st \in {"resolving", "fetching"} =>
           /\ e.st = s.chunks[k].st /\ e.req = s.chunks[k].req
           /\ e.res = Nothing => s.chunks[k].res = Nothing
  PROVE  /\ Calmer(s, t, {}) /\ t \in StateType /\ Has(t, k) /\ t.chunks[k] = e
         /\ t.up = s.up /\ t.jobs = s.jobs
<1>1. /\ Calmer(s, t, {k}) /\ t \in StateType /\ Has(t, k) /\ t.chunks[k] = e
      /\ t.column = s.column /\ t.up = s.up /\ t.jobs = s.jobs
  BY EntryCalmer
<1>2. Still(s, t, k)
  BY <1>1 DEF Still
<1> QED
  BY <1>1, <1>2 DEF Calmer

LEMMA QueuesCalmer ==
  ASSUME NEW s \in StateType, NEW t \in StateType, NEW X,
         t.chunks = s.chunks, t.jobs = s.jobs, t.column = s.column, t.reply = s.reply
  PROVE  Calmer(s, t, X)
BY DEF Calmer, SameJob, Kept, Still, Has

LEMMA EnqueueCalmer ==
  ASSUME NEW s \in StateType, NEW k \in Chunk, NEW X
  PROVE  /\ Calmer(s, EnqueueHash(s, k), X) /\ EnqueueHash(s, k).chunks = s.chunks
         /\ Calmer(s, EnqueueFetch(s, k), X) /\ EnqueueFetch(s, k).chunks = s.chunks
<1> DEFINE h == [s EXCEPT !.hashQ = @ \cup {k}]
           f == [s EXCEPT !.fetchQ = @ \cup {k}]
<1>1. /\ h \in StateType /\ h.chunks = s.chunks /\ h.jobs = s.jobs
      /\ h.column = s.column /\ h.reply = s.reply
  BY DEF StateType
<1>2. /\ f \in StateType /\ f.chunks = s.chunks /\ f.jobs = s.jobs
      /\ f.column = s.column /\ f.reply = s.reply
  BY DEF StateType
<1>3. EnqueueHash(s, k) \in {s, h} /\ EnqueueFetch(s, k) \in {s, f}
  BY DEF EnqueueHash, EnqueueFetch
<1> HIDE DEF h, f
<1>4. Calmer(s, s, X) /\ Calmer(s, h, X) /\ Calmer(s, f, X)
  BY <1>1, <1>2, QueuesCalmer, CalmerSelf
<1> QED
  BY <1>1, <1>2, <1>3, <1>4

LEMMA MarkDirtyCalmer ==
  ASSUME NEW s \in StateType, NEW K, \A k \in K : k \in Chunk /\ Has(s, k), NEW X
  PROVE  /\ Calmer(s, MarkDirty(s, K), X)
         /\ \A k \in Chunk : Has(s, k) =>
              MarkDirty(s, K).chunks[k] \in {s.chunks[k], [s.chunks[k] EXCEPT !.dirty = TRUE]}
         /\ MarkDirty(s, K).up = s.up /\ MarkDirty(s, K).column = s.column
<1> DEFINE s1 == EachEntry(s, K, LAMBDA e : [e EXCEPT !.dirty = TRUE])
           J == {j \in JobsOf(s1) : s1.jobs[j].chunk \in K}
           t == EachJob(s1, J, LAMBDA job : [job EXCEPT !.clean = FALSE])
<1>1. t = MarkDirty(s, K)
  BY DEF MarkDirty
<1>2. /\ s1.chunks = [k \in Chunk |-> IF k \in K THEN [s.chunks[k] EXCEPT !.dirty = TRUE]
                                      ELSE s.chunks[k]]
      /\ s1.jobs = s.jobs /\ s1.column = s.column /\ s1.reply = s.reply /\ s1.up = s.up
      /\ s1.demand = s.demand /\ s1.hashQ = s.hashQ /\ s1.fetchQ = s.fetchQ
      /\ s1 = [s EXCEPT !.chunks = s1.chunks]
  BY DEF EachEntry, StateType
<1>3. /\ t.jobs = [j \in JobId |-> IF j \in J THEN [s.jobs[j] EXCEPT !.clean = FALSE]
                                   ELSE s.jobs[j]]
      /\ t.chunks = s1.chunks /\ t.column = s.column /\ t.reply = s.reply /\ t.up = s.up
      /\ t.demand = s.demand /\ t.hashQ = s.hashQ /\ t.fetchQ = s.fetchQ
      /\ t = [s EXCEPT !.chunks = s1.chunks, !.jobs = t.jobs]
  BY <1>2 DEF EachJob, StateType
<1>4. \A j \in J : j \in JobId /\ s.jobs[j] \in JobType
  BY <1>2, StateParts DEF JobsOf
<1> HIDE DEF s1, J, t
<1>5. ASSUME NEW k \in K
      PROVE  /\ [s.chunks[k] EXCEPT !.dirty = TRUE] \in EntryType
             /\ [s.chunks[k] EXCEPT !.dirty = TRUE].pins = s.chunks[k].pins
             /\ [s.chunks[k] EXCEPT !.dirty = TRUE].pend = s.chunks[k].pend
             /\ [s.chunks[k] EXCEPT !.dirty = TRUE].st = s.chunks[k].st
             /\ [s.chunks[k] EXCEPT !.dirty = TRUE].dig = s.chunks[k].dig
             /\ [s.chunks[k] EXCEPT !.dirty = TRUE].mask = s.chunks[k].mask
             /\ [s.chunks[k] EXCEPT !.dirty = TRUE].req = s.chunks[k].req
             /\ [s.chunks[k] EXCEPT !.dirty = TRUE].res = s.chunks[k].res
  <2>1. s.chunks[k] \in EntryType
    BY StateParts
  <2> QED
    BY <2>1 DEF EntryType
<1>6. ASSUME NEW j \in J
      PROVE  /\ [s.jobs[j] EXCEPT !.clean = FALSE] \in JobType
             /\ [s.jobs[j] EXCEPT !.clean = FALSE].chunk = s.jobs[j].chunk
             /\ [s.jobs[j] EXCEPT !.clean = FALSE].deps = s.jobs[j].deps
             /\ [s.jobs[j] EXCEPT !.clean = FALSE].phase = s.jobs[j].phase
             /\ [s.jobs[j] EXCEPT !.clean = FALSE].worker = s.jobs[j].worker
  BY <1>4 DEF JobType
<1>7. t \in StateType
  <2>1. t.chunks \in [Chunk -> OrNone(EntryType)]
    BY <1>2, <1>3, <1>5, StateParts DEF OrNone
  <2>2. t.jobs \in [JobId -> OrNone(JobType)]
    BY <1>3, <1>6, StateParts DEF OrNone
  <2> QED
    BY <1>3, <2>1, <2>2, Zenon DEF StateType
<1>8. \A k \in Chunk : Kept(s, t, k) /\ Still(s, t, k)
  BY <1>2, <1>3, <1>5, EntryParts DEF Kept, Still, Has
<1>9. \A j \in JobId : SameJob(s, t, j)
  BY <1>3, <1>4, <1>6, JobParts DEF SameJob
<1>10. \A k \in Chunk : Has(s, k) =>
         t.chunks[k] \in {s.chunks[k], [s.chunks[k] EXCEPT !.dirty = TRUE]}
  BY <1>2, <1>3
<1>11. Calmer(s, t, X)
  BY <1>3, <1>7, <1>8, <1>9, Zenon DEF Calmer
<1> QED
  BY <1>1, <1>3, <1>10, <1>11

LEMMA NeighborsCalmer ==
  ASSUME NEW s \in StateType, NEW k \in Chunk, NEW X
  PROVE  /\ Calmer(s, MarkNeighborsDirty(s, k), X)
         /\ \A n \in Chunk : Has(s, n) =>
              MarkNeighborsDirty(s, k).chunks[n]
                \in {s.chunks[n], [s.chunks[n] EXCEPT !.dirty = TRUE]}
         /\ MarkNeighborsDirty(s, k).up = s.up /\ MarkNeighborsDirty(s, k).column = s.column
<1> DEFINE K == {n \in Near[k] \ {k} : /\ Has(s, n)
                                       /\ \/ s.chunks[n].shown # Nothing
                                          \/ s.chunks[n].pend # Nothing}
<1>1. \A n \in K : n \in Chunk /\ Has(s, n)
  BY ChunkStateAssumption
<1>2. MarkNeighborsDirty(s, k) = MarkDirty(s, K)
  BY DEF MarkNeighborsDirty
<1> HIDE DEF K
<1> QED
  BY <1>1, <1>2, MarkDirtyCalmer

LEMMA RemoveCalmer ==
  ASSUME NEW s \in StateType, NEW k \in Chunk, Has(s, k), NEW X
  PROVE  /\ Calmer(s, RemoveDisplayedMesh(s, k), X)
         /\ RemoveDisplayedMesh(s, k).chunks[k] = [s.chunks[k] EXCEPT !.shown = Nothing]
         /\ RemoveDisplayedMesh(s, k).up = s.up
<1>1. s.chunks[k] \in EntryType
  BY StateParts
<1> DEFINE e == [s.chunks[k] EXCEPT !.shown = Nothing]
<1>2. /\ e \in EntryType /\ e.pins = s.chunks[k].pins /\ e.pend = s.chunks[k].pend
      /\ e.st = s.chunks[k].st /\ e.dig = s.chunks[k].dig /\ e.mask = s.chunks[k].mask
      /\ e.req = s.chunks[k].req /\ e.res = s.chunks[k].res
  BY <1>1 DEF EntryType, OrNone
<1>3. RemoveDisplayedMesh(s, k) = Put(s, k, e)
  BY DEF Put, RemoveDisplayedMesh
<1> HIDE DEF e
<1> DEFINE t == RemoveDisplayedMesh(s, k)
<1> HIDE DEF t
<1>4. Calmer(s, t, {}) /\ t.chunks[k] = e /\ t.up = s.up
  <2>1. t = Put(s, k, e)
    BY <1>3 DEF t
  <2> QED
    BY <1>2, <2>1, EntryStill
<1>5. RemoveDisplayedMesh(s, k).chunks[k] = e /\ RemoveDisplayedMesh(s, k).up = s.up
  BY <1>4 DEF t
<1>6. Calmer(s, RemoveDisplayedMesh(s, k), X)
  BY <1>4, CalmerAll DEF t
<1>7. RemoveDisplayedMesh(s, k).chunks[k] = [s.chunks[k] EXCEPT !.shown = Nothing]
  BY <1>5, Zenon DEF e
<1> QED
  BY <1>5, <1>6, <1>7

LEMMA InvalidateCalmer ==
  ASSUME NEW s \in StateType, NEW k \in Chunk, Has(s, k), NEW X
  PROVE  /\ Calmer(s, InvalidatePendingMeshes(s, k), X)
         /\ InvalidatePendingMeshes(s, k).chunks[k] = [s.chunks[k] EXCEPT !.pend = Nothing]
         /\ InvalidatePendingMeshes(s, k).up = s.up
<1>1. s.chunks[k] \in EntryType
  BY StateParts
<1> DEFINE e == [s.chunks[k] EXCEPT !.pend = Nothing]
<1>2. /\ e \in EntryType /\ e.pins = s.chunks[k].pins /\ e.pend = Nothing
      /\ e.st = s.chunks[k].st /\ e.dig = s.chunks[k].dig /\ e.mask = s.chunks[k].mask
      /\ e.req = s.chunks[k].req /\ e.res = s.chunks[k].res
  BY <1>1 DEF EntryType, OrNone
<1>3. InvalidatePendingMeshes(s, k) = Put(s, k, e)
  BY DEF Put, InvalidatePendingMeshes
<1> HIDE DEF e
<1> DEFINE t == InvalidatePendingMeshes(s, k)
<1> HIDE DEF t
<1>4. Calmer(s, t, {}) /\ t.chunks[k] = e /\ t.up = s.up
  <2>1. t = Put(s, k, e)
    BY <1>3 DEF t
  <2> QED
    BY <1>2, <2>1, EntryStill
<1>5. InvalidatePendingMeshes(s, k).chunks[k] = e /\ InvalidatePendingMeshes(s, k).up = s.up
  BY <1>4 DEF t
<1>6. Calmer(s, InvalidatePendingMeshes(s, k), X)
  BY <1>4, CalmerAll DEF t
<1>7. InvalidatePendingMeshes(s, k).chunks[k] = [s.chunks[k] EXCEPT !.pend = Nothing]
  BY <1>5, Zenon DEF e
<1> QED
  BY <1>5, <1>6, <1>7

LEMMA DropCalmer ==
  ASSUME NEW s \in StateType, NEW k \in Chunk
  PROVE  /\ Calmer(s, BroadcastDrop(s, k), {k})
         /\ BroadcastDrop(s, k).chunks = s.chunks /\ BroadcastDrop(s, k).up = s.up
         /\ ~Has(s, k) => Calmer(s, BroadcastDrop(s, k), {})
<1> DEFINE t == BroadcastDrop(s, k)
<1>1. /\ t.chunks = s.chunks /\ t.jobs = s.jobs /\ t.reply = s.reply /\ t.up = s.up
      /\ t.demand = s.demand /\ t.hashQ = s.hashQ /\ t.fetchQ = s.fetchQ
      /\ t.column = [w \in Worker |-> [s.column[w] EXCEPT ![k] = Nothing]]
      /\ t = [s EXCEPT !.column = t.column]
  BY DEF BroadcastDrop, StateType
<1> HIDE DEF t
<1>2. t.column \in [Worker -> Columns(Chunk)]
  BY <1>1, StateParts DEF Columns, OrNone
<1>3. t \in StateType
  BY <1>1, <1>2 DEF StateType
<1>4. \A n \in Chunk : n # k => \A w \in Worker : t.column[w][n] = s.column[w][n]
  BY <1>1, StateParts DEF Columns
<1>5. \A n \in Chunk : Kept(s, t, n) /\ (n # k \/ ~Has(s, k) => Still(s, t, n))
  BY <1>1, <1>4 DEF Kept, Still, Has
<1>6. \A j \in JobId : SameJob(s, t, j)
  BY <1>1 DEF SameJob
<1> QED
  BY <1>1, <1>3, <1>5, <1>6 DEF Calmer, t

LEMMA ResetCalmer ==
  ASSUME NEW s \in StateType, NEW k \in Chunk, Has(s, k)
  PROVE  /\ Calmer(s, ResetAfterSourceChange(s, k), {k})
         /\ s.chunks[k].st \notin {"decoding", "stored"} =>
              Calmer(s, ResetAfterSourceChange(s, k), {})
         /\ ResetAfterSourceChange(s, k).chunks[k].st = s.chunks[k].st
         /\ ResetAfterSourceChange(s, k).up = s.up
<1> DEFINE a == RemoveDisplayedMesh(s, k)
           b == BroadcastDrop(a, k)
           c == InvalidatePendingMeshes(b, k)
           d == MarkNeighborsDirty(c, k)
           e == [d.chunks[k] EXCEPT !.dirty = FALSE]
           t == Put(d, k, e)
<1>0. ResetAfterSourceChange(s, k) = t
  BY DEF ResetAfterSourceChange, Put
<1>1. /\ Calmer(s, a, {k}) /\ Calmer(s, a, {})
      /\ a.chunks[k] = [s.chunks[k] EXCEPT !.shown = Nothing] /\ a.up = s.up
  BY RemoveCalmer
<1>2. a \in StateType /\ Has(a, k)
  BY <1>1 DEF Calmer, Kept
<1> HIDE DEF a
<1>3. Calmer(a, b, {k}) /\ b.chunks = a.chunks /\ b.up = a.up
  BY <1>2, DropCalmer
<1>4. b \in StateType /\ Has(b, k)
  BY <1>2, <1>3 DEF Calmer, Has
<1> HIDE DEF b
<1>5. /\ Calmer(b, c, {k}) /\ Calmer(b, c, {})
      /\ c.chunks[k] = [b.chunks[k] EXCEPT !.pend = Nothing] /\ c.up = b.up
  BY <1>4, InvalidateCalmer
<1>6. c \in StateType /\ Has(c, k)
  BY <1>4, <1>5 DEF Calmer, Kept
<1> HIDE DEF c
<1>7. /\ Calmer(c, d, {k}) /\ Calmer(c, d, {}) /\ d.up = c.up
      /\ d.chunks[k] \in {c.chunks[k], [c.chunks[k] EXCEPT !.dirty = TRUE]}
  BY <1>6, NeighborsCalmer
<1>8. d \in StateType /\ Has(d, k)
  BY <1>6, <1>7 DEF Calmer, Kept
<1> HIDE DEF d
<1>9. d.chunks[k] \in EntryType /\ c.chunks[k] \in EntryType
        /\ b.chunks[k] \in EntryType /\ s.chunks[k] \in EntryType
  BY <1>4, <1>6, <1>8, StateParts
<1>10. /\ e \in EntryType /\ e.pins = d.chunks[k].pins /\ e.pend = d.chunks[k].pend
       /\ e.st = d.chunks[k].st /\ e.dig = d.chunks[k].dig /\ e.mask = d.chunks[k].mask
       /\ e.req = d.chunks[k].req /\ e.res = d.chunks[k].res
  BY <1>9 DEF EntryType
<1>11. d.chunks[k].st = s.chunks[k].st
  <2>1. a.chunks[k].st = s.chunks[k].st
    BY <1>1, <1>9 DEF EntryType
  <2>2. c.chunks[k].st = b.chunks[k].st
    BY <1>5, <1>9 DEF EntryType
  <2>3. d.chunks[k].st = c.chunks[k].st
    BY <1>7, <1>9 DEF EntryType
  <2> QED
    BY <1>3, <2>1, <2>2, <2>3
<1> HIDE DEF e
<1>12. /\ Calmer(d, t, {}) /\ Calmer(d, t, {k}) /\ t.chunks[k] = e /\ t.up = d.up
  BY <1>8, <1>10, EntryStill, EntryCalmer
<1> HIDE DEF t
<1>13. Calmer(s, b, {k})
  BY <1>1, <1>3, CalmerThen
<1>14. Calmer(b, t, {k}) /\ Calmer(b, t, {})
  <2>1. Calmer(b, d, {k}) /\ Calmer(b, d, {})
    BY <1>5, <1>7, CalmerThen
  <2> QED
    BY <1>12, <2>1, CalmerThen
<1>15. Calmer(s, t, {k})
  BY <1>13, <1>14, CalmerThen
<1>16. ASSUME s.chunks[k].st \notin {"decoding", "stored"} PROVE Calmer(s, t, {})
  <2>1. b.chunks[k] = a.chunks[k] /\ a.chunks[k].st = s.chunks[k].st
          /\ a.chunks[k].req = s.chunks[k].req /\ a.chunks[k].res = s.chunks[k].res
    BY <1>1, <1>3, <1>9 DEF EntryType
  <2>2. Still(s, b, k)
    BY <1>16, <2>1 DEF Still
  <2>3. Calmer(s, b, {})
    BY <1>13, <2>2 DEF Calmer
  <2> QED
    BY <1>14, <2>3, CalmerThen
<1>17. t.chunks[k].st = s.chunks[k].st /\ t.up = s.up
  BY <1>1, <1>3, <1>5, <1>7, <1>10, <1>11, <1>12
<1> QED
  BY <1>0, <1>15, <1>16, <1>17

LEMMA MarkUnavailableCalmer ==
  ASSUME NEW s \in StateType, NEW k \in Chunk, Has(s, k), NEW st \in {"absent", "error"},
         NEW clearSource \in BOOLEAN, NEW removeMesh \in BOOLEAN
  PROVE  /\ Calmer(s, MarkUnavailable(s, k, st, clearSource, removeMesh), {})
         /\ MarkUnavailable(s, k, st, clearSource, removeMesh).chunks[k].st = st
<1> DEFINE e1 == [s.chunks[k] EXCEPT !.st = st, !.pend = Nothing]
           e2 == [e1 EXCEPT !.dig = Nothing, !.res = Nothing]
           e == IF clearSource THEN e2 ELSE e1
           a == Put(s, k, e)
           b == IF st = "absent" THEN MarkNeighborsDirty(a, k) ELSE a
           c == IF removeMesh THEN RemoveDisplayedMesh(b, k) ELSE b
<1>1. s.chunks[k] \in EntryType
  BY StateParts
<1>2. c = MarkUnavailable(s, k, st, clearSource, removeMesh)
  <2>1. [[s EXCEPT !.chunks[k] = e1] EXCEPT !.chunks[k] = [@ EXCEPT !.dig = Nothing,
                                                                 !.res = Nothing]]
          = [s EXCEPT !.chunks[k] = e2]
    BY <1>1, Zenon DEF StateType, EntryType
  <2> QED
    BY <2>1 DEF MarkUnavailable, Put
<1>3. /\ e1 \in EntryType /\ e1.pins = s.chunks[k].pins /\ e1.pend = Nothing /\ e1.st = st
      /\ e2 \in EntryType /\ e2.pins = s.chunks[k].pins /\ e2.pend = Nothing /\ e2.st = st
  BY <1>1, Zenon DEF EntryType, OrNone
<1>4. e \in EntryType /\ e.pins = s.chunks[k].pins /\ e.pend = Nothing /\ e.st = st
  BY <1>3
<1> HIDE DEF e
<1>5. /\ Calmer(s, a, {}) /\ a \in StateType /\ Has(a, k) /\ a.chunks[k] = e
  BY <1>4, EntryStill
<1> HIDE DEF a
<1>6. Calmer(a, b, {}) /\ b \in StateType /\ Has(b, k) /\ b.chunks[k].st = st
  <2>1. CASE st = "absent"
    <3>1. Calmer(a, MarkNeighborsDirty(a, k), {})
      BY <1>5, NeighborsCalmer
    <3>2. MarkNeighborsDirty(a, k).chunks[k] \in {a.chunks[k], [a.chunks[k] EXCEPT !.dirty = TRUE]}
      BY <1>5, NeighborsCalmer
    <3>3. [e EXCEPT !.dirty = TRUE].st = st
      BY <1>4 DEF EntryType
    <3> QED
      BY <1>4, <1>5, <2>1, <3>1, <3>2, <3>3 DEF Calmer, Kept
  <2>2. CASE st # "absent"
    BY <1>4, <1>5, <2>2, CalmerSelf
  <2> QED
    BY <2>1, <2>2
<1> HIDE DEF b
<1>7. Calmer(b, c, {}) /\ c.chunks[k].st = st
  <2>1. CASE removeMesh
    <3>1. Calmer(b, RemoveDisplayedMesh(b, k), {})
      BY <1>6, RemoveCalmer
    <3>2. RemoveDisplayedMesh(b, k).chunks[k] = [b.chunks[k] EXCEPT !.shown = Nothing]
      BY <1>6, RemoveCalmer
    <3>3. b.chunks[k] \in EntryType
      BY <1>6, StateParts
    <3>4. [b.chunks[k] EXCEPT !.shown = Nothing].st = st
      BY <1>6, <3>3 DEF EntryType
    <3> QED
      BY <2>1, <3>1, <3>2, <3>4
  <2>2. CASE ~removeMesh
    BY <1>6, <2>2, CalmerSelf
  <2> QED
    BY <2>1, <2>2
<1> HIDE DEF c
<1> QED
  BY <1>2, <1>5, <1>6, <1>7, CalmerThen

LEMMA FailCalmer ==
  ASSUME NEW s \in StateType, NEW k \in Chunk, Has(s, k), NEW why
  PROVE  /\ Calmer(s, Fail(s, k, why), {})
         /\ Fail(s, k, why).chunks[k].st \in {"error", "hashed", "checking"}
<1> DEFINE expired == why = "expired"
           known == s.chunks[k].dig # Nothing
           st == IF known THEN "hashed" ELSE "checking"
           res == IF expired THEN Nothing ELSE s.chunks[k].res
           e == [s.chunks[k] EXCEPT !.st = st, !.res = res]
           a == Put(s, k, e)
<1>1. s.chunks[k] \in EntryType
  BY StateParts
<1>2. RetryIo(s, k, expired) \in {EnqueueFetch(a, k), EnqueueHash(a, k)}
  BY DEF RetryIo, Put
<1>9. st \in {"hashed", "checking"} /\ res \in OrNone(Views)
  BY <1>1, EntryParts DEF OrNone
<1> HIDE DEF known, expired, st, res
<1>3. /\ e \in EntryType /\ e.pins = s.chunks[k].pins /\ e.pend = s.chunks[k].pend
      /\ e.st \in {"hashed", "checking"}
  BY <1>1, <1>9 DEF EntryType
<1> HIDE DEF e
<1>4. Calmer(s, a, {}) /\ a \in StateType /\ a.chunks[k] = e
  BY <1>3, EntryStill
<1> HIDE DEF a
<1>5. /\ Calmer(a, EnqueueFetch(a, k), {}) /\ EnqueueFetch(a, k).chunks = a.chunks
      /\ Calmer(a, EnqueueHash(a, k), {}) /\ EnqueueHash(a, k).chunks = a.chunks
  BY <1>4, EnqueueCalmer
<1>6. /\ Calmer(s, RetryIo(s, k, expired), {})
      /\ RetryIo(s, k, expired).chunks[k].st \in {"hashed", "checking"}
  <2>1. Calmer(s, EnqueueFetch(a, k), {}) /\ Calmer(s, EnqueueHash(a, k), {})
    BY <1>4, <1>5, CalmerThen
  <2> QED
    BY <1>2, <1>3, <1>4, <1>5, <2>1
<1>7. /\ Calmer(s, MarkUnavailable(s, k, "error", FALSE, FALSE), {})
      /\ MarkUnavailable(s, k, "error", FALSE, FALSE).chunks[k].st = "error"
  BY MarkUnavailableCalmer
<1>8. Fail(s, k, why) = IF why = "fatal" THEN MarkUnavailable(s, k, "error", FALSE, FALSE)
                        ELSE RetryIo(s, k, expired)
  BY DEF Fail, expired
<1> QED
  BY <1>6, <1>7, <1>8

(* The content of a chunk under a view.                                     *)
LEMMA SourceType ==
  ASSUME NEW v \in Views, NEW k \in Chunk, Source[v][k] # "missing"
  PROVE  Source[v][k] \in Content /\ Source[v][k] # Nothing
<1>1. Source[v][k] \in Content
  BY DEF Content
<1> QED
  BY <1>1, NothingAssumption

LEMMA ResolutionCalmer ==
  ASSUME NEW s \in StateType, NEW k \in Chunk, Has(s, k), NEW v \in Views
  PROVE  /\ Calmer(s, HandleFetchedResolution(s, k, v), {})
         /\ s.chunks[k].st = "resolving" =>
              HandleFetchedResolution(s, k, v).chunks[k].st \in {"hashed", "absent"}
         /\ s.chunks[k].st = "fetching" =>
              \/ HandleFetchedResolution(s, k, v).chunks[k].st = "absent"
              \/ /\ HandleFetchedResolution(s, k, v).chunks[k].st = "fetching"
                 /\ HandleFetchedResolution(s, k, v).chunks[k].res # Nothing
                 /\ HandleFetchedResolution(s, k, v).chunks[k].dig = Source[v][k]
                 /\ Source[v][k] \in Content
<1> DEFINE row == Source[v][k]
           changed == s.chunks[k].dig # Nothing /\ s.chunks[k].dig # row
           a == IF changed THEN ResetAfterSourceChange(s, k) ELSE s
           e == [a.chunks[k] EXCEPT !.dig = row, !.res = v,
                                    !.st = IF s.chunks[k].st = "fetching"
                                           THEN s.chunks[k].st ELSE "hashed"]
           b == Put(a, k, e)
<1>1. CASE s.chunks[k].st \notin {"resolving", "hashed", "fetching"}
  BY <1>1, CalmerSelf DEF HandleFetchedResolution
<1>2. CASE s.chunks[k].st \in {"resolving", "hashed", "fetching"} /\ row = "missing"
  <2>1. HandleFetchedResolution(s, k, v) = MarkUnavailable(s, k, "absent", TRUE, TRUE)
    BY <1>2 DEF HandleFetchedResolution
  <2>2. /\ Calmer(s, MarkUnavailable(s, k, "absent", TRUE, TRUE), {})
        /\ MarkUnavailable(s, k, "absent", TRUE, TRUE).chunks[k].st = "absent"
    BY MarkUnavailableCalmer
  <2> QED
    BY <2>1, <2>2
<1>3. CASE s.chunks[k].st \in {"resolving", "hashed", "fetching"} /\ row # "missing"
  <2>1. HandleFetchedResolution(s, k, v) = b
    BY <1>3 DEF HandleFetchedResolution, Put
  <2>2. Calmer(s, a, {}) /\ a.chunks[k].st = s.chunks[k].st
    <3>1. Calmer(s, ResetAfterSourceChange(s, k), {})
            /\ ResetAfterSourceChange(s, k).chunks[k].st = s.chunks[k].st
      BY <1>3, ResetCalmer
    <3> QED
      BY <3>1, CalmerSelf
  <2>3. a \in StateType /\ Has(a, k)
    BY <2>2 DEF Calmer, Kept
  <2> HIDE DEF a
  <2>4. a.chunks[k] \in EntryType
    BY <2>3, StateParts
  <2>5. row \in Content /\ v # Nothing
    BY <1>3, SourceType, NothingAssumption
  <2> HIDE DEF row
  <2>6. /\ e \in EntryType /\ e.pins = a.chunks[k].pins /\ e.pend = a.chunks[k].pend
        /\ e.st = (IF s.chunks[k].st = "fetching" THEN "fetching" ELSE "hashed")
        /\ e.req = a.chunks[k].req /\ e.res = v /\ e.dig = row
    BY <1>3, <2>4, <2>5, Zenon DEF EntryType, OrNone
  <2> HIDE DEF e
  <2>7. Calmer(a, b, {}) /\ b.chunks[k] = e
    BY <2>2, <2>3, <2>5, <2>6, EntryStill
  <2> HIDE DEF b
  <2>8. Calmer(s, b, {})
    BY <2>2, <2>7, CalmerThen
  <2>9. s.chunks[k].st = "resolving" => b.chunks[k].st \in {"hashed", "absent"}
    BY <2>2, <2>6, <2>7
  <2>10. s.chunks[k].st = "fetching" =>
           /\ b.chunks[k].st = "fetching" /\ b.chunks[k].res # Nothing
           /\ b.chunks[k].dig = row /\ row \in Content
    BY <2>2, <2>5, <2>6, <2>7
  <2> QED
    BY <2>1, <2>8, <2>9, <2>10 DEF row
<1> QED
  BY <1>1, <1>2, <1>3

LEMMA ErrorCalmer ==
  ASSUME NEW s \in StateType, NEW k \in Chunk, NEW d
  PROVE  Calmer(s, HandleChunkError(s, k, d), {})
<1>1. CASE Has(s, k) /\ s.chunks[k].dig = d
  BY <1>1, MarkUnavailableCalmer DEF HandleChunkError
<1>2. CASE ~(Has(s, k) /\ s.chunks[k].dig = d)
  BY <1>2, CalmerSelf DEF HandleChunkError
<1> QED
  BY <1>1, <1>2

(* An entry goes back to having its content only named.                     *)
LEMMA HashedCalmer ==
  ASSUME NEW s \in StateType, NEW k \in Chunk, Has(s, k), NEW t,
         t = Put(s, k, [s.chunks[k] EXCEPT !.st = "hashed", !.mask = {}])
  PROVE  Calmer(s, t, {}) /\ t \in StateType
<1> DEFINE e == [s.chunks[k] EXCEPT !.st = "hashed", !.mask = {}]
<1>1. s.chunks[k] \in EntryType
  BY StateParts
<1>2. /\ e \in EntryType /\ e.pins = s.chunks[k].pins /\ e.pend = s.chunks[k].pend
      /\ e.st = "hashed"
  BY <1>1 DEF EntryType
<1>3. t = Put(s, k, e)
  OBVIOUS
<1> HIDE DEF e
<1> QED
  BY <1>2, <1>3, EntryStill

LEMMA RecoverCalmer ==
  ASSUME NEW s \in StateType, NEW k \in Chunk, Has(s, k)
  PROVE  Calmer(s, RecoverMissingWorkerInput(s, k), {})
<1> DEFINE a == Put(s, k, [s.chunks[k] EXCEPT !.st = "hashed", !.mask = {}])
<1>1. RecoverMissingWorkerInput(s, k)
        \in {EnqueueHash(s, k), EnqueueFetch(s, k), EnqueueFetch(a, k), s}
  BY DEF RecoverMissingWorkerInput, Put
<1>2. Calmer(s, a, {}) /\ a \in StateType
  BY HashedCalmer, Zenon
<1> HIDE DEF a
<1>3. Calmer(s, EnqueueHash(s, k), {}) /\ Calmer(s, EnqueueFetch(s, k), {})
        /\ Calmer(s, EnqueueFetch(a, k), {}) /\ Calmer(s, s, {})
  <2>1. Calmer(a, EnqueueFetch(a, k), {})
    BY <1>2, EnqueueCalmer
  <2> QED
    BY <1>2, <2>1, CalmerThen, CalmerSelf, EnqueueCalmer
<1> QED
  BY <1>1, <1>3

LEMMA ApplyCalmer ==
  ASSUME NEW s \in StateType, NEW j \in JobId, s.jobs[j] # Nothing,
         s.jobs[j].chunk # Nothing, Has(s, s.jobs[j].chunk),
         NEW mesh \in [kind : Kind, from : From]
  PROVE  Calmer(s, ApplyMesh(s, j, mesh), {})
<1> DEFINE k == s.jobs[j].chunk
           e == [s.chunks[k] EXCEPT !.shown = mesh,
                                    !.dirty = ~s.jobs[j].clean /\ s.chunks[k].dirty]
           t == ApplyMesh(s, j, mesh)
<1>1. k \in Chunk /\ s.chunks[k] \in EntryType
  BY StateParts, JobParts DEF OrNone
<1>2. t = Put(s, k, e)
  BY SMTT(30) DEF ApplyMesh, Put
<1> HIDE DEF t
<1>3. /\ e \in EntryType /\ e.pins = s.chunks[k].pins /\ e.pend = s.chunks[k].pend
      /\ e.st = s.chunks[k].st /\ e.dig = s.chunks[k].dig /\ e.mask = s.chunks[k].mask
      /\ e.req = s.chunks[k].req /\ e.res = s.chunks[k].res
  BY <1>1, Zenon DEF EntryType, OrNone
<1> HIDE DEF e
<1>4. Has(s, k)
  OBVIOUS
<1> HIDE DEF k
<1> QED
  BY <1>1, <1>2, <1>3, <1>4, EntryStill DEF t

LEMMA RefreshCalmer ==
  ASSUME NEW s \in StateType, NEW k \in Chunk, view \in Views
  PROVE  Calmer(s, RefreshEntry(s, k), {})
<1> DEFINE row == Source[view][k]
           e1 == [s.chunks[k] EXCEPT !.req = Nothing]
           s1 == Put(s, k, e1)
           e2 == [s.chunks[k] EXCEPT !.res = view]
           s2 == Put(s, k, e2)
           e3 == [e2 EXCEPT !.req = Nothing]
           s3 == Put(s, k, e3)
           a == ResetAfterSourceChange(s3, k)
           e4 == [a.chunks[k] EXCEPT !.dig = row, !.st = "hashed"]
           b == Put(a, k, e4)
           remembered == /\ refresh.entry[k] # Nothing /\ Has(s, k)
                         /\ s.chunks[k].res = refresh.entry[k].res
                         /\ s.chunks[k].req = refresh.entry[k].req
<1>1. CASE ~remembered
  BY <1>1, CalmerSelf DEF RefreshEntry
<1>2. CASE remembered
  <2>1. Has(s, k) /\ s.chunks[k] \in EntryType
    BY <1>2, StateParts
  <2>2. view \in Views /\ view # Nothing
    BY NothingAssumption
  <2>3. CASE row = "missing"
    <3>1. RefreshEntry(s, k) = MarkUnavailable(s1, k, "absent", TRUE, TRUE)
      BY <1>2, <2>3 DEF RefreshEntry, Put
    <3>2. e1 \in EntryType /\ e1.pins = s.chunks[k].pins /\ e1.pend = s.chunks[k].pend
      BY <2>1 DEF EntryType, OrNone
    <3> HIDE DEF e1
    <3>3. Calmer(s, s1, {k}) /\ s1 \in StateType /\ Has(s1, k)
      BY <2>1, <3>2, EntryCalmer
    <3> HIDE DEF s1
    <3> DEFINE t == MarkUnavailable(s1, k, "absent", TRUE, TRUE)
    <3>4. Calmer(s1, t, {}) /\ t.chunks[k].st = "absent"
      BY <3>3, MarkUnavailableCalmer, Zenon
    <3> HIDE DEF t
    <3>5. Calmer(s, t, {k})
      BY <3>3, <3>4, CalmerAll, CalmerThen
    <3>6. Calmer(s, t, {})
      BY <3>4, <3>5, Settled
    <3> QED
      BY <3>1, <3>6 DEF t
  <2>4. CASE row # "missing" /\ row = s.chunks[k].dig
    <3>1. RefreshEntry(s, k) = s2
      BY <1>2, <2>4 DEF RefreshEntry, Put
    <3>2. /\ e2 \in EntryType /\ e2.pins = s.chunks[k].pins /\ e2.pend = s.chunks[k].pend
          /\ e2.st = s.chunks[k].st /\ e2.dig = s.chunks[k].dig
          /\ e2.mask = s.chunks[k].mask /\ e2.req = s.chunks[k].req /\ e2.res = view
      BY <2>1 DEF EntryType, OrNone
    <3> HIDE DEF e2
    <3>3. Calmer(s, s2, {})
      BY <2>1, <2>2, <3>2, EntryStill
    <3> QED
      BY <3>1, <3>3
  <2>5. CASE row # "missing" /\ row # s.chunks[k].dig
    <3>1. RefreshEntry(s, k) = EnqueueFetch(b, k)
      <4>1. [s2 EXCEPT !.chunks[k] = [@ EXCEPT !.req = Nothing]] = s3
        BY <2>1 DEF Put, StateType
      <4> QED
        BY <1>2, <2>5, <4>1 DEF RefreshEntry, Put
    <3>2. e3 \in EntryType /\ e3.pins = s.chunks[k].pins /\ e3.pend = s.chunks[k].pend
      BY <2>1 DEF EntryType, OrNone
    <3> HIDE DEF e3
    <3>3. Calmer(s, s3, {k}) /\ s3 \in StateType /\ Has(s3, k)
      BY <2>1, <3>2, EntryCalmer
    <3> HIDE DEF s3
    <3>4. Calmer(s3, a, {k})
      BY <3>3, ResetCalmer
    <3>5. a \in StateType /\ Has(a, k) /\ a.chunks[k] \in EntryType
      BY <3>3, <3>4, StateParts DEF Calmer, Kept
    <3> HIDE DEF a
    <3>6. row \in Content
      BY <2>5, SourceType
    <3> HIDE DEF row
    <3>7. /\ e4 \in EntryType /\ e4.pins = a.chunks[k].pins /\ e4.pend = a.chunks[k].pend
          /\ e4.st = "hashed"
      BY <3>5, <3>6 DEF EntryType, OrNone
    <3> HIDE DEF e4
    <3>8. Calmer(a, b, {k}) /\ b \in StateType /\ b.chunks[k] = e4
      BY <3>5, <3>7, EntryCalmer
    <3> HIDE DEF b
    <3>9. Calmer(s, b, {k})
      BY <3>3, <3>4, <3>8, CalmerThen
    <3>10. Calmer(s, b, {})
      BY <3>7, <3>8, <3>9, Settled
    <3>11. Calmer(b, EnqueueFetch(b, k), {})
      BY <3>8, EnqueueCalmer
    <3> QED
      BY <3>1, <3>10, <3>11, CalmerThen
  <2> QED
    BY <2>3, <2>4, <2>5
<1> QED
  BY <1>1, <1>2

-----------------------------------------------------------------------------
(* What the parts of Sound depend on.                                       *)

LEMMA DataKept ==
  ASSUME NEW s, NEW t, Held(s), Due(s), \A k \in Chunk : SameData(s, t, k),
         t.column = s.column, Longer(s, t)
  PROVE  Held(t) /\ Due(t) /\ NoNewWaits(s, t)
<1>1. Held(t)
  BY DEF Held, SameData
<1>2. Due(t)
  <2> SUFFICES ASSUME NEW k \in Chunk, Has(t, k), t.chunks[k].st = "decoding",
                      NEW w \in Worker \ t.chunks[k].mask
               PROVE  \E i \in 1..Len(t.reply[w]) : Answers(t, w, i, k, t.chunks[k].dig)
    BY DEF Due
  <2>1. SameData(s, t, k)
    OBVIOUS
  <2>2. PICK i \in 1..Len(s.reply[w]) : Answers(s, w, i, k, s.chunks[k].dig)
    BY <2>1 DEF SameData, Due
  <2>3. i \in 1..Len(t.reply[w]) /\ t.reply[w][i] = s.reply[w][i]
    BY DEF Longer
  <2>4. Answers(t, w, i, k, t.chunks[k].dig)
    BY <2>1, <2>2, <2>3 DEF SameData, Answers
  <2> QED
    BY <2>3, <2>4
<1>3. NoNewWaits(s, t)
  BY DEF NoNewWaits, SameData, Waits
<1> QED
  BY <1>1, <1>2, <1>3

LEMMA CarriedRuns ==
  ASSUME NEW s, NEW t, NEW w \in Worker, NEW i, Tasks(s), Carried(s, t, w, i)
  PROVE  Runs(t, w, i) /\ Alone(s, w, i)
<1>1. i \in 1..Len(s.reply[w]) /\ EndsTask(s, w, i)
  BY DEF Carried, EndsTask
<1>2. Runs(s, w, i) /\ Alone(s, w, i)
  BY <1>1 DEF Tasks
<1> QED
  BY <1>2 DEF Carried, Runs

LEMMA TasksKept ==
  ASSUME NEW s, NEW t, Tasks(s),
         \A w \in Worker : \A i \in 1..Len(t.reply[w]) : EndsTask(t, w, i) => Carried(s, t, w, i),
         \A j \in JobId : t.jobs[j] # Nothing /\ t.jobs[j].phase # "worker" =>
           t.jobs[j].deps = {}
  PROVE  Tasks(t)
<1>1. ASSUME NEW w \in Worker, NEW i \in 1..Len(t.reply[w]), EndsTask(t, w, i)
      PROVE  Runs(t, w, i) /\ Alone(t, w, i)
  <2>1. Carried(s, t, w, i)
    BY <1>1
  <2>2. Runs(t, w, i) /\ Alone(s, w, i)
    BY <2>1, CarriedRuns
  <2>3. ASSUME NEW h \in 1..Len(t.reply[w]), EndsTask(t, w, h) PROVE h = i
    <3>1. EndsTask(s, w, h) /\ h \in 1..Len(s.reply[w])
      BY <2>3 DEF Carried, EndsTask
    <3> QED
      BY <2>2, <3>1 DEF Alone
  <2> QED
    BY <2>2, <2>3 DEF Alone
<1> QED
  BY <1>1 DEF Tasks

-----------------------------------------------------------------------------
(* Jobs end.                                                                *)

LEMMA FinishEnds ==
  ASSUME NEW s \in StateType, Pinned(s), Pending(s), NEW J \in SUBSET JobId,
         \A j \in J : s.jobs[j] # Nothing
  PROVE  Ended(s, FinishMeshJobs(s, J), J)
<1> DEFINE C == {s.jobs[j].chunk : j \in {i \in J : IsCurrentMeshJob(s, i)}}
           P(k) == {j \in J : k \in s.jobs[j].deps}
           s1 == EachEntry(s, C, LAMBDA e : [e EXCEPT !.pend = Nothing])
           t == FinishMeshJobs(s, J)
<1>1. /\ s1.chunks = [k \in Chunk |-> IF k \in C THEN [s.chunks[k] EXCEPT !.pend = Nothing]
                                      ELSE s.chunks[k]]
      /\ s1 = [s EXCEPT !.chunks = s1.chunks]
  BY DEF EachEntry, StateType
<1>2. /\ t.chunks = [k \in Chunk |->
                       IF P(k) = {} THEN s1.chunks[k]
                       ELSE [s1.chunks[k] EXCEPT
                               !.pins = s1.chunks[k].pins - Cardinality(P(k))]]
      /\ t.jobs = [j \in JobId |-> IF j \in J THEN Nothing ELSE s.jobs[j]]
      /\ t.column = s.column /\ t.reply = s.reply /\ t.up = s.up /\ t.demand = s.demand
      /\ t.hashQ = s.hashQ /\ t.fetchQ = s.fetchQ
      /\ t = [s EXCEPT !.chunks = t.chunks, !.jobs = t.jobs]
  BY <1>1 DEF FinishMeshJobs, EachEntry, StateType
<1> HIDE DEF s1, t
<1>3. ASSUME NEW k \in C PROVE k \in Chunk /\ Has(s, k)
  <2>1. PICK j \in J : IsCurrentMeshJob(s, j) /\ s.jobs[j].chunk = k
    OBVIOUS
  <2>2. s.jobs[j] \in JobType
    BY StateParts
  <2> QED
    BY <2>1, <2>2, JobParts DEF IsCurrentMeshJob, OrNone
<1>4. ASSUME NEW k \in Chunk
      PROVE  /\ P(k) = Users(s, k) \cap J /\ Users(t, k) = Users(s, k) \ P(k)
             /\ P(k) # {} => Has(s, k)
  <2>1. P(k) = Users(s, k) \cap J
    BY SMTT(30) DEF Users
  <2>2. Users(t, k) = Users(s, k) \ P(k)
    BY <1>2, <2>1 DEF Users
  <2> QED
    BY <2>1, <2>2 DEF Pinned
<1>5. ASSUME NEW k \in Chunk
      PROVE  /\ IsFiniteSet(P(k)) /\ Cardinality(P(k)) \in Nat
             /\ P(k) = {} => Cardinality(P(k)) = 0
             /\ Cardinality(Users(t, k)) = Cardinality(Users(s, k)) - Cardinality(P(k))
             /\ Cardinality(Users(t, k)) \in Nat
  <2>1. IsFiniteSet(Users(s, k)) /\ P(k) \subseteq Users(s, k)
    BY <1>4, Counting
  <2>2. Users(s, k) \cap P(k) = P(k)
    BY <2>1
  <2>3. IsFiniteSet(P(k)) /\ Cardinality(P(k)) \in Nat
    BY <2>1, FS_Subset, FS_CardinalityType
  <2>4. P(k) = {} => Cardinality(P(k)) = 0
    BY FS_EmptySet
  <2>5. Cardinality(Users(s, k) \ P(k))
          = Cardinality(Users(s, k)) - Cardinality(Users(s, k) \cap P(k))
    BY <2>1, FS_Difference
  <2> QED
    BY <1>4, <2>2, <2>3, <2>4, <2>5, Counting
<1>6. ASSUME NEW k \in Chunk, Has(s, k)
      PROVE  /\ t.chunks[k] \in EntryType
             /\ t.chunks[k].pins = Cardinality(Users(t, k))
             /\ t.chunks[k].pend = IF k \in C THEN Nothing ELSE s.chunks[k].pend
             /\ SameData(s, t, k)
  <2> DEFINE e == s1.chunks[k]
             m == e.pins - Cardinality(P(k))
  <2>1. s.chunks[k] \in EntryType /\ s.chunks[k].pins = Cardinality(Users(s, k))
    BY <1>6, StateParts DEF Pinned
  <2>2. /\ e \in EntryType /\ e.pins = s.chunks[k].pins
        /\ e.pend = (IF k \in C THEN Nothing ELSE s.chunks[k].pend)
        /\ e.st = s.chunks[k].st /\ e.dig = s.chunks[k].dig /\ e.mask = s.chunks[k].mask
        /\ e.req = s.chunks[k].req /\ e.res = s.chunks[k].res
    <3>1. CASE k \in C
      BY <1>1, <2>1, <3>1 DEF EntryType, OrNone
    <3>2. CASE k \notin C
      BY <1>1, <2>1, <3>2, SMTT(30)
    <3> QED
      BY <3>1, <3>2
  <2>3. t.chunks[k] = IF P(k) = {} THEN e ELSE [e EXCEPT !.pins = m]
    BY <1>2
  <2>4. m \in Nat /\ m = Cardinality(Users(t, k)) /\ (P(k) = {} => m = e.pins)
    BY <1>5, <2>1, <2>2, Counting
  <2> HIDE DEF e, m, P, C
  <2>5. /\ t.chunks[k] \in EntryType /\ t.chunks[k].pins = m
        /\ t.chunks[k].pend = e.pend /\ t.chunks[k].st = e.st /\ t.chunks[k].dig = e.dig
        /\ t.chunks[k].mask = e.mask /\ t.chunks[k].req = e.req /\ t.chunks[k].res = e.res
    <3>1. CASE P(k) = {}
      BY <2>2, <2>3, <2>4, <3>1
    <3>2. CASE P(k) # {}
      BY <2>2, <2>3, <2>4, <3>2 DEF EntryType
    <3> QED
      BY <3>1, <3>2
  <2>6. Has(t, k)
    BY <2>5, EntryParts DEF Has
  <2> QED
    BY <1>6, <2>2, <2>4, <2>5, <2>6 DEF SameData
<1>7. ASSUME NEW k \in Chunk, ~Has(s, k)
      PROVE  t.chunks[k] = Nothing /\ Users(t, k) = {} /\ SameData(s, t, k)
  <2>1. P(k) = {} /\ k \notin C /\ s.chunks[k] = Nothing
    BY <1>3, <1>4, <1>7 DEF Has
  <2> HIDE DEF C, P
  <2>2. t.chunks[k] = Nothing
    <3>1. s1.chunks[k] = Nothing
      BY <1>1, <2>1
    <3> QED
      BY <1>2, <2>1, <3>1
  <2>3. Users(t, k) = {}
    BY <1>4, <1>7 DEF Pinned
  <2> QED
    BY <1>7, <2>2, <2>3 DEF SameData, Has
<1>8. t \in StateType
  <2>1. t.chunks \in [Chunk -> OrNone(EntryType)]
    BY <1>2, <1>6, <1>7, Zenon DEF OrNone
  <2>2. t.jobs \in [JobId -> OrNone(JobType)]
    BY <1>2, StateParts DEF OrNone
  <2> QED
    BY <1>2, <2>1, <2>2, Zenon DEF StateType
<1>9. Pinned(t)
  BY <1>6, <1>7 DEF Pinned, SameData, Has
<1>10. ASSUME NEW k \in Chunk, Has(s, k)
       PROVE  s.chunks[k].pend \in J <=> k \in C /\ s.chunks[k].pend # Nothing
  <2>1. ASSUME s.chunks[k].pend \in J PROVE k \in C /\ s.chunks[k].pend # Nothing
    <3>1. s.chunks[k].pend # Nothing
      BY <2>1, NothingAssumption
    <3>2. s.jobs[s.chunks[k].pend].chunk = k
      BY <1>10, <3>1 DEF Pending
    <3>3. IsCurrentMeshJob(s, s.chunks[k].pend)
      BY <1>10, <3>2, NothingAssumption DEF IsCurrentMeshJob
    <3> QED
      BY <2>1, <3>1, <3>2, <3>3
  <2>2. ASSUME k \in C PROVE s.chunks[k].pend \in J
    BY <2>2 DEF IsCurrentMeshJob
  <2> QED
    BY <2>1, <2>2
<1>11. ASSUME NEW k \in Chunk, Has(s, k)
       PROVE  t.chunks[k].pend = IF s.chunks[k].pend \in J THEN Nothing ELSE s.chunks[k].pend
  BY <1>6, <1>10, <1>11
<1>12. Pending(t)
  <2> SUFFICES ASSUME NEW k \in Chunk, Has(t, k), t.chunks[k].pend # Nothing
               PROVE  /\ t.jobs[t.chunks[k].pend] # Nothing
                      /\ t.jobs[t.chunks[k].pend].chunk = k
    BY DEF Pending
  <2>1. Has(s, k)
    BY <1>7 DEF Has
  <2>2. t.chunks[k].pend = s.chunks[k].pend /\ s.chunks[k].pend \notin J
          /\ s.chunks[k].pend # Nothing
    BY <1>11, <2>1
  <2>3. s.chunks[k].pend \in JobId
    BY <2>1, <2>2, StateParts, EntryParts, SMTT(30) DEF OrNone
  <2>4. t.jobs[s.chunks[k].pend] = s.jobs[s.chunks[k].pend]
    BY <1>2, <2>2, <2>3
  <2> QED
    BY <2>1, <2>2, <2>4 DEF Pending
<1>13. \A k \in Chunk : SameData(s, t, k)
  BY <1>6, <1>7, SMTT(30)
<1>14. \A j \in JobId : t.jobs[j] = IF j \in J THEN Nothing ELSE s.jobs[j]
  BY <1>2
<1> QED
  BY <1>2, <1>8, <1>9, <1>11, <1>12, <1>13, <1>14, Zenon DEF Ended, t

LEMMA MessageParts ==
  ASSUME NEW s \in StateType, NEW w \in Worker, NEW i \in 1..Len(s.reply[w])
  PROVE  /\ s.reply[w][i] \in MessageType
         /\ s.reply[w][i].type \in {"chunk", "mesh"}
         /\ s.reply[w][i].type = "chunk" => s.reply[w][i].chunk \in Chunk
                                            /\ s.reply[w][i].dig \in Content
         /\ s.reply[w][i].type = "mesh" =>
              /\ s.reply[w][i].job \in JobId /\ s.reply[w][i].chunk \in Chunk
              /\ s.reply[w][i].from \in From
<1>1. s.reply[w] \in Seq(MessageType)
  BY StateParts
<1>2. s.reply[w][i] \in MessageType
  BY <1>1
<1> QED
  BY <1>2 DEF MessageType

LEMMA EndedMoves ==
  ASSUME NEW s, NEW t, NEW J, Sound(s), Ended(s, t, J), Unposted(s, J)
  PROVE  Moves(s, t)
<1>1. /\ s \in StateType /\ t \in StateType /\ Pinned(t) /\ Pending(t)
      /\ t.column = s.column /\ t.reply = s.reply
      /\ \A j \in JobId : t.jobs[j] = IF j \in J THEN Nothing ELSE s.jobs[j]
      /\ \A k \in Chunk : SameData(s, t, k)
  BY DEF Sound, Ended
<1>2. Longer(s, t)
  BY <1>1 DEF Longer
<1>3. Held(t) /\ Due(t) /\ NoNewWaits(s, t)
  BY <1>1, <1>2, DataKept DEF Sound
<1>4. ASSUME NEW w \in Worker, NEW i \in 1..Len(t.reply[w]), EndsTask(t, w, i)
      PROVE  Carried(s, t, w, i)
  <2>1. EndsTask(s, w, i) /\ i \in 1..Len(s.reply[w])
    BY <1>1, <1>4 DEF EndsTask
  <2>2. s.reply[w][i].job \in JobId
    BY <1>1, <2>1, MessageParts DEF EndsTask
  <2>3. s.reply[w][i].job \notin J
    BY <2>1 DEF Unposted
  <2>4. TaskOf(t, w, i) = TaskOf(s, w, i)
    BY <1>1, <2>2, <2>3 DEF TaskOf
  <2>5. Runs(s, w, i)
    BY <2>1 DEF Sound, Tasks
  <2> QED
    BY <1>1, <2>1, <2>4, <2>5 DEF Carried, Runs
<1>5. \A j \in JobId : t.jobs[j] # Nothing /\ t.jobs[j].phase # "worker" => t.jobs[j].deps = {}
  BY <1>1 DEF Sound, Tasks
<1>6. Tasks(t)
  BY <1>4, <1>5, TasksKept DEF Sound
<1> QED
  BY <1>1, <1>3, <1>6 DEF Moves, Sound

(* Jobs that are not with a worker have no message under way.               *)
LEMMA NotWithWorker ==
  ASSUME NEW s, Tasks(s), NEW J, \A j \in J : s.jobs[j].phase # "worker"
  PROVE  Unposted(s, J)
<1> SUFFICES ASSUME NEW w \in Worker, NEW i \in 1..Len(s.reply[w]), EndsTask(s, w, i)
             PROVE  s.reply[w][i].job \notin J
  BY DEF Unposted
<1>1. Runs(s, w, i)
  BY DEF Tasks
<1> QED
  BY <1>1 DEF Runs, TaskOf

LEMMA CurrentJob ==
  ASSUME NEW s \in StateType, NEW j \in JobId, s.jobs[j] # Nothing, IsCurrentMeshJob(s, j)
  PROVE  s.jobs[j].chunk \in Chunk /\ Has(s, s.jobs[j].chunk)
<1>1. s.jobs[j] \in JobType
  BY StateParts
<1> QED
  BY <1>1, JobParts DEF IsCurrentMeshJob, OrNone

LEMMA SweepMoves ==
  ASSUME NEW s, Sound(s)
  PROVE  Moves(s, SweepJobs(s)) /\ Swept(SweepJobs(s))
<1> DEFINE J == {j \in WaitingJobs(s) : ~( /\ IsCurrentMeshJob(s, j)
                                           /\ ShouldAcceptMeshResult(s, j) )}
           a == FinishMeshJobs(s, J)
           M == UNION {MissingInputs(a, a.jobs[j].chunk) : j \in WaitingJobs(a)}
           A(st) == {n \in M : a.chunks[n].st = st /\ a.demand[n] # "none"}
           t == [a EXCEPT !.hashQ = @ \cup A("checking"), !.fetchQ = @ \cup A("hashed")]
<1>1. t = SweepJobs(s)
  BY DEF SweepJobs
<1>2. /\ J \in SUBSET JobId /\ \A j \in J : s.jobs[j] # Nothing /\ s.jobs[j].phase = "waiting"
      /\ \A j \in WaitingJobs(s) \ J : IsCurrentMeshJob(s, j)
  BY DEF WaitingJobs, JobsOf
<1> HIDE DEF J
<1>3. Ended(s, a, J)
  BY <1>2, FinishEnds DEF Sound
<1>4. Unposted(s, J)
  BY <1>2, NotWithWorker DEF Sound
<1> HIDE DEF a
<1>5. Moves(s, a)
  BY <1>3, <1>4, EndedMoves
<1>6. a \in StateType /\ Sound(a)
  BY <1>5 DEF Moves, Sound
<1>7. ASSUME NEW j \in WaitingJobs(a)
      PROVE  /\ j \in JobId /\ a.jobs[j] # Nothing /\ a.jobs[j].phase = "waiting"
             /\ IsCurrentMeshJob(a, j)
  <2>1. j \in JobId /\ a.jobs[j] # Nothing /\ a.jobs[j].phase = "waiting"
    BY DEF WaitingJobs, JobsOf
  <2>2. j \notin J /\ a.jobs[j] = s.jobs[j]
    BY <1>3, <2>1 DEF Ended
  <2>3. IsCurrentMeshJob(s, j)
    BY <1>2, <2>1, <2>2 DEF WaitingJobs, JobsOf
  <2>4. s.jobs[j].chunk \in Chunk /\ Has(s, s.jobs[j].chunk)
    BY <2>1, <2>2, <2>3, CurrentJob DEF Sound
  <2>5. /\ Has(a, s.jobs[j].chunk)
        /\ a.chunks[s.jobs[j].chunk].pend = IF s.chunks[s.jobs[j].chunk].pend \in J THEN Nothing
                                            ELSE s.chunks[s.jobs[j].chunk].pend
    BY <1>3, <2>4 DEF Ended, SameData
  <2> QED
    BY <2>1, <2>2, <2>3, <2>4, <2>5 DEF IsCurrentMeshJob
<1>8. M \subseteq Chunk
  <2> SUFFICES ASSUME NEW j \in WaitingJobs(a), NEW n \in MissingInputs(a, a.jobs[j].chunk)
               PROVE  n \in Chunk
    OBVIOUS
  <2>1. a.jobs[j].chunk \in Chunk
    BY <1>6, <1>7, CurrentJob
  <2> QED
    BY <2>1, ChunkStateAssumption DEF MissingInputs
<1> HIDE DEF M
<1>9. A("checking") \subseteq Chunk /\ A("hashed") \subseteq Chunk
  BY <1>8
<1> HIDE DEF A
<1>10. /\ t \in StateType /\ t.chunks = a.chunks /\ t.jobs = a.jobs
       /\ t.column = a.column /\ t.reply = a.reply
  BY <1>6, <1>9 DEF StateType
<1> HIDE DEF t
<1>11. Calmer(a, t, {})
  BY <1>6, <1>10, QueuesCalmer
<1>12. Moves(a, t)
  BY <1>6, <1>11, CalmerSound
<1>13. Swept(t)
  BY <1>7, <1>10 DEF Swept, WaitingJobs, JobsOf, IsCurrentMeshJob, Has
<1> QED
  BY <1>1, <1>5, <1>12, <1>13, MovesThen

LEMMA PartsType ==
  ASSUME NEW s \in StateType, NEW k \in Chunk
  PROVE  /\ CacheParts(s, k) \in OrNone(AllParts)
         /\ StoredAround(s, k) \subseteq Chunk
         /\ \A n \in StoredAround(s, k) : Has(s, n)
<1>1. Near[k] \subseteq Chunk
  BY ChunkStateAssumption
<1>2. ASSUME NEW n \in Near[k]
      PROVE  KeyPart(s, n) = Nothing \/ KeyPart(s, n) \in Content \cup {"missing"}
  <2>1. Has(s, n) => s.chunks[n] \in EntryType
    BY <1>1, StateParts
  <2>2. Has(s, n) => s.chunks[n].dig \in OrNone(Content)
    BY <2>1, EntryParts
  <2> QED
    BY <2>2 DEF KeyPart, OrNone
<1>3. CASE \E n \in Near[k] : KeyPart(s, n) = Nothing
  <2>1. CacheParts(s, k) = Nothing
    BY <1>3 DEF CacheParts
  <2> QED
    BY <1>1, <2>1 DEF OrNone, StoredAround
<1>4. CASE \A n \in Near[k] : KeyPart(s, n) # Nothing
  <2>1. CacheParts(s, k) = [n \in Near[k] |-> KeyPart(s, n)]
    BY <1>4 DEF CacheParts
  <2>2. CacheParts(s, k) \in [Near[k] -> Content \cup {"missing"}]
    BY <1>2, <1>4, <2>1
  <2>3. [Near[k] -> Content \cup {"missing"}]
          \in {[Near[m] -> Content \cup {"missing"}] : m \in Chunk}
    OBVIOUS
  <2>4. CacheParts(s, k) \in AllParts
    BY <2>2, <2>3, Zenon DEF AllParts
  <2> QED
    BY <1>1, <2>4 DEF OrNone, StoredAround
<1> QED
  BY <1>3, <1>4

-----------------------------------------------------------------------------
(* Jobs go to the workers.                                                  *)

LEMMA FromType ==
  ASSUME NEW s \in StateType, NEW k \in Chunk, NEW w \in Worker
  PROVE  [n \in Near[k] |-> s.column[w][n]] \in From
<1> DEFINE f == [n \in Near[k] |-> s.column[w][n]]
<1>1. Near[k] \subseteq Chunk /\ s.column[w] \in [Chunk -> OrNone(Content)]
  BY ChunkStateAssumption, StateParts DEF Columns
<1>2. f \in Columns(Near[k])
  BY <1>1 DEF Columns
<1>3. Columns(Near[k]) \in {Columns(Near[m]) : m \in Chunk}
  OBVIOUS
<1> HIDE DEF f
<1>4. f \in From
  BY <1>2, <1>3, Zenon DEF From
<1> QED
  BY <1>4 DEF f

(* A worker without a job has no task under way.                            *)
LEMMA IdleEndsNone ==
  ASSUME NEW s, Sound(s), NEW w \in IdleWorkers(s), NEW i \in 1..Len(s.reply[w])
  PROVE  ~EndsTask(s, w, i)
<1> SUFFICES ASSUME EndsTask(s, w, i) PROVE FALSE
  OBVIOUS
<1>1. w \in Worker /\ s \in StateType
  BY DEF IdleWorkers, Sound
<1>2. Runs(s, w, i)
  BY <1>1 DEF Sound, Tasks
<1>3. s.reply[w][i].job \in JobId
  BY <1>1, MessageParts DEF EndsTask
<1> QED
  BY <1>2, <1>3 DEF Runs, TaskOf, IdleWorkers, JobsOf

LEMMA DispatchMoves ==
  ASSUME NEW s, Sound(s), Swept(s), NEW p \in Plans(s)
  PROVE  Moves(s, DispatchWorkerMesh(s, p))
<1> DEFINE posted == {j \in DOMAIN p : p[j] # Nothing}
           c(j) == s.jobs[j].chunk
           P(n) == {j \in posted : n \in StoredAround(s, c(j))}
           started(j) == [s.jobs[j] EXCEPT !.phase = "worker", !.worker = p[j],
                                           !.clean = TRUE,
                                           !.parts = CacheParts(s, c(j)),
                                           !.deps = StoredAround(s, c(j))]
           task(j) == [ type |-> "mesh", job |-> j, chunk |-> c(j),
                        from |-> [n \in Near[c(j)] |-> s.column[p[j]][n]] ]
           mine(w) == {j \in posted : p[j] = w}
           first(w) == CHOOSE j \in mine(w) : TRUE
           t == DispatchWorkerMesh(s, p)
<1>1. s \in StateType
  BY DEF Sound
<1>2. /\ t.chunks = [k \in Chunk |->
                       IF P(k) = {} THEN s.chunks[k]
                       ELSE [s.chunks[k] EXCEPT
                               !.pins = s.chunks[k].pins + Cardinality(P(k))]]
      /\ t.jobs = [j \in JobId |-> IF j \in posted THEN started(j) ELSE s.jobs[j]]
      /\ t.reply = [w \in Worker |-> IF mine(w) = {} THEN s.reply[w]
                                     ELSE Append(s.reply[w], task(first(w)))]
      /\ t.column = s.column
      /\ t = [s EXCEPT !.chunks = t.chunks, !.jobs = t.jobs, !.reply = t.reply]
  BY <1>1 DEF DispatchWorkerMesh, StateType
<1> HIDE DEF t
<1>3. ASSUME NEW j \in posted
      PROVE  /\ j \in JobId /\ s.jobs[j] # Nothing /\ s.jobs[j] \in JobType
             /\ s.jobs[j].phase = "waiting" /\ s.jobs[j].deps = {}
             /\ c(j) \in Chunk /\ Has(s, c(j))
             /\ p[j] \in IdleWorkers(s) /\ p[j] \in Worker
  <2>1. j \in WaitingJobs(s) /\ p[j] \in IdleWorkers(s)
    BY DEF Plans
  <2>2. j \in JobId /\ s.jobs[j] # Nothing /\ s.jobs[j].phase = "waiting"
    BY <2>1 DEF WaitingJobs, JobsOf
  <2>3. IsCurrentMeshJob(s, j)
    BY <2>1 DEF Swept
  <2>4. s.jobs[j].deps = {}
    BY <2>2 DEF Sound, Tasks
  <2> QED
    BY <1>1, <2>1, <2>2, <2>3, <2>4, StateParts, CurrentJob DEF IdleWorkers
<1>4. posted \subseteq JobId
  BY <1>3
<1> HIDE DEF posted
<1>5. ASSUME NEW j \in posted
      PROVE  /\ started(j) \in JobType /\ started(j) # Nothing
             /\ started(j).phase = "worker" /\ started(j).worker = p[j]
             /\ started(j).chunk = c(j) /\ started(j).deps = StoredAround(s, c(j))
  <2> DEFINE parts == CacheParts(s, c(j))
             deps == StoredAround(s, c(j))
  <2>1. parts \in OrNone(AllParts) /\ deps \subseteq Chunk
    BY <1>1, <1>3, PartsType
  <2> HIDE DEF parts, deps
  <2>2. /\ s.jobs[j] \in JobType /\ p[j] \in OrNone(Worker)
    BY <1>3 DEF OrNone
  <2> DEFINE x == s.jobs[j]
             v == p[j]
             y == [x EXCEPT !.phase = "worker", !.worker = v, !.clean = TRUE,
                            !.parts = parts, !.deps = deps]
  <2>3. started(j) = y /\ c(j) = x.chunk
    BY DEF parts, deps
  <2>4. x \in JobType /\ v \in OrNone(Worker)
    BY <2>2
  <2> HIDE DEF x, v
  <2>5. /\ y \in JobType /\ y.phase = "worker" /\ y.worker = v
        /\ y.chunk = x.chunk /\ y.deps = deps
    BY <2>1, <2>4 DEF JobType
  <2> HIDE DEF y
  <2>6. y # Nothing
    BY <2>5, JobParts
  <2> QED
    BY <2>3, <2>5, <2>6 DEF v, deps
<1> HIDE DEF started
<1>6. ASSUME NEW k \in Chunk
      PROVE  /\ P(k) \subseteq JobId /\ P(k) \cap Users(s, k) = {}
             /\ Users(t, k) = Users(s, k) \cup P(k)
             /\ P(k) # {} => Has(s, k)
  <2>1. P(k) \subseteq posted /\ P(k) \cap Users(s, k) = {}
    BY <1>3 DEF Users
  <2>2. ASSUME NEW j \in JobId PROVE j \in Users(t, k) <=> j \in Users(s, k) \cup P(k)
    <3>1. CASE j \in posted
      <4>0. t.jobs[j] = started(j)
        BY <1>2, <3>1, Zenon
      <4>1. j \in Users(t, k) <=> k \in StoredAround(s, c(j))
        BY <1>5, <3>1, <4>0 DEF Users
      <4>2. j \notin Users(s, k)
        BY <1>3, <3>1 DEF Users
      <4> QED
        BY <3>1, <4>1, <4>2
    <3>2. CASE j \notin posted
      BY <1>2, <3>2, Zenon DEF Users
    <3> QED
      BY <3>1, <3>2
  <2>3. Users(t, k) \subseteq JobId /\ Users(s, k) \subseteq JobId
    BY DEF Users
  <2>4. P(k) # {} => Has(s, k)
    BY <1>1, <1>3, PartsType
  <2> QED
    BY <1>4, <2>1, <2>2, <2>3, <2>4
<1> HIDE DEF P
<1>7. ASSUME NEW k \in Chunk
      PROVE  /\ Cardinality(P(k)) \in Nat /\ (P(k) = {} => Cardinality(P(k)) = 0)
             /\ Cardinality(Users(t, k)) = Cardinality(Users(s, k)) + Cardinality(P(k))
  <2>1. IsFiniteSet(P(k)) /\ Cardinality(P(k)) \in Nat
    BY <1>6, ChunkStateAssumption, FS_Subset, FS_CardinalityType
  <2>2. IsFiniteSet(Users(s, k)) /\ Cardinality(Users(s, k)) \in Nat
    BY Counting
  <2>3. Users(s, k) \cap P(k) = {}
    BY <1>6
  <2>4. Cardinality(Users(s, k) \cup P(k))
          = Cardinality(Users(s, k)) + Cardinality(P(k)) - Cardinality(Users(s, k) \cap P(k))
    BY <2>1, <2>2, FS_Union
  <2>5. Cardinality({}) = 0
    BY FS_EmptySet
  <2>6. Cardinality(Users(t, k)) = Cardinality(Users(s, k)) + Cardinality(P(k)) - 0
    BY <1>6, <2>3, <2>4, <2>5
  <2>7. P(k) = {} => Cardinality(P(k)) = 0
    BY <2>5
  <2> QED
    BY <2>1, <2>2, <2>6, <2>7
<1>8. ASSUME NEW k \in Chunk, Has(s, k)
      PROVE  /\ t.chunks[k] \in EntryType /\ t.chunks[k].pins = Cardinality(Users(t, k))
             /\ t.chunks[k].pend = s.chunks[k].pend /\ SameData(s, t, k)
  <2> DEFINE e == s.chunks[k]
             m == e.pins + Cardinality(P(k))
  <2>1. e \in EntryType /\ e.pins = Cardinality(Users(s, k)) /\ e.pins \in Nat
    BY <1>1, <1>8, StateParts, Counting DEF Sound, Pinned
  <2>2. t.chunks[k] = IF P(k) = {} THEN e ELSE [e EXCEPT !.pins = m]
    BY <1>2, Zenon
  <2>3. m \in Nat /\ m = Cardinality(Users(t, k)) /\ (P(k) = {} => m = e.pins)
    BY <1>7, <2>1
  <2> HIDE DEF e, m
  <2>4. /\ t.chunks[k] \in EntryType /\ t.chunks[k].pins = m
        /\ t.chunks[k].pend = e.pend /\ t.chunks[k].st = e.st /\ t.chunks[k].dig = e.dig
        /\ t.chunks[k].mask = e.mask /\ t.chunks[k].req = e.req /\ t.chunks[k].res = e.res
    <3>1. CASE P(k) = {}
      BY <2>1, <2>2, <2>3, <3>1
    <3>2. CASE P(k) # {}
      BY <2>1, <2>2, <2>3, <3>2 DEF EntryType
    <3> QED
      BY <3>1, <3>2
  <2>5. Has(t, k)
    BY <2>4, EntryParts DEF Has
  <2> QED
    BY <1>8, <2>3, <2>4, <2>5 DEF SameData, e
<1>9. ASSUME NEW k \in Chunk, ~Has(s, k)
      PROVE  t.chunks[k] = Nothing /\ Users(t, k) = {} /\ SameData(s, t, k)
  <2>1. P(k) = {} /\ s.chunks[k] = Nothing /\ Users(s, k) = {}
    BY <1>6, <1>9 DEF Has, Sound, Pinned
  <2>2. t.chunks[k] = Nothing
    BY <1>2, <2>1, Zenon
  <2>3. Users(t, k) = {}
    BY <1>6, <2>1
  <2> QED
    BY <1>9, <2>2, <2>3 DEF SameData, Has
<1>10. ASSUME NEW w \in Worker, mine(w) # {}
       PROVE  /\ first(w) \in posted /\ p[first(w)] = w /\ w \in IdleWorkers(s)
              /\ task(first(w)) \in MessageType /\ task(first(w)).type = "mesh"
              /\ task(first(w)).job = first(w) /\ task(first(w)).chunk = c(first(w))
              /\ t.reply[w] = Append(s.reply[w], task(first(w)))
              /\ t.reply[w] \in Seq(MessageType) /\ Len(s.reply[w]) \in Nat
              /\ Len(t.reply[w]) = Len(s.reply[w]) + 1
              /\ \A i \in 1..Len(s.reply[w]) : t.reply[w][i] = s.reply[w][i]
              /\ t.reply[w][Len(s.reply[w]) + 1] = task(first(w))
  <2>1. first(w) \in mine(w)
    BY <1>10
  <2>2. first(w) \in posted /\ p[first(w)] = w
    BY <2>1
  <2>3. w \in IdleWorkers(s) /\ c(first(w)) \in Chunk /\ first(w) \in JobId
    BY <1>3, <2>2
  <2>4. t.reply[w] = Append(s.reply[w], task(first(w)))
    BY <1>2, <1>10, Zenon
  <2> HIDE DEF first, mine
  <2>5. [n \in Near[c(first(w))] |-> s.column[p[first(w)]][n]] \in From
    BY <1>1, <2>2, <2>3, FromType
  <2>6. task(first(w)) \in MessageType
    BY <2>3, <2>5 DEF MessageType
  <2>7. s.reply[w] \in Seq(MessageType)
    BY <1>1, StateParts
  <2>8. /\ task(first(w)).type = "mesh"
        /\ task(first(w)).job = first(w) /\ task(first(w)).chunk = c(first(w))
    OBVIOUS
  <2> HIDE DEF task
  <2> QED
    BY <2>2, <2>3, <2>4, <2>6, <2>7, <2>8, AppendProperties, LenProperties
<1>11. ASSUME NEW w \in Worker, mine(w) = {} PROVE t.reply[w] = s.reply[w]
  BY <1>2, <1>11, Zenon
<1> HIDE DEF mine, first, task, c
<1>12. t \in StateType
  <2>1. t.chunks \in [Chunk -> OrNone(EntryType)]
    <3>1. \A k \in Chunk : t.chunks[k] \in OrNone(EntryType)
      BY <1>8, <1>9 DEF OrNone
    <3> QED
      BY <1>2, <3>1
  <2>2. t.jobs \in [JobId -> OrNone(JobType)]
    BY <1>1, <1>2, <1>5, StateParts DEF OrNone
  <2>3. t.reply \in [Worker -> Seq(MessageType)]
    <3>1. \A w \in Worker : t.reply[w] \in Seq(MessageType)
      BY <1>1, <1>10, <1>11, StateParts
    <3> QED
      BY <1>2, <3>1
  <2> QED
    BY <1>1, <1>2, <2>1, <2>2, <2>3, Zenon DEF StateType
<1>13. Pinned(t)
  BY <1>8, <1>9 DEF Pinned, SameData, Has
<1>14. Held(t) /\ Due(t) /\ NoNewWaits(s, t)
  <2>1. \A k \in Chunk : SameData(s, t, k)
    BY <1>8, <1>9
  <2>2. Longer(s, t)
    <3> SUFFICES ASSUME NEW w \in Worker, NEW i \in 1..Len(s.reply[w])
                 PROVE  i \in 1..Len(t.reply[w]) /\ t.reply[w][i] = s.reply[w][i]
      BY DEF Longer
    <3>1. CASE mine(w) = {}
      BY <1>11, <3>1
    <3>2. CASE mine(w) # {}
      BY <1>10, <3>2
    <3> QED
      BY <3>1, <3>2
  <2> QED
    BY <1>2, <2>1, <2>2, DataKept, Zenon DEF Sound
<1>15. Pending(t)
  <2> SUFFICES ASSUME NEW k \in Chunk, Has(t, k), t.chunks[k].pend # Nothing
               PROVE  /\ t.jobs[t.chunks[k].pend] # Nothing
                      /\ t.jobs[t.chunks[k].pend].chunk = k
    BY DEF Pending
  <2> DEFINE j == s.chunks[k].pend
  <2>1. Has(s, k)
    BY <1>9 DEF Has
  <2>2. t.chunks[k].pend = j /\ j # Nothing
    BY <1>8, <2>1
  <2>3. j \in JobId
    BY <1>1, <2>1, <2>2, StateParts, EntryParts DEF OrNone
  <2>4. s.jobs[j] # Nothing /\ s.jobs[j].chunk = k
    BY <2>1, <2>2 DEF Sound, Pending
  <2> HIDE DEF j
  <2>5. CASE j \in posted
    BY <1>2, <1>5, <2>2, <2>3, <2>4, <2>5 DEF c
  <2>6. CASE j \notin posted
    BY <1>2, <2>2, <2>3, <2>4, <2>6
  <2> QED
    BY <2>5, <2>6
<1>16. ASSUME NEW w \in Worker, NEW i \in 1..Len(t.reply[w]), EndsTask(t, w, i)
       PROVE  Runs(t, w, i) /\ Alone(t, w, i)
  <2>1. CASE mine(w) = {}
    <3>1. i \in 1..Len(s.reply[w]) /\ EndsTask(s, w, i) /\ t.reply[w] = s.reply[w]
      BY <1>11, <1>16, <2>1 DEF EndsTask
    <3>2. Runs(s, w, i) /\ Alone(s, w, i) /\ s.reply[w][i].job \in JobId
      BY <1>1, <3>1, MessageParts DEF Sound, Tasks, EndsTask
    <3>3. s.reply[w][i].job \notin posted
      BY <1>3, <3>2 DEF Runs, TaskOf
    <3>4. TaskOf(t, w, i) = TaskOf(s, w, i)
      BY <1>2, <3>1, <3>2, <3>3 DEF TaskOf
    <3> QED
      BY <3>1, <3>2, <3>4 DEF Runs, Alone, EndsTask
  <2>2. CASE mine(w) # {}
    <3> DEFINE l == Len(s.reply[w]) + 1
    <3>1. ASSUME NEW h \in 1..Len(t.reply[w]), EndsTask(t, w, h) PROVE h = l
      <4>1. h # l => h \in 1..Len(s.reply[w])
        BY <1>10, <2>2
      <4>2. h # l => EndsTask(s, w, h)
        BY <1>10, <2>2, <3>1, <4>1 DEF EndsTask
      <4>3. w \in IdleWorkers(s)
        BY <1>10, <2>2
      <4> QED
        BY <4>1, <4>2, <4>3, IdleEndsNone
    <3>2. i = l
      BY <1>16, <3>1
    <3>3. Alone(t, w, i)
      BY <3>1, <3>2 DEF Alone
    <3>4. t.reply[w][i] = task(first(w)) /\ first(w) \in posted /\ p[first(w)] = w
      BY <1>10, <2>2, <3>2
    <3>5. t.reply[w][i].job = first(w) /\ t.reply[w][i].chunk = c(first(w))
      BY <1>10, <2>2, <3>4
    <3>6. TaskOf(t, w, i) = started(first(w))
      BY <1>2, <1>4, <3>4, <3>5 DEF TaskOf
    <3>7. Runs(t, w, i)
      BY <1>5, <3>4, <3>5, <3>6 DEF Runs
    <3> QED
      BY <3>3, <3>7
  <2> QED
    BY <2>1, <2>2
<1>17. \A j \in JobId : t.jobs[j] # Nothing /\ t.jobs[j].phase # "worker" => t.jobs[j].deps = {}
  BY <1>2, <1>5 DEF Sound, Tasks
<1> QED
  BY <1>12, <1>13, <1>14, <1>15, <1>16, <1>17 DEF Moves, Sound, Tasks, t

LEMMA RequestMoves ==
  ASSUME NEW s, Sound(s), NEW K \in SUBSET Runnable(s)
  PROVE  Moves(s, RequestMesh(s, K))
<1> DEFINE slots == {p \in [K -> JobId \ JobsOf(s)] : \A k, l \in K : p[k] = p[l] => k = l}
           slot == CHOOSE p \in slots : TRUE
           job(k) == [ chunk |-> k, kind |-> s.demand[k],
                       phase |-> IF CacheParts(s, k) = Nothing THEN "waiting" ELSE "cache",
                       worker |-> Nothing, clean |-> TRUE,
                       parts |-> CacheParts(s, k), deps |-> {} ]
           taker(j) == {k \in K : slot[k] = j}
           first(j) == CHOOSE k \in taker(j) : TRUE
           t == RequestMesh(s, K)
<1>1. s \in StateType
  BY DEF Sound
<1>2. CASE slots = {}
  <2>1. t = s
    BY <1>2 DEF RequestMesh
  <2> HIDE DEF t
  <2>2. Calmer(s, t, {})
    BY <1>1, <2>1, CalmerSelf
  <2> QED
    BY <2>2, CalmerSound DEF t
<1>3. CASE slots # {}
  <2>1. /\ t.chunks = [k \in Chunk |-> IF k \in K THEN [s.chunks[k] EXCEPT !.pend = slot[k]]
                                       ELSE s.chunks[k]]
        /\ t.jobs = [j \in JobId |-> IF taker(j) = {} THEN s.jobs[j] ELSE job(first(j))]
        /\ t.column = s.column /\ t.reply = s.reply
        /\ t = [s EXCEPT !.chunks = t.chunks, !.jobs = t.jobs]
    BY <1>1, <1>3 DEF RequestMesh, StateType
  <2> HIDE DEF t
  <2>2. slot \in slots
    BY <1>3
  <2> HIDE DEF slot
  <2>3. slot \in [K -> JobId \ JobsOf(s)] /\ \A k, l \in K : slot[k] = slot[l] => k = l
    BY <2>2
  <2>4. ASSUME NEW k \in K
        PROVE  /\ k \in Chunk /\ Has(s, k) /\ s.demand[k] \in Kind
               /\ s.chunks[k] \in EntryType /\ slot[k] \in JobId /\ s.jobs[slot[k]] = Nothing
               /\ first(slot[k]) = k /\ taker(slot[k]) # {}
    <3>1. k \in Chunk /\ Has(s, k) /\ s.demand[k] \in Kind
      BY DEF Runnable, Wanted
    <3>2. s.chunks[k] \in EntryType /\ slot[k] \in JobId /\ s.jobs[slot[k]] = Nothing
      BY <1>1, <2>3, <3>1, StateParts DEF JobsOf
    <3>3. taker(slot[k]) = {k}
      BY <2>3
    <3> QED
      BY <3>1, <3>2, <3>3
  <2>5. ASSUME NEW j \in JobId, taker(j) # {}
        PROVE  first(j) \in K /\ slot[first(j)] = j /\ s.jobs[j] = Nothing
    <3>1. first(j) \in taker(j)
      BY <2>5
    <3>2. first(j) \in K /\ slot[first(j)] = j
      BY <3>1
    <3> QED
      BY <2>4, <3>2
  <2> HIDE DEF first, taker
  <2>6. ASSUME NEW k \in K
        PROVE  /\ job(k) \in JobType /\ job(k) # Nothing /\ job(k).chunk = k
               /\ job(k).deps = {} /\ job(k).phase # "worker"
    <3> DEFINE parts == CacheParts(s, k)
               kind == s.demand[k]
               phase == IF parts = Nothing THEN "waiting" ELSE "cache"
               y == [ chunk |-> k, kind |-> kind, phase |-> phase, worker |-> Nothing,
                      clean |-> TRUE, parts |-> parts, deps |-> {} ]
    <3>1. job(k) = y
      OBVIOUS
    <3>2. /\ parts \in OrNone(AllParts) /\ k \in Chunk /\ kind \in Kind
          /\ phase \in {"waiting", "cache"} /\ Nothing \in OrNone(Worker)
      BY <1>1, <2>4, PartsType DEF OrNone
    <3>3. k \in OrNone(Chunk)
      BY <3>2 DEF OrNone
    <3> HIDE DEF job, parts, kind, phase
    <3>4. /\ y \in JobType /\ y.chunk = k /\ y.deps = {} /\ y.phase # "worker"
      BY <3>2, <3>3 DEF JobType
    <3> HIDE DEF y
    <3> QED
      BY <3>1, <3>4, JobParts
  <2> HIDE DEF job
  <2>7. ASSUME NEW j \in JobId
        PROVE  /\ t.jobs[j] \in OrNone(JobType)
               /\ s.jobs[j] # Nothing => t.jobs[j] = s.jobs[j]
               /\ s.jobs[j] = Nothing /\ t.jobs[j] # Nothing =>
                    t.jobs[j].deps = {} /\ t.jobs[j].phase # "worker"
    <3>1. CASE taker(j) = {}
      BY <1>1, <2>1, <3>1, StateParts DEF OrNone
    <3>2. CASE taker(j) # {}
      <4>1. t.jobs[j] = job(first(j)) /\ s.jobs[j] = Nothing /\ first(j) \in K
        BY <2>1, <2>5, <3>2
      <4> QED
        BY <2>6, <4>1 DEF OrNone
    <3> QED
      BY <3>1, <3>2
  <2>8. ASSUME NEW k \in Chunk, Has(s, k)
        PROVE  /\ t.chunks[k] \in EntryType /\ t.chunks[k].pins = s.chunks[k].pins
               /\ t.chunks[k].pend = (IF k \in K THEN slot[k] ELSE s.chunks[k].pend)
               /\ SameData(s, t, k)
    <3> DEFINE e == s.chunks[k]
    <3>1. e \in EntryType
      BY <1>1, <2>8, StateParts
    <3>2. t.chunks[k] = IF k \in K THEN [e EXCEPT !.pend = slot[k]] ELSE e
      BY <2>1
    <3>3. k \in K => slot[k] \in OrNone(JobId)
      BY <2>4 DEF OrNone
    <3> HIDE DEF e
    <3>4. /\ t.chunks[k] \in EntryType /\ t.chunks[k].pins = e.pins
          /\ t.chunks[k].pend = (IF k \in K THEN slot[k] ELSE e.pend)
          /\ t.chunks[k].st = e.st /\ t.chunks[k].dig = e.dig
          /\ t.chunks[k].mask = e.mask /\ t.chunks[k].req = e.req /\ t.chunks[k].res = e.res
      <4>1. CASE k \in K
        BY <3>1, <3>2, <3>3, <4>1 DEF EntryType
      <4>2. CASE k \notin K
        BY <3>1, <3>2, <4>2
      <4> QED
        BY <4>1, <4>2
    <3>5. Has(t, k)
      BY <3>4, EntryParts DEF Has
    <3> QED
      BY <2>8, <3>4, <3>5 DEF SameData, e
  <2>9. ASSUME NEW k \in Chunk, ~Has(s, k)
        PROVE  t.chunks[k] = Nothing /\ SameData(s, t, k)
    <3>1. k \notin K /\ s.chunks[k] = Nothing
      BY <2>4, <2>9 DEF Has
    <3>2. t.chunks[k] = Nothing
      BY <2>1, <3>1
    <3> QED
      BY <2>9, <3>2 DEF SameData, Has
  <2>10. t \in StateType
    <3>1. \A k \in Chunk : t.chunks[k] \in OrNone(EntryType)
      BY <2>8, <2>9 DEF OrNone
    <3>2. t.chunks \in [Chunk -> OrNone(EntryType)]
      BY <2>1, <3>1
    <3>3. t.jobs \in [JobId -> OrNone(JobType)]
      BY <2>1, <2>7
    <3> QED
      BY <1>1, <2>1, <3>2, <3>3, Zenon DEF StateType
  <2>11. Pinned(t)
    <3>1. ASSUME NEW k \in Chunk PROVE Users(t, k) = Users(s, k)
      BY <2>7 DEF Users
    <3> QED
      BY <2>8, <2>9, <3>1 DEF Sound, Pinned, SameData
  <2>12. Held(t) /\ Due(t) /\ NoNewWaits(s, t)
    <3>1. \A k \in Chunk : SameData(s, t, k)
      BY <2>8, <2>9
    <3>2. Longer(s, t)
      BY <2>1 DEF Longer
    <3> QED
      BY <2>1, <3>1, <3>2, DataKept, Zenon DEF Sound
  <2>13. Pending(t)
    <3> SUFFICES ASSUME NEW k \in Chunk, Has(t, k), t.chunks[k].pend # Nothing
                 PROVE  /\ t.jobs[t.chunks[k].pend] # Nothing
                        /\ t.jobs[t.chunks[k].pend].chunk = k
      BY DEF Pending
    <3>1. Has(s, k)
      BY <2>9 DEF Has
    <3>2. CASE k \in K
      <4>1. t.chunks[k].pend = slot[k] /\ slot[k] \in JobId
              /\ first(slot[k]) = k /\ taker(slot[k]) # {}
        BY <2>4, <2>8, <3>1, <3>2
      <4>2. t.jobs[slot[k]] = job(k)
        BY <2>1, <4>1
      <4> QED
        BY <2>6, <3>2, <4>1, <4>2
    <3>3. CASE k \notin K
      <4> DEFINE j == s.chunks[k].pend
      <4>1. t.chunks[k].pend = j /\ j # Nothing
        BY <2>8, <3>1, <3>3
      <4>2. j \in JobId
        BY <1>1, <3>1, <4>1, StateParts, EntryParts DEF OrNone
      <4>3. s.jobs[j] # Nothing /\ s.jobs[j].chunk = k
        BY <3>1, <4>1 DEF Sound, Pending
      <4> HIDE DEF j
      <4> QED
        BY <2>7, <4>1, <4>2, <4>3
    <3> QED
      BY <3>2, <3>3
  <2>14. Tasks(t)
    <3>1. ASSUME NEW w \in Worker, NEW i \in 1..Len(t.reply[w]), EndsTask(t, w, i)
          PROVE  Carried(s, t, w, i)
      <4>1. EndsTask(s, w, i) /\ i \in 1..Len(s.reply[w])
        BY <2>1, <3>1 DEF EndsTask
      <4>2. Runs(s, w, i) /\ s.reply[w][i].job \in JobId
        BY <1>1, <4>1, MessageParts DEF Sound, Tasks, EndsTask
      <4>3. TaskOf(t, w, i) = TaskOf(s, w, i)
        BY <2>1, <2>7, <4>2 DEF TaskOf, Runs
      <4> QED
        BY <2>1, <4>1, <4>2, <4>3 DEF Carried, Runs
    <3>2. \A j \in JobId : t.jobs[j] # Nothing /\ t.jobs[j].phase # "worker" =>
            t.jobs[j].deps = {}
      BY <2>7 DEF Sound, Tasks
    <3> QED
      BY <3>1, <3>2, TasksKept DEF Sound
  <2> QED
    BY <2>10, <2>11, <2>12, <2>13, <2>14 DEF Moves, Sound, t
<1> QED
  BY <1>2, <1>3

LEMMA SweptDispatch ==
  ASSUME NEW s, Sound(s), NEW t \in Dispatched(SweepJobs(s))
  PROVE  Moves(s, t)
<1> DEFINE a == SweepJobs(s)
<1>1. Moves(s, a) /\ Swept(a) /\ Sound(a)
  BY SweepMoves DEF Moves
<1>2. PICK p \in Plans(a) : t = DispatchWorkerMesh(a, p)
  BY DEF Dispatched
<1> HIDE DEF a
<1>3. Moves(a, t)
  BY <1>1, <1>2, DispatchMoves
<1> QED
  BY <1>1, <1>3, MovesThen

LEMMA StartMoves ==
  ASSUME NEW s, Sound(s), NEW S, NEW t \in FlushStarting(s, S)
  PROVE  Moves(s, t)
<1>1. PICK d \in Dispatched(SweepJobs(s)) :
        t \in Dispatched(SweepJobs(RequestMesh(d, S \cap Runnable(d))))
  BY DEF FlushStarting
<1>2. Moves(s, d) /\ Sound(d)
  BY SweptDispatch DEF Moves
<1> DEFINE r == RequestMesh(d, S \cap Runnable(d))
<1>3. S \cap Runnable(d) \in SUBSET Runnable(d)
  OBVIOUS
<1>4. Moves(d, r) /\ Sound(r)
  BY <1>2, <1>3, RequestMoves DEF Moves
<1>5. t \in Dispatched(SweepJobs(r))
  BY <1>1
<1> HIDE DEF r
<1>6. Moves(r, t)
  BY <1>4, <1>5, SweptDispatch
<1> QED
  BY <1>2, <1>4, <1>6, MovesThen

LEMMA FlushMoves ==
  ASSUME NEW s, Sound(s), NEW t \in Flushes(s)
  PROVE  Moves(s, t)
<1>1. CASE s.up
  <2>1. PICK S \in SUBSET Runnable(s) : t \in FlushStarting(s, S)
    BY <1>1 DEF Flushes
  <2> QED
    BY <2>1, StartMoves
<1>2. CASE ~s.up
  <2>1. t = s
    BY <1>2 DEF Flushes
  <2>2. Calmer(s, t, {})
    BY <2>1, CalmerSelf DEF Sound
  <2> QED
    BY <2>2, CalmerSound
<1> QED
  BY <1>1, <1>2

-----------------------------------------------------------------------------
(* Contents go to the workers.                                              *)

LEMMA SendMoves ==
  ASSUME NEW s, Sound(s), NEW k \in Chunk, Has(s, k), s.chunks[k].st = "fetching",
         NEW d \in Content, s.chunks[k].dig = d
  PROVE  LET a == Put(s, k, [s.chunks[k] EXCEPT !.st = "decoding", !.mask = {}])
         IN  /\ Moves(s, SendChunkToWorkers(a, k, d))
             /\ SendChunkToWorkers(a, k, d).chunks[k].st = "decoding"
<1> DEFINE e == [s.chunks[k] EXCEPT !.st = "decoding", !.mask = {}]
           a == Put(s, k, e)
           t == SendChunkToWorkers(a, k, d)
           m == [type |-> "chunk", chunk |-> k, dig |-> d]
<1>1. s \in StateType /\ s.chunks[k] \in EntryType
  BY StateParts DEF Sound
<1>2. /\ e \in EntryType /\ e.pins = s.chunks[k].pins /\ e.pend = s.chunks[k].pend
      /\ e.st = "decoding" /\ e.dig = d /\ e.mask = {}
  BY <1>1 DEF EntryType
<1> HIDE DEF e
<1>3. e \in OrNone(EntryType) /\ e # Nothing
  BY <1>2, EntryParts DEF OrNone
<1>4. /\ a \in StateType /\ a.chunks[k] = e
      /\ \A n \in Chunk : n # k => a.chunks[n] = s.chunks[n]
      /\ a.jobs = s.jobs /\ a.column = s.column /\ a.reply = s.reply
  BY <1>1, <1>3, PutEntry
<1> HIDE DEF a
<1>5. /\ t.chunks = a.chunks /\ t.jobs = s.jobs
      /\ t.column = [w \in Worker |-> IF d \in Malformed THEN s.column[w]
                                      ELSE [s.column[w] EXCEPT ![k] = d]]
      /\ t.reply = [w \in Worker |-> Append(s.reply[w], m)]
      /\ t = [a EXCEPT !.column = t.column, !.reply = t.reply]
  BY <1>4 DEF SendChunkToWorkers, StateType
<1> HIDE DEF t
<1>6. m \in MessageType /\ m.type = "chunk" /\ m.chunk = k /\ m.dig = d
  BY DEF MessageType
<1> HIDE DEF m
<1>7. ASSUME NEW w \in Worker
      PROVE  /\ t.reply[w] \in Seq(MessageType) /\ Len(s.reply[w]) \in Nat
             /\ Len(t.reply[w]) = Len(s.reply[w]) + 1
             /\ \A i \in 1..Len(s.reply[w]) : t.reply[w][i] = s.reply[w][i]
             /\ t.reply[w][Len(s.reply[w]) + 1] = m
  <2>1. s.reply[w] \in Seq(MessageType) /\ t.reply[w] = Append(s.reply[w], m)
    BY <1>1, <1>5, StateParts
  <2> QED
    BY <1>6, <2>1, AppendProperties, LenProperties
<1>8. ASSUME NEW w \in Worker
      PROVE  /\ t.column[w] \in Columns(Chunk)
             /\ \A n \in Chunk : n # k => t.column[w][n] = s.column[w][n]
             /\ d \notin Malformed => t.column[w][k] = d
  <2>1. s.column[w] \in [Chunk -> OrNone(Content)]
    BY <1>1, StateParts DEF Columns
  <2>2. t.column[w] = IF d \in Malformed THEN s.column[w] ELSE [s.column[w] EXCEPT ![k] = d]
    BY <1>5
  <2>3. d \in OrNone(Content)
    BY DEF OrNone
  <2> QED
    BY <2>1, <2>2, <2>3 DEF Columns
<1>9. t \in StateType
  <2>1. t.column \in [Worker -> Columns(Chunk)]
    BY <1>5, <1>8
  <2>2. t.reply \in [Worker -> Seq(MessageType)]
    BY <1>5, <1>7
  <2> QED
    BY <1>4, <1>5, <2>1, <2>2 DEF StateType
<1>10. /\ Has(t, k) /\ t.chunks[k] = e
       /\ \A n \in Chunk : n # k => t.chunks[n] = s.chunks[n]
  BY <1>3, <1>4, <1>5 DEF Has
<1>11. Pinned(t)
  <2>1. \A n \in Chunk : Users(t, n) = Users(s, n)
    BY <1>5 DEF Users
  <2> QED
    BY <1>2, <1>10, <2>1 DEF Sound, Pinned, Has
<1>12. Held(t)
  <2> SUFFICES ASSUME NEW n \in Chunk, Has(t, n), t.chunks[n].st \in {"decoding", "stored"}
               PROVE  /\ t.chunks[n].st = "stored" => t.chunks[n].dig \notin Malformed
                      /\ t.chunks[n].dig \notin Malformed =>
                           \A w \in Worker : t.column[w][n] = t.chunks[n].dig
    BY DEF Held
  <2>1. CASE n = k
    BY <1>2, <1>8, <1>10, <2>1
  <2>2. CASE n # k
    BY <1>8, <1>10, <2>2 DEF Sound, Held, Has
  <2> QED
    BY <2>1, <2>2
<1>13. Due(t)
  <2> SUFFICES ASSUME NEW n \in Chunk, Has(t, n), t.chunks[n].st = "decoding",
                      NEW w \in Worker \ t.chunks[n].mask
               PROVE  \E i \in 1..Len(t.reply[w]) : Answers(t, w, i, n, t.chunks[n].dig)
    BY DEF Due
  <2>1. CASE n = k
    <3>1. Len(s.reply[w]) + 1 \in 1..Len(t.reply[w])
      BY <1>7
    <3>2. Answers(t, w, Len(s.reply[w]) + 1, n, t.chunks[n].dig)
      BY <1>2, <1>6, <1>7, <1>10, <2>1 DEF Answers
    <3> QED
      BY <3>1, <3>2
  <2>2. CASE n # k
    <3>1. t.chunks[n] = s.chunks[n] /\ Has(s, n)
      BY <1>10, <2>2 DEF Has
    <3>2. PICK i \in 1..Len(s.reply[w]) : Answers(s, w, i, n, s.chunks[n].dig)
      BY <3>1 DEF Sound, Due
    <3>3. i \in 1..Len(t.reply[w]) /\ t.reply[w][i] = s.reply[w][i]
      BY <1>7
    <3>4. Answers(t, w, i, n, t.chunks[n].dig)
      BY <3>1, <3>2, <3>3 DEF Answers
    <3> QED
      BY <3>3, <3>4
  <2> QED
    BY <2>1, <2>2
<1>14. Pending(t)
  BY <1>2, <1>5, <1>10 DEF Sound, Pending, Has
<1>15. Tasks(t)
  <2>1. ASSUME NEW w \in Worker, NEW i \in 1..Len(t.reply[w]), EndsTask(t, w, i)
        PROVE  Carried(s, t, w, i)
    <3>1. i # Len(s.reply[w]) + 1
      BY <1>6, <1>7, <2>1 DEF EndsTask
    <3>2. i \in 1..Len(s.reply[w]) /\ t.reply[w][i] = s.reply[w][i]
      BY <1>7, <3>1
    <3>3. EndsTask(s, w, i)
      BY <2>1, <3>2 DEF EndsTask
    <3>4. Runs(s, w, i)
      BY <3>2, <3>3 DEF Sound, Tasks
    <3> QED
      BY <1>5, <3>2, <3>3, <3>4, Zenon DEF Carried, Runs, TaskOf
  <2>2. \A j \in JobId : t.jobs[j] # Nothing /\ t.jobs[j].phase # "worker" => t.jobs[j].deps = {}
    BY <1>5 DEF Sound, Tasks
  <2> QED
    BY <2>1, <2>2, TasksKept DEF Sound
<1>16. NoNewWaits(s, t)
  BY <1>2, <1>10 DEF NoNewWaits, Waits, Has
<1>17. Moves(s, t) /\ t.chunks[k].st = "decoding"
  BY <1>2, <1>9, <1>10, <1>11, <1>12, <1>13, <1>14, <1>15, <1>16 DEF Moves, Sound
<1> QED
  BY <1>17 DEF t, a, e

LEMMA FetchedMoves ==
  ASSUME NEW s, Sound(s), NEW k \in Chunk, Has(s, k), NEW v,
         s.chunks[k].st = "fetching" => s.chunks[k].dig = Source[v][k]
                                        /\ Source[v][k] \in Content
  PROVE  /\ Moves(s, HandleFetchedChunk(s, k, v))
         /\ s.chunks[k].st # "fetching" => HandleFetchedChunk(s, k, v) = s
         /\ s.chunks[k].st = "fetching" =>
              HandleFetchedChunk(s, k, v).chunks[k].st \in {"hashed", "decoding"}
<1> DEFINE t == HandleFetchedChunk(s, k, v)
           e == [s.chunks[k] EXCEPT !.st = "hashed"]
           a == Put(s, k, e)
           f == EnqueueFetch(a, k)
<1>1. s \in StateType /\ s.chunks[k] \in EntryType
  BY StateParts DEF Sound
<1>2. CASE s.chunks[k].st # "fetching"
  <2>1. t = s
    BY <1>2 DEF HandleFetchedChunk
  <2> HIDE DEF t
  <2>2. Calmer(s, t, {})
    BY <1>1, <2>1, CalmerSelf
  <2> QED
    BY <1>2, <2>1, <2>2, CalmerSound DEF t
<1>3. CASE s.chunks[k].st = "fetching" /\ ~s.up
  <2>1. t = f
    BY <1>3 DEF HandleFetchedChunk, Put
  <2> HIDE DEF t
  <2>2. /\ e \in EntryType /\ e.pins = s.chunks[k].pins /\ e.pend = s.chunks[k].pend
        /\ e.st = "hashed"
    BY <1>1 DEF EntryType
  <2> HIDE DEF e
  <2>3. Calmer(s, a, {}) /\ a \in StateType /\ a.chunks[k] = e
    BY <1>1, <2>2, EntryStill
  <2> HIDE DEF a
  <2>4. Calmer(a, f, {}) /\ f.chunks = a.chunks
    BY <2>3, EnqueueCalmer
  <2> HIDE DEF f
  <2>5. Calmer(s, f, {})
    BY <2>3, <2>4, CalmerThen
  <2> QED
    BY <1>3, <2>1, <2>2, <2>3, <2>4, <2>5, CalmerSound DEF t
<1>4. CASE s.chunks[k].st = "fetching" /\ s.up
  <2> DEFINE d == Source[v][k]
             g == [s.chunks[k] EXCEPT !.st = "decoding", !.mask = {}]
  <2>1. t = SendChunkToWorkers(Put(s, k, g), k, d)
    BY <1>4 DEF HandleFetchedChunk, Put
  <2>2. d \in Content /\ s.chunks[k].dig = d
    BY <1>4
  <2> HIDE DEF d, t
  <2>3. LET b == Put(s, k, [s.chunks[k] EXCEPT !.st = "decoding", !.mask = {}])
        IN  /\ Moves(s, SendChunkToWorkers(b, k, d))
            /\ SendChunkToWorkers(b, k, d).chunks[k].st = "decoding"
    BY <1>4, <2>2, SendMoves, Zenon
  <2>4. Moves(s, t) /\ t.chunks[k].st = "decoding"
    BY <2>1, <2>3, Zenon
  <2> QED
    BY <1>4, <2>4 DEF t
<1> QED
  BY <1>2, <1>3, <1>4

-----------------------------------------------------------------------------
(* A message from a worker is taken off the queue.                          *)

LEMMA HeardParts ==
  ASSUME NEW r, Sound(r), NEW w \in Worker, r.reply[w] # <<>>, NEW s, s = Heard(r, w),
         NEW m, m = Head(r.reply[w])
  PROVE  /\ Steady(s) /\ NoNewWaits(r, s) /\ DueBut(s, w, m)
         /\ s.chunks = r.chunks /\ s.jobs = r.jobs /\ s.column = r.column
         /\ m.type \in {"chunk", "mesh"}
         /\ m.type = "chunk" => m.chunk \in Chunk /\ m.dig \in Content
         /\ m.type = "mesh" =>
              /\ m.job \in JobId /\ s.jobs[m.job] # Nothing /\ m.from \in From
              /\ Unposted(s, {m.job})
<1>1. r \in StateType /\ r.reply[w] \in Seq(MessageType)
  BY StateParts DEF Sound
<1>2. /\ s.chunks = r.chunks /\ s.jobs = r.jobs /\ s.column = r.column
      /\ s.reply[w] = Tail(r.reply[w])
      /\ \A v \in Worker : v # w => s.reply[v] = r.reply[v]
      /\ s.reply = [r.reply EXCEPT ![w] = Tail(r.reply[w])]
      /\ s = [r EXCEPT !.reply = s.reply]
  BY <1>1 DEF Heard, StateType
<1>3. /\ s.reply[w] \in Seq(MessageType) /\ Len(r.reply[w]) \in Nat /\ Len(s.reply[w]) \in Nat
      /\ Len(s.reply[w]) = Len(r.reply[w]) - 1
      /\ \A i \in 1..Len(s.reply[w]) : s.reply[w][i] = r.reply[w][i + 1]
      /\ m = r.reply[w][1] /\ 1 \in 1..Len(r.reply[w])
  <2>1. /\ s.reply[w] \in Seq(MessageType) /\ Len(s.reply[w]) = Len(r.reply[w]) - 1
        /\ \A i \in 1..Len(s.reply[w]) : s.reply[w][i] = r.reply[w][i + 1]
    BY <1>1, <1>2, HeadTailProperties
  <2>2. Len(r.reply[w]) \in Nat /\ Len(s.reply[w]) \in Nat
    BY <1>1, <2>1, LenProperties
  <2>3. m = r.reply[w][1]
    BY <1>1
  <2>4. Len(r.reply[w]) # 0
    BY <1>1, <2>2
  <2>5. 1 \in 1..Len(r.reply[w])
    BY <2>2, <2>4
  <2> QED
    BY <2>1, <2>2, <2>3, <2>5
<1>4. s \in StateType
  <2>1. s.reply \in [Worker -> Seq(MessageType)]
    BY <1>1, <1>2, <1>3, StateParts
  <2> QED
    BY <1>1, <1>2, <2>1 DEF StateType
<1>5. Pinned(s) /\ Held(s) /\ Pending(s) /\ NoNewWaits(r, s)
  <2>1. \A k \in Chunk : Users(s, k) = Users(r, k)
    BY <1>2 DEF Users
  <2>2. Pinned(s)
    BY <1>2, <2>1 DEF Sound, Pinned, Has
  <2>3. Held(s) /\ Pending(s)
    BY <1>2 DEF Sound, Held, Pending, Has
  <2> QED
    BY <1>2, <2>2, <2>3 DEF NoNewWaits, Waits, Has
(* Where a message that is left was before. *)
<1>6. ASSUME NEW v \in Worker, NEW i \in 1..Len(s.reply[v])
      PROVE  \E h \in 1..Len(r.reply[v]) :
               /\ s.reply[v][i] = r.reply[v][h] /\ (v = w => h # 1)
               /\ \A g \in 1..Len(s.reply[v]) : g # i =>
                    \E f \in 1..Len(r.reply[v]) : f # h /\ s.reply[v][g] = r.reply[v][f]
  <2>1. CASE v = w
    <3>1. \A g \in 1..Len(s.reply[w]) :
            g + 1 \in 1..Len(r.reply[w]) /\ g + 1 # 1 /\ s.reply[w][g] = r.reply[w][g + 1]
      <4> SUFFICES ASSUME NEW g \in 1..Len(s.reply[w])
                   PROVE  /\ g + 1 \in 1..Len(r.reply[w]) /\ g + 1 # 1
                          /\ s.reply[w][g] = r.reply[w][g + 1]
        OBVIOUS
      <4>1. Len(s.reply[w]) + 1 = Len(r.reply[w]) /\ Len(s.reply[w]) \in Nat
        BY <1>3
      <4>2. g + 1 \in 1..Len(r.reply[w]) /\ g + 1 # 1
        BY <4>1
      <4> QED
        BY <1>3, <4>2
    <3>2. \A g \in 1..Len(s.reply[w]) : g # i => g + 1 # i + 1
      BY <2>1
    <3> QED
      BY <2>1, <3>1, <3>2
  <2>2. CASE v # w
    BY <1>2, <2>2
  <2> QED
    BY <2>1, <2>2
<1>7. ASSUME NEW v \in Worker, NEW i \in 1..Len(s.reply[v]), EndsTask(s, v, i)
      PROVE  /\ Runs(s, v, i) /\ Alone(s, v, i)
             /\ s.reply[v][i].job \in JobId
             /\ m.type = "mesh" => s.reply[v][i].job # m.job
  <2>1. PICK h \in 1..Len(r.reply[v]) :
               /\ s.reply[v][i] = r.reply[v][h] /\ (v = w => h # 1)
               /\ \A g \in 1..Len(s.reply[v]) : g # i =>
                    \E f \in 1..Len(r.reply[v]) : f # h /\ s.reply[v][g] = r.reply[v][f]
    BY <1>6, SMTT(30)
  <2>2. EndsTask(r, v, h)
    BY <1>7, <2>1 DEF EndsTask
  <2>3. Runs(r, v, h) /\ Alone(r, v, h)
    BY <2>2 DEF Sound, Tasks
  <2>4. Runs(s, v, i)
    BY <1>2, <2>1, <2>3 DEF Runs, TaskOf
  <2>5. Alone(s, v, i)
    BY <2>1, <2>3 DEF Alone, EndsTask
  <2>6. s.reply[v][i].job \in JobId
    BY <1>1, <2>1, <2>2, MessageParts DEF EndsTask
  <2>7. ASSUME m.type = "mesh", s.reply[v][i].job = m.job PROVE FALSE
    <3>1. EndsTask(r, w, 1)
      BY <1>3, <2>7 DEF EndsTask
    <3>2. Runs(r, w, 1) /\ Alone(r, w, 1)
      BY <1>3, <3>1 DEF Sound, Tasks
    <3>3. TaskOf(r, w, 1) = TaskOf(r, v, h)
      BY <1>3, <2>1, <2>7 DEF TaskOf
    <3>4. v = w
      BY <2>3, <3>2, <3>3 DEF Runs
    <3> QED
      BY <2>1, <2>2, <3>2, <3>4 DEF Alone
  <2> QED
    BY <2>4, <2>5, <2>6, <2>7
<1>8. Tasks(s)
  BY <1>2, <1>7 DEF Sound, Tasks
<1>9. DueBut(s, w, m)
  <2> SUFFICES ASSUME NEW k \in Chunk, Has(s, k), s.chunks[k].st = "decoding",
                      NEW v \in Worker \ s.chunks[k].mask,
                      ~(v = w /\ m.type = "chunk" /\ m.chunk = k /\ m.dig = s.chunks[k].dig)
               PROVE  \E i \in 1..Len(s.reply[v]) : Answers(s, v, i, k, s.chunks[k].dig)
    BY DEF DueBut
  <2>1. PICK h \in 1..Len(r.reply[v]) : Answers(r, v, h, k, s.chunks[k].dig)
    BY <1>2 DEF Sound, Due, Has
  <2>2. CASE v # w
    BY <1>2, <2>1, <2>2 DEF Answers
  <2>3. CASE v = w
    <3>1. h # 1
      BY <1>3, <2>1, <2>3 DEF Answers
    <3>2. h - 1 \in 1..Len(s.reply[w]) /\ (h - 1) + 1 = h
      BY <1>3, <2>3, <3>1
    <3>3. s.reply[w][h - 1] = r.reply[w][h]
      BY <1>3, <3>2
    <3>4. Answers(s, v, h - 1, k, s.chunks[k].dig)
      BY <2>1, <2>3, <3>3 DEF Answers
    <3> QED
      BY <2>3, <3>2, <3>4
  <2> QED
    BY <2>2, <2>3
<1>10. /\ m.type \in {"chunk", "mesh"}
       /\ m.type = "chunk" => m.chunk \in Chunk /\ m.dig \in Content
       /\ m.type = "mesh" => m.job \in JobId /\ m.from \in From
  BY <1>1, <1>3, MessageParts
<1>11. ASSUME m.type = "mesh"
       PROVE  s.jobs[m.job] # Nothing /\ Unposted(s, {m.job})
  <2>1. EndsTask(r, w, 1)
    BY <1>3, <1>11 DEF EndsTask
  <2>2. Runs(r, w, 1)
    BY <1>3, <2>1 DEF Sound, Tasks
  <2>3. s.jobs[m.job] # Nothing
    BY <1>2, <1>3, <2>2 DEF Runs, TaskOf
  <2> QED
    BY <1>7, <1>11, <2>3 DEF Unposted
<1> QED
  BY <1>2, <1>4, <1>5, <1>8, <1>9, <1>10, <1>11 DEF Steady

(* The message was about nothing that anybody waits for. *)
LEMMA Unheard ==
  ASSUME NEW r, NEW s, Steady(s), NoNewWaits(r, s), NEW w, NEW m, DueBut(s, w, m),
         m.type = "chunk" =>
           ~(Has(s, m.chunk) /\ s.chunks[m.chunk].st = "decoding"
             /\ s.chunks[m.chunk].dig = m.dig)
  PROVE  Moves(r, s)
<1>1. Due(s)
  BY DEF DueBut, Due
<1> QED
  BY <1>1 DEF Moves, Sound, Steady

(* The acknowledgement of w is noted. *)
LEMMA Acknowledged ==
  ASSUME NEW r, NEW s, Steady(s), NoNewWaits(r, s), NEW w \in Worker, NEW m, DueBut(s, w, m),
         NEW k \in Chunk, m.chunk = k, m.dig = s.chunks[k].dig, m.dig \notin Malformed,
         Has(s, k), s.chunks[k].st \in {"decoding", "stored"},
         NEW e \in EntryType, e.pins = s.chunks[k].pins, e.pend = s.chunks[k].pend,
         e.st \in {s.chunks[k].st, "stored"}, e.dig = s.chunks[k].dig,
         e.mask = s.chunks[k].mask \cup {w}, NEW t, t = Put(s, k, e)
  PROVE  Moves(r, t)
<1>1. s \in StateType
  BY DEF Steady
<1>2. /\ Calmer(s, t, {k}) /\ t \in StateType /\ Has(t, k) /\ t.chunks[k] = e
      /\ t.column = s.column /\ t.reply = s.reply /\ t.jobs = s.jobs
      /\ \A n \in Chunk : n # k => t.chunks[n] = s.chunks[n]
  <2>1. e \in OrNone(EntryType)
    BY DEF OrNone
  <2>2. \A n \in Chunk : n # k => t.chunks[n] = s.chunks[n]
    BY <1>1, <2>1, PutEntry
  <2>3. e.pend \in {s.chunks[k].pend, Nothing}
    OBVIOUS
  <2>4. /\ Calmer(s, t, {k}) /\ t \in StateType /\ Has(t, k) /\ t.chunks[k] = e
        /\ t.column = s.column /\ t.reply = s.reply /\ t.jobs = s.jobs
    BY <1>1, <2>3, EntryCalmer
  <2> QED
    BY <2>2, <2>4
<1>3. Pinned(t)
  <2>1. \A n \in Chunk : Users(t, n) = Users(s, n)
    BY <1>2 DEF Users
  <2> QED
    BY <1>2, <2>1 DEF Steady, Pinned, Has
<1>4. Held(t)
  BY <1>2 DEF Steady, Held, Has
<1>5. Pending(t)
  BY <1>2 DEF Steady, Pending, Has
<1>6. Tasks(t)
  <2>1. ASSUME NEW v \in Worker, NEW i \in 1..Len(t.reply[v]), EndsTask(t, v, i)
        PROVE  Carried(s, t, v, i)
    <3>1. EndsTask(s, v, i) /\ i \in 1..Len(s.reply[v])
      BY <1>2, <2>1 DEF EndsTask
    <3>2. Runs(s, v, i)
      BY <3>1 DEF Steady, Tasks
    <3> QED
      BY <1>2, <3>1, <3>2 DEF Carried, Runs, TaskOf
  <2>2. \A j \in JobId : t.jobs[j] # Nothing /\ t.jobs[j].phase # "worker" => t.jobs[j].deps = {}
    BY <1>2 DEF Steady, Tasks
  <2> QED
    BY <2>1, <2>2, TasksKept DEF Steady
<1>7. Due(t)
  <2> SUFFICES ASSUME NEW n \in Chunk, Has(t, n), t.chunks[n].st = "decoding",
                      NEW v \in Worker \ t.chunks[n].mask
               PROVE  \E i \in 1..Len(t.reply[v]) : Answers(t, v, i, n, t.chunks[n].dig)
    BY DEF Due
  <2>1. /\ Has(s, n) /\ s.chunks[n].st = "decoding" /\ v \in Worker \ s.chunks[n].mask
        /\ ~(v = w /\ m.chunk = n) /\ t.chunks[n].dig = s.chunks[n].dig
    BY <1>2 DEF Has
  <2>2. \E i \in 1..Len(s.reply[v]) : Answers(s, v, i, n, s.chunks[n].dig)
    BY <2>1 DEF DueBut
  <2> QED
    BY <1>2, <2>1, <2>2 DEF Answers
<1>8. NoNewWaits(r, t)
  BY <1>2 DEF NoNewWaits, Waits, Has
<1> QED
  BY <1>2, <1>3, <1>4, <1>5, <1>6, <1>7, <1>8 DEF Moves, Sound

LEMMA ReadyMoves ==
  ASSUME NEW r, NEW s, Steady(s), NoNewWaits(r, s), NEW w \in Worker, NEW m, DueBut(s, w, m),
         m.type = "chunk", m.chunk \in Chunk, m.dig \in Content, m.dig \notin Malformed,
         NEW t \in HandleChunkReady(s, w, m.chunk, m.dig)
  PROVE  Moves(r, t)
<1> DEFINE k == m.chunk
           d == m.dig
           e == s.chunks[k]
           e1 == [e EXCEPT !.mask = e.mask \cup {w}]
           s1 == Put(s, k, e1)
           e2 == [e1 EXCEPT !.st = "stored", !.readyDig = d]
           s2 == Put(s, k, e2)
           s3 == IF e.readyDig = d THEN s2 ELSE MarkNeighborsDirty(s2, k)
<1>1. s \in StateType
  BY DEF Steady
<1>2. CASE ~Has(s, k)
  <2>1. t = BroadcastDrop(s, k)
    BY <1>2 DEF HandleChunkReady
  <2>2. Moves(r, s)
    BY <1>2, Unheard
  <2>3. Calmer(s, BroadcastDrop(s, k), {})
    BY <1>1, <1>2, DropCalmer
  <2> QED
    BY <2>1, <2>2, <2>3, CalmerSound, MovesThen DEF Moves
<1>3. CASE Has(s, k) /\ (e.st \notin {"decoding", "stored"} \/ e.dig # d)
  <2>1. t = s
    BY <1>3 DEF HandleChunkReady
  <2>2. Moves(r, s)
    BY <1>3, Unheard
  <2> QED
    BY <2>1, <2>2
<1>4. CASE Has(s, k) /\ e.st \in {"decoding", "stored"} /\ e.dig = d
  <2>1. e \in EntryType /\ d \in OrNone(Content)
    BY <1>1, <1>4, StateParts DEF OrNone
  <2>2. s1.chunks[k] = e1 /\ [s1 EXCEPT !.chunks[k] = [@ EXCEPT !.st = "stored", !.readyDig = d]] = s2
    BY <1>1 DEF Put, StateType
  <2>3. IF e1.mask # Worker THEN t = s1 ELSE t \in Flushes(s3)
    BY <1>4, <2>2, Zenon DEF HandleChunkReady, Put
  <2>4. /\ e1 \in EntryType /\ e1.pins = e.pins /\ e1.pend = e.pend /\ e1.st = e.st
        /\ e1.dig = e.dig /\ e1.mask = e.mask \cup {w}
    BY <2>1 DEF EntryType
  <2>5. /\ e2 \in EntryType /\ e2.pins = e.pins /\ e2.pend = e.pend /\ e2.st = "stored"
        /\ e2.dig = e.dig /\ e2.mask = e.mask \cup {w}
    <3> HIDE DEF e1, d
    <3> QED
      BY <2>1, <2>4 DEF EntryType
  <2> HIDE DEF e1, e2
  <2>6. Moves(r, s1)
    <3> HIDE DEF s1
    <3>1. s1 = Put(s, k, e1)
      BY DEF s1
    <3> QED
      BY <1>4, <2>4, <3>1, Acknowledged
  <2>7. Moves(r, s2)
    <3> HIDE DEF s2
    <3>1. s2 = Put(s, k, e2)
      BY DEF s2
    <3> QED
      BY <1>4, <2>5, <3>1, Acknowledged
  <2> HIDE DEF s1, s2
  <2>8. Moves(r, s3)
    <3>1. Sound(s2) /\ s2 \in StateType
      BY <2>7 DEF Moves, Sound
    <3>2. Calmer(s2, MarkNeighborsDirty(s2, k), {})
      BY <3>1, NeighborsCalmer
    <3>3. Moves(s2, MarkNeighborsDirty(s2, k))
      BY <3>1, <3>2, CalmerSound
    <3> QED
      BY <2>7, <3>3, MovesThen
  <2> HIDE DEF s3
  <2>9. CASE e1.mask # Worker
    BY <2>3, <2>6, <2>9
  <2>10. CASE e1.mask = Worker
    BY <2>3, <2>8, <2>10, FlushMoves, MovesThen DEF Moves
  <2> QED
    BY <2>9, <2>10
<1> QED
  BY <1>2, <1>3, <1>4

LEMMA BrokenMoves ==
  ASSUME NEW r, NEW s, Steady(s), NoNewWaits(r, s), NEW w \in Worker, NEW m, DueBut(s, w, m),
         m.type = "chunk", m.chunk \in Chunk
  PROVE  Moves(r, HandleChunkError(s, m.chunk, m.dig))
<1> DEFINE k == m.chunk
           t == HandleChunkError(s, k, m.dig)
<1>1. s \in StateType
  BY DEF Steady
<1>2. CASE ~(Has(s, k) /\ s.chunks[k].dig = m.dig)
  <2>1. t = s
    BY <1>2 DEF HandleChunkError
  <2>2. Moves(r, s)
    BY <1>2, Unheard
  <2> QED
    BY <2>1, <2>2
<1>3. CASE Has(s, k) /\ s.chunks[k].dig = m.dig
  <2>1. t = MarkUnavailable(s, k, "error", FALSE, FALSE)
    BY <1>3 DEF HandleChunkError
  <2> HIDE DEF t
  <2>2. Calmer(s, t, {}) /\ t.chunks[k].st = "error"
    BY <1>1, <1>3, <2>1, MarkUnavailableCalmer
  <2>3. /\ t \in StateType /\ Pinned(t) /\ Held(t) /\ Pending(t) /\ Tasks(t)
    BY <1>1, <2>2, FlowsKeep DEF Steady
  <2>4. Due(t)
    <3> SUFFICES ASSUME NEW n \in Chunk, Has(t, n), t.chunks[n].st = "decoding",
                        NEW v \in Worker \ t.chunks[n].mask
                 PROVE  \E i \in 1..Len(t.reply[v]) : Answers(t, v, i, n, t.chunks[n].dig)
      BY DEF Due
    <3>1. n # k /\ Kept(s, t, n) /\ Still(s, t, n) /\ t.reply = s.reply
      BY <2>2 DEF Calmer
    <3>2. /\ Has(s, n) /\ s.chunks[n].st = "decoding" /\ v \in Worker \ s.chunks[n].mask
          /\ t.chunks[n].dig = s.chunks[n].dig
      BY <3>1 DEF Kept, Still
    <3>3. \E i \in 1..Len(s.reply[v]) : Answers(s, v, i, n, s.chunks[n].dig)
      BY <3>1, <3>2 DEF DueBut
    <3> QED
      BY <3>1, <3>2, <3>3 DEF Answers
  <2>5. NoNewWaits(s, t)
    BY <2>2, CalmerWaits
  <2> QED
    BY <2>3, <2>4, <2>5 DEF Moves, Sound, NoNewWaits, t
<1> QED
  BY <1>2, <1>3

LEMMA FinishMoves ==
  ASSUME NEW s, Sound(s), NEW j \in JobId, s.jobs[j] # Nothing, Unposted(s, {j}),
         NEW t \in Flushes(FinishMeshJob(s, j))
  PROVE  Moves(s, t)
<1> DEFINE a == FinishMeshJobs(s, {j})
<1>1. a = FinishMeshJob(s, j)
  BY DEF FinishMeshJob
<1>2. Ended(s, a, {j})
  BY FinishEnds DEF Sound
<1> HIDE DEF a
<1>3. Moves(s, a)
  BY <1>2, EndedMoves
<1> QED
  BY <1>1, <1>3, FlushMoves, MovesThen DEF Moves

LEMMA CalmerFinish ==
  ASSUME NEW s, Sound(s), NEW a, Calmer(s, a, {}), NEW j \in JobId, s.jobs[j] # Nothing,
         Unposted(s, {j}), NEW t \in Flushes(FinishMeshJob(a, j))
  PROVE  Moves(s, t)
<1>1. Moves(s, a) /\ Sound(a)
  BY CalmerSound DEF Moves
<1>2. a.jobs[j] # Nothing /\ Unposted(a, {j})
  BY DEF Calmer, SameJob, Unposted, EndsTask
<1>3. Moves(a, t)
  BY <1>1, <1>2, FinishMoves
<1> QED
  BY <1>1, <1>3, MovesThen

LEMMA ResultMoves ==
  ASSUME NEW s, Sound(s), NEW j \in JobId, s.jobs[j] # Nothing, Unposted(s, {j}),
         NEW from \in From, NEW t \in HandleMeshResult(s, j, from)
  PROVE  Moves(s, t)
<1> DEFINE job == s.jobs[j]
           next == IF ~IsCurrentMeshJob(s, j) THEN s
                   ELSE IF from[job.chunk] = Nothing
                        THEN RecoverMissingWorkerInput(s, job.chunk)
                   ELSE IF /\ s.chunks[job.chunk].st = "stored"
                           /\ ShouldAcceptMeshResult(s, j)
                        THEN ApplyMesh(s, j, [kind |-> job.kind, from |-> from])
                   ELSE s
<1>1. t \in Flushes(FinishMeshJob(next, j))
  BY DEF HandleMeshResult
<1>2. s \in StateType /\ job \in JobType /\ job.kind \in Kind
  BY StateParts, JobParts DEF Sound
<1>3. Calmer(s, s, {})
  BY <1>2, CalmerSelf
<1>4. ASSUME IsCurrentMeshJob(s, j)
      PROVE  /\ Calmer(s, RecoverMissingWorkerInput(s, job.chunk), {})
             /\ Calmer(s, ApplyMesh(s, j, [kind |-> job.kind, from |-> from]), {})
  <2>1. job.chunk \in Chunk /\ Has(s, job.chunk) /\ job.chunk # Nothing
    BY <1>2, <1>4, CurrentJob, NothingAssumption
  <2>2. [kind |-> job.kind, from |-> from] \in [kind : Kind, from : From]
    BY <1>2
  <2> QED
    BY <1>2, <2>1, <2>2, RecoverCalmer, ApplyCalmer
<1>5. Calmer(s, next, {})
  BY <1>3, <1>4
<1> HIDE DEF next
<1> QED
  BY <1>1, <1>5, CalmerFinish

LEMMA MeshErrorMoves ==
  ASSUME NEW s, Sound(s), NEW j \in JobId, s.jobs[j] # Nothing, Unposted(s, {j}),
         NEW t \in HandleMeshError(s, j)
  PROVE  Moves(s, t)
<1> DEFINE a == IF IsCurrentMeshJob(s, j)
                THEN MarkUnavailable(s, s.jobs[j].chunk, "error", FALSE, FALSE) ELSE s
<1>1. t \in Flushes(FinishMeshJob(a, j))
  BY DEF HandleMeshError
<1>2. s \in StateType
  BY DEF Sound
<1>3. Calmer(s, a, {})
  <2>1. CASE IsCurrentMeshJob(s, j)
    <3>1. s.jobs[j].chunk \in Chunk /\ Has(s, s.jobs[j].chunk)
      BY <1>2, <2>1, CurrentJob
    <3> QED
      BY <1>2, <2>1, <3>1, MarkUnavailableCalmer
  <2>2. CASE ~IsCurrentMeshJob(s, j)
    BY <1>2, <2>2, CalmerSelf
  <2> QED
    BY <2>1, <2>2
<1> HIDE DEF a
<1> QED
  BY <1>1, <1>3, CalmerFinish

LEMMA RepliesMove ==
  ASSUME Sound(rt), NEW w \in Worker, WorkerReplies(w)
  PROVE  Moves(rt, rt')
<1> DEFINE s == Heard(rt, w)
           m == Head(rt.reply[w])
<1> USE DEF Arrives, Heeds
<1>1. Arrives(s, w, m)
  BY HeardParts DEF WorkerReplies
<1>2. Heeds(s, w, m)
  BY DEF WorkerReplies, Heard
<1> HIDE DEF s, m
<1>3. CASE m.type = "chunk"
  BY <1>1, <1>2, <1>3, ReadyMoves, BrokenMoves
<1>4. CASE m.type = "mesh"
  <2>1. Moves(rt, s) /\ Sound(s)
    BY <1>1, <1>4, Unheard DEF Moves
  <2>2. Moves(s, rt')
    BY <1>1, <1>2, <1>4, <2>1, ResultMoves, MeshErrorMoves
  <2> QED
    BY <2>1, <2>2, MovesThen
<1> QED
  BY <1>1, <1>3, <1>4

-----------------------------------------------------------------------------
(* The other steps of the runtime.                                          *)

LEMMA CachedType ==
  ASSUME NEW kind \in Kind, NEW parts \in AllParts
  PROVE  MeshOfParts(kind, parts) \in [kind : Kind, from : From]
<1>1. PICK k \in Chunk : parts \in [Near[k] -> Content \cup {"missing"}]
  BY DEF AllParts
<1> DEFINE f == [n \in DOMAIN parts |-> IF parts[n] = "missing" THEN Nothing ELSE parts[n]]
<1>2. f \in Columns(Near[k])
  BY <1>1 DEF Columns, OrNone
<1>3. Columns(Near[k]) \in {Columns(Near[m]) : m \in Chunk}
  OBVIOUS
<1>4. MeshOfParts(kind, parts) = [kind |-> kind, from |-> f]
  BY DEF MeshOfParts
<1> HIDE DEF f
<1>5. f \in From
  BY <1>2, <1>3, Zenon DEF From
<1> QED
  BY <1>4, <1>5

(* The cache has no mesh: the job waits for a worker. *)
LEMMA MissMoves ==
  ASSUME NEW s, Sound(s), NEW j \in JobId, s.jobs[j] # Nothing, s.jobs[j].phase = "cache",
         NEW t, t = [s EXCEPT !.jobs[j] = [@ EXCEPT !.phase = "waiting"]]
  PROVE  Moves(s, t)
<1> DEFINE x == [s.jobs[j] EXCEPT !.phase = "waiting"]
<1>1. s \in StateType /\ s.jobs[j] \in JobType
  BY StateParts DEF Sound
<1>2. /\ x \in JobType /\ x.phase = "waiting" /\ x.chunk = s.jobs[j].chunk
      /\ x.deps = s.jobs[j].deps /\ x.worker = s.jobs[j].worker
  BY <1>1 DEF JobType
<1>3. t = [s EXCEPT !.jobs[j] = x]
  OBVIOUS
<1> HIDE DEF x
<1>4. x # Nothing /\ x \in OrNone(JobType)
  BY <1>2, JobParts DEF OrNone
<1>5. /\ t \in StateType /\ t.chunks = s.chunks /\ t.column = s.column /\ t.reply = s.reply
      /\ t.jobs[j] = x /\ \A i \in JobId : i # j => t.jobs[i] = s.jobs[i]
  <2>1. /\ t.jobs = [s.jobs EXCEPT ![j] = x]
        /\ t.chunks = s.chunks /\ t.column = s.column /\ t.reply = s.reply
        /\ t = [s EXCEPT !.jobs = t.jobs]
    BY <1>1, <1>3 DEF StateType
  <2>2. s.jobs \in [JobId -> OrNone(JobType)]
    BY <1>1, StateParts
  <2>3. /\ t.jobs \in [JobId -> OrNone(JobType)] /\ t.jobs[j] = x
        /\ \A i \in JobId : i # j => t.jobs[i] = s.jobs[i]
    BY <1>4, <2>1, <2>2
  <2>4. t \in StateType
    BY <1>1, <2>1, <2>3 DEF StateType
  <2> QED
    BY <2>1, <2>3, <2>4
<1>6. Pinned(t)
  <2>1. \A k \in Chunk : Users(t, k) = Users(s, k)
    BY <1>2, <1>4, <1>5 DEF Users
  <2> QED
    BY <1>5, <2>1 DEF Sound, Pinned, Has
<1>7. Held(t) /\ Due(t) /\ NoNewWaits(s, t)
  <2>1. \A k \in Chunk : SameData(s, t, k)
    BY <1>5 DEF SameData, Has
  <2>2. Longer(s, t)
    BY <1>5 DEF Longer
  <2> QED
    BY <1>5, <2>1, <2>2, DataKept DEF Sound
<1>8. Pending(t)
  <2> SUFFICES ASSUME NEW k \in Chunk, Has(t, k), t.chunks[k].pend # Nothing
               PROVE  /\ t.jobs[t.chunks[k].pend] # Nothing
                      /\ t.jobs[t.chunks[k].pend].chunk = k
    BY DEF Pending
  <2>1. t.chunks[k].pend \in JobId
    BY <1>1, <1>5, StateParts, EntryParts DEF OrNone, Has
  <2>2. s.jobs[t.chunks[k].pend] # Nothing /\ s.jobs[t.chunks[k].pend].chunk = k
    BY <1>5 DEF Sound, Pending, Has
  <2> QED
    BY <1>2, <1>4, <1>5, <2>1, <2>2
<1>9. Tasks(t)
  <2>1. ASSUME NEW w \in Worker, NEW i \in 1..Len(t.reply[w]), EndsTask(t, w, i)
        PROVE  Carried(s, t, w, i)
    <3>1. EndsTask(s, w, i) /\ i \in 1..Len(s.reply[w])
      BY <1>5, <2>1 DEF EndsTask
    <3>2. Runs(s, w, i) /\ s.reply[w][i].job \in JobId
      BY <1>1, <3>1, MessageParts DEF Sound, Tasks, EndsTask
    <3>3. TaskOf(t, w, i) = TaskOf(s, w, i)
      BY <1>5, <3>2 DEF TaskOf, Runs
    <3> QED
      BY <1>5, <3>1, <3>2, <3>3 DEF Carried, Runs
  <2>2. \A i \in JobId : t.jobs[i] # Nothing /\ t.jobs[i].phase # "worker" => t.jobs[i].deps = {}
    BY <1>2, <1>5 DEF Sound, Tasks
  <2> QED
    BY <2>1, <2>2, TasksKept DEF Sound
<1> QED
  BY <1>5, <1>6, <1>7, <1>8, <1>9 DEF Moves, Sound

LEMMA LookupMoves ==
  ASSUME Sound(rt), NEW j \in JobId, CacheLookupEnds(j)
  PROVE  Moves(rt, rt')
<1> DEFINE job == rt.jobs[j]
           mesh == MeshOfParts(job.kind, job.parts)
           hit == ApplyMesh(rt, j, mesh)
           missed == [rt EXCEPT !.jobs[j] = [@ EXCEPT !.phase = "waiting"]]
<1> USE DEF Looks
<1>1. job # Nothing /\ job.phase = "cache" /\ Looks(j, hit, missed)
  BY DEF CacheLookupEnds
<1>2. rt \in StateType /\ job \in JobType /\ job.kind \in Kind /\ job.parts \in OrNone(AllParts)
  BY <1>1, StateParts, JobParts DEF Sound
<1>3. Unposted(rt, {j})
  BY <1>1, NotWithWorker DEF Sound
<1>4. Calmer(rt, rt, {})
  BY <1>2, CalmerSelf
<1>5. Moves(rt, missed) /\ Sound(missed)
  BY <1>1, MissMoves DEF Moves
<1>6. ASSUME IsCurrentMeshJob(rt, j), job.parts # Nothing PROVE Calmer(rt, hit, {})
  <2>1. job.chunk \in Chunk /\ Has(rt, job.chunk) /\ job.chunk # Nothing
    BY <1>1, <1>2, <1>6, CurrentJob, NothingAssumption
  <2>2. mesh \in [kind : Kind, from : From]
    BY <1>2, <1>6, CachedType DEF OrNone
  <2> HIDE DEF mesh
  <2> QED
    BY <1>1, <1>2, <2>1, <2>2, ApplyCalmer
<1> HIDE DEF missed, hit
<1>7. CASE rt' \in Flushes(missed)
  <2>1. Moves(missed, rt')
    BY <1>5, <1>7, FlushMoves
  <2> QED
    BY <1>5, <2>1, MovesThen
<1>8. CASE rt' \in Flushes(FinishMeshJob(rt, j))
  BY <1>1, <1>3, <1>8, FinishMoves
<1>9. CASE IsCurrentMeshJob(rt, j) /\ job.parts # Nothing /\ rt' \in Flushes(FinishMeshJob(hit, j))
  BY <1>1, <1>3, <1>6, <1>9, CalmerFinish
<1>10. CASE rt' \in HandleMeshError(rt, j)
  BY <1>1, <1>3, <1>10, MeshErrorMoves
<1> QED
  BY <1>1, <1>7, <1>8, <1>9, <1>10

LEMMA RecoverMoves ==
  ASSUME NEW s, Sound(s)
  PROVE  Moves(s, RecoverWorkers(s))
<1> DEFINE A == {k \in Chunk : Has(s, k) /\ \E j \in JobsOf(s) : s.jobs[j].chunk = k}
           s1 == FinishMeshJobs(s, JobsOf(s))
           F(e) == [e EXCEPT !.st = IF e.st \in {"stored", "decoding"} THEN "hashed" ELSE e.st,
                             !.mask = {}]
           G(e) == [e EXCEPT !.dirty = TRUE]
           K == {k \in Chunk : Has(s1, k)}
           s2 == EachEntry(s1, K, F)
           Q == s1.fetchQ \cup {k \in A : s1.demand[k] # "none"}
           t == RecoverWorkers(s)
<1>1. s \in StateType /\ JobsOf(s) \in SUBSET JobId /\ \A j \in JobsOf(s) : s.jobs[j] # Nothing
  BY DEF Sound, JobsOf
<1>2. Ended(s, s1, JobsOf(s))
  BY <1>1, FinishEnds DEF Sound
<1>3. s1 \in StateType
  BY <1>2 DEF Ended
<1>4. A \subseteq Chunk /\ \A k \in A : Has(s, k)
  OBVIOUS
<1> HIDE DEF A
<1>5. /\ t.chunks = [k \in Chunk |-> IF k \in A THEN G(s2.chunks[k]) ELSE s2.chunks[k]]
      /\ t.jobs = s1.jobs /\ t.demand = s1.demand /\ t.hashQ = s1.hashQ /\ t.fetchQ = Q
      /\ t.up = FALSE
      /\ t.column = [w \in Worker |-> [k \in Chunk |-> Nothing]]
      /\ t.reply = [w \in Worker |-> <<>>]
      /\ t = [s1 EXCEPT !.chunks = t.chunks, !.fetchQ = Q, !.up = FALSE,
                        !.column = t.column, !.reply = t.reply]
      /\ s2.chunks = [k \in Chunk |-> IF k \in K THEN F(s1.chunks[k]) ELSE s1.chunks[k]]
  <2> HIDE DEF s1
  <2>1. t = [EachEntry(s2, A, G) EXCEPT
               !.fetchQ = s1.fetchQ \cup {k \in A : s1.demand[k] # "none"},
               !.up = FALSE,
               !.column = [w \in Worker |-> [k \in Chunk |-> Nothing]],
               !.reply = [w \in Worker |-> <<>>]]
    BY DEF RecoverWorkers, s1, A
  <2> HIDE DEF t
  <2> QED
    BY <1>3, <2>1 DEF EachEntry, StateType
<1> HIDE DEF t, s2, s1
<1>6. ASSUME NEW k \in Chunk, Has(s, k)
      PROVE  /\ t.chunks[k] \in EntryType /\ Has(t, k)
             /\ t.chunks[k].pins = s1.chunks[k].pins /\ t.chunks[k].pend = s1.chunks[k].pend
             /\ t.chunks[k].st \notin {"decoding", "stored"}
             /\ t.chunks[k].st \in {"resolving", "fetching"} => t.chunks[k].st = s.chunks[k].st
             /\ t.chunks[k].req = s.chunks[k].req /\ t.chunks[k].res = s.chunks[k].res
  <2> DEFINE a == s1.chunks[k]
             b == s2.chunks[k]
             st == IF a.st \in {"stored", "decoding"} THEN "hashed" ELSE a.st
  <2>1. /\ Has(s1, k) /\ a \in EntryType /\ a.st = s.chunks[k].st
        /\ a.req = s.chunks[k].req /\ a.res = s.chunks[k].res
    BY <1>2, <1>3, <1>6, StateParts DEF Ended, SameData
  <2>2. b = [a EXCEPT !.st = st, !.mask = {}]
    BY <1>5, <2>1, Zenon
  <2>3. /\ st \in {"checking", "resolving", "hashed", "fetching", "absent", "error"}
        /\ st \in {"resolving", "fetching"} => st = a.st
    BY <2>1 DEF EntryType
  <2> HIDE DEF st, a
  <2>4. /\ b \in EntryType /\ b.pins = a.pins /\ b.pend = a.pend /\ b.st = st
        /\ b.req = a.req /\ b.res = a.res
    BY <2>1, <2>2, <2>3, Zenon DEF EntryType
  <2>5. t.chunks[k] = b \/ t.chunks[k] = [b EXCEPT !.dirty = TRUE]
    BY <1>5, Zenon
  <2> HIDE DEF b
  <2>6. /\ t.chunks[k] \in EntryType /\ t.chunks[k].pins = b.pins /\ t.chunks[k].pend = b.pend
        /\ t.chunks[k].st = b.st /\ t.chunks[k].req = b.req /\ t.chunks[k].res = b.res
    BY <2>4, <2>5 DEF EntryType
  <2>7. Has(t, k)
    BY <2>6, EntryParts DEF Has
  <2> QED
    BY <2>1, <2>3, <2>4, <2>6, <2>7 DEF a
<1>7. ASSUME NEW k \in Chunk, ~Has(s, k) PROVE t.chunks[k] = Nothing /\ ~Has(t, k) /\ ~Has(s1, k)
  <2>1. ~Has(s1, k) /\ s1.chunks[k] = Nothing
    BY <1>2, <1>7 DEF Ended, SameData, Has
  <2>2. k \notin A
    BY <1>4, <1>7
  <2> QED
    BY <1>5, <2>1, <2>2, Zenon DEF Has
<1>8. t \in StateType
  <2>1. \A k \in Chunk : t.chunks[k] \in OrNone(EntryType)
    BY <1>6, <1>7 DEF OrNone
  <2>2. t.chunks \in [Chunk -> OrNone(EntryType)]
    BY <1>5, <2>1, Zenon
  <2>3. t.column \in [Worker -> Columns(Chunk)]
    <3>1. [k \in Chunk |-> Nothing] \in Columns(Chunk)
      BY DEF Columns, OrNone
    <3> QED
      BY <1>5, <3>1, Zenon
  <2>4. <<>> \in Seq(MessageType)
    OBVIOUS
  <2>5. t.reply \in [Worker -> Seq(MessageType)]
    BY <1>5, <2>4, Zenon
  <2>6. Q \subseteq Chunk
    BY <1>3, <1>4, StateParts
  <2> HIDE DEF Q
  <2> QED
    BY <1>3, <1>5, <2>2, <2>3, <2>5, <2>6, Zenon DEF StateType
<1>9. \A j \in JobId : t.jobs[j] = Nothing
  BY <1>2, <1>5, Zenon DEF Ended, JobsOf
<1>10. Pinned(t)
  <2> SUFFICES ASSUME NEW k \in Chunk
               PROVE  IF Has(t, k) THEN t.chunks[k].pins = Cardinality(Users(t, k))
                      ELSE Users(t, k) = {}
    BY DEF Pinned
  <2>1. Users(t, k) = Users(s1, k)
    BY <1>5, Zenon DEF Users
  <2>2. Has(t, k) <=> Has(s1, k)
    BY <1>2, <1>6, <1>7 DEF Ended, SameData
  <2>3. IF Has(s1, k) THEN s1.chunks[k].pins = Cardinality(Users(s1, k)) ELSE Users(s1, k) = {}
    BY <1>2 DEF Ended, Pinned
  <2> QED
    BY <1>6, <1>7, <2>1, <2>2, <2>3
<1>11. Held(t) /\ Due(t)
  BY <1>6, <1>7 DEF Held, Due
<1>12. Pending(t)
  <2> SUFFICES ASSUME NEW k \in Chunk, Has(t, k), t.chunks[k].pend # Nothing PROVE FALSE
    BY DEF Pending
  <2>1. Has(s, k) /\ Has(s1, k) /\ s1.chunks[k].pend = t.chunks[k].pend
    BY <1>2, <1>6, <1>7 DEF Ended, SameData
  <2>2. s1.jobs[t.chunks[k].pend] # Nothing
    BY <1>2, <2>1 DEF Ended, Pending
  <2>3. t.chunks[k].pend \in JobId
    BY <1>6, <2>1, EntryParts DEF OrNone
  <2> QED
    BY <1>5, <1>9, <2>2, <2>3, Zenon
<1>13. Tasks(t)
  <2>1. \A w \in Worker : t.reply[w] = <<>>
    BY <1>5, Zenon
  <2>2. \A w \in Worker : \A i \in 1..Len(t.reply[w]) : FALSE
    BY <2>1
  <2> QED
    BY <1>9, <2>2 DEF Tasks
<1>14. NoNewWaits(s, t)
  BY <1>6, <1>7 DEF NoNewWaits, Waits
<1> QED
  BY <1>8, <1>10, <1>11, <1>12, <1>13, <1>14 DEF Moves, Sound, t

LEMMA DropMoves ==
  ASSUME NEW s, Sound(s), NEW k \in Chunk, Has(s, k), ChunkWorkIdle(s, k)
  PROVE  Moves(s, DropEntry(s, k))
<1> DEFINE s1 == IF s.chunks[k].st \in {"stored", "decoding"} THEN BroadcastDrop(s, k) ELSE s
           J == {j \in JobsOf(s) : s.jobs[j].chunk = k}
           t == DropEntry(s, k)
<1>1. s \in StateType
  BY DEF Sound
<1>2. /\ s1 \in StateType /\ s1.chunks = s.chunks /\ s1.jobs = s.jobs /\ s1.reply = s.reply
      /\ \A n \in Chunk : n # k => \A w \in Worker : s1.column[w][n] = s.column[w][n]
  <2>1. /\ Calmer(s, BroadcastDrop(s, k), {k}) /\ BroadcastDrop(s, k).chunks = s.chunks
    BY <1>1, DropCalmer
  <2>2. BroadcastDrop(s, k) \in StateType /\ BroadcastDrop(s, k).reply = s.reply
    BY <2>1 DEF Calmer
  <2>3. BroadcastDrop(s, k).jobs = s.jobs
    BY <1>1 DEF BroadcastDrop, StateType
  <2>4. BroadcastDrop(s, k).column = [w \in Worker |-> [s.column[w] EXCEPT ![k] = Nothing]]
    BY <1>1 DEF BroadcastDrop, StateType
  <2>5. \A n \in Chunk : n # k => \A w \in Worker :
          BroadcastDrop(s, k).column[w][n] = s.column[w][n]
    BY <1>1, <2>4, StateParts DEF Columns
  <2> QED
    BY <1>1, <2>1, <2>2, <2>3, <2>5
<1> HIDE DEF s1
<1>3. /\ t.chunks = [s.chunks EXCEPT ![k] = Nothing]
      /\ t.jobs = [j \in JobId |-> IF j \in J THEN [s.jobs[j] EXCEPT !.chunk = Nothing]
                                   ELSE s.jobs[j]]
      /\ t.demand = [s1.demand EXCEPT ![k] = "none"]
      /\ t.hashQ = s1.hashQ \ {k} /\ t.fetchQ = s1.fetchQ \ {k}
      /\ t.column = s1.column /\ t.reply = s.reply
      /\ t = [s1 EXCEPT !.chunks = t.chunks, !.jobs = t.jobs, !.demand = t.demand,
                        !.hashQ = t.hashQ, !.fetchQ = t.fetchQ]
  <2>1. t = [EachJob(s1, J, LAMBDA job : [job EXCEPT !.chunk = Nothing])
               EXCEPT !.chunks[k] = Nothing, !.demand[k] = "none",
                      !.hashQ = @ \ {k}, !.fetchQ = @ \ {k}]
    BY DEF DropEntry, s1
  <2> HIDE DEF t, J
  <2> QED
    BY <1>2, <2>1, Zenon DEF EachJob, StateType
<1> HIDE DEF t
<1>4. ASSUME NEW j \in JobId
      PROVE  /\ t.jobs[j] \in OrNone(JobType) /\ (t.jobs[j] = Nothing <=> s.jobs[j] = Nothing)
             /\ j \notin J => t.jobs[j] = s.jobs[j]
             /\ s.jobs[j] # Nothing =>
                  /\ t.jobs[j].chunk \in {s.jobs[j].chunk, Nothing}
                  /\ t.jobs[j].phase = s.jobs[j].phase /\ t.jobs[j].worker = s.jobs[j].worker
                  /\ t.jobs[j].deps = s.jobs[j].deps
  <2>1. CASE j \in J
    <3>1. s.jobs[j] # Nothing /\ s.jobs[j] \in JobType
      BY <1>1, <2>1, StateParts DEF JobsOf
    <3> DEFINE x == [s.jobs[j] EXCEPT !.chunk = Nothing]
    <3>2. /\ x \in JobType /\ x.chunk = Nothing /\ x.phase = s.jobs[j].phase
          /\ x.worker = s.jobs[j].worker /\ x.deps = s.jobs[j].deps
      BY <3>1 DEF JobType, OrNone
    <3>3. t.jobs[j] = x
      BY <1>3, <2>1, Zenon
    <3> HIDE DEF x
    <3> QED
      BY <2>1, <3>1, <3>2, <3>3, JobParts DEF OrNone
  <2>2. CASE j \notin J
    <3>1. t.jobs[j] = s.jobs[j]
      BY <1>3, <2>2, Zenon
    <3>2. s.jobs[j] \in OrNone(JobType)
      BY <1>1, StateParts
    <3> QED
      BY <3>1, <3>2
  <2> QED
    BY <2>1, <2>2
<1>5. /\ ~Has(t, k) /\ t.chunks[k] = Nothing
      /\ \A n \in Chunk : n # k => t.chunks[n] = s.chunks[n]
  <2>1. s.chunks \in [Chunk -> OrNone(EntryType)] /\ t.chunks = [s.chunks EXCEPT ![k] = Nothing]
    BY <1>1, <1>3, StateParts, Zenon
  <2>2. /\ t.chunks[k] = Nothing
        /\ \A n \in Chunk : n # k => t.chunks[n] = s.chunks[n]
    BY <2>1
  <2> QED
    BY <2>2 DEF Has
<1>6. t \in StateType
  <2>1. t.chunks \in [Chunk -> OrNone(EntryType)]
    <3>1. s.chunks \in [Chunk -> OrNone(EntryType)]
      BY <1>1, StateParts
    <3>2. Nothing \in OrNone(EntryType)
      BY DEF OrNone
    <3> QED
      BY <1>3, <3>1, <3>2, Zenon
  <2>2. t.jobs \in [JobId -> OrNone(JobType)]
    BY <1>3, <1>4, Zenon
  <2>3. /\ t.demand \in [Chunk -> Kind \cup {"none", "stale"}]
        /\ t.hashQ \subseteq Chunk /\ t.fetchQ \subseteq Chunk
    <3>1. /\ s1.demand \in [Chunk -> Kind \cup {"none", "stale"}]
          /\ s1.hashQ \subseteq Chunk /\ s1.fetchQ \subseteq Chunk
      BY <1>2, StateParts
    <3>2. "none" \in Kind \cup {"none", "stale"}
      OBVIOUS
    <3>3. t.demand \in [Chunk -> Kind \cup {"none", "stale"}]
      BY <1>3, <3>1, <3>2, Zenon
    <3>4. t.hashQ \subseteq Chunk /\ t.fetchQ \subseteq Chunk
      BY <1>3, <3>1, Zenon
    <3> QED
      BY <3>3, <3>4
  <2> QED
    BY <1>2, <1>3, <2>1, <2>2, <2>3, Zenon DEF StateType
<1>7. t.column = s1.column /\ t.reply = s.reply
  BY <1>3, Zenon
<1>8. Pinned(t)
  <2>1. \A n \in Chunk : Users(t, n) = Users(s, n)
    BY <1>4 DEF Users
  <2>2. Users(s, k) = {}
    BY Counting, FS_EmptySet DEF Sound, Pinned, ChunkWorkIdle
  <2> QED
    BY <1>5, <2>1, <2>2 DEF Sound, Pinned, Has
<1>9. Held(t)
  <2> SUFFICES ASSUME NEW n \in Chunk, Has(t, n), t.chunks[n].st \in {"decoding", "stored"}
               PROVE  /\ t.chunks[n].st = "stored" => t.chunks[n].dig \notin Malformed
                      /\ t.chunks[n].dig \notin Malformed =>
                           \A w \in Worker : t.column[w][n] = t.chunks[n].dig
    BY DEF Held
  <2> n # k
    BY <1>5
  <2>1. n # k /\ t.chunks[n] = s.chunks[n] /\ Has(s, n)
    BY <1>5 DEF Has
  <2>2. \A w \in Worker : t.column[w][n] = s.column[w][n]
    <3>1. \A w \in Worker : s1.column[w][n] = s.column[w][n]
      BY <1>2, <2>1
    <3> QED
      BY <1>7, <3>1
  <2>3. /\ s.chunks[n].st = "stored" => s.chunks[n].dig \notin Malformed
        /\ s.chunks[n].dig \notin Malformed =>
             \A w \in Worker : s.column[w][n] = s.chunks[n].dig
    BY <2>1 DEF Sound, Held
  <2> QED
    BY <2>1, <2>2, <2>3
<1>10. Due(t)
  <2> SUFFICES ASSUME NEW n \in Chunk, Has(t, n), t.chunks[n].st = "decoding",
                      NEW w \in Worker \ t.chunks[n].mask
               PROVE  \E i \in 1..Len(t.reply[w]) : Answers(t, w, i, n, t.chunks[n].dig)
    BY DEF Due
  <2> n # k
    BY <1>5
  <2>1. n # k /\ t.chunks[n] = s.chunks[n] /\ Has(s, n)
    BY <1>5 DEF Has
  <2>2. \E i \in 1..Len(s.reply[w]) : Answers(s, w, i, n, s.chunks[n].dig)
    BY <2>1 DEF Sound, Due
  <2> QED
    BY <1>7, <2>1, <2>2 DEF Answers
<1>11. Pending(t)
  <2> SUFFICES ASSUME NEW n \in Chunk, Has(t, n), t.chunks[n].pend # Nothing
               PROVE  /\ t.jobs[t.chunks[n].pend] # Nothing
                      /\ t.jobs[t.chunks[n].pend].chunk = n
    BY DEF Pending
  <2> DEFINE j == s.chunks[n].pend
  <2>1. n # k /\ Has(s, n) /\ t.chunks[n].pend = j /\ j # Nothing
    BY <1>5 DEF Has
  <2>2. j \in JobId
    BY <1>1, <2>1, StateParts, EntryParts DEF OrNone
  <2>3. s.jobs[j] # Nothing /\ s.jobs[j].chunk = n
    BY <2>1 DEF Sound, Pending
  <2>4. t.jobs[j] = s.jobs[j]
    BY <1>4, <2>1, <2>2, <2>3
  <2> QED
    BY <2>1, <2>3, <2>4
<1>12. Tasks(t)
  <2>1. ASSUME NEW w \in Worker, NEW i \in 1..Len(t.reply[w]), EndsTask(t, w, i)
        PROVE  Carried(s, t, w, i)
    <3> DEFINE j == s.reply[w][i].job
    <3>1. EndsTask(s, w, i) /\ i \in 1..Len(s.reply[w])
      BY <1>7, <2>1 DEF EndsTask
    <3>2. Runs(s, w, i) /\ j \in JobId
      BY <1>1, <3>1, MessageParts DEF Sound, Tasks, EndsTask
    <3>3. s.jobs[j] # Nothing
      BY <3>2 DEF Runs, TaskOf
    <3>4. t.reply[w][i].job = j /\ t.reply[w][i] = s.reply[w][i]
      BY <1>7, SMTT(30)
    <3>5. /\ t.jobs[j] # Nothing /\ t.jobs[j].chunk \in {s.jobs[j].chunk, Nothing}
          /\ t.jobs[j].phase = s.jobs[j].phase /\ t.jobs[j].worker = s.jobs[j].worker
      BY <1>4, <3>2, <3>3
    <3> QED
      BY <3>1, <3>4, <3>5, Zenon DEF Carried, TaskOf
  <2>2. \A j \in JobId : t.jobs[j] # Nothing /\ t.jobs[j].phase # "worker" => t.jobs[j].deps = {}
    BY <1>4 DEF Sound, Tasks
  <2> QED
    BY <2>1, <2>2, TasksKept, SMTT(30) DEF Sound
<1>13. NoNewWaits(s, t)
  BY <1>5 DEF NoNewWaits, Waits, Has
<1> QED
  BY <1>6, <1>8, <1>9, <1>10, <1>11, <1>12, <1>13 DEF Moves, Sound, t

-----------------------------------------------------------------------------
(* Steps that show nothing new.                                             *)

LEMMA QuietCurrent ==
  ASSUME NEW s, NEW t, NEW X, Quiet(s, t, X), NEW j \in JobId, Current(t, j)
  PROVE  /\ Current(s, j) /\ s.jobs[j].chunk = t.jobs[j].chunk
         /\ t.jobs[j].chunk \in Chunk /\ Has(t, t.jobs[j].chunk)
         /\ t.chunks[t.jobs[j].chunk].pend = j /\ j # Nothing
<1>1. t.jobs[j].chunk \in Chunk /\ Has(t, t.jobs[j].chunk)
  BY CurrentJob DEF Quiet, Current
<1>2. s.jobs[j] # Nothing /\ t.jobs[j].chunk \in {s.jobs[j].chunk, Nothing}
  BY DEF Quiet, Current, SameTask
<1>3. j # Nothing /\ t.chunks[t.jobs[j].chunk].pend = j /\ t.jobs[j].chunk # Nothing
  BY NothingAssumption DEF Current, IsCurrentMeshJob
<1>4. /\ Has(s, t.jobs[j].chunk)
      /\ t.chunks[t.jobs[j].chunk].pend \in {s.chunks[t.jobs[j].chunk].pend, Nothing}
  BY <1>1 DEF Quiet, Fades
<1> QED
  BY <1>1, <1>2, <1>3, <1>4 DEF Current, IsCurrentMeshJob

LEMMA MarkedStays ==
  ASSUME NEW s, NEW t, NEW X, Quiet(s, t, X), NEW k \in Chunk, Marked(s, k)
  PROVE  Marked(t, k)
<1>1. ASSUME NEW n \in Chunk, n # k, k \in Near[n], Has(t, n), t.chunks[n].shown # Nothing
      PROVE  t.chunks[n].dirty
  <2>1. Has(s, n) /\ Fades(s.chunks[n], t.chunks[n])
    BY <1>1 DEF Quiet
  <2>2. s.chunks[n].shown # Nothing /\ (s.chunks[n].dirty => t.chunks[n].dirty)
    BY <1>1, <2>1 DEF Fades
  <2> QED
    BY <1>1, <2>1, <2>2 DEF Marked
<1>2. ASSUME NEW j \in JobId, Current(t, j), t.jobs[j].chunk # k, k \in Near[t.jobs[j].chunk]
      PROVE  ~t.jobs[j].clean
  <2>1. Current(s, j) /\ s.jobs[j].chunk = t.jobs[j].chunk
    BY <1>2, QuietCurrent
  <2>2. t.jobs[j].clean => s.jobs[j].clean
    BY <1>2 DEF Quiet, Current, SameTask
  <2> QED
    BY <1>2, <2>1, <2>2 DEF Marked
<1> QED
  BY <1>1, <1>2 DEF Marked

LEMMA QuietThen ==
  ASSUME NEW s, NEW t, NEW u, NEW X, Quiet(s, t, X), Quiet(t, u, X)
  PROVE  Quiet(s, u, X)
<1>1. \A k \in Chunk : Has(u, k) => Has(s, k) /\ Fades(s.chunks[k], u.chunks[k])
  <2> SUFFICES ASSUME NEW k \in Chunk, Has(u, k)
               PROVE  Has(s, k) /\ Fades(s.chunks[k], u.chunks[k])
    OBVIOUS
  <2>1. Has(t, k) /\ Fades(t.chunks[k], u.chunks[k])
    BY DEF Quiet
  <2>2. Has(s, k) /\ Fades(s.chunks[k], t.chunks[k])
    BY <2>1 DEF Quiet
  <2> QED
    BY <2>1, <2>2 DEF Fades
<1>2. \A k \in Chunk \ X : Has(u, k) =>
        /\ Fits(s.chunks[k], u.chunks[k])
        /\ Lasts(s.chunks[k], u.chunks[k]) \/ Marked(u, k)
  <2> SUFFICES ASSUME NEW k \in Chunk \ X, Has(u, k)
               PROVE  /\ Fits(s.chunks[k], u.chunks[k])
                      /\ Lasts(s.chunks[k], u.chunks[k]) \/ Marked(u, k)
    OBVIOUS
  <2>1. /\ Has(t, k) /\ Fades(t.chunks[k], u.chunks[k]) /\ Fits(t.chunks[k], u.chunks[k])
        /\ Lasts(t.chunks[k], u.chunks[k]) \/ Marked(u, k)
    BY DEF Quiet
  <2>2. /\ Fits(s.chunks[k], t.chunks[k])
        /\ Lasts(s.chunks[k], t.chunks[k]) \/ Marked(t, k)
    BY <2>1 DEF Quiet
  <2>3. Marked(t, k) => Marked(u, k)
    BY MarkedStays
  <2>4. Fits(s.chunks[k], u.chunks[k])
    BY <2>1, <2>2 DEF Fits, Fades
  <2> QED
    BY <2>1, <2>2, <2>3, <2>4 DEF Lasts
<1>3. \A j \in JobId : u.jobs[j] # Nothing =>
        s.jobs[j] # Nothing /\ SameTask(s.jobs[j], u.jobs[j])
  BY DEF Quiet, SameTask
<1>4. \A w \in Worker : Building(u, w) \subseteq Building(s, w)
  BY DEF Quiet
<1>5. u \in StateType /\ (Tidy(s) => Tidy(u))
  BY DEF Quiet
<1> QED
  BY <1>1, <1>2, <1>3, <1>4, <1>5 DEF Quiet

LEMMA QuietMore ==
  ASSUME NEW s, NEW t, NEW X, Quiet(s, t, {})
  PROVE  Quiet(s, t, X)
BY DEF Quiet

LEMMA QuietMarked ==
  ASSUME NEW s, NEW t, NEW k, Quiet(s, t, {k}), Has(t, k) => Fits(s.chunks[k], t.chunks[k]),
         Lasts(s.chunks[k], t.chunks[k]) \/ Marked(t, k)
  PROVE  Quiet(s, t, {})
BY DEF Quiet

LEMMA QuietTrue ==
  ASSUME NEW s, NEW t, True(s), Quiet(s, t, {}), Tasks(t)
  PROVE  True(t)
<1>1. ASSUME NEW k \in Chunk, Has(t, k) PROVE Plain(t.chunks[k])
  BY <1>1 DEF True, Quiet, Fits
<1>2. ASSUME NEW k \in Chunk, Has(t, k), NEW from, NEW clean, NEW dark,
             Shows(s, k, from, clean), t.chunks[k].dig = s.chunks[k].dig, dark => clean,
             \A n \in Near[k] \ {k} : Marked(t, n) => ~dark
      PROVE  Shows(t, k, from, dark)
  <2>1. ASSUME dark, NEW n \in Near[k] \ {k}, Has(t, n), Known(t.chunks[n])
        PROVE  from[n] = t.chunks[n].dig
    <3>1. n \in Chunk
      BY ChunkStateAssumption
    <3>2. Has(s, n) /\ (Lasts(s.chunks[n], t.chunks[n]) \/ Marked(t, n))
      BY <2>1, <3>1 DEF Quiet
    <3>3. Known(s.chunks[n]) /\ t.chunks[n].dig = s.chunks[n].dig
      BY <1>2, <2>1, <3>2 DEF Lasts
    <3>4. Around(s, k, from)
      BY <1>2, <2>1 DEF Shows
    <3> QED
      BY <3>2, <3>3, <3>4 DEF Around
  <2> QED
    BY <1>2, <2>1 DEF Shows, Around
<1>3. Shown(t)
  <2> SUFFICES ASSUME NEW k \in Chunk, Has(t, k), t.chunks[k].shown # Nothing
               PROVE  Shows(t, k, t.chunks[k].shown.from, ~t.chunks[k].dirty)
    BY DEF Shown
  <2>1. Has(s, k) /\ Fades(s.chunks[k], t.chunks[k])
    BY DEF Quiet
  <2>5. Fits(s.chunks[k], t.chunks[k])
    BY DEF Quiet
  <2>2. /\ t.chunks[k].shown = s.chunks[k].shown /\ t.chunks[k].dig = s.chunks[k].dig
        /\ s.chunks[k].dirty => t.chunks[k].dirty
    BY <2>1, <2>5 DEF Fades, Fits
  <2>3. Shows(s, k, t.chunks[k].shown.from, ~s.chunks[k].dirty)
    BY <2>1, <2>2 DEF True, Shown
  <2>4. \A n \in Near[k] \ {k} : Marked(t, n) => t.chunks[k].dirty
    BY DEF Marked
  <2> QED
    BY <1>2, <2>2, <2>3, <2>4
<1>4. ASSUME NEW j \in JobId, Current(t, j), NEW from,
             Shows(s, s.jobs[j].chunk, from, s.jobs[j].clean)
      PROVE  Shows(t, t.jobs[j].chunk, from, t.jobs[j].clean)
  <2> DEFINE k == t.jobs[j].chunk
  <2>1. /\ Current(s, j) /\ s.jobs[j].chunk = k /\ k \in Chunk /\ Has(t, k)
        /\ t.chunks[k].pend # Nothing
    BY <1>4, QuietCurrent
  <2>2. \A n \in Near[k] \ {k} : Marked(t, n) => ~t.jobs[j].clean
    BY <1>4, <2>1 DEF Marked
  <2> HIDE DEF k
  <2>3. Fits(s.chunks[k], t.chunks[k])
    BY <2>1 DEF Quiet
  <2>4. t.chunks[k].dig = s.chunks[k].dig
    BY <2>1, <2>3 DEF Fits
  <2>5. t.jobs[j].clean => s.jobs[j].clean
    BY <1>4 DEF Current, Quiet, SameTask
  <2> QED
    BY <1>2, <1>4, <2>1, <2>2, <2>4, <2>5 DEF k
<1>5. LookedUp(t)
  <2> SUFFICES ASSUME NEW j \in JobId, Current(t, j), t.jobs[j].phase = "cache",
                      t.jobs[j].parts # Nothing
               PROVE  Shows(t, t.jobs[j].chunk, t.jobs[j].parts, t.jobs[j].clean)
    BY DEF LookedUp
  <2>1. Current(s, j)
    BY QuietCurrent
  <2>2. s.jobs[j].phase = "cache" /\ t.jobs[j].parts = s.jobs[j].parts
    BY DEF Current, Quiet, SameTask
  <2>3. Shows(s, s.jobs[j].chunk, t.jobs[j].parts, s.jobs[j].clean)
    BY <2>1, <2>2 DEF True, LookedUp
  <2> QED
    BY <1>4, <2>3
<1>6. Built(t)
  <2> SUFFICES ASSUME NEW w \in Worker, NEW m \in Building(t, w)
               PROVE  /\ Current(t, m.job) =>
                           Shows(t, t.jobs[m.job].chunk, m.from, t.jobs[m.job].clean)
                      /\ Keyed(t, m)
    BY DEF Built
  <2>1. m \in Building(s, w)
    BY DEF Quiet
  <2>2. PICK i \in 1..Len(t.reply[w]) : m = t.reply[w][i] /\ EndsTask(t, w, i)
    BY DEF Building, EndsTask
  <2>3. m.job \in JobId /\ t.jobs[m.job] # Nothing
    <3>1. Runs(t, w, i)
      BY <2>2 DEF Tasks
    <3>2. t \in StateType
      BY DEF Quiet
    <3> QED
      BY <2>2, <3>1, <3>2, MessageParts DEF Runs, TaskOf, EndsTask
  <2>4. Keyed(t, m)
    <3>1. t.jobs[m.job].parts = s.jobs[m.job].parts
      BY <2>3 DEF Quiet, SameTask
    <3>2. Keyed(s, m)
      BY <2>1 DEF True, Built
    <3> QED
      BY <3>1, <3>2 DEF Keyed
  <2>5. ASSUME Current(t, m.job)
        PROVE  Shows(t, t.jobs[m.job].chunk, m.from, t.jobs[m.job].clean)
    <3>1. Current(s, m.job)
      BY <2>3, <2>5, QuietCurrent
    <3>2. Shows(s, s.jobs[m.job].chunk, m.from, s.jobs[m.job].clean)
      BY <2>1, <3>1 DEF True, Built
    <3> QED
      BY <1>4, <2>3, <2>5, <3>2
  <2> QED
    BY <2>4, <2>5
<1>7. Tidy(t)
  BY DEF True, Quiet
<1> QED
  BY <1>1, <1>3, <1>5, <1>6, <1>7 DEF True

-----------------------------------------------------------------------------
(* The methods that show nothing new.                                       *)

LEMMA QuietQueues ==
  ASSUME NEW s, NEW t \in StateType, NEW X,
         t.chunks = s.chunks, t.jobs = s.jobs,
         \A w \in Worker : Building(t, w) \subseteq Building(s, w)
  PROVE  Quiet(s, t, X)
BY DEF Quiet, Fades, Fits, Lasts, SameTask, Tidy, Current, IsCurrentMeshJob, Has

LEMMA QuietReply ==
  ASSUME NEW s, NEW t, t.reply = s.reply
  PROVE  \A w \in Worker : Building(t, w) \subseteq Building(s, w)
BY DEF Building

LEMMA QuietSelf ==
  ASSUME NEW s \in StateType, NEW X PROVE Quiet(s, s, X)
BY QuietQueues, QuietReply

LEMMA QuietPut ==
  ASSUME NEW s \in StateType, NEW k \in Chunk, Has(s, k), NEW e \in EntryType,
         Fades(s.chunks[k], e), NEW t, t = Put(s, k, e)
  PROVE  /\ Quiet(s, t, {k}) /\ t \in StateType /\ Has(t, k) /\ t.chunks[k] = e
         /\ t.demand = s.demand
         /\ Fits(s.chunks[k], e) /\ Lasts(s.chunks[k], e) => Quiet(s, t, {})
<1>1. e \in OrNone(EntryType) /\ e # Nothing
  BY EntryParts DEF OrNone
<1>2. /\ t \in StateType /\ t.chunks[k] = e
      /\ \A n \in Chunk : n # k => t.chunks[n] = s.chunks[n]
      /\ t.jobs = s.jobs /\ t.reply = s.reply /\ t.demand = s.demand
  BY <1>1, PutEntry
<1>3. \A n \in Chunk : Has(t, n) => Has(s, n) /\ Fades(s.chunks[n], t.chunks[n])
  <2>1. \A n \in Chunk : n # k /\ Has(t, n) => Has(s, n) /\ Fades(s.chunks[n], t.chunks[n])
    BY <1>2 DEF Has, Fades
  <2> QED
    BY <1>2, <2>1
<1>4. \A n \in Chunk \ {k} : Has(t, n) =>
        Fits(s.chunks[n], t.chunks[n]) /\ Lasts(s.chunks[n], t.chunks[n])
  BY <1>2 DEF Lasts, Fits
<1>5. \A j \in JobId : t.jobs[j] # Nothing =>
        s.jobs[j] # Nothing /\ SameTask(s.jobs[j], t.jobs[j])
  BY <1>2 DEF SameTask
<1>6. ASSUME Tidy(s) PROVE Tidy(t)
  <2> SUFFICES ASSUME NEW j \in JobId, Current(t, j), ~t.jobs[j].clean
               PROVE  t.chunks[t.jobs[j].chunk].dirty
    BY DEF Tidy
  <2> DEFINE c == t.jobs[j].chunk
  <2>1. c \in Chunk /\ Has(t, c) /\ c # Nothing /\ t.chunks[c].pend = j /\ j # Nothing
    BY <1>2, CurrentJob, NothingAssumption DEF Current, IsCurrentMeshJob
  <2>2. s.jobs[j] # Nothing /\ s.jobs[j].chunk = c /\ ~s.jobs[j].clean
    BY <1>2 DEF Current
  <2> HIDE DEF c
  <2>3. Has(s, c) /\ Fades(s.chunks[c], t.chunks[c])
    BY <1>3, <2>1
  <2>4. s.chunks[c].pend = j /\ (s.chunks[c].dirty => t.chunks[c].dirty)
    BY <2>1, <2>3 DEF Fades
  <2>5. Current(s, j)
    BY <2>1, <2>2, <2>3, <2>4 DEF Current, IsCurrentMeshJob
  <2>6. s.chunks[c].dirty
    BY <1>6, <2>2, <2>5 DEF Tidy
  <2> QED
    BY <2>4, <2>6 DEF c
<1>7. \A w \in Worker : Building(t, w) \subseteq Building(s, w)
  BY <1>2, QuietReply
<1>8. Quiet(s, t, {k})
  BY <1>2, <1>3, <1>4, <1>5, <1>6, <1>7 DEF Quiet
<1>9. ASSUME Fits(s.chunks[k], e), Lasts(s.chunks[k], e) PROVE Quiet(s, t, {})
  <2>1. \A n \in Chunk : Has(t, n) =>
          Fits(s.chunks[n], t.chunks[n]) /\ Lasts(s.chunks[n], t.chunks[n])
    BY <1>2, <1>4, <1>9
  <2> QED
    BY <1>2, <1>3, <1>5, <1>6, <1>7, <2>1 DEF Quiet
<1> QED
  BY <1>1, <1>2, <1>8, <1>9 DEF Has

LEMMA MarkDirtyQuiet ==
  ASSUME NEW s \in StateType, NEW K, \A k \in K : k \in Chunk /\ Has(s, k), NEW X,
         NEW t, t = MarkDirty(s, K)
  PROVE  /\ Quiet(s, t, X)
         /\ \A k \in Chunk : k \notin K => t.chunks[k] = s.chunks[k]
         /\ \A k \in K : Has(t, k) /\ t.chunks[k].dirty
         /\ \A k \in Chunk : Has(s, k) =>
              /\ t.chunks[k].shown = s.chunks[k].shown /\ t.chunks[k].pend = s.chunks[k].pend
         /\ \A j \in JobId : t.jobs[j] # Nothing /\ t.jobs[j].chunk \in K => ~t.jobs[j].clean
<1> DEFINE s1 == EachEntry(s, K, LAMBDA e : [e EXCEPT !.dirty = TRUE])
           J == {j \in JobsOf(s1) : s1.jobs[j].chunk \in K}
           u == EachJob(s1, J, LAMBDA job : [job EXCEPT !.clean = FALSE])
<1>0. t = u
  BY DEF MarkDirty
<1>1. t \in StateType
  BY MarkDirtyCalmer DEF Calmer
<1>2. /\ s1.chunks = [k \in Chunk |-> IF k \in K THEN [s.chunks[k] EXCEPT !.dirty = TRUE]
                                      ELSE s.chunks[k]]
      /\ s1.jobs = s.jobs /\ s1.reply = s.reply /\ s1 = [s EXCEPT !.chunks = s1.chunks]
  BY DEF EachEntry, StateType
<1>3. J \subseteq JobId /\ \A j \in JobId : j \in J <=> s.jobs[j] # Nothing /\ s.jobs[j].chunk \in K
  BY <1>2 DEF JobsOf
<1>4. /\ u.jobs = [j \in JobId |-> IF j \in J THEN [s.jobs[j] EXCEPT !.clean = FALSE]
                                   ELSE s.jobs[j]]
      /\ u.chunks = s1.chunks /\ u.reply = s.reply
  BY <1>2 DEF EachJob, StateType
<1> HIDE DEF u
<1> HIDE DEF s1, J
<1>5. ASSUME NEW k \in K
      PROVE  /\ Has(t, k) /\ t.chunks[k].dirty
             /\ t.chunks[k].shown = s.chunks[k].shown /\ t.chunks[k].pend = s.chunks[k].pend
             /\ t.chunks[k].dig = s.chunks[k].dig /\ t.chunks[k].st = s.chunks[k].st
             /\ t.chunks[k].readyDig = s.chunks[k].readyDig
  <2>1. s.chunks[k] \in EntryType /\ k \in Chunk
    BY StateParts
  <2>2. t.chunks[k] = [s.chunks[k] EXCEPT !.dirty = TRUE]
    BY <1>0, <1>2, <1>4, <2>1
  <2>3. t.chunks[k] \in EntryType
    BY <2>1, <2>2, Zenon DEF EntryType
  <2> QED
    BY <2>1, <2>2, <2>3, EntryParts DEF EntryType, Has
<1>6. \A k \in Chunk : k \notin K => t.chunks[k] = s.chunks[k]
  BY <1>0, <1>2, <1>4
<1>7. ASSUME NEW k \in Chunk, Has(t, k)
      PROVE  /\ Has(s, k) /\ Fades(s.chunks[k], t.chunks[k])
             /\ Fits(s.chunks[k], t.chunks[k]) /\ Lasts(s.chunks[k], t.chunks[k])
  <2>1. CASE k \in K
    BY <1>5, <2>1 DEF Fades, Fits, Lasts, Known, Plain
  <2>2. CASE k \notin K
    BY <1>6, <1>7, <2>2 DEF Fades, Fits, Lasts, Has
  <2> QED
    BY <2>1, <2>2
<1>8. ASSUME NEW j \in JobId, t.jobs[j] # Nothing
      PROVE  /\ s.jobs[j] # Nothing /\ SameTask(s.jobs[j], t.jobs[j])
             /\ t.jobs[j].chunk = s.jobs[j].chunk
             /\ s.jobs[j].chunk \in K => ~t.jobs[j].clean
             /\ s.jobs[j].chunk \notin K => t.jobs[j] = s.jobs[j]
  <2>1. CASE j \in J
    <3>1. s.jobs[j] \in JobType /\ t.jobs[j] = [s.jobs[j] EXCEPT !.clean = FALSE]
      BY <1>0, <1>3, <1>4, <2>1, StateParts
    <3>2. /\ t.jobs[j].clean = FALSE /\ t.jobs[j].chunk = s.jobs[j].chunk
          /\ t.jobs[j].phase = s.jobs[j].phase /\ t.jobs[j].parts = s.jobs[j].parts
      BY <3>1 DEF JobType
    <3> QED
      BY <1>3, <2>1, <3>2 DEF SameTask
  <2>2. CASE j \notin J
    <3>1. t.jobs[j] = s.jobs[j]
      BY <1>0, <1>4, <2>2
    <3> QED
      BY <1>3, <1>8, <2>2, <3>1 DEF SameTask
  <2> QED
    BY <2>1, <2>2
<1>9. ASSUME Tidy(s) PROVE Tidy(t)
  <2> SUFFICES ASSUME NEW j \in JobId, Current(t, j), ~t.jobs[j].clean
               PROVE  t.chunks[t.jobs[j].chunk].dirty
    BY DEF Tidy
  <2> DEFINE c == t.jobs[j].chunk
  <2>1. c \in Chunk /\ Has(t, c) /\ c # Nothing /\ t.chunks[c].pend = j
    BY <1>1, CurrentJob DEF Current, IsCurrentMeshJob
  <2>2. s.jobs[j] # Nothing /\ s.jobs[j].chunk = c
    BY <1>8 DEF Current
  <2> HIDE DEF c
  <2>3. CASE c \in K
    BY <1>5, <2>3 DEF c
  <2>4. CASE c \notin K
    <3>1. t.jobs[j] = s.jobs[j] /\ t.chunks[c] = s.chunks[c]
      BY <1>6, <1>8, <2>1, <2>2, <2>4 DEF Current
    <3>2. Current(s, j)
      BY <2>1, <2>2, <3>1 DEF Current, IsCurrentMeshJob, Has
    <3> QED
      BY <1>9, <2>2, <3>1, <3>2 DEF Tidy, c
  <2> QED
    BY <2>3, <2>4
<1>10. \A w \in Worker : Building(t, w) \subseteq Building(s, w)
  BY <1>0, <1>4, QuietReply
<1>11. Quiet(s, t, X)
  BY <1>1, <1>7, <1>8, <1>9, <1>10 DEF Quiet
<1>12. \A k \in Chunk : Has(s, k) =>
         t.chunks[k].shown = s.chunks[k].shown /\ t.chunks[k].pend = s.chunks[k].pend
  BY <1>5, <1>6
<1>13. \A j \in JobId : t.jobs[j] # Nothing /\ t.jobs[j].chunk \in K => ~t.jobs[j].clean
  BY <1>8
<1> QED
  BY <1>5, <1>6, <1>11, <1>12, <1>13

LEMMA NeighborsQuiet ==
  ASSUME NEW s \in StateType, NEW k \in Chunk, NEW X, NEW t, t = MarkNeighborsDirty(s, k)
  PROVE  /\ Quiet(s, t, X) /\ t \in StateType /\ t.chunks[k] = s.chunks[k]
         /\ Marked(t, k)
<1> DEFINE K == {n \in Near[k] \ {k} : /\ Has(s, n)
                                       /\ \/ s.chunks[n].shown # Nothing
                                          \/ s.chunks[n].pend # Nothing}
<1>1. /\ \A n \in K : n \in Chunk /\ Has(s, n)
      /\ k \notin K
      /\ \A n \in Chunk : n # k /\ k \in Near[n] /\ Has(s, n)
                          /\ (s.chunks[n].shown # Nothing \/ s.chunks[n].pend # Nothing) => n \in K
  BY ChunkStateAssumption
<1>2. t = MarkDirty(s, K)
  BY DEF MarkNeighborsDirty
<1> HIDE DEF K
<1>3. /\ Quiet(s, t, X)
      /\ \A n \in Chunk : n \notin K => t.chunks[n] = s.chunks[n]
      /\ \A n \in K : Has(t, n) /\ t.chunks[n].dirty
      /\ \A n \in Chunk : Has(s, n) =>
           t.chunks[n].shown = s.chunks[n].shown /\ t.chunks[n].pend = s.chunks[n].pend
      /\ \A j \in JobId : t.jobs[j] # Nothing /\ t.jobs[j].chunk \in K => ~t.jobs[j].clean
  BY <1>1, <1>2, MarkDirtyQuiet
<1>4. t \in StateType
  BY <1>3 DEF Quiet
<1>5. ASSUME NEW n \in Chunk, n # k, k \in Near[n], Has(t, n), t.chunks[n].shown # Nothing
      PROVE  t.chunks[n].dirty
  <2>1. Has(s, n) /\ s.chunks[n].shown # Nothing
    BY <1>3, <1>5 DEF Quiet
  <2> QED
    BY <1>1, <1>3, <1>5, <2>1
<1>6. ASSUME NEW j \in JobId, Current(t, j), t.jobs[j].chunk # k, k \in Near[t.jobs[j].chunk]
      PROVE  ~t.jobs[j].clean
  <2> DEFINE n == t.jobs[j].chunk
  <2>1. n \in Chunk /\ Has(t, n) /\ t.chunks[n].pend = j /\ j # Nothing
    BY <1>4, <1>6, CurrentJob, NothingAssumption DEF Current, IsCurrentMeshJob
  <2> HIDE DEF n
  <2>2. Has(s, n) /\ s.chunks[n].pend # Nothing
    BY <1>3, <2>1 DEF Quiet
  <2>3. n \in K
    BY <1>1, <1>6, <2>1, <2>2 DEF n
  <2> QED
    BY <1>3, <1>6, <2>3 DEF Current, n
<1>7. Marked(t, k)
  BY <1>5, <1>6 DEF Marked
<1> QED
  BY <1>1, <1>3, <1>4, <1>7

LEMMA RemoveQuiet ==
  ASSUME NEW s \in StateType, NEW k \in Chunk, Has(s, k), NEW X,
         NEW t, t = RemoveDisplayedMesh(s, k)
  PROVE  /\ Quiet(s, t, X) /\ t \in StateType /\ Has(t, k)
         /\ t.chunks[k] = [s.chunks[k] EXCEPT !.shown = Nothing]
<1> DEFINE e == [s.chunks[k] EXCEPT !.shown = Nothing]
<1>1. s.chunks[k] \in EntryType
  BY StateParts
<1>2. /\ e \in EntryType /\ Fades(s.chunks[k], e)
      /\ Fits(s.chunks[k], e) /\ Lasts(s.chunks[k], e)
  BY <1>1 DEF EntryType, OrNone, Fades, Fits, Lasts, Known, Plain
<1>3. t = Put(s, k, e)
  BY DEF Put, RemoveDisplayedMesh
<1>4. t.chunks[k] = e => t.chunks[k] = [s.chunks[k] EXCEPT !.shown = Nothing]
  OBVIOUS
<1> HIDE DEF e
<1>5. Quiet(s, t, {}) /\ t \in StateType /\ Has(t, k)
  BY <1>2, <1>3, QuietPut, Zenon
<1>6. t.chunks[k] = e
  BY <1>3 DEF Put, StateType
<1> QED
  BY <1>4, <1>5, <1>6, QuietMore

LEMMA InvalidateQuiet ==
  ASSUME NEW s \in StateType, NEW k \in Chunk, Has(s, k), NEW X,
         NEW t, t = InvalidatePendingMeshes(s, k)
  PROVE  /\ Quiet(s, t, X) /\ t \in StateType /\ Has(t, k)
         /\ t.chunks[k] = [s.chunks[k] EXCEPT !.pend = Nothing]
<1> DEFINE e == [s.chunks[k] EXCEPT !.pend = Nothing]
<1>1. s.chunks[k] \in EntryType
  BY StateParts
<1>2. /\ e \in EntryType /\ Fades(s.chunks[k], e)
      /\ Fits(s.chunks[k], e) /\ Lasts(s.chunks[k], e)
  BY <1>1 DEF EntryType, OrNone, Fades, Fits, Lasts, Known, Plain
<1>3. t = Put(s, k, e)
  BY DEF Put, InvalidatePendingMeshes
<1>4. t.chunks[k] = e => t.chunks[k] = [s.chunks[k] EXCEPT !.pend = Nothing]
  OBVIOUS
<1> HIDE DEF e
<1>5. Quiet(s, t, {}) /\ t \in StateType /\ Has(t, k)
  BY <1>2, <1>3, QuietPut, Zenon
<1>6. t.chunks[k] = e
  BY <1>3 DEF Put, StateType
<1> QED
  BY <1>4, <1>5, <1>6, QuietMore

LEMMA DropQuiet ==
  ASSUME NEW s \in StateType, NEW k \in Chunk, NEW X, NEW t, t = BroadcastDrop(s, k)
  PROVE  Quiet(s, t, X) /\ t \in StateType /\ t.chunks = s.chunks /\ t.jobs = s.jobs
<1>1. t \in StateType /\ t.chunks = s.chunks
  BY DropCalmer DEF Calmer
<1>2. t.jobs = s.jobs /\ t.reply = s.reply
  BY DEF BroadcastDrop, StateType
<1> QED
  BY <1>1, <1>2, QuietQueues, QuietReply

LEMMA EnqueueQuiet ==
  ASSUME NEW s \in StateType, NEW k \in Chunk, NEW X, NEW t,
         t \in {EnqueueHash(s, k), EnqueueFetch(s, k)}
  PROVE  Quiet(s, t, X) /\ t \in StateType /\ t.chunks = s.chunks
<1>1. t \in StateType /\ t.chunks = s.chunks
  BY EnqueueCalmer DEF Calmer
<1>2. t.jobs = s.jobs /\ t.reply = s.reply
  BY DEF EnqueueHash, EnqueueFetch, StateType
<1> QED
  BY <1>1, <1>2, QuietQueues, QuietReply

LEMMA ResetQuiet ==
  ASSUME NEW s \in StateType, NEW k \in Chunk, Has(s, k),
         NEW t, t = ResetAfterSourceChange(s, k)
  PROVE  /\ Quiet(s, t, {k}) /\ t \in StateType /\ Has(t, k) /\ Marked(t, k)
         /\ t.chunks[k].shown = Nothing /\ t.chunks[k].pend = Nothing
         /\ t.chunks[k].st = s.chunks[k].st /\ t.chunks[k].dig = s.chunks[k].dig
         /\ t.chunks[k].readyDig = s.chunks[k].readyDig
<1> DEFINE a == RemoveDisplayedMesh(s, k)
           b == BroadcastDrop(a, k)
           c == InvalidatePendingMeshes(b, k)
           d == MarkNeighborsDirty(c, k)
           e == [d.chunks[k] EXCEPT !.dirty = FALSE]
<1>0. t = Put(d, k, e)
  BY DEF ResetAfterSourceChange, Put
<1>1. /\ Quiet(s, a, {k}) /\ a \in StateType /\ Has(a, k)
      /\ a.chunks[k] = [s.chunks[k] EXCEPT !.shown = Nothing]
  BY RemoveQuiet
<1> HIDE DEF a
<1>2. Quiet(a, b, {k}) /\ b \in StateType /\ b.chunks = a.chunks
  BY <1>1, DropQuiet
<1> HIDE DEF b
<1>3. Has(b, k)
  BY <1>1, <1>2 DEF Has
<1>4. /\ Quiet(b, c, {k}) /\ c \in StateType /\ Has(c, k)
      /\ c.chunks[k] = [b.chunks[k] EXCEPT !.pend = Nothing]
  BY <1>2, <1>3, InvalidateQuiet
<1> HIDE DEF c
<1>5. Quiet(c, d, {k}) /\ d \in StateType /\ d.chunks[k] = c.chunks[k] /\ Marked(d, k)
  BY <1>4, NeighborsQuiet
<1> HIDE DEF d
<1>6. s.chunks[k] \in EntryType /\ Has(d, k)
  BY <1>4, <1>5, StateParts DEF Has
<1>7. /\ d.chunks[k] \in EntryType
      /\ d.chunks[k].shown = Nothing /\ d.chunks[k].pend = Nothing
      /\ d.chunks[k].st = s.chunks[k].st /\ d.chunks[k].dig = s.chunks[k].dig
      /\ d.chunks[k].readyDig = s.chunks[k].readyDig
  <2>1. /\ a.chunks[k] \in EntryType /\ a.chunks[k].shown = Nothing
        /\ a.chunks[k].st = s.chunks[k].st /\ a.chunks[k].dig = s.chunks[k].dig
        /\ a.chunks[k].readyDig = s.chunks[k].readyDig
    BY <1>1, <1>6 DEF EntryType, OrNone
  <2> QED
    BY <1>2, <1>4, <1>5, <2>1 DEF EntryType, OrNone
<1>8. /\ e \in EntryType /\ Fades(d.chunks[k], e)
      /\ e.shown = Nothing /\ e.pend = Nothing
      /\ e.st = s.chunks[k].st /\ e.dig = s.chunks[k].dig
      /\ e.readyDig = s.chunks[k].readyDig
  BY <1>7 DEF EntryType, Fades
<1> HIDE DEF e
<1>9. Quiet(d, t, {k}) /\ t \in StateType /\ Has(t, k) /\ t.chunks[k] = e
  BY <1>0, <1>5, <1>6, <1>8, QuietPut
<1>10. Quiet(s, t, {k})
  <2>1. Quiet(s, c, {k})
    BY <1>1, <1>2, <1>4, QuietThen
  <2> QED
    BY <1>5, <1>9, <2>1, QuietThen
<1>11. Marked(t, k)
  BY <1>5, <1>9, MarkedStays
<1> QED
  BY <1>8, <1>9, <1>10, <1>11

(* The content of a chunk changes after its mesh has gone. *)
LEMMA ResetPutQuiet ==
  ASSUME NEW s \in StateType, NEW k \in Chunk, Has(s, k),
         NEW r, r = ResetAfterSourceChange(s, k), NEW a, a.chunks = r.chunks,
         Quiet(r, a, {k}), NEW e \in EntryType, e.dig # Nothing, e.st # "stored",
         e.shown = a.chunks[k].shown, e.pend = a.chunks[k].pend,
         NEW t, t = Put(a, k, e)
  PROVE  Quiet(s, t, {}) /\ t \in StateType
<1>1. /\ Quiet(s, r, {k}) /\ Has(r, k) /\ Marked(r, k)
      /\ r.chunks[k].shown = Nothing /\ r.chunks[k].pend = Nothing
  BY ResetQuiet
<1>2. a \in StateType /\ Has(a, k)
  BY <1>1 DEF Quiet, Has
<1>3. Fades(a.chunks[k], e) /\ Fits(s.chunks[k], e)
  BY <1>1 DEF Fades, Fits, Plain
<1>4. Quiet(a, t, {k}) /\ t.chunks[k] = e /\ t \in StateType
  BY <1>2, <1>3, QuietPut, Zenon
<1>5. Quiet(s, t, {k}) /\ Marked(t, k)
  BY <1>1, <1>4, QuietThen, MarkedStays
<1> QED
  BY <1>3, <1>4, <1>5, QuietMarked

(* An entry goes on with its work: what it contains stays.                  *)
LEMMA WorkQuiet ==
  ASSUME NEW s \in StateType, NEW k \in Chunk, Has(s, k), NEW e \in EntryType,
         e.shown = s.chunks[k].shown, e.pend = s.chunks[k].pend,
         e.dirty = s.chunks[k].dirty, e.dig = s.chunks[k].dig,
         e.readyDig = s.chunks[k].readyDig,
         \/ e.st = s.chunks[k].st
         \/ /\ s.chunks[k].st \notin {"absent", "error"}
            /\ \/ e.st \in {"checking", "resolving"}
               \/ /\ e.st \in {"hashed", "fetching", "decoding"}
                  /\ e.dig # Nothing \/ s.chunks[k].st \notin {"checking", "resolving"},
         NEW t, t = Put(s, k, e)
  PROVE  Quiet(s, t, {}) /\ t \in StateType /\ Has(t, k)
<1>1. Fades(s.chunks[k], e) /\ Fits(s.chunks[k], e) /\ Lasts(s.chunks[k], e)
  BY DEF Fades, Fits, Lasts, Plain, Known
<1> QED
  BY <1>1, QuietPut

LEMMA UnavailableQuiet ==
  ASSUME NEW s \in StateType, NEW k \in Chunk, Has(s, k)
  PROVE  /\ Quiet(s, MarkUnavailable(s, k, "absent", TRUE, TRUE), {})
         /\ Quiet(s, MarkUnavailable(s, k, "error", FALSE, FALSE), {})
<1> DEFINE st(absent) == IF absent THEN "absent" ELSE "error"
           e1(absent) == [s.chunks[k] EXCEPT !.st = st(absent), !.pend = Nothing]
           e2 == [e1(TRUE) EXCEPT !.dig = Nothing, !.res = Nothing]
           a == Put(s, k, e2)
           b == MarkNeighborsDirty(a, k)
           c == RemoveDisplayedMesh(b, k)
           d == Put(s, k, e1(FALSE))
<1>1. s.chunks[k] \in EntryType
  BY StateParts
<1>2. c = MarkUnavailable(s, k, "absent", TRUE, TRUE)
  <2>1. [[s EXCEPT !.chunks[k] = e1(TRUE)] EXCEPT !.chunks[k] = [@ EXCEPT !.dig = Nothing,
                                                                       !.res = Nothing]]
          = [s EXCEPT !.chunks[k] = e2]
    BY <1>1, Zenon DEF StateType, EntryType
  <2> QED
    BY <2>1 DEF MarkUnavailable, Put
<1>3. d = MarkUnavailable(s, k, "error", FALSE, FALSE)
  BY DEF MarkUnavailable, Put
<1>4. /\ e2 \in EntryType /\ e2.st = "absent" /\ e2.pend = Nothing /\ e2.dig = Nothing
      /\ Fades(s.chunks[k], e2)
      /\ e1(FALSE) \in EntryType /\ Fades(s.chunks[k], e1(FALSE))
      /\ Fits(s.chunks[k], e1(FALSE)) /\ Lasts(s.chunks[k], e1(FALSE))
  BY <1>1, Zenon DEF EntryType, OrNone, Fades, Fits, Lasts, Plain, Known
<1> HIDE DEF e2, e1
<1>5. Quiet(s, d, {})
  BY <1>4, QuietPut
<1>6. Quiet(s, a, {k}) /\ a \in StateType /\ Has(a, k) /\ a.chunks[k] = e2
  BY <1>4, QuietPut
<1> HIDE DEF a, d
<1>7. Quiet(a, b, {k}) /\ b \in StateType /\ b.chunks[k] = a.chunks[k] /\ Marked(b, k)
  BY <1>6, NeighborsQuiet
<1> HIDE DEF b
<1>8. Has(b, k)
  BY <1>6, <1>7 DEF Has
<1>9. Quiet(b, c, {k}) /\ c.chunks[k] = [b.chunks[k] EXCEPT !.shown = Nothing]
  BY <1>7, <1>8, RemoveQuiet
<1> HIDE DEF c
<1>10. Quiet(s, c, {k}) /\ Marked(c, k)
  BY <1>6, <1>7, <1>9, QuietThen, MarkedStays
<1>11. /\ c.chunks[k].shown = Nothing /\ c.chunks[k].pend = Nothing
       /\ c.chunks[k].dig = Nothing /\ c.chunks[k].st = "absent"
  BY <1>4, <1>6, <1>7, <1>9 DEF EntryType
<1>12. Fits(s.chunks[k], c.chunks[k])
  BY <1>11 DEF Fits, Plain
<1>13. Quiet(s, c, {})
  BY <1>10, <1>12, QuietMarked
<1> QED
  BY <1>2, <1>3, <1>5, <1>13

LEMMA FailQuiet ==
  ASSUME NEW s \in StateType, NEW k \in Chunk, Has(s, k),
         s.chunks[k].st \in {"resolving", "fetching"}, NEW why
  PROVE  Quiet(s, Fail(s, k, why), {})
<1> DEFINE expired == why = "expired"
           known == s.chunks[k].dig # Nothing
           st == IF known THEN "hashed" ELSE "checking"
           res == IF expired THEN Nothing ELSE s.chunks[k].res
           e == [s.chunks[k] EXCEPT !.st = st, !.res = res]
           a == Put(s, k, e)
<1>1. s.chunks[k] \in EntryType
  BY StateParts
<1>2. RetryIo(s, k, expired) \in {EnqueueFetch(a, k), EnqueueHash(a, k)}
  BY DEF RetryIo, Put
<1>3. st = (IF s.chunks[k].dig # Nothing THEN "hashed" ELSE "checking") /\ res \in OrNone(Views)
  BY <1>1, EntryParts DEF OrNone
<1> HIDE DEF known, expired, st, res
<1>4. /\ e \in EntryType /\ e.shown = s.chunks[k].shown /\ e.pend = s.chunks[k].pend
      /\ e.dirty = s.chunks[k].dirty /\ e.dig = s.chunks[k].dig
      /\ e.readyDig = s.chunks[k].readyDig /\ e.st = st
  BY <1>1, <1>3 DEF EntryType
<1> HIDE DEF e
<1>5. Quiet(s, a, {}) /\ a \in StateType
  BY <1>3, <1>4, WorkQuiet
<1> HIDE DEF a
<1>6. Quiet(s, RetryIo(s, k, expired), {})
  BY <1>2, <1>5, EnqueueQuiet, QuietThen
<1>7. Fail(s, k, why) = IF why = "fatal" THEN MarkUnavailable(s, k, "error", FALSE, FALSE)
                        ELSE RetryIo(s, k, expired)
  BY DEF Fail, expired
<1> QED
  BY <1>6, <1>7, UnavailableQuiet

LEMMA ResolutionQuiet ==
  ASSUME NEW s \in StateType, NEW k \in Chunk, Has(s, k), NEW v \in Views,
         Plain(s.chunks[k])
  PROVE  Quiet(s, HandleFetchedResolution(s, k, v), {})
<1> DEFINE row == Source[v][k]
           changed == s.chunks[k].dig # Nothing /\ s.chunks[k].dig # row
           st == IF s.chunks[k].st = "fetching" THEN s.chunks[k].st ELSE "hashed"
           e(a) == [a.chunks[k] EXCEPT !.dig = row, !.res = v, !.st = st]
           r == ResetAfterSourceChange(s, k)
<1>0. s.chunks[k] \in EntryType
  BY StateParts
<1>1. CASE s.chunks[k].st \notin {"resolving", "hashed", "fetching"}
  BY <1>1, QuietSelf DEF HandleFetchedResolution
<1>2. CASE s.chunks[k].st \in {"resolving", "hashed", "fetching"} /\ row = "missing"
  BY <1>2, UnavailableQuiet DEF HandleFetchedResolution
<1>3. CASE s.chunks[k].st \in {"resolving", "hashed", "fetching"} /\ row # "missing"
  <2>1. HandleFetchedResolution(s, k, v)
          = IF changed THEN Put(r, k, e(r)) ELSE Put(s, k, e(s))
    BY <1>3 DEF HandleFetchedResolution, Put
  <2>2. row \in Content /\ row # Nothing
    BY <1>3, SourceType
  <2>3. CASE changed
    <3>1. r \in StateType /\ Has(r, k)
      BY ResetQuiet
    <3>2. r.chunks[k] \in EntryType
      BY <3>1, StateParts
    <3> HIDE DEF r, row
    <3>3. /\ e(r) \in EntryType /\ e(r).dig # Nothing /\ e(r).st # "stored"
          /\ e(r).shown = r.chunks[k].shown /\ e(r).pend = r.chunks[k].pend
      BY <1>3, <2>2, <3>2, Zenon DEF EntryType, OrNone
    <3> HIDE DEF e
    <3>4. Quiet(r, r, {k})
      BY <3>1, QuietSelf
    <3>5. Quiet(s, Put(r, k, e(r)), {})
      BY <3>3, <3>4, ResetPutQuiet DEF r
    <3> QED
      BY <2>1, <2>3, <3>5
  <2>4. CASE ~changed
    <3>1. s.chunks[k].dig \in {Nothing, row}
      BY <2>4
    <3> HIDE DEF row
    <3>2. e(s) \in EntryType /\ Fades(s.chunks[k], e(s))
      BY <1>0, <1>3, <2>2, Zenon DEF EntryType, OrNone, Fades
    <3>3. Fits(s.chunks[k], e(s)) /\ Lasts(s.chunks[k], e(s))
      BY <1>0, <1>3, <2>2, <3>1 DEF EntryType, Fits, Lasts, Plain, Known
    <3> HIDE DEF e
    <3>4. Quiet(s, Put(s, k, e(s)), {})
      BY <3>2, <3>3, QuietPut
    <3> QED
      BY <2>1, <2>4, <3>4
  <2> QED
    BY <2>3, <2>4
<1> QED
  BY <1>1, <1>2, <1>3

LEMMA ErrorQuiet ==
  ASSUME NEW s \in StateType, NEW k \in Chunk, NEW d
  PROVE  Quiet(s, HandleChunkError(s, k, d), {})
BY UnavailableQuiet, QuietSelf DEF HandleChunkError

LEMMA HashedQuiet ==
  ASSUME NEW s \in StateType, NEW k \in Chunk, Has(s, k),
         s.chunks[k].st \notin {"checking", "resolving", "absent", "error"},
         NEW t, t = Put(s, k, [s.chunks[k] EXCEPT !.st = "hashed", !.mask = {}])
  PROVE  Quiet(s, t, {}) /\ t \in StateType
<1> DEFINE e == [s.chunks[k] EXCEPT !.st = "hashed", !.mask = {}]
<1>1. s.chunks[k] \in EntryType
  BY StateParts
<1>2. /\ e \in EntryType /\ e.shown = s.chunks[k].shown /\ e.pend = s.chunks[k].pend
      /\ e.dirty = s.chunks[k].dirty /\ e.dig = s.chunks[k].dig
      /\ e.readyDig = s.chunks[k].readyDig /\ e.st = "hashed"
  BY <1>1 DEF EntryType
<1>3. t = Put(s, k, e)
  OBVIOUS
<1> HIDE DEF e
<1> QED
  BY <1>2, <1>3, WorkQuiet

LEMMA RecoverQuiet ==
  ASSUME NEW s \in StateType, NEW k \in Chunk, Has(s, k)
  PROVE  Quiet(s, RecoverMissingWorkerInput(s, k), {})
<1> DEFINE a == Put(s, k, [s.chunks[k] EXCEPT !.st = "hashed", !.mask = {}])
<1>1. CASE s.chunks[k].st # "stored"
  <2>1. RecoverMissingWorkerInput(s, k) \in {EnqueueHash(s, k), EnqueueFetch(s, k), s}
    BY <1>1 DEF RecoverMissingWorkerInput
  <2> QED
    BY <2>1, EnqueueQuiet, QuietSelf
<1>2. CASE s.chunks[k].st = "stored"
  <2>1. RecoverMissingWorkerInput(s, k) = EnqueueFetch(a, k)
    BY <1>2 DEF RecoverMissingWorkerInput, Put
  <2>2. Quiet(s, a, {}) /\ a \in StateType
    BY <1>2, HashedQuiet, Zenon
  <2> HIDE DEF a
  <2> QED
    BY <2>1, <2>2, EnqueueQuiet, QuietThen
<1> QED
  BY <1>1, <1>2

LEMMA RefreshQuiet ==
  ASSUME NEW s \in StateType, NEW k \in Chunk, view \in Views
  PROVE  Quiet(s, RefreshEntry(s, k), {})
<1> DEFINE row == Source[view][k]
           e1 == [s.chunks[k] EXCEPT !.req = Nothing]
           s1 == Put(s, k, e1)
           e2 == [s.chunks[k] EXCEPT !.res = view]
           s2 == Put(s, k, e2)
           e3 == [e2 EXCEPT !.req = Nothing]
           s3 == Put(s, k, e3)
           a == ResetAfterSourceChange(s3, k)
           e4 == [a.chunks[k] EXCEPT !.dig = row, !.st = "hashed"]
           b == Put(a, k, e4)
           remembered == /\ refresh.entry[k] # Nothing /\ Has(s, k)
                         /\ s.chunks[k].res = refresh.entry[k].res
                         /\ s.chunks[k].req = refresh.entry[k].req
<1>1. CASE ~remembered
  BY <1>1, QuietSelf DEF RefreshEntry
<1>2. CASE remembered
  <2>1. Has(s, k) /\ s.chunks[k] \in EntryType
    BY <1>2, StateParts
  <2>2. /\ e1 \in EntryType /\ e1.shown = s.chunks[k].shown /\ e1.pend = s.chunks[k].pend
        /\ e1.dirty = s.chunks[k].dirty /\ e1.dig = s.chunks[k].dig
        /\ e1.readyDig = s.chunks[k].readyDig /\ e1.st = s.chunks[k].st
    BY <2>1 DEF EntryType, OrNone
  <2>3. /\ e2 \in EntryType /\ e2.shown = s.chunks[k].shown /\ e2.pend = s.chunks[k].pend
        /\ e2.dirty = s.chunks[k].dirty /\ e2.dig = s.chunks[k].dig
        /\ e2.readyDig = s.chunks[k].readyDig /\ e2.st = s.chunks[k].st
    BY <2>1 DEF EntryType, OrNone
  <2>4. /\ e3 \in EntryType /\ e3.shown = s.chunks[k].shown /\ e3.pend = s.chunks[k].pend
        /\ e3.dirty = s.chunks[k].dirty /\ e3.dig = s.chunks[k].dig
        /\ e3.readyDig = s.chunks[k].readyDig /\ e3.st = s.chunks[k].st
    BY <2>1, Zenon DEF EntryType, OrNone
  <2>5. CASE row = "missing"
    <3>1. RefreshEntry(s, k) = MarkUnavailable(s1, k, "absent", TRUE, TRUE)
      BY <1>2, <2>5 DEF RefreshEntry, Put
    <3> HIDE DEF e1
    <3>2. Quiet(s, s1, {}) /\ s1 \in StateType /\ Has(s1, k)
      BY <2>1, <2>2, WorkQuiet
    <3> HIDE DEF s1
    <3> QED
      BY <3>1, <3>2, UnavailableQuiet, QuietThen, Zenon
  <2>6. CASE row # "missing" /\ row = s.chunks[k].dig
    <3>1. RefreshEntry(s, k) = s2
      BY <1>2, <2>6 DEF RefreshEntry, Put
    <3> HIDE DEF e2
    <3>2. Quiet(s, s2, {})
      BY <2>1, <2>3, WorkQuiet
    <3> QED
      BY <3>1, <3>2
  <2>7. CASE row # "missing" /\ row # s.chunks[k].dig
    <3>1. RefreshEntry(s, k) = EnqueueFetch(b, k)
      <4>1. [s2 EXCEPT !.chunks[k] = [@ EXCEPT !.req = Nothing]] = s3
        BY <2>1 DEF Put, StateType
      <4> QED
        BY <1>2, <2>7, <4>1 DEF RefreshEntry, Put
    <3> HIDE DEF e3
    <3>2. Quiet(s, s3, {}) /\ s3 \in StateType /\ Has(s3, k)
      BY <2>1, <2>4, WorkQuiet
    <3> HIDE DEF s3
    <3>3. Quiet(s3, a, {k}) /\ a \in StateType /\ Has(a, k)
      BY <3>2, ResetQuiet
    <3>4. a.chunks[k] \in EntryType /\ Quiet(a, a, {k})
      BY <3>3, StateParts, QuietSelf
    <3>5. row \in Content /\ row # Nothing
      BY <2>7, SourceType
    <3> HIDE DEF a, row
    <3>6. /\ e4 \in EntryType /\ e4.dig # Nothing /\ e4.st # "stored"
          /\ e4.shown = a.chunks[k].shown /\ e4.pend = a.chunks[k].pend
      BY <3>4, <3>5, Zenon DEF EntryType, OrNone
    <3> HIDE DEF e4
    <3>7. Quiet(s3, b, {}) /\ b \in StateType
      BY <3>2, <3>4, <3>6, ResetPutQuiet DEF a
    <3> HIDE DEF b
    <3>8. Quiet(s, b, {})
      BY <3>2, <3>7, QuietThen
    <3> QED
      BY <3>1, <3>7, <3>8, EnqueueQuiet, QuietThen
  <2> QED
    BY <2>5, <2>6, <2>7
<1> QED
  BY <1>1, <1>2

-----------------------------------------------------------------------------
(* Jobs end, and what the main thread hears is gone.                        *)

LEMMA QuietWhen ==
  ASSUME NEW s, NEW t \in StateType, NEW X,
         \A k \in Chunk : Has(t, k) =>
           /\ Has(s, k) /\ Fades(s.chunks[k], t.chunks[k])
           /\ Fits(s.chunks[k], t.chunks[k]) /\ Lasts(s.chunks[k], t.chunks[k]),
         \A j \in JobId : t.jobs[j] # Nothing =>
           /\ s.jobs[j] # Nothing /\ SameTask(s.jobs[j], t.jobs[j])
           /\ t.jobs[j].clean = s.jobs[j].clean,
         \A w \in Worker : Building(t, w) \subseteq Building(s, w)
  PROVE  Quiet(s, t, X)
<1>1. ASSUME Tidy(s) PROVE Tidy(t)
  <2> SUFFICES ASSUME NEW j \in JobId, Current(t, j), ~t.jobs[j].clean
               PROVE  t.chunks[t.jobs[j].chunk].dirty
    BY DEF Tidy
  <2> DEFINE c == t.jobs[j].chunk
  <2>1. c \in Chunk /\ Has(t, c) /\ c # Nothing /\ t.chunks[c].pend = j /\ j # Nothing
    BY CurrentJob, NothingAssumption DEF Current, IsCurrentMeshJob
  <2>2. s.jobs[j] # Nothing /\ s.jobs[j].chunk = c /\ ~s.jobs[j].clean
    BY <2>1 DEF Current, SameTask
  <2> HIDE DEF c
  <2>3. /\ Has(s, c) /\ s.chunks[c].pend = j
        /\ s.chunks[c].dirty => t.chunks[c].dirty
    BY <2>1 DEF Fades
  <2>4. s.chunks[c].dirty
    BY <1>1, <2>1, <2>2, <2>3 DEF Tidy, Current, IsCurrentMeshJob
  <2> QED
    BY <2>3, <2>4 DEF c
<1> QED
  BY <1>1 DEF Quiet

LEMMA FinishQuiet ==
  ASSUME NEW s \in StateType, Pinned(s), Pending(s), NEW J \in SUBSET JobId,
         \A j \in J : s.jobs[j] # Nothing, NEW X
  PROVE  Quiet(s, FinishMeshJobs(s, J), X)
<1> DEFINE C == {s.jobs[j].chunk : j \in {i \in J : IsCurrentMeshJob(s, i)}}
           P(k) == {j \in J : k \in s.jobs[j].deps}
           s1 == EachEntry(s, C, LAMBDA e : [e EXCEPT !.pend = Nothing])
           t == FinishMeshJobs(s, J)
<1>1. s1.chunks = [k \in Chunk |-> IF k \in C THEN [s.chunks[k] EXCEPT !.pend = Nothing]
                                   ELSE s.chunks[k]]
  BY DEF EachEntry, StateType
<1>2. t.chunks = [k \in Chunk |->
                    IF P(k) = {} THEN s1.chunks[k]
                    ELSE [s1.chunks[k] EXCEPT
                            !.pins = s1.chunks[k].pins - Cardinality(P(k))]]
  BY DEF FinishMeshJobs, EachEntry, StateType
<1>3. Ended(s, t, J)
  BY FinishEnds
<1> HIDE DEF s1, t
<1>4. ASSUME NEW k \in Chunk, Has(t, k)
      PROVE  /\ Has(s, k) /\ Fades(s.chunks[k], t.chunks[k])
             /\ Fits(s.chunks[k], t.chunks[k]) /\ Lasts(s.chunks[k], t.chunks[k])
  <2> DEFINE m == s1.chunks[k].pins - Cardinality(P(k))
  <2>1. Has(s, k)
    BY <1>3, <1>4 DEF Ended, SameData
  <2>2. s.chunks[k] \in EntryType
    BY <2>1, StateParts
  <2>3. s1.chunks[k] \in {s.chunks[k], [s.chunks[k] EXCEPT !.pend = Nothing]}
    BY <1>1
  <2>4. t.chunks[k] \in {s1.chunks[k], [s1.chunks[k] EXCEPT !.pins = m]}
    BY <1>2
  <2> HIDE DEF m
  <2>5. /\ s1.chunks[k].shown = s.chunks[k].shown /\ s1.chunks[k].dirty = s.chunks[k].dirty
        /\ s1.chunks[k].pend \in {s.chunks[k].pend, Nothing}
        /\ s1.chunks[k].st = s.chunks[k].st /\ s1.chunks[k].dig = s.chunks[k].dig
        /\ s1.chunks[k].readyDig = s.chunks[k].readyDig
        /\ s1.chunks[k] \in EntryType
    BY <2>2, <2>3 DEF EntryType, OrNone
  <2>6. /\ t.chunks[k].shown = s.chunks[k].shown /\ t.chunks[k].dirty = s.chunks[k].dirty
        /\ t.chunks[k].pend \in {s.chunks[k].pend, Nothing}
        /\ t.chunks[k].st = s.chunks[k].st /\ t.chunks[k].dig = s.chunks[k].dig
        /\ t.chunks[k].readyDig = s.chunks[k].readyDig
    BY <2>4, <2>5 DEF EntryType
  <2> QED
    BY <2>1, <2>6 DEF Fades, Fits, Lasts, Plain, Known
<1>5. /\ t \in StateType /\ t.reply = s.reply
      /\ \A j \in JobId : t.jobs[j] = IF j \in J THEN Nothing ELSE s.jobs[j]
  BY <1>3 DEF Ended
<1>6. \A j \in JobId : t.jobs[j] # Nothing =>
        /\ s.jobs[j] # Nothing /\ SameTask(s.jobs[j], t.jobs[j])
        /\ t.jobs[j].clean = s.jobs[j].clean
  BY <1>5 DEF SameTask
<1>7. \A w \in Worker : Building(t, w) \subseteq Building(s, w)
  BY <1>5, QuietReply
<1>8. Quiet(s, t, X)
  BY <1>4, <1>5, <1>6, <1>7, QuietWhen
<1> QED
  BY <1>8 DEF t

LEMMA SweepQuiet ==
  ASSUME NEW s, Sound(s)
  PROVE  Quiet(s, SweepJobs(s), {})
<1> DEFINE J == {j \in WaitingJobs(s) : ~( /\ IsCurrentMeshJob(s, j)
                                           /\ ShouldAcceptMeshResult(s, j) )}
           a == FinishMeshJobs(s, J)
           M == UNION {MissingInputs(a, a.jobs[j].chunk) : j \in WaitingJobs(a)}
           A(st) == {n \in M : a.chunks[n].st = st /\ a.demand[n] # "none"}
           t == SweepJobs(s)
<1>1. /\ t = [a EXCEPT !.hashQ = @ \cup A("checking"), !.fetchQ = @ \cup A("hashed")]
      /\ J \in SUBSET JobId /\ \A j \in J : s.jobs[j] # Nothing
  BY DEF SweepJobs, WaitingJobs, JobsOf
<1>2. t \in StateType
  BY SweepMoves DEF Moves, Sound
<1> HIDE DEF J, t
<1>3. Quiet(s, a, {})
  BY <1>1, FinishQuiet DEF Sound
<1> HIDE DEF a, A
<1>4. a \in StateType
  BY <1>3 DEF Quiet
<1>5. t.chunks = a.chunks /\ t.jobs = a.jobs /\ t.reply = a.reply
  BY <1>1, <1>4 DEF StateType
<1>6. Quiet(a, t, {})
  BY <1>2, <1>5, QuietQueues, QuietReply
<1> QED
  BY <1>3, <1>6, QuietThen DEF t

LEMMA WorksQuiet ==
  ASSUME NEW s, NEW t \in StateType, t.jobs = s.jobs,
         \A k \in Chunk : Has(t, k) => Has(s, k) /\ Works(s.chunks[k], t.chunks[k]),
         \A w \in Worker : Building(t, w) \subseteq Building(s, w)
  PROVE  Quiet(s, t, {})
<1>1. ASSUME NEW k \in Chunk, Has(t, k)
      PROVE  /\ Has(s, k) /\ Fades(s.chunks[k], t.chunks[k])
             /\ Fits(s.chunks[k], t.chunks[k]) /\ Lasts(s.chunks[k], t.chunks[k])
  <2>1. Has(s, k) /\ Works(s.chunks[k], t.chunks[k])
    BY <1>1
  <2> QED
    BY <2>1 DEF Works, Fades, Fits, Lasts, Plain, Known
<1>2. \A j \in JobId : t.jobs[j] # Nothing =>
        /\ s.jobs[j] # Nothing /\ SameTask(s.jobs[j], t.jobs[j])
        /\ t.jobs[j].clean = s.jobs[j].clean
  BY DEF SameTask
<1> QED
  BY <1>1, <1>2, QuietWhen

LEMMA HeardQuiet ==
  ASSUME NEW r, Sound(r), NEW w \in Worker, r.reply[w] # <<>>, NEW s, s = Heard(r, w)
  PROVE  /\ Quiet(r, s, {})
         /\ Head(r.reply[w]).type = "mesh" => Head(r.reply[w]) \in Building(r, w)
<1>1. /\ s \in StateType /\ s.chunks = r.chunks /\ s.jobs = r.jobs
      /\ r \in StateType /\ r.reply[w] \in Seq(MessageType)
  BY HeardParts, StateParts, Zenon DEF Steady, Sound
<1>2. /\ s.reply[w] = Tail(r.reply[w])
      /\ \A v \in Worker : v # w => s.reply[v] = r.reply[v]
  BY <1>1 DEF Heard, StateType
<1>3. /\ s.reply[w] \in Seq(MessageType) /\ Len(r.reply[w]) \in Nat /\ Len(s.reply[w]) \in Nat
      /\ Len(s.reply[w]) = Len(r.reply[w]) - 1
      /\ \A i \in 1..Len(s.reply[w]) : s.reply[w][i] = r.reply[w][i + 1]
      /\ Len(r.reply[w]) # 0 /\ Head(r.reply[w]) = r.reply[w][1]
  <2>1. /\ s.reply[w] \in Seq(MessageType) /\ Len(s.reply[w]) = Len(r.reply[w]) - 1
        /\ \A i \in 1..Len(s.reply[w]) : s.reply[w][i] = r.reply[w][i + 1]
    BY <1>1, <1>2, HeadTailProperties
  <2>2. Len(r.reply[w]) \in Nat /\ Len(s.reply[w]) \in Nat
    BY <1>1, <2>1, LenProperties
  <2>3. Head(r.reply[w]) = r.reply[w][1]
    BY <1>1
  <2>4. Len(r.reply[w]) # 0
    BY <1>1, <2>2
  <2> QED
    BY <2>1, <2>2, <2>3, <2>4
<1>4. ASSUME NEW v \in Worker PROVE Building(s, v) \subseteq Building(r, v)
  <2>1. CASE v # w
    BY <1>2, <2>1 DEF Building
  <2>2. CASE v = w
    <3> SUFFICES ASSUME NEW i \in 1..Len(s.reply[w]), s.reply[w][i].type = "mesh"
                 PROVE  s.reply[w][i] \in Building(r, w)
      BY <2>2 DEF Building
    <3>1. i + 1 \in 1..Len(r.reply[w]) /\ s.reply[w][i] = r.reply[w][i + 1]
      BY <1>3
    <3> QED
      BY <3>1 DEF Building
  <2> QED
    BY <2>1, <2>2
<1>5. Quiet(r, s, {})
  BY <1>1, <1>4, QuietQueues
<1>6. 1 \in 1..Len(r.reply[w])
  BY <1>3
<1>7. Head(r.reply[w]).type = "mesh" => Head(r.reply[w]) \in Building(r, w)
  BY <1>3, <1>6 DEF Building
<1> QED
  BY <1>5, <1>7

LEMMA FetchedQuiet ==
  ASSUME NEW s, Sound(s), NEW k \in Chunk, Has(s, k), NEW v, Plain(s.chunks[k]),
         s.chunks[k].st = "fetching" => s.chunks[k].dig = Source[v][k]
                                        /\ Source[v][k] \in Content
  PROVE  Quiet(s, HandleFetchedChunk(s, k, v), {})
<1> DEFINE t == HandleFetchedChunk(s, k, v)
           e == [s.chunks[k] EXCEPT !.st = "hashed"]
           a == Put(s, k, e)
           g == [s.chunks[k] EXCEPT !.st = "decoding", !.mask = {}]
           b == Put(s, k, g)
           d == Source[v][k]
           m == [type |-> "chunk", chunk |-> k, dig |-> d]
<1>1. s \in StateType /\ s.chunks[k] \in EntryType /\ t \in StateType
  BY FetchedMoves, StateParts DEF Sound, Moves
<1>2. CASE s.chunks[k].st # "fetching"
  BY <1>1, <1>2, QuietSelf DEF HandleFetchedChunk
<1>3. CASE s.chunks[k].st = "fetching" /\ ~s.up
  <2>1. t = EnqueueFetch(a, k)
    BY <1>3 DEF HandleFetchedChunk, Put
  <2>2. /\ e \in EntryType /\ e.shown = s.chunks[k].shown /\ e.pend = s.chunks[k].pend
        /\ e.dirty = s.chunks[k].dirty /\ e.dig = s.chunks[k].dig
        /\ e.readyDig = s.chunks[k].readyDig /\ e.st = "hashed"
    BY <1>1 DEF EntryType
  <2> HIDE DEF e
  <2>3. Quiet(s, a, {}) /\ a \in StateType
    BY <1>1, <1>3, <2>2, WorkQuiet
  <2> HIDE DEF a, t
  <2>4. Quiet(a, t, {})
    BY <2>1, <2>3, EnqueueQuiet
  <2>5. Quiet(s, t, {})
    BY <2>3, <2>4, QuietThen
  <2> QED
    BY <2>5 DEF t
<1>4. CASE s.chunks[k].st = "fetching" /\ s.up
  <2>1. t = SendChunkToWorkers(b, k, d)
    BY <1>4 DEF HandleFetchedChunk, Put
  <2>2. /\ g \in EntryType /\ g.shown = s.chunks[k].shown /\ g.pend = s.chunks[k].pend
        /\ g.dirty = s.chunks[k].dirty /\ g.dig = s.chunks[k].dig
        /\ g.readyDig = s.chunks[k].readyDig /\ g.st = "decoding"
    BY <1>1 DEF EntryType
  <2> HIDE DEF g
  <2>3. Quiet(s, b, {}) /\ b \in StateType
    BY <1>1, <1>4, <2>2, WorkQuiet
  <2> HIDE DEF b, t
  <2>4. /\ t.chunks = b.chunks /\ t.jobs = b.jobs
        /\ t.reply = [w \in Worker |-> Append(b.reply[w], m)]
    BY <2>1, <2>3 DEF SendChunkToWorkers, StateType
  <2>5. m.type = "chunk"
    OBVIOUS
  <2> HIDE DEF m
  <2>6. ASSUME NEW w \in Worker PROVE Building(t, w) \subseteq Building(b, w)
    <3> SUFFICES ASSUME NEW i \in 1..Len(t.reply[w]), t.reply[w][i].type = "mesh"
                 PROVE  t.reply[w][i] \in Building(b, w)
      BY DEF Building
    <3>1. b.reply[w] \in Seq(MessageType) /\ t.reply[w] = Append(b.reply[w], m)
      BY <2>3, <2>4, StateParts
    <3>2. /\ Len(t.reply[w]) = Len(b.reply[w]) + 1 /\ Len(b.reply[w]) \in Nat
          /\ \A h \in 1..Len(b.reply[w]) : t.reply[w][h] = b.reply[w][h]
          /\ t.reply[w][Len(b.reply[w]) + 1] = m
      BY <3>1
    <3>3. i \in 1..Len(b.reply[w])
      BY <2>5, <3>2
    <3> QED
      BY <3>2, <3>3 DEF Building
  <2>7. Quiet(b, t, {})
    BY <1>1, <2>4, <2>6, QuietQueues DEF t
  <2>8. Quiet(s, t, {})
    BY <2>3, <2>7, QuietThen
  <2> QED
    BY <2>8 DEF t
<1> QED
  BY <1>2, <1>3, <1>4

LEMMA RecoverWorkersQuiet ==
  ASSUME NEW s, Sound(s)
  PROVE  Quiet(s, RecoverWorkers(s), {})
<1> DEFINE A == {k \in Chunk : Has(s, k) /\ \E j \in JobsOf(s) : s.jobs[j].chunk = k}
           s1 == FinishMeshJobs(s, JobsOf(s))
           F(e) == [e EXCEPT !.st = IF e.st \in {"stored", "decoding"} THEN "hashed" ELSE e.st,
                             !.mask = {}]
           G(e) == [e EXCEPT !.dirty = TRUE]
           K == {k \in Chunk : Has(s1, k)}
           s2 == EachEntry(s1, K, F)
           t == RecoverWorkers(s)
<1>1. s \in StateType /\ JobsOf(s) \in SUBSET JobId /\ \A j \in JobsOf(s) : s.jobs[j] # Nothing
  BY DEF Sound, JobsOf
<1>2. Quiet(s, s1, {})
  BY <1>1, FinishQuiet DEF Sound
<1>3. s1 \in StateType /\ t \in StateType
  BY <1>2, RecoverMoves DEF Quiet, Moves, Sound
<1> HIDE DEF A
<1>4. /\ t.chunks = [k \in Chunk |-> IF k \in A THEN G(s2.chunks[k]) ELSE s2.chunks[k]]
      /\ t.jobs = s1.jobs
      /\ t.reply = [w \in Worker |-> <<>>]
      /\ s2.chunks = [k \in Chunk |-> IF k \in K THEN F(s1.chunks[k]) ELSE s1.chunks[k]]
  <2> HIDE DEF s1
  <2>1. t = [EachEntry(s2, A, G) EXCEPT
               !.fetchQ = s1.fetchQ \cup {k \in A : s1.demand[k] # "none"},
               !.up = FALSE,
               !.column = [w \in Worker |-> [k \in Chunk |-> Nothing]],
               !.reply = [w \in Worker |-> <<>>]]
    BY DEF RecoverWorkers, s1, A
  <2> HIDE DEF t
  <2> QED
    BY <1>3, <2>1, Zenon DEF EachEntry, StateType
<1>6. ASSUME NEW k \in Chunk, k \in A PROVE Has(s1, k)
  <2>1. Has(s, k)
    BY <1>6 DEF A
  <2>2. Ended(s, s1, JobsOf(s))
    BY <1>1, FinishEnds DEF Sound
  <2> QED
    BY <2>1, <2>2 DEF Ended, SameData
<1> HIDE DEF t, s2, s1
<1>7. ASSUME NEW k \in Chunk, Has(t, k)
      PROVE  Has(s1, k) /\ Works(s1.chunks[k], t.chunks[k])
  <2> DEFINE a == s1.chunks[k]
             b == s2.chunks[k]
             st == IF a.st \in {"stored", "decoding"} THEN "hashed" ELSE a.st
  <2>1. Has(s1, k)
    <3>1. CASE k \in A
      BY <1>6, <3>1
    <3>2. CASE k \notin A
      <4>1. t.chunks[k] = s2.chunks[k]
        BY <1>4, <3>2, Zenon
      <4>2. k \notin K => s2.chunks[k] = s1.chunks[k]
        BY <1>4, Zenon
      <4> QED
        BY <1>7, <4>1, <4>2 DEF Has
    <3> QED
      BY <3>1, <3>2
  <2>2. a \in EntryType /\ b = [a EXCEPT !.st = st, !.mask = {}]
    BY <1>3, <1>4, <2>1, StateParts, Zenon
  <2>3. /\ st \in {"checking", "resolving", "hashed", "fetching", "absent", "error"}
        /\ st = a.st \/ (a.st \in {"stored", "decoding"} /\ st = "hashed")
    BY <2>2 DEF EntryType
  <2> HIDE DEF st, a
  <2>4. /\ b \in EntryType /\ b.pend = a.pend /\ b.st = st /\ b.shown = a.shown
        /\ b.dirty = a.dirty /\ b.dig = a.dig /\ b.readyDig = a.readyDig
    BY <2>2, <2>3, Zenon DEF EntryType
  <2>5. t.chunks[k] = b \/ t.chunks[k] = [b EXCEPT !.dirty = TRUE]
    BY <1>4, Zenon
  <2> HIDE DEF b
  <2>6. /\ t.chunks[k].pend = b.pend /\ t.chunks[k].st = b.st /\ t.chunks[k].shown = b.shown
        /\ b.dirty => t.chunks[k].dirty
        /\ t.chunks[k].dig = b.dig /\ t.chunks[k].readyDig = b.readyDig
    BY <2>4, <2>5 DEF EntryType
  <2>7. Works(a, t.chunks[k])
    BY <2>3, <2>4, <2>6 DEF Works
  <2> QED
    BY <2>1, <2>7 DEF a
<1>8. \A w \in Worker : Building(t, w) \subseteq Building(s1, w)
  <2>1. \A w \in Worker : t.reply[w] = <<>>
    BY <1>4, Zenon
  <2>2. \A w \in Worker : Building(t, w) = {}
    BY <2>1 DEF Building
  <2> QED
    BY <2>2
<1>9. Quiet(s1, t, {})
  BY <1>3, <1>4, <1>7, <1>8, WorksQuiet, Zenon DEF t
<1>10. Quiet(s, t, {})
  BY <1>2, <1>9, QuietThen DEF s1
<1> QED
  BY <1>10 DEF t

LEMMA DropEntryQuiet ==
  ASSUME NEW s, Sound(s), NEW k \in Chunk, Has(s, k), ChunkWorkIdle(s, k)
  PROVE  Quiet(s, DropEntry(s, k), {})
<1> DEFINE s1 == IF s.chunks[k].st \in {"stored", "decoding"} THEN BroadcastDrop(s, k) ELSE s
           J == {j \in JobsOf(s) : s.jobs[j].chunk = k}
           t == DropEntry(s, k)
<1>1. s \in StateType /\ t \in StateType
  BY DropMoves DEF Sound, Moves
<1>2. s1 \in StateType /\ s1.chunks = s.chunks /\ s1.jobs = s.jobs /\ s1.reply = s.reply
  <2>1. BroadcastDrop(s, k).reply = s.reply
    BY <1>1 DEF BroadcastDrop, StateType
  <2> QED
    BY <1>1, <2>1, DropQuiet
<1> HIDE DEF s1
<1>3. /\ t.chunks = [s.chunks EXCEPT ![k] = Nothing]
      /\ t.jobs = [j \in JobId |-> IF j \in J THEN [s.jobs[j] EXCEPT !.chunk = Nothing]
                                   ELSE s.jobs[j]]
      /\ t.reply = s.reply
  <2>1. t = [EachJob(s1, J, LAMBDA job : [job EXCEPT !.chunk = Nothing])
               EXCEPT !.chunks[k] = Nothing, !.demand[k] = "none",
                      !.hashQ = @ \ {k}, !.fetchQ = @ \ {k}]
    BY DEF DropEntry, s1
  <2> HIDE DEF t, J
  <2> QED
    BY <1>2, <2>1 DEF EachJob, StateType
<1> HIDE DEF t
<1>4. ASSUME NEW n \in Chunk, Has(t, n)
      PROVE  Has(s, n) /\ Fades(s.chunks[n], t.chunks[n]) /\ Fits(s.chunks[n], t.chunks[n])
             /\ Lasts(s.chunks[n], t.chunks[n])
  <2>1. t.chunks[n] = s.chunks[n]
    BY <1>1, <1>3, <1>4, StateParts DEF Has
  <2> QED
    BY <1>4, <2>1 DEF Has, Fades, Fits, Lasts
<1>5. ASSUME NEW j \in JobId, t.jobs[j] # Nothing
      PROVE  /\ s.jobs[j] # Nothing /\ SameTask(s.jobs[j], t.jobs[j])
             /\ t.jobs[j].clean = s.jobs[j].clean
  <2>1. CASE j \in J
    <3>1. s.jobs[j] # Nothing /\ s.jobs[j] \in JobType
      BY <1>1, <2>1, StateParts DEF JobsOf
    <3> DEFINE x == [s.jobs[j] EXCEPT !.chunk = Nothing]
    <3>2. /\ x.chunk = Nothing /\ x.phase = s.jobs[j].phase /\ x.clean = s.jobs[j].clean
          /\ x.parts = s.jobs[j].parts
      BY <3>1 DEF JobType
    <3>3. t.jobs[j] = x
      BY <1>3, <2>1
    <3> HIDE DEF x
    <3> QED
      BY <3>1, <3>2, <3>3 DEF SameTask
  <2>2. CASE j \notin J
    BY <1>3, <1>5, <2>2 DEF SameTask
  <2> QED
    BY <2>1, <2>2
<1>6. Quiet(s, t, {})
  BY <1>1, <1>3, <1>4, <1>5, QuietWhen, QuietReply DEF t
<1> QED
  BY <1>6 DEF t

-----------------------------------------------------------------------------
(* Jobs are made and go to the workers: what they show is what is known.    *)

LEMMA AlikeShows ==
  ASSUME NEW s, NEW t, Alike(s, t), NEW k \in Chunk, Has(s, k), Has(t, k), NEW from, NEW clean,
         Shows(s, k, from, clean)
  PROVE  Shows(t, k, from, clean)
<1>1. ASSUME clean, NEW n \in Near[k] \ {k}, Has(t, n), Known(t.chunks[n])
      PROVE  from[n] = t.chunks[n].dig
  <2>1. n \in Chunk
    BY ChunkStateAssumption
  <2>2. Has(s, n) /\ Known(s.chunks[n]) /\ t.chunks[n].dig = s.chunks[n].dig
    BY <1>1, <2>1 DEF Alike
  <2> QED
    BY <1>1, <2>2 DEF Shows, Around
<1> QED
  BY <1>1 DEF Shows, Around, Alike

LEMMA PartsShow ==
  ASSUME NEW s, NEW k \in Chunk, Has(s, k), s.chunks[k].st \notin {"absent", "error"},
         CacheParts(s, k) # Nothing
  PROVE  Shows(s, k, CacheParts(s, k), TRUE)
<1>1. /\ DOMAIN CacheParts(s, k) = Near[k]
      /\ \A n \in Near[k] : CacheParts(s, k)[n] = KeyPart(s, n)
      /\ k \in Near[k]
  BY ChunkStateAssumption DEF CacheParts
<1> QED
  BY <1>1 DEF Shows, Around, Known, KeyPart

LEMMA RequestTrue ==
  ASSUME NEW s, Sound(s), True(s), NEW K \in SUBSET Runnable(s)
  PROVE  True(RequestMesh(s, K))
<1> DEFINE slots == {p \in [K -> JobId \ JobsOf(s)] : \A k, l \in K : p[k] = p[l] => k = l}
           slot == CHOOSE p \in slots : TRUE
           job(k) == [ chunk |-> k, kind |-> s.demand[k],
                       phase |-> IF CacheParts(s, k) = Nothing THEN "waiting" ELSE "cache",
                       worker |-> Nothing, clean |-> TRUE,
                       parts |-> CacheParts(s, k), deps |-> {} ]
           taker(j) == {k \in K : slot[k] = j}
           first(j) == CHOOSE k \in taker(j) : TRUE
           t == RequestMesh(s, K)
<1>1. s \in StateType
  BY DEF Sound
<1>2. CASE slots = {}
  BY <1>2 DEF RequestMesh
<1>3. CASE slots # {}
  <2>1. /\ t.chunks = [k \in Chunk |-> IF k \in K THEN [s.chunks[k] EXCEPT !.pend = slot[k]]
                                       ELSE s.chunks[k]]
        /\ t.jobs = [j \in JobId |-> IF taker(j) = {} THEN s.jobs[j] ELSE job(first(j))]
        /\ t.reply = s.reply
    BY <1>1, <1>3 DEF RequestMesh, StateType
  <2>2. t \in StateType
    BY RequestMoves DEF Moves, Sound
  <2> HIDE DEF t
  <2>3. slot \in slots
    BY <1>3
  <2> HIDE DEF slot
  <2>4. slot \in [K -> JobId \ JobsOf(s)] /\ \A k, l \in K : slot[k] = slot[l] => k = l
    BY <2>3
  <2>5. ASSUME NEW k \in K
        PROVE  /\ k \in Chunk /\ Has(s, k) /\ s.chunks[k] \in EntryType
               /\ s.chunks[k].st \in {"stored", "hashed"}
               /\ slot[k] \in JobId /\ s.jobs[slot[k]] = Nothing
    <3>1. k \in Chunk /\ Has(s, k) /\ s.chunks[k].st \in {"stored", "hashed"}
      BY DEF Runnable
    <3> QED
      BY <1>1, <2>4, <3>1, StateParts DEF JobsOf
  <2>6. ASSUME NEW j \in JobId, t.jobs[j] # Nothing
        PROVE  \/ s.jobs[j] # Nothing /\ t.jobs[j] = s.jobs[j]
               \/ \E k \in K : /\ t.jobs[j].chunk = k /\ t.jobs[j].clean
                               /\ t.jobs[j].parts = CacheParts(s, k)
    <3>1. CASE taker(j) = {}
      BY <2>1, <2>6, <3>1
    <3>2. CASE taker(j) # {}
      <4>1. first(j) \in taker(j)
        BY <3>2
      <4>2. t.jobs[j] = job(first(j)) /\ first(j) \in K
        BY <2>1, <3>2, <4>1
      <4> HIDE DEF first, taker
      <4>3. /\ job(first(j)).chunk = first(j) /\ job(first(j)).clean
            /\ job(first(j)).parts = CacheParts(s, first(j))
        OBVIOUS
      <4> HIDE DEF job
      <4> QED
        BY <4>2, <4>3
    <3> QED
      BY <3>1, <3>2
  <2>7. \A j \in JobId : s.jobs[j] # Nothing => t.jobs[j] = s.jobs[j]
    <3> SUFFICES ASSUME NEW j \in JobId, s.jobs[j] # Nothing PROVE taker(j) = {}
      BY <2>1
    <3> QED
      BY <2>5
  <2> HIDE DEF first, taker, job, slots
  <2>8. ASSUME NEW k \in Chunk, Has(s, k)
        PROVE  /\ Has(t, k)
               /\ t.chunks[k].pend = (IF k \in K THEN slot[k] ELSE s.chunks[k].pend)
               /\ t.chunks[k].st = s.chunks[k].st /\ t.chunks[k].dig = s.chunks[k].dig
               /\ t.chunks[k].readyDig = s.chunks[k].readyDig
               /\ t.chunks[k].shown = s.chunks[k].shown
               /\ t.chunks[k].dirty = s.chunks[k].dirty
    <3> DEFINE e == s.chunks[k]
               f == [e EXCEPT !.pend = slot[k]]
    <3>1. e \in EntryType
      BY <1>1, <2>8, StateParts
    <3>2. t.chunks[k] = IF k \in K THEN f ELSE e
      BY <2>1
    <3>3. k \in K => slot[k] \in OrNone(JobId)
      BY <2>5 DEF OrNone
    <3> HIDE DEF e
    <3>4. /\ k \in K => f \in EntryType
          /\ f.pend = slot[k] /\ f.st = e.st /\ f.dig = e.dig
          /\ f.readyDig = e.readyDig /\ f.shown = e.shown /\ f.dirty = e.dirty
      BY <3>1, <3>3 DEF EntryType
    <3> HIDE DEF f
    <3>5. Has(t, k)
      BY <3>1, <3>2, <3>4, EntryParts DEF Has
    <3> QED
      BY <3>2, <3>4, <3>5 DEF e
  <2>a. \A k \in Chunk : Has(t, k) => Has(s, k)
    BY <2>1, <2>5 DEF Has
  <2>9. Alike(s, t)
    BY <2>8, <2>a DEF Alike, Known
  <2>10. ASSUME NEW k \in Chunk, Has(t, k) PROVE Plain(t.chunks[k])
    <3>1. Has(s, k) /\ Plain(s.chunks[k])
      BY <2>10, <2>a DEF True
    <3> QED
      BY <2>5, <2>8, <3>1 DEF Plain
  <2>11. ASSUME NEW j \in JobId, Current(t, j), s.jobs[j] # Nothing
         PROVE  Current(s, j) /\ t.jobs[j] = s.jobs[j] /\ t.jobs[j].chunk \in Chunk
                /\ Has(s, t.jobs[j].chunk)
    <3> DEFINE c == t.jobs[j].chunk
    <3>1. c \in Chunk /\ Has(t, c) /\ c # Nothing /\ t.chunks[c].pend = j
      BY <2>2, <2>11, CurrentJob DEF Current, IsCurrentMeshJob
    <3>2. t.jobs[j] = s.jobs[j] /\ c = s.jobs[j].chunk
      BY <2>7, <2>11
    <3> HIDE DEF c
    <3>3. Has(s, c) /\ c \notin K
      BY <2>5, <2>8, <2>11, <2>a, <3>1
    <3>4. s.chunks[c].pend = j
      BY <2>8, <3>1, <3>3
    <3> QED
      BY <2>11, <3>1, <3>2, <3>3, <3>4 DEF Current, IsCurrentMeshJob, c
  <2>12. ASSUME NEW j \in JobId, Current(t, j), s.jobs[j] = Nothing
         PROVE  t.jobs[j].clean /\ \E k \in K : /\ t.jobs[j].chunk = k
                                                /\ t.jobs[j].parts = CacheParts(s, k)
    BY <2>6, <2>12 DEF Current
  <2>13. Tidy(t)
    <3> SUFFICES ASSUME NEW j \in JobId, Current(t, j), ~t.jobs[j].clean
                 PROVE  t.chunks[t.jobs[j].chunk].dirty
      BY DEF Tidy
    <3>1. s.jobs[j] # Nothing
      BY <2>12
    <3>2. Current(s, j) /\ t.jobs[j] = s.jobs[j] /\ t.jobs[j].chunk \in Chunk
          /\ Has(s, t.jobs[j].chunk)
      BY <2>11, <3>1
    <3>3. s.chunks[t.jobs[j].chunk].dirty
      BY <3>2 DEF True, Tidy
    <3> QED
      BY <2>8, <3>2, <3>3
  <2>14. LookedUp(t)
    <3> SUFFICES ASSUME NEW j \in JobId, Current(t, j), t.jobs[j].phase = "cache",
                        t.jobs[j].parts # Nothing
                 PROVE  Shows(t, t.jobs[j].chunk, t.jobs[j].parts, t.jobs[j].clean)
      BY DEF LookedUp
    <3>1. CASE s.jobs[j] # Nothing
      <4>1. Current(s, j) /\ t.jobs[j] = s.jobs[j] /\ t.jobs[j].chunk \in Chunk
            /\ Has(s, t.jobs[j].chunk)
        BY <2>11, <3>1
      <4>2. Shows(s, t.jobs[j].chunk, t.jobs[j].parts, t.jobs[j].clean)
        BY <4>1 DEF True, LookedUp
      <4> QED
        BY <2>8, <2>9, <4>1, <4>2, AlikeShows
    <3>2. CASE s.jobs[j] = Nothing
      <4>1. PICK k \in K : t.jobs[j].chunk = k /\ t.jobs[j].parts = CacheParts(s, k)
        BY <2>12, <3>2
      <4>2. Shows(s, k, CacheParts(s, k), TRUE) /\ Has(s, k) /\ k \in Chunk
        BY <2>5, <4>1, PartsShow
      <4>3. Shows(t, k, CacheParts(s, k), TRUE)
        BY <2>8, <2>9, <4>2, AlikeShows
      <4>4. t.jobs[j].clean
        BY <2>12, <3>2
      <4> QED
        BY <4>1, <4>3, <4>4 DEF Shows
    <3> QED
      BY <3>1, <3>2
  <2>15. Built(t)
    <3> SUFFICES ASSUME NEW w \in Worker, NEW m \in Building(t, w)
                 PROVE  /\ Current(t, m.job) =>
                             Shows(t, t.jobs[m.job].chunk, m.from, t.jobs[m.job].clean)
                        /\ Keyed(t, m)
      BY DEF Built
    <3>1. m \in Building(s, w)
      BY <2>1 DEF Building
    <3>2. m.job \in JobId /\ s.jobs[m.job] # Nothing
      <4>1. PICK i \in 1..Len(s.reply[w]) : m = s.reply[w][i] /\ EndsTask(s, w, i)
        BY <3>1 DEF Building, EndsTask
      <4>2. Runs(s, w, i)
        BY <4>1 DEF Sound, Tasks
      <4> QED
        BY <1>1, <4>1, <4>2, MessageParts DEF Runs, TaskOf, EndsTask
    <3>3. t.jobs[m.job] = s.jobs[m.job]
      BY <2>7, <3>2
    <3>4. Keyed(t, m)
      BY <3>1, <3>3 DEF True, Built, Keyed
    <3>5. ASSUME Current(t, m.job)
          PROVE  Shows(t, t.jobs[m.job].chunk, m.from, t.jobs[m.job].clean)
      <4>1. Current(s, m.job) /\ t.jobs[m.job].chunk \in Chunk /\ Has(s, t.jobs[m.job].chunk)
        BY <2>11, <3>2, <3>5
      <4>2. Shows(s, t.jobs[m.job].chunk, m.from, t.jobs[m.job].clean)
        BY <3>1, <3>3, <4>1 DEF True, Built
      <4> QED
        BY <2>8, <2>9, <4>1, <4>2, AlikeShows
    <3> QED
      BY <3>4, <3>5
  <2>16. Shown(t)
    <3> SUFFICES ASSUME NEW k \in Chunk, Has(t, k), t.chunks[k].shown # Nothing
                 PROVE  Shows(t, k, t.chunks[k].shown.from, ~t.chunks[k].dirty)
      BY DEF Shown
    <3>1. /\ Has(s, k) /\ t.chunks[k].shown = s.chunks[k].shown
          /\ t.chunks[k].dirty = s.chunks[k].dirty
      BY <2>8, <2>a
    <3>2. Shows(s, k, t.chunks[k].shown.from, ~t.chunks[k].dirty)
      BY <3>1 DEF True, Shown
    <3> QED
      BY <2>9, <3>1, <3>2, AlikeShows
  <2>17. True(t)
    BY <2>10, <2>13, <2>14, <2>15, <2>16 DEF True
  <2> QED
    BY <2>17 DEF t
<1> QED
  BY <1>2, <1>3

(* A task goes out when what it needs is there. *)
LEMMA InputsHeld ==
  ASSUME NEW s, Held(s), NEW k \in Chunk, MissingInputs(s, k) = {}, NEW n \in Near[k], Has(s, n),
         s.chunks[n].st \notin {"absent", "error"}, s.chunks[n].dig # Nothing
  PROVE  \A w \in Worker : s.column[w][n] = s.chunks[n].dig
<1>1. n \in Chunk /\ s.chunks[n].st = "stored"
  BY ChunkStateAssumption DEF MissingInputs
<1> QED
  BY <1>1 DEF Held

LEMMA DispatchTrue ==
  ASSUME NEW s, Sound(s), Swept(s), True(s), NEW p \in Plans(s)
  PROVE  True(DispatchWorkerMesh(s, p))
<1> DEFINE posted == {j \in DOMAIN p : p[j] # Nothing}
           c(j) == s.jobs[j].chunk
           P(n) == {j \in posted : n \in StoredAround(s, c(j))}
           started(j) == [s.jobs[j] EXCEPT !.phase = "worker", !.worker = p[j],
                                           !.clean = TRUE,
                                           !.parts = CacheParts(s, c(j)),
                                           !.deps = StoredAround(s, c(j))]
           task(j) == [ type |-> "mesh", job |-> j, chunk |-> c(j),
                        from |-> [n \in Near[c(j)] |-> s.column[p[j]][n]] ]
           mine(w) == {j \in posted : p[j] = w}
           first(w) == CHOOSE j \in mine(w) : TRUE
           t == DispatchWorkerMesh(s, p)
<1>1. s \in StateType /\ t \in StateType
  BY DispatchMoves DEF Sound, Moves
<1>2. /\ t.chunks = [k \in Chunk |->
                       IF P(k) = {} THEN s.chunks[k]
                       ELSE [s.chunks[k] EXCEPT
                               !.pins = s.chunks[k].pins + Cardinality(P(k))]]
      /\ t.jobs = [j \in JobId |-> IF j \in posted THEN started(j) ELSE s.jobs[j]]
      /\ t.reply = [w \in Worker |-> IF mine(w) = {} THEN s.reply[w]
                                     ELSE Append(s.reply[w], task(first(w)))]
  BY <1>1, Zenon DEF DispatchWorkerMesh, StateType
<1> HIDE DEF t
<1>3. ASSUME NEW j \in posted
      PROVE  /\ j \in JobId /\ s.jobs[j] # Nothing /\ s.jobs[j] \in JobType
             /\ s.jobs[j].phase = "waiting" /\ Current(s, j)
             /\ c(j) \in Chunk /\ Has(s, c(j)) /\ MissingInputs(s, c(j)) = {}
             /\ s.chunks[c(j)].st \notin {"absent", "error"} /\ s.chunks[c(j)].dig # Nothing
  <2>1. j \in WaitingJobs(s) /\ MissingInputs(s, c(j)) = {}
    BY DEF Plans
  <2>2. j \in JobId /\ s.jobs[j] # Nothing /\ s.jobs[j].phase = "waiting"
    BY <2>1 DEF WaitingJobs, JobsOf
  <2>3. IsCurrentMeshJob(s, j) /\ s.jobs[j] \in JobType
    BY <1>1, <2>1, <2>2, StateParts DEF Swept
  <2>4. c(j) \in Chunk /\ Has(s, c(j))
    BY <1>1, <2>2, <2>3, CurrentJob
  <2>5. s.chunks[c(j)].pend # Nothing /\ Plain(s.chunks[c(j)])
    BY <2>2, <2>3, <2>4, NothingAssumption DEF IsCurrentMeshJob, True
  <2>6. s.chunks[c(j)].st \notin {"absent", "error"} /\ s.chunks[c(j)].dig # Nothing
    BY <2>5 DEF Plain
  <2> QED
    BY <2>1, <2>2, <2>3, <2>4, <2>6 DEF Current
<1> HIDE DEF posted
<1>4. ASSUME NEW j \in posted
      PROVE  /\ started(j).phase = "worker" /\ started(j).clean /\ started(j).chunk = c(j)
             /\ started(j).parts = CacheParts(s, c(j))
  <2>1. s.jobs[j] \in JobType
    BY <1>3
  <2> QED
    BY <2>1 DEF JobType
<1> HIDE DEF started
<1>5. ASSUME NEW j \in JobId
      PROVE  /\ j \in posted => /\ t.jobs[j].phase = "worker" /\ t.jobs[j].clean
                                /\ t.jobs[j].chunk = c(j)
                                /\ t.jobs[j].parts = CacheParts(s, c(j))
                                /\ s.jobs[j] # Nothing
             /\ j \notin posted => t.jobs[j] = s.jobs[j]
  <2>1. CASE j \in posted
    <3>1. t.jobs[j] = started(j)
      BY <1>2, <2>1
    <3> QED
      BY <1>3, <1>4, <2>1, <3>1
  <2>2. CASE j \notin posted
    BY <1>2, <2>2
  <2> QED
    BY <2>1, <2>2
<1>6. ASSUME NEW k \in Chunk
      PROVE  Cardinality(P(k)) \in Nat /\ (~Has(s, k) => P(k) = {})
  <2>1. P(k) \subseteq JobId
    BY <1>3
  <2>2. ~Has(s, k) => P(k) = {}
    BY DEF StoredAround
  <2> QED
    BY <2>1, <2>2, ChunkStateAssumption, FS_Subset, FS_CardinalityType
<1> HIDE DEF P
<1>7. ASSUME NEW k \in Chunk, Has(s, k)
      PROVE  /\ Has(t, k) /\ t.chunks[k].pend = s.chunks[k].pend
             /\ t.chunks[k].st = s.chunks[k].st /\ t.chunks[k].dig = s.chunks[k].dig
             /\ t.chunks[k].readyDig = s.chunks[k].readyDig
             /\ t.chunks[k].shown = s.chunks[k].shown
             /\ t.chunks[k].dirty = s.chunks[k].dirty
  <2> DEFINE e == s.chunks[k]
             m == e.pins + Cardinality(P(k))
             f == [e EXCEPT !.pins = m]
  <2>1. e \in EntryType /\ m \in Nat
    BY <1>1, <1>6, <1>7, StateParts, EntryParts
  <2>2. t.chunks[k] \in {e, f}
    BY <1>2
  <2> HIDE DEF e, m
  <2>3. /\ f \in EntryType /\ f.pend = e.pend /\ f.st = e.st /\ f.dig = e.dig
        /\ f.readyDig = e.readyDig /\ f.shown = e.shown /\ f.dirty = e.dirty
    BY <2>1 DEF EntryType
  <2> HIDE DEF f
  <2>4. Has(t, k)
    BY <2>1, <2>2, <2>3, EntryParts DEF Has
  <2> QED
    BY <2>2, <2>3, <2>4 DEF e
<1>a. ASSUME NEW k \in Chunk, Has(t, k) PROVE Has(s, k)
  <2>1. P(k) = {} => t.chunks[k] = s.chunks[k]
    BY <1>2
  <2> QED
    BY <1>6, <1>a, <2>1 DEF Has
<1>8. Alike(s, t)
  BY <1>7, <1>a DEF Alike, Known
<1>9. ASSUME NEW k \in Chunk, Has(t, k) PROVE Plain(t.chunks[k])
  <2>1. Has(s, k) /\ Plain(s.chunks[k])
    BY <1>9, <1>a DEF True
  <2> QED
    BY <1>7, <2>1 DEF Plain
<1>10. ASSUME NEW j \in JobId, Current(t, j)
       PROVE  /\ Current(s, j) /\ t.jobs[j].chunk = c(j) /\ c(j) \in Chunk /\ Has(s, c(j))
  <2> DEFINE k == t.jobs[j].chunk
  <2>1. k \in Chunk /\ Has(t, k) /\ k # Nothing /\ t.chunks[k].pend = j
    BY <1>1, <1>10, CurrentJob DEF Current, IsCurrentMeshJob
  <2>2. s.jobs[j] # Nothing /\ c(j) = k
    BY <1>5, <1>10 DEF Current
  <2> HIDE DEF k
  <2>3. Has(s, k) /\ s.chunks[k].pend = j
    BY <1>7, <1>a, <2>1
  <2> QED
    BY <2>1, <2>2, <2>3 DEF Current, IsCurrentMeshJob, k
<1>11. Tidy(t)
  <2> SUFFICES ASSUME NEW j \in JobId, Current(t, j), ~t.jobs[j].clean
               PROVE  t.chunks[t.jobs[j].chunk].dirty
    BY DEF Tidy
  <2>1. t.jobs[j] = s.jobs[j]
    BY <1>5
  <2>2. Current(s, j) /\ t.jobs[j].chunk = c(j) /\ c(j) \in Chunk /\ Has(s, c(j))
    BY <1>10
  <2>3. s.chunks[c(j)].dirty
    BY <2>1, <2>2 DEF True, Tidy
  <2> HIDE DEF c
  <2> QED
    BY <1>7, <2>2, <2>3
<1>12. LookedUp(t)
  <2> SUFFICES ASSUME NEW j \in JobId, Current(t, j), t.jobs[j].phase = "cache",
                      t.jobs[j].parts # Nothing
               PROVE  Shows(t, t.jobs[j].chunk, t.jobs[j].parts, t.jobs[j].clean)
    BY DEF LookedUp
  <2>1. t.jobs[j] = s.jobs[j]
    BY <1>5
  <2>2. Current(s, j) /\ t.jobs[j].chunk = c(j) /\ c(j) \in Chunk /\ Has(s, c(j))
    BY <1>10
  <2>3. Shows(s, c(j), t.jobs[j].parts, t.jobs[j].clean)
    BY <2>1, <2>2 DEF True, LookedUp
  <2> HIDE DEF c
  <2> QED
    BY <1>7, <1>8, <2>2, <2>3, AlikeShows
<1>13. ASSUME NEW j \in posted, p[j] \in Worker
       PROVE  /\ task(j).job = j
              /\ Shows(t, t.jobs[j].chunk, task(j).from, t.jobs[j].clean)
              /\ Keyed(t, task(j))
  <2> DEFINE k == c(j)
             w == p[j]
             from == task(j).from
  <2>1. /\ j \in JobId /\ k \in Chunk /\ Has(s, k) /\ MissingInputs(s, k) = {}
        /\ s.chunks[k].st \notin {"absent", "error"} /\ s.chunks[k].dig # Nothing
        /\ t.jobs[j].chunk = k /\ t.jobs[j].clean /\ t.jobs[j].parts = CacheParts(s, k)
    BY <1>3, <1>5
  <2>2. /\ DOMAIN from = Near[k] /\ \A n \in Near[k] : from[n] = s.column[w][n]
        /\ task(j).job = j
    OBVIOUS
  <2> HIDE DEF k, from, task
  <2>3. ASSUME NEW n \in Near[k], Has(s, n), s.chunks[n].st \notin {"absent", "error"},
               s.chunks[n].dig # Nothing
        PROVE  from[n] = s.chunks[n].dig
    <3>1. s.column[w][n] = s.chunks[n].dig
      BY <1>13, <2>1, <2>3, InputsHeld DEF Sound
    <3> QED
      BY <2>2, <3>1
  <2>4. k \in Near[k] /\ Near[k] \subseteq Chunk
    BY <2>1, ChunkStateAssumption
  <2>5. Shows(s, k, from, TRUE)
    BY <2>1, <2>2, <2>3, <2>4 DEF Shows, Around, Known
  <2>6. Shows(t, k, from, TRUE)
    BY <1>7, <1>8, <2>1, <2>5, AlikeShows, Zenon
  <2>7. ASSUME NEW n \in Near[k], CacheParts(s, k) # Nothing
        PROVE  CacheParts(s, k)[n] # "missing" => from[n] = CacheParts(s, k)[n]
    <3>1. CacheParts(s, k)[n] = KeyPart(s, n) /\ KeyPart(s, n) # Nothing
      BY <2>7 DEF CacheParts
    <3>2. Has(s, n) /\ (KeyPart(s, n) # "missing" =>
            /\ s.chunks[n].st \notin {"absent", "error"}
            /\ KeyPart(s, n) = s.chunks[n].dig)
      BY <3>1 DEF KeyPart
    <3> QED
      BY <2>3, <3>1, <3>2
  <2>8. Keyed(t, task(j))
    BY <2>1, <2>2, <2>7 DEF Keyed, from
  <2> QED
    BY <2>1, <2>2, <2>6, <2>8 DEF from
<1>14. Built(t)
  <2> SUFFICES ASSUME NEW w \in Worker, NEW m \in Building(t, w)
               PROVE  /\ Current(t, m.job) =>
                           Shows(t, t.jobs[m.job].chunk, m.from, t.jobs[m.job].clean)
                      /\ Keyed(t, m)
    BY DEF Built
  <2>1. CASE m \in Building(s, w)
    <3>1. m.job \in JobId /\ s.jobs[m.job] # Nothing /\ s.jobs[m.job].phase = "worker"
      <4>1. PICK i \in 1..Len(s.reply[w]) : m = s.reply[w][i] /\ EndsTask(s, w, i)
        BY <2>1 DEF Building, EndsTask
      <4>2. Runs(s, w, i)
        BY <4>1 DEF Sound, Tasks
      <4> QED
        BY <1>1, <4>1, <4>2, MessageParts DEF Runs, TaskOf, EndsTask
    <3>2. t.jobs[m.job] = s.jobs[m.job]
      BY <1>3, <1>5, <3>1
    <3>3. Keyed(t, m)
      BY <2>1, <3>2 DEF True, Built, Keyed
    <3>4. ASSUME Current(t, m.job)
          PROVE  Shows(t, t.jobs[m.job].chunk, m.from, t.jobs[m.job].clean)
      <4>1. /\ Current(s, m.job) /\ t.jobs[m.job].chunk \in Chunk
            /\ Has(s, t.jobs[m.job].chunk)
        BY <1>10, <3>1, <3>4
      <4>2. Shows(s, t.jobs[m.job].chunk, m.from, t.jobs[m.job].clean)
        BY <2>1, <3>2, <4>1 DEF True, Built
      <4> QED
        BY <1>7, <1>8, <4>1, <4>2, AlikeShows
    <3> QED
      BY <3>3, <3>4
  <2>2. CASE m \notin Building(s, w)
    <3>1. mine(w) # {}
      BY <1>2, <2>2 DEF Building
    <3>2. first(w) \in posted /\ p[first(w)] = w
      BY <3>1, SMTT(30)
    <3>3. t.reply[w] = Append(s.reply[w], task(first(w)))
      BY <1>2, <3>1
    <3> HIDE DEF first, mine, task
    <3>4. PICK i \in 1..Len(t.reply[w]) : m = t.reply[w][i] /\ m.type = "mesh"
      BY DEF Building
    <3>5. /\ Len(t.reply[w]) = Len(s.reply[w]) + 1 /\ Len(s.reply[w]) \in Nat
          /\ \A h \in 1..Len(s.reply[w]) : t.reply[w][h] = s.reply[w][h]
          /\ t.reply[w][Len(s.reply[w]) + 1] = task(first(w))
      <4>1. s.reply[w] \in Seq(MessageType)
        BY <1>1, StateParts
      <4> QED
        BY <3>3, <4>1
    <3>6. i \notin 1..Len(s.reply[w])
      BY <2>2, <3>4, <3>5 DEF Building
    <3>7. m = task(first(w))
      BY <3>4, <3>5, <3>6
    <3> QED
      BY <1>13, <3>2, <3>7
  <2> QED
    BY <2>1, <2>2
<1>15. Shown(t)
  <2> SUFFICES ASSUME NEW k \in Chunk, Has(t, k), t.chunks[k].shown # Nothing
               PROVE  Shows(t, k, t.chunks[k].shown.from, ~t.chunks[k].dirty)
    BY DEF Shown
  <2>1. /\ Has(s, k) /\ t.chunks[k].shown = s.chunks[k].shown
        /\ t.chunks[k].dirty = s.chunks[k].dirty
    BY <1>7, <1>a
  <2>2. Shows(s, k, t.chunks[k].shown.from, ~t.chunks[k].dirty)
    BY <2>1 DEF True, Shown
  <2> QED
    BY <1>8, <2>1, <2>2, AlikeShows
<1>16. True(t)
  BY <1>9, <1>11, <1>12, <1>14, <1>15 DEF True
<1> QED
  BY <1>16 DEF t

LEMMA SweptTrue ==
  ASSUME NEW s, Sound(s), True(s), NEW t \in Dispatched(SweepJobs(s))
  PROVE  True(t)
<1> DEFINE a == SweepJobs(s)
<1>1. Swept(a) /\ Sound(a)
  BY SweepMoves DEF Moves
<1>2. Quiet(s, a, {})
  BY SweepQuiet
<1>3. PICK p \in Plans(a) : t = DispatchWorkerMesh(a, p)
  BY DEF Dispatched
<1> HIDE DEF a
<1>4. True(a)
  BY <1>1, <1>2, QuietTrue DEF Sound
<1> QED
  BY <1>1, <1>3, <1>4, DispatchTrue

LEMMA StartTrue ==
  ASSUME NEW s, Sound(s), True(s), NEW S, NEW t \in FlushStarting(s, S)
  PROVE  True(t)
<1>1. PICK d \in Dispatched(SweepJobs(s)) :
        t \in Dispatched(SweepJobs(RequestMesh(d, S \cap Runnable(d))))
  BY DEF FlushStarting
<1>2. Sound(d) /\ True(d)
  BY SweptDispatch, SweptTrue DEF Moves
<1> DEFINE r == RequestMesh(d, S \cap Runnable(d))
<1>3. S \cap Runnable(d) \in SUBSET Runnable(d)
  OBVIOUS
<1>4. Sound(r) /\ True(r)
  BY <1>2, <1>3, RequestMoves, RequestTrue DEF Moves
<1>5. t \in Dispatched(SweepJobs(r))
  BY <1>1
<1> HIDE DEF r
<1> QED
  BY <1>4, <1>5, SweptTrue

LEMMA FlushTrue ==
  ASSUME NEW s, Sound(s), True(s), NEW t \in Flushes(s)
  PROVE  True(t)
<1>1. CASE s.up
  <2>1. PICK S \in SUBSET Runnable(s) : t \in FlushStarting(s, S)
    BY <1>1 DEF Flushes
  <2> QED
    BY <2>1, StartTrue
<1>2. CASE ~s.up
  BY <1>2 DEF Flushes
<1> QED
  BY <1>1, <1>2

-----------------------------------------------------------------------------
(* Meshes come back, and contents are acknowledged.                         *)

LEMMA ApplyTrue ==
  ASSUME NEW s \in StateType, True(s), NEW j \in JobId, Current(s, j),
         NEW mesh \in [kind : Kind, from : From],
         Shows(s, s.jobs[j].chunk, mesh.from, s.jobs[j].clean)
  PROVE  True(ApplyMesh(s, j, mesh))
<1> DEFINE k == s.jobs[j].chunk
           dark == ~s.jobs[j].clean /\ s.chunks[k].dirty
           e == [s.chunks[k] EXCEPT !.shown = mesh, !.dirty = dark]
           t == ApplyMesh(s, j, mesh)
<1>1. t = Put(s, k, e)
  BY DEF ApplyMesh, Put
<1>2. /\ k \in Chunk /\ Has(s, k) /\ s.chunks[k] \in EntryType /\ s.chunks[k].pend = j
      /\ j # Nothing
  BY CurrentJob, StateParts, NothingAssumption DEF Current, IsCurrentMeshJob
<1>3. dark \in BOOLEAN /\ (dark <=> ~s.jobs[j].clean)
  BY DEF True, Tidy
<1>4. Shows(s, k, mesh.from, s.jobs[j].clean)
  OBVIOUS
<1> HIDE DEF dark, k, t
<1>5. /\ e \in EntryType /\ e.shown = mesh /\ e.dirty = dark /\ e.pend = s.chunks[k].pend
      /\ e.st = s.chunks[k].st /\ e.dig = s.chunks[k].dig /\ e.readyDig = s.chunks[k].readyDig
  BY <1>2, <1>3 DEF EntryType, OrNone
<1> HIDE DEF e
<1>6. /\ t \in StateType /\ t.chunks[k] = e
      /\ \A n \in Chunk : n # k => t.chunks[n] = s.chunks[n]
      /\ t.jobs = s.jobs /\ t.reply = s.reply
  BY <1>1, <1>2, <1>5, PutEntry DEF OrNone
<1>7. Has(t, k)
  BY <1>5, <1>6, EntryParts DEF Has
<1>8. \A n \in Chunk : Has(t, n) <=> Has(s, n)
  BY <1>2, <1>6, <1>7 DEF Has
<1>9. Alike(s, t)
  BY <1>5, <1>6, <1>8 DEF Alike, Known
<1>10. \A n \in Chunk : Has(t, n) => Plain(t.chunks[n])
  <2>1. Plain(s.chunks[k])
    BY <1>2 DEF True
  <2>2. Plain(e)
    BY <1>2, <1>5, <2>1 DEF Plain
  <2> QED
    BY <1>6, <1>8, <2>2 DEF True
<1>11. ASSUME NEW i \in JobId, Current(t, i)
       PROVE  /\ Current(s, i) /\ t.jobs[i] = s.jobs[i] /\ t.jobs[i].chunk \in Chunk
              /\ Has(s, t.jobs[i].chunk) /\ Has(t, t.jobs[i].chunk)
              /\ t.jobs[i].chunk = k => i = j
  <2> DEFINE c == t.jobs[i].chunk
  <2>1. c \in Chunk /\ Has(t, c) /\ c # Nothing /\ t.chunks[c].pend = i
    BY <1>6, <1>11, CurrentJob DEF Current, IsCurrentMeshJob
  <2>2. s.jobs[i] = t.jobs[i] /\ s.jobs[i] # Nothing
    BY <1>6, <1>11 DEF Current
  <2> HIDE DEF c
  <2>3. Has(s, c) /\ s.chunks[c].pend = i /\ (c = k => i = j)
    BY <1>2, <1>5, <1>6, <1>8, <2>1
  <2> QED
    BY <2>1, <2>2, <2>3 DEF Current, IsCurrentMeshJob, c
<1>12. Tidy(t)
  <2> SUFFICES ASSUME NEW i \in JobId, Current(t, i), ~t.jobs[i].clean
               PROVE  t.chunks[t.jobs[i].chunk].dirty
    BY DEF Tidy
  <2>1. CASE t.jobs[i].chunk = k
    BY <1>3, <1>5, <1>6, <1>11, <2>1
  <2>2. CASE t.jobs[i].chunk # k
    <3>1. t.chunks[t.jobs[i].chunk] = s.chunks[t.jobs[i].chunk]
      BY <1>6, <1>11, <2>2
    <3> QED
      BY <1>11, <3>1 DEF True, Tidy
  <2> QED
    BY <2>1, <2>2
<1>13. Shown(t)
  <2> SUFFICES ASSUME NEW n \in Chunk, Has(t, n), t.chunks[n].shown # Nothing
               PROVE  Shows(t, n, t.chunks[n].shown.from, ~t.chunks[n].dirty)
    BY DEF Shown
  <2>1. CASE n = k
    <3>1. Shows(s, k, mesh.from, ~t.chunks[n].dirty)
      BY <1>3, <1>4, <1>5, <1>6, <2>1 DEF Shows
    <3> QED
      BY <1>2, <1>5, <1>6, <1>7, <1>9, <2>1, <3>1, AlikeShows
  <2>2. CASE n # k
    <3>1. t.chunks[n] = s.chunks[n] /\ Has(s, n)
      BY <1>6, <1>8, <2>2
    <3>2. Shows(s, n, t.chunks[n].shown.from, ~t.chunks[n].dirty)
      BY <3>1 DEF True, Shown
    <3> QED
      BY <1>9, <3>1, <3>2, AlikeShows
  <2> QED
    BY <2>1, <2>2
<1>14. LookedUp(t)
  <2> SUFFICES ASSUME NEW i \in JobId, Current(t, i), t.jobs[i].phase = "cache",
                      t.jobs[i].parts # Nothing
               PROVE  Shows(t, t.jobs[i].chunk, t.jobs[i].parts, t.jobs[i].clean)
    BY DEF LookedUp
  <2>1. Shows(s, t.jobs[i].chunk, t.jobs[i].parts, t.jobs[i].clean)
    BY <1>11 DEF True, LookedUp
  <2> QED
    BY <1>9, <1>11, <2>1, AlikeShows
<1>15. Built(t)
  <2> SUFFICES ASSUME NEW w \in Worker, NEW m \in Building(t, w)
               PROVE  /\ Current(t, m.job) =>
                           Shows(t, t.jobs[m.job].chunk, m.from, t.jobs[m.job].clean)
                      /\ Keyed(t, m)
    BY DEF Built
  <2>1. m \in Building(s, w) /\ m.job \in JobId
    <3>1. m \in Building(s, w)
      BY <1>6 DEF Building
    <3>2. PICK i \in 1..Len(s.reply[w]) : m = s.reply[w][i] /\ s.reply[w][i].type = "mesh"
      BY <3>1 DEF Building
    <3> QED
      BY <3>1, <3>2, MessageParts
  <2>2. Keyed(t, m)
    BY <1>6, <2>1 DEF True, Built, Keyed
  <2>3. ASSUME Current(t, m.job)
        PROVE  Shows(t, t.jobs[m.job].chunk, m.from, t.jobs[m.job].clean)
    <3>1. /\ Current(s, m.job) /\ t.jobs[m.job] = s.jobs[m.job] /\ t.jobs[m.job].chunk \in Chunk
          /\ Has(s, t.jobs[m.job].chunk) /\ Has(t, t.jobs[m.job].chunk)
      BY <1>11, <2>1, <2>3
    <3>2. Shows(s, t.jobs[m.job].chunk, m.from, t.jobs[m.job].clean)
      BY <2>1, <3>1 DEF True, Built
    <3> QED
      BY <1>9, <3>1, <3>2, AlikeShows
  <2> QED
    BY <2>2, <2>3
<1>16. True(t)
  BY <1>10, <1>12, <1>13, <1>14, <1>15 DEF True
<1> QED
  BY <1>16 DEF t

(* What the cache has for a key shows what the key names. *)
LEMMA CachedShows ==
  ASSUME NEW s \in StateType, True(s), NEW j \in JobId, Current(s, j),
         s.jobs[j].phase = "cache", s.jobs[j].parts # Nothing
  PROVE  LET mesh == MeshOfParts(s.jobs[j].kind, s.jobs[j].parts)
         IN  Shows(s, s.jobs[j].chunk, mesh.from, s.jobs[j].clean)
<1> DEFINE k == s.jobs[j].chunk
           parts == s.jobs[j].parts
           from == MeshOfParts(s.jobs[j].kind, parts).from
           clean == s.jobs[j].clean
<1>1. k \in Chunk /\ Has(s, k) /\ s.chunks[k].pend # Nothing
  BY CurrentJob, NothingAssumption DEF Current, IsCurrentMeshJob
<1>2. Shows(s, k, parts, clean) /\ Plain(s.chunks[k])
  BY <1>1 DEF True, LookedUp
<1>3. from = [n \in DOMAIN parts |-> IF parts[n] = "missing" THEN Nothing ELSE parts[n]]
  BY DEF MeshOfParts
<1> HIDE DEF from, k, parts, clean
<1>4. \A n \in DOMAIN parts : parts[n] # "missing" => from[n] = parts[n]
  BY <1>3
<1>5. DOMAIN from = DOMAIN parts /\ DOMAIN parts = Near[k]
  BY <1>2, <1>3 DEF Shows
<1>6. \A n \in Chunk : Has(s, n) /\ s.chunks[n].dig # Nothing => s.chunks[n].dig # "missing"
  <2> SUFFICES ASSUME NEW n \in Chunk, Has(s, n), s.chunks[n].dig # Nothing
               PROVE  s.chunks[n].dig # "missing"
    OBVIOUS
  <2>1. s.chunks[n].dig \in Content
    BY StateParts, EntryParts DEF OrNone
  <2> QED
    BY <2>1 DEF Content
<1>7. k \in Near[k] /\ Near[k] \subseteq Chunk
  BY <1>1, ChunkStateAssumption
<1>8. from[k] = s.chunks[k].dig
  <2>1. parts[k] = s.chunks[k].dig /\ s.chunks[k].dig # Nothing
    BY <1>1, <1>2 DEF Shows, Plain
  <2> QED
    BY <1>1, <1>4, <1>5, <1>6, <1>7, <2>1
<1>9. ASSUME clean, NEW n \in Near[k] \ {k}, Has(s, n), Known(s.chunks[n])
      PROVE  from[n] = s.chunks[n].dig
  <2>1. parts[n] = s.chunks[n].dig /\ s.chunks[n].dig # Nothing
    BY <1>2, <1>9 DEF Shows, Around, Known
  <2> QED
    BY <1>4, <1>5, <1>6, <1>7, <1>9, <2>1
<1>10. Shows(s, k, from, clean)
  BY <1>5, <1>8, <1>9 DEF Shows, Around
<1> QED
  BY <1>10 DEF from, k, parts, clean

LEMMA FinishTrue ==
  ASSUME NEW s, Sound(s), True(s), NEW j \in JobId, s.jobs[j] # Nothing, Unposted(s, {j}),
         NEW t \in Flushes(FinishMeshJob(s, j))
  PROVE  True(t)
<1> DEFINE a == FinishMeshJobs(s, {j})
<1>1. a = FinishMeshJob(s, j)
  BY DEF FinishMeshJob
<1>2. Ended(s, a, {j}) /\ Quiet(s, a, {})
  BY FinishEnds, FinishQuiet DEF Sound
<1> HIDE DEF a
<1>3. Sound(a)
  BY <1>2, EndedMoves DEF Moves
<1>4. True(a)
  BY <1>2, <1>3, QuietTrue DEF Sound
<1> QED
  BY <1>1, <1>3, <1>4, FlushTrue

LEMMA CalmerTrue ==
  ASSUME NEW s, Sound(s), NEW a, Calmer(s, a, {}), True(a), NEW j \in JobId,
         s.jobs[j] # Nothing, Unposted(s, {j}), NEW t \in Flushes(FinishMeshJob(a, j))
  PROVE  True(t)
<1>1. Sound(a)
  BY CalmerSound DEF Moves
<1>2. a.jobs[j] # Nothing /\ Unposted(a, {j})
  BY DEF Calmer, SameJob, Unposted, EndsTask
<1> QED
  BY <1>1, <1>2, FinishTrue

LEMMA ResultTrue ==
  ASSUME NEW s, Sound(s), True(s), NEW j \in JobId, s.jobs[j] # Nothing, Unposted(s, {j}),
         NEW from \in From, Current(s, j) => Shows(s, s.jobs[j].chunk, from, s.jobs[j].clean),
         NEW t \in HandleMeshResult(s, j, from)
  PROVE  True(t)
<1> DEFINE job == s.jobs[j]
           mesh == [kind |-> job.kind, from |-> from]
           next == IF ~IsCurrentMeshJob(s, j) THEN s
                   ELSE IF from[job.chunk] = Nothing
                        THEN RecoverMissingWorkerInput(s, job.chunk)
                   ELSE IF /\ s.chunks[job.chunk].st = "stored"
                           /\ ShouldAcceptMeshResult(s, j)
                        THEN ApplyMesh(s, j, mesh)
                   ELSE s
<1>1. t \in Flushes(FinishMeshJob(next, j))
  BY DEF HandleMeshResult
<1>2. s \in StateType /\ job \in JobType /\ job.kind \in Kind
  BY StateParts, JobParts DEF Sound
<1>3. Calmer(s, s, {})
  BY <1>2, CalmerSelf
<1>4. ASSUME IsCurrentMeshJob(s, j)
      PROVE  /\ Calmer(s, RecoverMissingWorkerInput(s, job.chunk), {})
             /\ True(RecoverMissingWorkerInput(s, job.chunk))
             /\ Calmer(s, ApplyMesh(s, j, mesh), {}) /\ True(ApplyMesh(s, j, mesh))
  <2>1. job.chunk \in Chunk /\ Has(s, job.chunk) /\ job.chunk # Nothing
    BY <1>2, <1>4, CurrentJob, NothingAssumption
  <2>2. mesh \in [kind : Kind, from : From] /\ mesh.from = from
    BY <1>2
  <2> HIDE DEF mesh
  <2>3. Calmer(s, ApplyMesh(s, j, mesh), {}) /\ True(ApplyMesh(s, j, mesh))
    BY <1>2, <1>4, <2>1, <2>2, ApplyCalmer, ApplyTrue DEF Current
  <2> DEFINE a == RecoverMissingWorkerInput(s, job.chunk)
  <2>4. Calmer(s, a, {}) /\ Quiet(s, a, {})
    BY <1>2, <2>1, RecoverCalmer, RecoverQuiet
  <2> HIDE DEF a
  <2>5. True(a)
    BY <2>4, CalmerSound, QuietTrue DEF Moves, Sound
  <2> QED
    BY <2>3, <2>4, <2>5 DEF a
<1> HIDE DEF mesh
<1>5. Calmer(s, next, {}) /\ True(next)
  BY <1>3, <1>4
<1> HIDE DEF next
<1> QED
  BY <1>1, <1>5, CalmerTrue

LEMMA MeshErrorTrue ==
  ASSUME NEW s, Sound(s), True(s), NEW j \in JobId, s.jobs[j] # Nothing, Unposted(s, {j}),
         NEW t \in HandleMeshError(s, j)
  PROVE  True(t)
<1> DEFINE a == IF IsCurrentMeshJob(s, j)
                THEN MarkUnavailable(s, s.jobs[j].chunk, "error", FALSE, FALSE) ELSE s
<1>1. t \in Flushes(FinishMeshJob(a, j))
  BY DEF HandleMeshError
<1>2. s \in StateType
  BY DEF Sound
<1>3. Calmer(s, a, {}) /\ Quiet(s, a, {})
  <2>1. CASE IsCurrentMeshJob(s, j)
    <3>1. s.jobs[j].chunk \in Chunk /\ Has(s, s.jobs[j].chunk)
      BY <1>2, <2>1, CurrentJob
    <3> QED
      BY <1>2, <2>1, <3>1, MarkUnavailableCalmer, UnavailableQuiet
  <2>2. CASE ~IsCurrentMeshJob(s, j)
    BY <1>2, <2>2, CalmerSelf, QuietSelf
  <2> QED
    BY <2>1, <2>2
<1> HIDE DEF a
<1>4. True(a)
  BY <1>3, CalmerSound, QuietTrue DEF Moves, Sound
<1> QED
  BY <1>1, <1>3, <1>4, CalmerTrue

(* When the last worker has the content, what lies around is marked. *)
LEMMA ReadyTrue ==
  ASSUME NEW r, NEW s, Steady(s), NoNewWaits(r, s), NEW w \in Worker, NEW m, DueBut(s, w, m),
         m.type = "chunk", m.chunk \in Chunk, m.dig \in Content, m.dig \notin Malformed,
         True(s), NEW t \in HandleChunkReady(s, w, m.chunk, m.dig)
  PROVE  True(t)
<1> DEFINE k == m.chunk
           d == m.dig
           e == s.chunks[k]
           e1 == [e EXCEPT !.mask = e.mask \cup {w}]
           s1 == Put(s, k, e1)
           e2 == [e1 EXCEPT !.st = "stored", !.readyDig = d]
           s2 == Put(s, k, e2)
           s3 == IF e.readyDig = d THEN s2 ELSE MarkNeighborsDirty(s2, k)
<1>1. s \in StateType /\ Tasks(s)
  BY DEF Steady
<1>2. CASE ~Has(s, k)
  <2>1. t = BroadcastDrop(s, k)
    BY <1>2 DEF HandleChunkReady
  <2>2. Tasks(t)
    <3>1. Calmer(s, t, {})
      BY <1>1, <1>2, <2>1, DropCalmer
    <3> QED
      BY <3>1, FlowsKeep DEF Steady
  <2> QED
    BY <1>1, <2>1, <2>2, DropQuiet, QuietTrue
<1>3. CASE Has(s, k) /\ (e.st \notin {"decoding", "stored"} \/ e.dig # d)
  BY <1>3 DEF HandleChunkReady
<1>4. CASE Has(s, k) /\ e.st \in {"decoding", "stored"} /\ e.dig = d
  <2>1. e \in EntryType /\ d \in OrNone(Content) /\ d # Nothing
    BY <1>1, <1>4, StateParts, NothingAssumption DEF OrNone
  <2>2. s1.chunks[k] = e1 /\ [s1 EXCEPT !.chunks[k] = [@ EXCEPT !.st = "stored", !.readyDig = d]] = s2
    BY <1>1 DEF Put, StateType
  <2>3. IF e1.mask # Worker THEN t = s1 ELSE t \in Flushes(s3)
    BY <1>4, <2>2, Zenon DEF HandleChunkReady, Put
  <2>4. /\ e1 \in EntryType /\ e1.pins = e.pins /\ e1.pend = e.pend /\ e1.st = e.st
        /\ e1.dig = e.dig /\ e1.mask = e.mask \cup {w}
        /\ e1.shown = e.shown /\ e1.dirty = e.dirty /\ e1.readyDig = e.readyDig
    BY <2>1 DEF EntryType
  <2>5. /\ e2 \in EntryType /\ e2.pins = e.pins /\ e2.pend = e.pend /\ e2.st = "stored"
        /\ e2.dig = e.dig /\ e2.mask = e.mask \cup {w}
        /\ e2.shown = e.shown /\ e2.dirty = e.dirty /\ e2.readyDig = d
    <3> HIDE DEF e1, d
    <3> QED
      BY <2>1, <2>4 DEF EntryType
  <2> HIDE DEF e1, e2
  <2>6. Moves(r, s1) /\ Quiet(s, s1, {})
    <3> HIDE DEF s1
    <3>1. s1 = Put(s, k, e1)
      BY DEF s1
    <3>2. Moves(r, s1)
      BY <1>4, <2>4, <3>1, Acknowledged
    <3>3. Quiet(s, s1, {})
      BY <1>1, <1>4, <2>4, <3>1, WorkQuiet
    <3> QED
      BY <3>2, <3>3
  <2>7. Fades(e, e2) /\ Fits(e, e2) /\ (e.readyDig = d => Lasts(e, e2))
    BY <1>4, <2>1, <2>5 DEF Fades, Fits, Lasts, Known, Plain
  <2>8. /\ Moves(r, s2) /\ Quiet(s, s2, {k}) /\ s2.chunks[k] = e2
        /\ e.readyDig = d => Quiet(s, s2, {})
    <3> HIDE DEF s2
    <3>1. s2 = Put(s, k, e2)
      BY DEF s2
    <3>2. Moves(r, s2)
      BY <1>4, <2>5, <3>1, Acknowledged
    <3>3. Quiet(s, s2, {k}) /\ (e.readyDig = d => Quiet(s, s2, {}))
      BY <1>1, <1>4, <2>5, <2>7, <3>1, QuietPut
    <3>4. s2.chunks[k] = e2
      BY <1>1, <3>1 DEF Put, StateType
    <3> QED
      BY <3>2, <3>3, <3>4
  <2> HIDE DEF s1, s2
  <2>9. Sound(s3) /\ Quiet(s, s3, {})
    <3>1. Sound(s2) /\ s2 \in StateType
      BY <2>8 DEF Moves, Sound
    <3>2. CASE e.readyDig = d
      BY <2>8, <3>1, <3>2
    <3>3. CASE e.readyDig # d
      <4> DEFINE u == MarkNeighborsDirty(s2, k)
      <4>1. Calmer(s2, u, {}) /\ Quiet(s2, u, {k}) /\ Marked(u, k) /\ u.chunks[k] = s2.chunks[k]
        BY <3>1, NeighborsCalmer, NeighborsQuiet
      <4> HIDE DEF u
      <4>2. Sound(u)
        BY <3>1, <4>1, CalmerSound DEF Moves
      <4>3. Quiet(s, u, {k})
        BY <2>8, <4>1, QuietThen
      <4>4. Quiet(s, u, {})
        BY <2>7, <2>8, <4>1, <4>3, QuietMarked
      <4> QED
        BY <3>3, <4>2, <4>4 DEF u
    <3> QED
      BY <3>2, <3>3
  <2> HIDE DEF s3
  <2>10. True(s1) /\ True(s3)
    BY <2>6, <2>9, QuietTrue DEF Moves, Sound
  <2> QED
    BY <2>3, <2>9, <2>10, FlushTrue
<1> QED
  BY <1>2, <1>3, <1>4

LEMMA BrokenTrue ==
  ASSUME NEW r, NEW s, Steady(s), NoNewWaits(r, s), NEW w \in Worker, NEW m, DueBut(s, w, m),
         m.type = "chunk", m.chunk \in Chunk, True(s)
  PROVE  True(HandleChunkError(s, m.chunk, m.dig))
<1> DEFINE t == HandleChunkError(s, m.chunk, m.dig)
<1>1. Moves(r, t)
  BY BrokenMoves
<1>2. Quiet(s, t, {})
  BY ErrorQuiet DEF Steady
<1> HIDE DEF t
<1>3. True(t)
  BY <1>1, <1>2, QuietTrue DEF Moves, Sound
<1> QED
  BY <1>3 DEF t

LEMMA RepliesTrue ==
  ASSUME Sound(rt), True(rt), NEW w \in Worker, WorkerReplies(w)
  PROVE  True(rt')
<1> DEFINE s == Heard(rt, w)
           m == Head(rt.reply[w])
<1> USE DEF Arrives, Heeds
<1>1. Arrives(s, w, m) /\ s.chunks = rt.chunks /\ s.jobs = rt.jobs
  BY HeardParts DEF WorkerReplies
<1>2. Heeds(s, w, m)
  BY DEF WorkerReplies, Heard
<1>3. Quiet(rt, s, {}) /\ (m.type = "mesh" => m \in Building(rt, w))
  BY HeardQuiet DEF WorkerReplies
<1> HIDE DEF s, m
<1>4. True(s)
  BY <1>1, <1>3, QuietTrue DEF Steady
<1>5. CASE m.type = "chunk"
  BY <1>1, <1>2, <1>4, <1>5, ReadyTrue, BrokenTrue
<1>6. CASE m.type = "mesh"
  <2>1. Sound(s)
    BY <1>1, <1>6, Unheard, SMTT(30) DEF Moves
  <2>2. Current(s, m.job) => Shows(s, s.jobs[m.job].chunk, m.from, s.jobs[m.job].clean)
    <3>1. Current(rt, m.job) => Shows(rt, rt.jobs[m.job].chunk, m.from, rt.jobs[m.job].clean)
      BY <1>3, <1>6 DEF True, Built
    <3> QED
      BY <1>1, <3>1 DEF Current, IsCurrentMeshJob, Has, Shows, Around
  <2> QED
    BY <1>1, <1>2, <1>4, <1>6, <2>1, <2>2, ResultTrue, MeshErrorTrue
<1> QED
  BY <1>1, <1>5, <1>6

LEMMA LookupTrue ==
  ASSUME Sound(rt), True(rt), NEW j \in JobId, CacheLookupEnds(j)
  PROVE  True(rt')
<1> DEFINE job == rt.jobs[j]
           mesh == MeshOfParts(job.kind, job.parts)
           hit == ApplyMesh(rt, j, mesh)
           missed == [rt EXCEPT !.jobs[j] = [@ EXCEPT !.phase = "waiting"]]
<1> USE DEF Looks
<1>1. job # Nothing /\ job.phase = "cache" /\ Looks(j, hit, missed)
  BY DEF CacheLookupEnds
<1>2. rt \in StateType /\ job \in JobType /\ job.kind \in Kind /\ job.parts \in OrNone(AllParts)
  BY <1>1, StateParts, JobParts DEF Sound
<1>3. Unposted(rt, {j})
  BY <1>1, NotWithWorker DEF Sound
<1>4. Sound(missed)
  BY <1>1, MissMoves DEF Moves
<1>5. Quiet(rt, missed, {})
  <2> DEFINE x == [rt.jobs[j] EXCEPT !.phase = "waiting"]
  <2>1. missed.jobs = [rt.jobs EXCEPT ![j] = x] /\ missed.chunks = rt.chunks
        /\ missed.reply = rt.reply
    BY <1>2 DEF StateType
  <2>2. SameTask(rt.jobs[j], x) /\ x.clean = rt.jobs[j].clean
    BY <1>2 DEF JobType, SameTask
  <2> HIDE DEF missed, x
  <2>3. \A i \in JobId : missed.jobs[i] # Nothing =>
          /\ rt.jobs[i] # Nothing /\ SameTask(rt.jobs[i], missed.jobs[i])
          /\ missed.jobs[i].clean = rt.jobs[i].clean
    <3> SUFFICES ASSUME NEW i \in JobId, missed.jobs[i] # Nothing
                 PROVE  /\ rt.jobs[i] # Nothing /\ SameTask(rt.jobs[i], missed.jobs[i])
                        /\ missed.jobs[i].clean = rt.jobs[i].clean
      OBVIOUS
    <3>1. rt.jobs \in [JobId -> OrNone(JobType)]
      BY <1>2, StateParts
    <3>2. missed.jobs[j] = x /\ (i # j => missed.jobs[i] = rt.jobs[i])
      BY <2>1, <3>1
    <3>3. SameTask(rt.jobs[i], rt.jobs[i])
      BY DEF SameTask
    <3> QED
      BY <1>1, <2>2, <3>2, <3>3
  <2>4. \A k \in Chunk : Has(missed, k) =>
          /\ Has(rt, k) /\ Fades(rt.chunks[k], missed.chunks[k])
          /\ Fits(rt.chunks[k], missed.chunks[k]) /\ Lasts(rt.chunks[k], missed.chunks[k])
    BY <2>1 DEF Has, Fades, Fits, Lasts
  <2>5. missed \in StateType
    BY <1>4 DEF Sound
  <2> QED
    BY <2>1, <2>3, <2>4, <2>5, QuietWhen, QuietReply
<1>6. ASSUME IsCurrentMeshJob(rt, j), job.parts # Nothing
      PROVE  Calmer(rt, hit, {}) /\ True(hit)
  <2>1. job.chunk \in Chunk /\ Has(rt, job.chunk) /\ job.chunk # Nothing
    BY <1>1, <1>2, <1>6, CurrentJob, NothingAssumption
  <2>2. mesh \in [kind : Kind, from : From]
    BY <1>2, <1>6, CachedType DEF OrNone
  <2>3. Shows(rt, job.chunk, mesh.from, job.clean)
    BY <1>1, <1>2, <1>6, CachedShows DEF Current
  <2> HIDE DEF mesh
  <2> QED
    BY <1>1, <1>2, <1>6, <2>1, <2>2, <2>3, ApplyCalmer, ApplyTrue DEF Current
<1> HIDE DEF missed, hit
<1>7. CASE rt' \in Flushes(missed)
  <2>1. True(missed)
    BY <1>4, <1>5, QuietTrue DEF Sound
  <2> QED
    BY <1>4, <1>7, <2>1, FlushTrue
<1>8. CASE rt' \in Flushes(FinishMeshJob(rt, j))
  BY <1>1, <1>3, <1>8, FinishTrue
<1>9. CASE IsCurrentMeshJob(rt, j) /\ job.parts # Nothing /\ rt' \in Flushes(FinishMeshJob(hit, j))
  BY <1>1, <1>3, <1>6, <1>9, CalmerTrue
<1>10. CASE rt' \in HandleMeshError(rt, j)
  BY <1>1, <1>3, <1>10, MeshErrorTrue
<1> QED
  BY <1>1, <1>7, <1>8, <1>9, <1>10

-----------------------------------------------------------------------------
(* The planner's tick.                                                      *)

LEMMA KeepsThen ==
  ASSUME NEW s, NEW t, NEW u, Keeps(s, t), Keeps(t, u)
  PROVE  Keeps(s, u)
BY MovesThen DEF Keeps

LEMMA CalmKeeps ==
  ASSUME NEW s, NEW t, Sound(s), Calmer(s, t, {}), Quiet(s, t, {})
  PROVE  Keeps(s, t) /\ Sound(t)
<1>1. Moves(s, t) /\ Sound(t)
  BY CalmerSound DEF Moves
<1> QED
  BY <1>1, QuietTrue DEF Keeps, Sound

LEMMA FlushKeeps ==
  ASSUME NEW r, NEW s, Keeps(r, s), NEW t \in Flushes(s)
  PROVE  Keeps(r, t)
<1>1. Sound(s)
  BY DEF Keeps, Moves
<1>2. Keeps(s, t)
  BY <1>1, FlushMoves, FlushTrue DEF Keeps
<1> QED
  BY <1>2, KeepsThen

(* A chunk nobody had heard of gets an entry. *)
LEMMA NewKeeps ==
  ASSUME NEW s, Sound(s), NEW k \in Chunk, ~Has(s, k), NEW t, t = Put(s, k, NewEntry)
  PROVE  Keeps(s, t)
<1>1. s \in StateType
  BY DEF Sound
<1>2. /\ NewEntry \in EntryType /\ NewEntry.st = "checking" /\ NewEntry.pins = 0
      /\ NewEntry.pend = Nothing
  BY DEF NewEntry, EntryType, OrNone
<1>3. NewEntry # Nothing /\ NewEntry \in OrNone(EntryType)
  BY <1>2, EntryParts DEF OrNone
<1>4. /\ t \in StateType /\ t.chunks[k] = NewEntry
      /\ \A n \in Chunk : n # k => t.chunks[n] = s.chunks[n]
      /\ t.jobs = s.jobs /\ t.column = s.column /\ t.reply = s.reply
  <2> DEFINE e == NewEntry
  <2>1. e \in OrNone(EntryType) /\ t = Put(s, k, e)
    BY <1>3
  <2> HIDE DEF e
  <2>2. /\ t \in StateType /\ t.chunks[k] = e
        /\ \A n \in Chunk : n # k => t.chunks[n] = s.chunks[n]
        /\ t.jobs = s.jobs /\ t.column = s.column /\ t.reply = s.reply
    BY <1>1, <2>1, PutEntry
  <2> QED
    BY <2>2 DEF e
<1>5. Pinned(t)
  <2>1. \A n \in Chunk : Users(t, n) = Users(s, n)
    BY <1>4 DEF Users
  <2>2. Users(s, k) = {} /\ Cardinality({}) = 0
    BY FS_EmptySet DEF Sound, Pinned
  <2>3. t.chunks[k].pins = Cardinality(Users(t, k))
    BY <1>2, <1>4, <2>1, <2>2
  <2>4. ASSUME NEW n \in Chunk, n # k
        PROVE  IF Has(t, n) THEN t.chunks[n].pins = Cardinality(Users(t, n))
               ELSE Users(t, n) = {}
    <3>1. t.chunks[n] = s.chunks[n] /\ Users(t, n) = Users(s, n)
      BY <1>4, <2>1, <2>4
    <3> QED
      BY <3>1 DEF Sound, Pinned, Has
  <2>5. Has(t, k)
    BY <1>3, <1>4 DEF Has
  <2> QED
    BY <2>3, <2>4, <2>5 DEF Pinned
<1>6. ASSUME NEW n \in Chunk, Has(t, n), t.chunks[n].st # "checking" \/ t.chunks[n].pend # Nothing
      PROVE  n # k /\ Has(s, n) /\ t.chunks[n] = s.chunks[n]
  <2> n # k
    BY <1>2, <1>4, <1>6
  <2>1. t.chunks[n] = s.chunks[n]
    BY <1>4
  <2> QED
    BY <1>6, <2>1 DEF Has
<1>7. Held(t)
  <2> SUFFICES ASSUME NEW n \in Chunk, Has(t, n), t.chunks[n].st \in {"decoding", "stored"}
               PROVE  /\ t.chunks[n].st = "stored" => t.chunks[n].dig \notin Malformed
                      /\ t.chunks[n].dig \notin Malformed =>
                           \A w \in Worker : t.column[w][n] = t.chunks[n].dig
    BY DEF Held
  <2>1. Has(s, n) /\ t.chunks[n] = s.chunks[n]
    BY <1>6
  <2> QED
    BY <1>4, <2>1 DEF Sound, Held
<1>8. Due(t)
  <2> SUFFICES ASSUME NEW n \in Chunk, Has(t, n), t.chunks[n].st = "decoding",
                      NEW w \in Worker \ t.chunks[n].mask
               PROVE  \E i \in 1..Len(t.reply[w]) : Answers(t, w, i, n, t.chunks[n].dig)
    BY DEF Due
  <2>1. Has(s, n) /\ t.chunks[n] = s.chunks[n]
    BY <1>6
  <2>2. \E i \in 1..Len(s.reply[w]) : Answers(s, w, i, n, s.chunks[n].dig)
    BY <2>1 DEF Sound, Due
  <2> QED
    BY <1>4, <2>1, <2>2 DEF Answers
<1>9. Pending(t)
  BY <1>4, <1>6, SMTT(30) DEF Sound, Pending
<1>10. Tasks(t)
  BY <1>4 DEF Sound, Tasks, EndsTask, Runs, Alone, TaskOf
<1>11. NoNewWaits(s, t)
  <2> SUFFICES ASSUME NEW n \in Chunk, Waits(t, n)
               PROVE  /\ Waits(s, n) /\ t.chunks[n].st = s.chunks[n].st
                      /\ t.chunks[n].req = s.chunks[n].req
                      /\ t.chunks[n].res = Nothing => s.chunks[n].res = Nothing
    BY DEF NoNewWaits
  <2>1. Has(s, n) /\ t.chunks[n] = s.chunks[n]
    BY <1>6 DEF Waits
  <2> QED
    BY <2>1 DEF Waits
<1>12. Moves(s, t)
  BY <1>4, <1>5, <1>7, <1>8, <1>9, <1>10, <1>11 DEF Moves, Sound
<1>13. ASSUME True(s) PROVE True(t)
  <2>1. Plain(NewEntry) /\ ~Known(NewEntry) /\ NewEntry.shown = Nothing
    BY DEF NewEntry, Plain, Known
  <2> HIDE DEF NewEntry
  <2>2. \A n \in Chunk : n # k => (Has(t, n) <=> Has(s, n)) /\ t.chunks[n] = s.chunks[n]
    BY <1>4 DEF Has
  <2>3. Alike(s, t)
    BY <1>4, <2>1, <2>2 DEF Alike
  <2>4. \A n \in Chunk : Has(t, n) => Plain(t.chunks[n])
    BY <1>4, <1>13, <2>1, <2>2 DEF True
  <2>5. ASSUME NEW j \in JobId, Current(t, j)
        PROVE  /\ Current(s, j) /\ t.jobs[j] = s.jobs[j] /\ s.jobs[j].chunk \in Chunk
               /\ Has(s, s.jobs[j].chunk) /\ Has(t, s.jobs[j].chunk)
               /\ t.chunks[s.jobs[j].chunk] = s.chunks[s.jobs[j].chunk]
    <3> DEFINE c == t.jobs[j].chunk
    <3>1. c \in Chunk /\ Has(t, c) /\ c # Nothing /\ t.chunks[c].pend = j /\ j # Nothing
      BY <1>4, <2>5, CurrentJob, NothingAssumption DEF Current, IsCurrentMeshJob
    <3>2. t.jobs[j] = s.jobs[j] /\ s.jobs[j] # Nothing /\ c = s.jobs[j].chunk
      BY <1>4, <2>5 DEF Current
    <3> HIDE DEF c
    <3>3. c # k
      BY <1>2, <1>4, <3>1
    <3>4. Has(s, c) /\ t.chunks[c] = s.chunks[c]
      BY <2>2, <3>1, <3>3
    <3> QED
      BY <3>1, <3>2, <3>4 DEF Current, IsCurrentMeshJob, c
  <2>6. Tidy(t)
    BY <1>13, <2>5 DEF True, Tidy
  <2>7. Shown(t)
    <3> SUFFICES ASSUME NEW n \in Chunk, Has(t, n), t.chunks[n].shown # Nothing
                 PROVE  Shows(t, n, t.chunks[n].shown.from, ~t.chunks[n].dirty)
      BY DEF Shown
    <3>1. Has(s, n) /\ t.chunks[n] = s.chunks[n]
      BY <1>4, <2>1, <2>2
    <3>2. Shows(s, n, t.chunks[n].shown.from, ~t.chunks[n].dirty)
      BY <1>13, <3>1 DEF True, Shown
    <3> QED
      BY <2>3, <3>1, <3>2, AlikeShows
  <2>8. LookedUp(t)
    <3> SUFFICES ASSUME NEW j \in JobId, Current(t, j), t.jobs[j].phase = "cache",
                        t.jobs[j].parts # Nothing
                 PROVE  Shows(t, t.jobs[j].chunk, t.jobs[j].parts, t.jobs[j].clean)
      BY DEF LookedUp
    <3>1. Shows(s, t.jobs[j].chunk, t.jobs[j].parts, t.jobs[j].clean)
      BY <1>13, <2>5 DEF True, LookedUp
    <3> QED
      BY <2>3, <2>5, <3>1, AlikeShows
  <2>9. Built(t)
    <3> SUFFICES ASSUME NEW w \in Worker, NEW m \in Building(t, w)
                 PROVE  /\ Current(t, m.job) =>
                             Shows(t, t.jobs[m.job].chunk, m.from, t.jobs[m.job].clean)
                        /\ Keyed(t, m)
      BY DEF Built
    <3>1. m \in Building(s, w) /\ m.job \in JobId
      <4>1. m \in Building(s, w)
        BY <1>4 DEF Building
      <4>2. PICK i \in 1..Len(s.reply[w]) : m = s.reply[w][i] /\ s.reply[w][i].type = "mesh"
        BY <4>1 DEF Building
      <4> QED
        BY <1>1, <4>1, <4>2, MessageParts
    <3>2. Keyed(t, m)
      BY <1>4, <1>13, <3>1 DEF True, Built, Keyed
    <3>3. ASSUME Current(t, m.job)
          PROVE  Shows(t, t.jobs[m.job].chunk, m.from, t.jobs[m.job].clean)
      <4>1. Shows(s, t.jobs[m.job].chunk, m.from, t.jobs[m.job].clean)
        BY <1>13, <2>5, <3>1, <3>3 DEF True, Built
      <4> QED
        BY <2>3, <2>5, <3>1, <3>3, <4>1, AlikeShows
    <3> QED
      BY <3>2, <3>3
  <2> QED
    BY <2>4, <2>6, <2>7, <2>8, <2>9 DEF True
<1> QED
  BY <1>12, <1>13 DEF Keeps

(* A chunk that is wanted has an entry, and is queued if need be. *)
LEMMA WantPlans ==
  ASSUME Sound(rt), NEW k \in Chunk, NEW kind \in Kind, WantChunk(k, kind)
  PROVE  \E s : /\ Keeps(rt, s) /\ rt' \in Flushes(s)
                /\ s.jobs = rt.jobs /\ s.reply = rt.reply /\ Has(s, k)
                /\ s.chunks[k] = IF Has(rt, k) THEN rt.chunks[k] ELSE NewEntry
                /\ \A n \in Chunk : n # k =>
                     s.chunks[n] = rt.chunks[n] /\ s.demand[n] = rt.demand[n]
                /\ rt.hashQ \subseteq s.hashQ
                /\ s.chunks[k].st = "checking" => k \in s.hashQ
<1> DEFINE e == IF Has(rt, k) THEN rt.chunks[k] ELSE NewEntry
           a == Put(rt, k, e)
           s1 == [rt EXCEPT !.demand[k] = kind,
                            !.chunks[k] = IF @ = Nothing THEN NewEntry ELSE @]
           s2 == IF s1.chunks[k].st = "checking" THEN EnqueueHash(s1, k) ELSE s1
<1>1. rt \in StateType
  BY DEF Sound
<1>2. Keeps(rt, a) /\ Sound(a) /\ a \in StateType /\ e \in EntryType
  <2>1. CASE Has(rt, k)
    <3>1. a = rt
      BY <1>1, <2>1 DEF Put, StateType
    <3> QED
      BY <1>1, <2>1, <3>1, StateParts, CalmerSelf, QuietSelf, CalmKeeps
  <2>2. CASE ~Has(rt, k)
    <3>1. a = Put(rt, k, NewEntry)
      BY <2>2
    <3>2. NewEntry \in EntryType
      BY DEF NewEntry, EntryType, OrNone
    <3> HIDE DEF a
    <3> QED
      BY <2>2, <3>1, <3>2, NewKeeps DEF Keeps, Moves, Sound
  <2> QED
    BY <2>1, <2>2
<1>3. s1 = [a EXCEPT !.demand = [rt.demand EXCEPT ![k] = kind]]
  BY <1>1 DEF Put, StateType, Has
<1> HIDE DEF e
<1>4. /\ a.chunks[k] = e /\ \A n \in Chunk : n # k => a.chunks[n] = rt.chunks[n]
      /\ a.jobs = rt.jobs /\ a.reply = rt.reply /\ a.demand = rt.demand /\ a.hashQ = rt.hashQ
  BY <1>1, <1>2, PutEntry DEF OrNone
<1>5. /\ [rt.demand EXCEPT ![k] = kind] \in [Chunk -> Kind \cup {"none", "stale"}]
      /\ rt.demand \in [Chunk -> Kind \cup {"none", "stale"}]
  <2>1. rt.demand \in [Chunk -> Kind \cup {"none", "stale"}]
    BY <1>1, StateParts
  <2>2. kind \in Kind \cup {"none", "stale"}
    OBVIOUS
  <2> QED
    BY <2>1, <2>2
<1>6. rt' \in Flushes(s2)
  BY DEF WantChunk
<1> DEFINE D == [rt.demand EXCEPT ![k] = kind]
<1>7. D[k] = kind /\ \A n \in Chunk : n # k => D[n] = rt.demand[n]
  BY <1>5
<1> HIDE DEF D
<1>8. s1 = [a EXCEPT !.demand = D] /\ D \in [Chunk -> Kind \cup {"none", "stale"}]
  BY <1>3, <1>5 DEF D
<1> HIDE DEF a, s1
<1>9. /\ s1 \in StateType /\ s1.chunks = a.chunks /\ s1.jobs = a.jobs /\ s1.demand = D
      /\ s1.column = a.column /\ s1.reply = a.reply /\ s1.hashQ = a.hashQ
  BY <1>2, <1>8 DEF StateType
<1>10. Calmer(a, s1, {}) /\ Quiet(a, s1, {})
  BY <1>2, <1>9, QueuesCalmer, QuietQueues, QuietReply
<1>11. Calmer(s1, s2, {}) /\ Quiet(s1, s2, {})
  BY <1>9, CalmerSelf, QuietSelf, EnqueueCalmer, EnqueueQuiet
<1>12. /\ s2.chunks = s1.chunks /\ s2.jobs = s1.jobs /\ s2.reply = s1.reply
       /\ s2.demand = D /\ s1.hashQ \subseteq s2.hashQ
       /\ s2.chunks[k].st = "checking" => k \in s2.hashQ
  <2>1. D[k] # "none"
    BY <1>7, PoolAssumption
  <2>2. CASE s1.chunks[k].st = "checking"
    <3>1. s2 = [s1 EXCEPT !.hashQ = s1.hashQ \cup {k}]
      BY <1>9, <2>1, <2>2 DEF EnqueueHash
    <3> HIDE DEF s2
    <3> QED
      BY <1>9, <3>1 DEF StateType
  <2>3. CASE s1.chunks[k].st # "checking"
    BY <1>9, <2>3
  <2> QED
    BY <2>2, <2>3
<1> HIDE DEF s2
<1>13. Keeps(rt, s2)
  BY <1>2, <1>10, <1>11, CalmKeeps, KeepsThen
<1>14. Has(s2, k) /\ s2.chunks[k] = e
  BY <1>2, <1>4, <1>9, <1>12, EntryParts DEF Has
<1> QED
  BY <1>4, <1>6, <1>7, <1>9, <1>12, <1>13, <1>14 DEF e

LEMMA WantKeeps ==
  ASSUME Sound(rt), NEW k \in Chunk, NEW kind \in Kind, WantChunk(k, kind)
  PROVE  Keeps(rt, rt')
BY WantPlans, FlushKeeps

LEMMA AgesKeeps ==
  ASSUME Sound(rt), NEW k \in Chunk, DemandAges(k)
  PROVE  Keeps(rt, rt')
<1> DEFINE D == [rt.demand EXCEPT ![k] = "stale"]
<1>1. rt \in StateType
  BY DEF Sound
<1>2. D \in [Chunk -> Kind \cup {"none", "stale"}]
  <2>1. rt.demand \in [Chunk -> Kind \cup {"none", "stale"}]
    BY <1>1, StateParts
  <2>2. "stale" \in Kind \cup {"none", "stale"}
    OBVIOUS
  <2> QED
    BY <2>1, <2>2
<1>3. \E h \in SUBSET Chunk, f \in SUBSET Chunk :
        rt' = [rt EXCEPT !.demand = D, !.hashQ = h, !.fetchQ = f]
  <2>1. /\ rt.hashQ \in SUBSET Chunk /\ rt.fetchQ \in SUBSET Chunk
        /\ rt.hashQ \ {k} \in SUBSET Chunk /\ rt.fetchQ \ {k} \in SUBSET Chunk
    BY <1>1, StateParts
  <2>2. \/ rt' = [rt EXCEPT !.demand = D, !.hashQ = rt.hashQ, !.fetchQ = rt.fetchQ]
        \/ rt' = [rt EXCEPT !.demand = D, !.hashQ = rt.hashQ \ {k}, !.fetchQ = rt.fetchQ \ {k}]
    BY <1>1 DEF DemandAges, StateType
  <2> HIDE DEF D
  <2> QED
    BY <2>1, <2>2, Zenon
<1> HIDE DEF D
<1>4. /\ rt' \in StateType /\ rt'.chunks = rt.chunks /\ rt'.jobs = rt.jobs
      /\ rt'.column = rt.column /\ rt'.reply = rt.reply
  <2> PICK h \in SUBSET Chunk, f \in SUBSET Chunk :
             rt' = [rt EXCEPT !.demand = D, !.hashQ = h, !.fetchQ = f]
    BY <1>3
  <2> DEFINE u == rt'
  <2>1. u = [rt EXCEPT !.demand = D, !.hashQ = h, !.fetchQ = f]
    OBVIOUS
  <2> HIDE DEF u
  <2>2. /\ u \in StateType /\ u.chunks = rt.chunks /\ u.jobs = rt.jobs
        /\ u.column = rt.column /\ u.reply = rt.reply
    BY <1>1, <1>2, <2>1 DEF StateType
  <2> QED
    BY <2>2 DEF u
<1> QED
  BY <1>1, <1>4, QueuesCalmer, QuietQueues, QuietReply, CalmKeeps

LEMMA EvictKeeps ==
  ASSUME Sound(rt), NEW k \in Chunk, EvictChunk(k)
  PROVE  Keeps(rt, rt')
<1>1. /\ Has(rt, k) /\ ChunkWorkIdle(rt, k) /\ rt' \in Flushes(DropEntry(rt, k))
  BY DEF EvictChunk
<1> DEFINE t == DropEntry(rt, k)
<1>2. Moves(rt, t) /\ Quiet(rt, t, {})
  BY <1>1, DropMoves, DropEntryQuiet
<1> HIDE DEF t
<1>3. Keeps(rt, t)
  BY <1>2, QuietTrue DEF Keeps, Moves, Sound
<1> QED
  BY <1>1, <1>3, FlushKeeps DEF t

LEMMA ReleaseDataKeeps ==
  ASSUME Sound(rt), NEW k \in Chunk, ReleaseWorkerData(k)
  PROVE  Keeps(rt, rt')
<1> DEFINE s1 == BroadcastDrop(rt, k)
           t == [s1 EXCEPT !.chunks[k] = [@ EXCEPT !.st = "hashed", !.mask = {}]]
<1>1. /\ rt \in StateType /\ Has(rt, k) /\ rt.chunks[k].st = "stored"
      /\ rt' \in Flushes(t)
  BY DEF Sound, ReleaseWorkerData
<1>2. Calmer(rt, s1, {k}) /\ Quiet(rt, s1, {}) /\ s1.chunks = rt.chunks
  BY <1>1, DropCalmer, DropQuiet
<1>3. s1 \in StateType /\ Has(s1, k)
  BY <1>1, <1>2 DEF Calmer, Has
<1> HIDE DEF s1
<1>4. t = Put(s1, k, [s1.chunks[k] EXCEPT !.st = "hashed", !.mask = {}])
  BY DEF Put
<1>5. t.chunks[k].st = "hashed"
  <2>1. s1.chunks \in [Chunk -> OrNone(EntryType)] /\ s1.chunks[k] \in EntryType
    BY <1>3, StateParts
  <2>2. t.chunks = [s1.chunks EXCEPT ![k] = [s1.chunks[k] EXCEPT !.st = "hashed", !.mask = {}]]
    BY <1>3 DEF StateType
  <2>3. t.chunks[k] = [s1.chunks[k] EXCEPT !.st = "hashed", !.mask = {}]
    BY <2>1, <2>2
  <2> QED
    BY <2>1, <2>3 DEF EntryType
<1> HIDE DEF t
<1>6. Calmer(s1, t, {}) /\ Quiet(s1, t, {})
  BY <1>1, <1>2, <1>3, <1>4, HashedCalmer, HashedQuiet, Zenon
<1>7. Calmer(rt, t, {k})
  BY <1>2, <1>6, CalmerAll, CalmerThen
<1>8. Calmer(rt, t, {}) /\ Quiet(rt, t, {})
  BY <1>2, <1>5, <1>6, <1>7, Settled, QuietThen
<1> QED
  BY <1>1, <1>8, CalmKeeps, FlushKeeps

LEMMA ReleaseMeshKeeps ==
  ASSUME Sound(rt), NEW k \in Chunk, ReleaseMesh(k)
  PROVE  Keeps(rt, rt')
<1>1. Has(rt, k) /\ rt' \in Flushes(RemoveDisplayedMesh(rt, k))
  BY DEF ReleaseMesh
<1> DEFINE t == RemoveDisplayedMesh(rt, k)
<1>2. Calmer(rt, t, {}) /\ Quiet(rt, t, {})
  BY <1>1, RemoveCalmer, RemoveQuiet DEF Sound
<1> HIDE DEF t
<1> QED
  BY <1>1, <1>2, CalmKeeps, FlushKeeps DEF t

LEMMA RestartKeeps ==
  ASSUME Sound(rt), WorkersRestart
  PROVE  Keeps(rt, rt')
<1> DEFINE t == [rt EXCEPT !.up = TRUE]
<1>1. rt \in StateType /\ rt' \in Flushes(t)
  BY DEF Sound, WorkersRestart
<1>2. /\ t \in StateType /\ t.chunks = rt.chunks /\ t.jobs = rt.jobs
      /\ t.column = rt.column /\ t.reply = rt.reply
  BY <1>1 DEF StateType
<1> HIDE DEF t
<1>3. Calmer(rt, t, {}) /\ Quiet(rt, t, {})
  BY <1>1, <1>2, QueuesCalmer, QuietQueues, QuietReply
<1> QED
  BY <1>1, <1>3, CalmKeeps, FlushKeeps

LEMMA CallbacksKeep ==
  ASSUME Sound(rt), Calls
  PROVE  Callback
<1>1. ASSUME NEW k \in Chunk, NEW kind \in Kind, WantChunk(k, kind)
      PROVE  Callback
  BY <1>1, WantKeeps, Zenon DEF WantChunk, Callback
<1>2. ASSUME NEW k \in Chunk, DemandAges(k)
      PROVE  Callback
  BY <1>2, AgesKeeps, Zenon DEF DemandAges, Callback
<1>3. ASSUME NEW k \in Chunk, EvictChunk(k)
      PROVE  Callback
  BY <1>3, EvictKeeps DEF EvictChunk, Callback
<1>4. ASSUME NEW k \in Chunk, ReleaseWorkerData(k)
      PROVE  Callback
  BY <1>4, ReleaseDataKeeps, Zenon DEF ReleaseWorkerData, Callback
<1>5. ASSUME NEW k \in Chunk, ReleaseMesh(k)
      PROVE  Callback
  BY <1>5, ReleaseMeshKeeps DEF ReleaseMesh, Callback
<1>6. ASSUME NEW k \in Chunk, StartMesh(k)
      PROVE  Callback
  BY <1>6, StartMoves, StartTrue DEF StartMesh, Callback, Keeps
<1>7. ASSUME Flush
      PROVE  Callback
  BY <1>7, StartMoves, StartTrue DEF Flush, Callback, Keeps
<1>8. ASSUME NEW j \in JobId, CacheLookupEnds(j)
      PROVE  Callback
  BY <1>8, LookupMoves, LookupTrue, Zenon DEF CacheLookupEnds, Callback, Keeps
<1>9. ASSUME NEW w \in Worker, WorkerReplies(w)
      PROVE  Callback
  BY <1>9, RepliesMove, RepliesTrue, Zenon DEF WorkerReplies, Callback, Keeps
<1>10. ASSUME WorkersFail
       PROVE  Callback
  <2> DEFINE t == RecoverWorkers(rt)
  <2>1. Moves(rt, t) /\ Quiet(rt, t, {})
    BY RecoverMoves, RecoverWorkersQuiet
  <2> HIDE DEF t
  <2>2. Keeps(rt, t)
    BY <2>1, QuietTrue DEF Keeps, Moves, Sound
  <2> QED
    BY <1>10, <2>2 DEF WorkersFail, Callback, t
<1>11. ASSUME WorkersRestart
       PROVE  Callback
  BY <1>11, RestartKeeps DEF WorkersRestart, Callback
<1> QED
  BY <1>1, <1>2, <1>3, <1>4, <1>5, <1>6, <1>7, <1>8, <1>9, <1>10, <1>11 DEF Calls

-----------------------------------------------------------------------------
(* Loops over chunks.                                                       *)

LEMMA RefreshEntriesQuiet ==
  ASSUME NEW s \in StateType, view \in Views, NEW n \in Nat, NEW q \in [1..n -> Chunk]
  PROVE  Calmer(s, RefreshEntries(s, q), {}) /\ Quiet(s, RefreshEntries(s, q), {})
<1> DEFINE S == {t \in StateType : Calmer(s, t, {}) /\ Quiet(s, t, {})}
           step == [i \in 1..n |-> [t \in S |-> RefreshEntry(t, q[i])]]
           A == CHOOSE f : f = [i \in 0..n |-> IF i = 0 THEN s
                                               ELSE RefreshEntry(f[i - 1], q[i])]
<1>1. Len(q) = n
  OBVIOUS
<1>2. RefreshEntries(s, q) = A[n]
  BY <1>1 DEF RefreshEntries, InTurn
<1>3. s \in S
  BY CalmerSelf, QuietSelf
<1>4. ASSUME NEW i \in 1..n, NEW t \in S PROVE RefreshEntry(t, q[i]) \in S
  <2>1. q[i] \in Chunk
    OBVIOUS
  <2> DEFINE u == RefreshEntry(t, q[i])
  <2>2. Calmer(t, u, {}) /\ Quiet(t, u, {})
    BY <2>1, RefreshCalmer, RefreshQuiet
  <2> HIDE DEF u
  <2>3. u \in S
    BY <2>2, CalmerThen, QuietThen DEF Calmer
  <2> QED
    BY <2>3 DEF u
<1>5. step \in [1..n -> [S -> S]]
  BY <1>4
<1> HIDE DEF S
<1>6. PICK f : Iterates(f, n, S, s, step)
  <2> HIDE DEF step
  <2> QED
    BY <1>3, <1>5, Iteration
<1>7. f = [i \in 0..n |-> IF i = 0 THEN s ELSE RefreshEntry(f[i - 1], q[i])]
  <2>1. ASSUME NEW i \in 1..n PROVE f[i] = RefreshEntry(f[i - 1], q[i])
    <3>1. i - 1 \in 0..n
      OBVIOUS
    <3>2. f[i - 1] \in S /\ f[i] = step[i][f[i - 1]]
      BY <1>6, <3>1 DEF Iterates
    <3> QED
      BY <3>2
  <2>2. \A i \in 0..n : f[i] = IF i = 0 THEN s ELSE RefreshEntry(f[i - 1], q[i])
    <3>1. \A i \in 0..n : i = 0 \/ i \in 1..n
      OBVIOUS
    <3>2. f[0] = s
      BY <1>6 DEF Iterates
    <3> QED
      BY <2>1, <3>1, <3>2
  <2>3. f \in [0..n -> S]
    BY <1>6 DEF Iterates
  <2> QED
    BY <2>2, <2>3
<1>8. A = [i \in 0..n |-> IF i = 0 THEN s ELSE RefreshEntry(A[i - 1], q[i])]
  BY <1>7
<1> HIDE DEF A, step
<1> DEFINE T == {i \in 0..n : A[i] \in S}
<1>9. 0 \in T
  BY <1>3, <1>8
<1>10. ASSUME NEW i \in 1..n, i - 1 \in T PROVE i \in T
  <2>1. i \in 0..n /\ i # 0 /\ A[i - 1] \in S
    BY <1>10
  <2>2. A[i] = RefreshEntry(A[i - 1], q[i])
    BY <1>8, <2>1
  <2> QED
    BY <1>4, <2>1, <2>2
<1>11. 0..n \subseteq T
  <2> HIDE DEF T
  <2> QED
    BY <1>9, <1>10, Upward
<1>12. A[n] \in S
  BY <1>11
<1> QED
  BY <1>2, <1>12 DEF S

LEMMA CoverEntriesQuiet ==
  ASSUME NEW s \in StateType, view \in Views, NEW n \in Nat, NEW q \in [1..n -> Chunk]
  PROVE  Calmer(s, CoverEntries(s, q), {}) /\ Quiet(s, CoverEntries(s, q), {})
<1> DEFINE S == {t \in StateType : Calmer(s, t, {}) /\ Quiet(s, t, {})}
           step == [i \in 1..n |-> [t \in S |-> CoverEntry(t, q[i])]]
           A == CHOOSE f : f = [i \in 0..n |-> IF i = 0 THEN s
                                               ELSE CoverEntry(f[i - 1], q[i])]
<1>1. Len(q) = n
  OBVIOUS
<1>2. CoverEntries(s, q) = A[n]
  BY <1>1 DEF CoverEntries, InTurn
<1>3. s \in S
  BY CalmerSelf, QuietSelf
<1>4. ASSUME NEW i \in 1..n, NEW t \in S PROVE CoverEntry(t, q[i]) \in S
  <2>1. q[i] \in Chunk
    OBVIOUS
  <2> DEFINE u == CoverEntry(t, q[i])
  <2>2. Calmer(t, u, {}) /\ Quiet(t, u, {})
    BY <2>1, MarkUnavailableCalmer, CalmerSelf, UnavailableQuiet, QuietSelf DEF CoverEntry
  <2> HIDE DEF u
  <2>3. u \in S
    BY <2>2, CalmerThen, QuietThen DEF Calmer
  <2> QED
    BY <2>3 DEF u
<1>5. step \in [1..n -> [S -> S]]
  BY <1>4
<1> HIDE DEF S
<1>6. PICK f : Iterates(f, n, S, s, step)
  <2> HIDE DEF step
  <2> QED
    BY <1>3, <1>5, Iteration
<1>7. f = [i \in 0..n |-> IF i = 0 THEN s ELSE CoverEntry(f[i - 1], q[i])]
  <2>1. ASSUME NEW i \in 1..n PROVE f[i] = CoverEntry(f[i - 1], q[i])
    <3>1. i - 1 \in 0..n
      OBVIOUS
    <3>2. f[i - 1] \in S /\ f[i] = step[i][f[i - 1]]
      BY <1>6, <3>1 DEF Iterates
    <3> QED
      BY <3>2
  <2>2. \A i \in 0..n : f[i] = IF i = 0 THEN s ELSE CoverEntry(f[i - 1], q[i])
    <3>1. \A i \in 0..n : i = 0 \/ i \in 1..n
      OBVIOUS
    <3>2. f[0] = s
      BY <1>6 DEF Iterates
    <3> QED
      BY <2>1, <3>1, <3>2
  <2>3. f \in [0..n -> S]
    BY <1>6 DEF Iterates
  <2> QED
    BY <2>2, <2>3
<1>8. A = [i \in 0..n |-> IF i = 0 THEN s ELSE CoverEntry(A[i - 1], q[i])]
  BY <1>7
<1> HIDE DEF A, step
<1> DEFINE T == {i \in 0..n : A[i] \in S}
<1>9. 0 \in T
  BY <1>3, <1>8
<1>10. ASSUME NEW i \in 1..n, i - 1 \in T PROVE i \in T
  <2>1. i \in 0..n /\ i # 0 /\ A[i - 1] \in S
    BY <1>10
  <2>2. A[i] = CoverEntry(A[i - 1], q[i])
    BY <1>8, <2>1
  <2> QED
    BY <1>4, <2>1, <2>2
<1>11. 0..n \subseteq T
  <2> HIDE DEF T
  <2> QED
    BY <1>9, <1>10, Upward
<1>12. A[n] \in S
  BY <1>11
<1> QED
  BY <1>2, <1>12 DEF S

LEMMA HandledStays ==
  ASSUME NEW s, NEW t, NEW b, NEW k \in Chunk, NEW a, NoNewWaits(s, t), Handled(s, b, k, a)
  PROVE  Handled(t, b, k, a)
<1> SUFFICES ASSUME Leasing(t, b, k)
             PROVE  a.why = "ok" /\ ~a.body /\ Phase(b) # "hash" /\ t.chunks[k].res # Nothing
  BY DEF Handled
<1>1. Has(t, k) /\ t.chunks[k].req = b
      /\ t.chunks[k].st = IF Phase(b) = "hash" THEN "resolving" ELSE "fetching"
  BY DEF Leasing
<1>2. Waits(t, k)
  BY <1>1 DEF Waits
<1>3. /\ Waits(s, k) /\ t.chunks[k].st = s.chunks[k].st /\ t.chunks[k].req = s.chunks[k].req
      /\ t.chunks[k].res = Nothing => s.chunks[k].res = Nothing
  BY <1>2 DEF NoNewWaits
<1>4. Leasing(s, b, k)
  BY <1>1, <1>3 DEF Leasing, Waits
<1> QED
  BY <1>3, <1>4 DEF Handled

LEMMA ReceiveKeeps ==
  ASSUME NEW s, Sound(s), NEW b, NEW k \in Chunk, Leasing(s, b, k), NEW a,
         a.why = "ok" => a.view \in Views
  PROVE  Keeps(s, Receive(s, k, a)) /\ Handled(Receive(s, k, a), b, k, a)
<1> DEFINE r == HandleFetchedResolution(s, k, a.view)
           t == Receive(s, k, a)
<1>1. s \in StateType /\ Has(s, k) /\ s.chunks[k].st \in {"resolving", "fetching"}
  BY DEF Sound, Leasing
<1>2. CASE a.why # "ok"
  <2>1. t = Fail(s, k, a.why)
    BY <1>2 DEF Receive
  <2>2. /\ Calmer(s, t, {}) /\ t.chunks[k].st \in {"error", "hashed", "checking"}
        /\ Quiet(s, t, {})
    BY <1>1, <2>1, FailCalmer, FailQuiet
  <2> HIDE DEF t
  <2>3. Keeps(s, t)
    BY <2>2, CalmKeeps
  <2>4. Handled(t, b, k, a)
    BY <2>2 DEF Handled, Leasing
  <2> QED
    BY <2>3, <2>4 DEF t
<1>3. CASE a.why = "ok"
  <2>1. t = IF a.body THEN HandleFetchedChunk(r, k, a.view) ELSE r
    BY <1>3 DEF Receive
  <2>2. /\ Calmer(s, r, {})
        /\ s.chunks[k].st = "resolving" => r.chunks[k].st \in {"hashed", "absent"}
        /\ s.chunks[k].st = "fetching" =>
             \/ r.chunks[k].st = "absent"
             \/ /\ r.chunks[k].st = "fetching" /\ r.chunks[k].res # Nothing
                /\ r.chunks[k].dig = Source[a.view][k] /\ Source[a.view][k] \in Content
    BY <1>1, <1>3, ResolutionCalmer
  <2>a. Plain(s.chunks[k]) => Quiet(s, r, {})
    BY <1>1, <1>3, ResolutionQuiet
  <2> HIDE DEF r
  <2>3. Keeps(s, r) /\ Sound(r) /\ Has(r, k)
    <3>1. Moves(s, r) /\ Sound(r) /\ Has(r, k)
      BY <1>1, <2>2, CalmerSound DEF Moves, Calmer, Kept
    <3>2. True(s) => Quiet(s, r, {})
      BY <1>1, <2>a DEF True
    <3> QED
      BY <3>1, <3>2, QuietTrue DEF Keeps, Sound
  <2>4. CASE ~a.body
    <3>1. t = r
      BY <2>1, <2>4
    <3> HIDE DEF t
    <3>2. r.chunks[k].st = "fetching" => s.chunks[k].st = "fetching"
      BY <1>1, <2>2
    <3>3. Leasing(r, b, k) => s.chunks[k].st = "fetching" /\ r.chunks[k].st = "fetching"
      BY <1>1, <2>2 DEF Leasing
    <3>4. s.chunks[k].st = "fetching" => Phase(b) # "hash"
      BY DEF Leasing
    <3>5. Handled(r, b, k, a)
      BY <1>3, <2>2, <2>4, <3>3, <3>4 DEF Handled
    <3> QED
      BY <2>3, <3>1, <3>5 DEF t
  <2>5. CASE a.body
    <3>1. t = HandleFetchedChunk(r, k, a.view)
      BY <2>1, <2>5
    <3>2. r.chunks[k].st = "fetching" =>
            r.chunks[k].dig = Source[a.view][k] /\ Source[a.view][k] \in Content
      BY <1>1, <2>2
    <3>3. /\ Moves(r, t) /\ (r.chunks[k].st # "fetching" => t = r)
          /\ r.chunks[k].st = "fetching" => t.chunks[k].st \in {"hashed", "decoding"}
      BY <2>3, <3>1, <3>2, FetchedMoves
    <3>a. Plain(r.chunks[k]) => Quiet(r, t, {})
      BY <2>3, <3>1, <3>2, FetchedQuiet
    <3> HIDE DEF t
    <3>b. True(r) => Quiet(r, t, {})
      BY <2>3, <3>a DEF True
    <3>4. t.chunks[k].st \notin {"resolving", "fetching"}
      BY <1>1, <2>2, <3>3
    <3>5. Handled(t, b, k, a)
      BY <3>4 DEF Handled, Leasing
    <3>6. Keeps(r, t)
      BY <3>3, <3>b, QuietTrue DEF Keeps, Moves, Sound
    <3>7. Keeps(s, t)
      BY <2>3, <3>6, KeepsThen
    <3> QED
      BY <3>5, <3>7 DEF t
  <2> QED
    BY <2>4, <2>5
<1> QED
  BY <1>2, <1>3

(* A batch hands its answers over: its leases end, but for those it still   *)
(* reads.                                                                   *)
LEMMA AnswersKeep ==
  ASSUME NEW s, Sound(s), NEW b, NEW q \in Seq(Chunk), NEW answer,
         \A k \in DOMAIN answer : answer[k].why = "ok" => answer[k].view \in Views
  PROVE  /\ Keeps(s, ForLeased(s, b, q, answer))
         /\ \A k \in Range(q) \cap DOMAIN answer :
              Handled(ForLeased(s, b, q, answer), b, k, answer[k])
<1> DEFINE n == Len(q)
           S == {t \in StateType : Keeps(s, t)}
           turn(t, k) == IF k \in DOMAIN answer /\ Leasing(t, b, k)
                         THEN Receive(t, k, answer[k]) ELSE t
           step == [i \in 1..n |-> [t \in S |-> turn(t, q[i])]]
           A == CHOOSE f : f = [i \in 0..n |-> IF i = 0 THEN s ELSE turn(f[i - 1], q[i])]
<1>1. ForLeased(s, b, q, answer) = A[n]
  BY DEF ForLeased, InTurn
<1>2. n \in Nat /\ \A i \in 1..n : q[i] \in Chunk
  OBVIOUS
<1>3. s \in S
  <2>1. s \in StateType
    BY DEF Sound
  <2> QED
    BY <2>1, CalmerSelf, QuietSelf, CalmKeeps
<1>4. ASSUME NEW k \in Chunk, NEW t \in S
      PROVE  /\ turn(t, k) \in S /\ Keeps(t, turn(t, k))
             /\ k \in DOMAIN answer => Handled(turn(t, k), b, k, answer[k])
  <2>1. Keeps(s, t) /\ Sound(t) /\ t \in StateType
    BY DEF Keeps, Moves, Sound
  <2>2. CASE k \in DOMAIN answer /\ Leasing(t, b, k)
    <3> DEFINE a == answer[k]
    <3>1. a.why = "ok" => a.view \in Views
      BY <2>2
    <3>2. turn(t, k) = Receive(t, k, a)
      BY <2>2
    <3> HIDE DEF turn, a
    <3>3. Keeps(t, turn(t, k)) /\ Handled(turn(t, k), b, k, a)
      BY <2>1, <2>2, <3>1, <3>2, ReceiveKeeps
    <3> QED
      BY <2>1, <3>3, KeepsThen DEF a, Keeps, Moves, Sound
  <2>3. CASE ~(k \in DOMAIN answer /\ Leasing(t, b, k))
    <3>1. turn(t, k) = t
      BY <2>3
    <3> HIDE DEF turn
    <3>2. Keeps(t, t)
      BY <2>1, CalmerSelf, QuietSelf, CalmKeeps
    <3>3. k \in DOMAIN answer => Handled(t, b, k, answer[k])
      BY <2>3 DEF Handled
    <3> QED
      BY <3>1, <3>2, <3>3
  <2> QED
    BY <2>2, <2>3
<1> HIDE DEF S, turn
<1>5. step \in [1..n -> [S -> S]]
  BY <1>2, <1>4
<1>6. PICK f : Iterates(f, n, S, s, step)
  <2> HIDE DEF step, n
  <2> QED
    BY <1>2, <1>3, <1>5, Iteration
<1> HIDE DEF n
<1>7. f = [i \in 0..n |-> IF i = 0 THEN s ELSE turn(f[i - 1], q[i])]
  <2>1. ASSUME NEW i \in 1..n PROVE f[i] = turn(f[i - 1], q[i])
    <3>1. i - 1 \in 0..n
      BY <1>2
    <3>2. f[i - 1] \in S /\ f[i] = step[i][f[i - 1]]
      BY <1>6, <3>1 DEF Iterates
    <3> QED
      BY <3>2
  <2>2. \A i \in 0..n : f[i] = IF i = 0 THEN s ELSE turn(f[i - 1], q[i])
    <3>1. \A i \in 0..n : i = 0 \/ i \in 1..n
      BY <1>2
    <3>2. f[0] = s
      BY <1>6 DEF Iterates
    <3> QED
      BY <2>1, <3>1, <3>2
  <2>3. f \in [0..n -> S]
    BY <1>6 DEF Iterates
  <2> QED
    BY <2>2, <2>3
<1>8. A = [i \in 0..n |-> IF i = 0 THEN s ELSE turn(A[i - 1], q[i])]
  BY <1>7
<1> HIDE DEF A, step
<1> DEFINE done(t, i) == \A h \in 1..i : q[h] \in DOMAIN answer =>
                                           Handled(t, b, q[h], answer[q[h]])
           T == {i \in 0..n : A[i] \in S /\ done(A[i], i)}
<1>9. 0 \in T
  <2>1. 0 \in 0..n /\ A[0] = s
    BY <1>2, <1>8
  <2> QED
    BY <1>3, <2>1
<1>10. ASSUME NEW i \in 1..n, i - 1 \in T PROVE i \in T
  <2>1. i \in 0..n /\ i # 0 /\ i \in Nat /\ i - 1 \in 0..n /\ q[i] \in Chunk
    BY <1>2
  <2>2. A[i - 1] \in S /\ done(A[i - 1], i - 1)
    BY <1>10
  <2> DEFINE t == A[i - 1]
             u == A[i]
  <2>3. u = turn(t, q[i])
    BY <1>8, <2>1
  <2>4. /\ u \in S /\ Keeps(t, u)
        /\ q[i] \in DOMAIN answer => Handled(u, b, q[i], answer[q[i]])
    BY <1>4, <2>1, <2>2, <2>3
  <2>5. ASSUME NEW h \in 1..i, q[h] \in DOMAIN answer
        PROVE  Handled(u, b, q[h], answer[q[h]])
    <3>1. CASE h = i
      BY <2>4, <2>5, <3>1
    <3>2. CASE h # i
      <4>1. h \in 1..(i - 1) /\ h \in 1..n
        BY <1>2, <2>1, <3>2
      <4>2. Handled(t, b, q[h], answer[q[h]]) /\ q[h] \in Chunk
        BY <1>2, <2>2, <2>5, <4>1
      <4> HIDE DEF t, u
      <4> QED
        BY <2>4, <4>2, HandledStays DEF Keeps, Moves
    <3> QED
      BY <3>1, <3>2
  <2> QED
    BY <2>1, <2>4, <2>5
<1>11. 0..n \subseteq T
  <2> HIDE DEF T
  <2> QED
    BY <1>2, <1>9, <1>10, Upward
<1>12. A[n] \in S /\ done(A[n], n)
  <2>1. n \in 0..n
    BY <1>2
  <2> QED
    BY <1>11, <2>1
<1>13. ASSUME NEW k \in Range(q) \cap DOMAIN answer
       PROVE  Handled(A[n], b, k, answer[k])
  <2>1. PICK h \in 1..n : q[h] = k
    BY DEF Range, n
  <2> QED
    BY <1>12, <2>1
<1> QED
  BY <1>1, <1>12, <1>13 DEF S

-----------------------------------------------------------------------------
(* IO batches and their leases.                                             *)

LEMMA BatchParts ==
  ASSUME BatchesTyped(batch), NEW b \in BatchId, InFlight(b)
  PROVE  /\ batch[b] \in BatchType
         /\ batch[b].phase \in {"hash", "resolve", "read"} /\ batch[b].view \in Views
         /\ batch[b].keys \in Seq(Chunk) /\ Range(batch[b].keys) \subseteq Chunk
         /\ \E K \in SUBSET Chunk : batch[b].row \in [K -> OrNone(Views)]
         /\ \E K \in SUBSET Chunk :
              batch[b].body \in [K -> {"reading", "ok", "retry", "fatal", "expired"}]
         /\ batch[b].phase = "read" =>
              \A k \in DOMAIN batch[b].body : /\ k \in Range(batch[b].keys)
                                              /\ batch[b].row[k] \in Views
<1> DEFINE x == batch[b]
<1>1. x \in BatchType /\ x # Nothing
  BY DEF BatchesTyped, InFlight, OrNone
<1>2. x.phase = "read" =>
        /\ DOMAIN x.row = DOMAIN x.body /\ DOMAIN x.body \subseteq Range(x.keys)
        /\ \A k \in DOMAIN x.row : x.row[k] # Nothing
  BY DEF BatchesTyped, InFlight
<1> HIDE DEF x
<1>3. /\ x.phase \in {"hash", "resolve", "read"} /\ x.view \in Views /\ x.keys \in Seq(Chunk)
      /\ x.row \in UNION {[K -> OrNone(Views)] : K \in SUBSET Chunk}
      /\ x.body \in UNION {[K -> {"reading", "ok", "retry", "fatal", "expired"}] :
                             K \in SUBSET Chunk}
  BY <1>1 DEF BatchType
<1>4. Range(x.keys) \subseteq Chunk
  BY <1>3 DEF Range
<1>5. \E K \in SUBSET Chunk : x.row \in [K -> OrNone(Views)]
  BY <1>3
<1>6. \E K \in SUBSET Chunk : x.body \in [K -> {"reading", "ok", "retry", "fatal", "expired"}]
  BY <1>3
<1>7. ASSUME x.phase = "read", NEW k \in DOMAIN x.body
      PROVE  k \in Range(x.keys) /\ x.row[k] \in Views
  <2>1. k \in DOMAIN x.row /\ x.row[k] # Nothing /\ k \in Range(x.keys)
    BY <1>2, <1>7
  <2>2. x.row[k] \in OrNone(Views)
    BY <1>5, <2>1
  <2> QED
    BY <2>1, <2>2 DEF OrNone
<1> QED
  BY <1>1, <1>3, <1>4, <1>5, <1>6, <1>7 DEF x

(* Whoever still waits is waited for by the same batch. *)
LEMMA LeasesKept ==
  ASSUME NEW s, NEW t, NEW bs, NEW cs, LeasesHeld(s, bs), NoNewWaits(s, t),
         \A k \in Chunk : Waits(t, k) => cs[t.chunks[k].req] = bs[t.chunks[k].req]
  PROVE  LeasesHeld(t, cs)
<1> SUFFICES ASSUME NEW k \in Chunk, Waits(t, k)
             PROVE  LET e == t.chunks[k]
                    IN  /\ e.req \in BatchId /\ cs[e.req] # Nothing
                        /\ cs[e.req].phase = "hash" <=> e.st = "resolving"
                        /\ k \in Expected(cs[e.req])
                        /\ cs[e.req].phase = "resolve" /\ e.res = Nothing =>
                             cs[e.req].row[k] = Nothing
  BY DEF LeasesHeld
<1> DEFINE e == t.chunks[k]
           d == s.chunks[k]
<1>1. /\ Waits(s, k) /\ e.st = d.st /\ e.req = d.req
      /\ e.res = Nothing => d.res = Nothing
  BY DEF NoNewWaits
<1>2. cs[e.req] = bs[e.req]
  OBVIOUS
<1>3. /\ d.req \in BatchId /\ bs[d.req] # Nothing
      /\ bs[d.req].phase = "hash" <=> d.st = "resolving"
      /\ k \in Expected(bs[d.req])
      /\ bs[d.req].phase = "resolve" /\ d.res = Nothing => bs[d.req].row[k] = Nothing
  BY <1>1 DEF LeasesHeld
<1> HIDE DEF e, d
<1>4. /\ e.req \in BatchId /\ cs[e.req] # Nothing
      /\ cs[e.req].phase = "hash" <=> e.st = "resolving"
      /\ k \in Expected(cs[e.req])
      /\ cs[e.req].phase = "resolve" /\ e.res = Nothing => cs[e.req].row[k] = Nothing
  BY <1>1, <1>2, <1>3
<1> QED
  BY <1>4 DEF e

LEMMA KeepsHold ==
  ASSUME NEW s, NEW t, NEW bs, True(s), LeasesHeld(s, bs), Keeps(s, t)
  PROVE  Sound(t) /\ True(t) /\ LeasesHeld(t, bs)
BY LeasesKept DEF Keeps, Moves

(* The lease of a chunk that waits. *)
LEMMA LeaseOf ==
  ASSUME NEW s, LeasesHeld(s, batch), NEW k \in Chunk, Waits(s, k)
  PROVE  /\ s.chunks[k].req \in BatchId /\ InFlight(s.chunks[k].req)
         /\ Leasing(s, s.chunks[k].req, k) /\ k \in Expected(batch[s.chunks[k].req])
<1> DEFINE e == s.chunks[k]
<1>1. /\ e.req \in BatchId /\ batch[e.req] # Nothing
      /\ batch[e.req].phase = "hash" <=> e.st = "resolving"
      /\ k \in Expected(batch[e.req])
  BY DEF LeasesHeld
<1>2. Has(s, k) /\ e.st \in {"resolving", "fetching"}
  BY DEF Waits
<1>3. e.st = IF Phase(e.req) = "hash" THEN "resolving" ELSE "fetching"
  BY <1>1, <1>2 DEF Phase
<1> QED
  BY <1>1, <1>2, <1>3 DEF InFlight, Leasing

LEMMA BatchEnds ==
  ASSUME NEW b \in BatchId, BatchesTyped(batch), NEW bs, bs = [batch EXCEPT ![b] = Nothing]
  PROVE  /\ BatchesTyped(bs) /\ bs[b] = Nothing
         /\ \A c \in BatchId : c # b => bs[c] = batch[c]
<1>1. batch \in [BatchId -> OrNone(BatchType)] /\ Nothing \in OrNone(BatchType)
  BY DEF BatchesTyped, OrNone
<1>2. /\ bs \in [BatchId -> OrNone(BatchType)] /\ bs[b] = Nothing
      /\ \A c \in BatchId : c # b => bs[c] = batch[c]
  BY <1>1
<1>3. \A c \in BatchId : bs[c] = Nothing \/ bs[c] = batch[c]
  BY <1>2
<1>4. BatchesTyped(bs)
  <2> SUFFICES ASSUME NEW c \in BatchId, bs[c] # Nothing
               PROVE  /\ bs[c].phase = "resolve" => DOMAIN bs[c].row = Range(bs[c].keys)
                      /\ bs[c].phase = "read" =>
                           /\ DOMAIN bs[c].row = DOMAIN bs[c].body
                           /\ DOMAIN bs[c].body \subseteq Range(bs[c].keys)
                           /\ \A k \in DOMAIN bs[c].row : bs[c].row[k] # Nothing
    BY <1>2 DEF BatchesTyped
  <2>1. bs[c] = batch[c]
    BY <1>3
  <2> QED
    BY <2>1 DEF BatchesTyped
<1> QED
  BY <1>2, <1>4

(* The queues forget what is taken from them. *)
LEMMA TakeCalmer ==
  ASSUME NEW s \in StateType, NEW q, NEW hash \in BOOLEAN
  PROVE  /\ Calmer(s, TakeIo(s, q, hash), {}) /\ TakeIo(s, q, hash).chunks = s.chunks
<1> DEFINE t == TakeIo(s, q, hash)
<1>1. s.hashQ \subseteq Chunk /\ s.fetchQ \subseteq Chunk
  BY StateParts
<1>2. \E h \in SUBSET Chunk, f \in SUBSET Chunk : t = [s EXCEPT !.hashQ = h, !.fetchQ = f]
  <2>1. CASE hash
    <3> DEFINE h == {k \in s.hashQ \ Range(q) : Has(s, k) /\ s.chunks[k].st = "checking"}
    <3>1. t = [s EXCEPT !.hashQ = h]
      BY <2>1 DEF TakeIo
    <3>2. h \in SUBSET Chunk /\ s.fetchQ \in SUBSET Chunk
      BY <1>1
    <3> HIDE DEF t, h
    <3>3. t = [s EXCEPT !.hashQ = h, !.fetchQ = s.fetchQ]
      BY <3>1 DEF StateType
    <3> QED
      BY <3>2, <3>3
  <2>2. CASE ~hash
    <3> DEFINE f == {k \in s.fetchQ \ Range(q) : Has(s, k) /\ s.chunks[k].st = "hashed"}
    <3>1. t = [s EXCEPT !.fetchQ = f]
      BY <2>2 DEF TakeIo
    <3>2. f \in SUBSET Chunk /\ s.hashQ \in SUBSET Chunk
      BY <1>1
    <3> HIDE DEF t, f
    <3>3. t = [s EXCEPT !.hashQ = s.hashQ, !.fetchQ = f]
      BY <3>1 DEF StateType
    <3> QED
      BY <3>2, <3>3
  <2> QED
    BY <2>1, <2>2, Zenon
<1> HIDE DEF t
<1>3. PICK h \in SUBSET Chunk, f \in SUBSET Chunk : t = [s EXCEPT !.hashQ = h, !.fetchQ = f]
  BY <1>2
<1>4. /\ t \in StateType /\ t.chunks = s.chunks /\ t.jobs = s.jobs
      /\ t.column = s.column /\ t.reply = s.reply
  BY <1>3 DEF StateType
<1>5. Calmer(s, t, {}) /\ t.chunks = s.chunks
  BY <1>4, QueuesCalmer
<1> QED
  BY <1>5 DEF t

LEMMA OrderParts ==
  ASSUME NEW K \in SUBSET Chunk, NEW q \in Orders(K)
  PROVE  q \in Seq(Chunk) /\ Range(q) \subseteq K
<1>1. PICK n \in 1..MaxBatch : q \in [1..n -> K]
  BY DEF Orders
<1>2. n \in Nat
  BY ChunkRuntimeAssumption
<1>3. q \in [1..n -> Chunk]
  BY <1>1
<1>4. q \in Seq(Chunk)
  BY <1>2, <1>3
<1> QED
  BY <1>1, <1>4 DEF Range

LEMMA LeaseSound ==
  ASSUME NEW s, Sound(s), NEW b \in BatchId, NEW q \in Seq(Chunk), \A k \in Range(q) : Has(s, k),
         NEW st \in {"resolving", "fetching"}, NEW t, t = Lease(s, b, q, st)
  PROVE  /\ Sound(t)
         /\ \A k \in Chunk : k \in Range(q) =>
              /\ t.chunks[k].st = st /\ t.chunks[k].req = b
              /\ t.chunks[k].res = s.chunks[k].res
         /\ \A k \in Chunk : k \notin Range(q) => t.chunks[k] = s.chunks[k]
<1> DEFINE X == Range(q)
           F(e) == [e EXCEPT !.req = b, !.st = st]
<1>1. s \in StateType /\ X \subseteq Chunk
  BY DEF Sound, Range
<1>2. /\ t.chunks = [k \in Chunk |-> IF k \in X THEN F(s.chunks[k]) ELSE s.chunks[k]]
      /\ t = [s EXCEPT !.chunks = t.chunks]
      /\ t.jobs = s.jobs /\ t.column = s.column /\ t.reply = s.reply
  BY <1>1, Zenon DEF Lease, EachEntry, StateType
<1>a. \A k \in X : Has(s, k)
  OBVIOUS
<1> HIDE DEF X
<1>3. ASSUME NEW k \in Chunk, k \in X
      PROVE  /\ t.chunks[k] \in EntryType /\ Has(t, k) /\ Has(s, k)
             /\ t.chunks[k].pins = s.chunks[k].pins /\ t.chunks[k].pend = s.chunks[k].pend
             /\ t.chunks[k].st = st /\ t.chunks[k].req = b
             /\ t.chunks[k].res = s.chunks[k].res
  <2> DEFINE e == s.chunks[k]
             f == [e EXCEPT !.req = b, !.st = st]
  <2>1. e \in EntryType /\ Has(s, k) /\ t.chunks[k] = f
    BY <1>1, <1>a, <1>2, <1>3, StateParts
  <2> HIDE DEF e
  <2>2. /\ f \in EntryType /\ f.pins = e.pins /\ f.pend = e.pend /\ f.st = st
        /\ f.req = b /\ f.res = e.res
    BY <2>1, Zenon DEF EntryType, OrNone
  <2> HIDE DEF f
  <2>3. Has(t, k)
    BY <2>1, <2>2, EntryParts DEF Has
  <2> QED
    BY <2>1, <2>2, <2>3 DEF e
<1>4. ASSUME NEW k \in Chunk, k \notin X PROVE t.chunks[k] = s.chunks[k]
  BY <1>2, <1>4
<1>5. t \in StateType
  <2>1. \A k \in Chunk : t.chunks[k] \in OrNone(EntryType)
    BY <1>1, <1>3, <1>4, StateParts DEF OrNone
  <2>2. t.chunks \in [Chunk -> OrNone(EntryType)]
    BY <1>2, <2>1
  <2> QED
    BY <1>1, <1>2, <2>2, Zenon DEF StateType
<1>6. Calmer(s, t, X)
  <2>1. \A j \in JobId : SameJob(s, t, j)
    BY <1>2 DEF SameJob
  <2>2. \A k \in Chunk : Kept(s, t, k)
    BY <1>3, <1>4 DEF Kept, Has
  <2>3. \A k \in Chunk \ X : Still(s, t, k)
    BY <1>2, <1>4 DEF Still
  <2> QED
    BY <1>2, <1>5, <2>1, <2>2, <2>3 DEF Calmer
<1>7. \A k \in Chunk : k \in X => Flows(s, t, k)
  BY <1>3 DEF Flows
<1>8. Sound(t)
  BY <1>6, <1>7, FlowsSound
<1> QED
  BY <1>3, <1>4, <1>8 DEF X

LEMMA LeaseQuiet ==
  ASSUME NEW s, Sound(s), NEW b \in BatchId, NEW q \in Seq(Chunk),
         NEW st \in {"resolving", "fetching"},
         \A k \in Range(q) :
           Has(s, k) /\ s.chunks[k].st = IF st = "resolving" THEN "checking" ELSE "hashed"
  PROVE  Quiet(s, Lease(s, b, q, st), {})
<1> DEFINE X == Range(q)
           F(e) == [e EXCEPT !.req = b, !.st = st]
           t == Lease(s, b, q, st)
<1>1. s \in StateType /\ t \in StateType
  BY LeaseSound DEF Sound
<1>2. /\ t.chunks = [k \in Chunk |-> IF k \in X THEN F(s.chunks[k]) ELSE s.chunks[k]]
      /\ t.jobs = s.jobs /\ t.reply = s.reply
  BY <1>1 DEF Lease, EachEntry, StateType
<1> HIDE DEF t
<1>3. ASSUME NEW k \in Chunk, Has(t, k)
      PROVE  Has(s, k) /\ Works(s.chunks[k], t.chunks[k])
  <2>1. CASE k \in X
    <3> DEFINE e == s.chunks[k]
               f == [e EXCEPT !.req = b, !.st = st]
    <3>1. /\ e \in EntryType /\ Has(s, k) /\ t.chunks[k] = f
          /\ e.st = IF st = "resolving" THEN "checking" ELSE "hashed"
      BY <1>1, <1>2, <2>1, StateParts
    <3> HIDE DEF e
    <3>2. /\ f.shown = e.shown /\ f.pend = e.pend /\ f.st = st /\ f.dirty = e.dirty
          /\ f.dig = e.dig /\ f.readyDig = e.readyDig
      BY <3>1 DEF EntryType
    <3> HIDE DEF f
    <3>3. Works(e, f)
      BY <3>1, <3>2 DEF Works
    <3> QED
      BY <3>1, <3>3 DEF e
  <2>2. CASE k \notin X
    BY <1>2, <1>3, <2>2 DEF Works, Has
  <2> QED
    BY <2>1, <2>2
<1>4. Quiet(s, t, {})
  BY <1>1, <1>2, <1>3, WorksQuiet, QuietReply DEF t
<1> QED
  BY <1>4 DEF t

LEMMA ReleaseQuiet ==
  ASSUME NEW s \in StateType, NEW b
  PROVE  Quiet(s, Release(s, b), {})
<1> DEFINE X == {k \in Chunk : Has(s, k) /\ s.chunks[k].req = b}
           F(e) == [e EXCEPT !.req = Nothing]
           t == Release(s, b)
<1>1. /\ t.chunks = [k \in Chunk |-> IF k \in X THEN F(s.chunks[k]) ELSE s.chunks[k]]
      /\ t.jobs = s.jobs /\ t.reply = s.reply /\ t = [s EXCEPT !.chunks = t.chunks]
  BY DEF Release, EachEntry, StateType
<1> HIDE DEF t
<1>2. ASSUME NEW k \in Chunk
      PROVE  /\ t.chunks[k] \in OrNone(EntryType)
             /\ Has(t, k) => Has(s, k) /\ Works(s.chunks[k], t.chunks[k])
  <2>1. CASE k \in X
    <3> DEFINE e == s.chunks[k]
               f == [e EXCEPT !.req = Nothing]
    <3>1. e \in EntryType /\ Has(s, k) /\ t.chunks[k] = f
      BY <1>1, <2>1, StateParts
    <3> HIDE DEF e
    <3>2. /\ f \in EntryType
          /\ f.shown = e.shown /\ f.pend = e.pend /\ f.st = e.st /\ f.dirty = e.dirty
          /\ f.dig = e.dig /\ f.readyDig = e.readyDig
      BY <3>1 DEF EntryType, OrNone
    <3> HIDE DEF f
    <3>3. Works(e, f)
      BY <3>1, <3>2 DEF Works
    <3> QED
      BY <3>1, <3>2, <3>3 DEF e, OrNone
  <2>2. CASE k \notin X
    BY <1>1, <2>2, StateParts DEF Works, Has
  <2> QED
    BY <2>1, <2>2
<1>3. t \in StateType
  <2>1. t.chunks \in [Chunk -> OrNone(EntryType)]
    BY <1>1, <1>2
  <2> QED
    BY <1>1, <2>1 DEF StateType
<1>4. Quiet(s, t, {})
  BY <1>1, <1>2, <1>3, WorksQuiet, QuietReply
<1> QED
  BY <1>4 DEF t

LEMMA TakeQuiet ==
  ASSUME NEW s \in StateType, NEW q, NEW hash \in BOOLEAN
  PROVE  Quiet(s, TakeIo(s, q, hash), {})
<1>1. TakeIo(s, q, hash) \in StateType /\ TakeIo(s, q, hash).chunks = s.chunks
  BY TakeCalmer DEF Calmer
<1>2. TakeIo(s, q, hash).jobs = s.jobs /\ TakeIo(s, q, hash).reply = s.reply
  BY DEF TakeIo, StateType
<1> QED
  BY <1>1, <1>2, QuietQueues, QuietReply

(* A batch without leases ends. *)
LEMMA FinishBatchHolds ==
  ASSUME NEW s, Sound(s), True(s), LeasesHeld(s, batch), BatchesTyped(batch), NEW b \in BatchId,
         \A k \in Chunk : ~(Waits(s, k) /\ s.chunks[k].req = b), FinishBatch(b, s)
  PROVE  Sound(rt') /\ True(rt') /\ LeasesHeld(rt', batch') /\ BatchesTyped(batch')
<1> DEFINE K == {k \in Chunk : Has(s, k) /\ s.chunks[k].req = b}
           F(e) == [e EXCEPT !.req = Nothing]
           t == Release(s, b)
           bs == [batch EXCEPT ![b] = Nothing]
<1>1. rt' = t /\ batch' = bs
  BY DEF FinishBatch
<1>2. s \in StateType
  BY DEF Sound
<1>3. /\ t.chunks = [k \in Chunk |-> IF k \in K THEN F(s.chunks[k]) ELSE s.chunks[k]]
      /\ t = [s EXCEPT !.chunks = t.chunks]
      /\ t.jobs = s.jobs /\ t.column = s.column /\ t.reply = s.reply
  BY <1>2 DEF Release, EachEntry, StateType
<1> HIDE DEF t
<1>4. ASSUME NEW k \in Chunk, k \in K
      PROVE  /\ t.chunks[k] \in EntryType /\ Has(t, k) /\ Has(s, k)
             /\ t.chunks[k].pins = s.chunks[k].pins /\ t.chunks[k].pend = s.chunks[k].pend
             /\ t.chunks[k].st = s.chunks[k].st /\ t.chunks[k].dig = s.chunks[k].dig
             /\ t.chunks[k].mask = s.chunks[k].mask
             /\ t.chunks[k].st \notin {"resolving", "fetching"}
  <2> DEFINE e == s.chunks[k]
             f == [e EXCEPT !.req = Nothing]
  <2>1. e \in EntryType /\ Has(s, k) /\ t.chunks[k] = f
    BY <1>2, <1>3, <1>4, StateParts
  <2>2. ~Waits(s, k)
    BY <1>4
  <2>3. e.st \notin {"resolving", "fetching"}
    BY <2>1, <2>2 DEF Waits
  <2> HIDE DEF e
  <2>4. /\ f \in EntryType /\ f.pins = e.pins /\ f.pend = e.pend /\ f.st = e.st
        /\ f.dig = e.dig /\ f.mask = e.mask
    BY <2>1 DEF EntryType, OrNone
  <2> HIDE DEF f
  <2>5. Has(t, k)
    BY <2>1, <2>4, EntryParts DEF Has
  <2> QED
    BY <2>1, <2>3, <2>4, <2>5 DEF e
<1>5. ASSUME NEW k \in Chunk, k \notin K PROVE t.chunks[k] = s.chunks[k]
  BY <1>3, <1>5
<1> HIDE DEF K
<1>6. t \in StateType
  <2>1. \A k \in Chunk : t.chunks[k] \in OrNone(EntryType)
    BY <1>2, <1>4, <1>5, StateParts DEF OrNone
  <2>2. t.chunks \in [Chunk -> OrNone(EntryType)]
    BY <1>3, <2>1
  <2> QED
    BY <1>2, <1>3, <2>2 DEF StateType
<1>7. Calmer(s, t, {})
  <2>1. \A j \in JobId : SameJob(s, t, j)
    BY <1>3 DEF SameJob
  <2>2. \A k \in Chunk : Kept(s, t, k)
    BY <1>4, <1>5 DEF Kept, Has
  <2>3. \A k \in Chunk : Still(s, t, k)
    BY <1>3, <1>4, <1>5 DEF Still
  <2> QED
    BY <1>3, <1>6, <2>1, <2>2, <2>3 DEF Calmer
<1>8. Moves(s, t)
  BY <1>7, CalmerSound
<1> HIDE DEF bs
<1>9. BatchesTyped(bs) /\ \A c \in BatchId : c # b => bs[c] = batch[c]
  BY BatchEnds DEF bs
<1>10. LeasesHeld(t, bs)
  <2>1. ASSUME NEW k \in Chunk, Waits(t, k)
        PROVE  bs[t.chunks[k].req] = batch[t.chunks[k].req]
    <3>1. Waits(s, k) /\ t.chunks[k].req = s.chunks[k].req
      BY <1>8, <2>1 DEF Moves, NoNewWaits
    <3>2. s.chunks[k].req \in BatchId /\ s.chunks[k].req # b
      BY <3>1, LeaseOf
    <3> QED
      BY <1>9, <3>1, <3>2
  <2> QED
    BY <1>8, <2>1, LeasesKept DEF Moves
<1>11. Quiet(s, t, {})
  BY <1>2, ReleaseQuiet DEF t
<1>12. True(t)
  BY <1>8, <1>11, QuietTrue DEF Moves, Sound
<1> QED
  BY <1>1, <1>8, <1>9, <1>10, <1>12 DEF Moves

LEMMA BatchStarts ==
  ASSUME NEW b \in BatchId, BatchesTyped(batch), NEW x,
         x.phase = "resolve" => DOMAIN x.row = Range(x.keys),
         x.phase = "read" =>
           /\ DOMAIN x.row = DOMAIN x.body /\ DOMAIN x.body \subseteq Range(x.keys)
           /\ \A k \in DOMAIN x.row : x.row[k] # Nothing,
         NEW bs \in [BatchId -> OrNone(BatchType)], bs[b] = x,
         \A c \in BatchId : c # b => bs[c] = batch[c]
  PROVE  BatchesTyped(bs)
<1> SUFFICES ASSUME NEW c \in BatchId, bs[c] # Nothing
             PROVE  /\ bs[c].phase = "resolve" => DOMAIN bs[c].row = Range(bs[c].keys)
                    /\ bs[c].phase = "read" =>
                         /\ DOMAIN bs[c].row = DOMAIN bs[c].body
                         /\ DOMAIN bs[c].body \subseteq Range(bs[c].keys)
                         /\ \A k \in DOMAIN bs[c].row : bs[c].row[k] # Nothing
  BY DEF BatchesTyped
<1>1. CASE c = b
  BY <1>1
<1>2. CASE c # b
  <2>1. bs[c] = batch[c]
    BY <1>2
  <2> QED
    BY <2>1 DEF BatchesTyped
<1> QED
  BY <1>1, <1>2

(* A new batch leases chunks that wait for nobody. *)
LEMMA LeasesTaken ==
  ASSUME Sound(rt), True(rt), LeasesHeld(rt, batch), BatchesTyped(batch),
         NEW b \in BatchId, ~InFlight(b), NEW q \in Seq(Chunk), \A k \in Range(q) : Has(rt, k),
         NEW hash \in BOOLEAN,
         \A k \in Range(q) : rt.chunks[k].st = IF hash THEN "checking" ELSE "hashed",
         NEW x \in BatchType, x.keys = q,
         x.phase = "hash" <=> hash,
         x.phase = "resolve" =>
           DOMAIN x.row = Range(q) /\ \A k \in Range(q) : x.row[k] = rt.chunks[k].res,
         x.phase = "read" =>
           /\ DOMAIN x.row = Range(q) /\ DOMAIN x.body = Range(q)
           /\ \A k \in Range(q) : x.row[k] # Nothing,
         rt' = Lease(TakeIo(rt, q, hash), b, q, IF hash THEN "resolving" ELSE "fetching"),
         batch' = [batch EXCEPT ![b] = x]
  PROVE  Sound(rt') /\ True(rt') /\ LeasesHeld(rt', batch') /\ BatchesTyped(batch')
<1> DEFINE a == TakeIo(rt, q, hash)
           st == IF hash THEN "resolving" ELSE "fetching"
           t == rt'
           bs == [batch EXCEPT ![b] = x]
<1>b. batch' = bs
  OBVIOUS
<1>c. \A k \in Range(q) :
        rt.chunks[k].st = IF st = "resolving" THEN "checking" ELSE "hashed"
  OBVIOUS
<1>1. rt \in StateType /\ st \in {"resolving", "fetching"}
  BY DEF Sound
<1>2. Calmer(rt, a, {}) /\ Quiet(rt, a, {}) /\ a.chunks = rt.chunks
  BY <1>1, TakeCalmer, TakeQuiet
<1>3. t = Lease(a, b, q, st)
  OBVIOUS
<1> HIDE DEF a, t
<1>4. Sound(a) /\ \A k \in Range(q) : Has(a, k)
  BY <1>2, CalmerSound DEF Moves, Has
<1> HIDE DEF st
<1>5. /\ Sound(t)
      /\ \A k \in Chunk : k \in Range(q) =>
           t.chunks[k].st = st /\ t.chunks[k].req = b /\ t.chunks[k].res = rt.chunks[k].res
      /\ \A k \in Chunk : k \notin Range(q) => t.chunks[k] = rt.chunks[k]
  BY <1>1, <1>2, <1>3, <1>4, LeaseSound
<1>d. True(t)
  <2>1. Quiet(a, t, {})
    BY <1>1, <1>2, <1>3, <1>4, <1>c, LeaseQuiet
  <2>2. Quiet(rt, t, {})
    BY <1>2, <2>1, QuietThen
  <2> QED
    BY <1>5, <2>2, QuietTrue DEF Sound
<1>6. /\ BatchesTyped(bs) /\ bs[b] = x /\ x # Nothing
      /\ \A c \in BatchId : c # b => bs[c] = batch[c]
  <2>1. /\ x.phase = "resolve" => DOMAIN x.row = Range(x.keys)
        /\ x.phase = "read" =>
             /\ DOMAIN x.row = DOMAIN x.body /\ DOMAIN x.body \subseteq Range(x.keys)
             /\ \A k \in DOMAIN x.row : x.row[k] # Nothing
    OBVIOUS
  <2>2. batch \in [BatchId -> OrNone(BatchType)] /\ x \in OrNone(BatchType) /\ x # Nothing
    BY BatchAssumption DEF BatchesTyped, OrNone
  <2>3. /\ bs \in [BatchId -> OrNone(BatchType)] /\ bs[b] = x
        /\ \A c \in BatchId : c # b => bs[c] = batch[c]
    BY <2>2
  <2> HIDE DEF bs
  <2> QED
    BY <2>1, <2>2, <2>3, BatchStarts
<1> HIDE DEF bs
<1>7. Expected(x) = Range(q)
  BY DEF Expected
<1>8. LeasesHeld(t, bs)
  <2> SUFFICES ASSUME NEW k \in Chunk, Waits(t, k)
               PROVE  LET e == t.chunks[k]
                      IN  /\ e.req \in BatchId /\ bs[e.req] # Nothing
                          /\ bs[e.req].phase = "hash" <=> e.st = "resolving"
                          /\ k \in Expected(bs[e.req])
                          /\ bs[e.req].phase = "resolve" /\ e.res = Nothing =>
                               bs[e.req].row[k] = Nothing
    BY DEF LeasesHeld
  <2> DEFINE e == t.chunks[k]
  <2>1. CASE k \in Range(q)
    <3>1. e.st = st /\ e.req = b /\ e.res = rt.chunks[k].res
      BY <1>5, <2>1
    <3> HIDE DEF e
    <3>2. x.phase = "hash" <=> st = "resolving"
      BY DEF st
    <3>3. /\ e.req \in BatchId /\ bs[e.req] # Nothing
          /\ bs[e.req].phase = "hash" <=> e.st = "resolving"
          /\ k \in Expected(bs[e.req])
          /\ bs[e.req].phase = "resolve" /\ e.res = Nothing => bs[e.req].row[k] = Nothing
      BY <1>6, <1>7, <2>1, <3>1, <3>2
    <3> QED
      BY <3>3 DEF e
  <2>2. CASE k \notin Range(q)
    <3>1. e = rt.chunks[k]
      BY <1>5, <2>2
    <3>2. Waits(rt, k)
      BY <3>1 DEF Waits, Has
    <3>3. /\ e.req \in BatchId /\ batch[e.req] # Nothing
          /\ batch[e.req].phase = "hash" <=> e.st = "resolving"
          /\ k \in Expected(batch[e.req])
          /\ batch[e.req].phase = "resolve" /\ e.res = Nothing => batch[e.req].row[k] = Nothing
      BY <3>1, <3>2 DEF LeasesHeld
    <3>4. bs[e.req] = batch[e.req]
      BY <1>6, <3>3 DEF InFlight
    <3> QED
      BY <3>3, <3>4
  <2> QED
    BY <2>1, <2>2
<1> QED
  BY <1>b, <1>d, <1>5, <1>6, <1>8 DEF t

LEMMA HashBatchHolds ==
  ASSUME Sound(rt), True(rt), LeasesHeld(rt, batch), BatchesTyped(batch), view \in Views,
         NEW b \in BatchId, NEW q, FetchHashBatch(b, q)
  PROVE  Sound(rt') /\ True(rt') /\ LeasesHeld(rt', batch') /\ BatchesTyped(batch')
<1> DEFINE K == {k \in rt.hashQ : Has(rt, k) /\ rt.chunks[k].st = "checking"}
           x == [phase |-> "hash", view |-> view, keys |-> q, row |-> Undue, body |-> Undue]
<1>1. /\ ~InFlight(b) /\ q \in Orders(K)
      /\ batch' = [batch EXCEPT ![b] = x]
      /\ rt' = Lease(TakeIo(rt, q, TRUE), b, q, "resolving")
  BY DEF FetchHashBatch
<1>2. K \in SUBSET Chunk
  BY StateParts DEF Sound
<1>3. q \in Seq(Chunk) /\ \A k \in Range(q) : Has(rt, k) /\ rt.chunks[k].st = "checking"
  <2>1. \A k \in K : Has(rt, k) /\ rt.chunks[k].st = "checking"
    OBVIOUS
  <2> HIDE DEF K
  <2> QED
    BY <1>1, <1>2, <2>1, OrderParts
<1>4. x \in BatchType
  <2>1. \A T : Undue \in [{} -> T]
    BY DEF Undue
  <2>2. /\ [{} -> OrNone(Views)] \in {[L -> OrNone(Views)] : L \in SUBSET Chunk}
        /\ [{} -> {"reading", "ok", "retry", "fatal", "expired"}]
             \in {[L -> {"reading", "ok", "retry", "fatal", "expired"}] : L \in SUBSET Chunk}
    OBVIOUS
  <2>3. Undue \in UNION {[L -> OrNone(Views)] : L \in SUBSET Chunk}
    BY <2>1, <2>2, Zenon
  <2>4. Undue \in UNION {[L -> {"reading", "ok", "retry", "fatal", "expired"}] :
                           L \in SUBSET Chunk}
    BY <2>1, <2>2, Zenon
  <2> QED
    BY <1>3, <2>3, <2>4 DEF BatchType
<1>5. x.phase = "hash" /\ x.keys = q
  OBVIOUS
<1> HIDE DEF x, K
<1>6. rt' = Lease(TakeIo(rt, q, TRUE), b, q, IF TRUE THEN "resolving" ELSE "fetching")
  BY <1>1
<1>7. \A k \in Range(q) : rt.chunks[k].st = IF TRUE THEN "checking" ELSE "hashed"
  BY <1>3
<1> QED
  BY <1>1, <1>3, <1>4, <1>5, <1>6, <1>7, LeasesTaken

LEMMA FetchBatchHolds ==
  ASSUME Sound(rt), True(rt), LeasesHeld(rt, batch), BatchesTyped(batch), view \in Views,
         NEW b \in BatchId, NEW q, FetchBatch(b, q)
  PROVE  Sound(rt') /\ True(rt') /\ LeasesHeld(rt', batch') /\ BatchesTyped(batch')
<1> DEFINE K == {k \in rt.fetchQ : Has(rt, k) /\ rt.chunks[k].st = "hashed"}
           row == [k \in Range(q) |-> rt.chunks[k].res]
           body == [k \in Range(q) |-> "reading"]
           phase == IF \E k \in Range(q) : row[k] = Nothing THEN "resolve" ELSE "read"
           x == [phase |-> phase, view |-> view, keys |-> q, row |-> row, body |-> body]
<1>1. /\ ~InFlight(b) /\ q \in Orders(K)
      /\ batch' = [batch EXCEPT ![b] = x]
      /\ rt' = Lease(TakeIo(rt, q, FALSE), b, q, "fetching")
  BY DEF FetchBatch
<1>2. K \in SUBSET Chunk
  BY StateParts DEF Sound
<1>3. /\ q \in Seq(Chunk) /\ Range(q) \in SUBSET Chunk
      /\ \A k \in Range(q) : Has(rt, k) /\ rt.chunks[k].st = "hashed"
  <2>1. \A k \in K : Has(rt, k) /\ rt.chunks[k].st = "hashed"
    OBVIOUS
  <2> HIDE DEF K
  <2> QED
    BY <1>1, <1>2, <2>1, OrderParts
<1> DEFINE R == Range(q)
           Body == {"reading", "ok", "retry", "fatal", "expired"}
<1> HIDE DEF K
<1>4. row \in [R -> OrNone(Views)]
  <2>1. \A k \in R : rt.chunks[k] \in EntryType
    BY <1>3, StateParts DEF Sound
  <2>2. \A k \in R : rt.chunks[k].res \in OrNone(Views)
    BY <2>1, EntryParts
  <2> QED
    BY <2>2
<1>5. body \in [R -> Body]
  OBVIOUS
<1>6. phase \in {"resolve", "read"} /\ (phase = "read" => \A k \in R : row[k] # Nothing)
  OBVIOUS
<1>7. DOMAIN row = R /\ DOMAIN body = R /\ \A k \in R : row[k] = rt.chunks[k].res
  OBVIOUS
<1> HIDE DEF row, body, phase
<1>8. x \in BatchType
  <2>1. R \in SUBSET Chunk
    BY <1>3
  <2> HIDE DEF R, Body
  <2>2. /\ [R -> OrNone(Views)] \in {[L -> OrNone(Views)] : L \in SUBSET Chunk}
        /\ [R -> Body] \in {[L -> Body] : L \in SUBSET Chunk}
    BY <2>1, Zenon
  <2>3. row \in UNION {[L -> OrNone(Views)] : L \in SUBSET Chunk}
    BY <1>4, <2>2, Zenon
  <2>4. body \in UNION {[L -> Body] : L \in SUBSET Chunk}
    BY <1>5, <2>2, Zenon
  <2> QED
    BY <1>3, <1>6, <2>3, <2>4 DEF BatchType, Body
<1>9. x.phase = phase /\ x.keys = q /\ x.row = row /\ x.body = body
  OBVIOUS
<1> HIDE DEF x
<1>10. rt' = Lease(TakeIo(rt, q, FALSE), b, q, IF FALSE THEN "resolving" ELSE "fetching")
  BY <1>1
<1>11. /\ x.phase = "hash" <=> FALSE
       /\ x.phase = "resolve" =>
            DOMAIN x.row = Range(q) /\ \A k \in Range(q) : x.row[k] = rt.chunks[k].res
       /\ x.phase = "read" =>
            /\ DOMAIN x.row = Range(q) /\ DOMAIN x.body = Range(q)
            /\ \A k \in Range(q) : x.row[k] # Nothing
  BY <1>6, <1>7, <1>9
<1>12. \A k \in Range(q) : rt.chunks[k].st = IF FALSE THEN "checking" ELSE "hashed"
  BY <1>3
<1> QED
  BY <1>1, <1>3, <1>8, <1>9, <1>10, <1>11, <1>12, LeasesTaken

(* A batch that leases none of the chunks it stands for holds nobody. *)
LEMMA NobodyWaits ==
  ASSUME NEW s, LeasesHeld(s, batch), NEW b,
         \A k \in Expected(batch[b]) \cap Chunk : ~Leasing(s, b, k)
  PROVE  \A k \in Chunk : ~(Waits(s, k) /\ s.chunks[k].req = b)
<1> SUFFICES ASSUME NEW k \in Chunk, Waits(s, k), s.chunks[k].req = b PROVE FALSE
  OBVIOUS
<1>1. Leasing(s, s.chunks[k].req, k) /\ k \in Expected(batch[s.chunks[k].req])
  BY LeaseOf
<1> QED
  BY <1>1

LEMMA EndsSome ==
  ASSUME NEW v, NEW why \in Ends(v)
  PROVE  why \in {"ok", "retry", "fatal", "expired"}
BY DEF Ends

LEMMA HashReplyHolds ==
  ASSUME Sound(rt), True(rt), LeasesHeld(rt, batch), BatchesTyped(batch),
         NEW b \in BatchId, HashReply(b)
  PROVE  Sound(rt') /\ True(rt') /\ LeasesHeld(rt', batch') /\ BatchesTyped(batch')
<1> DEFINE q == batch[b].keys
<1>1. InFlight(b) /\ Phase(b) = "hash"
  BY DEF HashReply
<1>2. PICK why \in Ends(batch[b].view) :
        FinishBatch(b, ForLeased(rt, b, q,
          [k \in Range(q) |-> [why |-> why, view |-> batch[b].view, body |-> FALSE]]))
  BY DEF HashReply
<1> DEFINE answer == [k \in Range(q) |-> [why |-> why, view |-> batch[b].view, body |-> FALSE]]
           s == ForLeased(rt, b, q, answer)
<1>3. q \in Seq(Chunk) /\ batch[b].view \in Views /\ Expected(batch[b]) = Range(q)
  BY <1>1, BatchParts DEF Expected, Phase
<1>4. /\ DOMAIN answer = Range(q)
      /\ \A k \in DOMAIN answer : answer[k].why = "ok" => answer[k].view \in Views
  BY <1>3
<1>5. FinishBatch(b, s)
  BY <1>2
<1> HIDE DEF answer, q
<1>6. /\ Keeps(rt, s)
      /\ \A k \in Range(q) \cap DOMAIN answer : Handled(s, b, k, answer[k])
  BY <1>3, <1>4, AnswersKeep
<1> HIDE DEF s
<1>7. Sound(s) /\ True(s) /\ LeasesHeld(s, batch)
  BY <1>6, KeepsHold
<1>8. \A k \in Expected(batch[b]) \cap Chunk : ~Leasing(s, b, k)
  BY <1>1, <1>3, <1>4, <1>6 DEF Handled
<1>9. \A k \in Chunk : ~(Waits(s, k) /\ s.chunks[k].req = b)
  BY <1>7, <1>8, NobodyWaits
<1> QED
  BY <1>5, <1>7, <1>9, FinishBatchHolds

(* A batch goes on to read what it has resolved. *)
LEMMA ReadingHolds ==
  ASSUME NEW s, Sound(s), LeasesHeld(s, batch), BatchesTyped(batch),
         NEW b \in BatchId, InFlight(b), Phase(b) = "resolve",
         NEW R, R = {k \in Range(batch[b].keys) : Leasing(s, b, k)},
         \A k \in R : s.chunks[k].res # Nothing,
         NEW bs,
         bs = [batch EXCEPT ![b] = [@ EXCEPT !.phase = "read",
                                             !.row = [k \in R |-> s.chunks[k].res],
                                             !.body = [k \in R |-> "reading"]]]
  PROVE  LeasesHeld(s, bs) /\ BatchesTyped(bs)
<1> DEFINE old == batch[b]
           row == [k \in R |-> s.chunks[k].res]
           body == [k \in R |-> "reading"]
           Body == {"reading", "ok", "retry", "fatal", "expired"}
           x == [old EXCEPT !.phase = "read", !.row = row, !.body = body]
<1>1. /\ old \in BatchType /\ old.phase = "resolve"
      /\ Range(old.keys) \subseteq Chunk /\ R \in SUBSET Chunk /\ R \subseteq Range(old.keys)
  BY BatchParts DEF Phase
<1>2. row \in [R -> OrNone(Views)]
  <2>1. \A k \in R : s.chunks[k] \in EntryType
    BY <1>1, StateParts DEF Sound, Leasing
  <2>2. \A k \in R : s.chunks[k].res \in OrNone(Views)
    BY <2>1, EntryParts
  <2> QED
    BY <2>2
<1>3. /\ body \in [R -> Body] /\ DOMAIN row = R /\ DOMAIN body = R
      /\ \A k \in R : row[k] # Nothing
  OBVIOUS
<1>4. bs = [batch EXCEPT ![b] = x]
  OBVIOUS
<1> HIDE DEF row, body, old
<1>5. /\ row \in UNION {[L -> OrNone(Views)] : L \in SUBSET Chunk}
      /\ body \in UNION {[L -> Body] : L \in SUBSET Chunk}
  <2> HIDE DEF Body
  <2>1. /\ [R -> OrNone(Views)] \in {[L -> OrNone(Views)] : L \in SUBSET Chunk}
        /\ [R -> Body] \in {[L -> Body] : L \in SUBSET Chunk}
    BY <1>1, Zenon
  <2>2. row \in UNION {[L -> OrNone(Views)] : L \in SUBSET Chunk}
    BY <1>2, <2>1, Zenon
  <2>3. body \in UNION {[L -> Body] : L \in SUBSET Chunk}
    BY <1>3, <2>1, Zenon
  <2> QED
    BY <2>2, <2>3
<1>6. /\ x \in BatchType /\ x.phase = "read" /\ x.keys = old.keys
      /\ x.row = row /\ x.body = body
  BY <1>1, <1>5 DEF BatchType, Body
<1> HIDE DEF x
<1>7. /\ bs \in [BatchId -> OrNone(BatchType)] /\ bs[b] = x /\ x # Nothing
      /\ \A c \in BatchId : c # b => bs[c] = batch[c]
  <2>1. batch \in [BatchId -> OrNone(BatchType)] /\ x \in OrNone(BatchType) /\ x # Nothing
    BY <1>6, BatchAssumption DEF BatchesTyped, OrNone
  <2> QED
    BY <1>4, <2>1
<1>8. BatchesTyped(bs)
  <2>1. /\ x.phase = "resolve" => DOMAIN x.row = Range(x.keys)
        /\ x.phase = "read" =>
             /\ DOMAIN x.row = DOMAIN x.body /\ DOMAIN x.body \subseteq Range(x.keys)
             /\ \A k \in DOMAIN x.row : x.row[k] # Nothing
    BY <1>1, <1>3, <1>6
  <2> QED
    BY <1>7, <2>1, BatchStarts, Zenon
<1>9. LeasesHeld(s, bs)
  <2> SUFFICES ASSUME NEW k \in Chunk, Waits(s, k)
               PROVE  LET e == s.chunks[k]
                      IN  /\ e.req \in BatchId /\ bs[e.req] # Nothing
                          /\ bs[e.req].phase = "hash" <=> e.st = "resolving"
                          /\ k \in Expected(bs[e.req])
                          /\ bs[e.req].phase = "resolve" /\ e.res = Nothing =>
                               bs[e.req].row[k] = Nothing
    BY Zenon DEF LeasesHeld
  <2> DEFINE e == s.chunks[k]
  <2>1. /\ e.req \in BatchId /\ batch[e.req] # Nothing
        /\ batch[e.req].phase = "hash" <=> e.st = "resolving"
        /\ k \in Expected(batch[e.req])
        /\ batch[e.req].phase = "resolve" /\ e.res = Nothing => batch[e.req].row[k] = Nothing
    BY DEF LeasesHeld
  <2>2. CASE e.req = b
    <3>1. k \in Range(old.keys)
      BY <1>1, <2>1, <2>2 DEF Expected, old
    <3>2. Leasing(s, b, k)
      BY <2>2, LeaseOf
    <3>3. k \in R
      BY <3>1, <3>2 DEF old
    <3>4. e.st = "fetching"
      BY <3>2 DEF Leasing
    <3>5. Expected(x) = R
      BY <1>3, <1>6 DEF Expected
    <3> HIDE DEF e
    <3> QED
      BY <1>6, <1>7, <2>1, <2>2, <3>3, <3>4, <3>5, Zenon DEF e
  <2>3. CASE e.req # b
    <3>1. bs[e.req] = batch[e.req]
      BY <1>7, <2>1, <2>3
    <3> QED
      BY <2>1, <3>1
  <2> QED
    BY <2>2, <2>3
<1> QED
  BY <1>8, <1>9

LEMMA FetchResolvedHolds ==
  ASSUME Sound(rt), True(rt), LeasesHeld(rt, batch), BatchesTyped(batch),
         NEW b \in BatchId, FetchResolved(b)
  PROVE  Sound(rt') /\ True(rt') /\ LeasesHeld(rt', batch') /\ BatchesTyped(batch')
<1> DEFINE q == batch[b].keys
           askd(why) == {k \in Range(q) : why = "ok" => batch[b].row[k] = Nothing}
           ans(why) == [k \in askd(why) |-> [why |-> why, view |-> batch[b].view, body |-> FALSE]]
           post(why) == ForLeased(rt, b, q, ans(why))
           rst(why) == {k \in Range(q) : Leasing(post(why), b, k)}
<1>1. InFlight(b) /\ Phase(b) = "resolve"
  BY DEF FetchResolved
<1>2. PICK why \in Ends(batch[b].view) :
        IF rst(why) = {} THEN FinishBatch(b, post(why))
        ELSE /\ rt' = post(why)
             /\ batch' = [batch EXCEPT
                  ![b] = [@ EXCEPT !.phase = "read",
                                   !.row = [k \in rst(why) |-> post(why).chunks[k].res],
                                   !.body = [k \in rst(why) |-> "reading"]]]
  BY Zenon DEF FetchResolved
<1> DEFINE answer == ans(why)
           s == post(why)
           R == rst(why)
<1>3. q \in Seq(Chunk) /\ Range(q) \subseteq Chunk /\ batch[b].view \in Views
      /\ Expected(batch[b]) = Range(q)
  BY <1>1, BatchParts DEF Expected, Phase
<1>4. /\ DOMAIN answer = askd(why)
      /\ \A k \in DOMAIN answer : answer[k].why = "ok" => answer[k].view \in Views
      /\ \A k \in DOMAIN answer : answer[k].why = why
  BY <1>3
<1>5. s = ForLeased(rt, b, q, answer)
  OBVIOUS
<1> HIDE DEF ans, q
<1>6. /\ Keeps(rt, s)
      /\ \A k \in Range(q) \cap DOMAIN answer : Handled(s, b, k, answer[k])
  <2> HIDE DEF s, answer
  <2> QED
    BY <1>3, <1>4, <1>5, AnswersKeep
<1> HIDE DEF post
<1>7. Sound(s) /\ True(s) /\ LeasesHeld(s, batch)
  BY <1>6, KeepsHold
<1>8. CASE R = {}
  <2>1. FinishBatch(b, s)
    BY <1>2, <1>8
  <2>2. \A k \in Expected(batch[b]) \cap Chunk : ~Leasing(s, b, k)
    BY <1>3, <1>8
  <2>3. \A k \in Chunk : ~(Waits(s, k) /\ s.chunks[k].req = b)
    BY <1>7, <2>2, NobodyWaits
  <2> QED
    BY <1>7, <2>1, <2>3, FinishBatchHolds
<1>9. CASE R # {}
  <2>1. \A k \in R : s.chunks[k].res # Nothing
    <3> SUFFICES ASSUME NEW k \in R PROVE s.chunks[k].res # Nothing
      OBVIOUS
    <3>1. k \in Range(q) /\ k \in Chunk /\ Leasing(s, b, k)
      BY <1>3
    <3>2. CASE k \in askd(why)
      <4>1. Handled(s, b, k, answer[k])
        BY <1>4, <1>6, <3>1, <3>2
      <4> QED
        BY <3>1, <4>1 DEF Handled
    <3>3. CASE k \notin askd(why)
      <4>1. batch[b].row[k] # Nothing
        BY <3>1, <3>3
      <4>2. Waits(s, k) /\ s.chunks[k].req = b
        BY <3>1 DEF Leasing, Waits
      <4>3. batch[b].phase = "resolve" /\ s.chunks[k].res = Nothing => batch[b].row[k] = Nothing
        BY <1>7, <3>1, <4>2 DEF LeasesHeld
      <4> QED
        BY <1>1, <4>1, <4>3 DEF Phase
    <3> QED
      BY <3>2, <3>3
  <2>2. rt' = s /\ batch' = [batch EXCEPT
                  ![b] = [@ EXCEPT !.phase = "read",
                                   !.row = [k \in R |-> s.chunks[k].res],
                                   !.body = [k \in R |-> "reading"]]]
    BY <1>2, <1>9
  <2>3. R = {k \in Range(batch[b].keys) : Leasing(s, b, k)}
    BY DEF q
  <2> HIDE DEF s, R
  <2> DEFINE bs == [batch EXCEPT ![b] = [@ EXCEPT !.phase = "read",
                                   !.row = [k \in R |-> s.chunks[k].res],
                                   !.body = [k \in R |-> "reading"]]]
  <2>4. LeasesHeld(s, bs) /\ BatchesTyped(bs)
    BY <1>1, <1>7, <2>1, <2>3, ReadingHolds, Zenon
  <2> HIDE DEF bs
  <2>5. batch' = bs
    BY <2>2 DEF bs
  <2> QED
    BY <1>7, <2>2, <2>4, <2>5
<1> QED
  BY <1>8, <1>9

LEMMA BodyHolds ==
  ASSUME Sound(rt), True(rt), LeasesHeld(rt, batch), BatchesTyped(batch),
         NEW b \in BatchId, NEW k \in Chunk, BodyArrives(b, k)
  PROVE  Sound(rt') /\ True(rt') /\ LeasesHeld(rt', batch') /\ BatchesTyped(batch')
<1> DEFINE q == batch[b].keys
           old == batch[b]
           Body == {"reading", "ok", "retry", "fatal", "expired"}
           got(why) == [old.body EXCEPT ![k] = why]
           ans(why) == [c \in DOMAIN got(why) |->
                          [why |-> got(why)[c], view |-> old.row[c], body |-> TRUE]]
<1>1. InFlight(b) /\ Phase(b) = "read" /\ k \in DOMAIN old.body
  BY DEF BodyArrives
<1>2. PICK why \in Ends(old.row[k]) :
        IF \E c \in DOMAIN got(why) : got(why)[c] = "reading"
        THEN batch' = [batch EXCEPT ![b].body = got(why)] /\ UNCHANGED rt
        ELSE FinishBatch(b, ForLeased(rt, b, q, ans(why)))
  BY DEF BodyArrives
<1> DEFINE body == got(why)
           answer == ans(why)
<1>3. /\ old \in BatchType /\ old.phase = "read" /\ q \in Seq(Chunk)
      /\ Expected(old) = DOMAIN old.body
      /\ \A c \in DOMAIN old.body : c \in Range(q) /\ old.row[c] \in Views
  BY <1>1, BatchParts DEF Expected, Phase
<1>4. PICK K \in SUBSET Chunk : old.body \in [K -> Body]
  BY <1>1, BatchParts
<1>5. body \in [K -> Body] /\ DOMAIN body = K /\ DOMAIN old.body = K
  <2>1. why \in Body
    BY EndsSome
  <2> QED
    BY <1>4, <2>1
<1>6. CASE \E c \in DOMAIN body : body[c] = "reading"
  <2> DEFINE x == [old EXCEPT !.body = body]
             bs == [batch EXCEPT ![b] = x]
  <2>1. batch' = bs /\ rt' = rt
    <3>1. batch' = [batch EXCEPT ![b].body = body] /\ rt' = rt
      BY <1>2, <1>6
    <3> HIDE DEF body
    <3> QED
      BY <3>1
  <2> HIDE DEF got
  <2>2. body \in UNION {[L -> Body] : L \in SUBSET Chunk}
    <3> HIDE DEF Body, body
    <3>1. [K -> Body] \in {[L -> Body] : L \in SUBSET Chunk}
      BY Zenon
    <3> QED
      BY <1>5, <3>1, Zenon
  <2> HIDE DEF body, old
  <2>3. /\ x \in BatchType /\ x.phase = "read" /\ x.keys = old.keys /\ x.row = old.row
        /\ x.body = body
    BY <1>3, <2>2 DEF BatchType, Body
  <2>4. /\ DOMAIN old.row = DOMAIN old.body /\ DOMAIN old.body \subseteq Range(old.keys)
        /\ \A c \in DOMAIN old.row : old.row[c] # Nothing
    BY <1>1, <1>3 DEF BatchesTyped, InFlight, old
  <2> HIDE DEF x
  <2>5. /\ bs \in [BatchId -> OrNone(BatchType)] /\ bs[b] = x /\ x # Nothing
        /\ \A c \in BatchId : c # b => bs[c] = batch[c]
    <3>1. batch \in [BatchId -> OrNone(BatchType)] /\ x \in OrNone(BatchType) /\ x # Nothing
      BY <2>3, BatchAssumption DEF BatchesTyped, OrNone
    <3> QED
      BY <3>1
  <2> HIDE DEF bs
  <2>6. BatchesTyped(bs)
    <3>1. /\ x.phase = "resolve" => DOMAIN x.row = Range(x.keys)
          /\ x.phase = "read" =>
               /\ DOMAIN x.row = DOMAIN x.body /\ DOMAIN x.body \subseteq Range(x.keys)
               /\ \A c \in DOMAIN x.row : x.row[c] # Nothing
      BY <1>5, <2>3, <2>4
    <3> QED
      BY <2>5, <3>1, BatchStarts
  <2>7. LeasesHeld(rt, bs)
    <3> SUFFICES ASSUME NEW n \in Chunk, Waits(rt, n)
                 PROVE  LET e == rt.chunks[n]
                        IN  /\ e.req \in BatchId /\ bs[e.req] # Nothing
                            /\ bs[e.req].phase = "hash" <=> e.st = "resolving"
                            /\ n \in Expected(bs[e.req])
                            /\ bs[e.req].phase = "resolve" /\ e.res = Nothing =>
                                 bs[e.req].row[n] = Nothing
      BY DEF LeasesHeld
    <3> DEFINE e == rt.chunks[n]
    <3>1. /\ e.req \in BatchId /\ batch[e.req] # Nothing
          /\ batch[e.req].phase = "hash" <=> e.st = "resolving"
          /\ n \in Expected(batch[e.req])
          /\ batch[e.req].phase = "resolve" /\ e.res = Nothing => batch[e.req].row[n] = Nothing
      BY DEF LeasesHeld
    <3>2. CASE e.req = b
      <4>1. Expected(x) = Expected(old)
        BY <1>3, <1>5, <2>3 DEF Expected
      <4> HIDE DEF e
      <4> QED
        BY <1>3, <2>3, <2>5, <3>1, <3>2, <4>1 DEF e, old
    <3>3. CASE e.req # b
      <4>1. bs[e.req] = batch[e.req]
        BY <2>5, <3>1, <3>3
      <4> QED
        BY <3>1, <4>1
    <3> QED
      BY <3>2, <3>3
  <2> QED
    BY <2>1, <2>6, <2>7
<1>7. CASE ~\E c \in DOMAIN body : body[c] = "reading"
  <2> DEFINE s == ForLeased(rt, b, q, answer)
  <2>1. FinishBatch(b, s)
    BY <1>2, <1>7
  <2>2. /\ DOMAIN answer = DOMAIN old.body
        /\ \A c \in DOMAIN answer : answer[c].why = "ok" => answer[c].view \in Views
        /\ \A c \in DOMAIN answer : answer[c].body
    BY <1>3, <1>5
  <2> HIDE DEF answer, q
  <2>3. /\ Keeps(rt, s)
        /\ \A c \in Range(q) \cap DOMAIN answer : Handled(s, b, c, answer[c])
    BY <1>3, <2>2, AnswersKeep
  <2> HIDE DEF s
  <2>4. Sound(s) /\ True(s) /\ LeasesHeld(s, batch)
    BY <2>3, KeepsHold
  <2>5. \A c \in Expected(batch[b]) \cap Chunk : ~Leasing(s, b, c)
    <3> SUFFICES ASSUME NEW c \in Expected(old), Leasing(s, b, c) PROVE FALSE
      OBVIOUS
    <3>1. c \in Range(q) \cap DOMAIN answer /\ answer[c].body
      BY <1>3, <2>2 DEF q
    <3> QED
      BY <2>3, <3>1 DEF Handled
  <2>6. \A c \in Chunk : ~(Waits(s, c) /\ s.chunks[c].req = b)
    BY <2>4, <2>5, NobodyWaits
  <2> QED
    BY <2>1, <2>4, <2>6, FinishBatchHolds
<1> QED
  BY <1>6, <1>7

-----------------------------------------------------------------------------
(* The whole runtime.                                                       *)

LEMMA InitSafe == Init => Safe
<1> SUFFICES ASSUME Init PROVE Safe
  OBVIOUS
<1>1. /\ rt = InitialState /\ batch = [b \in BatchId |-> Nothing]
      /\ view = left.first /\ refreshed = view /\ coverage = view /\ left \in Budgets
  BY DEF Init
<1>2. /\ rt.chunks = [k \in Chunk |-> Nothing] /\ rt.jobs = [j \in JobId |-> Nothing]
      /\ rt.reply = [w \in Worker |-> <<>>]
      /\ rt.column = [w \in Worker |-> [k \in Chunk |-> Nothing]]
  BY <1>1 DEF InitialState
<1>3. rt \in StateType
  <2>1. [k \in Chunk |-> Nothing] \in Columns(Chunk)
    BY DEF Columns, OrNone
  <2>2. rt.column \in [Worker -> Columns(Chunk)]
    BY <1>2, <2>1
  <2>3. rt.reply \in [Worker -> Seq(MessageType)]
    <3>1. <<>> \in Seq(MessageType)
      OBVIOUS
    <3> QED
      BY <1>2, <3>1
  <2>4. /\ rt.chunks \in [Chunk -> OrNone(EntryType)]
        /\ rt.jobs \in [JobId -> OrNone(JobType)]
    BY <1>2 DEF OrNone
  <2>5. /\ rt = [ chunks |-> rt.chunks, jobs |-> rt.jobs, hashQ |-> {}, fetchQ |-> {},
                  demand |-> [k \in Chunk |-> "none"], up |-> TRUE,
                  column |-> rt.column, reply |-> rt.reply ]
    BY <1>1 DEF InitialState
  <2>6. [k \in Chunk |-> "none"] \in [Chunk -> Kind \cup {"none", "stale"}]
    OBVIOUS
  <2> DEFINE C == rt.chunks
             J == rt.jobs
             L == rt.column
             R == rt.reply
             D == [k \in Chunk |-> "none"]
  <2>7. /\ C \in [Chunk -> OrNone(EntryType)] /\ J \in [JobId -> OrNone(JobType)]
        /\ L \in [Worker -> Columns(Chunk)] /\ R \in [Worker -> Seq(MessageType)]
        /\ D \in [Chunk -> Kind \cup {"none", "stale"}]
        /\ rt = [ chunks |-> C, jobs |-> J, hashQ |-> {}, fetchQ |-> {}, demand |-> D,
                  up |-> TRUE, column |-> L, reply |-> R ]
    BY <2>2, <2>3, <2>4, <2>5, <2>6
  <2> HIDE DEF C, J, L, R, D
  <2> QED
    BY <2>7 DEF StateType
<1>4. \A k \in Chunk : ~Has(rt, k)
  BY <1>2 DEF Has
<1>5. \A k \in Chunk : Users(rt, k) = {}
  BY <1>2 DEF Users
<1>6. Pinned(rt) /\ Held(rt) /\ Due(rt) /\ Pending(rt)
  BY <1>4, <1>5 DEF Pinned, Held, Due, Pending
<1>7. Tasks(rt)
  <2>1. \A w \in Worker : \A i \in 1..Len(rt.reply[w]) : FALSE
    BY <1>2
  <2> QED
    BY <1>2, <2>1 DEF Tasks
<1>8. BatchesTyped(batch)
  BY <1>1 DEF BatchesTyped, OrNone
<1>9. LeasesHeld(rt, batch)
  BY <1>4 DEF LeasesHeld, Waits
<1>10. ViewsTyped
  <2>1. left \in LeftType /\ view..(view + left.views) \subseteq Views
    BY <1>1, ChunkRuntimeAssumption DEF Views, LeftType
  <2>2. view \in Nat /\ view \in view..(view + left.views)
    BY <1>1, <2>1 DEF LeftType
  <2> QED
    BY <1>1, <2>1, <2>2 DEF ViewsTyped, OrNone
<1>11. True(rt)
  <2>1. \A j \in JobId : ~Current(rt, j)
    BY <1>2 DEF Current
  <2>2. \A w \in Worker : Building(rt, w) = {}
    <3>1. \A w \in Worker : 1..Len(rt.reply[w]) = {}
      BY <1>2
    <3> QED
      BY <3>1 DEF Building
  <2> QED
    BY <1>4, <2>1, <2>2 DEF True, Tidy, Shown, LookedUp, Built
<1> QED
  BY <1>3, <1>6, <1>7, <1>8, <1>9, <1>10, <1>11 DEF Safe, Sound

LEMMA CurrentView ==
  ASSUME ViewsTyped PROVE view \in Views
<1>1. view \in Nat /\ left.views \in Nat
  BY DEF ViewsTyped, LeftType
<1>2. view \in view..(view + left.views)
  BY <1>1
<1> QED
  BY <1>2 DEF ViewsTyped

(* Views last as long as no new one comes. *)
LEMMA ViewsStay ==
  ASSUME ViewsTyped, view' = view,
         left' \in LeftType, left'.views = left.views,
         refreshed' \in Views, coverage' \in OrNone(Views)
  PROVE  ViewsTyped'
BY DEF ViewsTyped

LEMMA Spending ==
  ASSUME ViewsTyped,
         \/ Move \/ Fault \/ UNCHANGED left
         \/ \E why : AlsoFails(why)
  PROVE  left' \in LeftType /\ left'.views = left.views
<1>1. left \in LeftType
  BY DEF ViewsTyped
<1>2. Move \/ Fault \/ UNCHANGED left
  BY DEF AlsoFails
<1> QED
  BY <1>1, <1>2 DEF Move, Fault, LeftType

LEMMA ViewSafe ==
  ASSUME Safe, ViewChanges PROVE Safe'
<1>1. /\ left.views > 0 /\ left' = [left EXCEPT !.views = @ - 1] /\ view' = view + 1
      /\ UNCHANGED <<rt, batch, refreshed, coverage>>
  BY DEF ViewChanges
<1>2. /\ view \in Nat /\ left \in LeftType
      /\ view..(view + left.views) \subseteq Views
      /\ refreshed \in Views /\ coverage \in OrNone(Views)
  BY DEF Safe, ViewsTyped
<1>3. left' \in LeftType /\ left'.views = left.views - 1
  BY <1>1, <1>2 DEF LeftType
<1>4. view' \in Nat /\ view'..(view' + left'.views) \subseteq view..(view + left.views)
  BY <1>1, <1>2, <1>3 DEF LeftType
<1>5. ViewsTyped'
  BY <1>1, <1>2, <1>3, <1>4 DEF ViewsTyped
<1>6. Sound(rt') /\ True(rt') /\ BatchesTyped(batch') /\ LeasesHeld(rt', batch')
  BY <1>1 DEF Safe
<1> QED
  BY <1>5, <1>6 DEF Safe

LEMMA RefreshSafe ==
  ASSUME Safe, RefreshReply PROVE Safe'
<1>1. /\ refreshed' = view /\ coverage' = view /\ UNCHANGED <<batch, view, left>>
      /\ \E order \in Turns : rt' = RefreshEntries(rt, order)
  BY DEF RefreshReply
<1>2. view \in Views /\ rt \in StateType /\ Cardinality(Chunk) \in Nat
  BY CurrentView, ChunkStateAssumption, FS_CardinalityType DEF Safe, Sound
<1>3. PICK order \in Turns : rt' = RefreshEntries(rt, order)
  BY <1>1
<1>4. order \in [1..Cardinality(Chunk) -> Chunk]
  BY DEF Turns
<1>5. Calmer(rt, rt', {}) /\ Quiet(rt, rt', {})
  BY <1>2, <1>3, <1>4, RefreshEntriesQuiet
<1>6. Keeps(rt, rt')
  BY <1>5, CalmKeeps DEF Safe
<1>7. Sound(rt') /\ True(rt') /\ LeasesHeld(rt', batch)
  BY <1>6, KeepsHold DEF Safe
<1>8. ViewsTyped'
  BY <1>1, <1>2, ViewsStay, Spending DEF Safe, OrNone
<1> QED
  BY <1>1, <1>7, <1>8 DEF Safe

LEMMA CoverageSafe ==
  ASSUME Safe, CoverageReply PROVE Safe'
<1>1. /\ coverage' = Nothing /\ UNCHANGED <<batch, view, refresh, refreshed, left>>
  BY Zenon DEF CoverageReply
<1>2. view \in Views /\ rt \in StateType /\ Cardinality(Chunk) \in Nat
  BY CurrentView, ChunkStateAssumption, FS_CardinalityType DEF Safe, Sound
<1>3. Calmer(rt, rt', {}) /\ Quiet(rt, rt', {})
  <2>1. PICK order \in Turns :
          \/ rt' = CoverEntries(rt, order)
          \/ rt' = [CoverEntries(rt, order) EXCEPT
                      !.hashQ = {}, !.fetchQ = {}, !.demand = [k \in Chunk |-> "none"]]
    BY Zenon DEF CoverageReply
  <2> DEFINE a == CoverEntries(rt, order)
             t == [a EXCEPT !.hashQ = {}, !.fetchQ = {}, !.demand = [k \in Chunk |-> "none"]]
  <2>2. order \in [1..Cardinality(Chunk) -> Chunk]
    BY DEF Turns
  <2>3. Calmer(rt, a, {}) /\ Quiet(rt, a, {}) /\ a \in StateType
    BY <1>2, <2>2, CoverEntriesQuiet DEF Calmer
  <2> HIDE DEF a
  <2>4. /\ t \in StateType /\ t.chunks = a.chunks /\ t.jobs = a.jobs
        /\ t.column = a.column /\ t.reply = a.reply
    BY <2>3 DEF StateType
  <2> HIDE DEF t
  <2>5. Calmer(a, t, {}) /\ Quiet(a, t, {})
    BY <2>3, <2>4, QueuesCalmer, QuietQueues, QuietReply
  <2>6. Calmer(rt, t, {}) /\ Quiet(rt, t, {})
    BY <2>3, <2>5, CalmerThen, QuietThen
  <2> QED
    BY <2>1, <2>3, <2>6 DEF a, t
<1>4. Keeps(rt, rt')
  BY <1>3, CalmKeeps DEF Safe
<1>5. Sound(rt') /\ True(rt') /\ LeasesHeld(rt', batch)
  BY <1>4, KeepsHold DEF Safe
<1>6. ViewsTyped'
  <2>1. coverage' \in OrNone(Views) /\ refreshed' \in Views /\ ViewsTyped
    BY <1>1 DEF OrNone, Safe, ViewsTyped
  <2> QED
    BY <1>1, <2>1, ViewsStay, Spending
<1> QED
  BY <1>1, <1>5, <1>6 DEF Safe

LEMMA CallbackSafe ==
  ASSUME Safe, Callback PROVE Safe'
<1>1. /\ Keeps(rt, rt') /\ UNCHANGED <<batch, view, refresh, refreshed, coverage>>
      /\ Move \/ Fault \/ UNCHANGED left
  BY DEF Callback
<1>2. Sound(rt') /\ True(rt') /\ LeasesHeld(rt', batch)
  BY <1>1, KeepsHold DEF Safe
<1>3. ViewsTyped'
  <2>1. ViewsTyped /\ refreshed' \in Views /\ coverage' \in OrNone(Views)
    BY <1>1 DEF Safe, ViewsTyped
  <2> QED
    BY <1>1, <2>1, Spending, ViewsStay
<1> QED
  BY <1>1, <1>2, <1>3 DEF Safe

(* A step of a batch. *)
LEMMA BatchSafe ==
  ASSUME Safe,
         Sound(rt') /\ True(rt') /\ LeasesHeld(rt', batch') /\ BatchesTyped(batch'),
         UNCHANGED <<view, refresh, refreshed, coverage>>,
         UNCHANGED left \/ \E why : AlsoFails(why)
  PROVE  Safe'
<1>1. ViewsTyped /\ refreshed' \in Views /\ coverage' \in OrNone(Views)
  BY DEF Safe, ViewsTyped
<1>2. ViewsTyped'
  BY <1>1, Spending, ViewsStay
<1> QED
  BY <1>2 DEF Safe

LEMMA StillSafe ==
  ASSUME Safe, UNCHANGED <<rt, batch, view, refreshed, left>>, coverage' \in {coverage, Nothing}
  PROVE  Safe'
BY DEF Safe, ViewsTyped, OrNone

LEMMA NextSafe ==
  ASSUME Safe, [Next]_vars PROVE Safe'
<1>1. Sound(rt) /\ True(rt) /\ LeasesHeld(rt, batch) /\ BatchesTyped(batch) /\ view \in Views
  BY CurrentView DEF Safe
<1>2. CASE Calls
  BY <1>1, <1>2, CallbacksKeep, CallbackSafe
<1>3. ASSUME NEW b \in BatchId, NEW q, FetchHashBatch(b, q) PROVE Safe'
  <2>1. UNCHANGED <<view, refresh, refreshed, coverage, left>>
    BY <1>3 DEF FetchHashBatch
  <2> QED
    BY <1>1, <1>3, <2>1, HashBatchHolds, BatchSafe
<1>4. ASSUME NEW b \in BatchId, NEW q, FetchBatch(b, q) PROVE Safe'
  <2>1. UNCHANGED <<view, refresh, refreshed, coverage, left>>
    BY <1>4 DEF FetchBatch
  <2> QED
    BY <1>1, <1>4, <2>1, FetchBatchHolds, BatchSafe
<1>5. ASSUME NEW b \in BatchId, HashReply(b) PROVE Safe'
  <2>1. UNCHANGED <<view, refresh, refreshed, coverage>> /\ \E why : AlsoFails(why)
    BY <1>5 DEF HashReply
  <2> QED
    BY <1>1, <1>5, <2>1, HashReplyHolds, BatchSafe
<1>6. ASSUME NEW b \in BatchId, FetchResolved(b) PROVE Safe'
  <2>1. UNCHANGED <<view, refresh, refreshed, coverage>> /\ \E why : AlsoFails(why)
    BY <1>6 DEF FetchResolved
  <2> QED
    BY <1>1, <1>6, <2>1, FetchResolvedHolds, BatchSafe
<1>7. ASSUME NEW b \in BatchId, NEW k \in Chunk, BodyArrives(b, k) PROVE Safe'
  <2>1. UNCHANGED <<view, refresh, refreshed, coverage>> /\ \E why : AlsoFails(why)
    BY <1>7 DEF BodyArrives
  <2> QED
    BY <1>1, <1>7, <2>1, BodyHolds, BatchSafe
<1>8. CASE ViewChanges
  BY <1>8, ViewSafe
<1>9. CASE RefreshReply
  BY <1>9, RefreshSafe
<1>10. CASE RefreshFails
  BY <1>10, StillSafe DEF RefreshFails
<1>11. CASE CoverageReply
  BY <1>11, CoverageSafe
<1>12. CASE CoverageFails \/ Rest \/ UNCHANGED vars
  BY <1>12, StillSafe DEF CoverageFails, Rest, vars
<1> QED
  BY <1>2, <1>3, <1>4, <1>5, <1>6, <1>7, <1>8, <1>9, <1>10, <1>11, <1>12 DEF Next, Calls

LEMMA SafeAlways == Spec => []Safe
<1>1. Safe /\ [Next]_vars => Safe'
  BY NextSafe
<1> QED
  BY InitSafe, <1>1, PTL DEF Spec

(* TypeOK: every variable keeps its type. *)
THEOREM TypesKept == Spec => []TypeOK
<1>1. Safe => TypeOK
  BY CurrentView DEF Safe, Sound, BatchesTyped, ViewsTyped, TypeOK
<1> QED
  BY SafeAlways, <1>1, PTL

(* PinsExact: a chunk is pinned as often as tasks that are with a worker    *)
(* depend on it, however jobs are superseded, dropped or lost with their    *)
(* worker.                                                                  *)
THEOREM PinsAreExact == Spec => []PinsExact
<1>1. Safe => PinsExact
  <2> SUFFICES ASSUME Safe, NEW k \in Chunk, Has(rt, k)
               PROVE  rt.chunks[k].pins = Cardinality({j \in JobsOf(rt) : k \in rt.jobs[j].deps})
    BY DEF PinsExact, Entries
  <2>1. {j \in JobsOf(rt) : k \in rt.jobs[j].deps} = Users(rt, k)
    BY DEF JobsOf, Users
  <2>2. rt.chunks[k].pins = Cardinality(Users(rt, k))
    BY DEF Safe, Sound, Pinned
  <2> QED
    BY <2>1, <2>2
<1> QED
  BY SafeAlways, <1>1, PTL

(* StoredMeansHeld: what the runtime calls stored, every worker holds in    *)
(* the content the runtime names.                                           *)
THEOREM StoredIsHeld == Spec => []StoredMeansHeld
<1>1. Safe => StoredMeansHeld
  BY DEF Safe, Sound, Held, StoredMeansHeld, Entries
<1> QED
  BY SafeAlways, <1>1, PTL

(* EveryWaitIsAnswered: nobody waits for an answer that is not due: IO has  *)
(* its batch, a decoding chunk the messages of the workers, a pending mesh  *)
(* its job.                                                                 *)
THEOREM WaitsAreAnswered == Spec => []EveryWaitIsAnswered
<1>1. Safe => EveryWaitIsAnswered
  <2> SUFFICES ASSUME Safe, NEW k \in Chunk, Has(rt, k)
               PROVE  LET e == rt.chunks[k]
                          due(w) == \E i \in DOMAIN rt.reply[w] :
                                      /\ rt.reply[w][i].type = "chunk"
                                      /\ rt.reply[w][i].chunk = k /\ rt.reply[w][i].dig = e.dig
                      IN  /\ e.st \in {"resolving", "fetching"} =>
                               e.req # Nothing /\ InFlight(e.req) /\ Leasing(rt, e.req, k)
                          /\ e.st = "decoding" => \A w \in Worker \ e.mask : due(w)
                          /\ e.pend # Nothing =>
                               rt.jobs[e.pend] # Nothing /\ rt.jobs[e.pend].chunk = k
    BY DEF EveryWaitIsAnswered, Entries
  <2> DEFINE e == rt.chunks[k]
  <2>1. ASSUME e.st \in {"resolving", "fetching"}
        PROVE  e.req # Nothing /\ InFlight(e.req) /\ Leasing(rt, e.req, k)
    <3>1. Waits(rt, k) /\ LeasesHeld(rt, batch)
      BY <2>1 DEF Waits, Safe
    <3> QED
      BY <3>1, LeaseOf, NothingAssumption
  <2>2. ASSUME e.st = "decoding", NEW w \in Worker \ e.mask
        PROVE  \E i \in DOMAIN rt.reply[w] :
                 /\ rt.reply[w][i].type = "chunk"
                 /\ rt.reply[w][i].chunk = k /\ rt.reply[w][i].dig = e.dig
    <3>1. PICK i \in 1..Len(rt.reply[w]) : Answers(rt, w, i, k, e.dig)
      BY <2>2 DEF Safe, Sound, Due
    <3>2. rt.reply[w] \in Seq(MessageType)
      BY StateParts DEF Safe, Sound
    <3>3. i \in DOMAIN rt.reply[w]
      BY <3>1, <3>2
    <3> QED
      BY <3>1, <3>3 DEF Answers
  <2>3. e.pend # Nothing => rt.jobs[e.pend] # Nothing /\ rt.jobs[e.pend].chunk = k
    BY DEF Safe, Sound, Pending
  <2> QED
    BY <2>1, <2>2, <2>3
<1> QED
  BY SafeAlways, <1>1, PTL

(* MeshContentsTrue: a mesh on display that is not marked dirty shows what  *)
(* its stored neighbours contain now, and a mesh on its way to the cache is *)
(* built from the contents its key names, whatever interleaving of refresh, *)
(* fetches, replies and lost workers lies between its dispatch and its      *)
(* display.  Nothing is said of neighbours that have no content any more.   *)
THEOREM MeshContentsStayTrue == Spec => []MeshContentsTrue
<1>1. Safe => CleanMeansCurrent
  <2> SUFFICES ASSUME Safe, NEW k \in Chunk, Has(rt, k), rt.chunks[k].shown # Nothing,
                      ~rt.chunks[k].dirty, NEW n \in Near[k], Has(rt, n),
                      rt.chunks[n].st = "stored"
               PROVE  rt.chunks[k].shown.from[n] = rt.chunks[n].dig
    BY DEF CleanMeansCurrent, Entries
  <2>1. Shows(rt, k, rt.chunks[k].shown.from, TRUE)
    BY Zenon DEF Safe, True, Shown
  <2>2. n \in Chunk
    BY ChunkStateAssumption
  <2>3. Known(rt.chunks[n])
    <3>1. Plain(rt.chunks[n])
      BY <2>2 DEF Safe, True
    <3> QED
      BY <3>1 DEF Plain, Known
  <2> QED
    BY <2>1, <2>3 DEF Shows, Around
<1>2. Safe => KeyedContentsTrue
  <2> SUFFICES ASSUME Safe, NEW w \in Worker, NEW i \in DOMAIN rt.reply[w], Keying(w, i),
                      NEW n \in DOMAIN rt.reply[w][i].from, PartsOf(w, i)[n] # "missing"
               PROVE  rt.reply[w][i].from[n] = PartsOf(w, i)[n]
    BY Zenon DEF KeyedContentsTrue
  <2>1. rt.reply[w] \in Seq(MessageType)
    BY StateParts DEF Safe, Sound
  <2>2. i \in 1..Len(rt.reply[w])
    BY <2>1
  <2>3. rt.reply[w][i] \in Building(rt, w)
    BY <2>2 DEF Building, Keying
  <2>4. Keyed(rt, rt.reply[w][i])
    BY <2>3 DEF Safe, True, Built
  <2> QED
    BY <2>4 DEF Keyed, Keying, PartsOf
<1> QED
  BY SafeAlways, <1>1, <1>2, PTL DEF MeshContentsTrue
-----------------------------------------------------------------------------
(* Steps that lose nothing that is due.                                     *)

LEMMA AsksSelf ==
  ASSUME NEW s PROVE Asks(s, s)
BY DEF Asks

LEMMA AsksThen ==
  ASSUME NEW s, NEW t, NEW u, Asks(s, t), Asks(t, u)
  PROVE  Asks(s, u)
BY DEF Asks, Wanted

LEMMA GentleThen ==
  ASSUME NEW s, NEW t, NEW u, Gentle(s, t), Gentle(t, u)
  PROVE  Gentle(s, u)
<1>1. Asks(s, u)
  BY AsksThen DEF Gentle
<1>2. ASSUME NEW k \in Chunk
      PROVE  /\ Has(u, k) <=> Has(s, k)
             /\ Has(u, k) /\ u.chunks[k].st = "decoding" =>
                  \/ u.chunks[k].mask # Worker
                  \/ s.chunks[k].st = "decoding" /\ u.chunks[k].mask = s.chunks[k].mask
  BY DEF Gentle
<1>3. ASSUME NEW j \in JobId, u.jobs[j] # Nothing
      PROVE  /\ s.jobs[j] # Nothing /\ u.jobs[j].worker = s.jobs[j].worker
             /\ u.jobs[j].phase = "worker" <=> s.jobs[j].phase = "worker"
  BY <1>3 DEF Gentle
<1>4. \A w \in Worker : Building(s, w) \subseteq Building(u, w)
  BY DEF Gentle
<1> QED
  BY <1>1, <1>2, <1>3, <1>4 DEF Gentle

LEMMA CalmGentle ==
  ASSUME NEW s, NEW t, Calmer(s, t, {}), Asks(s, t)
  PROVE  Gentle(s, t)
<1>1. ASSUME NEW k \in Chunk
      PROVE  /\ Has(t, k) <=> Has(s, k)
             /\ Has(t, k) /\ t.chunks[k].st = "decoding" =>
                  s.chunks[k].st = "decoding" /\ t.chunks[k].mask = s.chunks[k].mask
  <2>1. Kept(s, t, k) /\ Still(s, t, k)
    BY DEF Calmer
  <2> QED
    BY <2>1 DEF Kept, Still
<1>2. \A j \in JobId : SameJob(s, t, j)
  BY DEF Calmer
<1>3. \A w \in Worker : Building(s, w) \subseteq Building(t, w)
  BY DEF Calmer, Building
<1> QED
  BY <1>1, <1>2, <1>3 DEF Gentle, SameJob

LEMMA GentleAlert ==
  ASSUME NEW s, NEW t, Gentle(s, t), Alert(s)
  PROVE  Alert(t)
<1> SUFFICES ASSUME NEW k \in Chunk
             PROVE  /\ Wanted(t, k) =>
                         Has(t, k) /\ (t.chunks[k].st = "checking" => k \in t.hashQ)
                    /\ Has(t, k) /\ t.chunks[k].st = "decoding" => t.chunks[k].mask # Worker
  BY DEF Alert
<1>1. /\ Wanted(s, k) => Has(s, k) /\ (s.chunks[k].st = "checking" => k \in s.hashQ)
      /\ Has(s, k) /\ s.chunks[k].st = "decoding" => s.chunks[k].mask # Worker
  BY DEF Alert
<1>2. /\ Has(t, k) <=> Has(s, k)
      /\ Has(t, k) /\ t.chunks[k].st = "decoding" =>
           \/ t.chunks[k].mask # Worker
           \/ s.chunks[k].st = "decoding" /\ t.chunks[k].mask = s.chunks[k].mask
  BY DEF Gentle
<1>3. /\ Wanted(t, k) <=> Wanted(s, k)
      /\ s.hashQ \subseteq t.hashQ
      /\ Wanted(s, k) /\ Has(t, k) /\ t.chunks[k].st = "checking" =>
           (Has(s, k) /\ s.chunks[k].st = "checking") \/ k \in t.hashQ
  BY DEF Gentle, Asks, Wanted
<1> QED
  BY <1>1, <1>2, <1>3

LEMMA GentleManned ==
  ASSUME NEW s, NEW t, Gentle(s, t), NEW J, Manned(s, J)
  PROVE  Manned(t, J)
<1> SUFFICES ASSUME NEW j \in JobId \ J, t.jobs[j] # Nothing
             PROVE  IF t.jobs[j].phase = "worker" THEN Tasked(t, j)
                    ELSE t.jobs[j].worker = Nothing
  BY DEF Manned
<1>1. /\ s.jobs[j] # Nothing /\ t.jobs[j].worker = s.jobs[j].worker
      /\ t.jobs[j].phase = "worker" <=> s.jobs[j].phase = "worker"
  BY DEF Gentle
<1>2. IF s.jobs[j].phase = "worker" THEN Tasked(s, j) ELSE s.jobs[j].worker = Nothing
  BY <1>1 DEF Manned
<1>3. Tasked(s, j) => Tasked(t, j)
  BY DEF Tasked, Gentle
<1> QED
  BY <1>1, <1>2, <1>3

LEMMA GentleAwake ==
  ASSUME NEW s, NEW t, Gentle(s, t), Awake(s)
  PROVE  Awake(t)
BY GentleAlert, GentleManned DEF Awake

-----------------------------------------------------------------------------
(* The methods keep who is due.                                             *)

LEMMA AsksPut ==
  ASSUME NEW s \in StateType, NEW k \in Chunk, Has(s, k), NEW e \in EntryType,
         e.st # "checking" \/ e.st = s.chunks[k].st, NEW t, t = Put(s, k, e)
  PROVE  Asks(s, t)
<1>1. e \in OrNone(EntryType)
  BY DEF OrNone
<1>2. /\ t.chunks[k] = e /\ \A n \in Chunk : n # k => t.chunks[n] = s.chunks[n]
      /\ t.demand = s.demand /\ t.hashQ = s.hashQ
  BY <1>1, PutEntry
<1> QED
  BY <1>2 DEF Asks, Has

LEMMA AsksQueues ==
  ASSUME NEW s, NEW t, t.chunks = s.chunks, t.demand = s.demand, s.hashQ \subseteq t.hashQ
  PROVE  Asks(s, t)
BY DEF Asks, Has

LEMMA AsksEnqueue ==
  ASSUME NEW s \in StateType, NEW k \in Chunk,
         NEW t, t \in {EnqueueHash(s, k), EnqueueFetch(s, k)}
  PROVE  Asks(s, t)
<1>1. t.chunks = s.chunks /\ t.demand = s.demand /\ s.hashQ \subseteq t.hashQ
  BY DEF EnqueueHash, EnqueueFetch, StateType
<1> QED
  BY <1>1, AsksQueues

LEMMA AsksNeighbors ==
  ASSUME NEW s \in StateType, NEW k \in Chunk, NEW t, t = MarkNeighborsDirty(s, k)
  PROVE  Asks(s, t)
<1> DEFINE K == {n \in Near[k] \ {k} : /\ Has(s, n)
                                       /\ \/ s.chunks[n].shown # Nothing
                                          \/ s.chunks[n].pend # Nothing}
           s1 == EachEntry(s, K, LAMBDA e : [e EXCEPT !.dirty = TRUE])
           J == {j \in JobsOf(s1) : s1.jobs[j].chunk \in K}
           u == EachJob(s1, J, LAMBDA job : [job EXCEPT !.clean = FALSE])
<1>1. t = u
  BY DEF MarkNeighborsDirty, MarkDirty
<1>2. /\ s1.demand = s.demand /\ s1.hashQ = s.hashQ
      /\ s1 = [s EXCEPT !.chunks = s1.chunks]
  BY DEF EachEntry, StateType
<1> HIDE DEF s1, J
<1>3. u.demand = s1.demand /\ u.hashQ = s1.hashQ
  BY <1>2 DEF EachJob, StateType
<1> HIDE DEF u
<1>4. Calmer(s, t, {})
  BY NeighborsCalmer
<1>5. \A n \in Chunk : Has(s, n) =>
        t.chunks[n] \in {s.chunks[n], [s.chunks[n] EXCEPT !.dirty = TRUE]}
  BY NeighborsCalmer
<1>6. ASSUME NEW n \in Chunk, Has(t, n) PROVE Has(s, n) /\ t.chunks[n].st = s.chunks[n].st
  <2>1. Has(s, n)
    BY <1>4, <1>6 DEF Calmer, Kept
  <2>2. s.chunks[n] \in EntryType
    BY <2>1, StateParts
  <2> QED
    BY <1>5, <2>1, <2>2 DEF EntryType
<1> QED
  BY <1>1, <1>2, <1>3, <1>6 DEF Asks

LEMMA AsksRemove ==
  ASSUME NEW s \in StateType, NEW k \in Chunk, Has(s, k),
         NEW t, t \in {RemoveDisplayedMesh(s, k), InvalidatePendingMeshes(s, k)}
  PROVE  Asks(s, t) /\ t \in StateType /\ Has(t, k) /\ t.chunks[k].st = s.chunks[k].st
<1> DEFINE a == [s.chunks[k] EXCEPT !.shown = Nothing]
           b == [s.chunks[k] EXCEPT !.pend = Nothing]
<1>1. s.chunks[k] \in EntryType
  BY StateParts
<1>2. /\ a \in EntryType /\ a.st = s.chunks[k].st
      /\ b \in EntryType /\ b.st = s.chunks[k].st
  BY <1>1 DEF EntryType, OrNone
<1>3. t = Put(s, k, a) \/ t = Put(s, k, b)
  BY DEF Put, RemoveDisplayedMesh, InvalidatePendingMeshes
<1> HIDE DEF a, b
<1>4. ASSUME NEW e \in EntryType, e.st = s.chunks[k].st, t = Put(s, k, e)
      PROVE  Asks(s, t) /\ t \in StateType /\ Has(t, k) /\ t.chunks[k].st = s.chunks[k].st
  <2>1. e \in OrNone(EntryType) /\ e # Nothing
    BY EntryParts DEF OrNone
  <2>2. t \in StateType /\ t.chunks[k] = e
    BY <1>4, <2>1, PutEntry
  <2> QED
    BY <1>4, <2>1, <2>2, AsksPut DEF Has
<1> QED
  BY <1>2, <1>3, <1>4

LEMMA AsksDrop ==
  ASSUME NEW s \in StateType, NEW k \in Chunk, NEW t, t = BroadcastDrop(s, k)
  PROVE  Asks(s, t) /\ t \in StateType /\ t.chunks = s.chunks
<1>1. t \in StateType /\ t.chunks = s.chunks
  BY DropCalmer DEF Calmer
<1>2. t.demand = s.demand /\ t.hashQ = s.hashQ
  BY DEF BroadcastDrop, StateType
<1> QED
  BY <1>1, <1>2, AsksQueues

LEMMA AsksReset ==
  ASSUME NEW s \in StateType, NEW k \in Chunk, Has(s, k),
         NEW t, t = ResetAfterSourceChange(s, k)
  PROVE  /\ Asks(s, t) /\ t \in StateType /\ Has(t, k)
         /\ t.chunks[k].st = s.chunks[k].st
<1> DEFINE a == RemoveDisplayedMesh(s, k)
           b == BroadcastDrop(a, k)
           c == InvalidatePendingMeshes(b, k)
           d == MarkNeighborsDirty(c, k)
           e == [d.chunks[k] EXCEPT !.dirty = FALSE]
<1>1. t = Put(d, k, e)
  BY DEF ResetAfterSourceChange, Put
<1>2. Asks(s, a) /\ a \in StateType /\ Has(a, k)
  BY AsksRemove
<1> HIDE DEF a
<1>3. Asks(a, b) /\ b \in StateType /\ b.chunks = a.chunks
  BY <1>2, AsksDrop
<1> HIDE DEF b
<1>4. Has(b, k)
  BY <1>2, <1>3 DEF Has
<1>5. Asks(b, c) /\ c \in StateType /\ Has(c, k)
  BY <1>3, <1>4, AsksRemove
<1> HIDE DEF c
<1>6. Asks(c, d) /\ Calmer(c, d, {})
  BY <1>5, AsksNeighbors, NeighborsCalmer
<1>7. d \in StateType /\ Has(d, k)
  BY <1>5, <1>6 DEF Calmer, Kept
<1> HIDE DEF d
<1>8. d.chunks[k] \in EntryType
  BY <1>7, StateParts
<1>9. e \in EntryType /\ e.st = d.chunks[k].st
  BY <1>8 DEF EntryType
<1> HIDE DEF e
<1>10. Asks(d, t)
  BY <1>1, <1>7, <1>9, AsksPut
<1>11. Asks(s, t)
  BY <1>2, <1>3, <1>5, <1>6, <1>10, AsksThen
<1>12. Calmer(s, t, {k}) /\ t.chunks[k].st = s.chunks[k].st
  BY ResetCalmer
<1> QED
  BY <1>11, <1>12 DEF Calmer, Kept

LEMMA AsksUnavailable ==
  ASSUME NEW s \in StateType, NEW k \in Chunk, Has(s, k), NEW st \in {"absent", "error"},
         NEW clearSource \in BOOLEAN, NEW removeMesh \in BOOLEAN
  PROVE  Asks(s, MarkUnavailable(s, k, st, clearSource, removeMesh))
<1> DEFINE e1 == [s.chunks[k] EXCEPT !.st = st, !.pend = Nothing]
           e2 == [e1 EXCEPT !.dig = Nothing, !.res = Nothing]
           e == IF clearSource THEN e2 ELSE e1
           a == Put(s, k, e)
           b == IF st = "absent" THEN MarkNeighborsDirty(a, k) ELSE a
           c == IF removeMesh THEN RemoveDisplayedMesh(b, k) ELSE b
<1>1. s.chunks[k] \in EntryType
  BY StateParts
<1>2. c = MarkUnavailable(s, k, st, clearSource, removeMesh)
  <2>1. [[s EXCEPT !.chunks[k] = e1] EXCEPT !.chunks[k] = [@ EXCEPT !.dig = Nothing,
                                                                 !.res = Nothing]]
          = [s EXCEPT !.chunks[k] = e2]
    BY <1>1, Zenon DEF StateType, EntryType
  <2> QED
    BY <2>1 DEF MarkUnavailable, Put
<1>3. e1 \in EntryType /\ e1.st = st /\ e2 \in EntryType /\ e2.st = st
  BY <1>1, Zenon DEF EntryType, OrNone
<1>4. e \in EntryType /\ e.st = st
  BY <1>3
<1> HIDE DEF e
<1>5. Asks(s, a) /\ a \in StateType /\ Has(a, k)
  <2>1. e \in OrNone(EntryType) /\ e # Nothing
    BY <1>4, EntryParts DEF OrNone
  <2> QED
    BY <1>4, <2>1, AsksPut, PutEntry DEF Has
<1> HIDE DEF a
<1>6. Asks(a, b) /\ b \in StateType /\ Has(b, k)
  <2>1. CASE st = "absent"
    <3>1. Asks(a, MarkNeighborsDirty(a, k)) /\ Calmer(a, MarkNeighborsDirty(a, k), {})
      BY <1>5, AsksNeighbors, NeighborsCalmer
    <3> QED
      BY <1>5, <2>1, <3>1 DEF Calmer, Kept
  <2>2. CASE st # "absent"
    BY <1>5, <2>2, AsksSelf
  <2> QED
    BY <2>1, <2>2
<1> HIDE DEF b
<1>7. Asks(b, c)
  <2>1. Asks(b, RemoveDisplayedMesh(b, k))
    BY <1>6, AsksRemove
  <2> QED
    BY <2>1, AsksSelf
<1> QED
  BY <1>2, <1>5, <1>6, <1>7, AsksThen

LEMMA AsksFail ==
  ASSUME NEW s \in StateType, NEW k \in Chunk, Has(s, k), NEW why
  PROVE  Asks(s, Fail(s, k, why))
<1> DEFINE expired == why = "expired"
           known == s.chunks[k].dig # Nothing
           st == IF known THEN "hashed" ELSE "checking"
           res == IF expired THEN Nothing ELSE s.chunks[k].res
           e == [s.chunks[k] EXCEPT !.st = st, !.res = res]
           a == Put(s, k, e)
           t == RetryIo(s, k, expired)
<1>1. s.chunks[k] \in EntryType
  BY StateParts
<1>2. t = IF known THEN EnqueueFetch(a, k) ELSE EnqueueHash(a, k)
  BY DEF RetryIo, Put
<1>3. st = (IF known THEN "hashed" ELSE "checking") /\ res \in OrNone(Views)
  BY <1>1, EntryParts DEF OrNone
<1> HIDE DEF known, expired, st, res
<1>4. e \in EntryType /\ e.st = st
  BY <1>1, <1>3 DEF EntryType
<1> HIDE DEF e
<1>5. /\ a \in StateType /\ a.chunks[k] = e /\ a.demand = s.demand /\ a.hashQ = s.hashQ
      /\ \A n \in Chunk : n # k => a.chunks[n] = s.chunks[n]
  <2>1. e \in OrNone(EntryType)
    BY <1>4 DEF OrNone
  <2> QED
    BY <2>1, PutEntry
<1>6. known => Asks(s, t)
  <2>1. known => Asks(s, a)
    BY <1>3, <1>4, AsksPut
  <2> HIDE DEF a
  <2>2. known => Asks(a, t)
    BY <1>2, <1>5, AsksEnqueue
  <2> QED
    BY <2>1, <2>2, AsksThen
<1> HIDE DEF a
<1>7. ASSUME ~known PROVE Asks(s, t)
  <2>1. t = EnqueueHash(a, k)
    BY <1>2, <1>7
  <2>2. t.demand = s.demand /\ s.hashQ \subseteq t.hashQ /\ t.chunks = a.chunks
    BY <1>5, <2>1 DEF EnqueueHash, StateType
  <2>3. Wanted(s, k) => k \in t.hashQ
    BY <1>5, <2>1, PoolAssumption DEF EnqueueHash, StateType, Wanted
  <2> HIDE DEF t
  <2> QED
    BY <1>5, <2>2, <2>3 DEF Asks, Has
<1>8. Fail(s, k, why) = IF why = "fatal" THEN MarkUnavailable(s, k, "error", FALSE, FALSE)
                        ELSE t
  BY DEF Fail, expired
<1> HIDE DEF t
<1> QED
  BY <1>6, <1>7, <1>8, AsksUnavailable

LEMMA AsksResolution ==
  ASSUME NEW s \in StateType, NEW k \in Chunk, Has(s, k), NEW v \in Views
  PROVE  Asks(s, HandleFetchedResolution(s, k, v))
<1> DEFINE row == Source[v][k]
           changed == s.chunks[k].dig # Nothing /\ s.chunks[k].dig # row
           a == IF changed THEN ResetAfterSourceChange(s, k) ELSE s
           e == [a.chunks[k] EXCEPT !.dig = row, !.res = v,
                                    !.st = IF s.chunks[k].st = "fetching"
                                           THEN s.chunks[k].st ELSE "hashed"]
           b == Put(a, k, e)
<1>1. CASE s.chunks[k].st \notin {"resolving", "hashed", "fetching"}
  BY <1>1, AsksSelf DEF HandleFetchedResolution
<1>2. CASE s.chunks[k].st \in {"resolving", "hashed", "fetching"} /\ row = "missing"
  BY <1>2, AsksUnavailable DEF HandleFetchedResolution
<1>3. CASE s.chunks[k].st \in {"resolving", "hashed", "fetching"} /\ row # "missing"
  <2>1. HandleFetchedResolution(s, k, v) = b
    BY <1>3 DEF HandleFetchedResolution, Put
  <2>2. Asks(s, a) /\ a \in StateType /\ Has(a, k)
    BY AsksReset, AsksSelf
  <2> HIDE DEF a
  <2>3. a.chunks[k] \in EntryType /\ row \in Content
    BY <1>3, <2>2, StateParts, SourceType
  <2> HIDE DEF row
  <2>4. e \in EntryType /\ e.st \in {"fetching", "hashed"}
    BY <2>3, Zenon DEF EntryType, OrNone
  <2> HIDE DEF e
  <2>5. Asks(a, b)
    BY <2>2, <2>4, AsksPut
  <2> QED
    BY <2>1, <2>2, <2>5, AsksThen
<1> QED
  BY <1>1, <1>2, <1>3

LEMMA AsksError ==
  ASSUME NEW s \in StateType, NEW k \in Chunk, NEW d
  PROVE  Asks(s, HandleChunkError(s, k, d))
BY AsksUnavailable, AsksSelf DEF HandleChunkError

LEMMA AsksHashed ==
  ASSUME NEW s \in StateType, NEW k \in Chunk, Has(s, k), NEW t,
         t = Put(s, k, [s.chunks[k] EXCEPT !.st = "hashed", !.mask = {}])
  PROVE  Asks(s, t)
<1> DEFINE e == [s.chunks[k] EXCEPT !.st = "hashed", !.mask = {}]
<1>1. s.chunks[k] \in EntryType
  BY StateParts
<1>2. e \in EntryType /\ e.st = "hashed"
  BY <1>1 DEF EntryType
<1>3. t = Put(s, k, e)
  OBVIOUS
<1> HIDE DEF e
<1> QED
  BY <1>2, <1>3, AsksPut

LEMMA AsksRecover ==
  ASSUME NEW s \in StateType, NEW k \in Chunk, Has(s, k)
  PROVE  Asks(s, RecoverMissingWorkerInput(s, k))
<1> DEFINE a == Put(s, k, [s.chunks[k] EXCEPT !.st = "hashed", !.mask = {}])
<1>1. RecoverMissingWorkerInput(s, k)
        \in {EnqueueHash(s, k), EnqueueFetch(s, k), EnqueueFetch(a, k), s}
  BY DEF RecoverMissingWorkerInput, Put
<1>2. Asks(s, a) /\ a \in StateType
  BY AsksHashed, HashedCalmer, Zenon
<1> HIDE DEF a
<1>3. /\ Asks(s, EnqueueHash(s, k)) /\ Asks(s, EnqueueFetch(s, k)) /\ Asks(s, s)
      /\ Asks(a, EnqueueFetch(a, k))
  BY <1>2, AsksEnqueue, AsksSelf
<1> QED
  BY <1>1, <1>2, <1>3, AsksThen

LEMMA AsksApply ==
  ASSUME NEW s \in StateType, NEW j \in JobId, s.jobs[j] # Nothing,
         s.jobs[j].chunk # Nothing, Has(s, s.jobs[j].chunk),
         NEW mesh \in [kind : Kind, from : From]
  PROVE  Asks(s, ApplyMesh(s, j, mesh))
<1> DEFINE k == s.jobs[j].chunk
           e == [s.chunks[k] EXCEPT !.shown = mesh,
                                    !.dirty = ~s.jobs[j].clean /\ s.chunks[k].dirty]
           t == ApplyMesh(s, j, mesh)
<1>1. k \in Chunk /\ s.chunks[k] \in EntryType
  BY StateParts, JobParts DEF OrNone
<1>2. t = Put(s, k, e)
  BY SMTT(30) DEF ApplyMesh, Put
<1> HIDE DEF t
<1>3. e \in EntryType /\ e.st = s.chunks[k].st
  BY <1>1, Zenon DEF EntryType, OrNone
<1> HIDE DEF e
<1>4. Has(s, k)
  OBVIOUS
<1> HIDE DEF k
<1> QED
  BY <1>1, <1>2, <1>3, <1>4, AsksPut DEF t

-----------------------------------------------------------------------------
(* Jobs end and begin.                                                      *)

LEMMA SameAlert ==
  ASSUME NEW s, NEW t, t.demand = s.demand, s.hashQ \subseteq t.hashQ,
         \A k \in Chunk : SameData(s, t, k), Alert(s)
  PROVE  Alert(t)
<1> SUFFICES ASSUME NEW k \in Chunk
             PROVE  /\ Wanted(t, k) =>
                         Has(t, k) /\ (t.chunks[k].st = "checking" => k \in t.hashQ)
                    /\ Has(t, k) /\ t.chunks[k].st = "decoding" => t.chunks[k].mask # Worker
  BY DEF Alert
<1>1. /\ Wanted(s, k) => Has(s, k) /\ (s.chunks[k].st = "checking" => k \in s.hashQ)
      /\ Has(s, k) /\ s.chunks[k].st = "decoding" => s.chunks[k].mask # Worker
  BY DEF Alert
<1>2. SameData(s, t, k) /\ (Wanted(t, k) <=> Wanted(s, k))
  BY DEF Wanted
<1> QED
  BY <1>1, <1>2 DEF SameData

LEMMA FinishGentle ==
  ASSUME NEW s \in StateType, Pinned(s), Pending(s), NEW J \in SUBSET JobId,
         \A j \in J : s.jobs[j] # Nothing, NEW t, t = FinishMeshJobs(s, J)
  PROVE  Gentle(s, t)
<1>1. Ended(s, t, J)
  BY FinishEnds
<1>2. t.hashQ = s.hashQ
  BY DEF FinishMeshJobs, EachEntry, StateType
<1>3. /\ t.demand = s.demand /\ t.reply = s.reply
      /\ \A k \in Chunk : SameData(s, t, k)
      /\ \A j \in JobId : t.jobs[j] = IF j \in J THEN Nothing ELSE s.jobs[j]
  BY <1>1 DEF Ended
<1>4. Asks(s, t)
  BY <1>2, <1>3 DEF Asks, SameData
<1>5. \A w \in Worker : Building(s, w) \subseteq Building(t, w)
  BY <1>3 DEF Building
<1> QED
  BY <1>3, <1>4, <1>5 DEF Gentle, SameData

LEMMA SweepGentle ==
  ASSUME NEW s, Sound(s)
  PROVE  Gentle(s, SweepJobs(s))
<1> DEFINE J == {j \in WaitingJobs(s) : ~( /\ IsCurrentMeshJob(s, j)
                                           /\ ShouldAcceptMeshResult(s, j) )}
           a == FinishMeshJobs(s, J)
           M == UNION {MissingInputs(a, a.jobs[j].chunk) : j \in WaitingJobs(a)}
           A(st) == {n \in M : a.chunks[n].st = st /\ a.demand[n] # "none"}
           t == [a EXCEPT !.hashQ = @ \cup A("checking"), !.fetchQ = @ \cup A("hashed")]
<1>1. t = SweepJobs(s)
  BY DEF SweepJobs
<1>2. J \in SUBSET JobId /\ \A j \in J : s.jobs[j] # Nothing
  BY DEF WaitingJobs, JobsOf
<1> HIDE DEF J
<1>3. Gentle(s, a) /\ a \in StateType
  BY <1>2, FinishGentle, FinishEnds DEF Sound, Ended
<1> HIDE DEF a, A
<1>4. /\ t.chunks = a.chunks /\ t.jobs = a.jobs /\ t.reply = a.reply
      /\ t.demand = a.demand /\ a.hashQ \subseteq t.hashQ
  BY <1>3 DEF StateType
<1> HIDE DEF t
<1>5. Gentle(a, t)
  <2>1. Asks(a, t)
    BY <1>4, AsksQueues
  <2>2. \A w \in Worker : Building(a, w) \subseteq Building(t, w)
    BY <1>4 DEF Building
  <2> QED
    BY <1>4, <2>1, <2>2 DEF Gentle, Has
<1> QED
  BY <1>1, <1>3, <1>5, GentleThen

(* A job that goes to a worker has its task there. *)
LEMMA DispatchAwake ==
  ASSUME NEW s, Sound(s), Awake(s), NEW p \in Plans(s)
  PROVE  Awake(DispatchWorkerMesh(s, p))
<1> DEFINE posted == {j \in DOMAIN p : p[j] # Nothing}
           c(j) == s.jobs[j].chunk
           P(n) == {j \in posted : n \in StoredAround(s, c(j))}
           started(j) == [s.jobs[j] EXCEPT !.phase = "worker", !.worker = p[j],
                                           !.clean = TRUE,
                                           !.parts = CacheParts(s, c(j)),
                                           !.deps = StoredAround(s, c(j))]
           task(j) == [ type |-> "mesh", job |-> j, chunk |-> c(j),
                        from |-> [n \in Near[c(j)] |-> s.column[p[j]][n]] ]
           mine(w) == {j \in posted : p[j] = w}
           first(w) == CHOOSE j \in mine(w) : TRUE
           t == DispatchWorkerMesh(s, p)
<1>1. s \in StateType
  BY DEF Sound
<1>2. /\ t.chunks = [k \in Chunk |->
                       IF P(k) = {} THEN s.chunks[k]
                       ELSE [s.chunks[k] EXCEPT
                               !.pins = s.chunks[k].pins + Cardinality(P(k))]]
      /\ t.jobs = [j \in JobId |-> IF j \in posted THEN started(j) ELSE s.jobs[j]]
      /\ t.reply = [w \in Worker |-> IF mine(w) = {} THEN s.reply[w]
                                     ELSE Append(s.reply[w], task(first(w)))]
      /\ t.demand = s.demand /\ t.hashQ = s.hashQ
  BY <1>1 DEF DispatchWorkerMesh, StateType
<1> HIDE DEF t
<1>3. /\ p \in [{j \in WaitingJobs(s) : MissingInputs(s, s.jobs[j].chunk) = {}}
                 -> IdleWorkers(s) \cup {Nothing}]
      /\ \A i, j \in DOMAIN p : p[i] = p[j] /\ p[i] # Nothing => i = j
  BY DEF Plans
<1>4. ASSUME NEW j \in posted
      PROVE  /\ j \in JobId /\ s.jobs[j] \in JobType /\ p[j] \in Worker
             /\ mine(p[j]) = {j} /\ first(p[j]) = j
  <2>1. j \in WaitingJobs(s) /\ p[j] \in IdleWorkers(s)
    BY <1>3
  <2>2. j \in JobId /\ s.jobs[j] \in JobType /\ p[j] \in Worker
    BY <1>1, <2>1, StateParts DEF WaitingJobs, JobsOf, IdleWorkers
  <2>3. mine(p[j]) = {j}
    BY <1>3
  <2> QED
    BY <2>2, <2>3
<1>5. ASSUME NEW j \in posted PROVE started(j).phase = "worker"
  <2> DEFINE parts == CacheParts(s, c(j))
             deps == StoredAround(s, c(j))
  <2>1. s.jobs[j] \in JobType
    BY <1>4
  <2> HIDE DEF parts, deps
  <2> QED
    BY <2>1 DEF JobType
<1>6. ASSUME NEW w \in Worker
      PROVE  /\ Building(s, w) \subseteq Building(t, w)
             /\ mine(w) # {} => task(first(w)) \in Building(t, w)
  <2>1. CASE mine(w) = {}
    <3>1. t.reply[w] = s.reply[w]
      BY <1>2, <2>1, Zenon
    <3> QED
      BY <2>1, <3>1 DEF Building
  <2>2. CASE mine(w) # {}
    <3> DEFINE r == s.reply[w]
               m == task(first(w))
               q == Append(r, m)
    <3>1. t.reply[w] = q
      BY <1>2, <2>2, Zenon
    <3>2. r \in Seq(MessageType) /\ m.type = "mesh"
      BY <1>1, StateParts
    <3> HIDE DEF r, m, mine, first, task
    <3>3. /\ Len(r) \in Nat /\ Len(q) = Len(r) + 1 /\ q[Len(r) + 1] = m
          /\ \A i \in 1..Len(r) : q[i] = r[i]
      BY <3>2
    <3> HIDE DEF q
    <3>4. Building(t, w) = {q[i] : i \in {h \in 1..Len(q) : q[h].type = "mesh"}}
      BY <3>1 DEF Building
    <3>5. Building(s, w) = {r[i] : i \in {h \in 1..Len(r) : r[h].type = "mesh"}}
      BY DEF Building, r
    <3>6. \A i \in 1..Len(r) : i \in 1..Len(q)
      BY <3>3
    <3>7. Len(r) + 1 \in 1..Len(q)
      BY <3>3
    <3>8. m \in Building(t, w)
      BY <3>2, <3>3, <3>4, <3>7
    <3>9. Building(s, w) \subseteq Building(t, w)
      BY <3>3, <3>4, <3>5, <3>6
    <3> QED
      BY <3>8, <3>9 DEF m
  <2> QED
    BY <2>1, <2>2
<1>7. ASSUME NEW j \in posted PROVE Tasked(t, j)
  <2>1. p[j] \in Worker /\ task(first(p[j])) \in Building(t, p[j])
    BY <1>4, <1>6
  <2>2. task(first(p[j])).job = j
    BY <1>4
  <2> HIDE DEF task, first
  <2> QED
    BY <2>1, <2>2 DEF Tasked
<1>8. Manned(t, {})
  <2> SUFFICES ASSUME NEW j \in JobId, t.jobs[j] # Nothing
               PROVE  IF t.jobs[j].phase = "worker" THEN Tasked(t, j)
                      ELSE t.jobs[j].worker = Nothing
    BY DEF Manned
  <2>1. CASE j \in posted
    <3>1. t.jobs[j] = started(j)
      BY <1>2, <2>1, Zenon
    <3> HIDE DEF started, posted
    <3> QED
      BY <1>5, <1>7, <2>1, <3>1
  <2>2. CASE j \notin posted
    <3>1. t.jobs[j] = s.jobs[j]
      BY <1>2, <2>2, Zenon
    <3>2. IF s.jobs[j].phase = "worker" THEN Tasked(s, j) ELSE s.jobs[j].worker = Nothing
      BY <3>1 DEF Awake, Manned
    <3>3. Tasked(s, j) => Tasked(t, j)
      BY <1>6 DEF Tasked
    <3> QED
      BY <3>1, <3>2, <3>3
  <2> QED
    BY <2>1, <2>2
<1>9. ASSUME NEW k \in Chunk PROVE SameData(s, t, k)
  <2> DEFINE n == s.chunks[k].pins + Cardinality(P(k))
  <2>1. t.chunks[k] \in {s.chunks[k], [s.chunks[k] EXCEPT !.pins = n]}
    BY <1>2, Zenon
  <2>2. Has(s, k) \/ P(k) = {}
    <3> SUFFICES ASSUME NEW j \in posted, k \in StoredAround(s, c(j)) PROVE Has(s, k)
      OBVIOUS
    <3> QED
      BY DEF StoredAround
  <2>3. P(k) = {} => t.chunks[k] = s.chunks[k]
    BY <1>2, Zenon
  <2>4. Has(s, k) => s.chunks[k] \in EntryType
    BY <1>1, StateParts
  <2>5. Has(s, k) => n \in Nat
    <3>1. P(k) \subseteq JobId
      BY <1>4
    <3>2. Cardinality(P(k)) \in Nat
      BY <3>1, ChunkStateAssumption, FS_Subset, FS_CardinalityType
    <3> HIDE DEF P
    <3> QED
      BY <2>4, <3>2 DEF EntryType
  <2> DEFINE e == s.chunks[k]
             f == [e EXCEPT !.pins = n]
  <2>6. t.chunks[k] \in {e, f}
    BY <2>1
  <2>7. (Has(s, k) => e \in EntryType) /\ (Has(s, k) <=> e # Nothing)
    BY <2>4 DEF Has
  <2>8. ~Has(s, k) => t.chunks[k] = e
    BY <2>2, <2>3
  <2> HIDE DEF n, P, e
  <2>9. Has(s, k) => /\ f \in EntryType /\ f.st = e.st /\ f.dig = e.dig
                     /\ f.mask = e.mask /\ f.req = e.req /\ f.res = e.res
    BY <2>5, <2>7 DEF EntryType
  <2> HIDE DEF f
  <2>10. Has(s, k) => f # Nothing
    BY <2>9, EntryParts
  <2> QED
    BY <2>6, <2>7, <2>8, <2>9, <2>10 DEF SameData, Has, e
<1>10. Alert(t)
  BY <1>2, <1>9, SameAlert DEF Awake
<1> QED
  BY <1>8, <1>10 DEF Awake, t

(* A job that is made is with nobody yet. *)
LEMMA RequestAwake ==
  ASSUME NEW s, Sound(s), Awake(s), NEW K \in SUBSET Runnable(s)
  PROVE  Awake(RequestMesh(s, K))
<1> DEFINE slots == {p \in [K -> JobId \ JobsOf(s)] : \A k, l \in K : p[k] = p[l] => k = l}
           slot == CHOOSE p \in slots : TRUE
           job(k) == [ chunk |-> k, kind |-> s.demand[k],
                       phase |-> IF CacheParts(s, k) = Nothing THEN "waiting" ELSE "cache",
                       worker |-> Nothing, clean |-> TRUE,
                       parts |-> CacheParts(s, k), deps |-> {} ]
           taker(j) == {k \in K : slot[k] = j}
           first(j) == CHOOSE k \in taker(j) : TRUE
           t == RequestMesh(s, K)
<1>1. s \in StateType
  BY DEF Sound
<1>2. CASE slots = {}
  BY <1>2 DEF RequestMesh
<1>3. CASE slots # {}
  <2>1. /\ t.chunks = [k \in Chunk |-> IF k \in K THEN [s.chunks[k] EXCEPT !.pend = slot[k]]
                                       ELSE s.chunks[k]]
        /\ t.jobs = [j \in JobId |-> IF taker(j) = {} THEN s.jobs[j] ELSE job(first(j))]
        /\ t.reply = s.reply /\ t.demand = s.demand /\ t.hashQ = s.hashQ
    BY <1>1, <1>3 DEF RequestMesh, StateType
  <2> HIDE DEF t
  <2>2. slot \in slots
    BY <1>3
  <2> HIDE DEF slot
  <2>3. slot \in [K -> JobId \ JobsOf(s)]
    BY <2>2
  <2>4. ASSUME NEW k \in Chunk PROVE SameData(s, t, k)
    <3> DEFINE e == s.chunks[k]
               f == [e EXCEPT !.pend = slot[k]]
    <3>1. t.chunks[k] = IF k \in K THEN f ELSE e
      BY <2>1
    <3>2. k \in K => /\ Has(s, k) /\ e \in EntryType /\ slot[k] \in OrNone(JobId)
      BY <1>1, <2>3, StateParts DEF Runnable, OrNone
    <3> HIDE DEF e
    <3>3. k \in K => /\ f \in EntryType /\ f.st = e.st /\ f.dig = e.dig
                     /\ f.mask = e.mask /\ f.req = e.req /\ f.res = e.res
      BY <3>2 DEF EntryType
    <3> HIDE DEF f
    <3>4. k \in K => f # Nothing
      BY <3>3, EntryParts
    <3> QED
      BY <3>1, <3>2, <3>3, <3>4 DEF SameData, Has, e
  <2>5. Alert(t)
    BY <2>1, <2>4, SameAlert DEF Awake
  <2>6. \A w \in Worker : Building(t, w) = Building(s, w)
    BY <2>1 DEF Building
  <2>7. Manned(t, {})
    <3> SUFFICES ASSUME NEW j \in JobId, t.jobs[j] # Nothing
                 PROVE  IF t.jobs[j].phase = "worker" THEN Tasked(t, j)
                        ELSE t.jobs[j].worker = Nothing
      BY DEF Manned
    <3>1. CASE taker(j) = {}
      <4>1. t.jobs[j] = s.jobs[j]
        BY <2>1, <3>1
      <4>2. IF s.jobs[j].phase = "worker" THEN Tasked(s, j) ELSE s.jobs[j].worker = Nothing
        BY <4>1 DEF Awake, Manned
      <4>3. Tasked(s, j) => Tasked(t, j)
        BY <2>6 DEF Tasked
      <4> QED
        BY <4>1, <4>2, <4>3
    <3>2. CASE taker(j) # {}
      <4>1. t.jobs[j] = job(first(j))
        BY <2>1, <3>2
      <4> HIDE DEF first
      <4> QED
        BY <4>1
    <3> QED
      BY <3>1, <3>2
  <2> QED
    BY <2>5, <2>7 DEF Awake, t
<1> QED
  BY <1>2, <1>3

LEMMA SweptAwake ==
  ASSUME NEW s, Sound(s), Awake(s), NEW t \in Dispatched(SweepJobs(s))
  PROVE  Awake(t)
<1> DEFINE a == SweepJobs(s)
<1>1. Sound(a) /\ Awake(a)
  BY SweepMoves, SweepGentle, GentleAwake DEF Moves
<1>2. PICK p \in Plans(a) : t = DispatchWorkerMesh(a, p)
  BY DEF Dispatched
<1> HIDE DEF a
<1> QED
  BY <1>1, <1>2, DispatchAwake

LEMMA StartAwake ==
  ASSUME NEW s, Sound(s), Awake(s), NEW S, NEW t \in FlushStarting(s, S)
  PROVE  Awake(t)
<1>1. PICK d \in Dispatched(SweepJobs(s)) :
        t \in Dispatched(SweepJobs(RequestMesh(d, S \cap Runnable(d))))
  BY DEF FlushStarting
<1>2. Sound(d) /\ Awake(d)
  BY SweptDispatch, SweptAwake DEF Moves
<1> DEFINE r == RequestMesh(d, S \cap Runnable(d))
<1>3. S \cap Runnable(d) \in SUBSET Runnable(d)
  OBVIOUS
<1>4. Sound(r) /\ Awake(r)
  BY <1>2, <1>3, RequestMoves, RequestAwake DEF Moves
<1>5. t \in Dispatched(SweepJobs(r))
  BY <1>1
<1> HIDE DEF r
<1> QED
  BY <1>4, <1>5, SweptAwake

LEMMA FlushAwake ==
  ASSUME NEW s, Sound(s), Awake(s), NEW t \in Flushes(s)
  PROVE  Awake(t)
<1>1. CASE s.up
  <2>1. PICK S \in SUBSET Runnable(s) : t \in FlushStarting(s, S)
    BY <1>1 DEF Flushes
  <2> QED
    BY <2>1, StartAwake
<1>2. CASE ~s.up
  BY <1>2 DEF Flushes
<1> QED
  BY <1>1, <1>2

-----------------------------------------------------------------------------
(* Answers of IO keep who is due.                                           *)

LEMMA AlikeGentle ==
  ASSUME NEW s, NEW t, t.chunks = s.chunks, t.jobs = s.jobs, t.demand = s.demand,
         s.hashQ \subseteq t.hashQ,
         \A w \in Worker : Building(s, w) \subseteq Building(t, w)
  PROVE  Gentle(s, t)
<1>1. Asks(s, t)
  BY AsksQueues
<1> QED
  BY <1>1 DEF Gentle, Has

(* The content goes to all the workers, and there is one. *)
LEMMA FetchedGentle ==
  ASSUME NEW s, Sound(s), NEW k \in Chunk, Has(s, k), NEW v
  PROVE  Gentle(s, HandleFetchedChunk(s, k, v))
<1> DEFINE t == HandleFetchedChunk(s, k, v)
           e == [s.chunks[k] EXCEPT !.st = "hashed"]
           a == Put(s, k, e)
           g == [s.chunks[k] EXCEPT !.st = "decoding", !.mask = {}]
           b == Put(s, k, g)
           d == Source[v][k]
           m == [type |-> "chunk", chunk |-> k, dig |-> d]
<1>1. s \in StateType /\ s.chunks[k] \in EntryType
  BY StateParts DEF Sound
<1>2. CASE s.chunks[k].st # "fetching"
  <2>1. t = s
    BY <1>2 DEF HandleFetchedChunk
  <2> HIDE DEF t
  <2>2. Calmer(s, t, {}) /\ Asks(s, t)
    BY <1>1, <2>1, CalmerSelf, AsksSelf
  <2> QED
    BY <2>2, CalmGentle DEF t
<1>3. CASE s.chunks[k].st = "fetching" /\ ~s.up
  <2>1. t = EnqueueFetch(a, k)
    BY <1>3 DEF HandleFetchedChunk, Put
  <2>2. /\ e \in EntryType /\ e.pins = s.chunks[k].pins /\ e.pend = s.chunks[k].pend
        /\ e.st = "hashed"
    BY <1>1 DEF EntryType
  <2> HIDE DEF e
  <2>3. Calmer(s, a, {}) /\ a \in StateType /\ Asks(s, a)
    BY <1>1, <2>2, EntryStill, AsksPut
  <2> HIDE DEF a, t
  <2>4. Calmer(a, t, {}) /\ Asks(a, t)
    BY <2>1, <2>3, EnqueueCalmer, AsksEnqueue
  <2>5. Calmer(s, t, {}) /\ Asks(s, t)
    BY <2>3, <2>4, CalmerThen, AsksThen
  <2> QED
    BY <2>5, CalmGentle DEF t
<1>4. CASE s.chunks[k].st = "fetching" /\ s.up
  <2>1. t = SendChunkToWorkers(b, k, d)
    BY <1>4 DEF HandleFetchedChunk, Put
  <2>2. g \in EntryType /\ g.st = "decoding" /\ g.mask = {}
    BY <1>1 DEF EntryType
  <2> HIDE DEF g
  <2>3. g \in OrNone(EntryType) /\ g # Nothing
    BY <2>2, EntryParts DEF OrNone
  <2>4. /\ b \in StateType /\ b.chunks[k] = g
        /\ \A n \in Chunk : n # k => b.chunks[n] = s.chunks[n]
        /\ b.jobs = s.jobs /\ b.reply = s.reply /\ b.demand = s.demand /\ b.hashQ = s.hashQ
    BY <1>1, <2>3, PutEntry
  <2>5. Asks(s, b)
    BY <1>1, <2>2, AsksPut
  <2> HIDE DEF b, t
  <2>6. Gentle(s, b)
    <3>1. \A w \in Worker : Building(s, w) \subseteq Building(b, w)
      BY <2>4 DEF Building
    <3>2. g.mask # Worker
      BY <2>2, PoolAssumption
    <3>3. ASSUME NEW n \in Chunk
          PROVE  /\ Has(b, n) <=> Has(s, n)
                 /\ Has(b, n) /\ b.chunks[n].st = "decoding" =>
                      \/ b.chunks[n].mask # Worker
                      \/ s.chunks[n].st = "decoding" /\ b.chunks[n].mask = s.chunks[n].mask
      <4>1. CASE n = k
        BY <2>3, <2>4, <3>2, <4>1 DEF Has
      <4>2. CASE n # k
        BY <2>4, <4>2 DEF Has
      <4> QED
        BY <4>1, <4>2
    <3> QED
      BY <2>4, <2>5, <3>1, <3>3 DEF Gentle
  <2>7. /\ t.chunks = b.chunks /\ t.jobs = b.jobs /\ t.demand = b.demand /\ t.hashQ = b.hashQ
        /\ t.reply = [w \in Worker |-> Append(b.reply[w], m)]
    BY <2>1, <2>4 DEF SendChunkToWorkers, StateType
  <2> HIDE DEF m
  <2>8. ASSUME NEW w \in Worker PROVE Building(b, w) \subseteq Building(t, w)
    <3> SUFFICES ASSUME NEW i \in 1..Len(b.reply[w]), b.reply[w][i].type = "mesh"
                 PROVE  b.reply[w][i] \in Building(t, w)
      BY DEF Building
    <3>1. b.reply[w] \in Seq(MessageType) /\ t.reply[w] = Append(b.reply[w], m)
      BY <2>4, <2>7, StateParts
    <3>2. i \in 1..Len(t.reply[w]) /\ t.reply[w][i] = b.reply[w][i]
      BY <3>1
    <3> QED
      BY <3>2 DEF Building
  <2>9. Gentle(b, t)
    BY <2>7, <2>8, AlikeGentle
  <2> QED
    BY <2>6, <2>9, GentleThen DEF t
<1> QED
  BY <1>2, <1>3, <1>4

LEMMA ReceiveGentle ==
  ASSUME NEW s, Sound(s), NEW b, NEW k \in Chunk, Leasing(s, b, k), NEW a,
         a.why = "ok" => a.view \in Views
  PROVE  Gentle(s, Receive(s, k, a))
<1> DEFINE r == HandleFetchedResolution(s, k, a.view)
<1>1. s \in StateType /\ Has(s, k)
  BY DEF Sound, Leasing
<1>2. CASE a.why # "ok"
  <2> DEFINE t == Fail(s, k, a.why)
  <2>1. Receive(s, k, a) = t
    BY <1>2 DEF Receive
  <2>2. Calmer(s, t, {}) /\ Asks(s, t)
    BY <1>1, FailCalmer, AsksFail
  <2> HIDE DEF t
  <2> QED
    BY <2>1, <2>2, CalmGentle
<1>3. CASE a.why = "ok"
  <2>1. Receive(s, k, a) = IF a.body THEN HandleFetchedChunk(r, k, a.view) ELSE r
    BY <1>3 DEF Receive
  <2>2. Calmer(s, r, {}) /\ Asks(s, r)
    BY <1>1, <1>3, ResolutionCalmer, AsksResolution
  <2> HIDE DEF r
  <2>3. Gentle(s, r) /\ Sound(r) /\ Has(r, k)
    BY <1>1, <2>2, CalmGentle, CalmerSound DEF Moves, Calmer, Kept
  <2>4. Gentle(r, HandleFetchedChunk(r, k, a.view))
    BY <2>3, FetchedGentle
  <2> QED
    BY <2>1, <2>3, <2>4, GentleThen
<1> QED
  BY <1>2, <1>3

LEMMA GentleSelf ==
  ASSUME NEW s PROVE Gentle(s, s)
BY AlikeGentle

LEMMA AnswersGentle ==
  ASSUME NEW s, Sound(s), NEW b, NEW q \in Seq(Chunk), NEW answer,
         \A k \in DOMAIN answer : answer[k].why = "ok" => answer[k].view \in Views
  PROVE  Gentle(s, ForLeased(s, b, q, answer))
<1> DEFINE n == Len(q)
           S == {t \in StateType : Sound(t) /\ Gentle(s, t)}
           turn(t, k) == IF k \in DOMAIN answer /\ Leasing(t, b, k)
                         THEN Receive(t, k, answer[k]) ELSE t
           step == [i \in 1..n |-> [t \in S |-> turn(t, q[i])]]
           A == CHOOSE f : f = [i \in 0..n |-> IF i = 0 THEN s ELSE turn(f[i - 1], q[i])]
<1>1. ForLeased(s, b, q, answer) = A[n]
  BY DEF ForLeased, InTurn
<1>2. n \in Nat /\ \A i \in 1..n : q[i] \in Chunk
  OBVIOUS
<1>3. s \in S
  BY GentleSelf DEF Sound
<1>4. ASSUME NEW k \in Chunk, NEW t \in S PROVE turn(t, k) \in S
  <2>1. CASE k \in DOMAIN answer /\ Leasing(t, b, k)
    <3> DEFINE a == answer[k]
               u == Receive(t, k, a)
    <3>1. a.why = "ok" => a.view \in Views
      BY <2>1
    <3>2. turn(t, k) = u
      BY <2>1
    <3>3. Keeps(t, u) /\ Gentle(t, u)
      BY <2>1, <3>1, ReceiveKeeps, ReceiveGentle
    <3> HIDE DEF u, turn
    <3>4. Gentle(s, u) /\ Sound(u) /\ u \in StateType
      BY <3>3, GentleThen DEF Keeps, Moves, Sound
    <3> QED
      BY <3>2, <3>4
  <2>2. CASE ~(k \in DOMAIN answer /\ Leasing(t, b, k))
    BY <2>2
  <2> QED
    BY <2>1, <2>2
<1> HIDE DEF S, turn
<1>5. step \in [1..n -> [S -> S]]
  BY <1>2, <1>4
<1>6. PICK f : Iterates(f, n, S, s, step)
  <2> HIDE DEF step, n
  <2> QED
    BY <1>2, <1>3, <1>5, Iteration
<1> HIDE DEF n
<1>7. f = [i \in 0..n |-> IF i = 0 THEN s ELSE turn(f[i - 1], q[i])]
  <2>1. ASSUME NEW i \in 1..n PROVE f[i] = turn(f[i - 1], q[i])
    <3>1. i - 1 \in 0..n
      BY <1>2
    <3>2. f[i - 1] \in S /\ f[i] = step[i][f[i - 1]]
      BY <1>6, <3>1 DEF Iterates
    <3> QED
      BY <3>2
  <2>2. \A i \in 0..n : f[i] = IF i = 0 THEN s ELSE turn(f[i - 1], q[i])
    <3>1. \A i \in 0..n : i = 0 \/ i \in 1..n
      BY <1>2
    <3>2. f[0] = s
      BY <1>6 DEF Iterates
    <3> QED
      BY <2>1, <3>1, <3>2
  <2>3. f \in [0..n -> S]
    BY <1>6 DEF Iterates
  <2> QED
    BY <2>2, <2>3
<1>8. A = [i \in 0..n |-> IF i = 0 THEN s ELSE turn(A[i - 1], q[i])]
  BY <1>7
<1> HIDE DEF A, step
<1> DEFINE T == {i \in 0..n : A[i] \in S}
<1>9. 0 \in T
  <2>1. 0 \in 0..n /\ A[0] = s
    BY <1>2, <1>8
  <2> QED
    BY <1>3, <2>1
<1>10. ASSUME NEW i \in 1..n, i - 1 \in T PROVE i \in T
  <2>1. i \in 0..n /\ i # 0 /\ A[i - 1] \in S /\ q[i] \in Chunk
    BY <1>2, <1>10
  <2>2. A[i] = turn(A[i - 1], q[i])
    BY <1>8, <2>1
  <2> QED
    BY <1>4, <2>1, <2>2
<1>11. n \in T
  <2>1. 0..n \subseteq T
    <3> HIDE DEF T
    <3> QED
      BY <1>2, <1>9, <1>10, Upward
  <2> QED
    BY <1>2, <2>1
<1> QED
  BY <1>1, <1>11 DEF S

LEMMA RefreshAsks ==
  ASSUME NEW s \in StateType, NEW k \in Chunk, view \in Views
  PROVE  Asks(s, RefreshEntry(s, k))
<1> DEFINE row == Source[view][k]
           e1 == [s.chunks[k] EXCEPT !.req = Nothing]
           s1 == Put(s, k, e1)
           e2 == [s.chunks[k] EXCEPT !.res = view]
           s2 == Put(s, k, e2)
           e3 == [e2 EXCEPT !.req = Nothing]
           s3 == Put(s, k, e3)
           a == ResetAfterSourceChange(s3, k)
           e4 == [a.chunks[k] EXCEPT !.dig = row, !.st = "hashed"]
           b == Put(a, k, e4)
           remembered == /\ refresh.entry[k] # Nothing /\ Has(s, k)
                         /\ s.chunks[k].res = refresh.entry[k].res
                         /\ s.chunks[k].req = refresh.entry[k].req
<1>1. CASE ~remembered
  BY <1>1, AsksSelf DEF RefreshEntry
<1>2. CASE remembered
  <2>1. Has(s, k) /\ s.chunks[k] \in EntryType
    BY <1>2, StateParts
  <2>2. ASSUME NEW e \in EntryType, e.st = s.chunks[k].st, NEW t, t = Put(s, k, e)
        PROVE  Asks(s, t) /\ t \in StateType /\ Has(t, k)
    <3>1. e \in OrNone(EntryType) /\ e # Nothing
      BY EntryParts DEF OrNone
    <3>2. t \in StateType /\ t.chunks[k] = e
      BY <2>2, <3>1, PutEntry
    <3> QED
      BY <2>1, <2>2, <3>1, <3>2, AsksPut DEF Has
  <2>3. CASE row = "missing"
    <3>1. RefreshEntry(s, k) = MarkUnavailable(s1, k, "absent", TRUE, TRUE)
      BY <1>2, <2>3 DEF RefreshEntry, Put
    <3>2. e1 \in EntryType /\ e1.st = s.chunks[k].st
      BY <2>1 DEF EntryType, OrNone
    <3> HIDE DEF e1
    <3>3. Asks(s, s1) /\ s1 \in StateType /\ Has(s1, k)
      BY <2>2, <3>2
    <3> HIDE DEF s1
    <3>4. Asks(s1, MarkUnavailable(s1, k, "absent", TRUE, TRUE))
      BY <3>3, AsksUnavailable, Zenon
    <3> QED
      BY <3>1, <3>3, <3>4, AsksThen
  <2>4. CASE row # "missing" /\ row = s.chunks[k].dig
    <3>1. RefreshEntry(s, k) = s2
      BY <1>2, <2>4 DEF RefreshEntry, Put
    <3>2. e2 \in EntryType /\ e2.st = s.chunks[k].st
      BY <2>1 DEF EntryType, OrNone
    <3> HIDE DEF e2
    <3> QED
      BY <2>2, <3>1, <3>2
  <2>5. CASE row # "missing" /\ row # s.chunks[k].dig
    <3>1. RefreshEntry(s, k) = EnqueueFetch(b, k)
      <4>1. [s2 EXCEPT !.chunks[k] = [@ EXCEPT !.req = Nothing]] = s3
        BY <2>1 DEF Put, StateType
      <4> QED
        BY <1>2, <2>5, <4>1 DEF RefreshEntry, Put
    <3>2. e3 \in EntryType /\ e3.st = s.chunks[k].st
      BY <2>1 DEF EntryType, OrNone
    <3> HIDE DEF e3
    <3>3. Asks(s, s3) /\ s3 \in StateType /\ Has(s3, k)
      BY <2>2, <3>2
    <3> HIDE DEF s3
    <3>4. Asks(s3, a) /\ a \in StateType /\ Has(a, k)
      BY <3>3, AsksReset
    <3> HIDE DEF a
    <3>5. a.chunks[k] \in EntryType /\ row \in Content
      BY <2>5, <3>4, StateParts, SourceType
    <3> HIDE DEF row
    <3>6. e4 \in EntryType /\ e4.st = "hashed"
      BY <3>5 DEF EntryType, OrNone
    <3> HIDE DEF e4
    <3>7. Asks(a, b) /\ b \in StateType
      <4>1. e4 \in OrNone(EntryType)
        BY <3>6 DEF OrNone
      <4> QED
        BY <3>4, <3>6, <4>1, AsksPut, PutEntry
    <3> HIDE DEF b
    <3>8. Asks(b, EnqueueFetch(b, k))
      BY <3>7, AsksEnqueue
    <3> QED
      BY <3>1, <3>3, <3>4, <3>7, <3>8, AsksThen
  <2> QED
    BY <2>3, <2>4, <2>5
<1> QED
  BY <1>1, <1>2

LEMMA CoverAsks ==
  ASSUME NEW s \in StateType, NEW k \in Chunk
  PROVE  Calmer(s, CoverEntry(s, k), {}) /\ Asks(s, CoverEntry(s, k))
BY MarkUnavailableCalmer, CalmerSelf, AsksUnavailable, AsksSelf DEF CoverEntry

LEMMA RefreshGentle ==
  ASSUME NEW s, Sound(s), view \in Views, NEW n \in Nat, NEW q \in [1..n -> Chunk]
  PROVE  Gentle(s, RefreshEntries(s, q))
<1> DEFINE S == {t \in StateType : Gentle(s, t)}
           step == [i \in 1..n |-> [t \in S |-> RefreshEntry(t, q[i])]]
           A == CHOOSE f : f = [i \in 0..n |-> IF i = 0 THEN s
                                               ELSE RefreshEntry(f[i - 1], q[i])]
<1>1. RefreshEntries(s, q) = A[n]
  <2>1. Len(q) = n
    OBVIOUS
  <2> QED
    BY <2>1 DEF RefreshEntries, InTurn
<1>2. n \in Nat /\ \A i \in 1..n : q[i] \in Chunk
  OBVIOUS
<1>3. s \in S
  BY GentleSelf DEF Sound
<1>4. ASSUME NEW k \in Chunk, NEW t \in S PROVE RefreshEntry(t, k) \in S
  <2> DEFINE u == RefreshEntry(t, k)
  <2>1. Calmer(t, u, {}) /\ Asks(t, u)
    BY RefreshCalmer, RefreshAsks
  <2> HIDE DEF u
  <2>2. Gentle(s, u) /\ u \in StateType
    BY <2>1, CalmGentle, GentleThen DEF Calmer
  <2> QED
    BY <2>2 DEF u
<1> HIDE DEF S
<1>5. step \in [1..n -> [S -> S]]
  BY <1>2, <1>4
<1>6. PICK f : Iterates(f, n, S, s, step)
  <2> HIDE DEF step
  <2> QED
    BY <1>2, <1>3, <1>5, Iteration
<1>7. f = [i \in 0..n |-> IF i = 0 THEN s ELSE RefreshEntry(f[i - 1], q[i])]
  <2>1. ASSUME NEW i \in 1..n PROVE f[i] = RefreshEntry(f[i - 1], q[i])
    <3>1. i - 1 \in 0..n
      BY <1>2
    <3>2. f[i - 1] \in S /\ f[i] = step[i][f[i - 1]]
      BY <1>6, <3>1 DEF Iterates
    <3> QED
      BY <3>2
  <2>2. \A i \in 0..n : f[i] = IF i = 0 THEN s ELSE RefreshEntry(f[i - 1], q[i])
    <3>1. \A i \in 0..n : i = 0 \/ i \in 1..n
      BY <1>2
    <3>2. f[0] = s
      BY <1>6 DEF Iterates
    <3> QED
      BY <2>1, <3>1, <3>2
  <2>3. f \in [0..n -> S]
    BY <1>6 DEF Iterates
  <2> QED
    BY <2>2, <2>3
<1>8. A = [i \in 0..n |-> IF i = 0 THEN s ELSE RefreshEntry(A[i - 1], q[i])]
  BY <1>7
<1> HIDE DEF A, step
<1> DEFINE T == {i \in 0..n : A[i] \in S}
<1>9. 0 \in T
  <2>1. 0 \in 0..n /\ A[0] = s
    BY <1>2, <1>8
  <2> QED
    BY <1>3, <2>1
<1>10. ASSUME NEW i \in 1..n, i - 1 \in T PROVE i \in T
  <2>1. i \in 0..n /\ i # 0 /\ A[i - 1] \in S /\ q[i] \in Chunk
    BY <1>2, <1>10
  <2>2. A[i] = RefreshEntry(A[i - 1], q[i])
    BY <1>8, <2>1
  <2> QED
    BY <1>4, <2>1, <2>2
<1>11. n \in T
  <2>1. 0..n \subseteq T
    <3> HIDE DEF T
    <3> QED
      BY <1>2, <1>9, <1>10, Upward
  <2> QED
    BY <1>2, <2>1
<1> QED
  BY <1>1, <1>11 DEF S

LEMMA CoverGentle ==
  ASSUME NEW s, Sound(s), view \in Views, NEW n \in Nat, NEW q \in [1..n -> Chunk]
  PROVE  Gentle(s, CoverEntries(s, q))
<1> DEFINE S == {t \in StateType : Gentle(s, t)}
           step == [i \in 1..n |-> [t \in S |-> CoverEntry(t, q[i])]]
           A == CHOOSE f : f = [i \in 0..n |-> IF i = 0 THEN s
                                               ELSE CoverEntry(f[i - 1], q[i])]
<1>1. CoverEntries(s, q) = A[n]
  <2>1. Len(q) = n
    OBVIOUS
  <2> QED
    BY <2>1 DEF CoverEntries, InTurn
<1>2. n \in Nat /\ \A i \in 1..n : q[i] \in Chunk
  OBVIOUS
<1>3. s \in S
  BY GentleSelf DEF Sound
<1>4. ASSUME NEW k \in Chunk, NEW t \in S PROVE CoverEntry(t, k) \in S
  <2> DEFINE u == CoverEntry(t, k)
  <2>1. Calmer(t, u, {}) /\ Asks(t, u)
    BY CoverAsks
  <2> HIDE DEF u
  <2>2. Gentle(s, u) /\ u \in StateType
    BY <2>1, CalmGentle, GentleThen DEF Calmer
  <2> QED
    BY <2>2 DEF u
<1> HIDE DEF S
<1>5. step \in [1..n -> [S -> S]]
  BY <1>2, <1>4
<1>6. PICK f : Iterates(f, n, S, s, step)
  <2> HIDE DEF step
  <2> QED
    BY <1>2, <1>3, <1>5, Iteration
<1>7. f = [i \in 0..n |-> IF i = 0 THEN s ELSE CoverEntry(f[i - 1], q[i])]
  <2>1. ASSUME NEW i \in 1..n PROVE f[i] = CoverEntry(f[i - 1], q[i])
    <3>1. i - 1 \in 0..n
      BY <1>2
    <3>2. f[i - 1] \in S /\ f[i] = step[i][f[i - 1]]
      BY <1>6, <3>1 DEF Iterates
    <3> QED
      BY <3>2
  <2>2. \A i \in 0..n : f[i] = IF i = 0 THEN s ELSE CoverEntry(f[i - 1], q[i])
    <3>1. \A i \in 0..n : i = 0 \/ i \in 1..n
      BY <1>2
    <3>2. f[0] = s
      BY <1>6 DEF Iterates
    <3> QED
      BY <2>1, <3>1, <3>2
  <2>3. f \in [0..n -> S]
    BY <1>6 DEF Iterates
  <2> QED
    BY <2>2, <2>3
<1>8. A = [i \in 0..n |-> IF i = 0 THEN s ELSE CoverEntry(A[i - 1], q[i])]
  BY <1>7
<1> HIDE DEF A, step
<1> DEFINE T == {i \in 0..n : A[i] \in S}
<1>9. 0 \in T
  <2>1. 0 \in 0..n /\ A[0] = s
    BY <1>2, <1>8
  <2> QED
    BY <1>3, <2>1
<1>10. ASSUME NEW i \in 1..n, i - 1 \in T PROVE i \in T
  <2>1. i \in 0..n /\ i # 0 /\ A[i - 1] \in S /\ q[i] \in Chunk
    BY <1>2, <1>10
  <2>2. A[i] = CoverEntry(A[i - 1], q[i])
    BY <1>8, <2>1
  <2> QED
    BY <1>4, <2>1, <2>2
<1>11. n \in T
  <2>1. 0..n \subseteq T
    <3> HIDE DEF T
    <3> QED
      BY <1>2, <1>9, <1>10, Upward
  <2> QED
    BY <1>2, <2>1
<1> QED
  BY <1>1, <1>11 DEF S

-----------------------------------------------------------------------------
(* Answers of workers and of the cache keep who is due.                     *)

LEMMA GentlePut ==
  ASSUME NEW s \in StateType, NEW k \in Chunk, Has(s, k), NEW e \in EntryType,
         e.st # "checking" \/ e.st = s.chunks[k].st,
         e.st = "decoding" =>
           e.mask # Worker \/ (s.chunks[k].st = "decoding" /\ e.mask = s.chunks[k].mask),
         NEW t, t = Put(s, k, e)
  PROVE  Gentle(s, t) /\ t \in StateType
<1>1. e \in OrNone(EntryType) /\ e # Nothing
  BY EntryParts DEF OrNone
<1>2. /\ t \in StateType /\ t.chunks[k] = e
      /\ \A n \in Chunk : n # k => t.chunks[n] = s.chunks[n]
      /\ t.jobs = s.jobs /\ t.reply = s.reply
  BY <1>1, PutEntry
<1>3. Asks(s, t)
  BY AsksPut
<1>4. ASSUME NEW n \in Chunk
      PROVE  /\ Has(t, n) <=> Has(s, n)
             /\ Has(t, n) /\ t.chunks[n].st = "decoding" =>
                  \/ t.chunks[n].mask # Worker
                  \/ s.chunks[n].st = "decoding" /\ t.chunks[n].mask = s.chunks[n].mask
  <2>1. CASE n = k
    BY <1>1, <1>2, <2>1 DEF Has
  <2>2. CASE n # k
    BY <1>2, <2>2 DEF Has
  <2> QED
    BY <2>1, <2>2
<1>5. \A w \in Worker : Building(s, w) \subseteq Building(t, w)
  BY <1>2 DEF Building
<1> QED
  BY <1>2, <1>3, <1>4, <1>5 DEF Gentle

(* Only the task whose end has been heard is gone. *)
LEMMA HeardManned ==
  ASSUME NEW r, Sound(r), Awake(r), NEW w \in Worker, r.reply[w] # <<>>,
         NEW s, s = Heard(r, w), NEW m, m = Head(r.reply[w]),
         NEW J, m.type = "mesh" => m.job \in J
  PROVE  Alert(s) /\ Manned(s, J)
<1>1. /\ s.chunks = r.chunks /\ s.jobs = r.jobs
      /\ r \in StateType /\ r.reply[w] \in Seq(MessageType)
  BY HeardParts, StateParts, Zenon DEF Sound
<1>2. /\ s.reply[w] = Tail(r.reply[w]) /\ s.demand = r.demand /\ s.hashQ = r.hashQ
      /\ \A v \in Worker : v # w => s.reply[v] = r.reply[v]
  BY <1>1 DEF Heard, StateType
<1>3. /\ Len(r.reply[w]) \in Nat /\ Len(s.reply[w]) = Len(r.reply[w]) - 1
      /\ \A i \in 1..Len(s.reply[w]) : s.reply[w][i] = r.reply[w][i + 1]
      /\ m = r.reply[w][1]
  <2>1. /\ Len(s.reply[w]) = Len(r.reply[w]) - 1
        /\ \A i \in 1..Len(s.reply[w]) : s.reply[w][i] = r.reply[w][i + 1]
    BY <1>1, <1>2, HeadTailProperties
  <2>2. Len(r.reply[w]) \in Nat /\ m = r.reply[w][1]
    BY <1>1, LenProperties
  <2> QED
    BY <2>1, <2>2
<1>4. ASSUME NEW v \in Worker, NEW x \in Building(r, v), ~(m.type = "mesh" /\ x = m)
      PROVE  x \in Building(s, v)
  <2>1. CASE v # w
    BY <1>2, <2>1 DEF Building
  <2>2. CASE v = w
    <3>1. PICK i \in 1..Len(r.reply[w]) : x = r.reply[w][i] /\ x.type = "mesh"
      BY <2>2 DEF Building
    <3>2. i # 1
      BY <1>3, <1>4, <3>1
    <3>3. i - 1 \in 1..Len(s.reply[w]) /\ (i - 1) + 1 = i
      BY <1>3, <3>2
    <3>4. s.reply[w][i - 1] = x
      BY <1>3, <3>1, <3>3
    <3> QED
      BY <2>2, <3>1, <3>3, <3>4 DEF Building
  <2> QED
    BY <2>1, <2>2
<1>5. ASSUME NEW j \in JobId \ J, Tasked(r, j) PROVE Tasked(s, j)
  <2>1. PICK v \in Worker : \E x \in Building(r, v) : x.job = j
    BY <1>5 DEF Tasked
  <2>2. PICK x \in Building(r, v) : x.job = j
    BY <2>1
  <2>3. x \in Building(s, v)
    BY <1>4, <2>2
  <2> QED
    BY <2>2, <2>3 DEF Tasked
<1>6. Alert(s)
  BY <1>1, <1>2 DEF Awake, Alert, Has, Wanted
<1>7. Manned(s, J)
  BY <1>1, <1>5 DEF Awake, Manned
<1> QED
  BY <1>6, <1>7

LEMMA FinishAwake ==
  ASSUME NEW s, Sound(s), NEW a, Calmer(s, a, {}), Asks(s, a), NEW j \in JobId,
         s.jobs[j] # Nothing, Unposted(s, {j}), Alert(s), Manned(s, {j}),
         NEW t \in Flushes(FinishMeshJob(a, j))
  PROVE  Awake(t)
<1> DEFINE b == FinishMeshJobs(a, {j})
<1>1. b = FinishMeshJob(a, j)
  BY DEF FinishMeshJob
<1>2. Gentle(s, a) /\ Sound(a)
  BY CalmGentle, CalmerSound DEF Moves
<1>3. a.jobs[j] # Nothing /\ Unposted(a, {j})
  BY DEF Calmer, SameJob, Unposted, EndsTask
<1>4. Ended(a, b, {j}) /\ Gentle(a, b)
  BY <1>2, <1>3, FinishEnds, FinishGentle DEF Sound
<1> HIDE DEF b
<1>5. Sound(b)
  BY <1>2, <1>3, <1>4, EndedMoves DEF Moves
<1>6. Alert(b) /\ Manned(b, {j})
  BY <1>2, <1>4, GentleAlert, GentleManned
<1>7. b.jobs[j] = Nothing
  BY <1>4 DEF Ended
<1>8. Awake(b)
  BY <1>6, <1>7 DEF Awake, Manned
<1> QED
  BY <1>1, <1>5, <1>8, FlushAwake

LEMMA ResultAwake ==
  ASSUME NEW s, Sound(s), NEW j \in JobId, s.jobs[j] # Nothing, Unposted(s, {j}),
         Alert(s), Manned(s, {j}),
         NEW from \in From, NEW t \in HandleMeshResult(s, j, from)
  PROVE  Awake(t)
<1> DEFINE job == s.jobs[j]
           next == IF ~IsCurrentMeshJob(s, j) THEN s
                   ELSE IF from[job.chunk] = Nothing
                        THEN RecoverMissingWorkerInput(s, job.chunk)
                   ELSE IF /\ s.chunks[job.chunk].st = "stored"
                           /\ ShouldAcceptMeshResult(s, j)
                        THEN ApplyMesh(s, j, [kind |-> job.kind, from |-> from])
                   ELSE s
<1>1. t \in Flushes(FinishMeshJob(next, j))
  BY DEF HandleMeshResult
<1>2. s \in StateType /\ job \in JobType /\ job.kind \in Kind
  BY StateParts, JobParts DEF Sound
<1>3. Calmer(s, s, {}) /\ Asks(s, s)
  BY <1>2, CalmerSelf, AsksSelf
<1>4. ASSUME IsCurrentMeshJob(s, j)
      PROVE  LET a == RecoverMissingWorkerInput(s, job.chunk)
                 b == ApplyMesh(s, j, [kind |-> job.kind, from |-> from])
             IN  Calmer(s, a, {}) /\ Asks(s, a) /\ Calmer(s, b, {}) /\ Asks(s, b)
  <2>1. job.chunk \in Chunk /\ Has(s, job.chunk) /\ job.chunk # Nothing
    BY <1>2, <1>4, CurrentJob, NothingAssumption
  <2>2. [kind |-> job.kind, from |-> from] \in [kind : Kind, from : From]
    BY <1>2
  <2> QED
    BY <1>2, <2>1, <2>2, RecoverCalmer, ApplyCalmer, AsksRecover, AsksApply
<1>5. Calmer(s, next, {}) /\ Asks(s, next)
  BY <1>3, <1>4
<1> HIDE DEF next
<1> QED
  BY <1>1, <1>5, FinishAwake

LEMMA MeshErrorAwake ==
  ASSUME NEW s, Sound(s), NEW j \in JobId, s.jobs[j] # Nothing, Unposted(s, {j}),
         Alert(s), Manned(s, {j}), NEW t \in HandleMeshError(s, j)
  PROVE  Awake(t)
<1> DEFINE a == IF IsCurrentMeshJob(s, j)
                THEN MarkUnavailable(s, s.jobs[j].chunk, "error", FALSE, FALSE) ELSE s
<1>1. t \in Flushes(FinishMeshJob(a, j))
  BY DEF HandleMeshError
<1>2. s \in StateType
  BY DEF Sound
<1>3. Calmer(s, a, {}) /\ Asks(s, a)
  <2>1. CASE IsCurrentMeshJob(s, j)
    <3>1. s.jobs[j].chunk \in Chunk /\ Has(s, s.jobs[j].chunk)
      BY <1>2, <2>1, CurrentJob
    <3> QED
      BY <1>2, <2>1, <3>1, MarkUnavailableCalmer, AsksUnavailable
  <2>2. CASE ~IsCurrentMeshJob(s, j)
    BY <1>2, <2>2, CalmerSelf, AsksSelf
  <2> QED
    BY <2>1, <2>2
<1> HIDE DEF a
<1> QED
  BY <1>1, <1>3, FinishAwake

LEMMA ReadyAwake ==
  ASSUME NEW r, NEW s, Steady(s), NoNewWaits(r, s), NEW w \in Worker, NEW m, DueBut(s, w, m),
         m.type = "chunk", m.chunk \in Chunk, m.dig \in Content, m.dig \notin Malformed,
         Awake(s), NEW t \in HandleChunkReady(s, w, m.chunk, m.dig)
  PROVE  Awake(t)
<1> DEFINE k == m.chunk
           d == m.dig
           e == s.chunks[k]
           e1 == [e EXCEPT !.mask = e.mask \cup {w}]
           s1 == Put(s, k, e1)
           e2 == [e1 EXCEPT !.st = "stored", !.readyDig = d]
           s2 == Put(s, k, e2)
           s3 == IF e.readyDig = d THEN s2 ELSE MarkNeighborsDirty(s2, k)
<1>1. s \in StateType
  BY DEF Steady
<1>2. CASE ~Has(s, k)
  <2>1. t = BroadcastDrop(s, k)
    BY <1>2 DEF HandleChunkReady
  <2>2. Calmer(s, t, {}) /\ Asks(s, t)
    BY <1>1, <1>2, <2>1, DropCalmer, AsksDrop
  <2> QED
    BY <2>2, CalmGentle, GentleAwake
<1>3. CASE Has(s, k) /\ (e.st \notin {"decoding", "stored"} \/ e.dig # d)
  BY <1>3 DEF HandleChunkReady
<1>4. CASE Has(s, k) /\ e.st \in {"decoding", "stored"} /\ e.dig = d
  <2>1. e \in EntryType /\ d \in OrNone(Content)
    BY <1>1, <1>4, StateParts DEF OrNone
  <2>2. s1.chunks[k] = e1 /\ [s1 EXCEPT !.chunks[k] = [@ EXCEPT !.st = "stored", !.readyDig = d]] = s2
    BY <1>1 DEF Put, StateType
  <2>3. IF e1.mask # Worker THEN t = s1 ELSE t \in Flushes(s3)
    BY <1>4, <2>2, Zenon DEF HandleChunkReady, Put
  <2>4. e1 \in EntryType /\ e1.st = e.st
    BY <2>1 DEF EntryType
  <2>5. /\ e2 \in EntryType /\ e2.pins = e.pins /\ e2.pend = e.pend /\ e2.st = "stored"
        /\ e2.dig = e.dig /\ e2.mask = e.mask \cup {w}
    BY <2>1 DEF EntryType
  <2> HIDE DEF e1, e2
  <2>6. CASE e1.mask # Worker
    <3>1. Gentle(s, s1)
      BY <1>1, <1>4, <2>4, <2>6, GentlePut
    <3> QED
      BY <2>3, <2>6, <3>1, GentleAwake
  <2>7. CASE e1.mask = Worker
    <3>1. Gentle(s, s2) /\ s2 \in StateType
      BY <1>1, <1>4, <2>5, GentlePut
    <3>2. Moves(r, s2)
      <4> HIDE DEF s2
      <4>1. s2 = Put(s, k, e2)
        BY DEF s2
      <4> QED
        BY <1>4, <2>5, <4>1, Acknowledged
    <3> HIDE DEF s2
    <3>3. Sound(s2) /\ Awake(s2)
      BY <3>1, <3>2, GentleAwake DEF Moves
    <3> DEFINE u == MarkNeighborsDirty(s2, k)
    <3>4. Calmer(s2, u, {}) /\ Asks(s2, u)
      BY <3>1, NeighborsCalmer, AsksNeighbors
    <3> HIDE DEF u
    <3>5. Sound(u) /\ Awake(u)
      BY <3>3, <3>4, CalmerSound, CalmGentle, GentleAwake DEF Moves
    <3>6. Sound(s3) /\ Awake(s3)
      BY <3>3, <3>5 DEF u
    <3> HIDE DEF s3
    <3> QED
      BY <2>3, <2>7, <3>6, FlushAwake
  <2> QED
    BY <2>6, <2>7
<1> QED
  BY <1>2, <1>3, <1>4

LEMMA RepliesAwake ==
  ASSUME Sound(rt), Awake(rt), NEW w \in Worker, WorkerReplies(w)
  PROVE  Awake(rt')
<1> DEFINE s == Heard(rt, w)
           m == Head(rt.reply[w])
<1> USE DEF Arrives, Heeds
<1>1. Arrives(s, w, m)
  BY HeardParts DEF WorkerReplies
<1>2. Heeds(s, w, m)
  BY DEF WorkerReplies, Heard
<1>3. Alert(s) /\ (m.type = "mesh" => Manned(s, {m.job})) /\ (m.type # "mesh" => Awake(s))
  BY HeardManned DEF WorkerReplies, Awake
<1> HIDE DEF s, m
<1>4. CASE m.type = "chunk"
  <2>1. CASE rt' \in HandleChunkReady(s, w, m.chunk, m.dig) /\ m.dig \notin Malformed
    BY <1>1, <1>3, <1>4, <2>1, ReadyAwake
  <2>2. CASE rt' = HandleChunkError(s, m.chunk, m.dig)
    <3>1. Calmer(s, rt', {}) /\ Asks(s, rt')
      BY <1>1, <1>4, <2>2, ErrorCalmer, AsksError DEF Steady
    <3> QED
      BY <1>3, <1>4, <3>1, CalmGentle, GentleAwake
  <2> QED
    BY <1>2, <1>4, <2>1, <2>2
<1>5. CASE m.type = "mesh"
  <2>1. Sound(s)
    BY <1>1, <1>5, Unheard DEF Moves
  <2> QED
    BY <1>1, <1>2, <1>3, <1>5, <2>1, ResultAwake, MeshErrorAwake
<1> QED
  BY <1>1, <1>4, <1>5

LEMMA MissAwake ==
  ASSUME NEW s, Sound(s), Awake(s), NEW j \in JobId, s.jobs[j] # Nothing,
         s.jobs[j].phase = "cache", NEW t, t = [s EXCEPT !.jobs[j] = [@ EXCEPT !.phase = "waiting"]]
  PROVE  Awake(t)
<1> DEFINE x == [s.jobs[j] EXCEPT !.phase = "waiting"]
<1>1. s \in StateType /\ s.jobs[j] \in JobType
  BY StateParts DEF Sound
<1>2. x.phase = "waiting" /\ x.worker = s.jobs[j].worker
  BY <1>1 DEF JobType
<1>3. t = [s EXCEPT !.jobs[j] = x]
  OBVIOUS
<1> HIDE DEF x
<1>4. /\ t.chunks = s.chunks /\ t.reply = s.reply /\ t.demand = s.demand /\ t.hashQ = s.hashQ
      /\ t.jobs = [s.jobs EXCEPT ![j] = x]
  BY <1>1, <1>3 DEF StateType
<1>5. t.jobs[j] = x /\ \A i \in JobId : i # j => t.jobs[i] = s.jobs[i]
  BY <1>1, <1>4 DEF StateType
<1>6. Gentle(s, t)
  <2>1. Asks(s, t)
    BY <1>4, AsksQueues
  <2>2. \A w \in Worker : Building(s, w) \subseteq Building(t, w)
    BY <1>4 DEF Building
  <2>3. ASSUME NEW i \in JobId, t.jobs[i] # Nothing
        PROVE  /\ s.jobs[i] # Nothing /\ t.jobs[i].worker = s.jobs[i].worker
               /\ t.jobs[i].phase = "worker" <=> s.jobs[i].phase = "worker"
    BY <1>2, <1>5, <2>3
  <2> QED
    BY <1>4, <2>1, <2>2, <2>3 DEF Gentle, Has
<1> QED
  BY <1>6, GentleAwake

LEMMA LookupAwake ==
  ASSUME Sound(rt), Awake(rt), NEW j \in JobId, CacheLookupEnds(j)
  PROVE  Awake(rt')
<1> DEFINE job == rt.jobs[j]
           mesh == MeshOfParts(job.kind, job.parts)
           hit == ApplyMesh(rt, j, mesh)
           missed == [rt EXCEPT !.jobs[j] = [@ EXCEPT !.phase = "waiting"]]
<1> USE DEF Looks
<1>1. job # Nothing /\ job.phase = "cache" /\ Looks(j, hit, missed)
  BY DEF CacheLookupEnds
<1>2. rt \in StateType /\ job \in JobType /\ job.kind \in Kind /\ job.parts \in OrNone(AllParts)
  BY <1>1, StateParts, JobParts DEF Sound
<1>3. Unposted(rt, {j}) /\ Alert(rt) /\ Manned(rt, {j})
  BY <1>1, NotWithWorker DEF Sound, Awake, Manned
<1>4. Calmer(rt, rt, {}) /\ Asks(rt, rt)
  BY <1>2, CalmerSelf, AsksSelf
<1>5. Sound(missed) /\ Awake(missed)
  BY <1>1, MissMoves, MissAwake DEF Moves
<1>6. ASSUME IsCurrentMeshJob(rt, j), job.parts # Nothing
      PROVE  Calmer(rt, hit, {}) /\ Asks(rt, hit)
  <2>1. job.chunk \in Chunk /\ Has(rt, job.chunk) /\ job.chunk # Nothing
    BY <1>1, <1>2, <1>6, CurrentJob, NothingAssumption
  <2>2. mesh \in [kind : Kind, from : From]
    BY <1>2, <1>6, CachedType DEF OrNone
  <2> HIDE DEF mesh
  <2> QED
    BY <1>1, <1>2, <2>1, <2>2, ApplyCalmer, AsksApply
<1> HIDE DEF missed, hit
<1>7. CASE rt' \in Flushes(missed)
  BY <1>5, <1>7, FlushAwake
<1>8. CASE rt' \in Flushes(FinishMeshJob(rt, j))
  BY <1>1, <1>3, <1>4, <1>8, FinishAwake
<1>9. CASE IsCurrentMeshJob(rt, j) /\ job.parts # Nothing /\ rt' \in Flushes(FinishMeshJob(hit, j))
  BY <1>1, <1>3, <1>6, <1>9, FinishAwake
<1>10. CASE rt' \in HandleMeshError(rt, j)
  BY <1>1, <1>3, <1>10, MeshErrorAwake
<1> QED
  BY <1>1, <1>7, <1>8, <1>9, <1>10

-----------------------------------------------------------------------------
(* The planner's tick keeps who is due.                                     *)

(* Jobs and tasks stay as they are. *)
LEMMA SameManned ==
  ASSUME NEW s, NEW t, t.jobs = s.jobs, t.reply = s.reply, NEW J, Manned(s, J)
  PROVE  Manned(t, J)
BY DEF Manned, Tasked, Building

LEMMA WantAwake ==
  ASSUME Sound(rt), Awake(rt), NEW k \in Chunk, NEW kind \in Kind, WantChunk(k, kind)
  PROVE  Awake(rt')
<1>1. PICK s : /\ Keeps(rt, s) /\ rt' \in Flushes(s)
               /\ s.jobs = rt.jobs /\ s.reply = rt.reply /\ Has(s, k)
               /\ s.chunks[k] = IF Has(rt, k) THEN rt.chunks[k] ELSE NewEntry
               /\ \A n \in Chunk : n # k =>
                    s.chunks[n] = rt.chunks[n] /\ s.demand[n] = rt.demand[n]
               /\ rt.hashQ \subseteq s.hashQ
               /\ s.chunks[k].st = "checking" => k \in s.hashQ
  BY WantPlans
<1>2. ASSUME NEW n \in Chunk
      PROVE  /\ Wanted(s, n) => Has(s, n) /\ (s.chunks[n].st = "checking" => n \in s.hashQ)
             /\ Has(s, n) /\ s.chunks[n].st = "decoding" => s.chunks[n].mask # Worker
  <2>1. /\ Wanted(rt, n) => Has(rt, n) /\ (rt.chunks[n].st = "checking" => n \in rt.hashQ)
        /\ Has(rt, n) /\ rt.chunks[n].st = "decoding" => rt.chunks[n].mask # Worker
    BY DEF Awake, Alert
  <2>2. CASE n = k
    <3>1. NewEntry.st = "checking"
      BY DEF NewEntry
    <3> QED
      BY <1>1, <2>1, <2>2, <3>1
  <2>3. CASE n # k
    BY <1>1, <2>1, <2>3 DEF Has, Wanted
  <2> QED
    BY <2>2, <2>3
<1>3. Awake(s)
  BY <1>1, <1>2, SameManned DEF Awake, Alert
<1> QED
  BY <1>1, <1>3, FlushAwake DEF Keeps, Moves

LEMMA AgesAwake ==
  ASSUME Sound(rt), Awake(rt), NEW k \in Chunk, DemandAges(k)
  PROVE  Awake(rt')
<1> DEFINE D == [rt.demand EXCEPT ![k] = "stale"]
           u == rt'
<1>1. rt \in StateType /\ rt.demand \in [Chunk -> Kind \cup {"none", "stale"}]
  BY StateParts DEF Sound
<1>2. D[k] = "stale" /\ \A n \in Chunk : n # k => D[n] = rt.demand[n]
  BY <1>1
<1>3. \/ u = [rt EXCEPT !.demand = D]
      \/ u = [rt EXCEPT !.demand = D, !.hashQ = rt.hashQ \ {k}, !.fetchQ = rt.fetchQ \ {k}]
  BY <1>1 DEF DemandAges, StateType
<1> HIDE DEF D, u
<1>4. /\ u.chunks = rt.chunks /\ u.jobs = rt.jobs /\ u.reply = rt.reply /\ u.demand = D
      /\ rt.hashQ \ {k} \subseteq u.hashQ
  BY <1>1, <1>3 DEF StateType
<1>5. ASSUME NEW n \in Chunk
      PROVE  /\ Wanted(u, n) => Has(u, n) /\ (u.chunks[n].st = "checking" => n \in u.hashQ)
             /\ Has(u, n) /\ u.chunks[n].st = "decoding" => u.chunks[n].mask # Worker
  <2>1. /\ Wanted(rt, n) => Has(rt, n) /\ (rt.chunks[n].st = "checking" => n \in rt.hashQ)
        /\ Has(rt, n) /\ rt.chunks[n].st = "decoding" => rt.chunks[n].mask # Worker
    BY DEF Awake, Alert
  <2>2. Wanted(u, n) => n # k /\ Wanted(rt, n)
    BY <1>2, <1>4, PoolAssumption DEF Wanted
  <2> QED
    BY <1>4, <2>1, <2>2 DEF Has
<1>6. Awake(u)
  BY <1>4, <1>5, SameManned DEF Awake, Alert
<1> QED
  BY <1>6 DEF u

(* Nobody wants an entry that is dropped. *)
LEMMA EvictAwake ==
  ASSUME Sound(rt), Awake(rt), NEW k \in Chunk, EvictChunk(k)
  PROVE  Awake(rt')
<1> DEFINE s == rt
           s1 == IF s.chunks[k].st \in {"stored", "decoding"} THEN BroadcastDrop(s, k) ELSE s
           J == {j \in JobsOf(s) : s.jobs[j].chunk = k}
           t == DropEntry(s, k)
<1>1. /\ s \in StateType /\ Has(s, k) /\ ChunkWorkIdle(s, k) /\ rt' \in Flushes(t)
      /\ s.demand \in [Chunk -> Kind \cup {"none", "stale"}]
  BY StateParts DEF Sound, EvictChunk
<1>2. Sound(t)
  BY <1>1, DropMoves DEF Moves
<1>3. /\ s1 \in StateType /\ s1.chunks = s.chunks /\ s1.jobs = s.jobs /\ s1.reply = s.reply
      /\ s1.demand = s.demand /\ s1.hashQ = s.hashQ
  <2>1. LET b == BroadcastDrop(s, k)
        IN  /\ b.reply = s.reply /\ b.demand = s.demand /\ b.hashQ = s.hashQ
    BY <1>1 DEF BroadcastDrop, StateType
  <2> QED
    BY <1>1, <2>1, DropQuiet
<1> HIDE DEF s1
<1>4. /\ t.chunks = [s.chunks EXCEPT ![k] = Nothing]
      /\ t.jobs = [j \in JobId |-> IF j \in J THEN [s.jobs[j] EXCEPT !.chunk = Nothing]
                                   ELSE s.jobs[j]]
      /\ t.reply = s.reply /\ t.demand = [s.demand EXCEPT ![k] = "none"]
      /\ t.hashQ = s.hashQ \ {k}
  <2>1. t = [EachJob(s1, J, LAMBDA job : [job EXCEPT !.chunk = Nothing])
               EXCEPT !.chunks[k] = Nothing, !.demand[k] = "none",
                      !.hashQ = @ \ {k}, !.fetchQ = @ \ {k}]
    BY DEF DropEntry, s1
  <2> HIDE DEF t, J, s
  <2> QED
    BY <1>3, <2>1 DEF EachJob, StateType
<1> HIDE DEF t
<1>5. /\ t.chunks[k] = Nothing /\ t.demand[k] = "none"
      /\ \A n \in Chunk : n # k => t.chunks[n] = s.chunks[n] /\ t.demand[n] = s.demand[n]
  <2>1. s.chunks \in [Chunk -> OrNone(EntryType)]
    BY <1>1, StateParts
  <2> HIDE DEF s
  <2> QED
    BY <1>1, <1>4, <2>1
<1>6. ASSUME NEW n \in Chunk
      PROVE  /\ Wanted(t, n) => Has(t, n) /\ (t.chunks[n].st = "checking" => n \in t.hashQ)
             /\ Has(t, n) /\ t.chunks[n].st = "decoding" => t.chunks[n].mask # Worker
  <2>1. /\ Wanted(s, n) => Has(s, n) /\ (s.chunks[n].st = "checking" => n \in s.hashQ)
        /\ Has(s, n) /\ s.chunks[n].st = "decoding" => s.chunks[n].mask # Worker
    BY DEF Awake, Alert
  <2>2. CASE n = k
    BY <1>5, <2>2, PoolAssumption DEF Has, Wanted
  <2>3. CASE n # k
    BY <1>4, <1>5, <2>1, <2>3 DEF Has, Wanted
  <2> QED
    BY <2>2, <2>3
<1>7. ASSUME NEW j \in JobId, t.jobs[j] # Nothing
      PROVE  /\ s.jobs[j] # Nothing /\ t.jobs[j].phase = s.jobs[j].phase
             /\ t.jobs[j].worker = s.jobs[j].worker
  <2>1. CASE j \in J
    <3>1. s.jobs[j] # Nothing /\ s.jobs[j] \in JobType
      BY <1>1, <2>1, StateParts DEF JobsOf
    <3> DEFINE x == [s.jobs[j] EXCEPT !.chunk = Nothing]
    <3>2. x.phase = s.jobs[j].phase /\ x.worker = s.jobs[j].worker
      BY <3>1 DEF JobType
    <3>3. t.jobs[j] = x
      BY <1>4, <2>1
    <3> HIDE DEF x
    <3> QED
      BY <3>1, <3>2, <3>3
  <2>2. CASE j \notin J
    BY <1>4, <1>7, <2>2
  <2> QED
    BY <2>1, <2>2
<1>8. Manned(t, {})
  BY <1>4, <1>7 DEF Awake, Manned, Tasked, Building
<1>9. Awake(t)
  BY <1>6, <1>8 DEF Awake, Alert
<1> QED
  BY <1>1, <1>2, <1>9, FlushAwake

LEMMA ReleaseDataAwake ==
  ASSUME Sound(rt), Awake(rt), NEW k \in Chunk, ReleaseWorkerData(k)
  PROVE  Awake(rt')
<1> DEFINE s1 == BroadcastDrop(rt, k)
           e == [s1.chunks[k] EXCEPT !.st = "hashed", !.mask = {}]
           t == [s1 EXCEPT !.chunks[k] = [@ EXCEPT !.st = "hashed", !.mask = {}]]
<1>1. /\ rt \in StateType /\ Has(rt, k) /\ rt' \in Flushes(t)
  BY DEF Sound, ReleaseWorkerData
<1>2. /\ Calmer(rt, s1, {k}) /\ s1.chunks = rt.chunks /\ Asks(rt, s1) /\ s1 \in StateType
  BY <1>1, DropCalmer, AsksDrop
<1>3. Has(s1, k) /\ s1.chunks[k] \in EntryType
  BY <1>1, <1>2, StateParts DEF Has
<1> HIDE DEF s1
<1>4. t = Put(s1, k, e)
  BY DEF Put
<1>5. e \in EntryType /\ e.st = "hashed"
  BY <1>3 DEF EntryType
<1> HIDE DEF t
<1>6. Calmer(s1, t, {}) /\ Asks(s1, t)
  BY <1>2, <1>3, <1>4, HashedCalmer, AsksHashed, Zenon
<1> HIDE DEF e
<1>7. t.chunks[k].st = "hashed"
  BY <1>2, <1>4, <1>5, PutEntry DEF OrNone
<1>8. Calmer(rt, t, {k}) /\ Asks(rt, t)
  BY <1>2, <1>6, CalmerAll, CalmerThen, AsksThen
<1>9. Calmer(rt, t, {})
  BY <1>7, <1>8, Settled
<1>10. Sound(t) /\ Awake(t)
  BY <1>8, <1>9, CalmerSound, CalmGentle, GentleAwake DEF Moves
<1> QED
  BY <1>1, <1>10, FlushAwake

LEMMA ReleaseMeshAwake ==
  ASSUME Sound(rt), Awake(rt), NEW k \in Chunk, ReleaseMesh(k)
  PROVE  Awake(rt')
<1>1. Has(rt, k) /\ rt' \in Flushes(RemoveDisplayedMesh(rt, k))
  BY DEF ReleaseMesh
<1> DEFINE t == RemoveDisplayedMesh(rt, k)
<1>2. Calmer(rt, t, {}) /\ Asks(rt, t)
  BY <1>1, RemoveCalmer, AsksRemove DEF Sound
<1>3. rt' \in Flushes(t)
  BY <1>1
<1> HIDE DEF t
<1> QED
  BY <1>2, <1>3, CalmerSound, CalmGentle, GentleAwake, FlushAwake DEF Moves

LEMMA RestartAwake ==
  ASSUME Sound(rt), Awake(rt), WorkersRestart
  PROVE  Awake(rt')
<1> DEFINE t == [rt EXCEPT !.up = TRUE]
<1>1. rt \in StateType /\ rt' \in Flushes(t)
  BY DEF Sound, WorkersRestart
<1>2. /\ t \in StateType /\ t.chunks = rt.chunks /\ t.jobs = rt.jobs
      /\ t.column = rt.column /\ t.reply = rt.reply
      /\ t.demand = rt.demand /\ t.hashQ = rt.hashQ
  BY <1>1 DEF StateType
<1> HIDE DEF t
<1>3. Calmer(rt, t, {}) /\ Asks(rt, t)
  BY <1>1, <1>2, QueuesCalmer, AsksQueues
<1> QED
  BY <1>1, <1>3, CalmerSound, CalmGentle, GentleAwake, FlushAwake DEF Moves

(* The jobs go with the workers. *)
LEMMA RecoverAwake ==
  ASSUME NEW s, Sound(s), Awake(s)
  PROVE  Awake(RecoverWorkers(s))
<1> DEFINE A == {k \in Chunk : Has(s, k) /\ \E j \in JobsOf(s) : s.jobs[j].chunk = k}
           s1 == FinishMeshJobs(s, JobsOf(s))
           F(e) == [e EXCEPT !.st = IF e.st \in {"stored", "decoding"} THEN "hashed" ELSE e.st,
                             !.mask = {}]
           G(e) == [e EXCEPT !.dirty = TRUE]
           K == {k \in Chunk : Has(s1, k)}
           s2 == EachEntry(s1, K, F)
           t == RecoverWorkers(s)
<1>1. s \in StateType /\ JobsOf(s) \in SUBSET JobId /\ \A j \in JobsOf(s) : s.jobs[j] # Nothing
  BY DEF Sound, JobsOf
<1>2. Ended(s, s1, JobsOf(s)) /\ Gentle(s, s1)
  BY <1>1, FinishEnds, FinishGentle DEF Sound
<1>3. s1 \in StateType
  BY <1>2 DEF Ended
<1>4. A \subseteq Chunk /\ \A k \in A : Has(s, k)
  OBVIOUS
<1> HIDE DEF A
<1>5. /\ t.chunks = [k \in Chunk |-> IF k \in A THEN G(s2.chunks[k]) ELSE s2.chunks[k]]
      /\ t.jobs = s1.jobs /\ t.demand = s1.demand /\ t.hashQ = s1.hashQ
      /\ s2.chunks = [k \in Chunk |-> IF k \in K THEN F(s1.chunks[k]) ELSE s1.chunks[k]]
  <2> HIDE DEF s1
  <2>1. t = [EachEntry(s2, A, G) EXCEPT
               !.fetchQ = s1.fetchQ \cup {k \in A : s1.demand[k] # "none"},
               !.up = FALSE,
               !.column = [w \in Worker |-> [k \in Chunk |-> Nothing]],
               !.reply = [w \in Worker |-> <<>>]]
    BY DEF RecoverWorkers, s1, A
  <2> HIDE DEF t
  <2> QED
    BY <1>3, <2>1 DEF EachEntry, StateType
<1> HIDE DEF t, s2, s1
<1>6. Sound(t)
  BY RecoverMoves DEF Moves, t
<1>7. ASSUME NEW k \in Chunk, Has(s1, k)
      PROVE  /\ Has(t, k) /\ t.chunks[k].st # "decoding"
             /\ t.chunks[k].st = "checking" => s1.chunks[k].st = "checking"
  <2> DEFINE a == s1.chunks[k]
             b == s2.chunks[k]
             st == IF a.st \in {"stored", "decoding"} THEN "hashed" ELSE a.st
  <2>1. a \in EntryType
    BY <1>3, <1>7, StateParts
  <2>2. b = [a EXCEPT !.st = st, !.mask = {}]
    BY <1>5, <1>7, Zenon
  <2>3. /\ st \in {"checking", "resolving", "hashed", "fetching", "absent", "error"}
        /\ st = "checking" => a.st = "checking"
    BY <2>1 DEF EntryType
  <2> HIDE DEF st, a
  <2>4. b \in EntryType /\ b.st = st
    BY <2>1, <2>2, <2>3, Zenon DEF EntryType
  <2>5. t.chunks[k] = b \/ t.chunks[k] = [b EXCEPT !.dirty = TRUE]
    BY <1>5, Zenon
  <2> HIDE DEF b
  <2>6. t.chunks[k] \in EntryType /\ t.chunks[k].st = st
    BY <2>4, <2>5 DEF EntryType
  <2> QED
    BY <2>3, <2>6, EntryParts DEF Has, a
<1>8. ASSUME NEW k \in Chunk
      PROVE  /\ Wanted(t, k) => Has(t, k) /\ (t.chunks[k].st = "checking" => k \in t.hashQ)
             /\ Has(t, k) /\ t.chunks[k].st = "decoding" => t.chunks[k].mask # Worker
  <2>1. Alert(s1)
    BY <1>2, GentleAlert DEF Awake
  <2>2. Wanted(s1, k) => Has(s1, k) /\ (s1.chunks[k].st = "checking" => k \in s1.hashQ)
    BY <2>1 DEF Alert
  <2>3. Wanted(t, k) => Wanted(s1, k)
    BY <1>5, Zenon DEF Wanted
  <2>4. t.hashQ = s1.hashQ
    BY <1>5, Zenon
  <2>5. ~Has(s1, k) => ~Has(t, k)
    <3> SUFFICES ASSUME ~Has(s1, k) PROVE ~Has(t, k)
      OBVIOUS
    <3>1. ~Has(s, k) /\ s1.chunks[k] = Nothing
      BY <1>2 DEF Ended, SameData, Has
    <3>2. k \notin A /\ k \notin K
      BY <1>4, <3>1
    <3>3. s2.chunks[k] = s1.chunks[k]
      BY <1>5, <3>2
    <3>4. t.chunks[k] = s2.chunks[k]
      BY <1>5, <3>2, Zenon
    <3> QED
      BY <3>1, <3>3, <3>4 DEF Has
  <2> QED
    BY <1>7, <2>2, <2>3, <2>4, <2>5
<1>9. \A j \in JobId : t.jobs[j] = Nothing
  BY <1>2, <1>5, Zenon DEF Ended, JobsOf
<1>10. Manned(t, {})
  BY <1>9 DEF Manned
<1>11. Alert(t)
  BY <1>8 DEF Alert
<1> QED
  BY <1>10, <1>11 DEF Awake, t

(* Callbacks that change the runtime alone. *)
LEMMA CallbackAwake ==
  ASSUME Sound(rt), Awake(rt), Calls
  PROVE  Awake(rt')
<1>1. ASSUME NEW k \in Chunk, StartMesh(k) PROVE Awake(rt')
  BY <1>1, StartAwake DEF StartMesh
<1>2. ASSUME Flush PROVE Awake(rt')
  BY <1>2, StartAwake DEF Flush
<1>3. ASSUME WorkersFail PROVE Awake(rt')
  BY <1>3, RecoverAwake DEF WorkersFail
<1>4. ASSUME NEW k \in Chunk, NEW kind \in Kind, WantChunk(k, kind) PROVE Awake(rt')
  BY <1>4, WantAwake
<1>5. ASSUME NEW k \in Chunk, DemandAges(k) \/ EvictChunk(k) PROVE Awake(rt')
  BY <1>5, AgesAwake, EvictAwake
<1>6. ASSUME NEW k \in Chunk, ReleaseWorkerData(k) \/ ReleaseMesh(k) PROVE Awake(rt')
  BY <1>6, ReleaseDataAwake, ReleaseMeshAwake
<1>7. ASSUME NEW j \in JobId, CacheLookupEnds(j) PROVE Awake(rt')
  BY <1>7, LookupAwake
<1>8. ASSUME NEW w \in Worker, WorkerReplies(w) PROVE Awake(rt')
  BY <1>8, RepliesAwake
<1> QED
  BY <1>1, <1>2, <1>3, <1>4, <1>5, <1>6, <1>7, <1>8, RestartAwake DEF Calls
-----------------------------------------------------------------------------
(* Requests keep who is due.                                                *)

(* Who is leased is not queued any more, and need not be. *)
LEMMA LeaseAwake ==
  ASSUME Sound(rt), Awake(rt), NEW b \in BatchId, NEW q \in Seq(Chunk),
         \A k \in Range(q) : Has(rt, k), NEW hash \in BOOLEAN,
         rt' = Lease(TakeIo(rt, q, hash), b, q, IF hash THEN "resolving" ELSE "fetching")
  PROVE  Awake(rt')
<1> DEFINE a == TakeIo(rt, q, hash)
           st == IF hash THEN "resolving" ELSE "fetching"
           H == {k \in rt.hashQ \ Range(q) : Has(rt, k) /\ rt.chunks[k].st = "checking"}
           t == rt'
<1>1. rt \in StateType /\ st \in {"resolving", "fetching"}
  BY DEF Sound
<1>2. /\ a.jobs = rt.jobs /\ a.reply = rt.reply /\ a.demand = rt.demand
      /\ H \subseteq a.hashQ
  BY <1>1 DEF TakeIo, StateType
<1>3. Calmer(rt, a, {}) /\ a.chunks = rt.chunks
  BY <1>1, TakeCalmer
<1>4. t = Lease(a, b, q, st)
  OBVIOUS
<1> HIDE DEF a, t, st
<1>5. Sound(a) /\ a \in StateType /\ \A k \in Range(q) : Has(a, k)
  BY <1>3, CalmerSound DEF Moves, Has, Sound
<1>6. /\ \A k \in Chunk : k \in Range(q) => t.chunks[k].st = st
      /\ \A k \in Chunk : k \notin Range(q) => t.chunks[k] = a.chunks[k]
      /\ Sound(t)
  BY <1>1, <1>4, <1>5, LeaseSound
<1>7. /\ t.jobs = a.jobs /\ t.reply = a.reply /\ t.demand = a.demand /\ t.hashQ = a.hashQ
  BY <1>4, <1>5 DEF Lease, EachEntry, StateType
<1>8. ASSUME NEW k \in Chunk
      PROVE  /\ Wanted(t, k) => Has(t, k) /\ (t.chunks[k].st = "checking" => k \in t.hashQ)
             /\ Has(t, k) /\ t.chunks[k].st = "decoding" => t.chunks[k].mask # Worker
  <2>1. /\ Wanted(rt, k) => Has(rt, k) /\ (rt.chunks[k].st = "checking" => k \in rt.hashQ)
        /\ Has(rt, k) /\ rt.chunks[k].st = "decoding" => rt.chunks[k].mask # Worker
    BY DEF Awake, Alert
  <2>2. Wanted(t, k) <=> Wanted(rt, k)
    BY <1>2, <1>7 DEF Wanted
  <2>3. CASE k \in Range(q)
    <3>1. t.chunks[k].st \notin {"checking", "decoding"}
      BY <1>1, <1>6, <2>3
    <3>2. Has(t, k)
      <4>1. Calmer(rt, a, {}) /\ Has(a, k)
        BY <1>3, <1>5, <2>3
      <4>2. t.chunks = [n \in Chunk |-> IF n \in Range(q) THEN [a.chunks[n] EXCEPT !.req = b, !.st = st]
                                        ELSE a.chunks[n]]
        BY <1>4, <1>5 DEF Lease, EachEntry, StateType
      <4> DEFINE e == a.chunks[k]
                 f == [e EXCEPT !.req = b, !.st = st]
      <4>3. t.chunks[k] = f /\ e \in EntryType
        BY <1>5, <2>3, <4>1, <4>2, StateParts
      <4> HIDE DEF e
      <4>4. f \in EntryType
        BY <1>1, <4>3 DEF EntryType, OrNone
      <4> QED
        BY <4>3, <4>4, EntryParts DEF Has
    <3> QED
      BY <3>1, <3>2
  <2>4. CASE k \notin Range(q)
    <3>1. t.chunks[k] = rt.chunks[k]
      BY <1>3, <1>6, <2>4
    <3>2. k \in H => k \in t.hashQ
      BY <1>2, <1>7
    <3> QED
      BY <2>1, <2>2, <2>4, <3>1, <3>2 DEF Has
  <2> QED
    BY <2>3, <2>4
<1>9. Manned(t, {})
  BY <1>2, <1>7, SameManned DEF Awake
<1> QED
  BY <1>8, <1>9 DEF Awake, Alert, t

LEMMA HashBatchAwake ==
  ASSUME Sound(rt), Awake(rt), NEW b \in BatchId, NEW q, FetchHashBatch(b, q)
  PROVE  Awake(rt')
<1> DEFINE K == {k \in rt.hashQ : Has(rt, k) /\ rt.chunks[k].st = "checking"}
<1>1. q \in Orders(K) /\ rt' = Lease(TakeIo(rt, q, TRUE), b, q, "resolving")
  BY DEF FetchHashBatch
<1>2. K \in SUBSET Chunk /\ \A k \in K : Has(rt, k)
  BY StateParts DEF Sound
<1> HIDE DEF K
<1>3. q \in Seq(Chunk) /\ \A k \in Range(q) : Has(rt, k)
  BY <1>1, <1>2, OrderParts
<1>4. rt' = Lease(TakeIo(rt, q, TRUE), b, q, IF TRUE THEN "resolving" ELSE "fetching")
  BY <1>1
<1> QED
  BY <1>3, <1>4, LeaseAwake

LEMMA FetchBatchAwake ==
  ASSUME Sound(rt), Awake(rt), NEW b \in BatchId, NEW q, FetchBatch(b, q)
  PROVE  Awake(rt')
<1> DEFINE K == {k \in rt.fetchQ : Has(rt, k) /\ rt.chunks[k].st = "hashed"}
<1>1. q \in Orders(K) /\ rt' = Lease(TakeIo(rt, q, FALSE), b, q, "fetching")
  BY DEF FetchBatch
<1>2. K \in SUBSET Chunk /\ \A k \in K : Has(rt, k)
  BY StateParts DEF Sound
<1> HIDE DEF K
<1>3. q \in Seq(Chunk) /\ \A k \in Range(q) : Has(rt, k)
  BY <1>1, <1>2, OrderParts
<1>4. rt' = Lease(TakeIo(rt, q, FALSE), b, q, IF FALSE THEN "resolving" ELSE "fetching")
  BY <1>1
<1> QED
  BY <1>3, <1>4, LeaseAwake

LEMMA ReleaseGentle ==
  ASSUME NEW s \in StateType, NEW b
  PROVE  Gentle(s, Release(s, b))
<1> DEFINE X == {k \in Chunk : Has(s, k) /\ s.chunks[k].req = b}
           F(e) == [e EXCEPT !.req = Nothing]
           t == Release(s, b)
<1>1. /\ t.chunks = [k \in Chunk |-> IF k \in X THEN F(s.chunks[k]) ELSE s.chunks[k]]
      /\ t.jobs = s.jobs /\ t.reply = s.reply /\ t.demand = s.demand /\ t.hashQ = s.hashQ
  BY DEF Release, EachEntry, StateType
<1> HIDE DEF t
<1>2. ASSUME NEW k \in Chunk
      PROVE  /\ Has(t, k) <=> Has(s, k)
             /\ Has(s, k) => /\ t.chunks[k].st = s.chunks[k].st
                             /\ t.chunks[k].mask = s.chunks[k].mask
  <2>1. CASE k \in X
    <3> DEFINE e == s.chunks[k]
               f == [e EXCEPT !.req = Nothing]
    <3>1. e \in EntryType /\ Has(s, k) /\ t.chunks[k] = f
      BY <1>1, <2>1, StateParts
    <3> HIDE DEF e
    <3>2. f \in EntryType /\ f.st = e.st /\ f.mask = e.mask
      BY <3>1 DEF EntryType, OrNone
    <3> HIDE DEF f
    <3>3. Has(t, k)
      BY <3>1, <3>2, EntryParts DEF Has
    <3> QED
      BY <3>1, <3>2, <3>3 DEF e
  <2>2. CASE k \notin X
    BY <1>1, <2>2 DEF Has
  <2> QED
    BY <2>1, <2>2
<1>3. Asks(s, t)
  BY <1>1, <1>2 DEF Asks
<1>4. \A w \in Worker : Building(s, w) \subseteq Building(t, w)
  BY <1>1 DEF Building
<1>5. Gentle(s, t)
  BY <1>1, <1>2, <1>3, <1>4 DEF Gentle
<1> QED
  BY <1>5 DEF t

(* What a batch answers is handled, and its leases end. *)
LEMMA AnswersAwake ==
  ASSUME NEW s, Sound(s), Awake(s), NEW b, NEW q \in Seq(Chunk), NEW answer,
         \A k \in DOMAIN answer : answer[k].why = "ok" => answer[k].view \in Views
  PROVE  /\ Awake(ForLeased(s, b, q, answer))
         /\ Awake(Release(ForLeased(s, b, q, answer), b))
<1> DEFINE t == ForLeased(s, b, q, answer)
<1>1. Gentle(s, t)
  BY AnswersGentle
<1>2. Sound(t) /\ t \in StateType
  BY AnswersKeep DEF Keeps, Moves, Sound
<1> HIDE DEF t
<1>3. Awake(t) /\ Awake(Release(t, b))
  BY <1>1, <1>2, ReleaseGentle, GentleAwake
<1> QED
  BY <1>3 DEF t

LEMMA HashReplyAwake ==
  ASSUME Sound(rt), Awake(rt), BatchesTyped(batch), NEW b \in BatchId, HashReply(b)
  PROVE  Awake(rt')
<1> DEFINE q == batch[b].keys
<1>1. PICK why \in Ends(batch[b].view) :
        FinishBatch(b, ForLeased(rt, b, q,
          [k \in Range(q) |-> [why |-> why, view |-> batch[b].view, body |-> FALSE]]))
  BY DEF HashReply
<1> DEFINE answer == [k \in Range(q) |-> [why |-> why, view |-> batch[b].view, body |-> FALSE]]
<1>2. q \in Seq(Chunk) /\ batch[b].view \in Views
  BY BatchParts DEF HashReply
<1>3. \A k \in DOMAIN answer : answer[k].why = "ok" => answer[k].view \in Views
  BY <1>2
<1>4. rt' = Release(ForLeased(rt, b, q, answer), b)
  BY <1>1 DEF FinishBatch
<1> HIDE DEF answer, q
<1> QED
  BY <1>2, <1>3, <1>4, AnswersAwake

LEMMA FetchResolvedAwake ==
  ASSUME Sound(rt), Awake(rt), BatchesTyped(batch), NEW b \in BatchId, FetchResolved(b)
  PROVE  Awake(rt')
<1> DEFINE q == batch[b].keys
           askd(why) == {k \in Range(q) : why = "ok" => batch[b].row[k] = Nothing}
           ans(why) == [k \in askd(why) |-> [why |-> why, view |-> batch[b].view, body |-> FALSE]]
           post(why) == ForLeased(rt, b, q, ans(why))
<1>1. InFlight(b) /\ Phase(b) = "resolve"
  BY DEF FetchResolved
<1>2. PICK why \in Ends(batch[b].view) : FinishBatch(b, post(why)) \/ rt' = post(why)
  BY Zenon DEF FetchResolved
<1> DEFINE answer == ans(why)
<1>3. q \in Seq(Chunk) /\ batch[b].view \in Views
  BY <1>1, BatchParts
<1>4. \A k \in DOMAIN answer : answer[k].why = "ok" => answer[k].view \in Views
  BY <1>3
<1>5. \/ rt' = ForLeased(rt, b, q, answer)
      \/ rt' = Release(ForLeased(rt, b, q, answer), b)
  BY <1>2, Zenon DEF FinishBatch
<1> HIDE DEF answer, q
<1> QED
  BY <1>3, <1>4, <1>5, AnswersAwake

LEMMA BodyAwake ==
  ASSUME Sound(rt), Awake(rt), BatchesTyped(batch), NEW b \in BatchId, NEW k \in Chunk,
         BodyArrives(b, k)
  PROVE  Awake(rt')
<1> DEFINE q == batch[b].keys
           old == batch[b]
           got(why) == [old.body EXCEPT ![k] = why]
           ans(why) == [c \in DOMAIN got(why) |->
                          [why |-> got(why)[c], view |-> old.row[c], body |-> TRUE]]
<1>1. InFlight(b) /\ Phase(b) = "read"
  BY DEF BodyArrives
<1>2. PICK why \in Ends(old.row[k]) :
        UNCHANGED rt \/ FinishBatch(b, ForLeased(rt, b, q, ans(why)))
  BY DEF BodyArrives
<1> DEFINE answer == ans(why)
<1>3. q \in Seq(Chunk) /\ \A c \in DOMAIN old.body : old.row[c] \in Views
  BY <1>1, BatchParts DEF Phase
<1>4. DOMAIN got(why) = DOMAIN old.body
  OBVIOUS
<1>5. \A c \in DOMAIN answer : answer[c].why = "ok" => answer[c].view \in Views
  BY <1>3, <1>4
<1>6. rt' = rt \/ rt' = Release(ForLeased(rt, b, q, answer), b)
  BY <1>2 DEF FinishBatch
<1> HIDE DEF answer, q
<1> QED
  BY <1>3, <1>5, <1>6, AnswersAwake

LEMMA RefreshAwake ==
  ASSUME Sound(rt), Awake(rt), view \in Views, RefreshReply
  PROVE  Awake(rt')
<1>1. PICK order \in Turns : rt' = RefreshEntries(rt, order)
  BY DEF RefreshReply
<1>2. order \in [1..Cardinality(Chunk) -> Chunk] /\ Cardinality(Chunk) \in Nat
  BY ChunkStateAssumption, FS_CardinalityType DEF Turns
<1> QED
  BY <1>1, <1>2, RefreshGentle, GentleAwake

(* When the coverage clears the demand, nobody is wanted any more. *)
LEMMA CoverageAwake ==
  ASSUME Sound(rt), Awake(rt), view \in Views, CoverageReply
  PROVE  Awake(rt')
<1>1. PICK order \in Turns :
        \/ rt' = CoverEntries(rt, order)
        \/ rt' = [CoverEntries(rt, order) EXCEPT
                    !.hashQ = {}, !.fetchQ = {}, !.demand = [k \in Chunk |-> "none"]]
  BY Zenon DEF CoverageReply
<1>2. order \in [1..Cardinality(Chunk) -> Chunk] /\ Cardinality(Chunk) \in Nat
  BY ChunkStateAssumption, FS_CardinalityType DEF Turns
<1> DEFINE a == CoverEntries(rt, order)
           t == [a EXCEPT !.hashQ = {}, !.fetchQ = {}, !.demand = [k \in Chunk |-> "none"]]
<1>3. Awake(a) /\ a \in StateType
  BY <1>2, CoverGentle, GentleAwake, CoverEntriesQuiet DEF Sound, Calmer
<1> HIDE DEF a
<1>4. /\ t.chunks = a.chunks /\ t.jobs = a.jobs /\ t.reply = a.reply
      /\ \A k \in Chunk : t.demand[k] = "none"
  BY <1>3 DEF StateType
<1> HIDE DEF t
<1>5. \A k \in Chunk : ~Wanted(t, k)
  BY <1>4, PoolAssumption DEF Wanted
<1>6. Alert(t)
  BY <1>3, <1>4, <1>5 DEF Awake, Alert, Has
<1>7. Awake(t)
  BY <1>3, <1>4, <1>6, SameManned DEF Awake
<1> QED
  BY <1>1, <1>3, <1>7 DEF a, t

LEMMA InitAwake == Init => Awake(rt)
<1> SUFFICES ASSUME rt = InitialState PROVE Awake(rt)
  BY DEF Init
<1>1. /\ \A k \in Chunk : rt.chunks[k] = Nothing /\ rt.demand[k] = "none"
      /\ \A j \in JobId : rt.jobs[j] = Nothing
  BY DEF InitialState
<1> QED
  BY <1>1, PoolAssumption DEF Awake, Alert, Manned, Has, Wanted

(* Awake is inductive with Safe. *)
LEMMA NextAwake ==
  ASSUME Safe, Awake(rt), [Next]_vars PROVE Awake(rt')
<1>1. Sound(rt) /\ BatchesTyped(batch) /\ view \in Views
  BY CurrentView DEF Safe
<1>2. CASE Calls
  BY <1>1, <1>2, CallbackAwake
<1>3. ASSUME NEW b \in BatchId, NEW keys \in Orders(Chunk),
             FetchHashBatch(b, keys) \/ FetchBatch(b, keys)
      PROVE  Awake(rt')
  BY <1>1, <1>3, HashBatchAwake, FetchBatchAwake
<1>4. ASSUME NEW b \in BatchId, HashReply(b) \/ FetchResolved(b)
      PROVE  Awake(rt')
  BY <1>1, <1>4, HashReplyAwake, FetchResolvedAwake
<1>5. ASSUME NEW b \in BatchId, NEW k \in Chunk, BodyArrives(b, k)
      PROVE  Awake(rt')
  BY <1>1, <1>5, BodyAwake
<1>6. ASSUME RefreshReply \/ CoverageReply PROVE Awake(rt')
  BY <1>1, <1>6, RefreshAwake, CoverageAwake
<1>7. ASSUME ViewChanges \/ RefreshFails \/ CoverageFails \/ Rest \/ UNCHANGED vars
      PROVE  Awake(rt')
  <2>1. rt' = rt
    BY <1>7 DEF ViewChanges, RefreshFails, CoverageFails, Rest, vars
  <2> QED
    BY <2>1
<1> QED
  BY <1>2, <1>3, <1>4, <1>5, <1>6, <1>7 DEF Next, Calls

LEMMA AwakeAlways == Spec => [](Safe /\ Awake(rt))
<1>1. Init => Awake(rt)
  BY InitAwake
<1>2. Safe /\ Awake(rt) /\ [Next]_vars => Awake(rt)'
  BY NextAwake
<1> QED
  BY <1>1, <1>2, SafeAlways, PTL DEF Spec
-----------------------------------------------------------------------------
(* A flush that changes nothing had nothing to start.                       *)

LEMMA OnwardThen ==
  ASSUME NEW s, NEW t, NEW u, Onward(s, t), Onward(t, u)
  PROVE  Onward(s, u)
BY DEF Onward

LEMMA RequestNone ==
  ASSUME NEW s \in StateType
  PROVE  RequestMesh(s, {}) = s
<1> DEFINE slots == {p \in [{} -> JobId \ JobsOf(s)] : \A k, l \in {} : p[k] = p[l] => k = l}
           slot == CHOOSE p \in slots : TRUE
           job(k) == [ chunk |-> k, kind |-> s.demand[k],
                       phase |-> IF CacheParts(s, k) = Nothing THEN "waiting" ELSE "cache",
                       worker |-> Nothing, clean |-> TRUE,
                       parts |-> CacheParts(s, k), deps |-> {} ]
           taker(j) == {k \in {} : slot[k] = j}
           chunks == [k \in Chunk |-> IF k \in {} THEN [s.chunks[k] EXCEPT !.pend = slot[k]]
                                      ELSE s.chunks[k]]
           jobs == [j \in JobId |-> IF taker(j) = {} THEN s.jobs[j]
                                    ELSE job(CHOOSE k \in taker(j) : TRUE)]
<1>1. RequestMesh(s, {}) = IF slots = {} THEN s
                           ELSE [s EXCEPT !.chunks = chunks, !.jobs = jobs]
  BY DEF RequestMesh
<1>2. chunks = s.chunks
  BY StateParts
<1>3. jobs = s.jobs
  <2>1. \A j \in JobId : taker(j) = {}
    OBVIOUS
  <2> HIDE DEF taker, job
  <2>2. jobs = [j \in JobId |-> s.jobs[j]]
    BY <2>1
  <2> HIDE DEF jobs
  <2> QED
    BY <2>2, StateParts
<1> HIDE DEF chunks, jobs, slots
<1> QED
  BY <1>1, <1>2, <1>3 DEF StateType

LEMMA FinishNone ==
  ASSUME NEW s \in StateType
  PROVE  FinishMeshJobs(s, {}) = s
<1> DEFINE current == {j \in {} : IsCurrentMeshJob(s, j)}
           pinned(k) == {j \in {} : k \in s.jobs[j].deps}
           K == {s.jobs[j].chunk : j \in current}
           s1 == EachEntry(s, K, LAMBDA e : [e EXCEPT !.pend = Nothing])
           chunks == [k \in Chunk |->
                        IF pinned(k) = {} THEN s1.chunks[k]
                        ELSE [s1.chunks[k] EXCEPT
                               !.pins = s1.chunks[k].pins - Cardinality(pinned(k))]]
           jobs == [j \in JobId |-> IF j \in {} THEN Nothing ELSE s.jobs[j]]
<1>1. FinishMeshJobs(s, {}) = [s1 EXCEPT !.chunks = chunks, !.jobs = jobs]
  BY DEF FinishMeshJobs
<1>2. s1 = s
  <2>1. K = {}
    OBVIOUS
  <2> DEFINE F(e) == [e EXCEPT !.pend = Nothing]
             cs == [k \in Chunk |-> IF k \in K THEN F(s.chunks[k]) ELSE s.chunks[k]]
  <2>2. s1 = [s EXCEPT !.chunks = cs]
    BY DEF EachEntry
  <2> HIDE DEF K, s1, F
  <2>3. cs = [k \in Chunk |-> s.chunks[k]]
    BY <2>1
  <2> HIDE DEF cs
  <2>4. cs = s.chunks
    BY <2>3, StateParts
  <2> QED
    BY <2>2, <2>4 DEF StateType
<1> HIDE DEF s1
<1>3. chunks = s.chunks
  <2>1. \A k \in Chunk : pinned(k) = {}
    OBVIOUS
  <2> HIDE DEF pinned
  <2>2. chunks = [k \in Chunk |-> s1.chunks[k]]
    BY <2>1
  <2> HIDE DEF chunks
  <2> QED
    BY <1>2, <2>2, StateParts
<1>4. jobs = s.jobs
  BY StateParts
<1> HIDE DEF chunks, jobs
<1> QED
  BY <1>1, <1>2, <1>3, <1>4 DEF StateType

LEMMA SweepParts ==
  ASSUME NEW s, Sound(s), NEW t, t = SweepJobs(s)
  PROVE  /\ \A j \in JobId : t.jobs[j] = IF j \in Refused(s) THEN Nothing ELSE s.jobs[j]
         /\ Onward(s, t)
         /\ Refused(s) = {} =>
              /\ t.chunks = s.chunks
              /\ Lacking(s, "checking") \subseteq t.hashQ
              /\ Lacking(s, "hashed") \subseteq t.fetchQ
<1> DEFINE a == FinishMeshJobs(s, Refused(s))
<1>1. s \in StateType
  BY DEF Sound
<1>2. t = [a EXCEPT !.hashQ = @ \cup Lacking(a, "checking"),
                    !.fetchQ = @ \cup Lacking(a, "hashed")]
  BY DEF SweepJobs, Refused, Lacking
<1>3. Refused(s) \in SUBSET JobId /\ \A j \in Refused(s) : s.jobs[j] # Nothing
  BY DEF Refused, WaitingJobs, JobsOf
<1>4. Ended(s, a, Refused(s)) /\ a \in StateType
  BY <1>1, <1>3, FinishEnds DEF Sound, Ended
<1>5. a.hashQ = s.hashQ /\ a.fetchQ = s.fetchQ
  BY <1>1 DEF FinishMeshJobs, EachEntry, StateType
<1>6. Refused(s) = {} => a = s
  BY <1>1, FinishNone
<1> HIDE DEF a
<1>7. /\ t.jobs = a.jobs /\ t.chunks = a.chunks
      /\ t.hashQ = a.hashQ \cup Lacking(a, "checking")
      /\ t.fetchQ = a.fetchQ \cup Lacking(a, "hashed")
  BY <1>2, <1>4 DEF StateType
<1>8. \A j \in JobId : t.jobs[j] = IF j \in Refused(s) THEN Nothing ELSE s.jobs[j]
  BY <1>4, <1>7 DEF Ended
<1>9. Onward(s, t)
  BY <1>5, <1>7, <1>8 DEF Onward
<1> QED
  BY <1>6, <1>7, <1>8, <1>9

LEMMA DispatchOnward ==
  ASSUME NEW s, Sound(s), NEW p \in Plans(s), NEW t, t = DispatchWorkerMesh(s, p)
  PROVE  /\ Onward(s, t)
         /\ \A j \in DOMAIN p : p[j] # Nothing =>
              s.jobs[j] # Nothing /\ t.jobs[j].phase = "worker"
<1> DEFINE posted == {j \in DOMAIN p : p[j] # Nothing}
           c(j) == s.jobs[j].chunk
           started(j) == [s.jobs[j] EXCEPT !.phase = "worker", !.worker = p[j],
                                           !.clean = TRUE,
                                           !.parts = CacheParts(s, c(j)),
                                           !.deps = StoredAround(s, c(j))]
<1>1. s \in StateType
  BY DEF Sound
<1>2. /\ t.jobs = [j \in JobId |-> IF j \in posted THEN started(j) ELSE s.jobs[j]]
      /\ t.hashQ = s.hashQ /\ t.fetchQ = s.fetchQ
  BY <1>1 DEF DispatchWorkerMesh, StateType
<1>3. p \in [{j \in WaitingJobs(s) : MissingInputs(s, s.jobs[j].chunk) = {}}
               -> IdleWorkers(s) \cup {Nothing}]
  BY DEF Plans
<1>4. ASSUME NEW j \in posted
      PROVE  /\ j \in JobId /\ s.jobs[j] \in JobType /\ s.jobs[j] # Nothing
             /\ started(j).phase = "worker"
  <2>1. j \in JobId /\ s.jobs[j] \in JobType /\ s.jobs[j] # Nothing
    BY <1>1, <1>3, StateParts DEF WaitingJobs, JobsOf
  <2> DEFINE parts == CacheParts(s, c(j))
             deps == StoredAround(s, c(j))
  <2> HIDE DEF parts, deps
  <2>2. started(j).phase = "worker"
    BY <2>1 DEF JobType
  <2> QED
    BY <2>1, <2>2
<1>5. ASSUME NEW j \in posted PROVE t.jobs[j].phase = "worker"
  BY <1>2, <1>4
<1>6. ASSUME NEW j \in JobId, j \notin posted PROVE t.jobs[j] = s.jobs[j]
  BY <1>2, <1>6
<1> HIDE DEF started
<1>7. Onward(s, t)
  BY <1>2, <1>4, <1>5, <1>6 DEF Onward
<1> QED
  BY <1>4, <1>5, <1>7

(* The runtime is swept and has handed out what it can. *)
LEMMA NothingStarts ==
  ASSUME NEW s, Sound(s), FlushStarting(s, {}) = {s},
         \A j \in JobId : s.jobs[j] # Nothing =>
           s.jobs[j].phase = "waiting" /\ s.jobs[j].worker = Nothing
  PROVE  /\ Refused(s) = {}
         /\ Lacking(s, "checking") \subseteq s.hashQ /\ Lacking(s, "hashed") \subseteq s.fetchQ
         /\ \A j \in WaitingJobs(s) : MissingInputs(s, s.jobs[j].chunk) # {}
<1> DEFINE a == SweepJobs(s)
<1>1. PICK d \in Dispatched(a) :
        s \in Dispatched(SweepJobs(RequestMesh(d, {} \cap Runnable(d))))
  <2>1. s \in FlushStarting(s, {})
    OBVIOUS
  <2> QED
    BY <2>1 DEF FlushStarting
<1>2. Sound(a) /\ Sound(d) /\ d \in StateType
  BY SweepMoves, SweptDispatch DEF Moves, Sound
<1> DEFINE b == SweepJobs(d)
<1>3. s \in Dispatched(b)
  <2>1. {} \cap Runnable(d) = {}
    OBVIOUS
  <2> QED
    BY <1>1, <1>2, <2>1, RequestNone
<1>4. Sound(b) /\ Onward(d, b)
  BY <1>2, SweepMoves, SweepParts DEF Moves
<1>5. /\ \A j \in JobId : a.jobs[j] = IF j \in Refused(s) THEN Nothing ELSE s.jobs[j]
      /\ Refused(s) = {} =>
           /\ a.chunks = s.chunks
           /\ Lacking(s, "checking") \subseteq a.hashQ
           /\ Lacking(s, "hashed") \subseteq a.fetchQ
  BY SweepParts
<1> HIDE DEF a, b
<1>6. PICK p \in Plans(a) : d = DispatchWorkerMesh(a, p)
  BY <1>1 DEF Dispatched
<1>7. /\ Onward(a, d)
      /\ \A j \in DOMAIN p : p[j] # Nothing => a.jobs[j] # Nothing /\ d.jobs[j].phase = "worker"
  BY <1>2, <1>6, DispatchOnward
<1>8. Onward(d, s) /\ Onward(a, s)
  <2>1. PICK r \in Plans(b) : s = DispatchWorkerMesh(b, r)
    BY <1>3 DEF Dispatched
  <2>2. Onward(b, s)
    BY <1>4, <2>1, DispatchOnward
  <2> QED
    BY <1>4, <1>7, <2>2, OnwardThen
<1>9. Refused(s) = {}
  <2> SUFFICES ASSUME NEW j \in Refused(s) PROVE FALSE
    OBVIOUS
  <2>1. j \in JobId /\ s.jobs[j] # Nothing
    BY DEF Refused, WaitingJobs, JobsOf
  <2>2. a.jobs[j] = Nothing
    BY <1>5, <2>1
  <2> QED
    BY <1>8, <2>1, <2>2 DEF Onward
<1>10. \A j \in JobId : a.jobs[j] = s.jobs[j]
  BY <1>5, <1>9
<1>11. Lacking(s, "checking") \subseteq s.hashQ /\ Lacking(s, "hashed") \subseteq s.fetchQ
  BY <1>5, <1>8, <1>9 DEF Onward
<1> DEFINE ready == {j \in WaitingJobs(a) : MissingInputs(a, a.jobs[j].chunk) = {}}
           idle == IdleWorkers(a)
           posted == {j \in ready : p[j] # Nothing}
<1>12. /\ p \in [ready -> idle \cup {Nothing}]
       /\ Cardinality(posted) = IF Cardinality(ready) < Cardinality(idle)
                                THEN Cardinality(ready) ELSE Cardinality(idle)
  BY DEF Plans
<1>13. ready \subseteq JobId
  BY DEF WaitingJobs, JobsOf
<1>14. idle = Worker
  BY <1>10, NothingAssumption DEF IdleWorkers, JobsOf
<1> HIDE DEF ready, idle
<1>15. posted = {}
  <2> SUFFICES ASSUME NEW j \in ready, p[j] # Nothing PROVE FALSE
    OBVIOUS
  <2>1. j \in JobId /\ a.jobs[j] # Nothing /\ d.jobs[j].phase = "worker"
    BY <1>7, <1>12, <1>13
  <2>2. s.jobs[j] # Nothing /\ s.jobs[j].phase = "waiting"
    BY <1>10, <2>1
  <2>3. d.jobs[j] # Nothing
    BY <1>8, <2>1, <2>2 DEF Onward
  <2> QED
    BY <1>8, <2>1, <2>2, <2>3 DEF Onward
<1>16. ready = {}
  <2>1. IsFiniteSet(ready) /\ Cardinality(ready) \in Nat
    BY <1>13, ChunkStateAssumption, FS_Subset, FS_CardinalityType
  <2>2. IsFiniteSet(idle) /\ Cardinality(idle) \in Nat /\ Cardinality(idle) # 0
    BY <1>14, ChunkStateAssumption, PoolAssumption, FS_CardinalityType, FS_EmptySet
  <2>3. Cardinality(posted) = 0
    BY <1>15, FS_EmptySet
  <2> HIDE DEF posted
  <2>4. Cardinality(ready) = 0
    BY <1>12, <2>1, <2>2, <2>3
  <2> QED
    BY <2>1, <2>4, FS_EmptySet
<1>17. ASSUME NEW j \in WaitingJobs(s) PROVE MissingInputs(s, s.jobs[j].chunk) # {}
  <2>1. j \in WaitingJobs(a) /\ a.jobs[j] = s.jobs[j]
    BY <1>10 DEF WaitingJobs, JobsOf
  <2>2. MissingInputs(a, a.jobs[j].chunk) # {}
    BY <1>16, <2>1 DEF ready
  <2>3. MissingInputs(a, s.jobs[j].chunk) = MissingInputs(s, s.jobs[j].chunk)
    BY <1>5, <1>9, Zenon DEF MissingInputs, Has
  <2> QED
    BY <2>1, <2>2, <2>3
<1> QED
  BY <1>9, <1>11, <1>17
-----------------------------------------------------------------------------
(* Nobody is forgotten.                                                     *)

(* When nothing is due, every job waits for inputs. *)
LEMMA RestingJobs ==
  ASSUME Safe, Awake(rt), ~Busy, NEW j \in JobId, rt.jobs[j] # Nothing
  PROVE  rt.jobs[j].phase = "waiting" /\ rt.jobs[j].worker = Nothing
<1>1. rt.jobs[j] \in JobType /\ rt.jobs[j].phase \in {"cache", "waiting", "worker"}
  BY StateParts, JobParts DEF Safe, Sound
<1>2. rt.jobs[j].phase # "cache"
  BY DEF Busy, JobsOf
<1>3. rt.jobs[j].phase # "worker"
  <2> SUFFICES ASSUME Tasked(rt, j) PROVE FALSE
    BY DEF Awake, Manned
  <2>1. PICK w \in Worker : Building(rt, w) # {}
    BY DEF Tasked
  <2>2. rt.reply[w] = <<>>
    BY DEF Busy
  <2> QED
    BY <2>1, <2>2 DEF Building
<1> QED
  BY <1>1, <1>2, <1>3 DEF Awake, Manned

(* When nothing is due, nobody waits for IO or for the workers. *)
LEMMA RestingEntries ==
  ASSUME Safe, Awake(rt), ~Busy, NEW k \in Chunk, Has(rt, k)
  PROVE  rt.chunks[k].st \in {"checking", "hashed", "stored", "absent", "error"}
<1>1. rt \in StateType /\ rt.chunks[k] \in EntryType
  BY StateParts DEF Safe, Sound
<1>2. rt.chunks[k].st \notin {"resolving", "fetching"}
  <2> SUFFICES ASSUME Waits(rt, k) PROVE FALSE
    BY DEF Waits
  <2> QED
    BY LeaseOf DEF Safe, Busy
<1>3. rt.chunks[k].st # "decoding"
  <2> SUFFICES ASSUME rt.chunks[k].st = "decoding" PROVE FALSE
    OBVIOUS
  <2>1. rt.chunks[k].mask # Worker /\ rt.chunks[k].mask \subseteq Worker
    BY <1>1, EntryParts DEF Awake, Alert
  <2>2. PICK w \in Worker \ rt.chunks[k].mask : TRUE
    BY <2>1
  <2>3. PICK i \in 1..Len(rt.reply[w]) : TRUE
    BY <2>2 DEF Safe, Sound, Due
  <2>4. rt.reply[w] = <<>>
    BY <2>2 DEF Busy
  <2> QED
    BY <2>3, <2>4
<1> QED
  BY <1>1, <1>2, <1>3 DEF EntryType

(* A job that waits when nothing is due waits for an orphan. *)
LEMMA RestingOrphan ==
  ASSUME Safe, Awake(rt), ~Busy, NEW j \in JobId, rt.jobs[j] # Nothing
  PROVE  Orphaned
<1> DEFINE c == rt.jobs[j].chunk
<1>1. Sound(rt) /\ rt \in StateType
  BY DEF Safe, Sound
<1>2. \A i \in JobId : rt.jobs[i] # Nothing =>
        rt.jobs[i].phase = "waiting" /\ rt.jobs[i].worker = Nothing
  BY RestingJobs
<1>3. FlushStarting(rt, {}) = {rt}
  BY DEF Busy
<1>4. /\ Refused(rt) = {}
      /\ Lacking(rt, "checking") \subseteq rt.hashQ /\ Lacking(rt, "hashed") \subseteq rt.fetchQ
      /\ \A i \in WaitingJobs(rt) : MissingInputs(rt, rt.jobs[i].chunk) # {}
  BY <1>1, <1>2, <1>3, NothingStarts
<1>5. j \in WaitingJobs(rt)
  BY <1>2 DEF WaitingJobs, JobsOf
<1>6. IsCurrentMeshJob(rt, j) /\ ShouldAcceptMeshResult(rt, j)
  BY <1>4, <1>5 DEF Refused
<1>7. Wanted(rt, c)
  <2>1. rt.jobs[j].kind \in Kind
    BY <1>1, StateParts, JobParts
  <2> QED
    BY <1>6, <2>1 DEF ShouldAcceptMeshResult, Wanted
<1>8. PICK n \in MissingInputs(rt, c) : TRUE
  BY <1>4, <1>5
<1>9. n \in Chunk /\ Has(rt, n) /\ rt.chunks[n].st \notin {"absent", "error", "stored"}
  <2>1. c \in Chunk
    BY <1>1, <1>6, CurrentJob
  <2> QED
    BY <2>1, <1>8, ChunkStateAssumption DEF MissingInputs
<1>10. rt.chunks[n].st \in {"checking", "hashed"}
  BY <1>9, RestingEntries
<1>11. rt.demand[n] = "none"
  <2> SUFFICES ASSUME rt.demand[n] # "none" PROVE FALSE
    OBVIOUS
  <2>1. n \in UNION {MissingInputs(rt, rt.jobs[i].chunk) : i \in WaitingJobs(rt)}
    BY <1>5, <1>8
  <2>2. n \in Lacking(rt, rt.chunks[n].st)
    BY <2>1 DEF Lacking
  <2>3. \/ n \in rt.hashQ /\ rt.chunks[n].st = "checking"
        \/ n \in rt.fetchQ /\ rt.chunks[n].st = "hashed"
    BY <1>4, <1>10, <2>2
  <2> QED
    BY <1>9, <2>3 DEF Busy
<1> QED
  BY <1>5, <1>6, <1>7, <1>8, <1>11 DEF Orphaned

(* NothingForgotten: when nothing is due any more, every wanted chunk is    *)
(* displayed up to date, or known to be absent or broken, unless meshes     *)
(* that wait for orphans take the slots: however batches are superseded,    *)
(* queues pruned and workers lost, no wanted chunk is left behind.          *)
THEOREM NothingIsForgotten == Spec => []NothingForgotten
<1>1. Safe /\ Awake(rt) => NothingForgotten
  <2> SUFFICES ASSUME Safe, Awake(rt), ~Busy, NEW k \in Chunk, Wanted(rt, k),
                      rt.chunks[k].st \notin {"absent", "error"}, ~Satisfied(rt, k)
               PROVE  Orphaned
    BY DEF NothingForgotten, Served
  <2>1. Has(rt, k) /\ (rt.chunks[k].st = "checking" => k \in rt.hashQ)
    BY DEF Awake, Alert
  <2>2. rt.chunks[k].st \in {"hashed", "stored"}
    <3>1. rt.chunks[k].st # "checking"
      BY <2>1 DEF Busy
    <3> QED
      BY <2>1, <3>1, RestingEntries
  <2>3. \E j \in JobId : rt.jobs[j] # Nothing
    <3>1. CASE rt.chunks[k].pend = Nothing
      <4>1. k \in Runnable(rt)
        BY <2>1, <2>2, <3>1 DEF Runnable
      <4>2. JobsOf(rt) = JobId
        BY <4>1 DEF Busy
      <4> QED
        BY <4>2, PoolAssumption DEF JobsOf
    <3>2. CASE rt.chunks[k].pend # Nothing
      <4>1. rt.chunks[k].pend \in JobId
        BY <2>1, <3>2, StateParts, EntryParts DEF Safe, Sound, OrNone
      <4>2. rt.jobs[rt.chunks[k].pend] # Nothing
        BY <2>1, <3>2 DEF Safe, Sound, Pending
      <4> QED
        BY <4>1, <4>2
    <3> QED
      BY <3>1, <3>2
  <2> QED
    BY <2>3, RestingOrphan
<1> QED
  BY AwakeAlways, <1>1, PTL
=============================================================================
