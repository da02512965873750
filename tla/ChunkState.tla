----------------------------- MODULE ChunkState -----------------------------
(***************************************************************************)
(* What one ChunkRuntime of the viewer holds and the methods that change it *)
(* (packages/web/src/runtime/chunkRuntime.ts with scheduling/              *)
(* chunkScheduler.ts and worker/meshWorker.ts).  Each method is an operator *)
(* from a state to a state; ChunkRuntime composes them into handlers.       *)
(*                                                                          *)
(* A worker handles its messages in order and what it answers depends on    *)
(* nothing else, so the answer is fixed when the message is posted: column  *)
(* is what a worker will hold once it has handled everything posted to it,  *)
(* and reply the answers that the main thread has not handled yet.          *)
(***************************************************************************)
EXTENDS Integers, Sequences, FiniteSets, Functions

CONSTANTS
  Chunk,     \* coordinates of chunks
  Near,      \* a chunk's neighbourhood, itself included
  Worker,    \* the mesh workers
  JobId,     \* the slots of meshJobs (MESH_PREPARATIONS_PER_WORKER each)
  BatchId,   \* names of the IO batches in flight
  Kind,      \* "full" and "lod" meshes
  Source,    \* per view, the content of each chunk, or "missing"
  Malformed, \* contents that no worker can parse
  Nothing    \* null, undefined, or no entry in a map

ASSUME ChunkStateAssumption ==
  /\ IsFiniteSet(Chunk) /\ IsFiniteSet(Worker) /\ IsFiniteSet(JobId)
  /\ Near \in [Chunk -> SUBSET Chunk]
  /\ \A k \in Chunk : k \in Near[k] /\ \A n \in Near[k] : k \in Near[n]

(***************************************************************************)
(* What the runtime's objects are made of.                                  *)
(***************************************************************************)
Views == DOMAIN Source
Content == (UNION {{Source[v][k] : k \in Chunk} : v \in Views}) \ {"missing"}
OrNone(S) == S \cup {Nothing}
Columns(K) == [K -> OrNone(Content)]
AllParts == UNION {[Near[k] -> Content \cup {"missing"}] : k \in Chunk}

(* What a mesh was built from: the content of its neighbourhood. *)
From == UNION {Columns(Near[k]) : k \in Chunk}

EntryType ==
  [ st : {"checking", "resolving", "hashed", "fetching", "decoding", "stored",
          "absent", "error"},
    dig : OrNone(Content), res : OrNone(Views), req : OrNone(BatchId),
    mask : SUBSET Worker, pins : Nat, pend : OrNone(JobId),
    shown : OrNone([kind : Kind, from : From]),
    dirty : BOOLEAN, readyDig : OrNone(Content) ]
JobType ==
  [ chunk : OrNone(Chunk), kind : Kind, phase : {"cache", "waiting", "worker"},
    worker : OrNone(Worker), clean : BOOLEAN, deps : SUBSET Chunk,
    parts : OrNone(AllParts) ]
MessageType ==
  [type : {"chunk"}, chunk : Chunk, dig : Content]
    \cup [type : {"mesh"}, job : JobId, chunk : Chunk, from : From]
StateType ==
  [ chunks : [Chunk -> OrNone(EntryType)], jobs : [JobId -> OrNone(JobType)],
    hashQ : SUBSET Chunk, fetchQ : SUBSET Chunk,
    demand : [Chunk -> Kind \cup {"none", "stale"}], up : BOOLEAN,
    column : [Worker -> Columns(Chunk)], reply : [Worker -> Seq(MessageType)] ]

ASSUME NothingAssumption ==
  /\ Nothing \notin Chunk /\ Nothing \notin Worker /\ Nothing \notin JobId
  /\ Nothing \notin BatchId /\ Nothing \notin Views /\ Nothing \notin Content
  /\ Nothing \notin EntryType /\ Nothing \notin JobType /\ Nothing \notin AllParts
  /\ Nothing \notin [kind : Kind, from : From] /\ Nothing # "missing"

(* A viewer has a worker at least, each worker slots for jobs; what a chunk *)
(* is wanted for is told from its not being wanted.                         *)
ASSUME PoolAssumption == Worker # {} /\ JobId # {} /\ Kind \cap {"none", "stale"} = {}

NewEntry ==
  [ st |-> "checking", dig |-> Nothing, res |-> Nothing, req |-> Nothing,
    mask |-> {}, pins |-> 0, pend |-> Nothing, shown |-> Nothing,
    dirty |-> FALSE, readyDig |-> Nothing ]

InitialState ==
  [ chunks |-> [k \in Chunk |-> Nothing], jobs |-> [j \in JobId |-> Nothing],
    hashQ |-> {}, fetchQ |-> {}, demand |-> [k \in Chunk |-> "none"],
    up |-> TRUE, column |-> [w \in Worker |-> [k \in Chunk |-> Nothing]],
    reply |-> [w \in Worker |-> <<>>] ]

Has(s, k) == s.chunks[k] # Nothing
JobsOf(s) == {j \in JobId : s.jobs[j] # Nothing}
Wanted(s, k) == s.demand[k] \in Kind

EachEntry(s, K, F(_)) ==
  [s EXCEPT !.chunks =
     [k \in Chunk |-> IF k \in K THEN F(s.chunks[k]) ELSE s.chunks[k]]]
EachJob(s, J, F(_)) ==
  [s EXCEPT !.jobs = [j \in JobId |-> IF j \in J THEN F(s.jobs[j]) ELSE s.jobs[j]]]

(* A loop over seq: each turn starts from what the one before left.         *)
InTurn(s, seq, Turn(_, _)) ==
  LET after[n \in 0..Len(seq)] ==
        IF n = 0 THEN s ELSE Turn(after[n - 1], seq[n])
  IN  after[Len(seq)]

EnqueueHash(s, k) ==
  IF s.demand[k] = "none" THEN s ELSE [s EXCEPT !.hashQ = @ \cup {k}]
EnqueueFetch(s, k) ==
  IF s.demand[k] = "none" THEN s ELSE [s EXCEPT !.fetchQ = @ \cup {k}]

(***************************************************************************)
(* Display state.  A job is clean while its entry's dirtyToken is the one   *)
(* it remembers.                                                            *)
(***************************************************************************)
MarkDirty(s, K) ==
  LET s1 == EachEntry(s, K, LAMBDA e : [e EXCEPT !.dirty = TRUE])
  IN  EachJob(s1, {j \in JobsOf(s1) : s1.jobs[j].chunk \in K},
              LAMBDA job : [job EXCEPT !.clean = FALSE])

MarkNeighborsDirty(s, k) ==
  MarkDirty(s, {n \in Near[k] \ {k} :
                  /\ Has(s, n)
                  /\ \/ s.chunks[n].shown # Nothing
                     \/ s.chunks[n].pend # Nothing})

RemoveDisplayedMesh(s, k) == [s EXCEPT !.chunks[k] = [@ EXCEPT !.shown = Nothing]]

InvalidatePendingMeshes(s, k) ==
  [s EXCEPT !.chunks[k] = [@ EXCEPT !.pend = Nothing]]

BroadcastDrop(s, k) ==
  [s EXCEPT !.column = [w \in Worker |-> [@[w] EXCEPT ![k] = Nothing]]]

MarkUnavailable(s, k, st, clearSource, removeMesh) ==
  LET s1 == [s EXCEPT !.chunks[k] = [@ EXCEPT !.st = st, !.pend = Nothing]]
      s2 == IF clearSource
            THEN [s1 EXCEPT !.chunks[k] = [@ EXCEPT !.dig = Nothing,
                                                    !.res = Nothing]]
            ELSE s1
      s3 == IF st = "absent" THEN MarkNeighborsDirty(s2, k) ELSE s2
  IN  IF removeMesh THEN RemoveDisplayedMesh(s3, k) ELSE s3

ResetAfterSourceChange(s, k) ==
  LET s1 == BroadcastDrop(RemoveDisplayedMesh(s, k), k)
      s2 == MarkNeighborsDirty(InvalidatePendingMeshes(s1, k), k)
  IN  [s2 EXCEPT !.chunks[k] = [@ EXCEPT !.dirty = FALSE]]

(* Slip: the entry waits for a resolution that nobody queues. *)
RetryIoUnqueued(s, k, expired) ==
  [s EXCEPT !.chunks[k] =
     [@ EXCEPT !.st = IF s.chunks[k].dig # Nothing THEN "hashed" ELSE "checking",
               !.res = IF expired THEN Nothing ELSE s.chunks[k].res]]

RetryIo(s, k, expired) ==
  LET known == s.chunks[k].dig # Nothing
      s1 == [s EXCEPT !.chunks[k] =
              [@ EXCEPT !.st = IF known THEN "hashed" ELSE "checking",
                        !.res = IF expired THEN Nothing ELSE s.chunks[k].res]]
  IN  IF known THEN EnqueueFetch(s1, k) ELSE EnqueueHash(s1, k)

(* An outcome of IO: a failure that is final, one that is tried again. *)
Fail(s, k, why) ==
  IF why = "fatal" THEN MarkUnavailable(s, k, "error", FALSE, FALSE)
  ELSE RetryIo(s, k, why = "expired")

(***************************************************************************)
(* Mesh jobs                                                                *)
(***************************************************************************)
IsCurrentMeshJob(s, j) ==
  LET c == s.jobs[j].chunk
  IN  c # Nothing /\ Has(s, c) /\ s.chunks[c].pend = j

(* Slip: every neighbour is unpinned, not only those that were pinned. *)
FinishMeshJobUnpinsAll(s, j) ==
  LET job == s.jobs[j]
      s1 == IF IsCurrentMeshJob(s, j)
            THEN InvalidatePendingMeshes(s, job.chunk) ELSE s
      around == IF job.chunk = Nothing THEN {} ELSE {n \in Near[job.chunk] : Has(s, n)}
  IN  [EachEntry(s1, around, LAMBDA e : [e EXCEPT !.pins = @ - 1])
        EXCEPT !.jobs[j] = Nothing]

(* The jobs J end: each is forgotten by its entry, unless another one has   *)
(* taken its place there, and unpins its neighbours.                        *)
FinishMeshJobs(s, J) ==
  LET current == {j \in J : IsCurrentMeshJob(s, j)}
      pinned(k) == {j \in J : k \in s.jobs[j].deps}
      s1 == EachEntry(s, {s.jobs[j].chunk : j \in current},
                      LAMBDA e : [e EXCEPT !.pend = Nothing])
  IN  [s1 EXCEPT
        !.chunks = [k \in Chunk |->
                      IF pinned(k) = {} THEN s1.chunks[k]
                      ELSE [s1.chunks[k] EXCEPT
                             !.pins = s1.chunks[k].pins - Cardinality(pinned(k))]],
        !.jobs = [j \in JobId |-> IF j \in J THEN Nothing ELSE s.jobs[j]]]

FinishMeshJob(s, j) == FinishMeshJobs(s, {j})

ShouldAcceptMeshResult(s, j) == s.demand[s.jobs[j].chunk] = s.jobs[j].kind

(* The part a neighbour has in the cache key, Nothing when it is unknown. *)
KeyPart(s, n) ==
  IF ~Has(s, n) THEN Nothing
  ELSE IF s.chunks[n].st = "absent" THEN "missing"
  ELSE IF s.chunks[n].st = "error" THEN Nothing
  ELSE s.chunks[n].dig

(* neighborhoodCacheParts: Nothing unless every part is known. *)
CacheParts(s, k) ==
  IF \E n \in Near[k] : KeyPart(s, n) = Nothing THEN Nothing
  ELSE [n \in Near[k] |-> KeyPart(s, n)]

MeshOfParts(kind, parts) ==
  [ kind |-> kind,
    from |-> [n \in DOMAIN parts |->
                IF parts[n] = "missing" THEN Nothing ELSE parts[n]] ]

(* The neighbours a job still waits for (ensureNeighborhoodWorkerData). *)
MissingInputs(s, k) ==
  {n \in Near[k] :
    /\ Has(s, n)
    /\ s.chunks[n].st \notin {"absent", "error", "stored"}
    /\ \/ n = k
       \/ s.chunks[n].dig # Nothing
       \/ s.chunks[n].shown # Nothing
       \/ s.chunks[n].pend # Nothing}

WaitingJobs(s) == {j \in JobsOf(s) : s.jobs[j].phase = "waiting"}

(* Slip: neighbours that lack their data are waited for, not asked for. *)
SweepJobsWithoutAsking(s) ==
  FinishMeshJobs(s, {j \in WaitingJobs(s) :
                       ~(IsCurrentMeshJob(s, j) /\ ShouldAcceptMeshResult(s, j))})

(* The first loop of flushMeshQueue: jobs whose result nobody would accept  *)
(* end, the others ask for the data they lack.                              *)
SweepJobs(s) ==
  LET s1 == FinishMeshJobs(s, {j \in WaitingJobs(s) :
                                 ~( /\ IsCurrentMeshJob(s, j)
                                    /\ ShouldAcceptMeshResult(s, j) )})
      missing == UNION {MissingInputs(s1, s1.jobs[j].chunk) :
                          j \in WaitingJobs(s1)}
      asked(st) == {n \in missing : s1.chunks[n].st = st
                                    /\ s1.demand[n] # "none"}
  IN  [s1 EXCEPT !.hashQ = @ \cup asked("checking"),
                 !.fetchQ = @ \cup asked("hashed")]

IdleWorkers(s) ==
  {w \in Worker : \A j \in JobsOf(s) : s.jobs[j].worker # w}

(* Which ready job goes to which idle worker depends on priorities.         *)
Plans(s) ==
  LET ready == {j \in WaitingJobs(s) : MissingInputs(s, s.jobs[j].chunk) = {}}
      idle == IdleWorkers(s)
      short == IF Cardinality(ready) < Cardinality(idle)
               THEN Cardinality(ready) ELSE Cardinality(idle)
  IN  {p \in [ready -> idle \cup {Nothing}] :
         /\ Cardinality({j \in ready : p[j] # Nothing}) = short
         /\ \A i, j \in ready : p[i] = p[j] /\ p[i] # Nothing => i = j}

StoredAround(s, k) == {n \in Near[k] : Has(s, n) /\ s.chunks[n].st = "stored"}

(* dispatchWorkerMesh, for the jobs of a plan: pin the stored neighbours    *)
(* and post the task; what it is built from is what the worker holds when   *)
(* it gets there.                                                           *)
DispatchWorkerMesh(s, p) ==
  LET posted == {j \in DOMAIN p : p[j] # Nothing}
      pinning(n) == {j \in posted : n \in StoredAround(s, s.jobs[j].chunk)}
      started(j) == [s.jobs[j] EXCEPT !.phase = "worker", !.worker = p[j],
                                      !.clean = TRUE,
                                      !.parts = CacheParts(s, s.jobs[j].chunk),
                                      !.deps = StoredAround(s, s.jobs[j].chunk)]
      task(j) == [ type |-> "mesh", job |-> j, chunk |-> s.jobs[j].chunk,
                   from |-> [n \in Near[s.jobs[j].chunk] |-> s.column[p[j]][n]] ]
      mine(w) == {j \in posted : p[j] = w}
  IN  [s EXCEPT
        !.chunks = [k \in Chunk |->
                      IF pinning(k) = {} THEN s.chunks[k]
                      ELSE [s.chunks[k] EXCEPT
                             !.pins = s.chunks[k].pins + Cardinality(pinning(k))]],
        !.jobs = [j \in JobId |-> IF j \in posted THEN started(j) ELSE s.jobs[j]],
        !.reply = [w \in Worker |->
                     IF mine(w) = {} THEN s.reply[w]
                     ELSE Append(s.reply[w], task(CHOOSE j \in mine(w) : TRUE))]]

Dispatched(s) == {DispatchWorkerMesh(s, p) : p \in Plans(s)}

Satisfied(s, k) ==
  /\ s.chunks[k].shown # Nothing
  /\ s.chunks[k].shown.kind = s.demand[k]
  /\ ~s.chunks[k].dirty

Runnable(s) ==
  {k \in Chunk : /\ Has(s, k) /\ Wanted(s, k)
                 /\ s.chunks[k].pend = Nothing
                 /\ s.chunks[k].st \in {"stored", "hashed"}
                 /\ ~Satisfied(s, k)}

(* requestMesh, for the chunks K: each takes a slot and looks its mesh up   *)
(* in the cache, which is not asked about a neighbourhood that is partly    *)
(* unknown.                                                                 *)
RequestMesh(s, K) ==
  LET slots == {p \in [K -> JobId \ JobsOf(s)] :
                  \A k, l \in K : p[k] = p[l] => k = l}
      slot == CHOOSE p \in slots : TRUE
      job(k) == [ chunk |-> k, kind |-> s.demand[k],
                  phase |-> IF CacheParts(s, k) = Nothing THEN "waiting" ELSE "cache",
                  worker |-> Nothing, clean |-> TRUE,
                  parts |-> CacheParts(s, k), deps |-> {} ]
      taker(j) == {k \in K : slot[k] = j}
  IN  IF slots = {} THEN s
      ELSE [s EXCEPT
             !.chunks = [k \in Chunk |->
                           IF k \in K THEN [s.chunks[k] EXCEPT !.pend = slot[k]]
                           ELSE s.chunks[k]],
             !.jobs = [j \in JobId |->
                         IF taker(j) = {} THEN s.jobs[j]
                         ELSE job(CHOOSE k \in taker(j) : TRUE)]]

(* flushMeshQueue.  Which of the runnable chunks start, as many as there    *)
(* are slots, is left open: each waits out its own cooldown (meshRetryAt,   *)
(* retryAt).  A request that needs no lookup goes on at once: its flush     *)
(* follows in the same turn.                                                *)
FlushStarting(s, S) ==
  UNION {Dispatched(SweepJobs(RequestMesh(d, S \cap Runnable(d)))) :
           d \in Dispatched(SweepJobs(s))}

Flushes(s) ==
  IF ~s.up THEN {s} ELSE UNION {FlushStarting(s, S) : S \in SUBSET Runnable(s)}

(* Slip: a displayed mesh counts as up to date. *)
ApplyMeshAlwaysClean(s, j, mesh) ==
  [s EXCEPT !.chunks[s.jobs[j].chunk] = [@ EXCEPT !.shown = mesh, !.dirty = FALSE]]

(* applyMesh, then clearDirtyIfUnchanged. *)
ApplyMesh(s, j, mesh) ==
  LET k == s.jobs[j].chunk
  IN  [s EXCEPT !.chunks[k] =
        [@ EXCEPT !.shown = mesh,
                  !.dirty = ~s.jobs[j].clean /\ s.chunks[k].dirty]]

(***************************************************************************)
(* Data on its way to the workers                                           *)
(***************************************************************************)
SendChunkToWorkers(s, k, d) ==
  [s EXCEPT
    !.column = [w \in Worker |->
                  IF d \in Malformed THEN @[w] ELSE [@[w] EXCEPT ![k] = d]],
    !.reply = [w \in Worker |->
                 Append(@[w], [type |-> "chunk", chunk |-> k, dig |-> d])]]

HandleFetchedResolution(s, k, view) ==
  LET row == Source[view][k]
      e == s.chunks[k]
      changed == e.dig # Nothing /\ e.dig # row
      s1 == IF changed THEN ResetAfterSourceChange(s, k) ELSE s
  IN  IF e.st \notin {"resolving", "hashed", "fetching"} THEN s
      ELSE IF row = "missing" THEN MarkUnavailable(s, k, "absent", TRUE, TRUE)
      ELSE [s1 EXCEPT !.chunks[k] =
             [@ EXCEPT !.dig = row, !.res = view,
                       !.st = IF e.st = "fetching" THEN e.st ELSE "hashed"]]

HandleFetchedChunk(s, k, view) ==
  LET d == Source[view][k]
  IN  IF s.chunks[k].st # "fetching" THEN s
      ELSE IF ~s.up
           THEN EnqueueFetch([s EXCEPT !.chunks[k] = [@ EXCEPT !.st = "hashed"]], k)
      ELSE SendChunkToWorkers(
             [s EXCEPT !.chunks[k] = [@ EXCEPT !.st = "decoding", !.mask = {}]], k, d)

HandleChunkReady(s, w, k, d) ==
  LET e == s.chunks[k]
      s1 == [s EXCEPT !.chunks[k] = [@ EXCEPT !.mask = e.mask \cup {w}]]
      s2 == [s1 EXCEPT !.chunks[k] = [@ EXCEPT !.st = "stored", !.readyDig = d]]
      s3 == IF e.readyDig = d THEN s2 ELSE MarkNeighborsDirty(s2, k)
  IN  IF ~Has(s, k) THEN {BroadcastDrop(s, k)}
      ELSE IF e.st \notin {"decoding", "stored"} \/ e.dig # d THEN {s}
      ELSE IF s1.chunks[k].mask # Worker THEN {s1}
      ELSE Flushes(s3)

HandleChunkError(s, k, d) ==
  IF Has(s, k) /\ s.chunks[k].dig = d
  THEN MarkUnavailable(s, k, "error", FALSE, FALSE) ELSE s

(* A worker had no data for the chunk it should mesh: fetch it again. *)
RecoverMissingWorkerInput(s, k) ==
  CASE s.chunks[k].st = "checking" -> EnqueueHash(s, k)
    [] s.chunks[k].st = "hashed" -> EnqueueFetch(s, k)
    [] s.chunks[k].st = "stored" ->
         EnqueueFetch([s EXCEPT !.chunks[k] =
                        [@ EXCEPT !.st = "hashed", !.mask = {}]], k)
    [] OTHER -> s

(***************************************************************************)
(* meshResult, lodResult and meshError of a current job end it; the display *)
(* changes only if the mesh is still asked for.                             *)
(***************************************************************************)
HandleMeshResult(s, j, from) ==
  LET job == s.jobs[j]
      next == IF ~IsCurrentMeshJob(s, j) THEN s
              ELSE IF from[job.chunk] = Nothing
                   THEN RecoverMissingWorkerInput(s, job.chunk)
              ELSE IF /\ s.chunks[job.chunk].st = "stored"
                      /\ ShouldAcceptMeshResult(s, j)
                   THEN ApplyMesh(s, j, [kind |-> job.kind, from |-> from])
              ELSE s
  IN  Flushes(FinishMeshJob(next, j))

HandleMeshError(s, j) ==
  LET s1 == IF IsCurrentMeshJob(s, j)
            THEN MarkUnavailable(s, s.jobs[j].chunk, "error", FALSE, FALSE)
            ELSE s
  IN  Flushes(FinishMeshJob(s1, j))

(* Slip: jobs are forgotten with their workers instead of being finished. *)
RecoverWorkersForgets(s) ==
  LET s1 == EachEntry(s, {k \in Chunk : Has(s, k)}, LAMBDA e :
              [e EXCEPT !.st = IF @ \in {"stored", "decoding"} THEN "hashed" ELSE @,
                        !.mask = {}, !.pend = Nothing])
  IN  [s1 EXCEPT !.jobs = [j \in JobId |-> Nothing], !.up = FALSE,
                 !.column = [w \in Worker |-> [k \in Chunk |-> Nothing]],
                 !.reply = [w \in Worker |-> <<>>]]

(* Slip: the chunks keep the state they had with the old workers. *)
RecoverWorkersKeepsStates(s) ==
  [FinishMeshJobs(s, JobsOf(s)) EXCEPT
     !.up = FALSE,
     !.column = [w \in Worker |-> [k \in Chunk |-> Nothing]],
     !.reply = [w \in Worker |-> <<>>]]

(* recoverWorkers: every job ends, nothing is stored anywhere any more. *)
RecoverWorkers(s) ==
  LET affected == {k \in Chunk : Has(s, k) /\ \E j \in JobsOf(s) : s.jobs[j].chunk = k}
      s1 == FinishMeshJobs(s, JobsOf(s))
      s2 == EachEntry(s1, {k \in Chunk : Has(s1, k)}, LAMBDA e :
              [e EXCEPT !.st = IF e.st \in {"stored", "decoding"} THEN "hashed" ELSE e.st,
                        !.mask = {}])
  IN  [EachEntry(s2, affected, LAMBDA e : [e EXCEPT !.dirty = TRUE]) EXCEPT
        !.fetchQ = s1.fetchQ \cup {k \in affected : s1.demand[k] # "none"},
        !.up = FALSE,
        !.column = [w \in Worker |-> [k \in Chunk |-> Nothing]],
        !.reply = [w \in Worker |-> <<>>]]

(* dropEntry and the scheduler's chunkDropped.  A job of the entry that is  *)
(* no longer current keeps running for an object nobody knows.              *)
DropEntry(s, k) ==
  LET s1 == IF s.chunks[k].st \in {"stored", "decoding"}
            THEN BroadcastDrop(s, k) ELSE s
      s2 == EachJob(s1, {j \in JobsOf(s) : s.jobs[j].chunk = k},
                    LAMBDA job : [job EXCEPT !.chunk = Nothing])
  IN  [s2 EXCEPT !.chunks[k] = Nothing, !.demand[k] = "none",
                 !.hashQ = @ \ {k}, !.fetchQ = @ \ {k}]

ChunkWorkIdle(s, k) == s.chunks[k].pins = 0 /\ s.chunks[k].pend = Nothing
=============================================================================
