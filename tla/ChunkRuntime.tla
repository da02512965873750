---------------------------- MODULE ChunkRuntime ----------------------------
(***************************************************************************)
(* The chunk runtime of the viewer (packages/web/src/runtime/               *)
(* chunkRuntime.ts, chunkIo.ts) with the requests it makes (api.ts,         *)
(* resources/client.ts) and its mesh workers.                               *)
(*                                                                          *)
(* A chunk the camera wants is resolved under the current resource view,    *)
(* its body is fetched, sent to every worker, and meshed together with its  *)
(* neighbours.  Meanwhile the view is replaced, chunks leave and return,    *)
(* workers fail and answers arrive late.                                    *)
(*                                                                          *)
(* An action is one callback of the main thread.  What the planner decides  *)
(* in a tick is one choice per action; deadlines and cooldowns are left     *)
(* open: what they delay may happen now or later.                           *)
(***************************************************************************)
EXTENDS ChunkState

CONSTANTS
  MaxBatch,   \* chunks of one IO batch
  Budgets     \* for TLC: the view a run begins with, and how many new views,
              \* changes of mind of the planner and failures (of requests,
              \* lookups, meshes, workers) it may have

ASSUME ChunkRuntimeAssumption ==
  /\ MaxBatch \in Nat \ {0}
  /\ \A q \in Budgets : q \in [first : Nat, views : Nat, moves : Nat, faults : Nat]
                         /\ q.first..(q.first + q.views) \subseteq DOMAIN Source

VARIABLES
  rt,         \* the runtime, see ChunkState
  batch,      \* the IO batches in flight, with their leases
  view,       \* the resource client's current view
  refresh,    \* refreshResources in flight: what it selected
  refreshed,  \* the view whose refresh succeeded last
  coverage,   \* the view loadChunkSourceCoverage asks about
  left        \* what is left of the budget

vars == <<rt, batch, view, refresh, refreshed, coverage, left>>

NotRefreshing == [on |-> FALSE, entry |-> [k \in Chunk |-> Nothing]]

Init ==
  /\ rt = InitialState
  /\ batch = [b \in BatchId |-> Nothing]
  /\ left \in Budgets
  /\ view = left.first /\ refreshed = view /\ coverage = view
  /\ refresh = NotRefreshing

Move == left.moves > 0 /\ left' = [left EXCEPT !.moves = @ - 1]
Fault == left.faults > 0 /\ left' = [left EXCEPT !.faults = @ - 1]
AlsoFails(why) == IF why \in {"retry", "fatal"} THEN Fault ELSE UNCHANGED left

(***************************************************************************)
(* The planner's tick                                                       *)
(***************************************************************************)
WantChunk(k, kind) ==
  /\ rt.demand[k] # kind
  /\ IF Wanted(rt, k) THEN Move ELSE UNCHANGED left
  /\ LET s1 == [rt EXCEPT !.demand[k] = kind,
                          !.chunks[k] = IF @ = Nothing THEN NewEntry ELSE @]
         s2 == IF s1.chunks[k].st = "checking" THEN EnqueueHash(s1, k) ELSE s1
     IN  rt' \in Flushes(s2)
  /\ UNCHANGED <<batch, view, refresh, refreshed, coverage>>

(* A demand nobody renews grows stale; unless a neighbour's job boosts it,  *)
(* the chunk also leaves the IO queues (prune).                             *)
DemandAges(k) ==
  /\ Move
  /\ Wanted(rt, k)
  /\ rt' \in { [rt EXCEPT !.demand[k] = "stale"],
               [rt EXCEPT !.demand[k] = "stale",
                          !.hashQ = @ \ {k}, !.fetchQ = @ \ {k}] }
  /\ UNCHANGED <<batch, view, refresh, refreshed, coverage>>

EvictChunk(k) ==
  /\ Move
  /\ Has(rt, k) /\ ChunkWorkIdle(rt, k)
  /\ rt' \in Flushes(DropEntry(rt, k))
  /\ UNCHANGED <<batch, view, refresh, refreshed, coverage>>

ReleaseWorkerData(k) ==
  /\ Move
  /\ Has(rt, k) /\ ChunkWorkIdle(rt, k)
  /\ rt.chunks[k].st = "stored" /\ rt.chunks[k].dig # Nothing
  /\ LET s1 == BroadcastDrop(rt, k)
     IN  rt' \in Flushes([s1 EXCEPT !.chunks[k] =
                            [@ EXCEPT !.st = "hashed", !.mask = {}]])
  /\ UNCHANGED <<batch, view, refresh, refreshed, coverage>>

ReleaseMesh(k) ==
  /\ Move
  /\ Has(rt, k) /\ ~Wanted(rt, k) /\ rt.chunks[k].shown # Nothing
  /\ rt' \in Flushes(RemoveDisplayedMesh(rt, k))
  /\ UNCHANGED <<batch, view, refresh, refreshed, coverage>>

(* The tick that decides nothing: it only starts what is runnable. *)
StartMesh(k) ==
  /\ rt.up /\ k \in Runnable(rt)
  /\ rt' \in UNION {FlushStarting(rt, S) : S \in {T \in SUBSET Runnable(rt) : k \in T}}
  /\ rt' # rt
  /\ UNCHANGED <<batch, view, refresh, refreshed, coverage, left>>

Flush ==
  /\ rt.up
  /\ rt' \in FlushStarting(rt, {})
  /\ rt' # rt
  /\ UNCHANGED <<batch, view, refresh, refreshed, coverage, left>>

(***************************************************************************)
(* IO batches: ChunkIoBatch leases its entries, current tells whether a     *)
(* lease still holds.                                                       *)
(***************************************************************************)
Phase(b) == batch[b].phase
InFlight(b) == batch[b] # Nothing
Leasing(s, b, k) ==
  /\ Has(s, k) /\ s.chunks[k].req = b
  /\ s.chunks[k].st = IF Phase(b) = "hash" THEN "resolving" ELSE "fetching"

Lease(s, b, keys, st) ==
  EachEntry(s, Range(keys), LAMBDA e : [e EXCEPT !.req = b, !.st = st])

Release(s, b) ==
  EachEntry(s, {k \in Chunk : Has(s, k) /\ s.chunks[k].req = b},
            LAMBDA e : [e EXCEPT !.req = Nothing])

(* What a batch answers for a chunk: how its request ended, under which     *)
(* view, and whether the answer is the body or only a resolution.           *)
Receive(s, k, answer) ==
  IF answer.why # "ok" THEN Fail(s, k, answer.why)
  ELSE LET resolved == HandleFetchedResolution(s, k, answer.view)
       IN  IF answer.body THEN HandleFetchedChunk(resolved, k, answer.view)
           ELSE resolved

(* The answers are handled in turn, where the lease still holds. *)
ForLeased(s, b, keys, answer) ==
  InTurn(s, keys, LAMBDA t, k :
    IF k \in DOMAIN answer /\ Leasing(t, b, k) THEN Receive(t, k, answer[k]) ELSE t)

(* takeIo forgets the queued keys whose state moved on. *)
TakeIo(s, keys, hash) ==
  LET kept(q, st) == {k \in q \ Range(keys) : Has(s, k) /\ s.chunks[k].st = st}
  IN  IF hash THEN [s EXCEPT !.hashQ = kept(@, "checking")]
      ELSE [s EXCEPT !.fetchQ = kept(@, "hashed")]

Distinct(q) == \A i, j \in DOMAIN q : q[i] = q[j] => i = j
Orders(K) == {q \in UNION {[1..n -> K] : n \in 1..MaxBatch} : Distinct(q)}

Undue == [k \in {} |-> Nothing]

FetchHashBatch(b, keys) ==
  /\ rt.up /\ ~InFlight(b)
  /\ keys \in Orders({k \in rt.hashQ : Has(rt, k) /\ rt.chunks[k].st = "checking"})
  /\ Cardinality({c \in BatchId : InFlight(c) /\ Phase(c) = "hash"}) < 2
  /\ batch' = [batch EXCEPT ![b] = [ phase |-> "hash", view |-> view, keys |-> keys,
                                     row |-> Undue, body |-> Undue ]]
  /\ rt' = Lease(TakeIo(rt, keys, TRUE), b, keys, "resolving")
  /\ UNCHANGED <<view, refresh, refreshed, coverage, left>>

(* Slip: what an old view answers is not refused. *)
EndsUnchecked(v) == {"ok", "retry", "fatal"}

(* How a request ends that was made under view v: assertCurrent refuses     *)
(* what an old view answers.                                                *)
Ends(v) == IF v = view THEN {"ok", "retry", "fatal"} ELSE {"expired"}

FinishBatch(b, s) ==
  /\ batch' = [batch EXCEPT ![b] = Nothing]
  /\ rt' = Release(s, b)

HashReply(b) ==
  /\ InFlight(b) /\ Phase(b) = "hash"
  /\ \E why \in Ends(batch[b].view) :
       /\ AlsoFails(why)
       /\ FinishBatch(b, ForLeased(rt, b, batch[b].keys,
            [k \in Range(batch[b].keys) |->
               [why |-> why, view |-> batch[b].view, body |-> FALSE]]))
  /\ UNCHANGED <<view, refresh, refreshed, coverage>>

(* fetchBatch resolves the entries without a resolution first. *)
FetchBatch(b, keys) ==
  /\ rt.up /\ ~InFlight(b)
  /\ keys \in Orders({k \in rt.fetchQ : Has(rt, k) /\ rt.chunks[k].st = "hashed"})
  /\ Cardinality({c \in BatchId : InFlight(c) /\ Phase(c) # "hash"}) < 2
  /\ LET row == [k \in Range(keys) |-> rt.chunks[k].res]
         unresolved == \E k \in Range(keys) : row[k] = Nothing
     IN  batch' = [batch EXCEPT ![b] =
                    [ phase |-> IF unresolved THEN "resolve" ELSE "read",
                      view |-> view, keys |-> keys, row |-> row,
                      body |-> [k \in Range(keys) |-> "reading"] ]]
  /\ rt' = Lease(TakeIo(rt, keys, FALSE), b, keys, "fetching")
  /\ UNCHANGED <<view, refresh, refreshed, coverage, left>>

FetchResolved(b) ==
  /\ InFlight(b) /\ Phase(b) = "resolve"
  /\ \E why \in Ends(batch[b].view) :
       LET keys == batch[b].keys
           asked == {k \in Range(keys) : why = "ok" => batch[b].row[k] = Nothing}
           s == ForLeased(rt, b, keys,
                  [k \in asked |-> [why |-> why, view |-> batch[b].view, body |-> FALSE]])
           rest == {k \in Range(keys) : Leasing(s, b, k)}
       IN  /\ AlsoFails(why)
           /\ IF rest = {} THEN FinishBatch(b, s)
              ELSE /\ rt' = s
                   /\ batch' = [batch EXCEPT
                        ![b] = [@ EXCEPT !.phase = "read",
                                         !.row = [k \in rest |-> s.chunks[k].res],
                                         !.body = [k \in rest |-> "reading"]]]
  /\ UNCHANGED <<view, refresh, refreshed, coverage>>

(* readChunks: each body is checked against the current view when it        *)
(* arrives, and they are handed over together when the last one has.        *)
BodyArrives(b, k) ==
  /\ InFlight(b) /\ Phase(b) = "read"
  /\ k \in DOMAIN batch[b].body /\ batch[b].body[k] = "reading"
  /\ \E why \in Ends(batch[b].row[k]) :
       LET body == [batch[b].body EXCEPT ![k] = why]
       IN  /\ AlsoFails(why)
           /\ IF \E c \in DOMAIN body : body[c] = "reading"
              THEN batch' = [batch EXCEPT ![b].body = body] /\ UNCHANGED rt
              ELSE FinishBatch(b, ForLeased(rt, b, batch[b].keys,
                     [c \in DOMAIN body |->
                        [why |-> body[c], view |-> batch[b].row[c], body |-> TRUE]]))
  /\ UNCHANGED <<view, refresh, refreshed, coverage>>

(***************************************************************************)
(* The resource view is replaced: the subscriber refreshes the runtime,     *)
(* which remembers what each entry had when it asked.                       *)
(***************************************************************************)
ViewChanges ==
  /\ left.views > 0 /\ left' = [left EXCEPT !.views = @ - 1]
  /\ view' = view + 1
  /\ refresh' = [ on |-> TRUE,
                  entry |-> [k \in Chunk |->
                    IF ~Has(rt, k) THEN Nothing
                    ELSE [res |-> rt.chunks[k].res, req |-> rt.chunks[k].req]] ]
  /\ UNCHANGED <<rt, batch, refreshed, coverage>>

RefreshEntry(s, k) ==
  LET row == Source[view][k]
      s1 == [s EXCEPT !.chunks[k] = [@ EXCEPT !.req = Nothing]]
      s2 == [s EXCEPT !.chunks[k] = [@ EXCEPT !.res = view]]
      s3 == ResetAfterSourceChange(
              [s2 EXCEPT !.chunks[k] = [@ EXCEPT !.req = Nothing]], k)
  IN  IF ~( /\ refresh.entry[k] # Nothing /\ Has(s, k)
            /\ s.chunks[k].res = refresh.entry[k].res
            /\ s.chunks[k].req = refresh.entry[k].req )
      THEN s
      ELSE IF row = "missing" THEN MarkUnavailable(s1, k, "absent", TRUE, TRUE)
      ELSE IF row = s.chunks[k].dig THEN s2
      ELSE EnqueueFetch([s3 EXCEPT !.chunks[k] =
                          [@ EXCEPT !.dig = row, !.st = "hashed"]], k)

RefreshEntries(s, order) == InTurn(s, order, RefreshEntry)

(* The entries are visited in the order in which they were made. *)
Turns == {q \in [1..Cardinality(Chunk) -> Chunk] : Distinct(q)}

RefreshReply ==
  /\ refresh.on
  /\ \E order \in Turns : rt' = RefreshEntries(rt, order)
  /\ refresh' = NotRefreshing /\ refreshed' = view
  /\ coverage' = view
  /\ UNCHANGED <<batch, view, left>>

(* Reported to the user, not tried again. *)
RefreshFails ==
  /\ refresh.on /\ refresh' = NotRefreshing
  /\ UNCHANGED <<rt, batch, view, refreshed, coverage, left>>

CoverEntry(s, k) ==
  IF Has(s, k) /\ Source[view][k] = "missing"
  THEN MarkUnavailable(s, k, "absent", TRUE, TRUE) ELSE s
CoverEntries(s, order) == InTurn(s, order, CoverEntry)

(* loadChunkSourceCoverage: chunks without a source are absent, and the     *)
(* scheduler starts over if any of them was thought to exist.               *)
CoverageReply ==
  /\ coverage = view
  /\ LET gone == {k \in Chunk : Has(rt, k) /\ Source[view][k] = "missing"}
         covered(order) == CoverEntries(rt, order)
     IN  \E order \in Turns :
           rt' = IF \A k \in gone : rt.chunks[k].st = "absent" THEN covered(order)
                 ELSE [covered(order) EXCEPT !.hashQ = {}, !.fetchQ = {},
                                          !.demand = [k \in Chunk |-> "none"]]
  /\ coverage' = Nothing
  /\ UNCHANGED <<batch, view, refresh, refreshed, left>>

(* It failed or was refused for an old view: what exists stays unknown. *)
CoverageFails ==
  /\ coverage # Nothing /\ coverage' = Nothing
  /\ UNCHANGED <<rt, batch, view, refresh, refreshed, left>>

(***************************************************************************)
(* Workers                                                                  *)
(***************************************************************************)
(* The mesh cache answers: it may have a mesh for a key it was asked for.   *)
(* The lookup, or what is done with its answer, may also fail.              *)
CacheLookupEnds(j) ==
  /\ rt.jobs[j] # Nothing /\ rt.jobs[j].phase = "cache"
  /\ LET job == rt.jobs[j]
         hit == ApplyMesh(rt, j, MeshOfParts(job.kind, job.parts))
         missed == [rt EXCEPT !.jobs[j] = [@ EXCEPT !.phase = "waiting"]]
     IN  \/ ~IsCurrentMeshJob(rt, j) /\ rt' \in Flushes(FinishMeshJob(rt, j))
            /\ UNCHANGED left
         \/ IsCurrentMeshJob(rt, j) /\ rt' \in Flushes(missed) /\ UNCHANGED left
         \/ /\ IsCurrentMeshJob(rt, j) /\ job.parts # Nothing
            /\ rt' \in Flushes(FinishMeshJob(
                 IF ShouldAcceptMeshResult(rt, j) THEN hit ELSE rt, j))
            /\ UNCHANGED left
         \/ Fault /\ rt' \in HandleMeshError(rt, j)
  /\ UNCHANGED <<batch, view, refresh, refreshed, coverage>>

WorkerReplies(w) ==
  /\ rt.reply[w] # <<>>
  /\ LET msg == Head(rt.reply[w])
         s == [rt EXCEPT !.reply[w] = Tail(@)]
     IN  \/ /\ msg.type = "chunk" /\ msg.dig \notin Malformed
            /\ rt' \in HandleChunkReady(s, w, msg.chunk, msg.dig)
            /\ UNCHANGED left
         \/ /\ msg.type = "chunk" /\ msg.dig \in Malformed
            /\ rt' = HandleChunkError(s, msg.chunk, msg.dig)
            /\ UNCHANGED left
         \/ /\ msg.type = "mesh"
            /\ rt' \in HandleMeshResult(s, msg.job, msg.from)
            /\ UNCHANGED left
         \/ /\ msg.type = "mesh" /\ Fault
            /\ rt' \in HandleMeshError(s, msg.job)
  /\ UNCHANGED <<batch, view, refresh, refreshed, coverage>>

WorkersFail ==
  /\ rt.up /\ Fault
  /\ rt' = RecoverWorkers(rt)
  /\ UNCHANGED <<batch, view, refresh, refreshed, coverage>>

WorkersRestart ==
  /\ ~rt.up
  /\ rt' \in Flushes([rt EXCEPT !.up = TRUE])
  /\ UNCHANGED <<batch, view, refresh, refreshed, coverage, left>>

(* What is due: ticks come with every frame and start what is runnable,     *)
(* timers flush the IO queues, requests, lookups, tasks and restarts end.   *)
Busy ==
  \/ ~rt.up \/ refresh.on \/ coverage # Nothing
  \/ \E b \in BatchId : InFlight(b)
  \/ \E j \in JobsOf(rt) : rt.jobs[j].phase = "cache"
  \/ \E w \in Worker : rt.reply[w] # <<>>
  \/ Runnable(rt) # {} /\ JobsOf(rt) # JobId
  \/ FlushStarting(rt, {}) # {rt}
  \/ \E k \in rt.hashQ : Has(rt, k) /\ rt.chunks[k].st = "checking"
  \/ \E k \in rt.fetchQ : Has(rt, k) /\ rt.chunks[k].st = "hashed"

(* Nothing is due: the page waits for its user. *)
Rest == ~Busy /\ UNCHANGED vars

Next ==
  \/ \E k \in Chunk :
       \/ \E kind \in Kind : WantChunk(k, kind)
       \/ DemandAges(k) \/ EvictChunk(k)
       \/ ReleaseWorkerData(k) \/ ReleaseMesh(k) \/ StartMesh(k)
  \/ Flush
  \/ \E b \in BatchId :
       \/ \E keys \in Orders(Chunk) : FetchHashBatch(b, keys) \/ FetchBatch(b, keys)
       \/ HashReply(b) \/ FetchResolved(b)
       \/ \E k \in Chunk : BodyArrives(b, k)
  \/ ViewChanges \/ RefreshReply \/ RefreshFails
  \/ CoverageReply \/ CoverageFails
  \/ \E j \in JobId : CacheLookupEnds(j)
  \/ \E w \in Worker : WorkerReplies(w)
  \/ WorkersFail \/ WorkersRestart
  \/ Rest

Spec == Init /\ [][Next]_vars

(* The main thread does not rest while something is due. *)
FairSpec == Spec /\ ([]<>~Busy \/ []<><<Next>>_vars)

(***************************************************************************)
(* Properties                                                               *)
(***************************************************************************)
Entries == {k \in Chunk : Has(rt, k)}

(* TypeOK: the type of every variable. *)
BatchType ==
  [ phase : {"hash", "resolve", "read"}, view : Views, keys : Seq(Chunk),
    row : UNION {[K -> OrNone(Views)] : K \in SUBSET Chunk},
    body : UNION {[K -> {"reading", "ok", "retry", "fatal", "expired"}] :
                    K \in SUBSET Chunk} ]
ASSUME BatchAssumption == Nothing \notin BatchType

TypeOK ==
  /\ rt \in StateType
  /\ batch \in [BatchId -> OrNone(BatchType)]
  /\ view \in Views /\ refreshed \in Views /\ coverage \in OrNone(Views)

(* PinsExact: a chunk is pinned as often as tasks that are with a worker    *)
(* depend on it, so no data is dropped under a task and none is kept after  *)
(* the last one.                                                            *)
PinsExact ==
  \A k \in Entries :
    rt.chunks[k].pins = Cardinality({j \in JobsOf(rt) : k \in rt.jobs[j].deps})

(* StoredMeansHeld: what the runtime calls stored, every worker holds in    *)
(* the content the runtime names, however late or doubled the              *)
(* acknowledgements were.                                                   *)
StoredMeansHeld ==
  \A k \in Entries : rt.chunks[k].st = "stored" =>
    \A w \in Worker : rt.column[w][k] = rt.chunks[k].dig

(* EveryWaitIsAnswered: an entry that waits for IO is leased to a batch in  *)
(* flight, one that waits for workers has an answer due from each worker    *)
(* that is missing, and one with a pending mesh has its job.                *)
EveryWaitIsAnswered ==
  \A k \in Entries :
    LET e == rt.chunks[k]
        due(w) == \E i \in DOMAIN rt.reply[w] :
                    /\ rt.reply[w][i].type = "chunk"
                    /\ rt.reply[w][i].chunk = k /\ rt.reply[w][i].dig = e.dig
    IN  /\ e.st \in {"resolving", "fetching"} =>
             e.req # Nothing /\ InFlight(e.req) /\ Leasing(rt, e.req, k)
        /\ e.st = "decoding" => \A w \in Worker \ e.mask : due(w)
        /\ e.pend # Nothing =>
             rt.jobs[e.pend] # Nothing /\ rt.jobs[e.pend].chunk = k

(* CleanMeansCurrent: a displayed mesh that is not marked dirty was built   *)
(* from what its stored neighbours contain now.                             *)
CleanMeansCurrent ==
  \A k \in Entries :
    (rt.chunks[k].shown # Nothing /\ ~rt.chunks[k].dirty) =>
      \A n \in Near[k] : (Has(rt, n) /\ rt.chunks[n].st = "stored") =>
        rt.chunks[k].shown.from[n] = rt.chunks[n].dig

(* A task whose mesh will be put in the cache, with its key.                *)
Keying(w, i) ==
  rt.reply[w][i].type = "mesh" /\ rt.jobs[rt.reply[w][i].job].parts # Nothing
PartsOf(w, i) == rt.jobs[rt.reply[w][i].job].parts

(* KeyedContentsTrue: where the key names a content, the task is built from *)
(* that content.                                                            *)
KeyedContentsTrue ==
  \A w \in Worker : \A i \in DOMAIN rt.reply[w] : Keying(w, i) =>
    \A n \in DOMAIN rt.reply[w][i].from :
      PartsOf(w, i)[n] # "missing" => rt.reply[w][i].from[n] = PartsOf(w, i)[n]

(* MeshContentsTrue: no mesh passes for one of other contents, neither on   *)
(* display nor, by its key, in the cache that outlives the page, as far as  *)
(* its neighbours have contents.  It does not speak of neighbours that have *)
(* vanished: those are what KeyedAbsencesTrue is about, and it is violated. *)
MeshContentsTrue == CleanMeansCurrent /\ KeyedContentsTrue

(* KeyedAbsencesTrue: where the key says that a neighbour is missing, the   *)
(* task is built without it: the key has every input that affects the mesh. *)
(* A chunk that becomes absent is not dropped from the workers, which still *)
(* build with it.                                                           *)
KeyedAbsencesTrue ==
  \A w \in Worker : \A i \in DOMAIN rt.reply[w] : Keying(w, i) =>
    \A n \in DOMAIN rt.reply[w][i].from :
      PartsOf(w, i)[n] = "missing" => rt.reply[w][i].from[n] = Nothing

(* RefreshReachesAll: once the refresh for a view has succeeded, no chunk   *)
(* is decoded or stored in the content of an earlier view.                  *)
RefreshReachesAll ==
  (refreshed = view) =>
    \A k \in Entries : rt.chunks[k].st \in {"decoding", "stored"} =>
      rt.chunks[k].dig = Source[view][k]

(* The mesh of a wanted chunk waits for the data of a neighbour whose       *)
(* demand was cleared with the coverage: nobody asks for it until the       *)
(* planner wants the neighbour or evicts it.                                *)
Orphaned ==
  \E j \in WaitingJobs(rt) :
    LET k == rt.jobs[j].chunk
    IN  /\ IsCurrentMeshJob(rt, j) /\ Wanted(rt, k)
        /\ \E n \in MissingInputs(rt, k) : rt.demand[n] = "none"

(* NothingForgotten: when nothing is due any more, every wanted chunk is    *)
(* displayed up to date, or known to be absent or broken: no entry was left *)
(* behind by a lost answer, a skipped flush or a queue it fell out of,      *)
(* except while meshes that wait for orphans take the slots.                *)
Served(k) ==
  rt.chunks[k].st \in {"absent", "error"} \/ Satisfied(rt, k) \/ Orphaned
NothingForgotten == ~Busy => \A k \in Chunk : Wanted(rt, k) => Served(k)

(* WantedIsServed: the work ends: a chunk that stays wanted comes to be     *)
(* served, however often its batches, leases and jobs are superseded.       *)
WantedIsServed ==
  \A k \in Chunk : Wanted(rt, k) ~> (~Wanted(rt, k) \/ Served(k))
=============================================================================
