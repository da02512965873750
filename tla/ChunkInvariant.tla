--------------------------- MODULE ChunkInvariant ---------------------------
(***************************************************************************)
(* What every reachable state of ChunkRuntime satisfies.  Safe is inductive *)
(* alone: pins are those of the tasks, who waits is waited for, and meshes  *)
(* that are shown or under way show what is known.  Awake is inductive with *)
(* it: whoever is wanted and not served is queued, or waits for something   *)
(* that is due.                                                             *)
(*                                                                          *)
(* The relations below say of two states what most methods of ChunkState do *)
(* to them.                                                                 *)
(***************************************************************************)
EXTENDS ChunkRuntime

(* Tasks that pin k. *)
Users(s, k) == {j \in JobId : s.jobs[j] # Nothing /\ k \in s.jobs[j].deps}

Pinned(s) ==
  \A k \in Chunk : IF Has(s, k) THEN s.chunks[k].pins = Cardinality(Users(s, k))
                   ELSE Users(s, k) = {}

(* What is sent to the workers is what they hold or will hold. *)
Held(s) ==
  \A k \in Chunk : Has(s, k) /\ s.chunks[k].st \in {"decoding", "stored"} =>
    /\ s.chunks[k].st = "stored" => s.chunks[k].dig \notin Malformed
    /\ s.chunks[k].dig \notin Malformed =>
         \A w \in Worker : s.column[w][k] = s.chunks[k].dig

(* The i-th message from w answers for the content d of k. *)
Answers(s, w, i, k, d) ==
  /\ s.reply[w][i].type = "chunk"
  /\ s.reply[w][i].chunk = k /\ s.reply[w][i].dig = d

Due(s) ==
  \A k \in Chunk : Has(s, k) /\ s.chunks[k].st = "decoding" =>
    \A w \in Worker \ s.chunks[k].mask :
      \E i \in 1..Len(s.reply[w]) : Answers(s, w, i, k, s.chunks[k].dig)

Pending(s) ==
  \A k \in Chunk : Has(s, k) /\ s.chunks[k].pend # Nothing =>
    /\ s.jobs[s.chunks[k].pend] # Nothing
    /\ s.jobs[s.chunks[k].pend].chunk = k

(* The i-th message from w ends a task. *)
EndsTask(s, w, i) == i \in 1..Len(s.reply[w]) /\ s.reply[w][i].type = "mesh"
TaskOf(s, w, i) == s.jobs[s.reply[w][i].job]

(* The worker still runs it, perhaps for a chunk that has been dropped. *)
Runs(s, w, i) ==
  /\ TaskOf(s, w, i) # Nothing
  /\ TaskOf(s, w, i).phase = "worker" /\ TaskOf(s, w, i).worker = w
  /\ TaskOf(s, w, i).chunk \in {s.reply[w][i].chunk, Nothing}

Alone(s, w, i) == \A h \in 1..Len(s.reply[w]) : EndsTask(s, w, h) => h = i

Tasks(s) ==
  /\ \A w \in Worker : \A i \in 1..Len(s.reply[w]) :
       EndsTask(s, w, i) => Runs(s, w, i) /\ Alone(s, w, i)
  /\ \A j \in JobId : s.jobs[j] # Nothing /\ s.jobs[j].phase # "worker" =>
       s.jobs[j].deps = {}

Sound(s) ==
  s \in StateType /\ Pinned(s) /\ Held(s) /\ Due(s) /\ Pending(s) /\ Tasks(s)

(* Leases: who waits for IO is waited for by the batch that leased it.      *)
Waits(s, k) == Has(s, k) /\ s.chunks[k].st \in {"resolving", "fetching"}

Expected(x) == IF x.phase = "read" THEN DOMAIN x.body ELSE Range(x.keys)

LeasesHeld(s, bs) ==
  \A k \in Chunk : Waits(s, k) =>
    LET e == s.chunks[k]
    IN  /\ e.req \in BatchId /\ bs[e.req] # Nothing
        /\ bs[e.req].phase = "hash" <=> e.st = "resolving"
        /\ k \in Expected(bs[e.req])
        /\ bs[e.req].phase = "resolve" /\ e.res = Nothing => bs[e.req].row[k] = Nothing

BatchesTyped(bs) ==
  /\ bs \in [BatchId -> OrNone(BatchType)]
  /\ \A b \in BatchId : bs[b] # Nothing =>
       /\ bs[b].phase = "resolve" => DOMAIN bs[b].row = Range(bs[b].keys)
       /\ bs[b].phase = "read" =>
            /\ DOMAIN bs[b].row = DOMAIN bs[b].body
            /\ DOMAIN bs[b].body \subseteq Range(bs[b].keys)
            /\ \A k \in DOMAIN bs[b].row : bs[b].row[k] # Nothing

LeftType == [first : Nat, views : Nat, moves : Nat, faults : Nat]

ViewsTyped ==
  /\ view \in Nat /\ left \in LeftType
  /\ view..(view + left.views) \subseteq Views
  /\ refreshed \in Views /\ coverage \in OrNone(Views)

(* What a mesh shows.  A mesh on display, one that the cache may answer and *)
(* one that a worker builds show what their neighbours contain, as long as  *)
(* nobody marked them.                                                      *)

(* What a worker builds. *)
Building(s, w) ==
  {s.reply[w][i] : i \in {h \in 1..Len(s.reply[w]) : s.reply[w][h].type = "mesh"}}

(* The workers had the entry's content, and its neighbours were told. *)
Known(e) == e.st \notin {"absent", "error"} /\ e.dig # Nothing /\ e.readyDig = e.dig

(* from shows what is known around k. *)
Around(s, k, from) ==
  \A n \in Near[k] \ {k} : Has(s, n) /\ Known(s.chunks[n]) => from[n] = s.chunks[n].dig

Shows(s, k, from, clean) ==
  DOMAIN from = Near[k] /\ from[k] = s.chunks[k].dig /\ (clean => Around(s, k, from))

(* What an entry may look like. *)
Plain(e) ==
  /\ e.dig = Nothing => /\ e.st \in {"checking", "resolving", "absent", "error"}
                        /\ e.shown = Nothing /\ e.pend = Nothing
  /\ e.dig = Nothing /\ e.readyDig # Nothing => e.st \in {"absent", "error"}
  /\ e.st = "stored" => e.readyDig = e.dig
  /\ e.pend # Nothing => e.st \notin {"absent", "error"}

Current(s, j) == s.jobs[j] # Nothing /\ IsCurrentMeshJob(s, j)

(* The current job of a chunk loses its token with the chunk's mesh. *)
Tidy(s) ==
  \A j \in JobId : Current(s, j) /\ ~s.jobs[j].clean => s.chunks[s.jobs[j].chunk].dirty

Shown(s) ==
  \A k \in Chunk : Has(s, k) /\ s.chunks[k].shown # Nothing =>
    Shows(s, k, s.chunks[k].shown.from, ~s.chunks[k].dirty)

LookedUp(s) ==
  \A j \in JobId :
    Current(s, j) /\ s.jobs[j].phase = "cache" /\ s.jobs[j].parts # Nothing =>
      Shows(s, s.jobs[j].chunk, s.jobs[j].parts, s.jobs[j].clean)

(* The contents that the key of what a worker builds names are those it is  *)
(* built from.                                                              *)
Keyed(s, m) ==
  s.jobs[m.job].parts # Nothing =>
    \A n \in DOMAIN m.from : s.jobs[m.job].parts[n] # "missing" =>
      m.from[n] = s.jobs[m.job].parts[n]

Built(s) ==
  \A w \in Worker : \A m \in Building(s, w) :
    /\ Current(s, m.job) => Shows(s, s.jobs[m.job].chunk, m.from, s.jobs[m.job].clean)
    /\ Keyed(s, m)

True(s) ==
  /\ \A k \in Chunk : Has(s, k) => Plain(s.chunks[k])
  /\ Tidy(s) /\ Shown(s) /\ LookedUp(s) /\ Built(s)

Safe ==
  Sound(rt) /\ True(rt) /\ BatchesTyped(batch) /\ LeasesHeld(rt, batch) /\ ViewsTyped

-----------------------------------------------------------------------------
(* Nobody who is wanted falls out of sight: who lacks even the name of its  *)
(* content is queued, who is decoded waits for some worker, and a job is    *)
(* with a worker as long as its task is.  So whatever is not served is      *)
(* waited for by something that is due.                                     *)

Alert(s) ==
  \A k \in Chunk :
    /\ Wanted(s, k) => Has(s, k) /\ (s.chunks[k].st = "checking" => k \in s.hashQ)
    /\ Has(s, k) /\ s.chunks[k].st = "decoding" => s.chunks[k].mask # Worker

(* Every job that is with a worker, but for J, has its task there. *)
Tasked(s, j) == \E w \in Worker : \E m \in Building(s, w) : m.job = j

Manned(s, J) ==
  \A j \in JobId \ J : s.jobs[j] # Nothing =>
    IF s.jobs[j].phase = "worker" THEN Tasked(s, j) ELSE s.jobs[j].worker = Nothing

Awake(s) == Alert(s) /\ Manned(s, {})

-----------------------------------------------------------------------------
(* Steps that only take back.                                               *)

(* The work of a job, as far as others rely on it. *)
SameJob(s, t, j) ==
  /\ t.jobs[j] = Nothing <=> s.jobs[j] = Nothing
  /\ s.jobs[j] # Nothing =>
       /\ t.jobs[j].chunk = s.jobs[j].chunk /\ t.jobs[j].deps = s.jobs[j].deps
       /\ t.jobs[j].phase = s.jobs[j].phase /\ t.jobs[j].worker = s.jobs[j].worker

Kept(s, t, k) ==
  /\ Has(t, k) <=> Has(s, k)
  /\ Has(s, k) => /\ t.chunks[k].pins = s.chunks[k].pins
                  /\ t.chunks[k].pend \in {s.chunks[k].pend, Nothing}

(* k has begun nothing. *)
Still(s, t, k) ==
  Has(s, k) =>
    /\ t.chunks[k].st \in {"decoding", "stored"} =>
         /\ t.chunks[k].st = s.chunks[k].st /\ t.chunks[k].dig = s.chunks[k].dig
         /\ t.chunks[k].mask = s.chunks[k].mask
         /\ \A w \in Worker : t.column[w][k] = s.column[w][k]
    /\ t.chunks[k].st \in {"resolving", "fetching"} =>
         /\ t.chunks[k].st = s.chunks[k].st /\ t.chunks[k].req = s.chunks[k].req
         /\ t.chunks[k].res = Nothing => s.chunks[k].res = Nothing

(* Nothing is begun, except perhaps with the chunks X. *)
Calmer(s, t, X) ==
  /\ t \in StateType
  /\ t.reply = s.reply
  /\ \A j \in JobId : SameJob(s, t, j)
  /\ \A k \in Chunk : Kept(s, t, k)
  /\ \A k \in Chunk \ X : Still(s, t, k)

NoNewWaits(s, t) ==
  \A k \in Chunk : Waits(t, k) =>
    /\ Waits(s, k) /\ t.chunks[k].st = s.chunks[k].st /\ t.chunks[k].req = s.chunks[k].req
    /\ t.chunks[k].res = Nothing => s.chunks[k].res = Nothing

Moves(s, t) == Sound(t) /\ NoNewWaits(s, t)

(* What is sent to the workers is not sent anew. *)
Flows(s, t, k) ==
  (Has(s, k) /\ t.chunks[k].st \in {"decoding", "stored"}) =>
    /\ t.chunks[k].st = s.chunks[k].st /\ t.chunks[k].dig = s.chunks[k].dig
    /\ t.chunks[k].mask = s.chunks[k].mask
    /\ \A w \in Worker : t.column[w][k] = s.column[w][k]

-----------------------------------------------------------------------------
(* What the parts of Sound depend on.                                       *)

(* An entry's data: what Held, Due and the leases are about. *)
SameData(s, t, k) ==
  /\ Has(t, k) <=> Has(s, k)
  /\ Has(s, k) =>
       /\ t.chunks[k].st = s.chunks[k].st /\ t.chunks[k].dig = s.chunks[k].dig
       /\ t.chunks[k].mask = s.chunks[k].mask
       /\ t.chunks[k].req = s.chunks[k].req /\ t.chunks[k].res = s.chunks[k].res

(* Messages stay where they are; there may be more of them. *)
Longer(s, t) ==
  \A w \in Worker : \A i \in 1..Len(s.reply[w]) :
    i \in 1..Len(t.reply[w]) /\ t.reply[w][i] = s.reply[w][i]

(* The messages that end a task are old ones, and their tasks live on. *)
Carried(s, t, w, i) ==
  /\ EndsTask(s, w, i) /\ t.reply[w][i] = s.reply[w][i]
  /\ TaskOf(t, w, i) # Nothing
  /\ TaskOf(t, w, i).phase = TaskOf(s, w, i).phase
  /\ TaskOf(t, w, i).worker = TaskOf(s, w, i).worker
  /\ TaskOf(t, w, i).chunk \in {TaskOf(s, w, i).chunk, Nothing}

(* No task of the jobs J is with a worker. *)
Unposted(s, J) ==
  \A w \in Worker : \A i \in 1..Len(s.reply[w]) :
    EndsTask(s, w, i) => s.reply[w][i].job \notin J

(* What the end of the jobs J leaves. *)
Ended(s, t, J) ==
  /\ t \in StateType /\ Pinned(t) /\ Pending(t)
  /\ t.column = s.column /\ t.reply = s.reply /\ t.demand = s.demand
  /\ \A j \in JobId : t.jobs[j] = IF j \in J THEN Nothing ELSE s.jobs[j]
  /\ \A k \in Chunk :
       /\ SameData(s, t, k)
       /\ Has(s, k) => t.chunks[k].pend = IF s.chunks[k].pend \in J THEN Nothing
                                          ELSE s.chunks[k].pend

(* All of Sound but Due. *)
Steady(s) == s \in StateType /\ Pinned(s) /\ Held(s) /\ Pending(s) /\ Tasks(s)

(* Somebody still answers, apart from the message m that was just taken.    *)
DueBut(s, w, m) ==
  \A k \in Chunk : Has(s, k) /\ s.chunks[k].st = "decoding" =>
    \A v \in Worker \ s.chunks[k].mask :
      \/ \E i \in 1..Len(s.reply[v]) : Answers(s, v, i, k, s.chunks[k].dig)
      \/ v = w /\ m.type = "chunk" /\ m.chunk = k /\ m.dig = s.chunks[k].dig

-----------------------------------------------------------------------------
(* Steps that show nothing new: meshes and jobs only go or are marked, and  *)
(* what becomes known is marked around, except perhaps around X.            *)

Fades(d, e) ==
  /\ e.shown \in {d.shown, Nothing} /\ e.pend \in {d.pend, Nothing}
  /\ e.shown # Nothing \/ e.pend # Nothing => (d.dirty => e.dirty)

Fits(d, e) ==
  /\ e.shown # Nothing \/ e.pend # Nothing => e.dig = d.dig
  /\ Plain(d) => Plain(e)

Lasts(d, e) == Known(e) => Known(d) /\ e.dig = d.dig

Marked(s, k) ==
  /\ \A n \in Chunk : n # k /\ k \in Near[n] /\ Has(s, n) /\ s.chunks[n].shown # Nothing =>
       s.chunks[n].dirty
  /\ \A j \in JobId : Current(s, j) /\ s.jobs[j].chunk # k /\ k \in Near[s.jobs[j].chunk] =>
       ~s.jobs[j].clean

SameTask(x, y) ==
  /\ y.phase \in {x.phase, "waiting"} /\ y.parts = x.parts
  /\ y.chunk \in {x.chunk, Nothing} /\ (y.clean => x.clean)

Quiet(s, t, X) ==
  /\ t \in StateType
  /\ \A k \in Chunk : Has(t, k) => Has(s, k) /\ Fades(s.chunks[k], t.chunks[k])
  /\ \A k \in Chunk \ X : Has(t, k) =>
       /\ Fits(s.chunks[k], t.chunks[k])
       /\ Lasts(s.chunks[k], t.chunks[k]) \/ Marked(t, k)
  /\ \A j \in JobId : t.jobs[j] # Nothing =>
       s.jobs[j] # Nothing /\ SameTask(s.jobs[j], t.jobs[j])
  /\ Tidy(s) => Tidy(t)
  /\ \A w \in Worker : Building(t, w) \subseteq Building(s, w)

(* What an entry contains and displays stays; its work goes on. *)
Works(d, e) ==
  /\ e.shown = d.shown /\ e.pend = d.pend /\ e.dig = d.dig /\ e.readyDig = d.readyDig
  /\ d.dirty => e.dirty
  /\ \/ e.st = d.st
     \/ d.st \in {"stored", "decoding"} /\ e.st = "hashed"
     \/ d.st = "checking" /\ e.st = "resolving"
     \/ d.st = "hashed" /\ e.st = "fetching"
     \/ d.st = "fetching" /\ e.st = "decoding"

(* The same is known of the same contents. *)
Alike(s, t) ==
  \A k \in Chunk : Has(t, k) =>
    IF Has(s, k) THEN /\ Known(t.chunks[k]) => Known(s.chunks[k])
                      /\ t.chunks[k].dig = s.chunks[k].dig
    ELSE ~Known(t.chunks[k])

Keeps(s, t) == Moves(s, t) /\ (True(s) => True(t))

-----------------------------------------------------------------------------
(* Steps that lose nothing that is due, and those that only go on.          *)

(* Who has to be resolved anew is queued, and nobody leaves the queue. *)
Asks(s, t) ==
  /\ t.demand = s.demand /\ s.hashQ \subseteq t.hashQ
  /\ \A k \in Chunk : Wanted(s, k) /\ Has(t, k) /\ t.chunks[k].st = "checking" =>
       (Has(s, k) /\ s.chunks[k].st = "checking") \/ k \in t.hashQ

(* Nothing that is due is lost. *)
Gentle(s, t) ==
  /\ Asks(s, t)
  /\ \A k \in Chunk :
       /\ Has(t, k) <=> Has(s, k)
       /\ Has(t, k) /\ t.chunks[k].st = "decoding" =>
            \/ t.chunks[k].mask # Worker
            \/ s.chunks[k].st = "decoding" /\ t.chunks[k].mask = s.chunks[k].mask
  /\ \A j \in JobId : t.jobs[j] # Nothing =>
       /\ s.jobs[j] # Nothing /\ t.jobs[j].worker = s.jobs[j].worker
       /\ t.jobs[j].phase = "worker" <=> s.jobs[j].phase = "worker"
  /\ \A w \in Worker : Building(s, w) \subseteq Building(t, w)

(* Queues grow; jobs end or go to the workers, and do not come back. *)
Onward(s, t) ==
  /\ s.hashQ \subseteq t.hashQ /\ s.fetchQ \subseteq t.fetchQ
  /\ \A j \in JobId :
       /\ s.jobs[j] = Nothing => t.jobs[j] = Nothing
       /\ s.jobs[j] # Nothing /\ s.jobs[j].phase = "worker" =>
            t.jobs[j] = Nothing \/ t.jobs[j].phase = "worker"

(* Every job that waits is the one its entry means. *)
Swept(s) == \A j \in WaitingJobs(s) : IsCurrentMeshJob(s, j)

(* The jobs a sweep ends, and what it asks for on behalf of the others. *)
Refused(s) == {j \in WaitingJobs(s) : ~(IsCurrentMeshJob(s, j) /\ ShouldAcceptMeshResult(s, j))}

Lacking(s, st) ==
  {n \in UNION {MissingInputs(s, s.jobs[j].chunk) : j \in WaitingJobs(s)} :
     s.chunks[n].st = st /\ s.demand[n] # "none"}

-----------------------------------------------------------------------------
(* Parts of the actions.                                                    *)

Put(s, k, e) == [s EXCEPT !.chunks[k] = e]

Heard(s, w) == [s EXCEPT !.reply[w] = Tail(@)]

(* What is known when m has been taken off the messages of w. *)
Arrives(s, w, m) ==
  /\ Steady(s) /\ NoNewWaits(rt, s) /\ DueBut(s, w, m)
  /\ m.type \in {"chunk", "mesh"}
  /\ m.type = "chunk" => m.chunk \in Chunk /\ m.dig \in Content
  /\ m.type = "mesh" =>
       /\ m.job \in JobId /\ s.jobs[m.job] # Nothing /\ m.from \in From
       /\ Unposted(s, {m.job})

(* What the main thread makes of it. *)
Heeds(s, w, m) ==
  \/ /\ m.type = "chunk" /\ m.dig \notin Malformed
     /\ rt' \in HandleChunkReady(s, w, m.chunk, m.dig)
  \/ /\ m.type = "chunk" /\ m.dig \in Malformed
     /\ rt' = HandleChunkError(s, m.chunk, m.dig)
  \/ m.type = "mesh" /\ rt' \in HandleMeshResult(s, m.job, m.from)
  \/ m.type = "mesh" /\ rt' \in HandleMeshError(s, m.job)

(* A lookup of the cache for the job j, which is over, hits, misses or fails. *)
Looks(j, hit, missed) ==
  \/ ~IsCurrentMeshJob(rt, j) /\ rt' \in Flushes(FinishMeshJob(rt, j))
  \/ IsCurrentMeshJob(rt, j) /\ rt' \in Flushes(missed)
  \/ /\ IsCurrentMeshJob(rt, j) /\ rt.jobs[j].parts # Nothing
     /\ rt' \in Flushes(FinishMeshJob(
          IF ShouldAcceptMeshResult(rt, j) THEN hit ELSE rt, j))
  \/ rt' \in HandleMeshError(rt, j)

(* What the planner, the frames and the workers do. *)
Calls ==
  \/ \E k \in Chunk :
       \/ \E kind \in Kind : WantChunk(k, kind)
       \/ DemandAges(k) \/ EvictChunk(k)
       \/ ReleaseWorkerData(k) \/ ReleaseMesh(k) \/ StartMesh(k)
  \/ Flush
  \/ \E j \in JobId : CacheLookupEnds(j)
  \/ \E w \in Worker : WorkerReplies(w)
  \/ WorkersFail \/ WorkersRestart

(* They change the runtime alone. *)
Callback ==
  /\ Keeps(rt, rt') /\ UNCHANGED <<batch, view, refresh, refreshed, coverage>>
  /\ Move \/ Fault \/ UNCHANGED left

(* A lease is answered: only a resolution that leaves the body to be read   *)
(* keeps it.                                                                *)
Handled(s, b, k, a) ==
  Leasing(s, b, k) =>
    a.why = "ok" /\ ~a.body /\ Phase(b) # "hash" /\ s.chunks[k].res # Nothing
=============================================================================
