# Violet Map: a verification development

Violet Map serves Minecraft worlds to a browser. Its server turns world files
into *derived resources* (chunks, textures, top-map tiles, overlay media),
keeps them in caches, and can *publish* a consistent set of them to an object
store that browsers read directly. This directory holds TLA+ models of the
parts of it whose correctness depends on the order of events, the TLC
configurations that check them on small instances, and proofs that hold for
instances of every size.

## The system

| Component | Sources (`packages/`) | State it keeps | Operations |
|---|---|---|---|
| publication authority | `resources/src/publication.ts`, `publicTarget.ts`, `storage/src/contentAddressed.ts` | `writer.json`, `heads/current.json`, `manifests/`, `indexes/`, `objects/`, `prepared/`, `retained/`, `pins/`, `pending/` in a shared store; the ownership token in memory | acquire, commit, retained reads, pin, recover, roots, close |
| publisher | `resources/src/publisher.ts` | publication state, debounce timer | publish, prepare, schedule, resume, verify, recover, gc, reindex |
| collector | `resources/src/gc.ts` | a Bloom mark set | one mark and sweep |
| snapshot gate | `resources/src/snapshotGate.ts` | reader count, writer flag, queue, tokens | read, write |
| resource engine | `resources/src/engine.ts`, `sourceSnapshot.ts`, `invalidation.ts` | source generation, source snapshot, pending marker | head, resolve, projections, mutateSource |
| view sessions | `resources/src/viewSessions.ts` | views and their expiry | retain, get |
| blob repository | `resources/src/blobRepository.ts`, `handoff.ts`, `budget.ts`, `singleflight.ts`, `generator.ts`, `cache.ts` | byte budgets with waiting queues, promised bytes, coalesced tasks, a memory cache | build, ensure, acquire, promise, close |
| persistent cache | `resources/src/persistentCache.ts` | owner record, bodies and action records, their inventory in memory | initialize, retain, read, action, close |
| storage | `storage/src/local.ts`, `s3.ts`, `httpCas.ts`, `cached.ts`, `sync.ts` | files, lock files, metadata caches | read, create, replace, compareExchange, list |
| content service | `server/src/content.ts` | layers, revisions, maps, media, their heads | one serial queue of mutations |
| users | `server/src/users.ts` | accounts and credentials in SQL | account administration |
| web runtimes | `web/src/runtime`, `scheduling`, `resources`, `worker` | chunk entries, requests, mesh jobs, tiles, shared downloads | configure, update, results that arrive |
| data model, rendering, CLI, admin | `core`, `render`, `cli`, `admin` | none worth a model | parsing, meshing, forms |

How they interact: several server or CLI processes may point at one object
store and meet only there, through conditional writes. Inside a process the
engine, the publisher and the content service meet at one snapshot gate: reads
of the source share it, publishing, collecting, recovering and changing the
source have it alone. The repository produces bytes for the engine and for the
publisher; the web client reads either the server or the published store.

Hard behaviours, and what correctness means there:

* *Publication*: writers race, crash at any storage call and are recovered by
  an operator; the collector deletes while somebody else builds. The visible
  publication must always be complete, replaced only in order by its owner, and
  a replaced one must stay readable as long as promised.
* *Gate*: exclusion, no lost wake-up, no overtaking, progress.
* *Repository*: budgets at their limits, waiters with deadlines and cancellation,
  promises that expire, results shared by several callers, shutdown.
* *Caches and content*: crashes between two writes, reads that overlap writes.
* *Web*: results that arrive after the question has changed.

`PROJECT.json` lists the hazards one by one at their lines, with the properties
that cover them or the reason none does, and says of every component what of it
is modelled.

## Modules

| Module | What it is |
|---|---|
| `Publication` | publishers, recovery and collection against one store, one action per storage call |
| `PublicationRegister` | what readers are promised: a register of complete publications |
| `MCPublication` | instances for TLC |
| `Publication_proofs` | theorems about `Publication`, for every value of its constants |
| `SnapshotGate` | the in-process reader/writer barrier |
| `SnapshotGate_proofs` | theorems about `SnapshotGate` |
| `ByteBudget` | a byte budget with its queue, as operators on a record |
| `Repository` | the blob repository and the requests that use it; two `ByteBudget` instances, `Handoff` and `Work` |
| `MCRepository` | instances for TLC |
| `Sums_proofs` | lemmas about least elements, iteration and sums over finite sets |
| `ByteBudget_proofs` | what each operator of `ByteBudget` leaves behind, for any capacity and queue |
| `Repository_proofs` | theorems about `Repository`, for every value of its constants |
| `Source` | changes of source and content, publications that the timer starts or somebody asks for, views, crashes and restarts |
| `MCSource` | an instance for TLC |
| `Source_proofs` | theorems about `Source`, for every value of its constants |
| `Content` | the content service: layers, media and maps, their writes and their readers |
| `MCContent` | an instance for TLC |
| `Content_proofs` | theorems about `Content`, for every value of its constants |
| `ChunkState` | what a `ChunkRuntime` of the viewer holds, its methods as operators on a state |
| `ChunkRuntime` | the handlers: planner, IO batches, view refresh, mesh cache, workers |
| `MCChunkRuntime` | instances for TLC |
| `ChunkInvariant` | the inductive invariants of `ChunkRuntime`, `Safe` and `Awake`, and the relations between states that its methods keep |
| `ChunkRuntime_proofs` | theorems about `ChunkRuntime`, for every value of its constants |

`Publication`, `SnapshotGate`, `Repository`, `Source` and `Content` each take
one side of the server and meet as follows. `Source` and `Publication` take the
gate as `SnapshotGate` establishes it: those that write the source or the store
run alone, in the order of their calls. `Source` takes a publication as one
reading and one commit, whose storage calls are those of `Publication`, and
`Publication` takes the choice of what to publish as any; `Content` is the
inside of the one step that is a change of content in `Source`. `ChunkRuntime`
asks the views of `Source` for chunks, and takes what is answered under one view
as a function of that view (`Source`, a constant there), which is what
`AnswersCurrent` says.

### Publication

A process is one `PublicationStore` with its publisher; the server starts it
with `Start`, `Crash` loses its memory. `pc` says which storage call comes next,
`owner` is `PublicationStore.owner` and `job` holds the locals of the operation
in progress. Since every operation of a process holds the write side of the
gate, a process runs one at a time. Each action is one storage call together
with the decisions the code makes on its result; consecutive reads that decide
the same question are one action (the closure check, the marking pass, the
document and head read before the swap). `Fault` ends the operation at any
call, before or after its effect.

* *acquire* is `AcquireRead`, `AcquireCas`, `AcquireReread`; *assertWriter* is
  `AssertWriter`, and a process returns to `job.back` afterwards. *close* is
  `Close`; that `writer.json` is released and that the process forgets its token
  (`publication.ts:536-544`) are one step of it. Between the two the process only
  waits for the answer, on its way out, and writes nothing; stated literally
  `OwnerNeverStale` would except that wait.
* *publish* is `PublishStart` (the manifest is chosen, the head read), then per
  object of its closure `EnsureStat` and, when it is missing, ownership and
  `Create`; then *commit*: `CommitHead`, `CommitClosure`, ownership, `Prepare`,
  `EnsureManifest`, `CommitClosureOwned`, `CommitReadHead`, `RetirePrevious`,
  `Retain`, `SwingHead`, `Cleanup` or `CleanupFails`.
* *recover* is `RecoverStart`, `RecoverCas`, ownership, `ScanPrepared` and per
  record `ReplayClean`, `ReplayCommit` (into commit) or `ReplayConflict`.
  It is allowed only when every other process is down, which the command line
  makes the operator confirm.
* *gc* is `GcStart`, ownership, `Mark`, then `SweepObject` and `SweepManifest` in
  any number, and `GcDone`.

What is abstracted: a publication is the digest of its manifest and its closure
a constant set of objects and index pages; compare-exchange tokens are digests
of the document, so the document stands for its token; each prepared record is
found by recovery in some order; Bloom collisions only keep garbage and are the
choice to end a sweep early. `landed` and `promise` are history variables: the
prepared records whose publication has become visible, and the retirement time
of each publication that was the head.

### SnapshotGate

`Call` is `run` up to its `await`, `Resume` the microtask after it, `End` the
`finally` block with `drain`. Between start and resume a caller already counts.
A call made with an active token runs in its parent's turn and changes nothing;
one that finds the queue full throws and changes nothing.

### Repository

JavaScript runs one callback at a time, so an action is what runs between two
awaits that can really wait: for bytes of a budget, for a build, for a client or
a backend. A request (`pc`, `want`) is a viewer, which resolves a resource and
later reads its body, or a publisher, which collects an entry and copies it.
`build[k]` is how far the one build of resource `k` is, `claims` the handoff
entries with their claim counts, `reserved` is `reservedEntries`, `leases` the
generation leases of `generator.ts` with the requests that share each.

* *resolve* is `Promise` (the view knows the entry and its body is pinned or
  cached) or `Resolve`, which joins or starts a build (`Join`). A batch that
  fails later gives its promise back: `Cancel`.
* *build* is `Join`, then `AskWork` when the handoff bytes are there, then
  `Found` (a known action with its body at hand) or `Retain` (the output is
  there), `Complete` or, at any point, `Fail`. `Deliver` is the run of microtasks
  in which everyone who joined takes its claim and the build's own is released.
* *read* is `Read`, where what is gone is built again, `Acquire` after that,
  `Open` when the work bytes are there, `Return` and `Finish`.
* *publishing* an entry is `Read`, `Acquire`, `Open`, `Verify`, `Published`;
  `Discard` is a publication that only prepares.
* Time is `Deadline` of a wait for bytes and `Expire` of a pin, shutdown `Close`
  and `Closed`.

What is abstracted: a resource has one action and one artifact, so the two
levels of coalescing (`prepares`, `tasks`) are one; the comparison of source
generations, missing input, failing generators and layers are the one choice
`Fail`; which cached bytes the cache keeps is a free choice (`Retain`, `Evict`)
within `CacheKeys`; the gate is left out, since readers share it and a publisher
that has it alone only restricts the interleavings. A viewer that cancels does
not ask again; one that failed may try again.

### Source

One server with a controlled source. `source` gives each part of the source
(chunks, and the parts of the render root) a version, `content` is the version
of the content, `record` is `pending/current.json` and `head` what is published.
`generation` is `InvalidationCoordinator.current`, `root` the engine's copy of the render
root with the generation it was made under, `requires` the publisher's
`requiresSourceSnapshot`, and `timer` its timer together with `dirtySince`.

Clients call (`Call`) and join the queue of the gate. The first of the queue is
admitted when nobody writes and, if it writes itself, when nobody takes a view.

* *mutateSource* of a source change is `MutateSource`, `MarkerWritten` or
  `MarkerFails`, `WritePart` for each part, `EndMutation`. The generation
  advances at both ends.
* *mutateSource* of a content change is `MutateContent`, the one step in which
  the operation commits, then `ContentNoted`: the marker is attempted, a
  publication scheduled.
* *publish* is `Begin`, which remembers the generation; then the render root,
  which is the engine's copy (`TakeRoot`) or, when there is none of this
  generation, is read part by part (`RenderPart`) and kept (`KeepRoot`); then
  `ReadPart` for each other part and `ReadContent`, each at a moment of its own;
  `AssertCurrent`, the comparison of generations in `commit`; `Commit`, `Clear`, or at any
  point before, `BuildFails`, with the head swung or not. A publication
  of the timer (`TimerFires`) that failed goes on outside the gate:
  `ReportFailure` takes the flag its record will carry, `FailureRecorded` is the
  write that lands later. *resume* is `Resume`.
* *head* is `BeginView`, the same reading of the render root, and `TakeView` or
  `ViewFails`: a view may make the copy that a later publication takes. *resolve*
  of a batch is `Resolve`, then per member `Hit`
  (the view or the render root knows it) or `Ask` and, under the gate,
  `Generate`; its last lines are `Answer`.
* `Crash` ends the process between any two steps and keeps the stores.

What is abstracted: the resources of the source are read in any order, and
several views that ask for the render root at once may each read parts of it,
where the code shares one flight; a failed write of the marker may have landed;
operations that change the content are all or nothing here (`Content` opens them). History
variables: `changed`, the source was written since it was last published;
`tried`, the last content whose publication failed; `late`, below.

### Content

`layers`, `revisions`, `media`, `versions`, `blobs` and `maps` are the documents
and originals of the content service by their paths. A document is reduced to
what it refers to. A mutation begins (`Begins`) when those called before it have
settled; its checks are one step, since only mutations write, and nobody else's
mutation runs. Then each of its writes is a step: `RevisionWritten` and
`LayerWritten`, `BlobWritten`, `VersionWritten` and `MediaWritten`, `MapWritten`.
`Fails` ends it at any of them, with the write landed or not, which is also what
a crash does, for nothing is kept in memory but the queue.

Readers never queue. `ReadMap` to `ReadOriginal` are the lookups of a snapshot of
a map, of one retained revision, and of the original of a medium, one document
per step. A reader that meets a document it was referred to and that is not
there is `missing`, one that meets a layer that has been deleted is in
`conflict`; both are states so that `ReadersServed` can speak of them.

### ChunkRuntime

`rt` is the state of a `ChunkRuntime` with its scheduler's demand and queues:
`chunks[k]` the entry (`st`, digest, resolution, lease `req`, worker
acknowledgements `mask`, `pins`, pending job, displayed mesh, `dirty`), `jobs`
the slots of `meshJobs`. The methods (`markUnavailable`, `resetAfterSourceChange`,
`requestMesh`, `flushMeshQueue`, `finishMeshJob`, `recoverWorkers`, ...) are
operators of `ChunkState` from state to state; an action of `ChunkRuntime` is one
callback of the main thread.

* *Planner*: `WantChunk`, `DemandAges`, `EvictChunk`, `ReleaseWorkerData`,
  `ReleaseMesh`; `StartMesh` and `Flush` are ticks that only start work.
* *IO*: `FetchHashBatch` with `HashReply`; `FetchBatch` with `FetchResolved` and
  one `BodyArrives` per body. A batch answered under a view that is no longer
  current fails as expired.
* *Views*: `ViewChanges`, `RefreshReply`, `RefreshFails`, `CoverageReply`,
  `CoverageFails`.
* *Workers*: `WorkerReplies`, `WorkersFail`, `WorkersRestart`, and
  `CacheLookupEnds` for the persistent mesh cache, which answers or fails.

A worker answers in the order it was asked and from nothing but what it was
sent, so its answer is fixed when a message is posted: `column[w]` is what worker
`w` will hold once it has handled everything posted, and a mesh task records
what it is built from. What is abstracted: which chunks the camera wants and in
what order they start, cooldowns and retry delays (anything they delay may
happen now or later), and geometry: a mesh is the contents it was built from.

## What TLC checks

| Run | Instance | Properties |
|---|---|---|
| `gc` | 2 processes, 2 contents that share an index page, 1 time step, both ages 1, epochs to 3, revisions to 2 | `TypeOK`, `OwnerNeverStale`, `RetentionPrecedesVisibility`, `HeadComplete`, `ReaderPromise`, `HeadReplacesItsParent`, `PreparedUntilVisible`, `ImplementsRegister` |
| `replay` | 2 processes, epochs and revisions to 3, no time | expected violation of `LandedRecordNotReplayed`, below |
| `gate` | 5 callers, queue of 3, 2 readers | `TypeOK`, `Exclusion`, `CountersExact`, `NoLostWakeup`, `NoOvertaking`, `NoStarvation` |
| `repository` | 3 viewers, 1 publisher, 2 or 3 resources of 3, 1 and 1 bytes, one of them cacheable, build bounds of 3, 5 handoff bytes, 4 work bytes, 2 entries, 2 tasks, 1 deadline or expiry | `TypeOK`, `BudgetsExact`, `NobodyOversleeps`, `ClaimsCoverPromises`, `NothingAfterClose`, `BoundSuffices`, `RequestsAnswered`, `ShutdownCompletes` |
| `admission` | as `repository` | expected violation of `AdmissionComesFirst`, below |
| `source` | 2 clients, one for the source and one for everything else, 2 callbacks of the timer, a part in the render root and one outside, both delays 1, 2 changes, 1 crash, everything may fail | `TypeOK`, `MarkerPrecedesChange`, `NothingUnscheduled`, `NotPutOff`, `AnswersCurrent`, `CommitsCurrent` |
| `source_debounce` | the same, nothing fails, a debounce (2) longer than the maximal delay (1) | expected violation of `NoPartialPublication`, below |
| `content` | 2 mutations at once, 1 reader, 2 layers, 1 asset with 2 versions, 1 map with 1 binding, 2 revisions, 3 of an asset | `TypeOK`, `ReferencesHeld`, `ReadersServed`, `CommittedStays` |
| `chunks` | 2 chunks that are neighbours, 2 workers, 2 jobs, 2 batches of one chunk; one new view in which a chunk is replaced, or one in which it vanishes, or two changes of mind, or one failure | `TypeOK`, `PinsExact`, `StoredMeansHeld`, `EveryWaitIsAnswered`, `MeshContentsTrue`, `RefreshReachesAll`, `NothingForgotten` |
| `chunks_live` | 2 chunks, 1 worker, 2 jobs, 1 batch; one new view, one change of mind, or one failure | `WantedIsServed` |
| `chunks_refresh` | batches of 2 chunks, one new view in which a chunk is replaced | expected violation of `RefreshReachesAll`, below |
| `chunks_absence` | 1 worker, one new view in which a chunk vanishes | expected violation of `KeyedAbsencesTrue`, below |

Bounds. `MaxEpoch` bounds how often the store changes hands, `MaxRevision` how
often the head changes, `MaxClock` the time; each is a guard of the action that
would pass it, and operations in progress may still fail, crash or end there.
Two epochs let one process take the store from the other, with the collection
and the recovery of either beside what the other had begun; the third lets it be
taken again. Two revisions let a publication be replaced, and a third, in
`replay`, lets a content be published, replaced and published again. The two
contents share a page, so that the sweep of one meets what keeps the other: an
object differs from a page only in that the collector looks at the head once
more before it deletes one, so the page is the harder case. With a clock of one
step and ages of one every byte is either new or old enough to be collected.
Promises longer than orphan ages, contents that share nothing and longer
histories are left to the theorems, which hold for all of them. Processes are
interchangeable and, since they are alike, so are the contents; `gc` uses both
symmetries, and no liveness is checked under them. In the gate five callers exceed readers plus queue minus one,
so both limits and a full queue are met.

In the repository the handoff store has room for one build, which declares 3
bytes, and two small bodies, but not for two builds nor for a build beside the
largest body, and the work budget for a build or the largest transfer beside a
small one: builds wait for each other and for downloads, and downloads for builds,
which is the cycle the order of the two reservations must break. The queue of a
budget (2) can be full, and a bound exceeds the body it is exchanged for. The pins
of small bodies, one of them cached, fill the two entries while a build runs.
`MixedWants` gives the viewers three different resources and the publisher the
largest, or two viewers the same one and the third and the publisher another.
`MaxLate` bounds deadlines and expiries
together, the guard of `Deadline` and `Expire`: one lets a wait end, or a pin go,
while those it was in the way of go on. `MaxReads` is how often a viewer reads a
reference. It is one, which is what makes the claims exact: `consume` takes any
claim of a digest (`handoff.ts:93`), so a viewer that reads a reference twice
uses up the claim of another, whose body may then have to be built again.

In `source` two changes let a change of the source overlap one of the content,
and two callbacks let a debounced publication start while the record of an
older failure is still on its way. One part is in the render root and one is read
afterwards, so that a publication joins what was kept from before a change with
what is read after it, if anything lets it. With a debounce and a maximal delay of
one tick a timer is due, renewed or at its limit; the configuration accepts a
debounce longer than the maximal delay, which is how `source_debounce` has it. One
crash falls between any two steps; what a restart finds is the stores alone, so a second one brings nothing
that another initial `record` and `head` would not (`Init` starts with a head or
without).

In `content` two revisions let a layer or a map be replaced and a stale
`If-Match` be refused; a third, of an asset, lets a version be added and removed
again (`MaxMedia`). Layers show both versions of the medium or nothing, so that
a reader looks several documents up and a removed version may be one that is
still shown; the second layer makes the difference between the layer referred to
and another. Clients, layers and versions are interchangeable and the run uses
it.

In `chunks` the two chunks are each other's neighbours, which is the dependence
that pins, keys and dirtiness are about; two workers make an acknowledgement
partial, two batches let one chunk be fetched anew while its superseded batch is
in flight. `Budgets` says from which view a behaviour starts and what else may happen in
it: a new view, a change of mind of the planner (in `chunks` two, for a demand first
ages and then its chunk is released) or a failure; all in one behaviour are beyond
TLC. `Changing` has three views: in the second one chunk is replaced, in the third it
has vanished. In `chunks_live` one chunk vanishes and the other becomes one that no
worker can parse.

With three chunks in a line, which no run has, there is one state
more. When the coverage arrives and names a chunk absent that was thought to
exist, every demand is cleared (`chunkRuntime.ts:342`). If the planner then wants
a chunk but not its neighbour, the mesh waits for data that nobody may ask for,
and its job keeps its slot (`Orphaned`). `selectChunkEvictions` drops such a
neighbour sooner or later, or the planner wants it again; neither is owed in the
model, which leaves the camera open, so `NothingForgotten` and `WantedIsServed`
excuse it. The two chunks of the runs never need the excuse: where one has no
source, the other waits for nobody.

Fairness. `SnapshotGate`, `Repository` and `ChunkRuntime` have liveness
properties. The gate's steps `Resume` and
`End` are weakly fair: microtasks run, and every operation under the gate ends,
by returning or throwing, and releases it in a `finally` block. Nothing makes a
caller call. In `Repository` the next step of a build, of a viewer and of a
publisher is weakly fair, and so is `Closed`: awaited work settles, and clients
read what they were promised and end their transfers, one way or another.
Nothing is assumed of new requests, cancellations, evictions, `Close`,
`Deadline` and `Expire`. `RequestsAnswered` counts only behaviours in which no
deadline or expiry was needed (`late = 0`): that is its point, since the code's
30 seconds would end any wait. `ChunkRuntime` assumes that the main thread does
not rest while something is due (`FairSpec`): in every behaviour `Busy` is false
again and again, or steps that change something go on for ever. `Busy` lists what
is due: requests, lookups and tasks that end, runnable meshes that the tick of
the next frame starts, queues that timers flush. Which of them comes next is left
open, so `WantedIsServed` also excludes that work is redone without end. The
disjunct `Rest` makes the deadlock check of these runs say that a busy runtime
can always move.
`Publication`, `Source` and `Content` state no fairness: a crashed owner or a
failed change is taken up by an operator who may never come, so no progress
follows from the code. What `Source` must not forget is stated as safety
(`NothingUnscheduled`, `NotPutOff`).

### Disagreements between documents and code

*`replay`.* The comment after a failed deletion of a prepared record says "Head
already committed; the durable prepared root is safe to recover."
(`publication.ts:385`). When the content the record was a child of has been
published again, recovery commits the record a second time, and an older
publication replaces a newer one. Once any other newer publication is visible,
recovery finds the record's parent replaced and throws instead, and the record
stays.

*`admission`.* `docs/resources.md:17` says of the work and handoff budgets
"reserve before preparing input; admission failures reject before generation".
`reserve` counts the entries of the store and those that admitted builds have
reserved (`handoff.ts:34`), but `put` compares `maxEntries` with the entries
alone (`handoff.ts:70`). A viewer that is promised a cached body takes an entry
that a running build has reserved, and the output of the build is refused after
it has been generated. The bytes do suffice, which is `BoundSuffices`: an
admitted build is refused for want of an entry only.

*`source_debounce`.* `docs/resources.md:101` says of the pending marker that it
"prevents an unrelated content debounce from publishing a partially synchronized
source". The callback of the timer looks at `requiresSourceSnapshot` and then
queues its publication at the gate (`publisher.ts:77`). A change of the source
that waits there before it sets the marker and ends, and the publication behind
it, which does not look again, publishes what the change left and clears the
marker. `NoPartialPublication` is violated without any failure.

*`chunks_refresh`.* `docs/resources.md:54` says "Changed views reject stale
bytes". Each body of a batch is checked against the current view as it arrives,
but bodies are handed over together, when the last one has. A body accepted
under the old view is decoded after the view changed; the batch then gives up
its lease, so the refresh that was asked for meanwhile finds another request than
it remembered and skips the chunk, and nothing asks again: the old content stays
until the next view. With batches of one chunk it cannot happen, and `chunks`
checks `RefreshReachesAll` there.

*`chunks_absence`.* `docs/viewer-architecture.md:69` says that the "[r]ender cache
identity lives in `resources/renderKey.ts` and continues to include every input that
affects mesh bytes". A chunk that was stored and is then found absent is cleared by
`markUnavailable` (`chunkRuntime.ts:1003-1018`), which, unlike
`resetAfterSourceChange` and `releaseWorkerData`, tells no worker to drop its column.
Its neighbours are marked dirty and meshed again; their key says `missing` for it and
counts as stable (`chunkRuntime.ts:833`), but a worker builds from every column it
holds (`meshWorker.ts:145-161`), the vanished one too, and the mesh goes into the
cache that outlives the page under that key (`chunkRuntime.ts:1389`, `1427`). The
same mesh is what the page displays, marked clean, until the worker data is released
for another reason. `MeshContentsTrue` is what does hold: it speaks of neighbours
that have contents, on display and in the keys, and says nothing of those that have
vanished.

One more disagreement has no run of its own. `docs/resources.md:101` says of the
pending marker, in the sentence quoted above, "This marker survives publisher
restart". A debounced publication that failed writes its failure record outside the
gate, with the flag it read before (`publisher.ts:81`). When a change of the source
begins in between, the record lands after the marker of that change and replaces it:
the marker in memory still holds, but a restart reads the record, and debounced
publications resume beside a partially synchronized source. `MarkerPrecedesChange`
is stated up to exactly this: `late` is set by that one write and ends with the next
marker. Without `~late` the run `source` violates it, by a scheduled publication that
fails, a change of the source that writes its marker and a part, and the record.

Every property of a passing run has a mutant, an operator that changes one
mapped definition the way a slip in the code would (`PROJECT.json`, "mutants");
TLC finds the property violated with it.

## What is proved

`Publication_proofs` proves, for every set of processes, publications and
objects, every closure, every age and every bound:

| Theorem | Property |
|---|---|
| `TypeCorrect` | `TypeOK` |
| `OwnershipCorrect` | `OwnerNeverStale` |
| `RetentionBeforeHead` | `RetentionPrecedesVisibility` |
| `HeadAlwaysComplete` | `HeadComplete` |
| `HeadChangesInOrder` | `HeadReplacesItsParent` |
| `PreparedKept` | `PreparedUntilVisible` |
| `ReadersKept` | `ReaderPromise` |
| `RegisterImplemented` | `ImplementsRegister` |

The only assumption is `ConstantsAssumption` of `Publication`: the special
values are not members of the sets they are distinguished from, publications
are not objects, and ages are positive.

The argument is one induction, laid out in four layers, each using those before
it.

1. *Typing*: `StoreTyped`, `ProcessTyped`, and `Carried`, which says for each
   label what the locals hold there (a process about to create has an object,
   one about to swing has read a head). `SwingRetained` adds that a process
   about to swing has written the retention record, which yields
   `RetentionPrecedesVisibility`.
2. *Context*: `Holding`. A process that keeps a token is the owner in
   `writer.json`, one that is between the compare-exchange and its re-read is
   too, and a recovery is alone. `OwnerNeverStale` is not inductive without the
   middle clause, because between those two calls the process owns the store
   without knowing it.
3. *Safe*: `HeadComplete` together with `SafeAt`, which says of each process
   what it still relies on. A committing owner past its second check has a
   complete publication; a collector past its marks has the closure of the head
   and of every root among its marks; and these two cannot be different
   processes, because both own the store. The head can then only become
   something complete, and only bytes outside its closure can go.
4. *Guarded*: `PromisesKept`, which relates the history variable `promise` to
   the store. A publication inside its promise is complete, which is
   `ReaderPromise`; the collector sees that in `retained`, whose date must
   not be older than the promise (`KeptByRecord`). That fails for a moment: a
   commit that publishes an old content again overwrites its record, date
   included. What protects the content then is that commit's own prepared
   record, a root of the collector as well, and it stays as long as the head has
   not become that content (`PreparedGone`). `KeptAt` says what a process relies
   on: its prepared record, the head it is about to retire, and the promised
   closures among its marks.

The action properties follow from the same invariants, action by action.
`RegisterImplemented` maps each step to `PublicationRegister`: the swing of the
head is `Replace`, with `HeadChangesInOrder`'s facts as its guard, every other
step is `Upkeep`, since `PromisesKept` says that what is promised stays readable.

`SnapshotGate_proofs` proves, for every number of callers, every queue length
and every number of readers, under `GateAssumption` (finitely many callers, at
least one reader allowed):

| Theorem | Property |
|---|---|
| `TypeCorrect` | `TypeOK` |
| `WritersAlone` | `Exclusion` |
| `CountersCorrect` | `CountersExact` |
| `WakeupsArrive` | `NoLostWakeup` |
| `QueueOrderKept` | `NoOvertaking` |

They are one inductive invariant, `Safe`: none of them is inductive alone.
Exclusion rests on the counters, since only they tell a caller whether it may
start; the counters stay exact in a drain only because the queue holds each
waiting caller once (`QueueExact`, the one part that is not a property by
itself), so that the `n` callers started are `n` different ones; the wake-up
invariant is what the maximality of the drain leaves behind. The counting rests
on the library's facts about finite sets, a drain being a bijection from `1..n`.

`Source_proofs` proves, for every set of clients and callbacks, all parts, any
choice of what may fail and any bounds, under `ConstantsAssumption` of `Source`
(clients and callbacks are different jobs, the render root is made of parts, the
delays are numbers, in either order, `None` is none of the values):

| Theorem | Property |
|---|---|
| `TypeCorrect` | `TypeOK` |
| `MarkerDurable` | `MarkerPrecedesChange` |
| `NothingForgotten` | `NothingUnscheduled` |
| `NotDelayed` | `NotPutOff` |
| `AnswersTrue` | `AnswersCurrent` |
| `CommitsTrue` | `CommitsCurrent` |

The invariant `Safe` adds five parts to the properties. `Exclusive`: at most one job
writes or publishes inside the gate, and none beside a view that is being taken, so
whoever reads knows that nobody writes. `Quiet`: while the process is down
nothing is in memory. `Marks`: a change in progress or an unpublished one has its
marker, in the store and in memory, with the exact label at which each begins to
hold; `MarkerPrecedesChange` alone says nothing of the steps before the first
write. `Builds`: each part that a publication has read so far is what is there
(`SeenTrue`), and what it has put together is source and content, until it leaves the
gate. `Views`: the render root that the engine keeps is the source whenever there is
one, and there is none during a change; what a view knows is the source as long as
the generation is its own. `Builds` rests on this when the root is taken from the
engine instead of being read. A batch is put together across awaits, so
`AnswersCurrent` needs this of every member from the moment it was taken. The
two action properties follow from `Builds` and `Views` at the step that commits
or answers.

`Content_proofs` proves, for any identities, features and bounds, under
`ConstantsAssumption` of `Content`:

| Theorem | Property |
|---|---|
| `TypeCorrect` | `TypeOK` |
| `NothingDangles` | `ReferencesHeld` |
| `ReadersFind` | `ReadersServed` |
| `NoUpdateLost` | `CommittedStays` |

`ReferencesHeld` is not inductive: whether a head may be written depends on what
was checked some writes earlier. `Safe` therefore has three parts. `StoresSafe` is
the typing of the stores and `ReferencesHeld`. `CallsSafe` adds `Serial`, that at
most one mutation is under way, and `JobsReady`, that what it has checked still
holds and what it has already written is there. `ReadersSafe` says that what a
reader has been referred to stays: revisions and versions that are retained are
never deleted, and a layer's tombstone, once met, says that nobody binds it. The
steps fall in three groups, one lemma each: a mutation begins (only `job`
changes), a write lands (with success or failure after it), a mutation is gone.

`Repository_proofs` proves, for any viewers, publishers, resources, sizes,
capacities, queues and choices of what is cached, under `RepositoryAssumption`
(requests and resources are finitely many, bounds are numbers, and one build
and one transfer fit when nothing else is there):

| Theorem | Property |
|---|---|
| `Types` | `TypeOK` |
| `NothingLeaks` | `BudgetsExact` |
| `NobodySleepsOn` | `NobodyOversleeps` |
| `ClosedForGood` | `NothingAfterClose` |
| `OutputsFit` | `BoundSuffices` |
| `ClaimsCover` | `ClaimsCoverPromises`, with `MaxReads = 1` |

The argument has three layers.

1. *Sums* (`Sums_proofs`). What is in use is a sum over whoever holds bytes, and
   both the sums and the waking of a queue are folds and least elements. Their
   facts are proved by a minimal counterexample, with the library's theorem that
   strict inclusion is well founded on finite sets: that is first-order, where the
   induction theorems are not.
2. *A budget* (`ByteBudget_proofs`). `due[c]` is what caller `c` holds or waits
   for. A budget is in order (`Account`) when the bytes in use, with those its
   queue waits for, are the sum of `due` and some others, everyone waits once and
   for what is due, and the head of the queue does not fit. One lemma per
   operator, for any capacity and any callers, says that it keeps the account.
   `release` and the end of a wait both `pump`, and `closeWith` pumps between its
   rejections, which is why `Aborted` is an iteration and has the longest proof.
3. *The repository*. `Exact` is `Typed`; `StoreExact` and `PoolExact`, the
   accounts of the two budgets, with `due` read off the builds and the transfers
   and the pins as the other bytes of the handoff store; `EntriesExact`, that one
   entry is reserved per admitted build; and `ClosedEmpty`, which says of a closed
   store that there are no pins, builds or cached bodies. `BudgetsExact` alone is
   not inductive: it says how many bytes are held, but not that those in the queue
   wait once, for what they are due, and only while they may (`StoreExact`,
   `PoolExact`), without which nobody could be woken exactly. `NobodyOversleeps`
   in turn needs that the bytes in use are right. That `handoff` is empty once
   closed is no part of the invariant: it follows from its account.

`ClaimsCover` needs a second invariant, `Timely`, beside the first. While nothing
is late and the store is open, `Entitled` says that a viewer that is served has a
promise and a publisher that is served has a lease of its own, and nobody finds
its body gone; `Counted`, that the claims of a body are as many as the requests
served from it, one more while the build that made it still holds its own. Each
action adds or takes claims and requests in equal number; `Deliver` turns the
build's claim into those of everyone who joined. With two reads per reference it
is false, which TLC finds at once. Both invariants were checked by TLC before
they were proved.

`ChunkRuntime_proofs` proves, for any chunks, neighbourhoods, workers, jobs,
batches, kinds, contents, batch size and retry budgets, under the assumptions of
`ChunkState` and `ChunkRuntime` (`NothingAssumption`, `PoolAssumption`,
`ChunkStateAssumption`, `BatchAssumption` and `ChunkRuntimeAssumption`).
`PoolAssumption` says that there is a worker and a slot for a job, which
`resolveViewerResourceBudget` (never less than one worker) and
`MESH_PREPARATIONS_PER_WORKER` (two slots each) see to, and that the kinds of
meshes are none of the marks for not being wanted:

| Theorem | Property |
|---|---|
| `TypesKept` | `TypeOK` |
| `PinsAreExact` | `PinsExact` |
| `StoredIsHeld` | `StoredMeansHeld` |
| `WaitsAreAnswered` | `EveryWaitIsAnswered` |
| `MeshContentsStayTrue` | `MeshContentsTrue` |
| `NothingIsForgotten` | `NothingForgotten` |

The invariants are defined in `ChunkInvariant`. `Safe` has five parts. The first, `Sound`, speaks of the runtime alone:
a state of its type whose pins are exactly those of the jobs, where every worker
holds what is decoding or stored and still owes the answers a decoding entry waits
for, where the job an entry waits for exists and is its own, and where each mesh
that a worker owes is the only one of a job which runs with that worker.
`PinsExact` is not inductive without the last: a late reply ends a job and takes
its pins back, and it may do so once. `LeasesHeld` relates entries to batches:
an entry that waits for a reading is expected by a batch that is in flight, in a
phase that fits and with a row not yet resolved, so that no batch can end and
leave it waiting. `BatchesTyped` and `ViewsTyped` are the types of the other
variables.

`True` is what `MeshContentsTrue` needs to be inductive. The property speaks of meshes on
display, but a mesh is made long before: it is looked up in the cache under a key
taken at the request, or built by a worker from the columns it holds when the task
gets there. So the same has to be said of what is on its way. `Shows` says that
a map of contents has the chunk's own and, while it counts as clean, that of every
neighbour that is `Known`: one whose content the workers have had and told the
neighbourhood of (`readyDig`). `Shown` says this of meshes on display, `LookedUp`
of the key that a lookup may answer, `Built` of every task a worker owes a reply
for; `Keyed` ties the key a job took at its dispatch to the columns the worker
builds from. `Tidy` says that a job without its token has an entry that
is dirty, so a late mesh is displayed as dirty or not at all. `Plain` is about single
entries: one without content displays nothing and waits for no mesh.

The step that could break it is a chunk that becomes known while meshes around
it exist. Code that does so calls `markNeighborsDirty` in the same handler; the
others make nothing known and put nothing new on display. The relation `Quiet` of
two states says so: what is shown or pending only goes or is marked, and around what
becomes known everything is `Marked`. It holds of most methods, the loops keep it, and
it keeps `True`. Left are the methods that do put something on display or under way
(`RequestMesh`, `DispatchWorkerMesh`, `ApplyMesh`), each with a lemma of its own.

The methods call each other deeply, and so does the proof. What only takes back
(jobs that are cancelled, leases let go) is `Calmer`; every method is then shown
to be one of the `Moves`, which keep `Sound` and make nobody wait anew; the
handlers add the finishing and the dispatch of jobs, and the batches, whose
reading is the only place where an entry begins to wait for one. A loop over
entries, jobs or workers is an `Iteration` of `Sums_proofs`: what each turn keeps
holds at the end. `Safe` was checked by TLC on small instances before it was proved.

`NothingForgotten` speaks of states where nothing is due, which is the result of
whole histories, so it needs an invariant that says of every state who is
responsible for what is not served yet. Most of it is in `Safe`; `Awake` is the
rest. Its first half, `Alert`, is about entries: a wanted chunk has one, it is in the
queue of hashes while it has no content, and one that is decoding lacks the answer
of some worker. The second, `Manned`, is about jobs: one that is with a worker has
its task there, and any other is with no worker. Most methods are `Gentle`: they lose
no entry, task or place in that queue. Those that send an entry back to where it has
to be resolved anew queue it in the same call (`Asks`), and those that take a
job's task away end the job or send it to wait.

The argument from `Safe` and `Awake` to the property is about the flush that ends
every handler. When nothing is due, a flush leads nowhere but back to the same state.
What it does only goes on (`Onward`): it queues, starts and ends jobs and takes
nothing of this back, so none of its parts can have had anything to do. Hence no job
was refused, every input that a waiting job misses and that can be asked for is
queued, and no waiting job has all its inputs. No queue holds anything that is due
either, and no batch or answer is on its way. So a wanted chunk that is not served is
either runnable, and then the slots are taken, or it has a job itself; and each
job waits for an input that is neither asked for nor wanted, which is what
`Orphaned` says. `Awake` too was checked by TLC before it was proved.

Only model-checked: of the chunk runtime, `RefreshReachesAll`, which is false in
general and holds where no batch takes two chunks of one view (see
`chunks_refresh`), so that no theorem can state it for every batch size; the
properties that runs show violated, of which `KeyedAbsencesTrue` is what
`MeshContentsStayTrue` leaves out; and the liveness properties `NoStarvation`,
`RequestsAnswered`, `ShutdownCompletes` and `WantedIsServed`, since liveness is
outside what the proof system handles.

## Not modelled

Of the components that are modelled in part:

* *publication authority*: pins and the byte budget of reads; formats and
  parsers of documents. Storage adapters are not modelled: their conditional
  operations are taken as atomic.
* *publisher*: `prepare`, publishing against an expected head or a prepared
  manifest, `reindex`, `close`.
* *engine and views*: bounded-consistency observation, batches of overlay media,
  the age and metadata budget of views, views of a publication, and generations
  that advance because a cached world was invalidated.
* *repository*: the cache's admission policy, atlases (two bodies per build),
  resources that share an action, `ensureOriginal` and `readObject`, the limits
  of 256 joiners and claims, and `resize`.
* *content service*: listings, `sourceStatus` and world identities, inspection of
  media and placement, the order in which waiting mutations are taken, and a
  write that fails and lands after the next mutation has begun.
* *chunk runtime*: `dispose`, the lengths of delays, levels of detail as steps of
  one chunk, byte budgets of residency and the ranking by the camera.

The other components are listed in `PROJECT.json` as not modelled, with the
reason for each: adapters of services, parsers and geometry, account
administration, forms, and the caches and tile runtimes below.

## What is left

In the order of what it would add:

1. Pins in `Publication`.
2. The persistent derived cache: ownership and inventory across crashes;
   `CachedStorage` against concurrent writes; the lock file of the local store.
3. Top-map tiles, overlays and shared downloads of the viewer, which follow the
   discipline of leases and generations that `ChunkRuntime` models.
4. A proof of `RefreshReachesAll` for batches of one chunk, from the invariant of
   `ChunkRuntime_proofs`.
