----------------------------- MODULE Repository -----------------------------
(***************************************************************************)
(* The blob repository of one server process (packages/resources/src/       *)
(* blobRepository.ts, handoff.ts, singleflight.ts, generator.ts) with the   *)
(* requests that use it (engine.ts, publisher.ts).                          *)
(*                                                                          *)
(* A viewer resolves a resource and is promised its bytes, which stay       *)
(* pinned in the handoff store until the viewer has read them or a deadline *)
(* passes.  Bytes that nobody pins are produced by one build per resource,  *)
(* shared by all requests that want it.  A build waits for handoff bytes,   *)
(* then for work bytes; a transfer waits for work bytes.  A publisher reads *)
(* without a promise, under the lease of the build it asked for.            *)
(*                                                                          *)
(* JavaScript runs one callback at a time: an action is what runs between   *)
(* two awaits that can wait for something.                                  *)
(***************************************************************************)
EXTENDS Integers, FiniteSets, Sequences, FiniteSetsExt

CONSTANTS
  Viewer,        \* requests of browsers
  Publisher,     \* publications that copy a resource
  Key,           \* resources, each with one action and one artifact
  Size,          \* the bytes of their artifacts
  MaxBytes,      \* the output bound a build declares
  WorkBytes,     \* the work bound a build declares
  HandoffBytes,  \* capacity of the handoff store
  WorkCapacity,  \* capacity of the work budget
  MaxTasks,      \* maxTasks: concurrent builds, and each queue's length
  MaxEntries,    \* maxEntries of the handoff store
  CacheKeys,     \* what the optional memory cache may retain
  MaxReads,      \* how often a viewer reads what it resolved
  MaxLate,       \* bound on the deadlines that pass, for TLC
  Wants          \* the resources the requests may be about

Reader == Viewer \cup Publisher

ASSUME RepositoryAssumption ==
  /\ IsFiniteSet(Reader) /\ IsFiniteSet(Key)
  /\ Viewer \cap Publisher = {} /\ Reader \cap Key = {}
  /\ MaxBytes \in Nat \ {0} /\ WorkBytes \in Nat
  /\ HandoffBytes \in Nat /\ WorkCapacity \in Nat
  /\ MaxBytes <= WorkBytes /\ MaxBytes <= HandoffBytes
  /\ WorkBytes <= WorkCapacity
  /\ Size \in [Key -> 1..MaxBytes]
  /\ MaxTasks \in Nat \ {0} /\ MaxEntries \in Nat \ {0}
  /\ CacheKeys \subseteq Key /\ MaxReads \in Nat \ {0}
  /\ MaxLate \in Nat /\ Wants \subseteq [Reader -> Key]

Handoff == INSTANCE ByteBudget
             WITH Capacity <- HandoffBytes, MaxQueued <- MaxTasks
Work == INSTANCE ByteBudget
          WITH Capacity <- WorkCapacity, MaxQueued <- MaxTasks

VARIABLES
  handoff,   \* the handoff budget: bounds of builds and pinned bytes
  work,      \* the work budget: bounds of builds and transfers
  reserved,  \* reservedEntries: pins that admitted builds will make
  claims,    \* the pinned resources, each with its number of claims
  cache,     \* what the memory cache retains
  build,     \* how far the build of a resource is
  pc,        \* how far a request is
  want,      \* the resource a request is about
  promise,   \* the viewers with a promise they have not used
  leases,    \* the generation leases not released, with those who share them
  reads,     \* how often a viewer has read
  late,      \* how many deadlines have passed
  service    \* whether close() has been called, and has ended

budgets == <<handoff, work, reserved>>
pins == <<claims, promise, leases>>
requests == <<pc, want, reads>>
vars == <<budgets, pins, cache, build, requests, late, service>>

Init ==
  /\ handoff = Handoff!Empty
  /\ work = Work!Empty
  /\ reserved = 0
  /\ claims = [k \in {} |-> 0]
  /\ cache = {}
  /\ build = [k \in Key |-> "none"]
  /\ pc = [r \in Reader |-> "idle"]
  /\ want \in Wants
  /\ promise = {}
  /\ leases = {}
  /\ reads = [v \in Viewer |-> 0]
  /\ late = 0
  /\ service = "open"

-----------------------------------------------------------------------------
(* The handoff store: claims on pinned bytes.                               *)

Pinned == DOMAIN claims

(* claim(), n times, on a pin that may be new.                              *)
Claimed(f, k, n) ==
  [x \in DOMAIN f \cup {k} |->
     (IF x \in DOMAIN f THEN f[x] ELSE 0) + (IF x = k THEN n ELSE 0)]

(* consume(), n[k] times: the last claim takes the pin with it.             *)
Consumed(f, n) ==
  [k \in {x \in DOMAIN f : n[x] = 0 \/ f[x] > n[x]} |-> f[k] - n[k]]

Once(k) == [x \in Key |-> IF x = k THEN 1 ELSE 0]

(* releaseUnclaimed()                                                       *)
DropUnclaimed(f, k) == [x \in {y \in DOMAIN f : y # k \/ f[y] > 0} |-> f[x]]

(* The handoff budget once the pins of f that g no longer has are released. *)
Unpinned(b, f, g) ==
  LET gone == DOMAIN f \ DOMAIN g IN
  IF gone = {} THEN b
  ELSE Handoff!Released(b, MapThenSumSet(LAMBDA k : Size[k], gone))

(* lease(): the pin there is, or a new one of cached bytes.  put() refuses  *)
(* when the store has no entry or no bytes left.                            *)
Available(k) == k \in Pinned \cup cache

CanLease(k) ==
  \/ k \in Pinned
  \/ /\ k \in cache
     /\ Cardinality(Pinned) < MaxEntries
     /\ Handoff!Fits(handoff, Size[k])

Leased(k) ==
  IF k \in Pinned THEN handoff ELSE Handoff!Reserved(handoff, Size[k])

-----------------------------------------------------------------------------
(* How requests end.                                                        *)

Building == {k \in Key : build[k] # "none"}

(* Those who wait for the builds of the resources ks.                       *)
Joined(ks, stage) == {r \in Reader : pc[r] = stage /\ want[r] \in ks}
Joiners(ks) == Joined(ks, "resolving") \cup Joined(ks, "restoring")

LeasesOf(rs) == {l \in leases : l.owners \cap rs # {}}

(* generator.release() by the requests rs: whoever comes first gives the    *)
(* lease back for all that share it.                                        *)
Forsaken(f, rs) ==
  Consumed(f, [k \in Key |-> Cardinality({l \in LeasesOf(rs) : l.key = k})])

(* The requests rs fail, in a state whose handoff budget is b and whose     *)
(* claims are f.  A viewer may try again: to read, if it has a promise, or  *)
(* else from the start.                                                     *)
Stop(rs, b, f) ==
  LET g == Forsaken(f, rs) IN
  /\ claims' = g
  /\ handoff' = Unpinned(b, [k \in Pinned \cup DOMAIN f |-> 0], g)
  /\ leases' = leases \ LeasesOf(rs)
  /\ pc' = [r \in Reader |->
              IF r \notin rs THEN pc[r]
              ELSE IF r \in promise THEN "ready" ELSE "idle"]

(* The builds of ks fail, and with them everyone who joined them.           *)
BuildsFail(ks, b, f) ==
  /\ build' = [k \in Key |-> IF k \in ks THEN "none" ELSE build[k]]
  /\ Stop(Joiners(ks), b, f)

-----------------------------------------------------------------------------
(* Requests.                                                                *)

(* A request joins the build of its resource or starts it: the build takes  *)
(* its place among the tasks, its entries in the handoff store, and asks    *)
(* for the bytes of its outputs.  Without a place the request fails.        *)
CanBuild ==
  /\ Cardinality(Building) < MaxTasks
  /\ Cardinality(Pinned) + reserved < MaxEntries
  /\ ~Handoff!Refuses(handoff, MaxBytes)

Join(r, stage) ==
  LET k == want[r] IN
  \/ /\ service = "open" /\ build[k] # "none"
     /\ pc' = [pc EXCEPT ![r] = stage]
     /\ UNCHANGED <<handoff, reserved, claims, leases, build>>
  \/ /\ service = "open" /\ build[k] = "none" /\ CanBuild
     /\ pc' = [pc EXCEPT ![r] = stage]
     /\ build' = [build EXCEPT ![k] = "handoff"]
     /\ handoff' = Handoff!Asked(handoff, k, MaxBytes)
     /\ reserved' = reserved + 1
     /\ UNCHANGED <<claims, leases>>
  \/ /\ service # "open" \/ (build[k] = "none" /\ ~CanBuild)
     /\ Stop({r}, handoff, claims)
     /\ UNCHANGED <<reserved, build>>

(* resolve() of a viewer whose view knows the entry already: promise() of   *)
(* what is pinned or cached.                                                *)
Promise(v) ==
  /\ pc[v] = "idle" /\ CanLease(want[v])
  /\ claims' = Claimed(claims, want[v], 1)
  /\ handoff' = Leased(want[v])
  /\ promise' = promise \cup {v}
  /\ pc' = [pc EXCEPT ![v] = "ready"]
  /\ UNCHANGED <<work, reserved, leases, cache, build, want, reads, late, service>>

(* resolve() of a viewer, or collecting the entries of a publication,       *)
(* through generate().                                                      *)
Resolve(r) ==
  /\ pc[r] = "idle"
  /\ Join(r, "resolving")
  /\ UNCHANGED <<work, promise, cache, want, reads, late, service>>

(* A batch that fails after a promise was issued: cancelPromise().          *)
Cancel(v) ==
  /\ pc[v] = "ready" /\ v \in promise
  /\ LET g == Consumed(claims, Once(want[v])) IN
       claims' = g /\ handoff' = Unpinned(handoff, claims, g)
  /\ promise' = promise \ {v}
  /\ pc' = [pc EXCEPT ![v] = "done"]
  /\ UNCHANGED <<work, reserved, leases, cache, build, want, reads, late, service>>

(* discard(): a publication that only prepares lets go of what it built.    *)
Discard(p) ==
  /\ pc[p] = "ready"
  /\ LET g == DropUnclaimed(Forsaken(claims, {p}), want[p]) IN
       claims' = g /\ handoff' = Unpinned(handoff, claims, g)
  /\ leases' = leases \ LeasesOf({p})
  /\ pc' = [pc EXCEPT ![p] = "done"]
  /\ UNCHANGED <<work, reserved, promise, cache, build, want, reads, late, service>>

(* acquire(): the bytes of a transfer are reserved before it starts.        *)
Ask(r, b, f) ==
  \/ /\ service = "open" /\ ~Work!Refuses(work, Size[want[r]])
     /\ work' = Work!Asked(work, r, Size[want[r]])
     /\ pc' = [pc EXCEPT ![r] = "acquiring"]
     /\ handoff' = b /\ claims' = f
     /\ UNCHANGED leases
  \/ /\ service # "open" \/ Work!Refuses(work, Size[want[r]])
     /\ Stop({r}, b, f)
     /\ UNCHANGED work

(* read() of an opened resource, or publishEntry(): what is available is    *)
(* leased and asked for, what is no longer so is built again.               *)
Read(r) ==
  /\ pc[r] = "ready"
  /\ \/ /\ ~Available(want[r])
        /\ Join(r, "restoring")
        /\ UNCHANGED work
     \/ /\ CanLease(want[r])
        /\ Ask(r, Leased(want[r]), Claimed(claims, want[r], 0))
        /\ UNCHANGED <<reserved, build>>
     \/ /\ Available(want[r]) /\ ~CanLease(want[r])
        /\ Stop({r}, handoff, claims)
        /\ UNCHANGED <<work, reserved, build>>
  /\ UNCHANGED <<promise, cache, want, reads, late, service>>

(* What was built again is there: ask for it.                               *)
Acquire(r) ==
  /\ pc[r] = "fetched"
  /\ Ask(r, handoff, claims)
  /\ UNCHANGED <<reserved, promise, cache, build, want, reads, late, service>>

(* Once the bytes are reserved, the body must still be there.  A viewer that*)
(* built nothing again has nothing to release before it sends.              *)
Open(r) ==
  /\ pc[r] = "acquiring" /\ r \notin Work!Waiters(work)
  /\ \/ /\ Available(want[r])
        /\ pc' = [pc EXCEPT ![r] =
                    IF r \in Viewer /\ LeasesOf({r}) = {} THEN "sending" ELSE "opened"]
        /\ UNCHANGED <<work, handoff, claims, leases>>
     \/ /\ ~Available(want[r])
        /\ work' = Work!Released(work, Size[want[r]])
        /\ Stop({r}, handoff, claims)
  /\ UNCHANGED <<reserved, promise, cache, build, want, reads, late, service>>

(* read() returns: the lease of a body that was built again is released.    *)
Return(v) ==
  /\ pc[v] = "opened"
  /\ LET g == Forsaken(claims, {v}) IN
       claims' = g /\ handoff' = Unpinned(handoff, claims, g)
  /\ leases' = leases \ LeasesOf({v})
  /\ pc' = [pc EXCEPT ![v] = "sending"]
  /\ UNCHANGED <<work, reserved, promise, cache, build, want, reads, late, service>>

(* Slip: the transfer consumes nothing.                                     *)
FinishUnconsumed(v) ==
  /\ pc[v] = "sending"
  /\ work' = Work!Released(work, Size[want[v]])
  /\ promise' = promise \ {v}
  /\ reads' = [reads EXCEPT ![v] = @ + 1]
  /\ pc' = [pc EXCEPT ![v] = IF reads[v] + 1 < MaxReads THEN "ready" ELSE "done"]
  /\ UNCHANGED <<handoff, reserved, claims, leases, cache, build, want, late, service>>

(* The transfer of a viewer ends or breaks off: its release() consumes one  *)
(* claim on the body.                                                       *)
Finish(v) ==
  /\ pc[v] = "sending"
  /\ LET g == Consumed(claims, Once(want[v])) IN
       claims' = g /\ handoff' = Unpinned(handoff, claims, g)
  /\ work' = Work!Released(work, Size[want[v]])
  /\ promise' = promise \ {v}
  /\ reads' = [reads EXCEPT ![v] = @ + 1]
  /\ pc' = [pc EXCEPT ![v] = IF reads[v] + 1 < MaxReads THEN "ready" ELSE "done"]
  /\ UNCHANGED <<reserved, leases, cache, build, want, late, service>>

(* A publisher verifies the copy it made: verify() takes work bytes, or     *)
(* fails, while the bytes of the body are still held.                       *)
Verify(p) ==
  /\ pc[p] = "opened" /\ Work!Fits(work, 2 * Size[want[p]])
  /\ work' = Work!Reserved(work, 2 * Size[want[p]])
  /\ pc' = [pc EXCEPT ![p] = "sending"]
  /\ UNCHANGED <<handoff, reserved, pins, cache, build, want, reads, late, service>>

(* Slip: a publisher consumes a claim as a viewer does.                     *)
PublishedConsuming(p) ==
  /\ \/ pc[p] = "sending"
     \/ pc[p] = "opened" /\ ~Work!Fits(work, 2 * Size[want[p]])
  /\ LET g == Forsaken(Consumed(claims, Once(want[p])), {p}) IN
       claims' = g /\ handoff' = Unpinned(handoff, claims, g)
  /\ leases' = leases \ LeasesOf({p})
  /\ work' = Work!Released(work, (IF pc[p] = "sending" THEN 3 ELSE 1) * Size[want[p]])
  /\ pc' = [pc EXCEPT ![p] = IF pc[p] = "sending" THEN "done" ELSE "idle"]
  /\ UNCHANGED <<reserved, promise, cache, build, want, reads, late, service>>

(* publishEntry() ends: a read that leaves the claims of viewers alone.     *)
Published(p) ==
  /\ \/ pc[p] = "sending"
     \/ pc[p] = "opened" /\ ~Work!Fits(work, 2 * Size[want[p]])
  /\ LET g == Forsaken(DropUnclaimed(claims, want[p]), {p}) IN
       claims' = g /\ handoff' = Unpinned(handoff, claims, g)
  /\ leases' = leases \ LeasesOf({p})
  /\ work' = Work!Released(work, (IF pc[p] = "sending" THEN 3 ELSE 1) * Size[want[p]])
  /\ pc' = [pc EXCEPT ![p] = IF pc[p] = "sending" THEN "done" ELSE "idle"]
  /\ UNCHANGED <<reserved, promise, cache, build, want, reads, late, service>>

-----------------------------------------------------------------------------
(* Builds.                                                                  *)

Producing(k) == build[k] = "work" /\ k \notin Work!Waiters(work)

(* The handoff bytes are there: ask for the work bytes.                     *)
AskWork(k) ==
  /\ build[k] = "handoff" /\ k \notin Handoff!Waiters(handoff)
  /\ \/ /\ service = "open" /\ ~Work!Refuses(work, WorkBytes)
        /\ work' = Work!Asked(work, k, WorkBytes)
        /\ build' = [build EXCEPT ![k] = "work"]
        /\ UNCHANGED <<handoff, reserved, claims, leases, pc>>
     \/ /\ service # "open" \/ Work!Refuses(work, WorkBytes)
        /\ BuildsFail({k}, Handoff!Released(handoff, MaxBytes), claims)
        /\ reserved' = reserved - 1
        /\ UNCHANGED work
  /\ UNCHANGED <<promise, cache, want, reads, late, service>>

(* The build of k succeeds and everyone who joined it goes on, in one run   *)
(* of microtasks: generate() of the viewers, shared, and that of each       *)
(* publisher hold a claim as a lease; every viewer that resolves is         *)
(* promised the body with a claim of its own, and the first of them         *)
(* releases the lease of the viewers.                                       *)
Deliver(k, b, f) ==
  LET resolving == Joined({k}, "resolving") \cap Viewer
      restoring == Joined({k}, "restoring") \cap Viewer
      publishing == Joiners({k}) \cap Publisher
      lease(rs, why) == [key |-> k, owners |-> rs, why |-> why]
      new == {lease({p}, pc[p]) : p \in publishing}
             \cup (IF resolving = {} /\ restoring # {}
                   THEN {lease(restoring, "restoring")} ELSE {})
  IN /\ claims' = Claimed(f, k, Cardinality(resolving) + Cardinality(new))
     /\ leases' = leases \cup new
     /\ promise' = promise \cup resolving
     /\ handoff' = b
     /\ build' = [build EXCEPT ![k] = "none"]
     /\ pc' = [r \in Reader |->
                 IF r \notin Joiners({k}) THEN pc[r]
                 ELSE IF pc[r] = "resolving" THEN "ready" ELSE "fetched"]

(* materialize() of a known action whose body is pinned or cached; build()  *)
(* gives its reservations back unused.                                      *)
Found(k) ==
  /\ Producing(k) /\ service = "open" /\ CanLease(k)
  /\ Deliver(k, Handoff!Released(Leased(k), MaxBytes), claims)
  /\ reserved' = reserved - 1
  /\ work' = Work!Released(work, WorkBytes)
  /\ UNCHANGED <<cache, want, reads, late, service>>

(* Slip: waking does not wait for the replacement.                          *)
RetainAfterWaking(k) ==
  LET b == Handoff!Released(handoff, MaxBytes) IN
  /\ Producing(k)
  /\ reserved' = reserved - 1
  /\ IF k \in Pinned \/ (Cardinality(Pinned) < MaxEntries /\ Handoff!Fits(b, Size[k]))
     THEN /\ claims' = Claimed(claims, k, 1)
          /\ handoff' = IF k \in Pinned THEN b ELSE Handoff!Reserved(b, Size[k])
          /\ build' = [build EXCEPT ![k] = "retained"]
          /\ cache' \in {cache, cache \cup ({k} \cap CacheKeys)}
     ELSE /\ handoff' = b
          /\ build' = [build EXCEPT ![k] = "refused"]
          /\ UNCHANGED <<claims, cache>>
  /\ UNCHANGED <<work, promise, leases, requests, late, service>>

(* The output is there, generated or loaded: retainOutputs() turns the      *)
(* bound into a pin with a claim of the build, unless put() refuses it.     *)
Retain(k) ==
  /\ Producing(k)
  /\ reserved' = reserved - 1
  /\ IF k \in Pinned
        \/ /\ Cardinality(Pinned) < MaxEntries
           /\ handoff.used - MaxBytes + Size[k] <= HandoffBytes
     THEN /\ claims' = Claimed(claims, k, 1)
          /\ handoff' = Handoff!Replaced(handoff, MaxBytes,
                                         IF k \in Pinned THEN 0 ELSE Size[k])
          /\ build' = [build EXCEPT ![k] = "retained"]
          /\ cache' \in {cache, cache \cup ({k} \cap CacheKeys)}
     ELSE /\ handoff' = Handoff!Released(handoff, MaxBytes)
          /\ build' = [build EXCEPT ![k] = "refused"]
          /\ UNCHANGED <<claims, cache>>
  /\ UNCHANGED <<work, promise, leases, requests, late, service>>

(* The layers and the index have the output too.  Whoever joined the build  *)
(* takes a claim before that of the build is released, provided the pin has *)
(* not expired meanwhile.                                                   *)
Complete(k) ==
  /\ build[k] = "retained"
  /\ work' = Work!Released(work, WorkBytes)
  /\ IF k \in Pinned /\ claims[k] > 0
     THEN Deliver(k, handoff, [claims EXCEPT ![k] = @ - 1])
     ELSE /\ BuildsFail({k}, handoff, claims)
          /\ UNCHANGED promise
  /\ UNCHANGED <<reserved, cache, want, reads, late, service>>

(* Slip: a refused build gives its entry back a second time.                *)
FailTwice(k) ==
  /\ Producing(k) \/ build[k] \in {"retained", "refused"}
  /\ IF build[k] = "work"
     THEN BuildsFail({k}, Handoff!Released(handoff, MaxBytes), claims)
     ELSE BuildsFail({k}, handoff,
            IF build[k] = "retained" THEN Consumed(claims, Once(k)) ELSE claims)
  /\ reserved' = IF build[k] = "retained" THEN reserved ELSE reserved - 1
  /\ work' = Work!Released(work, WorkBytes)
  /\ UNCHANGED <<promise, cache, want, reads, late, service>>

(* A build fails: the source has changed, the input is missing, a generator,*)
(* a layer or the index fails, or the output was refused.                   *)
Fail(k) ==
  /\ Producing(k) \/ build[k] \in {"retained", "refused"}
  /\ IF build[k] = "work"
     THEN /\ BuildsFail({k}, Handoff!Released(handoff, MaxBytes), claims)
          /\ reserved' = reserved - 1
     ELSE /\ BuildsFail({k}, handoff,
               IF build[k] = "retained" THEN Consumed(claims, Once(k)) ELSE claims)
          /\ UNCHANGED reserved
  /\ work' = Work!Released(work, WorkBytes)
  /\ UNCHANGED <<promise, cache, want, reads, late, service>>

-----------------------------------------------------------------------------
(* Time and shutdown.                                                       *)

(* The deadline of a wait for bytes.                                        *)
Deadline(w) ==
  /\ late < MaxLate
  /\ \/ /\ w \in Handoff!Waiters(handoff)
        /\ BuildsFail({w}, Handoff!Left(handoff, w), claims)
        /\ reserved' = reserved - 1
        /\ UNCHANGED work
     \/ /\ w \in Key \cap Work!Waiters(work)
        /\ BuildsFail({w}, Handoff!Released(handoff, MaxBytes), claims)
        /\ reserved' = reserved - 1
        /\ work' = Work!Left(work, w)
     \/ /\ w \in Reader \cap Work!Waiters(work)
        /\ Stop({w}, handoff, claims)
        /\ work' = Work!Left(work, w)
        /\ UNCHANGED <<reserved, build>>
  /\ late' = late + 1
  /\ UNCHANGED <<promise, cache, want, reads, service>>

(* sweep(): a pin outlives the last promise made about it by lifetimeMs.    *)
Expire(k) ==
  /\ late < MaxLate /\ k \in Pinned
  /\ LET g == [x \in Pinned \ {k} |-> claims[x]] IN
       claims' = g /\ handoff' = Unpinned(handoff, claims, g)
  /\ promise' = {v \in promise : want[v] # k}
  /\ late' = late + 1
  /\ UNCHANGED <<work, reserved, leases, cache, build, requests, service>>

(* The cache drops what it likes.                                           *)
Evict(k) ==
  /\ k \in cache
  /\ cache' = cache \ {k}
  /\ UNCHANGED <<budgets, pins, build, requests, late, service>>

(* Slip: shutdown leaves those waiting for handoff bytes alone.             *)
CloseUnheard ==
  /\ service = "open"
  /\ service' = "closing"
  /\ LET waited == Work!Aborting(work).refused IN
       /\ build' = [k \in Key |-> IF k \in waited THEN "none" ELSE build[k]]
       /\ reserved' = reserved - Cardinality(waited \cap Key)
       /\ Stop(Joiners(waited) \cup (waited \cap Reader),
               Handoff!Released(handoff, MaxBytes * Cardinality(waited \cap Key)),
               claims)
       /\ work' = Work!Aborted(work)
  /\ UNCHANGED <<promise, cache, want, reads, late>>

(* close() refuses new tasks and aborts everyone who waits for bytes.       *)
Close ==
  /\ service = "open"
  /\ service' = "closing"
  /\ LET failed == Handoff!Aborting(handoff).refused
         waited == Work!Aborting(work).refused
         lost == failed \cup (waited \cap Key)
         b == Handoff!Aborted(handoff)
     IN /\ build' = [k \in Key |-> IF k \in lost THEN "none" ELSE build[k]]
        /\ reserved' = reserved - Cardinality(lost)
        /\ Stop(Joiners(lost) \cup (waited \cap Reader),
                [b EXCEPT !.used = @ - MaxBytes * Cardinality(waited \cap Key)],
                claims)
        /\ work' = Work!Aborted(work)
  /\ UNCHANGED <<promise, cache, want, reads, late>>

(* Slip: the store is closed while builds are still settling.               *)
ClosedEarly ==
  /\ service = "closing"
  /\ service' = "closed"
  /\ claims' = [k \in {} |-> 0]
  /\ handoff' = Unpinned(handoff, claims, claims')
  /\ promise' = {}
  /\ cache' = {}
  /\ UNCHANGED <<work, reserved, leases, build, requests, late>>

(* Once every build has settled the handoff store and the cache are closed. *)
Closed ==
  /\ service = "closing" /\ Building = {}
  /\ service' = "closed"
  /\ claims' = [k \in {} |-> 0]
  /\ handoff' = Unpinned(handoff, claims, claims')
  /\ promise' = {}
  /\ cache' = {}
  /\ UNCHANGED <<work, reserved, leases, build, requests, late>>

(* Nothing is left to do.                                                   *)
Rest ==
  /\ \A r \in Reader : pc[r] \in {"idle", "done"}
  /\ service = "closed"
  /\ UNCHANGED vars

BuildStep(k) == AskWork(k) \/ Found(k) \/ Retain(k) \/ Complete(k) \/ Fail(k)

ViewerStep(v) ==
  Read(v) \/ Acquire(v) \/ Open(v) \/ Return(v) \/ Finish(v)

PublisherStep(p) ==
  Read(p) \/ Acquire(p) \/ Open(p) \/ Verify(p) \/ Published(p) \/ Discard(p)

Next ==
  \/ \E k \in Key : BuildStep(k) \/ Expire(k) \/ Evict(k)
  \/ \E v \in Viewer : Promise(v) \/ Resolve(v) \/ Cancel(v) \/ ViewerStep(v)
  \/ \E p \in Publisher : Resolve(p) \/ PublisherStep(p)
  \/ \E w \in Key \cup Reader : Deadline(w)
  \/ Close \/ Closed \/ Rest

Fairness ==
  /\ \A k \in Key : WF_vars(BuildStep(k))
  /\ \A v \in Viewer : WF_vars(ViewerStep(v))
  /\ \A p \in Publisher : WF_vars(PublisherStep(p))
  /\ WF_vars(Closed)

Spec == Init /\ [][Next]_vars /\ Fairness

-----------------------------------------------------------------------------
TypeOK ==
  /\ Handoff!BudgetType(handoff, Key)
  /\ Work!BudgetType(work, Key \cup Reader)
  /\ reserved \in 0..MaxEntries
  /\ Pinned \subseteq Key /\ claims \in [Pinned -> Nat]
  /\ cache \subseteq CacheKeys
  /\ build \in [Key -> {"none", "handoff", "work", "retained", "refused"}]
  /\ pc \in [Reader -> {"idle", "resolving", "ready", "restoring", "fetched",
                        "acquiring", "opened", "sending", "done"}]
  /\ want \in [Reader -> Key]
  /\ promise \subseteq Viewer
  /\ leases \subseteq [key : Key, owners : SUBSET Reader,
                       why : {"resolving", "restoring"}]
  /\ reads \in [Viewer -> 0..MaxReads]
  /\ late \in 0..MaxLate
  /\ service \in {"open", "closing", "closed"}

(* The bytes and entries charged are those of the builds, pins and          *)
(* transfers there are: no way a request or a build can end, in whatever    *)
(* order, leaks a reservation or gives one back twice.                      *)
BudgetsExact ==
  LET admitted == {k \in Key : build[k] \in {"handoff", "work"}}
      working == {k \in Building : build[k] # "handoff" /\ k \notin Work!Waiters(work)}
      transfer == [r \in Reader |->
        IF pc[r] \in {"acquiring", "opened", "sending"} /\ r \notin Work!Waiters(work)
        THEN Size[want[r]] * (IF r \in Publisher /\ pc[r] = "sending" THEN 3 ELSE 1)
        ELSE 0]
  IN /\ reserved = Cardinality(admitted)
     /\ handoff.used =
          MaxBytes * Cardinality(admitted \ Handoff!Waiters(handoff))
          + MapThenSumSet(LAMBDA k : Size[k], Pinned)
     /\ work.used =
          WorkBytes * Cardinality(working) + MapThenSumSet(LAMBDA r : transfer[r], Reader)

(* Nobody sleeps beside free bytes: whatever returns bytes, or takes a      *)
(* waiter out of a queue, wakes those that now fit.                         *)
NobodyOversleeps == Handoff!HeadWaits(handoff) /\ Work!HeadWaits(work)

(* An admitted build holds the bound of its output until the output is a    *)
(* pin: it can only be refused for want of an entry.                        *)
BoundSuffices ==
  [][\A k \in Key : build[k] = "work" /\ build'[k] = "refused"
                    => Cardinality(Pinned) >= MaxEntries]_vars

(* "Client transfers and publisher reads consume their own reservations"    *)
(* (docs/resource-implementation-acceptance.md:72): while nothing is late,  *)
(* every pin has one claim for each promise not used, each lease, and the   *)
(* build that has just made it.                                             *)
ClaimsCoverPromises ==
  late = 0 /\ service # "closed" =>
    \A k \in Key :
      (IF k \in Pinned THEN claims[k] ELSE 0) =
        Cardinality({v \in promise : want[v] = k})
        + Cardinality({l \in leases : l.key = k})
        + (IF build[k] = "retained" THEN 1 ELSE 0)

(* After close() nothing is pinned and no build is left that could pin.     *)
NothingAfterClose ==
  service = "closed" =>
    /\ Pinned = {} /\ Building = {} /\ reserved = 0
    /\ handoff = Handoff!Empty
    /\ cache = {}

(* Downloads drain earlier promises: as long as clients read what they were *)
(* promised, every request is answered, and no wait needs its deadline or   *)
(* the expiry of a pin to end.                                              *)
RequestsAnswered ==
  \A r \in Reader :
    pc[r] \in {"resolving", "restoring", "acquiring"} ~>
      (pc[r] \notin {"resolving", "restoring", "acquiring"} \/ late > 0)

(* Shutdown completes, whoever waits for bytes and whatever is produced.    *)
ShutdownCompletes == service = "closing" ~> service = "closed"

-----------------------------------------------------------------------------
(* "Admission failures reject before generation" (docs/resources.md:17): a  *)
(* build that was admitted and has produced its output is not refused then. *)
AdmissionComesFirst == \A k \in Key : build[k] # "refused"
=============================================================================
