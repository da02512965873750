---------------------------- MODULE Publication ----------------------------
(***************************************************************************)
(* The publication authority of packages/resources: the control documents  *)
(* that PublicationStore (publication.ts) keeps in a shared object store,   *)
(* the publisher that fills and commits a publication (publisher.ts), the   *)
(* recovery of a crashed writer and the mark-and-sweep collector (gc.ts).   *)
(*                                                                         *)
(* A process is one PublicationStore instance with its ResourcePublisher.   *)
(* Every operation of a process runs under the write side of its source     *)
(* gate, so a process runs one operation at a time; operations of           *)
(* different processes interleave at every storage call.  Each action is    *)
(* one storage call (or one run of reads) of an operation, a process may    *)
(* crash or see its call fail at any of them.                               *)
(*                                                                         *)
(* Digests are identities: a publication is named by the digest of its      *)
(* manifest, and the compare-exchange token of a document, the digest of    *)
(* its bytes, is the document itself.                                       *)
(***************************************************************************)
EXTENDS Naturals

CONSTANTS
  Process,      \* publisher processes sharing one store
  Publication,  \* manifest digests a publisher may build
  Object,       \* public objects and region index pages
  Page,         \* the members of Object that are index pages (indexes/)
  Closure,      \* Closure[m]: the objects and pages manifest m refers to
  RetainedMs,   \* read promise of a retired publication
  OrphanMs,     \* age below which unreferenced bytes are kept
  None,         \* null: no owner, no head, no parent
  Absent,       \* a document that does not exist, a field that is not set
  MaxClock,     \* bound on the clock
  MaxEpoch,     \* bound on the writer epoch
  MaxRevision   \* bound on the head revision

Token == [owner : Process \cup {None}, epoch : 0..MaxEpoch]
HeadRecord == [id : Publication \cup {None}, revision : 0..MaxRevision]
Parent == Publication \cup {None}
Time == 0..MaxClock
Retention == [committedAt : Time, retiredAt : Time \cup {Absent}]

(* gc.ts:30 refuses a retention below seven days and an orphan age below    *)
(* one day; what the protocol needs of them is that neither is zero.        *)
ASSUME ConstantsAssumption ==
  /\ None \notin Process \cup Publication \cup Object
  /\ None \notin Token \cup HeadRecord
  /\ Absent \notin Parent \cup Nat \cup Retention
  /\ Publication \cap Object = {}
  /\ Page \subseteq Object
  /\ Closure \in [Publication -> SUBSET Object]
  /\ RetainedMs \in Nat \ {0} /\ OrphanMs \in Nat \ {0}
  /\ MaxClock \in Nat /\ MaxEpoch \in Nat /\ MaxRevision \in Nat

VARIABLES
  \* documents of the shared store
  writer,     \* writer.json
  head,       \* heads/current.json
  prepared,   \* prepared/<digest>.json: the expected parent, or Absent
  retained,   \* retained/<digest>.json: its two dates, or Absent
  manifests,  \* manifests/<digest>.json: its modification time, or Absent
  objects,    \* objects/.. and indexes/..: modification time, or Absent
  clock,      \* Date.now()
  \* memory of a process
  pc,         \* the storage call the process is about to make
  owner,      \* PublicationStore.owner: the token taken by acquire
  job,        \* arguments and locals of the operation it runs
  \* history
  landed,     \* prepared records whose publication already became visible
  promise     \* retiredAt of a publication when it stopped being the head

documents == <<writer, head, prepared, retained, manifests, objects>>
history == <<landed, promise>>
vars == <<documents, clock, pc, owner, job, history>>

(* The locals of an operation that has nothing in progress.                 *)
NoJob ==
  [back |-> "idle", work |-> None, parent |-> None, todo |-> {}, at |-> None,
   seen |-> None, latest |-> None, marks |-> {}, replay |-> {},
   recovering |-> FALSE]

Locals ==
  [back : {"idle", "create", "prepare", "readHead", "mark", "scan"},
   work : Publication \cup {None}, parent : Parent, todo : SUBSET Object,
   at : Object \cup {None}, seen : Token \cup {None},
   latest : HeadRecord \cup {None}, marks : SUBSET (Publication \cup Object),
   replay : SUBSET Publication, recovering : BOOLEAN]

Labels ==
  {"down", "idle", "upload", "create", "closure", "acquire", "acquireCas",
   "reread", "assert", "prepare", "manifest", "closure2", "readHead",
   "retire", "retain", "swing", "cleanup", "recoverCas", "scan", "replay",
   "mark", "sweep"}

Init ==
  /\ writer = [owner |-> None, epoch |-> 0]
  /\ head = [id |-> None, revision |-> 0]
  /\ prepared = [m \in Publication |-> Absent]
  /\ retained = [m \in Publication |-> Absent]
  /\ manifests = [m \in Publication |-> Absent]
  /\ objects = [o \in Object |-> Absent]
  /\ clock = 0
  /\ pc = [p \in Process |-> "down"]
  /\ owner = [p \in Process |-> None]
  /\ job = [p \in Process |-> NoJob]
  /\ landed = {}
  /\ promise = [m \in Publication |-> Absent]

-----------------------------------------------------------------------------
ClosurePresent(m) == \A o \in Closure[m] : objects[o] # Absent
Complete(m) == manifests[m] # Absent /\ ClosurePresent(m)

(* p goes on to the storage call label, with the locals j.                  *)
Goto(p, label, j) ==
  /\ pc' = [pc EXCEPT ![p] = label]
  /\ job' = [job EXCEPT ![p] = j]

Proceed(p, label) == Goto(p, label, job[p])

(* Slip: the next operation finds the previous one's locals.                *)
ReturnKeepingLocals(p) == Proceed(p, "idle")

(* An operation returns or throws: its locals are gone, this.owner stays.   *)
Return(p) == Goto(p, "idle", NoJob)

(* The operation ends there, normally or with an exception.                *)
End(p) == Return(p) /\ UNCHANGED <<documents, clock, owner, history>>

(* A commit returns to its caller: publish ends, recovery goes on scanning. *)
CommitReturn(p) ==
  IF job[p].recovering
  THEN Goto(p, "replay", [NoJob EXCEPT !.recovering = TRUE,
                                       !.replay = job[p].replay])
  ELSE Return(p)

(* `await this.acquire(); await this.assertWriter(); <label>`: acquire      *)
(* returns at once in a process that owns the store already.                *)
Own(p) == IF owner[p] = None THEN "acquire" ELSE "assert"

-----------------------------------------------------------------------------
(* Processes.  The server starts publishers, a crash loses their memory.    *)

Recovering(p) == pc[p] = "recoverCas" \/ job[p].recovering

(* --writers-quiesced: nobody starts a writer while a recovery runs.        *)
Start(p) ==
  /\ pc[p] = "down"
  /\ \A q \in Process : ~Recovering(q)
  /\ Proceed(p, "idle")
  /\ UNCHANGED <<documents, clock, owner, history>>

Crash(p) ==
  /\ pc[p] # "down"
  /\ Goto(p, "down", NoJob)
  /\ owner' = [owner EXCEPT ![p] = None]
  /\ UNCHANGED <<documents, clock, history>>

(* The storage call of the current step throws before it takes effect; one  *)
(* that throws afterwards is the step itself followed by this.              *)
Fault(p) == pc[p] \notin {"down", "idle", "cleanup"} /\ End(p)

Tick ==
  /\ clock < MaxClock
  /\ clock' = clock + 1
  /\ UNCHANGED <<documents, pc, owner, job, history>>

-----------------------------------------------------------------------------
(* Writer ownership.                                                        *)

AcquireRead(p) ==
  /\ pc[p] = "acquire"
  /\ writer.epoch < MaxEpoch
  /\ IF writer.owner # None
     THEN End(p)
     ELSE /\ Goto(p, "acquireCas", [job[p] EXCEPT !.seen = writer])
          /\ UNCHANGED <<documents, clock, owner, history>>

AcquireCas(p) ==
  /\ pc[p] = "acquireCas"
  /\ IF writer # job[p].seen
     THEN End(p)
     ELSE /\ writer' = [owner |-> p, epoch |-> job[p].seen.epoch + 1]
          /\ Proceed(p, "reread")
          /\ UNCHANGED <<head, prepared, retained, manifests, objects, clock,
                         owner, history>>

(* The token kept is that of whatever writer.json holds at the re-read.     *)
(* Only PublicTarget.ensure goes on to write without an assertWriter.       *)
AcquireReread(p) ==
  /\ pc[p] = "reread"
  /\ owner' = [owner EXCEPT ![p] = writer]
  /\ Goto(p, IF job[p].back = "create" /\ job[p].at \notin Page
             THEN "create" ELSE "assert", [job[p] EXCEPT !.seen = None])
  /\ UNCHANGED <<documents, clock, history>>

AssertWriter(p) ==
  /\ pc[p] = "assert"
  /\ IF writer # owner[p]
     THEN End(p)
     ELSE /\ Goto(p, job[p].back, [job[p] EXCEPT !.back = "idle"])
          /\ UNCHANGED <<documents, clock, owner, history>>

(* The release of the record and the end of the token in memory are one     *)
(* step; in between the code only waits for the answer, on its way out.     *)
Close(p) ==
  /\ pc[p] = "idle" /\ owner[p] # None /\ writer = owner[p]
  /\ writer' = [owner |-> None, epoch |-> owner[p].epoch]
  /\ owner' = [owner EXCEPT ![p] = None]
  /\ UNCHANGED <<head, prepared, retained, manifests, objects, clock, pc,
                 job, history>>

-----------------------------------------------------------------------------
(* Publishing: fill the closure, then commit against the head seen first.   *)

PublishStart(p) ==
  /\ pc[p] = "idle"
  /\ \E m \in Publication :
       Goto(p, "upload", [NoJob EXCEPT !.work = m, !.parent = head.id,
                                       !.todo = Closure[m]])
  /\ UNCHANGED <<documents, clock, owner, history>>

(* An object that exists is used as it is: no ownership is taken and its    *)
(* modification time, which the collector goes by, is not refreshed.        *)
EnsureStat(p) ==
  /\ pc[p] = "upload"
  /\ \E o \in job[p].todo :
       IF objects[o] # Absent
       THEN Goto(p, "upload", [job[p] EXCEPT !.todo = @ \ {o}])
       ELSE Goto(p, IF o \notin Page /\ owner[p] # None
                    THEN "create" ELSE Own(p),
                 [job[p] EXCEPT !.at = o, !.back = "create"])
  /\ UNCHANGED <<documents, clock, owner, history>>

(* ContentAddressedStorage.ensure keeps an object a winner created first.   *)
Create(p) ==
  /\ pc[p] = "create"
  /\ LET o == job[p].at IN
       /\ objects' = [objects EXCEPT ![o] = IF @ = Absent THEN clock ELSE @]
       /\ Goto(p, "upload", [job[p] EXCEPT !.at = None, !.back = "idle",
                                           !.todo = @ \ {o}])
  /\ UNCHANGED <<writer, head, prepared, retained, manifests, clock, owner,
                 history>>

CommitHead(p) ==
  /\ pc[p] = "upload" /\ job[p].todo = {}
  /\ IF head.id # job[p].parent
     THEN End(p)
     ELSE /\ Proceed(p, "closure")
          /\ UNCHANGED <<documents, clock, owner, history>>

(* The first closure check runs before ownership; identical content returns *)
(* the previous head without a write.                                       *)
CommitClosure(p) ==
  /\ pc[p] = "closure"
  /\ UNCHANGED <<documents, clock, owner, history>>
  /\ IF ~ClosurePresent(job[p].work)
     THEN Return(p)
     ELSE IF job[p].work = job[p].parent
     THEN CommitReturn(p)
     ELSE Goto(p, Own(p), [job[p] EXCEPT !.back = "prepare"])

Prepare(p) ==
  /\ pc[p] = "prepare"
  /\ prepared' = [prepared EXCEPT ![job[p].work] = job[p].parent]
  /\ landed' = landed \ {job[p].work}
  /\ Proceed(p, "manifest")
  /\ UNCHANGED <<writer, head, retained, manifests, objects, clock, owner,
                 promise>>

EnsureManifest(p) ==
  /\ pc[p] = "manifest"
  /\ manifests' = [manifests EXCEPT ![job[p].work] =
                     IF @ = Absent THEN clock ELSE @]
  /\ Proceed(p, "closure2")
  /\ UNCHANGED <<writer, head, prepared, retained, objects, clock, owner,
                 history>>

(* Slip: commit relies on the check made before it owned the store.         *)
CommitClosureTrusted(p) ==
  /\ pc[p] = "closure2"
  /\ Goto(p, "assert", [job[p] EXCEPT !.back = "readHead"])
  /\ UNCHANGED <<documents, clock, owner, history>>

(* The second check, now as the owner: nobody else can delete any more.     *)
CommitClosureOwned(p) ==
  /\ pc[p] = "closure2"
  /\ UNCHANGED <<documents, clock, owner, history>>
  /\ IF ~ClosurePresent(job[p].work)
     THEN Return(p)
     ELSE Goto(p, "assert", [job[p] EXCEPT !.back = "readHead"])

(* Slip: commit does not compare the head with the parent again.            *)
CommitReadHeadUnchecked(p) ==
  /\ pc[p] = "readHead"
  /\ Goto(p, IF head.id = None THEN "retain" ELSE "retire",
             [job[p] EXCEPT !.latest = head])
  /\ UNCHANGED <<documents, clock, owner, history>>

CommitReadHead(p) ==
  /\ pc[p] = "readHead"
  /\ IF head.id # job[p].parent
     THEN End(p)
     ELSE /\ Goto(p, IF head.id = None THEN "retain" ELSE "retire",
                     [job[p] EXCEPT !.latest = head])
          /\ UNCHANGED <<documents, clock, owner, history>>

RetirePrevious(p) ==
  /\ pc[p] = "retire"
  /\ retained' = [retained EXCEPT ![job[p].latest.id] =
                    [committedAt |-> IF @ = Absent THEN clock ELSE @.committedAt,
                     retiredAt |-> clock]]
  /\ Proceed(p, "retain")
  /\ UNCHANGED <<writer, head, prepared, manifests, objects, clock, owner,
                 history>>

(* Slip: the retention record is left to be written after the head.         *)
RetainDeferred(p) ==
  /\ pc[p] = "retain"
  /\ Proceed(p, "swing")
  /\ UNCHANGED <<documents, clock, owner, history>>

Retain(p) ==
  /\ pc[p] = "retain"
  /\ retained' = [retained EXCEPT ![job[p].work] =
                    [committedAt |-> clock, retiredAt |-> Absent]]
  /\ Proceed(p, "swing")
  /\ UNCHANGED <<writer, head, prepared, manifests, objects, clock, owner,
                 history>>

SwingHead(p) ==
  /\ pc[p] = "swing"
  /\ head.revision < MaxRevision
  /\ IF head # job[p].latest
     THEN End(p)
     ELSE /\ head' = [id |-> job[p].work, revision |-> job[p].latest.revision + 1]
          /\ landed' = landed \cup {job[p].work}
          /\ promise' = [m \in Publication |->
               CASE m = job[p].work -> Absent
                 [] m # job[p].work /\ m = head.id -> retained[m].retiredAt
                 [] OTHER -> promise[m]]
          /\ Proceed(p, "cleanup")
          /\ UNCHANGED <<writer, prepared, retained, manifests, objects, clock,
                         owner>>

Cleanup(p) ==
  /\ pc[p] = "cleanup"
  /\ prepared' = [prepared EXCEPT ![job[p].work] = Absent]
  /\ CommitReturn(p)
  /\ UNCHANGED <<writer, head, retained, manifests, objects, clock, owner,
                 history>>

(* A failed delete is only counted: the head is committed.                  *)
CleanupFails(p) ==
  /\ pc[p] = "cleanup"
  /\ CommitReturn(p)
  /\ UNCHANGED <<documents, clock, owner, history>>

-----------------------------------------------------------------------------
(* Recovery, run by the CLI in a process of its own once the operator has   *)
(* stopped every other writer.                                              *)

(* Slip: recovery without the --writers-quiesced confirmation.              *)
Unconfirmed(p) == TRUE

WritersQuiesced(p) == \A q \in Process \ {p} : pc[q] = "down"

RecoverStart(p) ==
  /\ pc[p] = "idle" /\ owner[p] = None /\ WritersQuiesced(p)
  /\ writer.epoch < MaxEpoch
  /\ Goto(p, "recoverCas", [NoJob EXCEPT !.seen = writer, !.recovering = TRUE])
  /\ UNCHANGED <<documents, clock, owner, history>>

(* A store without a writer.json has nothing to release.                    *)
RecoverCas(p) ==
  /\ pc[p] = "recoverCas"
  /\ IF writer # job[p].seen
     THEN End(p)
     ELSE /\ writer' = IF writer.epoch = 0 THEN writer
                       ELSE [owner |-> None, epoch |-> job[p].seen.epoch + 1]
          /\ Goto(p, "acquire", [job[p] EXCEPT !.seen = None, !.back = "scan"])
          /\ UNCHANGED <<head, prepared, retained, manifests, objects, clock,
                         owner, history>>

ScanPrepared(p) ==
  /\ pc[p] = "scan"
  /\ Goto(p, "replay",
          [job[p] EXCEPT !.replay = {m \in Publication : prepared[m] # Absent}])
  /\ UNCHANGED <<documents, clock, owner, history>>

(* The record's publication is the head: only its cleanup was lost.         *)
ReplayClean(p) ==
  /\ pc[p] = "replay"
  /\ \E m \in job[p].replay :
       /\ head.id = m
       /\ IF ClosurePresent(m)
          THEN /\ prepared' = [prepared EXCEPT ![m] = Absent]
               /\ Goto(p, "replay", [job[p] EXCEPT !.replay = @ \ {m}])
               /\ UNCHANGED <<writer, head, retained, manifests, objects,
                              clock, owner, history>>
          ELSE End(p)

(* Its parent is still the head: commit it.                                 *)
ReplayCommit(p) ==
  /\ pc[p] = "replay"
  /\ \E m \in job[p].replay :
       /\ head.id # m /\ head.id = prepared[m]
       /\ Goto(p, "upload", [job[p] EXCEPT !.work = m, !.parent = prepared[m],
                                           !.replay = @ \ {m}])
  /\ UNCHANGED <<documents, clock, owner, history>>

(* Slip: a record recovery cannot replay is dropped.                        *)
ReplayDiscard(p) ==
  /\ pc[p] = "replay"
  /\ \E m \in job[p].replay :
       /\ head.id # m /\ head.id # prepared[m]
       /\ prepared' = [prepared EXCEPT ![m] = Absent]
       /\ Goto(p, "replay", [job[p] EXCEPT !.replay = @ \ {m}])
  /\ UNCHANGED <<writer, head, retained, manifests, objects, clock, owner,
                 history>>

(* Anything else throws, and the record stays.                              *)
ReplayConflict(p) ==
  /\ pc[p] = "replay"
  /\ \E m \in job[p].replay : head.id # m /\ head.id # prepared[m]
  /\ End(p)

RecoverDone(p) ==
  /\ pc[p] = "replay" /\ job[p].replay = {}
  /\ End(p)

-----------------------------------------------------------------------------
(* Garbage collection.                                                      *)

GcStart(p) ==
  /\ pc[p] = "idle"
  /\ Goto(p, Own(p), [NoJob EXCEPT !.back = "mark"])
  /\ UNCHANGED <<documents, clock, owner, history>>

(* Slip: the read promise is counted from the commit, not the retirement.   *)
RetainedSinceCommit(m) ==
  /\ retained[m] # Absent
  /\ \/ m = head.id
     \/ clock - retained[m].committedAt < RetainedMs

(* retained/<m> keeps m while it is the head, for RetainedMs after it       *)
(* retired, and for OrphanMs after a commit that never became visible.      *)
RetainedRoot(m) ==
  /\ retained[m] # Absent
  /\ \/ m = head.id
     \/ /\ retained[m].retiredAt # Absent
        /\ clock - retained[m].retiredAt < RetainedMs
     \/ /\ retained[m].retiredAt = Absent
        /\ clock - retained[m].committedAt < OrphanMs

Roots ==
  {m \in Publication : m = head.id \/ RetainedRoot(m) \/ prepared[m] # Absent}

(* A root whose manifest or page cannot be read aborts the collection; a    *)
(* prepared record carries its manifest itself.                             *)
ReadableRoot(m) ==
  /\ (m = head.id \/ RetainedRoot(m)) => manifests[m] # Absent
  /\ \A o \in Closure[m] \cap Page : objects[o] # Absent

Mark(p) ==
  /\ pc[p] = "mark"
  /\ IF \E m \in Roots : ~ReadableRoot(m)
     THEN End(p)
     ELSE /\ Goto(p, "sweep", [job[p] EXCEPT
               !.latest = head,
               !.marks = Roots \cup UNION {Closure[m] : m \in Roots}])
          /\ UNCHANGED <<documents, clock, owner, history>>

Sweepable(p, x, modifiedAt) ==
  /\ x \notin job[p].marks
  /\ modifiedAt # Absent
  /\ clock - modifiedAt >= OrphanMs

SweepObject(p) ==
  /\ pc[p] = "sweep"
  /\ \E o \in Object :
       /\ Sweepable(p, o, objects[o])
       /\ IF writer # owner[p] \/ (o \notin Page /\ head.id # job[p].latest.id)
          THEN End(p)
          ELSE /\ objects' = [objects EXCEPT ![o] = Absent]
               /\ UNCHANGED <<writer, head, prepared, retained, manifests,
                              clock, pc, owner, job, history>>

SweepManifest(p) ==
  /\ pc[p] = "sweep"
  /\ \E m \in Publication :
       /\ Sweepable(p, m, manifests[m])
       /\ IF writer # owner[p]
          THEN End(p)
          ELSE /\ manifests' = [manifests EXCEPT ![m] = Absent]
               /\ UNCHANGED <<writer, head, prepared, retained, objects, clock,
                              pc, owner, job, history>>

(* Bloom collisions keep garbage, so a sweep may end with some left.        *)
GcDone(p) == pc[p] = "sweep" /\ End(p)

-----------------------------------------------------------------------------
Ownership(p) ==
  AcquireRead(p) \/ AcquireCas(p) \/ AcquireReread(p) \/ AssertWriter(p)
    \/ Close(p)

Commit(p) ==
  \/ PublishStart(p) \/ EnsureStat(p) \/ Create(p) \/ CommitHead(p)
  \/ CommitClosure(p) \/ Prepare(p) \/ EnsureManifest(p)
  \/ CommitClosureOwned(p) \/ CommitReadHead(p) \/ RetirePrevious(p)
  \/ Retain(p) \/ SwingHead(p) \/ Cleanup(p) \/ CleanupFails(p)

Recovery(p) ==
  \/ RecoverStart(p) \/ RecoverCas(p) \/ ScanPrepared(p) \/ ReplayClean(p)
  \/ ReplayCommit(p) \/ ReplayConflict(p) \/ RecoverDone(p)

Collection(p) ==
  GcStart(p) \/ Mark(p) \/ SweepObject(p) \/ SweepManifest(p) \/ GcDone(p)

Next ==
  \/ Tick
  \/ \E p \in Process :
       Start(p) \/ Crash(p) \/ Fault(p) \/ Ownership(p) \/ Commit(p)
         \/ Recovery(p) \/ Collection(p)

Spec == Init /\ [][Next]_vars

-----------------------------------------------------------------------------
(* Every document and local has its shape, and an operation that has ended  *)
(* leaves none of its locals behind for the next one.                       *)
TypeOK ==
  /\ writer \in Token
  /\ head \in HeadRecord
  /\ prepared \in [Publication -> Parent \cup {Absent}]
  /\ retained \in [Publication -> Retention \cup {Absent}]
  /\ manifests \in [Publication -> Time \cup {Absent}]
  /\ objects \in [Object -> Time \cup {Absent}]
  /\ clock \in Time
  /\ pc \in [Process -> Labels]
  /\ owner \in [Process -> Token \cup {None}]
  /\ job \in [Process -> Locals]
  /\ landed \in SUBSET Publication
  /\ promise \in [Publication -> Time \cup {Absent}]
  /\ \A p \in Process : pc[p] \in {"down", "idle"} => job[p] = NoJob

(* A process that believes it owns the store does: no crash, recovery or    *)
(* lost acquire race leaves PublicationStore.owner behind the writer.json   *)
(* it was read from, so assertWriter never has to save a live writer.       *)
OwnerNeverStale ==
  \A p \in Process : owner[p] # None => writer = owner[p] /\ writer.owner = p

(* The visible publication can be read in full: its manifest, pages and     *)
(* objects exist, whatever was collected while it was being prepared        *)
(* (the second verifyClosure of commit, the marks of the collector).        *)
HeadComplete == head.id # None => Complete(head.id)

(* "Retention is authoritative and precedes visibility": a visible          *)
(* publication has a retention record at every instant.                     *)
RetentionPrecedesVisibility == head.id # None => retained[head.id] # Absent

(* PublicationStore.retainedHead(m), for a publication that is not the head.*)
RetainedHead(m) ==
  /\ retained[m] # Absent
  /\ retained[m].retiredAt # Absent => clock - retained[m].retiredAt <= RetainedMs

(* For RetainedMs after a publication was retired retainedHead serves it    *)
(* and the collector keeps its bytes, even when a later attempt to publish  *)
(* the same content overwrote its retention record and crashed.             *)
ReaderPromise ==
  \A m \in Publication :
    promise[m] # Absent /\ clock - promise[m] < RetainedMs
      => RetainedHead(m) /\ Complete(m)

HeadReplaced ==
  head' # head =>
    /\ head'.revision = head.revision + 1
    /\ Complete(head'.id)
    /\ \E p \in Process : /\ writer = owner[p]
                         /\ job[p].parent = head.id
                         /\ job[p].work = head'.id

(* The head changes only to the child of the head its publisher saw first,  *)
(* one revision up, complete, and by the owner of the store.                *)
HeadReplacesItsParent == [][HeadReplaced]_vars

(* A prepared record, the only thing a crashed commit leaves to recovery    *)
(* and to the collector's roots, goes away only once its publication is     *)
(* the head.                                                                *)
PreparedUntilVisible ==
  [][\A m \in Publication :
       prepared[m] # Absent /\ prepared'[m] = Absent => head.id = m]_vars

(* What readers are promised of all this: PublicationRegister.              *)
Register == INSTANCE PublicationRegister WITH
  current <- head,
  readable <- {m \in Publication : Complete(m)},
  promised <- {m \in Publication :
                 promise[m] # Absent /\ clock - promise[m] < RetainedMs}

(* Every step of the protocol replaces the register by a publication that   *)
(* is readable in full, or collects bytes that nobody was promised.         *)
ImplementsRegister == Register!Spec

-----------------------------------------------------------------------------
(* publication.ts:385, on a record whose deletion failed: "Head already     *)
(* committed; the durable prepared root is safe to recover."  Recovery of   *)
(* such a record would then clean it up, and not make a publication visible *)
(* again that newer ones have replaced.                                     *)
LandedRecordNotReplayed ==
  \A p \in Process :
    pc[p] = "upload" /\ job[p].recovering => job[p].work \notin landed
=============================================================================
