------------------------- MODULE Publication_proofs -------------------------
(***************************************************************************)
(* What holds of Publication for any processes, publications, closures and  *)
(* bounds.                                                                  *)
(***************************************************************************)
EXTENDS Publication, TLAPS

-----------------------------------------------------------------------------
(* Types.  TypeOK speaks of the store and of the processes; every action    *)
(* moves one process by Goto.                                               *)

StoreTyped ==
  /\ writer \in Token
  /\ head \in HeadRecord
  /\ prepared \in [Publication -> Parent \cup {Absent}]
  /\ retained \in [Publication -> Retention \cup {Absent}]
  /\ manifests \in [Publication -> Time \cup {Absent}]
  /\ objects \in [Object -> Time \cup {Absent}]
  /\ clock \in Time
  /\ landed \in SUBSET Publication
  /\ promise \in [Publication -> Time \cup {Absent}]

ProcessTyped ==
  /\ pc \in [Process -> Labels]
  /\ owner \in [Process -> Token \cup {None}]
  /\ job \in [Process -> Locals]
  /\ \A p \in Process : pc[p] \in {"down", "idle"} => job[p] = NoJob

LEMMA TypeParts == TypeOK <=> StoreTyped /\ ProcessTyped
BY DEF TypeOK, StoreTyped, ProcessTyped

LEMMA NoJobType == NoJob \in Locals
BY DEF NoJob, Locals, Parent

LEMMA GotoTyped ==
  ASSUME ProcessTyped, NEW p \in Process, NEW l \in Labels, NEW j \in Locals,
         l \in {"down", "idle"} => j = NoJob,
         Goto(p, l, j), owner' \in [Process -> Token \cup {None}]
  PROVE  ProcessTyped'
BY DEF ProcessTyped, Goto

LEMMA EndTyped ==
  ASSUME ProcessTyped, NEW p \in Process, End(p)
  PROVE  ProcessTyped'
<1>1. Goto(p, "idle", NoJob) /\ owner' = owner
  BY DEF End, Return
<1> QED
  BY <1>1, NoJobType, GotoTyped DEF ProcessTyped, Labels

LEMMA CommitReturnTyped ==
  ASSUME ProcessTyped, NEW p \in Process, CommitReturn(p), owner' = owner
  PROVE  ProcessTyped'
<1> DEFINE j == [NoJob EXCEPT !.recovering = TRUE, !.replay = job[p].replay]
<1>1. j \in Locals
  BY NoJobType DEF ProcessTyped, Locals
<1>2. CASE job[p].recovering
  <2>1. Goto(p, "replay", j)
    BY <1>2 DEF CommitReturn
  <2> QED
    BY <1>1, <2>1, GotoTyped DEF ProcessTyped, Labels
<1>3. CASE ~job[p].recovering
  BY <1>3, NoJobType, GotoTyped DEF CommitReturn, Return, ProcessTyped, Labels
<1> QED
  BY <1>2, <1>3

LEMMA EndStore ==
  ASSUME StoreTyped, NEW p \in Process, End(p)
  PROVE  StoreTyped'
BY DEF StoreTyped, End, documents, history

(* What the processes carry around.                                         *)

OwnLabels == {"acquire", "acquireCas", "reread", "assert"}

Committing(l, j) ==
  \/ l \in {"upload", "create", "closure", "prepare", "manifest", "closure2",
            "readHead", "retire", "retain", "swing", "cleanup"}
  \/ l \in OwnLabels /\ j.back \in {"create", "prepare", "readHead"}

CarriedBy(l, j) ==
  /\ l \in OwnLabels => j.back # "idle"
  /\ l \in OwnLabels \ {"assert"} => j.back # "readHead"
  /\ l \in {"acquireCas", "recoverCas"} =>
       j.seen \in Token /\ j.seen.epoch < MaxEpoch
  /\ l = "acquireCas" => j.seen.owner = None
  /\ l = "recoverCas" => j.recovering
  /\ Committing(l, j) => j.work \in Publication
  /\ \/ l \in {"prepare", "manifest", "closure2", "readHead", "retire", "retain",
               "swing"}
     \/ l \in OwnLabels /\ j.back \in {"prepare", "readHead"}
     => j.work # j.parent
  /\ \/ l \in {"scan", "replay"}
     \/ l \in OwnLabels /\ j.back = "scan"
     => j.recovering

Carried == \A p \in Process : CarriedBy(pc[p], job[p])

LEMMA ProcessTypedStep ==
  StoreTyped /\ ProcessTyped /\ Carried /\ [Next]_vars => ProcessTyped'
<1> SUFFICES ASSUME StoreTyped, ProcessTyped, Carried, [Next]_vars
             PROVE  ProcessTyped'
  OBVIOUS
<1>1. CASE UNCHANGED vars
  BY <1>1 DEF ProcessTyped, vars
<1>2. CASE Tick
  BY <1>2 DEF ProcessTyped, Tick
<1>3. ASSUME NEW p \in Process, Start(p) PROVE ProcessTyped'
  BY <1>3, NoJobType, GotoTyped DEF Start, Proceed, ProcessTyped, Labels
<1>4. ASSUME NEW p \in Process, Crash(p) PROVE ProcessTyped'
  BY <1>4, NoJobType, GotoTyped DEF Crash, ProcessTyped, Labels
<1>5. ASSUME NEW p \in Process, Fault(p) PROVE ProcessTyped'
  BY <1>5, EndTyped DEF Fault
<1>6. ASSUME NEW p \in Process, Ownership(p) PROVE ProcessTyped'
  <2>1. CASE AcquireRead(p)
    <3>0. job[p] \in Locals /\ writer \in Token
      BY DEF StoreTyped, ProcessTyped
    <3>1. [job[p] EXCEPT !.seen = writer] \in Locals
      BY <3>0 DEF Locals
    <3>2. \/ End(p)
          \/ /\ Goto(p, "acquireCas", [job[p] EXCEPT !.seen = writer])
             /\ owner' = owner
      BY <2>1 DEF AcquireRead
    <3> QED
      BY <3>1, <3>2, EndTyped, GotoTyped DEF ProcessTyped, Labels
  <2>2. CASE AcquireCas(p)
    BY <2>2, EndTyped, GotoTyped DEF AcquireCas, Proceed, ProcessTyped, Labels
  <2>3. CASE AcquireReread(p)
    <3>1. [job[p] EXCEPT !.seen = None] \in Locals
      BY DEF ProcessTyped, Locals
    <3>2. owner' \in [Process -> Token \cup {None}]
      BY <2>3 DEF AcquireReread, StoreTyped, ProcessTyped
    <3> QED
      BY <2>3, <3>1, <3>2, GotoTyped DEF AcquireReread, Labels
  <2>4. CASE AssertWriter(p)
    <3>1. [job[p] EXCEPT !.back = "idle"] \in Locals
      BY DEF ProcessTyped, Locals
    <3>2. job[p].back \in Labels \ {"down", "idle"}
      BY <2>4 DEF AssertWriter, Carried, CarriedBy, OwnLabels, ProcessTyped, Locals, Labels
    <3> QED
      BY <2>4, <3>1, <3>2, EndTyped, GotoTyped DEF AssertWriter, ProcessTyped
  <2>5. CASE Close(p)
    BY <2>5 DEF Close, ProcessTyped
  <2> QED
    BY <1>6, <2>1, <2>2, <2>3, <2>4, <2>5 DEF Ownership
<1>7. ASSUME NEW p \in Process, Commit(p) PROVE ProcessTyped'
  <2>1. CASE PublishStart(p)
    <3>1. PICK m \in Publication :
            Goto(p, "upload", [NoJob EXCEPT !.work = m, !.parent = head.id,
                                            !.todo = Closure[m]])
      BY <2>1 DEF PublishStart
    <3>2. [NoJob EXCEPT !.work = m, !.parent = head.id, !.todo = Closure[m]]
            \in Locals
      BY NoJobType, ConstantsAssumption DEF StoreTyped, HeadRecord, Locals, Parent
    <3> QED
      BY <2>1, <3>1, <3>2, GotoTyped DEF PublishStart, ProcessTyped, Labels
  <2>2. CASE EnsureStat(p)
    <3>1. PICK o \in job[p].todo :
            \/ Goto(p, "upload", [job[p] EXCEPT !.todo = @ \ {o}])
            \/ Goto(p, IF o \notin Page /\ owner[p] # None
                       THEN "create" ELSE Own(p),
                    [job[p] EXCEPT !.at = o, !.back = "create"])
      BY <2>2 DEF EnsureStat
    <3>2. o \in Object
      BY DEF ProcessTyped, Locals
    <3>3. /\ [job[p] EXCEPT !.todo = @ \ {o}] \in Locals
          /\ [job[p] EXCEPT !.at = o, !.back = "create"] \in Locals
      BY <3>2 DEF ProcessTyped, Locals
    <3> QED
      BY <2>2, <3>1, <3>3, GotoTyped DEF EnsureStat, Own, ProcessTyped, Labels
  <2>3. CASE Create(p)
    <3>1. [job[p] EXCEPT !.at = None, !.back = "idle", !.todo = @ \ {job[p].at}]
            \in Locals
      BY DEF ProcessTyped, Locals
    <3> QED
      BY <2>3, <3>1, GotoTyped DEF Create, ProcessTyped, Labels
  <2>4. CASE CommitHead(p)
    BY <2>4, EndTyped, GotoTyped DEF CommitHead, Proceed, ProcessTyped, Labels
  <2>5. CASE CommitClosure(p)
    <3>1. [job[p] EXCEPT !.back = "prepare"] \in Locals
      BY DEF ProcessTyped, Locals
    <3> QED
      BY <2>5, <3>1, CommitReturnTyped, NoJobType, GotoTyped
         DEF CommitClosure, Return, Own, ProcessTyped, Labels
  <2>6. CASE Prepare(p) \/ EnsureManifest(p) \/ RetirePrevious(p) \/ Retain(p)
    BY <2>6, GotoTyped
       DEF Prepare, EnsureManifest, RetirePrevious, Retain, Proceed, ProcessTyped,
           Labels
  <2>7. CASE CommitClosureOwned(p)
    <3>1. [job[p] EXCEPT !.back = "readHead"] \in Locals
      BY DEF ProcessTyped, Locals
    <3> QED
      BY <2>7, <3>1, NoJobType, GotoTyped
         DEF CommitClosureOwned, Return, ProcessTyped, Labels
  <2>8. CASE CommitReadHead(p)
    <3>0. job[p] \in Locals /\ head \in HeadRecord
      BY DEF StoreTyped, ProcessTyped
    <3>1. [job[p] EXCEPT !.latest = head] \in Locals
      BY <3>0 DEF Locals
    <3>2. \/ End(p)
          \/ /\ Goto(p, IF head.id = None THEN "retain" ELSE "retire",
                     [job[p] EXCEPT !.latest = head])
             /\ owner' = owner
      BY <2>8 DEF CommitReadHead
    <3> QED
      BY <3>1, <3>2, EndTyped, GotoTyped DEF ProcessTyped, Labels
  <2>9. CASE SwingHead(p)
    BY <2>9, EndTyped, GotoTyped DEF SwingHead, Proceed, ProcessTyped, Labels
  <2>10. CASE Cleanup(p) \/ CleanupFails(p)
    BY <2>10, CommitReturnTyped DEF Cleanup, CleanupFails
  <2> QED
    BY <1>7, <2>1, <2>2, <2>3, <2>4, <2>5, <2>6, <2>7, <2>8, <2>9, <2>10
       DEF Commit
<1>8. ASSUME NEW p \in Process, Recovery(p) PROVE ProcessTyped'
  <2>1. CASE RecoverStart(p)
    <3>1. [NoJob EXCEPT !.seen = writer, !.recovering = TRUE] \in Locals
      BY NoJobType DEF StoreTyped, Locals
    <3> QED
      BY <2>1, <3>1, GotoTyped DEF RecoverStart, ProcessTyped, Labels
  <2>2. CASE RecoverCas(p)
    <3>1. [job[p] EXCEPT !.seen = None, !.back = "scan"] \in Locals
      BY DEF ProcessTyped, Locals
    <3> QED
      BY <2>2, <3>1, EndTyped, GotoTyped DEF RecoverCas, ProcessTyped, Labels
  <2>3. CASE ScanPrepared(p)
    <3>1. [job[p] EXCEPT !.replay = {m \in Publication : prepared[m] # Absent}]
            \in Locals
      BY DEF ProcessTyped, Locals
    <3> QED
      BY <2>3, <3>1, GotoTyped DEF ScanPrepared, ProcessTyped, Labels
  <2>4. CASE ReplayClean(p)
    <3>1. PICK m \in job[p].replay :
            \/ End(p)
            \/ /\ Goto(p, "replay", [job[p] EXCEPT !.replay = @ \ {m}])
               /\ owner' = owner
      BY <2>4 DEF ReplayClean
    <3>2. [job[p] EXCEPT !.replay = @ \ {m}] \in Locals
      BY DEF ProcessTyped, Locals
    <3> QED
      BY <3>1, <3>2, EndTyped, GotoTyped DEF ProcessTyped, Labels
  <2>5. CASE ReplayCommit(p)
    <3>1. PICK m \in job[p].replay :
            /\ head.id = prepared[m]
            /\ Goto(p, "upload", [job[p] EXCEPT !.work = m, !.parent = prepared[m],
                                                !.replay = @ \ {m}])
      BY <2>5 DEF ReplayCommit
    <3>2. m \in Publication
      BY DEF ProcessTyped, Locals
    <3>3. prepared[m] \in Parent
      BY <3>1 DEF StoreTyped, HeadRecord, Parent
    <3>0. job[p] \in Locals
      BY DEF ProcessTyped
    <3>4. [job[p] EXCEPT !.work = m, !.parent = prepared[m], !.replay = @ \ {m}]
            \in Locals
      BY <3>0, <3>2, <3>3 DEF Locals
    <3> QED
      BY <2>5, <3>1, <3>4, GotoTyped DEF ReplayCommit, ProcessTyped, Labels
  <2>6. CASE ReplayConflict(p) \/ RecoverDone(p)
    BY <2>6, EndTyped DEF ReplayConflict, RecoverDone
  <2> QED
    BY <1>8, <2>1, <2>2, <2>3, <2>4, <2>5, <2>6 DEF Recovery
<1>9. ASSUME NEW p \in Process, Collection(p) PROVE ProcessTyped'
  <2>1. CASE GcStart(p)
    <3>1. [NoJob EXCEPT !.back = "mark"] \in Locals
      BY NoJobType DEF Locals
    <3> QED
      BY <2>1, <3>1, GotoTyped DEF GcStart, Own, ProcessTyped, Labels
  <2>2. CASE Mark(p)
    <3> DEFINE marks == Roots \cup UNION {Closure[m] : m \in Roots}
    <3>1. marks \in SUBSET (Publication \cup Object)
      BY ConstantsAssumption DEF Roots
    <3>0. job[p] \in Locals /\ head \in HeadRecord
      BY DEF StoreTyped, ProcessTyped
    <3>2. [job[p] EXCEPT !.latest = head, !.marks = marks] \in Locals
      BY <3>0, <3>1 DEF Locals
    <3>3. \/ End(p)
          \/ /\ Goto(p, "sweep", [job[p] EXCEPT !.latest = head, !.marks = marks])
             /\ owner' = owner
      BY <2>2 DEF Mark
    <3> QED
      BY <3>2, <3>3, EndTyped, GotoTyped DEF ProcessTyped, Labels
  <2>3. CASE SweepObject(p) \/ SweepManifest(p) \/ GcDone(p)
    BY <2>3, EndTyped DEF SweepObject, SweepManifest, GcDone, ProcessTyped
  <2> QED
    BY <1>9, <2>1, <2>2, <2>3 DEF Collection
<1> QED
  BY <1>1, <1>2, <1>3, <1>4, <1>5, <1>6, <1>7, <1>8, <1>9 DEF Next

LEMMA StoreTypedStep ==
  /\ StoreTyped /\ ProcessTyped /\ Carried /\ RetentionPrecedesVisibility
  /\ [Next]_vars
  => StoreTyped'
<1> SUFFICES ASSUME StoreTyped, ProcessTyped, Carried,
                    RetentionPrecedesVisibility, [Next]_vars
             PROVE  StoreTyped'
  OBVIOUS
<1>1. CASE UNCHANGED vars
  BY <1>1 DEF StoreTyped, vars, documents, history
<1>2. CASE Tick
  BY <1>2, ConstantsAssumption DEF StoreTyped, Tick, documents, history, Time
<1>3. ASSUME NEW p \in Process, Start(p) \/ Crash(p) \/ Fault(p)
      PROVE  StoreTyped'
  BY <1>3 DEF Start, Crash, Fault, End, StoreTyped, documents, history
<1>4. ASSUME NEW p \in Process, Ownership(p) PROVE StoreTyped'
  <2>1. CASE AcquireRead(p) \/ AcquireReread(p) \/ AssertWriter(p)
    BY <2>1 DEF AcquireRead, AcquireReread, AssertWriter, End, StoreTyped,
                documents, history
  <2>2. CASE AcquireCas(p)
    <3>1. CASE End(p)
      BY <3>1, EndStore
    <3>2. CASE ~End(p)
      <4>1. job[p].seen \in Token /\ job[p].seen.epoch < MaxEpoch
        BY <2>2 DEF AcquireCas, Carried, CarriedBy
      <4>2. [owner |-> p, epoch |-> job[p].seen.epoch + 1] \in Token
        BY <4>1, ConstantsAssumption DEF Token
      <4> QED
        BY <2>2, <3>2, <4>2 DEF AcquireCas, StoreTyped, history
    <3> QED
      BY <3>1, <3>2
  <2>3. CASE Close(p)
    <3>1. [owner |-> None, epoch |-> owner[p].epoch] \in Token
      BY <2>3 DEF Close, ProcessTyped, Token
    <3> QED
      BY <2>3, <3>1 DEF Close, StoreTyped, history
  <2> QED
    BY <1>4, <2>1, <2>2, <2>3 DEF Ownership
<1>5. ASSUME NEW p \in Process, Commit(p) PROVE StoreTyped'
  <2>1. CASE PublishStart(p) \/ EnsureStat(p) \/ CommitHead(p)
               \/ CommitClosure(p) \/ CommitClosureOwned(p)
               \/ CommitReadHead(p) \/ CleanupFails(p)
    BY <2>1 DEF PublishStart, EnsureStat, CommitHead, CommitClosure,
                CommitClosureOwned, CommitReadHead, CleanupFails, End,
                StoreTyped, documents, history
  <2>2. CASE Create(p) \/ EnsureManifest(p)
    BY <2>2 DEF Create, EnsureManifest, StoreTyped, history
  <2>3. CASE Prepare(p) \/ Cleanup(p)
    <3>1. job[p].parent \in Parent
      BY DEF ProcessTyped, Locals
    <3> QED
      BY <2>3, <3>1 DEF Prepare, Cleanup, StoreTyped, history
  <2>4. CASE RetirePrevious(p)
    <3>1. \A r \in Retention \cup {Absent} :
            [committedAt |-> IF r = Absent THEN clock ELSE r.committedAt,
             retiredAt |-> clock] \in Retention
      BY DEF StoreTyped, Retention
    <3> QED
      BY <2>4, <3>1 DEF RetirePrevious, StoreTyped, history
  <2>5. CASE Retain(p)
    <3>1. [committedAt |-> clock, retiredAt |-> Absent] \in Retention
      BY DEF StoreTyped, Retention
    <3> QED
      BY <2>5, <3>1 DEF Retain, StoreTyped, history
  <2>6. CASE SwingHead(p)
    <3>1. CASE End(p)
      BY <3>1, EndStore
    <3>2. CASE ~End(p)
      <4>1. job[p].work \in Publication
        BY <2>6 DEF SwingHead, Carried, CarriedBy, Committing
      <4>2. head = job[p].latest /\ head.revision < MaxRevision
        BY <2>6, <3>2 DEF SwingHead
      <4>3. [id |-> job[p].work, revision |-> job[p].latest.revision + 1]
              \in HeadRecord
        BY <4>1, <4>2, ConstantsAssumption DEF StoreTyped, HeadRecord
      <4>4. \A m \in Publication : m = head.id =>
              retained[m].retiredAt \in Time \cup {Absent}
        BY ConstantsAssumption
           DEF StoreTyped, RetentionPrecedesVisibility, Retention
      <4>5. promise' \in [Publication -> Time \cup {Absent}]
        BY <2>6, <3>2, <4>4 DEF SwingHead, StoreTyped
      <4> QED
        BY <2>6, <3>2, <4>1, <4>3, <4>5 DEF SwingHead, StoreTyped
    <3> QED
      BY <3>1, <3>2
  <2> QED
    BY <1>5, <2>1, <2>2, <2>3, <2>4, <2>5, <2>6 DEF Commit
<1>6. ASSUME NEW p \in Process, Recovery(p) PROVE StoreTyped'
  <2>1. CASE RecoverStart(p) \/ ScanPrepared(p) \/ ReplayCommit(p)
               \/ ReplayConflict(p) \/ RecoverDone(p)
    BY <2>1 DEF RecoverStart, ScanPrepared, ReplayCommit, ReplayConflict,
                RecoverDone, End, StoreTyped, documents, history
  <2>2. CASE RecoverCas(p)
    <3>1. job[p].seen \in Token /\ job[p].seen.epoch < MaxEpoch
      BY <2>2 DEF RecoverCas, Carried, CarriedBy
    <3>2. [owner |-> None, epoch |-> job[p].seen.epoch + 1] \in Token
      BY <3>1, ConstantsAssumption DEF Token
    <3> QED
      BY <2>2, <3>2 DEF RecoverCas, End, StoreTyped, documents, history
  <2>3. CASE ReplayClean(p)
    BY <2>3 DEF ReplayClean, End, StoreTyped, documents, history
  <2> QED
    BY <1>6, <2>1, <2>2, <2>3 DEF Recovery
<1>7. ASSUME NEW p \in Process, Collection(p) PROVE StoreTyped'
  BY <1>7 DEF Collection, GcStart, Mark, SweepObject, SweepManifest, GcDone, End,
              StoreTyped, documents, history
<1> QED
  BY <1>1, <1>2, <1>3, <1>4, <1>5, <1>6, <1>7 DEF Next

LEMMA GotoCarried ==
  ASSUME ProcessTyped, Carried, NEW p \in Process, NEW l, NEW j,
         Goto(p, l, j), CarriedBy(l, j)
  PROVE  Carried'
BY DEF ProcessTyped, Carried, Goto

LEMMA EndCarried ==
  ASSUME ProcessTyped, Carried, NEW p \in Process, End(p)
  PROVE  Carried'
BY GotoCarried DEF End, Return, CarriedBy, OwnLabels, Committing

LEMMA CommitReturnCarried ==
  ASSUME ProcessTyped, Carried, NEW p \in Process, CommitReturn(p)
  PROVE  Carried'
<1> DEFINE j == [NoJob EXCEPT !.recovering = TRUE, !.replay = job[p].replay]
<1>1. j.recovering
  BY DEF NoJob
<1>2. CarriedBy("replay", j) /\ CarriedBy("idle", NoJob)
  BY <1>1 DEF CarriedBy, OwnLabels, Committing
<1> QED
  BY <1>2, GotoCarried DEF CommitReturn, Return

LEMMA CarriedStep ==
  StoreTyped /\ ProcessTyped /\ Carried /\ [Next]_vars => Carried'
<1> SUFFICES ASSUME StoreTyped, ProcessTyped, Carried, [Next]_vars
             PROVE  Carried'
  OBVIOUS
<1> USE DEF CarriedBy, OwnLabels, Committing
<1>1. CASE UNCHANGED vars
  BY <1>1 DEF Carried, vars
<1>2. CASE Tick
  BY <1>2 DEF Carried, Tick
<1>3. ASSUME NEW p \in Process, Start(p) \/ Crash(p) \/ Fault(p)
      PROVE  Carried'
  BY <1>3, GotoCarried, EndCarried DEF Start, Crash, Fault, Proceed
<1>4. ASSUME NEW p \in Process, Ownership(p) PROVE Carried'
  <2> USE DEF Proceed
  <2>0. job[p] \in Locals /\ CarriedBy(pc[p], job[p])
    BY DEF ProcessTyped, Carried
  <2>1. CASE AcquireRead(p)
    <3>1. CASE writer.owner = None
      <4> DEFINE j == [job[p] EXCEPT !.seen = writer]
      <4>1. CarriedBy("acquireCas", j)
        BY <2>0, <2>1, <3>1 DEF AcquireRead, StoreTyped, Locals
      <4> QED
        BY <2>1, <3>1, <4>1, GotoCarried DEF AcquireRead
    <3> QED
      BY <2>1, <3>1, EndCarried DEF AcquireRead
  <2>2. CASE AcquireCas(p)
    BY <2>0, <2>2, GotoCarried, EndCarried DEF AcquireCas
  <2>3. CASE AcquireReread(p)
    <3> DEFINE j == [job[p] EXCEPT !.seen = None]
    <3>1. CarriedBy("create", j) \/ job[p].back # "create"
      BY <2>0, <2>3 DEF AcquireReread, Locals
    <3>2. CarriedBy("assert", j)
      BY <2>0, <2>3 DEF AcquireReread, Locals
    <3> QED
      BY <2>3, <3>1, <3>2, GotoCarried DEF AcquireReread
  <2>4. CASE AssertWriter(p)
    <3> DEFINE j == [job[p] EXCEPT !.back = "idle"]
    <3>1. CarriedBy(job[p].back, j)
      BY <2>0, <2>4 DEF AssertWriter, Locals
    <3> QED
      BY <2>4, <3>1, GotoCarried, EndCarried DEF AssertWriter
  <2>5. CASE Close(p)
    BY <2>5 DEF Close, Carried
  <2> QED
    BY <1>4, <2>1, <2>2, <2>3, <2>4, <2>5 DEF Ownership
<1>5. ASSUME NEW p \in Process, Commit(p) PROVE Carried'
  <2>0. job[p] \in Locals /\ CarriedBy(pc[p], job[p])
    BY DEF ProcessTyped, Carried
  <2>1. CASE PublishStart(p)
    <3>1. PICK m \in Publication :
            Goto(p, "upload", [NoJob EXCEPT !.work = m, !.parent = head.id,
                                            !.todo = Closure[m]])
      BY <2>1 DEF PublishStart
    <3> QED
      BY <3>1, GotoCarried DEF NoJob
  <2>2. CASE EnsureStat(p)
    <3>1. PICK o \in job[p].todo :
            \/ Goto(p, "upload", [job[p] EXCEPT !.todo = @ \ {o}])
            \/ Goto(p, IF o \notin Page /\ owner[p] # None
                       THEN "create" ELSE Own(p),
                    [job[p] EXCEPT !.at = o, !.back = "create"])
      BY <2>2 DEF EnsureStat
    <3>2. job[p].work \in Publication
      BY <2>0, <2>2 DEF EnsureStat
    <3>3. /\ [job[p] EXCEPT !.todo = @ \ {o}].work = job[p].work
          /\ [job[p] EXCEPT !.at = o, !.back = "create"].work = job[p].work
          /\ [job[p] EXCEPT !.at = o, !.back = "create"].back = "create"
      BY <2>0 DEF Locals
    <3> QED
      BY <3>1, <3>2, <3>3, GotoCarried DEF Own
  <2>3. CASE Create(p)
    <3> DEFINE j == [job[p] EXCEPT !.at = None, !.back = "idle",
                                   !.todo = @ \ {job[p].at}]
    <3>1. CarriedBy("upload", j)
      BY <2>0, <2>3 DEF Create, Locals
    <3> QED
      BY <2>3, <3>1, GotoCarried DEF Create
  <2>4. CASE CommitHead(p) \/ Prepare(p) \/ EnsureManifest(p)
               \/ RetirePrevious(p) \/ Retain(p) \/ SwingHead(p)
    <3>1. PICK l \in {"closure", "manifest", "closure2", "retain", "swing",
                      "cleanup"} :
            /\ End(p) \/ Goto(p, l, job[p])
            /\ l \in {"closure", "cleanup"}
               \/ pc[p] \in {"prepare", "manifest", "retire", "retain"}
            /\ pc[p] \in {"upload", "prepare", "manifest", "retire", "retain",
                          "swing"}
      BY <2>4 DEF CommitHead, Prepare, EnsureManifest, RetirePrevious, Retain,
                  SwingHead, Proceed
    <3>2. CarriedBy(l, job[p])
      BY <2>0, <3>1
    <3> QED
      BY <3>1, <3>2, GotoCarried, EndCarried
  <2>5. CASE CommitClosure(p)
    <3> DEFINE j == [job[p] EXCEPT !.back = "prepare"]
    <3>1. j.back = "prepare" /\ j.work = job[p].work /\ j.parent = job[p].parent
      BY <2>0 DEF Locals
    <3>2. job[p].work \in Publication
      BY <2>0, <2>5 DEF CommitClosure
    <3>3. \/ Return(p) \/ CommitReturn(p)
          \/ job[p].work # job[p].parent /\ Goto(p, Own(p), j)
      BY <2>5 DEF CommitClosure
    <3>4. job[p].work # job[p].parent =>
            CarriedBy("acquire", j) /\ CarriedBy("assert", j)
      BY <3>1, <3>2
    <3>5. CarriedBy("idle", NoJob)
      OBVIOUS
    <3> QED
      BY <3>3, <3>4, <3>5, CommitReturnCarried, GotoCarried DEF Return, Own
  <2>6. CASE CommitClosureOwned(p)
    <3> DEFINE j == [job[p] EXCEPT !.back = "readHead"]
    <3>1. CarriedBy("assert", j)
      BY <2>0, <2>6 DEF CommitClosureOwned, Locals
    <3> QED
      BY <2>6, <3>1, GotoCarried DEF CommitClosureOwned, Return
  <2>7. CASE CommitReadHead(p)
    <3> DEFINE j == [job[p] EXCEPT !.latest = head]
    <3>1. CarriedBy("retain", j) /\ CarriedBy("retire", j)
      BY <2>0, <2>7 DEF CommitReadHead, Locals
    <3> QED
      BY <2>7, <3>1, GotoCarried, EndCarried DEF CommitReadHead
  <2>8. CASE Cleanup(p) \/ CleanupFails(p)
    BY <2>8, CommitReturnCarried DEF Cleanup, CleanupFails
  <2> QED
    BY <1>5, <2>1, <2>2, <2>3, <2>4, <2>5, <2>6, <2>7, <2>8 DEF Commit
<1>6. ASSUME NEW p \in Process, Recovery(p) PROVE Carried'
  <2>0. job[p] \in Locals /\ CarriedBy(pc[p], job[p])
    BY DEF ProcessTyped, Carried
  <2>1. CASE RecoverStart(p)
    <3> DEFINE j == [NoJob EXCEPT !.seen = writer, !.recovering = TRUE]
    <3>1. CarriedBy("recoverCas", j)
      BY <2>1 DEF RecoverStart, StoreTyped, NoJob
    <3> QED
      BY <2>1, <3>1, GotoCarried DEF RecoverStart
  <2>2. CASE RecoverCas(p)
    <3> DEFINE j == [job[p] EXCEPT !.seen = None, !.back = "scan"]
    <3>1. CarriedBy("acquire", j)
      BY <2>0, <2>2 DEF RecoverCas, Locals
    <3> QED
      BY <2>2, <3>1, GotoCarried, EndCarried DEF RecoverCas
  <2>3. CASE ScanPrepared(p)
    <3> DEFINE j == [job[p] EXCEPT
                       !.replay = {m \in Publication : prepared[m] # Absent}]
    <3>1. CarriedBy("replay", j)
      BY <2>0, <2>3 DEF ScanPrepared, Locals
    <3> QED
      BY <2>3, <3>1, GotoCarried DEF ScanPrepared
  <2>4. CASE ReplayClean(p)
    <3>1. PICK m \in job[p].replay :
            End(p) \/ Goto(p, "replay", [job[p] EXCEPT !.replay = @ \ {m}])
      BY <2>4 DEF ReplayClean
    <3>2. CarriedBy("replay", [job[p] EXCEPT !.replay = @ \ {m}])
      BY <2>0, <2>4 DEF ReplayClean, Locals
    <3> QED
      BY <3>1, <3>2, GotoCarried, EndCarried
  <2>5. CASE ReplayCommit(p)
    <3>1. PICK m \in job[p].replay :
            Goto(p, "upload", [job[p] EXCEPT !.work = m, !.parent = prepared[m],
                                             !.replay = @ \ {m}])
      BY <2>5 DEF ReplayCommit
    <3> DEFINE j == [job[p] EXCEPT !.work = m, !.parent = prepared[m],
                                   !.replay = @ \ {m}]
    <3>2. CarriedBy("upload", j)
      BY <2>0 DEF Locals
    <3> QED
      BY <3>1, <3>2, GotoCarried
  <2>6. CASE ReplayConflict(p) \/ RecoverDone(p)
    BY <2>6, EndCarried DEF ReplayConflict, RecoverDone
  <2> QED
    BY <1>6, <2>1, <2>2, <2>3, <2>4, <2>5, <2>6 DEF Recovery
<1>7. ASSUME NEW p \in Process, Collection(p) PROVE Carried'
  <2>1. CASE GcStart(p)
    <3> DEFINE j == [NoJob EXCEPT !.back = "mark"]
    <3>1. CarriedBy("acquire", j) /\ CarriedBy("assert", j)
      BY DEF NoJob
    <3> QED
      BY <2>1, <3>1, GotoCarried DEF GcStart, Own
  <2>2. CASE Mark(p)
    BY <2>2, GotoCarried, EndCarried DEF Mark
  <2>3. CASE SweepObject(p) \/ SweepManifest(p) \/ GcDone(p)
    BY <2>3, EndCarried DEF SweepObject, SweepManifest, GcDone, Carried
  <2> QED
    BY <1>7, <2>1, <2>2, <2>3 DEF Collection
<1> QED
  BY <1>1, <1>2, <1>3, <1>4, <1>5, <1>6, <1>7 DEF Next

-----------------------------------------------------------------------------
(* Retention records are only ever written, and the record of a publication *)
(* is there when its commit reaches the head.                               *)

SwingRetained ==
  \A p \in Process : pc[p] = "swing" => retained[job[p].work] # Absent

LEMMA RetainedChange ==
  ASSUME [Next]_vars, retained' # retained
  PROVE  \E p \in Process : RetirePrevious(p) \/ Retain(p)
<1> USE DEF documents
<1>1. PICK p \in Process : Start(p) \/ Crash(p) \/ Fault(p) \/ Ownership(p)
                             \/ Commit(p) \/ Recovery(p) \/ Collection(p)
  BY DEF Next, vars, Tick
<1>2. ~(Start(p) \/ Crash(p) \/ Fault(p))
  BY DEF Start, Crash, Fault, End
<1>3. ~Ownership(p)
  BY DEF Ownership, AcquireRead, AcquireCas, AcquireReread, AssertWriter, Close,
         End
<1>4. Commit(p) => RetirePrevious(p) \/ Retain(p)
  BY DEF Commit, PublishStart, EnsureStat, Create, CommitHead, CommitClosure,
         Prepare, EnsureManifest, CommitClosureOwned, CommitReadHead, SwingHead,
         Cleanup, CleanupFails, End
<1>5. ~Recovery(p)
  BY DEF Recovery, RecoverStart, RecoverCas, ScanPrepared, ReplayClean,
         ReplayCommit, ReplayConflict, RecoverDone, End
<1>6. ~Collection(p)
  BY DEF Collection, GcStart, Mark, SweepObject, SweepManifest, GcDone, End
<1> QED
  BY <1>1, <1>2, <1>3, <1>4, <1>5, <1>6

LEMMA RetainedStays ==
  ASSUME StoreTyped, [Next]_vars, NEW m \in Publication, retained[m] # Absent
  PROVE  retained'[m] # Absent
<1>1. CASE UNCHANGED retained
  BY <1>1
<1>2. ASSUME NEW p \in Process, RetirePrevious(p) \/ Retain(p)
      PROVE  retained'[m] # Absent
  <2>1. \A x \in Time \cup {Absent}, y \in Time :
          [committedAt |-> y, retiredAt |-> x] # Absent
    BY ConstantsAssumption DEF Retention
  <2>2. clock \in Time /\ retained[m] \in Retention
    BY DEF StoreTyped
  <2>3. retained[m].committedAt \in Time
    BY <2>2 DEF Retention
  <2> QED
    BY <1>2, <2>1, <2>2, <2>3 DEF RetirePrevious, Retain, StoreTyped
<1> QED
  BY <1>1, <1>2, RetainedChange

LEMMA GotoSwing ==
  ASSUME StoreTyped, ProcessTyped, Carried, SwingRetained, [Next]_vars,
         NEW p \in Process, NEW l, NEW j, Goto(p, l, j),
         l = "swing" => retained'[j.work] # Absent
  PROVE  SwingRetained'
<1> SUFFICES ASSUME NEW q \in Process, pc'[q] = "swing"
             PROVE  retained'[job'[q].work] # Absent
  BY DEF SwingRetained
<1>1. CASE q = p
  BY <1>1 DEF Goto, ProcessTyped
<1>2. CASE q # p
  <2>1. pc[q] = "swing" /\ job'[q] = job[q]
    BY <1>2 DEF Goto, ProcessTyped
  <2>2. job[q].work \in Publication
    BY <2>1 DEF Carried, CarriedBy, Committing
  <2> QED
    BY <2>1, <2>2, RetainedStays DEF SwingRetained
<1> QED
  BY <1>1, <1>2

LEMMA StandSwing ==
  ASSUME StoreTyped, Carried, SwingRetained, [Next]_vars, UNCHANGED <<pc, job>>
  PROVE  SwingRetained'
BY RetainedStays DEF SwingRetained, Carried, CarriedBy, Committing

LEMMA SwingRetainedStep ==
  StoreTyped /\ ProcessTyped /\ Carried /\ SwingRetained /\ [Next]_vars
    => SwingRetained'
<1> SUFFICES ASSUME StoreTyped, ProcessTyped, Carried, SwingRetained, [Next]_vars
             PROVE  SwingRetained'
  OBVIOUS
<1> USE GotoSwing, StandSwing
<1>1. CASE UNCHANGED vars
  BY <1>1 DEF vars
<1>2. CASE Tick
  BY <1>2 DEF Tick
<1>3. ASSUME NEW p \in Process, Start(p) \/ Crash(p) \/ Fault(p)
      PROVE  SwingRetained'
  BY <1>3 DEF Start, Crash, Fault, Proceed, End, Return
<1>4. ASSUME NEW p \in Process, Ownership(p) PROVE SwingRetained'
  <2>1. job[p].back # "swing"
    BY DEF ProcessTyped, Locals
  <2> QED
    BY <1>4, <2>1 DEF Ownership, AcquireRead, AcquireCas, AcquireReread,
                      AssertWriter, Close, Proceed, End, Return
<1>5. ASSUME NEW p \in Process, Retain(p) PROVE SwingRetained'
  <2>1. job[p].work \in Publication
    BY <1>5 DEF Retain, Carried, CarriedBy, Committing
  <2>2. [committedAt |-> clock, retiredAt |-> Absent] # Absent
    BY ConstantsAssumption DEF StoreTyped, Retention
  <2>3. retained'[job[p].work] # Absent
    BY <1>5, <2>1, <2>2 DEF Retain, StoreTyped
  <2> QED
    BY <1>5, <2>3 DEF Retain, Proceed
<1>6. ASSUME NEW p \in Process, Commit(p), ~Retain(p) PROVE SwingRetained'
  BY <1>6 DEF Commit, PublishStart, EnsureStat, Create, CommitHead,
              CommitClosure, Prepare, EnsureManifest, CommitClosureOwned,
              CommitReadHead, RetirePrevious, SwingHead, Cleanup, CleanupFails,
              Proceed, Own, CommitReturn, End, Return
<1>7. ASSUME NEW p \in Process, Recovery(p) PROVE SwingRetained'
  BY <1>7 DEF Recovery, RecoverStart, RecoverCas, ScanPrepared, ReplayClean,
              ReplayCommit, ReplayConflict, RecoverDone, Proceed, End, Return
<1>8. ASSUME NEW p \in Process, Collection(p) PROVE SwingRetained'
  BY <1>8 DEF Collection, GcStart, Mark, SweepObject, SweepManifest, GcDone, Own,
              End, Return
<1> QED
  BY <1>1, <1>2, <1>3, <1>4, <1>5, <1>6, <1>7, <1>8 DEF Next

LEMMA HeadChange ==
  ASSUME [Next]_vars, head' # head
  PROVE  \E p \in Process : SwingHead(p)
<1> USE DEF documents
<1>1. PICK p \in Process : Start(p) \/ Crash(p) \/ Fault(p) \/ Ownership(p)
                             \/ Commit(p) \/ Recovery(p) \/ Collection(p)
  BY DEF Next, vars, Tick
<1>2. ~(Start(p) \/ Crash(p) \/ Fault(p))
  BY DEF Start, Crash, Fault, End
<1>3. ~Ownership(p)
  BY DEF Ownership, AcquireRead, AcquireCas, AcquireReread, AssertWriter, Close,
         End
<1>4. Commit(p) => SwingHead(p)
  BY DEF Commit, PublishStart, EnsureStat, Create, CommitHead, CommitClosure,
         Prepare, EnsureManifest, CommitClosureOwned, CommitReadHead,
         RetirePrevious, Retain, Cleanup, CleanupFails, End
<1>5. ~Recovery(p)
  BY DEF Recovery, RecoverStart, RecoverCas, ScanPrepared, ReplayClean,
         ReplayCommit, ReplayConflict, RecoverDone, End
<1>6. ~Collection(p)
  BY DEF Collection, GcStart, Mark, SweepObject, SweepManifest, GcDone, End
<1> QED
  BY <1>1, <1>2, <1>3, <1>4, <1>5, <1>6

LEMMA RetentionStep ==
  /\ StoreTyped /\ ProcessTyped /\ Carried /\ SwingRetained
  /\ RetentionPrecedesVisibility /\ [Next]_vars
  => RetentionPrecedesVisibility'
<1> SUFFICES ASSUME StoreTyped, ProcessTyped, Carried, SwingRetained,
                    RetentionPrecedesVisibility, [Next]_vars, head'.id # None
             PROVE  retained'[head'.id] # Absent
  BY DEF RetentionPrecedesVisibility
<1>1. CASE UNCHANGED head
  BY <1>1, RetainedStays DEF RetentionPrecedesVisibility, StoreTyped, HeadRecord
<1>2. CASE head' # head
  <2>1. PICK p \in Process : SwingHead(p)
    BY <1>2, HeadChange
  <2>2. job[p].work \in Publication /\ pc[p] = "swing"
    BY <2>1 DEF SwingHead, Carried, CarriedBy, Committing
  <2>3. head'.id = job[p].work
    BY <1>2, <2>1 DEF SwingHead, End, documents
  <2> QED
    BY <2>2, <2>3, RetainedStays DEF SwingRetained
<1> QED
  BY <1>1, <1>2

-----------------------------------------------------------------------------
(* The invariant of types, locals and retention records.                    *)
Typing ==
  /\ StoreTyped /\ ProcessTyped /\ Carried
  /\ SwingRetained /\ RetentionPrecedesVisibility

LEMMA TypingInit == Init => Typing
<1> SUFFICES ASSUME Init PROVE Typing
  OBVIOUS
<1> USE ConstantsAssumption DEF Init
<1>1. StoreTyped
  BY DEF StoreTyped, Token, HeadRecord, Time
<1>2. ProcessTyped
  BY NoJobType DEF ProcessTyped, Labels
<1>3. Carried
  BY DEF Carried, CarriedBy, Committing, OwnLabels
<1>4. SwingRetained /\ RetentionPrecedesVisibility
  BY DEF SwingRetained, RetentionPrecedesVisibility
<1> QED
  BY <1>1, <1>2, <1>3, <1>4 DEF Typing

LEMMA TypingInvariant == Spec => []Typing
<1>1. Typing /\ [Next]_vars => Typing'
  BY StoreTypedStep, ProcessTypedStep, CarriedStep, SwingRetainedStep,
     RetentionStep DEF Typing
<1> QED
  BY TypingInit, <1>1, PTL DEF Spec

(* Every document and every local keeps its shape, and the locals of an     *)
(* operation end with it, whatever storage calls fail or processes crash.   *)
THEOREM TypeCorrect == Spec => []TypeOK
<1>1. Typing => TypeOK
  BY TypeParts DEF Typing
<1> QED
  BY <1>1, TypingInvariant, PTL

(* commit writes retained/<digest>.json before it swings the head, and no   *)
(* step removes the record of a publication.                                *)
THEOREM RetentionBeforeHead == Spec => []RetentionPrecedesVisibility
<1>1. Typing => RetentionPrecedesVisibility
  BY DEF Typing
<1> QED
  BY <1>1, TypingInvariant, PTL

-----------------------------------------------------------------------------
(* Ownership.  A token that a process keeps is the one in writer.json; the  *)
(* steps that write after an assertWriter are taken by a process that keeps *)
(* one; and a recovery runs alone.                                          *)

SeekingLabels == {"acquire", "acquireCas", "reread", "recoverCas", "down"}

OwnedLabels ==
  {"assert", "create", "prepare", "manifest", "closure2", "readHead", "retire",
   "retain", "swing", "cleanup", "mark", "sweep"}

Holding ==
  \A p \in Process :
    /\ owner[p] # None => writer = owner[p] /\ writer.owner = p
    /\ pc[p] = "reread" => writer.owner = p
    /\ pc[p] \in SeekingLabels => owner[p] = None
    /\ pc[p] \in OwnedLabels => owner[p] # None
    /\ job[p].recovering => \A q \in Process \ {p} : pc[q] = "down"

LEMMA GotoHolding ==
  ASSUME ProcessTyped, Holding, NEW p \in Process, NEW l, NEW j, Goto(p, l, j),
         UNCHANGED <<writer, owner>>, pc[p] # "down", l # "reread",
         l \in SeekingLabels => owner[p] = None,
         l \in OwnedLabels => owner[p] # None,
         j.recovering => \A q \in Process \ {p} : pc[q] = "down"
  PROVE  Holding'
BY DEF ProcessTyped, Holding, Goto

LEMMA EndHolding ==
  ASSUME ProcessTyped, Holding, NEW p \in Process, End(p), pc[p] # "down"
  PROVE  Holding'
<1>1. Goto(p, "idle", NoJob) /\ UNCHANGED <<writer, owner>>
  BY DEF End, Return, documents
<1>2. NoJob.recovering = FALSE
  BY DEF NoJob
<1> QED
  BY <1>1, <1>2, GotoHolding DEF SeekingLabels, OwnedLabels

LEMMA CommitReturnHolding ==
  ASSUME ProcessTyped, Holding, NEW p \in Process, CommitReturn(p),
         UNCHANGED <<writer, owner>>, pc[p] # "down"
  PROVE  Holding'
<1> USE GotoHolding DEF SeekingLabels, OwnedLabels
<1>1. NoJob.recovering = FALSE
  BY DEF NoJob
<1>2. CASE job[p].recovering
  <2>1. \A q \in Process \ {p} : pc[q] = "down"
    BY <1>2 DEF Holding
  <2> QED
    BY <1>2, <2>1 DEF CommitReturn
<1> QED
  BY <1>1, <1>2 DEF CommitReturn, Return

LEMMA KeepHolding ==
  ASSUME ProcessTyped, Holding, NEW p \in Process, NEW l, NEW j, Goto(p, l, j),
         UNCHANGED <<writer, owner>>, pc[p] # "down", l # "reread",
         l \in SeekingLabels => owner[p] = None,
         l \in OwnedLabels => owner[p] # None,
         j.recovering = job[p].recovering
  PROVE  Holding'
<1>1. j.recovering => \A q \in Process \ {p} : pc[q] = "down"
  BY DEF Holding
<1> QED
  BY <1>1, GotoHolding

LEMMA HoldingStep ==
  StoreTyped /\ ProcessTyped /\ Carried /\ Holding /\ [Next]_vars => Holding'
<1> SUFFICES ASSUME StoreTyped, ProcessTyped, Carried, Holding, [Next]_vars
             PROVE  Holding'
  OBVIOUS
<1> USE DEF SeekingLabels, OwnedLabels
<1>1. CASE UNCHANGED vars
  BY <1>1 DEF Holding, vars, documents
<1>2. CASE Tick
  BY <1>2 DEF Holding, Tick, documents
<1>3. ASSUME NEW p \in Process
      PROVE  /\ job[p] \in Locals /\ NoJob.recovering = FALSE
             /\ pc[p] \in SeekingLabels => owner[p] = None
             /\ pc[p] \in OwnedLabels => owner[p] # None
  BY DEF ProcessTyped, NoJob, Holding
<1>4. ASSUME NEW p \in Process, Start(p) PROVE Holding'
  <2>1. \A q \in Process : ~job[q].recovering
    BY <1>4 DEF Start, Recovering
  <2> QED
    BY <1>4, <2>1 DEF Start, Proceed, Goto, ProcessTyped, Holding, documents
<1>5. ASSUME NEW p \in Process, Crash(p) PROVE Holding'
  <2>1. /\ pc' = [pc EXCEPT ![p] = "down"]
        /\ job' = [job EXCEPT ![p] = NoJob]
        /\ owner' = [owner EXCEPT ![p] = None]
        /\ writer' = writer
    BY <1>5 DEF Crash, Goto, documents
  <2>2. pc'[p] = "down" /\ job'[p] = NoJob /\ owner'[p] = None
    BY <2>1 DEF ProcessTyped
  <2>3. \A q \in Process \ {p} :
          pc'[q] = pc[q] /\ job'[q] = job[q] /\ owner'[q] = owner[q]
    BY <2>1 DEF ProcessTyped
  <2>4. \A q \in Process : job'[q].recovering =>
          q # p /\ \A r \in Process \ {q} : pc'[r] = "down"
    <3>1. ~job'[p].recovering
      BY <1>3, <2>2
    <3>2. \A q \in Process \ {p} : job'[q].recovering =>
            \A r \in Process \ {q} : pc[r] = "down"
      BY <2>3 DEF Holding
    <3> QED
      BY <3>1, <3>2, <2>2, <2>3
  <2>5. \A q \in Process \ {p} :
          /\ owner'[q] # None => writer' = owner'[q] /\ writer'.owner = q
          /\ pc'[q] = "reread" => writer'.owner = q
          /\ pc'[q] \in SeekingLabels => owner'[q] = None
          /\ pc'[q] \in OwnedLabels => owner'[q] # None
    BY <2>1, <2>3 DEF Holding
  <2> QED
    BY <2>2, <2>4, <2>5 DEF Holding
<1>6. ASSUME NEW p \in Process, Fault(p) PROVE Holding'
  BY <1>6, EndHolding DEF Fault
<1>7. ASSUME NEW p \in Process, Ownership(p) PROVE Holding'
  <2>1. CASE AcquireRead(p)
    <3>1. [job[p] EXCEPT !.seen = writer].recovering = job[p].recovering
      BY <1>3 DEF Locals
    <3>2. \/ End(p)
          \/ /\ Goto(p, "acquireCas", [job[p] EXCEPT !.seen = writer])
             /\ UNCHANGED <<writer, owner>>
      BY <2>1 DEF AcquireRead, documents
    <3>3. pc[p] = "acquire"
      BY <2>1 DEF AcquireRead
    <3> QED
      BY <1>3, <3>1, <3>2, <3>3, KeepHolding, EndHolding
  <2>2. CASE AcquireCas(p)
    <3>1. CASE End(p)
      BY <2>2, <3>1, EndHolding DEF AcquireCas
    <3>2. CASE ~End(p)
      <4>1. writer.owner = None /\ None \notin Process
        BY <2>2, <3>2, ConstantsAssumption DEF AcquireCas, Carried, CarriedBy
      <4>2. \A q \in Process : owner[q] = None /\ pc[q] # "reread"
        BY <4>1 DEF Holding
      <4>3. writer'.owner = p /\ UNCHANGED <<owner, job>>
            /\ pc' = [pc EXCEPT ![p] = "reread"]
        BY <2>2, <3>2 DEF AcquireCas, Proceed, Goto, ProcessTyped
      <4> QED
        BY <2>2, <4>2, <4>3 DEF AcquireCas, Holding, ProcessTyped
    <3> QED
      BY <3>1, <3>2
  <2>3. CASE AcquireReread(p)
    <3>1. [job[p] EXCEPT !.seen = None].recovering = job[p].recovering
      BY <1>3 DEF Locals
    <3>2. writer.owner = p /\ writer # None
      BY <2>3, ConstantsAssumption DEF AcquireReread, Holding, StoreTyped
    <3>3. writer' = writer /\ owner' = [owner EXCEPT ![p] = writer]
      BY <2>3 DEF AcquireReread, documents
    <3>4. PICK l \in {"create", "assert"} :
            /\ pc' = [pc EXCEPT ![p] = l]
            /\ job' = [job EXCEPT ![p] = [job[p] EXCEPT !.seen = None]]
      BY <2>3 DEF AcquireReread, Goto
    <3> QED
      BY <2>3, <3>1, <3>2, <3>3, <3>4 DEF AcquireReread, Holding, ProcessTyped
  <2>4. CASE AssertWriter(p)
    <3>1. [job[p] EXCEPT !.back = "idle"].recovering = job[p].recovering
      BY <1>3 DEF Locals
    <3>2. job[p].back \notin SeekingLabels
      BY <1>3 DEF Locals
    <3>3. owner[p] # None
      BY <2>4 DEF AssertWriter, Holding
    <3>4. \/ End(p)
          \/ /\ Goto(p, job[p].back, [job[p] EXCEPT !.back = "idle"])
             /\ UNCHANGED <<writer, owner>>
      BY <2>4 DEF AssertWriter, documents
    <3>5. pc[p] = "assert"
      BY <2>4 DEF AssertWriter
    <3> QED
      BY <3>1, <3>2, <3>3, <3>4, <3>5, KeepHolding, EndHolding
  <2>5. CASE Close(p)
    <3>1. \A q \in Process \ {p} : owner[q] = None /\ pc[q] # "reread"
      BY <2>5 DEF Close, Holding
    <3> QED
      BY <2>5, <3>1 DEF Close, Holding, ProcessTyped
  <2> QED
    BY <1>7, <2>1, <2>2, <2>3, <2>4, <2>5 DEF Ownership
<1>8. ASSUME NEW p \in Process, Commit(p) PROVE Holding'
  <2>0. UNCHANGED <<writer, owner>> /\ pc[p] # "down"
    BY <1>8 DEF Commit, PublishStart, EnsureStat, Create, CommitHead,
                CommitClosure, Prepare, EnsureManifest, CommitClosureOwned,
                CommitReadHead, RetirePrevious, Retain, SwingHead, Cleanup,
                CleanupFails, End, documents
  <2>1. CASE PublishStart(p)
    <3>1. PICK m \in Publication :
            Goto(p, "upload", [NoJob EXCEPT !.work = m, !.parent = head.id,
                                            !.todo = Closure[m]])
      BY <2>1 DEF PublishStart
    <3>2. [NoJob EXCEPT !.work = m, !.parent = head.id,
                        !.todo = Closure[m]].recovering = FALSE
      BY DEF NoJob
    <3>3. \E j : Goto(p, "upload", j) /\ ~j.recovering
      BY <3>1, <3>2
    <3> QED
      BY <2>0, <3>3, GotoHolding
  <2>2. CASE EnsureStat(p)
    <3>1. PICK o \in job[p].todo :
            \/ Goto(p, "upload", [job[p] EXCEPT !.todo = @ \ {o}])
            \/ Goto(p, IF o \notin Page /\ owner[p] # None
                       THEN "create" ELSE Own(p),
                    [job[p] EXCEPT !.at = o, !.back = "create"])
      BY <2>2 DEF EnsureStat
    <3>2. /\ [job[p] EXCEPT !.todo = @ \ {o}].recovering = job[p].recovering
          /\ [job[p] EXCEPT !.at = o, !.back = "create"].recovering
               = job[p].recovering
      BY <1>3 DEF Locals
    <3>3. PICK l \in {"upload", "create", "acquire", "assert"} :
            /\ l = "acquire" => owner[p] = None
            /\ l \in {"create", "assert"} => owner[p] # None
            /\ \E j : Goto(p, l, j) /\ j.recovering = job[p].recovering
      BY <3>1, <3>2 DEF Own
    <3> QED
      BY <2>0, <3>3, KeepHolding
  <2>3. CASE Create(p)
    <3>1. [job[p] EXCEPT !.at = None, !.back = "idle",
                         !.todo = @ \ {job[p].at}].recovering = job[p].recovering
      BY <1>3 DEF Locals
    <3>2. \E j : Goto(p, "upload", j) /\ j.recovering = job[p].recovering
      BY <2>3, <3>1 DEF Create
    <3> QED
      BY <2>0, <3>2, KeepHolding
  <2>4. CASE CommitHead(p) \/ SwingHead(p)
    BY <1>3, <2>0, <2>4, KeepHolding, EndHolding
       DEF CommitHead, SwingHead, Proceed
  <2>5. CASE Prepare(p) \/ EnsureManifest(p) \/ RetirePrevious(p) \/ Retain(p)
    BY <1>3, <2>0, <2>5, KeepHolding
       DEF Prepare, EnsureManifest, RetirePrevious, Retain, Proceed
  <2>6. CASE CommitClosure(p)
    <3> DEFINE j == [job[p] EXCEPT !.back = "prepare"]
    <3>1. j.recovering = job[p].recovering
      BY <1>3 DEF Locals
    <3>2. Goto(p, "idle", NoJob) \/ CommitReturn(p) \/ Goto(p, Own(p), j)
      BY <2>6 DEF CommitClosure, Return
    <3> QED
      BY <1>3, <2>0, <3>1, <3>2, CommitReturnHolding, GotoHolding, KeepHolding
         DEF Own
  <2>7. CASE CommitClosureOwned(p)
    <3>1. [job[p] EXCEPT !.back = "readHead"].recovering = job[p].recovering
      BY <1>3 DEF Locals
    <3> QED
      BY <1>3, <2>0, <2>7, <3>1, GotoHolding, KeepHolding
         DEF CommitClosureOwned, Return
  <2>8. CASE CommitReadHead(p)
    <3>1. [job[p] EXCEPT !.latest = head].recovering = job[p].recovering
      BY <1>3 DEF Locals
    <3>2. \/ End(p)
          \/ Goto(p, IF head.id = None THEN "retain" ELSE "retire",
                  [job[p] EXCEPT !.latest = head])
      BY <2>8 DEF CommitReadHead
    <3>3. owner[p] # None
      BY <1>3, <2>8 DEF CommitReadHead
    <3> QED
      BY <2>0, <3>1, <3>2, <3>3, KeepHolding, EndHolding
  <2>9. CASE Cleanup(p) \/ CleanupFails(p)
    BY <2>9, CommitReturnHolding DEF Cleanup, CleanupFails, documents
  <2> QED
    BY <1>8, <2>1, <2>2, <2>3, <2>4, <2>5, <2>6, <2>7, <2>8, <2>9 DEF Commit
<1>9. ASSUME NEW p \in Process, Recovery(p) PROVE Holding'
  <2>1. CASE RecoverStart(p)
    BY <2>1, GotoHolding DEF RecoverStart, WritersQuiesced, documents
  <2>2. CASE RecoverCas(p)
    <3>1. CASE End(p)
      BY <2>2, <3>1, EndHolding DEF RecoverCas
    <3>2. CASE ~End(p)
      <4>1. \A q \in Process \ {p} : pc[q] = "down"
        BY <2>2 DEF RecoverCas, Carried, CarriedBy, Holding
      <4>2. \A q \in Process : owner[q] = None
        BY <2>2, <4>1 DEF RecoverCas, Holding
      <4>3. /\ pc' = [pc EXCEPT ![p] = "acquire"]
            /\ job' = [job EXCEPT ![p] =
                         [job[p] EXCEPT !.seen = None, !.back = "scan"]]
            /\ owner' = owner
        BY <2>2, <3>2 DEF RecoverCas, Goto
      <4>4. \A q \in Process \ {p} : job[q] = NoJob
        BY <4>1 DEF ProcessTyped
      <4> QED
        BY <1>3, <4>1, <4>2, <4>3, <4>4 DEF Holding, ProcessTyped
    <3> QED
      BY <3>1, <3>2
  <2>3. CASE ScanPrepared(p)
    <3>1. [job[p] EXCEPT !.replay = {m \in Publication : prepared[m] # Absent}]
            .recovering = job[p].recovering
      BY <1>3 DEF Locals
    <3> QED
      BY <2>3, <3>1, KeepHolding DEF ScanPrepared, documents
  <2>4. CASE ReplayClean(p)
    <3>1. PICK m \in job[p].replay :
            \/ End(p)
            \/ /\ Goto(p, "replay", [job[p] EXCEPT !.replay = @ \ {m}])
               /\ UNCHANGED <<writer, owner>>
      BY <2>4 DEF ReplayClean
    <3>2. [job[p] EXCEPT !.replay = @ \ {m}].recovering = job[p].recovering
      BY <1>3 DEF Locals
    <3> QED
      BY <2>4, <3>1, <3>2, KeepHolding, EndHolding DEF ReplayClean
  <2>5. CASE ReplayCommit(p)
    <3>1. PICK m \in job[p].replay :
            Goto(p, "upload", [job[p] EXCEPT !.work = m, !.parent = prepared[m],
                                             !.replay = @ \ {m}])
      BY <2>5 DEF ReplayCommit
    <3>2. [job[p] EXCEPT !.work = m, !.parent = prepared[m],
                         !.replay = @ \ {m}].recovering = job[p].recovering
      BY <1>3 DEF Locals
    <3>3. \E j : Goto(p, "upload", j) /\ j.recovering = job[p].recovering
      BY <3>1, <3>2
    <3> QED
      BY <2>5, <3>3, KeepHolding DEF ReplayCommit, documents
  <2>6. CASE ReplayConflict(p) \/ RecoverDone(p)
    BY <2>6, EndHolding DEF ReplayConflict, RecoverDone
  <2> QED
    BY <1>9, <2>1, <2>2, <2>3, <2>4, <2>5, <2>6 DEF Recovery
<1>10. ASSUME NEW p \in Process, Collection(p) PROVE Holding'
  <2>1. CASE GcStart(p)
    <3>1. [NoJob EXCEPT !.back = "mark"].recovering = FALSE
      BY DEF NoJob
    <3> QED
      BY <2>1, <3>1, GotoHolding DEF GcStart, Own, documents
  <2>2. CASE Mark(p)
    <3> DEFINE j == [job[p] EXCEPT !.latest = head, !.marks =
                       Roots \cup UNION {Closure[m] : m \in Roots}]
    <3>1. j.recovering = job[p].recovering
      BY <1>3 DEF Locals
    <3>2. End(p) \/ (Goto(p, "sweep", j) /\ UNCHANGED <<writer, owner>>)
      BY <2>2 DEF Mark, documents
    <3>3. pc[p] = "mark"
      BY <2>2 DEF Mark
    <3> HIDE DEF j
    <3> QED
      BY <1>3, <3>1, <3>2, <3>3, KeepHolding, EndHolding
  <2>3. CASE SweepObject(p) \/ SweepManifest(p) \/ GcDone(p)
    BY <2>3, EndHolding DEF SweepObject, SweepManifest, GcDone, Holding
  <2> QED
    BY <1>10, <2>1, <2>2, <2>3 DEF Collection
<1> QED
  BY <1>1, <1>2, <1>4, <1>5, <1>6, <1>7, <1>8, <1>9, <1>10 DEF Next

(* assertWriter never has to save a live writer: no crash, recovery or lost *)
(* acquire race leaves a PublicationStore.owner behind writer.json.         *)
THEOREM OwnershipCorrect == Spec => []OwnerNeverStale
<1>1. Init => Holding
  BY DEF Init, Holding, SeekingLabels, OwnedLabels, NoJob
<1>2. Typing /\ Holding /\ [Next]_vars => Holding'
  BY HoldingStep DEF Typing
<1>3. Holding => OwnerNeverStale
  BY DEF Holding, OwnerNeverStale
<1> QED
  BY <1>1, <1>2, <1>3, TypingInvariant, PTL DEF Spec

-----------------------------------------------------------------------------
(* Completeness of the head.  Between the second closure check and the head *)
(* write the committing process is the only one that owns the store, so     *)
(* what it verified cannot be collected; between the mark and the end of a  *)
(* sweep the collector is, so the head it marked is still the head.         *)

Verified(p) ==
  \/ pc[p] \in {"readHead", "retire", "retain", "swing"}
  \/ pc[p] = "assert" /\ job[p].back = "readHead"

SafeAt(p) ==
  /\ pc[p] = "closure2" => manifests[job[p].work] # Absent
  /\ Verified(p) => Complete(job[p].work)
  /\ pc[p] \in {"retire", "retain", "swing"} => job[p].latest.id = job[p].parent
  /\ pc[p] = "cleanup" => head.id = job[p].work
  /\ pc[p] = "sweep" /\ head.id # None =>
       {head.id} \cup Closure[head.id] \subseteq job[p].marks

Safe == HeadComplete /\ \A p \in Process : SafeAt(p)

Context == Typing /\ Holding

LEMMA Sole ==
  ASSUME Holding, NEW p \in Process, NEW q \in Process,
         owner[p] # None, owner[q] # None
  PROVE  p = q
BY DEF Holding

LEMMA ObjectGone ==
  ASSUME StoreTyped, [Next]_vars, NEW o \in Object,
         objects[o] # Absent, objects'[o] = Absent
  PROVE  \E p \in Process : pc[p] = "sweep" /\ o \notin job[p].marks
<1> USE DEF documents
<1>1. PICK p \in Process : Start(p) \/ Crash(p) \/ Fault(p) \/ Ownership(p)
                             \/ Commit(p) \/ Recovery(p) \/ Collection(p)
  BY DEF Next, vars, Tick
<1>2. ~(Start(p) \/ Crash(p) \/ Fault(p))
  BY DEF Start, Crash, Fault, End
<1>3. ~Ownership(p)
  BY DEF Ownership, AcquireRead, AcquireCas, AcquireReread, AssertWriter, Close,
         End
<1>4. ~Create(p)
  BY DEF Create, StoreTyped
<1>5. ~Commit(p)
  BY <1>4 DEF Commit, PublishStart, EnsureStat, CommitHead, CommitClosure,
              Prepare, EnsureManifest, CommitClosureOwned, CommitReadHead,
              RetirePrevious, Retain, SwingHead, Cleanup, CleanupFails, End
<1>6. ~Recovery(p)
  BY DEF Recovery, RecoverStart, RecoverCas, ScanPrepared, ReplayClean,
         ReplayCommit, ReplayConflict, RecoverDone, End
<1>7. Collection(p) => SweepObject(p)
  BY DEF Collection, GcStart, Mark, SweepManifest, GcDone, End
<1>8. SweepObject(p) => pc[p] = "sweep" /\ o \notin job[p].marks
  BY DEF SweepObject, Sweepable, End, StoreTyped
<1> QED
  BY <1>1, <1>2, <1>3, <1>5, <1>6, <1>7, <1>8

LEMMA ManifestGone ==
  ASSUME StoreTyped, [Next]_vars, NEW m \in Publication,
         manifests[m] # Absent, manifests'[m] = Absent
  PROVE  \E p \in Process : pc[p] = "sweep" /\ m \notin job[p].marks
<1> USE DEF documents
<1>1. PICK p \in Process : Start(p) \/ Crash(p) \/ Fault(p) \/ Ownership(p)
                             \/ Commit(p) \/ Recovery(p) \/ Collection(p)
  BY DEF Next, vars, Tick
<1>2. ~(Start(p) \/ Crash(p) \/ Fault(p))
  BY DEF Start, Crash, Fault, End
<1>3. ~Ownership(p)
  BY DEF Ownership, AcquireRead, AcquireCas, AcquireReread, AssertWriter, Close,
         End
<1>4. ~EnsureManifest(p)
  BY DEF EnsureManifest, StoreTyped
<1>5. ~Commit(p)
  BY <1>4 DEF Commit, PublishStart, EnsureStat, CommitHead, CommitClosure,
              Prepare, Create, CommitClosureOwned, CommitReadHead,
              RetirePrevious, Retain, SwingHead, Cleanup, CleanupFails, End
<1>6. ~Recovery(p)
  BY DEF Recovery, RecoverStart, RecoverCas, ScanPrepared, ReplayClean,
         ReplayCommit, ReplayConflict, RecoverDone, End
<1>7. Collection(p) => SweepManifest(p)
  BY DEF Collection, GcStart, Mark, SweepObject, GcDone, End
<1>8. SweepManifest(p) => pc[p] = "sweep" /\ m \notin job[p].marks
  BY DEF SweepManifest, Sweepable, End, StoreTyped
<1> QED
  BY <1>1, <1>2, <1>3, <1>5, <1>6, <1>7, <1>8

(* A publication every collector has marked stays complete.                 *)
LEMMA CompleteStays ==
  ASSUME Context, [Next]_vars, NEW m \in Publication, Complete(m),
         \A p \in Process : pc[p] = "sweep" =>
           {m} \cup Closure[m] \subseteq job[p].marks
  PROVE  Complete(m)'
<1>1. manifests'[m] # Absent
  BY ManifestGone DEF Context, Typing, Complete
<1>2. \A o \in Closure[m] : objects'[o] # Absent
  BY ObjectGone, ConstantsAssumption DEF Context, Typing, Complete, ClosurePresent
<1> QED
  BY <1>1, <1>2 DEF Complete, ClosurePresent

LEMMA HeadCompleteStep ==
  ASSUME Context, Safe, [Next]_vars
  PROVE  HeadComplete'
<1>1. CASE head' = head
  <2> SUFFICES ASSUME head.id # None PROVE Complete(head.id)'
    BY <1>1 DEF HeadComplete
  <2>1. head.id \in Publication
    BY DEF Context, Typing, StoreTyped, HeadRecord
  <2>2. Complete(head.id)
    BY DEF Safe, HeadComplete
  <2>3. \A p \in Process : pc[p] = "sweep" =>
          {head.id} \cup Closure[head.id] \subseteq job[p].marks
    BY DEF Safe, SafeAt
  <2>4. ASSUME NEW m \in Publication, m = head.id PROVE Complete(m)'
    BY <2>2, <2>3, <2>4, CompleteStays
  <2> QED
    BY <1>1, <2>1, <2>4 DEF Complete, ClosurePresent
<1>2. CASE head' # head
  <2>1. PICK p \in Process : SwingHead(p)
    BY <1>2, HeadChange
  <2>2. Complete(job[p].work)
    BY <2>1 DEF SwingHead, Safe, SafeAt, Verified
  <2>3. head'.id = job[p].work /\ UNCHANGED <<manifests, objects>>
    BY <1>2, <2>1 DEF SwingHead, End, documents
  <2> QED
    BY <2>2, <2>3 DEF HeadComplete, Complete, ClosurePresent
<1> QED
  BY <1>1, <1>2

(* What is safe at a process that does not move stays safe.                 *)
LEMMA StandSafe ==
  ASSUME Context, Safe, [Next]_vars, NEW q \in Process,
         pc'[q] = pc[q], job'[q] = job[q]
  PROVE  SafeAt(q)'
<1>1. CASE pc[q] \notin OwnedLabels
  BY <1>1 DEF SafeAt, Verified, OwnedLabels
<1>2. CASE pc[q] \in OwnedLabels
  <2>1. \A p \in Process \ {q} : pc[p] \notin OwnedLabels
    BY <1>2, Sole DEF Context, Holding
  <2>2. CASE pc[q] = "sweep"
    <3>1. head' = head
      BY <2>1, <2>2, HeadChange DEF SwingHead, OwnedLabels
    <3> QED
      BY <2>2, <3>1 DEF Safe, SafeAt, Verified
  <2>3. CASE pc[q] = "cleanup"
    <3>1. head' = head
      BY <2>1, <2>3, HeadChange DEF SwingHead, OwnedLabels
    <3> QED
      BY <2>3, <3>1 DEF Safe, SafeAt, Verified
  <2>4. CASE pc[q] \notin {"sweep", "cleanup"}
    <3>1. \A p \in Process : pc[p] # "sweep"
      BY <2>1, <2>4 DEF OwnedLabels
    <3>2. pc[q] = "closure2" => manifests'[job[q].work] # Absent
      BY <3>1, ManifestGone
         DEF Context, Typing, Carried, CarriedBy, Committing, Safe, SafeAt
    <3>3. ASSUME Verified(q), NEW m \in Publication, m = job[q].work
          PROVE  Complete(m)'
      BY <3>1, <3>3, CompleteStays DEF Safe, SafeAt
    <3>4. Verified(q) => job[q].work \in Publication
      BY DEF Verified, Context, Typing, Carried, CarriedBy, Committing, OwnLabels
    <3>5. SafeAt(q)
      BY DEF Safe
    <3>6. Verified(q)' <=> Verified(q)
      BY DEF Verified
    <3>7. Verified(q) => Complete(job[q].work)'
      BY <3>3, <3>4 DEF Complete, ClosurePresent
    <3> QED
      BY <2>4, <3>2, <3>5, <3>6, <3>7 DEF SafeAt
  <2> QED
    BY <2>2, <2>3, <2>4
<1> QED
  BY <1>1, <1>2

LEMMA GotoSafe ==
  ASSUME Context, Safe, [Next]_vars, NEW p \in Process, NEW l, NEW j,
         Goto(p, l, j), SafeAt(p)'
  PROVE  Safe'
<1>1. ASSUME NEW q \in Process, q # p PROVE SafeAt(q)'
  <2>1. pc'[q] = pc[q] /\ job'[q] = job[q]
    BY <1>1 DEF Goto, Context, Typing, ProcessTyped
  <2> QED
    BY <2>1, StandSafe
<1> QED
  BY <1>1, HeadCompleteStep DEF Safe

(* Labels at which nothing has been verified or marked yet.                 *)
PlainLabels ==
  Labels \ {"closure2", "readHead", "retire", "retain", "swing", "cleanup",
            "sweep"}

LEMMA PlainSafe ==
  ASSUME Context, Safe, [Next]_vars, NEW p \in Process, NEW l \in PlainLabels,
         NEW j, Goto(p, l, j), l = "assert" => j.back # "readHead"
  PROVE  Safe'
<1>1. pc'[p] = l /\ job'[p] = j
  BY DEF Goto, Context, Typing, ProcessTyped
<1>2. SafeAt(p)'
  BY <1>1 DEF SafeAt, Verified, PlainLabels
<1> QED
  BY <1>2, GotoSafe

LEMMA EndSafe ==
  ASSUME Context, Safe, [Next]_vars, NEW p \in Process, End(p)
  PROVE  Safe'
BY PlainSafe DEF End, Return, PlainLabels, Labels

LEMMA CommitReturnSafe ==
  ASSUME Context, Safe, [Next]_vars, NEW p \in Process, CommitReturn(p)
  PROVE  Safe'
BY PlainSafe DEF CommitReturn, Return, PlainLabels, Labels

LEMMA SafeStep == Context /\ Safe /\ [Next]_vars => Safe'
<1> SUFFICES ASSUME Context, Safe, [Next]_vars PROVE Safe'
  OBVIOUS
<1>1. CASE UNCHANGED <<pc, job>>
  BY <1>1, StandSafe, HeadCompleteStep DEF Safe
<1>2. CASE Tick
  BY <1>1, <1>2 DEF Tick
<1>3. ASSUME NEW p \in Process, Start(p) \/ Crash(p) \/ Fault(p) PROVE Safe'
  BY <1>3, PlainSafe, EndSafe
     DEF Start, Crash, Fault, Proceed, PlainLabels, Labels
<1>4. ASSUME NEW p \in Process
      PROVE  /\ job[p] \in Locals /\ SafeAt(p) /\ CarriedBy(pc[p], job[p])
             /\ pc \in [Process -> Labels] /\ job \in [Process -> Locals]
  BY DEF Context, Typing, ProcessTyped, Safe, Carried
<1>5. ASSUME NEW p \in Process, Ownership(p) PROVE Safe'
  <2>1. CASE AcquireRead(p)
    BY <2>1, PlainSafe, EndSafe DEF AcquireRead, PlainLabels, Labels
  <2>2. CASE AcquireCas(p)
    BY <2>2, PlainSafe, EndSafe DEF AcquireCas, Proceed, PlainLabels, Labels
  <2>3. CASE AcquireReread(p)
    <3>1. [job[p] EXCEPT !.seen = None].back # "readHead"
      BY <1>4, <2>3 DEF AcquireReread, Locals, CarriedBy, OwnLabels
    <3>2. \E l \in {"create", "assert"} : \E j :
            j.back # "readHead" /\ Goto(p, l, j)
      BY <2>3, <3>1 DEF AcquireReread
    <3> QED
      BY <3>2, PlainSafe DEF PlainLabels, Labels
  <2>4. CASE AssertWriter(p)
    <3> DEFINE j == [job[p] EXCEPT !.back = "idle"]
    <3>1. CASE End(p)
      BY <3>1, EndSafe
    <3>2. CASE ~End(p)
      <4>1. Goto(p, job[p].back, j) /\ UNCHANGED documents /\ pc[p] = "assert"
        BY <2>4, <3>2 DEF AssertWriter
      <4>2. j.work = job[p].work
        BY <1>4 DEF Locals
      <4>3. CASE job[p].back = "readHead"
        <5>1. Complete(job[p].work)
          BY <1>4, <4>1, <4>3 DEF SafeAt, Verified
        <5>2. pc'[p] = "readHead" /\ job'[p].work = job[p].work
          BY <1>4, <4>1, <4>2, <4>3 DEF Goto
        <5>3. SafeAt(p)'
          BY <4>1, <5>1, <5>2
             DEF SafeAt, Verified, Complete, ClosurePresent, documents
        <5> QED
          BY <4>1, <5>3, GotoSafe
      <4>4. CASE job[p].back # "readHead"
        <5>1. job[p].back \in PlainLabels \ {"assert"}
          BY <1>4, <4>1, <4>4
             DEF Locals, PlainLabels, Labels, CarriedBy, OwnLabels
        <5> QED
          BY <4>1, <5>1, PlainSafe
      <4> QED
        BY <4>3, <4>4
    <3> QED
      BY <3>1, <3>2
  <2>5. CASE Close(p)
    BY <1>1, <2>5 DEF Close
  <2> QED
    BY <1>5, <2>1, <2>2, <2>3, <2>4, <2>5 DEF Ownership
<1>6. ASSUME NEW p \in Process, Commit(p) PROVE Safe'
  <2>1. CASE PublishStart(p) \/ CommitHead(p) \/ Prepare(p)
    BY <2>1, PlainSafe, EndSafe
       DEF PublishStart, CommitHead, Prepare, Proceed, PlainLabels, Labels
  <2>2. CASE EnsureStat(p)
    <3>1. PICK o \in job[p].todo :
            \/ Goto(p, "upload", [job[p] EXCEPT !.todo = @ \ {o}])
            \/ Goto(p, IF o \notin Page /\ owner[p] # None
                       THEN "create" ELSE Own(p),
                    [job[p] EXCEPT !.at = o, !.back = "create"])
      BY <2>2 DEF EnsureStat
    <3>2. [job[p] EXCEPT !.at = o, !.back = "create"].back = "create"
      BY <1>4 DEF Locals
    <3> QED
      BY <3>1, <3>2, PlainSafe DEF Own, PlainLabels, Labels
  <2>3. CASE Create(p)
    BY <2>3, PlainSafe DEF Create, PlainLabels, Labels
  <2>4. CASE CommitClosure(p)
    <3>1. [job[p] EXCEPT !.back = "prepare"].back = "prepare"
      BY <1>4 DEF Locals
    <3>2. \/ Goto(p, "idle", NoJob) \/ CommitReturn(p)
          \/ Goto(p, Own(p), [job[p] EXCEPT !.back = "prepare"])
      BY <2>4 DEF CommitClosure, Return
    <3> QED
      BY <3>1, <3>2, CommitReturnSafe, PlainSafe DEF Own, PlainLabels, Labels
  <2>5. CASE EnsureManifest(p)
    <3>1. pc'[p] = "closure2" /\ job'[p] = job[p]
      BY <1>4, <2>5 DEF EnsureManifest, Proceed, Goto
    <3>2. job[p].work \in Publication
      BY <1>4, <2>5 DEF EnsureManifest, CarriedBy, Committing
    <3>3. clock # Absent
      BY ConstantsAssumption DEF Context, Typing, StoreTyped, Time
    <3>4. manifests'[job[p].work] # Absent
      BY <2>5, <3>2, <3>3 DEF EnsureManifest, Context, Typing, StoreTyped
    <3>5. SafeAt(p)'
      BY <3>1, <3>4 DEF SafeAt, Verified
    <3> QED
      BY <2>5, <3>5, GotoSafe DEF EnsureManifest, Proceed
  <2>6. CASE CommitClosureOwned(p)
    <3> DEFINE j == [job[p] EXCEPT !.back = "readHead"]
    <3>1. CASE ClosurePresent(job[p].work)
      <4>1. Goto(p, "assert", j) /\ UNCHANGED documents /\ pc[p] = "closure2"
        BY <2>6, <3>1 DEF CommitClosureOwned
      <4>2. Complete(job[p].work)
        BY <1>4, <3>1, <4>1 DEF SafeAt, Complete
      <4>3. j.work = job[p].work
        BY <1>4 DEF Locals
      <4>4. pc'[p] = "assert" /\ job'[p].work = job[p].work
        BY <1>4, <4>1, <4>3 DEF Goto
      <4>5. SafeAt(p)'
        BY <4>1, <4>2, <4>4
           DEF SafeAt, Verified, Complete, ClosurePresent, documents
      <4> QED
        BY <4>1, <4>5, GotoSafe
    <3>2. CASE ~ClosurePresent(job[p].work)
      BY <2>6, <3>2, PlainSafe DEF CommitClosureOwned, Return, PlainLabels, Labels
    <3> QED
      BY <3>1, <3>2
  <2>7. CASE CommitReadHead(p)
    <3> DEFINE j == [job[p] EXCEPT !.latest = head]
    <3>1. CASE head.id = job[p].parent
      <4>1. PICK l \in {"retain", "retire"} :
              Goto(p, l, j) /\ UNCHANGED documents /\ pc[p] = "readHead"
        BY <2>7, <3>1 DEF CommitReadHead
      <4>2. j.work = job[p].work /\ j.parent = job[p].parent /\ j.latest = head
        BY <1>4 DEF Locals
      <4>3. Complete(job[p].work)
        BY <1>4, <4>1 DEF SafeAt, Verified
      <4>4. pc'[p] = l /\ job'[p] = j
        BY <1>4, <4>1 DEF Goto
      <4> HIDE DEF j
      <4>5. SafeAt(p)'
        BY <3>1, <4>1, <4>2, <4>3, <4>4
           DEF SafeAt, Verified, Complete, ClosurePresent, documents
      <4> QED
        BY <4>1, <4>5, GotoSafe
    <3>2. CASE head.id # job[p].parent
      BY <2>7, <3>2, EndSafe DEF CommitReadHead
    <3> QED
      BY <3>1, <3>2
  <2>8. CASE RetirePrevious(p) \/ Retain(p)
    <3>1. PICK l \in {"retain", "swing"} :
            Goto(p, l, job[p]) /\ UNCHANGED <<manifests, objects>>
            /\ pc[p] \in {"retire", "retain"}
      BY <2>8 DEF RetirePrevious, Retain, Proceed
    <3>2. pc'[p] = l /\ job'[p] = job[p]
      BY <1>4, <3>1 DEF Goto
    <3>3. SafeAt(p)'
      BY <1>4, <3>1, <3>2 DEF SafeAt, Verified, Complete, ClosurePresent
    <3> QED
      BY <3>1, <3>3, GotoSafe
  <2>9. CASE SwingHead(p)
    <3>1. CASE End(p)
      BY <3>1, EndSafe
    <3>2. CASE ~End(p)
      <4>1. head'.id = job[p].work /\ Goto(p, "cleanup", job[p])
        BY <2>9, <3>2 DEF SwingHead, Proceed
      <4>2. pc'[p] = "cleanup" /\ job'[p] = job[p]
        BY <1>4, <4>1 DEF Goto
      <4>3. SafeAt(p)'
        BY <4>1, <4>2 DEF SafeAt, Verified
      <4> QED
        BY <4>1, <4>3, GotoSafe
    <3> QED
      BY <3>1, <3>2
  <2>10. CASE Cleanup(p) \/ CleanupFails(p)
    BY <2>10, CommitReturnSafe DEF Cleanup, CleanupFails
  <2> QED
    BY <1>6, <2>1, <2>2, <2>3, <2>4, <2>5, <2>6, <2>7, <2>8, <2>9, <2>10
       DEF Commit
<1>7. ASSUME NEW p \in Process, Recovery(p) PROVE Safe'
  BY <1>7, PlainSafe, EndSafe
     DEF Recovery, RecoverStart, RecoverCas, ScanPrepared, ReplayClean,
         ReplayCommit, ReplayConflict, RecoverDone, PlainLabels, Labels
<1>8. ASSUME NEW p \in Process, Collection(p) PROVE Safe'
  <2>1. CASE GcStart(p)
    <3>1. [NoJob EXCEPT !.back = "mark"].back = "mark"
      BY DEF NoJob
    <3> QED
      BY <2>1, <3>1, PlainSafe DEF GcStart, Own, PlainLabels, Labels
  <2>2. CASE Mark(p)
    <3> DEFINE marks == Roots \cup UNION {Closure[m] : m \in Roots}
               j == [job[p] EXCEPT !.latest = head, !.marks = marks]
    <3>1. CASE End(p)
      BY <3>1, EndSafe
    <3>2. CASE ~End(p)
      <4>1. Goto(p, "sweep", j) /\ head' = head
        BY <2>2, <3>2 DEF Mark, documents
      <4>2. j.marks = marks
        BY <1>4 DEF Locals
      <4>3. head.id # None => head.id \in Roots
        BY DEF Roots, Context, Typing, StoreTyped, HeadRecord
      <4>4. head.id # None => {head.id} \cup Closure[head.id] \subseteq marks
        BY <4>3
      <4>5. pc'[p] = "sweep" /\ job'[p].marks = marks
        BY <1>4, <4>1, <4>2 DEF Goto
      <4> HIDE DEF marks, j
      <4>6. SafeAt(p)'
        BY <4>1, <4>4, <4>5 DEF SafeAt, Verified
      <4> QED
        BY <4>1, <4>6, GotoSafe
    <3> QED
      BY <3>1, <3>2
  <2>3. CASE GcDone(p)
    BY <2>3, EndSafe DEF GcDone
  <2>4. CASE SweepObject(p) \/ SweepManifest(p)
    BY <1>1, <2>4, EndSafe DEF SweepObject, SweepManifest
  <2> QED
    BY <1>8, <2>1, <2>2, <2>3, <2>4 DEF Collection
<1> QED
  BY <1>1, <1>2, <1>3, <1>5, <1>6, <1>7, <1>8 DEF Next, vars

LEMMA SafeInvariant == Spec => [](Context /\ Safe)
<1>1. Init => Context /\ Safe
  <2>1. Init => Holding
    BY DEF Init, Holding, SeekingLabels, OwnedLabels, NoJob
  <2>2. Init => Safe
    BY DEF Init, Safe, SafeAt, Verified, HeadComplete
  <2> QED
    BY <2>1, <2>2, TypingInit DEF Context
<1>2. Context /\ Safe /\ [Next]_vars => (Context /\ Safe)'
  <2>1. Context /\ [Next]_vars => Context'
    BY StoreTypedStep, ProcessTypedStep, CarriedStep, SwingRetainedStep,
       RetentionStep, HoldingStep DEF Context, Typing
  <2> QED
    BY <2>1, SafeStep
<1> QED
  BY <1>1, <1>2, PTL DEF Spec

(* The visible publication can be read in full, whatever was collected      *)
(* while it was prepared and whatever a collector deletes now.              *)
THEOREM HeadAlwaysComplete == Spec => []HeadComplete
<1>1. Context /\ Safe => HeadComplete
  BY DEF Safe
<1> QED
  BY <1>1, SafeInvariant, PTL

(* The head changes only from the head its publisher saw first, one         *)
(* revision up, to a complete publication, in the hands of the owner.       *)
THEOREM HeadChangesInOrder == Spec => HeadReplacesItsParent
<1>1. Context /\ Safe /\ [Next]_vars => [HeadReplaced]_vars
  <2> SUFFICES ASSUME Context, Safe, [Next]_vars, head' # head
               PROVE  HeadReplaced
    BY DEF HeadReplaced
  <2>1. PICK p \in Process : SwingHead(p)
    BY HeadChange
  <2>2. /\ pc[p] = "swing" /\ head = job[p].latest
        /\ head' = [id |-> job[p].work, revision |-> job[p].latest.revision + 1]
    BY <2>1 DEF SwingHead, End, documents
  <2>3. Complete(job[p].work) /\ job[p].latest.id = job[p].parent
    BY <2>2 DEF Safe, SafeAt, Verified
  <2>4. writer = owner[p]
    BY <2>2 DEF Context, Holding, OwnedLabels
  <2> QED
    BY <2>2, <2>3, <2>4 DEF HeadReplaced
<1> QED
  BY <1>1, SafeInvariant, PTL DEF Spec, HeadReplacesItsParent

(* A prepared record goes away by the cleanup of a commit or of a recovery, *)
(* both of a publication that is the head.                                  *)
LEMMA PreparedGone ==
  ASSUME Context, Safe, [Next]_vars, NEW m \in Publication,
         prepared[m] # Absent, prepared'[m] = Absent
  PROVE  /\ head.id = m
         /\ \E p \in Process :
              pc[p] = "cleanup" \/ (pc[p] = "replay" /\ job[p].recovering)
<1> USE DEF documents
<1>1. PICK p \in Process : Start(p) \/ Crash(p) \/ Fault(p) \/ Ownership(p)
                             \/ Commit(p) \/ Recovery(p) \/ Collection(p)
  BY DEF Next, vars, Tick
<1>2. ~(Start(p) \/ Crash(p) \/ Fault(p))
  BY DEF Start, Crash, Fault, End
<1>3. ~Ownership(p)
  BY DEF Ownership, AcquireRead, AcquireCas, AcquireReread, AssertWriter,
         Close, End
<1>4. ~Prepare(p)
  <2>1. job[p].parent # Absent
    BY ConstantsAssumption DEF Context, Typing, ProcessTyped, Locals
  <2> QED
    BY <2>1 DEF Prepare, Context, Typing, StoreTyped
<1>5. Cleanup(p) => head.id = m /\ pc[p] = "cleanup"
  BY DEF Cleanup, Safe, SafeAt, Context, Typing, StoreTyped
<1>6. Commit(p) => Cleanup(p)
  BY <1>4 DEF Commit, PublishStart, EnsureStat, Create, CommitHead,
              CommitClosure, EnsureManifest, CommitClosureOwned,
              CommitReadHead, RetirePrevious, Retain, SwingHead,
              CleanupFails, End
<1>7. Recovery(p) => ReplayClean(p)
  BY DEF Recovery, RecoverStart, RecoverCas, ScanPrepared, ReplayCommit,
         ReplayConflict, RecoverDone, End
<1>8. ReplayClean(p) => head.id = m /\ pc[p] = "replay"
  BY DEF ReplayClean, End, Context, Typing, StoreTyped
<1>9. pc[p] = "replay" => job[p].recovering
  <2>1. CarriedBy(pc[p], job[p])
    BY DEF Context, Typing, Carried
  <2> QED
    BY <2>1 DEF CarriedBy
<1>10. ~Collection(p)
  BY DEF Collection, GcStart, Mark, SweepObject, SweepManifest, GcDone, End
<1> QED
  BY <1>1, <1>2, <1>3, <1>5, <1>6, <1>7, <1>8, <1>9, <1>10

(* Only a publication that is the head loses its prepared record.           *)
THEOREM PreparedKept == Spec => PreparedUntilVisible
<1>1. Context /\ Safe /\ [Next]_vars =>
        [\A m \in Publication :
           prepared[m] # Absent /\ prepared'[m] = Absent => head.id = m]_vars
  BY PreparedGone
<1> QED
  BY <1>1, SafeInvariant, PTL DEF Spec, PreparedUntilVisible

-----------------------------------------------------------------------------
(* The promise to readers.  A replaced publication is kept by the           *)
(* retirement its record names, or, when a later attempt to publish the     *)
(* same content overwrote that record, by the prepared record of the        *)
(* attempt, which goes away only with the promise.                          *)

Promised(m) == promise[m] # Absent /\ clock - promise[m] < RetainedMs

Preparing(p) ==
  \/ pc[p] \in {"manifest", "closure2", "readHead", "retire", "retain", "swing"}
  \/ pc[p] = "assert" /\ job[p].back = "readHead"

KeptAt(p) ==
  /\ Preparing(p) => prepared[job[p].work] # Absent
  /\ pc[p] \in {"retire", "retain", "swing"} => job[p].latest = head
  /\ pc[p] = "sweep" => \A m \in Publication :
       Promised(m) => {m} \cup Closure[m] \subseteq job[p].marks

HeadUnpromised == head.id # None => promise[head.id] = Absent

KeptByRecord(m) ==
  promise[m] # Absent =>
    /\ retained[m] # Absent
    /\ IF retained[m].retiredAt = Absent
       THEN prepared[m] # Absent
       ELSE promise[m] <= retained[m].retiredAt

PromisesKept ==
  /\ HeadUnpromised
  /\ \A m \in Publication : KeptByRecord(m) /\ (Promised(m) => Complete(m))
  /\ \A p \in Process : KeptAt(p)

Guarded == Context /\ Safe /\ PromisesKept

LEMMA Numbers ==
  ASSUME StoreTyped
  PROVE  /\ clock \in Nat
         /\ \A m \in Publication :
              /\ promise[m] # Absent => promise[m] \in Nat
              /\ retained[m] # Absent =>
                   /\ retained[m] \in Retention
                   /\ retained[m].retiredAt # Absent => retained[m].retiredAt \in Nat
BY ConstantsAssumption DEF StoreTyped, Time, Retention

LEMMA PromiseChange ==
  ASSUME [Next]_vars, promise' # promise
  PROVE  \E p \in Process : SwingHead(p) /\ ~End(p)
<1> USE DEF documents, history
<1>1. PICK p \in Process : Start(p) \/ Crash(p) \/ Fault(p) \/ Ownership(p)
                             \/ Commit(p) \/ Recovery(p) \/ Collection(p)
  BY DEF Next, vars, Tick
<1>2. ~(Start(p) \/ Crash(p) \/ Fault(p))
  BY DEF Start, Crash, Fault, End
<1>3. ~Ownership(p)
  BY DEF Ownership, AcquireRead, AcquireCas, AcquireReread, AssertWriter,
         Close, End
<1>4. Commit(p) => SwingHead(p) /\ ~End(p)
  BY DEF Commit, PublishStart, EnsureStat, Create, CommitHead, CommitClosure,
         Prepare, EnsureManifest, CommitClosureOwned, CommitReadHead,
         RetirePrevious, Retain, SwingHead, Cleanup, CleanupFails, End
<1>5. ~Recovery(p)
  BY DEF Recovery, RecoverStart, RecoverCas, ScanPrepared, ReplayClean,
         ReplayCommit, ReplayConflict, RecoverDone, End
<1>6. ~Collection(p)
  BY DEF Collection, GcStart, Mark, SweepObject, SweepManifest, GcDone, End
<1> QED
  BY <1>1, <1>2, <1>3, <1>4, <1>5, <1>6

LEMMA ClockChange ==
  ASSUME [Next]_vars
  PROVE  clock' \in {clock, clock + 1}
<1>1. CASE UNCHANGED vars
  BY <1>1 DEF vars
<1>2. CASE Tick
  BY <1>2 DEF Tick
<1>3. ASSUME NEW p \in Process,
             Start(p) \/ Crash(p) \/ Fault(p) \/ Ownership(p)
      PROVE  clock' = clock
  BY <1>3 DEF Start, Crash, Fault, Ownership, AcquireRead, AcquireCas,
              AcquireReread, AssertWriter, Close, End
<1>4. ASSUME NEW p \in Process, Commit(p) PROVE clock' = clock
  BY <1>4 DEF Commit, PublishStart, EnsureStat, Create, CommitHead,
              CommitClosure, Prepare, EnsureManifest, CommitClosureOwned,
              CommitReadHead, RetirePrevious, Retain, SwingHead, Cleanup,
              CleanupFails, End
<1>5. ASSUME NEW p \in Process, Recovery(p) \/ Collection(p)
      PROVE  clock' = clock
  BY <1>5 DEF Recovery, RecoverStart, RecoverCas, ScanPrepared, ReplayClean,
              ReplayCommit, ReplayConflict, RecoverDone, Collection, GcStart,
              Mark, SweepObject, SweepManifest, GcDone, End
<1> QED
  BY <1>1, <1>2, <1>3, <1>4, <1>5 DEF Next

(* A promise runs out; none is made but when the head is replaced.          *)
LEMMA StillPromised ==
  ASSUME StoreTyped, [Next]_vars, promise' = promise,
         NEW m \in Publication, Promised(m)'
  PROVE  Promised(m)
<1>1. promise[m] # Absent /\ clock' - promise[m] < RetainedMs
  BY DEF Promised
<1>2. promise[m] \in Nat /\ clock \in Nat /\ RetainedMs \in Nat
  BY <1>1, Numbers, ConstantsAssumption
<1> QED
  BY <1>1, <1>2, ClockChange DEF Promised

(* What replacing the head does.                                            *)
LEMMA Swing ==
  ASSUME Guarded, NEW p \in Process, SwingHead(p), ~End(p)
  PROVE  /\ pc[p] = "swing" /\ job[p].work \in Publication
         /\ head = job[p].latest /\ head'.id = job[p].work
         /\ head.id # job[p].work
         /\ promise' = [m \in Publication |->
               CASE m = job[p].work -> Absent
                 [] m # job[p].work /\ m = head.id -> retained[m].retiredAt
                 [] OTHER -> promise[m]]
         /\ UNCHANGED <<prepared, retained, manifests, objects, clock>>
<1>1. /\ pc[p] = "swing" /\ head = job[p].latest /\ head'.id = job[p].work
      /\ promise' = [m \in Publication |->
               CASE m = job[p].work -> Absent
                 [] m # job[p].work /\ m = head.id -> retained[m].retiredAt
                 [] OTHER -> promise[m]]
      /\ UNCHANGED <<prepared, retained, manifests, objects, clock>>
  BY DEF SwingHead
<1>2. job[p].work \in Publication /\ job[p].work # job[p].parent
  BY <1>1 DEF Guarded, Context, Typing, Carried, CarriedBy, Committing
<1>3. job[p].latest.id = job[p].parent
  BY <1>1 DEF Guarded, Safe, SafeAt
<1> QED
  BY <1>1, <1>2, <1>3

LEMMA StandKept ==
  ASSUME Guarded, [Next]_vars, NEW q \in Process,
         pc'[q] = pc[q], job'[q] = job[q]
  PROVE  KeptAt(q)'
<1> USE DEF Guarded, Context, Typing
<1>1. CASE pc[q] \notin OwnedLabels
  BY <1>1 DEF KeptAt, Preparing, OwnedLabels
<1>2. CASE pc[q] \in OwnedLabels
  <2>1. \A p \in Process \ {q} : pc[p] \notin OwnedLabels
    BY <1>2, Sole DEF Holding
  <2>2. \A p \in Process : job[p].recovering => p = q
    BY <1>2 DEF Holding, OwnedLabels
  <2>3. ASSUME NEW p \in Process, SwingHead(p), ~End(p) PROVE FALSE
    <3>1. p = q
      BY <2>1, <2>3 DEF SwingHead, OwnedLabels
    <3>2. pc'[p] = "cleanup" /\ pc[p] = "swing"
      BY <2>3 DEF SwingHead, Proceed, Goto, ProcessTyped
    <3> QED
      BY <3>1, <3>2
  <2>4. promise' = promise
    BY <2>3, PromiseChange
  <2>5. head' = head
    <3>1. ASSUME NEW p \in Process, End(p) PROVE head' = head
      BY <3>1 DEF End, documents
    <3> QED
      BY <2>3, <3>1, HeadChange
  <2>6. KeptAt(q)
    BY DEF PromisesKept
  <2>7. Preparing(q) => prepared'[job[q].work] # Absent
    <3> SUFFICES ASSUME Preparing(q), prepared'[job[q].work] = Absent
                 PROVE  FALSE
      OBVIOUS
    <3>1. job[q].work \in Publication
      BY DEF Preparing, Carried, CarriedBy, Committing, OwnLabels
    <3>2. prepared[job[q].work] # Absent
      BY <2>6 DEF KeptAt
    <3>3. PICK p \in Process :
            pc[p] = "cleanup" \/ (pc[p] = "replay" /\ job[p].recovering)
      BY <3>1, <3>2, PreparedGone
    <3>4. p = q
      BY <2>1, <2>2, <3>3 DEF OwnedLabels
    <3> QED
      BY <3>3, <3>4 DEF Preparing
  <2>8. ASSUME pc[q] = "sweep", NEW m \in Publication, Promised(m)'
        PROVE  {m} \cup Closure[m] \subseteq job[q].marks
    BY <2>4, <2>6, <2>8, StillPromised DEF KeptAt
  <2> QED
    BY <2>5, <2>6, <2>7, <2>8 DEF KeptAt, Preparing
<1> QED
  BY <1>1, <1>2

LEMMA GotoKept ==
  ASSUME Guarded, [Next]_vars, NEW p \in Process, NEW l, NEW j,
         Goto(p, l, j), KeptAt(p)'
  PROVE  \A q \in Process : KeptAt(q)'
<1> SUFFICES ASSUME NEW q \in Process, q # p PROVE KeptAt(q)'
  OBVIOUS
<1>1. pc'[q] = pc[q] /\ job'[q] = job[q]
  BY DEF Goto, Guarded, Context, Typing, ProcessTyped
<1> QED
  BY <1>1, StandKept

(* Labels at which no prepared record and no marks are relied on.           *)
LooseLabels ==
  Labels \ {"manifest", "closure2", "readHead", "retire", "retain", "swing",
            "sweep"}

LEMMA LooseKept ==
  ASSUME Guarded, [Next]_vars, NEW p \in Process, NEW l \in LooseLabels, NEW j,
         Goto(p, l, j), l = "assert" => j.back # "readHead"
  PROVE  \A q \in Process : KeptAt(q)'
<1>1. pc'[p] = l /\ job'[p] = j
  BY DEF Goto, Guarded, Context, Typing, ProcessTyped
<1>2. KeptAt(p)'
  BY <1>1 DEF KeptAt, Preparing, LooseLabels
<1> QED
  BY <1>2, GotoKept

LEMMA EndKept ==
  ASSUME Guarded, [Next]_vars, NEW p \in Process, End(p) \/ CommitReturn(p)
  PROVE  \A q \in Process : KeptAt(q)'
BY LooseKept DEF End, CommitReturn, Return, LooseLabels, Labels

(* What a collector marks covers what readers were promised.                *)
LEMMA MarksPromised ==
  ASSUME Guarded, NEW m \in Publication, Promised(m)
  PROVE  m \in Roots
<1>1. KeptByRecord(m) /\ promise[m] # Absent /\ StoreTyped
  BY DEF Guarded, PromisesKept, Promised, Context, Typing
<1>2. CASE retained[m].retiredAt = Absent
  BY <1>1, <1>2 DEF KeptByRecord, Roots
<1>3. CASE retained[m].retiredAt # Absent
  <2>1. /\ retained[m] # Absent /\ promise[m] <= retained[m].retiredAt
        /\ retained[m].retiredAt \in Nat /\ promise[m] \in Nat /\ clock \in Nat
        /\ clock - promise[m] < RetainedMs /\ RetainedMs \in Nat
    BY <1>1, <1>3, Numbers, ConstantsAssumption DEF KeptByRecord, Promised
  <2>2. clock - retained[m].retiredAt < RetainedMs
    BY <2>1
  <2> QED
    BY <1>3, <2>1, <2>2 DEF Roots, RetainedRoot
<1> QED
  BY <1>2, <1>3

LEMMA KeptStep ==
  ASSUME Guarded, [Next]_vars
  PROVE  \A q \in Process : KeptAt(q)'
<1> DEFINE Goal == \A q \in Process : KeptAt(q)'
<1> SUFFICES Goal
  OBVIOUS
<1>1. UNCHANGED <<pc, job>> => Goal
  BY StandKept
<1>2. \A p \in Process : End(p) \/ CommitReturn(p) => Goal
  BY EndKept
<1>3. ASSUME NEW p \in Process, NEW l \in LooseLabels, NEW j, Goto(p, l, j),
             l = "assert" => j.back # "readHead"
      PROVE  Goal
  BY <1>3, LooseKept
<1>4. ASSUME NEW p \in Process, NEW l, NEW j, Goto(p, l, j), KeptAt(p)'
      PROVE  Goal
  BY <1>4, GotoKept
<1>5. ASSUME NEW p \in Process
      PROVE  /\ job[p] \in Locals /\ KeptAt(p) /\ CarriedBy(pc[p], job[p])
             /\ pc \in [Process -> Labels] /\ job \in [Process -> Locals]
             /\ prepared \in [Publication -> Parent \cup {Absent}]
  BY DEF Guarded, Context, Typing, StoreTyped, ProcessTyped, PromisesKept,
         Carried
<1> HIDE DEF Goal
<1> USE DEF LooseLabels, Labels
<1>6. CASE UNCHANGED vars
  BY <1>1, <1>6 DEF vars
<1>7. CASE Tick
  BY <1>1, <1>7 DEF Tick
<1>8. ASSUME NEW p \in Process, Start(p) \/ Crash(p) \/ Fault(p) PROVE Goal
  BY <1>2, <1>3, <1>8 DEF Start, Crash, Fault, Proceed
<1>9. ASSUME NEW p \in Process, Ownership(p) PROVE Goal
  <2>1. CASE AcquireRead(p) \/ AcquireCas(p)
    BY <1>2, <1>3, <2>1 DEF AcquireRead, AcquireCas, Proceed
  <2>2. CASE AcquireReread(p)
    <3>1. [job[p] EXCEPT !.seen = None].back # "readHead"
      BY <1>5, <2>2 DEF AcquireReread, Locals, CarriedBy, OwnLabels
    <3>2. \E l \in {"create", "assert"} : \E j :
            j.back # "readHead" /\ Goto(p, l, j)
      BY <2>2, <3>1 DEF AcquireReread
    <3> QED
      BY <1>3, <3>2
  <2>3. CASE AssertWriter(p) /\ ~End(p)
    <3> DEFINE j == [job[p] EXCEPT !.back = "idle"]
    <3>1. Goto(p, job[p].back, j) /\ UNCHANGED documents /\ pc[p] = "assert"
      BY <2>3 DEF AssertWriter
    <3>2. CASE job[p].back = "readHead"
      <4>1. prepared[job[p].work] # Absent
        BY <1>5, <3>1, <3>2 DEF KeptAt, Preparing
      <4>2. j.work = job[p].work
        BY <1>5 DEF Locals
      <4>3. pc'[p] = "readHead" /\ job'[p].work = job[p].work
        BY <1>5, <3>1, <3>2, <4>2 DEF Goto
      <4>4. KeptAt(p)'
        BY <3>1, <4>1, <4>3 DEF KeptAt, documents
      <4> QED
        BY <1>4, <3>1, <4>4
    <3>3. CASE job[p].back # "readHead"
      <4>1. job[p].back \in {"create", "prepare", "mark", "scan"}
        BY <1>5, <3>1, <3>3 DEF Locals, CarriedBy, OwnLabels
      <4> QED
        BY <1>3, <3>1, <4>1
    <3> QED
      BY <3>2, <3>3
  <2>4. CASE Close(p)
    BY <1>1, <2>4 DEF Close
  <2> QED
    BY <1>2, <1>9, <2>1, <2>2, <2>3, <2>4 DEF Ownership
<1>10. ASSUME NEW p \in Process, Commit(p) PROVE Goal
  <2>1. CASE PublishStart(p) \/ CommitHead(p) \/ Create(p)
    BY <1>2, <1>3, <2>1 DEF PublishStart, CommitHead, Create, Proceed
  <2>2. CASE EnsureStat(p)
    <3>1. PICK o \in job[p].todo :
            \/ Goto(p, "upload", [job[p] EXCEPT !.todo = @ \ {o}])
            \/ Goto(p, IF o \notin Page /\ owner[p] # None
                       THEN "create" ELSE Own(p),
                    [job[p] EXCEPT !.at = o, !.back = "create"])
      BY <2>2 DEF EnsureStat
    <3>2. [job[p] EXCEPT !.at = o, !.back = "create"].back = "create"
      BY <1>5 DEF Locals
    <3> QED
      BY <1>3, <3>1, <3>2 DEF Own
  <2>3. CASE CommitClosure(p)
    <3>1. [job[p] EXCEPT !.back = "prepare"].back = "prepare"
      BY <1>5 DEF Locals
    <3>2. \/ Goto(p, "idle", NoJob) \/ CommitReturn(p)
          \/ Goto(p, Own(p), [job[p] EXCEPT !.back = "prepare"])
      BY <2>3 DEF CommitClosure, Return
    <3> QED
      BY <1>2, <1>3, <3>1, <3>2 DEF Own
  <2>4. CASE Prepare(p)
    <3>1. job[p].work \in Publication /\ job[p].parent # Absent
      BY <1>5, <2>4, ConstantsAssumption
         DEF Prepare, CarriedBy, Committing, Locals
    <3>2. prepared'[job[p].work] # Absent
      BY <1>5, <2>4, <3>1 DEF Prepare
    <3>3. pc'[p] = "manifest" /\ job'[p] = job[p]
      BY <1>5, <2>4 DEF Prepare, Proceed, Goto
    <3>4. KeptAt(p)'
      BY <3>2, <3>3 DEF KeptAt
    <3> QED
      BY <1>4, <2>4, <3>4 DEF Prepare, Proceed
  <2>5. CASE EnsureManifest(p)
    <3>1. prepared'[job[p].work] # Absent
      BY <1>5, <2>5 DEF EnsureManifest, KeptAt, Preparing
    <3>2. pc'[p] = "closure2" /\ job'[p] = job[p]
      BY <1>5, <2>5 DEF EnsureManifest, Proceed, Goto
    <3>3. KeptAt(p)'
      BY <3>1, <3>2 DEF KeptAt
    <3> QED
      BY <1>4, <2>5, <3>3 DEF EnsureManifest, Proceed
  <2>6. CASE CommitClosureOwned(p)
    <3> DEFINE j == [job[p] EXCEPT !.back = "readHead"]
    <3>1. CASE ClosurePresent(job[p].work)
      <4>1. Goto(p, "assert", j) /\ UNCHANGED documents /\ pc[p] = "closure2"
        BY <2>6, <3>1 DEF CommitClosureOwned
      <4>2. j.work = job[p].work
        BY <1>5 DEF Locals
      <4>3. pc'[p] = "assert" /\ job'[p].work = job[p].work
        BY <1>5, <4>1, <4>2 DEF Goto
      <4>4. prepared'[job[p].work] # Absent
        BY <1>5, <4>1 DEF KeptAt, Preparing, documents
      <4>5. KeptAt(p)'
        BY <4>3, <4>4 DEF KeptAt
      <4> QED
        BY <1>4, <4>1, <4>5
    <3>2. CASE ~ClosurePresent(job[p].work)
      BY <1>3, <2>6, <3>2 DEF CommitClosureOwned, Return
    <3> QED
      BY <3>1, <3>2
  <2>7. CASE CommitReadHead(p) /\ ~End(p)
    <3> DEFINE j == [job[p] EXCEPT !.latest = head]
    <3>1. PICK l \in {"retain", "retire"} :
            Goto(p, l, j) /\ UNCHANGED documents /\ pc[p] = "readHead"
      BY <2>7 DEF CommitReadHead
    <3>2. j.work = job[p].work /\ j.latest = head
      BY <1>5 DEF Locals
    <3>3. pc'[p] = l /\ job'[p] = j
      BY <1>5, <3>1 DEF Goto
    <3>4. prepared'[job[p].work] # Absent /\ head' = head
      BY <1>5, <3>1 DEF KeptAt, Preparing, documents
    <3> HIDE DEF j
    <3>5. KeptAt(p)'
      BY <3>1, <3>2, <3>3, <3>4 DEF KeptAt
    <3> QED
      BY <1>4, <3>1, <3>5
  <2>8. CASE RetirePrevious(p) \/ Retain(p)
    <3>1. PICK l \in {"retain", "swing"} :
            Goto(p, l, job[p]) /\ UNCHANGED <<head, prepared>>
            /\ pc[p] \in {"retire", "retain"}
      BY <2>8 DEF RetirePrevious, Retain, Proceed
    <3>2. pc'[p] = l /\ job'[p] = job[p]
      BY <1>5, <3>1 DEF Goto
    <3>3. prepared[job[p].work] # Absent /\ job[p].latest = head
      BY <1>5, <3>1 DEF KeptAt, Preparing
    <3>4. KeptAt(p)'
      BY <3>1, <3>2, <3>3 DEF KeptAt
    <3> QED
      BY <1>4, <3>1, <3>4
  <2>9. CASE SwingHead(p)
    BY <1>2, <1>3, <2>9 DEF SwingHead, Proceed
  <2>10. CASE Cleanup(p) \/ CleanupFails(p)
    BY <1>2, <2>10 DEF Cleanup, CleanupFails
  <2> QED
    BY <1>2, <1>10, <2>1, <2>2, <2>3, <2>4, <2>5, <2>6, <2>7, <2>8, <2>9, <2>10
       DEF Commit, CommitReadHead
<1>11. ASSUME NEW p \in Process, Recovery(p) PROVE Goal
  BY <1>2, <1>3, <1>11
     DEF Recovery, RecoverStart, RecoverCas, ScanPrepared, ReplayClean,
         ReplayCommit, ReplayConflict, RecoverDone
<1>12. ASSUME NEW p \in Process, Collection(p) PROVE Goal
  <2>1. CASE GcStart(p)
    <3>1. [NoJob EXCEPT !.back = "mark"].back = "mark"
      BY DEF NoJob
    <3> QED
      BY <1>3, <2>1, <3>1 DEF GcStart, Own
  <2>2. CASE Mark(p) /\ ~End(p)
    <3> DEFINE marks == Roots \cup UNION {Closure[m] : m \in Roots}
               j == [job[p] EXCEPT !.latest = head, !.marks = marks]
    <3>1. Goto(p, "sweep", j) /\ UNCHANGED <<clock, history>>
      BY <2>2 DEF Mark
    <3>2. j.marks = marks
      BY <1>5 DEF Locals
    <3>3. pc'[p] = "sweep" /\ job'[p].marks = marks
      BY <1>5, <3>1, <3>2 DEF Goto
    <3>4. ASSUME NEW m \in Publication, Promised(m)'
          PROVE  {m} \cup Closure[m] \subseteq marks
      <4>1. Promised(m)
        BY <3>1, <3>4 DEF Promised, history
      <4>2. m \in Roots
        BY <4>1, MarksPromised
      <4> QED
        BY <4>2
    <3> HIDE DEF marks, j
    <3>5. KeptAt(p)'
      BY <3>3, <3>4 DEF KeptAt, Preparing
    <3> QED
      BY <1>4, <3>1, <3>5
  <2>3. CASE GcDone(p)
    BY <1>2, <2>3 DEF GcDone
  <2>4. CASE SweepObject(p) \/ SweepManifest(p)
    BY <1>1, <1>2, <2>4 DEF SweepObject, SweepManifest
  <2> QED
    BY <1>2, <1>12, <2>1, <2>2, <2>3, <2>4 DEF Collection
<1> QED
  BY <1>6, <1>7, <1>8, <1>9, <1>10, <1>11, <1>12 DEF Next

LEMMA SwingPromises ==
  ASSUME Guarded, NEW p \in Process, SwingHead(p), ~End(p)
  PROVE  /\ HeadUnpromised'
         /\ \A m \in Publication : KeptByRecord(m)' /\ (Promised(m)' => Complete(m)')
<1>1. /\ pc[p] = "swing" /\ job[p].work \in Publication
      /\ head.id # job[p].work /\ head'.id = job[p].work
      /\ promise' = [m \in Publication |->
               CASE m = job[p].work -> Absent
                 [] m # job[p].work /\ m = head.id -> retained[m].retiredAt
                 [] OTHER -> promise[m]]
      /\ UNCHANGED <<prepared, retained, manifests, objects, clock>>
  BY Swing
<1>2. HeadUnpromised'
  BY <1>1 DEF HeadUnpromised
<1>3. \A m \in Publication :
        /\ m = job[p].work => promise'[m] = Absent
        /\ m = head.id => promise'[m] = retained[m].retiredAt
        /\ m \notin {job[p].work, head.id} => promise'[m] = promise[m]
  BY <1>1
<1>4. ASSUME NEW m \in Publication
      PROVE  KeptByRecord(m)' /\ (Promised(m)' => Complete(m)')
  <2>1. KeptByRecord(m) /\ (Promised(m) => Complete(m))
    BY DEF Guarded, PromisesKept
  <2>2. Complete(m)' <=> Complete(m)
    BY <1>1 DEF Complete, ClosurePresent
  <2>3. CASE m = job[p].work
    BY <1>3, <2>3 DEF KeptByRecord, Promised
  <2>4. CASE m = head.id
    <3>1. promise'[m] = retained[m].retiredAt
      BY <1>3, <2>4
    <3>2. Complete(m) /\ retained[m] # Absent
      BY <2>4, ConstantsAssumption
         DEF Guarded, Safe, HeadComplete, Context, Typing,
             RetentionPrecedesVisibility
    <3>3. retained[m].retiredAt # Absent => retained[m].retiredAt \in Nat
      BY <3>2, Numbers DEF Guarded, Context, Typing
    <3>4. KeptByRecord(m)'
      BY <1>1, <3>1, <3>2, <3>3 DEF KeptByRecord
    <3> QED
      BY <2>2, <3>2, <3>4
  <2>5. CASE m \notin {job[p].work, head.id}
    <3>1. promise'[m] = promise[m]
      BY <1>3, <2>5
    <3> QED
      BY <1>1, <2>1, <2>2, <3>1 DEF KeptByRecord, Promised
  <2> QED
    BY <2>3, <2>4, <2>5
<1> QED
  BY <1>2, <1>4

(* While no head is replaced a record still keeps what it kept.             *)
LEMMA RecordStep ==
  ASSUME Guarded, [Next]_vars, promise' = promise, NEW m \in Publication
  PROVE  KeptByRecord(m)'
<1> SUFFICES ASSUME promise[m] # Absent PROVE KeptByRecord(m)'
  BY DEF KeptByRecord
<1> USE DEF Guarded, Context, Typing
<1>1. KeptByRecord(m) /\ retained[m] # Absent
  BY DEF PromisesKept, KeptByRecord
<1>2. head.id # m
  BY ConstantsAssumption DEF PromisesKept, HeadUnpromised
<1>3. prepared[m] # Absent => prepared'[m] # Absent
  BY <1>2, PreparedGone
<1>4. retained'[m] # Absent
  BY <1>1, RetainedStays
<1>5. CASE retained'[m] = retained[m]
  BY <1>1, <1>3, <1>4, <1>5 DEF KeptByRecord
<1>6. CASE retained'[m] # retained[m]
  <2>1. PICK p \in Process : RetirePrevious(p) \/ Retain(p)
    BY <1>6, RetainedChange
  <2>2. ~RetirePrevious(p)
    <3> SUFFICES ASSUME RetirePrevious(p) PROVE FALSE
      OBVIOUS
    <3>1. job[p].latest = head
      BY DEF RetirePrevious, PromisesKept, KeptAt
    <3> QED
      BY <1>2, <1>6, <3>1 DEF RetirePrevious, StoreTyped
  <2>3. pc[p] = "retain" /\ m = job[p].work
    BY <1>6, <2>1, <2>2 DEF Retain, StoreTyped
  <2>4. prepared[m] # Absent
    BY <2>3 DEF PromisesKept, KeptAt, Preparing
  <2>5. retained'[m] = [committedAt |-> clock, retiredAt |-> Absent]
    BY <2>1, <2>2, <2>3 DEF Retain, StoreTyped
  <2>6. retained'[m].retiredAt = Absent
    BY <2>5
  <2> QED
    BY <1>3, <1>4, <2>4, <2>6 DEF KeptByRecord
<1> QED
  BY <1>5, <1>6

LEMMA PromisesKeptStep ==
  ASSUME Guarded, [Next]_vars
  PROVE  PromisesKept'
<1>1. \A q \in Process : KeptAt(q)'
  BY KeptStep
<1>2. CASE \E p \in Process : SwingHead(p) /\ ~End(p)
  BY <1>1, <1>2, SwingPromises DEF PromisesKept
<1>3. CASE \A p \in Process : ~(SwingHead(p) /\ ~End(p))
  <2>1. promise' = promise
    BY <1>3, PromiseChange
  <2>2. head' = head
    <3>1. \A p \in Process : End(p) => head' = head
      BY DEF End, documents
    <3> QED
      BY <1>3, <3>1, HeadChange
  <2>3. HeadUnpromised'
    BY <2>1, <2>2 DEF Guarded, PromisesKept, HeadUnpromised
  <2>4. ASSUME NEW m \in Publication, Promised(m)' PROVE Complete(m)'
    <3>1. Promised(m)
      BY <2>1, <2>4, StillPromised DEF Guarded, Context, Typing
    <3>2. Complete(m)
      BY <3>1 DEF Guarded, PromisesKept
    <3>3. \A p \in Process : pc[p] = "sweep" =>
            {m} \cup Closure[m] \subseteq job[p].marks
      BY <3>1 DEF Guarded, PromisesKept, KeptAt
    <3> QED
      BY <3>2, <3>3, CompleteStays DEF Guarded
  <2>5. \A m \in Publication : KeptByRecord(m)'
    BY <2>1, RecordStep
  <2> QED
    BY <1>1, <2>3, <2>4, <2>5 DEF PromisesKept
<1> QED
  BY <1>2, <1>3

LEMMA GuardedInvariant == Spec => []Guarded
<1>1. Init => PromisesKept
  BY ConstantsAssumption
     DEF Init, PromisesKept, HeadUnpromised, KeptByRecord, Promised, KeptAt,
         Preparing
<1>2. Guarded /\ [Next]_vars => PromisesKept'
  BY PromisesKeptStep
<1>3. Context /\ Safe /\ PromisesKept => Guarded
  BY DEF Guarded
<1> QED
  BY <1>1, <1>2, <1>3, SafeInvariant, PTL DEF Spec

(* A reader of a replaced publication finds its retention record and every  *)
(* byte of it for RetainedMs, whatever is collected or published again.     *)
THEOREM ReadersKept == Spec => []ReaderPromise
<1>1. ASSUME Guarded PROVE ReaderPromise
  <2> SUFFICES ASSUME NEW m \in Publication, promise[m] # Absent,
                      clock - promise[m] < RetainedMs
               PROVE  RetainedHead(m) /\ Complete(m)
    BY DEF ReaderPromise
  <2>1. KeptByRecord(m) /\ Complete(m) /\ StoreTyped
    BY <1>1 DEF Guarded, PromisesKept, Promised, Context, Typing
  <2>2. retained[m] # Absent
    BY <2>1 DEF KeptByRecord
  <2>3. ASSUME retained[m].retiredAt # Absent
        PROVE  clock - retained[m].retiredAt <= RetainedMs
    <3>1. /\ promise[m] \in Nat /\ clock \in Nat /\ RetainedMs \in Nat
          /\ retained[m].retiredAt \in Nat /\ promise[m] <= retained[m].retiredAt
      BY <2>1, <2>2, <2>3, Numbers, ConstantsAssumption DEF KeptByRecord
    <3> QED
      BY <3>1
  <2> QED
    BY <2>1, <2>2, <2>3 DEF RetainedHead
<1> QED
  BY <1>1, GuardedInvariant, PTL

-----------------------------------------------------------------------------
(* The register.  A swing of the head is its Replace, every other step its  *)
(* Upkeep.                                                                  *)

Readable == {m \in Publication : Complete(m)}
Promises == {m \in Publication :
               promise[m] # Absent /\ clock - promise[m] < RetainedMs}

LEMMA RegisterInit == Init => Register!Init
<1> SUFFICES ASSUME Init PROVE Register!Init
  OBVIOUS
<1>1. head = [id |-> None, revision |-> 0]
  BY DEF Init
<1>2. Readable = {}
  BY DEF Init, Readable, Complete
<1>3. Promises = {}
  BY DEF Init, Promises
<1> QED
  BY <1>1, <1>2, <1>3 DEF Register!Init, Readable, Promises

LEMMA RegisterReplace ==
  ASSUME Guarded, NEW p \in Process, SwingHead(p), ~End(p)
  PROVE  Register!Replace
<1>1. /\ pc[p] = "swing" /\ job[p].work \in Publication
      /\ head.id # job[p].work
      /\ promise' = [m \in Publication |->
               CASE m = job[p].work -> Absent
                 [] m # job[p].work /\ m = head.id -> retained[m].retiredAt
                 [] OTHER -> promise[m]]
      /\ UNCHANGED <<manifests, objects, clock>>
  BY Swing
<1>2. head' = [id |-> job[p].work, revision |-> head.revision + 1]
  BY Swing DEF SwingHead
<1>3. job[p].work \in Readable \ {head.id}
  BY <1>1 DEF Readable, Guarded, Safe, SafeAt, Verified
<1>4. Promises' \subseteq (Promises \cup {head.id}) \ {None, job[p].work}
  <2> SUFFICES ASSUME NEW m \in Promises'
               PROVE  m \in (Promises \cup {head.id}) \ {None, job[p].work}
    OBVIOUS
  <2>1. m \in Publication /\ promise'[m] # Absent
        /\ clock - promise'[m] < RetainedMs
    BY <1>1 DEF Promises
  <2>2. m # job[p].work /\ m # None
    BY <1>1, <2>1, ConstantsAssumption
  <2>3. m # head.id => promise'[m] = promise[m]
    BY <1>1, <2>1, <2>2
  <2> QED
    BY <2>1, <2>2, <2>3 DEF Promises
<1>5. Readable' = Readable
  BY <1>1 DEF Readable, Complete, ClosurePresent
<1> QED
  BY <1>2, <1>3, <1>4, <1>5 DEF Register!Replace, Register!Kept, Readable, Promises

LEMMA RegisterUpkeep ==
  ASSUME Guarded, [Next]_vars, \A p \in Process : ~(SwingHead(p) /\ ~End(p)),
         PromisesKept', HeadComplete'
  PROVE  Register!Upkeep
<1>1. promise' = promise
  BY PromiseChange
<1>2. head' = head
  <2>1. \A p \in Process : End(p) => head' = head
    BY DEF End, documents
  <2> QED
    BY <2>1, HeadChange
<1>3. Promises' \subseteq Promises
  <2> SUFFICES ASSUME NEW m \in Promises' PROVE m \in Promises
    OBVIOUS
  <2>1. m \in Publication /\ Promised(m)'
    BY DEF Promises, Promised
  <2>2. Promised(m)
    BY <1>1, <2>1, StillPromised DEF Guarded, Context, Typing
  <2> QED
    BY <2>1, <2>2 DEF Promises, Promised
<1>4. (Promises' \cup {head.id}) \ {None} \subseteq Readable'
  <2>1. \A m \in Promises' : m \in Readable'
    BY DEF Promises, Readable, PromisesKept, Promised
  <2>2. head.id # None => head.id \in Readable'
    BY <1>2 DEF HeadComplete, Readable, Guarded, Context, Typing, StoreTyped,
                HeadRecord
  <2> QED
    BY <2>1, <2>2
<1>5. Readable' \subseteq Publication
  BY DEF Readable
<1> QED
  BY <1>2, <1>3, <1>4, <1>5 DEF Register!Upkeep, Register!Kept, Readable, Promises

(* Seen from its readers the protocol is a register: whatever becomes       *)
(* visible can be read in full, and so it can for RetainedMs after it was   *)
(* replaced.                                                                *)
THEOREM RegisterImplemented == Spec => ImplementsRegister
<1>1. Guarded /\ [Next]_vars /\ Guarded' => [Register!Next]_(Register!vars)
  <2> SUFFICES ASSUME Guarded, [Next]_vars, Guarded' PROVE Register!Next
    OBVIOUS
  <2>1. CASE \E p \in Process : SwingHead(p) /\ ~End(p)
    BY <2>1, RegisterReplace DEF Register!Next
  <2>2. CASE \A p \in Process : ~(SwingHead(p) /\ ~End(p))
    BY <2>2, RegisterUpkeep DEF Register!Next, Guarded, Safe
  <2> QED
    BY <2>1, <2>2
<1> QED
  BY <1>1, RegisterInit, GuardedInvariant, PTL
     DEF Spec, ImplementsRegister, Register!Spec
=============================================================================
