------------------------------- MODULE Source -------------------------------
(***************************************************************************)
(* The source side of one server that serves and publishes a controlled     *)
(* source (engine.ts, publisher.ts, viewSessions.ts, generator.ts of        *)
(* packages/resources/src): changes of the source and of the content, the   *)
(* debounced and the explicit publications, views and the batches resolved  *)
(* under them, the durable pending marker, crashes and restarts.            *)
(*                                                                          *)
(* Everything but the lookup of a view and the last steps of a scheduled    *)
(* publication that failed runs under the gate of SnapshotGate, which is    *)
(* taken here as what that module establishes: first come first served,     *)
(* readers together, writers alone.  A publication reads the source one     *)
(* resource after another, the render root first and from the engine's copy *)
(* when it has one; the storage calls of its commit are in Publication.     *)
(***************************************************************************)
EXTENDS Integers, Sequences, FiniteSets

CONSTANTS
  Client,      \* concurrent requests
  Callback,    \* publications the timer starts
  Part,        \* the resources of the source
  RootPart,    \* those of the render root
  Asks,        \* what each client asks: "source", "content", "publish", "batch"
  Failures,    \* what may fail: "marker", "operation", "publish", "scheduled", "batch"
  Debounce,    \* debounceMs
  MaxDelay,    \* maxDelayMs
  MaxChanges,  \* bound on the changes of source and content
  MaxCrashes,  \* bound on the crashes
  None

Kinds == {"source", "content", "publish", "batch"}

ASSUME ConstantsAssumption ==
  /\ Client \cap Callback = {} /\ RootPart \subseteq Part
  /\ Asks \in [Client -> SUBSET Kinds]
  /\ Debounce \in Nat /\ MaxDelay \in Nat
  /\ MaxChanges \in Nat /\ MaxCrashes \in Nat
  /\ None \notin Nat \cup Part \cup [generation : Nat, entries : [RootPart -> Nat]]
  /\ None \notin [requires : BOOLEAN] \cup [left : Nat, dirty : Nat]
  /\ None \notin [source : [Part -> Nat], content : Nat]

Job == Client \cup Callback

VARIABLES
  \* the stores
  source,      \* the version of each part of the source
  content,     \* the version of the content
  record,      \* pending/current.json, or None
  head,        \* what is published, or None
  \* the process
  up,          \* the process runs
  generation,  \* InvalidationCoordinator.current
  root,        \* ResourceEngine.root: its generation and the versions of its parts, or None
  requires,    \* state.requiresSourceSnapshot
  timer,       \* publicationTimer and dirtySince, or None
  queue,       \* those that wait at the gate
  pc, job,     \* how far each job is, and its locals
  \* history
  changes,     \* the changes begun so far
  crashes,     \* the crashes so far
  changed,     \* the source was written since it was last published
  tried,       \* the last content a publication tried and failed to publish
  late         \* a record of an earlier failure replaced the marker of a change

stores  == <<source, content, record, head>>
process == <<up, generation, root, requires, timer>>
jobs    == <<queue, pc, job>>
history == <<changes, crashes, changed, tried, late>>
vars    == <<stores, process, jobs, history>>

Unread == [p \in Part |-> None]

(* Locals: what the job is, the version it writes and the parts still to    *)
(* write; the generation it works under, what it has read, and the members  *)
(* its view knows; the part it generates; the flag its record will carry.   *)
Fresh == [kind |-> None, version |-> 0, todo |-> {}, generation |-> 0,
          seen |-> Unread, content |-> 0, known |-> Unread, part |-> None,
          flag |-> FALSE]

Init ==
  /\ source = [p \in Part |-> 0] /\ content = 0
  /\ record = None
  /\ head \in {None, [source |-> source, content |-> 0]}
  /\ up = TRUE /\ generation = 0 /\ root = None /\ requires = FALSE /\ timer = None
  /\ queue = <<>>
  /\ pc = [j \in Job |-> "idle"]
  /\ job = [j \in Job |-> Fresh]
  /\ changes = 0 /\ crashes = 0
  /\ changed = FALSE /\ tried = None /\ late = FALSE

(* Who writes, and who takes a view, under the gate.                        *)
Writing == {j \in Job : pc[j] \in {"marking", "writing", "noting", "rooting", "building",
                                   "built", "asserted", "clearing"}}
Viewing == {j \in Job : pc[j] = "viewing"}

(* The gate lets the first of the queue in: a reader when nobody writes, a  *)
(* writer when nobody is inside.                                            *)
Admitted(j, kinds) ==
  /\ queue # <<>> /\ j = Head(queue)
  /\ job[j].kind \in kinds
  /\ Writing = {}
  /\ job[j].kind # "batch" => Viewing = {}

Goes(j, label) == pc' = [pc EXCEPT ![j] = label]

(* A call arrives at the gate.                                              *)
Queues(j) == queue' = Append(queue, j) /\ Goes(j, "queued")

(* Slip: an operation leaves its locals to the next.                        *)
EndsKeepingLocals(j) == Goes(j, "idle") /\ UNCHANGED job

(* A job settles.                                                           *)
Ends(j) == Goes(j, "idle") /\ job' = [job EXCEPT ![j] = Fresh]

Leaves == queue' = Tail(queue)

(* A request arrives; a change of the source replaces all of its parts.     *)
Call(j, k) ==
  /\ up /\ pc[j] = "idle"
  /\ LET changing == k \in {"source", "content"} IN
       /\ changing => changes < MaxChanges
       /\ changes' = IF changing THEN changes + 1 ELSE changes
       /\ job' = [job EXCEPT ![j] = [Fresh EXCEPT
            !.kind = k, !.version = IF changing THEN changes + 1 ELSE 0,
            !.todo = IF k = "source" THEN Part ELSE {}]]
  /\ Queues(j)
  /\ UNCHANGED <<stores, process, crashes, changed, tried, late>>

-----------------------------------------------------------------------------
(* The debounce timer.                                                      *)

Least(a, b) == IF a <= b THEN a ELSE b

(* Slip: every change puts the publication off once more.                   *)
ScheduledAnew(t, r) ==
  IF r THEN t ELSE [left |-> Debounce, dirty |-> IF t = None THEN 0 ELSE t.dirty]

(* schedule(): armed anew, but no later than MaxDelay after the first       *)
(* unpublished change; not while the source has to be frozen first.         *)
Scheduled(t, r) ==
  IF r THEN t
  ELSE LET dirty == IF t = None THEN 0 ELSE t.dirty IN
         [left |-> Least(Debounce, MaxDelay - dirty), dirty |-> dirty]

Tick ==
  /\ timer # None /\ timer.left > 0
  /\ timer' = [left |-> timer.left - 1, dirty |-> timer.dirty + 1]
  /\ UNCHANGED <<stores, up, generation, root, requires, jobs, history>>

(* The callback of the timer: publish() joins the queue of the gate.        *)
TimerFires(j) ==
  /\ timer # None /\ timer.left = 0
  /\ pc[j] = "idle"
  /\ timer' = None
  /\ IF requires
     THEN UNCHANGED jobs
     ELSE job' = [job EXCEPT ![j] = [Fresh EXCEPT !.kind = "scheduled"]] /\ Queues(j)
  /\ UNCHANGED <<stores, up, generation, root, requires, history>>

-----------------------------------------------------------------------------
(* mutateSource(): the marker is durable before the source is touched.      *)

Invalidates == generation' = generation + 1 /\ root' = None

MutateSource(j) ==
  /\ Admitted(j, {"source"})
  /\ Invalidates
  /\ requires' = TRUE
  /\ Goes(j, "marking") /\ Leaves
  /\ UNCHANGED <<stores, up, timer, job, history>>

Marker(flag) == [requires |-> flag]
Marked(r) == r # None /\ r.requires

MarkerWritten(j) ==
  /\ pc[j] = "marking"
  /\ record' = Marker(TRUE) /\ late' = FALSE
  /\ Goes(j, "writing")
  /\ UNCHANGED <<source, content, head, process, queue, job, changes, crashes, changed, tried>>

(* Slip: as after a content change, the failure is swallowed.               *)
MarkerFailureSwallowed(j) ==
  /\ pc[j] = "marking" /\ "marker" \in Failures
  /\ Goes(j, "writing")
  /\ UNCHANGED <<stores, process, queue, job, history>>

(* pending() throws, having written or not: the operation does not begin.   *)
MarkerFails(j) ==
  /\ pc[j] = "marking" /\ "marker" \in Failures
  /\ record' \in {record, Marker(TRUE)}
  /\ Ends(j)
  /\ UNCHANGED <<source, content, head, process, queue, history>>

WritePart(j, p) ==
  /\ pc[j] = "writing" /\ p \in job[j].todo
  /\ source' = [source EXCEPT ![p] = job[j].version]
  /\ job' = [job EXCEPT ![j].todo = @ \ {p}]
  /\ changed' = TRUE
  /\ UNCHANGED <<content, record, head, process, queue, pc, changes, crashes, tried, late>>

(* The operation ends, well or, with parts not written, badly.              *)
EndMutation(j) ==
  /\ pc[j] = "writing"
  /\ job[j].todo # {} => "operation" \in Failures
  /\ Invalidates
  /\ Ends(j)
  /\ UNCHANGED <<stores, up, requires, timer, queue, history>>

(* A change of the content is committed by its operation.                   *)
MutateContent(j) ==
  /\ Admitted(j, {"content"})
  /\ content' = job[j].version
  /\ Goes(j, "noting") /\ Leaves
  /\ UNCHANGED <<source, record, head, process, job, history>>

(* Its marker is an attempt; the publication is scheduled either way.       *)
ContentNoted(j) ==
  /\ pc[j] = "noting"
  /\ \/ record' = Marker(requires)
     \/ "marker" \in Failures /\ UNCHANGED record
  /\ timer' = Scheduled(timer, requires)
  /\ Ends(j)
  /\ UNCHANGED <<source, content, head, up, generation, root, requires, queue, history>>

-----------------------------------------------------------------------------
(* The render root: the one of this generation, or read anew, its parts one *)
(* after another, by the first that asks; the others wait for that flight.  *)

RootCurrent == root # None /\ root.generation = generation

RenderPart(j, p) ==
  /\ pc[j] \in {"rooting", "viewing"} /\ ~RootCurrent
  /\ p \in RootPart /\ job[j].seen[p] = None
  /\ job' = [job EXCEPT ![j].seen[p] = source[p]]
  /\ UNCHANGED <<stores, process, queue, pc, history>>

KeepRoot(j) ==
  /\ pc[j] \in {"rooting", "viewing"} /\ ~RootCurrent
  /\ \A p \in RootPart : job[j].seen[p] # None
  /\ job[j].generation = generation
  /\ root' = [generation |-> generation, entries |-> [p \in RootPart |-> job[j].seen[p]]]
  /\ UNCHANGED <<stores, up, generation, requires, timer, jobs, history>>

-----------------------------------------------------------------------------
(* A publication, asked for or scheduled.                                   *)

(* Slip: the publication does not wait for the gate.                        *)
BeginUngated(j) ==
  /\ queue # <<>> /\ j = Head(queue) /\ job[j].kind \in {"publish", "scheduled"}
  /\ job' = [job EXCEPT ![j].generation = generation]
  /\ Goes(j, "rooting") /\ Leaves
  /\ UNCHANGED <<stores, process, history>>

Begin(j) ==
  /\ Admitted(j, {"publish", "scheduled"})
  /\ job' = [job EXCEPT ![j].generation = generation]
  /\ Goes(j, "rooting") /\ Leaves
  /\ UNCHANGED <<stores, process, history>>

(* The root of the publication is the one the engine keeps.                 *)
TakeRoot(j) ==
  /\ pc[j] = "rooting" /\ RootCurrent
  /\ job' = [job EXCEPT ![j].seen = [p \in Part |->
                                     IF p \in RootPart THEN root.entries[p] ELSE None]]
  /\ Goes(j, "building")
  /\ UNCHANGED <<stores, process, queue, history>>

ReadPart(j, p) ==
  /\ pc[j] = "building" /\ job[j].seen[p] = None
  /\ job' = [job EXCEPT ![j].seen[p] = source[p]]
  /\ UNCHANGED <<stores, process, queue, pc, history>>

(* The content is read last.                                                *)
ReadContent(j) ==
  /\ pc[j] = "building" /\ \A p \in Part : job[j].seen[p] # None
  /\ job' = [job EXCEPT ![j].content = content]
  /\ Goes(j, "built")
  /\ UNCHANGED <<stores, process, queue, history>>

(* What commit() asks for before it swings the head.                        *)
AssertCurrent(j) ==
  /\ pc[j] = "built" /\ job[j].generation = generation
  /\ Goes(j, "asserted")
  /\ UNCHANGED <<stores, process, queue, job, history>>

Built(j) == [source |-> job[j].seen, content |-> job[j].content]

Commit(j) ==
  /\ pc[j] = "asserted"
  /\ head' = Built(j)
  /\ changed' = FALSE
  /\ Goes(j, "clearing")
  /\ UNCHANGED <<source, content, record, process, queue, job, changes, crashes, tried, late>>

(* The marker is removed, or left when that fails.                          *)
Clear(j) ==
  /\ pc[j] = "clearing"
  /\ record' \in {None} \cup (IF "marker" \in Failures THEN {record} ELSE {})
  /\ requires' = FALSE
  /\ Ends(j)
  /\ UNCHANGED <<source, content, head, up, generation, root, timer, queue, history>>

(* It fails, before the head is swung or, its answer lost, after; who asked *)
(* is told, and the callback of the timer goes on outside the gate.         *)
BuildFails(j) ==
  /\ pc[j] \in {"rooting", "building", "built", "asserted"}
  /\ job[j].generation # generation \/ job[j].kind \in Failures
  /\ head' \in {head} \cup (IF pc[j] = "asserted" THEN {Built(j)} ELSE {})
  /\ changed' = (changed /\ head' = head)
  /\ tried' = content
  /\ IF job[j].kind = "scheduled" THEN Goes(j, "failing") /\ UNCHANGED job ELSE Ends(j)
  /\ UNCHANGED <<source, content, record, process, queue, changes, crashes, late>>

ReportFailure(j) ==
  /\ pc[j] = "failing"
  /\ job' = [job EXCEPT ![j].flag = requires]
  /\ Goes(j, "reporting")
  /\ UNCHANGED <<stores, process, queue, history>>

(* The record of the failure lands when it lands, or not at all.            *)
FailureRecorded(j) ==
  /\ pc[j] = "reporting"
  /\ \/ /\ record' = Marker(job[j].flag)
        /\ late' = (late \/ (Marked(record) /\ ~job[j].flag))
     \/ "marker" \in Failures /\ UNCHANGED <<record, late>>
  /\ Ends(j)
  /\ UNCHANGED <<source, content, head, process, queue, changes, crashes, changed, tried>>

-----------------------------------------------------------------------------
(* Views, and the batches a client resolves under its view.                 *)

(* head(): the root of this generation, whoever rendered it.                *)
BeginView(j) ==
  /\ Admitted(j, {"batch"}) /\ job[j].part = None
  /\ job' = [job EXCEPT ![j].generation = generation]
  /\ Goes(j, "viewing") /\ Leaves
  /\ UNCHANGED <<stores, process, history>>

TakeView(j) ==
  /\ pc[j] = "viewing" /\ RootCurrent
  /\ job' = [job EXCEPT ![j].generation = generation, ![j].seen = Unread]
  /\ Goes(j, "viewed")
  /\ UNCHANGED <<stores, process, queue, history>>

ViewFails(j) ==
  /\ pc[j] = "viewing"
  /\ job[j].generation # generation \/ "batch" \in Failures
  /\ Ends(j)
  /\ UNCHANGED <<stores, process, queue, history>>

(* resolve() looks the view up; one of another generation has expired.      *)
Resolve(j) ==
  /\ pc[j] = "viewed"
  /\ IF job[j].generation = generation THEN Goes(j, "asking") /\ UNCHANGED job ELSE Ends(j)
  /\ UNCHANGED <<stores, process, queue, history>>

(* What the view knows of a member, or else the render root.                *)
Known(j, p) ==
  IF job[j].known[p] # None THEN job[j].known[p]
  ELSE IF p \in RootPart /\ root # None THEN root.entries[p] ELSE None

(* A member that is known is taken, also while another waits for the gate.  *)
Hit(j, p) ==
  /\ pc[j] \in {"asking", "queued"} /\ job[j].kind = "batch"
  /\ pc[j] = "queued" => job[j].part \notin {None, p}
  /\ job[j].seen[p] = None /\ Known(j, p) # None
  /\ job' = [job EXCEPT ![j].seen[p] = Known(j, p), ![j].known[p] = Known(j, p)]
  /\ UNCHANGED <<stores, process, queue, pc, history>>

(* One that is not, or whose body is gone, is generated under the gate.     *)
Ask(j, p) ==
  /\ pc[j] = "asking" /\ job[j].seen[p] = None
  /\ job' = [job EXCEPT ![j].part = p]
  /\ Queues(j)
  /\ UNCHANGED <<stores, process, history>>

Generate(j) ==
  /\ Admitted(j, {"batch"}) /\ job[j].part # None
  /\ LET p == job[j].part IN
       IF job[j].generation = generation
       THEN /\ job' = [job EXCEPT ![j].seen[p] = source[p], ![j].known[p] = source[p],
                                  ![j].part = None]
            /\ Goes(j, "asking")
       ELSE Ends(j)
  /\ Leaves
  /\ UNCHANGED <<stores, process, history>>

(* Slip: the batch is answered without looking at the generation again.     *)
AnswerUnchecked(j) ==
  /\ pc[j] = "asking" /\ \A p \in Part : job[j].seen[p] # None
  /\ job' = [job EXCEPT ![j].seen = Unread]
  /\ Goes(j, "viewed")
  /\ UNCHANGED <<stores, process, queue, history>>

(* The last lines of resolve(): no batch of mixed generations is answered.  *)
Answer(j) ==
  /\ pc[j] = "asking" /\ \A p \in Part : job[j].seen[p] # None
  /\ IF job[j].generation = generation
     THEN job' = [job EXCEPT ![j].seen = Unread] /\ Goes(j, "viewed")
     ELSE Ends(j)
  /\ UNCHANGED <<stores, process, queue, history>>

(* The client asks no more.                                                 *)
Forget(j) ==
  /\ pc[j] = "viewed"
  /\ Ends(j)
  /\ UNCHANGED <<stores, process, queue, history>>

-----------------------------------------------------------------------------
(* The process dies between any two steps, and starts again.                *)
Crash ==
  /\ up /\ crashes < MaxCrashes
  /\ crashes' = crashes + 1
  /\ up' = FALSE /\ generation' = 0 /\ root' = None /\ requires' = FALSE /\ timer' = None
  /\ queue' = <<>> /\ pc' = [j \in Job |-> "idle"] /\ job' = [j \in Job |-> Fresh]
  /\ UNCHANGED <<stores, changes, changed, tried, late>>

(* Slip: only a record left behind makes a restart publish.                 *)
ResumeRecorded ==
  /\ ~up /\ up' = TRUE
  /\ requires' = Marked(record)
  /\ timer' = IF record # None THEN Scheduled(None, requires') ELSE None
  /\ UNCHANGED <<stores, generation, root, jobs, history>>

(* resume(): the marker decides whether a publication may be scheduled.     *)
Resume ==
  /\ ~up /\ up' = TRUE
  /\ requires' = Marked(record)
  /\ timer' = IF record # None \/ head # None THEN Scheduled(None, requires') ELSE None
  /\ UNCHANGED <<stores, generation, root, jobs, history>>

JobStep(j) ==
  \/ MutateSource(j) \/ MarkerWritten(j) \/ MarkerFails(j) \/ EndMutation(j)
  \/ MutateContent(j) \/ ContentNoted(j)
  \/ Begin(j) \/ KeepRoot(j) \/ TakeRoot(j) \/ ReadContent(j) \/ AssertCurrent(j) \/ Commit(j)
  \/ Clear(j) \/ BuildFails(j) \/ ReportFailure(j) \/ FailureRecorded(j)
  \/ BeginView(j) \/ TakeView(j) \/ ViewFails(j) \/ Generate(j) \/ Answer(j)
  \/ \E p \in Part : WritePart(j, p) \/ RenderPart(j, p) \/ ReadPart(j, p) \/ Hit(j, p) \/ Ask(j, p)

Next ==
  \/ \E j \in Client : Resolve(j) \/ Forget(j) \/ \E k \in Asks[j] : Call(j, k)
  \/ \E j \in Callback : TimerFires(j)
  \/ \E j \in Job : JobStep(j)
  \/ Tick \/ Crash \/ Resume

Spec == Init /\ [][Next]_vars

-----------------------------------------------------------------------------
Versions == 0..MaxChanges

Locals == [kind : Kinds \cup {"scheduled", None}, version : Versions, todo : SUBSET Part,
           generation : Nat, seen : [Part -> Versions \cup {None}], content : Versions,
           known : [Part -> Versions \cup {None}], part : Part \cup {None}, flag : BOOLEAN]

StateTyped ==
  /\ source \in [Part -> Versions] /\ content \in Versions
  /\ record \in {None} \cup [requires : BOOLEAN]
  /\ head \in {None} \cup [source : [Part -> Versions], content : Versions]
  /\ up \in BOOLEAN /\ generation \in Nat /\ requires \in BOOLEAN
  /\ root \in {None} \cup [generation : Nat, entries : [RootPart -> Versions]]
  /\ timer \in {None} \cup [left : 0..Debounce, dirty : 0..MaxDelay]
  /\ changes \in Versions /\ crashes \in 0..MaxCrashes
  /\ changed \in BOOLEAN /\ late \in BOOLEAN /\ tried \in Versions \cup {None}

(* A job that has settled leaves nothing to the next.                       *)
JobsTyped ==
  /\ pc \in [Job -> {"idle", "queued", "marking", "writing", "noting", "rooting", "building",
                     "built", "asserted", "clearing", "failing", "reporting", "viewing",
                     "viewed", "asking"}]
  /\ job \in [Job -> Locals]
  /\ \A j \in Job : pc[j] = "idle" => job[j] = Fresh

(* The queue holds jobs that wait, each once.                               *)
QueueExact ==
  /\ queue \in Seq(Job)
  /\ \A i, k \in 1..Len(queue) : queue[i] = queue[k] => i = k
  /\ \A i \in 1..Len(queue) : pc[queue[i]] = "queued"

(* Shapes, what settled jobs leave behind, and the order at the gate.       *)
TypeOK == StateTyped /\ JobsTyped /\ QueueExact

(* No crash, failed marker or failed operation lets a changed source pass   *)
(* for a frozen one: from its first write to its publication the marker     *)
(* that stops the debounced publications is durable, and in force.  One     *)
(* thing undoes it: the record of an older failure that lands after it.     *)
MarkerPrecedesChange ==
  changed /\ ~late => Marked(record) /\ (up => requires)

Answers(j) == pc[j] = "asking" /\ pc[j]' = "viewed"

(* A batch put together across awaits, from what the view knew, the render  *)
(* root and fresh reads, is answered only if all of it is the source as it  *)
(* stands: never mixed, and never in the middle of a change.                *)
AnswersCurrent == [][\A j \in Job : Answers(j) => job[j].seen = source]_vars

(* What becomes the head is the source and content of that moment: though   *)
(* the root was kept from an earlier view or publication, and each resource *)
(* and the content read at a moment of its own, none of it is torn or stale.*)
CommitsCurrent ==
  [][head' # head => head'.source = source /\ head'.content = content]_vars

(* A committed change of the content is never forgotten: until it is        *)
(* published someone is on the way to publish it, or a publication of it    *)
(* was tried and failed, or the source has to be frozen first.              *)
NothingUnscheduled ==
  head # None /\ content # head.content =>
    \/ ~up \/ requires \/ timer # None \/ tried = content
    \/ \E j \in Job :
         \/ pc[j] = "noting"
         \/ /\ job[j].kind \in {"publish", "scheduled"}
            /\ \/ pc[j] \in {"queued", "rooting", "building"}
               \/ pc[j] \in {"built", "asserted"} /\ job[j].content = content

(* Changes that keep coming cannot put a publication off past MaxDelay.     *)
NotPutOff == timer # None => timer.dirty + timer.left <= MaxDelay

(* "This marker ... prevents an unrelated content debounce from publishing  *)
(* a partially synchronized source" (docs/resources.md:101): a publication  *)
(* nobody asked for does not publish a source changed since the last one.   *)
NoPartialPublication ==
  [][\A j \in Callback : pc[j] = "asserted" /\ head' # head => ~changed]_vars
=============================================================================
