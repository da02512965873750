--------------------------- MODULE Source_proofs ---------------------------
(***************************************************************************)
(* What holds of Source for any clients, timer callbacks and parts, any     *)
(* failures and any bounds.                                                 *)
(***************************************************************************)
EXTENDS Source, SequenceTheorems, TLAPS

(* Only one job changes, publishes or notes at a time, and no view is taken *)
(* meanwhile.                                                               *)
Exclusive ==
  /\ \A j, k \in Writing : j = k
  /\ \A j \in Writing : Viewing = {}

(* A process that is down does nothing.                                     *)
Quiet == ~up => timer = None /\ \A j \in Job : pc[j] = "idle"

(* The marker, in memory and in the store, around a change.                 *)
Marks ==
  /\ \A j \in Job : pc[j] = "marking" => requires
  /\ \A j \in Job : pc[j] = "writing" => requires /\ (late \/ Marked(record))
  /\ \A j \in Job : pc[j] = "clearing" => ~changed
  /\ MarkerPrecedesChange

(* What a publication has read is the source until it leaves the gate, and  *)
(* what it committed is the head.                                           *)
SeenTrue(j) == \A p \in Part : job[j].seen[p] \in {None, source[p]}

Builds ==
  /\ \A j \in Job : pc[j] \in {"rooting", "building"} => SeenTrue(j)
  /\ \A j \in Job : pc[j] \in {"built", "asserted"} =>
       Built(j) = [source |-> source, content |-> content]
  /\ \A j \in Job : pc[j] = "clearing" => head = [source |-> source, content |-> content]

(* The jobs that hold a view, and those that wait and have read nothing.    *)
HasView(j) ==
  \/ pc[j] \in {"viewed", "asking"}
  \/ pc[j] = "queued" /\ job[j].kind = "batch" /\ job[j].part # None

Viewless(j) == pc[j] = "queued" /\ (job[j].kind = "batch" => job[j].part = None)

Reads(j) ==
  /\ job[j].generation <= generation
  /\ job[j].generation = generation =>
       \A p \in Part : /\ job[j].seen[p] \in {None, source[p]}
                       /\ job[j].known[p] \in {None, source[p]}

(* What is known of the source under the present generation is true, and    *)
(* nothing is while the source is being changed.                            *)
Views ==
  /\ root # None => \A p \in RootPart : root.entries[p] = source[p]
  /\ \A j \in Job : HasView(j) => Reads(j)
  /\ \A j \in Job : pc[j] \in {"viewing", "viewed", "asking"} => job[j].kind = "batch"
  /\ \A j \in Job : pc[j] = "viewing" => SeenTrue(j) /\ job[j].known = Unread
  /\ \A j \in Job : Viewless(j) => job[j].seen = Unread /\ job[j].known = Unread
  /\ \A k \in Job : pc[k] \in {"marking", "writing"} =>
       root = None /\ \A j \in Job : HasView(j) => job[j].generation < generation

Safe ==
  /\ TypeOK /\ NotPutOff /\ Exclusive /\ Quiet
  /\ Marks /\ Builds /\ Views /\ NothingUnscheduled
-----------------------------------------------------------------------------
(* Shapes.                                                                  *)

Labels == {"idle", "queued", "marking", "writing", "noting", "rooting", "building", "built",
           "asserted", "clearing", "failing", "reporting", "viewing", "viewed", "asking"}

LEMMA FreshTyped ==
  /\ Fresh \in Locals
  /\ Unread \in [Part -> Versions \cup {None}]
  BY ConstantsAssumption DEF Fresh, Locals, Unread, Versions

(* One job goes on, its locals replaced; the others stay.                   *)
LEMMA GoesTyped ==
  ASSUME JobsTyped, NEW j \in Job, NEW label \in Labels, NEW r \in Locals,
         Goes(j, label), job' = [job EXCEPT ![j] = r], label = "idle" => r = Fresh
  PROVE  JobsTyped'
<1>1. pc' \in [Job -> Labels] /\ job' \in [Job -> Locals]
  BY DEF JobsTyped, Goes, Labels
<1>2. \A k \in Job : pc'[k] = "idle" => job'[k] = Fresh
  BY DEF JobsTyped, Goes
<1> QED
  BY <1>1, <1>2 DEF JobsTyped, Labels

LEMMA MovesTyped ==
  ASSUME JobsTyped, NEW j \in Job, NEW label \in Labels \ {"idle"}, Goes(j, label),
    UNCHANGED job
  PROVE  JobsTyped'
  BY DEF JobsTyped, Goes, Labels

LEMMA EndsTyped ==
  ASSUME JobsTyped, NEW j \in Job, Ends(j)
  PROVE  JobsTyped'
  BY GoesTyped, FreshTyped DEF Ends, Labels

LEMMA Appended ==
  ASSUME TypeOK, NEW j \in Job, pc[j] # "queued", Queues(j)
  PROVE  QueueExact'
<1>1. queue' \in Seq(Job) /\ Len(queue') = Len(queue) + 1
  BY DEF TypeOK, QueueExact, Queues
<1>2. \A i \in 1..Len(queue) : queue'[i] = queue[i] /\ queue[i] # j /\ queue[i] \in Job
  BY DEF TypeOK, QueueExact, Queues
<1>3. queue'[Len(queue) + 1] = j
  BY DEF TypeOK, QueueExact, Queues
<1>4. \A k \in Job : pc'[k] = IF k = j THEN "queued" ELSE pc[k]
  BY DEF Queues, Goes, TypeOK, JobsTyped
<1>5. \A i \in 1..Len(queue') : i \in 1..Len(queue) \/ i = Len(queue) + 1
  BY <1>1 DEF TypeOK, QueueExact
<1>6. \A i, k \in 1..Len(queue') : queue'[i] = queue'[k] => i = k
  BY <1>2, <1>3, <1>5 DEF TypeOK, QueueExact
<1>7. \A i \in 1..Len(queue') : pc'[queue'[i]] = "queued"
  BY <1>2, <1>3, <1>4, <1>5 DEF TypeOK, QueueExact
<1> QED
  BY <1>1, <1>6, <1>7 DEF QueueExact

(* Who is admitted waited, and is then no longer in the queue.              *)
LEMMA HeadWaits ==
  ASSUME TypeOK, NEW j, queue # <<>>, j = Head(queue)
  PROVE  j \in Job /\ pc[j] = "queued"
  BY DEF TypeOK, QueueExact

LEMMA Left ==
  ASSUME TypeOK, NEW j, NEW label, queue # <<>>, j = Head(queue), Goes(j, label), Leaves
  PROVE  QueueExact'
<1>1. queue' \in Seq(Job) /\ Len(queue') = Len(queue) - 1
  BY DEF TypeOK, QueueExact, Leaves
<1>2. \A i \in 1..Len(queue') : i + 1 \in 1..Len(queue) /\ queue'[i] = queue[i + 1]
  BY <1>1 DEF TypeOK, QueueExact, Leaves
<1>3. \A i \in 1..Len(queue') : queue'[i] # j
  BY <1>2 DEF TypeOK, QueueExact
<1>4. \A k \in Job : k # j => pc'[k] = pc[k]
  BY DEF Goes, TypeOK, JobsTyped
<1>5. \A i, k \in 1..Len(queue') : queue'[i] = queue'[k] => i = k
  BY <1>2 DEF TypeOK, QueueExact
<1>6. \A i \in 1..Len(queue') : pc'[queue'[i]] = "queued"
  BY <1>2, <1>3, <1>4 DEF TypeOK, QueueExact
<1> QED
  BY <1>1, <1>5, <1>6 DEF QueueExact

LEMMA Stayed ==
  ASSUME TypeOK, NEW j \in Job, NEW label, pc[j] # "queued", Goes(j, label), UNCHANGED queue
  PROVE  QueueExact'
  BY DEF TypeOK, QueueExact, JobsTyped, Goes

-----------------------------------------------------------------------------
(* What the steps have in common.                                           *)

LEMMA Moves ==
  ASSUME TypeOK, NEW j \in Job, NEW label, Goes(j, label)
  PROVE  pc'[j] = label /\ \A k \in Job : k # j => pc'[k] = pc[k]
  BY DEF TypeOK, JobsTyped, Goes

LEMMA Settles ==
  ASSUME TypeOK, NEW j \in Job, Ends(j)
  PROVE  /\ pc'[j] = "idle" /\ job'[j] = Fresh
         /\ \A k \in Job : k # j => pc'[k] = pc[k] /\ job'[k] = job[k]
  BY DEF TypeOK, JobsTyped, Goes, Ends

LEMMA MarkerSays ==
  ASSUME NEW flag
  PROVE  Marker(flag) # None \/ flag \notin BOOLEAN
  BY ConstantsAssumption DEF Marker

(* What is scheduled is scheduled.                                          *)
LEMMA Armed ==
  ASSUME NEW t \in {None} \cup [left : 0..Debounce, dirty : 0..MaxDelay], NEW r, ~r
  PROVE  Scheduled(t, r) # None
<1> DEFINE dirty == IF t = None THEN 0 ELSE t.dirty
           left == Least(Debounce, MaxDelay - dirty)
<1>1. dirty \in Nat /\ left \in Nat
  BY ConstantsAssumption DEF Least
<1>2. [left |-> left, dirty |-> dirty] \in [left : Nat, dirty : Nat]
  BY <1>1
<1>3. [left |-> left, dirty |-> dirty] # None
  BY <1>2, ConstantsAssumption
<1> QED
  BY <1>3 DEF Scheduled

(* A batch that gives its view up leaves everything else as it was.         *)
LEMMA ViewGone ==
  ASSUME Safe, NEW j \in Job, HasView(j), Ends(j), UNCHANGED <<stores, process, history>>
  PROVE  Views' /\ Builds' /\ NothingUnscheduled'
<1>1. /\ pc'[j] = "idle" /\ job'[j] = Fresh
      /\ \A k \in Job : k # j => pc'[k] = pc[k] /\ job'[k] = job[k]
  BY Settles DEF Safe
<1>2. pc[j] \in {"viewed", "asking"} \/ (pc[j] = "queued" /\ job[j].kind = "batch")
  BY DEF HasView
<1>3. Views'
  BY <1>1 DEF Safe, Views, HasView, Viewless, Reads, SeenTrue, stores, process
<1>4. Builds'
  BY <1>1 DEF Safe, Builds, Built, SeenTrue, stores
<1>5. NothingUnscheduled'
  BY <1>1, <1>2 DEF Safe, NothingUnscheduled, stores, process, history
<1> QED
  BY <1>3, <1>4, <1>5

-----------------------------------------------------------------------------
(* One action at a time: it keeps the shapes, and every part of Safe.       *)

(* A request joins the queue.                                               *)
LEMMA CallTyped ==
  ASSUME Safe, NEW j \in Client, NEW k \in Kinds, Call(j, k)
  PROVE  TypeOK'
<1>0. TypeOK
  BY DEF Safe
<1>1. StateTyped'
  <2>1. changes' \in Versions
    BY <1>0, ConstantsAssumption DEF TypeOK, StateTyped, Call, Versions
  <2> QED
    BY <1>0, <2>1 DEF TypeOK, StateTyped, Call, stores, process
<1>2. JobsTyped'
  <2> DEFINE changing == k \in {"source", "content"}
           r == [Fresh EXCEPT !.kind = k, !.version = IF changing THEN changes + 1 ELSE 0,
                              !.todo = IF k = "source" THEN Part ELSE {}]
  <2>1. (IF changing THEN changes + 1 ELSE 0) \in Versions
    BY <1>0, ConstantsAssumption DEF Call, TypeOK, StateTyped, Versions
  <2>2. r \in Locals
    BY <2>1, FreshTyped DEF Locals
  <2>3. Goes(j, "queued") /\ job' = [job EXCEPT ![j] = r]
    BY <1>0 DEF Call, Queues
  <2> QED
    BY <1>0, <2>2, <2>3, GoesTyped DEF TypeOK, Labels, Job
<1>3. QueueExact'
  BY <1>0, Appended DEF Call, TypeOK, Job
<1> QED
  BY <1>1, <1>2, <1>3 DEF TypeOK

LEMMA CallSafe ==
  ASSUME Safe, NEW j \in Client, NEW k \in Kinds, Call(j, k)
  PROVE  Safe'
<1>1. NotPutOff'
  BY DEF Safe, NotPutOff, Call, Goes, Queues, stores, process, Job
<1>2. Exclusive'
  BY DEF Safe, Exclusive, Writing, Viewing, Call, Goes, Queues, stores, process, Job
<1>3. Quiet'
  BY DEF Safe, Quiet, Call, Goes, Queues, stores, process, Job
<1>4. Marks'
  BY DEF Safe, Marks, MarkerPrecedesChange, Marked, Call, Goes, Queues, stores, process, Job
<1>5. Builds'
  BY DEF Safe, Builds, Built, SeenTrue, Call, Goes, Queues, stores, process, Job
<1>6. Views'
  BY ConstantsAssumption DEF Safe, Views, HasView, Viewless, Reads, SeenTrue, TypeOK, JobsTyped,
     Exclusive, Writing, Viewing, StateTyped, Fresh, Locals, Call, Goes, Queues, stores,
     process, Job
<1>7. NothingUnscheduled'
  BY DEF Safe, NothingUnscheduled, Call, Goes, Queues, stores, process, Job
<1> QED
  BY CallTyped, <1>1, <1>2, <1>3, <1>4, <1>5, <1>6, <1>7 DEF Safe

(* Time passes; the delay shrinks as the change ages.                       *)
LEMMA TickTyped ==
  ASSUME Safe, Tick
  PROVE  TypeOK'
<1>0. TypeOK
  BY DEF Safe
<1>1. StateTyped'
  <2>1. timer \in [left : 0..Debounce, dirty : 0..MaxDelay] /\ timer.left > 0
    BY <1>0 DEF TypeOK, StateTyped, Tick
  <2>2. timer.left - 1 \in 0..Debounce
    BY <2>1, ConstantsAssumption
  <2>3. timer.dirty + 1 \in 0..MaxDelay
    BY <2>1, ConstantsAssumption DEF Safe, NotPutOff, Tick
  <2> QED
    BY <1>0, <2>2, <2>3 DEF TypeOK, StateTyped, Tick, stores, history
<1>2. JobsTyped'
  BY <1>0 DEF TypeOK, JobsTyped, Tick, jobs
<1>3. QueueExact'
  BY <1>0 DEF TypeOK, QueueExact, Tick, jobs
<1> QED
  BY <1>1, <1>2, <1>3 DEF TypeOK

LEMMA TickSafe ==
  ASSUME Safe, Tick
  PROVE  Safe'
<1>1. NotPutOff'
  BY ConstantsAssumption DEF Safe, NotPutOff, TypeOK, JobsTyped, Exclusive, Writing, Viewing,
     StateTyped, Fresh, Tick, stores, jobs, history
<1>2. Exclusive'
  BY DEF Safe, Exclusive, Writing, Viewing, Tick, stores, jobs, history
<1>3. Quiet'
  BY DEF Safe, Quiet, Tick, stores, jobs, history
<1>4. Marks'
  BY DEF Safe, Marks, MarkerPrecedesChange, Marked, Tick, stores, jobs, history
<1>5. Builds'
  BY DEF Safe, Builds, Built, SeenTrue, Tick, stores, jobs, history
<1>6. Views'
  BY DEF Safe, Views, HasView, Viewless, Reads, SeenTrue, Tick, stores, jobs, history
<1>7. NothingUnscheduled'
  BY ConstantsAssumption DEF Safe, NothingUnscheduled, TypeOK, JobsTyped, Exclusive,
     Writing, Viewing,
     StateTyped, Fresh, Locals, Tick, stores, jobs, history
<1> QED
  BY TickTyped, <1>1, <1>2, <1>3, <1>4, <1>5, <1>6, <1>7 DEF Safe

(* The timer starts a publication, or is only spent.                        *)
LEMMA TimerFiresTyped ==
  ASSUME Safe, NEW j \in Callback, TimerFires(j)
  PROVE  TypeOK'
<1>0. TypeOK
  BY DEF Safe
<1>1. StateTyped'
  BY <1>0 DEF TypeOK, StateTyped, TimerFires, stores, history
<1>2. JobsTyped'
  <2>1. CASE requires
    BY <1>0, <2>1 DEF TimerFires, TypeOK, JobsTyped, jobs
  <2>2. CASE ~requires
    <3>1. [Fresh EXCEPT !.kind = "scheduled"] \in Locals
      BY <1>0, FreshTyped DEF Locals
    <3> QED
      BY <1>0, <2>2, <3>1, GoesTyped DEF TimerFires, Queues, TypeOK, Labels, Job
  <2> QED
    BY <2>1, <2>2
<1>3. QueueExact'
  <2>1. CASE requires
    BY <1>0, <2>1 DEF TimerFires, TypeOK, QueueExact, jobs
  <2>2. CASE ~requires
    BY <1>0, <2>2, Appended DEF TimerFires, TypeOK, Job
  <2> QED
    BY <2>1, <2>2
<1> QED
  BY <1>1, <1>2, <1>3 DEF TypeOK

LEMMA TimerFiresSafe ==
  ASSUME Safe, NEW j \in Callback, TimerFires(j)
  PROVE  Safe'
<1>1. NotPutOff'
  BY DEF Safe, NotPutOff, TimerFires, Goes, Queues, stores, jobs, history, Job
<1>2. Exclusive'
  BY DEF Safe, Exclusive, Writing, Viewing, TypeOK, JobsTyped, TimerFires, Goes, Queues,
     stores, jobs,
     history, Job
<1>3. Quiet'
  BY DEF Safe, Quiet, TimerFires, Goes, Queues, stores, jobs, history, Job
<1>4. Marks'
  BY DEF Safe, Marks, MarkerPrecedesChange, Marked, TypeOK, JobsTyped, TimerFires, Goes,
     Queues, stores, jobs, history, Job
<1>5. Builds'
  BY DEF Safe, Builds, Built, SeenTrue, TypeOK, JobsTyped, TimerFires, Goes, Queues, stores,
     jobs,
     history, Job
<1>6. Views'
  <2>1. \A k \in Job : HasView(k)' => HasView(k) /\ job'[k] = job[k]
    BY DEF Safe, TimerFires, Queues, Goes, HasView, Fresh, TypeOK, JobsTyped, Job, jobs
  <2>2. \A k \in Job : Viewless(k)' =>
          (Viewless(k) /\ job'[k] = job[k]) \/ (job'[k].seen = Unread /\ job'[k].known = Unread)
    BY DEF Safe, TimerFires, Queues, Goes, Viewless, Fresh, TypeOK, JobsTyped, Job, jobs
  <2>3. \A k \in Job : pc'[k] \in {"marking", "writing", "viewing", "viewed", "asking"} =>
          pc[k] = pc'[k] /\ job'[k] = job[k]
    BY DEF Safe, TimerFires, Queues, Goes, TypeOK, JobsTyped, Job, jobs
  <2>4. \A k \in Job : Viewless(k)' => job'[k].seen = Unread /\ job'[k].known = Unread
    BY <2>2 DEF Safe, Views
  <2> QED
    BY <2>1, <2>3, <2>4 DEF Safe, Views, Reads, SeenTrue, TimerFires, stores
<1>7. NothingUnscheduled'
  BY ConstantsAssumption DEF Safe, NothingUnscheduled, TypeOK, JobsTyped, Exclusive,
     Writing, Viewing,
     StateTyped, Fresh, Locals, TimerFires, Goes, Queues, stores, jobs, history, Job
<1> QED
  BY TimerFiresTyped, <1>1, <1>2, <1>3, <1>4, <1>5, <1>6, <1>7 DEF Safe

(* What was read of the source belongs to an older generation.              *)
LEMMA MutateSourceTyped ==
  ASSUME Safe, NEW j \in Job, MutateSource(j)
  PROVE  TypeOK'
<1>0. TypeOK
  BY DEF Safe
<1>1. StateTyped'
  BY <1>0 DEF TypeOK, StateTyped, MutateSource, Invalidates, stores, history
<1>2. JobsTyped'
  BY <1>0, HeadWaits, MovesTyped DEF MutateSource, Admitted, TypeOK, Labels
<1>3. QueueExact'
  BY <1>0, Left DEF MutateSource, Admitted
<1> QED
  BY <1>1, <1>2, <1>3 DEF TypeOK

LEMMA MutateSourceSafe ==
  ASSUME Safe, NEW j \in Job, MutateSource(j)
  PROVE  Safe'
<1>1. NotPutOff'
  BY DEF Safe, NotPutOff, MutateSource, Goes, Admitted, Invalidates, stores, history
<1>2. Exclusive'
  BY DEF Safe, Exclusive, Writing, Viewing, MutateSource, Goes, Admitted, Invalidates,
     stores, history
<1>3. Quiet'
  BY ConstantsAssumption DEF Safe, Quiet, TypeOK, StateTyped, JobsTyped, QueueExact,
     MutateSource, Goes, Admitted, Invalidates, stores, history
<1>4. Marks'
  BY DEF Safe, Marks, MarkerPrecedesChange, Marked, MutateSource, Goes, Admitted,
     Invalidates, stores, history
<1>5. Builds'
  BY DEF Safe, Builds, Built, SeenTrue, MutateSource, Goes, Admitted, Invalidates, stores,
     history
<1>6. Views'
  BY ConstantsAssumption DEF Safe, Views, HasView, Viewless, Reads, SeenTrue, TypeOK, JobsTyped,
     Exclusive, Writing, Viewing, StateTyped, Fresh, Locals, MutateSource, Goes, Admitted,
     Invalidates,
     stores, history
<1>7. NothingUnscheduled'
  BY DEF Safe, NothingUnscheduled, MutateSource, Goes, Admitted, Invalidates, stores, history
<1> QED
  BY MutateSourceTyped, <1>1, <1>2, <1>3, <1>4, <1>5, <1>6, <1>7 DEF Safe

(* The marker is durable before the first write.                            *)
LEMMA MarkerWrittenTyped ==
  ASSUME Safe, NEW j \in Job, MarkerWritten(j)
  PROVE  TypeOK'
<1>0. TypeOK
  BY DEF Safe
<1>1. StateTyped'
  BY <1>0 DEF TypeOK, StateTyped, MarkerWritten, Marker, process
<1>2. JobsTyped'
  BY <1>0, MovesTyped DEF MarkerWritten, TypeOK, Labels
<1>3. QueueExact'
  BY <1>0, Stayed DEF MarkerWritten, Ends
<1> QED
  BY <1>1, <1>2, <1>3 DEF TypeOK

LEMMA MarkerWrittenSafe ==
  ASSUME Safe, NEW j \in Job, MarkerWritten(j)
  PROVE  Safe'
<1>1. NotPutOff'
  BY DEF Safe, NotPutOff, MarkerWritten, Goes, process
<1>2. Exclusive'
  BY DEF Safe, Exclusive, Writing, Viewing, MarkerWritten, Goes, process
<1>3. Quiet'
  BY DEF Safe, Quiet, MarkerWritten, Goes, process
<1>4. Marks'
  <2>1. Marked(record) \in BOOLEAN /\ Marked(record)'
    BY MarkerSays DEF MarkerWritten, Marker, Marked
  <2> QED
    BY <2>1 DEF Safe, Marks, MarkerPrecedesChange, MarkerWritten, Goes, Exclusive, Writing,
       Viewing,
       TypeOK, JobsTyped, process
<1>5. Builds'
  BY DEF Safe, Builds, Built, SeenTrue, MarkerWritten, Goes, process
<1>6. Views'
  BY DEF Safe, Views, HasView, Viewless, Reads, SeenTrue, MarkerWritten, Goes, process
<1>7. NothingUnscheduled'
  BY DEF Safe, NothingUnscheduled, MarkerWritten, Goes, process
<1> QED
  BY MarkerWrittenTyped, <1>1, <1>2, <1>3, <1>4, <1>5, <1>6, <1>7 DEF Safe

(* Without its marker the change does not begin.                            *)
LEMMA MarkerFailsTyped ==
  ASSUME Safe, NEW j \in Job, MarkerFails(j)
  PROVE  TypeOK'
<1>0. TypeOK
  BY DEF Safe
<1>1. StateTyped'
  <2>1. record' \in {None} \cup [requires : BOOLEAN]
    <3>1. Marker(TRUE) \in [requires : BOOLEAN]
      BY <1>0 DEF Marker
    <3>2. record' = record \/ record' = Marker(TRUE)
      BY <1>0 DEF MarkerFails
    <3> QED
      BY <1>0, <3>1, <3>2 DEF TypeOK, StateTyped
  <2> QED
    BY <1>0, <2>1 DEF TypeOK, StateTyped, MarkerFails, process, history
<1>2. JobsTyped'
  BY <1>0, EndsTyped DEF MarkerFails, TypeOK
<1>3. QueueExact'
  BY <1>0, Stayed DEF MarkerFails, Ends
<1> QED
  BY <1>1, <1>2, <1>3 DEF TypeOK

LEMMA MarkerFailsSafe ==
  ASSUME Safe, NEW j \in Job, MarkerFails(j)
  PROVE  Safe'
<1>1. NotPutOff'
  BY DEF Safe, NotPutOff, MarkerFails, Goes, Ends, process, history
<1>2. Exclusive'
  BY DEF Safe, Exclusive, Writing, Viewing, MarkerFails, Goes, Ends, process, history
<1>3. Quiet'
  BY DEF Safe, Quiet, MarkerFails, Goes, Ends, process, history
<1>4. Marks'
  BY ConstantsAssumption DEF Safe, Marks, MarkerPrecedesChange, Marked, Marker, Exclusive,
     Writing, Viewing, TypeOK, StateTyped, JobsTyped, MarkerFails, Goes, Ends, process, history
<1>5. Builds'
  BY DEF Safe, Builds, Built, SeenTrue, MarkerFails, Goes, Ends, process, history
<1>6. Views'
  BY DEF Safe, Views, HasView, Viewless, Reads, SeenTrue, MarkerFails, Goes, Ends, process,
     history
<1>7. NothingUnscheduled'
  BY DEF Safe, NothingUnscheduled, MarkerFails, Goes, Ends, process, history
<1> QED
  BY MarkerFailsTyped, <1>1, <1>2, <1>3, <1>4, <1>5, <1>6, <1>7 DEF Safe

(* A part is written while nobody can rely on it.                           *)
LEMMA WritePartTyped ==
  ASSUME Safe, NEW j \in Job, NEW p \in Part, WritePart(j, p)
  PROVE  TypeOK'
<1>0. TypeOK
  BY DEF Safe
<1>1. StateTyped'
  BY <1>0 DEF TypeOK, StateTyped, JobsTyped, Locals, WritePart, process
<1>2. JobsTyped'
  <2> DEFINE r == [job[j] EXCEPT !.todo = @ \ {p}]
  <2>1. r \in Locals
    BY <1>0 DEF TypeOK, JobsTyped, Locals
  <2>2. job' = [job EXCEPT ![j] = r]
    BY <1>0 DEF WritePart
  <2> QED
    BY <1>0, <2>1, <2>2 DEF WritePart, TypeOK, JobsTyped
<1>3. QueueExact'
  BY <1>0 DEF WritePart, TypeOK, QueueExact
<1> QED
  BY <1>1, <1>2, <1>3 DEF TypeOK

LEMMA WritePartSafe ==
  ASSUME Safe, NEW j \in Job, NEW p \in Part, WritePart(j, p)
  PROVE  Safe'
<1>1. NotPutOff'
  BY DEF Safe, NotPutOff, WritePart, process
<1>2. Exclusive'
  BY DEF Safe, Exclusive, Writing, Viewing, WritePart, process
<1>3. Quiet'
  BY DEF Safe, Quiet, WritePart, process
<1>4. Marks'
  BY ConstantsAssumption DEF Safe, Marks, MarkerPrecedesChange, Marked, TypeOK, JobsTyped,
     Exclusive, Writing, Viewing, StateTyped, Fresh, WritePart, process
<1>5. Builds'
  BY ConstantsAssumption DEF Safe, Builds, Built, SeenTrue, TypeOK, JobsTyped, Exclusive,
     Writing, Viewing,
     StateTyped, Fresh, Locals, WritePart, process
<1>6. Views'
  BY ConstantsAssumption DEF Safe, Views, HasView, Viewless, Reads, SeenTrue, TypeOK, JobsTyped,
     Exclusive, Writing, Viewing, StateTyped, Fresh, Locals, WritePart, process
<1>7. NothingUnscheduled'
  BY DEF Safe, NothingUnscheduled, WritePart, process
<1> QED
  BY WritePartTyped, <1>1, <1>2, <1>3, <1>4, <1>5, <1>6, <1>7 DEF Safe

(* The change ends with a generation of its own.                            *)
LEMMA EndMutationTyped ==
  ASSUME Safe, NEW j \in Job, EndMutation(j)
  PROVE  TypeOK'
<1>0. TypeOK
  BY DEF Safe
<1>1. StateTyped'
  BY <1>0 DEF TypeOK, StateTyped, EndMutation, Invalidates, stores, history
<1>2. JobsTyped'
  BY <1>0, EndsTyped DEF EndMutation, TypeOK
<1>3. QueueExact'
  BY <1>0, Stayed DEF EndMutation, Ends
<1> QED
  BY <1>1, <1>2, <1>3 DEF TypeOK

LEMMA EndMutationSafe ==
  ASSUME Safe, NEW j \in Job, EndMutation(j)
  PROVE  Safe'
<1>1. NotPutOff'
  BY DEF Safe, NotPutOff, EndMutation, Goes, Ends, Invalidates, stores, history
<1>2. Exclusive'
  BY DEF Safe, Exclusive, Writing, Viewing, EndMutation, Goes, Ends, Invalidates, stores,
     history
<1>3. Quiet'
  BY DEF Safe, Quiet, EndMutation, Goes, Ends, Invalidates, stores, history
<1>4. Marks'
  BY DEF Safe, Marks, MarkerPrecedesChange, Marked, EndMutation, Goes, Ends, Invalidates,
     stores, history
<1>5. Builds'
  BY DEF Safe, Builds, Built, SeenTrue, EndMutation, Goes, Ends, Invalidates, stores, history
<1>6. Views'
  BY ConstantsAssumption DEF Safe, Views, HasView, Viewless, Reads, SeenTrue, TypeOK, JobsTyped,
     Exclusive, Writing, Viewing, StateTyped, Fresh, Locals, EndMutation, Goes, Ends,
     Invalidates,
     stores, history
<1>7. NothingUnscheduled'
  BY DEF Safe, NothingUnscheduled, EndMutation, Goes, Ends, Invalidates, stores, history
<1> QED
  BY EndMutationTyped, <1>1, <1>2, <1>3, <1>4, <1>5, <1>6, <1>7 DEF Safe

(* The content is committed, and will be noted.                             *)
LEMMA MutateContentTyped ==
  ASSUME Safe, NEW j \in Job, MutateContent(j)
  PROVE  TypeOK'
<1>0. TypeOK
  BY DEF Safe
<1>1. StateTyped'
  BY <1>0, HeadWaits DEF TypeOK, StateTyped, JobsTyped, Locals, MutateContent, Admitted,
     process, history
<1>2. JobsTyped'
  BY <1>0, HeadWaits, MovesTyped DEF MutateContent, Admitted, TypeOK, Labels
<1>3. QueueExact'
  BY <1>0, Left DEF MutateContent, Admitted
<1> QED
  BY <1>1, <1>2, <1>3 DEF TypeOK

LEMMA MutateContentSafe ==
  ASSUME Safe, NEW j \in Job, MutateContent(j)
  PROVE  Safe'
<1>1. NotPutOff'
  BY DEF Safe, NotPutOff, MutateContent, Goes, Admitted, process, history
<1>2. Exclusive'
  BY DEF Safe, Exclusive, Writing, Viewing, MutateContent, Goes, Admitted, process, history
<1>3. Quiet'
  BY ConstantsAssumption DEF Safe, Quiet, TypeOK, StateTyped, JobsTyped, QueueExact,
     MutateContent, Goes, Admitted, process, history
<1>4. Marks'
  BY DEF Safe, Marks, MarkerPrecedesChange, Marked, MutateContent, Goes, Admitted, process,
     history
<1>5. Builds'
  BY ConstantsAssumption DEF Safe, Builds, Built, SeenTrue, TypeOK, JobsTyped, Exclusive,
     Writing, Viewing,
     StateTyped, Fresh, Locals, MutateContent, Goes, Admitted, process, history
<1>6. Views'
  BY DEF Safe, Views, HasView, Viewless, Reads, SeenTrue, MutateContent, Goes, Admitted,
     process, history
<1>7. NothingUnscheduled'
  BY DEF Safe, NothingUnscheduled, TypeOK, JobsTyped, MutateContent, Goes, Admitted, process,
     history
<1> QED
  BY MutateContentTyped, <1>1, <1>2, <1>3, <1>4, <1>5, <1>6, <1>7 DEF Safe

(* Its publication is scheduled unless the source has to be frozen.         *)
LEMMA ContentNotedTyped ==
  ASSUME Safe, NEW j \in Job, ContentNoted(j)
  PROVE  TypeOK'
<1>0. TypeOK
  BY DEF Safe
<1>1. StateTyped'
  BY <1>0, ConstantsAssumption DEF TypeOK, StateTyped, ContentNoted, Marker, Scheduled,
     Least, history
<1>2. JobsTyped'
  BY <1>0, EndsTyped DEF ContentNoted, TypeOK
<1>3. QueueExact'
  BY <1>0, Stayed DEF ContentNoted, Ends
<1> QED
  BY <1>1, <1>2, <1>3 DEF TypeOK

LEMMA ContentNotedSafe ==
  ASSUME Safe, NEW j \in Job, ContentNoted(j)
  PROVE  Safe'
<1>1. NotPutOff'
  BY ConstantsAssumption DEF Safe, NotPutOff, Scheduled, Least, StateTyped, TypeOK,
     ContentNoted, Goes, Ends, history
<1>2. Exclusive'
  BY DEF Safe, Exclusive, Writing, Viewing, ContentNoted, Goes, Ends, history
<1>3. Quiet'
  BY DEF Safe, Quiet, ContentNoted, Goes, Ends, history
<1>4. Marks'
  <2>1. requires /\ Marked(record) => Marked(record)'
    BY MarkerSays DEF Safe, TypeOK, StateTyped, ContentNoted, Marker, Marked
  <2>2. up
    BY DEF Safe, Quiet, ContentNoted, TypeOK, StateTyped
  <2>3. pc'[j] = "idle" /\ \A k \in Job : pc'[k] # "writing"
    BY DEF Safe, ContentNoted, Ends, Goes, Exclusive, Writing, Viewing, TypeOK, JobsTyped
  <2> QED
    BY <2>1, <2>2, <2>3 DEF Safe, Marks, MarkerPrecedesChange, ContentNoted, Ends, Goes,
       TypeOK, JobsTyped, history
<1>5. Builds'
  BY DEF Safe, Builds, Built, SeenTrue, ContentNoted, Goes, Ends, history
<1>6. Views'
  BY DEF Safe, Views, HasView, Viewless, Reads, SeenTrue, ContentNoted, Goes, Ends, history
<1>7. NothingUnscheduled'
  <2>1. requires' \/ timer' # None
    BY Armed DEF Safe, TypeOK, StateTyped, ContentNoted
  <2> QED
    BY <2>1 DEF NothingUnscheduled
<1> QED
  BY ContentNotedTyped, <1>1, <1>2, <1>3, <1>4, <1>5, <1>6, <1>7 DEF Safe

(* A part of the render root is read.                                       *)
LEMMA RenderPartTyped ==
  ASSUME Safe, NEW j \in Job, NEW p \in Part, RenderPart(j, p)
  PROVE  TypeOK'
<1>0. TypeOK
  BY DEF Safe
<1>1. StateTyped'
  BY <1>0 DEF TypeOK, StateTyped, RenderPart, stores, process, history
<1>2. JobsTyped'
  <2>1. job[j] \in Locals
    BY <1>0 DEF RenderPart, TypeOK, JobsTyped
  <2> DEFINE r == [job[j] EXCEPT !.seen[p] = source[p]]
  <2>2. r \in Locals
    BY <1>0, <2>1 DEF TypeOK, StateTyped, Locals
  <2>3. job' = [job EXCEPT ![j] = r]
    BY <2>1 DEF RenderPart
  <2> QED
    BY <1>0, <2>2, <2>3 DEF RenderPart, TypeOK, JobsTyped
<1>3. QueueExact'
  BY <1>0 DEF RenderPart, TypeOK, QueueExact
<1> QED
  BY <1>1, <1>2, <1>3 DEF TypeOK

LEMMA RenderPartSafe ==
  ASSUME Safe, NEW j \in Job, NEW p \in Part, RenderPart(j, p)
  PROVE  Safe'
<1>1. NotPutOff'
  BY DEF Safe, NotPutOff, TypeOK, JobsTyped, RenderPart, Locals, stores, process, history
<1>2. Exclusive'
  BY DEF Safe, Exclusive, Writing, Viewing, TypeOK, JobsTyped, RenderPart, Locals, stores,
     process, history
<1>3. Quiet'
  BY DEF Safe, Quiet, TypeOK, JobsTyped, RenderPart, Locals, stores, process, history
<1>4. Marks'
  BY DEF Safe, Marks, MarkerPrecedesChange, Marked, TypeOK, JobsTyped, RenderPart, Locals,
     stores, process, history
<1>5. Builds'
  BY DEF Safe, Builds, Built, SeenTrue, TypeOK, JobsTyped, RenderPart, Locals, stores,
     process, history
<1>6. Views'
  BY DEF Safe, Views, HasView, Viewless, Reads, SeenTrue, TypeOK, JobsTyped, RenderPart,
     Locals, stores, process, history
<1>7. NothingUnscheduled'
  BY DEF Safe, NothingUnscheduled, TypeOK, JobsTyped, RenderPart, Locals, stores, process,
     history
<1> QED
  BY RenderPartTyped, <1>1, <1>2, <1>3, <1>4, <1>5, <1>6, <1>7 DEF Safe

(* What was rendered is kept for this generation.                           *)
LEMMA KeepRootTyped ==
  ASSUME Safe, NEW j \in Job, KeepRoot(j)
  PROVE  TypeOK'
<1>0. TypeOK
  BY DEF Safe
<1>1. StateTyped'
  <2>1. job[j].seen \in [Part -> Versions \cup {None}]
    BY <1>0 DEF TypeOK, JobsTyped, Locals
  <2>2. [p \in RootPart |-> job[j].seen[p]] \in [RootPart -> Versions]
    BY <2>1, ConstantsAssumption DEF KeepRoot
  <2> QED
    BY <1>0, <2>2 DEF TypeOK, StateTyped, KeepRoot, stores, history
<1>2. JobsTyped'
  BY <1>0 DEF TypeOK, JobsTyped, KeepRoot, jobs
<1>3. QueueExact'
  BY <1>0 DEF TypeOK, QueueExact, KeepRoot, jobs
<1> QED
  BY <1>1, <1>2, <1>3 DEF TypeOK

LEMMA KeepRootSafe ==
  ASSUME Safe, NEW j \in Job, KeepRoot(j)
  PROVE  Safe'
<1>1. NotPutOff'
  BY DEF Safe, NotPutOff, TypeOK, JobsTyped, KeepRoot, stores, jobs, history
<1>2. Exclusive'
  BY DEF Safe, Exclusive, Writing, Viewing, TypeOK, JobsTyped, KeepRoot, stores, jobs, history
<1>3. Quiet'
  BY DEF Safe, Quiet, TypeOK, JobsTyped, KeepRoot, stores, jobs, history
<1>4. Marks'
  BY DEF Safe, Marks, MarkerPrecedesChange, Marked, TypeOK, JobsTyped, KeepRoot, stores,
     jobs, history
<1>5. Builds'
  BY DEF Safe, Builds, Built, SeenTrue, TypeOK, JobsTyped, KeepRoot, stores, jobs, history
<1>6. Views'
  <2>1. SeenTrue(j) /\ \A p \in RootPart : job[j].seen[p] # None
    BY DEF Safe, Builds, Views, KeepRoot
  <2>2. \A p \in RootPart : root'.entries[p] = source[p]
    BY <2>1, ConstantsAssumption DEF SeenTrue, KeepRoot
  <2>3. \A k \in Job : pc[k] \notin {"marking", "writing"}
    BY DEF Safe, Exclusive, Writing, Viewing, KeepRoot
  <2> QED
    BY <2>2, <2>3 DEF Safe, Views, HasView, Viewless, Reads, SeenTrue, KeepRoot, stores, jobs
<1>7. NothingUnscheduled'
  BY DEF Safe, NothingUnscheduled, TypeOK, JobsTyped, KeepRoot, stores, jobs, history
<1> QED
  BY KeepRootTyped, <1>1, <1>2, <1>3, <1>4, <1>5, <1>6, <1>7 DEF Safe

(* A publication begins alone, having read nothing.                         *)
LEMMA BeginTyped ==
  ASSUME Safe, NEW j \in Job, Begin(j)
  PROVE  TypeOK'
<1>0. TypeOK
  BY DEF Safe
<1>1. StateTyped'
  BY <1>0 DEF TypeOK, StateTyped, Begin, stores, process, history
<1>2. JobsTyped'
  <2>1. job[j] \in Locals /\ pc[j] = "queued"
    BY <1>0, HeadWaits DEF Begin, Admitted, TypeOK, JobsTyped
  <2> DEFINE r == [job[j] EXCEPT !.generation = generation]
  <2>2. r \in Locals
    BY <1>0, <2>1 DEF TypeOK, StateTyped, Locals
  <2>3. job' = [job EXCEPT ![j] = r] /\ Goes(j, "rooting")
    BY <2>1 DEF Begin
  <2> QED
    BY <1>0, <2>2, <2>3, GoesTyped DEF TypeOK, Labels
<1>3. QueueExact'
  BY <1>0, Left DEF Begin, Admitted
<1> QED
  BY <1>1, <1>2, <1>3 DEF TypeOK

LEMMA BeginSafe ==
  ASSUME Safe, NEW j \in Job, Begin(j)
  PROVE  Safe'
<1>1. NotPutOff'
  BY DEF Safe, NotPutOff, TypeOK, JobsTyped, Begin, Goes, Admitted, stores, process, history
<1>2. Exclusive'
  BY DEF Safe, Exclusive, Writing, Viewing, TypeOK, JobsTyped, Begin, Goes, Admitted,
     stores, process, history
<1>3. Quiet'
  BY ConstantsAssumption DEF Safe, Quiet, TypeOK, StateTyped, JobsTyped, QueueExact, Begin,
     Goes, Admitted, stores, process, history
<1>4. Marks'
  BY DEF Safe, Marks, MarkerPrecedesChange, Marked, TypeOK, JobsTyped, Begin, Goes,
     Admitted, stores, process, history
<1>5. Builds'
  <2>1. /\ pc'[j] = "rooting"
        /\ \A k \in Job : k # j => pc'[k] = pc[k] /\ job'[k] = job[k]
    BY Moves, HeadWaits DEF Safe, Begin, Admitted, TypeOK, JobsTyped
  <2>2. Viewless(j)
    BY HeadWaits DEF Safe, Begin, Admitted, Viewless
  <2>3. job[j].seen = Unread /\ job[j].known = Unread
    BY <2>2 DEF Safe, Views
  <2>4. job'[j].seen = Unread /\ job'[j].known = Unread
    BY <2>3 DEF Safe, Begin, TypeOK, JobsTyped, Locals
  <2>5. SeenTrue(j)'
    BY <2>4 DEF SeenTrue, Unread
  <2> QED
    BY <2>1, <2>5 DEF Safe, Builds, Built, SeenTrue, Begin, stores
<1>6. Views'
  <2>1. /\ pc'[j] = "rooting" /\ pc[j] = "queued"
        /\ \A k \in Job : k # j => pc'[k] = pc[k] /\ job'[k] = job[k]
    BY Moves, HeadWaits DEF Safe, Begin, Admitted, TypeOK, JobsTyped
  <2>2. \A k \in Job : pc'[k] \notin {"marking", "writing"}
    BY <2>1 DEF Begin, Admitted, Writing
  <2>3. \A k \in Job : HasView(k)' => k # j /\ HasView(k)
    BY <2>1 DEF HasView
  <2>4. \A k \in Job : Viewless(k)' => k # j /\ Viewless(k)
    BY <2>1 DEF Viewless
  <2> QED
    BY <2>1, <2>2, <2>3, <2>4 DEF Safe, Views, Reads, SeenTrue, Begin, stores, process
<1>7. NothingUnscheduled'
  BY DEF Safe, NothingUnscheduled, TypeOK, JobsTyped, Begin, Goes, Admitted, stores,
     process, history
<1> QED
  BY BeginTyped, <1>1, <1>2, <1>3, <1>4, <1>5, <1>6, <1>7 DEF Safe

(* The root it publishes is the one kept, which is true.                    *)
LEMMA TakeRootTyped ==
  ASSUME Safe, NEW j \in Job, TakeRoot(j)
  PROVE  TypeOK'
<1>0. TypeOK
  BY DEF Safe
<1>1. StateTyped'
  BY <1>0 DEF TypeOK, StateTyped, TakeRoot, stores, process, history
<1>2. JobsTyped'
  <2>1. root.entries \in [RootPart -> Versions]
    BY <1>0 DEF TypeOK, StateTyped, TakeRoot, RootCurrent
  <2> DEFINE e == [p \in Part |-> IF p \in RootPart THEN root.entries[p] ELSE None]
             r == [job[j] EXCEPT !.seen = e]
  <2>2. e \in [Part -> Versions \cup {None}]
    BY <2>1
  <2>3. r \in Locals
    BY <1>0, <2>2 DEF TypeOK, JobsTyped, Locals
  <2>4. job' = [job EXCEPT ![j] = r] /\ Goes(j, "building")
    BY <1>0 DEF TakeRoot
  <2> HIDE DEF r
  <2> QED
    BY <1>0, <2>3, <2>4, GoesTyped DEF TypeOK, Labels
<1>3. QueueExact'
  BY <1>0, Stayed DEF TakeRoot
<1> QED
  BY <1>1, <1>2, <1>3 DEF TypeOK

LEMMA TakeRootSafe ==
  ASSUME Safe, NEW j \in Job, TakeRoot(j)
  PROVE  Safe'
<1>1. NotPutOff'
  BY DEF Safe, NotPutOff, TypeOK, JobsTyped, TakeRoot, Goes, stores, process, history
<1>2. Exclusive'
  BY DEF Safe, Exclusive, Writing, Viewing, TypeOK, JobsTyped, TakeRoot, Goes, stores,
     process, history
<1>3. Quiet'
  BY DEF Safe, Quiet, TypeOK, JobsTyped, TakeRoot, Goes, stores, process, history
<1>4. Marks'
  BY DEF Safe, Marks, MarkerPrecedesChange, Marked, TypeOK, JobsTyped, TakeRoot, Goes,
     stores, process, history
<1>5. Builds'
  <2>1. /\ pc'[j] = "building"
        /\ \A k \in Job : k # j => pc'[k] = pc[k] /\ job'[k] = job[k]
    BY Moves DEF Safe, TakeRoot, TypeOK, JobsTyped
  <2>2. job'[j].seen = [p \in Part |-> IF p \in RootPart THEN root.entries[p] ELSE None]
    BY DEF Safe, TakeRoot, TypeOK, JobsTyped, Locals
  <2>3. SeenTrue(j)'
    BY <2>2 DEF Safe, Views, SeenTrue, TakeRoot, RootCurrent, stores
  <2> QED
    BY <2>1, <2>3 DEF Safe, Builds, Built, SeenTrue, TakeRoot, stores
<1>6. Views'
  BY DEF Safe, Views, HasView, Viewless, Reads, SeenTrue, TypeOK, JobsTyped, TakeRoot, Goes,
     stores, process, history
<1>7. NothingUnscheduled'
  BY DEF Safe, NothingUnscheduled, TypeOK, JobsTyped, TakeRoot, Goes, stores, process, history
<1> QED
  BY TakeRootTyped, <1>1, <1>2, <1>3, <1>4, <1>5, <1>6, <1>7 DEF Safe

(* Another resource is read.                                                *)
LEMMA ReadPartTyped ==
  ASSUME Safe, NEW j \in Job, NEW p \in Part, ReadPart(j, p)
  PROVE  TypeOK'
<1>0. TypeOK
  BY DEF Safe
<1>1. StateTyped'
  BY <1>0 DEF TypeOK, StateTyped, ReadPart, stores, process, history
<1>2. JobsTyped'
  <2>1. job[j] \in Locals
    BY <1>0 DEF ReadPart, TypeOK, JobsTyped
  <2> DEFINE r == [job[j] EXCEPT !.seen[p] = source[p]]
  <2>2. r \in Locals
    BY <1>0, <2>1 DEF TypeOK, StateTyped, Locals
  <2>3. job' = [job EXCEPT ![j] = r]
    BY <2>1 DEF ReadPart
  <2> QED
    BY <1>0, <2>2, <2>3 DEF ReadPart, TypeOK, JobsTyped
<1>3. QueueExact'
  BY <1>0 DEF ReadPart, TypeOK, QueueExact
<1> QED
  BY <1>1, <1>2, <1>3 DEF TypeOK

LEMMA ReadPartSafe ==
  ASSUME Safe, NEW j \in Job, NEW p \in Part, ReadPart(j, p)
  PROVE  Safe'
<1>1. NotPutOff'
  BY DEF Safe, NotPutOff, TypeOK, JobsTyped, ReadPart, Locals, stores, process, history
<1>2. Exclusive'
  BY DEF Safe, Exclusive, Writing, Viewing, TypeOK, JobsTyped, ReadPart, Locals, stores,
     process, history
<1>3. Quiet'
  BY DEF Safe, Quiet, TypeOK, JobsTyped, ReadPart, Locals, stores, process, history
<1>4. Marks'
  BY DEF Safe, Marks, MarkerPrecedesChange, Marked, TypeOK, JobsTyped, ReadPart, Locals,
     stores, process, history
<1>5. Builds'
  BY DEF Safe, Builds, Built, SeenTrue, TypeOK, JobsTyped, ReadPart, Locals, stores,
     process, history
<1>6. Views'
  BY DEF Safe, Views, HasView, Viewless, Reads, SeenTrue, TypeOK, JobsTyped, ReadPart,
     Locals, stores, process, history
<1>7. NothingUnscheduled'
  BY DEF Safe, NothingUnscheduled, TypeOK, JobsTyped, ReadPart, Locals, stores, process, history
<1> QED
  BY ReadPartTyped, <1>1, <1>2, <1>3, <1>4, <1>5, <1>6, <1>7 DEF Safe

(* What is read is whole, and is the source.                                *)
LEMMA ReadContentTyped ==
  ASSUME Safe, NEW j \in Job, ReadContent(j)
  PROVE  TypeOK'
<1>0. TypeOK
  BY DEF Safe
<1>1. StateTyped'
  BY <1>0 DEF TypeOK, StateTyped, ReadContent, stores, process, history
<1>2. JobsTyped'
  <2>1. job[j] \in Locals
    BY <1>0 DEF ReadContent, TypeOK, JobsTyped
  <2> DEFINE r == [job[j] EXCEPT !.content = content]
  <2>2. r \in Locals
    BY <1>0, <2>1 DEF TypeOK, StateTyped, Locals
  <2>3. job' = [job EXCEPT ![j] = r] /\ Goes(j, "built")
    BY <2>1 DEF ReadContent
  <2> QED
    BY <1>0, <2>2, <2>3, GoesTyped DEF TypeOK, Labels
<1>3. QueueExact'
  BY <1>0, Stayed DEF ReadContent
<1> QED
  BY <1>1, <1>2, <1>3 DEF TypeOK

LEMMA ReadContentSafe ==
  ASSUME Safe, NEW j \in Job, ReadContent(j)
  PROVE  Safe'
<1>1. NotPutOff'
  BY DEF Safe, NotPutOff, TypeOK, JobsTyped, ReadContent, Locals, Goes, stores, process, history
<1>2. Exclusive'
  BY DEF Safe, Exclusive, Writing, Viewing, TypeOK, JobsTyped, ReadContent, Locals, Goes,
     stores, process, history
<1>3. Quiet'
  BY DEF Safe, Quiet, TypeOK, JobsTyped, ReadContent, Locals, Goes, stores, process, history
<1>4. Marks'
  BY DEF Safe, Marks, MarkerPrecedesChange, Marked, TypeOK, JobsTyped, ReadContent, Locals,
     Goes, stores, process, history
<1>5. Builds'
  <2>1. /\ pc'[j] = "built"
        /\ \A k \in Job : k # j => pc'[k] = pc[k] /\ job'[k] = job[k]
    BY Moves DEF Safe, ReadContent, TypeOK, JobsTyped
  <2>2. job'[j].seen = job[j].seen /\ job'[j].content = content
    BY DEF Safe, ReadContent, TypeOK, JobsTyped, Locals
  <2>3. \A p \in Part : job[j].seen[p] = source[p]
    BY DEF Safe, Builds, SeenTrue, ReadContent
  <2>4. job[j].seen = source
    BY <2>3 DEF Safe, TypeOK, StateTyped, JobsTyped, Locals
  <2> QED
    BY <2>1, <2>2, <2>4 DEF Safe, Builds, Built, SeenTrue, ReadContent, stores
<1>6. Views'
  BY DEF Safe, Views, HasView, Viewless, Reads, SeenTrue, TypeOK, JobsTyped, ReadContent,
     Locals, Goes, stores, process, history
<1>7. NothingUnscheduled'
  BY DEF Safe, NothingUnscheduled, TypeOK, JobsTyped, ReadContent, Locals, Goes, stores,
     process, history
<1> QED
  BY ReadContentTyped, <1>1, <1>2, <1>3, <1>4, <1>5, <1>6, <1>7 DEF Safe

(* The generation is looked at once more.                                   *)
LEMMA AssertTyped ==
  ASSUME Safe, NEW j \in Job, AssertCurrent(j)
  PROVE  TypeOK'
<1>0. TypeOK
  BY DEF Safe
<1>1. StateTyped'
  BY <1>0 DEF TypeOK, StateTyped, AssertCurrent, stores, process, history
<1>2. JobsTyped'
  BY <1>0, MovesTyped DEF AssertCurrent, TypeOK, Labels
<1>3. QueueExact'
  BY <1>0, Stayed DEF AssertCurrent
<1> QED
  BY <1>1, <1>2, <1>3 DEF TypeOK

LEMMA AssertSafe ==
  ASSUME Safe, NEW j \in Job, AssertCurrent(j)
  PROVE  Safe'
<1>1. NotPutOff'
  BY DEF Safe, NotPutOff, TypeOK, JobsTyped, AssertCurrent, Goes, stores, process, history
<1>2. Exclusive'
  BY DEF Safe, Exclusive, Writing, Viewing, TypeOK, JobsTyped, AssertCurrent, Goes, stores,
     process, history
<1>3. Quiet'
  BY DEF Safe, Quiet, TypeOK, JobsTyped, AssertCurrent, Goes, stores, process, history
<1>4. Marks'
  BY DEF Safe, Marks, MarkerPrecedesChange, Marked, TypeOK, JobsTyped, AssertCurrent, Goes, stores,
     process, history
<1>5. Builds'
  BY DEF Safe, Builds, Built, SeenTrue, TypeOK, JobsTyped, AssertCurrent, Goes, stores, process,
     history
<1>6. Views'
  BY DEF Safe, Views, HasView, Viewless, Reads, SeenTrue, TypeOK, JobsTyped, AssertCurrent, Goes,
     stores, process, history
<1>7. NothingUnscheduled'
  BY DEF Safe, NothingUnscheduled, TypeOK, JobsTyped, AssertCurrent, Goes, stores, process, history
<1> QED
  BY AssertTyped, <1>1, <1>2, <1>3, <1>4, <1>5, <1>6, <1>7 DEF Safe

(* The head becomes what was read.                                          *)
LEMMA CommitTyped ==
  ASSUME Safe, NEW j \in Job, Commit(j)
  PROVE  TypeOK'
<1>0. TypeOK
  BY DEF Safe
<1>1. StateTyped'
  BY <1>0 DEF TypeOK, StateTyped, JobsTyped, Locals, Commit, Built, SeenTrue, Safe, Builds,
     process
<1>2. JobsTyped'
  BY <1>0, MovesTyped DEF Commit, TypeOK, Labels
<1>3. QueueExact'
  BY <1>0, Stayed DEF Commit, Ends
<1> QED
  BY <1>1, <1>2, <1>3 DEF TypeOK

LEMMA CommitSafe ==
  ASSUME Safe, NEW j \in Job, Commit(j)
  PROVE  Safe'
<1>1. NotPutOff'
  BY DEF Safe, NotPutOff, Commit, Goes, process
<1>2. Exclusive'
  BY DEF Safe, Exclusive, Writing, Viewing, Commit, Goes, process
<1>3. Quiet'
  BY DEF Safe, Quiet, Commit, Goes, process
<1>4. Marks'
  BY DEF Safe, Marks, MarkerPrecedesChange, Marked, Commit, Goes, process
<1>5. Builds'
  BY DEF Safe, Builds, Built, SeenTrue, Commit, Goes, process
<1>6. Views'
  BY DEF Safe, Views, HasView, Viewless, Reads, SeenTrue, Commit, Goes, process
<1>7. NothingUnscheduled'
  BY ConstantsAssumption DEF Safe, NothingUnscheduled, Quiet, Builds, Built, SeenTrue,
     Exclusive,
     Writing, Viewing, TypeOK, StateTyped, JobsTyped, Locals, Fresh, Commit, Goes, process
<1> QED
  BY CommitTyped, <1>1, <1>2, <1>3, <1>4, <1>5, <1>6, <1>7 DEF Safe

(* Nothing has changed since the head was swung.                            *)
LEMMA ClearTyped ==
  ASSUME Safe, NEW j \in Job, Clear(j)
  PROVE  TypeOK'
<1>0. TypeOK
  BY DEF Safe
<1>1. StateTyped'
  BY <1>0 DEF TypeOK, StateTyped, Clear, history
<1>2. JobsTyped'
  BY <1>0, EndsTyped DEF Clear, TypeOK
<1>3. QueueExact'
  BY <1>0, Stayed DEF Clear, Ends
<1> QED
  BY <1>1, <1>2, <1>3 DEF TypeOK

LEMMA ClearSafe ==
  ASSUME Safe, NEW j \in Job, Clear(j)
  PROVE  Safe'
<1>1. NotPutOff'
  BY DEF Safe, NotPutOff, Clear, Goes, Ends, history
<1>2. Exclusive'
  BY DEF Safe, Exclusive, Writing, Viewing, Clear, Goes, Ends, history
<1>3. Quiet'
  BY DEF Safe, Quiet, Clear, Goes, Ends, history
<1>4. Marks'
  BY ConstantsAssumption DEF Safe, Marks, MarkerPrecedesChange, Marked, TypeOK, JobsTyped,
     Exclusive, Writing, Viewing, StateTyped, Fresh, Clear, Goes, Ends, history
<1>5. Builds'
  BY DEF Safe, Builds, Built, SeenTrue, Clear, Goes, Ends, history
<1>6. Views'
  BY DEF Safe, Views, HasView, Viewless, Reads, SeenTrue, Clear, Goes, Ends, history
<1>7. NothingUnscheduled'
  BY ConstantsAssumption DEF Safe, NothingUnscheduled, Quiet, Builds, Built, SeenTrue,
     Exclusive,
     Writing, Viewing, TypeOK, StateTyped, JobsTyped, Locals, Fresh, Clear, Goes, Ends, history
<1> QED
  BY ClearTyped, <1>1, <1>2, <1>3, <1>4, <1>5, <1>6, <1>7 DEF Safe

(* What failed was tried with the present content.                          *)
LEMMA BuildFailsTyped ==
  ASSUME Safe, NEW j \in Job, BuildFails(j)
  PROVE  TypeOK'
<1>0. TypeOK
  BY DEF Safe
<1>1. StateTyped'
  BY <1>0 DEF TypeOK, StateTyped, BuildFails, Built, SeenTrue, Safe, Builds, process
<1>2. JobsTyped'
  <2>1. CASE job[j].kind = "scheduled"
    BY <1>0, <2>1, MovesTyped DEF BuildFails, TypeOK, Labels
  <2>2. CASE job[j].kind # "scheduled"
    BY <1>0, <2>2, EndsTyped DEF BuildFails, TypeOK
  <2> QED
    BY <2>1, <2>2
<1>3. QueueExact'
  <2>1. CASE job[j].kind = "scheduled"
    BY <1>0, <2>1, Stayed DEF BuildFails
  <2>2. CASE job[j].kind # "scheduled"
    BY <1>0, <2>2, Stayed DEF BuildFails, Ends
  <2> QED
    BY <2>1, <2>2
<1> QED
  BY <1>1, <1>2, <1>3 DEF TypeOK

LEMMA BuildFailsSafe ==
  ASSUME Safe, NEW j \in Job, BuildFails(j)
  PROVE  Safe'
<1>1. NotPutOff'
  BY DEF Safe, NotPutOff, BuildFails, Goes, Ends, process
<1>2. Exclusive'
  BY DEF Safe, Exclusive, Writing, Viewing, TypeOK, JobsTyped, BuildFails, Goes, Ends, process
<1>3. Quiet'
  BY DEF Safe, Quiet, BuildFails, Goes, Ends, process
<1>4. Marks'
  BY DEF Safe, Marks, MarkerPrecedesChange, Marked, TypeOK, JobsTyped, BuildFails, Goes,
     Ends, process
<1>5. Builds'
  BY DEF Safe, Builds, Built, SeenTrue, TypeOK, JobsTyped, BuildFails, Goes, Ends, process
<1>6. Views'
  <2>1. \A k \in Job : k # j => pc'[k] = pc[k] /\ job'[k] = job[k]
    BY Moves, Settles DEF Safe, BuildFails
  <2>2. pc'[j] \in {"failing", "idle"}
    BY Moves, Settles DEF Safe, BuildFails
  <2> QED
    BY <2>1, <2>2 DEF Safe, Views, HasView, Viewless, Reads, SeenTrue, BuildFails, process
<1>7. NothingUnscheduled'
  BY DEF Safe, NothingUnscheduled, BuildFails, Goes, Ends, process
<1> QED
  BY BuildFailsTyped, <1>1, <1>2, <1>3, <1>4, <1>5, <1>6, <1>7 DEF Safe

(* The flag of the record is taken after the gate is left.                  *)
LEMMA ReportFailureTyped ==
  ASSUME Safe, NEW j \in Job, ReportFailure(j)
  PROVE  TypeOK'
<1>0. TypeOK
  BY DEF Safe
<1>1. StateTyped'
  BY <1>0 DEF TypeOK, StateTyped, ReportFailure, stores, process, history
<1>2. JobsTyped'
  <2> DEFINE r == [job[j] EXCEPT !.flag = requires]
  <2>1. r \in Locals
    <3>1. CASE requires = TRUE
      BY <1>0, <3>1 DEF TypeOK, JobsTyped, Locals
    <3>2. CASE requires = FALSE
      BY <1>0, <3>2 DEF TypeOK, JobsTyped, Locals
    <3> QED
      BY <1>0, <3>1, <3>2 DEF TypeOK, StateTyped
  <2>2. job' = [job EXCEPT ![j] = r] /\ Goes(j, "reporting")
    BY <1>0 DEF ReportFailure
  <2> QED
    BY <1>0, <2>1, <2>2, GoesTyped DEF TypeOK, Labels
<1>3. QueueExact'
  BY <1>0, Stayed DEF ReportFailure, Ends
<1> QED
  BY <1>1, <1>2, <1>3 DEF TypeOK

LEMMA ReportFailureSafe ==
  ASSUME Safe, NEW j \in Job, ReportFailure(j)
  PROVE  Safe'
<1>1. NotPutOff'
  BY DEF Safe, NotPutOff, ReportFailure, Goes, stores, process, history
<1>2. Exclusive'
  BY DEF Safe, Exclusive, Writing, Viewing, ReportFailure, Goes, stores, process, history
<1>3. Quiet'
  BY DEF Safe, Quiet, ReportFailure, Goes, stores, process, history
<1>4. Marks'
  BY DEF Safe, Marks, MarkerPrecedesChange, Marked, ReportFailure, Goes, stores, process,
     history
<1>5. Builds'
  BY DEF Safe, Builds, Built, SeenTrue, ReportFailure, Goes, stores, process, history
<1>6. Views'
  BY DEF Safe, Views, HasView, Viewless, Reads, SeenTrue, ReportFailure, Goes, stores,
     process, history
<1>7. NothingUnscheduled'
  BY DEF Safe, NothingUnscheduled, ReportFailure, Goes, stores, process, history
<1> QED
  BY ReportFailureTyped, <1>1, <1>2, <1>3, <1>4, <1>5, <1>6, <1>7 DEF Safe

(* The record lands over whatever is there.                                 *)
LEMMA FailureRecordedTyped ==
  ASSUME Safe, NEW j \in Job, FailureRecorded(j)
  PROVE  TypeOK'
<1>0. TypeOK
  BY DEF Safe
<1>1. StateTyped'
  <2>1. job[j].flag \in BOOLEAN
    BY <1>0 DEF TypeOK, JobsTyped, Locals
  <2>2. record' \in {None} \cup [requires : BOOLEAN]
    BY <1>0, <2>1 DEF TypeOK, StateTyped, FailureRecorded, Marker
  <2>3. late' \in BOOLEAN
    BY <1>0, <2>1 DEF TypeOK, StateTyped, FailureRecorded
  <2> QED
    BY <1>0, <2>2, <2>3 DEF TypeOK, StateTyped, FailureRecorded, process
<1>2. JobsTyped'
  BY <1>0, EndsTyped DEF FailureRecorded, TypeOK
<1>3. QueueExact'
  BY <1>0, Stayed DEF FailureRecorded, Ends
<1> QED
  BY <1>1, <1>2, <1>3 DEF TypeOK

LEMMA FailureRecordedSafe ==
  ASSUME Safe, NEW j \in Job, FailureRecorded(j)
  PROVE  Safe'
<1>1. NotPutOff'
  BY DEF Safe, NotPutOff, FailureRecorded, Goes, Ends, process
<1>2. Exclusive'
  BY DEF Safe, Exclusive, Writing, Viewing, FailureRecorded, Goes, Ends, process
<1>3. Quiet'
  BY DEF Safe, Quiet, FailureRecorded, Goes, Ends, process
<1>4. Marks'
  <2>1. Marked(record) => Marked(record)' \/ late'
    <3>1. CASE job[j].flag
      BY <3>1, MarkerSays DEF Safe, TypeOK, StateTyped, JobsTyped, Locals, FailureRecorded,
         Marker, Marked
    <3>2. CASE ~job[j].flag
      BY <3>2 DEF FailureRecorded, Marked
    <3> QED
      BY <3>1, <3>2
  <2>2. late => late'
    BY DEF FailureRecorded
  <2>3. \A k \in Job : pc'[k] \in {"marking", "writing", "clearing"} => pc[k] = pc'[k]
    BY DEF Safe, FailureRecorded, Ends, Goes, TypeOK, JobsTyped
  <2> QED
    BY <2>1, <2>2, <2>3 DEF Safe, Marks, MarkerPrecedesChange, FailureRecorded, process
<1>5. Builds'
  BY DEF Safe, Builds, Built, SeenTrue, FailureRecorded, Goes, Ends, process
<1>6. Views'
  BY DEF Safe, Views, HasView, Viewless, Reads, SeenTrue, FailureRecorded, Goes, Ends, process
<1>7. NothingUnscheduled'
  BY DEF Safe, NothingUnscheduled, FailureRecorded, Goes, Ends, process
<1> QED
  BY FailureRecordedTyped, <1>1, <1>2, <1>3, <1>4, <1>5, <1>6, <1>7 DEF Safe

(* A view begins to be taken, when nobody writes.                           *)
LEMMA BeginViewTyped ==
  ASSUME Safe, NEW j \in Job, BeginView(j)
  PROVE  TypeOK'
<1>0. TypeOK
  BY DEF Safe
<1>1. StateTyped'
  BY <1>0 DEF TypeOK, StateTyped, BeginView, stores, process, history
<1>2. JobsTyped'
  <2>1. job[j] \in Locals /\ pc[j] = "queued"
    BY <1>0, HeadWaits DEF BeginView, Admitted, TypeOK, JobsTyped
  <2> DEFINE r == [job[j] EXCEPT !.generation = generation]
  <2>2. r \in Locals
    BY <1>0, <2>1 DEF TypeOK, StateTyped, Locals
  <2>3. job' = [job EXCEPT ![j] = r] /\ Goes(j, "viewing")
    BY <2>1 DEF BeginView
  <2> QED
    BY <1>0, <2>2, <2>3, GoesTyped DEF TypeOK, Labels
<1>3. QueueExact'
  BY <1>0, Left DEF BeginView, Admitted
<1> QED
  BY <1>1, <1>2, <1>3 DEF TypeOK

LEMMA BeginViewSafe ==
  ASSUME Safe, NEW j \in Job, BeginView(j)
  PROVE  Safe'
<1>1. NotPutOff'
  BY DEF Safe, NotPutOff, TypeOK, JobsTyped, BeginView, Goes, Admitted, stores, process, history
<1>2. Exclusive'
  BY DEF Safe, Exclusive, Writing, Viewing, TypeOK, JobsTyped, BeginView, Goes, Admitted,
     stores, process, history
<1>3. Quiet'
  BY ConstantsAssumption DEF Safe, Quiet, TypeOK, StateTyped, JobsTyped, QueueExact, BeginView,
     Goes, Admitted, stores, process, history
<1>4. Marks'
  BY DEF Safe, Marks, MarkerPrecedesChange, Marked, TypeOK, JobsTyped, BeginView, Goes,
     Admitted, stores, process, history
<1>5. Builds'
  BY DEF Safe, Builds, Built, SeenTrue, TypeOK, JobsTyped, BeginView, Goes, Admitted,
     stores, process, history
<1>6. Views'
  <2>1. /\ pc'[j] = "viewing" /\ pc[j] = "queued"
        /\ \A k \in Job : k # j => pc'[k] = pc[k] /\ job'[k] = job[k]
    BY Moves, HeadWaits DEF Safe, BeginView, Admitted, TypeOK, JobsTyped
  <2>2. \A k \in Job : pc'[k] \notin {"marking", "writing"}
    BY <2>1 DEF BeginView, Admitted, Writing
  <2>3. Viewless(j)
    BY HeadWaits DEF Safe, BeginView, Admitted, Viewless
  <2>4. job[j].seen = Unread /\ job[j].known = Unread
    BY <2>3 DEF Safe, Views
  <2>5. job'[j].seen = Unread /\ job'[j].known = Unread
    BY <2>4 DEF Safe, BeginView, TypeOK, JobsTyped, Locals
  <2>6. SeenTrue(j)'
    BY <2>5 DEF SeenTrue, Unread
  <2>7. \A k \in Job : HasView(k)' => k # j /\ HasView(k)
    BY <2>1 DEF HasView
  <2>8. \A k \in Job : Viewless(k)' => k # j /\ Viewless(k)
    BY <2>1 DEF Viewless
  <2>9. job'[j].kind = "batch"
    BY DEF Safe, BeginView, Admitted, TypeOK, JobsTyped, Locals
  <2>10. \A k \in Job : pc'[k] \in {"viewing", "viewed", "asking"} => job'[k].kind = "batch"
    BY <2>1, <2>9 DEF Safe, Views
  <2>11. root' # None => \A p \in RootPart : root'.entries[p] = source'[p]
    BY DEF Safe, Views, BeginView, stores, process
  <2>12. \A k \in Job : HasView(k)' => Reads(k)'
    BY <2>1, <2>7 DEF Safe, Views, HasView, Reads, BeginView, stores, process
  <2>13. \A k \in Job : pc'[k] = "viewing" => SeenTrue(k)' /\ job'[k].known = Unread
    BY <2>1, <2>5, <2>6 DEF Safe, Views, SeenTrue, BeginView, stores
  <2>14. \A k \in Job : Viewless(k)' => job'[k].seen = Unread /\ job'[k].known = Unread
    BY <2>1, <2>8 DEF Safe, Views
  <2>15. \A k \in Job : pc'[k] \in {"marking", "writing"} =>
          root' = None /\ \A i \in Job : HasView(i)' => job'[i].generation < generation'
    BY <2>2
  <2> QED
    BY <2>10, <2>11, <2>12, <2>13, <2>14, <2>15 DEF Views
<1>7. NothingUnscheduled'
  <2>1. \A k \in Job : k # j => pc'[k] = pc[k] /\ job'[k] = job[k]
    BY Moves, HeadWaits DEF Safe, BeginView, Admitted, TypeOK, JobsTyped
  <2>2. job[j].kind = "batch" /\ pc[j] = "queued"
    BY HeadWaits DEF Safe, BeginView, Admitted
  <2> QED
    BY <2>1, <2>2 DEF Safe, NothingUnscheduled, BeginView, stores, process, history
<1> QED
  BY BeginViewTyped, <1>1, <1>2, <1>3, <1>4, <1>5, <1>6, <1>7 DEF Safe

(* A view is of the present generation.                                     *)
LEMMA TakeViewTyped ==
  ASSUME Safe, NEW j \in Job, TakeView(j)
  PROVE  TypeOK'
<1>0. TypeOK
  BY DEF Safe
<1>1. StateTyped'
  BY <1>0 DEF TypeOK, StateTyped, TakeView, stores, process, history
<1>2. JobsTyped'
  <2>1. job[j] \in Locals
    BY <1>0 DEF TakeView, TypeOK, JobsTyped
  <2> DEFINE r == [job[j] EXCEPT !.generation = generation, !.seen = Unread]
  <2>2. r \in Locals
    BY <1>0, <2>1, FreshTyped DEF TypeOK, StateTyped, Locals
  <2>3. job' = [job EXCEPT ![j] = r] /\ Goes(j, "viewed")
    BY <2>1 DEF TakeView
  <2> QED
    BY <1>0, <2>2, <2>3, GoesTyped DEF TypeOK, Labels
<1>3. QueueExact'
  BY <1>0, Stayed DEF TakeView
<1> QED
  BY <1>1, <1>2, <1>3 DEF TypeOK

LEMMA TakeViewSafe ==
  ASSUME Safe, NEW j \in Job, TakeView(j)
  PROVE  Safe'
<1>1. NotPutOff'
  BY DEF Safe, NotPutOff, TypeOK, JobsTyped, TakeView, Goes, stores, process, history
<1>2. Exclusive'
  BY DEF Safe, Exclusive, Writing, Viewing, TypeOK, JobsTyped, TakeView, Goes, stores,
     process, history
<1>3. Quiet'
  BY DEF Safe, Quiet, TypeOK, JobsTyped, TakeView, Goes, stores, process, history
<1>4. Marks'
  BY DEF Safe, Marks, MarkerPrecedesChange, Marked, TypeOK, JobsTyped, TakeView, Goes,
     stores, process, history
<1>5. Builds'
  BY DEF Safe, Builds, Built, SeenTrue, TypeOK, JobsTyped, TakeView, Goes, stores, process,
     history
<1>6. Views'
  <2>1. /\ pc'[j] = "viewed"
        /\ \A k \in Job : k # j => pc'[k] = pc[k] /\ job'[k] = job[k]
    BY Moves DEF Safe, TakeView, TypeOK, JobsTyped
  <2>2. \A k \in Job : pc'[k] \notin {"marking", "writing"}
    BY <2>1 DEF Safe, Exclusive, Writing, Viewing, TakeView
  <2>3. job[j].known = Unread
    BY DEF Safe, Views, TakeView
  <2>4. /\ job'[j].generation = generation /\ job'[j].seen = Unread /\ job'[j].known = Unread
        /\ job'[j].kind = "batch"
    BY <2>3 DEF Safe, Views, TakeView, TypeOK, JobsTyped, Locals
  <2>5. Reads(j)'
    <3>1. generation' = generation /\ generation \in Nat
      BY DEF Safe, TakeView, TypeOK, StateTyped, process
    <3>2. \A p \in Part : job'[j].seen[p] = None /\ job'[j].known[p] = None
      BY <2>4 DEF Unread
    <3> QED
      BY <2>4, <3>1, <3>2 DEF Reads
  <2>6. \A k \in Job : HasView(k)' => k = j \/ HasView(k)
    BY <2>1 DEF HasView
  <2>7. \A k \in Job : Viewless(k)' => k # j /\ Viewless(k)
    BY <2>1 DEF Viewless
  <2>8. \A k \in Job : pc'[k] \in {"viewing", "viewed", "asking"} => job'[k].kind = "batch"
    BY <2>1, <2>4 DEF Safe, Views
  <2>9. root' # None => \A p \in RootPart : root'.entries[p] = source'[p]
    BY DEF Safe, Views, TakeView, stores, process
  <2>10. \A k \in Job : HasView(k)' => Reads(k)'
    <3>1. ASSUME NEW k \in Job, k # j, HasView(k)
          PROVE  Reads(k)'
      BY <2>1, <3>1 DEF Safe, Views, Reads, TakeView, stores, process
    <3> QED
      BY <2>5, <2>6, <3>1
  <2>11. \A k \in Job : pc'[k] = "viewing" => SeenTrue(k)' /\ job'[k].known = Unread
    BY <2>1 DEF Safe, Views, SeenTrue, TakeView, stores
  <2>12. \A k \in Job : Viewless(k)' => job'[k].seen = Unread /\ job'[k].known = Unread
    BY <2>1, <2>7 DEF Safe, Views
  <2>13. \A k \in Job : pc'[k] \in {"marking", "writing"} =>
          root' = None /\ \A i \in Job : HasView(i)' => job'[i].generation < generation'
    BY <2>2
  <2> QED
    BY <2>8, <2>9, <2>10, <2>11, <2>12, <2>13 DEF Views
<1>7. NothingUnscheduled'
  BY DEF Safe, NothingUnscheduled, TypeOK, JobsTyped, TakeView, Goes, stores, process, history
<1> QED
  BY TakeViewTyped, <1>1, <1>2, <1>3, <1>4, <1>5, <1>6, <1>7 DEF Safe

(* A view is not taken.                                                     *)
LEMMA ViewFailsTyped ==
  ASSUME Safe, NEW j \in Job, ViewFails(j)
  PROVE  TypeOK'
<1>0. TypeOK
  BY DEF Safe
<1>1. StateTyped'
  BY <1>0 DEF TypeOK, StateTyped, ViewFails, stores, process, history
<1>2. JobsTyped'
  BY <1>0, EndsTyped DEF ViewFails, TypeOK
<1>3. QueueExact'
  BY <1>0, Stayed DEF ViewFails, Ends
<1> QED
  BY <1>1, <1>2, <1>3 DEF TypeOK

LEMMA ViewFailsSafe ==
  ASSUME Safe, NEW j \in Job, ViewFails(j)
  PROVE  Safe'
<1>1. NotPutOff'
  BY DEF Safe, NotPutOff, TypeOK, JobsTyped, ViewFails, Goes, Ends, stores, process, history
<1>2. Exclusive'
  BY DEF Safe, Exclusive, Writing, Viewing, TypeOK, JobsTyped, ViewFails, Goes, Ends,
     stores, process, history
<1>3. Quiet'
  BY DEF Safe, Quiet, TypeOK, JobsTyped, ViewFails, Goes, Ends, stores, process, history
<1>4. Marks'
  BY DEF Safe, Marks, MarkerPrecedesChange, Marked, TypeOK, JobsTyped, ViewFails, Goes,
     Ends, stores, process, history
<1>5. Builds'
  BY DEF Safe, Builds, Built, SeenTrue, TypeOK, JobsTyped, ViewFails, Goes, Ends, stores,
     process, history
<1>6. Views'
  BY DEF Safe, Views, HasView, Viewless, Reads, SeenTrue, TypeOK, JobsTyped, ViewFails,
     Goes, Ends, stores, process, history
<1>7. NothingUnscheduled'
  BY DEF Safe, NothingUnscheduled, TypeOK, JobsTyped, ViewFails, Goes, Ends, stores,
     process, history
<1> QED
  BY ViewFailsTyped, <1>1, <1>2, <1>3, <1>4, <1>5, <1>6, <1>7 DEF Safe

(* A view of an older generation is gone.                                   *)
LEMMA ResolveTyped ==
  ASSUME Safe, NEW j \in Job, Resolve(j)
  PROVE  TypeOK'
<1>0. TypeOK
  BY DEF Safe
<1>1. StateTyped'
  BY <1>0 DEF TypeOK, StateTyped, Resolve, stores, process, history
<1>2. JobsTyped'
  <2>1. CASE job[j].generation = generation
    BY <1>0, <2>1, MovesTyped DEF Resolve, TypeOK, Labels
  <2>2. CASE ~(job[j].generation = generation)
    BY <1>0, <2>2, EndsTyped DEF Resolve, TypeOK
  <2> QED
    BY <2>1, <2>2
<1>3. QueueExact'
  <2>1. CASE job[j].generation = generation
    BY <1>0, <2>1, Stayed DEF Resolve
  <2>2. CASE ~(job[j].generation = generation)
    BY <1>0, <2>2, Stayed DEF Resolve, Ends
  <2> QED
    BY <2>1, <2>2
<1> QED
  BY <1>1, <1>2, <1>3 DEF TypeOK

LEMMA ResolveSafe ==
  ASSUME Safe, NEW j \in Job, Resolve(j)
  PROVE  Safe'
<1>1. NotPutOff'
  BY DEF Safe, NotPutOff, Resolve, Goes, Ends, stores, process, history
<1>2. Exclusive'
  BY DEF Safe, Exclusive, Writing, Viewing, TypeOK, JobsTyped, Resolve, Goes, Ends, stores,
     process,
     history
<1>3. Quiet'
  BY DEF Safe, Quiet, Resolve, Goes, Ends, stores, process, history
<1>4. Marks'
  BY DEF Safe, Marks, MarkerPrecedesChange, Marked, TypeOK, JobsTyped, Resolve, Goes, Ends,
     stores, process, history
<1>5. Builds'
  BY DEF Safe, Builds, Built, SeenTrue, TypeOK, JobsTyped, Resolve, Goes, Ends, stores,
     process, history
<1>6. Views'
  <2>1. CASE job[j].generation = generation
    BY <2>1 DEF Safe, Views, HasView, Viewless, Reads, SeenTrue, Resolve, Goes, TypeOK,
       JobsTyped,
       stores, process
  <2>2. CASE job[j].generation # generation
    BY <2>2, ViewGone DEF Resolve, HasView
  <2> QED
    BY <2>1, <2>2
<1>7. NothingUnscheduled'
  BY DEF Safe, NothingUnscheduled, TypeOK, JobsTyped, Resolve, Goes, Ends, stores, process,
     history
<1> QED
  BY ResolveTyped, <1>1, <1>2, <1>3, <1>4, <1>5, <1>6, <1>7 DEF Safe

(* What is known is what the generation says.                               *)
LEMMA HitTyped ==
  ASSUME Safe, NEW j \in Job, NEW p \in Part, Hit(j, p)
  PROVE  TypeOK'
<1>0. TypeOK
  BY DEF Safe
<1>1. StateTyped'
  BY <1>0 DEF TypeOK, StateTyped, Hit, stores, process, history
<1>2. JobsTyped'
  <2>1. Known(j, p) \in Versions \cup {None}
    BY <1>0 DEF TypeOK, StateTyped, JobsTyped, Locals, Known
  <2> DEFINE r == [job[j] EXCEPT !.seen[p] = Known(j, p), !.known[p] = Known(j, p)]
  <2>2. r \in Locals
    BY <1>0, <2>1 DEF TypeOK, JobsTyped, Locals
  <2>3. job' = [job EXCEPT ![j] = r]
    BY <1>0 DEF Hit
  <2> QED
    BY <1>0, <2>2, <2>3 DEF Hit, TypeOK, JobsTyped
<1>3. QueueExact'
  BY <1>0 DEF Hit, TypeOK, QueueExact
<1> QED
  BY <1>1, <1>2, <1>3 DEF TypeOK

LEMMA HitSafe ==
  ASSUME Safe, NEW j \in Job, NEW p \in Part, Hit(j, p)
  PROVE  Safe'
<1>1. NotPutOff'
  BY DEF Safe, NotPutOff, Hit, stores, process, history
<1>2. Exclusive'
  BY DEF Safe, Exclusive, Writing, Viewing, Hit, stores, process, history
<1>3. Quiet'
  BY DEF Safe, Quiet, Hit, stores, process, history
<1>4. Marks'
  BY DEF Safe, Marks, MarkerPrecedesChange, Marked, Hit, stores, process, history
<1>5. Builds'
  BY DEF Safe, Builds, Built, SeenTrue, TypeOK, JobsTyped, Hit, stores, process, history
<1>6. Views'
  BY ConstantsAssumption DEF Safe, Views, HasView, Viewless, Reads, SeenTrue, TypeOK, JobsTyped,
     Exclusive, Writing, Viewing, StateTyped, Fresh, Locals, Hit, stores, process, history
<1>7. NothingUnscheduled'
  BY DEF Safe, NothingUnscheduled, TypeOK, JobsTyped, Hit, stores, process, history
<1> QED
  BY HitTyped, <1>1, <1>2, <1>3, <1>4, <1>5, <1>6, <1>7 DEF Safe

(* A batch waits for a member.                                              *)
LEMMA AskTyped ==
  ASSUME Safe, NEW j \in Job, NEW p \in Part, Ask(j, p)
  PROVE  TypeOK'
<1>0. TypeOK
  BY DEF Safe
<1>1. StateTyped'
  BY <1>0 DEF TypeOK, StateTyped, Ask, stores, process, history
<1>2. JobsTyped'
  <2> DEFINE r == [job[j] EXCEPT !.part = p]
  <2>1. r \in Locals
    BY <1>0 DEF TypeOK, JobsTyped, Locals
  <2>2. job' = [job EXCEPT ![j] = r] /\ Goes(j, "queued")
    BY <1>0 DEF Ask, Queues
  <2> QED
    BY <1>0, <2>1, <2>2, GoesTyped DEF TypeOK, Labels
<1>3. QueueExact'
  BY <1>0, Appended DEF Ask
<1> QED
  BY <1>1, <1>2, <1>3 DEF TypeOK

LEMMA AskSafe ==
  ASSUME Safe, NEW j \in Job, NEW p \in Part, Ask(j, p)
  PROVE  Safe'
<1>1. NotPutOff'
  BY DEF Safe, NotPutOff, Ask, Goes, Queues, stores, process, history
<1>2. Exclusive'
  BY DEF Safe, Exclusive, Writing, Viewing, Ask, Goes, Queues, stores, process, history
<1>3. Quiet'
  BY DEF Safe, Quiet, Ask, Goes, Queues, stores, process, history
<1>4. Marks'
  BY DEF Safe, Marks, MarkerPrecedesChange, Marked, Ask, Goes, Queues, stores, process, history
<1>5. Builds'
  BY DEF Safe, Builds, Built, SeenTrue, Ask, Goes, Queues, stores, process, history
<1>6. Views'
  BY ConstantsAssumption DEF Safe, Views, HasView, Viewless, Reads, SeenTrue, TypeOK, JobsTyped,
     Exclusive, Writing, Viewing, StateTyped, Fresh, Locals, Ask, Goes, Queues, stores,
     process, history
<1>7. NothingUnscheduled'
  BY DEF Safe, NothingUnscheduled, Ask, Goes, Queues, stores, process, history
<1> QED
  BY AskTyped, <1>1, <1>2, <1>3, <1>4, <1>5, <1>6, <1>7 DEF Safe

(* A member is read under the gate.                                         *)
LEMMA GenerateTyped ==
  ASSUME Safe, NEW j \in Job, Generate(j)
  PROVE  TypeOK'
<1>0. TypeOK
  BY DEF Safe
<1>1. StateTyped'
  BY <1>0 DEF TypeOK, StateTyped, Generate, stores, process, history
<1>2. JobsTyped'
  <2> DEFINE p == job[j].part
  <2>1. job[j] \in Locals /\ p \in Part
    BY <1>0, HeadWaits DEF Generate, Admitted, TypeOK, JobsTyped, Locals
  <2>2. CASE job[j].generation = generation
    <3> DEFINE r == [job[j] EXCEPT !.seen[p] = source[p], !.known[p] = source[p], !.part = None]
    <3>1. source[p] \in Versions
      BY <1>0, <2>1 DEF TypeOK, StateTyped
    <3>2. r \in Locals
      BY <2>1, <3>1 DEF Locals
    <3>3. job' = [job EXCEPT ![j] = r] /\ Goes(j, "asking")
      BY <2>2 DEF Generate
    <3> QED
      BY <1>0, <3>2, <3>3, GoesTyped DEF TypeOK, Labels
  <2>3. CASE job[j].generation # generation
    BY <1>0, <2>3, EndsTyped DEF Generate, TypeOK
  <2> QED
    BY <2>2, <2>3
<1>3. QueueExact'
  <2>1. CASE job[j].generation = generation
    BY <1>0, <2>1, Left DEF Generate, Admitted
  <2>2. CASE ~(job[j].generation = generation)
    BY <1>0, <2>2, Left DEF Generate, Admitted, Ends
  <2> QED
    BY <2>1, <2>2
<1> QED
  BY <1>1, <1>2, <1>3 DEF TypeOK

LEMMA GenerateSafe ==
  ASSUME Safe, NEW j \in Job, Generate(j)
  PROVE  Safe'
<1>1. NotPutOff'
  BY DEF Safe, NotPutOff, Generate, Goes, Ends, Admitted, stores, process, history
<1>2. Exclusive'
  BY DEF Safe, Exclusive, Writing, Viewing, TypeOK, JobsTyped, Generate, Goes, Ends,
     Admitted, stores,
     process, history
<1>3. Quiet'
  BY ConstantsAssumption DEF Safe, Quiet, TypeOK, JobsTyped, Exclusive, Writing, Viewing,
     StateTyped,
     Fresh, Generate, Goes, Ends, Admitted, stores, process, history
<1>4. Marks'
  BY DEF Safe, Marks, MarkerPrecedesChange, Marked, TypeOK, JobsTyped, Generate, Goes, Ends,
     Admitted, stores, process, history
<1>5. Builds'
  BY DEF Safe, Builds, Built, SeenTrue, TypeOK, JobsTyped, Generate, Goes, Ends, Admitted,
     stores,
     process, history
<1>6. Views'
  <2>0. j \in Job /\ pc[j] = "queued" /\ HasView(j)
    BY HeadWaits DEF Safe, Generate, Admitted, HasView
  <2>1. CASE job[j].generation = generation
    <3>1. pc'[j] = "asking" /\ \A k \in Job : k # j => pc'[k] = pc[k] /\ job'[k] = job[k]
      BY <2>0, <2>1, Moves DEF Safe, Generate, TypeOK, JobsTyped
    <3> DEFINE p == job[j].part
    <3>2. /\ job'[j].seen = [job[j].seen EXCEPT ![p] = source[p]]
          /\ job'[j].known = [job[j].known EXCEPT ![p] = source[p]]
          /\ job'[j].generation = job[j].generation
      BY <2>0, <2>1 DEF Safe, Generate, TypeOK, JobsTyped, Locals
    <3>3. Reads(j)
      BY <2>0 DEF Safe, Views
    <3>4. Reads(j)'
      BY <2>0, <3>2, <3>3 DEF Safe, Reads, SeenTrue, Generate, TypeOK, JobsTyped, Locals,
         stores, process
    <3>5. \A k \in Job : HasView(k)' => HasView(k) /\ Reads(k)'
      BY <2>0, <3>1, <3>4 DEF Safe, Views, HasView, Reads, SeenTrue, Generate, stores, process
    <3>6. \A k \in Job : Viewless(k)' => k # j /\ Viewless(k)
      BY <3>1 DEF Viewless
    <3>7. \A k \in Job : HasView(k)' => job'[k].generation = job[k].generation
      BY <3>1, <3>2
    <3>8. \A k \in Job : pc'[k] \in {"marking", "writing"} => pc[k] = pc'[k]
      BY <3>1
    <3>9. \A k \in Job : pc'[k] \in {"viewing", "viewed", "asking"} => job'[k].kind = "batch"
      <4>1. job'[j].kind = job[j].kind /\ job[j].kind = "batch"
        BY <2>0, <2>1 DEF Safe, Generate, Admitted, TypeOK, JobsTyped, Locals
      <4> QED
        BY <3>1, <4>1 DEF Safe, Views
    <3>10. root' # None => \A x \in RootPart : root'.entries[x] = source'[x]
      BY DEF Safe, Views, Generate, stores, process
    <3>11. \A k \in Job : HasView(k)' => Reads(k)'
      BY <3>5
    <3>12. \A k \in Job : pc'[k] = "viewing" => SeenTrue(k)' /\ job'[k].known = Unread
      BY <3>1 DEF Safe, Views, SeenTrue, Generate, stores
    <3>13. \A k \in Job : Viewless(k)' => job'[k].seen = Unread /\ job'[k].known = Unread
      BY <3>1, <3>6 DEF Safe, Views
    <3>14. \A k \in Job : pc'[k] \in {"marking", "writing"} =>
            root' = None /\ \A i \in Job : HasView(i)' => job'[i].generation < generation'
      BY <3>5, <3>7, <3>8 DEF Safe, Views, Generate, stores, process
    <3> QED
      BY <3>9, <3>10, <3>11, <3>12, <3>13, <3>14 DEF Views
  <2>2. CASE job[j].generation # generation
    BY <2>0, <2>2, ViewGone DEF Generate
  <2> QED
    BY <2>1, <2>2
<1>7. NothingUnscheduled'
  <2>0. j \in Job /\ pc[j] = "queued" /\ HasView(j)
    BY HeadWaits DEF Safe, Generate, Admitted, HasView
  <2>1. CASE job[j].generation = generation
    <3>1. pc'[j] = "asking" /\ \A k \in Job : k # j => pc'[k] = pc[k] /\ job'[k] = job[k]
      BY <2>0, <2>1, Moves DEF Safe, Generate, TypeOK, JobsTyped
    <3>2. job[j].kind = "batch"
      BY DEF Generate, Admitted
    <3> QED
      BY <2>0, <3>1, <3>2 DEF Safe, NothingUnscheduled, Generate, stores, process, history
  <2>2. CASE job[j].generation # generation
    BY <2>0, <2>2, ViewGone DEF Generate
  <2> QED
    BY <2>1, <2>2
<1> QED
  BY GenerateTyped, <1>1, <1>2, <1>3, <1>4, <1>5, <1>6, <1>7 DEF Safe

(* A batch is answered, or its view is gone.                                *)
LEMMA AnswerTyped ==
  ASSUME Safe, NEW j \in Job, Answer(j)
  PROVE  TypeOK'
<1>0. TypeOK
  BY DEF Safe
<1>1. StateTyped'
  BY <1>0 DEF TypeOK, StateTyped, Answer, stores, process, history
<1>2. JobsTyped'
  <2>1. CASE job[j].generation = generation
    <3> DEFINE r == [job[j] EXCEPT !.seen = Unread]
    <3>1. r \in Locals
      BY <1>0, FreshTyped DEF TypeOK, JobsTyped, Locals
    <3>2. job' = [job EXCEPT ![j] = r] /\ Goes(j, "viewed")
      BY <2>1 DEF Answer
    <3> QED
      BY <1>0, <3>1, <3>2, GoesTyped DEF TypeOK, Labels
  <2>2. CASE job[j].generation # generation
    BY <1>0, <2>2, EndsTyped DEF Answer, TypeOK
  <2> QED
    BY <2>1, <2>2
<1>3. QueueExact'
  <2>1. CASE job[j].generation = generation
    BY <1>0, <2>1, Stayed DEF Answer
  <2>2. CASE ~(job[j].generation = generation)
    BY <1>0, <2>2, Stayed DEF Answer, Ends
  <2> QED
    BY <2>1, <2>2
<1> QED
  BY <1>1, <1>2, <1>3 DEF TypeOK

LEMMA AnswerSafe ==
  ASSUME Safe, NEW j \in Job, Answer(j)
  PROVE  Safe'
<1>1. NotPutOff'
  BY DEF Safe, NotPutOff, Answer, Goes, Ends, stores, process, history
<1>2. Exclusive'
  BY DEF Safe, Exclusive, Writing, Viewing, TypeOK, JobsTyped, Answer, Goes, Ends, stores,
     process,
     history
<1>3. Quiet'
  BY DEF Safe, Quiet, Answer, Goes, Ends, stores, process, history
<1>4. Marks'
  BY DEF Safe, Marks, MarkerPrecedesChange, Marked, TypeOK, JobsTyped, Answer, Goes, Ends,
     stores, process, history
<1>5. Builds'
  <2>1. CASE job[j].generation = generation
    BY <2>1 DEF Safe, Builds, Built, SeenTrue, Answer, Goes, TypeOK, JobsTyped, stores
  <2>2. CASE job[j].generation # generation
    BY <2>2, ViewGone DEF Answer, HasView
  <2> QED
    BY <2>1, <2>2
<1>6. Views'
  <2>1. CASE job[j].generation = generation
    <3>1. pc'[j] = "viewed" /\ \A k \in Job : k # j => pc'[k] = pc[k] /\ job'[k] = job[k]
      BY <2>1, Moves DEF Safe, Answer, TypeOK, JobsTyped
    <3>2. /\ job'[j].seen = Unread /\ job'[j].known = job[j].known
          /\ job'[j].generation = job[j].generation
      BY <2>1 DEF Safe, Answer, TypeOK, JobsTyped, Locals
    <3>3. HasView(j) /\ Reads(j)
      BY DEF Safe, Views, HasView, Answer
    <3>4. Reads(j)'
      BY <3>2, <3>3 DEF Reads, Unread, Answer, stores, process
    <3>5. \A k \in Job : HasView(k)' => HasView(k) /\ Reads(k)'
      BY <3>3, <3>1, <3>4 DEF Safe, Views, HasView, Reads, SeenTrue, Answer, stores, process
    <3>6. \A k \in Job : Viewless(k)' => k # j /\ Viewless(k)
      BY <3>1 DEF Viewless
    <3>7. \A k \in Job : HasView(k)' => job'[k].generation = job[k].generation
      BY <3>1, <3>2
    <3>8. \A k \in Job : pc'[k] \in {"marking", "writing"} => pc[k] = pc'[k]
      BY <3>1
    <3>9. \A k \in Job : pc'[k] \in {"viewing", "viewed", "asking"} => job'[k].kind = "batch"
      BY <2>1, <3>1 DEF Safe, Views, Answer, TypeOK, JobsTyped, Locals
    <3> QED
      BY <3>1, <3>5, <3>6, <3>7, <3>8, <3>9 DEF Safe, Views, SeenTrue, Answer, stores, process
  <2>2. CASE job[j].generation # generation
    BY <2>2, ViewGone DEF Answer, HasView
  <2> QED
    BY <2>1, <2>2
<1>7. NothingUnscheduled'
  <2>1. CASE job[j].generation = generation
    <3>1. pc'[j] = "viewed" /\ \A k \in Job : k # j => pc'[k] = pc[k] /\ job'[k] = job[k]
      BY <2>1, Moves DEF Safe, Answer, TypeOK, JobsTyped
    <3> QED
      BY <3>1 DEF Safe, NothingUnscheduled, Answer, stores, process, history
  <2>2. CASE job[j].generation # generation
    BY <2>2, ViewGone DEF Answer, HasView
  <2> QED
    BY <2>1, <2>2
<1> QED
  BY AnswerTyped, <1>1, <1>2, <1>3, <1>4, <1>5, <1>6, <1>7 DEF Safe

(* A view is given up.                                                      *)
LEMMA ForgetTyped ==
  ASSUME Safe, NEW j \in Job, Forget(j)
  PROVE  TypeOK'
<1>0. TypeOK
  BY DEF Safe
<1>1. StateTyped'
  BY <1>0 DEF TypeOK, StateTyped, Forget, stores, process, history
<1>2. JobsTyped'
  BY <1>0, EndsTyped DEF Forget, TypeOK
<1>3. QueueExact'
  BY <1>0, Stayed DEF Forget, Ends
<1> QED
  BY <1>1, <1>2, <1>3 DEF TypeOK

LEMMA ForgetSafe ==
  ASSUME Safe, NEW j \in Job, Forget(j)
  PROVE  Safe'
<1>1. NotPutOff'
  BY DEF Safe, NotPutOff, Forget, Goes, Ends, stores, process, history
<1>2. Exclusive'
  BY DEF Safe, Exclusive, Writing, Viewing, Forget, Goes, Ends, stores, process, history
<1>3. Quiet'
  BY DEF Safe, Quiet, Forget, Goes, Ends, stores, process, history
<1>4. Marks'
  BY DEF Safe, Marks, MarkerPrecedesChange, Marked, Forget, Goes, Ends, stores, process, history
<1>5. Builds'
  BY DEF Safe, Builds, Built, SeenTrue, Forget, Goes, Ends, stores, process, history
<1>6. Views'
  BY DEF Safe, Views, HasView, Viewless, Reads, SeenTrue, TypeOK, JobsTyped, Forget, Goes, Ends,
     stores, process, history
<1>7. NothingUnscheduled'
  BY DEF Safe, NothingUnscheduled, Forget, Goes, Ends, stores, process, history
<1> QED
  BY ForgetTyped, <1>1, <1>2, <1>3, <1>4, <1>5, <1>6, <1>7 DEF Safe

(* Memory is lost, the stores are not.                                      *)
LEMMA CrashTyped ==
  ASSUME Safe, Crash
  PROVE  TypeOK'
<1>0. TypeOK
  BY DEF Safe
<1>1. StateTyped'
  <2>1. crashes' \in 0..MaxCrashes
    BY <1>0, ConstantsAssumption DEF TypeOK, StateTyped, Crash
  <2>2. up' \in BOOLEAN /\ requires' \in BOOLEAN /\ generation' \in Nat
    BY <1>0 DEF Crash
  <2> QED
    BY <1>0, <2>1, <2>2 DEF TypeOK, StateTyped, Crash, stores
<1>2. JobsTyped'
  BY <1>0, FreshTyped DEF Crash, JobsTyped
<1>3. QueueExact'
  BY <1>0 DEF Crash, QueueExact
<1> QED
  BY <1>1, <1>2, <1>3 DEF TypeOK

LEMMA CrashSafe ==
  ASSUME Safe, Crash
  PROVE  Safe'
<1>1. NotPutOff'
  BY DEF Safe, NotPutOff, Crash, Goes, stores
<1>2. Exclusive'
  BY DEF Safe, Exclusive, Writing, Viewing, Crash, Goes, stores
<1>3. Quiet'
  BY DEF Safe, Quiet, Crash, Goes, stores
<1>4. Marks'
  BY DEF Safe, Marks, MarkerPrecedesChange, Marked, Crash, Goes, stores
<1>5. Builds'
  BY DEF Safe, Builds, Built, SeenTrue, Crash, Goes, stores
<1>6. Views'
  BY DEF Safe, Views, HasView, Viewless, Reads, SeenTrue, Crash, Goes, stores
<1>7. NothingUnscheduled'
  BY DEF Safe, NothingUnscheduled, Crash, Goes, stores
<1> QED
  BY CrashTyped, <1>1, <1>2, <1>3, <1>4, <1>5, <1>6, <1>7 DEF Safe

(* A restart follows the record.                                            *)
LEMMA ResumeTyped ==
  ASSUME Safe, Resume
  PROVE  TypeOK'
<1>0. TypeOK
  BY DEF Safe
<1>1. StateTyped'
  BY <1>0, ConstantsAssumption DEF TypeOK, StateTyped, Resume, Marked, Scheduled, Least,
     stores, history
<1>2. JobsTyped'
  BY <1>0 DEF TypeOK, JobsTyped, Resume, jobs
<1>3. QueueExact'
  BY <1>0 DEF TypeOK, QueueExact, Resume, jobs
<1> QED
  BY <1>1, <1>2, <1>3 DEF TypeOK

LEMMA ResumeSafe ==
  ASSUME Safe, Resume
  PROVE  Safe'
<1>1. NotPutOff'
  BY ConstantsAssumption DEF Safe, NotPutOff, Scheduled, Least, StateTyped, TypeOK, Resume,
     stores, jobs, history
<1>2. Exclusive'
  BY DEF Safe, Exclusive, Writing, Viewing, Resume, stores, jobs, history
<1>3. Quiet'
  BY DEF Safe, Quiet, Resume, stores, jobs, history
<1>4. Marks'
  <2>1. \A k \in Job : pc'[k] = "idle"
    BY DEF Safe, Quiet, Resume, jobs
  <2>2. Marked(record)' = Marked(record) /\ (Marked(record) => requires')
    BY DEF Resume, Marked, stores
  <2> QED
    BY <2>1, <2>2 DEF Safe, Marks, MarkerPrecedesChange, Resume, history
<1>5. Builds'
  BY DEF Safe, Builds, Built, SeenTrue, Resume, stores, jobs, history
<1>6. Views'
  BY DEF Safe, Views, HasView, Viewless, Reads, SeenTrue, Resume, stores, jobs, history
<1>7. NothingUnscheduled'
  <2>1. head # None => requires' \/ timer' # None
    BY Armed DEF Resume
  <2> QED
    BY <2>1 DEF NothingUnscheduled, Resume, stores
<1> QED
  BY ResumeTyped, <1>1, <1>2, <1>3, <1>4, <1>5, <1>6, <1>7 DEF Safe

-----------------------------------------------------------------------------
(* The theorems.                                                            *)

LEMMA InitSafe ==
  ASSUME Init
  PROVE  Safe
<1>1. \A j \in Job : pc[j] = "idle" /\ job[j] = Fresh
  BY DEF Init
<1>2. StateTyped
  <2>1. source \in [Part -> Versions] /\ content \in Versions
    BY ConstantsAssumption DEF Init, Versions
  <2>2. head \in {None} \cup [source : [Part -> Versions], content : Versions]
    BY <2>1 DEF Init
  <2>3. changes \in Versions /\ crashes \in 0..MaxCrashes
    BY ConstantsAssumption DEF Init, Versions
  <2>4. /\ record = None /\ root = None /\ timer = None /\ tried = None
        /\ generation = 0 /\ up = TRUE /\ requires = FALSE /\ changed = FALSE /\ late = FALSE
    BY DEF Init
  <2> QED
    BY <2>1, <2>2, <2>3, <2>4 DEF StateTyped
<1>3. JobsTyped
  BY FreshTyped DEF Init, JobsTyped
<1>4. QueueExact
  BY DEF Init, QueueExact
<1>5. NotPutOff /\ Exclusive /\ Quiet
  BY <1>1 DEF Init, NotPutOff, Exclusive, Writing, Viewing, Quiet
<1>6. Marks
  BY <1>1 DEF Init, Marks, MarkerPrecedesChange
<1>7. Builds /\ Views
  BY <1>1 DEF Init, Builds, Views, HasView, Viewless
<1>8. NothingUnscheduled
  BY DEF Init, NothingUnscheduled
<1> QED
  BY <1>2, <1>3, <1>4, <1>5, <1>6, <1>7, <1>8 DEF Safe, TypeOK

LEMMA StutterSafe ==
  ASSUME Safe, UNCHANGED vars
  PROVE  Safe'
  BY DEF Safe, TypeOK, StateTyped, JobsTyped, QueueExact, NotPutOff, Exclusive, Writing,
     Viewing, Quiet,
         Marks, MarkerPrecedesChange, Marked, Builds, Built, SeenTrue, Views, HasView,
         Viewless, Reads, SeenTrue,
         NothingUnscheduled, vars, stores, process, jobs, history

LEMMA JobStepSafe ==
  ASSUME Safe, NEW j \in Job, JobStep(j)
  PROVE  Safe'
<1>1. CASE MutateSource(j)
  BY <1>1, MutateSourceSafe
<1>2. CASE MarkerWritten(j)
  BY <1>2, MarkerWrittenSafe
<1>3. CASE MarkerFails(j)
  BY <1>3, MarkerFailsSafe
<1>4. CASE EndMutation(j)
  BY <1>4, EndMutationSafe
<1>5. CASE MutateContent(j)
  BY <1>5, MutateContentSafe
<1>6. CASE ContentNoted(j)
  BY <1>6, ContentNotedSafe
<1>7. CASE Begin(j)
  BY <1>7, BeginSafe
<1>8. CASE KeepRoot(j)
  BY <1>8, KeepRootSafe
<1>9. CASE TakeRoot(j)
  BY <1>9, TakeRootSafe
<1>10. CASE ReadContent(j)
  BY <1>10, ReadContentSafe
<1>11. CASE AssertCurrent(j)
  BY <1>11, AssertSafe
<1>12. CASE Commit(j)
  BY <1>12, CommitSafe
<1>13. CASE Clear(j)
  BY <1>13, ClearSafe
<1>14. CASE BuildFails(j)
  BY <1>14, BuildFailsSafe
<1>15. CASE ReportFailure(j)
  BY <1>15, ReportFailureSafe
<1>16. CASE FailureRecorded(j)
  BY <1>16, FailureRecordedSafe
<1>17. CASE BeginView(j)
  BY <1>17, BeginViewSafe
<1>18. CASE TakeView(j)
  BY <1>18, TakeViewSafe
<1>19. CASE ViewFails(j)
  BY <1>19, ViewFailsSafe
<1>20. CASE Generate(j)
  BY <1>20, GenerateSafe
<1>21. CASE Answer(j)
  BY <1>21, AnswerSafe
<1>22. ASSUME NEW p \in Part, WritePart(j, p) \/ RenderPart(j, p) \/ ReadPart(j, p) \/ Hit(j, p) \/ Ask(j, p)
      PROVE  Safe'
  BY <1>22, WritePartSafe, RenderPartSafe, ReadPartSafe, HitSafe, AskSafe
<1> QED
  BY <1>1, <1>2, <1>3, <1>4, <1>5, <1>6, <1>7, <1>8, <1>9, <1>10, <1>11, <1>12, <1>13,
     <1>14, <1>15, <1>16, <1>17, <1>18, <1>19, <1>20, <1>21, <1>22 DEF JobStep

LEMMA NextSafe ==
  ASSUME Safe, [Next]_vars
  PROVE  Safe'
<1>1. ASSUME NEW j \in Client, Resolve(j) \/ Forget(j)
      PROVE  Safe'
  BY <1>1, ResolveSafe, ForgetSafe DEF Job
<1>2. ASSUME NEW j \in Client, NEW k \in Asks[j], Call(j, k)
      PROVE  Safe'
  <2>1. k \in Kinds
    BY ConstantsAssumption
  <2> QED
    BY <1>2, <2>1, CallSafe
<1>3. ASSUME NEW j \in Callback, TimerFires(j)
      PROVE  Safe'
  BY <1>3, TimerFiresSafe
<1>4. ASSUME NEW j \in Job, JobStep(j)
      PROVE  Safe'
  BY <1>4, JobStepSafe
<1>5. CASE Tick \/ Crash \/ Resume
  BY <1>5, TickSafe, CrashSafe, ResumeSafe
<1>6. CASE UNCHANGED vars
  BY <1>6, StutterSafe
<1> QED
  BY <1>1, <1>2, <1>3, <1>4, <1>5, <1>6 DEF Next

THEOREM Invariant == Spec => []Safe
<1>1. Init => Safe
  BY InitSafe
<1>2. Safe /\ [Next]_vars => Safe'
  BY NextSafe
<1> QED
  BY <1>1, <1>2, PTL DEF Spec

(* Every variable keeps its shape, a settled job leaves nothing behind, and  *)
(* the queue of the gate holds the jobs that wait, each once.               *)
THEOREM TypeCorrect == Spec => []TypeOK
<1>1. Safe => TypeOK
  BY DEF Safe
<1> QED
  BY <1>1, Invariant, PTL

(* The marker of a changed source is durable, and in force, until the        *)
(* source is published or an older failure is recorded over it.             *)
THEOREM MarkerDurable == Spec => []MarkerPrecedesChange
<1>1. Safe => MarkerPrecedesChange
  BY DEF Safe, Marks
<1> QED
  BY <1>1, Invariant, PTL

(* A change of the content that is not published is on its way.             *)
THEOREM NothingForgotten == Spec => []NothingUnscheduled
<1>1. Safe => NothingUnscheduled
  BY DEF Safe
<1> QED
  BY <1>1, Invariant, PTL

(* The debounce never puts a publication off past MaxDelay.                 *)
THEOREM NotDelayed == Spec => []NotPutOff
<1>1. Safe => NotPutOff
  BY DEF Safe
<1> QED
  BY <1>1, Invariant, PTL

(* Only Answer answers a batch.                                             *)
LEMMA AnswersByAnswer ==
  ASSUME Safe, [Next]_vars, NEW j \in Job, Answers(j)
  PROVE  Answer(j)
<1>1. pc[j] = "asking" /\ pc'[j] = "viewed" /\ TypeOK
  BY DEF Answers, Safe
<1>2. ASSUME NEW i \in Client, Resolve(i) \/ Forget(i) \/ (\E k \in Asks[i] : Call(i, k))
      PROVE  FALSE
  BY <1>1, <1>2 DEF TypeOK, JobsTyped, Job, Resolve, Forget, Call, Goes, Ends, Queues
<1>3. ASSUME NEW i \in Callback, TimerFires(i)
      PROVE  FALSE
  BY <1>1, <1>3 DEF TypeOK, JobsTyped, Job, TimerFires, Goes, Queues, jobs
<1>4. ASSUME NEW i \in Job, JobStep(i)
      PROVE  i = j /\ Answer(i)
  <2>1. ASSUME \/ MutateSource(i) \/ MarkerWritten(i) \/ MarkerFails(i) \/ EndMutation(i)
               \/ MutateContent(i) \/ ContentNoted(i)
        PROVE  FALSE
    BY <1>1, <2>1 DEF TypeOK, JobsTyped, MutateSource, MarkerWritten, MarkerFails, EndMutation,
         MutateContent, ContentNoted, Goes, Ends
  <2>2. ASSUME \/ KeepRoot(i) \/ TakeRoot(i) \/ ReadContent(i) \/ AssertCurrent(i) \/ Commit(i)
               \/ Clear(i) \/ BuildFails(i) \/ ReportFailure(i) \/ FailureRecorded(i)
        PROVE  FALSE
    BY <1>1, <2>2 DEF TypeOK, JobsTyped, KeepRoot, TakeRoot, ReadContent, AssertCurrent, Commit, Clear,
         BuildFails, ReportFailure, FailureRecorded, Goes, Ends, jobs
  <2>3. ASSUME \E p \in Part : \/ WritePart(i, p) \/ RenderPart(i, p) \/ ReadPart(i, p)
                              \/ Hit(i, p) \/ Ask(i, p)
        PROVE  FALSE
    BY <1>1, <2>3 DEF TypeOK, JobsTyped, WritePart, RenderPart, ReadPart, Hit, Ask, Goes, Queues
  <2>4. ASSUME Begin(i) \/ BeginView(i) \/ TakeView(i) \/ ViewFails(i)
        PROVE  FALSE
    BY <1>1, <2>4 DEF TypeOK, JobsTyped, Begin, BeginView, TakeView, ViewFails, Goes, Ends
  <2>5. ASSUME Generate(i)
        PROVE  FALSE
    BY <1>1, <2>5 DEF TypeOK, JobsTyped, Generate, Goes, Ends
  <2>6. ASSUME Answer(i)
        PROVE  i = j
    BY <1>1, <2>6 DEF TypeOK, JobsTyped, Answer, Goes, Ends
  <2> QED
    BY <1>4, <2>1, <2>2, <2>3, <2>4, <2>5, <2>6 DEF JobStep
<1>5. ASSUME Tick \/ Crash \/ Resume \/ UNCHANGED vars
      PROVE  FALSE
  BY <1>1, <1>5 DEF Tick, Crash, Resume, vars, jobs
<1> QED
  BY <1>2, <1>3, <1>4, <1>5 DEF Next

(* A batch is answered with the source as it stands, whole.                 *)
THEOREM AnswersTrue == Spec => AnswersCurrent
<1>1. ASSUME Safe, [Next]_vars, NEW j \in Job, Answers(j)
      PROVE  job[j].seen = source
  <2>1. Answer(j)
    BY <1>1, AnswersByAnswer
  <2>2. job[j].generation = generation
    BY <1>1, <2>1, Settles DEF Answers, Answer, Safe
  <2>3. Reads(j) /\ \A p \in Part : job[j].seen[p] # None
    BY <1>1, <2>1 DEF Safe, Views, HasView, Answer
  <2>4. job[j].seen \in [Part -> Versions \cup {None}] /\ source \in [Part -> Versions]
    BY <1>1 DEF Safe, TypeOK, StateTyped, JobsTyped, Locals
  <2>5. \A p \in Part : job[j].seen[p] = source[p]
    BY <2>2, <2>3 DEF Reads
  <2> QED
    BY <2>4, <2>5
<1>2. Safe /\ [Next]_vars => \A j \in Job : Answers(j) => job[j].seen = source
  BY <1>1
<1> QED
  BY <1>2, Invariant, PTL DEF Spec, AnswersCurrent

(* What is published is the source and the content of that moment.          *)
THEOREM CommitsTrue == Spec => CommitsCurrent
<1>1. ASSUME Safe, [Next]_vars, head' # head
      PROVE  head'.source = source /\ head'.content = content
  <2>1. PICK j \in Job : Commit(j) \/ BuildFails(j)
    <3>1. ~(Tick \/ Crash \/ Resume \/ UNCHANGED vars)
      BY <1>1 DEF Tick, Crash, Resume, vars, stores
    <3>2. \A i \in Client : ~Resolve(i) /\ ~Forget(i) /\ \A k \in Asks[i] : ~Call(i, k)
      BY <1>1 DEF Resolve, Forget, Call, stores
    <3>3. \A i \in Callback : ~TimerFires(i)
      BY <1>1 DEF TimerFires, stores
    <3>4. \A i \in Job : /\ ~MutateSource(i) /\ ~MarkerWritten(i) /\ ~MarkerFails(i)
                         /\ ~EndMutation(i) /\ ~MutateContent(i) /\ ~ContentNoted(i)
      BY <1>1 DEF MutateSource, MarkerWritten, MarkerFails, EndMutation, MutateContent,
                  ContentNoted, stores
    <3>5. \A i \in Job : /\ ~Begin(i) /\ ~KeepRoot(i) /\ ~TakeRoot(i) /\ ~ReadContent(i)
                         /\ ~AssertCurrent(i) /\ ~Clear(i) /\ ~ReportFailure(i) /\ ~FailureRecorded(i)
      BY <1>1 DEF Begin, KeepRoot, TakeRoot, ReadContent, AssertCurrent, Clear, ReportFailure,
                  FailureRecorded, stores
    <3>6. \A i \in Job : /\ ~BeginView(i) /\ ~TakeView(i) /\ ~ViewFails(i) /\ ~Generate(i)
                         /\ ~Answer(i)
                         /\ \A p \in Part : /\ ~WritePart(i, p) /\ ~RenderPart(i, p)
                                            /\ ~ReadPart(i, p) /\ ~Hit(i, p) /\ ~Ask(i, p)
      BY <1>1 DEF BeginView, TakeView, ViewFails, Generate, Answer, WritePart, RenderPart,
                  ReadPart, Hit, Ask, stores
    <3> QED
      BY <1>1, <3>1, <3>2, <3>3, <3>4, <3>5, <3>6 DEF Next, JobStep
  <2>2. pc[j] = "asserted" /\ head' = Built(j)
    BY <1>1, <2>1 DEF Commit, BuildFails
  <2> QED
    BY <1>1, <2>2 DEF Safe, Builds
<1>2. Safe /\ [Next]_vars =>
        (head' # head => head'.source = source /\ head'.content = content)
  BY <1>1
<1> QED
  BY <1>2, Invariant, PTL DEF Spec, CommitsCurrent

=============================================================================
