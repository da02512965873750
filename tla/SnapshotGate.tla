---------------------------- MODULE SnapshotGate ----------------------------
(***************************************************************************)
(* SnapshotGate (packages/resources/src/snapshotGate.ts): the bounded       *)
(* reader/writer barrier between the readers of the source world and the    *)
(* operations that replace it or publish it.  A caller of read() or write() *)
(* starts at once or waits in one queue; whoever ends drains the queue.     *)
(* Starting resolves a promise, so the operation itself runs, with a token, *)
(* in a later microtask.                                                    *)
(***************************************************************************)
EXTENDS Integers, Sequences, FiniteSets

CONSTANTS
  Client,     \* concurrent calls of read() and write()
  MaxQueued,  \* maxQueued, 64 by default
  MaxReaders  \* maxReaders, 32 by default

ASSUME GateAssumption ==
  /\ IsFiniteSet(Client)
  /\ MaxQueued \in Nat /\ MaxReaders \in Nat \ {0}

VARIABLES
  readers,  \* readers started and not ended
  writer,   \* a writer has started and not ended
  queue,    \* the callers that wait, first come first
  tokens,   \* the callers whose snapshot token is active
  phase,    \* how far the call of a client is
  write     \* whether the call of a client is a write

vars == <<readers, writer, queue, tokens, phase, write>>

Init ==
  /\ readers = 0
  /\ writer = FALSE
  /\ queue = <<>>
  /\ tokens = {}
  /\ phase = [c \in Client |-> "idle"]
  /\ write = [c \in Client |-> FALSE]

(* Slip: a caller that could run does not queue behind those that wait.     *)
StartsBarging(w) == ~writer /\ IF w THEN readers = 0 ELSE readers < MaxReaders

(* Slip: a writer does not wait for the readers to end.                     *)
StartsBesideReaders(w) == ~writer /\ queue = <<>> /\ readers < MaxReaders

(* Slip: one reader too many.                                               *)
StartsBeyond(w) ==
  /\ ~writer /\ queue = <<>>
  /\ IF w THEN readers = 0 ELSE readers <= MaxReaders

(* A call starts at once when nobody waits and nobody is in its way.        *)
StartsAtOnce(w) ==
  /\ ~writer /\ queue = <<>>
  /\ IF w THEN readers = 0 ELSE readers < MaxReaders

(* run() up to its await; a call that finds the queue full throws.          *)
Call(c, w) ==
  /\ phase[c] = "idle"
  /\ Len(queue) < MaxQueued
  /\ write' = [write EXCEPT ![c] = w]
  /\ IF StartsAtOnce(w)
     THEN /\ writer' = w
          /\ readers' = IF w THEN readers ELSE readers + 1
          /\ phase' = [phase EXCEPT ![c] = "started"]
          /\ UNCHANGED queue
     ELSE /\ queue' = Append(queue, c)
          /\ phase' = [phase EXCEPT ![c] = "waiting"]
          /\ UNCHANGED <<writer, readers>>
  /\ UNCHANGED tokens

(* The await resumes: the operation gets a token and runs.                  *)
Resume(c) ==
  /\ phase[c] = "started"
  /\ tokens' = tokens \cup {c}
  /\ phase' = [phase EXCEPT ![c] = "running"]
  /\ UNCHANGED <<readers, writer, queue, write>>

(* The first n of the queue can start together: one writer on its own, or   *)
(* readers beside the r that run.                                           *)
CanStart(n, r) ==
  \/ n = 1 /\ write[queue[1]] /\ r = 0
  \/ r + n <= MaxReaders /\ \A i \in 1..n : ~write[queue[i]]

(* Slip: only the first of several waiting readers is started.              *)
DrainsOne(n, r, w) ==
  IF w \/ queue = <<>> \/ ~CanStart(1, r) THEN n = 0 ELSE n = 1

(* drain() starts as many of them as it can, none beside a writer.          *)
Drains(n, r, w) ==
  /\ n > 0 => ~w /\ CanStart(n, r)
  /\ n < Len(queue) => w \/ ~CanStart(n + 1, r)

(* Slip: a reader that the drain starts is not counted.                     *)
EndUncounted(c) ==
  /\ phase[c] = "running"
  /\ tokens' = tokens \ {c}
  /\ \E n \in 0..Len(queue) :
       LET r == IF write[c] THEN readers ELSE readers - 1 IN
         /\ Drains(n, r, writer /\ ~write[c])
         /\ queue' = SubSeq(queue, n + 1, Len(queue))
         /\ writer' = (n > 0 /\ write[queue[1]])
         /\ readers' = r
         /\ phase' = [d \in Client |->
              CASE d = c -> "idle"
                [] d \in {queue[i] : i \in 1..n} -> "started"
                [] OTHER -> phase[d]]
  /\ UNCHANGED write

(* The finally block: the lock is given back and the queue drained.         *)
End(c) ==
  /\ phase[c] = "running"
  /\ tokens' = tokens \ {c}
  /\ \E n \in 0..Len(queue) :
       LET r == IF write[c] THEN readers ELSE readers - 1
           w == writer /\ ~write[c]
           nextWrites == n > 0 /\ write[queue[1]] IN
         /\ Drains(n, r, w)
         /\ queue' = SubSeq(queue, n + 1, Len(queue))
         /\ writer' = (w \/ nextWrites)
         /\ readers' = IF nextWrites THEN r ELSE r + n
         /\ phase' = [d \in Client |->
              CASE d = c -> "idle"
                [] d \in {queue[i] : i \in 1..n} -> "started"
                [] OTHER -> phase[d]]
  /\ UNCHANGED write

Next ==
  \E c \in Client : Call(c, TRUE) \/ Call(c, FALSE) \/ Resume(c) \/ End(c)

(* Microtasks run, and every operation settles: each ends its storage calls *)
(* and releases the gate in a finally block.  No caller has to call.        *)
Fairness == \A c \in Client : WF_vars(Resume(c)) /\ WF_vars(End(c))

Spec == Init /\ [][Next]_vars /\ Fairness

-----------------------------------------------------------------------------
Holds(c) == phase[c] \in {"started", "running"}

TypeOK ==
  /\ readers \in 0..MaxReaders
  /\ writer \in BOOLEAN
  /\ queue \in Seq(Client) /\ Len(queue) <= MaxQueued
  /\ tokens \in SUBSET Client
  /\ phase \in [Client -> {"idle", "waiting", "started", "running"}]
  /\ write \in [Client -> BOOLEAN]

(* A writer has the source to itself from the moment it is started, before  *)
(* its own operation runs, until it ends; readers share it.                 *)
Exclusion ==
  \A c, d \in Client : c # d /\ Holds(c) /\ write[c] => ~Holds(d)

(* The two counters of the gate stand for the calls that hold it: none is   *)
(* counted twice, or lost when its promise is resolved by someone's end.    *)
CountersExact ==
  /\ writer <=> \E c \in Client : Holds(c) /\ write[c]
  /\ readers = Cardinality({c \in Client : Holds(c) /\ ~write[c]})
  /\ tokens = {c \in Client : phase[c] = "running"}

(* No wake-up is lost: the first of the queue waits only while a holder     *)
(* that will drain the queue is in its way.                                 *)
NoLostWakeup ==
  queue # <<>> =>
    \/ writer
    \/ write[queue[1]] /\ readers > 0
    \/ ~write[queue[1]] /\ readers = MaxReaders

(* Nobody starts past a caller that waited before.                          *)
NoOvertaking ==
  [][\A i \in 1..Len(queue) :
       phase'[queue[i]] = "waiting" =>
         \A d \in Client : ~Holds(d) /\ Holds(d)' =>
           \E k \in 1..(i - 1) : queue[k] = d]_vars

(* Neither readers nor writers starve: a queued call gets its turn.         *)
NoStarvation ==
  \A c \in Client : phase[c] = "waiting" ~> phase[c] = "running"
=============================================================================
