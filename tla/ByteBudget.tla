----------------------------- MODULE ByteBudget -----------------------------
(***************************************************************************)
(* ByteBudget (packages/resources/src/budget.ts): bytes are reserved before *)
(* they are allocated, and a bounded queue of callers waits for them.       *)
(*                                                                          *)
(* A budget is a record: the bytes in use, and the callers that wait, first *)
(* come first, each with the bytes it asked for.  The operators say what    *)
(* each method leaves behind; a caller that was queued and no longer is has *)
(* been granted its bytes, unless the same step refused it.                 *)
(***************************************************************************)
EXTENDS Naturals, Sequences

CONSTANTS
  Capacity,  \* limit
  MaxQueued  \* maxQueued, as every caller of waitReserve passes it

Empty == [used |-> 0, waiting |-> <<>>]

Waiters(b) == {b.waiting[i].who : i \in 1..Len(b.waiting)}

(* tryReserve() succeeds.  It does not look at the queue.                   *)
Fits(b, bytes) == b.used + bytes <= Capacity

Reserved(b, bytes) == [b EXCEPT !.used = @ + bytes]

(* Slip: the queue takes one caller too many.                              *)
RefusesLate(b, bytes) == ~Fits(b, bytes) /\ Len(b.waiting) > MaxQueued

(* waitReserve() refuses when the bytes are not free and the queue is full, *)
(* and otherwise reserves at once or queues.                                *)
Refuses(b, bytes) == ~Fits(b, bytes) /\ Len(b.waiting) >= MaxQueued

Asked(b, caller, bytes) ==
  IF Fits(b, bytes) THEN Reserved(b, bytes)
  ELSE [b EXCEPT !.waiting = Append(@, [who |-> caller, bytes |-> bytes])]

(* The bytes in use once the first n waiters have theirs.                   *)
InUse(b) ==
  LET after[n \in 0..Len(b.waiting)] ==
        IF n = 0 THEN b.used ELSE after[n - 1] + b.waiting[n].bytes
  IN after

(* wake(): the longest run of waiters at the head of the queue that fits.   *)
Woken(b) ==
  LET after == InUse(b)
      n == CHOOSE n \in 0..Len(b.waiting) :
             /\ n = 0 \/ after[n] <= Capacity
             /\ n < Len(b.waiting) => after[n + 1] > Capacity
  IN [used |-> after[n], waiting |-> SubSeq(b.waiting, n + 1, Len(b.waiting))]

(* The function tryReserve() returns.                                       *)
Released(b, bytes) == Woken([b EXCEPT !.used = @ - bytes])

(* replaceReservation(): the bound is given back and the actual bytes are   *)
(* taken before anyone is woken.                                            *)
Replaced(b, bound, bytes) == Woken([b EXCEPT !.used = @ - bound + bytes])

(* splice(): a caller leaves the queue.                                     *)
Without(b, caller) ==
  LET i == CHOOSE i \in 1..Len(b.waiting) : b.waiting[i].who = caller
  IN [b EXCEPT !.waiting = SubSeq(@, 1, i - 1) \o SubSeq(@, i + 1, Len(@))]

(* Slip: a waiter that gives up wakes nobody.                               *)
LeftAsleep(b, caller) == Without(b, caller)

(* The deadline of one waiter: it leaves, and those behind it may fit.      *)
Left(b, caller) == Woken(Without(b, caller))

(* The shutdown signal reaches the waiters in turn.  Each that leaves wakes *)
(* those behind it, so that one of them may be granted its bytes before the *)
(* signal reaches it.                                                       *)
Aborting(b) ==
  LET after[n \in 0..Len(b.waiting)] ==
        IF n = 0 THEN [used |-> b.used, refused |-> {}]
        ELSE LET before == after[n - 1]
                 w == b.waiting[n]
             IN IF before.refused # {} /\ before.used + w.bytes <= Capacity
                THEN [before EXCEPT !.used = @ + w.bytes]
                ELSE [before EXCEPT !.refused = @ \cup {w.who}]
  IN after[Len(b.waiting)]

Aborted(b) == [used |-> Aborting(b).used, waiting |-> <<>>]

(* Nobody waits that could run: the first of the queue does not fit.        *)
HeadWaits(b) == b.waiting # <<>> => ~Fits(b, Head(b.waiting).bytes)

BudgetType(b, caller) ==
  /\ b.used \in 0..Capacity
  /\ b.waiting \in Seq([who : caller, bytes : Nat])
  /\ Len(b.waiting) <= MaxQueued
=============================================================================
