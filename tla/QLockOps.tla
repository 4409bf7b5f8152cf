------------------------------ MODULE QLockOps ------------------------------
(***************************************************************************)
(* The critical sections of kern/qlock.c.  A QLock is the record           *)
(* [hold, queue]: `hold` is the Proc the lock belongs to (None is 0) and   *)
(* `queue` the list first .. last linked through qnext.  Every read and    *)
(* write of the two happens under the spin lock q->lk, so one call of an   *)
(* operator is one section between lock(&q->lk) and unlock(&q->lk).        *)
(***************************************************************************)
EXTENDS Sequences

CONSTANTS Procs,    \* the Procs of the kernel, one thread each
          None      \* the nil Proc

ASSUME NoneAssumption == None \notin Procs

QLocks == [hold : Procs \union {None}, queue : Seq(Procs)]

FreeLock == [hold |-> None, queue |-> <<>>]

\* (mutant) a queue that grows at its head
EnqueuedFront(q, p) ==
  IF q.hold = None THEN [q EXCEPT !.hold = p]
                   ELSE [q EXCEPT !.queue = <<p>> \o @]

\* qlock: the caller owns a free lock at once and joins the queue otherwise.
Enqueued(q, p) ==
  IF q.hold = None THEN [q EXCEPT !.hold = p]
                   ELSE [q EXCEPT !.queue = Append(@, p)]

\* canqlock: the caller owns a free lock, and leaves a held one alone.
Tried(q, p) == IF q.hold = None THEN [q EXCEPT !.hold = p] ELSE q

\* (mutant) a qunlock that frees the lock and leaves the race to the woken Proc
ReleasedFree(q) ==
  [hold |-> None, queue |-> IF q.queue = <<>> THEN <<>> ELSE Tail(q.queue)]

\* qunlock: the head of the queue becomes the owner before it runs again.
Released(q) ==
  IF q.queue = <<>>
  THEN [q EXCEPT !.hold = None]
  ELSE [hold |-> Head(q.queue), queue |-> Tail(q.queue)]

\* (mutant) the last of the queue is woken for the first
ToWakeLast(q) == IF q.queue = <<>> THEN None ELSE q.queue[Len(q.queue)]

\* The Proc qunlock calls procwakeup on, after unlock(&q->lk); None for none.
ToWake(q) == IF q.queue = <<>> THEN None ELSE Head(q.queue)
=============================================================================
