------------------------------- MODULE QLock --------------------------------
(***************************************************************************)
(* kern/qlock.c: Procs that lock and unlock one QLock.  The sections under *)
(* q->lk are the operators of QLockOps; procsleep and procwakeup, called   *)
(* with q->lk dropped, are the semaphore of BinarySemaphore (OsSleep shows *)
(* that posix.c implements it).                                            *)
(***************************************************************************)
EXTENDS Naturals, QLockOps

VARIABLES q,         \* the QLock
          pc,        \* where each Proc is
          credit,    \* wakeups given to a Proc that procsleep has not used
          target     \* the Proc a qunlock is about to wake

vars == <<q, pc, credit, target>>

\* out:   the Proc neither has nor asks for the lock
\* sleep: it is in the queue, or was, and procsleep has not returned
\* in:    qlock, or a canqlock that returned 1, has returned
\* wake:  it is in qunlock, past unlock(&q->lk), about to call procwakeup
States == {"out", "sleep", "in", "wake"}

TypeOK ==
  /\ q \in QLocks
  /\ pc \in [Procs -> States]
  /\ credit \in [Procs -> Nat]
  /\ target \in [Procs -> Procs \union {None}]

Init ==
  /\ q = FreeLock
  /\ pc = [p \in Procs |-> "out"]
  /\ credit = [p \in Procs |-> 0]
  /\ target = [p \in Procs |-> None]

Qlock(p) ==
  /\ pc[p] = "out"
  /\ q' = Enqueued(q, p)
  /\ pc' = [pc EXCEPT ![p] = IF q.hold = None THEN "in" ELSE "sleep"]
  /\ UNCHANGED <<credit, target>>

\* The procsleep of qlock returns.
Awake(p) ==
  /\ pc[p] = "sleep"
  /\ credit[p] > 0
  /\ credit' = [credit EXCEPT ![p] = @ - 1]
  /\ pc' = [pc EXCEPT ![p] = "in"]
  /\ UNCHANGED <<q, target>>

\* A canqlock that returns 0 changes nothing.
Canqlock(p) ==
  /\ pc[p] = "out"
  /\ q' = Tried(q, p)
  /\ pc' = [pc EXCEPT ![p] = IF q.hold = None THEN "in" ELSE "out"]
  /\ UNCHANGED <<credit, target>>

Qunlock(p) ==
  /\ pc[p] = "in"
  /\ q' = Released(q)
  /\ target' = [target EXCEPT ![p] = ToWake(q)]
  /\ pc' = [pc EXCEPT ![p] = IF ToWake(q) = None THEN "out" ELSE "wake"]
  /\ UNCHANGED credit

Procwakeup(p) ==
  /\ pc[p] = "wake"
  /\ credit' = [credit EXCEPT ![target[p]] = @ + 1]
  /\ target' = [target EXCEPT ![p] = None]
  /\ pc' = [pc EXCEPT ![p] = "out"]
  /\ UNCHANGED q

Next ==
  \E p \in Procs :
    Qlock(p) \/ Awake(p) \/ Canqlock(p) \/ Qunlock(p) \/ Procwakeup(p)

\* Every Proc that can run is scheduled and what is locked is unlocked; a
\* Proc need never ask for the lock.
Fairness ==
  \A p \in Procs :
    WF_vars(Awake(p)) /\ WF_vars(Qunlock(p)) /\ WF_vars(Procwakeup(p))

Spec == Init /\ [][Next]_vars /\ Fairness

-----------------------------------------------------------------------------
Waiting == {q.queue[i] : i \in DOMAIN q.queue}

\* The hand-off to p is under way: qunlock made it the owner and p has yet to
\* notice.  Either the wakeup is posted or some Proc is about to post it.
HandedTo(p) == q.hold = p /\ pc[p] = "sleep"

Wakers(p) == {w \in Procs : pc[w] = "wake" /\ target[w] = p}

\* The lock excludes: two Procs are never past qlock at the same time, though
\* the new owner is set before it is woken and may run before its waker ends.
MutualExclusion ==
  \A p1, p2 \in Procs : pc[p1] = "in" /\ pc[p2] = "in" => p1 = p2

\* No hand-off is lost, and none is doubled: the owner-to-be has exactly one
\* wakeup, given or still to be given, and no other Proc has any (a stray one
\* would make a later procsleep, of any caller, return at once).
OneWakeup ==
  \A p \in Procs :
    IF HandedTo(p)
    THEN \/ credit[p] = 1 /\ Wakers(p) = {}
         \/ credit[p] = 0 /\ \E w \in Procs : Wakers(p) = {w}
    ELSE credit[p] = 0 /\ Wakers(p) = {}

\* The inductive strengthening.  Owner: the owner is inside or handed to, and
\* only the owner is inside.  Line: the queue holds sleepers, each once, and
\* is empty under a free lock.  Wakeup: one per hand-off, none elsewhere.
Owner ==
  /\ \A p \in Procs : pc[p] = "in" => q.hold = p
  /\ \A p \in Procs : q.hold = p => pc[p] \in {"in", "sleep"}

Line ==
  /\ q.hold = None => q.queue = <<>>
  /\ \A i, j \in DOMAIN q.queue : q.queue[i] = q.queue[j] => i = j
  /\ \A i \in DOMAIN q.queue : /\ pc[q.queue[i]] = "sleep"
                               /\ q.queue[i] # q.hold
  /\ \A p \in Procs : pc[p] = "sleep" => \/ q.hold = p
                                         \/ \E i \in DOMAIN q.queue : q.queue[i] = p

Wakeup ==
  /\ \A w \in Procs : pc[w] = "wake" <=> target[w] # None
  /\ \A p \in Procs : credit[p] \in {0, 1}
  /\ \A p \in Procs : credit[p] = 1 =>
       HandedTo(p) /\ \A w \in Procs : target[w] # p
  /\ \A w, v \in Procs : target[w] # None /\ target[w] = target[v] => w = v
  /\ \A w, p \in Procs : target[w] = p => HandedTo(p)
  /\ \A p \in Procs : HandedTo(p) =>
       credit[p] = 1 \/ \E w \in Procs : target[w] = p

IInv == TypeOK /\ Owner /\ Line /\ Wakeup

-----------------------------------------------------------------------------
\* The lock as its callers see it: the owner-to-be is the first in line.
inside == IF q.hold # None /\ pc[q.hold] = "in" THEN q.hold ELSE None
line   == IF q.hold # None /\ pc[q.hold] # "in"
          THEN <<q.hold>> \o q.queue ELSE q.queue

Fifo == INSTANCE FifoLock
FifoSafety == Fifo!Init /\ [][Fifo!Next]_Fifo!vars
FifoSpec == Fifo!Spec
=============================================================================
