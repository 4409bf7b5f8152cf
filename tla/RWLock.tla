------------------------------- MODULE RWLock -------------------------------
(***************************************************************************)
(* kern/rwlock.c: the readers/writer lock made of two QLocks, x and k, a   *)
(* spin lock lk and a count of readers.  x is held by a writer from wlock  *)
(* to wunlock and by a reader only while it enters; k belongs to the       *)
(* writer, or to the readers together.  The first reader takes k for all   *)
(* of them and the last one gives it back: k.hold may well name a Proc     *)
(* that has left, even one that is now queued on k as a writer.            *)
(*                                                                         *)
(* A Proc that is in qlock's procsleep is in `asleep'; one that qunlock    *)
(* has told to call procwakeup has a `target'.  pc already names the place *)
(* it goes on from, and no other action is taken before it does.           *)
(***************************************************************************)
EXTENDS Integers, FiniteSets, QLockOps

ASSUME ProcsFinite == IsFiniteSet(Procs)

VARIABLES x, k,      \* RWlock.x and RWlock.k
          lk,        \* RWlock.lk: the Proc that holds it, or None
          readers,   \* RWlock.readers
          pc,
          asleep,    \* Procs inside the procsleep of qlock
          credit,    \* wakeups given and not consumed
          target     \* the Proc a qunlock is about to wake

vars == <<x, k, lk, readers, pc, asleep, credit, target>>

\* r1: rlock, past qlock(&l->x)       w1: wlock, past qlock(&l->x)
\* r2: ... past l->readers++          writing: past qlock(&l->k)
\* r3: ... past unlock(&l->lk)        v1: wunlock, past qunlock(&l->k)
\* reading: past qunlock(&l->x)
\* u1: runlock, the last reader       u2: ... past qunlock(&l->k)
States == {"out", "r1", "r2", "r3", "reading", "u1", "u2", "w1", "writing", "v1"}

TypeOK ==
  /\ x \in QLocks /\ k \in QLocks
  /\ lk \in Procs \union {None}
  /\ readers \in Nat
  /\ pc \in [Procs -> States]
  /\ asleep \subseteq Procs
  /\ credit \in [Procs -> Nat]
  /\ target \in [Procs -> Procs \union {None}]

Init ==
  /\ x = FreeLock /\ k = FreeLock
  /\ lk = None
  /\ readers = 0
  /\ pc = [p \in Procs |-> "out"]
  /\ asleep = {}
  /\ credit = [p \in Procs |-> 0]
  /\ target = [p \in Procs |-> None]

\* p runs its own code: it neither sleeps nor has a wakeup to give.
At(p, l) == pc[p] = l /\ p \notin asleep /\ target[p] = None

Goto(p, l) == pc' = [pc EXCEPT ![p] = l]

\* The procsleep a qlock(q) by p ends in, when q was held.
SleepIfHeld(q, p) ==
  asleep' = IF q.hold = None THEN asleep ELSE asleep \union {p}

\* The procwakeup that qunlock(q) by p goes on to.
WakeNext(q, p) == target' = [target EXCEPT ![p] = ToWake(q)]

Awake(p) ==
  /\ p \in asleep /\ credit[p] > 0
  /\ asleep' = asleep \ {p}
  /\ credit' = [credit EXCEPT ![p] = @ - 1]
  /\ UNCHANGED <<x, k, lk, readers, pc, target>>

Procwakeup(p) ==
  /\ target[p] # None
  /\ credit' = [credit EXCEPT ![target[p]] = @ + 1]
  /\ target' = [target EXCEPT ![p] = None]
  /\ UNCHANGED <<x, k, lk, readers, pc, asleep>>

\* rlock: qlock(&l->x)
Rlock(p) ==
  /\ At(p, "out")
  /\ x' = Enqueued(x, p) /\ SleepIfHeld(x, p)
  /\ Goto(p, "r1")
  /\ UNCHANGED <<k, lk, readers, credit, target>>

\* rlock: lock(&l->lk); l->readers++
RlockCount(p) ==
  /\ At(p, "r1") /\ lk = None
  /\ lk' = p
  /\ readers' = readers + 1
  /\ Goto(p, "r2")
  /\ UNCHANGED <<x, k, asleep, credit, target>>

\* rlock: canqlock(&l->k); unlock(&l->lk)
RlockTry(p) ==
  /\ At(p, "r2")
  /\ k' = Tried(k, p)
  /\ lk' = None
  /\ Goto(p, "r3")
  /\ UNCHANGED <<x, readers, asleep, credit, target>>

\* rlock: qunlock(&l->x)
RlockDone(p) ==
  /\ At(p, "r3")
  /\ x' = Released(x) /\ WakeNext(x, p)
  /\ Goto(p, "reading")
  /\ UNCHANGED <<k, lk, readers, asleep, credit>>

\* (mutant) every reader that leaves gives k back
RunlockEach(p) ==
  /\ At(p, "reading") /\ lk = None
  /\ readers' = readers - 1
  /\ lk' = p
  /\ Goto(p, "u1")
  /\ UNCHANGED <<x, k, asleep, credit, target>>

\* runlock: lock(&l->lk); --l->readers; a reader that is not the last unlocks
Runlock(p) ==
  /\ At(p, "reading") /\ lk = None
  /\ readers' = readers - 1
  /\ lk' = IF readers' = 0 THEN p ELSE None
  /\ Goto(p, IF readers' = 0 THEN "u1" ELSE "out")
  /\ UNCHANGED <<x, k, asleep, credit, target>>

\* (mutant) the last reader forgets k
RunlockLastKeeps(p) ==
  /\ At(p, "u1")
  /\ Goto(p, "u2")
  /\ UNCHANGED <<x, k, lk, readers, asleep, credit, target>>

\* runlock: qunlock(&l->k), with lk held
RunlockLast(p) ==
  /\ At(p, "u1")
  /\ k' = Released(k) /\ WakeNext(k, p)
  /\ Goto(p, "u2")
  /\ UNCHANGED <<x, lk, readers, asleep, credit>>

\* runlock: unlock(&l->lk)
RunlockDone(p) ==
  /\ At(p, "u2")
  /\ lk' = None
  /\ Goto(p, "out")
  /\ UNCHANGED <<x, k, readers, asleep, credit, target>>

\* (mutant) a writer that does not wait its turn on x
WlockPast(p) ==
  /\ At(p, "out")
  /\ Goto(p, "w1")
  /\ UNCHANGED <<x, k, lk, readers, asleep, credit, target>>

\* wlock: qlock(&l->x)
Wlock(p) ==
  /\ At(p, "out")
  /\ x' = Enqueued(x, p) /\ SleepIfHeld(x, p)
  /\ Goto(p, "w1")
  /\ UNCHANGED <<k, lk, readers, credit, target>>

\* wlock: qlock(&l->k)
WlockReaders(p) ==
  /\ At(p, "w1")
  /\ k' = Enqueued(k, p) /\ SleepIfHeld(k, p)
  /\ Goto(p, "writing")
  /\ UNCHANGED <<x, lk, readers, credit, target>>

\* wunlock: qunlock(&l->k)
Wunlock(p) ==
  /\ At(p, "writing")
  /\ k' = Released(k) /\ WakeNext(k, p)
  /\ Goto(p, "v1")
  /\ UNCHANGED <<x, lk, readers, asleep, credit>>

\* (mutant) a wunlock that gives back k alone
WunlockDoneKeeps(p) ==
  /\ At(p, "v1")
  /\ Goto(p, "out")
  /\ UNCHANGED <<x, k, lk, readers, asleep, credit, target>>

\* wunlock: qunlock(&l->x)
WunlockDone(p) ==
  /\ At(p, "v1")
  /\ x' = Released(x) /\ WakeNext(x, p)
  /\ Goto(p, "out")
  /\ UNCHANGED <<k, lk, readers, asleep, credit>>

\* Steps of a Proc that has entered rlock, runlock, wlock or wunlock, and
\* the calls of runlock and wunlock that follow every rlock and wlock.
Continue(p) ==
  \/ Awake(p) \/ Procwakeup(p)
  \/ RlockCount(p) \/ RlockTry(p) \/ RlockDone(p)
  \/ Runlock(p) \/ RunlockLast(p) \/ RunlockDone(p)
  \/ WlockReaders(p) \/ Wunlock(p) \/ WunlockDone(p)

Next == \E p \in Procs : Rlock(p) \/ Wlock(p) \/ Continue(p)

\* Every Proc that can go on does in the end.  Weak fairness is enough for the
\* spin lock lk too: whoever waits for it with x in hand keeps new readers out,
\* so that only the readers already in can take lk before it.
Fairness == \A p \in Procs : WF_vars(Continue(p))

Spec == Init /\ [][Next]_vars /\ Fairness

-----------------------------------------------------------------------------
Reading(p) == pc[p] = "reading"
Writing(p) == pc[p] = "writing" /\ p \notin asleep

\* A writer that got past wlock is alone.
Exclusion ==
  \A p, o \in Procs : p # o /\ Writing(p) => ~Writing(o) /\ ~Reading(o)

\* New readers queue up behind a waiting writer: while a Proc is inside wlock
\* with x, nobody joins the readers.
WriterFirst ==
  [][(\E w \in Procs : pc[w] = "writing") => readers' <= readers]_vars

Counted == {p \in Procs : pc[p] \in {"r2", "r3", "reading"}}

\* The lock x is one this Proc owns without having noticed (qlock still
\* sleeps), and likewise k.
HandedX(p) == p \in asleep /\ pc[p] \in {"r1", "w1"} /\ x.hold = p
HandedK(p) == p \in asleep /\ pc[p] = "writing" /\ k.queue = <<>>

\* k cannot leak: it is owned exactly when readers are in, a reader is on its
\* way out, or a writer has it.  (A stale k would shut out every writer, one
\* freed too early would let a writer in among the readers.)
KeyAccounted ==
  k.hold # None <=>
    \E p \in Procs : \/ pc[p] \in {"r3", "reading", "u1"}
                     \/ pc[p] = "writing"
                     \/ pc[p] = "r2" /\ readers > 1

\* The inductive strengthening.
\* x is held by whoever enters, or writes; its queue holds those that sleep
\* before they get it, each once.
XHolders == {"r1", "r2", "r3", "w1", "writing", "v1"}

InvX ==
  /\ \A p \in Procs : pc[p] \in XHolders =>
       \/ x.hold = p
       \/ pc[p] \in {"r1", "w1"} /\ p \in asleep
  /\ \A p \in Procs : x.hold = p => pc[p] \in XHolders
  /\ \A i, j \in DOMAIN x.queue : x.queue[i] = x.queue[j] => i = j
  /\ \A i \in DOMAIN x.queue : /\ pc[x.queue[i]] \in {"r1", "w1"}
                               /\ x.queue[i] \in asleep
                               /\ x.queue[i] # x.hold

\* lk is held in the stages that lie between lock and unlock, and the count is
\* zero once the last reader is found.
InvLk ==
  /\ \A p \in Procs : lk = p <=> pc[p] \in {"r2", "u1", "u2"}
  /\ readers = Cardinality(Counted)
  /\ \A p \in Procs : pc[p] = "u1" => readers = 0

\* k keeps writers out while readers are in; its queue is empty or holds the
\* one writer that has x, and a writer that is not in it is alone.
InvK ==
  /\ \A p \in Procs : pc[p] \in {"r3", "reading", "u1"} => k.hold # None
  /\ k.queue # <<>> => \E w \in Procs : k.queue = <<w>> /\ pc[w] = "writing"
                                                       /\ w \in asleep
  /\ \A w \in Procs : pc[w] = "writing" /\ k.queue = <<>> =>
       /\ k.hold # None
       /\ \A p \in Procs : pc[p] \notin {"r2", "r3", "reading", "u1"}

\* A wakeup, posted or about to be, is for one hand-off.
InvWake ==
  /\ \A p \in Procs : p \in asleep => pc[p] \in {"r1", "w1", "writing"}
  /\ \A p \in Procs : credit[p] \in {0, 1}
  /\ \A p \in Procs : credit[p] = 1 =>
       /\ HandedX(p) \/ HandedK(p)
       /\ \A w \in Procs : target[w] # p
  /\ \A w, p \in Procs : target[w] = p => /\ HandedX(p) \/ HandedK(p)
                                          /\ w \notin asleep
  /\ \A w, v \in Procs : target[w] # None /\ target[w] = target[v] => w = v

IInv == TypeOK /\ InvX /\ InvLk /\ InvK /\ InvWake

\* Writers are not starved by readers, nor readers by writers.
EveryoneServed ==
  \A p \in Procs : /\ pc[p] = "w1" ~> Writing(p)
                   /\ pc[p] = "r1" ~> Reading(p)
=============================================================================
