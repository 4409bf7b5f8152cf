---------------------------- MODULE RWLockProofs ----------------------------
(***************************************************************************)
(* Proofs about the readers/writer lock, for any finite set of Procs.      *)
(***************************************************************************)
EXTENDS RWLock, FiniteSetTheorems, TLAPS

-----------------------------------------------------------------------------
\* The critical sections of qlock.c, on either of the two QLocks: the lemmas of
\* SleepProofs, which speaks of a lock of its own and cannot be extended here.

\* A lock is its owner and its queue.
LEMMA QLockFields ==
  ASSUME NEW l \in QLocks
  PROVE  /\ l.hold \in Procs \union {None}
         /\ l.queue \in Seq(Procs)
         /\ l = [hold |-> l.hold, queue |-> l.queue]
  BY DEF QLocks

\* ... and any owner and queue make a lock.
LEMMA QLockRecord ==
  ASSUME NEW h \in Procs \union {None}, NEW s \in Seq(Procs)
  PROVE  [hold |-> h, queue |-> s] \in QLocks
  BY DEF QLocks

\* The lock a Proc starts with.
LEMMA FreeLockType == FreeLock \in QLocks
<1>1. <<>> \in Seq(Procs)
  OBVIOUS
<1> QED  BY <1>1, QLockRecord DEF FreeLock

\* qlock and canqlock take a free lock.
LEMMA TakeFree ==
  ASSUME NEW l \in QLocks, NEW p \in Procs, l.hold = None
  PROVE  /\ Enqueued(l, p) = [hold |-> p, queue |-> l.queue]
         /\ Tried(l, p) = [hold |-> p, queue |-> l.queue]
         /\ [hold |-> p, queue |-> l.queue] \in QLocks
<1>1. Enqueued(l, p) = [hold |-> p, queue |-> l.queue]
  BY QLockFields DEF Enqueued
<1>2. Tried(l, p) = [hold |-> p, queue |-> l.queue]
  BY QLockFields DEF Tried
<1> QED  BY <1>1, <1>2, QLockFields, QLockRecord

\* canqlock leaves a held lock alone.
LEMMA TryHeld ==
  ASSUME NEW l \in QLocks, NEW p \in Procs, l.hold # None
  PROVE  Tried(l, p) = l
  BY DEF Tried

\* qlock puts the caller at the end of the queue of a held lock.
LEMMA QueueOnHeld ==
  ASSUME NEW l \in QLocks, NEW p \in Procs, l.hold # None
  PROVE  /\ Enqueued(l, p) \in QLocks
         /\ Enqueued(l, p).hold = l.hold
         /\ Enqueued(l, p).queue = Append(l.queue, p)
         /\ Len(l.queue) \in Nat
         /\ Len(Append(l.queue, p)) = Len(l.queue) + 1
         /\ Append(l.queue, p)[Len(l.queue) + 1] = p
         /\ \A i \in 1 .. Len(l.queue) : Append(l.queue, p)[i] = l.queue[i]
<1>1. l.queue \in Seq(Procs)
  BY QLockFields
<1>2. Append(l.queue, p) \in Seq(Procs)
  BY <1>1
<1>3. Enqueued(l, p) = [hold |-> l.hold, queue |-> Append(l.queue, p)]
  BY QLockFields DEF Enqueued
<1>4. Enqueued(l, p) \in QLocks
  BY <1>2, <1>3, QLockFields, QLockRecord
<1> QED  BY <1>1, <1>3, <1>4

\* qunlock of a lock nobody waits for frees it.
LEMMA ReleaseEmpty ==
  ASSUME NEW l \in QLocks, l.queue = <<>>
  PROVE  /\ Released(l) = [hold |-> None, queue |-> <<>>]
         /\ Released(l) \in QLocks
         /\ ToWake(l) = None
<1>1. Released(l) = [hold |-> None, queue |-> <<>>]
  BY QLockFields DEF Released
<1> QED  BY <1>1, FreeLockType DEF FreeLock, ToWake

\* qunlock of a lock that is waited for hands it to the head of the queue.
LEMMA ReleaseCons ==
  ASSUME NEW l \in QLocks, l.queue # <<>>
  PROVE  /\ l.queue[1] \in Procs
         /\ Released(l) = [hold |-> l.queue[1], queue |-> Tail(l.queue)]
         /\ Released(l) \in QLocks
         /\ ToWake(l) = l.queue[1]
         /\ Len(l.queue) \in Nat \ {0}
         /\ Len(Tail(l.queue)) = Len(l.queue) - 1
         /\ \A i \in 1 .. Len(l.queue) - 1 : Tail(l.queue)[i] = l.queue[i + 1]
<1>1. l.queue \in Seq(Procs)
  BY QLockFields
<1>2. Head(l.queue) = l.queue[1] /\ l.queue[1] \in Procs
  BY <1>1
<1>3. Tail(l.queue) \in Seq(Procs)
  BY <1>1
<1>4. Released(l) = [hold |-> l.queue[1], queue |-> Tail(l.queue)]
  BY <1>2 DEF Released
<1>5. Released(l) \in QLocks
  BY <1>4, <1>2, <1>3, QLockRecord
<1>6. /\ Len(l.queue) \in Nat \ {0}
      /\ Len(Tail(l.queue)) = Len(l.queue) - 1
      /\ \A i \in 1 .. Len(l.queue) - 1 : Tail(l.queue)[i] = l.queue[i + 1]
  BY <1>1
<1> QED  BY <1>2, <1>4, <1>5, <1>6 DEF ToWake

\* The queue, element by element.
LEMMA QueueDomain ==
  ASSUME NEW l \in QLocks
  PROVE  /\ Len(l.queue) \in Nat
         /\ DOMAIN l.queue = 1 .. Len(l.queue)
         /\ \A i \in 1 .. Len(l.queue) : l.queue[i] \in Procs
         /\ l.queue = <<>> <=> Len(l.queue) = 0
  BY QLockFields

-----------------------------------------------------------------------------
\* The readers/writer lock.

USE NoneAssumption

\* The readers are finitely many, and joining and leaving count as one.
LEMMA CountedFinite == IsFiniteSet(Counted)
<1>1. Counted \subseteq Procs
  BY DEF Counted
<1> QED  BY <1>1, ProcsFinite, FS_Subset

LEMMA CountJoin ==
  ASSUME NEW p \in Procs, p \notin Counted, Counted' = Counted \union {p},
         readers = Cardinality(Counted)
  PROVE  Cardinality(Counted') = readers + 1
  BY CountedFinite, FS_AddElement

LEMMA CountLeave ==
  ASSUME NEW p \in Procs, p \in Counted, Counted' = Counted \ {p},
         readers = Cardinality(Counted)
  PROVE  Cardinality(Counted') = readers - 1
  BY CountedFinite, FS_RemoveElement

LEMMA NoReaders ==
  ASSUME readers = Cardinality(Counted)
  PROVE  /\ readers = 0 <=> Counted = {}
         /\ readers \in Nat
  BY CountedFinite, FS_EmptySet, FS_CardinalityType

LEMMA InitIInv == Init => IInv
<1> SUFFICES ASSUME Init
             PROVE  IInv
  OBVIOUS
<1> USE DEF Init
<1>1. TypeOK
  BY FreeLockType DEF TypeOK, States
<1>2. InvX /\ InvK
  BY DEF InvX, InvK, FreeLock, XHolders
<1>3. InvLk
  <2>1. Counted = {}
    BY DEF Counted
  <2> QED  BY <2>1, FS_EmptySet DEF InvLk
<1>4. InvWake
  BY DEF InvWake
<1> QED  BY <1>1, <1>2, <1>3, <1>4 DEF IInv

-----------------------------------------------------------------------------
\* qlock(&l->x) by a Proc that is out: it holds x, or sleeps in the queue.
LEMMA EnterX ==
  ASSUME IInv, NEW p \in Procs, NEW l \in {"r1", "w1"}, At(p, "out"),
         x' = Enqueued(x, p), SleepIfHeld(x, p), Goto(p, l),
         UNCHANGED <<k, lk, readers, credit, target>>
  PROVE  IInv'
<1> USE DEF IInv, At, SleepIfHeld, Goto
<1>0. x \in QLocks /\ pc' = [pc EXCEPT ![p] = l] /\ x.hold # p
  BY DEF TypeOK, InvX, XHolders
<1>1. InvX' /\ x' \in QLocks
  <2>1. CASE x.hold = None
    <3>1. /\ x' = [hold |-> p, queue |-> x.queue] /\ x' \in QLocks
          /\ asleep' = asleep
      BY <2>1, <1>0, TakeFree
    <3>2. \A i \in DOMAIN x.queue : x.queue[i] \in Procs /\ x.queue[i] # p
      BY <1>0, QueueDomain DEF InvX
    <3> QED  BY <3>1, <3>2, <2>1, <1>0 DEF InvX, XHolders, TypeOK
  <2>2. CASE x.hold # None
    <3> DEFINE n == Len(x.queue)
    <3>1. /\ x'.hold = x.hold /\ x' \in QLocks
          /\ asleep' = asleep \union {p}
      BY <2>2, <1>0, QueueOnHeld
    <3>2. /\ n \in Nat /\ DOMAIN x.queue = 1 .. n /\ DOMAIN x'.queue = 1 .. n + 1
          /\ x'.queue[n + 1] = p
          /\ \A i \in 1 .. n : x'.queue[i] = x.queue[i] /\ x.queue[i] \in Procs
      <4>1. x'.queue = Append(x.queue, p) /\ Len(x'.queue) = n + 1
        BY <2>2, <1>0, QueueOnHeld
      <4>2. n \in Nat /\ DOMAIN x.queue = 1 .. n /\ DOMAIN x'.queue = 1 .. n + 1
        BY <4>1, <1>0, <3>1, QueueDomain
      <4>3. /\ x'.queue[n + 1] = p
            /\ \A i \in 1 .. n : x'.queue[i] = x.queue[i] /\ x.queue[i] \in Procs
        BY <4>1, <2>2, <1>0, QueueOnHeld, QueueDomain
      <4> QED  BY <4>2, <4>3
    <3>3. \A i \in 1 .. n : x.queue[i] # p
      BY <3>2 DEF InvX
    <3> HIDE DEF n
    <3>4. \A i, j \in DOMAIN x'.queue : x'.queue[i] = x'.queue[j] => i = j
      BY <3>2, <3>3 DEF InvX
    <3>5. ASSUME NEW i \in DOMAIN x'.queue
          PROVE  /\ pc'[x'.queue[i]] \in {"r1", "w1"}
                 /\ x'.queue[i] \in asleep' /\ x'.queue[i] # x'.hold
      <4>1. CASE i = n + 1
        BY <4>1, <3>1, <3>2, <1>0 DEF TypeOK
      <4>2. CASE i # n + 1
        <5>1. i \in DOMAIN x.queue /\ x'.queue[i] = x.queue[i]
              /\ x.queue[i] # p
          BY <4>2, <3>2, <3>3
        <5> QED  BY <5>1, <3>1, <1>0 DEF InvX, TypeOK
      <4> QED  BY <4>1, <4>2
    <3>6. /\ \A o \in Procs : pc'[o] \in XHolders =>
               \/ x'.hold = o
               \/ pc'[o] \in {"r1", "w1"} /\ o \in asleep'
          /\ \A o \in Procs : x'.hold = o => pc'[o] \in XHolders
      BY <3>1, <1>0 DEF InvX, XHolders, TypeOK
    <3> QED  BY <3>1, <3>4, <3>5, <3>6 DEF InvX
  <2> QED  BY <2>1, <2>2
<1>2. TypeOK'
  BY <1>0, <1>1 DEF TypeOK, States
<1>3. InvLk'
  <2>1. Counted' = Counted
    BY <1>0 DEF Counted, TypeOK
  <2> QED  BY <2>1, <1>0 DEF InvLk, TypeOK
<1>4. InvK'
  BY <1>0 DEF InvK, TypeOK
<1>5. InvWake'
  <2>1. \A o \in Procs : (HandedX(o) => HandedX(o)') /\ (HandedK(o) => HandedK(o)')
    BY <1>0, QueueOnHeld, TakeFree DEF HandedX, HandedK, TypeOK, InvWake
  <2> QED  BY <2>1, <1>0 DEF InvWake, TypeOK
<1> QED  BY <1>1, <1>2, <1>3, <1>4, <1>5

\* qunlock(&l->x) by the Proc that holds it: x becomes free, or belongs to the
\* first of the queue, which gets its one wakeup next.
LEMMA LeaveX ==
  ASSUME IInv, NEW p \in Procs, NEW l \in {"reading", "out"}, x.hold = p,
         p \notin asleep, target[p] = None,
         pc[p] \in {"r3", "v1"}, l = "reading" <=> pc[p] = "r3",
         x' = Released(x), WakeNext(x, p), Goto(p, l),
         UNCHANGED <<k, lk, readers, asleep, credit>>
  PROVE  IInv'
<1> USE DEF IInv, WakeNext, Goto
<1>0. x \in QLocks /\ pc' = [pc EXCEPT ![p] = l]
  BY DEF TypeOK
<1>1. /\ \A o \in Procs : ~HandedX(o)
      /\ \A o \in Procs : HandedK(o) <=> HandedK(o)'
  BY <1>0 DEF HandedX, HandedK, TypeOK
<1>2. x' \in QLocks /\ ToWake(x) \in Procs \union {None}
  BY <1>0, ReleaseEmpty, ReleaseCons
<1>3. TypeOK'
  BY <1>0, <1>2 DEF TypeOK, States
<1>4. InvLk'
  <2>1. Counted' = Counted
    BY <1>0 DEF Counted, TypeOK
  <2> QED  BY <2>1, <1>0 DEF InvLk, TypeOK
<1>5. InvK'
  BY <1>0 DEF InvK, TypeOK
<1>6. InvX' /\ InvWake'
  <2>1. CASE x.queue = <<>>
    <3>1. /\ x' = [hold |-> None, queue |-> <<>>]
          /\ target' = [target EXCEPT ![p] = None]
      BY <2>1, <1>0, ReleaseEmpty
    <3>2. InvX'
      BY <3>1, <1>0 DEF InvX, XHolders, TypeOK
    <3>3. \A o \in Procs : HandedX(o) => HandedX(o)'
      BY <1>1 DEF HandedX
    <3>4. InvWake'
      BY <3>1, <3>3, <1>0, <1>1 DEF InvWake, TypeOK
    <3> QED  BY <3>2, <3>4
  <2>2. CASE x.queue # <<>>
    <3>0. PICK h \in Procs : h = x.queue[1]
      BY <2>2, <1>0, ReleaseCons
    <3> DEFINE n == Len(x.queue)
    <3>1. /\ x'.hold = h /\ x'.queue = Tail(x.queue)
          /\ target' = [target EXCEPT ![p] = h]
      <4>1. /\ x' = [hold |-> h, queue |-> Tail(x.queue)]
            /\ ToWake(x) = h
        BY <2>2, <3>0, <1>0, ReleaseCons
      <4> QED  BY <4>1
    <3>2. n \in Nat \ {0} /\ DOMAIN x.queue = 1 .. n
      BY <2>2, <1>0, ReleaseCons, QueueDomain
    <3>3. Len(x'.queue) = n - 1
      BY <2>2, <3>1, <1>0, ReleaseCons
    <3>4. DOMAIN x'.queue = 1 .. n - 1
      BY <3>3, <3>2, <1>2, QueueDomain
    <3>5. \A i \in 1 .. n - 1 : x'.queue[i] = x.queue[i + 1] /\ x'.queue[i] \in Procs
      BY <2>2, <3>1, <3>3, <1>0, <1>2, ReleaseCons, QueueDomain
    <3>6. h \in asleep /\ pc[h] \in {"r1", "w1"} /\ h # p
      BY <3>0, <3>2 DEF InvX
    <3> HIDE DEF n
    <3>7. ASSUME NEW i \in DOMAIN x'.queue
          PROVE  /\ i + 1 \in DOMAIN x.queue /\ i + 1 # 1
                 /\ x'.queue[i] = x.queue[i + 1]
      BY <3>2, <3>4, <3>5
    <3>8. ASSUME NEW i \in DOMAIN x'.queue, NEW j \in DOMAIN x'.queue,
                 x'.queue[i] = x'.queue[j]
          PROVE  i = j
      <4>1. i + 1 = j + 1
        BY <3>7, <3>8 DEF InvX
      <4> QED  BY <4>1, <3>2, <3>4
    <3>9. ASSUME NEW i \in DOMAIN x'.queue
          PROVE  /\ pc'[x'.queue[i]] \in {"r1", "w1"}
                 /\ x'.queue[i] \in asleep' /\ x'.queue[i] # x'.hold
      <4>1. x'.queue[i] # h
        BY <3>0, <3>7, <3>2 DEF InvX
      <4>2. x'.queue[i] \in Procs /\ x'.queue[i] # p
        BY <3>4, <3>5, <3>7 DEF InvX
      <4> QED  BY <4>1, <4>2, <3>1, <3>7, <1>0 DEF InvX, TypeOK
    <3>10. /\ \A o \in Procs : pc'[o] \in XHolders =>
                \/ x'.hold = o
                \/ pc'[o] \in {"r1", "w1"} /\ o \in asleep'
           /\ \A o \in Procs : x'.hold = o => pc'[o] \in XHolders
      BY <3>1, <3>6, <3>2, <1>0 DEF InvX, XHolders, TypeOK
    <3>11. InvX'
      BY <3>8, <3>9, <3>10 DEF InvX
    <3>12. HandedX(h)' /\ ~HandedX(h) /\ ~HandedK(h)
      BY <3>1, <3>2, <3>6, <1>0 DEF HandedX, HandedK, TypeOK
    <3>13. \A w \in Procs : target[w] # h
      BY <3>2, <3>12 DEF InvWake
    <3>14. credit[h] = 0
      BY <3>2, <3>12 DEF InvWake
    <3>15. \A o \in Procs : HandedX(o) => HandedX(o)'
      BY <1>1 DEF HandedX
    <3>16. InvWake'
      BY <3>1, <3>2, <3>12, <3>13, <3>14, <3>15, <1>0, <1>1 DEF InvWake, TypeOK
    <3> QED  BY <3>11, <3>16
  <2> QED  BY <2>1, <2>2
<1> QED  BY <1>3, <1>4, <1>5, <1>6

\* The procsleep inside qlock returns: the hand-off is over.
LEMMA AwakeIInv ==
  ASSUME IInv, NEW p \in Procs, Awake(p)
  PROVE  IInv'
<1> USE DEF IInv, Awake
<1>1. credit[p] = 1 /\ (HandedX(p) \/ HandedK(p))
  BY DEF InvWake
<1>2. TypeOK'
  BY <1>1 DEF TypeOK
<1>3. InvX'
  <2>1. \A i \in DOMAIN x.queue : x.queue[i] # p
    BY <1>1 DEF InvX, HandedX, HandedK
  <2> QED  BY <2>1, <1>1 DEF InvX, HandedX, HandedK, TypeOK
<1>4. InvLk'
  BY DEF InvLk, Counted
<1>5. InvK'
  <2>1. k.queue # <<p>>
    BY <1>1 DEF HandedX, HandedK, InvK
  <2> QED  BY <2>1 DEF InvK, TypeOK
<1>6. InvWake'
  <2>1. \A o \in Procs : o # p =>
          (HandedX(o) <=> HandedX(o)') /\ (HandedK(o) <=> HandedK(o)')
    BY DEF HandedX, HandedK
  <2> QED  BY <2>1, <1>1 DEF InvWake, TypeOK
<1> QED  BY <1>2, <1>3, <1>4, <1>5, <1>6

\* procwakeup: the wakeup of a hand-off is posted.
LEMMA ProcwakeupIInv ==
  ASSUME IInv, NEW p \in Procs, Procwakeup(p)
  PROVE  IInv'
<1> USE DEF IInv, Procwakeup
<1>1. /\ target[p] \in Procs
      /\ credit[target[p]] = 0
      /\ HandedX(target[p]) \/ HandedK(target[p])
  BY DEF InvWake, TypeOK
<1>2. TypeOK'
  BY <1>1 DEF TypeOK
<1>3. InvX' /\ InvK'
  BY DEF InvX, InvK
<1>4. InvLk'
  BY DEF InvLk, Counted
<1>5. InvWake'
  <2>1. \A o \in Procs : (HandedX(o) <=> HandedX(o)') /\ (HandedK(o) <=> HandedK(o)')
    BY DEF HandedX, HandedK
  <2> QED  BY <2>1, <1>1 DEF InvWake, TypeOK
<1> QED  BY <1>2, <1>3, <1>4, <1>5

\* l->readers++ under lk.
LEMMA RlockCountIInv ==
  ASSUME IInv, NEW p \in Procs, RlockCount(p)
  PROVE  IInv'
<1> USE DEF IInv, RlockCount, At, Goto
<1>0. x.hold = p
  BY DEF InvX, XHolders
<1>1. TypeOK'
  BY DEF TypeOK, States
<1>2. InvX'
  <2>1. \A i \in DOMAIN x.queue : x.queue[i] # p
    BY <1>0 DEF InvX
  <2> QED  BY <2>1, QueueDomain DEF InvX, XHolders, TypeOK
<1>3. InvLk'
  <2>1. p \notin Counted /\ Counted' = Counted \union {p}
    BY DEF Counted, TypeOK
  <2>2. readers' = Cardinality(Counted')
    BY <2>1, CountJoin DEF InvLk
  <2> QED  BY <2>2 DEF InvLk, TypeOK
<1>4. InvK'
  BY <1>0 DEF InvK, InvX, XHolders, TypeOK
<1>5. InvWake'
  <2>1. \A o \in Procs : (HandedX(o) <=> HandedX(o)') /\ (HandedK(o) <=> HandedK(o)')
    BY DEF HandedX, HandedK, TypeOK
  <2> QED  BY <2>1 DEF InvWake, TypeOK
<1> QED  BY <1>1, <1>2, <1>3, <1>4, <1>5

\* canqlock(&l->k) takes k for the readers, or finds it taken for them.
LEMMA RlockTryIInv ==
  ASSUME IInv, NEW p \in Procs, RlockTry(p)
  PROVE  IInv'
<1> USE DEF IInv, RlockTry, At, Goto
<1>0. x.hold = p /\ lk = p
  BY DEF InvX, InvLk, XHolders
<1>1. k' \in QLocks /\ k'.hold # None /\ k'.queue = k.queue
  <2>1. k \in QLocks
    BY DEF TypeOK
  <2>2. CASE k.hold = None
    <3>1. k' = [hold |-> p, queue |-> k.queue] /\ k' \in QLocks
      BY <2>1, <2>2, TakeFree
    <3> QED  BY <3>1
  <2>3. CASE k.hold # None
    BY <2>1, <2>3, TryHeld
  <2> QED  BY <2>2, <2>3
<1>2. TypeOK'
  BY <1>1 DEF TypeOK, States
<1>3. InvX'
  BY <1>0, QueueDomain DEF InvX, XHolders, TypeOK
<1>4. InvLk'
  <2>1. Counted' = Counted
    BY DEF Counted, TypeOK
  <2> QED  BY <1>0, <2>1 DEF InvLk, TypeOK
<1>5. InvK'
  BY <1>0, <1>1 DEF InvK, InvX, XHolders, TypeOK
<1>6. InvWake'
  <2>1. \A o \in Procs : (HandedX(o) <=> HandedX(o)') /\ (HandedK(o) <=> HandedK(o)')
    BY <1>1 DEF HandedX, HandedK, TypeOK
  <2> QED  BY <2>1 DEF InvWake, TypeOK
<1> QED  BY <1>2, <1>3, <1>4, <1>5, <1>6

\* --l->readers under lk; the last reader keeps lk.
LEMMA RunlockIInv ==
  ASSUME IInv, NEW p \in Procs, Runlock(p)
  PROVE  IInv'
<1> USE DEF IInv, Runlock, At, Goto
<1>0. x.hold # p
  BY DEF InvX, XHolders
<1>1. p \in Counted /\ Counted' = Counted \ {p}
  BY DEF Counted, TypeOK
<1>2. readers' = Cardinality(Counted') /\ readers' \in Nat
  <2>1. readers' = Cardinality(Counted')
    BY <1>1, CountLeave DEF InvLk
  <2> QED  BY <2>1, <1>1, CountedFinite, FS_RemoveElement, FS_CardinalityType
<1>3. TypeOK'
  BY <1>2 DEF TypeOK, States
<1>4. InvX'
  BY <1>0, QueueDomain DEF InvX, XHolders, TypeOK
<1>5. InvLk'
  BY <1>2 DEF InvLk, TypeOK
<1>6. InvK'
  BY DEF InvK, TypeOK
<1>7. InvWake'
  <2>1. \A o \in Procs : (HandedX(o) <=> HandedX(o)') /\ (HandedK(o) <=> HandedK(o)')
    BY DEF HandedX, HandedK, TypeOK
  <2> QED  BY <2>1 DEF InvWake, TypeOK
<1> QED  BY <1>3, <1>4, <1>5, <1>6, <1>7

\* unlock(&l->lk) at the end of runlock.
LEMMA RunlockDoneIInv ==
  ASSUME IInv, NEW p \in Procs, RunlockDone(p)
  PROVE  IInv'
<1> USE DEF IInv, RunlockDone, At, Goto
<1>0. x.hold # p /\ lk = p
  BY DEF InvX, InvLk, XHolders
<1>1. TypeOK'
  BY DEF TypeOK, States
<1>2. InvX'
  BY <1>0, QueueDomain DEF InvX, XHolders, TypeOK
<1>3. InvLk'
  <2>1. Counted' = Counted
    BY DEF Counted, TypeOK
  <2> QED  BY <1>0, <2>1 DEF InvLk, TypeOK
<1>4. InvK'
  BY DEF InvK, TypeOK
<1>5. InvWake'
  <2>1. \A o \in Procs : (HandedX(o) <=> HandedX(o)') /\ (HandedK(o) <=> HandedK(o)')
    BY DEF HandedX, HandedK, TypeOK
  <2> QED  BY <2>1 DEF InvWake, TypeOK
<1> QED  BY <1>1, <1>2, <1>3, <1>4, <1>5

\* qlock(&l->k) by the writer that has x: k was free, or its queue was empty.
LEMMA WlockReadersIInv ==
  ASSUME IInv, NEW p \in Procs, WlockReaders(p)
  PROVE  IInv'
<1> USE DEF IInv, WlockReaders, At, Goto, SleepIfHeld
<1>0. x.hold = p
  BY DEF InvX, XHolders
<1>1. k.queue = <<>> /\ k \in QLocks
  BY <1>0 DEF InvK, InvX, XHolders, TypeOK
<1>2. CASE k.hold = None
  <2>1. k' = [hold |-> p, queue |-> <<>>] /\ k' \in QLocks /\ asleep' = asleep
    BY <1>1, <1>2, TakeFree
  <2>2. TypeOK'
    BY <2>1 DEF TypeOK, States
  <2>3. InvX'
    BY <1>0, QueueDomain DEF InvX, XHolders, TypeOK
  <2>4. InvLk'
    <3>1. Counted' = Counted
      BY DEF Counted, TypeOK
    <3> QED  BY <3>1 DEF InvLk, TypeOK
  <2>5. InvK'
    <3>1. \A o \in Procs : pc[o] \notin {"r2", "r3", "reading", "u1"}
      BY <1>0, <1>2 DEF InvK, InvX, XHolders
    <3> QED  BY <2>1, <3>1 DEF InvK, TypeOK
  <2>6. InvWake'
    <3>1. \A o \in Procs : (HandedX(o) <=> HandedX(o)') /\ (HandedK(o) => HandedK(o)')
      BY <2>1 DEF HandedX, HandedK, TypeOK
    <3> QED  BY <2>1, <3>1 DEF InvWake, TypeOK
  <2> QED  BY <2>2, <2>3, <2>4, <2>5, <2>6
<1>3. CASE k.hold # None
  <2>1. /\ k' \in QLocks /\ k'.hold = k.hold /\ k'.queue = Append(<<>>, p)
        /\ asleep' = asleep \union {p}
    BY <1>1, <1>3, QueueOnHeld
  <2>2. k'.queue = <<p>> /\ k'.queue # <<>>
    BY <2>1
  <2>3. TypeOK'
    BY <2>1 DEF TypeOK, States
  <2>4. InvX'
    BY <1>0, <2>1, QueueDomain DEF InvX, XHolders, TypeOK
  <2>5. InvLk'
    <3>1. Counted' = Counted
      BY DEF Counted, TypeOK
    <3> QED  BY <3>1 DEF InvLk, TypeOK
  <2>6. InvK'
    BY <2>1, <2>2, <1>0 DEF InvK, InvX, XHolders, TypeOK
  <2>7. InvWake'
    <3>1. \A o \in Procs : HandedX(o) => HandedX(o)'
      BY <2>1 DEF HandedX, TypeOK
    <3>2. \A o \in Procs : ~HandedK(o)
      BY <1>0 DEF HandedK, InvX, XHolders
    <3>3. \A o \in Procs : target[o] # p
      BY DEF InvWake, HandedX, HandedK
    <3> QED  BY <2>1, <3>1, <3>2, <3>3 DEF InvWake, TypeOK
  <2> QED  BY <2>3, <2>4, <2>5, <2>6, <2>7
<1> QED  BY <1>2, <1>3

\* qunlock(&l->k), by the last reader or by the writer: nobody reads, and the
\* writer that waits, if there is one, gets k and its one wakeup next.
LEMMA LeaveK ==
  ASSUME IInv, NEW p \in Procs, NEW l \in {"u2", "v1"},
         p \notin asleep, target[p] = None,
         \/ pc[p] = "u1" /\ l = "u2"
         \/ pc[p] = "writing" /\ l = "v1",
         k' = Released(k), WakeNext(k, p), Goto(p, l),
         UNCHANGED <<x, lk, readers, asleep, credit>>
  PROVE  IInv'
<1> USE DEF IInv, WakeNext, Goto
<1>0. k \in QLocks /\ pc' = [pc EXCEPT ![p] = l]
  BY DEF TypeOK
<1>1. k' \in QLocks /\ ToWake(k) \in Procs \union {None}
  BY <1>0, ReleaseEmpty, ReleaseCons
<1>2. TypeOK'
  BY <1>0, <1>1 DEF TypeOK, States
<1>3. InvX'
  BY <1>0, QueueDomain DEF InvX, XHolders, TypeOK
<1>4. InvLk'
  <2>1. Counted' = Counted
    BY <1>0 DEF Counted, TypeOK
  <2> QED  BY <1>0, <2>1 DEF InvLk, TypeOK
<1>5. \A o \in Procs : pc'[o] \notin {"r2", "r3", "reading", "u1"}
  <2>1. CASE pc[p] = "u1"
    <3>1. Counted = {} /\ lk = p
      BY <2>1, NoReaders DEF InvLk
    <3> QED  BY <2>1, <3>1, <1>0 DEF InvLk, Counted, TypeOK
  <2>2. CASE pc[p] = "writing"
    <3>1. x.hold = p
      BY <2>2 DEF InvX, XHolders
    <3>2. k.queue = <<>>
      <4> SUFFICES ASSUME k.queue # <<>>
                   PROVE  FALSE
        OBVIOUS
      <4>1. PICK w \in Procs : pc[w] = "writing" /\ w \in asleep
        BY DEF InvK
      <4>2. x.hold = w
        BY <4>1 DEF InvX, XHolders
      <4> QED  BY <3>1, <4>1, <4>2
    <3> QED  BY <2>2, <3>2, <1>0 DEF InvK, TypeOK
  <2> QED  BY <2>1, <2>2
<1>6. \A o \in Procs : HandedX(o) <=> HandedX(o)'
  BY <1>0 DEF HandedX, TypeOK
<1>7. CASE k.queue = <<>>
  <2>1. /\ k' = [hold |-> None, queue |-> <<>>]
        /\ target' = [target EXCEPT ![p] = None]
    BY <1>7, <1>0, ReleaseEmpty
  <2>2. \A o \in Procs : pc'[o] # "writing"
    <3>1. CASE pc[p] = "u1"
      BY <3>1, <1>7, <1>0 DEF InvK, TypeOK
    <3>2. CASE pc[p] = "writing"
      BY <3>2, <1>0 DEF InvX, XHolders, TypeOK
    <3> QED  BY <3>1, <3>2
  <2>3. InvK'
    BY <2>1, <2>2, <1>5 DEF InvK
  <2>4. \A o \in Procs : HandedK(o) => HandedK(o)'
    BY <2>1, <1>0 DEF HandedK, TypeOK
  <2>5. InvWake'
    BY <2>1, <2>4, <1>6, <1>0 DEF InvWake, TypeOK
  <2> QED  BY <2>3, <2>5, <1>2, <1>3, <1>4
<1>8. CASE k.queue # <<>>
  <2>1. PICK w \in Procs : k.queue = <<w>> /\ pc[w] = "writing" /\ w \in asleep
    BY <1>8 DEF InvK
  <2>2. k' = [hold |-> w, queue |-> Tail(<<w>>)] /\ ToWake(k) = w
    BY <2>1, <1>8, <1>0, ReleaseCons
  <2>3. k'.hold = w /\ k'.queue = <<>> /\ target' = [target EXCEPT ![p] = w]
    BY <2>2
  <2>4. w # p /\ \A o \in Procs : pc'[o] = "writing" => o = w
    BY <2>1, <1>0 DEF InvX, XHolders, TypeOK
  <2>5. InvK'
    BY <2>3, <1>5 DEF InvK
  <2>6. HandedK(w)' /\ ~HandedK(w) /\ ~HandedX(w)
    BY <2>1, <2>3, <2>4, <1>0, <1>8 DEF HandedK, HandedX, TypeOK
  <2>7. credit[w] = 0 /\ \A v \in Procs : target[v] # w
    BY <2>6 DEF InvWake
  <2>8. \A o \in Procs : ~HandedK(o)
    BY <1>8 DEF HandedK
  <2>9. InvWake'
    BY <2>3, <2>6, <2>7, <2>8, <1>6, <1>0 DEF InvWake, TypeOK
  <2> QED  BY <2>5, <2>9, <1>2, <1>3, <1>4
<1> QED  BY <1>7, <1>8

-----------------------------------------------------------------------------
\* The invariant is inductive.
LEMMA NextIInv == IInv /\ [Next]_vars => IInv'
<1> SUFFICES ASSUME IInv, [Next]_vars
             PROVE  IInv'
  OBVIOUS
<1>1. ASSUME NEW p \in Procs, Rlock(p)
      PROVE  IInv'
  BY <1>1, EnterX DEF Rlock
<1>2. ASSUME NEW p \in Procs, Wlock(p)
      PROVE  IInv'
  BY <1>2, EnterX DEF Wlock
<1>3. ASSUME NEW p \in Procs, RlockDone(p)
      PROVE  IInv'
  <2>1. x.hold = p
    BY <1>3 DEF RlockDone, At, IInv, InvX, XHolders
  <2> QED  BY <1>3, <2>1, LeaveX DEF RlockDone, At
<1>4. ASSUME NEW p \in Procs, WunlockDone(p)
      PROVE  IInv'
  <2>1. x.hold = p
    BY <1>4 DEF WunlockDone, At, IInv, InvX, XHolders
  <2> QED  BY <1>4, <2>1, LeaveX DEF WunlockDone, At
<1>5. ASSUME NEW p \in Procs, RunlockLast(p)
      PROVE  IInv'
  BY <1>5, LeaveK DEF RunlockLast, At
<1>6. ASSUME NEW p \in Procs, Wunlock(p)
      PROVE  IInv'
  BY <1>6, LeaveK DEF Wunlock, At
<1>7. CASE UNCHANGED vars
  BY <1>7 DEF vars, IInv, TypeOK, InvX, InvLk, InvK, InvWake, Counted, HandedX,
              HandedK
<1> QED
  BY <1>1, <1>2, <1>3, <1>4, <1>5, <1>6, <1>7, AwakeIInv, ProcwakeupIInv,
     RlockCountIInv, RlockTryIInv, RunlockIInv, RunlockDoneIInv,
     WlockReadersIInv DEF Next, Continue

\* The invariant holds of every state of a readers/writer lock.
THEOREM SpecIInv == Spec => []IInv
  BY InitIInv, NextIInv, PTL DEF Spec

\* The variables keep their types; the count of readers is never negative.
THEOREM RWLockTypeOK == Spec => []TypeOK
<1>1. IInv => TypeOK
  BY DEF IInv
<1> QED  BY <1>1, SpecIInv, PTL

\* A Proc past wlock is alone: no other writes and none reads.
THEOREM RWLockExcludes == Spec => []Exclusion
<1>1. IInv => Exclusion
  <2> SUFFICES ASSUME IInv, NEW p \in Procs, NEW o \in Procs, p # o, Writing(p)
               PROVE  ~Writing(o) /\ ~Reading(o)
    BY DEF Exclusion
  <2> USE DEF IInv
  <2>1. x.hold = p
    BY DEF InvX, XHolders, Writing
  <2>2. ~Writing(o)
    BY <2>1 DEF InvX, XHolders, Writing
  <2>3. k.queue = <<>>
    BY <2>1 DEF InvK, InvX, XHolders, Writing
  <2>4. ~Reading(o)
    BY <2>3 DEF InvK, Writing, Reading
  <2> QED  BY <2>2, <2>4
<1> QED  BY <1>1, SpecIInv, PTL

\* While a writer has x nobody joins the readers.
THEOREM RWLockWriterFirst == Spec => WriterFirst
<1>1. IInv /\ [Next]_vars =>
        [(\E w \in Procs : pc[w] = "writing") => readers' <= readers]_vars
  <2> SUFFICES ASSUME IInv, Next, NEW w \in Procs, pc[w] = "writing"
               PROVE  readers' <= readers
    OBVIOUS
  <2>1. readers \in Nat
    BY DEF IInv, TypeOK
  <2>2. ASSUME NEW p \in Procs, RlockCount(p)
        PROVE  FALSE
    BY <2>2 DEF RlockCount, At, IInv, InvX, XHolders
  <2> QED
    BY <2>1, <2>2 DEF Next, Continue, Rlock, Wlock, Awake, Procwakeup, RlockTry,
       RlockDone, Runlock, RunlockLast, RunlockDone, WlockReaders, Wunlock,
       WunlockDone
<1> QED  BY <1>1, SpecIInv, PTL DEF Spec, WriterFirst

-----------------------------------------------------------------------------
\* Who k is held for, and that nobody waits for it while it is free.
KeyUser(p) ==
  \/ pc[p] \in {"r3", "reading", "u1"}
  \/ pc[p] = "writing"
  \/ pc[p] = "r2" /\ readers > 1

KeyInv ==
  /\ k.hold # None => \E p \in Procs : KeyUser(p)
  /\ k.queue # <<>> => k.hold # None

LEMMA InitKeyInv == Init => KeyInv
  BY DEF Init, KeyInv, FreeLock

\* A reader that leaves others behind leaves one that k is held for: none is
\* between lock and unlock in rlock, for lk is free.
LEMMA RunlockKeyInv ==
  ASSUME IInv, KeyInv, NEW p \in Procs, Runlock(p)
  PROVE  KeyInv'
<1>1. /\ pc[p] = "reading" /\ lk = None /\ readers' = readers - 1 /\ UNCHANGED k
      /\ pc' = [pc EXCEPT ![p] = IF readers' = 0 THEN "u1" ELSE "out"]
      /\ pc \in [Procs -> States] /\ readers \in Nat
  BY DEF Runlock, At, Goto, IInv, TypeOK
<1>2. CASE readers' = 0
  <2>1. KeyUser(p)'
    BY <1>1, <1>2 DEF KeyUser
  <2> QED BY <1>1, <2>1 DEF KeyInv
<1>3. CASE readers' # 0
  <2>1. p \in Counted /\ readers = Cardinality(Counted)
    BY <1>1 DEF Counted, IInv, InvLk
  <2>2. Cardinality(Counted \ {p}) = readers - 1
    BY <2>1, CountedFinite, FS_RemoveElement
  <2>3. Counted \ {p} # {}
    BY <1>1, <1>3, <2>2, FS_EmptySet
  <2>4. PICK q \in Procs : q # p /\ pc[q] \in {"r2", "r3", "reading"}
    BY <2>3 DEF Counted
  <2>5. pc[q] # "r2"
    BY <1>1, NoneAssumption DEF IInv, InvLk
  <2>6. KeyUser(q)'
    BY <1>1, <2>4, <2>5 DEF KeyUser
  <2> QED BY <1>1, <2>6 DEF KeyInv
<1> QED BY <1>2, <1>3

\* The k that qunlock hands on is held for the writer that waited.
LEMMA ReleaseKeyInv ==
  ASSUME IInv, KeyInv, NEW p \in Procs, NEW l \in {"u2", "v1"}, p \notin asleep,
         k' = Released(k), pc' = [pc EXCEPT ![p] = l]
  PROVE  KeyInv'
<1>1. k \in QLocks /\ pc \in [Procs -> States]
  BY DEF IInv, TypeOK
<1>2. CASE k.queue = <<>>
  <2>1. k' = [hold |-> None, queue |-> <<>>]
    BY <1>1, <1>2 DEF Released, QLocks
  <2> QED BY <2>1 DEF KeyInv
<1>3. CASE k.queue # <<>>
  <2>1. PICK w \in Procs : k.queue = <<w>> /\ pc[w] = "writing" /\ w \in asleep
    BY <1>3 DEF IInv, InvK
  <2>2. k' = [hold |-> w, queue |-> Tail(<<w>>)]
    BY <2>1 DEF Released
  <2>3. k'.hold = w /\ w # None /\ KeyUser(w)'
    BY <1>1, <2>1, <2>2, NoneAssumption DEF KeyUser
  <2> QED BY <2>3 DEF KeyInv
<1> QED BY <1>2, <1>3

LEMMA NextKeyInv == IInv /\ KeyInv /\ [Next]_vars => KeyInv'
<1> SUFFICES ASSUME IInv, KeyInv, [Next]_vars
             PROVE  KeyInv'
  OBVIOUS
<1>1. /\ k \in QLocks /\ pc \in [Procs -> States] /\ readers \in Nat
      /\ \A o \in Procs : o # None
  BY NoneAssumption DEF IInv, TypeOK
<1>2. ASSUME NEW p \in Procs, Rlock(p) \/ Wlock(p)
      PROVE  KeyInv'
  <2>1. \A o \in Procs : KeyUser(o) => KeyUser(o)'
    BY <1>1, <1>2 DEF Rlock, Wlock, At, Goto, KeyUser
  <2>2. UNCHANGED k
    BY <1>2 DEF Rlock, Wlock
  <2> QED BY <2>1, <2>2 DEF KeyInv
<1>3. ASSUME NEW p \in Procs, Awake(p) \/ Procwakeup(p)
      PROVE  KeyInv'
  BY <1>3 DEF Awake, Procwakeup, KeyInv, KeyUser
<1>4. ASSUME NEW p \in Procs, RlockCount(p)
      PROVE  KeyInv'
  <2>1. \A o \in Procs : KeyUser(o) => KeyUser(o)'
    BY <1>1, <1>4 DEF RlockCount, At, Goto, KeyUser
  <2> QED BY <1>4, <2>1 DEF RlockCount, KeyInv
<1>5. ASSUME NEW p \in Procs, RlockTry(p)
      PROVE  KeyInv'
  <2>1. pc'[p] = "r3" /\ k'.queue = k.queue /\ k'.hold # None
    BY <1>1, <1>5 DEF RlockTry, Goto, Tried, QLocks
  <2>2. KeyUser(p)'
    BY <2>1 DEF KeyUser
  <2> QED BY <2>1, <2>2 DEF KeyInv
<1>6. ASSUME NEW p \in Procs, RlockDone(p)
      PROVE  KeyInv'
  <2>1. \A o \in Procs : KeyUser(o) => KeyUser(o)'
    BY <1>1, <1>6 DEF RlockDone, At, Goto, KeyUser
  <2> QED BY <1>6, <2>1 DEF RlockDone, KeyInv
<1>7. ASSUME NEW p \in Procs, RunlockDone(p)
      PROVE  KeyInv'
  <2>1. \A o \in Procs : KeyUser(o) => KeyUser(o)'
    BY <1>1, <1>7 DEF RunlockDone, At, Goto, KeyUser
  <2> QED BY <1>7, <2>1 DEF RunlockDone, KeyInv
<1>8. ASSUME NEW p \in Procs, WlockReaders(p)
      PROVE  KeyInv'
  <2>1. pc'[p] = "writing" /\ k'.hold # None
    BY <1>1, <1>8 DEF WlockReaders, Goto, Enqueued, QLocks
  <2>2. KeyUser(p)'
    BY <2>1 DEF KeyUser
  <2> QED BY <2>1, <2>2 DEF KeyInv
<1>9. ASSUME NEW p \in Procs, WunlockDone(p)
      PROVE  KeyInv'
  <2>1. \A o \in Procs : KeyUser(o) => KeyUser(o)'
    BY <1>1, <1>9 DEF WunlockDone, At, Goto, KeyUser
  <2> QED BY <1>9, <2>1 DEF WunlockDone, KeyInv
<1>10. ASSUME NEW p \in Procs, RunlockLast(p) \/ Wunlock(p)
       PROVE  KeyInv'
  BY <1>10, ReleaseKeyInv DEF RunlockLast, Wunlock, At, Goto
<1>11. CASE UNCHANGED vars
  BY <1>11 DEF vars, KeyInv, KeyUser
<1> QED
  BY <1>2, <1>3, <1>4, <1>5, <1>6, <1>7, <1>8, <1>9, <1>10, <1>11, RunlockKeyInv
     DEF Next, Continue

\* k is held exactly while readers are in, a reader leaves or a writer has it:
\* it is neither kept when everyone has left nor free while somebody is in.
THEOREM RWLockKeyAccounted == Spec => []KeyAccounted
<1>1. IInv /\ KeyInv => KeyAccounted
  <2> SUFFICES ASSUME IInv, KeyInv
               PROVE  KeyAccounted
    OBVIOUS
  <2>1. ASSUME NEW p \in Procs, KeyUser(p)
        PROVE  k.hold # None
    <3>1. CASE pc[p] \in {"r3", "reading", "u1"}
      BY <3>1 DEF IInv, InvK
    <3>2. CASE pc[p] = "writing"
      BY <3>2 DEF IInv, InvK, KeyInv
    <3>3. CASE pc[p] = "r2" /\ readers > 1
      <4>1. p \in Counted /\ readers = Cardinality(Counted) /\ readers \in Nat
        BY <3>3 DEF Counted, IInv, InvLk, TypeOK
      <4>2. Cardinality(Counted \ {p}) = readers - 1
        BY <4>1, CountedFinite, FS_RemoveElement
      <4>3. Counted \ {p} # {}
        <5>1. Cardinality({}) = 0
          BY FS_EmptySet
        <5> QED BY <3>3, <4>1, <4>2, <5>1
      <4>4. PICK q \in Procs : q # p /\ pc[q] \in {"r2", "r3", "reading"}
        BY <4>3 DEF Counted
      <4>5. pc[q] # "r2"
        BY <3>3, <4>4 DEF IInv, InvLk
      <4> QED BY <4>4, <4>5 DEF IInv, InvK
    <3> QED BY <2>1, <3>1, <3>2, <3>3 DEF KeyUser
  <2> QED BY <2>1 DEF KeyAccounted, KeyInv, KeyUser
<1> QED BY <1>1, SpecIInv, InitKeyInv, NextKeyInv, PTL DEF Spec
=============================================================================
