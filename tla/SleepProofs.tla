---------------------------- MODULE SleepProofs ----------------------------
(***************************************************************************)
(* Proofs about procsleep and procwakeup, for any set of Procs and any     *)
(* MaxSleeps below the largest C int; and about what is built on them.  A  *)
(* QLock over their counters implements a QLock over a semaphore, and the  *)
(* steps of that keep the invariant of QLock, whose credit is the counters *)
(* mapped.  sleep and wakeup lose no wakeup, for any number of sleepers    *)
(* behind a qlock and any number of wakers.                                *)
(***************************************************************************)
EXTENDS QLockSleep, Rendez, Integers, SequenceTheorems, TLAPS

\* Nothing is owed and nothing counted before the first sleep.
LEMMA InitIInv == Init => IInv
  BY DEF Init, IInv, TypeOK, Balance

\* Every step keeps each Proc's counters in balance.
LEMMA NextIInv == IInv /\ [Next]_vars => IInv'
<1> SUFFICES ASSUME IInv, [Next]_vars
             PROVE  IInv'
  OBVIOUS
<1> USE DEF IInv, TypeOK, Balance
<1>1. ASSUME NEW p \in Procs, Commit(p)
      PROVE  IInv'
  BY <1>1 DEF Commit
<1>2. ASSUME NEW p \in Procs, Procsleep(p)
      PROVE  IInv'
  <2>1. TypeOK'
    BY <1>2 DEF Procsleep
  <2>2. ASSUME NEW o \in Procs
        PROVE  Balance(o)'
    BY <1>2, <2>2 DEF Procsleep
  <2> QED  BY <2>1, <2>2
<1>3. ASSUME NEW p \in Procs, Recheck(p)
      PROVE  IInv'
  <2>1. TypeOK'
    BY <1>3 DEF Recheck
  <2>2. ASSUME NEW o \in Procs
        PROVE  Balance(o)'
    BY <1>3, <2>2 DEF Recheck
  <2> QED  BY <2>1, <2>2
<1>4. ASSUME NEW p \in Procs, Procwakeup(p)
      PROVE  IInv'
  <2>1. TypeOK'
    BY <1>4 DEF Procwakeup
  <2>2. ASSUME NEW o \in Procs
        PROVE  Balance(o)'
    BY <1>4, <2>2 DEF Procwakeup
  <2> QED  BY <2>1, <2>2
<1>5. CASE UNCHANGED vars
  BY <1>5 DEF vars
<1> QED  BY <1>1, <1>2, <1>3, <1>4, <1>5 DEF Next

\* The balance of the counters is an invariant of procsleep/procwakeup.
THEOREM SpecIInv == Spec => []IInv
  BY InitIInv, NextIInv, PTL DEF Spec

\* The variables of procsleep/procwakeup keep their types.
THEOREM SleepTypeOK == Spec => []TypeOK
<1>1. IInv => TypeOK
  BY DEF IInv
<1> QED  BY <1>1, SpecIInv, PTL

\* procsleep returns only for a wakeup, one for one.
THEOREM SleepNoEarlyReturn == Spec => []NoEarlyReturn
<1>1. IInv => NoEarlyReturn
  BY DEF IInv, Balance, NoEarlyReturn
<1> QED  BY <1>1, SpecIInv, PTL

\* A Proc whose wakeup was given is never left waiting without a signal.
THEOREM SleepNoLostSignal == Spec => []NoLostSignal
<1>1. IInv => NoLostSignal
  BY DEF IInv, TypeOK, Balance, NoLostSignal
<1> QED  BY <1>1, SpecIInv, PTL

\* One entry of the mapped credit is all that a step may change.
LEMMA CreditExcept ==
  ASSUME IInv, IInv', NEW p \in Procs, NEW n \in Int, credit'[p] = n,
         \A o \in Procs \ {p} : credit'[o] = credit[o]
  PROVE  credit' = [credit EXCEPT ![p] = n]
<1>1. credit \in [Procs -> Int] /\ credit' \in [Procs -> Int]
  BY DEF IInv, TypeOK, credit
<1>2. \A o \in Procs : credit'[o] = [credit EXCEPT ![p] = n][o]
  BY <1>1
<1> QED  BY <1>1, <1>2

\* Under the invariant every step is a step of the semaphore or a stutter.
LEMMA StepRefines == IInv /\ IInv' /\ [Next]_vars => [Abs!Next]_Abs!vars
<1> SUFFICES ASSUME IInv, IInv', [Next]_vars
             PROVE  [Abs!Next]_Abs!vars
  OBVIOUS
<1> USE DEF IInv, TypeOK, Balance
<1>1. ASSUME NEW p \in Procs, Commit(p)
      PROVE  Abs!Commit(p)
  <2>1. credit' = credit
    BY <1>1 DEF Commit, credit
  <2>2. asleep' = asleep \union {p}
    BY <1>1 DEF Commit, asleep
  <2> QED  BY <1>1, <2>1, <2>2 DEF Commit, asleep, Abs!Commit
<1>2. ASSUME NEW p \in Procs, Procsleep(p)
      PROVE  Abs!Return(p) \/ UNCHANGED Abs!vars
  <2>1. CASE p \in owed
    <3>1. credit' = credit /\ asleep' = asleep /\ owed' = owed
      BY <1>2, <2>1 DEF Procsleep, credit, asleep
    <3> QED  BY <3>1 DEF Abs!vars
  <2>2. CASE p \notin owed
    <3>0. nsleep'[p] = nwakeup[p] /\ nwakeup' = nwakeup
      BY <1>2, <2>2 DEF Procsleep
    <3>6. ~(nsleep'[p] > nwakeup[p])
      BY <3>0
    <3>1. pc' = [pc EXCEPT ![p] = "run"]
      BY <1>2, <3>6, Zenon DEF Procsleep
    <3>2. credit[p] = 1 /\ p \in asleep
      BY <1>2, <2>2 DEF Procsleep, credit, asleep
    <3>3. asleep' = asleep \ {p}
      BY <3>1 DEF asleep
    <3>4. credit'[p] = 0 /\ \A o \in Procs \ {p} : credit'[o] = credit[o]
      BY <1>2, <3>0, <3>1 DEF Procsleep, credit
    <3>5. credit' = [credit EXCEPT ![p] = 0]
      BY <3>4, CreditExcept
    <3> QED  BY <1>2, <3>2, <3>3, <3>5 DEF Procsleep, Abs!Return
  <2> QED  BY <2>1, <2>2
<1>3. ASSUME NEW p \in Procs, Recheck(p)
      PROVE  Abs!Return(p) \/ UNCHANGED Abs!vars
  <2>1. CASE p \in owed
    <3>1. credit' = credit /\ asleep' = asleep /\ owed' = owed
      BY <1>3, <2>1 DEF Recheck, credit, asleep
    <3> QED  BY <3>1 DEF Abs!vars
  <2>2. CASE p \notin owed
    <3>1. pc' = [pc EXCEPT ![p] = "run"]
      BY <1>3, <2>2 DEF Recheck
    <3>2. credit[p] = 1 /\ p \in asleep
      BY <1>3, <2>2 DEF Recheck, credit, asleep
    <3>3. asleep' = asleep \ {p}
      BY <3>1 DEF asleep
    <3>4. credit'[p] = 0 /\ \A o \in Procs \ {p} : credit'[o] = credit[o]
      BY <1>3, <2>2, <3>1 DEF Recheck, credit
    <3>5. credit' = [credit EXCEPT ![p] = 0]
      BY <3>4, CreditExcept
    <3> QED  BY <1>3, <3>2, <3>3, <3>5 DEF Recheck, Abs!Return
  <2> QED  BY <2>1, <2>2
<1>4. ASSUME NEW p \in Procs, Procwakeup(p)
      PROVE  Abs!Wakeup(p)
  <2>1. asleep' = asleep
    BY <1>4 DEF Procwakeup, asleep
  <2>2. credit[p] = 0
    BY <1>4 DEF Procwakeup, credit
  <2>3. credit'[p] = 1 /\ \A o \in Procs \ {p} : credit'[o] = credit[o]
    BY <1>4 DEF Procwakeup, credit
  <2>4. credit' = [credit EXCEPT ![p] = 1]
    BY <2>3, CreditExcept
  <2> QED  BY <1>4, <2>1, <2>2, <2>4 DEF Procwakeup, Abs!Wakeup
<1>5. CASE UNCHANGED vars
  BY <1>5 DEF vars, Abs!vars, credit, asleep
<1> QED  BY <1>1, <1>2, <1>3, <1>4, <1>5 DEF Next, Abs!Next

\* procsleep/procwakeup implement the semaphore, its liveness left to the runs.
THEOREM SleepRefines == Spec => AbsSafety
<1>1. Init => Abs!Init
  BY DEF Init, Abs!Init, credit, asleep
<1> QED  BY <1>1, SpecIInv, StepRefines, PTL DEF Spec, AbsSafety

-----------------------------------------------------------------------------
\* The critical sections of qlock.c.

\* A lock is its owner and its queue.
LEMMA QLockFields ==
  ASSUME NEW l \in Lock!QLocks
  PROVE  /\ l.hold \in Procs \union {None}
         /\ l.queue \in Seq(Procs)
         /\ l = [hold |-> l.hold, queue |-> l.queue]
  BY DEF Lock!QLocks

\* ... and any owner and queue make a lock.
LEMMA QLockRecord ==
  ASSUME NEW h \in Procs \union {None}, NEW s \in Seq(Procs)
  PROVE  [hold |-> h, queue |-> s] \in Lock!QLocks
  BY DEF Lock!QLocks

\* The lock a Proc starts with.
LEMMA FreeLockType == Lock!FreeLock \in Lock!QLocks
<1>1. <<>> \in Seq(Procs)
  OBVIOUS
<1> QED  BY <1>1, QLockRecord DEF Lock!FreeLock

\* qlock and canqlock take a free lock.
LEMMA TakeFree ==
  ASSUME NEW l \in Lock!QLocks, NEW p \in Procs, l.hold = None
  PROVE  /\ Lock!Enqueued(l, p) = [hold |-> p, queue |-> l.queue]
         /\ Lock!Tried(l, p) = [hold |-> p, queue |-> l.queue]
         /\ [hold |-> p, queue |-> l.queue] \in Lock!QLocks
<1>1. Lock!Enqueued(l, p) = [hold |-> p, queue |-> l.queue]
  BY QLockFields DEF Lock!Enqueued
<1>2. Lock!Tried(l, p) = [hold |-> p, queue |-> l.queue]
  BY QLockFields DEF Lock!Tried
<1> QED  BY <1>1, <1>2, QLockFields, QLockRecord

\* canqlock leaves a held lock alone.
LEMMA TryHeld ==
  ASSUME NEW l \in Lock!QLocks, NEW p \in Procs, l.hold # None
  PROVE  Lock!Tried(l, p) = l
  BY DEF Lock!Tried

\* qlock puts the caller at the end of the queue of a held lock.
LEMMA QueueOnHeld ==
  ASSUME NEW l \in Lock!QLocks, NEW p \in Procs, l.hold # None
  PROVE  /\ Lock!Enqueued(l, p) \in Lock!QLocks
         /\ Lock!Enqueued(l, p).hold = l.hold
         /\ Lock!Enqueued(l, p).queue = Append(l.queue, p)
         /\ Len(l.queue) \in Nat
         /\ Len(Append(l.queue, p)) = Len(l.queue) + 1
         /\ Append(l.queue, p)[Len(l.queue) + 1] = p
         /\ \A i \in 1 .. Len(l.queue) : Append(l.queue, p)[i] = l.queue[i]
<1>1. l.queue \in Seq(Procs)
  BY QLockFields
<1>2. Append(l.queue, p) \in Seq(Procs)
  BY <1>1
<1>3. Lock!Enqueued(l, p) = [hold |-> l.hold, queue |-> Append(l.queue, p)]
  BY QLockFields DEF Lock!Enqueued
<1>4. Lock!Enqueued(l, p) \in Lock!QLocks
  BY <1>2, <1>3, QLockFields, QLockRecord
<1> QED  BY <1>1, <1>3, <1>4

\* qunlock of a lock nobody waits for frees it.
LEMMA ReleaseEmpty ==
  ASSUME NEW l \in Lock!QLocks, l.queue = <<>>
  PROVE  /\ Lock!Released(l) = [hold |-> None, queue |-> <<>>]
         /\ Lock!Released(l) \in Lock!QLocks
         /\ Lock!ToWake(l) = None
<1>1. Lock!Released(l) = [hold |-> None, queue |-> <<>>]
  BY QLockFields DEF Lock!Released
<1> QED  BY <1>1, FreeLockType DEF Lock!FreeLock, Lock!ToWake

\* qunlock of a lock that is waited for hands it to the head of the queue.
LEMMA ReleaseCons ==
  ASSUME NEW l \in Lock!QLocks, l.queue # <<>>
  PROVE  /\ l.queue[1] \in Procs
         /\ Lock!Released(l) = [hold |-> l.queue[1], queue |-> Tail(l.queue)]
         /\ Lock!Released(l) \in Lock!QLocks
         /\ Lock!ToWake(l) = l.queue[1]
         /\ Len(l.queue) \in Nat \ {0}
         /\ Len(Tail(l.queue)) = Len(l.queue) - 1
         /\ \A i \in 1 .. Len(l.queue) - 1 : Tail(l.queue)[i] = l.queue[i + 1]
<1>1. l.queue \in Seq(Procs)
  BY QLockFields
<1>2. Head(l.queue) = l.queue[1] /\ l.queue[1] \in Procs
  BY <1>1
<1>3. Tail(l.queue) \in Seq(Procs)
  BY <1>1
<1>4. Lock!Released(l) = [hold |-> l.queue[1], queue |-> Tail(l.queue)]
  BY <1>2 DEF Lock!Released
<1>5. Lock!Released(l) \in Lock!QLocks
  BY <1>4, <1>2, <1>3, QLockRecord
<1>6. /\ Len(l.queue) \in Nat \ {0}
      /\ Len(Tail(l.queue)) = Len(l.queue) - 1
      /\ \A i \in 1 .. Len(l.queue) - 1 : Tail(l.queue)[i] = l.queue[i + 1]
  BY <1>1
<1> QED  BY <1>2, <1>4, <1>5, <1>6 DEF Lock!ToWake

\* The queue, element by element.
LEMMA QueueDomain ==
  ASSUME NEW l \in Lock!QLocks
  PROVE  /\ Len(l.queue) \in Nat
         /\ DOMAIN l.queue = 1 .. Len(l.queue)
         /\ \A i \in 1 .. Len(l.queue) : l.queue[i] \in Procs
         /\ l.queue = <<>> <=> Len(l.queue) = 0
  BY QLockFields

-----------------------------------------------------------------------------
\* One QLock.

\* A free lock with everybody out satisfies the invariant.
LEMMA LockInitIInv == Lock!Init => Lock!IInv
<1> SUFFICES ASSUME Lock!Init
             PROVE  Lock!IInv
  OBVIOUS
<1> USE NilAssumption DEF Lock!Init
<1>1. Lock!TypeOK
  BY FreeLockType DEF Lock!TypeOK, Lock!States
<1>2. Lock!Owner /\ Lock!Line
  BY DEF Lock!Owner, Lock!Line, Lock!FreeLock
<1>3. Lock!Wakeup
  BY DEF Lock!Wakeup, Lock!HandedTo, Lock!FreeLock
<1> QED  BY <1>1, <1>2, <1>3 DEF Lock!IInv

\* qlock: the caller becomes the owner, or the last of the queue.
LEMMA QlockIInv ==
  ASSUME Lock!IInv, NEW p \in Procs, Lock!Qlock(p)
  PROVE  Lock!IInv'
<1> USE NilAssumption DEF Lock!IInv, Lock!Qlock
<1>1. CASE q.hold = None
  <2>0. q \in Lock!QLocks /\ q.queue = <<>>
    BY <1>1 DEF Lock!TypeOK, Lock!Line
  <2>1. q' = [hold |-> p, queue |-> <<>>] /\ at' = [at EXCEPT ![p] = "in"]
    BY <1>1, <2>0, TakeFree
  <2>2. Lock!TypeOK'
    BY <2>1, <1>1, TakeFree DEF Lock!TypeOK, Lock!States, Lock!Line
  <2>3. Lock!Owner'
    BY <2>1, <1>1 DEF Lock!Owner, Lock!TypeOK
  <2>4. Lock!Line'
    BY <2>1, <1>1 DEF Lock!Line, Lock!TypeOK
  <2>5. Lock!Wakeup'
    BY <2>1, <1>1 DEF Lock!Wakeup, Lock!HandedTo, Lock!TypeOK
  <2> QED  BY <2>2, <2>3, <2>4, <2>5
<1>2. CASE q.hold # None
  <2>1. /\ q'.hold = q.hold /\ q'.queue = Append(q.queue, p)
        /\ at' = [at EXCEPT ![p] = "sleep"]
    BY <1>2, QueueOnHeld DEF Lock!TypeOK
  <2>2. Lock!TypeOK'
    BY <1>2, QueueOnHeld DEF Lock!TypeOK, Lock!States
  <2>3. Lock!Owner'
    BY <2>1 DEF Lock!Owner, Lock!TypeOK
  <2>4. Lock!Line'
    <3> DEFINE n == Len(q.queue)
    <3>1. /\ n \in Nat /\ DOMAIN q.queue = 1 .. n /\ DOMAIN q'.queue = 1 .. n + 1
          /\ q'.queue[n + 1] = p
          /\ \A i \in 1 .. n : q'.queue[i] = q.queue[i] /\ q.queue[i] \in Procs
      BY <2>1, <2>2, <1>2, QueueOnHeld, QueueDomain DEF Lock!TypeOK
    <3>2. \A i \in 1 .. n : q.queue[i] # p
      BY <3>1 DEF Lock!Line, Lock!TypeOK
    <3>3. q.hold # p
      BY DEF Lock!Owner, Lock!TypeOK
    <3> HIDE DEF n
    <3>4. \A i, j \in DOMAIN q'.queue : q'.queue[i] = q'.queue[j] => i = j
      BY <3>1, <3>2 DEF Lock!Line
    <3>5. \A i \in DOMAIN q'.queue : /\ at'[q'.queue[i]] = "sleep"
                                     /\ q'.queue[i] # q'.hold
      BY <2>1, <3>1, <3>3 DEF Lock!Line, Lock!TypeOK
    <3>6. ASSUME NEW o \in Procs, at'[o] = "sleep"
          PROVE  q'.hold = o \/ \E i \in DOMAIN q'.queue : q'.queue[i] = o
      <4>1. CASE o = p
        BY <4>1, <3>1
      <4>2. CASE o # p
        BY <4>2, <3>1, <3>6, <2>1 DEF Lock!Line, Lock!TypeOK
      <4> QED  BY <4>1, <4>2
    <3> QED  BY <1>2, <2>1, <3>4, <3>5, <3>6 DEF Lock!Line
  <2>5. Lock!Wakeup'
    BY <2>1 DEF Lock!Wakeup, Lock!HandedTo, Lock!Owner, Lock!TypeOK
  <2> QED  BY <2>2, <2>3, <2>4, <2>5
<1> QED  BY <1>1, <1>2

\* The procsleep of qlock returns: the Proc is the owner, and its wakeup used.
LEMMA AwakeIInv ==
  ASSUME Lock!IInv, NEW p \in Procs, Lock!Awake(p)
  PROVE  Lock!IInv'
<1> USE NilAssumption DEF Lock!IInv, Lock!Awake
<1>1. Lock!HandedTo(p) /\ credit[p] = 1
  BY DEF Lock!Wakeup, Lock!TypeOK
<1>2. Lock!TypeOK'
  BY <1>1 DEF Lock!TypeOK, Lock!States
<1>3. Lock!Owner'
  BY <1>1 DEF Lock!Owner, Lock!HandedTo, Lock!TypeOK
<1>4. Lock!Line'
  BY <1>1 DEF Lock!Line, Lock!HandedTo, Lock!TypeOK
<1>5. Lock!Wakeup'
  BY <1>1 DEF Lock!Wakeup, Lock!HandedTo, Lock!TypeOK
<1> QED  BY <1>2, <1>3, <1>4, <1>5

\* canqlock: the caller becomes the owner of a free lock, or nothing happens.
LEMMA CanqlockIInv ==
  ASSUME Lock!IInv, NEW p \in Procs, Lock!Canqlock(p)
  PROVE  Lock!IInv'
<1> USE NilAssumption DEF Lock!IInv, Lock!Canqlock
<1>1. CASE q.hold = None
  <2>0. q \in Lock!QLocks /\ q.queue = <<>>
    BY <1>1 DEF Lock!TypeOK, Lock!Line
  <2>1. q' = [hold |-> p, queue |-> <<>>] /\ at' = [at EXCEPT ![p] = "in"]
    BY <1>1, <2>0, TakeFree
  <2>2. Lock!TypeOK'
    BY <2>1, <1>1, TakeFree DEF Lock!TypeOK, Lock!States, Lock!Line
  <2>3. Lock!Owner'
    BY <2>1, <1>1 DEF Lock!Owner, Lock!TypeOK
  <2>4. Lock!Line'
    BY <2>1, <1>1 DEF Lock!Line, Lock!TypeOK
  <2>5. Lock!Wakeup'
    BY <2>1, <1>1 DEF Lock!Wakeup, Lock!HandedTo, Lock!TypeOK
  <2> QED  BY <2>2, <2>3, <2>4, <2>5
<1>2. CASE q.hold # None
  <2>1. UNCHANGED Lock!vars
    BY <1>2, TryHeld DEF Lock!TypeOK, Lock!vars
  <2> QED  BY <2>1 DEF Lock!vars, Lock!TypeOK, Lock!Owner, Lock!Line, Lock!Wakeup, Lock!HandedTo
<1> QED  BY <1>1, <1>2

\* qunlock: the lock becomes free, or belongs to the head of the queue.
LEMMA QunlockIInv ==
  ASSUME Lock!IInv, NEW p \in Procs, Lock!Qunlock(p)
  PROVE  Lock!IInv'
<1> USE NilAssumption DEF Lock!IInv, Lock!Qunlock
<1>0. q.hold = p
  BY DEF Lock!Owner
<1>1. CASE q.queue = <<>>
  <2>1. /\ q' = [hold |-> None, queue |-> <<>>]
        /\ at' = [at EXCEPT ![p] = "out"]
        /\ target' = [target EXCEPT ![p] = None]
    BY <1>1, ReleaseEmpty DEF Lock!TypeOK
  <2>2. Lock!TypeOK'
    BY <2>1, <1>1, ReleaseEmpty DEF Lock!TypeOK, Lock!States
  <2>3. Lock!Owner'
    BY <2>1, <1>0 DEF Lock!Owner, Lock!TypeOK
  <2>4. Lock!Line'
    BY <2>1, <1>0, <1>1 DEF Lock!Line, Lock!TypeOK
  <2>5. Lock!Wakeup'
    BY <2>1, <1>0, <1>1 DEF Lock!Wakeup, Lock!HandedTo, Lock!TypeOK
  <2> QED  BY <2>2, <2>3, <2>4, <2>5
<1>2. CASE q.queue # <<>>
  <2> DEFINE h == q.queue[1]
  <2>0. q \in Lock!QLocks
    BY DEF Lock!TypeOK
  <2>1. /\ q'.hold = h /\ q'.queue = Tail(q.queue)
        /\ at' = [at EXCEPT ![p] = "wake"]
        /\ target' = [target EXCEPT ![p] = h]
        /\ h \in Procs /\ 1 \in DOMAIN q.queue
    <3>1. h \in Procs /\ 1 \in DOMAIN q.queue
      BY <1>2, <2>0, ReleaseCons, QueueDomain
    <3>2. /\ q' = [hold |-> q.queue[1], queue |-> Tail(q.queue)]
          /\ Lock!ToWake(q) = q.queue[1]
      BY <1>2, <2>0, ReleaseCons
    <3>3. q'.hold = h /\ q'.queue = Tail(q.queue)
      BY <3>2
    <3>4. /\ at' = [at EXCEPT ![p] = "wake"]
          /\ target' = [target EXCEPT ![p] = h]
      BY <3>1, <3>2
    <3> QED  BY <3>1, <3>3, <3>4
  <2>2. at[h] = "sleep" /\ h # p
    BY <2>1, <1>0 DEF Lock!Line
  <2>3. Lock!TypeOK'
    BY <2>1, <1>2, ReleaseCons DEF Lock!TypeOK, Lock!States
  <2>4. Lock!Owner'
    BY <2>1, <2>2, <1>0 DEF Lock!Owner, Lock!TypeOK
  <2>5. Lock!Line'
    <3> DEFINE n == Len(q.queue)
    <3>1. /\ n \in Nat \ {0} /\ DOMAIN q.queue = 1 .. n
          /\ DOMAIN q'.queue = 1 .. n - 1
          /\ \A i \in 1 .. n - 1 : q'.queue[i] = q.queue[i + 1]
          /\ \A i \in 1 .. n : q.queue[i] \in Procs
          /\ q'.queue = <<>> <=> n = 1
      <4>1. n \in Nat \ {0} /\ DOMAIN q.queue = 1 .. n
        BY <1>2, <2>0, QueueDomain
      <4>2. /\ Len(q'.queue) = n - 1
            /\ \A i \in 1 .. n - 1 : q'.queue[i] = q.queue[i + 1]
        BY <1>2, <2>0, <2>1, ReleaseCons
      <4>3. q' \in Lock!QLocks
        BY <2>3 DEF Lock!TypeOK
      <4> HIDE DEF n
      <4>4. DOMAIN q'.queue = 1 .. n - 1 /\ (q'.queue = <<>> <=> n = 1)
        BY <4>1, <4>2, <4>3, QueueDomain
      <4> QED  BY <4>1, <4>2, <4>4, <2>0, QueueDomain DEF n
    <3> HIDE DEF n
    <3>2. ASSUME NEW i \in DOMAIN q'.queue, NEW j \in DOMAIN q'.queue,
                 q'.queue[i] = q'.queue[j]
          PROVE  i = j
      <4>1. /\ i \in 1 .. n - 1 /\ j \in 1 .. n - 1
            /\ i + 1 \in DOMAIN q.queue /\ j + 1 \in DOMAIN q.queue
            /\ q.queue[i + 1] = q.queue[j + 1]
        BY <3>1, <3>2
      <4>2. i + 1 = j + 1
        BY <4>1 DEF Lock!Line
      <4> QED  BY <4>1, <4>2
    <3>3. ASSUME NEW i \in DOMAIN q'.queue
          PROVE  at'[q'.queue[i]] = "sleep" /\ q'.queue[i] # q'.hold
      <4>1. /\ i + 1 \in DOMAIN q.queue /\ i + 1 # 1
            /\ q'.queue[i] = q.queue[i + 1] /\ q'.queue[i] \in Procs
        BY <3>1
      <4>2. at[q'.queue[i]] = "sleep" /\ q'.queue[i] # h /\ q'.queue[i] # p
        BY <4>1, <2>1, <1>0 DEF Lock!Line
      <4> QED  BY <4>1, <4>2, <2>1 DEF Lock!TypeOK
    <3>4. ASSUME NEW o \in Procs, at'[o] = "sleep"
          PROVE  q'.hold = o \/ \E i \in DOMAIN q'.queue : q'.queue[i] = o
      <4>1. o # p /\ at[o] = "sleep"
        BY <3>4, <2>1 DEF Lock!TypeOK
      <4>2. PICK i \in 1 .. n : q.queue[i] = o
        BY <4>1, <1>0, <3>1 DEF Lock!Line
      <4>3. CASE i = 1
        BY <4>2, <4>3, <2>1
      <4>4. CASE i # 1
        <5>1. i - 1 \in 1 .. n - 1 /\ q'.queue[i - 1] = o
          BY <4>2, <4>4, <3>1
        <5> QED  BY <5>1, <3>1
      <4> QED  BY <4>3, <4>4
    <3> QED  BY <2>1, <3>2, <3>3, <3>4 DEF Lock!Line
  <2>6. Lock!Wakeup'
    BY <2>1, <2>2, <1>0 DEF Lock!Wakeup, Lock!HandedTo, Lock!TypeOK
  <2> QED  BY <2>3, <2>4, <2>5, <2>6
<1> QED  BY <1>1, <1>2

\* procwakeup: the owner-to-be gets its one wakeup.
LEMMA ProcwakeupIInv ==
  ASSUME Lock!IInv, NEW p \in Procs, Lock!Procwakeup(p)
  PROVE  Lock!IInv'
<1> USE NilAssumption DEF Lock!IInv, Lock!Procwakeup
<1>1. /\ target[p] \in Procs /\ Lock!HandedTo(target[p]) /\ credit[target[p]] = 0
      /\ target[p] # p
  BY DEF Lock!Wakeup, Lock!TypeOK, Lock!HandedTo
<1>2. Lock!TypeOK'
  BY <1>1 DEF Lock!TypeOK, Lock!States
<1>3. Lock!Owner'
  BY DEF Lock!Owner, Lock!TypeOK
<1>4. Lock!Line'
  BY DEF Lock!Line, Lock!TypeOK
<1>5. Lock!Wakeup'
  BY <1>1 DEF Lock!Wakeup, Lock!HandedTo, Lock!TypeOK
<1> QED  BY <1>2, <1>3, <1>4, <1>5

\* Every step preserves the invariant.
LEMMA LockNextIInv == Lock!IInv /\ [Lock!Next]_Lock!vars => Lock!IInv'
<1> SUFFICES ASSUME Lock!IInv, [Lock!Next]_Lock!vars
             PROVE  Lock!IInv'
  OBVIOUS
<1>1. CASE Lock!Next
  BY <1>1, QlockIInv, AwakeIInv, CanqlockIInv, QunlockIInv, ProcwakeupIInv
     DEF Lock!Next
<1>2. CASE UNCHANGED Lock!vars
  BY <1>2 DEF Lock!vars, Lock!IInv, Lock!TypeOK, Lock!Owner, Lock!Line, Lock!Wakeup, Lock!HandedTo
<1> QED  BY <1>1, <1>2

\* The invariant excludes: who is inside is the owner.
LEMMA Excludes == Lock!IInv => Lock!MutualExclusion
  BY DEF Lock!IInv, Lock!Owner, Lock!MutualExclusion

\* Under the invariant a Proc that is handed the lock has one wakeup, and no
\* other has any.
LEMMA HandOff == Lock!IInv => Lock!OneWakeup
<1>1. ASSUME Lock!IInv, NEW p \in Procs
      PROVE  IF Lock!HandedTo(p)
             THEN \/ credit[p] = 1 /\ Lock!Wakers(p) = {}
                  \/ credit[p] = 0 /\ \E w \in Procs : Lock!Wakers(p) = {w}
             ELSE credit[p] = 0 /\ Lock!Wakers(p) = {}
  <2> USE NilAssumption DEF Lock!IInv, Lock!Wakeup
  <2>1. \A w \in Procs : w \in Lock!Wakers(p) <=> target[w] = p
    BY <1>1 DEF Lock!Wakers, Lock!Wakeup
  <2>2. Lock!Wakers(p) \subseteq Procs
    BY DEF Lock!Wakers
  <2>3. CASE credit[p] = 1
    BY <1>1, <2>1, <2>2, <2>3
  <2>4. CASE credit[p] # 1 /\ Lock!HandedTo(p)
    <3>1. PICK w \in Procs : target[w] = p
      BY <1>1, <2>4
    <3>2. Lock!Wakers(p) = {w}
      BY <1>1, <2>1, <2>2, <3>1
    <3> QED  BY <1>1, <2>4, <3>2
  <2>5. CASE ~Lock!HandedTo(p)
    BY <1>1, <2>1, <2>2, <2>5
  <2> QED  BY <2>3, <2>4, <2>5
<1> QED  BY <1>1 DEF Lock!OneWakeup

-----------------------------------------------------------------------------
\* The lock as its callers see it, step by step.

\* One more at the head of a queue.
LEMMA AtHead ==
  ASSUME NEW h \in Procs, NEW s \in Seq(Procs)
  PROVE  /\ <<h>> \o s \in Seq(Procs) /\ <<h>> \o s # <<>>
         /\ Head(<<h>> \o s) = h /\ Tail(<<h>> \o s) = s
         /\ \A p \in Procs : <<h>> \o Append(s, p) = Append(<<h>> \o s, p)
         /\ \A i \in DOMAIN (<<h>> \o s) :
              (<<h>> \o s)[i] = h \/ \E j \in DOMAIN s : (<<h>> \o s)[i] = s[j]
<1>1. <<h>> \in Seq(Procs) /\ Len(<<h>>) = 1 /\ <<h>>[1] = h
  OBVIOUS
<1>2. /\ <<h>> \o s \in Seq(Procs) /\ Len(<<h>> \o s) = 1 + Len(s)
      /\ \A i \in 1 .. 1 + Len(s) : (<<h>> \o s)[i] = IF i <= 1 THEN h ELSE s[i - 1]
      /\ Len(s) \in Nat
  BY <1>1, ConcatProperties
<1>3. <<h>> \o s # <<>> /\ Head(<<h>> \o s) = h
  BY <1>2
<1>4. Tail(<<h>> \o s) = s
  <2>1. /\ Tail(<<h>> \o s) \in Seq(Procs) /\ Len(Tail(<<h>> \o s)) = Len(s)
        /\ \A i \in 1 .. Len(s) : Tail(<<h>> \o s)[i] = (<<h>> \o s)[i + 1]
    BY <1>2, <1>3, HeadTailProperties
  <2>2. \A i \in 1 .. Len(s) : Tail(<<h>> \o s)[i] = s[i]
    BY <1>2, <2>1
  <2> QED BY <2>1, <2>2, SeqEqual
<1>5. ASSUME NEW p \in Procs
      PROVE  <<h>> \o Append(s, p) = Append(<<h>> \o s, p)
  <2>1. <<h>> \o (s \o <<p>>) = (<<h>> \o s) \o <<p>>
    BY <1>1, ConcatAssociative
  <2> QED BY <1>2, <2>1, AppendIsConcat
<1>6. ASSUME NEW i \in DOMAIN (<<h>> \o s)
      PROVE  (<<h>> \o s)[i] = h \/ \E j \in DOMAIN s : (<<h>> \o s)[i] = s[j]
  <2>1. i \in 1 .. 1 + Len(s) /\ DOMAIN s = 1 .. Len(s)
    BY <1>2
  <2> QED BY <1>2, <2>1
<1> QED BY <1>2, <1>3, <1>4, <1>5, <1>6

\* A queue is its head before its tail.
LEMMA HeadAndTail ==
  ASSUME NEW s \in Seq(Procs), s # <<>>
  PROVE  <<s[1]>> \o Tail(s) = s
<1>1. /\ s[1] \in Procs /\ Len(s) \in Nat \ {0}
      /\ Tail(s) \in Seq(Procs) /\ Len(Tail(s)) = Len(s) - 1
      /\ \A i \in 1 .. Len(s) - 1 : Tail(s)[i] = s[i + 1]
  BY HeadTailProperties
<1>2. <<s[1]>> \in Seq(Procs) /\ Len(<<s[1]>>) = 1 /\ <<s[1]>>[1] = s[1]
  BY <1>1
<1>3. /\ <<s[1]>> \o Tail(s) \in Seq(Procs) /\ Len(<<s[1]>> \o Tail(s)) = Len(s)
      /\ \A i \in 1 .. Len(s) :
           (<<s[1]>> \o Tail(s))[i] = IF i <= 1 THEN s[1] ELSE Tail(s)[i - 1]
  BY <1>1, <1>2, ConcatProperties
<1>4. \A i \in 1 .. Len(s) : (<<s[1]>> \o Tail(s))[i] = s[i]
  BY <1>1, <1>3
<1> QED BY <1>3, <1>4, SeqEqual

\* The views of a lock that is free, that is owned, and that is handed over.
LEMMA Views ==
  ASSUME Lock!IInv
  PROVE  /\ q.hold = None => Lock!inside = None /\ Lock!line = <<>> /\ q.queue = <<>>
         /\ \A p \in Procs : q.hold = p /\ at[p] = "in" => Lock!inside = p /\ Lock!line = q.queue
         /\ \A p \in Procs : q.hold = p /\ at[p] # "in" =>
              Lock!inside = None /\ Lock!line = <<p>> \o q.queue
         /\ q.queue \in Seq(Procs) /\ q.hold \in Procs \union {None} /\ q \in Lock!QLocks
<1>1. q.queue \in Seq(Procs) /\ q.hold \in Procs \union {None} /\ q \in Lock!QLocks
  BY QLockFields DEF Lock!IInv, Lock!TypeOK
<1> QED BY <1>1, NilAssumption DEF Lock!inside, Lock!line, Lock!IInv, Lock!Line

\* A Proc that is not in qlock is not in line.
LEMMA NotInLine ==
  ASSUME Lock!IInv, NEW p \in Procs, at[p] = "out"
  PROVE  /\ Lock!inside # p /\ q.hold # p
         /\ \A i \in DOMAIN q.queue : q.queue[i] # p
         /\ p \notin {Lock!line[i] : i \in DOMAIN Lock!line}
<1>1. q.hold # p /\ \A i \in DOMAIN q.queue : q.queue[i] # p
  BY DEF Lock!IInv, Lock!Owner, Lock!Line
<1>2. Lock!inside # p
  BY <1>1, NilAssumption DEF Lock!inside
<1>3. CASE q.hold = None \/ at[q.hold] = "in"
  BY <1>1, <1>2, <1>3 DEF Lock!line
<1>4. CASE q.hold # None /\ at[q.hold] # "in"
  <2>1. Lock!line = <<q.hold>> \o q.queue /\ q.hold \in Procs /\ q.queue \in Seq(Procs)
    BY <1>4, Views DEF Lock!line
  <2> QED BY <1>1, <1>2, <2>1, AtHead
<1> QED BY <1>3, <1>4

\* qlock or canqlock of a free lock.
LEMMA TakeStep ==
  ASSUME Lock!IInv, Lock!IInv', NEW p \in Procs, Lock!Qlock(p) \/ Lock!Canqlock(p), q.hold = None
  PROVE  Lock!Fifo!Take(p)
<1>1. q' = [hold |-> p, queue |-> q.queue] /\ at' = [at EXCEPT ![p] = "in"]
  BY TakeFree, Views DEF Lock!Qlock, Lock!Canqlock
<1>2. q'.hold = p /\ at'[p] = "in" /\ q'.queue = q.queue
  BY <1>1 DEF Lock!IInv, Lock!TypeOK
<1>3. Lock!inside' = p /\ Lock!line' = q.queue
  BY <1>2, NilAssumption DEF Lock!inside, Lock!line
<1> QED BY <1>3, Views DEF Lock!Fifo!Take

\* qlock of a lock that is taken.
LEMMA AskStep ==
  ASSUME Lock!IInv, Lock!IInv', NEW p \in Procs, Lock!Qlock(p), q.hold # None
  PROVE  Lock!Fifo!Ask(p)
<1> DEFINE h == q.hold
<1>1. /\ h \in Procs /\ h # p /\ q'.hold = h /\ q'.queue = Append(q.queue, p)
      /\ at'[h] = at[h]
  BY Views, QueueOnHeld, NotInLine DEF Lock!Qlock, Lock!IInv, Lock!TypeOK
<1>2. p \notin {Lock!line[i] : i \in DOMAIN Lock!line} /\ Lock!inside # p
  BY NotInLine DEF Lock!Qlock
<1>3. CASE at[h] = "in"
  <2>1. Lock!inside = h /\ Lock!line = q.queue /\ Lock!inside' = h /\ Lock!line' = Append(q.queue, p)
    BY <1>1, <1>3, NilAssumption DEF Lock!inside, Lock!line
  <2> QED BY <1>1, <1>2, <2>1, NilAssumption DEF Lock!Fifo!Ask
<1>4. CASE at[h] # "in"
  <2>1. /\ Lock!inside = None /\ Lock!line = <<h>> \o q.queue
        /\ Lock!inside' = None /\ Lock!line' = <<h>> \o Append(q.queue, p)
    BY <1>1, <1>4, NilAssumption DEF Lock!inside, Lock!line
  <2>2. Lock!line' = Append(Lock!line, p) /\ Lock!line # <<>>
    BY <1>1, <2>1, Views, AtHead
  <2> QED BY <1>2, <2>1, <2>2 DEF Lock!Fifo!Ask
<1> QED BY <1>3, <1>4

\* The first in line comes out of procsleep.
LEMMA EnterStep ==
  ASSUME Lock!IInv, Lock!IInv', NEW p \in Procs, Lock!Awake(p)
  PROVE  Lock!Fifo!Enter
<1>1. q.hold = p /\ at[p] = "sleep" /\ q' = q /\ at'[p] = "in"
  BY DEF Lock!Awake, Lock!IInv, Lock!TypeOK, Lock!Wakeup, Lock!HandedTo
<1>2. /\ Lock!inside = None /\ Lock!line = <<p>> \o q.queue
      /\ Lock!inside' = p /\ Lock!line' = q.queue
  BY <1>1, NilAssumption DEF Lock!inside, Lock!line
<1> QED BY <1>2, Views, AtHead DEF Lock!Fifo!Enter

\* qunlock leaves a lock that is free or handed to the first in line.
LEMMA LeaveStep ==
  ASSUME Lock!IInv, Lock!IInv', NEW p \in Procs, Lock!Qunlock(p)
  PROVE  Lock!Fifo!Leave
<1>1. q.hold = p /\ at[p] = "in" /\ q' = Lock!Released(q)
  BY DEF Lock!Qunlock, Lock!IInv, Lock!Owner
<1>2. Lock!inside = p /\ Lock!line = q.queue
  BY <1>1, Views
<1>3. CASE q.queue = <<>>
  <2>1. q'.hold = None /\ q'.queue = <<>>
    BY <1>1, <1>3, Views, ReleaseEmpty
  <2> QED BY <1>2, <1>3, <2>1, NilAssumption DEF Lock!inside, Lock!line, Lock!Fifo!Leave
<1>4. CASE q.queue # <<>>
  <2> DEFINE h == q.queue[1]
  <2>1. h \in Procs /\ q'.hold = h /\ q'.queue = Tail(q.queue) /\ Lock!ToWake(q) = h
    <3>1. /\ q' = [hold |-> h, queue |-> Tail(q.queue)]
          /\ Lock!ToWake(q) = h /\ h \in Procs
      BY <1>1, <1>4, Views, ReleaseCons
    <3> QED BY <3>1
  <2>2. at'[h] # "in"
    <3>1. 1 \in DOMAIN q.queue
      BY <1>4, Views, QueueDomain
    <3>2. at[h] = "sleep" /\ h # p
      BY <1>1, <3>1 DEF Lock!IInv, Lock!Line
    <3> QED BY <2>1, <3>2 DEF Lock!Qunlock, Lock!IInv, Lock!TypeOK
  <2>3. Lock!inside' = None /\ Lock!line' = <<h>> \o Tail(q.queue)
    <3> HIDE DEF h
    <3> QED BY <2>1, <2>2, NilAssumption DEF Lock!inside, Lock!line
  <2>4. <<h>> \o Tail(q.queue) = q.queue
    BY <1>4, Views, HeadAndTail
  <2> QED BY <1>2, <2>3, <2>4, NilAssumption DEF Lock!Fifo!Leave
<1> QED BY <1>3, <1>4

\* Every step is one of the lock in order of arrival, or a stutter.
LEMMA StepFifo == Lock!IInv /\ Lock!IInv' /\ [Lock!Next]_Lock!vars => [Lock!Fifo!Next]_Lock!Fifo!vars
<1> SUFFICES ASSUME Lock!IInv, Lock!IInv', [Lock!Next]_Lock!vars
             PROVE  [Lock!Fifo!Next]_Lock!Fifo!vars
  OBVIOUS
<1>1. ASSUME NEW p \in Procs, Lock!Qlock(p)
      PROVE  Lock!Fifo!Next
  BY <1>1, TakeStep, AskStep DEF Lock!Fifo!Next
<1>2. ASSUME NEW p \in Procs, Lock!Canqlock(p)
      PROVE  Lock!Fifo!Next \/ UNCHANGED Lock!Fifo!vars
  <2>1. CASE q.hold = None
    BY <1>2, <2>1, TakeStep DEF Lock!Fifo!Next
  <2>2. CASE q.hold # None
    <3>1. q' = q /\ at' = at
      BY <1>2, <2>2, Views, TryHeld DEF Lock!Canqlock, Lock!IInv, Lock!TypeOK
    <3> QED BY <3>1 DEF Lock!inside, Lock!line, Lock!Fifo!vars
  <2> QED BY <2>1, <2>2
<1>3. ASSUME NEW p \in Procs, Lock!Procwakeup(p)
      PROVE  UNCHANGED Lock!Fifo!vars
  <2>1. q' = q /\ at[p] = "wake" /\ at' = [at EXCEPT ![p] = "out"]
    BY <1>3 DEF Lock!Procwakeup
  <2>2. q.hold # p
    BY <2>1 DEF Lock!IInv, Lock!Owner
  <2>3. q.hold # None => at'[q.hold] = at[q.hold]
    BY <2>1, <2>2, Views DEF Lock!IInv, Lock!TypeOK
  <2> QED BY <2>1, <2>3 DEF Lock!inside, Lock!line, Lock!Fifo!vars
<1>4. CASE UNCHANGED Lock!vars
  BY <1>4 DEF Lock!vars, Lock!inside, Lock!line, Lock!Fifo!vars
<1> QED BY <1>1, <1>2, <1>3, <1>4, EnterStep, LeaveStep DEF Lock!Next, Lock!Fifo!Next

\* It starts free, and nobody in line.
LEMMA InitFifo == Lock!Init => Lock!Fifo!Init
  BY DEF Lock!Init, Lock!Fifo!Init, Lock!FreeLock, Lock!inside, Lock!line

-----------------------------------------------------------------------------
\* The lock.
allVars == <<sleepVars, lockVars>>

\* A step of the composition is a step of procsleep and procwakeup.
LEMMA SleepStep == IInv /\ [LockNext]_allVars => [Next]_vars
<1> SUFFICES ASSUME IInv, [LockNext]_allVars
             PROVE  [Next]_vars
  OBVIOUS
<1> USE DEF vars, sleepVars, Next
<1>1. ASSUME NEW p \in Procs, Qlock(p)
      PROVE  [Next]_vars
  BY <1>1 DEF Qlock
<1>2. ASSUME NEW p \in Procs, QlockSleep(p) \/ QlockRecheck(p)
      PROVE  [Next]_vars
  BY <1>2 DEF QlockSleep, QlockRecheck
<1>3. ASSUME NEW p \in Procs, Canqlock(p) \/ Qunlock(p)
      PROVE  [Next]_vars
  BY <1>3 DEF Canqlock, Qunlock
<1>4. ASSUME NEW p \in Procs, QunlockWakeup(p)
      PROVE  [Next]_vars
  <2>1. Procwakeup(target[p]) /\ target[p] \in Procs
    BY <1>4 DEF QunlockWakeup, Procwakeup, IInv, TypeOK
  <2> QED  BY <2>1
<1>5. CASE UNCHANGED allVars
  BY <1>5 DEF allVars
<1> QED  BY <1>1, <1>2, <1>3, <1>4, <1>5 DEF LockNext

\* Who sleeps for the lock sleeps in procsleep, and nobody else does.
LEMMA JoinedStep == IInv /\ Joined /\ [LockNext]_allVars => Joined'
<1> SUFFICES ASSUME IInv, Joined, [LockNext]_allVars
             PROVE  Joined'
  OBVIOUS
<1> USE DEF Joined, Lock!States, IInv, TypeOK
<1>1. ASSUME NEW p \in Procs, Qlock(p)
      PROVE  Joined'
  BY <1>1 DEF Qlock, Commit, sleepVars
<1>2. ASSUME NEW p \in Procs, QlockSleep(p)
      PROVE  Joined'
  BY <1>2 DEF QlockSleep, Procsleep, Return
<1>3. ASSUME NEW p \in Procs, QlockRecheck(p)
      PROVE  Joined'
  BY <1>3 DEF QlockRecheck, Recheck, Return
<1>4. ASSUME NEW p \in Procs, Canqlock(p) \/ Qunlock(p)
      PROVE  Joined'
  BY <1>4 DEF Canqlock, Qunlock, sleepVars
<1>5. ASSUME NEW p \in Procs, QunlockWakeup(p)
      PROVE  Joined'
  BY <1>5 DEF QunlockWakeup, Procwakeup
<1>6. CASE UNCHANGED allVars
  BY <1>6 DEF allVars, sleepVars, lockVars
<1> QED  BY <1>1, <1>2, <1>3, <1>4, <1>5, <1>6 DEF LockNext

\* The semaphore of a Proc, and how a step of its own moves it.
LEMMA CreditIs ==
  ASSUME IInv, IInv', NEW p \in Procs,
         \A o \in Procs \ {p} : credit'[o] = credit[o]
  PROVE  credit' = [credit EXCEPT ![p] = credit'[p]]
<1>1. credit'[p] \in Int
  BY DEF credit, IInv, TypeOK
<1> QED  BY <1>1, CreditExcept

\* procsleep returns on a credit, and uses it.
LEMMA ReturnsAwake ==
  ASSUME IInv, IInv', Joined, NEW p \in Procs, QlockSleep(p) \/ QlockRecheck(p)
  PROVE  Lock!Awake(p) \/ UNCHANGED Lock!vars
<1> USE DEF IInv, TypeOK
<1>0. /\ pc[p] # "run" /\ at[p] = "sleep"
      /\ \A o \in Procs \ {p} : credit'[o] = credit[o]
  BY DEF QlockSleep, QlockRecheck, Procsleep, Recheck, credit, Joined
<1>1. CASE pc'[p] = "run"
  <2>1. credit[p] > 0 /\ credit'[p] = credit[p] - 1
    BY <1>1 DEF QlockSleep, QlockRecheck, Procsleep, Recheck, credit
  <2>2. credit' = [credit EXCEPT ![p] = @ - 1]
    BY <1>0, <2>1, CreditIs
  <2>3. at' = [at EXCEPT ![p] = "in"] /\ UNCHANGED <<q, target>>
    BY <1>1 DEF QlockSleep, QlockRecheck, Return
  <2> QED  BY <1>0, <2>1, <2>2, <2>3 DEF Lock!Awake
<1>2. CASE pc'[p] # "run"
  <2>1. credit'[p] = credit[p]
    BY <1>2 DEF QlockSleep, QlockRecheck, Procsleep, Recheck, credit
  <2>2. credit' = credit
    BY <1>0, <2>1 DEF credit
  <2>3. at' = at /\ UNCHANGED <<q, target>>
    BY <1>2 DEF QlockSleep, QlockRecheck, Return, Joined
  <2> QED  BY <2>2, <2>3 DEF Lock!vars
<1> QED  BY <1>1, <1>2

\* Every step of the composition is a step of QLock or a stutter.
LEMMA LockStep ==
  IInv /\ IInv' /\ Joined /\ [LockNext]_allVars => [Lock!Next]_Lock!vars
<1> SUFFICES ASSUME IInv, IInv', Joined, [LockNext]_allVars
             PROVE  [Lock!Next]_Lock!vars
  OBVIOUS
<1>1. ASSUME NEW p \in Procs, Qlock(p)
      PROVE  Lock!Qlock(p)
  <2>1. credit' = credit
    BY <1>1 DEF Qlock, Commit, sleepVars, credit, IInv, TypeOK
  <2> QED  BY <1>1, <2>1 DEF Qlock, Lock!Qlock
<1>2. ASSUME NEW p \in Procs, QlockSleep(p) \/ QlockRecheck(p)
      PROVE  Lock!Awake(p) \/ UNCHANGED Lock!vars
  BY <1>2, ReturnsAwake
<1>3. ASSUME NEW p \in Procs, Canqlock(p)
      PROVE  Lock!Canqlock(p)
  <2>1. credit' = credit
    BY <1>3 DEF Canqlock, sleepVars, credit
  <2> QED  BY <1>3, <2>1 DEF Canqlock, Lock!Canqlock
<1>4. ASSUME NEW p \in Procs, Qunlock(p)
      PROVE  Lock!Qunlock(p)
  <2>1. credit' = credit
    BY <1>4 DEF Qunlock, sleepVars, credit
  <2> QED  BY <1>4, <2>1 DEF Qunlock, Lock!Qunlock
<1>5. ASSUME NEW p \in Procs, QunlockWakeup(p)
      PROVE  Lock!Procwakeup(p)
  <2>1. Procwakeup(target[p]) /\ target[p] \in Procs
    BY <1>5 DEF QunlockWakeup, Procwakeup, IInv, TypeOK
  <2>2. /\ credit'[target[p]] = credit[target[p]] + 1
        /\ \A o \in Procs \ {target[p]} : credit'[o] = credit[o]
    BY <2>1 DEF Procwakeup, credit, IInv, TypeOK
  <2>3. credit' = [credit EXCEPT ![target[p]] = @ + 1]
    BY <2>1, <2>2, CreditIs
  <2> QED  BY <1>5, <2>3 DEF QunlockWakeup, Lock!Procwakeup
<1>6. CASE UNCHANGED allVars
  BY <1>6 DEF allVars, sleepVars, lockVars, Lock!vars, credit
<1> QED  BY <1>1, <1>2, <1>3, <1>4, <1>5, <1>6 DEF LockNext, Lock!Next

\* The composition starts where OsSleep and QLock start.
LEMMA BothInit == LockInit => Init /\ Joined /\ Lock!Init
<1> SUFFICES ASSUME LockInit
             PROVE  Joined /\ Lock!Init
  BY DEF LockInit
<1>1. Joined
  BY DEF LockInit, Init, Joined, Lock!States
<1>2. credit = [p \in Procs |-> 0]
  BY DEF LockInit, Init, credit
<1> QED  BY <1>1, <1>2 DEF LockInit, Lock!Init

\* The counters stay in balance in the composition.
LEMMA SleepPart == LockSpec => [](IInv /\ Joined)
<1>1. LockInit => IInv /\ Joined
  BY BothInit, InitIInv
<1>2. IInv /\ Joined /\ [LockNext]_allVars => (IInv /\ Joined)'
  BY SleepStep, JoinedStep, NextIInv
<1> QED  BY <1>1, <1>2, PTL DEF LockSpec, allVars

\* The lock over procsleep and procwakeup implements the lock over a
\* semaphore, its liveness left to the run.
THEOREM QLockSleepRefines == LockSpec => Lock!Init /\ [][Lock!Next]_Lock!vars
<1>1. LockInit => Lock!Init
  BY BothInit
<1> QED  BY <1>1, SleepPart, LockStep, PTL DEF LockSpec, allVars

\* The invariant of a QLock, kept over procsleep.
LEMMA LockPart == LockSpec => []Lock!IInv
<1>1. LockInit => Lock!IInv
  BY BothInit, LockInitIInv
<1> QED  BY <1>1, LockNextIInv, QLockSleepRefines, PTL DEF LockSpec

\* What a QLock keeps has its types: the queue is a sequence of Procs, and a
\* Proc sleeps for it, holds it, wakes the next owner, or does without it.
THEOREM SleepingLockTypeOK == LockSpec => []Lock!TypeOK
<1>1. Lock!IInv => Lock!TypeOK
  BY DEF Lock!IInv
<1> QED  BY <1>1, LockPart, PTL

\* Spurious returns and early wakeups included, one Proc is past qlock.
THEOREM SleepingLockExcludes == LockSpec => []MutualExclusion
  BY Excludes, LockPart, PTL DEF MutualExclusion

\* The hand-off over procsleep: one wakeup for the owner-to-be, none besides.
THEOREM SleepingLockOneWakeup == LockSpec => []OneWakeup
  BY HandOff, LockPart, PTL DEF OneWakeup

\* procsleep under a QLock still returns for its wakeup only.
THEOREM LockNoEarlyReturn == LockSpec => []NoEarlyReturn
<1>1. IInv => NoEarlyReturn
  BY DEF IInv, Balance, NoEarlyReturn
<1> QED  BY <1>1, SleepPart, PTL

\* And no wakeup of a Proc that waits for the lock is lost.
THEOREM LockNoLostSignal == LockSpec => []NoLostSignal
<1>1. IInv => NoLostSignal
  BY DEF IInv, TypeOK, Balance, NoLostSignal
<1> QED  BY <1>1, SleepPart, PTL

\* The lock over procsleep serves in the order of arrival: nobody who came
\* later is let in first, and none comes in while another is inside.
THEOREM SleepingLockFifo == LockSpec => Lock!FifoSafety
<1>1. LockInit => Lock!Fifo!Init
  BY BothInit, InitFifo
<1> QED BY <1>1, StepFifo, LockPart, QLockSleepRefines, PTL DEF LockSpec, Lock!FifoSafety

-----------------------------------------------------------------------------
(* sleep and wakeup.  One sleeper at a time is past Enter (OneInside), r->p  *)
(* is that sleeper exactly while it is asleep (Known), and a waker that      *)
(* found r->p = nil came before the sleeper tested.                          *)

\* The initial state satisfies the inductive invariant.
LEMMA RendezInitIInv == RendezInit => RendezIInv
BY NobodyAssumption
DEF RendezInit, RendezIInv, RendezType, OneInside, Known, NoLostWakeup, NoPanic, Asleep, Owed

\* A step of a sleeper preserves it.
LEMMA SleeperIInv ==
  ASSUME RendezIInv, NEW p \in Sleepers, Enter(p) \/ SleeperStep(p)
  PROVE  RendezIInv'
<1> USE NobodyAssumption
    DEF RendezIInv, RendezType, OneInside, Known, NoLostWakeup, NoPanic, Asleep, Owed
<1>1. CASE Enter(p)
  BY <1>1 DEF Enter
<1>2. CASE SleepCommit(p)
  BY <1>2 DEF SleepCommit
<1>3. CASE SleepNever(p)
  BY <1>3 DEF SleepNever
<1>4. CASE Woken(p)
  BY <1>4 DEF Woken
<1>5. CASE Take(p)
  BY <1>5 DEF Take
<1>6. CASE Again(p)
  BY <1>6 DEF Again
<1>7. QED
  BY <1>1, <1>2, <1>3, <1>4, <1>5, <1>6 DEF SleeperStep

\* A step of a waker preserves it.
LEMMA WakerIInv ==
  ASSUME RendezIInv, NEW w \in Wakers, MakeReady(w) \/ WakerStep(w)
  PROVE  RendezIInv'
<1> USE NobodyAssumption
    DEF RendezIInv, RendezType, OneInside, Known, NoLostWakeup, NoPanic, Asleep, Owed
<1>1. CASE MakeReady(w)
  BY <1>1 DEF MakeReady
<1>2. CASE WakeupNone(w)
  BY <1>2 DEF WakeupNone
<1>3. CASE Wakeup(w)
  BY <1>3 DEF Wakeup
<1>4. QED
  BY <1>1, <1>2, <1>3 DEF WakerStep

\* RendezIInv is an invariant of the specification.
THEOREM RendezInv == RendezSpec => []RendezIInv
<1>1. ASSUME RendezIInv, [RendezNext]_rendezVars PROVE RendezIInv'
  <2>1. CASE \E p \in Sleepers : Enter(p) \/ SleeperStep(p)
    BY <1>1, <2>1, SleeperIInv
  <2>2. CASE \E w \in Wakers : MakeReady(w) \/ WakerStep(w)
    BY <1>1, <2>2, WakerIInv
  <2>3. CASE UNCHANGED rendezVars
    BY <1>1, <2>3
    DEF rendezVars, RendezIInv, RendezType, OneInside, Known, NoLostWakeup, NoPanic, Asleep, Owed
  <2>4. QED
    BY <1>1, <2>1, <2>2, <2>3 DEF RendezNext
<1>2. QED
  BY RendezInitIInv, <1>1, PTL DEF RendezSpec

\* Every variable of sleep and wakeup keeps its type.
THEOREM RendezTypeOK == RendezSpec => []RendezType
BY RendezInv, PTL DEF RendezIInv

\* A sleeper is never replaced in r->p: there is no double sleep.
THEOREM RendezNoDoubleSleep == RendezSpec => []NoDoubleSleep
<1>1. RendezIInv => NoDoubleSleep
  BY DEF RendezIInv, Known, NoDoubleSleep
<1>2. QED
  BY RendezInv, <1>1, PTL

\* A Proc sleeps on a condition that holds only while its wakeup is on the way.
THEOREM RendezNoLostWakeup == RendezSpec => []NoLostWakeup
BY RendezInv, PTL DEF RendezIInv

\* wakeup never reaches its panic, and only ever wakes a Proc in procsleep.
THEOREM RendezNoPanic == RendezSpec => [](NoPanic /\ NoStrayWakeup)
<1>1. RendezIInv => NoPanic /\ NoStrayWakeup
  BY DEF RendezIInv, RendezType, Known, NoStrayWakeup
<1>2. QED
  BY RendezInv, <1>1, PTL
=============================================================================
