----------------------------- MODULE QLockSleep -----------------------------
(***************************************************************************)
(* kern/qlock.c over procsleep and procwakeup of kern/posix.c: QLock with  *)
(* its semaphore replaced by the counters, the condition variable and the  *)
(* spurious returns of OsSleep.  A Proc sleeps for one thing at a time and *)
(* the counters are its own, so this is every sleep it makes on QLocks.    *)
(***************************************************************************)
EXTENDS OsSleep

CONSTANT None

ASSUME NilAssumption == None \notin Procs

VARIABLES q,         \* the QLock
          at,        \* where each Proc is, as pc in QLock
          target     \* the Proc a qunlock is about to wake

sleepVars == <<nsleep, nwakeup, pc, signaled, owed>>
lockVars == <<q, at, target>>

Lock == INSTANCE QLock WITH pc <- at

LockInit ==
  /\ Init
  /\ q = Lock!FreeLock
  /\ at = [p \in Procs |-> "out"]
  /\ target = [p \in Procs |-> None]

-----------------------------------------------------------------------------
\* qlock: on a held lock the Proc joins the queue, drops q->lk, and is about
\* to call procsleep.
Qlock(p) ==
  /\ at[p] = "out"
  /\ q' = Lock!Enqueued(q, p)
  /\ \/ q.hold = None /\ at' = [at EXCEPT ![p] = "in"] /\ UNCHANGED sleepVars
     \/ q.hold # None /\ at' = [at EXCEPT ![p] = "sleep"] /\ Commit(p)
  /\ UNCHANGED target

\* qlock returns as soon as procsleep does.
Return(p) ==
  /\ at' = [at EXCEPT ![p] = IF pc'[p] = "run" THEN "in" ELSE @]
  /\ UNCHANGED <<q, target>>

QlockSleep(p) == Procsleep(p) /\ Return(p)
QlockRecheck(p) == Recheck(p) /\ Return(p)

Canqlock(p) ==
  /\ at[p] = "out"
  /\ q' = Lock!Tried(q, p)
  /\ at' = [at EXCEPT ![p] = IF q.hold = None THEN "in" ELSE "out"]
  /\ UNCHANGED <<sleepVars, target>>

Qunlock(p) ==
  /\ at[p] = "in"
  /\ q' = Lock!Released(q)
  /\ target' = [target EXCEPT ![p] = Lock!ToWake(q)]
  /\ at' = [at EXCEPT ![p] = IF Lock!ToWake(q) = None THEN "out" ELSE "wake"]
  /\ UNCHANGED sleepVars

\* qunlock, past unlock(&q->lk)
QunlockWakeup(p) ==
  /\ at[p] = "wake"
  /\ Procwakeup(target[p])
  /\ target' = [target EXCEPT ![p] = None]
  /\ at' = [at EXCEPT ![p] = "out"]
  /\ UNCHANGED q

LockNext ==
  \E p \in Procs :
    Qlock(p) \/ QlockSleep(p) \/ QlockRecheck(p) \/ Canqlock(p) \/ Qunlock(p)
    \/ QunlockWakeup(p)

\* As in OsSleep; what is locked is unlocked, and a Proc need never ask.
LockFairness ==
  \A p \in Procs :
    /\ WF_<<sleepVars, lockVars>>(QlockSleep(p))
    /\ WF_<<sleepVars, lockVars>>(p \in signaled /\ QlockRecheck(p))
    /\ WF_<<sleepVars, lockVars>>(Qunlock(p))
    /\ WF_<<sleepVars, lockVars>>(QunlockWakeup(p))

LockSpec == LockInit /\ [][LockNext]_<<sleepVars, lockVars>> /\ LockFairness

-----------------------------------------------------------------------------
\* What joins the two inductive invariants: a Proc sleeps in procsleep exactly
\* when it sleeps for the lock.
Joined ==
  /\ at \in [Procs -> Lock!States]
  /\ \A p \in Procs : pc[p] = "run" <=> at[p] # "sleep"

\* The lock over the counters is the lock over a semaphore: every property of
\* QLock holds with procsleep and procwakeup as they are written.
QLockSpec == Lock!Spec

\* Two Procs are never past qlock at the same time.
MutualExclusion == Lock!MutualExclusion

\* The owner-to-be has exactly one wakeup, given or to be given, and no other
\* Proc has any, whatever spurious returns the condition variable makes.
OneWakeup == Lock!OneWakeup

\* First come, first served, and everyone who waits gets the lock.
FifoSpec == Lock!FifoSpec
=============================================================================
