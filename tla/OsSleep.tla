------------------------------ MODULE OsSleep -------------------------------
(***************************************************************************)
(* procsleep and procwakeup of kern/posix.c: every Proc has a mutex, a     *)
(* condition variable and two counters, nsleep and nwakeup.  A Proc first  *)
(* makes itself known to its wakers (it queues on a QLock, on a Rendez,    *)
(* ...), drops the spin lock that guards that place, and only then calls   *)
(* procsleep: the wakeup may come first and must not be lost.              *)
(*                                                                         *)
(* The body of each function runs under op->mutex, so it is one step;      *)
(* pthread_cond_wait gives the mutex up, so the wait is a state of its     *)
(* own.  The counters are C ints that only grow: MaxSleeps bounds them      *)
(* below the point where they would wrap.                                  *)
(***************************************************************************)
EXTENDS Integers

CONSTANTS Procs,
          MaxSleeps      \* bound on the calls of procsleep of one Proc (runs)

IntMax == 2147483647     \* the largest C int

ASSUME MaxSleepsAssumption == MaxSleeps \in 0..IntMax

VARIABLES nsleep,        \* op->nsleep
          nwakeup,       \* op->nwakeup
          pc,            \* where the Proc is in procsleep
          signaled,      \* Procs whose pthread_cond_wait was signalled
          owed           \* Procs that a waker has yet to call procwakeup for

vars == <<nsleep, nwakeup, pc, signaled, owed>>

TypeOK ==
  /\ nsleep \in [Procs -> Nat]
  /\ nwakeup \in [Procs -> Nat]
  /\ pc \in [Procs -> {"run", "call", "wait"}]
  /\ signaled \subseteq Procs
  /\ owed \subseteq Procs

Init ==
  /\ nsleep = [p \in Procs |-> 0]
  /\ nwakeup = [p \in Procs |-> 0]
  /\ pc = [p \in Procs |-> "run"]
  /\ signaled = {}
  /\ owed = {}

\* The caller puts itself where its waker will find it, and unlocks.
Commit(p) ==
  /\ pc[p] = "run"
  /\ nsleep[p] < MaxSleeps
  /\ pc' = [pc EXCEPT ![p] = "call"]
  /\ owed' = owed \union {p}
  /\ UNCHANGED <<nsleep, nwakeup, signaled>>

\* procsleep up to the first test of the loop.
Procsleep(p) ==
  /\ pc[p] = "call"
  /\ nsleep' = [nsleep EXCEPT ![p] = @ + 1]
  /\ pc' = [pc EXCEPT ![p] = IF nsleep'[p] > nwakeup[p] THEN "wait" ELSE "run"]
  /\ UNCHANGED <<nwakeup, signaled, owed>>

\* (mutant) `if' in the place of `while': any return from the wait is believed
RecheckNever(p) ==
  /\ pc[p] = "wait"
  /\ signaled' = signaled \ {p}
  /\ pc' = [pc EXCEPT ![p] = "run"]
  /\ UNCHANGED <<nsleep, nwakeup, owed>>

\* pthread_cond_wait returns, signalled or spuriously, and the loop tests.
Recheck(p) ==
  /\ pc[p] = "wait"
  /\ signaled' = signaled \ {p}
  /\ pc' = [pc EXCEPT ![p] = IF nsleep[p] > nwakeup[p] THEN "wait" ELSE "run"]
  /\ UNCHANGED <<nsleep, nwakeup, owed>>

\* (mutant) a wakeup that is not counted when nobody waits
ProcwakeupUncounted(p) ==
  /\ p \in owed
  /\ nwakeup' = [nwakeup EXCEPT ![p] = IF pc[p] = "wait" THEN @ + 1 ELSE @]
  /\ signaled' = IF pc[p] = "wait" THEN signaled \union {p} ELSE signaled
  /\ owed' = owed \ {p}
  /\ UNCHANGED <<nsleep, pc>>

\* (mutant) signal only a wakeup that is ahead of the sleeps
ProcwakeupAhead(p) ==
  /\ p \in owed
  /\ nwakeup' = [nwakeup EXCEPT ![p] = @ + 1]
  /\ signaled' = IF nwakeup'[p] > nsleep[p] /\ pc[p] = "wait"
                 THEN signaled \union {p} ELSE signaled
  /\ owed' = owed \ {p}
  /\ UNCHANGED <<nsleep, pc>>

\* procwakeup: the signal reaches p only if p is inside pthread_cond_wait.
Procwakeup(p) ==
  /\ p \in owed
  /\ nwakeup' = [nwakeup EXCEPT ![p] = @ + 1]
  /\ signaled' = IF nwakeup'[p] = nsleep[p] /\ pc[p] = "wait"
                 THEN signaled \union {p} ELSE signaled
  /\ owed' = owed \ {p}
  /\ UNCHANGED <<nsleep, pc>>

Next ==
  \E p \in Procs : Commit(p) \/ Procsleep(p) \/ Recheck(p) \/ Procwakeup(p)

\* A waker that took p off its queue goes on to procwakeup(p); the thread
\* scheduler runs a Proc that can run, and one that was signalled.  Nothing
\* is assumed of spurious returns.
Fairness ==
  \A p \in Procs : /\ WF_vars(Procsleep(p))
                   /\ WF_vars(p \in signaled /\ Recheck(p))
                   /\ WF_vars(Procwakeup(p))

Spec == Init /\ [][Next]_vars /\ Fairness

-----------------------------------------------------------------------------
\* What the callers of procsleep rely on, for every Proc:

\* procsleep returns only after the procwakeup that was meant for it: a Proc
\* that runs is owed no wakeup and has used up all it was given.
NoEarlyReturn ==
  \A p \in Procs : pc[p] = "run" => p \notin owed /\ nsleep[p] = nwakeup[p]

\* No lost signal: a Proc that waits while its condition already holds has a
\* signal pending, so that it needs no spurious return to go on.
NoLostSignal ==
  \A p \in Procs : pc[p] = "wait" /\ nsleep[p] <= nwakeup[p] => p \in signaled

\* The inductive strengthening: what the two counters say of a Proc at each
\* place it can be in, and whose turn it is to let it go on.
Balance(p) ==
  /\ pc[p] = "run"  => p \notin owed /\ nsleep[p] = nwakeup[p]
  /\ pc[p] = "call" => nwakeup[p] = nsleep[p] + (IF p \in owed THEN 0 ELSE 1)
  /\ pc[p] = "wait" => IF p \in owed THEN nsleep[p] = nwakeup[p] + 1
                       ELSE nsleep[p] = nwakeup[p] /\ p \in signaled

IInv == TypeOK /\ \A p \in Procs : Balance(p)

-----------------------------------------------------------------------------
\* Towards the rest of the kernel procsleep/procwakeup is one binary
\* semaphore per Proc: credit is the wakeups procsleep has not consumed yet.
credit == [p \in Procs |->
             nwakeup[p] - nsleep[p] + (IF pc[p] = "wait" THEN 1 ELSE 0)]
asleep == {p \in Procs : pc[p] # "run"}

Abs == INSTANCE BinarySemaphore
AbsSafety == Abs!Init /\ [][Abs!Next]_Abs!vars
AbsSpec == Abs!Spec
=============================================================================
