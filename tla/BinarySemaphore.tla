--------------------------- MODULE BinarySemaphore --------------------------
(***************************************************************************)
(* What procsleep and procwakeup promise: one semaphore per Proc, that is  *)
(* posted once for every time the Proc goes to sleep.                      *)
(***************************************************************************)
EXTENDS Integers

CONSTANT Procs

VARIABLES credit,    \* the wakeups that were given and not used
          asleep,    \* the Procs that sleep or are about to
          owed       \* the sleeping Procs whose wakeup was not given yet

vars == <<credit, asleep, owed>>

Init ==
  /\ credit = [p \in Procs |-> 0]
  /\ asleep = {}
  /\ owed = {}

Commit(p) ==
  /\ p \notin asleep
  /\ asleep' = asleep \union {p}
  /\ owed' = owed \union {p}
  /\ UNCHANGED credit

Wakeup(p) ==
  /\ p \in owed
  /\ credit[p] = 0
  /\ credit' = [credit EXCEPT ![p] = 1]
  /\ owed' = owed \ {p}
  /\ UNCHANGED asleep

Return(p) ==
  /\ p \in asleep
  /\ credit[p] = 1
  /\ credit' = [credit EXCEPT ![p] = 0]
  /\ asleep' = asleep \ {p}
  /\ UNCHANGED owed

Next == \E p \in Procs : Commit(p) \/ Wakeup(p) \/ Return(p)

Fairness == \A p \in Procs : WF_vars(Wakeup(p)) /\ WF_vars(Return(p))

Spec == Init /\ [][Next]_vars /\ Fairness
=============================================================================
