----------------------------- MODULE FileTable ------------------------------
(***************************************************************************)
(* What the Procs that share a table of file descriptors may rely on: a    *)
(* file stays open as long as a descriptor leads to it or a Proc is inside *)
(* a call on it, however the others close and replace descriptors, and is  *)
(* closed once after that.                                                 *)
(***************************************************************************)
EXTENDS Naturals, FiniteSets

CONSTANTS Procs, Fds, Files, Closed

VARIABLES table,      \* the file of each descriptor, or Closed
          using,      \* the files each Proc is using
          open        \* the files that are open

vars == <<table, using, open>>

Init ==
  /\ table = [d \in Fds |-> Closed]
  /\ using = [p \in Procs |-> {}]
  /\ open = {}

\* A file is opened, or both ends of a pipe, for a Proc alone.
Open(p, files) ==
  /\ files \subseteq Files \ open
  /\ using' = [using EXCEPT ![p] = @ \union files]
  /\ open' = open \union files
  /\ UNCHANGED table

\* A Proc gives what it uses a descriptor, and takes over what was there.
Enter(p, d, f) ==
  /\ f \in using[p]
  /\ table' = [table EXCEPT ![d] = f]
  /\ using' = [using EXCEPT ![p] =
                 (@ \ {f}) \union (IF table[d] = Closed THEN {} ELSE {table[d]})]
  /\ UNCHANGED open

\* Both ends of a pipe get a free descriptor, or neither does.
EnterBoth(p, d, e, f, g) ==
  /\ f # g /\ {f, g} \subseteq using[p]
  /\ d # e /\ table[d] = Closed /\ table[e] = Closed
  /\ table' = [table EXCEPT ![d] = f, ![e] = g]
  /\ using' = [using EXCEPT ![p] = @ \ {f, g}]
  /\ UNCHANGED open

Use(p, d) ==
  /\ table[d] # Closed
  /\ using' = [using EXCEPT ![p] = @ \union {table[d]}]
  /\ UNCHANGED <<table, open>>

Remove(p, d) ==
  /\ table[d] # Closed
  /\ table' = [table EXCEPT ![d] = Closed]
  /\ using' = [using EXCEPT ![p] = @ \union {table[d]}]
  /\ UNCHANGED open

Done(p, f) ==
  /\ f \in using[p]
  /\ using' = [using EXCEPT ![p] = @ \ {f}]
  /\ UNCHANGED <<table, open>>

\* The last of the Procs has gone, and with it the table.
Leave ==
  /\ table' = [d \in Fds |-> Closed]
  /\ using' = [p \in Procs |-> {}]
  /\ UNCHANGED open

Unused(f) ==
  /\ \A d \in Fds : table[d] # f
  /\ \A p \in Procs : f \notin using[p]

Close(f) ==
  /\ f \in open /\ Unused(f)
  /\ open' = open \ {f}
  /\ UNCHANGED <<table, using>>

Next ==
  \/ \E p \in Procs :
       \/ \E files \in SUBSET Files : Open(p, files)
       \/ \E f \in Files : Done(p, f) \/ \E d \in Fds : Enter(p, d, f)
       \/ \E d \in Fds : Use(p, d) \/ Remove(p, d)
       \/ \E d, e \in Fds, f, g \in Files : EnterBoth(p, d, e, f, g)
  \/ Leave
  \/ \E f \in Files : Close(f)

Spec == Init /\ [][Next]_vars /\ \A f \in Files : WF_vars(Close(f))
=============================================================================
