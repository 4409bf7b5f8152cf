------------------------------ MODULE FifoLock ------------------------------
(***************************************************************************)
(* What a QLock promises: at most one Proc is inside, Procs that found the *)
(* lock taken get it in the order in which they asked, and nobody comes in *)
(* ahead of one that waits.                                                *)
(***************************************************************************)
EXTENDS Sequences

CONSTANTS Procs, None

VARIABLES inside,    \* the Proc in its critical section, or None
          line       \* the Procs that wait, in the order they asked

vars == <<inside, line>>

Init == inside = None /\ line = <<>>

\* A free lock nobody waits for is taken at once.
Take(p) ==
  /\ inside = None /\ line = <<>>
  /\ inside' = p
  /\ UNCHANGED line

Ask(p) ==
  /\ inside # p
  /\ p \notin {line[i] : i \in DOMAIN line}
  /\ inside # None \/ line # <<>>
  /\ line' = Append(line, p)
  /\ UNCHANGED inside

Enter ==
  /\ inside = None /\ line # <<>>
  /\ inside' = Head(line)
  /\ line' = Tail(line)

Leave ==
  /\ inside # None
  /\ inside' = None
  /\ UNCHANGED line

Next == Enter \/ Leave \/ \E p \in Procs : Take(p) \/ Ask(p)

\* Nobody stays inside for ever, and the lock does not stay idle under a line.
Spec == Init /\ [][Next]_vars /\ WF_vars(Leave) /\ WF_vars(Enter)
=============================================================================
