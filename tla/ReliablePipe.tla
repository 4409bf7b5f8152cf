---------------------------- MODULE ReliablePipe ----------------------------
(***************************************************************************)
(* What a connection through aan promises to the programs at its two ends: *)
(* in each direction the pieces that were written come out in order, each  *)
(* once, and the end of the stream comes only after all of them.  Nothing  *)
(* is said of the network connections it takes.                            *)
(***************************************************************************)
EXTENDS Naturals, Sequences

VARIABLES written,    \* by direction: how many pieces have been written
          ended,      \* by direction: whether the writing end was closed
          arrived,    \* by direction: the pieces that came out, in order
          over        \* by direction: whether the end was seen

vars == <<written, ended, arrived, over>>

Directions == {"out", "in"}

Init ==
  /\ written = [d \in Directions |-> 0]
  /\ ended = [d \in Directions |-> FALSE]
  /\ arrived = [d \in Directions |-> <<>>]
  /\ over = [d \in Directions |-> FALSE]

Write(d) ==
  /\ ~ended[d]
  /\ written' = [written EXCEPT ![d] = @ + 1]
  /\ UNCHANGED <<ended, arrived, over>>

End(d) ==
  /\ ended' = [ended EXCEPT ![d] = TRUE]
  /\ UNCHANGED <<written, arrived, over>>

Arrive(d) ==
  /\ ~over[d] /\ Len(arrived[d]) < written[d]
  /\ arrived' = [arrived EXCEPT ![d] = Append(@, Len(@) + 1)]
  /\ UNCHANGED <<written, ended, over>>

SeeEnd(d) ==
  /\ ended[d] /\ Len(arrived[d]) = written[d]
  /\ over' = [over EXCEPT ![d] = TRUE]
  /\ UNCHANGED <<written, ended, arrived>>

Next == \E d \in Directions : Write(d) \/ End(d) \/ Arrive(d) \/ SeeEnd(d)

Spec == Init /\ [][Next]_vars
=============================================================================
