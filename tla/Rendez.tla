------------------------------- MODULE Rendez -------------------------------
(***************************************************************************)
(* sleep and wakeup of kern/sleep.c: a Proc waits on a Rendez until a      *)
(* condition holds.  sleep makes the Proc known in r->p before it tests    *)
(* the condition, all under r->lk, and calls procsleep with no lock held.  *)
(* wakeup knows of the sleeper only through r->p.                          *)
(*                                                                         *)
(* Both functions run under r->lk (and the rlock of the sleeper), so each  *)
(* is one step; the wait in procsleep is a state of its own.  tok stands   *)
(* for procsleep and procwakeup: OsSleep shows that they are a binary      *)
(* semaphore.  Nothing sets notepending in drawterm (postnote is a stub),  *)
(* so the Eintr exit of sleep is left out.                                 *)
(*                                                                         *)
(* The callers are those of qio.c, devmouse.c, devdraw.c and devmnt.c: a   *)
(* waker makes the condition true and then calls wakeup, in two steps; a   *)
(* sleeper holds a qlock that keeps other sleepers away, tests, uses up    *)
(* what it waited for, and sleeps again when that is not there any more.   *)
(***************************************************************************)
CONSTANTS Sleepers, Wakers, Nobody

ASSUME NobodyAssumption == Nobody \notin Sleepers

VARIABLES r,             \* r->p
          state,         \* Proc.state of the sleepers: Running or Wakeme
          place,         \* where the sleepers are
          tok,           \* sleepers that procwakeup was called for
          ready,         \* the condition, (*f)(arg)
          waker,         \* where the wakers are
          guard          \* the sleeper that holds the qlock

rendezVars == <<r, state, place, tok, ready, waker, guard>>

RendezType ==
  /\ r \in Sleepers \union {Nobody}
  /\ state \in [Sleepers -> {"Running", "Wakeme"}]
  /\ place \in [Sleepers -> {"run", "sleep", "procsleep", "back"}]
  /\ tok \subseteq Sleepers
  /\ ready \in BOOLEAN
  /\ waker \in [Wakers -> {"run", "wakeup", "panic"}]
  /\ guard \in Sleepers \union {Nobody}

RendezInit ==
  /\ r = Nobody
  /\ state = [p \in Sleepers |-> "Running"]
  /\ place = [p \in Sleepers |-> "run"]
  /\ tok = {}
  /\ ready = FALSE
  /\ waker = [w \in Wakers |-> "run"]
  /\ guard = Nobody

\* (mutant) a caller that does not take the qlock
EnterLoose(p) ==
  /\ place[p] = "run"
  /\ guard' = p
  /\ place' = [place EXCEPT ![p] = "sleep"]
  /\ UNCHANGED <<r, state, tok, ready, waker>>

\* The caller, on its way to sleep, takes its qlock.
Enter(p) ==
  /\ place[p] = "run"
  /\ guard = Nobody
  /\ guard' = p
  /\ place' = [place EXCEPT ![p] = "sleep"]
  /\ UNCHANGED <<r, state, tok, ready, waker>>

\* (mutant) a sleep that does not test the condition
SleepCommitBlind(p) ==
  /\ place[p] = "sleep"
  /\ r' = p
  /\ state' = [state EXCEPT ![p] = "Wakeme"]
  /\ place' = [place EXCEPT ![p] = "procsleep"]
  /\ UNCHANGED <<tok, ready, waker, guard>>

\* (mutant) a sleep that does not set the state
SleepCommitRunning(p) ==
  /\ place[p] = "sleep"
  /\ ~ready
  /\ r' = p
  /\ place' = [place EXCEPT ![p] = "procsleep"]
  /\ UNCHANGED <<state, tok, ready, waker, guard>>

\* sleep: the condition does not hold, and the Proc goes to sleep.
SleepCommit(p) ==
  /\ place[p] = "sleep"
  /\ ~ready
  /\ r' = p
  /\ state' = [state EXCEPT ![p] = "Wakeme"]
  /\ place' = [place EXCEPT ![p] = "procsleep"]
  /\ UNCHANGED <<tok, ready, waker, guard>>

\* sleep: the condition holds, never mind.
SleepNever(p) ==
  /\ place[p] = "sleep"
  /\ ready
  /\ r' = Nobody
  /\ place' = [place EXCEPT ![p] = "back"]
  /\ UNCHANGED <<state, tok, ready, waker, guard>>

\* procsleep returns.
Woken(p) ==
  /\ place[p] = "procsleep"
  /\ p \in tok
  /\ tok' = tok \ {p}
  /\ place' = [place EXCEPT ![p] = "back"]
  /\ UNCHANGED <<r, state, ready, waker, guard>>

\* The caller finds what it waited for, and uses it up.
Take(p) ==
  /\ place[p] = "back"
  /\ ready
  /\ ready' = FALSE
  /\ guard' = Nobody
  /\ place' = [place EXCEPT ![p] = "run"]
  /\ UNCHANGED <<r, state, tok, waker>>

\* The caller finds nothing, and sleeps again.
Again(p) ==
  /\ place[p] = "back"
  /\ ~ready
  /\ place' = [place EXCEPT ![p] = "sleep"]
  /\ UNCHANGED <<r, state, tok, ready, waker, guard>>

\* (mutant) a waker that calls wakeup first
MakeReadyLate(w) ==
  /\ waker[w] = "run"
  /\ ready' = TRUE
  /\ UNCHANGED <<r, state, place, tok, waker, guard>>

\* A waker makes the condition true; it will call wakeup.
MakeReady(w) ==
  /\ waker[w] = "run"
  /\ ready' = TRUE
  /\ waker' = [waker EXCEPT ![w] = "wakeup"]
  /\ UNCHANGED <<r, state, place, tok, guard>>

\* wakeup: nobody sleeps.
WakeupNone(w) ==
  /\ waker[w] = "wakeup"
  /\ r = Nobody
  /\ waker' = [waker EXCEPT ![w] = "run"]
  /\ UNCHANGED <<r, state, place, tok, ready, guard>>

\* (mutant) a wakeup that leaves r->p
WakeupLeaves(w) ==
  /\ waker[w] = "wakeup"
  /\ r # Nobody
  /\ state' = [state EXCEPT ![r] = "Running"]
  /\ tok' = tok \union {r}
  /\ waker' = [waker EXCEPT ![w] = "run"]
  /\ UNCHANGED <<r, place, ready, guard>>

\* wakeup: panic("wakeup: state") or the sleeper is woken.
Wakeup(w) ==
  /\ waker[w] = "wakeup"
  /\ r # Nobody
  /\ IF state[r] # "Wakeme"
     THEN /\ waker' = [waker EXCEPT ![w] = "panic"]
          /\ UNCHANGED <<r, state, tok>>
     ELSE /\ state' = [state EXCEPT ![r] = "Running"]
          /\ tok' = tok \union {r}
          /\ r' = Nobody
          /\ waker' = [waker EXCEPT ![w] = "run"]
  /\ UNCHANGED <<place, ready, guard>>

SleeperStep(p) == SleepCommit(p) \/ SleepNever(p) \/ Woken(p) \/ Take(p) \/ Again(p)

WakerStep(w) == WakeupNone(w) \/ Wakeup(w)

RendezNext ==
  \/ \E p \in Sleepers : Enter(p) \/ SleeperStep(p)
  \/ \E w \in Wakers : MakeReady(w) \/ WakerStep(w)

\* A Proc in sleep or on its way to wakeup runs in the end.
RendezFairness ==
  /\ \A p \in Sleepers : WF_rendezVars(SleeperStep(p))
  /\ \A w \in Wakers : WF_rendezVars(WakerStep(w))

RendezSpec == RendezInit /\ [][RendezNext]_rendezVars /\ RendezFairness

-----------------------------------------------------------------------------
Asleep(p) == place[p] = "procsleep" /\ p \notin tok

Owed == \E w \in Wakers : waker[w] = "wakeup"

\* A second sleeper never replaces the first in r->p, where no wakeup would
\* find it again: sleep() prints "double sleep" when it does.
NoDoubleSleep == \A p \in Sleepers : Asleep(p) => r = p

\* A Proc is asleep for a condition that holds only while some waker has its
\* wakeup still to come: the wakeup cannot have slipped in before the sleep.
NoLostWakeup == \A p \in Sleepers : Asleep(p) /\ ready => Owed

\* wakeup never meets a Proc that is not asleep on this Rendez: it would panic.
NoPanic == \A w \in Wakers : waker[w] # "panic"

\* A Proc is woken only in procsleep: a procwakeup left over would end a later
\* sleep of the same Proc, on whatever lock or Rendez that is.
NoStrayWakeup == \A p \in tok : place[p] = "procsleep"

\* Whoever sleeps when the condition becomes true wakes.
SleepEnds == \A p \in Sleepers : (place[p] = "procsleep" /\ ready) ~> place[p] # "procsleep"

-----------------------------------------------------------------------------
\* The inductive invariant: with the qlock, one sleeper is past Enter, and
\* r->p is that sleeper exactly while it is asleep.
OneInside == \A p \in Sleepers : place[p] # "run" <=> guard = p

Known == \A p \in Sleepers :
  /\ r = p => place[p] = "procsleep" /\ state[p] = "Wakeme" /\ p \notin tok
  /\ Asleep(p) => r = p
  /\ p \in tok => place[p] = "procsleep"

RendezIInv == RendezType /\ OneInside /\ Known /\ NoLostWakeup /\ NoPanic
=============================================================================
