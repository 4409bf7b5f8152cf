-------------------------------- MODULE Fgrp --------------------------------
(***************************************************************************)
(* The file descriptors of drawterm: one table, Fgrp, that every Proc      *)
(* shares since kproc hands it on, and the Chans it leads to, which count  *)
(* their references.  The calls of sysfile.c find a Chan in the table with *)
(* the lock of the Fgrp held and use it without, so that another Proc may  *)
(* close or replace the descriptor in the middle of a call.                *)
(*                                                                         *)
(* What a Chan is open on is its file, as the device sees it: the device   *)
(* is told once of its close, by the Proc that gives up the last           *)
(* reference, and then the memory of the Chan is used again.               *)
(***************************************************************************)
EXTENDS Naturals, FiniteSets

CONSTANTS Procs, First,   \* First is the Proc of procinit0
          Chans, Files,
          Delta,          \* DELTAFD
          MaxNfd,         \* where growfd refuses, 5000
          None

ASSUME FgrpAssumption ==
  /\ First \in Procs /\ IsFiniteSet(Procs)
  /\ None \notin Chans /\ None \notin Files
  /\ Delta \in Nat \ {0, 1} /\ MaxNfd \in Nat

VARIABLES fd,         \* Fgrp.fd, the Chan of each descriptor, or None
          nfd, maxfd,
          fgref,      \* Fgrp.ref, the Procs that share the table
          ref,        \* Chan.ref
          file,       \* what a Chan is open on; None for one on the free list
          at,         \* the place of each Proc
          hold,       \* the Chans a Proc has a reference to
          closing,    \* the Chan a Proc gave up the last reference to, or None
          arg         \* the descriptor a Proc is to close

vars == <<fd, nfd, maxfd, fgref, ref, file, at, hold, closing, arg>>
table == <<fd, nfd, maxfd>>

\* The table never grows past this.
Fds == 0 .. MaxNfd + Delta - 1

Init ==
  /\ fd = [d \in Fds |-> None]
  /\ nfd = Delta /\ maxfd = 0
  /\ fgref = 1
  /\ ref = [c \in Chans |-> 0]
  /\ file = [c \in Chans |-> None]
  /\ at = [p \in Procs |-> IF p = First THEN "run" ELSE "none"]
  /\ hold = [p \in Procs |-> {}]
  /\ closing = [p \in Procs |-> None]
  /\ arg = [p \in Procs |-> None]

Goto(p, place) == at' = [at EXCEPT ![p] = place]

-----------------------------------------------------------------------------
Larger(a, b) == IF a > b THEN a ELSE b

\* growfd: whether the table can be made to hold d, and its size then.
CanGrow(d) == d < nfd \/ (d < nfd + Delta /\ nfd < MaxNfd)
Grown(d) == IF d < nfd THEN nfd ELSE nfd + Delta

Least(s) == CHOOSE d \in s : \A e \in s : d <= e

\* findfreefd: the first that is free from start on, perhaps the next to come.
FreeFd(start) ==
  LET free == {d \in start .. nfd - 1 : fd[d] = None}
  IN IF free = {} THEN Larger(nfd, start) ELSE Least(free)

\* newchan, and the device's open.
Opened == {file[c] : c \in Chans} \ {None}
Newchans(p, cs) ==
  /\ \A c \in cs : file[c] = None
  /\ ref' = [c \in Chans |-> IF c \in cs THEN 1 ELSE ref[c]]
  /\ hold' = [hold EXCEPT ![p] = cs]

\* sysopen, syscreate: namec
Sysopen(p) ==
  /\ at[p] = "run"
  /\ \E c \in Chans, f \in Files \ Opened :
       /\ Newchans(p, {c})
       /\ file' = [file EXCEPT ![c] = f]
  /\ Goto(p, "newfd")
  /\ UNCHANGED <<table, fgref, closing, arg>>

Syspipe(p) ==
  /\ at[p] = "run"
  /\ \E c, d \in Chans, f, g \in Files \ Opened :
       /\ c # d /\ f # g
       /\ Newchans(p, {c, d})
       /\ file' = [file EXCEPT ![c] = f, ![d] = g]
  /\ Goto(p, "newfd2")
  /\ UNCHANGED <<table, fgref, closing, arg>>

\* newfd, for open and dup: without a descriptor the Chan is closed again.
Newfd(p) ==
  /\ at[p] = "newfd"
  /\ LET d == FreeFd(0)
     IN IF CanGrow(d)
          THEN /\ \E c \in hold[p] : fd' = [fd EXCEPT ![d] = c]
               /\ nfd' = Grown(d) /\ maxfd' = Larger(maxfd, d)
               /\ hold' = [hold EXCEPT ![p] = {}]
               /\ Goto(p, "run")
          ELSE Goto(p, "cclose") /\ UNCHANGED <<table, hold>>
  /\ UNCHANGED <<fgref, ref, file, closing, arg>>

Newfd2(p) ==
  /\ at[p] = "newfd2"
  /\ LET d == FreeFd(0)
         e == FreeFd(d + 1)
     IN IF CanGrow(d) /\ CanGrow(e)
          THEN /\ \E c, b \in hold[p] : c # b /\ fd' = [fd EXCEPT ![d] = c, ![e] = b]
               /\ nfd' = Grown(e) /\ maxfd' = Larger(maxfd, e)
               /\ hold' = [hold EXCEPT ![p] = {}]
               /\ Goto(p, "run")
          ELSE Goto(p, "cclose") /\ UNCHANGED <<table, hold>>
  /\ UNCHANGED <<fgref, ref, file, closing, arg>>

\* (mutant) the Chan is taken without a reference
FdtochanBare(p, place) ==
  /\ at[p] = "run"
  /\ \E d \in 0 .. nfd - 1 : fd[d] # None /\ hold' = [hold EXCEPT ![p] = {fd[d]}]
  /\ Goto(p, place)
  /\ UNCHANGED <<table, fgref, ref, file, closing, arg>>

\* fdtochan with iref.  The tests of flag and mode come after the lock, and
\* the Chan is closed again when they fail.
Fdtochan(p, place) ==
  /\ at[p] = "run"
  /\ \E d \in 0 .. nfd - 1 :
       /\ fd[d] # None
       /\ ref' = [ref EXCEPT ![fd[d]] = @ + 1]
       /\ hold' = [hold EXCEPT ![p] = {fd[d]}]
  /\ Goto(p, place)
  /\ UNCHANGED <<table, fgref, file, closing, arg>>

\* kread, kwrite, fstat, fwstat: the call of the device, which may last.
Io(p) ==
  /\ at[p] = "io"
  /\ Goto(p, "cclose")
  /\ UNCHANGED <<table, fgref, ref, file, hold, closing, arg>>

\* sysdup to a descriptor that was named; what was there is closed after it.
DupTo(p) ==
  /\ at[p] = "dup"
  /\ Goto(p, "cclose")
  /\ \/ \E d \in Fds, c \in hold[p] :
          /\ CanGrow(d)
          /\ fd' = [fd EXCEPT ![d] = c]
          /\ nfd' = Grown(d) /\ maxfd' = Larger(maxfd, d)
          /\ hold' = [hold EXCEPT ![p] = IF fd[d] = None THEN {} ELSE {fd[d]}]
     \/ UNCHANGED <<table, hold>>
  /\ UNCHANGED <<fgref, ref, file, closing, arg>>

\* sysclose sees that something is there, and looks again in closefd.
Sysclose(p) ==
  /\ at[p] = "run"
  /\ \E d \in 0 .. nfd - 1 : fd[d] # None /\ arg' = [arg EXCEPT ![p] = d]
  /\ Goto(p, "closefd")
  /\ UNCHANGED <<table, fgref, ref, file, hold, closing>>

\* The loop stops above the next descriptor in use, and leaves maxfd where it
\* is when that is the one below: maxfd may be higher than what is in use.
Lowered(d) ==
  IF d # maxfd THEN maxfd ELSE Least({m \in 0 .. d : \A e \in m .. d - 1 : fd[e] = None})

Closefd(p) ==
  /\ at[p] = "closefd"
  /\ LET d == arg[p]
     IN IF fd[d] = None
          THEN Goto(p, "run") /\ UNCHANGED <<table, hold>>
          ELSE /\ fd' = [fd EXCEPT ![d] = None]
               /\ maxfd' = Lowered(d)
               /\ hold' = [hold EXCEPT ![p] = {fd[d]}]
               /\ Goto(p, "cclose")
               /\ UNCHANGED nfd
  /\ arg' = [arg EXCEPT ![p] = None]
  /\ UNCHANGED <<fgref, ref, file, closing>>

-----------------------------------------------------------------------------
\* Where a Proc goes that holds these Chans: to the next cclose, or on in
\* closefgrp, or back from the call.
Onward(cs) == IF cs # {} THEN "cclose" ELSE IF fgref = 0 THEN "closefgrp" ELSE "run"

\* cclose: decref, and the last reference calls the device.
Cclose(p) ==
  /\ at[p] = "cclose"
  /\ IF hold[p] = {}
       THEN Goto(p, Onward({})) /\ UNCHANGED <<ref, hold, closing>>
       ELSE \E c \in hold[p] :
              /\ ref' = [ref EXCEPT ![c] = @ - 1]
              /\ hold' = [hold EXCEPT ![p] = @ \ {c}]
              /\ IF ref[c] > 1
                   THEN Goto(p, Onward(hold[p] \ {c})) /\ UNCHANGED closing
                   ELSE /\ closing' = [closing EXCEPT ![p] = c]
                        /\ Goto(p, "devclose")
  /\ UNCHANGED <<table, fgref, file, arg>>

\* The close of the device, and chanfree.
Devclose(p) ==
  /\ at[p] = "devclose"
  /\ file' = [file EXCEPT ![closing[p]] = None]
  /\ closing' = [closing EXCEPT ![p] = None]
  /\ Goto(p, Onward(hold[p]))
  /\ UNCHANGED <<table, fgref, ref, hold, arg>>

-----------------------------------------------------------------------------
Kproc(p, q) ==
  /\ at[p] = "run" /\ at[q] = "none"
  /\ fgref' = fgref + 1
  /\ Goto(q, "run")
  /\ UNCHANGED <<table, ref, file, hold, closing, arg>>

\* pexit: the last Proc takes the table down.
Pexit(p) ==
  /\ at[p] = "run"
  /\ fgref' = fgref - 1
  /\ Goto(p, IF fgref = 1 THEN "closefgrp" ELSE "none")
  /\ UNCHANGED <<table, ref, file, hold, closing, arg>>

\* (mutant) the loop ends below maxfd
ClosefgrpShort(p) ==
  /\ at[p] = "closefgrp"
  /\ LET used == {d \in 0 .. maxfd - 1 : fd[d] # None}
         d == Least(used)
     IN IF used = {}
          THEN Goto(p, "none") /\ UNCHANGED <<fd, hold>>
          ELSE /\ fd' = [fd EXCEPT ![d] = None]
               /\ hold' = [hold EXCEPT ![p] = {fd[d]}]
               /\ Goto(p, "cclose")
  /\ UNCHANGED <<nfd, maxfd, fgref, ref, file, closing, arg>>

\* closefgrp: descriptor by descriptor up to maxfd.
Closefgrp(p) ==
  /\ at[p] = "closefgrp"
  /\ LET used == {d \in 0 .. maxfd : fd[d] # None}
         d == Least(used)
     IN IF used = {}
          THEN Goto(p, "none") /\ UNCHANGED <<fd, hold>>
          ELSE /\ fd' = [fd EXCEPT ![d] = None]
               /\ hold' = [hold EXCEPT ![p] = {fd[d]}]
               /\ Goto(p, "cclose")
  /\ UNCHANGED <<nfd, maxfd, fgref, ref, file, closing, arg>>

-----------------------------------------------------------------------------
\* What a Proc does by itself once it is in a call.
Step(p) ==
  \/ Newfd(p) \/ Newfd2(p) \/ DupTo(p) \/ Closefd(p)
  \/ Cclose(p) \/ Devclose(p) \/ Closefgrp(p)

Next ==
  \E p \in Procs :
    \/ Sysopen(p) \/ Syspipe(p) \/ Sysclose(p) \/ Pexit(p) \/ Io(p)
    \/ \E place \in {"io", "newfd", "dup", "cclose"} : Fdtochan(p, place)
    \/ \E q \in Procs : Kproc(p, q)
    \/ Step(p)

\* Procs go on, but a device may keep a caller for ever.
Spec == Init /\ [][Next]_vars /\ \A p \in Procs : WF_vars(Step(p))

-----------------------------------------------------------------------------
SlotsOf(c) == {d \in Fds : fd[d] = c}
HoldersOf(c) == {p \in Procs : c \in hold[p]}

\* A Chan has as many references as descriptors that lead to it and Procs that
\* hold it, whatever was closed or replaced under them; so neither panic of
\* cclose and decref occurs, no Chan on the free list is still in a table or
\* in a call, and each that loses its last reference has one Proc to close it.
\* Nothing is open above maxfd, where closefgrp would not look.
ChansCounted ==
  /\ \A c \in Chans :
       /\ ref[c] = Cardinality(SlotsOf(c)) + Cardinality(HoldersOf(c))
       /\ ref[c] > 0 => file[c] # None
       /\ ref[c] = 0 /\ file[c] # None => \E p \in Procs : closing[p] = c
  /\ \A p, q \in Procs : closing[p] # None =>
       /\ ref[closing[p]] = 0 /\ file[closing[p]] # None
       /\ closing[p] = closing[q] => p = q
  /\ \A d \in Fds : fd[d] # None => d <= maxfd /\ d < nfd

\* Why ChansCounted holds: what a Proc holds goes with its place.
Types ==
  /\ fd \in [Fds -> Chans \union {None}]
  /\ nfd \in Nat /\ nfd <= MaxNfd + Delta /\ maxfd \in Fds
  /\ ref \in [Chans -> Nat]
  /\ file \in [Chans -> Files \union {None}]
  /\ at \in [Procs -> {"none", "run", "newfd", "newfd2", "io", "dup", "closefd",
                      "cclose", "devclose", "closefgrp"}]
  /\ hold \in [Procs -> SUBSET Chans]
  /\ closing \in [Procs -> Chans \union {None}]
  /\ arg \in [Procs -> Fds \union {None}]

Places ==
  \A p \in Procs :
    /\ at[p] \in {"run", "none", "closefd", "closefgrp"} => hold[p] = {}
    /\ at[p] \in {"newfd", "dup"} => \E c \in Chans : hold[p] = {c}
    /\ at[p] = "newfd2" => \E c, b \in Chans : c # b /\ hold[p] = {c, b}
    /\ at[p] = "closefd" => arg[p] \in Fds
    /\ at[p] = "devclose" <=> closing[p] # None

IInv == Types /\ Places /\ ChansCounted

\* The Procs that share the table see one in which each call is a step: a file
\* is open as long as a descriptor leads to it or a call is inside it, and its
\* device is told once, and in the end, that it is closed.
Table == INSTANCE FileTable WITH
  Closed <- None,
  table <- [d \in Fds |->
              IF fgref = 0 \/ fd[d] = None THEN None ELSE file[fd[d]]],
  using <- [p \in Procs |-> IF fgref = 0 THEN {} ELSE {file[c] : c \in hold[p]}],
  open <- Opened
TableSpec == Table!Spec

\* What FileTable says of the steps alone.
TableSafety == Table!Init /\ [][Table!Next]_Table!vars

\* Why it does: no two Chans are open on one file, and fgref counts the Procs
\* there are until it is zero, when the last takes down a table no one uses.
FilesApart ==
  \A c, d \in Chans : file[c] # None /\ file[c] = file[d] => c = d
Sharers == {p \in Procs : at[p] # "none"}
Shared ==
  /\ fgref \in Nat
  /\ fgref > 0 => /\ fgref = Cardinality(Sharers)
                  /\ \A p \in Procs : at[p] # "closefgrp"
  /\ fgref = 0 => \A p \in Procs :
                     at[p] \in {"none", "closefgrp", "cclose", "devclose"}

TableInv == IInv /\ FilesApart /\ Shared
=============================================================================
