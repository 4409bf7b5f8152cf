-------------------------------- MODULE Qio ---------------------------------
(***************************************************************************)
(* The Queue of kern/qio.c between its Procs: readers in qread, writers in *)
(* qwrite, which may sleep in qflow, producers in qproduce or qiwrite,     *)
(* which never do, and one Proc that hangs up, closes and reopens.  What   *)
(* happens under q->lk is one step; sleep, wakeup, qlock and qunlock are   *)
(* the steps of Rendez and QLock.  notempty and qnotfull, and the tests of *)
(* qwrite and qflow, read the queue with q->lk not held.                   *)
(***************************************************************************)
EXTENDS QueueOps

CONSTANTS Readers, Writers, Producers, Closer, None,
          Uses,        \* the queues a run looks at: how each was opened, and
                       \* the Procs that use it
          Maxatomic,   \* the largest block a write makes
          WriteSizes, ReadSizes,
          MaxBytes,    \* bound on the bytes a run queues
          MaxCloses    \* bound on the calls of qhangup, qclose and qreopen

Procs == Readers \union Writers \union Producers \union {Closer}

ASSUME ProcsAssumption ==
  /\ None \notin Procs
  /\ \A u \in Uses : /\ {u.msg, u.coalesce, u.noblock} \subseteq BOOLEAN
                     /\ u.users \subseteq Procs

ASSUME SizesAssumption ==
  /\ ReadSizes \subseteq Nat /\ WriteSizes \subseteq Nat
  /\ Maxatomic \in Nat \ {0}
  /\ MaxCloses \in Nat

L == INSTANCE QLockOps

VARIABLES q,           \* the Queue
          users,       \* the Procs that use it
          rlock,       \* q->rlock, mutex for reading processes
          wlock,       \* q->wlock, mutex for writing processes
          rr,          \* q->rr.p, process waiting to read
          wr,          \* q->wr.p, process waiting to write
          tok,         \* Procs that procwakeup was called for in a sleep
          at,          \* where each Proc is
          want,        \* readers: bytes wanted, writers: blocks still to make
          nput,        \* bytes queued so far
          ngot,        \* last byte that was read or thrown away
          ncloses

vars == <<q, users, rlock, wlock, rr, wr, tok, at, want, nput, ngot, ncloses>>

TypeOK ==
  /\ q \in Queues
  /\ users \subseteq Procs
  /\ rlock \in L!QLocks /\ wlock \in L!QLocks
  /\ rr \in Readers \union {None}
  /\ wr \in Writers \union {None}
  /\ tok \subseteq Readers \union Writers
  /\ at \in [Procs -> {"run", "rlock", "rsleep", "rasleep", "wakewr", "runlock",
                       "put", "wakerr", "flow", "setflow", "wqlock", "wlock",
                       "wasleep", "wunlock", "wakeall", "closewr"}]
  /\ want \in [Readers \union Writers -> Seq(Nat)]
  /\ ngot \in 0 .. nput /\ nput \in Nat
  /\ ncloses \in 0 .. MaxCloses

Init ==
  /\ \E u \in Uses : q = Qopen(u.msg, u.coalesce, u.noblock) /\ users = u.users
  /\ rlock = L!FreeLock /\ wlock = L!FreeLock
  /\ rr = None /\ wr = None
  /\ tok = {}
  /\ at = [p \in Procs |-> "run"]
  /\ want = [p \in Readers \union Writers |-> <<>>]
  /\ nput = 0 /\ ngot = 0 /\ ncloses = 0

Goto(p, l) == at' = [at EXCEPT ![p] = l]

Go(p, from, to) == at[p] = from /\ Goto(p, to)

\* qnotfull and notempty
Notfull == q.len < Limit \/ q.closed
Notempty == q.blocks # <<>> \/ q.closed

\* wakeup(&q->rr) and wakeup(&q->wr)
WakeupRr ==
  /\ rr' = None
  /\ tok' = tok \union ({rr} \ {None})
  /\ UNCHANGED wr

WakeupWr ==
  /\ wr' = None
  /\ tok' = tok \union ({wr} \ {None})
  /\ UNCHANGED rr

Rendezs == <<rr, wr, tok>>
Locks == <<rlock, wlock, users>>
Stream == <<nput, ngot, ncloses>>

-----------------------------------------------------------------------------
\* Readers: qread, qbread.
Qread(p, n) ==
  /\ p \in users
  /\ Go(p, "run", "rlock")
  /\ rlock' = L!Enqueued(rlock, p)
  /\ want' = [want EXCEPT ![p] = <<n>>]
  /\ UNCHANGED <<q, wlock, users, Rendezs, Stream>>

\* The queue a reader looks at: it has dropped the empty blocks if it may.
Seen == IF q.coalesce THEN Qremove(q, Empties(q)) ELSE q

Inside(p) == at[p] = "rlock" /\ rlock.hold = p

\* qwait finds a block: it is taken, and writers restarted.
ReadBlock(p) ==
  /\ Inside(p) /\ Seen.blocks # <<>>
  /\ LET n == Head(want[p])
         left == Taken(Seen, n)
     IN /\ q' = Restarted(left)
        /\ ngot' = LastTaken(Seen, n)
        /\ Goto(p, IF Restart(left) THEN "wakewr" ELSE "runlock")
  /\ UNCHANGED <<Locks, Rendezs, want, nput, ncloses>>

\* qwait finds the queue closed and empty: the read returns 0, or an error
\* from the fourth time on.
ReadEof(p) ==
  /\ Inside(p) /\ Seen.blocks = <<>> /\ q.closed
  /\ q' = [Seen EXCEPT !.eof = IF @ < 4 THEN @ + 1 ELSE @]
  /\ Goto(p, "runlock")
  /\ UNCHANGED <<Locks, Rendezs, want, Stream>>

\* (mutant) a reader that does not flag that it waits
ReadWaitQuiet(p) ==
  /\ Inside(p) /\ Seen.blocks = <<>> /\ ~q.closed
  /\ q' = Seen
  /\ Goto(p, "rsleep")
  /\ UNCHANGED <<Locks, Rendezs, want, Stream>>

\* qwait flags that a producer is to wake it.
ReadWait(p) ==
  /\ Inside(p) /\ Seen.blocks = <<>> /\ ~q.closed
  /\ q' = [Seen EXCEPT !.starve = TRUE]
  /\ Goto(p, "rsleep")
  /\ UNCHANGED <<Locks, Rendezs, want, Stream>>

\* sleep(&q->rr, notempty, q)
ReadSleep(p) ==
  /\ at[p] = "rsleep"
  /\ IF Notempty THEN rr' = None /\ Goto(p, "rlock")
                 ELSE rr' = p /\ Goto(p, "rasleep")
  /\ UNCHANGED <<q, Locks, wr, tok, want, Stream>>

ReadAwake(p) ==
  /\ p \in tok
  /\ Go(p, "rasleep", "rlock")
  /\ tok' = tok \ {p}
  /\ UNCHANGED <<q, Locks, rr, wr, want, Stream>>

\* qwakeup_iunlock, after iunlock
ReadRestart(p) ==
  /\ Go(p, "wakewr", "runlock")
  /\ WakeupWr
  /\ UNCHANGED <<q, Locks, want, Stream>>

ReadReturn(p) ==
  /\ Go(p, "runlock", "run")
  /\ rlock' = L!Released(rlock)
  /\ want' = [want EXCEPT ![p] = <<>>]
  /\ UNCHANGED <<q, wlock, users, Rendezs, Stream>>

-----------------------------------------------------------------------------
\* Writers: qwrite makes blocks of at most Maxatomic bytes and gives each to
\* qbwrite; a message queue gets the first of them only.
Pieces(n) ==
  LET cut(i) == IF i * Maxatomic < n THEN Maxatomic ELSE n - (i - 1) * Maxatomic
      k == IF n = 0 THEN 1 ELSE (n + Maxatomic - 1) \div Maxatomic
  IN [i \in 1 .. (IF q.msg THEN 1 ELSE k) |-> cut(i)]

\* Bytes queued or about to be.
Committed ==
  FoldSet(LAMBDA p, n : n + FoldLeft(LAMBDA m, k : m + k, 0, want[p]), nput, Writers)

Qwrite(p, n) ==
  /\ p \in users
  /\ Committed + n <= MaxBytes
  /\ Go(p, "run", IF q.len \div 2 >= Limit /\ ~q.noblock THEN "flow" ELSE "put")
  /\ want' = [want EXCEPT ![p] = Pieces(n)]
  /\ UNCHANGED <<q, Locks, Rendezs, Stream>>

\* What qwrite does when qbwrite or qflow returns.
Onward(p, pieces) == Goto(p, IF pieces = <<>> THEN "run" ELSE "put")

\* qbwrite: the queue is closed, error(q->err).
WriteClosed(p) ==
  /\ q.closed
  /\ Go(p, "put", "run")
  /\ want' = [want EXCEPT ![p] = <<>>]
  /\ UNCHANGED <<q, Locks, Rendezs, Stream>>

\* qbwrite: the block is dropped for it does not fit.
WriteDropped(p) ==
  /\ at[p] = "put"
  /\ ~q.closed /\ q.len >= Limit /\ q.noblock
  /\ want' = [want EXCEPT ![p] = Tail(@)]
  /\ Onward(p, Tail(want[p]))
  /\ UNCHANGED <<q, Locks, Rendezs, Stream>>

\* A block of n bytes is added, and a starved reader will be woken.
Added(n) == [Qaddlist(q, Allocb(nput + 1, nput + n)) EXCEPT !.starve = FALSE]

\* (mutant) a write that wakes a reader only when it fills the queue
WriteBlockFull(p) ==
  /\ at[p] = "put"
  /\ ~q.closed /\ ~(q.len >= Limit /\ q.noblock)
  /\ LET n == Head(want[p])
     IN q' = Added(n) /\ nput' = nput + n
  /\ want' = [want EXCEPT ![p] = Tail(@)]
  /\ Goto(p, IF q.starve /\ q'.len >= Limit THEN "wakerr" ELSE "flow")
  /\ UNCHANGED <<Locks, Rendezs, ngot, ncloses>>

\* qbwrite: the block is queued.
WriteBlock(p) ==
  /\ at[p] = "put"
  /\ ~q.closed /\ ~(q.len >= Limit /\ q.noblock)
  /\ LET n == Head(want[p])
     IN q' = Added(n) /\ nput' = nput + n
  /\ want' = [want EXCEPT ![p] = Tail(@)]
  /\ Goto(p, IF q.starve THEN "wakerr" ELSE "flow")
  /\ UNCHANGED <<Locks, Rendezs, ngot, ncloses>>

\* wakeup(&q->rr): a writer goes on to qflow, a producer returns.
WakeReader(p) ==
  /\ Go(p, "wakerr", IF p \in Writers THEN "flow" ELSE "run")
  /\ WakeupRr
  /\ UNCHANGED <<q, Locks, want, Stream>>

\* qflow: the test
Flow(p) ==
  /\ at[p] = "flow"
  /\ IF q.noblock \/ Notfull THEN Onward(p, want[p]) ELSE Goto(p, "setflow")
  /\ UNCHANGED <<q, Locks, Rendezs, want, Stream>>

\* (mutant) a writer that does not flag that it waits
FlowFlagNot(p) ==
  /\ Go(p, "setflow", "wqlock")
  /\ UNCHANGED <<q, Locks, Rendezs, want, Stream>>

\* qflow: q->state |= Qflow
FlowFlag(p) ==
  /\ Go(p, "setflow", "wqlock")
  /\ q' = [q EXCEPT !.flow = TRUE]
  /\ UNCHANGED <<Locks, Rendezs, want, Stream>>

FlowQlock(p) ==
  /\ Go(p, "wqlock", "wlock")
  /\ wlock' = L!Enqueued(wlock, p)
  /\ UNCHANGED <<q, rlock, users, Rendezs, want, Stream>>

\* sleep(&q->wr, qnotfull, q)
FlowSleep(p) ==
  /\ at[p] = "wlock" /\ wlock.hold = p
  /\ IF Notfull THEN wr' = None /\ Goto(p, "wunlock")
                ELSE wr' = p /\ Goto(p, "wasleep")
  /\ UNCHANGED <<q, Locks, rr, tok, want, Stream>>

FlowAwake(p) ==
  /\ p \in tok
  /\ Go(p, "wasleep", "wunlock")
  /\ tok' = tok \ {p}
  /\ UNCHANGED <<q, Locks, rr, wr, want, Stream>>

FlowUnlock(p) ==
  /\ Go(p, "wunlock", "flow")
  /\ wlock' = L!Released(wlock)
  /\ UNCHANGED <<q, rlock, users, Rendezs, want, Stream>>

-----------------------------------------------------------------------------
\* Producers: qproduce, which does not look whether the queue is closed, and
\* qiwrite, which takes twice the limit.  What they are given fits one block.
Qproduce(p, n) ==
  /\ p \in users /\ at[p] = "run" /\ Committed + n <= MaxBytes
  /\ IF q.len >= Limit
     THEN /\ q' = [q EXCEPT !.flow = TRUE]
          /\ UNCHANGED <<at, nput>>
     ELSE /\ q' = [Added(n) EXCEPT !.flow = @ \/ Added(n).len >= Limit]
          /\ nput' = nput + n
          /\ Goto(p, IF q.starve THEN "wakerr" ELSE "run")
  /\ UNCHANGED <<Locks, Rendezs, want, ngot, ncloses>>

Qiwrite(p, n) ==
  /\ p \in users /\ at[p] = "run" /\ Committed + n <= MaxBytes
  /\ n <= Maxatomic
  /\ ~q.closed /\ q.len \div 2 < Limit
  /\ q' = Added(n)
  /\ nput' = nput + n
  /\ Goto(p, IF q.starve THEN "wakerr" ELSE "run")
  /\ UNCHANGED <<Locks, Rendezs, want, ngot, ncloses>>

\* The Proc that hangs up, closes and reopens.
Change(q1, l) ==
  /\ Closer \in users /\ ncloses < MaxCloses
  /\ ncloses' = ncloses + 1
  /\ q' = q1
  /\ Go(Closer, "run", l)
  /\ UNCHANGED <<Locks, Rendezs, want, nput>>

Qhangup == Change(Qhungup(q), "wakeall") /\ UNCHANGED ngot

Qclose == Change(Qclosed(q), "wakeall") /\ ngot' = nput

Qreopen == q.closed /\ Change(Qreopened(q), "run") /\ UNCHANGED ngot

\* wakeup(&q->rr), then wakeup(&q->wr)
CloseWakeRr ==
  /\ Go(Closer, "wakeall", "closewr")
  /\ WakeupRr
  /\ UNCHANGED <<q, Locks, want, Stream>>

CloseWakeWr ==
  /\ Go(Closer, "closewr", "run")
  /\ WakeupWr
  /\ UNCHANGED <<q, Locks, want, Stream>>

-----------------------------------------------------------------------------
ReaderStep(p) ==
  \/ ReadBlock(p) \/ ReadEof(p) \/ ReadWait(p) \/ ReadSleep(p) \/ ReadAwake(p)
  \/ ReadRestart(p) \/ ReadReturn(p)

WriterStep(p) ==
  \/ WriteClosed(p) \/ WriteDropped(p) \/ WriteBlock(p) \/ WakeReader(p)
  \/ Flow(p) \/ FlowFlag(p) \/ FlowQlock(p) \/ FlowSleep(p) \/ FlowAwake(p)
  \/ FlowUnlock(p)

CloserStep == CloseWakeRr \/ CloseWakeWr

ReadCall(p) == \E n \in ReadSizes : Qread(p, n)

Next ==
  \/ \E p \in Readers : ReadCall(p) \/ ReaderStep(p)
  \/ \E p \in Writers : WriterStep(p) \/ \E n \in WriteSizes : Qwrite(p, n)
  \/ \E p \in Producers :
       WakeReader(p) \/ \E n \in WriteSizes : Qproduce(p, n) \/ Qiwrite(p, n)
  \/ Qhangup \/ Qclose \/ Qreopen \/ CloserStep

\* A Proc inside the queue runs.  The readers keep reading, which is up to
\* their programs: flow control cannot end otherwise.
Fairness ==
  /\ \A p \in Readers : WF_vars(ReaderStep(p)) /\ WF_vars(ReadCall(p))
  /\ \A p \in Writers : WF_vars(WriterStep(p))
  /\ \A p \in Producers : WF_vars(WakeReader(p))
  /\ WF_vars(CloserStep)

Spec == Init /\ [][Next]_vars /\ Fairness

-----------------------------------------------------------------------------
\* Bytes are read in the order in which they were queued, each once: what was
\* read and what is in the queue make up the stream, whatever blocks were
\* split, put back or coalesced on the way.
InOrder == Contiguous(q, ngot + 1, nput)

\* The lengths flow control goes by are those of the blocks in the queue.
LengthsTrue == Accounted(q)

\* Who has a wakeup of the readers, or of the writers, still to make.
RrOwed == \E p \in Procs : at[p] \in {"wakerr", "wakeall"}
WrOwed == \E p \in Procs : at[p] \in {"wakewr", "wakeall", "closewr"}

\* A reader sleeps on a queue with something in it, or closed, only while its
\* wakeup is on the way.
ReaderWoken ==
  \A p \in Readers : at[p] = "rasleep" /\ p \notin tok =>
    rr = p /\ (Notempty => RrOwed)

\* A writer sleeps on a queue that was drained below half its limit, or is
\* closed, only while its wakeup is on the way.
WriterWoken ==
  \A p \in Writers : at[p] = "wasleep" /\ p \notin tok =>
    wr = p /\ (q.closed \/ q.len < Limit \div 2 => WrOwed)

\* Flow control ends when the readers read on.
FlowEnds == \A p \in Writers : at[p] = "wasleep" ~> at[p] = "run"

\* The readers catch up again and again: no byte stays in the queue for ever.
BytesRead == []<>(ngot = nput)
=============================================================================
