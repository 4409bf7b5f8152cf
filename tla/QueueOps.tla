------------------------------ MODULE QueueOps ------------------------------
(***************************************************************************)
(* The Queue of kern/qio.c and what its critical sections do to it: every  *)
(* operator is code that runs between ilock(&q->lk) and iunlock(&q->lk).   *)
(*                                                                         *)
(* Bytes are numbered 1, 2, ... in the order in which they are queued; a   *)
(* Block is the interval from .. to of its bytes (none when to = from - 1) *)
(* with the size of its buffer, BALLOC.  The content of a byte never       *)
(* matters to a Queue, its place in the stream does.                       *)
(***************************************************************************)
EXTENDS Naturals, Sequences, SequencesExt

CONSTANTS Limit,       \* q->limit, the limit given to qopen
          Overhead     \* room allocb adds to a block (Hdrspc, Tlrspc)

ASSUME QueueAssumption == Limit \in Nat \ {0} /\ Overhead \in Nat

Block == [from : Nat, to : Nat, alloc : Nat]

BLEN(b) == b.to + 1 - b.from

\* allocb for bytes from .. to
Allocb(from, to) == [from |-> from, to |-> to, alloc |-> to + 1 - from + Overhead]

Blocklen(bs) == FoldLeft(LAMBDA n, b : n + BLEN(b), 0, bs)

Blockalloclen(bs) == FoldLeft(LAMBDA n, b : n + b.alloc, 0, bs)

\* A Queue: its blocks, len (bytes allocated), dlen (data bytes), the bits of
\* state, noblock, and the eofs read, of which only 0 .. 4 are told apart.
Queues == [blocks : Seq(Block), len : Nat, dlen : Nat, eof : 0 .. 4,
           closed : BOOLEAN, starve : BOOLEAN, flow : BOOLEAN,
           msg : BOOLEAN, coalesce : BOOLEAN, noblock : BOOLEAN]

\* qopen and qnoblock
Qopen(msg, coalesce, noblock) ==
  [blocks |-> <<>>, len |-> 0, dlen |-> 0, eof |-> 0,
   closed |-> FALSE, starve |-> TRUE, flow |-> FALSE,
   msg |-> msg, coalesce |-> coalesce, noblock |-> noblock]

\* (mutant) a close that leaves q->len
QclosedLen(q) ==
  [q EXCEPT !.closed = TRUE, !.flow = FALSE, !.starve = FALSE, !.noblock = FALSE,
            !.blocks = <<>>, !.dlen = 0]

\* qclose
Qclosed(q) ==
  [q EXCEPT !.closed = TRUE, !.flow = FALSE, !.starve = FALSE, !.noblock = FALSE,
            !.blocks = <<>>, !.len = 0, !.dlen = 0]

\* qhangup
Qhungup(q) == [q EXCEPT !.closed = TRUE]

\* qreopen; the limit is the one given to qopen all along.
Qreopened(q) == [q EXCEPT !.closed = FALSE, !.starve = TRUE, !.eof = 0]

\* qaddlist, of one block
Qaddlist(q, b) ==
  [q EXCEPT !.blocks = Append(@, b), !.len = @ + b.alloc, !.dlen = @ + BLEN(b)]

\* qremove, of the first k blocks one by one
Qremove(q, k) ==
  LET gone == SubSeq(q.blocks, 1, k)
  IN [q EXCEPT !.blocks = SubSeq(@, k + 1, Len(@)),
               !.len = @ - Blockalloclen(gone), !.dlen = @ - Blocklen(gone)]

\* qputback
Qputback(q, b) ==
  [q EXCEPT !.blocks = <<b>> \o @, !.len = @ + b.alloc, !.dlen = @ + BLEN(b)]

\* splitblock: the block with the last n bytes of b.  The smaller of the two
\* parts is copied to a new block, the other keeps the buffer of b.
Splitblock(b, n) ==
  IF BLEN(b) - n < n THEN [b EXCEPT !.from = b.to + 1 - n]
                     ELSE Allocb(b.to + 1 - n, b.to)

\* The zero length blocks at the head, which a coalescing read drops.
Empties(q) ==
  LET i == SelectInSeq(q.blocks, LAMBDA b : BLEN(b) > 0)
  IN IF i = 0 THEN Len(q.blocks) ELSE i - 1

\* How many blocks a read of n bytes takes: the first, and when it coalesces
\* as many as it needs.
Grab(q, n) ==
  IF q.coalesce
  THEN CHOOSE k \in DOMAIN q.blocks :
         /\ Blocklen(SubSeq(q.blocks, 1, k)) >= n \/ k = Len(q.blocks)
         /\ \A j \in 1 .. k - 1 : Blocklen(SubSeq(q.blocks, 1, j)) < n
  ELSE 1

\* What is left of the last block taken, when the read had no room for it.  A
\* message queue loses it.
Excess(q, n) == Blocklen(SubSeq(q.blocks, 1, Grab(q, n))) - n

Split(q, n) == Blocklen(SubSeq(q.blocks, 1, Grab(q, n))) > n /\ ~q.msg

\* (mutant) a read that drops what it has no room for
TakenDrop(q, n) == Qremove(q, Grab(q, n))

\* qread and qbread: the queue after n bytes are taken from it.
Taken(q, n) ==
  LET k == Grab(q, n)
      q1 == Qremove(q, k)
  IN IF Split(q, n) THEN Qputback(q1, Splitblock(q.blocks[k], Excess(q, n))) ELSE q1

\* The last byte a read of n bytes has used up.
LastTaken(q, n) == q.blocks[Grab(q, n)].to - IF Split(q, n) THEN Excess(q, n) ELSE 0

\* qwakeup_iunlock, the test
Restart(q) == q.flow /\ q.len < Limit \div 2

\* qwakeup_iunlock: flow controlled writers are restarted at half the limit.
Restarted(q) == [q EXCEPT !.flow = @ /\ ~Restart(q)]

\* q->len and q->dlen are the sums over the blocks: flow control is about what
\* is there.
Accounted(q) == q.len = Blockalloclen(q.blocks) /\ q.dlen = Blocklen(q.blocks)

\* The blocks hold the bytes first .. last of the stream, in order.
Contiguous(q, first, last) ==
  LET starts == [i \in DOMAIN q.blocks |-> q.blocks[i].from]
      ends == [i \in DOMAIN q.blocks |-> q.blocks[i].to]
  IN starts \o <<last + 1>> = <<first>> \o [i \in DOMAIN ends |-> ends[i] + 1]
=============================================================================
