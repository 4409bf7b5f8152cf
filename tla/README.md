# drawterm in TLA+

drawterm is a terminal for Plan 9 cpu servers: a piece of the Plan 9 kernel
that runs in user space, with pthreads in the place of processes.  It has the
kernel's devices (screen, mouse, keyboard, files and network of the host, ...)
in a name space of its own, and exports that name space over 9P to the cpu
server, through TLS and, when asked to, through aan, which survives broken
connections.  This directory holds TLA+ modules of its concurrent core, the
configurations that check them with TLC, and proofs checked by TLAPS.

1. [The system](#1-the-system)
2. [The plan](#2-the-plan)
3. [The modules](#3-the-modules)
4. [The runs](#4-the-runs)
5. [What the runs found](#5-what-the-runs-found)
6. [What is proved](#6-what-is-proved)
7. [What is not modelled](#7-what-is-not-modelled)

## 1. The system

| component | source | state | operations | what is hard, and what makes it correct |
|---|---|---|---|---|
| procsleep, procwakeup | kern/posix.c | `nsleep`, `nwakeup`, mutex and condition variable of each Proc | put the calling Proc to sleep, wake one | The wakeup may come before the sleep; the wait may return for no reason. One sleep, one wakeup, none lost. |
| QLock | kern/qlock.c | `hold`, list `first..last`, spin lock | qlock, canqlock, qunlock | The lock is handed over and the sleep is outside the spin lock. Exclusion, order, one wakeup for each hand-off. |
| RWLock | kern/rwlock.c | two QLocks `x`, `k`, spin lock, count | rlock, runlock, wlock, wunlock | `k` is shared by all readers and released by another one than took it. A writer is alone; nobody starves. |
| Rendez | kern/sleep.c | `r->p`, `Proc.state`, `Proc.r` | sleep until a condition, wakeup | The condition is tested, then the Proc sleeps. No lost wakeup, no second sleeper, no panic. |
| Queue | kern/qio.c, allocb.c | block list, `len`, `dlen`, `state`, `noblock`, `eof`, `rlock`/`rr`, `wlock`/`wr` | qread, qwrite, qbwrite, qproduce, qiwrite, qhangup, qclose, qreopen | Three locks and two Rendezes, unlocked tests, flow control through one bit. Order of the bytes; whoever sleeps is woken. |
| exportfs | exportfs/ | `Workq` (50 buffers: busy, pid, flushtag), `Proclist` (slaves), tables of Fids, Files, Qids | one handler for each 9P request, slaves for open, read, write | No locks at all. One answer for each request, one owner for each buffer, flushes; Fids that stand where the client put them, descriptors with one owner, Files with the right count and Qids of their own. |
| aan | aan.c | message numbers, list of unacknowledged messages, the two file descriptors | aanwriter, aanreader, aansyncer, reconnect | Connections break at any point and what was lost is sent again. In order, once, everything. |
| file descriptors, channels | kern/sysfile.c, chan.c, pgrp.c, procinit.c | Fgrp (one table for all Procs), Chan reference counts, free list; mount table | open, create, pipe, dup, read, write, close, kproc, exit; bind, walk | A call uses its Chan without the table's lock. Every reference counted, each device told once of the close. |
| mount device | kern/devmnt.c | `Mnt.queue`, `Mnt.rip`, tag mask | mountio, mntgate, mountmux | Dead code: no attach reaches it (devmnt.c:352). |
| pipe | kern/devpipe.c | two Queues, reference counts of both ends | attach, open, close, read, write | Close of one end hangs up the other; reopen when both are closed. |
| mouse, keyboard, console | kern/devmouse.c, devkbd.c, devcons.c | ring of events, kbdq, keyq, lineq, kprintoq | read, events of the window system | The window system's thread produces, any slave reads. |
| commands | kern/devcmd.c | Conv, wait queue | run a program of the host | Exit of the program against close of the Conv. |
| display | kern/devdraw.c, term.c, libmemdraw, libmemlayer, gui-* | images, screens, `resize` | draw messages, resize | drawlock around everything; resizeproc. |
| TLS | kern/devtls.c, libsec/tlshand.c | state, version, ciphers and record numbers of both directions, hand queue; the state of the handshake | handshake of client and server, read, write, ctl, close | Two directions with two locks each, ciphers that change in the middle of the stream; alerts, hangups, any choice of the server. Both ends agree before data flows; all of it arrives, in order, or the end is an error. |
| network, host files, audio | kern/devip*.c, devfs-*.c, devlfd-*.c, devaudio*.c | none to speak of | pass on to the host | Pure I/O. |
| connection | cpu.c, main.c, secstore.c, libauth, libauthsrv | none | dial, authenticate, start aan and TLS, export | A script. |
| libraries | libc, libsec, libmp, libdraw, libip | none | computation | Sequential. |

How they interact.  Every device call runs on a Proc.  A Proc that has to wait
ends in procsleep: by way of a QLock (directly, or as half of an RWLock), of a
Rendez, or of the rendezvous of sysfile.c.  The Queue sits on QLock and Rendez
and is what pipe, console, keyboard and commands are made of.
exportfs runs one Proc that reads requests and answers most itself,
and slaves that call into the devices and may sleep there for long; main and a
slave meet in a rendezvous.  The connection exportfs reads from may be a pipe
whose other end aan's three Procs serve.

The layers depend on each other only through what the lower one promises, and
the modules follow that: `OsSleep` implements `BinarySemaphore`; `QLockSleep` is
the lock over those counters, and implements `QLock` over binary semaphores;
QLock, RWLock, Rendez and Qio use the binary semaphore (a credit, or a set of
woken Procs); Qio uses `QLockOps` for its two QLocks.  exportfs has two modules
about the same loop, one about who works on a request (`Exportfs`), one about
what the request does (`Files`).  Its slaves use file descriptors as all Procs
do (`Fgrp`); the descriptors in Files are what `sysopen` returned.  Aan and Tls are
both a `ReliablePipe` to those above them, as long as the connection lasts.

The hazards, each at its line and with the properties that watch it, are listed
in `PROJECT.json`.

## 2. The plan

Most important first; the first ten are done, proofs included.

1. `OsSleep` => `BinarySemaphore`: what everything sleeps on. Proved.
2. `QLockOps`, `QLock` => `FifoLock`: proved.
3. `QLockSleep`, the composition of the two: proved, down to FifoLock.
4. `RWLock`: proved.
5. `Rendez`: proved.
6. `QueueOps`, `Qio`: proved.
7. `Exportfs`: proved.  `Files` => `FidPlaces`: proved.
8. `Aan` => `ReliablePipe`: proved.
9. `TlsRec`, `Tls` => `ReliablePipe`: proved.
10. `Fgrp` => `FileTable`: proved.
11. What would come next: `Mouse` (the ring of devmouse.c and its Rendez) and
    `Pipe` (devpipe.c over two Queues).

## 3. The modules

Each definition that models code names its lines in the `map` of
`PROJECT.json`.  Definitions marked (mutant) are what a plausible bug would
make of the definition that follows; no action uses them.

**OsSleep** (posix.c).  `nsleep`, `nwakeup` are the counters of each Proc, `pc`
its place in procsleep.  The bodies of procsleep and procwakeup run under
`op->mutex` and are steps; the wait gives the mutex up and is a state.
`Recheck` is a return of pthread_cond_wait, signalled or not.  `owed` is the
contract with the callers: a Proc first makes itself known to a waker
(`Commit`), and each Commit earns one procwakeup.  **BinarySemaphore** is what
the callers see.

**QLockOps**, **QLock** (qlock.c).  A QLock is `[hold, queue]`; the operators
are the sections under the spin lock, the actions add the sleep and the wakeup
outside it: `target` is the Proc that a qunlock has dequeued and not yet woken.
**FifoLock** is the lock its users expect.

**QLockSleep** (qlock.c over posix.c).  The same lock with procsleep and
procwakeup as they are written: each action of QLock joined with the action of
OsSleep it makes.  A Proc sleeps for one thing at a time and its counters are its
own, so that this is every sleep it makes on QLocks.  It implements both
`BinarySemaphore` and QLock.

**RWLock** (rwlock.c).  Two QLocks and one spin lock `lk` that is held across
calls: its holder is a variable.  Each line of rlock, runlock, wlock, wunlock
that touches shared state is a step; the sections of qlock.c are those of
QLockOps.

**Rendez** (sleep.c).  sleep and wakeup under `r->lk`, with what their callers
do around them: a sleeper takes a qlock, sleeps, tests, uses up; a waker makes
the condition true and then calls wakeup.  `tok` is the binary semaphore.

**QueueOps**, **Qio** (qio.c).  Bytes are numbers in the order of writing, so
that a Block is an interval and the order of the stream can be seen.  A step is
a section under `q->lk`; the tests of qflow and qwrite, the conditions of sleep
and the calls of wakeup, which the code makes outside the lock, are steps of
their own.  A `Use` is one of the ways in which drawterm opens a Queue: flags,
and the Procs at it.  `Overhead` is the room allocb adds to each block, which
flow control counts; of `eof` only 0 to 4 are told apart, as in qwait.  The
limit is the one given to qopen (nobody in drawterm changes it while others
use the queue).

**Exportfs** (exportfs.c, exportsrv.c).  Work buffers with `busy`, `pid`, `tag`,
`flush`; `main` with its place in the loop of exportfs() and the buffer it
holds; the slaves with theirs.  The fields are plain ints that both sides read
and write: each access that matters is a step, taken to be sequentially
consistent.  Requests are numbered so that properties can name them, and the
code compares tags only.  `inline` stands for the handlers that answer and
return without sleeping.  The client is any client that keeps 9P's rules for
tags; `ReuseTags` tells whether it uses a tag again as soon as it may (as
devmnt.c does) or never.

**Files** (exportfs.c, exportsrv.c).  The same requests, for what they do: the
Fids, the Files (a tree that mirrors the part of the name space in use, each
counting its Fids and its children), the Qids, and the open descriptors.  main
handles Tattach, Twalk, Tclunk, Tcreate, Tremove, Twstat, a name of a walk a
step, since slaves and other programs come in between; a slave makes the path
of its Fid, opens it, and stores what it got, in steps; `HostCreate`,
`HostRemove` are other programs at work in the same tree.  The client sends one
request at a time on a fid, but for reads and writes.  `Qid` numbers count modulo
`QidWrap`.  Xstat only reads, and is left out.  A few things the model keeps as
the code has them: the Qid of an open is the host's own; a walk of several
names that stops half way leaves a fid that was walked onto itself where it
got; a slave in makepath while Xwstat frees a name opens anything
(`path = None`); a create whose file was taken away at once keeps its
descriptor, and the next create overwrites it; file() counts a reference to a
Qid too many when the file is there already, which `MaxRef` bounds.
**FidPlaces** is what the client may believe: each fid is at a place, a path.

**Aan** (aan.c).  The Client's fields, the three Procs, one network connection
as two sequences, and the server's end as a peer of the same protocol (external).
What runs under `c->lk` is a step; the sections of aanreader without the lock
(`Accept`, `Trim`, `Deliver`) are three.  `Break` loses any suffix in both
directions.  A pipe that was closed is read as an end three times, then fails
(`Eofs`, from qwait).  **ReliablePipe** is what the programs at the two ends see.

**TlsRec** (devtls.c).  One TlsRec as a value, with an operator for each thing the
device does under its locks: the ctl messages, sealing a record, opening one,
errors and alerts.  Encryption is a term: a record carries the key and the
number it was sealed with and opens with no other.  **Tls** (tlshand.c over it) is
both ends of a connection: tlsClient2 and tlsServer2 message by message, with
their choice of version, suite and key exchange, certificates or pre-shared
key, and after that the readers and writers of the data file, a section of
`in.io` or `out.io` a step.  Keys, hashes and verify data are terms made from the
secrets and the messages they are made from in the code, so that two ends have
the same key exactly when they saw the same handshake.  The connection keeps
order and may break at any point (`MayBreak`); the server may send a
HelloRequest (`MayRequest`), which drawterm's own server never does (external, as
its peer may be another program).  What the model shows of the code on the way:
tlsrecread turns a close notify into SError at once, so that it is never
answered, and SLClose is never entered; a write that fails sets SError too, and
data that has arrived is not read any more (devtls.c:1342); a client with a
server of SSL3 only, with which it settles on a suite of SHA256, fails cleanly.

**Fgrp** (sysfile.c, chan.c, pgrp.c, procinit.c).  kproc gives every Proc the
same table, so that there is one.  A section under the lock of the Fgrp is a
step, as are the decrement of a Chan in cclose and the close of the device that
follows it; between those another Proc may do anything.  `hold` is what a Proc
has a reference to in its local variables, `closing` the Chan it gave up the
last reference to.  The calls that only read a Chan (read, write, stat, wstat)
are one: find the Chan, stay in the device as long as it likes, give it up.
What namec does before a Chan is open is one step.  **FileTable** is the table
in which each call is atomic and files stay open while somebody uses them.

## 4. The runs

`tlc -config X.cfg MCX` in this directory.

| run | checks | distinct states |
|---|---|---|
| qlock_sleep | MutualExclusion, OneWakeup; BinarySemaphore (AbsSpec), QLock (QLockSpec), FifoLock (FifoSpec) | 32 037 |
| rwlock | Exclusion, KeyAccounted, WriterFirst, EveryoneServed | 16 105 |
| rendez | NoDoubleSleep, NoLostWakeup, NoPanic, SleepEnds | 199 |
| qio | InOrder, LengthsTrue, ReaderWoken, WriterWoken | 862 210 |
| qio_live | FlowEnds, BytesRead | 30 016 |
| exportfs | AnsweredOnce, OneOwner, RequestKept, FlushSettled, NoReplyAfterFlush, EveryRequestEnds | 37 965 |
| files | RefsTrue, QidsTrue, FdsOwned, FdsClosed; FidPlaces (PlacesSpec) | 739 430 |
| aan | UnackedKept; ReliablePipe (PipeSpec), Delivered | 444 642 |
| tls | InStep, OpenAgreed; ReliablePipe (PipeSpec), HandshakeEnds, DataArrives | 169 345 |
| fgrp | ChansCounted; FileTable (TableSpec) | 800 753 |
| qio_writers | FlowEnds is violated | |
| exportfs_tag_reuse | NoReplyAfterFlush is violated | |

What they show, in the order of the layers.  A Proc that sleeps is woken by the
one wakeup that is meant for it, a lock excludes and is passed on in order,
readers and writers both get their turn (qlock_sleep, rwlock), and a condition
that became true is noticed (rendez).  A queue keeps its bytes in order and its
lengths true, and whoever sleeps on it has somebody who will wake it (qio,
qio_live).  A request is answered once, by one owner of its buffer, and not
after its flush (exportfs); the fids stand where the client has put them, and
memory, Qids and descriptors are given back, or the model says which are not
(files).  A Chan is open while somebody uses it and is closed once (fgrp).  The
bytes of a connection arrive whole and in order, over connections that break
(aan), or over keys that both ends agreed on, or else with an error (tls).

Bounds, and why they are enough.

- qlock_sleep: four Procs, each put to sleep twice at most: a holder, a waker
  still under way and two in line, one of them woken before it slept; two
  sleeps are enough for a wakeup that is left over to meet the next sleep.  The
  theorems drop both bounds.
- rwlock: four Procs, unbounded time.  Two readers inside, a writer on `k` and
  one more on `x`.
- rendez: three sleepers, three wakers.
- qio: limit 6, writes of 0, 2 and 5 bytes cut into blocks of 3 at most, reads
  of 1 and 4, 7 bytes in all, one hangup or close (two calls in qio_live, so that
  a queue is reopened with users at it, as kprintoq is).  A read may find a
  part of a block, a whole one, or more than one; the queue passes its limit
  and falls below half of it, and empty blocks occur.  No two uses of a Queue
  in drawterm have more kinds of Procs than those listed in `MCQio`.
- exportfs: three requests, three buffers, two slaves.  Two requests and a
  flush meet every race between main and two slaves; with three buffers all of
  them can be busy, and with two slaves all of those.  The tag run needs one
  request more.
- files: three fids, two slaves, three files of the host below the root, each
  with the same number on a device of its own; two names, four Files, three
  descriptors; six requests or changes by other programs.  A fid can be
  walked from another, opened, renamed above, and removed by someone else, and
  two slaves can be in an open and in a read of the same fid.  Qids wrap at 3.
- fgrp: two Procs, three Chans, a table of two descriptors that grows once.
  One Proc is in a call while the other closes, replaces, opens again or ends;
  three Chans are two pipe ends and one to replace; the table is full with
  four.  Larger tables are what the theorem is for.
- tls: one connection in eleven setups (`MCConfs`): pre-shared keys that agree,
  differ or are missing, certificates that hold or do not, servers of TLS 1.2,
  1.0 and SSL3 with either key exchange.  Data flows in two of them: two
  records of two writers one way and one the other way, and a single record.
- aan: two pieces out, one in, two breaks.  The piece that comes in can
  acknowledge none, one or two of those that went out, can itself be sent
  again, and a second break hits what the first reconnect sent.  (Two pieces
  in take five minutes and pass as well.)

Deadlock is checked where the system cannot stop (qlock_sleep, rwlock); in the other
runs a bound ends the behaviour.

Fairness.  A Proc is a pthread: one that can run is taken to run in the end
(weak fairness of its steps).  Nothing is assumed of spurious returns, of new
calls from outside, or of failures.  Three assumptions are about users:
what is locked is unlocked (qlock_sleep, rwlock); readers of a queue keep reading
(qio), without which flow control is meant to last; the system call a slave is
in returns (exportfs), for nothing interrupts it.  In aan the network breaks
finitely often and a dial succeeds or drawterm gives up.  In tls both ends go on
with a handshake and read (`Handshake`, `Read`, `Tlsclose`, `Write`), and the connection
delivers until it breaks.  In fgrp a Proc goes on with its own code, but a
device may keep a caller for ever (`Io` is not fair), and `FileTable` promises
the close of a file only once nobody uses it.  files has no liveness.

Every property of a passing run has a mutant in `PROJECT.json` which breaks it.

## 5. What the runs found

- **qio_writers.** Two writers on one queue (two slaves of exportfs writing to
  one pipe or one command): Qflow is one bit, set before `wlock` is held and
  cleared for the writer that sleeps in `wr`.  The second writer can end up in
  `wr` with Qflow clear; then no read wakes it, the queue runs empty, and the
  reader sleeps for ever as well if nobody else writes.  With one writer
  `FlowEnds` holds (qio_live), and `WriterWoken` in run qio is about one writer
  per queue for that reason.
- **exportfs_tag_reuse.** A slave replies first and gives its buffer back
  later.  In between a client may use the tag for a new request and flush it:
  Xflush finds the old buffer, the old slave answers the flush, and the new
  request is answered after its flush.

Seen on the way, and in no run: a Tversion that is refused keeps its work
buffer, for Xversion returns without `t->busy = 0` (exportsrv.c:38); `maxfd` may be
higher than "highest fd in use" (dat.h:331), since the loop of closefd stops one
above the next in use (Fgrp has it so, and ChansCounted needs no more than that
nothing is open above); `_sysseek` from the current position to before the start
raises its error with the Chan's lock held (sysfile.c:530), but nobody in
drawterm seeks so; sysiounit reads a Chan it has no reference to.

Where the code comments on a race and lives with it the properties say what it
costs: a Tflush that comes between the slave's last test of flushtag and
`busy = 0` is never answered, but only when the request itself was
(`FlushSettled`).

## 6. What is proved

TLAPS checks these for every value of the constants, from the named assumptions
alone: `None` (`Nobody` in Rendez) is no Proc, no Chan and no file; for RWLock
and Fgrp the set of Procs is finite, since they are counted; for OsSleep the
number of sleeps of a Proc stays below the largest int; for Fgrp a table grows
by two descriptors at least (100 in the code), or newfd2 could grow it and then
fail; for Aan the bounds are numbers; for Qio the limit of a queue is positive
(every qopen of drawterm gives one), the sizes of reads and writes are numbers,
and Maxatomic is not zero; for Files there are finitely many Fids and Files,
newqid wraps at two or more (2^16 in the code), and `None` is no entry of a
table, no path and no walk; for Tls the server's version is one of those there
are, a server without a pre-shared key has a certificate (tlsServer2 gives up
when it has neither, tlshand.c:831), and `None` is no secret. Three of the
theorems about exportfs have a hypothesis of their own, that the client never
uses a tag again (`ReuseTags = FALSE`): without it the first is false, as the
run exportfs_tag_reuse shows, and the other two rest on the same invariant. The
others about exportfs hold for any client. QioWriterWoken has one as well: a
queue that a writer may have to wait for has no other Proc that adds to it, and
reads of it do not coalesce (`LoneWriter`); section 5 says why.

"Proved" said of a refinement is about its steps: Init and `[Next]_vars` of the
abstract specification, without its fairness (TLC checks that part as well).
ReliablePipe and FidPlaces have no fairness, and AanPipe, TlsPipe and FilesPlaces
are the whole of it.

| module | theorems |
|---|---|
| SleepProofs | of the sleep: SleepTypeOK, SleepNoEarlyReturn, SleepNoLostSignal, SleepRefines; of the lock over it: QLockSleepRefines, SleepingLockTypeOK, SleepingLockExcludes, SleepingLockOneWakeup, SleepingLockFifo, LockNoEarlyReturn, LockNoLostSignal; of sleep and wakeup: RendezTypeOK, RendezNoDoubleSleep, RendezNoLostWakeup, RendezNoPanic |
| RWLockProofs | RWLockTypeOK, RWLockExcludes, RWLockWriterFirst, RWLockKeyAccounted |
| QioProofs | QioTypeOK, QioInOrder, QioLengthsTrue, QioReaderWoken; with one filler per queue: QioWriterWoken |
| ExportfsProofs | ExportfsTypeOK, ExportfsAnsweredOnce, ExportfsOneOwner; with ReuseTags = FALSE: ExportfsNoReplyAfterFlush, ExportfsRequestKept, ExportfsFlushSettled |
| FilesProofs | FilesFdsOwned, FilesFdsClosed, FilesRefsTrue, FilesQidsTrue, FilesPlaces |
| FgrpProofs | FgrpChansCounted, FgrpTable |
| AanProofs | AanTypeOK, AanUnackedKept, AanPipe |
| TlsProofs | TlsTypeOK, TlsInStep, TlsOpenAgreed, TlsPipe |

(The lemmas about QLockOps are in SleepProofs and once more in
RWLockProofs, which has a lock twice and cannot extend a module about one.  The
theorems about sleep and wakeup stand beside those about procsleep, which they
call.)

Each rests on an inductive invariant, `IInv` where nothing else is said, defined
beside the model or, for Qio and Tls, in front of the proof.

- OsSleep: `Balance` gives the difference of the two counters at each place a
  Proc can be in; a test of the loop is then a test of who is owed.  The
  refinement follows step by step: `Recheck` is a stutter or a `Return`.
- QLock: exclusion alone is not inductive, because the owner is set before it
  wakes.  `Owner` says that the owner is inside or handed to, `Line` that the
  queue holds sleepers once each, `Wakeup` that a wakeup belongs to a hand-off.
  The same three make each step one of FifoLock.
- QLockSleep: `Joined` says which places of the lock go with which of the sleep.
  With it and the IInv of OsSleep each step is one of QLock over binary
  semaphores (QLockSleepRefines).  The steps of QLock keep its IInv whatever the
  credits are, so the lemmas about them are stated of the composition, in which
  the credit is the difference of the counters.
- RWLock: `InvX` (who may have x), `InvLk` (lk and the count go with the
  place), `InvK` (k keeps writers out while readers are in, and its queue is the
  one writer that has x), `InvWake` (a wakeup is for one hand-off of either
  lock).  WriterFirst follows from InvX: only the holder of x adds a reader.
  KeyAccounted needs `KeyInv` (RWLockProofs) on top: a k that is held is held for
  somebody who is inside or will give it back.  The step that matters is a
  reader that leaves others behind, and there the count is what tells.
- Rendez: `RendezIInv`: `OneInside` (the qlock) and `Known` (r->p is exactly the
  sleeper that was not woken).
- Qio: `Held` is InOrder and LengthsTrue together, with what makes the
  operations on blocks keep them: a block's buffer has room for its bytes
  (`Sound`), and each block starts where the one before ends (`Chain`).  A read
  may take blocks, split one and put the rest back; that the lengths stay sums
  needs sums that add up.  The sum over blocks is the number of points under
  them (`Area`), a cardinality, so that the theorems about finite sets apply;
  what a fold of the library computes is shown to be that sum by taking a
  smallest set of places where it is not.  `Calls` says who is where, with which
  lock.  `ReaderFlag`: a reader about to sleep on an empty queue has Qstarve
  set, and one asleep has that or a wakeup.  `WriterFlag` says the like of
  Qflow, and is inductive only with `Lone`: who waits for a queue is the only
  one to fill it and reads of it do not coalesce, or nobody waits for it at all
  (noblock and never closed).  A second writer can clear the flag of the first,
  and qwait drops the empty blocks of a coalescing queue without a wakeup of
  writers.  Lone is a hypothesis about `Uses`, and every queue of run qio meets
  it; SharedPipe, of run qio_writers, does not.  TLC has checked the whole
  invariant on the instance of run qio.
- Exportfs: `OwnInv` and `FlushInv`.  AnsweredOnce is not inductive, because an
  answer is given without a look at what was answered.  `Owned` ties the pid of
  a busy buffer to the one that works on it, `Numbers` keeps each request in one
  buffer, and `MainFirst` and `SlaveFirst` say that whoever is about to answer is
  the first to.  For the flushes, `TagsTrue` makes a tag name its request (here
  tags must not be used again), `FlushSeen` says that a slave at work sees every
  flush of its request that main has read, and `RequestHeld` that what was read
  and not answered is in hand, or its flush is.
- Aan: what is sent again must be what was lost and nothing else, and the two
  ends know about each other only by numbers.  `Counted` relates the numbers to
  what the programs wrote and got, `Kept` is UnackedKept with the numbers of the
  messages kept; `Meant` says of every message on its way, in either direction,
  which piece it carries and that it acknowledges no more than was received,
  `NoGap` that whoever waits for a number finds it before any later one, and
  `Passed` what is in the pipe to the program.  A `Break` keeps a prefix of what
  is on its way, and a prefix of a chain is a chain; reconnect starts a new one
  at the oldest message kept.  Each step of Aan is then one of ReliablePipe or a
  stutter.
- Files: `Apart` says that what a slave or main has in its hands is of a Fid
  that nobody else works on, from the rule that a client sends one request at
  a time on a fid; then each descriptor has the one owner it was opened for.
  The counts need `TablesInv`.  freefile goes up from a File as long as its
  count comes to zero, so that what it frees is a chain: `TreeOf` is what lets
  one walk up at all (in any set of Files one is root or has its parent outside
  the set; `Visited` is then a recursive function over a well-founded order), and
  `ChainOf` says of such a walk which Files it frees, that each of those has the
  one below it as its only child, and where it stops.  Between file() and
  freefile() of one step the counts are not those of the Fids, so `RefsOf` and
  `FilesOf` are about any table and any numbers of users, and each step is made
  of three: a user comes (`Comes`), a File is found or made (`FileFound`), a user
  leaves (`Leaves`).  Root stays because initroot's reference is counted.  For
  the Qids, `QidsOf` says that an entry is counted at least as often as live
  Files have it (file() counts once too many) and that the paths differ;
  uniqueqid keeps that wherever newqid wraps.  TLC has checked IInv on the
  instance of run files.
  FilesPlaces is about paths.  makepath is a recursive function, and what it is
  of a tree (`PathIs`) comes from `TreeOf` as for Visited.  A step that frees
  Files, or makes one, keeps the parents and names of the others (`Carried`),
  and so all their paths (`PathSame`) and the places of the Fids that do not
  move.  Xwstat changes one name, and the paths it changes are those of that
  File and of some below it, in that name only (`PathRenamed`).
- Fgrp: `Places` says what a Proc holds at each place; then `Counted` (the
  references are the descriptors and the Procs that lead to a Chan), `Known`
  (one Proc closes what has none left) and `Bounded` (nothing above maxfd).  A step
  changes one descriptor, one Proc, or trades between them: `SlotChanged`,
  `HoldChanged` and `TradeInv` say so once, and each call is an instance.
  FgrpTable needs `TableInv`: no two Chans are open on one file (`FilesApart`),
  and fgref is the number of Procs that share the table until it is zero, when
  the last of them takes it down with nobody left in it (`Shared`).

- Tls: whether an end refuses a record depends on what the other sealed long
  before, under which keys and with which number.  So the invariant says what the
  handshake of two ends set up as `conf` is when nothing goes wrong: `Said` is
  the n-th record an end makes of it, `Chosen`, `MasterOf`, `SendKey` and
  `ReadKey` what comes of it, and the transcripts are prefixes of one list.
  `Place` says of each place of the handshake what the end holds by then and how
  many records it has made and taken; `Link` says of the wire to an end that its
  records are the next of the script (`Stream`), under the number and the key
  that the end will expect when it gets to them, then the pieces of data in
  order (`Data`), and a close only behind all of them.  `ReaderAt`, `WriterAt` and
  `LockAt` tie the reader and the writers of an open connection to out.io, and so
  make what a writer has sealed and not sent the next of its numbers.  A record is
  then opened under the very key and number it was sealed with, which is InStep; an
  end takes a Finished only when the other made it of the same transcript and
  secret, which is OpenAgreed (`OpenedAgreed`); and PipeSpec is `Data` read step
  by step.  Hashes and keys are terms, so equal only when made of the same.  `HandStep`
  and `Dies` say once what a step of the handshake that goes on, or gives up,
  owes to the rest.  TLC has checked IInv on the instance of run
  tls, all its setups and breaks included.

Only checked by TLC: all liveness, for fairness and ENABLED are out of the
prover's reach (EveryoneServed, SleepEnds, FlowEnds, BytesRead, EveryRequestEnds, HandshakeEnds,
DataArrives, Delivered, and the fair part of BinarySemaphore, FifoLock and
FileTable).

## 7. What is not modelled

- The mount device: dead code in drawterm, as is kern/rendez.c.
- The mount table and the walk of names in chan.c: only the start of drawterm
  binds, one call after the other.  The offset of a Chan.
- Pipe and mouse: the queues of both are uses of Qio.  Two
  reads of /dev/mouse at a time are two sleepers on a Rendez without a qlock
  (listed as a hazard).
- Notes.  postnote is a stub in drawterm, so sleep never ends in Eintr.
- Memory: allocation failures end drawterm; a name that is freed while a slave
  reads it is modelled as an open of anything, not as a crash.
- Width of the counters of OsSleep and aan: the bounds stay below it.
- Of the Queue: qget, qdiscard, qconsume, qpass, qpassnolim, qcopy, qsetlimit and
  qflush, which no two Procs of drawterm use on one queue at a time; that
  qproduce leaks the block of a full queue, and that qreopen does not restore
  noblock, is not told apart.
- Of TLS: the hello of SSL2, requests for a client certificate, the alerts that
  are queued where nobody reads them, padding, and the arithmetic of ciphers.
  Writers that wait for a full socket: sockets have no limit in Tls and Aan.
- The deadlock of two aan peers whose writers hold their lock in a blocked
  write: it takes the server's aan, which is not in this repository.
- aan after the server closed: nobody dials again; `Delivered` exempts that state.
- Weak memory: the busy flags of exportfs are taken to be sequentially
  consistent, which plain ints in C need not be.
- Drawing, cryptography, authentication, the host's files, network, audio and
  window systems: data, or pure I/O.
