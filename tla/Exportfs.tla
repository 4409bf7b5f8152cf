------------------------------ MODULE Exportfs ------------------------------
(***************************************************************************)
(* exportfs/: the 9P server that exports drawterm's devices to the cpu     *)
(* server.  One Proc, main, reads the requests from the connection into    *)
(* the work buffers of Workq and answers most of them itself; an open, a   *)
(* read or a write may block and is handed to a slave Proc, which answers  *)
(* it and gives the buffer back.  There are no locks: busy, pid and        *)
(* flushtag of a buffer and busy of a slave are plain ints, read and       *)
(* written by both sides.                                                  *)
(*                                                                         *)
(* The client is any 9P client that keeps the rules for tags: a tag is not *)
(* used again before its reply has come, nor, once a Tflush names it,      *)
(* before every such Tflush is answered.  Requests are numbered in the     *)
(* order they are sent; the code never sees the number, it compares tags.  *)
(***************************************************************************)
EXTENDS Naturals, Sequences, FiniteSetsExt

CONSTANTS Nr_workbufs,
          MAXPROC,    \* the number of slave Procs that can be made
          Kinds,      \* kinds of request the client sends
          ReuseTags,  \* whether the client uses a tag again when it is free
          MaxReqs     \* bound on the requests a run sends

\* io: Topen, Tread, Twrite, answered by a slave.  inline: answered by main.
\* flush: Tflush.  version: a Tversion that is refused.
ASSUME KindsAssumption ==
  /\ Kinds \subseteq {"io", "inline", "flush", "version"}
  /\ ReuseTags \in BOOLEAN
  /\ Nr_workbufs \in Nat \ {0} /\ MAXPROC \in Nat /\ MaxReqs \in Nat

Bufs == 0 .. Nr_workbufs - 1
Slaves == 1 .. MAXPROC       \* in the order they are made
Tags == 1 .. MaxReqs
None == 0                    \* no slave, no tag, no buffer yet

VARIABLES reqs,       \* every request sent so far, in order
          rd,         \* how many of them main has read
          out,        \* the numbers of the requests answered, in order
          rcv,        \* how many of the replies the client has received
          work,       \* Workq
          main,       \* where main is, the buffer it holds, a buffer or slave
          procs,      \* how many slaves are on Proclist
          slave       \* the slaves: Proc.busy, where they are, their buffer

vars == <<reqs, rd, out, rcv, work, main, procs, slave>>

\* `req' and `flush' are numbers of requests, 0 for none (NOTAG); `tag' is
\* work.tag, which blockingslave overwrites with the tag of the flush.
Buffer == [busy : BOOLEAN, pid : Slaves \union {None}, req : 0 .. MaxReqs,
           tag : Tags \union {None}, flush : 0 .. MaxReqs]

TypeOK ==
  /\ reqs \in Seq([tag : Tags, kind : Kinds, victim : 0 .. MaxReqs])
  /\ rd \in 0 .. Len(reqs)
  /\ out \in Seq(1 .. Len(reqs))
  /\ rcv \in 0 .. Len(out)
  /\ work \in [Bufs -> Buffer]
  /\ main \in [at : {"getsbuf", "read", "call", "mark", "give", "dead"},
               buf : Bufs, to : Bufs \union Slaves]
  /\ procs \in 0 .. MAXPROC
  /\ slave \in [Slaves -> [busy : BOOLEAN, buf : Bufs,
                           at : {"idle", "got", "try", "io", "test", "flushme",
                                 "free", "gap"}]]

Init ==
  /\ reqs = <<>> /\ rd = 0 /\ out = <<>> /\ rcv = 0
  /\ work = [b \in Bufs |-> [busy |-> FALSE, pid |-> None, req |-> 0,
                             tag |-> None, flush |-> 0]]
  /\ main = [at |-> "getsbuf", buf |-> 0, to |-> 0]
  /\ procs = 0
  /\ slave = [s \in Slaves |-> [busy |-> FALSE, buf |-> 0, at |-> "idle"]]

Reply(n) == out' = Append(out, n)

-----------------------------------------------------------------------------
\* The client.
Received == {out[i] : i \in 1 .. rcv}

FlushesOf(n) == {f \in DOMAIN reqs : reqs[f].victim = n}

\* The client is done with request n: its tag may be used again.
Done(n) ==
  /\ n \in Received \/ FlushesOf(n) # {}
  /\ FlushesOf(n) \subseteq Received

Outstanding == {n \in DOMAIN reqs : ~Done(n)}

\* The tag of a new request: the lowest that is not in use, as alloctag of
\* devmnt.c takes them, or one that was never used before.
InUse == {reqs[n].tag : n \in IF ReuseTags THEN Outstanding ELSE DOMAIN reqs}

Lowest(t) == t \notin InUse /\ 1 .. t - 1 \subseteq InUse

Send(kind, v) ==
  /\ Len(reqs) < MaxReqs
  /\ \E t \in Tags :
       /\ Lowest(t)
       /\ reqs' = Append(reqs, [tag |-> t, kind |-> kind, victim |-> v])
  /\ UNCHANGED <<rd, out, rcv, work, main, procs, slave>>

\* A request, or a Tflush of a request that has not been answered yet as far
\* as the client knows.
ClientSend ==
  \E kind \in Kinds :
    IF kind = "flush"
    THEN \E v \in Outstanding \ Received :
           reqs[v].kind # "flush" /\ Send(kind, v)
    ELSE Send(kind, 0)

ClientReceive ==
  /\ rcv < Len(out)
  /\ rcv' = rcv + 1
  /\ UNCHANGED <<reqs, rd, out, work, main, procs, slave>>

-----------------------------------------------------------------------------
\* main: the loop of exportfs().

\* The first free buffer in the order 1, 2, ..., 0: getsbuf starts with ++ap.
FreeBuf(b) ==
  /\ ~work[b].busy
  /\ \A c \in Bufs \ {b} : ~work[c].busy => b # 0 /\ (b < c \/ c = 0)

\* (mutant) flushtag is not reset
GetsbufStale ==
  /\ main.at = "getsbuf"
  /\ \E b \in Bufs :
       /\ FreeBuf(b)
       /\ work' = [work EXCEPT ![b].busy = TRUE, ![b].pid = None]
       /\ main' = [main EXCEPT !.at = "read", !.buf = b]
  /\ UNCHANGED <<reqs, rd, out, rcv, procs, slave>>

\* (mutant) busy is not set
GetsbufLoose ==
  /\ main.at = "getsbuf"
  /\ \E b \in Bufs :
       /\ FreeBuf(b)
       /\ work' = [work EXCEPT ![b].pid = None, ![b].flush = 0]
       /\ main' = [main EXCEPT !.at = "read", !.buf = b]
  /\ UNCHANGED <<reqs, rd, out, rcv, procs, slave>>

Getsbuf ==
  /\ main.at = "getsbuf"
  /\ \E b \in Bufs :
       /\ FreeBuf(b)
       /\ work' = [work EXCEPT ![b].busy = TRUE, ![b].pid = None, ![b].flush = 0]
       /\ main' = [main EXCEPT !.at = "read", !.buf = b]
  /\ UNCHANGED <<reqs, rd, out, rcv, procs, slave>>

\* Ten rounds with every buffer busy, and drawterm exits.
NoBuffers ==
  /\ main.at = "getsbuf"
  /\ \A b \in Bufs : work[b].busy
  /\ main' = [main EXCEPT !.at = "dead"]
  /\ UNCHANGED <<reqs, rd, out, rcv, work, procs, slave>>

Read ==
  /\ main.at = "read"
  /\ rd < Len(reqs)
  /\ rd' = rd + 1
  /\ work' = [work EXCEPT ![main.buf].req = rd', ![main.buf].tag = reqs[rd'].tag]
  /\ main' = [main EXCEPT !.at = "call"]
  /\ UNCHANGED <<reqs, out, rcv, procs, slave>>

Calling(kind) == main.at = "call" /\ reqs[rd].kind = kind

NextMessage == main' = [at |-> "getsbuf", buf |-> 0, to |-> 0]

\* Xauth, Xattach, Xwalk, Xclunk, Xstat, Xcreate, Xremove, Xwstat and an
\* Xversion that agrees: reply, t->busy = 0.
Inline ==
  /\ Calling("inline")
  /\ Reply(rd)
  /\ work' = [work EXCEPT ![main.buf].busy = FALSE]
  /\ NextMessage
  /\ UNCHANGED <<reqs, rd, rcv, procs, slave>>

\* Xversion with another version: replies Eversion and returns.
Xversion ==
  /\ Calling("version")
  /\ Reply(rd)
  /\ NextMessage
  /\ UNCHANGED <<reqs, rd, rcv, work, procs, slave>>

\* (mutant) the test of pid is the wrong way round
FlushTargetsUnowned ==
  {b \in Bufs : /\ work[b].tag = reqs[reqs[rd].victim].tag
                /\ work[b].busy /\ work[b].pid = None}

\* The buffers in which Xflush finds a request of that tag with a slave.
FlushTargets ==
  {b \in Bufs : /\ work[b].tag = reqs[reqs[rd].victim].tag
                /\ work[b].busy /\ work[b].pid # None}

\* Xflush: the scan of Workq, up to the test of busy and pid.
XflushFind ==
  /\ Calling("flush")
  /\ FlushTargets # {}
  /\ main' = [main EXCEPT !.at = "mark", !.to = Min(FlushTargets)]
  /\ UNCHANGED <<reqs, rd, out, rcv, work, procs, slave>>

\* Xflush: w->flushtag is set, the buffer of the Tflush given back, and the
\* reply left to the slave.
XflushMark ==
  /\ main.at = "mark"
  /\ work' = [work EXCEPT ![main.to].flush = rd, ![main.buf].busy = FALSE]
  /\ NextMessage
  /\ UNCHANGED <<reqs, rd, out, rcv, procs, slave>>

\* Xflush: no slave has the request.
XflushReply ==
  /\ Calling("flush")
  /\ FlushTargets = {}
  /\ Reply(rd)
  /\ work' = [work EXCEPT ![main.buf].busy = FALSE]
  /\ NextMessage
  /\ UNCHANGED <<reqs, rd, rcv, procs, slave>>

\* The slaves of Proclist that are idle; the newest is first on the list.
Idle == {s \in 1 .. procs : ~slave[s].busy}

\* slave(): an idle slave is chosen, and marked before it is met.
SlaveChoose ==
  /\ Calling("io")
  /\ Idle # {}
  /\ LET s == Max(Idle)
     IN /\ work' = [work EXCEPT ![main.buf].pid = s]
        /\ slave' = [slave EXCEPT ![s].busy = TRUE]
        /\ main' = [main EXCEPT !.at = "give", !.to = s]
  /\ UNCHANGED <<reqs, rd, out, rcv, procs>>

\* slave(): none is idle, one more is made.
SlaveNew ==
  /\ Calling("io")
  /\ Idle = {} /\ procs < MAXPROC
  /\ procs' = procs + 1
  /\ UNCHANGED <<reqs, rd, out, rcv, work, main, slave>>

\* slave(): there are MAXPROC of them, and drawterm exits.
TooManyProcs ==
  /\ Calling("io")
  /\ Idle = {} /\ procs = MAXPROC
  /\ main' = [main EXCEPT !.at = "dead"]
  /\ UNCHANGED <<reqs, rd, out, rcv, work, procs, slave>>

\* The rendezvous of main and the slave it chose.
Rendezvous ==
  /\ main.at = "give"
  /\ slave[main.to].at = "idle"
  /\ slave' = [slave EXCEPT ![main.to].at = "got", ![main.to].buf = main.buf]
  /\ NextMessage
  /\ UNCHANGED <<reqs, rd, out, rcv, work, procs>>

-----------------------------------------------------------------------------
\* A slave: blockingslave(), and slaveopen, slaveread, slavewrite.
Flushed(s) == work[slave[s].buf].flush # 0

\* fatal() ends every Proc of the program.
SlaveAt(s, l) == slave[s].at = l /\ main.at # "dead"

SlaveGoto(s, l) == slave' = [slave EXCEPT ![s].at = l]

\* The first test of flushtag.
SlaveStart(s) ==
  /\ SlaveAt(s, "got")
  /\ SlaveGoto(s, IF Flushed(s) THEN "flushme" ELSE "try")
  /\ UNCHANGED <<reqs, rd, out, rcv, work, main, procs>>

\* The test in slaveopen, slaveread and slavewrite, before the system call.
SlaveTry(s) ==
  /\ SlaveAt(s, "try")
  /\ SlaveGoto(s, IF Flushed(s) THEN "test" ELSE "io")
  /\ UNCHANGED <<reqs, rd, out, rcv, work, main, procs>>

\* (mutant) the return after the reply is missing
SlaveBadfidFalls(s) ==
  /\ SlaveAt(s, "try")
  /\ Reply(work[slave[s].buf].req)
  /\ SlaveGoto(s, "io")
  /\ UNCHANGED <<reqs, rd, rcv, work, main, procs>>

\* Bad fid: no test and no system call.
SlaveBadfid(s) ==
  /\ SlaveAt(s, "try")
  /\ Reply(work[slave[s].buf].req)
  /\ SlaveGoto(s, "test")
  /\ UNCHANGED <<reqs, rd, rcv, work, main, procs>>

\* The system call has returned: the reply.
SlaveReply(s) ==
  /\ SlaveAt(s, "io")
  /\ Reply(work[slave[s].buf].req)
  /\ SlaveGoto(s, "test")
  /\ UNCHANGED <<reqs, rd, rcv, work, main, procs>>

\* (mutant) the last test of flushtag is missing
SlaveTestNever(s) ==
  /\ SlaveAt(s, "test")
  /\ SlaveGoto(s, "free")
  /\ UNCHANGED <<reqs, rd, out, rcv, work, main, procs>>

\* The last test of flushtag.
SlaveTest(s) ==
  /\ SlaveAt(s, "test")
  /\ SlaveGoto(s, IF Flushed(s) THEN "flushme" ELSE "free")
  /\ UNCHANGED <<reqs, rd, out, rcv, work, main, procs>>

\* flushme: the buffer becomes the Tflush, and is answered.
SlaveFlush(s) ==
  /\ SlaveAt(s, "flushme")
  /\ LET b == slave[s].buf
     IN /\ Reply(work[b].flush)
        /\ work' = [work EXCEPT ![b].tag = reqs[work[b].flush].tag]
  /\ SlaveGoto(s, "free")
  /\ UNCHANGED <<reqs, rd, rcv, main, procs>>

\* p->busy = 0
SlaveFree(s) ==
  /\ SlaveAt(s, "free")
  /\ work' = [work EXCEPT ![slave[s].buf].busy = FALSE]
  /\ SlaveGoto(s, "gap")
  /\ UNCHANGED <<reqs, rd, out, rcv, main, procs>>

\* m->busy = 0, and back to the rendezvous
SlaveIdle(s) ==
  /\ SlaveAt(s, "gap")
  /\ slave' = [slave EXCEPT ![s] = [busy |-> FALSE, buf |-> 0, at |-> "idle"]]
  /\ UNCHANGED <<reqs, rd, out, rcv, work, main, procs>>

-----------------------------------------------------------------------------
MainStep ==
  \/ Getsbuf \/ NoBuffers \/ Read \/ Inline \/ Xversion
  \/ XflushFind \/ XflushMark \/ XflushReply
  \/ SlaveChoose \/ SlaveNew \/ TooManyProcs \/ Rendezvous

SlaveStep(s) ==
  \/ SlaveStart(s) \/ SlaveTry(s) \/ SlaveBadfid(s) \/ SlaveReply(s)
  \/ SlaveTest(s) \/ SlaveFlush(s) \/ SlaveFree(s) \/ SlaveIdle(s)

Next ==
  \/ ClientSend
  \/ ClientReceive
  \/ MainStep
  \/ \E s \in Slaves : SlaveStep(s)

\* The Procs of drawterm run; the system call of a slave returns in the end,
\* for nothing interrupts it (the postnote in Xflush is commented out).
Fairness ==
  /\ WF_vars(MainStep)
  /\ \A s \in Slaves : WF_vars(SlaveStep(s))

Spec == Init /\ [][Next]_vars /\ Fairness

-----------------------------------------------------------------------------
Answered == {out[i] : i \in DOMAIN out}

\* No request is answered twice.
AnsweredOnce == \A i, j \in DOMAIN out : out[i] = out[j] => i = j

\* A buffer is in one pair of hands: the slave that has it is the one whose pid
\* it carries, and neither main nor another slave has it until it is free.
OneOwner ==
  \A s \in Slaves : slave[s].at \notin {"idle", "gap"} =>
    /\ work[slave[s].buf].busy /\ work[slave[s].buf].pid = s
    /\ main.at \in {"read", "call", "mark", "give"} => main.buf # slave[s].buf

\* The slave has still to look at the flushtag of its buffer, or has seen it.
WillSee(s) == slave[s].at \in {"got", "try", "io", "test", "flushme"}

\* Tflush f is known to somebody who will answer it.
Kept(f) ==
  \/ rd = f /\ main.at \in {"call", "mark"}
  \/ \E b \in Bufs : /\ work[b].busy /\ work[b].flush = f
                     /\ \/ main.at = "give" /\ main.buf = b
                        \/ \E s \in Slaves : slave[s].buf = b /\ WillSee(s)

\* Request n is in the hands of main or of a slave that has not answered.
InHand(n) ==
  \/ rd = n /\ main.at \in {"call", "give"}
  \/ \E s \in Slaves : /\ slave[s].at \in {"got", "try", "io"}
                       /\ work[slave[s].buf].req = n

\* A request the server has read and not answered is being worked on, or it
\* was flushed, and its flush is answered or will be.
RequestKept ==
  main.at # "dead" =>
  \A n \in 1 .. rd : reqs[n].kind # "flush" /\ n \notin Answered =>
    InHand(n) \/ \E f \in FlushesOf(n) : f \in Answered \/ Kept(f)

\* A Tflush may be dropped only when the client can do without: the request it
\* names was answered itself, or another Tflush of it is answered or will be.
FlushSettled ==
  main.at # "dead" =>
  \A f \in 1 .. rd : reqs[f].kind = "flush" /\ f \notin Answered /\ ~Kept(f) =>
    \/ reqs[f].victim \in Answered
    \/ \E g \in FlushesOf(reqs[f].victim) : g \in Answered \/ Kept(g)

\* Once a Tflush is answered the request it names is not: its tag may be in use
\* for another request by then.
NoReplyAfterFlush ==
  \A i, j \in DOMAIN out : i < j => out[j] # reqs[out[i]].victim

\* Why they hold.  A buffer that main or a slave has is busy, and its pid says
\* which of them.
Owned ==
  /\ \A s \in Slaves :
       /\ ~slave[s].busy => slave[s].at = "idle"
       /\ slave[s].at \notin {"idle", "gap"} =>
            work[slave[s].buf].busy /\ work[slave[s].buf].pid = s
  /\ main.at \in {"read", "call", "mark", "give"} => work[main.buf].busy
  /\ main.at \in {"read", "call", "mark"} => work[main.buf].pid = None
  /\ main.at = "mark" => main.to \in Bufs
  /\ main.at = "give" =>
       /\ main.to \in Slaves /\ work[main.buf].pid = main.to
       /\ slave[main.to].busy /\ slave[main.to].at = "idle"

\* A Tflush names an older request that is not one itself.
Victims ==
  /\ Len(reqs) <= MaxReqs
  /\ \A n \in DOMAIN reqs :
       IF reqs[n].kind = "flush"
         THEN reqs[n].victim \in 1 .. n - 1 /\ reqs[reqs[n].victim].kind # "flush"
         ELSE reqs[n].victim = 0

\* The request and the flush of a buffer are in no other, and whoever is about
\* to answer one of them is the first.
Working(s) == slave[s].at \in {"got", "try", "io"}

Numbers ==
  /\ \A b \in Bufs :
       /\ work[b].req <= rd /\ work[b].flush <= rd
       /\ work[b].flush # 0 => reqs[work[b].flush].kind = "flush"
       /\ \A c \in Bufs \ {b} :
            /\ work[b].req # 0 => work[c].req # work[b].req
            /\ work[b].flush # 0 => work[c].flush # work[b].flush
  /\ \A i \in DOMAIN out : out[i] <= rd

MainFirst ==
  /\ main.at \in {"read", "call", "mark", "give"} => work[main.buf].flush = 0
  /\ main.at \in {"call", "mark", "give"} =>
       /\ rd > 0 /\ work[main.buf].req = rd /\ rd \notin Answered
       /\ \A b \in Bufs : work[b].flush # rd
  /\ main.at = "mark" => reqs[rd].kind = "flush"
  /\ main.at = "give" => reqs[rd].kind = "io"

SlaveFirst ==
  \A s \in Slaves :
    LET w == work[slave[s].buf]
    IN /\ Working(s) => w.req > 0 /\ w.req \notin Answered /\ reqs[w.req].kind = "io"
       /\ WillSee(s) /\ w.flush # 0 => w.flush \notin Answered
       /\ slave[s].at = "flushme" => w.flush # 0

OwnInv ==
  TypeOK /\ Owned /\ Victims /\ Numbers /\ MainFirst /\ SlaveFirst /\ AnsweredOnce

\* As long as no tag is used again, a buffer is marked with a flush of the
\* request that is in it.
TagsTrue ==
  /\ \A m, n \in DOMAIN reqs : reqs[m].tag = reqs[n].tag => m = n
  /\ \A b \in Bufs :
       /\ IF work[b].req = 0 THEN work[b].tag = None
          ELSE \/ work[b].tag = reqs[work[b].req].tag
               \/ \E g \in 1 .. rd : reqs[g].kind = "flush" /\ work[b].tag = reqs[g].tag
       /\ work[b].flush # 0 =>
            work[b].req # 0 /\ reqs[work[b].flush].victim = work[b].req
  /\ main.at \in {"call", "give"} => work[main.buf].tag = reqs[rd].tag
  /\ main.at = "mark" => work[main.to].req = reqs[rd].victim
  /\ \A s \in Slaves : Working(s) =>
       work[slave[s].buf].tag = reqs[work[slave[s].buf].req].tag

\* No flush of a request that a slave works on is answered, and the last of
\* them is in its buffer.
FlushSeen ==
  \A s \in Slaves, f \in 1 .. rd :
    Working(s) /\ reqs[f].victim = work[slave[s].buf].req =>
      /\ f \notin Answered
      /\ work[slave[s].buf].flush # 0 \/ (f = rd /\ main.at \in {"call", "mark"})

\* What RequestKept says, without the flush main has in hand.
Held(f) == \E s \in Slaves : WillSee(s) /\ work[slave[s].buf].flush = f

RequestHeld ==
  main.at # "dead" =>
  \A n \in 1 .. rd : reqs[n].kind # "flush" /\ n \notin Answered =>
    InHand(n) \/ \E f \in FlushesOf(n) : f \in Answered \/ Held(f)

FlushInv == TagsTrue /\ FlushSeen /\ RequestHeld /\ NoReplyAfterFlush

\* Whatever the server has read it answers, or it answers the flush of it,
\* unless it ran out of buffers or slaves.
EveryRequestEnds ==
  \A n \in 1 .. MaxReqs :
    (n <= rd /\ reqs[n].kind # "flush") ~>
      \/ n \in Answered \/ FlushesOf(n) \intersect Answered # {}
      \/ main.at = "dead"
=============================================================================
