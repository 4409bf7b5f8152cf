-------------------------------- MODULE Aan ---------------------------------
(***************************************************************************)
(* aan.c: the client of aan, which keeps the connection to the cpu server  *)
(* alive over network connections that break.  aanwriter numbers what it   *)
(* reads from the pipe and keeps it until it is acknowledged; aanreader    *)
(* passes on what comes in order, and when its connection fails dials      *)
(* again and sends everything unacknowledged once more; aansyncer sends an *)
(* empty message now and then.                                             *)
(*                                                                         *)
(* What runs with c->lk held is one step.  inmsg is counted by aanreader   *)
(* without the lock, between the steps of the others.  A write to the      *)
(* network succeeds while the connection is up; when it breaks, any        *)
(* suffix of what is under way is lost, in both directions.  So a message  *)
(* cut short, or written to a peer that is gone, is one that was lost.     *)
(* The message numbers are 32 bits wide; the runs stay below that.         *)
(*                                                                         *)
(* The server's end is the aan of the cpu server, not part of this source: *)
(* a peer of the same protocol whose steps are atomic.                     *)
(***************************************************************************)
EXTENDS Integers, Sequences

CONSTANTS MaxOut,      \* bound on the pieces drawterm writes
          MaxIn,       \* bound on the pieces the server writes
          MaxBreaks    \* bound on the connections that break

ASSUME AanAssumption == MaxOut \in Nat /\ MaxIn \in Nat /\ MaxBreaks \in Nat

Sync == -1             \* the message number of an empty message of aansyncer

\* The read of a pipe whose other end is closed returns 0 three times and
\* an error from then on (qwait of kern/qio.c).
Eofs == 3

VARIABLES net,         \* the connection: up, and what is under way on it
          breaks,      \* how many connections have broken
          inmsg, outmsg, unacked, lastacked,     \* the Client
          writer,      \* aanwriter: at work, or past close(c->pipefd)
          reader,      \* aanreader: where it is, and the message it has
          app,         \* the program at the other end of the pipe
          srv          \* the server's end

vars == <<net, breaks, inmsg, outmsg, unacked, lastacked, writer, reader, app, srv>>

Client == <<inmsg, outmsg, unacked, lastacked>>

\* `data' is the number of the piece carried, 0 in a message with no data.
Msg == [msg : Nat \union {Sync}, acked : Nat, data : Nat]

Message(m, a, d) == [msg |-> m, acked |-> a, data |-> d]

TypeOK ==
  /\ net \in [up : BOOLEAN, out : Seq(Msg), in : Seq(Msg)]
  /\ breaks \in 0 .. MaxBreaks
  /\ inmsg \in 0 .. srv.outmsg /\ outmsg \in 0 .. MaxOut + Eofs
  /\ unacked \in Seq(Msg)
  /\ lastacked \in 0 .. srv.inmsg
  /\ writer \in {"run", "gone"}
  /\ reader \in [at : {"read", "trim", "write", "reconnect", "closed", "dead"}, b : Msg]
  /\ app \in [fed : 0 .. MaxOut, closed : BOOLEAN, eofs : 0 .. Eofs,
              got : Seq(Nat), eof : BOOLEAN]
  /\ srv \in [inmsg : Nat, outmsg : Nat, unacked : Seq(Msg), fed : 0 .. MaxIn,
              closed : BOOLEAN, got : Seq(Nat), eof : BOOLEAN]

NoMsg == Message(Sync, 0, 0)

\* After the first dial of aanclient.
Init ==
  /\ net = [up |-> TRUE, out |-> <<>>, in |-> <<>>]
  /\ breaks = 0
  /\ inmsg = 0 /\ outmsg = 0 /\ unacked = <<>> /\ lastacked = 0
  /\ writer = "run"
  /\ reader = [at |-> "read", b |-> NoMsg]
  /\ app = [fed |-> 0, closed |-> FALSE, eofs |-> 0, got |-> <<>>, eof |-> FALSE]
  /\ srv = [inmsg |-> 0, outmsg |-> 0, unacked |-> <<>>, fed |-> 0,
            closed |-> FALSE, got |-> <<>>, eof |-> FALSE]

Alive == reader.at # "dead"      \* sysfatal ends every thread

ReaderGoto(l) == reader' = [reader EXCEPT !.at = l]

-----------------------------------------------------------------------------
\* The network and the programs at the ends.
Break ==
  /\ net.up /\ breaks < MaxBreaks
  /\ breaks' = breaks + 1
  /\ \E i \in 0 .. Len(net.out), j \in 0 .. Len(net.in) :
       net' = [up |-> FALSE, out |-> SubSeq(net.out, 1, i), in |-> SubSeq(net.in, 1, j)]
  /\ UNCHANGED <<Client, writer, reader, app, srv>>

AppClose ==
  /\ ~app.closed
  /\ app' = [app EXCEPT !.closed = TRUE]
  /\ UNCHANGED <<net, breaks, Client, writer, reader, srv>>

\* A write to a connection that is down fails.
Written(m) == [net EXCEPT !.out = IF net.up THEN Append(@, m) ELSE @]

-----------------------------------------------------------------------------
\* aanwriter: the message is queued for the next connection in any case.
Aanwrite(d) ==
  LET b == Message(outmsg, inmsg, d)
  IN /\ outmsg' = outmsg + 1
     /\ unacked' = Append(unacked, b)
     /\ net' = Written(b)
     /\ UNCHANGED <<breaks, inmsg, lastacked, reader, srv>>

\* (mutant) what was written is not kept
AanwriterForgets ==
  /\ Alive /\ writer = "run" /\ ~app.closed /\ app.fed < MaxOut
  /\ outmsg' = outmsg + 1
  /\ net' = Written(Message(outmsg, inmsg, app.fed + 1))
  /\ app' = [app EXCEPT !.fed = @ + 1]
  /\ UNCHANGED <<breaks, inmsg, unacked, lastacked, writer, reader, srv>>

Aanwriter ==
  /\ Alive /\ writer = "run" /\ ~app.closed /\ app.fed < MaxOut
  /\ Aanwrite(app.fed + 1)
  /\ app' = [app EXCEPT !.fed = @ + 1]
  /\ UNCHANGED writer

\* The pipe is closed: an empty message, and one more for every time that
\* the network does not take it.
AanwriterEof ==
  /\ Alive /\ writer = "run" /\ app.closed /\ app.eofs < Eofs
  /\ Aanwrite(0)
  /\ app' = [app EXCEPT !.eofs = @ + 1]
  /\ writer' = IF net.up THEN "gone" ELSE "run"

\* The read fails.
AanwriterEnd ==
  /\ Alive /\ writer = "run" /\ app.closed /\ app.eofs = Eofs
  /\ writer' = "gone"
  /\ UNCHANGED <<net, breaks, Client, reader, app, srv>>

Aansyncer ==
  /\ Alive /\ net.up
  /\ \A i \in DOMAIN net.out : net.out[i].msg # Sync      \* bounds the runs
  /\ net' = Written(Message(Sync, inmsg, 0))
  /\ UNCHANGED <<breaks, Client, writer, reader, app, srv>>

-----------------------------------------------------------------------------
\* aanreader
Incoming == reader.at = "read" /\ net.in # <<>>

NextIn == net' = [net EXCEPT !.in = Tail(@)]

\* (mutant) whatever comes is taken for new
AcceptAny ==
  /\ Incoming /\ Head(net.in).data # 0
  /\ inmsg' = inmsg + 1
  /\ reader' = [at |-> "trim", b |-> Head(net.in)]
  /\ NextIn
  /\ UNCHANGED <<breaks, outmsg, unacked, lastacked, writer, app, srv>>

\* The message in turn.
Accept ==
  /\ Incoming /\ Head(net.in).data # 0 /\ Head(net.in).msg = inmsg
  /\ inmsg' = inmsg + 1
  /\ reader' = [at |-> "trim", b |-> Head(net.in)]
  /\ NextIn
  /\ UNCHANGED <<breaks, outmsg, unacked, lastacked, writer, app, srv>>

\* An empty message of the syncer, or one that was received before.
Skip ==
  /\ Incoming
  /\ LET b == Head(net.in)
     IN IF b.data = 0 THEN b.msg = Sync ELSE b.msg # inmsg
  /\ NextIn
  /\ UNCHANGED <<breaks, Client, writer, reader, app, srv>>

\* The server closed: the program reads the end of the pipe.
RemoteEof ==
  /\ Incoming /\ Head(net.in).data = 0 /\ Head(net.in).msg # Sync
  /\ NextIn
  /\ ReaderGoto("closed")
  /\ app' = [app EXCEPT !.eof = writer = "run" /\ ~app.closed]
  /\ UNCHANGED <<breaks, Client, writer, srv>>

\* What the message acknowledges is freed.
Trim ==
  /\ reader.at = "trim"
  /\ LET k == IF reader.b.acked > lastacked THEN reader.b.acked - lastacked ELSE 0
     IN /\ unacked' = SubSeq(unacked, k + 1, Len(unacked))
        /\ lastacked' = lastacked + Len(unacked) - Len(unacked')
  /\ ReaderGoto("write")
  /\ UNCHANGED <<net, breaks, inmsg, outmsg, writer, app, srv>>

\* The data goes to the pipe, unless aanwriter has closed it.
Deliver ==
  /\ reader.at = "write"
  /\ IF writer = "gone"
     THEN ReaderGoto("closed") /\ UNCHANGED app
     ELSE /\ ReaderGoto("read")
          /\ app' = [app EXCEPT !.got = IF app.closed THEN @ ELSE Append(@, reader.b.data)]
  /\ UNCHANGED <<net, breaks, Client, writer, srv>>

ReadFails ==
  /\ reader.at = "read" /\ ~net.up /\ net.in = <<>>
  /\ ReaderGoto("reconnect")
  /\ UNCHANGED <<net, breaks, Client, writer, app, srv>>

Restamped(bs, n) == [i \in DOMAIN bs |-> [bs[i] EXCEPT !.acked = n]]

\* (mutant) a reconnect that resends nothing
ReconnectBare ==
  /\ reader.at = "reconnect"
  /\ net' = [up |-> TRUE, out |-> <<>>, in |-> Restamped(srv.unacked, srv.inmsg)]
  /\ ReaderGoto("read")
  /\ srv' = [srv EXCEPT !.unacked = net'.in]
  /\ UNCHANGED <<breaks, Client, writer, app>>

\* reconnect: both ends send what they know to be unacknowledged again.
Reconnect ==
  /\ reader.at = "reconnect"
  /\ unacked' = Restamped(unacked, inmsg)
  /\ net' = [up |-> TRUE, out |-> unacked', in |-> Restamped(srv.unacked, srv.inmsg)]
  /\ ReaderGoto("read")
  /\ srv' = [srv EXCEPT !.unacked = net'.in]
  /\ UNCHANGED <<breaks, inmsg, outmsg, lastacked, writer, app>>

\* reconnect: sysfatal("dial timed out")
DialTimeout ==
  /\ reader.at = "reconnect"
  /\ ReaderGoto("dead")
  /\ UNCHANGED <<net, breaks, Client, writer, app, srv>>

-----------------------------------------------------------------------------
\* The server's end.
SrvSend(d, kept) ==
  LET b == Message(srv.outmsg, srv.inmsg, d)
  IN /\ srv' = [kept EXCEPT !.outmsg = @ + 1, !.unacked = Append(@, b)]
     /\ net' = [net EXCEPT !.in = IF net.up THEN Append(@, b) ELSE @]
     /\ UNCHANGED <<breaks, Client, writer, reader, app>>

SrvWrite ==
  /\ ~srv.closed /\ srv.fed < MaxIn
  /\ SrvSend(srv.fed + 1, [srv EXCEPT !.fed = @ + 1])

SrvEnd ==
  /\ ~srv.closed
  /\ SrvSend(0, [srv EXCEPT !.closed = TRUE])

SrvSync ==
  /\ net.up
  /\ \A i \in DOMAIN net.in : net.in[i].msg # Sync        \* bounds the runs
  /\ net' = [net EXCEPT !.in = Append(@, Message(Sync, srv.inmsg, 0))]
  /\ UNCHANGED <<breaks, Client, writer, reader, app, srv>>

\* What is left of the list once `a' messages were received.
Unacknowledged(bs, a) ==
  LET first == srv.outmsg - Len(bs)
  IN SubSeq(bs, IF a > first THEN a - first + 1 ELSE 1, Len(bs))

SrvRead ==
  /\ net.out # <<>> /\ ~srv.eof
  /\ LET b == Head(net.out)
     IN srv' = CASE b.data = 0 /\ b.msg # Sync -> [srv EXCEPT !.eof = TRUE]
                 [] b.data # 0 /\ b.msg = srv.inmsg ->
                      [srv EXCEPT !.inmsg = @ + 1, !.got = Append(@, b.data),
                                  !.unacked = Unacknowledged(@, b.acked)]
                 [] OTHER -> srv
  /\ net' = [net EXCEPT !.out = Tail(@)]
  /\ UNCHANGED <<breaks, Client, writer, reader, app>>

-----------------------------------------------------------------------------
WriterStep == AanwriterEof \/ AanwriterEnd

ReaderStep ==
  \/ Accept \/ Skip \/ RemoteEof \/ Trim \/ Deliver \/ ReadFails
  \/ Reconnect \/ DialTimeout

Next ==
  \/ Break \/ AppClose
  \/ Aanwriter \/ WriterStep \/ Aansyncer \/ ReaderStep
  \/ SrvWrite \/ SrvEnd \/ SrvSync \/ SrvRead

\* The threads run, the dial succeeds or drawterm gives up, and the server
\* reads.  Nothing is assumed of the network but that it breaks seldom enough:
\* MaxBreaks times.
Fairness == WF_vars(ReaderStep) /\ WF_vars(WriterStep) /\ WF_vars(SrvRead)

Spec == Init /\ [][Next]_vars /\ Fairness

-----------------------------------------------------------------------------
\* What the server has not received can be sent again after any break: the
\* list of unacknowledged messages has it, in order, each once; and its head
\* is number lastacked, as aanreader asserts when it frees it.
UnackedKept ==
  /\ lastacked <= srv.inmsg
  /\ [i \in DOMAIN unacked |-> unacked[i].msg]
       = [i \in 1 .. outmsg - lastacked |-> lastacked + i - 1]

\* Whatever drawterm writes reaches the server, however often the connection
\* breaks, unless drawterm gave up dialling or aanreader is done, because the
\* server or drawterm closed, and nobody is left to dial.
Delivered ==
  \A n \in 1 .. MaxOut :
    app.fed >= n ~> Len(srv.got) >= n \/ reader.at \in {"dead", "closed"}

\* The pair of streams the two programs see.
Pipe == INSTANCE ReliablePipe WITH
  written <- [d \in {"out", "in"} |-> IF d = "out" THEN app.fed ELSE srv.fed],
  ended   <- [d \in {"out", "in"} |-> IF d = "out" THEN app.closed ELSE srv.closed],
  arrived <- [d \in {"out", "in"} |-> IF d = "out" THEN srv.got ELSE app.got],
  over    <- [d \in {"out", "in"} |-> IF d = "out" THEN srv.eof ELSE app.eof]

PipeSpec == Pipe!Spec

-----------------------------------------------------------------------------
\* The inductive invariant.  What each end has counted:
Counted ==
  /\ outmsg = app.fed + app.eofs
  /\ (app.eofs > 0 \/ writer = "gone") => app.closed
  /\ srv.outmsg = srv.fed + (IF srv.closed THEN 1 ELSE 0)
  /\ srv.inmsg = Len(srv.got) /\ srv.inmsg <= app.fed
  /\ inmsg <= srv.fed

\* The messages of a list have consecutive numbers.
Numbered(bs, first) == \A i \in DOMAIN bs : bs[i].msg = first + i - 1

\* Neither end has freed what the other has not received.
Kept ==
  /\ lastacked <= srv.inmsg
  /\ Len(unacked) = outmsg - lastacked
  /\ Numbered(unacked, lastacked)
  /\ srv.outmsg - Len(srv.unacked) \in 0 .. inmsg
  /\ Numbered(srv.unacked, srv.outmsg - Len(srv.unacked))

\* A message says what the program wrote in its turn, `fed' pieces and then
\* the end, or nothing; and it acknowledges no more than was received.
Means(b, top, fed, received) ==
  /\ b.acked <= received
  /\ \/ b.msg = Sync /\ b.data = 0
     \/ b.msg \in 0 .. top - 1 /\ b.data = IF b.msg < fed THEN b.msg + 1 ELSE 0

AllMean(bs, top, fed, received) ==
  \A i \in DOMAIN bs : Means(bs[i], top, fed, received)

Meant ==
  /\ AllMean(net.out, outmsg, app.fed, inmsg)
  /\ AllMean(unacked, outmsg, app.fed, inmsg)
  /\ AllMean(net.in, srv.outmsg, srv.fed, srv.inmsg)
  /\ AllMean(srv.unacked, srv.outmsg, srv.fed, srv.inmsg)
  /\ reader.b.acked <= srv.inmsg

\* Whoever waits for number n finds no gap: what is under way is old, in turn,
\* or comes after the message before it.
Chained(bs, n) ==
  \A i \in DOMAIN bs : bs[i].msg <= n \/ \E j \in 1 .. i - 1 : bs[j].msg = bs[i].msg - 1

\* ... and message `top' may be sent next without leaving one.
Follows(bs, n, top) == top <= n \/ \E i \in DOMAIN bs : bs[i].msg = top - 1

Open == reader.at \notin {"closed", "dead"}

NoGap ==
  /\ ~srv.eof => /\ Chained(net.out, srv.inmsg)
                 /\ net.up => Follows(net.out, srv.inmsg, outmsg)
  /\ Open => /\ Chained(net.in, inmsg)
             /\ net.up => Follows(net.in, inmsg, srv.outmsg)

\* What aanreader accepted is in the pipe, but for the piece it holds.
Holding == reader.at \in {"trim", "write"}

Passed ==
  /\ Holding => reader.b.data = inmsg
  /\ ~app.closed => Len(app.got) = IF Holding THEN inmsg - 1 ELSE inmsg
  /\ app.eof => reader.at = "closed"

IInv == TypeOK /\ Counted /\ Kept /\ Meant /\ NoGap /\ Passed
=============================================================================
