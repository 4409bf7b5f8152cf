--------------------------- MODULE ExportfsProofs ---------------------------
(***************************************************************************)
(* The buffers and the requests of exportfs, for any number of buffers,    *)
(* slaves and requests: who owns a buffer and answers what is in it, and,  *)
(* when no tag is used twice, what becomes of a request that is flushed.   *)
(***************************************************************************)
EXTENDS Exportfs, WellFoundedInduction, TLAPS

LEMMA LeastIn ==
  ASSUME NEW S \in SUBSET Nat, S # {}
  PROVE  \E x \in S : \A y \in S : x <= y
<1>1. \E x \in S : \A y \in S : ~ (<<y, x>> \in OpToRel(<, Nat))
  BY NatLessThanWellFounded, WFMin
<1>2. OpToRel(<, Nat) = {ss \in Nat \X Nat : ss[1] < ss[2]}
  BY DEF OpToRel
<1>3. PICK x \in S : \A y \in S : <<y, x>> \notin {ss \in Nat \X Nat : ss[1] < ss[2]}
  BY <1>1, <1>2
<1>4. ASSUME NEW y \in S PROVE x <= y
  <2>1. <<y, x>> \in Nat \X Nat /\ <<y, x>>[1] = y /\ <<y, x>>[2] = x
    OBVIOUS
  <2>2. ~ (y < x)
    BY <1>3, <2>1
  <2> QED BY <2>1, <2>2
<1> QED BY <1>4

LEMMA MinIn ==
  ASSUME NEW S \in SUBSET Nat, S # {}
  PROVE  Min(S) \in S
  BY LeastIn DEF Min

LEMMA MaxIn ==
  ASSUME NEW N \in Nat, NEW S \in SUBSET (0 .. N), S # {}
  PROVE  Max(S) \in S
<1> DEFINE T == {x \in 0 .. N : N - x \in S}
<1>1. T \in SUBSET Nat
  OBVIOUS
<1>2. T # {}
  <2>1. PICK x \in S : x \in 0 .. N
    OBVIOUS
  <2>2. N - x \in 0 .. N /\ N - (N - x) = x
    BY <2>1
  <2>3. N - x \in T
    BY <2>1, <2>2
  <2> QED BY <2>3
<1>3. PICK x \in T : \A y \in T : x <= y
  BY <1>1, <1>2, LeastIn
<1>4. ASSUME NEW y \in S PROVE N - x >= y
  <2>1. N - y \in 0 .. N /\ N - (N - y) = y
    OBVIOUS
  <2> QED BY <1>3, <2>1
<1> QED BY <1>3, <1>4 DEF Max

-----------------------------------------------------------------------------
\* What the type invariant says of the numbers.
LEMMA ZeroIn == 0 \in 0 .. MaxReqs
  BY KindsAssumption

LEMMA Typed ==
  ASSUME TypeOK, Victims
  PROVE  /\ Len(reqs) \in Nat /\ DOMAIN reqs = 1 .. Len(reqs) /\ Len(reqs) <= MaxReqs
         /\ rd \in Nat /\ rd <= Len(reqs) /\ MaxReqs \in Nat
         /\ Len(out) \in Nat /\ DOMAIN out = 1 .. Len(out)
         /\ \A i \in DOMAIN out : out[i] \in 1 .. Len(reqs)
         /\ \A b \in Bufs : /\ work[b] \in Buffer
                            /\ work[b].req \in Nat /\ work[b].flush \in Nat
         /\ main.buf \in Bufs
         /\ \A s \in Slaves : slave[s].buf \in Bufs
<1>1. MaxReqs \in Nat
  BY KindsAssumption
<1>2. Len(reqs) \in Nat /\ DOMAIN reqs = 1 .. Len(reqs) /\ Len(reqs) <= MaxReqs
  BY DEF TypeOK, Victims
<1>3. rd \in Nat /\ rd <= Len(reqs)
  BY <1>2 DEF TypeOK
<1>4. /\ Len(out) \in Nat /\ DOMAIN out = 1 .. Len(out)
      /\ \A i \in DOMAIN out : out[i] \in 1 .. Len(reqs)
  BY <1>2 DEF TypeOK
<1>5. \A b \in Bufs : work[b] \in Buffer
  BY DEF TypeOK
<1>6. \A b \in Bufs : work[b].req \in Nat /\ work[b].flush \in Nat
  BY <1>1, <1>5 DEF Buffer
<1>7. main.buf \in Bufs /\ \A s \in Slaves : slave[s].buf \in Bufs
  BY DEF TypeOK
<1> QED BY <1>1, <1>2, <1>3, <1>4, <1>5, <1>6, <1>7

LEMMA ReqTyped ==
  ASSUME TypeOK, NEW n \in 1 .. Len(reqs)
  PROVE  reqs[n].tag \in Tags /\ reqs[n].kind \in Kinds /\ reqs[n].victim \in 0 .. MaxReqs
<1> DEFINE R == [tag : Tags, kind : Kinds, victim : 0 .. MaxReqs]
<1>1. reqs \in Seq(R)
  BY DEF TypeOK
<1>2. reqs[n] \in R
  <2> HIDE DEF R
  <2> QED BY <1>1
<1> QED BY <1>2

\* What an answer does.
LEMMA Answers ==
  ASSUME TypeOK, Victims, AnsweredOnce, NEW n \in 1 .. rd, n \notin Answered, Reply(n)
  PROVE  /\ Answered' = Answered \union {n}
         /\ AnsweredOnce'
         /\ out' \in Seq(1 .. Len(reqs))
         /\ rcv \in 0 .. Len(out')
         /\ (\A i \in DOMAIN out : out[i] <= rd) => \A i \in DOMAIN out' : out'[i] <= rd
<1>1. n \in 1 .. Len(reqs) /\ rd \in Nat /\ Len(out) \in Nat /\ out \in Seq(1 .. Len(reqs))
  BY Typed DEF TypeOK
<1>2. /\ out' \in Seq(1 .. Len(reqs)) /\ Len(out') = Len(out) + 1
      /\ DOMAIN out = 1 .. Len(out) /\ DOMAIN out' = 1 .. Len(out) + 1
      /\ \A i \in 1 .. Len(out) : out'[i] = out[i]
      /\ out'[Len(out) + 1] = n
  BY <1>1 DEF Reply
<1>3. \A i \in DOMAIN out' : i \in DOMAIN out \/ i = Len(out) + 1
  BY <1>1, <1>2
<1>4. DOMAIN out \subseteq DOMAIN out' /\ Len(out) + 1 \in DOMAIN out'
  BY <1>1, <1>2
<1>5. Answered' = Answered \union {n}
  BY <1>2, <1>3, <1>4 DEF Answered
<1>6. AnsweredOnce'
  <2> SUFFICES ASSUME NEW i \in DOMAIN out', NEW j \in DOMAIN out', out'[i] = out'[j]
               PROVE  i = j
    BY DEF AnsweredOnce
  <2> QED BY <1>2, <1>3 DEF AnsweredOnce, Answered
<1>7. rcv \in 0 .. Len(out')
  BY <1>1, <1>2 DEF TypeOK
<1>8. (\A i \in DOMAIN out : out[i] <= rd) => \A i \in DOMAIN out' : out'[i] <= rd
  BY <1>1, <1>2, <1>3
<1> QED BY <1>2, <1>5, <1>6, <1>7, <1>8

-----------------------------------------------------------------------------
LEMMA InitOwn == Init => OwnInv
<1> SUFFICES ASSUME Init PROVE OwnInv
  OBVIOUS
<1> USE KindsAssumption DEF Init
<1>1. TypeOK
  <2>1. 0 \in Bufs /\ 0 \in 0 .. MAXPROC
    BY DEF Bufs
  <2> QED BY ZeroIn, <2>1 DEF TypeOK, Buffer
<1>2. Owned
  BY DEF Owned, Bufs, Slaves
<1>3. Victims /\ AnsweredOnce
  BY DEF Victims, AnsweredOnce
<1>4. Numbers /\ MainFirst /\ SlaveFirst
  BY DEF Numbers, MainFirst, SlaveFirst, Bufs, Slaves, Working, WillSee, Answered
<1> QED BY <1>1, <1>2, <1>3, <1>4 DEF OwnInv

-----------------------------------------------------------------------------
SlavePlaces == {"idle", "got", "try", "io", "test", "flushme", "free", "gap"}

\* A slave goes to another place.
LEMMA Goes ==
  ASSUME TypeOK, NEW s \in Slaves, NEW l \in SlavePlaces, SlaveGoto(s, l)
  PROVE  /\ slave' \in [Slaves -> [busy : BOOLEAN, buf : Bufs, at : SlavePlaces]]
         /\ slave'[s].at = l
         /\ slave'[s].busy = slave[s].busy /\ slave'[s].buf = slave[s].buf
         /\ \A t \in Slaves \ {s} : slave'[t] = slave[t]
  BY DEF TypeOK, SlaveGoto, SlavePlaces

\* It tests flushtag, or goes on to the system call.
LEMMA SlaveGoesOn ==
  ASSUME OwnInv, NEW s \in Slaves, NEW l \in {"try", "io", "test", "flushme", "free"},
         WillSee(s), SlaveGoto(s, l),
         l \in {"try", "io"} => Working(s),
         l = "flushme" => Flushed(s),
         UNCHANGED <<reqs, rd, out, rcv, work, main, procs>>
  PROVE  OwnInv'
<1>1. /\ slave' \in [Slaves -> [busy : BOOLEAN, buf : Bufs, at : SlavePlaces]]
      /\ slave'[s].at = l
      /\ slave'[s].busy = slave[s].busy /\ slave'[s].buf = slave[s].buf
      /\ \A t \in Slaves \ {s} : slave'[t] = slave[t]
  BY Goes DEF OwnInv, SlavePlaces
<1>2. slave[s].at \notin {"idle", "gap"}
  BY DEF WillSee
<1>3. TypeOK'
  BY <1>1 DEF OwnInv, TypeOK, SlavePlaces
<1>4. Owned'
  BY <1>1, <1>2 DEF OwnInv, Owned
<1>5. Victims' /\ Numbers' /\ MainFirst' /\ AnsweredOnce'
  BY DEF OwnInv, Victims, Numbers, MainFirst, AnsweredOnce, Answered
<1>6. SlaveFirst'
  BY <1>1 DEF OwnInv, SlaveFirst, Working, WillSee, Answered, Flushed
<1> QED BY <1>3, <1>4, <1>5, <1>6 DEF OwnInv

\* It answers the request in its buffer.
LEMMA SlaveAnswers ==
  ASSUME OwnInv, NEW s \in Slaves, Working(s), SlaveGoto(s, "test"),
         Reply(work[slave[s].buf].req),
         UNCHANGED <<reqs, rd, rcv, work, main, procs>>
  PROVE  OwnInv'
<1> DEFINE b == slave[s].buf
           n == work[b].req
<1>0. TypeOK /\ Owned /\ Victims /\ Numbers /\ MainFirst /\ SlaveFirst /\ AnsweredOnce
  BY DEF OwnInv
<1>1. /\ slave' \in [Slaves -> [busy : BOOLEAN, buf : Bufs, at : SlavePlaces]]
      /\ slave'[s].at = "test"
      /\ slave'[s].busy = slave[s].busy /\ slave'[s].buf = slave[s].buf
      /\ \A t \in Slaves \ {s} : slave'[t] = slave[t]
  BY <1>0, Goes DEF SlavePlaces
<1>2. slave[s].at \notin {"idle", "gap"} /\ WillSee(s)
  BY DEF Working, WillSee
<1>3. b \in Bufs /\ n \in 1 .. rd /\ n \notin Answered /\ reqs[n].kind = "io"
  BY <1>0, Typed DEF SlaveFirst, Numbers
<1>4. /\ Answered' = Answered \union {n} /\ AnsweredOnce'
      /\ out' \in Seq(1 .. Len(reqs)) /\ rcv \in 0 .. Len(out')
      /\ \A i \in DOMAIN out' : out'[i] <= rd
  BY <1>0, <1>3, Answers DEF Numbers
<1>5. TypeOK'
  BY <1>0, <1>1, <1>4 DEF TypeOK, SlavePlaces
<1>6. Owned'
  BY <1>0, <1>1, <1>2 DEF Owned
<1>7. Victims' /\ Numbers'
  BY <1>0, <1>4 DEF Victims, Numbers
<1>8. MainFirst'
  <2>1. main.at \in {"read", "call", "mark", "give"} => main.buf \in Bufs /\ main.buf # b
    BY <1>0, <1>2, Typed DEF Owned, None, Slaves
  <2>2. main.at \in {"call", "mark", "give"} => n # rd
    BY <1>0, <1>3, <2>1 DEF MainFirst, Numbers
  <2> QED BY <1>0, <1>4, <2>2 DEF MainFirst
<1>9. SlaveFirst'
  <2>1. ASSUME NEW t \in Slaves
        PROVE  LET w == work[slave[t].buf]
               IN /\ Working(t)' => w.req > 0 /\ w.req \notin Answered' /\ reqs[w.req].kind = "io"
                  /\ WillSee(t)' /\ w.flush # 0 => w.flush \notin Answered'
                  /\ slave'[t].at = "flushme" => w.flush # 0
    <3>1. slave[t].buf \in Bufs /\ work[slave[t].buf].flush # 0 => work[slave[t].buf].flush # n
      BY <1>0, <1>3, Typed DEF Numbers
    <3>2. CASE t = s
      BY <1>0, <1>1, <1>2, <1>4, <3>1, <3>2, Typed DEF SlaveFirst, Working, WillSee
    <3>3. CASE t # s
      <4>1. slave'[t] = slave[t]
        BY <1>1, <3>3
      <4>2. Working(t) => slave[t].buf # b
        BY <1>0, <1>2, <3>3 DEF Owned, Working
      <4>3. Working(t) => work[slave[t].buf].req # n
        BY <1>0, <1>3, <4>2, Typed DEF Numbers
      <4> QED BY <1>0, <1>4, <3>1, <4>1, <4>3, Typed DEF SlaveFirst, Working, WillSee
    <3> QED BY <3>2, <3>3
  <2> QED BY <1>1, <2>1 DEF SlaveFirst
<1> QED BY <1>4, <1>5, <1>6, <1>7, <1>8, <1>9 DEF OwnInv

LEMMA Retagged ==
  ASSUME TypeOK, NEW b \in Bufs, NEW t \in Tags, work' = [work EXCEPT ![b].tag = t]
  PROVE  /\ work' \in [Bufs -> Buffer]
         /\ \A c \in Bufs : /\ work'[c].busy = work[c].busy /\ work'[c].pid = work[c].pid
                            /\ work'[c].req = work[c].req /\ work'[c].flush = work[c].flush
                            /\ c # b => work'[c].tag = work[c].tag
         /\ work'[b].tag = t
<1>1. work \in [Bufs -> Buffer]
  BY DEF TypeOK
<1>2. /\ \A c \in Bufs : c # b => work'[c] = work[c]
      /\ work'[b] = [work[b] EXCEPT !.tag = t]
  BY <1>1
<1>3. /\ work'[b].busy = work[b].busy /\ work'[b].pid = work[b].pid /\ work'[b].tag = t
      /\ work'[b].req = work[b].req /\ work'[b].flush = work[b].flush
      /\ work'[b] \in Buffer
  BY <1>1, <1>2 DEF Buffer
<1> HIDE DEF Buffer
<1>4. work' \in [Bufs -> Buffer]
  BY <1>1, <1>3
<1> QED BY <1>2, <1>3, <1>4

\* It answers the flush instead, and the buffer becomes the Tflush.
LEMMA SlaveFlushOwn ==
  ASSUME OwnInv, NEW s \in Slaves, SlaveFlush(s)
  PROVE  OwnInv'
<1> DEFINE b == slave[s].buf
           n == work[b].flush
<1>0. TypeOK /\ Owned /\ Victims /\ Numbers /\ MainFirst /\ SlaveFirst /\ AnsweredOnce
  BY DEF OwnInv
<1>1. /\ slave[s].at = "flushme" /\ SlaveGoto(s, "free") /\ Reply(n)
      /\ work' = [work EXCEPT ![b].tag = reqs[n].tag]
      /\ UNCHANGED <<reqs, rd, rcv, main, procs>>
  BY DEF SlaveFlush, SlaveAt
<1>2. /\ slave' \in [Slaves -> [busy : BOOLEAN, buf : Bufs, at : SlavePlaces]]
      /\ slave'[s].at = "free"
      /\ slave'[s].busy = slave[s].busy /\ slave'[s].buf = slave[s].buf
      /\ \A t \in Slaves \ {s} : slave'[t] = slave[t]
  BY <1>0, <1>1, Goes DEF SlavePlaces
<1>3. slave[s].at \notin {"idle", "gap"} /\ WillSee(s)
  BY <1>1 DEF WillSee
<1>4. b \in Bufs /\ n \in 1 .. rd /\ n \notin Answered /\ reqs[n].kind = "flush"
  <2>1. n # 0 /\ n \notin Answered
    BY <1>0, <1>1, <1>3 DEF SlaveFirst
  <2>2. b \in Bufs /\ n \in Nat /\ rd \in Nat
    BY <1>0, Typed
  <2> QED BY <1>0, <2>1, <2>2 DEF Numbers
<1>5. /\ Answered' = Answered \union {n} /\ AnsweredOnce'
      /\ out' \in Seq(1 .. Len(reqs)) /\ rcv \in 0 .. Len(out')
      /\ \A i \in DOMAIN out' : out'[i] <= rd
  BY <1>0, <1>1, <1>4, Answers DEF Numbers
<1>6. reqs[n].tag \in Tags
  BY <1>0, <1>4, Typed, ReqTyped
<1>7. /\ work' \in [Bufs -> Buffer]
      /\ \A c \in Bufs : /\ work'[c].busy = work[c].busy /\ work'[c].pid = work[c].pid
                         /\ work'[c].req = work[c].req /\ work'[c].flush = work[c].flush
  <2>1. work' = [work EXCEPT ![b].tag = reqs[n].tag] /\ TypeOK
    BY <1>0, <1>1
  <2> HIDE DEF b, n
  <2> QED BY <2>1, <1>4, <1>6, Retagged
<1> HIDE DEF b, n
<1>8. TypeOK'
  <2>1. UNCHANGED <<reqs, rd, rcv, main, procs>>
    BY <1>1
  <2>2. slave' \in [Slaves -> [busy : BOOLEAN, buf : Bufs, at : SlavePlaces]]
    BY <1>2
  <2> QED BY <1>0, <1>5, <1>7, <2>1, <2>2 DEF TypeOK, SlavePlaces
<1>9. Owned'
  <2>1. ASSUME NEW t \in Slaves
        PROVE  /\ slave'[t].busy = slave[t].busy /\ slave'[t].buf = slave[t].buf
               /\ slave'[t].at = "idle" <=> slave[t].at = "idle"
               /\ slave'[t].at = "gap" <=> slave[t].at = "gap"
    BY <1>1, <1>2
  <2>2. \A t \in Slaves : slave[t].buf \in Bufs
    BY <1>0, Typed
  <2>3. main' = main /\ main.buf \in Bufs
    BY <1>0, <1>1, Typed
  <2>4. ASSUME NEW t \in Slaves
        PROVE  /\ ~slave'[t].busy => slave'[t].at = "idle"
               /\ slave'[t].at \notin {"idle", "gap"} =>
                    work'[slave'[t].buf].busy /\ work'[slave'[t].buf].pid = t
    BY <1>0, <1>7, <2>1, <2>2 DEF Owned
  <2>5. main.at = "give" => slave'[main.to].busy /\ slave'[main.to].at = "idle"
    BY <1>0, <2>1 DEF Owned
  <2> QED BY <1>0, <1>7, <2>3, <2>4, <2>5 DEF Owned
<1>10. Victims' /\ Numbers'
  BY <1>0, <1>1, <1>5, <1>7 DEF Victims, Numbers
<1>11. MainFirst'
  <2>1. main.at \in {"call", "mark", "give"} => n # rd
    BY <1>0, <1>4 DEF MainFirst, n
  <2> QED BY <1>0, <1>1, <1>5, <1>7, <2>1, Typed DEF MainFirst
<1>12. SlaveFirst'
  <2>1. ASSUME NEW t \in Slaves
        PROVE  LET w == work'[slave'[t].buf]
               IN /\ Working(t)' => w.req > 0 /\ w.req \notin Answered' /\ reqs[w.req].kind = "io"
                  /\ WillSee(t)' /\ w.flush # 0 => w.flush \notin Answered'
                  /\ slave'[t].at = "flushme" => w.flush # 0
    <3>1. CASE t = s
      BY <1>2, <3>1 DEF Working, WillSee
    <3>2. CASE t # s
      <4>1. slave'[t] = slave[t] /\ slave[t].buf \in Bufs
        <5>1. slave[t].buf \in Bufs
          BY <1>0, Typed
        <5> QED BY <1>2, <3>2, <5>1
      <4>2. WillSee(t) => slave[t].buf # b
        <5>1. WillSee(t) => work[slave[t].buf].pid = t
          BY <1>0 DEF Owned, WillSee
        <5>2. work[b].pid = s
          BY <1>0, <1>3 DEF Owned, b
        <5> QED BY <3>2, <5>1, <5>2
      <4>3. WillSee(t) => work[slave[t].buf].flush # n
        BY <1>0, <1>4, <4>1, <4>2 DEF Numbers, n
      <4>4. Working(t) => work[slave[t].buf].req # n
        BY <1>0, <1>4 DEF SlaveFirst
      <4>5. /\ work'[slave[t].buf].req = work[slave[t].buf].req
            /\ work'[slave[t].buf].flush = work[slave[t].buf].flush
        BY <1>7, <4>1
      <4>6. /\ Working(t)' <=> Working(t)
            /\ WillSee(t)' <=> WillSee(t)
            /\ slave'[t].at = "flushme" => WillSee(t)
        BY <4>1 DEF Working, WillSee
      <4> QED BY <1>0, <1>5, <4>1, <4>3, <4>4, <4>5, <4>6 DEF SlaveFirst
    <3> QED BY <3>1, <3>2
  <2> QED BY <1>1, <2>1 DEF SlaveFirst
<1> QED BY <1>5, <1>8, <1>9, <1>10, <1>11, <1>12 DEF OwnInv

\* A buffer is given back: nothing else changes in the buffers.
BusyBut(b) ==
  /\ work' \in [Bufs -> Buffer]
  /\ \A c \in Bufs : /\ work'[c].pid = work[c].pid /\ work'[c].req = work[c].req
                     /\ work'[c].tag = work[c].tag /\ work'[c].flush = work[c].flush
                     /\ c # b => (work'[c].busy <=> work[c].busy)

LEMMA GivenBack ==
  ASSUME TypeOK, NEW b \in Bufs, work' = [work EXCEPT ![b].busy = FALSE]
  PROVE  BusyBut(b)
<1>1. work \in [Bufs -> Buffer]
  BY DEF TypeOK
<1>2. /\ \A c \in Bufs : c # b => work'[c] = work[c]
      /\ work'[b] = [work[b] EXCEPT !.busy = FALSE] /\ DOMAIN work' = Bufs
  BY <1>1
<1>3. /\ work'[b].pid = work[b].pid /\ work'[b].req = work[b].req
      /\ work'[b].tag = work[b].tag /\ work'[b].flush = work[b].flush
      /\ work'[b] \in Buffer
  <2>1. work[b] \in Buffer
    BY <1>1
  <2> QED BY <1>2, <2>1 DEF Buffer
<1> HIDE DEF Buffer
<1>4. work' \in [Bufs -> Buffer]
  BY <1>1, <1>2, <1>3
<1> QED BY <1>2, <1>3, <1>4 DEF BusyBut

LEMMA SlaveFreeOwn ==
  ASSUME OwnInv, NEW s \in Slaves, SlaveFree(s)
  PROVE  OwnInv'
<1> DEFINE b == slave[s].buf
<1>0. TypeOK /\ Owned /\ Victims /\ Numbers /\ MainFirst /\ SlaveFirst /\ AnsweredOnce
  BY DEF OwnInv
<1>1. /\ slave[s].at = "free" /\ SlaveGoto(s, "gap")
      /\ work' = [work EXCEPT ![b].busy = FALSE]
      /\ UNCHANGED <<reqs, rd, out, rcv, main, procs>>
  BY DEF SlaveFree, SlaveAt
<1>2. /\ slave' \in [Slaves -> [busy : BOOLEAN, buf : Bufs, at : SlavePlaces]]
      /\ slave'[s].at = "gap"
      /\ slave'[s].busy = slave[s].busy /\ slave'[s].buf = slave[s].buf
      /\ \A t \in Slaves \ {s} : slave'[t] = slave[t]
  BY <1>0, <1>1, Goes DEF SlavePlaces
<1>3. /\ b \in Bufs /\ slave[s].busy
      /\ \A t \in Slaves : slave[t].at \notin {"idle", "gap"} /\ t # s => slave[t].buf # b
      /\ main.at \in {"read", "call", "mark", "give"} => main.buf \in Bufs /\ main.buf # b
  BY <1>0, <1>1, Typed DEF Owned, None, Slaves
<1>4. /\ work' \in [Bufs -> Buffer]
      /\ \A c \in Bufs : /\ work'[c].pid = work[c].pid /\ work'[c].req = work[c].req
                         /\ work'[c].tag = work[c].tag /\ work'[c].flush = work[c].flush
                         /\ c # b => (work'[c].busy <=> work[c].busy)
  BY <1>0, <1>1, <1>3, GivenBack DEF BusyBut
<1>5. TypeOK'
  BY <1>0, <1>1, <1>2, <1>4 DEF TypeOK, SlavePlaces
<1>6. Owned'
  <2>1. ASSUME NEW t \in Slaves
        PROVE  /\ ~slave'[t].busy => slave'[t].at = "idle"
               /\ slave'[t].at \notin {"idle", "gap"} =>
                    work'[slave'[t].buf].busy /\ work'[slave'[t].buf].pid = t
    <3>1. CASE t = s
      BY <1>2, <1>3, <3>1
    <3>2. CASE t # s
      <4>1. slave'[t] = slave[t] /\ slave[t].buf \in Bufs
        BY <1>0, <1>2, <3>2, Typed
      <4>2. slave[t].at \notin {"idle", "gap"} =>
              /\ slave[t].buf # b
              /\ work[slave[t].buf].busy /\ work[slave[t].buf].pid = t
        BY <1>0, <1>3, <3>2 DEF Owned
      <4>3. ~slave[t].busy => slave[t].at = "idle"
        BY <1>0 DEF Owned
      <4> HIDE DEF b
      <4> QED BY <1>4, <4>1, <4>2, <4>3
    <3> QED BY <3>1, <3>2
  <2>2. main.at = "give" => main.to # s /\ slave'[main.to] = slave[main.to]
    BY <1>0, <1>1, <1>2 DEF Owned
  <2> QED BY <1>0, <1>1, <1>3, <1>4, <2>1, <2>2 DEF Owned
<1>7. Victims' /\ Numbers' /\ AnsweredOnce' /\ Answered' = Answered
  BY <1>0, <1>1, <1>4 DEF Victims, Numbers, AnsweredOnce, Answered
<1>8. MainFirst'
  <2>1. main.buf \in Bufs
    BY <1>0, Typed
  <2> QED BY <1>0, <1>1, <1>4, <1>7, <2>1 DEF MainFirst
<1>9. SlaveFirst'
  <2>1. \A t \in Slaves : /\ slave[t].buf \in Bufs
                          /\ Working(t)' \/ WillSee(t)' \/ slave'[t].at = "flushme" =>
                               slave'[t] = slave[t]
    BY <1>0, <1>2, Typed DEF Working, WillSee
  <2>2. reqs' = reqs
    BY <1>1
  <2> QED BY <1>0, <1>4, <1>7, <2>1, <2>2 DEF SlaveFirst, Working, WillSee
<1> QED BY <1>5, <1>6, <1>7, <1>8, <1>9 DEF OwnInv

LEMMA SlaveIdleOwn ==
  ASSUME OwnInv, NEW s \in Slaves, SlaveIdle(s)
  PROVE  OwnInv'
<1>0. TypeOK /\ Owned /\ Victims /\ Numbers /\ MainFirst /\ SlaveFirst /\ AnsweredOnce
  BY DEF OwnInv
<1>1. /\ slave[s].at = "gap"
      /\ slave' = [slave EXCEPT ![s] = [busy |-> FALSE, buf |-> 0, at |-> "idle"]]
      /\ UNCHANGED <<reqs, rd, out, rcv, work, main, procs>>
  BY DEF SlaveIdle, SlaveAt
<1>2. [busy |-> FALSE, buf |-> 0, at |-> "idle"] \in [busy : BOOLEAN, buf : Bufs, at : SlavePlaces]
  BY KindsAssumption DEF Bufs, SlavePlaces
<1>3. /\ slave' \in [Slaves -> [busy : BOOLEAN, buf : Bufs, at : SlavePlaces]]
      /\ slave'[s].at = "idle" /\ ~slave'[s].busy
      /\ \A t \in Slaves \ {s} : slave'[t] = slave[t]
  BY <1>0, <1>1, <1>2 DEF TypeOK, SlavePlaces
<1>4. TypeOK'
  BY <1>0, <1>1, <1>3 DEF TypeOK, SlavePlaces
<1>5. Owned'
  BY <1>0, <1>1, <1>3 DEF Owned
<1>6. Victims' /\ Numbers' /\ AnsweredOnce' /\ MainFirst' /\ Answered' = Answered
  BY <1>0, <1>1 DEF Victims, Numbers, AnsweredOnce, Answered, MainFirst
<1>7. SlaveFirst'
  BY <1>0, <1>1, <1>3, <1>6 DEF SlaveFirst, Working, WillSee
<1> QED BY <1>4, <1>5, <1>6, <1>7 DEF OwnInv

-----------------------------------------------------------------------------
\* main answers, and its buffer is given back or, in Xversion, never.
LEMMA MainAnswers ==
  ASSUME OwnInv, main.at = "call", Reply(rd), NextMessage,
         BusyBut(main.buf),
         UNCHANGED <<reqs, rd, rcv, procs, slave>>
  PROVE  OwnInv'
<1> DEFINE b == main.buf
<1>0. TypeOK /\ Owned /\ Victims /\ Numbers /\ MainFirst /\ SlaveFirst /\ AnsweredOnce
  BY DEF OwnInv
<1>1. b \in Bufs /\ rd \in 1 .. rd /\ rd \notin Answered
  BY <1>0, Typed DEF MainFirst
<1>2. /\ Answered' = Answered \union {rd} /\ AnsweredOnce'
      /\ out' \in Seq(1 .. Len(reqs)) /\ rcv \in 0 .. Len(out')
      /\ \A i \in DOMAIN out' : out'[i] <= rd
  BY <1>0, <1>1, Answers DEF Numbers
<1>3. /\ work' \in [Bufs -> Buffer]
      /\ \A c \in Bufs : /\ work'[c].pid = work[c].pid /\ work'[c].req = work[c].req
                         /\ work'[c].tag = work[c].tag /\ work'[c].flush = work[c].flush
                         /\ c # b => (work'[c].busy <=> work[c].busy)
  BY DEF BusyBut
<1>4. main' = [at |-> "getsbuf", buf |-> 0, to |-> 0] /\ 0 \in Bufs
  BY KindsAssumption DEF NextMessage, Bufs
<1>5. TypeOK'
  BY <1>0, <1>2, <1>3, <1>4 DEF TypeOK
<1>6. \A s \in Slaves : slave[s].at \notin {"idle", "gap"} => slave[s].buf \in Bufs /\ slave[s].buf # b
  BY <1>0, Typed DEF Owned, None, Slaves
<1>7. Owned'
  BY <1>0, <1>3, <1>4, <1>6 DEF Owned
<1>8. Victims' /\ Numbers'
  <2>1. Victims'
    BY <1>0 DEF Victims
  <2>2. UNCHANGED <<rd, reqs>>
    OBVIOUS
  <2> QED BY <1>0, <1>2, <1>3, <2>1, <2>2 DEF Numbers
<1>9. MainFirst'
  BY <1>4 DEF MainFirst
<1>10. SlaveFirst'
  <2>1. \A s \in Slaves : Working(s) => work[slave[s].buf].req # rd
    BY <1>0, <1>1, <1>6 DEF MainFirst, Numbers, Working
  <2>2. \A s \in Slaves : slave[s].buf \in Bufs /\ work[slave[s].buf].flush # rd
    BY <1>0, Typed DEF MainFirst
  <2>3. UNCHANGED <<reqs, slave>>
    OBVIOUS
  <2> HIDE DEF b
  <2> QED BY <1>0, <1>2, <1>3, <2>1, <2>2, <2>3 DEF SlaveFirst, Working, WillSee
<1> QED BY <1>2, <1>5, <1>7, <1>8, <1>9, <1>10 DEF OwnInv

\* main is at another place with the same buffer, and nothing else changes.
LEMMA MainGoes ==
  ASSUME OwnInv, NEW l \in {"mark", "dead"}, NEW b \in Bufs,
         main' = [main EXCEPT !.at = l, !.to = b] \/ (l = "dead" /\ main' = [main EXCEPT !.at = l]),
         l = "mark" => main.at = "call" /\ reqs[rd].kind = "flush",
         UNCHANGED <<reqs, rd, out, rcv, work, procs, slave>>
  PROVE  OwnInv'
<1>0. TypeOK /\ Owned /\ Victims /\ Numbers /\ MainFirst /\ SlaveFirst /\ AnsweredOnce
  BY DEF OwnInv
<1>1. /\ main' \in [at : {"getsbuf", "read", "call", "mark", "give", "dead"},
                   buf : Bufs, to : Bufs \union Slaves]
      /\ main'.at = l /\ main'.buf = main.buf
      /\ l = "mark" => main'.to = b
  BY <1>0 DEF TypeOK
<1>2. TypeOK'
  BY <1>0, <1>1 DEF TypeOK
<1>3. Owned'
  BY <1>0, <1>1 DEF Owned
<1>4. Victims' /\ Numbers' /\ AnsweredOnce' /\ Answered' = Answered
  BY <1>0 DEF Victims, Numbers, AnsweredOnce, Answered
<1>5. MainFirst'
  BY <1>0, <1>1, <1>4 DEF MainFirst
<1>6. SlaveFirst'
  BY <1>0, <1>4 DEF SlaveFirst, Working, WillSee
<1> QED BY <1>2, <1>3, <1>4, <1>5, <1>6 DEF OwnInv

LEMMA GetsbufOwn ==
  ASSUME OwnInv, Getsbuf
  PROVE  OwnInv'
<1>0. TypeOK /\ Owned /\ Victims /\ Numbers /\ MainFirst /\ SlaveFirst /\ AnsweredOnce
  BY DEF OwnInv
<1>1. PICK b \in Bufs :
        /\ main.at = "getsbuf" /\ ~work[b].busy
        /\ work' = [work EXCEPT ![b].busy = TRUE, ![b].pid = None, ![b].flush = 0]
        /\ main' = [main EXCEPT !.at = "read", !.buf = b]
        /\ UNCHANGED <<reqs, rd, out, rcv, procs, slave>>
  BY DEF Getsbuf, FreeBuf
<1>2. /\ work' \in [Bufs -> Buffer]
      /\ \A c \in Bufs : c # b => work'[c] = work[c]
      /\ work'[b].busy /\ work'[b].pid = None /\ work'[b].flush = 0
      /\ work'[b].req = work[b].req
  <2>1. work \in [Bufs -> Buffer]
    BY <1>0 DEF TypeOK
  <2> QED BY <1>1, <2>1, ZeroIn DEF Buffer
<1>3. /\ main' \in [at : {"getsbuf", "read", "call", "mark", "give", "dead"},
                   buf : Bufs, to : Bufs \union Slaves]
      /\ main'.at = "read" /\ main'.buf = b
  BY <1>0, <1>1 DEF TypeOK
<1>4. TypeOK'
  BY <1>0, <1>1, <1>2, <1>3 DEF TypeOK
<1>5. \A s \in Slaves : slave[s].at \notin {"idle", "gap"} => slave[s].buf \in Bufs /\ slave[s].buf # b
  BY <1>0, <1>1, Typed DEF Owned
<1>6. Owned'
  BY <1>0, <1>1, <1>2, <1>3, <1>5 DEF Owned
<1>7. Victims' /\ AnsweredOnce' /\ Answered' = Answered
  BY <1>0, <1>1 DEF Victims, AnsweredOnce, Answered
<1>8. Numbers'
  <2>1. \A c \in Bufs : /\ work'[c].req = work[c].req
                        /\ work'[c].flush = 0 \/ work'[c].flush = work[c].flush
    BY <1>2
  <2>2. rd \in Nat
    BY <1>0, Typed
  <2>3. ASSUME NEW c \in Bufs
        PROVE  /\ work'[c].req <= rd /\ work'[c].flush <= rd
               /\ work'[c].flush # 0 => reqs[work'[c].flush].kind = "flush"
    BY <1>0, <2>1, <2>2 DEF Numbers
  <2>4. ASSUME NEW c \in Bufs, NEW e \in Bufs \ {c}
        PROVE  /\ work'[c].req # 0 => work'[e].req # work'[c].req
               /\ work'[c].flush # 0 => work'[e].flush # work'[c].flush
    <3>1. /\ work[c].req # 0 => work[e].req # work[c].req
          /\ work[c].flush # 0 => work[e].flush # work[c].flush
      BY <1>0 DEF Numbers
    <3> QED BY <2>1, <3>1
  <2>5. UNCHANGED <<rd, reqs, out>>
    BY <1>1
  <2> QED BY <1>0, <2>3, <2>4, <2>5 DEF Numbers
<1>9. MainFirst'
  BY <1>2, <1>3 DEF MainFirst
<1>10. SlaveFirst'
  BY <1>0, <1>1, <1>2, <1>5, <1>7 DEF SlaveFirst, Working, WillSee
<1> QED BY <1>4, <1>6, <1>7, <1>8, <1>9, <1>10 DEF OwnInv

LEMMA ReadOwn ==
  ASSUME OwnInv, Read
  PROVE  OwnInv'
<1> DEFINE b == main.buf
<1>0. TypeOK /\ Owned /\ Victims /\ Numbers /\ MainFirst /\ SlaveFirst /\ AnsweredOnce
  BY DEF OwnInv
<1>1. /\ main.at = "read" /\ rd < Len(reqs) /\ rd' = rd + 1
      /\ work' = [work EXCEPT ![b].req = rd + 1, ![b].tag = reqs[rd + 1].tag]
      /\ main' = [main EXCEPT !.at = "call"]
      /\ UNCHANGED <<reqs, out, rcv, procs, slave>>
  BY DEF Read
<1>2. /\ b \in Bufs /\ rd \in Nat /\ rd + 1 \in 0 .. MaxReqs /\ rd + 1 \in 1 .. Len(reqs)
      /\ reqs[rd + 1].tag \in Tags
  BY <1>0, <1>1, Typed, ReqTyped
<1>3. /\ work' \in [Bufs -> Buffer]
      /\ \A c \in Bufs : c # b => work'[c] = work[c]
      /\ work'[b].busy = work[b].busy /\ work'[b].pid = work[b].pid
      /\ work'[b].req = rd + 1 /\ work'[b].flush = work[b].flush
      /\ work'[b].tag = reqs[rd + 1].tag
  <2>1. work \in [Bufs -> Buffer]
    BY <1>0 DEF TypeOK
  <2> HIDE DEF b
  <2> QED BY <1>1, <1>2, <2>1 DEF Buffer
<1>4. /\ main' \in [at : {"getsbuf", "read", "call", "mark", "give", "dead"},
                   buf : Bufs, to : Bufs \union Slaves]
      /\ main'.at = "call" /\ main'.buf = b
  BY <1>0, <1>1 DEF TypeOK
<1>5. TypeOK'
  <2>1. rd' \in 0 .. Len(reqs')
    BY <1>1, <1>2, Typed
  <2> HIDE DEF b
  <2> QED BY <1>0, <1>1, <1>3, <1>4, <2>1 DEF TypeOK
<1>6. \A s \in Slaves : slave[s].at \notin {"idle", "gap"} => slave[s].buf \in Bufs /\ slave[s].buf # b
  BY <1>0, <1>1, Typed DEF Owned, None, Slaves
<1>7. Owned'
  BY <1>0, <1>1, <1>3, <1>4, <1>6 DEF Owned
<1>8. Victims' /\ AnsweredOnce' /\ Answered' = Answered
  BY <1>0, <1>1 DEF Victims, AnsweredOnce, Answered
<1>9. Numbers'
  <2>1. \A c \in Bufs : /\ work'[c].req = (IF c = b THEN rd + 1 ELSE work[c].req)
                        /\ work'[c].flush = work[c].flush
                        /\ work[c].req \in Nat /\ work[c].flush \in Nat
                        /\ work[c].req <= rd /\ work[c].flush <= rd
    BY <1>0, <1>3, Typed DEF Numbers
  <2>2. \A i \in DOMAIN out : out[i] \in Nat /\ out[i] <= rd
    BY <1>0, Typed DEF Numbers
  <2>3. \A i \in DOMAIN out' : out'[i] <= rd'
    BY <1>1, <1>2, <2>2
  <2> HIDE DEF b
  <2>4. ASSUME NEW c \in Bufs
        PROVE  /\ work'[c].req <= rd' /\ work'[c].flush <= rd'
               /\ work'[c].flush # 0 => reqs[work'[c].flush].kind = "flush"
    <3>1. work[c].flush # 0 => reqs[work[c].flush].kind = "flush"
      BY <1>0 DEF Numbers
    <3>2. work'[c].req = rd + 1 \/ work'[c].req = work[c].req
      BY <2>1
    <3>3. /\ rd' = rd + 1 /\ rd \in Nat /\ work'[c].flush = work[c].flush
          /\ work[c].req \in Nat /\ work[c].flush \in Nat
          /\ work[c].req <= rd /\ work[c].flush <= rd
      BY <1>1, <1>2, <2>1
    <3>4. work'[c].flush # 0 => reqs[work'[c].flush].kind = "flush"
      BY <3>1, <3>3
    <3>5. work'[c].req <= rd' /\ work'[c].flush <= rd'
      BY <3>2, <3>3
    <3> QED BY <3>4, <3>5
  <2>5. ASSUME NEW c \in Bufs, NEW e \in Bufs \ {c}
        PROVE  /\ work'[c].req # 0 => work'[e].req # work'[c].req
               /\ work'[c].flush # 0 => work'[e].flush # work'[c].flush
    <3>1. /\ work[c].req # 0 => work[e].req # work[c].req
          /\ work[c].flush # 0 => work[e].flush # work[c].flush
      BY <1>0 DEF Numbers
    <3> QED BY <1>2, <2>1, <3>1
  <2>6. reqs' = reqs
    BY <1>1
  <2> QED BY <2>3, <2>4, <2>5, <2>6 DEF Numbers
<1>10. MainFirst'
  <2>1. rd + 1 \notin Answered
    BY <1>0, <1>2, Typed DEF Answered, Numbers
  <2>2. \A c \in Bufs : work'[c].flush = work[c].flush /\ work[c].flush # rd + 1
    BY <1>0, <1>2, <1>3, Typed DEF Numbers
  <2>3. work[b].flush = 0 /\ rd' = rd + 1 /\ rd + 1 > 0
    BY <1>0, <1>1, <1>2 DEF MainFirst
  <2> HIDE DEF b
  <2> QED BY <1>2, <1>3, <1>4, <1>8, <2>1, <2>2, <2>3 DEF MainFirst
<1>11. SlaveFirst'
  <2>1. \A s \in Slaves : WillSee(s) => work'[slave[s].buf] = work[slave[s].buf]
    BY <1>3, <1>6 DEF WillSee
  <2>2. UNCHANGED <<reqs, slave>>
    BY <1>1
  <2>3. ASSUME NEW s \in Slaves
        PROVE  LET w == work'[slave[s].buf]
               IN /\ Working(s) => w.req > 0 /\ w.req \notin Answered /\ reqs[w.req].kind = "io"
                  /\ WillSee(s) /\ w.flush # 0 => w.flush \notin Answered
                  /\ slave[s].at = "flushme" => w.flush # 0
    <3>1. Working(s) \/ slave[s].at = "flushme" => WillSee(s)
      BY DEF Working, WillSee
    <3> QED BY <1>0, <2>1, <3>1 DEF SlaveFirst
  <2> QED BY <1>8, <2>2, <2>3 DEF SlaveFirst, Working, WillSee
<1> QED BY <1>5, <1>7, <1>8, <1>9, <1>10, <1>11 DEF OwnInv

\* A buffer that is marked with the Tflush in main's hands, whoever has it.
LEMMA XflushMarkOwn ==
  ASSUME OwnInv, XflushMark
  PROVE  OwnInv'
<1> DEFINE b == main.buf
           t == main.to
<1>0. TypeOK /\ Owned /\ Victims /\ Numbers /\ MainFirst /\ SlaveFirst /\ AnsweredOnce
  BY DEF OwnInv
<1>1. /\ main.at = "mark"
      /\ work' = [work EXCEPT ![t].flush = rd, ![b].busy = FALSE]
      /\ main' = [at |-> "getsbuf", buf |-> 0, to |-> 0]
      /\ UNCHANGED <<reqs, rd, out, rcv, procs, slave>>
  BY DEF XflushMark, NextMessage
<1>2. /\ b \in Bufs /\ t \in Bufs /\ rd \in 0 .. MaxReqs /\ rd \in Nat /\ rd > 0
      /\ rd \notin Answered /\ reqs[rd].kind = "flush" /\ 0 \in Bufs
  BY <1>0, <1>1, Typed, KindsAssumption DEF Owned, MainFirst, Bufs
<1>3. /\ work' \in [Bufs -> Buffer]
      /\ \A c \in Bufs : /\ c # b => (work'[c].busy <=> work[c].busy)
                         /\ work'[c].pid = work[c].pid /\ work'[c].req = work[c].req
                         /\ c # t => work'[c].flush = work[c].flush
      /\ work'[t].flush = rd
  <2>1. work \in [Bufs -> Buffer]
    BY <1>0 DEF TypeOK
  <2> HIDE DEF b, t
  <2>2. PICK w : w = [work EXCEPT ![t].flush = rd] /\ work' = [w EXCEPT ![b].busy = FALSE]
    BY <1>1
  <2>3. /\ w \in [Bufs -> Buffer] /\ w[t].flush = rd
        /\ \A c \in Bufs : /\ w[c].busy = work[c].busy
                           /\ w[c].pid = work[c].pid /\ w[c].req = work[c].req
                           /\ c # t => w[c].flush = work[c].flush
    BY <1>2, <2>1, <2>2 DEF Buffer
  <2>4. work' = [w EXCEPT ![b].busy = FALSE] /\ w \in [Bufs -> Buffer]
    BY <2>2, <2>3
  <2>5. /\ work' \in [Bufs -> Buffer]
        /\ \A c \in Bufs : /\ c # b => work'[c].busy = w[c].busy
                           /\ work'[c].pid = w[c].pid /\ work'[c].req = w[c].req
                           /\ work'[c].flush = w[c].flush
    BY <1>2, <2>4 DEF Buffer
  <2> QED BY <1>2, <2>3, <2>5
<1>4. TypeOK'
  BY <1>0, <1>1, <1>2, <1>3 DEF TypeOK
<1>5. \A s \in Slaves : slave[s].at \notin {"idle", "gap"} => slave[s].buf \in Bufs /\ slave[s].buf # b
  BY <1>0, <1>1, Typed DEF Owned, None, Slaves
<1>6. Owned'
  BY <1>0, <1>1, <1>3, <1>5 DEF Owned
<1>7. Victims' /\ AnsweredOnce' /\ Answered' = Answered
  BY <1>0, <1>1 DEF Victims, AnsweredOnce, Answered
<1> HIDE DEF b, t
<1>8. Numbers'
  <2>1. ASSUME NEW c \in Bufs
        PROVE  /\ work'[c].req <= rd /\ work'[c].flush <= rd
               /\ work'[c].flush # 0 => reqs[work'[c].flush].kind = "flush"
    BY <1>0, <1>2, <1>3 DEF Numbers
  <2>2. ASSUME NEW c \in Bufs, NEW e \in Bufs \ {c}
        PROVE  /\ work'[c].req # 0 => work'[e].req # work'[c].req
               /\ work'[c].flush # 0 => work'[e].flush # work'[c].flush
    <3>1. /\ work[c].req # 0 => work[e].req # work[c].req
          /\ work[c].flush # 0 => work[e].flush # work[c].flush
      BY <1>0 DEF Numbers
    <3>2. work[c].flush # rd /\ work[e].flush # rd
      BY <1>0, <1>1 DEF MainFirst
    <3> QED BY <1>3, <3>1, <3>2
  <2>3. UNCHANGED <<rd, reqs, out>>
    BY <1>1
  <2> QED BY <1>0, <2>1, <2>2, <2>3 DEF Numbers
<1>9. MainFirst'
  BY <1>1 DEF MainFirst
<1>10. SlaveFirst'
  <2>1. ASSUME NEW s \in Slaves
        PROVE  LET w == work'[slave[s].buf]
               IN /\ Working(s) => w.req > 0 /\ w.req \notin Answered /\ reqs[w.req].kind = "io"
                  /\ WillSee(s) /\ w.flush # 0 => w.flush \notin Answered
                  /\ slave[s].at = "flushme" => w.flush # 0
    <3>1. /\ slave[s].buf \in Bufs
          /\ work'[slave[s].buf].req = work[slave[s].buf].req
          /\ \/ work'[slave[s].buf].flush = work[slave[s].buf].flush
             \/ work'[slave[s].buf].flush = rd
      BY <1>0, <1>3, Typed
    <3> QED BY <1>0, <1>2, <3>1 DEF SlaveFirst
  <2>2. UNCHANGED <<reqs, slave>>
    BY <1>1
  <2> QED BY <1>7, <2>1, <2>2 DEF SlaveFirst, Working, WillSee
<1> QED BY <1>4, <1>6, <1>7, <1>8, <1>9, <1>10 DEF OwnInv

\* A slave is chosen for the request, and marked busy.
LEMMA SlaveChooseOwn ==
  ASSUME OwnInv, SlaveChoose
  PROVE  OwnInv'
<1> DEFINE b == main.buf
           s == Max(Idle)
<1>0. TypeOK /\ Owned /\ Victims /\ Numbers /\ MainFirst /\ SlaveFirst /\ AnsweredOnce
  BY DEF OwnInv
<1>1. /\ main.at = "call" /\ reqs[rd].kind = "io" /\ Idle # {}
      /\ work' = [work EXCEPT ![b].pid = s]
      /\ slave' = [slave EXCEPT ![s].busy = TRUE]
      /\ main' = [main EXCEPT !.at = "give", !.to = s]
      /\ UNCHANGED <<reqs, rd, out, rcv, procs>>
  BY DEF SlaveChoose, Calling
<1>2. s \in Slaves /\ ~slave[s].busy
  <2>1. procs \in Nat /\ procs <= MAXPROC /\ Idle \in SUBSET (0 .. procs) /\ MAXPROC \in Nat
    BY <1>0, KindsAssumption DEF TypeOK, Idle
  <2>2. s \in Idle
    BY <1>1, <2>1, MaxIn
  <2> QED BY <2>1, <2>2 DEF Idle, Slaves
<1>3. b \in Bufs
  BY <1>0, Typed
<1> HIDE DEF b, s
<1>4. /\ work' \in [Bufs -> Buffer]
      /\ \A c \in Bufs : c # b => work'[c] = work[c]
      /\ work'[b].busy = work[b].busy /\ work'[b].pid = s
      /\ work'[b].req = work[b].req /\ work'[b].flush = work[b].flush
      /\ work'[b].tag = work[b].tag
  <2>1. work \in [Bufs -> Buffer]
    BY <1>0 DEF TypeOK
  <2> QED BY <1>1, <1>2, <1>3, <2>1 DEF Buffer
<1>5. /\ slave' \in [Slaves -> [busy : BOOLEAN, buf : Bufs, at : SlavePlaces]]
      /\ slave'[s].at = slave[s].at /\ slave'[s].busy /\ slave'[s].buf = slave[s].buf
      /\ \A t \in Slaves \ {s} : slave'[t] = slave[t]
  BY <1>0, <1>1, <1>2 DEF TypeOK, SlavePlaces
<1>6. /\ main' \in [at : {"getsbuf", "read", "call", "mark", "give", "dead"},
                   buf : Bufs, to : Bufs \union Slaves]
      /\ main'.at = "give" /\ main'.buf = b /\ main'.to = s
  BY <1>0, <1>1, <1>2 DEF TypeOK, b
<1>7. TypeOK'
  BY <1>0, <1>1, <1>4, <1>5, <1>6 DEF TypeOK, SlavePlaces
<1>8. /\ slave[s].at = "idle" /\ work[b].busy
      /\ \A t \in Slaves : slave[t].at \notin {"idle", "gap"} =>
           t # s /\ slave[t].buf \in Bufs /\ slave[t].buf # b
  BY <1>0, <1>1, <1>2, Typed DEF Owned, None, Slaves, b
<1>9. Owned'
  <2>1. ASSUME NEW t \in Slaves
        PROVE  /\ ~slave'[t].busy => slave'[t].at = "idle"
               /\ slave'[t].at \notin {"idle", "gap"} =>
                    work'[slave'[t].buf].busy /\ work'[slave'[t].buf].pid = t
    <3>1. CASE t = s
      BY <1>5, <1>8, <3>1
    <3>2. CASE t # s
      <4>1. slave'[t] = slave[t]
        BY <1>5, <3>2
      <4>2. slave[t].at \notin {"idle", "gap"} => work'[slave[t].buf] = work[slave[t].buf]
        BY <1>4, <1>8
      <4> QED BY <1>0, <4>1, <4>2 DEF Owned
    <3> QED BY <3>1, <3>2
  <2>2. work'[b].busy
    BY <1>4, <1>8
  <2> QED BY <1>2, <1>4, <1>5, <1>6, <1>8, <2>1, <2>2 DEF Owned
<1>10. Victims' /\ AnsweredOnce' /\ Answered' = Answered
  BY <1>0, <1>1 DEF Victims, AnsweredOnce, Answered
<1>11. \A c \in Bufs : work'[c].req = work[c].req /\ work'[c].flush = work[c].flush
  BY <1>4
<1>12. UNCHANGED <<reqs, rd, out>>
  BY <1>1
<1>13. Numbers'
  BY <1>0, <1>11, <1>12 DEF Numbers
<1>14. MainFirst'
  BY <1>0, <1>1, <1>3, <1>6, <1>10, <1>11, <1>12 DEF MainFirst, b
<1>15. SlaveFirst'
  <2>1. \A t \in Slaves : /\ slave'[t].at = slave[t].at /\ slave'[t].buf = slave[t].buf
                          /\ slave[t].buf \in Bufs
    BY <1>0, <1>5, Typed
  <2> QED BY <1>0, <1>10, <1>11, <1>12, <2>1 DEF SlaveFirst, Working, WillSee
<1> QED BY <1>7, <1>9, <1>10, <1>13, <1>14, <1>15 DEF OwnInv

LEMMA SlaveNewOwn ==
  ASSUME OwnInv, SlaveNew
  PROVE  OwnInv'
<1>1. procs' \in 0 .. MAXPROC /\ UNCHANGED <<reqs, rd, out, rcv, work, main, slave>>
  BY KindsAssumption DEF SlaveNew, OwnInv, TypeOK
<1> QED BY <1>1 DEF OwnInv, TypeOK, Owned, Victims, Numbers, MainFirst, SlaveFirst,
              AnsweredOnce, Answered, Working, WillSee

\* The slave takes the buffer over.
LEMMA RendezvousOwn ==
  ASSUME OwnInv, Rendezvous
  PROVE  OwnInv'
<1> DEFINE b == main.buf
           s == main.to
<1>0. TypeOK /\ Owned /\ Victims /\ Numbers /\ MainFirst /\ SlaveFirst /\ AnsweredOnce
  BY DEF OwnInv
<1>1. /\ main.at = "give"
      /\ slave' = [slave EXCEPT ![s].at = "got", ![s].buf = b]
      /\ main' = [at |-> "getsbuf", buf |-> 0, to |-> 0]
      /\ UNCHANGED <<reqs, rd, out, rcv, work, procs>>
  BY DEF Rendezvous, NextMessage
<1>2. /\ s \in Slaves /\ b \in Bufs /\ slave[s].busy /\ work[b].pid = s /\ work[b].busy
      /\ rd > 0 /\ work[b].req = rd /\ rd \notin Answered /\ reqs[rd].kind = "io"
      /\ work[b].flush = 0 /\ 0 \in Bufs
  BY <1>0, <1>1, Typed, KindsAssumption DEF Owned, MainFirst, Bufs
<1> HIDE DEF b, s
<1>3. /\ slave' \in [Slaves -> [busy : BOOLEAN, buf : Bufs, at : SlavePlaces]]
      /\ slave'[s].at = "got" /\ slave'[s].busy /\ slave'[s].buf = b
      /\ \A t \in Slaves \ {s} : slave'[t] = slave[t]
  <2> DEFINE P == [busy : BOOLEAN, buf : Bufs, at : SlavePlaces]
             r == [[slave[s] EXCEPT !.at = "got"] EXCEPT !.buf = b]
  <2>1. slave \in [Slaves -> P] /\ slave' = [slave EXCEPT ![s] = r]
    BY <1>0, <1>1, <1>2 DEF TypeOK, SlavePlaces
  <2>2. r \in P /\ r.at = "got" /\ r.busy = slave[s].busy /\ r.buf = b
    BY <1>2, <2>1 DEF SlavePlaces
  <2> HIDE DEF P, r
  <2>3. slave' \in [Slaves -> P] /\ slave'[s] = r /\ \A t \in Slaves \ {s} : slave'[t] = slave[t]
    BY <1>2, <2>1, <2>2
  <2> QED BY <1>2, <2>2, <2>3 DEF P
<1>4. TypeOK'
  BY <1>0, <1>1, <1>2, <1>3 DEF TypeOK, SlavePlaces
<1>5. Owned'
  BY <1>0, <1>1, <1>2, <1>3 DEF Owned
<1>6. Victims' /\ Numbers' /\ AnsweredOnce' /\ Answered' = Answered
  BY <1>0, <1>1 DEF Victims, Numbers, AnsweredOnce, Answered
<1>7. MainFirst'
  BY <1>1 DEF MainFirst
<1>8. SlaveFirst'
  BY <1>0, <1>1, <1>2, <1>3, <1>6 DEF SlaveFirst, Working, WillSee
<1> QED BY <1>4, <1>5, <1>6, <1>7, <1>8 DEF OwnInv

-----------------------------------------------------------------------------
\* One more request is sent.
LEMMA ClientSendOwn ==
  ASSUME OwnInv, ClientSend
  PROVE  OwnInv'
<1>0. TypeOK /\ Owned /\ Victims /\ Numbers /\ MainFirst /\ SlaveFirst /\ AnsweredOnce
  BY DEF OwnInv
<1>1. PICK kind \in Kinds, v \in 0 .. MaxReqs, t \in Tags :
        /\ Len(reqs) < MaxReqs /\ Lowest(t)
        /\ reqs' = Append(reqs, [tag |-> t, kind |-> kind, victim |-> v])
        /\ IF kind = "flush" THEN v \in DOMAIN reqs /\ reqs[v].kind # "flush" ELSE v = 0
        /\ UNCHANGED <<rd, out, rcv, work, main, procs, slave>>
  <2>1. PICK kind \in Kinds :
          IF kind = "flush"
            THEN \E v \in DOMAIN reqs : reqs[v].kind # "flush" /\ Send(kind, v)
            ELSE Send(kind, 0)
    BY DEF ClientSend, Outstanding
  <2>2. CASE kind = "flush"
    <3>1. PICK v \in DOMAIN reqs : reqs[v].kind # "flush" /\ Send(kind, v)
      BY <2>1, <2>2
    <3>2. v \in 0 .. MaxReqs
      BY <1>0, Typed
    <3> QED BY <2>2, <3>1, <3>2 DEF Send
  <2>3. CASE kind # "flush"
    BY <2>1, <2>3, ZeroIn DEF Send
  <2> QED BY <2>2, <2>3
<1> DEFINE R == [tag : Tags, kind : Kinds, victim : 0 .. MaxReqs]
           r == [tag |-> t, kind |-> kind, victim |-> v]
<1>2. r \in R /\ r.kind = kind /\ r.victim = v /\ r.tag = t
  OBVIOUS
<1>3. reqs \in Seq(R) /\ reqs' = Append(reqs, r)
  BY <1>0, <1>1 DEF TypeOK
<1> HIDE DEF R, r
<1>4. /\ reqs' \in Seq(R) /\ Len(reqs') = Len(reqs) + 1 /\ reqs'[Len(reqs) + 1] = r
      /\ \A n \in 1 .. Len(reqs) : reqs'[n] = reqs[n]
      /\ Len(reqs) \in Nat /\ DOMAIN reqs = 1 .. Len(reqs)
      /\ DOMAIN reqs' = 1 .. Len(reqs) + 1
  BY <1>2, <1>3
<1>5. out' \in Seq(1 .. Len(reqs')) /\ rd' \in 0 .. Len(reqs')
  <2>1. out \in Seq(1 .. Len(reqs)) /\ rd \in 0 .. Len(reqs)
    BY <1>0 DEF TypeOK
  <2>2. out \in Seq(1 .. Len(reqs) + 1)
    BY <1>4, <2>1
  <2> QED BY <1>1, <1>4, <2>1, <2>2
<1>6. TypeOK'
  BY <1>0, <1>1, <1>4, <1>5 DEF TypeOK, R
<1>7. Owned' /\ AnsweredOnce' /\ Answered' = Answered
  BY <1>0, <1>1 DEF Owned, AnsweredOnce, Answered
<1>8. Victims'
  <2>1. ASSUME NEW n \in DOMAIN reqs'
        PROVE  IF reqs'[n].kind = "flush"
                 THEN reqs'[n].victim \in 1 .. n - 1 /\ reqs'[reqs'[n].victim].kind # "flush"
                 ELSE reqs'[n].victim = 0
    <3>1. CASE n \in 1 .. Len(reqs)
      <4>1. reqs[n].kind = "flush" =>
              /\ reqs[n].victim \in 1 .. n - 1 /\ reqs[n].victim \in 1 .. Len(reqs)
              /\ reqs[reqs[n].victim].kind # "flush"
        BY <1>0, <1>4, <3>1 DEF Victims
      <4>2. reqs[n].kind # "flush" => reqs[n].victim = 0
        BY <1>0, <1>4, <3>1 DEF Victims
      <4> QED BY <1>4, <3>1, <4>1, <4>2
    <3>2. CASE n = Len(reqs) + 1
      BY <1>1, <1>2, <1>4, <3>2
    <3> QED BY <1>4, <3>1, <3>2
  <2>2. Len(reqs') <= MaxReqs
    BY <1>1, <1>4, KindsAssumption
  <2> QED BY <2>1, <2>2 DEF Victims
<1>9. \A n \in 1 .. rd : n \in 1 .. Len(reqs) /\ reqs'[n] = reqs[n]
  BY <1>0, <1>4, Typed
<1>10. Numbers'
  <2>1. \A b \in Bufs : work[b].flush # 0 => work[b].flush \in 1 .. rd
    BY <1>0, Typed DEF Numbers
  <2> QED BY <1>0, <1>1, <1>9, <2>1 DEF Numbers
<1>11. MainFirst'
  <2>1. main.at \in {"mark", "give"} => rd \in 1 .. rd
    BY <1>0, Typed DEF MainFirst
  <2> QED BY <1>0, <1>1, <1>7, <1>9, <2>1 DEF MainFirst
<1>12. SlaveFirst'
  <2>1. \A s \in Slaves : Working(s) => work[slave[s].buf].req \in 1 .. rd
    BY <1>0, Typed DEF Numbers, SlaveFirst
  <2> QED BY <1>0, <1>1, <1>7, <1>9, <2>1 DEF SlaveFirst, Working, WillSee
<1> QED BY <1>6, <1>7, <1>8, <1>10, <1>11, <1>12 DEF OwnInv

LEMMA ClientReceiveOwn ==
  ASSUME OwnInv, ClientReceive
  PROVE  OwnInv'
<1>0. TypeOK /\ Victims
  BY DEF OwnInv
<1>1. rcv' \in 0 .. Len(out) /\ UNCHANGED <<reqs, rd, out, work, main, procs, slave>>
  BY <1>0, Typed DEF ClientReceive, TypeOK
<1> QED BY <1>1 DEF OwnInv, TypeOK, Owned, Victims, Numbers, MainFirst, SlaveFirst,
              AnsweredOnce, Answered, Working, WillSee

LEMMA MainStepOwn ==
  ASSUME OwnInv, MainStep
  PROVE  OwnInv'
<1>1. main.buf \in Bufs /\ work \in [Bufs -> Buffer] /\ TypeOK
  BY DEF OwnInv, TypeOK
<1>2. CASE Inline \/ XflushReply
  <2>1. /\ main.at = "call" /\ Reply(rd) /\ NextMessage
        /\ work' = [work EXCEPT ![main.buf].busy = FALSE]
        /\ UNCHANGED <<reqs, rd, rcv, procs, slave>>
    BY <1>2 DEF Inline, XflushReply, Calling
  <2>2. BusyBut(main.buf)
    BY <1>1, <2>1, GivenBack
  <2> QED BY <2>1, <2>2, MainAnswers
<1>3. CASE Xversion
  <2>1. /\ main.at = "call" /\ Reply(rd) /\ NextMessage /\ work' = work
        /\ UNCHANGED <<reqs, rd, rcv, procs, slave>>
    BY <1>3 DEF Xversion, Calling
  <2>2. BusyBut(main.buf)
    BY <1>1, <2>1 DEF BusyBut
  <2> QED BY <2>1, <2>2, MainAnswers
<1>4. CASE NoBuffers \/ TooManyProcs
  <2>1. main' = [main EXCEPT !.at = "dead"] /\ UNCHANGED <<reqs, rd, out, rcv, work, procs, slave>>
    BY <1>4 DEF NoBuffers, TooManyProcs
  <2> QED BY <1>1, <2>1, MainGoes
<1>5. CASE XflushFind
  <2>1. /\ main.at = "call" /\ reqs[rd].kind = "flush" /\ FlushTargets # {}
        /\ main' = [main EXCEPT !.at = "mark", !.to = Min(FlushTargets)]
        /\ UNCHANGED <<reqs, rd, out, rcv, work, procs, slave>>
    BY <1>5 DEF XflushFind, Calling
  <2>2. FlushTargets \in SUBSET Nat /\ FlushTargets \subseteq Bufs
    BY KindsAssumption DEF FlushTargets, Bufs
  <2>3. Min(FlushTargets) \in Bufs
    BY <2>1, <2>2, MinIn
  <2> QED BY <2>1, <2>3, MainGoes
<1> QED BY <1>2, <1>3, <1>4, <1>5, GetsbufOwn, ReadOwn, XflushMarkOwn, SlaveChooseOwn,
           SlaveNewOwn, RendezvousOwn DEF MainStep

LEMMA SlaveStepOwn ==
  ASSUME OwnInv, NEW s \in Slaves, SlaveStep(s)
  PROVE  OwnInv'
<1>1. CASE SlaveStart(s) \/ SlaveTry(s) \/ SlaveTest(s)
  <2>1. PICK l \in {"try", "io", "test", "flushme", "free"} :
          /\ WillSee(s) /\ SlaveGoto(s, l)
          /\ l \in {"try", "io"} => Working(s)
          /\ l = "flushme" => Flushed(s)
          /\ UNCHANGED <<reqs, rd, out, rcv, work, main, procs>>
    BY <1>1 DEF SlaveStart, SlaveTry, SlaveTest, SlaveAt, WillSee, Working
  <2> QED BY <2>1, SlaveGoesOn
<1>2. CASE SlaveBadfid(s) \/ SlaveReply(s)
  <2>1. /\ Working(s) /\ SlaveGoto(s, "test") /\ Reply(work[slave[s].buf].req)
        /\ UNCHANGED <<reqs, rd, rcv, work, main, procs>>
    BY <1>2 DEF SlaveBadfid, SlaveReply, SlaveAt, Working
  <2> QED BY <2>1, SlaveAnswers
<1> QED BY <1>1, <1>2, SlaveFlushOwn, SlaveFreeOwn, SlaveIdleOwn DEF SlaveStep

LEMMA NextOwn == OwnInv /\ [Next]_vars => OwnInv'
<1> SUFFICES ASSUME OwnInv, [Next]_vars PROVE OwnInv'
  OBVIOUS
<1>1. CASE UNCHANGED vars
  BY <1>1 DEF vars, OwnInv, TypeOK, Owned, Victims, Numbers, MainFirst, SlaveFirst,
              AnsweredOnce, Answered, Working, WillSee
<1> QED BY <1>1, ClientSendOwn, ClientReceiveOwn, MainStepOwn, SlaveStepOwn DEF Next

THEOREM SpecOwn == Spec => []OwnInv
  BY InitOwn, NextOwn, PTL DEF Spec

\* The variables keep their types: no buffer, slave or request is named that
\* does not exist.
THEOREM ExportfsTypeOK == Spec => []TypeOK
<1>1. OwnInv => TypeOK
  BY DEF OwnInv
<1> QED BY <1>1, SpecOwn, PTL

\* No request is answered twice, by main and a slave or by two slaves, however
\* main marks the buffers that slaves work on and give back.
THEOREM ExportfsAnsweredOnce == Spec => []AnsweredOnce
<1>1. OwnInv => AnsweredOnce
  BY DEF OwnInv
<1> QED BY <1>1, SpecOwn, PTL

\* The buffer a slave works in is busy and carries its pid, and neither main
\* nor another slave has it.
THEOREM ExportfsOneOwner == Spec => []OneOwner
<1>1. OwnInv => OneOwner
  <2> SUFFICES ASSUME OwnInv, NEW s \in Slaves, slave[s].at \notin {"idle", "gap"}
               PROVE  /\ work[slave[s].buf].busy /\ work[slave[s].buf].pid = s
                      /\ main.at \in {"read", "call", "mark", "give"} => main.buf # slave[s].buf
    BY DEF OneOwner
  <2> QED BY DEF OwnInv, Owned, None, Slaves
<1> QED BY <1>1, SpecOwn, PTL

-----------------------------------------------------------------------------
\* What happens to a request that is flushed, when no tag is used twice.

\* What the numbers of requests are good for.
LEMMA NumberFacts ==
  ASSUME OwnInv
  PROVE  /\ rd \in Nat /\ rd <= Len(reqs) /\ Len(reqs) \in Nat /\ DOMAIN reqs = 1 .. Len(reqs)
         /\ \A f \in Answered : f \in 1 .. rd
         /\ \A b \in Bufs : work[b].req \in 0 .. rd /\ work[b].flush \in 0 .. rd
         /\ \A n \in 1 .. Len(reqs) : reqs[n].victim # 0 =>
              /\ reqs[n].kind = "flush" /\ reqs[n].victim \in 1 .. n - 1
              /\ reqs[n].victim \in 1 .. Len(reqs)
              /\ reqs[reqs[n].victim].kind # "flush"
         /\ \A s \in Slaves : /\ slave[s].buf \in Bufs
                              /\ Working(s) => work[slave[s].buf].req \in 1 .. rd
<1>0. TypeOK /\ Victims /\ Numbers /\ SlaveFirst
  BY DEF OwnInv
<1>1. /\ rd \in Nat /\ rd <= Len(reqs) /\ Len(reqs) \in Nat /\ DOMAIN reqs = 1 .. Len(reqs)
      /\ \A s \in Slaves : slave[s].buf \in Bufs
  BY <1>0, Typed
<1>2. \A f \in Answered : f \in 1 .. rd
  BY <1>0, <1>1, Typed DEF Answered, Numbers
<1>3. \A b \in Bufs : work[b].req \in 0 .. rd /\ work[b].flush \in 0 .. rd
  BY <1>0, <1>1, Typed DEF Numbers
<1>4. \A s \in Slaves : Working(s) => work[slave[s].buf].req \in 1 .. rd
  BY <1>0, <1>1, <1>3 DEF SlaveFirst
<1>5. \A n \in 1 .. Len(reqs) : reqs[n].victim # 0 =>
        /\ reqs[n].kind = "flush" /\ reqs[n].victim \in 1 .. n - 1
        /\ reqs[n].victim \in 1 .. Len(reqs)
        /\ reqs[reqs[n].victim].kind # "flush"
  BY <1>0, <1>1 DEF Victims
<1> QED BY <1>1, <1>2, <1>3, <1>4, <1>5

\* Nothing changes for the requests that were kept, but that some are answered
\* and some flushes handed on.
LEMMA RequestsHeldOn ==
  ASSUME RequestHeld, reqs' = reqs, rd' = rd, Answered \subseteq Answered',
         main'.at # "dead" => main.at # "dead",
         \A n \in 1 .. rd : InHand(n) /\ reqs[n].kind # "flush" /\ n \notin Answered' =>
           InHand(n)' \/ \E f \in FlushesOf(n) : f \in Answered' \/ Held(f)',
         \A n \in 1 .. rd : \A f \in FlushesOf(n) : Held(f) =>
           \E g \in FlushesOf(n) : g \in Answered' \/ Held(g)'
  PROVE  RequestHeld'
<1>1. \A n : FlushesOf(n)' = FlushesOf(n)
  BY DEF FlushesOf
<1>2. ASSUME NEW n \in 1 .. rd, main'.at # "dead", reqs[n].kind # "flush", n \notin Answered'
      PROVE  InHand(n)' \/ \E f \in FlushesOf(n) : f \in Answered' \/ Held(f)'
  <2>1. InHand(n) \/ \E f \in FlushesOf(n) : f \in Answered \/ Held(f)
    BY <1>2 DEF RequestHeld
  <2> QED BY <1>2, <2>1
<1> QED BY <1>1, <1>2 DEF RequestHeld

\* An answer comes after that of no flush of it.
LEMMA AnswersInOrder ==
  ASSUME OwnInv, NoReplyAfterFlush, NEW n \in 1 .. rd, Reply(n), reqs' = reqs,
         \A f \in Answered : reqs[f].victim # n
  PROVE  NoReplyAfterFlush'
<1>1. out \in Seq(1 .. Len(reqs)) /\ Len(out) \in Nat /\ n \in 1 .. Len(reqs)
  BY NumberFacts, Typed DEF OwnInv, TypeOK
<1>2. /\ DOMAIN out = 1 .. Len(out) /\ DOMAIN out' = 1 .. Len(out) + 1
      /\ \A i \in 1 .. Len(out) : out'[i] = out[i]
      /\ out'[Len(out) + 1] = n
  BY <1>1 DEF Reply
<1>3. ASSUME NEW i \in DOMAIN out', NEW j \in DOMAIN out', i < j
      PROVE  out'[j] # reqs[out'[i]].victim
  <2>1. i \in 1 .. Len(out) /\ out'[i] = out[i] /\ out[i] \in Answered
    BY <1>1, <1>2, <1>3 DEF Answered
  <2>2. CASE j = Len(out) + 1
    BY <1>2, <2>1, <2>2
  <2>3. CASE j \in 1 .. Len(out)
    BY <1>2, <1>3, <2>1, <2>3 DEF NoReplyAfterFlush
  <2> QED BY <1>1, <1>2, <2>2, <2>3
<1> QED BY <1>3 DEF NoReplyAfterFlush

\* When only main or the slaves are elsewhere.
LEMMA GoesOnFlush ==
  ASSUME OwnInv, FlushInv, NEW s \in Slaves,
         NEW l \in {"try", "io", "test", "flushme", "free"},
         WillSee(s), SlaveGoto(s, l),
         l \in {"try", "io"} => Working(s),
         l \in {"test", "flushme"} => Flushed(s),
         l = "free" => ~Flushed(s) /\ ~Working(s),
         UNCHANGED <<reqs, rd, out, rcv, work, main, procs>>
  PROVE  FlushInv'
<1>0. TypeOK /\ TagsTrue /\ FlushSeen /\ RequestHeld /\ NoReplyAfterFlush
  BY DEF OwnInv, FlushInv
<1>1. /\ slave'[s].at = l /\ slave'[s].buf = slave[s].buf
      /\ \A t \in Slaves \ {s} : slave'[t] = slave[t]
  BY <1>0, Goes DEF SlavePlaces
<1>2. \A t \in Slaves : Working(t)' => Working(t) /\ slave'[t].buf = slave[t].buf
  BY <1>1 DEF Working
<1>3. TagsTrue'
  BY <1>0, <1>2 DEF TagsTrue
<1>4. FlushSeen'
  BY <1>0, <1>2 DEF FlushSeen, Answered
<1>5. NoReplyAfterFlush' /\ Answered' = Answered
  BY <1>0 DEF NoReplyAfterFlush, Answered
<1>6. \A t \in Slaves \ {s} : (WillSee(t)' <=> WillSee(t)) /\ slave'[t] = slave[t]
  BY <1>1 DEF WillSee
<1>7. ASSUME NEW n \in 1 .. rd, InHand(n)
      PROVE  InHand(n)' \/ \E f \in FlushesOf(n) : f \in Answered' \/ Held(f)'
  <2>1. CASE rd = n /\ main.at \in {"call", "give"}
    BY <2>1 DEF InHand
  <2>2. ASSUME NEW t \in Slaves \ {s}, Working(t), work[slave[t].buf].req = n
        PROVE  InHand(n)'
    <3>1. slave'[t] = slave[t]
      BY <1>1
    <3> QED BY <2>2, <3>1 DEF InHand, Working
  <2>3. CASE Working(s) /\ work[slave[s].buf].req = n /\ l \in {"try", "io"}
    BY <1>1, <2>3 DEF InHand
  <2>4. CASE Working(s) /\ work[slave[s].buf].req = n /\ l \in {"test", "flushme"}
    <3>1. PICK f \in 1 .. Len(reqs) : f = work[slave[s].buf].flush /\ reqs[f].victim = n
      BY <1>0, <2>4, NumberFacts DEF Flushed, TagsTrue
    <3>2. f \in FlushesOf(n)
      BY <3>1, NumberFacts DEF FlushesOf
    <3>3. Held(f)'
      BY <1>1, <2>4, <3>1 DEF Held, WillSee
    <3> QED BY <3>2, <3>3
  <2> QED BY <1>7, <2>1, <2>2, <2>3, <2>4 DEF InHand, Working
<1>8. ASSUME NEW n \in 1 .. rd, NEW f \in FlushesOf(n), Held(f)
      PROVE  Held(f)'
  <2>1. PICK t \in Slaves : WillSee(t) /\ work[slave[t].buf].flush = f
    BY <1>8 DEF Held
  <2>2. CASE t # s
    BY <1>6, <2>1, <2>2 DEF Held
  <2>3. CASE t = s
    <3>1. f # 0
      BY NumberFacts DEF FlushesOf
    <3>2. l # "free"
      BY <2>1, <2>3, <3>1 DEF Flushed
    <3> QED BY <1>1, <2>1, <2>3, <3>2 DEF Held, WillSee
  <2> QED BY <2>2, <2>3
<1>9. RequestHeld'
  BY <1>0, <1>5, <1>7, <1>8, RequestsHeldOn
<1> QED BY <1>3, <1>4, <1>5, <1>9 DEF FlushInv

\* The reply of a slave to the request in its buffer.
LEMMA SlaveAnswersFlush ==
  ASSUME OwnInv, FlushInv, NEW s \in Slaves, Working(s), SlaveGoto(s, "test"),
         Reply(work[slave[s].buf].req),
         UNCHANGED <<reqs, rd, rcv, work, main, procs>>
  PROVE  FlushInv'
<1>0. TypeOK /\ TagsTrue /\ FlushSeen /\ RequestHeld /\ NoReplyAfterFlush
  BY DEF OwnInv, FlushInv
<1>1. /\ slave'[s].at = "test" /\ slave'[s].buf = slave[s].buf
      /\ \A t \in Slaves \ {s} : slave'[t] = slave[t]
  BY <1>0, Goes DEF SlavePlaces
<1>2. \A t \in Slaves : Working(t)' => t # s /\ Working(t) /\ slave'[t] = slave[t]
  BY <1>1 DEF Working
<1>3. PICK n \in 1 .. rd : n = work[slave[s].buf].req
  BY NumberFacts
<1>4. n \notin Answered /\ reqs[n].kind = "io" /\ Reply(n)
  BY <1>3 DEF OwnInv, SlaveFirst
<1>5. Answered' = Answered \union {n}
  BY <1>4, Answers DEF OwnInv
<1>6. TagsTrue'
  BY <1>0, <1>2 DEF TagsTrue
<1>7. FlushSeen'
  <2>1. \A f \in 1 .. rd : reqs[f].victim # 0 => f # n
    BY <1>4, NumberFacts
  <2>2. \A t \in Slaves : Working(t) => work[slave[t].buf].req # 0
    BY NumberFacts
  <2> QED BY <1>0, <1>2, <1>5, <2>1, <2>2 DEF FlushSeen
<1>8. NoReplyAfterFlush'
  <2>1. \A f \in Answered : reqs[f].victim # n
    BY <1>0, <1>3, NumberFacts DEF FlushSeen
  <2> QED BY <1>0, <1>4, <2>1, AnswersInOrder
<1>9. ASSUME NEW m \in 1 .. rd, InHand(m), m \notin Answered'
      PROVE  InHand(m)'
  <2>1. CASE rd = m /\ main.at \in {"call", "give"}
    BY <2>1 DEF InHand
  <2>2. ASSUME NEW t \in Slaves, Working(t), work[slave[t].buf].req = m
        PROVE  InHand(m)'
    <3>1. t # s
      BY <1>3, <1>5, <1>9, <2>2
    <3> QED BY <1>1, <2>2, <3>1 DEF InHand, Working
  <2> QED BY <1>9, <2>1, <2>2 DEF InHand, Working
<1>10. ASSUME NEW f, Held(f)
       PROVE  Held(f)'
  <2>1. PICK t \in Slaves : WillSee(t) /\ work[slave[t].buf].flush = f
    BY <1>10 DEF Held
  <2>2. WillSee(t)' /\ slave'[t].buf = slave[t].buf
    BY <1>1, <2>1 DEF WillSee
  <2> QED BY <2>1, <2>2 DEF Held
<1>11. RequestHeld'
  BY <1>0, <1>5, <1>9, <1>10, RequestsHeldOn
<1> QED BY <1>6, <1>7, <1>8, <1>11 DEF FlushInv

\* The flush is answered instead of the request.
LEMMA SlaveFlushFlush ==
  ASSUME OwnInv, FlushInv, NEW s \in Slaves, SlaveFlush(s)
  PROVE  FlushInv'
<1>0. TypeOK /\ TagsTrue /\ FlushSeen /\ RequestHeld /\ NoReplyAfterFlush
  BY DEF OwnInv, FlushInv
<1>1. PICK b \in Bufs, g \in 0 .. rd :
        /\ b = slave[s].buf /\ g = work[b].flush
        /\ slave[s].at = "flushme" /\ SlaveGoto(s, "free") /\ Reply(g)
        /\ work' = [work EXCEPT ![b].tag = reqs[g].tag]
        /\ UNCHANGED <<reqs, rd, rcv, main, procs>>
  BY NumberFacts DEF SlaveFlush, SlaveAt
<1>2. /\ slave'[s].at = "free" /\ slave'[s].buf = slave[s].buf
      /\ \A t \in Slaves \ {s} : slave'[t] = slave[t]
  BY <1>0, <1>1, Goes DEF SlavePlaces
<1>3. /\ g \in 1 .. rd /\ g \in 1 .. Len(reqs) /\ g \notin Answered /\ reqs[g].kind = "flush"
      /\ reqs[g].victim = work[b].req /\ work[b].req # 0
  <2>1. WillSee(s) /\ g # 0
    BY <1>1 DEF OwnInv, SlaveFirst, WillSee
  <2>2. g \in 1 .. rd /\ g \in 1 .. Len(reqs)
    BY <1>1, <2>1, NumberFacts
  <2>3. g \notin Answered
    BY <1>1, <2>1 DEF OwnInv, SlaveFirst
  <2>4. reqs[g].kind = "flush"
    BY <1>1, <2>1 DEF OwnInv, Numbers
  <2>5. reqs[g].victim = work[b].req /\ work[b].req # 0
    BY <1>0, <1>1, <2>1 DEF TagsTrue
  <2> QED BY <2>2, <2>3, <2>4, <2>5
<1>4. reqs[g].tag \in Tags
  BY <1>0, <1>3, ReqTyped
<1>5. /\ \A c \in Bufs : /\ work'[c].req = work[c].req /\ work'[c].flush = work[c].flush
                         /\ c # b => work'[c].tag = work[c].tag
      /\ work'[b].tag = reqs[g].tag
  <2>1. work' = [work EXCEPT ![b].tag = reqs[g].tag]
    BY <1>1
  <2> QED BY <1>0, <1>4, <2>1, Retagged
<1>6. Answered' = Answered \union {g}
  BY <1>1, <1>3, Answers DEF OwnInv
<1>7. /\ \A t \in Slaves : WillSee(t) /\ t # s => slave[t].buf # b
      /\ \A t \in Slaves : Working(t) => WillSee(t) /\ t # s
      /\ main.at \in {"call", "give"} => main.buf \in Bufs \ {b}
  <2>1. main.buf \in Bufs /\ Owned
    BY <1>0 DEF OwnInv, TypeOK
  <2> QED BY <1>1, <2>1 DEF Owned, WillSee, Working, None, Slaves
<1>8. \A t \in Slaves : Working(t)' => Working(t) /\ slave'[t] = slave[t]
  BY <1>2 DEF Working
<1>9. TagsTrue'
  <2>1. \A c \in Bufs :
          /\ IF work'[c].req = 0 THEN work'[c].tag = None
             ELSE \/ work'[c].tag = reqs[work'[c].req].tag
                  \/ \E h \in 1 .. rd : reqs[h].kind = "flush" /\ work'[c].tag = reqs[h].tag
          /\ work'[c].flush # 0 =>
               work'[c].req # 0 /\ reqs[work'[c].flush].victim = work'[c].req
    BY <1>0, <1>3, <1>5 DEF TagsTrue
  <2>2. main.at \in {"call", "give"} => work'[main.buf].tag = reqs[rd].tag
    BY <1>0, <1>5, <1>7 DEF TagsTrue
  <2>3. main.at = "mark" => work'[main.to].req = reqs[rd].victim
    BY <1>0, <1>5 DEF TagsTrue, OwnInv, Owned
  <2>4. ASSUME NEW t \in Slaves, Working(t)'
        PROVE  work'[slave'[t].buf].tag = reqs[work'[slave'[t].buf].req].tag
    <3>1. slave'[t] = slave[t] /\ slave[t].buf \in Bufs \ {b} /\ Working(t)
      BY <1>7, <1>8, <2>4, NumberFacts
    <3> QED BY <1>0, <1>5, <3>1 DEF TagsTrue
  <2>5. UNCHANGED <<reqs, rd, main>>
    BY <1>1
  <2> QED BY <1>0, <2>1, <2>2, <2>3, <2>4, <2>5 DEF TagsTrue
<1>10. FlushSeen'
  <2>1. ASSUME NEW t \in Slaves, NEW f \in 1 .. rd, Working(t)',
               reqs[f].victim = work'[slave'[t].buf].req
        PROVE  /\ f \notin Answered'
               /\ work'[slave'[t].buf].flush # 0 \/ (f = rd /\ main.at \in {"call", "mark"})
    <3>1. slave'[t] = slave[t] /\ slave[t].buf \in Bufs \ {b} /\ Working(t)
      BY <1>7, <1>8, <2>1, NumberFacts
    <3>2. /\ work'[slave[t].buf].req = work[slave[t].buf].req
          /\ work'[slave[t].buf].flush = work[slave[t].buf].flush
      BY <1>5, <3>1
    <3>3. work[slave[t].buf].req # work[b].req
      BY <1>3, <3>1 DEF OwnInv, Numbers
    <3>4. f # g
      BY <1>3, <2>1, <3>1, <3>2, <3>3
    <3> QED BY <1>0, <1>6, <2>1, <3>1, <3>2, <3>4 DEF FlushSeen
  <2>2. UNCHANGED <<reqs, rd, main>>
    BY <1>1
  <2> QED BY <2>1, <2>2 DEF FlushSeen
<1>11. NoReplyAfterFlush'
  <2>1. \A f \in Answered : reqs[f].victim # g
    BY <1>3, NumberFacts
  <2> QED BY <1>0, <1>1, <1>3, <2>1, AnswersInOrder
<1>12. ASSUME NEW m \in 1 .. rd, InHand(m)
       PROVE  InHand(m)'
  <2>1. CASE rd = m /\ main.at \in {"call", "give"}
    BY <1>1, <2>1 DEF InHand
  <2>2. ASSUME NEW t \in Slaves, Working(t), work[slave[t].buf].req = m
        PROVE  InHand(m)'
    BY <1>2, <1>5, <1>7, <2>2, NumberFacts DEF InHand, Working
  <2> QED BY <1>12, <2>1, <2>2 DEF InHand, Working
<1>13. ASSUME NEW f, Held(f)
       PROVE  f \in Answered' \/ Held(f)'
  <2>1. PICK t \in Slaves : WillSee(t) /\ work[slave[t].buf].flush = f
    BY <1>13 DEF Held
  <2>2. CASE t = s
    BY <1>1, <1>6, <2>1, <2>2
  <2>3. CASE t # s
    <3>1. WillSee(t)' /\ slave'[t] = slave[t] /\ work'[slave[t].buf].flush = f
      BY <1>2, <1>5, <2>1, <2>3, NumberFacts DEF WillSee
    <3> QED BY <3>1 DEF Held
  <2> QED BY <2>2, <2>3
<1>14. RequestHeld'
  BY <1>0, <1>1, <1>6, <1>12, <1>13, RequestsHeldOn
<1> QED BY <1>9, <1>10, <1>11, <1>14 DEF FlushInv

\* What main and the slaves do with a buffer that they have already.
LEMMA GoesFlush ==
  ASSUME OwnInv, FlushInv, UNCHANGED <<reqs, rd, out>>,
         \A b \in Bufs : /\ work'[b].req = work[b].req /\ work'[b].tag = work[b].tag
                         /\ work'[b].flush = work[b].flush,
         \A t \in Slaves : /\ Working(t)' <=> Working(t)
                           /\ WillSee(t)' <=> WillSee(t)
                           /\ WillSee(t) => slave'[t].buf = slave[t].buf,
         main'.at \in {"call", "give"} => main.at \in {"call", "give"} /\ main'.buf = main.buf,
         main'.at = "mark" => main'.to \in Bufs /\ work[main'.to].req = reqs[rd].victim,
         main.at \in {"call", "mark"} /\ reqs[rd].kind = "flush" => main'.at \in {"call", "mark"},
         main'.at # "dead" => main.at # "dead",
         main'.at # "dead" /\ main.at \in {"call", "give"} /\ reqs[rd].kind # "flush"
           => main'.at \in {"call", "give"}
  PROVE  FlushInv'
<1>0. TypeOK /\ TagsTrue /\ FlushSeen /\ RequestHeld /\ NoReplyAfterFlush
  BY DEF OwnInv, FlushInv
<1>1. \A t \in Slaves : /\ slave[t].buf \in Bufs
                        /\ Working(t) => slave'[t].buf = slave[t].buf
  BY NumberFacts DEF Working, WillSee
<1>2. Answered' = Answered
  BY DEF Answered
<1>3. TagsTrue'
  <2>1. main'.at \in {"call", "give"} => work'[main'.buf].tag = reqs[rd].tag
    BY <1>0, Typed DEF TagsTrue, OwnInv
  <2>2. main'.at = "mark" => work'[main'.to].req = reqs[rd].victim
    OBVIOUS
  <2>3. \A t \in Slaves : Working(t)' =>
          work'[slave'[t].buf].tag = reqs[work'[slave'[t].buf].req].tag
    BY <1>0, <1>1 DEF TagsTrue
  <2>4. \A c \in Bufs :
          /\ IF work'[c].req = 0 THEN work'[c].tag = None
             ELSE \/ work'[c].tag = reqs[work'[c].req].tag
                  \/ \E h \in 1 .. rd : reqs[h].kind = "flush" /\ work'[c].tag = reqs[h].tag
          /\ work'[c].flush # 0 =>
               work'[c].req # 0 /\ reqs[work'[c].flush].victim = work'[c].req
    BY <1>0 DEF TagsTrue
  <2> QED BY <1>0, <2>1, <2>2, <2>3, <2>4 DEF TagsTrue
<1>4. FlushSeen'
  <2>1. ASSUME NEW t \in Slaves, NEW f \in 1 .. rd, Working(t),
               reqs[f].victim = work[slave[t].buf].req
        PROVE  /\ f \notin Answered
               /\ work[slave[t].buf].flush # 0 \/ (f = rd /\ main'.at \in {"call", "mark"})
    <3>1. reqs[f].kind = "flush"
      BY <2>1, NumberFacts
    <3> QED BY <1>0, <2>1, <3>1 DEF FlushSeen
  <2> QED BY <1>1, <1>2, <2>1 DEF FlushSeen
<1>5. NoReplyAfterFlush'
  BY <1>0 DEF NoReplyAfterFlush
<1>6. ASSUME NEW f, Held(f)
      PROVE  Held(f)'
  <2>1. PICK t \in Slaves : WillSee(t) /\ work[slave[t].buf].flush = f
    BY <1>6 DEF Held
  <2>2. WillSee(t)' /\ slave'[t].buf = slave[t].buf /\ work'[slave[t].buf].flush = f
    BY <1>1, <2>1
  <2> QED BY <2>2 DEF Held
<1>7. ASSUME NEW m \in 1 .. rd, InHand(m), reqs[m].kind # "flush", main'.at # "dead"
      PROVE  InHand(m)'
  <2>1. CASE rd = m /\ main.at \in {"call", "give"}
    BY <1>7, <2>1 DEF InHand
  <2>2. ASSUME NEW t \in Slaves, Working(t), work[slave[t].buf].req = m
        PROVE  InHand(m)'
    <3>1. Working(t)' /\ work'[slave'[t].buf].req = m
      BY <1>1, <2>2
    <3> QED BY <3>1 DEF InHand, Working
  <2> QED BY <1>7, <2>1, <2>2 DEF InHand, Working
<1>8. CASE main'.at # "dead"
  <2>1. RequestHeld'
    BY <1>0, <1>2, <1>6, <1>7, <1>8, RequestsHeldOn
  <2> QED BY <1>3, <1>4, <1>5, <2>1 DEF FlushInv
<1>9. CASE main'.at = "dead"
  BY <1>3, <1>4, <1>5, <1>9 DEF FlushInv, RequestHeld
<1> QED BY <1>8, <1>9

LEMMA GetsbufFlush ==
  ASSUME OwnInv, FlushInv, Getsbuf
  PROVE  FlushInv'
<1>0. TypeOK /\ TagsTrue /\ FlushSeen /\ RequestHeld /\ NoReplyAfterFlush
  BY DEF OwnInv, FlushInv
<1>1. PICK b \in Bufs :
        /\ main.at = "getsbuf" /\ ~work[b].busy
        /\ work' = [work EXCEPT ![b].busy = TRUE, ![b].pid = None, ![b].flush = 0]
        /\ main' = [main EXCEPT !.at = "read", !.buf = b]
        /\ UNCHANGED <<reqs, rd, out, rcv, procs, slave>>
  BY DEF Getsbuf, FreeBuf
<1>2. /\ \A c \in Bufs : /\ work'[c].req = work[c].req /\ work'[c].tag = work[c].tag
                         /\ work'[c].flush = 0 \/ work'[c].flush = work[c].flush
      /\ \A c \in Bufs \ {b} : work'[c] = work[c]
  <2>1. work \in [Bufs -> Buffer]
    BY <1>0 DEF TypeOK
  <2> QED BY <1>1, <2>1 DEF Buffer
<1>3. main'.at = "read"
  BY <1>0, <1>1 DEF TypeOK
<1>4. /\ \A t \in Slaves : Working(t) => WillSee(t)
      /\ \A t \in Slaves : WillSee(t) => work'[slave[t].buf] = work[slave[t].buf]
  BY <1>1, <1>2, NumberFacts DEF OwnInv, Owned, WillSee, Working
<1>5. UNCHANGED <<reqs, rd, out, slave>> /\ Answered' = Answered
  BY <1>1 DEF Answered
<1>6. TagsTrue'
  <2>1. \A c \in Bufs :
          /\ IF work'[c].req = 0 THEN work'[c].tag = None
             ELSE \/ work'[c].tag = reqs[work'[c].req].tag
                  \/ \E h \in 1 .. rd : reqs[h].kind = "flush" /\ work'[c].tag = reqs[h].tag
          /\ work'[c].flush # 0 =>
               work'[c].req # 0 /\ reqs[work'[c].flush].victim = work'[c].req
    BY <1>0, <1>2 DEF TagsTrue
  <2> QED BY <1>0, <1>3, <1>4, <1>5, <2>1 DEF TagsTrue, Working
<1>7. FlushSeen'
  BY <1>0, <1>1, <1>4, <1>5 DEF FlushSeen, Working
<1>8. NoReplyAfterFlush'
  BY <1>0, <1>5 DEF NoReplyAfterFlush
<1>9. ASSUME NEW f, Held(f)
      PROVE  Held(f)'
  BY <1>4, <1>5, <1>9 DEF Held, WillSee
<1>10. ASSUME NEW m \in 1 .. rd, InHand(m)
       PROVE  InHand(m)'
  <2>1. PICK t \in Slaves : Working(t) /\ work[slave[t].buf].req = m
    BY <1>1, <1>10 DEF InHand, Working
  <2>2. work'[slave[t].buf].req = m
    BY <1>4, <2>1
  <2> QED BY <1>5, <2>1, <2>2 DEF InHand, Working
<1>11. RequestHeld'
  BY <1>0, <1>1, <1>5, <1>9, <1>10, RequestsHeldOn
<1> QED BY <1>6, <1>7, <1>8, <1>11 DEF FlushInv

LEMMA ReadFlush ==
  ASSUME OwnInv, FlushInv, Read
  PROVE  FlushInv'
<1>0. TypeOK /\ TagsTrue /\ FlushSeen /\ RequestHeld /\ NoReplyAfterFlush
  BY DEF OwnInv, FlushInv
<1>1. PICK b \in Bufs, n \in 1 .. Len(reqs) :
        /\ b = main.buf /\ n = rd + 1 /\ main.at = "read" /\ rd' = n
        /\ work' = [work EXCEPT ![b].req = n, ![b].tag = reqs[n].tag]
        /\ main' = [main EXCEPT !.at = "call"]
        /\ UNCHANGED <<reqs, out, rcv, procs, slave>>
  <2>1. rd + 1 \in 1 .. Len(reqs) /\ main.buf \in Bufs
    BY <1>0, NumberFacts DEF Read, TypeOK
  <2> QED BY <2>1 DEF Read
<1>2. /\ rd \in Nat /\ n > rd /\ n \notin 1 .. rd /\ n # 0
      /\ \A m \in 1 .. n : m = n \/ m \in 1 .. rd
      /\ \A m \in 1 .. rd : m \in 1 .. n
  BY <1>1, NumberFacts
<1>3. reqs[n].tag \in Tags /\ n \in 0 .. MaxReqs
  BY <1>0, ReqTyped, Typed DEF OwnInv
<1>4. /\ \A c \in Bufs \ {b} : work'[c] = work[c]
      /\ work'[b].req = n /\ work'[b].tag = reqs[n].tag /\ work'[b].flush = work[b].flush
  <2>1. work \in [Bufs -> Buffer]
    BY <1>0 DEF TypeOK
  <2> QED BY <1>1, <1>3, <2>1 DEF Buffer
<1>5. main'.at = "call" /\ main'.buf = b
  BY <1>0, <1>1 DEF TypeOK
<1>6. work[b].flush = 0
  BY <1>1 DEF OwnInv, MainFirst
<1>7. /\ \A t \in Slaves : Working(t) => WillSee(t)
      /\ \A t \in Slaves : WillSee(t) => slave[t].buf \in Bufs \ {b}
  <2>1. Owned
    BY DEF OwnInv
  <2> QED BY <1>1, <2>1, NumberFacts DEF Owned, WillSee, Working, None, Slaves
<1>8. \A t \in Slaves : WillSee(t) => work'[slave[t].buf] = work[slave[t].buf]
  BY <1>4, <1>7
<1>9. UNCHANGED <<reqs, out, slave>> /\ Answered' = Answered /\ rd' = n
  BY <1>1 DEF Answered
<1>10. TagsTrue'
  <2>1. ASSUME NEW c \in Bufs
        PROVE  /\ IF work'[c].req = 0 THEN work'[c].tag = None
                  ELSE \/ work'[c].tag = reqs[work'[c].req].tag
                       \/ \E h \in 1 .. n : reqs[h].kind = "flush" /\ work'[c].tag = reqs[h].tag
               /\ work'[c].flush # 0 =>
                    work'[c].req # 0 /\ reqs[work'[c].flush].victim = work'[c].req
    <3>1. CASE c = b
      BY <1>2, <1>4, <1>6, <3>1
    <3>2. CASE c # b
      BY <1>0, <1>2, <1>4, <3>2 DEF TagsTrue
    <3> QED BY <3>1, <3>2
  <2>2. work'[main'.buf].tag = reqs[n].tag
    BY <1>4, <1>5
  <2>3. \A t \in Slaves : Working(t) =>
          work'[slave[t].buf].tag = reqs[work'[slave[t].buf].req].tag
    BY <1>0, <1>7, <1>8 DEF TagsTrue
  <2> QED BY <1>0, <1>5, <1>9, <2>1, <2>2, <2>3 DEF TagsTrue, Working
<1>11. FlushSeen'
  <2>1. n \notin Answered
    BY <1>2, NumberFacts
  <2>2. ASSUME NEW t \in Slaves, NEW f \in 1 .. n, Working(t),
               reqs[f].victim = work[slave[t].buf].req
        PROVE  f \notin Answered /\ (work[slave[t].buf].flush # 0 \/ f = n)
    <3>1. CASE f = n
      BY <2>1, <3>1
    <3>2. CASE f \in 1 .. rd
      BY <1>0, <1>1, <2>2, <3>2 DEF FlushSeen
    <3> QED BY <1>2, <3>1, <3>2
  <2> QED BY <1>5, <1>7, <1>8, <1>9, <2>2 DEF FlushSeen, Working
<1>12. NoReplyAfterFlush'
  BY <1>0, <1>9 DEF NoReplyAfterFlush
<1>13. RequestHeld'
  <2>1. ASSUME NEW m \in 1 .. n, reqs[m].kind # "flush", m \notin Answered
        PROVE  InHand(m)' \/ \E f \in FlushesOf(m) : f \in Answered \/ Held(f)'
    <3>1. CASE m = n
      BY <1>5, <1>9, <3>1 DEF InHand
    <3>2. CASE m \in 1 .. rd
      <4>1. InHand(m) \/ \E f \in FlushesOf(m) : f \in Answered \/ Held(f)
        BY <1>0, <1>1, <2>1, <3>2 DEF RequestHeld
      <4>2. InHand(m) => InHand(m)'
        <5>1. SUFFICES ASSUME InHand(m) PROVE InHand(m)'
          OBVIOUS
        <5>2. PICK t \in Slaves : Working(t) /\ work[slave[t].buf].req = m
          BY <1>1, <5>1 DEF InHand, Working
        <5>3. work'[slave[t].buf].req = m
          BY <1>7, <1>8, <5>2
        <5> QED BY <1>9, <5>2, <5>3 DEF InHand, Working
      <4>3. ASSUME NEW f, Held(f) PROVE Held(f)'
        BY <1>8, <1>9, <4>3 DEF Held, WillSee
      <4> QED BY <4>1, <4>2, <4>3
    <3> QED BY <1>2, <3>1, <3>2
  <2>2. \A m : FlushesOf(m)' = FlushesOf(m)
    BY <1>9 DEF FlushesOf
  <2> QED BY <1>9, <2>1, <2>2 DEF RequestHeld
<1> QED BY <1>10, <1>11, <1>12, <1>13 DEF FlushInv

\* main answers the request in its hands, no flush of one that a slave works on.
LEMMA MainAnswersFlush ==
  ASSUME OwnInv, FlushInv, main.at = "call", Reply(rd), NextMessage, BusyBut(main.buf),
         \A s \in Slaves : Working(s) => work[slave[s].buf].req # reqs[rd].victim,
         UNCHANGED <<reqs, rd, rcv, procs, slave>>
  PROVE  FlushInv'
<1>0. TypeOK /\ TagsTrue /\ FlushSeen /\ RequestHeld /\ NoReplyAfterFlush
  BY DEF OwnInv, FlushInv
<1>1. main'.at = "getsbuf" /\ rd \in 1 .. rd /\ rd \in 1 .. Len(reqs) /\ rd \notin Answered
  BY NumberFacts DEF NextMessage, OwnInv, MainFirst
<1>2. Answered' = Answered \union {rd}
  BY <1>1, Answers DEF OwnInv
<1>3. \A c \in Bufs : /\ work'[c].req = work[c].req /\ work'[c].tag = work[c].tag
                      /\ work'[c].flush = work[c].flush
  BY DEF BusyBut
<1>4. \A t \in Slaves : /\ slave[t].buf \in Bufs
                        /\ Working(t)' <=> Working(t)
                        /\ WillSee(t)' <=> WillSee(t)
  BY NumberFacts DEF Working, WillSee
<1>5. TagsTrue'
  <2>1. \A c \in Bufs :
          /\ IF work'[c].req = 0 THEN work'[c].tag = None
             ELSE \/ work'[c].tag = reqs[work'[c].req].tag
                  \/ \E h \in 1 .. rd : reqs[h].kind = "flush" /\ work'[c].tag = reqs[h].tag
          /\ work'[c].flush # 0 =>
               work'[c].req # 0 /\ reqs[work'[c].flush].victim = work'[c].req
    BY <1>0, <1>3 DEF TagsTrue
  <2>2. \A t \in Slaves : Working(t) =>
          work'[slave[t].buf].tag = reqs[work'[slave[t].buf].req].tag
    BY <1>0, <1>3, <1>4 DEF TagsTrue
  <2> QED BY <1>0, <1>1, <1>4, <2>1, <2>2 DEF TagsTrue
<1>6. FlushSeen'
  <2>1. ASSUME NEW t \in Slaves, NEW f \in 1 .. rd, Working(t),
               reqs[f].victim = work[slave[t].buf].req
        PROVE  f \notin Answered' /\ work[slave[t].buf].flush # 0
    BY <1>0, <1>2, <2>1 DEF FlushSeen
  <2> QED BY <1>3, <1>4, <2>1 DEF FlushSeen
<1>7. NoReplyAfterFlush'
  <2>1. \A f \in Answered : reqs[f].victim # rd
    BY <1>1, NumberFacts
  <2> QED BY <1>0, <1>1, <2>1, AnswersInOrder
<1>8. ASSUME NEW f, Held(f)
      PROVE  Held(f)'
  BY <1>3, <1>4, <1>8 DEF Held
<1>9. ASSUME NEW m \in 1 .. rd, InHand(m), m \notin Answered'
      PROVE  InHand(m)'
  <2>1. PICK t \in Slaves : Working(t) /\ work[slave[t].buf].req = m
    BY <1>2, <1>9 DEF InHand, Working
  <2> QED BY <1>3, <1>4, <2>1 DEF InHand, Working
<1>10. RequestHeld'
  BY <1>0, <1>2, <1>8, <1>9, RequestsHeldOn
<1> QED BY <1>5, <1>6, <1>7, <1>10 DEF FlushInv

\* What Xflush looks for: the tag of a request that no other has.
LEMMA TargetsTrue ==
  ASSUME OwnInv, FlushInv, main.at = "call", reqs[rd].kind = "flush"
  PROVE  /\ \A b \in FlushTargets : work[b].req = reqs[rd].victim
         /\ \A s \in Slaves : Working(s) /\ work[slave[s].buf].req = reqs[rd].victim
              => slave[s].buf \in FlushTargets
<1>0. TypeOK /\ TagsTrue /\ Owned
  BY DEF OwnInv, FlushInv
<1>1. rd \in 1 .. Len(reqs)
  BY NumberFacts DEF OwnInv, MainFirst
<1>2. PICK v \in 1 .. Len(reqs) : v = reqs[rd].victim /\ reqs[v].kind # "flush"
  BY <1>1, NumberFacts DEF OwnInv, Victims
<1>3. reqs[v].tag \in Tags
  BY <1>0, <1>2, ReqTyped
<1>4. ASSUME NEW b \in FlushTargets
      PROVE  work[b].req = v
  <2>1. b \in Bufs /\ work[b].tag = reqs[v].tag
    BY <1>2 DEF FlushTargets
  <2>2. work[b].req # 0
    <3>1. work[b].req = 0 => work[b].tag = None
      BY <1>0, <2>1 DEF TagsTrue
    <3>2. None \notin Tags
      BY KindsAssumption DEF None, Tags
    <3> QED BY <1>3, <2>1, <3>1, <3>2
  <2>3. \A n \in 1 .. Len(reqs) : work[b].tag = reqs[n].tag => n = v
    <3>1. \A m, n \in 1 .. Len(reqs) : reqs[m].tag = reqs[n].tag => m = n
      BY <1>0, NumberFacts DEF TagsTrue
    <3> QED BY <1>2, <2>1, <3>1
  <2>4. ~\E g \in 1 .. rd : reqs[g].kind = "flush" /\ work[b].tag = reqs[g].tag
    BY <1>2, <2>3, NumberFacts
  <2>5. work[b].req \in 1 .. Len(reqs)
    BY <2>1, <2>2, NumberFacts
  <2> QED BY <1>0, <2>1, <2>2, <2>3, <2>4, <2>5 DEF TagsTrue
<1>5. ASSUME NEW s \in Slaves, Working(s), work[slave[s].buf].req = v
      PROVE  slave[s].buf \in FlushTargets
  <2>1. /\ slave[s].buf \in Bufs /\ work[slave[s].buf].tag = reqs[v].tag
        /\ work[slave[s].buf].busy /\ work[slave[s].buf].pid = s /\ s # None
    BY <1>0, <1>5, NumberFacts DEF TagsTrue, Owned, Working, None, Slaves
  <2> QED BY <1>2, <2>1 DEF FlushTargets
<1> QED BY <1>2, <1>4, <1>5

\* The flush that was in the buffer before is of the same request.
LEMMA XflushMarkFlush ==
  ASSUME OwnInv, FlushInv, XflushMark
  PROVE  FlushInv'
<1>0. TypeOK /\ TagsTrue /\ FlushSeen /\ RequestHeld /\ NoReplyAfterFlush
  BY DEF OwnInv, FlushInv
<1>1. PICK b \in Bufs, t \in Bufs, g \in 1 .. rd :
        /\ b = main.buf /\ t = main.to /\ g = rd /\ main.at = "mark"
        /\ work' = [work EXCEPT ![t].flush = g, ![b].busy = FALSE]
        /\ main' = [at |-> "getsbuf", buf |-> 0, to |-> 0]
        /\ UNCHANGED <<reqs, rd, out, rcv, procs, slave>>
  <2>1. main.at = "mark" /\ main.to \in Bufs /\ main.buf \in Bufs /\ rd \in 1 .. rd
    BY <1>0, NumberFacts DEF XflushMark, OwnInv, Owned, MainFirst, TypeOK
  <2> QED BY <2>1 DEF XflushMark, NextMessage
<1>2. /\ g \in 1 .. Len(reqs) /\ g # 0 /\ reqs[g].kind = "flush"
      /\ reqs[g].victim = work[t].req /\ work[t].req # 0
  <2>1. g \in 1 .. Len(reqs) /\ g # 0 /\ reqs[g].kind = "flush" /\ reqs[g].victim = work[t].req
    BY <1>0, <1>1, NumberFacts DEF OwnInv, MainFirst, TagsTrue
  <2>2. reqs[g].victim # 0
    BY <2>1, NumberFacts DEF OwnInv, Victims
  <2> QED BY <2>1, <2>2
<1>3. /\ \A c \in Bufs : /\ work'[c].req = work[c].req /\ work'[c].tag = work[c].tag
                         /\ c # t => work'[c].flush = work[c].flush
      /\ work'[t].flush = g
  <2>1. work \in [Bufs -> Buffer] /\ g \in 0 .. MaxReqs
    BY <1>0, <1>2, Typed DEF TypeOK, OwnInv
  <2> QED BY <1>1, <2>1 DEF Buffer
<1>4. \A u \in Slaves : slave[u].buf \in Bufs
  BY NumberFacts
<1>5. UNCHANGED <<reqs, rd, out, slave>> /\ Answered' = Answered /\ main'.at = "getsbuf"
  BY <1>1 DEF Answered
<1>6. TagsTrue'
  <2>1. ASSUME NEW c \in Bufs
        PROVE  /\ IF work'[c].req = 0 THEN work'[c].tag = None
                  ELSE \/ work'[c].tag = reqs[work'[c].req].tag
                       \/ \E h \in 1 .. rd : reqs[h].kind = "flush" /\ work'[c].tag = reqs[h].tag
               /\ work'[c].flush # 0 =>
                    work'[c].req # 0 /\ reqs[work'[c].flush].victim = work'[c].req
    <3>1. CASE c = t
      BY <1>0, <1>2, <1>3, <3>1 DEF TagsTrue
    <3>2. CASE c # t
      BY <1>0, <1>3, <3>2 DEF TagsTrue
    <3> QED BY <3>1, <3>2
  <2>2. \A u \in Slaves : Working(u) =>
          work'[slave[u].buf].tag = reqs[work'[slave[u].buf].req].tag
    BY <1>0, <1>3, <1>4 DEF TagsTrue
  <2> QED BY <1>0, <1>5, <2>1, <2>2 DEF TagsTrue, Working
<1>7. FlushSeen'
  <2>1. ASSUME NEW u \in Slaves, NEW f \in 1 .. rd, Working(u),
               reqs[f].victim = work[slave[u].buf].req
        PROVE  f \notin Answered /\ work'[slave[u].buf].flush # 0
    <3>1. f \notin Answered /\ (work[slave[u].buf].flush # 0 \/ f = g)
      BY <1>0, <1>1, <2>1 DEF FlushSeen
    <3>2. CASE slave[u].buf = t
      BY <1>2, <1>3, <3>1, <3>2
    <3>3. CASE slave[u].buf # t
      <4>1. work[slave[u].buf].req # work[t].req
        BY <1>2, <1>4, <3>3 DEF OwnInv, Numbers
      <4> QED BY <1>2, <1>3, <1>4, <2>1, <3>1, <3>3, <4>1
    <3> QED BY <3>2, <3>3
  <2> QED BY <1>3, <1>4, <1>5, <2>1 DEF FlushSeen, Working
<1>8. NoReplyAfterFlush'
  BY <1>0, <1>5 DEF NoReplyAfterFlush
<1>9. ASSUME NEW m \in 1 .. rd, NEW f \in FlushesOf(m), Held(f)
      PROVE  \E h \in FlushesOf(m) : Held(h)'
  <2>1. PICK u \in Slaves : WillSee(u) /\ work[slave[u].buf].flush = f
    BY <1>9 DEF Held
  <2>2. CASE slave[u].buf = t
    <3>1. f \in 1 .. Len(reqs) /\ reqs[f].victim = m
      BY NumberFacts DEF FlushesOf
    <3>2. m = work[t].req
      BY <1>0, <2>1, <2>2, <3>1 DEF TagsTrue
    <3>3. g \in FlushesOf(m)
      BY <1>2, <3>2, NumberFacts DEF FlushesOf
    <3>4. Held(g)'
      BY <1>3, <1>5, <2>1, <2>2 DEF Held, WillSee
    <3> QED BY <3>3, <3>4
  <2>3. CASE slave[u].buf # t
    <3>1. work'[slave[u].buf].flush = f
      BY <1>3, <1>4, <2>1, <2>3
    <3>2. Held(f)'
      BY <1>5, <2>1, <3>1 DEF Held, WillSee
    <3> QED BY <3>2
  <2> QED BY <2>2, <2>3
<1>10. ASSUME NEW m \in 1 .. rd, InHand(m)
       PROVE  InHand(m)'
  <2>1. PICK u \in Slaves : Working(u) /\ work[slave[u].buf].req = m
    BY <1>1, <1>10 DEF InHand, Working
  <2> QED BY <1>3, <1>4, <1>5, <2>1 DEF InHand, Working
<1>11. RequestHeld'
  BY <1>0, <1>1, <1>5, <1>9, <1>10, RequestsHeldOn
<1> QED BY <1>6, <1>7, <1>8, <1>11 DEF FlushInv

\* No flush of the request that is handed over can have been read yet.
LEMMA RendezvousFlush ==
  ASSUME OwnInv, FlushInv, Rendezvous
  PROVE  FlushInv'
<1>0. TypeOK /\ TagsTrue /\ FlushSeen /\ RequestHeld /\ NoReplyAfterFlush
  BY DEF OwnInv, FlushInv
<1>1. PICK b \in Bufs, s \in Slaves :
        /\ b = main.buf /\ s = main.to /\ main.at = "give" /\ slave[s].at = "idle"
        /\ slave' = [slave EXCEPT ![s].at = "got", ![s].buf = b]
        /\ main' = [at |-> "getsbuf", buf |-> 0, to |-> 0]
        /\ UNCHANGED <<reqs, rd, out, rcv, work, procs>>
  <2>1. main.at = "give" /\ main.to \in Slaves /\ main.buf \in Bufs
    BY <1>0 DEF Rendezvous, OwnInv, Owned, TypeOK
  <2> QED BY <2>1 DEF Rendezvous, NextMessage
<1>2. /\ slave'[s].at = "got" /\ slave'[s].buf = b
      /\ \A t \in Slaves \ {s} : slave'[t] = slave[t]
  BY <1>0, <1>1 DEF TypeOK
<1>3. work[b].req = rd /\ work[b].tag = reqs[rd].tag /\ rd # 0
  BY <1>0, <1>1 DEF OwnInv, MainFirst, TagsTrue
<1>4. \A f \in 1 .. rd : reqs[f].victim # rd
  BY <1>3, NumberFacts
<1>5. UNCHANGED <<reqs, rd, out, work>> /\ Answered' = Answered /\ main'.at = "getsbuf"
  BY <1>1 DEF Answered
<1>6. TagsTrue'
  <2>1. ASSUME NEW t \in Slaves, Working(t)'
        PROVE  work[slave'[t].buf].tag = reqs[work[slave'[t].buf].req].tag
    BY <1>0, <1>2, <1>3, <2>1 DEF TagsTrue, Working
  <2> QED BY <1>0, <1>5, <2>1 DEF TagsTrue
<1>7. FlushSeen'
  <2>1. ASSUME NEW t \in Slaves, NEW f \in 1 .. rd, Working(t)',
               reqs[f].victim = work[slave'[t].buf].req
        PROVE  f \notin Answered /\ work[slave'[t].buf].flush # 0
    <3>1. CASE t = s
      BY <1>2, <1>3, <1>4, <2>1, <3>1
    <3>2. CASE t # s
      BY <1>0, <1>1, <1>2, <2>1, <3>2 DEF FlushSeen, Working
    <3> QED BY <3>1, <3>2
  <2> QED BY <1>5, <2>1 DEF FlushSeen
<1>8. NoReplyAfterFlush'
  BY <1>0, <1>5 DEF NoReplyAfterFlush
<1>9. ASSUME NEW f, Held(f)
      PROVE  Held(f)'
  <2>1. PICK t \in Slaves : WillSee(t) /\ work[slave[t].buf].flush = f
    BY <1>9 DEF Held
  <2>2. t # s
    BY <1>1, <2>1 DEF WillSee
  <2> QED BY <1>2, <1>5, <2>1, <2>2 DEF Held, WillSee
<1>10. ASSUME NEW m \in 1 .. rd, InHand(m)
       PROVE  InHand(m)'
  <2>1. CASE m = rd
    BY <1>2, <1>3, <1>5, <2>1 DEF InHand
  <2>2. ASSUME NEW t \in Slaves, Working(t), work[slave[t].buf].req = m
        PROVE  InHand(m)'
    <3>1. t # s
      BY <1>1, <2>2 DEF Working
    <3> QED BY <1>2, <1>5, <2>2, <3>1 DEF InHand, Working
  <2> QED BY <1>10, <2>1, <2>2 DEF InHand, Working
<1>11. RequestHeld'
  BY <1>0, <1>1, <1>5, <1>9, <1>10, RequestsHeldOn
<1> QED BY <1>6, <1>7, <1>8, <1>11 DEF FlushInv

\* The new request has a tag of its own.
LEMMA ClientSendFlush ==
  ASSUME OwnInv, FlushInv, ClientSend, ReuseTags = FALSE
  PROVE  FlushInv'
<1>0. TypeOK /\ TagsTrue /\ FlushSeen /\ RequestHeld /\ NoReplyAfterFlush
  BY DEF OwnInv, FlushInv
<1>1. PICK kind \in Kinds, v \in Nat, t \in Tags :
        /\ Lowest(t)
        /\ reqs' = Append(reqs, [tag |-> t, kind |-> kind, victim |-> v])
        /\ UNCHANGED <<rd, out, rcv, work, main, procs, slave>>
  <2>1. \A v \in Outstanding : v \in Nat
    BY NumberFacts DEF Outstanding
  <2> QED BY <2>1 DEF ClientSend, Send
<1>2. \A n \in DOMAIN reqs : reqs[n].tag # t
  BY <1>1 DEF Lowest, InUse
<1>3. /\ \A n \in 1 .. Len(reqs) : reqs'[n] = reqs[n]
      /\ reqs'[Len(reqs) + 1].tag = t
      /\ DOMAIN reqs = 1 .. Len(reqs) /\ Len(reqs) \in Nat
      /\ DOMAIN reqs' = 1 .. Len(reqs) + 1
      /\ \A n \in DOMAIN reqs' : n = Len(reqs) + 1 \/ n \in DOMAIN reqs
      /\ \A n \in DOMAIN reqs : n \in DOMAIN reqs'
  <2> DEFINE R == [tag : Tags, kind : Kinds, victim : 0 .. MaxReqs]
             r == [tag |-> t, kind |-> kind, victim |-> v]
  <2>1. reqs \in Seq(R) /\ reqs' = Append(reqs, r) /\ r.tag = t
    BY <1>0, <1>1 DEF TypeOK
  <2> HIDE DEF R, r
  <2> QED BY <2>1
<1>4. \A n \in 1 .. rd : n \in 1 .. Len(reqs) /\ reqs'[n] = reqs[n]
  BY <1>3, NumberFacts
<1>5. UNCHANGED <<rd, out, work, main, slave>> /\ Answered' = Answered
  BY <1>1 DEF Answered
<1>6. TagsTrue'
  <2>1. \A m, n \in DOMAIN reqs' : reqs'[m].tag = reqs'[n].tag => m = n
    BY <1>0, <1>2, <1>3 DEF TagsTrue
  <2>2. ASSUME NEW c \in Bufs
        PROVE  /\ IF work[c].req = 0 THEN work[c].tag = None
                  ELSE \/ work[c].tag = reqs'[work[c].req].tag
                       \/ \E h \in 1 .. rd : reqs'[h].kind = "flush" /\ work[c].tag = reqs'[h].tag
               /\ work[c].flush # 0 =>
                    work[c].req # 0 /\ reqs'[work[c].flush].victim = work[c].req
    <3>1. /\ work[c].req # 0 => work[c].req \in 1 .. rd
          /\ work[c].flush # 0 => work[c].flush \in 1 .. rd
      BY NumberFacts
    <3> QED BY <1>0, <1>4, <3>1 DEF TagsTrue
  <2>3. main.at \in {"call", "mark", "give"} => rd \in 1 .. rd
    BY NumberFacts DEF OwnInv, MainFirst
  <2>4. main.at \in {"call", "give"} => work[main.buf].tag = reqs'[rd].tag
    BY <1>0, <1>4, <2>3 DEF TagsTrue
  <2>5. main.at = "mark" => work[main.to].req = reqs'[rd].victim
    BY <1>0, <1>4, <2>3 DEF TagsTrue
  <2>6. \A u \in Slaves : Working(u) =>
          work[slave[u].buf].tag = reqs'[work[slave[u].buf].req].tag
    BY <1>0, <1>4, NumberFacts DEF TagsTrue
  <2> QED BY <1>5, <2>1, <2>2, <2>4, <2>5, <2>6 DEF TagsTrue, Working
<1>7. FlushSeen'
  BY <1>0, <1>4, <1>5 DEF FlushSeen, Working
<1>8. NoReplyAfterFlush'
  <2>1. \A i \in DOMAIN out : reqs'[out[i]] = reqs[out[i]]
    BY <1>4, NumberFacts DEF Answered
  <2> QED BY <1>0, <1>5, <2>1 DEF NoReplyAfterFlush
<1>9. RequestHeld'
  <2>1. ASSUME NEW m \in 1 .. rd
        PROVE  FlushesOf(m) \subseteq FlushesOf(m)'
    BY <1>3, NumberFacts DEF FlushesOf
  <2>2. \A m : InHand(m)' = InHand(m) /\ Held(m)' = Held(m)
    BY <1>5 DEF InHand, Held, WillSee
  <2> QED BY <1>0, <1>4, <1>5, <2>1, <2>2 DEF RequestHeld
<1> QED BY <1>6, <1>7, <1>8, <1>9 DEF FlushInv

LEMMA InitFlush == Init => FlushInv
<1> SUFFICES ASSUME Init PROVE FlushInv
  OBVIOUS
<1>1. TagsTrue /\ NoReplyAfterFlush
  BY DEF Init, TagsTrue, NoReplyAfterFlush, Working, None
<1>2. FlushSeen /\ RequestHeld
  BY DEF Init, FlushSeen, RequestHeld
<1> QED BY <1>1, <1>2 DEF FlushInv

LEMMA MainStepFlush ==
  ASSUME OwnInv, FlushInv, MainStep
  PROVE  FlushInv'
<1>0. TypeOK /\ main.buf \in Bufs /\ work \in [Bufs -> Buffer]
  BY DEF OwnInv, TypeOK
<1>1. main.at = "call" => rd \in 1 .. Len(reqs)
  BY NumberFacts DEF OwnInv, MainFirst
<1>2. CASE Inline \/ Xversion
  <2>1. /\ main.at = "call" /\ reqs[rd].kind # "flush" /\ Reply(rd) /\ NextMessage
        /\ work' = [work EXCEPT ![main.buf].busy = FALSE] \/ work' = work
        /\ UNCHANGED <<reqs, rd, rcv, procs, slave>>
    BY <1>2 DEF Inline, Xversion, Calling
  <2>2. BusyBut(main.buf)
    BY <1>0, <2>1, GivenBack DEF BusyBut
  <2>3. \A s \in Slaves : Working(s) => work[slave[s].buf].req # reqs[rd].victim
    BY <1>1, <2>1, NumberFacts DEF OwnInv, Victims
  <2> QED BY <2>1, <2>2, <2>3, MainAnswersFlush
<1>3. CASE XflushReply
  <2>1. /\ main.at = "call" /\ reqs[rd].kind = "flush" /\ Reply(rd) /\ NextMessage
        /\ FlushTargets = {}
        /\ work' = [work EXCEPT ![main.buf].busy = FALSE]
        /\ UNCHANGED <<reqs, rd, rcv, procs, slave>>
    BY <1>3 DEF XflushReply, Calling
  <2>2. BusyBut(main.buf)
    BY <1>0, <2>1, GivenBack
  <2>3. \A s \in Slaves : Working(s) => work[slave[s].buf].req # reqs[rd].victim
    BY <2>1, TargetsTrue
  <2> QED BY <2>1, <2>2, <2>3, MainAnswersFlush
<1>4. CASE XflushFind
  <2>1. /\ main.at = "call" /\ reqs[rd].kind = "flush" /\ FlushTargets # {}
        /\ main' = [main EXCEPT !.at = "mark", !.to = Min(FlushTargets)]
        /\ UNCHANGED <<reqs, rd, out, rcv, work, procs, slave>>
    BY <1>4 DEF XflushFind, Calling
  <2>2. FlushTargets \in SUBSET Nat /\ FlushTargets \subseteq Bufs
    BY KindsAssumption DEF FlushTargets, Bufs
  <2>3. Min(FlushTargets) \in FlushTargets
    BY <2>1, <2>2, MinIn
  <2>4. main'.at = "mark" /\ main'.to = Min(FlushTargets)
    BY <1>0, <2>1 DEF TypeOK
  <2>5. main'.to \in Bufs /\ work[main'.to].req = reqs[rd].victim
    BY <2>1, <2>2, <2>3, <2>4, TargetsTrue
  <2> QED BY <2>1, <2>4, <2>5, GoesFlush DEF Working, WillSee
<1>5. CASE NoBuffers \/ TooManyProcs
  <2>1. /\ main.at = "getsbuf" \/ (main.at = "call" /\ reqs[rd].kind = "io")
        /\ main' = [main EXCEPT !.at = "dead"]
        /\ UNCHANGED <<reqs, rd, out, rcv, work, procs, slave>>
    BY <1>5 DEF NoBuffers, TooManyProcs, Calling
  <2>2. main'.at = "dead"
    BY <1>0, <2>1 DEF TypeOK
  <2> QED BY <2>1, <2>2, GoesFlush DEF Working, WillSee
<1>6. CASE SlaveNew
  <2>1. UNCHANGED <<reqs, rd, out, work, main, slave>> /\ main.at = "call"
    BY <1>6 DEF SlaveNew, Calling
  <2> QED BY <2>1, GoesFlush DEF Working, WillSee
<1>7. CASE SlaveChoose
  <2>1. PICK s : /\ main.at = "call" /\ reqs[rd].kind = "io"
                 /\ work' = [work EXCEPT ![main.buf].pid = s]
                 /\ slave' = [slave EXCEPT ![s].busy = TRUE]
                 /\ main' = [main EXCEPT !.at = "give", !.to = s]
                 /\ UNCHANGED <<reqs, rd, out, rcv, procs>>
    BY <1>7 DEF SlaveChoose, Calling
  <2>2. main'.at = "give" /\ main'.buf = main.buf
    BY <1>0, <2>1 DEF TypeOK
  <2>3. \A c \in Bufs : /\ work'[c].req = work[c].req /\ work'[c].tag = work[c].tag
                        /\ work'[c].flush = work[c].flush
    BY <1>0, <2>1 DEF Buffer
  <2>4. \A t \in Slaves : slave'[t].at = slave[t].at /\ slave'[t].buf = slave[t].buf
    BY <1>0, <2>1 DEF TypeOK
  <2> QED BY <2>1, <2>2, <2>3, <2>4, GoesFlush DEF Working, WillSee
<1> QED BY <1>2, <1>3, <1>4, <1>5, <1>6, <1>7, GetsbufFlush, ReadFlush, XflushMarkFlush,
           RendezvousFlush DEF MainStep

LEMMA SlaveStepFlush ==
  ASSUME OwnInv, FlushInv, NEW s \in Slaves, SlaveStep(s)
  PROVE  FlushInv'
<1>0. TypeOK /\ TagsTrue
  BY DEF OwnInv, FlushInv
<1>1. CASE SlaveStart(s) \/ SlaveTry(s) \/ SlaveTest(s)
  <2>1. PICK l \in {"try", "io", "test", "flushme", "free"} :
          /\ WillSee(s) /\ SlaveGoto(s, l)
          /\ l \in {"try", "io"} => Working(s)
          /\ l \in {"test", "flushme"} => Flushed(s)
          /\ l = "free" => ~Flushed(s) /\ ~Working(s)
          /\ UNCHANGED <<reqs, rd, out, rcv, work, main, procs>>
    BY <1>1 DEF SlaveStart, SlaveTry, SlaveTest, SlaveAt, WillSee, Working
  <2> QED BY <2>1, GoesOnFlush
<1>2. CASE SlaveBadfid(s) \/ SlaveReply(s)
  <2>1. /\ Working(s) /\ SlaveGoto(s, "test") /\ Reply(work[slave[s].buf].req)
        /\ UNCHANGED <<reqs, rd, rcv, work, main, procs>>
    BY <1>2 DEF SlaveBadfid, SlaveReply, SlaveAt, Working
  <2> QED BY <2>1, SlaveAnswersFlush
<1>3. CASE SlaveFree(s)
  <2>1. /\ slave[s].at = "free" /\ SlaveGoto(s, "gap")
        /\ work' = [work EXCEPT ![slave[s].buf].busy = FALSE]
        /\ UNCHANGED <<reqs, rd, out, rcv, main, procs>>
    BY <1>3 DEF SlaveFree, SlaveAt
  <2>2. BusyBut(slave[s].buf)
    BY <1>0, <2>1, NumberFacts, GivenBack
  <2>3. slave'[s].at = "gap" /\ \A t \in Slaves \ {s} : slave'[t] = slave[t]
    BY <1>0, <2>1, Goes DEF SlavePlaces
  <2>4. \A t \in Slaves : /\ Working(t)' <=> Working(t)
                          /\ WillSee(t)' <=> WillSee(t)
                          /\ WillSee(t) => slave'[t].buf = slave[t].buf
    BY <2>1, <2>3 DEF Working, WillSee
  <2>5. \A c \in Bufs : /\ work'[c].req = work[c].req /\ work'[c].tag = work[c].tag
                        /\ work'[c].flush = work[c].flush
    BY <2>2 DEF BusyBut
  <2> QED BY <1>0, <2>1, <2>4, <2>5, GoesFlush DEF TagsTrue, OwnInv, Owned
<1>4. CASE SlaveIdle(s)
  <2>1. /\ slave[s].at = "gap"
        /\ slave' = [slave EXCEPT ![s] = [busy |-> FALSE, buf |-> 0, at |-> "idle"]]
        /\ UNCHANGED <<reqs, rd, out, rcv, work, main, procs>>
    BY <1>4 DEF SlaveIdle, SlaveAt
  <2>2. slave'[s].at = "idle" /\ \A t \in Slaves \ {s} : slave'[t] = slave[t]
    BY <1>0, <2>1 DEF TypeOK
  <2>3. \A t \in Slaves : /\ Working(t)' <=> Working(t)
                          /\ WillSee(t)' <=> WillSee(t)
                          /\ WillSee(t) => slave'[t].buf = slave[t].buf
    BY <2>1, <2>2 DEF Working, WillSee
  <2> QED BY <1>0, <2>1, <2>3, GoesFlush DEF TagsTrue, OwnInv, Owned
<1> QED BY <1>1, <1>2, <1>3, <1>4, SlaveFlushFlush DEF SlaveStep

LEMMA NextFlush ==
  ASSUME ReuseTags = FALSE
  PROVE  OwnInv /\ FlushInv /\ [Next]_vars => FlushInv'
<1> SUFFICES ASSUME OwnInv, FlushInv, [Next]_vars PROVE FlushInv'
  OBVIOUS
<1>1. CASE UNCHANGED vars \/ ClientReceive
  <2>1. UNCHANGED <<reqs, rd, out, work, main, slave>>
    BY <1>1 DEF vars, ClientReceive
  <2> QED BY <2>1, GoesFlush DEF Working, WillSee, FlushInv, TagsTrue, OwnInv, Owned
<1> QED BY <1>1, ClientSendFlush, MainStepFlush, SlaveStepFlush DEF Next

THEOREM SpecFlush ==
  ASSUME ReuseTags = FALSE
  PROVE  Spec => [](OwnInv /\ FlushInv)
<1>1. OwnInv /\ FlushInv /\ [Next]_vars => FlushInv'
  BY NextFlush
<1> QED BY <1>1, InitFlush, SpecOwn, PTL DEF Spec

\* A client that uses no tag twice gets no reply to a request after the reply
\* to a flush of it, whichever of main and the slaves sent which.
THEOREM ExportfsNoReplyAfterFlush ==
  ASSUME ReuseTags = FALSE
  PROVE  Spec => []NoReplyAfterFlush
<1>1. FlushInv => NoReplyAfterFlush
  BY DEF FlushInv
<1> QED BY <1>1, SpecFlush, PTL

\* The flush of a buffer whose slave has still to look at it will be answered.
LEMMA HeldKept ==
  ASSUME OwnInv, NEW f, Held(f)
  PROVE  Kept(f)
<1>1. PICK s \in Slaves : WillSee(s) /\ work[slave[s].buf].flush = f
  BY DEF Held
<1>2. slave[s].buf \in Bufs /\ work[slave[s].buf].busy
  BY <1>1, NumberFacts DEF OwnInv, Owned, WillSee
<1> QED BY <1>1, <1>2 DEF Kept

\* No request that was read is forgotten: it is answered or worked on, or a
\* flush of it is answered or in a buffer whose slave will see it.
THEOREM ExportfsRequestKept ==
  ASSUME ReuseTags = FALSE
  PROVE  Spec => []RequestKept
<1>1. OwnInv /\ FlushInv => RequestKept
  <2> SUFFICES ASSUME OwnInv, RequestHeld PROVE RequestKept
    BY DEF FlushInv
  <2> QED BY HeldKept DEF RequestHeld, RequestKept
<1> QED BY <1>1, SpecFlush, PTL

\* A flush is dropped only when another flush of the same request took its
\* place or the request itself was answered.
THEOREM ExportfsFlushSettled ==
  ASSUME ReuseTags = FALSE
  PROVE  Spec => []FlushSettled
<1>1. OwnInv /\ FlushInv => FlushSettled
  <2> SUFFICES ASSUME OwnInv, FlushInv, main.at # "dead",
                      NEW f \in 1 .. rd, reqs[f].kind = "flush", ~Kept(f),
                      reqs[f].victim \notin Answered
               PROVE  \E g \in FlushesOf(reqs[f].victim) : g \in Answered \/ Kept(g)
    BY DEF FlushSettled
  <2>1. f \in 1 .. Len(reqs)
    BY NumberFacts
  <2>2. PICK v \in 1 .. rd : v = reqs[f].victim /\ v # rd /\ reqs[v].kind # "flush"
    <3>1. reqs[f].victim # 0
      BY <2>1, NumberFacts DEF OwnInv, Victims
    <3> QED BY <2>1, <3>1, NumberFacts
  <2>3. InHand(v) \/ \E g \in FlushesOf(v) : g \in Answered \/ Held(g)
    BY <2>2 DEF FlushInv, RequestHeld
  <2>4. CASE \E g \in FlushesOf(v) : g \in Answered \/ Held(g)
    BY <2>2, <2>4, HeldKept
  <2>5. ASSUME NEW s \in Slaves, Working(s), work[slave[s].buf].req = v
        PROVE  \E g \in FlushesOf(v) : Kept(g)
    <3>1. work[slave[s].buf].flush # 0
      BY <2>2, <2>5 DEF FlushInv, FlushSeen, Kept
    <3>2. PICK g \in 1 .. Len(reqs) : g = work[slave[s].buf].flush /\ reqs[g].victim = v
      BY <2>5, <3>1, NumberFacts DEF FlushInv, TagsTrue
    <3>3. Held(g)
      BY <2>5, <3>2 DEF Held, WillSee, Working
    <3>4. g \in FlushesOf(v)
      BY <3>2, NumberFacts DEF FlushesOf
    <3> QED BY <3>3, <3>4, HeldKept
  <2>6. CASE InHand(v)
    BY <2>2, <2>5, <2>6 DEF InHand, Working
  <2> QED BY <2>2, <2>3, <2>4, <2>6
<1> QED BY <1>1, SpecFlush, PTL
=============================================================================
