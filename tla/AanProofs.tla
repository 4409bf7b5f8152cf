------------------------------ MODULE AanProofs ------------------------------
(***************************************************************************)
(* aan loses nothing that the other end has not received, and the two      *)
(* programs see a reliable pipe, for any number of pieces, of breaks and   *)
(* of messages lost by them.  The lemmas on lists of messages serve both   *)
(* directions; then each action keeps IInv, and each implements a step of  *)
(* ReliablePipe or none.                                                   *)
(***************************************************************************)
EXTENDS Aan, SequenceTheorems, TLAPS

-----------------------------------------------------------------------------
\* Lists of messages.

\* The indices of a list of messages, and what it holds.
LEMMA ListOf ==
  ASSUME NEW bs \in Seq(Msg)
  PROVE  /\ Len(bs) \in Nat
         /\ DOMAIN bs = 1 .. Len(bs)
         /\ \A i \in DOMAIN bs : /\ bs[i] \in Msg
                                 /\ bs[i].msg \in Int /\ bs[i].msg >= Sync
                                 /\ bs[i].acked \in Nat /\ bs[i].data \in Nat
<1>1. Len(bs) \in Nat /\ DOMAIN bs = 1 .. Len(bs)
  OBVIOUS
<1>2. ASSUME NEW i \in DOMAIN bs
      PROVE  /\ bs[i] \in Msg
             /\ bs[i].msg \in Int /\ bs[i].msg >= Sync
             /\ bs[i].acked \in Nat /\ bs[i].data \in Nat
  <2>1. bs[i] \in Msg
    BY <1>1
  <2> QED  BY <2>1 DEF Msg, Sync
<1> QED  BY <1>1, <1>2

\* The list behind its head.
LEMMA TailOf ==
  ASSUME NEW bs \in Seq(Msg), bs # <<>>
  PROVE  /\ Tail(bs) \in Seq(Msg)
         /\ Head(bs) = bs[1] /\ bs[1] \in Msg /\ 1 \in DOMAIN bs
         /\ Len(bs) > 0
         /\ Len(Tail(bs)) = Len(bs) - 1
         /\ DOMAIN Tail(bs) = 1 .. Len(bs) - 1
         /\ \A i \in 1 .. Len(bs) - 1 : i + 1 \in DOMAIN bs /\ Tail(bs)[i] = bs[i + 1]
<1>1. Len(bs) \in Nat /\ Len(bs) > 0 /\ DOMAIN bs = 1 .. Len(bs)
  OBVIOUS
<1>2. Tail(bs) \in Seq(Msg) /\ Len(Tail(bs)) = Len(bs) - 1
  OBVIOUS
<1>3. \A i \in 1 .. Len(bs) - 1 : i + 1 \in DOMAIN bs /\ Tail(bs)[i] = bs[i + 1]
  BY <1>1
<1> QED  BY <1>1, <1>2, <1>3

\* A message at the end of a list.
LEMMA AppendOf ==
  ASSUME NEW bs \in Seq(Msg), NEW b \in Msg
  PROVE  /\ Append(bs, b) \in Seq(Msg)
         /\ Len(Append(bs, b)) = Len(bs) + 1
         /\ DOMAIN Append(bs, b) = 1 .. Len(bs) + 1
         /\ \A i \in DOMAIN bs : Append(bs, b)[i] = bs[i]
         /\ Append(bs, b)[Len(bs) + 1] = b
  OBVIOUS

\* A stretch of a list.
LEMMA StretchOf ==
  ASSUME NEW bs \in Seq(Msg), NEW m \in 1 .. Len(bs) + 1, NEW n \in 0 .. Len(bs), m <= n + 1
  PROVE  /\ SubSeq(bs, m, n) \in Seq(Msg)
         /\ Len(SubSeq(bs, m, n)) = n - m + 1
         /\ DOMAIN SubSeq(bs, m, n) = 1 .. n - m + 1
         /\ \A i \in 1 .. n - m + 1 :
              i + m - 1 \in DOMAIN bs /\ SubSeq(bs, m, n)[i] = bs[i + m - 1]
<1>1. Len(bs) \in Nat /\ DOMAIN bs = 1 .. Len(bs) /\ m \in Int /\ n \in Int
  OBVIOUS
<1>2. \A i \in m .. n : bs[i] \in Msg
  BY <1>1
<1>3. /\ SubSeq(bs, m, n) \in Seq(Msg)
      /\ Len(SubSeq(bs, m, n)) = n - m + 1
      /\ DOMAIN SubSeq(bs, m, n) = 1 .. n - m + 1
  BY <1>1, <1>2, SubSeqProperties
<1>4. \A i \in 1 .. n - m + 1 : SubSeq(bs, m, n)[i] = bs[m + i - 1]
  BY <1>1, <1>2, SubSeqProperties
<1>5. \A i \in 1 .. n - m + 1 : i + m - 1 \in DOMAIN bs /\ m + i - 1 = i + m - 1
  BY <1>1
<1> QED  BY <1>3, <1>4, <1>5

\* A list sent again: only what its messages acknowledge is new.
LEMMA RestampedOf ==
  ASSUME NEW bs \in Seq(Msg), NEW n \in Nat
  PROVE  /\ Restamped(bs, n) \in Seq(Msg)
         /\ Len(Restamped(bs, n)) = Len(bs)
         /\ DOMAIN Restamped(bs, n) = DOMAIN bs
         /\ \A i \in DOMAIN bs : /\ Restamped(bs, n)[i].msg = bs[i].msg
                                 /\ Restamped(bs, n)[i].data = bs[i].data
                                 /\ Restamped(bs, n)[i].acked = n
<1> DEFINE rs == Restamped(bs, n)
<1>1. Len(bs) \in Nat /\ DOMAIN bs = 1 .. Len(bs) /\ DOMAIN rs = DOMAIN bs
  BY ListOf DEF Restamped
<1>2. ASSUME NEW i \in DOMAIN bs
      PROVE  /\ rs[i] \in Msg
             /\ rs[i].msg = bs[i].msg /\ rs[i].data = bs[i].data /\ rs[i].acked = n
  <2>1. bs[i] \in Msg
    BY ListOf
  <2>2. rs[i] = [bs[i] EXCEPT !.acked = n]
    BY DEF Restamped
  <2> QED  BY <2>1, <2>2 DEF Msg
<1>3. rs \in [1 .. Len(bs) -> Msg]
  BY <1>1, <1>2 DEF Restamped
<1>4. rs \in Seq(Msg) /\ Len(rs) = Len(bs)
  BY <1>1, <1>3
<1> QED  BY <1>1, <1>2, <1>4

-----------------------------------------------------------------------------
\* What messages say.

\* A list that meant something goes on meaning it when more is written, as
\* long as nothing but pieces was.
LEMMA MeanGrows ==
  ASSUME NEW bs \in Seq(Msg), NEW top \in Nat, NEW fed \in Nat, NEW r \in Nat,
         NEW top2 \in Nat, NEW fed2 \in Nat, NEW r2 \in Nat,
         AllMean(bs, top, fed, r),
         top <= top2, fed <= fed2, r <= r2, fed = fed2 \/ top = fed
  PROVE  AllMean(bs, top2, fed2, r2)
<1>1. ASSUME NEW i \in DOMAIN bs
      PROVE  Means(bs[i], top2, fed2, r2)
  <2>1. Means(bs[i], top, fed, r)
    BY DEF AllMean
  <2> QED  BY <2>1, ListOf DEF Means, Sync
<1> QED  BY <1>1 DEF AllMean

\* The head of such a list, and the rest of it.
LEMMA MeanTail ==
  ASSUME NEW bs \in Seq(Msg), bs # <<>>, NEW top, NEW fed, NEW r,
         AllMean(bs, top, fed, r)
  PROVE  Means(Head(bs), top, fed, r) /\ AllMean(Tail(bs), top, fed, r)
<1>1. ASSUME NEW i \in DOMAIN Tail(bs)
      PROVE  Means(Tail(bs)[i], top, fed, r)
  <2>1. i + 1 \in DOMAIN bs /\ Tail(bs)[i] = bs[i + 1]
    BY TailOf
  <2> QED  BY <2>1 DEF AllMean
<1>2. Means(Head(bs), top, fed, r)
  BY TailOf DEF AllMean
<1> QED  BY <1>1, <1>2 DEF AllMean

\* One more message.
LEMMA MeanAppend ==
  ASSUME NEW bs \in Seq(Msg), NEW b \in Msg, NEW top, NEW fed, NEW r,
         AllMean(bs, top, fed, r), Means(b, top, fed, r)
  PROVE  AllMean(Append(bs, b), top, fed, r)
<1>1. ASSUME NEW i \in DOMAIN Append(bs, b)
      PROVE  Means(Append(bs, b)[i], top, fed, r)
  <2>1. i \in DOMAIN bs \/ i = Len(bs) + 1
    BY AppendOf, ListOf
  <2>2. CASE i \in DOMAIN bs
    <3>1. Append(bs, b)[i] = bs[i]
      BY <2>2, AppendOf
    <3> QED  BY <2>2, <3>1 DEF AllMean
  <2>3. CASE i = Len(bs) + 1
    <3>1. Append(bs, b)[i] = b
      BY <2>3, AppendOf
    <3> QED  BY <3>1
  <2> QED  BY <2>1, <2>2, <2>3
<1> QED  BY <1>1 DEF AllMean

\* A stretch of it.
LEMMA MeanStretch ==
  ASSUME NEW bs \in Seq(Msg), NEW m \in 1 .. Len(bs) + 1, NEW n \in 0 .. Len(bs), m <= n + 1,
         NEW top, NEW fed, NEW r, AllMean(bs, top, fed, r)
  PROVE  AllMean(SubSeq(bs, m, n), top, fed, r)
<1>1. ASSUME NEW i \in DOMAIN SubSeq(bs, m, n)
      PROVE  Means(SubSeq(bs, m, n)[i], top, fed, r)
  <2>1. i + m - 1 \in DOMAIN bs /\ SubSeq(bs, m, n)[i] = bs[i + m - 1]
    BY StretchOf
  <2> QED  BY <2>1 DEF AllMean
<1> QED  BY <1>1 DEF AllMean

\* The list sent again, with what has been received by now.
LEMMA MeanRestamped ==
  ASSUME NEW bs \in Seq(Msg), NEW n \in Nat, NEW top, NEW fed, NEW r,
         AllMean(bs, top, fed, r)
  PROVE  AllMean(Restamped(bs, n), top, fed, n)
<1>1. ASSUME NEW i \in DOMAIN bs
      PROVE  Means(Restamped(bs, n)[i], top, fed, n)
  <2>1. Means(bs[i], top, fed, r)
    BY DEF AllMean
  <2>2. n <= n
    OBVIOUS
  <2> QED  BY <2>1, <2>2, RestampedOf DEF Means
<1> QED  BY <1>1, RestampedOf DEF AllMean

-----------------------------------------------------------------------------
\* Consecutive numbers.

\* The next number at the end.
LEMMA NumberedAppend ==
  ASSUME NEW bs \in Seq(Msg), NEW b \in Msg, NEW first \in Nat,
         Numbered(bs, first), b.msg = first + Len(bs)
  PROVE  Numbered(Append(bs, b), first)
<1>1. ASSUME NEW i \in DOMAIN Append(bs, b)
      PROVE  Append(bs, b)[i].msg = first + i - 1
  <2>1. i \in DOMAIN bs \/ i = Len(bs) + 1
    BY AppendOf, ListOf
  <2>2. CASE i \in DOMAIN bs
    <3>1. Append(bs, b)[i] = bs[i]
      BY <2>2, AppendOf
    <3> QED  BY <2>2, <3>1 DEF Numbered
  <2>3. CASE i = Len(bs) + 1
    <3>1. Append(bs, b)[i] = b
      BY <2>3, AppendOf
    <3> QED  BY <2>3, <3>1, ListOf
  <2> QED  BY <2>1, <2>2, <2>3
<1> QED  BY <1>1 DEF Numbered

\* What is left when the first k messages are freed.
LEMMA NumberedStretch ==
  ASSUME NEW bs \in Seq(Msg), NEW first \in Nat, NEW k \in 0 .. Len(bs),
         Numbered(bs, first)
  PROVE  /\ SubSeq(bs, k + 1, Len(bs)) \in Seq(Msg)
         /\ Len(SubSeq(bs, k + 1, Len(bs))) = Len(bs) - k
         /\ Numbered(SubSeq(bs, k + 1, Len(bs)), first + k)
<1> DEFINE s == SubSeq(bs, k + 1, Len(bs))
<1>0. /\ Len(bs) \in Nat /\ k \in Nat
      /\ k + 1 \in 1 .. Len(bs) + 1 /\ Len(bs) \in 0 .. Len(bs) /\ k + 1 <= Len(bs) + 1
  BY ListOf
<1>1. /\ s \in Seq(Msg)
      /\ Len(s) = Len(bs) - (k + 1) + 1
      /\ DOMAIN s = 1 .. Len(bs) - (k + 1) + 1
      /\ \A i \in 1 .. Len(bs) - (k + 1) + 1 :
           i + (k + 1) - 1 \in DOMAIN bs /\ s[i] = bs[i + (k + 1) - 1]
  BY <1>0, StretchOf
<1> HIDE DEF s
<1>2. ASSUME NEW i \in DOMAIN s
      PROVE  s[i].msg = first + k + i - 1
  <2> DEFINE j == i + (k + 1) - 1
  <2>1. j \in DOMAIN bs /\ s[i] = bs[j] /\ i \in Nat
    BY <1>0, <1>1
  <2>2. bs[j].msg = first + j - 1
    BY <2>1 DEF Numbered
  <2> QED  BY <1>0, <2>1, <2>2
<1>3. Len(s) = Len(bs) - k
  BY <1>0, <1>1
<1>4. Numbered(s, first + k)
  BY <1>2 DEF Numbered
<1> QED  BY <1>1, <1>3, <1>4 DEF s

\* The list sent again has its numbers.
LEMMA NumberedRestamped ==
  ASSUME NEW bs \in Seq(Msg), NEW n \in Nat, NEW first, Numbered(bs, first)
  PROVE  Numbered(Restamped(bs, n), first)
  BY RestampedOf DEF Numbered

-----------------------------------------------------------------------------
\* No gaps.

\* The head of a chained list is old or in turn; once it is dealt with, the
\* rest is chained, and whatever could follow the list still can.
LEMMA ChainTail ==
  ASSUME NEW bs \in Seq(Msg), bs # <<>>, NEW n \in Nat, NEW n2 \in Nat,
         Chained(bs, n), n <= n2, Head(bs).msg < n2
  PROVE  /\ Chained(Tail(bs), n2)
         /\ \A top \in Nat : Follows(bs, n, top) => Follows(Tail(bs), n2, top)
<1>1. ASSUME NEW i \in DOMAIN Tail(bs)
      PROVE  Tail(bs)[i].msg <= n2
               \/ \E j \in 1 .. i - 1 : Tail(bs)[j].msg = Tail(bs)[i].msg - 1
  <2>1. /\ i \in 1 .. Len(bs) - 1 /\ i + 1 \in DOMAIN bs /\ Tail(bs)[i] = bs[i + 1]
        /\ bs[i + 1].msg \in Int /\ Head(bs).msg \in Int /\ i \in Nat /\ Len(bs) \in Nat
    BY TailOf, ListOf
  <2>2. CASE bs[i + 1].msg <= n
    BY <2>1, <2>2
  <2>3. CASE \E j \in 1 .. (i + 1) - 1 : bs[j].msg = bs[i + 1].msg - 1
    <3>1. PICK j \in 1 .. (i + 1) - 1 : bs[j].msg = bs[i + 1].msg - 1
      BY <2>3
    <3>2. CASE j = 1
      <4>1. Head(bs) = bs[1]
        BY TailOf
      <4> QED  BY <2>1, <3>1, <3>2, <4>1
    <3>3. CASE j # 1
      <4>1. j - 1 \in 1 .. Len(bs) - 1 /\ j - 1 \in 1 .. i - 1 /\ (j - 1) + 1 = j
        BY <2>1, <3>3
      <4>2. Tail(bs)[j - 1] = bs[j]
        BY <4>1, TailOf
      <4> QED  BY <2>1, <3>1, <4>1, <4>2
    <3> QED  BY <3>2, <3>3
  <2> QED  BY <2>1, <2>2, <2>3 DEF Chained
<1>2. ASSUME NEW top \in Nat, Follows(bs, n, top)
      PROVE  Follows(Tail(bs), n2, top)
  <2>1. CASE top <= n
    BY <2>1 DEF Follows
  <2>2. CASE \E i \in DOMAIN bs : bs[i].msg = top - 1
    <3>1. PICK i \in DOMAIN bs : bs[i].msg = top - 1
      BY <2>2
    <3>2. CASE i = 1
      <4>1. Head(bs) = bs[1]
        BY TailOf
      <4> QED  BY <3>1, <3>2, <4>1 DEF Follows
    <3>3. CASE i # 1
      <4>1. i - 1 \in 1 .. Len(bs) - 1 /\ (i - 1) + 1 = i
        BY <3>3, ListOf
      <4>2. Tail(bs)[i - 1] = bs[i] /\ i - 1 \in DOMAIN Tail(bs)
        BY <4>1, TailOf
      <4> QED  BY <3>1, <4>2 DEF Follows
    <3> QED  BY <3>2, <3>3
  <2> QED  BY <1>2, <2>1, <2>2 DEF Follows
<1> QED  BY <1>1, <1>2 DEF Chained

\* A message whose turn it is goes to the end.
LEMMA ChainAppend ==
  ASSUME NEW bs \in Seq(Msg), NEW b \in Msg, NEW n \in Nat, NEW top \in Nat,
         Chained(bs, n), Follows(bs, n, top), b.msg = top
  PROVE  /\ Chained(Append(bs, b), n)
         /\ Follows(Append(bs, b), n, top + 1)
<1>0. /\ Len(bs) \in Nat /\ DOMAIN bs = 1 .. Len(bs)
      /\ DOMAIN Append(bs, b) = 1 .. Len(bs) + 1
      /\ \A i \in DOMAIN bs : Append(bs, b)[i] = bs[i]
      /\ Append(bs, b)[Len(bs) + 1] = b
  BY ListOf, AppendOf
<1>1. ASSUME NEW i \in DOMAIN Append(bs, b)
      PROVE  Append(bs, b)[i].msg <= n
               \/ \E j \in 1 .. i - 1 : Append(bs, b)[j].msg = Append(bs, b)[i].msg - 1
  <2>1. CASE i \in DOMAIN bs
    <3>1. bs[i].msg <= n \/ \E j \in 1 .. i - 1 : bs[j].msg = bs[i].msg - 1
      BY <2>1 DEF Chained
    <3>2. \A j \in 1 .. i - 1 : j \in DOMAIN bs
      BY <1>0, <2>1
    <3> QED  BY <1>0, <2>1, <3>1, <3>2
  <2>2. CASE i = Len(bs) + 1
    <3>1. top <= n \/ \E j \in DOMAIN bs : bs[j].msg = top - 1
      BY DEF Follows
    <3>2. \A j \in DOMAIN bs : j \in 1 .. i - 1
      BY <1>0, <2>2
    <3> QED  BY <1>0, <2>2, <3>1, <3>2
  <2> QED  BY <1>0, <2>1, <2>2
<1>2. Append(bs, b)[Len(bs) + 1].msg = (top + 1) - 1 /\ Len(bs) + 1 \in DOMAIN Append(bs, b)
  BY <1>0
<1> QED  BY <1>1, <1>2 DEF Chained, Follows

\* A message without a number leaves no gap.
LEMMA ChainSync ==
  ASSUME NEW bs \in Seq(Msg), NEW b \in Msg, NEW n \in Nat, Chained(bs, n), b.msg = Sync
  PROVE  /\ Chained(Append(bs, b), n)
         /\ \A top \in Nat : Follows(bs, n, top) => Follows(Append(bs, b), n, top)
<1>0. /\ Len(bs) \in Nat /\ DOMAIN bs = 1 .. Len(bs)
      /\ DOMAIN Append(bs, b) = 1 .. Len(bs) + 1
      /\ \A i \in DOMAIN bs : Append(bs, b)[i] = bs[i]
      /\ Append(bs, b)[Len(bs) + 1] = b
  BY ListOf, AppendOf
<1>1. ASSUME NEW i \in DOMAIN Append(bs, b)
      PROVE  Append(bs, b)[i].msg <= n
               \/ \E j \in 1 .. i - 1 : Append(bs, b)[j].msg = Append(bs, b)[i].msg - 1
  <2>1. CASE i \in DOMAIN bs
    <3>1. bs[i].msg <= n \/ \E j \in 1 .. i - 1 : bs[j].msg = bs[i].msg - 1
      BY <2>1 DEF Chained
    <3>2. \A j \in 1 .. i - 1 : j \in DOMAIN bs
      BY <1>0, <2>1
    <3> QED  BY <1>0, <2>1, <3>1, <3>2
  <2>2. CASE i = Len(bs) + 1
    BY <1>0, <2>2 DEF Sync
  <2> QED  BY <1>0, <2>1, <2>2
<1>2. \A i \in DOMAIN bs : i \in DOMAIN Append(bs, b)
  BY <1>0
<1> QED  BY <1>0, <1>1, <1>2 DEF Chained, Follows

\* What is left of a chained list when its end is lost is chained.
LEMMA ChainPrefix ==
  ASSUME NEW bs \in Seq(Msg), NEW n \in Nat, NEW k \in 0 .. Len(bs), Chained(bs, n)
  PROVE  Chained(SubSeq(bs, 1, k), n)
<1> DEFINE s == SubSeq(bs, 1, k)
<1>0. Len(bs) \in Nat /\ k \in Nat /\ 1 \in 1 .. Len(bs) + 1 /\ 1 <= k + 1
  BY ListOf
<1>1. /\ DOMAIN s = 1 .. k - 1 + 1
      /\ \A i \in 1 .. k - 1 + 1 : i + 1 - 1 \in DOMAIN bs /\ s[i] = bs[i + 1 - 1]
  BY <1>0, StretchOf
<1>2. DOMAIN s = 1 .. k /\ \A i \in 1 .. k : i \in DOMAIN bs /\ s[i] = bs[i]
  BY <1>0, <1>1
<1> HIDE DEF s
<1>3. ASSUME NEW i \in DOMAIN s
      PROVE  s[i].msg <= n \/ \E j \in 1 .. i - 1 : s[j].msg = s[i].msg - 1
  <2>1. bs[i].msg <= n \/ \E j \in 1 .. i - 1 : bs[j].msg = bs[i].msg - 1
    BY <1>2 DEF Chained
  <2>2. \A j \in 1 .. i - 1 : j \in 1 .. k
    BY <1>0, <1>2
  <2> QED  BY <1>2, <2>1, <2>2
<1>4. Chained(s, n)
  BY <1>3 DEF Chained
<1> QED  BY <1>4 DEF s

\* A run of numbers that begins with one the other end received, or the next.
LEMMA ChainRun ==
  ASSUME NEW bs \in Seq(Msg), NEW n \in Nat, NEW first \in Nat,
         Numbered(bs, first), first <= n
  PROVE  /\ Chained(bs, n)
         /\ Follows(bs, n, first + Len(bs))
<1>0. Len(bs) \in Nat /\ DOMAIN bs = 1 .. Len(bs)
  BY ListOf
<1>1. ASSUME NEW i \in DOMAIN bs
      PROVE  bs[i].msg <= n \/ \E j \in 1 .. i - 1 : bs[j].msg = bs[i].msg - 1
  <2>1. CASE i = 1
    BY <2>1 DEF Numbered
  <2>2. CASE i # 1
    <3>1. i - 1 \in 1 .. i - 1 /\ i - 1 \in DOMAIN bs
      BY <1>0, <2>2
    <3>2. bs[i].msg = first + i - 1 /\ bs[i - 1].msg = first + (i - 1) - 1
      BY <3>1 DEF Numbered
    <3>3. bs[i - 1].msg = bs[i].msg - 1
      BY <1>0, <3>1, <3>2
    <3> QED  BY <3>1, <3>3
  <2> QED  BY <2>1, <2>2
<1>2. CASE Len(bs) = 0
  BY <1>1, <1>2 DEF Chained, Follows
<1>3. CASE Len(bs) # 0
  <2>1. Len(bs) \in DOMAIN bs
    BY <1>0, <1>3
  <2>2. bs[Len(bs)].msg = first + Len(bs) - 1
    BY <2>1 DEF Numbered
  <2> QED  BY <1>1, <2>1, <2>2 DEF Chained, Follows
<1> QED  BY <1>2, <1>3

\* The head of a chained list is the message in turn or an older one.
LEMMA ChainHead ==
  ASSUME NEW bs \in Seq(Msg), bs # <<>>, NEW n \in Nat, Chained(bs, n)
  PROVE  Head(bs).msg <= n
<1>1. 1 \in DOMAIN bs /\ Head(bs) = bs[1]
  BY TailOf
<1>2. bs[1].msg <= n \/ \E j \in 1 .. 1 - 1 : bs[j].msg = bs[1].msg - 1
  BY <1>1 DEF Chained
<1> QED  BY <1>1, <1>2

-----------------------------------------------------------------------------
\* Each action keeps the invariant.

\* The fields of the records, and the ranges of the counters.
LEMMA Typed ==
  ASSUME TypeOK
  PROVE  /\ net.up \in BOOLEAN /\ net.out \in Seq(Msg) /\ net.in \in Seq(Msg)
         /\ inmsg \in Nat /\ outmsg \in Nat /\ unacked \in Seq(Msg) /\ lastacked \in Nat
         /\ reader.b \in Msg /\ reader.b.acked \in Nat /\ reader.b.data \in Nat
         /\ app.fed \in Nat /\ app.closed \in BOOLEAN /\ app.eofs \in Nat
         /\ app.got \in Seq(Nat) /\ app.eof \in BOOLEAN
         /\ srv.inmsg \in Nat /\ srv.outmsg \in Nat /\ srv.unacked \in Seq(Msg)
         /\ srv.fed \in Nat /\ srv.closed \in BOOLEAN /\ srv.got \in Seq(Nat)
         /\ srv.eof \in BOOLEAN
<1>1. srv.inmsg \in Nat /\ srv.outmsg \in Nat /\ srv.unacked \in Seq(Msg)
      /\ srv.fed \in Nat /\ srv.closed \in BOOLEAN /\ srv.got \in Seq(Nat)
      /\ srv.eof \in BOOLEAN
  BY AanAssumption DEF TypeOK
<1>2. app.fed \in Nat /\ app.closed \in BOOLEAN /\ app.eofs \in Nat
      /\ app.got \in Seq(Nat) /\ app.eof \in BOOLEAN
  BY AanAssumption DEF TypeOK, Eofs
<1>3. net.up \in BOOLEAN /\ net.out \in Seq(Msg) /\ net.in \in Seq(Msg)
  BY DEF TypeOK
<1>4. reader.b \in Msg /\ unacked \in Seq(Msg)
  BY DEF TypeOK
<1>5. reader.b.acked \in Nat /\ reader.b.data \in Nat
  BY <1>4 DEF Msg
<1>6. inmsg \in Nat /\ outmsg \in Nat /\ lastacked \in Nat
  BY <1>1, AanAssumption DEF TypeOK, Eofs
<1> QED  BY <1>1, <1>2, <1>3, <1>4, <1>5, <1>6

\* Nothing is written, received or lost before the first dial is done.
LEMMA InitIInv == Init => IInv
<1> SUFFICES ASSUME Init
             PROVE  IInv
  OBVIOUS
<1>1. <<>> \in Seq(Msg) /\ <<>> \in Seq(Nat) /\ Len(<<>>) = 0 /\ DOMAIN <<>> = {}
  OBVIOUS
<1>2. NoMsg \in Msg /\ NoMsg.acked = 0
  BY DEF NoMsg, Message, Msg
<1>3. TypeOK
  BY <1>1, <1>2, AanAssumption DEF Init, TypeOK, Eofs
<1>4. Counted
  BY <1>1 DEF Init, Counted
<1>5. Kept
  BY <1>1 DEF Init, Kept, Numbered
<1>6. Meant
  BY <1>1, <1>2 DEF Init, Meant, AllMean
<1>7. NoGap
  BY <1>1 DEF Init, NoGap, Chained, Follows
<1>8. Passed
  BY <1>1 DEF Init, Passed, Holding
<1> QED  BY <1>3, <1>4, <1>5, <1>6, <1>7, <1>8 DEF IInv

\* A connection that breaks loses the end of what is under way: that leaves
\* no gap.
LEMMA BreakIInv == ASSUME IInv, Break PROVE IInv'
<1>0. TypeOK /\ Counted /\ Kept /\ Meant /\ NoGap /\ Passed
  BY DEF IInv
<1>1. PICK i \in 0 .. Len(net.out), j \in 0 .. Len(net.in) :
        net' = [up |-> FALSE, out |-> SubSeq(net.out, 1, i), in |-> SubSeq(net.in, 1, j)]
  BY DEF Break
<1>2. /\ net'.up = FALSE /\ net'.out = SubSeq(net.out, 1, i)
      /\ net'.in = SubSeq(net.in, 1, j)
      /\ UNCHANGED <<inmsg, outmsg, unacked, lastacked, writer, reader, app, srv>>
  BY <1>1 DEF Break, Client
<1>3. /\ net.out \in Seq(Msg) /\ net.in \in Seq(Msg)
      /\ Len(net.out) \in Nat /\ Len(net.in) \in Nat
  <2>1. net.out \in Seq(Msg) /\ net.in \in Seq(Msg)
    BY <1>0, Typed
  <2> QED  BY <2>1, ListOf
<1>4. /\ 1 \in 1 .. Len(net.out) + 1 /\ 1 <= i + 1
      /\ 1 \in 1 .. Len(net.in) + 1 /\ 1 <= j + 1
  BY <1>3
<1>5. net'.out \in Seq(Msg) /\ net'.in \in Seq(Msg)
  BY <1>2, <1>3, <1>4, StretchOf
<1>6. TypeOK'
  <2>1. breaks' \in 0 .. MaxBreaks
    BY <1>0, AanAssumption DEF Break, TypeOK
  <2>2. net' \in [up : BOOLEAN, out : Seq(Msg), in : Seq(Msg)]
    BY <1>1, <1>2, <1>5
  <2> QED  BY <1>0, <1>2, <2>1, <2>2 DEF TypeOK
<1>7. Counted'
  BY <1>0, <1>2 DEF Counted
<1>8. Kept'
  BY <1>0, <1>2 DEF Kept, Numbered
<1>9. Meant'
  <2>1. AllMean(net'.out, outmsg, app.fed, inmsg)
    BY <1>0, <1>2, <1>3, <1>4, MeanStretch DEF Meant
  <2>2. AllMean(net'.in, srv.outmsg, srv.fed, srv.inmsg)
    BY <1>0, <1>2, <1>3, <1>4, MeanStretch DEF Meant
  <2> QED  BY <1>0, <1>2, <2>1, <2>2 DEF Meant
<1>10. NoGap'
  <2>1. ~srv.eof => Chained(net'.out, srv.inmsg)
    BY <1>0, <1>2, <1>3, Typed, ChainPrefix DEF NoGap
  <2>2. Open => Chained(net'.in, inmsg)
    BY <1>0, <1>2, <1>3, Typed, ChainPrefix DEF NoGap
  <2> QED  BY <1>2, <2>1, <2>2 DEF NoGap, Open
<1>11. Passed'
  BY <1>0, <1>2 DEF Passed, Holding
<1> QED  BY <1>6, <1>7, <1>8, <1>9, <1>10, <1>11 DEF IInv

\* The program closes its end of the pipe.
LEMMA AppCloseIInv == ASSUME IInv, AppClose PROVE IInv'
<1>0. TypeOK /\ Counted /\ Kept /\ Meant /\ NoGap /\ Passed
  BY DEF IInv
<1>1. /\ app'.fed = app.fed /\ app'.closed = TRUE /\ app'.eofs = app.eofs
      /\ app'.got = app.got /\ app'.eof = app.eof
      /\ UNCHANGED <<net, breaks, inmsg, outmsg, unacked, lastacked, writer, reader, srv>>
  BY <1>0 DEF AppClose, Client, TypeOK
<1>2. TypeOK'
  BY <1>0, <1>1 DEF AppClose, TypeOK
<1>3. Counted'
  BY <1>0, <1>1 DEF Counted
<1>4. Kept'
  BY <1>0, <1>1 DEF Kept, Numbered
<1>5. Meant'
  BY <1>0, <1>1 DEF Meant
<1>6. NoGap'
  BY <1>0, <1>1 DEF NoGap, Open
<1>7. Passed'
  BY <1>0, <1>1 DEF Passed, Holding
<1> QED  BY <1>2, <1>3, <1>4, <1>5, <1>6, <1>7 DEF IInv

\* aanwriter's message gets the next number, is kept, and is under way if the
\* connection is up.
LEMMA AanwriteIInv ==
  ASSUME IInv, NEW d \in Nat, Aanwrite(d), TypeOK',
         app'.fed + app'.eofs = outmsg + 1,
         app'.fed = app.fed \/ (app'.fed = outmsg + 1 /\ app.fed = outmsg),
         d = IF outmsg < app'.fed THEN outmsg + 1 ELSE 0,
         app'.closed = app.closed, app'.got = app.got, app'.eof = app.eof,
         (app'.eofs > 0 \/ writer' = "gone") => app.closed
  PROVE  IInv'
<1>0. TypeOK /\ Counted /\ Kept /\ Meant /\ NoGap /\ Passed
  BY DEF IInv
<1> DEFINE b == Message(outmsg, inmsg, d)
<1>1. /\ outmsg' = outmsg + 1 /\ unacked' = Append(unacked, b)
      /\ net' = Written(b)
      /\ UNCHANGED <<breaks, inmsg, lastacked, reader, srv>>
  BY DEF Aanwrite
<1>2. /\ net'.up = net.up /\ net'.in = net.in
      /\ net'.out = IF net.up THEN Append(net.out, b) ELSE net.out
  BY <1>0, <1>1 DEF Written, TypeOK
<1>t. /\ outmsg \in Nat /\ inmsg \in Nat /\ lastacked \in Nat
      /\ unacked \in Seq(Msg) /\ net.out \in Seq(Msg)
      /\ app.fed \in Nat /\ srv.inmsg \in Nat /\ Len(unacked) \in Nat
  <2>1. /\ outmsg \in Nat /\ inmsg \in Nat /\ lastacked \in Nat
        /\ unacked \in Seq(Msg) /\ net.out \in Seq(Msg)
        /\ app.fed \in Nat /\ srv.inmsg \in Nat
    BY <1>0, Typed
  <2> QED  BY <2>1, ListOf
<1>3. /\ b \in Msg /\ b.msg = outmsg /\ b.acked = inmsg /\ b.data = d
  BY <1>t DEF Message, Msg
<1> HIDE DEF b
<1>4. app.fed <= app'.fed /\ app'.fed \in Nat
  <2>1. app.fed \in Nat /\ outmsg \in Nat
    BY <1>0, Typed
  <2> QED  BY <2>1
<1>5. Counted'
  <2>1. srv.inmsg <= app.fed
    BY <1>0 DEF Counted
  <2>2. srv.inmsg <= app'.fed
    BY <1>4, <1>t, <2>1
  <2> QED  BY <1>0, <1>1, <2>2 DEF Counted
<1>6. Kept'
  <2>1. /\ Len(unacked) = outmsg - lastacked /\ Numbered(unacked, lastacked)
        /\ b.msg = lastacked + Len(unacked)
    BY <1>0, <1>t, <1>3 DEF Kept
  <2>2. Len(Append(unacked, b)) = outmsg' - lastacked
    BY <1>1, <1>3, <1>t, <2>1, AppendOf
  <2>3. Numbered(Append(unacked, b), lastacked)
    BY <1>3, <1>t, <2>1, NumberedAppend
  <2> QED  BY <1>0, <1>1, <2>2, <2>3 DEF Kept
<1>7. Meant'
  <2>1. Means(b, outmsg', app'.fed, inmsg)
    BY <1>1, <1>3, <1>4, <1>t DEF Means
  <2>2. /\ AllMean(net.out, outmsg', app'.fed, inmsg)
        /\ AllMean(unacked, outmsg', app'.fed, inmsg)
    <3>1. /\ AllMean(net.out, outmsg, app.fed, inmsg)
          /\ AllMean(unacked, outmsg, app.fed, inmsg)
      BY <1>0 DEF Meant
    <3>2. /\ outmsg' \in Nat /\ outmsg <= outmsg' /\ inmsg <= inmsg
          /\ app.fed = app'.fed \/ outmsg = app.fed
      BY <1>1, <1>t
    <3> QED  BY <1>4, <1>t, <3>1, <3>2, MeanGrows
  <2>3. /\ AllMean(Append(net.out, b), outmsg', app'.fed, inmsg)
        /\ AllMean(Append(unacked, b), outmsg', app'.fed, inmsg)
    BY <1>3, <1>t, <2>1, <2>2, MeanAppend
  <2> QED  BY <1>0, <1>1, <1>2, <2>2, <2>3 DEF Meant
<1>8. NoGap'
  <2>1. ASSUME ~srv.eof, net.up
        PROVE  Chained(Append(net.out, b), srv.inmsg) /\ Follows(Append(net.out, b), srv.inmsg, outmsg')
    <3>1. Chained(net.out, srv.inmsg) /\ Follows(net.out, srv.inmsg, outmsg)
      BY <1>0, <2>1 DEF NoGap
    <3> QED  BY <1>1, <1>3, <1>t, <3>1, ChainAppend
  <2> QED  BY <1>0, <1>1, <1>2, <2>1 DEF NoGap, Open
<1>9. Passed'
  BY <1>0, <1>1 DEF Passed, Holding
<1> QED  BY <1>5, <1>6, <1>7, <1>8, <1>9 DEF IInv

\* The types after a message of aanwriter.
LEMMA AanwriteTypes ==
  ASSUME IInv, NEW d \in Nat, Aanwrite(d), app.fed + app.eofs < MaxOut + Eofs
  PROVE  /\ net' \in [up : BOOLEAN, out : Seq(Msg), in : Seq(Msg)]
         /\ outmsg' \in 0 .. MaxOut + Eofs
         /\ unacked' \in Seq(Msg)
<1>0. TypeOK /\ Counted
  BY DEF IInv
<1> DEFINE b == Message(outmsg, inmsg, d)
<1>t. outmsg \in Nat /\ inmsg \in Nat /\ unacked \in Seq(Msg) /\ net.out \in Seq(Msg)
  BY <1>0, Typed
<1>1. b \in Msg
  BY <1>t DEF Message, Msg
<1>2. outmsg' = outmsg + 1 /\ unacked' = Append(unacked, b) /\ net' = Written(b)
  BY DEF Aanwrite
<1> HIDE DEF b
<1>3. Append(net.out, b) \in Seq(Msg) /\ unacked' \in Seq(Msg)
  BY <1>1, <1>2, <1>t, AppendOf
<1>4. net' \in [up : BOOLEAN, out : Seq(Msg), in : Seq(Msg)]
  BY <1>0, <1>2, <1>3 DEF TypeOK, Written
<1>5. outmsg' \in 0 .. MaxOut + Eofs
  <2>1. outmsg = app.fed + app.eofs
    BY <1>0 DEF Counted
  <2> QED  BY <1>2, <1>t, <2>1, AanAssumption DEF Eofs
<1> QED  BY <1>3, <1>4, <1>5

\* aanwriter has a piece.
LEMMA AanwriterIInv == ASSUME IInv, Aanwriter PROVE IInv'
<1>0. TypeOK /\ Counted
  BY DEF IInv
<1>1. /\ ~app.closed /\ app.fed < MaxOut /\ Aanwrite(app.fed + 1)
      /\ app' = [app EXCEPT !.fed = @ + 1] /\ writer' = writer
  BY DEF Aanwriter
<1>2. /\ app'.fed = app.fed + 1 /\ app'.closed = app.closed /\ app'.eofs = app.eofs
      /\ app'.got = app.got /\ app'.eof = app.eof
  BY <1>0, <1>1 DEF TypeOK
<1>3. /\ app.fed \in Nat /\ app.eofs = 0 /\ outmsg = app.fed /\ app.fed + 1 \in Nat
      /\ app.fed + app.eofs < MaxOut + Eofs
  <2>1. app.fed \in Nat /\ app.eofs \in Nat
    BY <1>0, Typed
  <2>2. outmsg = app.fed + app.eofs /\ (app.eofs > 0 => app.closed)
    BY <1>0 DEF Counted
  <2> QED  BY <1>1, <2>1, <2>2, AanAssumption DEF Eofs
<1>4. TypeOK'
  <2>1. app' \in [fed : 0 .. MaxOut, closed : BOOLEAN, eofs : 0 .. Eofs,
                  got : Seq(Nat), eof : BOOLEAN]
    <3>1. app.fed + 1 \in 0 .. MaxOut
      BY <1>1, <1>3, AanAssumption
    <3> QED  BY <1>0, <1>1, <3>1 DEF TypeOK
  <2>2. UNCHANGED <<breaks, inmsg, lastacked, reader, srv>>
    BY <1>1 DEF Aanwrite
  <2> QED  BY <1>0, <1>1, <1>3, <2>1, <2>2, AanwriteTypes DEF TypeOK
<1>5. /\ app'.fed + app'.eofs = outmsg + 1
      /\ app'.fed = outmsg + 1 /\ app.fed = outmsg
      /\ app.fed + 1 = IF outmsg < app'.fed THEN outmsg + 1 ELSE 0
      /\ (app'.eofs > 0 \/ writer' = "gone") => app.closed
  BY <1>0, <1>1, <1>2, <1>3 DEF Counted
<1> QED  BY <1>1, <1>2, <1>3, <1>4, <1>5, AanwriteIInv

\* aanwriter has the end of the pipe.
LEMMA AanwriterEofIInv == ASSUME IInv, AanwriterEof PROVE IInv'
<1>0. TypeOK /\ Counted
  BY DEF IInv
<1>1. /\ app.closed /\ app.eofs < Eofs /\ Aanwrite(0)
      /\ app' = [app EXCEPT !.eofs = @ + 1]
      /\ writer' = IF net.up THEN "gone" ELSE "run"
  BY DEF AanwriterEof
<1>2. /\ app'.fed = app.fed /\ app'.closed = app.closed /\ app'.eofs = app.eofs + 1
      /\ app'.got = app.got /\ app'.eof = app.eof
  BY <1>0, <1>1 DEF TypeOK
<1>3. /\ app.fed \in 0 .. MaxOut /\ app.eofs \in Nat /\ outmsg = app.fed + app.eofs
      /\ app.fed + app.eofs < MaxOut + Eofs
  <2>1. app.fed \in 0 .. MaxOut /\ app.eofs \in Nat
    BY <1>0, Typed DEF TypeOK
  <2>2. outmsg = app.fed + app.eofs
    BY <1>0 DEF Counted
  <2> QED  BY <1>1, <2>1, <2>2, AanAssumption DEF Eofs
<1>4. TypeOK'
  <2>1. app' \in [fed : 0 .. MaxOut, closed : BOOLEAN, eofs : 0 .. Eofs,
                  got : Seq(Nat), eof : BOOLEAN]
    <3>1. app.eofs + 1 \in 0 .. Eofs
      BY <1>1, <1>3 DEF Eofs
    <3> QED  BY <1>0, <1>1, <3>1 DEF TypeOK
  <2>2. UNCHANGED <<breaks, inmsg, lastacked, reader, srv>>
    BY <1>1 DEF Aanwrite
  <2> QED  BY <1>0, <1>1, <1>3, <2>1, <2>2, AanwriteTypes DEF TypeOK
<1>5. /\ app'.fed + app'.eofs = outmsg + 1
      /\ 0 = IF outmsg < app'.fed THEN outmsg + 1 ELSE 0
  BY <1>2, <1>3, AanAssumption
<1> QED  BY <1>1, <1>2, <1>4, <1>5, AanwriteIInv

\* aanwriter's read of the pipe fails.
LEMMA AanwriterEndIInv == ASSUME IInv, AanwriterEnd PROVE IInv'
<1>0. TypeOK /\ Counted /\ Kept /\ Meant /\ NoGap /\ Passed
  BY DEF IInv
<1>1. /\ app.closed /\ writer' = "gone"
      /\ UNCHANGED <<net, breaks, inmsg, outmsg, unacked, lastacked, reader, app, srv>>
  BY DEF AanwriterEnd, Client
<1>2. TypeOK' /\ Counted'
  BY <1>0, <1>1 DEF TypeOK, Counted
<1>3. Kept' /\ Meant'
  BY <1>0, <1>1 DEF Kept, Meant
<1>4. NoGap' /\ Passed'
  BY <1>0, <1>1 DEF NoGap, Open, Passed, Holding
<1> QED  BY <1>2, <1>3, <1>4 DEF IInv

\* An empty message of aansyncer.
LEMMA AansyncerIInv == ASSUME IInv, Aansyncer PROVE IInv'
<1>0. TypeOK /\ Counted /\ Kept /\ Meant /\ NoGap /\ Passed
  BY DEF IInv
<1> DEFINE b == Message(Sync, inmsg, 0)
<1>1. /\ net.up /\ net' = Written(b)
      /\ UNCHANGED <<breaks, inmsg, outmsg, unacked, lastacked, writer, reader, app, srv>>
  BY DEF Aansyncer, Client
<1>2. net'.up = net.up /\ net'.in = net.in /\ net'.out = Append(net.out, b)
  BY <1>0, <1>1 DEF Written, TypeOK
<1>t. inmsg \in Nat /\ net.out \in Seq(Msg) /\ srv.inmsg \in Nat /\ outmsg \in Nat
  BY <1>0, Typed
<1>3. /\ b \in Msg /\ b.msg = Sync /\ b.acked = inmsg /\ b.data = 0
  BY <1>t DEF Message, Msg
<1> HIDE DEF b
<1>4. TypeOK'
  <2>1. Append(net.out, b) \in Seq(Msg)
    BY <1>0, <1>3, Typed, AppendOf
  <2>2. net' \in [up : BOOLEAN, out : Seq(Msg), in : Seq(Msg)]
    BY <1>0, <1>1, <2>1 DEF TypeOK, Written
  <2> QED  BY <1>0, <1>1, <2>2 DEF TypeOK
<1>5. Counted' /\ Kept'
  BY <1>0, <1>1 DEF Counted, Kept
<1>6. Meant'
  <2>1. Means(b, outmsg, app.fed, inmsg)
    BY <1>3, <1>t DEF Means
  <2>2. AllMean(Append(net.out, b), outmsg, app.fed, inmsg)
    BY <1>0, <1>3, <1>t, <2>1, MeanAppend DEF Meant
  <2> QED  BY <1>0, <1>1, <1>2, <2>2 DEF Meant
<1>7. NoGap'
  <2>1. ASSUME ~srv.eof
        PROVE  Chained(Append(net.out, b), srv.inmsg) /\ Follows(Append(net.out, b), srv.inmsg, outmsg)
    BY <1>0, <1>1, <1>3, <1>t, <2>1, ChainSync DEF NoGap
  <2> QED  BY <1>0, <1>1, <1>2, <2>1 DEF NoGap, Open
<1>8. Passed'
  BY <1>0, <1>1 DEF Passed, Holding
<1> QED  BY <1>4, <1>5, <1>6, <1>7, <1>8 DEF IInv

\* What aanreader finds at the head of what is under way to it.
LEMMA NextMessage ==
  ASSUME IInv, Incoming, NextIn
  PROVE  /\ net'.up = net.up /\ net'.out = net.out /\ net'.in = Tail(net.in)
         /\ net' \in [up : BOOLEAN, out : Seq(Msg), in : Seq(Msg)]
         /\ net.in \in Seq(Msg) /\ net.in # <<>>
         /\ Head(net.in) \in Msg
         /\ Head(net.in).msg \in Int /\ Head(net.in).msg <= inmsg
         /\ Head(net.in).data \in Nat /\ Head(net.in).acked \in Nat
         /\ Means(Head(net.in), srv.outmsg, srv.fed, srv.inmsg)
         /\ AllMean(Tail(net.in), srv.outmsg, srv.fed, srv.inmsg)
         /\ reader.at = "read" /\ Open /\ ~Holding
<1>0. TypeOK /\ Meant /\ NoGap
  BY DEF IInv
<1>1. reader.at = "read" /\ net.in # <<>> /\ net' = [net EXCEPT !.in = Tail(@)]
  BY DEF Incoming, NextIn
<1>2. net.in \in Seq(Msg) /\ inmsg \in Nat
  BY <1>0, Typed
<1>3. Tail(net.in) \in Seq(Msg) /\ Head(net.in) \in Msg /\ 1 \in DOMAIN net.in
      /\ Head(net.in) = net.in[1]
  BY <1>1, <1>2, TailOf
<1>4. Head(net.in).msg \in Int /\ Head(net.in).data \in Nat /\ Head(net.in).acked \in Nat
  BY <1>2, <1>3, ListOf
<1>5. /\ net'.up = net.up /\ net'.out = net.out /\ net'.in = Tail(net.in)
      /\ net' \in [up : BOOLEAN, out : Seq(Msg), in : Seq(Msg)]
  BY <1>0, <1>1, <1>3 DEF TypeOK
<1>6. Open /\ ~Holding
  BY <1>1 DEF Open, Holding
<1>7. Head(net.in).msg <= inmsg
  BY <1>0, <1>1, <1>2, <1>6, ChainHead DEF NoGap
<1>8. /\ Means(Head(net.in), srv.outmsg, srv.fed, srv.inmsg)
      /\ AllMean(Tail(net.in), srv.outmsg, srv.fed, srv.inmsg)
  BY <1>0, <1>1, <1>2, MeanTail DEF Meant
<1> QED  BY <1>1, <1>2, <1>3, <1>4, <1>5, <1>6, <1>7, <1>8

\* aanreader has the message in turn.
LEMMA AcceptIInv == ASSUME IInv, Accept PROVE IInv'
<1>0. TypeOK /\ Counted /\ Kept /\ Meant /\ NoGap /\ Passed
  BY DEF IInv
<1> DEFINE b == Head(net.in)
<1>1. /\ Incoming /\ NextIn /\ b.data # 0 /\ b.msg = inmsg /\ inmsg' = inmsg + 1
      /\ reader' = [at |-> "trim", b |-> b]
      /\ UNCHANGED <<breaks, outmsg, unacked, lastacked, writer, app, srv>>
  BY DEF Accept
<1>2. /\ net'.up = net.up /\ net'.out = net.out /\ net'.in = Tail(net.in)
      /\ net' \in [up : BOOLEAN, out : Seq(Msg), in : Seq(Msg)]
      /\ net.in \in Seq(Msg) /\ net.in # <<>>
      /\ b \in Msg /\ b.data \in Nat /\ b.acked \in Nat
      /\ Means(b, srv.outmsg, srv.fed, srv.inmsg)
      /\ AllMean(Tail(net.in), srv.outmsg, srv.fed, srv.inmsg)
      /\ reader.at = "read" /\ Open /\ ~Holding
  BY <1>1, NextMessage
<1> HIDE DEF b
<1>3. reader'.at = "trim" /\ reader'.b = b
  BY <1>1
<1>t. /\ inmsg \in Nat /\ outmsg \in Nat /\ app.fed \in Nat /\ srv.fed \in Nat
      /\ srv.outmsg \in Nat /\ net.out \in Seq(Msg) /\ unacked \in Seq(Msg)
  BY <1>0, Typed
<1>4. b.acked <= srv.inmsg /\ inmsg < srv.fed /\ b.data = inmsg + 1
  BY <1>1, <1>2, <1>t DEF Means, Sync
<1>5. TypeOK'
  <2>1. inmsg' \in 0 .. srv.outmsg
    BY <1>0, <1>1, <1>4, <1>t DEF Counted
  <2>2. reader' \in [at : {"read", "trim", "write", "reconnect", "closed", "dead"}, b : Msg]
    BY <1>1, <1>2
  <2> QED  BY <1>0, <1>1, <1>2, <2>1, <2>2 DEF TypeOK
<1>6. Counted'
  BY <1>0, <1>1, <1>4, <1>t DEF Counted
<1>7. Kept'
  BY <1>0, <1>1, <1>t DEF Kept
<1>8. Meant'
  <2>1. /\ AllMean(net.out, outmsg, app.fed, inmsg')
        /\ AllMean(unacked, outmsg, app.fed, inmsg')
    <3>1. /\ AllMean(net.out, outmsg, app.fed, inmsg)
          /\ AllMean(unacked, outmsg, app.fed, inmsg)
      BY <1>0 DEF Meant
    <3>2. /\ inmsg' \in Nat /\ inmsg <= inmsg' /\ outmsg <= outmsg /\ app.fed <= app.fed
      BY <1>1, <1>t
    <3> QED  BY <1>t, <3>1, <3>2, MeanGrows
  <2> QED  BY <1>0, <1>1, <1>2, <1>3, <1>4, <2>1 DEF Meant
<1>9. NoGap'
  <2>1. inmsg' \in Nat /\ inmsg <= inmsg' /\ Head(net.in).msg < inmsg'
    BY <1>1, <1>t DEF b
  <2>2. Chained(net.in, inmsg) /\ (net.up => Follows(net.in, inmsg, srv.outmsg))
    BY <1>0, <1>2 DEF NoGap
  <2>3. Chained(Tail(net.in), inmsg') /\ (net.up => Follows(Tail(net.in), inmsg', srv.outmsg))
    BY <1>2, <1>t, <2>1, <2>2, ChainTail
  <2> QED  BY <1>0, <1>1, <1>2, <2>3 DEF NoGap
<1>10. Passed'
  <2>1. Holding'
    BY <1>3 DEF Holding
  <2>2. Len(app.got) = inmsg' - 1 \/ app.closed
    BY <1>0, <1>1, <1>2, <1>t DEF Passed
  <2>3. ~app.eof
    BY <1>0, <1>2 DEF Passed
  <2> QED  BY <1>1, <1>3, <1>4, <2>1, <2>2, <2>3 DEF Passed
<1> QED  BY <1>5, <1>6, <1>7, <1>8, <1>9, <1>10 DEF IInv

\* aanreader has an old message or an empty one.
LEMMA SkipIInv == ASSUME IInv, Skip PROVE IInv'
<1>0. TypeOK /\ Counted /\ Kept /\ Meant /\ NoGap /\ Passed
  BY DEF IInv
<1>1. /\ Incoming /\ NextIn
      /\ IF Head(net.in).data = 0 THEN Head(net.in).msg = Sync ELSE Head(net.in).msg # inmsg
      /\ UNCHANGED <<breaks, inmsg, outmsg, unacked, lastacked, writer, reader, app, srv>>
  BY DEF Skip, Client
<1>2. /\ net'.up = net.up /\ net'.out = net.out /\ net'.in = Tail(net.in)
      /\ net' \in [up : BOOLEAN, out : Seq(Msg), in : Seq(Msg)]
      /\ net.in \in Seq(Msg) /\ net.in # <<>>
      /\ Head(net.in).msg \in Int /\ Head(net.in).msg <= inmsg
      /\ AllMean(Tail(net.in), srv.outmsg, srv.fed, srv.inmsg)
      /\ Open
  BY <1>1, NextMessage
<1>t. inmsg \in Nat /\ srv.outmsg \in Nat
  BY <1>0, Typed
<1>3. TypeOK' /\ Counted' /\ Kept' /\ Passed'
  BY <1>0, <1>1, <1>2 DEF TypeOK, Counted, Kept, Passed, Holding
<1>4. Meant'
  BY <1>0, <1>1, <1>2 DEF Meant
<1>5. NoGap'
  <2>1. Head(net.in).msg < inmsg /\ inmsg <= inmsg
    BY <1>1, <1>2, <1>t DEF Sync
  <2>2. Chained(net.in, inmsg) /\ (net.up => Follows(net.in, inmsg, srv.outmsg))
    BY <1>0, <1>2 DEF NoGap
  <2>3. Chained(Tail(net.in), inmsg) /\ (net.up => Follows(Tail(net.in), inmsg, srv.outmsg))
    BY <1>2, <1>t, <2>1, <2>2, ChainTail
  <2> QED  BY <1>0, <1>1, <1>2, <2>3 DEF NoGap
<1> QED  BY <1>3, <1>4, <1>5 DEF IInv

\* aanreader has the end of what the server writes.
LEMMA RemoteEofIInv == ASSUME IInv, RemoteEof PROVE IInv'
<1>0. TypeOK /\ Counted /\ Kept /\ Meant /\ NoGap /\ Passed
  BY DEF IInv
<1>1. /\ Incoming /\ NextIn
      /\ reader' = [reader EXCEPT !.at = "closed"]
      /\ app' = [app EXCEPT !.eof = writer = "run" /\ ~app.closed]
      /\ UNCHANGED <<breaks, inmsg, outmsg, unacked, lastacked, writer, srv>>
  BY DEF RemoteEof, Client, ReaderGoto
<1>2. /\ net'.up = net.up /\ net'.out = net.out /\ net'.in = Tail(net.in)
      /\ net' \in [up : BOOLEAN, out : Seq(Msg), in : Seq(Msg)]
      /\ AllMean(Tail(net.in), srv.outmsg, srv.fed, srv.inmsg)
      /\ ~Holding
  BY <1>1, NextMessage
<1>3. reader'.at = "closed" /\ reader'.b = reader.b
  BY <1>0, <1>1 DEF TypeOK
<1>4. /\ app'.fed = app.fed /\ app'.closed = app.closed /\ app'.eofs = app.eofs
      /\ app'.got = app.got
  BY <1>0, <1>1 DEF TypeOK
<1>5. TypeOK'
  <2>1. reader' \in [at : {"read", "trim", "write", "reconnect", "closed", "dead"}, b : Msg]
    BY <1>0, <1>1 DEF TypeOK
  <2>2. app' \in [fed : 0 .. MaxOut, closed : BOOLEAN, eofs : 0 .. Eofs,
                  got : Seq(Nat), eof : BOOLEAN]
    BY <1>0, <1>1 DEF TypeOK
  <2> QED  BY <1>0, <1>1, <1>2, <2>1, <2>2 DEF TypeOK
<1>6. Counted' /\ Kept'
  BY <1>0, <1>1, <1>4 DEF Counted, Kept
<1>7. Meant'
  BY <1>0, <1>1, <1>2, <1>3, <1>4 DEF Meant
<1>8. NoGap'
  BY <1>0, <1>1, <1>2, <1>3, <1>4 DEF NoGap, Open
<1>9. Passed'
  <2>1. ~Holding'
    BY <1>3 DEF Holding
  <2> QED  BY <1>0, <1>1, <1>2, <1>3, <1>4, <2>1 DEF Passed
<1> QED  BY <1>5, <1>6, <1>7, <1>8, <1>9 DEF IInv

\* aanreader frees what its message acknowledges, and that was received.
LEMMA TrimIInv == ASSUME IInv, Trim PROVE IInv'
<1>0. TypeOK /\ Counted /\ Kept /\ Meant /\ NoGap /\ Passed
  BY DEF IInv
<1> DEFINE k == IF reader.b.acked > lastacked THEN reader.b.acked - lastacked ELSE 0
<1>1. /\ reader.at = "trim"
      /\ unacked' = SubSeq(unacked, k + 1, Len(unacked))
      /\ lastacked' = lastacked + Len(unacked) - Len(unacked')
      /\ reader' = [reader EXCEPT !.at = "write"]
      /\ UNCHANGED <<net, breaks, inmsg, outmsg, writer, app, srv>>
  BY DEF Trim, ReaderGoto
<1>t. /\ inmsg \in Nat /\ outmsg \in Nat /\ lastacked \in Nat /\ app.fed \in Nat
      /\ app.eofs \in Nat /\ srv.inmsg \in Nat /\ unacked \in Seq(Msg)
      /\ reader.b.acked \in Nat
  BY <1>0, Typed
<1>2. k \in Nat /\ lastacked + k <= srv.inmsg
  BY <1>0, <1>t DEF Kept, Meant
<1> HIDE DEF k
<1>3. Len(unacked) = outmsg - lastacked /\ srv.inmsg <= outmsg
  BY <1>0, <1>t DEF Kept, Counted
<1>4. k \in 0 .. Len(unacked)
  BY <1>2, <1>3, <1>t
<1>5. /\ unacked' \in Seq(Msg) /\ Len(unacked') = Len(unacked) - k
      /\ Numbered(unacked', lastacked + k)
  BY <1>0, <1>1, <1>4, <1>t, NumberedStretch DEF Kept
<1>6. lastacked' = lastacked + k
  BY <1>1, <1>2, <1>3, <1>5, <1>t
<1>7. reader'.at = "write" /\ reader'.b = reader.b
  BY <1>0, <1>1 DEF TypeOK
<1>8. TypeOK'
  <2>1. reader' \in [at : {"read", "trim", "write", "reconnect", "closed", "dead"}, b : Msg]
    BY <1>0, <1>1 DEF TypeOK
  <2>2. lastacked' \in 0 .. srv.inmsg
    BY <1>2, <1>6, <1>t
  <2> QED  BY <1>0, <1>1, <1>5, <2>1, <2>2 DEF TypeOK
<1>9. Counted'
  BY <1>0, <1>1 DEF Counted
<1>10. Kept'
  <2>1. Len(unacked') = outmsg - lastacked' /\ lastacked' <= srv.inmsg
    BY <1>2, <1>3, <1>5, <1>6, <1>t
  <2>2. Numbered(unacked', lastacked')
    BY <1>5, <1>6
  <2> QED  BY <1>0, <1>1, <2>1, <2>2 DEF Kept
<1>11. Meant'
  <2>1. /\ k + 1 \in 1 .. Len(unacked) + 1 /\ Len(unacked) \in 0 .. Len(unacked)
        /\ k + 1 <= Len(unacked) + 1
    BY <1>4, <1>3, <1>t
  <2>2. AllMean(unacked', outmsg, app.fed, inmsg)
    BY <1>0, <1>1, <1>t, <2>1, MeanStretch DEF Meant
  <2> QED  BY <1>0, <1>1, <1>7, <2>2 DEF Meant
<1>12. NoGap'
  BY <1>0, <1>1, <1>7 DEF NoGap, Open
<1>13. Passed'
  BY <1>0, <1>1, <1>7 DEF Passed, Holding
<1> QED  BY <1>8, <1>9, <1>10, <1>11, <1>12, <1>13 DEF IInv

\* aanreader writes its piece to the pipe, or finds it closed.
LEMMA DeliverIInv == ASSUME IInv, Deliver PROVE IInv'
<1>0. TypeOK /\ Counted /\ Kept /\ Meant /\ NoGap /\ Passed
  BY DEF IInv
<1>1. /\ reader.at = "write"
      /\ UNCHANGED <<net, breaks, inmsg, outmsg, unacked, lastacked, writer, srv>>
  BY DEF Deliver, Client
<1>2. CASE writer = "gone"
  <2>1. reader' = [reader EXCEPT !.at = "closed"] /\ app' = app
    BY <1>2 DEF Deliver, ReaderGoto
  <2>2. reader'.at = "closed" /\ reader'.b = reader.b
    BY <1>0, <2>1 DEF TypeOK
  <2>3. TypeOK'
    BY <1>0, <1>1, <2>1 DEF TypeOK
  <2>4. Counted' /\ Kept' /\ Meant'
    BY <1>0, <1>1, <2>1, <2>2 DEF Counted, Kept, Meant
  <2>5. NoGap' /\ Passed'
    BY <1>0, <1>1, <1>2, <2>1, <2>2 DEF NoGap, Open, Passed, Holding, Counted
  <2> QED  BY <2>3, <2>4, <2>5 DEF IInv
<1>3. CASE writer # "gone"
  <2>1. /\ reader' = [reader EXCEPT !.at = "read"]
        /\ app' = [app EXCEPT !.got = IF app.closed THEN @ ELSE Append(@, reader.b.data)]
    BY <1>3 DEF Deliver, ReaderGoto
  <2>2. reader'.at = "read" /\ reader'.b = reader.b
    BY <1>0, <2>1 DEF TypeOK
  <2>3. /\ app'.fed = app.fed /\ app'.closed = app.closed /\ app'.eofs = app.eofs
        /\ app'.eof = app.eof
        /\ app'.got = IF app.closed THEN app.got ELSE Append(app.got, reader.b.data)
    BY <1>0, <2>1 DEF TypeOK
  <2>t. app.got \in Seq(Nat) /\ reader.b.data \in Nat /\ inmsg \in Nat
    BY <1>0, Typed
  <2>4. /\ Append(app.got, reader.b.data) \in Seq(Nat)
        /\ Len(Append(app.got, reader.b.data)) = Len(app.got) + 1
        /\ Len(app.got) \in Nat
    BY <2>t
  <2>5. TypeOK'
    <3>1. app' \in [fed : 0 .. MaxOut, closed : BOOLEAN, eofs : 0 .. Eofs,
                    got : Seq(Nat), eof : BOOLEAN]
      BY <1>0, <2>1, <2>4 DEF TypeOK
    <3>2. reader' \in [at : {"read", "trim", "write", "reconnect", "closed", "dead"}, b : Msg]
      BY <1>0, <2>1 DEF TypeOK
    <3> QED  BY <1>0, <1>1, <3>1, <3>2 DEF TypeOK
  <2>6. Counted' /\ Kept' /\ Meant'
    BY <1>0, <1>1, <2>2, <2>3 DEF Counted, Kept, Meant
  <2>7. NoGap'
    BY <1>0, <1>1, <2>2, <2>3 DEF NoGap, Open
  <2>8. Passed'
    <3>1. Holding /\ ~Holding'
      BY <1>1, <2>2 DEF Holding
    <3>2. ~app.closed => Len(app.got) = inmsg - 1
      BY <1>0, <3>1 DEF Passed
    <3>3. ~app.closed => Len(app'.got) = inmsg
      BY <2>3, <2>4, <2>t, <3>2
    <3>4. ~app.eof
      BY <1>0, <1>1 DEF Passed
    <3> QED  BY <1>1, <2>3, <3>1, <3>3, <3>4 DEF Passed
  <2> QED  BY <2>5, <2>6, <2>7, <2>8 DEF IInv
<1> QED  BY <1>2, <1>3

\* aanreader finds the connection broken, or gives up dialling.
LEMMA ReaderMovesIInv ==
  ASSUME IInv, ReadFails \/ DialTimeout
  PROVE  IInv'
<1>0. TypeOK /\ Counted /\ Kept /\ Meant /\ NoGap /\ Passed
  BY DEF IInv
<1>1. PICK l \in {"reconnect", "dead"} :
        /\ reader.at \in {"read", "reconnect"} /\ reader' = [reader EXCEPT !.at = l]
        /\ UNCHANGED <<net, breaks, inmsg, outmsg, unacked, lastacked, writer, app, srv>>
  BY DEF ReadFails, DialTimeout, Client, ReaderGoto
<1>2. reader'.at = l /\ reader'.b = reader.b
  BY <1>0, <1>1 DEF TypeOK
<1>3. TypeOK'
  BY <1>0, <1>1 DEF TypeOK
<1>4. Counted' /\ Kept' /\ Meant'
  BY <1>0, <1>1, <1>2 DEF Counted, Kept, Meant
<1>5. NoGap'
  BY <1>0, <1>1, <1>2 DEF NoGap, Open
<1>6. Passed'
  BY <1>0, <1>1, <1>2 DEF Passed, Holding
<1> QED  BY <1>3, <1>4, <1>5, <1>6 DEF IInv

\* A new connection: what each end sends again begins with what the other has
\* received, or with the next message.
LEMMA ReconnectIInv == ASSUME IInv, Reconnect PROVE IInv'
<1>0. TypeOK /\ Counted /\ Kept /\ Meant /\ NoGap /\ Passed
  BY DEF IInv
<1> DEFINE mine == Restamped(unacked, inmsg)
           theirs == Restamped(srv.unacked, srv.inmsg)
<1>1. /\ reader.at = "reconnect" /\ unacked' = mine
      /\ net' = [up |-> TRUE, out |-> mine, in |-> theirs]
      /\ reader' = [reader EXCEPT !.at = "read"]
      /\ srv' = [srv EXCEPT !.unacked = theirs]
      /\ UNCHANGED <<breaks, inmsg, outmsg, lastacked, writer, app>>
  BY DEF Reconnect, ReaderGoto
<1>t. /\ unacked \in Seq(Msg) /\ inmsg \in Nat /\ outmsg \in Nat /\ lastacked \in Nat
      /\ srv.unacked \in Seq(Msg) /\ srv.inmsg \in Nat /\ srv.outmsg \in Nat
  BY <1>0, Typed
<1>2. /\ mine \in Seq(Msg) /\ Len(mine) = Len(unacked)
      /\ theirs \in Seq(Msg) /\ Len(theirs) = Len(srv.unacked)
  BY <1>t, RestampedOf
<1>3. /\ Numbered(mine, lastacked)
      /\ Numbered(theirs, srv.outmsg - Len(srv.unacked))
  BY <1>0, <1>t, NumberedRestamped DEF Kept
<1>4. /\ AllMean(mine, outmsg, app.fed, inmsg)
      /\ AllMean(theirs, srv.outmsg, srv.fed, srv.inmsg)
  BY <1>0, <1>t, MeanRestamped DEF Meant
<1> HIDE DEF mine, theirs
<1>5. /\ net'.up = TRUE /\ net'.out = mine /\ net'.in = theirs
      /\ reader'.at = "read" /\ reader'.b = reader.b
      /\ srv'.inmsg = srv.inmsg /\ srv'.outmsg = srv.outmsg /\ srv'.unacked = theirs
      /\ srv'.fed = srv.fed /\ srv'.closed = srv.closed /\ srv'.got = srv.got
      /\ srv'.eof = srv.eof
  BY <1>0, <1>1 DEF TypeOK
<1>6. TypeOK'
  <2>1. net' \in [up : BOOLEAN, out : Seq(Msg), in : Seq(Msg)]
    BY <1>1, <1>2
  <2>2. reader' \in [at : {"read", "trim", "write", "reconnect", "closed", "dead"}, b : Msg]
    BY <1>0, <1>1 DEF TypeOK
  <2>3. srv' \in [inmsg : Nat, outmsg : Nat, unacked : Seq(Msg), fed : 0 .. MaxIn,
                  closed : BOOLEAN, got : Seq(Nat), eof : BOOLEAN]
    BY <1>0, <1>1, <1>2 DEF TypeOK
  <2>4. inmsg' \in 0 .. srv'.outmsg /\ lastacked' \in 0 .. srv'.inmsg
    BY <1>0, <1>1, <1>5 DEF TypeOK
  <2> QED  BY <1>0, <1>1, <1>2, <2>1, <2>2, <2>3, <2>4 DEF TypeOK
<1>7. Counted'
  BY <1>0, <1>1, <1>5 DEF Counted
<1>8. Kept'
  BY <1>0, <1>1, <1>2, <1>3, <1>5 DEF Kept
<1>9. Meant'
  BY <1>0, <1>1, <1>4, <1>5 DEF Meant
<1>10. NoGap'
  <2>1. Chained(mine, srv.inmsg) /\ Follows(mine, srv.inmsg, outmsg)
    <3>1. lastacked <= srv.inmsg /\ Len(mine) = outmsg - lastacked
      BY <1>0, <1>2 DEF Kept
    <3>2. Follows(mine, srv.inmsg, lastacked + Len(mine)) /\ Chained(mine, srv.inmsg)
      BY <1>2, <1>3, <1>t, <3>1, ChainRun
    <3>3. lastacked + Len(mine) = outmsg
      BY <1>t, <3>1
    <3> QED  BY <3>2, <3>3
  <2>2. Chained(theirs, inmsg) /\ Follows(theirs, inmsg, srv.outmsg)
    <3> DEFINE first == srv.outmsg - Len(srv.unacked)
    <3>1. first \in Nat /\ first <= inmsg /\ Len(srv.unacked) \in Nat
      BY <1>0, <1>t, ListOf DEF Kept
    <3>2. Follows(theirs, inmsg, first + Len(theirs)) /\ Chained(theirs, inmsg)
      <4> HIDE DEF first
      <4>1. Numbered(theirs, first)
        BY <1>3 DEF first
      <4> QED  BY <1>2, <1>t, <3>1, <4>1, ChainRun
    <3>3. first + Len(theirs) = srv.outmsg
      BY <1>2, <1>t, <3>1
    <3> QED  BY <3>2, <3>3
  <2> QED  BY <1>1, <1>5, <2>1, <2>2 DEF NoGap
<1>11. Passed'
  BY <1>0, <1>1, <1>5 DEF Passed, Holding
<1> QED  BY <1>6, <1>7, <1>8, <1>9, <1>10, <1>11 DEF IInv

\* The server's end sends a message: as aanwriter's, the other way round.
LEMMA SrvSendIInv ==
  ASSUME IInv, NEW d \in Nat, NEW kept, SrvSend(d, kept),
         kept \in [inmsg : Nat, outmsg : Nat, unacked : Seq(Msg), fed : 0 .. MaxIn,
                   closed : BOOLEAN, got : Seq(Nat), eof : BOOLEAN],
         kept.inmsg = srv.inmsg, kept.outmsg = srv.outmsg, kept.unacked = srv.unacked,
         kept.got = srv.got, kept.eof = srv.eof,
         kept.fed + (IF kept.closed THEN 1 ELSE 0) = srv.outmsg + 1,
         kept.fed = srv.fed \/ (kept.fed = srv.outmsg + 1 /\ srv.fed = srv.outmsg),
         d = IF srv.outmsg < kept.fed THEN srv.outmsg + 1 ELSE 0
  PROVE  IInv'
<1>0. TypeOK /\ Counted /\ Kept /\ Meant /\ NoGap /\ Passed
  BY DEF IInv
<1> DEFINE b == Message(srv.outmsg, srv.inmsg, d)
<1>1. /\ srv' = [kept EXCEPT !.outmsg = @ + 1, !.unacked = Append(@, b)]
      /\ net' = [net EXCEPT !.in = IF net.up THEN Append(@, b) ELSE @]
      /\ UNCHANGED <<breaks, inmsg, outmsg, unacked, lastacked, writer, reader, app>>
  BY DEF SrvSend, Client
<1>2. /\ net'.up = net.up /\ net'.out = net.out
      /\ net'.in = IF net.up THEN Append(net.in, b) ELSE net.in
  BY <1>0, <1>1 DEF TypeOK
<1>3. /\ srv'.inmsg = srv.inmsg /\ srv'.outmsg = srv.outmsg + 1
      /\ srv'.unacked = Append(srv.unacked, b) /\ srv'.fed = kept.fed
      /\ srv'.closed = kept.closed /\ srv'.got = srv.got /\ srv'.eof = srv.eof
  BY <1>1
<1>t. /\ srv.outmsg \in Nat /\ srv.inmsg \in Nat /\ inmsg \in Nat
      /\ srv.unacked \in Seq(Msg) /\ net.in \in Seq(Msg) /\ srv.fed \in Nat
      /\ kept.fed \in Nat /\ Len(srv.unacked) \in Nat
  <2>1. /\ srv.outmsg \in Nat /\ srv.inmsg \in Nat /\ inmsg \in Nat
        /\ srv.unacked \in Seq(Msg) /\ net.in \in Seq(Msg) /\ srv.fed \in Nat
    BY <1>0, Typed
  <2>2. kept.fed \in Nat
    BY AanAssumption
  <2> QED  BY <2>1, <2>2, ListOf
<1>4. b \in Msg /\ b.msg = srv.outmsg /\ b.acked = srv.inmsg /\ b.data = d
  BY <1>t DEF Message, Msg
<1> HIDE DEF b
<1>5. srv.fed <= kept.fed
  BY <1>t
<1>6. TypeOK'
  <2>1. Append(net.in, b) \in Seq(Msg) /\ Append(srv.unacked, b) \in Seq(Msg)
    BY <1>4, <1>t, AppendOf
  <2>2. net' \in [up : BOOLEAN, out : Seq(Msg), in : Seq(Msg)]
    BY <1>0, <1>1, <2>1 DEF TypeOK
  <2>3. srv.outmsg + 1 \in Nat
    BY <1>t
  <2>4. srv' \in [inmsg : Nat, outmsg : Nat, unacked : Seq(Msg), fed : 0 .. MaxIn,
                  closed : BOOLEAN, got : Seq(Nat), eof : BOOLEAN]
    BY <1>1, <2>1, <2>3
  <2>5. inmsg' \in 0 .. srv'.outmsg /\ lastacked' \in 0 .. srv'.inmsg
    BY <1>0, <1>1, <1>3, <1>t DEF TypeOK
  <2> QED  BY <1>0, <1>1, <2>2, <2>4, <2>5 DEF TypeOK
<1>7. Counted'
  BY <1>0, <1>1, <1>3, <1>5, <1>t DEF Counted
<1>8. Kept'
  <2> DEFINE first == srv.outmsg - Len(srv.unacked)
  <2>1. first \in 0 .. inmsg /\ first \in Nat /\ Numbered(srv.unacked, first)
    BY <1>0, <1>t DEF Kept
  <2>2. b.msg = first + Len(srv.unacked)
    BY <1>4, <1>t
  <2>3. srv'.outmsg - Len(srv'.unacked) = first
    <3>1. Len(srv'.unacked) = Len(srv.unacked) + 1
      BY <1>3, <1>4, <1>t, AppendOf
    <3>2. srv'.outmsg = srv.outmsg + 1
      BY <1>3
    <3>3. srv.outmsg \in Nat /\ Len(srv.unacked) \in Nat
      BY <1>t
    <3> QED  BY <3>1, <3>2, <3>3
  <2> HIDE DEF first
  <2>4. Numbered(srv'.unacked, first)
    BY <1>3, <1>4, <1>t, <2>1, <2>2, NumberedAppend
  <2> QED  BY <1>0, <1>1, <1>3, <2>1, <2>3, <2>4 DEF Kept
<1>9. Meant'
  <2>1. Means(b, srv'.outmsg, srv'.fed, srv'.inmsg)
    <3>1. /\ srv.outmsg \in Nat /\ srv.inmsg \in Nat /\ srv.fed \in Nat /\ kept.fed \in Nat
          /\ srv'.outmsg = srv.outmsg + 1 /\ srv'.inmsg = srv.inmsg /\ srv'.fed = kept.fed
      BY <1>3, <1>t
    <3>2. b.msg = srv.outmsg /\ b.acked = srv.inmsg /\ b.data = d
      BY <1>4
    <3> QED  BY <1>5, <3>1, <3>2 DEF Means
  <2>2. /\ AllMean(net.in, srv'.outmsg, srv'.fed, srv'.inmsg)
        /\ AllMean(srv.unacked, srv'.outmsg, srv'.fed, srv'.inmsg)
    <3>1. /\ AllMean(net.in, srv.outmsg, srv.fed, srv.inmsg)
          /\ AllMean(srv.unacked, srv.outmsg, srv.fed, srv.inmsg)
      BY <1>0 DEF Meant
    <3>2. /\ srv'.outmsg \in Nat /\ srv'.fed \in Nat /\ srv'.inmsg \in Nat
          /\ srv.outmsg <= srv'.outmsg /\ srv.fed <= srv'.fed /\ srv.inmsg <= srv'.inmsg
          /\ srv.fed = srv'.fed \/ srv.outmsg = srv.fed
      BY <1>3, <1>5, <1>t
    <3> QED  BY <1>t, <3>1, <3>2, MeanGrows
  <2>3. /\ AllMean(Append(net.in, b), srv'.outmsg, srv'.fed, srv'.inmsg)
        /\ AllMean(Append(srv.unacked, b), srv'.outmsg, srv'.fed, srv'.inmsg)
    BY <1>4, <1>t, <2>1, <2>2, MeanAppend
  <2> QED  BY <1>0, <1>1, <1>2, <1>3, <2>2, <2>3 DEF Meant
<1>10. NoGap'
  <2>1. ASSUME Open, net.up
        PROVE  Chained(Append(net.in, b), inmsg) /\ Follows(Append(net.in, b), inmsg, srv'.outmsg)
    <3>1. Chained(net.in, inmsg) /\ Follows(net.in, inmsg, srv.outmsg)
      BY <1>0, <2>1 DEF NoGap
    <3> QED  BY <1>3, <1>4, <1>t, <3>1, ChainAppend
  <2> QED  BY <1>0, <1>1, <1>2, <1>3, <2>1 DEF NoGap, Open
<1>11. Passed'
  BY <1>0, <1>1 DEF Passed, Holding
<1> QED  BY <1>6, <1>7, <1>8, <1>9, <1>10, <1>11 DEF IInv

\* The server writes a piece.
LEMMA SrvWriteIInv == ASSUME IInv, SrvWrite PROVE IInv'
<1>0. TypeOK /\ Counted
  BY DEF IInv
<1> DEFINE kept == [srv EXCEPT !.fed = @ + 1]
<1>1. ~srv.closed /\ srv.fed < MaxIn /\ SrvSend(srv.fed + 1, kept)
  BY DEF SrvWrite
<1>2. srv.fed \in Nat /\ srv.outmsg \in Nat /\ srv.outmsg = srv.fed
  BY <1>0, <1>1, Typed DEF Counted
<1>3. /\ kept.inmsg = srv.inmsg /\ kept.outmsg = srv.outmsg /\ kept.unacked = srv.unacked
      /\ kept.got = srv.got /\ kept.eof = srv.eof /\ kept.closed = srv.closed
      /\ kept.fed = srv.fed + 1
  BY <1>0 DEF TypeOK
<1>4. kept \in [inmsg : Nat, outmsg : Nat, unacked : Seq(Msg), fed : 0 .. MaxIn,
                closed : BOOLEAN, got : Seq(Nat), eof : BOOLEAN]
  <2>1. srv.fed + 1 \in 0 .. MaxIn
    BY <1>1, <1>2, AanAssumption
  <2> QED  BY <1>0, <2>1 DEF TypeOK
<1> HIDE DEF kept
<1>5. /\ srv.fed + 1 \in Nat
      /\ kept.fed + (IF kept.closed THEN 1 ELSE 0) = srv.outmsg + 1
      /\ kept.fed = srv.outmsg + 1 /\ srv.fed = srv.outmsg
      /\ srv.fed + 1 = IF srv.outmsg < kept.fed THEN srv.outmsg + 1 ELSE 0
  BY <1>1, <1>2, <1>3
<1> QED  BY <1>1, <1>3, <1>4, <1>5, SrvSendIInv

\* The server closes.
LEMMA SrvEndIInv == ASSUME IInv, SrvEnd PROVE IInv'
<1>0. TypeOK /\ Counted
  BY DEF IInv
<1> DEFINE kept == [srv EXCEPT !.closed = TRUE]
<1>1. ~srv.closed /\ SrvSend(0, kept)
  BY DEF SrvEnd
<1>2. srv.fed \in Nat /\ srv.outmsg \in Nat /\ srv.outmsg = srv.fed
  BY <1>0, <1>1, Typed DEF Counted
<1>3. /\ kept.inmsg = srv.inmsg /\ kept.outmsg = srv.outmsg /\ kept.unacked = srv.unacked
      /\ kept.got = srv.got /\ kept.eof = srv.eof /\ kept.closed = TRUE
      /\ kept.fed = srv.fed
  BY <1>0 DEF TypeOK
<1>4. kept \in [inmsg : Nat, outmsg : Nat, unacked : Seq(Msg), fed : 0 .. MaxIn,
                closed : BOOLEAN, got : Seq(Nat), eof : BOOLEAN]
  BY <1>0 DEF TypeOK
<1> HIDE DEF kept
<1>5. /\ kept.fed + (IF kept.closed THEN 1 ELSE 0) = srv.outmsg + 1
      /\ 0 = IF srv.outmsg < kept.fed THEN srv.outmsg + 1 ELSE 0
      /\ 0 \in Nat
  BY <1>2, <1>3
<1> QED  BY <1>1, <1>3, <1>4, <1>5, SrvSendIInv

\* An empty message of the server's syncer.
LEMMA SrvSyncIInv == ASSUME IInv, SrvSync PROVE IInv'
<1>0. TypeOK /\ Counted /\ Kept /\ Meant /\ NoGap /\ Passed
  BY DEF IInv
<1> DEFINE b == Message(Sync, srv.inmsg, 0)
<1>1. /\ net.up /\ net' = [net EXCEPT !.in = Append(@, b)]
      /\ UNCHANGED <<breaks, inmsg, outmsg, unacked, lastacked, writer, reader, app, srv>>
  BY DEF SrvSync, Client
<1>2. net'.up = net.up /\ net'.out = net.out /\ net'.in = Append(net.in, b)
  BY <1>0, <1>1 DEF TypeOK
<1>t. inmsg \in Nat /\ net.in \in Seq(Msg) /\ srv.inmsg \in Nat /\ srv.outmsg \in Nat
  BY <1>0, Typed
<1>3. b \in Msg /\ b.msg = Sync /\ b.acked = srv.inmsg /\ b.data = 0
  BY <1>t DEF Message, Msg
<1> HIDE DEF b
<1>4. TypeOK'
  <2>1. Append(net.in, b) \in Seq(Msg)
    BY <1>3, <1>t, AppendOf
  <2>2. net' \in [up : BOOLEAN, out : Seq(Msg), in : Seq(Msg)]
    BY <1>0, <1>1, <2>1 DEF TypeOK
  <2> QED  BY <1>0, <1>1, <2>2 DEF TypeOK
<1>5. Counted' /\ Kept' /\ Passed'
  BY <1>0, <1>1 DEF Counted, Kept, Passed, Holding
<1>6. Meant'
  <2>1. Means(b, srv.outmsg, srv.fed, srv.inmsg)
    BY <1>3, <1>t DEF Means
  <2>2. AllMean(Append(net.in, b), srv.outmsg, srv.fed, srv.inmsg)
    BY <1>0, <1>3, <1>t, <2>1, MeanAppend DEF Meant
  <2> QED  BY <1>0, <1>1, <1>2, <2>2 DEF Meant
<1>7. NoGap'
  <2>1. ASSUME Open
        PROVE  Chained(Append(net.in, b), inmsg) /\ Follows(Append(net.in, b), inmsg, srv.outmsg)
    BY <1>0, <1>1, <1>3, <1>t, <2>1, ChainSync DEF NoGap
  <2> QED  BY <1>0, <1>1, <1>2, <2>1 DEF NoGap, Open
<1> QED  BY <1>4, <1>5, <1>6, <1>7 DEF IInv

\* What the server's end finds at the head of what is under way to it.
LEMMA SrvNextMessage ==
  ASSUME IInv, SrvRead
  PROVE  /\ net'.up = net.up /\ net'.in = net.in /\ net'.out = Tail(net.out)
         /\ net' \in [up : BOOLEAN, out : Seq(Msg), in : Seq(Msg)]
         /\ net.out \in Seq(Msg) /\ net.out # <<>>
         /\ Head(net.out) \in Msg
         /\ Head(net.out).msg \in Int /\ Head(net.out).msg <= srv.inmsg
         /\ Head(net.out).data \in Nat /\ Head(net.out).acked \in Nat
         /\ Means(Head(net.out), outmsg, app.fed, inmsg)
         /\ AllMean(Tail(net.out), outmsg, app.fed, inmsg)
         /\ ~srv.eof
         /\ Chained(net.out, srv.inmsg)
         /\ net.up => Follows(net.out, srv.inmsg, outmsg)
<1>0. TypeOK /\ Meant /\ NoGap
  BY DEF IInv
<1>1. ~srv.eof /\ net.out # <<>> /\ net' = [net EXCEPT !.out = Tail(@)]
  BY DEF SrvRead
<1>2. net.out \in Seq(Msg) /\ srv.inmsg \in Nat
  BY <1>0, Typed
<1>3. Tail(net.out) \in Seq(Msg) /\ Head(net.out) \in Msg /\ 1 \in DOMAIN net.out
      /\ Head(net.out) = net.out[1]
  BY <1>1, <1>2, TailOf
<1>4. Head(net.out).msg \in Int /\ Head(net.out).data \in Nat /\ Head(net.out).acked \in Nat
  BY <1>2, <1>3, ListOf
<1>5. /\ net'.up = net.up /\ net'.in = net.in /\ net'.out = Tail(net.out)
      /\ net' \in [up : BOOLEAN, out : Seq(Msg), in : Seq(Msg)]
  BY <1>0, <1>1, <1>3 DEF TypeOK
<1>6. Chained(net.out, srv.inmsg) /\ (net.up => Follows(net.out, srv.inmsg, outmsg))
  BY <1>0, <1>1 DEF NoGap
<1>7. Head(net.out).msg <= srv.inmsg
  BY <1>1, <1>2, <1>6, ChainHead
<1>8. /\ Means(Head(net.out), outmsg, app.fed, inmsg)
      /\ AllMean(Tail(net.out), outmsg, app.fed, inmsg)
  BY <1>0, <1>1, <1>2, MeanTail DEF Meant
<1> QED  BY <1>1, <1>2, <1>3, <1>4, <1>5, <1>6, <1>7, <1>8

\* The server's end has the message in turn.
LEMMA SrvAcceptIInv ==
  ASSUME IInv, SrvRead, Head(net.out).data # 0, Head(net.out).msg = srv.inmsg
  PROVE  IInv'
<1>0. TypeOK /\ Counted /\ Kept /\ Meant /\ NoGap /\ Passed
  BY DEF IInv
<1> DEFINE b == Head(net.out)
<1>1. /\ srv' = [srv EXCEPT !.inmsg = @ + 1, !.got = Append(@, b.data),
                            !.unacked = Unacknowledged(@, b.acked)]
      /\ UNCHANGED <<breaks, inmsg, outmsg, unacked, lastacked, writer, reader, app>>
  BY DEF SrvRead, Client
<1>2. /\ net'.up = net.up /\ net'.in = net.in /\ net'.out = Tail(net.out)
      /\ net' \in [up : BOOLEAN, out : Seq(Msg), in : Seq(Msg)]
      /\ net.out \in Seq(Msg) /\ net.out # <<>>
      /\ b.data \in Nat /\ b.acked \in Nat
      /\ Means(b, outmsg, app.fed, inmsg)
      /\ AllMean(Tail(net.out), outmsg, app.fed, inmsg)
      /\ ~srv.eof
      /\ Chained(net.out, srv.inmsg)
      /\ net.up => Follows(net.out, srv.inmsg, outmsg)
  BY SrvNextMessage
<1>3. b.data # 0 /\ b.msg = srv.inmsg
  OBVIOUS
<1> HIDE DEF b
<1>t. /\ inmsg \in Nat /\ outmsg \in Nat /\ lastacked \in Nat /\ app.fed \in Nat
      /\ srv.inmsg \in Nat /\ srv.outmsg \in Nat /\ srv.fed \in Nat
      /\ srv.unacked \in Seq(Msg) /\ srv.got \in Seq(Nat) /\ net.in \in Seq(Msg)
      /\ Len(srv.unacked) \in Nat /\ reader.b.acked \in Nat
  <2>1. /\ inmsg \in Nat /\ outmsg \in Nat /\ lastacked \in Nat /\ app.fed \in Nat
        /\ srv.inmsg \in Nat /\ srv.outmsg \in Nat /\ srv.fed \in Nat
        /\ srv.unacked \in Seq(Msg) /\ srv.got \in Seq(Nat) /\ net.in \in Seq(Msg)
        /\ reader.b.acked \in Nat
    BY <1>0, Typed
  <2> QED  BY <2>1, ListOf
<1>4. srv.inmsg < app.fed /\ b.acked <= inmsg
  BY <1>2, <1>3, <1>t DEF Means, Sync
<1> DEFINE first == srv.outmsg - Len(srv.unacked)
           k == IF b.acked > first THEN b.acked - first ELSE 0
           left == SubSeq(srv.unacked, k + 1, Len(srv.unacked))
<1>5. /\ first \in Nat /\ first <= inmsg /\ Numbered(srv.unacked, first)
      /\ first + Len(srv.unacked) = srv.outmsg
  BY <1>0, <1>t DEF Kept
<1>6. inmsg <= srv.outmsg
  BY <1>0, <1>t DEF Counted
<1>7. /\ k \in 0 .. Len(srv.unacked) /\ first + k \in 0 .. inmsg
      /\ Unacknowledged(srv.unacked, b.acked) = left
  <2>1. k \in 0 .. Len(srv.unacked) /\ first + k \in 0 .. inmsg
    <3> HIDE DEF first
    <3>1. CASE b.acked > first
      <4>1. k = b.acked - first
        BY <3>1
      <4>2. b.acked \in Nat /\ b.acked <= inmsg
        BY <1>2, <1>4
      <4> HIDE DEF k
      <4>3. k \in Nat /\ first + k = b.acked
        BY <1>5, <3>1, <4>1, <4>2
      <4> QED  BY <1>5, <1>6, <1>t, <4>2, <4>3
    <3>2. CASE ~(b.acked > first)
      <4>1. k = 0
        BY <3>2
      <4> QED  BY <1>5, <1>t, <4>1
    <3> QED  BY <3>1, <3>2
  <2>2. (IF b.acked > first THEN b.acked - first + 1 ELSE 1) = k + 1
    BY <1>2, <1>5
  <2> QED  BY <2>1, <2>2 DEF Unacknowledged
<1> HIDE DEF k, first
<1>8. left \in Seq(Msg) /\ Len(left) = Len(srv.unacked) - k /\ Numbered(left, first + k)
  BY <1>5, <1>7, <1>t, NumberedStretch
<1>9. AllMean(left, srv.outmsg, srv.fed, srv.inmsg)
  <2>1. /\ k + 1 \in 1 .. Len(srv.unacked) + 1
        /\ Len(srv.unacked) \in 0 .. Len(srv.unacked) /\ k + 1 <= Len(srv.unacked) + 1
    BY <1>7, <1>t
  <2> QED  BY <1>0, <1>t, <2>1, MeanStretch DEF Meant
<1> HIDE DEF left
<1>10. /\ srv'.inmsg = srv.inmsg + 1 /\ srv'.outmsg = srv.outmsg /\ srv'.unacked = left
       /\ srv'.fed = srv.fed /\ srv'.closed = srv.closed
       /\ srv'.got = Append(srv.got, b.data) /\ srv'.eof = srv.eof
  BY <1>0, <1>1, <1>7 DEF TypeOK
<1>11. Append(srv.got, b.data) \in Seq(Nat) /\ Len(Append(srv.got, b.data)) = Len(srv.got) + 1
  BY <1>2, <1>t
<1>12. TypeOK'
  <2>1. srv.inmsg + 1 \in Nat
    BY <1>t
  <2>2. srv' \in [inmsg : Nat, outmsg : Nat, unacked : Seq(Msg), fed : 0 .. MaxIn,
                  closed : BOOLEAN, got : Seq(Nat), eof : BOOLEAN]
    BY <1>0, <1>1, <1>7, <1>8, <1>11, <2>1 DEF TypeOK
  <2>3. inmsg' \in 0 .. srv'.outmsg /\ lastacked' \in 0 .. srv'.inmsg
    <3>1. lastacked \in 0 .. srv.inmsg + 1
      BY <1>0, <1>t DEF Kept
    <3> QED  BY <1>0, <1>1, <1>10, <3>1 DEF TypeOK
  <2> QED  BY <1>0, <1>1, <1>2, <2>2, <2>3 DEF TypeOK
<1>13. Counted'
  BY <1>0, <1>1, <1>4, <1>10, <1>11, <1>t DEF Counted
<1>14. Kept'
  <2>1. srv'.outmsg - Len(srv'.unacked) = first + k
    <3>1. Len(srv'.unacked) = Len(srv.unacked) - k /\ srv'.outmsg = srv.outmsg
      BY <1>8, <1>10
    <3> QED  BY <1>5, <1>7, <1>t, <3>1
  <2>2. lastacked <= srv'.inmsg
    BY <1>0, <1>10, <1>t DEF Kept
  <2> QED  BY <1>0, <1>1, <1>7, <1>8, <1>10, <2>1, <2>2 DEF Kept
<1>15. Meant'
  <2>1. /\ AllMean(net.in, srv.outmsg, srv.fed, srv'.inmsg)
        /\ AllMean(left, srv.outmsg, srv.fed, srv'.inmsg)
    <3>1. AllMean(net.in, srv.outmsg, srv.fed, srv.inmsg)
      BY <1>0 DEF Meant
    <3>2. /\ srv'.inmsg \in Nat /\ srv.inmsg <= srv'.inmsg
          /\ srv.outmsg <= srv.outmsg /\ srv.fed <= srv.fed
      BY <1>10, <1>t
    <3> QED  BY <1>8, <1>9, <1>t, <3>1, <3>2, MeanGrows
  <2>2. reader.b.acked <= srv'.inmsg
    BY <1>0, <1>10, <1>t DEF Meant
  <2> QED  BY <1>0, <1>1, <1>2, <1>10, <2>1, <2>2 DEF Meant
<1>16. NoGap'
  <2>1. srv'.inmsg \in Nat /\ srv.inmsg <= srv'.inmsg /\ Head(net.out).msg < srv'.inmsg
    BY <1>3, <1>10, <1>t DEF b
  <2>2. /\ Chained(Tail(net.out), srv'.inmsg)
        /\ net.up => Follows(Tail(net.out), srv'.inmsg, outmsg)
    BY <1>2, <1>t, <2>1, ChainTail
  <2> QED  BY <1>0, <1>1, <1>2, <1>10, <2>2 DEF NoGap, Open
<1>17. Passed'
  BY <1>0, <1>1 DEF Passed, Holding
<1> QED  BY <1>12, <1>13, <1>14, <1>15, <1>16, <1>17 DEF IInv

\* The server's end has the end of what drawterm writes, an old message or an
\* empty one.
LEMMA SrvPassIInv ==
  ASSUME IInv, SrvRead, ~(Head(net.out).data # 0 /\ Head(net.out).msg = srv.inmsg)
  PROVE  IInv'
<1>0. TypeOK /\ Counted /\ Kept /\ Meant /\ NoGap /\ Passed
  BY DEF IInv
<1> DEFINE b == Head(net.out)
<1>1. UNCHANGED <<breaks, inmsg, outmsg, unacked, lastacked, writer, reader, app>>
  BY DEF SrvRead, Client
<1>2. /\ net'.up = net.up /\ net'.in = net.in /\ net'.out = Tail(net.out)
      /\ net' \in [up : BOOLEAN, out : Seq(Msg), in : Seq(Msg)]
      /\ net.out \in Seq(Msg) /\ net.out # <<>>
      /\ b.msg \in Int /\ b.msg <= srv.inmsg
      /\ AllMean(Tail(net.out), outmsg, app.fed, inmsg)
      /\ Chained(net.out, srv.inmsg)
      /\ net.up => Follows(net.out, srv.inmsg, outmsg)
  BY SrvNextMessage
<1>t. srv.inmsg \in Nat /\ outmsg \in Nat
  BY <1>0, Typed
<1>3. CASE b.data = 0 /\ b.msg # Sync
  <2>1. srv' = [srv EXCEPT !.eof = TRUE]
    BY <1>3 DEF SrvRead
  <2>2. /\ srv'.inmsg = srv.inmsg /\ srv'.outmsg = srv.outmsg /\ srv'.unacked = srv.unacked
        /\ srv'.fed = srv.fed /\ srv'.closed = srv.closed /\ srv'.got = srv.got
        /\ srv'.eof = TRUE
    BY <1>0, <2>1 DEF TypeOK
  <2>3. TypeOK'
    <3>1. srv' \in [inmsg : Nat, outmsg : Nat, unacked : Seq(Msg), fed : 0 .. MaxIn,
                    closed : BOOLEAN, got : Seq(Nat), eof : BOOLEAN]
      BY <1>0, <2>1 DEF TypeOK
    <3>2. inmsg' \in 0 .. srv'.outmsg /\ lastacked' \in 0 .. srv'.inmsg
      BY <1>0, <1>1, <2>2 DEF TypeOK
    <3> QED  BY <1>0, <1>1, <1>2, <3>1, <3>2 DEF TypeOK
  <2>4. Counted' /\ Kept' /\ Passed'
    BY <1>0, <1>1, <2>2 DEF Counted, Kept, Passed, Holding
  <2>5. Meant'
    BY <1>0, <1>1, <1>2, <2>2 DEF Meant
  <2>6. NoGap'
    BY <1>0, <1>1, <1>2, <2>2 DEF NoGap, Open
  <2> QED  BY <2>3, <2>4, <2>5, <2>6 DEF IInv
<1>4. CASE ~(b.data = 0 /\ b.msg # Sync)
  <2>1. srv' = srv
    BY <1>4 DEF SrvRead
  <2>2. TypeOK' /\ Counted' /\ Kept' /\ Passed'
    BY <1>0, <1>1, <1>2, <2>1 DEF TypeOK, Counted, Kept, Passed, Holding
  <2>3. Meant'
    BY <1>0, <1>1, <1>2, <2>1 DEF Meant
  <2>4. NoGap'
    <3>1. b.msg < srv.inmsg /\ srv.inmsg <= srv.inmsg
      BY <1>2, <1>4, <1>t DEF Sync
    <3>2. /\ Chained(Tail(net.out), srv.inmsg)
          /\ net.up => Follows(Tail(net.out), srv.inmsg, outmsg)
      BY <1>2, <1>t, <3>1, ChainTail
    <3> QED  BY <1>0, <1>1, <1>2, <2>1, <3>2 DEF NoGap, Open
  <2> QED  BY <2>2, <2>3, <2>4 DEF IInv
<1> QED  BY <1>3, <1>4

\* Every step keeps the invariant.
LEMMA NextIInv == IInv /\ [Next]_vars => IInv'
<1> SUFFICES ASSUME IInv, [Next]_vars
             PROVE  IInv'
  OBVIOUS
<1>1. CASE Break \/ AppClose
  BY <1>1, BreakIInv, AppCloseIInv
<1>2. CASE Aanwriter \/ WriterStep \/ Aansyncer
  BY <1>2, AanwriterIInv, AanwriterEofIInv, AanwriterEndIInv, AansyncerIInv DEF WriterStep
<1>3. CASE ReaderStep
  BY <1>3, AcceptIInv, SkipIInv, RemoteEofIInv, TrimIInv, DeliverIInv, ReaderMovesIInv,
     ReconnectIInv DEF ReaderStep
<1>4. CASE SrvWrite \/ SrvEnd \/ SrvSync
  BY <1>4, SrvWriteIInv, SrvEndIInv, SrvSyncIInv
<1>5. CASE SrvRead
  BY <1>5, SrvAcceptIInv, SrvPassIInv
<1>6. CASE UNCHANGED vars
  BY <1>6 DEF vars, IInv, TypeOK, Counted, Kept, Meant, NoGap, Open, Passed, Holding
<1> QED  BY <1>1, <1>2, <1>3, <1>4, <1>5, <1>6 DEF Next

\* The invariant holds throughout.
THEOREM SpecIInv == Spec => []IInv
  BY InitIInv, NextIInv, PTL DEF Spec

\* The variables of aan keep their types; no counter runs ahead of what the
\* other end has sent.
THEOREM AanTypeOK == Spec => []TypeOK
<1>1. IInv => TypeOK
  BY DEF IInv
<1> QED  BY <1>1, SpecIInv, PTL

\* What the server has not received is kept, in order, each message once, and
\* nothing is freed twice: however often the connection breaks.
THEOREM AanUnackedKept == Spec => []UnackedKept
<1>1. ASSUME IInv
      PROVE  UnackedKept
  <2>0. TypeOK /\ Kept /\ Counted
    BY <1>1 DEF IInv
  <2>1. unacked \in Seq(Msg) /\ outmsg \in Nat /\ lastacked \in Nat /\ Len(unacked) \in Nat
    <3>1. unacked \in Seq(Msg) /\ outmsg \in Nat /\ lastacked \in Nat
      BY <2>0, Typed
    <3> QED  BY <3>1, ListOf
  <2>2. /\ lastacked <= srv.inmsg /\ Len(unacked) = outmsg - lastacked
        /\ Numbered(unacked, lastacked)
    BY <2>0 DEF Kept
  <2>3. DOMAIN unacked = 1 .. outmsg - lastacked
    BY <2>1, <2>2
  <2>4. \A i \in DOMAIN unacked : unacked[i].msg = lastacked + i - 1
    BY <2>2 DEF Numbered
  <2> QED  BY <2>2, <2>3, <2>4 DEF UnackedKept
<1> QED  BY <1>1, SpecIInv, PTL

-----------------------------------------------------------------------------
\* The two programs see a reliable pipe.

\* Nothing has been written.
LEMMA PipeInit == Init => Pipe!Init
  BY DEF Init, Pipe!Init, Pipe!Directions

\* A step that neither program sees.
LEMMA PipeQuiet ==
  ASSUME app'.fed = app.fed, app'.closed = app.closed, app'.got = app.got, app'.eof = app.eof,
         srv'.fed = srv.fed, srv'.closed = srv.closed, srv'.got = srv.got, srv'.eof = srv.eof
  PROVE  UNCHANGED Pipe!vars
  BY DEF Pipe!vars

\* A program writes a piece.
LEMMA PipeWrite ==
  ASSUME app'.closed = app.closed, app'.got = app.got, app'.eof = app.eof,
         srv'.closed = srv.closed, srv'.got = srv.got, srv'.eof = srv.eof,
         \/ ~app.closed /\ app'.fed = app.fed + 1 /\ srv'.fed = srv.fed
         \/ ~srv.closed /\ srv'.fed = srv.fed + 1 /\ app'.fed = app.fed
  PROVE  Pipe!Next
<1>1. CASE ~app.closed /\ app'.fed = app.fed + 1 /\ srv'.fed = srv.fed
  <2>1. Pipe!Write("out")
    BY <1>1 DEF Pipe!Write
  <2> QED  BY <2>1 DEF Pipe!Next, Pipe!Directions
<1>2. CASE ~srv.closed /\ srv'.fed = srv.fed + 1 /\ app'.fed = app.fed
  <2>1. Pipe!Write("in")
    BY <1>2 DEF Pipe!Write
  <2> QED  BY <2>1 DEF Pipe!Next, Pipe!Directions
<1> QED  BY <1>1, <1>2

\* A program closes its end.
LEMMA PipeEnd ==
  ASSUME app'.fed = app.fed, app'.got = app.got, app'.eof = app.eof,
         srv'.fed = srv.fed, srv'.got = srv.got, srv'.eof = srv.eof,
         \/ app'.closed = TRUE /\ srv'.closed = srv.closed
         \/ srv'.closed = TRUE /\ app'.closed = app.closed
  PROVE  Pipe!Next
<1>1. CASE app'.closed = TRUE /\ srv'.closed = srv.closed
  <2>1. Pipe!End("out")
    BY <1>1 DEF Pipe!End
  <2> QED  BY <2>1 DEF Pipe!Next, Pipe!Directions
<1>2. CASE srv'.closed = TRUE /\ app'.closed = app.closed
  <2>1. Pipe!End("in")
    BY <1>2 DEF Pipe!End
  <2> QED  BY <2>1 DEF Pipe!Next, Pipe!Directions
<1> QED  BY <1>1, <1>2

\* A program gets the piece in turn.
LEMMA PipeArrive ==
  ASSUME app'.fed = app.fed, app'.closed = app.closed, app'.eof = app.eof,
         srv'.fed = srv.fed, srv'.closed = srv.closed, srv'.eof = srv.eof,
         \/ /\ ~srv.eof /\ Len(srv.got) < app.fed
            /\ srv'.got = Append(srv.got, Len(srv.got) + 1) /\ app'.got = app.got
         \/ /\ ~app.eof /\ Len(app.got) < srv.fed
            /\ app'.got = Append(app.got, Len(app.got) + 1) /\ srv'.got = srv.got
  PROVE  Pipe!Next
<1>1. CASE /\ ~srv.eof /\ Len(srv.got) < app.fed
           /\ srv'.got = Append(srv.got, Len(srv.got) + 1) /\ app'.got = app.got
  <2>1. Pipe!Arrive("out")
    BY <1>1 DEF Pipe!Arrive
  <2> QED  BY <2>1 DEF Pipe!Next, Pipe!Directions
<1>2. CASE /\ ~app.eof /\ Len(app.got) < srv.fed
           /\ app'.got = Append(app.got, Len(app.got) + 1) /\ srv'.got = srv.got
  <2>1. Pipe!Arrive("in")
    BY <1>2 DEF Pipe!Arrive
  <2> QED  BY <2>1 DEF Pipe!Next, Pipe!Directions
<1> QED  BY <1>1, <1>2

\* A program sees the end, after all that was written.
LEMMA PipeSeeEnd ==
  ASSUME app'.fed = app.fed, app'.closed = app.closed, app'.got = app.got,
         srv'.fed = srv.fed, srv'.closed = srv.closed, srv'.got = srv.got,
         \/ /\ app.closed /\ Len(srv.got) = app.fed
            /\ srv'.eof = TRUE /\ app'.eof = app.eof
         \/ /\ srv.closed /\ Len(app.got) = srv.fed
            /\ app'.eof = TRUE /\ srv'.eof = srv.eof
  PROVE  Pipe!Next
<1>1. CASE /\ app.closed /\ Len(srv.got) = app.fed
           /\ srv'.eof = TRUE /\ app'.eof = app.eof
  <2>1. Pipe!SeeEnd("out")
    BY <1>1 DEF Pipe!SeeEnd
  <2> QED  BY <2>1 DEF Pipe!Next, Pipe!Directions
<1>2. CASE /\ srv.closed /\ Len(app.got) = srv.fed
           /\ app'.eof = TRUE /\ srv'.eof = srv.eof
  <2>1. Pipe!SeeEnd("in")
    BY <1>2 DEF Pipe!SeeEnd
  <2> QED  BY <2>1 DEF Pipe!Next, Pipe!Directions
<1> QED  BY <1>1, <1>2

\* The program gets the piece in turn, or nothing any more.
LEMMA DeliverPipe == ASSUME IInv, Deliver PROVE [Pipe!Next]_Pipe!vars
<1>0. TypeOK /\ Counted /\ Passed
  BY DEF IInv
<1>1. CASE writer = "gone" \/ app.closed
  <2>1. app'.got = app.got /\ app'.fed = app.fed /\ app'.closed = app.closed
        /\ app'.eof = app.eof /\ srv' = srv
    BY <1>0, <1>1 DEF Deliver, TypeOK
  <2> QED  BY <2>1, PipeQuiet
<1>2. CASE writer # "gone" /\ ~app.closed
  <2>1. /\ reader.at = "write" /\ srv' = srv
        /\ app'.got = Append(app.got, reader.b.data) /\ app'.fed = app.fed
        /\ app'.closed = app.closed /\ app'.eof = app.eof
    BY <1>0, <1>2 DEF Deliver, TypeOK
  <2>2. reader.b.data = inmsg /\ Len(app.got) = inmsg - 1 /\ ~app.eof
    BY <1>0, <1>2, <2>1 DEF Passed, Holding
  <2>3. inmsg \in Nat /\ inmsg <= srv.fed /\ srv.fed \in Nat
    BY <1>0, Typed DEF Counted
  <2>4. Len(app.got) + 1 = inmsg /\ Len(app.got) < srv.fed
    BY <2>2, <2>3
  <2>5. app'.got = Append(app.got, Len(app.got) + 1)
    BY <2>1, <2>2, <2>4
  <2> QED  BY <2>1, <2>2, <2>4, <2>5, PipeArrive
<1> QED  BY <1>1, <1>2

\* The program sees the end after everything the server wrote.
LEMMA RemoteEofPipe == ASSUME IInv, RemoteEof PROVE [Pipe!Next]_Pipe!vars
<1>0. TypeOK /\ Counted /\ Passed
  BY DEF IInv
<1> DEFINE b == Head(net.in)
<1>1. /\ Incoming /\ NextIn /\ b.data = 0 /\ b.msg # Sync /\ srv' = srv
      /\ app' = [app EXCEPT !.eof = writer = "run" /\ ~app.closed]
  BY DEF RemoteEof
<1>2. /\ app'.fed = app.fed /\ app'.closed = app.closed /\ app'.got = app.got
      /\ app'.eof = (writer = "run" /\ ~app.closed)
  BY <1>0, <1>1 DEF TypeOK
<1>3. /\ Means(b, srv.outmsg, srv.fed, srv.inmsg) /\ b.msg \in Int /\ b.msg <= inmsg
      /\ reader.at = "read" /\ ~Holding
  BY <1>1, NextMessage
<1>4. CASE writer = "run" /\ ~app.closed
  <2>1. inmsg \in Nat /\ srv.fed \in Nat /\ srv.outmsg \in Nat
    BY <1>0, Typed
  <2>2. b.msg \in 0 .. srv.outmsg - 1 /\ ~(b.msg < srv.fed)
    <3>1. b.msg \in 0 .. srv.outmsg - 1 /\ b.data = IF b.msg < srv.fed THEN b.msg + 1 ELSE 0
      BY <1>1, <1>3 DEF Means
    <3> QED  BY <1>1, <3>1
  <2>3. /\ inmsg <= srv.fed /\ Len(app.got) = inmsg
        /\ srv.outmsg = srv.fed + (IF srv.closed THEN 1 ELSE 0)
    BY <1>0, <1>3, <1>4 DEF Counted, Passed
  <2>4. srv.closed /\ Len(app.got) = srv.fed
    <3> HIDE DEF b
    <3> QED  BY <1>3, <2>1, <2>2, <2>3
  <2>5. app'.eof = TRUE
    BY <1>2, <1>4
  <2> QED  BY <1>1, <1>2, <2>4, <2>5, PipeSeeEnd
<1>5. CASE ~(writer = "run" /\ ~app.closed)
  <2>1. app.eof = FALSE
    BY <1>0, <1>3 DEF Passed, TypeOK
  <2>2. app'.eof = FALSE
    BY <1>2, <1>5
  <2> QED  BY <1>1, <1>2, <2>1, <2>2, PipeQuiet
<1> QED  BY <1>4, <1>5

\* The server gets the piece in turn, sees the end after everything the
\* program wrote, or nothing.
LEMMA SrvReadPipe == ASSUME IInv, SrvRead PROVE [Pipe!Next]_Pipe!vars
<1>0. TypeOK /\ Counted
  BY DEF IInv
<1> DEFINE b == Head(net.out)
<1>1. app' = app
  BY DEF SrvRead
<1>2. /\ Means(b, outmsg, app.fed, inmsg) /\ b.msg \in Int /\ b.msg <= srv.inmsg
      /\ ~srv.eof
  BY SrvNextMessage
<1>3. /\ outmsg \in Nat /\ app.fed \in Nat /\ app.eofs \in Nat /\ srv.inmsg \in Nat
      /\ outmsg = app.fed + app.eofs /\ (app.eofs > 0 => app.closed)
      /\ srv.inmsg = Len(srv.got) /\ srv.inmsg <= app.fed
  BY <1>0, Typed DEF Counted
<1>4. CASE b.data # 0 /\ b.msg = srv.inmsg
  <2>1. srv' = [srv EXCEPT !.inmsg = @ + 1, !.got = Append(@, b.data),
                           !.unacked = Unacknowledged(@, b.acked)]
    BY <1>4 DEF SrvRead
  <2>2. /\ srv'.got = Append(srv.got, b.data) /\ srv'.fed = srv.fed
        /\ srv'.closed = srv.closed /\ srv'.eof = srv.eof
    BY <1>0, <2>1 DEF TypeOK
  <2>3. b.data = srv.inmsg + 1 /\ srv.inmsg < app.fed
    <3>1. b.msg # Sync
      BY <1>3, <1>4 DEF Sync
    <3>2. b.data = IF b.msg < app.fed THEN b.msg + 1 ELSE 0
      BY <1>2, <3>1 DEF Means
    <3> QED  BY <1>4, <3>2
  <2>4. srv'.got = Append(srv.got, Len(srv.got) + 1) /\ Len(srv.got) < app.fed
    BY <1>3, <2>2, <2>3
  <2> QED  BY <1>1, <1>2, <2>2, <2>4, PipeArrive
<1>5. CASE b.data = 0 /\ b.msg # Sync
  <2>1. srv' = [srv EXCEPT !.eof = TRUE]
    BY <1>5 DEF SrvRead
  <2>2. /\ srv'.got = srv.got /\ srv'.fed = srv.fed
        /\ srv'.closed = srv.closed /\ srv'.eof = TRUE
    BY <1>0, <2>1 DEF TypeOK
  <2>3. b.msg \in 0 .. outmsg - 1 /\ ~(b.msg < app.fed)
    <3>1. b.msg \in 0 .. outmsg - 1 /\ b.data = IF b.msg < app.fed THEN b.msg + 1 ELSE 0
      BY <1>2, <1>5 DEF Means
    <3> QED  BY <1>5, <3>1
  <2>4. app.closed /\ Len(srv.got) = app.fed
    <3> HIDE DEF b
    <3> QED  BY <1>2, <1>3, <2>3
  <2> QED  BY <1>1, <2>2, <2>4, PipeSeeEnd
<1>6. CASE ~(b.data # 0 /\ b.msg = srv.inmsg) /\ ~(b.data = 0 /\ b.msg # Sync)
  <2>1. srv' = srv
    BY <1>6 DEF SrvRead
  <2> QED  BY <1>1, <2>1, PipeQuiet
<1> QED  BY <1>4, <1>5, <1>6

\* Every step is one of the pipe, or none.
LEMMA PipeStep == IInv /\ [Next]_vars => [Pipe!Next]_Pipe!vars
<1> SUFFICES ASSUME IInv, [Next]_vars
             PROVE  [Pipe!Next]_Pipe!vars
  OBVIOUS
<1>0. TypeOK
  BY DEF IInv
<1>1. CASE UNCHANGED <<app, srv>>
  BY <1>1, PipeQuiet
<1>2. CASE AppClose
  <2>1. /\ app'.fed = app.fed /\ app'.closed = TRUE /\ app'.got = app.got
        /\ app'.eof = app.eof /\ srv' = srv
    BY <1>0, <1>2 DEF AppClose, TypeOK
  <2> QED  BY <2>1, PipeEnd
<1>3. CASE Aanwriter
  <2>1. /\ ~app.closed /\ app'.fed = app.fed + 1 /\ app'.closed = app.closed
        /\ app'.got = app.got /\ app'.eof = app.eof /\ srv' = srv
    BY <1>0, <1>3 DEF Aanwriter, Aanwrite, TypeOK
  <2> QED  BY <2>1, PipeWrite
<1>4. CASE AanwriterEof
  <2>1. /\ app'.fed = app.fed /\ app'.closed = app.closed
        /\ app'.got = app.got /\ app'.eof = app.eof /\ srv' = srv
    BY <1>0, <1>4 DEF AanwriterEof, Aanwrite, TypeOK
  <2> QED  BY <2>1, PipeQuiet
<1>5. CASE Reconnect
  <2>1. /\ srv'.fed = srv.fed /\ srv'.closed = srv.closed
        /\ srv'.got = srv.got /\ srv'.eof = srv.eof /\ app' = app
    BY <1>0, <1>5 DEF Reconnect, TypeOK
  <2> QED  BY <2>1, PipeQuiet
<1>6. CASE SrvWrite
  <2>1. /\ ~srv.closed /\ srv'.fed = srv.fed + 1 /\ srv'.closed = srv.closed
        /\ srv'.got = srv.got /\ srv'.eof = srv.eof /\ app' = app
    BY <1>0, <1>6 DEF SrvWrite, SrvSend, TypeOK
  <2> QED  BY <2>1, PipeWrite
<1>7. CASE SrvEnd
  <2>1. /\ srv'.fed = srv.fed /\ srv'.closed = TRUE
        /\ srv'.got = srv.got /\ srv'.eof = srv.eof /\ app' = app
    BY <1>0, <1>7 DEF SrvEnd, SrvSend, TypeOK
  <2> QED  BY <2>1, PipeEnd
<1>8. CASE \/ Break \/ AanwriterEnd \/ Aansyncer \/ Accept \/ Skip \/ Trim \/ ReadFails
           \/ DialTimeout \/ SrvSync \/ UNCHANGED vars
  <2>1. UNCHANGED <<app, srv>>
    BY <1>8 DEF Break, AanwriterEnd, Aansyncer, Accept, Skip, Trim, ReadFails,
       DialTimeout, SrvSync, vars
  <2> QED  BY <1>1, <2>1
<1> QED
  BY <1>2, <1>3, <1>4, <1>5, <1>6, <1>7, <1>8, DeliverPipe, RemoteEofPipe, SrvReadPipe
  DEF Next, WriterStep, ReaderStep

\* aan implements ReliablePipe: whatever breaks, what one program writes the
\* other reads in order, each piece once, and the end only after all of it.
THEOREM AanPipe == Spec => PipeSpec
<1>1. Spec => Pipe!Init
  BY PipeInit DEF Spec
<1> QED  BY <1>1, PipeStep, SpecIInv, PTL DEF Spec, PipeSpec, Pipe!Spec
=============================================================================
