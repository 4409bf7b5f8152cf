----------------------------- MODULE TlsProofs -----------------------------
(***************************************************************************)
(* Two ends of TLS that meet over a wire that may break agree on what they *)
(* read, on the suite and on the secrets, for any pre-shared keys, any     *)
(* certificate, any number of messages and any suites: InStep, OpenAgreed  *)
(* and the pair of streams the programs see.                               *)
(*                                                                         *)
(* The invariant has a part for each thing that may be under way.  Place   *)
(* says, for each place of the handshake, what the end holds and has still *)
(* to read; Link says what the records sealed by the other end and not yet *)
(* opened are: the rest of the script of the handshake, then the data in   *)
(* order, then an alert.  Each action is shown to move one end along the   *)
(* script and to leave the other end where it is.                          *)
(***************************************************************************)
EXTENDS Tls, SequenceTheorems, TLAPS

-----------------------------------------------------------------------------
(* What two ends set up as c do when nothing goes wrong *)

\* The suite the server picks, and the secrets and keys made with it: each end
\* seals with its SendKey and expects its ReadKey.
Common(c) == {i \in Offer(c.cpsk) \intersect Offer(c.spsk) : Suites[i].kx \in c.skx}
Chosen(c) == IF Common(c) = {} THEN NoCipher ELSE Suites[Lowest(Common(c))]
Psk(c, e) == IF e = "c" THEN c.cpsk ELSE c.spsk
MasterOf(c, e) == Master(Chosen(c).kx, c.cert # "none", Psk(c, e))
SendKey(c, e) == Key(MasterOf(c, e), Chosen(c), e)
ReadKey(c, e) == Key(MasterOf(c, e), Chosen(c), Other(e))

\* The messages: the server's flight as it is, and what is left of it at each
\* place of the client
CHello(c) == [tag |-> "ClientHello", vers |-> ProtocolVersion, suites |-> Offer(c.cpsk)]
SHello(c) == [tag |-> "ServerHello", vers |-> Lower(c.svers, ProtocolVersion), cipher |-> Chosen(c)]
Cert == [tag |-> "Certificate"]
SKey(c) == [tag |-> "ServerKeyExchange", sig |-> c.cert]
Done == [tag |-> "HelloDone"]
CertPart(c) == IF c.cert = "none" THEN <<>> ELSE <<Cert>>
KeyPart(c) == IF Chosen(c).kx = "ecdhe" THEN <<SKey(c)>> ELSE <<>>
AtDone == <<Done>>
AtKey(c) == KeyPart(c) \o AtDone
AtCert(c) == CertPart(c) \o AtKey(c)
Flight(c) == <<SHello(c)>> \o AtCert(c)
CKey(c) == [tag |-> "ClientKeyExchange", pskid |-> c.cpskid]
HRequest == [tag |-> "HelloRequest"]

\* The transcript up to each message, and the Finished made of it
ToHello(c) == <<CHello(c)>> \o <<SHello(c)>>
ToCert(c) == ToHello(c) \o CertPart(c)
ToSKey(c) == ToCert(c) \o KeyPart(c)
ToFlight(c) == <<CHello(c)>> \o Flight(c)
ToCKey(c) == ToFlight(c) \o <<CKey(c)>>
CFin(c) == [tag |-> "Finished",
            verify |-> [by |-> "c", master |-> MasterOf(c, "c"), hash |-> ToCKey(c)]]
ToCFin(c) == ToCKey(c) \o <<CFin(c)>>
SFin(c) == [tag |-> "Finished",
            verify |-> [by |-> "s", master |-> MasterOf(c, "s"), hash |-> ToCFin(c)]]

Bodies(c) == {<<CHello(c)>>, Flight(c), <<CKey(c)>>, <<CFin(c)>>, <<SFin(c)>>, <<HRequest>>}
Secs(c) == {NoSec} \union {SendKey(c, e) : e \in Ends} \union {ReadKey(c, e) : e \in Ends}

\* Record n of those on their way to e, which ends make in this order: the
\* hello, the flight or the client's key, the change of cipher, Finished, and
\* what follows; or in place of any the alert that ends it all.  The change of
\* cipher is record Turn(e).
Turn(e) == IF e = "c" THEN 2 ELSE 3
Fatal(r) == r.type = "alert" /\ r.body \in {"fatal", "close"}
Said(c, e, n) ==
  CASE e = "s" /\ n = 1 -> <<CHello(c)>>
    [] e = "s" /\ n = 2 -> <<CKey(c)>>
    [] e = "s" /\ n = 4 -> <<CFin(c)>>
    [] e = "c" /\ n = 1 -> Flight(c)
    [] OTHER -> <<SFin(c)>>
Script(c, e, n, r) ==
  /\ r.sec = IF n <= Turn(e) THEN NoSec ELSE SendKey(c, Other(e))
  /\ r.seq = IF n <= Turn(e) THEN 0 ELSE n - Turn(e) - 1
  /\ r.ver = IF e = "s" /\ n = 1 THEN ProtocolVersion ELSE c.svers
  /\ \/ Fatal(r)
     \/ n = Turn(e) /\ r.type = "ccs"
     \/ /\ n <= Turn(e) + 1 /\ n # Turn(e)
        /\ r.type = "hand" /\ r.body = Said(c, e, n)
        /\ e = "c" => Common(c) # {}
     \/ n > Turn(e) + 1 /\ r.type \in {"data", "hand"}
     \/ n > Turn(e) + 1 /\ r.type = "alert" /\ r.body = "noreneg"

-----------------------------------------------------------------------------
(* Types *)

Records(c, types, bodies) ==
  [type : types, ver : 0 .. 3, body : bodies, sec : Secs(c), seq : Nat]
Recs(c) ==
  Records(c, {"hand"}, Bodies(c)) \union Records(c, {"ccs"}, {1})
  \union Records(c, {"alert"}, {"fatal", "close", "noreneg"}) \union Records(c, {"data"}, Nat)

TlsRecs(c) ==
  [state : States, version : 0 .. 3, verset : BOOLEAN, opened : BOOLEAN,
   insec : Secs(c), innew : Secs(c), inseq : Nat,
   outsec : Secs(c), outnew : Secs(c), outseq : Nat,
   hand : BOOLEAN, handq : {<<>>} \union {<<b>> : b \in Bodies(c)},
   hprocessed : {<<>>, AtCert(c), AtKey(c), AtDone}]

ClientShaking == {"hello", "serverhello", "certificate", "keyexchange", "hellodone",
                  "changecipher", "finished", "serverfinished", "opening", "opened"}
ServerShaking == {"clienthello", "clientkey", "clientfinished", "changecipher", "finished",
                  "opening", "opened"}
Shaking == ClientShaking \union ServerShaking

TypeOK ==
  /\ conf \in Confs
  /\ tr \in [Ends -> TlsRecs(conf)]
  /\ pc \in [Ends -> Shaking \union {"nofinished", "err", "failed", "open", "closed"}]
  /\ cipher \in [Ends -> {NoCipher, Chosen(conf)}]
  /\ master \in [Ends -> {None, MasterOf(conf, "c"), MasterOf(conf, "s")}]
  /\ hash = [e \in Ends |-> hash[e]] /\ refused = [e \in Ends |-> refused[e]]
  /\ peercert \in BOOLEAN
  /\ wire \in [Ends -> Seq(Recs(conf))] /\ eof \in [Ends -> BOOLEAN] /\ broken \in BOOLEAN
  /\ fdopen \in [Ends -> BOOLEAN]
  /\ rd \in [Ends -> {"idle", "read", "noreneg", "dead"}]
  /\ wr \in [Writers -> {"idle", "want", "locked", "sealed", "dead"}]
  /\ DOMAIN pend = Writers
  /\ outio \in [Ends -> Writers \union {None}]
  /\ sent \in [Ends -> Nat] /\ got \in [Ends -> Seq(Nat)]
  /\ over \subseteq Ends /\ requested \in BOOLEAN

-----------------------------------------------------------------------------
(* One end, by the place l its handshake is at: t is its TlsRec, h its      *)
(* transcript, ci its cipher, ma its master secret                          *)

NoKeys(t) == t.insec = NoSec /\ t.innew = NoSec /\ t.outsec = NoSec /\ t.outnew = NoSec
Awaits(c, e, t) == t.insec = NoSec /\ t.innew = ReadKey(c, e)
Reads(c, e, t) == t.insec = ReadKey(c, e) /\ t.inseq >= 1 /\ c.cpsk = c.spsk
NoQueue(t) == t.handq = <<>> /\ t.hprocessed = <<>>
Queue(t, b) == t.handq = <<b>> /\ t.hprocessed = <<>>
Rest(t, s) == t.handq = <<>> /\ t.hprocessed = s

\* Finished is read: the change of cipher, then the message
Finishing(c, e, t, m) ==
  \/ Awaits(c, e, t) /\ NoQueue(t)
  \/ t.insec = ReadKey(c, e) /\ t.inseq = 0 /\ NoQueue(t)
  \/ Reads(c, e, t) /\ t.inseq = 1 /\ Queue(t, <<m>>)

ClientPlace(c, t, l, h, ci, ma, cert) ==
  /\ l = "hello" => NoQueue(t) /\ h = <<>>
  /\ l \in {"hello", "serverhello"} =>
       ~t.verset /\ t.version = ProtocolVersion /\ NoKeys(t) /\ ~cert
  /\ l = "serverhello" =>
       /\ \/ NoQueue(t) \/ Queue(t, <<HRequest>>)
          \/ Queue(t, Flight(c)) /\ Common(c) # {}
       /\ h = <<CHello(c)>>
  /\ l \notin {"hello", "serverhello", "nofinished", "err", "failed", "closed"} =>
       t.verset /\ t.version = c.svers /\ ci = Chosen(c)
  /\ l \in {"certificate", "keyexchange", "hellodone"} => NoKeys(t) /\ Common(c) # {}
  /\ l = "certificate" => Rest(t, AtCert(c)) /\ h = ToHello(c) /\ ~cert
  /\ l = "keyexchange" => Rest(t, AtKey(c)) /\ h = ToCert(c)
  /\ l = "hellodone" => Rest(t, AtDone) /\ h = ToSKey(c)
  /\ l \in {"keyexchange", "hellodone"} => cert = (c.cert # "none")
  /\ l = "hellodone" /\ c.cert # "good" => Chosen(c).kx # "ecdhe"
  /\ l \in {"changecipher", "finished", "serverfinished", "opening", "opened", "open"} =>
       ma = MasterOf(c, "c") /\ c.cert # "bad"
  /\ l = "changecipher" => t.outsec = NoSec /\ t.outnew = SendKey(c, "c")
  /\ l = "finished" => t.outsec = SendKey(c, "c") /\ t.outseq = 0
  /\ l \in {"changecipher", "finished"} => Awaits(c, "c", t) /\ NoQueue(t) /\ h = ToCKey(c)
  /\ l = "serverfinished" => /\ Finishing(c, "c", t, SFin(c)) /\ h = ToCFin(c)
                             /\ t.outsec = SendKey(c, "c") /\ t.outseq >= 1

ServerPlace(c, t, l, h, ci, ma) ==
  /\ l = "clienthello" => /\ ~t.verset /\ NoKeys(t) /\ h = <<>>
                          /\ NoQueue(t) \/ Queue(t, <<CHello(c)>>)
  /\ l \notin {"clienthello", "err", "failed", "closed"} =>
       t.verset /\ ci = Chosen(c) /\ Common(c) # {}
  /\ l = "clientkey" => /\ NoKeys(t) /\ h = ToFlight(c)
                        /\ NoQueue(t) \/ Queue(t, <<CKey(c)>>)
  /\ l \notin {"clienthello", "clientkey", "err", "failed", "closed"} => ma = MasterOf(c, "s")
  /\ l \in {"clientfinished", "changecipher"} => t.outsec = NoSec /\ t.outnew = SendKey(c, "s")
  /\ l = "clientfinished" => Finishing(c, "s", t, CFin(c)) /\ h = ToCKey(c)
  /\ l \in {"changecipher", "finished"} => Reads(c, "s", t) /\ NoQueue(t) /\ h = ToCFin(c)
  /\ l = "finished" => t.outsec = SendKey(c, "s") /\ t.outseq = 0

EndPlace(c, e, t, l, ci, ma) ==
  /\ l \in Shaking \ {"opened"} => t.state = "SHandshake"
  /\ l = "opened" => t.state = "SOpen"
  /\ l \in Shaking => t.hand
  /\ l \in {"nofinished", "err"} => t.state = "SError"
  /\ l \in {"opening", "opened"} => NoQueue(t)
  /\ l \in {"opened", "open"} => t.opened
  /\ l = "open" => ~t.hand
  /\ l \in {"opening", "opened", "open"} =>
       Reads(c, e, t) /\ t.outsec = SendKey(c, e) /\ t.outseq >= 1
  \* what an end has shown of its keys it keeps
  /\ t.outsec # NoSec => /\ t.outsec = SendKey(c, e) /\ ci = Chosen(c) /\ ma = MasterOf(c, e)
                         /\ t.version = c.svers
                         /\ e = "c" => c.cert # "bad"
  /\ t.opened => t.insec # NoSec /\ t.outsec # NoSec /\ c.cpsk = c.spsk

Place(e) ==
  /\ EndPlace(conf, e, tr[e], pc[e], cipher[e], master[e])
  /\ e = "c" => /\ pc[e] \notin ServerShaking \ ClientShaking
                /\ ClientPlace(conf, tr[e], pc[e], hash[e], cipher[e], master[e], peercert)
  /\ e = "s" => /\ pc[e] \notin (ClientShaking \ ServerShaking) \union {"nofinished"}
                /\ tr[e].version = conf.svers
                /\ ServerPlace(conf, tr[e], pc[e], hash[e], cipher[e], master[e])

\* The reader and the writers come when the handshake is done.
ReaderAt(e) ==
  /\ rd[e] \in {"read", "noreneg"} => pc[e] = "open"
  /\ pc[e] \notin {"open", "closed"} => rd[e] = "idle"
  /\ Other(e) \in over => rd[e] = "dead"
  /\ pc[e] \notin {"open", "closed"} => got[e] = <<>> /\ sent[e] = 0
  /\ Len(got[e]) <= sent[Other(e)]

LockAt(e) == outio[e] # None => Home[outio[e]] = e /\ wr[outio[e]] \in {"locked", "sealed"}

WriterAt(w) ==
  LET e == Home[w] IN
  /\ wr[w] \in {"locked", "sealed"} => outio[e] = w
  /\ wr[w] \in {"want", "locked", "sealed"} => pc[e] = "open"
  /\ wr[w] = "sealed" =>
       /\ pend[w] = [type |-> "data", ver |-> conf.svers, body |-> sent[e] + 1,
                     sec |-> SendKey(conf, e), seq |-> tr[e].outseq - 1]
       /\ tr[e].outseq >= 2

NetAt(e) == eof[e] <=> (broken \/ pc[Other(e)] \in {"failed", "closed"})

-----------------------------------------------------------------------------
(* The records on their way *)

\* A HelloRequest in front of the flight is no record of the script.
Asked(w) == w # <<>> /\ w[1].type = "hand" /\ w[1].sec = NoSec /\ w[1].body = <<HRequest>>
Skew(w) == IF Asked(w) THEN 1 ELSE 0

\* What is under way to e follows the n records it has taken.
Stream(c, e, n, w) ==
  /\ Asked(w) => e = "c" /\ n = 0
  /\ \A i \in 1 .. Len(w) : i > Skew(w) => Script(c, e, n + i - Skew(w), w[i])

\* The data in it is what comes after the first g pieces, of s written.
Carries(w, i, n) == \E j \in 1 .. i : w[j].type = "data" /\ w[j].body = n
Data(w, g, s) ==
  /\ \A i \in 1 .. Len(w) : w[i].type = "data" =>
       /\ w[i].body \in g + 1 .. s
       /\ \A n \in g + 1 .. w[i].body - 1 : Carries(w, i - 1, n)
  /\ \A i, j \in 1 .. Len(w) :
       i < j /\ w[i].type = "data" /\ w[j].type = "data" => w[i].body < w[j].body
AllBefore(w, i, g, s) == \A n \in g + 1 .. s : Carries(w, i, n)
Closes(r) == r.type = "alert" /\ r.body = "close"

\* e still reads, f still writes
Alive(e) == pc[e] \in Shaking \/ (pc[e] = "open" /\ rd[e] # "dead")
Sending(f) == pc[f] \in Shaking \union {"open"}
Flows(e) == Sending(Other(e)) /\ ~broken /\ ~eof[Other(e)]

\* the records an end has taken, and those it has made
Taken(c, e, t, l) ==
  IF t.insec # NoSec THEN Turn(e) + t.inseq
  ELSE IF e = "c"
  THEN IF l \in {"hello", "serverhello"} /\ t.handq # <<Flight(c)>> THEN 0 ELSE 1
  ELSE IF l = "clienthello" /\ t.handq = <<>> THEN 0
  ELSE IF l = "clienthello" \/ (l = "clientkey" /\ t.handq = <<>>) THEN 1 ELSE 2
Made(f, t, l) ==
  IF t.outsec # NoSec THEN Turn(Other(f)) + t.outseq
  ELSE IF l \in {"hello", "clienthello"} THEN 0
  ELSE IF f = "c" /\ l = "changecipher" THEN 2 ELSE 1
Pending(f) == IF outio[f] # None /\ wr[outio[f]] = "sealed" THEN 1 ELSE 0

Link(e) ==
  LET w == wire[e] f == Other(e) n == Taken(conf, e, tr[e], pc[e]) g == Len(got[e]) IN
  /\ tr[e].insec # NoSec => tr[f].outsec # NoSec
  /\ \A i \in 1 .. Len(w) : w[i].type = "ccs" \/ w[i].sec # NoSec => tr[f].outsec # NoSec
  /\ Alive(e) =>
       /\ Stream(conf, e, n, w)
       /\ Asked(w) => requested
       /\ Data(w, g, sent[f])
       /\ \A i \in 1 .. Len(w) : Closes(w[i]) => pc[f] = "closed" /\ AllBefore(w, i - 1, g, sent[f])
  /\ Alive(e) /\ Flows(e) =>
       /\ n + Len(w) - Skew(w) + Pending(f) = Made(f, tr[f], pc[f])
       /\ AllBefore(w, Len(w), g, sent[f])

IInv ==
  /\ TypeOK
  /\ \A e \in Ends : Place(e) /\ ReaderAt(e) /\ LockAt(e) /\ NetAt(e) /\ Link(e)
  /\ \A w \in Writers : WriterAt(w)
  /\ InStep

-----------------------------------------------------------------------------
(* The two ends, and what they are set up as *)

\* There are two ends, each the other's other.
LEMMA EndsOf ==
  /\ Ends = {"c", "s"}
  /\ \A e \in Ends : Other(e) \in Ends /\ Other(e) # e /\ Other(Other(e)) = e
  /\ \A e, f \in Ends : f = e \/ f = Other(e)
  /\ Other("c") = "s" /\ Other("s") = "c"
  /\ Turn("c") = 2 /\ Turn("s") = 3
BY DEF Ends, Other, Turn

\* The suite of lowest number in a set of suites that is not empty is in it.
LEMMA LowestIn ==
  ASSUME NEW S \in SUBSET (1 .. 5), S # {}
  PROVE  Lowest(S) \in S
<1>1. \E i \in S : \A j \in S : i <= j
  <2>1. CASE 1 \in S
    BY <2>1
  <2>2. CASE 1 \notin S /\ 2 \in S
    BY <2>2
  <2>3. CASE 1 \notin S /\ 2 \notin S /\ 3 \in S
    BY <2>3
  <2>4. CASE 1 \notin S /\ 2 \notin S /\ 3 \notin S /\ 4 \in S
    BY <2>4
  <2>5. CASE 1 \notin S /\ 2 \notin S /\ 3 \notin S /\ 4 \notin S
    <3>1. PICK i \in S : TRUE
      OBVIOUS
    <3>2. \A j \in S : j = 5
      <4>1. \A j \in 1 .. 5 : j = 1 \/ j = 2 \/ j = 3 \/ j = 4 \/ j = 5
        OBVIOUS
      <4> QED  BY <4>1, <2>5
    <3> QED  BY <3>1, <3>2
  <2> QED  BY <2>1, <2>2, <2>3, <2>4, <2>5
<1> QED  BY <1>1 DEF Lowest

\* The suites the client offers and the server accepts.
LEMMA CommonOf ==
  ASSUME NEW c, Common(c) # {}
  PROVE  /\ Common(c) \in SUBSET (1 .. 5)
         /\ Lowest(Common(c)) \in Common(c)
         /\ Chosen(c) = Suites[Lowest(Common(c))]
         /\ Chosen(c) \in {Suites[i] : i \in 1 .. 5}
         /\ IsPSK(Chosen(c)) = (c.cpsk # None)
         /\ IsPSK(Chosen(c)) = (c.spsk # None)
<1>1. DOMAIN Suites = 1 .. 5
  BY DEF Suites
<1>2. Common(c) \in SUBSET (1 .. 5)
  BY <1>1 DEF Common, Offer
<1>3. Lowest(Common(c)) \in Common(c)
  BY <1>2, LowestIn
<1>4. Chosen(c) = Suites[Lowest(Common(c))]
  BY DEF Chosen
<1>5. Lowest(Common(c)) \in Offer(c.cpsk) /\ Lowest(Common(c)) \in Offer(c.spsk)
  BY <1>3 DEF Common
<1>6. IsPSK(Chosen(c)) = (c.cpsk # None) /\ IsPSK(Chosen(c)) = (c.spsk # None)
  BY <1>4, <1>5 DEF Offer
<1>7. Chosen(c) \in {Suites[i] : i \in 1 .. 5}
  BY <1>2, <1>3, <1>4
<1> QED  BY <1>2, <1>3, <1>4, <1>6, <1>7

\* Keys: no key is no cipher, and what one end seals with is what the other
\* expects exactly when they have the same preshared key.
LEMMA KeysOf ==
  ASSUME NEW c, NEW e \in Ends
  PROVE  /\ SendKey(c, e) # NoSec /\ ReadKey(c, e) # NoSec
         /\ (SendKey(c, Other(e)) = ReadKey(c, e)) <=> (c.cpsk = c.spsk)
         /\ SendKey(c, e) \in Secs(c) /\ ReadKey(c, e) \in Secs(c) /\ NoSec \in Secs(c)
<1>1. \A m, a, f : Key(m, a, f) # NoSec
  BY DEF Key, NoSec
<1>2. \A m, n, a, f : Key(m, a, f) = Key(n, a, f) <=> m = n
  BY DEF Key
<1>3. \A k, x, p, q : Master(k, x, p) = Master(k, x, q) <=> p = q
  BY DEF Master
<1>4. MasterOf(c, e) = MasterOf(c, Other(e)) <=> c.cpsk = c.spsk
  BY <1>3, EndsOf DEF MasterOf, Psk
<1>5. SendKey(c, e) \in Secs(c) /\ ReadKey(c, e) \in Secs(c) /\ NoSec \in Secs(c)
  BY DEF Secs
<1> QED  BY <1>1, <1>2, <1>4, <1>5 DEF SendKey, ReadKey

\* What the setups are.
LEMMA SetupOf ==
  ASSUME NEW c \in Confs
  PROVE  /\ c.svers \in 0 .. 3 /\ Lower(c.svers, ProtocolVersion) = c.svers
         /\ Lower(ProtocolVersion, c.svers) = c.svers
         /\ ProtocolVersion \in 0 .. 3
         /\ c.cert \in {"none", "good", "bad"}
         /\ Common(c) # {} /\ c.cpsk = None => c.cert # "none"
         /\ \A e \in Ends : MasterOf(c, e) # None
<1>1. c.svers \in 0 .. 3 /\ c.cert \in {"none", "good", "bad"} /\ (c.spsk = None => c.cert # "none")
  BY SetupAssumption DEF SSL3Version, ProtocolVersion
<1>2. Common(c) # {} /\ c.cpsk = None => c.cert # "none"
  BY <1>1, CommonOf
<1>3. ASSUME NEW e \in Ends PROVE MasterOf(c, e) # None
  <2>1. \A p \in {"ecdh", "rsa", "zeros"}, k \in {c.cpsk, c.spsk} : None # [pm |-> p, psk |-> k]
    BY SetupAssumption
  <2> QED  BY <2>1 DEF MasterOf, Master, Psk
<1> QED  BY <1>1, <1>2, <1>3 DEF Lower, ProtocolVersion

\* The flight, as the server makes it and as the client takes it apart.
LEMMA FlightOf ==
  ASSUME NEW c
  PROVE  /\ Flight(c) # <<>> /\ Head(Flight(c)) = SHello(c) /\ Tail(Flight(c)) = AtCert(c)
         /\ AtCert(c) # <<>> /\ AtKey(c) # <<>> /\ AtDone # <<>>
         /\ c.cert = "none" => AtCert(c) = AtKey(c)
         /\ c.cert # "none" => Head(AtCert(c)) = Cert /\ Tail(AtCert(c)) = AtKey(c)
         /\ Chosen(c).kx # "ecdhe" => AtKey(c) = AtDone
         /\ Chosen(c).kx = "ecdhe" => Head(AtKey(c)) = SKey(c) /\ Tail(AtKey(c)) = AtDone
         /\ Head(AtDone) = Done /\ Tail(AtDone) = <<>>
         /\ Flight(c) # <<HRequest>>
<1> DEFINE S == {SHello(c), Cert, SKey(c), Done}
<1>0. <<>> \in Seq(S) /\ \A m \in S : <<m>> \in Seq(S)
  OBVIOUS
<1>1. /\ AtDone \in Seq(S) /\ CertPart(c) \in Seq(S) /\ KeyPart(c) \in Seq(S)
  BY <1>0 DEF AtDone, CertPart, KeyPart
<1>2. AtKey(c) \in Seq(S) /\ AtCert(c) \in Seq(S) /\ Flight(c) \in Seq(S)
  BY <1>1 DEF AtKey, AtCert, Flight
<1>3. /\ AtDone # <<>> /\ Head(AtDone) = Done /\ Tail(AtDone) = <<>>
  BY DEF AtDone
<1>4. \A m \in S, s \in Seq(S) :
        <<m>> \o s \in Seq(S) /\ <<m>> \o s # <<>> /\ Head(<<m>> \o s) = m /\ Tail(<<m>> \o s) = s
  <2>1. ASSUME NEW m \in S, NEW s \in Seq(S)
        PROVE  /\ <<m>> \o s \in Seq(S) /\ <<m>> \o s # <<>> /\ Head(<<m>> \o s) = m
               /\ Tail(<<m>> \o s) = s
    <3>0. <<m>> \in Seq(S) /\ Len(<<m>>) = 1 /\ <<m>>[1] = m
      OBVIOUS
    <3>1. /\ <<m>> \o s \in Seq(S) /\ Len(<<m>> \o s) = 1 + Len(s)
          /\ (<<m>> \o s)[1] = m
          /\ \A i \in 1 .. Len(s) : (<<m>> \o s)[i + 1] = s[i]
      BY <3>0, ConcatProperties
    <3>2. <<m>> \o s # <<>> /\ Head(<<m>> \o s) = m
      BY <3>1
    <3>3. Len(Tail(<<m>> \o s)) = Len(s) /\ Tail(<<m>> \o s) \in Seq(S)
      BY <3>1, <3>2
    <3>4. \A i \in 1 .. Len(s) : Tail(<<m>> \o s)[i] = s[i]
      BY <3>1, <3>2
    <3>5. Tail(<<m>> \o s) = s
      BY <3>3, <3>4, SeqEqual
    <3> QED  BY <3>1, <3>2, <3>5
  <2> QED  BY <2>1
<1>5. Flight(c) # <<>> /\ Head(Flight(c)) = SHello(c) /\ Tail(Flight(c)) = AtCert(c)
  BY <1>2, <1>4 DEF Flight
<1>6. \A s \in Seq(S) : <<>> \o s = s
  BY ConcatEmptySeq
<1>7. c.cert = "none" => AtCert(c) = AtKey(c)
  BY <1>2, <1>6 DEF AtCert, CertPart
<1>8. c.cert # "none" => AtCert(c) # <<>> /\ Head(AtCert(c)) = Cert /\ Tail(AtCert(c)) = AtKey(c)
  BY <1>2, <1>4 DEF AtCert, CertPart
<1>9. Chosen(c).kx # "ecdhe" => AtKey(c) = AtDone
  BY <1>1, <1>6 DEF AtKey, KeyPart
<1>10. Chosen(c).kx = "ecdhe" => AtKey(c) # <<>> /\ Head(AtKey(c)) = SKey(c) /\ Tail(AtKey(c)) = AtDone
  BY <1>1, <1>4 DEF AtKey, KeyPart
<1>11. AtKey(c) # <<>> /\ AtCert(c) # <<>>
  BY <1>3, <1>7, <1>8, <1>9, <1>10
<1>12. Flight(c) # <<HRequest>>
  <2>1. SHello(c) # HRequest
    BY DEF SHello, HRequest
  <2>2. Head(<<HRequest>>) = HRequest
    OBVIOUS
  <2> QED  BY <1>5, <2>1, <2>2
<1> QED  BY <1>3, <1>5, <1>7, <1>8, <1>9, <1>10, <1>11, <1>12

\* The transcripts of the two ends are the same, though they are put together
\* in different ways.
LEMMA TranscriptOf ==
  ASSUME NEW c, NEW a
  PROVE  /\ <<>> \o <<CHello(c)>> = <<CHello(c)>>
         /\ <<CHello(c)>> \o <<SHello(c)>> = ToHello(c)
         /\ c.cert = "none" => ToCert(c) = ToHello(c)
         /\ c.cert # "none" => ToHello(c) \o <<Cert>> = ToCert(c)
         /\ Chosen(c).kx # "ecdhe" => ToSKey(c) = ToCert(c)
         /\ Chosen(c).kx = "ecdhe" => ToCert(c) \o <<SKey(c)>> = ToSKey(c)
         /\ ToSKey(c) \o <<Done, CKey(c)>> = ToCKey(c)
         /\ <<>> \o (<<CHello(c)>> \o Flight(c)) = ToFlight(c)
<1> DEFINE S == {CHello(c), SHello(c), Cert, SKey(c), Done, CKey(c)}
<1>1. /\ <<CHello(c)>> \in Seq(S) /\ <<SHello(c)>> \in Seq(S) /\ <<Cert>> \in Seq(S)
      /\ <<SKey(c)>> \in Seq(S) /\ AtDone \in Seq(S) /\ <<CKey(c)>> \in Seq(S)
      /\ CertPart(c) \in Seq(S) /\ KeyPart(c) \in Seq(S) /\ <<>> \in Seq(S)
  BY DEF AtDone, CertPart, KeyPart
<1>2. \A s \in Seq(S) : <<>> \o s = s /\ s \o <<>> = s
  BY ConcatEmptySeq
<1>3. \A s, t \in Seq(S) : s \o t \in Seq(S)
  BY ConcatProperties
<1>4. \A s, t, u \in Seq(S) : (s \o t) \o u = s \o (t \o u)
  BY ConcatAssociative
<1>5. ToHello(c) \in Seq(S) /\ ToCert(c) \in Seq(S) /\ ToSKey(c) \in Seq(S)
  BY <1>1, <1>3 DEF ToHello, ToCert, ToSKey
<1>6. AtKey(c) \in Seq(S) /\ AtCert(c) \in Seq(S) /\ Flight(c) \in Seq(S) /\ ToFlight(c) \in Seq(S)
  BY <1>1, <1>3 DEF AtKey, AtCert, Flight, ToFlight
<1>7. ToSKey(c) \o AtDone = ToFlight(c)
  <2>1. ToSKey(c) \o AtDone = ToCert(c) \o AtKey(c)
    BY <1>1, <1>4, <1>5 DEF ToSKey, AtKey
  <2>2. ToCert(c) \o AtKey(c) = ToHello(c) \o AtCert(c)
    BY <1>1, <1>4, <1>5, <1>6 DEF ToCert, AtCert
  <2>3. ToHello(c) \o AtCert(c) = <<CHello(c)>> \o (<<SHello(c)>> \o AtCert(c))
    BY <1>1, <1>4, <1>6 DEF ToHello
  <2> QED  BY <2>1, <2>2, <2>3 DEF ToFlight, Flight
<1>8. <<Done, CKey(c)>> = AtDone \o <<CKey(c)>>
  BY DEF AtDone
<1>9. ToSKey(c) \o <<Done, CKey(c)>> = ToCKey(c)
  <2> HIDE DEF S
  <2>1. ToSKey(c) \o (AtDone \o <<CKey(c)>>) = (ToSKey(c) \o AtDone) \o <<CKey(c)>>
    BY <1>1, <1>4, <1>5
  <2> QED  BY <2>1, <1>7, <1>8 DEF ToCKey
<1>10. c.cert = "none" => ToCert(c) = ToHello(c)
  BY <1>2, <1>5 DEF ToCert, CertPart
<1>11. c.cert # "none" => ToHello(c) \o <<Cert>> = ToCert(c)
  BY DEF ToCert, CertPart
<1>12. Chosen(c).kx # "ecdhe" => ToSKey(c) = ToCert(c)
  BY <1>2, <1>5 DEF ToSKey, KeyPart
<1>13. Chosen(c).kx = "ecdhe" => ToCert(c) \o <<SKey(c)>> = ToSKey(c)
  BY DEF ToSKey, KeyPart
<1>14. <<>> \o (<<CHello(c)>> \o Flight(c)) = ToFlight(c)
  BY <1>2, <1>6 DEF ToFlight
<1> QED  BY <1>1, <1>2, <1>9, <1>10, <1>11, <1>12, <1>13, <1>14 DEF ToHello

\* ServerFlight puts the flight together from the front.
LEMMA ServerFlightOf == ServerFlight(Chosen(conf)) = Flight(conf)
<1> DEFINE S == {SHello(conf), Cert, SKey(conf), Done}
<1>0. <<>> \in Seq(S) /\ \A m \in S : <<m>> \in Seq(S)
  OBVIOUS
<1>1. /\ <<SHello(conf)>> \in Seq(S) /\ CertPart(conf) \in Seq(S)
      /\ KeyPart(conf) \in Seq(S) /\ AtDone \in Seq(S)
  BY <1>0 DEF AtDone, CertPart, KeyPart
<1>2. \A s, t \in Seq(S) : s \o t \in Seq(S)
  BY ConcatProperties
<1>3. \A s, t, u \in Seq(S) : (s \o t) \o u = s \o (t \o u)
  BY ConcatAssociative
<1>4. ServerFlight(Chosen(conf)) = ((<<SHello(conf)>> \o CertPart(conf)) \o KeyPart(conf)) \o AtDone
  BY DEF ServerFlight, SHello, CertPart, KeyPart, AtDone, Cert, SKey, Done
<1> HIDE DEF S
<1>5. ((<<SHello(conf)>> \o CertPart(conf)) \o KeyPart(conf)) \o AtDone
      = (<<SHello(conf)>> \o CertPart(conf)) \o AtKey(conf)
  BY <1>1, <1>2, <1>3 DEF AtKey
<1>6. (<<SHello(conf)>> \o CertPart(conf)) \o AtKey(conf) = Flight(conf)
  BY <1>1, <1>2, <1>3 DEF AtKey, AtCert, Flight
<1> QED  BY <1>4, <1>5, <1>6

-----------------------------------------------------------------------------
(* The records on their way to an end, as lists *)

\* A list without its first record, with one more, and cut off.
LEMMA ListOf ==
  ASSUME NEW S, NEW w \in Seq(S)
  PROVE  /\ Len(w) \in Nat
         /\ w # <<>> => /\ Len(w) >= 1 /\ Head(w) = w[1] /\ w[1] \in S /\ Tail(w) \in Seq(S)
                        /\ Len(Tail(w)) = Len(w) - 1
                        /\ \A i \in 1 .. Len(w) - 1 : Tail(w)[i] = w[i + 1]
         /\ w = <<>> => Len(w) = 0
         /\ \A r \in S : /\ Append(w, r) \in Seq(S) /\ Len(Append(w, r)) = Len(w) + 1
                         /\ Append(w, r) # <<>>
                         /\ \A i \in 1 .. Len(w) : Append(w, r)[i] = w[i]
                         /\ Append(w, r)[Len(w) + 1] = r
<1>1. ASSUME w # <<>>
      PROVE  /\ Len(w) >= 1 /\ Head(w) = w[1] /\ w[1] \in S /\ Tail(w) \in Seq(S)
             /\ Len(Tail(w)) = Len(w) - 1
             /\ \A i \in 1 .. Len(w) - 1 : Tail(w)[i] = w[i + 1]
  BY <1>1
<1>2. ASSUME NEW r \in S
      PROVE  /\ Append(w, r) \in Seq(S) /\ Len(Append(w, r)) = Len(w) + 1
             /\ Append(w, r) # <<>>
             /\ \A i \in 1 .. Len(w) : Append(w, r)[i] = w[i]
             /\ Append(w, r)[Len(w) + 1] = r
  BY AppendProperties
<1> QED  BY <1>1, <1>2

\* Record n of the script is never a HelloRequest in the clear.
LEMMA ScriptNotAsked ==
  ASSUME NEW c, NEW e \in Ends, NEW n \in Nat, n >= 1, NEW r, Script(c, e, n, r)
  PROVE  ~(r.type = "hand" /\ r.sec = NoSec /\ r.body = <<HRequest>>)
<1> SUFFICES ASSUME r.type = "hand", r.sec = NoSec, r.body = <<HRequest>> PROVE FALSE
  OBVIOUS
<1>1. SendKey(c, Other(e)) # NoSec
  BY EndsOf, KeysOf
<1>2. n <= Turn(e) /\ Turn(e) \in Nat
  BY <1>1, EndsOf DEF Script, Ends
<1>3. n # Turn(e) /\ r.body = Said(c, e, n)
  BY <1>2 DEF Script, Fatal
<1>4. (e = "c" /\ n = 1) \/ (e = "s" /\ n \in {1, 2})
  BY <1>2, <1>3, EndsOf DEF Ends
<1>5. r.body = Flight(c) \/ r.body = <<CHello(c)>> \/ r.body = <<CKey(c)>>
  BY <1>3, <1>4 DEF Said
<1>6. CHello(c) # HRequest /\ CKey(c) # HRequest
  BY DEF CHello, CKey, HRequest
<1>7. \A a, b : <<a>> = <<b>> => a = b
  OBVIOUS
<1> QED  BY <1>5, <1>6, <1>7, FlightOf

\* The first record is the next of the script, and the rest follows it.
LEMMA StreamTail ==
  ASSUME NEW c, NEW e \in Ends, NEW n \in Nat, NEW S, NEW w \in Seq(S), w # <<>>,
         Stream(c, e, n, w), ~Asked(w)
  PROVE  /\ Script(c, e, n + 1, w[1])
         /\ Stream(c, e, n + 1, Tail(w)) /\ ~Asked(Tail(w))
         /\ Skew(w) = 0 /\ Skew(Tail(w)) = 0
<1>1. Skew(w) = 0
  BY DEF Skew
<1>2. \A i \in 1 .. Len(w) : Script(c, e, n + i, w[i])
  BY <1>1, ListOf DEF Stream
<1>3. Script(c, e, n + 1, w[1])
  BY <1>2, ListOf
<1>4. \A i \in 1 .. Len(w) - 1 : Script(c, e, n + 1 + i, Tail(w)[i])
  <2>1. ASSUME NEW i \in 1 .. Len(w) - 1 PROVE Script(c, e, n + 1 + i, Tail(w)[i])
    <3>1. i + 1 \in 1 .. Len(w) /\ Tail(w)[i] = w[i + 1] /\ n + (i + 1) = n + 1 + i
      BY ListOf
    <3> QED  BY <1>2, <3>1
  <2> QED  BY <2>1
<1>5. ~Asked(Tail(w))
  <2> SUFFICES ASSUME Asked(Tail(w)) PROVE FALSE
    OBVIOUS
  <2>1. Len(w) - 1 >= 1
    BY ListOf DEF Asked
  <2>2. Script(c, e, n + 1 + 1, Tail(w)[1])
    <3>1. 1 \in 1 .. Len(w) - 1
      BY <2>1, ListOf
    <3> QED  BY <1>4, <3>1
  <2>3. n + 1 + 1 \in Nat /\ n + 1 + 1 >= 1
    OBVIOUS
  <2>4. ~(Tail(w)[1].type = "hand" /\ Tail(w)[1].sec = NoSec /\ Tail(w)[1].body = <<HRequest>>)
    <3> DEFINE m == n + 1 + 1
    <3>1. m \in Nat /\ m >= 1 /\ Script(c, e, m, Tail(w)[1])
      BY <2>2, <2>3
    <3> HIDE DEF m
    <3> QED  BY <3>1, ScriptNotAsked
  <2> QED  BY <2>4 DEF Asked
<1>6. Skew(Tail(w)) = 0
  BY <1>5 DEF Skew
<1>7. Stream(c, e, n + 1, Tail(w))
  BY <1>4, <1>5, <1>6, ListOf DEF Stream
<1> QED  BY <1>1, <1>3, <1>5, <1>6, <1>7

\* A HelloRequest in front is no record of the script.
LEMMA StreamAsked ==
  ASSUME NEW c, NEW e \in Ends, NEW n \in Nat, NEW S, NEW w \in Seq(S),
         Stream(c, e, n, w), Asked(w)
  PROVE  /\ Stream(c, e, n, Tail(w)) /\ ~Asked(Tail(w))
         /\ Skew(w) = 1 /\ Skew(Tail(w)) = 0 /\ w # <<>>
<1>1. Skew(w) = 1 /\ w # <<>>
  BY DEF Skew, Asked
<1>2. \A i \in 1 .. Len(w) - 1 : Script(c, e, n + i, Tail(w)[i])
  <2>1. ASSUME NEW i \in 1 .. Len(w) - 1 PROVE Script(c, e, n + i, Tail(w)[i])
    <3>1. i + 1 \in 1 .. Len(w) /\ i + 1 > 1 /\ Tail(w)[i] = w[i + 1] /\ n + (i + 1) - 1 = n + i
      BY <1>1, ListOf
    <3> QED  BY <1>1, <3>1 DEF Stream
  <2> QED  BY <2>1
<1>3. ~Asked(Tail(w))
  <2> SUFFICES ASSUME Asked(Tail(w)) PROVE FALSE
    OBVIOUS
  <2>1. Len(w) - 1 >= 1
    BY <1>1, ListOf DEF Asked
  <2>2. Script(c, e, n + 1, Tail(w)[1])
    BY <1>2, <2>1, ListOf
  <2> QED  BY <2>2, ScriptNotAsked DEF Asked
<1>4. Skew(Tail(w)) = 0
  BY <1>3 DEF Skew
<1>5. Stream(c, e, n, Tail(w))
  BY <1>1, <1>2, <1>3, <1>4, ListOf DEF Stream
<1> QED  BY <1>1, <1>3, <1>4, <1>5

\* The next record of the script comes behind.
LEMMA StreamAppend ==
  ASSUME NEW c, NEW e \in Ends, NEW n \in Nat, NEW S, NEW w \in Seq(S), NEW r \in S,
         Stream(c, e, n, w), Script(c, e, n + Len(w) - Skew(w) + 1, r)
  PROVE  /\ Stream(c, e, n, Append(w, r)) /\ Skew(Append(w, r)) = Skew(w)
         /\ Asked(Append(w, r)) <=> Asked(w)
<1> DEFINE v == Append(w, r)
<1>1. /\ Len(v) = Len(w) + 1 /\ Len(w) \in Nat /\ v # <<>>
      /\ \A i \in 1 .. Len(w) : v[i] = w[i]
      /\ v[Len(w) + 1] = r
  BY ListOf
<1>2. Asked(v) <=> Asked(w)
  <2>1. CASE w = <<>>
    <3>1. Len(w) = 0 /\ Skew(w) = 0 /\ ~Asked(w)
      BY <2>1, ListOf DEF Skew, Asked
    <3>2. Script(c, e, n + 1, r) /\ v[1] = r
      BY <1>1, <3>1
    <3> QED  BY <3>1, <3>2, ScriptNotAsked DEF Asked
  <2>2. CASE w # <<>>
    <3>1. v[1] = w[1]
      BY <1>1, <2>2, ListOf
    <3> QED  BY <1>1, <2>2, <3>1 DEF Asked
  <2> QED  BY <2>1, <2>2
<1>3. Skew(v) = Skew(w) /\ Skew(w) \in {0, 1}
  BY <1>2 DEF Skew
<1>4. \A i \in 1 .. Len(v) : i > Skew(v) => Script(c, e, n + i - Skew(v), v[i])
  <2>1. ASSUME NEW i \in 1 .. Len(v), i > Skew(v) PROVE Script(c, e, n + i - Skew(v), v[i])
    <3>1. CASE i \in 1 .. Len(w)
      BY <1>1, <1>3, <2>1, <3>1 DEF Stream
    <3>2. CASE i = Len(w) + 1
      <4>1. n + i - Skew(v) = n + Len(w) - Skew(w) + 1
        BY <1>1, <1>3, <3>2
      <4> QED  BY <1>1, <3>2, <4>1
    <3> QED  BY <1>1, <2>1, <3>1, <3>2
  <2> QED  BY <2>1
<1>5. Stream(c, e, n, v)
  BY <1>2, <1>4 DEF Stream
<1> QED  BY <1>2, <1>3, <1>5

\* A part of the stream from its front is a stream.
LEMMA StreamPrefix ==
  ASSUME NEW c, NEW e \in Ends, NEW n \in Nat, NEW S, NEW w \in Seq(S), NEW k \in 0 .. Len(w),
         Stream(c, e, n, w)
  PROVE  /\ Stream(c, e, n, SubSeq(w, 1, k))
         /\ Asked(SubSeq(w, 1, k)) => Asked(w)
         /\ SubSeq(w, 1, k) # <<>> => Skew(SubSeq(w, 1, k)) = Skew(w)
         /\ SubSeq(w, 1, k) \in Seq(S) /\ Len(SubSeq(w, 1, k)) = k
         /\ \A i \in 1 .. k : SubSeq(w, 1, k)[i] = w[i]
<1> DEFINE v == SubSeq(w, 1, k)
<1>1. v \in Seq(S) /\ Len(v) = k /\ Len(w) \in Nat /\ \A i \in 1 .. k : v[i] = w[i]
  OBVIOUS
<1>2. v # <<>> => k >= 1 /\ v[1] = w[1] /\ w # <<>>
  BY <1>1, ListOf
<1>3. v # <<>> => (Asked(v) <=> Asked(w))
  BY <1>2 DEF Asked
<1>4. CASE v = <<>>
  <2>1. Len(v) = 0
    BY <1>4
  <2> QED  BY <1>1, <1>4, <2>1 DEF Stream, Asked
<1>5. CASE v # <<>>
  <2>1. Skew(v) = Skew(w)
    BY <1>3, <1>5 DEF Skew
  <2>2. \A i \in 1 .. Len(v) : i \in 1 .. Len(w) /\ v[i] = w[i]
    BY <1>1
  <2> QED  BY <1>1, <1>3, <1>5, <2>1, <2>2 DEF Stream
<1> QED  BY <1>4, <1>5

-----------------------------------------------------------------------------
(* The data among them *)

\* A record that is not data is taken from the front.
LEMMA DataTail ==
  ASSUME NEW S, NEW w \in Seq(S), w # <<>>, NEW g \in Nat, NEW s \in Nat, w[1].type # "data"
  PROVE  /\ Data(w, g, s) => Data(Tail(w), g, s)
         /\ \A i \in 0 .. Len(w) - 1 : AllBefore(w, i + 1, g, s) => AllBefore(Tail(w), i, g, s)
<1>1. /\ Len(w) \in Nat /\ Len(w) >= 1 /\ Len(Tail(w)) = Len(w) - 1
      /\ \A i \in 1 .. Len(w) - 1 : i + 1 \in 1 .. Len(w) /\ Tail(w)[i] = w[i + 1]
  BY ListOf
<1>2. ASSUME NEW i \in 0 .. Len(w) - 1, NEW n, Carries(w, i + 1, n)
      PROVE  Carries(Tail(w), i, n)
  <2>1. PICK j \in 1 .. i + 1 : w[j].type = "data" /\ w[j].body = n
    BY <1>2 DEF Carries
  <2>2. j # 1 /\ j - 1 \in 1 .. i /\ j - 1 \in 1 .. Len(w) - 1 /\ (j - 1) + 1 = j
    BY <1>1, <2>1
  <2>3. Tail(w)[j - 1] = w[j]
    BY <1>1, <2>2
  <2> QED  BY <2>1, <2>2, <2>3 DEF Carries
<1>3. ASSUME Data(w, g, s) PROVE Data(Tail(w), g, s)
  <2>1. ASSUME NEW i \in 1 .. Len(Tail(w)), Tail(w)[i].type = "data"
        PROVE  /\ Tail(w)[i].body \in g + 1 .. s
               /\ \A n \in g + 1 .. Tail(w)[i].body - 1 : Carries(Tail(w), i - 1, n)
    <3>1. i + 1 \in 1 .. Len(w) /\ Tail(w)[i] = w[i + 1] /\ i - 1 \in 0 .. Len(w) - 1
          /\ (i + 1) - 1 = (i - 1) + 1
      BY <1>1, <2>1
    <3>2. /\ w[i + 1].body \in g + 1 .. s
          /\ \A n \in g + 1 .. w[i + 1].body - 1 : Carries(w, (i + 1) - 1, n)
      BY <1>3, <2>1, <3>1 DEF Data
    <3>3. \A n : Carries(w, (i + 1) - 1, n) => Carries(Tail(w), i - 1, n)
      BY <1>2, <3>1
    <3> QED  BY <3>1, <3>2, <3>3
  <2>2. ASSUME NEW i \in 1 .. Len(Tail(w)), NEW j \in 1 .. Len(Tail(w)), i < j,
               Tail(w)[i].type = "data", Tail(w)[j].type = "data"
        PROVE  Tail(w)[i].body < Tail(w)[j].body
    <3>1. /\ i + 1 \in 1 .. Len(w) /\ j + 1 \in 1 .. Len(w) /\ i + 1 < j + 1
          /\ Tail(w)[i] = w[i + 1] /\ Tail(w)[j] = w[j + 1]
      BY <1>1, <2>2
    <3>2. w[i + 1].type = "data" /\ w[j + 1].type = "data"
      BY <2>2, <3>1
    <3> QED  BY <1>3, <3>1, <3>2 DEF Data
  <2> QED  BY <2>1, <2>2 DEF Data
<1>4. ASSUME NEW i \in 0 .. Len(w) - 1, AllBefore(w, i + 1, g, s)
      PROVE  AllBefore(Tail(w), i, g, s)
  BY <1>2, <1>4 DEF AllBefore
<1> QED  BY <1>3, <1>4

\* Data at the front is the next piece.
LEMMA DataTake ==
  ASSUME NEW S, NEW w \in Seq(S), w # <<>>, NEW g \in Nat, NEW s \in Nat, w[1].type = "data",
         Data(w, g, s)
  PROVE  /\ w[1].body = g + 1 /\ g + 1 <= s
         /\ Data(Tail(w), g + 1, s)
         /\ \A i \in 0 .. Len(w) - 1 : AllBefore(w, i + 1, g, s) => AllBefore(Tail(w), i, g + 1, s)
<1>1. /\ Len(w) \in Nat /\ Len(w) >= 1 /\ Len(Tail(w)) = Len(w) - 1
      /\ \A i \in 1 .. Len(w) - 1 : i + 1 \in 1 .. Len(w) /\ Tail(w)[i] = w[i + 1]
  BY ListOf
<1>2. w[1].body \in g + 1 .. s
  BY <1>1 DEF Data
<1>3. w[1].body = g + 1
  <2> SUFFICES ASSUME w[1].body # g + 1 PROVE FALSE
    OBVIOUS
  <2>1. g + 1 \in g + 1 .. w[1].body - 1
    BY <1>2
  <2>2. Carries(w, 1 - 1, g + 1)
    BY <1>1, <2>1 DEF Data
  <2> QED  BY <2>2 DEF Carries
<1>4. ASSUME NEW i \in 0 .. Len(w) - 1, NEW n \in Int, n > g + 1, Carries(w, i + 1, n)
      PROVE  Carries(Tail(w), i, n)
  <2>1. PICK j \in 1 .. i + 1 : w[j].type = "data" /\ w[j].body = n
    BY <1>4 DEF Carries
  <2>2. j # 1
    BY <1>3, <1>4, <2>1
  <2>3. j - 1 \in 1 .. i /\ j - 1 \in 1 .. Len(w) - 1 /\ (j - 1) + 1 = j
    BY <1>1, <2>1, <2>2
  <2>4. Tail(w)[j - 1] = w[j]
    BY <1>1, <2>3
  <2> QED  BY <2>1, <2>3, <2>4 DEF Carries
<1>5. Data(Tail(w), g + 1, s)
  <2>1. ASSUME NEW i \in 1 .. Len(Tail(w)), Tail(w)[i].type = "data"
        PROVE  /\ Tail(w)[i].body \in (g + 1) + 1 .. s
               /\ \A n \in (g + 1) + 1 .. Tail(w)[i].body - 1 : Carries(Tail(w), i - 1, n)
    <3>1. i + 1 \in 1 .. Len(w) /\ Tail(w)[i] = w[i + 1] /\ i - 1 \in 0 .. Len(w) - 1
          /\ (i + 1) - 1 = (i - 1) + 1 /\ 1 < i + 1 /\ 1 \in 1 .. Len(w)
      BY <1>1, <2>1
    <3>2. /\ w[i + 1].body \in g + 1 .. s
          /\ \A n \in g + 1 .. w[i + 1].body - 1 : Carries(w, (i + 1) - 1, n)
          /\ w[1].body < w[i + 1].body
      BY <2>1, <3>1 DEF Data
    <3>3. w[i + 1].body \in (g + 1) + 1 .. s
      BY <1>3, <3>2
    <3>4. ASSUME NEW n \in (g + 1) + 1 .. w[i + 1].body - 1 PROVE Carries(Tail(w), i - 1, n)
      <4>1. n \in g + 1 .. w[i + 1].body - 1 /\ n \in Int /\ n > g + 1
        BY <3>3
      <4> QED  BY <1>4, <3>1, <3>2, <4>1
    <3> QED  BY <3>1, <3>3, <3>4
  <2>2. ASSUME NEW i \in 1 .. Len(Tail(w)), NEW j \in 1 .. Len(Tail(w)), i < j,
               Tail(w)[i].type = "data", Tail(w)[j].type = "data"
        PROVE  Tail(w)[i].body < Tail(w)[j].body
    BY <1>1, <2>2 DEF Data
  <2> QED  BY <2>1, <2>2 DEF Data
<1>6. ASSUME NEW i \in 0 .. Len(w) - 1, AllBefore(w, i + 1, g, s)
      PROVE  AllBefore(Tail(w), i, g + 1, s)
  <2>1. ASSUME NEW n \in (g + 1) + 1 .. s PROVE Carries(Tail(w), i, n)
    <3>1. n \in g + 1 .. s /\ n \in Int /\ n > g + 1
      OBVIOUS
    <3> QED  BY <1>4, <1>6, <3>1 DEF AllBefore
  <2> QED  BY <2>1 DEF AllBefore
<1> QED  BY <1>2, <1>3, <1>5, <1>6

\* A record that is not data, or the next piece of data, comes behind; the
\* piece may also be written and lost.
LEMMA DataAppend ==
  ASSUME NEW S, NEW w \in Seq(S), NEW r \in S, NEW g \in Nat, NEW s \in Nat, Data(w, g, s)
  PROVE  /\ r.type # "data" => Data(Append(w, r), g, s)
         /\ Data(w, g, s + 1)
         /\ r.type = "data" /\ r.body = s + 1 /\ AllBefore(w, Len(w), g, s) /\ g <= s =>
              /\ Data(Append(w, r), g, s + 1)
              /\ AllBefore(Append(w, r), Len(w) + 1, g, s + 1)
         /\ \A i \in 0 .. Len(w), k \in 0 .. Len(w) + 1 :
              i <= k /\ AllBefore(w, i, g, s) => AllBefore(Append(w, r), k, g, s)
<1> DEFINE v == Append(w, r)
<1>1. /\ Len(w) \in Nat /\ Len(v) = Len(w) + 1
      /\ \A i \in 1 .. Len(w) : v[i] = w[i]
      /\ v[Len(w) + 1] = r
  BY ListOf
<1> HIDE DEF v
<1>2. ASSUME NEW i \in 0 .. Len(w), NEW k \in 0 .. Len(w) + 1, i <= k, NEW n, Carries(w, i, n)
      PROVE  Carries(v, k, n)
  <2>1. PICK j \in 1 .. i : w[j].type = "data" /\ w[j].body = n
    BY <1>2 DEF Carries
  <2>2. j \in 1 .. k /\ j \in 1 .. Len(w)
    BY <1>1, <1>2
  <2> QED  BY <1>1, <2>1, <2>2 DEF Carries
<1>3. ASSUME NEW i \in 1 .. Len(w), v[i].type = "data"
      PROVE  /\ v[i].body \in g + 1 .. s /\ v[i].body \in g + 1 .. s + 1
             /\ \A n \in g + 1 .. v[i].body - 1 : Carries(v, i - 1, n)
  <2>1. v[i] = w[i] /\ i - 1 \in 0 .. Len(w) /\ i - 1 \in 0 .. Len(w) + 1
    BY <1>1
  <2>2. /\ w[i].body \in g + 1 .. s
        /\ \A n \in g + 1 .. w[i].body - 1 : Carries(w, i - 1, n)
    BY <1>3, <2>1 DEF Data
  <2>3. w[i].body \in g + 1 .. s + 1
    BY <2>2
  <2>4. \A n \in g + 1 .. w[i].body - 1 : Carries(v, i - 1, n)
    BY <1>2, <2>1, <2>2
  <2> QED  BY <2>1, <2>2, <2>3, <2>4
<1>4. ASSUME NEW i \in 1 .. Len(w), NEW j \in 1 .. Len(w), i < j,
             v[i].type = "data", v[j].type = "data"
      PROVE  v[i].body < v[j].body
  BY <1>1, <1>4 DEF Data
<1>5. ASSUME r.type # "data" PROVE Data(v, g, s)
  <2>1. \A i \in 1 .. Len(v) : v[i].type = "data" => i \in 1 .. Len(w)
    BY <1>1, <1>5
  <2> QED  BY <1>3, <1>4, <2>1 DEF Data
<1>6. Data(w, g, s + 1)
  BY DEF Data
<1>7. ASSUME r.type = "data", r.body = s + 1, AllBefore(w, Len(w), g, s), g <= s
      PROVE  Data(v, g, s + 1) /\ AllBefore(v, Len(w) + 1, g, s + 1)
  <2>1. ASSUME NEW n \in g + 1 .. s PROVE Carries(v, Len(w), n) /\ Carries(v, Len(w) + 1, n)
    <3>1. Carries(w, Len(w), n)
      BY <1>7 DEF AllBefore
    <3> QED  BY <1>1, <1>2, <3>1
  <2>2. Carries(v, Len(w) + 1, s + 1)
    BY <1>1, <1>7 DEF Carries
  <2>3. AllBefore(v, Len(w) + 1, g, s + 1)
    <3>1. \A n \in g + 1 .. s + 1 : n \in g + 1 .. s \/ n = s + 1
      OBVIOUS
    <3> QED  BY <2>1, <2>2, <3>1 DEF AllBefore
  <2>4. ASSUME NEW i \in 1 .. Len(v), v[i].type = "data"
        PROVE  /\ v[i].body \in g + 1 .. s + 1
               /\ \A n \in g + 1 .. v[i].body - 1 : Carries(v, i - 1, n)
    <3>1. CASE i \in 1 .. Len(w)
      BY <1>3, <2>4, <3>1
    <3>2. CASE i = Len(w) + 1
      <4>1. v[i].body = s + 1 /\ i - 1 = Len(w) /\ s + 1 \in g + 1 .. s + 1 /\ (s + 1) - 1 = s
        BY <1>1, <1>7, <3>2
      <4> QED  BY <2>1, <4>1
    <3> QED  BY <1>1, <3>1, <3>2
  <2>5. ASSUME NEW i \in 1 .. Len(v), NEW j \in 1 .. Len(v), i < j,
               v[i].type = "data", v[j].type = "data"
        PROVE  v[i].body < v[j].body
    <3>1. i \in 1 .. Len(w)
      BY <1>1, <2>5
    <3>2. CASE j \in 1 .. Len(w)
      BY <1>4, <2>5, <3>1, <3>2
    <3>3. CASE j = Len(w) + 1
      <4>1. v[j].body = s + 1 /\ v[i].body \in g + 1 .. s
        BY <1>1, <1>3, <1>7, <2>5, <3>1, <3>3
      <4> QED  BY <4>1
    <3> QED  BY <1>1, <3>2, <3>3
  <2> QED  BY <2>3, <2>4, <2>5 DEF Data
<1>8. ASSUME NEW i \in 0 .. Len(w), NEW k \in 0 .. Len(w) + 1, i <= k, AllBefore(w, i, g, s)
      PROVE  AllBefore(v, k, g, s)
  BY <1>2, <1>8 DEF AllBefore
<1> QED  BY <1>5, <1>6, <1>7, <1>8 DEF v

\* The data in a part from the front.
LEMMA DataPrefix ==
  ASSUME NEW S, NEW w \in Seq(S), NEW v \in Seq(S), NEW k \in 0 .. Len(w), Len(v) = k,
         \A i \in 1 .. k : v[i] = w[i], NEW g \in Nat, NEW s \in Nat
  PROVE  /\ Data(w, g, s) => Data(v, g, s)
         /\ \A i \in 1 .. k : AllBefore(w, i - 1, g, s) => AllBefore(v, i - 1, g, s)
<1>1. Len(w) \in Nat
  BY ListOf
<1>2. ASSUME NEW i \in 1 .. k, NEW n, Carries(w, i - 1, n) PROVE Carries(v, i - 1, n)
  <2>1. PICK j \in 1 .. i - 1 : w[j].type = "data" /\ w[j].body = n
    BY <1>2 DEF Carries
  <2>2. j \in 1 .. k
    BY <1>1
  <2> QED  BY <2>1, <2>2 DEF Carries
<1>3. \A i \in 1 .. k : i \in 1 .. Len(w)
  BY <1>1
<1>4. ASSUME Data(w, g, s) PROVE Data(v, g, s)
  <2>1. ASSUME NEW i \in 1 .. Len(v), v[i].type = "data"
        PROVE  /\ v[i].body \in g + 1 .. s
               /\ \A n \in g + 1 .. v[i].body - 1 : Carries(v, i - 1, n)
    <3>1. i \in 1 .. k /\ i \in 1 .. Len(w) /\ v[i] = w[i]
      BY <1>3
    <3>2. /\ w[i].body \in g + 1 .. s
          /\ \A n \in g + 1 .. w[i].body - 1 : Carries(w, i - 1, n)
      BY <1>4, <2>1, <3>1 DEF Data
    <3> QED  BY <1>2, <3>1, <3>2
  <2>2. ASSUME NEW i \in 1 .. Len(v), NEW j \in 1 .. Len(v), i < j,
               v[i].type = "data", v[j].type = "data"
        PROVE  v[i].body < v[j].body
    BY <1>3, <1>4, <2>2 DEF Data
  <2> QED  BY <2>1, <2>2 DEF Data
<1>5. ASSUME NEW i \in 1 .. k, AllBefore(w, i - 1, g, s) PROVE AllBefore(v, i - 1, g, s)
  BY <1>2, <1>5 DEF AllBefore
<1> QED  BY <1>4, <1>5

-----------------------------------------------------------------------------
(* What the operators of TlsRec leave of a TlsRec *)

SameSetup(t, u) == u.version = t.version /\ u.verset = t.verset /\ u.opened = t.opened
SameReading(t, u) == u.insec = t.insec /\ u.innew = t.innew /\ u.inseq = t.inseq
SameWriting(t, u) == u.outsec = t.outsec /\ u.outnew = t.outnew /\ u.outseq = t.outseq
SameHand(t, u) == u.hand = t.hand /\ u.handq = t.handq /\ u.hprocessed = t.hprocessed

\* The fields of a TlsRec.
LEMMA FieldsOf ==
  ASSUME NEW c, NEW t \in TlsRecs(c)
  PROVE  /\ t.state \in States /\ t.version \in 0 .. 3 /\ t.verset \in BOOLEAN /\ t.opened \in BOOLEAN
         /\ t.insec \in Secs(c) /\ t.innew \in Secs(c) /\ t.inseq \in Nat
         /\ t.outsec \in Secs(c) /\ t.outnew \in Secs(c) /\ t.outseq \in Nat
         /\ t.hand \in BOOLEAN /\ t.handq \in {<<>>} \union {<<b>> : b \in Bodies(c)}
         /\ t.hprocessed \in {<<>>, AtCert(c), AtKey(c), AtDone}
BY DEF TlsRecs

\* AfterSeal changes the writing side only, and not that in the clear.
LEMMA SealOf ==
  ASSUME NEW c, NEW t \in TlsRecs(c), NEW type
  PROVE  /\ AfterSeal(t, type) \in TlsRecs(c)
         /\ AfterSeal(t, type).state = t.state
         /\ SameSetup(t, AfterSeal(t, type)) /\ SameReading(t, AfterSeal(t, type))
         /\ SameHand(t, AfterSeal(t, type))
         /\ type # "ccs" /\ t.outsec = NoSec => AfterSeal(t, type) = t
         /\ type # "ccs" /\ t.outsec # NoSec =>
              /\ AfterSeal(t, type).outsec = t.outsec /\ AfterSeal(t, type).outnew = t.outnew
              /\ AfterSeal(t, type).outseq = t.outseq + 1
         /\ type = "ccs" =>
              /\ AfterSeal(t, type).outsec = t.outnew /\ AfterSeal(t, type).outnew = NoSec
              /\ AfterSeal(t, type).outseq = 0
<1>1. CASE type = "ccs"
  <2>1. AfterSeal(t, type) = [t EXCEPT !.outsec = t.outnew, !.outnew = NoSec, !.outseq = 0]
    BY <1>1 DEF AfterSeal
  <2>2. NoSec \in Secs(c)
    BY DEF Secs
  <2>3. AfterSeal(t, type) \in TlsRecs(c)
    <3> DEFINE a == [t EXCEPT !.outsec = t.outnew]
               b == [a EXCEPT !.outnew = NoSec]
               d == [b EXCEPT !.outseq = 0]
    <3>1. a \in TlsRecs(c)
      BY DEF TlsRecs
    <3>2. b \in TlsRecs(c)
      BY <2>2, <3>1 DEF TlsRecs
    <3>3. d \in TlsRecs(c)
      BY <3>2 DEF TlsRecs
    <3>4. d = [t EXCEPT !.outsec = t.outnew, !.outnew = NoSec, !.outseq = 0]
      OBVIOUS
    <3> QED  BY <2>1, <3>3, <3>4
  <2>4. /\ AfterSeal(t, type).state = t.state
        /\ AfterSeal(t, type).outsec = t.outnew /\ AfterSeal(t, type).outnew = NoSec
        /\ AfterSeal(t, type).outseq = 0
    BY <2>1 DEF TlsRecs
  <2>5. /\ SameSetup(t, AfterSeal(t, type)) /\ SameReading(t, AfterSeal(t, type))
        /\ SameHand(t, AfterSeal(t, type))
    BY <2>1 DEF TlsRecs, SameSetup, SameReading, SameHand
  <2> QED  BY <1>1, <2>3, <2>4, <2>5
<1>2. CASE type # "ccs" /\ t.outsec # NoSec
  <2>1. AfterSeal(t, type) = [t EXCEPT !.outseq = t.outseq + 1]
    BY <1>2 DEF AfterSeal
  <2> QED  BY <1>2, <2>1 DEF TlsRecs, SameSetup, SameReading, SameHand
<1>3. CASE type # "ccs" /\ t.outsec = NoSec
  <2>1. AfterSeal(t, type) = t
    BY <1>3 DEF AfterSeal
  <2> QED  BY <1>3, <2>1 DEF SameSetup, SameReading, SameHand
<1> QED  BY <1>1, <1>2, <1>3

\* The record that is sealed.
LEMMA SealedOf ==
  ASSUME NEW c, NEW t \in TlsRecs(c), NEW type, NEW body
  PROVE  /\ Sealed(t, type, body).type = type /\ Sealed(t, type, body).body = body
         /\ Sealed(t, type, body).ver = t.version /\ Sealed(t, type, body).sec = t.outsec
         /\ Sealed(t, type, body).seq = (IF t.outsec = NoSec THEN 0 ELSE t.outseq)
         /\ \/ type = "hand" /\ body \in Bodies(c)
            \/ type = "ccs" /\ body = 1
            \/ type = "alert" /\ body \in {"fatal", "close", "noreneg"}
            \/ type = "data" /\ body \in Nat
            => Sealed(t, type, body) \in Recs(c)
<1>1. (IF t.outsec = NoSec THEN 0 ELSE t.outseq) \in Nat /\ t.version \in 0 .. 3 /\ t.outsec \in Secs(c)
  BY FieldsOf
<1> QED  BY <1>1 DEF Sealed, Recs, Records

\* An alert, and an error, change the state only.
LEMMA ErrorOf ==
  ASSUME NEW c, NEW t \in TlsRecs(c)
  PROVE  /\ TlsError(t) \in TlsRecs(c) /\ TlsError(t).state = "SError"
         /\ SameSetup(t, TlsError(t)) /\ SameReading(t, TlsError(t))
         /\ SameWriting(t, TlsError(t)) /\ SameHand(t, TlsError(t))
         /\ Alerting(t) \in TlsRecs(c)
         /\ SameSetup(t, Alerting(t)) /\ SameReading(t, Alerting(t))
         /\ SameWriting(t, Alerting(t)) /\ SameHand(t, Alerting(t))
         /\ t.state = "SError" => Alerting(t).state = "SError"
         /\ t.state = "SHandshake" => Alerting(t).state = "SAlert"
BY DEF TlsError, Alerting, TlsRecs, States, SameSetup, SameReading, SameWriting, SameHand

\* What a record that is taken changes: its number, or the cipher, or the
\* state, or the handshake queue.
LEMMA AcceptedOf ==
  ASSUME NEW c, NEW t \in TlsRecs(c), NEW r \in Recs(c), t.hand => t.handq = <<>>
  PROVE  /\ Accepted(t, r) \in TlsRecs(c)
         /\ SameSetup(t, Accepted(t, r)) /\ SameWriting(t, Accepted(t, r))
         /\ Accepted(t, r).hand = t.hand /\ Accepted(t, r).hprocessed = t.hprocessed
         /\ r.type = "ccs" =>
              /\ Accepted(t, r).insec = t.innew /\ Accepted(t, r).innew = NoSec
              /\ Accepted(t, r).inseq = 0
              /\ Accepted(t, r).state = t.state /\ Accepted(t, r).handq = t.handq
         /\ r.type # "ccs" =>
              /\ Accepted(t, r).insec = t.insec /\ Accepted(t, r).innew = t.innew
              /\ Accepted(t, r).inseq = IF t.insec = NoSec THEN t.inseq ELSE t.inseq + 1
              /\ Accepted(t, r).state = IF Fatal(r) THEN "SError" ELSE t.state
              /\ Accepted(t, r).handq = IF r.type = "hand" /\ t.hand THEN <<r.body>> ELSE t.handq
<1> DEFINE u == Counted(t)
<1>1. /\ u \in TlsRecs(c) /\ u.state = t.state
      /\ SameSetup(t, u) /\ SameWriting(t, u) /\ SameHand(t, u)
      /\ u.insec = t.insec /\ u.innew = t.innew
      /\ u.inseq = IF t.insec = NoSec THEN t.inseq ELSE t.inseq + 1
  BY DEF Counted, TlsRecs, SameSetup, SameWriting, SameHand
<1> HIDE DEF u
<1>2. NoSec \in Secs(c)
  BY DEF Secs
<1>3. CASE r.type = "ccs"
  <2>1. Accepted(t, r) = [u EXCEPT !.insec = u.innew, !.innew = NoSec, !.inseq = 0]
    BY <1>3 DEF Accepted, u
  <2>2. Accepted(t, r) \in TlsRecs(c)
    <3> DEFINE x == [u EXCEPT !.insec = u.innew]
               y == [x EXCEPT !.innew = NoSec]
               z == [y EXCEPT !.inseq = 0]
    <3>1. x \in TlsRecs(c)
      BY <1>1 DEF TlsRecs
    <3>2. y \in TlsRecs(c)
      BY <1>2, <3>1 DEF TlsRecs
    <3>3. z \in TlsRecs(c)
      BY <3>2 DEF TlsRecs
    <3>4. z = [u EXCEPT !.insec = u.innew, !.innew = NoSec, !.inseq = 0]
      BY <1>1 DEF TlsRecs
    <3> QED  BY <2>1, <3>3, <3>4
  <2>3. LET a == Accepted(t, r) IN
        /\ a.insec = u.innew /\ a.innew = NoSec /\ a.inseq = 0 /\ a.state = u.state
        /\ SameSetup(u, a) /\ SameWriting(u, a) /\ SameHand(u, a)
    BY <1>1, <2>1 DEF TlsRecs, SameSetup, SameWriting, SameHand
  <2> QED  BY <1>1, <1>3, <2>2, <2>3 DEF SameSetup, SameWriting, SameHand
<1>4. CASE r.type = "alert" /\ r.body = "fatal"
  <2>1. Accepted(t, r) = [u EXCEPT !.state = "SError"]
    BY <1>4 DEF Accepted, u, TlsError
  <2> QED  BY <1>1, <1>4, <2>1 DEF TlsRecs, States, Fatal, SameSetup, SameWriting, SameHand
<1>5. CASE r.type = "alert" /\ r.body = "close"
  <2>1. Accepted(t, r) = TlsError(RemoteClosed(u))
    BY <1>5 DEF Accepted, u
  <2>2. Accepted(t, r) = [u EXCEPT !.state = "SError"]
    BY <1>1, <2>1 DEF TlsError, RemoteClosed, TlsRecs
  <2> QED  BY <1>1, <1>5, <2>2 DEF TlsRecs, States, Fatal, SameSetup, SameWriting, SameHand
<1>6. CASE r.type = "hand" /\ t.hand
  <2>1. Accepted(t, r) = [u EXCEPT !.handq = Append(u.handq, r.body)]
    BY <1>1, <1>6 DEF Accepted, u, SameHand
  <2>2. Append(u.handq, r.body) = <<r.body>>
    <3>1. u.handq = <<>>
      BY <1>1, <1>6 DEF SameHand
    <3>2. \A b : Append(<<>>, b) = <<b>>
      OBVIOUS
    <3> QED  BY <3>1, <3>2
  <2>3. r.body \in Bodies(c)
    BY <1>6 DEF Recs, Records
  <2>4. Accepted(t, r) = [u EXCEPT !.handq = <<r.body>>]
    BY <2>1, <2>2
  <2>5. Accepted(t, r) \in TlsRecs(c)
    BY <1>1, <2>3, <2>4, FieldsOf DEF TlsRecs
  <2>6. LET a == Accepted(t, r) IN
        /\ a.handq = <<r.body>> /\ a.state = u.state /\ a.hand = u.hand
        /\ a.hprocessed = u.hprocessed
        /\ SameSetup(u, a) /\ SameWriting(u, a) /\ SameReading(u, a)
    BY <1>1, <2>4 DEF TlsRecs, SameSetup, SameWriting, SameReading
  <2> QED  BY <1>1, <1>6, <2>5, <2>6 DEF Fatal, SameSetup, SameWriting, SameHand, SameReading
<1>7. CASE /\ r.type # "ccs" /\ ~(r.type = "alert" /\ r.body \in {"fatal", "close"})
           /\ ~(r.type = "hand" /\ t.hand)
  <2>1. Accepted(t, r) = u
    <3>1. u.hand = t.hand
      BY <1>1 DEF SameHand
    <3> QED  BY <1>7, <3>1 DEF Accepted, u
  <2> QED  BY <1>1, <1>7, <2>1 DEF Fatal, SameSetup, SameWriting, SameHand
<1> QED  BY <1>3, <1>4, <1>5, <1>6, <1>7

\* The ctl message version.
LEMMA VersionOf ==
  ASSUME NEW c, NEW t \in TlsRecs(c), NEW v \in 0 .. 3
  PROVE  /\ SetVersion(t, v) \in TlsRecs(c) /\ SetVersion(t, v).state = t.state
         /\ SetVersion(t, v).version = v /\ SetVersion(t, v).verset
         /\ SetVersion(t, v).opened = t.opened
         /\ SameReading(t, SetVersion(t, v)) /\ SameWriting(t, SetVersion(t, v))
         /\ SameHand(t, SetVersion(t, v))
BY DEF SetVersion, TlsRecs, SameReading, SameWriting, SameHand

\* The ctl message secret.
LEMMA SecretOf ==
  ASSUME NEW c, NEW t \in TlsRecs(c), NEW i \in Secs(c), NEW o \in Secs(c)
  PROVE  /\ SetSecret(t, i, o) \in TlsRecs(c) /\ SetSecret(t, i, o).state = t.state
         /\ SameSetup(t, SetSecret(t, i, o)) /\ SameHand(t, SetSecret(t, i, o))
         /\ SetSecret(t, i, o).insec = t.insec /\ SetSecret(t, i, o).innew = i
         /\ SetSecret(t, i, o).inseq = t.inseq
         /\ SetSecret(t, i, o).outsec = t.outsec /\ SetSecret(t, i, o).outnew = o
         /\ SetSecret(t, i, o).outseq = t.outseq
BY DEF SetSecret, TlsRecs, SameSetup, SameHand

\* The ctl message opened.
LEMMA OpenedOf ==
  ASSUME NEW c, NEW t \in TlsRecs(c)
  PROVE  /\ Opened(t) \in TlsRecs(c) /\ Opened(t).state = "SOpen" /\ Opened(t).opened
         /\ Opened(t).version = t.version /\ Opened(t).verset = t.verset
         /\ SameReading(t, Opened(t)) /\ SameWriting(t, Opened(t)) /\ SameHand(t, Opened(t))
BY DEF Opened, TlsRecs, States, SameReading, SameWriting, SameHand

\* The close of the hand file.
LEMMA CloseHandOf ==
  ASSUME NEW c, NEW t \in TlsRecs(c)
  PROVE  /\ CloseHand(t) \in TlsRecs(c) /\ CloseHand(t).state = t.state
         /\ SameSetup(t, CloseHand(t)) /\ SameReading(t, CloseHand(t))
         /\ SameWriting(t, CloseHand(t)) /\ ~CloseHand(t).hand /\ NoQueue(CloseHand(t))
BY DEF CloseHand, TlsRecs, SameSetup, SameReading, SameWriting, NoQueue

\* The first message, and what is left of the record it came in.
LEMMA RestOf ==
  ASSUME NEW c, NEW t \in TlsRecs(c), HandReady(t)
  PROVE  /\ HandRest(t).state = t.state /\ SameSetup(t, HandRest(t))
         /\ SameReading(t, HandRest(t)) /\ SameWriting(t, HandRest(t))
         /\ HandRest(t).hand = t.hand
         /\ \A s : s # <<>> /\ Rest(t, s) =>
              /\ HandFirst(t) = Head(s)
              /\ \A u \in {<<>>, AtCert(c), AtKey(c), AtDone} : Tail(s) = u =>
                   HandRest(t) \in TlsRecs(c) /\ Rest(HandRest(t), u)
         /\ \A b : Queue(t, b) =>
              /\ HandFirst(t) = Head(b)
              /\ \A u \in {<<>>, AtCert(c), AtKey(c), AtDone} : Tail(b) = u =>
                   HandRest(t) \in TlsRecs(c) /\ Rest(HandRest(t), u)
<1>1. CASE t.hprocessed # <<>>
  <2>1. HandRest(t) = [t EXCEPT !.hprocessed = Tail(t.hprocessed)]
    BY <1>1 DEF HandRest
  <2>2. /\ HandRest(t).state = t.state /\ SameSetup(t, HandRest(t))
        /\ SameReading(t, HandRest(t)) /\ SameWriting(t, HandRest(t))
        /\ HandRest(t).hand = t.hand /\ HandRest(t).handq = t.handq
        /\ HandRest(t).hprocessed = Tail(t.hprocessed)
    BY <2>1 DEF TlsRecs, SameSetup, SameReading, SameWriting
  <2>3. Tail(t.hprocessed) \in {<<>>, AtCert(c), AtKey(c), AtDone} => HandRest(t) \in TlsRecs(c)
    BY <2>1 DEF TlsRecs
  <2>4. HandFirst(t) = Head(t.hprocessed)
    BY <1>1 DEF HandFirst
  <2> QED  BY <1>1, <2>2, <2>3, <2>4 DEF Rest, Queue
<1>2. CASE t.hprocessed = <<>>
  <2>1. HandRest(t) = [t EXCEPT !.hprocessed = Tail(Head(t.handq)), !.handq = Tail(t.handq)]
    BY <1>2 DEF HandRest
  <2>2. /\ HandRest(t).state = t.state /\ SameSetup(t, HandRest(t))
        /\ SameReading(t, HandRest(t)) /\ SameWriting(t, HandRest(t))
        /\ HandRest(t).hand = t.hand /\ HandRest(t).handq = Tail(t.handq)
        /\ HandRest(t).hprocessed = Tail(Head(t.handq))
    BY <2>1 DEF TlsRecs, SameSetup, SameReading, SameWriting
  <2>3. \A b : t.handq = <<b>> => Head(t.handq) = b /\ Tail(t.handq) = <<>>
    OBVIOUS
  <2>4. /\ Tail(Head(t.handq)) \in {<<>>, AtCert(c), AtKey(c), AtDone} /\ Tail(t.handq) = <<>>
        => HandRest(t) \in TlsRecs(c)
    BY <2>1 DEF TlsRecs
  <2>5. HandFirst(t) = Head(Head(t.handq))
    BY <1>2 DEF HandFirst
  <2> QED  BY <1>2, <2>2, <2>3, <2>4, <2>5 DEF Rest, Queue
<1> QED  BY <1>1, <1>2

-----------------------------------------------------------------------------
(* The records on their way, from one state to the next *)

\* What the type invariant says of one end.
LEMMA TypesOf ==
  ASSUME TypeOK, NEW e \in Ends
  PROVE  /\ conf \in Confs /\ tr[e] \in TlsRecs(conf) /\ wire[e] \in Seq(Recs(conf))
         /\ pc[e] \in Shaking \union {"nofinished", "err", "failed", "open", "closed"}
         /\ got[e] \in Seq(Nat) /\ Len(got[e]) \in Nat /\ sent[e] \in Nat /\ Len(wire[e]) \in Nat
         /\ Skew(wire[e]) \in {0, 1} /\ Pending(e) \in {0, 1}
         /\ Taken(conf, e, tr[e], pc[e]) \in Nat /\ Made(e, tr[e], pc[e]) \in Nat
         /\ Other(e) \in Ends
<1>1. /\ conf \in Confs /\ tr[e] \in TlsRecs(conf) /\ wire[e] \in Seq(Recs(conf))
      /\ pc[e] \in Shaking \union {"nofinished", "err", "failed", "open", "closed"}
      /\ got[e] \in Seq(Nat) /\ sent[e] \in Nat
  BY DEF TypeOK
<1>2. Len(got[e]) \in Nat /\ Len(wire[e]) \in Nat
  BY <1>1
<1>3. Skew(wire[e]) \in {0, 1} /\ Pending(e) \in {0, 1}
  BY DEF Skew, Pending
<1>4. tr[e].inseq \in Nat /\ tr[e].outseq \in Nat
  BY <1>1, FieldsOf
<1>5. Turn(e) \in Nat /\ Turn(Other(e)) \in Nat /\ Other(e) \in Ends
  BY EndsOf DEF Turn
<1>6. Taken(conf, e, tr[e], pc[e]) \in Nat
  BY <1>4, <1>5 DEF Taken
<1>7. Made(e, tr[e], pc[e]) \in Nat
  BY <1>4, <1>5 DEF Made
<1> QED  BY <1>1, <1>2, <1>3, <1>5, <1>6, <1>7

\* e does something, and takes no record.
LEMMA LinkQuiet ==
  ASSUME TypeOK, NEW e \in Ends, Link(e), conf' = conf, requested => requested',
         wire'[e] = wire[e], tr'[Other(e)] = tr[Other(e)], pc'[Other(e)] = pc[Other(e)],
         sent'[Other(e)] = sent[Other(e)], Pending(Other(e))' = Pending(Other(e)),
         broken => broken', eof[Other(e)] => eof'[Other(e)],
         tr'[e].insec # NoSec => tr[e].insec # NoSec,
         Alive(e)' => /\ Alive(e) /\ got'[e] = got[e]
                      /\ Taken(conf, e, tr'[e], pc'[e]) = Taken(conf, e, tr[e], pc[e])
  PROVE  Link(e)'
<1>1. Flows(e)' => Flows(e)
  BY DEF Flows, Sending
<1> QED  BY <1>1 DEF Link

\* e takes the first record.
LEMMA LinkTake ==
  ASSUME TypeOK, NEW e \in Ends, Link(e), conf' = conf, requested' = requested,
         wire[e] # <<>>, wire'[e] = Tail(wire[e]),
         tr'[Other(e)] = tr[Other(e)], pc'[Other(e)] = pc[Other(e)],
         sent'[Other(e)] = sent[Other(e)], Pending(Other(e))' = Pending(Other(e)),
         broken' = broken, eof' = eof,
         tr'[e].insec # NoSec => tr[Other(e)].outsec # NoSec,
         Alive(e)' =>
           /\ Alive(e)
           /\ Taken(conf, e, tr'[e], pc'[e])
              = Taken(conf, e, tr[e], pc[e]) + (IF Asked(wire[e]) THEN 0 ELSE 1)
           /\ IF wire[e][1].type = "data" THEN Len(got'[e]) = Len(got[e]) + 1 ELSE got'[e] = got[e]
  PROVE  Link(e)'
<1> DEFINE w == wire[e]
           f == Other(e)
           n == Taken(conf, e, tr[e], pc[e])
           m == Taken(conf, e, tr'[e], pc'[e])
           g == Len(got[e])
           h == Len(got'[e])
<1>1. /\ w \in Seq(Recs(conf)) /\ w # <<>> /\ n \in Nat /\ g \in Nat /\ sent[f] \in Nat /\ Len(w) \in Nat
      /\ Len(w) >= 1 /\ Len(Tail(w)) = Len(w) - 1 /\ Tail(w) \in Seq(Recs(conf))
      /\ \A i \in 1 .. Len(w) - 1 : i + 1 \in 1 .. Len(w) /\ Tail(w)[i] = w[i + 1]
  BY TypesOf, ListOf
<1>2. \A i \in 1 .. Len(Tail(w)) : Tail(w)[i].type = "ccs" \/ Tail(w)[i].sec # NoSec => tr[f].outsec # NoSec
  BY <1>1 DEF Link
<1>3. ASSUME Alive(e)'
      PROVE  /\ Stream(conf, e, m, Tail(w)) /\ ~Asked(Tail(w))
             /\ m - Skew(Tail(w)) = n - Skew(w) + 1
  <2>1. Stream(conf, e, n, w)
    <3>1. Alive(e)
      BY <1>3
    <3> QED  BY <3>1 DEF Link
  <2>2. CASE Asked(w)
    BY <1>1, <1>3, <2>1, <2>2, StreamAsked
  <2>3. CASE ~Asked(w)
    BY <1>1, <1>3, <2>1, <2>3, StreamTail
  <2> QED  BY <2>2, <2>3
<1>4. ASSUME Alive(e)'
      PROVE  /\ Data(Tail(w), h, sent[f])
             /\ \A i \in 0 .. Len(w) - 1 : AllBefore(w, i + 1, g, sent[f]) => AllBefore(Tail(w), i, h, sent[f])
  <2>1. Data(w, g, sent[f])
    BY <1>3, <1>4 DEF Link
  <2>2. CASE w[1].type = "data"
    <3>1. h = g + 1
      BY <1>4, <2>2
    <3> QED  BY <1>1, <2>1, <2>2, <3>1, DataTake
  <2>3. CASE w[1].type # "data"
    <3>1. h = g
      BY <1>4, <2>3
    <3> QED  BY <1>1, <2>1, <2>3, <3>1, DataTail
  <2> QED  BY <2>2, <2>3
<1>5. ASSUME Alive(e)', NEW i \in 1 .. Len(Tail(w)), Closes(Tail(w)[i])
      PROVE  pc[f] = "closed" /\ AllBefore(Tail(w), i - 1, h, sent[f])
  <2>1. /\ i + 1 \in 1 .. Len(w) /\ Tail(w)[i] = w[i + 1] /\ i - 1 \in 0 .. Len(w) - 1
        /\ (i + 1) - 1 = (i - 1) + 1
    BY <1>1
  <2>2. pc[f] = "closed" /\ AllBefore(w, (i + 1) - 1, g, sent[f])
    BY <1>5, <2>1 DEF Link
  <2>3. AllBefore(w, (i - 1) + 1, g, sent[f])
    BY <2>1, <2>2
  <2> QED  BY <1>4, <1>5, <2>1, <2>2, <2>3
<1>6. ASSUME Alive(e)', Flows(e)'
      PROVE  /\ m + Len(Tail(w)) - Skew(Tail(w)) + Pending(f) = Made(f, tr[f], pc[f])
             /\ AllBefore(Tail(w), Len(Tail(w)), h, sent[f])
  <2>1. Flows(e)
    BY <1>6 DEF Flows, Sending
  <2>2. /\ n + Len(w) - Skew(w) + Pending(f) = Made(f, tr[f], pc[f])
        /\ AllBefore(w, Len(w), g, sent[f])
    BY <1>6, <2>1 DEF Link
  <2>3. /\ m \in Nat /\ Skew(w) \in {0, 1} /\ Skew(Tail(w)) \in {0, 1} /\ Pending(f) \in {0, 1}
    <3>1. m = n + (IF Asked(w) THEN 0 ELSE 1)
      BY <1>6
    <3> QED  BY <1>1, <3>1 DEF Skew, Pending
  <2>4. m + Len(Tail(w)) - Skew(Tail(w)) = n + Len(w) - Skew(w)
    <3>1. m - Skew(Tail(w)) = n - Skew(w) + 1
      BY <1>3, <1>6
    <3>2. Len(Tail(w)) = Len(w) - 1
      BY <1>1
    <3>3. n \in Nat /\ Len(w) \in Nat
      BY <1>1
    <3>4. m \in Int /\ Skew(w) \in Int /\ Skew(Tail(w)) \in Int
      BY <2>3
    <3> DEFINE a == Skew(w)
               b == Skew(Tail(w))
               k == Len(Tail(w))
               l == Len(w)
    <3>5. m + k - b = n + l - a
      <4>1. /\ m - b = n - a + 1 /\ k = l - 1
            /\ m \in Int /\ n \in Int /\ a \in Int /\ b \in Int /\ l \in Int
        BY <3>1, <3>2, <3>3, <3>4
      <4> HIDE DEF w, m, n, a, b, k, l
      <4> QED  BY <4>1
    <3> QED  BY <3>5
  <2>5. AllBefore(Tail(w), Len(Tail(w)), h, sent[f])
    <3>1. Len(w) - 1 \in 0 .. Len(w) - 1 /\ (Len(w) - 1) + 1 = Len(w)
      BY <1>1
    <3> QED  BY <1>1, <1>4, <1>6, <2>2, <3>1
  <2> QED  BY <2>2, <2>4, <2>5
<1>7. tr'[e].insec # NoSec => tr[f].outsec # NoSec
  OBVIOUS
<1> QED  BY <1>2, <1>3, <1>4, <1>5, <1>6, <1>7 DEF Link

\* The other end does something, and writes no record.
LEMMA LinkSame ==
  ASSUME TypeOK, NEW e \in Ends, Link(e), conf' = conf, requested => requested',
         wire'[e] = wire[e], tr'[e] = tr[e], pc'[e] = pc[e], rd'[e] = rd[e], got'[e] = got[e],
         sent'[Other(e)] = sent[Other(e)],
         tr[Other(e)].outsec # NoSec => tr'[Other(e)].outsec # NoSec,
         pc[Other(e)] = "closed" => pc'[Other(e)] = "closed",
         Flows(e)' =>
           /\ Flows(e)
           /\ Pending(Other(e))' = Pending(Other(e))
           /\ Made(Other(e), tr'[Other(e)], pc'[Other(e)]) = Made(Other(e), tr[Other(e)], pc[Other(e)])
  PROVE  Link(e)'
<1>1. Alive(e)' => Alive(e)
  BY DEF Alive
<1> QED  BY <1>1 DEF Link

\* The other end writes a record that is not data.
LEMMA LinkAppend ==
  ASSUME TypeOK, NEW e \in Ends, Link(e), conf' = conf, requested => requested',
         NEW r \in Recs(conf), wire'[e] = Append(wire[e], r), r.type # "data", Flows(e),
         tr'[e] = tr[e], pc'[e] = pc[e], rd'[e] = rd[e], got'[e] = got[e],
         sent'[Other(e)] = sent[Other(e)],
         tr[Other(e)].outsec # NoSec => tr'[Other(e)].outsec # NoSec,
         r.type = "ccs" \/ r.sec # NoSec => tr'[Other(e)].outsec # NoSec,
         Closes(r) => pc'[Other(e)] = "closed",
         Pending(Other(e)) = 0, Flows(e)' => Pending(Other(e))' = 0,
         Script(conf, e, Made(Other(e), tr[Other(e)], pc[Other(e)]) + 1, r),
         Flows(e)' => Made(Other(e), tr'[Other(e)], pc'[Other(e)])
                      = Made(Other(e), tr[Other(e)], pc[Other(e)]) + 1
  PROVE  Link(e)'
<1> DEFINE w == wire[e]
           f == Other(e)
           n == Taken(conf, e, tr[e], pc[e])
           g == Len(got[e])
           v == Append(w, r)
<1>1. /\ w \in Seq(Recs(conf)) /\ n \in Nat /\ g \in Nat /\ sent[f] \in Nat /\ Len(w) \in Nat
      /\ Made(f, tr[f], pc[f]) \in Nat /\ Skew(w) \in {0, 1}
      /\ Len(v) = Len(w) + 1
      /\ \A i \in 1 .. Len(w) : v[i] = w[i]
      /\ v[Len(w) + 1] = r
  BY TypesOf, ListOf
<1>2. Alive(e)' => Alive(e)
  BY DEF Alive
<1>3. \A i \in 1 .. Len(v) : v[i].type = "ccs" \/ v[i].sec # NoSec => tr'[f].outsec # NoSec
  <2>1. \A i \in 1 .. Len(v) : i \in 1 .. Len(w) \/ i = Len(w) + 1
    BY <1>1
  <2> QED  BY <1>1, <2>1 DEF Link
<1>4. ASSUME Alive(e)
      PROVE  /\ n + Len(w) - Skew(w) = Made(f, tr[f], pc[f])
             /\ AllBefore(w, Len(w), g, sent[f])
             /\ Stream(conf, e, n, w) /\ (Asked(w) => requested) /\ Data(w, g, sent[f])
             /\ \A i \in 1 .. Len(w) : Closes(w[i]) => pc[f] = "closed" /\ AllBefore(w, i - 1, g, sent[f])
  <2>1. n + Len(w) - Skew(w) + Pending(f) = Made(f, tr[f], pc[f])
    BY <1>4 DEF Link
  <2>2. /\ AllBefore(w, Len(w), g, sent[f])
        /\ Stream(conf, e, n, w) /\ (Asked(w) => requested) /\ Data(w, g, sent[f])
        /\ \A i \in 1 .. Len(w) : Closes(w[i]) => pc[f] = "closed" /\ AllBefore(w, i - 1, g, sent[f])
    BY <1>4 DEF Link
  <2>3. Pending(f) = 0
    OBVIOUS
  <2>4. n \in Nat /\ Len(w) \in Nat /\ Skew(w) \in {0, 1}
    BY <1>1
  <2> HIDE DEF n, w, f
  <2> QED  BY <2>1, <2>2, <2>3, <2>4
<1>5. ASSUME Alive(e)
      PROVE  Stream(conf, e, n, v) /\ (Asked(v) <=> Asked(w)) /\ Skew(v) = Skew(w)
  <2>1. Script(conf, e, n + Len(w) - Skew(w) + 1, r)
    BY <1>4, <1>5
  <2> QED  BY <1>1, <1>4, <1>5, <2>1, StreamAppend
<1>6. ASSUME Alive(e)
      PROVE  /\ Data(v, g, sent[f])
             /\ \A i \in 0 .. Len(w), k \in 0 .. Len(w) + 1 :
                  i <= k /\ AllBefore(w, i, g, sent[f]) => AllBefore(v, k, g, sent[f])
  BY <1>1, <1>4, <1>6, DataAppend
<1>7. ASSUME Alive(e) PROVE AllBefore(v, Len(w), g, sent[f]) /\ AllBefore(v, Len(v), g, sent[f])
  <2>1. Len(w) \in 0 .. Len(w) /\ Len(w) \in 0 .. Len(w) + 1 /\ Len(v) \in 0 .. Len(w) + 1
        /\ Len(w) <= Len(v) /\ Len(w) <= Len(w)
    BY <1>1
  <2> HIDE DEF v, w, g, f
  <2> QED  BY <1>4, <1>6, <1>7, <2>1
<1>8. ASSUME Alive(e), NEW i \in 1 .. Len(v), Closes(v[i])
      PROVE  pc'[f] = "closed" /\ AllBefore(v, i - 1, g, sent[f])
  <2>1. CASE i \in 1 .. Len(w)
    <3>1. i - 1 \in 0 .. Len(w) /\ i - 1 \in 0 .. Len(w) + 1 /\ i - 1 <= i - 1
      BY <1>1, <2>1
    <3>2. pc[f] = "closed" /\ AllBefore(w, i - 1, g, sent[f])
      BY <1>1, <1>4, <1>8, <2>1
    <3>3. FALSE
      BY <3>2 DEF Flows, Sending, Shaking, ClientShaking, ServerShaking
    <3> QED  BY <3>3
  <2>2. CASE i = Len(w) + 1
    <3>1. i - 1 = Len(w) /\ Closes(r)
      BY <1>1, <1>8, <2>2
    <3> QED  BY <1>7, <1>8, <3>1
  <2> QED  BY <1>1, <2>1, <2>2
<1>9. ASSUME Alive(e), Flows(e)'
      PROVE  n + Len(v) - Skew(v) + Pending(f)' = Made(f, tr'[f], pc'[f])
  <2>1. n + Len(w) - Skew(w) = Made(f, tr[f], pc[f]) /\ Skew(v) = Skew(w)
    BY <1>4, <1>5, <1>9
  <2>2. Pending(f)' = 0 /\ Made(f, tr'[f], pc'[f]) = Made(f, tr[f], pc[f]) + 1
    BY <1>9
  <2>3. n \in Nat /\ Len(w) \in Nat /\ Skew(w) \in {0, 1} /\ Len(v) = Len(w) + 1
    BY <1>1
  <2>4. \A a, l, s, b, k \in Int : a + l - s = b /\ k = l + 1 => a + k - s + 0 = b + 1
    OBVIOUS
  <2>5. Made(f, tr[f], pc[f]) \in Int /\ n \in Int /\ Len(w) \in Int /\ Len(v) \in Int /\ Skew(w) \in Int
    BY <1>1
  <2> QED  BY <2>1, <2>2, <2>3, <2>4, <2>5
<1> HIDE DEF v, n, g
<1>10. /\ tr'[e].insec # NoSec => tr'[f].outsec # NoSec
       /\ n = Taken(conf', e, tr'[e], pc'[e]) /\ g = Len(got'[e])
  BY DEF Link, n, g
<1>11. wire'[e] = v
  BY DEF v
<1> QED  BY <1>2, <1>3, <1>5, <1>4, <1>6, <1>7, <1>8, <1>9, <1>10, <1>11 DEF Link

\* The other end writes a piece of data; when this end has closed it is lost.
LEMMA LinkData ==
  ASSUME TypeOK, NEW e \in Ends, Link(e), conf' = conf, requested' = requested,
         NEW r \in Recs(conf), r.type = "data", r.body = sent[Other(e)] + 1,
         tr[Other(e)].outsec # NoSec, pc[Other(e)] = "open",
         wire'[e] = IF broken \/ eof[Other(e)] THEN wire[e] ELSE Append(wire[e], r),
         tr' = tr, pc' = pc, rd' = rd, got' = got, broken' = broken, eof' = eof,
         sent'[Other(e)] = sent[Other(e)] + 1, Len(got[e]) <= sent[Other(e)],
         Pending(Other(e)) = 1, Pending(Other(e))' = 0,
         Script(conf, e, Made(Other(e), tr[Other(e)], pc[Other(e)]), r)
  PROVE  Link(e)'
<1> DEFINE w == wire[e]
           f == Other(e)
           n == Taken(conf, e, tr[e], pc[e])
           g == Len(got[e])
           s == sent[f]
           v == Append(w, r)
           b == Made(f, tr[f], pc[f])
<1>1. /\ w \in Seq(Recs(conf)) /\ n \in Nat /\ g \in Nat /\ s \in Nat /\ Len(w) \in Nat
      /\ b \in Nat /\ Skew(w) \in {0, 1}
      /\ Len(v) = Len(w) + 1
      /\ \A i \in 1 .. Len(w) : v[i] = w[i]
      /\ v[Len(w) + 1] = r
  BY TypesOf, ListOf
<1>2. Alive(e)' <=> Alive(e)
  BY DEF Alive
<1>3. \A i \in 1 .. Len(v) : v[i].type = "ccs" \/ v[i].sec # NoSec => tr[f].outsec # NoSec
  OBVIOUS
<1>4. ASSUME Alive(e)
      PROVE  /\ Stream(conf, e, n, w) /\ (Asked(w) => requested) /\ Data(w, g, s)
             /\ \A i \in 1 .. Len(w) : ~Closes(w[i])
  <2>1. /\ Stream(conf, e, n, w) /\ (Asked(w) => requested) /\ Data(w, g, s)
        /\ \A i \in 1 .. Len(w) : Closes(w[i]) => pc[f] = "closed"
    BY <1>4 DEF Link
  <2> QED  BY <2>1
<1>5. ASSUME Alive(e) PROVE Data(w, g, s + 1)
  BY <1>1, <1>4, <1>5, DataAppend
<1>6. CASE broken \/ eof[f]
  <2>1. ~Flows(e)'
    BY <1>6 DEF Flows
  <2>2. wire'[e] = w /\ sent'[f] = s + 1
    BY <1>6
  <2>3. \A i \in 1 .. Len(w) : w[i].type = "ccs" \/ w[i].sec # NoSec => tr[f].outsec # NoSec
    OBVIOUS
  <2> HIDE DEF w, s
  <2> QED  BY <1>2, <1>4, <1>5, <2>1, <2>2, <2>3 DEF Link
<1>7. CASE ~broken /\ ~eof[f]
  <2>1. Flows(e)
    BY <1>7 DEF Flows, Sending
  <2>2. ASSUME Alive(e)
        PROVE  n + Len(w) - Skew(w) + 1 = b /\ AllBefore(w, Len(w), g, s)
    <3>1. /\ n + Len(w) - Skew(w) + Pending(f) = b /\ AllBefore(w, Len(w), g, s)
      BY <2>1, <2>2 DEF Link
    <3> QED  BY <3>1
  <2>3. ASSUME Alive(e)
        PROVE  Stream(conf, e, n, v) /\ (Asked(v) <=> Asked(w)) /\ Skew(v) = Skew(w)
    <3>1. Script(conf, e, n + Len(w) - Skew(w) + 1, r)
      BY <2>2, <2>3
    <3>2. n \in Nat /\ w \in Seq(Recs(conf)) /\ Stream(conf, e, n, w)
      BY <1>1, <1>4, <2>3
    <3> HIDE DEF n, w
    <3> QED  BY <3>1, <3>2, StreamAppend
  <2>4. ASSUME Alive(e)
        PROVE  Data(v, g, s + 1) /\ AllBefore(v, Len(v), g, s + 1)
    <3>1. g <= s /\ r.type = "data" /\ r.body = s + 1
      OBVIOUS
    <3> QED  BY <1>1, <1>4, <2>2, <2>4, <3>1, DataAppend
  <2>5. ASSUME Alive(e), NEW i \in 1 .. Len(v) PROVE ~Closes(v[i])
    <3>1. i \in 1 .. Len(w) \/ i = Len(w) + 1
      BY <1>1
    <3>2. ~Closes(r)
      BY DEF Closes
    <3> QED  BY <1>1, <1>4, <2>5, <3>1, <3>2
  <2>6. ASSUME Alive(e) PROVE n + Len(v) - Skew(v) + 0 = b
    <3>1. \A a, l, k, x, z \in Int : a + l - x + 1 = z /\ k = l + 1 => a + k - x + 0 = z
      OBVIOUS
    <3>2. b \in Int /\ n \in Int /\ Len(w) \in Int /\ Len(v) \in Int /\ Skew(w) \in Int
      BY <1>1
    <3> QED  BY <1>1, <2>2, <2>3, <2>6, <3>1, <3>2
  <2>7. wire'[e] = v /\ sent'[f] = s + 1 /\ Pending(f)' = 0 /\ tr'[f] = tr[f] /\ pc'[f] = pc[f]
    BY <1>7
  <2> HIDE DEF v, s
  <2> QED  BY <1>2, <1>3, <1>4, <2>3, <2>4, <2>5, <2>6, <2>7 DEF Link
<1> QED  BY <1>6, <1>7

\* The server asks for another handshake before it has the first hello.
LEMMA LinkAsk ==
  ASSUME TypeOK, Link("c"), conf' = conf, ~requested, requested',
         NEW r \in Recs(conf), r.type = "hand", r.body = <<HRequest>>, r.sec = NoSec,
         wire'["c"] = Append(wire["c"], r), Flows("c"),
         tr' = tr, pc' = pc, rd' = rd, got' = got, sent' = sent,
         Made("s", tr["s"], pc["s"]) = 0, Pending("s") = 0, Pending("s")' = 0
  PROVE  Link("c")'
<1> DEFINE w == wire["c"]
           n == Taken(conf, "c", tr["c"], pc["c"])
           g == Len(got["c"])
           s == sent["s"]
           v == Append(w, r)
<1>0. "c" \in Ends /\ "s" \in Ends /\ Other("c") = "s"
  BY EndsOf
<1>1. /\ w \in Seq(Recs(conf)) /\ n \in Nat /\ g \in Nat /\ s \in Nat /\ Len(w) \in Nat
      /\ Len(v) = Len(w) + 1 /\ v # <<>>
      /\ \A i \in 1 .. Len(w) : v[i] = w[i]
      /\ v[Len(w) + 1] = r
  <2>1. w \in Seq(Recs(conf)) /\ n \in Nat /\ g \in Nat /\ Len(w) \in Nat
    BY <1>0, TypesOf
  <2>2. s \in Nat
    BY <1>0, TypesOf
  <2> QED  BY <2>1, <2>2, ListOf
<1>2. Alive("c")' <=> Alive("c")
  BY DEF Alive
<1>3. ASSUME Alive("c")
      PROVE  /\ ~Asked(w) /\ Data(w, g, s)
             /\ n + Len(w) - Skew(w) + Pending("s") = 0 /\ AllBefore(w, Len(w), g, s)
  BY <1>0, <1>3 DEF Link
<1>4. ASSUME Alive("c") PROVE n = 0 /\ Len(w) = 0
  <2>1. Skew(w) = 0 /\ n + Len(w) - Skew(w) + 0 = 0
    BY <1>3, <1>4 DEF Skew
  <2>2. \A a, l \in Nat : a + l - 0 + 0 = 0 => a = 0 /\ l = 0
    OBVIOUS
  <2> QED  BY <1>1, <2>1, <2>2
<1>5. ASSUME Alive("c")
      PROVE  Len(v) = 1 /\ v[1] = r /\ Asked(v) /\ Skew(v) = 1 /\ Stream(conf, "c", n, v)
  <2>1. Len(v) = 1 /\ v[1] = r /\ n = 0
    BY <1>1, <1>4, <1>5
  <2>2. Asked(v) /\ Skew(v) = 1
    BY <1>1, <2>1 DEF Asked, Skew
  <2>3. \A i \in 1 .. Len(v) : ~(i > Skew(v))
    BY <2>1, <2>2
  <2> QED  BY <2>1, <2>2, <2>3 DEF Stream
<1>6. ASSUME Alive("c") PROVE Data(v, g, s) /\ AllBefore(v, Len(v), g, s)
  <2>1. r.type # "data" /\ Len(w) \in 0 .. Len(w) /\ Len(v) \in 0 .. Len(w) + 1 /\ Len(w) <= Len(v)
    BY <1>1
  <2> QED  BY <1>1, <1>3, <1>6, <2>1, DataAppend
<1>7. \A i \in 1 .. Len(v) : v[i].type = "ccs" \/ v[i].sec # NoSec => tr["s"].outsec # NoSec
  <2>1. \A i \in 1 .. Len(v) : i \in 1 .. Len(w) \/ i = Len(w) + 1
    BY <1>1
  <2> QED  BY <1>0, <1>1, <2>1 DEF Link
<1>8. ASSUME Alive("c"), NEW i \in 1 .. Len(v) PROVE ~Closes(v[i])
  <2>1. i = 1
    BY <1>5, <1>8
  <2> QED  BY <1>5, <1>8, <2>1 DEF Closes
<1>9. ASSUME Alive("c") PROVE n + Len(v) - Skew(v) + 0 = 0
  BY <1>4, <1>5, <1>9
<1>10. wire'["c"] = v
  OBVIOUS
<1> HIDE DEF v
<1> QED  BY <1>0, <1>2, <1>5, <1>6, <1>7, <1>8, <1>9, <1>10 DEF Link

\* The connection breaks.
LEMMA LinkBreak ==
  ASSUME TypeOK, NEW e \in Ends, Link(e), NEW k \in 0 .. Len(wire[e]),
         wire'[e] = SubSeq(wire[e], 1, k), broken',
         conf' = conf, requested' = requested, tr' = tr, pc' = pc, rd' = rd, got' = got, sent' = sent
  PROVE  Link(e)'
<1> DEFINE w == wire[e]
           f == Other(e)
           n == Taken(conf, e, tr[e], pc[e])
           g == Len(got[e])
           s == sent[f]
           v == SubSeq(w, 1, k)
<1>1. w \in Seq(Recs(conf)) /\ n \in Nat /\ g \in Nat /\ s \in Nat /\ Len(w) \in Nat
  BY TypesOf
<1>2. v \in Seq(Recs(conf)) /\ Len(v) = k /\ \A i \in 1 .. k : v[i] = w[i] /\ i \in 1 .. Len(w)
  BY <1>1
<1>3. Alive(e)' <=> Alive(e)
  BY DEF Alive
<1>4. ASSUME Alive(e)
      PROVE  /\ Stream(conf, e, n, w) /\ (Asked(w) => requested) /\ Data(w, g, s)
             /\ \A i \in 1 .. Len(w) : Closes(w[i]) => pc[f] = "closed" /\ AllBefore(w, i - 1, g, s)
  BY <1>4 DEF Link
<1>5. ASSUME Alive(e) PROVE Stream(conf, e, n, v) /\ (Asked(v) => requested)
  <2>1. Stream(conf, e, n, v) /\ (Asked(v) => Asked(w))
    BY <1>1, <1>4, <1>5, StreamPrefix
  <2> QED  BY <1>4, <1>5, <2>1
<1>6. /\ Data(w, g, s) => Data(v, g, s)
      /\ \A i \in 1 .. k : AllBefore(w, i - 1, g, s) => AllBefore(v, i - 1, g, s)
  <2>1. \A i \in 1 .. k : v[i] = w[i]
    BY <1>2
  <2>2. v \in Seq(Recs(conf)) /\ Len(v) = k
    BY <1>2
  <2> HIDE DEF v
  <2> QED  BY <1>1, <2>1, <2>2, DataPrefix
<1>7. ~Flows(e)'
  BY DEF Flows
<1>8. \A i \in 1 .. Len(v) : v[i].type = "ccs" \/ v[i].sec # NoSec => tr[f].outsec # NoSec
  BY <1>2 DEF Link
<1>9. wire'[e] = v /\ (tr[e].insec # NoSec => tr[f].outsec # NoSec)
  BY DEF Link
<1> HIDE DEF v, w
<1> QED  BY <1>2, <1>3, <1>4, <1>5, <1>6, <1>7, <1>8, <1>9 DEF Link, w

\* e is gone, or closes: nothing is under way to it.
LEMMA LinkGone ==
  ASSUME NEW e \in Ends, Link(e), ~Alive(e)', wire'[e] = <<>>,
         tr'[e].insec = tr[e].insec, tr'[Other(e)] = tr[Other(e)]
  PROVE  Link(e)'
<1>1. \A i \in 1 .. Len(wire'[e]) : FALSE
  OBVIOUS
<1>2. tr[e].insec # NoSec => tr[Other(e)].outsec # NoSec
  BY DEF Link
<1> QED  BY <1>1, <1>2 DEF Link

-----------------------------------------------------------------------------
(* Steps of the handshake *)

\* The record an end seals is the next of the script.
LEMMA SealScript ==
  ASSUME NEW c, NEW e \in Ends, NEW t \in TlsRecs(c), NEW l, NEW type, NEW body, NEW n \in Nat,
         n = Made(e, t, l) + 1,
         t.outsec # NoSec => t.outsec = SendKey(c, e),
         t.version = IF e = "c" /\ n = 1 THEN ProtocolVersion ELSE c.svers,
         \/ type = "alert" /\ body \in {"fatal", "close"}
         \/ n = Turn(Other(e)) /\ type = "ccs"
         \/ /\ n <= Turn(Other(e)) + 1 /\ n # Turn(Other(e))
            /\ type = "hand" /\ body = Said(c, Other(e), n)
            /\ e = "s" => Common(c) # {}
         \/ n > Turn(Other(e)) + 1 /\ type \in {"data", "hand"}
         \/ n > Turn(Other(e)) + 1 /\ type = "alert" /\ body = "noreneg"
  PROVE  Script(c, Other(e), n, Sealed(t, type, body))
<1> DEFINE f == Other(e)
           r == Sealed(t, type, body)
<1>1. /\ r.type = type /\ r.body = body /\ r.ver = t.version /\ r.sec = t.outsec
      /\ r.seq = (IF t.outsec = NoSec THEN 0 ELSE t.outseq)
  BY SealedOf
<1>2. /\ Other(f) = e /\ Turn(f) \in Nat /\ (e = "c" => Turn(f) = 3) /\ (e = "s" => Turn(f) = 2)
      /\ (f = "s" <=> e = "c") /\ (f = "c" <=> e = "s") /\ (e = "c" \/ e = "s")
  BY EndsOf DEF Ends
<1>3. t.outseq \in Nat
  BY FieldsOf
<1>4. CASE t.outsec = NoSec
  <2>1. Made(e, t, l) <= Turn(f) - 1
    BY <1>2, <1>4 DEF Made
  <2>2. n <= Turn(f)
    <3>1. Made(e, t, l) \in Nat
      BY <1>4 DEF Made
    <3> QED  BY <1>2, <2>1, <3>1
  <2>3. r.sec = NoSec /\ r.seq = 0
    BY <1>1, <1>4
  <2> QED  BY <1>1, <1>2, <2>2, <2>3 DEF Script, Fatal
<1>5. CASE t.outsec # NoSec
  <2>1. n = Turn(f) + t.outseq + 1
    BY <1>5 DEF Made
  <2>2. ~(n <= Turn(f)) /\ n - Turn(f) - 1 = t.outseq
    BY <1>2, <1>3, <2>1
  <2>3. r.sec = SendKey(c, Other(f)) /\ r.seq = n - Turn(f) - 1
    BY <1>1, <1>2, <1>5, <2>2
  <2> QED  BY <1>1, <1>2, <2>2, <2>3 DEF Script, Fatal
<1> QED  BY <1>4, <1>5

\* A record that e puts on its way.
LEMMA LinkPut ==
  ASSUME TypeOK, NEW e \in Ends, Link(Other(e)), Pending(e) = 0, Pending(e)' = 0,
         NEW r \in Recs(conf), r.type # "data", ~Closes(r), Sending(e),
         wire'[Other(e)] = IF broken \/ eof[e] THEN wire[Other(e)] ELSE Append(wire[Other(e)], r),
         tr'[Other(e)] = tr[Other(e)], pc'[Other(e)] = pc[Other(e)], rd'[Other(e)] = rd[Other(e)],
         got'[Other(e)] = got[Other(e)], sent'[e] = sent[e],
         UNCHANGED <<conf, eof, broken>>, requested => requested',
         tr[e].outsec # NoSec => tr'[e].outsec # NoSec,
         r.type = "ccs" \/ r.sec # NoSec => tr'[e].outsec # NoSec,
         Script(conf, Other(e), Made(e, tr[e], pc[e]) + 1, r),
         Sending(e)' => Made(e, tr'[e], pc'[e]) = Made(e, tr[e], pc[e]) + 1
  PROVE  Link(Other(e))'
<1>1. Other(e) \in Ends /\ Other(Other(e)) = e
  BY EndsOf
<1>2. CASE broken \/ eof[e]
  <2>1. ~Flows(Other(e))'
    BY <1>1, <1>2 DEF Flows
  <2>2. pc[e] # "closed"
    BY DEF Sending, Shaking, ClientShaking, ServerShaking
  <2> QED  BY <1>1, <1>2, <2>1, <2>2, LinkSame
<1>3. CASE ~broken /\ ~eof[e]
  <2>1. Flows(Other(e))
    BY <1>1, <1>3 DEF Flows
  <2>2. Flows(Other(e))' => Sending(e)'
    BY <1>1 DEF Flows
  <2> QED  BY <1>1, <1>3, <2>1, <2>2, LinkAppend
<1> QED  BY <1>2, <1>3

\* A step of the handshake at e, where everything else stays
Turns(e) ==
  /\ tr' = [tr EXCEPT ![e] = tr'[e]] /\ pc' = [pc EXCEPT ![e] = pc'[e]]
  /\ cipher' = [cipher EXCEPT ![e] = cipher'[e]] /\ hash' = [hash EXCEPT ![e] = hash'[e]]
  /\ master' = [master EXCEPT ![e] = master'[e]] /\ refused' = [refused EXCEPT ![e] = refused'[e]]
  /\ e = "s" => peercert' = peercert
  /\ UNCHANGED <<conf, requested, ioVars, eof, broken>>

\* What a step of the handshake has to do for the invariant.
LEMMA HandStep ==
  ASSUME IInv, NEW e \in Ends, Turns(e),
         pc[e] \in Shaking \union {"nofinished"},
         pc'[e] \in Shaking \union {"nofinished", "err", "open"},
         tr'[e] \in TlsRecs(conf), cipher'[e] \in {NoCipher, Chosen(conf)},
         master'[e] \in {None, MasterOf(conf, "c"), MasterOf(conf, "s")}, peercert' \in BOOLEAN,
         wire' \in [Ends -> Seq(Recs(conf))],
         refused'[e] \notin {"unexpected", "version", "finished"},
         refused'[e] = "mac" => conf.cpsk # conf.spsk,
         Place(e)', Link(e)', Link(Other(e))'
  PROVE  IInv'
<1> DEFINE f == Other(e)
<1>1. f \in Ends /\ f # e /\ Other(f) = e /\ \A x \in Ends : x = e \/ x = f
  BY EndsOf
<1>2. TypeOK
  BY DEF IInv
<1>3. /\ tr'[f] = tr[f] /\ pc'[f] = pc[f] /\ cipher'[f] = cipher[f] /\ hash'[f] = hash[f]
      /\ master'[f] = master[f] /\ refused'[f] = refused[f]
  BY <1>1, <1>2 DEF TypeOK, Turns
<1>4. TypeOK'
  <2>1. tr' \in [Ends -> TlsRecs(conf)]
    BY <1>2 DEF TypeOK, Turns
  <2>2. pc' \in [Ends -> Shaking \union {"nofinished", "err", "failed", "open", "closed"}]
    <3> DEFINE S == Shaking \union {"nofinished", "err", "failed", "open", "closed"}
    <3>1. pc'[e] \in S
      OBVIOUS
    <3>2. pc \in [Ends -> S]
      BY <1>2 DEF TypeOK
    <3>3. pc' = [pc EXCEPT ![e] = pc'[e]]
      BY DEF Turns
    <3> HIDE DEF S
    <3>4. pc' \in [Ends -> S]
      BY <3>1, <3>2, <3>3
    <3> QED  BY <3>4 DEF S
  <2>3. cipher' \in [Ends -> {NoCipher, Chosen(conf)}]
    BY <1>2 DEF TypeOK, Turns
  <2>4. master' \in [Ends -> {None, MasterOf(conf, "c"), MasterOf(conf, "s")}]
    BY <1>2 DEF TypeOK, Turns
  <2>5. hash' = [x \in Ends |-> hash'[x]] /\ refused' = [x \in Ends |-> refused'[x]]
    <3>1. hash = [x \in Ends |-> hash[x]] /\ refused = [x \in Ends |-> refused[x]]
      BY <1>2 DEF TypeOK
    <3> QED  BY <3>1 DEF Turns
  <2> QED  BY <1>2, <2>1, <2>2, <2>3, <2>4, <2>5 DEF TypeOK, Turns, ioVars
<1>5. Place(f)'
  <2>1. Place(f)
    BY <1>1 DEF IInv
  <2>2. f = "c" => peercert' = peercert
    BY <1>1, EndsOf DEF Turns, Ends
  <2>3. conf' = conf
    BY DEF Turns
  <2> QED  BY <1>3, <2>1, <2>2, <2>3 DEF Place
<1>6. \A x \in Ends : Place(x)' /\ Link(x)'
  BY <1>1, <1>5
<1>7. /\ rd' = rd /\ got' = got /\ sent' = sent /\ over' = over /\ outio' = outio /\ wr' = wr
      /\ pend' = pend /\ conf' = conf /\ eof' = eof /\ broken' = broken
  BY DEF Turns, ioVars
<1>8. pc[e] \notin {"open", "closed", "failed"} /\ pc'[e] \notin {"closed", "failed"}
  BY DEF Shaking, ClientShaking, ServerShaking
<1>9. ASSUME NEW x \in Ends PROVE ReaderAt(x)'
  <2>1. ReaderAt(x)
    BY DEF IInv
  <2>2. CASE x = f
    BY <1>3, <1>7, <2>1, <2>2 DEF ReaderAt
  <2>3. CASE x = e
    BY <1>7, <1>8, <2>1, <2>3 DEF ReaderAt
  <2> QED  BY <1>1, <2>2, <2>3
<1>10. ASSUME NEW x \in Ends PROVE LockAt(x)'
  <2>1. LockAt(x)
    BY DEF IInv
  <2> QED  BY <1>7, <2>1 DEF LockAt
<1>11. ASSUME NEW x \in Ends PROVE NetAt(x)'
  <2>1. NetAt(x)
    BY DEF IInv
  <2>2. pc'[Other(x)] \in {"failed", "closed"} <=> pc[Other(x)] \in {"failed", "closed"}
    BY <1>1, <1>3, <1>8
  <2> QED  BY <1>7, <2>1, <2>2 DEF NetAt
<1>12. ASSUME NEW w \in Writers PROVE WriterAt(w)'
  <2>1. WriterAt(w) /\ Home[w] \in Ends
    BY TlsAssumption DEF IInv
  <2>2. CASE Home[w] = f
    BY <1>3, <1>7, <2>1, <2>2 DEF WriterAt
  <2>3. CASE Home[w] = e
    BY <1>7, <1>8, <2>1, <2>3 DEF WriterAt
  <2> QED  BY <1>1, <2>1, <2>2, <2>3
<1>13. InStep'
  <2>1. InStep
    BY DEF IInv
  <2>2. \A x \in Ends : /\ refused'[x] \notin {"unexpected", "version", "finished"}
                        /\ refused'[x] = "mac" => conf.cpsk # conf.spsk
    BY <1>1, <1>3, <2>1 DEF InStep
  <2> QED  BY <1>7, <2>2 DEF InStep
<1> QED  BY <1>4, <1>6, <1>9, <1>10, <1>11, <1>12, <1>13 DEF IInv

\* No writer writes at an end that shakes hands.
LEMMA NoWriter ==
  ASSUME IInv, NEW e \in Ends, pc[e] # "open"
  PROVE  outio[e] = None /\ Pending(e) = 0 /\ \A w \in Writers : Home[w] = e => wr[w] \in {"idle", "dead"}
<1>1. LockAt(e) /\ TypeOK /\ \A w \in Writers : WriterAt(w)
  BY DEF IInv
<1>2. ASSUME outio[e] # None PROVE FALSE
  <2>1. outio[e] \in Writers
    BY <1>1, <1>2 DEF TypeOK
  <2>2. Home[outio[e]] = e /\ wr[outio[e]] \in {"locked", "sealed"}
    BY <1>1, <1>2 DEF LockAt
  <2> QED  BY <1>1, <2>1, <2>2 DEF WriterAt
<1>3. \A w \in Writers : Home[w] = e => wr[w] \in {"idle", "dead"}
  BY <1>1 DEF WriterAt, TypeOK
<1> QED  BY <1>2, <1>3 DEF Pending

\* An end gives up: it writes at most the alert that says so, and no more.
LEMMA Dies ==
  ASSUME IInv, NEW e \in Ends, Turns(e), pc[e] \in Shaking \union {"nofinished"},
         pc'[e] = "err" \/ (pc'[e] = "nofinished" /\ e = "c"),
         tr'[e] \in TlsRecs(conf), tr'[e].state = "SError",
         tr'[e].insec = tr[e].insec, tr'[e].outsec = tr[e].outsec, tr'[e].opened = tr[e].opened,
         tr[e].outsec # NoSec => /\ tr'[e].version = tr[e].version
                                 /\ cipher'[e] = cipher[e] /\ master'[e] = master[e],
         e = "s" => tr'[e].version = conf.svers,
         cipher'[e] \in {NoCipher, Chosen(conf)},
         master'[e] \in {None, MasterOf(conf, "c"), MasterOf(conf, "s")}, peercert' \in BOOLEAN,
         refused'[e] \notin {"unexpected", "version", "finished"},
         refused'[e] = "mac" => conf.cpsk # conf.spsk,
         wire' \in [Ends -> Seq(Recs(conf))],
         wire'[e] = wire[e] \/ (wire[e] # <<>> /\ wire'[e] = Tail(wire[e])),
         \/ wire'[Other(e)] = wire[Other(e)]
         \/ /\ pc[e] \in Shaking
            /\ \E t \in TlsRecs(conf) :
                 /\ SameWriting(tr[e], t)
                 /\ t.version = IF e = "c" /\ Made(e, tr[e], pc[e]) = 0 THEN ProtocolVersion ELSE conf.svers
                 /\ wire'[Other(e)] = IF broken \/ eof[e] THEN wire[Other(e)]
                                      ELSE Append(wire[Other(e)], Sealed(t, "alert", "fatal"))
  PROVE  IInv'
<1> DEFINE f == Other(e)
<1>1. f \in Ends /\ f # e /\ Other(f) = e
  BY EndsOf
<1>2. /\ TypeOK /\ Link(e) /\ Link(f) /\ Place(e)
  BY <1>1 DEF IInv
<1>3. /\ tr'[f] = tr[f] /\ pc'[f] = pc[f] /\ rd' = rd /\ got' = got /\ sent' = sent /\ conf' = conf
      /\ eof' = eof /\ broken' = broken /\ requested' = requested /\ outio' = outio /\ wr' = wr
      /\ UNCHANGED <<conf, eof, broken>>
  BY <1>1, <1>2 DEF TypeOK, Turns, ioVars
<1>4. Pending(e) = 0 /\ Pending(e)' = 0 /\ Pending(f)' = Pending(f)
  <2>1. pc[e] # "open"
    BY DEF Shaking, ClientShaking, ServerShaking
  <2>2. Pending(e) = 0
    BY <2>1, NoWriter
  <2> QED  BY <1>3, <2>2 DEF Pending
<1>5. ~Alive(e)' /\ ~Sending(e)'
  BY DEF Alive, Sending, Shaking, ClientShaking, ServerShaking
<1>6. Place(e)'
  <2>1. EndPlace(conf, e, tr[e], pc[e], cipher[e], master[e])
    BY <1>2 DEF Place
  <2>2. EndPlace(conf, e, tr'[e], pc'[e], cipher'[e], master'[e])
    BY <2>1 DEF EndPlace, Shaking, ClientShaking, ServerShaking
  <2>3. ClientPlace(conf, tr'[e], pc'[e], hash'[e], cipher'[e], master'[e], peercert')
    BY DEF ClientPlace
  <2>4. e = "s" => ServerPlace(conf, tr'[e], pc'[e], hash'[e], cipher'[e], master'[e])
    BY DEF ServerPlace
  <2>5. /\ e = "c" => pc'[e] \notin ServerShaking \ ClientShaking
        /\ e = "s" => pc'[e] \notin (ClientShaking \ ServerShaking) \union {"nofinished"}
    BY DEF ServerShaking, ClientShaking
  <2>6. conf' = conf
    BY <1>3
  <2> QED  BY <2>2, <2>3, <2>4, <2>5, <2>6 DEF Place
<1>7. Link(e)'
  <2>1. tr[e].insec # NoSec => tr[f].outsec # NoSec
    BY <1>2 DEF Link
  <2>2. CASE wire'[e] = wire[e]
    BY <1>2, <1>3, <1>4, <1>5, <2>2, LinkQuiet
  <2>3. CASE wire[e] # <<>> /\ wire'[e] = Tail(wire[e])
    BY <1>2, <1>3, <1>4, <1>5, <2>1, <2>3, LinkTake
  <2> QED  BY <2>2, <2>3
<1>8. Link(f)'
  <2>1. CASE wire'[f] = wire[f]
    <3>1. ~Flows(f)'
      BY <1>1, <1>5 DEF Flows
    <3>2. pc[e] # "closed"
      BY DEF Shaking, ClientShaking, ServerShaking
    <3> QED  BY <1>1, <1>2, <1>3, <2>1, <3>1, <3>2, LinkSame
  <2>2. ASSUME pc[e] \in Shaking, NEW t \in TlsRecs(conf), SameWriting(tr[e], t),
               t.version = IF e = "c" /\ Made(e, tr[e], pc[e]) = 0 THEN ProtocolVersion ELSE conf.svers,
               wire'[f] = IF broken \/ eof[e] THEN wire[f]
                          ELSE Append(wire[f], Sealed(t, "alert", "fatal"))
        PROVE  Link(f)'
    <3> DEFINE r == Sealed(t, "alert", "fatal")
               n == Made(e, tr[e], pc[e]) + 1
    <3>1. r \in Recs(conf) /\ r.type = "alert" /\ r.body = "fatal" /\ r.sec = t.outsec
      BY SealedOf
    <3>2. ~Closes(r)
      BY <3>1 DEF Closes
    <3>3. t.outsec = tr[e].outsec /\ Made(e, t, pc[e]) = Made(e, tr[e], pc[e])
      BY <2>2 DEF SameWriting, Made
    <3>4. t.outsec # NoSec => t.outsec = SendKey(conf, e)
      BY <1>2, <3>3 DEF Place, EndPlace
    <3>5. n \in Nat /\ n = Made(e, t, pc[e]) + 1 /\ (n = 1 <=> Made(e, tr[e], pc[e]) = 0)
      <4>1. Made(e, tr[e], pc[e]) \in Nat
        BY <1>2, TypesOf
      <4> QED  BY <3>3, <4>1
    <3>6. Script(conf, f, n, r)
      <4>1. t.version = IF e = "c" /\ n = 1 THEN ProtocolVersion ELSE conf.svers
        BY <2>2, <3>5
      <4> HIDE DEF n
      <4> QED  BY <3>4, <3>5, <4>1, SealScript
    <3>7. r.sec # NoSec => tr'[e].outsec # NoSec
      BY <3>1, <3>3
    <3>8. Sending(e)
      BY <2>2 DEF Sending
    <3>9. r.type # "data" /\ r.type # "ccs"
      BY <3>1
    <3> HIDE DEF r
    <3> QED  BY <1>2, <1>3, <1>4, <1>5, <2>2, <3>1, <3>2, <3>6, <3>7, <3>8, <3>9, LinkPut DEF r
  <2> QED  BY <2>1, <2>2
<1> QED  BY <1>6, <1>7, <1>8, HandStep

\* Bwrite adds to what is under way to the other end, and nothing else.
LEMMA BwriteOf ==
  ASSUME TypeOK, NEW e \in Ends, NEW r \in Recs(conf), Bwrite(e, r)
  PROVE  /\ wire' \in [Ends -> Seq(Recs(conf))] /\ wire'[e] = wire[e]
         /\ wire'[Other(e)] = IF broken \/ eof[e] THEN wire[Other(e)] ELSE Append(wire[Other(e)], r)
<1>1. Other(e) \in Ends /\ Other(e) # e
  BY EndsOf
<1>2. wire \in [Ends -> Seq(Recs(conf))]
  BY DEF TypeOK
<1>3. Append(wire[Other(e)], r) \in Seq(Recs(conf))
  BY <1>1, <1>2
<1> QED  BY <1>1, <1>2, <1>3 DEF Bwrite

\* Put and Goto change the end they name.
LEMMA PutOf ==
  ASSUME TypeOK, NEW e \in Ends
  PROVE  /\ \A t : Put(e, t) => tr'[e] = t /\ tr'[Other(e)] = tr[Other(e)] /\ tr' = [tr EXCEPT ![e] = tr'[e]]
         /\ \A l : Goto(e, l) => pc'[e] = l /\ pc'[Other(e)] = pc[Other(e)] /\ pc' = [pc EXCEPT ![e] = pc'[e]]
         /\ \A ms : Hash(e, ms) => hash'[e] = hash[e] \o ms /\ hash' = [hash EXCEPT ![e] = hash'[e]]
         /\ tr = [tr EXCEPT ![e] = tr[e]] /\ pc = [pc EXCEPT ![e] = pc[e]]
         /\ hash = [hash EXCEPT ![e] = hash[e]] /\ cipher = [cipher EXCEPT ![e] = cipher[e]]
         /\ master = [master EXCEPT ![e] = master[e]] /\ refused = [refused EXCEPT ![e] = refused[e]]
         /\ \A x : cipher' = [cipher EXCEPT ![e] = x] => cipher'[e] = x /\ cipher' = [cipher EXCEPT ![e] = cipher'[e]]
         /\ \A x : master' = [master EXCEPT ![e] = x] => master'[e] = x /\ master' = [master EXCEPT ![e] = master'[e]]
         /\ \A x : refused' = [refused EXCEPT ![e] = x] => refused'[e] = x /\ refused' = [refused EXCEPT ![e] = refused'[e]]
<1>1. Other(e) \in Ends /\ Other(e) # e
  BY EndsOf
<1>2. /\ DOMAIN tr = Ends /\ DOMAIN pc = Ends /\ DOMAIN hash = Ends
      /\ DOMAIN cipher = Ends /\ DOMAIN master = Ends /\ DOMAIN refused = Ends
  BY DEF TypeOK
<1>3. ASSUME NEW t, Put(e, t)
      PROVE  tr'[e] = t /\ tr'[Other(e)] = tr[Other(e)] /\ tr' = [tr EXCEPT ![e] = tr'[e]]
  BY <1>1, <1>2, <1>3 DEF Put
<1>4. ASSUME NEW l, Goto(e, l)
      PROVE  pc'[e] = l /\ pc'[Other(e)] = pc[Other(e)] /\ pc' = [pc EXCEPT ![e] = pc'[e]]
  BY <1>1, <1>2, <1>4 DEF Goto
<1>5. ASSUME NEW ms, Hash(e, ms)
      PROVE  hash'[e] = hash[e] \o ms /\ hash' = [hash EXCEPT ![e] = hash'[e]]
  BY <1>2, <1>5 DEF Hash
<1>6. /\ tr = [tr EXCEPT ![e] = tr[e]] /\ pc = [pc EXCEPT ![e] = pc[e]]
      /\ cipher = [cipher EXCEPT ![e] = cipher[e]] /\ master = [master EXCEPT ![e] = master[e]]
  BY DEF TypeOK
<1>7. hash = [hash EXCEPT ![e] = hash[e]] /\ refused = [refused EXCEPT ![e] = refused[e]]
  BY DEF TypeOK
<1>8. /\ \A x : cipher' = [cipher EXCEPT ![e] = x] => cipher'[e] = x /\ cipher' = [cipher EXCEPT ![e] = cipher'[e]]
      /\ \A x : master' = [master EXCEPT ![e] = x] => master'[e] = x /\ master' = [master EXCEPT ![e] = master'[e]]
      /\ \A x : refused' = [refused EXCEPT ![e] = x] => refused'[e] = x /\ refused' = [refused EXCEPT ![e] = refused'[e]]
  BY <1>2
<1> QED  BY <1>3, <1>4, <1>5, <1>6, <1>7, <1>8

\* GiveUp: a fatal alert, unless an error came before it.
LEMMA GiveUpStep ==
  ASSUME IInv, NEW e \in Ends, NEW t \in TlsRecs(conf), NEW why, GiveUp(e, t, why),
         pc[e] \in (Shaking \ {"opened"}) \union {"nofinished"},
         t.state = tr[e].state, SameReading(tr[e], t), SameWriting(tr[e], t), t.opened = tr[e].opened,
         pc[e] \in Shaking => t.version = IF e = "c" /\ Made(e, tr[e], pc[e]) = 0
                                          THEN ProtocolVersion ELSE conf.svers,
         e = "s" => t.version = conf.svers,
         tr[e].outsec # NoSec => t.version = tr[e].version,
         why \notin {"unexpected", "version", "finished", "mac"}
  PROVE  IInv'
<1> DEFINE a == Alerting(t)
<1>1. TypeOK /\ Place(e) /\ InStep
  BY DEF IInv
<1>2. /\ a \in TlsRecs(conf) /\ SameSetup(t, a) /\ SameReading(t, a) /\ SameWriting(t, a)
      /\ t.state = "SError" => a.state = "SError"
  BY ErrorOf
<1>3. pc'[e] = "err" /\ pc' = [pc EXCEPT ![e] = pc'[e]]
  BY <1>1, PutOf DEF GiveUp
<1>4. /\ refused' = [refused EXCEPT ![e] = refused'[e]]
      /\ refused'[e] = why \/ refused'[e] = refused[e]
  BY <1>1, PutOf DEF GiveUp
<1>5. /\ refused'[e] \notin {"unexpected", "version", "finished"}
      /\ refused'[e] = "mac" => conf.cpsk # conf.spsk
  BY <1>1, <1>4 DEF InStep
<1>6. /\ cipher' = cipher /\ hash' = hash /\ master' = master /\ peercert' = peercert
      /\ UNCHANGED <<conf, requested, ioVars, eof, broken>>
  BY DEF GiveUp, hsVars
<1>7. /\ cipher[e] \in {NoCipher, Chosen(conf)}
      /\ master[e] \in {None, MasterOf(conf, "c"), MasterOf(conf, "s")}
      /\ peercert \in BOOLEAN /\ wire \in [Ends -> Seq(Recs(conf))]
  BY <1>1 DEF TypeOK
<1>8. ASSUME tr' = [tr EXCEPT ![e] = tr'[e]] PROVE Turns(e)
  BY <1>1, <1>3, <1>4, <1>6, <1>8, PutOf DEF Turns
<1>9. CASE MayWrite(a, "alert")
  <2> DEFINE u == AfterSeal(a, "alert")
             r == Sealed(a, "alert", "fatal")
  <2>1. Put(e, TlsError(u)) /\ Bwrite(e, r)
    BY <1>9 DEF GiveUp, FatalAlert
  <2>2. u \in TlsRecs(conf) /\ SameSetup(a, u) /\ SameReading(a, u) /\ u.outsec = a.outsec
    BY <1>2, SealOf DEF SameSetup
  <2>3. /\ TlsError(u) \in TlsRecs(conf) /\ TlsError(u).state = "SError"
        /\ SameSetup(u, TlsError(u)) /\ SameReading(u, TlsError(u)) /\ SameWriting(u, TlsError(u))
    BY <2>2, ErrorOf
  <2>4. tr'[e] = TlsError(u) /\ tr' = [tr EXCEPT ![e] = tr'[e]]
    BY <1>1, <2>1, PutOf
  <2>5. /\ tr'[e].insec = tr[e].insec /\ tr'[e].outsec = tr[e].outsec /\ tr'[e].opened = tr[e].opened
        /\ tr'[e].version = t.version
    BY <1>2, <2>2, <2>3, <2>4 DEF SameSetup, SameReading, SameWriting
  <2>6. r \in Recs(conf)
    BY <1>2, SealedOf
  <2>7. /\ wire' \in [Ends -> Seq(Recs(conf))] /\ wire'[e] = wire[e]
        /\ wire'[Other(e)] = IF broken \/ eof[e] THEN wire[Other(e)] ELSE Append(wire[Other(e)], r)
    <3> HIDE DEF r
    <3> QED  BY <1>1, <2>1, <2>6, BwriteOf
  <2>8. a.version = t.version /\ SameWriting(tr[e], a)
    BY <1>2 DEF SameSetup, SameWriting
  <2>9. pc[e] \in Shaking
    <3>1. pc[e] # "nofinished"
      <4>1. pc[e] = "nofinished" => tr[e].state = "SError"
        BY <1>1 DEF Place, EndPlace
      <4>2. a.state # "SError"
        BY <1>9 DEF MayWrite
      <4> QED  BY <1>2, <4>1, <4>2
    <3> QED  BY <3>1
  <2>10. Turns(e)
    BY <1>8, <2>4
  <2>11. \E x \in TlsRecs(conf) :
           /\ SameWriting(tr[e], x)
           /\ x.version = IF e = "c" /\ Made(e, tr[e], pc[e]) = 0 THEN ProtocolVersion ELSE conf.svers
           /\ wire'[Other(e)] = IF broken \/ eof[e] THEN wire[Other(e)]
                                ELSE Append(wire[Other(e)], Sealed(x, "alert", "fatal"))
    BY <1>2, <2>7, <2>8, <2>9
  <2> HIDE DEF a, u, r
  <2> QED  BY <1>3, <1>5, <1>6, <1>7, <2>3, <2>4, <2>5, <2>7, <2>9, <2>10, <2>11, Dies
<1>10. CASE ~MayWrite(a, "alert")
  <2>1. Put(e, TlsError(a)) /\ wire' = wire
    BY <1>10 DEF GiveUp, FatalAlert
  <2>2. /\ TlsError(a) \in TlsRecs(conf) /\ TlsError(a).state = "SError"
        /\ SameSetup(a, TlsError(a)) /\ SameReading(a, TlsError(a)) /\ SameWriting(a, TlsError(a))
    BY <1>2, ErrorOf
  <2>3. tr'[e] = TlsError(a) /\ tr' = [tr EXCEPT ![e] = tr'[e]]
    BY <1>1, <2>1, PutOf
  <2>4. /\ tr'[e].insec = tr[e].insec /\ tr'[e].outsec = tr[e].outsec /\ tr'[e].opened = tr[e].opened
        /\ tr'[e].version = t.version
    BY <1>2, <2>2, <2>3 DEF SameSetup, SameReading, SameWriting
  <2>5. Turns(e)
    BY <1>8, <2>3
  <2> HIDE DEF a
  <2> QED  BY <1>3, <1>5, <1>6, <1>7, <2>1, <2>2, <2>3, <2>4, <2>5, Dies
<1> QED  BY <1>9, <1>10

\* A step of the handshake that neither takes a record nor makes one.
LEMMA TurnStep ==
  ASSUME IInv, NEW e \in Ends, Turns(e), wire' = wire, refused' = refused,
         pc[e] \in Shaking, pc'[e] \in Shaking \union {"open"},
         tr'[e] \in TlsRecs(conf), cipher'[e] \in {NoCipher, Chosen(conf)},
         master'[e] \in {None, MasterOf(conf, "c"), MasterOf(conf, "s")}, peercert' \in BOOLEAN,
         tr'[e].insec = tr[e].insec, tr'[e].outsec = tr[e].outsec,
         Taken(conf, e, tr'[e], pc'[e]) = Taken(conf, e, tr[e], pc[e]),
         Made(e, tr'[e], pc'[e]) = Made(e, tr[e], pc[e]),
         Place(e)'
  PROVE  IInv'
<1> DEFINE f == Other(e)
<1>1. f \in Ends /\ f # e /\ Other(f) = e
  BY EndsOf
<1>2. /\ TypeOK /\ Link(e) /\ Link(f) /\ InStep /\ ReaderAt(e)
  BY <1>1 DEF IInv
<1>3. /\ tr'[f] = tr[f] /\ pc'[f] = pc[f] /\ rd' = rd /\ got' = got /\ sent' = sent /\ conf' = conf
      /\ eof' = eof /\ broken' = broken /\ requested' = requested /\ outio' = outio /\ wr' = wr
  BY <1>1, <1>2 DEF TypeOK, Turns, ioVars
<1>4. Pending(e)' = Pending(e) /\ Pending(f)' = Pending(f)
  BY <1>3 DEF Pending
<1>5. Alive(e) /\ Sending(e) /\ pc[e] # "closed" /\ Sending(e)'
  BY DEF Alive, Sending, Shaking, ClientShaking, ServerShaking
<1>6. Link(e)'
  BY <1>2, <1>3, <1>4, <1>5, LinkQuiet
<1>7. Flows(f)' <=> Flows(f)
  BY <1>1, <1>3, <1>5 DEF Flows
<1>8. Link(f)'
  BY <1>1, <1>2, <1>3, <1>4, <1>5, <1>7, LinkSame
<1>9. wire' \in [Ends -> Seq(Recs(conf))]
  BY <1>2 DEF TypeOK
<1>10. /\ refused'[e] \notin {"unexpected", "version", "finished"}
       /\ refused'[e] = "mac" => conf.cpsk # conf.spsk
  BY <1>2 DEF InStep
<1> QED  BY <1>6, <1>8, <1>9, <1>10, HandStep

\* A write of the handshake by e, of the record n of the script
Writes(e, t, type, body, l, n) ==
  /\ HandWrite(e, t, type, body, l)
  /\ UNCHANGED <<conf, refused, requested, peercert, ioVars, eof, broken>>
  /\ cipher' = [cipher EXCEPT ![e] = cipher'[e]] /\ hash' = [hash EXCEPT ![e] = hash'[e]]
  /\ master' = [master EXCEPT ![e] = master'[e]]
  /\ cipher'[e] \in {NoCipher, Chosen(conf)}
  /\ master'[e] \in {None, MasterOf(conf, "c"), MasterOf(conf, "s")}
  /\ pc[e] \in Shaking /\ l \in Shaking
  /\ t \in TlsRecs(conf) /\ t.state = "SHandshake"
  /\ t.insec = tr[e].insec /\ t.opened = tr[e].opened
  /\ t.outsec = tr[e].outsec /\ t.outseq = tr[e].outseq
  /\ (type = "hand" /\ body \in Bodies(conf)) \/ (type = "ccs" /\ body = 1)
  /\ tr[e].outsec # NoSec => /\ t.version = tr[e].version
                             /\ cipher'[e] = cipher[e] /\ master'[e] = master[e]
  /\ t.version = IF e = "c" /\ Made(e, tr[e], pc[e]) = 0 THEN ProtocolVersion ELSE conf.svers
  /\ n \in Nat /\ n = Made(e, tr[e], pc[e]) + 1
  /\ \/ n = Turn(Other(e)) /\ type = "ccs" /\ t.outnew # NoSec
     \/ /\ n <= Turn(Other(e)) + 1 /\ n # Turn(Other(e))
        /\ type = "hand" /\ body = Said(conf, Other(e), n)
        /\ e = "s" => Common(conf) # {}
  /\ Made(e, AfterSeal(t, type), l) = n
  /\ Taken(conf, e, AfterSeal(t, type), l) = Taken(conf, e, tr[e], pc[e])
  /\ tr'[e] = AfterSeal(t, type) /\ pc'[e] = l => Place(e)'

\* A write of the handshake: the record goes out, or the connection is broken.
LEMMA HandWriteStep ==
  ASSUME IInv, NEW e \in Ends, NEW t, NEW type, NEW body, NEW l, NEW n,
         Writes(e, t, type, body, l, n)
  PROVE  IInv'
<1> DEFINE f == Other(e)
<1>1. /\ HandWrite(e, t, type, body, l)
      /\ UNCHANGED <<conf, refused, requested, peercert, ioVars, eof, broken>>
      /\ cipher' = [cipher EXCEPT ![e] = cipher'[e]] /\ hash' = [hash EXCEPT ![e] = hash'[e]]
      /\ master' = [master EXCEPT ![e] = master'[e]]
      /\ cipher'[e] \in {NoCipher, Chosen(conf)}
      /\ master'[e] \in {None, MasterOf(conf, "c"), MasterOf(conf, "s")}
  BY DEF Writes
<1>2. /\ pc[e] \in Shaking /\ l \in Shaking
      /\ t \in TlsRecs(conf) /\ t.state = "SHandshake"
      /\ t.insec = tr[e].insec /\ t.opened = tr[e].opened
      /\ t.outsec = tr[e].outsec /\ t.outseq = tr[e].outseq
      /\ (type = "hand" /\ body \in Bodies(conf)) \/ (type = "ccs" /\ body = 1)
      /\ tr[e].outsec # NoSec => /\ t.version = tr[e].version
                                 /\ cipher'[e] = cipher[e] /\ master'[e] = master[e]
      /\ t.version = IF e = "c" /\ Made(e, tr[e], pc[e]) = 0 THEN ProtocolVersion ELSE conf.svers
  BY DEF Writes
<1>3. /\ n \in Nat /\ n = Made(e, tr[e], pc[e]) + 1
      /\ \/ n = Turn(Other(e)) /\ type = "ccs" /\ t.outnew # NoSec
         \/ /\ n <= Turn(Other(e)) + 1 /\ n # Turn(Other(e))
            /\ type = "hand" /\ body = Said(conf, Other(e), n)
            /\ e = "s" => Common(conf) # {}
      /\ Made(e, AfterSeal(t, type), l) = n
      /\ Taken(conf, e, AfterSeal(t, type), l) = Taken(conf, e, tr[e], pc[e])
      /\ tr'[e] = AfterSeal(t, type) /\ pc'[e] = l => Place(e)'
  BY DEF Writes
<1>4. f \in Ends /\ f # e /\ Other(f) = e
  BY EndsOf
<1>5. /\ TypeOK /\ Link(e) /\ Link(f) /\ InStep /\ Place(e)
  BY <1>1, <1>2, <1>3, <1>4 DEF IInv
<1>6. /\ rd' = rd /\ got' = got /\ sent' = sent /\ conf' = conf
      /\ eof' = eof /\ broken' = broken /\ requested' = requested /\ outio' = outio /\ wr' = wr
      /\ refused' = refused /\ peercert' = peercert
      /\ UNCHANGED <<conf, requested, ioVars, eof, broken>>
      /\ UNCHANGED <<conf, eof, broken>>
  BY <1>1, <1>2, <1>3 DEF ioVars
<1>7. Pending(e)' = Pending(e) /\ Pending(f)' = Pending(f)
  BY <1>1, <1>2, <1>3, <1>6 DEF Pending
<1>8. Pending(e) = 0
  <2>1. pc[e] # "open"
    BY <1>1, <1>2, <1>3 DEF Shaking, ClientShaking, ServerShaking
  <2> QED  BY <1>1, <1>2, <1>3, <2>1, NoWriter
<1>9. MayWrite(t, type)
  BY <1>1, <1>2, <1>3 DEF MayWrite
<1>10. /\ peercert \in BOOLEAN /\ wire \in [Ends -> Seq(Recs(conf))]
       /\ refused[e] \notin {"unexpected", "version", "finished"}
       /\ refused[e] = "mac" => conf.cpsk # conf.spsk
  BY <1>1, <1>2, <1>3, <1>5 DEF TypeOK, InStep
<1>11. ASSUME tr' = [tr EXCEPT ![e] = tr'[e]], pc' = [pc EXCEPT ![e] = pc'[e]] PROVE Turns(e)
  BY <1>1, <1>2, <1>3, <1>5, <1>6, <1>11, PutOf DEF Turns
<1>12. /\ peercert' \in BOOLEAN
       /\ refused'[e] \notin {"unexpected", "version", "finished"}
       /\ refused'[e] = "mac" => conf.cpsk # conf.spsk
  <2>1. peercert' \in BOOLEAN
    <3>1. peercert' = peercert /\ peercert \in BOOLEAN
      BY <1>6, <1>10
    <3> QED  BY <3>1, Zenon
  <2>2. refused' = refused
    BY <1>6
  <2> QED  BY <1>10, <2>1, <2>2
<1>13. CASE broken
  <2>1. Put(e, TlsError(t)) /\ Goto(e, "err") /\ wire' = wire
    BY <1>1, <1>2, <1>3, <1>9, <1>13 DEF HandWrite
  <2>2. /\ TlsError(t) \in TlsRecs(conf) /\ TlsError(t).state = "SError"
        /\ SameSetup(t, TlsError(t)) /\ SameReading(t, TlsError(t)) /\ SameWriting(t, TlsError(t))
    BY <1>1, <1>2, <1>3, ErrorOf
  <2>3. /\ tr'[e] = TlsError(t) /\ tr' = [tr EXCEPT ![e] = tr'[e]]
        /\ pc'[e] = "err" /\ pc' = [pc EXCEPT ![e] = pc'[e]]
    BY <1>1, <1>2, <1>3, <1>5, <2>1, PutOf
  <2>4. /\ tr'[e].insec = tr[e].insec /\ tr'[e].outsec = tr[e].outsec /\ tr'[e].opened = tr[e].opened
        /\ tr'[e].version = t.version
    BY <1>1, <1>2, <1>3, <2>2, <2>3 DEF SameSetup, SameReading, SameWriting
  <2>5. e = "s" => t.version = conf.svers
    BY <1>1, <1>2, <1>3
  <2>6. Turns(e)
    BY <1>1, <1>2, <1>3, <1>11, <2>3
  <2>7. /\ cipher'[e] \in {NoCipher, Chosen(conf)}
        /\ master'[e] \in {None, MasterOf(conf, "c"), MasterOf(conf, "s")}
        /\ pc[e] \in Shaking \union {"nofinished"}
    BY <1>1, <1>2
  <2>8. /\ wire' \in [Ends -> Seq(Recs(conf))]
        /\ wire'[e] = wire[e] /\ wire'[f] = wire[f]
    BY <1>10, <2>1
  <2>9. tr[e].outsec # NoSec => /\ tr'[e].version = tr[e].version
                                /\ cipher'[e] = cipher[e] /\ master'[e] = master[e]
    BY <1>2, <2>4
  <2>10. tr'[e] \in TlsRecs(conf) /\ tr'[e].state = "SError"
    BY <2>2, <2>3
  <2>11. e = "s" => tr'[e].version = conf.svers
    BY <2>4, <2>5
  <2> QED  BY <1>12, <2>3, <2>4, <2>6, <2>7, <2>8, <2>9, <2>10, <2>11, Dies
<1>14. CASE ~broken
  <2> DEFINE r == Sealed(t, type, body)
             u == AfterSeal(t, type)
  <2>1. Put(e, u) /\ Bwrite(e, r) /\ Goto(e, l)
    BY <1>1, <1>2, <1>3, <1>9, <1>14 DEF HandWrite
  <2>2. /\ tr'[e] = u /\ tr' = [tr EXCEPT ![e] = tr'[e]] /\ tr'[f] = tr[f]
        /\ pc'[e] = l /\ pc' = [pc EXCEPT ![e] = pc'[e]] /\ pc'[f] = pc[f]
    BY <1>1, <1>2, <1>3, <1>5, <2>1, PutOf
  <2>3. r \in Recs(conf) /\ r.type = type /\ r.sec = t.outsec
    BY <1>1, <1>2, <1>3, SealedOf
  <2>4. /\ wire' \in [Ends -> Seq(Recs(conf))] /\ wire'[e] = wire[e]
        /\ wire'[f] = IF broken \/ eof[e] THEN wire[f] ELSE Append(wire[f], r)
    <3> HIDE DEF r
    <3> QED  BY <1>1, <1>2, <1>3, <1>5, <2>1, <2>3, BwriteOf
  <2>5. /\ u \in TlsRecs(conf) /\ SameReading(t, u)
        /\ t.outsec # NoSec /\ type # "ccs" => u.outsec = t.outsec
        /\ type = "ccs" => u.outsec = t.outnew
    BY <1>1, <1>2, <1>3, SealOf
  <2>6. u.insec = tr[e].insec
    BY <1>1, <1>2, <1>3, <2>5 DEF SameReading
  <2>7. Sending(e) /\ Sending(e)' /\ Alive(e)
    BY <1>1, <1>2, <1>3, <2>2 DEF Sending, Alive
  <2>8. Made(e, t, pc[e]) = Made(e, tr[e], pc[e])
    BY <1>1, <1>2, <1>3 DEF Made
  <2>9. t.outsec # NoSec => t.outsec = SendKey(conf, e)
    BY <1>1, <1>2, <1>3, <1>5 DEF Place, EndPlace
  <2>10. Script(conf, f, n, r)
    <3>1. t.version = IF e = "c" /\ n = 1 THEN ProtocolVersion ELSE conf.svers
      <4>1. Made(e, tr[e], pc[e]) \in Nat
        BY <1>1, <1>2, <1>3, <1>5, TypesOf
      <4> QED  BY <1>1, <1>2, <1>3, <4>1
    <3>2. n = Made(e, t, pc[e]) + 1
      BY <1>1, <1>2, <1>3, <2>8
    <3> QED  BY <1>1, <1>2, <1>3, <2>9, <3>1, <3>2, SealScript
  <2>11. type = "ccs" => t.outnew # NoSec /\ Turn(f) \in Nat
    BY <1>1, <1>2, <1>3, EndsOf DEF Turn
  <2>12. /\ tr[e].outsec # NoSec => u.outsec # NoSec
         /\ r.type = "ccs" \/ r.sec # NoSec => u.outsec # NoSec
    BY <1>1, <1>2, <1>3, <2>3, <2>5, <2>11
  <2>13. ~Closes(r) /\ r.type # "data"
    BY <1>1, <1>2, <1>3, <2>3 DEF Closes
  <2>14. Link(f)'
    <3> HIDE DEF r, u
    <3> QED  BY <1>1, <1>2, <1>3, <1>5, <1>6, <1>7, <1>8, <2>2, <2>3, <2>4, <2>7, <2>10, <2>12, <2>13, LinkPut DEF u
  <2>15. Link(e)'
    <3>1. Taken(conf, e, tr'[e], pc'[e]) = Taken(conf, e, tr[e], pc[e])
      BY <1>1, <1>2, <1>3, <2>2
    <3>2. tr'[e].insec # NoSec => tr[e].insec # NoSec
      BY <1>1, <1>2, <1>3, <2>2, <2>6
    <3>3. wire'[e] = wire[e] /\ tr'[f] = tr[f] /\ pc'[f] = pc[f]
      BY <1>1, <1>2, <1>3, <2>2, <2>4
    <3> HIDE DEF r, u
    <3> QED  BY <1>1, <1>2, <1>3, <1>5, <1>6, <1>7, <2>7, <3>1, <3>2, <3>3, LinkQuiet
  <2>16. Turns(e)
    BY <1>1, <1>2, <1>3, <1>11, <2>2
  <2>17. Place(e)'
    BY <1>1, <1>2, <1>3, <2>2
  <2> HIDE DEF r, u
  <2>18. /\ cipher'[e] \in {NoCipher, Chosen(conf)}
         /\ master'[e] \in {None, MasterOf(conf, "c"), MasterOf(conf, "s")}
         /\ pc[e] \in Shaking \union {"nofinished"}
         /\ pc'[e] \in Shaking \union {"nofinished", "err", "open"}
    BY <1>1, <1>2, <2>2
  <2>19. tr'[e] \in TlsRecs(conf) /\ wire' \in [Ends -> Seq(Recs(conf))]
    BY <2>2, <2>4, <2>5
  <2> QED  BY <2>14, <2>15, <2>16, <2>17, <2>18, <2>19, <1>12, HandStep
<1> QED  BY <1>1, <1>2, <1>3, <1>13, <1>14

-----------------------------------------------------------------------------
(* The steps of tlsClient2 *)

\* What the invariant says of an end that shakes hands.
LEMMA ShakingAt ==
  ASSUME IInv, NEW e \in Ends, pc[e] \in Shaking \ {"opened"}
  PROVE  /\ TypeOK /\ conf \in Confs /\ tr[e] \in TlsRecs(conf) /\ tr[e].state = "SHandshake" /\ tr[e].hand
         /\ cipher[e] \in {NoCipher, Chosen(conf)}
         /\ master[e] \in {None, MasterOf(conf, "c"), MasterOf(conf, "s")} /\ peercert \in BOOLEAN
         /\ EndPlace(conf, e, tr[e], pc[e], cipher[e], master[e])
         /\ e = "c" => ClientPlace(conf, tr[e], pc[e], hash[e], cipher[e], master[e], peercert)
         /\ e = "s" => /\ ServerPlace(conf, tr[e], pc[e], hash[e], cipher[e], master[e])
                       /\ tr[e].version = conf.svers
         /\ Made(e, tr[e], pc[e]) \in Nat
<1>1. TypeOK /\ Place(e)
  BY DEF IInv
<1>2. EndPlace(conf, e, tr[e], pc[e], cipher[e], master[e])
  BY <1>1 DEF Place
<1>3. tr[e].state = "SHandshake" /\ tr[e].hand
  BY <1>2 DEF EndPlace
<1> QED  BY <1>1, <1>2, <1>3, TypesOf DEF Place, TypeOK

\* The client says hello.
LEMMA ClientHelloStep ==
  ASSUME IInv, ClientHello
  PROVE  IInv'
<1> DEFINE t == tr["c"]
<1>1. pc["c"] = "hello" /\ "c" \in Ends /\ "hello" \in Shaking \ {"opened"} /\ "serverhello" \in Shaking
  BY DEF ClientHello, Ends, Shaking, ClientShaking
<1>2. /\ TypeOK /\ conf \in Confs /\ t \in TlsRecs(conf) /\ t.state = "SHandshake" /\ t.hand
      /\ cipher["c"] \in {NoCipher, Chosen(conf)}
      /\ master["c"] \in {None, MasterOf(conf, "c"), MasterOf(conf, "s")}
      /\ EndPlace(conf, "c", t, "hello", cipher["c"], master["c"])
      /\ ClientPlace(conf, t, "hello", hash["c"], cipher["c"], master["c"], peercert)
  BY <1>1, ShakingAt
<1>3. /\ NoQueue(t) /\ hash["c"] = <<>> /\ ~t.verset /\ t.version = ProtocolVersion /\ NoKeys(t)
      /\ ~peercert
  BY <1>2 DEF ClientPlace
<1>4. /\ HandWrite("c", t, "hand", <<CHello(conf)>>, "serverhello")
      /\ Hash("c", <<CHello(conf)>>)
      /\ UNCHANGED <<conf, refused, requested, peercert, ioVars, eof, broken>>
      /\ cipher' = cipher /\ master' = master
  BY DEF ClientHello, CHello
<1>5. hash'["c"] = <<CHello(conf)>> /\ hash' = [hash EXCEPT !["c"] = hash'["c"]]
  BY <1>1, <1>2, <1>3, <1>4, PutOf, TranscriptOf
<1>6. AfterSeal(t, "hand") = t
  BY <1>2, <1>3, SealOf DEF NoKeys
<1>7. /\ Made("c", t, "hello") = 0 /\ Made("c", t, "serverhello") = 1
      /\ Taken(conf, "c", t, "serverhello") = Taken(conf, "c", t, "hello")
  BY <1>3, FlightOf DEF NoKeys, NoQueue, Made, Taken
<1>8. ASSUME tr'["c"] = t, pc'["c"] = "serverhello" PROVE Place("c")'
  <2>1. EndPlace(conf, "c", t, "serverhello", cipher["c"], master["c"])
    BY <1>2, <1>3 DEF EndPlace, Shaking, ClientShaking, NoKeys
  <2>2. ClientPlace(conf, t, "serverhello", hash'["c"], cipher["c"], master["c"], peercert)
    BY <1>3, <1>5 DEF ClientPlace
  <2>3. "serverhello" \notin ServerShaking
    BY DEF ServerShaking
  <2> QED  BY <1>4, <1>8, <2>1, <2>2, <2>3 DEF Place
<1>9. /\ Other("c") = "s" /\ Turn("s") = 3 /\ Said(conf, "s", 1) = <<CHello(conf)>>
      /\ <<CHello(conf)>> \in Bodies(conf)
  BY EndsOf DEF Said, Bodies
<1>10. /\ cipher' = [cipher EXCEPT !["c"] = cipher'["c"]] /\ master' = [master EXCEPT !["c"] = master'["c"]]
  BY <1>1, <1>2, <1>4, PutOf
<1>11. /\ t.version = IF "c" = "c" /\ Made("c", t, pc["c"]) = 0 THEN ProtocolVersion ELSE conf.svers
       /\ t.outsec = NoSec
  BY <1>1, <1>3, <1>7 DEF NoKeys
<1>12. /\ 1 \in Nat /\ 1 = Made("c", t, pc["c"]) + 1 /\ Made("c", AfterSeal(t, "hand"), "serverhello") = 1
       /\ 1 <= Turn(Other("c")) + 1 /\ 1 # Turn(Other("c"))
       /\ Taken(conf, "c", AfterSeal(t, "hand"), "serverhello") = Taken(conf, "c", t, pc["c"])
  BY <1>1, <1>6, <1>7, <1>9
<1>13. tr'["c"] = AfterSeal(t, "hand") /\ pc'["c"] = "serverhello" => Place("c")'
  BY <1>6, <1>8
<1>14. cipher'["c"] = cipher["c"] /\ master'["c"] = master["c"] /\ "c" # "s"
  BY <1>4
<1>15. Writes("c", t, "hand", <<CHello(conf)>>, "serverhello", 1)
  BY <1>1, <1>2, <1>4, <1>5, <1>9, <1>10, <1>11, <1>12, <1>13, <1>14 DEF Writes
<1> QED  BY <1>1, <1>15, HandWriteStep

\* What the client reads of the flight.
LEMMA FlightAt ==
  ASSUME IInv, NEW l, l \in {"serverhello", "certificate", "keyexchange", "hellodone"}, Receive("c", l)
  PROVE  LET t == tr["c"] u == HandRest(tr["c"]) IN
         /\ t \in TlsRecs(conf) /\ u \in TlsRecs(conf)
         /\ u.state = "SHandshake" /\ SameSetup(t, u) /\ SameReading(t, u) /\ SameWriting(t, u) /\ u.hand
         /\ l = "serverhello" => /\ Message("c") = SHello(conf) /\ Rest(u, AtCert(conf))
                                 /\ t.handq = <<Flight(conf)>>
         /\ l = "certificate" => /\ Message("c") = Head(AtCert(conf))
                                 /\ conf.cert # "none" => Rest(u, AtKey(conf))
         /\ l = "keyexchange" => /\ Message("c") = Head(AtKey(conf))
                                 /\ Chosen(conf).kx = "ecdhe" => Rest(u, AtDone)
         /\ l = "hellodone" => Message("c") = Done /\ NoQueue(u)
<1> DEFINE t == tr["c"]
           u == HandRest(t)
<1>1. pc["c"] = l /\ HandReady(t) /\ HandFirst(t).tag # "HelloRequest" /\ "c" \in Ends
  BY DEF Receive, Ends
<1>2. l \in Shaking \ {"opened"}
  BY DEF Shaking, ClientShaking
<1>3. /\ t \in TlsRecs(conf) /\ t.state = "SHandshake" /\ t.hand
      /\ ClientPlace(conf, t, l, hash["c"], cipher["c"], master["c"], peercert)
  BY <1>1, <1>2, ShakingAt
<1>4. u.state = "SHandshake" /\ SameSetup(t, u) /\ SameReading(t, u) /\ SameWriting(t, u) /\ u.hand
  BY <1>1, <1>3, RestOf
<1>5. \A s : s # <<>> /\ Rest(t, s) =>
        /\ HandFirst(t) = Head(s)
        /\ \A v \in {<<>>, AtCert(conf), AtKey(conf), AtDone} : Tail(s) = v =>
             u \in TlsRecs(conf) /\ Rest(u, v)
  BY <1>1, <1>3, RestOf
<1>6. \A b : Queue(t, b) =>
        /\ HandFirst(t) = Head(b)
        /\ \A v \in {<<>>, AtCert(conf), AtKey(conf), AtDone} : Tail(b) = v =>
             u \in TlsRecs(conf) /\ Rest(u, v)
  BY <1>1, <1>3, RestOf
<1>7. CASE l = "serverhello"
  <2>1. NoQueue(t) \/ Queue(t, <<HRequest>>) \/ Queue(t, Flight(conf))
    BY <1>3, <1>7 DEF ClientPlace
  <2>2. ~NoQueue(t)
    BY <1>1 DEF NoQueue, HandReady
  <2>3. ~Queue(t, <<HRequest>>)
    <3>1. Head(<<HRequest>>) = HRequest /\ HRequest.tag = "HelloRequest"
      BY DEF HRequest
    <3> QED  BY <1>1, <1>6, <3>1
  <2>4. Queue(t, Flight(conf))
    BY <2>1, <2>2, <2>3
  <2>5. HandFirst(t) = SHello(conf) /\ u \in TlsRecs(conf) /\ Rest(u, AtCert(conf))
    BY <1>6, <2>4, FlightOf
  <2>6. t.handq = <<Flight(conf)>>
    BY <2>4 DEF Queue
  <2> QED  BY <1>3, <1>4, <1>7, <2>5, <2>6 DEF Message
<1>8. CASE l = "certificate"
  <2>1. Rest(t, AtCert(conf)) /\ AtCert(conf) # <<>>
    BY <1>3, <1>8, FlightOf DEF ClientPlace
  <2>2. HandFirst(t) = Head(AtCert(conf))
    BY <1>5, <2>1
  <2>3. conf.cert # "none" => u \in TlsRecs(conf) /\ Rest(u, AtKey(conf))
    BY <1>5, <2>1, FlightOf
  <2>4. conf.cert = "none" => u \in TlsRecs(conf)
    <3>1. CASE conf.cert = "none" /\ Chosen(conf).kx = "ecdhe"
      BY <1>5, <2>1, <3>1, FlightOf
    <3>2. CASE conf.cert = "none" /\ Chosen(conf).kx # "ecdhe"
      <4>1. AtCert(conf) = AtDone /\ Tail(AtDone) = <<>>
        BY <3>2, FlightOf
      <4> QED  BY <1>5, <2>1, <4>1
    <3> QED  BY <3>1, <3>2
  <2> QED  BY <1>3, <1>4, <1>8, <2>2, <2>3, <2>4 DEF Message
<1>9. CASE l = "keyexchange"
  <2>1. Rest(t, AtKey(conf)) /\ AtKey(conf) # <<>>
    BY <1>3, <1>9, FlightOf DEF ClientPlace
  <2>2. HandFirst(t) = Head(AtKey(conf))
    BY <1>5, <2>1
  <2>3. Chosen(conf).kx = "ecdhe" => u \in TlsRecs(conf) /\ Rest(u, AtDone)
    BY <1>5, <2>1, FlightOf
  <2>4. Chosen(conf).kx # "ecdhe" => u \in TlsRecs(conf)
    BY <1>5, <2>1, FlightOf
  <2> QED  BY <1>3, <1>4, <1>9, <2>2, <2>3, <2>4 DEF Message
<1>10. CASE l = "hellodone"
  <2>1. Rest(t, AtDone) /\ AtDone # <<>>
    BY <1>3, <1>10, FlightOf DEF ClientPlace
  <2>2. HandFirst(t) = Done /\ u \in TlsRecs(conf) /\ Rest(u, <<>>)
    BY <1>5, <2>1, FlightOf
  <2> QED  BY <1>3, <1>4, <1>10, <2>2 DEF Message, Rest, NoQueue
<1> QED  BY <1>7, <1>8, <1>9, <1>10

\* The client learns the version and the suite.
LEMMA ServerHelloStep ==
  ASSUME IInv, ServerHello
  PROVE  IInv'
<1> DEFINE t == tr["c"]
           u == HandRest(t)
           m == SHello(conf)
           v == SetVersion(u, conf.svers)
<1>1. Receive("c", "serverhello") /\ pc["c"] = "serverhello" /\ "c" \in Ends
  BY DEF ServerHello, Receive, Ends
<1>2. "serverhello" \in Shaking \ {"opened"} /\ "certificate" \in Shaking \ ServerShaking
  BY DEF Shaking, ClientShaking, ServerShaking
<1>3. /\ TypeOK /\ conf \in Confs
      /\ master["c"] \in {None, MasterOf(conf, "c"), MasterOf(conf, "s")} /\ peercert \in BOOLEAN
      /\ EndPlace(conf, "c", t, "serverhello", cipher["c"], master["c"])
      /\ ClientPlace(conf, t, "serverhello", hash["c"], cipher["c"], master["c"], peercert)
  BY <1>1, <1>2, ShakingAt
<1>4. /\ t \in TlsRecs(conf) /\ u \in TlsRecs(conf) /\ u.state = "SHandshake" /\ u.hand
      /\ SameSetup(t, u) /\ SameReading(t, u) /\ SameWriting(t, u)
      /\ Message("c") = m /\ Rest(u, AtCert(conf)) /\ t.handq = <<Flight(conf)>>
  BY <1>1, FlightAt
<1>5. NoKeys(t) /\ hash["c"] = <<CHello(conf)>> /\ ~peercert
  BY <1>3 DEF ClientPlace
<1>6. /\ conf.svers \in 0 .. 3 /\ Lower(conf.svers, ProtocolVersion) = conf.svers
      /\ Common(conf) # {} => IsPSK(Chosen(conf)) = (conf.cpsk # None)
  BY <1>3, SetupOf, CommonOf
<1>7. Common(conf) # {}
  <2>1. ~NoQueue(t) /\ ~Queue(t, <<HRequest>>)
    <3>1. \A a, b : <<a>> = <<b>> => a = b
      OBVIOUS
    <3> QED  BY <1>4, <3>1, FlightOf DEF NoQueue, Queue
  <2> QED  BY <1>3, <2>1 DEF ClientPlace
<1>8. m.tag = "ServerHello" /\ m.cipher = Chosen(conf) /\ Lower(m.vers, ProtocolVersion) = conf.svers
  BY <1>6 DEF SHello
<1>9. ~((conf.cpsk # None) # IsPSK(m.cipher))
  BY <1>6, <1>7, <1>8
<1>10. /\ Put("c", v) /\ Goto("c", "certificate")
       /\ cipher' = [cipher EXCEPT !["c"] = Chosen(conf)]
       /\ Hash("c", <<m>>)
       /\ UNCHANGED <<conf, refused, requested, master, peercert, ioVars, netVars>>
  BY <1>4, <1>8, <1>9 DEF ServerHello
<1>11. /\ tr'["c"] = v /\ tr' = [tr EXCEPT !["c"] = tr'["c"]]
       /\ pc'["c"] = "certificate" /\ pc' = [pc EXCEPT !["c"] = pc'["c"]]
       /\ hash'["c"] = ToHello(conf) /\ hash' = [hash EXCEPT !["c"] = hash'["c"]]
       /\ cipher'["c"] = Chosen(conf) /\ cipher' = [cipher EXCEPT !["c"] = cipher'["c"]]
       /\ master' = [master EXCEPT !["c"] = master'["c"]] /\ master'["c"] = master["c"]
       /\ refused' = [refused EXCEPT !["c"] = refused'["c"]]
  <2>1. /\ tr'["c"] = v /\ tr' = [tr EXCEPT !["c"] = tr'["c"]]
        /\ pc'["c"] = "certificate" /\ pc' = [pc EXCEPT !["c"] = pc'["c"]]
    BY <1>1, <1>3, <1>10, PutOf
  <2>2. hash'["c"] = hash["c"] \o <<m>> /\ hash' = [hash EXCEPT !["c"] = hash'["c"]]
    BY <1>1, <1>3, <1>10, PutOf
  <2>3. cipher'["c"] = Chosen(conf) /\ cipher' = [cipher EXCEPT !["c"] = cipher'["c"]]
    BY <1>1, <1>3, <1>10, PutOf
  <2>4. /\ master' = [master EXCEPT !["c"] = master'["c"]] /\ master'["c"] = master["c"]
        /\ refused' = [refused EXCEPT !["c"] = refused'["c"]]
    BY <1>1, <1>3, <1>10, PutOf
  <2> QED  BY <1>5, <2>1, <2>2, <2>3, <2>4 DEF ToHello
<1>12. Turns("c") /\ wire' = wire /\ refused' = refused /\ peercert' = peercert /\ conf' = conf
  BY <1>10, <1>11 DEF Turns, netVars
<1>13. /\ v \in TlsRecs(conf) /\ v.state = u.state /\ v.version = conf.svers /\ v.verset
       /\ v.opened = u.opened /\ SameReading(u, v) /\ SameWriting(u, v) /\ SameHand(u, v)
  BY <1>4, <1>6, VersionOf
<1>14. NoKeys(v) /\ Rest(v, AtCert(conf)) /\ v.hand /\ v.opened = t.opened /\ v.state = "SHandshake"
  BY <1>4, <1>5, <1>13 DEF NoKeys, Rest, SameReading, SameWriting, SameHand, SameSetup
<1>15. Place("c")'
  <2>1. EndPlace(conf, "c", v, "certificate", Chosen(conf), master["c"])
    BY <1>2, <1>3, <1>5, <1>14 DEF EndPlace, NoKeys
  <2>2. ClientPlace(conf, v, "certificate", ToHello(conf), Chosen(conf), master["c"], peercert)
    BY <1>5, <1>7, <1>13, <1>14 DEF ClientPlace
  <2> QED  BY <1>2, <1>11, <1>12, <2>1, <2>2 DEF Place
<1>16. /\ Taken(conf, "c", v, "certificate") = 1 /\ Taken(conf, "c", t, "serverhello") = 1
       /\ Made("c", v, "certificate") = 1 /\ Made("c", t, "serverhello") = 1
  BY <1>4, <1>5, <1>14 DEF Taken, Made, NoKeys
<1> HIDE DEF v, m
<1>17. v.insec = t.insec /\ v.outsec = t.outsec
  BY <1>5, <1>14 DEF NoKeys
<1> QED  BY <1>1, <1>2, <1>3, <1>11, <1>12, <1>13, <1>15, <1>16, <1>17, TurnStep

\* The client has the server's certificate, or needs none.
LEMMA CertificateStep ==
  ASSUME IInv, Certificate
  PROVE  IInv'
<1> DEFINE t == tr["c"]
           u == HandRest(t)
<1>1. Receive("c", "certificate") /\ pc["c"] = "certificate" /\ "c" \in Ends
  BY DEF Certificate, Receive, Ends
<1>2. "certificate" \in Shaking \ {"opened"} /\ "keyexchange" \in Shaking \ ServerShaking
  BY DEF Shaking, ClientShaking, ServerShaking
<1>3. /\ TypeOK /\ conf \in Confs /\ t \in TlsRecs(conf) /\ t.state = "SHandshake" /\ t.hand
      /\ cipher["c"] \in {NoCipher, Chosen(conf)}
      /\ master["c"] \in {None, MasterOf(conf, "c"), MasterOf(conf, "s")} /\ peercert \in BOOLEAN
      /\ EndPlace(conf, "c", t, "certificate", cipher["c"], master["c"])
      /\ ClientPlace(conf, t, "certificate", hash["c"], cipher["c"], master["c"], peercert)
  BY <1>1, <1>2, ShakingAt
<1>4. /\ u \in TlsRecs(conf) /\ u.state = "SHandshake" /\ u.hand
      /\ SameSetup(t, u) /\ SameReading(t, u) /\ SameWriting(t, u)
      /\ Message("c") = Head(AtCert(conf))
      /\ conf.cert # "none" => Rest(u, AtKey(conf))
  BY <1>1, FlightAt
<1>5. /\ t.verset /\ t.version = conf.svers /\ cipher["c"] = Chosen(conf)
      /\ NoKeys(t) /\ Common(conf) # {} /\ Rest(t, AtCert(conf)) /\ hash["c"] = ToHello(conf)
      /\ peercert = FALSE
  BY <1>3 DEF ClientPlace
<1>6. /\ UNCHANGED <<conf, refused, requested, cipher, master, ioVars, netVars>>
         => /\ conf' = conf /\ refused' = refused /\ cipher' = cipher /\ master' = master
            /\ wire' = wire /\ UNCHANGED <<conf, requested, ioVars, eof, broken>>
  BY DEF netVars
<1>7. ASSUME NEW v \in TlsRecs(conf), tr'["c"] = v, tr' = [tr EXCEPT !["c"] = tr'["c"]],
             v.state = "SHandshake", v.hand, SameSetup(t, v), SameReading(t, v), SameWriting(t, v),
             Rest(v, AtKey(conf)), Goto("c", "keyexchange"),
             hash'["c"] = ToCert(conf), hash' = [hash EXCEPT !["c"] = hash'["c"]],
             peercert' = (conf.cert # "none"),
             UNCHANGED <<conf, refused, requested, cipher, master, ioVars, netVars>>
      PROVE  IInv'
  <2>1. pc'["c"] = "keyexchange" /\ pc' = [pc EXCEPT !["c"] = pc'["c"]]
    BY <1>1, <1>3, <1>7, PutOf
  <2>2. /\ cipher' = [cipher EXCEPT !["c"] = cipher'["c"]] /\ cipher'["c"] = Chosen(conf)
        /\ master' = [master EXCEPT !["c"] = master'["c"]] /\ master'["c"] = master["c"]
        /\ refused' = [refused EXCEPT !["c"] = refused'["c"]]
    BY <1>1, <1>3, <1>5, <1>6, <1>7, PutOf
  <2>3. Turns("c") /\ wire' = wire /\ refused' = refused /\ conf' = conf
    BY <1>6, <1>7, <2>1, <2>2 DEF Turns
  <2>4. NoKeys(v) /\ v.verset /\ v.version = conf.svers /\ v.opened = t.opened
    BY <1>5, <1>7 DEF NoKeys, SameSetup, SameReading, SameWriting
  <2>5. Place("c")'
    <3>1. EndPlace(conf, "c", v, "keyexchange", Chosen(conf), master["c"])
      BY <1>2, <1>3, <1>5, <1>7, <2>4 DEF EndPlace, NoKeys
    <3>2. ClientPlace(conf, v, "keyexchange", ToCert(conf), Chosen(conf), master["c"], conf.cert # "none")
      BY <1>5, <1>7, <2>4 DEF ClientPlace
    <3> QED  BY <1>2, <1>7, <2>1, <2>2, <2>3, <3>1, <3>2 DEF Place
  <2>6. /\ Taken(conf, "c", v, "keyexchange") = 1 /\ Taken(conf, "c", t, "certificate") = 1
        /\ Made("c", v, "keyexchange") = 1 /\ Made("c", t, "certificate") = 1
    BY <1>5, <2>4 DEF Taken, Made, NoKeys
  <2>7. v.insec = t.insec /\ v.outsec = t.outsec /\ (conf.cert # "none") \in BOOLEAN
    BY <1>5, <2>4 DEF NoKeys
  <2> QED  BY <1>1, <1>2, <1>3, <1>7, <2>1, <2>2, <2>3, <2>5, <2>6, <2>7, TurnStep
<1>8. CASE conf.cert # "none"
  <2>1. Message("c") = Cert /\ Cert.tag = "Certificate"
    BY <1>4, <1>8, FlightOf DEF Cert
  <2>2. /\ Put("c", u) /\ Goto("c", "keyexchange") /\ Hash("c", <<Cert>>) /\ peercert' = TRUE
        /\ UNCHANGED <<conf, refused, requested, cipher, master, ioVars, netVars>>
    BY <2>1 DEF Certificate
  <2>3. tr'["c"] = u /\ tr' = [tr EXCEPT !["c"] = tr'["c"]]
    BY <1>1, <1>3, <2>2, PutOf
  <2>4. hash'["c"] = hash["c"] \o <<Cert>> /\ hash' = [hash EXCEPT !["c"] = hash'["c"]]
    BY <1>1, <1>3, <2>2, PutOf
  <2>5. hash'["c"] = ToCert(conf)
    BY <1>5, <1>8, <2>4, TranscriptOf
  <2> HIDE DEF u
  <2> QED  BY <1>4, <1>7, <1>8, <2>2, <2>3, <2>4, <2>5
<1>9. CASE conf.cert = "none"
  <2>1. Message("c") \in {SKey(conf), Done}
    BY <1>4, <1>9, FlightOf
  <2>2. Message("c").tag # "Certificate"
    BY <2>1 DEF SKey, Done
  <2>3. conf.cpsk # None
    BY <1>3, <1>5, <1>9, SetupOf
  <2>4. /\ Goto("c", "keyexchange")
        /\ UNCHANGED <<conf, tr, refused, requested, hsVars, ioVars, netVars>>
    BY <2>2, <2>3 DEF Certificate
  <2>5. /\ tr'["c"] = t /\ tr' = [tr EXCEPT !["c"] = tr'["c"]]
        /\ hash'["c"] = hash["c"] /\ hash' = [hash EXCEPT !["c"] = hash'["c"]]
    BY <1>1, <1>3, <2>4, PutOf DEF hsVars
  <2>6. hash'["c"] = ToCert(conf) /\ Rest(t, AtKey(conf))
    BY <1>5, <1>9, <2>5, TranscriptOf, FlightOf
  <2>7. SameSetup(t, t) /\ SameReading(t, t) /\ SameWriting(t, t)
    BY DEF SameSetup, SameReading, SameWriting
  <2>8. UNCHANGED <<conf, refused, requested, cipher, master, ioVars, netVars>> /\ peercert' = peercert
    BY <2>4 DEF hsVars
  <2> HIDE DEF t
  <2> QED  BY <1>3, <1>5, <1>7, <1>9, <2>4, <2>5, <2>6, <2>7, <2>8
<1> QED  BY <1>8, <1>9

\* The client has the parameters of the key exchange, or needs none.
LEMMA KeyExchangeStep ==
  ASSUME IInv, KeyExchange
  PROVE  IInv'
<1> DEFINE t == tr["c"]
           u == HandRest(t)
<1>1. Receive("c", "keyexchange") /\ pc["c"] = "keyexchange" /\ "c" \in Ends
  BY DEF KeyExchange, Receive, Ends
<1>2. "keyexchange" \in Shaking \ {"opened"} /\ "hellodone" \in Shaking \ ServerShaking
  BY DEF Shaking, ClientShaking, ServerShaking
<1>3. /\ TypeOK /\ conf \in Confs /\ t \in TlsRecs(conf) /\ t.state = "SHandshake" /\ t.hand
      /\ cipher["c"] \in {NoCipher, Chosen(conf)}
      /\ master["c"] \in {None, MasterOf(conf, "c"), MasterOf(conf, "s")} /\ peercert \in BOOLEAN
      /\ EndPlace(conf, "c", t, "keyexchange", cipher["c"], master["c"])
      /\ ClientPlace(conf, t, "keyexchange", hash["c"], cipher["c"], master["c"], peercert)
  BY <1>1, <1>2, ShakingAt
<1>4. /\ u \in TlsRecs(conf) /\ u.state = "SHandshake" /\ u.hand
      /\ SameSetup(t, u) /\ SameReading(t, u) /\ SameWriting(t, u)
      /\ Message("c") = Head(AtKey(conf))
      /\ Chosen(conf).kx = "ecdhe" => Rest(u, AtDone)
  BY <1>1, FlightAt
<1>5. /\ t.verset /\ t.version = conf.svers /\ cipher["c"] = Chosen(conf)
      /\ NoKeys(t) /\ Common(conf) # {} /\ Rest(t, AtKey(conf)) /\ hash["c"] = ToCert(conf)
      /\ peercert = (conf.cert # "none")
  BY <1>3 DEF ClientPlace
<1>6. Made("c", t, "keyexchange") = 1 /\ t.outsec = NoSec
  BY <1>5 DEF Made, NoKeys
<1>7. ASSUME NEW v \in TlsRecs(conf), tr'["c"] = v, tr' = [tr EXCEPT !["c"] = tr'["c"]],
             v.state = "SHandshake", v.hand, SameSetup(t, v), SameReading(t, v), SameWriting(t, v),
             Rest(v, AtDone), Goto("c", "hellodone"),
             hash'["c"] = ToSKey(conf), hash' = [hash EXCEPT !["c"] = hash'["c"]],
             conf.cert # "good" => Chosen(conf).kx # "ecdhe",
             UNCHANGED <<conf, refused, requested, cipher, master, peercert, ioVars, netVars>>
      PROVE  IInv'
  <2>0. /\ conf' = conf /\ refused' = refused /\ cipher' = cipher /\ master' = master
        /\ peercert' = peercert
        /\ wire' = wire /\ UNCHANGED <<conf, requested, ioVars, eof, broken>>
    BY <1>7 DEF netVars
  <2>1. pc'["c"] = "hellodone" /\ pc' = [pc EXCEPT !["c"] = pc'["c"]]
    BY <1>1, <1>3, <1>7, PutOf
  <2>2. /\ cipher' = [cipher EXCEPT !["c"] = cipher'["c"]] /\ cipher'["c"] = Chosen(conf)
        /\ master' = [master EXCEPT !["c"] = master'["c"]] /\ master'["c"] = master["c"]
        /\ refused' = [refused EXCEPT !["c"] = refused'["c"]]
    BY <1>1, <1>3, <1>5, <2>0, PutOf
  <2>3. Turns("c") /\ wire' = wire /\ refused' = refused /\ conf' = conf
    BY <1>7, <2>0, <2>1, <2>2 DEF Turns
  <2>4. NoKeys(v) /\ v.verset /\ v.version = conf.svers /\ v.opened = t.opened
    BY <1>5, <1>7 DEF NoKeys, SameSetup, SameReading, SameWriting
  <2>5. Place("c")'
    <3>1. EndPlace(conf, "c", v, "hellodone", Chosen(conf), master["c"])
      BY <1>2, <1>3, <1>5, <1>7, <2>4 DEF EndPlace, NoKeys
    <3>2. ClientPlace(conf, v, "hellodone", ToSKey(conf), Chosen(conf), master["c"], peercert)
      BY <1>5, <1>7, <2>4 DEF ClientPlace
    <3> QED  BY <1>2, <1>7, <2>0, <2>1, <2>2, <2>3, <3>1, <3>2 DEF Place
  <2>6. /\ Taken(conf, "c", v, "hellodone") = 1 /\ Taken(conf, "c", t, "keyexchange") = 1
        /\ Made("c", v, "hellodone") = 1 /\ Made("c", t, "keyexchange") = 1
    BY <1>5, <2>4 DEF Taken, Made, NoKeys
  <2>7. v.insec = t.insec /\ v.outsec = t.outsec
    BY <1>5, <2>4 DEF NoKeys
  <2> QED  BY <1>1, <1>2, <1>3, <1>7, <2>0, <2>1, <2>2, <2>3, <2>5, <2>6, <2>7, TurnStep
<1>8. CASE Chosen(conf).kx = "ecdhe"
  <2>1. Message("c") = SKey(conf) /\ SKey(conf).tag = "ServerKeyExchange" /\ SKey(conf).sig = conf.cert
    BY <1>4, <1>8, FlightOf DEF SKey
  <2>2. CASE conf.cert # "good"
    <3>1. GiveUp("c", u, "certificate")
      BY <1>5, <1>8, <2>1, <2>2 DEF KeyExchange
    <3>2. /\ u.version = conf.svers /\ u.opened = t.opened /\ "c" # "s"
      BY <1>4, <1>5 DEF SameSetup
    <3> HIDE DEF u
    <3> QED  BY <1>1, <1>2, <1>3, <1>4, <1>5, <1>6, <3>1, <3>2, GiveUpStep
  <2>3. CASE conf.cert = "good"
    <3>1. /\ Put("c", u) /\ Goto("c", "hellodone") /\ Hash("c", <<SKey(conf)>>)
          /\ UNCHANGED <<conf, refused, requested, cipher, master, peercert, ioVars, netVars>>
      BY <1>5, <1>8, <2>1, <2>3 DEF KeyExchange
    <3>2. tr'["c"] = u /\ tr' = [tr EXCEPT !["c"] = tr'["c"]]
      BY <1>1, <1>3, <3>1, PutOf
    <3>3. hash'["c"] = hash["c"] \o <<SKey(conf)>> /\ hash' = [hash EXCEPT !["c"] = hash'["c"]]
      BY <1>1, <1>3, <3>1, PutOf
    <3>4. hash'["c"] = ToSKey(conf)
      BY <1>5, <1>8, <3>3, TranscriptOf
    <3> HIDE DEF u
    <3> QED  BY <1>4, <1>7, <1>8, <2>3, <3>1, <3>2, <3>3, <3>4
  <2> QED  BY <2>2, <2>3
<1>9. CASE Chosen(conf).kx # "ecdhe"
  <2>1. Message("c") = Done /\ Done.tag # "ServerKeyExchange"
    BY <1>4, <1>9, FlightOf DEF Done
  <2>2. /\ Goto("c", "hellodone")
        /\ UNCHANGED <<conf, tr, refused, requested, hsVars, ioVars, netVars>>
    BY <1>5, <1>9, <2>1 DEF KeyExchange
  <2>3. /\ tr'["c"] = t /\ tr' = [tr EXCEPT !["c"] = tr'["c"]]
        /\ hash'["c"] = hash["c"] /\ hash' = [hash EXCEPT !["c"] = hash'["c"]]
    BY <1>1, <1>3, <2>2, PutOf DEF hsVars
  <2>4. hash'["c"] = ToSKey(conf) /\ Rest(t, AtDone)
    BY <1>5, <1>9, <2>3, TranscriptOf, FlightOf
  <2>5. SameSetup(t, t) /\ SameReading(t, t) /\ SameWriting(t, t)
    BY DEF SameSetup, SameReading, SameWriting
  <2>6. UNCHANGED <<conf, refused, requested, cipher, master, peercert, ioVars, netVars>>
    BY <2>2 DEF hsVars
  <2> HIDE DEF t
  <2> QED  BY <1>3, <1>7, <1>9, <2>2, <2>3, <2>4, <2>5, <2>6
<1> QED  BY <1>8, <1>9

\* The client sets the secrets and sends its key.
LEMMA HelloDoneStep ==
  ASSUME IInv, HelloDone
  PROVE  IInv'
<1> DEFINE t == tr["c"]
           u == HandRest(t)
           a == Chosen(conf)
           s == MasterOf(conf, "c")
           v == SetSecret(u, ReadKey(conf, "c"), SendKey(conf, "c"))
<1>1. Receive("c", "hellodone") /\ pc["c"] = "hellodone" /\ "c" \in Ends
  BY DEF HelloDone, Receive, Ends
<1>2. "hellodone" \in Shaking \ {"opened"} /\ "changecipher" \in Shaking /\ "changecipher" # "opened"
  BY DEF Shaking, ClientShaking
<1>3. /\ TypeOK /\ conf \in Confs /\ t \in TlsRecs(conf) /\ t.state = "SHandshake" /\ t.hand
      /\ cipher["c"] \in {NoCipher, Chosen(conf)}
      /\ EndPlace(conf, "c", t, "hellodone", cipher["c"], master["c"])
      /\ ClientPlace(conf, t, "hellodone", hash["c"], cipher["c"], master["c"], peercert)
  BY <1>1, <1>2, ShakingAt
<1>4. /\ u \in TlsRecs(conf) /\ u.state = "SHandshake" /\ u.hand
      /\ SameSetup(t, u) /\ SameReading(t, u) /\ SameWriting(t, u)
      /\ Message("c") = Done /\ NoQueue(u)
  BY <1>1, FlightAt
<1>5. /\ t.verset /\ t.version = conf.svers /\ cipher["c"] = Chosen(conf)
      /\ NoKeys(t) /\ Common(conf) # {} /\ hash["c"] = ToSKey(conf)
      /\ peercert = (conf.cert # "none")
      /\ conf.cert # "good" => a.kx # "ecdhe"
  BY <1>3 DEF ClientPlace
<1>6. /\ Made("c", t, "hellodone") = 1 /\ Taken(conf, "c", t, "hellodone") = 1
      /\ t.outsec = NoSec /\ t.insec = NoSec
  BY <1>5 DEF Made, NoKeys, Taken
<1>7. /\ u.version = conf.svers /\ u.verset /\ u.opened = t.opened /\ NoKeys(u) /\ "c" # "s"
  BY <1>4, <1>5 DEF SameSetup, SameReading, SameWriting, NoKeys
<1>8. ASSUME NEW why \in {"certificate", "secrets"}, GiveUp("c", u, why) PROVE IInv'
  <2> HIDE DEF u
  <2> QED  BY <1>1, <1>2, <1>3, <1>4, <1>5, <1>6, <1>7, <1>8, GiveUpStep
<1>9. /\ Master(a.kx, peercert, conf.cpsk) = s
      /\ WithSecrets("c", u, s, a) = v
  BY <1>5, EndsOf DEF MasterOf, Psk, WithSecrets, ReadKey, SendKey
<1>10. Done.tag = "HelloDone"
  BY DEF Done
<1>11. CASE \/ a.kx # "ecdhe" /\ peercert /\ conf.cert = "bad"
            \/ SecretsFail(u, a)
  <2>1. GiveUp("c", u, "certificate") \/ GiveUp("c", u, "secrets")
    BY <1>4, <1>5, <1>10, <1>11 DEF HelloDone
  <2> QED  BY <1>8, <2>1
<1>12. CASE ~(a.kx # "ecdhe" /\ peercert /\ conf.cert = "bad") /\ ~SecretsFail(u, a)
  <2>1. /\ HandWrite("c", v, "hand", <<CKey(conf)>>, "changecipher")
        /\ master' = [master EXCEPT !["c"] = s]
        /\ Hash("c", <<Done, CKey(conf)>>)
        /\ UNCHANGED <<conf, refused, requested, cipher, peercert, ioVars, eof, broken>>
    BY <1>4, <1>5, <1>9, <1>10, <1>12 DEF HelloDone, CKey
  <2>2. conf.cert # "bad"
    BY <1>5, <1>12
  <2>3. ReadKey(conf, "c") \in Secs(conf) /\ SendKey(conf, "c") \in Secs(conf)
    BY <1>1, KeysOf
  <2>4. /\ v \in TlsRecs(conf) /\ v.state = u.state /\ SameSetup(u, v) /\ SameHand(u, v)
        /\ v.insec = u.insec /\ v.innew = ReadKey(conf, "c")
        /\ v.outsec = u.outsec /\ v.outnew = SendKey(conf, "c") /\ v.outseq = u.outseq
    BY <1>4, <2>3, SecretOf
  <2>5. /\ v.insec = NoSec /\ v.outsec = NoSec /\ v.opened = t.opened /\ v.version = conf.svers /\ v.verset
        /\ NoQueue(v) /\ v.hand /\ v.state = "SHandshake" /\ v.outseq = t.outseq
    BY <1>4, <1>7, <2>4 DEF NoKeys, NoQueue, SameSetup, SameHand, SameWriting
  <2>6. AfterSeal(v, "hand") = v
    BY <2>4, <2>5, SealOf
  <2>7. hash'["c"] = ToCKey(conf) /\ hash' = [hash EXCEPT !["c"] = hash'["c"]]
    <3>1. hash'["c"] = hash["c"] \o <<Done, CKey(conf)>> /\ hash' = [hash EXCEPT !["c"] = hash'["c"]]
      BY <1>1, <1>3, <2>1, PutOf
    <3> QED  BY <1>5, <3>1, TranscriptOf
  <2>8. /\ master'["c"] = s /\ master' = [master EXCEPT !["c"] = master'["c"]]
    BY <1>1, <1>3, <2>1, PutOf
  <2>9. cipher'["c"] = cipher["c"] /\ cipher' = [cipher EXCEPT !["c"] = cipher'["c"]]
    BY <1>1, <1>3, <2>1, PutOf
  <2>10. ASSUME tr'["c"] = v, pc'["c"] = "changecipher" PROVE Place("c")'
    <3>1. EndPlace(conf, "c", v, "changecipher", Chosen(conf), s)
      BY <1>2, <1>3, <1>6, <2>5 DEF EndPlace
    <3>2. ClientPlace(conf, v, "changecipher", ToCKey(conf), Chosen(conf), s, peercert)
      BY <2>2, <2>4, <2>5 DEF ClientPlace, Awaits
    <3>3. "changecipher" \notin ServerShaking \ ClientShaking
      BY DEF ClientShaking
    <3>4. cipher'["c"] = Chosen(conf) /\ conf' = conf /\ peercert' = peercert
      BY <1>5, <2>1, <2>9
    <3> QED  BY <2>7, <2>8, <2>10, <3>1, <3>2, <3>3, <3>4 DEF Place
  <2>11. /\ Made("c", v, "changecipher") = 2 /\ Taken(conf, "c", v, "changecipher") = 1
    BY <2>5 DEF Made, Taken
  <2>12. /\ Other("c") = "s" /\ Turn("s") = 3 /\ Said(conf, "s", 2) = <<CKey(conf)>>
         /\ <<CKey(conf)>> \in Bodies(conf)
    BY EndsOf DEF Said, Bodies
  <2>13. Writes("c", v, "hand", <<CKey(conf)>>, "changecipher", 2)
    <3>1. /\ HandWrite("c", v, "hand", <<CKey(conf)>>, "changecipher")
          /\ UNCHANGED <<conf, refused, requested, peercert, ioVars, eof, broken>>
          /\ master'["c"] \in {None, MasterOf(conf, "c"), MasterOf(conf, "s")}
          /\ cipher'["c"] \in {NoCipher, Chosen(conf)}
      BY <1>3, <2>1, <2>8, <2>9
    <3>2. /\ 2 \in Nat /\ 2 = Made("c", t, pc["c"]) + 1 /\ Made("c", AfterSeal(v, "hand"), "changecipher") = 2
          /\ 2 <= Turn(Other("c")) + 1 /\ 2 # Turn(Other("c"))
          /\ Taken(conf, "c", AfterSeal(v, "hand"), "changecipher") = Taken(conf, "c", t, pc["c"])
          /\ v.version = IF "c" = "c" /\ Made("c", t, pc["c"]) = 0 THEN ProtocolVersion ELSE conf.svers
      BY <1>1, <1>6, <2>5, <2>6, <2>11, <2>12
    <3>3. tr'["c"] = AfterSeal(v, "hand") /\ pc'["c"] = "changecipher" => Place("c")'
      BY <2>6, <2>10
    <3>4. v.insec = t.insec /\ v.outsec = t.outsec
      BY <1>6, <2>5
    <3> HIDE DEF v
    <3> QED  BY <1>1, <1>2, <1>6, <2>4, <2>5, <2>7, <2>8, <2>9, <2>12, <3>1, <3>2, <3>3, <3>4 DEF Writes
  <2> QED  BY <1>1, <2>13, HandWriteStep
<1> QED  BY <1>11, <1>12

\* The client's wait for Finished has failed.
LEMMA NoServerFinishedStep ==
  ASSUME IInv, NoServerFinished("c")
  PROVE  IInv'
<1>1. pc["c"] = "nofinished" /\ GiveUp("c", tr["c"], "nofinished") /\ "c" \in Ends /\ "c" # "s"
  BY DEF NoServerFinished, Ends
<1>2. "nofinished" \notin Shaking
  BY DEF Shaking, ClientShaking, ServerShaking
<1>3. tr["c"] \in TlsRecs(conf)
  BY <1>1, TypesOf DEF IInv
<1>4. SameReading(tr["c"], tr["c"]) /\ SameWriting(tr["c"], tr["c"])
  BY DEF SameReading, SameWriting
<1> QED  BY <1>1, <1>2, <1>3, <1>4, GiveUpStep

-----------------------------------------------------------------------------
(* The steps of tlsServer2 *)

\* A record of one message, taken off the queue.
LEMMA QueueOf ==
  ASSUME NEW c, NEW t \in TlsRecs(c), NEW m, Queue(t, <<m>>)
  PROVE  /\ HandReady(t) /\ HandFirst(t) = m /\ HandRest(t) \in TlsRecs(c) /\ NoQueue(HandRest(t))
         /\ HandRest(t).state = t.state /\ SameSetup(t, HandRest(t)) /\ HandRest(t).hand = t.hand
         /\ SameReading(t, HandRest(t)) /\ SameWriting(t, HandRest(t))
<1>1. HandReady(t)
  BY DEF Queue, HandReady
<1>2. Head(<<m>>) = m /\ Tail(<<m>>) = <<>>
  OBVIOUS
<1>3. HandFirst(t) = m /\ HandRest(t) \in TlsRecs(c) /\ Rest(HandRest(t), <<>>)
  BY <1>1, <1>2, RestOf
<1>4. /\ HandRest(t).state = t.state /\ SameSetup(t, HandRest(t)) /\ HandRest(t).hand = t.hand
      /\ SameReading(t, HandRest(t)) /\ SameWriting(t, HandRest(t))
  BY <1>1, RestOf
<1> QED  BY <1>1, <1>3, <1>4 DEF Rest, NoQueue

\* The server picks a suite and sends its flight.
LEMMA HelloFromClientStep ==
  ASSUME IInv, HelloFromClient
  PROVE  IInv'
<1> DEFINE t == tr["s"]
           u == HandRest(t)
           v == SetVersion(u, conf.svers)
           m == CHello(conf)
<1>1. /\ Receive("s", "clienthello") /\ pc["s"] = "clienthello" /\ "s" \in Ends /\ "s" # "c"
      /\ HandReady(t)
  BY DEF HelloFromClient, Receive, Ends
<1>2. /\ "clienthello" \in Shaking \ {"opened"} /\ "clientkey" \in Shaking
      /\ "clientkey" \notin (ClientShaking \ ServerShaking) \union {"nofinished"}
  BY DEF Shaking, ClientShaking, ServerShaking
<1>3. /\ TypeOK /\ conf \in Confs /\ t \in TlsRecs(conf) /\ t.state = "SHandshake" /\ t.hand
      /\ cipher["s"] \in {NoCipher, Chosen(conf)}
      /\ master["s"] \in {None, MasterOf(conf, "c"), MasterOf(conf, "s")}
      /\ EndPlace(conf, "s", t, "clienthello", cipher["s"], master["s"])
      /\ ServerPlace(conf, t, "clienthello", hash["s"], cipher["s"], master["s"])
  BY <1>1, <1>2, ShakingAt
<1>4. NoKeys(t) /\ hash["s"] = <<>> /\ Queue(t, <<m>>)
  BY <1>1, <1>3 DEF ServerPlace, NoQueue, HandReady
<1>5. /\ HandFirst(t) = m /\ u \in TlsRecs(conf) /\ NoQueue(u) /\ u.state = "SHandshake" /\ u.hand
      /\ SameSetup(t, u) /\ SameReading(t, u) /\ SameWriting(t, u)
  BY <1>3, <1>4, QueueOf
<1>6. /\ conf.svers \in 0 .. 3 /\ Lower(ProtocolVersion, conf.svers) = conf.svers
  BY <1>3, SetupOf
<1>7. /\ v \in TlsRecs(conf) /\ v.state = u.state /\ v.version = conf.svers /\ v.verset
      /\ v.opened = u.opened /\ SameReading(u, v) /\ SameWriting(u, v) /\ SameHand(u, v)
  BY <1>5, <1>6, VersionOf
<1>8. /\ NoKeys(v) /\ NoQueue(v) /\ v.hand /\ v.opened = t.opened /\ v.state = "SHandshake"
      /\ SameReading(t, v) /\ SameWriting(t, v)
  BY <1>4, <1>5, <1>7 DEF NoKeys, NoQueue, SameSetup, SameReading, SameWriting, SameHand
<1>9. /\ m.tag = "ClientHello" /\ m.vers = ProtocolVersion /\ m.suites = Offer(conf.cpsk)
  BY DEF CHello
<1>10. Message("s") = m
  BY <1>5 DEF Message
<1>11. {i \in m.suites \intersect Offer(conf.spsk) : Suites[i].kx \in conf.skx} = Common(conf)
  BY <1>9 DEF Common
<1>12. /\ Made("s", t, "clienthello") = 0 /\ Taken(conf, "s", t, "clienthello") = 1
       /\ t.outsec = NoSec /\ t.insec = NoSec
  BY <1>1, <1>4 DEF Made, Taken, NoKeys, Queue
<1>13. CASE Common(conf) = {}
  <2>1. GiveUp("s", v, "cipher")
    BY <1>6, <1>9, <1>10, <1>11, <1>13 DEF HelloFromClient
  <2> HIDE DEF v
  <2> QED  BY <1>1, <1>2, <1>3, <1>7, <1>8, <1>12, <2>1, GiveUpStep
<1>14. CASE Common(conf) # {}
  <2>1. Suites[Lowest(Common(conf))] = Chosen(conf)
    BY <1>14 DEF Chosen
  <2>2. /\ HandWrite("s", v, "hand", Flight(conf), "clientkey")
        /\ cipher' = [cipher EXCEPT !["s"] = Chosen(conf)]
        /\ Hash("s", <<m>> \o Flight(conf))
        /\ UNCHANGED <<conf, refused, requested, master, peercert, ioVars, eof, broken>>
    BY <1>6, <1>9, <1>10, <1>11, <1>14, <2>1, ServerFlightOf DEF HelloFromClient
  <2>3. AfterSeal(v, "hand") = v
    BY <1>7, <1>8, SealOf DEF NoKeys
  <2>4. hash'["s"] = ToFlight(conf) /\ hash' = [hash EXCEPT !["s"] = hash'["s"]]
    <3>1. hash'["s"] = hash["s"] \o (<<m>> \o Flight(conf)) /\ hash' = [hash EXCEPT !["s"] = hash'["s"]]
      BY <1>1, <1>3, <2>2, PutOf
    <3> QED  BY <1>4, <3>1, TranscriptOf
  <2>5. /\ master'["s"] = master["s"] /\ master' = [master EXCEPT !["s"] = master'["s"]]
    BY <1>1, <1>3, <2>2, PutOf
  <2>6. cipher'["s"] = Chosen(conf) /\ cipher' = [cipher EXCEPT !["s"] = cipher'["s"]]
    BY <1>1, <1>3, <2>2, PutOf
  <2>7. ASSUME tr'["s"] = v, pc'["s"] = "clientkey" PROVE Place("s")'
    <3>1. EndPlace(conf, "s", v, "clientkey", Chosen(conf), master["s"])
      BY <1>2, <1>3, <1>4, <1>8 DEF EndPlace, NoKeys
    <3>2. ServerPlace(conf, v, "clientkey", ToFlight(conf), Chosen(conf), master["s"])
      BY <1>7, <1>8, <1>14 DEF ServerPlace
    <3> QED  BY <1>1, <1>2, <1>7, <2>2, <2>4, <2>5, <2>6, <2>7, <3>1, <3>2 DEF Place
  <2>8. /\ Made("s", v, "clientkey") = 1 /\ Taken(conf, "s", v, "clientkey") = 1
    BY <1>1, <1>8 DEF Made, Taken, NoKeys, NoQueue
  <2>9. /\ Other("s") = "c" /\ Turn("c") = 2 /\ Said(conf, "c", 1) = Flight(conf)
        /\ Flight(conf) \in Bodies(conf)
    BY EndsOf DEF Said, Bodies
  <2>10. Writes("s", v, "hand", Flight(conf), "clientkey", 1)
    <3>1. /\ HandWrite("s", v, "hand", Flight(conf), "clientkey")
          /\ UNCHANGED <<conf, refused, requested, peercert, ioVars, eof, broken>>
          /\ master'["s"] \in {None, MasterOf(conf, "c"), MasterOf(conf, "s")}
          /\ cipher'["s"] \in {NoCipher, Chosen(conf)}
      BY <1>3, <2>2, <2>5, <2>6
    <3>2. /\ 1 \in Nat /\ 1 = Made("s", t, pc["s"]) + 1 /\ Made("s", AfterSeal(v, "hand"), "clientkey") = 1
          /\ 1 <= Turn(Other("s")) + 1 /\ 1 # Turn(Other("s"))
          /\ Taken(conf, "s", AfterSeal(v, "hand"), "clientkey") = Taken(conf, "s", t, pc["s"])
          /\ v.version = IF "s" = "c" /\ Made("s", t, pc["s"]) = 0 THEN ProtocolVersion ELSE conf.svers
      BY <1>1, <1>7, <1>12, <2>3, <2>8, <2>9
    <3>3. tr'["s"] = AfterSeal(v, "hand") /\ pc'["s"] = "clientkey" => Place("s")'
      BY <2>3, <2>7
    <3>4. v.insec = t.insec /\ v.outsec = t.outsec /\ v.outseq = t.outseq
      BY <1>8 DEF SameReading, SameWriting
    <3> HIDE DEF v
    <3> QED  BY <1>1, <1>2, <1>7, <1>8, <1>12, <1>14, <2>4, <2>5, <2>6, <2>9, <3>1, <3>2, <3>3, <3>4 DEF Writes
  <2> QED  BY <1>1, <2>10, HandWriteStep
<1> QED  BY <1>13, <1>14

\* The server sets the secrets made with the client's key.
LEMMA ClientKeyStep ==
  ASSUME IInv, ClientKey
  PROVE  IInv'
<1> DEFINE t == tr["s"]
           u == HandRest(t)
           a == Chosen(conf)
           s == MasterOf(conf, "s")
           v == SetSecret(u, ReadKey(conf, "s"), SendKey(conf, "s"))
           m == CKey(conf)
<1>1. /\ Receive("s", "clientkey") /\ pc["s"] = "clientkey" /\ "s" \in Ends /\ "s" # "c"
      /\ HandReady(t)
  BY DEF ClientKey, Receive, Ends
<1>2. /\ "clientkey" \in Shaking \ {"opened"} /\ "clientfinished" \in Shaking
      /\ "clientfinished" \notin (ClientShaking \ ServerShaking) \union {"nofinished"}
  BY DEF Shaking, ClientShaking, ServerShaking
<1>3. /\ TypeOK /\ conf \in Confs /\ t \in TlsRecs(conf) /\ t.state = "SHandshake" /\ t.hand
      /\ peercert \in BOOLEAN
      /\ EndPlace(conf, "s", t, "clientkey", cipher["s"], master["s"])
      /\ ServerPlace(conf, t, "clientkey", hash["s"], cipher["s"], master["s"])
      /\ t.version = conf.svers
  BY <1>1, <1>2, ShakingAt
<1>4. /\ NoKeys(t) /\ hash["s"] = ToFlight(conf) /\ Queue(t, <<m>>)
      /\ t.verset /\ cipher["s"] = Chosen(conf) /\ Common(conf) # {}
  BY <1>1, <1>3 DEF ServerPlace, NoQueue, HandReady
<1>5. /\ HandFirst(t) = m /\ u \in TlsRecs(conf) /\ NoQueue(u) /\ u.state = "SHandshake" /\ u.hand
      /\ SameSetup(t, u) /\ SameReading(t, u) /\ SameWriting(t, u)
  BY <1>3, <1>4, QueueOf
<1>6. /\ Made("s", t, "clientkey") = 1 /\ Taken(conf, "s", t, "clientkey") = 2
      /\ t.outsec = NoSec /\ t.insec = NoSec
  BY <1>1, <1>4 DEF Made, Taken, NoKeys, Queue
<1>7. u.version = conf.svers /\ u.verset /\ u.opened = t.opened /\ NoKeys(u)
  BY <1>3, <1>4, <1>5 DEF SameSetup, SameReading, SameWriting, NoKeys
<1>8. Message("s") = m /\ m.tag = "ClientKeyExchange"
  BY <1>5 DEF Message, CKey
<1>9. /\ Master(a.kx, conf.cert # "none", conf.spsk) = s
      /\ WithSecrets("s", u, s, a) = v
  BY EndsOf DEF MasterOf, Psk, WithSecrets, ReadKey, SendKey
<1>10. CASE (conf.spskid # None /\ m.pskid # conf.spskid) \/ SecretsFail(u, a)
  <2>1. GiveUp("s", u, "pskid") \/ GiveUp("s", u, "secrets")
    BY <1>4, <1>8, <1>10 DEF ClientKey
  <2>2. PICK why \in {"pskid", "secrets"} : GiveUp("s", u, why)
    BY <2>1
  <2> HIDE DEF u
  <2> QED  BY <1>1, <1>2, <1>3, <1>5, <1>6, <1>7, <2>2, GiveUpStep
<1>11. CASE ~((conf.spskid # None /\ m.pskid # conf.spskid) \/ SecretsFail(u, a))
  <2>1. /\ Put("s", v) /\ Goto("s", "clientfinished")
        /\ master' = [master EXCEPT !["s"] = s]
        /\ Hash("s", <<m>>)
        /\ UNCHANGED <<conf, refused, requested, cipher, peercert, ioVars, netVars>>
    BY <1>4, <1>8, <1>9, <1>11 DEF ClientKey
  <2>2. ReadKey(conf, "s") \in Secs(conf) /\ SendKey(conf, "s") \in Secs(conf)
    BY <1>1, KeysOf
  <2>3. /\ v \in TlsRecs(conf) /\ v.state = u.state /\ SameSetup(u, v) /\ SameHand(u, v)
        /\ v.insec = u.insec /\ v.innew = ReadKey(conf, "s")
        /\ v.outsec = u.outsec /\ v.outnew = SendKey(conf, "s") /\ v.outseq = u.outseq
    BY <1>5, <2>2, SecretOf
  <2>4. /\ v.insec = NoSec /\ v.outsec = NoSec /\ v.opened = t.opened /\ v.version = conf.svers /\ v.verset
        /\ NoQueue(v) /\ v.hand /\ v.state = "SHandshake"
    BY <1>5, <1>7, <2>3 DEF NoKeys, NoQueue, SameSetup, SameHand
  <2>5. /\ tr'["s"] = v /\ tr' = [tr EXCEPT !["s"] = tr'["s"]]
        /\ pc'["s"] = "clientfinished" /\ pc' = [pc EXCEPT !["s"] = pc'["s"]]
    BY <1>1, <1>3, <2>1, PutOf
  <2>6. hash'["s"] = hash["s"] \o <<m>> /\ hash' = [hash EXCEPT !["s"] = hash'["s"]]
    BY <1>1, <1>3, <2>1, PutOf
  <2>7. master'["s"] = s /\ master' = [master EXCEPT !["s"] = master'["s"]]
    BY <1>1, <1>3, <2>1, PutOf
  <2>8. /\ cipher'["s"] = Chosen(conf) /\ cipher' = [cipher EXCEPT !["s"] = cipher'["s"]]
        /\ refused' = [refused EXCEPT !["s"] = refused'["s"]]
    BY <1>1, <1>3, <1>4, <2>1, PutOf
  <2>9. Turns("s") /\ wire' = wire /\ refused' = refused /\ conf' = conf /\ peercert' = peercert
    BY <2>1, <2>5, <2>6, <2>7, <2>8 DEF Turns, netVars
  <2>10. Place("s")'
    <3>1. EndPlace(conf, "s", v, "clientfinished", Chosen(conf), s)
      BY <1>2, <1>3, <1>6, <2>4 DEF EndPlace
    <3>2. ServerPlace(conf, v, "clientfinished", ToCKey(conf), Chosen(conf), s)
      BY <1>4, <2>3, <2>4 DEF ServerPlace, Finishing, Awaits
    <3> QED  BY <1>1, <1>2, <1>4, <2>4, <2>5, <2>6, <2>7, <2>8, <2>9, <3>1, <3>2 DEF Place, ToCKey
  <2>11. /\ Made("s", v, "clientfinished") = 1 /\ Taken(conf, "s", v, "clientfinished") = 2
    BY <1>1, <2>4 DEF Made, Taken
  <2>12. v.insec = t.insec /\ v.outsec = t.outsec
    BY <1>6, <2>4
  <2> HIDE DEF v, s
  <2> QED  BY <1>1, <1>2, <1>3, <1>6, <2>3, <2>5, <2>7, <2>8, <2>9, <2>10, <2>11, <2>12, TurnStep DEF s
<1> QED  BY <1>10, <1>11

-----------------------------------------------------------------------------
(* The steps of both ends *)

\* An end changes its cipher, which its record says.
LEMMA ChangeCipherStep ==
  ASSUME IInv, NEW e \in Ends, ChangeCipher(e)
  PROVE  IInv'
<1> DEFINE t == tr[e]
           u == AfterSeal(t, "ccs")
           n == Turn(Other(e))
<1>1. /\ pc[e] = "changecipher" /\ HandWrite(e, t, "ccs", 1, "finished")
      /\ UNCHANGED <<conf, refused, requested, hsVars, ioVars, eof, broken>>
      /\ UNCHANGED <<conf, refused, requested, peercert, ioVars, eof, broken>>
      /\ cipher' = cipher /\ hash' = hash /\ master' = master /\ peercert' = peercert
  BY DEF ChangeCipher, hsVars
<1>2. /\ "changecipher" \in Shaking \ {"opened"} /\ "finished" \in Shaking
      /\ "finished" \notin ServerShaking \ ClientShaking
      /\ "finished" \notin (ClientShaking \ ServerShaking) \union {"nofinished"}
  BY DEF Shaking, ClientShaking, ServerShaking
<1>3. /\ TypeOK /\ conf \in Confs /\ t \in TlsRecs(conf) /\ t.state = "SHandshake" /\ t.hand
      /\ cipher[e] \in {NoCipher, Chosen(conf)}
      /\ master[e] \in {None, MasterOf(conf, "c"), MasterOf(conf, "s")}
      /\ EndPlace(conf, e, t, "changecipher", cipher[e], master[e])
      /\ e = "c" => ClientPlace(conf, t, "changecipher", hash[e], cipher[e], master[e], peercert)
      /\ e = "s" => /\ ServerPlace(conf, t, "changecipher", hash[e], cipher[e], master[e])
                    /\ t.version = conf.svers
  BY <1>1, <1>2, ShakingAt
<1>4. /\ t.outsec = NoSec /\ t.outnew = SendKey(conf, e) /\ NoQueue(t)
      /\ t.verset /\ t.version = conf.svers /\ cipher[e] = Chosen(conf) /\ master[e] = MasterOf(conf, e)
      /\ e = "c" => conf.cert # "bad" /\ Awaits(conf, "c", t) /\ hash[e] = ToCKey(conf)
      /\ e = "s" => Reads(conf, "s", t) /\ hash[e] = ToCFin(conf) /\ Common(conf) # {}
  <2>1. CASE e = "c"
    BY <1>3, <2>1 DEF ClientPlace
  <2>2. CASE e = "s"
    BY <1>3, <2>2 DEF ServerPlace
  <2> QED  BY <2>1, <2>2, EndsOf
<1>5. /\ u \in TlsRecs(conf) /\ u.state = t.state /\ SameSetup(t, u) /\ SameReading(t, u) /\ SameHand(t, u)
      /\ u.outsec = SendKey(conf, e) /\ u.outseq = 0
  BY <1>3, <1>4, SealOf
<1>6. SendKey(conf, e) # NoSec
  BY KeysOf
<1>7. /\ cipher' = [cipher EXCEPT ![e] = cipher'[e]] /\ hash' = [hash EXCEPT ![e] = hash'[e]]
      /\ master' = [master EXCEPT ![e] = master'[e]]
  BY <1>1, <1>3, PutOf
<1>8. ASSUME tr'[e] = u, pc'[e] = "finished" PROVE Place(e)'
  <2>1. /\ NoQueue(u) /\ u.verset /\ u.version = conf.svers /\ u.opened = t.opened /\ u.hand
        /\ e = "c" => Awaits(conf, "c", u)
        /\ e = "s" => Reads(conf, "s", u)
        /\ u.state = "SHandshake" /\ u.insec = t.insec
    BY <1>3, <1>4, <1>5 DEF SameSetup, SameReading, SameHand, NoQueue, Awaits, Reads
  <2>2. EndPlace(conf, e, u, "finished", Chosen(conf), MasterOf(conf, e))
    BY <1>2, <1>3, <1>4, <1>5, <1>6, <2>1 DEF EndPlace
  <2>3. e = "c" => ClientPlace(conf, u, "finished", ToCKey(conf), Chosen(conf), MasterOf(conf, e), peercert)
    BY <1>4, <1>5, <2>1 DEF ClientPlace
  <2>4. e = "s" => ServerPlace(conf, u, "finished", ToCFin(conf), Chosen(conf), MasterOf(conf, e))
    BY <1>4, <1>5, <2>1 DEF ServerPlace
  <2>5. /\ conf' = conf /\ cipher'[e] = Chosen(conf) /\ master'[e] = MasterOf(conf, e) /\ peercert' = peercert
        /\ e = "c" => hash'[e] = ToCKey(conf)
        /\ e = "s" => hash'[e] = ToCFin(conf)
    BY <1>1, <1>4
  <2> HIDE DEF u
  <2> QED  BY <1>2, <1>8, <2>1, <2>2, <2>3, <2>4, <2>5 DEF Place
<1>9. /\ n \in Nat /\ Made(e, t, "changecipher") = n - 1 /\ Made(e, u, "finished") = n
      /\ Taken(conf, e, u, "finished") = Taken(conf, e, t, "changecipher") /\ n # 1
  <2>1. u.insec = t.insec /\ u.inseq = t.inseq /\ u.handq = t.handq
    BY <1>5 DEF SameReading, SameHand
  <2>2. Taken(conf, e, u, "finished") = Taken(conf, e, t, "changecipher")
    BY <1>4, <2>1, FlightOf DEF Taken, NoQueue
  <2>3. n \in Nat /\ Made(e, u, "finished") = n /\ n # 1
    BY <1>5, <1>6, EndsOf DEF Made
  <2>4. Made(e, t, "changecipher") = n - 1
    BY <1>4, EndsOf DEF Made
  <2> QED  BY <2>2, <2>3, <2>4
<1>10. n \in Nat /\ n = Made(e, t, pc[e]) + 1 /\ Made(e, t, pc[e]) # 0
  <2>1. \A x \in Nat : \A y : y = x - 1 /\ x # 1 => x = y + 1 /\ y # 0
    OBVIOUS
  <2> HIDE DEF n
  <2> QED  BY <1>1, <1>9, <2>1
<1>11. Writes(e, t, "ccs", 1, "finished", n)
  <2>1. master'[e] = master[e] /\ cipher'[e] = cipher[e]
    BY <1>1
  <2>2. Taken(conf, e, AfterSeal(t, "ccs"), "finished") = Taken(conf, e, t, pc[e])
    BY <1>1, <1>9
  <2>3. Made(e, AfterSeal(t, "ccs"), "finished") = n
    BY <1>9
  <2> HIDE DEF n
  <2> QED  BY <1>1, <1>2, <1>3, <1>4, <1>6, <1>7, <1>8, <1>10, <2>1, <2>2, <2>3 DEF Writes, n
<1> QED  BY <1>11, HandWriteStep

\* An end says Finished with the transcript up to there.
LEMMA FinishedStep ==
  ASSUME IInv, NEW e \in Ends, Finished(e)
  PROVE  IInv'
<1> DEFINE t == tr[e]
           m == IF e = "c" THEN CFin(conf) ELSE SFin(conf)
           l == IF e = "c" THEN "serverfinished" ELSE "opening"
           u == AfterSeal(t, "hand")
           n == Turn(Other(e)) + 1
<1>1. pc[e] = "finished"
  BY DEF Finished
<1>2. /\ "finished" \in Shaking \ {"opened"} /\ l \in Shaking \ {"opened"}
      /\ e = "c" => l \notin ServerShaking \ ClientShaking
      /\ e = "s" => l \notin (ClientShaking \ ServerShaking) \union {"nofinished"}
  BY DEF Shaking, ClientShaking, ServerShaking
<1>3. /\ TypeOK /\ conf \in Confs /\ t \in TlsRecs(conf) /\ t.state = "SHandshake" /\ t.hand
      /\ cipher[e] \in {NoCipher, Chosen(conf)}
      /\ master[e] \in {None, MasterOf(conf, "c"), MasterOf(conf, "s")}
      /\ EndPlace(conf, e, t, "finished", cipher[e], master[e])
      /\ e = "c" => ClientPlace(conf, t, "finished", hash[e], cipher[e], master[e], peercert)
      /\ e = "s" => /\ ServerPlace(conf, t, "finished", hash[e], cipher[e], master[e])
                    /\ t.version = conf.svers
  BY <1>1, <1>2, ShakingAt
<1>4. /\ t.outsec = SendKey(conf, e) /\ t.outseq = 0 /\ NoQueue(t)
      /\ t.verset /\ t.version = conf.svers /\ cipher[e] = Chosen(conf) /\ master[e] = MasterOf(conf, e)
      /\ e = "c" => conf.cert # "bad" /\ Awaits(conf, "c", t) /\ hash[e] = ToCKey(conf)
      /\ e = "s" => Reads(conf, "s", t) /\ hash[e] = ToCFin(conf) /\ Common(conf) # {}
  <2>1. CASE e = "c"
    BY <1>3, <2>1 DEF ClientPlace
  <2>2. CASE e = "s"
    BY <1>3, <2>2 DEF ServerPlace
  <2> QED  BY <2>1, <2>2, EndsOf
<1>5. m = [tag |-> "Finished", verify |-> Verify(e, e)]
  <2>1. CASE e = "c"
    BY <1>4, <2>1 DEF CFin, Verify
  <2>2. CASE e = "s"
    BY <1>4, <2>2 DEF SFin, Verify
  <2> QED  BY <2>1, <2>2, EndsOf
<1>6. /\ HandWrite(e, t, "hand", <<m>>, l) /\ Hash(e, <<m>>)
      /\ UNCHANGED <<conf, refused, requested, peercert, ioVars, eof, broken>>
      /\ cipher' = cipher /\ master' = master /\ conf' = conf
  BY <1>5 DEF Finished
<1>7. SendKey(conf, e) # NoSec
  BY KeysOf
<1>8. /\ u \in TlsRecs(conf) /\ u.state = t.state /\ SameSetup(t, u) /\ SameReading(t, u) /\ SameHand(t, u)
      /\ u.outsec = SendKey(conf, e) /\ u.outseq = 1
  <2>1. /\ u \in TlsRecs(conf) /\ u.state = t.state /\ SameSetup(t, u) /\ SameReading(t, u) /\ SameHand(t, u)
        /\ u.outsec = SendKey(conf, e) /\ u.outseq = t.outseq + 1
    BY <1>3, <1>4, <1>7, SealOf
  <2> QED  BY <1>4, <2>1
<1>9. /\ cipher' = [cipher EXCEPT ![e] = cipher'[e]] /\ master' = [master EXCEPT ![e] = master'[e]]
  BY <1>3, <1>6, PutOf
<1>10. hash'[e] = hash[e] \o <<m>> /\ hash' = [hash EXCEPT ![e] = hash'[e]]
  BY <1>3, <1>6, PutOf
<1>11. e = "c" => hash'[e] = ToCFin(conf)
  BY <1>4, <1>10 DEF ToCFin
<1>12. ASSUME tr'[e] = u, pc'[e] = l PROVE Place(e)'
  <2>1. /\ NoQueue(u) /\ u.verset /\ u.version = conf.svers /\ u.opened = t.opened /\ u.hand
        /\ e = "c" => Awaits(conf, "c", u)
        /\ e = "s" => Reads(conf, "s", u)
        /\ u.state = "SHandshake" /\ u.insec = t.insec
    BY <1>3, <1>4, <1>8 DEF SameSetup, SameReading, SameHand, NoQueue, Awaits, Reads
  <2>2. EndPlace(conf, e, u, l, Chosen(conf), MasterOf(conf, e))
    <3>1. l = "opening" => Reads(conf, e, u)
      BY <2>1, EndsOf
    <3> QED  BY <1>2, <1>3, <1>4, <1>7, <1>8, <2>1, <3>1 DEF EndPlace
  <2>3. e = "c" => ClientPlace(conf, u, l, hash'[e], Chosen(conf), MasterOf(conf, e), peercert)
    BY <1>4, <1>8, <1>11, <2>1 DEF ClientPlace, Finishing
  <2>4. e = "s" => ServerPlace(conf, u, l, hash'[e], Chosen(conf), MasterOf(conf, e))
    <3>1. e = "s" => l = "opening"
      OBVIOUS
    <3> HIDE DEF l
    <3> QED  BY <1>4, <1>8, <2>1, <3>1 DEF ServerPlace
  <2>5. conf' = conf /\ cipher'[e] = Chosen(conf) /\ master'[e] = MasterOf(conf, e) /\ peercert' = peercert
    BY <1>4, <1>6
  <2> HIDE DEF u, l
  <2> QED  BY <1>2, <1>12, <2>1, <2>2, <2>3, <2>4, <2>5 DEF Place
<1>13. /\ n \in Nat /\ Made(e, t, "finished") = n - 1 /\ Made(e, u, l) = n
       /\ Taken(conf, e, u, l) = Taken(conf, e, t, "finished") /\ n # 1
       /\ n <= Turn(Other(e)) + 1 /\ n # Turn(Other(e))
  <2>1. u.insec = t.insec /\ u.inseq = t.inseq /\ u.handq = t.handq
    BY <1>8 DEF SameReading, SameHand
  <2>2. Taken(conf, e, u, l) = Taken(conf, e, t, "finished")
    BY <1>4, <2>1, FlightOf DEF Taken, NoQueue
  <2>3. n \in Nat /\ Made(e, u, l) = n /\ n # 1 /\ n <= Turn(Other(e)) + 1 /\ n # Turn(Other(e))
    BY <1>7, <1>8, EndsOf DEF Made
  <2>4. Made(e, t, "finished") = n - 1
    BY <1>4, <1>7, EndsOf DEF Made
  <2> QED  BY <2>2, <2>3, <2>4
<1>14. n \in Nat /\ n = Made(e, t, pc[e]) + 1 /\ Made(e, t, pc[e]) # 0
  <2>1. \A x \in Nat : \A y : y = x - 1 /\ x # 1 => x = y + 1 /\ y # 0
    OBVIOUS
  <2> HIDE DEF n
  <2> QED  BY <1>1, <1>13, <2>1
<1>15. <<m>> \in Bodies(conf) /\ <<m>> = Said(conf, Other(e), n)
  <2>1. CASE e = "c"
    BY <2>1, EndsOf DEF Bodies, Said
  <2>2. CASE e = "s"
    BY <2>2, EndsOf DEF Bodies, Said
  <2> QED  BY <2>1, <2>2, EndsOf
<1>16. Writes(e, t, "hand", <<m>>, l, n)
  <2>1. master'[e] = master[e] /\ cipher'[e] = cipher[e]
    BY <1>6
  <2>2. Taken(conf, e, AfterSeal(t, "hand"), l) = Taken(conf, e, t, pc[e])
    BY <1>1, <1>13
  <2>3. Made(e, AfterSeal(t, "hand"), l) = n
    BY <1>13
  <2> HIDE DEF n, l, m
  <2> QED  BY <1>1, <1>2, <1>3, <1>4, <1>6, <1>7, <1>9, <1>10, <1>12, <1>13, <1>14, <1>15, <2>1, <2>2, <2>3 DEF Writes
<1> QED  BY <1>16, HandWriteStep

\* An end reads the other's Finished, which matches.
LEMMA FinishedMatchStep ==
  ASSUME IInv, NEW e \in Ends, FinishedMatch(e)
  PROVE  IInv'
<1> DEFINE t == tr[e]
           k == IF e = "c" THEN "serverfinished" ELSE "clientfinished"
           l == IF e = "c" THEN "opening" ELSE "changecipher"
           m == IF e = "c" THEN SFin(conf) ELSE CFin(conf)
           u == HandRest(t)
<1>1. Receive(e, k) /\ pc[e] = k /\ HandReady(t)
  BY DEF FinishedMatch, Receive
<1>2. /\ k \in Shaking \ {"opened"} /\ l \in Shaking \ {"opened"}
      /\ e = "c" => l \notin ServerShaking \ ClientShaking
      /\ e = "s" => l \notin (ClientShaking \ ServerShaking) \union {"nofinished"}
  BY DEF Shaking, ClientShaking, ServerShaking
<1>3. /\ TypeOK /\ conf \in Confs /\ t \in TlsRecs(conf) /\ t.state = "SHandshake" /\ t.hand
      /\ cipher[e] \in {NoCipher, Chosen(conf)}
      /\ master[e] \in {None, MasterOf(conf, "c"), MasterOf(conf, "s")} /\ peercert \in BOOLEAN
      /\ EndPlace(conf, e, t, k, cipher[e], master[e])
      /\ e = "c" => ClientPlace(conf, t, k, hash[e], cipher[e], master[e], peercert)
      /\ e = "s" => /\ ServerPlace(conf, t, k, hash[e], cipher[e], master[e])
                    /\ t.version = conf.svers
  <2> HIDE DEF k
  <2> QED  BY <1>1, <1>2, ShakingAt
<1>4. /\ Finishing(conf, e, t, m)
      /\ t.verset /\ t.version = conf.svers /\ cipher[e] = Chosen(conf) /\ master[e] = MasterOf(conf, e)
      /\ e = "c" => /\ conf.cert # "bad" /\ hash[e] = ToCFin(conf)
                    /\ t.outsec = SendKey(conf, e) /\ t.outseq >= 1
      /\ e = "s" => /\ t.outsec = NoSec /\ t.outnew = SendKey(conf, e) /\ hash[e] = ToCKey(conf)
                    /\ Common(conf) # {}
  <2>1. CASE e = "c"
    BY <1>3, <2>1 DEF ClientPlace
  <2>2. CASE e = "s"
    BY <1>3, <2>2 DEF ServerPlace
  <2> QED  BY <2>1, <2>2, EndsOf
<1>5. Reads(conf, e, t) /\ Queue(t, <<m>>)
  <2> HIDE DEF m
  <2> QED  BY <1>1, <1>4 DEF Finishing, NoQueue, HandReady
<1>6. /\ HandFirst(t) = m /\ u \in TlsRecs(conf) /\ NoQueue(u) /\ u.state = "SHandshake" /\ u.hand
      /\ SameSetup(t, u) /\ SameReading(t, u) /\ SameWriting(t, u)
  <2> HIDE DEF m
  <2> QED  BY <1>3, <1>5, QueueOf
<1>7. MasterOf(conf, "c") = MasterOf(conf, "s")
  BY <1>5 DEF Reads, MasterOf, Psk
<1>8. m.tag = "Finished" /\ m.verify = Verify(e, Other(e))
  <2>1. CASE e = "c"
    BY <1>4, <1>7, <2>1, EndsOf DEF SFin, Verify
  <2>2. CASE e = "s"
    BY <1>4, <1>7, <2>2, EndsOf DEF CFin, Verify
  <2> QED  BY <2>1, <2>2, EndsOf
<1>9. /\ Put(e, u) /\ Hash(e, <<m>>) /\ Goto(e, l)
      /\ UNCHANGED <<conf, refused, requested, cipher, master, peercert, ioVars, netVars>>
  <2>1. Message(e) = m
    BY <1>6 DEF Message
  <2> HIDE DEF m
  <2> QED  BY <1>8, <2>1 DEF FinishedMatch
<1>10. tr'[e] = u /\ tr' = [tr EXCEPT ![e] = tr'[e]] /\ pc'[e] = l /\ pc' = [pc EXCEPT ![e] = pc'[e]]
  <2> HIDE DEF l
  <2> QED  BY <1>3, <1>9, PutOf
<1>11. hash'[e] = hash[e] \o <<m>> /\ hash' = [hash EXCEPT ![e] = hash'[e]]
  BY <1>3, <1>9, PutOf
<1>12. e = "s" => hash'[e] = ToCFin(conf)
  BY <1>4, <1>11 DEF ToCFin
<1>13. /\ cipher' = [cipher EXCEPT ![e] = cipher'[e]] /\ master' = [master EXCEPT ![e] = master'[e]]
       /\ refused' = [refused EXCEPT ![e] = refused'[e]]
  BY <1>3, <1>9, PutOf
<1>14. /\ conf' = conf /\ cipher'[e] = Chosen(conf) /\ master'[e] = MasterOf(conf, e) /\ peercert' = peercert
       /\ wire' = wire /\ refused' = refused /\ cipher'[e] = cipher[e] /\ master'[e] = master[e]
  BY <1>4, <1>9 DEF netVars
<1>15. Turns(e)
  BY <1>9, <1>10, <1>11, <1>13 DEF Turns, netVars
<1>16. /\ Reads(conf, e, u) /\ u.verset /\ u.version = conf.svers /\ u.opened = t.opened
       /\ u.insec = t.insec /\ u.inseq = t.inseq /\ u.outsec = t.outsec /\ u.outnew = t.outnew
       /\ u.outseq = t.outseq
  BY <1>4, <1>5, <1>6 DEF Reads, SameSetup, SameReading, SameWriting
<1>17. Place(e)'
  <2>1. EndPlace(conf, e, u, l, Chosen(conf), MasterOf(conf, e))
    BY <1>2, <1>3, <1>4, <1>6, <1>16, EndsOf DEF EndPlace
  <2>2. e = "c" => ClientPlace(conf, u, l, hash'[e], Chosen(conf), MasterOf(conf, e), peercert)
    BY <1>4, <1>16 DEF ClientPlace
  <2>3. e = "s" => ServerPlace(conf, u, l, hash'[e], Chosen(conf), MasterOf(conf, e))
    <3>1. e = "s" => l = "changecipher"
      OBVIOUS
    <3> HIDE DEF l, u
    <3> QED  BY <1>4, <1>6, <1>12, <1>16, <3>1 DEF ServerPlace
  <2> HIDE DEF u, l
  <2> QED  BY <1>2, <1>10, <1>14, <1>16, <2>1, <2>2, <2>3 DEF Place
<1>18. /\ Taken(conf, e, u, l) = Taken(conf, e, t, k) /\ Made(e, u, l) = Made(e, t, k)
  <2>1. t.insec # NoSec
    BY <1>5, KeysOf DEF Reads
  <2>2. Taken(conf, e, u, l) = Taken(conf, e, t, k)
    BY <1>16, <2>1 DEF Taken
  <2>3. Made(e, u, l) = Made(e, t, k)
    BY <1>16, EndsOf DEF Made
  <2> QED  BY <2>2, <2>3
<1> HIDE DEF u, k, l
<1> QED  BY <1>1, <1>2, <1>3, <1>6, <1>10, <1>14, <1>15, <1>16, <1>17, <1>18, TurnStep

\* Only a client that waits for the server's hello meets a HelloRequest.
LEMMA RequestAt ==
  ASSUME IInv, NEW e \in Ends, pc[e] \in Handshaking, HandReady(tr[e]), HandFirst(tr[e]).tag = "HelloRequest"
  PROVE  e = "c" /\ pc[e] = "serverhello" /\ Queue(tr[e], <<HRequest>>)
<1> DEFINE t == tr[e]
<1>1. pc[e] \in Shaking \ {"opened"}
  BY DEF Handshaking, Shaking, ClientShaking, ServerShaking
<1>2. /\ t \in TlsRecs(conf) /\ Place(e) /\ conf \in Confs
      /\ e = "c" => ClientPlace(conf, t, pc[e], hash[e], cipher[e], master[e], peercert)
      /\ e = "s" => ServerPlace(conf, t, pc[e], hash[e], cipher[e], master[e])
  BY <1>1, ShakingAt DEF IInv
<1>3. ~NoQueue(t)
  BY DEF NoQueue, HandReady
<1>4. ASSUME NEW m, Queue(t, <<m>>) PROVE HandFirst(t) = m
  <2>1. t \in TlsRecs(conf)
    BY <1>2
  <2> HIDE DEF t
  <2> QED  BY <1>4, <2>1, QueueOf
<1>5. ASSUME NEW s, s # <<>>, Rest(t, s) PROVE HandFirst(t) = Head(s)
  <2>1. t \in TlsRecs(conf) /\ HandReady(t)
    BY <1>2
  <2> HIDE DEF t
  <2> QED  BY <1>5, <2>1, RestOf
<1>6. ASSUME NEW b, Queue(t, b) PROVE HandFirst(t) = Head(b)
  <2>1. t \in TlsRecs(conf) /\ HandReady(t)
    BY <1>2
  <2> HIDE DEF t
  <2> QED  BY <1>6, <2>1, RestOf
<1>7. /\ CHello(conf).tag # "HelloRequest" /\ CKey(conf).tag # "HelloRequest"
      /\ CFin(conf).tag # "HelloRequest" /\ SFin(conf).tag # "HelloRequest"
      /\ SHello(conf).tag # "HelloRequest" /\ Cert.tag # "HelloRequest" /\ Done.tag # "HelloRequest"
      /\ SKey(conf).tag # "HelloRequest"
  BY DEF CHello, CKey, CFin, SFin, SHello, Cert, Done, SKey
<1>8. CASE e = "s"
  <2>1. pc[e] \in {"clienthello", "clientkey", "clientfinished"}
    BY <1>2, <1>8 DEF Handshaking, Place, ClientShaking, ServerShaking
  <2>2. /\ pc[e] = "clienthello" => Queue(t, <<CHello(conf)>>)
        /\ pc[e] = "clientkey" => Queue(t, <<CKey(conf)>>)
        /\ pc[e] = "clientfinished" => Finishing(conf, "s", t, CFin(conf))
    BY <1>2, <1>3, <1>8 DEF ServerPlace
  <2>3. pc[e] = "clientfinished" => Queue(t, <<CFin(conf)>>)
    BY <1>3, <2>2 DEF Finishing
  <2> QED  BY <1>4, <1>7, <2>1, <2>2, <2>3
<1>9. CASE e = "c"
  <2>1. pc[e] \in {"serverhello", "certificate", "keyexchange", "hellodone", "serverfinished"}
    BY <1>2, <1>9 DEF Handshaking, Place, ClientShaking, ServerShaking
  <2>2. /\ pc[e] = "serverhello" => Queue(t, <<HRequest>>) \/ Queue(t, Flight(conf))
        /\ pc[e] = "certificate" => Rest(t, AtCert(conf))
        /\ pc[e] = "keyexchange" => Rest(t, AtKey(conf))
        /\ pc[e] = "hellodone" => Rest(t, AtDone)
        /\ pc[e] = "serverfinished" => Finishing(conf, "c", t, SFin(conf))
    BY <1>2, <1>3, <1>9 DEF ClientPlace
  <2>3. pc[e] # "serverfinished"
    BY <1>3, <1>4, <1>7, <2>2 DEF Finishing
  <2>4. ~Queue(t, Flight(conf))
    BY <1>6, <1>7, FlightOf
  <2>5. ~Rest(t, AtDone)
    BY <1>5, <1>7, FlightOf
  <2>6. ~Rest(t, AtKey(conf))
    <3>1. CASE Chosen(conf).kx = "ecdhe"
      BY <1>5, <1>7, <3>1, FlightOf
    <3>2. CASE Chosen(conf).kx # "ecdhe"
      BY <2>5, <3>2, FlightOf
    <3> QED  BY <3>1, <3>2
  <2>7. ~Rest(t, AtCert(conf))
    <3>1. CASE conf.cert # "none"
      <4>1. AtCert(conf) # <<>> /\ Head(AtCert(conf)) = Cert
        BY <3>1, FlightOf
      <4> QED  BY <1>5, <1>7, <4>1
    <3>2. CASE conf.cert = "none"
      BY <2>6, <3>2, FlightOf
    <3> QED  BY <3>1, <3>2
  <2> QED  BY <1>9, <2>1, <2>2, <2>3, <2>4, <2>5, <2>6, <2>7
<1> QED  BY <1>8, <1>9, EndsOf

\* A HelloRequest is skipped.
LEMMA SkipRequestStep ==
  ASSUME IInv, NEW e \in Ends, SkipRequest(e)
  PROVE  IInv'
<1> DEFINE t == tr[e]
           u == HandRest(t)
<1>1. /\ e = "c" /\ pc[e] = "serverhello" /\ Queue(t, <<HRequest>>)
  BY RequestAt DEF SkipRequest, Message
<1>2. pc[e] \in Shaking \ {"opened"}
  BY <1>1 DEF Shaking, ClientShaking
<1>3. /\ TypeOK /\ conf \in Confs /\ t \in TlsRecs(conf) /\ t.state = "SHandshake" /\ t.hand
      /\ cipher[e] \in {NoCipher, Chosen(conf)}
      /\ master[e] \in {None, MasterOf(conf, "c"), MasterOf(conf, "s")} /\ peercert \in BOOLEAN
      /\ EndPlace(conf, e, t, "serverhello", cipher[e], master[e])
      /\ ClientPlace(conf, t, "serverhello", hash[e], cipher[e], master[e], peercert)
  BY <1>1, <1>2, ShakingAt
<1>4. /\ u \in TlsRecs(conf) /\ NoQueue(u) /\ u.state = "SHandshake" /\ u.hand
      /\ SameSetup(t, u) /\ SameReading(t, u) /\ SameWriting(t, u)
  BY <1>1, <1>3, QueueOf
<1>5. /\ Put(e, u) /\ pc' = pc /\ wire' = wire /\ refused' = refused
      /\ cipher' = cipher /\ master' = master /\ hash' = hash /\ peercert' = peercert
      /\ UNCHANGED <<conf, requested, ioVars, eof, broken>>
  BY DEF SkipRequest, hsVars, netVars
<1>6. tr'[e] = u /\ tr' = [tr EXCEPT ![e] = tr'[e]]
  BY <1>3, <1>5, PutOf
<1>7. Turns(e)
  BY <1>3, <1>5, <1>6, PutOf DEF Turns
<1>8. /\ u.insec = NoSec /\ u.outsec = NoSec /\ t.insec = NoSec /\ t.outsec = NoSec /\ NoKeys(u)
      /\ u.verset = t.verset /\ u.version = t.version /\ u.opened = t.opened
  BY <1>3, <1>4 DEF ClientPlace, NoKeys, SameSetup, SameReading, SameWriting
<1>9. Place(e)'
  <2>1. EndPlace(conf, e, u, "serverhello", cipher[e], master[e])
    BY <1>3, <1>4, <1>8 DEF EndPlace, NoQueue, NoKeys
  <2>2. ClientPlace(conf, u, "serverhello", hash[e], cipher[e], master[e], peercert)
    BY <1>3, <1>4, <1>8 DEF ClientPlace
  <2>3. "serverhello" \notin ServerShaking
    BY DEF ServerShaking
  <2> HIDE DEF u
  <2> QED  BY <1>1, <1>5, <1>6, <2>1, <2>2, <2>3 DEF Place
<1>10. /\ Taken(conf, e, u, "serverhello") = 0 /\ Taken(conf, e, t, "serverhello") = 0
       /\ Made(e, u, "serverhello") = Made(e, t, "serverhello")
  <2>1. u.handq # <<Flight(conf)>> /\ t.handq # <<Flight(conf)>>
    <3>1. \A a, b : <<a>> = <<b>> => a = b
      OBVIOUS
    <3> QED  BY <1>1, <1>4, <3>1, FlightOf DEF NoQueue, Queue
  <2> QED  BY <1>1, <1>8, <2>1 DEF Taken, Made
<1> HIDE DEF u
<1> QED  BY <1>1, <1>2, <1>3, <1>4, <1>5, <1>6, <1>7, <1>8, <1>9, <1>10, TurnStep

\* An end opens the connection: it has ciphers in both directions.
LEMMA OpenStep ==
  ASSUME IInv, NEW e \in Ends, Open(e)
  PROVE  IInv'
<1> DEFINE t == tr[e]
           u == Opened(t)
<1>1. pc[e] = "opening"
  BY DEF Open
<1>2. /\ "opening" \in Shaking \ {"opened"} /\ "opened" \in Shaking
      /\ "opened" \notin ServerShaking \ ClientShaking
      /\ "opened" \notin (ClientShaking \ ServerShaking) \union {"nofinished"}
  BY DEF Shaking, ClientShaking, ServerShaking
<1>3. /\ TypeOK /\ conf \in Confs /\ t \in TlsRecs(conf) /\ t.state = "SHandshake" /\ t.hand
      /\ cipher[e] \in {NoCipher, Chosen(conf)}
      /\ master[e] \in {None, MasterOf(conf, "c"), MasterOf(conf, "s")} /\ peercert \in BOOLEAN
      /\ EndPlace(conf, e, t, "opening", cipher[e], master[e])
      /\ e = "c" => ClientPlace(conf, t, "opening", hash[e], cipher[e], master[e], peercert)
      /\ e = "s" => /\ ServerPlace(conf, t, "opening", hash[e], cipher[e], master[e])
                    /\ t.version = conf.svers
  BY <1>1, <1>2, ShakingAt
<1>4. /\ Reads(conf, e, t) /\ t.outsec = SendKey(conf, e) /\ t.outseq >= 1 /\ NoQueue(t)
  BY <1>3 DEF EndPlace
<1>5. t.insec # NoSec /\ t.outsec # NoSec
  BY <1>4, KeysOf DEF Reads
<1>6. /\ Put(e, u) /\ Goto(e, "opened") /\ wire' = wire /\ refused' = refused
      /\ cipher' = cipher /\ master' = master /\ hash' = hash /\ peercert' = peercert /\ conf' = conf
      /\ UNCHANGED <<conf, requested, ioVars, eof, broken>>
  BY <1>3, <1>5 DEF Open, MayOpen, hsVars, netVars
<1>7. tr'[e] = u /\ tr' = [tr EXCEPT ![e] = tr'[e]] /\ pc'[e] = "opened" /\ pc' = [pc EXCEPT ![e] = pc'[e]]
  BY <1>3, <1>6, PutOf
<1>8. Turns(e)
  BY <1>3, <1>6, <1>7, PutOf DEF Turns
<1>9. /\ u \in TlsRecs(conf) /\ u.state = "SOpen" /\ u.opened /\ u.version = t.version /\ u.verset = t.verset
      /\ u.insec = t.insec /\ u.inseq = t.inseq /\ u.outsec = t.outsec /\ u.outseq = t.outseq
      /\ Reads(conf, e, u) /\ NoQueue(u) /\ u.hand
  BY <1>3, <1>4, OpenedOf DEF Reads, NoQueue, SameReading, SameWriting, SameHand
<1>10. Place(e)'
  <2>1. EndPlace(conf, e, u, "opened", cipher[e], master[e])
    BY <1>2, <1>3, <1>4, <1>5, <1>9 DEF EndPlace, Reads
  <2>2. e = "c" => ClientPlace(conf, u, "opened", hash[e], cipher[e], master[e], peercert)
    BY <1>3, <1>9 DEF ClientPlace
  <2>3. e = "s" => ServerPlace(conf, u, "opened", hash[e], cipher[e], master[e])
    BY <1>3, <1>9 DEF ServerPlace
  <2> HIDE DEF u
  <2> QED  BY <1>2, <1>3, <1>6, <1>7, <1>9, <2>1, <2>2, <2>3 DEF Place
<1>11. Taken(conf, e, u, "opened") = Taken(conf, e, t, "opening") /\ Made(e, u, "opened") = Made(e, t, "opening")
  BY <1>5, <1>9 DEF Taken, Made
<1> HIDE DEF u
<1> QED  BY <1>1, <1>2, <1>3, <1>6, <1>7, <1>8, <1>9, <1>10, <1>11, TurnStep

\* The handshake is done, and its file is closed.
LEMMA HandDoneStep ==
  ASSUME IInv, NEW e \in Ends, HandDone(e)
  PROVE  IInv'
<1> DEFINE t == tr[e]
           u == CloseHand(t)
<1>1. pc[e] = "opened" /\ "opened" \in Shaking /\ "open" \notin Shaking
  BY DEF HandDone, Shaking, ClientShaking, ServerShaking
<1>2. TypeOK /\ Place(e)
  BY DEF IInv
<1>3. /\ t \in TlsRecs(conf) /\ peercert \in BOOLEAN
      /\ cipher[e] \in {NoCipher, Chosen(conf)}
      /\ master[e] \in {None, MasterOf(conf, "c"), MasterOf(conf, "s")}
      /\ EndPlace(conf, e, t, "opened", cipher[e], master[e])
      /\ e = "c" => ClientPlace(conf, t, "opened", hash[e], cipher[e], master[e], peercert)
      /\ e = "s" => /\ ServerPlace(conf, t, "opened", hash[e], cipher[e], master[e])
                    /\ t.version = conf.svers
  BY <1>1, <1>2 DEF Place, TypeOK
<1>4. /\ Reads(conf, e, t) /\ t.outsec = SendKey(conf, e) /\ t.outseq >= 1 /\ t.opened
  BY <1>3 DEF EndPlace
<1>5. t.insec # NoSec /\ t.outsec # NoSec
  BY <1>4, KeysOf DEF Reads
<1>6. /\ Put(e, u) /\ Goto(e, "open") /\ wire' = wire /\ refused' = refused
      /\ cipher' = cipher /\ master' = master /\ hash' = hash /\ peercert' = peercert /\ conf' = conf
      /\ UNCHANGED <<conf, requested, ioVars, eof, broken>>
  BY DEF HandDone, hsVars, netVars
<1>7. tr'[e] = u /\ tr' = [tr EXCEPT ![e] = tr'[e]] /\ pc'[e] = "open" /\ pc' = [pc EXCEPT ![e] = pc'[e]]
  BY <1>2, <1>6, PutOf
<1>8. Turns(e)
  BY <1>2, <1>6, <1>7, PutOf DEF Turns
<1>9. /\ u \in TlsRecs(conf) /\ u.state = t.state /\ u.opened /\ u.version = t.version /\ u.verset = t.verset
      /\ u.insec = t.insec /\ u.inseq = t.inseq /\ u.outsec = t.outsec /\ u.outseq = t.outseq
      /\ Reads(conf, e, u) /\ ~u.hand
  BY <1>3, <1>4, CloseHandOf DEF Reads, SameSetup, SameReading, SameWriting
<1>10. Place(e)'
  <2>1. EndPlace(conf, e, u, "open", cipher[e], master[e])
    BY <1>1, <1>3, <1>4, <1>5, <1>9 DEF EndPlace, Reads
  <2>2. e = "c" => ClientPlace(conf, u, "open", hash[e], cipher[e], master[e], peercert)
    BY <1>3, <1>9 DEF ClientPlace
  <2>3. e = "s" => ServerPlace(conf, u, "open", hash[e], cipher[e], master[e])
    BY <1>3, <1>9 DEF ServerPlace
  <2> HIDE DEF u
  <2> QED  BY <1>1, <1>3, <1>6, <1>7, <1>9, <2>1, <2>2, <2>3 DEF Place, Shaking
<1>11. Taken(conf, e, u, "open") = Taken(conf, e, t, "opened") /\ Made(e, u, "open") = Made(e, t, "opened")
  BY <1>5, <1>9 DEF Taken, Made
<1> HIDE DEF u
<1> QED  BY <1>1, <1>2, <1>3, <1>6, <1>7, <1>8, <1>9, <1>10, <1>11, TurnStep

\* Where an end may wait for record n + 1 of the script
FinishedAt(e) == IF e = "c" THEN "serverfinished" ELSE "clientfinished"
Waits(e, t, l, n) ==
  \/ n = 0 /\ l = (IF e = "c" THEN "serverhello" ELSE "clienthello") /\ NoKeys(t) /\ ~t.verset
  \/ n = 1 /\ e = "s" /\ l = "clientkey" /\ NoKeys(t) /\ t.version = conf.svers
  \/ n = Turn(e) - 1 /\ l = FinishedAt(e) /\ Awaits(conf, e, t) /\ t.version = conf.svers
  \/ /\ n = Turn(e) /\ l = FinishedAt(e) /\ t.insec = ReadKey(conf, e) /\ t.inseq = 0
     /\ t.version = conf.svers

\* An end that is about to read a record waits for the next of the script: the
\* queue of its handshake is empty, and its place says which it can be.
LEMMA WaitsAt ==
  ASSUME IInv, NEW e \in Ends, pc[e] \in Handshaking, ~HandReady(tr[e])
  PROVE  NoQueue(tr[e]) /\ Waits(e, tr[e], pc[e], Taken(conf, e, tr[e], pc[e]))
<1> DEFINE t == tr[e]
<1>1. pc[e] \in Shaking \ {"opened"}
  BY DEF Handshaking, Shaking, ClientShaking, ServerShaking
<1>2. /\ Place(e) /\ t \in TlsRecs(conf)
      /\ e = "c" => ClientPlace(conf, t, pc[e], hash[e], cipher[e], master[e], peercert)
      /\ e = "s" => ServerPlace(conf, t, pc[e], hash[e], cipher[e], master[e]) /\ t.version = conf.svers
  BY <1>1, ShakingAt DEF IInv
<1>3. NoQueue(t)
  BY DEF NoQueue, HandReady
<1>4. \A b : ~Queue(t, b)
  BY <1>3 DEF NoQueue, Queue
<1>5. \A s : s # <<>> => ~Rest(t, s)
  BY <1>3 DEF NoQueue, Rest
<1>6. ReadKey(conf, e) # NoSec
  BY KeysOf
<1>7. \A m : Finishing(conf, e, t, m) => Awaits(conf, e, t) \/ (t.insec = ReadKey(conf, e) /\ t.inseq = 0)
  BY <1>4 DEF Finishing
<1>8. CASE e = "c"
  <2>1. pc[e] \in {"serverhello", "certificate", "keyexchange", "hellodone", "serverfinished"}
    BY <1>2, <1>8 DEF Handshaking, Place, ClientShaking, ServerShaking
  <2>2. /\ pc[e] # "certificate" /\ pc[e] # "keyexchange" /\ pc[e] # "hellodone"
        /\ pc[e] = "serverhello" => NoKeys(t) /\ ~t.verset
        /\ pc[e] = "serverfinished" => Finishing(conf, e, t, SFin(conf)) /\ t.version = conf.svers
    BY <1>2, <1>5, <1>8, FlightOf DEF ClientPlace
  <2>3. CASE pc[e] = "serverhello"
    <3>1. t.handq # <<Flight(conf)>> /\ t.insec = NoSec
      BY <1>3, <2>2, <2>3 DEF NoQueue, NoKeys
    <3>2. Taken(conf, e, t, pc[e]) = 0
      BY <1>8, <2>3, <3>1 DEF Taken
    <3> QED  BY <1>3, <1>8, <2>2, <2>3, <3>2 DEF Waits
  <2>4. CASE pc[e] = "serverfinished"
    <3>1. CASE Awaits(conf, e, t)
      <4>1. Taken(conf, e, t, pc[e]) = 1
        BY <1>8, <2>4, <3>1 DEF Taken, Awaits
      <4> QED  BY <1>3, <1>8, <2>2, <2>4, <3>1, <4>1, EndsOf DEF Waits, FinishedAt
    <3>2. CASE t.insec = ReadKey(conf, e) /\ t.inseq = 0
      <4>1. Taken(conf, e, t, pc[e]) = Turn(e)
        BY <1>6, <1>8, <3>2, EndsOf DEF Taken
      <4> QED  BY <1>3, <1>8, <2>2, <2>4, <3>2, <4>1, EndsOf DEF Waits, FinishedAt
    <3> QED  BY <1>7, <2>2, <2>4, <3>1, <3>2
  <2> QED  BY <2>1, <2>2, <2>3, <2>4
<1>9. CASE e = "s"
  <2>1. pc[e] \in {"clienthello", "clientkey", "clientfinished"}
    BY <1>2, <1>9 DEF Handshaking, Place, ClientShaking, ServerShaking
  <2>2. /\ pc[e] = "clienthello" => NoKeys(t) /\ ~t.verset
        /\ pc[e] = "clientkey" => NoKeys(t)
        /\ pc[e] = "clientfinished" => Finishing(conf, e, t, CFin(conf))
    BY <1>2, <1>9 DEF ServerPlace
  <2>3. CASE pc[e] = "clienthello"
    <3>1. Taken(conf, e, t, pc[e]) = 0
      BY <1>3, <1>9, <2>2, <2>3 DEF Taken, NoQueue, NoKeys
    <3> QED  BY <1>3, <1>9, <2>2, <2>3, <3>1 DEF Waits
  <2>4. CASE pc[e] = "clientkey"
    <3>1. Taken(conf, e, t, pc[e]) = 1
      BY <1>3, <1>9, <2>2, <2>4 DEF Taken, NoQueue, NoKeys
    <3> QED  BY <1>2, <1>3, <1>9, <2>2, <2>4, <3>1 DEF Waits
  <2>5. CASE pc[e] = "clientfinished"
    <3>1. CASE Awaits(conf, e, t)
      <4>1. Taken(conf, e, t, pc[e]) = 2
        BY <1>9, <2>5, <3>1 DEF Taken, Awaits
      <4> QED  BY <1>2, <1>3, <1>9, <2>2, <2>5, <3>1, <4>1, EndsOf DEF Waits, FinishedAt
    <3>2. CASE t.insec = ReadKey(conf, e) /\ t.inseq = 0
      <4>1. Taken(conf, e, t, pc[e]) = Turn(e)
        BY <1>6, <1>9, <3>2, EndsOf DEF Taken
      <4> QED  BY <1>2, <1>3, <1>9, <2>2, <2>5, <3>2, <4>1, EndsOf DEF Waits, FinishedAt
    <3> QED  BY <1>7, <2>2, <2>5, <3>1, <3>2
  <2> QED  BY <2>1, <2>3, <2>4, <2>5
<1> QED  BY <1>8, <1>9, EndsOf

\* The record that comes is the next of the script, or the one HelloRequest,
\* and is refused only where the preshared keys differ.
LEMMA RecordAt ==
  ASSUME IInv, NEW e \in Ends, pc[e] \in Handshaking, ~HandReady(tr[e]), wire[e] # <<>>
  PROVE  LET t == tr[e] r == wire[e][1] n == Taken(conf, e, t, pc[e]) IN
         /\ r \in Recs(conf) /\ n \in Nat
         /\ Refused(t, r) => /\ Refusal(t, r) = "mac" /\ conf.cpsk # conf.spsk
                             /\ n = Turn(e) /\ ~Asked(wire[e])
         /\ ~Refused(t, r) =>
              \/ Fatal(r)
              \/ Asked(wire[e]) /\ n = 0 /\ e = "c" /\ r.type = "hand" /\ r.body = <<HRequest>>
              \/ ~Asked(wire[e]) /\ n = Turn(e) - 1 /\ r.type = "ccs"
              \/ /\ ~Asked(wire[e]) /\ n <= Turn(e) /\ n # Turn(e) - 1
                 /\ r.type = "hand" /\ r.body = Said(conf, e, n + 1)
                 /\ e = "c" => Common(conf) # {}
                 /\ n = Turn(e) => conf.cpsk = conf.spsk
<1> DEFINE t == tr[e]
           w == wire[e]
           r == w[1]
           n == Taken(conf, e, t, pc[e])
<1>1. TypeOK /\ Link(e) /\ Waits(e, t, pc[e], n)
  BY WaitsAt DEF IInv
<1>2. w \in Seq(Recs(conf)) /\ n \in Nat /\ r \in Recs(conf) /\ t \in TlsRecs(conf)
  BY <1>1, TypesOf, ListOf
<1>3. Alive(e)
  BY DEF Alive, Handshaking, Shaking, ClientShaking, ServerShaking
<1>4. Stream(conf, e, n, w)
  BY <1>1, <1>3 DEF Link
<1>5. ReadKey(conf, e) # NoSec /\ (SendKey(conf, Other(e)) = ReadKey(conf, e) <=> conf.cpsk = conf.spsk)
  BY KeysOf
<1>6. CASE Asked(w)
  <2>1. e = "c" /\ n = 0 /\ r.type = "hand" /\ r.body = <<HRequest>> /\ r.sec = NoSec
    BY <1>4, <1>6 DEF Asked, Stream
  <2>2. NoKeys(t) /\ ~t.verset
    BY <1>1, <2>1, EndsOf DEF Waits
  <2>3. ~Refused(t, r)
    BY <2>1, <2>2 DEF Refused, WrongVersion, BadMac, Unexpected, NoKeys
  <2> QED  BY <1>2, <1>6, <2>1, <2>3
<1>7. CASE ~Asked(w)
  <2>1. Script(conf, e, n + 1, r)
    BY <1>2, <1>4, <1>7, StreamTail
  <2>2. n <= Turn(e) /\ Turn(e) \in {2, 3}
    BY <1>1, EndsOf DEF Waits
  <2>3. /\ r.sec = IF n = Turn(e) THEN SendKey(conf, Other(e)) ELSE NoSec
        /\ n = Turn(e) => r.seq = 0
    <3>1. CASE n = Turn(e)
      <4>1. ~(n + 1 <= Turn(e)) /\ n + 1 - Turn(e) - 1 = 0
        BY <1>2, <2>2, <3>1
      <4> HIDE DEF n, r
      <4> QED  BY <1>2, <2>1, <2>2, <3>1, <4>1 DEF Script
    <3>2. CASE n # Turn(e)
      <4>1. n + 1 <= Turn(e)
        BY <1>2, <2>2, <3>2
      <4> HIDE DEF n, r
      <4> QED  BY <2>1, <3>2, <4>1 DEF Script
    <3> QED  BY <3>1, <3>2
  <2>4. r.ver = IF e = "s" /\ n = 0 THEN ProtocolVersion ELSE conf.svers
    <3>1. n + 1 = 1 <=> n = 0
      BY <1>2
    <3> HIDE DEF n, r
    <3> QED  BY <2>1, <3>1 DEF Script
  <2>5. \/ Fatal(r)
        \/ n = Turn(e) - 1 /\ r.type = "ccs"
        \/ /\ n <= Turn(e) /\ n # Turn(e) - 1
           /\ r.type = "hand" /\ r.body = Said(conf, e, n + 1)
           /\ e = "c" => Common(conf) # {}
    <3>1. /\ ~(n + 1 > Turn(e) + 1) /\ (n + 1 = Turn(e) <=> n = Turn(e) - 1)
      BY <1>2, <2>2
    <3> HIDE DEF n, r
    <3> QED  BY <2>1, <2>2, <3>1 DEF Script
  <2>6. ~WrongVersion(t, r)
    <3>1. t.verset => t.version = conf.svers /\ n # 0
      BY <1>1, EndsOf DEF Waits
    <3> HIDE DEF n, r, t
    <3> QED  BY <2>4, <3>1 DEF WrongVersion
  <2>7. r.type # "data" /\ (r.type = "ccs" => n = Turn(e) - 1)
    BY <2>5 DEF Fatal
  <2>8. CASE n = Turn(e)
    <3>1. t.insec = ReadKey(conf, e) /\ t.inseq = 0
      BY <1>1, <2>8, EndsOf DEF Waits
    <3>2. ~(n = Turn(e) - 1)
      BY <1>2, <2>2, <2>8
    <3>3. ~Unexpected(t, r)
      BY <2>7, <3>2 DEF Unexpected
    <3>4. BadMac(t, r) <=> conf.cpsk # conf.spsk
      <4> HIDE DEF n, r, t
      <4> QED  BY <1>5, <2>3, <2>8, <3>1 DEF BadMac
    <3>5. Refused(t, r) => Refusal(t, r) = "mac"
      BY <2>6, <3>3 DEF Refused, Refusal
    <3> QED  BY <1>2, <1>7, <2>5, <2>6, <2>8, <3>3, <3>4, <3>5 DEF Refused
  <2>9. CASE n # Turn(e)
    <3>1. t.insec = NoSec
      BY <1>1, <2>9 DEF Waits, NoKeys, Awaits
    <3>2. ~BadMac(t, r)
      <4> HIDE DEF n, r, t
      <4> QED  BY <2>3, <2>9, <3>1 DEF BadMac
    <3>3. n = Turn(e) - 1 => t.innew # NoSec
      BY <1>1, <1>5, EndsOf DEF Waits, Awaits
    <3>4. ~Refused(t, r)
      <4> HIDE DEF n, r, t
      <4> QED  BY <2>6, <2>7, <3>2, <3>3 DEF Refused, Unexpected
    <3> QED  BY <1>2, <1>7, <2>5, <2>9, <3>4
  <2> QED  BY <2>8, <2>9
<1> QED  BY <1>6, <1>7

\* The record that is read leaves the end where it is, with one more taken.
LEMMA ReadPlace ==
  ASSUME IInv, NEW e \in Ends, pc[e] \in Handshaking, ~HandReady(tr[e]), wire[e] # <<>>,
         ~Refused(tr[e], wire[e][1]), ~Fatal(wire[e][1])
  PROVE  LET t == tr[e] u == Accepted(tr[e], wire[e][1]) l == pc[e] IN
         /\ EndPlace(conf, e, u, l, cipher[e], master[e])
         /\ e = "c" => ClientPlace(conf, u, l, hash[e], cipher[e], master[e], peercert)
         /\ e = "s" => ServerPlace(conf, u, l, hash[e], cipher[e], master[e])
         /\ Taken(conf, e, u, l) = Taken(conf, e, t, l) + (IF Asked(wire[e]) THEN 0 ELSE 1)
         /\ u \in TlsRecs(conf) /\ u.version = t.version /\ SameWriting(t, u)
         /\ u.insec # NoSec => t.insec # NoSec \/ wire[e][1].type = "ccs"
         /\ wire[e][1].type \in {"ccs", "hand"}
<1> DEFINE t == tr[e]
           r == wire[e][1]
           u == Accepted(t, r)
           l == pc[e]
           n == Taken(conf, e, t, l)
<1>1. /\ l \in Shaking \ {"opened"} /\ l \notin {"opening", "opened", "open", "nofinished", "err"}
  BY DEF Handshaking, Shaking, ClientShaking, ServerShaking
<1>2. /\ t \in TlsRecs(conf) /\ t.state = "SHandshake" /\ t.hand
      /\ EndPlace(conf, e, t, l, cipher[e], master[e])
      /\ e = "c" => ClientPlace(conf, t, l, hash[e], cipher[e], master[e], peercert)
      /\ e = "s" => ServerPlace(conf, t, l, hash[e], cipher[e], master[e]) /\ t.version = conf.svers
      /\ Place(e)
  BY <1>1, ShakingAt DEF IInv
<1>3. NoQueue(t) /\ Waits(e, t, l, n)
  BY WaitsAt
<1>4. /\ r \in Recs(conf) /\ n \in Nat
      /\ \/ Asked(wire[e]) /\ n = 0 /\ e = "c" /\ r.type = "hand" /\ r.body = <<HRequest>>
         \/ ~Asked(wire[e]) /\ n = Turn(e) - 1 /\ r.type = "ccs"
         \/ /\ ~Asked(wire[e]) /\ n <= Turn(e) /\ n # Turn(e) - 1
            /\ r.type = "hand" /\ r.body = Said(conf, e, n + 1)
            /\ e = "c" => Common(conf) # {}
            /\ n = Turn(e) => conf.cpsk = conf.spsk
  BY RecordAt
<1>5. t.handq = <<>> /\ t.hprocessed = <<>>
  BY <1>3 DEF NoQueue
<1>6. /\ u \in TlsRecs(conf) /\ SameSetup(t, u) /\ SameWriting(t, u)
      /\ u.hand /\ u.hprocessed = <<>>
      /\ r.type = "ccs" =>
           u.insec = t.innew /\ u.innew = NoSec /\ u.inseq = 0 /\ u.state = t.state /\ u.handq = <<>>
      /\ r.type = "hand" =>
           /\ u.insec = t.insec /\ u.innew = t.innew
           /\ u.inseq = IF t.insec = NoSec THEN t.inseq ELSE t.inseq + 1
           /\ u.state = t.state /\ u.handq = <<r.body>>
  <2>1. t.hand => t.handq = <<>>
    BY <1>5
  <2>2. /\ u \in TlsRecs(conf)
        /\ SameSetup(t, u) /\ SameWriting(t, u)
        /\ u.hand = t.hand /\ u.hprocessed = t.hprocessed
        /\ r.type = "ccs" =>
             /\ u.insec = t.innew /\ u.innew = NoSec
             /\ u.inseq = 0
             /\ u.state = t.state /\ u.handq = t.handq
        /\ r.type # "ccs" =>
             /\ u.insec = t.insec /\ u.innew = t.innew
             /\ u.inseq = IF t.insec = NoSec THEN t.inseq ELSE t.inseq + 1
             /\ u.state = IF Fatal(r) THEN "SError" ELSE t.state
             /\ u.handq = IF r.type = "hand" /\ t.hand THEN <<r.body>> ELSE t.handq
    <3> HIDE DEF t, r
    <3> QED  BY <1>2, <1>4, <2>1, AcceptedOf
  <2> QED  BY <1>2, <1>5, <2>2
<1>7. ReadKey(conf, e) # NoSec
  BY KeysOf
<1>8. /\ u.state = "SHandshake" /\ u.version = t.version /\ u.verset = t.verset /\ u.opened = t.opened
      /\ u.outsec = t.outsec /\ u.outnew = t.outnew /\ u.outseq = t.outseq
      /\ r.type \in {"ccs", "hand"}
  BY <1>2, <1>4, <1>6 DEF SameSetup, SameWriting
<1>9. t.opened => u.insec # NoSec
  <2>1. t.opened => t.insec # NoSec
    BY <1>2 DEF EndPlace
  <2>2. r.type = "ccs" => t.insec = NoSec
    <3>1. r.type = "ccs" => n = Turn(e) - 1
      BY <1>4
    <3>2. n = Turn(e) - 1 => t.insec = NoSec
      BY <1>3, EndsOf DEF Waits, Awaits, NoKeys
    <3> QED  BY <3>1, <3>2
  <2> QED  BY <1>6, <1>8, <2>1, <2>2
<1>10. EndPlace(conf, e, u, l, cipher[e], master[e])
  <2> HIDE DEF u
  <2> QED  BY <1>1, <1>2, <1>6, <1>8, <1>9 DEF EndPlace
<1>11. u.insec # NoSec => t.insec # NoSec \/ r.type = "ccs"
  BY <1>6, <1>8
<1>12. CASE n = Turn(e) - 1
  <2>1. /\ r.type = "ccs" /\ ~Asked(wire[e])
    BY <1>3, <1>4, <1>12, EndsOf
  <2>2. l = FinishedAt(e) /\ Awaits(conf, e, t)
    BY <1>3, <1>12, EndsOf DEF Waits
  <2>3. /\ u.insec = ReadKey(conf, e) /\ u.inseq = 0 /\ NoQueue(u)
    BY <1>6, <2>1, <2>2 DEF Awaits, NoQueue
  <2>4. \A m : Finishing(conf, e, u, m)
    <3> HIDE DEF u
    <3> QED  BY <2>3 DEF Finishing
  <2>5. Taken(conf, e, u, l) = n + 1
    <3>1. Turn(e) + 0 = (Turn(e) - 1) + 1
      BY EndsOf
    <3> HIDE DEF u, l
    <3> QED  BY <1>7, <1>12, <2>3, <3>1 DEF Taken
  <2>6. e = "c" => ClientPlace(conf, u, l, hash[e], cipher[e], master[e], peercert)
    <3> HIDE DEF u
    <3> QED  BY <1>2, <1>8, <2>2, <2>4 DEF ClientPlace, FinishedAt
  <2>7. e = "s" => ServerPlace(conf, u, l, hash[e], cipher[e], master[e])
    <3> HIDE DEF u
    <3> QED  BY <1>2, <1>8, <2>2, <2>4 DEF ServerPlace, FinishedAt
  <2> HIDE DEF u, l, n
  <2> QED  BY <1>6, <1>8, <1>10, <1>11, <2>1, <2>5, <2>6, <2>7 DEF u, l, n
<1>13. CASE n = Turn(e)
  <2>1. /\ r.type = "hand" /\ r.body = Said(conf, e, n + 1) /\ conf.cpsk = conf.spsk /\ ~Asked(wire[e])
    BY <1>4, <1>13, EndsOf
  <2>2. l = FinishedAt(e) /\ t.insec = ReadKey(conf, e) /\ t.inseq = 0
    BY <1>3, <1>13, EndsOf DEF Waits
  <2>3. /\ u.insec = ReadKey(conf, e) /\ u.inseq = 1 /\ u.handq = <<r.body>> /\ Reads(conf, e, u)
    BY <1>6, <1>7, <2>1, <2>2 DEF Reads
  <2>4. r.body = IF e = "c" THEN <<SFin(conf)>> ELSE <<CFin(conf)>>
    BY <1>13, <2>1, EndsOf DEF Said
  <2>5. Finishing(conf, e, u, IF e = "c" THEN SFin(conf) ELSE CFin(conf))
    <3>1. u.handq = <<<<IF e = "c" THEN SFin(conf) ELSE CFin(conf)>>>>
      BY <2>3, <2>4
    <3> HIDE DEF u
    <3> QED  BY <1>6, <2>3, <3>1 DEF Finishing, Queue
  <2>6. Taken(conf, e, u, l) = n + 1
    <3> HIDE DEF u, l
    <3> QED  BY <1>7, <1>13, <2>3 DEF Taken
  <2>7. e = "c" => ClientPlace(conf, u, l, hash[e], cipher[e], master[e], peercert)
    <3> HIDE DEF u
    <3> QED  BY <1>2, <1>8, <2>2, <2>5 DEF ClientPlace, FinishedAt
  <2>8. e = "s" => ServerPlace(conf, u, l, hash[e], cipher[e], master[e])
    <3>1. "s" # "c"
      OBVIOUS
    <3> HIDE DEF u
    <3> QED  BY <1>2, <1>8, <2>2, <2>5, <3>1 DEF ServerPlace, FinishedAt
  <2> HIDE DEF u, l, n
  <2> QED  BY <1>6, <1>8, <1>10, <1>11, <2>1, <2>6, <2>7, <2>8 DEF u, l, n
<1>14. CASE n = 0
  <2>1. r.type = "hand"
    BY <1>4, <1>14, EndsOf
  <2>2. l = (IF e = "c" THEN "serverhello" ELSE "clienthello") /\ NoKeys(t) /\ ~t.verset
    BY <1>3, <1>14, EndsOf DEF Waits
  <2>3. NoKeys(u) /\ ~u.verset /\ Queue(u, r.body) /\ u.insec = NoSec
    BY <1>6, <1>8, <2>1, <2>2 DEF NoKeys, Queue
  <2>4. \/ Asked(wire[e]) /\ e = "c" /\ r.body = <<HRequest>>
        \/ ~Asked(wire[e]) /\ e = "c" /\ r.body = Flight(conf) /\ Common(conf) # {}
        \/ ~Asked(wire[e]) /\ e = "s" /\ r.body = <<CHello(conf)>>
    <3>1. n + 1 = 1
      BY <1>14
    <3> HIDE DEF n, r
    <3> QED  BY <1>4, <1>14, <2>1, <3>1, EndsOf DEF Said
  <2>5. Taken(conf, e, u, l) = IF Asked(wire[e]) THEN 0 ELSE 1
    <3>1. u.handq = <<r.body>> /\ <<r.body>> # <<>>
      BY <2>3 DEF Queue
    <3>2. <<Flight(conf)>> # <<<<HRequest>>>>
      <4>1. \A a, b : <<a>> = <<b>> => a = b
        OBVIOUS
      <4> QED  BY <4>1, FlightOf
    <3> HIDE DEF u, r
    <3> QED  BY <2>2, <2>3, <2>4, <3>1, <3>2 DEF Taken
  <2>6. e = "c" => ClientPlace(conf, u, l, hash[e], cipher[e], master[e], peercert)
    <3> HIDE DEF u, r
    <3> QED  BY <1>2, <1>8, <2>2, <2>3, <2>4 DEF ClientPlace
  <2>7. e = "s" => ServerPlace(conf, u, l, hash[e], cipher[e], master[e])
    <3> HIDE DEF u, r
    <3> QED  BY <1>2, <1>8, <2>2, <2>3, <2>4 DEF ServerPlace
  <2>8. Taken(conf, e, u, l) = n + (IF Asked(wire[e]) THEN 0 ELSE 1)
    <3> HIDE DEF u, l, n
    <3> QED  BY <1>14, <2>5
  <2> HIDE DEF u, l, n
  <2> QED  BY <1>6, <1>8, <1>10, <1>11, <2>6, <2>7, <2>8 DEF u, l, n
<1>15. CASE n = 1 /\ e = "s" /\ l = "clientkey"
  <2>1. r.type = "hand" /\ r.body = Said(conf, e, n + 1) /\ ~Asked(wire[e])
    BY <1>4, <1>15, EndsOf
  <2>2. NoKeys(t)
    BY <1>2, <1>15 DEF ServerPlace
  <2>3. NoKeys(u) /\ Queue(u, r.body) /\ u.insec = NoSec
    BY <1>6, <1>8, <2>1, <2>2 DEF NoKeys, Queue
  <2>4. r.body = <<CKey(conf)>>
    <3>1. n + 1 = 2
      BY <1>15
    <3> HIDE DEF n, r
    <3> QED  BY <1>15, <2>1, <3>1 DEF Said
  <2>5. Taken(conf, e, u, l) = 2
    <3>1. u.handq # <<>>
      BY <2>3 DEF Queue
    <3> HIDE DEF u
    <3> QED  BY <1>15, <2>3, <3>1 DEF Taken
  <2>6. ServerPlace(conf, u, l, hash[e], cipher[e], master[e])
    <3> HIDE DEF u, r
    <3> QED  BY <1>2, <1>8, <1>15, <2>3, <2>4 DEF ServerPlace
  <2>7. Taken(conf, e, u, l) = n + 1
    BY <1>15, <2>5
  <2>8. e # "c"
    BY <1>15
  <2> HIDE DEF u, l, n
  <2> QED  BY <1>6, <1>8, <1>10, <1>11, <2>1, <2>6, <2>7, <2>8 DEF u, l, n
<1> QED  BY <1>3, <1>12, <1>13, <1>14, <1>15 DEF Waits

\* Where an end gives up that waits for a record.
LEMMA FailsAt ==
  ASSUME IInv, NEW e \in Ends, pc[e] \in Handshaking
  PROVE  /\ pc[e] \in Shaking \ {"opened"}
         /\ ReadFailed(e) = "err" \/ (ReadFailed(e) = "nofinished" /\ e = "c")
         /\ pc[e] = FinishedAt(e) => Made(e, tr[e], pc[e]) # 0
         /\ tr[e] \in TlsRecs(conf) /\ conf \in Confs
         /\ e = "s" => tr[e].version = conf.svers
         /\ cipher[e] \in {NoCipher, Chosen(conf)}
         /\ master[e] \in {None, MasterOf(conf, "c"), MasterOf(conf, "s")} /\ peercert \in BOOLEAN
<1>1. pc[e] \in Shaking \ {"opened"}
  BY DEF Handshaking, Shaking, ClientShaking, ServerShaking
<1>2. /\ Place(e) /\ TypeOK
      /\ tr[e] \in TlsRecs(conf) /\ conf \in Confs
      /\ cipher[e] \in {NoCipher, Chosen(conf)}
      /\ master[e] \in {None, MasterOf(conf, "c"), MasterOf(conf, "s")} /\ peercert \in BOOLEAN
      /\ e = "s" => tr[e].version = conf.svers
  BY <1>1, ShakingAt DEF IInv
<1>3. ReadFailed(e) = "err" \/ (ReadFailed(e) = "nofinished" /\ e = "c")
  <2>1. e = "s" => pc[e] # "serverfinished"
    BY <1>2 DEF Place, ClientShaking, ServerShaking
  <2> QED  BY <2>1, EndsOf DEF ReadFailed
<1>4. ASSUME pc[e] = FinishedAt(e) PROVE Made(e, tr[e], pc[e]) # 0
  <2>1. CASE e = "c"
    <3>1. tr[e].outsec # NoSec
      BY <1>2, <1>4, <2>1, KeysOf DEF Place, ClientPlace, FinishedAt
    <3>2. tr[e].outseq \in Nat /\ Turn(Other(e)) \in {2, 3}
      BY <1>2, FieldsOf, EndsOf
    <3>3. \A a \in {2, 3}, b \in Nat : a + b # 0
      OBVIOUS
    <3>4. Made(e, tr[e], pc[e]) = Turn(Other(e)) + tr[e].outseq
      BY <3>1 DEF Made
    <3> QED  BY <3>2, <3>3, <3>4
  <2>2. CASE e = "s"
    <3>1. tr[e].outsec = NoSec
      BY <1>2, <1>4, <2>2 DEF Place, ServerPlace, FinishedAt
    <3> QED  BY <1>4, <2>2, <3>1 DEF Made, FinishedAt
  <2> QED  BY <2>1, <2>2, EndsOf
<1> QED  BY <1>1, <1>2, <1>3, <1>4

\* A record is read during the handshake.
LEMMA HandRecreadStep ==
  ASSUME IInv, NEW e \in Ends, HandRecread(e)
  PROVE  IInv'
<1> DEFINE f == Other(e)
           t == tr[e]
           r == wire[e][1]
           n == Taken(conf, e, t, pc[e])
           rest == [wire EXCEPT ![e] = Tail(@)]
<1>1. /\ pc[e] \in Handshaking /\ ~HandReady(t) /\ wire[e] # <<>>
  BY DEF HandRecread
<1>2. /\ pc[e] \in Shaking \ {"opened"}
      /\ ReadFailed(e) = "err" \/ (ReadFailed(e) = "nofinished" /\ e = "c")
      /\ pc[e] = FinishedAt(e) => Made(e, t, pc[e]) # 0
      /\ t \in TlsRecs(conf) /\ conf \in Confs
      /\ e = "s" => t.version = conf.svers
      /\ cipher[e] \in {NoCipher, Chosen(conf)}
      /\ master[e] \in {None, MasterOf(conf, "c"), MasterOf(conf, "s")} /\ peercert \in BOOLEAN
  BY <1>1, FailsAt
<1>3. /\ f \in Ends /\ f # e /\ Other(f) = e
  BY EndsOf
<1>4. TypeOK /\ Link(e) /\ Link(f) /\ InStep /\ Place(e)
  BY <1>3 DEF IInv
<1>5. /\ wire[e] \in Seq(Recs(conf)) /\ Head(wire[e]) = r /\ Tail(wire[e]) \in Seq(Recs(conf))
      /\ wire \in [Ends -> Seq(Recs(conf))]
  BY <1>1, <1>4, ListOf DEF TypeOK
<1>6. rest \in [Ends -> Seq(Recs(conf))] /\ rest[e] = Tail(wire[e]) /\ rest[f] = wire[f]
  BY <1>3, <1>5
<1>7. /\ cipher' = cipher /\ master' = master /\ hash' = hash /\ peercert' = peercert /\ conf' = conf
      /\ UNCHANGED <<conf, requested, ioVars, eof, broken>>
  BY DEF HandRecread, hsVars
<1>8. ASSUME tr' = [tr EXCEPT ![e] = tr'[e]], pc' = [pc EXCEPT ![e] = pc'[e]],
             refused' = [refused EXCEPT ![e] = refused'[e]]
      PROVE  Turns(e)
  BY <1>4, <1>7, <1>8, PutOf DEF Turns
<1>9. /\ Refused(t, r) => /\ Refusal(t, r) = "mac" /\ conf.cpsk # conf.spsk
                          /\ n = Turn(e) /\ ~Asked(wire[e])
      /\ r \in Recs(conf) /\ n \in Nat
  BY <1>1, RecordAt
<1>10. CASE Refused(t, r)
  <2> DEFINE a == Alerting(t)
             u == AfterSeal(a, "alert")
             v == TlsError(u)
             x == Sealed(a, "alert", "fatal")
  <2>1. /\ Put(e, v) /\ Goto(e, ReadFailed(e))
        /\ wire' = IF broken \/ eof[e] THEN rest ELSE [rest EXCEPT ![f] = Append(@, x)]
        /\ refused' = [refused EXCEPT ![e] = "mac"]
    BY <1>5, <1>9, <1>10 DEF HandRecread
  <2>2. /\ a \in TlsRecs(conf) /\ SameSetup(t, a) /\ SameReading(t, a) /\ SameWriting(t, a)
    BY <1>2, ErrorOf
  <2>3. u \in TlsRecs(conf) /\ SameSetup(a, u) /\ SameReading(a, u) /\ u.outsec = a.outsec
    BY <2>2, SealOf DEF SameSetup
  <2>4. /\ v \in TlsRecs(conf) /\ v.state = "SError"
        /\ SameSetup(u, v) /\ SameReading(u, v) /\ SameWriting(u, v)
    BY <2>3, ErrorOf
  <2>5. /\ v.insec = t.insec /\ v.outsec = t.outsec /\ v.opened = t.opened /\ v.version = t.version
        /\ a.version = t.version
    BY <2>2, <2>3, <2>4 DEF SameSetup, SameReading, SameWriting
  <2>6. tr'[e] = v /\ tr' = [tr EXCEPT ![e] = tr'[e]]
    BY <1>4, <2>1, PutOf
  <2>7. pc'[e] = ReadFailed(e) /\ pc' = [pc EXCEPT ![e] = pc'[e]]
    BY <1>4, <2>1, PutOf
  <2>8. refused'[e] = "mac" /\ refused' = [refused EXCEPT ![e] = refused'[e]]
    BY <1>4, <2>1, PutOf
  <2>9. x \in Recs(conf)
    BY <2>2, SealedOf
  <2>10. /\ wire' \in [Ends -> Seq(Recs(conf))] /\ wire'[e] = Tail(wire[e])
         /\ wire'[f] = IF broken \/ eof[e] THEN wire[f] ELSE Append(wire[f], x)
    <3>1. Append(wire[f], x) \in Seq(Recs(conf))
      BY <1>3, <1>5, <2>9
    <3> HIDE DEF x
    <3> QED  BY <1>3, <1>5, <1>6, <2>1, <3>1
  <2>11. pc[e] = FinishedAt(e) /\ t.version = conf.svers
    BY <1>1, <1>9, <1>10, WaitsAt, EndsOf DEF Waits
  <2>12. \E y \in TlsRecs(conf) :
           /\ SameWriting(t, y)
           /\ y.version = IF e = "c" /\ Made(e, t, pc[e]) = 0 THEN ProtocolVersion ELSE conf.svers
           /\ wire'[f] = IF broken \/ eof[e] THEN wire[f] ELSE Append(wire[f], Sealed(y, "alert", "fatal"))
    BY <1>2, <2>2, <2>5, <2>10, <2>11
  <2>13. Turns(e)
    BY <1>8, <2>6, <2>7, <2>8
  <2>14. refused'[e] \notin {"unexpected", "version", "finished"}
    BY <2>8
  <2>15. pc'[e] = "err" \/ (pc'[e] = "nofinished" /\ e = "c")
    BY <1>2, <2>7
  <2>16. /\ cipher'[e] = cipher[e] /\ master'[e] = master[e] /\ pc[e] \in Shaking
    BY <1>2, <1>7
  <2> HIDE DEF a, u, v, x
  <2> QED  BY <1>1, <1>2, <1>7, <1>9, <1>10, <2>4, <2>5, <2>6, <2>10, <2>12, <2>13, <2>14, <2>15, <2>16, Dies
<1>11. CASE ~Refused(t, r)
  <2> DEFINE u == Accepted(t, r)
  <2>1. /\ Put(e, u) /\ wire' = rest /\ refused' = refused
        /\ Goto(e, IF r.type = "alert" /\ r.body # "noreneg" THEN ReadFailed(e) ELSE pc[e])
    BY <1>5, <1>11 DEF HandRecread
  <2>2. tr'[e] = u /\ tr' = [tr EXCEPT ![e] = tr'[e]] /\ tr'[f] = tr[f]
    BY <1>4, <2>1, PutOf
  <2>3. /\ pc'[e] = (IF r.type = "alert" /\ r.body # "noreneg" THEN ReadFailed(e) ELSE pc[e])
        /\ pc' = [pc EXCEPT ![e] = pc'[e]] /\ pc'[f] = pc[f]
    BY <1>4, <2>1, PutOf
  <2>4. Turns(e)
    BY <1>4, <1>8, <2>1, <2>2, <2>3, PutOf
  <2>5. /\ refused'[e] \notin {"unexpected", "version", "finished"}
        /\ refused'[e] = "mac" => conf.cpsk # conf.spsk
    BY <1>4, <2>1 DEF InStep
  <2>6. wire' \in [Ends -> Seq(Recs(conf))] /\ wire'[e] = Tail(wire[e]) /\ wire'[f] = wire[f]
    BY <1>6, <2>1
  <2>7. /\ cipher'[e] = cipher[e] /\ master'[e] = master[e]
    BY <1>7
  <2>8. CASE Fatal(r)
    <3>1. pc'[e] = ReadFailed(e) /\ r.type # "ccs" /\ r.type # "hand"
      BY <2>3, <2>8 DEF Fatal
    <3>2. t.hand => t.handq = <<>>
      BY <1>1 DEF HandReady
    <3>3. /\ u \in TlsRecs(conf) /\ SameSetup(t, u) /\ SameWriting(t, u)
          /\ u.insec = t.insec /\ u.state = "SError"
      <4> HIDE DEF r, t
      <4> QED  BY <1>2, <1>9, <2>8, <3>1, <3>2, AcceptedOf
    <3>4. u.outsec = t.outsec /\ u.opened = t.opened /\ u.version = t.version
      BY <3>3 DEF SameSetup, SameWriting
    <3>5. pc'[e] = "err" \/ (pc'[e] = "nofinished" /\ e = "c")
      BY <1>2, <3>1
    <3> HIDE DEF u
    <3> QED  BY <1>1, <1>2, <1>7, <2>2, <2>4, <2>5, <2>6, <2>7, <3>3, <3>4, <3>5, Dies
  <2>9. CASE ~Fatal(r)
    <3>1. /\ EndPlace(conf, e, u, pc[e], cipher[e], master[e])
          /\ e = "c" => ClientPlace(conf, u, pc[e], hash[e], cipher[e], master[e], peercert)
          /\ e = "s" => ServerPlace(conf, u, pc[e], hash[e], cipher[e], master[e])
          /\ Taken(conf, e, u, pc[e]) = Taken(conf, e, t, pc[e]) + (IF Asked(wire[e]) THEN 0 ELSE 1)
          /\ u \in TlsRecs(conf) /\ u.version = t.version /\ SameWriting(t, u)
          /\ u.insec # NoSec => t.insec # NoSec \/ r.type = "ccs"
          /\ r.type \in {"ccs", "hand"}
      BY <1>1, <1>11, <2>9, ReadPlace
    <3>2. pc'[e] = pc[e] /\ pc' = pc
      BY <1>4, <2>3, <3>1, PutOf
    <3>3. /\ rd' = rd /\ got' = got /\ sent' = sent /\ outio' = outio /\ wr' = wr
          /\ eof' = eof /\ broken' = broken /\ requested' = requested
      BY <1>7 DEF ioVars
    <3>4. Place(e)'
      <4>1. /\ e = "c" => pc[e] \notin ServerShaking \ ClientShaking
            /\ e = "s" => pc[e] \notin (ClientShaking \ ServerShaking) \union {"nofinished"}
        BY <1>4 DEF Place
      <4>2. e = "s" => u.version = conf.svers
        BY <1>2, <3>1
      <4> HIDE DEF u
      <4> QED  BY <1>7, <2>2, <3>1, <3>2, <4>1, <4>2 DEF Place
    <3>5. Pending(e)' = Pending(e) /\ Pending(f)' = Pending(f)
      BY <3>3 DEF Pending
    <3>6. Alive(e) /\ pc[e] # "closed"
      BY <1>2 DEF Alive, Shaking, ClientShaking, ServerShaking
    <3>7. Link(e)'
      <4>1. u.insec # NoSec => tr[f].outsec # NoSec
        <5>1. Len(wire[e]) >= 1 /\ 1 \in 1 .. Len(wire[e])
          BY <1>1, <1>5, ListOf
        <5> QED  BY <1>4, <3>1, <5>1 DEF Link
      <4>2. /\ wire[e][1].type # "data" /\ got'[e] = got[e]
            /\ Taken(conf, e, tr'[e], pc'[e]) = Taken(conf, e, tr[e], pc[e]) + (IF Asked(wire[e]) THEN 0 ELSE 1)
        BY <2>2, <3>1, <3>2, <3>3
      <4>3. tr'[e].insec # NoSec => tr[Other(e)].outsec # NoSec
        BY <2>2, <4>1
      <4> HIDE DEF u
      <4> QED  BY <1>1, <1>4, <1>7, <2>2, <2>3, <2>6, <3>3, <3>5, <3>6, <4>2, <4>3, LinkTake
    <3>8. Link(f)'
      <4>1. u.outsec = t.outsec /\ Made(e, u, pc[e]) = Made(e, t, pc[e])
        BY <3>1 DEF SameWriting, Made
      <4>2. Flows(f)' <=> Flows(f)
        BY <1>3, <3>2, <3>3 DEF Flows, Sending
      <4> HIDE DEF u
      <4> QED  BY <1>3, <1>4, <1>7, <2>2, <2>3, <2>6, <3>2, <3>3, <3>5, <3>6, <4>1, <4>2, LinkSame
    <3>9. pc[e] \in Shaking
      BY <1>2
    <3> HIDE DEF u
    <3> QED  BY <1>2, <1>7, <2>2, <2>4, <2>5, <2>6, <2>7, <3>1, <3>2, <3>4, <3>7, <3>8, <3>9, HandStep
  <2> QED  BY <2>8, <2>9
<1> QED  BY <1>10, <1>11

\* The connection ends during the handshake.
LEMMA HandHungupStep ==
  ASSUME IInv, NEW e \in Ends, HandHungup(e)
  PROVE  IInv'
<1> DEFINE t == tr[e]
           u == TlsError(t)
<1>1. pc[e] \in Handshaking
  BY DEF HandHungup
<1>2. /\ pc[e] \in Shaking \ {"opened"}
      /\ ReadFailed(e) = "err" \/ (ReadFailed(e) = "nofinished" /\ e = "c")
      /\ t \in TlsRecs(conf) /\ conf \in Confs
      /\ e = "s" => t.version = conf.svers
      /\ cipher[e] \in {NoCipher, Chosen(conf)}
      /\ master[e] \in {None, MasterOf(conf, "c"), MasterOf(conf, "s")} /\ peercert \in BOOLEAN
  BY <1>1, FailsAt
<1>3. TypeOK /\ InStep
  BY DEF IInv
<1>4. /\ u \in TlsRecs(conf) /\ u.state = "SError"
      /\ u.insec = t.insec /\ u.outsec = t.outsec /\ u.opened = t.opened /\ u.version = t.version
  BY <1>2, ErrorOf DEF SameSetup, SameReading, SameWriting
<1>5. /\ cipher' = cipher /\ master' = master /\ hash' = hash /\ peercert' = peercert /\ conf' = conf
      /\ wire' = wire /\ refused' = refused
      /\ UNCHANGED <<conf, requested, ioVars, eof, broken>>
  BY DEF HandHungup, hsVars, netVars
<1>6. Put(e, u) /\ Goto(e, ReadFailed(e))
  BY DEF HandHungup
<1>7. tr'[e] = u /\ tr' = [tr EXCEPT ![e] = tr'[e]]
  BY <1>3, <1>6, PutOf
<1>8. pc'[e] = ReadFailed(e) /\ pc' = [pc EXCEPT ![e] = pc'[e]]
  BY <1>3, <1>6, PutOf
<1>9. Turns(e)
  BY <1>3, <1>5, <1>7, <1>8, PutOf DEF Turns
<1>10. /\ refused'[e] \notin {"unexpected", "version", "finished"}
       /\ refused'[e] = "mac" => conf.cpsk # conf.spsk
  BY <1>3, <1>5 DEF InStep
<1>11. wire' \in [Ends -> Seq(Recs(conf))] /\ wire'[e] = wire[e] /\ wire'[Other(e)] = wire[Other(e)]
  BY <1>3, <1>5 DEF TypeOK
<1>12. /\ cipher'[e] = cipher[e] /\ master'[e] = master[e] /\ pc[e] \in Shaking
       /\ pc'[e] = "err" \/ (pc'[e] = "nofinished" /\ e = "c")
  BY <1>2, <1>5, <1>8
<1> HIDE DEF u
<1> QED  BY <1>2, <1>4, <1>5, <1>7, <1>9, <1>10, <1>11, <1>12, Dies

\* The files are closed after an error.
LEMMA HandCloseStep ==
  ASSUME IInv, NEW e \in Ends, HandClose(e)
  PROVE  IInv'
<1> DEFINE f == Other(e)
           t == tr[e]
           u == [CloseHand(t) EXCEPT !.state = "SClosed"]
<1>1. /\ f \in Ends /\ f # e /\ Other(f) = e /\ \A x \in Ends : x = e \/ x = f
  BY EndsOf
<1>2. TypeOK /\ Place(e) /\ Place(f) /\ Link(e) /\ Link(f) /\ InStep /\ pc[e] = "err"
  BY <1>1 DEF IInv, HandClose
<1>3. /\ t \in TlsRecs(conf) /\ t.state = "SError" /\ pc \in [Ends -> Shaking \union {"nofinished", "err", "failed", "open", "closed"}]
      /\ tr \in [Ends -> TlsRecs(conf)] /\ eof \in [Ends -> BOOLEAN] /\ fdopen \in [Ends -> BOOLEAN]
  BY <1>2 DEF TypeOK, Place, EndPlace
<1>4. /\ wire' = wire /\ Put(e, u) /\ Goto(e, "failed")
      /\ eof' = [eof EXCEPT ![f] = TRUE] /\ fdopen' = [fdopen EXCEPT ![e] = FALSE]
      /\ UNCHANGED <<conf, refused, requested, cipher, hash, master, peercert, broken, rd, wr, pend, outio,
                     sent, got, over>>
  BY <1>3 DEF HandClose, hsVars
<1>5. tr'[e] = u /\ tr' = [tr EXCEPT ![e] = u] /\ tr'[f] = tr[f]
  BY <1>2, <1>4, PutOf DEF Put
<1>6. pc'[e] = "failed" /\ pc' = [pc EXCEPT ![e] = "failed"] /\ pc'[f] = pc[f]
  BY <1>2, <1>4, PutOf DEF Goto
<1>7. eof'[f] /\ eof'[e] = eof[e]
  BY <1>1, <1>3, <1>4
<1>8. /\ u \in TlsRecs(conf) /\ u.opened = t.opened /\ u.version = t.version
      /\ u.insec = t.insec /\ u.outsec = t.outsec /\ u.state = "SClosed"
  <2> DEFINE v == CloseHand(t)
  <2>1. /\ v \in TlsRecs(conf) /\ SameSetup(t, v) /\ SameReading(t, v) /\ SameWriting(t, v)
    BY <1>3, CloseHandOf
  <2> HIDE DEF v
  <2>2. /\ [v EXCEPT !.state = "SClosed"] \in TlsRecs(conf)
        /\ [v EXCEPT !.state = "SClosed"].opened = v.opened
        /\ [v EXCEPT !.state = "SClosed"].version = v.version
        /\ [v EXCEPT !.state = "SClosed"].insec = v.insec
        /\ [v EXCEPT !.state = "SClosed"].outsec = v.outsec
        /\ [v EXCEPT !.state = "SClosed"].state = "SClosed"
    BY <2>1 DEF TlsRecs, States
  <2> QED  BY <2>1, <2>2 DEF SameSetup, SameReading, SameWriting, v
<1> HIDE DEF u
<1>9. TypeOK'
  <2>1. pc' \in [Ends -> Shaking \union {"nofinished", "err", "failed", "open", "closed"}]
    BY <1>3, <1>6
  <2>2. tr' \in [Ends -> TlsRecs(conf)]
    BY <1>3, <1>5, <1>8
  <2>3. eof' \in [Ends -> BOOLEAN] /\ fdopen' \in [Ends -> BOOLEAN]
    BY <1>3, <1>4
  <2> QED  BY <1>2, <1>4, <2>1, <2>2, <2>3 DEF TypeOK
<1>10. Place(e)'
  <2>1. EndPlace(conf, e, u, "failed", cipher[e], master[e])
    BY <1>2, <1>8 DEF Place, EndPlace, Shaking, ClientShaking, ServerShaking
  <2>2. ClientPlace(conf, u, "failed", hash[e], cipher[e], master[e], peercert)
    BY DEF ClientPlace
  <2>3. ServerPlace(conf, u, "failed", hash[e], cipher[e], master[e])
    BY DEF ServerPlace
  <2>4. "failed" \notin ServerShaking \union ClientShaking \union {"nofinished"}
    BY DEF ClientShaking, ServerShaking
  <2> QED  BY <1>2, <1>4, <1>5, <1>6, <1>8, <2>1, <2>2, <2>3, <2>4 DEF Place
<1>11. Place(f)'
  BY <1>2, <1>4, <1>5, <1>6 DEF Place
<1>12. Pending(f)' = Pending(f) /\ ~Alive(e)' /\ ~Sending(e)'
  BY <1>4, <1>6 DEF Pending, Alive, Sending, Shaking, ClientShaking, ServerShaking
<1>13. Link(e)'
  <2>1. eof[f] => eof'[f]
    BY <1>7
  <2> QED  BY <1>2, <1>4, <1>5, <1>6, <1>8, <1>12, <2>1, LinkQuiet
<1>14. Link(f)'
  <2>1. ~Flows(f)'
    BY <1>1, <1>12 DEF Flows
  <2> QED  BY <1>1, <1>2, <1>4, <1>5, <1>6, <1>8, <2>1, LinkSame
<1>15. ASSUME NEW x \in Ends PROVE ReaderAt(x)' /\ LockAt(x)' /\ NetAt(x)'
  <2>1. ReaderAt(x) /\ LockAt(x) /\ NetAt(x)
    BY DEF IInv
  <2>2. ReaderAt(x)'
    <3>1. pc'[x] = pc[x] \/ (x = e /\ pc[x] = "err" /\ pc'[x] = "failed")
      BY <1>1, <1>2, <1>6
    <3> QED  BY <1>4, <2>1, <3>1 DEF ReaderAt
  <2>3. LockAt(x)'
    BY <1>4, <2>1 DEF LockAt
  <2>4. NetAt(x)'
    <3>1. CASE x = e
      BY <1>4, <1>6, <1>7, <2>1, <3>1 DEF NetAt
    <3>2. CASE x = f
      BY <1>1, <1>6, <1>7, <3>2 DEF NetAt
    <3> QED  BY <1>1, <3>1, <3>2
  <2> QED  BY <2>2, <2>3, <2>4
<1>16. ASSUME NEW w \in Writers PROVE WriterAt(w)'
  <2>1. WriterAt(w) /\ Home[w] \in Ends
    BY TlsAssumption DEF IInv
  <2>2. CASE Home[w] = f
    BY <1>4, <1>5, <1>6, <2>1, <2>2 DEF WriterAt
  <2>3. CASE Home[w] = e
    BY <1>2, <1>4, <2>1, <2>3 DEF WriterAt
  <2> QED  BY <1>1, <2>1, <2>2, <2>3
<1>17. InStep'
  BY <1>2, <1>4 DEF InStep
<1>18. \A x \in Ends : Place(x)' /\ Link(x)'
  BY <1>1, <1>10, <1>11, <1>13, <1>14
<1> QED  BY <1>9, <1>15, <1>16, <1>17, <1>18 DEF IInv

-----------------------------------------------------------------------------
(* The steps of an open connection *)

\* A step of the readers and writers at e, where everything else stays
Uses(e) ==
  /\ tr' = [tr EXCEPT ![e] = tr'[e]] /\ rd' = [rd EXCEPT ![e] = rd'[e]]
  /\ outio' = [outio EXCEPT ![e] = outio'[e]] /\ sent' = [sent EXCEPT ![e] = sent'[e]]
  /\ got' = [got EXCEPT ![e] = got'[e]]
  /\ UNCHANGED <<conf, pc, refused, hsVars, eof, broken>>
  /\ \A w \in Writers : Home[w] # e => wr'[w] = wr[w] /\ pend'[w] = pend[w]

\* What such a step has to do for the invariant.
LEMMA DataStep ==
  ASSUME IInv, NEW e \in Ends, Uses(e),
         tr'[e] \in TlsRecs(conf), rd'[e] \in {"idle", "read", "noreneg", "dead"},
         wr' \in [Writers -> {"idle", "want", "locked", "sealed", "dead"}], DOMAIN pend' = Writers,
         outio'[e] \in Writers \union {None}, sent'[e] \in Nat, got'[e] \in Seq(Nat),
         over' \subseteq Ends, requested' \in BOOLEAN, fdopen' \in [Ends -> BOOLEAN],
         wire' \in [Ends -> Seq(Recs(conf))],
         Place(e)', Link(e)', Link(Other(e))', ReaderAt(e)', ReaderAt(Other(e))', LockAt(e)',
         \A w \in Writers : Home[w] = e => WriterAt(w)'
  PROVE  IInv'
<1> DEFINE f == Other(e)
<1>1. f \in Ends /\ f # e /\ Other(f) = e /\ \A x \in Ends : x = e \/ x = f
  BY EndsOf
<1>2. TypeOK /\ Place(f) /\ LockAt(f) /\ InStep
  BY <1>1 DEF IInv
<1>3. /\ conf' = conf /\ pc' = pc /\ refused' = refused /\ cipher' = cipher /\ hash' = hash
      /\ master' = master /\ peercert' = peercert /\ eof' = eof /\ broken' = broken
  BY DEF Uses, hsVars
<1>4. tr'[f] = tr[f] /\ outio'[f] = outio[f] /\ sent'[f] = sent[f]
  BY <1>1, <1>2 DEF TypeOK, Uses
<1>5. TypeOK'
  <2>1. tr' \in [Ends -> TlsRecs(conf)]
    BY <1>2 DEF TypeOK, Uses
  <2>2. rd' \in [Ends -> {"idle", "read", "noreneg", "dead"}]
    BY <1>2 DEF TypeOK, Uses
  <2>3. outio' \in [Ends -> Writers \union {None}]
    BY <1>2 DEF TypeOK, Uses
  <2>4. sent' \in [Ends -> Nat] /\ got' \in [Ends -> Seq(Nat)]
    BY <1>2 DEF TypeOK, Uses
  <2> QED  BY <1>2, <1>3, <2>1, <2>2, <2>3, <2>4 DEF TypeOK
<1>6. Place(f)'
  BY <1>2, <1>3, <1>4 DEF Place
<1>7. LockAt(f)'
  <2>1. ASSUME outio[f] # None PROVE wr'[outio[f]] = wr[outio[f]]
    <3>1. outio[f] \in Writers /\ Home[outio[f]] = f
      BY <1>1, <1>2, <2>1 DEF TypeOK, LockAt
    <3> QED  BY <1>1, <3>1 DEF Uses
  <2> QED  BY <1>2, <1>4, <2>1 DEF LockAt
<1>8. ASSUME NEW w \in Writers PROVE WriterAt(w)'
  <2>1. WriterAt(w) /\ Home[w] \in Ends
    BY TlsAssumption DEF IInv
  <2>2. CASE Home[w] = f
    <3>1. wr'[w] = wr[w] /\ pend'[w] = pend[w]
      BY <1>1, <2>2 DEF Uses
    <3> QED  BY <1>3, <1>4, <2>1, <2>2, <3>1 DEF WriterAt
  <2> QED  BY <1>1, <2>1, <2>2
<1>9. ASSUME NEW x \in Ends PROVE NetAt(x)'
  <2>1. NetAt(x)
    BY DEF IInv
  <2> QED  BY <1>3, <2>1 DEF NetAt
<1>10. InStep'
  BY <1>2, <1>3 DEF InStep
<1>11. \A x \in Ends : Place(x)' /\ Link(x)' /\ ReaderAt(x)' /\ LockAt(x)'
  BY <1>1, <1>6, <1>7
<1> QED  BY <1>5, <1>8, <1>9, <1>10, <1>11 DEF IInv

\* What the invariant says of an end that is open.
LEMMA OpenAt ==
  ASSUME IInv, NEW e \in Ends, pc[e] = "open"
  PROVE  /\ TypeOK /\ conf \in Confs /\ tr[e] \in TlsRecs(conf)
         /\ Place(e) /\ Link(e) /\ Link(Other(e)) /\ ReaderAt(e) /\ ReaderAt(Other(e)) /\ LockAt(e)
         /\ \A w \in Writers : WriterAt(w)
         /\ Reads(conf, e, tr[e]) /\ tr[e].outsec = SendKey(conf, e) /\ tr[e].outseq >= 1
         /\ tr[e].insec # NoSec /\ tr[e].outsec # NoSec
         /\ tr[e].opened /\ ~tr[e].hand /\ tr[e].verset /\ tr[e].version = conf.svers
         /\ tr[e].inseq \in Nat /\ tr[e].outseq \in Nat
         /\ Sending(e)
<1>1. /\ TypeOK /\ Place(e) /\ Link(e) /\ Link(Other(e)) /\ ReaderAt(e) /\ ReaderAt(Other(e)) /\ LockAt(e)
      /\ \A w \in Writers : WriterAt(w)
  BY EndsOf DEF IInv
<1>2. conf \in Confs /\ tr[e] \in TlsRecs(conf)
  BY <1>1, TypesOf
<1>3. /\ Reads(conf, e, tr[e]) /\ tr[e].outsec = SendKey(conf, e) /\ tr[e].outseq >= 1
      /\ tr[e].opened /\ ~tr[e].hand
  BY <1>1 DEF Place, EndPlace
<1>4. tr[e].insec # NoSec /\ tr[e].outsec # NoSec
  BY <1>3, KeysOf DEF Reads
<1>5. tr[e].verset /\ tr[e].version = conf.svers
  BY <1>1, EndsOf DEF Place, ClientPlace, ServerPlace
<1>6. tr[e].inseq \in Nat /\ tr[e].outseq \in Nat
  BY <1>2, FieldsOf
<1> QED  BY <1>1, <1>2, <1>3, <1>4, <1>5, <1>6 DEF Sending

\* An open end counts its records, and stays open.
Counts(t, u) ==
  /\ SameSetup(t, u) /\ u.hand = t.hand
  /\ u.insec = t.insec /\ u.inseq >= t.inseq
  /\ u.outsec = t.outsec /\ u.outseq >= t.outseq

\* An open end that sealed or opened a record is still at its place.
LEMMA OpenPlace ==
  ASSUME IInv, NEW e \in Ends, pc[e] = "open", tr'[e] \in TlsRecs(conf), Counts(tr[e], tr'[e]),
         UNCHANGED <<conf, pc, hsVars>>
  PROVE  Place(e)'
<1> DEFINE t == tr[e]
           u == tr'[e]
<1>1. /\ Place(e) /\ Reads(conf, e, t) /\ t.outsec = SendKey(conf, e) /\ t.outseq >= 1
      /\ t.insec # NoSec /\ t.outsec # NoSec /\ t.opened /\ ~t.hand /\ t.inseq \in Nat /\ t.outseq \in Nat
  BY OpenAt
<1>2. u.inseq \in Nat /\ u.outseq \in Nat
  BY FieldsOf
<1>3. /\ Reads(conf, e, u) /\ u.outsec = SendKey(conf, e) /\ u.outseq >= 1
      /\ u.insec # NoSec /\ u.opened /\ ~u.hand /\ u.version = t.version /\ u.verset = t.verset
  BY <1>1, <1>2 DEF Counts, Reads, SameSetup
<1>4. /\ conf' = conf /\ pc'[e] = "open" /\ pc[e] = "open" /\ cipher' = cipher /\ hash' = hash
      /\ master' = master /\ peercert' = peercert
  BY DEF hsVars
<1>5. "open" \notin Shaking
  BY DEF Shaking, ClientShaking, ServerShaking
<1>6. EndPlace(conf, e, u, "open", cipher[e], master[e])
  <2>1. EndPlace(conf, e, t, "open", cipher[e], master[e])
    BY <1>1 DEF Place
  <2> QED  BY <1>1, <1>3, <1>5, <2>1 DEF EndPlace, Reads
<1>7. e = "c" => ClientPlace(conf, u, "open", hash[e], cipher[e], master[e], peercert)
  <2>1. e = "c" => ClientPlace(conf, t, "open", hash[e], cipher[e], master[e], peercert)
    BY <1>1 DEF Place
  <2> HIDE DEF u, t
  <2> QED  BY <1>3, <2>1 DEF ClientPlace
<1>8. e = "s" => ServerPlace(conf, u, "open", hash[e], cipher[e], master[e])
  <2>1. e = "s" => ServerPlace(conf, t, "open", hash[e], cipher[e], master[e])
    BY <1>1 DEF Place
  <2> HIDE DEF u, t
  <2> QED  BY <1>3, <2>1 DEF ServerPlace
<1> QED  BY <1>1, <1>3, <1>4, <1>5, <1>6, <1>7, <1>8 DEF Place, Shaking

\* A record that is made, and not yet on its way
LEMMA LinkSeal ==
  ASSUME TypeOK, NEW e \in Ends, Link(e), conf' = conf, requested' = requested,
         wire'[e] = wire[e], tr'[e] = tr[e], pc' = pc, rd'[e] = rd[e], got'[e] = got[e],
         sent'[Other(e)] = sent[Other(e)], broken' = broken, eof' = eof,
         tr[Other(e)].outsec # NoSec, tr'[Other(e)].outsec # NoSec,
         Pending(Other(e)) = 0, Pending(Other(e))' = 1,
         Made(Other(e), tr'[Other(e)], pc[Other(e)]) = Made(Other(e), tr[Other(e)], pc[Other(e)]) + 1
  PROVE  Link(e)'
<1> DEFINE w == wire[e]
           f == Other(e)
           n == Taken(conf, e, tr[e], pc[e])
           g == Len(got[e])
<1>1. /\ n \in Nat /\ Len(w) \in Nat /\ Skew(w) \in {0, 1} /\ Made(f, tr[f], pc[f]) \in Nat
  BY TypesOf
<1>2. (Alive(e)' <=> Alive(e)) /\ (Flows(e)' <=> Flows(e))
  BY DEF Alive, Flows, Sending
<1>3. Alive(e) =>
        /\ Stream(conf, e, n, w)
        /\ Asked(w) => requested
        /\ Data(w, g, sent[f])
        /\ \A i \in 1 .. Len(w) : Closes(w[i]) => pc[f] = "closed" /\ AllBefore(w, i - 1, g, sent[f])
  BY DEF Link
<1>4. Alive(e) /\ Flows(e) =>
        /\ n + Len(w) - Skew(w) + 0 = Made(f, tr[f], pc[f])
        /\ AllBefore(w, Len(w), g, sent[f])
  BY DEF Link
<1>5. Alive(e) /\ Flows(e) => n + Len(w) - Skew(w) + 1 = Made(f, tr'[f], pc[f])
  <2>1. \A a, b, m \in Nat, k \in {0, 1} : a + b - k + 0 = m => a + b - k + 1 = m + 1
    OBVIOUS
  <2>2. Made(f, tr'[f], pc[f]) = Made(f, tr[f], pc[f]) + 1
    OBVIOUS
  <2> HIDE DEF w, n, f
  <2> QED  BY <1>1, <1>4, <2>1, <2>2
<1> QED  BY <1>2, <1>3, <1>4, <1>5 DEF Link

-----------------------------------------------------------------------------
(* The reader *)

\* A step of the reader at e, which leaves the TlsRec as u and goes on at l
ReaderGoes(e, u, l) ==
  /\ Put(e, u) /\ Reader(e, l) /\ UNCHANGED readUnch /\ refused' = refused
  /\ u \in TlsRecs(conf) /\ Counts(tr[e], u)
  /\ u.outseq = tr[e].outseq \/ outio[e] = None
  /\ l \in {"idle", "read", "noreneg", "dead"}
  /\ got' = [got EXCEPT ![e] = got'[e]] /\ got'[e] \in Seq(Nat) /\ Len(got'[e]) <= sent[Other(e)]
  /\ over' \subseteq Ends /\ (e \in over' => e \in over) /\ (Other(e) \in over' => l = "dead")
  /\ wire' \in [Ends -> Seq(Recs(conf))]

\* A step of a reader of the data keeps IInv, once its two links do.
LEMMA ReaderStep ==
  ASSUME IInv, NEW e \in Ends, pc[e] = "open", NEW u, NEW l, ReaderGoes(e, u, l),
         Link(e)', Link(Other(e))'
  PROVE  IInv'
<1> DEFINE f == Other(e)
           t == tr[e]
<1>1. f \in Ends /\ f # e /\ Other(f) = e
  BY EndsOf
<1>2. /\ TypeOK /\ ReaderAt(e) /\ ReaderAt(f) /\ LockAt(e) /\ \A w \in Writers : WriterAt(w)
  BY OpenAt
<1>3. /\ Put(e, u) /\ Reader(e, l) /\ refused' = refused
      /\ conf' = conf /\ pc' = pc /\ requested' = requested /\ cipher' = cipher /\ hash' = hash
      /\ master' = master /\ peercert' = peercert /\ fdopen' = fdopen /\ wr' = wr /\ pend' = pend
      /\ outio' = outio /\ sent' = sent /\ eof' = eof /\ broken' = broken
      /\ UNCHANGED hsVars
  BY DEF ReaderGoes, readUnch, hsVars
<1>4. /\ u \in TlsRecs(conf) /\ Counts(t, u) /\ (u.outseq = t.outseq \/ outio[e] = None)
      /\ l \in {"idle", "read", "noreneg", "dead"}
      /\ got' = [got EXCEPT ![e] = got'[e]] /\ got'[e] \in Seq(Nat) /\ Len(got'[e]) <= sent[f]
      /\ over' \subseteq Ends /\ (e \in over' => e \in over) /\ (f \in over' => l = "dead")
      /\ wire' \in [Ends -> Seq(Recs(conf))]
  BY DEF ReaderGoes
<1>5. tr'[e] = u /\ tr' = [tr EXCEPT ![e] = tr'[e]]
  BY <1>2, <1>3, PutOf
<1>6. rd'[e] = l /\ rd' = [rd EXCEPT ![e] = rd'[e]] /\ rd'[f] = rd[f] /\ got'[f] = got[f]
  BY <1>1, <1>2, <1>3, <1>4 DEF Reader, TypeOK
<1>7. /\ outio' = [outio EXCEPT ![e] = outio'[e]] /\ sent' = [sent EXCEPT ![e] = sent'[e]]
      /\ outio'[e] \in Writers \union {None} /\ sent'[e] \in Nat
      /\ wr' \in [Writers -> {"idle", "want", "locked", "sealed", "dead"}] /\ DOMAIN pend' = Writers
      /\ requested' \in BOOLEAN /\ fdopen' \in [Ends -> BOOLEAN]
  BY <1>2, <1>3 DEF TypeOK
<1>8. Uses(e)
  BY <1>3, <1>4, <1>5, <1>6, <1>7 DEF Uses
<1>9. Place(e)'
  BY <1>3, <1>4, <1>5, OpenPlace
<1>10. ReaderAt(e)'
  <2>1. l \in {"read", "noreneg"} => pc'[e] = "open"
    BY <1>3
  <2> QED  BY <1>2, <1>3, <1>4, <1>6, <2>1 DEF ReaderAt
<1>11. ReaderAt(f)'
  BY <1>1, <1>2, <1>3, <1>4, <1>6 DEF ReaderAt
<1>12. LockAt(e)'
  BY <1>2, <1>3 DEF LockAt
<1>13. ASSUME NEW w \in Writers, Home[w] = e PROVE WriterAt(w)'
  <2>1. WriterAt(w)
    BY <1>2
  <2>2. CASE u.outseq = t.outseq
    BY <1>3, <1>5, <1>13, <2>1, <2>2 DEF WriterAt
  <2>3. CASE outio[e] = None
    <3>1. wr[w] # "sealed"
      BY <1>13, <2>1, <2>3, TlsAssumption DEF WriterAt
    <3> QED  BY <1>3, <1>13, <2>1, <3>1 DEF WriterAt
  <2> QED  BY <1>4, <2>2, <2>3
<1> QED  BY <1>4, <1>5, <1>6, <1>7, <1>8, <1>9, <1>10, <1>11, <1>12, <1>13, DataStep

\* The records on their way, when a reader takes none and makes none.
LEMMA LinkReader ==
  ASSUME IInv, NEW e \in Ends, pc[e] = "open", NEW u, NEW l, ReaderGoes(e, u, l),
         wire' = wire, got' = got, l # "dead" => rd[e] # "dead",
         SameReading(tr[e], u), SameWriting(tr[e], u)
  PROVE  Link(e)' /\ Link(Other(e))'
<1> DEFINE f == Other(e)
           t == tr[e]
<1>1. f \in Ends /\ f # e /\ Other(f) = e
  BY EndsOf
<1>2. TypeOK /\ Link(e) /\ Link(f) /\ t.insec # NoSec /\ t.outsec # NoSec
  BY OpenAt
<1>3. /\ Put(e, u) /\ Reader(e, l)
      /\ conf' = conf /\ pc' = pc /\ requested' = requested /\ wr' = wr
      /\ outio' = outio /\ sent' = sent /\ eof' = eof /\ broken' = broken
  BY DEF ReaderGoes, readUnch
<1>4. tr'[e] = u /\ tr'[f] = tr[f] /\ rd'[e] = l /\ rd'[f] = rd[f]
  <2>1. tr'[e] = u /\ tr'[f] = tr[f]
    BY <1>2, <1>3, PutOf
  <2>2. rd'[e] = l /\ rd'[f] = rd[f]
    BY <1>1, <1>2, <1>3 DEF Reader, TypeOK
  <2> QED  BY <2>1, <2>2
<1>5. /\ u.insec = t.insec /\ u.inseq = t.inseq /\ u.outsec = t.outsec /\ u.outseq = t.outseq
  BY DEF SameReading, SameWriting
<1>6. /\ Pending(e)' = Pending(e) /\ Pending(f)' = Pending(f)
      /\ Alive(e)' => Alive(e)
      /\ Flows(f)' => Flows(f)
  BY <1>1, <1>3, <1>4 DEF Pending, Alive, Flows, Sending, Shaking
<1>7. /\ Taken(conf, e, u, pc[e]) = Taken(conf, e, t, pc[e]) /\ Made(e, u, pc[e]) = Made(e, t, pc[e])
  BY <1>2, <1>5 DEF Taken, Made
<1>8. Link(e)'
  BY <1>1, <1>2, <1>3, <1>4, <1>5, <1>6, <1>7, LinkQuiet
<1>9. Link(f)'
  BY <1>1, <1>2, <1>3, <1>4, <1>5, <1>6, <1>7, LinkSame
<1> QED  BY <1>8, <1>9

\* A read begins.
LEMMA ReadBeginStep ==
  ASSUME IInv, NEW e \in Ends, ReadBegin(e)
  PROVE  IInv'
<1> DEFINE t == tr[e]
           l == IF t.state = "SOpen" THEN "read" ELSE "dead"
<1>1. pc[e] = "open" /\ rd[e] = "idle"
  BY DEF ReadBegin
<1>2. TypeOK /\ ReaderAt(e) /\ t \in TlsRecs(conf) /\ t.inseq \in Nat /\ t.outseq \in Nat
  BY <1>1, OpenAt
<1>3. Put(e, t)
  BY <1>2 DEF ReadBegin, Put, TypeOK
<1>4. Counts(t, t) /\ SameReading(t, t) /\ SameWriting(t, t)
  BY <1>2 DEF Counts, SameSetup, SameReading, SameWriting
<1>5. /\ got' = got /\ over' = over /\ wire' = wire /\ refused' = refused /\ UNCHANGED readUnch /\ Reader(e, l)
  BY DEF ReadBegin
<1>6. /\ got' = [got EXCEPT ![e] = got'[e]] /\ got'[e] \in Seq(Nat) /\ over' \subseteq Ends
      /\ wire' \in [Ends -> Seq(Recs(conf))]
  BY <1>2, <1>5 DEF TypeOK
<1>7. Len(got'[e]) <= sent[Other(e)] /\ Other(e) \notin over'
  BY <1>1, <1>2, <1>5 DEF ReaderAt
<1>8. ReaderGoes(e, t, l)
  BY <1>2, <1>3, <1>4, <1>5, <1>6, <1>7 DEF ReaderGoes
<1>9. Link(e)' /\ Link(Other(e))'
  <2> HIDE DEF l, t
  <2> QED  BY <1>1, <1>4, <1>5, <1>8, LinkReader DEF t
<1> HIDE DEF l, t
<1> QED  BY <1>1, <1>8, <1>9, ReaderStep

\* The connection ends under a reader.
LEMMA DataHungupStep ==
  ASSUME IInv, NEW e \in Ends, DataHungup(e)
  PROVE  IInv'
<1> DEFINE t == tr[e]
           u == TlsError(t)
<1>1. pc[e] = "open" /\ rd[e] = "read"
  <2>1. rd[e] = "read" /\ ReaderAt(e)
    BY DEF DataHungup, IInv
  <2> QED  BY <2>1 DEF ReaderAt
<1>2. TypeOK /\ ReaderAt(e) /\ t \in TlsRecs(conf) /\ t.inseq \in Nat /\ t.outseq \in Nat
  BY <1>1, OpenAt
<1>3. /\ u \in TlsRecs(conf) /\ SameSetup(t, u) /\ SameReading(t, u) /\ SameWriting(t, u) /\ SameHand(t, u)
  BY <1>2, ErrorOf
<1>4. Counts(t, u)
  BY <1>2, <1>3 DEF Counts, SameReading, SameWriting, SameHand
<1>5. /\ got' = got /\ over' = over /\ wire' = wire /\ refused' = refused /\ UNCHANGED readUnch
      /\ Reader(e, "dead") /\ Put(e, u)
  BY DEF DataHungup
<1>6. /\ got' = [got EXCEPT ![e] = got'[e]] /\ got'[e] \in Seq(Nat) /\ over' \subseteq Ends
      /\ wire' \in [Ends -> Seq(Recs(conf))]
  BY <1>2, <1>5 DEF TypeOK
<1>7. Len(got'[e]) <= sent[Other(e)]
  BY <1>2, <1>5 DEF ReaderAt
<1>8. u.outseq = t.outseq
  BY <1>3 DEF SameWriting
<1>9. ReaderGoes(e, u, "dead")
  BY <1>3, <1>4, <1>5, <1>6, <1>7, <1>8 DEF ReaderGoes
<1> HIDE DEF u
<1>10. Link(e)' /\ Link(Other(e))'
  BY <1>1, <1>3, <1>5, <1>9, LinkReader
<1> QED  BY <1>1, <1>9, <1>10, ReaderStep

\* No record that comes to a reader is refused.
LEMMA DataAt ==
  ASSUME IInv, NEW e \in Ends, rd[e] = "read", wire[e] # <<>>
  PROVE  LET t == tr[e] r == wire[e][1] g == Len(got[e]) s == sent[Other(e)] IN
         /\ pc[e] = "open" /\ Head(wire[e]) = r /\ r \in Recs(conf) /\ ~Asked(wire[e])
         /\ ~Refused(t, r) /\ r.type # "ccs"
         /\ Accepted(t, r) \in TlsRecs(conf) /\ Counts(t, Accepted(t, r))
         /\ SameWriting(t, Accepted(t, r)) /\ Accepted(t, r).inseq = t.inseq + 1
         /\ r.type = "data" => r.body = g + 1 /\ g + 1 <= s
         /\ Closes(r) => pc[Other(e)] = "closed" /\ AllBefore(wire[e], 0, g, s)
<1> DEFINE t == tr[e]
           w == wire[e]
           r == wire[e][1]
           n == Taken(conf, e, t, pc[e])
           g == Len(got[e])
           s == sent[Other(e)]
<1>1. pc[e] = "open"
  <2>1. ReaderAt(e)
    BY DEF IInv
  <2> QED  BY <2>1 DEF ReaderAt
<1>2. /\ TypeOK /\ Link(e) /\ t \in TlsRecs(conf) /\ conf \in Confs
      /\ Reads(conf, e, t) /\ t.insec # NoSec /\ t.opened /\ ~t.hand
      /\ t.version = conf.svers /\ t.inseq \in Nat /\ t.outseq \in Nat
  BY <1>1, OpenAt
<1>3. /\ w \in Seq(Recs(conf)) /\ n \in Nat /\ g \in Nat /\ s \in Nat
      /\ Turn(e) \in {2, 3}
  BY <1>2, TypesOf, EndsOf
<1>4. r \in Recs(conf) /\ Head(w) = r /\ Len(w) >= 1 /\ Len(w) \in Nat
  BY <1>3, ListOf
<1>5. Alive(e)
  BY <1>1 DEF Alive
<1>6. /\ Stream(conf, e, n, w) /\ Data(w, g, s)
      /\ \A i \in 1 .. Len(w) : Closes(w[i]) => pc[Other(e)] = "closed" /\ AllBefore(w, i - 1, g, s)
  BY <1>2, <1>5 DEF Link
<1>7. n = Turn(e) + t.inseq /\ t.inseq >= 1
  BY <1>2 DEF Taken, Reads
<1>8. ~Asked(w)
  <2>1. \A a \in {2, 3}, b \in Nat : a + b # 0
    OBVIOUS
  <2> QED  BY <1>2, <1>3, <1>6, <1>7, <2>1 DEF Stream
<1>9. Script(conf, e, n + 1, r)
  BY <1>3, <1>6, <1>8, StreamTail
<1>10. /\ r.sec = SendKey(conf, Other(e)) /\ r.seq = t.inseq /\ r.ver = conf.svers
       /\ Fatal(r) \/ r.type \in {"data", "hand"} \/ (r.type = "alert" /\ r.body = "noreneg")
  <2>1. /\ n + 1 > Turn(e) + 1 /\ ~(n + 1 <= Turn(e) + 1) /\ ~(n + 1 <= Turn(e)) /\ n + 1 # Turn(e)
        /\ n + 1 # 1 /\ n + 1 - Turn(e) - 1 = t.inseq
    <3>1. \A a \in {2, 3}, b, c \in Nat : c = a + b /\ b >= 1 =>
            /\ c + 1 > a + 1 /\ ~(c + 1 <= a + 1) /\ ~(c + 1 <= a) /\ c + 1 # a
            /\ c + 1 # 1 /\ c + 1 - a - 1 = b
      OBVIOUS
    <3> HIDE DEF n
    <3> QED  BY <1>2, <1>3, <1>7, <3>1
  <2> HIDE DEF n, r, t
  <2> QED  BY <1>3, <1>9, <2>1 DEF Script
<1>11. r.type # "ccs"
  BY <1>10 DEF Fatal
<1>12. SendKey(conf, Other(e)) = t.insec
  BY <1>2, KeysOf DEF Reads
<1>13. ~Refused(t, r)
  <2> HIDE DEF r, t
  <2> QED  BY <1>2, <1>10, <1>11, <1>12 DEF Refused, WrongVersion, BadMac, Unexpected
<1>14. /\ Accepted(t, r) \in TlsRecs(conf)
       /\ SameSetup(t, Accepted(t, r)) /\ SameWriting(t, Accepted(t, r))
       /\ Accepted(t, r).hand = t.hand /\ Accepted(t, r).insec = t.insec
       /\ Accepted(t, r).inseq = IF t.insec = NoSec THEN t.inseq ELSE t.inseq + 1
  <2>1. t.hand => t.handq = <<>>
    BY <1>2
  <2> HIDE DEF r, t
  <2> QED  BY <1>2, <1>4, <1>11, <2>1, AcceptedOf
<1>15. Accepted(t, r).inseq = t.inseq + 1 /\ Counts(t, Accepted(t, r))
  <2> DEFINE u == Accepted(t, r)
  <2>1. u.inseq = t.inseq + 1 /\ u.outseq = t.outseq /\ u.outsec = t.outsec
    BY <1>2, <1>14 DEF SameWriting
  <2> HIDE DEF u, t
  <2>2. u.inseq >= t.inseq /\ u.outseq >= t.outseq
    BY <1>2, <2>1
  <2> QED  BY <1>14, <2>1, <2>2 DEF Counts, u
<1>16. r.type = "data" => r.body = g + 1 /\ g + 1 <= s
  BY <1>3, <1>6, DataTake
<1>17. Closes(r) => pc[Other(e)] = "closed" /\ AllBefore(w, 0, g, s)
  <2>1. 1 \in 1 .. Len(w) /\ 1 - 1 = 0
    BY <1>4
  <2> QED  BY <1>6, <2>1
<1> QED  BY <1>1, <1>4, <1>8, <1>11, <1>13, <1>14, <1>15, <1>16, <1>17

\* A reader reads a record.
LEMMA DataRecreadStep ==
  ASSUME IInv, NEW e \in Ends, DataRecread(e)
  PROVE  IInv'
<1> DEFINE f == Other(e)
           t == tr[e]
           r == wire[e][1]
           u == Accepted(t, r)
           l == CASE r.type = "data" -> "idle"
                  [] r.type = "alert" /\ r.body # "noreneg" -> "dead"
                  [] r.type = "hand" /\ t.version # SSL3Version -> "noreneg"
                  [] OTHER -> "read"
<1>1. rd[e] = "read" /\ wire[e] # <<>>
  BY DEF DataRecread
<1>2. /\ pc[e] = "open" /\ Head(wire[e]) = r /\ r \in Recs(conf) /\ ~Asked(wire[e])
      /\ ~Refused(t, r) /\ r.type # "ccs"
      /\ u \in TlsRecs(conf) /\ Counts(t, u) /\ SameWriting(t, u) /\ u.inseq = t.inseq + 1
      /\ r.type = "data" => r.body = Len(got[e]) + 1 /\ Len(got[e]) + 1 <= sent[f]
  BY <1>1, DataAt
<1>3. /\ f \in Ends /\ f # e /\ Other(f) = e
  BY EndsOf
<1>4. /\ TypeOK /\ ReaderAt(e) /\ Link(e) /\ Link(f) /\ t.insec # NoSec /\ t.outsec # NoSec
      /\ t.inseq \in Nat
  BY <1>2, OpenAt
<1>5. /\ Put(e, u) /\ Reader(e, l) /\ refused' = refused /\ UNCHANGED readUnch
      /\ wire' = [wire EXCEPT ![e] = Tail(@)]
      /\ got' = IF r.type = "data" THEN [got EXCEPT ![e] = Append(@, r.body)] ELSE got
      /\ over' = IF r.type = "alert" /\ r.body = "close" THEN over \union {f} ELSE over
  BY <1>2 DEF DataRecread
<1>6. /\ l \in {"idle", "read", "noreneg", "dead"}
      /\ r.type = "alert" /\ r.body = "close" => l = "dead"
  OBVIOUS
<1> HIDE DEF l
<1>7. /\ got[e] \in Seq(Nat) /\ Len(got[e]) \in Nat /\ wire \in [Ends -> Seq(Recs(conf))]
      /\ got \in [Ends -> Seq(Nat)] /\ over \subseteq Ends /\ Tail(wire[e]) \in Seq(Recs(conf))
  BY <1>1, <1>4, TypesOf, ListOf DEF TypeOK
<1>8. /\ got' = [got EXCEPT ![e] = got'[e]] /\ got'[e] \in Seq(Nat)
      /\ r.type = "data" => Len(got'[e]) = Len(got[e]) + 1
      /\ r.type # "data" => got'[e] = got[e]
      /\ Len(got'[e]) <= sent[f]
  <2>1. CASE r.type = "data"
    <3>1. r.body \in Nat
      BY <1>2, <1>7, <2>1
    <3>2. Append(got[e], r.body) \in Seq(Nat) /\ Len(Append(got[e], r.body)) = Len(got[e]) + 1
      BY <1>7, <3>1
    <3> QED  BY <1>2, <1>5, <1>7, <2>1, <3>2
  <2>2. CASE r.type # "data"
    BY <1>4, <1>5, <1>7, <2>2 DEF ReaderAt
  <2> QED  BY <2>1, <2>2
<1>9. /\ wire' \in [Ends -> Seq(Recs(conf))] /\ wire'[e] = Tail(wire[e]) /\ wire'[f] = wire[f]
      /\ over' \subseteq Ends
  BY <1>3, <1>5, <1>7
<1>10. /\ (e \in over' => e \in over) /\ (f \in over' => l = "dead")
  <2>1. f \notin over
    BY <1>1, <1>4 DEF ReaderAt
  <2> QED  BY <1>3, <1>5, <1>6, <2>1
<1>11. u.outseq = t.outseq /\ u.outsec = t.outsec /\ u.insec = t.insec
  BY <1>2 DEF Counts, SameWriting
<1> HIDE DEF u
<1>12. ReaderGoes(e, u, l)
  BY <1>2, <1>5, <1>6, <1>8, <1>9, <1>10, <1>11 DEF ReaderGoes
<1>13. tr'[e] = u /\ tr'[f] = tr[f]
  BY <1>4, <1>5, PutOf
<1>14. /\ conf' = conf /\ pc' = pc /\ requested' = requested /\ wr' = wr
       /\ outio' = outio /\ sent' = sent /\ eof' = eof /\ broken' = broken
  BY <1>5 DEF readUnch
<1>15. rd'[f] = rd[f] /\ got'[f] = got[f]
  BY <1>3, <1>4, <1>5, <1>7 DEF Reader, TypeOK
<1>16. /\ Pending(e)' = Pending(e) /\ Pending(f)' = Pending(f) /\ Alive(e)
  BY <1>1, <1>2, <1>14 DEF Pending, Alive
<1>17. /\ Taken(conf, e, u, pc[e]) = Taken(conf, e, t, pc[e]) + 1 /\ Made(e, u, pc[e]) = Made(e, t, pc[e])
  <2>1. \A a, b \in Nat : a + (b + 1) = (a + b) + 1
    OBVIOUS
  <2>2. Turn(e) \in Nat
    BY EndsOf
  <2> HIDE DEF t
  <2> QED  BY <1>2, <1>4, <1>11, <2>1, <2>2 DEF Taken, Made
<1>18. Link(e)'
  <2>1. tr'[e].insec # NoSec => tr[f].outsec # NoSec
    BY <1>4 DEF Link
  <2> QED  BY <1>1, <1>2, <1>4, <1>8, <1>9, <1>13, <1>14, <1>16, <1>17, <2>1, LinkTake
<1>19. Link(f)'
  <2>1. Flows(f)' => Flows(f)
    BY <1>3, <1>14 DEF Flows, Sending
  <2>2. pc[e] # "closed"
    BY <1>2
  <2> QED  BY <1>3, <1>4, <1>9, <1>11, <1>13, <1>14, <1>15, <1>16, <1>17, <2>1, <2>2, LinkSame
<1> QED  BY <1>2, <1>12, <1>18, <1>19, ReaderStep

\* The record an open end seals is the next of the script, and the end counts
\* it, whether the write then fails or not.
LEMMA OpenSeal ==
  ASSUME IInv, NEW e \in Ends, pc[e] = "open", NEW type, NEW body,
         \/ type = "data" /\ body \in Nat
         \/ type = "hand" /\ body = <<HRequest>>
         \/ type = "alert" /\ body = "noreneg"
  PROVE  LET t == tr[e] r == Sealed(t, type, body) u == AfterSeal(t, type) IN
         /\ r \in Recs(conf) /\ r.type = type /\ r.body = body /\ r.ver = conf.svers
         /\ r.sec = SendKey(conf, e) /\ r.sec # NoSec /\ r.seq = t.outseq
         /\ Script(conf, Other(e), Made(e, t, pc[e]) + 1, r)
         /\ \A v \in {u, TlsError(u)} :
              /\ v \in TlsRecs(conf) /\ Counts(t, v) /\ SameReading(t, v) /\ v.outsec # NoSec
              /\ v.outseq = t.outseq + 1 /\ Made(e, v, pc[e]) = Made(e, t, pc[e]) + 1
<1> DEFINE t == tr[e]
           r == Sealed(t, type, body)
           u == AfterSeal(t, type)
           m == Made(e, t, pc[e])
<1>1. /\ TypeOK /\ conf \in Confs /\ t \in TlsRecs(conf) /\ t.outsec = SendKey(conf, e)
      /\ t.outseq >= 1 /\ t.outseq \in Nat /\ t.outsec # NoSec /\ t.version = conf.svers
      /\ t.inseq \in Nat
  BY OpenAt
<1>2. m \in Nat /\ Turn(Other(e)) \in {2, 3} /\ m = Turn(Other(e)) + t.outseq
  BY <1>1, EndsOf DEF Made
<1>3. m + 1 \in Nat /\ m + 1 > Turn(Other(e)) + 1 /\ m + 1 # 1
  <2>1. \A a \in {2, 3}, b, c \in Nat : c = a + b /\ b >= 1 => c + 1 \in Nat /\ c + 1 > a + 1 /\ c + 1 # 1
    OBVIOUS
  <2> HIDE DEF m
  <2> QED  BY <1>1, <1>2, <2>1
<1>4. type # "ccs"
  OBVIOUS
<1>5. body \in Bodies(conf) \/ type # "hand"
  BY DEF Bodies
<1>6. /\ r.type = type /\ r.body = body /\ r.ver = t.version /\ r.sec = t.outsec
      /\ r.seq = (IF t.outsec = NoSec THEN 0 ELSE t.outseq) /\ r \in Recs(conf)
  <2> HIDE DEF t
  <2> QED  BY <1>1, <1>5, SealedOf
<1>7. Script(conf, Other(e), m + 1, r)
  <2>1. t.version = IF e = "c" /\ m + 1 = 1 THEN ProtocolVersion ELSE conf.svers
    BY <1>1, <1>3
  <2>2. m + 1 = Made(e, t, pc[e]) + 1
    OBVIOUS
  <2> HIDE DEF t, m
  <2> QED  BY <1>1, <1>3, <2>1, <2>2, SealScript
<1>8. /\ u \in TlsRecs(conf) /\ SameSetup(t, u) /\ SameReading(t, u) /\ SameHand(t, u)
      /\ u.outsec = t.outsec /\ u.outseq = t.outseq + 1
  <2> HIDE DEF t
  <2> QED  BY <1>1, <1>4, SealOf
<1> HIDE DEF u
<1>9. /\ TlsError(u) \in TlsRecs(conf)
      /\ SameSetup(u, TlsError(u)) /\ SameReading(u, TlsError(u))
      /\ SameWriting(u, TlsError(u)) /\ SameHand(u, TlsError(u))
  BY <1>8, ErrorOf
<1>10. ASSUME NEW v \in {u, TlsError(u)}
       PROVE  /\ v \in TlsRecs(conf) /\ SameSetup(t, v) /\ SameReading(t, v) /\ v.hand = t.hand
              /\ v.outsec = t.outsec /\ v.outseq = t.outseq + 1
  BY <1>8, <1>9 DEF SameSetup, SameReading, SameWriting, SameHand
<1>11. ASSUME NEW v \in {u, TlsError(u)}
       PROVE  /\ Counts(t, v) /\ v.outsec # NoSec /\ Made(e, v, pc[e]) = m + 1
  <2>1. v.inseq = t.inseq /\ v.insec = t.insec
    BY <1>10 DEF SameReading
  <2>2. Counts(t, v)
    <3>1. v.inseq >= t.inseq /\ v.outseq >= t.outseq
      BY <1>1, <1>10, <2>1
    <3> QED  BY <1>10, <2>1, <3>1 DEF Counts
  <2>3. Made(e, v, pc[e]) = m + 1
    <3>1. \A a \in {2, 3}, b \in Nat : a + (b + 1) = (a + b) + 1
      OBVIOUS
    <3>2. Made(e, v, pc[e]) = Turn(Other(e)) + v.outseq
      BY <1>1, <1>10 DEF Made
    <3> HIDE DEF m
    <3> QED  BY <1>1, <1>2, <1>10, <3>1, <3>2
  <2> QED  BY <1>1, <1>10, <2>2, <2>3
<1> QED  BY <1>1, <1>6, <1>7, <1>10, <1>11 DEF u

\* The reader answers a request for another handshake with a warning.
LEMMA ReaderAlertStep ==
  ASSUME IInv, NEW e \in Ends, ReaderAlert(e)
  PROVE  IInv'
<1> DEFINE f == Other(e)
           t == tr[e]
           may == MayWrite(t, "alert")
           r == Sealed(t, "alert", "noreneg")
           s == AfterSeal(t, "alert")
           u == IF may THEN IF broken THEN TlsError(s) ELSE s ELSE t
<1>1. rd[e] = "noreneg" /\ outio[e] = None /\ pc[e] = "open"
  <2>1. TypeOK /\ ReaderAt(e) /\ rd[e] \in {"noreneg", "alert"} /\ outio[e] = None
    BY DEF IInv, ReaderAlert
  <2> QED  BY <2>1 DEF TypeOK, ReaderAt
<1>2. f \in Ends /\ f # e /\ Other(f) = e
  BY EndsOf
<1>3. /\ TypeOK /\ ReaderAt(e) /\ Link(e) /\ Link(f) /\ t \in TlsRecs(conf)
      /\ t.insec # NoSec /\ t.outsec # NoSec /\ t.inseq \in Nat /\ t.outseq \in Nat /\ Sending(e)
  BY <1>1, OpenAt
<1>4. /\ got' = got /\ over' = over /\ refused' = refused /\ UNCHANGED readUnch
      /\ Reader(e, "read") /\ Put(e, u)
      /\ IF may THEN Bwrite(e, r) ELSE wire' = wire
  BY <1>1 DEF ReaderAlert
<1>5. /\ r \in Recs(conf) /\ r.type = "alert" /\ r.body = "noreneg" /\ r.sec # NoSec
      /\ Script(conf, f, Made(e, t, pc[e]) + 1, r)
      /\ \A v \in {s, TlsError(s)} :
              /\ v \in TlsRecs(conf) /\ Counts(t, v) /\ SameReading(t, v) /\ v.outsec # NoSec
              /\ v.outseq = t.outseq + 1 /\ Made(e, v, pc[e]) = Made(e, t, pc[e]) + 1
  BY <1>1, OpenSeal
<1>6. /\ got' = [got EXCEPT ![e] = got'[e]] /\ got'[e] \in Seq(Nat) /\ over' \subseteq Ends
      /\ Len(got'[e]) <= sent[f] /\ f \notin over'
  BY <1>1, <1>3, <1>4 DEF TypeOK, ReaderAt
<1>7. CASE ~may
  <2>1. u = t /\ wire' = wire
    BY <1>4, <1>7
  <2>2. Counts(t, t) /\ SameReading(t, t) /\ SameWriting(t, t)
    BY <1>3 DEF Counts, SameSetup, SameReading, SameWriting
  <2>3. wire' \in [Ends -> Seq(Recs(conf))]
    BY <1>3, <2>1 DEF TypeOK
  <2>4. Put(e, t)
    BY <1>4, <2>1
  <2> HIDE DEF u, t
  <2>5. ReaderGoes(e, t, "read")
    BY <1>1, <1>3, <1>4, <1>6, <2>2, <2>3, <2>4 DEF ReaderGoes, t
  <2>6. Link(e)' /\ Link(f)'
    BY <1>1, <1>4, <2>1, <2>2, <2>5, LinkReader DEF t
  <2> QED  BY <1>1, <2>5, <2>6, ReaderStep
<1>8. CASE may
  <2>1. u \in {s, TlsError(s)} /\ Bwrite(e, r)
    BY <1>4, <1>8
  <2> HIDE DEF u
  <2>2. /\ u \in TlsRecs(conf) /\ Counts(t, u) /\ SameReading(t, u) /\ u.outsec # NoSec
        /\ Made(e, u, pc[e]) = Made(e, t, pc[e]) + 1
    BY <1>5, <2>1
  <2> HIDE DEF r
  <2>3. /\ wire' \in [Ends -> Seq(Recs(conf))] /\ wire'[e] = wire[e]
        /\ wire'[f] = IF broken \/ eof[e] THEN wire[f] ELSE Append(wire[f], r)
    BY <1>3, <1>5, <2>1, BwriteOf
  <2>4. ReaderGoes(e, u, "read")
    BY <1>1, <1>4, <1>6, <2>2, <2>3 DEF ReaderGoes
  <2>5. tr'[e] = u /\ tr'[f] = tr[f]
    BY <1>3, <1>4, PutOf
  <2>6. rd'[e] = "read" /\ rd'[f] = rd[f]
    BY <1>2, <1>3, <1>4 DEF Reader, TypeOK
  <2>7. /\ conf' = conf /\ pc' = pc /\ requested' = requested /\ wr' = wr
        /\ outio' = outio /\ sent' = sent /\ eof' = eof /\ broken' = broken
    BY <1>4 DEF readUnch
  <2>8. /\ Pending(e) = 0 /\ Pending(e)' = 0 /\ Pending(f)' = Pending(f) /\ Alive(e)
        /\ Sending(e)' = Sending(e)
    BY <1>1, <2>7 DEF Pending, Alive, Sending
  <2>9. Taken(conf, e, u, pc[e]) = Taken(conf, e, t, pc[e]) /\ u.insec = t.insec
    BY <1>3, <2>2 DEF SameReading, Taken
  <2>10. Link(e)'
    BY <1>2, <1>3, <1>4, <2>3, <2>5, <2>6, <2>7, <2>8, <2>9, LinkQuiet
  <2>11. Link(f)'
    <3>1. r.type # "data" /\ ~Closes(r)
      BY <1>5 DEF Closes
    <3>2. UNCHANGED <<conf, eof, broken>> /\ tr'[e].outsec # NoSec /\ got'[f] = got[f] /\ sent'[e] = sent[e]
      BY <1>4, <2>2, <2>5, <2>7
    <3>3. Made(e, tr'[e], pc'[e]) = Made(e, tr[e], pc[e]) + 1 /\ pc'[f] = pc[f]
      BY <2>2, <2>5, <2>7
    <3> QED  BY <1>2, <1>3, <1>5, <2>3, <2>5, <2>6, <2>7, <2>8, <3>1, <3>2, <3>3, LinkPut
  <2> QED  BY <1>1, <2>4, <2>10, <2>11, ReaderStep
<1> QED  BY <1>7, <1>8

\* The program closes its data file.
LEMMA CloseFdStep ==
  ASSUME IInv, NEW e \in Ends, CloseFd(e)
  PROVE  IInv'
<1>1. /\ UNCHANGED <<conf, tr, pc, refused, requested, hsVars, netVars, rd, wr, pend, outio, sent, got, over>>
      /\ fdopen' = [fdopen EXCEPT ![e] = FALSE]
  BY DEF CloseFd
<1>2. /\ conf' = conf /\ tr' = tr /\ pc' = pc /\ refused' = refused /\ requested' = requested
      /\ cipher' = cipher /\ hash' = hash /\ master' = master /\ peercert' = peercert
      /\ wire' = wire /\ eof' = eof /\ broken' = broken /\ rd' = rd /\ wr' = wr /\ pend' = pend
      /\ outio' = outio /\ sent' = sent /\ got' = got /\ over' = over
  BY <1>1 DEF hsVars, netVars
<1>3. TypeOK /\ fdopen' \in [Ends -> BOOLEAN]
  BY <1>1 DEF IInv, TypeOK
<1>4. TypeOK'
  BY <1>2, <1>3 DEF TypeOK
<1>5. ASSUME NEW x \in Ends PROVE Place(x)' /\ ReaderAt(x)' /\ LockAt(x)' /\ NetAt(x)'
  <2>1. Place(x) /\ ReaderAt(x) /\ LockAt(x) /\ NetAt(x)
    BY DEF IInv
  <2>2. Place(x)'
    BY <1>2, <2>1 DEF Place
  <2> QED  BY <1>2, <2>1, <2>2 DEF ReaderAt, LockAt, NetAt
<1>6. ASSUME NEW x \in Ends PROVE Link(x)'
  <2>1. Link(x) /\ Pending(x)' = Pending(x) /\ Pending(Other(x))' = Pending(Other(x))
    BY <1>2 DEF IInv, Pending
  <2>2. Alive(x)' <=> Alive(x)
    BY <1>2 DEF Alive
  <2> QED  BY <1>2, <1>3, <2>1, <2>2, LinkQuiet
<1>7. ASSUME NEW w \in Writers PROVE WriterAt(w)'
  <2>1. WriterAt(w)
    BY DEF IInv
  <2> QED  BY <1>2, <2>1 DEF WriterAt
<1>8. InStep'
  BY <1>2 DEF IInv, InStep
<1> QED  BY <1>4, <1>5, <1>6, <1>7, <1>8 DEF IInv

-----------------------------------------------------------------------------
(* The writers *)

\* A step of writer w, which leaves the TlsRec as u and goes on at l
WriterGoes(w, u, l) ==
  LET e == Home[w] IN
  /\ pc[e] = "open" /\ Put(e, u) /\ Writer(w, l) /\ UNCHANGED writeUnch
  /\ u \in TlsRecs(conf) /\ Counts(tr[e], u) /\ SameReading(tr[e], u)
  /\ l \in {"idle", "want", "locked", "sealed", "dead"}
  /\ outio' = [outio EXCEPT ![e] = outio'[e]]
  /\ sent' = [sent EXCEPT ![e] = sent'[e]] /\ sent'[e] \in Nat /\ sent'[e] >= sent[e]
  /\ outio[e] \in {w, None} \/ (u = tr[e] /\ UNCHANGED <<outio, sent>>)
  /\ outio'[e] # None => (outio'[e] = w /\ l \in {"locked", "sealed"}) \/ (outio' = outio /\ outio[e] # w)
  /\ l \in {"locked", "sealed"} => outio'[e] = w
  /\ DOMAIN pend' = Writers /\ \A v \in Writers : v # w => pend'[v] = pend[v]
  /\ l = "sealed" =>
       /\ pend'[w] = [type |-> "data", ver |-> conf.svers, body |-> sent'[e] + 1,
                      sec |-> SendKey(conf, e), seq |-> u.outseq - 1]
       /\ u.outseq >= 2
  /\ wire' \in [Ends -> Seq(Recs(conf))] /\ wire'[e] = wire[e]

\* What is the same after it.
LEMMA WriterSame ==
  ASSUME IInv, NEW w \in Writers, NEW u, NEW l, WriterGoes(w, u, l)
  PROVE  LET e == Home[w] f == Other(Home[w]) IN
         /\ e \in Ends /\ f \in Ends /\ f # e /\ Other(f) = e
         /\ tr'[e] = u /\ tr'[f] = tr[f] /\ tr' = [tr EXCEPT ![e] = tr'[e]]
         /\ wr' = [wr EXCEPT ![w] = l] /\ wr'[w] = l /\ \A v \in Writers : v # w => wr'[v] = wr[v]
         /\ outio'[f] = outio[f] /\ sent'[f] = sent[f]
         /\ conf' = conf /\ pc' = pc /\ refused' = refused /\ requested' = requested
         /\ cipher' = cipher /\ hash' = hash /\ master' = master /\ peercert' = peercert
         /\ fdopen' = fdopen /\ rd' = rd /\ got' = got /\ over' = over /\ eof' = eof /\ broken' = broken
         /\ Pending(f)' = Pending(f)
<1> DEFINE e == Home[w]
           f == Other(e)
<1>1. /\ e \in Ends /\ f \in Ends /\ f # e /\ Other(f) = e /\ TypeOK /\ LockAt(f)
  BY EndsOf, TlsAssumption DEF IInv
<1>2. /\ Put(e, u) /\ Writer(w, l) /\ UNCHANGED writeUnch
      /\ outio' = [outio EXCEPT ![e] = outio'[e]] /\ sent' = [sent EXCEPT ![e] = sent'[e]]
  BY DEF WriterGoes
<1>3. tr'[e] = u /\ tr'[f] = tr[f] /\ tr' = [tr EXCEPT ![e] = tr'[e]]
  BY <1>1, <1>2, PutOf
<1>4. wr' = [wr EXCEPT ![w] = l] /\ wr'[w] = l /\ \A v \in Writers : v # w => wr'[v] = wr[v]
  BY <1>1, <1>2 DEF Writer, TypeOK
<1>5. outio'[f] = outio[f] /\ sent'[f] = sent[f]
  BY <1>1, <1>2 DEF TypeOK
<1>6. /\ conf' = conf /\ pc' = pc /\ refused' = refused /\ requested' = requested
      /\ cipher' = cipher /\ hash' = hash /\ master' = master /\ peercert' = peercert
      /\ fdopen' = fdopen /\ rd' = rd /\ got' = got /\ over' = over /\ eof' = eof /\ broken' = broken
  BY <1>2 DEF writeUnch, hsVars
<1>7. Pending(f)' = Pending(f)
  <2>1. ASSUME outio[f] # None PROVE wr'[outio[f]] = wr[outio[f]]
    <3>1. outio[f] \in Writers /\ outio[f] # w
      BY <1>1, <2>1 DEF TypeOK, LockAt
    <3> QED  BY <1>4, <3>1
  <2> QED  BY <1>5, <2>1 DEF Pending
<1> QED  BY <1>1, <1>3, <1>4, <1>5, <1>6, <1>7

\* What such a step has to do for the invariant.
LEMMA WriterStep ==
  ASSUME IInv, NEW w \in Writers, NEW u, NEW l, WriterGoes(w, u, l), Link(Other(Home[w]))'
  PROVE  IInv'
<1> DEFINE e == Home[w]
           f == Other(e)
           t == tr[e]
<1>1. /\ e \in Ends /\ f \in Ends /\ f # e /\ Other(f) = e
      /\ tr'[e] = u /\ tr'[f] = tr[f] /\ tr' = [tr EXCEPT ![e] = tr'[e]]
      /\ wr' = [wr EXCEPT ![w] = l] /\ wr'[w] = l /\ \A v \in Writers : v # w => wr'[v] = wr[v]
      /\ outio'[f] = outio[f] /\ sent'[f] = sent[f]
      /\ conf' = conf /\ pc' = pc /\ refused' = refused /\ requested' = requested
      /\ cipher' = cipher /\ hash' = hash /\ master' = master /\ peercert' = peercert
      /\ fdopen' = fdopen /\ rd' = rd /\ got' = got /\ over' = over /\ eof' = eof /\ broken' = broken
      /\ Pending(f)' = Pending(f)
  BY WriterSame
<1>2. /\ pc[e] = "open" /\ u \in TlsRecs(conf) /\ Counts(t, u) /\ SameReading(t, u)
      /\ l \in {"idle", "want", "locked", "sealed", "dead"}
      /\ outio' = [outio EXCEPT ![e] = outio'[e]]
      /\ sent' = [sent EXCEPT ![e] = sent'[e]] /\ sent'[e] \in Nat /\ sent'[e] >= sent[e]
      /\ DOMAIN pend' = Writers /\ \A v \in Writers : v # w => pend'[v] = pend[v]
      /\ wire' \in [Ends -> Seq(Recs(conf))] /\ wire'[e] = wire[e]
  BY DEF WriterGoes
<1>3. /\ outio[e] \in {w, None} \/ (u = t /\ UNCHANGED <<outio, sent>>)
      /\ outio'[e] # None => (outio'[e] = w /\ l \in {"locked", "sealed"}) \/ (outio' = outio /\ outio[e] # w)
      /\ l \in {"locked", "sealed"} => outio'[e] = w
      /\ l = "sealed" =>
           /\ pend'[w] = [type |-> "data", ver |-> conf.svers, body |-> sent'[e] + 1,
                          sec |-> SendKey(conf, e), seq |-> u.outseq - 1]
           /\ u.outseq >= 2
  BY DEF WriterGoes
<1>4. /\ TypeOK /\ Link(e) /\ ReaderAt(e) /\ ReaderAt(f) /\ LockAt(e)
      /\ \A v \in Writers : WriterAt(v)
      /\ t.insec # NoSec
  BY <1>1, <1>2, OpenAt
<1>5. /\ rd' = [rd EXCEPT ![e] = rd'[e]] /\ got' = [got EXCEPT ![e] = got'[e]]
      /\ rd'[e] \in {"idle", "read", "noreneg", "dead"} /\ got'[e] \in Seq(Nat)
      /\ over' \subseteq Ends /\ requested' \in BOOLEAN /\ fdopen' \in [Ends -> BOOLEAN]
      /\ wr' \in [Writers -> {"idle", "want", "locked", "sealed", "dead"}]
  BY <1>1, <1>2, <1>4 DEF TypeOK
<1>6. outio'[e] \in Writers \union {None}
  BY <1>1, <1>3, <1>4 DEF TypeOK
<1>7. Uses(e)
  <2>1. \A v \in Writers : Home[v] # e => wr'[v] = wr[v] /\ pend'[v] = pend[v]
    BY <1>1, <1>2
  <2> QED  BY <1>1, <1>2, <1>5, <2>1 DEF Uses, hsVars
<1>8. Place(e)'
  BY <1>1, <1>2, OpenPlace DEF hsVars
<1>9. Link(e)'
  <2>1. u.insec = t.insec /\ Taken(conf, e, u, pc[e]) = Taken(conf, e, t, pc[e])
    BY <1>2, <1>4 DEF SameReading, Taken
  <2>2. Alive(e)' => Alive(e)
    BY <1>1 DEF Alive
  <2> QED  BY <1>1, <1>2, <1>4, <2>1, <2>2, LinkQuiet
<1>10. ReaderAt(e)'
  BY <1>1, <1>2, <1>4 DEF ReaderAt
<1>11. ReaderAt(f)'
  <2>1. Len(got[f]) <= sent'[e]
    <3>1. Len(got[f]) \in Nat /\ sent[e] \in Nat /\ Len(got[f]) <= sent[e]
      BY <1>1, <1>4, TypesOf DEF ReaderAt
    <3> QED  BY <1>2, <3>1
  <2>2. /\ rd[f] \in {"read", "noreneg"} => pc[f] = "open"
        /\ pc[f] \notin {"open", "closed"} => rd[f] = "idle"
        /\ e \in over => rd[f] = "dead"
        /\ pc[f] \notin {"open", "closed"} => got[f] = <<>> /\ sent[f] = 0
    BY <1>1, <1>4 DEF ReaderAt
  <2> QED  BY <1>1, <2>1, <2>2 DEF ReaderAt
<1>12. LockAt(e)'
  <2>1. CASE outio'[e] = w /\ l \in {"locked", "sealed"}
    BY <1>1, <2>1 DEF LockAt
  <2>2. CASE outio' = outio /\ outio[e] # w
    <3>1. outio[e] # None => outio[e] \in Writers /\ wr'[outio[e]] = wr[outio[e]]
      BY <1>1, <1>4, <2>2 DEF TypeOK
    <3> QED  BY <1>4, <2>2, <3>1 DEF LockAt
  <2> QED  BY <1>3, <2>1, <2>2 DEF LockAt
<1>13. ASSUME NEW v \in Writers, Home[v] = e PROVE WriterAt(v)'
  <2>1. CASE v = w
    BY <1>1, <1>2, <1>3, <2>1 DEF WriterAt
  <2>2. CASE v # w
    <3>1. wr'[v] = wr[v] /\ pend'[v] = pend[v] /\ WriterAt(v)
      BY <1>1, <1>2, <1>4, <2>2
    <3>2. CASE outio[e] \in {w, None}
      <4>1. wr[v] \notin {"locked", "sealed"}
        BY <1>13, <2>2, <3>1, <3>2, TlsAssumption DEF WriterAt
      <4> QED  BY <1>1, <1>2, <1>13, <3>1, <4>1 DEF WriterAt
    <3>3. CASE u = t /\ UNCHANGED <<outio, sent>>
      BY <1>1, <1>2, <1>13, <3>1, <3>3 DEF WriterAt
    <3> QED  BY <1>3, <3>2, <3>3
  <2> QED  BY <2>1, <2>2
<1> QED  BY <1>1, <1>2, <1>5, <1>6, <1>7, <1>8, <1>9, <1>10, <1>11, <1>12, <1>13, DataStep

\* The records on their way, when a writer makes none and puts none there.
LEMMA LinkWriter ==
  ASSUME IInv, NEW w \in Writers, NEW u, NEW l, WriterGoes(w, u, l),
         wire' = wire, sent' = sent, SameWriting(tr[Home[w]], u),
         \/ Pending(Home[w])' = Pending(Home[w])
         \/ broken \/ eof[Home[w]]
  PROVE  Link(Other(Home[w]))'
<1> DEFINE e == Home[w]
           f == Other(e)
           t == tr[e]
<1>1. /\ e \in Ends /\ f \in Ends /\ f # e /\ Other(f) = e
      /\ tr'[e] = u /\ tr'[f] = tr[f] /\ conf' = conf /\ pc' = pc /\ requested' = requested
      /\ rd' = rd /\ got' = got /\ eof' = eof /\ broken' = broken
  BY WriterSame
<1>2. TypeOK /\ Link(f)
  BY <1>1 DEF IInv
<1>3. u.outsec = t.outsec /\ Made(e, u, pc[e]) = Made(e, t, pc[e])
  BY DEF SameWriting, Made
<1>4. Flows(f)' => Flows(f) /\ Pending(e)' = Pending(e)
  BY <1>1 DEF Flows, Sending
<1> QED  BY <1>1, <1>2, <1>3, <1>4, LinkSame

\* What there is where a writer is.
LEMMA WriterHas ==
  ASSUME IInv, NEW w \in Writers, wr[w] \in {"want", "locked", "sealed"} \/ pc[Home[w]] = "open"
  PROVE  LET e == Home[w] IN
         /\ e \in Ends /\ pc[e] = "open" /\ TypeOK /\ WriterAt(w) /\ LockAt(e)
         /\ tr[e] \in TlsRecs(conf) /\ tr[e].outseq \in Nat /\ tr[e].outsec # NoSec
         /\ sent[e] \in Nat /\ outio = [outio EXCEPT ![e] = outio[e]] /\ sent = [sent EXCEPT ![e] = sent[e]]
         /\ Put(e, tr[e]) <=> tr' = tr
         /\ Counts(tr[e], tr[e]) /\ SameReading(tr[e], tr[e]) /\ SameWriting(tr[e], tr[e])
         /\ wire \in [Ends -> Seq(Recs(conf))]
<1> DEFINE e == Home[w]
<1>1. e \in Ends /\ TypeOK /\ WriterAt(w) /\ LockAt(e)
  BY TlsAssumption DEF IInv
<1>2. pc[e] = "open"
  BY <1>1 DEF WriterAt
<1>3. /\ tr[e] \in TlsRecs(conf) /\ tr[e].outseq \in Nat /\ tr[e].inseq \in Nat /\ tr[e].outsec # NoSec
  BY <1>1, <1>2, OpenAt
<1>4. Counts(tr[e], tr[e]) /\ SameReading(tr[e], tr[e]) /\ SameWriting(tr[e], tr[e])
  BY <1>3 DEF Counts, SameSetup, SameReading, SameWriting
<1>5. /\ sent[e] \in Nat /\ outio = [outio EXCEPT ![e] = outio[e]] /\ sent = [sent EXCEPT ![e] = sent[e]]
      /\ tr = [tr EXCEPT ![e] = tr[e]] /\ wire \in [Ends -> Seq(Recs(conf))]
  BY <1>1 DEF TypeOK
<1> QED  BY <1>1, <1>2, <1>3, <1>4, <1>5 DEF Put

\* A write begins.
LEMMA WriteBeginStep ==
  ASSUME IInv, NEW w \in Writers, WriteBegin(w)
  PROVE  IInv'
<1> DEFINE e == Home[w]
           t == tr[e]
           l == IF t.state = "SOpen" THEN "want" ELSE "dead"
<1>1. /\ pc[e] = "open" /\ wr[w] = "idle" /\ Writer(w, l)
      /\ UNCHANGED writeUnch /\ tr' = tr /\ pend' = pend /\ outio' = outio /\ sent' = sent /\ wire' = wire
  BY DEF WriteBegin
<1>2. /\ e \in Ends /\ TypeOK /\ LockAt(e) /\ t \in TlsRecs(conf)
      /\ sent[e] \in Nat /\ outio = [outio EXCEPT ![e] = outio[e]] /\ sent = [sent EXCEPT ![e] = sent[e]]
      /\ Put(e, t) /\ Counts(t, t) /\ SameReading(t, t) /\ SameWriting(t, t)
      /\ wire \in [Ends -> Seq(Recs(conf))]
  BY <1>1, WriterHas
<1>3. l \in {"want", "dead"}
  OBVIOUS
<1>4. outio[e] # w
  BY <1>1, <1>2, TlsAssumption DEF LockAt
<1>5. DOMAIN pend' = Writers /\ sent'[e] >= sent[e]
  BY <1>1, <1>2 DEF TypeOK
<1> HIDE DEF l, t
<1>6. WriterGoes(w, t, l)
  BY <1>1, <1>2, <1>3, <1>4, <1>5 DEF WriterGoes, t
<1>7. Pending(e)' = Pending(e)
  <2>1. outio[e] # None => wr'[outio[e]] = wr[outio[e]]
    BY <1>1, <1>2, <1>4 DEF Writer, TypeOK
  <2> QED  BY <1>1, <2>1 DEF Pending
<1>8. Link(Other(e))'
  BY <1>1, <1>2, <1>6, <1>7, LinkWriter DEF t
<1> QED  BY <1>6, <1>8, WriterStep

\* A writer takes out.io.
LEMMA WriteLockStep ==
  ASSUME IInv, NEW w \in Writers, WriteLock(w)
  PROVE  IInv'
<1> DEFINE e == Home[w]
           t == tr[e]
<1>1. /\ wr[w] = "want" /\ outio[e] = None /\ Lock(e, w) /\ Writer(w, "locked")
      /\ UNCHANGED writeUnch /\ tr' = tr /\ pend' = pend /\ sent' = sent /\ wire' = wire
  BY DEF WriteLock
<1>2. /\ e \in Ends /\ pc[e] = "open" /\ TypeOK /\ t \in TlsRecs(conf)
      /\ sent[e] \in Nat /\ sent = [sent EXCEPT ![e] = sent[e]]
      /\ Put(e, t) /\ Counts(t, t) /\ SameReading(t, t) /\ SameWriting(t, t)
      /\ wire \in [Ends -> Seq(Recs(conf))]
  BY <1>1, WriterHas
<1>3. outio'[e] = w /\ outio' = [outio EXCEPT ![e] = outio'[e]] /\ wr'[w] = "locked"
  BY <1>1, <1>2 DEF Lock, Writer, TypeOK
<1>4. DOMAIN pend' = Writers /\ sent'[e] >= sent[e]
  BY <1>1, <1>2 DEF TypeOK
<1> HIDE DEF t
<1>5. WriterGoes(w, t, "locked")
  BY <1>1, <1>2, <1>3, <1>4 DEF WriterGoes, t
<1>6. Pending(e)' = Pending(e)
  BY <1>1, <1>3 DEF Pending
<1>7. Link(Other(e))'
  BY <1>1, <1>2, <1>5, <1>6, LinkWriter DEF t
<1> QED  BY <1>5, <1>7, WriterStep

\* A writer makes its record, or finds that it may not.
LEMMA WriteSealStep ==
  ASSUME IInv, NEW w \in Writers, WriteSeal(w)
  PROVE  IInv'
<1> DEFINE e == Home[w]
           f == Other(e)
           t == tr[e]
           r == Sealed(t, "data", sent[e] + 1)
           u == AfterSeal(t, "data")
<1>1. /\ wr[w] = "locked" /\ UNCHANGED writeUnch /\ sent' = sent /\ wire' = wire
      /\ IF MayWrite(t, "data")
         THEN /\ pend' = [pend EXCEPT ![w] = r]
              /\ Put(e, u) /\ Writer(w, "sealed") /\ outio' = outio
         ELSE Writer(w, "dead") /\ Lock(e, None) /\ pend' = pend /\ tr' = tr
  BY DEF WriteSeal
<1>2. /\ e \in Ends /\ pc[e] = "open" /\ TypeOK /\ t \in TlsRecs(conf) /\ t.outseq \in Nat /\ t.outsec # NoSec
      /\ sent[e] \in Nat /\ outio = [outio EXCEPT ![e] = outio[e]] /\ sent = [sent EXCEPT ![e] = sent[e]]
      /\ Put(e, t) <=> tr' = tr
      /\ Counts(t, t) /\ SameReading(t, t) /\ SameWriting(t, t)
      /\ wire \in [Ends -> Seq(Recs(conf))]
  BY <1>1, WriterHas
<1>3. outio[e] = w /\ Pending(e) = 0 /\ w # None
  BY <1>1, <1>2, WriterHas, TlsAssumption DEF WriterAt, Pending
<1>4. DOMAIN pend' = Writers /\ sent'[e] >= sent[e]
  BY <1>1, <1>2 DEF TypeOK
<1>5. CASE ~MayWrite(t, "data")
  <2>1. /\ Writer(w, "dead") /\ Lock(e, None) /\ pend' = pend /\ Put(e, t)
    BY <1>1, <1>2, <1>5
  <2>2. outio'[e] = None /\ outio' = [outio EXCEPT ![e] = outio'[e]]
    BY <1>2, <2>1 DEF Lock, TypeOK
  <2> HIDE DEF t
  <2>3. WriterGoes(w, t, "dead")
    BY <1>1, <1>2, <1>3, <1>4, <2>1, <2>2 DEF WriterGoes, t
  <2>4. Pending(e)' = Pending(e)
    BY <1>3, <2>2 DEF Pending
  <2>5. Link(f)'
    BY <1>1, <1>2, <2>3, <2>4, LinkWriter DEF t
  <2> QED  BY <2>3, <2>5, WriterStep
<1>6. CASE MayWrite(t, "data")
  <2>1. pend' = [pend EXCEPT ![w] = r] /\ Put(e, u) /\ Writer(w, "sealed") /\ outio' = outio
    BY <1>1, <1>6
  <2>2. sent[e] + 1 \in Nat
    BY <1>2
  <2>3. /\ r.type = "data" /\ r.body = sent[e] + 1 /\ r.ver = conf.svers
        /\ r.sec = SendKey(conf, e) /\ r.seq = t.outseq
        /\ \A v \in {u, TlsError(u)} :
              /\ v \in TlsRecs(conf) /\ Counts(t, v) /\ SameReading(t, v) /\ v.outsec # NoSec
              /\ v.outseq = t.outseq + 1 /\ Made(e, v, pc[e]) = Made(e, t, pc[e]) + 1
    <3> DEFINE b == sent[e] + 1
    <3>1. b \in Nat
      BY <2>2
    <3>3. e \in Ends /\ pc[e] = "open"
      BY <1>2
    <3> HIDE DEF b, e
    <3>2. LET x == Sealed(t, "data", b) IN
            /\ x.type = "data" /\ x.body = b /\ x.ver = conf.svers
            /\ x.sec = SendKey(conf, e) /\ x.seq = t.outseq
            /\ \A v \in {u, TlsError(u)} :
                 /\ v \in TlsRecs(conf) /\ Counts(t, v) /\ SameReading(t, v) /\ v.outsec # NoSec
                 /\ v.outseq = t.outseq + 1 /\ Made(e, v, pc[e]) = Made(e, t, pc[e]) + 1
      BY <3>1, <3>3, OpenSeal
    <3> QED  BY <3>2 DEF b, e
  <2>4. /\ u \in TlsRecs(conf) /\ Counts(t, u) /\ SameReading(t, u) /\ u.outsec # NoSec
        /\ u.outseq = t.outseq + 1 /\ Made(e, u, pc[e]) = Made(e, t, pc[e]) + 1
    BY <2>3
  <2>5. t.outseq >= 1
    BY <1>2, OpenAt
  <2> HIDE DEF u
  <2>6. u.outseq >= 2 /\ u.outseq - 1 = t.outseq
    <3>1. \A a, b \in Nat : b = a + 1 /\ a >= 1 => b >= 2 /\ b - 1 = a
      OBVIOUS
    <3>2. u.outseq \in Nat /\ t.outseq \in Nat /\ u.outseq = t.outseq + 1
      BY <1>2, <2>4
    <3> HIDE DEF t
    <3> QED  BY <2>5, <3>1, <3>2
  <2>7. pend'[w] = [type |-> "data", ver |-> conf.svers, body |-> sent'[e] + 1,
                    sec |-> SendKey(conf, e), seq |-> u.outseq - 1]
    <3>1. r = [type |-> "data", ver |-> t.version, body |-> sent[e] + 1,
               sec |-> t.outsec, seq |-> IF t.outsec = NoSec THEN 0 ELSE t.outseq]
      BY DEF Sealed
    <3>2. t.version = conf.svers /\ t.outsec = SendKey(conf, e)
      BY <1>2, OpenAt
    <3>3. pend'[w] = r
      BY <1>2, <2>1 DEF TypeOK
    <3> HIDE DEF r, t
    <3> QED  BY <1>1, <1>2, <2>6, <3>1, <3>2, <3>3
  <2>8. \A v \in Writers : v # w => pend'[v] = pend[v]
    BY <1>2, <2>1 DEF TypeOK
  <2>9. WriterGoes(w, u, "sealed")
    BY <1>1, <1>2, <1>3, <1>4, <2>1, <2>4, <2>6, <2>7, <2>8 DEF WriterGoes
  <2>10. /\ f \in Ends /\ Other(f) = e /\ tr'[e] = u /\ tr'[f] = tr[f]
         /\ conf' = conf /\ pc' = pc /\ requested' = requested
         /\ rd' = rd /\ got' = got /\ eof' = eof /\ broken' = broken
         /\ wr'[w] = "sealed"
    BY <2>9, WriterSame
  <2>11. Link(f) /\ Pending(e)' = 1
    BY <1>3, <2>1, <2>10 DEF IInv, Pending
  <2>12. Link(f)'
    BY <1>1, <1>2, <1>3, <2>4, <2>10, <2>11, LinkSeal
  <2> QED  BY <2>9, <2>12, WriterStep
<1> QED  BY <1>5, <1>6

\* A writer's record is on its way.
LEMMA WriteOutStep ==
  ASSUME IInv, NEW w \in Writers, WriteOut(w)
  PROVE  IInv'
<1> DEFINE e == Home[w]
           f == Other(e)
           t == tr[e]
           r == pend[w]
<1>1. /\ wr[w] = "sealed" /\ Bwrite(e, r) /\ pend' = [pend EXCEPT ![w] = None]
      /\ sent' = [sent EXCEPT ![e] = @ + 1] /\ Writer(w, "idle") /\ Lock(e, None)
      /\ UNCHANGED writeUnch /\ tr' = tr
  BY DEF WriteOut
<1>2. /\ e \in Ends /\ pc[e] = "open" /\ TypeOK /\ WriterAt(w)
      /\ t \in TlsRecs(conf) /\ t.outseq \in Nat /\ t.outsec # NoSec
      /\ sent[e] \in Nat /\ Put(e, t)
      /\ Counts(t, t) /\ SameReading(t, t)
  BY <1>1, WriterHas
<1>3. outio[e] = w /\ Pending(e) = 1 /\ w # None
  BY <1>1, <1>2, TlsAssumption DEF WriterAt, Pending
<1>4. /\ r = [type |-> "data", ver |-> conf.svers, body |-> sent[e] + 1,
              sec |-> SendKey(conf, e), seq |-> t.outseq - 1]
      /\ t.outseq >= 2
  BY <1>1, <1>2 DEF WriterAt
<1>5. /\ f \in Ends /\ f # e /\ Other(f) = e /\ conf \in Confs
  BY <1>2, EndsOf DEF TypeOK
<1>6. r \in Recs(conf)
  <2>1. /\ conf.svers \in 0 .. 3 /\ SendKey(conf, e) \in Secs(conf) /\ sent[e] + 1 \in Nat /\ t.outseq - 1 \in Nat
    BY <1>2, <1>4, <1>5, SetupOf, KeysOf
  <2> HIDE DEF r, t
  <2> QED  BY <1>4, <2>1 DEF Recs, Records
<1>7. Script(conf, f, Made(e, t, pc[e]), r)
  <2>1. Made(e, t, pc[e]) = Turn(f) + t.outseq /\ Turn(f) \in {2, 3}
    BY <1>2, <1>5, EndsOf DEF Made
  <2>2. \A a \in {2, 3}, b, c \in Nat : c = a + b /\ b >= 2 =>
          ~(c <= a) /\ ~(c <= a + 1) /\ c > a + 1 /\ c # 1 /\ c - a - 1 = b - 1
    OBVIOUS
  <2>3. Made(e, t, pc[e]) \in Nat
    BY <1>2, TypesOf
  <2> DEFINE n == Made(e, t, pc[e])
  <2> HIDE DEF n
  <2>4. /\ ~(n <= Turn(f)) /\ ~(n <= Turn(f) + 1) /\ n > Turn(f) + 1 /\ n # 1
        /\ n - Turn(f) - 1 = t.outseq - 1
    BY <1>2, <1>4, <2>1, <2>2, <2>3 DEF n
  <2>5. r.sec = SendKey(conf, e) /\ r.seq = t.outseq - 1 /\ r.ver = conf.svers /\ r.type = "data"
    BY <1>4
  <2> HIDE DEF r, t
  <2> QED  BY <1>5, <2>4, <2>5 DEF Script, n
<1>8. /\ wire' \in [Ends -> Seq(Recs(conf))] /\ wire'[e] = wire[e]
      /\ wire'[f] = IF broken \/ eof[e] THEN wire[f] ELSE Append(wire[f], r)
  <2> HIDE DEF r
  <2> QED  BY <1>1, <1>2, <1>6, BwriteOf
<1>9. /\ sent'[e] = sent[e] + 1 /\ sent'[e] \in Nat /\ sent'[e] >= sent[e]
      /\ sent' = [sent EXCEPT ![e] = sent'[e]]
      /\ outio'[e] = None /\ outio' = [outio EXCEPT ![e] = outio'[e]]
      /\ DOMAIN pend' = Writers /\ \A v \in Writers : v # w => pend'[v] = pend[v]
  <2>1. /\ sent'[e] = sent[e] + 1 /\ sent'[e] \in Nat /\ sent'[e] >= sent[e]
        /\ sent' = [sent EXCEPT ![e] = sent'[e]]
    <3>1. sent' = [sent EXCEPT ![e] = sent[e] + 1] /\ sent \in [Ends -> Nat]
      BY <1>1, <1>2 DEF TypeOK
    <3>2. sent'[e] = sent[e] + 1
      BY <1>2, <3>1
    <3>3. sent'[e] \in Nat /\ sent'[e] >= sent[e]
      BY <1>2, <3>2
    <3>4. sent' = [sent EXCEPT ![e] = sent'[e]]
      BY <3>1, <3>2
    <3> QED  BY <3>2, <3>3, <3>4
  <2>2. outio'[e] = None /\ outio' = [outio EXCEPT ![e] = outio'[e]]
    BY <1>1, <1>2 DEF TypeOK, Lock
  <2>3. DOMAIN pend' = Writers /\ \A v \in Writers : v # w => pend'[v] = pend[v]
    BY <1>1, <1>2 DEF TypeOK
  <2> QED  BY <2>1, <2>2, <2>3
<1>10. WriterGoes(w, t, "idle")
  <2> HIDE DEF t
  <2> QED  BY <1>1, <1>2, <1>3, <1>8, <1>9 DEF WriterGoes, t
<1>11. /\ conf' = conf /\ pc' = pc /\ requested' = requested
       /\ rd' = rd /\ got' = got /\ eof' = eof /\ broken' = broken
  BY <1>10, WriterSame
<1>12. Link(f) /\ Pending(e)' = 0 /\ Len(got[f]) <= sent[e]
  BY <1>5, <1>9 DEF IInv, Pending, ReaderAt
<1>13. Link(f)'
  <2>1. r.type = "data" /\ r.body = sent[e] + 1
    BY <1>4
  <2> HIDE DEF r
  <2> QED  BY <1>1, <1>2, <1>3, <1>5, <1>6, <1>7, <1>8, <1>9, <1>11, <1>12, <2>1, LinkData
<1> QED  BY <1>10, <1>13, WriterStep

\* A writer's write fails.
LEMMA WriteFailsStep ==
  ASSUME IInv, NEW w \in Writers, WriteFails(w)
  PROVE  IInv'
<1> DEFINE e == Home[w]
           t == tr[e]
           u == TlsError(t)
<1>1. /\ wr[w] = "sealed" /\ (broken \/ eof[e]) /\ Put(e, u) /\ pend' = [pend EXCEPT ![w] = None]
      /\ Writer(w, "dead") /\ Lock(e, None) /\ UNCHANGED writeUnch /\ sent' = sent /\ wire' = wire
  BY DEF WriteFails
<1>2. /\ e \in Ends /\ pc[e] = "open" /\ TypeOK /\ WriterAt(w) /\ t \in TlsRecs(conf)
      /\ sent[e] \in Nat /\ sent = [sent EXCEPT ![e] = sent[e]]
      /\ wire \in [Ends -> Seq(Recs(conf))]
  BY <1>1, WriterHas
<1>3. outio[e] = w
  BY <1>1, <1>2 DEF WriterAt
<1>4. /\ u \in TlsRecs(conf) /\ SameSetup(t, u) /\ SameReading(t, u) /\ SameWriting(t, u) /\ SameHand(t, u)
  BY <1>2, ErrorOf
<1>5. Counts(t, u)
  <2>1. t.inseq \in Nat /\ t.outseq \in Nat
    BY <1>2, FieldsOf
  <2> QED  BY <1>4, <2>1 DEF Counts, SameReading, SameWriting, SameHand
<1>6. /\ outio'[e] = None /\ outio' = [outio EXCEPT ![e] = outio'[e]]
      /\ DOMAIN pend' = Writers /\ (\A v \in Writers : v # w => pend'[v] = pend[v])
      /\ sent'[e] \in Nat /\ sent'[e] >= sent[e]
  <2>1. outio'[e] = None /\ outio' = [outio EXCEPT ![e] = outio'[e]]
    BY <1>1, <1>2 DEF TypeOK, Lock
  <2>2. DOMAIN pend' = Writers /\ \A v \in Writers : v # w => pend'[v] = pend[v]
    BY <1>1, <1>2 DEF TypeOK
  <2>3. sent'[e] \in Nat /\ sent'[e] >= sent[e]
    BY <1>1, <1>2
  <2> QED  BY <2>1, <2>2, <2>3
<1> HIDE DEF u
<1>7. WriterGoes(w, u, "dead")
  BY <1>1, <1>2, <1>3, <1>4, <1>5, <1>6 DEF WriterGoes
<1>8. Link(Other(e))'
  BY <1>1, <1>4, <1>7, LinkWriter
<1> QED  BY <1>7, <1>8, WriterStep

-----------------------------------------------------------------------------
(* The end of a connection *)

\* The last reference to an end is gone.
LEMMA TlscloseStep ==
  ASSUME IInv, NEW e \in Ends, Tlsclose(e)
  PROVE  IInv'
<1> DEFINE f == Other(e)
           t == tr[e]
           u == [t EXCEPT !.state = "SClosed"]
           r == Sealed(t, "alert", "close")
           says == t.state \in {"SOpen", "SHandshake", "SRClose"} /\ ~eof[e]
<1>1. f \in Ends /\ f # e /\ Other(f) = e /\ \A x \in Ends : x = e \/ x = f
  BY EndsOf
<1>2. pc[e] = "open" /\ rd[e] \in {"idle", "dead"} /\ Writing(e) = {}
  BY DEF Tlsclose, Unused
<1>3. /\ TypeOK /\ conf \in Confs /\ t \in TlsRecs(conf) /\ Place(e) /\ Place(f)
      /\ Link(e) /\ Link(f) /\ LockAt(e) /\ t.outsec = SendKey(conf, e) /\ t.outsec # NoSec
      /\ t.version = conf.svers /\ t.outseq \in Nat /\ t.outseq >= 1 /\ Sending(e)
  BY <1>1, <1>2, OpenAt DEF IInv
<1>4. /\ Put(e, u) /\ Goto(e, "closed") /\ eof' = [eof EXCEPT ![f] = TRUE]
      /\ conf' = conf /\ refused' = refused /\ requested' = requested /\ broken' = broken
      /\ cipher' = cipher /\ hash' = hash /\ master' = master /\ peercert' = peercert
      /\ fdopen' = fdopen /\ rd' = rd /\ wr' = wr /\ pend' = pend /\ outio' = outio
      /\ sent' = sent /\ got' = got /\ over' = over
  BY DEF Tlsclose, hsVars, ioVars
<1>5. /\ wire' \in [Ends -> {wire'[e], wire'[f]}] /\ wire'[e] = <<>>
      /\ wire'[f] = IF says THEN Append(wire[f], r) ELSE wire[f]
  <2>1. wire' = [x \in Ends |-> CASE x = e -> <<>>
                                  [] x # e /\ says -> Append(wire[x], r)
                                  [] OTHER -> wire[x]]
    BY DEF Tlsclose
  <2> HIDE DEF says, r
  <2> QED  BY <1>1, <2>1
<1>6. tr'[e] = u /\ tr'[f] = tr[f] /\ tr' = [tr EXCEPT ![e] = u]
  BY <1>3, <1>4, PutOf DEF Put
<1>7. pc'[e] = "closed" /\ pc'[f] = pc[f] /\ pc' = [pc EXCEPT ![e] = "closed"]
  BY <1>3, <1>4, PutOf DEF Goto
<1>8. eof'[f] /\ eof'[e] = eof[e] /\ eof' \in [Ends -> BOOLEAN]
  BY <1>1, <1>3, <1>4 DEF TypeOK
<1>9. /\ u \in TlsRecs(conf) /\ u.version = t.version /\ u.opened = t.opened
      /\ u.insec = t.insec /\ u.inseq = t.inseq /\ u.outsec = t.outsec
  BY <1>3 DEF TlsRecs, States
<1> HIDE DEF u
<1>10. r \in Recs(conf) /\ r.type = "alert" /\ r.body = "close" /\ r.sec = t.outsec
  <2> HIDE DEF t
  <2> QED  BY <1>3, SealedOf
<1>11. outio[e] = None /\ Pending(e) = 0 /\ Pending(e)' = 0 /\ Pending(f)' = Pending(f)
  <2>1. outio[e] = None
    <3>1. outio[e] # None => outio[e] \in Writing(e)
      BY <1>3 DEF LockAt, Writing, TypeOK
    <3> QED  BY <1>2, <3>1
  <2> QED  BY <1>4, <2>1 DEF Pending
<1>12. ~Alive(e)' /\ ~Sending(e)' /\ ~Flows(f)'
  BY <1>1, <1>7 DEF Alive, Sending, Flows, Shaking, ClientShaking, ServerShaking
<1>13. TypeOK'
  <2>1. tr' \in [Ends -> TlsRecs(conf)]
    BY <1>3, <1>6, <1>9 DEF TypeOK
  <2>2. pc' \in [Ends -> Shaking \union {"nofinished", "err", "failed", "open", "closed"}]
    BY <1>3, <1>7 DEF TypeOK
  <2>3. wire' \in [Ends -> Seq(Recs(conf))]
    <3>1. wire[f] \in Seq(Recs(conf)) /\ <<>> \in Seq(Recs(conf))
      BY <1>1, <1>3, TypesOf
    <3>2. Append(wire[f], r) \in Seq(Recs(conf))
      BY <1>10, <3>1, ListOf
    <3>3. wire'[e] \in Seq(Recs(conf)) /\ wire'[f] \in Seq(Recs(conf))
      <4> HIDE DEF says, r
      <4> QED  BY <1>5, <3>1, <3>2
    <3> QED  BY <1>5, <3>3
  <2> QED  BY <1>3, <1>4, <1>8, <2>1, <2>2, <2>3 DEF TypeOK
<1>14. Place(e)'
  <2>1. EndPlace(conf, e, u, "closed", cipher[e], master[e])
    <3>1. EndPlace(conf, e, t, "open", cipher[e], master[e])
      BY <1>2, <1>3 DEF Place
    <3> HIDE DEF t
    <3> QED  BY <1>9, <3>1 DEF EndPlace, Shaking, ClientShaking, ServerShaking
  <2>2. ClientPlace(conf, u, "closed", hash[e], cipher[e], master[e], peercert)
    BY DEF ClientPlace
  <2>3. ServerPlace(conf, u, "closed", hash[e], cipher[e], master[e])
    BY DEF ServerPlace
  <2>4. "closed" \notin ClientShaking \union ServerShaking
    BY DEF ClientShaking, ServerShaking
  <2>5. e = "s" => u.version = conf.svers
    BY <1>3, <1>9
  <2> QED  BY <1>4, <1>6, <1>7, <2>1, <2>2, <2>3, <2>4, <2>5 DEF Place
<1>15. Place(f)'
  BY <1>3, <1>4, <1>6, <1>7 DEF Place
<1>16. Link(e)'
  BY <1>3, <1>5, <1>6, <1>9, <1>12, LinkGone
<1>17. Link(f)'
  <2>1. CASE says
    <3>1. Flows(f)
      <4>1. NetAt(e)
        BY DEF IInv
      <4> QED  BY <1>1, <1>3, <2>1, <4>1 DEF Flows, NetAt
    <3>2. Script(conf, f, Made(e, t, pc[e]) + 1, r)
      <4> DEFINE m == Made(e, t, pc[e])
      <4>1. m \in Nat /\ m = Turn(f) + t.outseq /\ Turn(f) \in {2, 3}
        BY <1>1, <1>3, EndsOf DEF Made
      <4>2. m + 1 \in Nat /\ m + 1 # 1
        <5>1. \A a \in {2, 3}, b, c \in Nat : c = a + b => c + 1 \in Nat /\ c + 1 # 1
          OBVIOUS
        <5> HIDE DEF m
        <5> QED  BY <1>3, <4>1, <5>1
      <4>3. t.version = IF e = "c" /\ m + 1 = 1 THEN ProtocolVersion ELSE conf.svers
        BY <1>3, <4>2
      <4>4. m + 1 = Made(e, t, pc[e]) + 1
        OBVIOUS
      <4> HIDE DEF m, t
      <4> QED  BY <1>3, <4>2, <4>3, <4>4, SealScript
    <3>3. wire'[f] = Append(wire[f], r) /\ r.type # "data"
      BY <1>5, <1>10, <2>1
    <3>4. tr'[e].outsec # NoSec
      BY <1>3, <1>6, <1>9
    <3> HIDE DEF r, says
    <3> QED  BY <1>1, <1>3, <1>4, <1>6, <1>7, <1>10, <1>11, <1>12, <3>1, <3>2, <3>3, <3>4, LinkAppend
  <2>2. CASE ~says
    <3>1. wire'[f] = wire[f] /\ tr'[e].outsec # NoSec
      BY <1>3, <1>5, <1>6, <1>9, <2>2
    <3> HIDE DEF says
    <3> QED  BY <1>1, <1>3, <1>4, <1>6, <1>7, <1>12, <3>1, LinkSame
  <2> QED  BY <2>1, <2>2
<1>18. ASSUME NEW x \in Ends PROVE ReaderAt(x)' /\ LockAt(x)' /\ NetAt(x)'
  <2>1. ReaderAt(x) /\ LockAt(x) /\ NetAt(x)
    BY DEF IInv
  <2>2. ReaderAt(x)'
    <3>1. CASE x = e
      BY <1>2, <1>4, <1>7, <2>1, <3>1 DEF ReaderAt
    <3>2. CASE x = f
      BY <1>4, <1>7, <2>1, <3>2 DEF ReaderAt
    <3> QED  BY <1>1, <3>1, <3>2
  <2>3. LockAt(x)'
    BY <1>4, <2>1 DEF LockAt
  <2>4. NetAt(x)'
    <3>1. CASE x = e
      BY <1>4, <1>7, <1>8, <2>1, <3>1 DEF NetAt
    <3>2. CASE x = f
      BY <1>1, <1>7, <1>8, <3>2 DEF NetAt
    <3> QED  BY <1>1, <3>1, <3>2
  <2> QED  BY <2>2, <2>3, <2>4
<1>19. ASSUME NEW w \in Writers PROVE WriterAt(w)'
  <2>1. WriterAt(w) /\ Home[w] \in Ends
    BY TlsAssumption DEF IInv
  <2>2. CASE Home[w] = f
    BY <1>4, <1>6, <1>7, <2>1, <2>2 DEF WriterAt
  <2>3. CASE Home[w] = e
    <3>1. wr[w] \notin {"want", "locked", "sealed"}
      BY <1>2, <2>3 DEF Writing
    <3> QED  BY <1>4, <3>1 DEF WriterAt
  <2> QED  BY <1>1, <2>1, <2>2, <2>3
<1>20. InStep'
  BY <1>4 DEF IInv, InStep
<1>21. \A x \in Ends : Place(x)' /\ Link(x)'
  BY <1>1, <1>14, <1>15, <1>16, <1>17
<1> QED  BY <1>13, <1>18, <1>19, <1>20, <1>21 DEF IInv

-----------------------------------------------------------------------------
(* The connection, and a server that asks for another handshake *)

\* The connection breaks.
LEMMA BreakStep ==
  ASSUME IInv, Break
  PROVE  IInv'
<1>1. PICK c \in Prefixes(wire["c"]), s \in Prefixes(wire["s"]) :
        wire' = [e \in Ends |-> IF e = "c" THEN c ELSE s]
  BY DEF Break
<1>2. /\ broken' = TRUE /\ eof' = [e \in Ends |-> TRUE]
      /\ conf' = conf /\ tr' = tr /\ pc' = pc /\ refused' = refused /\ requested' = requested
      /\ cipher' = cipher /\ hash' = hash /\ master' = master /\ peercert' = peercert
      /\ fdopen' = fdopen /\ rd' = rd /\ wr' = wr /\ pend' = pend /\ outio' = outio
      /\ sent' = sent /\ got' = got /\ over' = over
  BY DEF Break, hsVars, ioVars
<1>3. TypeOK
  BY DEF IInv
<1>4. \A e \in Ends : \E k \in 0 .. Len(wire[e]) : wire'[e] = SubSeq(wire[e], 1, k)
  BY <1>1, EndsOf DEF Prefixes
<1>5. wire' \in [Ends -> Seq(Recs(conf))]
  <2>1. ASSUME NEW e \in Ends PROVE wire'[e] \in Seq(Recs(conf))
    <3>1. wire[e] \in Seq(Recs(conf))
      BY <1>3, TypesOf
    <3>2. PICK k \in 0 .. Len(wire[e]) : wire'[e] = SubSeq(wire[e], 1, k)
      BY <1>4
    <3>3. SubSeq(wire[e], 1, k) \in Seq(Recs(conf))
      BY <3>1
    <3> QED  BY <3>2, <3>3
  <2> QED  BY <1>1, <2>1
<1>6. TypeOK'
  BY <1>2, <1>3, <1>5 DEF TypeOK
<1>7. ASSUME NEW e \in Ends PROVE Link(e)'
  <2>1. PICK k \in 0 .. Len(wire[e]) : wire'[e] = SubSeq(wire[e], 1, k)
    BY <1>4
  <2>2. Link(e)
    BY DEF IInv
  <2> QED  BY <1>2, <1>3, <2>1, <2>2, LinkBreak
<1>8. ASSUME NEW e \in Ends PROVE Place(e)' /\ ReaderAt(e)' /\ LockAt(e)' /\ NetAt(e)'
  <2>1. Place(e) /\ ReaderAt(e) /\ LockAt(e)
    BY DEF IInv
  <2>2. Place(e)'
    BY <1>2, <2>1 DEF Place
  <2> QED  BY <1>2, <2>1, <2>2 DEF ReaderAt, LockAt, NetAt
<1>9. ASSUME NEW w \in Writers PROVE WriterAt(w)'
  <2>1. WriterAt(w)
    BY DEF IInv
  <2> QED  BY <1>2, <2>1 DEF WriterAt
<1>10. InStep'
  BY <1>2 DEF IInv, InStep
<1> QED  BY <1>6, <1>7, <1>8, <1>9, <1>10 DEF IInv

\* The server asks for another handshake.
LEMMA RequestRenegStep ==
  ASSUME IInv, RequestReneg
  PROVE  IInv'
<1> DEFINE t == tr["s"]
           r == Sealed(t, "hand", <<HRequest>>)
           u == AfterSeal(t, "hand")
<1>1. /\ "s" \in Ends /\ "c" \in Ends /\ Other("s") = "c" /\ Other("c") = "s" /\ "c" # "s"
  BY EndsOf
<1>2. /\ ~requested /\ ~broken /\ pc["s"] \in {"clienthello", "open"} /\ outio["s"] = None
      /\ Put("s", u) /\ Bwrite("s", r) /\ requested' = TRUE
      /\ conf' = conf /\ pc' = pc /\ refused' = refused /\ eof' = eof /\ broken' = broken
      /\ cipher' = cipher /\ hash' = hash /\ master' = master /\ peercert' = peercert
      /\ fdopen' = fdopen /\ rd' = rd /\ wr' = wr /\ pend' = pend /\ outio' = outio
      /\ sent' = sent /\ got' = got /\ over' = over
  BY DEF RequestReneg, HRequest, hsVars, ioVars
<1>3. /\ TypeOK /\ t \in TlsRecs(conf) /\ conf \in Confs
      /\ Place("s") /\ Link("s") /\ Link("c")
      /\ ReaderAt("s") /\ ReaderAt("c") /\ LockAt("s") /\ \A w \in Writers : WriterAt(w)
  BY <1>1, TypesOf DEF IInv
<1>4. /\ Pending("s") = 0 /\ Pending("s")' = 0 /\ Pending("c")' = Pending("c")
      /\ Alive("s")' = Alive("s") /\ Sending("s")' = Sending("s") /\ Sending("s")
  BY <1>2 DEF Pending, Alive, Sending, Shaking, ServerShaking
<1>5. <<HRequest>> \in Bodies(conf)
  BY DEF Bodies
<1>6. /\ r \in Recs(conf) /\ r.type = "hand" /\ r.body = <<HRequest>> /\ r.sec = t.outsec
  <2> HIDE DEF t
  <2> QED  BY <1>3, <1>5, SealedOf
<1>7. /\ wire' \in [Ends -> Seq(Recs(conf))] /\ wire'["s"] = wire["s"]
      /\ wire'["c"] = IF broken \/ eof["s"] THEN wire["c"] ELSE Append(wire["c"], r)
  <2> HIDE DEF r
  <2> QED  BY <1>1, <1>2, <1>3, <1>6, BwriteOf
<1>8. tr'["s"] = u /\ tr'["c"] = tr["c"] /\ tr' = [tr EXCEPT !["s"] = tr'["s"]]
  BY <1>1, <1>2, <1>3, PutOf
<1>9. ASSUME u \in TlsRecs(conf), Place("s")', Link("s")', Link("c")'
      PROVE  IInv'
  <2>1. Uses("s")
    <3>1. /\ rd' = [rd EXCEPT !["s"] = rd'["s"]] /\ outio' = [outio EXCEPT !["s"] = outio'["s"]]
          /\ sent' = [sent EXCEPT !["s"] = sent'["s"]] /\ got' = [got EXCEPT !["s"] = got'["s"]]
      BY <1>2, <1>3 DEF TypeOK
    <3> QED  BY <1>2, <1>8, <3>1 DEF Uses, hsVars
  <2>2. /\ rd'["s"] \in {"idle", "read", "noreneg", "dead"}
        /\ wr' \in [Writers -> {"idle", "want", "locked", "sealed", "dead"}] /\ DOMAIN pend' = Writers
        /\ outio'["s"] \in Writers \union {None} /\ sent'["s"] \in Nat /\ got'["s"] \in Seq(Nat)
        /\ over' \subseteq Ends /\ requested' \in BOOLEAN /\ fdopen' \in [Ends -> BOOLEAN]
    BY <1>1, <1>2, <1>3 DEF TypeOK
  <2>3. ReaderAt("s")' /\ ReaderAt("c")' /\ LockAt("s")'
    BY <1>2, <1>3 DEF ReaderAt, LockAt
  <2>4. ASSUME NEW w \in Writers, Home[w] = "s" PROVE WriterAt(w)'
    <3>1. wr[w] \notin {"locked", "sealed"}
      BY <1>2, <1>3, <2>4, TlsAssumption DEF WriterAt
    <3> QED  BY <1>2, <1>3, <2>4, <3>1 DEF WriterAt
  <2>5. tr'["s"] \in TlsRecs(conf)
    BY <1>8, <1>9
  <2> QED  BY <1>1, <1>7, <1>9, <2>1, <2>2, <2>3, <2>4, <2>5, DataStep
<1>10. CASE pc["s"] = "clienthello"
  <2>1. NoKeys(t)
    BY <1>1, <1>3, <1>10 DEF Place, ServerPlace
  <2>2. u = t
    <3>1. t.outsec = NoSec
      BY <2>1 DEF NoKeys
    <3> HIDE DEF t
    <3> QED  BY <1>3, <3>1, SealOf
  <2>3. tr' = tr
    BY <1>3, <1>8, <2>2, PutOf, <1>1
  <2> HIDE DEF u
  <2>4. Place("s")'
    BY <1>2, <1>3, <2>3 DEF Place
  <2>5. Link("s")'
    BY <1>1, <1>2, <1>3, <1>4, <1>7, <2>3, LinkQuiet
  <2>6. Link("c")'
    <3>1. CASE eof["s"]
      <4>1. ~Flows("c")'
        BY <1>1, <1>2, <3>1 DEF Flows
      <4>2. wire'["c"] = wire["c"]
        BY <1>7, <3>1
      <4> QED  BY <1>1, <1>2, <1>3, <2>3, <4>1, <4>2, LinkSame
    <3>2. CASE ~eof["s"]
      <4>1. Flows("c")
        BY <1>1, <1>2, <1>4, <3>2 DEF Flows
      <4>2. wire'["c"] = Append(wire["c"], r)
        BY <1>2, <1>7, <3>2
      <4>3. Made("s", tr["s"], pc["s"]) = 0 /\ r.sec = NoSec
        BY <1>6, <1>10, <2>1 DEF Made, NoKeys
      <4> HIDE DEF r
      <4> QED  BY <1>2, <1>3, <1>4, <1>6, <2>3, <4>1, <4>2, <4>3, LinkAsk
    <3> QED  BY <3>1, <3>2
  <2> QED  BY <1>3, <1>9, <2>2, <2>4, <2>5, <2>6
<1>11. CASE pc["s"] = "open"
  <2>1. /\ r.sec # NoSec /\ Script(conf, "c", Made("s", t, pc["s"]) + 1, r)
        /\ \A v \in {u, TlsError(u)} :
              /\ v \in TlsRecs(conf) /\ Counts(t, v) /\ SameReading(t, v) /\ v.outsec # NoSec
              /\ v.outseq = t.outseq + 1 /\ Made("s", v, pc["s"]) = Made("s", t, pc["s"]) + 1
    <3>1. LET x == Sealed(t, "hand", <<HRequest>>) IN
          /\ x.sec # NoSec /\ Script(conf, Other("s"), Made("s", t, pc["s"]) + 1, x)
          /\ \A v \in {u, TlsError(u)} :
              /\ v \in TlsRecs(conf) /\ Counts(t, v) /\ SameReading(t, v) /\ v.outsec # NoSec
              /\ v.outseq = t.outseq + 1 /\ Made("s", v, pc["s"]) = Made("s", t, pc["s"]) + 1
      BY <1>1, <1>11, OpenSeal
    <3> QED  BY <1>1, <3>1
  <2>2. /\ u \in TlsRecs(conf) /\ Counts(t, u) /\ SameReading(t, u) /\ u.outsec # NoSec
        /\ Made("s", u, pc["s"]) = Made("s", t, pc["s"]) + 1
    BY <2>1
  <2>3. t.insec # NoSec
    BY <1>1, <1>11, OpenAt
  <2> HIDE DEF u, r
  <2>4. Place("s")'
    BY <1>1, <1>2, <1>8, <1>11, <2>2, OpenPlace DEF hsVars
  <2>5. Link("s")'
    <3>1. Taken(conf, "s", u, pc["s"]) = Taken(conf, "s", t, pc["s"]) /\ u.insec = t.insec
      BY <2>2, <2>3 DEF SameReading, Taken
    <3> QED  BY <1>1, <1>2, <1>3, <1>4, <1>7, <1>8, <3>1, LinkQuiet
  <2>6. Link("c")'
    <3>1. r.type # "data" /\ ~Closes(r)
      BY <1>6 DEF Closes
    <3>2. UNCHANGED <<conf, eof, broken>> /\ tr'["s"].outsec # NoSec
      BY <1>2, <1>8, <2>2
    <3>3. Made("s", tr'["s"], pc'["s"]) = Made("s", tr["s"], pc["s"]) + 1
      BY <1>2, <1>8, <2>2
    <3> QED  BY <1>1, <1>2, <1>3, <1>4, <1>6, <1>7, <1>8, <2>1, <3>1, <3>2, <3>3, LinkPut
  <2> QED  BY <1>9, <2>2, <2>4, <2>5, <2>6
<1> QED  BY <1>2, <1>10, <1>11

-----------------------------------------------------------------------------
(* The invariant *)

\* The initial states satisfy the inductive invariant.
LEMMA InitIInv == Init => IInv
<1> SUFFICES ASSUME Init
             PROVE  IInv
  OBVIOUS
<1> DEFINE v(e) == IF e = "c" THEN ProtocolVersion ELSE conf.svers
           l(e) == IF e = "c" THEN "hello" ELSE "clienthello"
<1>1. /\ conf \in Confs /\ peercert = FALSE /\ broken = FALSE /\ over = {} /\ requested = FALSE
      /\ tr = [e \in Ends |-> NewTls(v(e))] /\ pc = [e \in Ends |-> l(e)]
      /\ cipher = [e \in Ends |-> NoCipher] /\ hash = [e \in Ends |-> <<>>]
      /\ master = [e \in Ends |-> None] /\ refused = [e \in Ends |-> "nothing"]
      /\ wire = [e \in Ends |-> <<>>] /\ eof = [e \in Ends |-> FALSE]
      /\ fdopen = [e \in Ends |-> TRUE] /\ rd = [e \in Ends |-> "idle"]
      /\ wr = [w \in Writers |-> "idle"] /\ pend = [w \in Writers |-> None]
      /\ outio = [e \in Ends |-> None] /\ sent = [e \in Ends |-> 0] /\ got = [e \in Ends |-> <<>>]
  BY DEF Init
<1>2. \A e \in Ends : v(e) \in 0 .. 3 /\ l(e) \in {"hello", "clienthello"}
  BY <1>1, SetupOf
<1>3. ASSUME NEW e \in Ends
      PROVE  /\ tr[e] \in TlsRecs(conf) /\ NoKeys(tr[e]) /\ NoQueue(tr[e])
             /\ tr[e].state = "SHandshake" /\ tr[e].hand /\ ~tr[e].verset /\ ~tr[e].opened
             /\ tr[e].version = v(e)
  <2>1. NoSec \in Secs(conf)
    BY DEF Secs
  <2>2. tr[e] = [state |-> "SHandshake", version |-> v(e), verset |-> FALSE, opened |-> FALSE,
                 insec |-> NoSec, innew |-> NoSec, inseq |-> 0,
                 outsec |-> NoSec, outnew |-> NoSec, outseq |-> 0,
                 hand |-> TRUE, handq |-> <<>>, hprocessed |-> <<>>]
    BY <1>1 DEF NewTls
  <2> HIDE DEF v
  <2> QED  BY <1>2, <2>1, <2>2 DEF TlsRecs, States, NoKeys, NoQueue
<1>4. TypeOK
  <2>1. tr \in [Ends -> TlsRecs(conf)]
    BY <1>1, <1>3
  <2>2. \A e \in Ends : l(e) \in Shaking
    BY DEF Shaking, ClientShaking, ServerShaking
  <2>3. <<>> \in Seq(Recs(conf)) /\ <<>> \in Seq(Nat)
    OBVIOUS
  <2>4. pc \in [Ends -> Shaking \union {"nofinished", "err", "failed", "open", "closed"}]
    BY <1>1, <2>2
  <2>5. /\ cipher \in [Ends -> {NoCipher, Chosen(conf)}]
        /\ master \in [Ends -> {None, MasterOf(conf, "c"), MasterOf(conf, "s")}]
        /\ hash = [e \in Ends |-> hash[e]] /\ refused = [e \in Ends |-> refused[e]]
        /\ wire \in [Ends -> Seq(Recs(conf))] /\ eof \in [Ends -> BOOLEAN]
        /\ fdopen \in [Ends -> BOOLEAN] /\ rd \in [Ends -> {"idle", "read", "noreneg", "dead"}]
        /\ sent \in [Ends -> Nat] /\ got \in [Ends -> Seq(Nat)]
    BY <1>1, <2>3
  <2>6. /\ wr \in [Writers -> {"idle", "want", "locked", "sealed", "dead"}]
        /\ DOMAIN pend = Writers /\ outio \in [Ends -> Writers \union {None}]
        /\ over \subseteq Ends /\ requested \in BOOLEAN /\ broken \in BOOLEAN /\ peercert \in BOOLEAN
    BY <1>1
  <2> QED  BY <1>1, <2>1, <2>4, <2>5, <2>6 DEF TypeOK
<1>5. ASSUME NEW e \in Ends PROVE Place(e)
  <2>1. /\ pc[e] = l(e) /\ hash[e] = <<>> /\ ~peercert
    BY <1>1
  <2>2. EndPlace(conf, e, tr[e], pc[e], cipher[e], master[e])
    BY <1>3, <2>1 DEF EndPlace, NoKeys
  <2>3. CASE e = "c"
    <3>1. pc[e] = "hello" /\ tr[e].version = ProtocolVersion
      BY <1>3, <2>1, <2>3
    <3>2. ClientPlace(conf, tr[e], pc[e], hash[e], cipher[e], master[e], peercert)
      BY <1>3, <2>1, <3>1 DEF ClientPlace
    <3> QED  BY <2>2, <2>3, <3>1, <3>2 DEF Place, ServerShaking
  <2>4. CASE e = "s"
    <3>1. pc[e] = "clienthello" /\ tr[e].version = conf.svers
      BY <1>3, <2>1, <2>4
    <3>2. ServerPlace(conf, tr[e], pc[e], hash[e], cipher[e], master[e])
      BY <1>3, <2>1, <3>1 DEF ServerPlace
    <3> QED  BY <2>2, <2>4, <3>1, <3>2 DEF Place, ServerShaking, ClientShaking
  <2> QED  BY <2>3, <2>4, EndsOf
<1>6. ASSUME NEW e \in Ends PROVE ReaderAt(e) /\ LockAt(e) /\ NetAt(e)
  <2>1. Other(e) \in Ends
    BY EndsOf
  <2>2. /\ pc[e] \in {"hello", "clienthello"} /\ pc[Other(e)] \in {"hello", "clienthello"}
        /\ rd[e] = "idle" /\ got[e] = <<>> /\ sent[e] = 0 /\ sent[Other(e)] = 0
        /\ outio[e] = None /\ eof[e] = FALSE /\ Other(e) \notin over /\ ~broken
    BY <1>1, <2>1
  <2>3. Len(got[e]) = 0
    BY <2>2
  <2> QED  BY <2>2, <2>3 DEF ReaderAt, LockAt, NetAt
<1>7. ASSUME NEW e \in Ends PROVE Link(e)
  <2> DEFINE f == Other(e)
  <2>1. f \in Ends /\ f # e /\ Other(f) = e
    BY EndsOf
  <2>2. /\ tr[e].insec = NoSec /\ tr[f].outsec = NoSec /\ tr[e].handq = <<>>
        /\ wire[e] = <<>> /\ Len(wire[e]) = 0 /\ Len(got[e]) = 0 /\ sent[f] = 0 /\ outio[f] = None
    BY <1>1, <1>3, <2>1 DEF NoKeys, NoQueue
  <2>3. \/ e = "c" /\ pc[e] = "hello" /\ pc[f] = "clienthello"
        \/ e = "s" /\ pc[e] = "clienthello" /\ pc[f] = "hello"
    <3>1. (e = "c" /\ f = "s") \/ (e = "s" /\ f = "c")
      BY DEF Ends, Other
    <3>2. pc["c"] = "hello" /\ pc["s"] = "clienthello"
      BY <1>1 DEF Ends
    <3> HIDE DEF f
    <3> QED  BY <3>1, <3>2
  <2>4. Taken(conf, e, tr[e], pc[e]) = 0 /\ Made(f, tr[f], pc[f]) = 0 /\ Pending(f) = 0
    <3>1. <<>> # <<Flight(conf)>>
      OBVIOUS
    <3> QED  BY <2>2, <2>3, <3>1 DEF Taken, Made, Pending
  <2>5. ~Asked(wire[e]) /\ Skew(wire[e]) = 0
    BY <2>2 DEF Asked, Skew
  <2>6. Stream(conf, e, 0, wire[e]) /\ Data(wire[e], 0, 0) /\ AllBefore(wire[e], 0, 0, 0)
    <3>1. \A i \in 1 .. 0 : FALSE
      OBVIOUS
    <3>2. \A n \in 0 + 1 .. 0 : FALSE
      OBVIOUS
    <3> QED  BY <2>2, <2>5, <3>1, <3>2 DEF Stream, Data, AllBefore
  <2>7. \A i \in 1 .. Len(wire[e]) : FALSE
    BY <2>2
  <2> HIDE DEF f
  <2> QED  BY <2>2, <2>4, <2>5, <2>6, <2>7 DEF Link, f
<1>8. ASSUME NEW w \in Writers PROVE WriterAt(w)
  BY <1>1 DEF WriterAt
<1>9. InStep
  BY <1>1 DEF InStep
<1> QED  BY <1>4, <1>5, <1>6, <1>7, <1>8, <1>9 DEF IInv

\* No step leaves it.
LEMMA NextIInv ==
  ASSUME IInv, [Next]_vars
  PROVE  IInv'
<1>1. ASSUME NEW e \in Ends, Handshake(e) PROVE IInv'
  <2>1. CASE e = "c" /\ Client
    BY <2>1, ClientHelloStep, ServerHelloStep, CertificateStep, KeyExchangeStep, HelloDoneStep,
       NoServerFinishedStep DEF Client
  <2>2. CASE e = "s" /\ Server
    BY <2>2, HelloFromClientStep, ClientKeyStep DEF Server
  <2>3. CASE HandRecread(e) \/ HandHungup(e) \/ SkipRequest(e)
    BY <2>3, HandRecreadStep, HandHungupStep, SkipRequestStep
  <2>4. CASE ChangeCipher(e) \/ Finished(e) \/ FinishedMatch(e)
    BY <2>4, ChangeCipherStep, FinishedStep, FinishedMatchStep
  <2>5. CASE Open(e) \/ HandDone(e) \/ HandClose(e)
    BY <2>5, OpenStep, HandDoneStep, HandCloseStep
  <2> QED  BY <1>1, <2>1, <2>2, <2>3, <2>4, <2>5 DEF Handshake
<1>2. ASSUME NEW e \in Ends, Read(e) PROVE IInv'
  BY <1>2, ReadBeginStep, DataRecreadStep, DataHungupStep, ReaderAlertStep DEF Read
<1>3. ASSUME NEW e \in Ends, CloseFd(e) \/ Tlsclose(e) PROVE IInv'
  BY <1>3, CloseFdStep, TlscloseStep
<1>4. ASSUME NEW w \in Writers, WriteBegin(w) \/ Write(w) PROVE IInv'
  BY <1>4, WriteBeginStep, WriteLockStep, WriteSealStep, WriteOutStep, WriteFailsStep DEF Write
<1>5. CASE Break \/ RequestReneg
  BY <1>5, BreakStep, RequestRenegStep
<1>6. CASE UNCHANGED vars
  <2>1. /\ conf' = conf /\ tr' = tr /\ pc' = pc /\ refused' = refused /\ requested' = requested
        /\ cipher' = cipher /\ hash' = hash /\ master' = master /\ peercert' = peercert
        /\ wire' = wire /\ eof' = eof /\ broken' = broken /\ fdopen' = fdopen /\ rd' = rd /\ wr' = wr
        /\ pend' = pend /\ outio' = outio /\ sent' = sent /\ got' = got /\ over' = over
    BY <1>6 DEF vars, hsVars, ioVars, netVars
  <2>2. TypeOK
    BY DEF IInv
  <2>3. TypeOK'
    BY <2>1, <2>2 DEF TypeOK
  <2>4. ASSUME NEW e \in Ends PROVE Place(e)' /\ ReaderAt(e)' /\ LockAt(e)' /\ NetAt(e)'
    <3>1. Place(e) /\ ReaderAt(e) /\ LockAt(e) /\ NetAt(e)
      BY DEF IInv
    <3>2. Place(e)'
      BY <2>1, <3>1 DEF Place
    <3> QED  BY <2>1, <3>1, <3>2 DEF ReaderAt, LockAt, NetAt
  <2>5. ASSUME NEW e \in Ends PROVE Link(e)'
    <3>1. Link(e) /\ Pending(Other(e))' = Pending(Other(e))
      BY <2>1 DEF IInv, Pending
    <3>2. Alive(e)' <=> Alive(e)
      BY <2>1 DEF Alive
    <3> QED  BY <2>1, <2>2, <3>1, <3>2, LinkQuiet
  <2>6. ASSUME NEW w \in Writers PROVE WriterAt(w)'
    <3>1. WriterAt(w)
      BY DEF IInv
    <3> QED  BY <2>1, <3>1 DEF WriterAt
  <2>7. InStep'
    BY <2>1 DEF IInv, InStep
  <2> QED  BY <2>3, <2>4, <2>5, <2>6, <2>7 DEF IInv
<1> QED  BY <1>1, <1>2, <1>3, <1>4, <1>5, <1>6 DEF Next

\* IInv is an invariant of the specification.
THEOREM SpecIInv == Spec => []IInv
<1> QED  BY InitIInv, NextIInv, PTL DEF Spec

\* Every variable of the connection keeps its type.
THEOREM TlsTypeOK == Spec => []TypeOK
<1>1. IInv => TypeOK
  BY DEF IInv
<1> QED  BY <1>1, SpecIInv, PTL

\* The ends stay in step, for every setup, any number of writers and data
\* without bound.
THEOREM TlsInStep == Spec => []InStep
<1>1. IInv => InStep
  BY DEF IInv
<1> QED  BY <1>1, SpecIInv, PTL

\* An end that has opened the connection has keys of its own and has seen the
\* other's, so both chose the same version, cipher and master secret.
LEMMA OpenedAgreed == IInv => OpenAgreed
<1> SUFFICES ASSUME IInv, NEW e \in Ends, tr[e].opened
             PROVE  /\ tr["c"].version = tr["s"].version \/ tr["s"].verset = FALSE
                    /\ cipher["c"] = cipher["s"] /\ master["c"] = master["s"] /\ master[e] # None
                    /\ conf.cpsk = conf.spsk
                    /\ e = "c" => conf.cert # "bad"
  BY DEF OpenAgreed
<1> DEFINE f == Other(e)
<1>1. f \in Ends /\ ((e = "c" /\ f = "s") \/ (e = "s" /\ f = "c"))
  BY DEF Ends, Other
<1>2. /\ EndPlace(conf, e, tr[e], pc[e], cipher[e], master[e])
      /\ EndPlace(conf, f, tr[f], pc[f], cipher[f], master[f])
      /\ Link(e) /\ conf \in Confs
  BY <1>1 DEF IInv, Place, TypeOK
<1>3. tr[e].insec # NoSec /\ tr[e].outsec # NoSec /\ conf.cpsk = conf.spsk
  BY <1>2 DEF EndPlace
<1>4. tr[f].outsec # NoSec
  BY <1>2, <1>3 DEF Link
<1>5. \A x \in {e, f} : /\ cipher[x] = Chosen(conf) /\ master[x] = MasterOf(conf, x)
                        /\ tr[x].version = conf.svers
                        /\ x = "c" => conf.cert # "bad"
  BY <1>2, <1>3, <1>4 DEF EndPlace
<1>6. MasterOf(conf, "c") = MasterOf(conf, "s")
  BY <1>3 DEF MasterOf, Psk
<1>7. MasterOf(conf, e) # None
  BY <1>2, SetupOf
<1> QED  BY <1>1, <1>3, <1>5, <1>6, <1>7

\* An end opens the connection only with an end that agrees with it.
THEOREM TlsOpenAgreed == Spec => []OpenAgreed
<1> QED  BY OpenedAgreed, SpecIInv, PTL

-----------------------------------------------------------------------------
(* The data files are a pair of streams *)

\* The programs at e are told that the connection is over
Ended(e) == pc[e] \in {"closed", "failed"}

\* A step that the programs do not see is a stutter of the pipe.
LEMMA PipeQuiet ==
  ASSUME UNCHANGED <<sent, got, over>>, \A e \in Ends : Ended(e)' = Ended(e)
  PROVE  UNCHANGED Pipe!vars
<1>1. Ended("c")' = Ended("c") /\ Ended("s")' = Ended("s")
  BY DEF Ends
<1>2. \A d \in {"out", "in"} : (pc[IF d = "out" THEN "c" ELSE "s"] \in {"closed", "failed"})'
                               = (pc[IF d = "out" THEN "c" ELSE "s"] \in {"closed", "failed"})
  BY <1>1 DEF Ended
<1> QED  BY <1>2 DEF Pipe!vars

\* A write of e
LEMMA PipeWrite ==
  ASSUME TypeOK, NEW e \in Ends, ~Ended(e), pc' = pc, got' = got, over' = over,
         sent' = [sent EXCEPT ![e] = @ + 1]
  PROVE  Pipe!Next
<1>1. CASE e = "c"
  <2>1. sent'["c"] = sent["c"] + 1 /\ sent'["s"] = sent["s"] /\ ~(pc["c"] \in {"closed", "failed"})
    BY <1>1 DEF TypeOK, Ends, Ended
  <2>2. Pipe!Write("out")
    BY <2>1 DEF Pipe!Write
  <2> QED  BY <2>2 DEF Pipe!Next, Pipe!Directions
<1>2. CASE e = "s"
  <2>1. sent'["s"] = sent["s"] + 1 /\ sent'["c"] = sent["c"] /\ ~(pc["s"] \in {"closed", "failed"})
    BY <1>2 DEF TypeOK, Ends, Ended
  <2>2. Pipe!Write("in")
    BY <2>1 DEF Pipe!Write
  <2> QED  BY <2>2 DEF Pipe!Next, Pipe!Directions
<1> QED  BY <1>1, <1>2 DEF Ends

\* e closes, or fails.
LEMMA PipeEnd ==
  ASSUME TypeOK, NEW e \in Ends, UNCHANGED <<sent, got, over>>,
         Ended(e)', Ended(Other(e))' = Ended(Other(e))
  PROVE  Pipe!Next
<1>1. CASE e = "c"
  <2>1. pc'["c"] \in {"closed", "failed"} /\ (pc'["s"] \in {"closed", "failed"}) = (pc["s"] \in {"closed", "failed"})
    BY <1>1 DEF Ended, Other
  <2>2. Pipe!End("out")
    BY <2>1 DEF Pipe!End
  <2> QED  BY <2>2 DEF Pipe!Next, Pipe!Directions
<1>2. CASE e = "s"
  <2>1. pc'["s"] \in {"closed", "failed"} /\ (pc'["c"] \in {"closed", "failed"}) = (pc["c"] \in {"closed", "failed"})
    BY <1>2 DEF Ended, Other
  <2>2. Pipe!End("in")
    BY <2>1 DEF Pipe!End
  <2> QED  BY <2>2 DEF Pipe!Next, Pipe!Directions
<1> QED  BY <1>1, <1>2 DEF Ends

\* The next piece comes to e.
LEMMA PipeArrive ==
  ASSUME TypeOK, NEW e \in Ends, UNCHANGED <<pc, sent, over>>, Other(e) \notin over,
         Len(got[e]) < sent[Other(e)],
         got' = [got EXCEPT ![e] = Append(@, Len(@) + 1)]
  PROVE  Pipe!Next
<1>1. CASE e = "s"
  <2>1. got'["s"] = Append(got["s"], Len(got["s"]) + 1) /\ got'["c"] = got["c"]
    BY <1>1 DEF TypeOK, Ends
  <2>2. "c" \notin over /\ Len(got["s"]) < sent["c"]
    BY <1>1 DEF Other
  <2>3. Pipe!Arrive("out")
    BY <2>1, <2>2 DEF Pipe!Arrive
  <2> QED  BY <2>3 DEF Pipe!Next, Pipe!Directions
<1>2. CASE e = "c"
  <2>1. got'["c"] = Append(got["c"], Len(got["c"]) + 1) /\ got'["s"] = got["s"]
    BY <1>2 DEF TypeOK, Ends
  <2>2. "s" \notin over /\ Len(got["c"]) < sent["s"]
    BY <1>2 DEF Other
  <2>3. Pipe!Arrive("in")
    BY <2>1, <2>2 DEF Pipe!Arrive
  <2> QED  BY <2>3 DEF Pipe!Next, Pipe!Directions
<1> QED  BY <1>1, <1>2 DEF Ends

\* e sees that the other closed.
LEMMA PipeSeeEnd ==
  ASSUME TypeOK, NEW e \in Ends, UNCHANGED <<pc, sent, got>>, Ended(Other(e)),
         Len(got[e]) = sent[Other(e)], over' = over \union {Other(e)}
  PROVE  Pipe!Next
<1>1. CASE e = "s"
  <2>1. /\ pc["c"] \in {"closed", "failed"} /\ Len(got["s"]) = sent["c"]
        /\ "c" \in over' /\ ("s" \in over') = ("s" \in over)
    BY <1>1 DEF Other, Ended
  <2>2. Pipe!SeeEnd("out")
    BY <2>1 DEF Pipe!SeeEnd
  <2> QED  BY <2>2 DEF Pipe!Next, Pipe!Directions
<1>2. CASE e = "c"
  <2>1. /\ pc["s"] \in {"closed", "failed"} /\ Len(got["c"]) = sent["s"]
        /\ "s" \in over' /\ ("c" \in over') = ("c" \in over)
    BY <1>2 DEF Other, Ended
  <2>2. Pipe!SeeEnd("in")
    BY <2>1 DEF Pipe!SeeEnd
  <2> QED  BY <2>2 DEF Pipe!Next, Pipe!Directions
<1> QED  BY <1>1, <1>2 DEF Ends

\* Where an end is, and where it goes.
LEMMA GotoEnded ==
  ASSUME TypeOK, NEW e \in Ends, NEW l, Goto(e, l)
  PROVE  /\ l \in {"closed", "failed"} => Ended(e)' /\ Ended(Other(e))' = Ended(Other(e))
         /\ l \notin {"closed", "failed"} /\ ~Ended(e) => \A x \in Ends : Ended(x)' = Ended(x)
<1>1. pc'[e] = l /\ \A x \in Ends : x # e => pc'[x] = pc[x]
  BY DEF Goto, TypeOK
<1>2. Other(e) \in Ends /\ Other(e) # e
  BY EndsOf
<1> QED  BY <1>1, <1>2 DEF Ended

\* A step of the handshake, but for the last, is none of the pipe.
LEMMA HandshakeQuiet ==
  ASSUME TypeOK, NEW e \in Ends, Handshake(e)
  PROVE  [Pipe!Next]_Pipe!vars
<1>1. ASSUME UNCHANGED ioVars, ~Ended(e), (UNCHANGED pc) \/ \E l : Goto(e, l) /\ l \notin {"closed", "failed"}
      PROVE  UNCHANGED Pipe!vars
  <2>1. UNCHANGED <<sent, got, over>>
    BY <1>1 DEF ioVars
  <2>2. \A x \in Ends : Ended(x)' = Ended(x)
    <3>1. CASE UNCHANGED pc
      BY <3>1 DEF Ended
    <3>2. CASE \E l : Goto(e, l) /\ l \notin {"closed", "failed"}
      BY <1>1, <3>2, GotoEnded
    <3> QED  BY <1>1, <3>1, <3>2
  <2> QED  BY <2>1, <2>2, PipeQuiet
<1>2. \A t, why : GiveUp(e, t, why) => UNCHANGED ioVars /\ Goto(e, "err")
  BY DEF GiveUp
<1>3. \A t, type, body, l : HandWrite(e, t, type, body, l) => Goto(e, "err") \/ Goto(e, l)
  BY DEF HandWrite
<1>4. CASE e = "c" /\ Client
  <2>1. ~Ended(e) /\ UNCHANGED ioVars
    BY <1>2, <1>4 DEF Client, ClientHello, ServerHello, Certificate, KeyExchange, HelloDone,
       NoServerFinished, Receive, Ended
  <2>2. (UNCHANGED pc) \/ \E l : Goto(e, l) /\ l \notin {"closed", "failed"}
    <3>1. CASE ClientHello
      BY <1>3, <1>4, <3>1 DEF ClientHello
    <3>2. CASE ServerHello
      BY <1>2, <1>4, <3>2 DEF ServerHello
    <3>3. CASE Certificate
      BY <1>2, <1>4, <3>3 DEF Certificate
    <3>4. CASE KeyExchange
      BY <1>2, <1>4, <3>4 DEF KeyExchange
    <3>5. CASE HelloDone
      BY <1>2, <1>3, <1>4, <3>5 DEF HelloDone
    <3>6. CASE NoServerFinished("c")
      BY <1>2, <1>4, <3>6 DEF NoServerFinished
    <3> QED  BY <1>4, <3>1, <3>2, <3>3, <3>4, <3>5, <3>6 DEF Client
  <2> QED  BY <1>1, <2>1, <2>2
<1>5. CASE e = "s" /\ Server
  <2>1. ~Ended(e) /\ UNCHANGED ioVars
    BY <1>2, <1>5 DEF Server, HelloFromClient, ClientKey, Receive, Ended
  <2>2. (UNCHANGED pc) \/ \E l : Goto(e, l) /\ l \notin {"closed", "failed"}
    <3>1. CASE HelloFromClient
      BY <1>2, <1>3, <1>5, <3>1 DEF HelloFromClient
    <3>2. CASE ClientKey
      BY <1>2, <1>5, <3>2 DEF ClientKey
    <3> QED  BY <1>5, <3>1, <3>2 DEF Server
  <2> QED  BY <1>1, <2>1, <2>2
<1>6. CASE HandRecread(e) \/ HandHungup(e) \/ SkipRequest(e)
  <2>1. pc[e] \in Handshaking /\ UNCHANGED ioVars
    BY <1>6 DEF HandRecread, HandHungup, SkipRequest
  <2>2. ~Ended(e)
    BY <2>1 DEF Handshaking, Ended
  <2>3. ReadFailed(e) \notin {"closed", "failed"} /\ pc[e] \notin {"closed", "failed"}
    BY <2>2 DEF ReadFailed, Ended
  <2>4. (UNCHANGED pc) \/ \E l : Goto(e, l) /\ l \notin {"closed", "failed"}
    <3>1. CASE HandRecread(e)
      BY <2>3, <3>1 DEF HandRecread
    <3>2. CASE HandHungup(e)
      BY <2>3, <3>2 DEF HandHungup
    <3>3. CASE SkipRequest(e)
      BY <3>3 DEF SkipRequest
    <3> QED  BY <1>6, <3>1, <3>2, <3>3
  <2> QED  BY <1>1, <2>1, <2>2, <2>4
<1>7. CASE ChangeCipher(e) \/ Finished(e) \/ FinishedMatch(e)
  <2>1. ~Ended(e) /\ UNCHANGED ioVars
    BY <1>2, <1>7 DEF ChangeCipher, Finished, FinishedMatch, Receive, Ended
  <2>2. (UNCHANGED pc) \/ \E l : Goto(e, l) /\ l \notin {"closed", "failed"}
    <3>1. CASE ChangeCipher(e)
      BY <1>3, <3>1 DEF ChangeCipher
    <3>2. CASE Finished(e)
      BY <1>3, <3>2 DEF Finished
    <3>3. CASE FinishedMatch(e)
      BY <1>2, <3>3 DEF FinishedMatch
    <3> QED  BY <1>7, <3>1, <3>2, <3>3
  <2> QED  BY <1>1, <2>1, <2>2
<1>8. CASE Open(e) \/ HandDone(e)
  <2>1. ~Ended(e) /\ UNCHANGED ioVars
    BY <1>8 DEF Open, HandDone, Ended
  <2>2. \E l : Goto(e, l) /\ l \notin {"closed", "failed"}
    BY <1>8 DEF Open, HandDone
  <2> QED  BY <1>1, <2>1, <2>2
<1>9. CASE HandClose(e)
  <2>1. Goto(e, "failed") /\ UNCHANGED <<sent, got, over>>
    BY <1>9 DEF HandClose
  <2> QED  BY <2>1, GotoEnded, PipeEnd
<1> QED  BY <1>4, <1>5, <1>6, <1>7, <1>8, <1>9 DEF Handshake

\* A record read is the next piece, the end after all of them, or neither.
LEMMA DataRecreadPipe ==
  ASSUME IInv, NEW e \in Ends, DataRecread(e)
  PROVE  [Pipe!Next]_Pipe!vars
<1> DEFINE f == Other(e)
           r == wire[e][1]
           g == Len(got[e])
           s == sent[f]
<1>1. rd[e] = "read" /\ wire[e] # <<>>
  BY DEF DataRecread
<1>2. /\ Head(wire[e]) = r /\ ~Refused(tr[e], r)
      /\ r.type = "data" => r.body = g + 1 /\ g + 1 <= s
      /\ Closes(r) => pc[f] = "closed" /\ AllBefore(wire[e], 0, g, s)
  BY <1>1, DataAt
<1>3. TypeOK /\ ReaderAt(e) /\ g \in Nat /\ s \in Nat /\ f \in Ends
  BY EndsOf, TypesOf DEF IInv
<1>4. /\ pc' = pc /\ sent' = sent
      /\ got' = IF r.type = "data" THEN [got EXCEPT ![e] = Append(@, r.body)] ELSE got
      /\ over' = IF Closes(r) THEN over \union {f} ELSE over
  BY <1>2 DEF DataRecread, readUnch, Closes
<1>5. f \notin over /\ g <= s
  BY <1>1, <1>3 DEF ReaderAt
<1> HIDE DEF r
<1>6. CASE r.type = "data"
  <2>1. g < s /\ ~Closes(r) /\ r.body = g + 1
    BY <1>2, <1>3, <1>6 DEF Closes
  <2>2. got' = [got EXCEPT ![e] = Append(@, Len(@) + 1)] /\ over' = over
    BY <1>4, <1>6, <2>1
  <2> QED  BY <1>3, <1>4, <1>5, <2>1, <2>2, PipeArrive
<1>7. CASE Closes(r)
  <2>1. got' = got /\ over' = over \union {f} /\ Ended(f)
    BY <1>2, <1>4, <1>7 DEF Closes, Ended
  <2>2. g = s
    <3>1. \A n \in g + 1 .. s : FALSE
      <4>1. \A j \in 1 .. 0 : FALSE
        OBVIOUS
      <4> QED  BY <1>2, <1>7, <4>1 DEF AllBefore, Carries
    <3>2. ~(g < s)
      <4>1. g < s => s \in g + 1 .. s
        BY <1>3
      <4> QED  BY <3>1, <4>1
    <3> QED  BY <1>3, <1>5, <3>2
  <2> QED  BY <1>3, <1>4, <2>1, <2>2, PipeSeeEnd
<1>8. CASE r.type # "data" /\ ~Closes(r)
  <2>1. UNCHANGED <<sent, got, over>> /\ \A x \in Ends : Ended(x)' = Ended(x)
    BY <1>4, <1>8 DEF Ended
  <2> QED  BY <2>1, PipeQuiet
<1> QED  BY <1>6, <1>7, <1>8

\* Every step is one of the pipe, or none.
LEMMA PipeStep == IInv /\ [Next]_vars => [Pipe!Next]_Pipe!vars
<1> SUFFICES ASSUME IInv, [Next]_vars
             PROVE  [Pipe!Next]_Pipe!vars
  OBVIOUS
<1>0. TypeOK
  BY DEF IInv
<1>1. ASSUME UNCHANGED <<pc, sent, got, over>> PROVE UNCHANGED Pipe!vars
  <2>1. \A x \in Ends : Ended(x)' = Ended(x)
    BY <1>1 DEF Ended
  <2> QED  BY <1>1, <2>1, PipeQuiet
<1>2. ASSUME NEW e \in Ends, Handshake(e) PROVE [Pipe!Next]_Pipe!vars
  BY <1>0, <1>2, HandshakeQuiet
<1>3. ASSUME NEW e \in Ends, Read(e) PROVE [Pipe!Next]_Pipe!vars
  <2>1. CASE DataRecread(e)
    BY <2>1, DataRecreadPipe
  <2>2. CASE ReadBegin(e) \/ DataHungup(e) \/ ReaderAlert(e)
    BY <1>1, <2>2 DEF ReadBegin, DataHungup, ReaderAlert, readUnch
  <2> QED  BY <1>3, <2>1, <2>2 DEF Read
<1>4. ASSUME NEW e \in Ends, CloseFd(e) PROVE [Pipe!Next]_Pipe!vars
  BY <1>1, <1>4 DEF CloseFd
<1>5. ASSUME NEW e \in Ends, Tlsclose(e) PROVE [Pipe!Next]_Pipe!vars
  <2>1. Goto(e, "closed") /\ UNCHANGED <<sent, got, over>>
    BY <1>5 DEF Tlsclose, ioVars
  <2> QED  BY <1>0, <2>1, GotoEnded, PipeEnd
<1>6. ASSUME NEW w \in Writers, WriteOut(w) PROVE [Pipe!Next]_Pipe!vars
  <2>1. /\ Home[w] \in Ends /\ pc[Home[w]] = "open"
    BY <1>6, WriterHas DEF WriteOut
  <2>2. /\ pc' = pc /\ got' = got /\ over' = over /\ sent' = [sent EXCEPT ![Home[w]] = @ + 1]
    BY <1>6 DEF WriteOut, writeUnch
  <2>3. ~Ended(Home[w])
    BY <2>1 DEF Ended
  <2> QED  BY <1>0, <2>1, <2>2, <2>3, PipeWrite
<1>7. ASSUME NEW w \in Writers, WriteBegin(w) \/ WriteLock(w) \/ WriteSeal(w) \/ WriteFails(w)
      PROVE  [Pipe!Next]_Pipe!vars
  BY <1>1, <1>7 DEF WriteBegin, WriteLock, WriteSeal, WriteFails, writeUnch
<1>8. CASE Break \/ RequestReneg \/ UNCHANGED vars
  BY <1>1, <1>8 DEF Break, RequestReneg, vars, ioVars
<1> QED  BY <1>2, <1>3, <1>4, <1>5, <1>6, <1>7, <1>8 DEF Next, Write

\* TLS implements ReliablePipe: whatever breaks and whoever writes, data
\* arrives in order and once, and is over only when all of it has come.
THEOREM TlsPipe == Spec => PipeSpec
<1>1. Init => Pipe!Init
  <2> SUFFICES ASSUME Init
               PROVE  Pipe!Init
    OBVIOUS
  <2>1. /\ sent = [e \in Ends |-> 0] /\ got = [e \in Ends |-> <<>>] /\ over = {}
        /\ pc = [e \in Ends |-> IF e = "c" THEN "hello" ELSE "clienthello"]
    BY DEF Init
  <2>2. /\ sent["c"] = 0 /\ sent["s"] = 0 /\ got["c"] = <<>> /\ got["s"] = <<>>
        /\ pc["c"] = "hello" /\ pc["s"] = "clienthello" /\ "c" \notin over /\ "s" \notin over
    BY <2>1 DEF Ends
  <2>3. \A d \in {"out", "in"} :
          /\ (pc[IF d = "out" THEN "c" ELSE "s"] \in {"closed", "failed"}) = FALSE
          /\ ((IF d = "out" THEN "c" ELSE "s") \in over) = FALSE
    BY <2>2
  <2>4. \A d \in {"out", "in"} :
          /\ (IF d = "out" THEN sent["c"] ELSE sent["s"]) = 0
          /\ (IF d = "out" THEN got["s"] ELSE got["c"]) = <<>>
    BY <2>2
  <2>5. /\ [d \in {"out", "in"} |-> pc[IF d = "out" THEN "c" ELSE "s"] \in {"closed", "failed"}]
           = [d \in {"out", "in"} |-> FALSE]
        /\ [d \in {"out", "in"} |-> (IF d = "out" THEN "c" ELSE "s") \in over]
           = [d \in {"out", "in"} |-> FALSE]
    BY <2>3, Zenon
  <2>6. /\ [d \in {"out", "in"} |-> IF d = "out" THEN sent["c"] ELSE sent["s"]]
           = [d \in {"out", "in"} |-> 0]
        /\ [d \in {"out", "in"} |-> IF d = "out" THEN got["s"] ELSE got["c"]]
           = [d \in {"out", "in"} |-> <<>>]
    BY <2>4
  <2> QED  BY <2>5, <2>6 DEF Pipe!Init, Pipe!Directions
<1> QED  BY <1>1, PipeStep, SpecIInv, PTL DEF Spec, PipeSpec, Pipe!Spec
=============================================================================
