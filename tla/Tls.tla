-------------------------------- MODULE Tls --------------------------------
(***************************************************************************)
(* The two ends of a TLS connection: the handshakes of libsec/tlshand.c    *)
(* (tlsClient2 for drawterm, tlsServer2 for the other end) over the record *)
(* layer of kern/devtls.c (TlsRec), and after it the readers and writers   *)
(* of the data file.                                                       *)
(*                                                                         *)
(* While an end shakes hands one Proc uses it, and a message with its      *)
(* record is one step.  Afterwards a reader holds in.io and the writers    *)
(* take out.io, and their steps interleave.  Keys and verify data are      *)
(* terms: two are equal when they were made from equal secrets and equal   *)
(* messages.  The connection below keeps order and may break; a broken one *)
(* loses what was under way.                                               *)
(***************************************************************************)
EXTENDS TlsRec, FiniteSets

CONSTANTS Writers,        \* Procs that write to a data file
          Home,           \* the end of each
          Confs,          \* how the two ends are set up
          None,
          MaxData,        \* bound: data records written, by setup and end
          MayBreak,       \* whether the connection may break
          MayRequest      \* whether the server may send a HelloRequest

Ends == {"c", "s"}
Other(e) == IF e = "c" THEN "s" ELSE "c"

ASSUME TlsAssumption ==
  /\ Home \in [Writers -> Ends]
  /\ None \notin Writers
  /\ MaxData \in [Confs -> [Ends -> Nat]] /\ MayBreak \in BOOLEAN /\ MayRequest \in BOOLEAN

\* A server without a preshared key has a certificate: tlsServer2 ends with
\* an error when it has neither.  None is no master secret.
ASSUME SetupAssumption ==
  \A c \in Confs :
    /\ c.svers \in SSL3Version .. ProtocolVersion
    /\ c.cert \in {"none", "good", "bad"}
    /\ c.spsk = None => c.cert # "none"
    /\ \A p \in {"ecdh", "rsa", "zeros"}, k \in {c.cpsk, c.spsk} : None # [pm |-> p, psk |-> k]

VARIABLES conf,          \* versions, secrets and certificate of the ends
          tr,            \* the TlsRec of each end
          pc,            \* where the handshake of each end is
          cipher,        \* the cipher suite each end uses
          hash,          \* handshake messages hashed so far, handhash
          master,        \* the master secret
          peercert,      \* the client has the server's certificate
          refused,       \* why an end gave up on what the other sent
          wire,          \* records on their way to each end
          eof,           \* nothing more will come to that end
          broken,        \* the connection is broken
          fdopen,        \* the data file of each end is open
          rd,            \* the reader of each end
          wr, pend,      \* the writers, and the record a writer sealed
          outio,         \* out.io of each end
          sent, got,     \* data by the end that wrote it: how much, and what came
          over,          \* the ends whose data is known to be over
          requested      \* the server has sent its HelloRequest

hsVars == <<cipher, hash, master, peercert>>
ioVars == <<fdopen, rd, wr, pend, outio, sent, got, over>>
netVars == <<wire, eof, broken>>
vars == <<conf, tr, pc, refused, requested, hsVars, ioVars, netVars>>

\* The suites, in the order of cipherAlgs, by how keys are agreed on and
\* the hash of their record mac.
Suites == <<[kx |-> "ecdhe", mac |-> "sha256"], [kx |-> "ecdhe", mac |-> "sha1"],
            [kx |-> "rsa", mac |-> "sha1"],
            [kx |-> "psk", mac |-> "sha256"], [kx |-> "psk", mac |-> "sha1"]>>
IsPSK(a) == a.kx = "psk"
NoCipher == [kx |-> "none", mac |-> "none"]

Init ==
  /\ conf \in Confs
  /\ tr = [e \in Ends |-> NewTls(IF e = "c" THEN ProtocolVersion ELSE conf.svers)]
  /\ pc = [e \in Ends |-> IF e = "c" THEN "hello" ELSE "clienthello"]
  /\ cipher = [e \in Ends |-> NoCipher]
  /\ hash = [e \in Ends |-> <<>>]
  /\ master = [e \in Ends |-> None]
  /\ peercert = FALSE
  /\ refused = [e \in Ends |-> "nothing"]
  /\ wire = [e \in Ends |-> <<>>] /\ eof = [e \in Ends |-> FALSE] /\ broken = FALSE
  /\ fdopen = [e \in Ends |-> TRUE]
  /\ rd = [e \in Ends |-> "idle"]
  /\ wr = [w \in Writers |-> "idle"] /\ pend = [w \in Writers |-> None]
  /\ outio = [e \in Ends |-> None]
  /\ sent = [e \in Ends |-> 0] /\ got = [e \in Ends |-> <<>>]
  /\ over = {} /\ requested = FALSE

-----------------------------------------------------------------------------
(* Records on the connection *)

\* bwrite of a record by end e: it is on its way, unless the connection is
\* broken or the other end has gone.
Bwrite(e, rec) ==
  wire' = IF broken \/ eof[e] THEN wire
          ELSE [wire EXCEPT ![Other(e)] = Append(@, rec)]

Put(e, t) == tr' = [tr EXCEPT ![e] = t]
Goto(e, l) == pc' = [pc EXCEPT ![e] = l]

\* A fatal sendAlert by the only Proc at e.
FatalAlert(e, t) ==
  LET a == Alerting(t) IN
  IF MayWrite(a, "alert")
  THEN Put(e, TlsError(AfterSeal(a, "alert"))) /\ Bwrite(e, Sealed(a, "alert", "fatal"))
  ELSE Put(e, TlsError(a)) /\ UNCHANGED wire

\* tlsError of the handshake: give up with an alert.
GiveUp(e, t, why) ==
  /\ FatalAlert(e, t)
  /\ refused' = [refused EXCEPT ![e] = IF @ = "nothing" THEN why ELSE @]
  /\ Goto(e, "err")
  /\ UNCHANGED <<conf, requested, hsVars, ioVars, eof, broken>>

\* A write to the hand file, or a change of cipher, by the only Proc at e
\* which goes on at l; on a broken connection tlsError and give up.
HandWrite(e, t, type, body, l) ==
  IF ~MayWrite(t, type) THEN Put(e, t) /\ Goto(e, "err") /\ UNCHANGED wire
  ELSE IF broken THEN Put(e, TlsError(t)) /\ Goto(e, "err") /\ UNCHANGED wire
  ELSE /\ Put(e, AfterSeal(t, type)) /\ Bwrite(e, Sealed(t, type, body))
       /\ Goto(e, l)

\* The hand file waits for a record: tlsrecread.
Handshaking == {"serverhello", "certificate", "keyexchange", "hellodone",
                "serverfinished", "clienthello", "clientkey", "clientfinished"}

\* msgRecv fails: only the client's wait for Finished sends an alert.
ReadFailed(e) == IF pc[e] = "serverfinished" THEN "nofinished" ELSE "err"

HandRecread(e) ==
  /\ pc[e] \in Handshaking /\ ~HandReady(tr[e])
  /\ wire[e] # <<>>
  /\ LET rec == Head(wire[e]) rest == [wire EXCEPT ![e] = Tail(@)] IN
     IF Refused(tr[e], rec)
     THEN LET a == Alerting(tr[e]) IN     \* rcvError; the read fails
          /\ Put(e, TlsError(AfterSeal(a, "alert")))
          /\ wire' = IF broken \/ eof[e] THEN rest
                     ELSE [rest EXCEPT ![Other(e)] = Append(@, Sealed(a, "alert", "fatal"))]
          /\ refused' = [refused EXCEPT ![e] = Refusal(tr[e], rec)]
          /\ Goto(e, ReadFailed(e))
     ELSE /\ Put(e, Accepted(tr[e], rec)) /\ wire' = rest
          /\ Goto(e, IF rec.type = "alert" /\ rec.body # "noreneg" THEN ReadFailed(e) ELSE pc[e])
          /\ UNCHANGED refused
  /\ UNCHANGED <<conf, requested, hsVars, ioVars, eof, broken>>

\* (mutant) ensure reads again when there is nothing left.
HandHungupRetry(e) ==
  pc[e] \in Handshaking /\ ~HandReady(tr[e]) /\ wire[e] = <<>> /\ eof[e] /\ UNCHANGED vars

\* The connection ended during the handshake.
HandHungup(e) ==
  /\ pc[e] \in Handshaking /\ ~HandReady(tr[e])
  /\ wire[e] = <<>> /\ eof[e]
  /\ Put(e, TlsError(tr[e])) /\ Goto(e, ReadFailed(e))
  /\ UNCHANGED <<conf, refused, requested, hsVars, ioVars, netVars>>

NoServerFinished(e) == pc[e] = "nofinished" /\ GiveUp(e, tr[e], "nofinished")

\* Err: the hand, ctl and data files are closed, which closes the TlsRec
\* with a notify if it is still in order.
HandClose(e) ==
  /\ pc[e] = "err"
  /\ IF tr[e].state \in {"SOpen", "SHandshake", "SRClose"}
     THEN Bwrite(e, Sealed(tr[e], "alert", "close")) ELSE UNCHANGED wire
  /\ Put(e, [CloseHand(tr[e]) EXCEPT !.state = "SClosed"])
  /\ eof' = [eof EXCEPT ![Other(e)] = TRUE]
  /\ fdopen' = [fdopen EXCEPT ![e] = FALSE]
  /\ Goto(e, "failed")
  /\ UNCHANGED <<conf, refused, requested, hsVars, broken, rd, wr, pend, outio,
                 sent, got, over>>

-----------------------------------------------------------------------------
(* Messages of the handshake *)

\* msgRecv returns a message; it skips a HelloRequest and hashes the rest.
Receive(e, l) == /\ pc[e] = l /\ HandReady(tr[e])
                 /\ HandFirst(tr[e]).tag # "HelloRequest"
Message(e) == HandFirst(tr[e])
Hash(e, ms) == hash' = [hash EXCEPT ![e] = @ \o ms]

SkipRequest(e) ==
  /\ pc[e] \in Handshaking /\ HandReady(tr[e])
  /\ Message(e).tag = "HelloRequest"
  /\ Put(e, HandRest(tr[e]))
  /\ UNCHANGED <<conf, pc, refused, requested, hsVars, ioVars, netVars>>

Offer(psk) == {i \in DOMAIN Suites : IsPSK(Suites[i]) = (psk # None)}
Lowest(S) == CHOOSE i \in S : \A j \in S : i <= j
Lower(v, w) == IF v < w THEN v ELSE w

\* tlsSecFinished: what an end says, or expects, of the messages so far
Verify(e, who) == [by |-> who, master |-> master[e], hash |-> hash[e]]

\* setMasterSecret: the premaster secret with the preshared key
Master(kx, cert, psk) ==
  [pm |-> IF kx = "ecdhe" THEN "ecdh" ELSE IF cert THEN "rsa" ELSE "zeros", psk |-> psk]

\* setSecrets and the ctl message secret; sha256 does not go with SSL3.
Key(m, a, from) == [master |-> m, cipher |-> a, from |-> from]
SecretsFail(t, a) == t.version = SSL3Version /\ a.mac = "sha256"
WithSecrets(e, t, m, a) == SetSecret(t, Key(m, a, Other(e)), Key(m, a, e))

-----------------------------------------------------------------------------
(* tlsClient2 *)

ClientHello ==
  LET m == [tag |-> "ClientHello", vers |-> ProtocolVersion, suites |-> Offer(conf.cpsk)] IN
  /\ pc["c"] = "hello"
  /\ HandWrite("c", tr["c"], "hand", <<m>>, "serverhello")
  /\ Hash("c", <<m>>)
  /\ UNCHANGED <<conf, refused, requested, cipher, master, peercert, ioVars, eof, broken>>

\* Server Hello: the version and the cipher are settled.
ServerHello ==
  /\ Receive("c", "serverhello")
  /\ LET m == Message("c") t == HandRest(tr["c"]) IN
     IF m.tag # "ServerHello" THEN GiveUp("c", t, "unexpected")
     ELSE LET v == SetVersion(t, Lower(m.vers, ProtocolVersion)) IN
          IF (conf.cpsk # None) # IsPSK(m.cipher) THEN GiveUp("c", v, "cipher")
          ELSE /\ Put("c", v) /\ Goto("c", "certificate")
               /\ cipher' = [cipher EXCEPT !["c"] = m.cipher]
               /\ Hash("c", <<m>>)
               /\ UNCHANGED <<conf, refused, requested, master, peercert, ioVars, netVars>>

\* A certificate, which only a preshared key makes unnecessary.
Certificate ==
  /\ Receive("c", "certificate")
  /\ LET m == Message("c") t == HandRest(tr["c"]) IN
     IF m.tag = "Certificate"
     THEN /\ Put("c", t) /\ Goto("c", "keyexchange") /\ Hash("c", <<m>>)
          /\ peercert' = TRUE
          /\ UNCHANGED <<conf, refused, requested, cipher, master, ioVars, netVars>>
     ELSE IF conf.cpsk = None THEN GiveUp("c", t, "unexpected")
     ELSE /\ Goto("c", "keyexchange")
          /\ UNCHANGED <<conf, tr, refused, requested, hsVars, ioVars, netVars>>

\* (mutant) verifyDHparams is not called.
KeyExchangeUnsigned ==
  /\ Receive("c", "keyexchange")
  /\ LET m == Message("c") IN
     IF m.tag = "ServerKeyExchange"
     THEN /\ Put("c", HandRest(tr["c"])) /\ Goto("c", "hellodone") /\ Hash("c", <<m>>)
          /\ UNCHANGED <<conf, refused, requested, cipher, master, peercert, ioVars, netVars>>
     ELSE /\ Goto("c", "hellodone")
          /\ UNCHANGED <<conf, tr, refused, requested, hsVars, ioVars, netVars>>

\* Diffie-Hellman parameters, signed with the certificate's key
KeyExchange ==
  /\ Receive("c", "keyexchange")
  /\ LET m == Message("c") t == HandRest(tr["c"]) dhx == cipher["c"].kx = "ecdhe" IN
     IF m.tag = "ServerKeyExchange"
     THEN IF dhx /\ m.sig # "good" THEN GiveUp("c", t, "certificate")
          ELSE IF ~dhx /\ conf.cpsk = None THEN GiveUp("c", t, "unexpected")
          ELSE /\ Put("c", t) /\ Goto("c", "hellodone") /\ Hash("c", <<m>>)
               /\ UNCHANGED <<conf, refused, requested, cipher, master, peercert, ioVars, netVars>>
     ELSE IF dhx THEN GiveUp("c", t, "unexpected")
     ELSE /\ Goto("c", "hellodone")
          /\ UNCHANGED <<conf, tr, refused, requested, hsVars, ioVars, netVars>>

\* Server Hello Done: the secrets are set before the client's key is sent.
HelloDone ==
  /\ Receive("c", "hellodone")
  /\ LET m == Message("c")
         t == HandRest(tr["c"])
         a == cipher["c"]
         s == Master(a.kx, peercert, conf.cpsk)
         k == [tag |-> "ClientKeyExchange", pskid |-> conf.cpskid] IN
     IF m.tag # "HelloDone" THEN GiveUp("c", t, "unexpected")
     ELSE IF a.kx # "ecdhe" /\ peercert /\ conf.cert = "bad" THEN GiveUp("c", t, "certificate")
     ELSE IF SecretsFail(t, a) THEN GiveUp("c", t, "secrets")
     ELSE /\ HandWrite("c", WithSecrets("c", t, s, a), "hand", <<k>>, "changecipher")
          /\ master' = [master EXCEPT !["c"] = s]
          /\ Hash("c", <<m, k>>)
          /\ UNCHANGED <<conf, refused, requested, cipher, peercert, ioVars, eof, broken>>

\* changecipher of either end, which the other's Finished must not precede
ChangeCipher(e) ==
  /\ pc[e] = "changecipher"
  /\ HandWrite(e, tr[e], "ccs", 1, "finished")
  /\ UNCHANGED <<conf, refused, requested, hsVars, ioVars, eof, broken>>

\* Finished of either end
Finished(e) ==
  LET m == [tag |-> "Finished", verify |-> Verify(e, e)] IN
  /\ pc[e] = "finished"
  /\ HandWrite(e, tr[e], "hand", <<m>>, IF e = "c" THEN "serverfinished" ELSE "opening")
  /\ Hash(e, <<m>>)
  /\ UNCHANGED <<conf, refused, requested, cipher, master, peercert, ioVars, eof, broken>>

\* The other end's Finished: the same secret and the same messages.
FinishedMatch(e) ==
  /\ Receive(e, IF e = "c" THEN "serverfinished" ELSE "clientfinished")
  /\ LET m == Message(e) t == HandRest(tr[e]) IN
     IF m.tag # "Finished" THEN GiveUp(e, t, "unexpected")
     ELSE IF m.verify # Verify(e, Other(e)) THEN GiveUp(e, t, "finished")
     ELSE /\ Put(e, t) /\ Hash(e, <<m>>)
          /\ Goto(e, IF e = "c" THEN "opening" ELSE "changecipher")
          /\ UNCHANGED <<conf, refused, requested, cipher, master, peercert, ioVars, netVars>>

\* The ctl message opened
Open(e) ==
  /\ pc[e] = "opening"
  /\ IF MayOpen(tr[e]) THEN Put(e, Opened(tr[e])) /\ Goto(e, "opened")
                       ELSE Goto(e, "err") /\ UNCHANGED tr
  /\ UNCHANGED <<conf, refused, requested, hsVars, ioVars, netVars>>

\* tlsClient and tlsServer close the hand and ctl files and return data.
HandDone(e) ==
  /\ pc[e] = "opened"
  /\ Put(e, CloseHand(tr[e])) /\ Goto(e, "open")
  /\ UNCHANGED <<conf, refused, requested, hsVars, ioVars, netVars>>

-----------------------------------------------------------------------------
(* tlsServer2 *)

\* Client Hello, answered with the whole flight in one write
ServerFlight(a) ==
  <<[tag |-> "ServerHello", vers |-> Lower(conf.svers, ProtocolVersion), cipher |-> a]>>
  \o (IF conf.cert = "none" THEN <<>> ELSE <<[tag |-> "Certificate"]>>)
  \o (IF a.kx = "ecdhe" THEN <<[tag |-> "ServerKeyExchange", sig |-> conf.cert]>> ELSE <<>>)
  \o <<[tag |-> "HelloDone"]>>

HelloFromClient ==
  /\ Receive("s", "clienthello")
  /\ LET m == Message("s")
         t == SetVersion(HandRest(tr["s"]), Lower(m.vers, conf.svers))
         both == {i \in m.suites \intersect Offer(conf.spsk) : Suites[i].kx \in conf.skx}
         a == Suites[Lowest(both)] IN
     IF m.tag # "ClientHello" THEN GiveUp("s", HandRest(tr["s"]), "unexpected")
     ELSE IF both = {} THEN GiveUp("s", t, "cipher")
     ELSE /\ HandWrite("s", t, "hand", ServerFlight(a), "clientkey")
          /\ cipher' = [cipher EXCEPT !["s"] = a]
          /\ Hash("s", <<m>> \o ServerFlight(a))
          /\ UNCHANGED <<conf, refused, requested, master, peercert, ioVars, eof, broken>>

\* Client Key Exchange: the secrets are set before the change of cipher is read.
ClientKey ==
  /\ Receive("s", "clientkey")
  /\ LET m == Message("s")
         t == HandRest(tr["s"])
         a == cipher["s"]
         s == Master(a.kx, conf.cert # "none", conf.spsk) IN
     IF m.tag # "ClientKeyExchange" THEN GiveUp("s", t, "unexpected")
     ELSE IF conf.spskid # None /\ m.pskid # conf.spskid THEN GiveUp("s", t, "pskid")
     ELSE IF SecretsFail(t, a) THEN GiveUp("s", t, "secrets")
     ELSE /\ Put("s", WithSecrets("s", t, s, a)) /\ Goto("s", "clientfinished")
          /\ master' = [master EXCEPT !["s"] = s]
          /\ Hash("s", <<m>>)
          /\ UNCHANGED <<conf, refused, requested, cipher, peercert, ioVars, netVars>>

-----------------------------------------------------------------------------
(* The connection, and a server that asks for another handshake *)

Prefixes(s) == {SubSeq(s, 1, n) : n \in 0 .. Len(s)}

\* The connection breaks; part of what is under way still comes.
Break ==
  /\ MayBreak /\ ~broken
  /\ broken' = TRUE /\ eof' = [e \in Ends |-> TRUE]
  /\ \E c \in Prefixes(wire["c"]), s \in Prefixes(wire["s"]) :
       wire' = [e \in Ends |-> IF e = "c" THEN c ELSE s]
  /\ UNCHANGED <<conf, tr, pc, refused, requested, hsVars, ioVars>>

\* A HelloRequest, which a server may send at any time, and once does.
RequestReneg ==
  /\ MayRequest /\ ~requested /\ ~broken
  /\ pc["s"] \in {"clienthello", "open"} /\ outio["s"] = None
  /\ MayWrite(tr["s"], "hand")
  /\ Put("s", AfterSeal(tr["s"], "hand"))
  /\ Bwrite("s", Sealed(tr["s"], "hand", <<[tag |-> "HelloRequest"]>>))
  /\ requested' = TRUE
  /\ UNCHANGED <<conf, pc, refused, hsVars, ioVars, eof, broken>>

-----------------------------------------------------------------------------
(* tlsbread of the data file: one reader at each end, which holds in.io *)

Reader(e, l) == rd' = [rd EXCEPT ![e] = l]
readUnch == <<conf, pc, requested, hsVars, fdopen, wr, pend, outio, sent, eof, broken>>

ReadBegin(e) ==
  /\ pc[e] = "open" /\ fdopen[e] /\ rd[e] = "idle"
  /\ Reader(e, IF tr[e].state = "SOpen" THEN "read" ELSE "dead")
  /\ UNCHANGED <<readUnch, tr, refused, got, over, wire>>

\* tlsrecread; an alert it has to send waits for out.io.
DataRecread(e) ==
  /\ rd[e] = "read" /\ wire[e] # <<>>
  /\ wire' = [wire EXCEPT ![e] = Tail(@)]
  /\ LET rec == Head(wire[e]) IN
     IF Refused(tr[e], rec)
     THEN /\ Put(e, Alerting(tr[e])) /\ Reader(e, "alert")
          /\ refused' = [refused EXCEPT ![e] = Refusal(tr[e], Head(wire[e]))]
          /\ UNCHANGED <<got, over>>
     ELSE /\ Put(e, Accepted(tr[e], rec))
          /\ got' = IF rec.type = "data" THEN [got EXCEPT ![e] = Append(@, rec.body)] ELSE got
          /\ over' = IF rec.type = "alert" /\ rec.body = "close" THEN over \union {Other(e)} ELSE over
          /\ Reader(e, CASE rec.type = "data" -> "idle"
                         [] rec.type = "alert" /\ rec.body # "noreneg" -> "dead"
                         [] rec.type = "hand" /\ tr[e].version # SSL3Version -> "noreneg"
                         [] OTHER -> "read")
          /\ UNCHANGED refused
  /\ UNCHANGED readUnch

\* (mutant) The end of the connection is taken for a close notify.
DataHungupClosed(e) ==
  /\ rd[e] = "read" /\ wire[e] = <<>> /\ eof[e]
  /\ Put(e, TlsError(tr[e])) /\ Reader(e, "dead")
  /\ over' = over \union {Other(e)}
  /\ UNCHANGED <<readUnch, refused, got, wire>>

\* ensure finds the connection at its end.
DataHungup(e) ==
  /\ rd[e] = "read" /\ wire[e] = <<>> /\ eof[e]
  /\ Put(e, TlsError(tr[e])) /\ Reader(e, "dead")
  /\ UNCHANGED <<readUnch, refused, got, over, wire>>

\* (mutant) The reader ends after a warning too.
ReaderAlertEnds(e) ==
  /\ rd[e] \in {"noreneg", "alert"} /\ outio[e] = None
  /\ Bwrite(e, Sealed(tr[e], "alert", "noreneg"))
  /\ Put(e, AfterSeal(tr[e], "alert")) /\ Reader(e, "dead")
  /\ UNCHANGED <<readUnch, refused, got, over>>

\* sendAlert by the reader: a warning, or a fatal one
ReaderAlert(e) ==
  /\ rd[e] \in {"noreneg", "alert"} /\ outio[e] = None
  /\ LET fatal == rd[e] = "alert"
         may == MayWrite(tr[e], "alert")
         t == IF may THEN AfterSeal(tr[e], "alert") ELSE tr[e] IN
     /\ Put(e, IF fatal \/ (may /\ broken) THEN TlsError(t) ELSE t)
     /\ IF may THEN Bwrite(e, Sealed(tr[e], "alert", IF fatal THEN "fatal" ELSE "noreneg"))
               ELSE UNCHANGED wire
     /\ Reader(e, IF fatal THEN "dead" ELSE "read")
  /\ UNCHANGED <<readUnch, refused, got, over>>

-----------------------------------------------------------------------------
(* tlsbwrite of the data file: out.io is held from the check of the state   *)
(* until bwrite is done, across the seal.                                   *)

Writer(w, l) == wr' = [wr EXCEPT ![w] = l]
Lock(e, w) == outio' = [outio EXCEPT ![e] = w]
writeUnch == <<conf, pc, refused, requested, hsVars, fdopen, rd, got, over, eof, broken>>

Writing(e) == {w \in Writers : Home[w] = e /\ wr[w] \in {"want", "locked", "sealed"}}

WriteBegin(w) ==
  LET e == Home[w] IN
  /\ pc[e] = "open" /\ fdopen[e] /\ wr[w] = "idle"
  /\ sent[e] + Cardinality(Writing(e)) < MaxData[conf][e]
  /\ Writer(w, IF tr[e].state = "SOpen" THEN "want" ELSE "dead")
  /\ UNCHANGED <<writeUnch, tr, pend, outio, sent, wire>>

\* (mutant) out.io is not taken for data.
WriteLockLoose(w) ==
  /\ wr[w] = "want" /\ Writer(w, "locked")
  /\ UNCHANGED <<writeUnch, tr, pend, outio, sent, wire>>

WriteLock(w) ==
  /\ wr[w] = "want" /\ outio[Home[w]] = None
  /\ Lock(Home[w], w) /\ Writer(w, "locked")
  /\ UNCHANGED <<writeUnch, tr, pend, sent, wire>>

\* The record is made and counted; or the state forbids it by now.
WriteSeal(w) ==
  LET e == Home[w] IN
  /\ wr[w] = "locked"
  /\ IF MayWrite(tr[e], "data")
     THEN /\ pend' = [pend EXCEPT ![w] = Sealed(tr[e], "data", sent[e] + 1)]
          /\ Put(e, AfterSeal(tr[e], "data")) /\ Writer(w, "sealed")
          /\ UNCHANGED outio
     ELSE Writer(w, "dead") /\ Lock(e, None) /\ UNCHANGED <<pend, tr>>
  /\ UNCHANGED <<writeUnch, sent, wire>>

WriteOut(w) ==
  LET e == Home[w] IN
  /\ wr[w] = "sealed" /\ ~broken
  /\ Bwrite(e, pend[w]) /\ pend' = [pend EXCEPT ![w] = None]
  /\ sent' = [sent EXCEPT ![e] = @ + 1]
  /\ Writer(w, "idle") /\ Lock(e, None)
  /\ UNCHANGED <<writeUnch, tr>>

\* bwrite fails on a connection that is broken, or that the other closed.
WriteFails(w) ==
  LET e == Home[w] IN
  /\ wr[w] = "sealed" /\ (broken \/ eof[e])
  /\ Put(e, TlsError(tr[e])) /\ pend' = [pend EXCEPT ![w] = None]
  /\ Writer(w, "dead") /\ Lock(e, None)
  /\ UNCHANGED <<writeUnch, sent, wire>>

-----------------------------------------------------------------------------
(* tlsclose *)

CloseFd(e) ==
  /\ pc[e] = "open" /\ fdopen[e]
  /\ fdopen' = [fdopen EXCEPT ![e] = FALSE]
  /\ UNCHANGED <<conf, tr, pc, refused, requested, hsVars, netVars,
                 rd, wr, pend, outio, sent, got, over>>

\* The last reference is gone: no read or write is under way.
Unused(e) == ~fdopen[e] /\ rd[e] \in {"idle", "dead"} /\ Writing(e) = {}

Tlsclose(e) ==
  /\ pc[e] = "open" /\ Unused(e)
  /\ wire' = [f \in Ends |->
       CASE f = e -> <<>>
         [] f # e /\ tr[e].state \in {"SOpen", "SHandshake", "SRClose"} /\ ~eof[e] ->
              Append(wire[f], Sealed(tr[e], "alert", "close"))
         [] OTHER -> wire[f]]
  /\ Put(e, [tr[e] EXCEPT !.state = "SClosed"])
  /\ eof' = [eof EXCEPT ![Other(e)] = TRUE]
  /\ Goto(e, "closed")
  /\ UNCHANGED <<conf, refused, requested, hsVars, ioVars, broken>>

-----------------------------------------------------------------------------
Client == ClientHello \/ ServerHello \/ Certificate \/ KeyExchange \/ HelloDone
          \/ NoServerFinished("c")
Server == HelloFromClient \/ ClientKey

Handshake(e) ==
  \/ e = "c" /\ Client
  \/ e = "s" /\ Server
  \/ HandRecread(e) \/ HandHungup(e) \/ SkipRequest(e)
  \/ ChangeCipher(e) \/ Finished(e) \/ FinishedMatch(e)
  \/ Open(e) \/ HandDone(e) \/ HandClose(e)

Read(e) == ReadBegin(e) \/ DataRecread(e) \/ DataHungup(e) \/ ReaderAlert(e)
Write(w) == WriteLock(w) \/ WriteSeal(w) \/ WriteOut(w) \/ WriteFails(w)

Next ==
  \/ \E e \in Ends : Handshake(e) \/ Read(e) \/ CloseFd(e) \/ Tlsclose(e)
  \/ \E w \in Writers : WriteBegin(w) \/ Write(w)
  \/ Break \/ RequestReneg

\* Procs run, and a program that has the connection reads it.  When a
\* program writes or closes is its own affair.
Fairness ==
  /\ \A e \in Ends : WF_vars(Handshake(e)) /\ WF_vars(Read(e)) /\ WF_vars(Tlsclose(e))
  /\ \A w \in Writers : WF_vars(Write(w))

Spec == Init /\ [][Next]_vars /\ Fairness

-----------------------------------------------------------------------------
\* The ends stay in step, whoever writes and whatever the records carry: no
\* record of a correct peer is refused for its version, its place or its
\* number, and its mac only when the preshared keys differ.
InStep ==
  \A e \in Ends :
    /\ refused[e] \notin {"unexpected", "version", "finished"}
    /\ refused[e] = "mac" => conf.cpsk # conf.spsk

\* An end opens the connection only when the other has the same version,
\* cipher and master secret, has shown it, and knows the preshared key; and
\* the client only with a server whose certificate holds.
OpenAgreed ==
  \A e \in Ends : tr[e].opened =>
    /\ tr["c"].version = tr["s"].version \/ tr["s"].verset = FALSE
    /\ cipher["c"] = cipher["s"] /\ master["c"] = master["s"] /\ master[e] # None
    /\ conf.cpsk = conf.spsk
    /\ e = "c" => conf.cert # "bad"

\* The data files are a pair of streams: data arrives in order and once, and
\* is over only when the other end closed and all of it has come, however
\* the connection breaks.
Pipe == INSTANCE ReliablePipe WITH
  written <- [d \in {"out", "in"} |-> IF d = "out" THEN sent["c"] ELSE sent["s"]],
  ended   <- [d \in {"out", "in"} |-> pc[IF d = "out" THEN "c" ELSE "s"] \in {"closed", "failed"}],
  arrived <- [d \in {"out", "in"} |-> IF d = "out" THEN got["s"] ELSE got["c"]],
  over    <- [d \in {"out", "in"} |-> (IF d = "out" THEN "c" ELSE "s") \in over]

PipeSpec == Pipe!Spec

\* Every handshake comes to an end at both ends.
HandshakeEnds ==
  \A e \in Ends : <>(pc[e] \in {"open", "closed", "failed"})

\* What one end has written comes to the other, unless the connection broke,
\* or the other end closes its own or fails: a failed write keeps it from what
\* has come before.
DataArrives ==
  \A e \in Ends, n \in 1 .. 2 :
    sent[e] >= n ~> \/ Len(got[Other(e)]) >= n \/ broken
                    \/ ~fdopen[Other(e)] \/ tr[Other(e)].state = "SError"
=============================================================================
