------------------------------- MODULE TlsRec -------------------------------
(***************************************************************************)
(* The record layer of kern/devtls.c, one TlsRec as a value: the state of  *)
(* the connection, the cipher of each direction with the one that waits    *)
(* for the change of cipher, the record numbers, and the handshake queue.  *)
(* What the device does under in.io, out.io and the seclocks is an         *)
(* operator from one such value to the next; module Tls interleaves them.  *)
(*                                                                         *)
(* Encryption is abstract: a record carries the key and the number it was  *)
(* sealed with, and opens only with the same two (BadMac).  Left out are   *)
(* records of SSL2, padding, lengths, and the alerts alertHand queues: the *)
(* read of hand that would find one has failed with its record already.    *)
(***************************************************************************)
EXTENDS Naturals, Sequences

NoSec == [clear |-> TRUE]            \* no cipher yet

\* versions: SSL3, TLS10, TLS11, TLS12
SSL3Version == 0
ProtocolVersion == 3

States == {"SHandshake", "SOpen", "SRClose", "SAlert", "SError", "SClosed"}

\* newtls, open of hand, and the ctl message fd
NewTls(version) ==
  [state |-> "SHandshake", version |-> version, verset |-> FALSE, opened |-> FALSE,
   insec |-> NoSec, innew |-> NoSec, inseq |-> 0,
   outsec |-> NoSec, outnew |-> NoSec, outseq |-> 0,
   hand |-> TRUE, handq |-> <<>>, hprocessed |-> <<>>]

-----------------------------------------------------------------------------
(* The ctl file *)

\* version: once, after fd
SetVersion(tr, v) == [tr EXCEPT !.verset = TRUE, !.version = v]

\* secret: new ciphers for both directions, which wait for the change
SetSecret(tr, in, out) == [tr EXCEPT !.innew = in, !.outnew = out]

\* opened, allowed in two states and with ciphers in both directions
MayOpen(tr) ==
  /\ tr.insec # NoSec /\ tr.outsec # NoSec
  /\ tr.state \in {"SHandshake", "SOpen"}
Opened(tr) == [tr EXCEPT !.state = "SOpen", !.opened = TRUE]

-----------------------------------------------------------------------------
(* Writing *)

\* checkstate of tlsrecwrite
MayWrite(tr, type) ==
  tr.state \in {"SHandshake", "SOpen", "SRClose"}
               \union (IF type = "alert" THEN {"SAlert"} ELSE {})

\* The record that tlsrecwrite builds under out.seclock ...
Sealed(tr, type, body) ==
  [type |-> type, ver |-> tr.version, body |-> body, sec |-> tr.outsec,
   seq |-> IF tr.outsec = NoSec THEN 0 ELSE tr.outseq]

\* ... and what is left behind: the next number, or the new cipher.
AfterSeal(tr, type) ==
  CASE type = "ccs" -> [tr EXCEPT !.outsec = tr.outnew, !.outnew = NoSec, !.outseq = 0]
    [] type # "ccs" /\ tr.outsec # NoSec -> [tr EXCEPT !.outseq = @ + 1]
    [] OTHER -> tr

TlsError(tr) == [tr EXCEPT !.state = "SError"]

\* the first step of a fatal sendAlert
Alerting(tr) ==
  IF tr.state \in {"SOpen", "SHandshake", "SRClose"} THEN [tr EXCEPT !.state = "SAlert"]
                                                    ELSE tr

-----------------------------------------------------------------------------
(* Reading *)

\* the version in the header, until it is settled any that exists
WrongVersion(tr, rec) == tr.verset /\ rec.ver # tr.version

\* The record is not the next one sealed with our key.  A record that is
\* not sealed carries number 0.
BadMac(tr, rec) ==
  \/ rec.sec # tr.insec
  \/ rec.sec # NoSec /\ rec.seq # tr.inseq

\* records whose type cannot come now
Unexpected(tr, rec) ==
  \/ rec.type = "ccs" /\ tr.innew = NoSec
  \/ rec.type = "data" /\ ~tr.opened

Refusal(tr, rec) == CASE WrongVersion(tr, rec) -> "version"
                      [] BadMac(tr, rec) -> "mac"
                      [] OTHER -> "unexpected"
Refused(tr, rec) == WrongVersion(tr, rec) \/ BadMac(tr, rec) \/ Unexpected(tr, rec)

\* The record was opened: the number is used up.
Counted(tr) == IF tr.insec = NoSec THEN tr ELSE [tr EXCEPT !.inseq = @ + 1]

\* tlsclosed for the other side's close notify.  tlsrecread then fails, and
\* its handler makes an error of SRClose at once.
RemoteClosed(tr) ==
  [tr EXCEPT !.state = IF @ \in {"SOpen", "SHandshake"} THEN "SRClose" ELSE @]

\* What an accepted record does to the TlsRec; data goes to the reader.
Accepted(tr, rec) ==
  LET t == Counted(tr) IN
  CASE rec.type = "ccs" ->
         [t EXCEPT !.insec = t.innew, !.innew = NoSec, !.inseq = 0]
    [] rec.type = "alert" /\ rec.body = "fatal" -> TlsError(t)
    [] rec.type = "alert" /\ rec.body = "close" -> TlsError(RemoteClosed(t))
    [] rec.type = "hand" /\ t.hand -> [t EXCEPT !.handq = Append(@, rec.body)]
    [] OTHER -> t

-----------------------------------------------------------------------------
(* The hand file *)

\* tlsbread of hand need not read a record.
HandReady(tr) == tr.hprocessed # <<>> \/ tr.handq # <<>>

\* hprocessed is refilled from the queue.
HandFirst(tr) == IF tr.hprocessed # <<>> THEN Head(tr.hprocessed) ELSE Head(Head(tr.handq))
HandRest(tr) ==
  IF tr.hprocessed # <<>>
  THEN [tr EXCEPT !.hprocessed = Tail(@)]
  ELSE [tr EXCEPT !.hprocessed = Tail(Head(tr.handq)), !.handq = Tail(@)]

\* dechandq for the close of the hand file
CloseHand(tr) == [tr EXCEPT !.hand = FALSE, !.handq = <<>>, !.hprocessed = <<>>]
=============================================================================
