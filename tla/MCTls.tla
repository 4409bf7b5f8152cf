------------------------------- MODULE MCTls --------------------------------
EXTENDS Tls, TLC

CONSTANTS w1, w2, w3, k1, k2

MCHome == (w1 :> "c") @@ (w2 :> "c") @@ (w3 :> "s")

\* Both keys the same, different, or of different names; one end without a
\* key; certificates that hold and that do not; servers of the past.
Setup(cpsk, spsk, sid, cert) ==
  [cpsk |-> cpsk, cpskid |-> cpsk, spsk |-> spsk, spskid |-> sid,
   svers |-> 3, skx |-> {"ecdhe", "rsa", "psk"}, cert |-> cert]
Old(vers, kx, cert) == [Setup(None, None, None, cert) EXCEPT !.svers = vers, !.skx = kx]

MCConfs ==
  {Setup(k1, k1, k1, "none"), Setup(k1, k2, None, "none"), Setup(k1, k2, k2, "none"),
   Setup(k1, None, None, "good"), Setup(None, k1, k1, "none"), Setup(None, None, None, "bad"),
   Old(1, {"ecdhe"}, "good"), Old(1, {"rsa"}, "good"), Old(1, {"rsa"}, "bad"),
   Old(0, {"ecdhe"}, "good"), Old(0, {"rsa"}, "good")}

\* Data flows in one of the setups, and in another a single record.
MCMaxData ==
  [x \in MCConfs |->
    [e \in Ends |-> CASE x = Setup(k1, k1, k1, "none") -> IF e = "c" THEN 2 ELSE 1
                      [] x = Old(0, {"rsa"}, "good") /\ e = "c" -> 1
                      [] OTHER -> 0]]
=============================================================================
