------------------------------ MODULE FilesProofs ------------------------------
(***************************************************************************)
(* The tables of exportfs, for any number of Fids, slaves, files and       *)
(* descriptors.  No two Fids share a descriptor, none is closed while its  *)
(* Fid has it or a slave reads it, and what a Fid gives up is closed.  The *)
(* counts of the Files and of the entries of qidtab are true, so that      *)
(* nothing in use is freed.  And the tree of Files is, for the client, a   *)
(* place for each fid: they implement FidPlaces.                           *)
(***************************************************************************)
EXTENDS Files, FiniteSetTheorems, SequenceTheorems, WellFoundedInduction, TLAPS

\* No Fid has a descriptor at the start.
LEMMA InitFdsInv == Init => FdsInv
BY FilesAssumption DEF Init, FdsInv, FdTypes, MainAt, SlaveAt, FdsOwned, Apart, Idle, Quiet

\* A walk goes on with the same Fid.
LEMMA WalkOn ==
  ASSUME FdsInv, main.at = "walk", NEW l \in Seq(Names \union {DotDot}),
         main' = [at |-> "walk", fid |-> main.fid, new |-> main.new, left |-> l],
         UNCHANGED <<fd, sysfd, mode, slave>>
  PROVE  FdsInv'
<1>1. /\ main'.at = "walk" /\ main'.fid = main.fid /\ main'.new = main.new
      /\ main'.left = l /\ main # Idle
  BY DEF Idle
<1>2. MainAt'
  <2>1. main.fid \in Fids /\ main.new \in BOOLEAN
    BY <1>1 DEF FdsInv, MainAt
  <2> QED BY <1>1, <2>1 DEF MainAt
<1>3. FdTypes' /\ SlaveAt' /\ FdsOwned'
  BY DEF FdsInv, FdTypes, SlaveAt, FdsOwned, Idle
<1>4. Apart'
  BY <1>1 DEF FdsInv, Apart, Idle, Quiet
<1> QED BY <1>2, <1>3, <1>4 DEF FdsInv

\* A slave is done with its Fid, which nobody has changed but to set its mode.
LEMMA SlaveDone ==
  ASSUME FdsInv, NEW s \in Slaves, slave' = [slave EXCEPT ![s] = Idle],
         UNCHANGED <<fd, sysfd, main>>,
         \/ UNCHANGED mode
         \/ slave[s].at = "stat" /\ mode' = [mode EXCEPT ![slave[s].fid] = TRUE]
  PROVE  FdsInv'
<1>1. /\ DOMAIN slave = Slaves /\ slave'[s] = Idle
      /\ \A t \in Slaves \ {s} : slave'[t] = slave[t]
  BY DEF FdsInv, SlaveAt
<1>2. Idle.at = "idle"
  BY DEF Idle
<1>3. SlaveAt'
  BY <1>1 DEF FdsInv, SlaveAt
<1>4. MainAt'
  BY DEF FdsInv, MainAt
<1>5. \A t \in Slaves : slave'[t] # Idle => t # s /\ slave'[t] = slave[t]
  BY <1>1
<1>6. CASE UNCHANGED mode
  <2>1. FdTypes'
    BY <1>6 DEF FdsInv, FdTypes
  <2>2. FdsOwned'
    BY <1>1, <1>2, <1>5, <1>6 DEF FdsInv, FdsOwned
  <2>3. Apart'
    <3>1. main # Idle => Quiet(main.fid)'
      BY <1>5 DEF FdsInv, Apart, Quiet
    <3>2. /\ main.at = "walk" => (main.new => sysfd[main.fid] = None)
          /\ main.at = "create" => sysfd[main.fid] # None
          /\ \A f \in Fids : mode[f] => sysfd[f] # None
      BY DEF FdsInv, Apart
    <3>3. ASSUME NEW t \in Slaves, slave'[t].at \in {"path", "stat"}
          PROVE  /\ ~mode[slave'[t].fid]
                 /\ slave'[t].at = "path" => sysfd[slave'[t].fid] = None
                 /\ \A u \in Slaves \ {t} : slave'[u] # Idle => slave'[u].fid # slave'[t].fid
      <4>1. t # s /\ slave'[t] = slave[t]
        BY <1>1, <1>2, <3>3
      <4> QED BY <1>5, <3>3, <4>1 DEF FdsInv, Apart
    <3> HIDE DEF Idle
    <3> QED BY <1>6, <3>1, <3>2, <3>3 DEF Apart
  <2> QED BY <1>3, <1>4, <2>1, <2>2, <2>3 DEF FdsInv
<1>7. CASE slave[s].at = "stat" /\ mode' = [mode EXCEPT ![slave[s].fid] = TRUE]
  <2> DEFINE f == slave[s].fid
  <2>1. slave[s] # Idle /\ f \in Fids /\ sysfd[f] # None
    BY <1>2, <1>7 DEF FdsInv, SlaveAt, FdsOwned
  <2>2. FdTypes' /\ mode'[f] = TRUE /\ \A g \in Fids \ {f} : mode'[g] = mode[g]
    BY <1>7, <2>1 DEF FdsInv, FdTypes
  <2>3. FdsOwned'
    BY <1>1, <1>2, <1>5 DEF FdsInv, FdsOwned
  <2> HIDE DEF f
  <2>4. Apart'
    <3>1. main # Idle => Quiet(main.fid)'
      BY <1>5 DEF FdsInv, Apart, Quiet
    <3>2. /\ main.at = "walk" => (main.new => sysfd[main.fid] = None)
          /\ main.at = "create" => sysfd[main.fid] # None
          /\ \A g \in Fids : mode'[g] => sysfd[g] # None
      BY <2>1, <2>2 DEF FdsInv, Apart
    <3>3. ASSUME NEW t \in Slaves, slave'[t].at \in {"path", "stat"}
          PROVE  /\ ~mode'[slave'[t].fid]
                 /\ slave'[t].at = "path" => sysfd[slave'[t].fid] = None
                 /\ \A u \in Slaves \ {t} : slave'[u] # Idle => slave'[u].fid # slave'[t].fid
      <4>1. t # s /\ slave'[t] = slave[t]
        BY <1>1, <1>2, <3>3
      <4>2. slave[t].fid # f /\ slave[t].fid \in Fids
        BY <1>2, <2>1, <3>3, <4>1 DEF FdsInv, Apart, SlaveAt, f
      <4> QED BY <1>5, <2>2, <3>3, <4>1, <4>2 DEF FdsInv, Apart
    <3> QED BY <3>1, <3>2, <3>3 DEF Apart
  <2> QED BY <1>3, <1>4, <2>2, <2>3, <2>4 DEF FdsInv
<1> QED BY <1>6, <1>7

\* Each request, step of a handler and step of a slave keeps it.
LEMMA NextFdsInv == FdsInv /\ [Next]_vars => FdsInv'
<1> SUFFICES ASSUME FdsInv, [Next]_vars PROVE FdsInv'
  OBVIOUS
<1> USE FilesAssumption DEF FdsInv, FdTypes, MainAt, SlaveAt, FdsOwned, Apart, Idle, Quiet, fidVars
<1>1. ASSUME NEW f \in Fids, Xattach(f) PROVE FdsInv'
  BY <1>1 DEF Xattach
<1>2. ASSUME NEW f \in Fids, Xclunk(f) PROVE FdsInv'
  BY <1>2 DEF Xclunk, Ready, Closed, Freefid
<1>3. ASSUME NEW f \in Fids, Xremove(f) PROVE FdsInv'
  BY <1>3 DEF Xremove, Ready, Closed, Freefid
<1>4. ASSUME NEW f \in Fids, CreateNot(f) PROVE FdsInv'
  BY <1>4 DEF CreateNot, Ready
<1>5. ASSUME NEW f \in Fids, NEW n \in Names, Xcreate(f, n) PROVE FdsInv'
  BY <1>5 DEF Xcreate, Ready, Lowest
<1>6. ASSUME NEW f \in Fids, NEW n \in Names, Xwstat(f, n) PROVE FdsInv'
  BY <1>6 DEF Xwstat
<1>7. ASSUME NEW f \in Fids, NEW n \in Fids, NEW names \in Walks, Xwalk(f, n, names)
      PROVE FdsInv'
  <2>1. /\ main = Idle /\ Quiet(f) /\ Quiet(n)
        /\ main' = [at |-> "walk", fid |-> n, new |-> n # f, left |-> names]
        /\ UNCHANGED slave
        /\ \/ n = f /\ UNCHANGED <<fd, sysfd, mode>>
           \/ /\ n # f
              /\ fd' = IF sysfd[n] = None THEN fd ELSE [fd EXCEPT ![sysfd[n]] = None]
              /\ sysfd' = [sysfd EXCEPT ![n] = None]
              /\ mode' = [mode EXCEPT ![n] = FALSE]
    BY <1>7 DEF Xwalk, Ready, Closed
  <2>2. FdTypes'
    <3>1. /\ fd \in [Fds -> Objs \union {None}]
          /\ sysfd \in [Fids -> Fds \union {None}]
          /\ mode \in [Fids -> BOOLEAN]
      OBVIOUS
    <3> HIDE DEF FdsInv, FdTypes, MainAt, SlaveAt, FdsOwned, Apart, Idle, Quiet
    <3>2. fd' \in [Fds -> Objs \union {None}]
      BY <2>1, <3>1
    <3>3. sysfd' \in [Fids -> Fds \union {None}]
      BY <2>1, <3>1
    <3>4. mode' \in [Fids -> BOOLEAN]
      BY <2>1, <3>1
    <3> QED BY <3>2, <3>3, <3>4 DEF FdTypes
  <2>3. MainAt' /\ SlaveAt'
    BY <2>1
  <2>4. CASE n = f
    <3>1. main'.fid = n /\ main'.at = "walk" /\ main'.new = FALSE /\ UNCHANGED <<fd, sysfd, mode, slave>>
      BY <2>1, <2>4
    <3>2. FdsOwned'
      BY <3>1
    <3>3. Apart'
      BY <2>1, <3>1
    <3> QED BY <2>2, <2>3, <3>2, <3>3
  <2>5. CASE n # f
    <3>1. /\ main'.fid = n /\ main'.at = "walk" /\ UNCHANGED slave
          /\ \A s \in Slaves : slave[s] # Idle => slave[s].fid # n
      BY <2>1
    <3>2. /\ sysfd' = [sysfd EXCEPT ![n] = None]
          /\ mode' = [mode EXCEPT ![n] = FALSE]
          /\ fd' = IF sysfd[n] = None THEN fd ELSE [fd EXCEPT ![sysfd[n]] = None]
      BY <2>1, <2>5
    <3>3. FdsOwned'
      BY <3>1, <3>2
    <3>4. Apart'
      <4>1. Quiet(main.fid)' /\ sysfd'[n] = None
        BY <3>1, <3>2
      <4>2. \A g \in Fids : mode'[g] => sysfd'[g] # None
        BY <3>2
      <4>3. \A s \in Slaves : slave[s].at \in {"path", "stat"} =>
              /\ ~mode'[slave[s].fid]
              /\ sysfd'[slave[s].fid] = sysfd[slave[s].fid]
        <5> SUFFICES ASSUME NEW s \in Slaves, slave[s].at \in {"path", "stat"}
                     PROVE  /\ ~mode'[slave[s].fid]
                            /\ sysfd'[slave[s].fid] = sysfd[slave[s].fid]
          OBVIOUS
        <5>1. slave[s].fid \in Fids /\ slave[s].fid # n /\ ~mode[slave[s].fid]
          BY <3>1
        <5> QED BY <3>2, <5>1
      <4>4. \A s \in Slaves : slave'[s].at \in {"path", "stat"} =>
              /\ ~mode'[slave'[s].fid]
              /\ slave'[s].at = "path" => sysfd'[slave'[s].fid] = None
              /\ \A t \in Slaves \ {s} : slave'[t] # Idle => slave'[t].fid # slave'[s].fid
        BY <3>1, <4>3
      <4> HIDE DEF FdTypes, MainAt, SlaveAt, FdsOwned, Quiet
      <4> QED BY <3>1, <4>1, <4>2, <4>4
    <3> QED BY <2>2, <2>3, <3>3, <3>4
  <2> QED BY <2>4, <2>5
<1>8. ASSUME NEW f \in Fids, NEW s \in Slaves, Slaveopen(s, f) PROVE FdsInv'
  <2> DEFINE v == [at |-> "path", fid |-> f, path |-> Path(file, of[f])]
  <2>1. /\ slave[s] = Idle /\ ~mode[f] /\ Quiet(f) /\ (main # Idle => main.fid # f)
        /\ fd' = IF sysfd[f] = None THEN fd ELSE [fd EXCEPT ![sysfd[f]] = None]
        /\ sysfd' = [sysfd EXCEPT ![f] = None] /\ slave' = [slave EXCEPT ![s] = v]
        /\ UNCHANGED <<main, mode>>
    BY <1>8 DEF Slaveopen, Closed
  <2>2. /\ v.at = "path" /\ v.fid = f /\ v # Idle
        /\ v = [at |-> v.at, fid |-> v.fid, path |-> v.path]
    OBVIOUS
  <2> HIDE DEF v, FdsInv, FdTypes, MainAt, SlaveAt, FdsOwned, Apart, Idle, Quiet
  <2>3. slave'[s] = v /\ \A t \in Slaves \ {s} : slave'[t] = slave[t]
    BY <2>1 DEF FdsInv, SlaveAt
  <2>4. /\ fd \in [Fds -> Objs \union {None}]
        /\ sysfd \in [Fids -> Fds \union {None}]
        /\ mode \in [Fids -> BOOLEAN]
    BY DEF FdsInv, FdTypes
  <2>5. FdTypes' /\ MainAt'
    BY <2>1, <2>4 DEF FdsInv, FdTypes, MainAt, Idle
  <2>6. SlaveAt'
    <3>1. DOMAIN slave' = Slaves /\ slave' = [t \in Slaves |-> slave'[t]]
      BY <2>1 DEF FdsInv, SlaveAt
    <3>2. \A t \in Slaves \ {s} :
            \/ slave[t] = Idle
            \/ /\ slave[t] = [at |-> slave[t].at, fid |-> slave[t].fid, path |-> slave[t].path]
               /\ slave[t].at \in {"path", "stat", "read"} /\ slave[t].fid \in Fids
      BY DEF FdsInv, SlaveAt
    <3>3. ASSUME NEW t \in Slaves
          PROVE  \/ slave'[t] = Idle
                 \/ /\ slave'[t] = [at |-> slave'[t].at, fid |-> slave'[t].fid, path |-> slave'[t].path]
                    /\ slave'[t].at \in {"path", "stat", "read"} /\ slave'[t].fid \in Fids
      <4>1. CASE t = s
        BY <2>2, <2>3, <4>1
      <4>2. CASE t # s
        <5>1. slave'[t] = slave[t]
          BY <2>3, <4>2
        <5> QED BY <3>2, <4>2, <5>1
      <4> QED BY <4>1, <4>2
    <3> QED BY <3>1, <3>3 DEF SlaveAt, Idle
  <2>7. sysfd'[f] = None /\ \A g \in Fids \ {f} : sysfd'[g] = sysfd[g]
    BY <2>1, <2>4
  <2>8. \A t \in Slaves \ {s} : slave[t] # Idle => slave[t].fid \in Fids \ {f}
    BY <2>1 DEF FdsInv, SlaveAt, Quiet, Idle
  <2>9. FdsOwned'
    <3>1. ASSUME NEW g \in Fids, sysfd'[g] # None
          PROVE  /\ fd'[sysfd'[g]] # None
                 /\ \A h \in Fids \ {g} : sysfd'[h] # sysfd'[g]
      <4>1. g # f /\ sysfd'[g] = sysfd[g] /\ sysfd[g] \in Fds
        BY <2>4, <2>7, <3>1
      <4>2. fd[sysfd[g]] # None /\ \A h \in Fids \ {g} : sysfd[h] # sysfd[g]
        BY <3>1, <4>1 DEF FdsInv, FdsOwned
      <4>3. fd'[sysfd[g]] # None
        BY <2>1, <2>4, <4>1, <4>2
      <4> QED BY <2>7, <3>1, <4>1, <4>2, <4>3
    <3>2. ASSUME NEW t \in Slaves, slave'[t].at \in {"read", "stat"}
          PROVE  sysfd'[slave'[t].fid] # None
      <4>1. t # s /\ slave'[t] = slave[t] /\ slave[t] # Idle
        BY <2>2, <2>3, <3>2 DEF Idle
      <4>2. sysfd[slave[t].fid] # None
        BY <3>2, <4>1 DEF FdsInv, FdsOwned
      <4> QED BY <2>7, <2>8, <4>1, <4>2
    <3> QED BY <3>1, <3>2 DEF FdsOwned
  <2>10. Apart'
    <3>1. main # Idle => Quiet(main.fid)'
      BY <2>1, <2>2, <2>3 DEF FdsInv, Apart, Quiet
    <3>2. main # Idle => main.fid \in Fids \ {f}
      BY <2>1 DEF FdsInv, MainAt
    <3>3. /\ main.at = "walk" => (main.new => sysfd'[main.fid] = None)
          /\ main.at = "create" => sysfd'[main.fid] # None
      BY <2>7, <3>2 DEF FdsInv, Apart, Idle
    <3>4. \A g \in Fids : mode'[g] => sysfd'[g] # None
      BY <2>1, <2>7 DEF FdsInv, Apart
    <3>5. ASSUME NEW t \in Slaves, slave'[t].at \in {"path", "stat"}
          PROVE  /\ ~mode'[slave'[t].fid]
                 /\ slave'[t].at = "path" => sysfd'[slave'[t].fid] = None
                 /\ \A u \in Slaves \ {t} : slave'[u] # Idle => slave'[u].fid # slave'[t].fid
      <4>1. CASE t = s
        BY <2>1, <2>2, <2>3, <2>7, <2>8, <4>1
      <4>2. CASE t # s
        <5>1. slave'[t] = slave[t] /\ slave[t] # Idle
          BY <2>3, <3>5, <4>2 DEF Idle
        <5>2. /\ ~mode[slave[t].fid]
              /\ slave[t].at = "path" => sysfd[slave[t].fid] = None
              /\ \A u \in Slaves \ {t} : slave[u] # Idle => slave[u].fid # slave[t].fid
          BY <3>5, <5>1 DEF FdsInv, Apart
        <5> QED BY <2>1, <2>2, <2>3, <2>7, <2>8, <5>1, <5>2
      <4> QED BY <4>1, <4>2
    <3> QED BY <2>1, <3>1, <3>3, <3>4, <3>5 DEF Apart
  <2> QED BY <2>5, <2>6, <2>9, <2>10 DEF FdsInv
<1>9. ASSUME NEW f \in Fids, NEW s \in Slaves, Slaveread(s, f) PROVE FdsInv'
  <2> DEFINE v == [at |-> "read", fid |-> f, path |-> None]
  <2>1. /\ slave[s] = Idle /\ mode[f] /\ (main # Idle => main.fid # f)
        /\ \A t \in Slaves : slave[t].at \in {"path", "stat"} => slave[t].fid # f
        /\ slave' = [slave EXCEPT ![s] = v]
        /\ UNCHANGED <<fd, sysfd, mode, main>>
    BY <1>9 DEF Slaveread
  <2>2. /\ v.at = "read" /\ v.fid = f /\ v # Idle
        /\ v = [at |-> v.at, fid |-> v.fid, path |-> v.path]
    OBVIOUS
  <2> HIDE DEF v, FdsInv, FdTypes, MainAt, SlaveAt, FdsOwned, Apart, Idle, Quiet
  <2>3. slave'[s] = v /\ \A t \in Slaves \ {s} : slave'[t] = slave[t]
    BY <2>1 DEF FdsInv, SlaveAt
  <2>4. FdTypes' /\ MainAt'
    BY <2>1 DEF FdsInv, FdTypes, MainAt, Idle
  <2>5. SlaveAt'
    <3>1. DOMAIN slave' = Slaves /\ slave' = [t \in Slaves |-> slave'[t]]
      BY <2>1 DEF FdsInv, SlaveAt
    <3>2. \A t \in Slaves \ {s} :
            \/ slave[t] = Idle
            \/ /\ slave[t] = [at |-> slave[t].at, fid |-> slave[t].fid, path |-> slave[t].path]
               /\ slave[t].at \in {"path", "stat", "read"} /\ slave[t].fid \in Fids
      BY DEF FdsInv, SlaveAt
    <3>3. ASSUME NEW t \in Slaves
          PROVE  \/ slave'[t] = Idle
                 \/ /\ slave'[t] = [at |-> slave'[t].at, fid |-> slave'[t].fid, path |-> slave'[t].path]
                    /\ slave'[t].at \in {"path", "stat", "read"} /\ slave'[t].fid \in Fids
      <4>1. CASE t = s
        BY <2>2, <2>3, <4>1
      <4>2. CASE t # s
        <5>1. slave'[t] = slave[t]
          BY <2>3, <4>2
        <5> QED BY <3>2, <4>2, <5>1
      <4> QED BY <4>1, <4>2
    <3> QED BY <3>1, <3>3 DEF SlaveAt, Idle
  <2>6. sysfd[f] # None
    BY <2>1 DEF FdsInv, Apart
  <2>7. FdsOwned'
    BY <2>1, <2>2, <2>3, <2>6 DEF FdsInv, FdsOwned
  <2>8. Apart'
    <3>1. main # Idle => Quiet(main.fid)'
      BY <2>1, <2>2, <2>3 DEF FdsInv, Apart, Quiet
    <3>2. /\ main.at = "walk" => (main.new => sysfd[main.fid] = None)
          /\ main.at = "create" => sysfd[main.fid] # None
          /\ \A g \in Fids : mode[g] => sysfd[g] # None
      BY DEF FdsInv, Apart
    <3>3. ASSUME NEW t \in Slaves, slave'[t].at \in {"path", "stat"}
          PROVE  /\ ~mode[slave'[t].fid]
                 /\ slave'[t].at = "path" => sysfd[slave'[t].fid] = None
                 /\ \A u \in Slaves \ {t} : slave'[u] # Idle => slave'[u].fid # slave'[t].fid
      <4>1. t # s /\ slave'[t] = slave[t]
        BY <2>2, <2>3, <3>3
      <4>2. /\ ~mode[slave[t].fid]
            /\ slave[t].at = "path" => sysfd[slave[t].fid] = None
            /\ \A u \in Slaves \ {t} : slave[u] # Idle => slave[u].fid # slave[t].fid
        BY <3>3, <4>1 DEF FdsInv, Apart
      <4> QED BY <2>1, <2>2, <2>3, <3>3, <4>1, <4>2
    <3> QED BY <2>1, <3>1, <3>2, <3>3 DEF Apart
  <2> QED BY <2>4, <2>5, <2>7, <2>8 DEF FdsInv
<1>10. CASE WalkUp
  <2>1. /\ main.at = "walk" /\ UNCHANGED <<fd, sysfd, mode, slave>>
        /\ main' = [main EXCEPT !.left = Tail(@)] /\ main.left # <<>>
    BY <1>10 DEF WalkUp, Walking
  <2>2. /\ main = [at |-> "walk", fid |-> main.fid, new |-> main.new, left |-> main.left]
        /\ main.left \in Seq(Names \union {DotDot})
    BY <2>1 DEF MainAt
  <2>4. Tail(main.left) \in Seq(Names \union {DotDot})
    BY <2>1, <2>2
  <2>3. main' = [at |-> "walk", fid |-> main.fid, new |-> main.new,
                 left |-> Tail(main.left)]
    BY <2>1, <2>2
  <2> HIDE DEF FdsInv, FdTypes, MainAt, SlaveAt, FdsOwned, Apart, Idle, Quiet
  <2> QED BY <2>1, <2>3, <2>4, WalkOn
<1>11. CASE WalkEnd
  <2>1. /\ main' = Idle
        /\ UNCHANGED <<fd, slave>>
        /\ \/ UNCHANGED <<sysfd, mode>>
           \/ /\ main.new /\ main.fid \in Fids
              /\ sysfd' = [sysfd EXCEPT ![main.fid] = None]
              /\ mode' = [mode EXCEPT ![main.fid] = FALSE]
    BY <1>11 DEF WalkEnd, Freefid
  <2>2. UNCHANGED <<sysfd, mode>>
    <3>1. CASE main.new /\ main.fid \in Fids
      <4>1. sysfd[main.fid] = None
        BY <1>11, <3>1 DEF WalkEnd
      <4>2. mode[main.fid] = FALSE
        BY <3>1, <4>1
      <4>3. sysfd = [sysfd EXCEPT ![main.fid] = None]
        BY <3>1, <4>1
      <4>4. mode = [mode EXCEPT ![main.fid] = FALSE]
        BY <3>1, <4>2, Zenon
      <4> QED BY <2>1, <4>3, <4>4
    <3> QED BY <2>1, <3>1
  <2> QED BY <2>1, <2>2
<1>12. CASE CreateFile
  BY <1>12 DEF CreateFile, MoveDown
<1>13. CASE CreateFails
  BY <1>13 DEF CreateFails
<1>14. ASSUME NEW n \in Names, WalkDown(n) PROVE FdsInv'
  <2>1. /\ main.at = "walk" /\ UNCHANGED <<fd, sysfd, mode, slave>>
        /\ main' = [main EXCEPT !.left = Tail(@)] /\ main.left # <<>>
    BY <1>14 DEF WalkDown, Walking
  <2>2. /\ main = [at |-> "walk", fid |-> main.fid, new |-> main.new, left |-> main.left]
        /\ main.left \in Seq(Names \union {DotDot})
    BY <2>1 DEF MainAt
  <2>4. Tail(main.left) \in Seq(Names \union {DotDot})
    BY <2>1, <2>2
  <2>3. main' = [at |-> "walk", fid |-> main.fid, new |-> main.new,
                 left |-> Tail(main.left)]
    BY <2>1, <2>2
  <2> HIDE DEF FdsInv, FdTypes, MainAt, SlaveAt, FdsOwned, Apart, Idle, Quiet
  <2> QED BY <2>1, <2>3, <2>4, WalkOn
<1>15. ASSUME NEW s \in Slaves, OpenFile(s) PROVE FdsInv'
  <2>1. PICK d \in Fds, o \in Objs :
          /\ fd[d] = None
          /\ fd' = [fd EXCEPT ![d] = o]
          /\ sysfd' = [sysfd EXCEPT ![slave[s].fid] = d]
    BY <1>15 DEF OpenFile, Lowest
  <2>2. /\ slave[s].at = "path" /\ slave[s].fid \in Fids
        /\ slave[s] = [at |-> "path", fid |-> slave[s].fid, path |-> slave[s].path]
    BY <1>15 DEF OpenFile
  <2>3. /\ UNCHANGED <<main, mode>>
        /\ slave' = [slave EXCEPT ![s] =
                       [at |-> "stat", fid |-> slave[s].fid, path |-> slave[s].path]]
    <3>1. [slave[s] EXCEPT !.at = "stat"]
            = [at |-> "stat", fid |-> slave[s].fid, path |-> slave[s].path]
      BY <2>2
    <3> QED BY <1>15, <3>1 DEF OpenFile
  <2>4. FdTypes' /\ MainAt'
    BY <2>1, <2>2, <2>3
  <2>5. SlaveAt'
    BY <2>2, <2>3
  <2>6. FdsOwned'
    BY <2>1, <2>2, <2>3
  <2>7. Apart'
    <3> DEFINE g == slave[s].fid
    <3>1. slave[s] # Idle /\ (main # Idle => main.fid # g)
      BY <2>2
    <3>2. sysfd'[g] # None /\ \A h \in Fids \ {g} : sysfd'[h] = sysfd[h]
      BY <2>1, <2>2
    <3>3. /\ slave'[s].at = "stat" /\ slave'[s].fid = g
          /\ \A t \in Slaves \ {s} : slave'[t] = slave[t]
      BY <2>3
    <3>4. \A t \in Slaves : slave'[t] # Idle =>
            slave[t] # Idle /\ slave'[t].fid = slave[t].fid
      BY <3>1, <3>3
    <3>5. ~mode[g] /\ \A t \in Slaves \ {s} : slave[t] # Idle => slave[t].fid # g
      BY <2>2
    <3>6. main.at = "walk" \/ main.at = "create" => main.fid \in Fids /\ main # Idle
      OBVIOUS
    <3>7. ASSUME NEW t \in Slaves \ {s}, slave[t].at \in {"path", "stat"}
          PROVE  /\ slave[t] # Idle /\ slave[t].fid \in Fids \ {g} /\ ~mode[slave[t].fid]
                 /\ slave[t].at = "path" => sysfd[slave[t].fid] = None
                 /\ \A u \in Slaves \ {t} : slave[u] # Idle => slave[u].fid # slave[t].fid
      <4>1. slave[t] # Idle
        BY <3>7
      <4> QED BY <3>5, <3>7, <4>1
    <3>8. /\ main # Idle => Quiet(main.fid)
          /\ main.at = "walk" => (main.new => sysfd[main.fid] = None)
          /\ main.at = "create" => sysfd[main.fid] # None
          /\ \A h \in Fids : mode[h] => sysfd[h] # None
      OBVIOUS
    <3> HIDE DEF FdsInv, FdTypes, MainAt, SlaveAt, FdsOwned, Apart, Idle, g
    <3>9. ASSUME main # Idle PROVE Quiet(main.fid)'
      BY <2>3, <3>4, <3>8, <3>9
    <3>10. /\ main.at = "walk" => (main.new => sysfd'[main.fid] = None)
           /\ main.at = "create" => sysfd'[main.fid] # None
           /\ \A h \in Fids : mode[h] => sysfd'[h] # None
      BY <3>1, <3>2, <3>6, <3>8
    <3>11. ASSUME NEW t \in Slaves, slave'[t].at \in {"path", "stat"}
           PROVE  /\ ~mode[slave'[t].fid]
                  /\ slave'[t].at = "path" => sysfd'[slave'[t].fid] = None
                  /\ \A u \in Slaves \ {t} : slave'[u] # Idle => slave'[u].fid # slave'[t].fid
      <4>1. CASE t = s
        BY <3>3, <3>4, <3>5, <4>1
      <4>2. CASE t # s
        <5>1. slave'[t] = slave[t] /\ slave[t].at \in {"path", "stat"} /\ t \in Slaves \ {s}
          BY <3>3, <3>11, <4>2
        <5> QED BY <3>2, <3>4, <3>7, <5>1
      <4> QED BY <4>1, <4>2
    <3> QED BY <2>3, <3>9, <3>10, <3>11 DEF Apart
  <2> QED BY <2>4, <2>5, <2>6, <2>7
<1>16. ASSUME NEW s \in Slaves, OpenDone(s) PROVE FdsInv'
  <2>1. /\ slave[s].at = "stat" /\ slave' = [slave EXCEPT ![s] = Idle]
        /\ UNCHANGED <<fd, sysfd, main>>
        /\ mode' = [mode EXCEPT ![slave[s].fid] = TRUE]
    BY <1>16 DEF OpenDone
  <2> HIDE DEF FdsInv, FdTypes, MainAt, SlaveAt, FdsOwned, Apart, Idle, Quiet
  <2> QED BY <2>1, SlaveDone
<1>17. ASSUME NEW s \in Slaves, OpenFails(s) PROVE FdsInv'
  <2>1. slave' = [slave EXCEPT ![s] = Idle] /\ UNCHANGED <<fd, sysfd, mode, main>>
    BY <1>17 DEF OpenFails
  <2> HIDE DEF FdsInv, FdTypes, MainAt, SlaveAt, FdsOwned, Apart, Idle, Quiet
  <2> QED BY <2>1, SlaveDone
<1>18. ASSUME NEW s \in Slaves, ReadDone(s) PROVE FdsInv'
  <2>1. slave' = [slave EXCEPT ![s] = Idle] /\ UNCHANGED <<fd, sysfd, mode, main>>
    BY <1>18 DEF ReadDone
  <2> HIDE DEF FdsInv, FdTypes, MainAt, SlaveAt, FdsOwned, Apart, Idle, Quiet
  <2> QED BY <2>1, SlaveDone
<1>19. ASSUME NEW o \in Objs, HostRemove(o) PROVE FdsInv'
  BY <1>19 DEF HostRemove
<1>20. ASSUME NEW o \in Objs, NEW up \in Objs, NEW n \in Names, HostCreate(o, up, n)
       PROVE FdsInv'
  BY <1>20 DEF HostCreate
<1>21. CASE UNCHANGED vars
  BY <1>21 DEF vars
<1> QED
  BY <1>1, <1>2, <1>3, <1>4, <1>5, <1>6, <1>7, <1>8, <1>9, <1>10, <1>11, <1>12, <1>13,
     <1>14, <1>15, <1>16, <1>17, <1>18, <1>19, <1>20, <1>21 DEF Next

-----------------------------------------------------------------------------
\* No two Fids share a descriptor, and one that a Fid has, or that a slave
\* reads through it, is open.
THEOREM FilesFdsOwned == Spec => []FdsOwned
<1>1. FdsInv => FdsOwned
  BY DEF FdsInv
<1> QED
  BY <1>1, InitFdsInv, NextFdsInv, PTL DEF Spec

GivenUp ==
  \A f \in Fids :
    sysfd[f] # None /\ sysfd'[f] # sysfd[f] =>
      \/ fd'[sysfd[f]] = None
      \/ ~mode[f] /\ (CreateNot(f) \/ \E n \in Names : Xcreate(f, n))

\* The steps that take a descriptor from a Fid are those of Closed, of a create,
\* and of an open, before which the Fid has none.
LEMMA GivesUp == FdsInv /\ [Next]_vars => [GivenUp]_vars
<1> SUFFICES ASSUME FdsInv, Next, NEW g \in Fids, sysfd[g] # None, sysfd'[g] # sysfd[g]
             PROVE  \/ fd'[sysfd[g]] = None
                    \/ ~mode[g] /\ (CreateNot(g) \/ \E n \in Names : Xcreate(g, n))
  BY DEF GivenUp
<1> USE FilesAssumption DEF FdsInv, FdTypes, fidVars
<1> DEFINE Goal == \/ fd'[sysfd[g]] = None
                   \/ ~mode[g] /\ (CreateNot(g) \/ \E n \in Names : Xcreate(g, n))
<1>1. ASSUME NEW f \in Fids, Xclunk(f) \/ Xremove(f) PROVE Goal
  BY <1>1 DEF Xclunk, Xremove, Closed, Freefid
<1>2. ASSUME NEW f \in Fids, CreateNot(f) PROVE Goal
  <2>1. f = g /\ ~mode[f]
    BY <1>2 DEF CreateNot
  <2> QED BY <1>2, <2>1
<1>3. ASSUME NEW f \in Fids, NEW n \in Names, Xcreate(f, n) PROVE Goal
  <2>1. f = g /\ ~mode[f]
    BY <1>3 DEF Xcreate
  <2> QED BY <1>3, <2>1
<1>4. ASSUME NEW f \in Fids, NEW n \in Fids, NEW names \in Walks, Xwalk(f, n, names)
      PROVE Goal
  BY <1>4 DEF Xwalk, Closed
<1>5. ASSUME NEW f \in Fids, NEW s \in Slaves, Slaveopen(s, f) PROVE Goal
  BY <1>5 DEF Slaveopen, Closed
<1>6. CASE WalkEnd
  BY <1>6 DEF WalkEnd, Freefid, MainAt, Apart, Idle
<1>7. ASSUME NEW s \in Slaves, OpenFile(s) PROVE Goal
  BY <1>7 DEF OpenFile, SlaveAt, Apart
<1>8. ASSUME UNCHANGED sysfd PROVE Goal
  BY <1>8
<1>9. ASSUME NEW f \in Fids, Xattach(f) \/ \E n \in Names : Xwstat(f, n) PROVE Goal
  BY <1>8, <1>9 DEF Xattach, Xwstat
<1>10. ASSUME NEW f \in Fids, NEW s \in Slaves, Slaveread(s, f) PROVE Goal
  BY <1>8, <1>10 DEF Slaveread
<1>11. CASE WalkUp \/ CreateFile \/ CreateFails \/ \E n \in Names : WalkDown(n)
  BY <1>8, <1>11 DEF WalkUp, CreateFile, CreateFails, WalkDown
<1>12. ASSUME NEW s \in Slaves, OpenDone(s) \/ OpenFails(s) \/ ReadDone(s) PROVE Goal
  BY <1>8, <1>12 DEF OpenDone, OpenFails, ReadDone
<1>13. ASSUME NEW o \in Objs,
              HostRemove(o) \/ \E up \in Objs, n \in Names : HostCreate(o, up, n)
       PROVE Goal
  BY <1>8, <1>13 DEF HostRemove, HostCreate
<1> QED
  BY <1>1, <1>2, <1>3, <1>4, <1>5, <1>6, <1>7, <1>9, <1>10, <1>11, <1>12, <1>13 DEF Next

\* What a Fid gives up is closed, but for what a create overwrites.
THEOREM FilesFdsClosed == Spec => FdsClosed
<1>1. FdsInv /\ [Next]_vars => [GivenUp]_vars
  BY GivesUp
<1> QED
  BY <1>1, InitFdsInv, NextFdsInv, PTL DEF Spec, FdsClosed, GivenUp
-----------------------------------------------------------------------------
\* Sets of numbers, and lists of children.
LEMMA MinIsLeast ==
  ASSUME NEW S \in SUBSET Nat, S # {}
  PROVE  Min(S) \in S /\ \A e \in S : Min(S) <= e
<1>1. \E x \in S : \A y \in S : ~ (<<y, x>> \in OpToRel(<, Nat))
  BY NatLessThanWellFounded, WFMin
<1>2. OpToRel(<, Nat) = {ss \in Nat \X Nat : ss[1] < ss[2]}
  BY DEF OpToRel
<1>3. PICK x \in S : \A y \in S : <<y, x>> \notin {ss \in Nat \X Nat : ss[1] < ss[2]}
  BY <1>1, <1>2
<1>4. ASSUME NEW y \in S PROVE x <= y
  <2>1. <<y, x>> \in Nat \X Nat /\ <<y, x>>[1] = y /\ <<y, x>>[2] = x
    OBVIOUS
  <2>2. ~ (y < x)
    BY <1>3, <2>1
  <2> QED BY <2>1, <2>2
<1> QED BY <1>4 DEF Min

\* One is taken from a list that has each once.
LEMMA RemoveAtOf ==
  ASSUME NEW S, NEW s \in Seq(S), NEW i \in 1 .. Len(s), IsInjective(s)
  PROVE  /\ RemoveAt(s, i) \in Seq(S) /\ Len(RemoveAt(s, i)) = Len(s) - 1
         /\ Range(RemoveAt(s, i)) = Range(s) \ {s[i]}
         /\ IsInjective(RemoveAt(s, i))
<1> DEFINE a == SubSeq(s, 1, i - 1)
           b == SubSeq(s, i + 1, Len(s))
           t == RemoveAt(s, i)
           n == Len(s)
<1>1. n \in Nat /\ i \in 1 .. n /\ DOMAIN s = 1 .. n
  OBVIOUS
<1>2. /\ a \in Seq(S) /\ Len(a) = i - 1 /\ \A j \in 1 .. i - 1 : a[j] = s[j]
      /\ b \in Seq(S) /\ Len(b) = n - i /\ \A j \in 1 .. n - i : b[j] = s[j + i]
  OBVIOUS
<1>3. t = a \o b
  BY DEF RemoveAt
<1> HIDE DEF a, b, t
<1>4. t \in Seq(S) /\ Len(t) = n - 1 /\ DOMAIN t = 1 .. n - 1
  <2>1. t \in Seq(S) /\ Len(t) = Len(a) + Len(b)
    <3>1. a \in Seq(S) /\ b \in Seq(S)
      BY <1>2
    <3> QED BY <1>3, <3>1
  <2>2. Len(a) + Len(b) = n - 1
    BY <1>1, <1>2
  <2> QED BY <2>1, <2>2
<1>5. \A j \in 1 .. n - 1 : t[j] = IF j < i THEN s[j] ELSE s[j + 1]
  <2> TAKE j \in 1 .. n - 1
  <2>1. CASE j < i
    <3>1. j \in 1 .. Len(a)
      BY <1>1, <1>2, <2>1
    <3> QED BY <1>2, <1>3, <2>1, <3>1
  <2>2. CASE ~(j < i)
    <3>1. j - Len(a) \in 1 .. n - i /\ j \in Nat /\ j > Len(a) /\ j <= Len(a) + Len(b)
      BY <1>1, <1>2, <2>2
    <3>2. t[j] = b[j - Len(a)]
      BY <1>2, <1>3, <3>1
    <3>3. b[j - Len(a)] = s[j - Len(a) + i] /\ j - Len(a) + i = j + 1
      BY <1>1, <1>2, <3>1
    <3> QED BY <2>2, <3>2, <3>3
  <2> QED BY <2>1, <2>2
<1> HIDE DEF n
<1>6. ASSUME NEW j \in 1 .. n - 1, NEW k \in 1 .. n - 1, t[j] = t[k] PROVE j = k
  <2> DEFINE at(m) == IF m < i THEN m ELSE m + 1
  <2>1. at(j) \in 1 .. n /\ at(k) \in 1 .. n /\ t[j] = s[at(j)] /\ t[k] = s[at(k)]
    BY <1>1, <1>5
  <2>2. at(j) = at(k)
    <3> HIDE DEF at
    <3> QED BY <1>1, <1>6, <2>1 DEF IsInjective
  <2> QED BY <1>1, <2>2
<1>7. ASSUME NEW x \in Range(t) PROVE x \in Range(s) \ {s[i]}
  <2>1. PICK j \in 1 .. n - 1 : x = t[j]
    BY <1>4 DEF Range
  <2>2. PICK k \in 1 .. n : x = s[k] /\ k # i
    BY <1>1, <1>5, <2>1
  <2> QED BY <1>1, <2>2 DEF Range, IsInjective
<1>8. ASSUME NEW x \in Range(s) \ {s[i]} PROVE x \in Range(t)
  <2>1. PICK k \in 1 .. n : x = s[k] /\ k # i
    BY <1>1 DEF Range
  <2>2. CASE k < i
    <3>1. k \in 1 .. n - 1 /\ t[k] = s[k]
      BY <1>1, <1>5, <2>2
    <3> QED BY <1>4, <2>1, <3>1 DEF Range
  <2>3. CASE ~(k < i)
    <3>1. k - 1 \in 1 .. n - 1 /\ t[k - 1] = s[k]
      <4>1. k - 1 \in 1 .. n - 1 /\ ~(k - 1 < i) /\ k - 1 + 1 = k
        BY <1>1, <2>1, <2>3
      <4> QED BY <1>5, <4>1
    <3> QED BY <1>4, <2>1, <3>1 DEF Range
  <2> QED BY <2>2, <2>3
<1>9. IsInjective(t)
  BY <1>4, <1>6 DEF IsInjective
<1>10. Range(t) = Range(s) \ {s[i]}
  BY <1>7, <1>8
<1> QED BY <1>4, <1>9, <1>10 DEF t, n

\* One that is not in it is put in front.
LEMMA ConsOf ==
  ASSUME NEW S, NEW s \in Seq(S), NEW x \in S, x \notin Range(s), IsInjective(s)
  PROVE  /\ <<x>> \o s \in Seq(S) /\ Len(<<x>> \o s) = Len(s) + 1
         /\ Range(<<x>> \o s) = Range(s) \union {x}
         /\ IsInjective(<<x>> \o s)
<1> DEFINE t == <<x>> \o s
           n == Len(s)
<1>1. n \in Nat /\ DOMAIN s = 1 .. n
  OBVIOUS
<1>2. /\ t \in Seq(S) /\ Len(t) = n + 1 /\ DOMAIN t = 1 .. n + 1
      /\ t[1] = x /\ \A j \in 1 .. n : t[j + 1] = s[j]
  OBVIOUS
<1> HIDE DEF t, n
<1>3. \A j \in 2 .. n + 1 : j - 1 \in 1 .. n /\ t[j] = s[j - 1]
  BY <1>1, <1>2
<1>4. \A j \in 2 .. n + 1 : t[j] \in Range(s)
  BY <1>1, <1>3 DEF Range
<1>5. ASSUME NEW j \in 1 .. n + 1, NEW k \in 1 .. n + 1, t[j] = t[k] PROVE j = k
  <2>1. CASE j = 1 /\ k = 1
    BY <2>1
  <2>2. CASE j # 1 /\ k # 1
    <3>1. /\ j - 1 \in 1 .. n /\ t[j] = s[j - 1]
          /\ k - 1 \in 1 .. n /\ t[k] = s[k - 1]
      BY <1>1, <1>3, <2>2
    <3>2. j - 1 = k - 1
      BY <1>1, <1>5, <3>1 DEF IsInjective
    <3> QED BY <1>1, <3>2
  <2>3. CASE j = 1 /\ k # 1
    BY <1>1, <1>2, <1>4, <1>5, <2>3
  <2>4. CASE j # 1 /\ k = 1
    BY <1>1, <1>2, <1>4, <1>5, <2>4
  <2> QED BY <2>1, <2>2, <2>3, <2>4
<1>6. ASSUME NEW y \in Range(t) PROVE y \in Range(s) \union {x}
  <2>1. PICK j \in 1 .. n + 1 : y = t[j]
    BY <1>2 DEF Range
  <2>2. j = 1 \/ j \in 2 .. n + 1
    BY <1>1
  <2> QED BY <1>2, <1>4, <2>1, <2>2
<1>7. ASSUME NEW y \in Range(s) PROVE y \in Range(t)
  <2>1. PICK j \in 1 .. n : y = s[j]
    BY <1>1 DEF Range
  <2>2. j + 1 \in DOMAIN t /\ t[j + 1] = y
    BY <1>1, <1>2, <2>1
  <2> QED BY <2>2 DEF Range
<1>8. x \in Range(t)
  BY <1>1, <1>2 DEF Range
<1>9. IsInjective(t)
  BY <1>2, <1>5 DEF IsInjective
<1>10. Range(t) = Range(s) \union {x}
  BY <1>6, <1>7, <1>8
<1> QED BY <1>2, <1>9, <1>10 DEF t, n

\* What the length of a list says of its members.
LEMMA KidsOfLength ==
  ASSUME NEW S, NEW s \in Seq(S)
  PROVE  /\ Len(s) \in Nat
         /\ Len(s) = 0 => Range(s) = {}
         /\ \A x \in Range(s) : Len(s) > 0
         /\ Len(s) = 1 => \A x, y \in Range(s) : x = y
         /\ \A x \in Range(s) : x \in S
<1>1. Len(s) \in Nat /\ DOMAIN s = 1 .. Len(s) /\ \A i \in 1 .. Len(s) : s[i] \in S
  OBVIOUS
<1>2. \A x \in Range(s) : \E i \in 1 .. Len(s) : x = s[i]
  BY <1>1 DEF Range
<1>3. Len(s) = 0 => Range(s) = {}
  BY <1>1, <1>2
<1>4. ASSUME Len(s) = 1, NEW x \in Range(s), NEW y \in Range(s) PROVE x = y
  BY <1>1, <1>2, <1>4
<1>5. \A x \in Range(s) : Len(s) > 0 /\ x \in S
  BY <1>1, <1>2
<1> QED BY <1>1, <1>3, <1>4, <1>5
-----------------------------------------------------------------------------
\* The fields of a File in use.
LEMMA FieldsOf ==
  ASSUME NEW fl \in [FileIds -> File \union {None}], NEW g \in LiveIn(fl)
  PROVE  /\ g \in FileIds /\ fl[g] \in File /\ fl[g] # None
         /\ fl[g].name \in Names \union {None} /\ fl[g].parent \in FileIds \union {None}
         /\ fl[g].kids \in Seq(FileIds) /\ fl[g].ref \in Nat
         /\ fl[g].key \in Keys /\ fl[g].qid \in Qids
BY DEF LiveIn, File

\* Visited is what its recursion says: the least set that has f and, with a File
\* that goes, its parent.
LEMMA VisitedIs ==
  ASSUME NEW fl, TreeOf(fl), NEW f \in LiveIn(fl)
  PROVE  Visited(fl, f) = IF fl[f].ref > 1 \/ f = RootFile THEN {f}
                          ELSE {f} \union Visited(fl, fl[f].parent)
<1> DEFINE L == LiveIn(fl)
           Stops(g) == fl[g].ref > 1 \/ g = RootFile
           Upward(S) == \A x \in S : ~Stops(x) => fl[x].parent \in S
           C(g) == {h \in L : \A S \in SUBSET L : g \in S /\ Upward(S) => h \in S}
           w == [g \in L |-> C(g)]
           v == CHOOSE x : x = [g \in L |-> IF Stops(g) THEN {g}
                                            ELSE {g} \union x[fl[g].parent]]
<1>1. \A g \in L : ~Stops(g) => fl[g].parent \in L
  BY DEF TreeOf
<1> HIDE DEF L, Stops
<1>2. \A g \in L : g \in C(g)
  OBVIOUS
<1>3. \A g \in L : Upward(C(g))
  BY <1>1
<1>4. ASSUME NEW g \in L, Stops(g) PROVE C(g) = {g}
  <2>1. Upward({g}) /\ {g} \in SUBSET L
    BY <1>4
  <2> QED BY <1>2, <2>1
<1>5. ASSUME NEW g \in L, ~Stops(g) PROVE C(g) = {g} \union C(fl[g].parent)
  <2> DEFINE p == fl[g].parent
             T == {g} \union C(p)
  <2>1. p \in L
    BY <1>1, <1>5
  <2>2. p \in C(p) /\ Upward(C(p)) /\ C(p) \in SUBSET L
    BY <1>2, <1>3, <2>1
  <2>3. Upward(T) /\ T \in SUBSET L /\ g \in T
    BY <2>2
  <2>4. C(g) \subseteq T
    BY <2>3
  <2>5. ASSUME NEW h \in C(p), NEW S \in SUBSET L, g \in S, Upward(S) PROVE h \in S
    <3>1. p \in S
      BY <1>5, <2>5
    <3> QED BY <2>5, <3>1
  <2>6. C(p) \subseteq C(g)
    BY <2>5
  <2> QED BY <1>2, <2>4, <2>6
<1> HIDE DEF C
<1>6. w = [g \in L |-> IF Stops(g) THEN {g} ELSE {g} \union w[fl[g].parent]]
  <2>1. \A g \in L : C(g) = IF Stops(g) THEN {g} ELSE {g} \union w[fl[g].parent]
    BY <1>1, <1>4, <1>5
  <2> QED BY <2>1
<1> HIDE DEF w
<1>7. v = [g \in L |-> IF Stops(g) THEN {g} ELSE {g} \union v[fl[g].parent]]
  BY <1>6
<1>8. \A g \in L : Visited(fl, g) = v[g]
  BY DEF Visited, L, Stops
<1> HIDE DEF v
<1>9. v[f] = IF Stops(f) THEN {f} ELSE {f} \union v[fl[f].parent]
  BY <1>7 DEF L
<1> QED BY <1>1, <1>8, <1>9 DEF L, Stops

-----------------------------------------------------------------------------
\* What freefile comes to from g: Files that go (D), one that keeps its place (k)
\* and is the parent of one of them.  Only g may have children besides those.
ChainOf(fl, g, k, D) ==
  /\ k \in LiveIn(fl) /\ fl[k].ref > 1
  /\ D \subseteq LiveIn(fl) \ {RootFile}
  /\ \A h \in D : fl[h].ref = 1 /\ fl[h].parent \in D \union {k}
  /\ D = {} => k = g
  /\ D # {} => g \in D
  /\ \A h \in D \ {g} : \E c \in D : fl[c].parent = h
  /\ D # {} => \E top \in D : fl[top].parent = k /\ \A h \in D : fl[h].parent = k => h = top
  /\ \A h \in LiveIn(fl) \ {RootFile} : fl[h].parent \in D => h \in D \/ fl[h].parent = g

Chained(fl, g) == \E k, D : Visited(fl, g) = D \union {k} /\ ChainOf(fl, g, k, D)

\* The parent of a File that is in use is above it, closer to root.
LEMMA ChainUp ==
  ASSUME NEW us, NEW fl, FilesOf(us, fl), NEW g \in LiveIn(fl),
         g # RootFile \/ fl[g].ref > 1,
         g # RootFile /\ (fl[g].parent # RootFile \/ fl[fl[g].parent].ref > 1)
           => Chained(fl, fl[g].parent)
  PROVE  Chained(fl, g)
<1> DEFINE p == fl[g].parent
           L == LiveIn(fl)
<1>1. fl[g].ref \in Nat /\ fl[g].ref > 0
  BY FieldsOf DEF FilesOf, RefsOf
<1>2. CASE fl[g].ref > 1
  <2>1. Visited(fl, g) = {} \union {g}
    BY <1>2, VisitedIs DEF FilesOf
  <2>2. ChainOf(fl, g, g, {})
    BY <1>2 DEF ChainOf
  <2> QED BY <2>1, <2>2 DEF Chained
<1>3. CASE ~(fl[g].ref > 1)
  <2>1. fl[g].ref = 1 /\ g # RootFile /\ p \in L
    BY <1>1, <1>3 DEF FilesOf, TreeOf
  <2>2. /\ fl[p].kids \in Seq(FileIds) /\ fl[p].ref \in Nat /\ us[p] \in Nat
        /\ p \in FileIds
    BY <2>1, FieldsOf DEF FilesOf
  <2>3. /\ Len(fl[p].kids) \in Nat /\ Len(fl[p].kids) > 0
        /\ Len(fl[p].kids) = 1 => \A x, y \in Range(fl[p].kids) : x = y
        /\ g \in Range(fl[p].kids)
    <3>1. g \in Range(fl[p].kids)
      BY <2>1 DEF FilesOf, KidsOf
    <3> QED BY <2>2, <3>1, KidsOfLength
  <2>4. fl[p].ref = us[p] + Len(fl[p].kids) + (IF p = RootFile THEN 1 ELSE 0)
    BY <2>1 DEF FilesOf, RefsOf
  <2>5. Chained(fl, p)
    BY <2>1, <2>2, <2>3, <2>4
  <2>6. PICK k, D : Visited(fl, p) = D \union {k} /\ ChainOf(fl, p, k, D)
    BY <2>5 DEF Chained
  <2> DEFINE E == D \union {g}
  <2>7. Visited(fl, g) = E \union {k}
    <3>1. Visited(fl, g) = {g} \union Visited(fl, p)
      BY <1>3, <2>1, VisitedIs DEF FilesOf
    <3> QED BY <2>6, <3>1
  <2>8. ASSUME NEW h \in L \ {RootFile}, fl[h].parent \in D, h \notin D PROVE h = g
    <3>1. fl[h].parent = p /\ p \in D
      BY <2>6, <2>8 DEF ChainOf
    <3>2. fl[p].ref = 1
      BY <2>6, <3>1 DEF ChainOf
    <3>3. Len(fl[p].kids) = 1
      <4> DEFINE own == IF p = RootFile THEN 1 ELSE 0
                 n == Len(fl[p].kids)
                 m == us[p]
      <4>1. m \in Nat /\ n \in Nat /\ n > 0 /\ own \in Nat
        BY <2>2, <2>3
      <4>2. 1 = m + n + own
        BY <2>4, <3>2
      <4> HIDE DEF own, n, m
      <4>3. n = 1
        BY <4>1, <4>2
      <4> QED BY <4>3 DEF n
    <3>4. h \in Range(fl[p].kids)
      BY <2>1, <2>8, <3>1 DEF FilesOf, KidsOf
    <3> QED BY <2>3, <3>3, <3>4
  <2>9. k \in L /\ fl[k].ref > 1 /\ fl[k].ref \in Nat /\ k # g
    <3>1. k \in L /\ fl[k].ref > 1
      BY <2>6 DEF ChainOf
    <3> QED BY <2>1, <3>1, FieldsOf DEF FilesOf
  <2>10. \E top \in E : fl[top].parent = k /\ \A h \in E : fl[h].parent = k => h = top
    <3>1. CASE D = {}
      <4>1. k = p
        BY <2>6, <3>1 DEF ChainOf
      <4> QED BY <3>1, <4>1
    <3>2. CASE D # {}
      <4>1. PICK top \in D : fl[top].parent = k /\ \A h \in D : fl[h].parent = k => h = top
        BY <2>6, <3>2 DEF ChainOf
      <4>2. p \in D /\ fl[p].ref = 1
        BY <2>6, <3>2 DEF ChainOf
      <4>3. p # k
        BY <2>9, <4>2
      <4> QED BY <4>1, <4>3
    <3> QED BY <3>1, <3>2
  <2>11. \A h \in E : fl[h].ref = 1 /\ fl[h].parent \in E \union {k}
    <3>1. p \in D \union {k}
      BY <2>6 DEF ChainOf
    <3>2. \A h \in D : fl[h].ref = 1 /\ fl[h].parent \in D \union {k}
      BY <2>6 DEF ChainOf
    <3> QED BY <2>1, <3>1, <3>2
  <2>12. E \subseteq L \ {RootFile}
    BY <2>1, <2>6 DEF ChainOf
  <2>13. \A h \in L \ {RootFile} : fl[h].parent \in E => h \in E \/ fl[h].parent = g
    BY <2>8
  <2>14. \A h \in E \ {g} : \E c \in E : fl[c].parent = h
    BY <2>6 DEF ChainOf
  <2>15. ChainOf(fl, g, k, E)
    BY <2>9, <2>10, <2>11, <2>12, <2>13, <2>14 DEF ChainOf
  <2> QED BY <2>7, <2>15 DEF Chained
<1> QED BY <1>2, <1>3

\* By the tree: a File that has none would have a highest one above it.
LEMMA AllChained ==
  ASSUME NEW us, NEW fl, FilesOf(us, fl), NEW g \in LiveIn(fl),
         g # RootFile \/ fl[g].ref > 1
  PROVE  Chained(fl, g)
<1> DEFINE Goes(h) == h # RootFile \/ fl[h].ref > 1
           T == {h \in LiveIn(fl) : Goes(h) /\ ~Chained(fl, h)}
<1>1. ASSUME T # {} PROVE FALSE
  <2>1. T \in SUBSET LiveIn(fl)
    OBVIOUS
  <2>2. PICK h \in T : h = RootFile \/ fl[h].parent \notin T
    BY <1>1, <2>1 DEF FilesOf, TreeOf
  <2>3. h \in LiveIn(fl) /\ Goes(h) /\ ~Chained(fl, h)
    OBVIOUS
  <2>4. h # RootFile => fl[h].parent \in LiveIn(fl)
    BY <2>3 DEF FilesOf, TreeOf
  <2>5. h # RootFile /\ Goes(fl[h].parent) => Chained(fl, fl[h].parent)
    BY <2>2, <2>4
  <2> QED BY <2>3, <2>5, ChainUp
<1> QED BY <1>1
-----------------------------------------------------------------------------
\* A set of Files in use from which some are taken, each without one that stays
\* below it, is still a tree.
LEMMA TreeLess ==
  ASSUME NEW fl, NEW fm, TreeOf(fl), LiveIn(fm) \subseteq LiveIn(fl), RootFile \in LiveIn(fm),
         \A g \in LiveIn(fm) : fm[g].parent = fl[g].parent,
         \A g \in LiveIn(fm) \ {RootFile} : fl[g].parent \in LiveIn(fm)
  PROVE  TreeOf(fm)
<1>1. ASSUME NEW S \in SUBSET LiveIn(fm), S # {}
      PROVE  \E g \in S : g = RootFile \/ fm[g].parent \notin S
  <2>1. S \in SUBSET LiveIn(fl)
    BY <1>1
  <2>2. PICK g \in S : g = RootFile \/ fl[g].parent \notin S
    BY <1>1, <2>1 DEF TreeOf
  <2> QED BY <2>2
<1> QED BY <1>1 DEF TreeOf

\* The reference of a user is dropped: the Files that go had no other user, and
\* the rest of the table counts its users without it.
LEMMA FreedOf ==
  ASSUME NEW us, NEW fl, FilesOf(us, fl), NEW f \in FileIds, us[f] > 0
  PROVE  /\ FilesOf([us EXCEPT ![f] = @ - 1], Freed(fl, f))
         /\ Dead(fl, f) \subseteq LiveIn(fl)
         /\ LiveIn(Freed(fl, f)) = LiveIn(fl) \ Dead(fl, f)
         /\ \A g \in LiveIn(Freed(fl, f)) :
              /\ Freed(fl, f)[g].key = fl[g].key /\ Freed(fl, f)[g].qid = fl[g].qid
              /\ Freed(fl, f)[g].name = fl[g].name /\ Freed(fl, f)[g].parent = fl[g].parent
<1> DEFINE L == LiveIn(fl)
           D == Dead(fl, f)
           fm == Freed(fl, f)
           ud == [us EXCEPT ![f] = @ - 1]
<1>1. f \in L /\ us[f] \in Nat /\ us \in [FileIds -> Nat]
  BY DEF FilesOf
<1>2. /\ fl[f].ref \in Nat /\ fl[f].kids \in Seq(FileIds) /\ Len(fl[f].kids) \in Nat
  <2>1. fl[f].ref \in Nat /\ fl[f].kids \in Seq(FileIds)
    BY <1>1, FieldsOf DEF FilesOf
  <2> QED BY <2>1
<1>3. fl[f].ref = us[f] + Len(fl[f].kids) + (IF f = RootFile THEN 1 ELSE 0)
  BY <1>1 DEF FilesOf, RefsOf
<1>4. /\ f # RootFile \/ fl[f].ref > 1
      /\ fl[f].ref = 1 => Len(fl[f].kids) = 0 /\ us[f] = 1
  <2> DEFINE r == fl[f].ref
             n == Len(fl[f].kids)
             m == us[f]
  <2>1. r \in Nat /\ n \in Nat /\ m \in Nat /\ m > 0
    BY <1>1, <1>2
  <2>2. CASE f = RootFile
    <3>1. r = m + n + 1
      BY <1>3, <2>2
    <3> HIDE DEF r, n, m
    <3>2. r > 1
      BY <2>1, <3>1
    <3>3. r # 1
      BY <2>1, <3>2
    <3> QED BY <3>2, <3>3 DEF r
  <2>3. CASE f # RootFile
    <3>1. r = m + n
      BY <1>2, <1>3, <2>1, <2>3
    <3> HIDE DEF r, n, m
    <3>2. r = 1 => n = 0 /\ m = 1
      BY <2>1, <3>1
    <3> QED BY <2>3, <3>2 DEF r, n, m
  <2> QED BY <2>2, <2>3
<1>5. PICK k, E : Visited(fl, f) = E \union {k} /\ ChainOf(fl, f, k, E)
  BY <1>1, <1>4, AllChained DEF Chained
<1>6. k \in L /\ fl[k].ref > 1 /\ fl[k].ref \in Nat
  <2>1. k \in L /\ fl[k].ref > 1
    BY <1>5 DEF ChainOf
  <2> QED BY <2>1, FieldsOf DEF FilesOf
<1>7. D = E /\ k \notin D
  <2>1. fl[k].ref # 1
    BY <1>6
  <2>2. \A h \in E : fl[h].ref = 1
    BY <1>5 DEF ChainOf
  <2> QED BY <1>5, <2>1, <2>2 DEF Dead
<1>8. /\ D \subseteq L \ {RootFile}
      /\ \A h \in D : fl[h].ref = 1 /\ fl[h].parent \in D \union {k}
      /\ D = {} => k = f
      /\ D # {} => f \in D
      /\ \A h \in D \ {f} : \E c \in D : fl[c].parent = h
      /\ D # {} => \E top \in D : fl[top].parent = k /\ \A h \in D : fl[h].parent = k => h = top
      /\ \A h \in L \ {RootFile} : fl[h].parent \in D => h \in D \/ fl[h].parent = f
  BY <1>5, <1>7 DEF ChainOf
<1>9. \A h \in L \ {RootFile} : fl[h].parent \in D => h \in D
  <2> SUFFICES ASSUME NEW h \in L \ {RootFile}, fl[h].parent \in D, h \notin D PROVE FALSE
    OBVIOUS
  <2>1. fl[h].parent = f /\ f \in D
    BY <1>8
  <2>2. Len(fl[f].kids) = 0
    BY <1>4, <1>8, <2>1
  <2>3. Range(fl[f].kids) = {}
    BY <1>2, <2>2, KidsOfLength
  <2>4. h \in Range(fl[f].kids)
    BY <1>1, <2>1 DEF FilesOf, KidsOf
  <2> QED BY <2>3, <2>4
<1>10. fm = [g \in FileIds |->
               IF g \in D THEN None
               ELSE IF g = k THEN [fl[g] EXCEPT !.ref = @ - 1, !.kids = Unlinked(@, D)]
               ELSE fl[g]]
  BY <1>5, <1>7 DEF Freed
<1> DEFINE kids == Unlinked(fl[k].kids, D)
<1>11. /\ fl[k].kids \in Seq(FileIds) /\ IsInjective(fl[k].kids) /\ Len(fl[k].kids) \in Nat
       /\ Range(fl[k].kids) = {c \in L : c # RootFile /\ fl[c].parent = k}
  <2>1. fl[k].kids \in Seq(FileIds)
    BY <1>6, FieldsOf DEF FilesOf
  <2>2. Len(fl[k].kids) \in Nat
    BY <2>1
  <2> QED BY <1>6, <2>1, <2>2 DEF FilesOf, KidsOf
<1>12. /\ kids \in Seq(FileIds) /\ IsInjective(kids)
       /\ Range(kids) = {c \in L \ D : c # RootFile /\ fl[c].parent = k}
       /\ Len(kids) = Len(fl[k].kids) - (IF D = {} THEN 0 ELSE 1)
  <2>1. CASE D = {}
    <3>1. kids = fl[k].kids
      BY <2>1 DEF Unlinked
    <3> HIDE DEF kids
    <3> QED BY <1>11, <2>1, <3>1
  <2>2. CASE D # {}
    <3>1. PICK top \in D : fl[top].parent = k /\ \A h \in D : fl[h].parent = k => h = top
      BY <1>8, <2>2
    <3>2. top \in Range(fl[k].kids)
      BY <1>8, <1>11, <3>1
    <3>3. DOMAIN fl[k].kids = 1 .. Len(fl[k].kids)
      BY <1>11
    <3>4. PICK j \in DOMAIN fl[k].kids : fl[k].kids[j] = top
      BY <3>2 DEF Range
    <3> DEFINE i == CHOOSE x \in DOMAIN fl[k].kids : fl[k].kids[x] \in D
    <3>5. i \in DOMAIN fl[k].kids /\ fl[k].kids[i] \in D
      BY <3>1, <3>4
    <3>6. kids = RemoveAt(fl[k].kids, i)
      BY <3>1, <3>4 DEF Unlinked
    <3> HIDE DEF i, kids
    <3>7. fl[k].kids[i] \in Range(fl[k].kids)
      BY <3>5 DEF Range
    <3>8. fl[k].kids[i] = top
      BY <1>11, <3>1, <3>5, <3>7
    <3>9. /\ kids \in Seq(FileIds) /\ IsInjective(kids) /\ Len(kids) = Len(fl[k].kids) - 1
          /\ Range(kids) = Range(fl[k].kids) \ {top}
      BY <1>11, <3>3, <3>5, <3>6, <3>8, RemoveAtOf
    <3>10. Range(kids) = {c \in L \ D : c # RootFile /\ fl[c].parent = k}
      BY <1>11, <3>1, <3>9
    <3> QED BY <2>2, <3>9, <3>10
  <2> QED BY <2>1, <2>2
<1> HIDE DEF kids, L, D, fm, ud
<1>13. fl[k] \in File /\ k \in FileIds /\ fl \in [FileIds -> File \union {None}]
  BY <1>6, FieldsOf DEF L, FilesOf
<1>14. /\ fm[k] \in File /\ fm[k].ref = fl[k].ref - 1 /\ fm[k].kids = kids
       /\ fm[k].key = fl[k].key /\ fm[k].qid = fl[k].qid
       /\ fm[k].name = fl[k].name /\ fm[k].parent = fl[k].parent
  <2>1. fm[k] = [fl[k] EXCEPT !.ref = @ - 1, !.kids = kids]
    BY <1>7, <1>10, <1>13 DEF kids
  <2>2. fl[k].ref - 1 \in Nat
    BY <1>6
  <2> QED BY <1>12, <1>13, <2>1, <2>2 DEF File
<1>15. /\ \A g \in D : g \in FileIds /\ fm[g] = None
       /\ \A g \in FileIds \ (D \union {k}) : fm[g] = fl[g]
  BY <1>8, <1>10 DEF L, LiveIn
<1>16. fm \in [FileIds -> File \union {None}]
  <2>1. \A g \in FileIds : fm[g] \in File \union {None}
    <3> TAKE g \in FileIds
    <3>1. g \in D \/ g = k \/ g \in FileIds \ (D \union {k})
      OBVIOUS
    <3> QED BY <1>13, <1>14, <1>15, <3>1
  <2> QED BY <1>10, <2>1
<1>17. LiveIn(fm) = L \ D
  <2>1. fm[k] # None
    BY <1>14, FilesAssumption
  <2> QED BY <1>6, <1>7, <1>13, <1>15, <2>1 DEF L, LiveIn
<1>18. \A g \in L \ D : g \in FileIds /\ (g = k \/ fm[g] = fl[g])
  BY <1>15 DEF L, LiveIn
<1>19. \A g \in L \ D : /\ fm[g].key = fl[g].key /\ fm[g].qid = fl[g].qid
                        /\ fm[g].name = fl[g].name /\ fm[g].parent = fl[g].parent
  BY <1>14, <1>18
<1>20. TreeOf(fl) /\ RootFile \in L /\ \A g \in L \ {RootFile} : fl[g].parent \in L
  BY DEF FilesOf, TreeOf, L
<1>21. TreeOf(fm)
  <2>1. RootFile \in L \ D
    BY <1>8, <1>20
  <2>2. \A g \in (L \ D) \ {RootFile} : fl[g].parent \in L \ D
    BY <1>9, <1>20
  <2> QED BY <1>17, <1>19, <1>20, <2>1, <2>2, TreeLess DEF L
<1>22. KidsOf(fm)
  <2> SUFFICES ASSUME NEW g \in L \ D
               PROVE  /\ Range(fm[g].kids) = {c \in L \ D : c # RootFile /\ fl[c].parent = g}
                      /\ IsInjective(fm[g].kids)
    BY <1>17, <1>19 DEF KidsOf
  <2>1. CASE g = k
    BY <1>12, <1>14, <2>1
  <2>2. CASE g # k
    <3>1. fm[g] = fl[g]
      BY <1>18, <2>2
    <3>2. /\ Range(fl[g].kids) = {c \in L : c # RootFile /\ fl[c].parent = g}
          /\ IsInjective(fl[g].kids)
      BY DEF FilesOf, KidsOf, L
    <3>3. \A c \in D : fl[c].parent # g
      BY <1>8, <2>2
    <3> QED BY <3>1, <3>2, <3>3
  <2> QED BY <2>1, <2>2
<1>23. ud \in [FileIds -> Nat] /\ ud[f] = us[f] - 1 /\ \A g \in FileIds : g # f => ud[g] = us[g]
  BY <1>1 DEF ud
<1>24. RefsOf(ud, fm)
  <2> SUFFICES ASSUME NEW g \in L \ D
               PROVE  /\ fm[g].ref = ud[g] + Len(fm[g].kids) + (IF g = RootFile THEN 1 ELSE 0)
                      /\ fm[g].ref > 0
    BY <1>17 DEF RefsOf
  <2>1. /\ fl[g].ref = us[g] + Len(fl[g].kids) + (IF g = RootFile THEN 1 ELSE 0)
        /\ fl[g].ref > 0
    BY DEF FilesOf, RefsOf, L
  <2>2. CASE g # k
    <3>1. fm[g] = fl[g] /\ g \in FileIds
      BY <1>18, <2>2
    <3>2. g # f
      BY <1>8, <2>2
    <3> QED BY <1>23, <2>1, <3>1, <3>2
  <2>3. CASE g = k
    <3> DEFINE own == IF k = RootFile THEN 1 ELSE 0
               r == fl[k].ref
               m == us[k]
               n == Len(fl[k].kids)
               nn == Len(kids)
               mm == ud[k]
    <3>1. r \in Nat /\ m \in Nat /\ n \in Nat /\ own \in Nat /\ r > 1 /\ r = m + n + own
      <4>1. r \in Nat /\ r > 1 /\ n \in Nat /\ own \in Nat
        BY <1>6, <1>11
      <4>2. m \in Nat
        BY <1>1, <1>13
      <4>3. r = m + n + own
        BY <2>1, <2>3
      <4> QED BY <4>1, <4>2, <4>3
    <3>2. (mm = m - 1 /\ nn = n) \/ (mm = m /\ nn = n - 1)
      <4>1. CASE D = {}
        <5>1. k = f
          BY <1>8, <4>1
        <5>2. mm = m - 1
          BY <1>23, <5>1
        <5>3. Len(fl[k].kids) \in Nat /\ Len(kids) = Len(fl[k].kids) - 0
          BY <1>11, <1>12, <4>1
        <5>4. nn = n
          BY <5>3
        <5> QED BY <5>2, <5>4
      <4>2. CASE D # {}
        <5>1. k # f
          BY <1>7, <1>8, <4>2
        <5> QED BY <1>12, <1>13, <1>23, <4>2, <5>1
      <4> QED BY <4>1, <4>2
    <3>3. fm[k].ref = r - 1 /\ fm[k].kids = kids
      BY <1>14
    <3> HIDE DEF own, r, m, n, nn, mm
    <3>4. r - 1 = mm + nn + own /\ r - 1 > 0
      BY <3>1, <3>2
    <3>5. fm[k].ref = mm + nn + own /\ fm[k].ref > 0
      BY <3>3, <3>4
    <3> QED BY <2>3, <3>3, <3>5 DEF mm, nn, own
  <2> QED BY <2>2, <2>3
<1>25. \A g \in FileIds : ud[g] > 0 => g \in LiveIn(fm)
  <2> SUFFICES ASSUME NEW g \in FileIds, ud[g] > 0 PROVE g \in L \ D
    BY <1>17
  <2>1. us[g] > 0 /\ us[g] \in Nat
    BY <1>1, <1>23
  <2>2. g \in L
    BY <2>1 DEF FilesOf, L
  <2>3. ASSUME g \in D PROVE FALSE
    <3>1. fl[g].ref = 1 /\ f \in D /\ g # RootFile
      BY <1>8, <2>3
    <3>2. fl[f].ref = 1
      BY <1>8, <3>1
    <3>3. CASE g = f
      <4>1. us[f] = 1
        BY <1>4, <3>2
      <4> QED BY <1>23, <2>3, <3>3, <4>1, <2>1
    <3>4. CASE g # f
      <4>1. fl[g].ref = us[g] + Len(fl[g].kids)
        <5>1. fl[g].ref = us[g] + Len(fl[g].kids) + 0
          BY <2>2, <3>1 DEF FilesOf, RefsOf, L
        <5>2. fl[g].kids \in Seq(FileIds)
          BY <2>2, FieldsOf DEF FilesOf, L
        <5>3. Len(fl[g].kids) \in Nat
          BY <5>2
        <5> QED BY <2>1, <5>1, <5>3
      <4>2. fl[g].kids \in Seq(FileIds) /\ Len(fl[g].kids) \in Nat
        <5>1. fl[g].kids \in Seq(FileIds)
          BY <2>2, FieldsOf DEF FilesOf, L
        <5> QED BY <5>1
      <4>3. Len(fl[g].kids) = 0
        BY <2>1, <3>1, <4>1, <4>2
      <4>4. Range(fl[g].kids) = {}
        BY <4>2, <4>3, KidsOfLength
      <4>5. \A c \in D : fl[c].parent # g
        BY <1>8, <2>2, <4>4 DEF FilesOf, KidsOf, L
      <4> QED BY <1>8, <2>3, <3>4, <4>5
    <3> QED BY <3>3, <3>4
  <2> QED BY <2>2, <2>3
<1>26. FilesOf(ud, fm)
  BY <1>16, <1>21, <1>22, <1>23, <1>24, <1>25 DEF FilesOf
<1> QED BY <1>8, <1>17, <1>19, <1>26 DEF L, D, fm, ud
-----------------------------------------------------------------------------
\* Neither the tree nor the lists of children depend on the other fields.
LEMMA SameTree ==
  ASSUME NEW fl, NEW fm, TreeOf(fl), KidsOf(fl), LiveIn(fm) = LiveIn(fl),
         \A g \in LiveIn(fl) : fm[g].parent = fl[g].parent /\ fm[g].kids = fl[g].kids
  PROVE  TreeOf(fm) /\ KidsOf(fm)
<1>1. TreeOf(fm)
  BY TreeLess DEF TreeOf
<1>2. KidsOf(fm)
  BY DEF KidsOf
<1> QED BY <1>1, <1>2

\* A File in use has one more user; its Qid may be another now.
LEMMA UserAdded ==
  ASSUME NEW us, NEW fl, FilesOf(us, fl), NEW a \in LiveIn(fl), NEW r \in File,
         r.ref = fl[a].ref + 1, r.parent = fl[a].parent, r.kids = fl[a].kids
  PROVE  /\ FilesOf([us EXCEPT ![a] = @ + 1], [fl EXCEPT ![a] = r])
         /\ LiveIn([fl EXCEPT ![a] = r]) = LiveIn(fl)
<1> DEFINE um == [us EXCEPT ![a] = @ + 1]
           fm == [fl EXCEPT ![a] = r]
<1>1. /\ fl \in [FileIds -> File \union {None}] /\ us \in [FileIds -> Nat]
      /\ a \in FileIds /\ fl[a].ref \in Nat /\ fl[a].kids \in Seq(FileIds) /\ us[a] \in Nat
  BY FieldsOf DEF FilesOf
<1>2. /\ fm \in [FileIds -> File \union {None}] /\ fm[a] = r
      /\ \A g \in FileIds \ {a} : fm[g] = fl[g]
  BY <1>1
<1> HIDE DEF fm
<1>3. LiveIn(fm) = LiveIn(fl)
  <2>1. r # None
    BY FilesAssumption
  <2> QED BY <1>1, <1>2, <2>1 DEF LiveIn
<1>4. \A g \in LiveIn(fl) : g \in FileIds
  BY DEF LiveIn
<1>5. TreeOf(fm) /\ KidsOf(fm)
  <2>1. \A g \in LiveIn(fl) : fm[g].parent = fl[g].parent /\ fm[g].kids = fl[g].kids
    BY <1>2, <1>4
  <2> QED BY <1>3, <2>1, SameTree DEF FilesOf
<1>6. /\ um \in [FileIds -> Nat] /\ um[a] = us[a] + 1
      /\ \A g \in FileIds \ {a} : um[g] = us[g]
  BY <1>1
<1> HIDE DEF um
<1>7. RefsOf(um, fm)
  <2> SUFFICES ASSUME NEW g \in LiveIn(fl)
               PROVE  /\ fm[g].ref = um[g] + Len(fm[g].kids) + (IF g = RootFile THEN 1 ELSE 0)
                      /\ fm[g].ref > 0
    BY <1>3 DEF RefsOf
  <2> DEFINE own == IF g = RootFile THEN 1 ELSE 0
             n == Len(fl[g].kids)
  <2>1. fl[g].ref = us[g] + n + own /\ fl[g].ref > 0
    BY DEF FilesOf, RefsOf
  <2>2. CASE g = a
    <3> DEFINE rf == fl[a].ref
               m == us[a]
    <3>1. rf \in Nat /\ m \in Nat /\ n \in Nat /\ own \in Nat
      BY <1>1, <2>2
    <3>2. rf = m + n + own
      BY <2>1, <2>2
    <3>3. fm[g].ref = rf + 1 /\ um[g] = m + 1 /\ Len(fm[g].kids) = n
      BY <1>2, <1>6, <2>2
    <3> HIDE DEF own, n, rf, m
    <3>4. rf + 1 = m + 1 + n + own /\ rf + 1 > 0
      BY <3>1, <3>2
    <3> QED BY <3>3, <3>4 DEF own
  <2>3. CASE g # a
    BY <1>2, <1>4, <1>6, <2>1, <2>3
  <2> QED BY <2>2, <2>3
<1>8. \A g \in FileIds : um[g] > 0 => g \in LiveIn(fm)
  <2> TAKE g \in FileIds
  <2>1. g = a \/ um[g] = us[g]
    BY <1>6
  <2> QED BY <1>3, <2>1 DEF FilesOf
<1>9. FilesOf(um, fm)
  BY <1>2, <1>5, <1>6, <1>7, <1>8 DEF FilesOf
<1> QED BY <1>3, <1>9 DEF um, fm

\* A new File r is put below f, which is e then, with one user.
Added(fl, f, g, e, r) == [fl EXCEPT ![f] = e, ![g] = r]

\* A new File, whose first user is the Fid that asked for it.
LEMMA FileAdded ==
  ASSUME NEW us, NEW fl, FilesOf(us, fl), NEW f \in LiveIn(fl),
         NEW g \in FileIds \ LiveIn(fl), NEW r \in File,
         r.ref = 1, r.parent = f, r.kids = <<>>,
         NEW e \in File, e.kids = <<g>> \o fl[f].kids, e.ref = fl[f].ref + 1,
         e.parent = fl[f].parent
  PROVE  FilesOf([us EXCEPT ![g] = @ + 1], Added(fl, f, g, e, r))
<1> DEFINE um == [us EXCEPT ![g] = @ + 1]
           L == LiveIn(fl)
           kids == <<g>> \o fl[f].kids
           fm == Added(fl, f, g, e, r)
<1>1. /\ fl \in [FileIds -> File \union {None}] /\ us \in [FileIds -> Nat]
      /\ f \in FileIds /\ fl[f] \in File /\ fl[f].ref \in Nat /\ fl[f].kids \in Seq(FileIds)
      /\ us[f] \in Nat /\ us[g] \in Nat /\ f # g
  BY FieldsOf DEF FilesOf
<1>2. /\ Range(fl[f].kids) = {c \in L : c # RootFile /\ fl[c].parent = f}
      /\ IsInjective(fl[f].kids) /\ Len(fl[f].kids) \in Nat
  BY <1>1 DEF FilesOf, KidsOf
<1>3. /\ kids \in Seq(FileIds) /\ Len(kids) = Len(fl[f].kids) + 1
      /\ Range(kids) = Range(fl[f].kids) \union {g} /\ IsInjective(kids)
  BY <1>1, <1>2, ConsOf
<1>4. g # RootFile
  BY DEF FilesOf, TreeOf
<1>5. fm = [fl EXCEPT ![f] = e, ![g] = r] /\ e.kids = kids
  BY DEF Added
<1> HIDE DEF kids, L, um, fm
<1>6. /\ fm[g] = r /\ \A h \in FileIds \ {f, g} : fm[h] = fl[h]
      /\ fm[f] = e
      /\ DOMAIN fm = FileIds /\ fm = [h \in FileIds |-> fm[h]]
  BY <1>1, <1>5
<1>7. /\ fm[f] \in File /\ fm[f].kids = kids /\ fm[f].ref = fl[f].ref + 1
      /\ fm[f].parent = fl[f].parent
  BY <1>5, <1>6
<1>8. fm \in [FileIds -> File \union {None}]
  <2>1. \A h \in FileIds : fm[h] \in File \union {None}
    <3> TAKE h \in FileIds
    <3>1. h = f \/ h = g \/ h \in FileIds \ {f, g}
      OBVIOUS
    <3> QED BY <1>1, <1>6, <1>7, <3>1
  <2> QED BY <1>6, <2>1
<1>9. LiveIn(fm) = L \union {g}
  <2>1. fm[f] # None /\ fm[g] # None
    BY <1>6, <1>7, FilesAssumption
  <2>2. f \in L
    BY DEF L
  <2> QED BY <1>1, <1>6, <2>1, <2>2 DEF L, LiveIn
<1>10. \A h \in L : /\ h \in FileIds \ {g} /\ (h = f \/ fm[h] = fl[h])
                    /\ fm[h].parent = fl[h].parent
  <2>1. \A h \in L : h \in FileIds \ {g}
    BY DEF L, LiveIn
  <2> QED BY <1>6, <1>7, <2>1
<1>11. /\ RootFile \in L /\ fl[RootFile].parent = None
       /\ \A h \in L \ {RootFile} : fl[h].parent \in L
       /\ \A S \in SUBSET L : S # {} => \E h \in S : h = RootFile \/ fl[h].parent \notin S
  BY DEF FilesOf, TreeOf, L
<1>12. TreeOf(fm)
  <2>1. \A h \in (L \union {g}) \ {RootFile} : fm[h].parent \in L \union {g}
    BY <1>6, <1>10, <1>11 DEF L
  <2>2. ASSUME NEW S \in SUBSET (L \union {g}), S # {}
        PROVE  \E h \in S : h = RootFile \/ fm[h].parent \notin S
    <3>1. CASE S \ {g} = {}
      <4>1. g \in S /\ f \notin S
        BY <1>1, <2>2, <3>1
      <4> QED BY <1>6, <4>1
    <3>2. CASE S \ {g} # {}
      <4>1. S \ {g} \in SUBSET L
        OBVIOUS
      <4>2. PICK h \in S \ {g} : h = RootFile \/ fl[h].parent \notin S \ {g}
        BY <1>11, <3>2, <4>1
      <4>3. h \in L /\ fm[h].parent = fl[h].parent
        BY <1>10, <4>1, <4>2
      <4>4. h # RootFile => fl[h].parent # g
        <5>1. g \notin L
          BY DEF L
        <5> QED BY <1>11, <4>3, <5>1
      <4> QED BY <4>2, <4>3, <4>4
    <3> QED BY <3>1, <3>2
  <2>3. fm[RootFile].parent = None
    BY <1>10, <1>11
  <2> QED BY <1>9, <1>11, <2>1, <2>2, <2>3 DEF TreeOf
<1>13. KidsOf(fm)
  <2> SUFFICES ASSUME NEW h \in L \union {g}
               PROVE  /\ Range(fm[h].kids)
                           = {c \in L \union {g} : c # RootFile /\ fm[c].parent = h}
                      /\ IsInjective(fm[h].kids)
    BY <1>9 DEF KidsOf
  <2>1. {c \in L \union {g} : c # RootFile /\ fm[c].parent = h}
          = {c \in L : c # RootFile /\ fl[c].parent = h} \union (IF h = f THEN {g} ELSE {})
    <3>1. g # RootFile /\ fm[g].parent = f /\ \A c \in L : fm[c].parent = fl[c].parent
      BY <1>4, <1>6, <1>10
    <3>2. \A c : c \in {x \in L \union {g} : x # RootFile /\ fm[x].parent = h}
                 <=> c \in {x \in L : x # RootFile /\ fl[x].parent = h}
                           \union (IF h = f THEN {g} ELSE {})
      BY <3>1
    <3> QED BY <3>2
  <2>2. CASE h = f
    BY <1>2, <1>3, <1>7, <2>1, <2>2
  <2>3. CASE h \in L \ {f}
    <3>1. fm[h].kids = fl[h].kids
      BY <1>10, <2>3
    <3>2. /\ Range(fl[h].kids) = {c \in L : c # RootFile /\ fl[c].parent = h}
          /\ IsInjective(fl[h].kids)
      BY <2>3 DEF FilesOf, KidsOf, L
    <3> QED BY <2>1, <2>3, <3>1, <3>2
  <2>4. CASE h = g
    <3>1. \A c \in L : c # RootFile => fl[c].parent # g
      <4>1. g \notin L
        BY DEF L
      <4> QED BY <1>11, <4>1
    <3>2. fm[h].kids = <<>>
      BY <1>6, <2>4
    <3>3. Range(<<>>) = {} /\ IsInjective(<<>>)
      BY DEF Range, IsInjective
    <3> QED BY <1>1, <2>1, <2>4, <3>1, <3>2, <3>3
  <2>5. f \in L
    BY DEF L
  <2> QED BY <2>2, <2>3, <2>4
<1>14. /\ um \in [FileIds -> Nat] /\ um[g] = us[g] + 1
       /\ \A h \in FileIds \ {g} : um[h] = us[h]
  BY <1>1 DEF um
<1>15. us[g] = 0
  BY <1>1 DEF FilesOf
<1>16. RefsOf(um, fm)
  <2> SUFFICES ASSUME NEW h \in L \union {g}
               PROVE  /\ fm[h].ref = um[h] + Len(fm[h].kids) + (IF h = RootFile THEN 1 ELSE 0)
                      /\ fm[h].ref > 0
    BY <1>9 DEF RefsOf
  <2>1. CASE h = g
    <3>1. fm[h].ref = 1 /\ um[h] = 1 /\ Len(fm[h].kids) = 0
      BY <1>6, <1>14, <1>15, <2>1
    <3> QED BY <1>4, <2>1, <3>1
  <2>2. CASE h \in L
    <3>1. /\ fl[h].ref = us[h] + Len(fl[h].kids) + (IF h = RootFile THEN 1 ELSE 0)
          /\ fl[h].ref > 0
      BY <2>2 DEF FilesOf, RefsOf, L
    <3>2. um[h] = us[h]
      BY <1>10, <1>14, <2>2
    <3>3. CASE h = f
      <4> DEFINE own == IF h = RootFile THEN 1 ELSE 0
                 rf == fl[f].ref
                 m == us[f]
                 n == Len(fl[f].kids)
      <4>1. rf \in Nat /\ m \in Nat /\ n \in Nat /\ own \in Nat
        BY <1>1, <1>2
      <4>2. rf = m + n + own
        BY <3>1, <3>3
      <4>3. fm[h].ref = rf + 1 /\ um[h] = m /\ Len(fm[h].kids) = n + 1
        BY <1>3, <1>7, <3>2, <3>3
      <4> HIDE DEF own, rf, m, n
      <4>4. rf + 1 = m + (n + 1) + own /\ rf + 1 > 0
        BY <4>1, <4>2
      <4> QED BY <4>3, <4>4 DEF own
    <3>4. CASE h # f
      <4>1. fm[h] = fl[h]
        BY <1>10, <2>2, <3>4
      <4> QED BY <3>1, <3>2, <4>1
    <3> QED BY <3>3, <3>4
  <2> QED BY <2>1, <2>2
<1>17. \A h \in FileIds : um[h] > 0 => h \in LiveIn(fm)
  <2> TAKE h \in FileIds
  <2>1. h = g \/ um[h] = us[h]
    BY <1>14
  <2>2. us[h] > 0 => h \in L
    BY DEF FilesOf, L
  <2> QED BY <1>9, <2>1, <2>2
<1>18. FilesOf(um, fm)
  BY <1>8, <1>12, <1>13, <1>14, <1>16, <1>17 DEF FilesOf
<1> QED BY <1>18 DEF um, fm
-----------------------------------------------------------------------------
LEMMA HoldersFinite ==
  ASSUME NEW fl, NEW k
  PROVE  /\ IsFiniteSet(LiveIn(fl)) /\ IsFiniteSet(Holders(fl, k))
         /\ Cardinality(Holders(fl, k)) \in Nat
<1>1. IsFiniteSet(LiveIn(fl))
  BY FilesAssumption, FS_Subset DEF LiveIn
<1>2. IsFiniteSet(Holders(fl, k))
  BY <1>1, FS_Subset DEF Holders
<1> QED BY <1>1, <1>2, FS_CardinalityType

\* The parts of an entry of qidtab.
LEMMA EntryOf ==
  ASSUME NEW tab \in [Keys -> Qidtab \union {None}], NEW k \in Keys, tab[k] # None
  PROVE  tab[k] \in Qidtab /\ tab[k].ref \in Nat /\ tab[k].uniq \in Qids
BY DEF Qidtab

\* freeqid, for the Files that go: an entry that another File has stays.
LEMMA QidsFreed ==
  ASSUME NEW fl \in [FileIds -> File \union {None}], NEW tab, QidsOf(fl, tab),
         NEW D \in SUBSET LiveIn(fl), NEW fm, LiveIn(fm) = LiveIn(fl) \ D,
         \A g \in LiveIn(fm) : fm[g].key = fl[g].key /\ fm[g].qid = fl[g].qid
  PROVE  QidsOf(fm, Unqidded(tab, fl, D))
<1> DEFINE n(k) == Cardinality({g \in D : fl[g].key = k})
           c(k) == Cardinality(Holders(fl, k))
           d(k) == Cardinality(Holders(fm, k))
           tm == Unqidded(tab, fl, D)
<1>1. tab \in [Keys -> Qidtab \union {None}] /\ DOMAIN tab = Keys
  BY DEF QidsOf
<1>2. tm = [k \in Keys |->
              IF tab[k] = None \/ n(k) = 0 THEN tab[k]
              ELSE IF tab[k].ref <= n(k) THEN None ELSE [tab[k] EXCEPT !.ref = @ - n(k)]]
  BY <1>1 DEF Unqidded
<1>3. \A k \in Keys : /\ n(k) \in Nat /\ c(k) \in Nat /\ d(k) \in Nat
                      /\ d(k) = c(k) - n(k)
  <2> TAKE k \in Keys
  <2> DEFINE S == Holders(fl, k)
             T == {g \in D : fl[g].key = k}
  <2>1. IsFiniteSet(S) /\ T \in SUBSET S
    BY HoldersFinite DEF Holders
  <2>2. IsFiniteSet(T)
    BY <2>1, FS_Subset
  <2>3. Holders(fm, k) = S \ T
    BY DEF Holders
  <2>4. S \intersect T = T
    BY <2>1
  <2>5. Cardinality(S \ T) = Cardinality(S) - Cardinality(S \intersect T)
    BY <2>1, FS_Difference
  <2>6. n(k) \in Nat
    BY <2>2, FS_CardinalityType
  <2>7. c(k) \in Nat /\ d(k) \in Nat
    BY HoldersFinite
  <2> HIDE DEF S, T
  <2>8. d(k) = c(k) - n(k)
    BY <2>3, <2>4, <2>5 DEF S, T
  <2> QED BY <2>6, <2>7, <2>8
<1> HIDE DEF n, c, d, tm
<1>4. \A k \in Keys : tm[k] # None =>
        /\ tab[k] # None
        /\ tm[k] \in Qidtab /\ tm[k].uniq = tab[k].uniq
        /\ tm[k].ref = tab[k].ref - n(k)
  <2> SUFFICES ASSUME NEW k \in Keys, tm[k] # None
               PROVE  /\ tab[k] # None
                      /\ tm[k] \in Qidtab /\ tm[k].uniq = tab[k].uniq
                      /\ tm[k].ref = tab[k].ref - n(k)
    OBVIOUS
  <2>1. tab[k] # None
    BY <1>2
  <2>2. tab[k] \in Qidtab /\ tab[k].ref \in Nat /\ tab[k].uniq \in Qids
    BY <1>1, <2>1, EntryOf
  <2>3. CASE n(k) = 0
    <3>1. tm[k] = tab[k]
      BY <1>2, <2>3
    <3> QED BY <2>1, <2>2, <2>3, <3>1
  <2>4. CASE n(k) # 0
    <3>1. tm[k] = [tab[k] EXCEPT !.ref = @ - n(k)] /\ ~(tab[k].ref <= n(k))
      BY <1>2, <2>1, <2>4
    <3>2. tab[k].ref - n(k) \in Nat
      BY <1>3, <2>2, <3>1
    <3> QED BY <2>1, <2>2, <3>1, <3>2 DEF Qidtab
  <2> QED BY <2>3, <2>4
<1>5. tm \in [Keys -> Qidtab \union {None}]
  <2>1. \A k \in Keys : tm[k] \in Qidtab \union {None}
    BY <1>4
  <2> QED BY <1>2, <2>1
<1>6. ASSUME NEW g \in LiveIn(fm)
      PROVE  LET k == fm[g].key
             IN /\ tm[k] # None /\ tm[k].ref >= Cardinality(Holders(fm, k))
                /\ fm[g].qid = tm[k].uniq \/ fm[g].qid[2] = 0
  <2> DEFINE k == fl[g].key
  <2>1. g \in LiveIn(fl) /\ fm[g].key = k /\ fm[g].qid = fl[g].qid
    BY <1>6
  <2>2. k \in Keys
    BY <2>1, FieldsOf
  <2>3. /\ tab[k] # None /\ tab[k].ref >= c(k)
        /\ fl[g].qid = tab[k].uniq \/ fl[g].qid[2] = 0
    BY <2>1 DEF QidsOf, c
  <2>4. tab[k] \in Qidtab /\ tab[k].ref \in Nat
    BY <1>1, <2>2, <2>3, EntryOf
  <2> HIDE DEF k
  <2>5. d(k) > 0
    <3>1. g \in Holders(fm, k)
      BY <2>1 DEF Holders
    <3>2. d(k) # 0
      BY <3>1, HoldersFinite, FS_EmptySet DEF d
    <3> QED BY <1>3, <2>2, <3>2
  <2>6. tab[k].ref > n(k) /\ tab[k].ref - n(k) >= d(k) /\ ~(tab[k].ref <= n(k))
    BY <1>3, <2>2, <2>3, <2>4, <2>5
  <2>7. tm[k] # None
    <3>1. CASE n(k) = 0
      BY <1>2, <2>2, <2>3, <3>1
    <3>2. CASE n(k) # 0
      <4>1. tm[k] = [tab[k] EXCEPT !.ref = @ - n(k)]
        BY <1>2, <2>2, <2>3, <2>6, <3>2
      <4>2. tab[k].ref - n(k) \in Nat
        BY <1>3, <2>2, <2>4, <2>6
      <4>3. tm[k] \in Qidtab
        BY <2>4, <4>1, <4>2 DEF Qidtab
      <4> QED BY <4>3, FilesAssumption
    <3> QED BY <3>1, <3>2
  <2> QED BY <1>4, <2>1, <2>2, <2>3, <2>6, <2>7 DEF d
<1>7. \A k, l \in Keys : k # l /\ tm[k] # None /\ tm[l] # None => tm[k].uniq # tm[l].uniq
  BY <1>4 DEF QidsOf
<1>8. QidsOf(fm, tm)
  BY <1>5, <1>6, <1>7 DEF QidsOf
<1> QED BY <1>8 DEF tm

\* The numbers that uniqueqid tries.
LEMMA TryIs ==
  ASSUME newqid \in Nat, NEW i \in 0 .. QidWrap - 1
  PROVE  Try(i) \in Nat
<1>1. QidWrap \in Nat /\ QidWrap > 1
  BY FilesAssumption
<1>2. CASE i = 0
  BY <1>2 DEF Try
<1>3. CASE i # 0
  <2> DEFINE m == QidWrap - 1
             x == newqid + i - 1
  <2>1. m \in Nat /\ m > 0 /\ x \in Nat
    BY <1>1, <1>3
  <2> HIDE DEF m, x
  <2>2. x % m \in Nat
    BY <2>1
  <2>3. Try(i) = (x % m) + 1
    BY <1>3 DEF Try, m, x
  <2> QED BY <2>2, <2>3
<1> QED BY <1>2, <1>3

\* uniqueqid: the entry it returns, and that it changes no other.
LEMMA UniquedIs ==
  ASSUME newqid \in Nat, qidtab \in [Keys -> Qidtab \union {None}], NEW k \in Keys,
         qidtab[k] = None => Unused(k) # {}
  PROVE  LET tm == Uniqued(k)
         IN /\ tm \in [Keys -> Qidtab \union {None}] /\ tm[k] \in Qidtab /\ tm[k].ref \in Nat
            /\ tm[k].uniq \in Qids
            /\ \A l \in Keys \ {k} : tm[l] = qidtab[l]
            /\ Newqid(k) \in Nat
            /\ qidtab[k] # None => tm[k].ref = qidtab[k].ref + 1 /\ tm[k].uniq = qidtab[k].uniq
            /\ qidtab[k] = None => tm[k].ref = 1 /\ ~qidexists(qidtab, tm[k].uniq)
<1> DEFINE tm == Uniqued(k)
<1>t. newqid \in Nat /\ qidtab \in [Keys -> Qidtab \union {None}]
  OBVIOUS
<1>1. CASE qidtab[k] # None
  <2>1. qidtab[k] \in Qidtab /\ qidtab[k].ref \in Nat /\ qidtab[k].uniq \in Qids
    BY <1>t, <1>1, EntryOf
  <2>2. tm = [qidtab EXCEPT ![k] = [qidtab[k] EXCEPT !.ref = @ + 1]]
    BY <1>t, <1>1 DEF Uniqued
  <2> DEFINE e == [qidtab[k] EXCEPT !.ref = @ + 1]
  <2>3. qidtab[k].ref + 1 \in Nat
    BY <2>1
  <2>4. e \in Qidtab /\ e.ref = qidtab[k].ref + 1 /\ e.uniq = qidtab[k].uniq
    BY <2>1, <2>3 DEF Qidtab
  <2> HIDE DEF e, tm
  <2>5. tm[k] = e /\ tm \in [Keys -> Qidtab \union {None}] /\ \A l \in Keys \ {k} : tm[l] = qidtab[l]
    BY <1>t, <2>2, <2>4 DEF e
  <2>6. Newqid(k) = newqid
    BY <1>1 DEF Newqid
  <2> QED BY <1>t, <1>1, <2>1, <2>3, <2>4, <2>5, <2>6 DEF tm
<1>2. CASE qidtab[k] = None
  <2>1. Unused(k) \in SUBSET Nat /\ Unused(k) # {} /\ Unused(k) \subseteq 0 .. QidWrap - 1
    BY <1>2, FilesAssumption DEF Unused
  <2>2. Tries(k) \in Unused(k)
    BY <2>1, MinIsLeast DEF Tries
  <2>3. Try(Tries(k)) \in Nat
    BY <1>t, <2>1, <2>2, TryIs
  <2> DEFINE u == <<k[2], Try(Tries(k))>>
             e == [ref |-> 1, uniq |-> u]
  <2>4. ~qidexists(qidtab, u)
    BY <2>2 DEF Unused
  <2>5. k[2] \in {Ino[o] : o \in Objs}
    BY DEF Keys, Key
  <2>6. u \in Qids
    BY <2>3, <2>5 DEF Qids
  <2>7. tm = [qidtab EXCEPT ![k] = e]
    BY <1>2 DEF Uniqued
  <2> HIDE DEF u, tm
  <2>8. e \in Qidtab /\ e.ref = 1 /\ e.uniq = u
    BY <2>6 DEF Qidtab
  <2> HIDE DEF e
  <2>9. tm[k] = e /\ tm \in [Keys -> Qidtab \union {None}] /\ \A l \in Keys \ {k} : tm[l] = qidtab[l]
    BY <1>t, <2>7, <2>8
  <2>10. Newqid(k) \in Nat
    BY <1>t, <2>3 DEF Newqid
  <2> QED BY <1>2, <2>4, <2>6, <2>8, <2>9, <2>10 DEF tm
<1> QED BY <1>1, <1>2

\* uniqueqid and the File that takes its entry, be it a new one or not.
LEMMA QidsTaken ==
  ASSUME file \in [FileIds -> File \union {None}], newqid \in Nat,
         QidsOf(file, qidtab), NEW k \in Keys,
         qidtab[k] = None => Unused(k) # {},
         NEW fm, NEW g \in FileIds, LiveIn(fm) = LiveIn(file) \union {g},
         fm[g].key = k, fm[g].qid = Uniqued(k)[k].uniq,
         \A h \in LiveIn(file) \ {g} : fm[h].key = file[h].key /\ fm[h].qid = file[h].qid
  PROVE  /\ QidsOf(fm, Uniqued(k)) /\ Newqid(k) \in Nat
<1> DEFINE tm == Uniqued(k)
<1>1. /\ file \in [FileIds -> File \union {None}] /\ newqid \in Nat
      /\ qidtab \in [Keys -> Qidtab \union {None}]
  BY DEF QidsOf
<1>2. /\ tm \in [Keys -> Qidtab \union {None}] /\ tm[k] \in Qidtab /\ tm[k].ref \in Nat
      /\ \A l \in Keys \ {k} : tm[l] = qidtab[l]
      /\ Newqid(k) \in Nat
      /\ qidtab[k] # None => tm[k].ref = qidtab[k].ref + 1 /\ tm[k].uniq = qidtab[k].uniq
      /\ qidtab[k] = None => tm[k].ref = 1 /\ ~qidexists(qidtab, tm[k].uniq)
  BY <1>1, UniquedIs
<1>3. \A h \in LiveIn(file) : file[h].key \in Keys
  BY <1>1, FieldsOf
<1>4. \A h \in LiveIn(file) :
        /\ qidtab[file[h].key] # None
        /\ qidtab[file[h].key].ref >= Cardinality(Holders(file, file[h].key))
        /\ file[h].qid = qidtab[file[h].key].uniq \/ file[h].qid[2] = 0
  BY DEF QidsOf
<1>5. fm[g].qid = tm[k].uniq
  OBVIOUS
<1> HIDE DEF tm
<1>6. /\ \A l : IsFiniteSet(Holders(file, l)) /\ Cardinality(Holders(file, l)) \in Nat
      /\ \A l : IsFiniteSet(Holders(fm, l)) /\ Cardinality(Holders(fm, l)) \in Nat
  BY HoldersFinite
<1>7. tm[k].ref >= Cardinality(Holders(fm, k))
  <2> DEFINE S == Holders(file, k)
  <2>1. Holders(fm, k) \subseteq S \union {g}
    BY DEF Holders
  <2>2. IsFiniteSet(S \union {g}) /\ Cardinality(S \union {g}) <= Cardinality(S) + 1
    <3>1. Cardinality(S) \in Nat
      BY <1>6
    <3>2. /\ IsFiniteSet(S \union {g})
          /\ Cardinality(S \union {g}) = Cardinality(S) \/ Cardinality(S \union {g}) = Cardinality(S) + 1
      BY <1>6, FS_AddElement
    <3> HIDE DEF S
    <3> QED BY <3>1, <3>2
  <2>3. Cardinality(Holders(fm, k)) <= Cardinality(S \union {g})
    BY <2>1, <2>2, FS_Subset
  <2>4. Cardinality(S \union {g}) \in Nat
    BY <2>2, FS_CardinalityType
  <2>5. Cardinality(Holders(fm, k)) <= Cardinality(S) + 1
    BY <1>6, <2>2, <2>3, <2>4
  <2>6. CASE S = {}
    <3>1. Cardinality(S) = 0
      BY <2>6, FS_EmptySet
    <3>2. tm[k].ref >= 1
      <4>1. CASE qidtab[k] = None
        BY <1>2, <4>1
      <4>2. CASE qidtab[k] # None
        <5>1. qidtab[k].ref \in Nat
          BY <1>1, <4>2, EntryOf
        <5> QED BY <1>2, <4>2, <5>1
      <4> QED BY <4>1, <4>2
    <3> DEFINE c == Cardinality(Holders(fm, k))
               r == tm[k].ref
    <3>3. c \in Nat /\ r \in Nat /\ c <= 0 + 1
      BY <1>2, <1>6, <2>5, <3>1
    <3> HIDE DEF c, r
    <3>4. r >= 1
      BY <3>2 DEF r
    <3>5. r >= c
      BY <3>3, <3>4
    <3> QED BY <3>5 DEF r, c
  <2>7. CASE S # {}
    <3>1. PICK h \in LiveIn(file) : file[h].key = k
      BY <2>7 DEF Holders
    <3>2. qidtab[k] # None /\ qidtab[k].ref >= Cardinality(S)
      BY <1>4, <3>1
    <3>3. qidtab[k].ref \in Nat
      BY <1>1, <3>2, EntryOf
    <3>4. tm[k].ref = qidtab[k].ref + 1
      BY <1>2, <3>2
    <3> HIDE DEF S
    <3>5. Cardinality(S) \in Nat /\ Cardinality(Holders(fm, k)) \in Nat
      BY <1>6 DEF S
    <3> QED BY <2>5, <3>2, <3>3, <3>4, <3>5
  <2> QED BY <2>6, <2>7
<1>8. ASSUME NEW h \in LiveIn(fm)
      PROVE  /\ tm[fm[h].key] # None
             /\ tm[fm[h].key].ref >= Cardinality(Holders(fm, fm[h].key))
             /\ fm[h].qid = tm[fm[h].key].uniq \/ fm[h].qid[2] = 0
  <2>1. tm[k] # None
    BY <1>2, FilesAssumption
  <2>2. CASE h = g
    BY <1>5, <1>7, <2>1, <2>2
  <2>3. CASE h # g
    <3> DEFINE l == file[h].key
    <3>1. h \in LiveIn(file) /\ fm[h].key = l /\ fm[h].qid = file[h].qid
      BY <1>8, <2>3
    <3>2. /\ l \in Keys /\ qidtab[l] # None /\ qidtab[l].ref >= Cardinality(Holders(file, l))
          /\ file[h].qid = qidtab[l].uniq \/ file[h].qid[2] = 0
      BY <1>3, <1>4, <3>1
    <3> HIDE DEF l
    <3>3. CASE l = k
      <4>1. tm[k].uniq = qidtab[k].uniq
        BY <1>2, <3>2, <3>3
      <4> QED BY <1>7, <2>1, <3>1, <3>2, <3>3, <4>1
    <3>4. CASE l # k
      <4>1. tm[l] = qidtab[l]
        BY <1>2, <3>2, <3>4
      <4>2. Holders(fm, l) \subseteq Holders(file, l)
        BY <3>4 DEF Holders
      <4>3. Cardinality(Holders(fm, l)) <= Cardinality(Holders(file, l))
        BY <1>6, <4>2, FS_Subset
      <4>4. qidtab[l].ref \in Nat
        BY <1>1, <3>2, EntryOf
      <4>5. tm[l].ref >= Cardinality(Holders(fm, l))
        BY <1>6, <3>2, <4>1, <4>3, <4>4
      <4> QED BY <3>1, <3>2, <4>1, <4>5
    <3> QED BY <3>3, <3>4
  <2> QED BY <2>2, <2>3
<1>9. ASSUME NEW m \in Keys, NEW l \in Keys, m # l, tm[m] # None, tm[l] # None
      PROVE  tm[m].uniq # tm[l].uniq
  <2>1. \A x, y \in Keys : x # y /\ qidtab[x] # None /\ qidtab[y] # None
                             => qidtab[x].uniq # qidtab[y].uniq
    BY DEF QidsOf
  <2>2. \A x \in Keys : qidtab[k] = None /\ qidtab[x] # None => qidtab[x].uniq # tm[k].uniq
    <3>1. DOMAIN qidtab = Keys
      BY <1>1
    <3> QED BY <1>2, <3>1 DEF qidexists
  <2>3. \A x \in Keys \ {k} : tm[x] = qidtab[x]
    BY <1>2
  <2>4. qidtab[k] # None => tm[k].uniq = qidtab[k].uniq
    BY <1>2
  <2>5. CASE m = k
    <3>1. tm[l] = qidtab[l] /\ l # k
      BY <1>9, <2>3, <2>5
    <3> QED BY <1>9, <2>1, <2>2, <2>4, <2>5, <3>1
  <2>6. CASE l = k
    <3>1. tm[m] = qidtab[m] /\ m # k
      BY <1>9, <2>3, <2>6
    <3> QED BY <1>9, <2>1, <2>2, <2>4, <2>6, <3>1
  <2>7. CASE m # k /\ l # k
    BY <1>9, <2>1, <2>3, <2>7
  <2> QED BY <2>5, <2>6, <2>7
<1>10. QidsOf(fm, tm)
  BY <1>2, <1>8, <1>9 DEF QidsOf
<1> QED BY <1>2, <1>10 DEF tm

-----------------------------------------------------------------------------
\* The Fids at each File.
LEMMA UsersAre ==
  ASSUME NEW o
  PROVE  /\ Users(o) \in [FileIds -> Nat]
         /\ \A f \in Fids : o[f] \in FileIds => Users(o)[o[f]] > 0
<1>1. \A g : IsFiniteSet({f \in Fids : o[f] = g}) /\ Cardinality({f \in Fids : o[f] = g}) \in Nat
  <2> TAKE g
  <2>1. IsFiniteSet({f \in Fids : o[f] = g})
    BY FilesAssumption, FS_Subset
  <2> QED BY <2>1, FS_CardinalityType
<1>2. Users(o) \in [FileIds -> Nat]
  BY <1>1 DEF Users
<1>3. ASSUME NEW f \in Fids, o[f] \in FileIds PROVE Users(o)[o[f]] > 0
  <2> DEFINE S == {e \in Fids : o[e] = o[f]}
  <2>1. f \in S /\ IsFiniteSet(S) /\ Cardinality(S) \in Nat
    BY <1>1
  <2>2. Cardinality(S) # 0
    BY <2>1, FS_EmptySet
  <2>3. Users(o)[o[f]] = Cardinality(S)
    BY <1>3 DEF Users
  <2> HIDE DEF S
  <2> QED BY <2>1, <2>2, <2>3
<1> QED BY <1>2, <1>3

\* A Fid gives up its File, or takes one.
LEMMA UserLeft ==
  ASSUME NEW o \in [Fids -> FileIds \union {None}], NEW f \in Fids, o[f] \in FileIds
  PROVE  Users([o EXCEPT ![f] = None]) = [Users(o) EXCEPT ![o[f]] = @ - 1]
<1> DEFINE p == [o EXCEPT ![f] = None]
<1>1. \A g \in FileIds : Cardinality({e \in Fids : p[e] = g})
        = IF g = o[f] THEN Cardinality({e \in Fids : o[e] = g}) - 1
                      ELSE Cardinality({e \in Fids : o[e] = g})
  <2> TAKE g \in FileIds
  <2> DEFINE S == {e \in Fids : o[e] = g}
  <2>1. IsFiniteSet(S)
    BY FilesAssumption, FS_Subset
  <2>2. {e \in Fids : p[e] = g} = S \ {f}
    BY FilesAssumption
  <2>3. f \in S <=> g = o[f]
    OBVIOUS
  <2>4. Cardinality(S \ {f}) = IF f \in S THEN Cardinality(S) - 1 ELSE Cardinality(S)
    BY <2>1, FS_RemoveElement
  <2> QED BY <2>2, <2>3, <2>4
<1> HIDE DEF p
<1>2. Users(p) = [g \in FileIds |-> IF g = o[f] THEN Users(o)[g] - 1 ELSE Users(o)[g]]
  BY <1>1 DEF Users
<1>3. Users(o) \in [FileIds -> Nat]
  BY UsersAre
<1>4. [Users(o) EXCEPT ![o[f]] = @ - 1]
        = [g \in FileIds |-> IF g = o[f] THEN Users(o)[g] - 1 ELSE Users(o)[g]]
  BY <1>3
<1> QED BY <1>2, <1>4 DEF p

OneMore(us, a) == [us EXCEPT ![a] = @ + 1]

LEMMA UserCame ==
  ASSUME NEW o \in [Fids -> FileIds \union {None}], NEW f \in Fids, o[f] = None,
         NEW p \in [Fids -> FileIds \union {None}], NEW a \in FileIds, p[f] = a,
         \A e \in Fids \ {f} : p[e] = o[e]
  PROVE  Users(p) = OneMore(Users(o), a)
<1>1. \A g \in FileIds : Cardinality({e \in Fids : p[e] = g})
        = IF g = a THEN Cardinality({e \in Fids : o[e] = g}) + 1
                   ELSE Cardinality({e \in Fids : o[e] = g})
  <2> TAKE g \in FileIds
  <2> DEFINE S == {e \in Fids : o[e] = g}
  <2>1. IsFiniteSet(S)
    BY FilesAssumption, FS_Subset
  <2>2. f \notin S
    BY FilesAssumption
  <2>3. CASE g = a
    <3>1. {e \in Fids : p[e] = g} = S \union {f}
      BY <2>3
    <3>2. Cardinality(S \union {f}) = Cardinality(S) + 1
      BY <2>1, <2>2, FS_AddElement
    <3> QED BY <2>3, <3>1, <3>2
  <2>4. CASE g # a
    <3>1. {e \in Fids : p[e] = g} = S
      BY <2>2, <2>4
    <3> QED BY <2>4, <3>1
  <2> QED BY <2>3, <2>4
<1>2. Users(p) = [g \in FileIds |-> IF g = a THEN Users(o)[g] + 1 ELSE Users(o)[g]]
  BY <1>1 DEF Users
<1>3. Users(o) \in [FileIds -> Nat]
  BY UsersAre
<1>4. [Users(o) EXCEPT ![a] = @ + 1]
        = [g \in FileIds |-> IF g = a THEN Users(o)[g] + 1 ELSE Users(o)[g]]
  BY <1>3
<1> QED BY <1>2, <1>4 DEF OneMore

\* A Fid moves: it comes to a before it leaves.
LEMMA UserMoved ==
  ASSUME NEW o \in [Fids -> FileIds \union {None}], NEW f \in Fids, o[f] \in FileIds,
         NEW a \in FileIds, a # o[f]
  PROVE  Users([o EXCEPT ![f] = a]) = [[Users(o) EXCEPT ![a] = @ + 1] EXCEPT ![o[f]] = @ - 1]
<1> DEFINE p == [o EXCEPT ![f] = None]
<1>1. p \in [Fids -> FileIds \union {None}] /\ p[f] = None /\ [o EXCEPT ![f] = a] = [p EXCEPT ![f] = a]
  OBVIOUS
<1>2. Users(p) = [Users(o) EXCEPT ![o[f]] = @ - 1]
  BY UserLeft
<1> HIDE DEF p
<1>3. Users([p EXCEPT ![f] = a]) = [Users(p) EXCEPT ![a] = @ + 1]
  <2> DEFINE q == [p EXCEPT ![f] = a]
  <2>1. p \in [Fids -> FileIds \union {None}] /\ p[f] = None
    BY <1>1
  <2>2. q \in [Fids -> FileIds \union {None}] /\ q[f] = a /\ \A e \in Fids \ {f} : q[e] = p[e]
    BY <2>1
  <2> HIDE DEF q
  <2>3. Users(q) = OneMore(Users(p), a)
    BY <2>1, <2>2, UserCame
  <2> QED BY <2>3 DEF OneMore, q
<1> DEFINE u == Users(o)
<1>4. u \in [FileIds -> Nat]
  BY UsersAre
<1> HIDE DEF u
<1>5. [[u EXCEPT ![o[f]] = @ - 1] EXCEPT ![a] = @ + 1]
        = [[u EXCEPT ![a] = @ + 1] EXCEPT ![o[f]] = @ - 1]
  <2> DEFINE w == [g \in FileIds |-> IF g = a THEN u[g] + 1
                                     ELSE IF g = o[f] THEN u[g] - 1 ELSE u[g]]
             x == [u EXCEPT ![o[f]] = @ - 1]
             y == [u EXCEPT ![a] = @ + 1]
  <2>1. x = [g \in FileIds |-> IF g = o[f] THEN u[g] - 1 ELSE u[g]]
    BY <1>4
  <2>2. y = [g \in FileIds |-> IF g = a THEN u[g] + 1 ELSE u[g]]
    BY <1>4
  <2> HIDE DEF x, y
  <2>3. [x EXCEPT ![a] = @ + 1] = w
    BY <2>1
  <2>4. [y EXCEPT ![o[f]] = @ - 1] = w
    BY <2>2
  <2> QED BY <2>3, <2>4 DEF x, y
<1> QED BY <1>1, <1>2, <1>3, <1>5 DEF u
-----------------------------------------------------------------------------
\* A user leaves a File: freefile and freeqid.
LEMMA Leaves ==
  ASSUME NEW us, NEW fl, NEW tab, FilesOf(us, fl), QidsOf(fl, tab),
         NEW f \in FileIds, us[f] > 0
  PROVE  /\ FilesOf([us EXCEPT ![f] = @ - 1], Freed(fl, f))
         /\ QidsOf(Freed(fl, f), Unqidded(tab, fl, Dead(fl, f)))
<1>1. fl \in [FileIds -> File \union {None}]
  BY DEF FilesOf
<1>2. /\ FilesOf([us EXCEPT ![f] = @ - 1], Freed(fl, f))
      /\ Dead(fl, f) \in SUBSET LiveIn(fl)
      /\ LiveIn(Freed(fl, f)) = LiveIn(fl) \ Dead(fl, f)
      /\ \A g \in LiveIn(Freed(fl, f)) : Freed(fl, f)[g].key = fl[g].key /\ Freed(fl, f)[g].qid = fl[g].qid
  BY FreedOf
<1> DEFINE D == Dead(fl, f)
           fm == Freed(fl, f)
<1> HIDE DEF D, fm
<1>3. /\ D \in SUBSET LiveIn(fl) /\ LiveIn(fm) = LiveIn(fl) \ D
      /\ \A g \in LiveIn(fm) : fm[g].key = fl[g].key /\ fm[g].qid = fl[g].qid
  BY <1>2 DEF D, fm
<1>4. QidsOf(fm, Unqidded(tab, fl, D))
  BY <1>1, <1>3, QidsFreed
<1> QED BY <1>2, <1>4 DEF D, fm

\* freeqid is not called when no File goes.
LEMMA NoneLeaves ==
  ASSUME NEW fl, NEW tab, QidsOf(fl, tab)
  PROVE  Unqidded(tab, fl, {}) = tab
<1>1. tab \in [Keys -> Qidtab \union {None}]
  BY DEF QidsOf
<1>2. \A k : Cardinality({g \in {} : fl[g].key = k}) = 0
  <2> TAKE k
  <2>1. {g \in {} : fl[g].key = k} = {}
    OBVIOUS
  <2> QED BY <2>1, FS_EmptySet
<1>3. Unqidded(tab, fl, {}) = [k \in Keys |-> tab[k]]
  BY <1>1, <1>2 DEF Unqidded
<1> QED BY <1>1, <1>3

\* Files that are in both tables have the same place in the tree.
Carried(fl, fm) ==
  \A g \in LiveIn(fl) \intersect LiveIn(fm) :
    fm[g].name = fl[g].name /\ fm[g].parent = fl[g].parent

\* A user comes to a File in use; qidtab has nothing to do with it.
LEMMA Comes ==
  ASSUME NEW us, NEW fl, FilesOf(us, fl), NEW a \in LiveIn(fl), NEW fm,
         fm = [fl EXCEPT ![a].ref = @ + 1]
  PROVE  /\ FilesOf([us EXCEPT ![a] = @ + 1], fm) /\ LiveIn(fm) = LiveIn(fl)
         /\ \A g \in LiveIn(fl) : fm[g].key = fl[g].key /\ fm[g].qid = fl[g].qid
         /\ Carried(fl, fm)
<1> DEFINE r == [fl[a] EXCEPT !.ref = @ + 1]
<1>1. fl \in [FileIds -> File \union {None}] /\ fl[a] \in File /\ fl[a].ref \in Nat /\ a \in FileIds
  BY FieldsOf DEF FilesOf
<1>2. fl[a].ref + 1 \in Nat
  BY <1>1
<1>3. /\ r \in File /\ r.ref = fl[a].ref + 1 /\ r.parent = fl[a].parent /\ r.kids = fl[a].kids
      /\ r.key = fl[a].key /\ r.qid = fl[a].qid /\ r.name = fl[a].name
  BY <1>1, <1>2 DEF File
<1>4. fm = [fl EXCEPT ![a] = r]
  BY <1>1
<1> HIDE DEF r
<1>5. FilesOf([us EXCEPT ![a] = @ + 1], fm) /\ LiveIn(fm) = LiveIn(fl)
  <2>1. /\ FilesOf([us EXCEPT ![a] = @ + 1], [fl EXCEPT ![a] = r])
        /\ LiveIn([fl EXCEPT ![a] = r]) = LiveIn(fl)
    BY <1>3, UserAdded
  <2> QED BY <1>4, <2>1
<1>6. \A g \in LiveIn(fl) : /\ fm[g].key = fl[g].key /\ fm[g].qid = fl[g].qid
                            /\ fm[g].name = fl[g].name /\ fm[g].parent = fl[g].parent
  <2> TAKE g \in LiveIn(fl)
  <2>1. g \in FileIds
    BY DEF LiveIn
  <2>2. CASE g = a
    BY <1>1, <1>3, <1>4, <2>2
  <2>3. CASE g # a
    BY <1>1, <1>4, <2>1, <2>3
  <2> QED BY <2>2, <2>3
<1> QED BY <1>5, <1>6 DEF Carried

\* QidsOf looks at the keys and Qids only.
LEMMA SameQids ==
  ASSUME NEW fl, NEW fm, NEW tab, QidsOf(fl, tab), LiveIn(fm) = LiveIn(fl),
         \A g \in LiveIn(fl) : /\ fm[g].key = fl[g].key
                               /\ fm[g].qid = fl[g].qid \/ fm[g].qid[2] = 0
  PROVE  QidsOf(fm, tab)
<1>1. \A k : Holders(fm, k) = Holders(fl, k)
  BY DEF Holders
<1> QED BY <1>1 DEF QidsOf

-----------------------------------------------------------------------------
\* A File has that name and parent.
IsBelow(fl, g, f, n) == fl[g].name = n /\ fl[g].parent = f

\* file(): the File for a name below that of a Fid, found again or new.
LEMMA FileFound ==
  ASSUME FilesOf(Users(of), file), QidsOf(file, qidtab), newqid \in Nat,
         NEW f \in LiveIn(file), NEW n \in Names, NEW k \in Keys,
         qidtab[k] = None => Unused(k) # {},
         Namesakes(f, n) = {} => \E g \in FileIds : file[g] = None
  PROVE  /\ Named(f, n) \in FileIds \ {f}
         /\ FilesOf([Users(of) EXCEPT ![Named(f, n)] = @ + 1], Found(f, n, k))
         /\ QidsOf(Found(f, n, k), Uniqued(k))
         /\ Newqid(k) \in Nat
         /\ IsBelow(Found(f, n, k), Named(f, n), f, n)
         /\ Named(f, n) # RootFile /\ Carried(file, Found(f, n, k))
<1> DEFINE g == Named(f, n)
           fm == Found(f, n, k)
           us == Users(of)
           uniq == Uniqued(k)[k].uniq
<1>1. /\ file \in [FileIds -> File \union {None}] /\ qidtab \in [Keys -> Qidtab \union {None}]
      /\ TreeOf(file) /\ KidsOf(file)
  BY DEF FilesOf, QidsOf
<1>2. uniq \in Qids
  BY <1>1, UniquedIs
<1>3. /\ f \in FileIds /\ file[f] \in File /\ file[f].kids \in Seq(FileIds)
      /\ file[f].ref \in Nat
  BY <1>1, FieldsOf
<1>4. CASE Namesakes(f, n) # {}
  <2> DEFINE i == Min(Namesakes(f, n))
  <2>1. DOMAIN file[f].kids \subseteq Nat
    BY <1>3
  <2>2. Namesakes(f, n) \in SUBSET Nat
    BY <2>1 DEF Namesakes
  <2>3. i \in Namesakes(f, n)
    BY <1>4, <2>2, MinIsLeast
  <2>4. g = file[f].kids[i] /\ i \in DOMAIN file[f].kids /\ file[g].name = n
    BY <1>4, <2>3 DEF Named, Namesakes
  <2> HIDE DEF i
  <2>5. g \in Range(file[f].kids)
    BY <2>4 DEF Range
  <2> HIDE DEF g, uniq, fm
  <2>6. g \in LiveIn(file) /\ g # RootFile /\ file[g].parent = f
    BY <1>1, <2>5 DEF KidsOf
  <2>7. g # f
    <3>1. {f} \in SUBSET LiveIn(file)
      OBVIOUS
    <3>2. f = RootFile \/ file[f].parent \notin {f}
      BY <1>1, <3>1 DEF TreeOf
    <3> QED BY <2>6, <3>2
  <2>8. g \in FileIds /\ file[g] \in File /\ file[g].ref \in Nat /\ file[g] # None
    BY <1>1, <2>6, FieldsOf
  <2> DEFINE r == [file[g] EXCEPT !.ref = @ + 1, !.key = k, !.qid = uniq]
  <2>9. fm = [file EXCEPT ![g] = r]
    <3>1. fm = [file EXCEPT ![g].ref = @ + 1, ![g].key = k, ![g].qid = uniq]
      BY <2>8 DEF Found, fm, g, uniq
    <3> QED BY <1>1, <2>8, <3>1
  <2>10. file[g].ref + 1 \in Nat
    BY <2>8
  <2>11. /\ r \in File /\ r.ref = file[g].ref + 1 /\ r.parent = file[g].parent
         /\ r.kids = file[g].kids /\ r.key = k /\ r.qid = uniq /\ r.name = file[g].name
    BY <1>2, <2>8, <2>10 DEF File
  <2> HIDE DEF r
  <2>12. FilesOf([us EXCEPT ![g] = @ + 1], fm) /\ LiveIn(fm) = LiveIn(file)
    <3>1. /\ FilesOf([us EXCEPT ![g] = @ + 1], [file EXCEPT ![g] = r])
          /\ LiveIn([file EXCEPT ![g] = r]) = LiveIn(file)
      <4> HIDE DEF us
      <4>1. FilesOf(us, file)
        BY DEF us
      <4> QED BY <2>6, <2>11, <4>1, UserAdded
    <3> QED BY <2>9, <3>1
  <2>13. LiveIn(fm) = LiveIn(file) \union {g} /\ fm[g].key = k /\ fm[g].qid = uniq
    BY <1>1, <2>6, <2>8, <2>9, <2>11, <2>12
  <2>14. \A h \in LiveIn(file) \ {g} : fm[h].key = file[h].key /\ fm[h].qid = file[h].qid
    BY <1>1, <2>9 DEF LiveIn
  <2>15. QidsOf(fm, Uniqued(k)) /\ Newqid(k) \in Nat
    BY <1>1, <2>8, <2>13, <2>14, QidsTaken DEF uniq
  <2>16. fm[g].name = n /\ fm[g].parent = f
    BY <1>1, <2>4, <2>6, <2>8, <2>9, <2>11
  <2>17. Carried(file, fm)
    <3>1. \A h \in LiveIn(file) \ {g} : fm[h] = file[h]
      BY <1>1, <2>9 DEF LiveIn
    <3> QED BY <2>4, <2>6, <2>16, <3>1 DEF Carried
  <2> QED BY <2>6, <2>7, <2>8, <2>12, <2>15, <2>16, <2>17 DEF g, fm, IsBelow
<1>5. CASE Namesakes(f, n) = {}
  <2>1. g \in FileIds /\ file[g] = None
    BY <1>5 DEF Named, FreeFile
  <2>2. g \notin LiveIn(file) /\ g # f
    BY <2>1 DEF LiveIn
  <2> DEFINE r == [name |-> n, parent |-> f, kids |-> <<>>, ref |-> 1, key |-> k, qid |-> uniq]
  <2>3. fm = [file EXCEPT ![f].kids = <<g>> \o @, ![f].ref = @ + 1, ![g] = r]
    BY <2>1 DEF Found
  <2> HIDE DEF g, uniq, fm, us
  <2>4. /\ r \in File /\ r.ref = 1 /\ r.parent = f /\ r.kids = <<>>
        /\ r.key = k /\ r.qid = uniq /\ r.name = n
    BY <1>2, <1>3 DEF File
  <2> HIDE DEF r
  <2>5. /\ FilesOf([us EXCEPT ![g] = @ + 1], fm) /\ LiveIn(fm) = LiveIn(file) \union {g}
        /\ fm[g] = r
        /\ \A h \in LiveIn(file) : /\ fm[h].key = file[h].key /\ fm[h].qid = file[h].qid
                                   /\ fm[h].name = file[h].name /\ fm[h].parent = file[h].parent
    <3>1. fm = [file EXCEPT ![f] = [file[f] EXCEPT !.kids = <<g>> \o @, !.ref = @ + 1], ![g] = r]
      BY <1>1, <1>3, <2>3
    <3>2. FilesOf(us, file) /\ g \in FileIds \ LiveIn(file)
      BY <2>1, <2>2 DEF us
    <3> DEFINE e == [file[f] EXCEPT !.kids = <<g>> \o @, !.ref = @ + 1]
               fn == Added(file, f, g, e, r)
    <3>4. <<g>> \o file[f].kids \in Seq(FileIds) /\ file[f].ref + 1 \in Nat
      BY <1>3, <2>1
    <3>5. /\ e \in File /\ e.kids = <<g>> \o file[f].kids /\ e.ref = file[f].ref + 1
          /\ e.parent = file[f].parent /\ e.key = file[f].key /\ e.qid = file[f].qid
          /\ e.name = file[f].name
      BY <1>3, <3>4 DEF File
    <3>6. fm = fn
      BY <3>1 DEF Added
    <3> HIDE DEF e
    <3>7. FilesOf([us EXCEPT ![g] = @ + 1], fn)
      BY <2>4, <3>2, <3>5, FileAdded
    <3>8. fn[f] = e /\ fn[g] = r /\ \A h \in FileIds \ {f, g} : fn[h] = file[h]
      BY <1>1, <1>3, <2>1, <2>2 DEF Added
    <3>9. LiveIn(fn) = LiveIn(file) \union {g}
      <4>1. e # None /\ r # None
        BY <2>4, <3>5, FilesAssumption
      <4> HIDE DEF fn
      <4> QED BY <1>3, <2>1, <3>8, <4>1 DEF LiveIn
    <3> HIDE DEF fn
    <3>10. \A h \in LiveIn(file) :
             /\ fn[h].key = file[h].key /\ fn[h].qid = file[h].qid
             /\ fn[h].name = file[h].name /\ fn[h].parent = file[h].parent
      BY <2>2, <3>5, <3>8 DEF LiveIn
    <3> QED BY <3>6, <3>7, <3>8, <3>9, <3>10
  <2>6. QidsOf(fm, Uniqued(k)) /\ Newqid(k) \in Nat
    BY <1>1, <2>1, <2>4, <2>5, QidsTaken DEF uniq
  <2>7. g # RootFile
    BY <1>1, <2>2 DEF TreeOf
  <2>8. Carried(file, fm)
    BY <2>5 DEF Carried
  <2> QED BY <2>1, <2>2, <2>4, <2>5, <2>6, <2>7, <2>8 DEF g, fm, us, IsBelow
<1> QED BY <1>4, <1>5
-----------------------------------------------------------------------------
\* The Fids that are at a File.
LEMMA AtFile ==
  ASSUME TablesInv, NEW f \in Fids, of[f] # None
  PROVE  /\ of[f] \in FileIds /\ of[f] \in LiveIn(file) /\ file[of[f]] # None
         /\ Users(of)[of[f]] > 0
<1>1. of[f] \in FileIds
  BY DEF TablesInv, FidsInUse
<1>2. Users(of)[of[f]] > 0
  BY <1>1, UsersAre
<1>3. of[f] \in LiveIn(file)
  BY <1>1, <1>2 DEF TablesInv, FilesOf
<1> QED BY <1>1, <1>2, <1>3 DEF LiveIn

\* The tables are what RefsTrue and QidsTrue ask of them.
LEMMA TablesRefs == TablesInv => RefsTrue /\ QidsTrue
<1> SUFFICES ASSUME TablesInv PROVE RefsTrue /\ QidsTrue
  OBVIOUS
<1>1. \A f \in Fids : of[f] # None => of[f] \in Live
  BY AtFile DEF Live
<1>2. \A s \in Slaves : slave[s] # Idle => of[slave[s].fid] # None
  BY DEF TablesInv, FidsInUse
<1>3. ASSUME NEW g \in Live
      PROVE  /\ file[g].ref = Cardinality(UsersOf(g)) + Len(file[g].kids)
                                + (IF g = RootFile THEN 1 ELSE 0)
             /\ file[g].ref > 0
             /\ Range(file[g].kids) = {c \in Live : c # RootFile /\ file[c].parent = g}
             /\ IsInjective(file[g].kids)
  <2>1. g \in LiveIn(file) /\ g \in FileIds
    BY DEF Live, LiveIn
  <2>2. Users(of)[g] = Cardinality(UsersOf(g))
    BY <2>1 DEF Users, UsersOf
  <2>3. /\ file[g].ref = Users(of)[g] + Len(file[g].kids) + (IF g = RootFile THEN 1 ELSE 0)
        /\ file[g].ref > 0
    BY <2>1 DEF TablesInv, FilesOf, RefsOf
  <2>4. /\ Range(file[g].kids) = {c \in LiveIn(file) : c # RootFile /\ file[c].parent = g}
        /\ IsInjective(file[g].kids)
    BY <2>1 DEF TablesInv, FilesOf, KidsOf
  <2> QED BY <2>2, <2>3, <2>4 DEF Live
<1>4. RefsTrue
  BY <1>1, <1>2, <1>3 DEF RefsTrue
<1>5. QidsTrue
  BY DEF TablesInv, QidsOf, QidsTrue, Holders, Live
<1> QED BY <1>4, <1>5

-----------------------------------------------------------------------------
\* The parts of it after a step.
LEMMA TablesAfter ==
  ASSUME of' \in [Fids -> FileIds \union {None}],
         FilesOf(Users(of'), file'), QidsOf(file', qidtab'), newqid' \in Nat,
         main' # Idle => of'[main'.fid] # None,
         \A s \in Slaves : slave'[s] # Idle => of'[slave'[s].fid] # None,
         \A f \in Fids : mode'[f] => of'[f] # None
  PROVE  TablesInv'
<1>1. FidsInUse'
  BY DEF FidsInUse, Idle
<1>2. FilesOf(Users(of), file)'
  BY DEF FilesOf, LiveIn, TreeOf, KidsOf, RefsOf, Users
<1>3. QidsOf(file, qidtab)'
  BY DEF QidsOf, Holders, LiveIn
<1> QED BY <1>1, <1>2, <1>3 DEF TablesInv

\* Steps that leave the tables alone, of a Fid at a File.
LEMMA TablesSame ==
  ASSUME TablesInv, UNCHANGED <<of, file, qidtab, newqid>>,
         main' # Idle => of[main'.fid] # None,
         \A s \in Slaves : slave'[s] # Idle => of[slave'[s].fid] # None,
         \A f \in Fids : mode'[f] => of[f] # None
  PROVE  TablesInv'
<1>1. of' = of /\ file' = file /\ qidtab' = qidtab /\ newqid' = newqid
  OBVIOUS
<1>2. /\ of \in [Fids -> FileIds \union {None}] /\ FilesOf(Users(of), file)
      /\ QidsOf(file, qidtab) /\ newqid \in Nat
  BY DEF TablesInv, FidsInUse
<1> QED BY <1>1, <1>2, TablesAfter

\* freefid, of a Fid that nobody works on any more.
LEMMA TablesFreefid ==
  ASSUME TablesInv, FdsInv, NEW f \in Fids, of[f] # None, Freefid(f), main' = Idle, Quiet(f),
         UNCHANGED <<slave, newqid>>
  PROVE  TablesInv'
<1>1. /\ of[f] \in FileIds /\ Users(of)[of[f]] > 0
  BY AtFile
<1>2. /\ of \in [Fids -> FileIds \union {None}] /\ FilesOf(Users(of), file)
      /\ QidsOf(file, qidtab) /\ newqid \in Nat
      /\ \A s \in Slaves : slave[s] # Idle => of[slave[s].fid] # None
      /\ \A g \in Fids : mode[g] => of[g] # None
  BY DEF TablesInv, FidsInUse
<1>3. /\ file' = Freed(file, of[f])
      /\ qidtab' = Unqidded(qidtab, file, Dead(file, of[f]))
      /\ of' = [of EXCEPT ![f] = None]
      /\ mode' = [mode EXCEPT ![f] = FALSE]
  BY DEF Freefid
<1>4. Users(of') = [Users(of) EXCEPT ![of[f]] = @ - 1]
  BY <1>1, <1>2, <1>3, UserLeft
<1>5. FilesOf(Users(of'), file') /\ QidsOf(file', qidtab')
  BY <1>1, <1>2, <1>3, <1>4, Leaves
<1>6. \A s \in Slaves : slave[s] # Idle => slave[s].fid \in Fids /\ slave[s].fid # f
  BY DEF FdsInv, SlaveAt, Quiet, Idle
<1>7. mode \in [Fids -> BOOLEAN]
  BY DEF FdsInv, FdTypes
<1>8. /\ of' \in [Fids -> FileIds \union {None}]
      /\ \A g \in Fids : g # f => of'[g] = of[g]
      /\ \A g \in Fids : mode'[g] => g # f /\ mode[g]
  BY <1>2, <1>3, <1>7
<1> HIDE DEF Freefid
<1> QED BY <1>2, <1>5, <1>6, <1>8, TablesAfter

\* file() and freefile(): a Fid moves to a name below it.
LEMMA TablesMoveDown ==
  ASSUME TablesInv, FdsInv, NEW f \in Fids, of[f] # None, NEW n \in Names,
         CanName(of[f], n), MoveDown(f, n), UNCHANGED slave,
         main' # Idle => main'.fid = f,
         \A g \in Fids : mode'[g] => g = f \/ mode[g]
  PROVE  TablesInv'
<1> DEFINE a == of[f]
           b == Named(a, n)
           o == ObjAt(Append(Path(file, a), n))
           k == Key(o)
           fl == Found(a, n, k)
           us == Users(of)
           um == [us EXCEPT ![b] = @ + 1]
<1>1. a \in FileIds /\ a \in LiveIn(file) /\ us[a] > 0
  BY AtFile
<1>2. /\ of \in [Fids -> FileIds \union {None}] /\ FilesOf(us, file)
      /\ QidsOf(file, qidtab) /\ newqid \in Nat
      /\ \A s \in Slaves : slave[s] # Idle => of[slave[s].fid] # None
      /\ \A g \in Fids : mode[g] => of[g] # None
  BY DEF TablesInv, FidsInUse
<1>3. /\ of' = [of EXCEPT ![f] = b]
      /\ file' = Freed(fl, a)
      /\ qidtab' = Unqidded(Uniqued(k), fl, Dead(fl, a))
      /\ newqid' = Newqid(k)
  BY DEF MoveDown
<1>4. /\ k \in Keys
      /\ qidtab[k] = None => Unused(k) # {}
      /\ Namesakes(a, n) = {} => \E g \in FileIds : file[g] = None
  BY DEF CanName, Keys
<1>5. us \in [FileIds -> Nat]
  BY UsersAre
<1> HIDE DEF a, o, k
<1>6. /\ b \in FileIds \ {a} /\ FilesOf(um, fl) /\ QidsOf(fl, Uniqued(k)) /\ Newqid(k) \in Nat
  BY <1>1, <1>2, <1>4, FileFound
<1> HIDE DEF b, fl
<1>7. um[a] > 0
  BY <1>1, <1>5, <1>6
<1>8. Users(of') = [um EXCEPT ![a] = @ - 1]
  BY <1>1, <1>2, <1>3, <1>6, UserMoved DEF a
<1> HIDE DEF um, us
<1>9. FilesOf(Users(of'), file') /\ QidsOf(file', qidtab')
  BY <1>1, <1>3, <1>6, <1>7, <1>8, Leaves
<1>10. \A s \in Slaves : slave[s] # Idle => slave[s].fid \in Fids
  BY DEF FdsInv, SlaveAt, Idle
<1>11. /\ of' \in [Fids -> FileIds \union {None}] /\ b # None /\ of'[f] = b
       /\ \A g \in Fids \ {f} : of'[g] = of[g]
  BY <1>2, <1>3, <1>6, FilesAssumption
<1>12. \A g \in Fids : of[g] # None => of'[g] # None
  BY <1>11
<1>13. main' # Idle => of'[main'.fid] # None
  BY <1>11
<1>14. \A s \in Slaves : slave'[s] # Idle => of'[slave'[s].fid] # None
  BY <1>2, <1>10, <1>12
<1>15. \A g \in Fids : mode'[g] => of'[g] # None
  BY <1>2, <1>11, <1>12
<1> HIDE DEF MoveDown, CanName
<1> QED BY <1>3, <1>6, <1>9, <1>11, <1>13, <1>14, <1>15, TablesAfter
-----------------------------------------------------------------------------
\* Root and its Qid are all there is at the start.
LEMMA InitTables == Init => TablesInv
<1> SUFFICES ASSUME Init PROVE TablesInv
  OBVIOUS
<1> DEFINE k == Key(Root)
           r == [name |-> None, parent |-> None, kids |-> <<>>, ref |-> 1,
                 key |-> k, qid |-> Raw(k)]
           us == Users(of)
<1>1. k \in Keys /\ k[2] \in {Ino[o] : o \in Objs}
  BY FilesAssumption DEF Keys, Key
<1>2. Raw(k) \in Qids
  BY <1>1 DEF Raw, Qids
<1> HIDE DEF k
<1>3. r \in File /\ r # None
  <2>1. r \in File
    BY <1>1, <1>2 DEF File
  <2> HIDE DEF r
  <2> QED BY <2>1, FilesAssumption
<1>4. file = [g \in FileIds |-> IF g = RootFile THEN r ELSE None]
  BY DEF Init, k
<1>5. RootFile \in FileIds /\ None \notin FileIds
  BY FilesAssumption
<1>6. r.parent = None /\ r.kids = <<>> /\ r.ref = 1 /\ r.key = k /\ r.qid = Raw(k)
  OBVIOUS
<1> HIDE DEF r
<1>7. file[RootFile] = r /\ LiveIn(file) = {RootFile}
  BY <1>3, <1>4, <1>5 DEF LiveIn
<1>8. us = [g \in FileIds |-> 0]
  <2>1. \A g \in FileIds : {f \in Fids : of[f] = g} = {}
    BY <1>5 DEF Init
  <2> QED BY <2>1, FS_EmptySet DEF Users
<1> HIDE DEF us
<1>9. FilesOf(us, file)
  <2>1. file \in [FileIds -> File \union {None}]
    BY <1>3, <1>4
  <2>2. TreeOf(file)
    BY <1>6, <1>7 DEF TreeOf
  <2>3. KidsOf(file)
    <3>1. Range(r.kids) = {} /\ IsInjective(r.kids)
      BY <1>6 DEF Range, IsInjective
    <3> QED BY <1>7, <3>1 DEF KidsOf
  <2>4. RefsOf(us, file)
    <3>1. Len(r.kids) = 0
      BY <1>6
    <3> QED BY <1>5, <1>6, <1>7, <1>8, <3>1 DEF RefsOf
  <2> QED BY <1>8, <2>1, <2>2, <2>3, <2>4 DEF FilesOf
<1>10. QidsOf(file, qidtab)
  <2> DEFINE e == [ref |-> 1, uniq |-> Raw(k)]
  <2>1. e \in Qidtab /\ e # None /\ e.ref = 1 /\ e.uniq = Raw(k)
    BY <1>2, FilesAssumption DEF Qidtab
  <2>2. qidtab = [l \in Keys |-> IF l = k THEN e ELSE None]
    BY DEF Init, k
  <2> HIDE DEF e
  <2>3. Cardinality(Holders(file, k)) = 1
    <3>1. Holders(file, k) = {RootFile}
      BY <1>6, <1>7 DEF Holders
    <3> QED BY <3>1, FS_Singleton
  <2>4. qidtab \in [Keys -> Qidtab \union {None}] /\ qidtab[k] = e
    BY <1>1, <2>1, <2>2
  <2>5. \A g \in LiveIn(file) :
          /\ qidtab[file[g].key] # None
          /\ qidtab[file[g].key].ref >= Cardinality(Holders(file, file[g].key))
          /\ file[g].qid = qidtab[file[g].key].uniq \/ file[g].qid[2] = 0
    BY <1>6, <1>7, <2>1, <2>3, <2>4
  <2>6. \A m, l \in Keys : m # l /\ qidtab[m] # None /\ qidtab[l] # None
                             => qidtab[m].uniq # qidtab[l].uniq
    BY <2>2
  <2> QED BY <2>4, <2>5, <2>6 DEF QidsOf
<1>11. FidsInUse
  BY DEF Init, FidsInUse
<1> QED BY <1>9, <1>10, <1>11 DEF TablesInv, Init, us

-----------------------------------------------------------------------------
\* Xattach: a Fid that was not in use comes to root.
LEMMA TablesXattach ==
  ASSUME TablesInv, FdsInv, NEW f \in Fids, Xattach(f)
  PROVE  TablesInv'
<1>1. /\ of \in [Fids -> FileIds \union {None}] /\ FilesOf(Users(of), file)
      /\ QidsOf(file, qidtab) /\ newqid \in Nat
      /\ \A s \in Slaves : slave[s] # Idle => of[slave[s].fid] # None
      /\ \A g \in Fids : mode[g] => of[g] # None
  BY DEF TablesInv, FidsInUse
<1>2. /\ of[f] = None /\ of' = [of EXCEPT ![f] = RootFile]
      /\ file' = [file EXCEPT ![RootFile].ref = @ + 1]
      /\ main = Idle /\ UNCHANGED <<mode, qidtab, newqid, main, slave>>
  BY DEF Xattach
<1>3. RootFile \in FileIds /\ RootFile \in LiveIn(file)
  BY <1>1, FilesAssumption DEF FilesOf, TreeOf
<1>4. Users(of') = [Users(of) EXCEPT ![RootFile] = @ + 1]
  <2>1. /\ of \in [Fids -> FileIds \union {None}] /\ of[f] = None /\ RootFile \in FileIds
        /\ of' \in [Fids -> FileIds \union {None}] /\ of'[f] = RootFile
        /\ \A e \in Fids \ {f} : of'[e] = of[e]
    BY <1>1, <1>2, <1>3
  <2>2. Users(of') = OneMore(Users(of), RootFile)
    BY <2>1, UserCame
  <2> QED BY <2>2 DEF OneMore
<1>5. /\ FilesOf(Users(of'), file') /\ LiveIn(file') = LiveIn(file)
      /\ \A g \in LiveIn(file) : file'[g].key = file[g].key /\ file'[g].qid = file[g].qid
  <2> DEFINE us == Users(of)
             um == [us EXCEPT ![RootFile] = @ + 1]
             fm == [file EXCEPT ![RootFile].ref = @ + 1]
  <2>1. FilesOf(us, file)
    BY <1>1
  <2> HIDE DEF us
  <2>2. /\ FilesOf(um, fm) /\ LiveIn(fm) = LiveIn(file)
        /\ \A g \in LiveIn(file) : fm[g].key = file[g].key /\ fm[g].qid = file[g].qid
    BY <1>3, <2>1, Comes
  <2>3. Users(of') = um /\ file' = fm
    BY <1>2, <1>4 DEF us
  <2> HIDE DEF um, fm
  <2> QED BY <2>2, <2>3
<1>6. QidsOf(file', qidtab')
  <2>1. qidtab' = qidtab
    BY <1>2
  <2> QED BY <1>1, <1>5, <2>1, SameQids
<1>7. \A s \in Slaves : slave[s] # Idle => slave[s].fid \in Fids
  BY DEF FdsInv, SlaveAt, Idle
<1>8. of' \in [Fids -> FileIds \union {None}] /\ \A g \in Fids : of[g] # None => of'[g] # None
  BY <1>1, <1>2, <1>3, FilesAssumption
<1> QED BY <1>1, <1>2, <1>5, <1>6, <1>7, <1>8, TablesAfter

\* Xwalk: clonefid, the Fid n gives up its File and comes to that of f.
LEMMA TablesXwalk ==
  ASSUME TablesInv, FdsInv, NEW f \in Fids, NEW n \in Fids, NEW names, Xwalk(f, n, names)
  PROVE  TablesInv'
<1>1. /\ of \in [Fids -> FileIds \union {None}] /\ FilesOf(Users(of), file)
      /\ QidsOf(file, qidtab) /\ newqid \in Nat
      /\ \A s \in Slaves : slave[s] # Idle => of[slave[s].fid] # None
      /\ \A g \in Fids : mode[g] => of[g] # None
  BY DEF TablesInv, FidsInUse
<1>2. /\ of[f] # None /\ Quiet(n) /\ main'.fid = n
      /\ UNCHANGED <<newqid, slave>>
  BY DEF Xwalk, Ready
<1>3. /\ of[f] \in FileIds /\ Users(of)[of[f]] > 0
  BY <1>2, AtFile
<1>4. CASE n = f
  <2>1. UNCHANGED <<of, file, qidtab, mode>>
    BY <1>4 DEF Xwalk, fidVars
  <2> QED BY <1>1, <1>2, <1>4, <2>1, TablesSame
<1>5. CASE n # f
  <2> DEFINE a == of[f]
             p == [of EXCEPT ![n] = None]
             fl == IF of[n] = None THEN file ELSE Freed(file, of[n])
             dead == IF of[n] = None THEN {} ELSE Dead(file, of[n])
  <2>1. /\ of' = [of EXCEPT ![n] = a] /\ mode' = [mode EXCEPT ![n] = FALSE]
        /\ file' = [fl EXCEPT ![a].ref = @ + 1]
        /\ qidtab' = Unqidded(qidtab, file, dead)
    BY <1>5 DEF Xwalk
  <2>2. /\ p \in [Fids -> FileIds \union {None}] /\ p[n] = None /\ p[f] = a
        /\ of' = [p EXCEPT ![n] = a]
    BY <1>1, <1>5, <2>1
  <2>3. FilesOf(Users(p), fl) /\ QidsOf(fl, qidtab')
    <3>1. CASE of[n] = None
      <4>1. p = of /\ fl = file /\ dead = {}
        BY <1>1, <3>1
      <4>2. qidtab' = qidtab
        BY <1>1, <2>1, <4>1, NoneLeaves
      <4> QED BY <1>1, <4>1, <4>2
    <3>2. CASE of[n] # None
      <4>1. of[n] \in FileIds /\ Users(of)[of[n]] > 0
        BY <3>2, AtFile
      <4>2. Users(p) = [Users(of) EXCEPT ![of[n]] = @ - 1]
        BY <1>1, <4>1, UserLeft
      <4>3. fl = Freed(file, of[n]) /\ qidtab' = Unqidded(qidtab, file, Dead(file, of[n]))
        BY <2>1, <3>2
      <4> HIDE DEF p, fl
      <4>4. /\ FilesOf([Users(of) EXCEPT ![of[n]] = @ - 1], Freed(file, of[n]))
            /\ QidsOf(Freed(file, of[n]), Unqidded(qidtab, file, Dead(file, of[n])))
        BY <1>1, <4>1, Leaves
      <4> QED BY <4>2, <4>3, <4>4
    <3> QED BY <3>1, <3>2
  <2> HIDE DEF p, fl, dead
  <2>4. a \in FileIds /\ a \in LiveIn(fl)
    <3>1. Users(p)[a] > 0
      BY <1>3, <2>2, UsersAre
    <3> QED BY <1>3, <2>3, <3>1 DEF FilesOf
  <2> HIDE DEF a
  <2>5. Users(of') = [Users(p) EXCEPT ![a] = @ + 1]
    <3>1. /\ p \in [Fids -> FileIds \union {None}] /\ p[n] = None /\ a \in FileIds
          /\ of' \in [Fids -> FileIds \union {None}] /\ of'[n] = a
          /\ \A e \in Fids \ {n} : of'[e] = p[e]
      BY <2>2, <2>4
    <3>2. Users(of') = OneMore(Users(p), a)
      BY <3>1, UserCame
    <3> QED BY <3>2 DEF OneMore
  <2>6. /\ FilesOf(Users(of'), file') /\ LiveIn(file') = LiveIn(fl)
        /\ \A g \in LiveIn(fl) : file'[g].key = fl[g].key /\ file'[g].qid = fl[g].qid
    <3> DEFINE us == Users(p)
               um == [us EXCEPT ![a] = @ + 1]
               fm == [fl EXCEPT ![a].ref = @ + 1]
    <3>1. FilesOf(us, fl)
      BY <2>3
    <3> HIDE DEF us
    <3>2. /\ FilesOf(um, fm) /\ LiveIn(fm) = LiveIn(fl)
          /\ \A g \in LiveIn(fl) : fm[g].key = fl[g].key /\ fm[g].qid = fl[g].qid
      BY <2>4, <3>1, Comes
    <3>3. Users(of') = um /\ file' = fm
      BY <2>1, <2>5 DEF us
    <3> HIDE DEF um, fm
    <3> QED BY <3>2, <3>3
  <2>7. QidsOf(file', qidtab')
    BY <2>3, <2>6, SameQids
  <2>8. \A s \in Slaves : slave[s] # Idle => slave[s].fid \in Fids
    BY DEF FdsInv, SlaveAt, Idle
  <2>9. mode \in [Fids -> BOOLEAN]
    BY DEF FdsInv, FdTypes
  <2>10. /\ of' \in [Fids -> FileIds \union {None}] /\ of'[n] # None
         /\ \A g \in Fids : of[g] # None => of'[g] # None
         /\ \A g \in Fids : mode'[g] => mode[g]
    BY <1>1, <2>1, <2>4, <2>9, FilesAssumption
  <2> QED BY <1>1, <1>2, <2>6, <2>7, <2>8, <2>10, TablesAfter
<1> QED BY <1>4, <1>5

\* WalkUp: the Fid comes to the parent before it leaves.
LEMMA TablesWalkUp ==
  ASSUME TablesInv, FdsInv, WalkUp
  PROVE  TablesInv'
<1> DEFINE f == main.fid
           a == of[f]
           up == file[a].parent
           fl == [file EXCEPT ![up].ref = @ + 1]
           us == Users(of)
           um == [us EXCEPT ![up] = @ + 1]
<1>1. /\ of \in [Fids -> FileIds \union {None}] /\ FilesOf(us, file)
      /\ QidsOf(file, qidtab) /\ newqid \in Nat
      /\ \A s \in Slaves : slave[s] # Idle => of[slave[s].fid] # None
      /\ \A g \in Fids : mode[g] => of[g] # None
  BY DEF TablesInv, FidsInUse
<1>2. /\ up # None
      /\ of' = [of EXCEPT ![f] = up]
      /\ file' = Freed(fl, a)
      /\ qidtab' = Unqidded(qidtab, fl, Dead(fl, a))
      /\ UNCHANGED <<mode, newqid, slave>>
      /\ main.at = "walk"
      /\ main' = [main EXCEPT !.left = Tail(@)]
  BY DEF WalkUp, Walking
<1>3. /\ f \in Fids /\ main'.fid = f /\ main # Idle
  <2>w. main.at = "walk"
    BY DEF WalkUp, Walking
  <2>1. main.at = "walk" /\ main # Idle
    BY <2>w DEF Idle
  <2>2. /\ main = [at |-> "walk", fid |-> main.fid, new |-> main.new, left |-> main.left]
        /\ main.fid \in Fids
    <3>1. MainAt
      BY DEF FdsInv
    <3> QED BY <2>1, <3>1, Zenon DEF MainAt
  <2>3. [main EXCEPT !.left = Tail(@)].fid = main.fid
    BY <2>2
  <2>4. main' = [main EXCEPT !.left = Tail(@)]
    BY <1>2
  <2> HIDE DEF fl, um, up
  <2> QED BY <2>1, <2>2, <2>3, <2>4
<1>4. of[f] # None
  BY <1>3 DEF TablesInv, FidsInUse
<1>5. /\ a \in FileIds /\ a \in LiveIn(file) /\ us[a] > 0
  BY <1>3, <1>4, AtFile
<1>6. up \in LiveIn(file) /\ up \in FileIds /\ up # a
  <2>1. TreeOf(file) /\ a # RootFile
    BY <1>1, <1>2 DEF FilesOf, TreeOf
  <2>2. up \in LiveIn(file)
    BY <1>5, <2>1 DEF TreeOf
  <2>3. up # a
    <3>1. {a} \in SUBSET LiveIn(file) /\ {a} # {}
      BY <1>5
    <3>2. PICK g \in {a} : g = RootFile \/ file[g].parent \notin {a}
      BY <2>1, <3>1 DEF TreeOf
    <3> QED BY <2>1, <3>2
  <2> QED BY <2>2, <2>3 DEF LiveIn
<1>7. us \in [FileIds -> Nat]
  BY UsersAre
<1>8. Users(of') = [um EXCEPT ![a] = @ - 1]
  BY <1>1, <1>2, <1>3, <1>5, <1>6, UserMoved
<1> HIDE DEF a, up, us
<1>9. /\ FilesOf(um, fl) /\ LiveIn(fl) = LiveIn(file)
      /\ \A g \in LiveIn(file) : fl[g].key = file[g].key /\ fl[g].qid = file[g].qid
  BY <1>1, <1>6, Comes
<1> HIDE DEF fl
<1>10. QidsOf(fl, qidtab)
  BY <1>1, <1>9, SameQids
<1>11. um[a] > 0
  BY <1>5, <1>6, <1>7
<1> HIDE DEF um
<1>12. FilesOf(Users(of'), file') /\ QidsOf(file', qidtab')
  BY <1>2, <1>5, <1>8, <1>9, <1>10, <1>11, Leaves
<1>13. \A s \in Slaves : slave[s] # Idle => slave[s].fid \in Fids
  BY DEF FdsInv, SlaveAt, Idle
<1>14. /\ of' \in [Fids -> FileIds \union {None}] /\ of'[f] # None
       /\ \A g \in Fids : of[g] # None => of'[g] # None
  BY <1>1, <1>2, <1>3, <1>6
<1> HIDE DEF f
<1> QED BY <1>1, <1>2, <1>3, <1>12, <1>13, <1>14, TablesAfter

\* Xwstat: a File has another name, and is where it was.
LEMMA TablesXwstat ==
  ASSUME TablesInv, FdsInv, NEW f \in Fids, NEW n \in Names, Xwstat(f, n)
  PROVE  TablesInv'
<1> DEFINE a == of[f]
           r == [file[a] EXCEPT !.name = n]
<1>1. /\ of \in [Fids -> FileIds \union {None}] /\ FilesOf(Users(of), file)
      /\ QidsOf(file, qidtab) /\ newqid \in Nat
      /\ \A s \in Slaves : slave[s] # Idle => of[slave[s].fid] # None
      /\ \A g \in Fids : mode[g] => of[g] # None
  BY DEF TablesInv, FidsInUse
<1>2. /\ main = Idle /\ of[f] # None
      /\ file' = [file EXCEPT ![a].name = n]
      /\ UNCHANGED <<of, mode, qidtab, newqid, main>>
  BY DEF Xwstat, fidVars
<1>3. \A s \in Slaves : slave'[s] # Idle => slave[s] # Idle /\ slave'[s].fid = slave[s].fid
  <2> SUFFICES ASSUME NEW s \in Slaves, slave'[s] # Idle
               PROVE  slave[s] # Idle /\ slave'[s].fid = slave[s].fid
    OBVIOUS
  <2>1. \/ slave'[s] = slave[s]
        \/ slave[s].at = "path" /\ slave'[s] = [slave[s] EXCEPT !.path = None]
    BY DEF Xwstat
  <2>2. CASE slave'[s] = slave[s]
    BY <2>2
  <2>3. CASE slave[s].at = "path" /\ slave'[s] = [slave[s] EXCEPT !.path = None]
    <3>1. slave[s] # Idle
      BY <2>3 DEF Idle
    <3>2. slave[s] = [at |-> slave[s].at, fid |-> slave[s].fid, path |-> slave[s].path]
      BY <3>1 DEF FdsInv, SlaveAt
    <3>3. [slave[s] EXCEPT !.path = None].fid = slave[s].fid
      BY <3>2
    <3> QED BY <2>3, <3>1, <3>3
  <2> QED BY <2>1, <2>2, <2>3
<1>4. /\ a \in FileIds /\ a \in LiveIn(file) /\ file[a] \in File
      /\ file \in [FileIds -> File \union {None}]
  BY <1>1, <1>2, AtFile, FieldsOf DEF FilesOf
<1> HIDE DEF a
<1>5. /\ r \in File /\ r # None /\ r.ref = file[a].ref /\ r.parent = file[a].parent
      /\ r.kids = file[a].kids /\ r.key = file[a].key /\ r.qid = file[a].qid
  BY <1>4, FilesAssumption DEF File
<1>6. file' = [file EXCEPT ![a] = r]
  BY <1>2, <1>4
<1> HIDE DEF r
<1>7. /\ file' \in [FileIds -> File \union {None}] /\ LiveIn(file') = LiveIn(file)
      /\ \A g \in LiveIn(file) :
           /\ file'[g].ref = file[g].ref /\ file'[g].parent = file[g].parent
           /\ file'[g].kids = file[g].kids /\ file'[g].key = file[g].key
           /\ file'[g].qid = file[g].qid
  BY <1>4, <1>5, <1>6 DEF LiveIn
<1>8. FilesOf(Users(of), file')
  BY <1>1, <1>7, SameTree DEF FilesOf, RefsOf
<1>9. QidsOf(file', qidtab)
  BY <1>1, <1>7, SameQids
<1> QED BY <1>1, <1>2, <1>3, <1>8, <1>9, TablesAfter

\* OpenDone: the File shows the Qid of the host.
LEMMA TablesOpenDone ==
  ASSUME TablesInv, FdsInv, NEW s \in Slaves, OpenDone(s)
  PROVE  TablesInv'
<1> DEFINE f == slave[s].fid
           a == of[f]
           u == Raw(Key(fd[sysfd[f]]))
           r == [file[a] EXCEPT !.qid = u]
<1>1. /\ of \in [Fids -> FileIds \union {None}] /\ FilesOf(Users(of), file)
      /\ QidsOf(file, qidtab) /\ newqid \in Nat
      /\ main # Idle => of[main.fid] # None
      /\ \A t \in Slaves : slave[t] # Idle => of[slave[t].fid] # None
      /\ \A g \in Fids : mode[g] => of[g] # None
  BY DEF TablesInv, FidsInUse
<1>2. /\ slave[s].at = "stat"
      /\ file' = [file EXCEPT ![a].qid = u]
      /\ mode' = [mode EXCEPT ![f] = TRUE]
      /\ slave' = [slave EXCEPT ![s] = Idle]
      /\ UNCHANGED <<of, qidtab, newqid, main>>
  BY DEF OpenDone
<1>3. slave[s] # Idle
  BY <1>2 DEF Idle
<1>4. f \in Fids /\ a # None
  BY <1>1, <1>3 DEF FdsInv, SlaveAt
<1>5. u \in Qids /\ u[2] = 0
  <2>1. sysfd[f] # None /\ fd[sysfd[f]] # None
    BY <1>2, <1>4 DEF FdsInv, FdsOwned
  <2>2. sysfd[f] \in Fds /\ fd[sysfd[f]] \in Objs
    BY <1>4, <2>1 DEF FdsInv, FdTypes
  <2>3. u = <<Ino[fd[sysfd[f]]], 0>>
    BY DEF Raw, Key
  <2> QED BY <2>2, <2>3 DEF Qids
<1>6. /\ a \in FileIds /\ a \in LiveIn(file) /\ file[a] \in File
      /\ file \in [FileIds -> File \union {None}]
  BY <1>1, <1>4, AtFile, FieldsOf DEF FilesOf
<1>7. mode \in [Fids -> BOOLEAN] /\ DOMAIN slave = Slaves
  BY DEF FdsInv, FdTypes, SlaveAt
<1>8. /\ \A g \in Fids : mode'[g] => of[g] # None
      /\ \A t \in Slaves : slave'[t] # Idle => of[slave'[t].fid] # None
  BY <1>1, <1>2, <1>4, <1>7
<1> HIDE DEF u, a
<1>9. /\ r \in File /\ r # None /\ r.ref = file[a].ref /\ r.parent = file[a].parent
      /\ r.kids = file[a].kids /\ r.key = file[a].key /\ r.qid = u
  BY <1>5, <1>6, FilesAssumption DEF File
<1>10. file' = [file EXCEPT ![a] = r]
  BY <1>2, <1>6
<1> HIDE DEF r, f
<1>11. /\ file' \in [FileIds -> File \union {None}] /\ LiveIn(file') = LiveIn(file)
       /\ \A g \in LiveIn(file) :
            /\ file'[g].ref = file[g].ref /\ file'[g].parent = file[g].parent
            /\ file'[g].kids = file[g].kids /\ file'[g].key = file[g].key
            /\ file'[g].qid = file[g].qid \/ file'[g].qid[2] = 0
  BY <1>5, <1>6, <1>9, <1>10 DEF LiveIn
<1>12. FilesOf(Users(of), file')
  BY <1>1, <1>11, SameTree DEF FilesOf, RefsOf
<1>13. QidsOf(file', qidtab)
  BY <1>1, <1>11, SameQids
<1> QED BY <1>1, <1>2, <1>8, <1>12, <1>13, TablesAfter

-----------------------------------------------------------------------------
\* Every step.
LEMMA NextTables == FdsInv /\ TablesInv /\ [Next]_vars => TablesInv'
<1> SUFFICES ASSUME FdsInv, TablesInv, [Next]_vars PROVE TablesInv'
  OBVIOUS
<1>a. /\ main # Idle => of[main.fid] # None
      /\ \A s \in Slaves : slave[s] # Idle => of[slave[s].fid] # None
      /\ \A f \in Fids : mode[f] => of[f] # None
  BY DEF TablesInv, FidsInUse
<1>b. /\ main.at \in {"walk", "create"} => main # Idle /\ main.fid \in Fids
      /\ main # Idle => Quiet(main.fid)
  BY DEF FdsInv, MainAt, Apart, Idle
<1>c. DOMAIN slave = Slaves /\ \A s \in Slaves : slave[s].at # "idle" => slave[s] # Idle
  BY DEF FdsInv, SlaveAt, Idle
<1>1. ASSUME NEW f \in Fids, Xattach(f) PROVE TablesInv'
  BY <1>1, TablesXattach
<1>2. ASSUME NEW f \in Fids, Xclunk(f) \/ Xremove(f) PROVE TablesInv'
  <2>1. /\ of[f] # None /\ Quiet(f) /\ Freefid(f) /\ main' = Idle
        /\ UNCHANGED <<slave, newqid>>
    BY <1>2 DEF Xclunk, Xremove, Ready
  <2> QED BY <2>1, TablesFreefid
<1>3. ASSUME NEW f \in Fids, NEW n \in Fids, NEW names \in Walks, Xwalk(f, n, names) PROVE TablesInv'
  BY <1>3, TablesXwalk
<1>4. CASE WalkUp
  BY <1>4, TablesWalkUp
<1>5. ASSUME NEW n \in Names, WalkDown(n) PROVE TablesInv'
  <2>1. /\ main.at = "walk" /\ CanName(of[main.fid], n) /\ MoveDown(main.fid, n)
        /\ main' = [main EXCEPT !.left = Tail(@)] /\ UNCHANGED <<mode, slave>>
    BY <1>5 DEF WalkDown, Walking
  <2>2. /\ main.fid \in Fids /\ of[main.fid] # None /\ main'.fid = main.fid
    BY <1>a, <1>b, <2>1 DEF FdsInv, MainAt, Idle
  <2> QED BY <2>1, <2>2, TablesMoveDown
<1>6. CASE CreateFile
  <2>1. /\ main.at = "create" /\ CanName(of[main.fid], main.name) /\ MoveDown(main.fid, main.name)
        /\ mode' = [mode EXCEPT ![main.fid] = TRUE] /\ main' = Idle /\ UNCHANGED slave
    BY <1>6 DEF CreateFile
  <2>2. /\ main.fid \in Fids /\ of[main.fid] # None /\ main.name \in Names
    BY <1>a, <1>b, <2>1 DEF FdsInv, MainAt
  <2>3. mode \in [Fids -> BOOLEAN]
    BY DEF FdsInv, FdTypes
  <2>4. \A g \in Fids : mode'[g] => g = main.fid \/ mode[g]
    BY <2>1, <2>3
  <2> QED BY <2>1, <2>2, <2>4, TablesMoveDown
<1>7. CASE WalkEnd
  <2>1. /\ main.at = "walk" /\ main' = Idle /\ UNCHANGED <<newqid, slave>>
        /\ \/ Freefid(main.fid)
           \/ UNCHANGED <<of, mode, file, qidtab>>
    BY <1>7 DEF WalkEnd, fidVars
  <2>2. /\ main.fid \in Fids /\ of[main.fid] # None /\ Quiet(main.fid)
    BY <1>a, <1>b, <2>1 DEF FdsInv, MainAt
  <2>3. CASE Freefid(main.fid)
    BY <2>1, <2>2, <2>3, TablesFreefid
  <2>4. CASE UNCHANGED <<of, mode, file, qidtab>>
    BY <1>a, <2>1, <2>4, TablesSame
  <2> QED BY <2>1, <2>3, <2>4
<1>8. ASSUME NEW f \in Fids, NEW n \in Names, Xwstat(f, n) PROVE TablesInv'
  BY <1>8, TablesXwstat
<1>9. ASSUME NEW s \in Slaves, OpenDone(s) PROVE TablesInv'
  BY <1>9, TablesOpenDone
<1>10. ASSUME NEW f \in Fids, NEW n \in Names, Xcreate(f, n) PROVE TablesInv'
  <2>1. /\ of[f] # None /\ main'.fid = f /\ UNCHANGED <<of, mode, file, qidtab, newqid, slave>>
    BY <1>10 DEF Xcreate, Ready
  <2> QED BY <1>a, <2>1, TablesSame
<1>11. ASSUME NEW f \in Fids, CreateNot(f) PROVE TablesInv'
  <2>1. UNCHANGED <<of, mode, file, qidtab, newqid, main, slave>>
    BY <1>11 DEF CreateNot
  <2> QED BY <1>a, <2>1, TablesSame
<1>12. CASE CreateFails
  <2>1. main' = Idle /\ UNCHANGED <<of, mode, file, qidtab, newqid, slave>>
    BY <1>12 DEF CreateFails, fidVars
  <2> QED BY <1>a, <2>1, TablesSame
<1>13. ASSUME NEW s \in Slaves, NEW f \in Fids, Slaveopen(s, f) \/ Slaveread(s, f) PROVE TablesInv'
  <2>1. /\ of[f] # None /\ UNCHANGED <<of, mode, file, qidtab, newqid, main>>
    BY <1>a, <1>13 DEF Slaveopen, Slaveread, fidVars
  <2>2. \A t \in Slaves : slave'[t] = slave[t] \/ slave'[t].fid = f
    BY <1>c, <1>13 DEF Slaveopen, Slaveread
  <2> QED BY <1>a, <2>1, <2>2, TablesSame
<1>14. ASSUME NEW s \in Slaves, OpenFile(s) \/ OpenFails(s) \/ ReadDone(s) PROVE TablesInv'
  <2>1. UNCHANGED <<of, mode, file, qidtab, newqid, main>>
    BY <1>14 DEF OpenFile, OpenFails, ReadDone, fidVars
  <2>2. slave[s] # Idle
    BY <1>c, <1>14 DEF OpenFile, OpenFails, ReadDone, Idle
  <2>3. slave' = [slave EXCEPT ![s] = Idle] \/ slave' = [slave EXCEPT ![s].at = "stat"]
    BY <1>14 DEF OpenFile, OpenFails, ReadDone
  <2>4. \A t \in Slaves : slave'[t] # Idle => slave[t] # Idle /\ slave'[t].fid = slave[t].fid
    <3>1. slave[s] = [at |-> slave[s].at, fid |-> slave[s].fid, path |-> slave[s].path]
      BY <2>2 DEF FdsInv, SlaveAt
    <3>2. [slave[s] EXCEPT !.at = "stat"].fid = slave[s].fid
      BY <3>1
    <3>3. CASE slave' = [slave EXCEPT ![s] = Idle]
      BY <1>c, <3>3
    <3>4. CASE slave' = [slave EXCEPT ![s].at = "stat"]
      BY <1>c, <2>2, <3>2, <3>4
    <3> QED BY <2>3, <3>3, <3>4
  <2> QED BY <1>a, <2>1, <2>4, TablesSame
<1>15. ASSUME NEW o \in Objs \ {Root}, HostRemove(o) PROVE TablesInv'
  <2>1. UNCHANGED <<of, mode, file, qidtab, newqid, main, slave>>
    BY <1>15 DEF HostRemove, fidVars
  <2> QED BY <1>a, <2>1, TablesSame
<1>16. ASSUME NEW o \in Objs \ {Root}, NEW up \in Objs, NEW n \in Names, HostCreate(o, up, n) PROVE TablesInv'
  <2>1. UNCHANGED <<of, mode, file, qidtab, newqid, main, slave>>
    BY <1>16 DEF HostCreate, fidVars
  <2> QED BY <1>a, <2>1, TablesSame
<1>17. CASE UNCHANGED vars
  <2>1. UNCHANGED <<of, mode, file, qidtab, newqid, main, slave>>
    BY <1>17 DEF vars, fidVars
  <2> QED BY <1>a, <2>1, TablesSame
<1> QED BY <1>1, <1>2, <1>3, <1>4, <1>5, <1>6, <1>7, <1>8, <1>9, <1>10, <1>11, <1>12, <1>13,
           <1>14, <1>15, <1>16, <1>17 DEF Next
-----------------------------------------------------------------------------
\* The count of a File is that of its Fids and its children: none in use is
\* freed, none is left behind, and the lists of children are right.
THEOREM FilesRefsTrue == Spec => []RefsTrue
<1>1. Init => FdsInv /\ TablesInv
  BY InitFdsInv, InitTables
<1>2. FdsInv /\ TablesInv /\ [Next]_vars => (FdsInv /\ TablesInv)'
  BY NextFdsInv, NextTables
<1>3. FdsInv /\ TablesInv => RefsTrue
  BY TablesRefs
<1> QED BY <1>1, <1>2, <1>3, PTL DEF Spec

\* A File that lives has its Qid in qidtab, counted for all that have it, and no
\* two files of the host have the same.
THEOREM FilesQidsTrue == Spec => []QidsTrue
<1>1. Init => FdsInv /\ TablesInv
  BY InitFdsInv, InitTables
<1>2. FdsInv /\ TablesInv /\ [Next]_vars => (FdsInv /\ TablesInv)'
  BY NextFdsInv, NextTables
<1>3. FdsInv /\ TablesInv => QidsTrue
  BY TablesRefs
<1> QED BY <1>1, <1>2, <1>3, PTL DEF Spec

-----------------------------------------------------------------------------
\* makepath is what its recursion says, of a table that is a tree: two solutions
\* on sets that go up to root agree, and there is one for each File.
LEMMA PathIs ==
  ASSUME NEW fl, TreeOf(fl), NEW f \in LiveIn(fl)
  PROVE  Path(fl, f) = IF f = RootFile THEN <<>>
                       ELSE Append(Path(fl, fl[f].parent), fl[f].name)
<1> DEFINE L == LiveIn(fl)
           Step(q, g) == IF g = RootFile THEN <<>> ELSE Append(q[fl[g].parent], fl[g].name)
           Up(S) == S \subseteq L /\ \A h \in S : h = RootFile \/ fl[h].parent \in S
           Partial(S, q) == Up(S) /\ \A h \in S : q[h] = Step(q, h)
           Value(g) == CHOOSE x : \E S, q : Partial(S, q) /\ g \in S /\ x = q[g]
           w == [g \in L |-> Value(g)]
           v == CHOOSE x : x = [g \in L |-> IF g = RootFile THEN <<>>
                                            ELSE Append(x[fl[g].parent], fl[g].name)]
<1>1. /\ RootFile \in L
      /\ \A g \in L : g # RootFile => fl[g].parent \in L
      /\ \A S \in SUBSET L : S # {} => \E g \in S : g = RootFile \/ fl[g].parent \notin S
  BY DEF TreeOf
<1> HIDE DEF L
<1>2. ASSUME NEW S, NEW q, Partial(S, q), NEW T, NEW r, Partial(T, r), NEW h \in S, h \in T
      PROVE  q[h] = r[h]
  <2> DEFINE B == {g \in S \intersect T : q[g] # r[g]}
  <2>1. CASE B = {}
    BY <1>2, <2>1
  <2>2. CASE B # {}
    <3>1. B \in SUBSET L
      BY <1>2
    <3>2. PICK g \in B : g = RootFile \/ fl[g].parent \notin B
      BY <1>1, <2>2, <3>1
    <3>3. g \in S /\ g \in T /\ q[g] # r[g] /\ q[g] = Step(q, g) /\ r[g] = Step(r, g)
      BY <1>2, <3>2
    <3>4. CASE g = RootFile
      BY <3>3, <3>4
    <3>5. CASE g # RootFile
      <4>1. fl[g].parent \in S /\ fl[g].parent \in T /\ fl[g].parent \notin B
        BY <1>2, <3>2, <3>3, <3>5
      <4>2. q[fl[g].parent] = r[fl[g].parent]
        BY <4>1
      <4> QED BY <3>3, <3>5, <4>2
    <3> QED BY <3>4, <3>5
  <2> QED BY <2>1, <2>2
<1>3. ASSUME NEW g \in L PROVE \E S, q : Partial(S, q) /\ g \in S
  <2> DEFINE B == {h \in L : ~\E S, q : Partial(S, q) /\ h \in S}
  <2>1. CASE B = {}
    BY <2>1
  <2>2. CASE B # {}
    <3>1. PICK h \in B : h = RootFile \/ fl[h].parent \notin B
      BY <1>1, <2>2
    <3>2. CASE h = RootFile
      <4> DEFINE q == [x \in {RootFile} |-> <<>>]
      <4>1. Partial({RootFile}, q)
        BY <1>1
      <4> HIDE DEF Partial
      <4> QED BY <3>1, <3>2, <4>1
    <3>3. CASE h # RootFile
      <4> DEFINE p == fl[h].parent
      <4>1. p \in L /\ p \notin B
        BY <1>1, <3>1, <3>3
      <4>2. PICK S, q : Partial(S, q) /\ p \in S
        BY <4>1
      <4>3. h \notin S /\ h \in L
        BY <3>1, <4>2
      <4> DEFINE T == S \union {h}
                 r == [x \in T |-> IF x \in S THEN q[x] ELSE Append(q[p], fl[h].name)]
      <4>4. /\ \A x \in S : r[x] = q[x]
            /\ r[h] = Append(q[p], fl[h].name)
        BY <4>3
      <4>5. Up(T)
        BY <4>2, <4>3
      <4> HIDE DEF r
      <4>6. ASSUME NEW x \in T PROVE r[x] = Step(r, x)
        <5>1. CASE x \in S
          <6>1. r[x] = Step(q, x) /\ (x # RootFile => fl[x].parent \in S)
            BY <4>2, <4>4, <5>1
          <6> QED BY <4>4, <6>1
        <5>2. CASE x = h
          BY <3>3, <4>2, <4>4, <5>2
        <5> QED BY <5>1, <5>2
      <4>7. Partial(T, r)
        BY <4>5, <4>6
      <4> HIDE DEF Partial
      <4> QED BY <3>1, <4>7
    <3> QED BY <3>2, <3>3
  <2> QED BY <2>1, <2>2
<1>4. ASSUME NEW S, NEW q, Partial(S, q), NEW g \in S PROVE Value(g) = q[g]
  <2> HIDE DEF Partial
  <2>1. \E T, r : Partial(T, r) /\ g \in T /\ q[g] = r[g]
    BY <1>4
  <2>2. PICK T, r : Partial(T, r) /\ g \in T /\ Value(g) = r[g]
    BY <2>1
  <2> QED BY <1>2, <1>4, <2>2
<1>5. ASSUME NEW g \in L PROVE w[g] = Step(w, g)
  <2>1. PICK S, q : Partial(S, q) /\ g \in S
    BY <1>3
  <2>2. q[g] = Step(q, g) /\ S \subseteq L /\ (g # RootFile => fl[g].parent \in S)
    BY <2>1
  <2>3. \A h \in S : w[h] = q[h]
    <3> HIDE DEF Partial, Value
    <3> QED BY <1>4, <2>1, <2>2
  <2> HIDE DEF w, Partial
  <2> QED BY <2>1, <2>2, <2>3
<1> HIDE DEF Value
<1>6. w = [g \in L |-> IF g = RootFile THEN <<>> ELSE Append(w[fl[g].parent], fl[g].name)]
  <2>1. \A g \in L : Value(g) = IF g = RootFile THEN <<>> ELSE Append(w[fl[g].parent], fl[g].name)
    BY <1>5
  <2> QED BY <2>1
<1> HIDE DEF w
<1>7. v = [g \in L |-> IF g = RootFile THEN <<>> ELSE Append(v[fl[g].parent], fl[g].name)]
  BY <1>6
<1>8. \A g \in L : Path(fl, g) = v[g]
  BY DEF Path, L
<1> HIDE DEF v
<1>9. v[f] = IF f = RootFile THEN <<>> ELSE Append(v[fl[f].parent], fl[f].name)
  BY <1>7 DEF L
<1> QED BY <1>1, <1>8, <1>9 DEF L

\* It is a sequence of names, and only that of root is empty.
LEMMA PathType ==
  ASSUME NEW fl \in [FileIds -> File \union {None}], TreeOf(fl), NEW f \in LiveIn(fl)
  PROVE  /\ Path(fl, f) \in Seq(Names \union {None})
         /\ Path(fl, f) # None
         /\ f # RootFile <=> Path(fl, f) # <<>>
<1> DEFINE L == LiveIn(fl)
           T == Names \union {None}
           B == {g \in L : Path(fl, g) \notin Seq(T)}
<1>1. \A g \in L : fl[g].name \in T
  BY FieldsOf
<1>2. \A g \in L : g # RootFile => fl[g].parent \in L
  BY DEF TreeOf
<1>3. ASSUME NEW g \in L, g = RootFile \/ Path(fl, fl[g].parent) \in Seq(T)
      PROVE  Path(fl, g) \in Seq(T)
  <2>1. CASE g = RootFile
    <3>1. Path(fl, g) = <<>>
      BY <2>1, PathIs
    <3> QED BY <3>1
  <2>2. CASE g # RootFile
    <3>1. Path(fl, g) = Append(Path(fl, fl[g].parent), fl[g].name)
      BY <2>2, PathIs
    <3>2. fl[g].name \in T
      BY <1>1
    <3> HIDE DEF T
    <3> QED BY <1>3, <2>2, <3>1, <3>2
  <2> QED BY <2>1, <2>2
<1>4. B = {}
  <2> SUFFICES ASSUME B # {} PROVE FALSE
    OBVIOUS
  <2>1. PICK g \in B : g = RootFile \/ fl[g].parent \notin B
    BY DEF TreeOf
  <2>2. g = RootFile \/ Path(fl, fl[g].parent) \in Seq(T)
    BY <1>2, <2>1
  <2> QED BY <1>3, <2>1, <2>2
<1>5. \A g \in L : Path(fl, g) \in Seq(T)
  BY <1>4
<1>6. Path(fl, f) # None
  BY <1>5, FilesAssumption
<1>7. f # RootFile <=> Path(fl, f) # <<>>
  <2>1. CASE f = RootFile
    BY <2>1, PathIs
  <2>2. CASE f # RootFile
    <3>1. Path(fl, f) = Append(Path(fl, fl[f].parent), fl[f].name)
      BY <2>2, PathIs
    <3>2. Path(fl, fl[f].parent) \in Seq(T) /\ fl[f].name \in T
      BY <1>1, <1>2, <1>5, <2>2
    <3> HIDE DEF T
    <3> QED BY <2>2, <3>1, <3>2
  <2> QED BY <2>1, <2>2
<1> QED BY <1>5, <1>6, <1>7

\* Files that come or go leave the paths of the others alone.
LEMMA PathSame ==
  ASSUME NEW fl, NEW fm, TreeOf(fl), TreeOf(fm), Carried(fl, fm),
         NEW f \in LiveIn(fl), f \in LiveIn(fm)
  PROVE  Path(fm, f) = Path(fl, f)
<1> DEFINE L == LiveIn(fl) \intersect LiveIn(fm)
           B == {g \in L : Path(fm, g) # Path(fl, g)}
<1>1. CASE B = {}
  BY <1>1
<1>2. CASE B # {}
  <2>1. PICK g \in B : g = RootFile \/ fm[g].parent \notin B
    BY <1>2 DEF TreeOf
  <2>2. g \in LiveIn(fm) /\ g \in LiveIn(fl)
    BY <2>1
  <2>3. CASE g = RootFile
    <3>1. Path(fm, g) = <<>> /\ Path(fl, g) = <<>>
      BY <2>2, <2>3, PathIs
    <3> QED BY <2>1, <3>1
  <2>4. CASE g # RootFile
    <3>1. fm[g].parent = fl[g].parent /\ fm[g].name = fl[g].name
      BY <2>2 DEF Carried
    <3>2. fm[g].parent \in LiveIn(fm) /\ fl[g].parent \in LiveIn(fl)
      BY <2>2, <2>4 DEF TreeOf
    <3>3. Path(fm, fm[g].parent) = Path(fl, fl[g].parent)
      BY <2>1, <2>4, <3>1, <3>2
    <3>4. /\ Path(fm, g) = Append(Path(fm, fm[g].parent), fm[g].name)
          /\ Path(fl, g) = Append(Path(fl, fl[g].parent), fl[g].name)
      BY <2>2, <2>4, PathIs
    <3> QED BY <2>1, <3>1, <3>3, <3>4
  <2> QED BY <2>3, <2>4
<1> QED BY <1>1, <1>2
-----------------------------------------------------------------------------
\* Paths under a prefix of which one name is replaced.
LEMMA PrefixSelf ==
  ASSUME NEW T, NEW s \in Seq(T)
  PROVE  IsPrefix(s, s)
BY DEF IsPrefix

\* A path below is longer.
LEMMA PrefixLonger ==
  ASSUME NEW T, NEW s \in Seq(T), NEW t \in Seq(T), NEW x \in T, IsPrefix(s, t)
  PROVE  IsPrefix(s, Append(t, x)) /\ Len(s) <= Len(t)
<1>1. Len(s) \in Nat /\ Len(t) \in Nat /\ Len(s) <= Len(t)
      /\ SubSeq(s, 1, Len(s)) = SubSeq(t, 1, Len(s)) /\ Len(Append(t, x)) = Len(t) + 1
  BY DEF IsPrefix
<1> DEFINE v == Append(t, x)
           n == Len(s)
<1>3. v \in Seq(T) /\ \A i \in 1 .. n : v[i] = t[i] /\ t[i] \in T
  BY <1>1
<1> HIDE DEF v, n
<1>4. n \in Nat
  BY <1>1 DEF n
<1>5. /\ SubSeq(v, 1, n) \in Seq(T) /\ Len(SubSeq(v, 1, n)) = n
      /\ \A i \in 1 .. n : SubSeq(v, 1, n)[i] = v[i]
  <2>1. \A i \in 1 .. n : v[i] \in T
    BY <1>3
  <2>2. /\ SubSeq(v, 1, n) \in Seq(T) /\ Len(SubSeq(v, 1, n)) = IF 1 <= n THEN n - 1 + 1 ELSE 0
        /\ \A i \in 1 .. n - 1 + 1 : SubSeq(v, 1, n)[i] = v[1 + i - 1]
    BY <1>4, <2>1, SubSeqProperties
  <2> QED BY <1>4, <2>2
<1>6. /\ SubSeq(t, 1, n) \in Seq(T) /\ Len(SubSeq(t, 1, n)) = n
      /\ \A i \in 1 .. n : SubSeq(t, 1, n)[i] = t[i]
  <2>1. \A i \in 1 .. n : t[i] \in T
    BY <1>3
  <2>2. /\ SubSeq(t, 1, n) \in Seq(T) /\ Len(SubSeq(t, 1, n)) = IF 1 <= n THEN n - 1 + 1 ELSE 0
        /\ \A i \in 1 .. n - 1 + 1 : SubSeq(t, 1, n)[i] = t[1 + i - 1]
    BY <1>4, <2>1, SubSeqProperties
  <2> QED BY <1>4, <2>2
<1>7. SubSeq(v, 1, n) = SubSeq(t, 1, n)
  <2>1. \A i \in 1 .. n : SubSeq(v, 1, n)[i] = SubSeq(t, 1, n)[i]
    BY <1>3, <1>5, <1>6
  <2> HIDE DEF v
  <2> QED BY <1>5, <1>6, <2>1, SeqEqual
<1>2. SubSeq(Append(t, x), 1, Len(s)) = SubSeq(t, 1, Len(s))
  BY <1>7 DEF v, n
<1> QED BY <1>1, <1>2 DEF IsPrefix

\* Append and EXCEPT of sequences, as functions.
LEMMA AppendIs ==
  ASSUME NEW T, NEW t \in Seq(T), NEW x \in T
  PROVE  /\ Append(t, x) \in Seq(T) /\ Len(Append(t, x)) = Len(t) + 1 /\ Len(t) \in Nat
         /\ Append(t, x) = [i \in 1 .. Len(t) + 1 |-> IF i = Len(t) + 1 THEN x ELSE t[i]]
<1> DEFINE v == Append(t, x)
           m == Len(t) + 1
<1>1. v \in Seq(T) /\ Len(v) = m /\ Len(t) \in Nat /\ m \in Nat
  OBVIOUS
<1>2. \A i \in 1 .. m : v[i] = IF i = m THEN x ELSE t[i]
  OBVIOUS
<1> HIDE DEF v, m
<1>3. v \in [1 .. m -> T]
  BY <1>1
<1>4. v = [i \in 1 .. m |-> v[i]]
  BY <1>3
<1>5. v = [i \in 1 .. m |-> IF i = m THEN x ELSE t[i]]
  BY <1>2, <1>4
<1> QED BY <1>1, <1>5 DEF v, m

LEMMA ExceptIs ==
  ASSUME NEW T, NEW t \in Seq(T), NEW k, NEW n
  PROVE  [t EXCEPT ![k] = n] = [i \in 1 .. Len(t) |-> IF i = k THEN n ELSE t[i]]
OBVIOUS

\* A name of a path is replaced before or after another is appended, or as the
\* last.
LEMMA ExceptAppend ==
  ASSUME NEW T, NEW t \in Seq(T), NEW x \in T, NEW n \in T, NEW k \in 1 .. Len(t)
  PROVE  Append([t EXCEPT ![k] = n], x) = [Append(t, x) EXCEPT ![k] = n]
<1>0. Len(t) \in Nat
  OBVIOUS
<1> DEFINE u == [t EXCEPT ![k] = n]
           v == Append(t, x)
<1>1. u = [i \in 1 .. Len(t) |-> IF i = k THEN n ELSE t[i]]
  BY ExceptIs
<1>2. u \in Seq(T) /\ Len(u) = Len(t) /\ Len(t) \in Nat
  OBVIOUS
<1>3. v \in Seq(T) /\ Len(v) = Len(t) + 1
  OBVIOUS
<1>4. \A i \in 1 .. Len(t) + 1 : v[i] = IF i = Len(t) + 1 THEN x ELSE t[i]
  BY AppendIs
<1>5. \A i \in 1 .. Len(t) : u[i] = IF i = k THEN n ELSE t[i]
  BY <1>1
<1> HIDE DEF u, v
<1>6. Append(u, x) = [i \in 1 .. Len(t) + 1 |-> IF i = Len(t) + 1 THEN x ELSE u[i]]
  BY <1>2, AppendIs
<1>7. [v EXCEPT ![k] = n] = [i \in 1 .. Len(t) + 1 |-> IF i = k THEN n ELSE v[i]]
  <2>1. [v EXCEPT ![k] = n] = [i \in 1 .. Len(v) |-> IF i = k THEN n ELSE v[i]]
    BY <1>3, ExceptIs
  <2>2. 1 .. Len(v) = 1 .. Len(t) + 1
    BY <1>3
  <2> QED BY <2>1, <2>2
<1>8. \A i \in 1 .. Len(t) + 1 :
        (IF i = Len(t) + 1 THEN x ELSE u[i]) = (IF i = k THEN n ELSE v[i])
  BY <1>0, <1>4, <1>5
<1>9. Append(u, x) = [v EXCEPT ![k] = n]
  BY <1>6, <1>7, <1>8
<1> QED BY <1>9 DEF u, v

LEMMA ExceptLast ==
  ASSUME NEW T, NEW t \in Seq(T), NEW x \in T, NEW n \in T
  PROVE  Append(t, n) = [Append(t, x) EXCEPT ![Len(t) + 1] = n]
<1> DEFINE v == Append(t, x)
<1>3. v \in Seq(T) /\ Len(v) = Len(t) + 1 /\ Len(t) \in Nat
  OBVIOUS
<1>4. \A i \in 1 .. Len(t) + 1 : v[i] = IF i = Len(t) + 1 THEN x ELSE t[i]
  BY AppendIs
<1> HIDE DEF v
<1>6. Append(t, n) = [i \in 1 .. Len(t) + 1 |-> IF i = Len(t) + 1 THEN n ELSE t[i]]
  BY AppendIs
<1>7. [v EXCEPT ![Len(t) + 1] = n]
        = [i \in 1 .. Len(t) + 1 |-> IF i = Len(t) + 1 THEN n ELSE v[i]]
  <2> DEFINE k == Len(t) + 1
  <2> HIDE DEF k
  <2>1. [v EXCEPT ![k] = n] = [i \in 1 .. Len(v) |-> IF i = k THEN n ELSE v[i]]
    BY <1>3, ExceptIs
  <2>2. 1 .. Len(v) = 1 .. k
    BY <1>3 DEF k
  <2>3. [v EXCEPT ![k] = n] = [i \in 1 .. k |-> IF i = k THEN n ELSE v[i]]
    BY <2>1, <2>2
  <2> QED BY <2>3 DEF k
<1>9. Append(t, n) = [v EXCEPT ![Len(t) + 1] = n]
  BY <1>3, <1>4, <1>6, <1>7
<1> QED BY <1>9 DEF v

\* Up from a name that was appended.
LEMMA FrontIs ==
  ASSUME NEW T, NEW t \in Seq(T), NEW x \in T
  PROVE  Front(Append(t, x)) = t
<1>1. Front(Append(t, x)) = SubSeq(Append(t, x), 1, Len(t))
  BY DEF Front
<1> DEFINE v == Append(t, x)
           m == Len(t)
<1>2. v \in Seq(T) /\ m \in Nat /\ \A i \in 1 .. m : v[i] = t[i] /\ t[i] \in T
  OBVIOUS
<1> HIDE DEF v
<1>3. \A i \in 1 .. m : v[i] \in T
  BY <1>2
<1>4. /\ SubSeq(v, 1, m) \in Seq(T) /\ Len(SubSeq(v, 1, m)) = m
      /\ \A i \in 1 .. m : SubSeq(v, 1, m)[i] = v[i]
  <2> HIDE DEF m
  <2>2. /\ SubSeq(v, 1, m) \in Seq(T) /\ Len(SubSeq(v, 1, m)) = IF 1 <= m THEN m - 1 + 1 ELSE 0
        /\ \A i \in 1 .. m - 1 + 1 : SubSeq(v, 1, m)[i] = v[1 + i - 1]
    BY <1>2, <1>3, SubSeqProperties
  <2> QED BY <1>2, <2>2
<1>5. \A i \in 1 .. m : SubSeq(v, 1, m)[i] = t[i]
  BY <1>2, <1>4
<1>6. SubSeq(v, 1, m) = t
  BY <1>4, <1>5, SeqEqual
<1> QED BY <1>1, <1>6 DEF v, m

\* A File gets another name: its path, and that of some below it, are as before
\* but for that name, and the others do not change.
Renamed(fl, fm, g, h, n) ==
  /\ IsPrefix(Path(fl, g), Path(fl, h))
  /\ Path(fm, h) = [Path(fl, h) EXCEPT ![Len(Path(fl, g))] = n]

LEMMA PathRenamed ==
  ASSUME NEW fl \in [FileIds -> File \union {None}], NEW fm \in [FileIds -> File \union {None}],
         TreeOf(fl), TreeOf(fm), LiveIn(fm) = LiveIn(fl),
         NEW g \in LiveIn(fl), g # RootFile, NEW n \in Names, fm[g].name = n,
         \A h \in LiveIn(fl) : fm[h].parent = fl[h].parent,
         \A h \in LiveIn(fl) \ {g} : fm[h].name = fl[h].name
  PROVE  /\ Renamed(fl, fm, g, g, n)
         /\ \A h \in LiveIn(fl) : Path(fm, h) = Path(fl, h) \/ Renamed(fl, fm, g, h, n)
<1> DEFINE L == LiveIn(fl)
           T == Names \union {None}
           P(h) == Path(fl, h)
           Q(h) == Path(fm, h)
           k == Len(P(g))
           New(h) == Renamed(fl, fm, g, h, n)
           Good(h) == (h # g /\ Q(h) = P(h)) \/ New(h)
           B == {h \in L : ~Good(h)}
<1>1. /\ \A h \in L : P(h) \in Seq(T)
      /\ k \in Nat \ {0} /\ n \in T
  <2>1. \A h \in L : P(h) \in Seq(T)
    BY PathType
  <2>2. P(g) # <<>> /\ P(g) \in Seq(T)
    BY PathType
  <2> HIDE DEF P, T
  <2>3. k \in Nat \ {0}
    BY <2>2
  <2> QED BY <2>1, <2>3 DEF T
<1>2. /\ \A h \in L \ {RootFile} : /\ fl[h].parent \in L /\ fl[h].name \in T
                                   /\ P(h) = Append(P(fl[h].parent), fl[h].name)
                                   /\ Q(h) = Append(Q(fl[h].parent), fm[h].name)
      /\ P(RootFile) = <<>> /\ Q(RootFile) = <<>> /\ RootFile \in L
  <2>1. RootFile \in L /\ \A h \in L \ {RootFile} : fl[h].parent \in L
    BY DEF TreeOf
  <2>2. \A h \in L : fl[h].name \in T
    BY FieldsOf
  <2>3. P(RootFile) = <<>> /\ Q(RootFile) = <<>>
    BY <2>1, PathIs
  <2>4. \A h \in L \ {RootFile} : P(h) = Append(P(fl[h].parent), fl[h].name)
    BY <2>1, PathIs
  <2>5. \A h \in L \ {RootFile} : Q(h) = Append(Q(fl[h].parent), fm[h].name)
    BY <2>1, PathIs
  <2> QED BY <2>1, <2>2, <2>3, <2>4, <2>5
<1>3. \A h \in L : New(h) <=> /\ IsPrefix(P(g), P(h))
                              /\ Q(h) = [P(h) EXCEPT ![k] = n]
  BY DEF Renamed
<1> HIDE DEF T, P, Q, New, L
<1>4. ASSUME NEW h \in L \ {RootFile, g}, Good(fl[h].parent), fl[h].parent # g \/ New(g)
      PROVE  Good(h)
  <2> DEFINE p == fl[h].parent
             x == fl[h].name
  <2>1. p \in L /\ x \in T /\ P(h) = Append(P(p), x) /\ Q(h) = Append(Q(p), x) /\ P(p) \in Seq(T)
    BY <1>1, <1>2 DEF L
  <2> HIDE DEF p, x
  <2>2. CASE Q(p) = P(p)
    BY <2>1, <2>2
  <2>3. CASE New(p)
    <3>1. IsPrefix(P(g), P(p)) /\ Q(p) = [P(p) EXCEPT ![k] = n]
      BY <1>3, <2>1, <2>3
    <3>2. IsPrefix(P(g), P(h)) /\ k <= Len(P(p))
      <4>1. g \in L
        BY DEF L
      <4>2. P(g) \in Seq(T)
        BY <1>1, <4>1
      <4> QED BY <2>1, <3>1, <4>2, PrefixLonger
    <3>3. Len(P(p)) \in Nat
      BY <2>1
    <3>4. k \in 1 .. Len(P(p))
      BY <1>1, <3>2, <3>3
    <3> HIDE DEF k
    <3>5. Append([P(p) EXCEPT ![k] = n], x) = [Append(P(p), x) EXCEPT ![k] = n]
      BY <1>1, <2>1, <3>4, ExceptAppend
    <3>6. Q(h) = [P(h) EXCEPT ![k] = n]
      BY <2>1, <3>1, <3>5
    <3> QED BY <1>3, <3>2, <3>6
  <2>4. Q(p) = P(p) \/ New(p)
    BY <1>4 DEF p
  <2> QED BY <2>2, <2>3, <2>4
<1>5. ASSUME Good(fl[g].parent), fl[g].parent # g
      PROVE  New(g)
  <2> DEFINE p == fl[g].parent
             x == fl[g].name
  <2>1. p \in L /\ x \in T /\ P(g) = Append(P(p), x) /\ Q(g) = Append(Q(p), n) /\ P(p) \in Seq(T)
        /\ P(g) \in Seq(T) /\ n \in T /\ g \in L
    BY <1>1, <1>2 DEF L
  <2> HIDE DEF p, x
  <2>2. Len(P(p)) \in Nat /\ k = Len(P(p)) + 1
    BY <2>1, AppendProperties
  <2>3. CASE Q(p) = P(p)
    <3>1. Append(P(p), n) = [Append(P(p), x) EXCEPT ![Len(P(p)) + 1] = n]
      BY <2>1, ExceptLast
    <3>2. IsPrefix(P(g), P(g))
      BY <2>1, PrefixSelf
    <3> DEFINE j == Len(P(p)) + 1
    <3>3. k = j
      BY <2>2
    <3> HIDE DEF k, j
    <3>4. Q(g) = [P(g) EXCEPT ![k] = n]
      <4>1. Append(P(p), n) = [Append(P(p), x) EXCEPT ![j] = n]
        BY <3>1 DEF j
      <4> QED BY <2>1, <2>3, <3>3, <4>1
    <3> QED BY <1>3, <2>1, <3>2, <3>4
  <2>4. CASE New(p)
    <3>1. IsPrefix(P(g), P(p))
      BY <1>3, <2>1, <2>4
    <3>2. k <= Len(P(p))
      BY <1>1, <2>1, <3>1, PrefixLonger
    <3> QED BY <2>2, <3>2
  <2>5. Q(p) = P(p) \/ New(p)
    BY <1>5 DEF p
  <2> QED BY <2>3, <2>4, <2>5
<1>6. B = {}
  <2> SUFFICES ASSUME B # {} PROVE FALSE
    OBVIOUS
  <2>1. PICK h \in B : h = RootFile \/ fl[h].parent \notin B
    <3>1. \A S \in SUBSET L : S # {} => \E e \in S : e = RootFile \/ fl[e].parent \notin S
      BY DEF TreeOf, L
    <3> QED BY <3>1
  <2>2. h # RootFile
    BY <1>2, <2>1
  <2>3. fl[h].parent \in L /\ Good(fl[h].parent)
    BY <1>2, <2>1, <2>2
  <2>4. CASE h = g
    <3>1. CASE fl[g].parent = g
      BY <2>1, <2>2, <2>4, <3>1
    <3> QED BY <1>5, <2>1, <2>3, <2>4, <3>1
  <2>5. CASE h # g
    <3>1. fl[h].parent = g => New(g)
      BY <2>3
    <3> QED BY <1>4, <2>1, <2>2, <2>3, <2>5, <3>1
  <2> QED BY <2>4, <2>5
<1>7. New(g) /\ \A h \in L : Q(h) = P(h) \/ New(h)
  BY <1>6 DEF L
<1> QED BY <1>7 DEF L, P, Q, New
-----------------------------------------------------------------------------
\* Steps keep Files where they are in the tree.
LEMMA CarriedFreed ==
  ASSUME NEW us, NEW fl, FilesOf(us, fl), NEW f \in FileIds, us[f] > 0
  PROVE  Carried(fl, Freed(fl, f)) /\ LiveIn(Freed(fl, f)) \subseteq LiveIn(fl)
<1>1. /\ FilesOf([us EXCEPT ![f] = @ - 1], Freed(fl, f))
      /\ Dead(fl, f) \subseteq LiveIn(fl)
      /\ LiveIn(Freed(fl, f)) = LiveIn(fl) \ Dead(fl, f)
      /\ \A g \in LiveIn(Freed(fl, f)) :
           /\ Freed(fl, f)[g].key = fl[g].key /\ Freed(fl, f)[g].qid = fl[g].qid
           /\ Freed(fl, f)[g].name = fl[g].name /\ Freed(fl, f)[g].parent = fl[g].parent
  BY FreedOf
<1> DEFINE fm == Freed(fl, f)
<1> HIDE DEF fm
<1>2. \A g \in LiveIn(fm) : fm[g].name = fl[g].name /\ fm[g].parent = fl[g].parent
  BY <1>1 DEF fm
<1>3. Carried(fl, fm)
  BY <1>2 DEF Carried
<1> QED BY <1>1, <1>3 DEF fm

LEMMA CarriedOn ==
  ASSUME NEW fl, NEW fm, NEW fn, Carried(fl, fm), Carried(fm, fn),
         LiveIn(fl) \intersect LiveIn(fn) \subseteq LiveIn(fm)
  PROVE  Carried(fl, fn)
BY DEF Carried

\* The places of the Fids, of the two tables by themselves.
PlaceOf(o, fl) == [f \in Fids |-> IF o[f] = None THEN None ELSE Path(fl, o[f])]

LEMMA PlacesKept ==
  ASSUME NEW o \in [Fids -> FileIds \union {None}], NEW fl, FilesOf(Users(o), fl),
         NEW p \in [Fids -> FileIds \union {None}], NEW fm, FilesOf(Users(p), fm),
         Carried(fl, fm)
  PROVE  /\ \A h \in Fids : o[h] # None => o[h] \in LiveIn(fl)
         /\ \A h \in Fids : p[h] # None => p[h] \in LiveIn(fm)
         /\ \A g \in LiveIn(fl) \intersect LiveIn(fm) : Path(fm, g) = Path(fl, g)
         /\ \A h \in Fids : p[h] = o[h] => PlaceOf(p, fm)[h] = PlaceOf(o, fl)[h]
<1>1. \A h \in Fids : o[h] # None => o[h] \in LiveIn(fl)
  <2>1. \A h \in Fids : o[h] # None => o[h] \in FileIds /\ Users(o)[o[h]] > 0
    BY UsersAre
  <2> QED BY <2>1 DEF FilesOf
<1>2. \A h \in Fids : p[h] # None => p[h] \in LiveIn(fm)
  <2>1. \A h \in Fids : p[h] # None => p[h] \in FileIds /\ Users(p)[p[h]] > 0
    BY UsersAre
  <2> QED BY <2>1 DEF FilesOf
<1>3. TreeOf(fl) /\ TreeOf(fm)
  BY DEF FilesOf
<1>4. \A g \in LiveIn(fl) \intersect LiveIn(fm) : Path(fm, g) = Path(fl, g)
  BY <1>3, PathSame
<1> QED BY <1>1, <1>2, <1>4 DEF PlaceOf

\* What is known before and after a step.
LEMMA PlacesAre ==
  ASSUME TablesInv, TablesInv'
  PROVE  /\ of \in [Fids -> FileIds \union {None}] /\ FilesOf(Users(of), file)
         /\ of' \in [Fids -> FileIds \union {None}] /\ FilesOf(Users(of'), file')
         /\ Place = PlaceOf(of, file) /\ Place' = PlaceOf(of', file')
<1>1. of \in [Fids -> FileIds \union {None}] /\ FilesOf(Users(of), file)
  BY DEF TablesInv, FidsInUse
<1>2. of' \in [Fids -> FileIds \union {None}]
  BY DEF TablesInv, FidsInUse
<1>3. FilesOf(Users(of'), file')
  <2>1. FilesOf(Users(of), file)'
    BY DEF TablesInv
  <2> QED BY <2>1 DEF FilesOf, LiveIn, TreeOf, KidsOf, RefsOf, Users
<1> QED BY <1>1, <1>2, <1>3 DEF Place, PlaceOf

\* What a step that keeps the tree does to the places.
LEMMA PlacesStep ==
  ASSUME TablesInv, TablesInv', Carried(file, file')
  PROVE  /\ \A h \in Fids : of'[h] # None => of'[h] \in LiveIn(file')
         /\ \A g \in LiveIn(file) \intersect LiveIn(file') : Path(file', g) = Path(file, g)
         /\ \A h \in Fids : of'[h] = of[h] => Place'[h] = Place[h]
         /\ \A h \in Fids : Place[h] = IF of[h] = None THEN None ELSE Path(file, of[h])
         /\ \A h \in Fids : Place'[h] = IF of'[h] = None THEN None ELSE Path(file', of'[h])
         /\ Place = [h \in Fids |-> Place[h]] /\ Place' = [h \in Fids |-> Place'[h]]
<1>1. /\ of \in [Fids -> FileIds \union {None}] /\ FilesOf(Users(of), file)
      /\ of' \in [Fids -> FileIds \union {None}] /\ FilesOf(Users(of'), file')
      /\ Carried(file, file')
  BY PlacesAre
<1>2. \A h \in Fids : of'[h] # None => of'[h] \in LiveIn(file')
  BY <1>1, PlacesKept
<1>3. \A g \in LiveIn(file) \intersect LiveIn(file') : Path(file', g) = Path(file, g)
  BY <1>1, PlacesKept
<1>4. \A h \in Fids : of'[h] = of[h] => PlaceOf(of', file')[h] = PlaceOf(of, file)[h]
  BY <1>1, PlacesKept
<1>5. Place = PlaceOf(of, file) /\ Place' = PlaceOf(of', file')
  BY PlacesAre
<1>6. \A h \in Fids : of'[h] = of[h] => Place'[h] = Place[h]
  BY <1>4, <1>5
<1>7. \A h \in Fids : Place[h] = IF of[h] = None THEN None ELSE Path(file, of[h])
  BY <1>5 DEF PlaceOf
<1>8. \A h \in Fids : Place'[h] = IF of'[h] = None THEN None ELSE Path(file', of'[h])
  BY <1>5 DEF PlaceOf
<1>9. Place = [h \in Fids |-> Place[h]] /\ Place' = [h \in Fids |-> Place'[h]]
  BY <1>5 DEF PlaceOf
<1> QED BY <1>2, <1>3, <1>6, <1>7, <1>8, <1>9

\* The Fid f moves and no other.
LEMMA PlaceMoved ==
  ASSUME TablesInv, TablesInv', Carried(file, file'), NEW f \in Fids, NEW a,
         of' = [of EXCEPT ![f] = a]
  PROVE  /\ a # None => a \in LiveIn(file')
         /\ \A g \in LiveIn(file) \intersect LiveIn(file') : Path(file', g) = Path(file, g)
         /\ Place' = [Place EXCEPT ![f] = IF a = None THEN None ELSE Path(file', a)]
         /\ Place[f] = IF of[f] = None THEN None ELSE Path(file, of[f])
<1> DEFINE x == Place
           y == Place'
<1>1. of \in [Fids -> FileIds \union {None}]
  BY PlacesAre
<1>2. of'[f] = a /\ \A h \in Fids \ {f} : of'[h] = of[h]
  BY <1>1
<1>3. \A g \in LiveIn(file) \intersect LiveIn(file') : Path(file', g) = Path(file, g)
  BY PlacesStep
<1>4. a # None => a \in LiveIn(file')
  BY <1>2, PlacesStep
<1>5. /\ x = [h \in Fids |-> x[h]] /\ y = [h \in Fids |-> y[h]]
      /\ \A h \in Fids \ {f} : y[h] = x[h]
      /\ x[f] = IF of[f] = None THEN None ELSE Path(file, of[f])
      /\ y[f] = IF a = None THEN None ELSE Path(file', a)
  BY <1>2, PlacesStep
<1> HIDE DEF x, y
<1>6. y = [x EXCEPT ![f] = y[f]]
  BY <1>5
<1> QED BY <1>3, <1>4, <1>5, <1>6 DEF x, y

\* No Fid moves.
LEMMA PlaceStays ==
  ASSUME TablesInv, TablesInv', Carried(file, file'), of' = of
  PROVE  Place' = Place
BY PlacesStep

\* No File is touched.
LEMMA CarriedSame ==
  ASSUME NEW fl
  PROVE  Carried(fl, fl)
BY DEF Carried

\* There is a walk when main is in one.
LEMMA WalkedIs ==
  /\ main.at # "walk" => Walked = None
  /\ main = Idle => Walked = None
  /\ MainAt /\ main.at = "walk" =>
       /\ Walked # None /\ main.fid \in Fids /\ main.new \in BOOLEAN
       /\ main.left \in Seq(Names \union {DotDot})
       /\ Walked = [fid |-> main.fid, new |-> main.new, left |-> main.left]
<1>1. main.at # "walk" => Walked = None
  BY DEF Walked
<1>2. main = Idle => main.at # "walk"
  BY DEF Idle
<1>3. ASSUME MainAt, main.at = "walk"
      PROVE  /\ Walked # None /\ main.fid \in Fids /\ main.new \in BOOLEAN
             /\ main.left \in Seq(Names \union {DotDot})
             /\ Walked = [fid |-> main.fid, new |-> main.new, left |-> main.left]
  <2>1. /\ main.fid \in Fids /\ main.new \in BOOLEAN
        /\ main.left \in Seq(Names \union {DotDot})
    <3>1. main # Idle
      BY <1>2, <1>3
    <3>2. main.at # "create"
      BY <1>3
    <3> QED BY <1>3, <3>1, <3>2, Zenon DEF MainAt
  <2> DEFINE w == [fid |-> main.fid, new |-> main.new, left |-> main.left]
             T == Seq(Names \union {DotDot})
  <2>2. w \in [fid : Fids, new : BOOLEAN, left : T]
    <3> HIDE DEF T
    <3>1. main.left \in T
      BY <2>1 DEF T
    <3> QED BY <2>1, <3>1
  <2>3. Walked = w
    BY <1>3 DEF Walked
  <2>4. w # None
    <3> HIDE DEF w
    <3> QED BY <2>2, FilesAssumption
  <2> QED BY <2>1, <2>3, <2>4
<1> QED BY <1>1, <1>2, <1>3

\* Each request is one of the abstract specification.
LEMMA PlacesXattach ==
  ASSUME TablesInv, TablesInv', NEW f \in Fids, Xattach(f)
  PROVE  Places!Attach(f)
<1>1. /\ of[f] = None /\ of' = [of EXCEPT ![f] = RootFile]
      /\ file' = [file EXCEPT ![RootFile].ref = @ + 1]
      /\ main = Idle /\ main' = Idle
  BY DEF Xattach
<1>2. FilesOf(Users(of), file) /\ FilesOf(Users(of'), file')
  BY PlacesAre
<1>3. RootFile \in FileIds /\ RootFile \in LiveIn(file) /\ RootFile # None /\ TreeOf(file')
  BY <1>2, FilesAssumption DEF FilesOf, TreeOf
<1>4. Carried(file, file')
  <2> DEFINE us == Users(of)
             fm == [file EXCEPT ![RootFile].ref = @ + 1]
  <2>1. FilesOf(us, file)
    BY <1>2
  <2> HIDE DEF us
  <2>2. Carried(file, fm)
    BY <1>3, <2>1, Comes
  <2> QED BY <1>1, <2>2
<1>5. /\ RootFile \in LiveIn(file')
      /\ Place' = [Place EXCEPT ![f] = IF RootFile = None THEN None ELSE Path(file', RootFile)]
      /\ Place[f] = IF of[f] = None THEN None ELSE Path(file, of[f])
  BY <1>1, <1>3, <1>4, PlaceMoved
<1>6. Path(file', RootFile) = <<>>
  BY <1>3, <1>5, PathIs
<1>7. Walked = None
  BY <1>1, WalkedIs
<1>8. Walked' = None
  BY <1>1 DEF Walked, Idle
<1>9. Place[f] = None /\ Place' = [Place EXCEPT ![f] = <<>>]
  BY <1>1, <1>3, <1>5, <1>6
<1> QED BY <1>7, <1>8, <1>9 DEF Places!Attach

\* freefile of the File of a Fid keeps the others where they are.
LEMMA CarriedFreefid ==
  ASSUME TablesInv, NEW f \in Fids, of[f] # None
  PROVE  Carried(file, Freed(file, of[f]))
<1>1. /\ of[f] \in FileIds /\ of[f] \in LiveIn(file) /\ file[of[f]] # None
      /\ Users(of)[of[f]] > 0
  BY AtFile
<1>2. FilesOf(Users(of), file)
  BY DEF TablesInv
<1>3. Carried(file, Freed(file, of[f])) /\ LiveIn(Freed(file, of[f])) \subseteq LiveIn(file)
  BY <1>1, <1>2, CarriedFreed
<1> QED BY <1>3

\* freefid
LEMMA PlacesFreefid ==
  ASSUME TablesInv, TablesInv', NEW f \in Fids, of[f] # None, Freefid(f)
  PROVE  Place[f] # None /\ Place' = [Place EXCEPT ![f] = None]
<1>1. of' = [of EXCEPT ![f] = None] /\ file' = Freed(file, of[f])
  BY DEF Freefid
<1>2. Carried(file, file')
  BY <1>1, CarriedFreefid
<1>3. /\ Place' = [Place EXCEPT ![f] = IF None = None THEN None ELSE Path(file', None)]
      /\ Place[f] = IF of[f] = None THEN None ELSE Path(file, of[f])
  BY <1>1, <1>2, PlaceMoved
<1>4. Path(file, of[f]) # None
  <2>1. /\ of[f] \in FileIds /\ of[f] \in LiveIn(file) /\ file[of[f]] # None
        /\ Users(of)[of[f]] > 0
    BY AtFile
  <2>2. file \in [FileIds -> File \union {None}] /\ TreeOf(file)
    BY DEF TablesInv, FilesOf
  <2> QED BY <2>1, <2>2, PathType
<1> QED BY <1>3, <1>4

\* Tclunk, and a Tremove that worked.
LEMMA PlacesClunk ==
  ASSUME TablesInv, TablesInv', NEW f \in Fids, Xclunk(f) \/ Xremove(f)
  PROVE  Places!Clunk(f)
<1>1. main = Idle /\ main' = Idle /\ of[f] # None /\ Freefid(f)
  BY DEF Xclunk, Xremove, Ready
<1>2. Place[f] # None /\ Place' = [Place EXCEPT ![f] = None]
  BY <1>1, PlacesFreefid
<1>3. Walked = None
  BY <1>1, WalkedIs
<1>4. Walked' = None
  BY <1>1 DEF Walked, Idle
<1> QED BY <1>2, <1>3, <1>4 DEF Places!Clunk

\* A new Fid is kept only if the walk got all the way.
LEMMA PlacesWalkEnd ==
  ASSUME MainAt, TablesInv, TablesInv', WalkEnd
  PROVE  Places!WalkEnd
<1>1. main.at = "walk" /\ main' = Idle
  BY DEF WalkEnd
<1>2. /\ Walked # None /\ main.fid \in Fids /\ main.new \in BOOLEAN
      /\ main.left \in Seq(Names \union {DotDot})
      /\ Walked = [fid |-> main.fid, new |-> main.new, left |-> main.left]
  BY <1>1, WalkedIs
<1>3. Walked' = None
  BY <1>1 DEF Walked, Idle
<1> DEFINE f == main.fid
<1>4. of[f] # None
  BY <1>1, <1>2 DEF TablesInv, FidsInUse, Idle
<1>5. Place = [h \in Fids |-> Place[h]]
  BY DEF Place
<1>6. CASE main.new /\ main.left # <<>>
  <2>1. Freefid(f)
    BY <1>6 DEF WalkEnd
  <2>2. Place' = [Place EXCEPT ![f] = None]
    BY <1>2, <1>4, <2>1, PlacesFreefid
  <2>3. Place' = [Place EXCEPT ![Walked.fid] =
                    IF Walked.new /\ Walked.left # <<>> THEN None ELSE @]
    BY <1>2, <1>6, <2>2
  <2> QED BY <1>2, <1>3, <2>3 DEF Places!WalkEnd
<1>7. CASE ~(main.new /\ main.left # <<>>)
  <2>1. of' = of /\ file' = file
    BY <1>7 DEF WalkEnd, fidVars
  <2>2. Place' = Place
    BY <2>1 DEF Place
  <2>3. Place' = [Place EXCEPT ![Walked.fid] =
                    IF Walked.new /\ Walked.left # <<>> THEN None ELSE @]
    <3> DEFINE x == Place
               y == Place'
    <3>1. y = x /\ x = [h \in Fids |-> x[h]]
      BY <1>5, <2>2
    <3> HIDE DEF x, y
    <3>2. y = [x EXCEPT ![Walked.fid] =
                    IF Walked.new /\ Walked.left # <<>> THEN None ELSE @]
      BY <1>2, <1>7, <3>1
    <3> QED BY <3>2 DEF x, y
  <2> QED BY <1>2, <1>3, <2>3 DEF Places!WalkEnd
<1> QED BY <1>6, <1>7

\* A walk that starts moves nothing but the new Fid.
LEMMA PlacesXwalk ==
  ASSUME TablesInv, TablesInv', NEW f \in Fids, NEW n \in Fids, NEW names, Xwalk(f, n, names)
  PROVE  Places!Walk(f, n, names)
<1>1. /\ main = Idle /\ of[f] # None
      /\ main' = [at |-> "walk", fid |-> n, new |-> n # f, left |-> names]
  BY DEF Xwalk, Ready
<1>2. Walked = None
  BY <1>1, WalkedIs
<1>3. Walked' = [fid |-> n, new |-> n # f, left |-> names]
  BY <1>1 DEF Walked
<1> DEFINE a == of[f]
<1>4. /\ a \in FileIds /\ a \in LiveIn(file) /\ file[a] # None
      /\ Users(of)[a] > 0
  BY <1>1, AtFile
<1>5. file \in [FileIds -> File \union {None}] /\ TreeOf(file) /\ FilesOf(Users(of), file)
      /\ of \in [Fids -> FileIds \union {None}]
  BY DEF TablesInv, FidsInUse, FilesOf
<1>6. Path(file, a) # None
  BY <1>4, <1>5, PathType
<1>7. Place = [h \in Fids |-> Place[h]] /\ Place[f] = Path(file, a)
  BY <1>1 DEF Place
<1>8. Place' = [Place EXCEPT ![n] = Place[f]]
  <2>1. CASE n = f
    <3>1. of' = of /\ file' = file
      BY <2>1 DEF Xwalk, fidVars
    <3>2. Place' = Place
      BY <3>1 DEF Place
    <3> DEFINE x == Place
               y == Place'
    <3>3. y = x /\ x = [h \in Fids |-> x[h]]
      BY <1>7, <3>2
    <3> HIDE DEF x, y
    <3>4. y = [x EXCEPT ![n] = x[f]]
      BY <2>1, <3>3
    <3> QED BY <3>4 DEF x, y
  <2>2. CASE n # f
    <3> DEFINE fl == IF of[n] = None THEN file ELSE Freed(file, of[n])
               p == [of EXCEPT ![n] = None]
    <3>1. of' = [of EXCEPT ![n] = a] /\ file' = [fl EXCEPT ![a].ref = @ + 1]
      BY <2>2 DEF Xwalk
    <3>2. FilesOf(Users(p), fl) /\ Carried(file, fl) /\ LiveIn(fl) \subseteq LiveIn(file)
      <4>1. CASE of[n] = None
        <5>1. p = of /\ fl = file
          BY <1>5, <4>1
        <5> HIDE DEF p, fl
        <5> QED BY <1>5, <5>1, CarriedSame
      <4>2. CASE of[n] # None
        <5>1. /\ of[n] \in FileIds /\ of[n] \in LiveIn(file) /\ file[of[n]] # None
              /\ Users(of)[of[n]] > 0
          BY <4>2, AtFile
        <5>2. Users(p) = [Users(of) EXCEPT ![of[n]] = @ - 1]
          BY <1>5, <5>1, UserLeft
        <5>3. fl = Freed(file, of[n])
          BY <4>2
        <5> HIDE DEF p, fl
        <5>4. Carried(file, Freed(file, of[n])) /\ LiveIn(Freed(file, of[n])) \subseteq LiveIn(file)
          BY <1>5, <5>1, CarriedFreed
        <5>5. /\ FilesOf([Users(of) EXCEPT ![of[n]] = @ - 1], Freed(file, of[n]))
              /\ Dead(file, of[n]) \subseteq LiveIn(file)
          BY <1>5, <5>1, FreedOf
        <5> QED BY <5>2, <5>3, <5>4, <5>5
      <4> QED BY <4>1, <4>2
    <3>3. p \in [Fids -> FileIds \union {None}] /\ p[f] = a
      BY <1>5, <2>2
    <3> HIDE DEF p, fl, a
    <3>4. a \in LiveIn(fl)
      <4>1. Users(p)[a] > 0
        BY <1>4, <3>3, UsersAre
      <4> QED BY <1>4, <3>2, <4>1 DEF FilesOf
    <3>5. Carried(fl, file') /\ LiveIn(file') = LiveIn(fl)
      <4> DEFINE us == Users(p)
                 fm == [fl EXCEPT ![a].ref = @ + 1]
      <4>1. FilesOf(us, fl)
        BY <3>2
      <4> HIDE DEF us
      <4>2. /\ FilesOf([us EXCEPT ![a] = @ + 1], fm) /\ LiveIn(fm) = LiveIn(fl)
            /\ \A g \in LiveIn(fl) : fm[g].key = fl[g].key /\ fm[g].qid = fl[g].qid
            /\ Carried(fl, fm)
        BY <3>4, <4>1, Comes
      <4> QED BY <3>1, <4>2
    <3>6. Carried(file, file')
      <4>1. LiveIn(file) \intersect LiveIn(file') \subseteq LiveIn(fl)
        BY <3>5
      <4> QED BY <3>2, <3>5, <4>1, CarriedOn
    <3>7. /\ a # None => a \in LiveIn(file')
          /\ \A g \in LiveIn(file) \intersect LiveIn(file') : Path(file', g) = Path(file, g)
          /\ Place' = [Place EXCEPT ![n] = IF a = None THEN None ELSE Path(file', a)]
          /\ Place[n] = IF of[n] = None THEN None ELSE Path(file, of[n])
      BY <3>1, <3>6, PlaceMoved
    <3>8. a # None
      BY <1>4, FilesAssumption
    <3>9. Path(file', a) = Place[f]
      BY <1>4, <1>7, <3>7, <3>8
    <3> QED BY <3>7, <3>8, <3>9
  <2> QED BY <2>1, <2>2
<1>9. Place[f] # None
  BY <1>6, <1>7
<1> HIDE DEF a
<1> QED BY <1>2, <1>3, <1>8, <1>9 DEF Places!Walk

\* A walk takes a name.
LEMMA WalkedOn ==
  ASSUME MainAt, main.at = "walk", main' = [main EXCEPT !.left = Tail(@)]
  PROVE  Walked' = [Walked EXCEPT !.left = Tail(@)]
<1>1. /\ Walked # None /\ main.fid \in Fids /\ main.new \in BOOLEAN
      /\ main.left \in Seq(Names \union {DotDot})
      /\ Walked = [fid |-> main.fid, new |-> main.new, left |-> main.left]
  BY WalkedIs
<1>2. main = [at |-> "walk", fid |-> main.fid, new |-> main.new, left |-> main.left]
  <2>1. main # Idle /\ main.at # "create"
    BY DEF Idle
  <2> QED BY <2>1, Zenon DEF MainAt
<1>3. main' = [at |-> "walk", fid |-> main.fid, new |-> main.new, left |-> Tail(main.left)]
  BY <1>2
<1>4. Walked' = [fid |-> main.fid, new |-> main.new, left |-> Tail(main.left)]
  BY <1>3 DEF Walked
<1>5. Walked = [fid |-> main.fid, new |-> main.new, left |-> main.left]
  BY <1>1
<1>6. [Walked EXCEPT !.left = Tail(@)]
        = [fid |-> main.fid, new |-> main.new, left |-> Tail(main.left)]
  <2> DEFINE t == Tail(Walked.left)
             u == Tail(main.left)
  <2>1. Walked.left = main.left
    BY <1>5
  <2>2. t = u
    BY <2>1
  <2> HIDE DEF t, u
  <2>3. [Walked EXCEPT !.left = t] = [fid |-> main.fid, new |-> main.new, left |-> u]
    BY <1>5, <2>2
  <2> QED BY <2>3 DEF t, u
<1> QED BY <1>4, <1>6

\* The path of the parent is the path without its last name.
LEMMA PlacesWalkUp ==
  ASSUME MainAt, TablesInv, TablesInv', WalkUp
  PROVE  Places!WalkName
<1> DEFINE f == main.fid
           a == of[f]
           up == file[a].parent
           fl == [file EXCEPT ![up].ref = @ + 1]
           us == Users(of)
           um == [us EXCEPT ![up] = @ + 1]
<1>1. /\ main.at = "walk" /\ main.left # <<>> /\ Head(main.left) = DotDot
      /\ main' = [main EXCEPT !.left = Tail(@)]
      /\ up # None /\ of' = [of EXCEPT ![f] = up] /\ file' = Freed(fl, a)
  BY DEF WalkUp, Walking
<1>2. /\ Walked # None /\ main.fid \in Fids /\ main.new \in BOOLEAN
      /\ main.left \in Seq(Names \union {DotDot})
      /\ Walked = [fid |-> main.fid, new |-> main.new, left |-> main.left]
  BY <1>1, WalkedIs
<1>3. Walked' = [Walked EXCEPT !.left = Tail(@)]
  BY <1>1, WalkedOn
<1>4. f \in Fids /\ a # None
  <2>1. main # Idle
    BY <1>1 DEF Idle
  <2> QED BY <1>2, <2>1 DEF TablesInv, FidsInUse
<1>5. a \in FileIds /\ a \in LiveIn(file) /\ file[a] # None /\ us[a] > 0
  BY <1>4, AtFile
<1>6. /\ file \in [FileIds -> File \union {None}] /\ TreeOf(file) /\ FilesOf(us, file)
      /\ us \in [FileIds -> Nat]
  BY DEF TablesInv, FilesOf
<1>7. a # RootFile /\ up \in LiveIn(file)
  BY <1>1, <1>5, <1>6 DEF TreeOf
<1>8. Path(file, a) = Append(Path(file, up), file[a].name)
  BY <1>5, <1>6, <1>7, PathIs
<1>9. /\ Path(file, up) \in Seq(Names \union {None}) /\ file[a].name \in Names \union {None}
      /\ Path(file, a) # <<>>
  <2>1. Path(file, up) \in Seq(Names \union {None})
    BY <1>6, <1>7, PathType
  <2>2. Path(file, a) # <<>>
    BY <1>5, <1>6, <1>7, PathType
  <2>3. file[a].name \in Names \union {None}
    BY <1>5, <1>6, FieldsOf
  <2> QED BY <2>1, <2>2, <2>3
<1>10. Front(Path(file, a)) = Path(file, up)
  BY <1>8, <1>9, FrontIs
<1>11. Carried(file, file')
  <2> HIDE DEF us, a, up
  <2>1. /\ FilesOf(um, fl) /\ LiveIn(fl) = LiveIn(file)
        /\ \A g \in LiveIn(file) : fl[g].key = file[g].key /\ fl[g].qid = file[g].qid
        /\ Carried(file, fl)
    BY <1>6, <1>7, Comes
  <2>2. um[a] > 0
    BY <1>5, <1>6, <1>7 DEF LiveIn
  <2> HIDE DEF um, fl
  <2>3. Carried(fl, Freed(fl, a)) /\ LiveIn(Freed(fl, a)) \subseteq LiveIn(fl)
    BY <1>5, <2>1, <2>2, CarriedFreed
  <2> QED BY <1>1, <2>1, <2>3, CarriedOn
<1>12. /\ up # None => up \in LiveIn(file')
       /\ \A g \in LiveIn(file) \intersect LiveIn(file') : Path(file', g) = Path(file, g)
       /\ Place' = [Place EXCEPT ![f] = IF up = None THEN None ELSE Path(file', up)]
       /\ Place[f] = IF of[f] = None THEN None ELSE Path(file, of[f])
  BY <1>1, <1>4, <1>11, PlaceMoved
<1>13. Path(file', up) = Path(file, up)
  BY <1>1, <1>7, <1>12
<1>14. Place[f] = Path(file, a) /\ Place' = [Place EXCEPT ![f] = Front(Place[f])]
  BY <1>1, <1>4, <1>10, <1>12, <1>13
<1>15. Place[f] # <<>>
  BY <1>9, <1>14
<1> HIDE DEF a, up, fl, us, um
<1>16. Walked.fid = f /\ Walked.left # <<>> /\ Head(Walked.left) = DotDot
  BY <1>1, <1>2
<1> QED BY <1>2, <1>3, <1>14, <1>15, <1>16 DEF Places!WalkName, Places!Front, Front

\* file() and freefile(): the Fid comes to the name below where it was.
LEMMA PlacesMoveDown ==
  ASSUME TablesInv, TablesInv', NEW f \in Fids, of[f] # None, NEW n \in Names,
         CanName(of[f], n), MoveDown(f, n)
  PROVE  Place[f] # None /\ Place' = [Place EXCEPT ![f] = Append(@, n)]
<1> DEFINE a == of[f]
           b == Named(a, n)
           o == ObjAt(Append(Path(file, a), n))
           k == Key(o)
           fl == Found(a, n, k)
           us == Users(of)
           um == [us EXCEPT ![b] = @ + 1]
<1>1. a \in FileIds /\ a \in LiveIn(file) /\ file[a] # None /\ us[a] > 0
  BY AtFile
<1>2. /\ of \in [Fids -> FileIds \union {None}] /\ FilesOf(us, file)
      /\ QidsOf(file, qidtab) /\ newqid \in Nat
      /\ us \in [FileIds -> Nat]
      /\ file \in [FileIds -> File \union {None}] /\ TreeOf(file)
  BY DEF TablesInv, FidsInUse, FilesOf
<1>3. of' = [of EXCEPT ![f] = b] /\ file' = Freed(fl, a)
  BY DEF MoveDown
<1>4. /\ k \in Keys
      /\ qidtab[k] = None => Unused(k) # {}
      /\ Namesakes(a, n) = {} => \E g \in FileIds : file[g] = None
  BY DEF CanName, Keys
<1> HIDE DEF o, k
<1>5. /\ b \in FileIds \ {a} /\ FilesOf(um, fl)
      /\ QidsOf(fl, Uniqued(k)) /\ Newqid(k) \in Nat
      /\ fl[b].name = n /\ fl[b].parent = a
      /\ b # RootFile /\ Carried(file, fl)
  <2> HIDE DEF a
  <2>1. b \in FileIds \ {a} /\ FilesOf(um, fl) /\ QidsOf(fl, Uniqued(k)) /\ Newqid(k) \in Nat
    BY <1>1, <1>2, <1>4, FileFound
  <2>2. IsBelow(fl, b, a, n)
    BY <1>1, <1>2, <1>4, FileFound
  <2>3. b # RootFile /\ Carried(file, fl)
    BY <1>1, <1>2, <1>4, FileFound
  <2> QED BY <2>1, <2>2, <2>3 DEF IsBelow
<1>6. um[a] > 0
  BY <1>1, <1>2, <1>5
<1> HIDE DEF b, fl, um, us
<1>7. Carried(fl, file') /\ LiveIn(file') \subseteq LiveIn(fl)
  <2> HIDE DEF a
  <2>1. Carried(fl, Freed(fl, a)) /\ LiveIn(Freed(fl, a)) \subseteq LiveIn(fl)
    BY <1>1, <1>5, <1>6, CarriedFreed
  <2> QED BY <1>3, <2>1
<1>8. Carried(file, file')
  BY <1>5, <1>7, CarriedOn
<1>9. /\ b # None => b \in LiveIn(file')
      /\ \A g \in LiveIn(file) \intersect LiveIn(file') : Path(file', g) = Path(file, g)
      /\ Place' = [Place EXCEPT ![f] = IF b = None THEN None ELSE Path(file', b)]
      /\ Place[f] = IF of[f] = None THEN None ELSE Path(file, of[f])
  BY <1>3, <1>8, PlaceMoved
<1>10. b # None
  BY <1>5, FilesAssumption
<1>11. /\ b \in LiveIn(file') /\ TreeOf(file')
  <2>1. FilesOf(Users(of'), file')
    BY PlacesAre
  <2> QED BY <1>9, <1>10, <2>1 DEF FilesOf
<1>12. file'[b].name = n /\ file'[b].parent = a
  BY <1>5, <1>7, <1>11 DEF Carried
<1>13. a \in LiveIn(file')
  BY <1>5, <1>11, <1>12 DEF TreeOf
<1>14. Path(file', b) = Append(Path(file', a), n)
  BY <1>5, <1>11, <1>12, PathIs
<1>15. Path(file', a) = Path(file, a)
  BY <1>1, <1>9, <1>13
<1>16. Path(file, a) # None
  BY <1>1, <1>2, PathType
<1>17. Place[f] = Path(file, a)
  BY <1>9
<1> QED BY <1>9, <1>10, <1>14, <1>15, <1>16, <1>17

\* A walk goes down a name.
LEMMA PlacesWalkDown ==
  ASSUME MainAt, TablesInv, TablesInv', NEW n \in Names, WalkDown(n)
  PROVE  Places!WalkName
<1> DEFINE f == main.fid
<1>1. /\ main.at = "walk" /\ main.left # <<>> /\ Head(main.left) = n
      /\ main' = [main EXCEPT !.left = Tail(@)]
      /\ CanName(of[f], n) /\ MoveDown(f, n)
  BY DEF WalkDown, Walking
<1>2. /\ Walked # None /\ main.fid \in Fids /\ main.new \in BOOLEAN
      /\ main.left \in Seq(Names \union {DotDot})
      /\ Walked = [fid |-> main.fid, new |-> main.new, left |-> main.left]
  BY <1>1, WalkedIs
<1>3. Walked' = [Walked EXCEPT !.left = Tail(@)]
  BY <1>1, WalkedOn
<1>4. f \in Fids /\ of[f] # None
  <2>1. main # Idle
    BY <1>1 DEF Idle
  <2> QED BY <1>2, <2>1 DEF TablesInv, FidsInUse
<1>5. Place[f] # None /\ Place' = [Place EXCEPT ![f] = Append(@, n)]
  BY <1>1, <1>4, PlacesMoveDown
<1>6. Walked.fid = f /\ Walked.left # <<>> /\ Head(Walked.left) = n /\ n # DotDot
  BY <1>1, <1>2, FilesAssumption
<1> HIDE DEF f
<1> QED BY <1>2, <1>3, <1>5, <1>6 DEF Places!WalkName

\* The Fid comes to the file that was created.
LEMMA PlacesCreateFile ==
  ASSUME MainAt, TablesInv, TablesInv', CreateFile
  PROVE  \E f \in Fids, n \in Names : Places!Create(f, n)
<1> DEFINE f == main.fid
           n == main.name
<1>1. /\ main.at = "create" /\ main' = Idle
      /\ CanName(of[f], n) /\ MoveDown(f, n)
  BY DEF CreateFile
<1>2. f \in Fids /\ n \in Names /\ main # Idle
  <2>1. main # Idle /\ main.at # "walk"
    BY <1>1 DEF Idle
  <2> QED BY <2>1, Zenon DEF MainAt
<1>3. of[f] # None
  BY <1>2 DEF TablesInv, FidsInUse
<1>4. Place[f] # None /\ Place' = [Place EXCEPT ![f] = Append(@, n)]
  BY <1>1, <1>2, <1>3, PlacesMoveDown
<1>5. Walked = None
  BY <1>1, WalkedIs
<1>6. Walked' = None
  BY <1>1 DEF Walked, Idle
<1> HIDE DEF f, n
<1>7. Places!Create(f, n)
  BY <1>4, <1>5, <1>6 DEF Places!Create
<1> QED BY <1>2, <1>7

\* A File has another name: the Fid, and some at or below its place, see it.
LEMMA PlacesXwstat ==
  ASSUME TablesInv, TablesInv', NEW f \in Fids, NEW n \in Names, Xwstat(f, n)
  PROVE  Places!Rename(f, n)
<1> DEFINE a == of[f]
           r == [file[a] EXCEPT !.name = n]
<1>1. /\ main = Idle /\ main' = main /\ a # None /\ a # RootFile
      /\ file' = [file EXCEPT ![a].name = n] /\ of' = of
  BY DEF Xwstat, fidVars
<1>2. a \in FileIds /\ a \in LiveIn(file) /\ file[a] # None /\ Users(of)[a] > 0
  BY <1>1, AtFile
<1>3. /\ of \in [Fids -> FileIds \union {None}] /\ FilesOf(Users(of), file)
      /\ file \in [FileIds -> File \union {None}] /\ TreeOf(file)
  BY DEF TablesInv, FidsInUse, FilesOf
<1>4. file' \in [FileIds -> File \union {None}] /\ TreeOf(file')
  <2>1. FilesOf(Users(of'), file')
    BY PlacesAre
  <2> QED BY <2>1 DEF FilesOf
<1>5. \A h \in Fids : of[h] # None => of[h] \in LiveIn(file)
  BY AtFile
<1> HIDE DEF a
<1>6. file[a] \in File
  BY <1>2, <1>3, FieldsOf
<1>7. r \in File /\ r # None /\ r.parent = file[a].parent /\ r.name = n
  BY <1>6, FilesAssumption DEF File
<1>8. file' = [file EXCEPT ![a] = r]
  BY <1>1, <1>2, <1>3
<1> HIDE DEF r
<1>9. /\ LiveIn(file') = LiveIn(file) /\ file'[a].name = n
      /\ \A h \in LiveIn(file) : file'[h].parent = file[h].parent
      /\ \A h \in LiveIn(file) \ {a} : file'[h].name = file[h].name
  BY <1>2, <1>3, <1>7, <1>8 DEF LiveIn
<1>10. /\ Renamed(file, file', a, a, n)
       /\ \A h \in LiveIn(file) : Path(file', h) = Path(file, h) \/ Renamed(file, file', a, h, n)
  BY <1>1, <1>2, <1>3, <1>4, <1>9, PathRenamed
<1> DEFINE x == Place
           y == Place'
           m == Len(x[f])
           S == {h \in Fids : of[h] # None /\ Renamed(file, file', a, of[h], n)}
<1>11. /\ \A h \in Fids : x[h] = IF of[h] = None THEN None ELSE Path(file, of[h])
       /\ \A h \in Fids : y[h] = IF of[h] = None THEN None ELSE Path(file', of[h])
       /\ y = [h \in Fids |-> y[h]]
  BY <1>1 DEF Place
<1>12. Path(file, a) # None /\ Path(file, a) # <<>>
  BY <1>1, <1>2, <1>3, PathType
<1>13. \A h \in Fids : of[h] # None => Path(file, of[h]) # None
  BY <1>3, <1>5, PathType
<1> HIDE DEF x, y
<1>14. x[f] = Path(file, a)
  BY <1>1, <1>11 DEF a
<1>15. f \in S
  BY <1>1, <1>10 DEF a
<1>16. ASSUME NEW h \in S
       PROVE  h \in Fids /\ x[h] # None /\ IsPrefix(x[f], x[h]) /\ y[h] = [x[h] EXCEPT ![m] = n]
  <2>1. h \in Fids /\ of[h] # None /\ Renamed(file, file', a, of[h], n)
    OBVIOUS
  <2>2. x[h] = Path(file, of[h]) /\ y[h] = Path(file', of[h])
    BY <1>11, <2>1
  <2>3. /\ IsPrefix(Path(file, a), Path(file, of[h]))
        /\ Path(file', of[h]) = [Path(file, of[h]) EXCEPT ![Len(Path(file, a))] = n]
    BY <2>1 DEF Renamed
  <2> QED BY <1>13, <1>14, <2>1, <2>2, <2>3
<1>17. ASSUME NEW h \in Fids \ S
       PROVE  y[h] = x[h]
  BY <1>5, <1>10, <1>11
<1>18. y = [h \in Fids |-> IF h \in S THEN [x[h] EXCEPT ![m] = n] ELSE x[h]]
  <2> HIDE DEF S, m
  <2> QED BY <1>11, <1>16, <1>17
<1>19. x[f] \notin {None, <<>>}
  BY <1>12, <1>14
<1>20. S \in SUBSET {g \in Fids : x[g] # None /\ IsPrefix(x[f], x[g])}
  <2> HIDE DEF S
  <2> QED BY <1>16
<1>21. Walked = None
  BY <1>1, WalkedIs
<1>22. Walked' = None
  BY <1>1 DEF Walked, Idle
<1> HIDE DEF S
<1> QED BY <1>15, <1>18, <1>19, <1>20, <1>21, <1>22
     DEF x, y, m, Places!Rename, Places!IsPrefix, IsPrefix

\* The Qid of an open file is not part of its place.
LEMMA PlacesOpenDone ==
  ASSUME TablesInv, TablesInv', NEW s \in Slaves, OpenDone(s)
  PROVE  Place' = Place
<1> DEFINE a == of[slave[s].fid]
           u == Raw(Key(fd[sysfd[slave[s].fid]]))
           r == [file[a] EXCEPT !.qid = u]
<1>1. file' = [file EXCEPT ![a].qid = u] /\ of' = of
  BY DEF OpenDone
<1>2. file \in [FileIds -> File \union {None}]
  BY DEF TablesInv, FilesOf
<1> HIDE DEF a, u
<1>3. Carried(file, file')
  <2> SUFFICES ASSUME NEW g \in LiveIn(file)
               PROVE  file'[g].name = file[g].name /\ file'[g].parent = file[g].parent
    BY DEF Carried
  <2>1. g \in FileIds /\ file[g] \in File
    BY <1>2, FieldsOf
  <2>2. file' = [file EXCEPT ![a] = r]
    BY <1>1, <1>2
  <2>3. CASE g = a
    <3>1. r.name = file[g].name /\ r.parent = file[g].parent
      BY <2>1, <2>3 DEF File
    <3> HIDE DEF r
    <3> QED BY <1>2, <2>1, <2>2, <2>3, <3>1
  <2>4. CASE g # a
    <3> HIDE DEF r
    <3> QED BY <1>2, <2>1, <2>2, <2>4
  <2> QED BY <2>3, <2>4
<1> QED BY <1>1, <1>3, PlaceStays

\* Steps that the client does not see.
LEMMA PlacesSame ==
  ASSUME of' = of, file' = file,
         main' = main \/ (main.at # "walk" /\ main'.at # "walk")
  PROVE  UNCHANGED <<Place, Walked>>
BY DEF Place, Walked

\* Every step is one of the abstract specification, or leaves the places alone.
LEMMA NextPlaces ==
  ASSUME MainAt, TablesInv, TablesInv', [Next]_vars
  PROVE  [Places!Next]_<<Place, Walked>>
<1>1. ASSUME NEW f \in Fids, Xattach(f)
      PROVE  Places!Next
  BY <1>1, PlacesXattach DEF Places!Next
<1>2. ASSUME NEW f \in Fids, Xclunk(f) \/ Xremove(f)
      PROVE  Places!Next
  BY <1>2, PlacesClunk DEF Places!Next
<1>3. ASSUME NEW f \in Fids, NEW n \in Names, Xwstat(f, n)
      PROVE  Places!Next
  BY <1>3, PlacesXwstat DEF Places!Next
<1>4. ASSUME NEW f \in Fids, NEW n \in Fids, NEW names \in Walks, Xwalk(f, n, names)
      PROVE  Places!Next
  BY <1>4, PlacesXwalk DEF Places!Next
<1>5. CASE WalkUp
  BY <1>5, PlacesWalkUp DEF Places!Next
<1>6. CASE WalkEnd
  BY <1>6, PlacesWalkEnd DEF Places!Next
<1>7. CASE CreateFile
  BY <1>7, PlacesCreateFile DEF Places!Next
<1>8. ASSUME NEW n \in Names, WalkDown(n)
      PROVE  Places!Next
  BY <1>8, PlacesWalkDown DEF Places!Next
<1>9. ASSUME NEW s \in Slaves, OpenDone(s)
      PROVE  UNCHANGED <<Place, Walked>>
  <2>1. main' = main
    BY <1>9 DEF OpenDone
  <2>2. Place' = Place
    BY <1>9, PlacesOpenDone
  <2> QED BY <2>1, <2>2 DEF Walked
<1>10. ASSUME NEW f \in Fids, NEW n \in Names, Xcreate(f, n)
       PROVE  UNCHANGED <<Place, Walked>>
  <2>1. of' = of /\ file' = file /\ main.at # "walk" /\ main'.at # "walk"
    BY <1>10 DEF Xcreate, Ready, Idle
  <2> QED BY <2>1, PlacesSame
<1>11. CASE CreateFails
  <2>1. of' = of /\ file' = file /\ main.at # "walk" /\ main'.at # "walk"
    BY <1>11 DEF CreateFails, fidVars, Idle
  <2> QED BY <2>1, PlacesSame
<1>12. ASSUME NEW f \in Fids, CreateNot(f)
       PROVE  UNCHANGED <<Place, Walked>>
  <2>1. of' = of /\ file' = file /\ main' = main
    BY <1>12 DEF CreateNot
  <2> QED BY <2>1, PlacesSame
<1>13. ASSUME NEW f \in Fids, NEW s \in Slaves, Slaveopen(s, f) \/ Slaveread(s, f)
       PROVE  UNCHANGED <<Place, Walked>>
  <2>1. of' = of /\ file' = file /\ main' = main
    BY <1>13 DEF Slaveopen, Slaveread, fidVars
  <2> QED BY <2>1, PlacesSame
<1>14. ASSUME NEW s \in Slaves, OpenFile(s) \/ OpenFails(s) \/ ReadDone(s)
       PROVE  UNCHANGED <<Place, Walked>>
  <2>1. of' = of /\ file' = file /\ main' = main
    BY <1>14 DEF OpenFile, OpenFails, ReadDone, fidVars
  <2> QED BY <2>1, PlacesSame
<1>15. ASSUME NEW o \in Objs \ {Root},
              HostRemove(o) \/ \E up \in Objs, n \in Names : HostCreate(o, up, n)
       PROVE  UNCHANGED <<Place, Walked>>
  <2>1. of' = of /\ file' = file /\ main' = main
    BY <1>15 DEF HostRemove, HostCreate, fidVars
  <2> QED BY <2>1, PlacesSame
<1>16. CASE UNCHANGED vars
  <2>1. of' = of /\ file' = file /\ main' = main
    BY <1>16 DEF vars, fidVars
  <2> QED BY <2>1, PlacesSame
<1> QED BY <1>1, <1>2, <1>3, <1>4, <1>5, <1>6, <1>7, <1>8, <1>9, <1>10, <1>11, <1>12, <1>13,
           <1>14, <1>15, <1>16 DEF Next

\* No Fid is in use at the start.
LEMMA InitPlaces == Init => Places!Init
<1> SUFFICES ASSUME Init PROVE Places!Init
  OBVIOUS
<1>1. of = [f \in Fids |-> None] /\ main.at # "walk"
  BY DEF Init, Idle
<1>2. Place = [f \in Fids |-> None]
  BY <1>1 DEF Place
<1>3. Walked = None
  BY <1>1 DEF Walked
<1> QED BY <1>2, <1>3 DEF Places!Init

\* For the client the tables are a place for each Fid: the requests that name it
\* move it, one name at a time, a walk that fails leaves no new Fid, and a rename
\* above it is all that changes its place otherwise.
THEOREM FilesPlaces == Spec => PlacesSpec
<1>1. Init => FdsInv /\ TablesInv
  BY InitFdsInv, InitTables
<1>2. FdsInv /\ TablesInv /\ [Next]_vars => (FdsInv /\ TablesInv)'
  BY NextFdsInv, NextTables
<1>3. FdsInv /\ TablesInv /\ [Next]_vars => [Places!Next]_<<Place, Walked>>
  <2> SUFFICES ASSUME FdsInv, TablesInv, [Next]_vars PROVE [Places!Next]_<<Place, Walked>>
    OBVIOUS
  <2>1. MainAt /\ TablesInv'
    BY NextTables DEF FdsInv
  <2> QED BY <2>1, NextPlaces
<1> QED BY <1>1, <1>2, <1>3, InitPlaces, PTL DEF Spec, PlacesSpec, Places!Spec
=============================================================================
