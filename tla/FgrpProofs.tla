----------------------------- MODULE FgrpProofs -----------------------------
(***************************************************************************)
(* The references of the Chans, for any number of Procs, Chans and         *)
(* descriptors: each is counted for the descriptors that lead to it and    *)
(* the Procs that hold it; and what the Procs see is a FileTable.          *)
(***************************************************************************)
EXTENDS Fgrp, FiniteSetTheorems, WellFoundedInduction, TLAPS

\* What a change of one entry adds to a count and takes from it.
Same(x, c) == IF x = c THEN 1 ELSE 0
In(c, S) == IF c \in S THEN 1 ELSE 0

LEMMA LeastIsLeast ==
  ASSUME NEW S \in SUBSET Nat, S # {}
  PROVE  Least(S) \in S /\ \A e \in S : Least(S) <= e
<1>1. \E x \in S : \A y \in S : ~ (<<y, x>> \in OpToRel(<, Nat))
  BY NatLessThanWellFounded, WFMin
<1>2. OpToRel(<, Nat) = {ss \in Nat \X Nat : ss[1] < ss[2]}
  BY DEF OpToRel
<1>3. PICK x \in S : \A y \in S : <<y, x>> \notin {ss \in Nat \X Nat : ss[1] < ss[2]}
  BY <1>1, <1>2
<1>4. ASSUME NEW y \in S PROVE x <= y
  <2>1. <<y, x>> \in Nat \X Nat /\ <<y, x>>[1] = y /\ <<y, x>>[2] = x
    OBVIOUS
  <2>2. ~ (y < x)
    BY <1>3, <2>1
  <2> QED BY <2>1, <2>2
<1> QED BY <1>4 DEF Least

LEMMA FdsFinite == IsFiniteSet(Fds) /\ Fds \subseteq Nat
<1>1. 0 \in Int /\ MaxNfd + Delta - 1 \in Int
  BY FgrpAssumption
<1>2. IsFiniteSet(Fds)
  BY <1>1, FS_Interval DEF Fds
<1> QED BY <1>1, <1>2 DEF Fds

\* One descriptor is changed: its old Chan has one less, its new one more.
LEMMA SlotChanged ==
  ASSUME NEW f \in [Fds -> Chans \union {None}], NEW d \in Fds,
         NEW x \in Chans \union {None}, NEW c \in Chans
  PROVE  Cardinality({e \in Fds : [f EXCEPT ![d] = x][e] = c}) =
           Cardinality({e \in Fds : f[e] = c}) + Same(x, c) - Same(f[d], c)
<1> DEFINE F == {e \in Fds : f[e] = c}
           G == {e \in Fds : [f EXCEPT ![d] = x][e] = c}
           R == F \ {d}
<1>1. IsFiniteSet(F) /\ IsFiniteSet(R)
  BY FdsFinite, FS_Subset
<1>2. Cardinality(F) \in Nat /\ Cardinality(R) \in Nat
  BY <1>1, FS_CardinalityType
<1>3. Cardinality(R) = Cardinality(F) - Same(f[d], c)
  <2>1. Cardinality(R) = IF d \in F THEN Cardinality(F) - 1 ELSE Cardinality(F)
    BY <1>1, FS_RemoveElement
  <2> QED BY <2>1, <1>2 DEF Same
<1>4. Cardinality(G) = Cardinality(R) + Same(x, c)
  <2>1. CASE x = c
    <3>1. G = R \union {d} /\ d \notin R
      BY <2>1
    <3> QED BY <3>1, <1>1, <2>1, FS_AddElement DEF Same
  <2>2. CASE x # c
    <3>1. G = R
      BY <2>2
    <3> QED BY <3>1, <1>2, <2>2 DEF Same
  <2> QED BY <2>1, <2>2
<1> QED BY <1>2, <1>3, <1>4 DEF Same

\* A Proc holds other Chans.
LEMMA HoldChanged ==
  ASSUME NEW f \in [Procs -> SUBSET Chans], NEW p \in Procs,
         NEW X \in SUBSET Chans, NEW c \in Chans
  PROVE  Cardinality({q \in Procs : c \in [f EXCEPT ![p] = X][q]}) =
           Cardinality({q \in Procs : c \in f[q]}) + In(c, X) - In(c, f[p])
<1> DEFINE F == {q \in Procs : c \in f[q]}
           G == {q \in Procs : c \in [f EXCEPT ![p] = X][q]}
           R == F \ {p}
<1>1. IsFiniteSet(F) /\ IsFiniteSet(R)
  BY FgrpAssumption, FS_Subset
<1>2. Cardinality(F) \in Nat /\ Cardinality(R) \in Nat
  BY <1>1, FS_CardinalityType
<1>3. Cardinality(R) = Cardinality(F) - In(c, f[p])
  <2>1. Cardinality(R) = IF p \in F THEN Cardinality(F) - 1 ELSE Cardinality(F)
    BY <1>1, FS_RemoveElement
  <2> QED BY <2>1, <1>2 DEF In
<1>4. Cardinality(G) = Cardinality(R) + In(c, X)
  <2>1. CASE c \in X
    <3>1. G = R \union {p} /\ p \notin R
      BY <2>1
    <3> QED BY <3>1, <1>1, <2>1, FS_AddElement DEF In
  <2>2. CASE c \notin X
    <3>1. G = R /\ In(c, X) = 0
      BY <2>2 DEF In
    <3>2. Cardinality(G) = Cardinality(R)
      BY <3>1
    <3> QED BY <3>1, <3>2, <1>2
  <2> QED BY <2>1, <2>2
<1> QED BY <1>2, <1>3, <1>4 DEF In

\* The counts of one Chan.
Slots(c) == Cardinality(SlotsOf(c))
Holders(c) == Cardinality(HoldersOf(c))

LEMMA CountsAreNat ==
  ASSUME NEW c \in Chans
  PROVE  /\ Slots(c) \in Nat /\ Holders(c) \in Nat
         /\ \A d \in Fds : fd[d] = c => Slots(c) > 0
         /\ \A p \in Procs : c \in hold[p] => Holders(c) > 0
<1>1. IsFiniteSet(SlotsOf(c)) /\ IsFiniteSet(HoldersOf(c))
  BY FgrpAssumption, FdsFinite, FS_Subset DEF SlotsOf, HoldersOf
<1>2. Slots(c) \in Nat /\ Holders(c) \in Nat
  BY <1>1, FS_CardinalityType DEF Slots, Holders
<1>3. /\ Slots(c) = 0 => SlotsOf(c) = {}
      /\ Holders(c) = 0 => HoldersOf(c) = {}
  BY <1>1, FS_EmptySet DEF Slots, Holders
<1> QED BY <1>2, <1>3 DEF SlotsOf, HoldersOf

LEMMA SlotsChange ==
  ASSUME Types, NEW d \in Fds, NEW x \in Chans \union {None},
         fd' = [fd EXCEPT ![d] = x], NEW c \in Chans
  PROVE  Slots(c)' = Slots(c) + Same(x, c) - Same(fd[d], c)
<1>1. fd \in [Fds -> Chans \union {None}]
  BY DEF Types
<1>2. Cardinality({e \in Fds : [fd EXCEPT ![d] = x][e] = c}) =
        Cardinality({e \in Fds : fd[e] = c}) + Same(x, c) - Same(fd[d], c)
  BY <1>1, SlotChanged
<1> QED BY <1>2 DEF Slots, SlotsOf

LEMMA HoldersChange ==
  ASSUME Types, NEW p \in Procs, NEW X \in SUBSET Chans,
         hold' = [hold EXCEPT ![p] = X], NEW c \in Chans
  PROVE  Holders(c)' = Holders(c) + In(c, X) - In(c, hold[p])
<1>1. hold \in [Procs -> SUBSET Chans]
  BY DEF Types
<1>2. Cardinality({q \in Procs : c \in [hold EXCEPT ![p] = X][q]}) =
        Cardinality({q \in Procs : c \in hold[q]}) + In(c, X) - In(c, hold[p])
  BY <1>1, HoldChanged
<1> QED BY <1>2 DEF Holders, HoldersOf

LEMMA SlotsStay ==
  ASSUME UNCHANGED fd, NEW c \in Chans
  PROVE  Slots(c)' = Slots(c)
BY DEF Slots, SlotsOf

LEMMA HoldersStay ==
  ASSUME UNCHANGED hold, NEW c \in Chans
  PROVE  Holders(c)' = Holders(c)
BY DEF Holders, HoldersOf

\* The parts of ChansCounted.
Counted == \A c \in Chans : ref[c] = Slots(c) + Holders(c)
Known ==
  /\ \A c \in Chans :
       /\ ref[c] > 0 => file[c] # None
       /\ ref[c] = 0 /\ file[c] # None => \E p \in Procs : closing[p] = c
  /\ \A p, q \in Procs : closing[p] # None =>
       /\ ref[closing[p]] = 0 /\ file[closing[p]] # None
       /\ closing[p] = closing[q] => p = q
Bounded == \A d \in Fds : fd[d] # None => d <= maxfd /\ d < nfd

LEMMA Parts == ChansCounted <=> Counted /\ Known /\ Bounded
BY DEF ChansCounted, Counted, Known, Bounded, Slots, Holders

\* What a Proc holds, or a descriptor leads to, is in use.
LEMMA InUse ==
  ASSUME Types, Counted, NEW c \in Chans
  PROVE  /\ \A d \in Fds : fd[d] = c => ref[c] > 0
         /\ \A p \in Procs : c \in hold[p] => ref[c] > 0
BY CountsAreNat DEF Types, Counted

Spots == {"none", "run", "newfd", "newfd2", "io", "dup", "closefd",
          "cclose", "devclose", "closefgrp"}

\* What goes with a place.
Fits(place, h, x, a) ==
  /\ place \in {"run", "none", "closefd", "closefgrp"} => h = {}
  /\ place \in {"newfd", "dup"} => \E c \in Chans : h = {c}
  /\ place = "newfd2" => \E c, b \in Chans : c # b /\ h = {c, b}
  /\ place = "closefd" => a \in Fds
  /\ place = "devclose" <=> x # None

\* One Proc moves, and what it holds fits the place it comes to.
LEMMA PlacesMove ==
  ASSUME Places, NEW p \in Procs,
         Fits(at'[p], hold'[p], closing'[p], arg'[p]),
         \A q \in Procs \ {p} : /\ at'[q] = at[q] /\ hold'[q] = hold[q]
                               /\ closing'[q] = closing[q] /\ arg'[q] = arg[q]
  PROVE  Places'
BY DEF Places, Fits

LEMMA InitIInv == Init => IInv
<1> SUFFICES ASSUME Init PROVE IInv
  OBVIOUS
<1>1. Types
  <2>1. nfd \in Nat /\ nfd <= MaxNfd + Delta /\ maxfd \in Fds
    BY FgrpAssumption DEF Init, Fds
  <2>2. at \in [Procs -> Spots]
    BY DEF Init, Spots
  <2>3. /\ fd \in [Fds -> Chans \union {None}]
        /\ ref \in [Chans -> Nat]
        /\ file \in [Chans -> Files \union {None}]
        /\ hold \in [Procs -> SUBSET Chans]
        /\ closing \in [Procs -> Chans \union {None}]
        /\ arg \in [Procs -> Fds \union {None}]
    BY DEF Init
  <2> QED BY <2>1, <2>2, <2>3 DEF Types, Spots
<1>2. Places
  BY DEF Init, Places
<1>3. Counted
  <2>1. SUFFICES ASSUME NEW c \in Chans PROVE ref[c] = Slots(c) + Holders(c)
    BY DEF Counted
  <2>2. SlotsOf(c) = {} /\ HoldersOf(c) = {}
    BY FgrpAssumption DEF Init, SlotsOf, HoldersOf
  <2>3. Slots(c) = 0 /\ Holders(c) = 0
    BY <2>2, FS_EmptySet DEF Slots, Holders
  <2> QED BY <2>3 DEF Init
<1>4. Known /\ Bounded
  BY DEF Init, Known, Bounded
<1> QED BY <1>1, <1>2, <1>3, <1>4, Parts DEF IInv

LEMMA InvNext ==
  ASSUME Types', Places', Counted', Known', Bounded'
  PROVE  IInv'
BY DEF IInv, ChansCounted, Counted, Known, Bounded, Slots, Holders

LEMMA InvParts == IInv => Types /\ Places /\ Counted /\ Known /\ Bounded
BY Parts DEF IInv

-----------------------------------------------------------------------------
\* What the helpers of the table return.
LEMMA Growth ==
  ASSUME Types, NEW d \in Nat, CanGrow(d)
  PROVE  /\ d \in Fds
         /\ Grown(d) \in Nat /\ Grown(d) <= MaxNfd + Delta
         /\ d < Grown(d) /\ nfd <= Grown(d)
BY FgrpAssumption DEF Types, CanGrow, Grown, Fds

LEMMA LargerIsFd ==
  ASSUME Types, NEW d \in Fds
  PROVE  Larger(maxfd, d) \in Fds /\ Larger(maxfd, d) >= d /\ Larger(maxfd, d) >= maxfd
BY FdsFinite DEF Types, Larger

LEMMA FreeFdIsFree ==
  ASSUME Types, Bounded, NEW start \in Nat
  PROVE  /\ FreeFd(start) \in Nat /\ FreeFd(start) >= start
         /\ FreeFd(start) \in Fds => fd[FreeFd(start)] = None
<1> DEFINE free == {d \in start .. nfd - 1 : fd[d] = None}
<1>1. free \in SUBSET Nat /\ nfd \in Nat
  BY DEF Types
<1>2. CASE free = {}
  BY <1>1, <1>2 DEF FreeFd, Larger, Bounded
<1>3. CASE free # {}
  <2>1. FreeFd(start) = Least(free)
    BY <1>3 DEF FreeFd
  <2>2. Least(free) \in free
    BY <1>1, <1>3, LeastIsLeast
  <2> QED BY <1>1, <2>1, <2>2
<1> QED BY <1>2, <1>3

LEMMA LoweredBounds ==
  ASSUME Types, Bounded, NEW d \in Fds
  PROVE  /\ Lowered(d) \in Fds
         /\ \A e \in Fds \ {d} : fd[e] # None => e <= Lowered(d)
<1>0. d \in Nat /\ Fds \subseteq Nat /\ maxfd \in Fds
  BY FdsFinite DEF Types
<1>1. CASE d # maxfd
  BY <1>0, <1>1 DEF Lowered, Bounded
<1>2. CASE d = maxfd
  <2> DEFINE S == {m \in 0 .. d : \A e \in m .. d - 1 : fd[e] = None}
  <2>1. S \in SUBSET Nat /\ d \in S
    BY <1>0
  <2>2. Lowered(d) = Least(S)
    BY <1>2 DEF Lowered
  <2>3. Lowered(d) \in S
    BY <2>1, <2>2, LeastIsLeast
  <2>4. Lowered(d) \in Nat /\ Lowered(d) <= d
    BY <1>0, <2>3
  <2>5. Lowered(d) \in Fds
    BY <1>0, <2>4, FgrpAssumption DEF Fds
  <2>6. ASSUME NEW e \in Fds \ {d}, fd[e] # None PROVE e <= Lowered(d)
    <3>1. e \in Nat /\ e < d
      BY <1>0, <1>2, <2>6 DEF Bounded
    <3>2. e \notin Lowered(d) .. d - 1
      BY <2>3, <2>6
    <3> QED BY <1>0, <2>4, <3>1, <3>2
  <2> QED BY <2>5, <2>6
<1> QED BY <1>1, <1>2

-----------------------------------------------------------------------------
\* A Proc that opens holds Chans that nobody had.
LEMMA OpenInv ==
  ASSUME IInv, NEW p \in Procs, NEW cs \in SUBSET Chans, cs # {},
         NEW place \in {"newfd", "newfd2"}, Fits(place, cs, None, arg[p]),
         at[p] = "run", Newchans(p, cs), Goto(p, place),
         file' \in [Chans -> Files \union {None}],
         \A c \in cs : file'[c] # None,
         \A c \in Chans \ cs : file'[c] = file[c],
         UNCHANGED <<table, fgref, closing, arg>>
  PROVE  IInv'
<1>1. Types /\ Places /\ Counted /\ Known /\ Bounded
  BY InvParts
<1>2. \A c \in cs : ref[c] = 0
  BY <1>1 DEF Known, Types, Newchans
<1>3. hold[p] = {} /\ closing[p] = None
  BY <1>1 DEF Places, Types
<1>4. Types'
  BY <1>1 DEF Types, Newchans, Goto, table
<1>5. Places'
  BY <1>1, <1>3, PlacesMove DEF Types, Newchans, Goto, Fits
<1>6. Counted'
  <2>1. SUFFICES ASSUME NEW c \in Chans PROVE ref'[c] = Slots(c)' + Holders(c)'
    BY DEF Counted
  <2>2. Slots(c)' = Slots(c)
    BY SlotsStay DEF table
  <2>3. Holders(c)' = Holders(c) + In(c, cs) - In(c, hold[p])
    BY <1>1, HoldersChange DEF Newchans
  <2>4. Slots(c) \in Nat /\ Holders(c) \in Nat /\ ref[c] = Slots(c) + Holders(c)
    BY <1>1, CountsAreNat DEF Counted
  <2>5. ref'[c] = IF c \in cs THEN 1 ELSE ref[c]
    BY DEF Newchans
  <2> QED BY <1>2, <1>3, <2>2, <2>3, <2>4, <2>5 DEF In
<1>7. Known'
  BY <1>1, <1>2 DEF Known, Newchans, Types
<1>8. Bounded'
  BY <1>1 DEF Bounded, table
<1> QED BY <1>4, <1>5, <1>6, <1>7, <1>8, InvNext

LEMMA SysopenInv == ASSUME IInv, NEW p \in Procs, Sysopen(p) PROVE IInv'
<1>1. PICK c \in Chans, f \in Files \ Opened :
        Newchans(p, {c}) /\ file' = [file EXCEPT ![c] = f]
  BY DEF Sysopen
<1>2. f # None /\ Types
  BY FgrpAssumption, InvParts
<1>3. Fits("newfd", {c}, None, arg[p])
  BY DEF Fits
<1> QED BY <1>1, <1>2, <1>3, OpenInv DEF Sysopen, Types

LEMMA SyspipeInv == ASSUME IInv, NEW p \in Procs, Syspipe(p) PROVE IInv'
<1>1. PICK c \in Chans, d \in Chans, f \in Files \ Opened, g \in Files \ Opened :
        /\ c # d /\ Newchans(p, {c, d})
        /\ file' = [file EXCEPT ![c] = f, ![d] = g]
  BY DEF Syspipe
<1>2. f # None /\ g # None /\ Types
  BY FgrpAssumption, InvParts
<1>3. Fits("newfd2", {c, d}, None, arg[p])
  BY <1>1 DEF Fits
<1>4. /\ file' \in [Chans -> Files \union {None}]
      /\ \A b \in {c, d} : file'[b] # None
      /\ \A b \in Chans \ {c, d} : file'[b] = file[b]
  BY <1>1, <1>2 DEF Types
<1>5. {c, d} \in SUBSET Chans /\ {c, d} # {}
  OBVIOUS
<1>6. at[p] = "run" /\ Goto(p, "newfd2") /\ UNCHANGED <<table, fgref, closing, arg>>
  BY DEF Syspipe
<1> QED BY <1>1, <1>3, <1>4, <1>5, <1>6, OpenInv
-----------------------------------------------------------------------------
\* A Proc that finds no descriptor only moves on to cclose.
LEMMA FullInv ==
  ASSUME IInv, NEW p \in Procs, at[p] \in {"newfd", "newfd2", "dup", "io"},
         Goto(p, "cclose"),
         UNCHANGED <<table, hold, fgref, ref, file, closing, arg>>
  PROVE  IInv'
<1>1. Types /\ Places /\ Counted /\ Known /\ Bounded
  BY InvParts
<1>2. Types' /\ Bounded'
  BY <1>1 DEF Types, Bounded, Goto, table
<1>3. closing[p] = None
  BY <1>1 DEF Places
<1>4. Places'
  BY <1>1, <1>3, PlacesMove DEF Types, Goto, Fits
<1>5. Counted'
  BY <1>1, SlotsStay, HoldersStay DEF Counted, table
<1>6. Known'
  BY <1>1 DEF Known
<1> QED BY <1>2, <1>4, <1>5, <1>6, InvNext

LEMMA IoInv == ASSUME IInv, NEW p \in Procs, Io(p) PROVE IInv'
BY FullInv DEF Io, table

\* One descriptor is given the Chan x, a Proc holds the Chans h: no reference
\* is gained or lost when what goes into the one comes out of the other.
Trade(p, d, x, h, place) ==
  /\ x \in Chans \union {None} /\ h \in SUBSET Chans
  /\ place \in {"run", "cclose"} /\ (place = "run" => h = {})
  /\ at[p] # "devclose" /\ Goto(p, place)
  /\ fd' = [fd EXCEPT ![d] = x] /\ hold' = [hold EXCEPT ![p] = h]
  /\ \A c \in Chans : Same(x, c) + In(c, h) = Same(fd[d], c) + In(c, hold[p])
  /\ nfd' \in Nat /\ nfd' <= MaxNfd + Delta /\ maxfd' \in Fds /\ Bounded'
  /\ arg' \in [Procs -> Fds \union {None}]
  /\ \A q \in Procs \ {p} : arg'[q] = arg[q]
  /\ UNCHANGED <<fgref, ref, file, closing>>

LEMMA TradeInv ==
  ASSUME IInv, NEW p \in Procs, NEW d \in Fds, NEW x, NEW h, NEW place,
         Trade(p, d, x, h, place)
  PROVE  IInv'
<1> USE DEF Trade
<1>1. Types /\ Places /\ Counted /\ Known
  BY InvParts
<1>2. Types'
  <2>1. /\ fd' \in [Fds -> Chans \union {None}]
        /\ hold' \in [Procs -> SUBSET Chans]
    BY <1>1 DEF Types
  <2>2. at' \in [Procs -> Spots]
    BY <1>1 DEF Types, Goto, Spots
  <2>3. /\ ref' \in [Chans -> Nat]
        /\ file' \in [Chans -> Files \union {None}]
        /\ closing' \in [Procs -> Chans \union {None}]
    BY <1>1 DEF Types
  <2> QED BY <2>1, <2>2, <2>3 DEF Types, Spots
<1>3. closing[p] = None
  BY <1>1 DEF Places
<1>4. Places'
  BY <1>1, <1>3, PlacesMove DEF Types, Goto, Fits
<1>5. Counted'
  <2>1. SUFFICES ASSUME NEW c \in Chans PROVE ref'[c] = Slots(c)' + Holders(c)'
    BY DEF Counted
  <2>2. Slots(c)' = Slots(c) + Same(x, c) - Same(fd[d], c)
    BY <1>1, SlotsChange
  <2>3. Holders(c)' = Holders(c) + In(c, h) - In(c, hold[p])
    BY <1>1, HoldersChange
  <2>4. Slots(c) \in Nat /\ Holders(c) \in Nat /\ ref[c] = Slots(c) + Holders(c)
    BY <1>1, CountsAreNat DEF Counted
  <2>5. /\ Same(x, c) \in Nat /\ Same(fd[d], c) \in Nat
        /\ In(c, h) \in Nat /\ In(c, hold[p]) \in Nat
    BY DEF Same, In
  <2>6. Same(x, c) + In(c, h) = Same(fd[d], c) + In(c, hold[p])
    OBVIOUS
  <2> QED BY <2>2, <2>3, <2>4, <2>5, <2>6
<1>6. Known'
  BY <1>1 DEF Known
<1> QED BY <1>2, <1>4, <1>5, <1>6, InvNext

LEMMA NewfdInv == ASSUME IInv, NEW p \in Procs, Newfd(p) PROVE IInv'
<1> DEFINE d == FreeFd(0)
<1>0. Types /\ Places /\ Bounded
  BY InvParts
<1>1. CASE ~ CanGrow(d)
  BY <1>1, FullInv DEF Newfd
<1>2. CASE CanGrow(d)
  <2>1. PICK c \in hold[p] :
          /\ fd' = [fd EXCEPT ![d] = c]
          /\ nfd' = Grown(d) /\ maxfd' = Larger(maxfd, d)
          /\ hold' = [hold EXCEPT ![p] = {}] /\ Goto(p, "run")
          /\ UNCHANGED <<fgref, ref, file, closing, arg>>
    BY <1>2 DEF Newfd
  <2>2. hold[p] = {c} /\ c \in Chans /\ at[p] = "newfd"
    BY <1>0, <2>1 DEF Newfd, Places, Types
  <2>3. d \in Nat /\ (d \in Fds => fd[d] = None)
    BY <1>0, FreeFdIsFree
  <2>4. /\ d \in Fds /\ d < Grown(d) /\ nfd <= Grown(d)
        /\ Grown(d) \in Nat /\ Grown(d) <= MaxNfd + Delta
    BY <1>0, <1>2, <2>3, Growth
  <2>5. maxfd' \in Fds /\ maxfd' >= d /\ maxfd' >= maxfd
    BY <1>0, <2>1, <2>4, LargerIsFd
  <2>6. Bounded'
    BY <1>0, <2>1, <2>4, <2>5, FdsFinite DEF Bounded, Types
  <2>7. \A b \in Chans : Same(c, b) + In(b, {}) = Same(fd[d], b) + In(b, hold[p])
    BY <2>2, <2>3, <2>4, FgrpAssumption DEF Same, In
  <2>8. arg' \in [Procs -> Fds \union {None}] /\ \A q \in Procs \ {p} : arg'[q] = arg[q]
    BY <1>0, <2>1 DEF Types
  <2>9. Trade(p, d, c, {}, "run")
    BY <2>1, <2>2, <2>4, <2>5, <2>6, <2>7, <2>8 DEF Trade
  <2> QED BY <2>4, <2>9, TradeInv
<1> QED BY <1>1, <1>2

LEMMA DupToInv == ASSUME IInv, NEW p \in Procs, DupTo(p) PROVE IInv'
<1>0. Types /\ Places /\ Bounded
  BY InvParts
<1>1. CASE UNCHANGED <<table, hold>>
  BY <1>1, FullInv DEF DupTo
<1>2. CASE \E d \in Fds, c \in hold[p] :
             /\ CanGrow(d)
             /\ fd' = [fd EXCEPT ![d] = c]
             /\ nfd' = Grown(d) /\ maxfd' = Larger(maxfd, d)
             /\ hold' = [hold EXCEPT ![p] = IF fd[d] = None THEN {} ELSE {fd[d]}]
  <2>1. PICK d \in Fds, c \in hold[p] :
             /\ CanGrow(d)
             /\ fd' = [fd EXCEPT ![d] = c]
             /\ nfd' = Grown(d) /\ maxfd' = Larger(maxfd, d)
             /\ hold' = [hold EXCEPT ![p] = IF fd[d] = None THEN {} ELSE {fd[d]}]
    BY <1>2
  <2> DEFINE h == IF fd[d] = None THEN {} ELSE {fd[d]}
  <2>2. /\ at[p] = "dup" /\ Goto(p, "cclose")
        /\ UNCHANGED <<fgref, ref, file, closing, arg>>
    BY DEF DupTo
  <2>3. hold[p] = {c} /\ c \in Chans /\ h \in SUBSET Chans
    BY <1>0, <2>1, <2>2 DEF Places, Types
  <2>4. /\ d < Grown(d) /\ nfd <= Grown(d)
        /\ Grown(d) \in Nat /\ Grown(d) <= MaxNfd + Delta
    BY <1>0, <2>1, Growth, FdsFinite
  <2>5. maxfd' \in Fds /\ maxfd' >= d /\ maxfd' >= maxfd
    BY <1>0, <2>1, <2>4, LargerIsFd
  <2>6. Bounded'
    BY <1>0, <2>1, <2>4, <2>5, FdsFinite DEF Bounded, Types
  <2>7. \A b \in Chans : Same(c, b) + In(b, h) = Same(fd[d], b) + In(b, hold[p])
    BY <1>0, <2>3, FgrpAssumption DEF Same, In, Types
  <2>8. arg' \in [Procs -> Fds \union {None}] /\ \A q \in Procs \ {p} : arg'[q] = arg[q]
    BY <1>0, <2>2 DEF Types
  <2>9. Trade(p, d, c, h, "cclose")
    BY <2>1, <2>2, <2>3, <2>4, <2>5, <2>6, <2>7, <2>8 DEF Trade
  <2> QED BY <2>9, TradeInv
<1> QED BY <1>1, <1>2 DEF DupTo
LEMMA ClosefdInv == ASSUME IInv, NEW p \in Procs, Closefd(p) PROVE IInv'
<1> DEFINE d == arg[p]
<1>0. /\ Types /\ Places /\ Counted /\ Known /\ Bounded
      /\ at[p] = "closefd"
  BY InvParts DEF Closefd
<1>1. d \in Fds /\ hold[p] = {} /\ closing[p] = None
  BY <1>0 DEF Places
<1>2. arg' \in [Procs -> Fds \union {None}] /\ \A q \in Procs \ {p} : arg'[q] = arg[q]
  BY <1>0 DEF Closefd, Types
<1>3. CASE fd[d] = None
  <2>1. Goto(p, "run") /\ UNCHANGED <<table, hold, fgref, ref, file, closing>>
    BY <1>3 DEF Closefd
  <2>2. Types'
    BY <1>0, <1>2, <2>1 DEF Types, Goto, table
  <2>3. Places'
    BY <1>0, <1>1, <1>2, <2>1, PlacesMove DEF Types, Goto, Fits
  <2>4. Counted' /\ Known' /\ Bounded'
    BY <1>0, <2>1, SlotsStay, HoldersStay DEF Counted, Known, Bounded, table
  <2> QED BY <2>2, <2>3, <2>4, InvNext
<1>4. CASE fd[d] # None
  <2>1. /\ fd' = [fd EXCEPT ![d] = None] /\ maxfd' = Lowered(d)
        /\ hold' = [hold EXCEPT ![p] = {fd[d]}] /\ Goto(p, "cclose")
        /\ UNCHANGED <<nfd, fgref, ref, file, closing>>
    BY <1>4 DEF Closefd
  <2>2. fd[d] \in Chans
    BY <1>0, <1>1, <1>4 DEF Types
  <2>3. Lowered(d) \in Fds /\ \A e \in Fds \ {d} : fd[e] # None => e <= Lowered(d)
    BY <1>0, <1>1, LoweredBounds
  <2>4. Bounded'
    BY <1>0, <1>1, <2>1, <2>3 DEF Bounded, Types
  <2>5. \A c \in Chans : Same(None, c) + In(c, {fd[d]}) = Same(fd[d], c) + In(c, hold[p])
    BY <1>1, FgrpAssumption DEF Same, In
  <2>6. Trade(p, d, None, {fd[d]}, "cclose")
    BY <1>0, <1>2, <2>1, <2>2, <2>3, <2>4, <2>5 DEF Trade, Types
  <2> QED BY <1>1, <2>6, TradeInv
<1> QED BY <1>3, <1>4

LEMMA ClosefgrpInv == ASSUME IInv, NEW p \in Procs, Closefgrp(p) PROVE IInv'
<1> DEFINE used == {d \in 0 .. maxfd : fd[d] # None}
           d == Least(used)
<1>0. /\ Types /\ Places /\ Counted /\ Known /\ Bounded
      /\ at[p] = "closefgrp"
  BY InvParts DEF Closefgrp
<1>1. hold[p] = {} /\ closing[p] = None
  BY <1>0 DEF Places
<1>2. CASE used = {}
  <2>1. Goto(p, "none") /\ UNCHANGED <<fd, nfd, maxfd, hold, fgref, ref, file, closing, arg>>
    BY <1>2 DEF Closefgrp
  <2>2. Types'
    BY <1>0, <2>1 DEF Types, Goto
  <2>3. Places'
    BY <1>0, <1>1, <2>1, PlacesMove DEF Types, Goto, Fits
  <2>4. Counted' /\ Known' /\ Bounded'
    BY <1>0, <2>1, SlotsStay, HoldersStay DEF Counted, Known, Bounded
  <2> QED BY <2>2, <2>3, <2>4, InvNext
<1>3. CASE used # {}
  <2>1. /\ fd' = [fd EXCEPT ![d] = None]
        /\ hold' = [hold EXCEPT ![p] = {fd[d]}] /\ Goto(p, "cclose")
        /\ UNCHANGED <<nfd, maxfd, fgref, ref, file, closing, arg>>
    BY <1>3 DEF Closefgrp
  <2>2. used \in SUBSET Nat /\ maxfd \in Fds
    BY <1>0 DEF Types
  <2>3. d \in used
    BY <1>3, <2>2, LeastIsLeast
  <2> HIDE DEF d
  <2>4. d \in Fds
    BY <2>2, <2>3, FgrpAssumption DEF Fds
  <2>5. fd[d] \in Chans
    BY <1>0, <2>3, <2>4 DEF Types
  <2>6. Bounded'
    BY <1>0, <2>1, <2>4 DEF Bounded, Types
  <2>7. \A c \in Chans : Same(None, c) + In(c, {fd[d]}) = Same(fd[d], c) + In(c, hold[p])
    BY <1>1, FgrpAssumption DEF Same, In
  <2>8. Trade(p, d, None, {fd[d]}, "cclose")
    BY <1>0, <2>1, <2>2, <2>5, <2>6, <2>7 DEF Trade, Types
  <2> QED BY <2>4, <2>8, TradeInv
<1> QED BY <1>2, <1>3

\* Both ends of a pipe: two descriptors at once.
LEMMA Newfd2Inv == ASSUME IInv, NEW p \in Procs, Newfd2(p) PROVE IInv'
<1> DEFINE d == FreeFd(0)
           e == FreeFd(d + 1)
<1>0. /\ Types /\ Places /\ Counted /\ Known /\ Bounded
      /\ at[p] = "newfd2"
  BY InvParts DEF Newfd2
<1>1. CASE ~ (CanGrow(d) /\ CanGrow(e))
  BY <1>1, FullInv DEF Newfd2
<1>2. CASE CanGrow(d) /\ CanGrow(e)
  <2>1. PICK c \in hold[p], b \in hold[p] :
          /\ c # b /\ fd' = [fd EXCEPT ![d] = c, ![e] = b]
          /\ nfd' = Grown(e) /\ maxfd' = Larger(maxfd, e)
          /\ hold' = [hold EXCEPT ![p] = {}] /\ Goto(p, "run")
          /\ UNCHANGED <<fgref, ref, file, closing, arg>>
    BY <1>2 DEF Newfd2
  <2>2. hold[p] = {c, b} /\ c \in Chans /\ b \in Chans /\ closing[p] = None
    BY <1>0, <2>1 DEF Places, Types
  <2>3. d \in Nat /\ (d \in Fds => fd[d] = None)
    BY <1>0, FreeFdIsFree
  <2>4. e \in Nat /\ e >= d + 1 /\ (e \in Fds => fd[e] = None)
    BY <1>0, <2>3, FreeFdIsFree
  <2> HIDE DEF d, e
  <2>5. d \in Fds /\ e \in Fds
    BY <1>0, <1>2, <2>3, <2>4, Growth
  <2>6. /\ e < Grown(e) /\ nfd <= Grown(e)
        /\ Grown(e) \in Nat /\ Grown(e) <= MaxNfd + Delta
    BY <1>0, <1>2, <2>4, Growth
  <2>7. maxfd' \in Fds /\ maxfd' >= e /\ maxfd' >= maxfd
    BY <1>0, <2>1, <2>5, LargerIsFd
  <2>8. Types'
    <3>1. at' \in [Procs -> Spots]
      BY <1>0, <2>1 DEF Types, Goto, Spots
    <3>2. /\ fd' \in [Fds -> Chans \union {None}]
          /\ hold' \in [Procs -> SUBSET Chans]
      BY <1>0, <2>1, <2>2 DEF Types
    <3> QED BY <1>0, <2>1, <2>6, <2>7, <3>1, <3>2 DEF Types, Spots
  <2>9. Places'
    BY <1>0, <2>1, <2>2, PlacesMove DEF Types, Goto, Fits
  <2>10. Counted'
    <3>1. SUFFICES ASSUME NEW x \in Chans PROVE ref'[x] = Slots(x)' + Holders(x)'
      BY DEF Counted
    <3> DEFINE f == [fd EXCEPT ![d] = c]
               Count(g) == Cardinality({n \in Fds : g[n] = x})
    <3>2. /\ fd \in [Fds -> Chans \union {None}] /\ f \in [Fds -> Chans \union {None}]
          /\ fd' = [f EXCEPT ![e] = b] /\ f[e] = None /\ fd[d] = None
      BY <1>0, <2>1, <2>2, <2>3, <2>4, <2>5 DEF Types
    <3>3. Count(f) = Count(fd) + Same(c, x) - Same(fd[d], x)
      BY <2>2, <2>5, <3>2, SlotChanged
    <3> HIDE DEF f
    <3>4. Cardinality({n \in Fds : [f EXCEPT ![e] = b][n] = x}) =
            Count(f) + Same(b, x) - Same(f[e], x)
      BY <2>2, <2>5, <3>2, SlotChanged
    <3>5. Slots(x)' = Count(f) + Same(b, x) - Same(f[e], x)
      BY <3>2, <3>4 DEF Slots, SlotsOf
    <3>6. Slots(x) = Count(fd)
      BY DEF Slots, SlotsOf
    <3>7. Holders(x)' = Holders(x) + In(x, {}) - In(x, hold[p])
      BY <1>0, <2>1, HoldersChange
    <3>8. Slots(x) \in Nat /\ Holders(x) \in Nat /\ ref[x] = Slots(x) + Holders(x)
      BY <1>0, CountsAreNat DEF Counted
    <3>9. /\ Same(None, x) = 0 /\ In(x, {}) = 0
          /\ Same(c, x) \in Nat /\ Same(b, x) \in Nat
          /\ Same(c, x) + Same(b, x) = In(x, hold[p])
      BY <2>1, <2>2, FgrpAssumption DEF Same, In
    <3> HIDE DEF Count
    <3>10. Slots(x)' = Slots(x) + Same(c, x) + Same(b, x)
      BY <3>2, <3>3, <3>5, <3>6, <3>8, <3>9
    <3> QED BY <2>1, <3>7, <3>8, <3>9, <3>10
  <2>11. Known'
    BY <1>0, <2>1 DEF Known
  <2>12. Bounded'
    BY <1>0, <2>1, <2>3, <2>4, <2>6, <2>7, FdsFinite DEF Bounded, Types
  <2> QED BY <2>8, <2>9, <2>10, <2>11, <2>12, InvNext
<1> QED BY <1>1, <1>2
-----------------------------------------------------------------------------
LEMMA FdtochanInv ==
  ASSUME IInv, NEW p \in Procs, NEW place \in {"io", "newfd", "dup", "cclose"},
         Fdtochan(p, place)
  PROVE  IInv'
<1>0. /\ Types /\ Places /\ Counted /\ Known /\ Bounded
      /\ at[p] = "run" /\ Goto(p, place) /\ UNCHANGED <<table, fgref, file, closing, arg>>
  BY InvParts DEF Fdtochan
<1>1. hold[p] = {} /\ closing[p] = None
  BY <1>0 DEF Places
<1>2. PICK d \in 0 .. nfd - 1 :
        /\ fd[d] # None
        /\ ref' = [ref EXCEPT ![fd[d]] = @ + 1]
        /\ hold' = [hold EXCEPT ![p] = {fd[d]}]
  BY DEF Fdtochan
<1>3. d \in Fds /\ fd[d] \in Chans
  BY <1>0, <1>2, FgrpAssumption DEF Types, Fds
<1>4. ref[fd[d]] > 0
  BY <1>0, <1>3, InUse
<1>5. Types'
  <2>1. at' \in [Procs -> Spots]
    BY <1>0 DEF Types, Goto, Spots
  <2>2. ref' \in [Chans -> Nat] /\ hold' \in [Procs -> SUBSET Chans]
    BY <1>0, <1>2, <1>3 DEF Types
  <2> QED BY <1>0, <2>1, <2>2 DEF Types, table, Spots
<1>6. Places'
  BY <1>0, <1>1, <1>2, <1>3, PlacesMove DEF Types, Goto, Fits
<1>7. Counted'
  <2>1. SUFFICES ASSUME NEW c \in Chans PROVE ref'[c] = Slots(c)' + Holders(c)'
    BY DEF Counted
  <2>2. Slots(c)' = Slots(c)
    BY <1>0, SlotsStay DEF table
  <2>3. Holders(c)' = Holders(c) + In(c, {fd[d]}) - In(c, hold[p])
    BY <1>0, <1>2, <1>3, HoldersChange
  <2>4. Slots(c) \in Nat /\ Holders(c) \in Nat /\ ref[c] = Slots(c) + Holders(c)
    BY <1>0, CountsAreNat DEF Counted
  <2>5. ref'[c] = ref[c] + In(c, {fd[d]}) /\ In(c, hold[p]) = 0 /\ In(c, {fd[d]}) \in Nat
    BY <1>0, <1>1, <1>2, <1>3 DEF In, Types
  <2> QED BY <2>2, <2>3, <2>4, <2>5
<1>8. Known'
  BY <1>0, <1>2, <1>3, <1>4 DEF Known, Types
<1>9. Bounded'
  BY <1>0 DEF Bounded, table
<1> QED BY <1>5, <1>6, <1>7, <1>8, <1>9, InvNext

LEMMA SyscloseInv == ASSUME IInv, NEW p \in Procs, Sysclose(p) PROVE IInv'
<1>0. /\ Types /\ Places /\ Counted /\ Known /\ Bounded
      /\ at[p] = "run" /\ Goto(p, "closefd")
      /\ UNCHANGED <<table, fgref, ref, file, hold, closing>>
  BY InvParts DEF Sysclose
<1>1. hold[p] = {} /\ closing[p] = None
  BY <1>0 DEF Places
<1>2. PICK d \in 0 .. nfd - 1 : arg' = [arg EXCEPT ![p] = d]
  BY DEF Sysclose
<1>3. d \in Fds
  BY <1>0, FgrpAssumption DEF Types, Fds
<1>4. Types'
  <2>1. at' \in [Procs -> Spots]
    BY <1>0 DEF Types, Goto, Spots
  <2>2. arg' \in [Procs -> Fds \union {None}]
    BY <1>0, <1>2, <1>3 DEF Types
  <2> QED BY <1>0, <2>1, <2>2 DEF Types, table, Spots
<1>5. Places'
  BY <1>0, <1>1, <1>2, <1>3, PlacesMove DEF Types, Goto, Fits
<1>6. Counted' /\ Known' /\ Bounded'
  BY <1>0, SlotsStay, HoldersStay DEF Counted, Known, Bounded, table
<1> QED BY <1>4, <1>5, <1>6, InvNext

\* What a Proc that closes goes on to.
LEMMA OnwardFits ==
  ASSUME NEW cs \in SUBSET Chans, NEW a
  PROVE  /\ Fits(Onward(cs), cs, None, a)
         /\ Onward(cs) \in Spots
BY DEF Onward, Fits, Spots

LEMMA CcloseInv == ASSUME IInv, NEW p \in Procs, Cclose(p) PROVE IInv'
<1>0. /\ Types /\ Places /\ Counted /\ Known /\ Bounded
      /\ at[p] = "cclose" /\ UNCHANGED <<table, fgref, file, arg>>
  BY InvParts DEF Cclose
<1>1. closing[p] = None
  BY <1>0 DEF Places
<1>2. CASE hold[p] = {}
  <2>1. Goto(p, Onward({})) /\ UNCHANGED <<ref, hold, closing>>
    BY <1>2 DEF Cclose
  <2>2. Fits(Onward({}), {}, None, arg[p]) /\ Onward({}) \in Spots
    BY OnwardFits
  <2>3. Types'
    BY <1>0, <2>1, <2>2 DEF Types, Goto, table, Spots
  <2>4. Places'
    BY <1>0, <1>1, <1>2, <2>1, <2>2, PlacesMove DEF Types, Goto
  <2>5. Counted' /\ Known' /\ Bounded'
    BY <1>0, <2>1, SlotsStay, HoldersStay DEF Counted, Known, Bounded, table
  <2> QED BY <2>3, <2>4, <2>5, InvNext
<1>3. CASE hold[p] # {}
  <2>1. PICK c \in hold[p] :
          /\ ref' = [ref EXCEPT ![c] = @ - 1]
          /\ hold' = [hold EXCEPT ![p] = @ \ {c}]
          /\ IF ref[c] > 1
               THEN Goto(p, Onward(hold[p] \ {c})) /\ UNCHANGED closing
               ELSE /\ closing' = [closing EXCEPT ![p] = c]
                    /\ Goto(p, "devclose")
    BY <1>3 DEF Cclose
  <2> DEFINE h == hold[p] \ {c}
  <2>2. c \in Chans /\ h \in SUBSET Chans /\ c # None
    BY <1>0, FgrpAssumption DEF Types
  <2>3. ref[c] > 0 /\ ref[c] \in Nat /\ file[c] # None
    BY <1>0, <2>2, InUse DEF Known, Types
  <2>4. hold' = [hold EXCEPT ![p] = h]
    BY <1>0, <2>1 DEF Types
  <2>5. Counted'
    <3>1. SUFFICES ASSUME NEW x \in Chans PROVE ref'[x] = Slots(x)' + Holders(x)'
      BY DEF Counted
    <3>2. Slots(x)' = Slots(x)
      BY <1>0, SlotsStay DEF table
    <3>3. Holders(x)' = Holders(x) + In(x, h) - In(x, hold[p])
      BY <1>0, <2>2, <2>4, HoldersChange
    <3>4. Slots(x) \in Nat /\ Holders(x) \in Nat /\ ref[x] = Slots(x) + Holders(x)
      BY <1>0, CountsAreNat DEF Counted
    <3>5. /\ In(x, h) \in Nat /\ In(x, hold[p]) \in Nat
          /\ ref'[x] = ref[x] + In(x, h) - In(x, hold[p])
      BY <1>0, <2>1, <2>2, <2>3 DEF In, Types
    <3> QED BY <3>2, <3>3, <3>4, <3>5
  <2>6. Bounded'
    BY <1>0 DEF Bounded, table
  <2>7. ref' \in [Chans -> Nat] /\ hold' \in [Procs -> SUBSET Chans]
    BY <1>0, <2>1, <2>2, <2>3, <2>4 DEF Types
  <2>8. CASE ref[c] > 1
    <3>1. Goto(p, Onward(h)) /\ UNCHANGED closing
      BY <2>1, <2>8
    <3>2. Fits(Onward(h), h, None, arg[p]) /\ Onward(h) \in Spots
      BY <2>2, OnwardFits
    <3>3. Types'
      <4>1. at' \in [Procs -> Spots]
        BY <1>0, <3>1, <3>2 DEF Types, Goto, Spots
      <4> QED BY <1>0, <2>7, <3>1, <4>1 DEF Types, table, Spots
    <3>4. Places'
      <4>1. Fits(at'[p], hold'[p], closing'[p], arg'[p])
        BY <1>0, <1>1, <2>4, <3>1, <3>2 DEF Types, Goto
      <4> QED BY <1>0, <2>4, <3>1, <4>1, PlacesMove DEF Types, Goto
    <3>5. Known'
      BY <1>0, <2>1, <2>2, <2>3, <2>8, <3>1 DEF Known, Types
    <3> QED BY <2>5, <2>6, <3>3, <3>4, <3>5, InvNext
  <2>9. CASE ~ (ref[c] > 1)
    <3>1. closing' = [closing EXCEPT ![p] = c] /\ Goto(p, "devclose")
      BY <2>1, <2>9
    <3>2. ref[c] = 1
      BY <2>3, <2>9
    <3>3. Types'
      <4>1. at' \in [Procs -> Spots]
        BY <1>0, <3>1 DEF Types, Goto, Spots
      <4>2. closing' \in [Procs -> Chans \union {None}]
        BY <1>0, <2>2, <3>1 DEF Types
      <4> QED BY <1>0, <2>7, <4>1, <4>2 DEF Types, table, Spots
    <3>4. Places'
      <4>1. Fits(at'[p], hold'[p], closing'[p], arg'[p])
        BY <1>0, <2>2, <3>1 DEF Types, Goto, Fits
      <4> QED BY <1>0, <2>4, <3>1, <4>1, PlacesMove DEF Types, Goto
    <3>5. Known'
      <4>1. ref'[c] = 0 /\ \A x \in Chans \ {c} : ref'[x] = ref[x]
        BY <1>0, <2>1, <2>2, <3>2 DEF Types
      <4>2. closing'[p] = c /\ \A q \in Procs \ {p} : closing'[q] = closing[q]
        BY <1>0, <3>1 DEF Types
      <4>3. \A q \in Procs : closing[q] # c
        BY <1>0, <2>2, <3>2 DEF Known
      <4>4. ASSUME NEW x \in Chans
            PROVE  /\ ref'[x] > 0 => file'[x] # None
                   /\ ref'[x] = 0 /\ file'[x] # None => \E q \in Procs : closing'[q] = x
        BY <1>0, <1>1, <2>2, <4>1, <4>2, FgrpAssumption DEF Known
      <4>5. ASSUME NEW q \in Procs, NEW r \in Procs, closing'[q] # None
            PROVE  /\ ref'[closing'[q]] = 0 /\ file'[closing'[q]] # None
                   /\ closing'[q] = closing'[r] => q = r
        BY <1>0, <2>3, <4>1, <4>2, <4>3, <4>5 DEF Known, Types
      <4> QED BY <4>4, <4>5 DEF Known
    <3> QED BY <2>5, <2>6, <3>3, <3>4, <3>5, InvNext
  <2> QED BY <2>8, <2>9
<1> QED BY <1>2, <1>3

LEMMA DevcloseInv == ASSUME IInv, NEW p \in Procs, Devclose(p) PROVE IInv'
<1> DEFINE c == closing[p]
<1>0. /\ Types /\ Places /\ Counted /\ Known /\ Bounded
      /\ at[p] = "devclose" /\ UNCHANGED <<table, fgref, ref, hold, arg>>
      /\ file' = [file EXCEPT ![c] = None]
      /\ closing' = [closing EXCEPT ![p] = None]
      /\ Goto(p, Onward(hold[p]))
  BY InvParts DEF Devclose
<1>1. c # None /\ c \in Chans
  BY <1>0 DEF Places, Types
<1>2. hold[p] \in SUBSET Chans
  BY <1>0 DEF Types
<1>3. Fits(Onward(hold[p]), hold[p], None, arg[p]) /\ Onward(hold[p]) \in Spots
  BY <1>2, OnwardFits
<1>4. Types'
  <2>1. at' \in [Procs -> Spots]
    BY <1>0, <1>3 DEF Types, Goto, Spots
  <2>2. /\ file' \in [Chans -> Files \union {None}]
        /\ closing' \in [Procs -> Chans \union {None}]
    BY <1>0, <1>1 DEF Types
  <2> QED BY <1>0, <2>1, <2>2 DEF Types, table, Spots
<1>5. Places'
  <2>1. Fits(at'[p], hold'[p], closing'[p], arg'[p])
    BY <1>0, <1>3 DEF Types, Goto
  <2> QED BY <1>0, <2>1, PlacesMove DEF Types, Goto
<1>6. Counted' /\ Bounded'
  BY <1>0, SlotsStay, HoldersStay DEF Counted, Bounded, table
<1>7. Known'
  <2>1. file'[c] = None /\ \A x \in Chans \ {c} : file'[x] = file[x]
    BY <1>0, <1>1 DEF Types
  <2>2. closing'[p] = None /\ \A q \in Procs \ {p} : closing'[q] = closing[q]
    BY <1>0 DEF Types
  <2>3. ref[c] = 0 /\ \A q \in Procs \ {p} : closing[q] # c
    BY <1>0, <1>1 DEF Known
  <2>4. ASSUME NEW x \in Chans
        PROVE  /\ ref'[x] > 0 => file'[x] # None
               /\ ref'[x] = 0 /\ file'[x] # None => \E q \in Procs : closing'[q] = x
    BY <1>0, <2>1, <2>2, <2>3 DEF Known
  <2>5. ASSUME NEW q \in Procs, NEW r \in Procs, closing'[q] # None
        PROVE  /\ ref'[closing'[q]] = 0 /\ file'[closing'[q]] # None
               /\ closing'[q] = closing'[r] => q = r
    BY <1>0, <2>1, <2>2, <2>3, <2>5 DEF Known, Types
  <2> QED BY <2>4, <2>5 DEF Known
<1> QED BY <1>4, <1>5, <1>6, <1>7, InvNext

\* A Proc comes or goes without any Chan.
LEMMA LifeInv ==
  ASSUME IInv, NEW p \in Procs, at[p] \in {"run", "none"},
         NEW place \in {"run", "none", "closefgrp"}, Goto(p, place),
         UNCHANGED <<table, ref, file, hold, closing, arg>>
  PROVE  IInv'
<1>0. Types /\ Places /\ Counted /\ Known /\ Bounded
  BY InvParts
<1>1. hold[p] = {} /\ closing[p] = None
  BY <1>0 DEF Places
<1>2. Types'
  BY <1>0 DEF Types, Goto, table
<1>3. Places'
  BY <1>0, <1>1, PlacesMove DEF Types, Goto, Fits
<1>4. Counted' /\ Known' /\ Bounded'
  BY <1>0, SlotsStay, HoldersStay DEF Counted, Known, Bounded, table
<1> QED BY <1>2, <1>3, <1>4, InvNext

-----------------------------------------------------------------------------
\* Types, Places and ChansCounted together are kept by every step.
LEMMA StepIInv == IInv /\ [Next]_vars => IInv'
<1>1. ASSUME IInv, Next PROVE IInv'
  <2>1. PICK p \in Procs :
          \/ Sysopen(p) \/ Syspipe(p) \/ Sysclose(p) \/ Pexit(p) \/ Io(p)
          \/ \E place \in {"io", "newfd", "dup", "cclose"} : Fdtochan(p, place)
          \/ \E q \in Procs : Kproc(p, q)
          \/ Step(p)
    BY <1>1 DEF Next
  <2>2. CASE Sysopen(p) \/ Syspipe(p) \/ Sysclose(p) \/ Io(p)
    BY <1>1, <2>2, SysopenInv, SyspipeInv, SyscloseInv, IoInv
  <2>3. CASE Pexit(p)
    BY <1>1, <2>3, LifeInv DEF Pexit
  <2>4. CASE \E place \in {"io", "newfd", "dup", "cclose"} : Fdtochan(p, place)
    BY <1>1, <2>4, FdtochanInv
  <2>5. ASSUME NEW q \in Procs, Kproc(p, q) PROVE IInv'
    BY <1>1, <2>5, LifeInv DEF Kproc
  <2>6. CASE Step(p)
    BY <1>1, <2>6, NewfdInv, Newfd2Inv, DupToInv, ClosefdInv, CcloseInv,
       DevcloseInv, ClosefgrpInv DEF Step
  <2> QED BY <2>1, <2>2, <2>3, <2>4, <2>5, <2>6
<1>2. ASSUME IInv, UNCHANGED vars PROVE IInv'
  <2>1. UNCHANGED <<fd, nfd, maxfd, ref, file, at, hold, closing, arg>>
    BY <1>2 DEF vars
  <2>2. Types'
    BY <1>2, <2>1 DEF IInv, Types
  <2>3. Places'
    BY <1>2, <2>1 DEF IInv, Places
  <2>4. \A c \in Chans : SlotsOf(c)' = SlotsOf(c) /\ HoldersOf(c)' = HoldersOf(c)
    BY <2>1 DEF SlotsOf, HoldersOf
  <2>5. ChansCounted'
    BY <1>2, <2>1, <2>4 DEF IInv, ChansCounted
  <2> QED BY <2>2, <2>3, <2>5 DEF IInv
<1> QED BY <1>1, <1>2

\* The references of every Chan are counted, its close reaches the device once,
\* and nothing is open above maxfd, for any Procs that share the table.
THEOREM FgrpChansCounted == Spec => []ChansCounted
<1>1. IInv => ChansCounted
  BY DEF IInv
<1> QED BY InitIInv, StepIInv, <1>1, PTL DEF Spec

-----------------------------------------------------------------------------
\* The table as the Procs see it, and what each uses.
Tab == [d \in Fds |-> IF fgref = 0 \/ fd[d] = None THEN None ELSE file[fd[d]]]
Using == [p \in Procs |-> IF fgref = 0 THEN {} ELSE {file[c] : c \in hold[p]}]
Mapped == Table!Next \/ UNCHANGED <<Tab, Using, Opened>>

\* A Chan that is held, or in the table, is open on a file of its own.
LEMMA InUseIsOpen ==
  ASSUME TableInv
  PROVE  /\ \A p \in Procs : \A c \in hold[p] :
              c \in Chans /\ ref[c] > 0 /\ file[c] \in Files /\ file[c] # None
         /\ \A d \in Fds : fd[d] # None =>
              /\ fd[d] \in Chans /\ ref[fd[d]] > 0
              /\ file[fd[d]] \in Files /\ file[fd[d]] # None
<1>1. Types /\ Counted /\ Known
  BY InvParts DEF TableInv
<1>2. ASSUME NEW c \in Chans, ref[c] > 0 PROVE file[c] \in Files /\ file[c] # None
  BY <1>1, <1>2 DEF Types, Known
<1>3. ASSUME NEW p \in Procs, NEW c \in hold[p] PROVE c \in Chans /\ ref[c] > 0
  <2>1. c \in Chans
    BY <1>1 DEF Types
  <2> QED BY <1>1, <2>1, InUse
<1>4. ASSUME NEW d \in Fds, fd[d] # None PROVE fd[d] \in Chans /\ ref[fd[d]] > 0
  <2>1. fd[d] \in Chans
    BY <1>1, <1>4 DEF Types
  <2> QED BY <1>1, <2>1, InUse
<1> QED BY <1>2, <1>3, <1>4

LEMMA TabSet ==
  ASSUME Types, fgref # 0, UNCHANGED <<fgref, file>>, NEW d \in Fds, NEW x,
         fd' = [fd EXCEPT ![d] = x]
  PROVE  Tab' = [Tab EXCEPT ![d] = IF x = None THEN None ELSE file[x]]
BY DEF Tab, Types

LEMMA UsingSet ==
  ASSUME Types, fgref # 0, UNCHANGED <<fgref, file>>, NEW p \in Procs, NEW X,
         hold' = [hold EXCEPT ![p] = X]
  PROVE  Using' = [Using EXCEPT ![p] = {file[c] : c \in X}]
<1>1. hold'[p] = X /\ \A q \in Procs \ {p} : hold'[q] = hold[q]
  BY DEF Types
<1>2. Using'[p] = {file[c] : c \in X}
  BY <1>1 DEF Using
<1>3. \A q \in Procs \ {p} : Using'[q] = Using[q]
  BY <1>1 DEF Using
<1> QED BY <1>2, <1>3 DEF Using

LEMMA TabStays ==
  ASSUME UNCHANGED <<fd, fgref, file>>
  PROVE  Tab' = Tab /\ Opened' = Opened
BY DEF Tab, Opened

\* No Proc is in a call, or could begin one, on a table that was taken down.
LEMMA TableIsThere ==
  ASSUME TableInv, NEW p \in Procs,
         at[p] \in {"run", "newfd", "newfd2", "io", "dup", "closefd"}
  PROVE  fgref # 0 /\ fgref > 0
BY DEF TableInv, Shared

-----------------------------------------------------------------------------
\* Each call is the step of FileTable it stands for, or none.
LEMMA OpenMaps ==
  ASSUME TableInv, NEW p \in Procs, at[p] = "run", NEW cs \in SUBSET Chans,
         NEW fs \in SUBSET (Files \ Opened), Newchans(p, cs),
         fs = {file'[c] : c \in cs}, \A c \in Chans \ cs : file'[c] = file[c],
         UNCHANGED <<fd, fgref>>
  PROVE  Mapped
<1>1. Types /\ Places /\ fgref # 0 /\ hold[p] = {}
  BY InvParts, TableIsThere DEF TableInv, Places
<1>2. hold' = [hold EXCEPT ![p] = cs] /\ \A c \in cs : file[c] = None
  BY DEF Newchans
<1>3. Tab' = Tab
  <2>1. ASSUME NEW d \in Fds, fd[d] # None PROVE file'[fd[d]] = file[fd[d]]
    BY <1>2, <2>1, InUseIsOpen
  <2> QED BY <2>1 DEF Tab
<1>4. Using' = [Using EXCEPT ![p] = @ \union fs]
  <2>1. ASSUME NEW q \in Procs \ {p}
        PROVE  {file'[c] : c \in hold'[q]} = {file[c] : c \in hold[q]}
    <3>1. \A c \in hold[q] : file'[c] = file[c]
      BY <1>2, InUseIsOpen
    <3> QED BY <1>1, <1>2, <3>1 DEF Types
  <2>2. hold'[p] = cs
    BY <1>1, <1>2 DEF Types
  <2>3. Using[p] = {} /\ Using'[p] = fs
    BY <1>1, <2>2 DEF Using
  <2>4. \A q \in Procs \ {p} : Using'[q] = Using[q]
    BY <2>1 DEF Using
  <2> QED BY <2>3, <2>4 DEF Using
<1>5. Opened' = Opened \union fs
  <2>1. ASSUME NEW f \in Opened PROVE f \in Opened'
    <3>1. PICK c \in Chans : f = file[c] /\ f # None
      BY DEF Opened
    <3> QED BY <1>2, <3>1 DEF Opened
  <2>2. fs \subseteq Opened'
    BY FgrpAssumption DEF Opened
  <2>3. ASSUME NEW f \in Opened' PROVE f \in Opened \union fs
    <3>1. PICK c \in Chans : f = file'[c] /\ f # None
      BY DEF Opened
    <3> QED BY <3>1 DEF Opened
  <2> QED BY <2>1, <2>2, <2>3
<1>6. Table!Open(p, fs)
  BY <1>3, <1>4, <1>5 DEF Table!Open, Tab, Using
<1> QED BY <1>6 DEF Mapped, Table!Next

LEMMA SysopenMaps == ASSUME TableInv, NEW p \in Procs, Sysopen(p) PROVE Mapped
<1>0. Types
  BY InvParts DEF TableInv
<1>1. PICK c \in Chans, f \in Files \ Opened :
        Newchans(p, {c}) /\ file' = [file EXCEPT ![c] = f]
  BY DEF Sysopen
<1>2. {f} = {file'[b] : b \in {c}} /\ \A b \in Chans \ {c} : file'[b] = file[b]
  BY <1>0, <1>1 DEF Types
<1>3. at[p] = "run" /\ UNCHANGED <<fd, fgref>>
  BY DEF Sysopen, table
<1>4. {c} \in SUBSET Chans /\ {f} \in SUBSET (Files \ Opened)
  OBVIOUS
<1> QED BY <1>1, <1>2, <1>3, <1>4, OpenMaps

LEMMA SyspipeMaps == ASSUME TableInv, NEW p \in Procs, Syspipe(p) PROVE Mapped
<1>0. Types
  BY InvParts DEF TableInv
<1>1. PICK c \in Chans, d \in Chans, f \in Files \ Opened, g \in Files \ Opened :
        /\ c # d /\ f # g /\ Newchans(p, {c, d})
        /\ file' = [file EXCEPT ![c] = f, ![d] = g]
  BY DEF Syspipe
<1>2. file'[c] = f /\ file'[d] = g /\ \A b \in Chans \ {c, d} : file'[b] = file[b]
  BY <1>0, <1>1 DEF Types
<1>3. {f, g} = {file'[b] : b \in {c, d}}
  BY <1>2
<1>4. at[p] = "run" /\ UNCHANGED <<fd, fgref>>
  BY DEF Syspipe, table
<1>5. {c, d} \in SUBSET Chans /\ {f, g} \in SUBSET (Files \ Opened)
  OBVIOUS
<1> QED BY <1>1, <1>2, <1>3, <1>4, <1>5, OpenMaps

\* What a Proc has is given a descriptor, and it goes on with what was there.
LEMMA EnterMaps ==
  ASSUME TableInv, NEW p \in Procs, at[p] \in {"newfd", "dup"}, NEW d \in Fds,
         NEW c \in hold[p], fd' = [fd EXCEPT ![d] = c],
         hold' = [hold EXCEPT ![p] = IF fd[d] = None THEN {} ELSE {fd[d]}],
         UNCHANGED <<fgref, file>>
  PROVE  Mapped
<1>1. Types /\ Places /\ fgref # 0
  BY InvParts, TableIsThere DEF TableInv
<1>2. hold[p] = {c} /\ c \in Chans /\ file[c] \in Files /\ c # None
  BY <1>1, InUseIsOpen, FgrpAssumption DEF Places
<1>3. Tab' = [Tab EXCEPT ![d] = file[c]]
  BY <1>1, <1>2, TabSet
<1>4. /\ Using[p] = {file[c]}
      /\ fd[d] = None => Tab[d] = None
      /\ fd[d] # None => Tab[d] = file[fd[d]] /\ Tab[d] # None
  BY <1>1, <1>2, InUseIsOpen DEF Using, Tab
<1>5. Using' = [Using EXCEPT ![p] =
                  {file[b] : b \in IF fd[d] = None THEN {} ELSE {fd[d]}}]
  BY <1>1, UsingSet
<1>6. {file[b] : b \in IF fd[d] = None THEN {} ELSE {fd[d]}} =
        (Using[p] \ {file[c]}) \union (IF Tab[d] = None THEN {} ELSE {Tab[d]})
  BY <1>4
<1>7. Using' = [Using EXCEPT ![p] = (@ \ {file[c]}) \union
                  (IF Tab[d] = None THEN {} ELSE {Tab[d]})]
  BY <1>5, <1>6
<1>8. Opened' = Opened
  BY DEF Opened
<1>9. PICK f \in Files : f = file[c]
  BY <1>2
<1>10. Table!Enter(p, d, f)
  BY <1>3, <1>4, <1>7, <1>8, <1>9 DEF Table!Enter, Tab, Using
<1> QED BY <1>10 DEF Mapped, Table!Next

LEMMA NewfdMaps == ASSUME TableInv, NEW p \in Procs, Newfd(p) PROVE Mapped
<1> DEFINE d == FreeFd(0)
<1>0. Types /\ Bounded
  BY InvParts DEF TableInv
<1>1. CASE ~ CanGrow(d)
  BY <1>1, TabStays DEF Newfd, table, Mapped, Using
<1>2. CASE CanGrow(d)
  <2>1. PICK c \in hold[p] :
          /\ fd' = [fd EXCEPT ![d] = c]
          /\ hold' = [hold EXCEPT ![p] = {}]
          /\ UNCHANGED <<fgref, file>>
    BY <1>2 DEF Newfd
  <2>2. d \in Nat /\ (d \in Fds => fd[d] = None)
    BY <1>0, FreeFdIsFree
  <2>3. d \in Fds
    BY <1>0, <1>2, <2>2, Growth
  <2>4. at[p] = "newfd"
    BY DEF Newfd
  <2> QED BY <2>1, <2>2, <2>3, <2>4, EnterMaps
<1> QED BY <1>1, <1>2

LEMMA DupToMaps == ASSUME TableInv, NEW p \in Procs, DupTo(p) PROVE Mapped
<1>1. CASE UNCHANGED <<table, hold>>
  BY <1>1, TabStays DEF DupTo, table, Mapped, Using
<1>2. CASE \E d \in Fds, c \in hold[p] :
             /\ fd' = [fd EXCEPT ![d] = c]
             /\ hold' = [hold EXCEPT ![p] = IF fd[d] = None THEN {} ELSE {fd[d]}]
  BY <1>2, EnterMaps DEF DupTo
<1> QED BY <1>1, <1>2 DEF DupTo

LEMMA Newfd2Maps == ASSUME TableInv, NEW p \in Procs, Newfd2(p) PROVE Mapped
<1> DEFINE d == FreeFd(0)
           e == FreeFd(d + 1)
<1>0. Types /\ Places /\ Bounded /\ at[p] = "newfd2" /\ fgref # 0
  BY InvParts, TableIsThere DEF TableInv, Newfd2
<1>1. CASE ~ (CanGrow(d) /\ CanGrow(e))
  BY <1>1, TabStays DEF Newfd2, table, Mapped, Using
<1>2. CASE CanGrow(d) /\ CanGrow(e)
  <2>1. PICK c \in hold[p], b \in hold[p] :
          /\ c # b /\ fd' = [fd EXCEPT ![d] = c, ![e] = b]
          /\ hold' = [hold EXCEPT ![p] = {}]
          /\ UNCHANGED <<fgref, file>>
    BY <1>2 DEF Newfd2
  <2>2. d \in Nat /\ (d \in Fds => fd[d] = None)
    BY <1>0, FreeFdIsFree
  <2>3. e \in Nat /\ e >= d + 1 /\ (e \in Fds => fd[e] = None)
    BY <1>0, <2>2, FreeFdIsFree
  <2> HIDE DEF d, e
  <2>4. d \in Fds /\ e \in Fds /\ d # e
    BY <1>0, <1>2, <2>2, <2>3, Growth
  <2>5. /\ hold[p] = {c, b} /\ c # None /\ b # None /\ c \in Chans /\ b \in Chans
        /\ file[c] \in Files /\ file[b] \in Files /\ file[c] # file[b]
    BY <1>0, <2>1, InUseIsOpen, FgrpAssumption DEF Places, TableInv, FilesApart
  <2>6. Tab' = [Tab EXCEPT ![d] = file[c], ![e] = file[b]]
    <3>1. fd'[d] = c /\ fd'[e] = b /\ \A n \in Fds \ {d, e} : fd'[n] = fd[n]
      BY <1>0, <2>1, <2>4 DEF Types
    <3>2. fgref' # 0 /\ file' = file
      BY <1>0, <2>1
    <3>3. /\ \A n \in Fds : Tab'[n] = IF fd'[n] = None THEN None ELSE file[fd'[n]]
          /\ \A n \in Fds : Tab[n] = IF fd[n] = None THEN None ELSE file[fd[n]]
      BY <1>0, <3>2 DEF Tab
    <3>4. /\ Tab'[d] = file[c] /\ Tab'[e] = file[b]
          /\ \A n \in Fds \ {d, e} : Tab'[n] = Tab[n]
      BY <2>4, <2>5, <3>1, <3>3
    <3> QED BY <2>4, <3>4 DEF Tab
  <2>7. Tab[d] = None /\ Tab[e] = None /\ Using[p] = {file[c], file[b]}
    BY <1>0, <2>2, <2>3, <2>4, <2>5 DEF Tab, Using
  <2>8. Using' = [Using EXCEPT ![p] = {file[x] : x \in {}}]
    BY <1>0, <2>1, UsingSet
  <2>9. Using' = [Using EXCEPT ![p] = @ \ {file[c], file[b]}]
    BY <2>7, <2>8
  <2>10. Opened' = Opened
    BY <2>1 DEF Opened
  <2>11. PICK n \in Fds, m \in Fds, f \in Files, g \in Files :
           n = d /\ m = e /\ f = file[c] /\ g = file[b]
    BY <2>4, <2>5
  <2>12. {f, g} \subseteq Using[p] /\ f # g
    BY <2>5, <2>7, <2>11
  <2>13. Table!EnterBoth(p, n, m, f, g)
    BY <2>4, <2>6, <2>7, <2>9, <2>10, <2>11, <2>12 DEF Table!EnterBoth, Tab, Using
  <2> QED BY <2>13 DEF Mapped, Table!Next
<1> QED BY <1>1, <1>2

LEMMA FdtochanMaps ==
  ASSUME TableInv, NEW p \in Procs, NEW place, Fdtochan(p, place)
  PROVE  Mapped
<1>0. /\ Types /\ Places /\ at[p] = "run" /\ fgref # 0
      /\ UNCHANGED <<fd, fgref, file>>
  BY InvParts, TableIsThere DEF TableInv, Fdtochan, table
<1>1. PICK d \in 0 .. nfd - 1 :
        fd[d] # None /\ hold' = [hold EXCEPT ![p] = {fd[d]}]
  BY DEF Fdtochan
<1>2. d \in Fds
  BY <1>0, FgrpAssumption DEF Types, Fds
<1>3. Tab[d] = file[fd[d]] /\ Tab[d] # None /\ Using[p] = {}
  BY <1>0, <1>1, <1>2, InUseIsOpen DEF Tab, Using, Places
<1>4. Using' = [Using EXCEPT ![p] = {file[c] : c \in {fd[d]}}]
  BY <1>0, <1>1, UsingSet
<1>5. Using' = [Using EXCEPT ![p] = @ \union {Tab[d]}]
  BY <1>3, <1>4
<1>6. Table!Use(p, d)
  BY <1>0, <1>3, <1>5, TabStays DEF Table!Use, Tab, Using
<1> QED BY <1>2, <1>6 DEF Mapped, Table!Next

LEMMA ClosefdMaps == ASSUME TableInv, NEW p \in Procs, Closefd(p) PROVE Mapped
<1>0. /\ Types /\ Places /\ at[p] = "closefd" /\ fgref # 0
      /\ UNCHANGED <<fgref, file>>
  BY InvParts, TableIsThere DEF TableInv, Closefd
<1>1. PICK d \in Fds : d = arg[p] /\ hold[p] = {}
  BY <1>0 DEF Places
<1>2. CASE fd[d] = None
  BY <1>1, <1>2, TabStays DEF Closefd, table, Mapped, Using
<1>3. CASE fd[d] # None
  <2>1. fd' = [fd EXCEPT ![d] = None] /\ hold' = [hold EXCEPT ![p] = {fd[d]}]
    BY <1>1, <1>3 DEF Closefd
  <2>2. Tab[d] = file[fd[d]] /\ Tab[d] # None /\ Using[p] = {}
    BY <1>0, <1>1, <1>3, InUseIsOpen DEF Tab, Using
  <2>3. Tab' = [Tab EXCEPT ![d] = None]
    BY <1>0, <1>1, <2>1, TabSet
  <2>4. Using' = [Using EXCEPT ![p] = {file[c] : c \in {fd[d]}}]
    BY <1>0, <2>1, UsingSet
  <2>5. Using' = [Using EXCEPT ![p] = @ \union {Tab[d]}]
    BY <2>2, <2>4
  <2>6. Opened' = Opened
    BY <1>0, TabStays DEF Opened
  <2>7. Table!Remove(p, d)
    BY <2>2, <2>3, <2>5, <2>6 DEF Table!Remove, Tab, Using
  <2> QED BY <1>1, <2>7 DEF Mapped, Table!Next
<1> QED BY <1>2, <1>3

LEMMA CcloseMaps == ASSUME TableInv, NEW p \in Procs, Cclose(p) PROVE Mapped
<1>0. Types /\ UNCHANGED <<fd, fgref, file>>
  BY InvParts DEF TableInv, Cclose, table
<1>1. Tab' = Tab /\ Opened' = Opened
  BY <1>0, TabStays
<1>2. CASE hold[p] = {}
  BY <1>0, <1>1, <1>2 DEF Cclose, Mapped, Using
<1>3. CASE fgref = 0
  BY <1>0, <1>1, <1>3 DEF Mapped, Using
<1>4. CASE hold[p] # {} /\ fgref # 0
  <2>1. PICK c \in hold[p] : hold' = [hold EXCEPT ![p] = hold[p] \ {c}]
    BY <1>4 DEF Cclose
  <2>2. file[c] \in Files /\ Using[p] = {file[b] : b \in hold[p]}
    BY <1>4, InUseIsOpen DEF Using
  <2>3. {file[b] : b \in hold[p] \ {c}} = Using[p] \ {file[c]}
    BY <2>2, InUseIsOpen DEF TableInv, FilesApart
  <2>4. Using' = [Using EXCEPT ![p] = {file[b] : b \in hold[p] \ {c}}]
    BY <1>0, <1>4, <2>1, UsingSet
  <2>5. Using' = [Using EXCEPT ![p] = @ \ {file[c]}]
    BY <2>3, <2>4
  <2>6. PICK f \in Files : f = file[c] /\ f \in Using[p]
    BY <2>2
  <2>7. Table!Done(p, f)
    BY <1>1, <2>5, <2>6 DEF Table!Done, Tab, Using
  <2> QED BY <2>7 DEF Mapped, Table!Next
<1> QED BY <1>2, <1>3, <1>4

LEMMA DevcloseMaps == ASSUME TableInv, NEW p \in Procs, Devclose(p) PROVE Mapped
<1>0. /\ Types /\ Places /\ Known /\ UNCHANGED <<fd, fgref, hold>>
      /\ file' = [file EXCEPT ![closing[p]] = None] /\ at[p] = "devclose"
  BY InvParts DEF TableInv, Devclose, table
<1>1. PICK c \in Chans : c = closing[p]
  BY <1>0 DEF Places, Types
<1>2. /\ ref[c] = 0 /\ file[c] # None /\ file[c] \in Files
      /\ file'[c] = None /\ \A b \in Chans \ {c} : file'[b] = file[b]
  BY <1>0, <1>1, FgrpAssumption DEF Known, Types
<1>3. \A b \in Chans \ {c} : file[b] # file[c]
  BY <1>2 DEF TableInv, FilesApart
<1>4. \A d \in Fds : fd[d] # None => fd[d] \in Chans \ {c}
  BY <1>2, InUseIsOpen
<1>5. \A q \in Procs : \A b \in hold[q] : b \in Chans \ {c}
  BY <1>2, InUseIsOpen
<1>6. Tab' = Tab
  BY <1>0, <1>2, <1>4 DEF Tab
<1>7. Using' = Using
  <2>1. ASSUME NEW q \in Procs PROVE {file'[b] : b \in hold[q]} = {file[b] : b \in hold[q]}
    BY <1>2, <1>5
  <2> QED BY <1>0, <2>1 DEF Using
<1>8. Opened' = Opened \ {file[c]} /\ file[c] \in Opened
  BY <1>2, <1>3 DEF Opened
<1>9. /\ \A d \in Fds : Tab[d] # file[c]
      /\ \A q \in Procs : file[c] \notin Using[q]
  BY <1>2, <1>3, <1>4, <1>5 DEF Tab, Using
<1>10. Table!Unused(file[c])
  BY <1>9 DEF Table!Unused, Tab, Using
<1>11. Table!Close(file[c])
  BY <1>6, <1>7, <1>8, <1>10 DEF Table!Close, Tab, Using
<1> QED BY <1>2, <1>11 DEF Mapped, Table!Next

-----------------------------------------------------------------------------
\* The Procs that come and go.
LEMMA SharersAreNat ==
  IsFiniteSet(Sharers) /\ Cardinality(Sharers) \in Nat
BY FgrpAssumption, FS_Subset, FS_CardinalityType DEF Sharers

LEMMA PexitMaps ==
  ASSUME TableInv, NEW p \in Procs, Pexit(p)
  PROVE  Mapped /\ Shared'
<1>0. /\ Types /\ Places /\ at[p] = "run" /\ fgref > 0 /\ fgref \in Nat
      /\ fgref = Cardinality(Sharers) /\ p \in Sharers
      /\ fgref' = fgref - 1 /\ UNCHANGED <<fd, file, hold>>
  BY InvParts, TableIsThere DEF TableInv, Shared, Sharers, Pexit, table
<1>1. Opened' = Opened
  BY <1>0 DEF Opened
<1>2. Cardinality(Sharers \ {p}) = fgref - 1 /\ IsFiniteSet(Sharers \ {p})
  BY <1>0, SharersAreNat, FS_RemoveElement
<1>3. CASE fgref = 1
  <2>1. Sharers \ {p} = {}
    BY <1>2, <1>3, FS_EmptySet
  <2>2. \A q \in Procs \ {p} : at[q] = "none"
    BY <2>1 DEF Sharers
  <2>3. \A q \in Procs : hold[q] = {}
    BY <1>0, <2>2 DEF Places
  <2>4. fgref' = 0
    BY <1>0, <1>3
  <2>5. Tab' = [d \in Fds |-> None] /\ Using' = [q \in Procs |-> {}]
    BY <2>4 DEF Tab, Using
  <2>6. Table!Leave
    BY <1>1, <2>5 DEF Table!Leave, Tab, Using
  <2>7. at' = [at EXCEPT ![p] = "closefgrp"]
    BY <1>3 DEF Pexit, Goto
  <2>8. Shared'
    BY <1>0, <2>2, <2>4, <2>7 DEF Shared, Types
  <2> QED BY <2>6, <2>8 DEF Mapped, Table!Next
<1>4. CASE fgref # 1
  <2>1. fgref' > 0 /\ fgref' \in Nat
    BY <1>0, <1>4
  <2>2. Tab' = Tab /\ Using' = Using
    BY <1>0, <2>1 DEF Tab, Using
  <2>3. at' = [at EXCEPT ![p] = "none"]
    BY <1>4 DEF Pexit, Goto
  <2>4. Sharers' = Sharers \ {p}
    BY <1>0, <2>3 DEF Sharers, Types
  <2>5. \A q \in Procs : at'[q] # "closefgrp"
    BY <1>0, <2>3 DEF TableInv, Shared, Types
  <2>6. Shared'
    BY <1>0, <1>2, <2>1, <2>4, <2>5 DEF Shared
  <2> QED BY <1>1, <2>2, <2>6 DEF Mapped
<1> QED BY <1>3, <1>4

LEMMA KprocMaps ==
  ASSUME TableInv, NEW p \in Procs, NEW q \in Procs, Kproc(p, q)
  PROVE  Mapped /\ Shared'
<1>0. /\ Types /\ fgref > 0 /\ fgref \in Nat /\ at[q] = "none"
      /\ fgref = Cardinality(Sharers) /\ q \notin Sharers
      /\ fgref' = fgref + 1 /\ UNCHANGED <<fd, file, hold>>
      /\ at' = [at EXCEPT ![q] = "run"]
  BY InvParts, TableIsThere DEF TableInv, Shared, Sharers, Kproc, table, Goto
<1>1. Opened' = Opened
  BY <1>0 DEF Opened
<1>2. fgref' > 0 /\ fgref' \in Nat
  BY <1>0
<1>3. Tab' = Tab /\ Using' = Using
  BY <1>0, <1>2 DEF Tab, Using
<1>4. Sharers' = Sharers \union {q}
  BY <1>0 DEF Sharers, Types
<1>5. Cardinality(Sharers') = fgref'
  BY <1>0, <1>4, SharersAreNat, FS_AddElement
<1>6. \A r \in Procs : at'[r] # "closefgrp"
  BY <1>0 DEF TableInv, Shared, Types
<1>7. Shared'
  BY <1>2, <1>5, <1>6 DEF Shared
<1> QED BY <1>1, <1>3, <1>7 DEF Mapped

\* A Proc that neither comes nor goes.
LEMMA SharedStays ==
  ASSUME TableInv, NEW p \in Procs, NEW place, Goto(p, place), UNCHANGED fgref,
         fgref # 0 => at[p] # "none" /\ place \notin {"none", "closefgrp"},
         fgref = 0 => place \in {"none", "closefgrp", "cclose", "devclose"}
  PROVE  Shared'
<1>0. Types /\ fgref \in Nat
  BY InvParts DEF TableInv, Shared
<1>1. CASE fgref = 0
  BY <1>0, <1>1 DEF TableInv, Shared, Goto, Types
<1>2. CASE fgref # 0
  <2>1. Sharers' = Sharers
    BY <1>0, <1>2 DEF Sharers, Goto, Types
  <2>2. \A r \in Procs : at'[r] # "closefgrp"
    BY <1>0, <1>2 DEF TableInv, Shared, Goto, Types
  <2> QED BY <1>0, <1>2, <2>1, <2>2 DEF TableInv, Shared
<1> QED BY <1>1, <1>2

LEMMA SharedByCalls ==
  ASSUME TableInv, NEW p \in Procs,
         \/ Sysopen(p) \/ Syspipe(p) \/ Sysclose(p) \/ Io(p)
         \/ \E place \in {"io", "newfd", "dup", "cclose"} : Fdtochan(p, place)
         \/ Step(p)
  PROVE  Shared'
<1>1. CASE Sysopen(p)
  BY <1>1, SharedStays, TableIsThere DEF Sysopen
<1>2. CASE Syspipe(p)
  BY <1>2, SharedStays, TableIsThere DEF Syspipe
<1>3. CASE Sysclose(p)
  BY <1>3, SharedStays, TableIsThere DEF Sysclose
<1>4. CASE Io(p)
  BY <1>4, SharedStays, TableIsThere DEF Io
<1>5. ASSUME NEW place \in {"io", "newfd", "dup", "cclose"}, Fdtochan(p, place)
      PROVE  Shared'
  BY <1>5, SharedStays, TableIsThere DEF Fdtochan
<1>6. CASE Newfd(p)
  BY <1>6, SharedStays, TableIsThere DEF Newfd
<1>7. CASE Newfd2(p)
  BY <1>7, SharedStays, TableIsThere DEF Newfd2
<1>8. CASE DupTo(p)
  BY <1>8, SharedStays, TableIsThere DEF DupTo
<1>9. CASE Closefd(p)
  BY <1>9, SharedStays, TableIsThere DEF Closefd
<1>10. CASE Cclose(p)
  <2>1. at[p] = "cclose" /\ UNCHANGED fgref
    BY <1>10 DEF Cclose
  <2>2. \/ Goto(p, Onward({})) \/ Goto(p, "devclose")
        \/ \E c \in hold[p] : Goto(p, Onward(hold[p] \ {c}))
    BY <1>10 DEF Cclose
  <2>3. \E place \in {"cclose", "run", "closefgrp", "devclose"} :
          /\ Goto(p, place)
          /\ place = "run" => fgref # 0
          /\ place = "closefgrp" => fgref = 0
    BY <2>2 DEF Onward
  <2> QED BY <2>1, <2>3, SharedStays
<1>11. CASE Devclose(p)
  <2>1. at[p] = "devclose" /\ UNCHANGED fgref /\ Goto(p, Onward(hold[p]))
    BY <1>11 DEF Devclose
  <2>2. \E place \in {"cclose", "run", "closefgrp"} :
          /\ Goto(p, place)
          /\ place = "run" => fgref # 0
          /\ place = "closefgrp" => fgref = 0
    BY <2>1 DEF Onward
  <2> QED BY <2>1, <2>2, SharedStays
<1>12. CASE Closefgrp(p)
  <2>1. fgref = 0 /\ UNCHANGED fgref
    BY <1>12 DEF Closefgrp, TableInv, Shared
  <2>2. Goto(p, "none") \/ Goto(p, "cclose")
    BY <1>12 DEF Closefgrp
  <2> QED BY <2>1, <2>2, SharedStays
<1> QED BY <1>1, <1>2, <1>3, <1>4, <1>5, <1>6, <1>7, <1>8, <1>9, <1>10, <1>11, <1>12
        DEF Step

\* A file is opened on one Chan.
LEMMA ApartStep == ASSUME TableInv, [Next]_vars PROVE FilesApart'
<1>0. Types /\ FilesApart
  BY InvParts DEF TableInv
<1>1. ASSUME NEW p \in Procs, Sysopen(p) PROVE FilesApart'
  <2>1. PICK c \in Chans, f \in Files \ Opened :
          file[c] = None /\ file' = [file EXCEPT ![c] = f]
    BY <1>1 DEF Sysopen, Newchans
  <2>2. \A b \in Chans : file[b] # f
    BY FgrpAssumption DEF Opened
  <2> QED BY <1>0, <2>1, <2>2 DEF FilesApart, Types
<1>2. ASSUME NEW p \in Procs, Syspipe(p) PROVE FilesApart'
  <2>1. PICK c \in Chans, d \in Chans, f \in Files \ Opened, g \in Files \ Opened :
          c # d /\ f # g /\ file' = [file EXCEPT ![c] = f, ![d] = g]
    BY <1>2 DEF Syspipe
  <2>2. \A b \in Chans : file[b] # f /\ file[b] # g
    BY FgrpAssumption DEF Opened
  <2>3. file'[c] = f /\ file'[d] = g /\ \A b \in Chans \ {c, d} : file'[b] = file[b]
    BY <1>0, <2>1 DEF Types
  <2> QED BY <1>0, <2>1, <2>2, <2>3 DEF FilesApart
<1>3. ASSUME NEW p \in Procs, Devclose(p) PROVE FilesApart'
  BY <1>0, <1>3 DEF Devclose, FilesApart, Types
<1>4. CASE UNCHANGED file
  BY <1>0, <1>4 DEF FilesApart
<1>5. (\E p \in Procs : Sysopen(p) \/ Syspipe(p) \/ Devclose(p)) \/ UNCHANGED file
  BY DEF Next, vars, Step, Sysclose, Pexit, Io, Fdtochan, Kproc, Newfd, Newfd2,
         DupTo, Closefd, Cclose, Closefgrp
<1> QED BY <1>1, <1>2, <1>3, <1>4, <1>5

LEMMA TableStep == TableInv /\ [Next]_vars => TableInv' /\ Mapped
<1> SUFFICES ASSUME TableInv, [Next]_vars PROVE TableInv' /\ Mapped
  OBVIOUS
<1>1. IInv' /\ FilesApart'
  BY StepIInv, ApartStep DEF TableInv
<1>2. Shared' /\ Mapped
  <2>1. CASE Next
    <3>1. PICK p \in Procs :
            \/ Sysopen(p) \/ Syspipe(p) \/ Sysclose(p) \/ Pexit(p) \/ Io(p)
            \/ \E place \in {"io", "newfd", "dup", "cclose"} : Fdtochan(p, place)
            \/ \E q \in Procs : Kproc(p, q)
            \/ Step(p)
      BY <2>1 DEF Next
    <3>2. CASE Pexit(p) \/ \E q \in Procs : Kproc(p, q)
      BY <3>2, PexitMaps, KprocMaps
    <3>3. CASE Sysclose(p) \/ Io(p)
      <4>1. Mapped
        BY <3>3, TabStays DEF Sysclose, Io, table, Mapped, Using
      <4> QED BY <3>3, <4>1, SharedByCalls
    <3>4. CASE Sysopen(p) \/ Syspipe(p)
      BY <3>4, SysopenMaps, SyspipeMaps, SharedByCalls
    <3>5. CASE \E place \in {"io", "newfd", "dup", "cclose"} : Fdtochan(p, place)
      BY <3>5, FdtochanMaps, SharedByCalls
    <3>6. ASSUME Closefgrp(p) PROVE Mapped
      <4>1. fgref = 0 /\ UNCHANGED <<fgref, file>>
        BY <3>6 DEF Closefgrp, TableInv, Shared
      <4> QED BY <4>1 DEF Mapped, Tab, Using, Opened
    <3>7. CASE Step(p)
      <4>1. Mapped
        BY <3>6, <3>7, NewfdMaps, Newfd2Maps, DupToMaps, ClosefdMaps, CcloseMaps,
           DevcloseMaps DEF Step
      <4> QED BY <3>7, <4>1, SharedByCalls
    <3> QED BY <3>1, <3>2, <3>3, <3>4, <3>5, <3>7
  <2>2. CASE UNCHANGED vars
    <3>1. UNCHANGED <<fd, fgref, file, hold, at>>
      BY <2>2 DEF vars, table
    <3>2. Sharers' = Sharers
      BY <3>1 DEF Sharers
    <3>3. Shared'
      BY <3>1, <3>2 DEF TableInv, Shared
    <3>4. Mapped
      BY <3>1, TabStays DEF Mapped, Using
    <3> QED BY <3>3, <3>4
  <2> QED BY <2>1, <2>2
<1> QED BY <1>1, <1>2 DEF TableInv

LEMMA TableInit == Init => TableInv /\ Table!Init
<1> SUFFICES ASSUME Init PROVE TableInv /\ Table!Init
  OBVIOUS
<1>1. IInv
  BY InitIInv
<1>2. FilesApart
  BY DEF Init, FilesApart
<1>3. Shared
  <2>1. Sharers = {First}
    BY FgrpAssumption DEF Init, Sharers
  <2>2. Cardinality(Sharers) = 1
    BY <2>1, FS_Singleton
  <2>3. \A p \in Procs : at[p] # "closefgrp"
    BY DEF Init
  <2> QED BY <2>2, <2>3 DEF Init, Shared
<1>4. Table!Init
  <2>1. Opened = {}
    BY DEF Init, Opened
  <2>2. Tab = [d \in Fds |-> None] /\ Using = [p \in Procs |-> {}]
    BY DEF Init, Tab, Using
  <2> QED BY <2>1, <2>2 DEF Table!Init, Tab, Using
<1> QED BY <1>1, <1>2, <1>3, <1>4 DEF TableInv

\* Whatever the Procs that share the table do to each other's descriptors, they
\* see one in which each call is a step: a file is open while a descriptor leads
\* to it or a call is inside it, and its device is told of the close after that.
THEOREM FgrpTable == Spec => TableSafety
<1>1. Mapped => [Table!Next]_(Table!vars)
  BY DEF Mapped, Table!vars, Tab, Using
<1>2. TableInv /\ [Next]_vars => TableInv' /\ [Table!Next]_(Table!vars)
  BY <1>1, TableStep
<1> QED BY <1>2, TableInit, PTL DEF Spec, TableSafety
=============================================================================
