------------------------------ MODULE QioProofs ------------------------------
(***************************************************************************)
(* Proofs about a Queue and the Procs that use it, for any of them, any    *)
(* limit, any sizes of reads and writes, and any number of bytes: the      *)
(* stream is read in order, the lengths are true, and nobody sleeps on a   *)
(* queue that is ready for it.  Sums over the blocks are sums over a set   *)
(* of places, counted as the pairs of a place and a number up to its       *)
(* weight: the induction the folds of QueueOps need is then that of finite *)
(* sets, a smallest set that breaks a statement.                           *)
(***************************************************************************)
EXTENDS Qio, Integers, FiniteSetTheorems, FunctionTheorems, SequenceTheorems,
        WellFoundedInduction, TLAPS

-----------------------------------------------------------------------------
\* Induction.  The library states it with an operator for what is proved, which
\* the provers cannot instantiate; here it is a set.

\* A set of subsets of a finite set has a minimal one.
LEMMA MinimalSet ==
  ASSUME NEW S, IsFiniteSet(S), NEW B, B \subseteq SUBSET S, B # {}
  PROVE  \E T \in B : \A U \in B : U \subseteq T => U = T
<1> DEFINE R == StrictSubsetOrdering(S)
<1>1. IsWellFoundedOn(R, SUBSET S)
  BY FS_StrictSubsetOrderingWellFounded, FS_FiniteSubsetsOfFinite
<1> HIDE DEF R
<1>2. \E T \in B : \A U \in B : ~ (<<U, T>> \in R)
  BY <1>1, WFMin
<1> QED BY <1>2 DEF R, StrictSubsetOrdering

\* An interval is finite.
LEMMA Intervals == \A a, b \in Int : IsFiniteSet(a .. b)
  BY FS_Interval

\* A set of numbers up to n has a least one and a greatest one.
LEMMA Least ==
  ASSUME NEW n \in Nat, NEW S \in SUBSET (0 .. n), S # {}
  PROVE  /\ \E m \in S : \A k \in S : m <= k
         /\ \E m \in S : \A k \in S : m >= k
<1> DEFINE I == 0 .. n
<1>1. IsFiniteSet(I)
  BY FS_Interval
<1> HIDE DEF I
<1>2. \E m \in S : \A k \in S : m <= k
  <2> DEFINE B == {0 .. m : m \in S}
  <2>1. B \subseteq SUBSET I /\ B # {}
    <3>1. \A m \in S : m \in 0 .. n /\ 0 .. m \subseteq 0 .. n
      OBVIOUS
    <3> QED BY <3>1, Zenon DEF I
  <2> HIDE DEF B
  <2>2. PICK T \in B : \A U \in B : U \subseteq T => U = T
    BY <1>1, <2>1, MinimalSet
  <2>3. PICK m \in S : T = 0 .. m
    BY DEF B
  <2>4. ASSUME NEW k \in S, k < m
        PROVE  FALSE
    <3>1. 0 .. k \in B /\ 0 .. k \subseteq 0 .. m
      BY <2>4 DEF B
    <3>2. 0 .. k = 0 .. m
      BY <3>1, <2>2, <2>3
    <3>3. m \in 0 .. m /\ m \notin 0 .. k
      BY <2>4
    <3> QED BY <3>2, <3>3
  <2> QED BY <2>4
<1>3. \E m \in S : \A k \in S : m >= k
  <2> DEFINE B == {m .. n : m \in S}
  <2>1. B \subseteq SUBSET I /\ B # {}
    <3>1. \A m \in S : m \in 0 .. n /\ m .. n \subseteq 0 .. n
      OBVIOUS
    <3> QED BY <3>1, Zenon DEF I
  <2> HIDE DEF B
  <2>2. PICK T \in B : \A U \in B : U \subseteq T => U = T
    BY <1>1, <2>1, MinimalSet
  <2>3. PICK m \in S : T = m .. n
    BY DEF B
  <2>4. ASSUME NEW k \in S, k > m
        PROVE  FALSE
    <3>1. k .. n \in B /\ k .. n \subseteq m .. n
      BY <2>4 DEF B
    <3>2. k .. n = m .. n
      BY <3>1, <2>2, <2>3
    <3>3. m \in m .. n /\ m \notin k .. n
      BY <2>4
    <3> QED BY <3>2, <3>3
  <2> QED BY <2>4
<1> QED BY <1>2, <1>3

\* What holds of 0, and of i + 1 when of i, holds up to n.
LEMMA UpTo ==
  ASSUME NEW n \in Nat, NEW P, 0 \in P, \A i \in 0 .. n - 1 : i \in P => i + 1 \in P
  PROVE  0 .. n \subseteq P
<1> SUFFICES ASSUME (0 .. n) \ P # {}
             PROVE  FALSE
  OBVIOUS
<1>1. PICK m \in (0 .. n) \ P : \A k \in (0 .. n) \ P : m <= k
  BY Least
<1>2. m # 0 /\ m - 1 \in 0 .. n - 1
  OBVIOUS
<1>3. m - 1 \in P
  BY <1>1, <1>2
<1>4. (m - 1) + 1 \in P
  BY <1>2, <1>3
<1> QED BY <1>4

-----------------------------------------------------------------------------
\* Sums.  The sum of numbers w[i] over a finite set is the number of points
\* under them: this needs no recursion.

Points(w, S) == UNION {{i} \X (1 .. w[i]) : i \in S}
Area(w, S) == Cardinality(Points(w, S))

\* The points, one by one.
LEMMA PointsAre ==
  ASSUME NEW w, NEW S
  PROVE  \A p : p \in Points(w, S) <=> \E i \in S : \E j \in 1 .. w[i] : p = <<i, j>>
  BY DEF Points

\* The points under w.
LEMMA AreaFinite ==
  ASSUME NEW S, IsFiniteSet(S), NEW w \in [S -> Nat], NEW T \in SUBSET S
  PROVE  /\ IsFiniteSet(Points(w, T))
         /\ Area(w, T) \in Nat
<1> DEFINE F == [i \in T |-> {i} \X (1 .. w[i])]
           C == {{i} \X (1 .. w[i]) : i \in T}
<1>1. IsFiniteSet(T)
  BY FS_Subset
<1>2. IsFiniteSet(C)
  <2>1. {F[i] : i \in T} = C
    OBVIOUS
  <2>2. F \in Surjection(T, Range(F)) /\ C = Range(F)
    BY <2>1 DEF Surjection, Range
  <2> HIDE DEF F, C
  <2> QED BY <1>1, <2>2, FS_Surjection
<1>3. ASSUME NEW c \in C
      PROVE  IsFiniteSet(c)
  <2>1. PICK i \in T : c = {i} \X (1 .. w[i])
    OBVIOUS
  <2>2. IsFiniteSet({i}) /\ IsFiniteSet(1 .. w[i])
    <3>1. w[i] \in Int /\ 1 \in Int
      OBVIOUS
    <3> QED BY <3>1, FS_Singleton, FS_Interval
  <2> QED BY <2>1, <2>2, FS_Product
<1> HIDE DEF C
<1>4. IsFiniteSet(UNION C)
  BY <1>2, <1>3, FS_UNION
<1> QED BY <1>4, FS_CardinalityType DEF C, Area, Points

\* The points over two disjoint sets.
LEMMA AreaSplit ==
  ASSUME NEW S, IsFiniteSet(S), NEW w \in [S -> Nat],
         NEW T \in SUBSET S, NEW U \in SUBSET S, T \cap U = {}
  PROVE  Area(w, T \union U) = Area(w, T) + Area(w, U)
<1> DEFINE P(R) == Points(w, R)
<1>1. P(T \union U) = P(T) \union P(U)
  BY DEF Points
<1>2. P(T) \cap P(U) = {}
  BY DEF Points
<1>3. IsFiniteSet(P(T)) /\ IsFiniteSet(P(U)) /\ Area(w, T) \in Nat /\ Area(w, U) \in Nat
  <2>1. IsFiniteSet(P(T)) /\ Area(w, T) \in Nat
    BY AreaFinite
  <2>2. IsFiniteSet(P(U)) /\ Area(w, U) \in Nat
    BY AreaFinite
  <2> QED BY <2>1, <2>2
<1>4. Area(w, T) = Cardinality(P(T)) /\ Area(w, U) = Cardinality(P(U))
      /\ Area(w, T \union U) = Cardinality(P(T \union U))
  BY DEF Area
<1> HIDE DEF P
<1>5. Cardinality(P(T) \union P(U))
        = Cardinality(P(T)) + Cardinality(P(U)) - Cardinality(P(T) \cap P(U))
  BY <1>3, FS_Union
<1>6. Cardinality(P(T) \cap P(U)) = 0
  BY <1>2, FS_EmptySet
<1>7. Cardinality(P(T \union U)) = Cardinality(P(T) \union P(U))
  BY <1>1
<1> QED BY <1>3, <1>4, <1>5, <1>6, <1>7

\* ... over none, and over one.
LEMMA AreaOne ==
  ASSUME NEW S, IsFiniteSet(S), NEW w \in [S -> Nat]
  PROVE  /\ Area(w, {}) = 0
         /\ \A i \in S : Area(w, {i}) = w[i]
<1>1. Area(w, {}) = 0
  <2>1. Points(w, {}) = {}
    BY DEF Points
  <2> QED BY <2>1, FS_EmptySet DEF Area
<1>2. ASSUME NEW i \in S
      PROVE  Area(w, {i}) = w[i]
  <2> DEFINE I == {i}
             J == 1 .. w[i]
  <2>1. Points(w, I) = I \X J
    BY DEF Points
  <2>2. /\ IsFiniteSet(I) /\ Cardinality(I) = 1
        /\ IsFiniteSet(J) /\ Cardinality(J) = w[i] /\ w[i] \in Nat
    <3>1. w[i] \in Nat /\ w[i] \in Int /\ 1 \in Int
      OBVIOUS
    <3>2. IsFiniteSet(J) /\ Cardinality(J) = IF 1 > w[i] THEN 0 ELSE w[i] - 1 + 1
      BY <3>1, FS_Interval
    <3>3. IsFiniteSet(I) /\ Cardinality(I) = 1
      BY FS_Singleton
    <3> HIDE DEF I, J
    <3> QED BY <3>1, <3>2, <3>3
  <2> HIDE DEF I, J
  <2>3. Cardinality(I \X J) = Cardinality(I) * Cardinality(J)
    BY <2>2, FS_Product
  <2>4. Cardinality(I \X J) = w[i]
    BY <2>2, <2>3
  <2> QED BY <2>1, <2>4 DEF Area, I
<1> QED BY <1>1, <1>2

\* One place more adds its number.
LEMMA AreaAdd ==
  ASSUME NEW S, IsFiniteSet(S), NEW w \in [S -> Nat],
         NEW T \in SUBSET S, NEW i \in T
  PROVE  Area(w, T) = Area(w, T \ {i}) + w[i]
<1>1. Area(w, (T \ {i}) \union {i}) = Area(w, T \ {i}) + Area(w, {i})
  BY AreaSplit
<1>2. (T \ {i}) \union {i} = T
  OBVIOUS
<1> QED BY <1>1, <1>2, AreaOne

\* A sum as the folds of the library make it: from the greatest element down.
Sums(f, w, n) ==
  f = [s \in SUBSET (1 .. n) |->
         IF s = {} THEN 0 ELSE f[s \ {Max(s)}] + w[Max(s)]]

\* The greatest of a set of places is one of them.
LEMMA MaxIn ==
  ASSUME NEW n \in Nat, NEW s \in SUBSET (1 .. n), s # {}
  PROVE  Max(s) \in s /\ \A i \in s : Max(s) >= i
<1>1. \E m \in s : \A k \in s : m >= k
  <2>1. s \in SUBSET (0 .. n)
    OBVIOUS
  <2> QED BY <2>1, Least
<1> QED BY <1>1 DEF Max

\* There is such a sum, the area ...
LEMMA SumsExist ==
  ASSUME NEW n \in Nat, NEW w \in [1 .. n -> Nat]
  PROVE  Sums([s \in SUBSET (1 .. n) |-> Area(w, s)], w, n)
<1> DEFINE I == 1 .. n
           g == [s \in SUBSET I |-> Area(w, s)]
           h == [s \in SUBSET I |-> IF s = {} THEN 0 ELSE g[s \ {Max(s)}] + w[Max(s)]]
<1>1. IsFiniteSet(I)
  BY FS_Interval
<1>2. ASSUME NEW s \in SUBSET I
      PROVE  g[s] = h[s]
  <2>1. CASE s = {}
    BY <1>1, <2>1, AreaOne
  <2>2. CASE s # {}
    <3>1. Max(s) \in s
      BY <2>2, MaxIn
    <3>2. Area(w, s) = Area(w, s \ {Max(s)}) + w[Max(s)]
      <4> HIDE DEF I
      <4>1. w \in [I -> Nat]
        BY DEF I
      <4> QED BY <1>1, <3>1, <4>1, AreaAdd
    <3> QED BY <2>2, <3>2
  <2> QED BY <2>1, <2>2
<1>3. g = h
  <2> HIDE DEF I
  <2> QED BY <1>2
<1> QED BY <1>3 DEF Sums

\* ... and no other: a smallest set of places where it differs has a greatest
\* place, and without that it does not differ.
LEMMA SumsUnique ==
  ASSUME NEW n \in Nat, NEW w \in [1 .. n -> Nat], NEW f, Sums(f, w, n)
  PROVE  \A s \in SUBSET (1 .. n) : f[s] = Area(w, s)
<1> DEFINE I == 1 .. n
           B == {s \in SUBSET I : f[s] # Area(w, s)}
<1>1. IsFiniteSet(I)
  BY FS_Interval
<1>2. SUFFICES ASSUME B # {}
               PROVE  FALSE
  OBVIOUS
<1>3. B \subseteq SUBSET I
  OBVIOUS
<1>4. PICK s \in B : \A u \in B : u \subseteq s => u = s
  <2> HIDE DEF I, B
  <2> QED BY <1>1, <1>2, <1>3, MinimalSet
<1>5. f[s] = IF s = {} THEN 0 ELSE f[s \ {Max(s)}] + w[Max(s)]
  BY DEF Sums
<1>6. CASE s = {}
  BY <1>1, <1>5, <1>6, AreaOne
<1>7. CASE s # {}
  <2>1. Max(s) \in s
    BY <1>7, MaxIn
  <2>2. s \ {Max(s)} \notin B
    BY <1>4, <2>1
  <2>3. f[s \ {Max(s)}] = Area(w, s \ {Max(s)})
    BY <2>2
  <2>4. Area(w, s) = Area(w, s \ {Max(s)}) + w[Max(s)]
    <3>1. w \in [I -> Nat] /\ s \in SUBSET I
      OBVIOUS
    <3> HIDE DEF I
    <3> QED BY <1>1, <2>1, <3>1, AreaAdd
  <2> QED BY <1>5, <1>7, <2>3, <2>4
<1> QED BY <1>6, <1>7

\* A function and the same further on.
LEMMA AreaShift ==
  ASSUME NEW n \in Nat, NEW m \in Nat, NEW v \in [1 .. m -> Nat],
         NEW u \in [1 .. n + m -> Nat], \A i \in 1 .. m : u[i + n] = v[i]
  PROVE  Area(u, n + 1 .. n + m) = Area(v, 1 .. m)
<1> DEFINE P == Points(v, 1 .. m)
           Q == Points(u, n + 1 .. n + m)
           f == [p \in P |-> <<p[1] + n, p[2]>>]
<1>1. \A p : p \in P <=> \E i \in 1 .. m : \E j \in 1 .. v[i] : p = <<i, j>>
  <2> DEFINE I == 1 .. m
  <2> HIDE DEF I
  <2>1. \A p : p \in Points(v, I) <=> \E i \in I : \E j \in 1 .. v[i] : p = <<i, j>>
    BY PointsAre
  <2> QED BY <2>1 DEF I
<1>2. \A p : p \in Q <=> \E i \in n + 1 .. n + m : \E j \in 1 .. u[i] : p = <<i, j>>
  <2> DEFINE I == n + 1 .. n + m
  <2> HIDE DEF I
  <2>1. \A p : p \in Points(u, I) <=> \E i \in I : \E j \in 1 .. u[i] : p = <<i, j>>
    BY PointsAre
  <2> QED BY <2>1 DEF I
<1>3. IsFiniteSet(P)
  <2> DEFINE I == 1 .. m
  <2>1. IsFiniteSet(I)
    BY FS_Interval
  <2>2. v \in [I -> Nat] /\ I \in SUBSET I
    OBVIOUS
  <2> HIDE DEF I
  <2>3. IsFiniteSet(Points(v, I))
    BY <2>1, <2>2, AreaFinite
  <2> QED BY <2>3 DEF I
<1> HIDE DEF P, Q
<1>4. \A p \in P : f[p] \in Q
  <2> SUFFICES ASSUME NEW p \in P PROVE f[p] \in Q
    OBVIOUS
  <2>1. PICK i \in 1 .. m : \E j \in 1 .. v[i] : p = <<i, j>>
    BY <1>1
  <2>1a. PICK j \in 1 .. v[i] : p = <<i, j>>
    BY <2>1
  <2>2. f[p] = <<i + n, j>> /\ i + n \in n + 1 .. n + m /\ j \in 1 .. u[i + n]
    BY <2>1a
  <2> QED BY <1>2, <2>2
<1>5. \A p, s \in P : f[p] = f[s] => p = s
  <2> SUFFICES ASSUME NEW p \in P, NEW s \in P, f[p] = f[s] PROVE p = s
    OBVIOUS
  <2>1. PICK i \in 1 .. m : \E j \in 1 .. v[i] : p = <<i, j>>
    BY <1>1
  <2>1a. PICK j \in 1 .. v[i] : p = <<i, j>>
    BY <2>1
  <2>2. PICK k \in 1 .. m : \E l \in 1 .. v[k] : s = <<k, l>>
    BY <1>1
  <2>2a. PICK l \in 1 .. v[k] : s = <<k, l>>
    BY <2>2
  <2>3. f[p] = <<i + n, j>> /\ f[s] = <<k + n, l>>
    BY <2>1a, <2>2a
  <2>4. i + n = k + n /\ j = l
    BY <2>3
  <2> QED BY <2>1a, <2>2a, <2>4
<1>6. \A s \in Q : \E p \in P : f[p] = s
  <2> SUFFICES ASSUME NEW s \in Q PROVE \E p \in P : f[p] = s
    OBVIOUS
  <2>1. PICK i \in n + 1 .. n + m : \E j \in 1 .. u[i] : s = <<i, j>>
    BY <1>2
  <2>1a. PICK j \in 1 .. u[i] : s = <<i, j>>
    BY <2>1
  <2>2. i - n \in 1 .. m /\ (i - n) + n = i
    BY <2>1a
  <2>3. j \in 1 .. v[i - n]
    BY <2>1a, <2>2
  <2>4. <<i - n, j>> \in P
    BY <1>1, <2>2, <2>3
  <2>5. f[<<i - n, j>>] = <<(i - n) + n, j>>
    BY <2>4
  <2> QED BY <2>1a, <2>2, <2>4, <2>5
<1>7. f \in [P -> Q]
  BY <1>4
<1>8. f \in Bijection(P, Q)
  <2> HIDE DEF f
  <2> QED BY <1>5, <1>6, <1>7, Fun_IsBij
<1>9. ExistsBijection(P, Q)
  BY <1>8 DEF ExistsBijection
<1>10. Cardinality(Q) = Cardinality(P)
  BY <1>3, <1>9, FS_Bijection
<1> QED BY <1>10 DEF Area, P, Q

\* The sum of a sequence of numbers.
Total(w) == Area(w, DOMAIN w)

\* It adds up.
LEMMA TotalConcat ==
  ASSUME NEW u \in Seq(Nat), NEW v \in Seq(Nat)
  PROVE  /\ Total(u \o v) = Total(u) + Total(v)
         /\ Total(u) \in Nat /\ Total(v) \in Nat
<1> DEFINE n == Len(u)
           m == Len(v)
           w == u \o v
<1>1. /\ n \in Nat /\ m \in Nat /\ DOMAIN u = 1 .. n /\ DOMAIN v = 1 .. m
      /\ u \in [1 .. n -> Nat] /\ v \in [1 .. m -> Nat]
  OBVIOUS
<1>2. /\ w \in Seq(Nat) /\ Len(w) = n + m
      /\ \A i \in 1 .. n + m : w[i] = IF i <= n THEN u[i] ELSE v[i - n]
  <2>1. /\ u \o v \in Seq(Nat) /\ Len(u \o v) = Len(u) + Len(v)
        /\ \A i \in 1 .. Len(u) + Len(v) :
             (u \o v)[i] = IF i <= Len(u) THEN u[i] ELSE v[i - Len(u)]
    BY ConcatProperties
  <2> QED BY <2>1, Zenon
<1>3. DOMAIN w = 1 .. n + m /\ w \in [1 .. n + m -> Nat]
  <2>1. n + m \in Nat /\ w \in Seq(Nat) /\ Len(w) = n + m
    BY <1>1, <1>2
  <2> HIDE DEF n, m, w
  <2> QED BY <2>1
<1> HIDE DEF n, m, w
<1>4. Area(w, 1 .. n) = Area(u, 1 .. n)
  <2>1. \A i \in 1 .. n : w[i] = u[i]
    BY <1>1, <1>2
  <2>2. {{i} \X (1 .. w[i]) : i \in 1 .. n} = {{i} \X (1 .. u[i]) : i \in 1 .. n}
    BY <2>1
  <2> QED BY <2>2 DEF Area, Points
<1>5. Area(w, n + 1 .. n + m) = Area(v, 1 .. m)
  <2>1. \A i \in 1 .. m : w[i + n] = v[i]
    <3> SUFFICES ASSUME NEW i \in 1 .. m PROVE w[i + n] = v[i]
      OBVIOUS
    <3>1. i + n \in 1 .. n + m /\ ~(i + n <= n) /\ (i + n) - n = i
      BY <1>1
    <3> QED BY <1>2, <3>1
  <2> QED BY <1>1, <1>3, <2>1, AreaShift
<1>6. Area(w, (1 .. n) \union (n + 1 .. n + m)) = Area(w, 1 .. n) + Area(w, n + 1 .. n + m)
  <2> DEFINE S == 1 .. n + m
             T == 1 .. n
             U == n + 1 .. n + m
  <2>1. T \in SUBSET S /\ U \in SUBSET S /\ T \cap U = {} /\ w \in [S -> Nat]
    BY <1>1, <1>3
  <2>2. IsFiniteSet(S)
    BY <1>1, Intervals
  <2> HIDE DEF S, T, U
  <2>3. Area(w, T \union U) = Area(w, T) + Area(w, U)
    BY <2>1, <2>2, AreaSplit
  <2> QED BY <2>3 DEF T, U
<1>7. (1 .. n) \union (n + 1 .. n + m) = 1 .. n + m
  BY <1>1
<1>8. Area(u, 1 .. n) \in Nat /\ Area(v, 1 .. m) \in Nat
  <2> DEFINE T == 1 .. n
             U == 1 .. m
  <2>0. IsFiniteSet(T) /\ IsFiniteSet(U)
    BY <1>1, Intervals
  <2>1. T \in SUBSET T /\ u \in [T -> Nat] /\ U \in SUBSET U /\ v \in [U -> Nat]
    BY <1>1
  <2> HIDE DEF T, U
  <2>2. Area(u, T) \in Nat /\ Area(v, U) \in Nat
    BY <2>0, <2>1, AreaFinite
  <2> QED BY <2>2 DEF T, U
<1>9. /\ Total(w) = Area(w, 1 .. n + m)
      /\ Total(u) = Area(u, 1 .. n) /\ Total(v) = Area(v, 1 .. m)
  BY <1>1, <1>3 DEF Total
<1>10. Total(w) = Total(u) + Total(v) /\ Total(u) \in Nat /\ Total(v) \in Nat
  BY <1>4, <1>5, <1>6, <1>7, <1>8, <1>9
<1> QED BY <1>10 DEF w

\* ... from nothing.
LEMMA TotalOne ==
  /\ Total(<<>>) = 0
  /\ \A x \in Nat : Total(<<x>>) = x
<1>1. Total(<<>>) = 0
  <2>1. Total(<<>> \o <<>>) = Total(<<>>) + Total(<<>>) /\ Total(<<>>) \in Nat
    <3>1. <<>> \in Seq(Nat)
      OBVIOUS
    <3> QED BY <3>1, TotalConcat
  <2>2. <<>> \o <<>> = <<>>
    OBVIOUS
  <2> QED BY <2>1, <2>2
<1>2. ASSUME NEW x \in Nat
      PROVE  Total(<<x>>) = x
  <2> DEFINE S == {1}
             w == <<x>>
  <2>0. IsFiniteSet(S)
    BY FS_Singleton
  <2>1. w \in [S -> Nat] /\ DOMAIN w = S /\ w[1] = x
    OBVIOUS
  <2> HIDE DEF w
  <2>2. Area(w, {1}) = w[1]
    <3>1. 1 \in S
      OBVIOUS
    <3> HIDE DEF S
    <3> QED BY <2>0, <2>1, <3>1, AreaOne
  <2>3. Total(w) = x
    BY <2>1, <2>2 DEF Total
  <2> QED BY <2>3 DEF w
<1> QED BY <1>1, <1>2

-----------------------------------------------------------------------------
\* Lists of blocks.  A block that starts at most one past its end has a length;
\* its buffer has room for its bytes and Overhead.
Sound == {b \in Block : /\ 1 <= b.from /\ b.from <= b.to + 1
                        /\ b.to + 1 - b.from + Overhead <= b.alloc}

\* The numbers of such a block.
LEMMA SoundBlock ==
  ASSUME NEW b \in Sound
  PROVE  /\ b \in Block /\ b.from \in Nat \ {0} /\ b.to \in Nat /\ b.alloc \in Nat
         /\ BLEN(b) \in Nat /\ BLEN(b) = b.to + 1 - b.from
  BY DEF Sound, Block, BLEN

\* The bytes and the buffer of each block.
Lengths(bs) == [i \in DOMAIN bs |-> BLEN(bs[i])]
Allocs(bs) == [i \in DOMAIN bs |-> bs[i].alloc]

\* They are sequences of numbers, as long as the list.
LEMMA Measures ==
  ASSUME NEW bs \in Seq(Sound)
  PROVE  /\ Len(bs) \in Nat /\ DOMAIN bs = 1 .. Len(bs)
         /\ Lengths(bs) \in Seq(Nat) /\ Len(Lengths(bs)) = Len(bs)
         /\ Allocs(bs) \in Seq(Nat) /\ Len(Allocs(bs)) = Len(bs)
         /\ Lengths(bs) \in [1 .. Len(bs) -> Nat] /\ DOMAIN Lengths(bs) = 1 .. Len(bs)
         /\ Allocs(bs) \in [1 .. Len(bs) -> Nat] /\ DOMAIN Allocs(bs) = 1 .. Len(bs)
         /\ \A i \in 1 .. Len(bs) : /\ bs[i] \in Sound
                                    /\ Lengths(bs)[i] = BLEN(bs[i])
                                    /\ Allocs(bs)[i] = bs[i].alloc
<1> DEFINE n == Len(bs)
<1>1. n \in Nat /\ DOMAIN bs = 1 .. n /\ \A i \in 1 .. n : bs[i] \in Sound
  OBVIOUS
<1> HIDE DEF n
<1>2. \A i \in 1 .. n : BLEN(bs[i]) \in Nat /\ bs[i].alloc \in Nat
  BY <1>1, SoundBlock
<1>3. /\ Lengths(bs) \in [1 .. n -> Nat] /\ Allocs(bs) \in [1 .. n -> Nat]
      /\ \A i \in 1 .. n : Lengths(bs)[i] = BLEN(bs[i]) /\ Allocs(bs)[i] = bs[i].alloc
  BY <1>1, <1>2 DEF Lengths, Allocs
<1>4. \A f \in [1 .. n -> Nat] : f \in Seq(Nat) /\ Len(f) = n
  BY <1>1
<1> QED BY <1>1, <1>3, <1>4 DEF n

\* The fold of the library is the sum.
LEMMA BlocklenIs ==
  ASSUME NEW bs \in Seq(Sound)
  PROVE  Blocklen(bs) = Total(Lengths(bs))
<1> DEFINE n == Len(bs)
           w == Lengths(bs)
           P(f) == f = [s \in SUBSET DOMAIN bs |->
                          IF s = {} THEN 0 ELSE f[s \ {Max(s)}] + BLEN(bs[Max(s)])]
           g == [s \in SUBSET (1 .. n) |-> Area(w, s)]
<1>1. n \in Nat /\ DOMAIN bs = 1 .. n /\ w \in [1 .. n -> Nat] /\ DOMAIN w = 1 .. n
      /\ \A i \in 1 .. n : w[i] = BLEN(bs[i])
  BY Measures
<1>2. Blocklen(bs) = (CHOOSE f : P(f))[DOMAIN bs]
  BY DEF Blocklen, FoldLeft, MapThenFoldSet
<1>3. \A f : P(f) <=> Sums(f, w, n)
  <2>1. ASSUME NEW s \in SUBSET (1 .. n), s # {}
        PROVE  w[Max(s)] = BLEN(bs[Max(s)])
    BY <1>1, <2>1, MaxIn
  <2> HIDE DEF w, n
  <2>2. ASSUME NEW f
        PROVE  [s \in SUBSET (1 .. n) |-> IF s = {} THEN 0 ELSE f[s \ {Max(s)}] + BLEN(bs[Max(s)])]
             = [s \in SUBSET (1 .. n) |-> IF s = {} THEN 0 ELSE f[s \ {Max(s)}] + w[Max(s)]]
    BY <2>1
  <2> QED BY <1>1, <2>2 DEF Sums
<1>4. Sums(g, w, n)
  <2> HIDE DEF n, w
  <2> QED BY <1>1, SumsExist
<1> HIDE DEF P, g, n, w
<1>5. P(CHOOSE f : P(f))
  BY <1>3, <1>4
<1>6. Sums(CHOOSE f : P(f), w, n)
  BY <1>3, <1>5
<1>7. (CHOOSE f : P(f))[1 .. n] = Area(w, 1 .. n)
  BY <1>1, <1>6, SumsUnique
<1> QED BY <1>1, <1>2, <1>7 DEF Total, w

\* And so is the sum of the buffers.
LEMMA BlockalloclenIs ==
  ASSUME NEW bs \in Seq(Sound)
  PROVE  Blockalloclen(bs) = Total(Allocs(bs))
<1> DEFINE n == Len(bs)
           w == Allocs(bs)
           P(f) == f = [s \in SUBSET DOMAIN bs |->
                          IF s = {} THEN 0 ELSE f[s \ {Max(s)}] + bs[Max(s)].alloc]
           g == [s \in SUBSET (1 .. n) |-> Area(w, s)]
<1>1. n \in Nat /\ DOMAIN bs = 1 .. n /\ w \in [1 .. n -> Nat] /\ DOMAIN w = 1 .. n
      /\ \A i \in 1 .. n : w[i] = bs[i].alloc
  BY Measures
<1>2. Blockalloclen(bs) = (CHOOSE f : P(f))[DOMAIN bs]
  BY DEF Blockalloclen, FoldLeft, MapThenFoldSet
<1>3. \A f : P(f) <=> Sums(f, w, n)
  <2>1. ASSUME NEW s \in SUBSET (1 .. n), s # {}
        PROVE  w[Max(s)] = bs[Max(s)].alloc
    BY <1>1, <2>1, MaxIn
  <2> HIDE DEF w, n
  <2>2. ASSUME NEW f
        PROVE  [s \in SUBSET (1 .. n) |-> IF s = {} THEN 0 ELSE f[s \ {Max(s)}] + bs[Max(s)].alloc]
             = [s \in SUBSET (1 .. n) |-> IF s = {} THEN 0 ELSE f[s \ {Max(s)}] + w[Max(s)]]
    BY <2>1
  <2> QED BY <1>1, <2>2 DEF Sums
<1>4. Sums(g, w, n)
  <2> HIDE DEF n, w
  <2> QED BY <1>1, SumsExist
<1> HIDE DEF P, g, n, w
<1>5. P(CHOOSE f : P(f))
  BY <1>3, <1>4
<1>6. Sums(CHOOSE f : P(f), w, n)
  BY <1>3, <1>5
<1>7. (CHOOSE f : P(f))[1 .. n] = Area(w, 1 .. n)
  BY <1>1, <1>6, SumsUnique
<1> QED BY <1>1, <1>2, <1>7 DEF Total, w

\* A sequence that is one and then another.
LEMMA Joined ==
  ASSUME NEW u \in Seq(Nat), NEW v \in Seq(Nat), NEW w \in Seq(Nat),
         Len(w) = Len(u) + Len(v),
         \A i \in 1 .. Len(u) : w[i] = u[i],
         \A i \in 1 .. Len(v) : w[i + Len(u)] = v[i]
  PROVE  w = u \o v
<1>1. /\ u \o v \in Seq(Nat) /\ Len(u \o v) = Len(u) + Len(v)
      /\ \A i \in 1 .. Len(u) + Len(v) :
           (u \o v)[i] = IF i <= Len(u) THEN u[i] ELSE v[i - Len(u)]
  BY ConcatProperties
<1>2. ASSUME NEW i \in 1 .. Len(w)
      PROVE  w[i] = (u \o v)[i]
  <2>1. CASE i <= Len(u)
    BY <1>1, <2>1
  <2>2. CASE ~(i <= Len(u))
    <3>1. i - Len(u) \in 1 .. Len(v) /\ (i - Len(u)) + Len(u) = i
      BY <2>2
    <3>2. w[i] = v[i - Len(u)]
      BY <3>1
    <3> QED BY <1>1, <2>2, <3>2
  <2> QED BY <2>1, <2>2
<1> QED BY <1>1, <1>2, SeqEqual

\* blocklen and blockalloclen of lists that are put together.
LEMMA BlocksConcat ==
  ASSUME NEW us \in Seq(Sound), NEW bs \in Seq(Sound)
  PROVE  /\ Blocklen(us \o bs) = Blocklen(us) + Blocklen(bs)
         /\ Blockalloclen(us \o bs) = Blockalloclen(us) + Blockalloclen(bs)
         /\ Blocklen(us) \in Nat /\ Blocklen(bs) \in Nat
         /\ Blockalloclen(us) \in Nat /\ Blockalloclen(bs) \in Nat
<1> DEFINE cs == us \o bs
           n == Len(us)
           m == Len(bs)
<1>1. /\ cs \in Seq(Sound) /\ Len(cs) = n + m
      /\ \A i \in 1 .. n + m : cs[i] = IF i <= n THEN us[i] ELSE bs[i - n]
  <2>1. /\ us \o bs \in Seq(Sound) /\ Len(us \o bs) = Len(us) + Len(bs)
        /\ \A i \in 1 .. Len(us) + Len(bs) :
             (us \o bs)[i] = IF i <= Len(us) THEN us[i] ELSE bs[i - Len(us)]
    BY ConcatProperties
  <2> QED BY <2>1, Zenon
<1>1a. Len(us) = n /\ Len(bs) = m /\ n \in Nat /\ m \in Nat
  BY LenProperties
<1> HIDE DEF cs, n, m
<1>1b. /\ \A i \in 1 .. n : /\ Lengths(cs)[i] = Lengths(us)[i]
                            /\ Allocs(cs)[i] = Allocs(us)[i]
       /\ \A i \in 1 .. m : /\ Lengths(cs)[i + n] = Lengths(bs)[i]
                            /\ Allocs(cs)[i + n] = Allocs(bs)[i]
  <2>1. /\ \A i \in 1 .. n : Lengths(us)[i] = BLEN(us[i]) /\ Allocs(us)[i] = us[i].alloc
        /\ \A i \in 1 .. m : Lengths(bs)[i] = BLEN(bs[i]) /\ Allocs(bs)[i] = bs[i].alloc
    BY <1>1a, Measures
  <2>2. \A i \in 1 .. n + m : Lengths(cs)[i] = BLEN(cs[i]) /\ Allocs(cs)[i] = cs[i].alloc
    <3>1. \A i \in 1 .. Len(cs) : Lengths(cs)[i] = BLEN(cs[i]) /\ Allocs(cs)[i] = cs[i].alloc
      <4>1. cs \in Seq(Sound)
        BY <1>1
      <4> QED BY <4>1, Measures
    <3>2. Len(cs) = n + m
      BY <1>1
    <3> QED BY <3>1, <3>2
  <2>3. ASSUME NEW i \in 1 .. n
        PROVE  i \in 1 .. n + m /\ cs[i] = us[i]
    <3>1. n \in Nat /\ m \in Nat
      BY <1>1a
    <3>2. i \in 1 .. n + m /\ i <= n
      BY <3>1
    <3>3. \A j \in 1 .. n + m : cs[j] = IF j <= n THEN us[j] ELSE bs[j - n]
      BY <1>1
    <3> QED BY <3>2, <3>3
  <2>4. ASSUME NEW i \in 1 .. m
        PROVE  i + n \in 1 .. n + m /\ cs[i + n] = bs[i]
    <3>1. i + n \in 1 .. n + m /\ ~(i + n <= n) /\ (i + n) - n = i
      BY <1>1a
    <3> QED BY <1>1, <3>1
  <2> QED BY <2>1, <2>2, <2>3, <2>4
<1>2. Lengths(cs) = Lengths(us) \o Lengths(bs)
  <2>1. /\ Lengths(us) \in Seq(Nat) /\ Len(Lengths(us)) = n
        /\ Lengths(bs) \in Seq(Nat) /\ Len(Lengths(bs)) = m
        /\ Lengths(cs) \in Seq(Nat) /\ Len(Lengths(cs)) = n + m
    BY <1>1, <1>1a, Measures
  <2>2. \A i \in 1 .. n : Lengths(cs)[i] = Lengths(us)[i]
    BY <1>1a, <1>1b
  <2>3. \A i \in 1 .. m : Lengths(cs)[i + n] = Lengths(bs)[i]
    BY <1>1a, <1>1b
  <2> QED BY <2>1, <2>2, <2>3, Joined
<1>3. Allocs(cs) = Allocs(us) \o Allocs(bs)
  <2>1. /\ Allocs(us) \in Seq(Nat) /\ Len(Allocs(us)) = n
        /\ Allocs(bs) \in Seq(Nat) /\ Len(Allocs(bs)) = m
        /\ Allocs(cs) \in Seq(Nat) /\ Len(Allocs(cs)) = n + m
    BY <1>1, <1>1a, Measures
  <2>2. \A i \in 1 .. n : Allocs(cs)[i] = Allocs(us)[i]
    BY <1>1a, <1>1b
  <2>3. \A i \in 1 .. m : Allocs(cs)[i + n] = Allocs(bs)[i]
    BY <1>1a, <1>1b
  <2> QED BY <2>1, <2>2, <2>3, Joined
<1>4. /\ Total(Lengths(cs)) = Total(Lengths(us)) + Total(Lengths(bs))
      /\ Total(Lengths(us)) \in Nat /\ Total(Lengths(bs)) \in Nat
      /\ Total(Allocs(cs)) = Total(Allocs(us)) + Total(Allocs(bs))
      /\ Total(Allocs(us)) \in Nat /\ Total(Allocs(bs)) \in Nat
  BY <1>2, <1>3, Measures, TotalConcat
<1>5. /\ Blocklen(cs) = Total(Lengths(cs)) /\ Blockalloclen(cs) = Total(Allocs(cs))
      /\ Blocklen(us) = Total(Lengths(us)) /\ Blockalloclen(us) = Total(Allocs(us))
      /\ Blocklen(bs) = Total(Lengths(bs)) /\ Blockalloclen(bs) = Total(Allocs(bs))
  BY <1>1, BlocklenIs, BlockalloclenIs
<1> QED BY <1>4, <1>5 DEF cs

\* ... of no block, and of one.
LEMMA BlocksOne ==
  /\ Blocklen(<<>>) = 0 /\ Blockalloclen(<<>>) = 0
  /\ \A b \in Sound : /\ Blocklen(<<b>>) = BLEN(b) /\ Blockalloclen(<<b>>) = b.alloc
                      /\ BLEN(b) \in Nat /\ b.alloc \in Nat
<1>1. <<>> \in Seq(Sound) /\ Lengths(<<>>) = <<>> /\ Allocs(<<>>) = <<>>
  BY DEF Lengths, Allocs
<1>2. ASSUME NEW b \in Sound
      PROVE  /\ Blocklen(<<b>>) = BLEN(b) /\ Blockalloclen(<<b>>) = b.alloc
             /\ BLEN(b) \in Nat /\ b.alloc \in Nat
  <2>1. <<b>> \in Seq(Sound) /\ DOMAIN <<b>> = {1} /\ <<b>>[1] = b
    OBVIOUS
  <2>2. Lengths(<<b>>) = <<BLEN(b)>> /\ Allocs(<<b>>) = <<b.alloc>>
    BY <2>1 DEF Lengths, Allocs
  <2> QED BY <2>1, <2>2, BlocklenIs, BlockalloclenIs, TotalOne, SoundBlock
<1> QED BY <1>1, <1>2, BlocklenIs, BlockalloclenIs, TotalOne

-----------------------------------------------------------------------------
\* The bytes of a list of blocks.  Next(i) is where block i is to start, or
\* after the last block the byte that comes after the list.
Chain(bs, first, last) ==
  \A i \in 1 .. Len(bs) + 1 :
    (IF i <= Len(bs) THEN bs[i].from ELSE last + 1)
      = IF i = 1 THEN first ELSE bs[i - 1].to + 1

\* This is what Contiguous says with sequences.
LEMMA ContiguousIs ==
  ASSUME NEW Q, Q.blocks \in Seq(Sound), NEW first \in Nat, NEW last \in Nat
  PROVE  Contiguous(Q, first, last) <=> Chain(Q.blocks, first, last)
<1> DEFINE bs == Q.blocks
           n == Len(bs)
           starts == [i \in DOMAIN bs |-> bs[i].from]
           ends == [i \in DOMAIN bs |-> bs[i].to]
           nexts == [i \in DOMAIN ends |-> ends[i] + 1]
           X == starts \o <<last + 1>>
           Y == <<first>> \o nexts
<1>1. n \in Nat /\ DOMAIN bs = 1 .. n /\ \A i \in 1 .. n : bs[i] \in Sound
  BY LenProperties, ElementOfSeq
<1>2. Contiguous(Q, first, last) <=> X = Y
  BY DEF Contiguous
<1> HIDE DEF n, bs
<1>3. \A i \in 1 .. n : bs[i].from \in Nat /\ bs[i].to \in Nat
  BY <1>1, SoundBlock
<1>4. /\ starts \in [1 .. n -> Nat] /\ nexts \in [1 .. n -> Nat]
      /\ \A i \in 1 .. n : starts[i] = bs[i].from /\ nexts[i] = bs[i].to + 1
  BY <1>1, <1>3
<1> HIDE DEF starts, ends, nexts
<1>5. \A f \in [1 .. n -> Nat] : f \in Seq(Nat) /\ Len(f) = n
  BY <1>1
<1>6. /\ starts \in Seq(Nat) /\ Len(starts) = n
      /\ nexts \in Seq(Nat) /\ Len(nexts) = n
  BY <1>4, <1>5
<1>7. /\ <<last + 1>> \in Seq(Nat) /\ Len(<<last + 1>>) = 1 /\ <<last + 1>>[1] = last + 1
      /\ <<first>> \in Seq(Nat) /\ Len(<<first>>) = 1 /\ <<first>>[1] = first
  OBVIOUS
<1>8. /\ X \in Seq(Nat) /\ Len(X) = n + 1
      /\ \A i \in 1 .. n + 1 : X[i] = IF i <= n THEN starts[i] ELSE <<last + 1>>[i - n]
  BY <1>6, <1>7, ConcatProperties
<1>9. /\ Y \in Seq(Nat) /\ Len(Y) = 1 + n
      /\ \A i \in 1 .. 1 + n : Y[i] = IF i <= 1 THEN <<first>>[i] ELSE nexts[i - 1]
  BY <1>6, <1>7, ConcatProperties
<1> HIDE DEF X, Y
<1>10. ASSUME NEW i \in 1 .. n + 1
       PROVE  /\ X[i] = IF i <= n THEN bs[i].from ELSE last + 1
              /\ Y[i] = IF i = 1 THEN first ELSE bs[i - 1].to + 1
  <2>1. n \in Nat /\ i \in Nat /\ (i <= n => i \in 1 .. n) /\ (~(i <= n) => i - n = 1)
        /\ (i <= 1 <=> i = 1) /\ (i # 1 => i - 1 \in 1 .. n) /\ i \in 1 .. 1 + n
    BY <1>1
  <2>2. X[i] = IF i <= n THEN starts[i] ELSE <<last + 1>>[i - n]
    BY <1>8
  <2>3. Y[i] = IF i <= 1 THEN <<first>>[i] ELSE nexts[i - 1]
    BY <1>9, <2>1
  <2>4. X[i] = IF i <= n THEN bs[i].from ELSE last + 1
    BY <1>4, <1>7, <2>1, <2>2
  <2>5. Y[i] = IF i = 1 THEN first ELSE bs[i - 1].to + 1
    BY <1>4, <1>7, <2>1, <2>3
  <2> QED BY <2>4, <2>5
<1>11. X = Y <=> \A i \in 1 .. n + 1 : X[i] = Y[i]
  <2>1. Len(X) = n + 1 /\ Len(Y) = n + 1
    BY <1>1, <1>8, <1>9
  <2>2. X \in Seq(Nat) /\ Y \in Seq(Nat)
    BY <1>8, <1>9
  <2>3. (\A i \in 1 .. Len(X) : X[i] = Y[i]) => X = Y
    BY <2>1, <2>2, SeqEqual
  <2> QED BY <2>1, <2>3
<1>12. Chain(bs, first, last) <=> \A i \in 1 .. n + 1 : X[i] = Y[i]
  BY <1>10 DEF Chain, n
<1> QED BY <1>2, <1>11, <1>12 DEF bs

\* No block.
LEMMA ChainNone ==
  ASSUME NEW first \in Nat, NEW last \in Nat
  PROVE  Chain(<<>>, first, last) <=> first = last + 1
<1>1. Len(<<>>) = 0 /\ 1 .. 0 + 1 = {1}
  OBVIOUS
<1> QED BY <1>1 DEF Chain

\* A block is added, after the last byte.
LEMMA ChainAppend ==
  ASSUME NEW bs \in Seq(Sound), NEW b \in Sound, NEW first \in Nat, NEW last \in Nat,
         Chain(bs, first, last), b.from = last + 1
  PROVE  Chain(Append(bs, b), first, b.to)
<1> DEFINE n == Len(bs)
           cs == Append(bs, b)
<1>1. n \in Nat /\ Len(cs) = n + 1 /\ (\A i \in 1 .. n : cs[i] = bs[i]) /\ cs[n + 1] = b
  BY AppendProperties, LenProperties
<1>2. \A i \in 1 .. n + 1 : (IF i <= n THEN bs[i].from ELSE last + 1)
                             = IF i = 1 THEN first ELSE bs[i - 1].to + 1
  BY DEF Chain
<1> HIDE DEF n, cs
<1>3. ASSUME NEW i \in 1 .. (n + 1) + 1
      PROVE  (IF i <= n + 1 THEN cs[i].from ELSE b.to + 1)
               = IF i = 1 THEN first ELSE cs[i - 1].to + 1
  <2>1. CASE i <= n
    <3>1. i \in 1 .. n /\ i \in 1 .. n + 1 /\ i <= n + 1 /\ (i # 1 => i - 1 \in 1 .. n)
      BY <1>1, <2>1
    <3>2. cs[i] = bs[i] /\ (i # 1 => cs[i - 1] = bs[i - 1])
      BY <1>1, <3>1
    <3> QED BY <1>2, <2>1, <3>1, <3>2
  <2>2. CASE i = n + 1
    <3>1. i \in 1 .. n + 1 /\ ~(i <= n) /\ i <= n + 1 /\ (i # 1 => i - 1 \in 1 .. n)
      BY <1>1, <2>2
    <3>2. cs[i] = b /\ (i # 1 => cs[i - 1] = bs[i - 1])
      BY <1>1, <2>2, <3>1
    <3> QED BY <1>2, <3>1, <3>2
  <2>3. CASE i = n + 2
    <3>1. ~(i <= n + 1) /\ i # 1 /\ i - 1 = n + 1
      BY <1>1, <2>3
    <3> QED BY <1>1, <3>1
  <2>4. i <= n \/ i = n + 1 \/ i = n + 2
    BY <1>1
  <2> QED BY <2>1, <2>2, <2>3, <2>4
<1>4. Chain(cs, first, b.to)
  BY <1>1, <1>3 DEF Chain
<1> QED BY <1>4 DEF cs

\* The first blocks are taken away.
LEMMA ChainRest ==
  ASSUME NEW bs \in Seq(Sound), NEW first \in Nat, NEW last \in Nat,
         Chain(bs, first, last), NEW k \in 1 .. Len(bs)
  PROVE  Chain(SubSeq(bs, k + 1, Len(bs)), bs[k].to + 1, last)
<1> DEFINE n == Len(bs)
           cs == SubSeq(bs, k + 1, n)
<1>1. n \in Nat /\ k \in 1 .. n /\ \A i \in 1 .. n : bs[i] \in Sound
  BY LenProperties, ElementOfSeq
<1>2. \A i \in 1 .. n + 1 : (IF i <= n THEN bs[i].from ELSE last + 1)
                             = IF i = 1 THEN first ELSE bs[i - 1].to + 1
  BY DEF Chain
<1> HIDE DEF n, cs
<1>3. Len(cs) = n - k /\ \A i \in 1 .. n - k : cs[i] = bs[k + i]
  <2>1. /\ k + 1 \in Int /\ n \in Int
        /\ \A i \in k + 1 .. n : bs[i] \in Sound
    BY <1>1
  <2>2. /\ Len(cs) = IF k + 1 <= n THEN n - (k + 1) + 1 ELSE 0
        /\ \A i \in 1 .. n - (k + 1) + 1 : cs[i] = bs[(k + 1) + i - 1]
    BY <2>1, SubSeqProperties DEF cs
  <2>3. (IF k + 1 <= n THEN n - (k + 1) + 1 ELSE 0) = n - k /\ n - (k + 1) + 1 = n - k
    BY <1>1
  <2>4. \A i \in 1 .. n - k : (k + 1) + i - 1 = k + i
    BY <1>1
  <2> QED BY <2>2, <2>3, <2>4
<1>4. ASSUME NEW i \in 1 .. (n - k) + 1
      PROVE  (IF i <= n - k THEN cs[i].from ELSE last + 1)
               = IF i = 1 THEN bs[k].to + 1 ELSE cs[i - 1].to + 1
  <2>1. /\ k + i \in 1 .. n + 1 /\ (i <= n - k <=> k + i <= n) /\ k + i # 1
        /\ (i = 1 => (k + i) - 1 = k) /\ (k + i) - 1 = k + (i - 1)
        /\ (i # 1 => i - 1 \in 1 .. n - k) /\ (i <= n - k => i \in 1 .. n - k)
    BY <1>1
  <2>2. (IF k + i <= n THEN bs[k + i].from ELSE last + 1) = bs[(k + i) - 1].to + 1
    BY <1>2, <2>1
  <2>3. (IF i <= n - k THEN cs[i].from ELSE last + 1)
          = (IF k + i <= n THEN bs[k + i].from ELSE last + 1)
    BY <1>3, <2>1
  <2>4. (IF i = 1 THEN bs[k].to + 1 ELSE cs[i - 1].to + 1) = bs[(k + i) - 1].to + 1
    BY <1>3, <2>1
  <2> QED BY <2>2, <2>3, <2>4
<1>5. Chain(cs, bs[k].to + 1, last)
  BY <1>3, <1>4 DEF Chain
<1> QED BY <1>5 DEF cs, n

\* A block is put back before the first.
LEMMA ChainPutback ==
  ASSUME NEW bs \in Seq(Sound), NEW b \in Sound, NEW last \in Nat,
         Chain(bs, b.to + 1, last)
  PROVE  Chain(<<b>> \o bs, b.from, last)
<1> DEFINE n == Len(bs)
           cs == <<b>> \o bs
<1>1. n \in Nat /\ Len(cs) = n + 1 /\ cs[1] = b /\ \A i \in 1 .. n : cs[i + 1] = bs[i]
  <2>1. <<b>> \in Seq(Sound) /\ Len(<<b>>) = 1 /\ <<b>>[1] = b /\ n \in Nat
    OBVIOUS
  <2> HIDE DEF n
  <2>2. Len(cs) = 1 + n /\ \A i \in 1 .. 1 + n : cs[i] = IF i <= 1 THEN <<b>>[i] ELSE bs[i - 1]
    BY <2>1, ConcatProperties DEF n
  <2> HIDE DEF cs
  <2>3. 1 \in 1 .. 1 + n /\ 1 + n = n + 1
        /\ \A i \in 1 .. n : i + 1 \in 1 .. 1 + n /\ ~(i + 1 <= 1) /\ (i + 1) - 1 = i
    BY <2>1
  <2> QED BY <2>1, <2>2, <2>3
<1>2. \A i \in 1 .. n + 1 : (IF i <= n THEN bs[i].from ELSE last + 1)
                             = IF i = 1 THEN b.to + 1 ELSE bs[i - 1].to + 1
  BY DEF Chain
<1> HIDE DEF n, cs
<1>3. ASSUME NEW i \in 1 .. (n + 1) + 1
      PROVE  (IF i <= n + 1 THEN cs[i].from ELSE last + 1)
               = IF i = 1 THEN b.from ELSE cs[i - 1].to + 1
  <2>1. CASE i = 1
    <3>1. i <= n + 1
      BY <1>1, <2>1
    <3> QED BY <1>1, <2>1, <3>1
  <2>2. CASE i # 1
    <3>1. /\ i - 1 \in 1 .. n + 1 /\ (i <= n + 1 <=> i - 1 <= n)
          /\ (i - 1 <= n => i - 1 \in 1 .. n) /\ (i - 1) + 1 = i
          /\ (i - 1 # 1 => (i - 1) - 1 \in 1 .. n /\ ((i - 1) - 1) + 1 = i - 1)
      BY <1>1, <2>2
    <3>2. i - 1 <= n => cs[i] = bs[i - 1]
      BY <1>1, <3>1
    <3>3. i - 1 # 1 => cs[i - 1] = bs[(i - 1) - 1]
      BY <1>1, <3>1
    <3>4. i - 1 = 1 => cs[i - 1] = b
      BY <1>1
    <3>5. (IF i - 1 <= n THEN bs[i - 1].from ELSE last + 1)
            = IF i - 1 = 1 THEN b.to + 1 ELSE bs[(i - 1) - 1].to + 1
      BY <1>2, <3>1
    <3> QED BY <2>2, <3>1, <3>2, <3>3, <3>4, <3>5
  <2> QED BY <2>1, <2>2
<1>4. Chain(cs, b.from, last)
  BY <1>1, <1>3 DEF Chain
<1> QED BY <1>4 DEF cs

\* Going from block to block, the bytes go up; over blocks of no length they
\* stay.
LEMMA ChainUp ==
  ASSUME NEW bs \in Seq(Sound), NEW first \in Nat \ {0}, NEW last \in Nat,
         Chain(bs, first, last)
  PROVE  /\ first <= last + 1
         /\ \A k \in 1 .. Len(bs) :
              (\A i \in 1 .. k : BLEN(bs[i]) = 0) => bs[k].to + 1 = first
<1> DEFINE n == Len(bs)
           E(i) == IF i = 0 THEN first - 1 ELSE bs[i].to
<1>1. n \in Nat /\ \A i \in 1 .. n : bs[i] \in Sound
  BY LenProperties, ElementOfSeq
<1>2. \A i \in 1 .. n + 1 : (IF i <= n THEN bs[i].from ELSE last + 1)
                             = IF i = 1 THEN first ELSE bs[i - 1].to + 1
  BY DEF Chain
<1> HIDE DEF n
<1>3. \A i \in 0 .. n : E(i) \in Nat
  <2>1. \A i \in 1 .. n : bs[i].to \in Nat
    BY <1>1, SoundBlock
  <2> QED BY <2>1
<1>4. ASSUME NEW i \in 0 .. n - 1
      PROVE  /\ i + 1 \in 1 .. n /\ bs[i + 1].from = E(i) + 1
             /\ E(i + 1) = bs[i + 1].to /\ E(i) <= E(i + 1)
             /\ BLEN(bs[i + 1]) = 0 => E(i) = E(i + 1)
  <2>1. i + 1 \in 1 .. n /\ i + 1 \in 1 .. n + 1 /\ i + 1 <= n /\ (i + 1) - 1 = i
        /\ (i + 1 = 1 <=> i = 0) /\ i + 1 # 0 /\ i \in 0 .. n
    BY <1>1
  <2>2. bs[i + 1].from = IF i = 0 THEN first ELSE bs[i].to + 1
    BY <1>2, <2>1
  <2>3. bs[i + 1].from = E(i) + 1
    BY <2>2
  <2>4. E(i + 1) = bs[i + 1].to
    BY <2>1
  <2>5. bs[i + 1].from <= bs[i + 1].to + 1 /\ bs[i + 1].to \in Nat
        /\ BLEN(bs[i + 1]) = bs[i + 1].to + 1 - bs[i + 1].from
    <3>1. bs[i + 1] \in Sound
      BY <1>1, <2>1
    <3> QED BY <3>1, SoundBlock DEF Sound
  <2>6. E(i) \in Nat
    BY <1>3, <2>1
  <2> HIDE DEF E
  <2> QED BY <2>1, <2>3, <2>4, <2>5, <2>6
<1>5. E(0) = first - 1 /\ E(n) = last
  <2>1. E(n) = last
    <3>1. n + 1 \in 1 .. n + 1 /\ ~(n + 1 <= n) /\ (n + 1) - 1 = n /\ (n + 1 = 1 <=> n = 0)
      BY <1>1
    <3>2. last + 1 = IF n = 0 THEN first ELSE bs[n].to + 1
      BY <1>2, <3>1
    <3>3. n # 0 => bs[n].to \in Nat
      <4>1. n # 0 => n \in 1 .. n
        BY <1>1
      <4> QED BY <1>1, <4>1, SoundBlock
    <3> QED BY <3>2, <3>3
  <2> QED BY <2>1
<1> HIDE DEF E
<1>6. E(0) <= E(n)
  <2> DEFINE P == {i \in 0 .. n : E(0) <= E(i)}
  <2>1. 0 \in P
    BY <1>1, <1>3
  <2>2. \A i \in 0 .. n - 1 : i \in P => i + 1 \in P
    <3> SUFFICES ASSUME NEW i \in 0 .. n - 1, i \in P
                 PROVE  i + 1 \in P
      OBVIOUS
    <3>1. i \in 0 .. n /\ i + 1 \in 0 .. n /\ 0 \in 0 .. n
      BY <1>1
    <3>2. E(0) \in Nat /\ E(i) \in Nat /\ E(i + 1) \in Nat
      BY <1>3, <3>1
    <3>3. E(i) <= E(i + 1) /\ E(0) <= E(i)
      BY <1>4
    <3> QED BY <3>1, <3>2, <3>3
  <2> HIDE DEF P
  <2>3. 0 .. n \subseteq P
    BY <1>1, <2>1, <2>2, UpTo
  <2> QED BY <1>1, <2>3 DEF P
<1>7. ASSUME NEW k \in 1 .. n, \A i \in 1 .. k : BLEN(bs[i]) = 0
      PROVE  bs[k].to + 1 = first
  <2> DEFINE P == {i \in 0 .. k : E(i) = E(0)}
  <2>1. 0 \in P /\ k \in Nat
    BY <1>1
  <2>2. \A i \in 0 .. k - 1 : i \in P => i + 1 \in P
    <3> SUFFICES ASSUME NEW i \in 0 .. k - 1, i \in P
                 PROVE  i + 1 \in P
      OBVIOUS
    <3>1. i \in 0 .. n - 1 /\ i + 1 \in 0 .. k /\ i + 1 \in 1 .. k
      BY <1>1, <1>7
    <3>2. E(i) = E(i + 1)
      BY <1>4, <1>7, <3>1
    <3> QED BY <3>1, <3>2
  <2> HIDE DEF P
  <2>3. 0 .. k \subseteq P
    BY <2>1, <2>2, UpTo
  <2>4. E(k) = E(0)
    BY <2>1, <2>3 DEF P
  <2>5. E(k) = bs[k].to
    BY <1>7 DEF E
  <2> QED BY <1>5, <2>4, <2>5
<1>8. first <= last + 1
  BY <1>5, <1>6
<1> QED BY <1>7, <1>8 DEF n

-----------------------------------------------------------------------------
\* A Queue that holds the bytes first .. last, whose lengths are true.
Kept(Q, first, last) ==
  /\ Q \in Queues /\ Q.blocks \in Seq(Sound)
  /\ Accounted(Q)
  /\ Chain(Q.blocks, first, last)

\* r has other blocks than Q, and is Q else.
Alike(Q, r) ==
  /\ r.eof = Q.eof /\ r.closed = Q.closed /\ r.starve = Q.starve /\ r.flow = Q.flow
  /\ r.msg = Q.msg /\ r.coalesce = Q.coalesce /\ r.noblock = Q.noblock

\* The fields of a Queue.
LEMMA QueueFields ==
  ASSUME NEW Q \in Queues
  PROVE  /\ Q.blocks \in Seq(Block) /\ Q.len \in Nat /\ Q.dlen \in Nat /\ Q.eof \in 0 .. 4
         /\ Q.closed \in BOOLEAN /\ Q.starve \in BOOLEAN /\ Q.flow \in BOOLEAN
         /\ Q.msg \in BOOLEAN /\ Q.coalesce \in BOOLEAN /\ Q.noblock \in BOOLEAN
  BY DEF Queues

\* Sound blocks are blocks.
LEMMA SoundSeq == \A bs \in Seq(Sound) : bs \in Seq(Block)
<1>1. Sound \subseteq Block
  BY DEF Sound
<1> QED BY <1>1, SeqMonotonic

\* qaddlist of a block that goes on where the last ends.
LEMMA QaddlistKeeps ==
  ASSUME NEW Q, NEW first \in Nat \ {0}, NEW last \in Nat, Kept(Q, first, last),
         NEW b \in Sound, b.from = last + 1
  PROVE  /\ Kept(Qaddlist(Q, b), first, b.to) /\ Alike(Q, Qaddlist(Q, b))
         /\ Qaddlist(Q, b).blocks # <<>>
         /\ Qaddlist(Q, b).len = Q.len + b.alloc
<1> DEFINE bs == Q.blocks
           cs == Append(bs, b)
           r == Qaddlist(Q, b)
<1>1. Q \in Queues /\ bs \in Seq(Sound) /\ Q.len = Blockalloclen(bs) /\ Q.dlen = Blocklen(bs)
      /\ Chain(bs, first, last)
  BY DEF Kept, Accounted
<1>2. Q.len \in Nat /\ Q.dlen \in Nat
  BY <1>1, QueueFields
<1>3. b.alloc \in Nat /\ BLEN(b) \in Nat
  BY SoundBlock
<1> HIDE DEF bs
<1>4. cs \in Seq(Sound) /\ cs # <<>> /\ cs = bs \o <<b>>
  BY <1>1, AppendProperties, AppendIsConcat
<1>5. Blocklen(cs) = Blocklen(bs) + BLEN(b) /\ Blockalloclen(cs) = Blockalloclen(bs) + b.alloc
  <2>1. <<b>> \in Seq(Sound)
    OBVIOUS
  <2>2. /\ Blocklen(bs \o <<b>>) = Blocklen(bs) + Blocklen(<<b>>)
        /\ Blockalloclen(bs \o <<b>>) = Blockalloclen(bs) + Blockalloclen(<<b>>)
    BY <1>1, <2>1, BlocksConcat
  <2> QED BY <1>4, <2>2, BlocksOne
<1>6. Chain(cs, first, b.to)
  BY <1>1, ChainAppend
<1> HIDE DEF cs
<1>7. r = [Q EXCEPT !.blocks = cs, !.len = Q.len + b.alloc, !.dlen = Q.dlen + BLEN(b)]
  BY DEF Qaddlist, cs, bs
<1> HIDE DEF r
<1>8. /\ r \in Queues /\ Alike(Q, r)
      /\ r.blocks = cs /\ r.len = Q.len + b.alloc /\ r.dlen = Q.dlen + BLEN(b)
  <2> DEFINE l == Q.len + b.alloc
             d == Q.dlen + BLEN(b)
  <2>1. l \in Nat /\ d \in Nat
    BY <1>2, <1>3
  <2>2. Q \in Queues /\ cs \in Seq(Sound) /\ r = [Q EXCEPT !.blocks = cs, !.len = l, !.dlen = d]
    BY <1>1, <1>4, <1>7
  <2> HIDE DEF l, d
  <2>3. r \in Queues /\ Alike(Q, r) /\ r.blocks = cs /\ r.len = l /\ r.dlen = d
    BY <2>1, <2>2, SoundSeq DEF Queues, Alike
  <2> QED BY <2>3 DEF l, d
<1>9. Kept(r, first, b.to) /\ Alike(Q, r) /\ r.blocks # <<>> /\ r.len = Q.len + b.alloc
  BY <1>1, <1>4, <1>5, <1>6, <1>8 DEF Kept, Accounted
<1> QED BY <1>9 DEF r

\* qputback of a block that ends where the first begins.
LEMMA QputbackKeeps ==
  ASSUME NEW Q, NEW last \in Nat, NEW b \in Sound, Kept(Q, b.to + 1, last)
  PROVE  Kept(Qputback(Q, b), b.from, last) /\ Alike(Q, Qputback(Q, b))
<1> DEFINE bs == Q.blocks
           cs == <<b>> \o bs
           r == Qputback(Q, b)
<1>1. Q \in Queues /\ bs \in Seq(Sound) /\ Q.len = Blockalloclen(bs) /\ Q.dlen = Blocklen(bs)
      /\ Chain(bs, b.to + 1, last)
  BY DEF Kept, Accounted
<1>2. Q.len \in Nat /\ Q.dlen \in Nat
  BY <1>1, QueueFields
<1>3. b.alloc \in Nat /\ BLEN(b) \in Nat
  BY SoundBlock
<1> HIDE DEF bs
<1>4. <<b>> \in Seq(Sound)
  OBVIOUS
<1>4a. cs \in Seq(Sound)
  BY <1>1, <1>4, ConcatProperties
<1>5. Blocklen(cs) = BLEN(b) + Blocklen(bs) /\ Blockalloclen(cs) = b.alloc + Blockalloclen(bs)
  <2>2. /\ Blocklen(<<b>> \o bs) = Blocklen(<<b>>) + Blocklen(bs)
        /\ Blockalloclen(<<b>> \o bs) = Blockalloclen(<<b>>) + Blockalloclen(bs)
    BY <1>1, <1>4, BlocksConcat
  <2> QED BY <2>2, BlocksOne
<1>6. Chain(cs, b.from, last)
  BY <1>1, ChainPutback
<1> HIDE DEF cs
<1>7. r = [Q EXCEPT !.blocks = cs, !.len = Q.len + b.alloc, !.dlen = Q.dlen + BLEN(b)]
  BY DEF Qputback, cs, bs
<1> HIDE DEF r
<1>8. /\ r \in Queues /\ Alike(Q, r)
      /\ r.blocks = cs /\ r.len = Q.len + b.alloc /\ r.dlen = Q.dlen + BLEN(b)
  <2> DEFINE l == Q.len + b.alloc
             d == Q.dlen + BLEN(b)
  <2>1. l \in Nat /\ d \in Nat
    BY <1>2, <1>3
  <2>2. Q \in Queues /\ cs \in Seq(Sound) /\ r = [Q EXCEPT !.blocks = cs, !.len = l, !.dlen = d]
    BY <1>1, <1>4a, <1>7
  <2> HIDE DEF l, d
  <2>3. r \in Queues /\ Alike(Q, r) /\ r.blocks = cs /\ r.len = l /\ r.dlen = d
    BY <2>1, <2>2, SoundSeq DEF Queues, Alike
  <2> QED BY <2>3 DEF l, d
<1>9. Q.len + b.alloc = b.alloc + Q.len /\ Q.dlen + BLEN(b) = BLEN(b) + Q.dlen
  BY <1>2, <1>3
<1>10. Kept(r, b.from, last) /\ Alike(Q, r)
  BY <1>1, <1>4a, <1>5, <1>6, <1>8, <1>9 DEF Kept, Accounted
<1> QED BY <1>10 DEF r

\* A list is its first k blocks and the rest.
LEMMA Parted ==
  ASSUME NEW bs \in Seq(Sound), NEW k \in 0 .. Len(bs)
  PROVE  /\ SubSeq(bs, 1, k) \in Seq(Sound) /\ SubSeq(bs, k + 1, Len(bs)) \in Seq(Sound)
         /\ SubSeq(bs, 1, k) \o SubSeq(bs, k + 1, Len(bs)) = bs
<1> DEFINE n == Len(bs)
<1>1. n \in Nat /\ k \in 0 .. n /\ \A i \in 1 .. n : bs[i] \in Sound
  BY LenProperties, ElementOfSeq
<1> HIDE DEF n
<1>2. SubSeq(bs, 1, k) \in Seq(Sound)
  <2>1. 1 \in Int /\ k \in Int /\ \A i \in 1 .. k : bs[i] \in Sound
    BY <1>1
  <2> QED BY <2>1, SubSeqProperties
<1>3. SubSeq(bs, k + 1, n) \in Seq(Sound)
  <2>1. k + 1 \in Int /\ n \in Int /\ \A i \in k + 1 .. n : bs[i] \in Sound
    BY <1>1
  <2> QED BY <2>1, SubSeqProperties
<1>4. SubSeq(bs, 1, k) \o SubSeq(bs, k + 1, n) = SubSeq(bs, 1, n)
  <2>1. 1 \in 1 .. n + 1 /\ k \in 1 - 1 .. n /\ n \in k .. n
    BY <1>1
  <2> QED BY <2>1, ConcatAdjacentSubSeq DEF n
<1>5. SubSeq(bs, 1, n) = bs
  BY SubSeqFull DEF n
<1> QED BY <1>2, <1>3, <1>4, <1>5 DEF n

\* qremove of the first k blocks.
LEMMA QremoveKeeps ==
  ASSUME NEW Q, NEW first \in Nat \ {0}, NEW last \in Nat, Kept(Q, first, last),
         NEW k \in 0 .. Len(Q.blocks)
  PROVE  /\ Kept(Qremove(Q, k), IF k = 0 THEN first ELSE Q.blocks[k].to + 1, last)
         /\ Alike(Q, Qremove(Q, k))
         /\ Qremove(Q, k).blocks = SubSeq(Q.blocks, k + 1, Len(Q.blocks))
         /\ Qremove(Q, k).len = Q.len - Blockalloclen(SubSeq(Q.blocks, 1, k))
<1> DEFINE bs == Q.blocks
           gone == SubSeq(bs, 1, k)
           cs == SubSeq(bs, k + 1, Len(bs))
           r == Qremove(Q, k)
           f == IF k = 0 THEN first ELSE bs[k].to + 1
<1>1. Q \in Queues /\ bs \in Seq(Sound) /\ Q.len = Blockalloclen(bs) /\ Q.dlen = Blocklen(bs)
      /\ Chain(bs, first, last)
  BY DEF Kept, Accounted
<1>1a. k \in 0 .. Len(bs)
  OBVIOUS
<1> HIDE DEF bs
<1>2. gone \in Seq(Sound) /\ cs \in Seq(Sound) /\ gone \o cs = bs
  BY <1>1, <1>1a, Parted
<1>3. r = [Q EXCEPT !.blocks = cs, !.len = Q.len - Blockalloclen(gone),
                    !.dlen = Q.dlen - Blocklen(gone)]
  BY DEF Qremove, gone, cs, bs
<1>4. Chain(cs, f, last)
  <2>1. CASE k = 0
    <3>1. cs = SubSeq(bs, 1, Len(bs)) /\ f = first
      BY <2>1
    <3> QED BY <1>1, <3>1, SubSeqFull
  <2>2. CASE k # 0
    <3>1. k \in 1 .. Len(bs) /\ f = bs[k].to + 1
      BY <1>1a, <2>2
    <3> QED BY <1>1, <3>1, ChainRest
  <2> QED BY <2>1, <2>2
<1> HIDE DEF gone, cs, r
<1>5. /\ Blocklen(bs) = Blocklen(gone) + Blocklen(cs)
      /\ Blockalloclen(bs) = Blockalloclen(gone) + Blockalloclen(cs)
      /\ Blocklen(gone) \in Nat /\ Blocklen(cs) \in Nat
      /\ Blockalloclen(gone) \in Nat /\ Blockalloclen(cs) \in Nat
  BY <1>2, BlocksConcat
<1>6. Q.len - Blockalloclen(gone) = Blockalloclen(cs) /\ Q.dlen - Blocklen(gone) = Blocklen(cs)
  BY <1>1, <1>5
<1>7. /\ r \in Queues /\ Alike(Q, r)
      /\ r.blocks = cs /\ r.len = Blockalloclen(cs) /\ r.dlen = Blocklen(cs)
  <2> DEFINE l == Q.len - Blockalloclen(gone)
             d == Q.dlen - Blocklen(gone)
  <2>1. l \in Nat /\ d \in Nat
    BY <1>5, <1>6
  <2>2. Q \in Queues /\ cs \in Seq(Sound) /\ r = [Q EXCEPT !.blocks = cs, !.len = l, !.dlen = d]
    BY <1>1, <1>2, <1>3
  <2>3. l = Blockalloclen(cs) /\ d = Blocklen(cs)
    BY <1>6
  <2> HIDE DEF l, d
  <2>4. r \in Queues /\ Alike(Q, r) /\ r.blocks = cs /\ r.len = l /\ r.dlen = d
    BY <2>1, <2>2, SoundSeq DEF Queues, Alike
  <2> QED BY <2>3, <2>4
<1>8. Kept(r, f, last) /\ Alike(Q, r) /\ r.blocks = cs
  BY <1>2, <1>4, <1>7 DEF Kept, Accounted
<1>9. r.len = Q.len - Blockalloclen(gone)
  BY <1>6, <1>7
<1> QED BY <1>8, <1>9 DEF r, cs, bs, gone

\* A coalescing read drops the zero length blocks at the head: no byte goes.
LEMMA EmptiesKeep ==
  ASSUME NEW Q, NEW first \in Nat \ {0}, NEW last \in Nat, Kept(Q, first, last)
  PROVE  /\ Kept(Qremove(Q, Empties(Q)), first, last)
         /\ Alike(Q, Qremove(Q, Empties(Q)))
<1> DEFINE bs == Q.blocks
           n == Len(bs)
           I == {i \in 1 .. n : BLEN(bs[i]) > 0}
           k == Empties(Q)
<1>1. bs \in Seq(Sound) /\ Chain(bs, first, last)
  BY DEF Kept
<1>2. n \in Nat /\ \A i \in 1 .. n : BLEN(bs[i]) \in Nat
  BY <1>1, LenProperties, ElementOfSeq, SoundBlock
<1>3. k = LET i == IF I # {} THEN Min(I) ELSE 0 IN IF i = 0 THEN n ELSE i - 1
  BY DEF Empties, SelectInSeq
<1>4. I # {} => Min(I) \in I /\ \A i \in I : Min(I) <= i
  <2> SUFFICES ASSUME I # {}
               PROVE  Min(I) \in I /\ \A i \in I : Min(I) <= i
    OBVIOUS
  <2>1. I \in SUBSET (0 .. n)
    OBVIOUS
  <2>1a. \A i \in I : i \in 1 .. n /\ BLEN(bs[i]) > 0
    OBVIOUS
  <2> HIDE DEF I, n
  <2>2. \E m \in I : \A i \in I : m <= i
    BY <1>2, <2>1, Least
  <2> QED BY <2>2 DEF Min
<1>5. k \in 0 .. n /\ \A i \in 1 .. k : BLEN(bs[i]) = 0
  <2>1. CASE I = {}
    <3>1. k = n
      BY <1>3, <2>1
    <3>2. \A i \in 1 .. n : ~(BLEN(bs[i]) > 0)
      BY <2>1
    <3> HIDE DEF n, bs, k
    <3>3. \A i \in 1 .. n : BLEN(bs[i]) = 0
      BY <1>2, <3>2
    <3> QED BY <1>2, <3>1, <3>3
  <2>2. CASE I # {}
    <3>1. Min(I) \in 1 .. n /\ \A i \in 1 .. n : BLEN(bs[i]) > 0 => Min(I) <= i
      BY <1>4, <2>2
    <3>2. k = Min(I) - 1
      <4>1. Min(I) # 0
        BY <3>1
      <4> HIDE DEF I, n, k
      <4> QED BY <1>3, <2>2, <4>1
    <3> HIDE DEF I, n, bs, k
    <3>3. k \in 0 .. n
      BY <1>2, <3>1, <3>2
    <3>4. ASSUME NEW i \in 1 .. k
          PROVE  BLEN(bs[i]) = 0
      <4>1. i \in 1 .. n /\ ~(Min(I) <= i)
        BY <1>2, <3>1, <3>2
      <4>2. BLEN(bs[i]) \in Nat /\ ~(BLEN(bs[i]) > 0)
        BY <1>2, <3>1, <4>1
      <4> QED BY <4>2
    <3> QED BY <3>3, <3>4
  <2> QED BY <2>1, <2>2
<1> HIDE DEF k, I
<1>6. (IF k = 0 THEN first ELSE bs[k].to + 1) = first
  <2>1. k # 0 => k \in 1 .. n
    BY <1>5
  <2> QED BY <1>1, <1>5, <2>1, ChainUp
<1>7. Kept(Qremove(Q, k), first, last) /\ Alike(Q, Qremove(Q, k))
  BY <1>5, <1>6, QremoveKeeps
<1> QED BY <1>7 DEF k

\* What a read takes: some blocks, and no more than the last of them too much.
LEMMA GrabIs ==
  ASSUME NEW Q, NEW first, NEW last, Kept(Q, first, last), Q.blocks # <<>>, NEW n \in Nat
  PROVE  /\ Grab(Q, n) \in 1 .. Len(Q.blocks)
         /\ Blocklen(SubSeq(Q.blocks, 1, Grab(Q, n))) \in Nat
         /\ Excess(Q, n) \in Int /\ Excess(Q, n) <= BLEN(Q.blocks[Grab(Q, n)])
<1> DEFINE bs == Q.blocks
           m == Len(bs)
           P(k) == /\ Blocklen(SubSeq(bs, 1, k)) >= n \/ k = m
                   /\ \A j \in 1 .. k - 1 : Blocklen(SubSeq(bs, 1, j)) < n
           k == Grab(Q, n)
<1>1. bs \in Seq(Sound) /\ m \in Nat \ {0}
  BY EmptySeq DEF Kept
<1>2. DOMAIN bs = 1 .. m /\ \A i \in 1 .. m : bs[i] \in Sound
  BY <1>1
<1>3. \A i \in 0 .. m : SubSeq(bs, 1, i) \in Seq(Sound) /\ Blocklen(SubSeq(bs, 1, i)) \in Nat
  <2>1. \A i \in 0 .. m : SubSeq(bs, 1, i) \in Seq(Sound)
    BY <1>1, Parted
  <2> QED BY <2>1, BlocksConcat
<1>4. k = IF Q.coalesce THEN CHOOSE i \in 1 .. m : P(i) ELSE 1
  BY <1>2 DEF Grab
<1> HIDE DEF k, m, bs
<1>5. \E i \in 1 .. m : P(i)
  <2> DEFINE S == {i \in 1 .. m : Blocklen(SubSeq(bs, 1, i)) >= n \/ i = m}
  <2>1. m \in S /\ S \in SUBSET (0 .. m)
    BY <1>1
  <2>2. \E i \in S : \A j \in S : i <= j
    <3> HIDE DEF S
    <3>1. S # {} /\ m \in Nat
      BY <1>1, <2>1
    <3> QED BY <2>1, <3>1, Least
  <2>3. PICK i \in S : \A j \in S : i <= j
    BY <2>2
  <2>4. ASSUME NEW j \in 1 .. i - 1
        PROVE  Blocklen(SubSeq(bs, 1, j)) < n
    <3>1. j \in 1 .. m /\ j \in 0 .. m /\ ~(i <= j)
      BY <1>1, <2>3
    <3>2. Blocklen(SubSeq(bs, 1, j)) \in Nat
      BY <1>3, <3>1
    <3>3. ~(Blocklen(SubSeq(bs, 1, j)) >= n)
      BY <2>3, <3>1
    <3> QED BY <3>2, <3>3
  <2> QED BY <2>3, <2>4
<1>6. k \in 1 .. m /\ \A j \in 1 .. k - 1 : Blocklen(SubSeq(bs, 1, j)) < n
  <2>1. CASE Q.coalesce
    <3>1. k \in 1 .. m /\ P(k)
      BY <1>4, <1>5, <2>1
    <3> QED BY <3>1
  <2>2. CASE ~Q.coalesce
    <3>1. k = 1
      BY <1>4, <2>2
    <3> QED BY <1>1, <3>1
  <2> QED BY <2>1, <2>2
<1>7. /\ Blocklen(SubSeq(bs, 1, k)) = Blocklen(SubSeq(bs, 1, k - 1)) + BLEN(bs[k])
      /\ BLEN(bs[k]) \in Nat
  <2>1. SubSeq(bs, 1, k) = SubSeq(bs, 1, k - 1) \o <<bs[k]>>
    <3>1. 1 \in 1 .. m /\ k \in 1 .. m
      BY <1>1, <1>6
    <3> QED BY <1>1, <3>1, SubSeqRecursiveSecond DEF m
  <2>2. bs[k] \in Sound /\ k - 1 \in 0 .. m
    BY <1>1, <1>2, <1>6
  <2>3. SubSeq(bs, 1, k - 1) \in Seq(Sound) /\ <<bs[k]>> \in Seq(Sound)
    BY <1>3, <2>2
  <2> QED BY <2>1, <2>2, <2>3, BlocksConcat, BlocksOne
<1>8. Blocklen(SubSeq(bs, 1, k - 1)) \in Nat /\ Blocklen(SubSeq(bs, 1, k - 1)) <= n
  <2>1. CASE k = 1
    <3>1. SubSeq(bs, 1, k - 1) = <<>>
      <4>1. k - 1 \in Int /\ k - 1 < 1 /\ 1 \in Int
        BY <2>1
      <4> QED BY <4>1, SubSeqEmpty
    <3>2. Blocklen(SubSeq(bs, 1, k - 1)) = 0
      BY <3>1, BlocksOne
    <3> HIDE <3>1
    <3> QED BY <3>2
  <2>2. CASE k # 1
    <3>1. k - 1 \in 1 .. k - 1 /\ k - 1 \in 0 .. m
      BY <1>1, <1>6, <2>2
    <3>2. Blocklen(SubSeq(bs, 1, k - 1)) \in Nat
      BY <1>3, <3>1
    <3>3. Blocklen(SubSeq(bs, 1, k - 1)) < n
      BY <1>6, <3>1
    <3> QED BY <3>2, <3>3
  <2> QED BY <2>1, <2>2
<1>9. Excess(Q, n) = Blocklen(SubSeq(bs, 1, k)) - n
  BY DEF Excess, bs, k
<1>10. /\ Blocklen(SubSeq(bs, 1, k)) \in Nat /\ Excess(Q, n) \in Int
       /\ Excess(Q, n) <= BLEN(bs[k])
  <2> DEFINE x == Blocklen(SubSeq(bs, 1, k))
             y == Blocklen(SubSeq(bs, 1, k - 1))
             z == BLEN(bs[k])
  <2>1. x = y + z /\ y \in Nat /\ z \in Nat /\ y <= n /\ Excess(Q, n) = x - n
    BY <1>7, <1>8, <1>9
  <2> HIDE DEF x, y, z
  <2>2. x \in Nat /\ Excess(Q, n) \in Int /\ Excess(Q, n) <= z
    BY <2>1
  <2> QED BY <2>2 DEF x, z
<1> QED BY <1>6, <1>10 DEF k, m, bs

\* splitblock: the last n bytes of a block.
LEMMA SplitblockIs ==
  ASSUME NEW b \in Sound, NEW n \in Nat, n <= BLEN(b)
  PROVE  /\ Splitblock(b, n) \in Sound
         /\ Splitblock(b, n).to = b.to /\ Splitblock(b, n).from = b.to + 1 - n
         /\ Splitblock(b, n).alloc <= b.alloc
<1>1. /\ b \in [from : Nat, to : Nat, alloc : Nat]
      /\ b.from \in Nat \ {0} /\ b.to \in Nat /\ b.alloc \in Nat
      /\ n <= b.to + 1 - b.from
      /\ b.to + 1 - b.from + Overhead <= b.alloc
  BY SoundBlock DEF Block, Sound
<1>2. /\ b.to + 1 - n \in Nat /\ 1 <= b.to + 1 - n /\ b.to + 1 - n <= b.to + 1
      /\ b.to + 1 - (b.to + 1 - n) + Overhead = n + Overhead
      /\ n + Overhead \in Nat /\ n + Overhead <= b.alloc
  BY <1>1, QueueAssumption
<1>3. CASE BLEN(b) - n < n
  <2> DEFINE c == [b EXCEPT !.from = b.to + 1 - n]
  <2>1. Splitblock(b, n) = c
    BY <1>3 DEF Splitblock
  <2>2. c \in Block /\ c.from = b.to + 1 - n /\ c.to = b.to /\ c.alloc = b.alloc
    BY <1>1, <1>2 DEF Block
  <2> HIDE DEF c
  <2> QED BY <1>1, <1>2, <2>1, <2>2 DEF Sound
<1>4. CASE ~(BLEN(b) - n < n)
  <2> DEFINE c == Allocb(b.to + 1 - n, b.to)
  <2>1. Splitblock(b, n) = c
    BY <1>4 DEF Splitblock
  <2>2. c \in Block /\ c.from = b.to + 1 - n /\ c.to = b.to /\ c.alloc = n + Overhead
    BY <1>1, <1>2 DEF Allocb, Block
  <2> HIDE DEF c
  <2> QED BY <1>1, <1>2, <2>1, <2>2 DEF Sound
<1> QED BY <1>3, <1>4

\* A read takes the bytes up to LastTaken, and leaves those after it.
LEMMA TakenKeeps ==
  ASSUME NEW Q, NEW first \in Nat \ {0}, NEW last \in Nat, Kept(Q, first, last),
         Q.blocks # <<>>, NEW n \in Nat
  PROVE  /\ LastTaken(Q, n) \in 0 .. last
         /\ Kept(Taken(Q, n), LastTaken(Q, n) + 1, last)
         /\ Alike(Q, Taken(Q, n))
         /\ Taken(Q, n).len <= Q.len
<1> DEFINE bs == Q.blocks
           k == Grab(Q, n)
           x == Excess(Q, n)
           Q1 == Qremove(Q, k)
           b == Splitblock(bs[k], x)
<1>1. bs \in Seq(Sound)
  BY DEF Kept
<1>2. /\ k \in 1 .. Len(bs) /\ Blocklen(SubSeq(bs, 1, k)) \in Nat
      /\ x \in Int /\ x <= BLEN(bs[k])
  BY GrabIs
<1>3. x = Blocklen(SubSeq(bs, 1, k)) - n
  BY DEF Excess
<1>4. bs[k] \in Sound
  BY <1>1, <1>2, ElementOfSeq
<1>5. bs[k].from \in Nat \ {0} /\ bs[k].to \in Nat /\ BLEN(bs[k]) = bs[k].to + 1 - bs[k].from
  BY <1>4, SoundBlock
<1>6. k # 0 /\ k \in 0 .. Len(bs)
  BY <1>2
<1>7. Kept(Q1, bs[k].to + 1, last) /\ Alike(Q, Q1)
      /\ Q1.len = Q.len - Blockalloclen(SubSeq(bs, 1, k))
  BY <1>6, QremoveKeeps
<1>7a. /\ Q.len \in Nat /\ Q1.len \in Nat
       /\ bs[k].alloc \in Nat /\ bs[k].alloc <= Blockalloclen(SubSeq(bs, 1, k))
       /\ Blockalloclen(SubSeq(bs, 1, k)) \in Nat
  <2>1. Q.len \in Nat /\ Q1.len \in Nat
    BY <1>7, QueueFields DEF Kept
  <2>2. SubSeq(bs, 1, k) = SubSeq(bs, 1, k - 1) \o <<bs[k]>>
    <3>1. 1 \in 1 .. Len(bs) /\ k \in 1 .. Len(bs)
      BY <1>2
    <3> HIDE DEF bs, k
    <3> QED BY <1>1, <3>1, SubSeqRecursiveSecond
  <2>3. SubSeq(bs, 1, k - 1) \in Seq(Sound) /\ <<bs[k]>> \in Seq(Sound)
    <3>1. k - 1 \in 0 .. Len(bs)
      BY <1>2
    <3> HIDE DEF bs, k
    <3> QED BY <1>1, <1>4, <3>1, Parted
  <2> HIDE DEF bs, k
  <2>4. /\ Blockalloclen(SubSeq(bs, 1, k)) = Blockalloclen(SubSeq(bs, 1, k - 1)) + bs[k].alloc
        /\ Blockalloclen(SubSeq(bs, 1, k - 1)) \in Nat /\ bs[k].alloc \in Nat
    BY <1>4, <2>2, <2>3, BlocksConcat, BlocksOne
  <2> QED BY <2>1, <2>4
<1>8. /\ Taken(Q, n) = IF Split(Q, n) THEN Qputback(Q1, b) ELSE Q1
      /\ LastTaken(Q, n) = bs[k].to - IF Split(Q, n) THEN x ELSE 0
      /\ Split(Q, n) => Blocklen(SubSeq(bs, 1, k)) > n
  BY DEF Taken, LastTaken, Split
<1> HIDE DEF bs, k, x, Q1
<1>9. CASE ~Split(Q, n)
  <2>1. LastTaken(Q, n) = bs[k].to /\ Taken(Q, n) = Q1
    BY <1>5, <1>8, <1>9
  <2>2. bs[k].to + 1 <= last + 1
    <3>1. Chain(Q1.blocks, bs[k].to + 1, last) /\ Q1.blocks \in Seq(Sound)
      BY <1>7 DEF Kept
    <3>2. bs[k].to + 1 \in Nat \ {0}
      BY <1>5
    <3> HIDE DEF b
    <3> QED BY <3>1, <3>2, ChainUp
  <2>3. LastTaken(Q, n) \in 0 .. last
    BY <1>5, <2>1, <2>2
  <2>4. Q1.len <= Q.len
    BY <1>7, <1>7a
  <2> QED BY <1>7, <2>1, <2>3, <2>4
<1>10. CASE Split(Q, n)
  <2>1. x \in Nat
    BY <1>2, <1>3, <1>8, <1>10
  <2>2. b \in Sound /\ b.to = bs[k].to /\ b.from = bs[k].to + 1 - x /\ b.alloc <= bs[k].alloc
    BY <1>2, <1>4, <2>1, SplitblockIs
  <2> HIDE DEF b
  <2>3. Kept(Q1, b.to + 1, last)
    BY <1>7, <2>2
  <2>4. Kept(Qputback(Q1, b), b.from, last) /\ Alike(Q1, Qputback(Q1, b))
    BY <2>2, <2>3, QputbackKeeps
  <2>5. Taken(Q, n) = Qputback(Q1, b) /\ LastTaken(Q, n) = bs[k].to - x
    BY <1>8, <1>10
  <2>6. Alike(Q, Taken(Q, n))
    BY <1>7, <2>4, <2>5 DEF Alike
  <2>7. b.from \in Nat \ {0} /\ b.from = LastTaken(Q, n) + 1 /\ LastTaken(Q, n) \in Int
    <3>1. b.from \in Nat \ {0}
      BY <2>2, SoundBlock
    <3>2. b.from = bs[k].to + 1 - x
      BY <2>2
    <3>3. bs[k].to \in Int /\ x \in Int
      BY <1>5, <2>1
    <3> HIDE DEF bs, k, x
    <3>4. b.from = (bs[k].to - x) + 1 /\ bs[k].to - x \in Int
      BY <3>2, <3>3
    <3> QED BY <2>5, <3>1, <3>4
  <2>8. b.from <= last + 1
    <3>1. Chain(Taken(Q, n).blocks, b.from, last) /\ Taken(Q, n).blocks \in Seq(Sound)
      BY <2>4, <2>5 DEF Kept
    <3> QED BY <2>7, <3>1, ChainUp
  <2>9. LastTaken(Q, n) \in 0 .. last
    BY <2>7, <2>8
  <2>10. Qputback(Q1, b).len <= Q.len
    <3>1. Qputback(Q1, b).len = Q1.len + b.alloc
      <4>1. Q1 \in [blocks : Seq(Block), len : Nat, dlen : Nat, eof : 0 .. 4,
                    closed : BOOLEAN, starve : BOOLEAN, flow : BOOLEAN,
                    msg : BOOLEAN, coalesce : BOOLEAN, noblock : BOOLEAN]
        BY <1>7 DEF Kept, Queues
      <4> QED BY <4>1 DEF Qputback
    <3>2. b.alloc \in Nat /\ b.alloc <= bs[k].alloc
      BY <2>2, SoundBlock
    <3> QED BY <1>7, <1>7a, <3>1, <3>2
  <2> QED BY <2>4, <2>5, <2>6, <2>7, <2>9, <2>10
<1> QED BY <1>9, <1>10

\* A block made for the next n bytes is added.
LEMMA AllocbIs ==
  ASSUME NEW m \in Nat, NEW n \in Nat
  PROVE  /\ Allocb(m + 1, m + n) \in Sound
         /\ Allocb(m + 1, m + n).from = m + 1 /\ Allocb(m + 1, m + n).to = m + n
         /\ Allocb(m + 1, m + n).alloc = n + Overhead
<1>1. m + n + 1 - (m + 1) + Overhead = n + Overhead /\ n + Overhead \in Nat
  BY QueueAssumption
<1>2. Allocb(m + 1, m + n) = [from |-> m + 1, to |-> m + n, alloc |-> n + Overhead]
  BY <1>1 DEF Allocb
<1>3. m + 1 \in Nat /\ m + n \in Nat /\ 1 <= m + 1 /\ m + 1 <= (m + n) + 1
      /\ (m + n) + 1 - (m + 1) + Overhead <= n + Overhead
  BY QueueAssumption
<1> DEFINE c == [from |-> m + 1, to |-> m + n, alloc |-> n + Overhead]
<1>4. c \in Block /\ c.from = m + 1 /\ c.to = m + n /\ c.alloc = n + Overhead
  BY <1>1, <1>3 DEF Block
<1> HIDE DEF c
<1>5. c \in Sound
  BY <1>3, <1>4 DEF Sound
<1> QED BY <1>2, <1>4, <1>5 DEF c

\* The bits of a Queue change: its blocks and lengths stay.
LEMMA BitsKeep ==
  ASSUME NEW Q, NEW first, NEW last, Kept(Q, first, last),
         NEW r, r \in Queues, r.blocks = Q.blocks, r.len = Q.len, r.dlen = Q.dlen
  PROVE  Kept(r, first, last)
  BY DEF Kept, Accounted

\* An empty Queue holds what comes after the last byte.
LEMMA EmptyKept ==
  ASSUME NEW Q \in Queues, NEW last \in Nat, Q.blocks = <<>>, Q.len = 0, Q.dlen = 0
  PROVE  Kept(Q, last + 1, last)
<1>1. <<>> \in Seq(Sound)
  OBVIOUS
<1>2. Chain(<<>>, last + 1, last)
  BY ChainNone
<1> QED BY <1>1, <1>2, BlocksOne DEF Kept, Accounted

-----------------------------------------------------------------------------
\* The inductive invariant.

\* Where a reader is in qread, and between qlock and qunlock of rlock.
InRead == {"rlock", "rsleep", "rasleep", "wakewr", "runlock"}
HasRlock == {"rsleep", "rasleep", "wakewr", "runlock"}

\* Where a writer is in the loop of qflow, and between qlock and qunlock of wlock.
InFlow == {"setflow", "wqlock", "wlock", "wasleep", "wunlock"}
HasWlock == {"wasleep", "wunlock"}

\* The queue holds what was queued and not read, and its lengths are true.
Held == Kept(q, ngot + 1, nput)

\* Who calls, with what, and under which lock.
Calls ==
  \A p \in Procs :
    /\ at[p] \in InRead => p \in Readers /\ want[p] # <<>>
    /\ at[p] = "put" => p \in Writers /\ want[p] # <<>>
    /\ at[p] \in InFlow \union {"flow"} => p \in Writers
    /\ at[p] \in HasRlock => rlock.hold = p
    /\ at[p] \in HasWlock => wlock.hold = p

\* A reader about to sleep, or asleep, on an empty queue has flagged it.
ReaderFlag ==
  \A p \in Procs :
    /\ at[p] = "rsleep" => q.starve \/ Notempty
    /\ at[p] = "rasleep" /\ p \notin tok =>
         rr = p /\ (Notempty => RrOwed) /\ (~Notempty => q.starve)

\* The invariant of every Queue.
IInv == TypeOK /\ Held /\ Calls /\ ReaderFlag

\* The writer of a queue with flow control is the only one to add to it, and
\* reads do not drop empty blocks.
LoneWriter(u) ==
  \A p \in Writers \intersect u.users :
    \/ u.noblock /\ Closer \notin u.users
    \/ ~u.coalesce /\ u.users \intersect (Writers \union Producers) = {p}

\* ... as they are now.
Lone == LoneWriter([users |-> users, noblock |-> q.noblock, coalesce |-> q.coalesce])

\* A writer that is to sleep has its flag in the queue, or finds room; one
\* that sleeps has its flag or its wakeup.
WriterFlag ==
  \A p \in Procs :
    /\ at[p] # "run" => p \in users
    /\ at[p] \in InFlow => ~(q.noblock /\ Closer \notin users)
    /\ at[p] \in {"wqlock", "wlock"} => q.flow \/ q.len < Limit
    /\ at[p] = "wasleep" /\ p \notin tok =>
         /\ wr = p /\ (q.flow \/ WrOwed)
         /\ q.closed \/ q.len < Limit \div 2 => WrOwed

\* The invariant of a Queue whose writers are alone.
FInv == IInv /\ Lone /\ WriterFlag

\* What sets bits of a Queue keeps its blocks and lengths.
Filled(Q, R) == R.blocks = Q.blocks /\ R.len = Q.len /\ R.dlen = Q.dlen

\* Qstarve is set or reset.
LEMMA SetStarve ==
  ASSUME NEW Q \in Queues, NEW b \in BOOLEAN
  PROVE  /\ [Q EXCEPT !.starve = b] \in Queues /\ Filled(Q, [Q EXCEPT !.starve = b])
         /\ [Q EXCEPT !.starve = b].starve = b
         /\ [Q EXCEPT !.starve = b].closed = Q.closed
         /\ [Q EXCEPT !.starve = b].flow = Q.flow
         /\ [Q EXCEPT !.starve = b].coalesce = Q.coalesce
         /\ [Q EXCEPT !.starve = b].noblock = Q.noblock
  BY DEF Queues, Filled

\* Qflow is set or reset.
LEMMA SetFlow ==
  ASSUME NEW Q \in Queues, NEW b \in BOOLEAN
  PROVE  /\ [Q EXCEPT !.flow = b] \in Queues /\ Filled(Q, [Q EXCEPT !.flow = b])
         /\ [Q EXCEPT !.flow = b].flow = b
         /\ [Q EXCEPT !.flow = b].closed = Q.closed
         /\ [Q EXCEPT !.flow = b].starve = Q.starve
         /\ [Q EXCEPT !.flow = b].coalesce = Q.coalesce
         /\ [Q EXCEPT !.flow = b].noblock = Q.noblock
  BY DEF Queues, Filled

\* A read at the end of the stream is counted.
LEMMA SetEof ==
  ASSUME NEW Q \in Queues
  PROVE  LET R == [Q EXCEPT !.eof = IF @ < 4 THEN @ + 1 ELSE @]
         IN /\ R \in Queues /\ Filled(Q, R)
            /\ R.flow = Q.flow /\ R.closed = Q.closed /\ R.starve = Q.starve
            /\ R.coalesce = Q.coalesce /\ R.noblock = Q.noblock
  BY DEF Queues, Filled

\* Writers are restarted.
LEMMA RestartedIs ==
  ASSUME NEW Q \in Queues
  PROVE  /\ Restarted(Q) \in Queues /\ Filled(Q, Restarted(Q))
         /\ Restarted(Q).flow <=> Q.flow /\ ~Restart(Q)
         /\ Restarted(Q).closed = Q.closed /\ Restarted(Q).starve = Q.starve
         /\ Restarted(Q).coalesce = Q.coalesce /\ Restarted(Q).noblock = Q.noblock
<1> DEFINE b == Q.flow /\ ~Restart(Q)
<1>1. b \in BOOLEAN
  OBVIOUS
<1>2. Restarted(Q) = [Q EXCEPT !.flow = b]
  BY DEF Restarted
<1> HIDE DEF b
<1>3. /\ Restarted(Q) \in Queues /\ Filled(Q, Restarted(Q))
      /\ Restarted(Q).flow = b
      /\ Restarted(Q).closed = Q.closed /\ Restarted(Q).starve = Q.starve
      /\ Restarted(Q).coalesce = Q.coalesce /\ Restarted(Q).noblock = Q.noblock
  BY <1>1, <1>2, SetFlow
<1> QED BY <1>3 DEF b

\* qhangup, qclose and qreopen.
LEMMA ClosesKeep ==
  ASSUME NEW Q, NEW first, NEW last \in Nat, Kept(Q, first, last)
  PROVE  /\ Kept(Qhungup(Q), first, last)
         /\ Kept(Qclosed(Q), last + 1, last)
         /\ Kept(Qreopened(Q), first, last)
<1>1. Q \in Queues
  BY DEF Kept
<1>2. /\ Qhungup(Q) \in Queues /\ Filled(Q, Qhungup(Q))
      /\ Qreopened(Q) \in Queues /\ Filled(Q, Qreopened(Q))
  <2>1. Qhungup(Q) \in Queues /\ Filled(Q, Qhungup(Q))
    BY <1>1 DEF Qhungup, Queues, Filled
  <2>2. Qreopened(Q) \in Queues /\ Filled(Q, Qreopened(Q))
    <3>1. 0 \in 0 .. 4
      OBVIOUS
    <3> QED BY <1>1, <3>1 DEF Qreopened, Queues, Filled
  <2> QED BY <2>1, <2>2
<1>3. Qclosed(Q) \in Queues /\ Qclosed(Q).blocks = <<>>
      /\ Qclosed(Q).len = 0 /\ Qclosed(Q).dlen = 0
  <2>1. <<>> \in Seq(Block)
    OBVIOUS
  <2> QED BY <1>1, <2>1 DEF Qclosed, Queues
<1> QED BY <1>2, <1>3, BitsKeep, EmptyKept DEF Filled

\* The queue a reader looks at holds the same bytes.
LEMMA SeenKept ==
  ASSUME TypeOK, Held
  PROVE  /\ Kept(Seen, ngot + 1, nput) /\ Alike(q, Seen)
         /\ ~q.coalesce => Seen = q
         /\ Seen \in Queues
<1>1. ngot + 1 \in Nat \ {0} /\ nput \in Nat
  BY DEF TypeOK
<1>2. Kept(q, ngot + 1, nput)
  BY DEF Held
<1>3. Alike(q, q)
  BY DEF Alike
<1>4. Kept(Qremove(q, Empties(q)), ngot + 1, nput) /\ Alike(q, Qremove(q, Empties(q)))
  BY <1>1, <1>2, EmptiesKeep
<1>5. Kept(Seen, ngot + 1, nput) /\ Alike(q, Seen) /\ (~q.coalesce => Seen = q)
  BY <1>2, <1>3, <1>4 DEF Seen
<1> QED BY <1>5 DEF Kept

\* A block is added.
LEMMA AddedKept ==
  ASSUME TypeOK, Held, NEW n \in Nat
  PROVE  /\ Kept(Added(n), ngot + 1, nput + n)
         /\ Added(n) \in Queues /\ nput + n \in Nat
         /\ Added(n).blocks # <<>>
         /\ Added(n).flow = q.flow /\ Added(n).closed = q.closed
         /\ Added(n).coalesce = q.coalesce /\ Added(n).noblock = q.noblock
         /\ Added(n).len >= q.len /\ Added(n).len \in Nat
<1> DEFINE b == Allocb(nput + 1, nput + n)
           R == Qaddlist(q, b)
<1>1. ngot + 1 \in Nat \ {0} /\ nput \in Nat /\ nput + n \in Nat
  BY DEF TypeOK
<1>2. b \in Sound /\ b.from = nput + 1 /\ b.to = nput + n /\ b.alloc = n + Overhead
  BY <1>1, AllocbIs
<1>3. Kept(q, ngot + 1, nput)
  BY DEF Held
<1> HIDE DEF b
<1>4. /\ Kept(R, ngot + 1, b.to) /\ Alike(q, R) /\ R.blocks # <<>>
      /\ R.len = q.len + b.alloc
  BY <1>1, <1>2, <1>3, QaddlistKeeps
<1>5. Added(n) = [R EXCEPT !.starve = FALSE]
  BY DEF Added, b
<1> HIDE DEF R
<1>6. R \in Queues /\ q.len \in Nat
  BY <1>3, <1>4, QueueFields DEF Kept
<1>7. /\ Added(n) \in Queues /\ Filled(R, Added(n))
      /\ Added(n).flow = R.flow /\ Added(n).closed = R.closed
      /\ Added(n).coalesce = R.coalesce /\ Added(n).noblock = R.noblock
  BY <1>5, <1>6, SetStarve
<1>8. Kept(Added(n), ngot + 1, nput + n)
  BY <1>2, <1>4, <1>7, BitsKeep DEF Filled
<1>9. Added(n).len >= q.len /\ Added(n).len \in Nat
  <2>1. n + Overhead \in Nat
    BY QueueAssumption
  <2> QED BY <1>2, <1>4, <1>6, <1>7, <2>1 DEF Filled
<1> QED BY <1>1, <1>4, <1>7, <1>8, <1>9 DEF Alike, Filled

\* What a reader or a writer wants.
LEMMA WantIs ==
  ASSUME TypeOK, Calls, NEW p \in Procs, at[p] \in InRead \union {"put"}
  PROVE  /\ p \in Readers \union Writers
         /\ want[p] \in Seq(Nat) /\ want[p] # <<>>
         /\ Head(want[p]) \in Nat /\ Tail(want[p]) \in Seq(Nat)
<1>1. p \in Readers \union Writers /\ want[p] # <<>>
  BY DEF Calls
<1>2. want[p] \in Seq(Nat)
  BY <1>1 DEF TypeOK
<1> QED BY <1>1, <1>2, HeadTailProperties

\* qread and qbread take bytes from the front.
LEMMA ReadKeeps ==
  ASSUME TypeOK, Held, Calls, NEW p \in Readers, ReadBlock(p)
  PROVE  /\ Kept(q', ngot' + 1, nput) /\ ngot' \in 0 .. nput
         /\ nput' = nput
         /\ q'.closed = q.closed /\ q'.starve = q.starve
         /\ q'.coalesce = q.coalesce /\ q'.noblock = q.noblock
         /\ q'.len \in Nat /\ q'.len <= Seen.len
         /\ q'.flow => q.flow
         /\ q.flow /\ (q'.len < Limit \div 2 \/ ~q'.flow) => at'[p] = "wakewr"
         /\ q.flow /\ ~q'.flow => q'.len < Limit
<1> DEFINE n == Head(want[p])
           left == Taken(Seen, n)
<1>1. p \in Procs /\ at[p] = "rlock"
  BY DEF Procs, ReadBlock, Inside
<1>2. n \in Nat
  BY <1>1, WantIs DEF InRead
<1>3. Kept(Seen, ngot + 1, nput) /\ Alike(q, Seen) /\ Seen \in Queues
  BY SeenKept
<1>4. ngot + 1 \in Nat \ {0} /\ nput \in Nat
  BY DEF TypeOK
<1>5. Seen.blocks # <<>>
  BY DEF ReadBlock
<1>6. /\ q' = Restarted(left) /\ ngot' = LastTaken(Seen, n)
      /\ at' = [at EXCEPT ![p] = IF Restart(left) THEN "wakewr" ELSE "runlock"]
      /\ nput' = nput
  BY DEF ReadBlock, Goto
<1> HIDE DEF n
<1>7. /\ LastTaken(Seen, n) \in 0 .. nput
      /\ Kept(left, LastTaken(Seen, n) + 1, nput)
      /\ Alike(Seen, left) /\ left.len <= Seen.len
  BY <1>2, <1>3, <1>4, <1>5, TakenKeeps
<1>8. left \in Queues
  BY <1>7 DEF Kept
<1> HIDE DEF left
<1>9. /\ q' \in Queues /\ Filled(left, q')
      /\ q'.flow <=> left.flow /\ ~Restart(left)
      /\ q'.closed = left.closed /\ q'.starve = left.starve
      /\ q'.coalesce = left.coalesce /\ q'.noblock = left.noblock
  BY <1>6, <1>8, RestartedIs
<1>10. Kept(q', ngot' + 1, nput)
  BY <1>6, <1>7, <1>9, BitsKeep DEF Filled
<1>11. /\ left.flow = q.flow /\ q'.closed = q.closed /\ q'.starve = q.starve
       /\ q'.coalesce = q.coalesce /\ q'.noblock = q.noblock
  BY <1>3, <1>7, <1>9 DEF Alike
<1>12. q'.len \in Nat /\ q'.len = left.len
  BY <1>9, QueueFields DEF Filled
<1>13. ASSUME q.flow, q'.len < Limit \div 2 \/ ~q'.flow
       PROVE  at'[p] = "wakewr"
  <2>1. Restart(left)
    BY <1>9, <1>11, <1>12, <1>13 DEF Restart
  <2>2. at \in [Procs -> {"run", "rlock", "rsleep", "rasleep", "wakewr", "runlock",
                       "put", "wakerr", "flow", "setflow", "wqlock", "wlock",
                       "wasleep", "wunlock", "wakeall", "closewr"}]
    BY DEF TypeOK
  <2> QED BY <1>1, <1>6, <2>1, <2>2
<1>14. ASSUME q.flow, ~q'.flow
       PROVE  q'.len < Limit
  <2>1. q'.len < Limit \div 2
    BY <1>9, <1>11, <1>12, <1>14 DEF Restart
  <2>2. Limit \div 2 <= Limit /\ Limit \div 2 \in Nat /\ Limit \in Nat
    BY QueueAssumption
  <2> QED BY <1>12, <2>1, <2>2
<1> QED BY <1>6, <1>7, <1>9, <1>10, <1>11, <1>12, <1>13, <1>14

\* Every step keeps the bytes that are queued and not read, in order, and the
\* lengths true.
LEMMA HeldStep ==
  ASSUME TypeOK, Held, Calls, [Next]_vars
  PROVE  Held' /\ q' \in Queues /\ ngot' \in 0 .. nput' /\ nput' \in Nat
<1> DEFINE Goal == Held' /\ q' \in Queues /\ ngot' \in 0 .. nput' /\ nput' \in Nat
<1> SUFFICES Goal
  OBVIOUS
<1>t. /\ Kept(q, ngot + 1, nput) /\ q \in Queues /\ q.blocks \in Seq(Sound)
      /\ nput \in Nat /\ ngot \in 0 .. nput
  BY DEF TypeOK, Held, Kept
<1>1. ASSUME UNCHANGED <<q, ngot, nput>>
      PROVE  Goal
  BY <1>t, <1>1 DEF Held
<1>2. ASSUME NEW R, Kept(R, ngot + 1, nput), q' \in Queues, Filled(R, q'),
             UNCHANGED <<ngot, nput>>
      PROVE  Goal
  <2>1. Kept(q', ngot + 1, nput)
    BY <1>2, BitsKeep DEF Filled
  <2> QED BY <1>t, <1>2, <2>1 DEF Held
<1>3. ASSUME NEW n \in Nat, Kept(q', ngot + 1, nput + n), nput' = nput + n, ngot' = ngot
      PROVE  Goal
  BY <1>t, <1>3 DEF Held, Kept
<1>4. ASSUME NEW p \in Readers, ReadBlock(p)
      PROVE  Goal
  <2>1. Kept(q', ngot' + 1, nput) /\ ngot' \in 0 .. nput /\ nput' = nput
    BY <1>4, ReadKeeps
  <2> QED BY <1>t, <2>1 DEF Held, Kept
<1>5. ASSUME NEW p \in Readers, ReadEof(p)
      PROVE  Goal
  <2>1. q' = [Seen EXCEPT !.eof = IF @ < 4 THEN @ + 1 ELSE @] /\ UNCHANGED <<ngot, nput>>
    BY <1>5 DEF ReadEof, Stream
  <2>2. Kept(Seen, ngot + 1, nput) /\ Seen \in Queues
    BY SeenKept
  <2>3. q' \in Queues /\ Filled(Seen, q')
    BY <2>1, <2>2, SetEof
  <2> QED BY <1>2, <2>1, <2>2, <2>3
<1>6. ASSUME NEW p \in Readers, ReadWait(p)
      PROVE  Goal
  <2>1. q' = [Seen EXCEPT !.starve = TRUE] /\ UNCHANGED <<ngot, nput>>
    BY <1>6 DEF ReadWait, Stream
  <2>2. Kept(Seen, ngot + 1, nput) /\ Seen \in Queues
    BY SeenKept
  <2>3. q' \in Queues /\ Filled(Seen, q')
    BY <2>1, <2>2, SetStarve
  <2> QED BY <1>2, <2>1, <2>2, <2>3
<1>7. ASSUME NEW p \in Writers, WriteBlock(p)
      PROVE  Goal
  <2>1. at[p] = "put" /\ p \in Procs
    BY <1>7 DEF WriteBlock, Procs
  <2>2. Head(want[p]) \in Nat
    BY <2>1, WantIs
  <2>3. /\ q' = Added(Head(want[p])) /\ nput' = nput + Head(want[p])
        /\ ngot' = ngot
    BY <1>7 DEF WriteBlock
  <2>4. Kept(q', ngot + 1, nput + Head(want[p]))
    BY <2>2, <2>3, AddedKept
  <2> QED BY <1>3, <2>2, <2>3, <2>4
<1>8. ASSUME NEW p \in Writers, FlowFlag(p)
      PROVE  Goal
  <2>1. q' = [q EXCEPT !.flow = TRUE] /\ UNCHANGED <<ngot, nput>>
    BY <1>8 DEF FlowFlag, Stream
  <2>2. q' \in Queues /\ Filled(q, q')
    BY <1>t, <2>1, SetFlow
  <2> QED BY <1>t, <1>2, <2>1, <2>2
<1>9. ASSUME NEW p \in Producers, NEW n \in WriteSizes, Qproduce(p, n)
      PROVE  Goal
  <2>0. n \in Nat
    BY SizesAssumption
  <2>1. CASE q.len >= Limit
    <3>1. q' = [q EXCEPT !.flow = TRUE] /\ UNCHANGED <<ngot, nput>>
      BY <1>9, <2>1 DEF Qproduce
    <3>2. q' \in Queues /\ Filled(q, q')
      BY <1>t, <3>1, SetFlow
    <3> QED BY <1>t, <1>2, <3>1, <3>2
  <2>2. CASE ~(q.len >= Limit)
    <3> DEFINE b == Added(n).flow \/ Added(n).len >= Limit
    <3>1. /\ q' = [Added(n) EXCEPT !.flow = b] /\ nput' = nput + n /\ ngot' = ngot
      BY <1>9, <2>2 DEF Qproduce
    <3>1a. b \in BOOLEAN
      OBVIOUS
    <3> HIDE DEF b
    <3>2. Kept(Added(n), ngot + 1, nput + n) /\ Added(n) \in Queues
      BY <2>0, AddedKept
    <3>3. q' \in Queues /\ Filled(Added(n), q')
      BY <3>1, <3>1a, <3>2, SetFlow
    <3>4. Kept(q', ngot + 1, nput + n)
      BY <3>2, <3>3, BitsKeep DEF Filled
    <3> QED BY <1>3, <2>0, <3>1, <3>4
  <2> QED BY <2>1, <2>2
<1>10. ASSUME NEW p \in Producers, NEW n \in WriteSizes, Qiwrite(p, n)
       PROVE  Goal
  <2>0. n \in Nat
    BY SizesAssumption
  <2>1. q' = Added(n) /\ nput' = nput + n /\ ngot' = ngot
    BY <1>10 DEF Qiwrite
  <2>2. Kept(q', ngot + 1, nput + n)
    BY <2>0, <2>1, AddedKept
  <2> QED BY <1>3, <2>0, <2>1, <2>2
<1>11. CASE Qhangup
  <2>1. q' = Qhungup(q) /\ UNCHANGED <<ngot, nput>>
    BY <1>11 DEF Qhangup, Change
  <2>2. Kept(q', ngot + 1, nput)
    BY <1>t, <2>1, ClosesKeep
  <2> QED BY <1>t, <2>1, <2>2 DEF Held, Kept
<1>12. CASE Qclose
  <2>1. q' = Qclosed(q) /\ ngot' = nput /\ nput' = nput
    BY <1>12 DEF Qclose, Change
  <2>2. Kept(q', nput + 1, nput)
    BY <1>t, <2>1, ClosesKeep
  <2> QED BY <1>t, <2>1, <2>2 DEF Held, Kept
<1>13. CASE Qreopen
  <2>1. q' = Qreopened(q) /\ UNCHANGED <<ngot, nput>>
    BY <1>13 DEF Qreopen, Change
  <2>2. Kept(q', ngot + 1, nput)
    BY <1>t, <2>1, ClosesKeep
  <2> QED BY <1>t, <2>1, <2>2 DEF Held, Kept
<1>14. CASE CloserStep
  BY <1>1, <1>14 DEF CloserStep, CloseWakeRr, CloseWakeWr, Stream
<1>15. ASSUME NEW p \in Readers, ReadCall(p) \/ ReadSleep(p) \/ ReadAwake(p) \/ ReadRestart(p)
                                 \/ ReadReturn(p)
       PROVE  Goal
  BY <1>1, <1>15 DEF ReadCall, Qread, ReadSleep, ReadAwake, ReadRestart, ReadReturn, Stream
<1>16. ASSUME NEW p \in Writers, WriteClosed(p) \/ WriteDropped(p) \/ Flow(p) \/ FlowQlock(p)
                                 \/ FlowSleep(p) \/ FlowAwake(p) \/ FlowUnlock(p)
       PROVE  Goal
  BY <1>1, <1>16 DEF WriteClosed, WriteDropped, Flow, FlowQlock, FlowSleep, FlowAwake,
                     FlowUnlock, Stream
<1>17. ASSUME NEW p \in Writers, NEW n \in WriteSizes, Qwrite(p, n)
       PROVE  Goal
  BY <1>1, <1>17 DEF Qwrite, Stream
<1>18. ASSUME NEW p \in Writers \union Producers, WakeReader(p)
       PROVE  Goal
  BY <1>1, <1>18 DEF WakeReader, Stream
<1>19. CASE UNCHANGED vars
  BY <1>1, <1>19 DEF vars
<1> HIDE DEF Goal
<1>20. ASSUME NEW p \in Readers, ReadCall(p) \/ ReaderStep(p)
       PROVE  Goal
  BY <1>4, <1>5, <1>6, <1>15, <1>20 DEF ReaderStep
<1>21. ASSUME NEW p \in Writers, WriterStep(p)
       PROVE  Goal
  BY <1>7, <1>8, <1>16, <1>18, <1>21 DEF WriterStep
<1>22. ASSUME NEW p \in Producers, WakeReader(p)
       PROVE  Goal
  BY <1>18, <1>22
<1>23. CASE \E p \in Readers : ReadCall(p) \/ ReaderStep(p)
  BY <1>20, <1>23
<1>24. CASE \E p \in Writers : WriterStep(p) \/ \E n \in WriteSizes : Qwrite(p, n)
  BY <1>17, <1>21, <1>24
<1>25. CASE \E p \in Producers :
              WakeReader(p) \/ \E n \in WriteSizes : Qproduce(p, n) \/ Qiwrite(p, n)
  BY <1>9, <1>10, <1>22, <1>25
<1>26. CASE Qhangup \/ Qclose \/ Qreopen \/ CloserStep
  BY <1>11, <1>12, <1>13, <1>14, <1>26
<1> QED BY <1>19, <1>23, <1>24, <1>25, <1>26 DEF Next

\* qlock and qunlock.
LEMMA LockOps ==
  ASSUME NEW k \in L!QLocks, NEW p \in Procs
  PROVE  /\ L!Enqueued(k, p) \in L!QLocks /\ L!Released(k) \in L!QLocks
         /\ L!Enqueued(k, p).hold = IF k.hold = None THEN p ELSE k.hold
<1>1. k.hold \in Procs \union {None} /\ k.queue \in Seq(Procs)
  BY DEF L!QLocks
<1>2. Append(k.queue, p) \in Seq(Procs)
  BY <1>1
<1>3. L!Enqueued(k, p) \in L!QLocks
      /\ L!Enqueued(k, p).hold = IF k.hold = None THEN p ELSE k.hold
  BY <1>1, <1>2 DEF L!Enqueued, L!QLocks
<1>4. L!Released(k) \in L!QLocks
  <2>1. CASE k.queue = <<>>
    BY <1>1, <2>1 DEF L!Released, L!QLocks
  <2>2. CASE k.queue # <<>>
    <3>1. Head(k.queue) \in Procs /\ Tail(k.queue) \in Seq(Procs)
      BY <1>1, <2>2, HeadTailProperties
    <3> QED BY <2>2, <3>1 DEF L!Released, L!QLocks
  <2> QED BY <2>1, <2>2
<1> QED BY <1>3, <1>4

\* How a write of n bytes is cut.
LEMMA PiecesAre ==
  ASSUME NEW n \in Nat
  PROVE  Pieces(n) \in Seq(Nat) /\ Pieces(n) # <<>>
<1> DEFINE M == Maxatomic
           k == IF n = 0 THEN 1 ELSE (n + M - 1) \div M
           j == IF q.msg THEN 1 ELSE k
           cut(i) == IF i * M < n THEN M ELSE n - (i - 1) * M
<1>1. M \in Nat /\ M >= 1
  BY SizesAssumption
<1>2. Pieces(n) = [i \in 1 .. j |-> cut(i)]
  BY DEF Pieces
<1> HIDE DEF M
<1>3. k \in Nat /\ k >= 1 /\ (k - 1) * M <= n
  <2>1. CASE n = 0
    BY <1>1, <2>1
  <2>2. CASE n # 0
    <3> DEFINE a == n + M - 1
               d == a \div M
    <3>1. a \in Nat /\ a >= M
      BY <1>1, <2>2
    <3> HIDE DEF a
    <3>2. d \in Int /\ d * M <= a /\ a < (d + 1) * M
      BY <1>1, <3>1
    <3> HIDE DEF d
    <3>3. d >= 1
      <4>1. SUFFICES ASSUME d <= 0 PROVE FALSE
        BY <3>2
      <4>2. (d + 1) * M <= M
        BY <1>1, <3>2, <4>1
      <4> QED BY <1>1, <3>1, <3>2, <4>2
    <3>4. (d - 1) * M = d * M - M
      BY <1>1, <3>2
    <3>5. d * M \in Int
      BY <1>1, <3>2
    <3>6. (d - 1) * M <= n
      BY <1>1, <3>2, <3>4, <3>5 DEF a
    <3>7. k = d
      BY <2>2 DEF d, a
    <3> HIDE DEF k
    <3> QED BY <3>2, <3>3, <3>6, <3>7
  <2> QED BY <2>1, <2>2
<1> HIDE DEF k
<1>4. j \in Nat /\ j >= 1 /\ j <= k
  BY <1>3
<1> HIDE DEF j
<1>5. ASSUME NEW i \in 1 .. j
      PROVE  cut(i) \in Nat
  <2>1. i \in Nat /\ i >= 1 /\ k - i \in Nat
    BY <1>3, <1>4
  <2>2. (k - 1) * M = (i - 1) * M + (k - i) * M /\ (k - i) * M >= 0
        /\ (i - 1) * M \in Int /\ (k - i) * M \in Int
    BY <1>1, <1>3, <2>1
  <2>3. (i - 1) * M <= n
    BY <1>3, <2>2
  <2> QED BY <1>1, <2>2, <2>3
<1> HIDE DEF cut
<1>6. Pieces(n) \in [1 .. j -> Nat]
  BY <1>2, <1>5
<1>7. Pieces(n) \in Seq(Nat) /\ Len(Pieces(n)) = j
  BY <1>4, <1>6
<1> QED BY <1>4, <1>7

\* The types, step by step.
Places == {"run", "rlock", "rsleep", "rasleep", "wakewr", "runlock",
           "put", "wakerr", "flow", "setflow", "wqlock", "wlock",
           "wasleep", "wunlock", "wakeall", "closewr"}

\* The types of the variables, one by one.
LEMMA Typed ==
  ASSUME TypeOK
  PROVE  /\ at \in [Procs -> Places]
         /\ want \in [Readers \union Writers -> Seq(Nat)]
         /\ rlock \in L!QLocks /\ wlock \in L!QLocks
         /\ rr \in Readers \union {None} /\ wr \in Writers \union {None}
         /\ tok \subseteq Readers \union Writers
         /\ users \subseteq Procs /\ ncloses \in 0 .. MaxCloses
         /\ q \in Queues /\ ngot \in 0 .. nput /\ nput \in Nat
  BY DEF TypeOK, Places

\* All but the queue and the bytes.
Around ==
  /\ users \subseteq Procs
  /\ rlock \in L!QLocks /\ wlock \in L!QLocks
  /\ rr \in Readers \union {None} /\ wr \in Writers \union {None}
  /\ tok \subseteq Readers \union Writers
  /\ at \in [Procs -> Places]
  /\ want \in [Readers \union Writers -> Seq(Nat)]
  /\ ncloses \in 0 .. MaxCloses

\* Every step keeps them.
LEMMA AroundStep ==
  ASSUME TypeOK, Calls, [Next]_vars
  PROVE  Around'
<1>t. Around
  BY Typed DEF Around
<1>p. Readers \subseteq Procs /\ Writers \subseteq Procs /\ Producers \subseteq Procs
      /\ Closer \in Procs /\ None \notin Procs
  BY ProcsAssumption DEF Procs
<1>e. <<>> \in Seq(Nat) /\ \A n \in Nat : <<n>> \in Seq(Nat)
  OBVIOUS
<1>1. ASSUME NEW p \in Readers, NEW n \in ReadSizes, Qread(p, n)
      PROVE  Around'
  <2>1. n \in Nat
    BY SizesAssumption
  <2>2. L!Enqueued(rlock, p) \in L!QLocks
    BY <1>t, <1>p, LockOps DEF Around
  <2> QED BY <1>1, <1>t, <1>p, <1>e, <2>1, <2>2 DEF Qread, Go, Goto, Around, Places, Rendezs, Stream
<1>2. ASSUME NEW p \in Readers, ReadBlock(p) \/ ReadEof(p) \/ ReadWait(p)
      PROVE  Around'
  <2>1. UNCHANGED <<users, rlock, wlock, rr, wr, tok, want, ncloses>>
    BY <1>2 DEF ReadBlock, ReadEof, ReadWait, Locks, Rendezs, Stream
  <2>2. \E l \in Places : Goto(p, l)
    BY <1>2, Zenon DEF ReadBlock, ReadEof, ReadWait, Places
  <2> QED BY <1>t, <1>p, <2>1, <2>2 DEF Around, Goto
<1>3. ASSUME NEW p \in Readers, ReadSleep(p) \/ ReadAwake(p) \/ ReadRestart(p)
      PROVE  Around'
  BY <1>3, <1>t, <1>p DEF ReadSleep, ReadAwake, ReadRestart, WakeupWr, Go, Goto, Around, Places,
                          Locks, Stream
<1>4. ASSUME NEW p \in Readers, ReadReturn(p)
      PROVE  Around'
  <2>2. L!Released(rlock) \in L!QLocks
    BY <1>t, <1>p, LockOps DEF Around
  <2> QED BY <1>4, <1>t, <1>p, <1>e, <2>2 DEF ReadReturn, Go, Goto, Around, Places, Rendezs, Stream
<1>5. ASSUME NEW p \in Writers, NEW n \in WriteSizes, Qwrite(p, n)
      PROVE  Around'
  <2>1. Pieces(n) \in Seq(Nat)
    BY SizesAssumption, PiecesAre
  <2>2. UNCHANGED <<users, rlock, wlock, rr, wr, tok, ncloses>>
        /\ want' = [want EXCEPT ![p] = Pieces(n)]
    BY <1>5 DEF Qwrite, Locks, Rendezs, Stream
  <2>3. \E l \in Places : Goto(p, l)
    BY <1>5 DEF Qwrite, Go, Places
  <2> QED BY <1>t, <1>p, <2>1, <2>2, <2>3 DEF Around, Goto
<1>6. ASSUME NEW p \in Writers, WriteClosed(p)
      PROVE  Around'
  BY <1>6, <1>t, <1>p, <1>e DEF WriteClosed, Go, Goto, Around, Places, Locks, Rendezs, Stream
<1>7. ASSUME NEW p \in Writers, WriteDropped(p) \/ WriteBlock(p)
      PROVE  Around'
  <2>1. at[p] = "put"
    BY <1>7 DEF WriteDropped, WriteBlock
  <2>2. Tail(want[p]) \in Seq(Nat)
    BY <1>p, <2>1, WantIs
  <2>3. UNCHANGED <<users, rlock, wlock, rr, wr, tok, ncloses>>
        /\ want' = [want EXCEPT ![p] = Tail(@)]
    BY <1>7 DEF WriteDropped, WriteBlock, Locks, Rendezs, Stream
  <2>4. \E l \in Places : Goto(p, l)
    BY <1>7 DEF WriteDropped, WriteBlock, Onward, Places
  <2> QED BY <1>t, <1>p, <2>2, <2>3, <2>4 DEF Around, Goto
<1>8. ASSUME NEW p \in Writers \union Producers, WakeReader(p)
      PROVE  Around'
  BY <1>8, <1>t, <1>p DEF WakeReader, WakeupRr, Go, Goto, Around, Places, Locks, Stream
<1>9. ASSUME NEW p \in Writers, Flow(p) \/ FlowFlag(p) \/ FlowSleep(p) \/ FlowAwake(p)
      PROVE  Around'
  BY <1>9, <1>t, <1>p DEF Flow, FlowFlag, FlowSleep, FlowAwake, Onward, Go, Goto, Around, Places,
                          Locks, Rendezs, Stream
<1>10. ASSUME NEW p \in Writers, FlowQlock(p)
       PROVE  Around'
  <2>2. L!Enqueued(wlock, p) \in L!QLocks
    BY <1>t, <1>p, LockOps DEF Around
  <2> QED BY <1>10, <1>t, <1>p, <2>2 DEF FlowQlock, Go, Goto, Around, Places, Rendezs, Stream
<1>11. ASSUME NEW p \in Writers, FlowUnlock(p)
       PROVE  Around'
  <2>2. L!Released(wlock) \in L!QLocks
    BY <1>t, <1>p, LockOps DEF Around
  <2> QED BY <1>11, <1>t, <1>p, <2>2 DEF FlowUnlock, Go, Goto, Around, Places, Rendezs, Stream
<1>12. ASSUME NEW p \in Producers, NEW n \in WriteSizes, Qproduce(p, n) \/ Qiwrite(p, n)
       PROVE  Around'
  <2>1. UNCHANGED <<users, rlock, wlock, rr, wr, tok, want, ncloses>>
    BY <1>12 DEF Qproduce, Qiwrite, Locks, Rendezs
  <2>2. (\E l \in Places : Goto(p, l)) \/ UNCHANGED at
    BY <1>12, Zenon DEF Qproduce, Qiwrite, Places
  <2> QED BY <1>t, <1>p, <2>1, <2>2 DEF Around, Goto
<1>13. ASSUME Qhangup \/ Qclose \/ Qreopen
       PROVE  Around'
  <2>1. /\ UNCHANGED <<users, rlock, wlock, rr, wr, tok, want>>
        /\ ncloses < MaxCloses /\ ncloses' = ncloses + 1
    BY <1>13 DEF Qhangup, Qclose, Qreopen, Change, Locks, Rendezs
  <2>2. \E l \in Places : Goto(Closer, l)
    BY <1>13 DEF Qhangup, Qclose, Qreopen, Change, Go, Places
  <2> QED BY <1>t, <1>p, <2>1, <2>2, SizesAssumption DEF Around, Goto
<1>14. ASSUME CloserStep
       PROVE  Around'
  BY <1>14, <1>t, <1>p DEF CloserStep, CloseWakeRr, CloseWakeWr, WakeupRr, WakeupWr, Go, Goto,
                           Around, Places, Locks, Stream
<1>15. CASE UNCHANGED vars
  BY <1>15, <1>t DEF vars, Around
<1>20. ASSUME NEW p \in Readers, ReadCall(p) \/ ReaderStep(p)
       PROVE  Around'
  BY <1>1, <1>2, <1>3, <1>4, <1>20 DEF ReadCall, ReaderStep
<1>21. ASSUME NEW p \in Writers, WriterStep(p)
       PROVE  Around'
  BY <1>6, <1>7, <1>8, <1>9, <1>10, <1>11, <1>21 DEF WriterStep
<1> QED BY <1>5, <1>8, <1>12, <1>13, <1>14, <1>15, <1>20, <1>21 DEF Next

\* So it keeps all the types.
LEMMA TypeStep ==
  ASSUME TypeOK, Held, Calls, [Next]_vars
  PROVE  TypeOK'
BY AroundStep, HeldStep DEF Around, TypeOK, Places

\* Each Proc stays where it may be, under the lock that goes with it.
LEMMA CallsStep ==
  ASSUME TypeOK, Calls, [Next]_vars
  PROVE  Calls'
<1> DEFINE Call(r) ==
             /\ at[r] \in InRead => r \in Readers /\ want[r] # <<>>
             /\ at[r] = "put" => r \in Writers /\ want[r] # <<>>
             /\ at[r] \in InFlow \union {"flow"} => r \in Writers
             /\ at[r] \in HasRlock => rlock.hold = r
             /\ at[r] \in HasWlock => wlock.hold = r
<1>t. /\ at \in [Procs -> Places] /\ want \in [Readers \union Writers -> Seq(Nat)]
      /\ rlock \in L!QLocks /\ wlock \in L!QLocks
  BY Typed
<1>p. Readers \subseteq Procs /\ Writers \subseteq Procs /\ Producers \subseteq Procs
      /\ Closer \in Procs /\ None \notin Procs
  BY ProcsAssumption DEF Procs
<1> SUFFICES ASSUME NEW r \in Procs
             PROVE  Call(r)'
  BY DEF Calls
<1>c. \A p \in Procs : Call(p)
  BY DEF Calls
<1>l. \A p \in Procs :
        /\ at[p] \in HasRlock => rlock.hold = p
        /\ at[p] \in HasWlock => wlock.hold = p
  BY DEF Calls
<1>s. UNCHANGED <<at, want, rlock, wlock>> => Call(r)'
  BY <1>c
<1>1. ASSUME NEW p \in Readers, NEW n \in ReadSizes, Qread(p, n)
      PROVE  Call(r)'
  <2>1. rlock'.hold = IF rlock.hold = None THEN p ELSE rlock.hold
    BY <1>1, <1>t, <1>p, LockOps DEF Qread
  <2>2. want' = [want EXCEPT ![p] = <<n>>] /\ at' = [at EXCEPT ![p] = "rlock"]
        /\ UNCHANGED wlock
    BY <1>1 DEF Qread, Go, Goto
  <2>3. at[p] = "run" /\ <<n>> # <<>>
    BY <1>1 DEF Qread, Go
  <2>4. CASE r = p
    BY <1>t, <1>p, <2>2, <2>3, <2>4 DEF InRead, InFlow, HasRlock, HasWlock
  <2>5. CASE r # p
    <3>1. at'[r] = at[r] /\ (r \in Readers \union Writers => want'[r] = want[r])
      BY <1>t, <1>p, <2>2, <2>5
    <3>2. at[r] \in HasRlock => rlock'.hold = r
      BY <1>l, <1>p, <2>1
    <3> QED BY <1>c, <2>2, <3>1, <3>2
  <2> QED BY <2>4, <2>5
<1>2. ASSUME NEW p \in Readers, ReadBlock(p) \/ ReadEof(p) \/ ReadWait(p)
      PROVE  Call(r)'
  <2>1. UNCHANGED <<rlock, wlock, want>> /\ at[p] = "rlock" /\ rlock.hold = p
    BY <1>2 DEF ReadBlock, ReadEof, ReadWait, Locks, Inside
  <2>2. \E l \in {"wakewr", "runlock", "rsleep"} : Goto(p, l)
    BY <1>2, Zenon DEF ReadBlock, ReadEof, ReadWait
  <2> QED BY <1>t, <1>p, <1>c, <2>1, <2>2 DEF Goto, InRead, InFlow, HasRlock, HasWlock
<1>3. ASSUME NEW p \in Readers, ReadSleep(p) \/ ReadAwake(p) \/ ReadRestart(p)
      PROVE  Call(r)'
  BY <1>3, <1>t, <1>p, <1>c DEF ReadSleep, ReadAwake, ReadRestart, Go, Goto, Locks,
                                InRead, InFlow, HasRlock, HasWlock
<1>4. ASSUME NEW p \in Readers, ReadReturn(p)
      PROVE  Call(r)'
  <2>1. want' = [want EXCEPT ![p] = <<>>] /\ at' = [at EXCEPT ![p] = "run"]
        /\ UNCHANGED wlock /\ at[p] = "runlock"
    BY <1>4 DEF ReadReturn, Go, Goto
  <2>2. rlock.hold = p
    BY <1>l, <1>p, <2>1 DEF HasRlock
  <2>4. CASE r = p
    BY <1>t, <1>p, <2>1, <2>4 DEF InRead, InFlow, HasRlock, HasWlock
  <2>5. CASE r # p
    <3>1. at'[r] = at[r] /\ (r \in Readers \union Writers => want'[r] = want[r])
      BY <1>t, <1>p, <2>1, <2>5
    <3>2. at[r] \notin HasRlock
      BY <1>l, <2>2, <2>5
    <3> QED BY <1>c, <2>1, <3>1, <3>2
  <2> QED BY <2>4, <2>5
<1>5. ASSUME NEW p \in Writers, NEW n \in WriteSizes, Qwrite(p, n)
      PROVE  Call(r)'
  <2>1. Pieces(n) # <<>>
    BY SizesAssumption, PiecesAre
  <2>2. UNCHANGED <<rlock, wlock>> /\ want' = [want EXCEPT ![p] = Pieces(n)] /\ at[p] = "run"
    BY <1>5 DEF Qwrite, Locks, Go
  <2>3. \E l \in {"flow", "put"} : Goto(p, l)
    BY <1>5 DEF Qwrite, Go
  <2> HIDE DEF Pieces
  <2> QED BY <1>t, <1>p, <1>c, <2>1, <2>2, <2>3 DEF Goto, InRead, InFlow, HasRlock, HasWlock
<1>6. ASSUME NEW p \in Writers, WriteClosed(p)
      PROVE  Call(r)'
  <2>1. want' = [want EXCEPT ![p] = <<>>] /\ at' = [at EXCEPT ![p] = "run"]
        /\ UNCHANGED <<rlock, wlock>> /\ at[p] = "put"
    BY <1>6 DEF WriteClosed, Go, Goto, Locks
  <2> QED BY <1>t, <1>p, <1>c, <2>1 DEF InRead, InFlow, HasRlock, HasWlock
<1>7. ASSUME NEW p \in Writers, WriteDropped(p)
      PROVE  Call(r)'
  <2>1. /\ want' = [want EXCEPT ![p] = Tail(@)] /\ at[p] = "put" /\ UNCHANGED <<rlock, wlock>>
        /\ at' = [at EXCEPT ![p] = IF Tail(want[p]) = <<>> THEN "run" ELSE "put"]
    BY <1>7 DEF WriteDropped, Onward, Goto, Locks
  <2> QED BY <1>t, <1>p, <1>c, <2>1 DEF InRead, InFlow, HasRlock, HasWlock
<1>8. ASSUME NEW p \in Writers, WriteBlock(p)
      PROVE  Call(r)'
  <2>1. /\ want' = [want EXCEPT ![p] = Tail(@)] /\ at[p] = "put" /\ UNCHANGED <<rlock, wlock>>
        /\ at' = [at EXCEPT ![p] = IF q.starve THEN "wakerr" ELSE "flow"]
    BY <1>8 DEF WriteBlock, Goto, Locks
  <2> QED BY <1>t, <1>p, <1>c, <2>1 DEF InRead, InFlow, HasRlock, HasWlock
<1>9. ASSUME NEW p \in Writers \union Producers, WakeReader(p)
      PROVE  Call(r)'
  BY <1>9, <1>t, <1>p, <1>c DEF WakeReader, Go, Goto, Locks, InRead, InFlow, HasRlock, HasWlock
<1>10. ASSUME NEW p \in Writers, Flow(p)
       PROVE  Call(r)'
  BY <1>10, <1>t, <1>p, <1>c DEF Flow, Onward, Goto, Locks, InRead, InFlow, HasRlock, HasWlock
<1>11. ASSUME NEW p \in Writers, FlowFlag(p) \/ FlowSleep(p) \/ FlowAwake(p)
       PROVE  Call(r)'
  BY <1>11, <1>t, <1>p, <1>c DEF FlowFlag, FlowSleep, FlowAwake, Go, Goto, Locks,
                                 InRead, InFlow, HasRlock, HasWlock
<1>12. ASSUME NEW p \in Writers, FlowQlock(p)
       PROVE  Call(r)'
  <2>1. wlock'.hold = IF wlock.hold = None THEN p ELSE wlock.hold
    BY <1>12, <1>t, <1>p, LockOps DEF FlowQlock
  <2>2. at' = [at EXCEPT ![p] = "wlock"] /\ UNCHANGED <<rlock, want>> /\ at[p] = "wqlock"
    BY <1>12 DEF FlowQlock, Go, Goto
  <2>3. at[r] \in HasWlock => wlock'.hold = r
    BY <1>l, <1>p, <2>1
  <2> QED BY <1>t, <1>p, <1>c, <2>2, <2>3 DEF InRead, InFlow, HasRlock, HasWlock
<1>13. ASSUME NEW p \in Writers, FlowUnlock(p)
       PROVE  Call(r)'
  <2>2. at' = [at EXCEPT ![p] = "flow"] /\ UNCHANGED <<rlock, want>> /\ at[p] = "wunlock"
    BY <1>13 DEF FlowUnlock, Go, Goto
  <2>3. r # p => at[r] \notin HasWlock
    BY <1>l, <1>p, <2>2 DEF HasWlock
  <2> QED BY <1>t, <1>p, <1>c, <2>2, <2>3 DEF InRead, InFlow, HasRlock, HasWlock
<1>14. ASSUME NEW p \in Producers, NEW n \in WriteSizes, Qproduce(p, n) \/ Qiwrite(p, n)
       PROVE  Call(r)'
  <2>1. UNCHANGED <<rlock, wlock, want>> /\ at[p] = "run"
    BY <1>14 DEF Qproduce, Qiwrite, Locks
  <2>2. (\E l \in {"wakerr", "run"} : Goto(p, l)) \/ UNCHANGED at
    BY <1>14, Zenon DEF Qproduce, Qiwrite
  <2> QED BY <1>t, <1>p, <1>c, <2>1, <2>2 DEF Goto, InRead, InFlow, HasRlock, HasWlock
<1>15. ASSUME Qhangup \/ Qclose \/ Qreopen
       PROVE  Call(r)'
  <2>1. UNCHANGED <<rlock, wlock, want>>
    BY <1>15 DEF Qhangup, Qclose, Qreopen, Change, Locks
  <2>2. at[Closer] = "run" /\ \E l \in {"wakeall", "run"} : Goto(Closer, l)
    BY <1>15 DEF Qhangup, Qclose, Qreopen, Change, Go
  <2> QED BY <1>t, <1>p, <1>c, <2>1, <2>2 DEF Goto, InRead, InFlow, HasRlock, HasWlock
<1>16. ASSUME CloserStep
       PROVE  Call(r)'
  BY <1>16, <1>t, <1>p, <1>c DEF CloserStep, CloseWakeRr, CloseWakeWr, Go, Goto, Locks,
                                 InRead, InFlow, HasRlock, HasWlock
<1>17. CASE UNCHANGED vars
  BY <1>17, <1>s DEF vars
<1> HIDE DEF Call
<1>20. ASSUME NEW p \in Readers, ReadCall(p) \/ ReaderStep(p)
       PROVE  Call(r)'
  BY <1>1, <1>2, <1>3, <1>4, <1>20 DEF ReadCall, ReaderStep
<1>21. ASSUME NEW p \in Writers, WriterStep(p)
       PROVE  Call(r)'
  BY <1>6, <1>7, <1>8, <1>9, <1>10, <1>11, <1>12, <1>13, <1>21 DEF WriterStep
<1> QED BY <1>5, <1>9, <1>14, <1>15, <1>16, <1>17, <1>20, <1>21 DEF Next

\* A step of p that makes no wakeup of the readers leaves those owed.
LEMMA RrOwedStays ==
  ASSUME TypeOK, RrOwed, NEW p, NEW l, Goto(p, l), at[p] \notin {"wakerr", "wakeall"}
  PROVE  RrOwed'
<1>1. at \in [Procs -> Places] /\ at' = [at EXCEPT ![p] = l]
  BY Typed DEF Goto
<1>2. PICK o \in Procs : at[o] \in {"wakerr", "wakeall"}
  BY DEF RrOwed
<1>3. at'[o] = at[o]
  BY <1>1, <1>2
<1> QED BY <1>2, <1>3 DEF RrOwed

\* A Proc that goes to wake the readers owes the wakeup.
LEMMA RrOwedMade ==
  ASSUME TypeOK, NEW p \in Procs, NEW l \in {"wakerr", "wakeall"}, Goto(p, l)
  PROVE  RrOwed'
<1>1. at \in [Procs -> Places] /\ at' = [at EXCEPT ![p] = l]
  BY Typed DEF Goto
<1>3. at'[p] = l
  BY <1>1
<1> QED BY <1>3 DEF RrOwed

\* No reader sleeps unflagged.
LEMMA ReaderFlagStep ==
  ASSUME TypeOK, Held, Calls, ReaderFlag, [Next]_vars
  PROVE  ReaderFlag'
<1> DEFINE Flag(r) ==
             /\ at[r] = "rsleep" => q.starve \/ Notempty
             /\ at[r] = "rasleep" /\ r \notin tok =>
                  rr = r /\ (Notempty => RrOwed) /\ (~Notempty => q.starve)
<1>t. at \in [Procs -> Places] /\ q \in Queues
  BY Typed
<1>p. Readers \subseteq Procs /\ Writers \subseteq Procs /\ Producers \subseteq Procs
      /\ Closer \in Procs /\ None \notin Procs
  BY ProcsAssumption DEF Procs
<1> SUFFICES ASSUME NEW r \in Procs
             PROVE  Flag(r)'
  BY DEF ReaderFlag
<1>f. Flag(r)
  BY DEF ReaderFlag
<1>l. at[r] \in {"rsleep", "rasleep"} => rlock.hold = r
  BY DEF Calls, HasRlock
<1>q. ASSUME NEW p \in Procs, NEW l, Goto(p, l), l \notin {"rsleep", "rasleep"},
             at[p] \notin {"wakerr", "wakeall"},
             q'.blocks = q.blocks, q'.closed = q.closed, q'.starve = q.starve,
             rr' = rr, tok \ {p} \subseteq tok'
      PROVE  Flag(r)'
  <2>1. RrOwed => RrOwed'
    BY <1>q, RrOwedStays
  <2>2. Notempty' <=> Notempty
    BY <1>q DEF Notempty
  <2>3. at'[r] \in {"rsleep", "rasleep"} => at'[r] = at[r] /\ r # p
    BY <1>t, <1>q DEF Goto
  <2> QED BY <1>f, <1>q, <2>1, <2>2, <2>3
<1>h. ASSUME NEW p \in Readers, rlock.hold = p, NEW l, Goto(p, l), r # p
      PROVE  Flag(r)'
  <2>1. at'[r] = at[r] /\ at[r] \notin {"rsleep", "rasleep"}
    BY <1>t, <1>p, <1>l, <1>h DEF Goto
  <2> QED BY <2>1
<1>1. ASSUME NEW p \in Readers, NEW n \in ReadSizes, Qread(p, n)
      PROVE  Flag(r)'
  BY <1>1, <1>p, <1>q DEF Qread, Go, Rendezs
<1>2. ASSUME NEW p \in Readers, ReadBlock(p) \/ ReadEof(p)
      PROVE  Flag(r)'
  <2>1. p \in Procs /\ rlock.hold = p /\ \E l \in {"wakewr", "runlock"} : Goto(p, l)
    BY <1>2, <1>p, Zenon DEF ReadBlock, ReadEof, Inside
  <2>2. CASE r = p
    <3>1. at'[r] \notin {"rsleep", "rasleep"}
      BY <1>t, <2>1, <2>2 DEF Goto
    <3> QED BY <3>1
  <2>3. CASE r # p
    BY <1>h, <2>1, <2>3
  <2> QED BY <2>2, <2>3
<1>3. ASSUME NEW p \in Readers, ReadWait(p)
      PROVE  Flag(r)'
  <2>1. p \in Procs /\ rlock.hold = p /\ Goto(p, "rsleep") /\ q' = [Seen EXCEPT !.starve = TRUE]
    BY <1>3, <1>p DEF ReadWait, Inside
  <2>2. CASE r = p
    <3>1. at'[r] = "rsleep"
      BY <1>t, <2>1, <2>2 DEF Goto
    <3>2. q'.starve = TRUE
      BY <2>1, SeenKept, SetStarve
    <3> QED BY <3>1, <3>2
  <2>3. CASE r # p
    BY <1>h, <2>1, <2>3
  <2> QED BY <2>2, <2>3
<1>4. ASSUME NEW p \in Readers, ReadSleep(p)
      PROVE  Flag(r)'
  <2>1. p \in Procs /\ at[p] = "rsleep" /\ rlock.hold = p
    BY <1>4, <1>p DEF ReadSleep, Calls, HasRlock
  <2>2. CASE r = p
    <3>1. CASE Notempty
      <4>1. at'[r] = "rlock"
        BY <1>4, <1>t, <2>1, <2>2, <3>1 DEF ReadSleep, Goto
      <4> QED BY <4>1
    <3>2. CASE ~Notempty
      <4>1. at'[r] = "rasleep" /\ rr' = r /\ q' = q
        BY <1>4, <1>t, <2>1, <2>2, <3>2 DEF ReadSleep, Goto
      <4>2. q.starve /\ ~Notempty'
        BY <1>f, <2>1, <2>2, <3>2, <4>1 DEF Notempty
      <4> QED BY <4>1, <4>2
    <3> QED BY <3>1, <3>2
  <2>3. CASE r # p
    <3>1. \E l : Goto(p, l)
      BY <1>4 DEF ReadSleep
    <3> QED BY <1>h, <2>1, <2>3, <3>1
  <2> QED BY <2>2, <2>3
<1>5. ASSUME NEW p \in Readers, ReadAwake(p)
      PROVE  Flag(r)'
  BY <1>5, <1>p, <1>q DEF ReadAwake, Go
<1>6. ASSUME NEW p \in Readers, ReadRestart(p)
      PROVE  Flag(r)'
  BY <1>6, <1>p, <1>q DEF ReadRestart, Go, WakeupWr
<1>7. ASSUME NEW p \in Readers, ReadReturn(p)
      PROVE  Flag(r)'
  BY <1>7, <1>p, <1>q DEF ReadReturn, Go, Rendezs
<1>8. ASSUME NEW p \in Writers, NEW n \in WriteSizes, Qwrite(p, n)
      PROVE  Flag(r)'
  <2>1. \E l \in {"flow", "put"} : Goto(p, l)
    BY <1>8 DEF Qwrite, Go
  <2>2. at[p] = "run" /\ UNCHANGED <<q, rr, tok>>
    BY <1>8 DEF Qwrite, Go, Rendezs
  <2> QED BY <1>p, <1>q, <2>1, <2>2
<1>9. ASSUME NEW p \in Writers, WriteClosed(p) \/ WriteDropped(p) \/ Flow(p) \/ FlowQlock(p)
                                \/ FlowUnlock(p)
      PROVE  Flag(r)'
  <2>1. \E l \in {"run", "put", "setflow", "wlock", "flow"} : Goto(p, l)
    BY <1>9 DEF WriteClosed, WriteDropped, Flow, FlowQlock, FlowUnlock, Onward, Go
  <2>2. at[p] \notin {"wakerr", "wakeall"} /\ UNCHANGED <<q, rr, tok>>
    BY <1>9 DEF WriteClosed, WriteDropped, Flow, FlowQlock, FlowUnlock, Go, Rendezs
  <2> QED BY <1>p, <1>q, <2>1, <2>2
<1>10. ASSUME NEW p \in Writers, FlowFlag(p)
       PROVE  Flag(r)'
  <2>1. Goto(p, "wqlock") /\ at[p] = "setflow" /\ UNCHANGED <<rr, tok>>
        /\ q' = [q EXCEPT !.flow = TRUE]
    BY <1>10 DEF FlowFlag, Go, Rendezs
  <2>2. q'.blocks = q.blocks /\ q'.closed = q.closed /\ q'.starve = q.starve
    BY <1>t, <2>1, SetFlow DEF Filled
  <2> QED BY <1>p, <1>q, <2>1, <2>2
<1>11. ASSUME NEW p \in Writers, FlowSleep(p) \/ FlowAwake(p)
       PROVE  Flag(r)'
  <2>1. \E l \in {"wunlock", "wasleep"} : Goto(p, l)
    BY <1>11 DEF FlowSleep, FlowAwake, Go
  <2>2. at[p] \notin {"wakerr", "wakeall"} /\ UNCHANGED <<q, rr>> /\ tok \ {p} \subseteq tok'
    BY <1>11 DEF FlowSleep, FlowAwake, Go
  <2> QED BY <1>p, <1>q, <2>1, <2>2
<1>12. ASSUME NEW p \in Procs, at[p] \in {"put", "run"}, NEW n \in Nat, q'.blocks # <<>>,
              Goto(p, IF q.starve THEN "wakerr" ELSE "flow")
              \/ Goto(p, IF q.starve THEN "wakerr" ELSE "run"),
              rr' = rr, tok' = tok
       PROVE  Flag(r)'
  <2>1. Notempty'
    BY <1>12 DEF Notempty
  <2>2. at'[r] \in {"rsleep", "rasleep"} => at'[r] = at[r]
    BY <1>t, <1>12 DEF Goto
  <2>3. CASE q.starve
    <3>1. RrOwed'
      BY <1>12, <2>3, RrOwedMade
    <3> QED BY <1>f, <1>12, <2>1, <2>2, <3>1
  <2>4. CASE ~q.starve
    <3>1. RrOwed => RrOwed'
      BY <1>12, <2>4, RrOwedStays
    <3> QED BY <1>f, <1>12, <2>1, <2>2, <2>4, <3>1
  <2> QED BY <2>3, <2>4
<1>13. ASSUME NEW p \in Writers, WriteBlock(p)
       PROVE  Flag(r)'
  <2>1. /\ at[p] = "put" /\ q' = Added(Head(want[p])) /\ UNCHANGED <<rr, tok>>
        /\ Goto(p, IF q.starve THEN "wakerr" ELSE "flow")
    BY <1>13 DEF WriteBlock, Rendezs
  <2>2. Head(want[p]) \in Nat
    BY <1>p, <2>1, WantIs
  <2>3. q'.blocks # <<>>
    BY <2>1, <2>2, AddedKept
  <2> QED BY <1>p, <1>12, <2>1, <2>2, <2>3
<1>14. ASSUME NEW p \in Producers, NEW n \in WriteSizes, Qproduce(p, n)
       PROVE  Flag(r)'
  <2>0. n \in Nat
    BY SizesAssumption
  <2>1. CASE q.len >= Limit
    <3>1. q' = [q EXCEPT !.flow = TRUE] /\ UNCHANGED <<at, rr, tok>>
      BY <1>14, <2>1 DEF Qproduce, Rendezs
    <3>2. q'.blocks = q.blocks /\ q'.closed = q.closed /\ q'.starve = q.starve
      BY <1>t, <3>1, SetFlow DEF Filled
    <3> QED BY <1>f, <3>1, <3>2 DEF Notempty, RrOwed
  <2>2. CASE ~(q.len >= Limit)
    <3> DEFINE b == Added(n).flow \/ Added(n).len >= Limit
    <3>1. /\ q' = [Added(n) EXCEPT !.flow = b]
          /\ at[p] = "run" /\ UNCHANGED <<rr, tok>>
          /\ Goto(p, IF q.starve THEN "wakerr" ELSE "run")
      BY <1>14, <2>2 DEF Qproduce, Rendezs
    <3>1a. b \in BOOLEAN
      OBVIOUS
    <3> HIDE DEF b
    <3>2. Added(n) \in Queues /\ Added(n).blocks # <<>>
      BY <2>0, AddedKept
    <3>3. q'.blocks # <<>>
      BY <3>1, <3>1a, <3>2, SetFlow DEF Filled
    <3> QED BY <1>p, <1>12, <2>0, <3>1, <3>3
  <2> QED BY <2>1, <2>2
<1>15. ASSUME NEW p \in Producers, NEW n \in WriteSizes, Qiwrite(p, n)
       PROVE  Flag(r)'
  <2>0. n \in Nat
    BY SizesAssumption
  <2>1. /\ q' = Added(n) /\ at[p] = "run" /\ UNCHANGED <<rr, tok>>
        /\ Goto(p, IF q.starve THEN "wakerr" ELSE "run")
    BY <1>15 DEF Qiwrite, Rendezs
  <2>2. q'.blocks # <<>>
    BY <2>0, <2>1, AddedKept
  <2> QED BY <1>p, <1>12, <2>0, <2>1, <2>2
<1>16. ASSUME rr' = None, tok' = tok \union ({rr} \ {None}), q' = q, NEW p, NEW l, Goto(p, l),
              l \notin {"rsleep", "rasleep"}
       PROVE  Flag(r)'
  <2>1. at'[r] \in {"rsleep", "rasleep"} => at'[r] = at[r]
    BY <1>t, <1>16 DEF Goto
  <2>2. at'[r] = "rasleep" => r \in tok'
    BY <1>f, <1>p, <1>16, <2>1
  <2> QED BY <1>f, <1>16, <2>1, <2>2 DEF Notempty
<1>17. ASSUME NEW p \in Writers \union Producers, WakeReader(p)
       PROVE  Flag(r)'
  <2>1. \E l \in {"flow", "run"} : Goto(p, l)
    BY <1>17 DEF WakeReader, Go
  <2>2. rr' = None /\ tok' = tok \union ({rr} \ {None}) /\ q' = q
    BY <1>17 DEF WakeReader, WakeupRr
  <2> QED BY <1>16, <2>1, <2>2
<1>18. ASSUME CloseWakeRr
       PROVE  Flag(r)'
  BY <1>16, <1>18 DEF CloseWakeRr, WakeupRr, Go
<1>19. ASSUME CloseWakeWr
       PROVE  Flag(r)'
  BY <1>p, <1>q, <1>19 DEF CloseWakeWr, WakeupWr, Go
<1>20. ASSUME Qhangup \/ Qclose
       PROVE  Flag(r)'
  <2>1. Goto(Closer, "wakeall") /\ at[Closer] = "run" /\ UNCHANGED <<rr, tok>>
        /\ (q' = Qhungup(q) \/ q' = Qclosed(q))
    BY <1>20 DEF Qhangup, Qclose, Change, Go, Rendezs
  <2>2. q'.closed
    BY <1>t, <2>1 DEF Qhungup, Qclosed, Queues
  <2>3. RrOwed'
    BY <1>p, <2>1, RrOwedMade
  <2>4. at'[r] \in {"rsleep", "rasleep"} => at'[r] = at[r]
    BY <1>t, <2>1 DEF Goto
  <2> QED BY <1>f, <2>1, <2>2, <2>3, <2>4 DEF Notempty
<1>21. ASSUME Qreopen
       PROVE  Flag(r)'
  <2>1. Goto(Closer, "run") /\ at[Closer] = "run" /\ UNCHANGED <<rr, tok>>
        /\ q' = Qreopened(q) /\ q.closed
    BY <1>21 DEF Qreopen, Change, Go, Rendezs
  <2>2. q'.starve
    BY <1>t, <2>1 DEF Qreopened, Queues
  <2>3. RrOwed => RrOwed'
    BY <1>p, <2>1, RrOwedStays
  <2>4. at'[r] \in {"rsleep", "rasleep"} => at'[r] = at[r]
    BY <1>t, <2>1 DEF Goto
  <2> QED BY <1>f, <2>1, <2>2, <2>3, <2>4 DEF Notempty
<1>22. CASE UNCHANGED vars
  BY <1>f, <1>22 DEF vars, Notempty, RrOwed
<1> HIDE DEF Flag
<1>23. ASSUME NEW p \in Readers, ReadCall(p) \/ ReaderStep(p)
       PROVE  Flag(r)'
  BY <1>1, <1>2, <1>3, <1>4, <1>5, <1>6, <1>7, <1>23 DEF ReadCall, ReaderStep
<1>24. ASSUME NEW p \in Writers, WriterStep(p)
       PROVE  Flag(r)'
  BY <1>9, <1>10, <1>11, <1>13, <1>17, <1>24 DEF WriterStep
<1> QED BY <1>8, <1>14, <1>15, <1>17, <1>18, <1>19, <1>20, <1>21, <1>22, <1>23, <1>24
        DEF Next, CloserStep

-----------------------------------------------------------------------------
\* How the queue was opened, and who uses it, stay as they were; a close ends
\* noblock.
LEMMA ModesStay ==
  ASSUME TypeOK, Held, Calls, [Next]_vars
  PROVE  /\ users' = users /\ q'.coalesce = q.coalesce
         /\ q'.noblock = q.noblock \/ Closer \in users
<1> DEFINE Goal == /\ users' = users /\ q'.coalesce = q.coalesce
                   /\ q'.noblock = q.noblock \/ Closer \in users
<1> SUFFICES Goal
  OBVIOUS
<1>t. q \in Queues
  BY Typed
<1>1. ASSUME UNCHANGED <<q, users>>
      PROVE  Goal
  BY <1>1
<1>2. ASSUME NEW p \in Readers, ReadBlock(p)
      PROVE  Goal
  BY <1>2, ReadKeeps DEF ReadBlock, Locks
<1>3. ASSUME NEW p \in Readers, ReadEof(p) \/ ReadWait(p)
      PROVE  Goal
  <2>1. /\ users' = users
        /\ \/ q' = [Seen EXCEPT !.eof = IF @ < 4 THEN @ + 1 ELSE @]
           \/ q' = [Seen EXCEPT !.starve = TRUE]
    BY <1>3 DEF ReadEof, ReadWait, Locks
  <2>2. Seen \in Queues /\ Seen.coalesce = q.coalesce /\ Seen.noblock = q.noblock
    BY SeenKept DEF Alike
  <2>3. q'.coalesce = Seen.coalesce /\ q'.noblock = Seen.noblock
    <3>1. CASE q' = [Seen EXCEPT !.eof = IF @ < 4 THEN @ + 1 ELSE @]
      BY <2>2, <3>1, SetEof
    <3>2. CASE q' = [Seen EXCEPT !.starve = TRUE]
      BY <2>2, <3>2, SetStarve
    <3> QED BY <2>1, <3>1, <3>2
  <2> QED BY <2>1, <2>2, <2>3
<1>4. ASSUME NEW p \in Writers, WriteBlock(p)
      PROVE  Goal
  <2>1. at[p] = "put" /\ p \in Procs
    BY <1>4 DEF WriteBlock, Procs
  <2>2. Head(want[p]) \in Nat
    BY <2>1, WantIs
  <2>3. q' = Added(Head(want[p])) /\ users' = users
    BY <1>4 DEF WriteBlock, Locks
  <2> QED BY <2>2, <2>3, AddedKept
<1>5. ASSUME NEW p \in Writers, FlowFlag(p)
      PROVE  Goal
  BY <1>5, <1>t, SetFlow DEF FlowFlag, Locks
<1>6. ASSUME NEW p \in Producers, NEW n \in WriteSizes, Qproduce(p, n)
      PROVE  Goal
  <2>0. n \in Nat /\ users' = users
    BY <1>6, SizesAssumption DEF Qproduce, Locks
  <2>1. CASE q.len >= Limit
    <3>1. q' = [q EXCEPT !.flow = TRUE]
      BY <1>6, <2>1 DEF Qproduce
    <3> QED BY <1>t, <2>0, <3>1, SetFlow
  <2>2. CASE ~(q.len >= Limit)
    <3> DEFINE b == Added(n).flow \/ Added(n).len >= Limit
    <3>1. q' = [Added(n) EXCEPT !.flow = b]
      BY <1>6, <2>2 DEF Qproduce
    <3>1a. b \in BOOLEAN
      OBVIOUS
    <3> HIDE DEF b
    <3>2. /\ Added(n) \in Queues
          /\ Added(n).coalesce = q.coalesce /\ Added(n).noblock = q.noblock
      BY <2>0, AddedKept
    <3> QED BY <2>0, <3>1, <3>1a, <3>2, SetFlow
  <2> QED BY <2>1, <2>2
<1>7. ASSUME NEW p \in Producers, NEW n \in WriteSizes, Qiwrite(p, n)
      PROVE  Goal
  <2>0. n \in Nat
    BY SizesAssumption
  <2>1. q' = Added(n) /\ users' = users
    BY <1>7 DEF Qiwrite, Locks
  <2> QED BY <2>0, <2>1, AddedKept
<1>8. ASSUME Qhangup \/ Qclose \/ Qreopen
      PROVE  Goal
  <2>1. Closer \in users /\ users' = users
        /\ (q' = Qhungup(q) \/ q' = Qclosed(q) \/ q' = Qreopened(q))
    BY <1>8 DEF Qhangup, Qclose, Qreopen, Change, Locks
  <2>2. q'.coalesce = q.coalesce
    BY <1>t, <2>1 DEF Qhungup, Qclosed, Qreopened, Queues
  <2> QED BY <2>1, <2>2
<1>9. CASE CloserStep
  BY <1>1, <1>9 DEF CloserStep, CloseWakeRr, CloseWakeWr, Locks
<1>10. ASSUME NEW p \in Readers, ReadCall(p) \/ ReadSleep(p) \/ ReadAwake(p) \/ ReadRestart(p)
                                 \/ ReadReturn(p)
       PROVE  Goal
  BY <1>1, <1>10 DEF ReadCall, Qread, ReadSleep, ReadAwake, ReadRestart, ReadReturn, Locks
<1>11. ASSUME NEW p \in Writers, WriteClosed(p) \/ WriteDropped(p) \/ Flow(p) \/ FlowQlock(p)
                                 \/ FlowSleep(p) \/ FlowAwake(p) \/ FlowUnlock(p)
       PROVE  Goal
  BY <1>1, <1>11 DEF WriteClosed, WriteDropped, Flow, FlowQlock, FlowSleep, FlowAwake,
                     FlowUnlock, Locks
<1>12. ASSUME NEW p \in Writers, NEW n \in WriteSizes, Qwrite(p, n)
       PROVE  Goal
  BY <1>1, <1>12 DEF Qwrite, Locks
<1>13. ASSUME NEW p \in Writers \union Producers, WakeReader(p)
       PROVE  Goal
  BY <1>1, <1>13 DEF WakeReader, Locks
<1>14. CASE UNCHANGED vars
  BY <1>1, <1>14 DEF vars
<1> HIDE DEF Goal
<1>20. ASSUME NEW p \in Readers, ReadCall(p) \/ ReaderStep(p)
       PROVE  Goal
  BY <1>2, <1>3, <1>10, <1>20 DEF ReaderStep
<1>21. ASSUME NEW p \in Writers, WriterStep(p)
       PROVE  Goal
  BY <1>4, <1>5, <1>11, <1>13, <1>21 DEF WriterStep
<1> QED BY <1>6, <1>7, <1>8, <1>9, <1>12, <1>13, <1>14, <1>20, <1>21 DEF Next

\* A lone writer stays alone.
LEMMA LoneStep ==
  ASSUME TypeOK, Held, Calls, Lone, [Next]_vars
  PROVE  Lone'
<1>1. /\ users' = users /\ q'.coalesce = q.coalesce
      /\ q'.noblock = q.noblock \/ Closer \in users
  BY ModesStay
<1>2. \A p \in Writers \intersect users :
        \/ q.noblock /\ Closer \notin users
        \/ ~q.coalesce /\ users \intersect (Writers \union Producers) = {p}
  BY DEF Lone, LoneWriter
<1>3. \A p \in Writers \intersect users' :
        \/ q'.noblock /\ Closer \notin users'
        \/ ~q'.coalesce /\ users' \intersect (Writers \union Producers) = {p}
  BY <1>1, <1>2
<1> QED BY <1>3 DEF Lone, LoneWriter

\* Who moves, and where to.
Moves(p, l) == p \in Procs /\ p \in users /\ Goto(p, l)

\* Who is in the queue uses it, and nobody is in qflow on a noblock queue that
\* is never closed.
LEMMA MoveUsers ==
  ASSUME TypeOK, WriterFlag, users' = users,
         q'.noblock = q.noblock \/ Closer \in users,
         NEW p, NEW l, Moves(p, l),
         l \in InFlow => at[p] \in InFlow \/ ~q.noblock,
         NEW r \in Procs
  PROVE  /\ at'[r] # "run" => r \in users'
         /\ at'[r] \in InFlow => ~(q'.noblock /\ Closer \notin users')
<1>1. at \in [Procs -> Places] /\ at' = [at EXCEPT ![p] = l] /\ p \in users /\ p \in Procs
  BY Typed DEF Moves, Goto
<1>2. \A s \in Procs : /\ at[s] # "run" => s \in users
                       /\ at[s] \in InFlow => ~(q.noblock /\ Closer \notin users)
  BY DEF WriterFlag
<1>3. CASE r = p
  BY <1>1, <1>2, <1>3
<1>4. CASE r # p
  BY <1>1, <1>2, <1>4
<1> QED BY <1>3, <1>4

\* A step of p that makes no wakeup of the writers leaves those owed.
LEMMA WrOwedStays ==
  ASSUME TypeOK, WrOwed, NEW p, NEW l, Goto(p, l),
         at[p] \notin {"wakewr", "wakeall", "closewr"} \/ l = "closewr"
  PROVE  WrOwed'
<1>1. at \in [Procs -> Places] /\ at' = [at EXCEPT ![p] = l]
  BY Typed DEF Goto
<1>2. PICK o \in Procs : at[o] \in {"wakewr", "wakeall", "closewr"}
  BY DEF WrOwed
<1>3. at'[o] = at[o] \/ at'[o] = "closewr"
  BY <1>1, <1>2
<1> QED BY <1>2, <1>3 DEF WrOwed

\* A Proc that goes to wake the writers owes the wakeup.
LEMMA WrOwedMade ==
  ASSUME TypeOK, NEW p \in Procs, NEW l \in {"wakewr", "wakeall", "closewr"}, Goto(p, l)
  PROVE  WrOwed'
<1>1. at \in [Procs -> Places] /\ at' = [at EXCEPT ![p] = l]
  BY Typed DEF Goto
<1>3. at'[p] = l
  BY <1>1
<1> QED BY <1>3 DEF WrOwed

\* No writer sleeps unflagged.
LEMMA WriterFlagStep ==
  ASSUME TypeOK, Held, Calls, Lone, WriterFlag, [Next]_vars
  PROVE  WriterFlag'
<1> DEFINE Flag(r) ==
             /\ at[r] # "run" => r \in users
             /\ at[r] \in InFlow => ~(q.noblock /\ Closer \notin users)
             /\ at[r] \in {"wqlock", "wlock"} => q.flow \/ q.len < Limit
             /\ at[r] = "wasleep" /\ r \notin tok =>
                  /\ wr = r /\ (q.flow \/ WrOwed)
                  /\ q.closed \/ q.len < Limit \div 2 => WrOwed
<1>t. at \in [Procs -> Places] /\ q \in Queues /\ users \subseteq Procs
  BY Typed
<1>n. q.len \in Nat /\ Limit \in Nat /\ Limit > 0 /\ Limit \div 2 \in Nat /\ Limit \div 2 <= Limit
  BY <1>t, QueueFields, QueueAssumption
<1>p. Readers \subseteq Procs /\ Writers \subseteq Procs /\ Producers \subseteq Procs
      /\ Closer \in Procs /\ None \notin Procs
  BY ProcsAssumption DEF Procs
<1> SUFFICES ASSUME NEW r \in Procs
             PROVE  Flag(r)'
  BY DEF WriterFlag
<1>f. Flag(r)
  BY DEF WriterFlag
<1>u. \A p \in Procs : at[p] # "run" => p \in users
  BY DEF WriterFlag
<1>m. /\ users' = users /\ q'.coalesce = q.coalesce
      /\ q'.noblock = q.noblock \/ Closer \in users
  BY ModesStay
<1>a. at[r] \in InFlow =>
        ~q.coalesce /\ users \intersect (Writers \union Producers) = {r}
  <2>1. at[r] \in InFlow => r \in Writers /\ r \in users
    BY <1>u DEF Calls, InFlow
  <2>2. \A p \in Writers \intersect users :
          \/ q.noblock /\ Closer \notin users
          \/ ~q.coalesce /\ users \intersect (Writers \union Producers) = {p}
    BY DEF Lone, LoneWriter
  <2> QED BY <1>f, <2>1, <2>2
<1>w. at[r] \in HasWlock => wlock.hold = r
  BY DEF Calls
<1>v. ASSUME NEW p, NEW l, Moves(p, l),
             l \in InFlow => at[p] \in InFlow \/ ~q.noblock
      PROVE  /\ at'[r] # "run" => r \in users'
             /\ at'[r] \in InFlow => ~(q'.noblock /\ Closer \notin users')
  BY <1>m, <1>v, MoveUsers
\* The queue is as full and as flagged as it was.
<1>q. ASSUME NEW p, NEW l, Moves(p, l),
             l \in InFlow => at[p] \in InFlow \/ ~q.noblock,
             l \in {"wqlock", "wlock"} => at[p] \in InFlow /\ (q.flow \/ q.len < Limit),
             l # "wasleep",
             at[p] \notin {"wakewr", "wakeall", "closewr"} \/ l = "closewr",
             at[r] \in InFlow => q'.len = q.len /\ q'.flow = q.flow,
             q'.closed => q.closed,
             wr' = wr, tok \ {p} \subseteq tok'
      PROVE  Flag(r)'
  <2>1. /\ at'[r] # "run" => r \in users'
        /\ at'[r] \in InFlow => ~(q'.noblock /\ Closer \notin users')
    BY <1>q, <1>v
  <2>2. WrOwed => WrOwed'
    BY <1>q, WrOwedStays DEF Moves
  <2>3. at'[r] = IF r = p THEN l ELSE at[r]
    BY <1>t, <1>q DEF Moves, Goto
  <2>4. at'[r] \in {"wqlock", "wlock"} => q'.flow \/ q'.len < Limit
    <3>1. CASE r = p
      <4>1. l \in {"wqlock", "wlock"} => q'.flow = q.flow /\ q'.len = q.len
        BY <1>q, <2>3, <3>1 DEF InFlow
      <4> QED BY <1>q, <2>3, <3>1, <4>1
    <3>2. CASE r # p
      BY <1>f, <1>q, <2>3, <3>2 DEF InFlow
    <3> QED BY <3>1, <3>2
  <2>5. at'[r] = "wasleep" => at[r] = "wasleep" /\ r # p
    BY <1>q, <2>3
  <2>6. at'[r] = "wasleep" /\ r \notin tok' =>
          /\ wr' = r /\ (q'.flow \/ WrOwed')
          /\ q'.closed \/ q'.len < Limit \div 2 => WrOwed'
    BY <1>f, <1>q, <2>2, <2>5 DEF InFlow
  <2> QED BY <2>1, <2>4, <2>6
\* A step of somebody else that would add to the queue.
<1>o. ASSUME NEW p \in (Writers \union Producers) \intersect users, at[p] \in {"put", "run"}
      PROVE  at[r] \notin InFlow
  BY <1>a, <1>o DEF InFlow
<1>1. ASSUME NEW p \in Readers, NEW n \in ReadSizes, Qread(p, n)
      PROVE  Flag(r)'
  <2>1. Moves(p, "rlock") /\ at[p] = "run" /\ q' = q /\ wr' = wr /\ tok' = tok
    BY <1>1, <1>p DEF Qread, Go, Rendezs, Moves
  <2> QED BY <1>q, <2>1 DEF InFlow
<1>2. ASSUME NEW p \in Readers, ReadBlock(p)
      PROVE  Flag(r)'
  <2>1. at[p] = "rlock" /\ p \in Procs /\ UNCHANGED <<wr, tok>>
    BY <1>2, <1>p DEF ReadBlock, Inside, Rendezs
  <2>2. PICK l \in {"wakewr", "runlock"} : Goto(p, l)
    BY <1>2, Zenon DEF ReadBlock
  <2>3. Moves(p, l)
    BY <1>u, <2>1, <2>2 DEF Moves
  <2>4. /\ at'[r] # "run" => r \in users'
        /\ at'[r] \in InFlow => ~(q'.noblock /\ Closer \notin users')
    BY <1>v, <2>2, <2>3 DEF InFlow
  <2>5. at'[r] \in InFlow => at[r] = at'[r]
    BY <1>t, <2>1, <2>2 DEF Goto, InFlow
  <2>6. /\ q'.closed = q.closed
        /\ q'.len \in Nat /\ q'.len <= Seen.len
        /\ q'.flow => q.flow
        /\ q.flow /\ (q'.len < Limit \div 2 \/ ~q'.flow) => at'[p] = "wakewr"
        /\ q.flow /\ ~q'.flow => q'.len < Limit
    BY <1>2, ReadKeeps
  <2>7. at[r] \in InFlow => Seen.len = q.len
    BY <1>a, SeenKept
  <2>8. WrOwed => WrOwed'
    BY <2>1, <2>2, WrOwedStays
  <2>9. at'[p] = "wakewr" => WrOwed'
    BY <2>1 DEF WrOwed
  <2>10. at'[r] \in {"wqlock", "wlock"} => q'.flow \/ q'.len < Limit
    BY <1>f, <1>n, <2>5, <2>6, <2>7 DEF InFlow
  <2>11. at'[r] = "wasleep" /\ r \notin tok' =>
           /\ wr' = r /\ (q'.flow \/ WrOwed')
           /\ q'.closed \/ q'.len < Limit \div 2 => WrOwed'
    <3>1. SUFFICES ASSUME at[r] = "wasleep", r \notin tok
                   PROVE  /\ wr' = r /\ (q'.flow \/ WrOwed')
                          /\ q'.closed \/ q'.len < Limit \div 2 => WrOwed'
      BY <2>1, <2>5 DEF InFlow
    <3>2. wr' = r /\ (q.flow \/ WrOwed) /\ (q.closed => WrOwed)
      BY <1>f, <2>1, <3>1
    <3> QED BY <2>6, <2>8, <2>9, <3>2
  <2> QED BY <2>4, <2>10, <2>11
<1>3. ASSUME NEW p \in Readers, ReadEof(p) \/ ReadWait(p)
      PROVE  Flag(r)'
  <2>1. at[p] = "rlock" /\ p \in Procs /\ UNCHANGED <<wr, tok>>
        /\ \/ q' = [Seen EXCEPT !.eof = IF @ < 4 THEN @ + 1 ELSE @]
           \/ q' = [Seen EXCEPT !.starve = TRUE]
    BY <1>3, <1>p DEF ReadEof, ReadWait, Inside, Rendezs
  <2>2. PICK l \in {"rsleep", "runlock"} : Goto(p, l)
    BY <1>3, Zenon DEF ReadEof, ReadWait
  <2>3. Moves(p, l)
    BY <1>u, <2>1, <2>2 DEF Moves
  <2>4. Seen \in Queues /\ Seen.flow = q.flow /\ Seen.closed = q.closed
        /\ (~q.coalesce => Seen = q)
    BY SeenKept DEF Alike
  <2>5. q'.flow = Seen.flow /\ q'.closed = Seen.closed /\ q'.len = Seen.len
    <3>1. CASE q' = [Seen EXCEPT !.eof = IF @ < 4 THEN @ + 1 ELSE @]
      BY <2>4, <3>1, SetEof DEF Filled
    <3>2. CASE q' = [Seen EXCEPT !.starve = TRUE]
      BY <2>4, <3>2, SetStarve DEF Filled
    <3> QED BY <2>1, <3>1, <3>2
  <2>6. at[r] \in InFlow => q'.len = q.len /\ q'.flow = q.flow
    BY <1>a, <2>4, <2>5
  <2> QED BY <1>q, <2>1, <2>2, <2>3, <2>4, <2>5, <2>6 DEF InFlow
<1>4. ASSUME NEW p \in Readers, ReadSleep(p) \/ ReadAwake(p) \/ ReadReturn(p)
      PROVE  Flag(r)'
  <2>1. /\ at[p] \in {"rsleep", "rasleep", "runlock"} /\ p \in Procs /\ q' = q /\ wr' = wr
        /\ tok \ {p} \subseteq tok'
    BY <1>4, <1>p DEF ReadSleep, ReadAwake, ReadReturn, Go, Rendezs
  <2>2. PICK l \in {"rlock", "rasleep", "run"} : Goto(p, l)
    BY <1>4 DEF ReadSleep, ReadAwake, ReadReturn, Go
  <2>3. Moves(p, l)
    BY <1>u, <2>1, <2>2 DEF Moves
  <2> QED BY <1>q, <2>1, <2>2, <2>3 DEF InFlow
<1>5. ASSUME wr' = None, tok' = tok \union ({wr} \ {None}), q' = q, NEW p \in Procs,
             NEW l \in {"run", "runlock"}, Goto(p, l), at[p] # "run"
      PROVE  Flag(r)'
  <2>1. Moves(p, l)
    BY <1>u, <1>5 DEF Moves
  <2>2. /\ at'[r] # "run" => r \in users'
        /\ at'[r] \in InFlow => ~(q'.noblock /\ Closer \notin users')
    BY <1>v, <1>5, <2>1 DEF InFlow
  <2>3. at'[r] \in InFlow => at[r] = at'[r]
    BY <1>t, <1>5 DEF Goto, InFlow
  <2>4. at'[r] = "wasleep" => r \in tok'
    BY <1>f, <1>p, <1>5, <2>3 DEF InFlow
  <2> QED BY <1>f, <1>5, <2>2, <2>3, <2>4 DEF InFlow
<1>6. ASSUME NEW p \in Readers, ReadRestart(p)
      PROVE  Flag(r)'
  BY <1>5, <1>6, <1>p DEF ReadRestart, Go, WakeupWr
<1>7. ASSUME CloseWakeWr
      PROVE  Flag(r)'
  BY <1>5, <1>7, <1>p DEF CloseWakeWr, Go, WakeupWr
<1>8. ASSUME CloseWakeRr
      PROVE  Flag(r)'
  <2>1. at[Closer] = "wakeall" /\ Goto(Closer, "closewr") /\ q' = q /\ wr' = wr
        /\ tok \subseteq tok'
    BY <1>8 DEF CloseWakeRr, Go, WakeupRr
  <2>2. Moves(Closer, "closewr")
    BY <1>p, <1>u, <2>1 DEF Moves
  <2> QED BY <1>q, <2>1, <2>2 DEF InFlow
<1>9. ASSUME NEW p \in Writers, NEW n \in WriteSizes, Qwrite(p, n)
      PROVE  Flag(r)'
  <2>1. p \in Procs /\ p \in users /\ at[p] = "run" /\ q' = q /\ wr' = wr /\ tok' = tok
    BY <1>9, <1>p DEF Qwrite, Go, Rendezs
  <2>2. PICK l \in {"flow", "put"} : Goto(p, l)
    BY <1>9 DEF Qwrite, Go
  <2>3. Moves(p, l)
    BY <2>1, <2>2 DEF Moves
  <2> QED BY <1>q, <2>1, <2>2, <2>3 DEF InFlow
<1>10. ASSUME NEW p \in Writers, WriteClosed(p) \/ WriteDropped(p) \/ FlowUnlock(p)
       PROVE  Flag(r)'
  <2>1. p \in Procs /\ at[p] \in {"put", "wunlock"} /\ q' = q /\ wr' = wr /\ tok' = tok
    BY <1>10, <1>p DEF WriteClosed, WriteDropped, FlowUnlock, Go, Rendezs
  <2>2. PICK l \in {"run", "put", "flow"} : Goto(p, l)
    BY <1>10 DEF WriteClosed, WriteDropped, FlowUnlock, Onward, Go
  <2>3. Moves(p, l)
    BY <1>u, <2>1, <2>2 DEF Moves
  <2> QED BY <1>q, <2>1, <2>2, <2>3 DEF InFlow
<1>11. ASSUME NEW p \in Writers \union Producers, WakeReader(p)
       PROVE  Flag(r)'
  <2>1. p \in Procs /\ at[p] = "wakerr" /\ q' = q /\ wr' = wr /\ tok \subseteq tok'
    BY <1>11, <1>p DEF WakeReader, WakeupRr, Go
  <2>2. PICK l \in {"run", "flow"} : Goto(p, l)
    BY <1>11 DEF WakeReader, Go
  <2>3. Moves(p, l)
    BY <1>u, <2>1, <2>2 DEF Moves
  <2> QED BY <1>q, <2>1, <2>2, <2>3 DEF InFlow
<1>12. ASSUME NEW p \in Writers, Flow(p)
       PROVE  Flag(r)'
  <2>1. p \in Procs /\ at[p] = "flow" /\ q' = q /\ wr' = wr /\ tok' = tok
    BY <1>12, <1>p DEF Flow, Rendezs
  <2>2. \E l \in {"run", "put", "setflow"} : Goto(p, l) /\ (l = "setflow" => ~q.noblock)
    BY <1>12 DEF Flow, Onward
  <2>2a. PICK l \in {"run", "put", "setflow"} : Goto(p, l) /\ (l = "setflow" => ~q.noblock)
    BY <2>2
  <2>3. Moves(p, l)
    BY <1>u, <2>1, <2>2a DEF Moves
  <2> QED BY <1>q, <2>1, <2>2a, <2>3 DEF InFlow
<1>13. ASSUME NEW p \in Writers, FlowQlock(p)
       PROVE  Flag(r)'
  <2>1. p \in Procs /\ at[p] = "wqlock" /\ q' = q /\ wr' = wr /\ tok' = tok /\ Goto(p, "wlock")
    BY <1>13, <1>p DEF FlowQlock, Go, Rendezs
  <2>2. q.flow \/ q.len < Limit
    BY <2>1 DEF WriterFlag
  <2>3. Moves(p, "wlock")
    BY <1>u, <2>1 DEF Moves
  <2> QED BY <1>q, <2>1, <2>2, <2>3 DEF InFlow
<1>14. ASSUME NEW p \in Writers, FlowFlag(p)
       PROVE  Flag(r)'
  <2>1. /\ p \in Procs /\ at[p] = "setflow" /\ wr' = wr /\ tok' = tok /\ Goto(p, "wqlock")
        /\ q' = [q EXCEPT !.flow = TRUE]
    BY <1>14, <1>p DEF FlowFlag, Go, Rendezs
  <2>2. q'.flow = TRUE /\ q'.len = q.len /\ q'.closed = q.closed
    BY <1>t, <2>1, SetFlow DEF Filled
  <2>3. Moves(p, "wqlock")
    BY <1>u, <2>1 DEF Moves
  <2>4. /\ at'[r] # "run" => r \in users'
        /\ at'[r] \in InFlow => ~(q'.noblock /\ Closer \notin users')
    BY <1>v, <2>1, <2>3 DEF InFlow
  <2>5. at'[r] = "wasleep" => at[r] = "wasleep"
    BY <1>t, <2>1 DEF Goto
  <2>6. WrOwed => WrOwed'
    BY <2>1, WrOwedStays
  <2> QED BY <1>f, <2>1, <2>2, <2>4, <2>5, <2>6
<1>15. ASSUME NEW p \in Writers, FlowSleep(p)
       PROVE  Flag(r)'
  <2>1. p \in Procs /\ at[p] = "wlock" /\ wlock.hold = p /\ q' = q /\ tok' = tok
    BY <1>15, <1>p DEF FlowSleep
  <2>2. PICK l \in {"wunlock", "wasleep"} :
          /\ Goto(p, l)
          /\ l = "wasleep" => ~Notfull /\ wr' = p
    BY <1>15 DEF FlowSleep
  <2>3. Moves(p, l)
    BY <1>u, <2>1, <2>2 DEF Moves
  <2>4. /\ at'[r] # "run" => r \in users'
        /\ at'[r] \in InFlow => ~(q'.noblock /\ Closer \notin users')
    BY <1>v, <2>1, <2>2, <2>3 DEF InFlow
  <2>5. at'[r] = IF r = p THEN l ELSE at[r]
    BY <1>t, <2>1, <2>2 DEF Goto
  <2>6. CASE r # p
    <3>1. at[r] # "wasleep"
      BY <1>w, <2>1, <2>6 DEF HasWlock
    <3> QED BY <1>f, <2>1, <2>4, <2>5, <2>6, <3>1
  <2>7. CASE r = p
    <3>1. at'[r] = l
      BY <2>5, <2>7
    <3>2. l = "wasleep" => wr' = r /\ q.flow /\ ~q.closed /\ ~(q.len < Limit \div 2)
      <4>1. q.flow \/ q.len < Limit
        BY <1>f, <2>1, <2>7
      <4> QED BY <1>n, <2>2, <2>7, <4>1 DEF Notfull
    <3> QED BY <2>1, <2>2, <2>4, <3>1, <3>2
  <2> QED BY <2>6, <2>7
<1>16. ASSUME NEW p \in Writers, FlowAwake(p)
       PROVE  Flag(r)'
  <2>1. p \in Procs /\ at[p] = "wasleep" /\ q' = q /\ wr' = wr /\ tok' = tok \ {p}
        /\ Goto(p, "wunlock")
    BY <1>16, <1>p DEF FlowAwake, Go
  <2>3. Moves(p, "wunlock")
    BY <1>u, <2>1 DEF Moves
  <2> QED BY <1>q, <2>1, <2>3 DEF InFlow
<1>17. ASSUME NEW p \in (Writers \union Producers) \intersect users, at[p] \in {"put", "run"},
              NEW l \in {"wakerr", "flow", "run"}, Goto(p, l)
       PROVE  Flag(r)'
  <2>1. at[r] \notin InFlow
    BY <1>o, <1>17
  <2>2. Moves(p, l)
    BY <1>17, <1>p DEF Moves
  <2>3. /\ at'[r] # "run" => r \in users'
        /\ at'[r] \in InFlow => ~(q'.noblock /\ Closer \notin users')
    BY <1>v, <1>17, <2>2 DEF InFlow
  <2>4. at'[r] \notin InFlow
    BY <1>t, <1>17, <2>1 DEF Goto, InFlow
  <2> QED BY <2>3, <2>4 DEF InFlow
<1>18. ASSUME NEW p \in Writers, WriteBlock(p)
       PROVE  Flag(r)'
  <2>1. at[p] = "put" /\ \E l \in {"wakerr", "flow"} : Goto(p, l)
    BY <1>18, Zenon DEF WriteBlock
  <2>2. p \in users
    BY <1>p, <1>u, <2>1
  <2> QED BY <1>17, <2>1, <2>2
<1>19. ASSUME NEW p \in Producers, NEW n \in WriteSizes, Qproduce(p, n) \/ Qiwrite(p, n)
       PROVE  Flag(r)'
  <2>1. p \in users /\ at[p] = "run"
    BY <1>19 DEF Qproduce, Qiwrite
  <2>2. CASE \E l \in {"wakerr", "run"} : Goto(p, l)
    BY <1>17, <2>1, <2>2
  <2>3. CASE UNCHANGED at
    <3>1. at[r] \notin InFlow
      BY <1>o, <2>1
    <3> QED BY <1>f, <1>m, <2>3, <3>1 DEF InFlow
  <2>4. (\E l \in {"wakerr", "run"} : Goto(p, l)) \/ UNCHANGED at
    BY <1>19, Zenon DEF Qproduce, Qiwrite
  <2> QED BY <2>2, <2>3, <2>4
<1>20. ASSUME Qhangup \/ Qclose
       PROVE  Flag(r)'
  <2>1. Goto(Closer, "wakeall") /\ at[Closer] = "run" /\ UNCHANGED <<wr, tok>> /\ Closer \in users
        /\ (q' = Qhungup(q) \/ q' = Qclosed(q))
    BY <1>20 DEF Qhangup, Qclose, Change, Go, Rendezs
  <2>2. (q'.flow = q.flow /\ q'.len = q.len) \/ q'.len = 0
    BY <1>t, <2>1 DEF Qhungup, Qclosed, Queues
  <2>3. WrOwed'
    BY <1>p, <2>1, WrOwedMade
  <2>4. at'[r] \in InFlow => at'[r] = at[r]
    BY <1>t, <2>1 DEF Goto, InFlow
  <2>5. Moves(Closer, "wakeall")
    BY <1>p, <2>1 DEF Moves
  <2>6. /\ at'[r] # "run" => r \in users'
        /\ at'[r] \in InFlow => ~(q'.noblock /\ Closer \notin users')
    BY <1>v, <2>5 DEF InFlow
  <2>7. at'[r] \in {"wqlock", "wlock"} => q'.flow \/ q'.len < Limit
    BY <1>f, <1>n, <2>2, <2>4 DEF InFlow
  <2>8. at'[r] = "wasleep" /\ r \notin tok' => wr' = r
    BY <1>f, <2>1, <2>4 DEF InFlow
  <2> QED BY <2>3, <2>6, <2>7, <2>8
<1>21. ASSUME Qreopen
       PROVE  Flag(r)'
  <2>1. Goto(Closer, "run") /\ at[Closer] = "run" /\ UNCHANGED <<wr, tok>>
        /\ q' = Qreopened(q) /\ Closer \in users
    BY <1>21 DEF Qreopen, Change, Go, Rendezs
  <2>2. q'.flow = q.flow /\ q'.len = q.len /\ ~q'.closed
    BY <1>t, <2>1 DEF Qreopened, Queues
  <2>3. Moves(Closer, "run")
    BY <1>p, <2>1 DEF Moves
  <2> QED BY <1>q, <2>1, <2>2, <2>3 DEF InFlow
<1>22. CASE UNCHANGED vars
  BY <1>f, <1>22 DEF vars, WrOwed
<1> HIDE DEF Flag
<1>23. ASSUME NEW p \in Readers, ReadCall(p) \/ ReaderStep(p)
       PROVE  Flag(r)'
  BY <1>1, <1>2, <1>3, <1>4, <1>6, <1>23 DEF ReadCall, ReaderStep
<1>24. ASSUME NEW p \in Writers, WriterStep(p)
       PROVE  Flag(r)'
  BY <1>10, <1>11, <1>12, <1>13, <1>14, <1>15, <1>16, <1>18, <1>24 DEF WriterStep
<1> QED BY <1>7, <1>8, <1>9, <1>11, <1>19, <1>20, <1>21, <1>22, <1>23, <1>24
        DEF Next, CloserStep

-----------------------------------------------------------------------------
\* From the first state on.

\* An opened queue is empty, and nobody is in it.
LEMMA InitTyped == Init => TypeOK /\ Held
<1> SUFFICES ASSUME Init
             PROVE  TypeOK /\ Held
  OBVIOUS
<1>1. PICK u \in Uses : q = Qopen(u.msg, u.coalesce, u.noblock) /\ users = u.users
  BY DEF Init
<1>2. /\ u.msg \in BOOLEAN /\ u.coalesce \in BOOLEAN /\ u.noblock \in BOOLEAN
      /\ users \subseteq Procs
  BY <1>1, ProcsAssumption
<1>3. q \in Queues /\ q.blocks = <<>> /\ q.len = 0 /\ q.dlen = 0
  <2>1. <<>> \in Seq(Block) /\ 0 \in 0 .. 4
    OBVIOUS
  <2> QED BY <1>1, <1>2, <2>1 DEF Qopen, Queues
<1>4. Held
  <2>1. ngot + 1 = nput + 1 /\ nput = 0
    BY DEF Init
  <2> QED BY <1>3, <2>1, EmptyKept DEF Held
<1>5. L!FreeLock \in L!QLocks
  <2>1. <<>> \in Seq(Procs)
    OBVIOUS
  <2> QED BY <2>1 DEF L!FreeLock, L!QLocks
<1>6. at \in [Procs -> Places]
  BY DEF Init, Places
<1>7. want \in [Readers \union Writers -> Seq(Nat)]
  <2>1. <<>> \in Seq(Nat)
    OBVIOUS
  <2> QED BY <2>1 DEF Init
<1>8. ncloses \in 0 .. MaxCloses /\ ngot \in 0 .. nput /\ nput \in Nat
  BY SizesAssumption DEF Init
<1> QED BY <1>2, <1>3, <1>4, <1>5, <1>6, <1>7, <1>8 DEF Init, TypeOK, Places

\* The invariant holds at first ...
LEMMA InitIInv == Init => IInv
<1> SUFFICES ASSUME Init
             PROVE  IInv
  OBVIOUS
<1>1. \A p \in Procs : at[p] = "run"
  BY DEF Init
<1> QED BY <1>1, InitTyped DEF IInv, Calls, ReaderFlag, InRead, InFlow, HasRlock, HasWlock

\* ... is kept by every step ...
LEMMA NextIInv == IInv /\ [Next]_vars => IInv'
  BY TypeStep, HeldStep, CallsStep, ReaderFlagStep DEF IInv

\* ... and so holds of every state of a Queue.
THEOREM SpecIInv == Spec => []IInv
  BY InitIInv, NextIInv, PTL DEF Spec

\* The variables keep their types: a queue's lengths are never negative, and
\* no more is read than was written.
THEOREM QioTypeOK == Spec => []TypeOK
<1>1. IInv => TypeOK
  BY DEF IInv
<1> QED BY <1>1, SpecIInv, PTL

\* Bytes are read in the order in which they were queued, each once.
THEOREM QioInOrder == Spec => []InOrder
<1>1. ASSUME IInv
      PROVE  InOrder
  <2>1. q.blocks \in Seq(Sound) /\ Chain(q.blocks, ngot + 1, nput)
    BY <1>1 DEF IInv, Held, Kept
  <2>2. ngot + 1 \in Nat /\ nput \in Nat
    BY <1>1, Typed DEF IInv
  <2> QED BY <2>1, <2>2, ContiguousIs DEF InOrder
<1> QED BY <1>1, SpecIInv, PTL

\* q->len and q->dlen are the lengths of the blocks in the queue.
THEOREM QioLengthsTrue == Spec => []LengthsTrue
<1>1. IInv => LengthsTrue
  BY DEF IInv, Held, Kept, LengthsTrue
<1> QED BY <1>1, SpecIInv, PTL

\* A reader sleeps on a queue with something in it, or closed, only while its
\* wakeup is on the way.
THEOREM QioReaderWoken == Spec => []ReaderWoken
<1>1. Readers \subseteq Procs
  BY DEF Procs
<1>2. IInv => ReaderWoken
  BY <1>1 DEF IInv, ReaderFlag, ReaderWoken
<1> QED BY <1>2, SpecIInv, PTL

\* A writer sleeps on a queue that was drained below half its limit, or is
\* closed, only while its wakeup is on the way: where it is the only one to
\* add to its queue and reads do not coalesce, and where nothing waits.
THEOREM QioWriterWoken ==
  ASSUME \A u \in Uses : LoneWriter(u)
  PROVE  Spec => []WriterWoken
<1>1. Init => FInv
  <2> SUFFICES ASSUME Init
               PROVE  FInv
    OBVIOUS
  <2>1. \A p \in Procs : at[p] = "run"
    BY DEF Init
  <2>2. WriterFlag
    BY <2>1 DEF WriterFlag, InFlow
  <2>3. PICK u \in Uses : q = Qopen(u.msg, u.coalesce, u.noblock) /\ users = u.users
    BY DEF Init
  <2>4. q.noblock = u.noblock /\ q.coalesce = u.coalesce
    BY <2>3 DEF Qopen
  <2>5. Lone
    BY <2>3, <2>4 DEF Lone, LoneWriter
  <2> QED BY <2>2, <2>5, InitIInv DEF FInv
<1>2. FInv /\ [Next]_vars => FInv'
  BY NextIInv, LoneStep, WriterFlagStep DEF FInv, IInv
<1>3. Writers \subseteq Procs
  BY DEF Procs
<1>4. FInv => WriterWoken
  BY <1>3 DEF FInv, WriterFlag, WriterWoken
<1> QED BY <1>1, <1>2, <1>4, PTL DEF Spec
=============================================================================
