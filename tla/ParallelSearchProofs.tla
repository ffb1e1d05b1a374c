-------------------------- MODULE ParallelSearchProofs --------------------------
(* Theorems about ParallelSearch, for every conference, solver, cutoff and    *)
(* schedule of the workers.                                                   *)
EXTENDS ParallelSearch, SequenceTheorems, FunctionTheorems, FiniteSetTheorems,
        WellFoundedInduction, TLAPS

-----------------------------------------------------------------------------
(* Induction, on a set of naturals.                                           *)

LEMMA Smallest ==
  ASSUME NEW T \in SUBSET Nat, T # {}
  PROVE  \E n \in T : \A m \in T : n <= m
<1> DEFINE R == OpToRel(<, Nat)
<1>1. IsWellFoundedOn(R, Nat)
  BY NatLessThanWellFounded
<1>2. \A x, y \in Nat : x < y => <<x, y>> \in R
  BY DEF OpToRel
<1> HIDE DEF R
<1>3. \E x \in T : \A y \in T : ~ (<<y, x>> \in R)
  BY <1>1, WFMin
<1>4. PICK x \in T : \A y \in T : ~ (<<y, x>> \in R)
  BY <1>3
<1>5. ASSUME NEW y \in T PROVE x <= y
  <2>1. x \in Nat /\ y \in Nat
    OBVIOUS
  <2>2. ~ (y < x)
    BY <1>2, <1>4, <2>1
  <2> QED BY <2>1, <2>2
<1> QED BY <1>5

LEMMA Induction ==
  ASSUME NEW S, 0 \in S, \A n \in Nat : n \in S => n + 1 \in S
  PROVE  Nat \subseteq S
<1> SUFFICES ASSUME NEW k \in Nat, k \notin S PROVE FALSE
  OBVIOUS
<1>1. PICK n \in Nat \ S : \A m \in Nat \ S : n <= m
  <2>1. Nat \ S # {} /\ Nat \ S \in SUBSET Nat
    OBVIOUS
  <2> QED BY <2>1, Smallest
<1>2. n - 1 \in Nat
  BY <1>1
<1>3. n - 1 \in S
  BY <1>1, <1>2
<1>4. (n - 1) + 1 \in S
  BY <1>2, <1>3
<1> QED BY <1>1, <1>4

(* A function on S, defined by recursion on a measure: H[f][x] is its value   *)
(* at x, given its values f at the points of smaller measure.                 *)
WellDefined(S, V, m, H) ==
  /\ m \in [S -> Nat] /\ H \in [[S -> V] -> [S -> V]]
  /\ \A x \in S : \A f, g \in [S -> V] :
       (\A y \in S : m[y] < m[x] => f[y] = g[y]) => H[f][x] = H[g][x]

Solves(f, S, H) == \A x \in S : f[x] = H[f][x]

LEMMA RecursionExists ==
  ASSUME NEW S, NEW V, NEW v \in V, NEW m, NEW H, WellDefined(S, V, m, H),
         NEW bound \in Nat, \A x \in S : m[x] < bound
  PROVE  \E f \in [S -> V] : Solves(f, S, H)
<1> USE DEF Solves
<1> DEFINE Upto(f, n) == \A x \in S : m[x] < n => f[x] = H[f][x]
           N == {n \in Nat : \E f \in [S -> V] : Upto(f, n)}
<1>1. 0 \in N
  <2>1. [x \in S |-> v] \in [S -> V]
    OBVIOUS
  <2>2. Upto([x \in S |-> v], 0)
    BY DEF WellDefined
  <2> QED BY <2>1, <2>2
<1>2. ASSUME NEW n \in Nat, n \in N PROVE n + 1 \in N
  <2>1. PICK f \in [S -> V] : Upto(f, n)
    BY <1>2
  <2> DEFINE g == [x \in S |-> H[f][x]]
  <2>2. g \in [S -> V]
    BY DEF WellDefined
  <2>3. Upto(g, n + 1)
    <3> SUFFICES ASSUME NEW x \in S, m[x] < n + 1 PROVE g[x] = H[g][x]
      OBVIOUS
    <3>1. ASSUME NEW y \in S, m[y] < m[x] PROVE f[y] = g[y]
      <4>1. m[y] < n
        BY <3>1 DEF WellDefined
      <4> QED BY <2>1, <4>1
    <3>2. H[f][x] = H[g][x]
      BY <2>2, <3>1 DEF WellDefined
    <3> QED BY <3>2
  <2> HIDE DEF g, Upto
  <2>4. \E h \in [S -> V] : Upto(h, n + 1)
    BY <2>2, <2>3
  <2> QED BY <2>4
<1>3. bound \in N
  <2> HIDE DEF N
  <2> QED BY <1>1, <1>2, Induction
<1> QED BY <1>3

(* Any two such functions are equal, and have values of V.                    *)
Follows(g, f, S, m, H) ==
  \A x \in S : (\A y \in S : m[y] < m[x] => g[y] = f[y]) => g[x] = H[f][x]

LEMMA RecursionUnique ==
  ASSUME NEW S, NEW V, NEW m, NEW H, WellDefined(S, V, m, H), NEW f \in [S -> V], NEW g,
         Solves(f, S, H), Follows(g, f, S, m, H)
  PROVE  \A x \in S : g[x] = f[x]
<1> USE DEF Solves, Follows
<1> DEFINE N == {n \in Nat : \A x \in S : m[x] < n => g[x] = f[x]}
<1>1. 0 \in N
  BY DEF WellDefined
<1>2. ASSUME NEW n \in Nat, n \in N PROVE n + 1 \in N
  <2> SUFFICES ASSUME NEW x \in S, m[x] < n + 1 PROVE g[x] = f[x]
    OBVIOUS
  <2>1. \A y \in S : m[y] < m[x] => g[y] = f[y]
    BY <1>2 DEF WellDefined
  <2> QED BY <2>1
<1>3. Nat \subseteq N
  <2> HIDE DEF N
  <2> QED BY <1>1, <1>2, Induction
<1> SUFFICES ASSUME NEW x \in S PROVE g[x] = f[x]
  OBVIOUS
<1>4. m[x] + 1 \in N /\ m[x] < m[x] + 1
  BY <1>3 DEF WellDefined
<1> QED BY <1>4

-----------------------------------------------------------------------------
(* Sequences of sequences, put together.                                      *)

(* The sequences s[1] to s[i] put together.                                   *)
Flattens(g, s) ==
  g[0] = <<>> /\ \A i \in 1..Len(s) : g[i] = g[i - 1] \o s[i]

LEMMA FlattenExists ==
  ASSUME NEW A, NEW s \in Seq(Seq(A)), s # <<>>
  PROVE  \E f \in [1..Len(s) -> Seq(A)] :
           /\ \A i \in 1..Len(s) : f[i] = IF i = 1 THEN s[i] ELSE f[i - 1] \o s[i]
           /\ FlattenSeq(s) = f[Len(s)]
<1> DEFINE S == 1..Len(s)
           V == Seq(A)
           m == [i \in S |-> i]
           H == [f \in [S -> V] |-> [i \in S |-> IF i = 1 THEN s[i] ELSE f[i - 1] \o s[i]]]
           F == CHOOSE f : f = [i \in S |-> IF i = 1 THEN s[i] ELSE f[i - 1] \o s[i]]
<1>1. /\ Len(s) \in Nat \ {0} /\ Len(s) \in S
      /\ \A i \in S : s[i] \in V /\ i \in Nat /\ i < Len(s) + 1
      /\ \A i \in S : i # 1 => i - 1 \in S /\ i - 1 < i
  OBVIOUS
<1>2. s[1] \in V
  BY <1>1
<1>3. FlattenSeq(s) = F[Len(s)]
  BY <1>1 DEF FlattenSeq
<1> HIDE DEF V
<1>4. \A a, b \in V : a \o b \in V
  BY DEF V
<1> HIDE DEF S
<1>5. /\ \A f \in [S -> V] : H[f] \in [S -> V]
      /\ \A f \in [S -> V] : \A i \in S :
           H[f][i] = IF i = 1 THEN s[i] ELSE f[i - 1] \o s[i]
  BY <1>1, <1>4
<1>6. H \in [[S -> V] -> [S -> V]] /\ m \in [S -> Nat] /\ \A i \in S : m[i] = i
  BY <1>1, <1>5
<1> HIDE DEF H, m
<1>7. WellDefined(S, V, m, H)
  <2>1. ASSUME NEW x \in S, NEW f \in [S -> V], NEW g \in [S -> V],
               \A y \in S : m[y] < m[x] => f[y] = g[y]
        PROVE  H[f][x] = H[g][x]
    <3>1. x # 1 => f[x - 1] = g[x - 1]
      BY <1>1, <1>6, <2>1
    <3> QED BY <1>5, <3>1
  <2> QED BY <1>6, <2>1 DEF WellDefined
<1>8. PICK f \in [S -> V] : Solves(f, S, H)
  <2>1. \A x \in S : m[x] < Len(s) + 1
    BY <1>1, <1>6
  <2>2. Len(s) + 1 \in Nat
    BY <1>1
  <2> QED BY <1>2, <1>7, <2>1, <2>2, RecursionExists
<1>9. f = [i \in S |-> IF i = 1 THEN s[i] ELSE f[i - 1] \o s[i]]
  <2>1. \A i \in S : f[i] = IF i = 1 THEN s[i] ELSE f[i - 1] \o s[i]
    BY <1>5, <1>8 DEF Solves
  <2>2. f = [i \in S |-> f[i]]
    OBVIOUS
  <2> QED BY <2>1, <2>2
<1>10. F = [i \in S |-> IF i = 1 THEN s[i] ELSE F[i - 1] \o s[i]]
  BY <1>9
<1> HIDE DEF F
<1>11. \A i \in S : F[i] = f[i]
  <2>1. ASSUME NEW i \in S, \A j \in S : m[j] < m[i] => F[j] = f[j]
        PROVE  F[i] = H[f][i]
    <3>1. i # 1 => F[i - 1] = f[i - 1]
      BY <1>1, <1>6, <2>1
    <3>2. F[i] = IF i = 1 THEN s[i] ELSE F[i - 1] \o s[i]
      BY <1>10
    <3>3. H[f][i] = IF i = 1 THEN s[i] ELSE f[i - 1] \o s[i]
      BY <1>5
    <3> QED BY ONLY <3>1, <3>2, <3>3
  <2>2. Follows(F, f, S, m, H)
    BY <2>1 DEF Follows
  <2> QED BY <1>7, <1>8, <2>2, RecursionUnique
<1>12. FlattenSeq(s) = f[Len(s)]
  BY <1>1, <1>3, <1>11
<1> QED BY <1>5, <1>8, <1>12 DEF V, S, Solves

LEMMA FlattenHas ==
  ASSUME NEW A, NEW s \in Seq(Seq(A))
  PROVE  \E g \in [0..Len(s) -> Seq(A)] : Flattens(g, s) /\ FlattenSeq(s) = g[Len(s)]
<1>1. CASE s = <<>>
  <2> DEFINE g == [i \in 0..0 |-> <<>>]
  <2>1. Len(s) = 0 /\ g \in [0..0 -> Seq(A)] /\ g[0] = <<>> /\ 1..0 = {}
    BY <1>1
  <2>2. FlattenSeq(s) = s
    BY <2>1 DEF FlattenSeq
  <2>3. Flattens(g, s)
    BY <2>1 DEF Flattens
  <2> HIDE DEF g
  <2> QED BY <1>1, <2>1, <2>2, <2>3
<1>2. CASE s # <<>>
  <2>1. PICK f \in [1..Len(s) -> Seq(A)] :
           /\ \A i \in 1..Len(s) : f[i] = IF i = 1 THEN s[i] ELSE f[i - 1] \o s[i]
           /\ FlattenSeq(s) = f[Len(s)]
    BY <1>2, FlattenExists
  <2> DEFINE g == [i \in 0..Len(s) |-> IF i = 0 THEN <<>> ELSE f[i]]
  <2>2. Len(s) \in Nat \ {0} /\ \A i \in 1..Len(s) : s[i] \in Seq(A)
    BY <1>2
  <2>3. /\ g \in [0..Len(s) -> Seq(A)] /\ g[0] = <<>>
        /\ \A i \in 1..Len(s) : g[i] = f[i]
    BY <2>2
  <2> HIDE DEF g
  <2>4. ASSUME NEW i \in 1..Len(s) PROVE g[i] = g[i - 1] \o s[i]
    <3>1. CASE i = 1
      <4>1. g[i] = f[1] /\ f[1] = s[i] /\ i - 1 = 0
        <5>1. 1 \in 1..Len(s)
          BY <3>1
        <5>2. f[1] = IF 1 = 1 THEN s[1] ELSE f[1 - 1] \o s[1]
          BY <2>1, <5>1
        <5> QED BY <2>3, <3>1, <5>2
      <4>2. \A e \in Seq(A) : <<>> \o e = e
        OBVIOUS
      <4> QED BY <2>2, <2>3, <4>1, <4>2
    <3>2. CASE i # 1
      <4>1. i - 1 \in 1..Len(s)
        BY <2>2, <3>2
      <4> QED BY <2>1, <2>3, <3>2, <4>1
    <3> QED BY <3>1, <3>2
  <2>5. Flattens(g, s)
    BY <2>3, <2>4 DEF Flattens
  <2>6. g[Len(s)] = f[Len(s)]
    BY <2>2, <2>3
  <2> QED BY <2>1, <2>3, <2>5, <2>6
<1> QED BY <1>1, <1>2

LEMMA FlattenIs ==
  ASSUME NEW A, NEW s \in Seq(Seq(A)), NEW g, Flattens(g, s)
  PROVE  FlattenSeq(s) = g[Len(s)]
<1>1. PICK f \in [0..Len(s) -> Seq(A)] : Flattens(f, s) /\ FlattenSeq(s) = f[Len(s)]
  BY FlattenHas
<1> DEFINE N == {i \in Nat : i <= Len(s) => g[i] = f[i]}
<1>2. 0 \in N
  BY <1>1 DEF Flattens
<1>3. ASSUME NEW i \in Nat, i \in N PROVE i + 1 \in N
  <2> SUFFICES ASSUME i + 1 <= Len(s) PROVE g[i + 1] = f[i + 1]
    OBVIOUS
  <2>1. i + 1 \in 1..Len(s) /\ i <= Len(s) /\ (i + 1) - 1 = i
    OBVIOUS
  <2>2. g[i] = f[i]
    BY <1>3, <2>1
  <2>3. g[i + 1] = g[i] \o s[i + 1] /\ f[i + 1] = f[i] \o s[i + 1]
    BY <1>1, <2>1 DEF Flattens
  <2> QED BY <2>2, <2>3
<1>4. Len(s) \in N
  <2> HIDE DEF N
  <2>1. Nat \subseteq N
    BY <1>2, <1>3, Induction
  <2> QED BY <2>1
<1> QED BY <1>1, <1>4

LEMMA FlattenType ==
  ASSUME NEW A, NEW s \in Seq(Seq(A))
  PROVE  FlattenSeq(s) \in Seq(A)
<1>1. Len(s) \in 0..Len(s)
  OBVIOUS
<1> QED BY <1>1, FlattenHas

LEMMA FlattenEmpty == FlattenSeq(<<>>) = <<>>
BY DEF FlattenSeq

LEMMA FlattenAppend ==
  ASSUME NEW A, NEW s \in Seq(Seq(A)), NEW e \in Seq(A)
  PROVE  FlattenSeq(Append(s, e)) = FlattenSeq(s) \o e
<1> DEFINE t == Append(s, e)
<1>1. /\ t \in Seq(Seq(A)) /\ Len(t) = Len(s) + 1 /\ Len(s) \in Nat /\ t[Len(s) + 1] = e
      /\ \A i \in 1..Len(s) : t[i] = s[i] /\ i \in 1..Len(t)
  OBVIOUS
<1> HIDE DEF t
<1>2. PICK g \in [0..Len(t) -> Seq(A)] : Flattens(g, t) /\ FlattenSeq(t) = g[Len(t)]
  BY <1>1, FlattenHas
<1>3. Flattens(g, s)
  BY <1>1, <1>2 DEF Flattens
<1>4. FlattenSeq(s) = g[Len(s)]
  BY <1>3, FlattenIs
<1>5. Len(t) \in 1..Len(t) /\ Len(t) - 1 = Len(s)
  BY <1>1
<1>6. g[Len(t)] = g[Len(s)] \o t[Len(t)]
  BY <1>2, <1>5 DEF Flattens
<1> QED BY <1>1, <1>2, <1>4, <1>6 DEF t

LEMMA FlattenOne ==
  ASSUME NEW A, NEW e \in Seq(A)
  PROVE  FlattenSeq(<<e>>) = e
<1>1. <<e>> = Append(<<>>, e) /\ <<>> \in Seq(Seq(A)) /\ <<>> \o e = e
  OBVIOUS
<1> QED BY <1>1, FlattenAppend, FlattenEmpty

Associative(A) == \A a, b, c \in Seq(A) : (a \o b) \o c = a \o (b \o c)

LEMMA ConcatAssoc ==
  ASSUME NEW A
  PROVE  Associative(A)
<1> USE DEF Associative
<1> TAKE a, b, c \in Seq(A)
<1> QED OBVIOUS

LEMMA FlattenConcat ==
  ASSUME NEW A, NEW s \in Seq(Seq(A)), NEW t \in Seq(Seq(A))
  PROVE  FlattenSeq(s \o t) = FlattenSeq(s) \o FlattenSeq(t)
<1> DEFINE r == s \o t
<1>1. /\ r \in Seq(Seq(A)) /\ Len(r) = Len(s) + Len(t) /\ Len(s) \in Nat /\ Len(t) \in Nat
      /\ \A i \in 1..Len(s) : r[i] = s[i]
      /\ \A i \in 1..Len(t) : r[Len(s) + i] = t[i]
  OBVIOUS
<1> HIDE DEF r
<1>2. PICK g \in [0..Len(r) -> Seq(A)] : Flattens(g, r) /\ FlattenSeq(r) = g[Len(r)]
  BY <1>1, FlattenHas
<1>3. PICK h \in [0..Len(t) -> Seq(A)] : Flattens(h, t) /\ FlattenSeq(t) = h[Len(t)]
  BY FlattenHas
<1>4. FlattenSeq(s) = g[Len(s)] /\ FlattenSeq(s) \in Seq(A)
  <2>1. \A i \in 1..Len(s) : i \in 1..Len(r) /\ r[i] = s[i]
    BY <1>1
  <2>2. Flattens(g, s)
    BY <1>2, <2>1 DEF Flattens
  <2> QED BY <2>2, FlattenIs, FlattenType
<1> DEFINE N == {i \in Nat : i <= Len(t) => g[Len(s) + i] = FlattenSeq(s) \o h[i]}
<1>5. 0 \in N
  <2>1. h[0] = <<>> /\ Len(s) + 0 = Len(s) /\ FlattenSeq(s) \o <<>> = FlattenSeq(s)
    BY <1>1, <1>3, <1>4 DEF Flattens
  <2> QED BY <1>4, <2>1
<1>6. ASSUME NEW i \in Nat, i \in N PROVE i + 1 \in N
  <2> SUFFICES ASSUME NEW j \in 1..Len(t), j = i + 1
               PROVE  g[Len(s) + j] = FlattenSeq(s) \o h[j]
    OBVIOUS
  <2>1. /\ j - 1 = i /\ i <= Len(t) /\ i \in 0..Len(t)
        /\ Len(s) + j \in 1..Len(r) /\ (Len(s) + j) - 1 = Len(s) + i
    <3>1. Len(r) = Len(s) + Len(t) /\ Len(s) \in Nat /\ Len(t) \in Nat
      BY <1>1
    <3>2. i \in Nat /\ j \in 1..Len(t) /\ j = i + 1
      OBVIOUS
    <3> QED BY ONLY <3>1, <3>2
  <2>2. g[Len(s) + j] = g[Len(s) + i] \o r[Len(s) + j]
    BY <1>2, <2>1 DEF Flattens
  <2>3. h[j] = h[i] \o t[j]
    BY <1>3, <2>1 DEF Flattens
  <2>4. r[Len(s) + j] = t[j] /\ t[j] \in Seq(A)
    BY <1>1, ElementOfSeq
  <2>5. h[i] \in Seq(A)
    BY <1>3, <2>1
  <2>6. g[Len(s) + i] = FlattenSeq(s) \o h[i]
    BY <1>6, <2>1
  <2>7. (FlattenSeq(s) \o h[i]) \o t[j] = FlattenSeq(s) \o (h[i] \o t[j])
    <3>1. Associative(A)
      BY ConcatAssoc
    <3>2. \A a, b, c \in Seq(A) : (a \o b) \o c = a \o (b \o c)
      BY ONLY <3>1 DEF Associative
    <3> QED BY ONLY <1>4, <2>4, <2>5, <3>2, Zenon
  <2> QED BY <2>2, <2>3, <2>4, <2>6, <2>7
<1>7. Len(t) \in N
  <2> HIDE DEF N
  <2>1. Nat \subseteq N
    BY <1>5, <1>6, Induction
  <2> QED BY <1>1, <2>1
<1> QED BY <1>1, <1>2, <1>3, <1>7 DEF r

-----------------------------------------------------------------------------
(* Numbers, added up.                                                         *)

Sums(g, s) == g[0] = 0 /\ \A i \in 1..Len(s) : g[i] = g[i - 1] + s[i]

LEMMA TotalHas ==
  ASSUME NEW s \in Seq(Nat)
  PROVE  \E g \in [0..Len(s) -> Nat] : Sums(g, s) /\ Total(s) = g[Len(s)]
<1> DEFINE S == 0..Len(s)
           m == [i \in S |-> i]
           H == [f \in [S -> Nat] |-> [i \in S |-> IF i = 0 THEN 0 ELSE f[i - 1] + s[i]]]
           F == CHOOSE f : f = [i \in S |-> IF i = 0 THEN 0 ELSE f[i - 1] + s[i]]
<1>1. /\ Len(s) \in Nat /\ Len(s) \in S /\ 0 \in S
      /\ \A i \in S : i \in Nat /\ i < Len(s) + 1
      /\ \A i \in S : i # 0 => i - 1 \in S /\ i - 1 < i /\ s[i] \in Nat /\ i \in 1..Len(s)
      /\ \A i \in 1..Len(s) : i \in S /\ i # 0
  OBVIOUS
<1>2. Total(s) = F[Len(s)]
  BY DEF Total
<1> HIDE DEF S
<1>3. /\ \A f \in [S -> Nat] : H[f] \in [S -> Nat]
      /\ \A f \in [S -> Nat] : \A i \in S :
           H[f][i] = IF i = 0 THEN 0 ELSE f[i - 1] + s[i]
  <2>1. ASSUME NEW f \in [S -> Nat], NEW i \in S
        PROVE  (IF i = 0 THEN 0 ELSE f[i - 1] + s[i]) \in Nat
    BY ONLY <1>1, <2>1
  <2> QED BY ONLY <2>1
<1>4. H \in [[S -> Nat] -> [S -> Nat]] /\ m \in [S -> Nat] /\ \A i \in S : m[i] = i
  BY <1>1, <1>3
<1> HIDE DEF H, m
<1>5. WellDefined(S, Nat, m, H)
  <2>1. ASSUME NEW x \in S, NEW f \in [S -> Nat], NEW g \in [S -> Nat],
               \A y \in S : m[y] < m[x] => f[y] = g[y]
        PROVE  H[f][x] = H[g][x]
    <3>1. x # 0 => f[x - 1] = g[x - 1]
      BY <1>1, <1>4, <2>1
    <3> QED BY <1>3, <3>1
  <2> QED BY <1>4, <2>1 DEF WellDefined
<1>6. PICK f \in [S -> Nat] : Solves(f, S, H)
  <2>1. \A x \in S : m[x] < Len(s) + 1
    BY <1>1, <1>4
  <2>2. Len(s) + 1 \in Nat /\ 0 \in Nat
    BY <1>1
  <2> QED BY <1>5, <2>1, <2>2, RecursionExists
<1>7. f = [i \in S |-> IF i = 0 THEN 0 ELSE f[i - 1] + s[i]]
  <2>1. \A i \in S : f[i] = IF i = 0 THEN 0 ELSE f[i - 1] + s[i]
    BY <1>3, <1>6 DEF Solves
  <2>2. f = [i \in S |-> f[i]]
    OBVIOUS
  <2> QED BY <2>1, <2>2
<1>8. F = [i \in S |-> IF i = 0 THEN 0 ELSE F[i - 1] + s[i]]
  BY <1>7
<1> HIDE DEF F
<1>9. \A i \in S : F[i] = f[i]
  <2>1. ASSUME NEW i \in S, \A j \in S : m[j] < m[i] => F[j] = f[j]
        PROVE  F[i] = H[f][i]
    <3>1. i # 0 => F[i - 1] = f[i - 1]
      BY <1>1, <1>4, <2>1
    <3>2. F[i] = IF i = 0 THEN 0 ELSE F[i - 1] + s[i]
      BY <1>8
    <3> QED BY <1>3, <3>1, <3>2
  <2>2. Follows(F, f, S, m, H)
    BY <2>1 DEF Follows
  <2> QED BY <1>5, <1>6, <2>2, RecursionUnique
<1>10. Total(s) = f[Len(s)]
  BY <1>1, <1>2, <1>9
<1>11. Sums(f, s)
  <2>1. \A i \in S : f[i] = IF i = 0 THEN 0 ELSE f[i - 1] + s[i]
    BY <1>3, <1>6 DEF Solves
  <2> QED BY <1>1, <2>1 DEF Sums
<1> QED BY <1>6, <1>10, <1>11 DEF S

LEMMA TotalIs ==
  ASSUME NEW s \in Seq(Nat), NEW g, Sums(g, s)
  PROVE  Total(s) = g[Len(s)]
<1>1. PICK f \in [0..Len(s) -> Nat] : Sums(f, s) /\ Total(s) = f[Len(s)]
  BY TotalHas
<1> DEFINE N == {i \in Nat : i <= Len(s) => g[i] = f[i]}
<1>2. 0 \in N
  BY <1>1 DEF Sums
<1>3. ASSUME NEW i \in Nat, i \in N PROVE i + 1 \in N
  <2> SUFFICES ASSUME i + 1 <= Len(s) PROVE g[i + 1] = f[i + 1]
    OBVIOUS
  <2>1. i + 1 \in 1..Len(s) /\ i <= Len(s) /\ (i + 1) - 1 = i
    OBVIOUS
  <2>2. g[i] = f[i]
    BY <1>3, <2>1
  <2>3. g[i + 1] = g[i] + s[i + 1] /\ f[i + 1] = f[i] + s[i + 1]
    BY <1>1, <2>1 DEF Sums
  <2> QED BY <2>2, <2>3
<1>4. Len(s) \in N
  <2> HIDE DEF N
  <2>1. Nat \subseteq N
    BY <1>2, <1>3, Induction
  <2> QED BY <2>1
<1> QED BY <1>1, <1>4

LEMMA TotalType ==
  ASSUME NEW s \in Seq(Nat)
  PROVE  Total(s) \in Nat
<1>1. Len(s) \in 0..Len(s)
  OBVIOUS
<1> QED BY <1>1, TotalHas

LEMMA TotalOne ==
  ASSUME NEW n \in Nat
  PROVE  Total(<<n>>) = n
<1> DEFINE s == <<n>>
           g == [i \in 0..1 |-> IF i = 0 THEN 0 ELSE n]
<1>1. s \in Seq(Nat) /\ Len(s) = 1 /\ s[1] = n /\ 1..1 = {1}
  OBVIOUS
<1>2. g[0] = 0 /\ g[1] = n
  OBVIOUS
<1> HIDE DEF s, g
<1>3. Sums(g, s)
  BY <1>1, <1>2 DEF Sums
<1>4. Total(s) = n
  BY <1>1, <1>2, <1>3, TotalIs
<1> QED BY <1>4 DEF s

LEMMA TotalConcat ==
  ASSUME NEW s \in Seq(Nat), NEW t \in Seq(Nat)
  PROVE  Total(s \o t) = Total(s) + Total(t)
<1> DEFINE r == s \o t
<1>1. /\ r \in Seq(Nat) /\ Len(r) = Len(s) + Len(t) /\ Len(s) \in Nat /\ Len(t) \in Nat
      /\ \A i \in 1..Len(s) : r[i] = s[i]
      /\ \A i \in 1..Len(t) : r[Len(s) + i] = t[i]
  OBVIOUS
<1> HIDE DEF r
<1>2. PICK g \in [0..Len(r) -> Nat] : Sums(g, r) /\ Total(r) = g[Len(r)]
  BY <1>1, TotalHas
<1>3. PICK h \in [0..Len(t) -> Nat] : Sums(h, t) /\ Total(t) = h[Len(t)]
  BY TotalHas
<1>4. Total(s) = g[Len(s)] /\ Total(s) \in Nat
  <2>1. \A i \in 1..Len(s) : i \in 1..Len(r) /\ r[i] = s[i]
    BY <1>1
  <2>2. Sums(g, s)
    BY <1>2, <2>1 DEF Sums
  <2> QED BY <2>2, TotalIs, TotalType
<1> DEFINE N == {i \in Nat : i <= Len(t) => g[Len(s) + i] = Total(s) + h[i]}
<1>5. 0 \in N
  <2>1. h[0] = 0 /\ Len(s) + 0 = Len(s)
    BY <1>1, <1>3 DEF Sums
  <2> QED BY <1>4, <2>1
<1>6. ASSUME NEW i \in Nat, i \in N PROVE i + 1 \in N
  <2> SUFFICES ASSUME NEW j \in 1..Len(t), j = i + 1
               PROVE  g[Len(s) + j] = Total(s) + h[j]
    OBVIOUS
  <2>1. /\ j - 1 = i /\ i <= Len(t) /\ i \in 0..Len(t)
        /\ Len(s) + j \in 1..Len(r) /\ (Len(s) + j) - 1 = Len(s) + i
    <3>1. Len(r) = Len(s) + Len(t) /\ Len(s) \in Nat /\ Len(t) \in Nat
      BY <1>1
    <3>2. i \in Nat /\ j \in 1..Len(t) /\ j = i + 1
      OBVIOUS
    <3> QED BY ONLY <3>1, <3>2
  <2>2. g[Len(s) + j] = g[Len(s) + i] + r[Len(s) + j]
    BY <1>2, <2>1 DEF Sums
  <2>3. h[j] = h[i] + t[j]
    BY <1>3, <2>1 DEF Sums
  <2>4. r[Len(s) + j] = t[j] /\ t[j] \in Nat
    BY <1>1
  <2>5. h[i] \in Nat
    BY <1>3, <2>1
  <2>6. g[Len(s) + i] = Total(s) + h[i]
    BY <1>6, <2>1
  <2>7. Total(s) \in Nat
    BY <1>4
  <2> QED BY ONLY <2>2, <2>3, <2>4, <2>5, <2>6, <2>7
<1>7. Len(t) \in N
  <2> HIDE DEF N
  <2>1. Nat \subseteq N
    BY <1>5, <1>6, Induction
  <2> QED BY <1>1, <2>1
<1> QED BY <1>1, <1>2, <1>3, <1>7 DEF r

-----------------------------------------------------------------------------
(* The states of a search: their types, and a measure that drops from a state *)
(* to each of its branches.                                                   *)

Left(pb, st) == (pb.slots - st.slot_no) * (pb.tracks + 1) + (pb.tracks - st.track_no)

LEMMA Product ==
  ASSUME NEW a \in Nat, NEW b \in Nat
  PROVE  a * b \in Nat
OBVIOUS

LEMMA SlotsLeft ==
  ASSUME NEW a \in Nat, NEW n \in Nat, a > 0
  PROVE  (a - 1) * (n + 1) + n < a * (n + 1)
OBVIOUS

LEMMA SlotsBound ==
  ASSUME NEW a \in Nat, NEW b \in Nat, a <= b, NEW n \in Nat
  PROVE  a * (n + 1) <= b * (n + 1)
<1>1. (b - a) * (n + 1) \in Nat
  <2>1. b - a \in Nat /\ n + 1 \in Nat
    OBVIOUS
  <2> QED BY <2>1, Product
<1>2. b * (n + 1) = a * (n + 1) + (b - a) * (n + 1)
  OBVIOUS
<1>3. a * (n + 1) \in Nat /\ b * (n + 1) \in Nat
  <2>1. n + 1 \in Nat
    OBVIOUS
  <2> QED BY <2>1, Product
<1> QED BY <1>1, <1>2, <1>3

(* What Left needs of a state.                                                *)
Counted(pb, st) == st.slot_no \in 0..pb.slots /\ st.track_no \in 0..pb.tracks

LEMMA LeftType ==
  ASSUME NEW pb, Conference(pb), NEW st, Counted(pb, st)
  PROVE  Left(pb, st) \in Nat /\ Left(pb, st) < (pb.slots + 1) * (pb.tracks + 1)
<1> DEFINE s == pb.slots
           n == pb.tracks
           a == pb.slots - st.slot_no
           k == pb.tracks - st.track_no
<1>1. s \in Nat /\ n \in Nat /\ a \in Nat /\ k \in Nat /\ a <= s /\ k <= n /\ n + 1 \in Nat
  BY DEF Conference, Counted
<1>2. Left(pb, st) = a * (n + 1) + k
  BY DEF Left
<1> HIDE DEF s, n, a, k
<1>3. a * (n + 1) \in Nat /\ a * (n + 1) <= s * (n + 1) /\ s * (n + 1) \in Nat
  BY <1>1, Product, SlotsBound
<1>4. (s + 1) * (n + 1) = s * (n + 1) + (n + 1)
  BY <1>1
<1> QED BY <1>1, <1>2, <1>3, <1>4 DEF s, n

(* From a state to the next slot, and to the next track.                      *)
LEMMA LeftDrops ==
  ASSUME NEW pb, Conference(pb), NEW st, Counted(pb, st), NEW next, Counted(pb, next),
         \/ st.track_no = pb.tracks /\ next.slot_no = st.slot_no + 1 /\ next.track_no = 0
         \/ next.slot_no = st.slot_no /\ next.track_no = st.track_no + 1
  PROVE  Left(pb, next) < Left(pb, st)
<1> DEFINE n == pb.tracks
           a == pb.slots - st.slot_no
           k == pb.tracks - st.track_no
           b == pb.slots - next.slot_no
           l == pb.tracks - next.track_no
<1>1. n \in Nat /\ a \in Nat /\ k \in Nat /\ b \in Nat /\ l \in Nat /\ n + 1 \in Nat
  <2>1. pb.slots \in Nat /\ pb.tracks \in Nat
    BY DEF Conference
  <2>2. st.slot_no \in 0..pb.slots /\ st.track_no \in 0..pb.tracks
    BY DEF Counted
  <2>3. next.slot_no \in 0..pb.slots /\ next.track_no \in 0..pb.tracks
    BY DEF Counted
  <2> QED BY ONLY <2>1, <2>2, <2>3
<1>2. Left(pb, st) = a * (n + 1) + k /\ Left(pb, next) = b * (n + 1) + l
  BY DEF Left
<1>3. (k = 0 /\ b = a - 1 /\ l = n) \/ (b = a /\ l = k - 1)
  <2>1. pb.slots \in Nat /\ pb.tracks \in Nat
    BY DEF Conference
  <2>2. st.slot_no \in 0..pb.slots /\ st.track_no \in 0..pb.tracks
    BY DEF Counted
  <2>3. \/ st.track_no = pb.tracks /\ next.slot_no = st.slot_no + 1 /\ next.track_no = 0
        \/ next.slot_no = st.slot_no /\ next.track_no = st.track_no + 1
    OBVIOUS
  <2> QED BY ONLY <2>1, <2>2, <2>3
<1> HIDE DEF n, a, k, b, l
<1>4. a * (n + 1) \in Nat /\ b * (n + 1) \in Nat
  BY <1>1, Product
<1>5. CASE k = 0 /\ b = a - 1 /\ l = n
  <2>1. (a - 1) * (n + 1) + n < a * (n + 1)
    BY <1>1, <1>5, SlotsLeft
  <2> QED BY <1>1, <1>2, <1>4, <1>5, <2>1
<1>6. CASE b = a /\ l = k - 1
  BY <1>1, <1>2, <1>4, <1>6
<1> QED BY <1>3, <1>5, <1>6

-----------------------------------------------------------------------------
(* The filters of the code keep the type of a sequence.                       *)

Kept(talks, T) == [i \in DOMAIN talks |-> IF talks[i] \in T THEN <<>> ELSE <<talks[i]>>]

LEMMA KeptType ==
  ASSUME NEW A, NEW s \in Seq(A), NEW T
  PROVE  Kept(s, T) \in Seq(Seq(A))
<1>1. \A i \in 1..Len(s) : s[i] \in A
  OBVIOUS
<1>2. \A a \in A : <<a>> \in Seq(A)
  OBVIOUS
<1>3. <<>> \in Seq(A)
  OBVIOUS
<1> DEFINE V == Seq(A)
<1> HIDE DEF V
<1>4. \A i \in 1..Len(s) : (IF s[i] \in T THEN <<>> ELSE <<s[i]>>) \in V
  BY <1>1, <1>2, <1>3 DEF V
<1>5. [i \in 1..Len(s) |-> IF s[i] \in T THEN <<>> ELSE <<s[i]>>] \in Seq(V)
  <2>1. Len(s) \in Nat
    OBVIOUS
  <2> QED BY <1>4, <2>1
<1>6. DOMAIN s = 1..Len(s)
  OBVIOUS
<1> QED BY <1>5, <1>6 DEF Kept, V

LEMMA WithoutType ==
  ASSUME NEW A, NEW s \in Seq(A), NEW T
  PROVE  Without(s, T) \in Seq(A)
<1>1. Kept(s, T) \in Seq(Seq(A))
  BY KeptType
<1>2. Without(s, T) = FlattenSeq(Kept(s, T))
  BY DEF Without, Kept
<1> QED BY <1>1, <1>2, FlattenType

LEMMA RemovedType ==
  ASSUME NEW A, NEW s \in Seq(A), NEW i \in 1..Len(s)
  PROVE  RemoveAt(s, i) \in Seq(A)
<1>1. SubSeq(s, 1, i - 1) \in Seq(A) /\ SubSeq(s, i + 1, Len(s)) \in Seq(A)
  OBVIOUS
<1> QED BY <1>1 DEF RemoveAt

-----------------------------------------------------------------------------
(* The vector solver: a state refines to states nearer to the end.            *)

LEMMA StateCounted ==
  ASSUME NEW pb, NEW st \in State(pb)
  PROVE  Counted(pb, st)
BY DEF State, Counted

(* A child of a state that is not finished.                                   *)
IsBranch(pb, st, next) ==
  next \in State(pb) /\ Left(pb, next) < Left(pb, st)

LEMMA CommittedIsBranch ==
  ASSUME NEW pb, Conference(pb), NEW st \in State(pb), ~ Finished(pb, st),
         st.track_no = pb.tracks
  PROVE  IsBranch(pb, st, Committed(st))
<1> DEFINE V == Seq(Range(pb.talks))
           next == Committed(st)
<1>1. /\ pb.slots \in Nat /\ pb.tracks \in Nat
      /\ st.slot_no \in 0..pb.slots /\ st.slot_no # pb.slots
      /\ st.slots \in Seq(V) /\ st.current_slot \in V /\ st.remaining_talks \in V
  BY DEF Conference, State, Finished
<1>2. <<>> \in V
  OBVIOUS
<1> HIDE DEF V
<1>3. Append(st.slots, st.current_slot) \in Seq(V)
  BY <1>1
<1>4. next \in State(pb) /\ next.slot_no = st.slot_no + 1 /\ next.track_no = 0
  <2>1. st.slot_no + 1 \in 0..pb.slots /\ 0 \in 0..pb.tracks
    BY <1>1
  <2> QED BY <1>1, <1>2, <1>3, <2>1 DEF Committed, State, V
<1>5. Left(pb, next) < Left(pb, st)
  BY <1>4, StateCounted, LeftDrops
<1> QED BY <1>4, <1>5 DEF IsBranch

LEMMA SelectedIsBranch ==
  ASSUME NEW pb, Conference(pb), NEW st \in State(pb), ~ Finished(pb, st),
         st.track_no # pb.tracks, NEW i \in DOMAIN st.slot_candidates
  PROVE  IsBranch(pb, st, Selected(pb, st, i))
<1> DEFINE T == Range(pb.talks)
           V == Seq(T)
           next == Selected(pb, st, i)
           talk == st.slot_candidates[i]
           candidates == Without(RemoveAt(st.slot_candidates, i), Clashes(pb, talk))
           remaining == Without(st.remaining_talks, {talk})
<1>1. /\ pb.slots \in Nat /\ pb.tracks \in Nat
      /\ st.slot_no \in 0..pb.slots /\ st.track_no \in 0..pb.tracks
      /\ st.slots \in Seq(V) /\ st.current_slot \in V /\ st.slot_candidates \in V
      /\ st.remaining_talks \in V
      /\ st = [slot_no |-> st.slot_no, track_no |-> st.track_no, slots |-> st.slots,
               current_slot |-> st.current_slot, slot_candidates |-> st.slot_candidates,
               remaining_talks |-> st.remaining_talks]
  BY DEF Conference, State
<1>2. talk \in T /\ Append(st.current_slot, talk) \in V
  BY <1>1
<1>3. candidates \in V /\ remaining \in V
  <2>1. i \in 1..Len(st.slot_candidates)
    BY <1>1
  <2> QED BY <1>1, <2>1, RemovedType, WithoutType
<1>4. next = [slot_no |-> st.slot_no, track_no |-> st.track_no + 1, slots |-> st.slots,
              current_slot |-> Append(st.current_slot, talk), slot_candidates |-> candidates,
              remaining_talks |-> remaining]
  <2> HIDE DEF candidates, remaining
  <2>1. next = [st EXCEPT !.track_no = @ + 1, !.current_slot = Append(@, talk),
                          !.slot_candidates = candidates, !.remaining_talks = remaining]
    BY DEF Selected, candidates, remaining
  <2> HIDE DEF next, V, talk
  <2> QED BY ONLY <1>1, <2>1
<1>5. next \in State(pb) /\ next.slot_no = st.slot_no /\ next.track_no = st.track_no + 1
  <2> HIDE DEF candidates, remaining, V, talk, next
  <2>1. st.track_no + 1 \in 0..pb.tracks
    BY <1>1
  <2>2. [slot_no |-> st.slot_no, track_no |-> st.track_no + 1, slots |-> st.slots,
              current_slot |-> Append(st.current_slot, talk), slot_candidates |-> candidates,
              remaining_talks |-> remaining]
          \in [slot_no : 0..pb.slots, track_no : 0..pb.tracks, slots : Seq(V),
               current_slot : V, slot_candidates : V, remaining_talks : V]
    BY ONLY <1>1, <1>2, <1>3, <2>1
  <2> QED BY <1>4, <2>2 DEF State, V
<1>6. Left(pb, next) < Left(pb, st)
  BY <1>5, StateCounted, LeftDrops
<1> QED BY <1>5, <1>6 DEF IsBranch

LEMMA RefineBranches ==
  ASSUME NEW pb, Conference(pb), NEW st \in State(pb), ~ Finished(pb, st)
  PROVE  /\ DOMAIN Refine(pb, st) = 1..Len(Refine(pb, st))
         /\ Refine(pb, st) \in Seq(State(pb))
         /\ \A i \in DOMAIN Refine(pb, st) : IsBranch(pb, st, Refine(pb, st)[i])
<1>1. CASE st.track_no = pb.tracks
  <2>1. IsBranch(pb, st, Committed(st)) /\ Committed(st) \in State(pb)
    BY <1>1, CommittedIsBranch DEF IsBranch
  <2> DEFINE next == Committed(st)
  <2> HIDE DEF next
  <2>2. Refine(pb, st) = <<next>>
    BY <1>1 DEF Refine, next
  <2> QED BY <2>1, <2>2 DEF next
<1>2. CASE st.track_no # pb.tracks
  <2> DEFINE f == [i \in DOMAIN st.slot_candidates |-> Selected(pb, st, i)]
  <2>1. Refine(pb, st) = f
    BY <1>2 DEF Refine
  <2>2. \A i \in DOMAIN st.slot_candidates :
          IsBranch(pb, st, f[i]) /\ f[i] \in State(pb)
    BY <1>2, SelectedIsBranch DEF IsBranch
  <2>3. /\ DOMAIN st.slot_candidates = 1..Len(st.slot_candidates)
        /\ Len(st.slot_candidates) \in Nat
    <3>1. st.slot_candidates \in Seq(Range(pb.talks))
      BY DEF State
    <3> QED BY <3>1
  <2>4. DOMAIN f = 1..Len(st.slot_candidates)
    BY <2>3
  <2> HIDE DEF f
  <2>5. f \in Seq(State(pb)) /\ Len(f) = Len(st.slot_candidates)
    <3>1. \A i \in 1..Len(st.slot_candidates) : f[i] \in State(pb)
      BY <2>2, <2>3
    <3>2. f = [i \in 1..Len(st.slot_candidates) |-> f[i]]
      BY <2>3 DEF f
    <3> QED BY <2>3, <3>1, <3>2, IsASeq
  <2> QED BY <2>1, <2>2, <2>3, <2>4, <2>5
<1> QED BY <1>1, <1>2

-----------------------------------------------------------------------------
(* A search of the tree whose nodes are S: what it finds at a node of fin is  *)
(* leaf's value, elsewhere what G makes of what it finds at the node's kids.  *)

Step(S, V, fin, leaf, kids, G) ==
  [f \in [S -> V] |-> [x \in S |->
     IF x \in fin THEN leaf[x] ELSE G[[i \in 1..Len(kids[x]) |-> f[kids[x][i]]]]]]

IsTree(S, V, m, fin, leaf, kids, G) ==
  /\ m \in [S -> Nat] /\ leaf \in [S -> V] /\ kids \in [S -> Seq(S)] /\ G \in [Seq(V) -> V]
  /\ \A x \in S : x \notin fin => \A i \in 1..Len(kids[x]) : m[kids[x][i]] < m[x]

Unique(f, S, m, H) == \A g : Follows(g, f, S, m, H) => \A x \in S : g[x] = f[x]

LEMMA Mapped ==
  ASSUME NEW S, NEW V, NEW f \in [S -> V], NEW k \in Seq(S)
  PROVE  /\ [i \in 1..Len(k) |-> f[k[i]]] \in Seq(V)
         /\ Len([i \in 1..Len(k) |-> f[k[i]]]) = Len(k)
<1>1. Len(k) \in Nat /\ \A i \in 1..Len(k) : f[k[i]] \in V
  OBVIOUS
<1> QED BY <1>1

LEMMA TreeStep ==
  ASSUME NEW S, NEW V, NEW m, NEW fin, NEW leaf, NEW kids, NEW G,
         IsTree(S, V, m, fin, leaf, kids, G)
  PROVE  WellDefined(S, V, m, Step(S, V, fin, leaf, kids, G))
<1> DEFINE H == Step(S, V, fin, leaf, kids, G)
           At(f, x) == IF x \in fin THEN leaf[x]
                       ELSE G[[i \in 1..Len(kids[x]) |-> f[kids[x][i]]]]
<1>1. /\ m \in [S -> Nat] /\ leaf \in [S -> V] /\ kids \in [S -> Seq(S)]
      /\ G \in [Seq(V) -> V]
      /\ \A x \in S : x \notin fin => \A i \in 1..Len(kids[x]) : m[kids[x][i]] < m[x]
  BY DEF IsTree
<1>2. H = [f \in [S -> V] |-> [x \in S |-> At(f, x)]]
  BY DEF Step
<1>3. ASSUME NEW f \in [S -> V], NEW x \in S PROVE At(f, x) \in V
  <2>1. [i \in 1..Len(kids[x]) |-> f[kids[x][i]]] \in Seq(V)
    BY <1>1, Mapped
  <2> QED BY <1>1, <2>1
<1>4. ASSUME NEW f \in [S -> V], NEW g \in [S -> V], NEW x \in S,
             \A y \in S : m[y] < m[x] => f[y] = g[y]
      PROVE  At(f, x) = At(g, x)
  <2>1. CASE x \in fin
    BY <2>1
  <2>2. CASE x \notin fin
    <3>1. \A i \in 1..Len(kids[x]) : kids[x][i] \in S /\ m[kids[x][i]] < m[x]
      BY <1>1, <2>2
    <3>2. \A i \in 1..Len(kids[x]) : f[kids[x][i]] = g[kids[x][i]]
      BY <1>4, <3>1
    <3>3. [i \in 1..Len(kids[x]) |-> f[kids[x][i]]] = [i \in 1..Len(kids[x]) |-> g[kids[x][i]]]
      BY <3>2
    <3> QED BY <3>3
  <2> QED BY <2>1, <2>2
<1> HIDE DEF At, H
<1>5. H \in [[S -> V] -> [S -> V]]
  BY <1>2, <1>3
<1>6. \A f \in [S -> V] : \A x \in S : H[f][x] = At(f, x)
  BY <1>2
<1>7. ASSUME NEW x \in S, NEW f \in [S -> V], NEW g \in [S -> V],
             \A y \in S : m[y] < m[x] => f[y] = g[y]
      PROVE  H[f][x] = H[g][x]
  BY <1>4, <1>6, <1>7
<1>8. WellDefined(S, V, m, H)
  BY <1>1, <1>5, <1>7 DEF WellDefined
<1> QED BY <1>8 DEF H

LEMMA TreeSearch ==
  ASSUME NEW S, NEW V, NEW v \in V, NEW m, NEW fin, NEW leaf, NEW kids, NEW G,
         IsTree(S, V, m, fin, leaf, kids, G),
         NEW bound \in Nat, \A x \in S : m[x] < bound
  PROVE  \E f \in [S -> V] : Solves(f, S, Step(S, V, fin, leaf, kids, G))
                             /\ Unique(f, S, m, Step(S, V, fin, leaf, kids, G))
<1> DEFINE H == Step(S, V, fin, leaf, kids, G)
<1>1. WellDefined(S, V, m, H)
  BY TreeStep
<1> HIDE DEF H
<1>2. PICK f \in [S -> V] : Solves(f, S, H)
  BY <1>1, RecursionExists
<1>3. ASSUME NEW g, Follows(g, f, S, m, H) PROVE \A x \in S : g[x] = f[x]
  BY <1>1, <1>2, <1>3, RecursionUnique
<1>4. Unique(f, S, m, H)
  BY <1>3 DEF Unique
<1> QED BY <1>2, <1>4 DEF H

(* The sequential search of the vector solver finds, at a state that is not   *)
(* finished, what it finds at its branches, in their order.                   *)
Timetables(pb) == Seq(Seq(Range(pb.talks)))

LEMMA SeqSearchUnfolds ==
  ASSUME NEW pb, Conference(pb)
  PROVE  \A st \in State(pb) :
           /\ SeqSearch(pb, st) \in Seq(Timetables(pb))
           /\ Finished(pb, st) => SeqSearch(pb, st) = <<st.slots>>
           /\ ~ Finished(pb, st) =>
                SeqSearch(pb, st) = FlattenSeq([i \in DOMAIN Refine(pb, st) |->
                                                  SeqSearch(pb, Refine(pb, st)[i])])
<1> DEFINE S == State(pb)
           W == Timetables(pb)
           V == Seq(W)
           m == [x \in S |-> Left(pb, x)]
           fin == {x \in S : Finished(pb, x)}
           leaf == [x \in S |-> <<x.slots>>]
           kids == [x \in S |-> IF x \in fin THEN <<>> ELSE Refine(pb, x)]
           G == [z \in Seq(V) |-> FlattenSeq(z)]
           H == Step(S, V, fin, leaf, kids, G)
           Found(f, x) == IF Finished(pb, x) THEN <<x.slots>>
                          ELSE FlattenSeq([i \in DOMAIN Refine(pb, x) |-> f[Refine(pb, x)[i]]])
           F == CHOOSE f : f = [x \in S |-> Found(f, x)]
           bound == (pb.slots + 1) * (pb.tracks + 1)
<1>1. \A x \in S : SeqSearch(pb, x) = F[x]
  BY DEF SeqSearch
<1> HIDE DEF F
<1>2. \A x \in S : m[x] \in Nat /\ m[x] < bound
  BY StateCounted, LeftType
<1>3. bound \in Nat
  <2>1. pb.slots + 1 \in Nat /\ pb.tracks + 1 \in Nat
    BY DEF Conference
  <2> QED BY <2>1, Product
<1> HIDE DEF bound
<1>4. \A x \in S : x.slots \in W /\ <<x.slots>> \in V
  <2>1. \A x \in S : x.slots \in W
    BY DEF State, Timetables
  <2> HIDE DEF W, S
  <2> QED BY <2>1
<1>5. \A x \in S : x \notin fin =>
        /\ kids[x] = Refine(pb, x) /\ ~ Finished(pb, x)
        /\ DOMAIN Refine(pb, x) = 1..Len(kids[x])
        /\ kids[x] \in Seq(S)
        /\ \A i \in 1..Len(kids[x]) : kids[x][i] \in S /\ m[kids[x][i]] < m[x]
  BY RefineBranches DEF IsBranch
<1>6. kids \in [S -> Seq(S)] /\ leaf \in [S -> V] /\ m \in [S -> Nat]
  <2>1. \A x \in S : kids[x] \in Seq(S)
    BY <1>5
  <2> QED BY <1>2, <1>4, <2>1
<1> HIDE DEF W
<1>7. G \in [Seq(V) -> V] /\ \A z \in Seq(V) : G[z] = FlattenSeq(z)
  BY FlattenType
<1>8. <<>> \in V
  OBVIOUS
<1>9. \A x \in S : x \in fin <=> Finished(pb, x)
  OBVIOUS
<1>10. \A x \in S : leaf[x] = <<x.slots>>
  OBVIOUS
<1> HIDE DEF kids, leaf, m, G, S, V, fin
<1>11. IsTree(S, V, m, fin, leaf, kids, G)
  BY <1>5, <1>6, <1>7 DEF IsTree
<1>12. PICK f \in [S -> V] : Solves(f, S, H) /\ Unique(f, S, m, H)
  BY <1>2, <1>3, <1>8, <1>11, TreeSearch
<1>13. ASSUME NEW x \in S PROVE H[f][x] = Found(f, x)
  <2>1. H[f][x] = IF x \in fin THEN leaf[x] ELSE G[[i \in 1..Len(kids[x]) |-> f[kids[x][i]]]]
    BY DEF Step
  <2>2. CASE x \in fin
    BY <1>9, <1>10, <2>1, <2>2
  <2>3. CASE x \notin fin
    <3>1. [i \in 1..Len(kids[x]) |-> f[kids[x][i]]] \in Seq(V)
      BY <1>5, <2>3, Mapped
    <3>2. H[f][x] = FlattenSeq([i \in 1..Len(kids[x]) |-> f[kids[x][i]]])
      BY <1>7, <2>1, <2>3, <3>1
    <3> QED BY <1>5, <2>3, <3>2
  <2> QED BY <2>2, <2>3
<1> HIDE DEF H, Found
<1>14. f = [x \in S |-> Found(f, x)]
  <2>1. \A x \in S : f[x] = Found(f, x)
    BY <1>12, <1>13 DEF Solves
  <2>2. f = [x \in S |-> f[x]]
    OBVIOUS
  <2> QED BY <2>1, <2>2
<1>15. F = [x \in S |-> Found(F, x)]
  BY <1>14 DEF F
<1>16. Follows(F, f, S, m, H)
  <2>1. ASSUME NEW x \in S, \A y \in S : m[y] < m[x] => F[y] = f[y]
        PROVE  F[x] = H[f][x]
    <3>1. F[x] = Found(F, x)
      BY <1>15
    <3>2. CASE x \in fin
      BY <1>9, <1>13, <3>1, <3>2 DEF Found
    <3>3. CASE x \notin fin
      <4>1. \A i \in DOMAIN Refine(pb, x) : F[Refine(pb, x)[i]] = f[Refine(pb, x)[i]]
        BY <1>5, <2>1, <3>3
      <4>2. [i \in DOMAIN Refine(pb, x) |-> F[Refine(pb, x)[i]]]
              = [i \in DOMAIN Refine(pb, x) |-> f[Refine(pb, x)[i]]]
        BY <4>1
      <4>3. Found(F, x) = Found(f, x)
        BY <4>2 DEF Found
      <4> QED BY <1>13, <3>1, <4>3
    <3> QED BY <3>2, <3>3
  <2> QED BY <2>1 DEF Follows
<1>17. \A x \in S : F[x] = f[x]
  BY <1>12, <1>16 DEF Unique
<1>18. ASSUME NEW x \in S PROVE SeqSearch(pb, x) = f[x] /\ f[x] \in V /\ f[x] = Found(f, x)
  BY <1>1, <1>14, <1>17
<1>19. ASSUME NEW x \in S, ~ Finished(pb, x)
       PROVE  f[x] = FlattenSeq([i \in DOMAIN Refine(pb, x) |-> SeqSearch(pb, Refine(pb, x)[i])])
  <2>1. \A i \in DOMAIN Refine(pb, x) : f[Refine(pb, x)[i]] = SeqSearch(pb, Refine(pb, x)[i])
    BY <1>5, <1>9, <1>18, <1>19
  <2>2. [i \in DOMAIN Refine(pb, x) |-> f[Refine(pb, x)[i]]]
          = [i \in DOMAIN Refine(pb, x) |-> SeqSearch(pb, Refine(pb, x)[i])]
    BY <2>1
  <2> QED BY <1>18, <1>19, <2>2 DEF Found
<1>20. ASSUME NEW x \in S, Finished(pb, x) PROVE f[x] = <<x.slots>>
  BY <1>18, <1>20 DEF Found
<1> QED BY <1>18, <1>19, <1>20 DEF S, V, W

-----------------------------------------------------------------------------
(* The bitmask solver: the same, for masks.                                   *)

LEMMA MaskTypes ==
  ASSUME NEW pb
  PROVE  AllTalksMask(pb) \in SUBSET Bits /\ \A mask : Ascending(mask) \in Seq(Bits)
<1>1. AllTalksMask(pb) \in SUBSET Bits
  <2>1. \A v : Mask(v) \in SUBSET Bits
    BY DEF Mask
  <2> QED BY <2>1 DEF AllTalksMask
<1>2. [i \in 1..Width |-> i - 1] \in Seq(Bits)
  BY WidthAssumption DEF Bits
<1>3. ASSUME NEW mask PROVE Ascending(mask) \in Seq(Bits)
  BY <1>2, WithoutType DEF Ascending
<1> QED BY <1>1, <1>3

LEMMA BitStateCounted ==
  ASSUME NEW pb, NEW st \in BitState(pb)
  PROVE  Counted(pb, st)
BY DEF BitState, Counted

IsBitBranch(pb, st, next) ==
  next \in BitState(pb) /\ Left(pb, next) < Left(pb, st)

LEMMA BitCommittedIsBranch ==
  ASSUME NEW pb, Conference(pb), NEW st \in BitState(pb), ~ Finished(pb, st),
         st.track_no = pb.tracks
  PROVE  IsBitBranch(pb, st, Committed(st))
<1> DEFINE V == Seq(Bits)
           M == SUBSET Bits
           next == Committed(st)
<1>1. /\ pb.slots \in Nat /\ pb.tracks \in Nat
      /\ st.slot_no \in 0..pb.slots /\ st.slot_no # pb.slots
      /\ st.slots \in Seq(V) /\ st.current_slot \in V /\ st.remaining_talks \in M
  BY DEF Conference, BitState, Finished
<1>2. <<>> \in V
  OBVIOUS
<1> HIDE DEF V, M
<1>3. Append(st.slots, st.current_slot) \in Seq(V)
  BY <1>1
<1>4. next \in BitState(pb) /\ next.slot_no = st.slot_no + 1 /\ next.track_no = 0
  <2>1. st.slot_no + 1 \in 0..pb.slots /\ 0 \in 0..pb.tracks
    BY <1>1
  <2> QED BY <1>1, <1>2, <1>3, <2>1 DEF Committed, BitState, V, M
<1>5. Left(pb, next) < Left(pb, st)
  BY <1>4, BitStateCounted, LeftDrops
<1> QED BY <1>4, <1>5 DEF IsBitBranch

LEMMA BitSelectedIsBranch ==
  ASSUME NEW pb, Conference(pb), NEW st \in BitState(pb), ~ Finished(pb, st),
         st.track_no # pb.tracks, NEW idx \in Bits
  PROVE  IsBitBranch(pb, st, BitSelected(pb, st, idx))
<1> DEFINE V == Seq(Bits)
           M == SUBSET Bits
           next == BitSelected(pb, st, idx)
           candidates == (st.slot_candidates \ {idx}) \ ClashMask(pb, idx)
           remaining == st.remaining_talks \ {idx}
<1>1. /\ pb.slots \in Nat /\ pb.tracks \in Nat
      /\ st.slot_no \in 0..pb.slots /\ st.track_no \in 0..pb.tracks
      /\ st.slots \in Seq(V) /\ st.current_slot \in V /\ st.slot_candidates \in M
      /\ st.remaining_talks \in M
      /\ st = [slot_no |-> st.slot_no, track_no |-> st.track_no, slots |-> st.slots,
               current_slot |-> st.current_slot, slot_candidates |-> st.slot_candidates,
               remaining_talks |-> st.remaining_talks]
  BY DEF Conference, BitState
<1>2. Append(st.current_slot, idx) \in V
  BY <1>1
<1>3. candidates \in M /\ remaining \in M
  BY <1>1
<1> HIDE DEF candidates, remaining
<1>4. next = [slot_no |-> st.slot_no, track_no |-> st.track_no + 1, slots |-> st.slots,
              current_slot |-> Append(st.current_slot, idx), slot_candidates |-> candidates,
              remaining_talks |-> remaining]
  <2>1. next = [st EXCEPT !.track_no = @ + 1, !.current_slot = Append(@, idx),
                          !.slot_candidates = candidates, !.remaining_talks = remaining]
    BY DEF BitSelected, candidates, remaining
  <2> HIDE DEF next, V, M
  <2> QED BY ONLY <1>1, <2>1
<1>5. next \in BitState(pb) /\ next.slot_no = st.slot_no /\ next.track_no = st.track_no + 1
  <2> HIDE DEF V, M, next
  <2>1. st.track_no + 1 \in 0..pb.tracks
    BY <1>1
  <2>2. [slot_no |-> st.slot_no, track_no |-> st.track_no + 1, slots |-> st.slots,
              current_slot |-> Append(st.current_slot, idx), slot_candidates |-> candidates,
              remaining_talks |-> remaining]
          \in [slot_no : 0..pb.slots, track_no : 0..pb.tracks, slots : Seq(V),
               current_slot : V, slot_candidates : M, remaining_talks : M]
    BY ONLY <1>1, <1>2, <1>3, <2>1
  <2> QED BY <1>4, <2>2 DEF BitState, V, M
<1>6. Left(pb, next) < Left(pb, st)
  BY <1>5, BitStateCounted, LeftDrops
<1> QED BY <1>5, <1>6 DEF IsBitBranch

LEMMA ExpandedBranches ==
  ASSUME NEW pb, Conference(pb), NEW st \in BitState(pb), ~ Finished(pb, st)
  PROVE  /\ DOMAIN ExpandBranches(pb, st) = 1..Len(ExpandBranches(pb, st))
         /\ ExpandBranches(pb, st) \in Seq(BitState(pb))
         /\ \A i \in DOMAIN ExpandBranches(pb, st) :
              IsBitBranch(pb, st, ExpandBranches(pb, st)[i])
<1>1. CASE st.track_no = pb.tracks
  <2>1. IsBitBranch(pb, st, Committed(st)) /\ Committed(st) \in BitState(pb)
    BY <1>1, BitCommittedIsBranch DEF IsBitBranch
  <2> DEFINE next == Committed(st)
  <2> HIDE DEF next
  <2>2. ExpandBranches(pb, st) = <<next>>
    BY <1>1 DEF ExpandBranches, next
  <2> QED BY <2>1, <2>2 DEF next
<1>2. CASE st.track_no # pb.tracks
  <2> DEFINE candidates == Ascending(st.slot_candidates)
             f == [i \in DOMAIN candidates |-> BitSelected(pb, st, candidates[i])]
  <2>1. ExpandBranches(pb, st) = f
    BY <1>2 DEF ExpandBranches
  <2> HIDE DEF candidates
  <2>2. /\ DOMAIN candidates = 1..Len(candidates) /\ Len(candidates) \in Nat
        /\ \A i \in 1..Len(candidates) : candidates[i] \in Bits
    <3>1. candidates \in Seq(Bits)
      BY MaskTypes DEF candidates
    <3> QED BY <3>1
  <2>3. \A i \in DOMAIN candidates : IsBitBranch(pb, st, f[i]) /\ f[i] \in BitState(pb)
    BY <1>2, <2>2, BitSelectedIsBranch DEF IsBitBranch
  <2>4. DOMAIN f = 1..Len(candidates)
    BY <2>2
  <2> HIDE DEF f
  <2>5. f \in Seq(BitState(pb)) /\ Len(f) = Len(candidates)
    <3>1. \A i \in 1..Len(candidates) : f[i] \in BitState(pb)
      BY <2>2, <2>3
    <3>2. f = [i \in 1..Len(candidates) |-> f[i]]
      BY <2>2 DEF f
    <3> QED BY <2>2, <3>1, <3>2, IsASeq
  <2> QED BY <2>1, <2>2, <2>3, <2>4, <2>5
<1> QED BY <1>1, <1>2

(* The counter's branches, which carry no slots.                              *)
LEMMA UnchartedType ==
  ASSUME NEW pb, NEW st \in BitState(pb)
  PROVE  Uncharted(st) \in BitState(pb) /\ Left(pb, Uncharted(st)) = Left(pb, st)
<1> DEFINE V == Seq(Bits)
           M == SUBSET Bits
<1>1. <<>> \in V
  OBVIOUS
<1> HIDE DEF V, M
<1>2. BitState(pb) = [slot_no : 0..pb.slots, track_no : 0..pb.tracks, slots : Seq(V),
                      current_slot : V, slot_candidates : M, remaining_talks : M]
  BY DEF BitState, V, M
<1>3. st = [slot_no |-> st.slot_no, track_no |-> st.track_no, slots |-> st.slots,
            current_slot |-> st.current_slot, slot_candidates |-> st.slot_candidates,
            remaining_talks |-> st.remaining_talks]
  BY <1>2
<1>4. Uncharted(st) = [slot_no |-> st.slot_no, track_no |-> st.track_no, slots |-> <<>>,
                       current_slot |-> <<>>, slot_candidates |-> st.slot_candidates,
                       remaining_talks |-> st.remaining_talks]
  <2>1. Uncharted(st) = [st EXCEPT !.slots = <<>>, !.current_slot = <<>>]
    BY DEF Uncharted
  <2> QED BY ONLY <1>3, <2>1
<1>5. <<>> \in Seq(V)
  OBVIOUS
<1>6. Uncharted(st) \in BitState(pb)
  BY <1>1, <1>2, <1>4, <1>5
<1> QED BY <1>4, <1>6 DEF Left

(* Its sequential search, likewise.                                           *)
BitTimetables(pb) == {ToTimetable(pb, st) : st \in BitState(pb)}

LEMMA BitSearchUnfolds ==
  ASSUME NEW pb, Conference(pb)
  PROVE  \A st \in BitState(pb) :
           /\ BitSearch(pb, st) \in Seq(BitTimetables(pb))
           /\ Finished(pb, st) => BitSearch(pb, st) = <<ToTimetable(pb, st)>>
           /\ ~ Finished(pb, st) =>
                BitSearch(pb, st) = FlattenSeq([i \in DOMAIN ExpandBranches(pb, st) |->
                                                  BitSearch(pb, ExpandBranches(pb, st)[i])])
<1> DEFINE S == BitState(pb)
           W == BitTimetables(pb)
           V == Seq(W)
           m == [x \in S |-> Left(pb, x)]
           fin == {x \in S : Finished(pb, x)}
           leaf == [x \in S |-> <<ToTimetable(pb, x)>>]
           kids == [x \in S |-> IF x \in fin THEN <<>> ELSE ExpandBranches(pb, x)]
           G == [z \in Seq(V) |-> FlattenSeq(z)]
           H == Step(S, V, fin, leaf, kids, G)
           Found(f, x) == IF Finished(pb, x) THEN <<ToTimetable(pb, x)>>
                          ELSE FlattenSeq([i \in DOMAIN ExpandBranches(pb, x) |->
                                             f[ExpandBranches(pb, x)[i]]])
           F == CHOOSE f : f = [x \in S |-> Found(f, x)]
           bound == (pb.slots + 1) * (pb.tracks + 1)
<1>1. \A x \in S : BitSearch(pb, x) = F[x]
  BY DEF BitSearch
<1> HIDE DEF F
<1>2. \A x \in S : m[x] \in Nat /\ m[x] < bound
  BY BitStateCounted, LeftType
<1>3. bound \in Nat
  <2>1. pb.slots + 1 \in Nat /\ pb.tracks + 1 \in Nat
    BY DEF Conference
  <2> QED BY <2>1, Product
<1> HIDE DEF bound
<1>4. \A x \in S : ToTimetable(pb, x) \in W /\ <<ToTimetable(pb, x)>> \in V
  <2>1. \A x \in S : ToTimetable(pb, x) \in W
    BY DEF BitTimetables
  <2> HIDE DEF W, S
  <2> QED BY <2>1
<1>5. \A x \in S : x \notin fin =>
        /\ kids[x] = ExpandBranches(pb, x) /\ ~ Finished(pb, x)
        /\ DOMAIN ExpandBranches(pb, x) = 1..Len(kids[x])
        /\ kids[x] \in Seq(S)
        /\ \A i \in 1..Len(kids[x]) : kids[x][i] \in S /\ m[kids[x][i]] < m[x]
  BY ExpandedBranches DEF IsBitBranch
<1>6. kids \in [S -> Seq(S)] /\ leaf \in [S -> V] /\ m \in [S -> Nat]
  <2>1. \A x \in S : kids[x] \in Seq(S)
    BY <1>5
  <2> QED BY <1>2, <1>4, <2>1
<1> HIDE DEF W
<1>7. G \in [Seq(V) -> V] /\ \A z \in Seq(V) : G[z] = FlattenSeq(z)
  BY FlattenType
<1>8. <<>> \in V
  OBVIOUS
<1>9. \A x \in S : x \in fin <=> Finished(pb, x)
  OBVIOUS
<1>10. \A x \in S : leaf[x] = <<ToTimetable(pb, x)>>
  OBVIOUS
<1> HIDE DEF kids, leaf, m, G, S, V, fin
<1>11. IsTree(S, V, m, fin, leaf, kids, G)
  BY <1>5, <1>6, <1>7 DEF IsTree
<1>12. PICK f \in [S -> V] : Solves(f, S, H) /\ Unique(f, S, m, H)
  BY <1>2, <1>3, <1>8, <1>11, TreeSearch
<1>13. ASSUME NEW x \in S PROVE H[f][x] = Found(f, x)
  <2>1. H[f][x] = IF x \in fin THEN leaf[x] ELSE G[[i \in 1..Len(kids[x]) |-> f[kids[x][i]]]]
    BY DEF Step
  <2>2. CASE x \in fin
    BY <1>9, <1>10, <2>1, <2>2
  <2>3. CASE x \notin fin
    <3>1. [i \in 1..Len(kids[x]) |-> f[kids[x][i]]] \in Seq(V)
      BY <1>5, <2>3, Mapped
    <3>2. H[f][x] = FlattenSeq([i \in 1..Len(kids[x]) |-> f[kids[x][i]]])
      BY <1>7, <2>1, <2>3, <3>1
    <3> QED BY <1>5, <2>3, <3>2
  <2> QED BY <2>2, <2>3
<1> HIDE DEF H, Found
<1>14. f = [x \in S |-> Found(f, x)]
  <2>1. \A x \in S : f[x] = Found(f, x)
    BY <1>12, <1>13 DEF Solves
  <2>2. f = [x \in S |-> f[x]]
    OBVIOUS
  <2> QED BY <2>1, <2>2
<1>15. F = [x \in S |-> Found(F, x)]
  BY <1>14 DEF F
<1>16. Follows(F, f, S, m, H)
  <2>1. ASSUME NEW x \in S, \A y \in S : m[y] < m[x] => F[y] = f[y]
        PROVE  F[x] = H[f][x]
    <3>1. F[x] = Found(F, x)
      BY <1>15
    <3>2. CASE x \in fin
      BY <1>9, <1>13, <3>1, <3>2 DEF Found
    <3>3. CASE x \notin fin
      <4>1. \A i \in DOMAIN ExpandBranches(pb, x) :
              F[ExpandBranches(pb, x)[i]] = f[ExpandBranches(pb, x)[i]]
        BY <1>5, <2>1, <3>3
      <4>2. [i \in DOMAIN ExpandBranches(pb, x) |-> F[ExpandBranches(pb, x)[i]]]
              = [i \in DOMAIN ExpandBranches(pb, x) |-> f[ExpandBranches(pb, x)[i]]]
        BY <4>1
      <4>3. Found(F, x) = Found(f, x)
        BY <4>2 DEF Found
      <4> QED BY <1>13, <3>1, <4>3
    <3> QED BY <3>2, <3>3
  <2> QED BY <2>1 DEF Follows
<1>17. \A x \in S : F[x] = f[x]
  BY <1>12, <1>16 DEF Unique
<1>18. ASSUME NEW x \in S PROVE BitSearch(pb, x) = f[x] /\ f[x] \in V /\ f[x] = Found(f, x)
  BY <1>1, <1>14, <1>17
<1>19. ASSUME NEW x \in S, ~ Finished(pb, x)
       PROVE  f[x] = FlattenSeq([i \in DOMAIN ExpandBranches(pb, x) |->
                                   BitSearch(pb, ExpandBranches(pb, x)[i])])
  <2>1. \A i \in DOMAIN ExpandBranches(pb, x) :
          f[ExpandBranches(pb, x)[i]] = BitSearch(pb, ExpandBranches(pb, x)[i])
    BY <1>5, <1>9, <1>18, <1>19
  <2>2. [i \in DOMAIN ExpandBranches(pb, x) |-> f[ExpandBranches(pb, x)[i]]]
          = [i \in DOMAIN ExpandBranches(pb, x) |-> BitSearch(pb, ExpandBranches(pb, x)[i])]
    BY <2>1
  <2> QED BY <1>18, <1>19, <2>2 DEF Found
<1>20. ASSUME NEW x \in S, Finished(pb, x) PROVE f[x] = <<ToTimetable(pb, x)>>
  BY <1>18, <1>20 DEF Found
<1> QED BY <1>18, <1>19, <1>20 DEF S, V, W

(* The counter adds up what it counts at the branches, without their slots.   *)
UnchartedBranches(pb, st) ==
  [i \in DOMAIN ExpandBranches(pb, st) |-> Uncharted(ExpandBranches(pb, st)[i])]

LEMMA UnchartedAreBranches ==
  ASSUME NEW pb, Conference(pb), NEW st \in BitState(pb), ~ Finished(pb, st)
  PROVE  /\ DOMAIN UnchartedBranches(pb, st) = 1..Len(UnchartedBranches(pb, st))
         /\ DOMAIN ExpandBranches(pb, st) = DOMAIN UnchartedBranches(pb, st)
         /\ UnchartedBranches(pb, st) \in Seq(BitState(pb))
         /\ \A i \in DOMAIN UnchartedBranches(pb, st) :
              /\ UnchartedBranches(pb, st)[i] = Uncharted(ExpandBranches(pb, st)[i])
              /\ IsBitBranch(pb, st, UnchartedBranches(pb, st)[i])
<1> DEFINE k == ExpandBranches(pb, st)
           f == UnchartedBranches(pb, st)
<1>1. DOMAIN k = 1..Len(k) /\ k \in Seq(BitState(pb)) /\ Len(k) \in Nat
      /\ \A i \in DOMAIN k : IsBitBranch(pb, st, k[i])
  BY ExpandedBranches
<1>2. f = [i \in DOMAIN k |-> Uncharted(k[i])]
  BY DEF UnchartedBranches
<1> HIDE DEF k, f
<1>3. ASSUME NEW i \in DOMAIN k PROVE f[i] \in BitState(pb) /\ IsBitBranch(pb, st, f[i])
  <2>1. k[i] \in BitState(pb) /\ Left(pb, k[i]) < Left(pb, st)
    BY <1>1 DEF IsBitBranch
  <2>2. f[i] = Uncharted(k[i])
    BY <1>2
  <2> QED BY <2>1, <2>2, UnchartedType DEF IsBitBranch
<1>4. \A i \in 1..Len(k) : f[i] \in BitState(pb)
  BY <1>1, <1>3
<1>5. f = [i \in 1..Len(k) |-> f[i]]
  BY <1>1, <1>2
<1>6. f \in Seq(BitState(pb)) /\ Len(f) = Len(k)
  BY <1>1, <1>4, <1>5, IsASeq
<1> QED BY <1>1, <1>2, <1>3, <1>6 DEF k, f

LEMMA CountUnfolds ==
  ASSUME NEW pb, Conference(pb)
  PROVE  \A st \in BitState(pb) :
           /\ CountSolutions(pb, st) \in Nat
           /\ Finished(pb, st) => CountSolutions(pb, st) = 1
           /\ ~ Finished(pb, st) =>
                CountSolutions(pb, st) =
                  Total([i \in DOMAIN ExpandBranches(pb, st) |->
                           CountSolutions(pb, Uncharted(ExpandBranches(pb, st)[i]))])
<1> DEFINE S == BitState(pb)
           V == Nat
           m == [x \in S |-> Left(pb, x)]
           fin == {x \in S : Finished(pb, x)}
           leaf == [x \in S |-> 1]
           kids == [x \in S |-> IF x \in fin THEN <<>> ELSE UnchartedBranches(pb, x)]
           G == [z \in Seq(V) |-> Total(z)]
           H == Step(S, V, fin, leaf, kids, G)
           Found(f, x) ==
             IF Finished(pb, x) THEN 1
             ELSE Total([i \in DOMAIN ExpandBranches(pb, x) |->
                           f[Uncharted(ExpandBranches(pb, x)[i])]])
           F == CHOOSE f : f = [x \in S |-> Found(f, x)]
           bound == (pb.slots + 1) * (pb.tracks + 1)
<1>1. \A x \in S : CountSolutions(pb, x) = F[x]
  BY DEF CountSolutions
<1> HIDE DEF F
<1>2. \A x \in S : m[x] \in Nat /\ m[x] < bound
  BY BitStateCounted, LeftType
<1>3. bound \in Nat
  <2>1. pb.slots + 1 \in Nat /\ pb.tracks + 1 \in Nat
    BY DEF Conference
  <2> QED BY <2>1, Product
<1> HIDE DEF bound
<1>5. \A x \in S : x \notin fin =>
        /\ kids[x] = UnchartedBranches(pb, x) /\ ~ Finished(pb, x)
        /\ DOMAIN ExpandBranches(pb, x) = 1..Len(kids[x])
        /\ kids[x] \in Seq(S)
        /\ \A i \in 1..Len(kids[x]) :
             /\ kids[x][i] = Uncharted(ExpandBranches(pb, x)[i])
             /\ kids[x][i] \in S /\ m[kids[x][i]] < m[x]
  BY UnchartedAreBranches DEF IsBitBranch
<1>6. kids \in [S -> Seq(S)] /\ leaf \in [S -> V] /\ m \in [S -> Nat]
  <2>1. \A x \in S : kids[x] \in Seq(S)
    BY <1>5
  <2> QED BY <1>2, <2>1
<1>7. G \in [Seq(V) -> V] /\ \A z \in Seq(V) : G[z] = Total(z)
  BY TotalType
<1>8. 0 \in V
  OBVIOUS
<1>9. \A x \in S : x \in fin <=> Finished(pb, x)
  OBVIOUS
<1>10. \A x \in S : leaf[x] = 1
  OBVIOUS
<1> HIDE DEF kids, leaf, m, G, S, V, fin
<1>11. IsTree(S, V, m, fin, leaf, kids, G)
  BY <1>5, <1>6, <1>7 DEF IsTree
<1>12. PICK f \in [S -> V] : Solves(f, S, H) /\ Unique(f, S, m, H)
  BY <1>2, <1>3, <1>8, <1>11, TreeSearch
<1>13. ASSUME NEW x \in S PROVE H[f][x] = Found(f, x)
  <2>1. H[f][x] = IF x \in fin THEN leaf[x] ELSE G[[i \in 1..Len(kids[x]) |-> f[kids[x][i]]]]
    BY DEF Step
  <2>2. CASE x \in fin
    BY <1>9, <1>10, <2>1, <2>2
  <2>3. CASE x \notin fin
    <3>1. [i \in 1..Len(kids[x]) |-> f[kids[x][i]]] \in Seq(V)
      BY <1>5, <2>3, Mapped
    <3>2. H[f][x] = Total([i \in 1..Len(kids[x]) |-> f[kids[x][i]]])
      BY <1>7, <2>1, <2>3, <3>1
    <3>3. [i \in 1..Len(kids[x]) |-> f[kids[x][i]]]
            = [i \in DOMAIN ExpandBranches(pb, x) |-> f[Uncharted(ExpandBranches(pb, x)[i])]]
      BY <1>5, <2>3
    <3> QED BY <1>5, <2>3, <3>2, <3>3
  <2> QED BY <2>2, <2>3
<1> HIDE DEF H, Found
<1>14. f = [x \in S |-> Found(f, x)]
  <2>1. \A x \in S : f[x] = Found(f, x)
    BY <1>12, <1>13 DEF Solves
  <2>2. f = [x \in S |-> f[x]]
    OBVIOUS
  <2> QED BY <2>1, <2>2
<1>15. F = [x \in S |-> Found(F, x)]
  BY <1>14 DEF F
<1>16. Follows(F, f, S, m, H)
  <2>1. ASSUME NEW x \in S, \A y \in S : m[y] < m[x] => F[y] = f[y]
        PROVE  F[x] = H[f][x]
    <3>1. F[x] = Found(F, x)
      BY <1>15
    <3>2. CASE x \in fin
      BY <1>9, <1>13, <3>1, <3>2 DEF Found
    <3>3. CASE x \notin fin
      <4>1. \A i \in DOMAIN ExpandBranches(pb, x) :
              F[Uncharted(ExpandBranches(pb, x)[i])] = f[Uncharted(ExpandBranches(pb, x)[i])]
        BY <1>5, <2>1, <3>3
      <4>2. [i \in DOMAIN ExpandBranches(pb, x) |-> F[Uncharted(ExpandBranches(pb, x)[i])]]
              = [i \in DOMAIN ExpandBranches(pb, x) |-> f[Uncharted(ExpandBranches(pb, x)[i])]]
        BY <4>1
      <4>3. Found(F, x) = Found(f, x)
        BY <4>2 DEF Found
      <4> QED BY <1>13, <3>1, <4>3
    <3> QED BY <3>2, <3>3
  <2> QED BY <2>1 DEF Follows
<1>17. \A x \in S : F[x] = f[x]
  BY <1>12, <1>16 DEF Unique
<1>18. ASSUME NEW x \in S
       PROVE  CountSolutions(pb, x) = f[x] /\ f[x] \in V /\ f[x] = Found(f, x)
  BY <1>1, <1>14, <1>17
<1>19. ASSUME NEW x \in S, ~ Finished(pb, x)
       PROVE  f[x] = Total([i \in DOMAIN ExpandBranches(pb, x) |->
                              CountSolutions(pb, Uncharted(ExpandBranches(pb, x)[i]))])
  <2>1. \A i \in DOMAIN ExpandBranches(pb, x) :
          f[Uncharted(ExpandBranches(pb, x)[i])]
            = CountSolutions(pb, Uncharted(ExpandBranches(pb, x)[i]))
    BY <1>5, <1>9, <1>18, <1>19
  <2>2. [i \in DOMAIN ExpandBranches(pb, x) |-> f[Uncharted(ExpandBranches(pb, x)[i])]]
          = [i \in DOMAIN ExpandBranches(pb, x) |->
               CountSolutions(pb, Uncharted(ExpandBranches(pb, x)[i]))]
    BY <2>1
  <2> QED BY <1>18, <1>19, <2>2 DEF Found
<1>20. ASSUME NEW x \in S, Finished(pb, x) PROVE f[x] = 1
  BY <1>18, <1>20 DEF Found
<1> QED BY <1>18, <1>19, <1>20 DEF S, V

(* What is counted below a state does not depend on the slots it carries.     *)
IsRecord(st) ==
  st = [slot_no |-> st.slot_no, track_no |-> st.track_no, slots |-> st.slots,
        current_slot |-> st.current_slot, slot_candidates |-> st.slot_candidates,
        remaining_talks |-> st.remaining_talks]

SameUncharted(a, b) ==
  /\ a.slot_no = b.slot_no /\ a.track_no = b.track_no
  /\ a.slot_candidates = b.slot_candidates /\ a.remaining_talks = b.remaining_talks

LEMMA UnchartedIs ==
  ASSUME NEW st, IsRecord(st)
  PROVE  Uncharted(st) = [slot_no |-> st.slot_no, track_no |-> st.track_no, slots |-> <<>>,
                          current_slot |-> <<>>, slot_candidates |-> st.slot_candidates,
                          remaining_talks |-> st.remaining_talks]
<1>1. Uncharted(st) = [st EXCEPT !.slots = <<>>, !.current_slot = <<>>]
  BY DEF Uncharted
<1>2. st = [slot_no |-> st.slot_no, track_no |-> st.track_no, slots |-> st.slots,
            current_slot |-> st.current_slot, slot_candidates |-> st.slot_candidates,
            remaining_talks |-> st.remaining_talks]
  BY DEF IsRecord
<1> QED BY ONLY <1>1, <1>2

LEMMA UnchartedEqual ==
  ASSUME NEW a, NEW b, IsRecord(a), IsRecord(b), SameUncharted(a, b)
  PROVE  Uncharted(a) = Uncharted(b)
<1>1. /\ Uncharted(a) = [slot_no |-> a.slot_no, track_no |-> a.track_no, slots |-> <<>>,
                         current_slot |-> <<>>, slot_candidates |-> a.slot_candidates,
                         remaining_talks |-> a.remaining_talks]
      /\ Uncharted(b) = [slot_no |-> b.slot_no, track_no |-> b.track_no, slots |-> <<>>,
                         current_slot |-> <<>>, slot_candidates |-> b.slot_candidates,
                         remaining_talks |-> b.remaining_talks]
  BY UnchartedIs
<1> QED BY <1>1 DEF SameUncharted

LEMMA BitSelectedIs ==
  ASSUME NEW pb, NEW st, IsRecord(st), NEW idx
  PROVE  BitSelected(pb, st, idx)
           = [slot_no |-> st.slot_no, track_no |-> st.track_no + 1, slots |-> st.slots,
              current_slot |-> Append(st.current_slot, idx),
              slot_candidates |-> (st.slot_candidates \ {idx}) \ ClashMask(pb, idx),
              remaining_talks |-> st.remaining_talks \ {idx}]
<1> DEFINE candidates == (st.slot_candidates \ {idx}) \ ClashMask(pb, idx)
           remaining == st.remaining_talks \ {idx}
<1>1. BitSelected(pb, st, idx) =
        [st EXCEPT !.track_no = @ + 1, !.current_slot = Append(@, idx),
                   !.slot_candidates = candidates, !.remaining_talks = remaining]
  BY DEF BitSelected
<1>2. st = [slot_no |-> st.slot_no, track_no |-> st.track_no, slots |-> st.slots,
            current_slot |-> st.current_slot, slot_candidates |-> st.slot_candidates,
            remaining_talks |-> st.remaining_talks]
  BY DEF IsRecord
<1> HIDE DEF candidates, remaining
<1>3. BitSelected(pb, st, idx) =
        [slot_no |-> st.slot_no, track_no |-> st.track_no + 1, slots |-> st.slots,
         current_slot |-> Append(st.current_slot, idx), slot_candidates |-> candidates,
         remaining_talks |-> remaining]
  BY ONLY <1>1, <1>2
<1> QED BY <1>3 DEF candidates, remaining

LEMMA UnchartedSame ==
  ASSUME NEW pb, NEW st \in BitState(pb)
  PROVE  /\ Uncharted(Committed(Uncharted(st))) = Uncharted(Committed(st))
         /\ \A idx : Uncharted(BitSelected(pb, Uncharted(st), idx))
                       = Uncharted(BitSelected(pb, st, idx))
<1> DEFINE u == Uncharted(st)
<1>1. IsRecord(st)
  BY DEF BitState, IsRecord
<1>2. IsRecord(u) /\ SameUncharted(u, st)
  BY <1>1, UnchartedIs DEF IsRecord, SameUncharted
<1> HIDE DEF u
<1>3. Uncharted(Committed(u)) = Uncharted(Committed(st))
  <2>1. IsRecord(Committed(u)) /\ IsRecord(Committed(st))
    BY DEF IsRecord, Committed
  <2>2. SameUncharted(Committed(u), Committed(st))
    BY <1>2 DEF SameUncharted, Committed
  <2> QED BY <2>1, <2>2, UnchartedEqual
<1>4. ASSUME NEW idx
      PROVE  Uncharted(BitSelected(pb, u, idx)) = Uncharted(BitSelected(pb, st, idx))
  <2> DEFINE a == BitSelected(pb, u, idx)
             b == BitSelected(pb, st, idx)
  <2>1. a = [slot_no |-> u.slot_no, track_no |-> u.track_no + 1, slots |-> u.slots,
             current_slot |-> Append(u.current_slot, idx),
             slot_candidates |-> (u.slot_candidates \ {idx}) \ ClashMask(pb, idx),
             remaining_talks |-> u.remaining_talks \ {idx}]
    BY <1>2, BitSelectedIs
  <2>2. b = [slot_no |-> st.slot_no, track_no |-> st.track_no + 1, slots |-> st.slots,
             current_slot |-> Append(st.current_slot, idx),
             slot_candidates |-> (st.slot_candidates \ {idx}) \ ClashMask(pb, idx),
             remaining_talks |-> st.remaining_talks \ {idx}]
    BY <1>1, BitSelectedIs
  <2> HIDE DEF a, b
  <2>3. IsRecord(a) /\ IsRecord(b)
    BY <2>1, <2>2 DEF IsRecord
  <2>4. SameUncharted(a, b)
    BY <1>2, <2>1, <2>2 DEF SameUncharted
  <2>5. Uncharted(a) = Uncharted(b)
    BY <2>3, <2>4, UnchartedEqual
  <2> QED BY <2>5 DEF a, b
<1> QED BY <1>3, <1>4 DEF u

LEMMA UnchartedBranchesSame ==
  ASSUME NEW pb, Conference(pb), NEW st \in BitState(pb), ~ Finished(pb, st)
  PROVE  /\ DOMAIN ExpandBranches(pb, Uncharted(st)) = DOMAIN ExpandBranches(pb, st)
         /\ \A i \in DOMAIN ExpandBranches(pb, st) :
              Uncharted(ExpandBranches(pb, Uncharted(st))[i])
                = Uncharted(ExpandBranches(pb, st)[i])
<1> DEFINE u == Uncharted(st)
<1>1. u.track_no = st.track_no /\ u.slot_candidates = st.slot_candidates
  <2>1. Uncharted(st) = [st EXCEPT !.slots = <<>>, !.current_slot = <<>>]
    BY DEF Uncharted
  <2>2. st = [slot_no |-> st.slot_no, track_no |-> st.track_no, slots |-> st.slots,
              current_slot |-> st.current_slot, slot_candidates |-> st.slot_candidates,
              remaining_talks |-> st.remaining_talks]
    BY DEF BitState
  <2> QED BY ONLY <2>1, <2>2
<1>2. /\ Uncharted(Committed(u)) = Uncharted(Committed(st))
      /\ \A idx : Uncharted(BitSelected(pb, u, idx)) = Uncharted(BitSelected(pb, st, idx))
  BY UnchartedSame
<1> HIDE DEF u
<1>3. CASE st.track_no = pb.tracks
  <2>1. ExpandBranches(pb, u) = <<Committed(u)>> /\ ExpandBranches(pb, st) = <<Committed(st)>>
    BY <1>1, <1>3 DEF ExpandBranches
  <2> QED BY <1>2, <2>1 DEF u
<1>4. CASE st.track_no # pb.tracks
  <2> DEFINE candidates == Ascending(st.slot_candidates)
  <2>1. /\ ExpandBranches(pb, u)
             = [i \in DOMAIN candidates |-> BitSelected(pb, u, candidates[i])]
        /\ ExpandBranches(pb, st)
             = [i \in DOMAIN candidates |-> BitSelected(pb, st, candidates[i])]
    BY <1>1, <1>4 DEF ExpandBranches
  <2> HIDE DEF candidates
  <2> QED BY <1>2, <2>1 DEF u
<1> QED BY <1>3, <1>4

LEMMA CountUncharted ==
  ASSUME NEW pb, Conference(pb), NEW st \in BitState(pb)
  PROVE  CountSolutions(pb, Uncharted(st)) = CountSolutions(pb, st)
<1> DEFINE u == Uncharted(st)
<1>1. u \in BitState(pb) /\ (Finished(pb, u) <=> Finished(pb, st))
  <2>1. Uncharted(st) = [st EXCEPT !.slots = <<>>, !.current_slot = <<>>]
    BY DEF Uncharted
  <2>2. st = [slot_no |-> st.slot_no, track_no |-> st.track_no, slots |-> st.slots,
              current_slot |-> st.current_slot, slot_candidates |-> st.slot_candidates,
              remaining_talks |-> st.remaining_talks]
    BY DEF BitState
  <2>3. u.slot_no = st.slot_no
    BY ONLY <2>1, <2>2
  <2> QED BY <2>3, UnchartedType DEF Finished
<1>2. CASE Finished(pb, st)
  BY <1>1, <1>2, CountUnfolds
<1>3. CASE ~ Finished(pb, st)
  <2> DEFINE a == ExpandBranches(pb, u)
             b == ExpandBranches(pb, st)
  <2>1. DOMAIN a = DOMAIN b /\ \A i \in DOMAIN b : Uncharted(a[i]) = Uncharted(b[i])
    BY <1>3, UnchartedBranchesSame
  <2>2. /\ CountSolutions(pb, u)
             = Total([i \in DOMAIN a |-> CountSolutions(pb, Uncharted(a[i]))])
        /\ CountSolutions(pb, st)
             = Total([i \in DOMAIN b |-> CountSolutions(pb, Uncharted(b[i]))])
    BY <1>1, <1>3, CountUnfolds
  <2> HIDE DEF a, b
  <2>3. [i \in DOMAIN a |-> CountSolutions(pb, Uncharted(a[i]))]
          = [i \in DOMAIN b |-> CountSolutions(pb, Uncharted(b[i]))]
    BY <2>1
  <2> QED BY <2>2, <2>3
<1> QED BY <1>2, <1>3

LEMMA CountAddsUp ==
  ASSUME NEW pb, Conference(pb), NEW st \in BitState(pb), ~ Finished(pb, st)
  PROVE  CountSolutions(pb, st)
           = Total([i \in DOMAIN ExpandBranches(pb, st) |->
                      CountSolutions(pb, ExpandBranches(pb, st)[i])])
<1> DEFINE b == ExpandBranches(pb, st)
<1>1. \A i \in DOMAIN b : b[i] \in BitState(pb)
  BY ExpandedBranches DEF IsBitBranch
<1>2. \A i \in DOMAIN b : CountSolutions(pb, Uncharted(b[i])) = CountSolutions(pb, b[i])
  BY <1>1, CountUncharted
<1>3. CountSolutions(pb, st)
        = Total([i \in DOMAIN b |-> CountSolutions(pb, Uncharted(b[i]))])
  BY CountUnfolds
<1> HIDE DEF b
<1>4. [i \in DOMAIN b |-> CountSolutions(pb, Uncharted(b[i]))]
        = [i \in DOMAIN b |-> CountSolutions(pb, b[i])]
  BY <1>2
<1> QED BY <1>3, <1>4 DEF b

-----------------------------------------------------------------------------
(* The three solvers alike: sv is the solver of a call for problem pb.        *)

States(pb, sv) == IF sv = "vector" THEN State(pb) ELSE BitState(pb)

Outcomes(pb, sv) ==
  IF sv = "vector" THEN Seq(Timetables(pb))
  ELSE IF sv = "bitmask" THEN Seq(BitTimetables(pb)) ELSE Nat

Kids(pb, sv, st) == IF sv = "vector" THEN Refine(pb, st) ELSE ExpandBranches(pb, st)

End(pb, sv, st) ==
  IF sv = "vector" THEN <<st.slots>>
  ELSE IF sv = "bitmask" THEN <<ToTimetable(pb, st)>> ELSE 1

Search(pb, sv, st) ==
  IF sv = "vector" THEN SeqSearch(pb, st)
  ELSE IF sv = "bitmask" THEN BitSearch(pb, st) ELSE CountSolutions(pb, st)

Gather(sv, outs) == IF sv = "counter" THEN Total(outs) ELSE FlattenSeq(outs)

Join(sv, a, b) == IF sv = "counter" THEN a + b ELSE a \o b

FirstState(pb, sv) == IF sv = "vector" THEN Start(pb) ELSE BitStart(pb)

Searches(pb, sv, k) == [i \in 1..Len(k) |-> Search(pb, sv, k[i])]

LEMMA Alike ==
  ASSUME solver \in Solver
  PROVE  /\ \A st : Children(st) = Kids(problem, solver, st)
         /\ \A st : Solution(st) = End(problem, solver, st)
         /\ \A st : SequentialSearch(st) = Search(problem, solver, st)
         /\ \A outs : Gathered(outs) = Gather(solver, outs)
BY DEF Solver, Children, Kids, Solution, End, SequentialSearch, Search, Gathered, Gather

LEMMA FirstStateType ==
  ASSUME NEW pb, Conference(pb), NEW sv
  PROVE  FirstState(pb, sv) \in States(pb, sv)
<1>1. pb.slots \in Nat /\ pb.tracks \in Nat /\ pb.talks \in Seq(Range(pb.talks))
  BY DEF Conference
<1>2. 0 \in 0..pb.slots /\ 0 \in 0..pb.tracks
  BY <1>1
<1>3. Start(pb) \in State(pb)
  BY <1>1, <1>2 DEF Start, State
<1>4. BitStart(pb) \in BitState(pb)
  BY <1>2, MaskTypes DEF BitStart, BitState
<1> QED BY <1>3, <1>4 DEF FirstState, States

LEMMA Gathering ==
  ASSUME NEW pb, NEW sv \in Solver
  PROVE  \A outs \in Seq(Outcomes(pb, sv)) :
           /\ Gather(sv, outs) \in Outcomes(pb, sv)
           /\ \A more \in Seq(Outcomes(pb, sv)) :
                Gather(sv, outs \o more) = Join(sv, Gather(sv, outs), Gather(sv, more))
<1> TAKE outs \in Seq(Outcomes(pb, sv))
<1>1. CASE sv = "vector"
  <2> DEFINE A == Timetables(pb)
  <2>1. Outcomes(pb, sv) = Seq(A)
    BY <1>1 DEF Outcomes
  <2> HIDE DEF A
  <2> QED BY <1>1, <2>1, FlattenType, FlattenConcat DEF Gather, Join
<1>2. CASE sv = "bitmask"
  <2> DEFINE A == BitTimetables(pb)
  <2>1. Outcomes(pb, sv) = Seq(A)
    BY <1>2 DEF Outcomes
  <2> HIDE DEF A
  <2> QED BY <1>2, <2>1, FlattenType, FlattenConcat DEF Gather, Join
<1>3. CASE sv = "counter"
  <2>1. Outcomes(pb, sv) = Nat
    BY <1>3 DEF Outcomes
  <2> QED BY <1>3, <2>1, TotalType, TotalConcat DEF Gather, Join
<1> QED BY <1>1, <1>2, <1>3 DEF Solver

LEMMA GatherOne ==
  ASSUME NEW pb, NEW sv \in Solver, NEW out \in Outcomes(pb, sv)
  PROVE  Gather(sv, <<out>>) = out
<1>1. CASE sv = "vector"
  BY <1>1, FlattenOne DEF Gather, Outcomes
<1>2. CASE sv = "bitmask"
  BY <1>2, FlattenOne DEF Gather, Outcomes
<1>3. CASE sv = "counter"
  BY <1>3, TotalOne DEF Gather, Outcomes
<1> QED BY <1>1, <1>2, <1>3 DEF Solver

(* What the sequential search finds at a state.                               *)
LEMMA SearchFacts ==
  ASSUME NEW pb, Conference(pb), NEW sv \in Solver, NEW st \in States(pb, sv)
  PROVE  /\ Search(pb, sv, st) \in Outcomes(pb, sv)
         /\ Finished(pb, st) => Search(pb, sv, st) = End(pb, sv, st)
         /\ ~ Finished(pb, st) =>
              /\ Kids(pb, sv, st) \in Seq(States(pb, sv))
              /\ Search(pb, sv, st) = Gather(sv, Searches(pb, sv, Kids(pb, sv, st)))
<1>1. CASE sv = "vector"
  <2>1. st \in State(pb)
    BY <1>1 DEF States
  <2>2. /\ SeqSearch(pb, st) \in Seq(Timetables(pb))
        /\ Finished(pb, st) => SeqSearch(pb, st) = <<st.slots>>
        /\ ~ Finished(pb, st) =>
             SeqSearch(pb, st) = FlattenSeq([i \in DOMAIN Refine(pb, st) |->
                                               SeqSearch(pb, Refine(pb, st)[i])])
    BY <2>1, SeqSearchUnfolds
  <2>3. ~ Finished(pb, st) =>
          /\ Refine(pb, st) \in Seq(State(pb))
          /\ DOMAIN Refine(pb, st) = 1..Len(Refine(pb, st))
    BY <2>1, RefineBranches
  <2> QED BY <1>1, <2>2, <2>3
      DEF Search, Outcomes, End, Kids, States, Gather, Searches
<1>2. CASE sv = "bitmask"
  <2>1. st \in BitState(pb)
    BY <1>2 DEF States
  <2>2. /\ BitSearch(pb, st) \in Seq(BitTimetables(pb))
        /\ Finished(pb, st) => BitSearch(pb, st) = <<ToTimetable(pb, st)>>
        /\ ~ Finished(pb, st) =>
             BitSearch(pb, st) = FlattenSeq([i \in DOMAIN ExpandBranches(pb, st) |->
                                               BitSearch(pb, ExpandBranches(pb, st)[i])])
    BY <2>1, BitSearchUnfolds
  <2>3. ~ Finished(pb, st) =>
          /\ ExpandBranches(pb, st) \in Seq(BitState(pb))
          /\ DOMAIN ExpandBranches(pb, st) = 1..Len(ExpandBranches(pb, st))
    BY <2>1, ExpandedBranches
  <2> QED BY <1>2, <2>2, <2>3
      DEF Search, Outcomes, End, Kids, States, Gather, Searches
<1>3. CASE sv = "counter"
  <2>1. st \in BitState(pb)
    BY <1>3 DEF States
  <2>2. /\ CountSolutions(pb, st) \in Nat
        /\ Finished(pb, st) => CountSolutions(pb, st) = 1
        /\ ~ Finished(pb, st) =>
             CountSolutions(pb, st) = Total([i \in DOMAIN ExpandBranches(pb, st) |->
                                               CountSolutions(pb, ExpandBranches(pb, st)[i])])
    BY <2>1, CountUnfolds, CountAddsUp
  <2>3. ~ Finished(pb, st) =>
          /\ ExpandBranches(pb, st) \in Seq(BitState(pb))
          /\ DOMAIN ExpandBranches(pb, st) = 1..Len(ExpandBranches(pb, st))
    BY <2>1, ExpandedBranches
  <2> QED BY <1>3, <2>2, <2>3
      DEF Search, Outcomes, End, Kids, States, Gather, Searches
<1> QED BY <1>1, <1>2, <1>3 DEF Solver

-----------------------------------------------------------------------------
(* The work: what its items are worth is what the search of the first state   *)
(* finds, whatever has been done so far.                                      *)

Depths(md) == {d \in Nat : md = Unlimited \/ d <= md}

Item(pb, sv, md) ==
  [kind : {"branch"}, depth : Depths(md), state : States(pb, sv)]
    \cup [kind : {"result"}, out : Outcomes(pb, sv)]

Worth(pb, sv, x) == IF x.kind = "branch" THEN Search(pb, sv, x.state) ELSE x.out

Worths(pb, sv, w) == [i \in 1..Len(w) |-> Worth(pb, sv, w[i])]

SearchInv ==
  /\ [problem |-> problem, solver |-> solver, max_depth |-> max_depth] \in Call
  /\ work \in Seq(Item(problem, solver, max_depth))
  /\ Gather(solver, Worths(problem, solver, work))
       = Search(problem, solver, FirstState(problem, solver))

LEMMA CallFacts ==
  ASSUME [problem |-> problem, solver |-> solver, max_depth |-> max_depth] \in Call
  PROVE  Conference(problem) /\ solver \in Solver /\ max_depth \in Nat \cup {Unlimited}
<1> DEFINE c == [problem |-> problem, solver |-> solver, max_depth |-> max_depth]
<1>1. c.problem = problem /\ c.solver = solver /\ c.max_depth = max_depth
  OBVIOUS
<1> HIDE DEF c
<1>2. c \in Call
  BY DEF c
<1>3. Conference(c.problem) /\ c \in [problem : {d.problem : d \in Call}, solver : Solver,
                                      max_depth : Nat \cup {Unlimited}]
  BY <1>2, CallAssumption
<1> QED BY <1>1, <1>3

LEMMA WorthType ==
  ASSUME NEW pb, Conference(pb), NEW sv \in Solver, NEW md, NEW w \in Seq(Item(pb, sv, md))
  PROVE  Worths(pb, sv, w) \in Seq(Outcomes(pb, sv)) /\ Len(Worths(pb, sv, w)) = Len(w)
<1>1. ASSUME NEW i \in 1..Len(w) PROVE Worth(pb, sv, w[i]) \in Outcomes(pb, sv)
  <2>1. w[i] \in Item(pb, sv, md)
    OBVIOUS
  <2>2. \/ w[i].kind = "branch" /\ w[i].state \in States(pb, sv)
        \/ w[i].kind = "result" /\ w[i].out \in Outcomes(pb, sv)
    BY <2>1 DEF Item
  <2> QED BY <2>2, SearchFacts DEF Worth
<1>2. Len(w) \in Nat
  OBVIOUS
<1> DEFINE V == Outcomes(pb, sv)
<1> HIDE DEF V
<1>3. \A i \in 1..Len(w) : Worth(pb, sv, w[i]) \in V
  BY <1>1 DEF V
<1> QED BY <1>2, <1>3 DEF Worths, V

LEMMA ConcatIs ==
  ASSUME NEW B, NEW f \in Seq(B), NEW g \in Seq(B), NEW h \in Seq(B),
         Len(h) = Len(f) + Len(g),
         \A i \in 1..Len(f) : h[i] = f[i], \A i \in 1..Len(g) : h[Len(f) + i] = g[i]
  PROVE  h = f \o g
<1> DEFINE e == f \o g
<1>1. /\ e \in Seq(B) /\ Len(e) = Len(f) + Len(g) /\ Len(f) \in Nat /\ Len(g) \in Nat
      /\ \A i \in 1..(Len(f) + Len(g)) : e[i] = IF i <= Len(f) THEN f[i] ELSE g[i - Len(f)]
  BY ConcatProperties, LenProperties
<1> HIDE DEF e
<1>2. ASSUME NEW i \in 1..Len(h) PROVE h[i] = e[i]
  <2>1. CASE i <= Len(f)
    <3>1. i \in 1..Len(f)
      BY <1>1, <2>1
    <3> QED BY <1>1, <2>1, <3>1
  <2>2. CASE ~ (i <= Len(f))
    <3>1. i - Len(f) \in 1..Len(g) /\ i = Len(f) + (i - Len(f))
      BY <1>1, <2>2
    <3> QED BY <1>1, <2>2, <3>1
  <2> QED BY <2>1, <2>2
<1>3. h = e
  BY <1>1, <1>2, SeqEqual
<1> QED BY <1>3 DEF e

(* The values of F at the elements of a sequence.                             *)
Map(F, v) == [i \in 1..Len(v) |-> F[v[i]]]

LEMMA MapConcat ==
  ASSUME NEW A, NEW F, NEW v \in Seq(A), NEW w \in Seq(A)
  PROVE  Map(F, v \o w) = Map(F, v) \o Map(F, w)
<1> DEFINE r == v \o w
           f == Map(F, v)
           g == Map(F, w)
           h == Map(F, r)
<1>1. /\ Len(v) \in Nat /\ Len(w) \in Nat /\ Len(r) = Len(v) + Len(w)
      /\ \A i \in 1..Len(v) : r[i] = v[i]
      /\ \A i \in 1..Len(w) : r[Len(v) + i] = w[i]
  OBVIOUS
<1> HIDE DEF r
<1> DEFINE B == {F[a] : a \in A}
<1>2. \A a \in A : F[a] \in B
  OBVIOUS
<1> HIDE DEF B
<1>3. /\ f \in Seq(B) /\ Len(f) = Len(v) /\ g \in Seq(B) /\ Len(g) = Len(w)
      /\ h \in [1..(Len(v) + Len(w)) -> B] /\ Len(h) = Len(v) + Len(w)
  <2>1. \A i \in 1..Len(v) : F[v[i]] \in B
    BY <1>2
  <2>2. \A i \in 1..Len(w) : F[w[i]] \in B
    BY <1>2
  <2>3. ASSUME NEW i \in 1..(Len(v) + Len(w)) PROVE F[r[i]] \in B
    <3>1. CASE i \in 1..Len(v)
      BY <1>1, <2>1, <3>1
    <3>2. CASE i \notin 1..Len(v)
      <4>1. i - Len(v) \in 1..Len(w) /\ i = Len(v) + (i - Len(v))
        BY <1>1, <3>2
      <4> QED BY <1>1, <2>2, <4>1
    <3> QED BY <3>1, <3>2
  <2>4. h = [i \in 1..(Len(v) + Len(w)) |-> F[r[i]]]
    BY <1>1 DEF Map
  <2> QED BY <1>1, <2>1, <2>2, <2>3, <2>4 DEF Map
<1>4. \A i \in 1..Len(v) : h[i] = f[i]
  BY <1>1 DEF Map
<1>5. \A i \in 1..Len(w) : h[Len(v) + i] = g[i]
  BY <1>1 DEF Map
<1>6. h = f \o g
  <2> HIDE DEF f, g, h
  <2>1. h = [i \in 1..(Len(v) + Len(w)) |-> h[i]]
    BY <1>3
  <2>2. h \in Seq(B)
    <3>1. \A i \in 1..(Len(v) + Len(w)) : h[i] \in B
      BY <1>3
    <3>2. Len(v) + Len(w) \in Nat
      BY <1>1
    <3> QED BY <2>1, <3>1, <3>2, IsASeq
  <2>3. /\ Len(h) = Len(f) + Len(g)
        /\ \A i \in 1..Len(f) : h[i] = f[i]
        /\ \A i \in 1..Len(g) : h[Len(f) + i] = g[i]
    BY <1>3, <1>4, <1>5
  <2>4. f \in Seq(B) /\ g \in Seq(B)
    BY <1>3
  <2> QED BY ONLY <2>2, <2>3, <2>4, ConcatIs
<1> QED BY <1>6 DEF f, g, h, r

LEMMA WorthConcat ==
  ASSUME NEW pb, NEW sv, NEW A, NEW v \in Seq(A), NEW w \in Seq(A)
  PROVE  Worths(pb, sv, v \o w) = Worths(pb, sv, v) \o Worths(pb, sv, w)
<1> DEFINE F == [a \in A |-> Worth(pb, sv, a)]
<1>1. ASSUME NEW s \in Seq(A) PROVE Worths(pb, sv, s) = Map(F, s)
  <2>1. \A i \in 1..Len(s) : s[i] \in A /\ F[s[i]] = Worth(pb, sv, s[i])
    BY ElementOfSeq
  <2> QED BY <2>1 DEF Worths, Map
<1> HIDE DEF F
<1>2. v \o w \in Seq(A)
  BY ConcatProperties
<1>3. Map(F, v \o w) = Map(F, v) \o Map(F, w)
  BY MapConcat
<1>4. /\ Worths(pb, sv, v) = Map(F, v) /\ Worths(pb, sv, w) = Map(F, w)
      /\ Worths(pb, sv, v \o w) = Map(F, v \o w)
  BY <1>1, <1>2
<1> QED BY ONLY <1>3, <1>4

LEMMA WorthOne ==
  ASSUME NEW pb, NEW sv, NEW x
  PROVE  Worths(pb, sv, <<x>>) = <<Worth(pb, sv, x)>>
BY DEF Worths

(* The i-th item makes way for the items of s.                                *)
LEMMA Split ==
  ASSUME NEW A, NEW w \in Seq(A), NEW i \in 1..Len(w)
  PROVE  /\ SubSeq(w, 1, i - 1) \in Seq(A) /\ SubSeq(w, i + 1, Len(w)) \in Seq(A)
         /\ w[i] \in A /\ <<w[i]>> \in Seq(A)
         /\ w = (SubSeq(w, 1, i - 1) \o <<w[i]>>) \o SubSeq(w, i + 1, Len(w))
<1> DEFINE a == SubSeq(w, 1, i - 1)
           b == <<w[i]>>
           c == SubSeq(w, i + 1, Len(w))
<1>1. /\ a \in Seq(A) /\ Len(a) = i - 1 /\ \A j \in 1..(i - 1) : a[j] = w[j]
      /\ c \in Seq(A) /\ Len(c) = Len(w) - i /\ \A j \in 1..(Len(w) - i) : c[j] = w[i + j]
      /\ i \in Nat /\ Len(w) \in Nat /\ w[i] \in A
  OBVIOUS
<1>2. b \in Seq(A) /\ Len(b) = 1 /\ b[1] = w[i]
  BY <1>1
<1> HIDE DEF a, b, c
<1>3. (a \o b) \in Seq(A) /\ Len(a \o b) = i
      /\ \A j \in 1..i : (a \o b)[j] = w[j]
  <2>1. /\ a \o b \in Seq(A) /\ Len(a \o b) = Len(a) + Len(b)
        /\ \A j \in 1..(Len(a) + Len(b)) :
             (a \o b)[j] = IF j <= Len(a) THEN a[j] ELSE b[j - Len(a)]
    BY <1>1, <1>2, ConcatProperties
  <2>2. Len(a) + Len(b) = i /\ \A j \in 1..i : j <= i - 1 \/ j = i
    BY <1>1, <1>2
  <2> QED BY <1>1, <1>2, <2>1, <2>2
<1> DEFINE d == a \o b
<1> HIDE DEF d
<1>4. d \in Seq(A) /\ Len(d) = i /\ \A j \in 1..i : d[j] = w[j]
  BY <1>3 DEF d
<1>5. (d \o c) \in Seq(A) /\ Len(d \o c) = Len(w)
      /\ \A j \in 1..Len(w) : (d \o c)[j] = IF j <= i THEN d[j] ELSE c[j - i]
  BY <1>1, <1>4
<1>6. ASSUME NEW j \in 1..Len(w) PROVE (d \o c)[j] = w[j]
  <2>1. CASE j <= i
    BY <1>1, <1>4, <1>5, <2>1
  <2>2. CASE ~ (j <= i)
    <3>1. j - i \in 1..(Len(w) - i) /\ i + (j - i) = j
      BY <1>1, <2>2
    <3> QED BY <1>1, <1>5, <2>2, <3>1
  <2> QED BY <2>1, <2>2
<1>7. w = d \o c
  BY <1>5, <1>6, SeqEqual
<1> QED BY <1>1, <1>2, <1>7 DEF a, b, c, d

Exchanged(w, i, s) == SubSeq(w, 1, i - 1) \o s \o SubSeq(w, i + 1, Len(w))

LEMMA Replaced ==
  ASSUME NEW pb, Conference(pb), NEW sv \in Solver, NEW md,
         NEW w \in Seq(Item(pb, sv, md)), NEW i \in 1..Len(w), NEW s \in Seq(Item(pb, sv, md)),
         Gather(sv, Worths(pb, sv, s)) = Worth(pb, sv, w[i])
  PROVE  /\ Exchanged(w, i, s) \in Seq(Item(pb, sv, md))
         /\ Gather(sv, Worths(pb, sv, Exchanged(w, i, s))) = Gather(sv, Worths(pb, sv, w))
<1> DEFINE A == Item(pb, sv, md)
<1> HIDE DEF A
<1>0. \A x, y \in Seq(A) : Worths(pb, sv, x \o y) = Worths(pb, sv, x) \o Worths(pb, sv, y)
  BY WorthConcat
<1> USE DEF A
<1> DEFINE v == Exchanged(w, i, s)
           V == Outcomes(pb, sv)
           a == SubSeq(w, 1, i - 1)
           b == <<w[i]>>
           c == SubSeq(w, i + 1, Len(w))
           fa == Worths(pb, sv, a)
           fb == Worths(pb, sv, b)
           fc == Worths(pb, sv, c)
           fs == Worths(pb, sv, s)
           W(x) == Gather(sv, Worths(pb, sv, x))
<1>1. a \in Seq(A) /\ b \in Seq(A) /\ c \in Seq(A) /\ w[i] \in A /\ w = (a \o b) \o c
  BY Split
<1>2. \A x \in Seq(A) : Worths(pb, sv, x) \in Seq(V)
  BY WorthType
<1>3. \A x, y \in Seq(A) : x \o y \in Seq(A)
  BY ConcatProperties
<1>4. ASSUME NEW x \in Seq(A), NEW y \in Seq(A) PROVE W(x \o y) = Join(sv, W(x), W(y))
  <2>1. Worths(pb, sv, x \o y) = Worths(pb, sv, x) \o Worths(pb, sv, y)
    BY <1>0
  <2> DEFINE f == Worths(pb, sv, x)
             g == Worths(pb, sv, y)
  <2>2. f \in Seq(V) /\ g \in Seq(V)
    BY <1>2
  <2> HIDE DEF f, g
  <2>3. Gather(sv, f \o g) = Join(sv, Gather(sv, f), Gather(sv, g))
    BY <2>2, Gathering
  <2> QED BY <2>1, <2>3 DEF f, g
<1>5. W(b) = Worth(pb, sv, w[i])
  <2>1. Worth(pb, sv, w[i]) \in V
    <3>1. fb \in Seq(V)
      BY <1>1, <1>2
    <3>2. fb[1] = Worth(pb, sv, w[i]) /\ 1 \in 1..Len(fb)
      BY DEF Worths
    <3> QED BY <3>1, <3>2, ElementOfSeq
  <2>2. fb = <<Worth(pb, sv, w[i])>>
    BY WorthOne
  <2> QED BY <2>1, <2>2, GatherOne
<1> HIDE DEF A, a, b, c, W
<1>6. W(w) = Join(sv, Join(sv, W(a), W(b)), W(c))
  <2>1. a \o b \in Seq(A)
    BY <1>1, <1>3
  <2>2. W((a \o b) \o c) = Join(sv, W(a \o b), W(c))
    BY <1>1, <1>4, <2>1
  <2>3. W(a \o b) = Join(sv, W(a), W(b))
    BY <1>1, <1>4
  <2> QED BY <1>1, <2>2, <2>3
<1>7. v = (a \o s) \o c /\ s \in Seq(A)
  BY DEF a, c, A, Exchanged
<1> HIDE DEF v
<1>8. v \in Seq(A) /\ W(v) = Join(sv, Join(sv, W(a), W(s)), W(c))
  <2>1. a \o s \in Seq(A) /\ (a \o s) \o c \in Seq(A)
    BY <1>1, <1>3, <1>7
  <2>2. W((a \o s) \o c) = Join(sv, W(a \o s), W(c))
    BY <1>1, <1>4, <2>1
  <2>3. W(a \o s) = Join(sv, W(a), W(s))
    BY <1>1, <1>4, <1>7
  <2> QED BY <1>7, <2>1, <2>2, <2>3
<1>9. W(s) = W(b)
  BY <1>5 DEF W
<1> QED BY <1>6, <1>8, <1>9 DEF A, W, v

LEMMA SearchInvInit == Init => SearchInv
<1> SUFFICES ASSUME Init PROVE SearchInv
  OBVIOUS
<1>1. PICK c \in Call :
        /\ problem = c.problem /\ solver = c.solver /\ max_depth = c.max_depth
        /\ work = <<Branch(0, FirstState(c.problem, c.solver))>>
  BY DEF Init, FirstState
<1>2. c \in [problem : {d.problem : d \in Call}, solver : Solver,
             max_depth : Nat \cup {Unlimited}]
  BY CallAssumption
<1>3. [problem |-> problem, solver |-> solver, max_depth |-> max_depth] = c
  BY <1>1, <1>2
<1>4. Conference(problem) /\ solver \in Solver /\ max_depth \in Nat \cup {Unlimited}
  BY <1>3, CallFacts
<1> DEFINE st == FirstState(problem, solver)
           A == Item(problem, solver, max_depth)
           x == Branch(0, st)
<1>5. st \in States(problem, solver) /\ Search(problem, solver, st) \in Outcomes(problem, solver)
  BY <1>4, FirstStateType, SearchFacts
<1>6. work = <<x>>
  BY <1>1
<1> HIDE DEF st
<1>7. x \in A /\ x.kind = "branch" /\ x.state = st
  <2>1. 0 \in Depths(max_depth)
    BY <1>4, CallAssumption DEF Depths
  <2> QED BY <1>5, <2>1 DEF Branch, Item
<1> HIDE DEF x, A
<1>8. work \in Seq(A)
  BY <1>6, <1>7
<1>9. Worths(problem, solver, work) = <<Search(problem, solver, st)>>
  <2>1. Worth(problem, solver, x) = Search(problem, solver, st)
    BY <1>7 DEF Worth
  <2> QED BY <1>6, <2>1, WorthOne
<1>10. Gather(solver, Worths(problem, solver, work)) = Search(problem, solver, st)
  BY <1>4, <1>5, <1>9, GatherOne
<1> QED BY <1>3, <1>8, <1>10 DEF SearchInv, st, A

(* A pending item.                                                            *)
LEMMA PendingFacts ==
  ASSUME SearchInv, NEW i \in DOMAIN work, Pending(i)
  PROVE  /\ work[i].depth \in Depths(max_depth)
         /\ work[i].state \in States(problem, solver)
         /\ Worth(problem, solver, work[i]) = Search(problem, solver, work[i].state)
<1>1. work[i] \in Item(problem, solver, max_depth)
  BY DEF SearchInv
<1>2. work[i].kind = "branch"
  BY DEF Pending
<1> QED BY <1>1, <1>2 DEF Item, Worth

(* What a step puts in the place of the i-th item: items that are together    *)
(* worth what it was worth, and of the branches only its own, each once.      *)
Puts(i, s) ==
  /\ Becomes(i, s) /\ s \in Seq(Item(problem, solver, max_depth))
  /\ Gather(solver, Worths(problem, solver, s)) = Worth(problem, solver, work[i])
  /\ \A j \in 1..Len(s) : s[j].kind = "branch" =>
       /\ Pending(i) /\ ~ Finished(problem, work[i].state)
       /\ j \in DOMAIN Kids(problem, solver, work[i].state)
       /\ s[j].state = Kids(problem, solver, work[i].state)[j]

(* A result that is what the branch is worth.                                 *)
LEMMA ResultPuts ==
  ASSUME SearchInv, NEW i \in DOMAIN work, NEW out, Becomes(i, <<Result(out)>>),
         out = Worth(problem, solver, work[i]), out \in Outcomes(problem, solver)
  PROVE  Puts(i, <<Result(out)>>)
<1> DEFINE x == Result(out)
           A == Item(problem, solver, max_depth)
<1>1. x \in A /\ x.kind = "result" /\ x.out = out
  BY DEF Result, Item
<1> HIDE DEF x, A
<1>2. solver \in Solver
  BY CallFacts DEF SearchInv
<1>3. <<x>> \in Seq(A)
  BY <1>1
<1>4. Worths(problem, solver, <<x>>) = <<out>>
  <2>1. Worth(problem, solver, x) = out
    BY <1>1 DEF Worth
  <2> QED BY <2>1, WorthOne
<1>5. Gather(solver, Worths(problem, solver, <<x>>)) = Worth(problem, solver, work[i])
  BY <1>2, <1>4, GatherOne
<1>6. \A j \in 1..Len(<<x>>) : <<x>>[j].kind # "branch"
  BY <1>1
<1>7. Becomes(i, <<x>>)
  BY DEF x
<1> QED BY <1>3, <1>5, <1>6, <1>7 DEF x, A, Puts

(* A finished branch, and one below the cutoff, becomes a result that is what *)
(* the sequential search finds at it.                                         *)
Searched(i) == <<Result(Search(problem, solver, work[i].state))>>

Forked(i) ==
  [j \in DOMAIN Kids(problem, solver, work[i].state) |->
     Branch(work[i].depth + 1, Kids(problem, solver, work[i].state)[j])]

LEMMA SolvePuts ==
  ASSUME SearchInv, NEW i \in DOMAIN work, Solve(i)
  PROVE  Puts(i, Searched(i))
<1> DEFINE st == work[i].state
           out == End(problem, solver, st)
<1>1. Pending(i) /\ Finished(problem, st)
  BY DEF Solve
<1>2. Conference(problem) /\ solver \in Solver
  BY CallFacts DEF SearchInv
<1>3. Becomes(i, <<Result(out)>>)
  BY <1>2, Alike DEF Solve
<1>4. /\ st \in States(problem, solver)
      /\ Worth(problem, solver, work[i]) = Search(problem, solver, st)
  BY <1>1, PendingFacts
<1>5. Search(problem, solver, st) = out /\ out \in Outcomes(problem, solver)
  BY <1>1, <1>2, <1>4, SearchFacts
<1>6. Searched(i) = <<Result(out)>>
  BY <1>5 DEF Searched
<1> HIDE DEF out, st
<1>7. Puts(i, <<Result(out)>>)
  BY <1>3, <1>4, <1>5, ResultPuts
<1> QED BY <1>6, <1>7

LEMMA ForkPuts ==
  ASSUME SearchInv, NEW i \in DOMAIN work, Fork(i)
  PROVE  Puts(i, Forked(i))
<1> DEFINE st == work[i].state
           d == work[i].depth
           k == Kids(problem, solver, st)
           s == [j \in DOMAIN k |-> Branch(d + 1, k[j])]
           A == Item(problem, solver, max_depth)
<1>1. Pending(i) /\ ~ Finished(problem, st) /\ ~ Limited(d)
  BY DEF Fork
<1>2. Conference(problem) /\ solver \in Solver /\ max_depth \in Nat \cup {Unlimited}
  BY CallFacts DEF SearchInv
<1>3. Becomes(i, s)
  <2>1. Children(st) = k
    BY <1>2, Alike
  <2> QED BY <2>1 DEF Fork
<1>4. /\ d \in Depths(max_depth) /\ st \in States(problem, solver)
      /\ Worth(problem, solver, work[i]) = Search(problem, solver, st)
  BY <1>1, PendingFacts
<1>5. /\ k \in Seq(States(problem, solver))
      /\ Search(problem, solver, st) = Gather(solver, Searches(problem, solver, k))
  BY <1>1, <1>2, <1>4, SearchFacts
<1>6. d + 1 \in Depths(max_depth) /\ Forked(i) = s
  BY <1>1, <1>2, <1>4, CallAssumption DEF Depths, Limited, Forked
<1> HIDE DEF st, d, k
<1>7. /\ Len(k) \in Nat /\ DOMAIN k = 1..Len(k)
      /\ \A j \in 1..Len(k) : k[j] \in States(problem, solver)
  BY <1>5
<1>8. ASSUME NEW j \in 1..Len(k)
      PROVE  /\ s[j] \in A /\ Worth(problem, solver, s[j]) = Search(problem, solver, k[j])
             /\ s[j].state = k[j]
  <2>1. s[j] = Branch(d + 1, k[j])
    BY <1>7
  <2>2. s[j].kind = "branch" /\ s[j].state = k[j]
    BY <2>1 DEF Branch
  <2>3. Branch(d + 1, k[j]) \in A
    BY <1>6, <1>7 DEF Branch, Item
  <2> QED BY <2>1, <2>2, <2>3 DEF Worth
<1> HIDE DEF A
<1>9. s \in Seq(A) /\ Len(s) = Len(k)
  <2>1. s = [j \in 1..Len(k) |-> s[j]]
    BY <1>7
  <2> HIDE DEF s
  <2> QED BY <1>7, <1>8, <2>1, IsASeq
<1>10. Worths(problem, solver, s) = Searches(problem, solver, k)
  <2> HIDE DEF s
  <2> QED BY <1>8, <1>9 DEF Worths, Searches
<1>11. \A j \in 1..Len(s) : j \in DOMAIN k /\ s[j].state = k[j]
  <2> HIDE DEF s
  <2> QED BY <1>7, <1>8, <1>9
<1> HIDE DEF s
<1>12. Puts(i, s)
  BY <1>1, <1>3, <1>4, <1>5, <1>9, <1>10, <1>11 DEF A, Puts, st, k
<1> QED BY <1>6, <1>12

LEMMA FallbackPuts ==
  ASSUME SearchInv, NEW i \in DOMAIN work, Fallback(i)
  PROVE  Puts(i, Searched(i))
<1> DEFINE st == work[i].state
           k == Kids(problem, solver, st)
           out == Gather(solver, Searches(problem, solver, k))
<1>1. Pending(i) /\ ~ Finished(problem, st)
  BY DEF Fallback
<1>2. Conference(problem) /\ solver \in Solver
  BY CallFacts DEF SearchInv
<1>3. /\ st \in States(problem, solver)
      /\ Worth(problem, solver, work[i]) = Search(problem, solver, st)
  BY <1>1, PendingFacts
<1>4. /\ k \in Seq(States(problem, solver))
      /\ Search(problem, solver, st) \in Outcomes(problem, solver)
      /\ Search(problem, solver, st) = out
  BY <1>1, <1>2, <1>3, SearchFacts
<1>5. Becomes(i, <<Result(out)>>)
  <2>1. Becomes(i, <<Result(Gathered([j \in DOMAIN Children(st) |->
                                        SequentialSearch(Children(st)[j])]))>>)
    BY DEF Fallback
  <2>2. Children(st) = k
    BY <1>2, Alike
  <2>3. DOMAIN k = 1..Len(k)
    BY <1>4
  <2>4. [j \in DOMAIN Children(st) |-> SequentialSearch(Children(st)[j])]
          = Searches(problem, solver, k)
    BY <1>2, <2>2, <2>3, Alike DEF Searches
  <2>5. Gathered(Searches(problem, solver, k)) = out
    BY <1>2, Alike
  <2> QED BY <2>1, <2>4, <2>5
<1>6. Searched(i) = <<Result(out)>>
  BY <1>4 DEF Searched
<1> HIDE DEF out, st, k
<1>7. Puts(i, <<Result(out)>>)
  BY <1>3, <1>4, <1>5, ResultPuts
<1> QED BY <1>6, <1>7

(* What a step leaves to show for the invariant.                              *)
LEMMA SearchInvPuts ==
  ASSUME SearchInv, NEW i \in DOMAIN work, NEW s, Puts(i, s)
  PROVE  SearchInv'
<1>1. problem' = problem /\ solver' = solver /\ max_depth' = max_depth
      /\ work' = Exchanged(work, i, s)
  BY DEF Puts, Becomes, Exchanged
<1>2. Conference(problem) /\ solver \in Solver
  BY CallFacts DEF SearchInv
<1>3. work \in Seq(Item(problem, solver, max_depth)) /\ i \in 1..Len(work)
  BY DEF SearchInv
<1>4. /\ Exchanged(work, i, s) \in Seq(Item(problem, solver, max_depth))
      /\ Gather(solver, Worths(problem, solver, Exchanged(work, i, s)))
           = Gather(solver, Worths(problem, solver, work))
  BY <1>2, <1>3, Replaced DEF Puts
<1> QED BY <1>1, <1>4 DEF SearchInv

LEMMA StepPuts ==
  ASSUME SearchInv, Next
  PROVE  \E i \in DOMAIN work : \E s : Puts(i, s)
<1>1. PICK i \in DOMAIN work : Solve(i) \/ Fork(i) \/ Fallback(i)
  BY DEF Next
<1> QED BY <1>1, SolvePuts, ForkPuts, FallbackPuts

LEMMA SearchInvNext == SearchInv /\ [Next]_vars => SearchInv'
<1> SUFFICES ASSUME SearchInv, [Next]_vars PROVE SearchInv'
  OBVIOUS
<1>1. CASE UNCHANGED vars
  BY <1>1 DEF vars, SearchInv
<1>2. CASE Next
  <2>1. PICK i \in DOMAIN work : \E s : Puts(i, s)
    BY <1>2, StepPuts
  <2>2. PICK s : Puts(i, s)
    BY <2>1
  <2> QED BY <2>2, SearchInvPuts
<1> QED BY <1>1, <1>2

(* TypeOK: the items of the work are branches of a depth that may still be    *)
(* given to a worker, or results; the counter's results are numbers.          *)
LEMMA SearchInvType == SearchInv => TypeOK
<1> SUFFICES ASSUME SearchInv, NEW i \in DOMAIN work
             PROVE  \/ work[i].kind = "result" /\ (solver = "counter" => work[i].out \in Nat)
                    \/ work[i].kind = "branch" /\ work[i].depth \in Nat
                         /\ Shallow(work[i].depth)
  BY DEF TypeOK, SearchInv
<1>1. work[i] \in Item(problem, solver, max_depth)
  BY DEF SearchInv
<1> QED BY <1>1 DEF Item, Depths, Shallow, Outcomes

(* The workers never leave the types, and never go below the cutoff.          *)
THEOREM TypeCorrect == Spec => []TypeOK
<1>1. Spec => []SearchInv
  BY SearchInvInit, SearchInvNext, PTL DEF Spec
<1> QED BY <1>1, SearchInvType, PTL

(* Whatever the conference, the solver, the cutoff and the schedule of the    *)
(* workers, a search that has ended returns what the sequential search of     *)
(* the first state returns, in its order.                                     *)
LEMMA AnswerIs == SearchInv => AnswerSequential
<1> SUFFICES ASSUME SearchInv, Done
             PROVE  Answer = SequentialSearch(FirstState(problem, solver))
  BY DEF AnswerSequential, FirstState
<1>1. Conference(problem) /\ solver \in Solver
  BY CallFacts DEF SearchInv
<1>2. DOMAIN work = 1..Len(work)
  BY DEF SearchInv
<1>3. \A i \in DOMAIN work : Worth(problem, solver, work[i]) = work[i].out
  BY DEF Done, Worth
<1>4. Worths(problem, solver, work) = [i \in DOMAIN work |-> work[i].out]
  BY <1>2, <1>3 DEF Worths
<1>5. Answer = Gather(solver, Worths(problem, solver, work))
  BY <1>1, <1>4, Alike DEF Answer
<1> QED BY <1>1, <1>5, Alike DEF SearchInv

THEOREM SchedulesAgree == Spec => []AnswerSequential
<1>1. Spec => []SearchInv
  BY SearchInvInit, SearchInvNext, PTL DEF Spec
<1> QED BY <1>1, AnswerIs, PTL

-----------------------------------------------------------------------------
(* Elements of sequences without repetition.                                  *)

LEMMA RangeAppend ==
  ASSUME NEW A, NEW s \in Seq(A), NEW e \in A
  PROVE  Range(Append(s, e)) = Range(s) \cup {e}
<1>1. /\ Append(s, e) \in Seq(A) /\ Len(Append(s, e)) = Len(s) + 1 /\ Len(s) \in Nat
      /\ \A i \in 1..Len(s) : Append(s, e)[i] = s[i]
      /\ Append(s, e)[Len(s) + 1] = e
  OBVIOUS
<1> DEFINE t == Append(s, e)
<1> HIDE DEF t
<1>2. Range(s) = {s[i] : i \in 1..Len(s)} /\ Range(t) = {t[i] : i \in 1..Len(t)}
  BY <1>1, RangeEquality DEF t
<1>3. 1..Len(t) = 1..Len(s) \cup {Len(s) + 1}
  BY <1>1 DEF t
<1> QED BY <1>1, <1>2, <1>3 DEF t

LEMMA AppendKeepsInjective ==
  ASSUME NEW A, NEW s \in Seq(A), NEW e \in A, IsInjective(s), e \notin Range(s)
  PROVE  IsInjective(Append(s, e))
<1> DEFINE t == Append(s, e)
<1>1. /\ t \in Seq(A) /\ Len(t) = Len(s) + 1 /\ Len(s) \in Nat
      /\ \A i \in 1..Len(s) : t[i] = s[i]
      /\ t[Len(s) + 1] = e /\ DOMAIN s = 1..Len(s) /\ DOMAIN t = 1..Len(t)
  OBVIOUS
<1> HIDE DEF t
<1>2. \A i \in 1..Len(s) : s[i] # e
  BY <1>1 DEF Range
<1>3. \A i, j \in 1..Len(s) : s[i] = s[j] => i = j
  BY <1>1 DEF IsInjective
<1>4. ASSUME NEW i \in 1..Len(t), NEW j \in 1..Len(t), t[i] = t[j] PROVE i = j
  <2>1. (i \in 1..Len(s) \/ i = Len(s) + 1) /\ (j \in 1..Len(s) \/ j = Len(s) + 1)
    BY <1>1
  <2> QED BY <1>1, <1>2, <1>3, <1>4, <2>1
<1>5. IsInjective(t)
  BY <1>1, <1>4 DEF IsInjective
<1> QED BY <1>5 DEF t

(* The filters of the code: what they keep, and that they repeat nothing.     *)
LEMMA WithoutHas ==
  ASSUME NEW A, NEW s \in Seq(A), NEW T
  PROVE  /\ Range(Without(s, T)) = Range(s) \ T
         /\ IsInjective(s) => IsInjective(Without(s, T))
<1> DEFINE k == Kept(s, T)
           n == Len(s)
           Upto(i) == {s[j] : j \in 1..i}
<1>1. k \in Seq(Seq(A)) /\ Without(s, T) = FlattenSeq(k)
  BY KeptType DEF Without, Kept
<1>2. /\ n \in Nat /\ Len(k) = n /\ DOMAIN s = 1..n
      /\ \A i \in 1..n : s[i] \in A /\ k[i] = IF s[i] \in T THEN <<>> ELSE <<s[i]>>
  BY DEF Kept
<1> HIDE DEF k, n
<1>3. PICK g \in [0..n -> Seq(A)] : Flattens(g, k) /\ FlattenSeq(k) = g[n]
  BY <1>1, <1>2, FlattenHas
<1> DEFINE Has(i) == Range(g[i]) = Upto(i) \ T /\ (IsInjective(s) => IsInjective(g[i]))
           N == {i \in Nat : i <= n => Has(i)}
<1>4. 0 \in N
  <2>1. g[0] = <<>> /\ 1..0 = {}
    BY <1>3 DEF Flattens
  <2>2. Range(<<>>) = {} /\ IsInjective(<<>>)
    BY DEF Range, IsInjective
  <2> QED BY <2>1, <2>2
<1>5. ASSUME NEW i \in Nat, i \in N PROVE i + 1 \in N
  <2> HIDE DEF Has
  <2> SUFFICES ASSUME NEW j \in 1..n, j = i + 1
               PROVE  Has(j)
    BY <1>2
  <2>1. j - 1 = i /\ i <= n /\ i \in 0..n
    BY <1>2
  <2>2. g[j] = g[i] \o k[j] /\ g[i] \in Seq(A) /\ s[j] \in A
    BY <1>2, <1>3, <2>1 DEF Flattens
  <2>3. Range(g[i]) = Upto(i) \ T /\ (IsInjective(s) => IsInjective(g[i]))
    <3>1. Has(i)
      BY <1>5, <2>1
    <3> QED BY <3>1 DEF Has
  <2>4. Upto(j) = Upto(i) \cup {s[j]}
    <3>1. 1..j = 1..i \cup {j}
      BY <2>1
    <3> QED BY <3>1
  <2>5. CASE s[j] \in T
    <3>1. g[j] = g[i]
      <4>1. k[j] = <<>>
        BY <1>2, <2>5
      <4> QED BY <2>2, <4>1, ConcatEmptySeq
    <3> HIDE DEF Upto
    <3> QED BY <2>3, <2>4, <2>5, <3>1 DEF Has
  <2>6. CASE s[j] \notin T
    <3>1. g[j] = Append(g[i], s[j])
      <4>1. k[j] = <<s[j]>>
        BY <1>2, <2>6
      <4> QED BY <2>2, <4>1, AppendIsConcat
    <3>2. Range(g[j]) = Range(g[i]) \cup {s[j]}
      BY <2>2, <3>1, RangeAppend
    <3>3. IsInjective(s) => s[j] \notin Range(g[i])
      <4>1. ASSUME IsInjective(s), NEW l \in 1..i PROVE s[l] # s[j]
        <5>1. l \in 1..n /\ l # j
          BY <1>2, <2>1
        <5> QED BY <1>2, <4>1, <5>1 DEF IsInjective
      <4> QED BY <2>3, <4>1
    <3>4. IsInjective(s) => IsInjective(g[j])
      BY <2>2, <2>3, <3>1, <3>3, AppendKeepsInjective
    <3> HIDE DEF Upto
    <3> QED BY <2>3, <2>4, <2>6, <3>2, <3>4 DEF Has
  <2> QED BY <2>5, <2>6
<1>6. n \in N
  <2> HIDE DEF N
  <2>1. Nat \subseteq N
    BY <1>4, <1>5, Induction
  <2> QED BY <1>2, <2>1
<1>7. Range(s) = Upto(n)
  BY <1>2 DEF Range
<1> HIDE DEF Upto
<1> QED BY <1>1, <1>2, <1>3, <1>6, <1>7

LEMMA RemovedHas ==
  ASSUME NEW A, NEW s \in Seq(A), IsInjective(s), NEW i \in 1..Len(s)
  PROVE  /\ Range(RemoveAt(s, i)) = Range(s) \ {s[i]}
         /\ IsInjective(RemoveAt(s, i))
<1> DEFINE a == SubSeq(s, 1, i - 1)
           c == SubSeq(s, i + 1, Len(s))
           r == a \o c
           n == Len(s)
<1>1. /\ a \in Seq(A) /\ Len(a) = i - 1 /\ \A j \in 1..(i - 1) : a[j] = s[j]
      /\ c \in Seq(A) /\ Len(c) = n - i /\ \A j \in 1..(n - i) : c[j] = s[i + j]
      /\ i \in Nat /\ n \in Nat /\ i >= 1 /\ i <= n
  OBVIOUS
<1>2. /\ DOMAIN s = 1..n
      /\ \A j, k \in 1..n : s[j] = s[k] => j = k
  BY DEF IsInjective
<1> HIDE DEF a, c, n
<1>3. /\ r \in Seq(A) /\ Len(r) = Len(a) + Len(c)
      /\ \A j \in 1..(Len(a) + Len(c)) :
           r[j] = IF j <= Len(a) THEN a[j] ELSE c[j - Len(a)]
  BY <1>1, ConcatProperties
<1> HIDE DEF r
<1>4. Len(r) = n - 1 /\ DOMAIN r = 1..(n - 1)
  BY <1>1, <1>3, LenProperties
<1>5. ASSUME NEW j \in 1..(n - 1) PROVE r[j] = IF j < i THEN s[j] ELSE s[j + 1]
  <2>1. CASE j < i
    BY <1>1, <1>3, <2>1
  <2>2. CASE ~ (j < i)
    <3>1. j - Len(a) \in 1..(n - i) /\ i + (j - Len(a)) = j + 1 /\ ~ (j <= Len(a))
          /\ j \in 1..(Len(a) + Len(c))
      BY <1>1, <2>2
    <3> QED BY <1>1, <1>3, <2>2, <3>1
  <2> QED BY <2>1, <2>2
<1>6. \A j \in 1..n : j = i \/ (j < i /\ j \in 1..(n - 1)) \/ (i < j /\ j - 1 \in 1..(n - 1))
  BY <1>1
<1>7. Range(r) = Range(s) \ {s[i]}
  <2>1. Range(r) \subseteq Range(s) \ {s[i]}
    <3>1. ASSUME NEW j \in 1..(n - 1) PROVE r[j] \in Range(s) \ {s[i]}
      <4>1. j \in 1..n /\ j + 1 \in 1..n /\ i \in 1..n
        BY <1>1
      <4>2. CASE j < i
        <5>1. r[j] = s[j] /\ j # i
          BY <1>1, <1>5, <4>2
        <5> QED BY <1>2, <4>1, <5>1 DEF Range
      <4>3. CASE ~ (j < i)
        <5>1. r[j] = s[j + 1] /\ j + 1 # i
          BY <1>1, <1>5, <4>3
        <5> QED BY <1>2, <4>1, <5>1 DEF Range
      <4> QED BY <4>2, <4>3
    <3> QED BY <1>4, <3>1 DEF Range
  <2>2. ASSUME NEW j \in 1..n, j # i PROVE s[j] \in Range(r)
    <3>1. CASE j < i
      <4>1. j \in 1..(n - 1)
        BY <1>1, <3>1
      <4>2. r[j] = s[j]
        BY <1>5, <3>1, <4>1
      <4> QED BY <1>4, <4>1, <4>2 DEF Range
    <3>2. CASE ~ (j < i)
      <4>1. j - 1 \in 1..(n - 1) /\ r[j - 1] = s[j]
        <5>1. j - 1 \in 1..(n - 1) /\ ~ (j - 1 < i) /\ (j - 1) + 1 = j
          BY <1>1, <2>2, <3>2
        <5> QED BY <1>5, <5>1
      <4> QED BY <1>4, <4>1 DEF Range
    <3> QED BY <3>1, <3>2
  <2> QED BY <1>2, <2>1, <2>2 DEF Range
<1>8. IsInjective(r)
  <2> SUFFICES ASSUME NEW j \in 1..(n - 1), NEW k \in 1..(n - 1), r[j] = r[k] PROVE j = k
    BY <1>4 DEF IsInjective
  <2>1. /\ j \in 1..n /\ k \in 1..n /\ j + 1 \in 1..n /\ k + 1 \in 1..n
    BY <1>1
  <2> QED BY <1>1, <1>2, <1>5, <2>1
<1> QED BY <1>7, <1>8 DEF r, a, c, n, RemoveAt

-----------------------------------------------------------------------------
(* What a state stands for, when the talks are U, C[t] are those that clash   *)
(* with t and a slot has m tracks: R are the talks that remain, K those that  *)
(* may still join the slot that is filled.                                    *)

Filled(st) == FlattenSeq(st.slots) \o st.current_slot

NoClash(C, slot) == \A j \in 1..Len(slot) : \A k \in (j + 1)..Len(slot) : slot[k] \notin C[slot[j]]

Typed(U, st) ==
  /\ st.slots \in Seq(Seq(U)) /\ st.current_slot \in Seq(U)
  /\ st.slot_no \in Nat /\ st.track_no \in Nat
  /\ Len(st.slots) = st.slot_no /\ Len(st.current_slot) = st.track_no

Unclashing(C, m, st) ==
  /\ \A i \in 1..Len(st.slots) : Len(st.slots[i]) = m /\ NoClash(C, st.slots[i])
  /\ NoClash(C, st.current_slot)

Candidates(C, st, R) == {t \in R : \A u \in Range(st.current_slot) : t \notin C[u]}

Fits(U, C, m, st, R, K) ==
  /\ Typed(U, st) /\ Unclashing(C, m, st)
  /\ IsInjective(Filled(st)) /\ R = U \ Range(Filled(st)) /\ K = Candidates(C, st, R)

LEMMA FilledType ==
  ASSUME NEW U, NEW st, Typed(U, st)
  PROVE  FlattenSeq(st.slots) \in Seq(U) /\ Filled(st) \in Seq(U)
<1>1. st.slots \in Seq(Seq(U)) /\ st.current_slot \in Seq(U)
  BY DEF Typed
<1>2. FlattenSeq(st.slots) \in Seq(U)
  BY <1>1, FlattenType
<1> QED BY <1>1, <1>2, ConcatProperties DEF Filled

LEMMA EmptyFacts == Range(<<>>) = {} /\ IsInjective(<<>>) /\ \A C : NoClash(C, <<>>)
BY DEF Range, IsInjective, NoClash

LEMMA FitsFirst ==
  ASSUME NEW U, NEW C, NEW m, NEW st,
         st.slots = <<>>, st.current_slot = <<>>, st.slot_no = 0, st.track_no = 0
  PROVE  Fits(U, C, m, st, U, U)
<1>1. Typed(U, st)
  BY DEF Typed
<1>2. Filled(st) = <<>>
  BY FlattenEmpty DEF Filled
<1>3. Unclashing(C, m, st)
  BY EmptyFacts DEF Unclashing
<1>4. U = Candidates(C, st, U)
  BY EmptyFacts DEF Candidates
<1> QED BY <1>1, <1>2, <1>3, <1>4, EmptyFacts DEF Fits

LEMMA FilledCommitted ==
  ASSUME NEW U, NEW st, Typed(U, st)
  PROVE  Filled(Committed(st)) = Filled(st)
<1> DEFINE next == Committed(st)
<1>1. next.slots = Append(st.slots, st.current_slot) /\ next.current_slot = <<>>
  BY DEF Committed
<1> HIDE DEF next
<1>2. st.slots \in Seq(Seq(U)) /\ st.current_slot \in Seq(U)
  BY DEF Typed
<1>3. FlattenSeq(next.slots) = Filled(st)
  BY <1>1, <1>2, FlattenAppend DEF Filled
<1>4. Filled(st) \in Seq(U)
  BY FilledType
<1>5. Filled(next) = Filled(st) \o <<>>
  BY <1>1, <1>3 DEF Filled
<1>6. Filled(next) = Filled(st)
  BY <1>4, <1>5, ConcatEmptySeq
<1> QED BY <1>6 DEF next

LEMMA FilledSelected ==
  ASSUME NEW U, NEW st, Typed(U, st), NEW t \in U, NEW next,
         next.slots = st.slots, next.current_slot = Append(st.current_slot, t)
  PROVE  Filled(next) = Append(Filled(st), t)
<1> DEFINE c == st.current_slot
<1>1. c \in Seq(U) /\ FlattenSeq(st.slots) \in Seq(U) /\ Filled(st) \in Seq(U)
  BY FilledType DEF Typed
<1>2. Append(c, t) = c \o <<t>> /\ <<t>> \in Seq(U)
  BY <1>1, AppendIsConcat
<1>3. FlattenSeq(st.slots) \o (c \o <<t>>) = (FlattenSeq(st.slots) \o c) \o <<t>>
  <2>1. Associative(U)
    BY ConcatAssoc
  <2> QED BY ONLY <1>1, <1>2, <2>1 DEF Associative
<1>4. Append(Filled(st), t) = Filled(st) \o <<t>>
  BY <1>1, AppendIsConcat
<1> QED BY <1>2, <1>3, <1>4 DEF Filled

LEMMA FitsCommitted ==
  ASSUME NEW U, NEW C, NEW m, NEW st, NEW R, NEW K, Fits(U, C, m, st, R, K),
         st.track_no = m
  PROVE  Fits(U, C, m, Committed(st), R, R)
<1> DEFINE next == Committed(st)
<1>1. /\ next.slots = Append(st.slots, st.current_slot) /\ next.current_slot = <<>>
      /\ next.slot_no = st.slot_no + 1 /\ next.track_no = 0
  BY DEF Committed
<1> HIDE DEF next
<1>2. Typed(U, st) /\ Unclashing(C, m, st) /\ R = U \ Range(Filled(st))
      /\ IsInjective(Filled(st))
  BY DEF Fits
<1>3. /\ st.slots \in Seq(Seq(U)) /\ st.current_slot \in Seq(U)
      /\ st.slot_no \in Nat /\ st.track_no \in Nat
      /\ Len(st.slots) = st.slot_no /\ Len(st.current_slot) = st.track_no
  BY <1>2 DEF Typed
<1> DEFINE V == Seq(U)
<1>4. <<>> \in V
  OBVIOUS
<1> HIDE DEF V
<1>5. /\ Append(st.slots, st.current_slot) \in Seq(V)
      /\ Len(Append(st.slots, st.current_slot)) = Len(st.slots) + 1
      /\ \A i \in 1..Len(st.slots) : Append(st.slots, st.current_slot)[i] = st.slots[i]
      /\ Append(st.slots, st.current_slot)[Len(st.slots) + 1] = st.current_slot
  BY <1>3, AppendProperties DEF V
<1>6. Typed(U, next)
  BY <1>1, <1>3, <1>4, <1>5 DEF Typed, V
<1>7. Filled(next) = Filled(st)
  BY <1>2, FilledCommitted DEF next
<1>8. Unclashing(C, m, next)
  <2>1. ASSUME NEW i \in 1..Len(next.slots)
        PROVE  Len(next.slots[i]) = m /\ NoClash(C, next.slots[i])
    <3>1. i \in 1..Len(st.slots) \/ i = Len(st.slots) + 1
      BY <1>1, <1>3, <1>5
    <3> QED BY <1>1, <1>2, <1>3, <1>5, <3>1 DEF Unclashing
  <2> QED BY <1>1, <2>1, EmptyFacts DEF Unclashing
<1>9. R = Candidates(C, next, R)
  BY <1>1, EmptyFacts DEF Candidates
<1> QED BY <1>2, <1>6, <1>7, <1>8, <1>9 DEF Fits, next

LEMMA FitsSelected ==
  ASSUME NEW U, NEW C, NEW m, NEW st, NEW R, NEW K, Fits(U, C, m, st, R, K), NEW t \in K,
         NEW next,
         next.slots = st.slots, next.current_slot = Append(st.current_slot, t),
         next.slot_no = st.slot_no, next.track_no = st.track_no + 1
  PROVE  Fits(U, C, m, next, R \ {t}, (K \ {t}) \ C[t])
<1>1. /\ Typed(U, st) /\ Unclashing(C, m, st) /\ R = U \ Range(Filled(st))
      /\ IsInjective(Filled(st)) /\ K = Candidates(C, st, R)
  BY DEF Fits
<1>2. /\ st.slots \in Seq(Seq(U)) /\ st.current_slot \in Seq(U)
      /\ st.slot_no \in Nat /\ st.track_no \in Nat
      /\ Len(st.slots) = st.slot_no /\ Len(st.current_slot) = st.track_no
      /\ FlattenSeq(st.slots) \in Seq(U) /\ Filled(st) \in Seq(U)
  BY <1>1, FilledType DEF Typed
<1>3. t \in U /\ t \notin Range(Filled(st)) /\ \A u \in Range(st.current_slot) : t \notin C[u]
  BY <1>1 DEF Candidates
<1> DEFINE c == st.current_slot
           d == next.current_slot
<1>4. /\ d \in Seq(U) /\ Len(d) = Len(c) + 1 /\ Len(c) \in Nat
      /\ \A i \in 1..Len(c) : d[i] = c[i]
      /\ d[Len(c) + 1] = t /\ Range(d) = Range(c) \cup {t}
  BY <1>2, <1>3, AppendProperties, RangeAppend
<1>5. Typed(U, next)
  BY <1>2, <1>4 DEF Typed
<1>6. Filled(next) = Append(Filled(st), t)
  BY <1>1, <1>3, FilledSelected
<1>7. IsInjective(Filled(next)) /\ Range(Filled(next)) = Range(Filled(st)) \cup {t}
  BY <1>1, <1>2, <1>3, <1>6, RangeAppend, AppendKeepsInjective
<1>8. R \ {t} = U \ Range(Filled(next))
  BY <1>1, <1>7
<1>9. (K \ {t}) \ C[t] = Candidates(C, next, R \ {t})
  BY <1>1, <1>4 DEF Candidates
<1>10. NoClash(C, d)
  <2> SUFFICES ASSUME NEW j \in 1..Len(d), NEW k \in (j + 1)..Len(d)
               PROVE  d[k] \notin C[d[j]]
    BY DEF NoClash
  <2>1. j \in 1..Len(c) /\ d[j] = c[j] /\ (k = Len(c) + 1 \/ k \in (j + 1)..Len(c))
    BY <1>4
  <2>2. CASE k = Len(c) + 1
    <3>1. c[j] \in Range(c)
      BY <1>2, <2>1, LenProperties DEF Range
    <3> QED BY <1>3, <1>4, <2>1, <2>2, <3>1
  <2>3. CASE k \in (j + 1)..Len(c)
    <3>1. d[k] = c[k]
      BY <1>4, <2>1, <2>3
    <3>2. NoClash(C, c)
      BY <1>1 DEF Unclashing
    <3> QED BY <2>1, <2>3, <3>1, <3>2 DEF NoClash
  <2> QED BY <2>1, <2>2, <2>3
<1>11. Unclashing(C, m, next)
  BY <1>1, <1>10 DEF Unclashing
<1> QED BY <1>5, <1>7, <1>8, <1>9, <1>11 DEF Fits

(* The vector solver's states.                                                *)

ClashTable(pb) == [t \in Range(pb.talks) |-> Clashes(pb, t)]

VectorFits(pb, st) ==
  /\ IsInjective(st.slot_candidates) /\ IsInjective(st.remaining_talks)
  /\ Fits(Range(pb.talks), ClashTable(pb), pb.tracks, st,
          Range(st.remaining_talks), Range(st.slot_candidates))

LEMMA StartFits ==
  ASSUME NEW pb, Conference(pb)
  PROVE  VectorFits(pb, Start(pb))
<1> DEFINE st == Start(pb)
<1>1. /\ st.slots = <<>> /\ st.current_slot = <<>> /\ st.slot_no = 0 /\ st.track_no = 0
      /\ st.slot_candidates = pb.talks /\ st.remaining_talks = pb.talks
  BY DEF Start
<1>2. IsInjective(pb.talks)
  BY DEF Conference
<1> HIDE DEF st
<1>3. Fits(Range(pb.talks), ClashTable(pb), pb.tracks, st, Range(pb.talks), Range(pb.talks))
  BY <1>1, FitsFirst
<1>4. VectorFits(pb, st)
  BY <1>1, <1>2, <1>3 DEF VectorFits
<1> QED BY <1>4 DEF st

SelectedHas(pb, st, i, talk, next) ==
  /\ next.slots = st.slots /\ next.current_slot = Append(st.current_slot, talk)
  /\ next.slot_no = st.slot_no /\ next.track_no = st.track_no + 1
  /\ next.slot_candidates = Without(RemoveAt(st.slot_candidates, i), Clashes(pb, talk))
  /\ next.remaining_talks = Without(st.remaining_talks, {talk})

LEMMA SelectedIs ==
  ASSUME NEW pb, NEW st, IsRecord(st), NEW i, NEW talk, talk = st.slot_candidates[i],
         NEW next, next = Selected(pb, st, i)
  PROVE  SelectedHas(pb, st, i, talk, next)
<1> DEFINE candidates == Without(RemoveAt(st.slot_candidates, i), Clashes(pb, talk))
           remaining == Without(st.remaining_talks, {talk})
<1>1. next = [st EXCEPT !.track_no = @ + 1, !.current_slot = Append(@, talk),
                        !.slot_candidates = candidates, !.remaining_talks = remaining]
  BY DEF Selected
<1>2. st = [slot_no |-> st.slot_no, track_no |-> st.track_no, slots |-> st.slots,
            current_slot |-> st.current_slot, slot_candidates |-> st.slot_candidates,
            remaining_talks |-> st.remaining_talks]
  BY DEF IsRecord
<1> HIDE DEF candidates, remaining
<1>3. next = [slot_no |-> st.slot_no, track_no |-> st.track_no + 1, slots |-> st.slots,
              current_slot |-> Append(st.current_slot, talk), slot_candidates |-> candidates,
              remaining_talks |-> remaining]
  BY ONLY <1>1, <1>2
<1> QED BY <1>3 DEF candidates, remaining, SelectedHas

LEMMA RefineFits ==
  ASSUME NEW pb, Conference(pb), NEW st \in State(pb), ~ Finished(pb, st),
         VectorFits(pb, st), NEW i \in DOMAIN Refine(pb, st)
  PROVE  VectorFits(pb, Refine(pb, st)[i])
<1> DEFINE U == Range(pb.talks)
           C == ClashTable(pb)
           R == Range(st.remaining_talks)
           K == Range(st.slot_candidates)
<1>1. /\ IsInjective(st.slot_candidates) /\ IsInjective(st.remaining_talks)
      /\ Fits(U, C, pb.tracks, st, R, K)
  BY DEF VectorFits
<1>2. CASE st.track_no = pb.tracks
  <2> DEFINE next == Committed(st)
  <2>1. next.slot_candidates = st.remaining_talks /\ next.remaining_talks = st.remaining_talks
    BY DEF Committed
  <2> HIDE DEF next, U, C, R, K
  <2>2. Fits(U, C, pb.tracks, next, R, R)
    BY <1>1, <1>2, FitsCommitted DEF next
  <2>3. VectorFits(pb, next)
    BY <1>1, <2>1, <2>2 DEF VectorFits, U, C, R
  <2>4. Refine(pb, st) = <<next>>
    BY <1>2 DEF Refine, next
  <2> QED BY <2>3, <2>4
<1>3. CASE st.track_no # pb.tracks
  <2> DEFINE next == Selected(pb, st, i)
             talk == st.slot_candidates[i]
             rest == RemoveAt(st.slot_candidates, i)
  <2>1. i \in DOMAIN st.slot_candidates /\ Refine(pb, st)[i] = next
    BY <1>3 DEF Refine
  <2>2. st.slot_candidates \in Seq(U) /\ st.remaining_talks \in Seq(U) /\ IsRecord(st)
    BY DEF State, IsRecord
  <2>3. /\ next.slots = st.slots /\ next.current_slot = Append(st.current_slot, talk)
        /\ next.slot_no = st.slot_no /\ next.track_no = st.track_no + 1
        /\ next.slot_candidates = Without(rest, Clashes(pb, talk))
        /\ next.remaining_talks = Without(st.remaining_talks, {talk})
    <3>1. talk = st.slot_candidates[i] /\ next = Selected(pb, st, i)
      OBVIOUS
    <3> HIDE DEF talk, next
    <3>2. SelectedHas(pb, st, i, talk, next)
      BY <2>2, <3>1, SelectedIs
    <3> QED BY <3>2 DEF SelectedHas, rest
  <2>4. i \in 1..Len(st.slot_candidates) /\ talk \in K /\ talk \in U
    BY <2>1, <2>2, LenProperties, ElementOfSeq DEF Range
  <2>5. /\ rest \in Seq(U) /\ Range(rest) = K \ {talk} /\ IsInjective(rest)
    BY <1>1, <2>2, <2>4, RemovedType, RemovedHas
  <2>6. C[talk] = Clashes(pb, talk)
    BY <2>4 DEF ClashTable
  <2> HIDE DEF next, U, C, R, K, rest, talk
  <2>7. /\ Range(next.slot_candidates) = (K \ {talk}) \ C[talk]
        /\ IsInjective(next.slot_candidates)
    BY <2>3, <2>5, <2>6, WithoutHas
  <2>8. /\ Range(next.remaining_talks) = R \ {talk}
        /\ IsInjective(next.remaining_talks)
    BY <1>1, <2>2, <2>3, WithoutHas DEF R
  <2>9. Fits(U, C, pb.tracks, next, R \ {talk}, (K \ {talk}) \ C[talk])
    BY <1>1, <2>3, <2>4, FitsSelected
  <2>10. VectorFits(pb, next)
    BY <2>7, <2>8, <2>9 DEF VectorFits, U, C
  <2> QED BY <2>1, <2>10
<1> QED BY <1>2, <1>3

-----------------------------------------------------------------------------
(* Powers of two, and the masks made of them.                                 *)

Doubling(g, n) == g[0] = 1 /\ \A i \in 1..n : g[i] = 2 * g[i - 1]

LEMMA Exp2Exists ==
  ASSUME NEW n \in Nat
  PROVE  \E g \in [0..n -> Nat] : Doubling(g, n)
<1> DEFINE N == {k \in Nat : \E g \in [0..k -> Nat] : Doubling(g, k)}
<1>1. 0 \in N
  <2>1. [i \in 0..0 |-> 1] \in [0..0 -> Nat] /\ Doubling([i \in 0..0 |-> 1], 0)
    BY DEF Doubling
  <2> QED BY <2>1
<1>2. ASSUME NEW k \in Nat, k \in N PROVE k + 1 \in N
  <2>1. PICK g \in [0..k -> Nat] : Doubling(g, k)
    BY <1>2
  <2> DEFINE h == [i \in 0..(k + 1) |-> IF i = k + 1 THEN 2 * g[k] ELSE g[i]]
  <2>2. g[0] = 1 /\ (\A i \in 1..k : g[i] = 2 * g[i - 1]) /\ g[k] \in Nat
    BY <2>1 DEF Doubling
  <2>3. h \in [0..(k + 1) -> Nat]
    <3>1. \A i \in 0..(k + 1) : i = k + 1 \/ i \in 0..k
      OBVIOUS
    <3> QED BY <2>1, <2>2, <3>1
  <2>4. Doubling(h, k + 1)
    <3>1. h[0] = 1
      BY <2>2
    <3>2. ASSUME NEW i \in 1..(k + 1) PROVE h[i] = 2 * h[i - 1]
      <4>1. (i = k + 1 \/ i \in 1..k) /\ i \in 0..(k + 1) /\ i - 1 \in 0..(k + 1) /\ i - 1 # k + 1
        OBVIOUS
      <4>2. h[i - 1] = g[i - 1]
        BY <4>1
      <4>3. CASE i = k + 1
        BY <4>1, <4>2, <4>3
      <4>4. CASE i \in 1..k
        <5>1. h[i] = g[i]
          BY <4>1, <4>4
        <5> QED BY <2>2, <4>2, <4>4, <5>1
      <4> QED BY <4>1, <4>3, <4>4
    <3> HIDE DEF h
    <3> QED BY <3>1, <3>2 DEF Doubling
  <2> HIDE DEF h
  <2> QED BY <2>3, <2>4
<1>3. n \in N
  <2> HIDE DEF N
  <2> QED BY <1>1, <1>2, Induction
<1> QED BY <1>3

LEMMA Exp2Is ==
  ASSUME NEW n \in Nat, NEW g \in [0..n -> Nat], Doubling(g, n)
  PROVE  Exp2(n) = g[n]
<1> DEFINE F == CHOOSE f : f = [k \in 0..n |-> IF k = 0 THEN 1 ELSE 2 * f[k - 1]]
<1>1. Exp2(n) = F[n]
  BY DEF Exp2
<1>2. \A k \in 0..n : g[k] = IF k = 0 THEN 1 ELSE 2 * g[k - 1]
  BY DEF Doubling
<1>3. g = [k \in 0..n |-> IF k = 0 THEN 1 ELSE 2 * g[k - 1]]
  BY <1>2
<1>4. F = [k \in 0..n |-> IF k = 0 THEN 1 ELSE 2 * F[k - 1]]
  BY <1>3
<1> HIDE DEF F
<1>5. \A k \in 0..n : F[k] = IF k = 0 THEN 1 ELSE 2 * F[k - 1]
  BY <1>4
<1> DEFINE N == {k \in Nat : k <= n => F[k] = g[k]}
<1>6. 0 \in N
  BY <1>2, <1>5
<1>7. ASSUME NEW k \in Nat, k \in N PROVE k + 1 \in N
  <2> SUFFICES ASSUME NEW j \in 0..n, j = k + 1 PROVE F[j] = g[j]
    OBVIOUS
  <2>1. j # 0 /\ j - 1 = k /\ k <= n
    OBVIOUS
  <2>2. F[k] = g[k]
    BY <1>7, <2>1
  <2> QED BY <1>2, <1>5, <2>1, <2>2
<1>8. n \in N
  <2> HIDE DEF N
  <2> QED BY <1>6, <1>7, Induction
<1> QED BY <1>1, <1>8

LEMMA Exp2Doubles ==
  /\ Exp2(0) = 1
  /\ \A n \in Nat : Exp2(n) \in Nat /\ Exp2(n + 1) = 2 * Exp2(n)
<1>1. Exp2(0) = 1
  <2>1. PICK g \in [0..0 -> Nat] : Doubling(g, 0)
    BY Exp2Exists
  <2>2. Exp2(0) = g[0]
    BY <2>1, Exp2Is
  <2> QED BY <2>1, <2>2 DEF Doubling
<1>2. ASSUME NEW n \in Nat PROVE Exp2(n) \in Nat /\ Exp2(n + 1) = 2 * Exp2(n)
  <2>1. n + 1 \in Nat
    OBVIOUS
  <2>2. PICK g \in [0..(n + 1) -> Nat] : Doubling(g, n + 1)
    BY <2>1, Exp2Exists
  <2> DEFINE h == [i \in 0..n |-> g[i]]
  <2>3. h \in [0..n -> Nat] /\ \A i \in 0..n : h[i] = g[i]
    OBVIOUS
  <2> HIDE DEF h
  <2>4. Doubling(h, n)
    BY <2>2, <2>3 DEF Doubling
  <2>5. Exp2(n) = h[n] /\ Exp2(n + 1) = g[n + 1]
    BY <2>1, <2>2, <2>3, <2>4, Exp2Is
  <2>6. g[n + 1] = 2 * g[(n + 1) - 1] /\ (n + 1) - 1 = n
    BY <2>2 DEF Doubling
  <2> QED BY <2>3, <2>5, <2>6
<1> QED BY <1>1, <1>2

LEMMA Exp2Positive ==
  ASSUME NEW n \in Nat
  PROVE  Exp2(n) \in Nat \ {0}
<1> DEFINE N == {k \in Nat : Exp2(k) \in Nat \ {0}}
<1>1. 0 \in N
  BY Exp2Doubles
<1>2. ASSUME NEW k \in Nat, k \in N PROVE k + 1 \in N
  BY <1>2, Exp2Doubles
<1>3. n \in N
  <2> HIDE DEF N
  <2> QED BY <1>1, <1>2, Induction
<1> QED BY <1>3

(* A higher power is an even multiple of a lower one.                         *)
LEMMA Exp2Multiple ==
  ASSUME NEW i \in Nat, NEW n \in Nat, i < n
  PROVE  \E r \in Nat \ {0} : Exp2(n) = (2 * r) * Exp2(i)
<1> DEFINE e == Exp2(i)
           Even(k) == \E r \in Nat \ {0} : Exp2(k) = (2 * r) * e
           N == {k \in Nat : i < k => Even(k)}
<1>1. e \in Nat
  BY Exp2Doubles
<1>2. 0 \in N
  OBVIOUS
<1>3. ASSUME NEW k \in Nat, k \in N PROVE k + 1 \in N
  <2> SUFFICES ASSUME i < k + 1 PROVE Even(k + 1)
    OBVIOUS
  <2>1. Exp2(k + 1) = 2 * Exp2(k)
    BY Exp2Doubles
  <2>2. CASE i = k
    <3>1. Exp2(k + 1) = (2 * 1) * e
      BY <2>1, <2>2
    <3> QED BY <3>1
  <2>3. CASE i # k
    <3>1. i < k
      BY <2>3
    <3>2. PICK r \in Nat \ {0} : Exp2(k) = (2 * r) * e
      BY <1>3, <3>1
    <3> HIDE DEF e
    <3>3. 2 * ((2 * r) * e) = (2 * (2 * r)) * e
      BY <1>1
    <3>4. 2 * r \in Nat \ {0}
      OBVIOUS
    <3>5. Exp2(k + 1) = (2 * (2 * r)) * e
      BY <2>1, <3>2, <3>3
    <3> QED BY <3>4, <3>5
  <2> QED BY <2>2, <2>3
<1>4. n \in N
  <2> HIDE DEF N
  <2> QED BY <1>2, <1>3, Induction
<1> QED BY <1>4

LEMMA Quotient ==
  ASSUME NEW q \in Nat, NEW d \in Nat \ {0}, NEW r \in 0..(d - 1)
  PROVE  (q * d + r) \div d = q
OBVIOUS

(* The low n bits, and no others, are one in 2^n - 1.                         *)
LEMMA LowBits ==
  ASSUME NEW n \in Nat, NEW i \in Nat
  PROVE  (((Exp2(n) - 1) \div Exp2(i)) % 2 = 1) <=> i < n
<1> DEFINE e == Exp2(i)
           E == Exp2(n)
<1>1. e \in Nat \ {0} /\ E \in Nat \ {0}
  BY Exp2Positive
<1>2. CASE i < n
  <2>1. PICK r \in Nat \ {0} : E = (2 * r) * e
    BY <1>2, Exp2Multiple
  <2> HIDE DEF e, E
  <2>2. E - 1 = (2 * r - 1) * e + (e - 1)
    BY <1>1, <2>1
  <2>3. 2 * r - 1 \in Nat /\ e - 1 \in 0..(e - 1)
    BY <1>1
  <2>4. (E - 1) \div e = 2 * r - 1
    BY <1>1, <2>2, <2>3, Quotient
  <2>5. (2 * r - 1) % 2 = 1
    OBVIOUS
  <2>6. ((E - 1) \div e) % 2 = 1
    BY <2>4, <2>5
  <2> QED BY <1>2, <2>6 DEF e, E
<1>3. CASE ~ (i < n)
  <2>1. E <= e
    <3>1. CASE i = n
      BY <1>1, <3>1
    <3>2. CASE i # n
      <4>1. n < i
        BY <1>3, <3>2
      <4>2. PICK r \in Nat \ {0} : e = (2 * r) * E
        BY <4>1, Exp2Multiple
      <4> HIDE DEF e, E
      <4>3. (2 * r - 1) * E \in Nat
        <5>1. 2 * r - 1 \in Nat
          OBVIOUS
        <5> QED BY <1>1, <5>1, Product
      <4>4. (2 * r) * E = (2 * r - 1) * E + E
        BY <1>1
      <4> QED BY <1>1, <4>2, <4>3, <4>4
    <3> QED BY <3>1, <3>2
  <2> HIDE DEF e, E
  <2>2. E - 1 = 0 * e + (E - 1) /\ E - 1 \in 0..(e - 1)
    BY <1>1, <2>1
  <2>3. (E - 1) \div e = 0
    BY <1>1, <2>2, Quotient
  <2>4. ((E - 1) \div e) % 2 # 1
    BY <2>3
  <2> QED BY <1>3, <2>4 DEF e, E
<1> QED BY <1>2, <1>3

(* The bitmask solver's states.                                               *)

Indexes(pb) == 0..(Len(pb.talks) - 1)

MaskTable(pb) == [i \in Indexes(pb) |-> ClashMask(pb, i)]

BitFits(pb, st) ==
  Fits(Indexes(pb), MaskTable(pb), pb.tracks, st, st.remaining_talks, st.slot_candidates)

LEMMA AllTalksAreIndexes ==
  ASSUME NEW pb, Conference(pb), Len(pb.talks) <= Width
  PROVE  AllTalksMask(pb) = Indexes(pb) /\ Indexes(pb) \subseteq Bits
<1> DEFINE n == Len(pb.talks)
<1>1. n \in Nat /\ Width \in Nat /\ n <= Width
  BY WidthAssumption, LenProperties DEF Conference
<1>2. Indexes(pb) = 0..(n - 1) /\ Bits = 0..(Width - 1)
  BY DEF Indexes, Bits
<1>3. CASE n = Width
  BY <1>1, <1>2, <1>3 DEF AllTalksMask
<1>4. CASE n # Width
  <2>1. AllTalksMask(pb) = Mask(Shl1(n) - 1)
    BY <1>4 DEF AllTalksMask
  <2> HIDE DEF n
  <2>2. n % Width = n
    BY <1>1, <1>4
  <2>3. Mask(Shl1(n) - 1) = {i \in Bits : ((Exp2(n) - 1) \div Exp2(i)) % 2 = 1}
    BY <2>2 DEF Mask, Shl1
  <2>4. \A i \in Bits : i \in Nat /\ ((((Exp2(n) - 1) \div Exp2(i)) % 2 = 1) <=> i < n)
    BY <1>1, <1>2, LowBits
  <2>5. {i \in Bits : i < n} = 0..(n - 1)
    BY <1>1, <1>2
  <2> QED BY <1>1, <1>2, <2>1, <2>3, <2>4, <2>5
<1> QED BY <1>3, <1>4

LEMMA AscendingHas ==
  ASSUME NEW mask \in SUBSET Bits
  PROVE  Range(Ascending(mask)) = mask /\ IsInjective(Ascending(mask))
<1> DEFINE all == [i \in 1..Width |-> i - 1]
<1>1. Width \in Nat /\ Bits = 0..(Width - 1)
  BY WidthAssumption DEF Bits
<1>2. all \in Seq(Bits)
  BY <1>1
<1>3. Range(all) = Bits
  <2>1. \A b \in Bits : b + 1 \in 1..Width /\ (b + 1) - 1 = b
    BY <1>1
  <2>2. \A b \in Bits : all[b + 1] = b
    BY <2>1
  <2>3. \A i \in 1..Width : all[i] \in Bits
    BY <1>1
  <2>4. DOMAIN all = 1..Width
    OBVIOUS
  <2> HIDE DEF all
  <2> QED BY <2>1, <2>2, <2>3, <2>4 DEF Range
<1>4. IsInjective(all)
  BY <1>1 DEF IsInjective
<1> HIDE DEF all
<1>5. /\ Range(Without(all, Bits \ mask)) = Range(all) \ (Bits \ mask)
      /\ IsInjective(Without(all, Bits \ mask))
  BY <1>2, <1>4, WithoutHas
<1>6. Ascending(mask) = Without(all, Bits \ mask)
  BY DEF Ascending, all
<1> QED BY <1>3, <1>5, <1>6

LEMMA BitStartFits ==
  ASSUME NEW pb, Conference(pb), Len(pb.talks) <= Width
  PROVE  BitFits(pb, BitStart(pb))
<1> DEFINE st == BitStart(pb)
<1>1. /\ st.slots = <<>> /\ st.current_slot = <<>> /\ st.slot_no = 0 /\ st.track_no = 0
      /\ st.slot_candidates = Indexes(pb) /\ st.remaining_talks = Indexes(pb)
  BY AllTalksAreIndexes DEF BitStart
<1> HIDE DEF st
<1>2. BitFits(pb, st)
  BY <1>1, FitsFirst DEF BitFits
<1> QED BY <1>2 DEF st

LEMMA ExpandFits ==
  ASSUME NEW pb, Conference(pb), Len(pb.talks) <= Width,
         NEW st \in BitState(pb), ~ Finished(pb, st),
         BitFits(pb, st), NEW i \in DOMAIN ExpandBranches(pb, st)
  PROVE  BitFits(pb, ExpandBranches(pb, st)[i])
<1> DEFINE U == Indexes(pb)
           C == MaskTable(pb)
           R == st.remaining_talks
           K == st.slot_candidates
<1>1. Fits(U, C, pb.tracks, st, R, K) /\ IsRecord(st) /\ K \in SUBSET Bits
  BY DEF BitFits, BitState, IsRecord
<1>2. CASE st.track_no = pb.tracks
  <2> DEFINE next == Committed(st)
  <2>1. next.slot_candidates = R /\ next.remaining_talks = R
    BY DEF Committed
  <2>2. ExpandBranches(pb, st) = <<next>>
    BY <1>2 DEF ExpandBranches
  <2> HIDE DEF next, U, C, R, K
  <2>3. Fits(U, C, pb.tracks, next, R, R)
    BY <1>1, <1>2, FitsCommitted DEF next
  <2>4. BitFits(pb, next)
    BY <2>1, <2>3 DEF BitFits, U, C
  <2> QED BY <2>2, <2>4
<1>3. CASE st.track_no # pb.tracks
  <2> DEFINE candidates == Ascending(K)
             idx == candidates[i]
             next == BitSelected(pb, st, idx)
  <2>1. i \in DOMAIN candidates /\ ExpandBranches(pb, st)[i] = next
    BY <1>3 DEF ExpandBranches
  <2>2. idx \in K
    BY <1>1, <2>1, AscendingHas DEF Range
  <2>3. next = [slot_no |-> st.slot_no, track_no |-> st.track_no + 1, slots |-> st.slots,
                current_slot |-> Append(st.current_slot, idx),
                slot_candidates |-> (st.slot_candidates \ {idx}) \ ClashMask(pb, idx),
                remaining_talks |-> st.remaining_talks \ {idx}]
    <3> HIDE DEF idx
    <3> QED BY <1>1, BitSelectedIs
  <2>4. C[idx] = ClashMask(pb, idx)
    <3>1. idx \in U
      BY <1>1, <2>2 DEF Fits, Candidates
    <3> QED BY <3>1 DEF MaskTable
  <2> HIDE DEF next, idx, candidates
  <2>5. /\ next.slots = st.slots /\ next.current_slot = Append(st.current_slot, idx)
        /\ next.slot_no = st.slot_no /\ next.track_no = st.track_no + 1
        /\ next.slot_candidates = (K \ {idx}) \ C[idx] /\ next.remaining_talks = R \ {idx}
    BY <2>3, <2>4
  <2> HIDE DEF U, C, R, K
  <2>6. Fits(U, C, pb.tracks, next, R \ {idx}, (K \ {idx}) \ C[idx])
    BY <1>1, <2>2, <2>5, FitsSelected
  <2>7. BitFits(pb, next)
    BY <2>5, <2>6 DEF BitFits, U, C
  <2> QED BY <2>1, <2>7
<1> QED BY <1>2, <1>3

(* Talks and their positions.                                                 *)
LEMMA PositionIs ==
  ASSUME NEW pb, Conference(pb), NEW i \in 1..Len(pb.talks)
  PROVE  Position(pb, pb.talks[i]) = i - 1
<1> DEFINE I == {j \in 1..Len(pb.talks) : pb.talks[j] = pb.talks[i]}
           Least == CHOOSE x \in I : \A y \in I : x =< y
<1>1. DOMAIN pb.talks = 1..Len(pb.talks) /\ IsInjective(pb.talks)
  BY LenProperties DEF Conference
<1>2. I = {i}
  BY <1>1 DEF IsInjective
<1>3. Position(pb, pb.talks[i]) = (IF I # {} THEN Least ELSE 0) - 1
  BY DEF Position, SelectInSeq, Min
<1> HIDE DEF I
<1>4. Least = i
  BY <1>2
<1> HIDE DEF Least
<1> QED BY <1>2, <1>3, <1>4

LEMMA TalkAt ==
  ASSUME NEW pb, Conference(pb)
  PROVE  /\ \A i \in Indexes(pb) : /\ i + 1 \in 1..Len(pb.talks)
                                   /\ pb.talks[i + 1] \in Range(pb.talks)
                                   /\ Position(pb, pb.talks[i + 1]) = i
         /\ \A t \in Range(pb.talks) : /\ Position(pb, t) \in Indexes(pb)
                                       /\ pb.talks[Position(pb, t) + 1] = t
<1>1. DOMAIN pb.talks = 1..Len(pb.talks) /\ Len(pb.talks) \in Nat
  BY LenProperties DEF Conference
<1>2. ASSUME NEW i \in Indexes(pb)
      PROVE  /\ i + 1 \in 1..Len(pb.talks) /\ pb.talks[i + 1] \in Range(pb.talks)
             /\ Position(pb, pb.talks[i + 1]) = i
  <2>1. i + 1 \in 1..Len(pb.talks) /\ i \in Nat
    BY <1>1 DEF Indexes
  <2>2. Position(pb, pb.talks[i + 1]) = (i + 1) - 1
    BY <2>1, PositionIs
  <2>3. pb.talks[i + 1] \in Range(pb.talks)
    BY <1>1, <2>1 DEF Range
  <2> QED BY <2>1, <2>2, <2>3
<1>3. ASSUME NEW t \in Range(pb.talks)
      PROVE  Position(pb, t) \in Indexes(pb) /\ pb.talks[Position(pb, t) + 1] = t
  <2>1. PICK i \in 1..Len(pb.talks) : pb.talks[i] = t
    BY <1>1 DEF Range
  <2>2. Position(pb, t) = i - 1
    BY <2>1, PositionIs
  <2> QED BY <1>1, <2>1, <2>2 DEF Indexes
<1> QED BY <1>2, <1>3

LEMMA ClashMaskIs ==
  ASSUME NEW pb, Conference(pb), NEW i \in Indexes(pb), NEW j \in Indexes(pb)
  PROVE  j \in ClashMask(pb, i) <=> pb.talks[j + 1] \in Clashes(pb, pb.talks[i + 1])
<1> DEFINE a == pb.talks[i + 1]
           b == pb.talks[j + 1]
           Wishes(p) == Range(pb.people[p])
<1>1. \A p \in DOMAIN pb.people : Wishes(p) \subseteq Range(pb.talks)
  <2>1. pb.people \in Seq(Seq(Range(pb.talks)))
    BY DEF Conference
  <2>2. \A p \in DOMAIN pb.people : pb.people[p] \in Seq(Range(pb.talks))
    BY <2>1
  <2> QED BY <2>2, RangeOfSeq
<1>2. /\ Position(pb, a) = i /\ Position(pb, b) = j
      /\ \A t \in Range(pb.talks) : pb.talks[Position(pb, t) + 1] = t
  BY TalkAt
<1>3. \A p \in DOMAIN pb.people : \A t \in Wishes(p) :
        (Position(pb, t) = i <=> t = a) /\ (Position(pb, t) = j <=> t = b)
  BY <1>1, <1>2
<1>4. i = j <=> a = b
  BY <1>2
<1>5. j \in ClashMask(pb, i) <=>
        j # i /\ \E p \in DOMAIN pb.people : a \in Wishes(p) /\ b \in Wishes(p)
  <2>1. j \in ClashMask(pb, i) <=>
          j # i /\ \E p \in DOMAIN pb.people :
                     /\ \E u \in Wishes(p) : Position(pb, u) = i
                     /\ \E t \in Wishes(p) : Position(pb, t) = j
    BY DEF ClashMask
  <2> HIDE DEF Wishes, a, b
  <2> QED BY <1>2, <1>3, <2>1
<1>6. b \in Clashes(pb, a) <=>
        b # a /\ \E p \in DOMAIN pb.people : a \in Wishes(p) /\ b \in Wishes(p)
  <2> DEFINE S == {p \in DOMAIN pb.people : a \in Wishes(p)}
  <2> HIDE DEF a, b
  <2>1. Clashes(pb, a) = (UNION {Wishes(p) : p \in S}) \ {a}
    BY DEF Clashes
  <2> HIDE DEF Wishes
  <2> QED BY <2>1
<1> QED BY <1>4, <1>5, <1>6

-----------------------------------------------------------------------------
(* The talks of a state, named: h gives the talk of each member of U, T are   *)
(* the talks, D[t] are those that clash with t, P are the talks placed.       *)

Image(h, X) == {h[u] : u \in X}

LastOf(P, k) == Range(SubSeq(P, Len(P) - k + 1, Len(P)))

Names(U, C, T, D, h) ==
  /\ h \in [U -> T] /\ Image(h, U) = T
  /\ \A u, v \in U : /\ h[u] = h[v] => u = v
                     /\ v \in C[u] <=> h[v] \in D[h[u]]

IsPlaced(T, h, st, P) ==
  /\ P \in Seq(T) /\ Len(P) = Len(Filled(st))
  /\ \A i \in 1..Len(P) : P[i] = h[Filled(st)[i]]

ExactNamed(T, D, h, st, P, R, K) ==
  /\ IsInjective(P) /\ Len(st.slots) = st.slot_no /\ Len(st.current_slot) = st.track_no
  /\ Image(h, R) = T \ Range(P)
  /\ Image(h, K) = {t \in Image(h, R) : \A v \in LastOf(P, Len(st.current_slot)) : t \notin D[v]}

LEMMA FilledEnds ==
  ASSUME NEW U, NEW st, Typed(U, st)
  PROVE  /\ Len(Filled(st)) \in Nat /\ Len(st.current_slot) \in Nat
         /\ Len(st.current_slot) <= Len(Filled(st))
         /\ \A i \in 1..Len(st.current_slot) :
              Filled(st)[Len(Filled(st)) - Len(st.current_slot) + i] = st.current_slot[i]
<1> DEFINE a == FlattenSeq(st.slots)
           c == st.current_slot
           f == Filled(st)
<1>1. a \in Seq(U) /\ c \in Seq(U) /\ f = a \o c
  BY FilledType DEF Typed, Filled
<1> HIDE DEF a, c, f
<1>2. /\ Len(f) = Len(a) + Len(c) /\ Len(a) \in Nat /\ Len(c) \in Nat
      /\ \A i \in 1..(Len(a) + Len(c)) : f[i] = IF i <= Len(a) THEN a[i] ELSE c[i - Len(a)]
  BY <1>1, ConcatProperties, LenProperties
<1>3. ASSUME NEW i \in 1..Len(c) PROVE f[Len(f) - Len(c) + i] = c[i]
  <2>1. /\ Len(f) - Len(c) + i = Len(a) + i /\ Len(a) + i \in 1..(Len(a) + Len(c))
        /\ ~ (Len(a) + i <= Len(a)) /\ (Len(a) + i) - Len(a) = i
    BY <1>2
  <2> QED BY <1>2, <2>1
<1> QED BY <1>2, <1>3 DEF c, f

LEMMA FitsExact ==
  ASSUME NEW U, NEW C, NEW T, NEW D, NEW h, Names(U, C, T, D, h),
         NEW m, NEW st, NEW R, NEW K, Fits(U, C, m, st, R, K), NEW P, IsPlaced(T, h, st, P)
  PROVE  ExactNamed(T, D, h, st, P, R, K)
<1> DEFINE f == Filled(st)
           c == st.current_slot
           n == Len(f)
           k == Len(c)
<1>1. /\ Typed(U, st) /\ IsInjective(f) /\ R = U \ Range(f) /\ K = Candidates(C, st, R)
      /\ Len(st.slots) = st.slot_no /\ Len(c) = st.track_no
  BY DEF Fits, Typed
<1>2. /\ f \in Seq(U) /\ c \in Seq(U) /\ DOMAIN f = 1..n /\ DOMAIN c = 1..k
      /\ n \in Nat /\ k \in Nat /\ k <= n
      /\ \A i \in 1..k : f[n - k + i] = c[i]
  BY <1>1, FilledType, FilledEnds, LenProperties DEF Typed
<1>3. /\ h \in [U -> T] /\ Image(h, U) = T
      /\ \A u, v \in U : h[u] = h[v] => u = v
      /\ \A u, v \in U : v \in C[u] <=> h[v] \in D[h[u]]
  BY DEF Names
<1>4. P \in Seq(T) /\ Len(P) = n /\ DOMAIN P = 1..n /\ \A i \in 1..n : P[i] = h[f[i]]
  BY LenProperties DEF IsPlaced
<1> HIDE DEF f, c, n, k
<1>5. \A i \in 1..n : f[i] \in U
  BY <1>2, ElementOfSeq DEF n
<1>6. \A i \in 1..k : c[i] \in U
  BY <1>2, ElementOfSeq DEF k
<1>7. IsInjective(P)
  <2>1. \A i, j \in 1..n : f[i] = f[j] => i = j
    BY <1>1, <1>2 DEF IsInjective
  <2>2. \A i, j \in 1..n : P[i] = P[j] => i = j
    BY <1>3, <1>4, <1>5, <2>1
  <2> QED BY <1>4, <2>2 DEF IsInjective
<1>8. Image(h, R) = T \ Range(P)
  <2>1. Range(f) = {f[i] : i \in 1..n} /\ Range(P) = {P[i] : i \in 1..n}
    BY <1>2, <1>4 DEF Range
  <2>2. \A u \in U : h[u] \in Range(P) <=> u \in Range(f)
    BY <1>3, <1>4, <1>5, <2>1
  <2>3. \A t \in T : \E u \in U : h[u] = t
    BY <1>3 DEF Image
  <2> QED BY <1>1, <1>3, <2>2, <2>3 DEF Image
<1>9. LastOf(P, k) = Image(h, Range(c))
  <2> DEFINE s == SubSeq(P, n - k + 1, n)
  <2>1. /\ Len(s) = k /\ s \in Seq(T)
        /\ \A i \in 1..k : s[i] = P[(n - k + 1) + i - 1]
    <3>1. n - k + 1 \in Int /\ n \in Int
      BY <1>2
    <3>2. \A i \in (n - k + 1)..n : P[i] \in T
      BY <1>2, <1>4, ElementOfSeq
    <3>3. /\ s \in Seq(T)
          /\ Len(s) = IF n - k + 1 <= n THEN n - (n - k + 1) + 1 ELSE 0
          /\ \A i \in 1..(n - (n - k + 1) + 1) : s[i] = P[(n - k + 1) + i - 1]
      BY <3>1, <3>2, SubSeqProperties
    <3>4. n - (n - k + 1) + 1 = k /\ (~ (n - k + 1 <= n) => k = 0)
      BY <1>2
    <3> HIDE DEF s
    <3> QED BY <3>3, <3>4
  <2> HIDE DEF s
  <2>2. ASSUME NEW i \in 1..k PROVE s[i] = h[c[i]]
    <3>1. (n - k + 1) + i - 1 = n - k + i /\ n - k + i \in 1..n
      BY <1>2
    <3> QED BY <1>2, <1>4, <2>1, <3>1
  <2>3. DOMAIN s = 1..k
    BY <2>1, LenProperties
  <2>4. Range(s) = Image(h, Range(c))
    BY <1>2, <2>2, <2>3 DEF Range, Image
  <2> QED BY <1>4, <2>4 DEF LastOf, s
<1>10. Range(c) \subseteq U
  BY <1>2, RangeOfSeq
<1>11. Image(h, K) = {t \in Image(h, R) : \A v \in Image(h, Range(c)) : t \notin D[v]}
  <2>1. K = {t \in R : \A u \in Range(c) : t \notin C[u]}
    BY <1>1 DEF Candidates, c
  <2>2. R \subseteq U
    BY <1>1
  <2>3. ASSUME NEW t \in R
        PROVE  (\A u \in Range(c) : t \notin C[u])
                 <=> \A v \in Image(h, Range(c)) : h[t] \notin D[v]
    BY <1>3, <1>10, <2>2 DEF Image
  <2> QED BY <2>1, <2>3 DEF Image
<1> QED BY <1>1, <1>7, <1>8, <1>9, <1>11 DEF ExactNamed, c, k

-----------------------------------------------------------------------------
(* The branches of the work account for their part of the search.             *)

LEMMA CallFitsWord ==
  ASSUME [problem |-> problem, solver |-> solver, max_depth |-> max_depth] \in Call
  PROVE  Len(problem.talks) <= Width
<1> DEFINE c == [problem |-> problem, solver |-> solver, max_depth |-> max_depth]
<1>1. c.problem = problem
  OBVIOUS
<1> HIDE DEF c
<1>2. c \in Call
  BY DEF c
<1>3. Len(c.problem.talks) <= Width
  BY <1>2, CallAssumption
<1> QED BY <1>1, <1>3

Accounts(pb, sv, st) == IF sv = "vector" THEN VectorFits(pb, st) ELSE BitFits(pb, st)

Sound(pb, sv, md) ==
  {x \in Item(pb, sv, md) : x.kind = "branch" => Accounts(pb, sv, x.state)}

AccountInv == SearchInv /\ work \in Seq(Sound(problem, solver, max_depth))

LEMMA FirstAccounts ==
  ASSUME NEW pb, Conference(pb), Len(pb.talks) <= Width, NEW sv
  PROVE  Accounts(pb, sv, FirstState(pb, sv))
BY StartFits, BitStartFits DEF Accounts, FirstState

LEMMA KidsAccount ==
  ASSUME NEW pb, Conference(pb), Len(pb.talks) <= Width, NEW sv,
         NEW st \in States(pb, sv), ~ Finished(pb, st), Accounts(pb, sv, st),
         NEW i \in DOMAIN Kids(pb, sv, st)
  PROVE  Accounts(pb, sv, Kids(pb, sv, st)[i])
<1>1. CASE sv = "vector"
  BY <1>1, RefineFits DEF Accounts, Kids, States
<1>2. CASE sv # "vector"
  BY <1>2, ExpandFits DEF Accounts, Kids, States
<1> QED BY <1>1, <1>2

LEMMA AccountInvInit == Init => AccountInv
<1> SUFFICES ASSUME Init PROVE AccountInv
  OBVIOUS
<1>1. SearchInv
  BY SearchInvInit
<1>2. PICK c \in Call :
        /\ problem = c.problem /\ solver = c.solver /\ max_depth = c.max_depth
        /\ work = <<Branch(0, FirstState(c.problem, c.solver))>>
  BY DEF Init, FirstState
<1>3. Conference(problem) /\ Len(problem.talks) <= Width
  BY <1>1, CallFacts, CallFitsWord DEF SearchInv
<1> DEFINE st == FirstState(problem, solver)
           x == Branch(0, st)
           A == Item(problem, solver, max_depth)
           B == Sound(problem, solver, max_depth)
<1>4. Accounts(problem, solver, st)
  BY <1>3, FirstAccounts
<1>5. work = <<x>> /\ work \in Seq(A)
  BY <1>1, <1>2 DEF SearchInv
<1> HIDE DEF A, st
<1>6. x.state = st
  BY DEF Branch
<1> HIDE DEF x
<1>7. x \in A
  <2>1. work[1] = x /\ 1 \in 1..Len(work)
    BY <1>5
  <2> QED BY <1>5, <2>1, ElementOfSeq
<1>8. x \in B
  BY <1>4, <1>6, <1>7 DEF Sound, A
<1> HIDE DEF B
<1>9. <<x>> \in Seq(B)
  BY <1>8
<1> QED BY <1>1, <1>5, <1>9 DEF AccountInv, B

(* The work stays sound when the branches of a sound branch replace it.       *)
LEMMA AccountInvPuts ==
  ASSUME AccountInv, NEW i \in DOMAIN work, NEW s, Puts(i, s)
  PROVE  AccountInv'
<1> DEFINE B == Sound(problem, solver, max_depth)
           A == Item(problem, solver, max_depth)
           a == SubSeq(work, 1, i - 1)
           c == SubSeq(work, i + 1, Len(work))
<1>1. problem' = problem /\ solver' = solver /\ max_depth' = max_depth
      /\ work' = (a \o s) \o c
  BY DEF Puts, Becomes
<1>2. work \in Seq(B) /\ i \in 1..Len(work)
  BY LenProperties DEF AccountInv
<1>3. a \in Seq(B) /\ c \in Seq(B) /\ work[i] \in B
  BY <1>2, Split
<1>4. Conference(problem) /\ Len(problem.talks) <= Width
  BY CallFacts, CallFitsWord DEF AccountInv, SearchInv
<1>5. ASSUME NEW j \in 1..Len(s) PROVE s[j] \in B
  <2>1. s[j] \in A
    BY ElementOfSeq DEF Puts
  <2>2. CASE s[j].kind = "branch"
    <3> DEFINE st == work[i].state
    <3>1. j \in DOMAIN Kids(problem, solver, st) /\ s[j].state = Kids(problem, solver, st)[j]
      BY <2>2 DEF Puts
    <3>2. work[i].kind = "branch" /\ ~ Finished(problem, st)
      BY <2>2 DEF Puts, Pending
    <3>3. st \in States(problem, solver) /\ Accounts(problem, solver, st)
      BY <1>3, <3>2 DEF Sound, Item
    <3>4. Accounts(problem, solver, s[j].state)
      BY <1>4, <3>1, <3>2, <3>3, KidsAccount
    <3> QED BY <2>1, <3>4 DEF Sound
  <2> QED BY <2>1, <2>2 DEF Sound
<1> HIDE DEF a, c, B, A
<1>6. s \in Seq(B)
  <2>1. Len(s) \in Nat /\ s = [j \in 1..Len(s) |-> s[j]]
    BY LenProperties DEF Puts
  <2> QED BY <1>5, <2>1, IsASeq
<1>7. (a \o s) \o c \in Seq(B)
  <2>1. a \o s \in Seq(B)
    BY <1>3, <1>6, ConcatProperties
  <2> QED BY <1>3, <2>1, ConcatProperties
<1>8. Sound(problem, solver, max_depth)' = B
  BY <1>1 DEF B, Sound, Item, Depths, States, Outcomes, Accounts
<1>9. SearchInv'
  BY SearchInvPuts DEF AccountInv
<1> QED BY <1>1, <1>7, <1>8, <1>9 DEF AccountInv

LEMMA AccountInvNext == AccountInv /\ [Next]_vars => AccountInv'
<1> SUFFICES ASSUME AccountInv, [Next]_vars PROVE AccountInv'
  OBVIOUS
<1>1. CASE UNCHANGED vars
  <2>1. problem' = problem /\ solver' = solver /\ max_depth' = max_depth /\ work' = work
    BY <1>1 DEF vars
  <2>2. Sound(problem, solver, max_depth)' = Sound(problem, solver, max_depth)
    BY <2>1 DEF Sound, Item, Depths, States, Outcomes, Accounts
  <2> QED BY <1>1, <2>1, <2>2, SearchInvNext DEF AccountInv
<1>2. CASE Next
  <2>1. PICK i \in DOMAIN work : \E s : Puts(i, s)
    BY <1>2, StepPuts DEF AccountInv
  <2>2. PICK s : Puts(i, s)
    BY <2>1
  <2> QED BY <2>2, AccountInvPuts
<1> QED BY <1>1, <1>2

-----------------------------------------------------------------------------
(* BranchesExact: the talks of a branch are named by the identity, and those  *)
(* of a mask by the talk at the index.                                        *)

Itself(pb) == [t \in Range(pb.talks) |-> t]

TalkOf(pb) == [i \in Indexes(pb) |-> pb.talks[i + 1]]

LEMMA VectorNames ==
  ASSUME NEW pb
  PROVE  Names(Range(pb.talks), ClashTable(pb), Range(pb.talks), ClashTable(pb), Itself(pb))
BY DEF Names, Itself, Image

LEMMA MaskNames ==
  ASSUME NEW pb, Conference(pb)
  PROVE  Names(Indexes(pb), MaskTable(pb), Range(pb.talks), ClashTable(pb), TalkOf(pb))
<1> DEFINE U == Indexes(pb)
           T == Range(pb.talks)
           h == TalkOf(pb)
<1>1. \A u \in U : h[u] = pb.talks[u + 1] /\ h[u] \in T /\ Position(pb, h[u]) = u
  BY TalkAt DEF TalkOf
<1>2. \A t \in T : Position(pb, t) \in U /\ h[Position(pb, t)] = t
  BY TalkAt DEF TalkOf
<1>3. h \in [U -> T]
  BY TalkAt DEF TalkOf
<1>4. ASSUME NEW u \in U, NEW v \in U
      PROVE  v \in MaskTable(pb)[u] <=> h[v] \in ClashTable(pb)[h[u]]
  <2>1. MaskTable(pb)[u] = ClashMask(pb, u) /\ ClashTable(pb)[h[u]] = Clashes(pb, h[u])
    BY <1>1 DEF MaskTable, ClashTable
  <2>2. v \in ClashMask(pb, u) <=> pb.talks[v + 1] \in Clashes(pb, pb.talks[u + 1])
    BY ClashMaskIs
  <2> QED BY <1>1, <2>1, <2>2
<1> HIDE DEF U, T, h
<1>5. Image(h, U) = T
  BY <1>1, <1>2 DEF Image
<1>6. \A u, v \in U : h[u] = h[v] => u = v
  BY <1>1
<1>7. Names(U, MaskTable(pb), T, ClashTable(pb), h)
  BY <1>3, <1>4, <1>5, <1>6 DEF Names
<1> QED BY <1>7 DEF U, T, h

(* A branch that accounts for its part is exact.                              *)
LEMMA VectorExact ==
  ASSUME solver = "vector", Conference(problem), NEW st \in State(problem),
         VectorFits(problem, st)
  PROVE  /\ ExactNamed(Range(problem.talks), ClashTable(problem), Itself(problem), st, Placed(st),
                       Range(st.remaining_talks), Range(st.slot_candidates))
         /\ Image(Itself(problem), Range(st.remaining_talks)) = Named(st.remaining_talks)
         /\ Image(Itself(problem), Range(st.slot_candidates)) = Named(st.slot_candidates)
         /\ Placed(st) \in Seq(Range(problem.talks))
<1> DEFINE T == Range(problem.talks)
           C == ClashTable(problem)
           R == Range(st.remaining_talks)
           K == Range(st.slot_candidates)
           h == Itself(problem)
           P == Placed(st)
<1>1. Fits(T, C, problem.tracks, st, R, K)
  BY DEF VectorFits
<1>2. R \subseteq T /\ K \subseteq T
  BY <1>1 DEF Fits, Candidates
<1>3. Filled(st) \in Seq(T) /\ P = Filled(st)
  BY <1>1, FilledType DEF Fits, Placed, Filled
<1>4. \A X \in SUBSET T : Image(h, X) = X
  BY DEF Image, Itself
<1>5. Names(T, C, T, C, h)
  BY VectorNames
<1>6. \A t \in T : h[t] = t
  BY DEF Itself
<1> HIDE DEF T, C, R, K, h, P
<1>7. IsPlaced(T, h, st, P)
  BY <1>3, <1>6, ElementOfSeq DEF IsPlaced
<1>8. ExactNamed(T, C, h, st, P, R, K)
  BY <1>1, <1>5, <1>7, FitsExact
<1>9. Image(h, R) = R /\ Image(h, K) = K
  BY <1>2, <1>4
<1>10. Named(st.remaining_talks) = R /\ Named(st.slot_candidates) = K
  BY DEF Named, R, K
<1> QED BY <1>3, <1>8, <1>9, <1>10 DEF T, C, R, K, h, P

LEMMA BitExact ==
  ASSUME solver # "vector", Conference(problem), NEW st, BitFits(problem, st)
  PROVE  /\ ExactNamed(Range(problem.talks), ClashTable(problem), TalkOf(problem), st, Placed(st),
                       st.remaining_talks, st.slot_candidates)
         /\ Image(TalkOf(problem), st.remaining_talks) = Named(st.remaining_talks)
         /\ Image(TalkOf(problem), st.slot_candidates) = Named(st.slot_candidates)
         /\ Placed(st) \in Seq(Range(problem.talks))
<1> DEFINE U == Indexes(problem)
           C == MaskTable(problem)
           T == Range(problem.talks)
           D == ClashTable(problem)
           R == st.remaining_talks
           K == st.slot_candidates
           h == TalkOf(problem)
           P == Placed(st)
           f == Filled(st)
<1>1. Fits(U, C, problem.tracks, st, R, K)
  BY DEF BitFits
<1>2. R \subseteq U /\ K \subseteq U
  BY <1>1 DEF Fits, Candidates
<1>3. f \in Seq(U) /\ DOMAIN f = 1..Len(f) /\ Len(f) \in Nat
  BY <1>1, FilledType, LenProperties DEF Fits
<1>4. P = [i \in DOMAIN f |-> problem.talks[f[i] + 1]]
  BY DEF Placed, Filled
<1>5. \A u \in U : h[u] = problem.talks[u + 1] /\ h[u] \in T
  BY TalkAt DEF TalkOf
<1>6. Names(U, C, T, D, h)
  BY MaskNames
<1>7. Named(R) = {problem.talks[i + 1] : i \in R} /\ Named(K) = {problem.talks[i + 1] : i \in K}
  BY DEF Named
<1> HIDE DEF U, C, T, D, h, P, R, K, f
<1>8. \A i \in 1..Len(f) : f[i] \in U
  BY <1>3, ElementOfSeq
<1>9. \A i \in 1..Len(f) : P[i] = h[f[i]] /\ P[i] \in T
  BY <1>3, <1>4, <1>5, <1>8
<1>10. P \in Seq(T) /\ Len(P) = Len(f)
  <2>1. P = [i \in 1..Len(f) |-> P[i]]
    BY <1>3, <1>4
  <2> QED BY <1>3, <1>9, <2>1, IsASeq
<1>11. IsPlaced(T, h, st, P)
  BY <1>9, <1>10 DEF IsPlaced, f
<1>12. ExactNamed(T, D, h, st, P, R, K)
  BY <1>1, <1>6, <1>11, FitsExact
<1>13. Image(h, R) = Named(R) /\ Image(h, K) = Named(K)
  BY <1>2, <1>5, <1>7 DEF Image
<1> QED BY <1>10, <1>12, <1>13 DEF U, C, T, D, R, K, h, P

(* What ExactNamed says, in the words of BranchesExact.                       *)
Exact(st) ==
  LET open == LastOf(Placed(st), Len(st.current_slot))
  IN  /\ IsInjective(Placed(st)) /\ Len(st.slots) = st.slot_no
      /\ Len(st.current_slot) = st.track_no
      /\ Named(st.remaining_talks) = Range(problem.talks) \ Range(Placed(st))
      /\ Named(st.slot_candidates) =
           {t \in Named(st.remaining_talks) : \A u \in open : t \notin Clashes(problem, u)}

LEMMA NamedExact ==
  ASSUME NEW h, NEW st, NEW R, NEW K, Image(h, R) = Named(st.remaining_talks),
         Image(h, K) = Named(st.slot_candidates),
         Placed(st) \in Seq(Range(problem.talks)),
         ExactNamed(Range(problem.talks), ClashTable(problem), h, st, Placed(st), R, K),
         Len(st.current_slot) <= Len(Placed(st)), Len(st.current_slot) \in Nat
  PROVE  Exact(st)
<1> DEFINE T == Range(problem.talks)
           P == Placed(st)
           k == Len(st.current_slot)
           open == LastOf(P, k)
<1>1. open \subseteq T
  <2>1. Len(P) \in Nat /\ Len(P) - k + 1 \in 1..(Len(P) + 1)
    <3>1. Len(P) \in Nat /\ k \in Nat /\ k <= Len(P)
      BY LenProperties
    <3> HIDE DEF P, k
    <3> QED BY <3>1
  <2>2. \A i \in (Len(P) - k + 1)..Len(P) : P[i] \in T
    BY <2>1, ElementOfSeq
  <2>3. SubSeq(P, Len(P) - k + 1, Len(P)) \in Seq(T)
    BY <2>1, <2>2, SubSeqProperties
  <2> QED BY <2>3, RangeOfSeq DEF LastOf
<1>2. \A u \in open : ClashTable(problem)[u] = Clashes(problem, u)
  BY <1>1 DEF ClashTable
<1> HIDE DEF open
<1>3. /\ IsInjective(P) /\ Len(st.slots) = st.slot_no /\ k = st.track_no
      /\ Named(st.remaining_talks) = T \ Range(P)
      /\ Named(st.slot_candidates) =
           {t \in Named(st.remaining_talks) : \A v \in open : t \notin ClashTable(problem)[v]}
  BY DEF ExactNamed, open
<1>4. Named(st.slot_candidates) =
        {t \in Named(st.remaining_talks) : \A v \in open : t \notin Clashes(problem, v)}
  BY <1>2, <1>3
<1> QED BY <1>3, <1>4 DEF Exact, open

LEMMA AccountsExact ==
  ASSUME Conference(problem), NEW st \in States(problem, solver),
         Accounts(problem, solver, st)
  PROVE  Exact(st)
<1>1. Len(st.current_slot) <= Len(Placed(st)) /\ Len(st.current_slot) \in Nat
  <2>1. PICK U, C, R, K : Fits(U, C, problem.tracks, st, R, K)
    BY DEF Accounts, VectorFits, BitFits
  <2>2. Typed(U, st)
    BY <2>1 DEF Fits
  <2>3. /\ Len(Filled(st)) \in Nat /\ Len(st.current_slot) \in Nat
        /\ Len(st.current_slot) <= Len(Filled(st)) /\ Filled(st) \in Seq(U)
    BY <2>2, FilledEnds, FilledType
  <2> DEFINE f == Filled(st)
             p == [i \in DOMAIN f |-> problem.talks[f[i] + 1]]
  <2>4. Placed(st) = IF solver = "vector" THEN f ELSE p
    BY DEF Placed, Filled
  <2> HIDE DEF f
  <2>5. Len(p) = Len(f)
    <3>1. DOMAIN f = 1..Len(f)
      BY <2>3, LenProperties DEF f
    <3> QED BY <2>3, <3>1 DEF f
  <2> HIDE DEF p
  <2> QED BY <2>3, <2>4, <2>5 DEF f
<1>2. CASE solver = "vector"
  <2>1. st \in State(problem) /\ VectorFits(problem, st)
    BY <1>2 DEF States, Accounts
  <2> QED BY <1>1, <1>2, <2>1, VectorExact, NamedExact
<1>3. CASE solver # "vector"
  <2>1. BitFits(problem, st)
    BY <1>3 DEF Accounts
  <2> QED BY <1>1, <1>3, <2>1, BitExact, NamedExact
<1> QED BY <1>2, <1>3

(* Whatever the conference, the solver, the cutoff and the schedule, each     *)
(* branch that waits for a worker places or keeps every talk, once, and       *)
(* offers exactly the talks that may join its open slot.                      *)
LEMMA AccountsAll == AccountInv => BranchesExact
<1> SUFFICES ASSUME AccountInv, NEW i \in DOMAIN work, Pending(i)
             PROVE  Exact(work[i].state)
  BY DEF BranchesExact, Exact, LastOf
<1>1. work[i] \in Sound(problem, solver, max_depth)
  BY DEF AccountInv
<1>2. Conference(problem)
  BY CallFacts DEF AccountInv, SearchInv
<1>3. work[i].kind = "branch"
  BY DEF Pending
<1>4. work[i].state \in States(problem, solver) /\ Accounts(problem, solver, work[i].state)
  BY <1>1, <1>3 DEF Sound, Item
<1> QED BY <1>2, <1>4, AccountsExact

THEOREM EveryBranchExact == Spec => []BranchesExact
<1>1. Spec => []AccountInv
  BY AccountInvInit, AccountInvNext, PTL DEF Spec
<1> QED BY <1>1, AccountsAll, PTL

-----------------------------------------------------------------------------
(* Sequences in the order of a relation L, a set of pairs.                    *)

InOrder(L, s) == \A i, j \in 1..Len(s) : i < j => <<s[i], s[j]>> \in L

Across(L, s, t) == \A a \in Range(s) : \A b \in Range(t) : <<a, b>> \in L

LEMMA RangeConcat ==
  ASSUME NEW A, NEW s \in Seq(A), NEW t \in Seq(A)
  PROVE  Range(s \o t) = Range(s) \cup Range(t)
<1> DEFINE r == s \o t
<1>1. /\ r \in Seq(A) /\ Len(r) = Len(s) + Len(t) /\ Len(s) \in Nat /\ Len(t) \in Nat
      /\ \A i \in 1..(Len(s) + Len(t)) : r[i] = IF i <= Len(s) THEN s[i] ELSE t[i - Len(s)]
  BY ConcatProperties, LenProperties
<1>2. DOMAIN r = 1..(Len(s) + Len(t)) /\ DOMAIN s = 1..Len(s) /\ DOMAIN t = 1..Len(t)
  BY <1>1, LenProperties
<1> HIDE DEF r
<1>3. ASSUME NEW i \in 1..(Len(s) + Len(t)) PROVE r[i] \in Range(s) \cup Range(t)
  <2>1. CASE i <= Len(s)
    <3>1. i \in 1..Len(s) /\ r[i] = s[i]
      BY <1>1, <2>1
    <3> QED BY <1>2, <3>1 DEF Range
  <2>2. CASE ~ (i <= Len(s))
    <3>1. i - Len(s) \in 1..Len(t) /\ r[i] = t[i - Len(s)]
      BY <1>1, <2>2
    <3> QED BY <1>2, <3>1 DEF Range
  <2> QED BY <2>1, <2>2
<1>4. \A i \in 1..Len(s) : i \in DOMAIN r /\ r[i] = s[i]
  BY <1>1, <1>2
<1>5. ASSUME NEW i \in 1..Len(t) PROVE Len(s) + i \in DOMAIN r /\ r[Len(s) + i] = t[i]
  <2>1. /\ Len(s) + i \in 1..(Len(s) + Len(t)) /\ ~ (Len(s) + i <= Len(s))
        /\ (Len(s) + i) - Len(s) = i
    BY <1>1
  <2> QED BY <1>1, <1>2, <2>1
<1>6. Range(r) = Range(s) \cup Range(t)
  <2>1. Range(r) \subseteq Range(s) \cup Range(t)
    BY <1>2, <1>3 DEF Range
  <2>2. Range(s) \subseteq Range(r)
    BY <1>2, <1>4 DEF Range
  <2>3. Range(t) \subseteq Range(r)
    BY <1>2, <1>5 DEF Range
  <2> QED BY <2>1, <2>2, <2>3
<1> QED BY <1>6 DEF r

LEMMA InOrderConcat ==
  ASSUME NEW A, NEW s \in Seq(A), NEW t \in Seq(A), NEW L,
         InOrder(L, s), InOrder(L, t), Across(L, s, t)
  PROVE  InOrder(L, s \o t)
<1> DEFINE r == s \o t
<1>1. /\ r \in Seq(A) /\ Len(r) = Len(s) + Len(t) /\ Len(s) \in Nat /\ Len(t) \in Nat
      /\ \A i \in 1..(Len(s) + Len(t)) : r[i] = IF i <= Len(s) THEN s[i] ELSE t[i - Len(s)]
  BY ConcatProperties, LenProperties
<1>2. DOMAIN s = 1..Len(s) /\ DOMAIN t = 1..Len(t)
  BY LenProperties
<1> HIDE DEF r
<1>3. ASSUME NEW i \in 1..(Len(s) + Len(t)), NEW j \in 1..(Len(s) + Len(t)), i < j
      PROVE  <<r[i], r[j]>> \in L
  <2>1. CASE j <= Len(s)
    <3>1. i \in 1..Len(s) /\ j \in 1..Len(s) /\ r[i] = s[i] /\ r[j] = s[j]
      BY <1>1, <1>3, <2>1
    <3> QED BY <1>3, <3>1 DEF InOrder
  <2>2. CASE ~ (j <= Len(s)) /\ i <= Len(s)
    <3>1. i \in 1..Len(s) /\ j - Len(s) \in 1..Len(t) /\ r[i] = s[i] /\ r[j] = t[j - Len(s)]
      BY <1>1, <1>3, <2>2
    <3>2. s[i] \in Range(s) /\ t[j - Len(s)] \in Range(t)
      BY <1>2, <3>1 DEF Range
    <3> QED BY <3>1, <3>2 DEF Across
  <2>3. CASE ~ (j <= Len(s)) /\ ~ (i <= Len(s))
    <3>1. /\ i - Len(s) \in 1..Len(t) /\ j - Len(s) \in 1..Len(t) /\ i - Len(s) < j - Len(s)
          /\ r[i] = t[i - Len(s)] /\ r[j] = t[j - Len(s)]
      BY <1>1, <1>3, <2>3
    <3> QED BY <3>1 DEF InOrder
  <2> QED BY <2>1, <2>2, <2>3
<1>4. InOrder(L, r)
  BY <1>1, <1>3 DEF InOrder
<1> QED BY <1>4 DEF r

(* What the sequences of s have, all together and in their order.             *)
Holding(s, n) == UNION {Range(s[i]) : i \in 1..n}

LEMMA FlattenRange ==
  ASSUME NEW A, NEW s \in Seq(Seq(A))
  PROVE  Range(FlattenSeq(s)) = Holding(s, Len(s))
<1>1. PICK g \in [0..Len(s) -> Seq(A)] : Flattens(g, s) /\ FlattenSeq(s) = g[Len(s)]
  BY FlattenHas
<1>2. Len(s) \in Nat /\ \A i \in 1..Len(s) : s[i] \in Seq(A)
  OBVIOUS
<1> DEFINE N == {i \in Nat : i <= Len(s) => Range(g[i]) = Holding(s, i)}
<1>3. 0 \in N
  <2>1. g[0] = <<>> /\ 1..0 = {}
    BY <1>1 DEF Flattens
  <2>2. Holding(s, 0) = {}
    BY <2>1 DEF Holding
  <2> QED BY <2>1, <2>2, EmptyFacts
<1>4. ASSUME NEW i \in Nat, i \in N PROVE i + 1 \in N
  <2> SUFFICES ASSUME NEW j \in 1..Len(s), j = i + 1 PROVE Range(g[j]) = Holding(s, j)
    BY <1>2
  <2>1. j - 1 = i /\ i <= Len(s) /\ i \in 0..Len(s) /\ 1..j = 1..i \cup {j}
    BY <1>2
  <2>2. g[j] = g[i] \o s[j] /\ g[i] \in Seq(A) /\ s[j] \in Seq(A)
    BY <1>1, <1>2, <2>1 DEF Flattens
  <2>3. Range(g[j]) = Range(g[i]) \cup Range(s[j])
    BY <2>2, RangeConcat
  <2>4. Holding(s, j) = Holding(s, i) \cup Range(s[j])
    BY <2>1 DEF Holding
  <2> QED BY <1>4, <2>1, <2>3, <2>4
<1>5. Len(s) \in N
  <2> HIDE DEF N
  <2> QED BY <1>2, <1>3, <1>4, Induction
<1> QED BY <1>1, <1>2, <1>5

LEMMA FlattenInOrder ==
  ASSUME NEW A, NEW s \in Seq(Seq(A)), NEW L,
         \A i \in 1..Len(s) : InOrder(L, s[i]),
         \A i, j \in 1..Len(s) : i < j => Across(L, s[i], s[j])
  PROVE  InOrder(L, FlattenSeq(s))
<1>1. PICK g \in [0..Len(s) -> Seq(A)] : Flattens(g, s) /\ FlattenSeq(s) = g[Len(s)]
  BY FlattenHas
<1>2. Len(s) \in Nat /\ \A i \in 1..Len(s) : s[i] \in Seq(A)
  OBVIOUS
<1> DEFINE Fine(i) == Range(g[i]) = Holding(s, i) /\ InOrder(L, g[i])
           N == {i \in Nat : i <= Len(s) => Fine(i)}
<1>3. 0 \in N
  <2>1. g[0] = <<>> /\ 1..0 = {} /\ Len(<<>>) = 0
    BY <1>1 DEF Flattens
  <2>2. Holding(s, 0) = {} /\ InOrder(L, <<>>)
    BY <2>1 DEF Holding, InOrder
  <2> QED BY <2>1, <2>2, EmptyFacts
<1>4. ASSUME NEW i \in Nat, i \in N PROVE i + 1 \in N
  <2> SUFFICES ASSUME NEW j \in 1..Len(s), j = i + 1 PROVE Fine(j)
    BY <1>2
  <2>1. j - 1 = i /\ i <= Len(s) /\ i \in 0..Len(s) /\ 1..j = 1..i \cup {j}
    BY <1>2
  <2>2. g[j] = g[i] \o s[j] /\ g[i] \in Seq(A) /\ s[j] \in Seq(A)
    BY <1>1, <1>2, <2>1 DEF Flattens
  <2>3. Range(g[j]) = Range(g[i]) \cup Range(s[j])
    BY <2>2, RangeConcat
  <2>4. Holding(s, j) = Holding(s, i) \cup Range(s[j])
    BY <2>1 DEF Holding
  <2>5. Range(g[i]) = Holding(s, i) /\ InOrder(L, g[i])
    BY <1>4, <2>1
  <2>6. Across(L, g[i], s[j])
    <3> SUFFICES ASSUME NEW a \in Holding(s, i), NEW b \in Range(s[j]) PROVE <<a, b>> \in L
      BY <2>5 DEF Across
    <3>1. PICK k \in 1..i : a \in Range(s[k])
      BY DEF Holding
    <3>2. k \in 1..Len(s) /\ k < j
      BY <1>2, <2>1
    <3> QED BY <3>1, <3>2 DEF Across
  <2>7. InOrder(L, g[j])
    BY <2>2, <2>5, <2>6, InOrderConcat
  <2> QED BY <2>3, <2>4, <2>5, <2>7
<1>5. Len(s) \in N
  <2> HIDE DEF N
  <2> QED BY <1>2, <1>3, <1>4, Induction
<1> QED BY <1>1, <1>2, <1>5

LEMMA WithoutInOrder ==
  ASSUME NEW A, NEW s \in Seq(A), NEW T, NEW L, InOrder(L, s)
  PROVE  InOrder(L, Without(s, T))
<1> DEFINE k == Kept(s, T)
<1>1. k \in Seq(Seq(A)) /\ Without(s, T) = FlattenSeq(k)
  BY KeptType DEF Without, Kept
<1>2. /\ Len(k) = Len(s) /\ DOMAIN s = 1..Len(s)
      /\ \A i \in 1..Len(s) : s[i] \in A /\ (k[i] = <<>> \/ k[i] = <<s[i]>>)
  BY DEF Kept
<1> HIDE DEF k
<1>3. \A i \in 1..Len(k) : InOrder(L, k[i])
  BY <1>2 DEF InOrder
<1>4. ASSUME NEW i \in 1..Len(k), NEW j \in 1..Len(k), i < j PROVE Across(L, k[i], k[j])
  <2>1. \A x : Range(<<x>>) = {x}
    BY DEF Range
  <2>2. <<s[i], s[j]>> \in L
    BY <1>2, <1>4 DEF InOrder
  <2>3. ASSUME NEW l \in 1..Len(k) PROVE Range(k[l]) \subseteq {s[l]}
    <3>1. CASE k[l] = <<>>
      BY <3>1, EmptyFacts
    <3>2. CASE k[l] = <<s[l]>>
      BY <2>1, <3>2
    <3> QED BY <1>2, <3>1, <3>2
  <2>4. Range(k[i]) \subseteq {s[i]} /\ Range(k[j]) \subseteq {s[j]}
    BY <2>3
  <2> QED BY <2>2, <2>3, <2>4 DEF Across
<1> QED BY <1>1, <1>3, <1>4, FlattenInOrder

LEMMA RemovedInOrder ==
  ASSUME NEW A, NEW s \in Seq(A), NEW i \in 1..Len(s), NEW L, InOrder(L, s)
  PROVE  InOrder(L, RemoveAt(s, i))
<1> DEFINE a == SubSeq(s, 1, i - 1)
           c == SubSeq(s, i + 1, Len(s))
<1>1. /\ a \in Seq(A) /\ Len(a) = i - 1 /\ \A j \in 1..(i - 1) : a[j] = s[j]
      /\ c \in Seq(A) /\ Len(c) = Len(s) - i /\ \A j \in 1..(Len(s) - i) : c[j] = s[i + j]
      /\ i \in Nat /\ Len(s) \in Nat /\ i >= 1 /\ i <= Len(s)
  OBVIOUS
<1>2. DOMAIN a = 1..(i - 1) /\ DOMAIN c = 1..(Len(s) - i)
  BY <1>1, LenProperties
<1> HIDE DEF a, c
<1>3. InOrder(L, a)
  <2>1. \A j \in 1..(i - 1) : j \in 1..Len(s) /\ a[j] = s[j]
    BY <1>1
  <2> QED BY <1>1, <2>1 DEF InOrder
<1>4. InOrder(L, c)
  <2>1. \A j \in 1..(Len(s) - i) : i + j \in 1..Len(s) /\ c[j] = s[i + j]
    BY <1>1
  <2>2. \A j, k \in 1..(Len(s) - i) : j < k => i + j < i + k
    BY <1>1
  <2> QED BY <1>1, <2>1, <2>2 DEF InOrder
<1>5. Across(L, a, c)
  <2> SUFFICES ASSUME NEW j \in 1..(i - 1), NEW k \in 1..(Len(s) - i)
               PROVE  <<a[j], c[k]>> \in L
    BY <1>2 DEF Across, Range
  <2>1. /\ j \in 1..Len(s) /\ i + k \in 1..Len(s) /\ j < i + k
        /\ a[j] = s[j] /\ c[k] = s[i + k]
    BY <1>1
  <2> QED BY <2>1 DEF InOrder
<1>6. InOrder(L, a \o c)
  BY <1>1, <1>3, <1>4, <1>5, InOrderConcat
<1> QED BY <1>6 DEF RemoveAt, a, c

(* Two sequences with the same elements, both in a strict order, are equal.   *)
Strict(L) == \A a, b : <<a, b>> \in L => <<b, a>> \notin L

LEMMA InOrderInjective ==
  ASSUME NEW A, NEW s \in Seq(A), NEW L, Strict(L), InOrder(L, s)
  PROVE  IsInjective(s)
<1>1. DOMAIN s = 1..Len(s) /\ Len(s) \in Nat
  BY LenProperties
<1> SUFFICES ASSUME NEW i \in 1..Len(s), NEW j \in 1..Len(s), s[i] = s[j] PROVE i = j
  BY <1>1 DEF IsInjective
<1>2. \A a : <<a, a>> \notin L
  BY DEF Strict
<1>3. ~ (i < j) /\ ~ (j < i)
  BY <1>2 DEF InOrder
<1> QED BY <1>1, <1>3

LEMMA InOrderUnique ==
  ASSUME NEW A, NEW s \in Seq(A), NEW t \in Seq(A), NEW L, Strict(L),
         InOrder(L, s), InOrder(L, t), Range(s) = Range(t)
  PROVE  s = t
<1>1. /\ DOMAIN s = 1..Len(s) /\ Len(s) \in Nat /\ DOMAIN t = 1..Len(t) /\ Len(t) \in Nat
      /\ \A i \in 1..Len(s) : \E j \in 1..Len(t) : t[j] = s[i]
      /\ \A i \in 1..Len(t) : \E j \in 1..Len(s) : s[j] = t[i]
  <2>1. DOMAIN s = 1..Len(s) /\ Len(s) \in Nat /\ DOMAIN t = 1..Len(t) /\ Len(t) \in Nat
    BY LenProperties
  <2> QED BY <2>1 DEF Range
<1>2. /\ \A i, j \in 1..Len(s) : i < j => <<s[i], s[j]>> \in L
      /\ \A i, j \in 1..Len(t) : i < j => <<t[i], t[j]>> \in L
  BY DEF InOrder
<1>3. \A a, b : <<a, b>> \in L => <<b, a>> \notin L /\ a # b
  BY DEF Strict
<1> DEFINE D == {i \in Nat : /\ i >= 1 /\ (i <= Len(s) \/ i <= Len(t))
                             /\ ~ (i <= Len(s) /\ i <= Len(t) /\ s[i] = t[i])}
<1>4. D = {}
  <2> SUFFICES ASSUME D # {} PROVE FALSE
    OBVIOUS
  <2>1. PICK i \in D : \A j \in D : i <= j
    <3>1. D \in SUBSET Nat
      OBVIOUS
    <3> HIDE DEF D
    <3> QED BY <3>1, Smallest
  <2>2. /\ i \in Nat /\ i >= 1 /\ (i <= Len(s) \/ i <= Len(t))
        /\ ~ (i <= Len(s) /\ i <= Len(t) /\ s[i] = t[i])
    OBVIOUS
  <2>3. ASSUME NEW j \in Nat, j >= 1, j < i PROVE j <= Len(s) /\ j <= Len(t) /\ s[j] = t[j]
    <3>1. j \notin D
      <4> HIDE DEF D
      <4>1. ~ (i <= j)
        BY <2>2, <2>3
      <4> QED BY <2>1, <4>1
    <3>2. j <= Len(s) \/ j <= Len(t)
      BY <1>1, <2>2, <2>3
    <3> QED BY <2>3, <3>1, <3>2
  <2> HIDE DEF D
  <2>4. CASE i <= Len(s) /\ i <= Len(t)
    <3>1. s[i] # t[i] /\ i \in 1..Len(s) /\ i \in 1..Len(t)
      BY <2>2, <2>4
    <3>2. <<t[i], s[i]>> \in L
      <4>1. PICK j \in 1..Len(t) : t[j] = s[i]
        BY <1>1, <3>1
      <4>2. ASSUME j < i PROVE FALSE
        <5>1. s[j] = t[j] /\ j \in 1..Len(s) /\ j \in 1..Len(t)
          <6>1. j \in Nat /\ j >= 1
            OBVIOUS
          <6>2. j <= Len(s) /\ j <= Len(t) /\ s[j] = t[j]
            BY <2>3, <4>2, <6>1
          <6>3. Len(s) \in Nat /\ Len(t) \in Nat
            BY <1>1
          <6> QED BY ONLY <6>1, <6>2, <6>3
        <5>2. <<s[j], s[i]>> \in L
          BY <1>2, <3>1, <4>2, <5>1
        <5> QED BY <1>3, <4>1, <5>1, <5>2
      <4>3. i < j
        BY <1>1, <2>2, <3>1, <4>1, <4>2
      <4> QED BY <1>2, <3>1, <4>1, <4>3
    <3>3. <<s[i], t[i]>> \in L
      <4>1. PICK j \in 1..Len(s) : s[j] = t[i]
        BY <1>1, <3>1
      <4>2. ASSUME j < i PROVE FALSE
        <5>1. s[j] = t[j] /\ j \in 1..Len(s) /\ j \in 1..Len(t)
          <6>1. j \in Nat /\ j >= 1
            OBVIOUS
          <6>2. j <= Len(s) /\ j <= Len(t) /\ s[j] = t[j]
            BY <2>3, <4>2, <6>1
          <6>3. Len(s) \in Nat /\ Len(t) \in Nat
            BY <1>1
          <6> QED BY ONLY <6>1, <6>2, <6>3
        <5>2. <<t[j], t[i]>> \in L
          BY <1>2, <3>1, <4>2, <5>1
        <5> QED BY <1>3, <4>1, <5>1, <5>2
      <4>3. i < j
        BY <1>1, <2>2, <3>1, <4>1, <4>2
      <4> QED BY <1>2, <3>1, <4>1, <4>3
    <3> QED BY <1>3, <3>2, <3>3
  <2>5. CASE i <= Len(s) /\ ~ (i <= Len(t))
    <3>1. PICK j \in 1..Len(t) : t[j] = s[i]
      BY <1>1, <2>2, <2>5
    <3>2. j \in Nat /\ j >= 1 /\ j < i /\ j \in 1..Len(s) /\ i \in 1..Len(s)
      BY <1>1, <2>2, <2>5, <3>1
    <3>3. s[j] = s[i]
      BY <2>3, <3>1, <3>2
    <3> QED BY <1>2, <1>3, <3>2, <3>3
  <2>6. CASE i <= Len(t) /\ ~ (i <= Len(s))
    <3>1. PICK j \in 1..Len(s) : s[j] = t[i]
      BY <1>1, <2>2, <2>6
    <3>2. j \in Nat /\ j >= 1 /\ j < i /\ j \in 1..Len(t) /\ i \in 1..Len(t)
      BY <1>1, <2>2, <2>6, <3>1
    <3>3. t[j] = t[i]
      BY <2>3, <3>1, <3>2
    <3> QED BY <1>2, <1>3, <3>2, <3>3
  <2> QED BY <2>2, <2>4, <2>5, <2>6
<1>5. Len(s) = Len(t)
  <2>1. \A i \in Nat : i >= 1 /\ (i <= Len(s) \/ i <= Len(t)) => i <= Len(s) /\ i <= Len(t)
    BY <1>4
  <2>2. ASSUME Len(s) < Len(t) PROVE FALSE
    <3>1. Len(t) \in Nat /\ Len(t) >= 1 /\ Len(t) <= Len(t) /\ ~ (Len(t) <= Len(s))
      BY <1>1, <2>2
    <3> QED BY <2>1, <3>1
  <2>3. ASSUME Len(t) < Len(s) PROVE FALSE
    <3>1. Len(s) \in Nat /\ Len(s) >= 1 /\ Len(s) <= Len(s) /\ ~ (Len(s) <= Len(t))
      BY <1>1, <2>3
    <3> QED BY <2>1, <3>1
  <2>4. Len(s) \in Nat /\ Len(t) \in Nat
    BY <1>1
  <2> QED BY ONLY <2>2, <2>3, <2>4
<1>6. \A i \in 1..Len(s) : s[i] = t[i]
  <2>1. \A i \in 1..Len(s) : i \in Nat /\ i >= 1 /\ i <= Len(s)
    BY <1>1
  <2> QED BY <1>4, <2>1
<1> QED BY <1>5, <1>6, SeqEqual

-----------------------------------------------------------------------------
(* The vector solver finds, below a state, the timetables that extend what    *)
(* the state has placed, in the order of their talks' positions.              *)

Ranked(pb) ==
  {p \in Range(pb.talks) \X Range(pb.talks) : Position(pb, p[1]) < Position(pb, p[2])}

Earlier(pb) ==
  {p \in AllTimetables(pb) \X AllTimetables(pb) : Before(pb, p[1], p[2])}

(* The timetable begins with the slots of st, and with its open slot.         *)
Extends(st, timetable) ==
  /\ \A i \in 1..st.slot_no : timetable[i] = st.slots[i]
  /\ \A j \in 1..st.track_no : timetable[st.slot_no + 1][j] = st.current_slot[j]

Extensions(pb, st) == {timetable \in AllTimetables(pb) : Extends(st, timetable)}

Proper(pb, st) ==
  /\ st \in State(pb) /\ VectorFits(pb, st)
  /\ InOrder(Ranked(pb), st.slot_candidates) /\ InOrder(Ranked(pb), st.remaining_talks)
  /\ Finished(pb, st) => st.track_no = 0

LEMMA RankedStrict ==
  ASSUME NEW pb, Conference(pb)
  PROVE  /\ Strict(Ranked(pb))
         /\ \A a, b \in Range(pb.talks) :
              <<a, b>> \in Ranked(pb) <=> Position(pb, a) < Position(pb, b)
<1>1. \A t \in Range(pb.talks) : Position(pb, t) \in Nat
  BY TalkAt DEF Indexes
<1>2. \A a, b : <<a, b>> \in Ranked(pb) <=> /\ a \in Range(pb.talks) /\ b \in Range(pb.talks)
                                             /\ Position(pb, a) < Position(pb, b)
  BY DEF Ranked
<1> QED BY <1>1, <1>2 DEF Strict

LEMMA TalksRanked ==
  ASSUME NEW pb, Conference(pb)
  PROVE  InOrder(Ranked(pb), pb.talks)
<1> SUFFICES ASSUME NEW i \in 1..Len(pb.talks), NEW j \in 1..Len(pb.talks), i < j
             PROVE  <<pb.talks[i], pb.talks[j]>> \in Ranked(pb)
  BY DEF InOrder
<1>1. Position(pb, pb.talks[i]) = i - 1 /\ Position(pb, pb.talks[j]) = j - 1
  BY PositionIs
<1>2. pb.talks[i] \in Range(pb.talks) /\ pb.talks[j] \in Range(pb.talks)
  BY LenProperties DEF Range, Conference
<1> QED BY <1>1, <1>2, RankedStrict

LEMMA StartProper ==
  ASSUME NEW pb, Conference(pb)
  PROVE  Proper(pb, Start(pb))
<1>1. Start(pb) \in State(pb)
  <2>1. FirstState(pb, "vector") \in States(pb, "vector")
    BY FirstStateType
  <2> QED BY <2>1 DEF FirstState, States
<1>2. VectorFits(pb, Start(pb))
  BY StartFits
<1>3. /\ Start(pb).slot_candidates = pb.talks /\ Start(pb).remaining_talks = pb.talks
      /\ Start(pb).track_no = 0
  BY DEF Start
<1> QED BY <1>1, <1>2, <1>3, TalksRanked DEF Proper

LEMMA RefineProper ==
  ASSUME NEW pb, Conference(pb), NEW st, Proper(pb, st), ~ Finished(pb, st),
         NEW i \in DOMAIN Refine(pb, st)
  PROVE  Proper(pb, Refine(pb, st)[i])
<1> DEFINE L == Ranked(pb)
           next == Refine(pb, st)[i]
<1>1. /\ st \in State(pb) /\ VectorFits(pb, st) /\ ~ Finished(pb, st)
      /\ InOrder(L, st.slot_candidates) /\ InOrder(L, st.remaining_talks)
  BY DEF Proper
<1>2. next \in State(pb) /\ VectorFits(pb, next)
  BY <1>1, RefineBranches, RefineFits DEF IsBranch
<1>3. CASE st.track_no = pb.tracks
  <2>1. Refine(pb, st) = <<Committed(st)>>
    BY <1>3 DEF Refine
  <2>2. next = Committed(st)
    BY <2>1
  <2>3. /\ next.slot_candidates = st.remaining_talks
        /\ next.remaining_talks = st.remaining_talks /\ next.track_no = 0
    BY <2>2 DEF Committed
  <2> HIDE DEF next
  <2> QED BY <1>1, <1>2, <2>3 DEF Proper, next
<1>4. CASE st.track_no # pb.tracks
  <2> DEFINE talk == st.slot_candidates[i]
             rest == RemoveAt(st.slot_candidates, i)
  <2>1. /\ i \in DOMAIN st.slot_candidates /\ next = Selected(pb, st, i)
        /\ IsRecord(st) /\ st.slot_candidates \in Seq(Range(pb.talks))
        /\ st.remaining_talks \in Seq(Range(pb.talks))
    BY <1>1, <1>4 DEF Refine, State, IsRecord
  <2>2. SelectedHas(pb, st, i, talk, next)
    <3> DEFINE t == talk
    <3>1. t = st.slot_candidates[i]
      OBVIOUS
    <3> HIDE DEF t, next
    <3>2. SelectedHas(pb, st, i, t, next)
      BY <2>1, <3>1, SelectedIs
    <3> QED BY <3>2 DEF t
  <2>3. i \in 1..Len(st.slot_candidates)
    BY <2>1, LenProperties
  <2>4. rest \in Seq(Range(pb.talks)) /\ InOrder(L, rest)
    BY <1>1, <2>1, <2>3, RemovedType, RemovedInOrder
  <2>5. /\ next.slot_candidates = Without(rest, Clashes(pb, talk))
        /\ next.remaining_talks = Without(st.remaining_talks, {talk})
        /\ next.slot_no = st.slot_no
    BY <2>2 DEF SelectedHas
  <2> HIDE DEF next, rest, talk, L
  <2>6. InOrder(L, next.slot_candidates) /\ InOrder(L, next.remaining_talks)
    BY <1>1, <2>1, <2>4, <2>5, WithoutInOrder
  <2>7. ~ Finished(pb, next)
    BY <1>1, <2>5 DEF Finished
  <2> QED BY <1>2, <2>6, <2>7 DEF Proper, L, next
<1> QED BY <1>3, <1>4

LEMMA TimetableHas ==
  ASSUME NEW pb, Conference(pb), NEW timetable \in AllTimetables(pb)
  PROVE  /\ timetable \in Timetables(pb) /\ Len(timetable) = pb.slots
         /\ \A i \in 1..pb.slots : /\ timetable[i] \in Seq(Range(pb.talks))
                                   /\ Len(timetable[i]) = pb.tracks
                                   /\ NoClash(ClashTable(pb), timetable[i])
         /\ IsInjective(FlattenSeq(timetable)) /\ Len(FlattenSeq(timetable)) = Len(pb.talks)
<1> DEFINE T == Range(pb.talks)
           V == Seq(T)
<1>1. pb.slots \in Nat /\ pb.tracks \in Nat
  BY DEF Conference
<1>2. timetable \in [1..pb.slots -> [1..pb.tracks -> T]] /\ Valid(pb, timetable)
  BY DEF AllTimetables
<1>3. DOMAIN timetable = 1..pb.slots /\ \A i \in 1..pb.slots : timetable[i] \in [1..pb.tracks -> T]
  BY <1>2
<1> HIDE DEF T
<1>4. \A slot \in [1..pb.tracks -> T] : slot \in V /\ Len(slot) = pb.tracks
  BY <1>1
<1>5. \A i \in 1..pb.slots : timetable[i] \in V /\ Len(timetable[i]) = pb.tracks
  BY <1>3, <1>4
<1> HIDE DEF V
<1>6. timetable \in Seq(V) /\ Len(timetable) = pb.slots
  <2>1. timetable = [i \in 1..pb.slots |-> timetable[i]]
    BY <1>2
  <2>2. \A i \in 1..pb.slots : timetable[i] \in V
    BY <1>5
  <2>3. timetable \in Seq(V)
    BY <1>1, <2>1, <2>2, IsASeq
  <2>4. DOMAIN timetable = 1..Len(timetable) /\ Len(timetable) \in Nat
    BY <2>3, LenProperties
  <2>5. 1..Len(timetable) = 1..pb.slots
    BY <1>3, <2>4
  <2> QED BY <1>1, <2>3, <2>4, <2>5
<1>7. ASSUME NEW i \in 1..pb.slots PROVE NoClash(ClashTable(pb), timetable[i])
  <2> DEFINE slot == timetable[i]
  <2>1. /\ \A j \in DOMAIN slot : \A k \in (j + 1)..Len(slot) : slot[k] \notin Clashes(pb, slot[j])
    BY <1>2, <1>3 DEF Valid
  <2>2. slot \in Seq(T) /\ DOMAIN slot = 1..Len(slot)
    BY <1>5, LenProperties DEF V
  <2> HIDE DEF slot
  <2>3. \A j \in 1..Len(slot) : slot[j] \in T
    BY <2>2, ElementOfSeq
  <2>4. \A j \in 1..Len(slot) : ClashTable(pb)[slot[j]] = Clashes(pb, slot[j])
    BY <2>3 DEF ClashTable, T
  <2>5. NoClash(ClashTable(pb), slot)
    BY <2>1, <2>2, <2>4 DEF NoClash
  <2> QED BY <2>5 DEF slot
<1>8. IsInjective(FlattenSeq(timetable)) /\ Len(FlattenSeq(timetable)) = Len(pb.talks)
  BY <1>2 DEF Valid
<1> QED BY <1>5, <1>6, <1>7, <1>8 DEF Timetables, V, T

(* What a state that is not at the end of a slot, and not of the timetable,   *)
(* has.                                                                       *)
Midway(pb, st) ==
  /\ Typed(Range(pb.talks), st)
  /\ st.slot_no + 1 \in 1..pb.slots /\ st.track_no + 1 \in 1..pb.tracks

NextTalk(st, timetable) == timetable[st.slot_no + 1][st.track_no + 1]

LEMMA ProperMidway ==
  ASSUME NEW pb, Conference(pb), NEW st, Proper(pb, st), ~ Finished(pb, st),
         st.track_no # pb.tracks
  PROVE  Midway(pb, st)
<1>1. /\ st.slot_no \in 0..pb.slots /\ st.track_no \in 0..pb.tracks
      /\ pb.slots \in Nat /\ pb.tracks \in Nat /\ st.slot_no # pb.slots
  BY DEF Proper, State, Conference, Finished
<1>2. Typed(Range(pb.talks), st)
  BY DEF Proper, VectorFits, Fits
<1> QED BY <1>1, <1>2 DEF Midway

LEMMA ExtendsOpen ==
  ASSUME NEW pb, Conference(pb), NEW st, Midway(pb, st),
         NEW timetable \in AllTimetables(pb), Extends(st, timetable)
  PROVE  \E d \in Seq(Range(pb.talks)) :
           /\ timetable[st.slot_no + 1] =
                (st.current_slot \o <<NextTalk(st, timetable)>>) \o d
           /\ NextTalk(st, timetable) \in Range(pb.talks)
<1> DEFINE T == Range(pb.talks)
           slot == timetable[st.slot_no + 1]
           k == st.track_no
           a == SubSeq(slot, 1, (k + 1) - 1)
<1>1. /\ st.current_slot \in Seq(T) /\ Len(st.current_slot) = k /\ k \in Nat
      /\ k + 1 \in 1..pb.tracks /\ st.slot_no + 1 \in 1..pb.slots
  BY DEF Midway, Typed
<1>2. slot \in Seq(T) /\ Len(slot) = pb.tracks
  BY <1>1, TimetableHas
<1>3. \A j \in 1..k : slot[j] = st.current_slot[j]
  BY DEF Extends
<1>4. NextTalk(st, timetable) = slot[k + 1]
  BY DEF NextTalk
<1> HIDE DEF slot, k, T
<1>5. /\ a \in Seq(T) /\ SubSeq(slot, (k + 1) + 1, Len(slot)) \in Seq(T) /\ slot[k + 1] \in T
      /\ slot = (a \o <<slot[k + 1]>>) \o SubSeq(slot, (k + 1) + 1, Len(slot))
  BY <1>1, <1>2, Split
<1>6. a = st.current_slot
  <2>1. (k + 1) - 1 = k /\ k <= Len(slot)
    BY <1>1, <1>2
  <2>2. Len(a) = k /\ \A j \in 1..k : a[j] = slot[j]
    BY <1>1, <1>2, <2>1
  <2> HIDE DEF a
  <2> QED BY <1>1, <1>3, <1>5, <2>2, SeqEqual
<1> QED BY <1>4, <1>5, <1>6 DEF T, slot

Rearranged(f, c, t, d, g) ==
  (f \o ((c \o t) \o d)) \o g = ((f \o c) \o t) \o (d \o g)

LEMMA Rearranging ==
  ASSUME NEW T, NEW f \in Seq(T), NEW c \in Seq(T), NEW t \in Seq(T), NEW d \in Seq(T),
         NEW g \in Seq(T)
  PROVE  Rearranged(f, c, t, d, g)
<1> DEFINE Q == Seq(T)
           J(a, b) == a \o b
<1>1. \A a, b, e \in Q : J(J(a, b), e) = J(a, J(b, e))
  <2>1. Associative(T)
    BY ConcatAssoc
  <2> QED BY ONLY <2>1 DEF Associative
<1>2. \A a, b \in Q : J(a, b) \in Q
  BY ConcatProperties
<1>3. f \in Q /\ c \in Q /\ t \in Q /\ d \in Q /\ g \in Q
  OBVIOUS
<1> HIDE DEF Q, J
<1>4. J(c, t) \in Q /\ J(f, J(c, t)) \in Q
  BY <1>2, <1>3
<1>5. J(f, J(J(c, t), d)) = J(J(f, J(c, t)), d) /\ J(f, J(c, t)) = J(J(f, c), t)
  BY <1>1, <1>3, <1>4
<1>6. J(J(J(f, J(c, t)), d), g) = J(J(f, J(c, t)), J(d, g))
  BY <1>1, <1>3, <1>4
<1>7. J(J(f, J(J(c, t), d)), g) = J(J(J(f, c), t), J(d, g))
  BY ONLY <1>5, <1>6
<1> QED BY <1>7 DEF Rearranged, J

(* The talks of a timetable that extends the state: those the state placed,   *)
(* then the next.                                                             *)
LEMMA ExtendsFlat ==
  ASSUME NEW pb, Conference(pb), NEW st, Midway(pb, st),
         NEW timetable \in AllTimetables(pb), Extends(st, timetable)
  PROVE  \E x \in Seq(Range(pb.talks)) :
           FlattenSeq(timetable) = (Filled(st) \o <<NextTalk(st, timetable)>>) \o x
<1> DEFINE T == Range(pb.talks)
           V == Seq(T)
           n == st.slot_no
           t == NextTalk(st, timetable)
           a == SubSeq(timetable, 1, (n + 1) - 1)
           c == SubSeq(timetable, (n + 1) + 1, Len(timetable))
           slot == timetable[n + 1]
<1>1. /\ st.slots \in Seq(V) /\ Len(st.slots) = n /\ n \in Nat /\ n + 1 \in 1..pb.slots
      /\ st.current_slot \in V
  BY DEF Midway, Typed
<1>2. timetable \in Seq(V) /\ Len(timetable) = pb.slots
  BY TimetableHas DEF Timetables
<1>3. PICK d \in V : slot = (st.current_slot \o <<t>>) \o d /\ t \in T
  BY ExtendsOpen
<1>4. \A i \in 1..n : timetable[i] = st.slots[i]
  BY DEF Extends
<1> HIDE DEF V, n, t
<1>5. /\ a \in Seq(V) /\ c \in Seq(V) /\ slot \in V /\ <<slot>> \in Seq(V)
      /\ timetable = (a \o <<slot>>) \o c
  BY <1>1, <1>2, Split
<1>6. a = st.slots
  <2>1. (n + 1) - 1 = n /\ n <= Len(timetable)
    BY <1>1, <1>2
  <2>2. Len(a) = n /\ \A i \in 1..n : a[i] = timetable[i]
    BY <1>1, <1>2, <2>1
  <2> HIDE DEF a
  <2> QED BY <1>1, <1>4, <1>5, <2>2, SeqEqual
<1> HIDE DEF a, c, slot
<1>7. FlattenSeq(timetable) = (FlattenSeq(a) \o slot) \o FlattenSeq(c)
  <2>1. a \o <<slot>> \in Seq(V)
    BY <1>5, ConcatProperties
  <2>2. FlattenSeq(timetable) = FlattenSeq(a \o <<slot>>) \o FlattenSeq(c)
    BY <1>5, <2>1, FlattenConcat DEF V
  <2>3. FlattenSeq(a \o <<slot>>) = FlattenSeq(a) \o FlattenSeq(<<slot>>)
    BY <1>5, FlattenConcat DEF V
  <2>4. FlattenSeq(<<slot>>) = slot
    BY <1>5, FlattenOne DEF V
  <2> QED BY <2>2, <2>3, <2>4
<1> DEFINE f == FlattenSeq(st.slots)
           g == FlattenSeq(c)
<1>8. f \in V /\ g \in V
  BY <1>1, <1>5, FlattenType DEF V
<1> HIDE DEF f, g
<1>9. FlattenSeq(timetable) = (f \o ((st.current_slot \o <<t>>) \o d)) \o g
  BY <1>3, <1>6, <1>7 DEF f, g
<1>10. <<t>> \in V
  BY <1>3 DEF V
<1>11. (f \o ((st.current_slot \o <<t>>) \o d)) \o g
         = ((f \o st.current_slot) \o <<t>>) \o (d \o g)
  <2> DEFINE u == st.current_slot
             v == <<t>>
  <2>1. f \in Seq(T) /\ u \in Seq(T) /\ v \in Seq(T) /\ d \in Seq(T) /\ g \in Seq(T)
    BY <1>1, <1>3, <1>8, <1>10 DEF V
  <2> HIDE DEF T, u, v
  <2>2. Rearranged(f, u, v, d, g)
    BY <2>1, Rearranging
  <2> QED BY <2>2 DEF u, v, Rearranged
<1>12. d \o g \in V
  BY <1>3, <1>8, ConcatProperties DEF V
<1> QED BY <1>9, <1>11, <1>12 DEF Filled, f, V, t

LEMMA NextIsCandidate ==
  ASSUME NEW pb, Conference(pb), NEW st, Proper(pb, st), Midway(pb, st),
         NEW timetable \in Extensions(pb, st)
  PROVE  NextTalk(st, timetable) \in Range(st.slot_candidates)
<1> DEFINE T == Range(pb.talks)
           C == ClashTable(pb)
           t == NextTalk(st, timetable)
           c == st.current_slot
           f == Filled(st)
           R == Range(st.remaining_talks)
           slot == timetable[st.slot_no + 1]
<1>1. timetable \in AllTimetables(pb) /\ Extends(st, timetable)
  BY DEF Extensions
<1>2. /\ Range(st.slot_candidates) = {u \in R : \A v \in Range(c) : u \notin C[v]}
      /\ R = T \ Range(f) /\ c \in Seq(T) /\ f \in Seq(T)
  <2>1. Fits(T, C, pb.tracks, st, R, Range(st.slot_candidates))
    BY DEF Proper, VectorFits
  <2>2. Typed(T, st) /\ R = T \ Range(f) /\ Range(st.slot_candidates) = Candidates(C, st, R)
    BY <2>1 DEF Fits
  <2> QED BY <2>2, FilledType DEF Typed, Candidates
<1>3. PICK d \in Seq(T) : slot = (c \o <<t>>) \o d /\ t \in T
  BY <1>1, ExtendsOpen
<1>4. PICK x \in Seq(T) : FlattenSeq(timetable) = (f \o <<t>>) \o x
  BY <1>1, ExtendsFlat
<1>5. NoClash(C, slot) /\ IsInjective(FlattenSeq(timetable))
  <2>1. st.slot_no + 1 \in 1..pb.slots
    BY DEF Midway
  <2> QED BY <1>1, <2>1, TimetableHas
<1> HIDE DEF T, C, t, c, f, R, slot
<1>6. ASSUME NEW s \in Seq(T), NEW y \in Seq(T)
      PROVE  /\ \A i \in 1..Len(s) : ((s \o <<t>>) \o y)[i] = s[i]
             /\ ((s \o <<t>>) \o y)[Len(s) + 1] = t
             /\ Len(s) + 1 \in 1..Len((s \o <<t>>) \o y) /\ Len(s) \in Nat
             /\ DOMAIN ((s \o <<t>>) \o y) = 1..Len((s \o <<t>>) \o y)
  <2> DEFINE a == s \o <<t>>
             b == a \o y
  <2>1. /\ a \in Seq(T) /\ Len(a) = Len(s) + 1 /\ Len(s) \in Nat
        /\ \A i \in 1..Len(s) : a[i] = s[i]
        /\ a[Len(s) + 1] = t
    <3>1. <<t>> \in Seq(T) /\ Len(<<t>>) = 1 /\ <<t>>[1] = t
      BY <1>3
    <3>2. a = Append(s, t)
      BY <1>3, AppendIsConcat
    <3> HIDE DEF a
    <3> QED BY <1>3, <3>2, AppendProperties, LenProperties
  <2> HIDE DEF a
  <2>2. /\ b \in Seq(T) /\ Len(b) = Len(a) + Len(y) /\ Len(y) \in Nat
        /\ \A i \in 1..(Len(a) + Len(y)) : b[i] = IF i <= Len(a) THEN a[i] ELSE y[i - Len(a)]
    BY <2>1, ConcatProperties, LenProperties
  <2>3. DOMAIN b = 1..Len(b)
    BY <2>2, LenProperties
  <2> HIDE DEF b
  <2>4. \A i \in 1..(Len(s) + 1) : b[i] = a[i]
    BY <2>1, <2>2
  <2>5. /\ \A i \in 1..Len(s) : b[i] = s[i]
        /\ b[Len(s) + 1] = t
        /\ Len(s) + 1 \in 1..Len(b)
    BY <2>1, <2>2, <2>4
  <2> QED BY <2>1, <2>3, <2>5 DEF a, b
<1>7. t \notin Range(f)
  <2> DEFINE all == FlattenSeq(timetable)
  <2>1. /\ \A i \in 1..Len(f) : all[i] = f[i]
        /\ all[Len(f) + 1] = t /\ Len(f) + 1 \in 1..Len(all) /\ Len(f) \in Nat
        /\ DOMAIN all = 1..Len(all)
    BY <1>2, <1>4, <1>6
  <2> HIDE DEF all
  <2>2. Len(all) \in Nat
    BY <1>4, <1>2, <1>3, ConcatProperties, LenProperties DEF all
  <2>3. ASSUME NEW i \in 1..Len(f) PROVE f[i] # t
    <3>1. i \in 1..Len(all) /\ i # Len(f) + 1
      BY <2>1, <2>2
    <3> QED BY <1>5, <2>1, <3>1 DEF IsInjective, all
  <2>4. DOMAIN f = 1..Len(f)
    BY <1>2, LenProperties
  <2> QED BY <2>3, <2>4 DEF Range
<1>8. ASSUME NEW v \in Range(c) PROVE t \notin C[v]
  <2>1. /\ \A i \in 1..Len(c) : slot[i] = c[i]
        /\ slot[Len(c) + 1] = t /\ Len(c) + 1 \in 1..Len(slot) /\ Len(c) \in Nat
    BY <1>2, <1>3, <1>6
  <2>2. PICK i \in 1..Len(c) : v = c[i]
    BY <1>2, LenProperties DEF Range
  <2>3. i \in 1..Len(slot) /\ Len(c) + 1 \in (i + 1)..Len(slot)
    BY <2>1
  <2> QED BY <1>5, <2>1, <2>2, <2>3 DEF NoClash
<1> QED BY <1>2, <1>3, <1>7, <1>8 DEF t

(* Selecting a candidate keeps the extensions that go on with it.             *)
LEMMA SelectedExtends ==
  ASSUME NEW pb, Conference(pb), NEW st, Midway(pb, st), NEW talk, NEW next,
         next.slots = st.slots, next.current_slot = Append(st.current_slot, talk),
         talk \in Range(pb.talks),
         next.slot_no = st.slot_no, next.track_no = st.track_no + 1,
         NEW timetable
  PROVE  Extends(next, timetable) <=>
           Extends(st, timetable) /\ NextTalk(st, timetable) = talk
<1> DEFINE k == st.track_no
           c == st.current_slot
           slot == timetable[st.slot_no + 1]
<1>1. k \in Nat /\ c \in Seq(Range(pb.talks)) /\ Len(c) = k
  BY DEF Midway, Typed
<1>2. (\A j \in 1..k : Append(c, talk)[j] = c[j]) /\ Append(c, talk)[k + 1] = talk
  BY <1>1, AppendProperties
<1>3. 1..(k + 1) = 1..k \cup {k + 1}
  BY <1>1
<1> HIDE DEF k, c, slot
<1>4. (\A j \in 1..(k + 1) : slot[j] = Append(c, talk)[j])
        <=> (\A j \in 1..k : slot[j] = c[j]) /\ slot[k + 1] = talk
  BY <1>2, <1>3
<1>5. Extends(next, timetable) <=>
        /\ \A i \in 1..st.slot_no : timetable[i] = st.slots[i]
        /\ \A j \in 1..(k + 1) : slot[j] = Append(c, talk)[j]
  BY DEF Extends, k, c, slot
<1>6. Extends(st, timetable) <=>
        /\ \A i \in 1..st.slot_no : timetable[i] = st.slots[i]
        /\ \A j \in 1..k : slot[j] = c[j]
  BY DEF Extends, k, c, slot
<1>7. NextTalk(st, timetable) = slot[k + 1]
  BY DEF NextTalk, k, slot
<1> QED BY <1>4, <1>5, <1>6, <1>7

(* A full slot that is committed keeps them all.                              *)
LEMMA CommittedExtends ==
  ASSUME NEW pb, Conference(pb), NEW st, Proper(pb, st), ~ Finished(pb, st),
         st.track_no = pb.tracks
  PROVE  Extensions(pb, Committed(st)) = Extensions(pb, st)
<1> DEFINE next == Committed(st)
           T == Range(pb.talks)
           V == Seq(T)
           n == st.slot_no
           c == st.current_slot
<1>1. /\ st.slots \in Seq(V) /\ Len(st.slots) = n /\ n \in Nat
      /\ c \in V /\ Len(c) = pb.tracks
  BY DEF Proper, VectorFits, Fits, Typed
<1>2. n + 1 \in 1..pb.slots /\ pb.tracks \in Nat
  <2>1. n \in 0..pb.slots /\ n # pb.slots
    BY DEF Proper, State, Finished
  <2>2. pb.slots \in Nat /\ pb.tracks \in Nat
    BY DEF Conference
  <2> HIDE DEF n
  <2> QED BY <2>1, <2>2
<1>3. /\ next.slots = Append(st.slots, c) /\ next.slot_no = n + 1 /\ next.track_no = 0
  BY DEF Committed
<1> HIDE DEF next, V, n, c
<1>4. (\A i \in 1..n : Append(st.slots, c)[i] = st.slots[i]) /\ Append(st.slots, c)[n + 1] = c
  BY <1>1, AppendProperties
<1>5. 1..(n + 1) = 1..n \cup {n + 1} /\ 1..0 = {}
  BY <1>1
<1>6. ASSUME NEW timetable \in AllTimetables(pb)
      PROVE  Extends(next, timetable) <=> Extends(st, timetable)
  <2>1. Extends(next, timetable) <=>
          (\A i \in 1..n : timetable[i] = st.slots[i]) /\ timetable[n + 1] = c
    BY <1>3, <1>4, <1>5 DEF Extends
  <2>2. timetable[n + 1] \in V /\ Len(timetable[n + 1]) = pb.tracks
    BY <1>2, TimetableHas DEF V
  <2>3. timetable[n + 1] = c <=> \A j \in 1..pb.tracks : timetable[n + 1][j] = c[j]
    <3> DEFINE slot == timetable[n + 1]
    <3> HIDE DEF slot
    <3>1. (\A j \in 1..pb.tracks : slot[j] = c[j]) => slot = c
      BY <1>1, <2>2, SeqEqual DEF slot, V
    <3> QED BY <3>1 DEF slot
  <2>4. Extends(st, timetable) <=>
          /\ \A i \in 1..n : timetable[i] = st.slots[i]
          /\ \A j \in 1..pb.tracks : timetable[n + 1][j] = c[j]
    BY DEF Extends, n, c
  <2> QED BY <2>1, <2>3, <2>4
<1> QED BY <1>6 DEF Extensions, next

LEMMA FlattenLen ==
  ASSUME NEW A, NEW s \in Seq(Seq(A)), NEW m \in Nat, \A i \in 1..Len(s) : Len(s[i]) = m
  PROVE  Len(FlattenSeq(s)) = Len(s) * m
<1>1. PICK g \in [0..Len(s) -> Seq(A)] : Flattens(g, s) /\ FlattenSeq(s) = g[Len(s)]
  BY FlattenHas
<1>2. Len(s) \in Nat /\ \A i \in 1..Len(s) : s[i] \in Seq(A)
  OBVIOUS
<1> DEFINE N == {i \in Nat : i <= Len(s) => Len(g[i]) = i * m}
<1>3. 0 \in N
  <2>1. g[0] = <<>> /\ Len(<<>>) = 0 /\ 0 * m = 0
    BY <1>1 DEF Flattens
  <2> QED BY <2>1
<1>4. ASSUME NEW i \in Nat, i \in N PROVE i + 1 \in N
  <2> SUFFICES ASSUME NEW j \in 1..Len(s), j = i + 1 PROVE Len(g[j]) = j * m
    BY <1>2
  <2>1. j - 1 = i /\ i <= Len(s) /\ i \in 0..Len(s)
    BY <1>2
  <2>2. g[j] = g[i] \o s[j] /\ g[i] \in Seq(A) /\ s[j] \in Seq(A)
    BY <1>1, <1>2, <2>1 DEF Flattens
  <2>3. Len(g[j]) = Len(g[i]) + Len(s[j])
    BY <2>2, ConcatProperties
  <2>4. Len(g[i]) = i * m /\ Len(s[j]) = m
    BY <1>4, <2>1
  <2>5. (i + 1) * m = i * m + m
    OBVIOUS
  <2> QED BY <2>3, <2>4, <2>5
<1>5. Len(s) \in N
  <2> HIDE DEF N
  <2> QED BY <1>2, <1>3, <1>4, Induction
<1> QED BY <1>1, <1>2, <1>5

(* A finished state is its only extension.                                    *)
LEMMA FinishedIsTimetable ==
  ASSUME NEW pb, Conference(pb), NEW st, Proper(pb, st), Finished(pb, st)
  PROVE  st.slots \in AllTimetables(pb)
<1> DEFINE T == Range(pb.talks)
           V == Seq(T)
           C == ClashTable(pb)
           s == st.slots
           n == pb.slots
           m == pb.tracks
<1>1. n \in Nat /\ m \in Nat /\ Len(pb.talks) = n * m
  BY DEF Conference
<1>2. /\ s \in Seq(V) /\ Len(s) = n /\ st.current_slot \in V /\ Len(st.current_slot) = 0
      /\ \A i \in 1..n : Len(s[i]) = m /\ NoClash(C, s[i])
      /\ IsInjective(Filled(st))
  <2>1. Fits(T, C, m, st, Range(st.remaining_talks), Range(st.slot_candidates))
    BY DEF Proper, VectorFits
  <2>2. Typed(T, st) /\ Unclashing(C, m, st) /\ IsInjective(Filled(st))
    BY <2>1 DEF Fits
  <2>3. st.track_no = 0 /\ st.slot_no = n
    BY DEF Proper, Finished
  <2> HIDE DEF T, C, m, n
  <2> QED BY <2>2, <2>3 DEF Typed, Unclashing
<1>3. \A i \in 1..n : s[i] \in V
  BY <1>2, ElementOfSeq
<1> HIDE DEF V, s, n, m
<1>4. FlattenSeq(s) \in V
  BY <1>2, FlattenType DEF V
<1>5. Filled(st) = FlattenSeq(s)
  <2>1. st.current_slot = <<>>
    BY <1>2 DEF V
  <2> QED BY <1>4, <2>1, ConcatEmptySeq DEF Filled, s, V
<1>6. Len(FlattenSeq(s)) = Len(pb.talks)
  BY <1>1, <1>2, FlattenLen DEF V
<1>7. \A slot \in V : Len(slot) = m => slot \in [1..m -> T]
  BY DEF V
<1>8. s \in [1..n -> [1..m -> T]]
  <2> DEFINE W == [1..m -> T]
  <2>1. \A i \in 1..n : s[i] \in W
    BY <1>2, <1>3, <1>7
  <2>2. s = [i \in 1..n |-> s[i]]
    BY <1>2
  <2> HIDE DEF W
  <2>3. s \in [1..n -> W]
    BY <2>1, <2>2
  <2> QED BY <2>3 DEF W
<1>9. ASSUME NEW i \in 1..n
      PROVE  \A j \in DOMAIN s[i] : \A k \in (j + 1)..Len(s[i]) :
               s[i][k] \notin Clashes(pb, s[i][j])
  <2> DEFINE slot == s[i]
  <2>1. slot \in Seq(T) /\ DOMAIN slot = 1..Len(slot)
    BY <1>3, LenProperties DEF V
  <2> HIDE DEF slot
  <2>2. \A j \in 1..Len(slot) : C[slot[j]] = Clashes(pb, slot[j])
    BY <2>1, ElementOfSeq DEF ClashTable
  <2>3. NoClash(C, slot)
    BY <1>2 DEF slot
  <2>4. \A j \in DOMAIN slot : \A k \in (j + 1)..Len(slot) : slot[k] \notin Clashes(pb, slot[j])
    BY <2>1, <2>2, <2>3 DEF NoClash
  <2> QED BY <2>4 DEF slot
<1>10. DOMAIN s = 1..n
  BY <1>8
<1>11. Valid(pb, s)
  <2>1. Len(s) = pb.slots
    BY <1>2 DEF n
  <2>2. IsInjective(FlattenSeq(s))
    BY <1>2, <1>5
  <2>3. \A i \in DOMAIN s : Len(s[i]) = pb.tracks
    BY <1>2, <1>10 DEF m
  <2>4. \A i \in DOMAIN s : \A j \in DOMAIN s[i] : \A k \in (j + 1)..Len(s[i]) :
          s[i][k] \notin Clashes(pb, s[i][j])
    BY <1>9, <1>10
  <2> QED BY <1>6, <2>1, <2>2, <2>3, <2>4 DEF Valid
<1> QED BY <1>8, <1>11 DEF AllTimetables, s, n, m

LEMMA FinishedExtends ==
  ASSUME NEW pb, Conference(pb), NEW st, Proper(pb, st), Finished(pb, st)
  PROVE  Extensions(pb, st) = {st.slots}
<1>1. st.slots \in AllTimetables(pb)
  BY FinishedIsTimetable
<1>2. st.slot_no = pb.slots /\ st.track_no = 0 /\ 1..0 = {}
  BY DEF Proper, Finished
<1>3. Extends(st, st.slots)
  BY <1>2 DEF Extends
<1>4. ASSUME NEW timetable \in AllTimetables(pb), Extends(st, timetable)
      PROVE  timetable = st.slots
  <2>1. /\ timetable \in Timetables(pb) /\ Len(timetable) = pb.slots
        /\ st.slots \in Timetables(pb) /\ Len(st.slots) = pb.slots
    BY <1>1, TimetableHas
  <2>2. \A i \in 1..Len(timetable) : timetable[i] = st.slots[i]
    BY <1>2, <1>4, <2>1 DEF Extends
  <2> QED BY <2>1, <2>2, SeqEqual DEF Timetables
<1> QED BY <1>1, <1>3, <1>4 DEF Extensions

(* Of two extensions, the one whose next talk has the smaller position comes  *)
(* first.                                                                     *)
LEMMA EarlierNext ==
  ASSUME NEW pb, Conference(pb), NEW st, Midway(pb, st),
         NEW a \in Extensions(pb, st), NEW b \in Extensions(pb, st),
         <<NextTalk(st, a), NextTalk(st, b)>> \in Ranked(pb)
  PROVE  <<a, b>> \in Earlier(pb)
<1> DEFINE T == Range(pb.talks)
           f == Filled(st)
           p == FlattenSeq(a)
           q == FlattenSeq(b)
           t == NextTalk(st, a)
           u == NextTalk(st, b)
<1>1. /\ a \in AllTimetables(pb) /\ Extends(st, a) /\ b \in AllTimetables(pb) /\ Extends(st, b)
  BY DEF Extensions
<1>2. f \in Seq(T)
  BY FilledType DEF Midway
<1>3. PICK x \in Seq(T) : p = (f \o <<t>>) \o x
  BY <1>1, ExtendsFlat
<1>4. PICK y \in Seq(T) : q = (f \o <<u>>) \o y
  BY <1>1, ExtendsFlat
<1>5. t \in T /\ u \in T /\ Position(pb, t) < Position(pb, u)
  BY DEF Ranked
<1> HIDE DEF T, f, p, q, t, u
<1>6. ASSUME NEW e \in T, NEW z \in Seq(T), NEW r, r = (f \o <<e>>) \o z
      PROVE  /\ Len(f) + 1 \in DOMAIN r /\ r[Len(f) + 1] = e /\ Len(f) \in Nat
             /\ \A i \in 1..Len(f) : r[i] = f[i]
  <2>1. f \o <<e>> = Append(f, e)
    BY <1>2, AppendIsConcat
  <2>2. /\ Append(f, e) \in Seq(T) /\ Len(Append(f, e)) = Len(f) + 1 /\ Len(f) \in Nat
        /\ \A i \in 1..Len(f) : Append(f, e)[i] = f[i]
        /\ Append(f, e)[Len(f) + 1] = e
    BY <1>2, AppendProperties, LenProperties
  <2> DEFINE g == Append(f, e)
  <2> HIDE DEF g
  <2>3. /\ r \in Seq(T) /\ Len(r) = Len(g) + Len(z) /\ Len(z) \in Nat
        /\ \A i \in 1..(Len(g) + Len(z)) : r[i] = IF i <= Len(g) THEN g[i] ELSE z[i - Len(g)]
    BY <1>6, <2>1, <2>2, ConcatProperties, LenProperties DEF g
  <2>4. DOMAIN r = 1..Len(r)
    BY <2>3, LenProperties
  <2>5. \A i \in 1..(Len(f) + 1) : i \in DOMAIN r /\ r[i] = g[i]
    BY <2>2, <2>3, <2>4 DEF g
  <2> QED BY <2>2, <2>5 DEF g
<1>7. /\ Len(f) + 1 \in DOMAIN p /\ p[Len(f) + 1] = t /\ Len(f) \in Nat
      /\ \A i \in 1..Len(f) : p[i] = f[i]
  BY <1>3, <1>5, <1>6
<1>8. q[Len(f) + 1] = u /\ \A i \in 1..Len(f) : q[i] = f[i]
  BY <1>4, <1>5, <1>6
<1>9. \A j \in 1..((Len(f) + 1) - 1) : p[j] = q[j]
  BY <1>7, <1>8
<1>10. Before(pb, a, b)
  BY <1>5, <1>7, <1>8, <1>9 DEF Before, p, q
<1> QED BY <1>1, <1>10 DEF Earlier

(* What is found below a state: its extensions, in their order.               *)
Finds(pb, st, found) ==
  /\ found \in Seq(Timetables(pb))
  /\ Range(found) = Extensions(pb, st) /\ InOrder(Earlier(pb), found)

LEMMA FindsFinished ==
  ASSUME NEW pb, Conference(pb), NEW st, Proper(pb, st), Finished(pb, st)
  PROVE  Finds(pb, st, SeqSearch(pb, st))
<1>1. SeqSearch(pb, st) \in Seq(Timetables(pb)) /\ SeqSearch(pb, st) = <<st.slots>>
  BY SeqSearchUnfolds DEF Proper
<1>2. Extensions(pb, st) = {st.slots}
  BY FinishedExtends
<1> DEFINE x == st.slots
<1> HIDE DEF x
<1>3. Range(<<x>>) = {x} /\ InOrder(Earlier(pb), <<x>>)
  BY DEF Range, InOrder
<1> QED BY <1>1, <1>2, <1>3 DEF Finds, x

LEMMA FindsCommitted ==
  ASSUME NEW pb, Conference(pb), NEW st, Proper(pb, st), ~ Finished(pb, st),
         st.track_no = pb.tracks,
         \A next : Proper(pb, next) /\ Left(pb, next) < Left(pb, st)
                     => Finds(pb, next, SeqSearch(pb, next))
  PROVE  Finds(pb, st, SeqSearch(pb, st))
<1> DEFINE next == Committed(st)
           found == SeqSearch(pb, next)
<1>1. st \in State(pb) /\ Refine(pb, st) = <<next>> /\ IsBranch(pb, st, next)
  BY CommittedIsBranch DEF Proper, Refine
<1>2. Proper(pb, next)
  <2> HIDE DEF next
  <2>1. 1 \in DOMAIN Refine(pb, st) /\ Refine(pb, st)[1] = next
    BY <1>1
  <2> QED BY <2>1, RefineProper
<1>3. Finds(pb, next, found)
  BY <1>1, <1>2 DEF IsBranch
<1>4. Extensions(pb, next) = Extensions(pb, st)
  BY CommittedExtends
<1>5. SeqSearch(pb, st) = FlattenSeq([i \in DOMAIN Refine(pb, st) |->
                                        SeqSearch(pb, Refine(pb, st)[i])])
  BY <1>1, SeqSearchUnfolds
<1> HIDE DEF next
<1>6. [i \in DOMAIN Refine(pb, st) |-> SeqSearch(pb, Refine(pb, st)[i])] = <<found>>
  BY <1>1
<1> HIDE DEF found
<1>7. SeqSearch(pb, st) = found
  BY <1>3, <1>5, <1>6, FlattenOne DEF Finds
<1> QED BY <1>3, <1>4, <1>7 DEF Finds

LEMMA FindsSelected ==
  ASSUME NEW pb, Conference(pb), NEW st, Proper(pb, st), ~ Finished(pb, st),
         st.track_no # pb.tracks,
         \A next : Proper(pb, next) /\ Left(pb, next) < Left(pb, st)
                     => Finds(pb, next, SeqSearch(pb, next))
  PROVE  Finds(pb, st, SeqSearch(pb, st))
<1> DEFINE T == Range(pb.talks)
           W == Timetables(pb)
           L == Earlier(pb)
           c == st.slot_candidates
           n == Len(c)
           kids == Refine(pb, st)
           found == [i \in DOMAIN kids |-> SeqSearch(pb, kids[i])]
           Those(i) == {a \in Extensions(pb, st) : NextTalk(st, a) = c[i]}
<1>1. /\ st \in State(pb) /\ c \in Seq(T) /\ DOMAIN c = 1..n /\ n \in Nat
      /\ IsRecord(st) /\ InOrder(Ranked(pb), c)
  BY LenProperties DEF Proper, State, IsRecord
<1>2. kids = [i \in 1..n |-> Selected(pb, st, i)]
  BY <1>1 DEF Refine
<1>3. Midway(pb, st)
  BY ProperMidway
<1>4. SeqSearch(pb, st) = FlattenSeq(found)
  BY <1>1, SeqSearchUnfolds
<1>5. \A i \in DOMAIN kids : Proper(pb, kids[i]) /\ IsBranch(pb, st, kids[i])
  BY <1>1, RefineProper, RefineBranches
<1> HIDE DEF kids
<1>6. DOMAIN kids = 1..n /\ \A i \in 1..n : kids[i] = Selected(pb, st, i)
  BY <1>2
<1>7. \A i \in 1..n : Finds(pb, kids[i], SeqSearch(pb, kids[i]))
  BY <1>5, <1>6 DEF IsBranch
<1>8. ASSUME NEW i \in 1..n PROVE Extensions(pb, kids[i]) = Those(i)
  <2> DEFINE talk == c[i]
             next == kids[i]
  <2>1. talk \in T
    BY <1>1, ElementOfSeq
  <2>2. talk = st.slot_candidates[i] /\ next = Selected(pb, st, i)
    BY <1>6
  <2> HIDE DEF talk, next
  <2>3. SelectedHas(pb, st, i, talk, next)
    BY <1>1, <2>2, SelectedIs
  <2>4. \A a : Extends(next, a) <=> Extends(st, a) /\ NextTalk(st, a) = talk
    BY <1>3, <2>1, <2>3, SelectedExtends DEF SelectedHas
  <2> QED BY <2>4 DEF Extensions, talk, next
<1>9. \A i \in 1..n : /\ found[i] \in Seq(W) /\ Range(found[i]) = Those(i)
                      /\ InOrder(L, found[i])
  BY <1>6, <1>7, <1>8 DEF Finds
<1>10. found \in Seq(Seq(W)) /\ Len(found) = n
  <2> DEFINE V == Seq(W)
  <2>1. \A i \in 1..n : found[i] \in V
    BY <1>9
  <2>2. found = [i \in 1..n |-> found[i]]
    BY <1>6
  <2>5. n \in Nat
    BY <1>1
  <2> HIDE DEF V, found, n
  <2>3. found \in Seq(V)
    BY <2>1, <2>2, <2>5, IsASeq
  <2>4. Len(found) = n
    BY <2>2, <2>5
  <2> QED BY <2>3, <2>4 DEF V
<1> HIDE DEF found, L
<1>11. InOrder(L, FlattenSeq(found))
  <2>1. ASSUME NEW i \in 1..n, NEW j \in 1..n, i < j PROVE Across(L, found[i], found[j])
    <3> SUFFICES ASSUME NEW a \in Those(i), NEW b \in Those(j) PROVE <<a, b>> \in L
      BY <1>9 DEF Across
    <3>1. /\ a \in Extensions(pb, st) /\ NextTalk(st, a) = c[i]
          /\ b \in Extensions(pb, st) /\ NextTalk(st, b) = c[j]
      OBVIOUS
    <3>2. <<c[i], c[j]>> \in Ranked(pb)
      BY <1>1, <2>1 DEF InOrder
    <3> QED BY <1>3, <3>1, <3>2, EarlierNext DEF L
  <2> QED BY <1>9, <1>10, <2>1, FlattenInOrder
<1>12. Range(FlattenSeq(found)) = Extensions(pb, st)
  <2>1. Range(FlattenSeq(found)) = UNION {Range(found[i]) : i \in 1..n}
    BY <1>10, FlattenRange DEF Holding
  <2>2. UNION {Range(found[i]) : i \in 1..n} \subseteq Extensions(pb, st)
    BY <1>9
  <2>3. ASSUME NEW a \in Extensions(pb, st) PROVE \E i \in 1..n : a \in Range(found[i])
    <3>1. NextTalk(st, a) \in Range(c)
      BY <1>3, NextIsCandidate
    <3>2. PICK i \in 1..n : NextTalk(st, a) = c[i]
      BY <1>1, <3>1 DEF Range
    <3> QED BY <1>9, <3>2
  <2> QED BY <2>1, <2>2, <2>3
<1>13. FlattenSeq(found) \in Seq(W)
  BY <1>10, FlattenType
<1> QED BY <1>4, <1>11, <1>12, <1>13 DEF Finds, L

LEMMA SearchFinds ==
  ASSUME NEW pb, Conference(pb)
  PROVE  \A st : Proper(pb, st) => Finds(pb, st, SeqSearch(pb, st))
<1> DEFINE N == {n \in Nat : \A st : Proper(pb, st) /\ Left(pb, st) < n
                                       => Finds(pb, st, SeqSearch(pb, st))}
<1>1. \A st : Proper(pb, st) => Left(pb, st) \in Nat
  BY StateCounted, LeftType DEF Proper
<1>2. 0 \in N
  BY <1>1
<1>3. ASSUME NEW n \in Nat, n \in N PROVE n + 1 \in N
  <2> SUFFICES ASSUME NEW st, Proper(pb, st), Left(pb, st) < n + 1
               PROVE  Finds(pb, st, SeqSearch(pb, st))
    OBVIOUS
  <2>1. ASSUME NEW next, Proper(pb, next), Left(pb, next) < Left(pb, st)
        PROVE  Finds(pb, next, SeqSearch(pb, next))
    <3>1. Left(pb, next) < n
      BY <1>1, <2>1
    <3> QED BY <1>3, <2>1, <3>1
  <2> QED BY <2>1, FindsFinished, FindsCommitted, FindsSelected
<1>4. Nat \subseteq N
  <2> HIDE DEF N
  <2> QED BY <1>2, <1>3, Induction
<1> SUFFICES ASSUME NEW st, Proper(pb, st) PROVE Finds(pb, st, SeqSearch(pb, st))
  OBVIOUS
<1>5. Left(pb, st) + 1 \in N /\ Left(pb, st) < Left(pb, st) + 1
  <2>1. Left(pb, st) \in Nat
    BY <1>1
  <2> HIDE DEF N
  <2> QED BY <1>4, <2>1
<1> QED BY <1>5

-----------------------------------------------------------------------------
(* The bitmask solver goes the way of the vector solver: a mask state b and a *)
(* vector state v that stand for each other have branches that do.            *)

Renamed(pb, s) == [j \in DOMAIN s |-> pb.talks[s[j] + 1]]

NamesOf(pb, X) == {pb.talks[i + 1] : i \in X}

Mirrors(pb, b, v) ==
  /\ b \in BitState(pb) /\ BitFits(pb, b) /\ Proper(pb, v)
  /\ v.slot_no = b.slot_no /\ v.track_no = b.track_no
  /\ v.slots = ToTimetable(pb, b) /\ v.current_slot = Renamed(pb, b.current_slot)
  /\ Range(v.slot_candidates) = NamesOf(pb, b.slot_candidates)
  /\ Range(v.remaining_talks) = NamesOf(pb, b.remaining_talks)

LEMMA RenamedHas ==
  ASSUME NEW pb, Conference(pb), NEW s \in Seq(Indexes(pb))
  PROVE  /\ Renamed(pb, s) \in Seq(Range(pb.talks)) /\ Len(Renamed(pb, s)) = Len(s)
         /\ \A j \in 1..Len(s) : Renamed(pb, s)[j] = pb.talks[s[j] + 1]
         /\ Range(Renamed(pb, s)) = NamesOf(pb, Range(s))
<1> DEFINE T == Range(pb.talks)
           r == Renamed(pb, s)
           Name(i) == pb.talks[i + 1]
<1>1. DOMAIN s = 1..Len(s) /\ Len(s) \in Nat /\ \A j \in 1..Len(s) : s[j] \in Indexes(pb)
  BY LenProperties, ElementOfSeq
<1>2. \A j \in 1..Len(s) : Name(s[j]) \in T
  BY <1>1, TalkAt
<1>3. r = [j \in 1..Len(s) |-> Name(s[j])]
  BY <1>1 DEF Renamed
<1>4. Range(s) = {s[j] : j \in 1..Len(s)} /\ Range(r) = {r[j] : j \in 1..Len(s)}
  BY <1>1, <1>3 DEF Range
<1>5. NamesOf(pb, Range(s)) = {Name(i) : i \in Range(s)}
  BY DEF NamesOf
<1> HIDE DEF T, r, Name
<1>6. r \in Seq(T) /\ Len(r) = Len(s)
  BY <1>1, <1>2, <1>3, IsASeq
<1>7. Range(r) = {Name(i) : i \in Range(s)}
  BY <1>3, <1>4
<1>8. \A j \in 1..Len(s) : r[j] = Name(s[j])
  BY <1>3
<1> QED BY <1>5, <1>6, <1>7, <1>8 DEF T, r, Name

(* A longer sequence that begins as a shorter one.                            *)
LEMMA Lengthened ==
  ASSUME NEW A, NEW a \in Seq(A), NEW c \in Seq(A), Len(c) = Len(a) + 1,
         \A i \in 1..Len(a) : c[i] = a[i]
  PROVE  c = Append(a, c[Len(a) + 1])
<1> DEFINE d == Append(a, c[Len(a) + 1])
<1>1. Len(a) \in Nat /\ Len(a) + 1 \in 1..Len(c)
  BY LenProperties
<1>2. c[Len(a) + 1] \in A
  BY <1>1, ElementOfSeq
<1>3. /\ d \in Seq(A) /\ Len(d) = Len(a) + 1 /\ d[Len(a) + 1] = c[Len(a) + 1]
      /\ \A i \in 1..Len(a) : d[i] = a[i]
  BY <1>2, AppendProperties
<1> HIDE DEF d
<1>4. \A i \in 1..Len(c) : i \in 1..Len(a) \/ i = Len(a) + 1
  BY <1>1
<1>5. c = d
  BY <1>3, <1>4, SeqEqual
<1> QED BY <1>5 DEF d

LEMMA RenamedAppend ==
  ASSUME NEW pb, Conference(pb), NEW s \in Seq(Indexes(pb)), NEW e \in Indexes(pb)
  PROVE  Renamed(pb, Append(s, e)) = Append(Renamed(pb, s), pb.talks[e + 1])
<1> DEFINE t == Append(s, e)
           a == Renamed(pb, s)
           c == Renamed(pb, t)
<1>1. /\ t \in Seq(Indexes(pb)) /\ Len(t) = Len(s) + 1 /\ t[Len(s) + 1] = e
      /\ \A i \in 1..Len(s) : t[i] = s[i]
      /\ Len(s) \in Nat
  BY AppendProperties, LenProperties
<1> HIDE DEF t
<1>2. /\ a \in Seq(Range(pb.talks)) /\ Len(a) = Len(s)
      /\ \A i \in 1..Len(s) : a[i] = pb.talks[s[i] + 1]
      /\ c \in Seq(Range(pb.talks)) /\ Len(c) = Len(t)
      /\ \A i \in 1..Len(t) : c[i] = pb.talks[t[i] + 1]
  BY <1>1, RenamedHas
<1> HIDE DEF a, c
<1>3. \A i \in 1..Len(a) : c[i] = a[i]
  <2>1. \A i \in 1..Len(s) : i \in 1..Len(t)
    BY <1>1
  <2> QED BY <1>1, <1>2, <2>1
<1>4. c[Len(a) + 1] = pb.talks[e + 1]
  <2>1. Len(s) + 1 \in 1..Len(t)
    BY <1>1
  <2> QED BY <1>1, <1>2, <2>1
<1>5. c = Append(a, c[Len(a) + 1])
  BY <1>1, <1>2, <1>3, Lengthened
<1> QED BY <1>4, <1>5 DEF a, c, t

(* The slots of a mask state, given by their talks.                           *)
LEMMA TimetableOf ==
  ASSUME NEW pb, Conference(pb), NEW st, st.slots \in Seq(Seq(Indexes(pb)))
  PROVE  /\ ToTimetable(pb, st) \in Timetables(pb)
         /\ Len(ToTimetable(pb, st)) = Len(st.slots)
         /\ \A i \in 1..Len(st.slots) : ToTimetable(pb, st)[i] = Renamed(pb, st.slots[i])
<1> DEFINE T == Range(pb.talks)
           V == Seq(Indexes(pb))
           W == Seq(T)
           s == st.slots
           r == ToTimetable(pb, st)
<1>1. s \in Seq(V)
  OBVIOUS
<1>2. \A x \in V : Renamed(pb, x) \in W
  BY RenamedHas
<1>3. r = [i \in DOMAIN s |-> Renamed(pb, s[i])]
  BY DEF ToTimetable, Renamed
<1> HIDE DEF T, V, W, s, r
<1>4. DOMAIN s = 1..Len(s) /\ Len(s) \in Nat /\ \A i \in 1..Len(s) : s[i] \in V
  BY <1>1, LenProperties, ElementOfSeq
<1>5. r = [i \in 1..Len(s) |-> Renamed(pb, s[i])] /\ \A i \in 1..Len(s) : Renamed(pb, s[i]) \in W
  BY <1>2, <1>3, <1>4
<1>6. r \in Seq(W) /\ Len(r) = Len(s)
  BY <1>4, <1>5, IsASeq
<1> QED BY <1>5, <1>6 DEF T, W, s, r, Timetables

LEMMA TimetableCommitted ==
  ASSUME NEW pb, Conference(pb), NEW st, Typed(Indexes(pb), st)
  PROVE  ToTimetable(pb, Committed(st))
           = Append(ToTimetable(pb, st), Renamed(pb, st.current_slot))
<1> DEFINE V == Seq(Indexes(pb))
           W == Seq(Range(pb.talks))
           s == st.slots
           e == st.current_slot
           next == Committed(st)
           t == next.slots
           a == ToTimetable(pb, st)
           c == ToTimetable(pb, next)
<1>1. s \in Seq(V) /\ e \in V /\ t = Append(s, e)
  BY DEF Typed, Committed
<1>2. /\ t \in Seq(V) /\ Len(t) = Len(s) + 1 /\ t[Len(s) + 1] = e
      /\ \A i \in 1..Len(s) : t[i] = s[i]
      /\ Len(s) \in Nat
  <2> HIDE DEF V, s, e, t
  <2> QED BY <1>1, AppendProperties, LenProperties
<1> HIDE DEF next
<1>3. /\ a \in Seq(W) /\ Len(a) = Len(s)
      /\ \A i \in 1..Len(s) : a[i] = Renamed(pb, s[i])
      /\ c \in Seq(W) /\ Len(c) = Len(t)
      /\ \A i \in 1..Len(t) : c[i] = Renamed(pb, t[i])
  BY <1>1, <1>2, TimetableOf DEF Timetables
<1> HIDE DEF V, W, s, e, t, a, c
<1>4. \A i \in 1..Len(a) : c[i] = a[i]
  <2>1. \A i \in 1..Len(s) : i \in 1..Len(t)
    BY <1>2
  <2> QED BY <1>2, <1>3, <2>1
<1>5. c[Len(a) + 1] = Renamed(pb, e)
  <2>1. Len(s) + 1 \in 1..Len(t)
    BY <1>2
  <2> QED BY <1>2, <1>3, <2>1
<1>6. c = Append(a, c[Len(a) + 1])
  BY <1>2, <1>3, <1>4, Lengthened
<1> QED BY <1>5, <1>6 DEF a, c, e, next

Below == {p \in Bits \X Bits : p[1] < p[2]}

LEMMA AscendingInOrder ==
  ASSUME NEW mask \in SUBSET Bits
  PROVE  InOrder(Below, Ascending(mask))
<1> DEFINE all == [i \in 1..Width |-> i - 1]
<1>1. Width \in Nat /\ Bits = 0..(Width - 1)
  BY WidthAssumption DEF Bits
<1>2. all \in Seq(Bits) /\ Len(all) = Width /\ \A i \in 1..Width : all[i] = i - 1 /\ i - 1 \in Bits
  BY <1>1
<1>3. Ascending(mask) = Without(all, Bits \ mask)
  BY DEF Ascending
<1> HIDE DEF all
<1>4. InOrder(Below, all)
  <2> SUFFICES ASSUME NEW i \in 1..Width, NEW j \in 1..Width, i < j
               PROVE  <<i - 1, j - 1>> \in Below
    BY <1>2 DEF InOrder
  <2>1. i - 1 \in Bits /\ j - 1 \in Bits /\ i - 1 < j - 1
    BY <1>1, <1>2
  <2> QED BY <2>1 DEF Below
<1> QED BY <1>2, <1>3, <1>4, WithoutInOrder

(* The candidates of the two, in the order each takes them, are the same.     *)
LEMMA CandidatesAlike ==
  ASSUME NEW pb, Conference(pb), NEW K \in SUBSET Bits, K \subseteq Indexes(pb),
         NEW c \in Seq(Range(pb.talks)), InOrder(Ranked(pb), c), Range(c) = NamesOf(pb, K)
  PROVE  /\ Ascending(K) \in Seq(Indexes(pb)) /\ Range(Ascending(K)) = K
         /\ c = Renamed(pb, Ascending(K))
<1> DEFINE T == Range(pb.talks)
           I == Indexes(pb)
           s == Ascending(K)
           r == Renamed(pb, s)
<1>1. s \in Seq(Bits) /\ Range(s) = K /\ InOrder(Below, s)
  BY MaskTypes, AscendingHas, AscendingInOrder
<1> HIDE DEF s, I
<1>2. /\ DOMAIN s = 1..Len(s) /\ Len(s) \in Nat /\ s = [i \in 1..Len(s) |-> s[i]]
      /\ \A i \in 1..Len(s) : s[i] \in I
  <2>1. DOMAIN s = 1..Len(s) /\ Len(s) \in Nat
    BY <1>1, LenProperties
  <2>2. \A i \in 1..Len(s) : s[i] \in Range(s)
    BY <2>1 DEF Range
  <2>3. s = [i \in 1..Len(s) |-> s[i]]
    BY <1>1, <2>1
  <2> QED BY <1>1, <2>1, <2>2, <2>3 DEF I
<1>3. s \in Seq(I)
  BY <1>2, IsASeq
<1>4. /\ r \in Seq(T) /\ Len(r) = Len(s) /\ Range(r) = NamesOf(pb, K)
      /\ \A i \in 1..Len(s) : r[i] = pb.talks[s[i] + 1]
  BY <1>1, <1>3, RenamedHas DEF I
<1> HIDE DEF r
<1>5. InOrder(Ranked(pb), r)
  <2> SUFFICES ASSUME NEW i \in 1..Len(s), NEW j \in 1..Len(s), i < j
               PROVE  <<r[i], r[j]>> \in Ranked(pb)
    BY <1>4 DEF InOrder
  <2>1. s[i] < s[j]
    BY <1>1 DEF InOrder, Below
  <2>2. /\ Position(pb, r[i]) = s[i] /\ Position(pb, r[j]) = s[j]
        /\ r[i] \in T /\ r[j] \in T
    BY <1>2, <1>4, TalkAt DEF I
  <2> QED BY <2>1, <2>2, RankedStrict
<1>6. c = r
  BY <1>4, <1>5, RankedStrict, InOrderUnique
<1> QED BY <1>1, <1>3, <1>6 DEF s, r, I

LEMMA MirrorsStart ==
  ASSUME NEW pb, Conference(pb), Len(pb.talks) <= Width
  PROVE  Mirrors(pb, BitStart(pb), Start(pb))
<1> DEFINE b == BitStart(pb)
           v == Start(pb)
<1>1. b \in BitState(pb)
  <2>1. FirstState(pb, "bitmask") \in States(pb, "bitmask")
    BY FirstStateType
  <2> QED BY <2>1 DEF FirstState, States
<1>2. BitFits(pb, b) /\ Proper(pb, v)
  BY BitStartFits, StartProper
<1>3. /\ b.slot_no = 0 /\ b.track_no = 0 /\ b.slots = <<>> /\ b.current_slot = <<>>
      /\ b.slot_candidates = Indexes(pb) /\ b.remaining_talks = Indexes(pb)
      /\ v.slot_no = 0 /\ v.track_no = 0 /\ v.slots = <<>> /\ v.current_slot = <<>>
      /\ v.slot_candidates = pb.talks /\ v.remaining_talks = pb.talks
  BY AllTalksAreIndexes DEF BitStart, Start
<1>4. Range(pb.talks) = NamesOf(pb, Indexes(pb))
  BY TalkAt DEF NamesOf
<1> HIDE DEF b, v
<1>5. v.slots = ToTimetable(pb, b) /\ v.current_slot = Renamed(pb, b.current_slot)
  BY <1>3 DEF ToTimetable, Renamed
<1>6. Mirrors(pb, b, v)
  BY <1>1, <1>2, <1>3, <1>4, <1>5 DEF Mirrors
<1> QED BY <1>6 DEF b, v

LEMMA MirrorsCommitted ==
  ASSUME NEW pb, Conference(pb), NEW b, NEW v, Mirrors(pb, b, v),
         BitFits(pb, Committed(b)), Committed(b) \in BitState(pb), Proper(pb, Committed(v))
  PROVE  Mirrors(pb, Committed(b), Committed(v))
<1> DEFINE c == Committed(b)
           w == Committed(v)
<1>1. /\ v.slot_no = b.slot_no /\ v.track_no = b.track_no
      /\ v.slots = ToTimetable(pb, b) /\ v.current_slot = Renamed(pb, b.current_slot)
      /\ Range(v.remaining_talks) = NamesOf(pb, b.remaining_talks)
  BY DEF Mirrors
<1>2. /\ c.slot_no = b.slot_no + 1 /\ c.track_no = 0 /\ c.current_slot = <<>>
      /\ c.slot_candidates = b.remaining_talks /\ c.remaining_talks = b.remaining_talks
      /\ w.slot_no = v.slot_no + 1 /\ w.track_no = 0 /\ w.current_slot = <<>>
      /\ w.slots = Append(v.slots, v.current_slot)
      /\ w.slot_candidates = v.remaining_talks /\ w.remaining_talks = v.remaining_talks
  BY DEF Committed
<1>3. ToTimetable(pb, c) = Append(ToTimetable(pb, b), Renamed(pb, b.current_slot))
  <2>1. Typed(Indexes(pb), b)
    BY DEF Mirrors, BitFits, Fits
  <2> QED BY <2>1, TimetableCommitted
<1>4. Renamed(pb, <<>>) = <<>>
  BY DEF Renamed
<1> HIDE DEF c, w
<1>5. w.slots = ToTimetable(pb, c) /\ w.current_slot = Renamed(pb, c.current_slot)
  BY <1>1, <1>2, <1>3, <1>4
<1>6. c \in BitState(pb) /\ BitFits(pb, c) /\ Proper(pb, w)
  BY DEF c, w
<1>7. Mirrors(pb, c, w)
  BY <1>1, <1>2, <1>5, <1>6 DEF Mirrors
<1> QED BY <1>7 DEF c, w

(* The talk of index idx leaves the masks as its name leaves the vectors.     *)
LEMMA NamesLeft ==
  ASSUME NEW pb, Conference(pb), NEW idx \in Indexes(pb), NEW X \in SUBSET Indexes(pb)
  PROVE  /\ NamesOf(pb, X \ {idx}) = NamesOf(pb, X) \ {pb.talks[idx + 1]}
         /\ NamesOf(pb, X \ ClashMask(pb, idx))
              = NamesOf(pb, X) \ Clashes(pb, pb.talks[idx + 1])
<1> DEFINE Name(i) == pb.talks[i + 1]
           I == Indexes(pb)
<1>1. \A Y : NamesOf(pb, Y) = {Name(i) : i \in Y}
  BY DEF NamesOf
<1>2. \A i, j \in I : Name(i) = Name(j) => i = j
  BY TalkAt
<1>3. \A i \in I : i \in ClashMask(pb, idx) <=> Name(i) \in Clashes(pb, Name(idx))
  BY ClashMaskIs
<1> HIDE DEF Name, I
<1>4. {Name(i) : i \in X \ {idx}} = {Name(i) : i \in X} \ {Name(idx)}
  BY <1>2 DEF I
<1>5. {Name(i) : i \in X \ ClashMask(pb, idx)} = {Name(i) : i \in X} \ Clashes(pb, Name(idx))
  BY <1>3 DEF I
<1> QED BY <1>1, <1>4, <1>5 DEF Name

LEMMA MirrorsSelected ==
  ASSUME NEW pb, Conference(pb), NEW b, NEW v, Mirrors(pb, b, v),
         NEW idx \in b.slot_candidates, NEW i \in 1..Len(v.slot_candidates),
         v.slot_candidates[i] = pb.talks[idx + 1],
         NEW c, c = BitSelected(pb, b, idx), NEW w, w = Selected(pb, v, i),
         c \in BitState(pb), BitFits(pb, c), Proper(pb, w)
  PROVE  Mirrors(pb, c, w)
<1> DEFINE T == Range(pb.talks)
           I == Indexes(pb)
           talk == pb.talks[idx + 1]
           K == b.slot_candidates
           R == b.remaining_talks
           k == v.slot_candidates
           r == v.remaining_talks
<1>1. /\ v.slot_no = b.slot_no /\ v.track_no = b.track_no
      /\ v.slots = ToTimetable(pb, b) /\ v.current_slot = Renamed(pb, b.current_slot)
      /\ Range(k) = NamesOf(pb, K) /\ Range(r) = NamesOf(pb, R)
      /\ b \in BitState(pb) /\ BitFits(pb, b) /\ v \in State(pb) /\ VectorFits(pb, v)
  BY DEF Mirrors, Proper
<1>2. /\ IsRecord(b) /\ IsRecord(v) /\ k \in Seq(T) /\ r \in Seq(T)
  BY <1>1 DEF BitState, State, IsRecord
<1>3. K \in SUBSET I /\ R \in SUBSET I /\ idx \in I /\ b.current_slot \in Seq(I)
  BY <1>1 DEF BitFits, Fits, Candidates, Typed
<1>4. IsInjective(k)
  BY <1>1 DEF VectorFits
<1>5. c = [slot_no |-> b.slot_no, track_no |-> b.track_no + 1, slots |-> b.slots,
           current_slot |-> Append(b.current_slot, idx),
           slot_candidates |-> (b.slot_candidates \ {idx}) \ ClashMask(pb, idx),
           remaining_talks |-> b.remaining_talks \ {idx}]
  BY <1>2, BitSelectedIs
<1>6. c.slot_candidates = (K \ {idx}) \ ClashMask(pb, idx) /\ c.remaining_talks = R \ {idx}
  BY <1>5
<1>7. SelectedHas(pb, v, i, talk, w)
  <2> DEFINE t == talk
  <2>1. t = v.slot_candidates[i]
    OBVIOUS
  <2> HIDE DEF t
  <2>2. SelectedHas(pb, v, i, t, w)
    BY <1>2, <2>1, SelectedIs
  <2> QED BY <2>2 DEF t
<1> HIDE DEF T, I, talk, K, R, k, r
<1>8. w.current_slot = Renamed(pb, c.current_slot)
  BY <1>1, <1>3, <1>5, <1>7, RenamedAppend DEF SelectedHas, I, talk
<1>9. w.slots = ToTimetable(pb, c)
  BY <1>1, <1>5, <1>7 DEF SelectedHas, ToTimetable
<1>10. Range(w.remaining_talks) = NamesOf(pb, c.remaining_talks)
  <2>1. Range(w.remaining_talks) = Range(r) \ {talk}
    BY <1>2, <1>7, WithoutHas DEF SelectedHas, r
  <2>2. NamesOf(pb, R \ {idx}) = NamesOf(pb, R) \ {talk}
    BY <1>3, NamesLeft DEF I, talk
  <2> QED BY ONLY <1>1, <1>6, <2>1, <2>2
<1>11. Range(w.slot_candidates) = NamesOf(pb, c.slot_candidates)
  <2> DEFINE rest == RemoveAt(k, i)
  <2>1. i \in 1..Len(k) /\ k[i] = talk
    BY DEF k, talk
  <2>2. rest \in Seq(T) /\ Range(rest) = Range(k) \ {talk}
    BY <1>2, <1>4, <2>1, RemovedType, RemovedHas
  <2>3. w.slot_candidates = Without(rest, Clashes(pb, talk))
    BY <1>7 DEF SelectedHas, k
  <2> HIDE DEF rest
  <2>4. Range(w.slot_candidates) = (Range(k) \ {talk}) \ Clashes(pb, talk)
    BY <2>2, <2>3, WithoutHas
  <2>5. NamesOf(pb, K \ {idx}) = NamesOf(pb, K) \ {talk}
    BY <1>3, NamesLeft DEF I, talk
  <2>6. NamesOf(pb, (K \ {idx}) \ ClashMask(pb, idx))
          = NamesOf(pb, K \ {idx}) \ Clashes(pb, talk)
    <3> DEFINE X == K \ {idx}
    <3>1. X \in SUBSET I
      BY <1>3
    <3> HIDE DEF X
    <3>2. NamesOf(pb, X \ ClashMask(pb, idx)) = NamesOf(pb, X) \ Clashes(pb, talk)
      BY <1>3, <3>1, NamesLeft DEF I, talk
    <3> QED BY <3>2 DEF X
  <2> QED BY ONLY <1>1, <1>6, <2>4, <2>5, <2>6
<1>12. w.slot_no = c.slot_no /\ w.track_no = c.track_no
  BY <1>1, <1>5, <1>7 DEF SelectedHas
<1> QED BY <1>8, <1>9, <1>10, <1>11, <1>12 DEF Mirrors

LEMMA MirrorsKids ==
  ASSUME NEW pb, Conference(pb), Len(pb.talks) <= Width, NEW b, NEW v, Mirrors(pb, b, v),
         ~ Finished(pb, b)
  PROVE  /\ ~ Finished(pb, v)
         /\ DOMAIN Refine(pb, v) = DOMAIN ExpandBranches(pb, b)
         /\ \A i \in DOMAIN ExpandBranches(pb, b) :
              Mirrors(pb, ExpandBranches(pb, b)[i], Refine(pb, v)[i])
<1> DEFINE kids == ExpandBranches(pb, b)
           sids == Refine(pb, v)
<1>1. /\ b \in BitState(pb) /\ BitFits(pb, b) /\ Proper(pb, v)
      /\ v.slot_no = b.slot_no /\ v.track_no = b.track_no
      /\ Range(v.slot_candidates) = NamesOf(pb, b.slot_candidates)
  BY DEF Mirrors
<1>2. ~ Finished(pb, v)
  BY <1>1 DEF Finished
<1>3. \A i \in DOMAIN kids : BitFits(pb, kids[i]) /\ kids[i] \in BitState(pb)
  BY <1>1, ExpandFits, ExpandedBranches DEF IsBitBranch
<1>4. \A i \in DOMAIN sids : Proper(pb, sids[i])
  BY <1>1, <1>2, RefineProper
<1>5. CASE b.track_no = pb.tracks
  <2> DEFINE c == Committed(b)
             w == Committed(v)
  <2>1. kids = <<c>> /\ sids = <<w>>
    BY <1>1, <1>5 DEF ExpandBranches, Refine
  <2> HIDE DEF kids, sids, c, w
  <2>2. DOMAIN kids = {1} /\ DOMAIN sids = {1} /\ kids[1] = c /\ sids[1] = w
    BY <2>1
  <2>3. c \in BitState(pb) /\ BitFits(pb, c) /\ Proper(pb, w)
    BY <1>3, <1>4, <2>2
  <2>4. Mirrors(pb, c, w)
    BY <2>3, MirrorsCommitted DEF c, w
  <2>5. \A i \in DOMAIN kids : Mirrors(pb, kids[i], sids[i])
    BY <2>2, <2>4
  <2> QED BY <1>2, <2>2, <2>5 DEF kids, sids
<1>6. CASE b.track_no # pb.tracks
  <2> DEFINE K == b.slot_candidates
             k == v.slot_candidates
             s == Ascending(K)
  <2>1. /\ K \in SUBSET Bits /\ K \subseteq Indexes(pb) /\ k \in Seq(Range(pb.talks))
        /\ InOrder(Ranked(pb), k)
    BY <1>1 DEF BitState, BitFits, Fits, Candidates, Proper, State
  <2>2. kids = [i \in DOMAIN s |-> BitSelected(pb, b, s[i])]
    BY <1>6 DEF ExpandBranches
  <2>3. sids = [i \in DOMAIN k |-> Selected(pb, v, i)]
    BY <1>1, <1>6 DEF Refine
  <2> HIDE DEF kids, sids, K, k, s
  <2>4. s \in Seq(Indexes(pb)) /\ Range(s) = K /\ k = Renamed(pb, s)
    BY <1>1, <2>1, CandidatesAlike DEF s, K, k
  <2>5. /\ Len(k) = Len(s) /\ DOMAIN s = 1..Len(s) /\ DOMAIN k = 1..Len(s)
        /\ \A i \in 1..Len(s) : k[i] = pb.talks[s[i] + 1] /\ s[i] \in K
    <3>1. /\ Len(k) = Len(s) /\ DOMAIN s = 1..Len(s) /\ DOMAIN k = 1..Len(k)
          /\ \A i \in 1..Len(s) : k[i] = pb.talks[s[i] + 1]
      BY <2>1, <2>4, RenamedHas, LenProperties
    <3> QED BY <2>4, <3>1 DEF Range
  <2>6. DOMAIN kids = 1..Len(s) /\ DOMAIN sids = 1..Len(s)
    BY <2>2, <2>3, <2>5
  <2>7. ASSUME NEW i \in 1..Len(s) PROVE Mirrors(pb, kids[i], sids[i])
    <3> DEFINE idx == s[i]
               c == kids[i]
               w == sids[i]
    <3>1. c = BitSelected(pb, b, idx) /\ w = Selected(pb, v, i)
      BY <2>2, <2>3, <2>5
    <3>2. idx \in b.slot_candidates /\ v.slot_candidates[i] = pb.talks[idx + 1]
          /\ i \in 1..Len(v.slot_candidates)
      BY <2>5 DEF K, k
    <3>3. c \in BitState(pb) /\ BitFits(pb, c) /\ Proper(pb, w)
      BY <1>3, <1>4, <2>6
    <3> HIDE DEF idx, c, w
    <3>4. Mirrors(pb, c, w)
      BY <3>1, <3>2, <3>3, MirrorsSelected
    <3> QED BY <3>4 DEF c, w
  <2>8. \A i \in DOMAIN kids : Mirrors(pb, kids[i], sids[i])
    BY <2>6, <2>7
  <2> QED BY <1>2, <2>6, <2>8 DEF kids, sids
<1> QED BY <1>5, <1>6

LEMMA FlattenLens ==
  ASSUME NEW A, NEW s \in Seq(Seq(A))
  PROVE  Len(FlattenSeq(s)) = Total([i \in 1..Len(s) |-> Len(s[i])])
<1> DEFINE n == Len(s)
           lens == [i \in 1..n |-> Len(s[i])]
<1>1. n \in Nat /\ \A i \in 1..n : s[i] \in Seq(A) /\ Len(s[i]) \in Nat
  BY LenProperties, ElementOfSeq
<1>2. PICK g \in [0..n -> Seq(A)] : Flattens(g, s) /\ FlattenSeq(s) = g[n]
  BY FlattenHas
<1> HIDE DEF n
<1> DEFINE h == [i \in 0..n |-> Len(g[i])]
<1>3. lens \in Seq(Nat) /\ Len(lens) = n /\ \A i \in 1..n : lens[i] = Len(s[i])
  BY <1>1, IsASeq
<1> HIDE DEF lens
<1>4. Sums(h, lens)
  <2>1. 0 \in 0..n /\ h[0] = 0
    BY <1>1, <1>2 DEF Flattens, n
  <2>2. ASSUME NEW i \in 1..n PROVE h[i] = h[i - 1] + lens[i]
    <3>1. i \in 0..n /\ i - 1 \in 0..n
      BY <1>1
    <3>2. g[i] = g[i - 1] \o s[i]
      BY <1>2 DEF Flattens, n
    <3>3. g[i - 1] \in Seq(A) /\ s[i] \in Seq(A)
      BY <1>1, <3>1
    <3>4. Len(g[i]) = Len(g[i - 1]) + Len(s[i])
      BY <3>2, <3>3, ConcatProperties
    <3> QED BY <1>3, <3>1, <3>4
  <2> HIDE DEF h
  <2> QED BY <1>3, <2>1, <2>2 DEF Sums
<1>5. Total(lens) = h[n]
  BY <1>3, <1>4, TotalIs
<1>6. h[n] = Len(g[n])
  BY <1>1
<1> QED BY <1>2, <1>5, <1>6 DEF lens, n

(* What the two find and count below states that stand for each other.        *)
Agree(pb, b, v) ==
  /\ BitSearch(pb, b) = SeqSearch(pb, v)
  /\ CountSolutions(pb, b) = Len(SeqSearch(pb, v))

LEMMA AgreeFinished ==
  ASSUME NEW pb, Conference(pb), NEW b, NEW v, Mirrors(pb, b, v), Finished(pb, b)
  PROVE  Agree(pb, b, v)
<1>1. /\ b \in BitState(pb) /\ v \in State(pb) /\ Finished(pb, v)
      /\ v.slots = ToTimetable(pb, b)
  BY DEF Mirrors, Proper, Finished
<1>2. BitSearch(pb, b) = <<ToTimetable(pb, b)>> /\ CountSolutions(pb, b) = 1
  BY <1>1, BitSearchUnfolds, CountUnfolds
<1>3. SeqSearch(pb, v) = <<v.slots>>
  BY <1>1, SeqSearchUnfolds
<1>4. \A x : Len(<<x>>) = 1
  OBVIOUS
<1> QED BY <1>1, <1>2, <1>3, <1>4 DEF Agree

LEMMA AgreeKids ==
  ASSUME NEW pb, Conference(pb), NEW b, NEW v, Mirrors(pb, b, v), ~ Finished(pb, b),
         ~ Finished(pb, v), DOMAIN Refine(pb, v) = DOMAIN ExpandBranches(pb, b),
         \A i \in DOMAIN ExpandBranches(pb, b) :
           Agree(pb, ExpandBranches(pb, b)[i], Refine(pb, v)[i])
  PROVE  Agree(pb, b, v)
<1> DEFINE kids == ExpandBranches(pb, b)
           sids == Refine(pb, v)
           n == Len(sids)
           A == Timetables(pb)
           found == [i \in DOMAIN sids |-> SeqSearch(pb, sids[i])]
<1>1. /\ b \in BitState(pb) /\ v \in State(pb)
  BY DEF Mirrors, Proper
<1>2. /\ sids \in Seq(State(pb)) /\ DOMAIN sids = 1..n /\ n \in Nat
      /\ \A i \in 1..n : sids[i] \in State(pb)
  BY <1>1, RefineBranches, LenProperties, ElementOfSeq
<1>3. /\ SeqSearch(pb, v) = FlattenSeq(found)
      /\ BitSearch(pb, b) = FlattenSeq([i \in DOMAIN kids |-> BitSearch(pb, kids[i])])
      /\ CountSolutions(pb, b) = Total([i \in DOMAIN kids |-> CountSolutions(pb, kids[i])])
  BY <1>1, SeqSearchUnfolds, BitSearchUnfolds, CountAddsUp
<1>4. DOMAIN kids = DOMAIN sids
  OBVIOUS
<1>5. \A i \in DOMAIN sids : /\ BitSearch(pb, kids[i]) = SeqSearch(pb, sids[i])
                             /\ CountSolutions(pb, kids[i]) = Len(SeqSearch(pb, sids[i]))
  BY DEF Agree
<1>6. \A i \in 1..n : SeqSearch(pb, sids[i]) \in Seq(A)
  BY <1>2, SeqSearchUnfolds
<1> HIDE DEF kids, sids, n, A
<1>7. [i \in DOMAIN kids |-> BitSearch(pb, kids[i])] = found
  BY <1>4, <1>5
<1>8. found \in Seq(Seq(A)) /\ Len(found) = n
  <2> DEFINE V == Seq(A)
  <2>1. found = [i \in 1..n |-> found[i]] /\ \A i \in 1..n : found[i] \in V
    BY <1>2, <1>6
  <2> HIDE DEF V, found
  <2> QED BY <1>2, <2>1, IsASeq DEF V
<1>9. [i \in DOMAIN kids |-> CountSolutions(pb, kids[i])] = [i \in 1..n |-> Len(found[i])]
  BY <1>2, <1>4, <1>5
<1> HIDE DEF found
<1>10. Total([i \in 1..n |-> Len(found[i])]) = Len(FlattenSeq(found))
  BY <1>8, FlattenLens
<1> QED BY <1>3, <1>7, <1>9, <1>10 DEF Agree

LEMMA SolversAgree ==
  ASSUME NEW pb, Conference(pb), Len(pb.talks) <= Width
  PROVE  \A b, v : Mirrors(pb, b, v) => Agree(pb, b, v)
<1> DEFINE N == {n \in Nat : \A b, v : Mirrors(pb, b, v) /\ Left(pb, b) < n => Agree(pb, b, v)}
<1>1. \A b, v : Mirrors(pb, b, v) => b \in BitState(pb) /\ Left(pb, b) \in Nat
  BY BitStateCounted, LeftType DEF Mirrors
<1>2. 0 \in N
  BY <1>1
<1>3. ASSUME NEW n \in Nat, n \in N PROVE n + 1 \in N
  <2> SUFFICES ASSUME NEW b, NEW v, Mirrors(pb, b, v), Left(pb, b) < n + 1
               PROVE  Agree(pb, b, v)
    OBVIOUS
  <2>1. CASE Finished(pb, b)
    BY <2>1, AgreeFinished
  <2>2. CASE ~ Finished(pb, b)
    <3> DEFINE kids == ExpandBranches(pb, b)
               sids == Refine(pb, v)
    <3>1. /\ ~ Finished(pb, v) /\ DOMAIN sids = DOMAIN kids
          /\ \A i \in DOMAIN kids : Mirrors(pb, kids[i], sids[i])
      BY <2>2, MirrorsKids
    <3>2. \A i \in DOMAIN kids : Left(pb, kids[i]) < Left(pb, b)
      BY <1>1, <2>2, ExpandedBranches DEF IsBitBranch
    <3>3. ASSUME NEW i \in DOMAIN kids PROVE Agree(pb, kids[i], sids[i])
      <4> DEFINE c == kids[i]
                 w == sids[i]
      <4>1. Mirrors(pb, c, w) /\ Left(pb, c) < Left(pb, b)
        BY <3>1, <3>2
      <4> HIDE DEF c, w
      <4>2. Left(pb, c) < n
        BY <1>1, <4>1
      <4>3. Agree(pb, c, w)
        BY <1>3, <4>1, <4>2
      <4> QED BY <4>3 DEF c, w
    <3> QED BY <2>2, <3>1, <3>3, AgreeKids
  <2> QED BY <2>1, <2>2
<1>4. Nat \subseteq N
  <2> HIDE DEF N
  <2> QED BY <1>2, <1>3, Induction
<1> SUFFICES ASSUME NEW b, NEW v, Mirrors(pb, b, v) PROVE Agree(pb, b, v)
  OBVIOUS
<1>5. Left(pb, b) + 1 \in N /\ Left(pb, b) < Left(pb, b) + 1
  <2>1. Left(pb, b) \in Nat
    BY <1>1
  <2> HIDE DEF N
  <2> QED BY <1>4, <2>1
<1> QED BY <1>5

-----------------------------------------------------------------------------
(* The solvers find the timetables of the conference.                         *)

LEMMA RangeCounted ==
  ASSUME NEW A, NEW s \in Seq(A), \A i, j \in 1..Len(s) : i < j => s[i] # s[j]
  PROVE  Cardinality(Range(s)) = Len(s)
<1> DEFINE S == 1..Len(s)
           R == Range(s)
<1>1. Len(s) \in Nat /\ DOMAIN s = S
  BY LenProperties
<1>2. s \in [S -> R]
  <2>1. s = [i \in S |-> s[i]]
    BY <1>1
  <2>2. \A i \in S : s[i] \in R
    BY <1>1 DEF Range
  <2> HIDE DEF S, R
  <2> QED BY <2>1, <2>2
<1>3. \A i, j \in S : s[i] = s[j] => i = j
  <2> SUFFICES ASSUME NEW i \in S, NEW j \in S, s[i] = s[j] PROVE i = j
    OBVIOUS
  <2>1. ~ (i < j) /\ ~ (j < i)
    OBVIOUS
  <2>2. i \in Nat /\ j \in Nat
    BY <1>1
  <2> QED BY ONLY <2>1, <2>2
<1>4. \A r \in R : \E i \in S : s[i] = r
  BY <1>1 DEF Range
<1> HIDE DEF S, R
<1>5. s \in Bijection(S, R)
  BY <1>2, <1>3, <1>4, Fun_IsBij
<1>6. ExistsBijection(1..Len(s), R)
  BY <1>5 DEF ExistsBijection, S
<1> QED BY <1>1, <1>6, FS_CountingElements DEF R

(* No timetable comes before itself.                                          *)
LEMMA EarlierDiffers ==
  ASSUME NEW pb, Conference(pb), NEW a, NEW b, <<a, b>> \in Earlier(pb)
  PROVE  a # b /\ Before(pb, a, b)
<1>1. a \in AllTimetables(pb) /\ Before(pb, a, b)
  BY DEF Earlier
<1> SUFFICES ASSUME a = b PROVE FALSE
  BY <1>1
<1> DEFINE p == FlattenSeq(a)
<1>2. p \in Seq(Range(pb.talks))
  BY <1>1, TimetableHas, FlattenType DEF Timetables
<1>3. PICK i \in DOMAIN p : Position(pb, p[i]) < Position(pb, p[i])
  BY <1>1 DEF Before
<1> HIDE DEF p
<1>4. p[i] \in Range(pb.talks)
  BY <1>2, LenProperties, ElementOfSeq
<1>5. Position(pb, p[i]) \in Nat
  BY <1>4, TalkAt DEF Indexes
<1> QED BY <1>3, <1>5

LEMMA StartExtends ==
  ASSUME NEW pb
  PROVE  Extensions(pb, Start(pb)) = AllTimetables(pb)
<1>1. Start(pb).slot_no = 0 /\ Start(pb).track_no = 0
  BY DEF Start
<1>2. \A timetable : Extends(Start(pb), timetable)
  BY <1>1 DEF Extends
<1> QED BY <1>2 DEF Extensions

(* For every conference whose talks fit a mask: the vector solver returns its *)
(* valid timetables (solver.rs, SolveSequential), in order; the bitmask       *)
(* solver returns the same, and the counter their number (bitmask_solver.rs). *)
THEOREM SolversFindAll ==
  ASSUME NEW pb, Conference(pb), Len(pb.talks) <= Width
  PROVE  LET found == SeqSearch(pb, Start(pb))
         IN  /\ Range(found) = AllTimetables(pb)
             /\ \A i, j \in 1..Len(found) : i < j => Before(pb, found[i], found[j])
             /\ IsInjective(found)
             /\ BitSearch(pb, BitStart(pb)) = found
             /\ CountSolutions(pb, BitStart(pb)) = Cardinality(AllTimetables(pb))
<1> DEFINE found == SeqSearch(pb, Start(pb))
<1>1. Finds(pb, Start(pb), found)
  BY StartProper, SearchFinds
<1>2. Agree(pb, BitStart(pb), Start(pb))
  BY MirrorsStart, SolversAgree
<1>3. BitSearch(pb, BitStart(pb)) = found /\ CountSolutions(pb, BitStart(pb)) = Len(found)
  BY <1>2 DEF Agree
<1> HIDE DEF found
<1>4. /\ found \in Seq(Timetables(pb)) /\ Range(found) = AllTimetables(pb)
      /\ \A i, j \in 1..Len(found) : i < j => <<found[i], found[j]>> \in Earlier(pb)
  BY <1>1, StartExtends DEF Finds, InOrder
<1>5. \A i, j \in 1..Len(found) : i < j => found[i] # found[j] /\ Before(pb, found[i], found[j])
  BY <1>4, EarlierDiffers
<1>6. Cardinality(Range(found)) = Len(found)
  BY <1>4, <1>5, RangeCounted
<1>7. IsInjective(found)
  <2> SUFFICES ASSUME NEW i \in 1..Len(found), NEW j \in 1..Len(found), found[i] = found[j]
               PROVE  i = j
    BY <1>4, LenProperties DEF IsInjective
  <2>1. ~ (i < j) /\ ~ (j < i)
    BY <1>5
  <2>2. i \in Nat /\ j \in Nat
    BY <1>4, LenProperties
  <2> QED BY ONLY <2>1, <2>2
<1> QED BY <1>3, <1>4, <1>5, <1>6, <1>7 DEF found

LEMMA AnswersAll == SearchInv => ResultsExact /\ CountExact
<1> SUFFICES ASSUME SearchInv, Done PROVE ResultsExact /\ CountExact
  BY DEF ResultsExact, CountExact
<1> DEFINE found == SeqSearch(problem, Start(problem))
<1>1. Conference(problem) /\ solver \in Solver /\ Len(problem.talks) <= Width
  BY CallFacts, CallFitsWord DEF SearchInv
<1>2. Answer = Search(problem, solver, FirstState(problem, solver))
  <2>1. Answer = SequentialSearch(FirstState(problem, solver))
    BY AnswerIs DEF AnswerSequential, FirstState
  <2> QED BY <1>1, <2>1, Alike
<1>3. /\ Range(found) = AllTimetables(problem)
      /\ \A i, j \in 1..Len(found) : i < j => Before(problem, found[i], found[j])
      /\ BitSearch(problem, BitStart(problem)) = found
      /\ CountSolutions(problem, BitStart(problem)) = Cardinality(AllTimetables(problem))
  BY <1>1, SolversFindAll
<1>4. found \in Seq(Timetables(problem))
  BY <1>1, StartProper, SearchFinds DEF Finds
<1> HIDE DEF found
<1>5. solver # "counter" => Answer = found
  BY <1>1, <1>2, <1>3 DEF Search, FirstState, Solver, found
<1>6. solver = "counter" => Answer = Cardinality(AllTimetables(problem))
  BY <1>2, <1>3 DEF Search, FirstState
<1>7. \A i \in 1..(Len(found) - 1) : Before(problem, found[i], found[i + 1])
  <2> TAKE i \in 1..(Len(found) - 1)
  <2>1. i \in 1..Len(found) /\ i + 1 \in 1..Len(found) /\ i < i + 1
    BY <1>4, LenProperties
  <2> QED BY <1>3, <2>1
<1> QED BY <1>3, <1>5, <1>6, <1>7 DEF ResultsExact, CountExact

(* Whatever the schedule of the workers and the cutoff, the solvers return    *)
(* the valid timetables, each once and in order (par_search of solver.rs,     *)
(* bitmask_search_parallel of bitmask_solver.rs).                             *)
THEOREM AnswerExact == Spec => []ResultsExact
<1>1. Spec => []SearchInv
  BY SearchInvInit, SearchInvNext, PTL DEF Spec
<1> QED BY <1>1, AnswersAll, PTL

(* And the counter their number (count_recurse of bitmask_solver.rs).         *)
THEOREM NumberExact == Spec => []CountExact
<1>1. Spec => []SearchInv
  BY SearchInvInit, SearchInvNext, PTL DEF Spec
<1> QED BY <1>1, AnswersAll, PTL

-----------------------------------------------------------------------------
(* ImplementsSkeleton: what is in the work when an item makes way for others. *)

LEMMA ConcatHas ==
  ASSUME NEW A, NEW s \in Seq(A), NEW t \in Seq(A), NEW r, r = s \o t
  PROVE  /\ r \in Seq(A) /\ Len(r) = Len(s) + Len(t) /\ Len(s) \in Nat /\ Len(t) \in Nat
         /\ \A j \in 1..(Len(s) + Len(t)) : r[j] = IF j <= Len(s) THEN s[j] ELSE t[j - Len(s)]
<1>1. /\ s \o t \in Seq(A) /\ Len(s \o t) = Len(s) + Len(t)
      /\ \A j \in 1..(Len(s) + Len(t)) :
           (s \o t)[j] = IF j <= Len(s) THEN s[j] ELSE t[j - Len(s)]
  BY ConcatProperties
<1>2. Len(s) \in Nat /\ Len(t) \in Nat
  BY LenProperties
<1> QED BY <1>1, <1>2

LEMMA ExchangedHas ==
  ASSUME NEW A, NEW w \in Seq(A), NEW i \in 1..Len(w), NEW s \in Seq(A),
         NEW v, v = Exchanged(w, i, s)
  PROVE  /\ v \in Seq(A) /\ Len(v) = (Len(w) + Len(s)) - 1
         /\ \A k \in 1..Len(v) :
              v[k] = IF k < i THEN w[k]
                     ELSE IF k < i + Len(s) THEN s[(k - i) + 1] ELSE w[(k - Len(s)) + 1]
<1> DEFINE a == SubSeq(w, 1, i - 1)
           c == SubSeq(w, i + 1, Len(w))
           d == a \o s
<1>1. /\ a \in Seq(A) /\ Len(a) = i - 1 /\ \A j \in 1..(i - 1) : a[j] = w[j]
      /\ c \in Seq(A) /\ Len(c) = Len(w) - i /\ \A j \in 1..(Len(w) - i) : c[j] = w[i + j]
      /\ i \in Nat /\ Len(w) \in Nat /\ i >= 1 /\ i <= Len(w)
  OBVIOUS
<1>2. v = d \o c
  BY DEF Exchanged
<1> HIDE DEF a, c
<1>3. /\ d \in Seq(A) /\ Len(d) = (i - 1) + Len(s) /\ Len(s) \in Nat
      /\ \A j \in 1..((i - 1) + Len(s)) : d[j] = IF j <= i - 1 THEN a[j] ELSE s[j - (i - 1)]
  <2>1. /\ d \in Seq(A) /\ Len(d) = Len(a) + Len(s) /\ Len(s) \in Nat
        /\ \A j \in 1..(Len(a) + Len(s)) : d[j] = IF j <= Len(a) THEN a[j] ELSE s[j - Len(a)]
    <3>1. d = a \o s /\ a \in Seq(A)
      BY <1>1
    <3> HIDE DEF d
    <3> QED BY <3>1, ConcatHas
  <2>2. Len(a) = i - 1
    BY <1>1
  <2> HIDE DEF d
  <2> QED BY ONLY <2>1, <2>2
<1> HIDE DEF d
<1>4. /\ v \in Seq(A) /\ Len(v) = Len(d) + Len(c)
      /\ \A j \in 1..(Len(d) + Len(c)) : v[j] = IF j <= Len(d) THEN d[j] ELSE c[j - Len(d)]
  <2>1. d \in Seq(A) /\ c \in Seq(A)
    BY <1>1, <1>3
  <2> QED BY ONLY <1>2, <2>1, ConcatHas
<1>5. Len(v) = (Len(w) + Len(s)) - 1
  BY <1>1, <1>3, <1>4
<1>6. ASSUME NEW k \in 1..Len(v)
      PROVE  v[k] = IF k < i THEN w[k]
                    ELSE IF k < i + Len(s) THEN s[(k - i) + 1] ELSE w[(k - Len(s)) + 1]
  <2>1. CASE k < i
    <3>1. k \in 1..(i - 1) /\ k \in 1..((i - 1) + Len(s)) /\ k <= Len(d) /\ k <= i - 1
      BY <1>1, <1>3, <2>1
    <3> QED BY <1>1, <1>3, <1>4, <2>1, <3>1
  <2>2. CASE ~ (k < i) /\ k < i + Len(s)
    <3>1. /\ k \in 1..((i - 1) + Len(s)) /\ k <= Len(d) /\ ~ (k <= i - 1)
          /\ k - (i - 1) = (k - i) + 1
      BY <1>1, <1>3, <2>2
    <3> QED BY <1>3, <1>4, <2>2, <3>1
  <2>3. CASE ~ (k < i) /\ ~ (k < i + Len(s))
    <3>1. /\ ~ (k <= Len(d)) /\ k - Len(d) \in 1..(Len(w) - i)
          /\ i + (k - Len(d)) = (k - Len(s)) + 1
      BY <1>1, <1>3, <1>5, <2>3
    <3>2. v[k] = c[k - Len(d)]
      BY <1>4, <3>1
    <3> QED BY <1>1, <2>3, <3>1, <3>2
  <2> QED BY <2>1, <2>2, <2>3
<1> QED BY <1>4, <1>5, <1>6

(* Any two items are in L, the items that stay with those of s as well.       *)
Pairwise(L, w) == \A j, k \in 1..Len(w) : j # k => <<w[j], w[k]>> \in L

Beside(L, w, i, s) ==
  \A j \in 1..Len(w) : \A k \in 1..Len(s) :
    j # i => <<w[j], s[k]>> \in L /\ <<s[k], w[j]>> \in L

LEMMA ExchangedPairs ==
  ASSUME NEW A, NEW w \in Seq(A), NEW i \in 1..Len(w), NEW s \in Seq(A), NEW L,
         Pairwise(L, w), Pairwise(L, s), Beside(L, w, i, s)
  PROVE  Pairwise(L, Exchanged(w, i, s))
<1> DEFINE v == Exchanged(w, i, s)
<1>0. /\ \A j, k \in 1..Len(w) : j # k => <<w[j], w[k]>> \in L
      /\ \A j, k \in 1..Len(s) : j # k => <<s[j], s[k]>> \in L
      /\ \A j \in 1..Len(w) : \A k \in 1..Len(s) :
           j # i => <<w[j], s[k]>> \in L /\ <<s[k], w[j]>> \in L
  BY DEF Pairwise, Beside
<1>10. v = Exchanged(w, i, s)
  OBVIOUS
<1> HIDE DEF v
<1> DEFINE New(k) == ~ (k < i) /\ k < i + Len(s)
           old == [k \in 1..Len(v) |-> IF k < i THEN k ELSE (k - Len(s)) + 1]
<1>1. /\ Len(v) = (Len(w) + Len(s)) - 1 /\ Len(w) \in Nat /\ Len(s) \in Nat /\ i \in Nat
      /\ \A k \in 1..Len(v) :
           v[k] = IF k < i THEN w[k]
                  ELSE IF k < i + Len(s) THEN s[(k - i) + 1] ELSE w[(k - Len(s)) + 1]
  BY <1>10, ExchangedHas, LenProperties
<1>2. ASSUME NEW k \in 1..Len(v), New(k)
      PROVE  v[k] = s[(k - i) + 1] /\ (k - i) + 1 \in 1..Len(s)
  <2>1. ~ (k < i) /\ k < i + Len(s)
    BY <1>2
  <2>2. (k - i) + 1 \in 1..Len(s)
    BY <1>1, <2>1
  <2>3. v[k] = s[(k - i) + 1]
    BY <1>1, <2>1
  <2> QED BY <2>2, <2>3
<1>3. ASSUME NEW k \in 1..Len(v), ~ New(k)
      PROVE  v[k] = w[old[k]] /\ old[k] \in 1..Len(w) /\ old[k] # i
  <2>1. CASE k < i
    <3>1. old[k] = k
      BY <2>1
    <3> HIDE DEF old
    <3> QED BY <1>1, <2>1, <3>1
  <2>2. CASE ~ (k < i)
    <3>1. old[k] = (k - Len(s)) + 1 /\ ~ (k < i + Len(s))
      BY <1>3, <2>2
    <3> HIDE DEF old
    <3> QED BY <1>1, <2>2, <3>1
  <2> QED BY <2>1, <2>2
<1>4. \A j, k \in 1..Len(v) : j # k /\ ~ New(j) /\ ~ New(k) => old[j] # old[k]
  BY <1>1
<1>5. \A j, k \in 1..Len(v) : j # k => (j - i) + 1 # (k - i) + 1
  BY <1>1
<1> HIDE DEF New, old
<1> SUFFICES ASSUME NEW j \in 1..Len(v), NEW k \in 1..Len(v), j # k
             PROVE  <<v[j], v[k]>> \in L
  BY DEF Pairwise, v
<1>6. CASE New(j) /\ New(k)
  <2>1. (j - i) + 1 # (k - i) + 1
    BY <1>5
  <2> QED BY <1>0, <1>2, <1>6, <2>1
<1>7. CASE New(j) /\ ~ New(k)
  BY <1>0, <1>2, <1>3, <1>7
<1>8. CASE ~ New(j) /\ New(k)
  BY <1>0, <1>2, <1>3, <1>8
<1>9. CASE ~ New(j) /\ ~ New(k)
  BY <1>0, <1>3, <1>4, <1>9
<1> QED BY <1>6, <1>7, <1>8, <1>9

LEMMA ExchangedRange ==
  ASSUME NEW A, NEW w \in Seq(A), NEW i \in 1..Len(w), NEW s \in Seq(A)
  PROVE  Range(Exchanged(w, i, s)) = {w[j] : j \in 1..Len(w) \ {i}} \cup Range(s)
<1> DEFINE v == Exchanged(w, i, s)
           O == {w[j] : j \in 1..Len(w) \ {i}}
<1>1. /\ Len(v) = (Len(w) + Len(s)) - 1 /\ Len(w) \in Nat /\ Len(s) \in Nat /\ i \in Nat
      /\ \A k \in 1..Len(v) :
           v[k] = IF k < i THEN w[k]
                  ELSE IF k < i + Len(s) THEN s[(k - i) + 1] ELSE w[(k - Len(s)) + 1]
      /\ v \in Seq(A)
  BY ExchangedHas, LenProperties
<1> HIDE DEF v
<1>2. DOMAIN v = 1..Len(v) /\ DOMAIN s = 1..Len(s)
  BY <1>1, LenProperties
<1>3. ASSUME NEW k \in 1..Len(v) PROVE v[k] \in O \cup Range(s)
  <2>1. CASE k < i
    <3>1. k \in 1..Len(w) \ {i} /\ v[k] = w[k]
      BY <1>1, <2>1
    <3> QED BY <3>1
  <2>2. CASE ~ (k < i) /\ k < i + Len(s)
    <3>1. (k - i) + 1 \in 1..Len(s) /\ v[k] = s[(k - i) + 1]
      BY <1>1, <2>2
    <3> QED BY <1>2, <3>1 DEF Range
  <2>3. CASE ~ (k < i) /\ ~ (k < i + Len(s))
    <3>1. (k - Len(s)) + 1 \in 1..Len(w) \ {i} /\ v[k] = w[(k - Len(s)) + 1]
      BY <1>1, <2>3
    <3> QED BY <3>1
  <2> QED BY <2>1, <2>2, <2>3
<1>4. ASSUME NEW j \in 1..Len(w) \ {i} PROVE w[j] \in Range(v)
  <2>1. CASE j < i
    <3>1. j \in 1..Len(v) /\ v[j] = w[j]
      BY <1>1, <2>1
    <3> QED BY <1>2, <3>1 DEF Range
  <2>2. CASE ~ (j < i)
    <3> DEFINE k == (j + Len(s)) - 1
    <3>1. k \in 1..Len(v) /\ ~ (k < i) /\ ~ (k < i + Len(s)) /\ (k - Len(s)) + 1 = j
      BY <1>1, <2>2
    <3>2. v[k] = w[j]
      BY <1>1, <3>1
    <3> QED BY <1>2, <3>1, <3>2 DEF Range
  <2> QED BY <2>1, <2>2
<1>5. ASSUME NEW m \in 1..Len(s) PROVE s[m] \in Range(v)
  <2> DEFINE k == (m + i) - 1
  <2>1. k \in 1..Len(v) /\ ~ (k < i) /\ k < i + Len(s) /\ (k - i) + 1 = m
    BY <1>1
  <2>2. v[k] = s[m]
    BY <1>1, <2>1
  <2> QED BY <1>2, <2>1, <2>2 DEF Range
<1>6. Range(v) \subseteq O \cup Range(s)
  BY <1>2, <1>3 DEF Range
<1>7. O \subseteq Range(v)
  BY <1>4
<1>8. Range(s) \subseteq Range(v)
  BY <1>2, <1>5 DEF Range
<1>9. Range(v) = O \cup Range(s)
  BY <1>6, <1>7, <1>8
<1> QED BY <1>9 DEF v

(* How often a sequence has an element.                                       *)
Count(s, x) == Cardinality({j \in DOMAIN s : s[j] = x})

LEMMA CountConcat ==
  ASSUME NEW A, NEW s \in Seq(A), NEW t \in Seq(A), NEW x
  PROVE  /\ Count(s \o t, x) = Count(s, x) + Count(t, x)
         /\ Count(s, x) \in Nat /\ Count(t, x) \in Nat
<1> DEFINE r == s \o t
           n == Len(s)
           I == {j \in 1..Len(s) : s[j] = x}
           J == {j \in 1..Len(t) : t[j] = x}
           K == {j \in 1..Len(r) : r[j] = x}
           M == {j \in (n + 1)..Len(r) : r[j] = x}
           f == [j \in J |-> n + j]
<1>1. /\ r \in Seq(A) /\ Len(r) = n + Len(t) /\ n \in Nat /\ Len(t) \in Nat
      /\ \A j \in 1..(n + Len(t)) : r[j] = IF j <= n THEN s[j] ELSE t[j - n]
  <2>1. r = s \o t
    OBVIOUS
  <2> HIDE DEF r
  <2> QED BY <2>1, ConcatHas
<1>2. DOMAIN r = 1..Len(r) /\ DOMAIN s = 1..Len(s) /\ DOMAIN t = 1..Len(t)
  BY <1>1, LenProperties
<1> HIDE DEF r
<1>3. IsFiniteSet(I) /\ IsFiniteSet(J) /\ IsFiniteSet(M)
  <2>1. I \in SUBSET (1..n) /\ J \in SUBSET (1..Len(t)) /\ M \in SUBSET ((n + 1)..Len(r))
    OBVIOUS
  <2>2. IsFiniteSet(1..n) /\ IsFiniteSet(1..Len(t)) /\ IsFiniteSet((n + 1)..Len(r))
    BY <1>1, FS_Interval
  <2> HIDE DEF I, J, M, n
  <2> QED BY <2>1, <2>2, FS_Subset
<1>4. K = I \cup M /\ I \cap M = {}
  BY <1>1
<1>5. Cardinality(K) = Cardinality(I) + Cardinality(M)
  <2> HIDE DEF I, M, K
  <2>1. /\ Cardinality(I \cup M) = Cardinality(I) + Cardinality(M) - Cardinality(I \cap M)
        /\ Cardinality(I) \in Nat /\ Cardinality(M) \in Nat
    BY <1>3, FS_Union, FS_CardinalityType
  <2>2. Cardinality(I \cap M) = 0
    BY <1>4, FS_EmptySet
  <2>3. Cardinality(K) = Cardinality(I \cup M)
    BY <1>4
  <2> QED BY ONLY <2>1, <2>2, <2>3
<1>6. Cardinality(M) = Cardinality(J)
  <2>1. ASSUME NEW j \in J PROVE f[j] \in M
    <3>1. n + j \in (n + 1)..Len(r) /\ ~ (n + j <= n) /\ (n + j) - n = j
      BY <1>1
    <3> QED BY <1>1, <3>1
  <2>2. ASSUME NEW k \in M PROVE \E j \in J : f[j] = k
    <3>1. k - n \in 1..Len(t) /\ ~ (k <= n) /\ n + (k - n) = k /\ k \in 1..(n + Len(t))
      <4>1. k \in (n + 1)..Len(r) /\ Len(r) = n + Len(t) /\ n \in Nat /\ Len(t) \in Nat
        BY <1>1
      <4> HIDE DEF n
      <4> QED BY ONLY <4>1
    <3>2. k - n \in J
      BY <1>1, <3>1
    <3> QED BY <3>1, <3>2
  <2>3. \A j, k \in J : f[j] = f[k] => j = k
    BY <1>1
  <2>4. f \in [J -> M]
    BY <2>1
  <2> HIDE DEF f, J, M
  <2>5. f \in Bijection(J, M)
    BY <2>2, <2>3, <2>4, Fun_IsBij
  <2>6. ExistsBijection(J, M)
    BY <2>5 DEF ExistsBijection
  <2> QED BY <1>3, <2>6, FS_Bijection
<1>7. Cardinality(I) \in Nat /\ Cardinality(J) \in Nat
  BY <1>3, FS_CardinalityType
<1>8. Count(r, x) = Cardinality(K) /\ Count(s, x) = Cardinality(I) /\ Count(t, x) = Cardinality(J)
  BY <1>2 DEF Count
<1> HIDE DEF I, J, K, M
<1> QED BY <1>5, <1>6, <1>7, <1>8 DEF r

LEMMA CountOnce ==
  ASSUME NEW s, IsInjective(s), NEW x
  PROVE  Count(s, x) = IF x \in Range(s) THEN 1 ELSE 0
<1> DEFINE I == {j \in DOMAIN s : s[j] = x}
<1>1. CASE x \in Range(s)
  <2>1. PICK j \in DOMAIN s : s[j] = x
    BY <1>1 DEF Range
  <2>2. I = {j}
    BY <2>1 DEF IsInjective
  <2> QED BY <1>1, <2>2, FS_Singleton DEF Count
<1>2. CASE x \notin Range(s)
  <2>1. I = {}
    BY <1>2 DEF Range
  <2> QED BY <1>2, <2>1, FS_EmptySet DEF Count
<1> QED BY <1>1, <1>2

LEMMA CountNone ==
  ASSUME NEW s, NEW x, x \notin Range(s)
  PROVE  Count(s, x) = 0
<1>1. {j \in DOMAIN s : s[j] = x} = {}
  BY DEF Range
<1> QED BY <1>1, FS_EmptySet DEF Count

(* An injective sequence in the middle adds the set of its elements.          *)
LEMMA BagGrows ==
  ASSUME NEW A, NEW a \in Seq(A), NEW b \in Seq(A), NEW c \in Seq(A), IsInjective(b)
  PROVE  ToBag((a \o b) \o c) = ToBag(a \o c) (+) SetToBag(Range(b))
<1> DEFINE s == (a \o b) \o c
           t == a \o c
<1>1. a \o b \in Seq(A) /\ s \in Seq(A) /\ t \in Seq(A)
  BY ConcatProperties
<1>2. Range(s) = Range(t) \cup Range(b)
  <2>0. \A u, v \in Seq(A) : Range(u \o v) = Range(u) \cup Range(v)
    BY RangeConcat
  <2> DEFINE d == a \o b
  <2>1. Range(s) = Range(d) \cup Range(c)
    <3>1. d \in Seq(A) /\ s = d \o c
      BY <1>1
    <3> HIDE DEF d, s
    <3> QED BY ONLY <2>0, <3>1, c \in Seq(A)
  <2>2. Range(d) = Range(a) \cup Range(b) /\ Range(t) = Range(a) \cup Range(c)
    BY RangeConcat
  <2> QED BY <2>1, <2>2
<1>3. ASSUME NEW x PROVE Count(s, x) = Count(t, x) + Count(b, x) /\ Count(t, x) \in Nat
  <2>1. Count(s, x) = Count(a \o b, x) + Count(c, x)
    BY <1>1, CountConcat
  <2>2. /\ Count(a \o b, x) = Count(a, x) + Count(b, x)
        /\ Count(a, x) \in Nat /\ Count(b, x) \in Nat
    BY CountConcat
  <2>3. Count(t, x) = Count(a, x) + Count(c, x) /\ Count(c, x) \in Nat
    BY CountConcat
  <2> QED BY <2>1, <2>2, <2>3
<1> HIDE DEF s, t
<1>4. ASSUME NEW x \in Range(s)
      PROVE  Count(s, x) = (IF x \in Range(t) THEN Count(t, x) ELSE 0)
                             + (IF x \in Range(b) THEN 1 ELSE 0)
  <2>1. Count(b, x) = IF x \in Range(b) THEN 1 ELSE 0
    BY CountOnce
  <2>2. Count(t, x) = IF x \in Range(t) THEN Count(t, x) ELSE 0
    BY CountNone
  <2> QED BY <1>3, <2>1, <2>2
<1>5. /\ ToBag(s) = [x \in Range(s) |-> Count(s, x)]
      /\ ToBag(t) = [x \in Range(t) |-> Count(t, x)]
      /\ SetToBag(Range(b)) = [x \in Range(b) |-> 1]
  BY DEF ToBag, Count, SetToBag
<1>6. ToBag(t) (+) SetToBag(Range(b))
        = [x \in Range(t) \cup Range(b) |->
             (IF x \in Range(t) THEN Count(t, x) ELSE 0) + (IF x \in Range(b) THEN 1 ELSE 0)]
  BY <1>5 DEF (+)
<1>7. ToBag(s) = ToBag(t) (+) SetToBag(Range(b))
  BY <1>2, <1>4, <1>5, <1>6
<1> QED BY <1>7 DEF s, t

LEMMA MiddleInjective ==
  ASSUME NEW A, NEW a \in Seq(A), NEW b \in Seq(A), NEW c \in Seq(A),
         IsInjective((a \o b) \o c)
  PROVE  IsInjective(b)
<1> DEFINE d == a \o b
           s == d \o c
<1>1. /\ d \in Seq(A) /\ Len(d) = Len(a) + Len(b) /\ Len(a) \in Nat /\ Len(b) \in Nat
      /\ \A j \in 1..(Len(a) + Len(b)) : d[j] = IF j <= Len(a) THEN a[j] ELSE b[j - Len(a)]
  <2>1. d = a \o b
    OBVIOUS
  <2> HIDE DEF d
  <2> QED BY <2>1, ConcatHas
<1> HIDE DEF d
<1>2. /\ s \in Seq(A) /\ Len(s) = Len(d) + Len(c) /\ Len(c) \in Nat
      /\ \A j \in 1..(Len(d) + Len(c)) : s[j] = IF j <= Len(d) THEN d[j] ELSE c[j - Len(d)]
  <2>1. s = d \o c
    OBVIOUS
  <2>2. d \in Seq(A)
    BY <1>1
  <2> HIDE DEF s
  <2> QED BY ONLY <2>1, <2>2, ConcatHas
<1>3. IsInjective(s)
  BY DEF d
<1> HIDE DEF s
<1>4. DOMAIN s = 1..Len(s) /\ DOMAIN b = 1..Len(b)
  BY <1>2, LenProperties
<1>5. ASSUME NEW j \in 1..Len(b)
      PROVE  Len(a) + j \in 1..Len(s) /\ s[Len(a) + j] = b[j]
  <2>1. /\ Len(a) + j \in 1..Len(s) /\ Len(a) + j \in 1..(Len(d) + Len(c))
        /\ Len(a) + j <= Len(d) /\ Len(a) + j \in 1..(Len(a) + Len(b))
        /\ ~ (Len(a) + j <= Len(a)) /\ (Len(a) + j) - Len(a) = j
    BY <1>1, <1>2
  <2> QED BY <1>1, <1>2, <2>1
<1>6. ASSUME NEW j \in 1..Len(b), NEW k \in 1..Len(b), b[j] = b[k] PROVE j = k
  <2>1. Len(a) + j = Len(a) + k
    BY <1>3, <1>4, <1>5, <1>6 DEF IsInjective
  <2> QED BY <1>1, <2>1
<1> QED BY <1>4, <1>6 DEF IsInjective

-----------------------------------------------------------------------------
(* ImplementsSkeleton: no two branches of the work stand for the same state,  *)
(* since there is a place that both have filled, and differently.             *)

Apart(s, t) == \E k \in 1..Len(s) : k \in 1..Len(t) /\ s[k] # t[k]

Differing(pb, sv, md) ==
  {p \in Item(pb, sv, md) \X Item(pb, sv, md) :
     p[1].kind = "branch" /\ p[2].kind = "branch" =>
       Apart(Filled(p[1].state), Filled(p[2].state))}

ApartInv ==
  /\ AccountInv
  /\ Pairwise(Differing(problem, solver, max_depth), work)

(* What a state has placed: talks, or their indexes.                          *)
Marks(pb, sv) == IF sv = "vector" THEN Range(pb.talks) ELSE Indexes(pb)

LEMMA AccountsTyped ==
  ASSUME NEW pb, NEW sv, NEW st, Accounts(pb, sv, st)
  PROVE  Typed(Marks(pb, sv), st)
BY DEF Accounts, VectorFits, BitFits, Fits, Marks

LEMMA KidsFilled ==
  ASSUME NEW pb, Conference(pb), NEW sv, NEW st \in States(pb, sv), Accounts(pb, sv, st),
         NEW k, k = Kids(pb, sv, st)
  PROVE  \/ \E next : k = <<next>> /\ Filled(next) = Filled(st)
         \/ \E c : /\ IsInjective(c) /\ DOMAIN c = DOMAIN k
                   /\ \A j \in DOMAIN k :
                        c[j] \in Marks(pb, sv) /\ Filled(k[j]) = Append(Filled(st), c[j])
<1> DEFINE U == Marks(pb, sv)
<1>1. Typed(U, st)
  BY AccountsTyped
<1> HIDE DEF U
<1>2. CASE st.track_no = pb.tracks
  <2>1. k = <<Committed(st)>>
    BY <1>2 DEF Kids, Refine, ExpandBranches
  <2>2. Filled(Committed(st)) = Filled(st)
    BY <1>1, FilledCommitted
  <2> QED BY <2>1, <2>2
<1>3. CASE st.track_no # pb.tracks /\ sv = "vector"
  <2> DEFINE c == st.slot_candidates
  <2>1. st \in State(pb) /\ IsRecord(st) /\ c \in Seq(U) /\ IsInjective(c)
    BY <1>3 DEF States, State, IsRecord, U, Marks, Accounts, VectorFits
  <2>2. k = [j \in DOMAIN c |-> Selected(pb, st, j)]
    BY <1>3 DEF Kids, Refine
  <2>3. ASSUME NEW j \in DOMAIN c
        PROVE  c[j] \in U /\ Filled(k[j]) = Append(Filled(st), c[j])
    <3>1. c[j] \in U
      BY <2>1, LenProperties, ElementOfSeq
    <3>2. SelectedHas(pb, st, j, c[j], Selected(pb, st, j))
      BY <2>1, SelectedIs
    <3>3. k[j] = Selected(pb, st, j)
      BY <2>2
    <3> HIDE DEF c
    <3> QED BY <1>1, <3>1, <3>2, <3>3, FilledSelected DEF SelectedHas
  <2>4. DOMAIN c = DOMAIN k
    BY <2>2
  <2> HIDE DEF c
  <2> QED BY <2>1, <2>3, <2>4 DEF U
<1>4. CASE st.track_no # pb.tracks /\ sv # "vector"
  <2> DEFINE c == Ascending(st.slot_candidates)
  <2>1. IsRecord(st) /\ st.slot_candidates \in SUBSET Bits
    BY <1>4 DEF States, BitState, IsRecord
  <2>2. st.slot_candidates \subseteq U
    BY <1>4 DEF Accounts, BitFits, Fits, Candidates, U, Marks
  <2>3. k = [j \in DOMAIN c |-> BitSelected(pb, st, c[j])]
    BY <1>4 DEF Kids, ExpandBranches
  <2>4. Range(c) = st.slot_candidates /\ IsInjective(c)
    BY <2>1, AscendingHas
  <2> HIDE DEF c
  <2>5. ASSUME NEW j \in DOMAIN c
        PROVE  c[j] \in U /\ Filled(k[j]) = Append(Filled(st), c[j])
    <3>1. c[j] \in U
      BY <2>2, <2>4 DEF Range
    <3>2. BitSelected(pb, st, c[j])
            = [slot_no |-> st.slot_no, track_no |-> st.track_no + 1, slots |-> st.slots,
               current_slot |-> Append(st.current_slot, c[j]),
               slot_candidates |-> (st.slot_candidates \ {c[j]}) \ ClashMask(pb, c[j]),
               remaining_talks |-> st.remaining_talks \ {c[j]}]
      BY <2>1, BitSelectedIs
    <3>3. k[j] = BitSelected(pb, st, c[j])
      BY <2>3
    <3>4. k[j].slots = st.slots /\ k[j].current_slot = Append(st.current_slot, c[j])
      BY <3>2, <3>3
    <3> QED BY <1>1, <3>1, <3>4, FilledSelected
  <2>6. DOMAIN c = DOMAIN k
    BY <2>3
  <2> QED BY <2>4, <2>5, <2>6 DEF U
<1> QED BY <1>2, <1>3, <1>4

LEMMA ApartGrows ==
  ASSUME NEW A, NEW s \in Seq(A), NEW e \in A, NEW u \in Seq(A), Apart(s, u) \/ Apart(u, s)
  PROVE  Apart(Append(s, e), u) /\ Apart(u, Append(s, e))
<1>1. /\ Len(Append(s, e)) = Len(s) + 1 /\ Len(s) \in Nat /\ Len(u) \in Nat
      /\ \A j \in 1..Len(s) : Append(s, e)[j] = s[j]
  BY AppendProperties, LenProperties
<1>2. PICK j \in 1..Len(s) : j \in 1..Len(u) /\ s[j] # u[j]
  BY DEF Apart
<1>3. j \in 1..Len(Append(s, e)) /\ Append(s, e)[j] = s[j]
  BY <1>1
<1> QED BY <1>2, <1>3 DEF Apart

LEMMA ApartEnds ==
  ASSUME NEW A, NEW s \in Seq(A), NEW d \in A, NEW e \in A, d # e
  PROVE  Apart(Append(s, d), Append(s, e))
<1>1. /\ Len(Append(s, d)) = Len(s) + 1 /\ Len(Append(s, e)) = Len(s) + 1 /\ Len(s) \in Nat
      /\ Append(s, d)[Len(s) + 1] = d /\ Append(s, e)[Len(s) + 1] = e
  BY AppendProperties, LenProperties
<1>2. Len(s) + 1 \in 1..(Len(s) + 1)
  BY <1>1
<1> QED BY <1>1, <1>2 DEF Apart

LEMMA KidsApart ==
  ASSUME NEW pb, Conference(pb), NEW sv, NEW st \in States(pb, sv), Accounts(pb, sv, st),
         NEW k, k = Kids(pb, sv, st)
  PROVE  /\ \A j, m \in DOMAIN k : j # m => Apart(Filled(k[j]), Filled(k[m]))
         /\ \A j \in DOMAIN k : \A u \in Seq(Marks(pb, sv)) :
              Apart(Filled(st), u) \/ Apart(u, Filled(st)) =>
                Apart(Filled(k[j]), u) /\ Apart(u, Filled(k[j]))
<1> DEFINE A == Marks(pb, sv)
           s == Filled(st)
<1>1. s \in Seq(A)
  BY AccountsTyped, FilledType
<1> HIDE DEF A, s
<1>2. CASE \E next : k = <<next>> /\ Filled(next) = s
  <2>1. PICK next : k = <<next>> /\ Filled(next) = s
    BY <1>2
  <2>2. DOMAIN k = {1} /\ k[1] = next
    BY <2>1
  <2>3. \A u : Apart(s, u) \/ Apart(u, s) => Apart(s, u) /\ Apart(u, s)
    BY DEF Apart
  <2> QED BY <2>1, <2>2, <2>3 DEF s
<1>3. CASE \E c : /\ IsInjective(c) /\ DOMAIN c = DOMAIN k
                  /\ \A j \in DOMAIN k : c[j] \in A /\ Filled(k[j]) = Append(s, c[j])
  <2>1. PICK c : /\ IsInjective(c) /\ DOMAIN c = DOMAIN k
                 /\ \A j \in DOMAIN k : c[j] \in A /\ Filled(k[j]) = Append(s, c[j])
    BY <1>3
  <2>2. \A j, m \in DOMAIN k : j # m => c[j] # c[m]
    BY <2>1 DEF IsInjective
  <2>3. ASSUME NEW j \in DOMAIN k, NEW m \in DOMAIN k, j # m
        PROVE  Apart(Filled(k[j]), Filled(k[m]))
    <3>1. Apart(Append(s, c[j]), Append(s, c[m]))
      BY <1>1, <2>1, <2>2, <2>3, ApartEnds
    <3> QED BY <2>1, <3>1
  <2>4. ASSUME NEW j \in DOMAIN k, NEW u \in Seq(A), Apart(s, u) \/ Apart(u, s)
        PROVE  Apart(Filled(k[j]), u) /\ Apart(u, Filled(k[j]))
    <3>1. Apart(Append(s, c[j]), u) /\ Apart(u, Append(s, c[j]))
      BY <1>1, <2>1, <2>4, ApartGrows
    <3> QED BY <2>1, <3>1
  <2> QED BY <2>3, <2>4 DEF A, s
<1> QED BY <1>2, <1>3, KidsFilled DEF A, s

LEMMA ApartInvInit == Init => ApartInv
<1> SUFFICES ASSUME Init PROVE ApartInv
  OBVIOUS
<1>1. PICK c \in Call : work = <<Branch(0, FirstState(c.problem, c.solver))>>
  BY DEF Init, FirstState
<1>2. Len(work) = 1
  BY <1>1
<1>3. \A j, k \in 1..Len(work) : j = k
  BY <1>2
<1> QED BY <1>3, AccountInvInit DEF ApartInv, Pairwise

LEMMA ApartInvPuts ==
  ASSUME ApartInv, NEW i \in DOMAIN work, NEW s, Puts(i, s)
  PROVE  ApartInv'
<1> DEFINE A == Item(problem, solver, max_depth)
           L == Differing(problem, solver, max_depth)
           st == work[i].state
           k == Kids(problem, solver, st)
<1>1. /\ problem' = problem /\ solver' = solver /\ max_depth' = max_depth
      /\ work' = Exchanged(work, i, s)
  BY DEF Puts, Becomes, Exchanged
<1>2. AccountInv'
  BY AccountInvPuts DEF ApartInv
<1>3. work \in Seq(A) /\ i \in 1..Len(work) /\ s \in Seq(A)
  BY LenProperties DEF ApartInv, AccountInv, SearchInv, Puts
<1>4. Conference(problem)
  BY CallFacts DEF ApartInv, AccountInv, SearchInv
<1>5. \A x \in Sound(problem, solver, max_depth) : x.kind = "branch" =>
        /\ x.state \in States(problem, solver) /\ Accounts(problem, solver, x.state)
        /\ Filled(x.state) \in Seq(Marks(problem, solver))
  BY AccountsTyped, FilledType DEF Sound, Item
<1>6. \A j \in 1..Len(work) : work[j] \in Sound(problem, solver, max_depth) /\ work[j] \in A
  BY <1>3, ElementOfSeq DEF ApartInv, AccountInv
<1>7. \A m \in 1..Len(s) : s[m] \in A
  BY <1>3, ElementOfSeq
<1>8. ASSUME NEW m \in 1..Len(s), s[m].kind = "branch"
      PROVE  /\ Pending(i) /\ m \in DOMAIN k /\ s[m].state = k[m]
             /\ st \in States(problem, solver) /\ Accounts(problem, solver, st)
  <2>1. Pending(i) /\ m \in DOMAIN k /\ s[m].state = k[m]
    BY <1>8 DEF Puts
  <2> QED BY <1>3, <1>5, <1>6, <2>1 DEF Pending
<1> HIDE DEF A, k, st
<1>9. \A j, m \in 1..Len(work) : j # m => <<work[j], work[m]>> \in L
  BY DEF ApartInv, Pairwise
<1>10. ASSUME NEW j \in 1..Len(s), NEW m \in 1..Len(s), j # m PROVE <<s[j], s[m]>> \in L
  <2>1. ASSUME s[j].kind = "branch", s[m].kind = "branch"
        PROVE  Apart(Filled(s[j].state), Filled(s[m].state))
    BY <1>4, <1>8, <1>10, <2>1, KidsApart DEF k
  <2> QED BY <1>7, <2>1 DEF Differing, A
<1>11. ASSUME NEW j \in 1..Len(work), NEW m \in 1..Len(s), j # i
       PROVE  <<work[j], s[m]>> \in L /\ <<s[m], work[j]>> \in L
  <2>1. ASSUME work[j].kind = "branch", s[m].kind = "branch"
        PROVE  /\ Apart(Filled(s[m].state), Filled(work[j].state))
               /\ Apart(Filled(work[j].state), Filled(s[m].state))
    <3>1. <<work[i], work[j]>> \in L /\ work[i].kind = "branch"
      BY <1>3, <1>8, <1>9, <1>11, <2>1 DEF Pending
    <3>2. Apart(Filled(st), Filled(work[j].state))
      BY <2>1, <3>1 DEF Differing, st
    <3>3. Filled(work[j].state) \in Seq(Marks(problem, solver))
      BY <1>5, <1>6, <2>1
    <3> QED BY <1>4, <1>8, <2>1, <3>2, <3>3, KidsApart DEF k
  <2> QED BY <1>6, <1>7, <2>1 DEF Differing, A
<1> HIDE DEF L
<1>12. Pairwise(L, work')
  <2>1. Pairwise(L, work)
    BY <1>9 DEF Pairwise
  <2>2. Pairwise(L, s)
    BY <1>10 DEF Pairwise
  <2>3. Beside(L, work, i, s)
    BY <1>11 DEF Beside
  <2>4. Pairwise(L, Exchanged(work, i, s))
    BY <1>3, <2>1, <2>2, <2>3, ExchangedPairs
  <2> QED BY <1>1, <2>4
<1>13. Differing(problem, solver, max_depth)' = L
  BY <1>1 DEF L, Differing, Item, Depths, States, Outcomes
<1> QED BY <1>2, <1>12, <1>13 DEF ApartInv

LEMMA ApartInvNext == ApartInv /\ [Next]_vars => ApartInv'
<1> SUFFICES ASSUME ApartInv, [Next]_vars PROVE ApartInv'
  OBVIOUS
<1>1. CASE UNCHANGED vars
  <2>1. problem' = problem /\ solver' = solver /\ max_depth' = max_depth /\ work' = work
    BY <1>1 DEF vars
  <2>2. Differing(problem, solver, max_depth)' = Differing(problem, solver, max_depth)
    BY <2>1 DEF Differing, Item, Depths, States, Outcomes
  <2> QED BY <1>1, <2>1, <2>2, AccountInvNext DEF ApartInv
<1>2. CASE Next
  <2>1. PICK i \in DOMAIN work : \E s : Puts(i, s)
    BY <1>2, StepPuts DEF ApartInv, AccountInv
  <2>2. PICK s : Puts(i, s)
    BY <2>1
  <2> QED BY <2>2, ApartInvPuts
<1> QED BY <1>1, <1>2

-----------------------------------------------------------------------------
(* ImplementsSkeleton: the branches and the results of the work.              *)

Rows(pb, sv) == IF sv = "vector" THEN Timetables(pb) ELSE BitTimetables(pb)

Out(x) == IF x.kind = "branch" THEN <<>> ELSE x.out

Outs(w) == [j \in 1..Len(w) |-> Out(w[j])]

Nodes(X) == {Node(x.state) : x \in {y \in X : y.kind = "branch"}}

LEMMA OutType ==
  ASSUME NEW pb, NEW sv \in Solver, sv # "counter", NEW md
  PROVE  \A x \in Item(pb, sv, md) : Out(x) \in Seq(Rows(pb, sv))
<1>1. Outcomes(pb, sv) = Seq(Rows(pb, sv))
  BY DEF Outcomes, Rows, Solver
<1> DEFINE B == Seq(Rows(pb, sv))
<1>2. <<>> \in B
  OBVIOUS
<1> HIDE DEF B
<1>3. ASSUME NEW x \in Item(pb, sv, md) PROVE Out(x) \in B
  <2>1. x.kind = "branch" \/ x.out \in B
    BY <1>1 DEF Item, B
  <2> QED BY <1>2, <2>1 DEF Out
<1> QED BY <1>3 DEF B

LEMMA OutsConcat ==
  ASSUME NEW A, NEW v \in Seq(A), NEW w \in Seq(A)
  PROVE  Outs(v \o w) = Outs(v) \o Outs(w)
<1> DEFINE F == [a \in A |-> Out(a)]
<1>1. ASSUME NEW s \in Seq(A) PROVE Outs(s) = Map(F, s)
  <2>1. \A i \in 1..Len(s) : s[i] \in A /\ F[s[i]] = Out(s[i])
    BY ElementOfSeq
  <2> QED BY <2>1 DEF Outs, Map
<1> HIDE DEF F
<1>2. v \o w \in Seq(A)
  BY ConcatProperties
<1>3. Map(F, v \o w) = Map(F, v) \o Map(F, w)
  BY MapConcat
<1>4. Outs(v) = Map(F, v) /\ Outs(w) = Map(F, w) /\ Outs(v \o w) = Map(F, v \o w)
  BY <1>1, <1>2
<1> QED BY ONLY <1>3, <1>4

(* All that the results have, in the order of the work.                       *)
Flat(w) == FlattenSeq(Outs(w))

LEMMA FlatHas ==
  ASSUME NEW A, NEW B, \A x \in A : Out(x) \in Seq(B), NEW v \in Seq(A), NEW w \in Seq(A)
  PROVE  /\ Flat(v) \in Seq(B) /\ Flat(w) \in Seq(B)
         /\ Flat(v \o w) = Flat(v) \o Flat(w)
<1>1. ASSUME NEW s \in Seq(A) PROVE Outs(s) \in Seq(Seq(B))
  <2> DEFINE D == Seq(B)
  <2>1. \A j \in 1..Len(s) : Out(s[j]) \in D
    BY ElementOfSeq
  <2>2. Len(s) \in Nat
    BY LenProperties
  <2> HIDE DEF D
  <2> QED BY <2>1, <2>2, IsASeq DEF Outs, D
<1>2. Outs(v) \in Seq(Seq(B)) /\ Outs(w) \in Seq(Seq(B))
  BY <1>1
<1>3. Outs(v \o w) = Outs(v) \o Outs(w)
  BY OutsConcat
<1>4. FlattenSeq(Outs(v) \o Outs(w)) = FlattenSeq(Outs(v)) \o FlattenSeq(Outs(w))
  BY <1>2, FlattenConcat
<1>5. FlattenSeq(Outs(v)) \in Seq(B) /\ FlattenSeq(Outs(w)) \in Seq(B)
  BY <1>2, FlattenType
<1> QED BY <1>3, <1>4, <1>5 DEF Flat

LEMMA FlatOne ==
  ASSUME NEW A, NEW x, Out(x) \in Seq(A)
  PROVE  Flat(<<x>>) = Out(x)
<1>1. Outs(<<x>>) = <<Out(x)>>
  BY DEF Outs
<1> HIDE DEF Out
<1> QED BY <1>1, FlattenOne DEF Flat

LEMMA CollectedIs ==
  ASSUME SearchInv
  PROVE  /\ Collected = Flat(work)
         /\ {Node(work[i].state) : i \in {j \in DOMAIN work : Pending(j)}} = Nodes(Range(work))
<1>1. DOMAIN work = 1..Len(work)
  BY LenProperties DEF SearchInv
<1>2. Collected = Flat(work)
  BY <1>1 DEF Collected, Flat, Outs, Out, Pending
<1>3. {Node(work[i].state) : i \in {j \in DOMAIN work : Pending(j)}} = Nodes(Range(work))
  BY DEF Nodes, Range, Pending
<1> QED BY <1>2, <1>3

(* A branch makes way for the items of s, in which no solution is twice.      *)
LEMMA TakesItems ==
  ASSUME ApartInv, NEW i \in DOMAIN work, Pending(i), solver # "counter",
         NEW s \in Seq(Item(problem, solver, max_depth)), Becomes(i, s), SearchInv',
         IsInjective(Flat(s))
  PROVE  Skeleton!Takes(Node(work[i].state), Nodes(Range(s)), Range(Flat(s)))
<1> DEFINE A == Item(problem, solver, max_depth)
           B == Rows(problem, solver)
           x == work[i]
           a == SubSeq(work, 1, i - 1)
           c == SubSeq(work, i + 1, Len(work))
           p == Node(x.state)
<1>1. /\ problem' = problem /\ solver' = solver /\ max_depth' = max_depth
      /\ work' = (a \o s) \o c /\ work' = Exchanged(work, i, s)
  BY DEF Becomes, Exchanged
<1>2. SearchInv /\ solver \in Solver /\ work \in Seq(A) /\ i \in 1..Len(work)
  BY CallFacts, LenProperties DEF ApartInv, AccountInv, SearchInv
<1>3. /\ a \in Seq(A) /\ c \in Seq(A) /\ x \in A /\ <<x>> \in Seq(A)
      /\ work = (a \o <<x>>) \o c
  BY <1>2, Split
<1>4. x.kind = "branch"
  BY DEF Pending
<1> HIDE DEF a, c, x
<1>5. ToBag(Flat(work)) (+) SetToBag(Range(Flat(s))) = ToBag(Flat(work'))
  <2> HIDE DEF A, B
  <2>0. \A v, w \in Seq(A) : Flat(v) \in Seq(B) /\ Flat(v \o w) = Flat(v) \o Flat(w)
    <3>1. \A y \in A : Out(y) \in Seq(B)
      BY <1>2, OutType DEF A, B
    <3> QED BY <3>1, FlatHas
  <2>1. s \in Seq(A) /\ Flat(a) \in Seq(B) /\ Flat(c) \in Seq(B) /\ Flat(s) \in Seq(B)
    BY <1>3, <2>0 DEF A
  <2>2. Flat(work') = (Flat(a) \o Flat(s)) \o Flat(c)
    <3>1. a \o s \in Seq(A) /\ c \in Seq(A)
      BY <1>3, <2>1, ConcatProperties
    <3>2. Flat((a \o s) \o c) = Flat(a \o s) \o Flat(c)
      BY <2>0, <3>1
    <3>3. Flat(a \o s) = Flat(a) \o Flat(s)
      BY <1>3, <2>0, <2>1
    <3> QED BY <1>1, <3>2, <3>3
  <2>3. Flat(work) = Flat(a) \o Flat(c)
    <3>1. a \o <<x>> \in Seq(A) /\ c \in Seq(A)
      BY <1>3, ConcatProperties
    <3>2. Flat((a \o <<x>>) \o c) = Flat(a \o <<x>>) \o Flat(c)
      BY <2>0, <3>1
    <3>3. Flat(a \o <<x>>) = Flat(a) \o Flat(<<x>>)
      BY <1>3, <2>0, <2>1
    <3>4. Flat(<<x>>) = <<>>
      <4>1. Out(x) = <<>> /\ Out(x) \in Seq(B)
        BY <1>4 DEF Out
      <4> QED BY <4>1, FlatOne
    <3>5. Flat(a) \o <<>> = Flat(a)
      BY <2>1, ConcatEmptySeq
    <3> QED BY <1>3, <3>2, <3>3, <3>4, <3>5
  <2> QED BY <2>1, <2>2, <2>3, BagGrows
<1>6. Nodes(Range(work')) = (Nodes(Range(work)) \ {p}) \cup Nodes(Range(s))
  <2> DEFINE O == {work[j] : j \in 1..Len(work) \ {i}}
  <2>1. Range(work') = O \cup Range(s)
    BY <1>1, <1>2, ExchangedRange
  <2>2. Range(work) = O \cup {x}
    <3>1. DOMAIN work = 1..Len(work)
      BY <1>2, LenProperties
    <3> QED BY <1>2, <3>1 DEF Range, x
  <2>3. ASSUME NEW y \in O, y.kind = "branch" PROVE Node(y.state) # p
    <3>1. PICK j \in 1..Len(work) : j # i /\ y = work[j]
      OBVIOUS
    <3>2. <<work[j], work[i]>> \in Differing(problem, solver, max_depth)
      BY <1>2, <3>1 DEF ApartInv, Pairwise
    <3>3. Apart(Filled(y.state), Filled(x.state))
      BY <1>4, <2>3, <3>1, <3>2 DEF Differing, x
    <3>4. y.state # x.state
      BY <3>3 DEF Apart
    <3>5. Node(y.state).state = y.state /\ p.state = x.state
      BY DEF Node
    <3> QED BY <3>4, <3>5
  <2>4. Nodes(O \cup {x}) = Nodes(O) \cup {p}
    BY <1>4 DEF Nodes
  <2>5. p \notin Nodes(O)
    BY <2>3 DEF Nodes
  <2>6. Nodes(O \cup Range(s)) = Nodes(O) \cup Nodes(Range(s))
    BY DEF Nodes
  <2> HIDE DEF O, p
  <2> QED BY <2>1, <2>2, <2>4, <2>5, <2>6
<1>7. /\ Collected = Flat(work)
      /\ {Node(work[j].state) : j \in {k \in DOMAIN work : Pending(k)}} = Nodes(Range(work))
  BY <1>2, CollectedIs
<1>8. Collected' = Flat(work')
  <2>1. DOMAIN work' = 1..Len(work')
    BY LenProperties DEF SearchInv
  <2> QED BY <2>1 DEF Collected, Flat, Outs, Out, Pending
<1>9. {Node(work[j].state) : j \in {k \in DOMAIN work : Pending(k)}}' = Nodes(Range(work'))
  BY <1>1 DEF Nodes, Node, Range, Pending
<1>10. UNCHANGED RootOf([problem |-> problem, solver |-> solver])
  BY <1>1 DEF RootOf
<1>11. ToBag(Collected)' = ToBag(Collected) (+) SetToBag(Range(Flat(s)))
  BY <1>5, <1>7, <1>8 DEF ToBag
<1>12. {Node(work[j].state) : j \in {k \in DOMAIN work : Pending(k)}}'
         = ({Node(work[j].state) : j \in {k \in DOMAIN work : Pending(k)}} \ {p})
             \cup Nodes(Range(s))
  BY <1>6, <1>7, <1>9
<1>13. solver' # "counter"
  BY <1>1
<1> HIDE DEF p
<1>14. Skeleton!Takes(p, Nodes(Range(s)), Range(Flat(s)))
  BY <1>10, <1>11, <1>12, <1>13 DEF Skeleton!Takes, Skeleton!(+), (+), Skeleton!SetToBag, SetToBag
<1> QED BY <1>14 DEF p, x

(* What the search of a pending branch finds is a part of what the search     *)
(* from the start finds, which has nothing twice.                             *)
LEMMA InjectiveSearch ==
  ASSUME SearchInv, solver # "counter", NEW i \in DOMAIN work, Pending(i)
  PROVE  /\ Search(problem, solver, work[i].state) \in Seq(Rows(problem, solver))
         /\ IsInjective(Search(problem, solver, work[i].state))
<1> DEFINE A == Item(problem, solver, max_depth)
           B == Rows(problem, solver)
           a == SubSeq(work, 1, i - 1)
           c == SubSeq(work, i + 1, Len(work))
           out == Search(problem, solver, work[i].state)
           W(w) == Gather(solver, Worths(problem, solver, w))
           found == SeqSearch(problem, Start(problem))
<1>1. Conference(problem) /\ solver \in Solver /\ Len(problem.talks) <= Width
  BY CallFacts, CallFitsWord DEF SearchInv
<1>2. /\ Outcomes(problem, solver) = Seq(B)
      /\ \A u, v : Join(solver, u, v) = u \o v
  BY <1>1 DEF Outcomes, Rows, Solver, Join
<1>3. W(work) = found /\ IsInjective(found)
  <2>1. W(work) = Search(problem, solver, FirstState(problem, solver))
    BY DEF SearchInv
  <2>2. BitSearch(problem, BitStart(problem)) = found /\ IsInjective(found)
    BY <1>1, SolversFindAll
  <2> HIDE DEF found, W
  <2>3. Search(problem, solver, FirstState(problem, solver)) = found
    BY <1>1, <2>2 DEF Search, FirstState, Solver, found
  <2> QED BY <2>1, <2>2, <2>3
<1> HIDE DEF found
<1>4. work \in Seq(A) /\ i \in 1..Len(work)
  BY LenProperties DEF SearchInv
<1>5. /\ a \in Seq(A) /\ c \in Seq(A) /\ work[i] \in A /\ <<work[i]>> \in Seq(A)
      /\ work = (a \o <<work[i]>>) \o c
  BY <1>4, Split
<1>6. Worth(problem, solver, work[i]) = out /\ out \in Seq(B)
  BY <1>1, <1>2, PendingFacts, SearchFacts
<1> HIDE DEF A, B, a, c, out
<1>7. ASSUME NEW v \in Seq(A) PROVE Worths(problem, solver, v) \in Seq(Seq(B))
  BY <1>1, <1>2, <1>7, WorthType DEF A
<1>8. ASSUME NEW v \in Seq(A), NEW w \in Seq(A)
      PROVE  W(v) \in Seq(B) /\ W(v \o w) = W(v) \o W(w)
  <2> DEFINE f == Worths(problem, solver, v)
             g == Worths(problem, solver, w)
  <2>1. Worths(problem, solver, v \o w) = f \o g
    BY WorthConcat
  <2>2. f \in Seq(Outcomes(problem, solver)) /\ g \in Seq(Outcomes(problem, solver))
    BY <1>2, <1>7
  <2> HIDE DEF f, g
  <2>3. /\ Gather(solver, f) \in Outcomes(problem, solver)
        /\ Gather(solver, f \o g) = Join(solver, Gather(solver, f), Gather(solver, g))
    BY <1>1, <2>2, Gathering
  <2> QED BY <1>2, <2>1, <2>3 DEF f, g
<1>9. W(<<work[i]>>) = out
  <2>1. Worths(problem, solver, <<work[i]>>) = <<out>>
    BY <1>6, WorthOne
  <2>2. Gather(solver, <<out>>) = out
    BY <1>1, <1>2, <1>6, GatherOne
  <2> QED BY <2>1, <2>2
<1> HIDE DEF W
<1>10. W(work) = (W(a) \o out) \o W(c)
  <2>1. a \o <<work[i]>> \in Seq(A)
    BY <1>5, ConcatProperties
  <2>2. W((a \o <<work[i]>>) \o c) = W(a \o <<work[i]>>) \o W(c)
    BY <1>5, <1>8, <2>1
  <2>3. W(a \o <<work[i]>>) = W(a) \o W(<<work[i]>>)
    BY <1>5, <1>8
  <2> QED BY <1>5, <1>9, <2>2, <2>3
<1>11. W(a) \in Seq(B) /\ W(c) \in Seq(B)
  BY <1>5, <1>8
<1>12. IsInjective(out)
  BY <1>3, <1>6, <1>10, <1>11, MiddleInjective
<1> QED BY <1>6, <1>12 DEF out, B

LEMMA SearchedTakes ==
  ASSUME ApartInv, NEW i \in DOMAIN work, Pending(i), solver # "counter",
         Puts(i, Searched(i))
  PROVE  Skeleton!Takes(Node(work[i].state), {},
                        Range(Search(problem, solver, work[i].state)))
<1> DEFINE out == Search(problem, solver, work[i].state)
           x == Result(out)
           s == <<x>>
<1>1. SearchInv /\ SearchInv'
  BY SearchInvPuts DEF ApartInv, AccountInv
<1>2. out \in Seq(Rows(problem, solver)) /\ IsInjective(out)
  BY <1>1, InjectiveSearch
<1>3. Searched(i) = s
  BY DEF Searched
<1>4. x.kind = "result" /\ Out(x) = out
  BY DEF Result, Out
<1> HIDE DEF x, out
<1>5. Flat(s) = out
  BY <1>2, <1>4, FlatOne
<1>6. Nodes(Range(s)) = {}
  <2>1. Range(s) = {x}
    BY DEF Range
  <2> HIDE DEF s
  <2> QED BY <1>4, <2>1 DEF Nodes
<1>7. s \in Seq(Item(problem, solver, max_depth)) /\ Becomes(i, s)
  BY <1>3 DEF Puts
<1> HIDE DEF s
<1>8. Skeleton!Takes(Node(work[i].state), Nodes(Range(s)), Range(Flat(s)))
  BY <1>1, <1>2, <1>5, <1>7, TakesItems
<1> QED BY <1>5, <1>6, <1>8 DEF out

LEMMA ForkedTakes ==
  ASSUME ApartInv, NEW i \in DOMAIN work, Pending(i), solver # "counter",
         Puts(i, Forked(i))
  PROVE  Skeleton!Takes(Node(work[i].state), BranchesOf(Node(work[i].state)), {})
<1> DEFINE k == Kids(problem, solver, work[i].state)
           s == Forked(i)
<1>1. SearchInv /\ SearchInv'
  BY SearchInvPuts DEF ApartInv, AccountInv
<1>2. s \in Seq(Item(problem, solver, max_depth)) /\ Becomes(i, s)
  BY DEF Puts
<1>3. DOMAIN s = DOMAIN k /\ \A j \in DOMAIN k : s[j].kind = "branch" /\ s[j].state = k[j]
  BY DEF Forked, Branch
<1> HIDE DEF s
<1>4. Range(Flat(s)) = {}
  <2> DEFINE A == {}
  <2>1. DOMAIN s = 1..Len(s) /\ Len(s) \in Nat
    BY <1>2, LenProperties
  <2>2. \A j \in 1..Len(s) : Out(s[j]) = <<>>
    BY <1>3, <2>1 DEF Out
  <2>3. Outs(s) \in Seq(Seq(A)) /\ Len(Outs(s)) = Len(s)
        /\ \A j \in 1..Len(s) : Outs(s)[j] = <<>>
    <3> DEFINE D == Seq(A)
    <3>1. <<>> \in D
      OBVIOUS
    <3> HIDE DEF D
    <3>2. \A j \in 1..Len(s) : Out(s[j]) \in D
      BY <2>2, <3>1
    <3> QED BY <2>1, <2>2, <3>2, IsASeq DEF Outs, D
  <2>4. Range(FlattenSeq(Outs(s))) = Holding(Outs(s), Len(s))
    BY <2>3, FlattenRange
  <2>5. Range(<<>>) = {}
    BY EmptyFacts
  <2> QED BY <2>3, <2>4, <2>5 DEF Holding, Flat
<1>5. IsInjective(Flat(s))
  BY <1>4 DEF Range, IsInjective
<1>6. Nodes(Range(s)) = BranchesOf(Node(work[i].state))
  <2>1. k = IF solver = "vector" THEN Refine(problem, work[i].state)
                                 ELSE ExpandBranches(problem, work[i].state)
    BY DEF Kids
  <2> HIDE DEF k
  <2>2. Nodes(Range(s)) = {Node(k[j]) : j \in DOMAIN k}
    BY <1>3 DEF Nodes, Range
  <2>3. BranchesOf(Node(work[i].state)) = {Node(t) : t \in Range(k)}
    BY <2>1 DEF BranchesOf, Node
  <2> QED BY <2>2, <2>3 DEF Range
<1>7. Skeleton!Takes(Node(work[i].state), Nodes(Range(s)), Range(Flat(s)))
  BY <1>1, <1>2, <1>5, TakesItems
<1> QED BY <1>4, <1>6, <1>7

LEMMA SkeletonInit == Init => Skeleton!Init
<1> SUFFICES ASSUME Init PROVE Skeleton!Init
  OBVIOUS
<1> DEFINE r == RootOf([problem |-> problem, solver |-> solver])
           st == FirstState(problem, solver)
           x == Branch(0, st)
<1>1. PICK c \in Call :
        /\ problem = c.problem /\ solver = c.solver /\ max_depth = c.max_depth
        /\ work = <<Branch(0, FirstState(c.problem, c.solver))>>
  BY DEF Init, FirstState
<1>2. work = <<x>>
  BY <1>1
<1>3. r = RootOf(c) /\ r = Node(st)
  BY <1>1 DEF RootOf, Node, FirstState
<1>4. SearchInv
  BY SearchInvInit
<1>5. x.kind = "branch" /\ x.state = st
  BY DEF Branch
<1> HIDE DEF x, st
<1>6. Nodes(Range(work)) = {r}
  <2>1. Range(work) = {x}
    BY <1>2 DEF Range
  <2> QED BY <1>3, <1>5, <2>1 DEF Nodes
<1>7. ToBag(Flat(work)) = SetToBag({})
  <2>1. Out(x) = <<>> /\ <<>> \in Seq({})
    BY <1>5 DEF Out
  <2>2. Flat(<<x>>) = Out(x)
    BY <2>1, FlatOne
  <2>3. Range(<<>>) = {}
    BY EmptyFacts
  <2> QED BY <1>2, <2>1, <2>2, <2>3 DEF ToBag, SetToBag
<1>8. /\ ToBag(Collected) = SetToBag({})
      /\ {Node(work[i].state) : i \in {j \in DOMAIN work : Pending(j)}} = {r}
  BY <1>4, <1>6, <1>7, CollectedIs
<1>9. r \in {RootOf(d) : d \in Call}
  BY <1>3
<1> HIDE DEF r
<1> QED BY <1>8, <1>9
    DEF r, Skeleton!Init, EmptyBag, Skeleton!EmptyBag, SetToBag, Skeleton!SetToBag

LEMMA SolveImplements ==
  ASSUME ApartInv, solver # "counter", NEW i \in DOMAIN work, Solve(i)
  PROVE  Skeleton!Solve(Node(work[i].state))
<1> DEFINE st == work[i].state
           p == Node(st)
<1>1. SearchInv /\ Pending(i) /\ Finished(problem, st)
  BY DEF ApartInv, AccountInv, Solve
<1>2. Conference(problem) /\ solver \in Solver /\ st \in States(problem, solver)
  BY <1>1, CallFacts, PendingFacts DEF SearchInv
<1>3. Search(problem, solver, st) = <<OutcomeOf(p)>>
  <2>1. Search(problem, solver, st) = End(problem, solver, st)
    BY <1>1, <1>2, SearchFacts
  <2> HIDE DEF st
  <2> QED BY <1>2, <2>1 DEF End, Solver, OutcomeOf, Node
<1>4. Skeleton!Takes(p, {}, Range(Search(problem, solver, st)))
  BY <1>1, SolvePuts, SearchedTakes
<1>5. Range(<<OutcomeOf(p)>>) = {OutcomeOf(p)}
  <2> HIDE DEF p
  <2> QED BY DEF Range
<1>6. Finished(p.problem, p.state)
  BY <1>1 DEF Node
<1> HIDE DEF p, st
<1> QED BY <1>3, <1>4, <1>5, <1>6 DEF Skeleton!Solve, p, st

LEMMA ForkImplements ==
  ASSUME ApartInv, solver # "counter", NEW i \in DOMAIN work, Fork(i)
  PROVE  Skeleton!Fork(Node(work[i].state))
<1> DEFINE p == Node(work[i].state)
<1>1. SearchInv /\ Pending(i) /\ ~ Finished(problem, work[i].state)
  BY DEF ApartInv, AccountInv, Fork
<1>2. Skeleton!Takes(p, BranchesOf(p), {})
  BY <1>1, ForkPuts, ForkedTakes
<1>3. ~ Finished(p.problem, p.state)
  BY <1>1 DEF Node
<1> HIDE DEF p
<1> QED BY <1>2, <1>3 DEF Skeleton!Fork, p

LEMMA FallbackImplements ==
  ASSUME ApartInv, solver # "counter", NEW i \in DOMAIN work, Fallback(i)
  PROVE  Skeleton!Fallback(Node(work[i].state))
<1> DEFINE st == work[i].state
           p == Node(st)
           k == Kids(problem, solver, st)
           B == Rows(problem, solver)
           f == Searches(problem, solver, k)
<1>1. SearchInv /\ Pending(i) /\ ~ Finished(problem, st)
  BY DEF ApartInv, AccountInv, Fallback
<1>2. Conference(problem) /\ solver \in Solver /\ st \in States(problem, solver)
  BY <1>1, CallFacts, PendingFacts DEF SearchInv
<1>3. /\ k \in Seq(States(problem, solver))
      /\ Search(problem, solver, st) = FlattenSeq(f)
  BY <1>1, <1>2, SearchFacts DEF Gather
<1>4. Outcomes(problem, solver) = Seq(B)
  BY <1>2 DEF Outcomes, Rows, Solver
<1>5. \A t : SolutionsOf(Node(t)) = Range(Search(problem, solver, t))
  BY <1>2 DEF SolutionsOf, Node, Search, Solver
<1>6. BranchesOf(p) = {Node(k[j]) : j \in DOMAIN k}
  BY DEF BranchesOf, Node, Range, Kids
<1>7. Skeleton!Takes(p, {}, Range(Search(problem, solver, st)))
  BY <1>1, FallbackPuts, SearchedTakes
<1>8. ~ Finished(p.problem, p.state)
  BY <1>1 DEF Node
<1> HIDE DEF p, k, B, st
<1>9. /\ DOMAIN k = 1..Len(k) /\ Len(k) \in Nat
      /\ \A j \in 1..Len(k) : k[j] \in States(problem, solver)
  BY <1>3, LenProperties, ElementOfSeq
<1>10. /\ f \in Seq(Seq(B)) /\ Len(f) = Len(k)
       /\ \A j \in 1..Len(k) : f[j] = Search(problem, solver, k[j])
  <2> DEFINE D == Outcomes(problem, solver)
  <2>1. \A j \in 1..Len(k) : Search(problem, solver, k[j]) \in D
    BY <1>2, <1>9, SearchFacts
  <2> HIDE DEF D
  <2>2. f \in Seq(D) /\ Len(f) = Len(k)
    BY <1>9, <2>1, IsASeq DEF Searches
  <2> QED BY <1>4, <1>9, <2>2 DEF Searches, D
<1> HIDE DEF f
<1>11. Range(FlattenSeq(f)) = UNION {Range(f[j]) : j \in 1..Len(f)}
  BY <1>10, FlattenRange DEF Holding
<1>12. UNION {SolutionsOf(q) : q \in BranchesOf(p)} = Range(Search(problem, solver, st))
  <2>1. {SolutionsOf(q) : q \in BranchesOf(p)} = {Range(f[j]) : j \in 1..Len(f)}
    BY <1>5, <1>6, <1>9, <1>10
  <2> QED BY <1>3, <1>11, <2>1
<1> QED BY <1>7, <1>8, <1>12 DEF Skeleton!Fallback, p, st

LEMMA SkeletonNext == ApartInv /\ [Next]_vars => [Skeleton!Next]_(Skeleton!vars)
<1> SUFFICES ASSUME ApartInv, [Next]_vars PROVE [Skeleton!Next]_(Skeleton!vars)
  OBVIOUS
<1>1. CASE UNCHANGED vars
  BY <1>1 DEF vars, Skeleton!vars, Collected, Pending, Node, RootOf
<1>2. CASE Next /\ solver = "counter"
  <2>1. UNCHANGED <<problem, solver>>
    BY <1>2 DEF Next, Solve, Fork, Fallback, Becomes
  <2> QED BY <1>2, <2>1 DEF Skeleton!vars, RootOf
<1>3. CASE Next /\ solver # "counter"
  <2>1. PICK i \in DOMAIN work : Solve(i) \/ Fork(i) \/ Fallback(i)
    BY <1>3 DEF Next
  <2> DEFINE p == Node(work[i].state)
  <2>2. Skeleton!Solve(p) \/ Skeleton!Fork(p) \/ Skeleton!Fallback(p)
    BY <1>3, <2>1, SolveImplements, ForkImplements, FallbackImplements
  <2>3. p \in {Node(work[j].state) : j \in {k \in DOMAIN work : Pending(k)}}
    BY <2>1 DEF Solve, Fork, Fallback
  <2> HIDE DEF p
  <2> QED BY <1>3, <2>2, <2>3 DEF Skeleton!Next
<1> QED BY <1>1, <1>2, <1>3

(* The workers of the two solvers implement the search skeleton (par_search   *)
(* of solver.rs, bitmask_search_parallel of bitmask_solver.rs, skeleton.rs):  *)
(* each branch is taken once, and what is found for it is what is below it,   *)
(* whatever the conference, the schedule and the cutoff.                      *)
THEOREM WorkersImplementSkeleton == Spec => ImplementsSkeleton
<1>1. Spec => []ApartInv
  BY ApartInvInit, ApartInvNext, PTL DEF Spec
<1> QED BY <1>1, SkeletonInit, SkeletonNext, PTL DEF Spec, ImplementsSkeleton, Skeleton!Spec

====
