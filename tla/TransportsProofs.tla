-------------------------- MODULE TransportsProofs --------------------------
(***************************************************************************)
(* For every device, every meaning of prefixes and separators and every    *)
(* payload: the device runs what was asked for, whatever fails on the way, *)
(* and its answer does not depend on the transport.                        *)
(***************************************************************************)
EXTENDS Transports, FiniteSetTheorems, FunctionTheorems, SequenceTheorems, NaturalsInduction,
        WellFoundedInduction, TLAPS

-----------------------------------------------------------------------------
(* Recursion *)

\* A set of naturals has a least element: induction is written with it.
LEMMA LeastNat ==
    ASSUME NEW T \in SUBSET Nat, T # {}
    PROVE  \E x \in T : \A y \in T : x <= y
<1> DEFINE R == {ss \in Nat \X Nat : ss[1] < ss[2]}
<1>1. IsWellFoundedOn(R, Nat)
  BY NatLessThanWellFounded, Zenon DEF OpToRel
<1>2. PICK x \in T : \A y \in T : ~ (<<y, x>> \in R)
  <2> HIDE DEF R
  <2> QED
    BY <1>1, WFMin
<1>3. ASSUME NEW y \in T PROVE x <= y
  <2>1. <<y, x>> \in Nat \X Nat
    OBVIOUS
  <2>2. ~(y < x)
    BY <1>2, <2>1
  <2> QED
    BY <2>2
<1> QED
  BY <1>3

\* A set that has 0 and, with each number below n, the next one, has them all up to n.
LEMMA UpTo ==
    ASSUME NEW n \in Nat, NEW T, 0 \in T, \A i \in 0..n : i < n /\ i \in T => i + 1 \in T
    PROVE  \A i \in 0..n : i \in T
<1> DEFINE Bad == {i \in 0..n : i \notin T}
<1> SUFFICES ASSUME Bad # {} PROVE FALSE
  OBVIOUS
<1>1. PICK x \in Bad : \A y \in Bad : x <= y
  <2>1. Bad \in SUBSET Nat
    OBVIOUS
  <2> HIDE DEF Bad
  <2> QED
    BY <2>1, LeastNat
<1>2. x \in 0..n /\ x # 0 /\ x \notin T
  BY <1>1
<1>3. x - 1 \in 0..n /\ x - 1 < n /\ ~(x <= x - 1)
  BY <1>2
<1>4. x - 1 \in T
  BY <1>1, <1>3
<1>5. (x - 1) + 1 \in T
  BY <1>3, <1>4
<1> QED
  BY <1>2, <1>5

\* The bodies of a loop of n rounds: round i turns value v into D[i][v].
Bodies(n, V) == [1..n -> [V -> V]]

\* The values g that such a loop computes from b.
Computes(g, n, V, b, D) ==
    g \in [0..n -> V] /\ g[0] = b /\ \A i \in 1..n : g[i] = D[i][g[i - 1]]

\* What a loop computes exists.
LEMMA LoopExists ==
    ASSUME NEW V, NEW n \in Nat, NEW b \in V, NEW D \in Bodies(n, V)
    PROVE  \E g : Computes(g, n, V, b, D)
<1> USE DEF Bodies
<1> DEFINE Ok(k, g) == g[0] = b /\ \A i \in 1..k : g[i] = D[i][g[i - 1]]
           T == {k \in 0..n : \E g \in [0..k -> V] : Ok(k, g)}
<1>1. 0 \in T
  <2> DEFINE h == [i \in 0..0 |-> b]
  <2>1. h \in [0..0 -> V] /\ h[0] = b /\ 1..0 = {}
    OBVIOUS
  <2>2. Ok(0, h)
    BY <2>1
  <2>3. 0 \in 0..n
    OBVIOUS
  <2> HIDE DEF Ok, h
  <2> QED
    BY <2>1, <2>2, <2>3
<1>2. ASSUME NEW k \in 0..n, k < n, k \in T PROVE k + 1 \in T
  <2>1. PICK g \in [0..k -> V] : Ok(k, g)
    BY <1>2
  <2> DEFINE h == [i \in 0..(k + 1) |-> IF i = k + 1 THEN D[k + 1][g[k]] ELSE g[i]]
  <2>2. g[k] \in V /\ k + 1 \in 1..n
    BY <1>2
  <2>3. D[k + 1][g[k]] \in V
    BY <2>2
  <2>4. h \in [0..(k + 1) -> V]
    BY <2>3
  <2>5. \A i \in 0..k : h[i] = g[i]
    OBVIOUS
  <2>6. h[k + 1] = D[k + 1][g[k]]
    OBVIOUS
  <2>7. h[0] = b
    BY <2>1, <2>5
  <2>8. ASSUME NEW i \in 1..(k + 1) PROVE h[i] = D[i][h[i - 1]]
    <3>1. CASE i = k + 1
      <4>1. i - 1 = k /\ k \in 0..k
        BY <3>1
      <4> HIDE DEF h
      <4> QED
        BY <2>5, <2>6, <4>1, <3>1
    <3>2. CASE i \in 1..k
      <4>1. i \in 0..k /\ i - 1 \in 0..k
        BY <3>2
      <4> HIDE DEF h
      <4> QED
        BY <2>1, <2>5, <4>1, <3>2
    <3> QED
      BY <3>1, <3>2
  <2> HIDE DEF h
  <2>9. Ok(k + 1, h)
    BY <2>7, <2>8
  <2> QED
    BY <2>2, <2>4, <2>9
<1> HIDE DEF T
<1>3. n \in T
  <2>1. \A k \in 0..n : k \in T
    BY <1>1, <1>2, UpTo
  <2> QED
    BY <2>1
<1> QED
  BY <1>3 DEF T, Computes

-----------------------------------------------------------------------------
(* FlattenSeq *)

\* g[i] is the concatenation of the first i of ss.
Joins(g, ss) == g[0] = <<>> /\ \A i \in 1..Len(ss) : g[i] = g[i - 1] \o ss[i]

\* There are such partial concatenations for every sequence of sequences.
LEMMA JoinsExists ==
    ASSUME NEW S, NEW ss \in Seq(Seq(S))
    PROVE  \E g \in [0..Len(ss) -> Seq(S)] : Joins(g, ss)
<1> DEFINE V == Seq(S)
           n == Len(ss)
           D == [i \in 1..n |-> [v \in V |-> v \o ss[i]]]
           b == <<>>
<1>1. n \in Nat /\ b \in V
  OBVIOUS
<1>2. D \in Bodies(n, V)
  <2> SUFFICES ASSUME NEW i \in 1..n, NEW v \in V PROVE v \o ss[i] \in V
    BY DEF Bodies
  <2>1. ss[i] \in Seq(S)
    BY ElementOfSeq
  <2> QED
    BY <2>1, ConcatProperties
<1>3. PICK g : Computes(g, n, V, b, D)
  <2> HIDE DEF D, V, n, b
  <2> QED
    BY <1>1, <1>2, LoopExists
<1>4. ASSUME NEW i \in 1..n PROVE g[i] = g[i - 1] \o ss[i]
  <2>1. g[i - 1] \in V /\ g[i] = D[i][g[i - 1]]
    <3> HIDE DEF D, V, n, b
    <3>1. i - 1 \in 0..n
      BY <1>1
    <3> QED
      BY <1>3, <3>1 DEF Computes
  <2> QED
    BY <2>1
<1> QED
  BY <1>3, <1>4 DEF Joins, Computes

\* There is only one such g.
LEMMA JoinsUnique ==
    ASSUME NEW S, NEW ss \in Seq(Seq(S)), NEW g, NEW h, Joins(g, ss), Joins(h, ss)
    PROVE  \A i \in 0..Len(ss) : g[i] = h[i]
<1> DEFINE T == {i \in 0..Len(ss) : g[i] = h[i]}
<1>1. 0 \in T
  BY DEF Joins
<1>2. ASSUME NEW i \in 0..Len(ss), i < Len(ss), i \in T PROVE i + 1 \in T
  <2>1. i + 1 \in 1..Len(ss) /\ (i + 1) - 1 = i
    BY <1>2
  <2>2. g[i + 1] = g[(i + 1) - 1] \o ss[i + 1]
    BY <2>1 DEF Joins
  <2>3. h[i + 1] = h[(i + 1) - 1] \o ss[i + 1]
    BY <2>1 DEF Joins
  <2>4. g[i] = h[i]
    BY <1>2
  <2>5. g[i + 1] = h[i + 1]
    BY <2>1, <2>2, <2>3, <2>4, Zenon
  <2> QED
    BY <2>1, <2>5
<1> HIDE DEF T
<1>3. \A i \in 0..Len(ss) : i \in T
  <2>1. Len(ss) \in Nat
    OBVIOUS
  <2> QED
    BY <1>1, <1>2, <2>1, UpTo
<1> QED
  BY <1>3 DEF T

\* FlattenSeq computes it.
LEMMA Flattens ==
    ASSUME NEW S, NEW ss \in Seq(Seq(S)), NEW g, Joins(g, ss)
    PROVE  FlattenSeq(ss) = g[Len(ss)]
<1> DEFINE n == Len(ss)
           Eq(f) == f = [i \in 1..n |-> IF i = 1 THEN ss[i] ELSE f[i - 1] \o ss[i]]
           fl == CHOOSE f : Eq(f)
<1>1. CASE n = 0
  <2>1. ss = <<>>
    BY <1>1
  <2> QED
    BY <1>1, <2>1 DEF FlattenSeq, Joins
<1>2. CASE n # 0
  <2>1. PICK k \in [0..n -> Seq(S)] : Joins(k, ss)
    BY JoinsExists
  <2> DEFINE f == [i \in 1..n |-> k[i]]
  <2>2. ASSUME NEW i \in 1..n PROVE f[i] = IF i = 1 THEN ss[i] ELSE f[i - 1] \o ss[i]
    <3>0. ss[i] \in Seq(S)
      BY ElementOfSeq
    <3>1. k[i] = k[i - 1] \o ss[i]
      BY <2>1 DEF Joins
    <3>2. CASE i = 1
      <4>1. k[0] = <<>>
        BY <2>1 DEF Joins
      <4> QED
        <5>1. <<>> \o ss[i] = ss[i]
          BY <3>0, ConcatEmptySeq
        <5>2. k[i] = ss[i]
          <6>1. i - 1 = 0
            BY <3>2
          <6>2. k[i - 1] = <<>>
            BY <4>1, <6>1, Zenon
          <6> QED
            BY <3>1, <5>1, <6>2, Zenon
        <5> QED
          BY <3>2, <5>2
    <3>3. CASE i # 1
      <4>1. i - 1 \in 1..n
        BY <3>3
      <4> QED
        BY <3>1, <3>3, <4>1
    <3> QED
      BY <3>2, <3>3
  <2>3. Eq(f)
    BY <2>2
  <2>4. Eq(fl)
    <3> HIDE DEF Eq, f
    <3> QED
      BY <2>3
  <2> DEFINE h == [i \in 0..n |-> IF i = 0 THEN <<>> ELSE fl[i]]
  <2>5. Joins(h, ss)
    <3>1. ASSUME NEW i \in 1..n PROVE h[i] = h[i - 1] \o ss[i]
      <4>1. fl[i] = IF i = 1 THEN ss[i] ELSE fl[i - 1] \o ss[i]
        <5>1. fl = [j \in 1..n |-> IF j = 1 THEN ss[j] ELSE fl[j - 1] \o ss[j]]
          BY <2>4
        <5> HIDE DEF fl
        <5> QED
          BY <5>1
      <4> HIDE DEF fl
      <4>2. h[i] = fl[i] /\ i - 1 \in 0..n /\ h[i - 1] = IF i = 1 THEN <<>> ELSE fl[i - 1]
        OBVIOUS
      <4>3. ss[i] \in Seq(S)
        BY ElementOfSeq
      <4>4. <<>> \o ss[i] = ss[i]
        BY <4>3, ConcatEmptySeq
      <4> HIDE DEF h
      <4> QED
        BY <4>1, <4>2, <4>4
    <3> HIDE DEF fl
    <3>2. h[0] = <<>>
      OBVIOUS
    <3> QED
      BY <3>1, <3>2 DEF Joins
  <2>6. FlattenSeq(ss) = fl[n]
    BY <1>2 DEF FlattenSeq
  <2> HIDE DEF fl
  <2>7. h[n] = fl[n] /\ n \in 0..n
    BY <1>2
  <2> HIDE DEF h
  <2> QED
    BY <2>5, <2>6, <2>7, JoinsUnique
<1> QED
  BY <1>1, <1>2

\* What is flattened from sequences over S is one.
LEMMA FlattenType ==
    ASSUME NEW S, NEW ss \in Seq(Seq(S))
    PROVE  FlattenSeq(ss) \in Seq(S)
<1>1. PICK g \in [0..Len(ss) -> Seq(S)] : Joins(g, ss)
  BY JoinsExists
<1>2. FlattenSeq(ss) = g[Len(ss)]
  BY <1>1, Flattens
<1>3. Len(ss) \in 0..Len(ss)
  OBVIOUS
<1> QED
  BY <1>2, <1>3

\* Flattening a concatenation.
LEMMA FlattenCat ==
    ASSUME NEW S, NEW ss \in Seq(Seq(S)), NEW tt \in Seq(Seq(S))
    PROVE  FlattenSeq(ss \o tt) = FlattenSeq(ss) \o FlattenSeq(tt)
<1> DEFINE m == Len(ss)
           n == Len(tt)
           F == FlattenSeq(ss)
<1>0. ss \o tt \in Seq(Seq(S)) /\ Len(ss \o tt) = m + n /\ m \in Nat /\ n \in Nat
  OBVIOUS
<1>1. PICK g \in [0..(m + n) -> Seq(S)] : Joins(g, ss \o tt)
  BY <1>0, JoinsExists
<1>2. PICK h \in [0..n -> Seq(S)] : Joins(h, tt)
  BY JoinsExists
<1>3. Joins(g, ss)
  <2> SUFFICES ASSUME NEW i \in 1..m PROVE g[i] = g[i - 1] \o ss[i]
    BY <1>1 DEF Joins
  <2>1. (ss \o tt)[i] = ss[i] /\ i \in 1..(m + n)
    OBVIOUS
  <2> QED
    BY <1>0, <1>1, <2>1 DEF Joins
<1>4. F = g[m] /\ F \in Seq(S)
  BY <1>3, Flattens, FlattenType
<1> DEFINE T == {j \in 0..n : g[m + j] = F \o h[j]}
<1>5. 0 \in T
  <2>1. h[0] = <<>> /\ m + 0 = m
    BY <1>2 DEF Joins
  <2>2. F \o <<>> = F
    BY <1>4, ConcatEmptySeq
  <2>3. 0 \in 0..n
    OBVIOUS
  <2> HIDE DEF F
  <2> QED
    BY <1>4, <2>1, <2>2, <2>3
<1>6. ASSUME NEW j \in 0..n, j < n, j \in T PROVE j + 1 \in T
  <2>1. j + 1 \in 1..n /\ (j + 1) - 1 = j /\ m + j + 1 \in 1..(m + n) /\ (m + j + 1) - 1 = m + j /\ m + (j + 1) = m + j + 1
    BY <1>6
  <2>2. (ss \o tt)[m + j + 1] = tt[j + 1]
    BY <1>6
  <2>3. g[m + j + 1] = g[m + j] \o tt[j + 1]
    BY <1>0, <1>1, <2>1, <2>2 DEF Joins
  <2>4. h[j + 1] = h[j] \o tt[j + 1] /\ h[j] \in Seq(S) /\ tt[j + 1] \in Seq(S)
    <3>1. tt[j + 1] \in Seq(S)
      BY <2>1, ElementOfSeq
    <3>2. h[j + 1] = h[(j + 1) - 1] \o tt[j + 1]
      BY <1>2, <2>1 DEF Joins
    <3> QED
      BY <2>1, <3>1, <3>2
  <2>5. g[m + j] = F \o h[j]
    BY <1>6
  <2> HIDE DEF F
  <2>6. (F \o h[j]) \o tt[j + 1] = F \o (h[j] \o tt[j + 1])
    <3> DEFINE x == h[j]
               y == tt[j + 1]
    <3>1. F \in Seq(S) /\ x \in Seq(S) /\ y \in Seq(S)
      BY <1>4, <2>4
    <3> HIDE DEF x, y
    <3>2. (F \o x) \o y = F \o (x \o y)
      BY <3>1, ConcatAssociative, SMTT(30)
    <3> QED
      BY <3>2 DEF x, y
  <2>7. j + 1 \in 0..n /\ g[m + (j + 1)] = F \o h[j + 1]
    <3>1. g[m + j + 1] = F \o h[j + 1]
      BY <2>3, <2>4, <2>5, <2>6, Zenon
    <3>2. j + 1 \in 0..n
      BY <2>1
    <3> QED
      BY <2>1, <3>1, <3>2, Zenon
  <2> QED
    BY <2>7
<1> HIDE DEF T
<1>7. n \in T
  <2>1. \A j \in 0..n : j \in T
    BY <1>0, <1>5, <1>6, UpTo
  <2> QED
    BY <1>0, <2>1
<1>8. g[m + n] = F \o h[n]
  BY <1>7 DEF T
<1> HIDE DEF F
<1>9. FlattenSeq(ss \o tt) = g[m + n] /\ FlattenSeq(tt) = h[n]
  BY <1>0, <1>1, <1>2, Flattens
<1> QED
  BY <1>8, <1>9 DEF F

\* A sequence of single elements is flattened to these.
LEMMA FlattenSingles ==
    ASSUME NEW S, NEW s \in Seq(S)
    PROVE  FlattenSeq([i \in DOMAIN s |-> <<s[i]>>]) = s
<1> DEFINE ss == [i \in DOMAIN s |-> <<s[i]>>]
           g == [i \in 0..Len(s) |-> SubSeq(s, 1, i)]
<1>1. ss \in Seq(Seq(S)) /\ Len(ss) = Len(s)
  <2>1. DOMAIN s = 1..Len(s) /\ Len(s) \in Nat
    OBVIOUS
  <2>2. \A i \in 1..Len(s) : <<s[i]>> \in Seq(S)
    OBVIOUS
  <2> QED
    BY <2>1, <2>2
<1>2. Joins(g, ss)
  <2>1. g[0] = <<>>
    OBVIOUS
  <2>2. ASSUME NEW i \in 1..Len(s) PROVE g[i] = g[i - 1] \o ss[i]
    <3>1. g[i] = SubSeq(s, 1, i) /\ g[i - 1] = SubSeq(s, 1, i - 1) /\ ss[i] = <<s[i]>>
      OBVIOUS
    <3>2. SubSeq(s, 1, i) = SubSeq(s, 1, i - 1) \o <<s[i]>>
      OBVIOUS
    <3> QED
      BY <3>1, <3>2
  <2> QED
    BY <1>1, <2>1, <2>2 DEF Joins
<1>3. g[Len(s)] = s
  OBVIOUS
<1> HIDE DEF g, ss
<1>4. FlattenSeq(ss) = g[Len(ss)]
  BY <1>1, <1>2, Flattens
<1> QED
  BY <1>1, <1>3, <1>4 DEF ss

-----------------------------------------------------------------------------
(* Lines *)

\* The pieces that Lines flattens.
Pieces(ls) == [i \in DOMAIN ls |-> IF NotBlank(ls[i]) THEN <<ls[i]>> ELSE <<>>]

\* Every line contributes itself or nothing.
LEMMA PiecesType ==
    ASSUME NEW S, NEW ls \in Seq(S)
    PROVE  /\ Pieces(ls) \in Seq(Seq(S))
           /\ Len(Pieces(ls)) = Len(ls)
           /\ \A i \in 1..Len(ls) : Pieces(ls)[i] = IF NotBlank(ls[i]) THEN <<ls[i]>> ELSE <<>>
           /\ Lines(ls) = FlattenSeq(Pieces(ls))
<1>1. DOMAIN ls = 1..Len(ls) /\ Len(ls) \in Nat
  OBVIOUS
<1>2. \A i \in 1..Len(ls) : (IF NotBlank(ls[i]) THEN <<ls[i]>> ELSE <<>>) \in Seq(S)
  OBVIOUS
<1>3. Pieces(ls) \in Seq(Seq(S)) /\ Len(Pieces(ls)) = Len(ls)
  BY <1>1, <1>2 DEF Pieces
<1>4. \A i \in 1..Len(ls) : Pieces(ls)[i] = IF NotBlank(ls[i]) THEN <<ls[i]>> ELSE <<>>
  BY <1>1 DEF Pieces
<1>5. Lines(ls) = FlattenSeq(Pieces(ls))
  BY DEF Lines, Pieces
<1> QED
  BY <1>3, <1>4, <1>5

\* Dropping blank lines leaves a sequence of lines.
LEMMA LinesType ==
    ASSUME NEW S, NEW ls \in Seq(S)
    PROVE  Lines(ls) \in Seq(S)
  BY PiecesType, FlattenType

\* Nothing comes of nothing.
LEMMA LinesEmpty == Lines(<<>>) = <<>>
<1>1. Len(Pieces(<<>>)) = 0 /\ Lines(<<>>) = FlattenSeq(Pieces(<<>>)) /\ Pieces(<<>>) \in Seq(Seq({}))
  <2>1. <<>> \in Seq({}) /\ Len(<<>>) = 0
    OBVIOUS
  <2> QED
    BY <2>1, PiecesType
<1>2. Pieces(<<>>) = <<>>
  BY <1>1
<1>3. FlattenSeq(<<>>) = <<>>
  BY DEF FlattenSeq
<1> QED
  BY <1>1, <1>2, <1>3

\* Blank lines can be dropped from two parts of a payload separately.
LEMMA LinesCat ==
    ASSUME NEW S, NEW a \in Seq(S), NEW b \in Seq(S)
    PROVE  Lines(a \o b) = Lines(a) \o Lines(b)
<1>1. a \o b \in Seq(S) /\ Len(a \o b) = Len(a) + Len(b) /\ Len(a) \in Nat /\ Len(b) \in Nat
  BY ConcatProperties
<1>2. /\ Pieces(a \o b) \in Seq(Seq(S)) /\ Pieces(a) \in Seq(Seq(S)) /\ Pieces(b) \in Seq(Seq(S))
      /\ Len(Pieces(a \o b)) = Len(a) + Len(b) /\ Len(Pieces(a)) = Len(a) /\ Len(Pieces(b)) = Len(b)
  BY <1>1, PiecesType
<1>3. /\ Pieces(a) \o Pieces(b) \in Seq(Seq(S))
      /\ Len(Pieces(a) \o Pieces(b)) = Len(a) + Len(b)
      /\ \A i \in 1..(Len(a) + Len(b)) : (Pieces(a) \o Pieces(b))[i] =
             IF i <= Len(a) THEN Pieces(a)[i] ELSE Pieces(b)[i - Len(a)]
  <2>1. \A x, y \in Seq(Seq(S)) :
            /\ x \o y \in Seq(Seq(S))
            /\ Len(x \o y) = Len(x) + Len(y)
            /\ \A i \in 1..(Len(x) + Len(y)) :
                   (x \o y)[i] = IF i <= Len(x) THEN x[i] ELSE y[i - Len(x)]
    BY ConcatProperties
  <2>2. /\ Pieces(a) \o Pieces(b) \in Seq(Seq(S))
        /\ Len(Pieces(a) \o Pieces(b)) = Len(Pieces(a)) + Len(Pieces(b))
        /\ \A i \in 1..(Len(Pieces(a)) + Len(Pieces(b))) : (Pieces(a) \o Pieces(b))[i] =
               IF i <= Len(Pieces(a)) THEN Pieces(a)[i] ELSE Pieces(b)[i - Len(Pieces(a))]
    BY <1>2, <2>1, Zenon
  <2>3. Len(Pieces(a)) = Len(a) /\ Len(Pieces(b)) = Len(b)
    BY <1>2
  <2> QED
    BY <2>2, <2>3, Zenon
<1>4. ASSUME NEW i \in 1..(Len(a) + Len(b)) PROVE Pieces(a \o b)[i] = (Pieces(a) \o Pieces(b))[i]
  <2> DEFINE Piece(l) == IF NotBlank(l) THEN <<l>> ELSE <<>>
  <2>1. Pieces(a \o b)[i] = Piece((a \o b)[i])
    BY <1>1, PiecesType
  <2>2. CASE i <= Len(a)
    <3>1. i \in 1..Len(a) /\ (a \o b)[i] = a[i]
      BY <1>1, <2>2, ConcatProperties
    <3>2. Pieces(a)[i] = Piece(a[i])
      BY <3>1, PiecesType
    <3> HIDE DEF Piece
    <3> QED
      BY <1>3, <2>1, <2>2, <3>1, <3>2
  <2>3. CASE ~(i <= Len(a))
    <3>1. i - Len(a) \in 1..Len(b) /\ ~(i <= Len(a))
      BY <1>1, <2>3
    <3>2. (a \o b)[i] = b[i - Len(a)]
      BY <1>1, <3>1, ConcatProperties
    <3>3. Pieces(b)[i - Len(a)] = Piece(b[i - Len(a)])
      BY <3>1, PiecesType
    <3> HIDE DEF Piece
    <3> QED
      BY <1>3, <2>1, <3>1, <3>2, <3>3
  <2> QED
    BY <1>1, <2>2, <2>3
<1>5. Pieces(a \o b) = Pieces(a) \o Pieces(b)
  BY <1>2, <1>3, <1>4, SeqEqual
<1>6. FlattenSeq(Pieces(a) \o Pieces(b)) = FlattenSeq(Pieces(a)) \o FlattenSeq(Pieces(b))
  BY <1>2, FlattenCat
<1>7. /\ Lines(a \o b) = FlattenSeq(Pieces(a \o b))
      /\ Lines(a) = FlattenSeq(Pieces(a)) /\ Lines(b) = FlattenSeq(Pieces(b))
  BY DEF Lines, Pieces
<1> QED
  BY <1>5, <1>6, <1>7

\* A sequence none of which is blank stays as it is.
LEMMA LinesAll ==
    ASSUME NEW S, NEW ls \in Seq(S), \A i \in 1..Len(ls) : NotBlank(ls[i])
    PROVE  Lines(ls) = ls
<1>1. DOMAIN ls = 1..Len(ls)
  OBVIOUS
<1>2. Pieces(ls) = [i \in DOMAIN ls |-> <<ls[i]>>]
  BY <1>1 DEF Pieces
<1>3. FlattenSeq([i \in DOMAIN ls |-> <<ls[i]>>]) = ls
  BY FlattenSingles
<1> QED
  BY <1>2, <1>3 DEF Lines, Pieces

\* A single line stays unless it is blank.
LEMMA LinesOne ==
    ASSUME NEW l
    PROVE  Lines(<<l>>) = IF NotBlank(l) THEN <<l>> ELSE <<>>
<1> DEFINE p == IF NotBlank(l) THEN <<l>> ELSE <<>>
<1>1. <<l>> \in Seq({l}) /\ Len(<<l>>) = 1 /\ <<l>>[1] = l
  OBVIOUS
<1>2. Pieces(<<l>>) \in Seq(Seq({l})) /\ Len(Pieces(<<l>>)) = 1 /\ Pieces(<<l>>)[1] = p
  <2> DEFINE ls == <<l>>
  <2>1. ls \in Seq({l}) /\ Len(ls) = 1 /\ ls[1] = l /\ 1 \in 1..Len(ls)
    BY <1>1
  <2> HIDE DEF ls
  <2>2. Pieces(ls) \in Seq(Seq({l})) /\ Len(Pieces(ls)) = Len(ls)
    BY <2>1, PiecesType
  <2>3. Pieces(ls)[1] = IF NotBlank(ls[1]) THEN <<ls[1]>> ELSE <<>>
    BY <2>1, PiecesType
  <2> QED
    BY <2>1, <2>2, <2>3 DEF ls
<1>3. Lines(<<l>>) = FlattenSeq(Pieces(<<l>>))
  BY DEF Lines, Pieces
<1>4. p \in Seq({l})
  <2>1. <<>> \in Seq({l})
    OBVIOUS
  <2> QED
    BY <1>1, <2>1
<1> HIDE DEF p
<1> DEFINE g == [i \in 0..1 |-> IF i = 0 THEN <<>> ELSE p]
<1>5. Joins(g, Pieces(<<l>>))
  <2>1. g[0] = <<>> /\ g[1] = p
    OBVIOUS
  <2>2. <<>> \o p = p
    BY <1>4, ConcatEmptySeq
  <2> HIDE DEF g
  <2>3. \A i \in 1..1 : i = 1 /\ i - 1 = 0
    OBVIOUS
  <2> QED
    BY <1>2, <2>1, <2>2, <2>3 DEF Joins
<1>6. g[1] = p
  OBVIOUS
<1> HIDE DEF g
<1> QED
  BY <1>2, <1>3, <1>5, <1>6, Flattens DEF p

\* What dropping the blank lines makes of the next one.
LEMMA LinesCons ==
    ASSUME NEW S, NEW ls \in Seq(S), ls # <<>>
    PROVE  Lines(ls) = IF NotBlank(Head(ls)) THEN <<Head(ls)>> \o Lines(Tail(ls)) ELSE Lines(Tail(ls))
<1>1. ls = <<Head(ls)>> \o Tail(ls) /\ Head(ls) \in S /\ Tail(ls) \in Seq(S)
  OBVIOUS
<1>2. Lines(ls) = Lines(<<Head(ls)>>) \o Lines(Tail(ls))
  <2>1. <<Head(ls)>> \in Seq(S)
    BY <1>1
  <2>2. Lines(<<Head(ls)>> \o Tail(ls)) = Lines(<<Head(ls)>>) \o Lines(Tail(ls))
    BY <1>1, <2>1, LinesCat
  <2> QED
    BY <1>1, <2>2
<1>3. <<>> \o Lines(Tail(ls)) = Lines(Tail(ls))
  BY <1>1, LinesType, ConcatEmptySeq
<1> QED
  BY <1>2, <1>3, LinesOne

\* What is left are lines of the sequence, none blank.
LEMMA LinesFrom ==
    ASSUME NEW S, NEW ls \in Seq(S)
    PROVE  Lines(ls) \in Seq({x \in S : NotBlank(x) /\ \E j \in 1..Len(ls) : x = ls[j]})
<1> DEFINE Good == {x \in S : NotBlank(x) /\ \E j \in 1..Len(ls) : x = ls[j]}
<1>1. /\ Pieces(ls) \in Seq(Seq(S))
      /\ Len(Pieces(ls)) = Len(ls)
      /\ \A i \in 1..Len(ls) : Pieces(ls)[i] = IF NotBlank(ls[i]) THEN <<ls[i]>> ELSE <<>>
      /\ Lines(ls) = FlattenSeq(Pieces(ls))
  BY PiecesType
<1>2. ASSUME NEW i \in 1..Len(ls) PROVE Pieces(ls)[i] \in Seq(Good)
  <2>1. CASE NotBlank(ls[i])
    <3>1. ls[i] \in Good
      BY <2>1
    <3> HIDE DEF Good
    <3>2. <<ls[i]>> \in Seq(Good)
      BY <3>1
    <3> QED
      BY <1>1, <2>1, <3>2
  <2>2. CASE ~NotBlank(ls[i])
    <3> HIDE DEF Good
    <3>1. <<>> \in Seq(Good)
      OBVIOUS
    <3> QED
      BY <1>1, <2>2, <3>1
  <2> QED
    BY <2>1, <2>2
<1> HIDE DEF Good
<1>3. Pieces(ls) \in Seq(Seq(Good))
  <2>1. Pieces(ls) \in [1..Len(ls) -> Seq(Good)]
    <3>1. Pieces(ls) \in [1..Len(ls) -> Seq(S)]
      BY <1>1, LenProperties
    <3> QED
      BY <1>2, <3>1
  <2>2. Len(ls) \in Nat
    OBVIOUS
  <2> QED
    BY <2>1, <2>2
<1> QED
  BY <1>1, <1>3, FlattenType DEF Good

\* Lines without blank ones stay as they are: the headend and the proxy both drop them.
LEMMA LinesTwice ==
    ASSUME NEW S, NEW ls \in Seq(S)
    PROVE  Lines(Lines(ls)) = Lines(ls)
<1> DEFINE Good == {x \in S : NotBlank(x) /\ \E j \in 1..Len(ls) : x = ls[j]}
<1>1. Lines(ls) \in Seq(Good)
  BY LinesFrom
<1>2. \A i \in 1..Len(Lines(ls)) : Lines(ls)[i] \in Good
  BY <1>1, ElementOfSeq
<1>3. \A i \in 1..Len(Lines(ls)) : NotBlank(Lines(ls)[i])
  BY <1>2
<1> HIDE DEF Good
<1> QED
  BY <1>1, <1>3, LinesAll

\* Sequences of the same words stay so.
LEMMA LinesSameWords ==
    ASSUME NEW S, NEW a \in Seq(S), NEW b \in Seq(S), Len(a) = Len(b),
           \A i \in 1..Len(a) : a[i].words = b[i].words
    PROVE  WordsOf(Lines(a)) = WordsOf(Lines(b))
<1> DEFINE n == Len(a)
<1>0. n \in Nat /\ n = Len(b)
  OBVIOUS
<1>1. /\ Pieces(a) \in Seq(Seq(S)) /\ Pieces(b) \in Seq(Seq(S))
      /\ Len(Pieces(a)) = n /\ Len(Pieces(b)) = n
  BY <1>0, PiecesType
<1>2. /\ Lines(a) = FlattenSeq(Pieces(a)) /\ Lines(b) = FlattenSeq(Pieces(b))
      /\ \A i \in 1..n : Pieces(a)[i] = IF NotBlank(a[i]) THEN <<a[i]>> ELSE <<>>
      /\ \A i \in 1..n : Pieces(b)[i] = IF NotBlank(b[i]) THEN <<b[i]>> ELSE <<>>
  BY <1>0, PiecesType
<1>3. PICK g \in [0..n -> Seq(S)] : Joins(g, Pieces(a))
  BY <1>1, JoinsExists
<1>4. PICK h \in [0..n -> Seq(S)] : Joins(h, Pieces(b))
  BY <1>1, JoinsExists
<1> DEFINE Same(u, v) == Len(u) = Len(v) /\ \A k \in 1..Len(u) : u[k].words = v[k].words
           T == {i \in 0..n : Same(g[i], h[i])}
<1>5. 0 \in T
  <2>1. g[0] = <<>> /\ h[0] = <<>> /\ 0 \in 0..n
    BY <1>0, <1>3, <1>4 DEF Joins
  <2> QED
    BY <2>1
<1>6. ASSUME NEW i \in 0..n, i < n, i \in T PROVE i + 1 \in T
  <2>1. i + 1 \in 1..n /\ (i + 1) - 1 = i /\ i + 1 \in 0..n
    BY <1>0, <1>6
  <2>2. g[i + 1] = g[(i + 1) - 1] \o Pieces(a)[i + 1] /\ h[i + 1] = h[(i + 1) - 1] \o Pieces(b)[i + 1]
    BY <1>1, <1>3, <1>4, <2>1 DEF Joins
  <2>3. g[i] \in Seq(S) /\ h[i] \in Seq(S) /\ Same(g[i], h[i]) /\ a[i + 1] \in S /\ b[i + 1] \in S
    <3>1. g[i] \in Seq(S) /\ h[i] \in Seq(S)
      OBVIOUS
    <3>2. a[i + 1] \in S /\ b[i + 1] \in S
      BY <1>0, <2>1, ElementOfSeq
    <3> HIDE DEF Same
    <3>3. Same(g[i], h[i])
      BY <1>6
    <3> QED
      BY <3>1, <3>2, <3>3
  <2>4. a[i + 1].words = b[i + 1].words
    BY <2>1
  <2>5. CASE NotBlank(a[i + 1])
    <3>1. NotBlank(b[i + 1])
      BY <2>4, <2>5 DEF NotBlank
    <3>2. g[i + 1] = g[i] \o <<a[i + 1]>> /\ h[i + 1] = h[i] \o <<b[i + 1]>>
      BY <1>2, <2>1, <2>2, <2>5, <3>1
    <3>3. Same(g[i] \o <<a[i + 1]>>, h[i] \o <<b[i + 1]>>)
      BY <2>3, <2>4
    <3> HIDE DEF Same
    <3> QED
      BY <2>1, <3>2, <3>3
  <2>6. CASE ~NotBlank(a[i + 1])
    <3>1. ~NotBlank(b[i + 1])
      BY <2>4, <2>6 DEF NotBlank
    <3>2. g[i + 1] = g[i] \o <<>> /\ h[i + 1] = h[i] \o <<>>
      BY <1>2, <2>1, <2>2, <2>6, <3>1
    <3>3. g[i + 1] = g[i] /\ h[i + 1] = h[i]
      BY <2>3, <3>2, ConcatEmptySeq
    <3> HIDE DEF Same
    <3> QED
      BY <2>1, <2>3, <3>3
  <2> QED
    BY <2>5, <2>6
<1> HIDE DEF T
<1>7. n \in T
  <2>1. \A i \in 0..n : i \in T
    BY <1>0, <1>5, <1>6, UpTo
  <2> QED
    BY <1>0, <2>1
<1>8. Same(g[n], h[n]) /\ g[n] \in Seq(S) /\ h[n] \in Seq(S)
  BY <1>0, <1>7 DEF T
<1>9. Lines(a) = g[n] /\ Lines(b) = h[n]
  BY <1>1, <1>2, <1>3, <1>4, Flattens
<1> QED
  BY <1>8, <1>9 DEF WordsOf

-----------------------------------------------------------------------------
(* Encoding and decoding *)

\* Words without a separator are left alone by Split.
LEMMA SplitSame ==
    ASSUME NEW S, NEW ws \in Seq(S), NEW parts, \A i \in 1..Len(ws) : parts[ws[i]] = <<ws[i]>>
    PROVE  Split(parts, ws) = ws
<1>1. DOMAIN ws = 1..Len(ws)
  OBVIOUS
<1>2. [i \in DOMAIN ws |-> parts[ws[i]]] = [i \in DOMAIN ws |-> <<ws[i]>>]
  BY <1>1
<1>3. FlattenSeq([i \in DOMAIN ws |-> <<ws[i]>>]) = ws
  BY FlattenSingles
<1> QED
  BY <1>2, <1>3 DEF Split

\* A line without a slash is one command.
LEMMA CommandsSame ==
    ASSUME NEW l \in Line, \A i \in 1..Len(l.words) : SlashParts[l.words[i]] = <<l.words[i]>>
    PROVE  Commands(l) = <<l.words>>
<1> DEFINE ws == l.words
           n == Len(ws)
           Part(i) == SlashParts[ws[i]]
           Next1(cmds, p) == [cmds EXCEPT ![Len(cmds)] = Append(cmds[Len(cmds)], p[1])]
                             \o [k \in 1..(Len(p) - 1) |-> <<p[k + 1]>>]
           Eq(f) == f = [i \in 0..n |-> IF i = 0 THEN <<<<>>>> ELSE Next1(f[i - 1], Part(i))]
           c == CHOOSE f : Eq(f)
<1>0. ws \in Seq(Words) /\ n \in Nat
  BY DEF Line
<1>1. Commands(l) = c[n]
  BY DEF Commands
<1>2. ASSUME NEW s \in Seq(Words), NEW w \in Words PROVE Next1(<<s>>, <<w>>) = <<Append(s, w)>>
  <2>1. Len(<<s>>) = 1 /\ <<s>>[1] = s /\ Len(<<w>>) - 1 = 0 /\ <<w>>[1] = w
    OBVIOUS
  <2>2. [<<s>> EXCEPT ![1] = Append(s, w)] = <<Append(s, w)>>
    OBVIOUS
  <2>3. [k \in 1..0 |-> <<<<w>>[k + 1]>>] = <<>>
    OBVIOUS
  <2>4. <<Append(s, w)>> \in Seq(Seq(Words))
    OBVIOUS
  <2>5. <<Append(s, w)>> \o <<>> = <<Append(s, w)>>
    BY <2>4, ConcatEmptySeq
  <2> QED
    BY <2>1, <2>2, <2>3, <2>5
<1> HIDE DEF Next1
<1>3. ASSUME NEW i \in 1..n PROVE Next1(<<SubSeq(ws, 1, i - 1)>>, Part(i)) = <<SubSeq(ws, 1, i)>>
  <2>1. ws[i] \in Words /\ Part(i) = <<ws[i]>>
    BY <1>0, ElementOfSeq
  <2>2. SubSeq(ws, 1, i - 1) \in Seq(Words) /\ Append(SubSeq(ws, 1, i - 1), ws[i]) = SubSeq(ws, 1, i)
    BY <1>0
  <2> QED
    BY <1>2, <2>1, <2>2
<1> HIDE DEF Part
<1> DEFINE f == [i \in 0..n |-> <<SubSeq(ws, 1, i)>>]
<1>4. Eq(f)
  <2> SUFFICES ASSUME NEW i \in 0..n
               PROVE  <<SubSeq(ws, 1, i)>> = IF i = 0 THEN <<<<>>>> ELSE Next1(f[i - 1], Part(i))
    OBVIOUS
  <2>1. CASE i = 0
    <3>1. SubSeq(ws, 1, 0) = <<>>
      BY <1>0
    <3> QED
      BY <2>1, <3>1
  <2>2. CASE i # 0
    <3>1. i \in 1..n /\ i - 1 \in 0..n
      BY <1>0, <2>2
    <3>2. f[i - 1] = <<SubSeq(ws, 1, i - 1)>>
      BY <3>1
    <3> HIDE DEF f, n, ws
    <3> QED
      BY <1>3, <2>2, <3>1, <3>2
  <2> QED
    BY <2>1, <2>2
<1>5. Eq(c)
  <2> HIDE DEF Eq, f
  <2> QED
    BY <1>4
<1>6. \A i \in 0..n : c[i] = IF i = 0 THEN <<<<>>>> ELSE Next1(c[i - 1], Part(i))
  <2>1. c = [i \in 0..n |-> IF i = 0 THEN <<<<>>>> ELSE Next1(c[i - 1], Part(i))]
    BY <1>5
  <2> HIDE DEF c, n, ws
  <2> QED
    BY <2>1
<1> HIDE DEF c
<1> DEFINE T == {i \in 0..n : c[i] = <<SubSeq(ws, 1, i)>>}
<1>7. 0 \in T
  <2>1. SubSeq(ws, 1, 0) = <<>> /\ 0 \in 0..n
    BY <1>0
  <2> QED
    BY <1>6, <2>1
<1>8. ASSUME NEW i \in 0..n, i < n, i \in T PROVE i + 1 \in T
  <2>1. i + 1 \in 1..n /\ (i + 1) - 1 = i /\ i + 1 \in 0..n /\ i + 1 # 0
    BY <1>0, <1>8
  <2>2. c[i + 1] = Next1(c[i], Part(i + 1))
    BY <1>6, <2>1
  <2>3. c[i] = <<SubSeq(ws, 1, i)>>
    BY <1>8
  <2>4. Next1(<<SubSeq(ws, 1, i)>>, Part(i + 1)) = <<SubSeq(ws, 1, i + 1)>>
    BY <1>3, <2>1
  <2> HIDE DEF n, ws
  <2> QED
    BY <2>1, <2>2, <2>3, <2>4
<1> HIDE DEF T
<1>9. n \in T
  <2>1. \A i \in 0..n : i \in T
    <3> HIDE DEF n
    <3> QED
      BY <1>0, <1>7, <1>8, UpTo
  <2> QED
    BY <1>0, <2>1
<1>10. c[n] = <<SubSeq(ws, 1, n)>>
  BY <1>9 DEF T
<1>11. SubSeq(ws, 1, n) = ws
  BY <1>0
<1> QED
  BY <1>1, <1>10, <1>11

\* No word of the lines holds the separator that `parts' splits at.
Plainly(ls, parts) ==
    \A i \in 1..Len(ls) : \A j \in 1..Len(ls[i].words) : parts[ls[i].words[j]] = <<ls[i].words[j]>>

\* What the lines of a payload are made of.
LEMMA LineOf ==
    ASSUME NEW ls \in Seq(Line), NEW i \in 1..Len(ls)
    PROVE  ls[i] \in Line /\ ls[i].words \in Seq(Words) /\ ls[i].tidy \in BOOLEAN
<1>1. ls[i] \in Line
  BY ElementOfSeq
<1> HIDE DEF Line
<1>2. \A l \in Line : l.words \in Seq(Words)
  BY DEF Line
<1>3. \A l \in Line : l.tidy \in BOOLEAN
  BY Zenon DEF Line
<1> QED
  BY <1>1, <1>2, <1>3

\* The path of an exec carries such lines as they are, but for blank ones.
LEMMA PathSame ==
    ASSUME NEW ls \in Seq(Line), Plainly(ls, SlashParts), Plainly(ls, PlusParts)
    PROVE  PathCommands(ls) = Lines(ls)
<1> DEFINE decode(l) ==
            LET cs == Commands(l)
            IN  [k \in DOMAIN cs |-> [words |-> Split(PlusParts, cs[k]), tidy |-> l.tidy]]
           dec == [i \in DOMAIN ls |-> decode(ls[i])]
<1>1. ASSUME NEW i \in 1..Len(ls) PROVE decode(ls[i]) = <<ls[i]>>
  <2> DEFINE l == ls[i]
  <2>1. l \in Line /\ l.words \in Seq(Words)
    BY LineOf
  <2>2. Commands(l) = <<l.words>>
    BY <2>1, CommandsSame DEF Plainly
  <2>3. Split(PlusParts, l.words) = l.words
    BY <2>1, SplitSame DEF Plainly
  <2>4. [words |-> l.words, tidy |-> l.tidy] = l
    BY <2>1 DEF Line
  <2> HIDE DEF l
  <2>5. decode(l) = [k \in 1..1 |-> [words |-> Split(PlusParts, l.words), tidy |-> l.tidy]]
    BY <2>2
  <2>6. decode(l) = [k \in 1..1 |-> l]
    BY <2>3, <2>4, <2>5
  <2>7. [k \in 1..1 |-> l] = <<l>>
    OBVIOUS
  <2> QED
    BY <2>6, <2>7 DEF l
<1>2. DOMAIN ls = 1..Len(ls)
  OBVIOUS
<1>3. PathCommands(ls) = Lines(FlattenSeq(dec))
  BY DEF PathCommands
<1> HIDE DEF decode
<1>4. dec = [i \in DOMAIN ls |-> <<ls[i]>>]
  BY <1>1, <1>2
<1>5. FlattenSeq([i \in DOMAIN ls |-> <<ls[i]>>]) = ls
  BY FlattenSingles
<1> QED
  BY <1>3, <1>4, <1>5

\* Lines from the same plain lines are plain.
LEMMA LinesPlainly ==
    ASSUME NEW ls \in Seq(Line), NEW parts, Plainly(ls, parts)
    PROVE  Plainly(Lines(ls), parts)
<1> DEFINE Good == {x \in Line : NotBlank(x) /\ \E j \in 1..Len(ls) : x = ls[j]}
<1>1. Lines(ls) \in Seq(Good)
  BY LinesFrom
<1>2. \A i \in 1..Len(Lines(ls)) : Lines(ls)[i] \in Good
  BY <1>1, ElementOfSeq
<1> SUFFICES ASSUME NEW i \in 1..Len(Lines(ls)), NEW j \in 1..Len(Lines(ls)[i].words)
             PROVE  parts[Lines(ls)[i].words[j]] = <<Lines(ls)[i].words[j]>>
  BY DEF Plainly
<1>3. PICK k \in 1..Len(ls) : Lines(ls)[i] = ls[k]
  BY <1>2
<1> QED
  BY <1>3 DEF Plainly

\* A command comes back from a gNMI path with single spaces.
LEMMA PathRoundTrip ==
    ASSUME NEW l \in Line
    PROVE  pathToCommand(CommandToPath(l)) = Tidy(l.words)
<1> DEFINE p == <<"cli">> \o l.words
           S == Words \cup {"cli"}
<1>1. l.words \in Seq(Words)
  BY DEF Line
<1>2. l.words \in Seq(S)
  BY <1>1, SeqMonotonic
<1>3. <<"cli">> \in Seq(S)
  OBVIOUS
<1>4. p \in Seq(S) /\ Len(p) = 1 + Len(l.words) /\ p[1] = "cli"
  BY <1>2, <1>3
<1>5. Tail(p) = l.words
  BY <1>2, <1>3, <1>4
<1> QED
  BY <1>4, <1>5 DEF pathToCommand, CommandToPath

\* The routes that hand blank lines on to the device.
Raw == {"gnmi-get", "gnmi-set", "gnmi-sub", "edits"}

\* What the server makes of a request that its transport can express: the words
\* of the lines that were asked for, and the lines themselves if they are tidy.
LEMMA Decoding ==
    ASSUME via \in Routes, payload \in Seq(Line), via = "restconf" => Len(payload) = 1, Expressible
    PROVE  /\ Decoded(via, payload) \in Seq(Line)
           /\ WordsOf(Lines(Decoded(via, payload))) = WordsOf(Lines(payload))
           /\ (\A i \in DOMAIN payload : payload[i].tidy) => Lines(Decoded(via, payload)) = Lines(payload)
           /\ (\A i \in DOMAIN payload : payload[i].tidy) /\ via \in Raw => Decoded(via, payload) = payload
           /\ via \notin Raw => Lines(Decoded(via, payload)) = Decoded(via, payload)
<1> DEFINE D == Decoded(via, payload)
           L == Lines(payload)
           Goal(d) == /\ d \in Seq(Line)
                      /\ WordsOf(Lines(d)) = WordsOf(L)
                      /\ (\A i \in DOMAIN payload : payload[i].tidy) => Lines(d) = L
                      /\ (\A i \in DOMAIN payload : payload[i].tidy) /\ via \in Raw => d = payload
                      /\ via \notin Raw => Lines(d) = d
<1>0. DOMAIN payload = 1..Len(payload) /\ Len(payload) \in Nat
  OBVIOUS
<1>1. L \in Seq(Line) /\ Lines(L) = L
  BY LinesType, LinesTwice
<1>2. via \notin Raw => Goal(L)
  BY <1>1
<1>3. \A i \in 1..Len(payload) : \A j \in 1..Len(payload[i].words) : payload[i].words[j] \in ToSet(payload[i].words)
  <2> SUFFICES ASSUME NEW i \in 1..Len(payload), NEW j \in 1..Len(payload[i].words)
               PROVE  payload[i].words[j] \in ToSet(payload[i].words)
    OBVIOUS
  <2>1. payload[i].words \in Seq(Words)
    BY LineOf
  <2> QED
    BY <2>1 DEF ToSet
<1>4. UsesGet(via, payload) \/ via = "edits" => Plainly(payload, SlashParts)
  BY <1>0, <1>3 DEF Expressible, Plainly
<1>5. UsesGet(via, payload) /\ via # "restconf" => Plainly(payload, PlusParts)
  BY <1>0, <1>3 DEF Expressible, Plainly
<1>6. ASSUME NEW d, DOMAIN d = 1..Len(payload), \A i \in 1..Len(payload) : d[i] = Tidy(payload[i].words),
             d = [i \in 1..Len(payload) |-> d[i]], via \notin Raw => \A i \in 1..Len(payload) : NotBlank(d[i])
      PROVE  Goal(d)
  <2>1. ASSUME NEW i \in 1..Len(payload) PROVE d[i] \in Line /\ d[i].words = payload[i].words /\ d[i].tidy
    <3>1. payload[i].words \in Seq(Words) /\ d[i] = [words |-> payload[i].words, tidy |-> TRUE]
      BY <1>6, LineOf DEF Tidy
    <3>2. d[i] \in Line
      BY <3>1 DEF Line
    <3> QED
      BY <3>1, <3>2
  <2>2. d \in Seq(Line) /\ Len(d) = Len(payload)
    BY <1>0, <1>6, <2>1
  <2>3. WordsOf(Lines(d)) = WordsOf(L)
    BY <2>1, <2>2, LinesSameWords
  <2>4. ASSUME \A i \in DOMAIN payload : payload[i].tidy PROVE d = payload
    <3>1. ASSUME NEW i \in 1..Len(payload) PROVE d[i] = payload[i]
      <4>1. payload[i] \in Line /\ payload[i].tidy = TRUE
        BY <1>0, <2>4, ElementOfSeq DEF Line
      <4> QED
        BY <1>6, <4>1 DEF Line, Tidy
    <3> QED
      BY <2>2, <3>1, SeqEqual
  <2>5. via \notin Raw => Lines(d) = d
    BY <1>6, <2>2, LinesAll
  <2> QED
    BY <2>2, <2>3, <2>4, <2>5
<1> HIDE DEF Goal
<1>7. CASE via \in {"ssh", "post", "patch", "proxy-post"}
  <2>1. D = L
    BY <1>7 DEF Decoded
  <2> QED
    BY <1>2, <1>7, <2>1 DEF Goal, Raw
<1>8. CASE via \in {"get", "proxy-get"}
  <2>1. D = PathCommands(payload)
    BY <1>8 DEF Decoded
  <2>2. UsesGet(via, payload) /\ via # "restconf"
    BY <1>8 DEF UsesGet
  <2>3. D = L
    BY <1>4, <1>5, <2>1, <2>2, PathSame
  <2> QED
    BY <1>2, <1>8, <2>3 DEF Goal, Raw
<1>9. CASE via = "tunnel"
  <2>1. CASE TunnelGet(payload)
    <3>1. D = PathCommands(L)
      BY <1>9, <2>1 DEF Decoded
    <3>2. UsesGet(via, payload) /\ via # "restconf"
      BY <1>9, <2>1 DEF UsesGet
    <3>3. Plainly(L, SlashParts) /\ Plainly(L, PlusParts)
      BY <1>4, <1>5, <3>2, LinesPlainly
    <3>4. D = L
      BY <1>1, <3>1, <3>3, PathSame
    <3> QED
      BY <1>2, <1>9, <3>4 DEF Goal, Raw
  <2>2. CASE ~TunnelGet(payload)
    <3>1. D = L
      BY <1>9, <2>2 DEF Decoded
    <3> QED
      BY <1>2, <1>9, <3>1 DEF Goal, Raw
  <2> QED
    BY <2>1, <2>2
<1>10. CASE via \in {"gnmi-get", "gnmi-set", "gnmi-sub"}
  <2>1. D = [i \in 1..Len(payload) |-> pathToCommand(CommandToPath(payload[i]))]
    BY <1>0, <1>10 DEF Decoded, GnmiCommands
  <2>2. \A i \in 1..Len(payload) : D[i] = Tidy(payload[i].words)
    <3> SUFFICES ASSUME NEW i \in 1..Len(payload) PROVE D[i] = Tidy(payload[i].words)
      OBVIOUS
    <3>1. payload[i] \in Line
      BY ElementOfSeq
    <3> HIDE DEF D
    <3> QED
      BY <2>1, <3>1, PathRoundTrip
  <2>3. via \in Raw
    BY <1>10 DEF Raw
  <2> HIDE DEF D
  <2>4. DOMAIN D = 1..Len(payload) /\ D = [i \in 1..Len(payload) |-> D[i]]
    BY <2>1
  <2>5. Goal(D)
    BY <1>6, <2>2, <2>3, <2>4
  <2> QED
    BY <2>5 DEF Goal, D
<1>11. CASE via = "restconf"
  <2>1. D = [i \in 1..Len(payload) |-> UrlCommand(payload[i])]
    BY <1>0, <1>11 DEF Decoded, UrlCommands
  <2>2. \A i \in 1..Len(payload) : D[i] = Tidy(payload[i].words)
    <3> SUFFICES ASSUME NEW i \in 1..Len(payload) PROVE D[i] = Tidy(payload[i].words)
      OBVIOUS
    <3>1. payload[i] \in Line /\ payload[i].words \in Seq(Words)
      BY LineOf
    <3>2. NotBlank(payload[i])
      BY <1>0, <1>11 DEF Expressible
    <3>3. UsesGet(via, payload)
      BY <1>11 DEF UsesGet
    <3>4. Split(SlashParts, payload[i].words) = payload[i].words
      BY <1>4, <3>1, <3>3, SplitSame DEF Plainly
    <3> HIDE DEF D
    <3> QED
      BY <2>1, <3>2, <3>4 DEF UrlCommand
  <2>3. \A i \in 1..Len(payload) : NotBlank(D[i])
    <3> SUFFICES ASSUME NEW i \in 1..Len(payload) PROVE NotBlank(D[i])
      OBVIOUS
    <3>1. NotBlank(payload[i])
      BY <1>0, <1>11 DEF Expressible
    <3>2. D[i] = Tidy(payload[i].words)
      BY <2>2
    <3> HIDE DEF D
    <3> QED
      BY <3>1, <3>2 DEF NotBlank, Tidy
  <2> HIDE DEF D
  <2>4. DOMAIN D = 1..Len(payload) /\ D = [i \in 1..Len(payload) |-> D[i]]
    BY <2>1
  <2>5. Goal(D)
    BY <1>6, <2>2, <2>3, <2>4
  <2> QED
    BY <2>5 DEF Goal, D
<1>12. CASE via = "edits"
  <2>1. D = [i \in 1..Len(payload) |-> Tidy(Split(SlashParts, payload[i].words))]
    BY <1>0, <1>12 DEF Decoded, EditCommands
  <2>2. \A i \in 1..Len(payload) : D[i] = Tidy(payload[i].words)
    <3> SUFFICES ASSUME NEW i \in 1..Len(payload) PROVE D[i] = Tidy(payload[i].words)
      OBVIOUS
    <3>1. payload[i].words \in Seq(Words)
      BY LineOf
    <3>2. Split(SlashParts, payload[i].words) = payload[i].words
      BY <1>4, <1>12, <3>1, SplitSame DEF Plainly
    <3> HIDE DEF D
    <3> QED
      BY <2>1, <3>2
  <2>3. via \in Raw
    BY <1>12 DEF Raw
  <2> HIDE DEF D
  <2>4. DOMAIN D = 1..Len(payload) /\ D = [i \in 1..Len(payload) |-> D[i]]
    BY <2>1
  <2>5. Goal(D)
    BY <1>6, <2>2, <2>3, <2>4
  <2> QED
    BY <2>5 DEF Goal, D
<1> QED
  BY <1>7, <1>8, <1>9, <1>10, <1>11, <1>12 DEF Routes, Direct, Proxied

\* A tidy payload is decoded to what is answered.
LEMMA HeardDecoded ==
    ASSUME via \in Routes, payload \in Seq(Line), via = "restconf" => Len(payload) = 1, Expressible,
           \A i \in DOMAIN payload : payload[i].tidy, via \notin Silent
    PROVE  Decoded(via, payload) = Heard
<1>1. CASE via \in {"gnmi-get", "gnmi-sub"}
  BY <1>1, Decoding DEF Heard, Raw
<1>2. CASE via \notin {"gnmi-get", "gnmi-sub"}
  <2>1. via \notin Raw
    BY <1>2 DEF Raw, Silent
  <2> QED
    BY <1>2, <2>1, Decoding DEF Heard, Asked
<1> QED
  BY <1>1, <1>2

-----------------------------------------------------------------------------
(* The device *)

\* The loop over the commands, after i of them: the places that match so far.
Hits(order, l, i) == {j \in 1..i : prefixMatch(l.words, order[j])}

Verdict(order, l, i) ==
    IF Hits(order, l, i) = {} THEN Error("unknown", l)
    ELSE IF \E j \in 1..i : Hits(order, l, i) = {j}
         THEN Output(order[CHOOSE j \in 1..i : Hits(order, l, i) = {j}])
         ELSE Error("ambiguous", l)

\* One round of the loop.
Visit(match, cmd, l) ==
    IF match.text = "ambiguous" \/ ~prefixMatch(l.words, cmd) THEN match
    ELSE IF match.text = "output" THEN Error("ambiguous", l)
    ELSE Output(cmd)

\* A round of the loop leads from the verdict on i - 1 commands to that on i.
LEMMA VerdictStep ==
    ASSUME NEW l, NEW order, NEW i \in Nat \ {0}
    PROVE  Verdict(order, l, i) = Visit(Verdict(order, l, i - 1), order[i], l)
<1> DEFINE A == Hits(order, l, i - 1)
           B == Hits(order, l, i)
           V == Verdict(order, l, i - 1)
           c == CHOOSE j \in 1..(i - 1) : A = {j}
           d == CHOOSE j \in 1..i : B = {j}
<1>0. i - 1 \in Nat /\ i \in 1..i /\ i \notin 1..(i - 1) /\ 1..(i - 1) \subseteq 1..i
  OBVIOUS
<1>1. /\ Error("unknown", l).text = "unknown"
      /\ Error("ambiguous", l).text = "ambiguous"
      /\ \A cmd : Output(cmd).text = "output"
  BY DEF Error, Output
<1>2. CASE ~prefixMatch(l.words, order[i])
  <2>1. B = A
    BY <1>0, <1>2 DEF Hits
  <2>2. Visit(V, order[i], l) = V
    BY <1>2 DEF Visit
  <2>3. A \subseteq 1..(i - 1)
    BY DEF Hits
  <2>4. CASE \E j \in 1..(i - 1) : A = {j}
    <3>1. c \in 1..(i - 1) /\ A = {c}
      BY <2>4
    <3>2. d \in 1..i /\ B = {d}
      BY <2>1, <2>4, <1>0
    <3>3. c = d
      BY <2>1, <3>1, <3>2
    <3>4. V = Output(order[c]) /\ Verdict(order, l, i) = Output(order[d])
      BY <2>1, <3>1, <3>2 DEF Verdict
    <3> QED
      BY <2>2, <3>3, <3>4
  <2>5. CASE ~\E j \in 1..(i - 1) : A = {j}
    <3>1. ~\E j \in 1..i : B = {j}
      BY <2>1, <2>3, <2>5
    <3> QED
      BY <2>1, <2>2, <2>5, <3>1 DEF Verdict
  <2> QED
    BY <2>4, <2>5
<1>3. CASE prefixMatch(l.words, order[i])
  <2>1. B = A \cup {i} /\ i \notin A /\ A \subseteq 1..(i - 1)
    BY <1>0, <1>3 DEF Hits
  <2>2. CASE A = {}
    <3>1. V = Error("unknown", l)
      BY <2>2 DEF Verdict
    <3>2. Visit(V, order[i], l) = Output(order[i])
      BY <1>1, <1>3, <3>1 DEF Visit
    <3>3. B = {i}
      BY <2>1, <2>2
    <3>4. d \in 1..i /\ B = {d}
      BY <1>0, <3>3
    <3>5. d = i
      BY <3>3, <3>4
    <3>6. Verdict(order, l, i) = Output(order[d])
      BY <1>0, <3>3 DEF Verdict
    <3> QED
      BY <3>2, <3>5, <3>6
  <2>3. CASE A # {}
    <3>1. Verdict(order, l, i) = Error("ambiguous", l)
      <4>1. B # {} /\ ~\E j \in 1..i : B = {j}
        BY <2>1, <2>3
      <4> QED
        BY <4>1 DEF Verdict
    <3>2. V.text \in {"ambiguous", "output"}
      BY <1>1, <2>3 DEF Verdict
    <3>3. CASE V.text = "ambiguous"
      <4>1. V = Error("ambiguous", l)
        BY <1>1, <2>3, <3>3 DEF Verdict
      <4> QED
        BY <3>1, <3>3, <4>1 DEF Visit
    <3>4. CASE V.text = "output"
      BY <1>3, <3>1, <3>4 DEF Visit
    <3> QED
      BY <3>2, <3>3, <3>4
  <2> QED
    BY <2>2, <2>3
<1> QED
  BY <1>2, <1>3

\* So the loop computes the verdict on all of them.
LEMMA LoopVerdict ==
    ASSUME NEW l, NEW S, NEW order \in Seq(S)
    PROVE  Loop(order, l) = Verdict(order, l, Len(order))
<1> DEFINE n == Len(order)
           Eq(f) == f = [i \in 0..n |-> IF i = 0 THEN Error("unknown", l) ELSE Visit(f[i - 1], order[i], l)]
           c == CHOOSE f : Eq(f)
           V(i) == Verdict(order, l, i)
           f == [i \in 0..n |-> V(i)]
<1>0. n \in Nat
  OBVIOUS
<1>1. Loop(order, l) = c[n]
  BY DEF Loop, Visit
<1>2. V(0) = Error("unknown", l)
  BY DEF Verdict, Hits
<1>3. \A i \in 1..n : V(i) = Visit(V(i - 1), order[i], l)
  BY <1>0, VerdictStep
<1> HIDE DEF V
<1>4. Eq(f)
  <2> SUFFICES ASSUME NEW i \in 0..n
               PROVE  V(i) = IF i = 0 THEN Error("unknown", l) ELSE Visit(f[i - 1], order[i], l)
    OBVIOUS
  <2>1. CASE i = 0
    BY <1>2, <2>1
  <2>2. CASE i # 0
    <3>1. i \in 1..n /\ i - 1 \in 0..n
      BY <1>0, <2>2
    <3>2. f[i - 1] = V(i - 1)
      BY <3>1
    <3> HIDE DEF f
    <3> QED
      BY <1>3, <2>2, <3>1, <3>2
  <2> QED
    BY <2>1, <2>2
<1>5. Eq(c)
  <2> HIDE DEF Eq, f
  <2> QED
    BY <1>4
<1>6. \A i \in 0..n : c[i] = IF i = 0 THEN Error("unknown", l) ELSE Visit(c[i - 1], order[i], l)
  <2>1. c = [i \in 0..n |-> IF i = 0 THEN Error("unknown", l) ELSE Visit(c[i - 1], order[i], l)]
    BY <1>5
  <2> HIDE DEF c
  <2> QED
    BY <2>1
<1> HIDE DEF c
<1> DEFINE T == {i \in 0..n : c[i] = V(i)}
<1>7. 0 \in T
  BY <1>0, <1>2, <1>6
<1>8. ASSUME NEW i \in 0..n, i < n, i \in T PROVE i + 1 \in T
  <2>1. i + 1 \in 1..n /\ (i + 1) - 1 = i /\ i + 1 \in 0..n /\ i + 1 # 0
    BY <1>0, <1>8
  <2>2. c[i + 1] = Visit(c[i], order[i + 1], l)
    BY <1>6, <2>1
  <2>3. V(i + 1) = Visit(V(i), order[i + 1], l)
    BY <1>3, <2>1
  <2> QED
    BY <1>8, <2>1, <2>2, <2>3
<1> HIDE DEF T
<1>9. n \in T
  <2>1. \A i \in 0..n : i \in T
    BY <1>0, <1>7, <1>8, UpTo
  <2> QED
    BY <1>0, <2>1
<1>10. c[n] = V(n)
  BY <1>9 DEF T
<1> QED
  BY <1>1, <1>10 DEF V

\* The order in which Go goes through the map makes no difference.
LEMMA ExecMeaning ==
    ASSUME NEW order \in Orders, NEW l
    PROVE  Exec(order, l) = Meaning(l)
<1> DEFINE n == Cardinality(Table)
           matches == {cmd \in Table : prefixMatch(l.words, cmd)}
           H == Hits(order, l, n)
<1>1. IsFiniteSet(Table) /\ n \in Nat
  BY TableAssumption, FS_CardinalityType
<1>2. order \in [1..n -> Table] /\ \A i, j \in 1..n : i # j => order[i] # order[j]
  BY DEF Orders, SetToSeqs
<1>3. \A cmd \in Table : \E j \in 1..n : order[j] = cmd
  <2>1. order \in Injection(1..n, Table)
    BY <1>2 DEF Injection, IsInjective
  <2>2. Cardinality(1..n) = n
    BY <1>1, FS_Interval
  <2>3. order \in Surjection(1..n, Table)
    BY <1>1, <2>1, <2>2, FS_Injection
  <2> QED
    BY <2>3 DEF Surjection
<1>4. order \in Seq(Table) /\ Len(order) = n
  BY <1>1, <1>2
<1>5. Loop(order, l) = Verdict(order, l, n)
  BY <1>4, LoopVerdict
<1>6. IsFiniteSet(matches)
  BY <1>1, FS_Subset
<1>7. H \subseteq 1..n /\ \A j \in 1..n : j \in H <=> order[j] \in matches
  BY <1>2 DEF Hits
<1> DEFINE M == IF matches = {} THEN Error("unknown", l)
                ELSE IF Cardinality(matches) > 1 THEN Error("ambiguous", l)
                ELSE Output(CHOOSE cmd \in matches : TRUE)
<1>8. CASE H = {}
  <2>1. matches = {}
    BY <1>3, <1>7, <1>8
  <2>2. M = Error("unknown", l)
    BY <2>1
  <2>3. Verdict(order, l, n) = Error("unknown", l)
    BY <1>8 DEF Verdict
  <2> HIDE DEF M
  <2>4. Loop(order, l) = M
    BY <1>5, <2>2, <2>3
  <2> QED
    BY <2>4 DEF Exec, Meaning, M
<1>9. CASE \E j \in 1..n : H = {j}
  <2> DEFINE j == CHOOSE j \in 1..n : H = {j}
  <2>1. j \in 1..n /\ H = {j}
    BY <1>9
  <2>2. Verdict(order, l, n) = Output(order[j])
    BY <2>1, <1>9 DEF Verdict
  <2> HIDE DEF j
  <2>3. matches = {order[j]}
    <3>1. order[j] \in matches
      BY <1>7, <2>1
    <3>2. ASSUME NEW cmd \in matches PROVE cmd = order[j]
      <4>1. PICK k \in 1..n : order[k] = cmd
        BY <1>3
      <4>2. k \in H
        BY <1>7, <4>1
      <4> QED
        BY <2>1, <4>1, <4>2
    <3> HIDE DEF matches
    <3> QED
      BY <3>1, <3>2
  <2> HIDE DEF matches
  <2>4. Cardinality(matches) = 1
    BY <2>3, FS_Singleton
  <2>5. (CHOOSE cmd \in matches : TRUE) = order[j]
    BY <2>3
  <2>6. M = Output(order[j])
    BY <2>3, <2>4, <2>5
  <2>7. Loop(order, l) = M
    BY <1>5, <2>2, <2>6
  <2> QED
    BY <2>7 DEF Exec, Meaning, matches
<1>10. CASE H # {} /\ ~\E j \in 1..n : H = {j}
  <2>1. PICK j, k \in H : j # k
    BY <1>7, <1>10
  <2>2. order[j] \in matches /\ order[k] \in matches /\ order[j] # order[k]
    BY <1>2, <1>7, <2>1
  <2>3. Verdict(order, l, n) = Error("ambiguous", l)
    BY <1>10 DEF Verdict
  <2> HIDE DEF matches
  <2>4. Cardinality(matches) \in Nat /\ Cardinality(matches) # 0 /\ Cardinality(matches) # 1
    BY <1>6, <2>2, FS_CardinalityType, FS_EmptySet, FS_Singleton
  <2>5. M = Error("ambiguous", l)
    BY <2>2, <2>4
  <2>6. Loop(order, l) = M
    BY <1>5, <2>3, <2>5
  <2> QED
    BY <2>6 DEF Exec, Meaning, matches
<1> QED
  BY <1>8, <1>9, <1>10

-----------------------------------------------------------------------------
(* The inductive invariant *)

\* The commands that a handler of the request runs.
Cmds == Lines(Decoded(via, payload))

Statuses == {"none", "run", "done", "failed"}
Answers == {Meaning(l) : l \in Line}
Handlers == [status : Statuses, todo : Seq(Line), out : Seq(Answers)]

\* Handler h has run the first m of the commands C, which have come by route v.
Did(h, m, C, v) ==
    /\ h.status = "none" => m = 0
    /\ h.status = "run" => /\ Lines(h.todo) = SubSeq(C, m + 1, Len(C))
                           /\ v \in Proxied => Lines(h.todo) = h.todo
    /\ h.status = "done" => m = Len(C)

\* Handler h has answered the first j of what it has decoded, D, blank or not.
Answering(h, D) ==
    /\ h.status = "run" =>
           \E j \in 0..Len(D) : /\ h.todo = SubSeq(D, j + 1, Len(D))
                               /\ h.out = [i \in 1..j |-> Meaning(D[i])]
    /\ h.status = "done" => h.out = [i \in 1..Len(D) |-> Meaning(D[i])]

\* The lines run are those of the two handlers, and in the order of the commands
\* as long as there is one handler.
Counted(C) ==
    /\ handler \in [1..2 -> Handlers]
    /\ ran \in Seq({C[i] : i \in 1..Len(C)})
    /\ \E m1, m2 \in 0..Len(C) :
           /\ Did(handler[1], m1, C, via)
           /\ Did(handler[2], m2, C, via)
           /\ Len(ran) = m1 + m2
    /\ handler[2].status = "none" => ran = SubSeq(C, 1, Len(ran))

\* Which handlers there are.
Staged ==
    /\ attempt \in 1..2
    /\ attempt = 1 => handler[2].status = "none"
    /\ attempt = 2 => UsesGet(via, payload)
    /\ stage \in {"client", "headend"} => attempt = 1 /\ handler[1].status = "none"
    /\ stage # "answered" => outcome = "none"

\* An answer that is no error is that of the handler of the last attempt; an SSH
\* exec without a payload has none.
Honest ==
    outcome = "ok" /\ answer # Masked =>
        \/ /\ handler[attempt].status = "done"
           /\ answer = IF via \in Silent THEN <<>> ELSE handler[attempt].out
        \/ payload = <<>> /\ answer = <<>>

Request ==
    /\ via \in Routes
    /\ payload \in Payloads
    /\ via = "restconf" => Len(payload) = 1

\* Every answer is to the place it is at.
InPlace(D) == \A k \in 1..2 : Answering(handler[k], D)

IInv == Request /\ (Expressible => Counted(Cmds) /\ InPlace(Decoded(via, payload)) /\ Staged /\ Honest)

-----------------------------------------------------------------------------
(* What each step makes of a handler *)

\* A handler that starts, or refuses an empty path, has run nothing.
LEMMA StartDid ==
    ASSUME NEW C \in Seq(Line), NEW D \in Seq(Line), NEW v, C = Lines(D), v \in Proxied => C = D,
           NEW h, h \in {[NoHandler EXCEPT !.status = "failed"], [status |-> "run", todo |-> D, out |-> <<>>]}
    PROVE  h \in Handlers /\ h.status # "none" /\ Did(h, 0, C, v) /\ Answering(h, D)
<1>0. <<>> \in Seq(Line) /\ <<>> \in Seq(Answers)
  OBVIOUS
<1>1. CASE h = [NoHandler EXCEPT !.status = "failed"]
  <2>1. h = [status |-> "failed", todo |-> <<>>, out |-> <<>>]
    BY <1>1 DEF NoHandler
  <2> QED
    BY <1>0, <2>1 DEF Handlers, Statuses, Did, Answering
<1>2. CASE h = [status |-> "run", todo |-> D, out |-> <<>>]
  <2>1. h \in Handlers
    BY <1>0, <1>2 DEF Handlers, Statuses
  <2>2. SubSeq(C, 1, Len(C)) = C /\ SubSeq(D, 1, Len(D)) = D
    BY SubSeqFull
  <2>3. [i \in 1..0 |-> Meaning(D[i])] = <<>> /\ 0 \in 0..Len(D)
    OBVIOUS
  <2>4. h.status = "run" /\ h.todo = D /\ h.out = <<>>
    BY <1>2
  <2>5. 0 + 1 = 1
    OBVIOUS
  <2>6. Did(h, 0, C, v)
    BY <2>2, <2>4, <2>5 DEF Did
  <2>7. Answering(h, D)
    BY <2>2, <2>3, <2>4, <2>5 DEF Answering
  <2> QED
    BY <2>1, <2>4, <2>6, <2>7
<1> QED
  BY <1>1, <1>2

\* The next command of a handler is the one after those it has run.
LEMMA NextCommand ==
    ASSUME NEW C \in Seq(Line), NEW h \in Handlers, NEW m \in 0..Len(C), NEW v, Did(h, m, C, v),
           h.status = "run", h.todo # <<>>, NotBlank(Head(h.todo))
    PROVE  /\ m + 1 \in 0..Len(C)
           /\ Head(h.todo) = C[m + 1]
           /\ Lines(Tail(h.todo)) = SubSeq(C, m + 2, Len(C))
<1> DEFINE l == Head(h.todo)
           rest == Tail(h.todo)
<1>0. Len(C) \in Nat /\ m \in Nat /\ m <= Len(C)
  OBVIOUS
<1>1. h.todo \in Seq(Line)
  BY DEF Handlers
<1>2. rest \in Seq(Line) /\ l \in Line
  BY <1>1
<1>3. Lines(h.todo) = <<l>> \o Lines(rest)
  BY <1>1, LinesCons
<1>4. Lines(h.todo) = SubSeq(C, m + 1, Len(C))
  BY DEF Did
<1> HIDE DEF l, rest
<1>5. Lines(rest) \in Seq(Line) /\ <<l>> \in Seq(Line)
  <2>1. Lines(rest) \in Seq(Line)
    BY <1>2, LinesType
  <2>2. <<l>> \in Seq(Line)
    BY <1>2
  <2> QED
    BY <2>1, <2>2
<1>6. Len(<<l>> \o Lines(rest)) = 1 + Len(Lines(rest)) /\ Len(Lines(rest)) \in Nat
  BY <1>5
<1>7. m # Len(C)
  <2>1. SUFFICES ASSUME m = Len(C) PROVE FALSE
    OBVIOUS
  <2>2. SubSeq(C, m + 1, Len(C)) = <<>>
    BY <1>0, <2>1, SubSeqEmpty
  <2>3. Len(<<>>) = 0
    OBVIOUS
  <2>4. <<l>> \o Lines(rest) = <<>>
    BY <1>3, <1>4, <2>2, Zenon
  <2>5. 1 + Len(Lines(rest)) = 0
    BY <1>6, <2>3, <2>4, Zenon
  <2> QED
    BY <1>6, <2>5
<1>8. m + 1 \in 1..Len(C) /\ Len(C) \in (m + 1)..Len(C) /\ m + 1 \in 0..Len(C) /\ (m + 1) + 1 = m + 2
  BY <1>0, <1>7
<1>9. Head(SubSeq(C, m + 1, Len(C))) = C[m + 1] /\ Tail(SubSeq(C, m + 1, Len(C))) = SubSeq(C, (m + 1) + 1, Len(C))
  BY <1>8, HeadTailOfSubSeq
<1>10. Head(<<l>> \o Lines(rest)) = l /\ Tail(<<l>> \o Lines(rest)) = Lines(rest)
  BY <1>5
<1> QED
  BY <1>3, <1>4, <1>8, <1>9, <1>10 DEF l, rest

\* Handler h after its next command.
AfterRun(h, order) ==
    [h EXCEPT !.todo = Tail(h.todo), !.out = Append(h.out, Exec(order, Head(h.todo)))]

LEMMA AfterRunType ==
    ASSUME NEW h \in Handlers, h.status = "run", h.todo # <<>>, NEW order \in Orders
    PROVE  /\ AfterRun(h, order) \in Handlers
           /\ AfterRun(h, order).status = "run"
           /\ AfterRun(h, order).todo = Tail(h.todo)
           /\ AfterRun(h, order).out = Append(h.out, Meaning(Head(h.todo)))
<1> DEFINE M == Meaning(Head(h.todo))
           x == Append(h.out, M)
<1>1. h.todo \in Seq(Line) /\ h.out \in Seq(Answers)
  BY DEF Handlers
<1>2. Head(h.todo) \in Line /\ Tail(h.todo) \in Seq(Line)
  BY <1>1
<1>3. M \in Answers
  BY <1>2 DEF Answers
<1> HIDE DEF M
<1>4. x \in Seq(Answers)
  BY <1>1, <1>3, AppendProperties
<1>5. AfterRun(h, order) = [h EXCEPT !.todo = Tail(h.todo), !.out = x]
  BY ExecMeaning DEF AfterRun, M
<1> HIDE DEF x
<1>6. /\ AfterRun(h, order) \in Handlers /\ AfterRun(h, order).status = "run"
      /\ AfterRun(h, order).todo = Tail(h.todo) /\ AfterRun(h, order).out = x
  BY <1>2, <1>4, <1>5 DEF Handlers, Statuses
<1> QED
  BY <1>6 DEF x, M

\* A handler that runs its next command has run one more.
LEMMA RunDid ==
    ASSUME NEW C \in Seq(Line), NEW h \in Handlers, NEW m \in 0..Len(C), NEW v, Did(h, m, C, v),
           h.status = "run", h.todo # <<>>, NotBlank(Head(h.todo)), NEW order \in Orders,
           NEW h2, h2 = AfterRun(h, order)
    PROVE  /\ m + 1 \in 0..Len(C)
           /\ Head(h.todo) = C[m + 1]
           /\ h2 \in Handlers /\ h2.status # "none"
           /\ Did(h2, m + 1, C, v)
<1>0. Len(C) \in Nat /\ m \in Nat
  OBVIOUS
<1>1. /\ m + 1 \in 0..Len(C)
      /\ Head(h.todo) = C[m + 1]
      /\ Lines(Tail(h.todo)) = SubSeq(C, m + 2, Len(C))
  BY NextCommand
<1>2. h2.status = "run" /\ h2.todo = Tail(h.todo) /\ h2 \in Handlers
  BY AfterRunType
<1>3. v \in Proxied => Lines(Tail(h.todo)) = Tail(h.todo)
  <2> SUFFICES ASSUME v \in Proxied PROVE Lines(Tail(h.todo)) = Tail(h.todo)
    OBVIOUS
  <2>1. Lines(h.todo) = h.todo /\ Lines(h.todo) = SubSeq(C, m + 1, Len(C))
    BY DEF Did
  <2>2. m + 1 \in 1..Len(C) /\ Len(C) \in (m + 1)..Len(C) /\ (m + 1) + 1 = m + 2
    BY <1>0, <1>1
  <2>3. Tail(SubSeq(C, m + 1, Len(C))) = SubSeq(C, (m + 1) + 1, Len(C))
    BY <2>2, HeadTailOfSubSeq
  <2> QED
    BY <1>1, <2>1, <2>2, <2>3
<1>4. (m + 1) + 1 = m + 2
  BY <1>0
<1> QED
  BY <1>1, <1>2, <1>3, <1>4 DEF Did

\* A blank command does not count.
LEMMA SkipDid ==
    ASSUME NEW C \in Seq(Line), NEW h \in Handlers, NEW m \in 0..Len(C), NEW v, Did(h, m, C, v),
           h.status = "run", h.todo # <<>>, ~NotBlank(Head(h.todo)), NEW order \in Orders,
           NEW h2, h2 = AfterRun(h, order)
    PROVE  h2 \in Handlers /\ h2.status # "none" /\ Did(h2, m, C, v)
<1>1. h.todo \in Seq(Line) /\ h.out \in Seq(Answers)
  BY DEF Handlers
<1>2. Tail(h.todo) \in Seq(Line)
  BY <1>1
<1>3. Lines(h.todo) = Lines(Tail(h.todo))
  BY <1>1, LinesCons
<1>4. h2.status = "run" /\ h2.todo = Tail(h.todo) /\ h2 \in Handlers
  BY AfterRunType
<1>5. v \notin Proxied
  <2> SUFFICES ASSUME v \in Proxied PROVE FALSE
    OBVIOUS
  <2>1. h.todo = Lines(h.todo)
    BY DEF Did
  <2> DEFINE Good == {x \in Line : NotBlank(x) /\ \E j \in 1..Len(h.todo) : x = h.todo[j]}
  <2>2. Lines(h.todo) \in Seq(Good)
    BY <1>1, LinesFrom
  <2>3. Head(h.todo) \in Good
    <3> HIDE DEF Good
    <3> QED
      BY <2>1, <2>2
  <2> QED
    BY <2>3
<1> QED
  BY <1>3, <1>4, <1>5 DEF Did

\* A handler finishes when nothing is left to run.
LEMMA FinishDid ==
    ASSUME NEW C \in Seq(Line), NEW h \in Handlers, NEW m \in 0..Len(C), NEW v, Did(h, m, C, v),
           h.status = "run", h.todo = <<>>, NEW h2, h2 = [h EXCEPT !.status = "done"]
    PROVE  h2 \in Handlers /\ h2.status # "none" /\ Did(h2, m, C, v)
<1>0. Len(C) \in Nat /\ m \in Nat /\ m <= Len(C)
  OBVIOUS
<1>1. h2.status = "done" /\ h2.out = h.out /\ h2 \in Handlers
  BY DEF Handlers, Statuses
<1>2. SubSeq(C, m + 1, Len(C)) = <<>>
  BY LinesEmpty DEF Did
<1>3. m = Len(C)
  <2> SUFFICES ASSUME m # Len(C) PROVE FALSE
    OBVIOUS
  <2>1. \A i \in (m + 1)..Len(C) : C[i] \in Line
    BY <1>0, ElementOfSeq
  <2>2. Len(SubSeq(C, m + 1, Len(C))) = Len(C) - (m + 1) + 1
    BY <1>0, <2>1, SubSeqProperties
  <2>3. Len(<<>>) = 0
    OBVIOUS
  <2>4. Len(C) - (m + 1) + 1 = 0
    BY <1>2, <2>2, <2>3, Zenon
  <2> QED
    BY <1>0, <2>4
<1> QED
  BY <1>1, <1>3 DEF Did

\* A handler whose backend has failed may have run any number of them.
LEMMA FailDid ==
    ASSUME NEW C \in Seq(Line), NEW m \in Nat, NEW v, NEW h2, h2 = [NoHandler EXCEPT !.status = "failed"]
    PROVE  h2 \in Handlers /\ h2.status # "none" /\ Did(h2, m, C, v)
<1>1. h2 = [status |-> "failed", todo |-> <<>>, out |-> <<>>]
  BY DEF NoHandler
<1>2. <<>> \in Seq(Line) /\ <<>> \in Seq(Answers)
  OBVIOUS
<1>3. h2 \in Handlers
  <2>1. "failed" \in Statuses
    BY DEF Statuses
  <2> QED
    BY ONLY <1>1, <1>2, <2>1 DEF Handlers
<1>4. h2.status = "failed"
  BY <1>1
<1> QED
  BY <1>3, <1>4 DEF Did

\* Blank or not, the next command's answer goes to its own place.
LEMMA RunAnswering ==
    ASSUME NEW D \in Seq(Line), NEW h \in Handlers, Answering(h, D),
           h.status = "run", h.todo # <<>>, NEW order \in Orders
    PROVE  Answering(AfterRun(h, order), D)
<1> DEFINE h2 == AfterRun(h, order)
<1>1. PICK j \in 0..Len(D) : h.todo = SubSeq(D, j + 1, Len(D)) /\ h.out = [i \in 1..j |-> Meaning(D[i])]
  BY DEF Answering
<1>2. h2.status = "run" /\ h2.todo = Tail(h.todo) /\ h2.out = Append(h.out, Meaning(Head(h.todo)))
  BY AfterRunType
<1> HIDE DEF h2
<1>3. j \in Nat /\ Len(D) \in Nat
  OBVIOUS
<1>4. j # Len(D)
  <2>1. SUFFICES ASSUME j = Len(D) PROVE FALSE
    OBVIOUS
  <2>2. SubSeq(D, j + 1, Len(D)) = <<>>
    BY <1>3, <2>1, SubSeqEmpty
  <2> QED
    BY <1>1, <2>2
<1>5. j + 1 \in 0..Len(D) /\ j + 1 \in 1..Len(D) /\ Len(D) \in (j + 1)..Len(D)
  BY <1>3, <1>4
<1>6. Head(h.todo) = D[j + 1] /\ Tail(h.todo) = SubSeq(D, (j + 1) + 1, Len(D))
  BY <1>1, <1>5, HeadTailOfSubSeq
<1>7. h2.out = Append([i \in 1..j |-> Meaning(D[i])], Meaning(D[j + 1]))
  BY <1>1, <1>2, <1>6
<1>8. h2.out = [i \in 1..(j + 1) |-> Meaning(D[i])]
  BY <1>3, <1>7
<1> QED
  BY <1>2, <1>5, <1>6, <1>8 DEF Answering, h2

\* A handler that finishes has answered everything.
LEMMA FinishAnswering ==
    ASSUME NEW D \in Seq(Line), NEW h \in Handlers, Answering(h, D), h.status = "run", h.todo = <<>>
    PROVE  Answering([h EXCEPT !.status = "done"], D)
<1> DEFINE h2 == [h EXCEPT !.status = "done"]
<1>1. PICK j \in 0..Len(D) : h.todo = SubSeq(D, j + 1, Len(D)) /\ h.out = [i \in 1..j |-> Meaning(D[i])]
  BY DEF Answering
<1>2. h2.status = "done" /\ h2.out = h.out
  BY DEF Handlers
<1> HIDE DEF h2
<1>3. j \in Nat /\ Len(D) \in Nat /\ j <= Len(D)
  OBVIOUS
<1>4. j = Len(D)
  <2> SUFFICES ASSUME j # Len(D) PROVE FALSE
    OBVIOUS
  <2>1. \A i \in (j + 1)..Len(D) : D[i] \in Line
    BY <1>3, ElementOfSeq
  <2>2. Len(SubSeq(D, j + 1, Len(D))) = Len(D) - (j + 1) + 1
    BY <1>3, <2>1, SubSeqProperties
  <2>3. Len(<<>>) = 0
    OBVIOUS
  <2>4. Len(D) - (j + 1) + 1 = 0
    BY <1>1, <2>2, <2>3, Zenon
  <2> QED
    BY <1>3, <2>4
<1> QED
  BY <1>1, <1>2, <1>4 DEF Answering, h2

\* A step of one handler keeps the answers in place if it does for that handler.
LEMMA InPlaceStep ==
    ASSUME NEW D, InPlace(D), NEW k \in 1..2, NEW h2, handler \in [1..2 -> Handlers],
           handler' = [handler EXCEPT ![k] = h2], Answering(h2, D)
    PROVE  InPlace(D)'
<1>1. \A j \in 1..2 : handler'[j] = IF j = k THEN h2 ELSE handler[j]
  OBVIOUS
<1> QED
  BY <1>1 DEF InPlace

-----------------------------------------------------------------------------
(* Invariance *)

\* A step of one handler that runs its next command or none.
LEMMA CountedStep ==
    ASSUME NEW C \in Seq(Line), Counted(C), NEW k \in 1..2, NEW h2 \in Handlers, h2.status # "none",
           handler' = [handler EXCEPT ![k] = h2], via' = via,
           \A m \in 0..Len(C) : Did(handler[k], m, C, via) =>
               \/ Did(h2, m, C, via) /\ ran' = ran
               \/ m + 1 \in 0..Len(C) /\ Did(h2, m + 1, C, via) /\ ran' = Append(ran, C[m + 1])
    PROVE  Counted(C)'
<1> DEFINE S == {C[i] : i \in 1..Len(C)}
<1>0. /\ handler \in [1..2 -> Handlers] /\ ran \in Seq(S) /\ Len(C) \in Nat
      /\ handler[2].status = "none" => ran = SubSeq(C, 1, Len(ran))
  BY DEF Counted
<1>1. PICK m1 \in 0..Len(C), m2 \in 0..Len(C) :
          Did(handler[1], m1, C, via) /\ Did(handler[2], m2, C, via) /\ Len(ran) = m1 + m2
  BY DEF Counted
<1>2. handler' \in [1..2 -> Handlers] /\ handler'[k] = h2 /\ \A j \in 1..2 : j # k => handler'[j] = handler[j]
  BY <1>0
<1> DEFINE m == IF k = 1 THEN m1 ELSE m2
<1>3. m \in 0..Len(C) /\ m \in Nat /\ Did(handler[k], m, C, via)
  BY <1>1
<1>4. handler'[2].status = "none" => k = 1 /\ handler[2].status = "none" /\ m2 = 0
  BY <1>1, <1>2 DEF Did
<1>5. CASE Did(h2, m, C, via) /\ ran' = ran
  <2>1. /\ Did(handler'[1], IF k = 1 THEN m ELSE m1, C, via)
        /\ Did(handler'[2], IF k = 2 THEN m ELSE m2, C, via)
    BY <1>1, <1>2, <1>5
  <2>2. Did(handler'[1], m1, C, via) /\ Did(handler'[2], m2, C, via)
    BY <2>1
  <2> HIDE DEF m, S
  <2>3. Len(ran') = m1 + m2 /\ ran' \in Seq(S)
    BY <1>0, <1>1, <1>5
  <2>4. handler'[2].status = "none" => ran' = SubSeq(C, 1, Len(ran'))
    BY <1>0, <1>4, <1>5
  <2> QED
    BY <1>2, <2>2, <2>3, <2>4 DEF Counted, S
<1>6. CASE m + 1 \in 0..Len(C) /\ Did(h2, m + 1, C, via) /\ ran' = Append(ran, C[m + 1])
  <2>0. m + 1 \in 1..Len(C)
    BY <1>3, <1>6
  <2>1. C[m + 1] \in S
    BY <2>0
  <2>2. \E n1, n2 \in 0..Len(C) :
            Did(handler'[1], n1, C, via) /\ Did(handler'[2], n2, C, via) /\ Len(ran) + 1 = n1 + n2
    <3>1. CASE k = 1
      <4>1. Did(handler'[1], m + 1, C, via) /\ Did(handler'[2], m2, C, via) /\ m = m1
        BY <1>1, <1>2, <1>6, <3>1
      <4>2. Len(ran) + 1 = (m + 1) + m2
        BY <1>0, <1>1, <4>1
      <4> HIDE DEF m
      <4> QED
        BY <1>6, <4>1, <4>2
    <3>2. CASE k = 2
      <4>1. Did(handler'[1], m1, C, via) /\ Did(handler'[2], m + 1, C, via) /\ m = m2
        BY <1>1, <1>2, <1>6, <3>2
      <4>2. Len(ran) + 1 = m1 + (m + 1)
        BY <1>0, <1>1, <4>1
      <4> HIDE DEF m
      <4> QED
        BY <1>6, <4>1, <4>2
    <3> QED
      BY <3>1, <3>2
  <2>3. handler'[2].status = "none" => ran' = SubSeq(C, 1, Len(ran'))
    <3> SUFFICES ASSUME handler'[2].status = "none" PROVE ran' = SubSeq(C, 1, Len(ran'))
      OBVIOUS
    <3>1. m = m1 /\ Len(ran) = m /\ ran = SubSeq(C, 1, m)
      BY <1>0, <1>1, <1>4
    <3> HIDE DEF m, S
    <3>2. Append(SubSeq(C, 1, m), C[m + 1]) = SubSeq(C, 1, m + 1)
      BY <1>3, <2>0
    <3>3. ran' = SubSeq(C, 1, m + 1)
      BY <1>6, <3>1, <3>2
    <3>4. Len(ran') = m + 1
      BY <1>0, <1>6, <2>1, <3>1, AppendProperties
    <3> QED
      BY <3>3, <3>4
  <2> HIDE DEF m, S
  <2>4. Len(ran') = Len(ran) + 1 /\ ran' \in Seq(S)
    BY <1>0, <1>6, <2>1, AppendProperties
  <2>5. \E n1, n2 \in 0..Len(C) :
            Did(handler'[1], n1, C, via') /\ Did(handler'[2], n2, C, via') /\ Len(ran') = n1 + n2
    BY <2>2, <2>4
  <2> QED
    BY <1>2, <2>3, <2>4, <2>5 DEF Counted, S
<1> QED
  BY <1>3, <1>5, <1>6

\* What is fixed about a request that can be expressed.
LEMMA RequestFacts ==
    ASSUME Request, Expressible
    PROVE  /\ Cmds \in Seq(Line) /\ Decoded(via, payload) \in Seq(Line)
           /\ Cmds = Lines(Decoded(via, payload))
           /\ via \in Proxied => Cmds = Decoded(via, payload)
<1>1. payload \in Seq(Line)
  BY PayloadsAssumption DEF Request
<1>2. Decoded(via, payload) \in Seq(Line) /\ (via \in Proxied => Lines(Decoded(via, payload)) = Decoded(via, payload))
  BY <1>1, Decoding DEF Request, Raw, Proxied
<1>3. Lines(Decoded(via, payload)) \in Seq(Line)
  BY <1>2, LinesType
<1> QED
  BY <1>2, <1>3 DEF Cmds

\* What depends on the request alone is the same after a step.
LEMMA RequestFixed ==
    ASSUME UNCHANGED request
    PROVE  /\ Cmds' = Cmds /\ Decoded(via, payload)' = Decoded(via, payload)
           /\ (Expressible' <=> Expressible) /\ (Request' <=> Request)
<1>1. via' = via /\ payload' = payload
  BY DEF request
<1>2. Cmds' = Cmds /\ Decoded(via, payload)' = Decoded(via, payload)
  BY <1>1 DEF Cmds
<1>3. UsesGet(via', payload') = UsesGet(via, payload)
  BY <1>1
<1>4. Expressible' <=> Expressible
  BY <1>1, <1>3 DEF Expressible
<1>5. Request' <=> Request
  BY <1>1 DEF Request
<1> QED
  BY <1>2, <1>4, <1>5

\* At first nothing has been delivered and nothing has run.
LEMMA InitIInv == Init => IInv
<1> SUFFICES ASSUME Init PROVE IInv
  OBVIOUS
<1>1. Request
  BY DEF Init, Request
<1>2. ASSUME Expressible PROVE Counted(Cmds) /\ InPlace(Decoded(via, payload)) /\ Staged /\ Honest
  <2> DEFINE C == Cmds
  <2>1. C \in Seq(Line)
    BY <1>1, <1>2, RequestFacts
  <2> HIDE DEF C
  <2>2. NoHandler \in Handlers /\ NoHandler.status = "none"
    <3>1. <<>> \in Seq(Line) /\ <<>> \in Seq(Answers) /\ "none" \in Statuses
      BY DEF Statuses
    <3> QED
      BY <3>1 DEF NoHandler, Handlers
  <2>3. handler = [k \in 1..2 |-> NoHandler] /\ ran = <<>>
    BY DEF Init
  <2>4. handler \in [1..2 -> Handlers] /\ handler[1].status = "none" /\ handler[2].status = "none"
    BY <2>2, <2>3
  <2>5. Did(handler[1], 0, C, via) /\ Did(handler[2], 0, C, via)
    BY <2>4 DEF Did
  <2>6. ran \in Seq({C[i] : i \in 1..Len(C)}) /\ Len(ran) = 0 /\ Len(C) \in Nat
    BY <2>1, <2>3
  <2>7. SubSeq(C, 1, 0) = <<>>
    BY <2>1
  <2>8. \E m1, m2 \in 0..Len(C) :
            Did(handler[1], m1, C, via) /\ Did(handler[2], m2, C, via) /\ Len(ran) = m1 + m2
    <3>1. 0 \in 0..Len(C) /\ Len(ran) = 0 + 0
      BY <2>6
    <3> QED
      BY <2>5, <3>1
  <2>9. Counted(C)
    BY <2>3, <2>4, <2>6, <2>7, <2>8 DEF Counted
  <2>10. Staged
    BY <2>4 DEF Init, Staged
  <2>11. Honest
    BY DEF Init, Honest
  <2>12. InPlace(Decoded(via, payload))
    BY <2>4 DEF InPlace, Answering
  <2> QED
    BY <2>9, <2>10, <2>11, <2>12 DEF C
<1> QED
  BY <1>1, <1>2 DEF IInv

\* A step that leaves handlers and lines alone.
LEMMA CountedSame ==
    ASSUME NEW C, Counted(C), UNCHANGED <<handler, ran, via>>
    PROVE  Counted(C)'
  BY DEF Counted

\* Starting a handler leaves the other one alone and runs nothing.
LEMMA StartStep ==
    ASSUME Request, Expressible, NEW C, C = Cmds, Counted(C), NEW k \in 1..2, handler[k].status = "none",
           StartHandler(k), UNCHANGED <<via, ran>>, NEW D, D = Decoded(via, payload), InPlace(D)
    PROVE  /\ Counted(C)' /\ InPlace(D)'
           /\ handler'[k].status # "none"
           /\ \A j \in 1..2 : j # k => handler'[j] = handler[j]
<1>1. C \in Seq(Line) /\ D \in Seq(Line) /\ C = Lines(D) /\ (via \in Proxied => C = D)
  BY RequestFacts
<1>2. PICK h : /\ h \in {[NoHandler EXCEPT !.status = "failed"], [status |-> "run", todo |-> D, out |-> <<>>]}
               /\ handler' = [handler EXCEPT ![k] = h]
  BY DEF StartHandler
<1>3. h \in Handlers /\ h.status # "none" /\ Did(h, 0, C, via) /\ Answering(h, D)
  BY <1>1, <1>2, StartDid
<1>5. \A m \in 0..Len(C) : Did(handler[k], m, C, via) => m = 0
  BY DEF Did
<1>6. Counted(C)'
  <2>1. \A m \in 0..Len(C) : Did(handler[k], m, C, via) => Did(h, m, C, via) /\ ran' = ran
    BY <1>3, <1>5
  <2> QED
    BY <1>1, <1>2, <1>3, <2>1, CountedStep
<1>7. handler'[k] = h /\ \A j \in 1..2 : j # k => handler'[j] = handler[j]
  BY <1>2 DEF Counted
<1>8. InPlace(D)'
  BY <1>2, <1>3, InPlaceStep DEF Counted
<1> QED
  BY <1>3, <1>6, <1>7, <1>8

\* A step of a handler that runs: nothing changes about the other.
LEMMA HandlerStep ==
    ASSUME Request, Expressible, NEW C, C = Cmds, Counted(C), NEW k \in 1..2, Handler(k),
           NEW D, D = Decoded(via, payload), InPlace(D)
    PROVE  /\ Counted(C)' /\ InPlace(D)'
           /\ handler[k].status = "run" /\ handler'[k].status # "none"
           /\ \A j \in 1..2 : j # k => handler'[j] = handler[j]
<1> DEFINE h == handler[k]
<1>1. C \in Seq(Line) /\ Len(C) \in Nat /\ D \in Seq(Line)
  BY RequestFacts
<1>2. handler \in [1..2 -> Handlers] /\ h \in Handlers /\ Answering(h, D)
  BY DEF Counted, InPlace
<1>3. ASSUME NEW h2, h2 \in Handlers, h2.status # "none", handler' = [handler EXCEPT ![k] = h2]
      PROVE  handler'[k].status # "none" /\ \A j \in 1..2 : j # k => handler'[j] = handler[j]
  BY <1>2, <1>3
<1>4. CASE RunOne(k)
  <2> DEFINE l == Head(h.todo)
  <2>1. h.status = "run" /\ h.todo # <<>> /\ via' = via
    BY <1>4 DEF RunOne, request
  <2>2. PICK order \in Orders :
            handler' = [handler EXCEPT ![k].todo = Tail(@), ![k].out = Append(@, Exec(order, l))]
    BY <1>4 DEF RunOne
  <2>3. ran' = IF NotBlank(l) THEN Append(ran, l) ELSE ran
    BY <1>4 DEF RunOne
  <2> DEFINE h2 == AfterRun(h, order)
  <2>4. handler' = [handler EXCEPT ![k] = h2]
    BY <1>2, <2>2 DEF Handlers, AfterRun
  <2>5. h2 \in Handlers /\ h2.status # "none" /\ Answering(h2, D)
    BY <1>1, <1>2, <2>1, AfterRunType, RunAnswering
  <2>6. ASSUME NEW m \in 0..Len(C), Did(h, m, C, via)
        PROVE  \/ Did(h2, m, C, via) /\ ran' = ran
               \/ m + 1 \in 0..Len(C) /\ Did(h2, m + 1, C, via) /\ ran' = Append(ran, C[m + 1])
    <3>1. CASE NotBlank(l)
      <4>1. NotBlank(Head(h.todo))
        BY <3>1
      <4> HIDE DEF h
      <4>2. m + 1 \in 0..Len(C) /\ Head(h.todo) = C[m + 1] /\ Did(h2, m + 1, C, via)
        BY <1>1, <1>2, <2>1, <2>6, <4>1, RunDid
      <4> QED
        BY <2>3, <3>1, <4>2
    <3>2. CASE ~NotBlank(l)
      <4>1. ~NotBlank(Head(h.todo))
        BY <3>2
      <4> HIDE DEF h
      <4>2. Did(h2, m, C, via)
        BY <1>1, <1>2, <2>1, <2>6, <4>1, SkipDid
      <4> QED
        BY <2>3, <3>2, <4>2
    <3> QED
      BY <3>1, <3>2
  <2> HIDE DEF h2, l
  <2>7. Counted(C)'
    BY <1>1, <2>1, <2>4, <2>5, <2>6, CountedStep
  <2>8. InPlace(D)'
    BY <1>2, <2>4, <2>5, InPlaceStep
  <2> QED
    BY <1>3, <2>1, <2>4, <2>5, <2>7, <2>8
<1>5. CASE Finish(k)
  <2>1. h.status = "run" /\ h.todo = <<>> /\ via' = via /\ ran' = ran
    BY <1>5 DEF Finish, request
  <2> DEFINE h2 == [h EXCEPT !.status = "done"]
  <2>2. handler' = [handler EXCEPT ![k] = h2]
    BY <1>2, <1>5 DEF Finish, Handlers
  <2>3. ASSUME NEW m \in 0..Len(C), Did(h, m, C, via)
        PROVE  h2 \in Handlers /\ h2.status # "none" /\ Did(h2, m, C, via)
    <3> HIDE DEF h2
    <3> QED
      BY <1>1, <1>2, <2>1, <2>3, FinishDid DEF h2
  <2>4. \E m \in 0..Len(C) : Did(h, m, C, via)
    BY DEF Counted
  <2>5. Answering(h2, D)
    BY <1>1, <1>2, <2>1, FinishAnswering
  <2> HIDE DEF h2
  <2>6. h2 \in Handlers /\ h2.status # "none"
    BY <2>3, <2>4
  <2>7. \A m \in 0..Len(C) : Did(h, m, C, via) => Did(h2, m, C, via) /\ ran' = ran
    BY <2>1, <2>3
  <2>8. Counted(C)'
    BY <1>1, <2>1, <2>2, <2>6, <2>7, CountedStep
  <2>9. InPlace(D)'
    BY <1>2, <2>2, <2>5, InPlaceStep
  <2> QED
    BY <1>3, <2>1, <2>2, <2>6, <2>8, <2>9
<1>6. CASE BackendFails(k)
  <2> DEFINE todo == h.todo
             h2 == [NoHandler EXCEPT !.status = "failed"]
  <2>1. h.status = "run" /\ via' = via /\ via \in Proxied /\ handler' = [handler EXCEPT ![k] = h2]
    BY <1>6 DEF BackendFails, request
  <2>2. ran' \in {ran} \cup {Append(ran, todo[i]) : i \in DOMAIN todo \cap {1}}
    BY <1>6 DEF BackendFails
  <2>3. todo \in Seq(Line)
    BY <1>2 DEF Handlers
  <2>4. ran' = ran \/ (todo # <<>> /\ ran' = Append(ran, Head(todo)))
    <3>1. DOMAIN todo = 1..Len(todo) /\ Len(todo) \in Nat
      BY <2>3
    <3>2. 1 \in DOMAIN todo => todo # <<>> /\ todo[1] = Head(todo)
      BY <2>3
    <3> QED
      BY <2>2, <3>1, <3>2
  <2>5. ASSUME NEW m \in 0..Len(C), Did(h, m, C, via)
        PROVE  \/ Did(h2, m, C, via) /\ ran' = ran
               \/ m + 1 \in 0..Len(C) /\ Did(h2, m + 1, C, via) /\ ran' = Append(ran, C[m + 1])
    <3>1. \A i \in Nat : Did(h2, i, C, via)
      BY <1>1, FailDid
    <3>2. CASE ran' = ran
      <4>1. m \in Nat
        OBVIOUS
      <4> QED
        BY <3>1, <3>2, <4>1
    <3>3. CASE todo # <<>> /\ ran' = Append(ran, Head(todo))
      <4>1. NotBlank(Head(todo))
        <5>1. todo = Lines(todo)
          BY <2>1, <2>5 DEF Did
        <5> DEFINE Good == {x \in Line : NotBlank(x) /\ \E j \in 1..Len(todo) : x = todo[j]}
        <5>2. Lines(todo) \in Seq(Good)
          BY <2>3, LinesFrom
        <5>3. Head(todo) \in Good
          <6> HIDE DEF Good, todo
          <6> QED
            BY <3>3, <5>1, <5>2
        <5> QED
          BY <5>3
      <4>2. m + 1 \in 0..Len(C) /\ Head(todo) = C[m + 1]
        BY <1>1, <1>2, <2>1, <2>5, <3>3, <4>1, NextCommand
      <4> QED
        BY <3>1, <3>3, <4>2
    <3> QED
      BY <2>4, <3>2, <3>3
  <2>6. h2 \in Handlers /\ h2.status # "none"
    BY <1>1, FailDid
  <2>7. Answering(h2, D)
    BY DEF Answering, NoHandler
  <2> HIDE DEF h2, todo
  <2>8. Counted(C)'
    BY <1>1, <2>1, <2>5, <2>6, CountedStep
  <2>9. InPlace(D)'
    BY <1>2, <2>1, <2>7, InPlaceStep
  <2> QED
    BY <1>3, <2>1, <2>6, <2>8, <2>9
<1> QED
  BY <1>4, <1>5, <1>6 DEF Handler

\* Every step preserves the invariant, action by action.
LEMMA NextIInv == IInv /\ [Next]_vars => IInv'
<1> SUFFICES ASSUME IInv, [Next]_vars PROVE IInv'
  OBVIOUS
<1>1. UNCHANGED request
  BY DEF Next, vars, request, Refuse, SendToHeadend, Deliver, Reply, LegBreaks, Repeat, Timeout,
         ClientLoses, Handler, RunOne, Finish, BackendFails, Over
<1>2. Request /\ Cmds' = Cmds /\ Decoded(via, payload)' = Decoded(via, payload) /\ (Expressible' <=> Expressible) /\ Request'
  BY <1>1, RequestFixed DEF IInv
<1> SUFFICES ASSUME Expressible PROVE Counted(Cmds)' /\ InPlace(Decoded(via, payload))' /\ Staged' /\ Honest'
  BY <1>2 DEF IInv
<1>3. Counted(Cmds) /\ InPlace(Decoded(via, payload)) /\ Staged /\ Honest
  BY DEF IInv
<1>4. via' = via /\ payload' = payload /\ UsesGet(via', payload') = UsesGet(via, payload)
  BY <1>1 DEF request
<1>5. PICK C, D : C = Cmds /\ D = Decoded(via, payload)
  OBVIOUS
<1>6. Counted(C) /\ InPlace(D)
  BY <1>3, <1>5
<1>7. (Counted(C)' => Counted(Cmds)') /\ (InPlace(D)' => InPlace(Decoded(via, payload))')
  BY <1>2, <1>5 DEF Counted, InPlace
<1>8. CASE UNCHANGED vars
  <2>1. Counted(C)' /\ InPlace(D)'
    BY <1>6, <1>8, CountedSame DEF vars, InPlace
  <2>2. Staged' /\ Honest'
    BY <1>3, <1>4, <1>8 DEF vars, Staged, Honest
  <2> QED
    BY <1>7, <2>1, <2>2
<1>9. ASSUME UNCHANGED <<attempt, handler, ran>>,
             \/ stage # "answered" /\ stage' = "headend" /\ stage = "client" /\ UNCHANGED <<outcome, answer>>
             \/ /\ stage' = "answered"
                /\ \/ outcome' = "error"
                   \/ answer' = Masked
                   \/ payload = <<>> /\ answer' = <<>>
                   \/ /\ handler[attempt].status = "done"
                      /\ answer' = IF via \in Silent THEN <<>> ELSE handler[attempt].out
      PROVE  Counted(Cmds)' /\ InPlace(Decoded(via, payload))' /\ Staged' /\ Honest'
  <2>1. Counted(C)' /\ InPlace(D)'
    BY <1>4, <1>6, <1>9, CountedSame DEF InPlace
  <2>2. Staged'
    BY <1>3, <1>4, <1>9 DEF Staged
  <2>3. Honest'
    <3>1. Masked' = Masked
      BY DEF Masked
    <3> QED
      BY <1>3, <1>4, <1>9, <3>1 DEF Honest, Staged
  <2> QED
    BY <1>7, <2>1, <2>2, <2>3
<1>10. CASE Refuse
  BY <1>9, <1>10 DEF Refuse, Answered
<1>11. CASE SendToHeadend
  BY <1>9, <1>11 DEF SendToHeadend, Answered
<1>12. CASE Deliver
  <2>1. handler[1].status = "none" /\ attempt = 1 /\ outcome = "none"
    BY <1>3, <1>12 DEF Deliver, Staged
  <2>2. /\ StartHandler(1) /\ UNCHANGED <<via, ran>> /\ stage' = "waiting"
        /\ attempt' = attempt /\ outcome' = outcome
    BY <1>4, <1>12 DEF Deliver
  <2>3. Counted(C)' /\ InPlace(D)' /\ handler'[2] = handler[2]
    BY <1>2, <1>5, <1>6, <2>1, <2>2, StartStep
  <2>4. Staged' /\ Honest'
    BY <1>3, <1>4, <2>1, <2>2, <2>3 DEF Staged, Honest
  <2> QED
    BY <1>7, <2>3, <2>4
<1>13. CASE Reply
  <2>1. CASE handler[attempt].status = "failed"
    BY <1>9, <1>13, <2>1 DEF Reply, LegFails, Answered
  <2>2. CASE handler[attempt].status = "done"
    BY <1>9, <1>13, <2>2 DEF Reply, Answered
  <2> QED
    BY <1>13, <2>1, <2>2 DEF Reply
<1>14. CASE LegBreaks
  BY <1>9, <1>14 DEF LegBreaks, LegFails, Answered
<1>15. CASE Repeat
  <2>1. handler[2].status = "none" /\ outcome = "none" /\ UsesGet(via, payload)
    BY <1>3, <1>15 DEF Repeat, Repeatable, Staged
  <2>2. /\ StartHandler(2) /\ UNCHANGED <<via, ran>> /\ stage = "waiting" /\ stage' = "waiting"
        /\ attempt' = 2 /\ outcome' = outcome
    BY <1>4, <1>15 DEF Repeat
  <2>3. Counted(C)' /\ InPlace(D)'
    BY <1>2, <1>5, <1>6, <2>1, <2>2, StartStep
  <2>4. Staged' /\ Honest'
    BY <1>4, <2>1, <2>2 DEF Staged, Honest
  <2> QED
    BY <1>7, <2>3, <2>4
<1>16. CASE Timeout
  BY <1>9, <1>16 DEF Timeout, LegFails, Answered
<1>17. CASE ClientLoses
  BY <1>9, <1>17 DEF ClientLoses, Answered
<1>18. ASSUME NEW k \in 1..2, Handler(k) PROVE Counted(Cmds)' /\ InPlace(Decoded(via, payload))' /\ Staged' /\ Honest'
  <2>1. /\ Counted(C)' /\ InPlace(D)'
        /\ handler[k].status = "run" /\ handler'[k].status # "none"
        /\ \A j \in 1..2 : j # k => handler'[j] = handler[j]
    BY <1>2, <1>5, <1>6, <1>18, HandlerStep
  <2>2. UNCHANGED <<stage, attempt, outcome, answer>>
    BY <1>18 DEF Handler, RunOne, Finish, BackendFails
  <2>3. Staged'
    <3>1. attempt = 1 => k = 1
      BY <1>3, <2>1 DEF Staged
    <3> QED
      BY <1>3, <1>4, <2>1, <2>2, <3>1 DEF Staged
  <2>4. Honest'
    <3>1. handler[attempt].status = "done" => handler'[attempt] = handler[attempt]
      BY <1>3, <2>1 DEF Staged
    <3>2. Masked' = Masked
      BY DEF Masked
    <3> QED
      BY <1>3, <1>4, <2>2, <3>1, <3>2 DEF Honest
  <2> QED
    BY <1>7, <2>1, <2>3, <2>4
<1>19. CASE Over
  BY <1>8, <1>19 DEF Over
<1> QED
  BY <1>8, <1>10, <1>11, <1>12, <1>13, <1>14, <1>15, <1>16, <1>17, <1>18, <1>19 DEF Next

\* In every state of every behaviour the handlers have run what their places say,
\* and an answer that is no error is that of the last attempt.
THEOREM Invariance == Spec => []IInv
  BY InitIInv, NextIInv, PTL DEF Spec

-----------------------------------------------------------------------------
(* The properties *)

\* The words of what is to run are the words of what was asked for.
LEMMA WantedWords ==
    ASSUME Request, Expressible
    PROVE  /\ Cmds \in Seq(Line) /\ Asked \in Seq(Line)
           /\ Len(Cmds) = Len(Asked)
           /\ \A i \in 1..Len(Cmds) : Cmds[i].words = Asked[i].words
           /\ payload = <<>> => Len(Cmds) = 0
           /\ (\A i \in DOMAIN payload : payload[i].tidy) => Cmds = Asked
<1>1. payload \in Seq(Line)
  BY PayloadsAssumption DEF Request
<1>2. Cmds \in Seq(Line) /\ Asked \in Seq(Line)
  BY <1>1, RequestFacts, LinesType DEF Asked
<1>3. WordsOf(Cmds) = WordsOf(Asked) /\ ((\A i \in DOMAIN payload : payload[i].tidy) => Cmds = Asked)
  BY <1>1, Decoding DEF Request, Cmds, Asked
<1>4. DOMAIN Cmds = 1..Len(Cmds) /\ DOMAIN Asked = 1..Len(Asked) /\ Len(Cmds) \in Nat /\ Len(Asked) \in Nat
  BY <1>2
<1>5. DOMAIN WordsOf(Cmds) = 1..Len(Cmds) /\ DOMAIN WordsOf(Asked) = 1..Len(Asked)
  BY <1>4 DEF WordsOf
<1>6. Len(Cmds) = Len(Asked)
  <2>1. \A a, b \in Nat : 1..a = 1..b => a = b
    <3> SUFFICES ASSUME NEW a \in Nat, NEW b \in Nat, 1..a = 1..b, a < b \/ b < a PROVE FALSE
      OBVIOUS
    <3>1. CASE a < b
      <4>1. b \in 1..b /\ b \notin 1..a
        BY <3>1
      <4> QED
        BY <4>1
    <3>2. CASE b < a
      <4>1. a \in 1..a /\ a \notin 1..b
        BY <3>2
      <4> QED
        BY <4>1
    <3> QED
      BY <3>1, <3>2
  <2>2. 1..Len(Cmds) = 1..Len(Asked)
    BY <1>3, <1>5, Zenon
  <2> QED
    BY <1>4, <2>1, <2>2
<1>7. ASSUME NEW i \in 1..Len(Cmds) PROVE Cmds[i].words = Asked[i].words
  <2>1. WordsOf(Cmds)[i] = Cmds[i].words /\ WordsOf(Asked)[i] = Asked[i].words
    BY <1>4, <1>6 DEF WordsOf
  <2> QED
    BY <1>3, <2>1
<1>8. payload = <<>> => Len(Cmds) = 0
  <2>1. Len(<<>>) = 0
    OBVIOUS
  <2> QED
    BY <1>6, <2>1, LinesEmpty DEF Asked
<1> QED
  BY <1>2, <1>3, <1>6, <1>7, <1>8

\* For every device, every payload and every transport that can express it: the
\* device runs the lines that were asked for and no other, in order and once
\* unless net/http has repeated a GET, and all of them if the answer is none of
\* an error and of the text that the headend writes in its place.
THEOREM RunsAsked == Spec => []RunsWhatWasAsked
<1>1. IInv => RunsWhatWasAsked
  <2> SUFFICES ASSUME IInv, Expressible PROVE RunsWhatWasAsked
    BY DEF RunsWhatWasAsked
  <2> DEFINE C == Cmds
             n == Len(C)
             did == WordsOf(ran)
             want == WordsOf(Asked)
             S == {C[i] : i \in 1..n}
  <2>0. Request /\ Counted(C) /\ Staged /\ Honest
    BY DEF IInv
  <2>1. /\ C \in Seq(Line) /\ Asked \in Seq(Line) /\ n = Len(Asked) /\ n \in Nat
        /\ \A i \in 1..n : C[i].words = Asked[i].words
        /\ payload = <<>> => n = 0
    BY <2>0, WantedWords
  <2>2. /\ ran \in Seq(S)
        /\ handler[2].status = "none" => ran = SubSeq(C, 1, Len(ran))
    BY <2>0 DEF Counted
  <2>3. PICK m1 \in 0..n, m2 \in 0..n :
            Did(handler[1], m1, C, via) /\ Did(handler[2], m2, C, via) /\ Len(ran) = m1 + m2
    BY <2>0 DEF Counted
  <2>4. /\ Len(ran) \in Nat /\ DOMAIN ran = 1..Len(ran)
        /\ \A i \in 1..Len(ran) : ran[i] \in S
    <3> HIDE DEF S, n, C
    <3> QED
      BY <2>2, LenProperties, ElementOfSeq
  <2>5. /\ DOMAIN did = 1..Len(ran) /\ Len(did) = Len(ran)
        /\ \A i \in 1..Len(ran) : did[i] = ran[i].words
    <3> HIDE DEF S, n, C
    <3> QED
      BY <2>4 DEF WordsOf
  <2>6. /\ DOMAIN want = 1..n /\ Len(want) = n
        /\ \A i \in 1..n : want[i] = C[i].words
    <3>1. DOMAIN Asked = 1..n
      BY <2>1
    <3> HIDE DEF C, n
    <3> QED
      BY <2>1, <3>1 DEF WordsOf
  <2> HIDE DEF did, want
  <2>7. ASSUME attempt = 1 PROVE m2 = 0 /\ Len(ran) <= n /\ Len(ran) = m1 /\ \A i \in 1..Len(ran) : did[i] = want[i]
    <3>1. m2 = 0 /\ Len(ran) = m1 /\ m1 <= n
      BY <2>0, <2>3, <2>7 DEF Staged, Did
    <3>2. ran = SubSeq(C, 1, Len(ran))
      BY <2>0, <2>2, <2>7 DEF Staged
    <3>3. ASSUME NEW i \in 1..Len(ran) PROVE did[i] = want[i]
      <4>1. i \in 1..n
        BY <2>1, <3>1, <3>3
      <4>2. SubSeq(C, 1, Len(ran))[i] = C[i]
        BY <2>1, <2>4, <3>1
      <4> HIDE DEF C, n
      <4> QED
        BY <2>5, <2>6, <3>2, <3>3, <4>1, <4>2
    <3> QED
      BY <3>1, <3>3
  <2> HIDE DEF S, n, C
  <2>8. ~UsesGet(via, payload) => IsPrefix(did, want)
    <3> SUFFICES ASSUME ~UsesGet(via, payload) PROVE IsPrefix(did, want)
      OBVIOUS
    <3>1. attempt = 1
      BY <2>0 DEF Staged
    <3>2. Len(ran) <= n /\ \A i \in 1..Len(ran) : did[i] = want[i]
      BY <2>7, <3>1
    <3>3. did \in Seq(Seq(Words)) /\ want \in Seq(Seq(Words))
      <4>1. did = [i \in 1..Len(ran) |-> ran[i].words]
        BY <2>4 DEF did, WordsOf
      <4>2. want = [i \in 1..n |-> Asked[i].words]
        BY <2>1, <2>6 DEF want, WordsOf
      <4>3. \A i \in 1..n : Asked[i].words \in Seq(Words) /\ C[i].words \in Seq(Words)
        BY <2>1, LineOf DEF n
      <4>4. \A i \in 1..Len(ran) : ran[i].words \in Seq(Words)
        BY <2>4, <4>3 DEF S
      <4>5. did \in Seq(Seq(Words))
        BY <2>4, <4>1, <4>4
      <4>6. want \in Seq(Seq(Words))
        BY <2>1, <4>2, <4>3
      <4> QED
        BY <4>5, <4>6
    <3>4. SubSeq(did, 1, Len(ran)) = SubSeq(want, 1, Len(ran))
      BY <2>1, <2>4, <2>5, <2>6, <3>2, <3>3
    <3> QED
      BY <2>5, <2>6, <3>2, <3>4 DEF IsPrefix
  <2>9. \A i \in DOMAIN did : did[i] \in ToSet(want)
    <3> SUFFICES ASSUME NEW i \in 1..Len(ran) PROVE did[i] \in ToSet(want)
      BY <2>5
    <3>1. PICK j \in 1..n : ran[i] = C[j]
      BY <2>4 DEF S
    <3>2. did[i] = want[j]
      BY <2>5, <2>6, <3>1
    <3> QED
      BY <2>6, <3>2 DEF ToSet
  <2>10. ASSUME outcome = "ok", answer # Masked
         PROVE  /\ attempt = 1 => Len(ran) = n
                /\ n <= Len(ran) /\ Len(ran) <= 2 * n
    <3>1. attempt \in 1..2
      BY <2>0 DEF Staged
    <3>2. CASE payload = <<>>
      BY <2>1, <2>3, <3>2
    <3>3. CASE handler[attempt].status = "done"
      <4>1. CASE attempt = 1
        <5>1. m1 = n
          BY <2>3, <3>3, <4>1 DEF Did, n
        <5> QED
          BY <2>1, <2>7, <4>1, <5>1
      <4>2. CASE attempt = 2
        <5>1. m2 = n
          BY <2>3, <3>3, <4>2 DEF Did, n
        <5> QED
          BY <2>1, <2>3, <4>2, <5>1
      <4> QED
        BY <3>1, <4>1, <4>2
    <3> QED
      BY <2>0, <2>10, <3>2, <3>3 DEF Honest
  <2>11. ASSUME outcome = "ok", answer # Masked, attempt = 1 PROVE did = want
    <3>1. Len(ran) = n /\ \A i \in 1..n : did[i] = want[i]
      BY <2>7, <2>10, <2>11
    <3>2. did = [i \in 1..n |-> did[i]] /\ want = [i \in 1..n |-> want[i]]
      BY <2>4, <2>5, <2>6, <2>1, <3>1 DEF did, want, WordsOf
    <3> QED
      BY <3>1, <3>2
  <2> QED
    BY <2>5, <2>6, <2>8, <2>9, <2>10, <2>11 DEF RunsWhatWasAsked, did, want
<1> QED
  BY Invariance, <1>1, PTL

\* The answer to a tidy payload is what the device means by each line, whatever
\* the transport and whatever the order in which it goes through its commands.
THEOREM AnswersAlike == Spec => []SameAnswer
<1>1. IInv => SameAnswer
  <2> SUFFICES ASSUME IInv, Expressible, outcome = "ok", answer # Masked, via \notin Silent,
                      \A i \in DOMAIN payload : payload[i].tidy
               PROVE  answer = [i \in DOMAIN Heard |-> Meaning(Heard[i])]
    BY DEF SameAnswer
  <2> DEFINE D == Decoded(via, payload)
  <2>0. Request /\ InPlace(D) /\ Staged /\ Honest
    BY DEF IInv
  <2>1. D = Heard /\ D \in Seq(Line)
    BY <2>0, HeardDecoded, RequestFacts, PayloadsAssumption DEF Request
  <2> HIDE DEF D
  <2>2. DOMAIN Heard = 1..Len(D)
    BY <2>1
  <2>3. CASE handler[attempt].status = "done" /\ answer = IF via \in Silent THEN <<>> ELSE handler[attempt].out
    <3>1. attempt \in 1..2
      BY <2>0 DEF Staged
    <3>2. handler[attempt].out = [i \in 1..Len(D) |-> Meaning(D[i])]
      BY <2>0, <2>3, <3>1 DEF InPlace, Answering
    <3> QED
      BY <2>1, <2>2, <2>3, <3>2
  <2>4. CASE payload = <<>> /\ answer = <<>>
    <3>1. Heard = <<>>
      BY <2>4, LinesEmpty DEF Heard, Asked
    <3>2. DOMAIN Heard = {}
      BY <3>1
    <3>3. [i \in {} |-> Meaning(Heard[i])] = <<>>
      OBVIOUS
    <3> QED
      BY <2>4, <3>2, <3>3
  <2> QED
    BY <2>0, <2>3, <2>4 DEF Honest
<1> QED
  BY Invariance, <1>1, PTL
=============================================================================
