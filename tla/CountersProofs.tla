--------------------------- MODULE CountersProofs ---------------------------
(***************************************************************************)
(* Proofs about Counters: what an iteration may record, for any number of  *)
(* iterations, exchanges, segments and faults, and any handshake.          *)
(***************************************************************************)
EXTENDS Counters, FiniteSetTheorems, FunctionTheorems, TLAPS

Records == [trips : Int, ok : BOOLEAN, note : Notes]

\* The type invariant without the result.
Types ==
    /\ kind \in Kinds
    /\ idx \in 0..Iterations
    /\ pc \in {"begin", "dial", "store", "write", "await", "record", "summarize", "end"}
    /\ sent \in 0..Exchanges
    /\ conn \in {"none", "up", "broken"}
    /\ trips \in Nat
    /\ lastDir \in 0..2
    /\ reader \in {"none", "swap", "count", "read"}
    /\ due \in 0..MaxSegments
    /\ bt \in Nat
    /\ past \in Nat
    /\ faults \in 0..MaxFaults
    /\ note \in Notes
    /\ recorded \in Seq(Records)

\* Where the client is, what it waits for and how far the iteration has come.
Places ==
    /\ due > 0 => pc = "await" /\ conn = "up"
    /\ pc \in {"dial", "store", "write", "await"} => sent < Exchanges
    /\ pc = "begin" => sent = 0
    /\ pc = "record" => sent = Exchanges \/ idx = 0
    /\ pc = "record" => sent > 0
    /\ pc = "dial" /\ kind = "fresh" => sent = 0
    /\ kind \notin OneConn => idx > 0
    /\ conn = "up" /\ kind \notin PerExchange => reader # "none"

\* One record for every iteration that has ended.
Complete ==
    /\ pc \notin {"summarize", "end"} => Len(recorded) = IF idx = 0 THEN 0 ELSE idx - 1
    /\ pc \in {"summarize", "end"} => Len(recorded) = Iterations

\* In the middle of an iteration.
Busy == pc \in {"store", "write", "await", "record"}

\* The request of the exchange at hand is out, or about to be.
Asked == pc \in {"write", "await"}

\* The exchanges of which the response has been returned in full.
Answered == IF pc = "await" /\ due = 0 THEN sent + 1 ELSE sent

\* Trips that the reader will count without a further write or response.
Owed == reader = "count" \/ (reader = "swap" /\ lastDir = 2)

\* Writes that the reader has seen, or will see before the next Store.
Upper ==
    kind \in OneConn /\ ~note.dialled /\ Busy =>
        /\ trips >= bt
        /\ (trips - bt) + (IF reader = "count" THEN 1 ELSE 0)
             + (IF lastDir = 2 /\ (reader = "swap" \/ due > 0 \/ pc = "write") THEN 1 ELSE 0)
           <= sent + 1 + note.extra + (IF Asked THEN 1 ELSE 0)

\* How far the counter may be behind: a request that overtakes the reader in
\* its swap is counted together with the one before.
Behind ==
    IF Asked /\ ~(pc = "await" /\ due = 0)
    THEN IF Owed THEN 2 ELSE IF reader = "read" /\ lastDir = 2 THEN 1 ELSE 0
    ELSE IF Owed \/ reader = "none" THEN 1 ELSE 0

Lower ==
    kind \in OneConn /\ ~note.dialled /\ Busy /\ (Asked => reader # "none") =>
        2 * (trips - bt) + Behind >= sent + (IF Asked THEN 1 ELSE 0)

\* With a reader that keeps up, nothing is lost and nothing is doubled.
Exact ==
    (kind = "fresh" \/ (kind \in OneConn /\ ~note.dialled)) /\ Busy
    /\ ~note.late /\ note.extra = 0 /\ reader # "none" =>
        LET base == IF kind = "fresh" THEN Handshake ELSE bt
        IN  /\ pc = "write" => reader = "read" /\ lastDir = 2 /\ trips = base + sent
            /\ pc = "await" /\ due > 0 =>
                 /\ lastDir = 2 => reader # "count"
                 /\ trips + (IF lastDir = 2 \/ reader = "count" THEN 1 ELSE 0) = base + sent + 1
            /\ pc \in {"store", "record"} \/ (pc = "await" /\ due = 0) =>
                 trips + (IF Owed THEN 1 ELSE 0) = base + Answered

\* A connection per exchange: its own trips, and those of the earlier ones.
PerConn ==
    /\ kind \in PerExchange /\ Busy =>
         /\ trips >= Handshake
         /\ trips + (IF reader = "count" THEN 1 ELSE 0) + (IF lastDir = 2 THEN 1 ELSE 0)
              <= Handshake + (IF pc = "store" THEN 1 ELSE 2)
    /\ kind = "each" /\ pc \in {"dial", "store", "write", "await"} =>
         past \in (sent * Handshake)..(sent * (Handshake + 2))
    /\ kind = "each" /\ pc = "record" =>
         past \in ((sent - 1) * Handshake)..((sent - 1) * (Handshake + 2))

\* With a connection per command, HTTPS fresh-conn records the handshakes of
\* all of them; RESTCONF fresh-conn those of one, however many commands.  Of
\* the request itself the reader counts nothing, once, or twice (the last
\* flight of the handshake and the request).
FreshConnTrips ==
    \A i \in Succeeded :
        /\ kind = "each" => recorded[i].trips \in (Exchanges * Handshake)..(Exchanges * (Handshake + 2))
        /\ kind = "last" => recorded[i].trips \in Handshake..(Handshake + 2)

Numbers == DeltaBounds /\ ExactWhenReaderKeepsUp /\ FreshConnTrips

\* Failed iterations are recorded as zeros, and the median is taken at the end.
Reported ==
    /\ \A i \in DOMAIN recorded : recorded[i].ok \/ recorded[i].trips = 0
    /\ result \in Int
    /\ pc = "end" /\ (\E i \in DOMAIN recorded : recorded[i].ok) =>
         result = medianInts([i \in DOMAIN recorded |-> recorded[i].trips])

IInv == Types /\ Places /\ Complete /\ Upper /\ Lower /\ Exact /\ PerConn /\ Numbers /\ Reported

-----------------------------------------------------------------------------
(* Sorting and the median *)

\* A set of naturals has a least element: induction is written with it.
LEMMA LeastNat ==
    ASSUME NEW T \in SUBSET Nat, T # {}
    PROVE  \E x \in T : \A y \in T : x <= y
<1> DEFINE R == {ss \in Nat \X Nat : ss[1] < ss[2]}
<1>1. IsWellFoundedOn(R, Nat)
  BY NatLessThanWellFounded, Zenon DEF OpToRel
<1>2. PICK x \in T : \A y \in T : ~ (<<y, x>> \in R)
  <2> HIDE DEF R
  <2> QED
    BY <1>1, WFMin
<1>3. ASSUME NEW y \in T PROVE x <= y
  <2>1. <<y, x>> \in Nat \X Nat
    OBVIOUS
  <2>2. ~(y < x)
    BY <1>2, <2>1
  <2> QED
    BY <2>2
<1> QED
  BY <1>3

\* The positions of s in ascending order of its numbers.
Sorts(p, s) == \A i, j \in DOMAIN s : i < j => s[p[i]] <= s[p[j]]

\* One more number is inserted into numbers that are sorted.
LEMMA Insert ==
    ASSUME NEW m \in Nat, NEW s \in [1..(m + 1) -> Int], NEW t, t = [i \in 1..m |-> s[i]],
           NEW p \in Bijection(1..m, 1..m), Sorts(p, t)
    PROVE  \E q \in Bijection(1..(m + 1), 1..(m + 1)) : Sorts(q, s)
<1> DEFINE n == m + 1
<1>1. /\ p \in [1..m -> 1..m]
      /\ \A i, j \in 1..m : p[i] = p[j] => i = j
      /\ \A v \in 1..m : \E i \in 1..m : p[i] = v
  <2>1. p \in Surjection(1..m, 1..m)
    BY Fun_BijectionProperties
  <2>2. \A v \in 1..m : \E i \in 1..m : p[i] = v
    BY <2>1 DEF Surjection
  <2>3. p \in [1..m -> 1..m] /\ \A i, j \in 1..m : p[i] = p[j] => i = j
    BY DEF Bijection, Injection, IsInjective
  <2> QED
    BY <2>2, <2>3
<1>0. \A i \in 1..m : p[i] \in 1..m /\ p[i] \in 1..n /\ s[p[i]] \in Int
  <2>1. 1..m \subseteq 1..n
    OBVIOUS
  <2> QED
    BY <1>1, <2>1
<1>2. \A i, j \in 1..m : i < j => s[p[i]] <= s[p[j]]
  BY <1>1 DEF Sorts
<1> DEFINE K == {k \in 1..n : k = n \/ s[p[k]] > s[n]}
<1>3. PICK k \in K : \A l \in K : k <= l
  <2>1. n \in K
    OBVIOUS
  <2>2. K \in SUBSET Nat
    OBVIOUS
  <2> HIDE DEF K
  <2> QED
    BY <2>1, <2>2, LeastNat
<1>4. /\ k \in 1..n
      /\ \A i \in 1..m : i < k => s[p[i]] <= s[n]
      /\ \A i \in 1..m : i >= k => s[p[i]] > s[n]
  <2>1. k \in 1..n
    BY <1>3
  <2>2. ASSUME NEW i \in 1..m, i < k PROVE s[p[i]] <= s[n]
    <3>1. i \notin K
      BY <1>3, <2>1, <2>2
    <3>2. s[p[i]] \in Int /\ s[n] \in Int
      BY <1>1
    <3> QED
      BY <3>1, <3>2
  <2>3. ASSUME NEW i \in 1..m, i >= k PROVE s[p[i]] > s[n]
    <3>1. k \in 1..m /\ s[p[k]] > s[n]
      BY <1>3, <2>1, <2>3
    <3>2. s[p[k]] <= s[p[i]]
      <4>1. CASE k < i
        BY <1>2, <3>1, <4>1
      <4>2. CASE k = i
        BY <1>0, <4>2
      <4> QED
        BY <2>3, <3>1, <4>1, <4>2
    <3>3. s[p[i]] \in Int /\ s[n] \in Int /\ s[p[k]] \in Int
      BY <1>0, <3>1
    <3> QED
      BY <3>1, <3>2, <3>3
  <2> QED
    BY <2>1, <2>2, <2>3
<1> HIDE DEF K
<1> DEFINE q == [i \in 1..n |-> IF i < k THEN p[i] ELSE IF i = k THEN n ELSE p[i - 1]]
<1>5. q \in [1..n -> 1..n]
  <2> SUFFICES ASSUME NEW i \in 1..n PROVE (IF i < k THEN p[i] ELSE IF i = k THEN n ELSE p[i - 1]) \in 1..n
    OBVIOUS
  <2>1. (i < k => i \in 1..m) /\ (i > k => i - 1 \in 1..m) /\ n \in 1..n
    BY <1>4
  <2> QED
    BY <1>0, <1>4, <2>1
<1>6. \A i, j \in 1..n : q[i] = q[j] => i = j
  <2> SUFFICES ASSUME NEW i \in 1..n, NEW j \in 1..n, q[i] = q[j] PROVE i = j
    OBVIOUS
  <2>1. \A h \in 1..n : /\ h < k => h \in 1..m /\ q[h] = p[h]
                        /\ h = k => q[h] = n
                        /\ h > k => h - 1 \in 1..m /\ q[h] = p[h - 1]
    BY <1>4
  <2>2. \A h \in 1..m : p[h] # n
    BY <1>0
  <2> HIDE DEF q
  <2>3. CASE i < k /\ j < k
    BY <1>1, <2>1, <2>3
  <2>4. CASE i < k /\ j > k
    <3>1. i = j - 1
      BY <1>1, <2>1, <2>4
    <3> QED
      BY <1>4, <2>4, <3>1
  <2>5. CASE i > k /\ j < k
    <3>1. i - 1 = j
      BY <1>1, <2>1, <2>5
    <3> QED
      BY <1>4, <2>5, <3>1
  <2>6. CASE i > k /\ j > k
    <3>1. i - 1 = j - 1
      BY <1>1, <2>1, <2>6
    <3> QED
      BY <3>1
  <2>7. CASE i = k \/ j = k
    BY <1>4, <2>1, <2>2, <2>7
  <2> QED
    BY <1>4, <2>3, <2>4, <2>5, <2>6, <2>7
<1>7. \A v \in 1..n : \E i \in 1..n : q[i] = v
  <2> SUFFICES ASSUME NEW v \in 1..n PROVE \E i \in 1..n : q[i] = v
    OBVIOUS
  <2>1. CASE v = n
    BY <1>4, <2>1
  <2>2. CASE v # n
    <3>1. PICK j \in 1..m : p[j] = v
      BY <1>1, <2>2
    <3>2. CASE j < k
      BY <1>4, <3>1, <3>2
    <3>3. CASE j >= k
      <4>1. j + 1 \in 1..n /\ q[j + 1] = v
        BY <1>4, <3>1, <3>3
      <4> QED
        BY <4>1
    <3> QED
      BY <1>4, <3>2, <3>3
  <2> QED
    BY <2>1, <2>2
<1>8. q \in Bijection(1..n, 1..n)
  <2> HIDE DEF q
  <2> QED
    BY <1>5, <1>6, <1>7, Fun_IsBij
<1>9. Sorts(q, s)
  <2> SUFFICES ASSUME NEW i \in 1..n, NEW j \in 1..n, i < j PROVE s[q[i]] <= s[q[j]]
    BY DEF Sorts
  <2>1. \A h \in 1..m : s[p[h]] \in Int
    BY <1>0
  <2>2. s[n] \in Int
    OBVIOUS
  <2>3. CASE j < k
    BY <1>2, <1>4, <2>3
  <2>4. CASE j = k
    BY <1>4, <2>4
  <2>5. CASE i < k /\ k < j
    <3>1. i \in 1..m /\ j - 1 \in 1..m /\ q[i] = p[i] /\ q[j] = p[j - 1]
      BY <1>4, <2>5
    <3>2. i < j - 1 \/ i = j - 1
      BY <1>4, <2>5
    <3> QED
      <4>1. CASE i < j - 1
        BY <1>2, <3>1, <4>1
      <4>2. CASE i = j - 1
        <5>1. q[i] = q[j]
          BY <3>1, <4>2
        <5>2. s[q[j]] \in Int
          BY <2>1, <3>1
        <5> HIDE DEF q
        <5> QED
          BY <5>1, <5>2
      <4> QED
        BY <3>2, <4>1, <4>2
  <2>6. CASE i = k
    <3>1. j - 1 \in 1..m /\ q[i] = n /\ q[j] = p[j - 1] /\ j - 1 >= k
      BY <1>4, <2>6
    <3> HIDE DEF q
    <3> QED
      BY <1>4, <2>1, <2>2, <3>1
  <2>7. CASE k < i
    <3>1. i - 1 \in 1..m /\ j - 1 \in 1..m /\ q[i] = p[i - 1] /\ q[j] = p[j - 1] /\ i - 1 < j - 1
      BY <1>4, <2>7
    <3> QED
      BY <1>2, <3>1
  <2> QED
    BY <1>4, <2>3, <2>4, <2>5, <2>6, <2>7
<1> QED
  BY <1>8, <1>9

\* Any numbers can be sorted.
LEMMA Sortable ==
    ASSUME NEW N \in Nat, NEW f \in [1..N -> Int]
    PROVE  \E p \in Bijection(1..N, 1..N) : Sorts(p, f)
<1> DEFINE P(n) == \A s \in [1..n -> Int] : \E p \in Bijection(1..n, 1..n) : Sorts(p, s)
           Bad == {n \in Nat : ~P(n)}
<1>1. SUFFICES Bad = {}
  <2>1. P(N)
    BY <1>1
  <2> QED
    BY <2>1
<1>2. SUFFICES ASSUME Bad # {} PROVE FALSE
  OBVIOUS
<1>3. PICK n \in Bad : \A l \in Bad : n <= l
  <2>1. Bad \in SUBSET Nat
    OBVIOUS
  <2> HIDE DEF Bad
  <2> QED
    BY <1>2, <2>1, LeastNat
<1>4. n \in Nat /\ ~P(n)
  BY <1>3
<1>5. n # 0
  <2>1. SUFFICES P(0)
    BY <1>4
  <2> SUFFICES ASSUME NEW s \in [1..0 -> Int] PROVE \E p \in Bijection(1..0, 1..0) : Sorts(p, s)
    OBVIOUS
  <2>2. s \in Bijection(1..0, 1..0)
    <3>1. 1..0 = {}
      OBVIOUS
    <3>2. s \in [1..0 -> 1..0] /\ (\A a, b \in 1..0 : s[a] = s[b] => a = b) /\ (\A v \in 1..0 : \E a \in 1..0 : s[a] = v)
      BY <3>1
    <3> QED
      BY <3>2, Fun_IsBij
  <2>3. Sorts(s, s)
    BY DEF Sorts
  <2> QED
    BY <2>2, <2>3
<1>6. n - 1 \in Nat /\ P(n - 1)
  <2>1. n - 1 \in Nat /\ n - 1 < n
    BY <1>4, <1>5
  <2>2. n - 1 \notin Bad
    <3> HIDE DEF Bad
    <3> QED
      BY <1>3, <1>4, <2>1
  <2> QED
    BY <2>1, <2>2
<1>7. P(n)
  <2> SUFFICES ASSUME NEW s \in [1..n -> Int] PROVE \E q \in Bijection(1..n, 1..n) : Sorts(q, s)
    OBVIOUS
  <2> DEFINE m == n - 1
             t == [i \in 1..m |-> s[i]]
  <2>1. m \in Nat /\ m + 1 = n
    BY <1>4, <1>6
  <2>2. t \in [1..m -> Int]
    BY <2>1
  <2>3. PICK p \in Bijection(1..m, 1..m) : Sorts(p, t)
    BY <1>6, <2>2
  <2> QED
    BY <2>1, <2>3, Insert
<1> QED
  BY <1>4, <1>7

\* sortInts returns the numbers it is given, in ascending order.
LEMMA SortedInts ==
    ASSUME NEW n \in Nat, NEW s \in [1..n -> Int]
    PROVE  \E p \in Bijection(1..n, 1..n) :
               /\ sortInts(s) = [i \in 1..n |-> s[p[i]]]
               /\ \A i, j \in 1..n : i <= j => sortInts(s)[i] <= sortInts(s)[j]
<1>1. DOMAIN s = 1..n
  OBVIOUS
<1> DEFINE p == CHOOSE q \in Bijection(DOMAIN s, DOMAIN s) :
                    \A i, j \in DOMAIN s : i < j => s[q[i]] <= s[q[j]]
<1>2. p \in Bijection(1..n, 1..n) /\ Sorts(p, s)
  <2>1. \E q \in Bijection(DOMAIN s, DOMAIN s) : \A i, j \in DOMAIN s : i < j => s[q[i]] <= s[q[j]]
    BY <1>1, Sortable DEF Sorts
  <2>2. p \in Bijection(DOMAIN s, DOMAIN s) /\ \A i, j \in DOMAIN s : i < j => s[p[i]] <= s[p[j]]
    BY <2>1, Zenon
  <2> QED
    BY <1>1, <2>2 DEF Sorts
<1>3. sortInts(s) = [i \in 1..n |-> s[p[i]]]
  BY <1>1 DEF sortInts
<1> HIDE DEF p
<1>4. p \in [1..n -> 1..n]
  BY <1>2 DEF Bijection, Injection
<1>5. ASSUME NEW i \in 1..n, NEW j \in 1..n, i <= j PROVE sortInts(s)[i] <= sortInts(s)[j]
  <2>1. sortInts(s)[i] = s[p[i]] /\ sortInts(s)[j] = s[p[j]] /\ s[p[i]] \in Int /\ s[p[j]] \in Int
    BY <1>3, <1>4
  <2>2. CASE i < j
    BY <1>1, <1>2, <2>1, <2>2 DEF Sorts
  <2>3. CASE i = j
    BY <2>1, <2>3
  <2> QED
    BY <1>5, <2>2, <2>3
<1> QED
  BY <1>2, <1>3, <1>5

\* The images of an interval are as many as its elements.
Images(p, a, b) == {p[i] : i \in a..b}

\* The indices that a permutation has at places a to b: as many as there are places.
LEMMA ImageCardinality ==
    ASSUME NEW n \in Nat, NEW p \in Bijection(1..n, 1..n), NEW a \in 1..n, NEW b \in 1..n, a <= b
    PROVE  /\ Images(p, a, b) \subseteq 1..n
           /\ Cardinality(Images(p, a, b)) = b - a + 1
<1>1. p \in [1..n -> 1..n] /\ \A i, j \in 1..n : p[i] = p[j] => i = j
  BY DEF Bijection, Injection, IsInjective
<1>2. a..b \subseteq 1..n
  OBVIOUS
<1> DEFINE T == Images(p, a, b)
           f == [i \in a..b |-> p[i]]
<1>3. f \in Bijection(a..b, T)
  <2>1. f \in [a..b -> T] /\ \A i, j \in a..b : f[i] = f[j] => i = j
    BY <1>1, <1>2 DEF Images
  <2>2. \A v \in T : \E i \in a..b : f[i] = v
    BY DEF Images
  <2> HIDE DEF f, T
  <2> QED
    BY <2>1, <2>2, Fun_IsBij
<1>4. IsFiniteSet(a..b) /\ Cardinality(a..b) = b - a + 1
  BY FS_Interval
<1>5. T \subseteq 1..n
  BY <1>1, <1>2 DEF Images
<1> HIDE DEF T, f
<1>6. IsFiniteSet(T) /\ Cardinality(T) = Cardinality(a..b)
  BY <1>3, <1>4, FS_Bijection DEF ExistsBijection
<1> QED
  BY <1>4, <1>5, <1>6 DEF T

\* The median is a number between two members of any majority; that Go's / rounds
\* towards zero does no harm, whatever the signs.
LEMMA MedianOfMajority ==
    ASSUME NEW n \in Nat \ {0}, NEW s \in Seq(Int), Len(s) = n
    PROVE  /\ medianInts(s) \in Int
           /\ \A G \in SUBSET (1..n) :
                2 * Cardinality(G) > n =>
                    /\ \E g \in G : s[g] <= medianInts(s)
                    /\ \E g \in G : medianInts(s) <= s[g]
<1>1. s \in [1..n -> Int]
  OBVIOUS
<1> DEFINE c == sortInts(s)
           med == medianInts(s)
           h == n \div 2
<1>2. PICK p \in Bijection(1..n, 1..n) : /\ c = [i \in 1..n |-> s[p[i]]]
                                        /\ \A i, j \in 1..n : i <= j => c[i] <= c[j]
  BY <1>1, SortedInts
<1>3. p \in [1..n -> 1..n]
  BY DEF Bijection, Injection
<1>4. \A i \in 1..n : c[i] = s[p[i]] /\ c[i] \in Int
  BY <1>1, <1>2, <1>3
<1>5. med = IF n % 2 = 1 THEN c[h + 1] ELSE Half(c[h] + c[h + 1])
  BY DEF medianInts
<1> HIDE DEF c, med
<1>6. /\ h \in Nat
      /\ n % 2 = 1 => n = 2 * h + 1 /\ h + 1 \in 1..n
      /\ n % 2 # 1 => n = 2 * h /\ h \in 1..n /\ h + 1 \in 1..n
  OBVIOUS
<1> HIDE DEF h
<1>7. med \in Int
  <2>1. CASE n % 2 = 1
    BY <1>4, <1>5, <1>6, <2>1
  <2>2. CASE n % 2 # 1
    <3>1. c[h] \in Int /\ c[h + 1] \in Int
      BY <1>4, <1>6, <2>2
    <3>2. Half(c[h] + c[h + 1]) \in Int
      BY <3>1 DEF Half
    <3> QED
      BY <1>5, <2>2, <3>2
  <2> QED
    BY <2>1, <2>2
<1>8. ASSUME NEW G \in SUBSET (1..n), 2 * Cardinality(G) > n
      PROVE  /\ \E g \in G : s[g] <= med
             /\ \E g \in G : med <= s[g]
  <2> DEFINE k == IF n % 2 = 1 THEN h + 1 ELSE h
  <2>1. k \in 1..n /\ h + 1 \in 1..n /\ Cardinality(G) + k > n /\ n - h >= k
    <3>1. IsFiniteSet(G) /\ Cardinality(G) \in Nat
      <4>1. IsFiniteSet(1..n)
        BY FS_Interval
      <4>2. IsFiniteSet(G)
        BY <4>1, FS_Subset
      <4> QED
        BY <4>2, FS_CardinalityType
    <3> QED
      BY <1>6, <1>8, <3>1
  <2>2. c[k] <= med /\ med <= c[h + 1]
    <3>1. CASE n % 2 = 1
      BY <1>4, <1>5, <1>6, <3>1
    <3>2. CASE n % 2 # 1
      <4>1. c[h] \in Int /\ c[h + 1] \in Int /\ c[h] <= c[h + 1]
        <5>1. h \in 1..n /\ h + 1 \in 1..n /\ h <= h + 1
          BY <1>6, <3>2
        <5> QED
          BY <1>2, <1>4, <5>1
      <4>2. c[h] <= Half(c[h] + c[h + 1]) /\ Half(c[h] + c[h + 1]) <= c[h + 1]
        BY <4>1 DEF Half
      <4> QED
        BY <1>5, <3>2, <4>2
    <3> QED
      BY <3>1, <3>2
  <2> HIDE DEF k
  <2> DEFINE L == Images(p, 1, k)
             U == Images(p, h + 1, n)
  <2>3. L \subseteq 1..n /\ Cardinality(L) = k
    <3>1. n \in Nat /\ 1 \in 1..n /\ 1 <= k /\ k - 1 + 1 = k
      BY <2>1
    <3>2. L \subseteq 1..n /\ Cardinality(L) = k - 1 + 1
      BY <2>1, <3>1, ImageCardinality
    <3> QED
      BY <3>1, <3>2
  <2>4. U \subseteq 1..n /\ Cardinality(U) = n - h
    <3>1. n \in Nat /\ n \in 1..n /\ h + 1 <= n /\ n - (h + 1) + 1 = n - h
      BY <1>6, <2>1
    <3>2. U \subseteq 1..n /\ Cardinality(U) = n - (h + 1) + 1
      BY <2>1, <3>1, ImageCardinality
    <3> QED
      BY <3>1, <3>2
  <2>5. PICK g \in G : g \in L
    <3> HIDE DEF L
    <3>1. IsFiniteSet(1..n) /\ Cardinality(1..n) = n
      BY FS_Interval
    <3>2. G \cap L # {}
      BY <2>1, <2>3, <3>1, FS_MajoritiesIntersect
    <3> QED
      BY <3>2
  <2>6. PICK u \in G : u \in U
    <3> HIDE DEF U
    <3>1. IsFiniteSet(1..n) /\ Cardinality(1..n) = n
      BY FS_Interval
    <3>2. Cardinality(G) \in Nat
      BY <3>1, FS_Subset, FS_CardinalityType
    <3>3. Cardinality(G) + Cardinality(U) > n
      BY <1>6, <2>1, <2>4, <3>2
    <3>4. G \cap U # {}
      BY <2>4, <3>1, <3>3, FS_MajoritiesIntersect
    <3> QED
      BY <3>4
  <2>7. s[g] <= med
    <3>1. PICK i \in 1..k : g = p[i]
      BY <2>5 DEF Images
    <3>2. i \in 1..n /\ i <= k
      BY <2>1, <3>1
    <3>3. s[g] = c[i] /\ c[i] \in Int /\ c[k] \in Int /\ c[i] <= c[k]
      BY <1>2, <1>4, <2>1, <3>1, <3>2
    <3> QED
      BY <1>7, <2>2, <3>3
  <2>8. med <= s[u]
    <3>1. PICK i \in (h + 1)..n : u = p[i]
      BY <2>6 DEF Images
    <3>2. i \in 1..n /\ h + 1 <= i
      BY <1>6, <2>1, <3>1
    <3>3. s[u] = c[i] /\ c[i] \in Int /\ c[h + 1] \in Int /\ c[h + 1] <= c[i]
      BY <1>2, <1>4, <2>1, <3>1, <3>2
    <3> QED
      BY <1>7, <2>2, <3>3
  <2> QED
    BY <2>7, <2>8
<1> QED
  BY <1>7, <1>8 DEF med

-----------------------------------------------------------------------------
(* The inductive invariant *)

\* A note that is amended stays a note, and keeps its other fields.
LEMMA LateNote ==
    ASSUME note \in Notes
    PROVE  /\ Late \in Notes
           /\ Late.extra = note.extra
           /\ Late.dialled = note.dialled
           /\ Late.late <=> note.late \/ reader # "read"
<1>1. (note.late \/ reader # "read") \in BOOLEAN
  BY DEF Notes
<1> QED
  BY <1>1 DEF Late, Notes

\* The state before the first dial satisfies the invariant.
LEMMA InitIInv == Init => IInv
<1> SUFFICES ASSUME Init PROVE IInv
  OBVIOUS
<1> USE IterationsAssumption, ExchangesAssumption, HandshakeAssumption, BoundsAssumption
<1> USE DEF Init, Kinds, OneConn, PerExchange
<1>1. note \in Notes
  BY Zenon DEF NoNote, Notes
<1>2. Types
  BY <1>1 DEF Types
<1>3. Places /\ Complete
  BY DEF Places, Complete
<1>4. Upper /\ Lower /\ Exact /\ PerConn
  BY DEF Upper, Lower, Exact, PerConn, Busy
<1>5. Numbers
  BY DEF Numbers, DeltaBounds, ExactWhenReaderKeepsUp, FreshConnTrips, Succeeded
<1>6. Reported
  BY DEF Reported
<1> QED
  BY <1>2, <1>3, <1>4, <1>5, <1>6 DEF IInv

\* What each action does to the note.
LEMMA StoreNote ==
    ASSUME note \in Notes, Store
    PROVE  /\ note' \in Notes
           /\ note'.extra = note.extra
           /\ note'.dialled <=> note.dialled
           /\ note'.late <=> note.late \/ reader # "read"
  BY LateNote DEF Store

\* A write of the protocol is noted, and nothing else about the iteration.
LEMMA ProtocolWriteNote ==
    ASSUME note \in Notes, ProtocolWrite
    PROVE  /\ note' \in Notes
           /\ note'.extra = note.extra + 1
           /\ note'.dialled <=> note.dialled
           /\ note'.late <=> note.late
<1>1. note' = [note EXCEPT !.extra = note.extra + 1]
  BY DEF ProtocolWrite
<1>2. note.extra + 1 \in Nat
  BY DEF Notes
<1> QED
  BY <1>1, <1>2, Zenon DEF Notes

\* A dial is noted.
LEMMA DialNote ==
    ASSUME note \in Notes, Dial
    PROVE  /\ note' \in Notes
           /\ note'.extra = note.extra
           /\ note'.dialled
           /\ note'.late <=> note.late \/ lastDir' = 2
<1>1. note' = [note EXCEPT !.dialled = TRUE, !.late = note.late \/ lastDir' = 2, !.unused = TRUE]
  BY DEF Dial
<1>2. (note.late \/ lastDir' = 2) \in BOOLEAN
  BY DEF Notes
<1> QED
  BY <1>1, <1>2, Zenon DEF Notes

\* An answer changes nothing but that the connection is not new any more.
LEMMA ReplyNote ==
    ASSUME note \in Notes, Reply
    PROVE  /\ note' \in Notes
           /\ note'.extra = note.extra
           /\ note'.dialled <=> note.dialled
           /\ note'.late <=> note.late
<1>1. note' = [note EXCEPT !.unused = FALSE]
  BY DEF Reply
<1> QED
  BY <1>1, Zenon DEF Notes

\* An iteration starts with a fresh note.
LEMMA BeginNote ==
    ASSUME Begin
    PROVE  /\ note' \in Notes
           /\ note'.extra = 0
           /\ ~note'.dialled
           /\ note'.late <=> kind \in OneConn /\ reader # "read"
<1>1. note' = [NoNote EXCEPT !.late = kind \in OneConn /\ reader # "read"]
  BY DEF Begin
<1>2. (kind \in OneConn /\ reader # "read") \in BOOLEAN
  OBVIOUS
<1>3. NoNote \in Notes
  BY Zenon DEF Notes, NoNote
<1> QED
  BY <1>1, <1>2, <1>3, Zenon DEF Notes, NoNote

\* Every step keeps the type of the note.
LEMMA NoteStep ==
    ASSUME Types, [Next]_vars
    PROVE  note' \in Notes
<1>1. note \in Notes
  BY DEF Types
<1>2. CASE Store \/ ProtocolWrite \/ Dial \/ Begin \/ Reply
  BY <1>1, <1>2, StoreNote, ProtocolWriteNote, DialNote, BeginNote, ReplyNote
<1>3. CASE UNCHANGED note
  BY <1>1, <1>3
<1> QED
  BY <1>2, <1>3 DEF Next, Reader, Client, Ended, ReadSwap, ReadCount, ReadReturns, Write, Break, Redial,
     Record, Fail, Summarize, vars

\* What an iteration that ends leaves behind.
LEMMA RecordedStep ==
    ASSUME Types, Complete, [Next]_vars
    PROVE  /\ recorded' \in Seq(Records)
           /\ Complete'
<1> USE IterationsAssumption DEF Types, Complete
<1>0. recorded \in Seq(Records) /\ Len(recorded) \in Nat
  OBVIOUS
<1>1. CASE Record
  <2>1. [trips |-> Trips, ok |-> TRUE, note |-> Late] \in Records
    <3>1. Trips \in Int
      BY DEF Trips
    <3> QED
      BY <3>1, LateNote DEF Records
  <2> DEFINE r == [trips |-> Trips, ok |-> TRUE, note |-> Late]
  <2>2. recorded' = IF idx = 0 THEN recorded ELSE Append(recorded, r)
    BY <1>1 DEF Record
  <2>3. pc = "record" /\ NextIteration
    BY <1>1 DEF Record
  <2> HIDE DEF r
  <2>4. r \in Records
    BY <2>1 DEF r
  <2> QED
    BY <2>2, <2>3, <2>4 DEF NextIteration
<1>2. CASE Fail
  <2> DEFINE r == [trips |-> 0, ok |-> FALSE, note |-> note]
  <2>1. r \in Records
    BY DEF Records
  <2>2. recorded' = IF idx = 0 THEN recorded ELSE Append(recorded, r)
    BY <1>2 DEF Fail
  <2>3. pc \notin {"summarize", "end"} /\ NextIteration
    BY <1>2 DEF Fail
  <2> HIDE DEF r
  <2> QED
    BY <2>1, <2>2, <2>3 DEF NextIteration
<1>3. CASE Summarize
  BY <1>3 DEF Summarize
<1>4. CASE UNCHANGED <<recorded, idx>> /\ (pc' = pc \/ (pc \notin {"summarize", "end"} /\ pc' \notin {"summarize", "end"}))
  BY <1>4
<1> QED
  BY <1>1, <1>2, <1>3, <1>4 DEF Next, Reader, Client, ReadSwap, ReadCount, ReadReturns, Store, Write,
     Dial, Redial, Begin, Reply, ProtocolWrite, Break, Ended, vars

\* Every step keeps the types.
LEMMA TypesStep ==
    ASSUME Types, Places, Complete, [Next]_vars
    PROVE  Types'
<1> USE IterationsAssumption, ExchangesAssumption, HandshakeAssumption, BoundsAssumption DEF Types, wire
<1>0. note' \in Notes /\ recorded' \in Seq(Records)
  BY NoteStep, RecordedStep
<1>1. CASE ReadSwap
  BY <1>0, <1>1 DEF ReadSwap
<1>10. CASE ReadCount
  BY <1>0, <1>10 DEF ReadCount
<1>11. CASE ReadReturns
  BY <1>0, <1>11 DEF ReadReturns
<1>2. CASE Store
  BY <1>0, <1>2 DEF Store
<1>12. CASE Write
  BY <1>0, <1>12 DEF Write
<1>13. CASE Redial
  BY <1>0, <1>13 DEF Redial
<1>14. CASE Begin
  BY <1>0, <1>14 DEF Begin
<1>7. CASE Dial
  BY <1>0, <1>7 DEF Dial
<1>3. CASE Reply
  BY <1>0, <1>3 DEF Reply, Places
<1>4. CASE Record
  <2>1. NextIteration /\ UNCHANGED <<kind, conn, trips, lastDir, reader, due, bt, past, faults>>
    BY <1>4 DEF Record
  <2> QED
    BY <1>0, <2>1 DEF NextIteration
<1>9. CASE Summarize
  BY <1>0, <1>9 DEF Summarize
<1>8. CASE Fail
  BY <1>0, <1>8 DEF Fail, NextIteration
<1>5. CASE ProtocolWrite
  BY <1>0, <1>5 DEF ProtocolWrite
<1>15. CASE Break
  BY <1>0, <1>15 DEF Break
<1>6. CASE Ended \/ UNCHANGED vars
  BY <1>6 DEF Ended, vars
<1> QED
  BY <1>1, <1>2, <1>3, <1>4, <1>5, <1>6, <1>7, <1>8, <1>9, <1>10, <1>11, <1>12, <1>13, <1>14, <1>15, Zenon
     DEF Next, Client, Reader

\* Every step keeps the places.
LEMMA PlacesStep ==
    ASSUME Types, Places, [Next]_vars
    PROVE  Places'
<1> USE IterationsAssumption, ExchangesAssumption, HandshakeAssumption, BoundsAssumption
<1> USE DEF Types, Places, wire, Kinds, OneConn, PerExchange
<1>1. CASE Reader
  BY <1>1 DEF Reader, ReadSwap, ReadCount, ReadReturns
<1>2. CASE Store \/ Write \/ Redial
  BY <1>2 DEF Store, Write, Redial
<1>8. CASE Dial
  BY <1>8 DEF Dial
<1>9. CASE Begin
  BY <1>9 DEF Begin
<1>3. CASE Reply
  BY <1>3 DEF Reply
<1>4. CASE Record
  BY <1>4 DEF Record, NextIteration
<1>10. CASE Summarize
  BY <1>10 DEF Summarize
<1>5. CASE Fail
  BY <1>5 DEF Fail, NextIteration
<1>6. CASE ProtocolWrite
  BY <1>6 DEF ProtocolWrite
<1>11. CASE Break
  BY <1>11 DEF Break
<1>7. CASE Ended \/ UNCHANGED vars
  BY <1>7 DEF Ended, vars
<1> QED
  BY <1>1, <1>2, <1>3, <1>4, <1>5, <1>6, <1>7, <1>8, <1>9, <1>10, <1>11, Zenon DEF Next, Client

\* No step counts more than has been written.
LEMMA UpperStep ==
    ASSUME Types, Places, Upper, [Next]_vars
    PROVE  Upper'
<1> USE IterationsAssumption, ExchangesAssumption, HandshakeAssumption, BoundsAssumption
<1> USE DEF Types, Places, Upper, Busy, Asked, wire, Kinds, OneConn, PerExchange
<1>0. note.extra \in Nat
  BY DEF Notes
<1>1. CASE ReadSwap
  BY <1>1 DEF ReadSwap
<1>2. CASE ReadCount
  BY <1>2 DEF ReadCount
<1>3. CASE ReadReturns
  BY <1>3 DEF ReadReturns
<1>4. CASE Store
  BY <1>0, <1>4, StoreNote DEF Store
<1>5. CASE Write
  BY <1>5 DEF Write
<1>6. CASE Dial
  BY <1>6, DialNote DEF Dial
<1>7. CASE Redial
  BY <1>7 DEF Redial
<1>8. CASE Begin
  BY <1>8, BeginNote DEF Begin
<1>9. CASE Reply
  <2>1. /\ pc = "await" /\ due = 0 /\ sent' = sent + 1
        /\ pc' \in {"record", "dial", "store"}
        /\ UNCHANGED <<kind, trips, lastDir, reader, due, bt>>
    BY <1>9 DEF Reply
  <2>2. note'.extra = note.extra /\ (note'.dialled <=> note.dialled)
    BY <1>9, ReplyNote
  <2> QED
    BY <1>0, <2>1, <2>2
<1>10. CASE Record \/ Fail \/ Summarize
  BY <1>10 DEF Record, Fail, Summarize, NextIteration
<1>11. CASE ProtocolWrite
  <2>1. /\ lastDir' = 2
        /\ UNCHANGED <<kind, pc, sent, trips, reader, due, bt>>
    BY <1>11 DEF ProtocolWrite
  <2>2. note'.extra = note.extra + 1 /\ (note'.dialled <=> note.dialled)
    BY <1>11, ProtocolWriteNote
  <2> QED
    BY <1>0, <2>1, <2>2
<1>12. CASE Break
  BY <1>0, <1>12 DEF Break
<1>13. CASE Ended \/ UNCHANGED vars
  BY <1>13 DEF Ended, vars
<1> QED
  BY <1>1, <1>2, <1>3, <1>4, <1>5, <1>6, <1>7, <1>8, <1>9, <1>10, <1>11, <1>12, <1>13 DEF Next, Reader, Client

\* No step falls further behind than one exchange in two.
LEMMA LowerStep ==
    ASSUME Types, Places, Lower, [Next]_vars
    PROVE  Lower'
<1> USE IterationsAssumption, ExchangesAssumption, HandshakeAssumption, BoundsAssumption
<1> USE DEF Types, Places, Lower, Busy, Asked, Owed, Behind, wire, Kinds, OneConn, PerExchange
<1>1. CASE ReadSwap
  BY <1>1 DEF ReadSwap
<1>2. CASE ReadCount
  BY <1>2 DEF ReadCount
<1>3. CASE ReadReturns
  BY <1>3 DEF ReadReturns
<1>4. CASE Store
  BY <1>4, StoreNote DEF Store
<1>5. CASE Write
  BY <1>5 DEF Write
<1>6. CASE Dial
  BY <1>6, DialNote DEF Dial
<1>7. CASE Redial
  BY <1>7 DEF Redial
<1>8. CASE Begin
  BY <1>8, BeginNote DEF Begin
<1>9. CASE Reply
  BY <1>9, ReplyNote DEF Reply
<1>10. CASE Record \/ Fail \/ Summarize
  BY <1>10 DEF Record, Fail, Summarize, NextIteration
<1>11. CASE ProtocolWrite
  <2>1. /\ lastDir' = 2
        /\ UNCHANGED <<kind, pc, sent, conn, trips, reader, due, bt>>
    BY <1>11 DEF ProtocolWrite
  <2>2. note'.extra = note.extra + 1 /\ (note'.dialled <=> note.dialled)
    BY <1>11, ProtocolWriteNote
  <2> QED
    BY <2>1, <2>2
<1>12. CASE Break
  BY <1>12 DEF Break
<1>13. CASE Ended \/ UNCHANGED vars
  BY <1>13 DEF Ended, vars
<1> QED
  BY <1>1, <1>2, <1>3, <1>4, <1>5, <1>6, <1>7, <1>8, <1>9, <1>10, <1>11, <1>12, <1>13 DEF Next, Reader, Client

\* A reader that keeps up stays exact.
LEMMA ExactStep ==
    ASSUME Types, Places, Exact, [Next]_vars
    PROVE  Exact'
<1> USE IterationsAssumption, ExchangesAssumption, HandshakeAssumption, BoundsAssumption
<1> USE DEF Types, Places, Exact, Busy, Owed, Answered, wire, Kinds, OneConn, PerExchange
<1>1. CASE ReadSwap
  BY <1>1 DEF ReadSwap
<1>2. CASE ReadCount
  BY <1>2 DEF ReadCount
<1>3. CASE ReadReturns
  BY <1>3 DEF ReadReturns
<1>4. CASE Store
  BY <1>4, StoreNote DEF Store
<1>5. CASE Write
  BY <1>5 DEF Write
<1>6. CASE Dial
  BY <1>6, DialNote DEF Dial
<1>7. CASE Redial
  BY <1>7 DEF Redial
<1>8. CASE Begin
  BY <1>8, BeginNote DEF Begin
<1>9. CASE Reply
  BY <1>9, ReplyNote DEF Reply
<1>10. CASE Record \/ Fail \/ Summarize
  BY <1>10 DEF Record, Fail, Summarize, NextIteration
<1>11. CASE ProtocolWrite
  <2>1. note'.extra # 0
    BY <1>11, ProtocolWriteNote DEF Notes
  <2> QED
    BY <2>1
<1>12. CASE Break
  BY <1>12 DEF Break
<1>13. CASE Ended \/ UNCHANGED vars
  <2>1. UNCHANGED <<kind, pc, sent, trips, lastDir, reader, due, bt, note>>
    BY <1>13 DEF Ended, vars
  <2> QED
    BY <2>1
<1> QED
  BY <1>1, <1>2, <1>3, <1>4, <1>5, <1>6, <1>7, <1>8, <1>9, <1>10, <1>11, <1>12, <1>13 DEF Next, Reader, Client

\* The connections of an iteration add up.
LEMMA PerConnStep ==
    ASSUME Types, Places, PerConn, [Next]_vars
    PROVE  PerConn'
<1> USE IterationsAssumption, ExchangesAssumption, HandshakeAssumption, BoundsAssumption
<1> USE DEF Types, Places, PerConn, Busy, wire, Kinds, OneConn, PerExchange
<1>1. CASE ReadSwap
  BY <1>1 DEF ReadSwap
<1>2. CASE ReadCount
  BY <1>2 DEF ReadCount
<1>3. CASE ReadReturns
  BY <1>3 DEF ReadReturns
<1>4. CASE Store
  BY <1>4, StoreNote DEF Store
<1>5. CASE Write
  BY <1>5 DEF Write
<1>6. CASE Dial
  BY <1>6, DialNote DEF Dial
<1>7. CASE Redial
  BY <1>7 DEF Redial
<1>8. CASE Begin
  BY <1>8, BeginNote DEF Begin
<1>9. CASE Reply
  <2>1. /\ pc = "await" /\ sent' = sent + 1
        /\ pc' \in {"record", "dial", "store"}
        /\ kind \in PerExchange => pc' # "store"
        /\ past' = IF pc' = "dial" THEN past + trips ELSE past
        /\ UNCHANGED <<kind, trips, lastDir, reader>>
    BY <1>9 DEF Reply
  <2>2. kind \in PerExchange => trips >= Handshake /\ trips <= Handshake + 2
    BY <2>1
  <2>3. /\ sent * Handshake + Handshake = sent' * Handshake
        /\ sent * (Handshake + 2) + (Handshake + 2) = sent' * (Handshake + 2)
        /\ sent' - 1 = sent
    BY <2>1
  <2>4. kind = "each" => past \in (sent * Handshake)..(sent * (Handshake + 2))
    BY <2>1
  <2>5. kind = "each" /\ pc' = "dial" => past' \in (sent' * Handshake)..(sent' * (Handshake + 2))
    BY <2>1, <2>2, <2>3, <2>4
  <2>6. kind = "each" /\ pc' = "record" => past' \in ((sent' - 1) * Handshake)..((sent' - 1) * (Handshake + 2))
    BY <2>1, <2>3, <2>4
  <2> QED
    BY <2>1, <2>2, <2>5, <2>6
<1>10. CASE Record \/ Fail \/ Summarize
  BY <1>10 DEF Record, Fail, Summarize, NextIteration
<1>11. CASE ProtocolWrite
  BY <1>11, ProtocolWriteNote DEF ProtocolWrite
<1>12. CASE Break
  BY <1>12 DEF Break
<1>13. CASE Ended \/ UNCHANGED vars
  BY <1>13 DEF Ended, vars
<1> QED
  BY <1>1, <1>2, <1>3, <1>4, <1>5, <1>6, <1>7, <1>8, <1>9, <1>10, <1>11, <1>12, <1>13 DEF Next, Reader, Client

\* What the three properties ask of one record.
Sound(r) ==
    r.ok =>
        /\ kind \in OneConn /\ ~r.note.dialled =>
             r.trips >= Exchanges \div 2 /\ r.trips <= Exchanges + 1 + r.note.extra
        /\ ~r.note.late /\ r.note.extra = 0 =>
             /\ kind = "fresh" => r.trips = Handshake + Exchanges
             /\ kind \in OneConn /\ ~r.note.dialled => r.trips = Exchanges
        /\ kind = "each" => r.trips \in (Exchanges * Handshake)..(Exchanges * (Handshake + 2))
        /\ kind = "last" => r.trips \in Handshake..(Handshake + 2)

AllSound == \A i \in DOMAIN recorded : Sound(recorded[i])

\* What the runs check of the recorded numbers, record by record.
LEMMA SoundRecords == Numbers <=> AllSound
  BY Zenon DEF AllSound, Numbers, DeltaBounds, ExactWhenReaderKeepsUp, FreshConnTrips, Succeeded, Sound

\* The number that Record records is sound.
LEMMA RecordSound ==
    ASSUME Types, Places, Upper, Lower, Exact, PerConn, Record, idx > 0,
           NEW r, r = [trips |-> Trips, ok |-> TRUE, note |-> Late]
    PROVE  Sound(r)
<1> USE IterationsAssumption, ExchangesAssumption, HandshakeAssumption
<1>1. /\ pc = "record" /\ sent = Exchanges /\ due = 0
      /\ Exchanges \in Nat /\ trips \in Nat /\ bt \in Nat /\ past \in Nat /\ note \in Notes
      /\ kind \in {"shared", "redialled", "fresh", "each", "last"}
  BY DEF Record, Places, Types, Kinds
<1>2. note.extra \in Nat
  BY <1>1 DEF Notes
<1>3. r.trips = Trips /\ r.note = Late
  OBVIOUS
<1>4. /\ r.note.extra = note.extra
      /\ r.note.dialled <=> note.dialled
      /\ r.note.late <=> note.late \/ reader # "read"
  BY <1>1, <1>3, LateNote
<1>5. CASE kind \in OneConn
  <2>1. r.trips = trips - bt
    BY <1>3, <1>5 DEF Trips
  <2>2. ~note.dialled => r.trips >= Exchanges \div 2
    <3>1. ~note.dialled => 2 * (trips - bt) + 1 >= Exchanges
      BY <1>1, <1>5 DEF Lower, Busy, Asked, Behind
    <3> QED
      BY <1>1, <2>1, <3>1
  <2>3. ~note.dialled => r.trips <= Exchanges + 1 + note.extra
    BY <1>1, <1>2, <1>5, <2>1 DEF Upper, Busy, Asked
  <2>4. ~note.dialled /\ ~note.late /\ note.extra = 0 /\ reader = "read" => r.trips = Exchanges
    BY <1>1, <1>5, <2>1 DEF Exact, Busy, Owed, Answered, OneConn
  <2> QED
    BY <1>4, <1>5, <2>2, <2>3, <2>4 DEF Sound, OneConn
<1>6. CASE kind = "fresh"
  <2>1. r.trips = trips
    BY <1>1, <1>3, <1>6 DEF Trips, OneConn, Places
  <2>2. ~note.late /\ note.extra = 0 /\ reader = "read" => r.trips = Handshake + Exchanges
    BY <1>1, <1>6, <2>1 DEF Exact, Busy, Owed, Answered
  <2> QED
    BY <1>4, <1>6, <2>2 DEF Sound, OneConn
<1>7. CASE kind = "each"
  <2>1. r.trips = past + trips
    BY <1>3, <1>7 DEF Trips, OneConn
  <2>2. /\ trips >= Handshake /\ trips <= Handshake + 2
        /\ past >= (Exchanges - 1) * Handshake /\ past <= (Exchanges - 1) * (Handshake + 2)
    BY <1>1, <1>7 DEF PerConn, Busy, PerExchange
  <2>3. /\ (Exchanges - 1) * Handshake + Handshake = Exchanges * Handshake
        /\ (Exchanges - 1) * (Handshake + 2) + (Handshake + 2) = Exchanges * (Handshake + 2)
    OBVIOUS
  <2>4. r.trips \in (Exchanges * Handshake)..(Exchanges * (Handshake + 2))
    BY <1>1, <2>1, <2>2, <2>3
  <2> QED
    BY <1>7, <2>4 DEF Sound, OneConn
<1>8. CASE kind = "last"
  <2>1. r.trips = trips
    BY <1>1, <1>3, <1>8 DEF Trips, OneConn, Places
  <2>2. trips >= Handshake /\ trips <= Handshake + 2
    BY <1>1, <1>8 DEF PerConn, Busy, PerExchange
  <2> QED
    BY <1>1, <1>8, <2>1, <2>2 DEF Sound, OneConn
<1> QED
  BY <1>1, <1>5, <1>6, <1>7, <1>8 DEF OneConn

\* Every step keeps the records sound.
LEMMA NumbersStep ==
    ASSUME Types, Places, Upper, Lower, Exact, PerConn, Numbers, [Next]_vars
    PROVE  Numbers'
<1>1. recorded \in Seq(Records) /\ idx \in Nat
  BY IterationsAssumption DEF Types
<1>2. \A i \in DOMAIN recorded : Sound(recorded[i])
  BY SoundRecords DEF AllSound
<1>3. kind' = kind
  BY DEF Next, Reader, Client, ReadSwap, ReadCount, ReadReturns, Store, Write, Dial, Redial, Begin, Reply,
     Record, Fail, Summarize, ProtocolWrite, Break, Ended, vars
<1>4. AllSound' => Numbers'
  BY SoundRecords, PTL
<1>5. CASE recorded' = recorded
  BY <1>2, <1>3, <1>4, <1>5 DEF AllSound, Sound
<1>6. ASSUME NEW r, Sound(r), recorded' = Append(recorded, r) PROVE Numbers'
  <2>1. \A i \in DOMAIN recorded' : recorded'[i] = r \/ (i \in DOMAIN recorded /\ recorded'[i] = recorded[i])
    BY <1>1, <1>6
  <2>2. AllSound'
    BY <1>2, <1>3, <1>6, <2>1 DEF AllSound, Sound
  <2> QED
    BY <1>4, <2>2
<1>7. CASE Record
  <2>1. CASE idx = 0
    BY <1>5, <1>7, <2>1 DEF Record
  <2>2. CASE idx > 0
    BY <1>6, <1>7, <2>2, RecordSound DEF Record
  <2> QED
    BY <1>1, <2>1, <2>2
<1>8. CASE Fail
  <2>1. Sound([trips |-> 0, ok |-> FALSE, note |-> note])
    BY DEF Sound
  <2> QED
    BY <1>5, <1>6, <1>8, <2>1 DEF Fail
<1> QED
  BY <1>5, <1>7, <1>8 DEF Next, Reader, Client, ReadSwap, ReadCount, ReadReturns, Store, Write, Dial, Redial,
     Begin, Reply, Summarize, ProtocolWrite, Break, Ended, vars

\* Every step keeps the zeros and the median.
LEMMA ReportedStep ==
    ASSUME Types, Complete, Reported, [Next]_vars
    PROVE  Reported'
<1>1. recorded \in Seq(Records) /\ idx \in Nat
  BY IterationsAssumption DEF Types
<1> DEFINE Zero(r) == r.ok \/ r.trips = 0
<1>2. \A i \in DOMAIN recorded : Zero(recorded[i])
  BY DEF Reported
<1>3. CASE Record \/ Fail
  <2>1. pc' # "end" /\ result' = result
    BY <1>3 DEF Record, Fail, NextIteration
  <2>2. ASSUME NEW r, Zero(r), recorded' = Append(recorded, r)
        PROVE  \A i \in DOMAIN recorded' : Zero(recorded'[i])
    <3>1. \A i \in DOMAIN recorded' : recorded'[i] = r \/ (i \in DOMAIN recorded /\ recorded'[i] = recorded[i])
      BY <1>1, <2>2
    <3> HIDE DEF Zero
    <3> QED
      BY <1>2, <2>2, <3>1
  <2>3. \A i \in DOMAIN recorded' : Zero(recorded'[i])
    <3>1. CASE recorded' = recorded
      BY <1>2, <3>1
    <3>2. CASE recorded' = Append(recorded, [trips |-> Trips, ok |-> TRUE, note |-> Late])
      BY <2>2, <3>2
    <3>3. CASE recorded' = Append(recorded, [trips |-> 0, ok |-> FALSE, note |-> note])
      BY <2>2, <3>3
    <3> QED
      BY <1>3, <3>1, <3>2, <3>3 DEF Record, Fail
  <2> QED
    BY <2>1, <2>3 DEF Reported
<1>4. CASE Summarize
  <2> DEFINE s == [i \in DOMAIN recorded |-> recorded[i].trips]
  <2>1. UNCHANGED recorded /\ pc = "summarize"
    BY <1>4 DEF Summarize
  <2>2. result' = IF \E i \in DOMAIN recorded : recorded[i].ok THEN medianInts(s) ELSE 0
    BY <1>4 DEF Summarize
  <2>3. Len(recorded) = Iterations /\ DOMAIN recorded = 1..Iterations
    BY <1>1, <2>1 DEF Complete
  <2>4. s \in Seq(Int) /\ Len(s) = Iterations
    <3>1. \A i \in 1..Iterations : recorded[i].trips \in Int
      <4>1. \A i \in 1..Iterations : recorded[i] \in Records
        BY <1>1, <2>3
      <4> QED
        BY <4>1 DEF Records
    <3> QED
      BY <2>3, <3>1, IterationsAssumption
  <2>5. medianInts(s) \in Int
    <3> HIDE DEF s
    <3> QED
      BY <2>4, MedianOfMajority, IterationsAssumption
  <2> HIDE DEF s
  <2>6. result' \in Int
    BY <2>2, <2>5
  <2>7. (\E i \in DOMAIN recorded : recorded[i].ok) => result' = medianInts(s)
    BY <2>2
  <2> QED
    BY <1>2, <2>1, <2>6, <2>7 DEF Reported, s
<1>5. CASE UNCHANGED <<recorded, result>> /\ (pc' = pc \/ pc' # "end")
  BY <1>5 DEF Reported
<1> QED
  BY <1>3, <1>4, <1>5 DEF Next, Reader, Client, ReadSwap, ReadCount, ReadReturns, Store, Write, Dial, Redial,
     Begin, Reply, ProtocolWrite, Break, Ended, vars

\* The inductive invariant holds in every state.
THEOREM Invariance == Spec => []IInv
<1>1. IInv /\ [Next]_vars => IInv'
  BY TypesStep, PlacesStep, RecordedStep, UpperStep, LowerStep, ExactStep, PerConnStep, NumbersStep,
     ReportedStep DEF IInv
<1> QED
  BY InitIInv, <1>1, PTL DEF Spec

\* The variables keep their types: the median that is reported is an integer.
THEOREM TypeCorrect == Spec => []TypeOK
<1>1. IInv => TypeOK
  BY DEF IInv, Types, Reported, TypeOK, Notes, Records
<1> QED
  BY Invariance, <1>1, PTL

\* Of a shared connection an iteration loses at most every second trip and
\* gains at most one that the reader owed, besides the protocol's own.
THEOREM Bounded == Spec => []DeltaBounds
<1>1. IInv => DeltaBounds
  BY DEF IInv, Numbers
<1> QED
  BY Invariance, <1>1, PTL

\* A late reader, the writes of the protocol and a redial are the only sources of error.
THEOREM ExactUnlessLate == Spec => []ExactWhenReaderKeepsUp
<1>1. IInv => ExactWhenReaderKeepsUp
  BY DEF IInv, Numbers
<1> QED
  BY Invariance, <1>1, PTL

\* What a mode with a connection per command records, for any handshake and
\* any number of commands.
THEOREM PerCommand == Spec => []FreshConnTrips
<1>1. IInv => FreshConnTrips
  BY DEF IInv, Numbers
<1> QED
  BY Invariance, <1>1, PTL

\* The reported median lies between two members of any majority of successful
\* iterations.
THEOREM MedianHolds == Spec => []MedianOfSuccesses
<1>1. IInv => MedianOfSuccesses
  <2> SUFFICES ASSUME IInv, pc = "end",
                      NEW G \in SUBSET Succeeded, 2 * Cardinality(G) > Iterations
               PROVE  /\ \E i \in G : recorded[i].trips <= result
                      /\ \E i \in G : result <= recorded[i].trips
    BY DEF MedianOfSuccesses
  <2> DEFINE s == [i \in DOMAIN recorded |-> recorded[i].trips]
  <2>1. recorded \in Seq(Records) /\ Len(recorded) = Iterations /\ DOMAIN recorded = 1..Iterations
    BY DEF IInv, Types, Complete
  <2>2. s \in Seq(Int) /\ Len(s) = Iterations
    <3>1. \A i \in 1..Iterations : recorded[i].trips \in Int
      <4>1. \A i \in 1..Iterations : recorded[i] \in Records
        BY <2>1
      <4> QED
        BY <4>1 DEF Records
    <3> QED
      BY <2>1, <3>1, IterationsAssumption
  <2>3. G \in SUBSET (1..Iterations)
    BY <2>1 DEF Succeeded
  <2>4. \A i \in 1..Iterations : s[i] = recorded[i].trips
    BY <2>1
  <2>5. G # {}
    BY FS_EmptySet, IterationsAssumption
  <2>6. result = medianInts(s)
    BY <2>5 DEF IInv, Reported, Succeeded
  <2> HIDE DEF s
  <2>7. /\ \E g \in G : s[g] <= medianInts(s)
        /\ \E g \in G : medianInts(s) <= s[g]
    BY <2>2, <2>3, MedianOfMajority, IterationsAssumption
  <2> QED
    BY <2>3, <2>4, <2>6, <2>7
<1> QED
  BY Invariance, <1>1, PTL
=============================================================================
