--------------------------- MODULE Regression_proof ---------------------------
(***************************************************************************)
(* Proofs about Statistics and Regression, for samples of every length and  *)
(* for every set of command lines and timings.                              *)
(***************************************************************************)
EXTENDS Regression, TLAPS, FiniteSetTheorems, WellFoundedInduction

(* Interpolation stays between its two ends, ... *)
LEMMA Between ==
  ASSUME NEW a \in Nat, NEW b \in Nat, a =< b, NEW w \in 0..100
  PROVE  /\ 100 * a =< a * (100 - w) + b * w
         /\ a * (100 - w) + b * w =< 100 * b
  <1> DEFINE d == b - a
  <1>1. d \in Nat /\ b = a + d
    OBVIOUS
  <1>2. a * (100 - w) + b * w = 100 * a + d * w
    BY <1>1
  <1>3. 0 =< d * w /\ d * w =< d * 100
    BY <1>1
  <1> QED
    BY <1>1, <1>2, <1>3

(* ... and grows with the weight of the upper one. *)
LEMMA Growing ==
  ASSUME NEW a \in Nat, NEW b \in Nat, a =< b,
         NEW v \in 0..100, NEW w \in 0..100, v =< w
  PROVE  a * (100 - v) + b * v =< a * (100 - w) + b * w
  <1> DEFINE d == b - a
  <1>1. d \in Nat /\ b = a + d
    OBVIOUS
  <1>2. /\ a * (100 - v) + b * v = 100 * a + d * v
        /\ a * (100 - w) + b * w = 100 * a + d * w
    BY <1>1
  <1>3. d * v =< d * w
    BY <1>1
  <1> QED
    BY <1>2, <1>3

LEMMA Scaled ==
  ASSUME NEW m \in Nat, NEW p \in Nat, NEW q \in Nat, p =< q
  PROVE  m * p =< m * q
  OBVIOUS

LEMMA Digits ==
  ASSUME NEW l \in Nat, NEW m \in Nat, NEW v \in 0..99, NEW w \in 0..99,
         100 * l + v =< 100 * m + w
  PROVE  l < m \/ (l = m /\ v =< w)
  OBVIOUS

(* The lower neighbour and the weight that _percentile interpolates with; the *)
(* upper neighbour is the next timing, or the last one.                       *)
Upper(n, l) == IF l + 1 < n - 1 THEN l + 1 ELSE n - 1

LEMMA Neighbours ==
  ASSUME NEW n \in Nat \ {0}, NEW t \in [1..n -> Nat], NEW q \in 0..99
  PROVE  \E l \in 0..(n - 1), w \in 0..99 :
           /\ (n - 1) * q = 100 * l + w
           /\ Percentile(t, q) = t[l + 1] * (100 - w) + t[Upper(n, l) + 1] * w
  <1> DEFINE idx == (n - 1) * q
             l == idx \div 100
             w == idx % 100
  <1>1. Len(t) = n
    OBVIOUS
  <1>2. Percentile(t, q) = t[l + 1] * (100 - w) + t[Upper(n, l) + 1] * w
    BY <1>1 DEF Percentile, Upper
  <1>3. idx \in Nat /\ idx =< (n - 1) * 99
    OBVIOUS
  <1>4. l \in 0..(n - 1) /\ w \in 0..99 /\ idx = 100 * l + w
    BY <1>3
  <1> WITNESS l \in 0..(n - 1), w \in 0..99
  <1> QED
    BY <1>2, <1>4

(* The percentiles of a sorted sample, in the order of q, between its first   *)
(* and its last timing.                                                       *)
LEMMA PercentileOrder ==
  ASSUME NEW n \in Nat \ {0}, NEW t \in [1..n -> Nat],
         \A j, k \in 1..n : j < k => t[j] =< t[k],
         NEW p \in 0..99, NEW q \in 0..99, p =< q
  PROVE  /\ Percentile(t, p) =< Percentile(t, q)
         /\ 100 * t[1] =< Percentile(t, p)
         /\ Percentile(t, q) =< 100 * t[n]
  <1>1. PICK l \in 0..(n - 1), v \in 0..99 :
          /\ (n - 1) * p = 100 * l + v
          /\ Percentile(t, p) = t[l + 1] * (100 - v) + t[Upper(n, l) + 1] * v
    BY Neighbours, ZenonT(30)
  <1>2. PICK m \in 0..(n - 1), w \in 0..99 :
          /\ (n - 1) * q = 100 * m + w
          /\ Percentile(t, q) = t[m + 1] * (100 - w) + t[Upper(n, m) + 1] * w
    BY Neighbours, ZenonT(30)
  <1>3. l < m \/ (l = m /\ v =< w)
    <2>1. n - 1 \in Nat /\ p \in Nat /\ q \in Nat /\ l \in Nat /\ m \in Nat
      OBVIOUS
    <2>2. (n - 1) * p =< (n - 1) * q
      BY <2>1, Scaled
    <2>3. 100 * l + v =< 100 * m + w
      BY <1>1, <1>2, <2>2
    <2> QED
      BY <2>1, <2>3, Digits
  <1>4. /\ Upper(n, l) \in 0..(n - 1) /\ l =< Upper(n, l)
        /\ Upper(n, m) \in 0..(n - 1) /\ m =< Upper(n, m)
        /\ l < m => Upper(n, l) =< m
    BY DEF Upper
  <1> DEFINE a == t[l + 1]
             b == t[Upper(n, l) + 1]
             c == t[m + 1]
             d == t[Upper(n, m) + 1]
  <1>5. /\ a \in Nat /\ b \in Nat /\ c \in Nat /\ d \in Nat
        /\ t[1] \in Nat /\ t[n] \in Nat
    BY <1>4
  <1>6. \A j, k \in 1..n : j =< k => t[j] =< t[k]
    OBVIOUS
  <1>7. t[1] =< a /\ a =< b /\ c =< d /\ d =< t[n]
    BY <1>4, <1>6
  <1>8. l < m => b =< c
    BY <1>4, <1>6
  <1>9. l = m => a = c /\ b = d
    OBVIOUS
  <1>10. /\ Percentile(t, p) = a * (100 - v) + b * v
         /\ Percentile(t, q) = c * (100 - w) + d * w
    BY <1>1, <1>2
  <1> HIDE DEF a, b, c, d
  <1>11. 100 * a =< Percentile(t, p) /\ Percentile(t, p) =< 100 * b
    BY <1>5, <1>7, <1>10, Between
  <1>12. 100 * c =< Percentile(t, q) /\ Percentile(t, q) =< 100 * d
    BY <1>5, <1>7, <1>10, Between
  <1>13. l = m /\ v =< w => Percentile(t, p) =< Percentile(t, q)
    <2> SUFFICES ASSUME l = m, v =< w PROVE Percentile(t, p) =< Percentile(t, q)
      OBVIOUS
    <2>1. Percentile(t, q) = a * (100 - w) + b * w
      BY <1>9, <1>10
    <2>2. a * (100 - v) + b * v =< a * (100 - w) + b * w
      <3>1. v \in 0..100 /\ w \in 0..100
        OBVIOUS
      <3> QED
        BY <1>5, <1>7, <3>1, Growing, ZenonT(30)
    <2> QED
      BY <1>10, <2>1, <2>2
  <1>14. Percentile(t, p) \in Int /\ Percentile(t, q) \in Int
    BY <1>5, <1>10
  <1> QED
    BY <1>3, <1>5, <1>7, <1>8, <1>11, <1>12, <1>13, <1>14

(* A summary of a sample has its percentiles in order, between two timings.   *)
Ordered(row, sample) ==
    /\ row.p50 =< row.p90 /\ row.p90 =< row.p95 /\ row.p95 =< row.p99
    /\ \E j \in DOMAIN sample : 100 * sample[j] =< row.p50
    /\ \E j \in DOMAIN sample : row.p99 =< 100 * sample[j]

LEMMA SummaryOrdered ==
  ASSUME NEW n \in Nat \ {0}, NEW sample \in [1..n -> Nat],
         NEW t \in SortedOf(sample)
  PROVE  Ordered(Summary(sample, t), sample)
  <1>1. /\ t \in [1..n -> Nat]
        /\ \A j \in 1..n : \E k \in 1..n : t[j] = sample[k]
        /\ \A j, k \in 1..n : j < k => t[j] =< t[k]
    <2>1. t \in [1..n -> Range(sample)]
      BY DEF SortedOf
    <2>2. \A v \in Range(sample) : v \in Nat /\ \E k \in 1..n : v = sample[k]
      BY DEF Range
    <2>3. \A j, k \in 1..n : j < k => t[j] =< t[k]
      BY <2>1 DEF SortedOf
    <2> QED
      BY <2>1, <2>2, <2>3
  <1>2. /\ Percentile(t, 50) =< Percentile(t, 90)
        /\ Percentile(t, 90) =< Percentile(t, 95)
        /\ Percentile(t, 95) =< Percentile(t, 99)
        /\ 100 * t[1] =< Percentile(t, 50)
        /\ Percentile(t, 99) =< 100 * t[n]
    <2>1. /\ 50 \in 0..99 /\ 90 \in 0..99 /\ 95 \in 0..99 /\ 99 \in 0..99
          /\ 50 =< 90 /\ 90 =< 95 /\ 95 =< 99 /\ 50 =< 99
      OBVIOUS
    <2>2. Percentile(t, 50) =< Percentile(t, 90)
      BY <1>1, <2>1, PercentileOrder, ZenonT(30)
    <2>3. Percentile(t, 90) =< Percentile(t, 95)
      BY <1>1, <2>1, PercentileOrder, ZenonT(30)
    <2>4. Percentile(t, 95) =< Percentile(t, 99)
      BY <1>1, <2>1, PercentileOrder, ZenonT(30)
    <2>5. 100 * t[1] =< Percentile(t, 50) /\ Percentile(t, 99) =< 100 * t[n]
      BY <1>1, <2>1, PercentileOrder, ZenonT(30)
    <2> QED
      BY <2>2, <2>3, <2>4, <2>5
  <1>3. PICK k \in 1..n : t[1] = sample[k]
    BY <1>1
  <1>4. PICK m \in 1..n : t[n] = sample[m]
    BY <1>1
  <1> QED
    BY <1>2, <1>3, <1>4 DEF Ordered, Summary

-----------------------------------------------------------------------------
(* A non-empty set of natural numbers has a least element. *)
LEMMA LeastElement ==
  ASSUME NEW S \in SUBSET Nat, S # {}
  PROVE  \E m \in S : \A l \in S : m =< l
  <1>1. PICK m \in S : \A l \in S : ~(<<l, m>> \in OpToRel(<, Nat))
    BY NatLessThanWellFounded, WFMin, ZenonT(30)
  <1>2. \A l \in S : ~(l < m)
    BY <1>1 DEF OpToRel
  <1> QED
    BY <1>2

(* SumFunctionOnSet adds the values of a function one by one: the sum over a  *)
(* set is the value at its First element and the sum over the rest.           *)
First(s) == CHOOSE x \in s : TRUE

Rest(s) == s \ {First(s)}

Sums(f, g, s) == IF s = {} THEN 0 ELSE f[First(s)] + g[Rest(s)]

LEMMA SumUnfolded ==
  ASSUME NEW f, NEW S
  PROVE  SumFunctionOnSet(f, S) =
           (CHOOSE g : g = [s \in SUBSET S |-> Sums(f, g, s)])[S]
  BY DEF First, Rest, Sums, SumFunctionOnSet, FoldFunctionOnSet, MapThenFoldSet

LEMMA RestIsLess ==
  ASSUME NEW S, IsFiniteSet(S), S # {}
  PROVE  /\ First(S) \in S /\ Rest(S) \in SUBSET S
         /\ Cardinality(S) \in Nat \ {0}
         /\ Cardinality(Rest(S)) = Cardinality(S) - 1
  <1>1. First(S) \in S
    BY DEF First
  <1>2. Cardinality(S) \in Nat /\ Cardinality(S) # 0
    BY FS_CardinalityType, FS_EmptySet
  <1>3. Cardinality(Rest(S)) = Cardinality(S) - 1
    BY <1>1, FS_RemoveElement DEF Rest
  <1> QED
    BY <1>1, <1>2, <1>3 DEF Rest

(* There are such sums: for sets of growing size, by the least size without.  *)
LEMMA SumsExist ==
  ASSUME NEW S, IsFiniteSet(S), NEW f
  PROVE  \E g : g = [s \in SUBSET S |-> Sums(f, g, s)]
  <1> DEFINE Good(g, n) == \A s \in SUBSET S :
                             Cardinality(s) =< n => g[s] = Sums(f, g, s)
             Has(n) == \E g : Good(g, n)
             bad == {n \in Nat : ~Has(n)}
  <1>1. \A s \in SUBSET S : IsFiniteSet(s) /\ Cardinality(s) \in Nat
    BY FS_Subset, FS_CardinalityType
  <1>2. Has(0)
    <2> DEFINE g == [s \in SUBSET S |-> 0]
    <2>1. \A s \in SUBSET S : Cardinality(s) =< 0 => s = {}
      BY <1>1, FS_EmptySet
    <2>2. Good(g, 0)
      BY <2>1 DEF Sums
    <2> QED
      BY <2>2
  <1>3. ASSUME NEW n \in Nat, Has(n)
        PROVE  Has(n + 1)
    <2>1. PICK g : Good(g, n)
      BY <1>3
    <2> DEFINE h == [s \in SUBSET S |->
                       IF Cardinality(s) =< n THEN g[s] ELSE Sums(f, g, s)]
    <2>2. ASSUME NEW s \in SUBSET S, Cardinality(s) =< n + 1
          PROVE  h[s] = Sums(f, h, s)
      <3>1. h[s] = Sums(f, g, s)
        BY <2>1
      <3>2. s # {} => h[Rest(s)] = g[Rest(s)]
        <4> SUFFICES ASSUME s # {} PROVE h[Rest(s)] = g[Rest(s)]
          OBVIOUS
        <4>1. Rest(s) \in SUBSET S /\ Cardinality(Rest(s)) = Cardinality(s) - 1
          BY <1>1, RestIsLess
        <4>2. Cardinality(Rest(s)) =< n
          BY <1>1, <2>2, <4>1
        <4> QED
          BY <4>1, <4>2
      <3> HIDE DEF h
      <3> QED
        BY <3>1, <3>2 DEF Sums
    <2> HIDE DEF h
    <2> QED
      BY <2>2
  <1>4. bad = {}
    <2> SUFFICES ASSUME bad # {} PROVE FALSE
      OBVIOUS
    <2> HIDE DEF Has
    <2>1. PICK m \in bad : \A l \in bad : m =< l
      <3>1. bad \in SUBSET Nat
        OBVIOUS
      <3> HIDE DEF bad
      <3> QED
        BY <3>1, LeastElement
    <2>2. m \in Nat \ {0}
      BY <1>2, <2>1
    <2>3. m - 1 \in Nat /\ m - 1 \notin bad
      BY <2>1, <2>2
    <2>4. Has((m - 1) + 1)
      <3>1. Has(m - 1)
        BY <2>3
      <3> HIDE DEF bad
      <3> QED
        BY <1>3, <2>3, <3>1
    <2> QED
      BY <2>1, <2>2, <2>4
  <1>5. Cardinality(S) \in Nat /\ \A s \in SUBSET S : Cardinality(s) =< Cardinality(S)
    BY FS_Subset, FS_CardinalityType
  <1>6. PICK g : Good(g, Cardinality(S))
    <2>1. Has(Cardinality(S))
      <3> HIDE DEF Has
      <3> QED
        BY <1>4, <1>5
    <2> QED
      BY <2>1
  <1> DEFINE h == [s \in SUBSET S |-> g[s]]
  <1>7. \A s \in SUBSET S : h[s] = Sums(f, h, s)
    <2> SUFFICES ASSUME NEW s \in SUBSET S PROVE h[s] = Sums(f, h, s)
      OBVIOUS
    <2>1. h[s] = Sums(f, g, s)
      BY <1>5, <1>6
    <2>2. Rest(s) \in SUBSET S
      BY DEF Rest
    <2>3. h[Rest(s)] = g[Rest(s)]
      BY <2>2
    <2> HIDE DEF h
    <2> QED
      BY <2>1, <2>3 DEF Sums
  <1>8. h = [s \in SUBSET S |-> Sums(f, h, s)]
    <2>1. h = [s \in SUBSET S |-> h[s]]
      OBVIOUS
    <2> HIDE DEF h
    <2> QED
      BY <1>7, <2>1
  <1> HIDE DEF h
  <1> QED
    BY <1>8

(* g holds the sums of f over the subsets of S. *)
Adds(g, f, S) ==
    /\ SumFunctionOnSet(f, S) = g[S]
    /\ \A s \in SUBSET S : g[s] = Sums(f, g, s)

LEMMA SumSteps ==
  ASSUME NEW S, IsFiniteSet(S), NEW f
  PROVE  \E g : Adds(g, f, S)
  <1> DEFINE g == CHOOSE g : g = [s \in SUBSET S |-> Sums(f, g, s)]
  <1>1. g = [s \in SUBSET S |-> Sums(f, g, s)]
    BY SumsExist
  <1>2. SumFunctionOnSet(f, S) = g[S]
    BY SumUnfolded
  <1> HIDE DEF g
  <1>3. \A s \in SUBSET S : g[s] = Sums(f, g, s)
    BY <1>1
  <1> QED
    BY <1>2, <1>3 DEF Adds

(* A sum of numbers is a number, and does not get less when they do not. *)
LEMMA SumGrows ==
  ASSUME NEW S, IsFiniteSet(S), NEW f, NEW h,
         \A x \in S : f[x] \in Nat /\ h[x] \in Nat /\ f[x] =< h[x]
  PROVE  /\ SumFunctionOnSet(f, S) \in Nat /\ SumFunctionOnSet(h, S) \in Nat
         /\ SumFunctionOnSet(f, S) =< SumFunctionOnSet(h, S)
  <1>1. PICK a : Adds(a, f, S)
    BY SumSteps, Zenon
  <1>2. PICK b : Adds(b, h, S)
    BY SumSteps, Zenon
  <1> DEFINE Fine(s) == a[s] \in Nat /\ b[s] \in Nat /\ a[s] =< b[s]
             bad == {Cardinality(s) : s \in {u \in SUBSET S : ~Fine(u)}}
  <1>3. \A s \in SUBSET S : IsFiniteSet(s) /\ Cardinality(s) \in Nat
    BY FS_Subset, FS_CardinalityType
  <1>4. ASSUME NEW s \in SUBSET S, s # {} => Fine(Rest(s))
        PROVE  Fine(s)
    <2>1. a[s] = Sums(f, a, s) /\ b[s] = Sums(h, b, s)
      BY <1>1, <1>2 DEF Adds
    <2>2. CASE s = {}
      BY <2>1, <2>2 DEF Sums
    <2>3. CASE s # {}
      <3>1. a[s] = f[First(s)] + a[Rest(s)] /\ b[s] = h[First(s)] + b[Rest(s)]
        BY <2>1, <2>3 DEF Sums
      <3>2. First(s) \in S
        BY <1>3, <2>3, RestIsLess
      <3> QED
        BY <1>4, <2>3, <3>1, <3>2
    <2> QED
      BY <2>2, <2>3
  <1>5. bad = {}
    <2> SUFFICES ASSUME bad # {} PROVE FALSE
      OBVIOUS
    <2> HIDE DEF Fine
    <2>1. PICK m \in bad : \A l \in bad : m =< l
      <3>1. bad \in SUBSET Nat
        BY <1>3
      <3> HIDE DEF bad
      <3> QED
        BY <3>1, LeastElement
    <2>2. PICK s \in SUBSET S : ~Fine(s) /\ m = Cardinality(s)
      BY <2>1
    <2>3. s # {} /\ ~Fine(Rest(s))
      BY <1>4, <2>2
    <2>4. Rest(s) \in SUBSET S /\ Cardinality(Rest(s)) = m - 1 /\ m \in Nat
      BY <1>3, <2>2, <2>3, RestIsLess
    <2>5. m - 1 \in bad
      BY <2>3, <2>4
    <2>6. ~(m =< m - 1)
      BY <2>4
    <2> HIDE DEF bad
    <2> QED
      BY <2>1, <2>5, <2>6
  <1>6. Fine(S)
    <2> HIDE DEF Fine
    <2> QED
      BY <1>5
  <1> QED
    BY <1>1, <1>2, <1>6 DEF Adds

-----------------------------------------------------------------------------
(* The positions of a sample with timings up to v. *)
UpTo(s, n, v) == {j \in 1 .. n : s[j] =< v}

LEMMA UpToSize ==
  ASSUME NEW s, NEW n \in Nat, NEW v
  PROVE  /\ IsFiniteSet(UpTo(s, n, v))
         /\ Cardinality(UpTo(s, n, v)) \in Nat
  <1>1. UpTo(s, n, v) \in SUBSET (1 .. n) /\ IsFiniteSet(1 .. n)
    BY FS_Interval DEF UpTo
  <1>2. IsFiniteSet(UpTo(s, n, v))
    BY <1>1, FS_Subset
  <1> QED
    BY <1>2, FS_CardinalityType

(* One more value: its own timings are added. *)
LEMMA UpToNext ==
  ASSUME NEW n \in Nat, NEW s \in [1 .. n -> Nat], NEW v \in Int
  PROVE  Cardinality(UpTo(s, n, v + 1)) =
           Cardinality(UpTo(s, n, v)) + Cardinality({j \in 1 .. n : s[j] = v + 1})
  <1> DEFINE E == {j \in 1 .. n : s[j] = v + 1}
             A == UpTo(s, n, v)
  <1>1. UpTo(s, n, v + 1) = A \cup E /\ A \cap E = {}
    BY DEF UpTo
  <1>2. IsFiniteSet(A) /\ IsFiniteSet(E)
    <2>1. E \in SUBSET (1 .. n) /\ IsFiniteSet(1 .. n)
      BY FS_Interval
    <2> HIDE DEF E
    <2>2. IsFiniteSet(E)
      BY <2>1, FS_Subset
    <2> QED
      BY <2>2, UpToSize
  <1> HIDE DEF A, E
  <1>3. Cardinality(A \cup E) =
          Cardinality(A) + Cardinality(E) - Cardinality(A \cap E)
    BY <1>2, FS_Union
  <1>4. Cardinality(A \cap E) = 0
    BY <1>1, FS_EmptySet
  <1>5. Cardinality(A) \in Nat /\ Cardinality(E) \in Nat
    BY <1>2, FS_CardinalityType
  <1>6. Cardinality(UpTo(s, n, v + 1)) = Cardinality(A) + Cardinality(E)
    <2> DEFINE x == Cardinality(A)
               y == Cardinality(E)
               z == Cardinality(A \cap E)
               u == Cardinality(A \cup E)
    <2>1. u = x + y - z /\ z = 0 /\ x \in Nat /\ y \in Nat
      BY <1>3, <1>4, <1>5
    <2>2. Cardinality(UpTo(s, n, v + 1)) = u
      BY <1>1, Zenon
    <2> HIDE DEF x, y, z, u
    <2>3. u = x + y
      BY <2>1
    <2> QED
      BY <2>2, <2>3 DEF x, y
  <1> QED
    BY <1>6 DEF A, E

(* Sorting moves timings only: up to every value there are as many as before. *)
LEMMA SortingCounts ==
  ASSUME NEW n \in Nat, NEW s \in [1 .. n -> Nat], NEW t \in SortedOf(s),
         NEW v \in Nat
  PROVE  Cardinality(UpTo(t, n, v)) = Cardinality(UpTo(s, n, v))
  <1>1. /\ t \in [1 .. n -> Range(s)]
        /\ \A w \in Range(s) : Cardinality({j \in 1 .. n : t[j] = w})
                             = Cardinality({j \in 1 .. n : s[j] = w})
    BY DEF SortedOf
  <1>2. t \in [1 .. n -> Nat] /\ \A j \in 1 .. n : s[j] \in Range(s)
    BY <1>1 DEF Range
  <1>3. \A w : Cardinality({j \in 1 .. n : t[j] = w})
             = Cardinality({j \in 1 .. n : s[j] = w})
    <2> SUFFICES ASSUME NEW w
                 PROVE  Cardinality({j \in 1 .. n : t[j] = w})
                      = Cardinality({j \in 1 .. n : s[j] = w})
      OBVIOUS
    <2>1. CASE w \in Range(s)
      BY <1>1, <2>1
    <2>2. CASE w \notin Range(s)
      <3>1. {j \in 1 .. n : t[j] = w} = {} /\ {j \in 1 .. n : s[j] = w} = {}
        BY <1>1, <1>2, <2>2
      <3> QED
        BY <3>1
    <2> QED
      BY <2>1, <2>2
  <1> DEFINE Same(w) == Cardinality(UpTo(t, n, w)) = Cardinality(UpTo(s, n, w))
             bad == {w \in Nat : ~Same(w - 1)}
  <1>4. Same(0 - 1)
    <2>1. UpTo(t, n, 0 - 1) = {} /\ UpTo(s, n, 0 - 1) = {}
      BY <1>2 DEF UpTo
    <2> QED
      BY <2>1
  <1>5. ASSUME NEW w \in Int, Same(w)
        PROVE  Same(w + 1)
    <2>1. Cardinality(UpTo(t, n, w + 1)) =
            Cardinality(UpTo(t, n, w)) + Cardinality({j \in 1 .. n : t[j] = w + 1})
      BY <1>2, UpToNext
    <2>2. Cardinality(UpTo(s, n, w + 1)) =
            Cardinality(UpTo(s, n, w)) + Cardinality({j \in 1 .. n : s[j] = w + 1})
      BY UpToNext
    <2>3. Cardinality({j \in 1 .. n : t[j] = w + 1})
            = Cardinality({j \in 1 .. n : s[j] = w + 1})
      BY <1>3
    <2> QED
      BY <1>5, <2>1, <2>2, <2>3
  <1>6. bad = {}
    <2> SUFFICES ASSUME bad # {} PROVE FALSE
      OBVIOUS
    <2> HIDE DEF Same
    <2>1. PICK m \in bad : \A l \in bad : m =< l
      <3>1. bad \in SUBSET Nat
        OBVIOUS
      <3> HIDE DEF bad
      <3> QED
        BY <3>1, LeastElement
    <2>2. m \in Nat \ {0}
      BY <1>4, <2>1
    <2>3. m - 1 \notin bad /\ m - 1 \in Nat
      <3>1. m - 1 \in Nat /\ ~(m =< m - 1)
        BY <2>2
      <3> HIDE DEF bad
      <3> QED
        BY <2>1, <3>1
    <2>4. Same((m - 1) - 1)
      BY <2>3
    <2>5. (m - 1) - 1 \in Int /\ ((m - 1) - 1) + 1 = m - 1
      BY <2>2
    <2>6. Same(m - 1)
      BY <1>5, <2>4, <2>5
    <2> QED
      BY <2>1, <2>6
  <1>7. v + 1 \in Nat /\ (v + 1) - 1 = v
    OBVIOUS
  <1>8. Same(v)
    <2> HIDE DEF Same
    <2>1. Same((v + 1) - 1)
      BY <1>6, <1>7
    <2> QED
      BY <1>7, <2>1
  <1> QED
    BY <1>8

(* When no timing gets shorter, no place of the sorted sample does: otherwise *)
(* fewer timings than before would be up to the value at that place.          *)
LEMMA SortingGrows ==
  ASSUME NEW n \in Nat, NEW b \in [1 .. n -> Nat], NEW c \in [1 .. n -> Nat],
         \A j \in 1 .. n : b[j] =< c[j],
         NEW t \in SortedOf(b), NEW u \in SortedOf(c), NEW k \in 1 .. n
  PROVE  t[k] =< u[k]
  <1>1. /\ t \in [1 .. n -> Nat] /\ u \in [1 .. n -> Nat]
        /\ \A h, j \in 1 .. n : h < j => t[h] =< t[j]
        /\ \A h, j \in 1 .. n : h < j => u[h] =< u[j]
    BY DEF SortedOf, Range
  <1> SUFFICES ASSUME u[k] < t[k] PROVE FALSE
    BY <1>1
  <1> DEFINE v == u[k]
  <1>2. v \in Nat
    BY <1>1
  <1>3. 1 .. k \in SUBSET UpTo(u, n, v)
    BY <1>1 DEF UpTo
  <1>4. UpTo(t, n, v) \in SUBSET (1 .. k - 1)
    <2> SUFFICES ASSUME NEW j \in 1 .. n, t[j] =< v PROVE j \in 1 .. k - 1
      BY DEF UpTo
    <2>1. ~(k =< j)
      <3> SUFFICES ASSUME k =< j PROVE FALSE
        OBVIOUS
      <3>1. t[k] =< t[j] /\ t[k] \in Nat /\ t[j] \in Nat
        BY <1>1
      <3> QED
        BY <1>2, <3>1
    <2> QED
      BY <2>1
  <1> HIDE DEF v
  <1>5. UpTo(c, n, v) \in SUBSET UpTo(b, n, v)
    BY <1>2 DEF UpTo
  <1>6. Cardinality(1 .. k) = k /\ Cardinality(1 .. k - 1) = k - 1
        /\ IsFiniteSet(1 .. k - 1)
    <2> DEFINE m == k - 1
    <2>1. k \in Nat \ {0} /\ m \in Nat /\ m = k - 1
      OBVIOUS
    <2> HIDE DEF m
    <2>2. Cardinality(1 .. k) = k
      BY <2>1, FS_Interval
    <2>3. Cardinality(1 .. m) = m /\ IsFiniteSet(1 .. m)
      <3>1. CASE m = 0
        <4>1. 1 .. m = {}
          BY <3>1
        <4> QED
          BY <3>1, <4>1, FS_EmptySet
      <3>2. CASE m # 0
        BY <2>1, <3>2, FS_Interval
      <3> QED
        BY <3>1, <3>2
    <2> QED
      BY <2>2, <2>3 DEF m
  <1>7. k =< Cardinality(UpTo(u, n, v))
    BY <1>3, <1>6, UpToSize, FS_Subset
  <1>8. Cardinality(UpTo(c, n, v)) =< Cardinality(UpTo(b, n, v))
    BY <1>5, UpToSize, FS_Subset
  <1>9. Cardinality(UpTo(t, n, v)) =< k - 1
    BY <1>4, <1>6, FS_Subset
  <1>10. /\ Cardinality(UpTo(t, n, v)) = Cardinality(UpTo(b, n, v))
         /\ Cardinality(UpTo(u, n, v)) = Cardinality(UpTo(c, n, v))
    BY <1>2, SortingCounts
  <1>11. \A s : Cardinality(UpTo(s, n, v)) \in Nat
    BY UpToSize
  <1> QED
    BY <1>7, <1>8, <1>9, <1>10, <1>11

(* Interpolation keeps the order of two samples. *)
LEMMA PercentileGrows ==
  ASSUME NEW n \in Nat \ {0}, NEW t \in [1 .. n -> Nat], NEW u \in [1 .. n -> Nat],
         \A k \in 1 .. n : t[k] =< u[k], NEW q \in 0 .. 99
  PROVE  Percentile(t, q) =< Percentile(u, q)
  <1> DEFINE idx == (n - 1) * q
             lo == idx \div 100
             w == idx % 100
             hi == IF lo + 1 < n - 1 THEN lo + 1 ELSE n - 1
  <1>1. Len(t) = n /\ Len(u) = n
    OBVIOUS
  <1>2. /\ Percentile(t, q) = t[lo + 1] * (100 - w) + t[hi + 1] * w
        /\ Percentile(u, q) = u[lo + 1] * (100 - w) + u[hi + 1] * w
    BY <1>1 DEF Percentile
  <1>3. idx \in Nat /\ idx =< (n - 1) * 99
    OBVIOUS
  <1>4. lo \in 0..(n - 1) /\ w \in 0..99
    BY <1>3
  <1>5. lo + 1 \in 1 .. n /\ hi + 1 \in 1 .. n
    BY <1>4
  <1> HIDE DEF idx, lo, hi, w
  <1> DEFINE a == t[lo + 1]
             b == t[hi + 1]
             c == u[lo + 1]
             d == u[hi + 1]
             m == 100 - w
  <1>6. /\ a \in Nat /\ b \in Nat /\ c \in Nat /\ d \in Nat
        /\ a =< c /\ b =< d /\ m \in Nat /\ w \in Nat
    BY <1>4, <1>5
  <1> HIDE DEF a, b, c, d, m
  <1>7. a * m =< c * m /\ b * w =< d * w
    BY <1>6
  <1>8. a * m \in Nat /\ b * w \in Nat /\ c * m \in Nat /\ d * w \in Nat
    BY <1>6
  <1>9. a * m + b * w =< c * m + d * w
    BY <1>7, <1>8
  <1> QED
    BY <1>2, <1>9 DEF a, b, c, d, m

(* A summary of larger timings has larger figures. *)
NoFaster(b, c) ==
    /\ b.p50 =< c.p50 /\ b.p90 =< c.p90
    /\ b.p95 =< c.p95 /\ b.p99 =< c.p99
    /\ AtMost(b.mean, c.mean)
    /\ AtMost(c.records_per_s, b.records_per_s)

LEMMA SumType ==
  ASSUME NEW n \in Nat, NEW s \in [1 .. n -> Nat]
  PROVE  SumFunction(s) \in Nat
  <1>1. IsFiniteSet(1 .. n)
    BY FS_Interval
  <1>2. SumFunctionOnSet(s, 1 .. n) \in Nat
    BY <1>1, SumGrows
  <1>3. DOMAIN s = 1 .. n
    OBVIOUS
  <1> QED
    BY <1>2, <1>3, Zenon DEF SumFunction

LEMMA SummaryGrows ==
  ASSUME NEW n \in Nat \ {0}, NEW b \in [1 .. n -> Nat], NEW c \in [1 .. n -> Nat],
         \A j \in 1 .. n : b[j] =< c[j],
         NEW t \in SortedOf(b), NEW u \in SortedOf(c)
  PROVE  NoFaster(Summary(b, t), Summary(c, u))
  <1>1. t \in [1 .. n -> Nat] /\ u \in [1 .. n -> Nat]
    BY DEF SortedOf, Range
  <1>2. \A k \in 1 .. n : t[k] =< u[k]
    BY SortingGrows
  <1>3. \A q \in 0 .. 99 : Percentile(t, q) =< Percentile(u, q)
    BY <1>1, <1>2, PercentileGrows
  <1> DEFINE x == SumFunction(b)
             y == SumFunction(c)
  <1>4. x \in Nat /\ y \in Nat /\ x =< y
    <2>1. IsFiniteSet(1 .. n)
      BY FS_Interval
    <2>2. /\ SumFunctionOnSet(b, 1 .. n) \in Nat /\ SumFunctionOnSet(c, 1 .. n) \in Nat
          /\ SumFunctionOnSet(b, 1 .. n) =< SumFunctionOnSet(c, 1 .. n)
      BY <2>1, SumGrows
    <2>3. DOMAIN b = 1 .. n /\ DOMAIN c = 1 .. n
      OBVIOUS
    <2>4. x = SumFunctionOnSet(b, 1 .. n) /\ y = SumFunctionOnSet(c, 1 .. n)
      BY <2>3, Zenon DEF SumFunction
    <2> HIDE DEF x, y
    <2> QED
      BY <2>2, <2>4
  <1>5. Len(b) = n /\ Len(c) = n
    OBVIOUS
  <1>6. /\ Mean(b) = [num |-> x, den |-> n] /\ Mean(c) = [num |-> y, den |-> n]
    BY <1>5 DEF Mean
  <1> HIDE DEF x, y
  <1>7. x * n =< y * n /\ n * x =< n * y
    BY <1>4
  <1>8. AtMost(Mean(b), Mean(c))
        /\ AtMost(RecordsPerSecond(Mean(c)), RecordsPerSecond(Mean(b)))
    BY <1>6, <1>7 DEF AtMost, RecordsPerSecond
  <1>9. 50 \in 0 .. 99 /\ 90 \in 0 .. 99 /\ 95 \in 0 .. 99 /\ 99 \in 0 .. 99
    OBVIOUS
  <1> QED
    BY <1>3, <1>8, <1>9 DEF NoFaster, Summary

-----------------------------------------------------------------------------
(* The rows that summarize_times may make of n timings. *)
RowsFrom(n) ==
    UNION {{Summary(s, t) : t \in [1..n -> Times]} : s \in [1..n -> Times]}

LEMMA RowMade ==
  ASSUME NEW n, NEW s \in [1..n -> Times], NEW t \in [1..n -> Times]
  PROVE  Summary(s, t) \in RowsFrom(n)
  <1> DEFINE Of(x) == {Summary(x, u) : u \in [1..n -> Times]}
  <1>1. Summary(s, t) \in Of(s)
    OBVIOUS
  <1>2. Of(s) \in {Of(x) : x \in [1..n -> Times]}
    OBVIOUS
  <1> QED
    BY <1>1, <1>2 DEF RowsFrom

(* The rows so far of a run with arguments a are summaries of its timings. *)
Made(rows, times, a) ==
    /\ a.iterations \in Nat \ {0}
    /\ RowCount(a) \in Nat
    /\ times \in [1 .. RowCount(a) -> [1 .. a.iterations -> Times]]
    /\ rows \in Seq(RowsFrom(a.iterations))
    /\ Len(rows) =< RowCount(a)
    /\ \A r \in 1 .. Len(rows) :
         \E t \in SortedOf(times[r]) : rows[r] = Summary(times[r], t)

RowsMade == Made(baseRows, baseTimes, base) /\ Made(curRows, curTimes, cur)

LEMMA RowCountType ==
  ASSUME NEW o \in OptionSpace
  PROVE  RowCount(Arguments(o)) \in Nat
  <1> DEFINE a == Arguments(o)
  <1>1. a.profiles \in Seq(PayloadProfiles) /\ a.formats \in Seq(Codecs)
    BY RegressionAssumption DEF Arguments
  <1>2. Len(a.profiles) \in Nat /\ Len(a.formats) \in Nat
    BY <1>1
  <1>3. Len(Tiers(a)) \in Nat
    BY DEF Tiers
  <1> HIDE DEF a
  <1>4. \A x, y, z \in Nat : x * y * z \in Nat
    OBVIOUS
  <1>5. RowCount(a) \in Nat
    BY <1>2, <1>3, <1>4, Zenon DEF RowCount
  <1> QED
    BY <1>5 DEF a


LEMMA NothingMade ==
  ASSUME NEW o \in OptionSpace, Accepted(o),
         NEW times \in [1 .. RowCount(Arguments(o)) ->
                          [1 .. Arguments(o).iterations -> Times]]
  PROVE  Made(<<>>, times, Arguments(o))
  <1> DEFINE a == Arguments(o)
  <1>1. a.iterations \in Nat \ {0}
    BY RegressionAssumption DEF Accepted, Arguments
  <1>2. RowCount(a) \in Nat
    BY RowCountType
  <1>3. times \in [1 .. RowCount(a) -> [1 .. a.iterations -> Times]]
    OBVIOUS
  <1> HIDE DEF a
  <1> QED
    BY <1>1, <1>2, <1>3 DEF Made, a

(* One more row is summarized. *)
LEMMA OneMoreMade ==
  ASSUME NEW rows, NEW times, NEW a, Made(rows, times, a), Len(rows) < RowCount(a),
         NEW t \in SortedOf(times[Len(rows) + 1])
  PROVE  Made(Append(rows, Summary(times[Len(rows) + 1], t)), times, a)
  <1> DEFINE k == Len(rows) + 1
             n == a.iterations
             row == Summary(times[k], t)
             more == Append(rows, row)
  <1>1. /\ n \in Nat \ {0} /\ RowCount(a) \in Nat /\ k \in 1 .. RowCount(a)
        /\ times[k] \in [1 .. n -> Times]
        /\ rows \in Seq(RowsFrom(n)) /\ Len(rows) \in Nat
    BY DEF Made
  <1>2. row \in RowsFrom(n)
    <2>1. t \in [1 .. n -> Range(times[k])]
      BY <1>1 DEF SortedOf
    <2>2. t \in [1 .. n -> Times]
      BY <1>1, <2>1 DEF Range
    <2> QED
      BY <1>1, <2>2, RowMade, Zenon
  <1>3. row = Summary(times[k], t) /\ t \in SortedOf(times[k])
    OBVIOUS
  <1> HIDE DEF row
  <1>4. /\ more \in Seq(RowsFrom(n)) /\ Len(more) = k
        /\ more[k] = row
        /\ \A r \in 1 .. Len(rows) : more[r] = rows[r]
    BY <1>1, <1>2
  <1> HIDE DEF more
  <1>5. ASSUME NEW r \in 1 .. k
        PROVE  \E u \in SortedOf(times[r]) : more[r] = Summary(times[r], u)
    <2>1. CASE r = k
      BY <1>3, <1>4, <2>1
    <2>2. CASE r # k
      <3>1. r \in 1 .. Len(rows)
        BY <1>1, <2>2
      <3>2. \E u \in SortedOf(times[r]) : rows[r] = Summary(times[r], u)
        BY <3>1 DEF Made
      <3> QED
        BY <1>4, <3>1, <3>2
    <2> QED
      BY <2>1, <2>2
  <1>6. times \in [1 .. RowCount(a) -> [1 .. n -> Times]] /\ k =< RowCount(a)
    BY <1>1 DEF Made
  <1> HIDE DEF k
  <1>7. Made(more, times, a)
    BY <1>1, <1>4, <1>5, <1>6 DEF Made
  <1> QED
    BY <1>7 DEF more, row, k

LEMMA InitMade == Init => RowsMade
  <1> SUFFICES ASSUME Init PROVE RowsMade
    OBVIOUS
  <1>1. PICK o \in OptionSpace : Accepted(o) /\ base = Arguments(o)
    BY DEF Init
  <1>2. PICK p \in OptionSpace : Accepted(p) /\ cur = Arguments(p)
    BY DEF Init
  <1>3. /\ baseTimes \in [1 .. RowCount(base) -> [1 .. base.iterations -> Times]]
        /\ curTimes \in [1 .. RowCount(cur) -> [1 .. cur.iterations -> Times]]
        /\ baseRows = <<>> /\ curRows = <<>>
    BY DEF Init
  <1>4. Made(<<>>, baseTimes, base)
    BY <1>1, <1>3, NothingMade
  <1>5. Made(<<>>, curTimes, cur)
    BY <1>2, <1>3, NothingMade
  <1> QED
    BY <1>3, <1>4, <1>5 DEF RowsMade

LEMMA NextMade == RowsMade /\ [Next]_vars => RowsMade'
  <1> SUFFICES ASSUME RowsMade, [Next]_vars PROVE RowsMade'
    OBVIOUS
  <1>1. base' = base /\ cur' = cur /\ baseTimes' = baseTimes /\ curTimes' = curTimes
    BY DEF Next, SummarizeBaseline, SummarizeCurrent, Skip, Accept, CompareRow,
           Finish, vars, runs
  <1>2. Made(baseRows', baseTimes, base)
    <2>1. CASE SummarizeBaseline
      <3>1. PICK t \in SortedOf(baseTimes[Len(baseRows) + 1]) :
              baseRows' = Append(baseRows, Summary(baseTimes[Len(baseRows) + 1], t))
        BY <2>1 DEF SummarizeBaseline
      <3>2. Made(baseRows, baseTimes, base) /\ Len(baseRows) < RowCount(base)
        BY <2>1 DEF SummarizeBaseline, RowsMade
      <3> QED
        BY <3>1, <3>2, OneMoreMade
    <2>2. SummarizeBaseline \/ baseRows' = baseRows
      BY DEF Next, SummarizeCurrent, Skip, Accept, CompareRow, Finish, vars, reports
    <2> QED
      BY <2>1, <2>2 DEF RowsMade
  <1>3. Made(curRows', curTimes, cur)
    <2>1. CASE SummarizeCurrent
      <3>1. PICK t \in SortedOf(curTimes[Len(curRows) + 1]) :
              curRows' = Append(curRows, Summary(curTimes[Len(curRows) + 1], t))
        BY <2>1 DEF SummarizeCurrent
      <3>2. Made(curRows, curTimes, cur) /\ Len(curRows) < RowCount(cur)
        BY <2>1 DEF SummarizeCurrent, RowsMade
      <3> QED
        BY <3>1, <3>2, OneMoreMade
    <2>2. SummarizeCurrent \/ curRows' = curRows
      BY DEF Next, SummarizeBaseline, Skip, Accept, CompareRow, Finish, vars, reports
    <2> QED
      BY <2>1, <2>2 DEF RowsMade
  <1>4. RowsMade' <=> /\ Made(baseRows', baseTimes', base')
                      /\ Made(curRows', curTimes', cur')
    BY DEF RowsMade, Made, RowCount, Tiers, RowsFrom
  <1> QED
    BY <1>1, <1>2, <1>3, <1>4

LEMMA MadeRows ==
  ASSUME NEW rows, NEW times, NEW a, Made(rows, times, a)
  PROVE  DOMAIN rows = 1 .. Len(rows)
  BY DEF Made

(* What a finished row of a run is made of. *)
LEMMA RowOf ==
  ASSUME NEW rows, NEW times, NEW a, Made(rows, times, a), NEW r \in 1 .. Len(rows)
  PROVE  /\ a.iterations \in Nat \ {0}
         /\ times[r] \in [1 .. a.iterations -> Nat]
         /\ \E t \in SortedOf(times[r]) : rows[r] = Summary(times[r], t)
  <1>1. times[r] \in [1 .. a.iterations -> Times]
    BY DEF Made
  <1>2. times[r] \in [1 .. a.iterations -> Nat]
    BY <1>1, RegressionAssumption
  <1> QED
    BY <1>2 DEF Made

(* The percentiles of every row of a report are in order and between two of   *)
(* its timings, for every number of iterations and all timings (stats.py:4).  *)
THEOREM PercentilesAreOrdered == Spec => []FiguresAreOrdered
  <1>1. RowsMade => FiguresAreOrdered
    <2> SUFFICES ASSUME RowsMade, NEW r \in DOMAIN curRows
                 PROVE  Ordered(curRows[r], curTimes[r])
      BY DEF FiguresAreOrdered, Ordered
    <2>1. r \in 1 .. Len(curRows) /\ Made(curRows, curTimes, cur)
      BY MadeRows DEF RowsMade
    <2>2. /\ cur.iterations \in Nat \ {0}
          /\ curTimes[r] \in [1 .. cur.iterations -> Nat]
          /\ \E t \in SortedOf(curTimes[r]) : curRows[r] = Summary(curTimes[r], t)
      BY <2>1, RowOf
    <2>3. PICK t \in SortedOf(curTimes[r]) : curRows[r] = Summary(curTimes[r], t)
      BY <2>2
    <2>4. Ordered(Summary(curTimes[r], t), curTimes[r])
      BY <2>2, SummaryOrdered, ZenonT(30)
    <2> QED
      BY <2>3, <2>4
  <1> QED
    BY <1>1, InitMade, NextMade, PTL DEF Spec

(* A row none of whose timings got shorter looks no faster in any figure, for *)
(* every number of iterations: neither sorting nor adding lets a smaller      *)
(* figure come of larger timings (stats.py:4-40).                             *)
THEOREM SlowerRowsLookSlower == Spec => []SlowerLooksSlower
  <1>1. RowsMade => SlowerLooksSlower
    <2> SUFFICES ASSUME RowsMade,
                        NEW r \in DOMAIN curRows \cap DOMAIN baseRows,
                        DOMAIN curTimes[r] = DOMAIN baseTimes[r],
                        \A j \in DOMAIN curTimes[r] : baseTimes[r][j] =< curTimes[r][j]
                 PROVE  NoFaster(baseRows[r], curRows[r])
      BY DEF SlowerLooksSlower, NoFaster
    <2>1. /\ r \in 1 .. Len(curRows) /\ Made(curRows, curTimes, cur)
          /\ r \in 1 .. Len(baseRows) /\ Made(baseRows, baseTimes, base)
      BY MadeRows DEF RowsMade
    <2> DEFINE n == cur.iterations
               b == baseTimes[r]
               c == curTimes[r]
    <2>2. /\ n \in Nat \ {0} /\ c \in [1 .. n -> Nat]
          /\ \E u \in SortedOf(c) : curRows[r] = Summary(c, u)
      BY <2>1, RowOf
    <2>3. /\ b \in [1 .. base.iterations -> Nat]
          /\ \E t \in SortedOf(b) : baseRows[r] = Summary(b, t)
      BY <2>1, RowOf
    <2>4. b \in [1 .. n -> Nat]
      BY <2>2, <2>3
    <2>5. \A j \in 1 .. n : b[j] =< c[j]
      BY <2>2
    <2> HIDE DEF n, b, c
    <2>6. PICK u \in SortedOf(c) : curRows[r] = Summary(c, u)
      BY <2>2
    <2>7. PICK t \in SortedOf(b) : baseRows[r] = Summary(b, t)
      BY <2>3
    <2> QED
      BY <2>2, <2>4, <2>5, <2>6, <2>7, SummaryGrows
  <1> QED
    BY <1>1, InitMade, NextMade, PTL DEF Spec

-----------------------------------------------------------------------------
(* Once accepted, the two command lines stay comparable. *)
Alike == pc \in {"compare", "done"} => Fingerprint(cur) = Fingerprint(base)

LEMMA AlikeAlways == Spec => []Alike
  <1>1. Init => Alike
    BY DEF Init, Alike
  <1>2. Alike /\ [Next]_vars => Alike'
    <2> SUFFICES ASSUME Alike, [Next]_vars PROVE Alike'
      OBVIOUS
    <2>1. cur' = cur /\ base' = base
      BY DEF Next, SummarizeBaseline, SummarizeCurrent, Skip, Accept, CompareRow,
             Finish, vars, runs
    <2>2. pc' \in {"compare", "done"} =>
            pc \in {"compare", "done"} \/ Fingerprint(cur) = Fingerprint(base)
      BY DEF Next, SummarizeBaseline, SummarizeCurrent, Skip, Accept, CompareRow,
             Finish, vars, Comparable
    <2>3. /\ Fingerprint(cur)' = Fingerprint(cur)
          /\ Fingerprint(base)' = Fingerprint(base)
      BY <2>1
    <2> QED
      BY <2>2, <2>3 DEF Alike
  <1> QED
    BY <1>1, <1>2, PTL DEF Spec

(* No row of an accepted check goes without a baseline row, whatever the      *)
(* matrix and however often a format is repeated (regression.py:7, 104).      *)
THEOREM NoRowIsPassedOver == Spec => []EveryRowHasABaseline
  <1>1. Alike => EveryRowHasABaseline
    <2> SUFFICES ASSUME Fingerprint(cur) = Fingerprint(base)
                 PROVE  /\ RowCount(base) = RowCount(cur)
                        /\ \A r \in 1..RowCount(cur) :
                             Matching(base, KeyOf(cur, r)) # {}
      BY DEF Alike, EveryRowHasABaseline
    <2>1. /\ cur.tier = base.tier /\ cur.profiles = base.profiles
          /\ cur.formats = base.formats
      BY DEF Fingerprint
    <2>2. Tiers(cur) = Tiers(base)
      BY <2>1 DEF Tiers
    <2>3. RowCount(base) = RowCount(cur)
      BY <2>1, <2>2 DEF RowCount
    <2>4. \A r : KeyOf(base, r) = KeyOf(cur, r)
      BY <2>1, <2>2 DEF KeyOf
    <2> QED
      BY <2>3, <2>4 DEF Matching
  <1> QED
    BY <1>1, AlikeAlways, PTL

-----------------------------------------------------------------------------
(* The ratio of two means of equally many timings is that of their sums. *)
TooSlow(b, c) == b > 0 /\ 100 * (c - b) > WarnPercent * b

LEMMA RatioOfSums ==
  ASSUME NEW n \in Nat \ {0}, NEW b \in Nat, NEW c \in Nat
  PROVE  Exceeds([num |-> c, den |-> n], [num |-> b, den |-> n])
           <=> 100 * (c - b) > WarnPercent * b
  <1> DEFINE d == WarnPercent * b
             x == 100 * c
             y == 100 * b + d
             left == c * (n * 100)
             right == (b * (100 + WarnPercent)) * n
  <1>1. WarnPercent \in Nat
    BY RegressionAssumption
  <1>2. d \in Nat /\ x \in Nat /\ y \in Nat
    BY <1>1
  <1>3. left = n * x
    OBVIOUS
  <1>4. right = n * y
    <2>1. b * (100 + WarnPercent) = y
      BY <1>1
    <2> HIDE DEF y
    <2> QED
      BY <1>2, <2>1
  <1>5. 100 * (c - b) > d <=> x > y
    <2> HIDE DEF d
    <2> QED
      BY <1>2
  <1>6. Exceeds([num |-> c, den |-> n], [num |-> b, den |-> n]) <=> ~(left =< right)
    BY DEF AtMost, Exceeds, Threshold
  <1> HIDE DEF x, y, left, right
  <1>7. n * x =< n * y <=> x =< y
    <2>1. x =< y => n * x =< n * y
      BY <1>2
    <2>2. ASSUME ~(x =< y) PROVE ~(n * x =< n * y)
      <3>1. y + 1 =< x
        BY <1>2, <2>2
      <3>2. n * (y + 1) =< n * x
        BY <1>2, <3>1
      <3>3. n * (y + 1) = n * y + n /\ n * y \in Nat /\ n * x \in Nat
        BY <1>2
      <3> QED
        BY <3>2, <3>3
    <2> QED
      BY <2>1, <2>2
  <1> QED
    BY <1>2, <1>3, <1>4, <1>5, <1>6, <1>7

(* Where every cell is there once, the row compared with is that of the same  *)
(* position.                                                                  *)
LEMMA SameCell ==
  ASSUME Fingerprint(cur) = Fingerprint(base), DistinctCells(cur),
         NEW r \in 1 .. RowCount(cur), r \in Nat
  PROVE  BaseRow(KeyOf(cur, r)) = r
  <1>1. /\ cur.tier = base.tier /\ cur.profiles = base.profiles
        /\ cur.formats = base.formats
    BY DEF Fingerprint
  <1>2. Tiers(cur) = Tiers(base)
    BY <1>1 DEF Tiers
  <1>3. RowCount(base) = RowCount(cur)
    BY <1>1, <1>2 DEF RowCount
  <1>4. \A k : KeyOf(base, k) = KeyOf(cur, k)
    BY <1>1, <1>2 DEF KeyOf
  <1>5. Matching(base, KeyOf(cur, r)) = {r}
    BY <1>3, <1>4 DEF DistinctCells, Matching
  <1> QED
    BY <1>5 DEF BaseRow

(* Warnings name rows in order, all of them before k; up to there exactly     *)
(* the rows that are too slow.                                                *)
InOrderBefore(ws, k) ==
    /\ ws \in Seq(Nat)
    /\ \A w \in 1 .. Len(ws) : ws[w] < k
    /\ \A w \in 1 .. Len(ws) - 1 : ws[w] < ws[w + 1]

Names(ws, r) == \E w \in 1 .. Len(ws) : ws[w] = r

ExactBefore(ws, k, bt, ct) ==
    \A r \in 1 .. k - 1 :
      Names(ws, r) <=> TooSlow(SumFunction(bt[r]), SumFunction(ct[r]))

WarnInv ==
    /\ pc \in {"measure", "check", "compare", "skipped", "done"}
    /\ pc # "measure" =>
         Len(baseRows) = RowCount(base) /\ Len(curRows) = RowCount(cur)
    /\ i \in Nat \ {0}
    /\ pc \notin {"compare", "done"} => i = 1 /\ warnings = <<>>
    /\ pc = "done" => i = RowCount(cur) + 1
    /\ i =< RowCount(cur) + 1
    /\ InOrderBefore(warnings, i)
    /\ DistinctCells(cur) => ExactBefore(warnings, i, baseTimes, curTimes)

LEMMA Warned ==
  ASSUME NEW ws, NEW k \in Nat \ {0}, InOrderBefore(ws, k), NEW warn \in BOOLEAN,
         NEW more, more = IF warn THEN Append(ws, k) ELSE ws
  PROVE  /\ InOrderBefore(more, k + 1)
         /\ Names(more, k) <=> warn
         /\ \A r \in 1 .. k - 1 : Names(more, r) <=> Names(ws, r)
  <1>1. /\ ws \in Seq(Nat) /\ Len(ws) \in Nat
        /\ \A w \in 1 .. Len(ws) : ws[w] < k /\ ws[w] \in Nat
        /\ \A w \in 1 .. Len(ws) - 1 : ws[w] < ws[w + 1]
    BY DEF InOrderBefore
  <1>2. CASE ~warn
    <2>1. more = ws
      BY <1>2
    <2>2. \A w \in 1 .. Len(ws) : ws[w] < k + 1 /\ ws[w] # k
      BY <1>1
    <2> QED
      BY <1>1, <1>2, <2>1, <2>2 DEF InOrderBefore, Names
  <1>3. CASE warn
    <2>1. /\ more \in Seq(Nat) /\ Len(more) = Len(ws) + 1
          /\ \A w \in 1 .. Len(ws) : more[w] = ws[w]
          /\ more[Len(ws) + 1] = k
      BY <1>1, <1>3
    <2> DEFINE n == Len(ws)
    <2>2. n \in Nat /\ Len(more) = n + 1 /\ more[n + 1] = k
          /\ \A w \in 1 .. n : more[w] = ws[w]
      BY <1>1, <2>1
    <2>3. /\ \A w \in 1 .. n : ws[w] < k /\ ws[w] \in Nat
          /\ \A w \in 1 .. n - 1 : ws[w] < ws[w + 1]
      BY <1>1
    <2> HIDE DEF n
    <2>4. \A w \in 1 .. n + 1 : more[w] < k + 1
      <3> SUFFICES ASSUME NEW w \in 1 .. n + 1 PROVE more[w] < k + 1
        OBVIOUS
      <3>1. w = n + 1 \/ w \in 1 .. n
        BY <2>2
      <3> QED
        BY <2>2, <2>3, <3>1
    <2>5. \A w \in 1 .. (n + 1) - 1 : more[w] < more[w + 1]
      <3> SUFFICES ASSUME NEW w \in 1 .. n PROVE more[w] < more[w + 1]
        BY <2>2
      <3>1. CASE w = n
        BY <2>2, <2>3, <3>1
      <3>2. CASE w # n
        <4>1. w \in 1 .. n - 1 /\ w + 1 \in 1 .. n
          BY <2>2, <3>2
        <4> QED
          BY <2>2, <2>3, <4>1
      <3> QED
        BY <3>1, <3>2
    <2>6. \A r \in 1 .. k - 1 :
            (\E w \in 1 .. n + 1 : more[w] = r) <=> (\E w \in 1 .. n : ws[w] = r)
      <3>1. \A w : w \in 1 .. n + 1 <=> (w = n + 1 \/ w \in 1 .. n)
        BY <2>2
      <3>2. \A r \in 1 .. k - 1 : r # k
        OBVIOUS
      <3> QED
        BY <2>2, <3>1, <3>2
    <2>7. n + 1 \in 1 .. n + 1
      BY <2>2
    <2> QED
      BY <1>3, <2>1, <2>2, <2>4, <2>5, <2>6, <2>7 DEF InOrderBefore, Names, n
  <1> QED
    BY <1>2, <1>3

LEMMA InitWarned == Init /\ RowsMade => WarnInv
  <1> SUFFICES ASSUME Init, RowsMade PROVE WarnInv
    OBVIOUS
  <1>1. pc = "measure" /\ i = 1 /\ warnings = <<>>
    BY DEF Init
  <1>2. RowCount(cur) \in Nat
    BY DEF RowsMade, Made
  <1>3. InOrderBefore(<<>>, 1) /\ ExactBefore(<<>>, 1, baseTimes, curTimes)
    BY DEF InOrderBefore, ExactBefore
  <1> QED
    BY <1>1, <1>2, <1>3 DEF WarnInv

(* One turn of the comparison decides about one row. *)
LEMMA CompareKeepsWarned ==
  ASSUME RowsMade, Alike, WarnInv, CompareRow
  PROVE  WarnInv'
  <1> DEFINE k == BaseRow(KeyOf(cur, i))
             warn == /\ k # 0
                     /\ baseRows[k].mean.num > 0
                     /\ Exceeds(curRows[i].mean, baseRows[k].mean)
  <1>1. /\ pc = "compare" /\ pc' = pc /\ i' = i + 1 /\ i =< RowCount(cur)
        /\ i \in Nat \ {0} /\ RowCount(cur) \in Nat
        /\ base' = base /\ cur' = cur /\ baseTimes' = baseTimes
        /\ curTimes' = curTimes /\ baseRows' = baseRows /\ curRows' = curRows
        /\ Len(baseRows) = RowCount(base) /\ Len(curRows) = RowCount(cur)
    BY DEF CompareRow, WarnInv, RowsMade, Made, runs, reports
  <1>2. warnings' = IF warn THEN Append(warnings, i) ELSE warnings
    BY DEF CompareRow
  <1>3. warn \in BOOLEAN /\ InOrderBefore(warnings, i)
    BY DEF WarnInv
  <1>4. DistinctCells(cur) =>
          (warn <=> TooSlow(SumFunction(baseTimes[i]), SumFunction(curTimes[i])))
    <2> SUFFICES ASSUME DistinctCells(cur)
                 PROVE  warn <=> TooSlow(SumFunction(baseTimes[i]),
                                         SumFunction(curTimes[i]))
      OBVIOUS
    <2>1. Fingerprint(cur) = Fingerprint(base) /\ i \in 1 .. RowCount(cur)
      BY <1>1 DEF Alike
    <2>2. k = i /\ k # 0
      BY <1>1, <2>1, SameCell
    <2>3. cur.iterations = base.iterations /\ RowCount(cur) = RowCount(base)
      <3>1. /\ cur.tier = base.tier /\ cur.profiles = base.profiles
            /\ cur.formats = base.formats /\ cur.iterations = base.iterations
        BY <2>1 DEF Fingerprint
      <3> QED
        BY <3>1 DEF RowCount, Tiers
    <2> DEFINE n == cur.iterations
               s == baseTimes[i]
               t == curTimes[i]
    <2>4. /\ n \in Nat \ {0} /\ t \in [1 .. n -> Nat]
          /\ \E u \in SortedOf(t) : curRows[i] = Summary(t, u)
      <3>1. Made(curRows, curTimes, cur) /\ i \in 1 .. Len(curRows)
        BY <1>1, <2>1 DEF RowsMade
      <3> QED
        BY <3>1, RowOf
    <2>5. /\ s \in [1 .. n -> Nat]
          /\ \E u \in SortedOf(s) : baseRows[i] = Summary(s, u)
      <3>1. Made(baseRows, baseTimes, base) /\ i \in 1 .. Len(baseRows)
        BY <1>1, <2>1, <2>3 DEF RowsMade
      <3> QED
        BY <2>3, <3>1, RowOf
    <2> HIDE DEF n, s, t
    <2>6. Len(s) = n /\ Len(t) = n
      BY <2>4, <2>5
    <2>7. /\ curRows[i].mean = [num |-> SumFunction(t), den |-> n]
          /\ baseRows[i].mean = [num |-> SumFunction(s), den |-> n]
      BY <2>4, <2>5, <2>6 DEF Mean, Summary
    <2>8. SumFunction(s) \in Nat /\ SumFunction(t) \in Nat
      BY <2>4, <2>5, SumType
    <2>9. Exceeds([num |-> SumFunction(t), den |-> n], [num |-> SumFunction(s), den |-> n])
            <=> 100 * (SumFunction(t) - SumFunction(s)) > WarnPercent * SumFunction(s)
      BY <2>4, <2>8, RatioOfSums
    <2> QED
      BY <2>2, <2>7, <2>9 DEF TooSlow, s, t
  <1> HIDE DEF k, warn
  <1>5. /\ InOrderBefore(warnings', i + 1)
        /\ Names(warnings', i) <=> warn
        /\ \A r \in 1 .. i - 1 : Names(warnings', r) <=> Names(warnings, r)
    <2>1. i \in Nat \ {0}
      BY <1>1
    <2> QED
      BY <1>2, <1>3, <2>1, Warned
  <1>6. DistinctCells(cur) => ExactBefore(warnings', i + 1, baseTimes, curTimes)
    <2> SUFFICES ASSUME DistinctCells(cur), NEW r \in 1 .. (i + 1) - 1
                 PROVE  Names(warnings', r)
                          <=> TooSlow(SumFunction(baseTimes[r]), SumFunction(curTimes[r]))
      BY DEF ExactBefore
    <2>1. CASE r = i
      BY <1>4, <1>5, <2>1
    <2>2. CASE r # i
      <3>1. r \in 1 .. i - 1
        BY <1>1, <2>2
      <3>2. ExactBefore(warnings, i, baseTimes, curTimes)
        BY DEF WarnInv
      <3> QED
        BY <1>5, <3>1, <3>2 DEF ExactBefore
    <2> QED
      BY <2>1, <2>2
  <1>7. /\ RowCount(cur)' = RowCount(cur) /\ RowCount(base)' = RowCount(base)
        /\ DistinctCells(cur)' <=> DistinctCells(cur)
    BY <1>1
  <1>8. InOrderBefore(warnings, i)' <=> InOrderBefore(warnings', i + 1)
    BY <1>1 DEF InOrderBefore
  <1>9. ExactBefore(warnings, i, baseTimes, curTimes)'
          <=> ExactBefore(warnings', i + 1, baseTimes, curTimes)
    BY <1>1 DEF ExactBefore
  <1> QED
    BY <1>1, <1>5, <1>6, <1>7, <1>8, <1>9 DEF WarnInv

LEMMA NextWarned == RowsMade /\ Alike /\ WarnInv /\ [Next]_vars => WarnInv'
  <1> SUFFICES ASSUME RowsMade, Alike, WarnInv, [Next]_vars, ~CompareRow
               PROVE  WarnInv'
    BY CompareKeepsWarned
  <1>1. /\ base' = base /\ cur' = cur /\ baseTimes' = baseTimes
        /\ curTimes' = curTimes /\ i' = i /\ warnings' = warnings
    BY DEF Next, SummarizeBaseline, SummarizeCurrent, Skip, Accept, Finish, vars, runs
  <1>2. /\ RowCount(cur)' = RowCount(cur) /\ RowCount(base)' = RowCount(base)
        /\ DistinctCells(cur)' <=> DistinctCells(cur)
        /\ InOrderBefore(warnings, i)' <=> InOrderBefore(warnings, i)
        /\ ExactBefore(warnings, i, baseTimes, curTimes)'
             <=> ExactBefore(warnings, i, baseTimes, curTimes)
    BY <1>1
  <1>3. pc' \in {"measure", "check", "compare", "skipped", "done"}
        /\ (pc' # "measure" =>
              Len(baseRows') = RowCount(base) /\ Len(curRows') = RowCount(cur))
    <2>1. CASE SummarizeBaseline
      BY <2>1 DEF SummarizeBaseline
    <2>2. CASE SummarizeCurrent
      BY <2>2 DEF SummarizeCurrent, reports
    <2>3. CASE Skip \/ Accept \/ Finish \/ UNCHANGED vars
      BY <2>3 DEF Accept, Finish, Skip, WarnInv, reports, vars
    <2> QED
      BY <2>1, <2>2, <2>3 DEF Next
  <1>4. /\ pc' \notin {"compare", "done"} => i = 1 /\ warnings = <<>>
        /\ pc' = "done" => i = RowCount(cur) + 1
    <2>1. RowCount(cur) \in Nat
      BY DEF RowsMade, Made
    <2>2. CASE Finish
      BY <2>1, <2>2 DEF Finish, WarnInv
    <2>3. CASE Accept
      BY <2>3 DEF Accept, WarnInv
    <2>4. CASE SummarizeBaseline \/ SummarizeCurrent \/ Skip \/ UNCHANGED vars
      BY <2>4 DEF SummarizeBaseline, SummarizeCurrent, Skip, WarnInv, vars
    <2> QED
      BY <2>2, <2>3, <2>4 DEF Next
  <1> QED
    BY <1>1, <1>2, <1>3, <1>4 DEF WarnInv

(* Silence means that no row got slower, and a warning that its row did, by   *)
(* more than the ratio (regression.py:101-125): for all timings, thresholds   *)
(* and matrices without repetitions.                                          *)
THEOREM NoFalseWarnings == Spec => []WarningsAreExact
  <1>1. RowsMade /\ WarnInv => WarningsAreExact
    <2> SUFFICES ASSUME RowsMade, WarnInv, pc = "done", DistinctCells(cur)
                 PROVE  /\ \A w \in 1..(Len(warnings) - 1) : warnings[w] < warnings[w + 1]
                        /\ \A r \in 1..RowCount(cur) :
                             (\E w \in DOMAIN warnings : warnings[w] = r)
                               <=> TooSlow(SumFunction(baseTimes[r]),
                                           SumFunction(curTimes[r]))
      BY DEF WarningsAreExact, TooSlow
    <2>1. /\ InOrderBefore(warnings, i) /\ ExactBefore(warnings, i, baseTimes, curTimes)
          /\ i = RowCount(cur) + 1 /\ i \in Nat \ {0}
      BY DEF WarnInv
    <2>2. DOMAIN warnings = 1 .. Len(warnings)
      BY <2>1 DEF InOrderBefore
    <2>3. \A r \in 1 .. RowCount(cur) : r \in 1 .. i - 1
      <3>1. RowCount(cur) \in Nat
        BY DEF RowsMade, Made
      <3> QED
        BY <2>1, <3>1
    <2> QED
      BY <2>1, <2>2, <2>3 DEF ExactBefore, InOrderBefore, Names
  <1>2. Init => RowsMade /\ Alike /\ WarnInv
    BY InitMade, InitWarned DEF Init, Alike
  <1>3. RowsMade /\ WarnInv /\ [Next]_vars => RowsMade'
    BY NextMade
  <1>4. Spec => []Alike
    BY AlikeAlways
  <1> QED
    BY <1>1, <1>2, <1>3, <1>4, NextWarned, PTL DEF Spec
==============================================================================
