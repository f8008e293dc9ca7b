--------------------------- MODULE StackPage_proof ---------------------------
(***************************************************************************)
(* Proofs about StackPage, for every set of reports.                        *)
(***************************************************************************)
EXTENDS StackPage, TLAPS, FiniteSetTheorems, WellFoundedInduction

(* A non-empty set of natural numbers has a least element. *)
LEMMA LeastElement ==
  ASSUME NEW S \in SUBSET Nat, S # {}
  PROVE  \E m \in S : \A l \in S : m =< l
  <1>1. PICK m \in S : \A l \in S : ~(<<l, m>> \in OpToRel(<, Nat))
    BY NatLessThanWellFounded, WFMin, ZenonT(30)
  <1>2. \A l \in S : ~(l < m)
    BY <1>1 DEF OpToRel
  <1> QED
    BY <1>2

(* A sequence of natural numbers is bounded: otherwise there is a shortest    *)
(* prefix without a bound.                                                    *)
LEMMA Bounded ==
  ASSUME NEW n \in Nat, NEW f, \A i \in 1..n : f[i] \in Nat
  PROVE  \E b \in Nat : \A i \in 1..n : f[i] =< b
  <1> DEFINE Bound(k) == \E b \in Nat : \A i \in 1..k : f[i] =< b
             S == {k \in 0..n : ~Bound(k)}
  <1>1. SUFFICES ASSUME n \in S PROVE FALSE
    OBVIOUS
  <1>2. PICK k \in S : \A m \in S : k =< m
    <2>1. S \in SUBSET Nat /\ S # {}
      BY <1>1
    <2> HIDE DEF S
    <2>2. \E m \in S : \A l \in S : m =< l
      BY <2>1, LeastElement
    <2> QED
      BY <2>2
  <1>3. k # 0
    <2>1. \A i \in 1..0 : f[i] =< 0
      OBVIOUS
    <2>2. Bound(0)
      BY <2>1
    <2> QED
      BY <1>2, <2>2
  <1>4. Bound(k - 1)
    <2>1. k - 1 \in 0..n /\ ~(k =< k - 1)
      BY <1>2, <1>3
    <2>2. k - 1 \notin S
      BY <1>2, <2>1
    <2> HIDE DEF Bound
    <2> QED
      BY <2>1, <2>2
  <1>5. PICK b \in Nat : \A i \in 1..(k - 1) : f[i] =< b
    BY <1>4
  <1> DEFINE c == IF f[k] > b THEN f[k] ELSE b
  <1>6. c \in Nat /\ \A i \in 1..k : f[i] =< c
    <2>1. k \in 1..n /\ f[k] \in Nat
      BY <1>2, <1>3
    <2>2. c \in Nat /\ f[k] =< c /\ b =< c
      BY <2>1
    <2>3. \A i \in 1..k : i = k \/ i \in 1..(k - 1)
      BY <2>1
    <2>4. \A i \in 1..(k - 1) : f[i] \in Nat /\ f[i] =< b
      BY <1>5, <2>1
    <2> HIDE DEF c
    <2>5. ASSUME NEW i \in 1..k PROVE f[i] =< c
      <3>1. CASE i = k
        BY <2>2, <3>1
      <3>2. CASE i \in 1..(k - 1)
        <4>1. f[i] \in Nat /\ f[i] =< b
          BY <2>4, <3>2
        <4>2. f[i] =< b /\ b =< c /\ f[i] \in Nat /\ c \in Nat
          BY <2>2, <4>1
        <4> QED
          BY <4>2
      <3> QED
        BY <2>3, <3>1, <3>2
    <2> QED
      BY <2>2, <2>5
  <1>7. Bound(k)
    BY <1>6
  <1> QED
    BY <1>2, <1>7

(* A bounded, non-empty set of natural numbers has a maximum: the least of    *)
(* its bounds.                                                                *)
LEMMA MaxExists ==
  ASSUME NEW S \in SUBSET Nat, S # {}, NEW b \in Nat, \A x \in S : x =< b
  PROVE  Max(S) \in S /\ \A x \in S : x =< Max(S)
  <1> DEFINE U == {c \in Nat : \A x \in S : x =< c}
  <1>1. PICK c \in U : \A d \in U : c =< d
    <2>1. U \in SUBSET Nat /\ U # {}
      OBVIOUS
    <2> HIDE DEF U
    <2>2. \E m \in U : \A l \in U : m =< l
      BY <2>1, LeastElement
    <2> QED
      BY <2>2
  <1>2. c \in S
    <2> SUFFICES ASSUME c \notin S PROVE FALSE
      OBVIOUS
    <2>1. \A x \in S : x =< c - 1 /\ c - 1 \in Nat
      BY <1>1
    <2>2. c - 1 \in U
      BY <2>1
    <2> QED
      BY <1>1, <2>2
  <1>3. \E x \in S : \A y \in S : x >= y
    BY <1>1, <1>2
  <1> QED
    BY <1>3 DEF Max

-----------------------------------------------------------------------------
(* The scale of a label is one for all rows, and no mean is above it. *)
LEMMA ScaleIsMax ==
  ASSUME NEW r \in Reports, NEW label, MeansOf(r, label) # {},
         NEW i \in DOMAIN r.rows, label \in Bars(r, i)
  PROVE  /\ Scale(r, i, label) = Max(MeansOf(r, label))
         /\ Max(MeansOf(r, label)) \in Nat \ {0}
         /\ MeanOf(r, i, label) \in Nat
         /\ MeanOf(r, i, label) =< Max(MeansOf(r, label))
  <1> DEFINE n == Len(r.rows)
             f == [j \in 1..n |-> IF label \in Bars(r, j) THEN MeanOf(r, j, label) ELSE 0]
  <1>1. n \in Nat /\ DOMAIN r.rows = 1..n
    BY StackPageAssumption
  <1>2. \A j \in 1..n : label \in Bars(r, j) => MeanOf(r, j, label) \in Nat
    BY <1>1, StackPageAssumption DEF Bars, MeanOf
  <1>3. PICK b \in Nat : \A j \in 1..n : f[j] =< b
    <2>1. \A j \in 1..n : f[j] \in Nat
      BY <1>2
    <2> HIDE DEF f
    <2> QED
      BY <1>1, <2>1, Bounded
  <1>4. MeansOf(r, label) \in SUBSET Nat /\ 0 \notin MeansOf(r, label)
    BY <1>1, <1>2 DEF MeansOf
  <1>5. \A x \in MeansOf(r, label) : x =< b
    BY <1>1, <1>3 DEF MeansOf
  <1>6. /\ Max(MeansOf(r, label)) \in MeansOf(r, label)
        /\ \A x \in MeansOf(r, label) : x =< Max(MeansOf(r, label))
    BY <1>4, <1>5, MaxExists
  <1>7. MeanOf(r, i, label) \in Nat
    BY <1>1, <1>2
  <1>8. MeanOf(r, i, label) # 0 => MeanOf(r, i, label) \in MeansOf(r, label)
    BY DEF MeansOf
  <1> QED
    BY <1>4, <1>6, <1>7, <1>8 DEF Scale

(* Whole quotients keep the order of their dividends, ... *)
LEMMA DivKeepsOrder ==
  ASSUME NEW e \in Nat \ {0}, NEW x \in Nat, NEW y \in Nat, x =< y
  PROVE  x \div e \in Nat /\ y \div e \in Nat /\ x \div e =< y \div e
  <1> DEFINE p == x \div e
             q == y \div e
  <1>1. p \in Int /\ q \in Int
    OBVIOUS
  <1>2. /\ e * p =< x /\ x < e * (p + 1)
        /\ e * q =< y /\ y < e * (q + 1)
    OBVIOUS
  <1> HIDE DEF p, q
  <1>3. p >= 0 /\ q >= 0
    BY <1>1, <1>2
  <1>4. p =< q
    <2> SUFFICES ASSUME q + 1 =< p PROVE FALSE
      BY <1>1
    <2>1. e * (q + 1) =< e * p
      BY <1>1
    <2> QED
      BY <1>1, <1>2, <2>1
  <1> QED
    BY <1>1, <1>3, <1>4 DEF p, q

(* ... and so a longer bar is a larger mean, rounding included. *)
LEMMA RoundingKeepsOrder ==
  ASSUME NEW d \in Nat \ {0}, NEW a \in Nat, NEW b \in Nat, a =< b
  PROVE  Share(a, d) \in Nat /\ Share(b, d) \in Nat /\ Share(a, d) =< Share(b, d)
  <1> DEFINE e == 2 * d
             x == 20000 * a + d
             y == 20000 * b + d
  <1>1. e \in Nat \ {0} /\ x \in Nat /\ y \in Nat /\ x =< y
    OBVIOUS
  <1> HIDE DEF e, x, y
  <1>2. x \div e \in Nat /\ y \div e \in Nat /\ x \div e =< y \div e
    BY <1>1, DivKeepsOrder
  <1>3. /\ Lower(10000, x \div e) \in Nat /\ Lower(10000, y \div e) \in Nat
        /\ Lower(10000, x \div e) =< Lower(10000, y \div e)
    BY <1>2 DEF Lower
  <1> QED
    BY <1>3 DEF Share, e, x, y
-----------------------------------------------------------------------------
(* The mean of the scale fills the track. *)
LEMMA FullTrack ==
  ASSUME NEW d \in Nat \ {0}
  PROVE  Share(d, d) = 10000
  <1> DEFINE e == 2 * d
  <1>1. e \in Nat \ {0} /\ 20000 * d + d = 10000 * e + d /\ d < e
    OBVIOUS
  <1> HIDE DEF e
  <1>2. (10000 * e + d) \div e = 10000
    BY <1>1
  <1> QED
    BY <1>1, <1>2 DEF Lower, Share, e

(* A row's own scale is a positive number: it has finitely many bars. *)
LEMMA RowScaleType ==
  ASSUME NEW r \in Reports, NEW i \in DOMAIN r.rows
  PROVE  RowScale(r, i) \in Nat \ {0}
  <1> DEFINE L == Bars(r, i)
  <1>1. CASE MeansIn(r, i) = {}
    BY <1>1 DEF RowScale
  <1>2. CASE MeansIn(r, i) # {}
    <2>1. IsFiniteSet(L) /\ \A label \in L : MeanOf(r, i, label) \in Nat
      BY StackPageAssumption DEF Bars, MeanOf
    <2>2. Cardinality(L) \in Nat /\ ExistsBijection(1..Cardinality(L), L)
      BY <2>1, FS_CardinalityType
    <2>3. PICK g \in [1..Cardinality(L) -> L] :
            \A label \in L : \E k \in 1..Cardinality(L) : g[k] = label
      BY <2>2 DEF ExistsBijection, Bijection, Injection, Surjection, IsInjective
    <2> DEFINE n == Cardinality(L)
               f == [k \in 1..n |-> MeanOf(r, i, g[k])]
    <2>4. n \in Nat /\ \A k \in 1..n : f[k] \in Nat
      BY <2>1, <2>2, <2>3
    <2>5. PICK b \in Nat : \A k \in 1..n : f[k] =< b
      <3> HIDE DEF f, n
      <3> QED
        BY <2>4, Bounded
    <2>6. \A label \in L : MeanOf(r, i, label) =< b
      BY <2>3, <2>5
    <2>7. /\ MeansIn(r, i) \in SUBSET Nat /\ 0 \notin MeansIn(r, i)
          /\ \A x \in MeansIn(r, i) : x =< b
      BY <2>1, <2>6 DEF MeansIn
    <2>8. Max(MeansIn(r, i)) \in MeansIn(r, i)
      BY <1>2, <2>7, MaxExists
    <2> QED
      BY <1>2, <2>7, <2>8 DEF RowScale
  <1> QED
    BY <1>1, <1>2

(* Without a positive mean under a label, its bars are empty. *)
LEMMA EmptyBar ==
  ASSUME NEW r \in Reports, NEW label, MeansOf(r, label) = {},
         NEW i \in DOMAIN r.rows, label \in Bars(r, i)
  PROVE  Width(r, i, label) = 0
  <1> DEFINE d == Scale(r, i, label)
  <1>1. d \in Nat \ {0}
    BY RowScaleType DEF Scale
  <1>2. MeanOf(r, i, label) = 0
    BY DEF MeansOf
  <1> HIDE DEF d
  <1>3. Share(0, d) = 0
    <2> DEFINE e == 2 * d
    <2>1. e \in Nat \ {0} /\ 20000 * 0 + d \in Nat /\ 20000 * 0 + d < e
      BY <1>1
    <2> HIDE DEF e
    <2>2. (20000 * 0 + d) \div e = 0
      BY <2>1
    <2> QED
      BY <2>2 DEF e, Lower, Share
  <1> QED
    BY <1>2, <1>3 DEF d, Width

(* A label that has positive means has one scale, and widths under it are    *)
(* ordered as the means are.                                                  *)
LEMMA OneScale ==
  ASSUME NEW r \in Reports, NEW label, MeansOf(r, label) # {},
         NEW i \in DOMAIN r.rows, label \in Bars(r, i),
         NEW j \in DOMAIN r.rows, label \in Bars(r, j)
  PROVE  /\ Width(r, i, label) > Width(r, j, label) =>
              MeanOf(r, i, label) > MeanOf(r, j, label)
         /\ MeanOf(r, i, label) = Max(MeansOf(r, label)) =>
              Width(r, i, label) = 10000
  <1> DEFINE d == Max(MeansOf(r, label))
             a == MeanOf(r, i, label)
             b == MeanOf(r, j, label)
  <1>1. d \in Nat \ {0} /\ a \in Nat /\ b \in Nat
    BY ScaleIsMax
  <1>2. Width(r, i, label) = Share(a, d) /\ Width(r, j, label) = Share(b, d)
    <2>1. Scale(r, i, label) = d /\ Scale(r, j, label) = d
      BY ScaleIsMax
    <2> QED
      BY <2>1 DEF Width
  <1> HIDE DEF d, a, b
  <1>3. Width(r, i, label) > Width(r, j, label) => a > b
    <2> SUFFICES ASSUME a =< b PROVE ~(Width(r, i, label) > Width(r, j, label))
      BY <1>1
    <2>1. Share(a, d) \in Nat /\ Share(b, d) \in Nat /\ Share(a, d) =< Share(b, d)
      BY <1>1, RoundingKeepsOrder
    <2> QED
      BY <1>2, <2>1
  <1>4. a = d => Width(r, i, label) = 10000
    BY <1>1, <1>2, FullTrack
  <1> QED
    BY <1>3, <1>4 DEF a, b, d

(* Clicks and keys never change the report, so the bars of every page of a   *)
(* report can be compared: a longer bar is a slower mean, in any two rows.    *)
THEOREM BarsCompare == Spec => []LongerBarsAreSlower
  <1> DEFINE Made == report \in Reports
  <1>1. Init => Made
    BY DEF Init
  <1>2. Made /\ [Next]_vars => Made'
    BY DEF Next, Click, Press, Activate, vars
  <1>3. Made => LongerBarsAreSlower
    <2> SUFFICES ASSUME Made,
                        NEW i \in DOMAIN report.rows, NEW j \in DOMAIN report.rows,
                        NEW label \in Bars(report, i) \cap Bars(report, j)
                 PROVE  /\ Width(report, i, label) > Width(report, j, label) =>
                             MeanOf(report, i, label) > MeanOf(report, j, label)
                        /\ MeansOf(report, label) # {}
                             /\ MeanOf(report, i, label) = Max(MeansOf(report, label))
                             => Width(report, i, label) = 10000
      BY DEF LongerBarsAreSlower
    <2>1. CASE MeansOf(report, label) = {}
      <3>1. Width(report, i, label) = 0 /\ Width(report, j, label) = 0
        BY <2>1, EmptyBar
      <3> QED
        BY <2>1, <3>1
    <2>2. CASE MeansOf(report, label) # {}
      BY <2>2, OneScale
    <2> QED
      BY <2>1, <2>2
  <1> QED
    BY <1>1, <1>2, <1>3, PTL DEF Spec
-----------------------------------------------------------------------------
(* InOrder lists a set: its positions are the ranks of the elements, and a   *)
(* set has as many ranks as elements.                                        *)
LEMMA InOrderLists ==
  ASSUME NEW S \in SUBSET Nat, IsFiniteSet(S)
  PROVE  /\ Cardinality(S) \in Nat
         /\ DOMAIN InOrder(S) = 1 .. Cardinality(S)
         /\ \A k \in 1 .. Cardinality(S) : InOrder(S)[k] \in S
         /\ \A i \in S : \E k \in 1 .. Cardinality(S) : InOrder(S)[k] = i
         /\ \A k, l \in 1 .. Cardinality(S) :
              InOrder(S)[k] = InOrder(S)[l] => k = l
  <1> DEFINE Below(i) == {j \in S : j < i}
             n == Cardinality(S)
             rank == [i \in S |-> Cardinality(Below(i)) + 1]
  <1>1. n \in Nat
    BY FS_CardinalityType
  <1>2. ASSUME NEW i \in S
        PROVE  rank[i] \in 1 .. n
    <2>1. Below(i) \in SUBSET S /\ i \notin Below(i)
      OBVIOUS
    <2>2. Cardinality(Below(i)) \in Nat /\ Cardinality(Below(i)) =< n /\ Below(i) # S
          /\ (Cardinality(Below(i)) = n => Below(i) = S)
      <3> HIDE DEF Below
      <3>1. Below(i) # S
        BY <2>1
      <3>2. IsFiniteSet(Below(i)) /\ Cardinality(Below(i)) =< Cardinality(S)
            /\ (Cardinality(S) = Cardinality(Below(i)) => S = Below(i))
        BY <2>1, FS_Subset
      <3>3. Cardinality(Below(i)) \in Nat
        BY <3>2, FS_CardinalityType
      <3> QED
        BY <3>1, <3>2, <3>3
    <2>3. rank[i] = Cardinality(Below(i)) + 1
      OBVIOUS
    <2> HIDE DEF Below, n, rank
    <2> QED
      BY <1>1, <2>2, <2>3
  <1>3. ASSUME NEW i \in S, NEW j \in S, i < j
        PROVE  rank[i] # rank[j]
    <2>1. Below(i) \in SUBSET Below(j) /\ i \in Below(j) /\ i \notin Below(i)
          /\ Below(j) \in SUBSET S
      <3>1. i \in Nat /\ j \in Nat /\ \A x \in S : x \in Nat
        OBVIOUS
      <3>2. \A x \in S : x < i => x < j
        BY <1>3, <3>1
      <3>3. ~(i < i)
        BY <3>1
      <3> QED
        BY <1>3, <3>2, <3>3
    <2>2. Cardinality(Below(i)) # Cardinality(Below(j))
      <3> HIDE DEF Below
      <3>1. IsFiniteSet(Below(j))
        BY <2>1, FS_Subset
      <3> QED
        BY <2>1, <3>1, FS_Subset
    <2>3. rank[i] = Cardinality(Below(i)) + 1 /\ rank[j] = Cardinality(Below(j)) + 1
      OBVIOUS
    <2>4. Cardinality(Below(i)) \in Nat /\ Cardinality(Below(j)) \in Nat
      <3> HIDE DEF Below
      <3>1. IsFiniteSet(Below(j)) /\ IsFiniteSet(Below(i))
        BY <2>1, FS_Subset
      <3> QED
        BY <3>1, FS_CardinalityType
    <2> HIDE DEF Below, rank
    <2> QED
      BY <2>2, <2>3, <2>4
  <1>4. \A i, j \in S : rank[i] = rank[j] => i = j
    <2> HIDE DEF rank
    <2>1. \A i, j \in S : i = j \/ i < j \/ j < i
      OBVIOUS
    <2> QED
      BY <1>3, <2>1
  <1>5. \A k \in 1 .. n : \E i \in S : rank[i] = k
    <2>1. rank \in Injection(S, 1 .. n)
      <3>1. rank \in [S -> 1 .. n]
        BY <1>2
      <3> HIDE DEF rank, n
      <3> QED
        BY <1>4, <3>1 DEF Injection, IsInjective
    <2>2. IsFiniteSet(1 .. n) /\ Cardinality(1 .. n) = n
      <3> HIDE DEF n
      <3> QED
        BY <1>1, FS_Interval
    <2>3. rank \in Surjection(S, 1 .. n)
      <3> HIDE DEF rank
      <3> QED
        BY <2>1, <2>2, FS_Injection
    <2> HIDE DEF rank, n
    <2> QED
      BY <2>3 DEF Surjection
  <1>6. ASSUME NEW k \in 1 .. n
        PROVE  InOrder(S)[k] \in S /\ rank[InOrder(S)[k]] = k
    <2>1. PICK i \in S : rank[i] = k
      BY <1>5
    <2>2. InOrder(S)[k] = CHOOSE j \in S : Cardinality(Below(j)) = k - 1
      BY DEF InOrder
    <2>3. \A j \in S : rank[j] = Cardinality(Below(j)) + 1 /\ rank[j] \in 1 .. n
      BY <1>2
    <2>4. Cardinality(Below(i)) = k - 1
      <3>1. \A j \in S : Cardinality(Below(j)) \in Nat
        <4>1. \A j \in S : Below(j) \in SUBSET S
          OBVIOUS
        <4> HIDE DEF Below
        <4> QED
          BY <4>1, FS_Subset, FS_CardinalityType
      <3> HIDE DEF Below, rank, n
      <3> QED
        BY <1>1, <2>1, <2>3, <3>1
    <2> HIDE DEF Below, rank, n
    <2>5. InOrder(S)[k] \in S /\ Cardinality(Below(InOrder(S)[k])) = k - 1
      BY <2>2, <2>4
    <2>6. rank[InOrder(S)[k]] = (k - 1) + 1
      BY <2>3, <2>5
    <2> QED
      BY <1>1, <2>5, <2>6
  <1>7. DOMAIN InOrder(S) = 1 .. n
    BY DEF InOrder
  <1> HIDE DEF rank
  <1>8. ASSUME NEW i \in S
        PROVE  \E k \in 1 .. n : InOrder(S)[k] = i
    <2>1. rank[i] \in 1 .. n
      BY <1>2
    <2> HIDE DEF n
    <2>2. InOrder(S)[rank[i]] \in S /\ rank[InOrder(S)[rank[i]]] = rank[i]
      BY <1>6, <2>1
    <2>3. InOrder(S)[rank[i]] = i
      BY <1>4, <2>2
    <2> QED
      BY <2>1, <2>3
  <1>9. \A k, l \in 1 .. n : InOrder(S)[k] = InOrder(S)[l] => k = l
    <2> HIDE DEF n
    <2> QED
      BY <1>6
  <1> QED
    BY <1>1, <1>6, <1>7, <1>8, <1>9

(* The names of a sequence: every name once. *)
LEMMA NamesList ==
  ASSUME NEW s \in Seq(STRING)
  PROVE  \E n \in Nat :
           /\ DOMAIN Names(s) = 1 .. n
           /\ \A k \in 1 .. n : Names(s)[k] # NoName /\ \E i \in 1 .. Len(s) : s[i] = Names(s)[k]
           /\ \A k, l \in 1 .. n : Names(s)[k] = Names(s)[l] => k = l
           /\ \A i \in 1 .. Len(s) : s[i] # NoName => \E k \in 1 .. n : Names(s)[k] = s[i]
  <1> DEFINE first == {i \in DOMAIN s : s[i] # NoName /\ \A j \in 1 .. i - 1 : s[j] # s[i]}
             n == Cardinality(first)
             o == InOrder(first)
  <1>1. DOMAIN s = 1 .. Len(s) /\ Len(s) \in Nat
    OBVIOUS
  <1>2. first \in SUBSET Nat /\ IsFiniteSet(first)
    <2>1. IsFiniteSet(1 .. Len(s))
      BY <1>1, FS_Interval
    <2>2. first \in SUBSET (1 .. Len(s))
      BY <1>1
    <2> HIDE DEF first
    <2>3. IsFiniteSet(first)
      BY <2>1, <2>2, FS_Subset
    <2> QED
      BY <1>1, <2>2, <2>3
  <1>3. /\ n \in Nat
        /\ \A k \in 1 .. n : o[k] \in first
        /\ \A i \in first : \E k \in 1 .. n : o[k] = i
        /\ \A k, l \in 1 .. n : o[k] = o[l] => k = l
    <2> HIDE DEF first
    <2> QED
      BY <1>2, InOrderLists
  <1>4. Names(s) = [k \in 1 .. n |-> s[o[k]]]
    BY DEF Names
  <1>5. \A i, j \in first : s[i] = s[j] => i = j
    <2> SUFFICES ASSUME NEW i \in first, NEW j \in first, i < j PROVE s[i] # s[j]
      BY <1>1
    <2> QED
      BY <1>1
  <1>6. ASSUME NEW i \in 1 .. Len(s), s[i] # NoName
        PROVE  \E j \in first : s[j] = s[i]
    <2> DEFINE same == {j \in 1 .. Len(s) : s[j] = s[i]}
    <2>1. same \in SUBSET Nat /\ same # {}
      BY <1>1
    <2>2. PICK j \in same : \A l \in same : j =< l
      <3> HIDE DEF same
      <3> QED
        BY <2>1, LeastElement
    <2>3. j \in first
      <3>1. ASSUME NEW l \in 1 .. j - 1 PROVE s[l] # s[j]
        <4>1. l \in 1 .. Len(s) /\ ~(j =< l)
          BY <1>1, <2>2
        <4> QED
          BY <2>2, <4>1
      <3> QED
        BY <1>1, <1>6, <2>2, <3>1
    <2> QED
      BY <2>2, <2>3
  <1>7. \A i \in first : i \in 1 .. Len(s) /\ s[i] # NoName
    BY <1>1
  <1> HIDE DEF first, n, o
  <1>8. DOMAIN Names(s) = 1 .. n
    BY <1>4
  <1>9. \A k \in 1 .. n : Names(s)[k] # NoName /\ \E i \in 1 .. Len(s) : s[i] = Names(s)[k]
    BY <1>3, <1>4, <1>7
  <1>10. \A k, l \in 1 .. n : Names(s)[k] = Names(s)[l] => k = l
    BY <1>3, <1>4, <1>5
  <1>11. \A i \in 1 .. Len(s) : s[i] # NoName => \E k \in 1 .. n : Names(s)[k] = s[i]
    BY <1>3, <1>4, <1>6
  <1> QED
    BY <1>3, <1>8, <1>9, <1>10, <1>11

LEMMA SameRows ==
  ASSUME NEW r \in Reports
  PROVE  /\ Len(r.rows) \in Nat /\ DOMAIN r.rows = 1 .. Len(r.rows)
         /\ \A tier : TierRows(r, tier) \in SUBSET (1 .. Len(r.rows))
         /\ \A tier : IsFiniteSet(TierRows(r, tier))
  <1>1. Len(r.rows) \in Nat /\ DOMAIN r.rows = 1 .. Len(r.rows)
    BY StackPageAssumption
  <1>2. \A tier : TierRows(r, tier) \in SUBSET (1 .. Len(r.rows))
    BY <1>1 DEF TierRows
  <1>3. IsFiniteSet(1 .. Len(r.rows))
    BY <1>1, FS_Interval
  <1>4. \A tier : IsFiniteSet(TierRows(r, tier))
    BY <1>2, <1>3, FS_Subset
  <1> QED
    BY <1>1, <1>2, <1>4

(* The profiles of a tier's rows are those of its rows, in some order. *)
LEMMA RowProfilesList ==
  ASSUME NEW r \in Reports, NEW tier
  PROVE  /\ RowProfiles(r, tier) \in Seq(STRING)
         /\ \A k \in 1 .. Len(RowProfiles(r, tier)) :
              \E i \in TierRows(r, tier) : RowProfiles(r, tier)[k] = r.rows[i].profile
         /\ \A i \in TierRows(r, tier) : \E k \in 1 .. Len(RowProfiles(r, tier)) :
              RowProfiles(r, tier)[k] = r.rows[i].profile
  <1> DEFINE S == TierRows(r, tier)
             n == Cardinality(S)
             o == InOrder(S)
             q == RowProfiles(r, tier)
  <1>1. S \in SUBSET Nat /\ IsFiniteSet(S) /\ \A i \in S : i \in DOMAIN r.rows
    BY SameRows
  <1>2. /\ n \in Nat /\ DOMAIN o = 1 .. n
        /\ \A k \in 1 .. n : o[k] \in S
        /\ \A i \in S : \E k \in 1 .. n : o[k] = i
    <2> HIDE DEF S
    <2> QED
      BY <1>1, InOrderLists
  <1>3. q = [k \in 1 .. n |-> r.rows[o[k]].profile]
    BY <1>2 DEF RowProfiles
  <1>4. \A i \in S : r.rows[i].profile \in STRING
    BY <1>1, StackPageAssumption
  <1> HIDE DEF S, n, o, q
  <1>5. q \in Seq(STRING) /\ Len(q) = n
    BY <1>2, <1>3, <1>4
  <1>6. \A k \in 1 .. n : \E i \in S : q[k] = r.rows[i].profile
    BY <1>2, <1>3
  <1>7. \A i \in S : \E k \in 1 .. n : q[k] = r.rows[i].profile
    BY <1>2, <1>3
  <1> QED
    BY <1>5, <1>6, <1>7 DEF S, q

(* The tabs of a tier have different names, among them those of its rows. *)
LEMMA TabNames ==
  ASSUME NEW r \in Reports, NEW tier \in Range(TierOrder)
  PROVE  \E n \in Nat \ {0} :
           /\ DOMAIN ProfileTabs(r, tier) = 1 .. n
           /\ \A k, l \in 1 .. n :
                ProfileTabs(r, tier)[k] = ProfileTabs(r, tier)[l] => k = l
           /\ \A i \in TierRows(r, tier) : \E k \in 1 .. n :
                ProfileTabs(r, tier)[k] = ProfileOf(r, i)
  <1> DEFINE q == RowProfiles(r, tier)
             s == r.profiles \o q
             tabs == ProfileTabs(r, tier)
  <1>1. r.profiles \in Seq(STRING) /\ q \in Seq(STRING)
    BY StackPageAssumption, RowProfilesList
  <1>2. /\ s \in Seq(STRING)
        /\ Len(s) = Len(r.profiles) + Len(q)
        /\ \A k \in 1 .. Len(q) : s[Len(r.profiles) + k] = q[k]
        /\ \A k \in 1 .. Len(s) :
             (\E j \in 1 .. Len(r.profiles) : s[k] = r.profiles[j])
             \/ (\E j \in 1 .. Len(q) : s[k] = q[j])
    <2> DEFINE p == r.profiles
    <2>1. p \in Seq(STRING) /\ q \in Seq(STRING)
      BY <1>1
    <2> HIDE DEF p, q
    <2>2. /\ p \o q \in Seq(STRING)
          /\ Len(p \o q) = Len(p) + Len(q)
          /\ Len(p) \in Nat /\ Len(q) \in Nat
      BY <2>1
    <2>3. \A k \in 1 .. Len(q) : (p \o q)[Len(p) + k] = q[k]
      BY <2>1, <2>2
    <2>4. ASSUME NEW k \in 1 .. Len(p \o q)
          PROVE  (\E j \in 1 .. Len(p) : (p \o q)[k] = p[j])
                 \/ (\E j \in 1 .. Len(q) : (p \o q)[k] = q[j])
      <3>1. CASE k =< Len(p)
        <4>1. k \in 1 .. Len(p)
          BY <2>2, <3>1
        <4>2. (p \o q)[k] = p[k]
          BY <2>1, <4>1
        <4> QED
          BY <4>1, <4>2
      <3>2. CASE ~(k =< Len(p))
        <4>1. k - Len(p) \in 1 .. Len(q) /\ Len(p) + (k - Len(p)) = k
          BY <2>2, <3>2
        <4>2. (p \o q)[Len(p) + (k - Len(p))] = q[k - Len(p)]
          BY <2>3, <4>1
        <4> QED
          BY <4>1, <4>2
      <3> QED
        BY <3>1, <3>2
    <2> QED
      BY <2>2, <2>3, <2>4 DEF p
  <1>3. PICK n \in Nat :
           /\ DOMAIN Names(s) = 1 .. n
           /\ \A k \in 1 .. n : Names(s)[k] # NoName /\ \E i \in 1 .. Len(s) : s[i] = Names(s)[k]
           /\ \A k, l \in 1 .. n : Names(s)[k] = Names(s)[l] => k = l
           /\ \A i \in 1 .. Len(s) : s[i] # NoName => \E k \in 1 .. n : Names(s)[k] = s[i]
    <2> HIDE DEF s
    <2> QED
      BY <1>2, NamesList
  <1>4. ASSUME NEW i \in TierRows(r, tier)
        PROVE  /\ \E k \in 1 .. Len(s) : s[k] = r.rows[i].profile
               /\ r.rows[i].profile = NoName =>
                    \A k \in 1 .. Len(s) : s[k] = NoName
    <2>1. PICK k \in 1 .. Len(q) : q[k] = r.rows[i].profile
      BY RowProfilesList
    <2>2. Len(r.profiles) \in Nat /\ Len(q) \in Nat
      BY <1>1
    <2> HIDE DEF q, s
    <2>3. Len(r.profiles) + k \in 1 .. Len(s)
      BY <1>2, <2>2
    <2>4. s[Len(r.profiles) + k] = r.rows[i].profile
      BY <1>2, <2>1
    <2>5. ASSUME r.rows[i].profile = NoName, NEW l \in 1 .. Len(s)
          PROVE  s[l] = NoName
      <3>1. i \in DOMAIN r.rows /\ TierOf(r, i) = tier
        BY SameRows DEF TierRows
      <3>2. /\ Range(r.profiles) \subseteq {NoName}
            /\ \A j \in TierRows(r, tier) : r.rows[j].profile = NoName
        BY <2>5, <3>1, StackPageAssumption
      <3>3. \A j \in 1 .. Len(r.profiles) : r.profiles[j] = NoName
        <4> DEFINE p == r.profiles
        <4>1. p \in Seq(STRING) /\ \A x \in Range(p) : x = NoName
          BY <1>1, <3>2
        <4> HIDE DEF p
        <4>2. DOMAIN p = 1 .. Len(p)
          BY <4>1
        <4>3. \A j \in 1 .. Len(p) : p[j] \in Range(p)
          BY <4>2 DEF Range
        <4>4. \A j \in 1 .. Len(p) : p[j] = NoName
          BY <4>1, <4>3
        <4> QED
          BY <4>4 DEF p
      <3>4. \A j \in 1 .. Len(q) : q[j] = NoName
        BY <3>2, RowProfilesList DEF q
      <3> QED
        BY <1>2, <3>3, <3>4
    <2> QED
      BY <2>3, <2>4, <2>5
  <1>5. CASE Names(s) # <<>>
    <2>1. tabs = Names(s)
      BY <1>5 DEF ProfileTabs
    <2>2. n # 0
      <3> SUFFICES ASSUME n = 0 PROVE FALSE
        OBVIOUS
      <3>1. Names(s) = [k \in 1 .. n |-> Names(s)[k]]
        BY <1>3 DEF Names
      <3>2. 1 .. n = {}
        OBVIOUS
      <3> HIDE DEF s
      <3>3. Names(s) = <<>>
        BY <3>1, <3>2
      <3> QED
        BY <1>5, <3>3
    <2>3. ASSUME NEW i \in TierRows(r, tier)
          PROVE  \E k \in 1 .. n : tabs[k] = ProfileOf(r, i)
      <3> HIDE DEF s, tabs
      <3>1. r.rows[i].profile # NoName
        <4> SUFFICES ASSUME r.rows[i].profile = NoName PROVE FALSE
          OBVIOUS
        <4>1. \A k \in 1 .. Len(s) : s[k] = NoName
          BY <1>4
        <4>2. Names(s)[1] # NoName /\ \E j \in 1 .. Len(s) : s[j] = Names(s)[1]
          BY <1>3, <2>2
        <4> QED
          BY <4>1, <4>2
      <3>2. ProfileOf(r, i) = r.rows[i].profile
        BY <3>1 DEF ProfileOf
      <3> QED
        BY <1>3, <1>4, <2>1, <3>1, <3>2
    <2> HIDE DEF s
    <2> QED
      BY <1>3, <2>1, <2>2, <2>3 DEF tabs
  <1>6. CASE Names(s) = <<>>
    <2>1. tabs = <<"?">>
      BY <1>6 DEF ProfileTabs
    <2>2. n = 0
      <3>1. DOMAIN Names(s) = {}
        BY <1>6
      <3> HIDE DEF s
      <3>2. 1 .. n = {}
        BY <1>3, <3>1
      <3> QED
        BY <3>2
    <2>3. ASSUME NEW i \in TierRows(r, tier)
          PROVE  ProfileOf(r, i) = "?"
      <3> HIDE DEF s
      <3>1. r.rows[i].profile = NoName
        BY <1>3, <1>4, <2>2
      <3> QED
        BY <3>1 DEF ProfileOf
    <2> HIDE DEF s
    <2>4. DOMAIN tabs = 1 .. 1 /\ tabs[1] = "?"
      BY <2>1
    <2>5. \A k \in 1 .. 1 : k = 1
      OBVIOUS
    <2> QED
      BY <2>3, <2>4, <2>5
  <1> QED
    BY <1>5, <1>6

LEMMA RowsHavePanels ==
  ASSUME NEW r \in Reports, NEW i \in DOMAIN r.rows
  PROVE  \E t \in TabGroups(r) \ {"top"} : \E k \in DOMAIN Tabs(r, t) :
           \A u \in TabGroups(r) \ {"top"} : \A l \in DOMAIN Tabs(r, u) :
             i \in Panel(r, u, Tabs(r, u)[l]) <=> u = t /\ l = k
  <1> DEFINE t == TierOf(r, i)
  <1>1. t \in Range(TierOrder) /\ i \in TierRows(r, t)
    BY StackPageAssumption DEF TierRows
  <1>2. Range(TierOrder) = {"S0", "S1", "S2", "S3", "S4"}
    BY DEF Range, TierOrder
  <1>3. t \in TabGroups(r) \ {"top"}
    BY <1>1, <1>2 DEF TabGroups
  <1>4. \A u \in TabGroups(r) \ {"top"} : Tabs(r, u) = ProfileTabs(r, u)
    BY DEF Tabs
  <1>5. PICK n \in Nat \ {0} :
           /\ DOMAIN ProfileTabs(r, t) = 1 .. n
           /\ \A k, l \in 1 .. n :
                ProfileTabs(r, t)[k] = ProfileTabs(r, t)[l] => k = l
           /\ \A j \in TierRows(r, t) : \E k \in 1 .. n :
                ProfileTabs(r, t)[k] = ProfileOf(r, j)
    BY <1>1, TabNames
  <1>6. PICK k \in 1 .. n : ProfileTabs(r, t)[k] = ProfileOf(r, i)
    BY <1>1, <1>5
  <1>7. ASSUME NEW u \in TabGroups(r) \ {"top"}, NEW l \in DOMAIN Tabs(r, u)
        PROVE  i \in Panel(r, u, Tabs(r, u)[l]) <=> u = t /\ l = k
    <2>1. i \in Panel(r, u, Tabs(r, u)[l]) <=>
            u = t /\ ProfileOf(r, i) = Tabs(r, u)[l]
      BY DEF Panel, TierRows
    <2>2. ASSUME u = t
          PROVE  ProfileOf(r, i) = Tabs(r, u)[l] <=> l = k
      <3>1. Tabs(r, u) = ProfileTabs(r, t) /\ l \in 1 .. n
        BY <1>4, <1>5, <2>2
      <3> QED
        BY <1>5, <1>6, <3>1
    <2> HIDE DEF t
    <2> QED
      BY <2>1, <2>2
  <1>8. k \in DOMAIN Tabs(r, t)
    BY <1>3, <1>4, <1>5, <1>6
  <1> QED
    BY <1>3, <1>7, <1>8

(* Every row of a report, however profiles and tiers are repeated, missing or *)
(* extra, is in one panel of the page and in no other.                        *)
THEOREM RowsAreOnThePage == Spec => []EveryRowHasItsPanel
  <1> DEFINE Made == report \in Reports
  <1>1. Init => Made
    BY DEF Init
  <1>2. Made /\ [Next]_vars => Made'
    BY DEF Next, Click, Press, Activate, vars
  <1>3. Made => EveryRowHasItsPanel
    BY RowsHavePanels DEF EveryRowHasItsPanel
  <1> QED
    BY <1>1, <1>2, <1>3, PTL DEF Spec

-----------------------------------------------------------------------------
(* A row of tabs of which the k-th is the active one. *)
OnlyTab(n, k) == [i \in 1 .. n |-> i = k]

Single(b) == \E n \in Nat : \E k \in 1 .. n : b = OnlyTab(n, k)

GroupInv ==
    /\ report \in Reports
    /\ DOMAIN on = TabGroups(report)
    /\ \A g \in TabGroups(report) : Single(on[g])
    /\ shown = on

(* The tier that is open first is one of the tiers. *)
LEMMA DefaultIsATier ==
  ASSUME NEW r \in Reports
  PROVE  \E k \in 1 .. 5 : DefaultTier(r) = TierOrder[k]
  <1>1. /\ DOMAIN TierOrder = 1 .. 5
        /\ Range(TierOrder) = {TierOrder[k] : k \in 1 .. 5}
    BY DEF Range, TierOrder
  <1> DEFINE used == {k \in DOMAIN TierOrder : TierRows(r, TierOrder[k]) # {}}
  <1>2. used # {} => Min(used) \in 1 .. 5
    <2> SUFFICES ASSUME used # {} PROVE Min(used) \in 1 .. 5
      OBVIOUS
    <2>1. used \in SUBSET Nat /\ used \in SUBSET (1 .. 5)
      BY <1>1
    <2> HIDE DEF used
    <2>2. \E m \in used : \A l \in used : m =< l
      BY <2>1, LeastElement
    <2>3. Min(used) \in used
      BY <2>2 DEF Min
    <2> QED
      BY <2>1, <2>3
  <1>3. DefaultTier(r) = IF r.tier = "all" THEN TierOrder[1]
                         ELSE IF r.tier \in Range(TierOrder) THEN r.tier
                         ELSE IF used = {} THEN TierOrder[1] ELSE TierOrder[Min(used)]
    BY DEF DefaultTier
  <1> HIDE DEF used
  <1>4. 1 \in 1 .. 5
    OBVIOUS
  <1> QED
    BY <1>1, <1>2, <1>3, <1>4

LEMMA SelectedIsSingle ==
  ASSUME NEW r \in Reports, NEW g \in TabGroups(r)
  PROVE  Single(Selected(r, g))
  <1>1. CASE g = "top"
    <2>1. PICK k \in 1 .. 5 : DefaultTier(r) = TierOrder[k]
      BY DefaultIsATier
    <2>2. DOMAIN TierOrder = 1 .. 5
          /\ \A i, j \in 1 .. 5 : TierOrder[i] = TierOrder[j] => i = j
      BY DEF TierOrder
    <2>3. Selected(r, g) = [i \in 1 .. 5 |-> TierOrder[i] = TierOrder[k]]
      BY <1>1, <2>1, <2>2 DEF Selected, Tabs
    <2>4. \A i \in 1 .. 5 : (TierOrder[i] = TierOrder[k]) = (i = k)
      BY <2>2
    <2>5. Selected(r, g) = OnlyTab(5, k)
      BY <2>3, <2>4 DEF OnlyTab
    <2> QED
      BY <2>5 DEF Single
  <1>2. CASE g # "top"
    <2>1. g \in Range(TierOrder)
      BY <1>2 DEF TabGroups
    <2>2. PICK n \in Nat \ {0} : DOMAIN ProfileTabs(r, g) = 1 .. n
      BY <2>1, TabNames
    <2>3. Selected(r, g) = OnlyTab(n, 1)
      BY <1>2, <2>2 DEF OnlyTab, Selected, Tabs
    <2>4. 1 \in 1 .. n /\ n \in Nat
      BY <2>2
    <2> QED
      BY <2>3, <2>4 DEF Single
  <1> QED
    BY <1>1, <1>2

LEMMA InitGroups == Init => GroupInv
  BY SelectedIsSingle DEF Init, GroupInv

(* One activation leaves one tab active. *)
LEMMA ActivateKeepsGroups ==
  ASSUME GroupInv, NEW g \in TabGroups(report), NEW k \in 1 .. Len(on[g]),
         Activate(g, k)
  PROVE  GroupInv'
  <1>1. PICK n \in Nat : \E j \in 1 .. n : on[g] = OnlyTab(n, j)
    BY DEF GroupInv, Single
  <1>2. DOMAIN on[g] = 1 .. n /\ Len(on[g]) = n
    BY <1>1 DEF OnlyTab
  <1>3. on' = [on EXCEPT ![g] = OnlyTab(n, k)]
    BY <1>2 DEF Activate, OnlyTab
  <1>4. shown' = [shown EXCEPT ![g] = OnlyTab(n, k)]
    BY <1>2 DEF Activate, OnlyTab, GroupInv
  <1>5. Single(OnlyTab(n, k))
    BY <1>2 DEF Single
  <1>6. report' = report
    BY DEF Activate
  <1>7. \A h \in TabGroups(report) : Single(on'[h])
    <2> SUFFICES ASSUME NEW h \in TabGroups(report) PROVE Single(on'[h])
      OBVIOUS
    <2>1. on'[h] = IF h = g THEN OnlyTab(n, k) ELSE on[h]
      BY <1>3 DEF GroupInv
    <2> QED
      BY <1>5, <2>1 DEF GroupInv
  <1> QED
    BY <1>3, <1>4, <1>6, <1>7 DEF GroupInv

(* Keys stay within their group: the arrows wrap around. *)
LEMMA MovedStaysInside ==
  ASSUME NEW n \in Nat, NEW k \in 1 .. n,
         NEW key \in {"ArrowRight", "ArrowLeft", "Home", "End"}
  PROVE  Moved(key, k, n) \in 1 .. n
  <1>1. n > 0 /\ k \in Nat /\ k - 2 + n \in Int
    OBVIOUS
  <1>2. k % n \in 0 .. n - 1
    BY <1>1
  <1>3. (k - 2 + n) % n \in 0 .. n - 1
    BY <1>1
  <1>4. CASE key = "ArrowRight"
    BY <1>2, <1>4 DEF Moved
  <1>5. CASE key = "ArrowLeft"
    BY <1>3, <1>5 DEF Moved
  <1>6. CASE key = "Home"
    BY <1>1, <1>6 DEF Moved
  <1>7. CASE key = "End"
    BY <1>1, <1>7 DEF Moved
  <1> QED
    BY <1>4, <1>5, <1>6, <1>7

(* Whatever is clicked or pressed, in nested groups of any size, every group  *)
(* has one active tab and shows its panel only.                               *)
THEOREM GroupsShowOnePanel == Spec => []OneTabPerGroup
  <1>1. Init => GroupInv
    BY InitGroups
  <1>2. GroupInv /\ [Next]_vars => GroupInv'
    <2> SUFFICES ASSUME GroupInv, [Next]_vars PROVE GroupInv'
      OBVIOUS
    <2>1. \A g \in TabGroups(report) :
             DOMAIN on[g] = 1 .. Len(on[g]) /\ Len(on[g]) \in Nat
      BY DEF GroupInv, Single, OnlyTab
    <2>2. CASE Click
      BY <2>1, <2>2, ActivateKeepsGroups DEF Click
    <2>3. CASE Press
      <3>1. PICK g \in TabGroups(report),
                 key \in {"ArrowRight", "ArrowLeft", "Home", "End"} :
              \E k \in DOMAIN on[g] : Activate(g, Moved(key, k, Len(on[g])))
        BY <2>3 DEF Press
      <3>2. PICK k \in DOMAIN on[g] : Activate(g, Moved(key, k, Len(on[g])))
        BY <3>1
      <3>3. Moved(key, k, Len(on[g])) \in 1 .. Len(on[g])
        BY <2>1, <3>2, MovedStaysInside
      <3> QED
        BY <3>2, <3>3, ActivateKeepsGroups
    <2>4. CASE UNCHANGED vars
      BY <2>4 DEF GroupInv, vars
    <2> QED
      BY <2>2, <2>3, <2>4 DEF Next
  <1>3. GroupInv => OneTabPerGroup
    <2> SUFFICES ASSUME GroupInv, NEW g \in TabGroups(report)
                 PROVE  /\ \E k \in DOMAIN on[g] : on[g] = [i \in DOMAIN on[g] |-> i = k]
                        /\ shown[g] = on[g]
      BY DEF OneTabPerGroup
    <2>1. PICK n \in Nat : \E k \in 1 .. n : on[g] = OnlyTab(n, k)
      BY DEF GroupInv, Single
    <2>2. PICK k \in 1 .. n : on[g] = OnlyTab(n, k)
      BY <2>1
    <2>3. DOMAIN on[g] = 1 .. n
      BY <2>2 DEF OnlyTab
    <2> QED
      BY <2>2, <2>3 DEF OnlyTab, GroupInv
  <1> QED
    BY <1>1, <1>2, <1>3, PTL DEF Spec
==============================================================================
