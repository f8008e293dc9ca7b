---------------------------- MODULE WinRate_proof ----------------------------
(***************************************************************************)
(* Proofs about WinRate, for every set of codecs, every report and every    *)
(* score.                                                                   *)
(***************************************************************************)
EXTENDS WinRate, TLAPS, FiniteSetTheorems, WellFoundedInduction

(* A non-empty set of natural numbers has a least element. *)
LEMMA LeastElement ==
  ASSUME NEW S \in SUBSET Nat, S # {}
  PROVE  \E m \in S : \A l \in S : m =< l
  <1>1. PICK m \in S : \A l \in S : ~(<<l, m>> \in OpToRel(<, Nat))
    BY NatLessThanWellFounded, WFMin, ZenonT(30)
  <1>2. \A l \in S : ~(l < m)
    BY <1>1 DEF OpToRel
  <1> QED
    BY <1>2

(* SumFunctionOnSet adds the values of a function one by one: the sum over a  *)
(* set is the value at its First element and the sum over the rest.           *)
First(s) == CHOOSE x \in s : TRUE

Rest(s) == s \ {First(s)}

Sums(f, g, s) == IF s = {} THEN 0 ELSE f[First(s)] + g[Rest(s)]

LEMMA SumUnfolded ==
  ASSUME NEW f, NEW S
  PROVE  SumFunctionOnSet(f, S) =
           (CHOOSE g : g = [s \in SUBSET S |-> Sums(f, g, s)])[S]
  BY DEF First, Rest, Sums, SumFunctionOnSet, FoldFunctionOnSet, MapThenFoldSet

LEMMA RestIsLess ==
  ASSUME NEW S, IsFiniteSet(S), S # {}
  PROVE  /\ First(S) \in S /\ Rest(S) \in SUBSET S
         /\ Cardinality(S) \in Nat \ {0}
         /\ Cardinality(Rest(S)) = Cardinality(S) - 1
  <1>1. First(S) \in S
    BY DEF First
  <1>2. Cardinality(S) \in Nat /\ Cardinality(S) # 0
    BY FS_CardinalityType, FS_EmptySet
  <1>3. Cardinality(Rest(S)) = Cardinality(S) - 1
    BY <1>1, FS_RemoveElement DEF Rest
  <1> QED
    BY <1>1, <1>2, <1>3 DEF Rest

(* There are such sums: for sets of growing size, by the least size without.  *)
LEMMA SumsExist ==
  ASSUME NEW S, IsFiniteSet(S), NEW f
  PROVE  \E g : g = [s \in SUBSET S |-> Sums(f, g, s)]
  <1> DEFINE Good(g, k) == \A s \in SUBSET S :
                             Cardinality(s) =< k => g[s] = Sums(f, g, s)
             Has(k) == \E g : Good(g, k)
             bad == {k \in Nat : ~Has(k)}
  <1>1. \A s \in SUBSET S : IsFiniteSet(s) /\ Cardinality(s) \in Nat
    BY FS_Subset, FS_CardinalityType
  <1>2. Has(0)
    <2> DEFINE g == [s \in SUBSET S |-> 0]
    <2>1. \A s \in SUBSET S : Cardinality(s) =< 0 => s = {}
      BY <1>1, FS_EmptySet
    <2>2. Good(g, 0)
      BY <2>1 DEF Sums
    <2> QED
      BY <2>2
  <1>3. ASSUME NEW k \in Nat, Has(k)
        PROVE  Has(k + 1)
    <2>1. PICK g : Good(g, k)
      BY <1>3
    <2> DEFINE h == [s \in SUBSET S |->
                       IF Cardinality(s) =< k THEN g[s] ELSE Sums(f, g, s)]
    <2>2. ASSUME NEW s \in SUBSET S, Cardinality(s) =< k + 1
          PROVE  h[s] = Sums(f, h, s)
      <3>1. h[s] = Sums(f, g, s)
        BY <2>1
      <3>2. s # {} => h[Rest(s)] = g[Rest(s)]
        <4> SUFFICES ASSUME s # {} PROVE h[Rest(s)] = g[Rest(s)]
          OBVIOUS
        <4>1. Rest(s) \in SUBSET S /\ Cardinality(Rest(s)) = Cardinality(s) - 1
          BY <1>1, RestIsLess
        <4>2. Cardinality(Rest(s)) =< k
          BY <1>1, <2>2, <4>1
        <4> QED
          BY <4>1, <4>2
      <3> HIDE DEF h
      <3> QED
        BY <3>1, <3>2 DEF Sums
    <2> HIDE DEF h
    <2> QED
      BY <2>2
  <1>4. bad = {}
    <2> SUFFICES ASSUME bad # {} PROVE FALSE
      OBVIOUS
    <2> HIDE DEF Has
    <2>1. PICK m \in bad : \A l \in bad : m =< l
      <3>1. bad \in SUBSET Nat
        OBVIOUS
      <3> HIDE DEF bad
      <3> QED
        BY <3>1, LeastElement
    <2>2. m \in Nat \ {0}
      BY <1>2, <2>1
    <2>3. m - 1 \in Nat /\ m - 1 \notin bad
      BY <2>1, <2>2
    <2>4. Has((m - 1) + 1)
      <3>1. Has(m - 1)
        BY <2>3
      <3> HIDE DEF bad
      <3> QED
        BY <1>3, <2>3, <3>1
    <2> QED
      BY <2>1, <2>2, <2>4
  <1>5. Cardinality(S) \in Nat /\ \A s \in SUBSET S : Cardinality(s) =< Cardinality(S)
    BY FS_Subset, FS_CardinalityType
  <1>6. PICK g : Good(g, Cardinality(S))
    <2>1. Has(Cardinality(S))
      <3> HIDE DEF Has
      <3> QED
        BY <1>4, <1>5
    <2> QED
      BY <2>1
  <1> DEFINE h == [s \in SUBSET S |-> g[s]]
  <1>7. \A s \in SUBSET S : h[s] = Sums(f, h, s)
    <2> SUFFICES ASSUME NEW s \in SUBSET S PROVE h[s] = Sums(f, h, s)
      OBVIOUS
    <2>1. h[s] = Sums(f, g, s)
      BY <1>5, <1>6
    <2>2. Rest(s) \in SUBSET S
      BY DEF Rest
    <2>3. h[Rest(s)] = g[Rest(s)]
      BY <2>2
    <2> HIDE DEF h
    <2> QED
      BY <2>1, <2>3 DEF Sums
  <1>8. h = [s \in SUBSET S |-> Sums(f, h, s)]
    <2>1. h = [s \in SUBSET S |-> h[s]]
      OBVIOUS
    <2> HIDE DEF h
    <2> QED
      BY <1>7, <2>1
  <1> HIDE DEF h
  <1> QED
    BY <1>8

(* g holds the sums of f over the subsets of S. *)
Adds(g, f, S) ==
    /\ SumFunctionOnSet(f, S) = g[S]
    /\ \A s \in SUBSET S : g[s] = Sums(f, g, s)

LEMMA SumSteps ==
  ASSUME NEW S, IsFiniteSet(S), NEW f
  PROVE  \E g : Adds(g, f, S)
  <1> DEFINE g == CHOOSE g : g = [s \in SUBSET S |-> Sums(f, g, s)]
  <1>1. g = [s \in SUBSET S |-> Sums(f, g, s)]
    BY SumsExist
  <1>2. SumFunctionOnSet(f, S) = g[S]
    BY SumUnfolded
  <1> HIDE DEF g
  <1>3. \A s \in SUBSET S : g[s] = Sums(f, g, s)
    BY <1>1
  <1> QED
    BY <1>2, <1>3 DEF Adds

(* There is a counterexample of the least size, or none. *)
LEMMA SmallestSet ==
  ASSUME NEW S, NEW C \in SUBSET (SUBSET S), IsFiniteSet(S), C # {}
  PROVE  \E s \in C : \A u \in C : Cardinality(s) =< Cardinality(u)
  <1>1. \A s \in C : Cardinality(s) \in Nat
    BY FS_Subset, FS_CardinalityType
  <1> DEFINE sizes == {Cardinality(s) : s \in C}
  <1>2. PICK k \in sizes : \A l \in sizes : k =< l
    <2>1. sizes \in SUBSET Nat /\ sizes # {}
      BY <1>1
    <2> HIDE DEF sizes
    <2> QED
      BY <2>1, LeastElement
  <1> QED
    BY <1>2

(* Two families of sums of equal values are equal, ... *)
LEMMA SumsAgree ==
  ASSUME NEW S, IsFiniteSet(S), NEW f, NEW h, NEW a, NEW b,
         \A x \in S : f[x] = h[x],
         \A s \in SUBSET S : a[s] = Sums(f, a, s),
         \A s \in SUBSET S : b[s] = Sums(h, b, s)
  PROVE  \A s \in SUBSET S : a[s] = b[s]
  <1> DEFINE C == {s \in SUBSET S : a[s] # b[s]}
  <1> SUFFICES ASSUME C # {} PROVE FALSE
    OBVIOUS
  <1>1. PICK s \in C : \A u \in C : Cardinality(s) =< Cardinality(u)
    <2>1. C \in SUBSET (SUBSET S)
      OBVIOUS
    <2> HIDE DEF C
    <2> QED
      BY <2>1, SmallestSet
  <1>2. s \in SUBSET S /\ a[s] # b[s] /\ IsFiniteSet(s)
    BY <1>1, FS_Subset
  <1>3. s # {}
    BY <1>2 DEF Sums
  <1>4. /\ First(s) \in s /\ Rest(s) \in SUBSET s /\ Cardinality(s) \in Nat
        /\ Cardinality(Rest(s)) = Cardinality(s) - 1
    BY <1>2, <1>3, RestIsLess
  <1>5. Rest(s) \notin C
    <2>1. ~(Cardinality(s) =< Cardinality(Rest(s)))
      BY <1>4
    <2> HIDE DEF C
    <2> QED
      BY <1>1, <2>1
  <1>6. a[Rest(s)] = b[Rest(s)]
    BY <1>2, <1>4, <1>5
  <1> QED
    BY <1>2, <1>3, <1>4, <1>6 DEF Sums

(* ... so that a sum depends on the values alone, ... *)
LEMMA SameSum ==
  ASSUME NEW S, IsFiniteSet(S), NEW f, NEW h, \A x \in S : f[x] = h[x]
  PROVE  SumFunctionOnSet(f, S) = SumFunctionOnSet(h, S)
  <1>1. PICK a : Adds(a, f, S)
    BY SumSteps, Zenon
  <1>2. PICK b : Adds(b, h, S)
    BY SumSteps, Zenon
  <1>3. \A s \in SUBSET S : a[s] = b[s]
    BY <1>1, <1>2, SumsAgree DEF Adds
  <1> QED
    BY <1>1, <1>2, <1>3 DEF Adds

(* ... and the sum over a part is the one found on the way to the whole. *)
LEMMA SumOfPart ==
  ASSUME NEW S, IsFiniteSet(S), NEW f, NEW a, Adds(a, f, S), NEW s \in SUBSET S
  PROVE  SumFunctionOnSet(f, s) = a[s]
  <1>1. IsFiniteSet(s)
    BY FS_Subset
  <1>2. PICK b : Adds(b, f, s)
    BY <1>1, SumSteps, Zenon
  <1>3. \A u \in SUBSET s : a[u] = Sums(f, a, u)
    BY DEF Adds
  <1>4. \A u \in SUBSET s : a[u] = b[u]
    BY <1>1, <1>2, <1>3, SumsAgree DEF Adds
  <1> QED
    BY <1>2, <1>4 DEF Adds

(* The order does not matter: any element may be added last. *)
LEMMA AddedLast ==
  ASSUME NEW S, IsFiniteSet(S), NEW f, \A x \in S : f[x] \in Nat,
         NEW a, Adds(a, f, S)
  PROVE  \A s \in SUBSET S : a[s] \in Nat /\ \A x \in s : a[s] = f[x] + a[s \ {x}]
  <1> DEFINE Fine(s) == a[s] \in Nat /\ \A x \in s : a[s] = f[x] + a[s \ {x}]
             C == {s \in SUBSET S : ~Fine(s)}
  <1> SUFFICES ASSUME C # {} PROVE FALSE
    OBVIOUS
  <1>1. PICK s \in C : \A u \in C : Cardinality(s) =< Cardinality(u)
    <2>1. C \in SUBSET (SUBSET S)
      OBVIOUS
    <2> HIDE DEF C
    <2> QED
      BY <2>1, SmallestSet
  <1>2. s \in SUBSET S /\ ~Fine(s) /\ IsFiniteSet(s)
    BY <1>1, FS_Subset
  <1>3. s # {}
    <2> SUFFICES ASSUME s = {} PROVE FALSE
      OBVIOUS
    <2>1. a[s] = 0
      BY <1>2 DEF Sums, Adds
    <2> QED
      BY <1>2, <2>1
  <1>4. \A u \in SUBSET s : u # s => Fine(u)
    <2> SUFFICES ASSUME NEW u \in SUBSET s, u # s PROVE Fine(u)
      OBVIOUS
    <2> HIDE DEF Fine
    <2>1. Cardinality(u) < Cardinality(s) /\ Cardinality(s) \in Nat /\ Cardinality(u) \in Nat
      BY <1>2, FS_Subset, FS_CardinalityType
    <2>2. u \notin C
      <3> HIDE DEF C
      <3> QED
        BY <1>1, <2>1
    <2> QED
      BY <1>2, <2>2
  <1> DEFINE y == First(s)
  <1>5. y \in s /\ Rest(s) = s \ {y}
    BY <1>2, <1>3, RestIsLess DEF Rest
  <1> HIDE DEF y
  <1>6. a[s] = f[y] + a[s \ {y}]
    BY <1>2, <1>3, <1>5 DEF Adds, Sums, y
  <1>7. a[s \ {y}] \in Nat /\ a[s] \in Nat
    BY <1>2, <1>4, <1>5, <1>6
  <1>8. ASSUME NEW x \in s, x # y PROVE a[s] = f[x] + a[s \ {x}]
    <2>1. a[s \ {y}] = f[x] + a[(s \ {y}) \ {x}]
      BY <1>4, <1>5, <1>8
    <2>2. a[s \ {x}] = f[y] + a[(s \ {x}) \ {y}]
      BY <1>4, <1>5, <1>8
    <2>3. (s \ {x}) \ {y} = (s \ {y}) \ {x}
      OBVIOUS
    <2>4. a[(s \ {y}) \ {x}] \in Nat
      BY <1>4, <1>5
    <2>5. f[x] \in Nat /\ f[y] \in Nat
      BY <1>2, <1>5
    <2> DEFINE rest == a[(s \ {y}) \ {x}]
    <2>6. a[s] = f[y] + (f[x] + rest) /\ a[s \ {x}] = f[y] + rest /\ rest \in Nat
      BY <1>6, <2>1, <2>2, <2>3, <2>4
    <2> HIDE DEF rest
    <2> QED
      BY <2>5, <2>6
  <1>9. \A x \in s : a[s] = f[x] + a[s \ {x}]
    BY <1>6, <1>8
  <1> QED
    BY <1>2, <1>7, <1>9

(* The same, of the sums themselves. *)
LEMMA SumLess ==
  ASSUME NEW S, IsFiniteSet(S), NEW f, \A x \in S : f[x] \in Nat
  PROVE  /\ SumFunctionOnSet(f, S) \in Nat
         /\ \A x \in S : SumFunctionOnSet(f, S) = f[x] + SumFunctionOnSet(f, S \ {x})
  <1>1. PICK a : Adds(a, f, S)
    BY SumSteps, Zenon
  <1>2. a[S] \in Nat /\ \A x \in S : a[S] = f[x] + a[S \ {x}]
    BY <1>1, AddedLast
  <1>3. \A s \in SUBSET S : SumFunctionOnSet(f, s) = a[s]
    BY <1>1, SumOfPart
  <1> QED
    BY <1>2, <1>3

-----------------------------------------------------------------------------
(* The function f on D, with d more for every element of W. *)
More(f, D, W, d) ==
    [c \in D \cup W |-> (IF c \in D THEN f[c] ELSE 0) + IF c \in W THEN d ELSE 0]

(* One more element of W adds d to the sum. *)
LEMMA OneMoreShare ==
  ASSUME NEW D, IsFiniteSet(D), NEW W, IsFiniteSet(W), NEW d \in Nat,
         NEW f, \A c \in D : f[c] \in Nat, NEW x \in W
  PROVE  SumFunctionOnSet(More(f, D, W, d), D \cup W) =
           d + SumFunctionOnSet(More(f, D, W \ {x}, d), D \cup (W \ {x}))
  <1> DEFINE T == D \cup W
             V == D \cup (W \ {x})
             h == More(f, D, W, d)
             g == More(f, D, W \ {x}, d)
  <1>1. IsFiniteSet(T) /\ IsFiniteSet(V) /\ IsFiniteSet(T \ {x})
    <2>1. IsFiniteSet(W \ {x})
      BY FS_RemoveElement
    <2>2. IsFiniteSet(T) /\ IsFiniteSet(V)
      BY <2>1, FS_Union
    <2> QED
      BY <2>2, FS_RemoveElement
  <1>2. \A c \in T : h[c] \in Nat
    BY DEF More
  <1>3. \A c \in V : g[c] \in Nat
    BY DEF More
  <1>4. \A c \in T \ {x} : c \in V /\ g[c] = h[c]
    BY DEF More
  <1>5. x \in T
    OBVIOUS
  <1>6. CASE x \notin D
    <2>1. T \ {x} = V /\ h[x] = 0 + d
      BY <1>6 DEF More
    <2> HIDE DEF T, V, h, g
    <2>2. SumFunctionOnSet(h, T) = h[x] + SumFunctionOnSet(h, T \ {x})
      BY <1>1, <1>2, <1>5, SumLess
    <2>3. SumFunctionOnSet(h, T \ {x}) = SumFunctionOnSet(g, T \ {x})
      BY <1>1, <1>4, SameSum
    <2>4. SumFunctionOnSet(h, T) = d + SumFunctionOnSet(g, V)
      BY <2>1, <2>2, <2>3
    <2> QED
      BY <2>4 DEF T, V, h, g
  <1>7. CASE x \in D
    <2>1. T = V /\ h[x] = f[x] + d /\ g[x] = f[x] + 0 /\ f[x] \in Nat
      BY <1>7 DEF More
    <2> HIDE DEF T, V, h, g
    <2>2. SumFunctionOnSet(h, T) = h[x] + SumFunctionOnSet(h, T \ {x})
      BY <1>1, <1>2, <1>5, SumLess
    <2>3. SumFunctionOnSet(g, T) = g[x] + SumFunctionOnSet(g, T \ {x})
      BY <1>1, <1>3, <1>5, <2>1, SumLess
    <2>4. SumFunctionOnSet(h, T \ {x}) = SumFunctionOnSet(g, T \ {x})
      BY <1>1, <1>4, SameSum
    <2>5. SumFunctionOnSet(h, T \ {x}) \in Nat
      BY <1>1, <1>2, SumLess
    <2> DEFINE rest == SumFunctionOnSet(h, T \ {x})
    <2>6. /\ SumFunctionOnSet(h, T) = (f[x] + d) + rest
          /\ SumFunctionOnSet(g, V) = (f[x] + 0) + rest /\ rest \in Nat
      BY <2>1, <2>2, <2>3, <2>4, <2>5
    <2> HIDE DEF rest
    <2>7. SumFunctionOnSet(h, T) = d + SumFunctionOnSet(g, V)
      BY <2>1, <2>6
    <2> QED
      BY <2>7 DEF T, V, h, g
  <1> QED
    BY <1>6, <1>7

(* So the sum grows by d for each of them. *)
LEMMA SumOfShares ==
  ASSUME NEW D, IsFiniteSet(D), NEW W, IsFiniteSet(W), NEW d \in Nat,
         NEW f, \A c \in D : f[c] \in Nat
  PROVE  SumFunctionOnSet(More(f, D, W, d), D \cup W) =
           SumFunctionOnSet(f, D) + d * Cardinality(W)
  <1> DEFINE Good(U) == SumFunctionOnSet(More(f, D, U, d), D \cup U) =
                          SumFunctionOnSet(f, D) + d * Cardinality(U)
             C == {U \in SUBSET W : ~Good(U)}
  <1>1. SumFunctionOnSet(f, D) \in Nat
    BY SumLess
  <1>2. Good({})
    <2>1. Cardinality({}) = 0
      BY FS_EmptySet
    <2>2. D \cup {} = D
      OBVIOUS
    <2>3. \A c \in D : More(f, D, {}, d)[c] = f[c]
      BY DEF More
    <2>4. SumFunctionOnSet(More(f, D, {}, d), D) = SumFunctionOnSet(f, D)
      BY <2>3, SameSum
    <2>5. d * 0 = 0
      OBVIOUS
    <2> QED
      BY <1>1, <2>1, <2>2, <2>4, <2>5
  <1>3. C = {}
    <2> SUFFICES ASSUME C # {} PROVE FALSE
      OBVIOUS
    <2>1. PICK U \in C : \A V \in C : Cardinality(U) =< Cardinality(V)
      <3>1. C \in SUBSET (SUBSET W)
        OBVIOUS
      <3> HIDE DEF C
      <3> QED
        BY <3>1, SmallestSet
    <2> HIDE DEF Good
    <2>2. U \in SUBSET W /\ ~Good(U) /\ IsFiniteSet(U)
      BY <2>1, FS_Subset
    <2>3. PICK x \in U : TRUE
      BY <1>2, <2>2
    <2> DEFINE V == U \ {x}
    <2>4. Cardinality(U) \in Nat /\ Cardinality(V) = Cardinality(U) - 1
          /\ Cardinality(V) \in Nat /\ V \in SUBSET W
      BY <2>2, <2>3, FS_RemoveElement, FS_CardinalityType
    <2> HIDE DEF V
    <2>5. Good(V)
      <3>1. ~(Cardinality(U) =< Cardinality(V))
        BY <2>4
      <3>2. V \notin C
        <4> HIDE DEF C
        <4> QED
          BY <2>1, <3>1
      <3> QED
        BY <2>4, <3>2
    <2> HIDE DEF C
    <2>6. SumFunctionOnSet(More(f, D, U, d), D \cup U) =
            d + SumFunctionOnSet(More(f, D, V, d), D \cup V)
      BY <2>2, <2>3, OneMoreShare DEF V
    <2>7. SumFunctionOnSet(More(f, D, V, d), D \cup V) =
            SumFunctionOnSet(f, D) + d * Cardinality(V)
      BY <2>5 DEF Good
    <2>8. d * Cardinality(U) = d + d * Cardinality(V)
      BY <2>4
    <2>9. d * Cardinality(V) \in Nat
      BY <2>4
    <2>10. Good(U)
      <3> DEFINE p == d * Cardinality(V)
                 r == SumFunctionOnSet(f, D)
      <3>1. /\ SumFunctionOnSet(More(f, D, U, d), D \cup U) = d + (r + p)
            /\ r + d * Cardinality(U) = r + (d + p) /\ p \in Nat /\ r \in Nat
        BY <1>1, <2>6, <2>7, <2>8, <2>9
      <3> HIDE DEF p
      <3>2. d + (r + p) = r + (d + p)
        BY <3>1
      <3> QED
        BY <3>1, <3>2 DEF Good
    <2> QED
      BY <2>2, <2>10
  <1>4. Good(W)
    <2> HIDE DEF Good
    <2> QED
      BY <1>3
  <1> QED
    BY <1>4

-----------------------------------------------------------------------------
(* Numbers of finitely many things have a highest one. *)
LEMMA HighestOf ==
  ASSUME NEW S, IsFiniteSet(S), S # {}, NEW f, \A x \in S : f[x] \in Nat
  PROVE  \E x \in S : \A y \in S : f[y] =< f[x]
  <1> DEFINE Has(s) == \E x \in s : \A y \in s : f[y] =< f[x]
             C == {s \in SUBSET S : s # {} /\ ~Has(s)}
  <1>1. C = {}
    <2> SUFFICES ASSUME C # {} PROVE FALSE
      OBVIOUS
    <2>1. PICK s \in C : \A u \in C : Cardinality(s) =< Cardinality(u)
      <3>1. C \in SUBSET (SUBSET S)
        OBVIOUS
      <3> HIDE DEF C
      <3> QED
        BY <3>1, SmallestSet
    <2>2. s \in SUBSET S /\ s # {} /\ ~Has(s) /\ IsFiniteSet(s)
      BY <2>1, FS_Subset
    <2>3. PICK x \in s : TRUE
      BY <2>2
    <2> DEFINE u == s \ {x}
    <2>4. Cardinality(s) \in Nat /\ Cardinality(u) = Cardinality(s) - 1
      BY <2>2, FS_RemoveElement, FS_CardinalityType
    <2>5. u \notin C
      <3>1. ~(Cardinality(s) =< Cardinality(u))
        BY <2>4
      <3> HIDE DEF C, u
      <3> QED
        BY <2>1, <3>1
    <2>6. CASE u = {}
      <3>1. \A y \in s : y = x
        BY <2>6
      <3>2. f[x] =< f[x]
        BY <2>2, <2>3
      <3> QED
        BY <2>2, <3>1, <3>2
    <2>7. CASE u # {}
      <3>1. PICK z \in u : \A y \in u : f[y] =< f[z]
        BY <2>2, <2>5, <2>7
      <3>2. \A y \in s : y = x \/ y \in u
        OBVIOUS
      <3>3. \A y \in s : f[y] \in Nat
        BY <2>2
      <3>4. z \in s
        OBVIOUS
      <3>5. CASE f[x] =< f[z]
        <4>1. \A y \in s : f[y] =< f[z]
          BY <3>1, <3>2, <3>5
        <4> QED
          BY <2>2, <3>4, <4>1
      <3>6. CASE f[z] < f[x]
        <4>1. \A y \in u : f[y] =< f[x]
          <5> TAKE y \in u
          <5>1. f[y] \in Nat /\ f[z] \in Nat /\ f[x] \in Nat /\ f[y] =< f[z]
            BY <3>1, <3>3, <3>4
          <5> QED
            BY <3>6, <5>1
        <4>2. f[x] =< f[x]
          BY <3>3
        <4> HIDE DEF u
        <4>3. \A y \in s : f[y] =< f[x]
          BY <3>2, <4>1, <4>2
        <4> QED
          BY <2>2, <4>3
      <3> QED
        BY <3>3, <3>4, <3>5, <3>6
    <2> QED
      BY <2>6, <2>7
  <1>2. Has(S)
    <2> HIDE DEF Has
    <2> QED
      BY <1>1
  <1> QED
    BY <1>2

LEMMA PositionsAreFinite ==
  ASSUME NEW report \in Reports
  PROVE  IsFiniteSet(DOMAIN report) /\ \A j \in DOMAIN report : j \in Nat
  <1> DEFINE l == Len(report)
  <1>1. DOMAIN report = 1 .. l /\ l \in Nat
    BY WinRateAssumption
  <1> HIDE DEF l
  <1>2. IsFiniteSet(1 .. l)
    BY <1>1, FS_Interval
  <1> QED
    BY <1>1, <1>2

(* What a row is raced with is a number. *)
LEMMA ScoreType ==
  ASSUME NEW report \in Reports, NEW i \in DOMAIN report,
         NEW m \in Range(MetricsOf(report, i)),
         NEW j \in Group(report, Cell(report[i]))
  PROVE  j \in DOMAIN report /\ Score(report, j, m) \in Nat /\ report[j].codec \in Codecs
  <1>1. j \in DOMAIN report /\ report[j].tier = report[i].tier
    BY DEF Group, Cell
  <1>2. m \in Range(MetricsOf(report, j))
    BY <1>1 DEF MetricsOf
  <1> QED
    BY <1>1, <1>2, WinRateAssumption DEF Score

LEMMA ScoresAreNumbers ==
  ASSUME NEW report \in Reports, NEW i \in DOMAIN report,
         NEW m \in Range(MetricsOf(report, i))
  PROVE  LET scores == Scores(report, Cell(report[i]), m)
         IN  DOMAIN scores \in SUBSET Codecs /\ \A c \in DOMAIN scores : scores[c] \in Nat
  <1> DEFINE cell == Cell(report[i])
             entries == Scored(report, cell, m)
             scores == Scores(report, cell, m)
  <1>1. \A j \in entries : j \in DOMAIN report /\ Score(report, j, m) \in Nat
                           /\ report[j].codec \in Codecs
    BY ScoreType DEF Scored
  <1>2. DOMAIN scores = {report[j].codec : j \in entries}
        /\ \A c \in DOMAIN scores : scores[c] = Kept(report, entries, m, c)
    BY DEF Scores
  <1>3. IsFiniteSet(DOMAIN report) /\ \A j \in DOMAIN report : j \in Nat
    BY PositionsAreFinite
  <1> HIDE DEF entries, scores
  <1>4. ASSUME NEW c \in DOMAIN scores PROVE Kept(report, entries, m, c) \in Nat
    <2> DEFINE own == RowsOf(report, entries, c)
               f == [j \in own |-> Score(report, j, m)]
               id == [j \in own |-> j]
    <2>1. own \in SUBSET entries /\ own # {}
      BY <1>2 DEF RowsOf
    <2>2. IsFiniteSet(own) /\ \A j \in own : j \in Nat
      <3>1. own \in SUBSET DOMAIN report
        BY <1>1, <2>1
      <3> HIDE DEF own
      <3> QED
        BY <1>3, <3>1, FS_Subset
    <2>3. \A j \in own : Score(report, j, m) \in Nat
      BY <1>1, <2>1
    <2> HIDE DEF own
    <2>4. PICK x \in own : \A y \in own : id[y] =< id[x]
      <3>1. \A j \in own : id[j] \in Nat
        BY <2>2
      <3> HIDE DEF id
      <3> QED
        BY <2>1, <2>2, <3>1, HighestOf
    <2>5. Max(own) \in own
      <3>1. \A y \in own : x >= y
        BY <2>2, <2>4
      <3> QED
        BY <3>1 DEF Max
    <2>6. PICK z \in own : \A y \in own : f[y] =< f[z]
      <3>1. \A j \in own : f[j] \in Nat
        BY <2>3
      <3> HIDE DEF f
      <3> QED
        BY <2>1, <2>2, <3>1, HighestOf
    <2> DEFINE S == {Score(report, j, m) : j \in own}
    <2>7. Max(S) \in Nat
      <3>1. f[z] \in S /\ \A y \in S : f[z] >= y
        BY <2>3, <2>6
      <3>2. S \in SUBSET Nat
        BY <2>3
      <3> HIDE DEF S, f
      <3> QED
        BY <3>1, <3>2 DEF Max
    <2> QED
      BY <2>3, <2>5, <2>7 DEF Kept, own
  <1>5. DOMAIN scores \in SUBSET Codecs
    BY <1>1, <1>2
  <1>6. \A c \in DOMAIN scores : scores[c] \in Nat
    BY <1>2, <1>4
  <1> QED
    BY <1>5, <1>6 DEF scores, cell

(* A comparison is of one group and one metric, and has scores. *)
LEMMA RaceFacts ==
  ASSUME NEW report \in Reports, NEW race \in Races(report)
  PROVE  /\ race[1] \in DOMAIN report
         /\ MetricsOf(report, race[1])[race[2]] \in Range(MetricsOf(report, race[1]))
         /\ IsRace(report, Cell(report[race[1]]), MetricsOf(report, race[1])[race[2]])
  <1>1. PICK i \in DOMAIN report :
          race \in {<<i, k>> : k \in {l \in DOMAIN MetricsOf(report, i) :
                     IsRace(report, Cell(report[i]), MetricsOf(report, i)[l])}}
    BY DEF Races
  <1>2. PICK k \in DOMAIN MetricsOf(report, i) :
          /\ race = <<i, k>>
          /\ IsRace(report, Cell(report[i]), MetricsOf(report, i)[k])
    BY <1>1
  <1>3. race[1] = i /\ race[2] = k
    BY <1>2
  <1> QED
    BY <1>2, <1>3 DEF Range

LEMMA RaceHasScores ==
  ASSUME NEW report, NEW cell, NEW m, IsRace(report, cell, m)
  PROVE  DOMAIN Scores(report, cell, m) # {}
  <1> DEFINE D == DOMAIN Scores(report, cell, m)
  <1>1. Cardinality(D) >= 2
    BY DEF IsRace
  <1> HIDE DEF D
  <1>2. D # {}
    BY <1>1, FS_EmptySet
  <1> QED
    BY <1>2 DEF D

(* The winners are the codecs that no other is below. *)
LEMMA WinnersHaveTheLeast ==
  ASSUME NEW scores, DOMAIN scores # {}, \A c \in DOMAIN scores : scores[c] \in Nat
  PROVE  /\ Winners(scores) = {c \in DOMAIN scores :
                                 \A d \in DOMAIN scores : scores[c] =< scores[d]}
         /\ Winners(scores) # {}
  <1> DEFINE S == Range(scores)
  <1>1. S \in SUBSET Nat /\ S # {}
    BY DEF Range
  <1>2. Min(S) \in S /\ \A y \in S : Min(S) =< y
    <2> HIDE DEF S
    <2>1. \E x \in S : \A y \in S : x =< y
      BY <1>1, LeastElement
    <2> QED
      BY <2>1 DEF Min
  <1>3. PICK b \in DOMAIN scores : scores[b] = Min(S)
    BY <1>2 DEF Range
  <1>4. \A d \in DOMAIN scores : Min(S) =< scores[d]
    BY <1>2 DEF Range
  <1>5. ASSUME NEW c \in DOMAIN scores, \A d \in DOMAIN scores : scores[c] =< scores[d]
        PROVE  scores[c] = Min(S)
    <2> HIDE DEF S
    <2> QED
      BY <1>3, <1>4, <1>5
  <1>6. \A c \in DOMAIN scores : scores[c] = Min(S)
          <=> \A d \in DOMAIN scores : scores[c] =< scores[d]
    <2> HIDE DEF S
    <2> QED
      BY <1>4, <1>5
  <1>7. Winners(scores) = {c \in DOMAIN scores : scores[c] = Min(S)}
    BY DEF Winners
  <1> HIDE DEF S
  <1> QED
    BY <1>3, <1>6, <1>7

(* Who wins a comparison is a codec of the report. *)
LEMMA WinnersAreThere ==
  ASSUME NEW report \in Reports, NEW i \in DOMAIN report,
         NEW m \in Range(MetricsOf(report, i)), IsRace(report, Cell(report[i]), m)
  PROVE  LET w == Winners(Scores(report, Cell(report[i]), m))
         IN  /\ w \in SUBSET {report[j].codec : j \in DOMAIN report}
             /\ w \in SUBSET Codecs /\ w # {}
  <1> DEFINE scores == Scores(report, Cell(report[i]), m)
  <1>1. DOMAIN scores \in SUBSET Codecs /\ \A c \in DOMAIN scores : scores[c] \in Nat
    BY ScoresAreNumbers
  <1>2. DOMAIN scores # {}
    BY RaceHasScores
  <1>3. DOMAIN scores \in SUBSET {report[j].codec : j \in DOMAIN report}
    BY DEF Scores, Scored, Group
  <1> HIDE DEF scores
  <1>4. Winners(scores) # {}
    BY <1>1, <1>2, WinnersHaveTheLeast
  <1>5. Winners(scores) \in SUBSET DOMAIN scores
    BY DEF Winners
  <1>6. /\ Winners(scores) \in SUBSET {report[j].codec : j \in DOMAIN report}
        /\ Winners(scores) \in SUBSET Codecs /\ Winners(scores) # {}
    BY <1>1, <1>3, <1>4, <1>5
  <1> QED
    BY <1>6 DEF scores

(* Where a codec has one row, it races with the score of that row: the       *)
(* winners are the codecs of the rows with the lowest score.                 *)
LEMMA WinnersAreLowest ==
  ASSUME NEW report \in Reports, NEW i \in DOMAIN report,
         NEW m \in Range(MetricsOf(report, i)), DOMAIN Scores(report, Cell(report[i]), m) # {}
  PROVE  Winners(Scores(report, Cell(report[i]), m)) =
           Lowest(report, Scored(report, Cell(report[i]), m), m)
  <1> DEFINE cell == Cell(report[i])
             entries == Scored(report, cell, m)
             scores == Scores(report, cell, m)
  <1>1. /\ DOMAIN scores = {report[j].codec : j \in entries}
        /\ \A c \in DOMAIN scores : scores[c] = Kept(report, entries, m, c)
    BY DEF Scores
  <1>2. \A c \in DOMAIN scores : scores[c] \in Nat
    BY ScoresAreNumbers
  <1>3. \A j \in entries : j \in DOMAIN report /\ Cell(report[j]) = cell
                           /\ Score(report, j, m) \in Nat
    <2> TAKE j \in entries
    <2>1. j \in Group(report, Cell(report[i]))
      BY DEF Scored
    <2>2. j \in DOMAIN report /\ Cell(report[j]) = cell
      BY <2>1 DEF Group
    <2> QED
      BY <2>1, <2>2, ScoreType
  <1>4. DOMAIN scores # {}
    OBVIOUS
  <1> HIDE DEF entries, scores
  <1>5. ASSUME NEW j \in entries PROVE scores[report[j].codec] = Score(report, j, m)
    <2> DEFINE c == report[j].codec
               own == RowsOf(report, entries, c)
    <2>1. own = {j}
      <3>1. j \in own
        BY DEF RowsOf
      <3>2. ASSUME NEW k \in own PROVE k = j
        <4>1. k \in entries /\ report[k].codec = report[j].codec
          BY DEF RowsOf
        <4>2. k \in DOMAIN report /\ j \in DOMAIN report /\ Cell(report[k]) = Cell(report[j])
          BY <1>3, <4>1
        <4> QED
          BY <4>1, <4>2, OneRowPerCodec
      <3> QED
        BY <3>1, <3>2
    <2>2. Score(report, j, m) \in Nat /\ j \in Nat
      BY <1>3, PositionsAreFinite
    <2>3. {Score(report, k, m) : k \in own} = {Score(report, j, m)}
      BY <2>1
    <2>4. \A x \in Nat : Max({x}) = x
      BY DEF Max
    <2>5. Max({Score(report, j, m)}) = Score(report, j, m) /\ Max({j}) = j
      BY <2>2, <2>4
    <2>6. Kept(report, entries, m, c) = Score(report, j, m)
      BY <2>1, <2>3, <2>5 DEF Kept
    <2>7. c \in DOMAIN scores
      BY <1>1
    <2> QED
      BY <1>1, <2>6, <2>7
  <1>6. Winners(scores) = {c \in DOMAIN scores :
                             \A d \in DOMAIN scores : scores[c] =< scores[d]}
    BY <1>2, <1>4, WinnersHaveTheLeast
  <1>7. ASSUME NEW c \in Winners(scores) PROVE c \in Lowest(report, entries, m)
    <2>1. PICK j \in entries : c = report[j].codec
      BY <1>1, <1>6
    <2>2. \A k \in entries : Score(report, j, m) =< Score(report, k, m)
      BY <1>1, <1>5, <1>6, <2>1
    <2> QED
      BY <2>1, <2>2 DEF Lowest
  <1>8. ASSUME NEW c \in Lowest(report, entries, m) PROVE c \in Winners(scores)
    <2>1. PICK j \in entries : /\ c = report[j].codec
                               /\ \A k \in entries : Score(report, j, m) =< Score(report, k, m)
      BY DEF Lowest
    <2>2. \A d \in DOMAIN scores : scores[c] =< scores[d]
      BY <1>1, <1>5, <2>1
    <2> QED
      BY <1>1, <1>6, <2>1, <2>2
  <1>9. Winners(scores) = Lowest(report, entries, m)
    BY <1>7, <1>8
  <1> QED
    BY <1>9 DEF scores, entries, cell

-----------------------------------------------------------------------------
CodecsOf(report) == {report[i].codec : i \in DOMAIN report}

(* The points p are numbers, held by codecs of the report, that make total. *)
AddUp(report, p, total) ==
    /\ DOMAIN p \in SUBSET CodecsOf(report)
    /\ \A c \in DOMAIN p : p[c] \in Nat
    /\ SumFunctionOnSet(p, DOMAIN p) = total

(* The comparisons still to be made are races of the report. *)
PointsInv ==
    /\ rows \in Reports
    /\ todo \in SUBSET Races(rows)
    /\ n \in Nat
    /\ AddUp(rows, points, Unit * n)

LEMMA CodecsAreFinite ==
  ASSUME NEW report \in Reports, NEW S \in SUBSET CodecsOf(report)
  PROVE  IsFiniteSet(S) /\ S \in SUBSET Codecs
  <1>1. S \in SUBSET Codecs
    BY WinRateAssumption DEF CodecsOf
  <1> QED
    BY <1>1, WinRateAssumption, FS_Subset

(* Points that are given to some codecs of the report add up. *)
LEMMA PointsGrow ==
  ASSUME NEW report \in Reports, NEW p, NEW total, AddUp(report, p, total),
         NEW w \in SUBSET CodecsOf(report), NEW d \in Nat
  PROVE  AddUp(report, More(p, DOMAIN p, w, d), total + d * Cardinality(w))
  <1> DEFINE D == DOMAIN p
             q == More(p, D, w, d)
  <1>1. D \in SUBSET CodecsOf(report) /\ \A c \in D : p[c] \in Nat
    BY DEF AddUp
  <1>2. IsFiniteSet(D) /\ IsFiniteSet(w)
    BY <1>1, CodecsAreFinite
  <1>3. DOMAIN q = D \cup w
    BY DEF More
  <1>4. \A c \in DOMAIN q : q[c] \in Nat
    BY <1>1 DEF More
  <1>5. SumFunctionOnSet(p, D) = total
    BY DEF AddUp
  <1> HIDE DEF D
  <1>6. SumFunctionOnSet(q, D \cup w) = total + d * Cardinality(w)
    BY <1>1, <1>2, <1>5, SumOfShares
  <1> HIDE DEF q
  <1>7. AddUp(report, q, total + d * Cardinality(w))
    BY <1>1, <1>3, <1>4, <1>6 DEF AddUp
  <1> QED
    BY <1>7 DEF q, D

(* The shares of the winners of a comparison make one point. *)
LEMMA SharesMakeAPoint ==
  ASSUME NEW k \in Nat \ {0}, NEW u \in Nat, u % k = 0
  PROVE  (u \div k) \in Nat /\ (u \div k) * k = u
  OBVIOUS

LEMMA WinnersShare ==
  ASSUME NEW w \in SUBSET Codecs, w # {}
  PROVE  /\ Cardinality(w) \in Nat \ {0} /\ IsFiniteSet(w)
         /\ (Unit \div Cardinality(w)) \in Nat
         /\ (Unit \div Cardinality(w)) * Cardinality(w) = Unit
  <1>1. /\ IsFiniteSet(w) /\ Cardinality(w) \in Nat /\ Cardinality(Codecs) \in Nat
        /\ Cardinality(w) =< Cardinality(Codecs)
    BY WinRateAssumption, FS_Subset, FS_CardinalityType
  <1>2. Cardinality(w) # 0
    BY <1>1, FS_EmptySet
  <1>3. Unit % Cardinality(w) = 0 /\ Unit \in Nat
    BY <1>1, <1>2, WinRateAssumption
  <1> QED
    BY <1>1, <1>2, <1>3, SharesMakeAPoint

LEMMA InitPoints == Init => PointsInv
  <1> SUFFICES ASSUME Init PROVE PointsInv
    OBVIOUS
  <1>1. DOMAIN points = {}
    BY DEF Init
  <1>2. SumFunctionOnSet(points, {}) = 0
    <2>1. IsFiniteSet({})
      BY FS_EmptySet
    <2>2. PICK a : Adds(a, points, {})
      BY <2>1, SumSteps, Zenon
    <2> QED
      BY <2>2 DEF Adds, Sums
  <1>3. Unit * 0 = 0
    BY WinRateAssumption
  <1> QED
    BY <1>1, <1>2, <1>3 DEF Init, PointsInv, AddUp

(* What a comparison does: its winners get equal shares of one point. *)
LEMMA CompareAdds ==
  ASSUME PointsInv, NEW race \in todo, Compare(race)
  PROVE  LET w == Winners(Scores(rows, CellOf(race), MetricOf(race)))
         IN  /\ w = Lowest(rows, Scored(rows, CellOf(race), MetricOf(race)), MetricOf(race))
             /\ w \in SUBSET CodecsOf(rows) /\ w \in SUBSET Codecs /\ w # {}
             /\ points' = More(points, DOMAIN points, w, Unit \div Cardinality(w))
  <1> DEFINE i == race[1]
             m == MetricsOf(rows, i)[race[2]]
             w == Winners(Scores(rows, Cell(rows[i]), m))
  <1>1. rows \in Reports /\ race \in Races(rows)
    BY DEF PointsInv
  <1>2. i \in DOMAIN rows /\ m \in Range(MetricsOf(rows, i)) /\ IsRace(rows, Cell(rows[i]), m)
    BY <1>1, RaceFacts
  <1>3. CellOf(race) = Cell(rows[i]) /\ MetricOf(race) = m
    BY DEF CellOf, MetricOf
  <1>4. points' = More(points, DOMAIN points, w, Unit \div Cardinality(w))
    BY <1>3 DEF Compare, More, PointsOf
  <1> HIDE DEF i, m
  <1>5. w \in SUBSET CodecsOf(rows) /\ w \in SUBSET Codecs /\ w # {}
    BY <1>1, <1>2, WinnersAreThere DEF CodecsOf
  <1>6. w = Lowest(rows, Scored(rows, Cell(rows[i]), m), m)
    BY <1>1, <1>2, RaceHasScores, WinnersAreLowest
  <1> HIDE DEF w
  <1>7. w = Winners(Scores(rows, CellOf(race), MetricOf(race)))
    BY <1>3 DEF w
  <1> QED
    BY <1>3, <1>4, <1>5, <1>6, <1>7

(* The last step gives every codec of the report a line, and nobody a point. *)
LEMMA RankAdds ==
  ASSUME Rank
  PROVE  /\ points' = [c \in CodecsOf(rows) |-> PointsOf(points, c)]
         /\ UNCHANGED <<rows, todo, n>>
  BY DEF Rank, CodecsOf

LEMMA NextPoints == PointsInv /\ [Next]_vars => PointsInv'
  <1> SUFFICES ASSUME PointsInv, [Next]_vars PROVE PointsInv'
    OBVIOUS
  <1> USE DEF PointsInv
  <1>1. ASSUME NEW race \in todo, Compare(race) PROVE PointsInv'
    <2>1. PICK w : /\ w \in SUBSET CodecsOf(rows) /\ w \in SUBSET Codecs /\ w # {}
                   /\ points' = More(points, DOMAIN points, w, Unit \div Cardinality(w))
      <3> HIDE DEF PointsInv
      <3> QED
        BY <1>1, CompareAdds
    <2> DEFINE share == Unit \div Cardinality(w)
    <2>2. share \in Nat /\ share * Cardinality(w) = Unit
      BY <2>1, WinnersShare
    <2> HIDE DEF share
    <2>3. points' = More(points, DOMAIN points, w, share)
      BY <2>1 DEF share
    <2>4. AddUp(rows, points', Unit * n + share * Cardinality(w))
      BY <2>1, <2>2, <2>3, PointsGrow
    <2>5. rows' = rows /\ n' = n + 1 /\ todo' \in SUBSET todo
      BY <1>1 DEF Compare
    <2>6. Unit * (n + 1) = Unit * n + Unit
      BY WinRateAssumption
    <2> QED
      BY <2>2, <2>4, <2>5, <2>6
  <1>2. CASE Rank
    <2>1. /\ points' = [c \in CodecsOf(rows) |-> PointsOf(points, c)]
          /\ UNCHANGED <<rows, todo, n>>
      BY <1>2, RankAdds
    <2> DEFINE all == CodecsOf(rows)
    <2>2. points' = More(points, DOMAIN points, all, 0)
      <3>1. DOMAIN points \cup all = all
        BY DEF AddUp
      <3>2. \A c \in all : PointsOf(points, c) \in Nat
        BY DEF PointsOf, AddUp
      <3>3. More(points, DOMAIN points, all, 0) =
              [c \in all |-> PointsOf(points, c) + IF c \in all THEN 0 ELSE 0]
        BY <3>1 DEF More, PointsOf
      <3>4. \A c \in all : PointsOf(points, c) + (IF c \in all THEN 0 ELSE 0) = PointsOf(points, c)
        BY <3>2
      <3> HIDE DEF all
      <3> QED
        BY <2>1, <3>3, <3>4 DEF all
    <2>3. AddUp(rows, points', Unit * n + 0 * Cardinality(all))
      BY <2>2, PointsGrow
    <2>4. Unit * n + 0 * Cardinality(all) = Unit * n
      <3>1. Cardinality(all) \in Nat
        BY CodecsAreFinite, FS_CardinalityType
      <3> QED
        BY <3>1, WinRateAssumption
    <2> QED
      BY <2>1, <2>3, <2>4
  <1>3. CASE UNCHANGED vars
    BY <1>3 DEF vars
  <1> QED
    BY <1>1, <1>2, <1>3 DEF Next

LEMMA PointsAlways == Spec => []PointsInv
  BY InitPoints, NextPoints, PTL DEF Spec

(* With ties and without, for every report and any number of codecs, the     *)
(* points of all codecs add up to the number of comparisons                  *)
(* (_aggregate_codec_win_rates).                                             *)
THEOREM PointsAddUp == Spec => []PointsSumToComparisons
  <1>1. PointsInv => PointsSumToComparisons
    BY DEF PointsInv, AddUp, PointsSumToComparisons, SumFunction
  <1> QED
    BY <1>1, PointsAlways, PTL

-----------------------------------------------------------------------------
(* The share of a comparison is a whole point for one winner only. *)
LEMMA WholePoint ==
  ASSUME NEW w \in SUBSET Codecs, NEW c \in w
  PROVE  /\ Unit \div Cardinality(w) \in Nat
         /\ Unit \div Cardinality(w) = Unit <=> w = {c}
  <1> DEFINE k == Cardinality(w)
             share == Unit \div k
  <1>1. k \in Nat \ {0} /\ IsFiniteSet(w) /\ share \in Nat /\ share * k = Unit
    BY WinnersShare
  <1>2. Unit \in Nat \ {0}
    BY WinRateAssumption
  <1>3. k = 1 <=> w = {c}
    <2>1. k = 1 <=> \E x : w = {x}
      BY <1>1, FS_Singleton
    <2> QED
      BY <2>1
  <1> HIDE DEF share, k
  <1>4. share = Unit <=> k = 1
    <2>1. CASE k = 1
      BY <1>1, <1>2, <2>1
    <2>2. CASE k > 1
      <3> SUFFICES ASSUME share = Unit PROVE FALSE
        BY <2>2
      <3>1. Unit * k = Unit
        BY <1>1
      <3>2. k >= 2
        BY <1>1, <2>2
      <3>3. Unit * k >= Unit * 2
        BY <1>1, <1>2, <3>2
      <3> QED
        BY <1>2, <3>1, <3>3
    <2> QED
      BY <1>1, <2>1, <2>2
  <1>5. share \in Nat /\ (share = Unit <=> w = {c})
    BY <1>1, <1>3, <1>4
  <1> QED
    BY <1>5 DEF share, k

(* Who gains, and how much. *)
LEMMA GainsOf ==
  ASSUME NEW p, \A c \in DOMAIN p : p[c] \in Nat,
         NEW w, NEW share \in Nat, NEW c
  PROVE  LET q == More(p, DOMAIN p, w, share)
         IN  PointsOf(p, c) \in Nat /\
             PointsOf(q, c) = PointsOf(p, c) + IF c \in w THEN share ELSE 0
  <1>1. PointsOf(p, c) \in Nat
    BY DEF PointsOf
  <1>2. CASE c \in DOMAIN p \cup w
    BY <1>1, <1>2 DEF PointsOf, More
  <1>3. CASE c \notin DOMAIN p \cup w
    BY <1>1, <1>3 DEF PointsOf, More
  <1> QED
    BY <1>1, <1>2, <1>3

(* Each comparison picks the fastest or the smallest, and a whole point is   *)
(* for a codec that no other is as fast as (_min_value_winners), for every   *)
(* report in which a codec has one row per tier and profile.                 *)
THEOREM FastestWin == Spec => WinnersAreFastest
  <1> DEFINE Gain(c) ==
        PointsOf(points', c) > PointsOf(points, c) =>
          \E race \in todo \ todo' :
            LET entries == Scored(rows, CellOf(race), MetricOf(race))
                fastest == Lowest(rows, entries, MetricOf(race))
            IN  /\ c \in fastest
                /\ (PointsOf(points', c) - PointsOf(points, c) = Unit)
                     <=> fastest = {c}
  <1>1. ASSUME PointsInv, [Next]_vars
        PROVE  [\A c \in Codecs : Gain(c)]_vars
    <2> SUFFICES ASSUME Next, NEW c \in Codecs PROVE Gain(c)
      BY <1>1
    <2>0. \A d \in DOMAIN points : points[d] \in Nat
      BY <1>1 DEF PointsInv, AddUp
    <2>1. ASSUME NEW race \in todo, Compare(race) PROVE Gain(c)
      <3> DEFINE w == Winners(Scores(rows, CellOf(race), MetricOf(race)))
                 share == Unit \div Cardinality(w)
                 fastest == Lowest(rows, Scored(rows, CellOf(race), MetricOf(race)),
                                   MetricOf(race))
      <3>1. /\ w = fastest /\ w \in SUBSET Codecs /\ w # {}
            /\ points' = More(points, DOMAIN points, w, share)
        BY <1>1, <2>1, CompareAdds
      <3>2. race \in todo \ todo'
        BY <2>1 DEF Compare
      <3> HIDE DEF w, fastest
      <3>3. share \in Nat
        BY <3>1, WinnersShare
      <3>4. c \in w => (share = Unit <=> w = {c})
        BY <3>1, WholePoint
      <3> HIDE DEF share
      <3>5. /\ PointsOf(points, c) \in Nat
            /\ PointsOf(points', c) = PointsOf(points, c) + IF c \in w THEN share ELSE 0
        BY <2>0, <3>1, <3>3, GainsOf
      <3>6. PointsOf(points', c) > PointsOf(points, c) =>
              c \in w /\ PointsOf(points', c) - PointsOf(points, c) = share
        BY <3>3, <3>5
      <3>7. PointsOf(points', c) > PointsOf(points, c) =>
              /\ c \in fastest
              /\ (PointsOf(points', c) - PointsOf(points, c) = Unit) <=> fastest = {c}
        BY <3>1, <3>4, <3>6
      <3> QED
        BY <3>2, <3>7 DEF fastest
    <2>2. CASE Rank
      <3>1. points' = [d \in CodecsOf(rows) |-> PointsOf(points, d)]
        BY <2>2, RankAdds
      <3>2. PointsOf(points, c) \in Nat
        BY <2>0 DEF PointsOf
      <3>3. PointsOf(points', c) = PointsOf(points, c) \/ PointsOf(points', c) = 0
        BY <3>1 DEF PointsOf
      <3>4. ~(PointsOf(points', c) > PointsOf(points, c))
        BY <3>2, <3>3
      <3> QED
        BY <3>4
    <2> QED
      BY <2>1, <2>2 DEF Next
  <1>2. [][\A c \in Codecs : Gain(c)]_vars => WinnersAreFastest
    BY DEF WinnersAreFastest
  <1> QED
    BY <1>1, <1>2, PointsAlways, PTL DEF Spec

(* No tier has a metric without a name. *)
LEMMA MetricNames ==
  ASSUME NEW tier
  PROVE  "none" \notin Range(Metrics(tier))
  <1> DEFINE Names == {"encode", "decode", "round_trip", "wire", "compressed", "batch"}
             more == CASE tier = "S1" -> <<"compressed">>
                       [] tier \in {"S3", "S4"} -> <<"batch">>
                       [] OTHER -> <<>>
  <1>1. TimedBlocks \in Seq(Names) /\ <<"wire">> \in Seq(Names)
    BY DEF TimedBlocks
  <1>2. more \in Seq(Names)
    <2>1. <<"compressed">> \in Seq(Names) /\ <<"batch">> \in Seq(Names) /\ <<>> \in Seq(Names)
      OBVIOUS
    <2>2. more = <<"compressed">> \/ more = <<"batch">> \/ more = <<>>
      OBVIOUS
    <2> HIDE DEF more, Names
    <2> QED
      BY <2>1, <2>2
  <1>3. "none" \notin Names
    OBVIOUS
  <1>4. Metrics(tier) = TimedBlocks \o <<"wire">> \o more
    BY DEF Metrics
  <1> HIDE DEF more, Names
  <1>5. Metrics(tier) \in Seq(Names)
    BY <1>1, <1>2, <1>4
  <1>6. Range(Metrics(tier)) \in SUBSET Names
    BY <1>5 DEF Range
  <1> QED
    BY <1>3, <1>6

(* What the pages say about a group agrees (_comparison_table,               *)
(* _winner_loser_sentence, _footprint_body): the headline names a winner of  *)
(* the round-trip race, the table marks the winners of every race, and the   *)
(* distributed page those of the sizes.                                      *)
THEOREM PagesSayTheSame == Spec => []PagesAgree
  <1>1. ASSUME PointsInv PROVE PagesAgree
    <2> DEFINE Same(i, m) ==
          LET cell == Cell(rows[i])
              w == Winners(Scores(rows, cell, m))
          IN  /\ w = Highlighted(rows, cell, m)
              /\ m = FootprintMetric(cell[1]) => w = Smallest(rows, cell)
              /\ m = "round_trip" /\ HasHeadline(rows, cell)
                   => HeadlineFastest(rows, cell) \in w
    <2>1. ASSUME NEW i \in DOMAIN rows, NEW m \in Range(MetricsOf(rows, i)),
                 IsRace(rows, Cell(rows[i]), m)
          PROVE  Same(i, m)
      <3> DEFINE cell == Cell(rows[i])
                 scores == Scores(rows, cell, m)
                 w == Winners(scores)
                 best == Lowest(rows, Scored(rows, cell, m), m)
      <3>1. rows \in Reports /\ DOMAIN scores # {}
        BY <1>1, <2>1, RaceHasScores DEF PointsInv
      <3>2. w = best
        BY <2>1, <3>1, WinnersAreLowest
      <3>3. w \in SUBSET Codecs /\ w # {}
        BY <2>1, <3>1, WinnersAreThere
      <3>4. w = Highlighted(rows, cell, m)
        <4>1. Cardinality(Group(rows, cell)) >= 2 /\ Cardinality(Group(rows, cell)) \in Nat
          <5>1. Group(rows, cell) \in SUBSET DOMAIN rows
            BY DEF Group
          <5>2. IsFiniteSet(Group(rows, cell))
            BY <3>1, <5>1, PositionsAreFinite, FS_Subset
          <5> QED
            BY <2>1, <5>2, FS_CardinalityType DEF IsRace
        <4>2. \A c \in DOMAIN scores : scores[c] \in Nat
          BY <2>1, <3>1, ScoresAreNumbers
        <4>3. ~(Cardinality(Group(rows, cell)) < 2)
          BY <4>1
        <4>4. Highlighted(rows, cell, m) =
                {c \in DOMAIN scores : \A d \in DOMAIN scores : scores[c] =< scores[d]}
          BY <3>1, <4>3 DEF Highlighted
        <4> HIDE DEF scores
        <4> QED
          BY <3>1, <4>2, <4>4, WinnersHaveTheLeast
      <3>5. m = FootprintMetric(cell[1]) => w = Smallest(rows, cell)
        <4> SUFFICES ASSUME m = FootprintMetric(cell[1]) PROVE w = Smallest(rows, cell)
          OBVIOUS
        <4>1. CASE m = "none"
          BY <2>1, <4>1, MetricNames DEF MetricsOf
        <4>2. CASE m # "none"
          BY <3>2, <4>2 DEF Smallest
        <4> QED
          BY <4>1, <4>2
      <3>6. m = "round_trip" => HeadlineFastest(rows, cell) \in w
        <4> SUFFICES ASSUME m = "round_trip" PROVE HeadlineFastest(rows, cell) \in w
          OBVIOUS
        <4> DEFINE places == {k \in DOMAIN CodecOrder : CodecOrder[k] \in best}
        <4>1. HeadlineFastest(rows, cell) = CodecOrder[Min(places)]
          BY DEF HeadlineFastest
        <4> HIDE DEF w, best
        <4>2. places \in SUBSET Nat /\ places # {}
          <5>1. \A k \in DOMAIN CodecOrder : k \in Nat
            BY WinRateAssumption
          <5>2. PICK c \in best : c \in Codecs
            BY <3>2, <3>3
          <5>3. PICK k \in DOMAIN CodecOrder : CodecOrder[k] = c
            BY <5>2, WinRateAssumption DEF Range
          <5> QED
            BY <5>1, <5>2, <5>3
        <4>3. Min(places) \in places
          <5> HIDE DEF places
          <5>1. \E x \in places : \A y \in places : x =< y
            BY <4>2, LeastElement
          <5> QED
            BY <5>1 DEF Min
        <4> QED
          BY <3>2, <4>1, <4>3
      <3> QED
        BY <3>4, <3>5, <3>6
    <2> HIDE DEF Same
    <2>2. \A i \in DOMAIN rows : \A m \in Range(Metrics(Cell(rows[i])[1])) :
            IsRace(rows, Cell(rows[i]), m) => Same(i, m)
      <3> TAKE i \in DOMAIN rows
      <3>1. Metrics(Cell(rows[i])[1]) = MetricsOf(rows, i)
        BY DEF MetricsOf, Cell
      <3> QED
        BY <2>1, <3>1
    <2> QED
      BY <2>2 DEF PagesAgree, Same
  <1> QED
    BY <1>1, PointsAlways, PTL
=============================================================================
