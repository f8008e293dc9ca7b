-------------------------- MODULE BuildReport_proof --------------------------
(***************************************************************************)
(* Proofs about BuildReport, for every matrix, every number of iterations   *)
(* and every sequence of late steps.                                        *)
(***************************************************************************)
EXTENDS BuildReport, SequenceTheorems, TLAPS

(* The registry is not there before the matrix, and is stopped on every way  *)
(* out of it; what it is needed for does not change during a run.            *)
Inv ==
    /\ pc \in {"start", "row", "finally", "late", "returned", "raised"}
    /\ registry \in {"none", "up", "stopped"}
    /\ registry = "up" <=> NeedsRegistry /\ pc \in {"row", "finally"}

LEMMA InitInv == Init => Inv
  BY DEF Init, Inv

LEMMA NextInv == Inv /\ [Next]_vars => Inv'
  <1> SUFFICES ASSUME Inv, [Next]_vars PROVE Inv'
    OBVIOUS
  <1>1. NeedsRegistry' = NeedsRegistry
    <2>1. args' = args
      BY DEF Next, Work, Fault, StartRegistry, Operation, EndTurn, EndLoop, EndRow,
             StopRegistry, LateStep, Return, StartRaises, RowRaises, LateRaises,
             vars
    <2> QED
      BY <2>1 DEF NeedsRegistry, TiersLoop
  <1> HIDE DEF NeedsRegistry
  <1> USE <1>1 DEF Inv
  <1>2. CASE StartRegistry
    BY <1>2 DEF StartRegistry
  <1>3. CASE Operation \/ EndTurn \/ EndLoop
    <2>1. UNCHANGED <<pc, registry>>
      BY <1>3 DEF Operation, EndTurn, EndLoop
    <2> QED
      BY <2>1
  <1>4. CASE EndRow
    <2>1. pc = "row" /\ pc' \in {"row", "finally"} /\ registry' = registry
      BY <1>4 DEF EndRow
    <2> QED
      BY <2>1
  <1>5. CASE StopRegistry
    BY <1>5 DEF StopRegistry
  <1>6. CASE LateStep \/ Return \/ LateRaises
    BY <1>6 DEF LateStep, Return, LateRaises
  <1>7. CASE StartRaises
    BY <1>7 DEF StartRaises
  <1>8. CASE RowRaises
    <2>1. pc = "row" /\ pc' = "finally" /\ registry' = registry
      BY <1>8 DEF RowRaises, InTurn, InRow
    <2> QED
      BY <2>1
  <1>9. CASE UNCHANGED vars
    BY <1>9 DEF vars
  <1> QED
    BY <1>2, <1>3, <1>4, <1>5, <1>6, <1>7, <1>8, <1>9 DEF Next, Work, Fault

(* However build_report is left, the mock registry is not running any more;  *)
(* and it runs throughout the matrix exactly when S2 is in it                *)
(* (runner.py:904-938).                                                      *)
THEOREM RegistryNeverLeaks == Spec => []RegistryIsConfined
  <1>1. Inv => RegistryIsConfined
    BY DEF Inv, RegistryIsConfined
  <1> QED
    BY <1>1, InitInv, NextInv, PTL DEF Spec

-----------------------------------------------------------------------------
(* The matrix.  The rows so far are counted by the loop variables.           *)

(* Quotient and remainder of a number that is given by them. *)
LEMMA DivMod ==
  ASSUME NEW b \in Nat \ {0}, NEW q \in Nat, NEW r \in 0 .. b - 1
  PROVE  (q * b + r) \div b = q /\ (q * b + r) % b = r
  <1> DEFINE x == q * b + r
             d == x \div b
             m == x % b
  <1>1. x \in Nat
    OBVIOUS
  <1>2. d \in Int /\ m \in 0 .. b - 1 /\ x = b * d + m
    BY <1>1
  <1>3. b * d + m = q * b + r
    BY <1>2
  <1> HIDE DEF d, m, x
  <1>4. ~(d < q)
    <2> SUFFICES ASSUME d + 1 =< q PROVE FALSE
      BY <1>2
    <2>1. b * (d + 1) =< b * q
      BY <1>2
    <2> QED
      BY <1>2, <1>3, <2>1
  <1>5. ~(q < d)
    <2> SUFFICES ASSUME q + 1 =< d PROVE FALSE
      BY <1>2
    <2>1. b * (q + 1) =< b * d
      BY <1>2
    <2> QED
      BY <1>2, <1>3, <2>1
  <1>6. d = q
    BY <1>2, <1>4, <1>5
  <1>7. m = r
    BY <1>2, <1>3, <1>6
  <1> QED
    BY <1>6, <1>7 DEF d, m, x

P == Len(Profiles)
F == Len(Formats)

(* The rows before those of (t, p, f), all counted from 0. *)
Index(t, p, f) == (t * P + p) * F + f

LEMMA IndexType ==
  ASSUME NEW t \in Nat, NEW p \in Nat, NEW f \in Nat
  PROVE  Index(t, p, f) \in Nat
  <1>1. P \in Nat /\ F \in Nat
    BY BuildReportAssumption DEF P, F
  <1>2. \A x, y \in Nat : x * y \in Nat /\ x + y \in Nat
    OBVIOUS
  <1> QED
    BY <1>1, <1>2 DEF Index

(* The coordinates of a cell can be read off its index. *)
LEMMA Coordinates ==
  ASSUME NEW t \in Nat, NEW p \in 0 .. P - 1, NEW f \in 0 .. F - 1
  PROVE  /\ Index(t, p, f) \div (F * P) = t
         /\ (Index(t, p, f) \div F) % P = p
         /\ Index(t, p, f) % F = f
  <1>1. P \in Nat \ {0} /\ F \in Nat \ {0}
    BY BuildReportAssumption DEF P, F
  <1> HIDE DEF P, F
  <1>2. t * P + p \in Nat
    BY <1>1
  <1>3. Index(t, p, f) \div F = t * P + p /\ Index(t, p, f) % F = f
    BY <1>1, <1>2, DivMod DEF Index
  <1>4. (t * P + p) % P = p
    BY <1>1, DivMod
  <1>5. Index(t, p, f) \div (F * P) = t
    <2> DEFINE b == F * P
               r == p * F + f
    <2>1. b \in Nat \ {0}
      BY <1>1
    <2>2. r \in Nat /\ p * F + F =< b
      <3>1. (p + 1) * F =< P * F
        BY <1>1
      <3> QED
        BY <1>1, <3>1
    <2>3. r < b
      BY <1>1, <2>2
    <2>4. Index(t, p, f) = t * b + r
      BY <1>1 DEF Index
    <2> HIDE DEF b, r
    <2>5. r \in 0 .. b - 1
      BY <2>1, <2>2, <2>3
    <2>6. (t * b + r) \div b = t
      BY <2>1, <2>5, DivMod
    <2> QED
      BY <2>4, <2>6 DEF b
  <1> QED
    BY <1>3, <1>4, <1>5

T == Len(TiersLoop)

Count(a) == Index(a.tier - 1, a.profile - 1, a.format - 1)

MatrixInv ==
    /\ args \in [tier : ReportTier, warmup : Warmups, trace : BOOLEAN]
    /\ at \in [tier : 1 .. T + 1, profile : 1 .. P, format : 1 .. F]
    /\ at.tier = T + 1 => at.profile = 1 /\ at.format = 1
    /\ pc \in {"start", "row"} => at.tier =< T
    /\ pc \in {"late", "returned"} => at.tier = T + 1
    /\ \E S : rows \in Seq(S)
    /\ Len(rows) = Count(at)
    /\ \A i \in 1 .. Len(rows) :
         /\ rows[i].tier = CellOf(i).tier
         /\ rows[i].profile = CellOf(i).profile
         /\ rows[i].format = CellOf(i).format

LEMMA TierCount ==
  ASSUME args \in [tier : ReportTier, warmup : Warmups, trace : BOOLEAN]
  PROVE  T \in {1, 5}
  BY DEF T, TiersLoop, Tiers

LEMMA InitMatrix == Init => MatrixInv
  <1> SUFFICES ASSUME Init PROVE MatrixInv
    OBVIOUS
  <1>1. args \in [tier : ReportTier, warmup : Warmups, trace : BOOLEAN]
    BY DEF Init
  <1>2. P \in Nat \ {0} /\ F \in Nat \ {0} /\ T \in {1, 5}
    BY <1>1, TierCount, BuildReportAssumption DEF P, F
  <1>3. at = [tier |-> 1, profile |-> 1, format |-> 1] /\ rows = <<>> /\ pc = "start"
    BY DEF Init
  <1>4. Count(at) = 0
    BY <1>2, <1>3 DEF Count, Index
  <1>5. rows \in Seq({}) /\ Len(rows) = 0
    BY <1>3
  <1> QED
    BY <1>1, <1>2, <1>3, <1>4, <1>5 DEF MatrixInv

(* The loops of build_report go to the next cell, or past the last one. *)
LEMMA AdvanceCounts ==
  ASSUME NEW a \in [tier : 1 .. T + 1, profile : 1 .. P, format : 1 .. F],
         a.tier =< T, T \in Nat
  PROVE  /\ Advance(a) \in [tier : 1 .. T + 1, profile : 1 .. P, format : 1 .. F]
         /\ Advance(a).tier = T + 1 => Advance(a).profile = 1 /\ Advance(a).format = 1
         /\ Count(Advance(a)) = Count(a) + 1
  <1>1. P \in Nat \ {0} /\ F \in Nat \ {0}
    BY BuildReportAssumption DEF P, F
  <1>2. PICK t \in 1 .. T + 1, p \in 1 .. P, f \in 1 .. F :
          a = [tier |-> t, profile |-> p, format |-> f]
    OBVIOUS
  <1>3. CASE f < F
    <2>1. Advance(a) = [tier |-> t, profile |-> p, format |-> f + 1]
      BY <1>1, <1>2, <1>3 DEF Advance, F
    <2> HIDE DEF P, F
    <2> DEFINE x == ((t - 1) * P + (p - 1)) * F
    <2>2. x \in Int
      BY <1>1
    <2>3. Count(a) = x + (f - 1) /\ Count(Advance(a)) = x + ((f + 1) - 1)
      BY <1>2, <2>1 DEF Count, Index
    <2> HIDE DEF x
    <2>4. Count(Advance(a)) = Count(a) + 1
      BY <1>1, <2>2, <2>3
    <2>5. t \in 1 .. T /\ f + 1 \in 1 .. F
      BY <1>1, <1>2, <1>3
    <2> QED
      BY <1>1, <2>1, <2>4, <2>5
  <1>4. CASE f = F /\ p < P
    <2>1. Advance(a) = [tier |-> t, profile |-> p + 1, format |-> 1]
      <3>1. ~(a.format < Len(Formats)) /\ a.profile < Len(Profiles)
        BY <1>1, <1>2, <1>4 DEF F, P
      <3>2. Advance(a) = [a EXCEPT !.profile = @ + 1, !.format = 1]
        BY <3>1 DEF Advance
      <3> QED
        BY <1>2, <3>2
    <2> HIDE DEF P, F
    <2>2. ((t - 1) * P + p) * F = ((t - 1) * P + (p - 1)) * F + (F - 1) + 1
      <3> DEFINE x == (t - 1) * P + (p - 1)
      <3>1. x \in Int /\ (t - 1) * P + p = x + 1
        BY <1>1
      <3> HIDE DEF x
      <3>2. (x + 1) * F = x * F + F
        BY <1>1, <3>1
      <3> QED
        BY <1>1, <3>1, <3>2 DEF x
    <2>3. /\ Count(a) = ((t - 1) * P + (p - 1)) * F + (F - 1)
          /\ Count(Advance(a)) = ((t - 1) * P + p) * F
      <3>1. (p + 1) - 1 = p /\ 1 - 1 = 0
        OBVIOUS
      <3>2. ((t - 1) * P + p) * F + 0 = ((t - 1) * P + p) * F
        <4> DEFINE x == ((t - 1) * P + p) * F
        <4>1. x \in Int
          BY <1>1
        <4> HIDE DEF x
        <4> QED
          BY <4>1 DEF x
      <3> QED
        BY <1>2, <1>4, <2>1, <3>1, <3>2 DEF Count, Index
    <2>4. Count(Advance(a)) = Count(a) + 1
      BY <2>2, <2>3
    <2> QED
      BY <1>1, <1>2, <1>4, <2>1, <2>4
  <1>5. CASE f = F /\ p = P
    <2>1. Advance(a) = [tier |-> t + 1, profile |-> 1, format |-> 1]
      BY <1>1, <1>2, <1>5 DEF Advance, F, P
    <2> HIDE DEF P, F
    <2>2. (t * P + 0) * F + 0 = ((t - 1) * P + (P - 1)) * F + (F - 1) + 1
      <3> DEFINE x == (t - 1) * P + (P - 1)
      <3>1. x \in Int /\ t * P + 0 = x + 1
        BY <1>1
      <3> HIDE DEF x
      <3>2. (x + 1) * F = x * F + F
        BY <1>1, <3>1
      <3> QED
        BY <1>1, <3>1, <3>2 DEF x
    <2>3. /\ Count(a) = ((t - 1) * P + (P - 1)) * F + (F - 1)
          /\ Count(Advance(a)) = (t * P + 0) * F + 0
      <3>1. (t + 1) - 1 = t /\ 1 - 1 = 0
        OBVIOUS
      <3> QED
        BY <1>2, <1>5, <2>1, <3>1 DEF Count, Index
    <2>4. Count(Advance(a)) = Count(a) + 1
      BY <2>2, <2>3
    <2> QED
      BY <1>1, <1>2, <1>5, <2>1, <2>4
  <1> QED
    BY <1>1, <1>3, <1>4, <1>5

(* The row that ends is the next one of the matrix. *)
LEMMA RowIsNext ==
  ASSUME MatrixInv, at.tier =< T
  PROVE  /\ Row.tier = CellOf(Count(at) + 1).tier
         /\ Row.profile = CellOf(Count(at) + 1).profile
         /\ Row.format = CellOf(Count(at) + 1).format
  <1>1. P \in Nat \ {0} /\ F \in Nat \ {0} /\ T \in {1, 5}
    BY TierCount, BuildReportAssumption DEF P, F, MatrixInv
  <1> DEFINE t == at.tier - 1
             p == at.profile - 1
             f == at.format - 1
             c == Index(t, p, f)
  <1>2. t \in Nat /\ p \in 0 .. P - 1 /\ f \in 0 .. F - 1 /\ c \in Nat
        /\ at.tier = t + 1 /\ at.profile = p + 1 /\ at.format = f + 1
    <2>1. t \in Nat /\ p \in 0 .. P - 1 /\ f \in 0 .. F - 1
          /\ at.tier = t + 1 /\ at.profile = p + 1 /\ at.format = f + 1
      BY <1>1 DEF MatrixInv
    <2>2. t \in Nat /\ p \in Nat /\ f \in Nat
      BY <1>1, <2>1
    <2> HIDE DEF t, p, f
    <2> QED
      BY <2>1, <2>2, IndexType
  <1>3. c \div (F * P) = t /\ (c \div F) % P = p /\ c % F = f
    BY <1>2, Coordinates
  <1>4. Count(at) = c /\ (Count(at) + 1) - 1 = c
    BY <1>2 DEF Count
  <1> HIDE DEF t, p, f, c
  <1>5. /\ CellOf(Count(at) + 1).tier = TiersLoop[t + 1]
        /\ CellOf(Count(at) + 1).profile = Profiles[p + 1]
        /\ CellOf(Count(at) + 1).format = Formats[f + 1]
    BY <1>3, <1>4 DEF CellOf, P, F
  <1> QED
    BY <1>2, <1>5 DEF Row, CurrentTier

LEMMA NextMatrix == MatrixInv /\ [Next]_vars => MatrixInv'
  <1> SUFFICES ASSUME MatrixInv, [Next]_vars PROVE MatrixInv'
    OBVIOUS
  <1>1. args' = args
    BY DEF Next, Work, Fault, StartRegistry, Operation, EndTurn, EndLoop, EndRow,
           StopRegistry, LateStep, Return, StartRaises, RowRaises, LateRaises, vars
  <1>2. T' = T /\ \A i : CellOf(i)' = CellOf(i)
    BY <1>1 DEF T, TiersLoop, CellOf
  <1>3. T \in {1, 5}
    BY TierCount DEF MatrixInv
  <1>4. CASE EndRow
    <2>1. pc = "row" /\ rows' = Append(rows, Row) /\ at' = Advance(at)
          /\ pc' = IF at'.tier > T THEN "finally" ELSE "row"
      BY <1>4 DEF EndRow, T
    <2>2. at.tier =< T
      BY <2>1 DEF MatrixInv
    <2>3. /\ at' \in [tier : 1 .. T + 1, profile : 1 .. P, format : 1 .. F]
          /\ at'.tier = T + 1 => at'.profile = 1 /\ at'.format = 1
          /\ Count(at') = Count(at) + 1
      BY <1>3, <2>1, <2>2, AdvanceCounts DEF MatrixInv
    <2>4. PICK S : rows \in Seq(S)
      BY DEF MatrixInv
    <2>5. /\ rows' \in Seq(S \cup {Row}) /\ Len(rows') = Len(rows) + 1
          /\ rows'[Len(rows) + 1] = Row
          /\ \A i \in 1 .. Len(rows) : rows'[i] = rows[i]
          /\ Len(rows) \in Nat
      BY <2>1, <2>4
    <2>6. \A i \in 1 .. Len(rows') :
            /\ rows'[i].tier = CellOf(i).tier
            /\ rows'[i].profile = CellOf(i).profile
            /\ rows'[i].format = CellOf(i).format
      <3>1. \A i \in 1 .. Len(rows') : i \in 1 .. Len(rows) \/ i = Len(rows) + 1
        BY <2>5
      <3>2. Len(rows) = Count(at)
        BY DEF MatrixInv
      <3> QED
        BY <2>2, <2>5, <3>1, <3>2, RowIsNext DEF MatrixInv
    <2>7. pc' \in {"finally", "row"} /\ (pc' = "row" => at'.tier =< T)
      BY <1>3, <2>1, <2>3
    <2>8. \E U : rows' \in Seq(U)
      BY <2>5
    <2>9. args' \in [tier : ReportTier, warmup : Warmups, trace : BOOLEAN]
          /\ Len(rows') = Count(at')
      BY <1>1, <2>3, <2>5 DEF MatrixInv
    <2> QED
      BY <1>2, <2>3, <2>6, <2>7, <2>8, <2>9 DEF MatrixInv, Count
  <1>5. CASE UNCHANGED <<at, rows>>
    <2>1. /\ pc' \in {"start", "row"} => pc \in {"start", "row"}
          /\ pc' \in {"late", "returned"} => pc \in {"late", "returned"} \/ MatrixDone
      BY <1>5 DEF Next, Work, Fault, StartRegistry, Operation, EndTurn, EndLoop, EndRow,
           StopRegistry, LateStep, Return, StartRaises, RowRaises, LateRaises, vars
    <2>2. MatrixDone => at.tier = T + 1
      BY <1>3 DEF MatrixDone, MatrixInv, T
    <2> QED
      BY <1>1, <1>2, <1>5, <2>1, <2>2 DEF MatrixInv, Count
  <1>6. EndRow \/ UNCHANGED <<at, rows>>
    BY DEF Next, Work, Fault, StartRegistry, Operation, EndTurn, EndLoop,
           StopRegistry, LateStep, Return, StartRaises, RowRaises, LateRaises, vars
  <1> QED
    BY <1>4, <1>5, <1>6

(* The rows of a report are the cells of the matrix in order, and a report    *)
(* that is returned has all of them, for every number of profiles and formats *)
(* (the nested loops of runner.py:907-936).                                   *)
THEOREM RowsAreTheMatrix == Spec => []ReportIsTheMatrix
  <1>1. MatrixInv => ReportIsTheMatrix
    <2> SUFFICES ASSUME MatrixInv PROVE ReportIsTheMatrix
      OBVIOUS
    <2>1. DOMAIN rows = 1 .. Len(rows)
      BY DEF MatrixInv
    <2>2. \A i \in DOMAIN rows :
            [tier |-> rows[i].tier, profile |-> rows[i].profile,
             format |-> rows[i].format] = CellOf(i)
      BY <2>1 DEF MatrixInv, CellOf
    <2>3. ASSUME pc = "returned" PROVE Len(rows) = T * P * F
      <3>1. P \in Nat \ {0} /\ F \in Nat \ {0} /\ T \in {1, 5}
        BY TierCount, BuildReportAssumption DEF P, F, MatrixInv
      <3>2. at.tier = T + 1 /\ at.profile = 1 /\ at.format = 1
        BY <2>3 DEF MatrixInv
      <3>3. Count(at) = T * P * F
        BY <3>1, <3>2 DEF Count, Index
      <3> QED
        BY <3>3 DEF MatrixInv
    <2> QED
      BY <2>2, <2>3 DEF ReportIsTheMatrix, T, P, F
  <1> QED
    BY <1>1, InitMatrix, NextMatrix, PTL DEF Spec

-----------------------------------------------------------------------------
(* The programs.  Every loop of a row can be run to its end: the forms its   *)
(* value goes through are named, as is the work it times.                    *)

TierSet == {"S0", "S1", "S2", "S3", "S4"}

Forms == {"event", "wire", "blob"}

Ops == {"encode", "compress", "decompress", "decode", "get", "join",
        "trace_on", "trace_off"}

OpsOf(s) == {s[k] : k \in 1 .. Len(s)}

(* The form that an operation takes. *)
Fits(o, b) ==
    /\ o = "compress" => b = "wire"
    /\ o = "decompress" => b = "blob"
    /\ o = "decode" => b = "wire"

(* f[k] is the form of the value after k operations. *)
Flow(s, a, f) ==
    /\ f[0] = a
    /\ \A k \in 1 .. Len(s) : Fits(s[k], f[k - 1]) /\ f[k] = Effect(s[k], f[k - 1])

FlowsTo(s, a, b) ==
    \E f \in [0 .. Len(s) -> Forms] : Flow(s, a, f) /\ f[Len(s)] = b

LEMMA EffectType ==
  ASSUME NEW o \in Ops, NEW b \in Forms
  PROVE  Effect(o, b) \in Forms
  BY DEF Effect, Ops, Forms

LEMMA FlowOfNone == ASSUME NEW a \in Forms PROVE FlowsTo(<<>>, a, a)
  <1> DEFINE f == [k \in 0 .. 0 |-> a]
  <1>1. f \in [0 .. Len(<<>>) -> Forms]
    OBVIOUS
  <1>2. Flow(<<>>, a, f) /\ f[Len(<<>>)] = a
    BY DEF Flow
  <1> QED
    BY <1>1, <1>2 DEF FlowsTo

LEMMA FlowOfOne ==
  ASSUME NEW o \in Ops, NEW a \in Forms, Fits(o, a)
  PROVE  FlowsTo(<<o>>, a, Effect(o, a))
  <1> DEFINE b == Effect(o, a)
             f == [k \in 0 .. 1 |-> IF k = 0 THEN a ELSE b]
  <1>1. b \in Forms
    BY EffectType
  <1>2. Len(<<o>>) = 1 /\ <<o>>[1] = o
    OBVIOUS
  <1> HIDE DEF b
  <1>3. f \in [0 .. Len(<<o>>) -> Forms]
    BY <1>1, <1>2
  <1>4. f[0] = a /\ f[1] = b /\ f[Len(<<o>>)] = b
    BY <1>2
  <1> HIDE DEF f
  <1>5. Flow(<<o>>, a, f)
    <2> SUFFICES ASSUME NEW k \in 1 .. Len(<<o>>)
                 PROVE  Fits(<<o>>[k], f[k - 1]) /\ f[k] = Effect(<<o>>[k], f[k - 1])
      BY <1>4 DEF Flow
    <2>1. k = 1 /\ k - 1 = 0
      BY <1>2
    <2> QED
      BY <1>2, <1>4, <2>1 DEF b
  <1>6. FlowsTo(<<o>>, a, b)
    BY <1>3, <1>4, <1>5 DEF FlowsTo
  <1> QED
    BY <1>6 DEF b

(* One piece of a loop after the other. *)
LEMMA FlowOfBoth ==
  ASSUME NEW s \in Seq(Ops), NEW t \in Seq(Ops),
         NEW a \in Forms, NEW b \in Forms, NEW c \in Forms,
         FlowsTo(s, a, b), FlowsTo(t, b, c)
  PROVE  FlowsTo(s \o t, a, c)
  <1>1. PICK f \in [0 .. Len(s) -> Forms] : Flow(s, a, f) /\ f[Len(s)] = b
    BY DEF FlowsTo
  <1>2. PICK g \in [0 .. Len(t) -> Forms] : Flow(t, b, g) /\ g[Len(t)] = c
    BY DEF FlowsTo
  <1> DEFINE m == Len(s)
             n == Len(t)
             u == s \o t
             h == [k \in 0 .. m + n |-> IF k =< m THEN f[k] ELSE g[k - m]]
  <1>3. m \in Nat /\ n \in Nat
    OBVIOUS
  <1>4. /\ Len(u) = m + n
        /\ \A i \in 1 .. m + n : u[i] = IF i <= m THEN s[i] ELSE t[i - m]
    BY ConcatProperties, Zenon
  <1>5. /\ f \in [0 .. m -> Forms] /\ g \in [0 .. n -> Forms]
        /\ f[0] = a /\ f[m] = b /\ g[0] = b /\ g[n] = c
        /\ \A k \in 1 .. m : Fits(s[k], f[k - 1]) /\ f[k] = Effect(s[k], f[k - 1])
        /\ \A k \in 1 .. n : Fits(t[k], g[k - 1]) /\ g[k] = Effect(t[k], g[k - 1])
    BY <1>1, <1>2 DEF Flow
  <1> HIDE DEF m, n, u
  <1>6. /\ h \in [0 .. m + n -> Forms]
        /\ \A k \in 0 .. m : h[k] = f[k]
        /\ \A k \in 0 .. n : h[m + k] = g[k]
    <2>1. \A k \in 0 .. m + n : k =< m \/ k - m \in 0 .. n
      BY <1>3
    <2>2. h \in [0 .. m + n -> Forms]
      BY <1>3, <1>5, <2>1
    <2>3. \A k \in 0 .. m : h[k] = f[k]
      BY <1>3
    <2>4. \A k \in 0 .. n : h[m + k] = g[k]
      <3> SUFFICES ASSUME NEW k \in 0 .. n PROVE h[m + k] = g[k]
        OBVIOUS
      <3>1. m + k \in 0 .. m + n /\ (m + k) - m = k /\ (m + k =< m => k = 0)
        BY <1>3
      <3>2. k = 0 => h[m + k] = f[m]
        BY <1>3, <3>1
      <3> QED
        BY <1>3, <1>5, <3>1, <3>2
    <2> QED
      BY <2>2, <2>3, <2>4
  <1> HIDE DEF h
  <1>7. ASSUME NEW k \in 1 .. m + n
        PROVE  Fits(u[k], h[k - 1]) /\ h[k] = Effect(u[k], h[k - 1])
    <2>1. CASE k =< m
      <3>1. k \in 1 .. m /\ k \in 0 .. m /\ k - 1 \in 0 .. m
        BY <1>3, <2>1
      <3>2. u[k] = s[k] /\ h[k] = f[k] /\ h[k - 1] = f[k - 1]
        BY <1>4, <1>6, <2>1, <3>1
      <3> QED
        BY <1>5, <3>1, <3>2
    <2>2. CASE ~(k =< m)
      <3> DEFINE j == k - m
      <3>1. j \in 1 .. n /\ j \in 0 .. n /\ j - 1 \in 0 .. n
            /\ k = m + j /\ k - 1 = m + (j - 1)
        BY <1>3, <2>2
      <3>2. u[k] = t[j]
        BY <1>4, <2>2
      <3> HIDE DEF j
      <3>3. h[k] = g[j] /\ h[k - 1] = g[j - 1]
        BY <1>6, <3>1
      <3> QED
        BY <1>5, <3>1, <3>2, <3>3
    <2> QED
      BY <2>1, <2>2
  <1>8. h[0] = a /\ h[m + n] = c
    BY <1>3, <1>5, <1>6
  <1>9. Flow(u, a, h)
    BY <1>4, <1>7, <1>8 DEF Flow
  <1>10. FlowsTo(u, a, c)
    BY <1>4, <1>6, <1>8, <1>9 DEF FlowsTo
  <1> QED
    BY <1>10 DEF u

LEMMA OpsOfBoth ==
  ASSUME NEW S, NEW s \in Seq(S), NEW t \in Seq(S)
  PROVE  /\ s \o t \in Seq(S)
         /\ OpsOf(s \o t) = OpsOf(s) \cup OpsOf(t)
  <1> DEFINE m == Len(s)
             n == Len(t)
             u == s \o t
  <1>1. m \in Nat /\ n \in Nat
    OBVIOUS
  <1>2. /\ u \in Seq(S) /\ Len(u) = m + n
        /\ \A i \in 1 .. m + n : u[i] = IF i <= m THEN s[i] ELSE t[i - m]
    BY ConcatProperties, Zenon
  <1> HIDE DEF m, n, u
  <1>3. \A i \in 1 .. m : i \in 1 .. m + n /\ u[i] = s[i]
    BY <1>1, <1>2
  <1>4. \A i \in 1 .. n : m + i \in 1 .. m + n /\ u[m + i] = t[i]
    <2> SUFFICES ASSUME NEW i \in 1 .. n
                 PROVE  m + i \in 1 .. m + n /\ u[m + i] = t[i]
      OBVIOUS
    <2>1. m + i \in 1 .. m + n /\ ~(m + i =< m) /\ (m + i) - m = i
      BY <1>1
    <2> QED
      BY <1>2, <2>1
  <1>5. \A i \in 1 .. m + n :
          \/ i \in 1 .. m /\ u[i] = s[i]
          \/ i - m \in 1 .. n /\ u[i] = t[i - m]
    BY <1>1, <1>2
  <1>6. {u[i] : i \in 1 .. m + n} = {s[i] : i \in 1 .. m} \cup {t[i] : i \in 1 .. n}
    BY <1>3, <1>4, <1>5
  <1> QED
    BY <1>2, <1>6 DEF OpsOf, m, n, u

LEMMA OpsOfOne ==
  ASSUME NEW o \in Ops
  PROVE  /\ <<o>> \in Seq(Ops) /\ OpsOf(<<o>>) = {o}
         /\ <<>> \in Seq(Ops) /\ OpsOf(<<>>) = {}
  <1>1. Len(<<o>>) = 1 /\ <<o>>[1] = o /\ Len(<<>>) = 0
    OBVIOUS
  <1>2. <<o>> \in Seq(Ops) /\ <<>> \in Seq(Ops)
    OBVIOUS
  <1> QED
    BY <1>1, <1>2 DEF OpsOf

LEMMA RepeatOps ==
  ASSUME NEW o \in Ops, NEW a \in Forms, NEW b \in Forms,
         Fits(o, a), Effect(o, a) = b, Fits(o, b), Effect(o, b) = b
  PROVE  /\ Repeat(o, BatchSize) \in Seq(Ops)
         /\ OpsOf(Repeat(o, BatchSize)) = {o}
         /\ FlowsTo(Repeat(o, BatchSize), a, b)
  <1> DEFINE n == BatchSize
             s == Repeat(o, n)
             f == [k \in 0 .. n |-> IF k = 0 THEN a ELSE b]
  <1>1. n \in Nat \ {0}
    BY BuildReportAssumption
  <1>2. s \in Seq(Ops) /\ Len(s) = n /\ \A k \in 1 .. n : s[k] = o
    BY <1>1 DEF Repeat
  <1> HIDE DEF n, s
  <1>3. OpsOf(s) = {o}
    <2>1. 1 \in 1 .. n
      BY <1>1
    <2> QED
      BY <1>2, <2>1 DEF OpsOf
  <1>4. /\ f \in [0 .. n -> Forms] /\ f[0] = a /\ f[n] = b
        /\ \A k \in 1 .. n : f[k] = b /\ f[k - 1] \in {a, b}
    BY <1>1
  <1> HIDE DEF f
  <1>5. Flow(s, a, f)
    BY <1>2, <1>4 DEF Flow
  <1>6. FlowsTo(s, a, b)
    BY <1>2, <1>4, <1>5 DEF FlowsTo
  <1> QED
    BY <1>2, <1>3, <1>6 DEF s, n

(* A sequence of plain operations that takes form a to form b and does W. *)
Piece(s, a, b, W) ==
    /\ s \in Seq(Ops) /\ FlowsTo(s, a, b) /\ OpsOf(s) = W

LEMMA Pieces ==
  ASSUME NEW s, NEW t, NEW a \in Forms, NEW b \in Forms, NEW c \in Forms,
         NEW V, NEW W, Piece(s, a, b, V), Piece(t, b, c, W)
  PROVE  Piece(s \o t, a, c, V \cup W)
  <1>1. s \in Seq(Ops) /\ t \in Seq(Ops)
    BY DEF Piece
  <1>2. FlowsTo(s \o t, a, c)
    BY <1>1, FlowOfBoth DEF Piece
  <1> QED
    BY <1>1, <1>2, OpsOfBoth DEF Piece

LEMMA OnePiece ==
  ASSUME NEW o \in Ops, NEW a \in Forms, Fits(o, a)
  PROVE  Piece(<<o>>, a, Effect(o, a), {o})
  BY FlowOfOne, OpsOfOne DEF Piece

LEMMA Single ==
  /\ \A a \in Forms :
       /\ Piece(<<"encode">>, a, "wire", {"encode"})
       /\ Piece(<<"get">>, a, a, {"get"})
       /\ Piece(<<"join">>, a, a, {"join"})
       /\ Piece(<<"trace_on">>, a, a, {"trace_on"})
       /\ Piece(<<"trace_off">>, a, a, {"trace_off"})
       /\ Piece(<<>>, a, a, {})
  /\ Piece(<<"decode">>, "wire", "wire", {"decode"})
  /\ Piece(<<"compress">>, "wire", "blob", {"compress"})
  /\ Piece(<<"decompress">>, "blob", "wire", {"decompress"})
  <1>1. ASSUME NEW a \in Forms
        PROVE  /\ Piece(<<"encode">>, a, "wire", {"encode"})
               /\ Piece(<<"get">>, a, a, {"get"})
               /\ Piece(<<"join">>, a, a, {"join"})
               /\ Piece(<<"trace_on">>, a, a, {"trace_on"})
               /\ Piece(<<"trace_off">>, a, a, {"trace_off"})
               /\ Piece(<<>>, a, a, {})
    <2>1. /\ \A o \in {"encode", "get", "join", "trace_on", "trace_off"} :
               o \in Ops /\ Fits(o, a)
          /\ Effect("encode", a) = "wire"
          /\ \A o \in {"get", "join", "trace_on", "trace_off"} : Effect(o, a) = a
      BY DEF Ops, Fits, Effect
    <2>2. \A o \in {"encode", "get", "join", "trace_on", "trace_off"} :
            Piece(<<o>>, a, Effect(o, a), {o})
      BY <2>1, OnePiece
    <2>3. Piece(<<>>, a, a, {})
      <3>1. "get" \in Ops
        BY DEF Ops
      <3> QED
        BY <3>1, FlowOfNone, OpsOfOne DEF Piece
    <2> QED
      BY <2>1, <2>2, <2>3
  <1>2. /\ "decode" \in Ops /\ "compress" \in Ops /\ "decompress" \in Ops
        /\ Fits("decode", "wire") /\ Effect("decode", "wire") = "wire"
        /\ Fits("compress", "wire") /\ Effect("compress", "wire") = "blob"
        /\ Fits("decompress", "blob") /\ Effect("decompress", "blob") = "wire"
        /\ "wire" \in Forms /\ "blob" \in Forms
    BY DEF Ops, Fits, Effect, Forms
  <1>3. /\ Piece(<<"decode">>, "wire", Effect("decode", "wire"), {"decode"})
        /\ Piece(<<"compress">>, "wire", Effect("compress", "wire"), {"compress"})
        /\ Piece(<<"decompress">>, "blob", Effect("decompress", "blob"), {"decompress"})
    BY <1>2, OnePiece
  <1> QED
    BY <1>1, <1>2, <1>3

(* What is between compress and decompress, and what both do. *)
Stored(tier) == IF tier = "S1" THEN "blob" ELSE "wire"
Out(tier) == IF tier = "S1" THEN {"compress"} ELSE {}
Back(tier) == IF tier = "S1" THEN {"decompress"} ELSE {}

LEMMA CompressPiece ==
  ASSUME NEW tier
  PROVE  /\ Stored(tier) \in Forms
         /\ Piece(Compress(tier), "wire", Stored(tier), Out(tier))
         /\ Piece(Decompress(tier), Stored(tier), "wire", Back(tier))
  <1>1. "wire" \in Forms /\ "blob" \in Forms
    BY DEF Forms
  <1> QED
    BY <1>1, Single DEF Compress, Decompress, Stored, Out, Back

(* The sequences that the loops of S0 and S1 are made of. *)
LEMMA CodecPieces ==
  ASSUME NEW tier
  PROVE  /\ \A a \in Forms :
              Piece(<<"encode">> \o Compress(tier), a, Stored(tier),
                    {"encode"} \cup Out(tier))
         /\ Piece(Decompress(tier) \o <<"decode">>, Stored(tier), "wire",
                  {"decode"} \cup Back(tier))
         /\ \A a \in Forms :
              Piece(<<"encode">> \o Compress(tier) \o Decompress(tier) \o <<"decode">>,
                    a, "wire", {"encode", "decode"} \cup Out(tier) \cup Back(tier))
  <1> DEFINE C == Compress(tier)
             D == Decompress(tier)
             w == Stored(tier)
             V == Out(tier)
             W == Back(tier)
  <1>1. /\ w \in Forms /\ "wire" \in Forms
        /\ Piece(C, "wire", w, V) /\ Piece(D, w, "wire", W)
    BY CompressPiece DEF Forms
  <1> HIDE DEF C, D, w, V, W
  <1>2. ASSUME NEW a \in Forms
        PROVE  Piece(<<"encode">> \o C, a, w, {"encode"} \cup V)
    <2>1. Piece(<<"encode">>, a, "wire", {"encode"})
      BY Single
    <2> QED
      BY <1>1, <2>1, Pieces
  <1>3. Piece(D \o <<"decode">>, w, "wire", {"decode"} \cup W)
    <2>1. Piece(<<"decode">>, "wire", "wire", {"decode"})
      BY Single
    <2>2. Piece(D \o <<"decode">>, w, "wire", W \cup {"decode"})
      BY <1>1, <2>1, Pieces
    <2>3. W \cup {"decode"} = {"decode"} \cup W
      OBVIOUS
    <2> QED
      BY <2>2, <2>3
  <1>4. ASSUME NEW a \in Forms
        PROVE  Piece(<<"encode">> \o C \o D \o <<"decode">>, a, "wire",
                     {"encode", "decode"} \cup V \cup W)
    <2>1. Piece(<<"encode">> \o C \o D, a, "wire", ({"encode"} \cup V) \cup W)
      BY <1>1, <1>2, Pieces
    <2>2. Piece(<<"decode">>, "wire", "wire", {"decode"})
      BY Single
    <2>3. Piece(<<"encode">> \o C \o D \o <<"decode">>, a, "wire",
                (({"encode"} \cup V) \cup W) \cup {"decode"})
      BY <1>1, <2>1, <2>2, Pieces
    <2>4. (({"encode"} \cup V) \cup W) \cup {"decode"}
            = {"encode", "decode"} \cup V \cup W
      OBVIOUS
    <2> QED
      BY <2>3, <2>4
  <1> QED
    BY <1>2, <1>3, <1>4 DEF C, D, w, V, W
-----------------------------------------------------------------------------
(* The layer cakes, list by list. *)

CodecLists == {"encode", "decode", "round_trip"}

OwnLists(tier) ==
    CASE tier = "S0" -> {}
      [] tier = "S1" -> {"compress_wire_s", "decompress_wire_s",
                         "codec_encode_only_s", "codec_decode_raw_wire_s"}
      [] tier = "S2" -> {"fetch_new_tcp_each_iteration", "fetch_reused_connection"}
      [] tier = "S3" -> {"batch_build_and_join"}
      [] tier = "S4" -> {"batch_decode"}

Fetched(tier) == IF tier = "S2" THEN {"get"} ELSE {}

Cake(tier, l) ==
    IF l = "encode" THEN {"encode"} \cup Out(tier) \cup Fetched(tier)
    ELSE IF l = "decode" THEN {"decode"} \cup Back(tier)
    ELSE IF l = "round_trip"
    THEN {"encode", "decode"} \cup Out(tier) \cup Back(tier) \cup Fetched(tier)
    ELSE IF l = "compress_wire_s" THEN {"compress"}
    ELSE IF l = "decompress_wire_s" THEN {"decompress"}
    ELSE IF l = "codec_encode_only_s" THEN {"encode"}
    ELSE IF l \in {"codec_decode_raw_wire_s", "batch_decode"} THEN {"decode"}
    ELSE IF l = "batch_build_and_join" THEN {"encode", "join"}
    ELSE {"get"}

LEMMA Cakes ==
  ASSUME NEW tier \in TierSet
  PROVE  /\ DOMAIN LayerCake(tier) = CodecLists \cup OwnLists(tier)
         /\ \A l \in DOMAIN LayerCake(tier) : LayerCake(tier)[l] = Cake(tier, l)
  <1>1. CASE tier = "S0"
    BY <1>1 DEF LayerCake, CodecLists, OwnLists, Cake, Out, Back, Fetched
  <1>2. CASE tier = "S1"
    <2>1. LayerCake("S1") =
            [l \in CodecLists \cup OwnLists("S1") |->
               CASE l = "encode" -> {"encode", "compress"}
                 [] l = "decode" -> {"decode", "decompress"}
                 [] l = "round_trip" -> {"encode", "decode", "compress", "decompress"}
                 [] l = "compress_wire_s" -> {"compress"}
                 [] l = "decompress_wire_s" -> {"decompress"}
                 [] l = "codec_encode_only_s" -> {"encode"}
                 [] l = "codec_decode_raw_wire_s" -> {"decode"}]
      BY SMTT(30) DEF LayerCake, CodecLists, OwnLists
    <2>2. \A l \in CodecLists \cup OwnLists("S1") :
            Cake("S1", l) =
               CASE l = "encode" -> {"encode", "compress"}
                 [] l = "decode" -> {"decode", "decompress"}
                 [] l = "round_trip" -> {"encode", "decode", "compress", "decompress"}
                 [] l = "compress_wire_s" -> {"compress"}
                 [] l = "decompress_wire_s" -> {"decompress"}
                 [] l = "codec_encode_only_s" -> {"encode"}
                 [] l = "codec_decode_raw_wire_s" -> {"decode"}
      BY DEF CodecLists, Cake, Out, Back, Fetched, OwnLists
    <2> QED
      BY <1>2, <2>1, <2>2
  <1>3. CASE tier = "S2"
    BY <1>3 DEF LayerCake, CodecLists, OwnLists, Cake, Out, Back, Fetched
  <1>4. CASE tier = "S3"
    BY <1>4 DEF LayerCake, CodecLists, OwnLists, Cake, Out, Back, Fetched
  <1>5. CASE tier = "S4"
    <2>1. LayerCake("S4") =
            [l \in CodecLists \cup {"batch_decode"} |->
               CASE l = "encode" -> {"encode"}
                 [] l = "decode" -> {"decode"}
                 [] l = "round_trip" -> {"encode", "decode"}
                 [] l = "batch_decode" -> {"decode"}]
      BY DEF LayerCake, CodecLists
    <2>2. \A l \in CodecLists \cup {"batch_decode"} :
            Cake("S4", l) = CASE l = "encode" -> {"encode"}
                              [] l = "decode" -> {"decode"}
                              [] l = "round_trip" -> {"encode", "decode"}
                              [] l = "batch_decode" -> {"decode"}
      BY DEF CodecLists, Cake, Out, Back, Fetched, OwnLists
    <2> QED
      BY <1>5, <2>1, <2>2 DEF OwnLists
  <1> QED
    BY <1>1, <1>2, <1>3, <1>4, <1>5 DEF TierSet

-----------------------------------------------------------------------------
(* The loops of the programs. *)

ListNames == CodecLists \cup UNION {OwnLists(t) : t \in TierSet}

LoopType ==
    [list : ListNames \cup {"untimed"}, from : Forms, ops : Seq(Ops), count : Nat]

(* A loop of a row of `tier`: its value flows through it; it gets a schema   *)
(* only in S2; it traces, if asked, outside the timed lists and up to its    *)
(* last operation; a timed one does the announced work.                      *)
GoodLoop(l, tier) ==
    /\ l \in LoopType
    /\ \E b \in Forms : FlowsTo(l.ops, l.from, b)
    /\ "get" \in OpsOf(l.ops) => tier = "S2"
    /\ "trace_on" \in OpsOf(l.ops) =>
         /\ l.list = "untimed" /\ (l.count > 0 => args.trace)
         /\ l.ops[Len(l.ops)] = "trace_off"
    /\ l.list # "untimed" => /\ l.count = Iterations
                      /\ l.list \in CodecLists \cup OwnLists(tier)
                      /\ OpsOf(l.ops) = Cake(tier, l.list)

Names(s) == {s[k].list : k \in 1 .. Len(s)} \ {"untimed"}

(* A part of a row's program that fills the lists N. *)
Part(s, tier, N) ==
    /\ s \in Seq(LoopType)
    /\ \A k \in 1 .. Len(s) : GoodLoop(s[k], tier)
    /\ \A j, k \in 1 .. Len(s) : s[j].list = s[k].list /\ s[j].list # "untimed" => j = k
    /\ Names(s) = N

LEMMA Parts ==
  ASSUME NEW s, NEW t, NEW tier, NEW M, NEW N,
         Part(s, tier, M), Part(t, tier, N), M \cap N = {}
  PROVE  Part(s \o t, tier, M \cup N)
  <1> DEFINE m == Len(s)
             n == Len(t)
             u == s \o t
  <1>1. s \in Seq(LoopType) /\ t \in Seq(LoopType)
    BY DEF Part
  <1>2. m \in Nat /\ n \in Nat
    BY <1>1
  <1>3. /\ u \in Seq(LoopType) /\ Len(u) = m + n
        /\ \A i \in 1 .. m + n : u[i] = IF i <= m THEN s[i] ELSE t[i - m]
    BY <1>1, ConcatProperties, Zenon
  <1>4. /\ \A k \in 1 .. m : GoodLoop(s[k], tier)
        /\ \A k \in 1 .. n : GoodLoop(t[k], tier)
        /\ \A j, k \in 1 .. m : s[j].list = s[k].list /\ s[j].list # "untimed" => j = k
        /\ \A j, k \in 1 .. n : t[j].list = t[k].list /\ t[j].list # "untimed" => j = k
        /\ \A k \in 1 .. m : s[k].list # "untimed" => s[k].list \in M
        /\ \A k \in 1 .. n : t[k].list # "untimed" => t[k].list \in N
        /\ \A x \in M : x # "untimed" /\ \E k \in 1 .. m : s[k].list = x
        /\ \A x \in N : x # "untimed" /\ \E k \in 1 .. n : t[k].list = x
    BY DEF Part, Names
  <1> HIDE DEF m, n, u
  <1>5. \A i \in 1 .. m : i \in 1 .. m + n /\ u[i] = s[i]
    BY <1>2, <1>3
  <1>6. \A i \in 1 .. n : m + i \in 1 .. m + n /\ u[m + i] = t[i]
    <2> SUFFICES ASSUME NEW i \in 1 .. n
                 PROVE  m + i \in 1 .. m + n /\ u[m + i] = t[i]
      OBVIOUS
    <2>1. m + i \in 1 .. m + n /\ ~(m + i =< m) /\ (m + i) - m = i
      BY <1>2
    <2> QED
      BY <1>3, <2>1
  <1>7. \A i \in 1 .. m + n :
          \/ i \in 1 .. m /\ u[i] = s[i]
          \/ \E j \in 1 .. n : i = m + j /\ u[i] = t[j]
    <2> SUFFICES ASSUME NEW i \in 1 .. m + n, ~(i \in 1 .. m)
                 PROVE  \E j \in 1 .. n : i = m + j /\ u[i] = t[j]
      BY <1>3, <1>5
    <2>1. i - m \in 1 .. n /\ i = m + (i - m)
      BY <1>2
    <2> QED
      BY <1>6, <2>1
  <1>8. \A k \in 1 .. m + n : GoodLoop(u[k], tier)
    BY <1>4, <1>7
  <1>9. ASSUME NEW k \in 1 .. m + n, u[k].list # "untimed"
        PROVE  \/ k \in 1 .. m /\ u[k] = s[k] /\ u[k].list \in M
               \/ \E i \in 1 .. n : k = m + i /\ u[k] = t[i] /\ u[k].list \in N
    <2>1. CASE k \in 1 .. m /\ u[k] = s[k]
      BY <1>4, <1>9, <2>1
    <2>2. CASE \E i \in 1 .. n : k = m + i /\ u[k] = t[i]
      BY <1>4, <1>9, <2>2
    <2> QED
      BY <1>7, <2>1, <2>2
  <1>10. ASSUME NEW j \in 1 .. m + n, NEW k \in 1 .. m + n,
                u[j].list = u[k].list, u[j].list # "untimed"
         PROVE  j = k
    <2>1. u[j].list \notin M \/ u[j].list \notin N
      OBVIOUS
    <2>2. CASE u[j].list \in M
      <3>1. j \in 1 .. m /\ u[j] = s[j] /\ k \in 1 .. m /\ u[k] = s[k]
        BY <1>9, <1>10, <2>1, <2>2
      <3> QED
        BY <1>4, <1>10, <3>1
    <2>3. CASE u[j].list \notin M
      <3>1. PICK i \in 1 .. n : j = m + i /\ u[j] = t[i]
        BY <1>9, <1>10, <2>3
      <3>2. PICK h \in 1 .. n : k = m + h /\ u[k] = t[h]
        BY <1>9, <1>10, <2>3
      <3>3. i = h
        BY <1>4, <1>10, <3>1, <3>2
      <3> QED
        BY <3>1, <3>2, <3>3
    <2> QED
      BY <2>2, <2>3
  <1>11. Names(u) = M \cup N
    <2>1. ASSUME NEW x \in M PROVE x \in Names(u)
      <3>1. x # "untimed" /\ \E k \in 1 .. m : s[k].list = x
        BY <1>4
      <3>2. PICK k \in 1 .. m : s[k].list = x
        BY <3>1
      <3>3. k \in 1 .. Len(u) /\ u[k].list = x
        BY <1>3, <1>5, <3>2
      <3> QED
        BY <3>1, <3>3 DEF Names
    <2>2. ASSUME NEW x \in N PROVE x \in Names(u)
      <3>1. x # "untimed" /\ \E k \in 1 .. n : t[k].list = x
        BY <1>4
      <3>2. PICK k \in 1 .. n : t[k].list = x
        BY <3>1
      <3>3. m + k \in 1 .. Len(u) /\ u[m + k].list = x
        BY <1>3, <1>6, <3>2
      <3> QED
        BY <3>1, <3>3 DEF Names
    <2>3. ASSUME NEW x \in Names(u) PROVE x \in M \cup N
      <3>1. PICK k \in 1 .. m + n : u[k].list = x /\ x # "untimed"
        BY <1>3 DEF Names
      <3> QED
        BY <1>9, <3>1
    <2> QED
      BY <2>1, <2>2, <2>3
  <1>12. Part(u, tier, M \cup N)
    BY <1>3, <1>8, <1>10, <1>11 DEF Part
  <1> QED
    BY <1>12 DEF u

(* The two kinds of loops. *)
LEMMA UntimedLoop ==
  ASSUME NEW tier, NEW n \in Nat, NEW a \in Forms, NEW b \in Forms,
         NEW s, NEW W, Piece(s, a, b, W), "get" \in W => tier = "S2",
         "trace_on" \notin W
  PROVE  GoodLoop(Untimed(n, a, s), tier)
  BY DEF GoodLoop, Untimed, LoopType, Piece

LEMMA Untraced ==
  ASSUME NEW tier \in TierSet, NEW l \in CodecLists \cup OwnLists(tier)
  PROVE  /\ "get" \in Cake(tier, l) => tier = "S2"
         /\ "trace_on" \notin Cake(tier, l)
         /\ l # "untimed"
  BY DEF Cake, Out, Back, Fetched, CodecLists, OwnLists, TierSet

LEMMA TimedLoop ==
  ASSUME NEW tier \in TierSet, NEW l \in CodecLists \cup OwnLists(tier),
         NEW a \in Forms, NEW b \in Forms, NEW s, Piece(s, a, b, Cake(tier, l))
  PROVE  GoodLoop(Timed(l, a, s), tier)
  <1>1. Iterations \in Nat /\ l \in ListNames
    BY BuildReportAssumption DEF ListNames
  <1>2. /\ "get" \in Cake(tier, l) => tier = "S2"
        /\ "trace_on" \notin Cake(tier, l)
    BY Untraced
  <1> QED
    BY <1>1, <1>2 DEF GoodLoop, Timed, LoopType, Piece

LEMMA PairsAndTriples ==
  ASSUME NEW o \in Ops, NEW p \in Ops, NEW q \in Ops
  PROVE  <<o, p>> = <<o>> \o <<p>> /\ <<o, p, q>> = <<o>> \o <<p>> \o <<q>>
  <1>1. /\ <<o>> \in Seq(Ops) /\ <<p>> \in Seq(Ops) /\ <<q>> \in Seq(Ops)
        /\ <<o, p>> \in Seq(Ops) /\ <<o, p, q>> \in Seq(Ops)
        /\ Len(<<o>>) = 1 /\ Len(<<p>>) = 1 /\ Len(<<q>>) = 1
        /\ Len(<<o, p>>) = 2 /\ Len(<<o, p, q>>) = 3
        /\ <<o>>[1] = o /\ <<p>>[1] = p /\ <<q>>[1] = q
        /\ <<o, p>>[1] = o /\ <<o, p>>[2] = p
        /\ <<o, p, q>>[1] = o /\ <<o, p, q>>[2] = p /\ <<o, p, q>>[3] = q
    OBVIOUS
  <1> DEFINE a == <<o>>
             b == <<p>>
             c == <<q>>
             ab == <<o, p>>
             abc == <<o, p, q>>
             u == a \o b
             v == u \o c
  <1>2. /\ u \in Seq(Ops) /\ Len(u) = Len(a) + Len(b)
        /\ \A i \in 1 .. Len(a) + Len(b) : u[i] = IF i <= Len(a) THEN a[i] ELSE b[i - Len(a)]
    BY <1>1, ConcatProperties, Zenon
  <1>a. c \in Seq(Ops)
    BY <1>1
  <1> HIDE DEF a, b, c, ab, abc, u
  <1>3. /\ v \in Seq(Ops) /\ Len(v) = Len(u) + Len(c)
        /\ \A i \in 1 .. Len(u) + Len(c) : v[i] = IF i <= Len(u) THEN u[i] ELSE c[i - Len(u)]
    <2>1. u \in Seq(Ops)
      BY <1>2
    <2> QED
      BY <1>a, <2>1, ConcatProperties, Zenon
  <1> HIDE DEF v
  <1>4. Len(a) = 1 /\ Len(b) = 1 /\ Len(c) = 1 /\ Len(ab) = 2 /\ Len(abc) = 3
        /\ a[1] = o /\ b[1] = p /\ c[1] = q
        /\ ab[1] = o /\ ab[2] = p /\ abc[1] = o /\ abc[2] = p /\ abc[3] = q
        /\ ab \in Seq(Ops) /\ abc \in Seq(Ops)
    BY <1>1 DEF a, b, c, ab, abc
  <1>5. Len(u) = 2 /\ u[1] = o /\ u[2] = p
    BY <1>2, <1>4
  <1>6. Len(v) = 3 /\ v[1] = o /\ v[2] = p /\ v[3] = q
    BY <1>3, <1>4, <1>5
  <1>7. \A i \in 1 .. 2 : i = 1 \/ i = 2
    OBVIOUS
  <1>8. \A i \in 1 .. 3 : i = 1 \/ i = 2 \/ i = 3
    OBVIOUS
  <1>9. ab = u
    <2>1. Len(ab) = Len(u) /\ \A i \in 1 .. Len(ab) : ab[i] = u[i]
      BY <1>4, <1>5, <1>7
    <2> QED
      BY <1>2, <1>4, <2>1, SeqEqual
  <1>10. abc = v
    <2>1. Len(abc) = Len(v) /\ \A i \in 1 .. Len(abc) : abc[i] = v[i]
      BY <1>4, <1>6, <1>8
    <2> QED
      BY <1>3, <1>4, <2>1, SeqEqual
  <1> QED
    BY <1>9, <1>10 DEF a, b, c, ab, abc, u, v

(* The sequences of the other loops. *)
LEMMA OtherPieces ==
  /\ \A a \in Forms : Piece(<<"get", "encode">>, a, "wire", {"get", "encode"})
  /\ \A a \in Forms :
       Piece(<<"get", "encode", "decode">>, a, "wire", {"get", "encode", "decode"})
  /\ Piece(<<"decode", "encode">>, "wire", "wire", {"decode", "encode"})
  /\ \A a \in Forms : Piece(<<"trace_on", "encode">>, a, "wire", {"trace_on", "encode"})
  /\ \A a \in Forms : Piece(<<"trace_off">>, a, a, {"trace_off"})
  /\ Piece(<<"decode", "trace_off">>, "wire", "wire", {"decode", "trace_off"})
  <1>1. /\ "get" \in Ops /\ "encode" \in Ops /\ "decode" \in Ops
        /\ "trace_on" \in Ops /\ "trace_off" \in Ops /\ "wire" \in Forms
    BY DEF Ops, Forms
  <1>2. /\ <<"get", "encode">> = <<"get">> \o <<"encode">>
        /\ <<"get", "encode", "decode">> = <<"get">> \o <<"encode">> \o <<"decode">>
        /\ <<"decode", "encode">> = <<"decode">> \o <<"encode">>
        /\ <<"trace_on", "encode">> = <<"trace_on">> \o <<"encode">>
        /\ <<"decode", "trace_off">> = <<"decode">> \o <<"trace_off">>
    BY <1>1, PairsAndTriples
  <1>3. ASSUME NEW a \in Forms
        PROVE  /\ Piece(<<"get">> \o <<"encode">>, a, "wire", {"get"} \cup {"encode"})
               /\ Piece(<<"trace_on">> \o <<"encode">>, a, "wire",
                        {"trace_on"} \cup {"encode"})
    BY <1>1, Single, Pieces
  <1>4. /\ Piece(<<"decode">> \o <<"encode">>, "wire", "wire", {"decode"} \cup {"encode"})
        /\ Piece(<<"decode">> \o <<"trace_off">>, "wire", "wire",
                 {"decode"} \cup {"trace_off"})
    BY <1>1, Single, Pieces
  <1>5. ASSUME NEW a \in Forms
        PROVE  Piece(<<"get">> \o <<"encode">> \o <<"decode">>, a, "wire",
                     ({"get"} \cup {"encode"}) \cup {"decode"})
    BY <1>1, <1>3, Single, Pieces
  <1>6. /\ {"get"} \cup {"encode"} = {"get", "encode"}
        /\ {"trace_on"} \cup {"encode"} = {"trace_on", "encode"}
        /\ {"decode"} \cup {"encode"} = {"decode", "encode"}
        /\ {"decode"} \cup {"trace_off"} = {"decode", "trace_off"}
        /\ {"get", "encode"} \cup {"decode"} = {"get", "encode", "decode"}
    OBVIOUS
  <1> QED
    BY <1>2, <1>3, <1>4, <1>5, <1>6, Single

-----------------------------------------------------------------------------
(* The programs, part by part. *)

ArgsType == args \in [tier : ReportTier, warmup : Warmups, trace : BOOLEAN]

LEMMA NoPart == ASSUME NEW tier PROVE Part(<<>>, tier, {})
  <1>1. <<>> \in Seq(LoopType) /\ Len(<<>>) = 0
    OBVIOUS
  <1> QED
    BY <1>1 DEF Part, Names

LEMMA TwoPart ==
  ASSUME NEW tier, NEW a, NEW b, GoodLoop(a, tier), GoodLoop(b, tier),
         a.list = b.list => a.list = "untimed"
  PROVE  Part(<<a, b>>, tier, {a.list, b.list} \ {"untimed"})
  <1> DEFINE s == <<a, b>>
  <1>1. a \in LoopType /\ b \in LoopType
    BY DEF GoodLoop
  <1>2. s \in Seq(LoopType) /\ Len(s) = 2 /\ s[1] = a /\ s[2] = b
    BY <1>1
  <1> HIDE DEF s
  <1>3. \A k \in 1 .. 2 : k = 1 \/ k = 2
    OBVIOUS
  <1>4. \A k \in 1 .. Len(s) : GoodLoop(s[k], tier)
    BY <1>2, <1>3
  <1>5. \A j, k \in 1 .. Len(s) :
          s[j].list = s[k].list /\ s[j].list # "untimed" => j = k
    BY <1>2, <1>3
  <1>6. {s[k].list : k \in 1 .. Len(s)} = {a.list, b.list}
    <2>1. 1 \in 1 .. 2 /\ 2 \in 1 .. 2
      OBVIOUS
    <2> QED
      BY <1>2, <1>3, <2>1
  <1>7. Part(s, tier, {a.list, b.list} \ {"untimed"})
    BY <1>2, <1>4, <1>5, <1>6 DEF Part, Names
  <1> QED
    BY <1>7 DEF s

LEMMA WarmupPart ==
  ASSUME ArgsType, NEW tier \in TierSet
  PROVE  Part(WarmupLoops(tier), tier, {})
  <1> DEFINE n == args.warmup
             z == IF n = 0 THEN 1 ELSE 0
             s == <<"encode">> \o Compress(tier) \o Decompress(tier)
                  \o <<"decode", "encode">>
             a == Untimed(n, "event", s)
             b == Untimed(z, "event", <<"encode">>)
             W == (({"encode"} \cup Out(tier)) \cup Back(tier)) \cup {"decode", "encode"}
  <1>1. n \in Nat /\ z \in Nat /\ "event" \in Forms /\ "wire" \in Forms
    BY BuildReportAssumption DEF ArgsType, Forms
  <1>2. Piece(s, "event", "wire", W)
    <2>1. Piece(<<"encode">> \o Compress(tier), "event", Stored(tier),
                {"encode"} \cup Out(tier))
      BY <1>1, CodecPieces
    <2>2. /\ Stored(tier) \in Forms
          /\ Piece(Decompress(tier), Stored(tier), "wire", Back(tier))
      BY CompressPiece
    <2>3. Piece(<<"encode">> \o Compress(tier) \o Decompress(tier), "event", "wire",
                ({"encode"} \cup Out(tier)) \cup Back(tier))
      BY <1>1, <2>1, <2>2, Pieces
    <2> QED
      BY <1>1, <2>3, OtherPieces, Pieces
  <1>3. "get" \notin W /\ "trace_on" \notin W
    BY DEF Out, Back
  <1>4. Piece(<<"encode">>, "event", "wire", {"encode"})
    BY <1>1, Single
  <1>5. a.list = "untimed" /\ b.list = "untimed"
    BY DEF Untimed
  <1>6. WarmupLoops(tier) = <<a, b>>
    BY DEF WarmupLoops
  <1> HIDE DEF n, z, s, W
  <1>7. GoodLoop(a, tier)
    BY <1>1, <1>2, <1>3, UntimedLoop
  <1>8. GoodLoop(b, tier)
    BY <1>1, <1>4, UntimedLoop
  <1> HIDE DEF a, b
  <1>9. Part(<<a, b>>, tier, {a.list, b.list} \ {"untimed"})
    BY <1>5, <1>7, <1>8, TwoPart
  <1>10. {a.list, b.list} \ {"untimed"} = {}
    BY <1>5
  <1> QED
    BY <1>6, <1>9, <1>10

LEMMA CodecPart ==
  ASSUME NEW tier \in TierSet \ {"S2"}
  PROVE  Part(CodecLoops(tier), tier, CodecLists)
  <1> DEFINE C == Compress(tier)
             D == Decompress(tier)
             w == Stored(tier)
             a == Untimed(1, "wire", C)
             b == Timed("encode", "event", <<"encode">> \o C)
             d == Timed("decode", w, D \o <<"decode">>)
             e == Timed("round_trip", "event", <<"encode">> \o C \o D \o <<"decode">>)
             s == <<a, b, a, d, e>>
  <1>1. /\ "event" \in Forms /\ "wire" \in Forms /\ w \in Forms
        /\ "encode" \in CodecLists /\ "decode" \in CodecLists
        /\ "round_trip" \in CodecLists
    BY CompressPiece DEF Forms, CodecLists
  <1>2. s = CodecLoops(tier)
    BY DEF CodecLoops, Stored
  <1>3. /\ Cake(tier, "encode") = {"encode"} \cup Out(tier)
        /\ Cake(tier, "decode") = {"decode"} \cup Back(tier)
        /\ Cake(tier, "round_trip") = {"encode", "decode"} \cup Out(tier) \cup Back(tier)
    <2>1. Fetched(tier) = {}
      BY DEF Fetched
    <2>2. /\ Cake(tier, "encode") = {"encode"} \cup Out(tier) \cup Fetched(tier)
          /\ Cake(tier, "decode") = {"decode"} \cup Back(tier)
      BY DEF Cake
    <2>3. Cake(tier, "round_trip")
            = {"encode", "decode"} \cup Out(tier) \cup Back(tier) \cup Fetched(tier)
      BY DEF Cake
    <2> QED
      BY <2>1, <2>2, <2>3
  <1>4. /\ Piece(C, "wire", w, Out(tier))
        /\ Piece(<<"encode">> \o C, "event", w, Cake(tier, "encode"))
        /\ Piece(D \o <<"decode">>, w, "wire", Cake(tier, "decode"))
        /\ Piece(<<"encode">> \o C \o D \o <<"decode">>, "event", "wire",
                 Cake(tier, "round_trip"))
    BY <1>1, <1>3, CompressPiece, CodecPieces
  <1>5. a.list = "untimed" /\ b.list = "encode" /\ d.list = "decode"
        /\ e.list = "round_trip"
    BY DEF Untimed, Timed
  <1>6. "get" \notin Out(tier) /\ "trace_on" \notin Out(tier)
    BY DEF Out
  <1> HIDE DEF C, D, w
  <1>7. GoodLoop(a, tier)
    BY <1>1, <1>4, <1>6, UntimedLoop
  <1>8. GoodLoop(b, tier)
    BY <1>1, <1>4, TimedLoop
  <1>9. GoodLoop(d, tier)
    BY <1>1, <1>4, TimedLoop
  <1>10. GoodLoop(e, tier)
    BY <1>1, <1>4, TimedLoop
  <1> HIDE DEF a, b, d, e
  <1>11. a \in LoopType /\ b \in LoopType /\ d \in LoopType /\ e \in LoopType
    BY <1>7, <1>8, <1>9, <1>10 DEF GoodLoop
  <1>12. /\ s \in Seq(LoopType) /\ Len(s) = 5
         /\ s[1] = a /\ s[2] = b /\ s[3] = a /\ s[4] = d /\ s[5] = e
    BY <1>11
  <1> HIDE DEF s
  <1>13. \A k \in 1 .. Len(s) : k = 1 \/ k = 2 \/ k = 3 \/ k = 4 \/ k = 5
    BY <1>12
  <1>14. \A k \in 1 .. Len(s) : GoodLoop(s[k], tier)
    BY <1>7, <1>8, <1>9, <1>10, <1>12, <1>13
  <1>15. \A j, k \in 1 .. Len(s) :
           s[j].list = s[k].list /\ s[j].list # "untimed" => j = k
    BY <1>5, <1>12, <1>13
  <1>16. Names(s) = CodecLists
    <2>1. \A k \in 1 .. 5 : k \in 1 .. Len(s)
      BY <1>12
    <2>2. 2 \in 1 .. 5 /\ 4 \in 1 .. 5 /\ 5 \in 1 .. 5
      OBVIOUS
    <2>3. CodecLists \subseteq Names(s)
      BY <1>5, <1>12, <2>1, <2>2 DEF Names, CodecLists
    <2>4. Names(s) \subseteq CodecLists
      BY <1>5, <1>12, <1>13 DEF Names, CodecLists
    <2> QED
      BY <2>3, <2>4
  <1> QED
    BY <1>2, <1>12, <1>14, <1>15, <1>16 DEF Part

LEMMA IsolationPart ==
  Part(IsolationLoops("S1"), "S1", OwnLists("S1"))
  <1> DEFINE a == Timed("compress_wire_s", "wire", <<"compress">>)
             b == Timed("decompress_wire_s", "blob", <<"decompress">>)
             d == Timed("codec_encode_only_s", "event", <<"encode">>)
             e == Timed("codec_decode_raw_wire_s", "wire", <<"decode">>)
             s == <<a, b, d, e>>
  <1>1. /\ "event" \in Forms /\ "wire" \in Forms /\ "blob" \in Forms
        /\ "S1" \in TierSet
        /\ OwnLists("S1") = {"compress_wire_s", "decompress_wire_s",
                             "codec_encode_only_s", "codec_decode_raw_wire_s"}
    BY DEF Forms, TierSet, OwnLists
  <1>2. s = IsolationLoops("S1")
    BY DEF IsolationLoops
  <1>3. /\ Cake("S1", "compress_wire_s") = {"compress"}
        /\ Cake("S1", "decompress_wire_s") = {"decompress"}
        /\ Cake("S1", "codec_encode_only_s") = {"encode"}
        /\ Cake("S1", "codec_decode_raw_wire_s") = {"decode"}
    BY DEF Cake
  <1>4. a.list = "compress_wire_s" /\ b.list = "decompress_wire_s"
        /\ d.list = "codec_encode_only_s" /\ e.list = "codec_decode_raw_wire_s"
    BY DEF Timed
  <1>5. /\ Piece(<<"compress">>, "wire", "blob", {"compress"})
        /\ Piece(<<"decompress">>, "blob", "wire", {"decompress"})
        /\ Piece(<<"encode">>, "event", "wire", {"encode"})
        /\ Piece(<<"decode">>, "wire", "wire", {"decode"})
    BY <1>1, Single
  <1>6. /\ Piece(<<"compress">>, "wire", "blob", Cake("S1", "compress_wire_s"))
        /\ Piece(<<"decompress">>, "blob", "wire", Cake("S1", "decompress_wire_s"))
        /\ Piece(<<"encode">>, "event", "wire", Cake("S1", "codec_encode_only_s"))
        /\ Piece(<<"decode">>, "wire", "wire", Cake("S1", "codec_decode_raw_wire_s"))
    BY <1>3, <1>5
  <1>l. \A l \in {"compress_wire_s", "decompress_wire_s",
                  "codec_encode_only_s", "codec_decode_raw_wire_s"} :
          l \in CodecLists \cup OwnLists("S1")
    BY <1>1
  <1>7. GoodLoop(a, "S1")
    BY <1>1, <1>6, <1>l, TimedLoop
  <1>8. GoodLoop(b, "S1")
    BY <1>1, <1>6, <1>l, TimedLoop
  <1>9. GoodLoop(d, "S1")
    BY <1>1, <1>6, <1>l, TimedLoop
  <1>10. GoodLoop(e, "S1")
    BY <1>1, <1>6, <1>l, TimedLoop
  <1> HIDE DEF a, b, d, e
  <1>11. a \in LoopType /\ b \in LoopType /\ d \in LoopType /\ e \in LoopType
    BY <1>7, <1>8, <1>9, <1>10 DEF GoodLoop
  <1>12. /\ s \in Seq(LoopType) /\ Len(s) = 4
         /\ s[1] = a /\ s[2] = b /\ s[3] = d /\ s[4] = e
    BY <1>11
  <1> HIDE DEF s
  <1>13. \A k \in 1 .. Len(s) : k = 1 \/ k = 2 \/ k = 3 \/ k = 4
    BY <1>12
  <1>14. \A k \in 1 .. Len(s) : GoodLoop(s[k], "S1")
    BY <1>7, <1>8, <1>9, <1>10, <1>12, <1>13
  <1>15. \A j, k \in 1 .. Len(s) :
           s[j].list = s[k].list /\ s[j].list # "untimed" => j = k
    BY <1>4, <1>12, <1>13
  <1>16. Names(s) = OwnLists("S1")
    <2>1. \A k \in 1 .. 4 : k \in 1 .. Len(s)
      BY <1>12
    <2>2. 1 \in 1 .. 4 /\ 2 \in 1 .. 4 /\ 3 \in 1 .. 4 /\ 4 \in 1 .. 4
      OBVIOUS
    <2>3. OwnLists("S1") \subseteq Names(s)
      BY <1>1, <1>4, <1>12, <2>1, <2>2 DEF Names
    <2>4. Names(s) \subseteq OwnLists("S1")
      BY <1>1, <1>4, <1>12, <1>13 DEF Names
    <2> QED
      BY <2>3, <2>4
  <1> QED
    BY <1>2, <1>12, <1>14, <1>15, <1>16 DEF Part

LEMMA RegistryPart ==
  Part(RegistryLoops, "S2", CodecLists \cup OwnLists("S2"))
  <1> DEFINE g == Untimed(1, "wire", <<"get">>)
             a == Timed("fetch_new_tcp_each_iteration", "wire", <<"get">>)
             b == Timed("fetch_reused_connection", "wire", <<"get">>)
             c == Timed("encode", "event", <<"get", "encode">>)
             d == Timed("decode", "wire", <<"decode">>)
             e == Timed("round_trip", "event", <<"get", "encode", "decode">>)
             s == <<a, g, b, g, c, d, g, e>>
             N == CodecLists \cup OwnLists("S2")
  <1>1. /\ "event" \in Forms /\ "wire" \in Forms /\ "S2" \in TierSet
        /\ N = {"fetch_new_tcp_each_iteration", "fetch_reused_connection",
                "encode", "decode", "round_trip"}
    BY DEF Forms, TierSet, OwnLists, CodecLists
  <1>2. s = RegistryLoops
    BY DEF RegistryLoops
  <1>3. /\ Cake("S2", "fetch_new_tcp_each_iteration") = {"get"}
        /\ Cake("S2", "fetch_reused_connection") = {"get"}
        /\ Cake("S2", "encode") = {"get", "encode"}
        /\ Cake("S2", "decode") = {"decode"}
        /\ Cake("S2", "round_trip") = {"get", "encode", "decode"}
    BY DEF Cake, Out, Back, Fetched
  <1>4. g.list = "untimed" /\ a.list = "fetch_new_tcp_each_iteration"
        /\ b.list = "fetch_reused_connection" /\ c.list = "encode"
        /\ d.list = "decode" /\ e.list = "round_trip"
    BY DEF Timed, Untimed
  <1>5. /\ Piece(<<"get">>, "wire", "wire", {"get"})
        /\ Piece(<<"get", "encode">>, "event", "wire", {"get", "encode"})
        /\ Piece(<<"decode">>, "wire", "wire", {"decode"})
        /\ Piece(<<"get", "encode", "decode">>, "event", "wire",
                 {"get", "encode", "decode"})
    BY <1>1, Single, OtherPieces
  <1>6. /\ "fetch_new_tcp_each_iteration" \in N /\ "fetch_reused_connection" \in N
        /\ "encode" \in N /\ "decode" \in N /\ "round_trip" \in N
    BY <1>1
  <1> HIDE DEF N
  <1>l. \A l \in N : l \in CodecLists \cup OwnLists("S2")
    BY DEF N
  <1>7. /\ Piece(<<"get">>, "wire", "wire", Cake("S2", "fetch_new_tcp_each_iteration"))
        /\ Piece(<<"get">>, "wire", "wire", Cake("S2", "fetch_reused_connection"))
        /\ Piece(<<"get", "encode">>, "event", "wire", Cake("S2", "encode"))
        /\ Piece(<<"decode">>, "wire", "wire", Cake("S2", "decode"))
        /\ Piece(<<"get", "encode", "decode">>, "event", "wire",
                 Cake("S2", "round_trip"))
    BY <1>3, <1>5
  <1>8. GoodLoop(g, "S2")
    BY <1>1, <1>5, UntimedLoop
  <1>9. GoodLoop(a, "S2")
    BY <1>1, <1>6, <1>7, <1>l, TimedLoop
  <1>10. GoodLoop(b, "S2")
    BY <1>1, <1>6, <1>7, <1>l, TimedLoop
  <1>11. GoodLoop(c, "S2")
    BY <1>1, <1>6, <1>7, <1>l, TimedLoop
  <1>12. GoodLoop(d, "S2")
    BY <1>1, <1>6, <1>7, <1>l, TimedLoop
  <1>13. GoodLoop(e, "S2")
    BY <1>1, <1>6, <1>7, <1>l, TimedLoop
  <1> HIDE DEF g, a, b, c, d, e
  <1>14. /\ g \in LoopType /\ a \in LoopType /\ b \in LoopType /\ c \in LoopType
         /\ d \in LoopType /\ e \in LoopType
    BY <1>8, <1>9, <1>10, <1>11, <1>12, <1>13 DEF GoodLoop
  <1>15. /\ s \in Seq(LoopType) /\ Len(s) = 8
         /\ s[1] = a /\ s[2] = g /\ s[3] = b /\ s[4] = g
         /\ s[5] = c /\ s[6] = d /\ s[7] = g /\ s[8] = e
    BY <1>14
  <1> HIDE DEF s
  <1>16. \A k \in 1 .. Len(s) : \/ k = 1 \/ k = 2 \/ k = 3 \/ k = 4
                                \/ k = 5 \/ k = 6 \/ k = 7 \/ k = 8
    BY <1>15
  <1>17. \A k \in 1 .. Len(s) : GoodLoop(s[k], "S2")
    BY <1>8, <1>9, <1>10, <1>11, <1>12, <1>13, <1>15, <1>16
  <1>18. \A j, k \in 1 .. Len(s) :
           s[j].list = s[k].list /\ s[j].list # "untimed" => j = k
    BY <1>4, <1>15, <1>16
  <1>19. Names(s) = N
    <2>1. \A k \in {1, 3, 5, 6, 8} : k \in 1 .. Len(s)
      BY <1>15
    <2>2. N \subseteq Names(s)
      BY <1>1, <1>4, <1>15, <2>1 DEF Names
    <2>3. Names(s) \subseteq N
      BY <1>1, <1>4, <1>15, <1>16 DEF Names
    <2> QED
      BY <2>2, <2>3
  <1> QED
    BY <1>2, <1>15, <1>17, <1>18, <1>19 DEF Part, N

LEMMA ClosingPart ==
  ASSUME ArgsType, NEW tier \in TierSet
  PROVE  Part(ClosingLoops(tier), tier, {})
  <1> DEFINE n == IF args.trace THEN 1 ELSE 0
             q == <<"trace_on", "encode">> \o Compress(tier) \o Decompress(tier)
             z == <<"decode", "trace_off">>
             s == q \o z
             a == Untimed(2, "wire", <<"compress">>)
             b == Untimed(n, "event", s)
             V == ({"trace_on", "encode"} \cup Out(tier)) \cup Back(tier)
             W == V \cup {"decode", "trace_off"}
  <1>1. /\ n \in Nat /\ (n > 0 => args.trace)
        /\ "event" \in Forms /\ "wire" \in Forms /\ "blob" \in Forms
    BY DEF ArgsType, Forms
  <1>2. Piece(q, "event", "wire", V)
    <2>1. /\ Stored(tier) \in Forms
          /\ Piece(Compress(tier), "wire", Stored(tier), Out(tier))
          /\ Piece(Decompress(tier), Stored(tier), "wire", Back(tier))
      BY CompressPiece
    <2>2. Piece(<<"trace_on", "encode">>, "event", "wire", {"trace_on", "encode"})
      BY <1>1, OtherPieces
    <2>3. Piece(<<"trace_on", "encode">> \o Compress(tier), "event", Stored(tier),
                {"trace_on", "encode"} \cup Out(tier))
      BY <1>1, <2>1, <2>2, Pieces
    <2> QED
      BY <1>1, <2>1, <2>3, Pieces
  <1>3. Piece(z, "wire", "wire", {"decode", "trace_off"})
    BY OtherPieces
  <1>4. z[Len(z)] = "trace_off" /\ Len(z) = 2
    OBVIOUS
  <1>5. "get" \notin W
    BY DEF Out, Back
  <1>6. ClosingLoops(tier) = <<a, b>>
    BY DEF ClosingLoops
  <1>7. a.list = "untimed" /\ b.list = "untimed" /\ b.from = "event"
        /\ b.ops = s /\ b.count = n
    BY DEF Untimed
  <1> HIDE DEF n, q, z, V
  <1>8. Piece(s, "event", "wire", W)
    BY <1>1, <1>2, <1>3, Pieces
  <1>9. s[Len(s)] = "trace_off"
    <2> DEFINE i == Len(q)
               j == Len(z)
    <2>1. q \in Seq(Ops) /\ z \in Seq(Ops)
      BY <1>2, <1>3 DEF Piece
    <2>2. i \in Nat /\ j \in Nat
      BY <2>1
    <2>3. /\ Len(q \o z) = i + j
          /\ \A k \in 1 .. i + j : (q \o z)[k] = IF k <= i THEN q[k] ELSE z[k - i]
      BY <2>1, ConcatProperties, Zenon
    <2>4. z[j] = "trace_off" /\ j = 2
      BY <1>4
    <2> HIDE DEF i, j, s
    <2>5. i + j \in 1 .. i + j /\ ~(i + j <= i) /\ (i + j) - i = j
      BY <2>2, <2>4
    <2> QED
      BY <2>3, <2>4, <2>5 DEF s
  <1> HIDE DEF s, W
  <1>10. GoodLoop(a, tier)
    <2>1. Piece(<<"compress">>, "wire", "blob", {"compress"})
      BY Single
    <2> QED
      BY <1>1, <2>1, UntimedLoop
  <1>11. GoodLoop(b, tier)
    <2>1. b \in LoopType
      BY <1>1, <1>8 DEF LoopType, Untimed, Piece
    <2>2. OpsOf(b.ops) = W /\ FlowsTo(b.ops, b.from, "wire")
      BY <1>7, <1>8 DEF Piece
    <2> QED
      BY <1>1, <1>5, <1>7, <1>9, <2>1, <2>2 DEF GoodLoop
  <1> HIDE DEF a, b
  <1>12. Part(<<a, b>>, tier, {a.list, b.list} \ {"untimed"})
    BY <1>7, <1>10, <1>11, TwoPart
  <1>13. {a.list, b.list} \ {"untimed"} = {}
    BY <1>7
  <1> QED
    BY <1>6, <1>12, <1>13

LEMMA ProducerPart ==
  ASSUME ArgsType
  PROVE  Part(ProducerLoops, "S3", OwnLists("S3"))
  <1> DEFINE n == args.warmup
             s == Repeat("encode", BatchSize) \o <<"join">>
             a == Untimed(n, "event", s)
             b == Timed("batch_build_and_join", "event", s)
  <1>1. /\ n \in Nat /\ "event" \in Forms /\ "wire" \in Forms
        /\ "S3" \in TierSet /\ OwnLists("S3") = {"batch_build_and_join"}
    BY BuildReportAssumption DEF ArgsType, Forms, TierSet, OwnLists
  <1>2. Piece(s, "event", "wire", {"encode", "join"})
    <2>1. "encode" \in Ops /\ Fits("encode", "event") /\ Fits("encode", "wire")
          /\ Effect("encode", "event") = "wire" /\ Effect("encode", "wire") = "wire"
      BY DEF Ops, Fits, Effect
    <2>2. Piece(Repeat("encode", BatchSize), "event", "wire", {"encode"})
      BY <1>1, <2>1, RepeatOps DEF Piece
    <2>3. Piece(<<"join">>, "wire", "wire", {"join"})
      BY <1>1, Single
    <2>4. Piece(s, "event", "wire", {"encode"} \cup {"join"})
      BY <1>1, <2>2, <2>3, Pieces
    <2>5. {"encode"} \cup {"join"} = {"encode", "join"}
      OBVIOUS
    <2> QED
      BY <2>4, <2>5
  <1>3. Cake("S3", "batch_build_and_join") = {"encode", "join"}
    BY DEF Cake
  <1>4. ProducerLoops = <<a, b>>
    BY DEF ProducerLoops
  <1>5. a.list = "untimed" /\ b.list = "batch_build_and_join"
    BY DEF Untimed, Timed
  <1> HIDE DEF n, s
  <1>6. GoodLoop(a, "S3")
    <2>1. "get" \notin {"encode", "join"} /\ "trace_on" \notin {"encode", "join"}
      OBVIOUS
    <2> QED
      BY <1>1, <1>2, <2>1, UntimedLoop
  <1>7. GoodLoop(b, "S3")
    <2>1. Piece(s, "event", "wire", Cake("S3", "batch_build_and_join"))
      BY <1>2, <1>3
    <2>2. "batch_build_and_join" \in CodecLists \cup OwnLists("S3")
      BY <1>1
    <2> QED
      BY <1>1, <2>1, <2>2, TimedLoop
  <1> HIDE DEF a, b
  <1>8. Part(<<a, b>>, "S3", {a.list, b.list} \ {"untimed"})
    BY <1>5, <1>6, <1>7, TwoPart
  <1>9. {a.list, b.list} \ {"untimed"} = OwnLists("S3")
    BY <1>1, <1>5
  <1> QED
    BY <1>4, <1>8, <1>9

LEMMA ConsumerPart ==
  ASSUME ArgsType
  PROVE  Part(ConsumerLoops, "S4", OwnLists("S4"))
  <1> DEFINE n == args.warmup
             r == Repeat("encode", BatchSize)
             s == Repeat("decode", BatchSize)
             e == Untimed(1, "event", r)
             a == Untimed(n, "wire", s)
             b == Timed("batch_decode", "wire", s)
             l == <<e, a, b>>
  <1>1. /\ n \in Nat /\ "event" \in Forms /\ "wire" \in Forms
        /\ "S4" \in TierSet /\ OwnLists("S4") = {"batch_decode"}
    BY BuildReportAssumption DEF ArgsType, Forms, TierSet, OwnLists
  <1>2. /\ Piece(r, "event", "wire", {"encode"})
        /\ Piece(s, "wire", "wire", {"decode"})
    <2>1. /\ "encode" \in Ops /\ Fits("encode", "event") /\ Fits("encode", "wire")
          /\ Effect("encode", "event") = "wire" /\ Effect("encode", "wire") = "wire"
          /\ "decode" \in Ops /\ Fits("decode", "wire")
          /\ Effect("decode", "wire") = "wire"
      BY DEF Ops, Fits, Effect
    <2> QED
      BY <1>1, <2>1, RepeatOps DEF Piece
  <1>3. Cake("S4", "batch_decode") = {"decode"}
    BY DEF Cake
  <1>4. l = ConsumerLoops
    BY DEF ConsumerLoops
  <1>5. e.list = "untimed" /\ a.list = "untimed" /\ b.list = "batch_decode"
    BY DEF Untimed, Timed
  <1> HIDE DEF n, r, s
  <1>6. GoodLoop(e, "S4") /\ GoodLoop(a, "S4")
    <2>1. "get" \notin {"encode", "decode"} /\ "trace_on" \notin {"encode", "decode"}
      OBVIOUS
    <2> QED
      BY <1>1, <1>2, <2>1, UntimedLoop
  <1>7. GoodLoop(b, "S4")
    <2>1. Piece(s, "wire", "wire", Cake("S4", "batch_decode"))
      BY <1>2, <1>3
    <2>2. "batch_decode" \in CodecLists \cup OwnLists("S4")
      BY <1>1
    <2> QED
      BY <1>1, <2>1, <2>2, TimedLoop
  <1> HIDE DEF e, a, b
  <1>8. e \in LoopType /\ a \in LoopType /\ b \in LoopType
    BY <1>6, <1>7 DEF GoodLoop
  <1>9. l \in Seq(LoopType) /\ Len(l) = 3 /\ l[1] = e /\ l[2] = a /\ l[3] = b
    BY <1>8
  <1> HIDE DEF l
  <1>10. \A k \in 1 .. Len(l) : k = 1 \/ k = 2 \/ k = 3
    BY <1>9
  <1>11. \A k \in 1 .. Len(l) : GoodLoop(l[k], "S4")
    BY <1>6, <1>7, <1>9, <1>10
  <1>12. \A j, k \in 1 .. Len(l) :
           l[j].list = l[k].list /\ l[j].list # "untimed" => j = k
    BY <1>5, <1>9, <1>10
  <1>13. Names(l) = OwnLists("S4")
    <2>1. 3 \in 1 .. Len(l)
      BY <1>9
    <2>2. OwnLists("S4") \subseteq Names(l)
      BY <1>1, <1>5, <1>9, <2>1 DEF Names
    <2>3. Names(l) \subseteq OwnLists("S4")
      BY <1>1, <1>5, <1>9, <1>10 DEF Names
    <2> QED
      BY <2>2, <2>3
  <1> QED
    BY <1>4, <1>9, <1>11, <1>12, <1>13 DEF Part

(* The program of a row fills the lists that its layer cake announces. *)
LEMMA Programs ==
  ASSUME ArgsType, NEW tier \in TierSet
  PROVE  Part(Program(tier), tier, CodecLists \cup OwnLists(tier))
  <1>1. ASSUME tier # "S2"
        PROVE  Part(WarmupLoops(tier) \o CodecLoops(tier), tier, CodecLists)
    <2>1. Part(WarmupLoops(tier), tier, {}) /\ Part(CodecLoops(tier), tier, CodecLists)
      BY <1>1, WarmupPart, CodecPart
    <2>2. Part(WarmupLoops(tier) \o CodecLoops(tier), tier, {} \cup CodecLists)
      BY <2>1, Parts
    <2> QED
      BY <2>2
  <1>2. ASSUME tier \notin {"S1", "S2"}
        PROVE  Part(BaseProgram("S0"), tier, CodecLists)
    <2>1. BaseProgram("S0") = BaseProgram(tier)
      BY <1>2 DEF BaseProgram, WarmupLoops, CodecLoops, IsolationLoops, ClosingLoops,
                  Compress, Decompress
    <2>2. IsolationLoops(tier) = <<>>
      BY <1>2 DEF IsolationLoops
    <2>3. Part(WarmupLoops(tier) \o CodecLoops(tier) \o <<>>, tier, CodecLists \cup {})
      BY <1>1, <1>2, NoPart, Parts
    <2>4. Part(WarmupLoops(tier) \o CodecLoops(tier) \o <<>> \o ClosingLoops(tier),
               tier, (CodecLists \cup {}) \cup {})
      BY <2>3, ClosingPart, Parts
    <2>5. (CodecLists \cup {}) \cup {} = CodecLists
      OBVIOUS
    <2> QED
      BY <2>1, <2>2, <2>4, <2>5 DEF BaseProgram
  <1>3. CASE tier = "S0"
    <2>1. Program(tier) = BaseProgram("S0") /\ OwnLists(tier) = {}
      BY <1>3 DEF Program, OwnLists
    <2>2. CodecLists \cup OwnLists(tier) = CodecLists
      BY <2>1
    <2> QED
      BY <1>2, <1>3, <2>1, <2>2
  <1>4. CASE tier = "S1"
    <2>1. Program(tier) = BaseProgram(tier)
      BY <1>4 DEF Program
    <2>2. CodecLists \cap OwnLists("S1") = {}
      BY DEF CodecLists, OwnLists
    <2>3. Part(IsolationLoops(tier), tier, OwnLists(tier))
      BY <1>4, IsolationPart
    <2>4. Part(WarmupLoops(tier) \o CodecLoops(tier) \o IsolationLoops(tier), tier,
               CodecLists \cup OwnLists(tier))
      BY <1>1, <1>4, <2>2, <2>3, Parts
    <2>5. Part(WarmupLoops(tier) \o CodecLoops(tier) \o IsolationLoops(tier)
               \o ClosingLoops(tier), tier, (CodecLists \cup OwnLists(tier)) \cup {})
      BY <2>4, ClosingPart, Parts
    <2>6. (CodecLists \cup OwnLists(tier)) \cup {} = CodecLists \cup OwnLists(tier)
      OBVIOUS
    <2> QED
      BY <2>1, <2>5, <2>6 DEF BaseProgram
  <1>5. CASE tier = "S2"
    <2> DEFINE N == CodecLists \cup OwnLists(tier)
    <2>1. Program(tier) = WarmupLoops(tier) \o RegistryLoops \o ClosingLoops(tier)
      BY <1>5 DEF Program
    <2>2. Part(RegistryLoops, tier, N)
      BY <1>5, RegistryPart
    <2> HIDE DEF N
    <2>3. Part(WarmupLoops(tier) \o RegistryLoops, tier, {} \cup N)
      BY <2>2, WarmupPart, Parts
    <2>4. Part(WarmupLoops(tier) \o RegistryLoops \o ClosingLoops(tier), tier,
               ({} \cup N) \cup {})
      BY <2>3, ClosingPart, Parts
    <2>5. ({} \cup N) \cup {} = N
      OBVIOUS
    <2> QED
      BY <2>1, <2>4, <2>5 DEF N
  <1>6. CASE tier = "S3"
    <2>1. Program(tier) = BaseProgram("S0") \o ProducerLoops
      BY <1>6 DEF Program
    <2>2. CodecLists \cap OwnLists(tier) = {}
      BY <1>6 DEF CodecLists, OwnLists
    <2>3. Part(ProducerLoops, tier, OwnLists(tier))
      BY <1>6, ProducerPart
    <2>4. Part(BaseProgram("S0"), tier, CodecLists)
      BY <1>2, <1>6
    <2>5. Part(BaseProgram("S0") \o ProducerLoops, tier, CodecLists \cup OwnLists(tier))
      BY <2>2, <2>3, <2>4, Parts
    <2> QED
      BY <2>1, <2>5
  <1>7. CASE tier = "S4"
    <2>1. Program(tier) = BaseProgram("S0") \o ConsumerLoops
      BY <1>7 DEF Program
    <2>2. CodecLists \cap OwnLists(tier) = {}
      BY <1>7 DEF CodecLists, OwnLists
    <2>3. Part(ConsumerLoops, tier, OwnLists(tier))
      BY <1>7, ConsumerPart
    <2>4. Part(BaseProgram("S0"), tier, CodecLists)
      BY <1>2, <1>7
    <2>5. Part(BaseProgram("S0") \o ConsumerLoops, tier, CodecLists \cup OwnLists(tier))
      BY <2>2, <2>3, <2>4, Parts
    <2> QED
      BY <2>1, <2>5
  <1> QED
    BY <1>3, <1>4, <1>5, <1>6, <1>7 DEF TierSet

-----------------------------------------------------------------------------
(* The interpreter in a row: its place in the program, and what its value is. *)

RowProgram == Program(CurrentTier)

(* After o operations of turn t of loop l the value is b. *)
AtOp(l, t, o, b) ==
    /\ t =< l.count /\ o =< Len(l.ops)
    /\ t = l.count => o = 0
    /\ o > 0 => \E f \in [0 .. Len(l.ops) -> Forms] :
                  Flow(l.ops, l.from, f) /\ b = f[o]

Place ==
    pc \in {"start", "row"} =>
      /\ loop \in 1 .. Len(RowProgram) + 1 /\ turn \in Nat /\ op \in Nat
      /\ loop =< Len(RowProgram) => AtOp(RowProgram[loop], turn, op, buf)

(* tracemalloc is on between the first and the last operation of its sample. *)
Traces ==
    tracing =>
      /\ pc = "row" /\ loop =< Len(RowProgram)
      /\ turn < RowProgram[loop].count
      /\ op > 0 /\ op < Len(RowProgram[loop].ops)
      /\ RowProgram[loop].list = "untimed" /\ args.trace
      /\ RowProgram[loop].ops[Len(RowProgram[loop].ops)] = "trace_off"

(* What the programs promise of the row that is being run. *)
Ready ==
    pc \in {"start", "row"} =>
      /\ CurrentTier \in TierSet
      /\ RowProgram \in Seq(LoopType)
      /\ \A k \in 1 .. Len(RowProgram) : GoodLoop(RowProgram[k], CurrentTier)
      /\ \A j, k \in 1 .. Len(RowProgram) :
           RowProgram[j].list = RowProgram[k].list
             /\ RowProgram[j].list # "untimed" => j = k
      /\ Names(RowProgram) = CodecLists \cup OwnLists(CurrentTier)

LEMMA MatrixReady == MatrixInv => Ready
  <1> SUFFICES ASSUME MatrixInv, pc \in {"start", "row"}
               PROVE  Part(RowProgram, CurrentTier,
                           CodecLists \cup OwnLists(CurrentTier))
                      /\ CurrentTier \in TierSet
    BY DEF Ready, Part
  <1>1. ArgsType /\ at.tier \in 1 .. T
    <2>1. args \in [tier : ReportTier, warmup : Warmups, trace : BOOLEAN]
      BY DEF MatrixInv
    <2>2. T \in Nat
      BY <2>1, TierCount
    <2> QED
      BY <2>1, <2>2 DEF MatrixInv, ArgsType
  <1>2. CurrentTier \in TierSet
    <2>1. args.tier \in TierSet \cup {"all"}
      BY <1>1 DEF ArgsType, ReportTier, TierSet
    <2>2. CASE args.tier = "all"
      <3>1. TiersLoop = Tiers /\ T = 5
        BY <2>2 DEF TiersLoop, Tiers, T
      <3>2. at.tier \in {1, 2, 3, 4, 5}
        BY <1>1, <3>1
      <3> QED
        BY <3>1, <3>2 DEF CurrentTier, Tiers, TierSet
    <2>3. CASE args.tier # "all"
      <3>1. TiersLoop = <<args.tier>> /\ T = 1
        BY <2>3 DEF TiersLoop, T
      <3>2. at.tier = 1
        BY <1>1, <3>1
      <3> QED
        BY <2>1, <2>3, <3>1, <3>2 DEF CurrentTier
    <2> QED
      BY <2>2, <2>3
  <1> QED
    BY <1>1, <1>2, Programs DEF RowProgram

(* A step inside the row does not change its program. *)
LEMMA SameProgram ==
  ASSUME UNCHANGED <<args, at>>
  PROVE  RowProgram' = RowProgram /\ CurrentTier' = CurrentTier
  BY DEF RowProgram, CurrentTier, TiersLoop, Program, BaseProgram, WarmupLoops,
         CodecLoops, IsolationLoops, RegistryLoops, ClosingLoops, ProducerLoops,
         ConsumerLoops, Timed, Untimed, Compress, Decompress, Repeat

LEMMA GoodStart == Ready /\ loop = 1 /\ turn = 0 /\ op = 0 => Place
  <1> SUFFICES ASSUME Ready, pc \in {"start", "row"}, loop = 1, turn = 0, op = 0
               PROVE  Place
    BY DEF Place
  <1>1. Len(RowProgram) \in Nat
    BY DEF Ready
  <1>2. ASSUME 1 =< Len(RowProgram)
        PROVE  RowProgram[1].count \in Nat /\ Len(RowProgram[1].ops) \in Nat
    <2>1. 1 \in 1 .. Len(RowProgram)
      BY <1>1, <1>2
    <2>2. RowProgram[1] \in LoopType
      BY <2>1 DEF Ready
    <2> QED
      BY <2>2 DEF LoopType
  <1> QED
    BY <1>1, <1>2 DEF Place, AtOp

LEMMA InitPlace == Init => Place /\ Traces
  <1> SUFFICES ASSUME Init PROVE Place /\ Traces
    OBVIOUS
  <1>1. Ready
    BY InitMatrix, MatrixReady
  <1>2. Place
    BY <1>1, GoodStart DEF Init
  <1> QED
    BY <1>2 DEF Init, Traces

LEMMA NextPlace == Ready /\ Ready' /\ Place /\ [Next]_vars => Place'
  <1> SUFFICES ASSUME Ready, Ready', Place, [Next]_vars PROVE Place'
    OBVIOUS
  <1> DEFINE l == RowProgram[loop]
             n == Len(l.ops)
  <1>1. ASSUME pc \in {"start", "row"}, loop =< Len(RowProgram)
        PROVE  /\ GoodLoop(l, CurrentTier) /\ l.count \in Nat /\ l.from \in Forms
               /\ l.ops \in Seq(Ops) /\ n \in Nat /\ \A k \in 1 .. n : l.ops[k] \in Ops
               /\ \E f \in [0 .. n -> Forms] : Flow(l.ops, l.from, f)
    <2>1. loop \in 1 .. Len(RowProgram)
      BY <1>1 DEF Place, Ready
    <2>2. GoodLoop(l, CurrentTier)
      BY <1>1, <2>1 DEF Ready
    <2>3. l \in LoopType
      BY <2>2 DEF GoodLoop
    <2>4. l.count \in Nat /\ l.from \in Forms /\ l.ops \in Seq(Ops)
      BY <2>3 DEF LoopType
    <2>5. \E f \in [0 .. n -> Forms] : Flow(l.ops, l.from, f)
      BY <2>2 DEF GoodLoop, FlowsTo
    <2> HIDE DEF l
    <2> QED
      BY <2>2, <2>4, <2>5
  <1>2. CASE StartRegistry
    <2>1. UNCHANGED <<args, at, loop, turn, op, buf>> /\ pc = "start" /\ pc' = "row"
      BY <1>2 DEF StartRegistry, rowVars
    <2>2. RowProgram' = RowProgram
      BY <2>1, SameProgram
    <2> QED
      BY <2>1, <2>2 DEF Place
  <1>3. CASE Operation
    <2>1. /\ pc = "row" /\ pc' = "row" /\ loop =< Len(RowProgram)
          /\ turn < l.count /\ op < n
          /\ UNCHANGED <<args, at, loop, turn>> /\ op' = op + 1
          /\ buf' = Effect(l.ops[op + 1], IF op = 0 THEN l.from ELSE buf)
      BY <1>3 DEF Operation, InTurn, InRow, CurrentLoop, RowProgram
    <2>2. RowProgram' = RowProgram
      BY <2>1, SameProgram
    <2>3. turn \in Nat /\ op \in Nat /\ loop \in 1 .. Len(RowProgram) + 1
          /\ AtOp(l, turn, op, buf)
      BY <2>1 DEF Place
    <2>4. /\ l.count \in Nat /\ n \in Nat
          /\ \E f \in [0 .. n -> Forms] : Flow(l.ops, l.from, f)
      BY <1>1, <2>1
    <2> HIDE DEF l
    <2>5. PICK f \in [0 .. n -> Forms] :
            Flow(l.ops, l.from, f) /\ (op > 0 => buf = f[op])
      BY <2>3, <2>4 DEF AtOp
    <2>6. (IF op = 0 THEN l.from ELSE buf) = f[op]
      BY <2>3, <2>5 DEF Flow
    <2>7. op + 1 \in 1 .. n /\ (op + 1) - 1 = op
      BY <2>1, <2>3, <2>4
    <2>8. buf' = f[op + 1]
      BY <2>1, <2>5, <2>6, <2>7 DEF Flow
    <2>9. AtOp(l, turn, op + 1, buf')
      BY <2>1, <2>3, <2>4, <2>5, <2>7, <2>8 DEF AtOp
    <2>10. AtOp(RowProgram[loop], turn, op', buf')
      BY <2>1, <2>9 DEF l
    <2> QED
      BY <2>1, <2>2, <2>3, <2>10 DEF Place
  <1>4. CASE EndTurn
    <2>1. /\ pc = "row" /\ pc' = "row" /\ loop =< Len(RowProgram)
          /\ turn < l.count
          /\ UNCHANGED <<args, at, loop>> /\ op' = 0 /\ turn' = turn + 1
      BY <1>4 DEF EndTurn, InTurn, InRow, CurrentLoop, RowProgram
    <2>2. RowProgram' = RowProgram
      BY <2>1, SameProgram
    <2>3. turn \in Nat /\ loop \in 1 .. Len(RowProgram) + 1
      BY <2>1 DEF Place
    <2>4. l.count \in Nat /\ n \in Nat
      BY <1>1, <2>1
    <2> HIDE DEF l
    <2>5. AtOp(l, turn + 1, 0, buf')
      BY <2>1, <2>3, <2>4 DEF AtOp
    <2> QED
      BY <2>1, <2>2, <2>3, <2>5 DEF Place, l
  <1>5. CASE EndLoop
    <2>1. /\ pc = "row" /\ pc' = "row" /\ loop =< Len(RowProgram)
          /\ turn = l.count
          /\ UNCHANGED <<args, at, op>> /\ loop' = loop + 1 /\ turn' = 0
      BY <1>5 DEF EndLoop, InRow, CurrentLoop, RowProgram
    <2>2. RowProgram' = RowProgram
      BY <2>1, SameProgram
    <2>3. loop \in 1 .. Len(RowProgram) + 1 /\ AtOp(l, turn, op, buf)
          /\ Len(RowProgram) \in Nat
      BY <2>1 DEF Place, Ready
    <2>4. op = 0
      BY <2>1, <2>3 DEF AtOp
    <2>5. ASSUME loop + 1 =< Len(RowProgram)
          PROVE  AtOp(RowProgram[loop + 1], 0, 0, buf')
      <3>1. loop + 1 \in 1 .. Len(RowProgram)
        BY <2>3, <2>5
      <3>2. RowProgram[loop + 1] \in LoopType
        BY <2>1, <3>1 DEF Ready
      <3>3. RowProgram[loop + 1].count \in Nat /\ Len(RowProgram[loop + 1].ops) \in Nat
        BY <3>2 DEF LoopType
      <3> QED
        BY <3>3 DEF AtOp
    <2>6. loop + 1 \in 1 .. Len(RowProgram) + 1
      BY <2>1, <2>3
    <2> HIDE DEF l
    <2> QED
      BY <2>1, <2>2, <2>4, <2>5, <2>6 DEF Place
  <1>6. CASE EndRow
    <2>1. loop' = 1 /\ turn' = 0 /\ op' = 0
      BY <1>6 DEF EndRow, RowStart
    <2>2. (Ready /\ loop = 1 /\ turn = 0 /\ op = 0 => Place)'
      BY GoodStart, PTL
    <2> QED
      BY <2>1, <2>2
  <1>7. CASE StopRegistry \/ LateStep \/ Return \/ StartRaises \/ RowRaises \/ LateRaises
    <2>1. pc' \notin {"start", "row"}
      BY <1>7 DEF StopRegistry, LateStep, Return, StartRaises, RowRaises, LateRaises
    <2> QED
      BY <2>1 DEF Place
  <1>8. CASE UNCHANGED vars
    <2>1. UNCHANGED <<args, at, loop, turn, op, buf, pc>>
      BY <1>8 DEF vars, rowVars
    <2>2. RowProgram' = RowProgram
      BY <2>1, SameProgram
    <2> QED
      BY <2>1, <2>2 DEF Place
  <1> QED
    BY <1>2, <1>3, <1>4, <1>5, <1>6, <1>7, <1>8 DEF Next, Work, Fault

LEMMA NextTraces == Ready /\ Place /\ Traces /\ [Next]_vars => Traces'
  <1> SUFFICES ASSUME Ready, Place, Traces, [Next]_vars, tracing'
               PROVE  Traces'
    BY DEF Traces
  <1> DEFINE l == RowProgram[loop]
             n == Len(l.ops)
  <1>1. CASE Operation
    <2>1. /\ pc = "row" /\ pc' = "row" /\ loop =< Len(RowProgram)
          /\ turn < l.count /\ op < n
          /\ UNCHANGED <<args, at, loop, turn>> /\ op' = op + 1
          /\ tracing' = CASE l.ops[op + 1] = "trace_on" -> TRUE
                          [] l.ops[op + 1] = "trace_off" -> FALSE
                          [] OTHER -> tracing
      BY <1>1 DEF Operation, InTurn, InRow, CurrentLoop, RowProgram
    <2>2. RowProgram' = RowProgram
      BY <2>1, SameProgram
    <2>3. turn \in Nat /\ op \in Nat /\ loop \in 1 .. Len(RowProgram)
      BY <2>1 DEF Place, Ready
    <2>4. GoodLoop(l, CurrentTier)
      BY <2>1, <2>3 DEF Ready
    <2>5. l.count \in Nat /\ n \in Nat
      <3>1. l \in LoopType
        BY <2>4 DEF GoodLoop
      <3>2. l.count \in Nat /\ l.ops \in Seq(Ops)
        BY <3>1 DEF LoopType
      <3> HIDE DEF l
      <3> QED
        BY <3>2
    <2>6. op + 1 \in 1 .. n
      BY <2>1, <2>3, <2>5
    <2>7. l.list = "untimed" /\ args.trace /\ l.ops[n] = "trace_off"
      <3>1. CASE l.ops[op + 1] = "trace_on"
        <4>1. "trace_on" \in OpsOf(l.ops)
          BY <2>6, <3>1 DEF OpsOf
        <4>2. l.count > 0
          BY <2>1, <2>3, <2>5
        <4> QED
          BY <2>4, <4>1, <4>2 DEF GoodLoop
      <3>2. CASE l.ops[op + 1] # "trace_on"
        <4>1. tracing
          BY <2>1, <3>2
        <4> QED
          BY <4>1 DEF Traces
      <3> QED
        BY <3>1, <3>2
    <2>8. l.ops[op + 1] # "trace_off"
      BY <2>1
    <2>9. op + 1 # n
      BY <2>7, <2>8
    <2>10. op + 1 > 0 /\ op + 1 < n
      BY <2>6, <2>9, <2>3, <2>5
    <2> QED
      BY <2>1, <2>2, <2>7, <2>10 DEF Traces
  <1>2. CASE EndTurn \/ EndLoop \/ EndRow
    <2>1. tracing /\ pc = "row"
      BY <1>2 DEF EndTurn, EndLoop, EndRow, InTurn, InRow
    <2>2. loop \in 1 .. Len(RowProgram) /\ Len(RowProgram) \in Nat
          /\ turn < l.count /\ op < n /\ turn \in Nat
      BY <2>1 DEF Traces, Place, Ready
    <2>3. l \in LoopType
      BY <2>1, <2>2 DEF Ready
    <2>4. l.count \in Nat /\ n \in Nat
      <3>1. l.count \in Nat /\ l.ops \in Seq(Ops)
        BY <2>3 DEF LoopType
      <3> HIDE DEF l
      <3> QED
        BY <3>1
    <2>5. \/ op = n
          \/ turn = l.count
          \/ loop > Len(RowProgram)
      BY <1>2 DEF EndTurn, EndLoop, EndRow, InTurn, InRow, CurrentLoop, RowProgram
    <2>6. op \in Nat
      BY <2>1 DEF Place
    <2> HIDE DEF l, n
    <2> QED
      BY <2>2, <2>4, <2>5, <2>6
  <1>3. CASE StartRegistry \/ StartRaises \/ RowRaises \/ StopRegistry \/ LateStep
             \/ Return \/ LateRaises
    <2>1. pc # "row" /\ tracing
      BY <1>3 DEF StartRegistry, StartRaises, RowRaises, StopRegistry, LateStep,
                  Return, LateRaises
    <2> QED
      BY <2>1 DEF Traces
  <1>4. CASE UNCHANGED vars
    <2>1. UNCHANGED <<args, at, loop, turn, op, buf, pc, tracing>>
      BY <1>4 DEF vars, rowVars
    <2>2. RowProgram' = RowProgram
      BY <2>1, SameProgram
    <2> QED
      BY <2>1, <2>2 DEF Traces
  <1> QED
    BY <1>1, <1>2, <1>3, <1>4 DEF Next, Work, Fault

(* tracemalloc is on only inside its own sample, never in a timed loop, never *)
(* after the row, however the row ends, and only when it was asked for        *)
(* (runner.py:121-146).                  *)
THEOREM TracingStaysInItsSample == Spec => []TracingIsConfined
  <1>1. Place /\ Traces => TracingIsConfined
    BY DEF Traces, TracingIsConfined, InRow, CurrentLoop, RowProgram
  <1> QED
    BY <1>1, InitMatrix, NextMatrix, MatrixReady, InitPlace, NextPlace, NextTraces,
       PTL DEF Spec

(* Data reach every operation of every program in the form it takes, and a    *)
(* schema is fetched only while the registry serves: for every run, no        *)
(* operation raises of itself (runner.py:175-789).            *)
THEOREM OperationsAlwaysApply == Spec => []OperationsApply
  <1>1. Inv /\ MatrixInv /\ Ready /\ Place => OperationsApply
    <2> SUFFICES ASSUME Inv, MatrixInv, Ready, Place, InTurn, op < Len(CurrentLoop.ops)
                 PROVE  Applies(CurrentLoop.ops[op + 1],
                                IF op = 0 THEN CurrentLoop.from ELSE buf)
      BY DEF OperationsApply
    <2> DEFINE l == RowProgram[loop]
               n == Len(l.ops)
               o == l.ops[op + 1]
               b == IF op = 0 THEN l.from ELSE buf
    <2>1. /\ pc = "row" /\ loop =< Len(RowProgram) /\ CurrentLoop = l
          /\ turn < l.count /\ op < n
      BY DEF InTurn, InRow, CurrentLoop, RowProgram
    <2>2. turn \in Nat /\ op \in Nat /\ loop \in 1 .. Len(RowProgram)
          /\ AtOp(l, turn, op, buf)
      BY <2>1 DEF Place, Ready
    <2>3. GoodLoop(l, CurrentTier) /\ l \in LoopType
      BY <2>1, <2>2 DEF Ready
    <2>4. l.ops \in Seq(Ops) /\ n \in Nat
      <3>1. l.ops \in Seq(Ops)
        BY <2>3 DEF LoopType
      <3> HIDE DEF l
      <3> QED
        BY <3>1
    <2>5. op + 1 \in 1 .. n /\ (op + 1) - 1 = op
      BY <2>1, <2>2, <2>4
    <2>6. PICK f : Flow(l.ops, l.from, f) /\ (op > 0 => buf = f[op])
      <3>1. \E f : Flow(l.ops, l.from, f)
        BY <2>3 DEF GoodLoop, FlowsTo
      <3> QED
        BY <2>2, <3>1 DEF AtOp
    <2>7. b = f[op]
      BY <2>2, <2>6 DEF Flow
    <2>8. Fits(o, b)
      BY <2>5, <2>6, <2>7 DEF Flow
    <2>9. o = "get" => registry = "up"
      <3> SUFFICES ASSUME o = "get" PROVE registry = "up"
        OBVIOUS
      <3>1. "get" \in OpsOf(l.ops)
        BY <2>5 DEF OpsOf
      <3>2. CurrentTier = "S2"
        BY <2>3, <3>1 DEF GoodLoop
      <3>3. at.tier \in 1 .. T /\ T \in {1, 5}
        BY <2>1, TierCount DEF MatrixInv
      <3>4. at.tier \in DOMAIN TiersLoop
        <4>1. CASE args.tier = "all"
          <5>1. TiersLoop = Tiers /\ T = 5
            BY <4>1 DEF TiersLoop, Tiers, T
          <5>2. DOMAIN Tiers = 1 .. 5
            BY DEF Tiers
          <5> QED
            BY <3>3, <5>1, <5>2
        <4>2. CASE args.tier # "all"
          <5>1. TiersLoop = <<args.tier>> /\ T = 1
            BY <4>2 DEF TiersLoop, T
          <5>2. DOMAIN <<args.tier>> = 1 .. 1
            OBVIOUS
          <5> QED
            BY <3>3, <5>1, <5>2
        <4> QED
          BY <4>1, <4>2
      <3>5. NeedsRegistry
        BY <3>2, <3>4 DEF CurrentTier, NeedsRegistry
      <3> QED
        BY <2>1, <3>5 DEF Inv
    <2> HIDE DEF l, o, b, n
    <2>10. Applies(o, b)
      BY <2>8, <2>9 DEF Applies, Fits
    <2> QED
      BY <2>1, <2>10 DEF o, b
  <1> QED
    BY <1>1, InitInv, NextInv, InitMatrix, NextMatrix, MatrixReady, InitPlace,
       NextPlace, PTL DEF Spec

-----------------------------------------------------------------------------
(* The lists of timings.  A loop that is over has count timings in its list, *)
(* the one that is being run as many as it has had turns.                    *)

(* x holds n timings, each of exactly the work W. *)
Recorded(x, W, n) ==
    /\ x \in Seq(Seq(Ops)) /\ Len(x) = n
    /\ \A k \in 1 .. n : OpsOf(x[k]) = W

(* Turns of loop k that are over, in turn t of loop l. *)
Turns(k, l, t) == IF k < l THEN Iterations ELSE IF k = l THEN t ELSE 0

(* What is timed after o operations of a turn of loop l. *)
WindowIs(l, w, o) ==
    IF l.list = "untimed" THEN w = <<>>
    ELSE Len(w) = o /\ \A k \in 1 .. o : w[k] = l.ops[k]

Windows ==
    pc \in {"start", "row"} =>
      /\ window \in Seq(Ops)
      /\ loop > Len(RowProgram) => window = <<>>
      /\ loop =< Len(RowProgram) => WindowIs(RowProgram[loop], window, op)

Timings ==
    pc \in {"start", "row"} =>
      /\ DOMAIN lists \subseteq CodecLists \cup OwnLists(CurrentTier)
      /\ \A k \in 1 .. Len(RowProgram) : RowProgram[k].list # "untimed" =>
           LET x == RowProgram[k].list
               n == Turns(k, loop, turn)
           IN /\ n > 0 <=> x \in DOMAIN lists
              /\ n > 0 => Recorded(lists[x], Cake(CurrentTier, x), n)

GoodRow(row) ==
    /\ row.tier \in TierSet
    /\ DOMAIN row.lists = CodecLists \cup OwnLists(row.tier)
    /\ \A l \in DOMAIN row.lists :
         Recorded(row.lists[l], Cake(row.tier, l), Iterations)

GoodRows == \A i \in 1 .. Len(rows) : GoodRow(rows[i])

LEMMA NoWindow == ASSUME NEW l PROVE WindowIs(l, <<>>, 0)
  <1>1. Len(<<>>) = 0 /\ \A k \in 1 .. 0 : FALSE
    OBVIOUS
  <1> QED
    BY <1>1 DEF WindowIs

LEMMA NextWindows == Ready /\ Place /\ Windows /\ [Next]_vars => Windows'
  <1> SUFFICES ASSUME Ready, Place, Windows, [Next]_vars PROVE Windows'
    OBVIOUS
  <1> DEFINE l == RowProgram[loop]
             n == Len(l.ops)
  <1>1. CASE Operation
    <2>1. /\ pc = "row" /\ pc' = "row" /\ loop =< Len(RowProgram)
          /\ turn < l.count /\ op < n
          /\ UNCHANGED <<args, at, loop, turn>> /\ op' = op + 1
          /\ window' = IF l.list = "untimed" THEN window
                       ELSE Append(window, l.ops[op + 1])
      BY <1>1 DEF Operation, InTurn, InRow, CurrentLoop, RowProgram
    <2>2. RowProgram' = RowProgram
      BY <2>1, SameProgram
    <2>3. op \in Nat /\ loop \in 1 .. Len(RowProgram) /\ Len(RowProgram) \in Nat
          /\ window \in Seq(Ops) /\ WindowIs(l, window, op)
      BY <2>1 DEF Place, Ready, Windows
    <2>4. l.ops \in Seq(Ops) /\ n \in Nat
      <3>1. l \in LoopType
        BY <2>1, <2>3 DEF Ready
      <3>2. l.ops \in Seq(Ops)
        BY <3>1 DEF LoopType
      <3> HIDE DEF l
      <3> QED
        BY <3>2
    <2> HIDE DEF l
    <2>5. window' \in Seq(Ops) /\ WindowIs(l, window', op + 1)
      <3>1. op + 1 \in 1 .. n
        BY <2>1, <2>3, <2>4
      <3>2. l.ops[op + 1] \in Ops
        BY <2>4, <3>1
      <3>3. CASE l.list = "untimed"
        BY <2>1, <2>3, <3>3 DEF WindowIs
      <3>4. CASE l.list # "untimed"
        <4> DEFINE o == l.ops[op + 1]
        <4>1. Len(window) = op /\ \A k \in 1 .. op : window[k] = l.ops[k]
          BY <2>3, <3>4 DEF WindowIs
        <4>2. window' = Append(window, o) /\ o \in Ops
          BY <2>1, <3>2, <3>4
        <4> HIDE DEF o
        <4>3. /\ window' \in Seq(Ops) /\ Len(window') = op + 1
              /\ window'[op + 1] = o
              /\ \A k \in 1 .. op : window'[k] = window[k]
          BY <2>3, <4>1, <4>2
        <4>4. \A k \in 1 .. op + 1 : k \in 1 .. op \/ k = op + 1
          BY <2>3
        <4>5. \A k \in 1 .. op + 1 : window'[k] = l.ops[k]
          BY <4>1, <4>3, <4>4 DEF o
        <4> QED
          BY <3>4, <4>3, <4>5 DEF WindowIs
      <3> QED
        BY <3>3, <3>4
    <2>6. ~(loop > Len(RowProgram))
      BY <2>3
    <2> QED
      BY <2>1, <2>2, <2>5, <2>6 DEF Windows, l
  <1>2. ASSUME window' = <<>>, op' = 0 PROVE Windows'
    <2>1. window' \in Seq(Ops)
      BY <1>2
    <2> QED
      BY <1>2, <2>1, NoWindow DEF Windows
  <1>3. CASE EndTurn \/ EndRow
    BY <1>2, <1>3 DEF EndTurn, EndRow, RowStart
  <1>4. CASE EndLoop
    <2>1. /\ pc = "row" /\ loop =< Len(RowProgram) /\ turn = l.count
          /\ UNCHANGED <<op, window>>
      BY <1>4 DEF EndLoop, InRow, CurrentLoop, RowProgram
    <2>2. op = 0
      BY <2>1 DEF Place, AtOp
    <2>3. window \in Seq(Ops) /\ WindowIs(l, window, 0)
      BY <2>1, <2>2 DEF Windows
    <2>4. window = <<>>
      <3>1. l.list # "untimed" => Len(window) = 0
        BY <2>3 DEF WindowIs
      <3>2. Len(window) = 0 => window = <<>>
        BY <2>3
      <3>3. l.list = "untimed" => window = <<>>
        BY <2>3 DEF WindowIs
      <3> QED
        BY <3>1, <3>2, <3>3
    <2> QED
      BY <1>2, <2>1, <2>2, <2>4
  <1>5. CASE StartRegistry \/ UNCHANGED vars
    <2>1. /\ UNCHANGED <<args, at, loop, op, window>>
          /\ pc' \in {"start", "row"} => pc \in {"start", "row"}
      BY <1>5 DEF StartRegistry, vars, rowVars
    <2>2. RowProgram' = RowProgram
      BY <2>1, SameProgram
    <2> QED
      BY <2>1, <2>2 DEF Windows
  <1>6. CASE StopRegistry \/ LateStep \/ Return \/ StartRaises \/ RowRaises \/ LateRaises
    <2>1. pc' \notin {"start", "row"}
      BY <1>6 DEF StopRegistry, LateStep, Return, StartRaises, RowRaises, LateRaises
    <2> QED
      BY <2>1 DEF Windows
  <1> QED
    BY <1>1, <1>3, <1>4, <1>5, <1>6 DEF Next, Work, Fault

LEMMA NoTimings == lists = NoLists /\ loop = 1 /\ turn = 0 => Timings
  <1> SUFFICES ASSUME lists = NoLists, loop = 1, turn = 0 PROVE Timings
    OBVIOUS
  <1>1. DOMAIN lists = {}
    BY DEF NoLists
  <1>2. \A n \in Nat : \A k \in 1 .. n : Turns(k, 1, 0) = 0
    BY DEF Turns
  <1>3. CASE pc \notin {"start", "row"}
    BY <1>3 DEF Timings
  <1>4. CASE \A k \in 1 .. Len(RowProgram) : Turns(k, loop, turn) = 0
    BY <1>1, <1>4 DEF Timings
  <1>5. ASSUME NEW k \in 1 .. Len(RowProgram) PROVE Turns(k, loop, turn) = 0
    BY DEF Turns
  <1> QED
    BY <1>4, <1>5

(* The timings of the loops are the same when their turns and lists are. *)
LEMMA SameTimings ==
  ASSUME Timings, pc \in {"start", "row"}, UNCHANGED <<args, at, lists>>,
         \A k \in 1 .. Len(RowProgram) : RowProgram[k].list # "untimed" =>
           Turns(k, loop', turn') = Turns(k, loop, turn)
  PROVE  Timings'
  <1>1. RowProgram' = RowProgram /\ CurrentTier' = CurrentTier
    BY SameProgram
  <1>2. ASSUME NEW k \in 1 .. Len(RowProgram), RowProgram[k].list # "untimed"
        PROVE  LET x == RowProgram[k].list
                   n == Turns(k, loop', turn')
               IN /\ n > 0 <=> x \in DOMAIN lists
                  /\ n > 0 => Recorded(lists[x], Cake(CurrentTier, x), n)
    BY <1>2 DEF Timings
  <1>3. DOMAIN lists \subseteq CodecLists \cup OwnLists(CurrentTier)
    BY DEF Timings
  <1> QED
    BY <1>1, <1>2, <1>3 DEF Timings

(* A window at the end of a turn is one more timing. *)
LEMMA OneMore ==
  ASSUME NEW W, NEW n \in Nat, NEW x, Recorded(x, W, n),
         NEW w \in Seq(Ops), OpsOf(w) = W
  PROVE  Recorded(Append(x, w), W, n + 1)
  <1> DEFINE y == Append(x, w)
  <1>1. x \in Seq(Seq(Ops)) /\ Len(x) = n /\ \A k \in 1 .. n : OpsOf(x[k]) = W
    BY DEF Recorded
  <1>2. /\ y \in Seq(Seq(Ops)) /\ Len(y) = n + 1 /\ y[n + 1] = w
        /\ \A k \in 1 .. n : y[k] = x[k]
    BY <1>1
  <1> HIDE DEF y
  <1>3. \A k \in 1 .. n + 1 : k \in 1 .. n \/ k = n + 1
    OBVIOUS
  <1>4. Recorded(y, W, n + 1)
    BY <1>1, <1>2, <1>3 DEF Recorded
  <1> QED
    BY <1>4 DEF y

LEMMA NextTimings ==
  Ready /\ Place /\ Windows /\ Timings /\ [Next]_vars => Timings'
  <1> SUFFICES ASSUME Ready, Place, Windows, Timings, [Next]_vars PROVE Timings'
    OBVIOUS
  <1> DEFINE l == RowProgram[loop]
             n == Len(l.ops)
  <1>1. CASE EndTurn
    <2> DEFINE x == l.list
               old == IF x \in DOMAIN lists THEN lists[x] ELSE <<>>
               W == Cake(CurrentTier, x)
    <2>1. /\ pc = "row" /\ pc' = "row" /\ loop =< Len(RowProgram)
          /\ op = n /\ turn' = turn + 1
          /\ UNCHANGED <<args, at, loop>>
          /\ lists' = IF x = "untimed" THEN lists
                      ELSE [m \in DOMAIN lists \cup {x} |->
                              IF m = x THEN Append(old, window) ELSE lists[m]]
      BY <1>1 DEF EndTurn, InTurn, InRow, CurrentLoop, RowProgram
    <2>2. RowProgram' = RowProgram /\ CurrentTier' = CurrentTier
      BY <2>1, SameProgram
    <2>3. /\ turn \in Nat /\ loop \in 1 .. Len(RowProgram) /\ Len(RowProgram) \in Nat
          /\ window \in Seq(Ops) /\ WindowIs(l, window, n)
      BY <2>1 DEF Place, Ready, Windows
    <2>4. GoodLoop(l, CurrentTier)
      BY <2>1, <2>3 DEF Ready
    <2>5. ASSUME NEW k \in 1 .. Len(RowProgram), k # loop
          PROVE  Turns(k, loop', turn') = Turns(k, loop, turn)
      BY <2>1, <2>3, <2>5 DEF Turns
    <2>6. CASE x = "untimed"
      <3>1. \A k \in 1 .. Len(RowProgram) : RowProgram[k].list # "untimed" => k # loop
        BY <2>6
      <3>2. lists' = lists
        BY <2>1, <2>6
      <3> QED
        BY <2>1, <2>5, <3>1, <3>2, SameTimings
    <2>7. CASE x # "untimed"
      <3>1. OpsOf(window) = W
        <4>1. OpsOf(l.ops) = W /\ Len(window) = n
              /\ \A k \in 1 .. n : window[k] = l.ops[k]
          BY <2>3, <2>4, <2>7 DEF GoodLoop, WindowIs
        <4> HIDE DEF l
        <4> QED
          BY <4>1 DEF OpsOf
      <3>2. Turns(loop, loop, turn) = turn /\ Turns(loop, loop', turn') = turn + 1
        BY <2>1, <2>3 DEF Turns
      <3>3. Recorded(old, W, turn)
        <4>1. turn > 0 <=> x \in DOMAIN lists
          BY <2>1, <2>3, <2>7, <3>2 DEF Timings
        <4>2. turn > 0 => Recorded(lists[x], W, turn)
          BY <2>1, <2>3, <2>7, <3>2 DEF Timings
        <4>3. Recorded(<<>>, W, 0)
          <5>1. <<>> \in Seq(Seq(Ops)) /\ Len(<<>>) = 0
            OBVIOUS
          <5> QED
            BY <5>1 DEF Recorded
        <4> HIDE DEF x, W
        <4>4. CASE turn > 0
          BY <4>1, <4>2, <4>4
        <4>5. CASE turn = 0
          <5>1. old = <<>>
            BY <4>1, <4>5
          <5> QED
            BY <4>3, <4>5, <5>1
        <4> QED
          BY <2>3, <4>4, <4>5
      <3> HIDE DEF W, old
      <3>4. Recorded(Append(old, window), W, turn + 1)
        BY <2>3, <3>1, <3>3, OneMore
      <3>5. x \in CodecLists \cup OwnLists(CurrentTier)
        BY <2>4, <2>7 DEF GoodLoop
      <3>6. /\ DOMAIN lists' = DOMAIN lists \cup {x}
            /\ lists'[x] = Append(old, window)
            /\ \A m \in DOMAIN lists : m # x => lists'[m] = lists[m]
        BY <2>1, <2>7
      <3>7. ASSUME NEW k \in 1 .. Len(RowProgram), RowProgram[k].list # "untimed"
            PROVE  LET y == RowProgram[k].list
                       c == Turns(k, loop', turn')
                   IN /\ c > 0 <=> y \in DOMAIN lists'
                      /\ c > 0 => Recorded(lists'[y], Cake(CurrentTier, y), c)
        <4>1. CASE k = loop
          <5>1. RowProgram[k].list = x /\ turn + 1 > 0
            BY <2>3, <4>1
          <5> QED
            BY <3>2, <3>4, <3>6, <4>1, <5>1 DEF W
        <4>2. CASE k # loop
          <5>1. RowProgram[k].list # x
            BY <2>1, <2>3, <2>7, <4>2 DEF Ready
          <5>2. Turns(k, loop', turn') = Turns(k, loop, turn)
            BY <2>5, <4>2
          <5>3. LET y == RowProgram[k].list
                    c == Turns(k, loop, turn)
                IN /\ c > 0 <=> y \in DOMAIN lists
                   /\ c > 0 => Recorded(lists[y], Cake(CurrentTier, y), c)
            BY <2>1, <3>7 DEF Timings
          <5> DEFINE y == RowProgram[k].list
                     c == Turns(k, loop, turn)
          <5> HIDE DEF y, c, x
          <5>4. c > 0 <=> y \in DOMAIN lists'
            BY <3>6, <5>1, <5>3 DEF y, c
          <5>5. c > 0 => Recorded(lists'[y], Cake(CurrentTier, y), c)
            BY <3>6, <5>1, <5>3 DEF y, c
          <5> QED
            BY <5>2, <5>4, <5>5 DEF y, c
        <4> QED
          BY <4>1, <4>2
      <3>8. DOMAIN lists' \subseteq CodecLists \cup OwnLists(CurrentTier)
        BY <2>1, <3>5, <3>6 DEF Timings
      <3> QED
        BY <2>1, <2>2, <3>7, <3>8 DEF Timings
    <2> QED
      BY <2>6, <2>7
  <1>2. CASE EndLoop
    <2>1. /\ pc = "row" /\ loop =< Len(RowProgram) /\ turn = l.count
          /\ loop' = loop + 1 /\ turn' = 0 /\ UNCHANGED <<args, at, lists>>
      BY <1>2 DEF EndLoop, InRow, CurrentLoop, RowProgram
    <2>2. loop \in 1 .. Len(RowProgram) /\ Len(RowProgram) \in Nat
      BY <2>1 DEF Place, Ready
    <2>3. ASSUME NEW k \in 1 .. Len(RowProgram), RowProgram[k].list # "untimed"
          PROVE  Turns(k, loop', turn') = Turns(k, loop, turn)
      <3>1. k = loop => turn = Iterations
        <4>1. GoodLoop(RowProgram[k], CurrentTier)
          BY <2>1 DEF Ready
        <4>2. RowProgram[k].count = Iterations
          BY <2>3, <4>1 DEF GoodLoop
        <4> QED
          BY <2>1, <4>2
      <3> QED
        BY <2>1, <2>2, <3>1 DEF Turns
    <2> QED
      BY <2>1, <2>3, SameTimings
  <1>3. CASE EndRow
    <2>1. lists' = NoLists /\ loop' = 1 /\ turn' = 0
      BY <1>3 DEF EndRow, RowStart
    <2>2. (lists = NoLists /\ loop = 1 /\ turn = 0 => Timings)'
      BY NoTimings, PTL
    <2>3. NoLists' = NoLists
      BY DEF NoLists
    <2> QED
      BY <2>1, <2>2, <2>3
  <1>4. CASE StartRegistry \/ Operation \/ UNCHANGED vars
    <2>1. UNCHANGED <<args, at, loop, turn, lists>>
          /\ (pc' \in {"start", "row"} => pc \in {"start", "row"})
      BY <1>4 DEF StartRegistry, Operation, vars, rowVars
    <2>2. CASE pc \in {"start", "row"}
      BY <2>1, <2>2, SameTimings
    <2>3. CASE pc' \notin {"start", "row"}
      BY <2>3 DEF Timings
    <2> QED
      BY <2>1, <2>2, <2>3
  <1>5. CASE StopRegistry \/ LateStep \/ Return \/ StartRaises \/ RowRaises \/ LateRaises
    <2>1. pc' \notin {"start", "row"}
      BY <1>5 DEF StopRegistry, LateStep, Return, StartRaises, RowRaises, LateRaises
    <2> QED
      BY <2>1 DEF Timings
  <1> QED
    BY <1>1, <1>2, <1>3, <1>4, <1>5 DEF Next, Work, Fault

LEMMA NextRows ==
  MatrixInv /\ Ready /\ Place /\ Timings /\ GoodRows /\ [Next]_vars => GoodRows'
  <1> SUFFICES ASSUME MatrixInv, Ready, Place, Timings, GoodRows, [Next]_vars
               PROVE  GoodRows'
    OBVIOUS
  <1>1. CASE EndRow
    <2>1. /\ pc = "row" /\ loop > Len(RowProgram) /\ rows' = Append(rows, Row)
      BY <1>1 DEF EndRow, RowProgram
    <2>2. /\ CurrentTier \in TierSet /\ loop \in 1 .. Len(RowProgram) + 1
          /\ Len(RowProgram) \in Nat
          /\ Names(RowProgram) = CodecLists \cup OwnLists(CurrentTier)
          /\ DOMAIN lists \subseteq CodecLists \cup OwnLists(CurrentTier)
      BY <2>1 DEF Place, Ready, Timings
    <2>3. Iterations \in Nat \ {0}
      BY BuildReportAssumption
    <2>4. ASSUME NEW x \in CodecLists \cup OwnLists(CurrentTier)
          PROVE  x \in DOMAIN lists /\ Recorded(lists[x], Cake(CurrentTier, x), Iterations)
      <3>1. x \in Names(RowProgram)
        BY <2>2
      <3>2. PICK k \in 1 .. Len(RowProgram) : RowProgram[k].list = x /\ x # "untimed"
        BY <3>1 DEF Names
      <3>3. Turns(k, loop, turn) = Iterations
        BY <2>1, <2>2, <3>2 DEF Turns
      <3> QED
        BY <2>1, <2>3, <3>2, <3>3 DEF Timings
    <2>5. DOMAIN lists = CodecLists \cup OwnLists(CurrentTier)
      BY <2>2, <2>4
    <2>6. Row.tier = CurrentTier /\ Row.lists = lists
      BY DEF Row
    <2>7. GoodRow(Row)
      BY <2>2, <2>4, <2>5, <2>6 DEF GoodRow
    <2>8. PICK S : rows \in Seq(S)
      BY DEF MatrixInv
    <2>9. /\ Len(rows') = Len(rows) + 1 /\ Len(rows) \in Nat
          /\ rows'[Len(rows) + 1] = Row
          /\ \A i \in 1 .. Len(rows) : rows'[i] = rows[i]
      BY <2>1, <2>8
    <2>10. \A i \in 1 .. Len(rows') : i \in 1 .. Len(rows) \/ i = Len(rows) + 1
      BY <2>9
    <2>11. \A i \in 1 .. Len(rows) : GoodRow(rows[i])
      BY DEF GoodRows
    <2>12. \A i \in 1 .. Len(rows') : GoodRow(rows'[i])
      BY <2>7, <2>9, <2>10, <2>11
    <2> QED
      BY <2>12 DEF GoodRows, GoodRow, Recorded
  <1>2. CASE UNCHANGED rows
    BY <1>2 DEF GoodRows, GoodRow, Recorded
  <1> QED
    BY <1>1, <1>2 DEF Next, Work, Fault, StartRegistry, Operation, EndTurn, EndLoop,
      StopRegistry, LateStep, Return, StartRaises, RowRaises, LateRaises, vars

LEMMA InitRows == Init => Windows /\ Timings /\ GoodRows
  <1> SUFFICES ASSUME Init PROVE Windows /\ Timings /\ GoodRows
    OBVIOUS
  <1>1. lists = NoLists /\ loop = 1 /\ turn = 0 /\ window = <<>> /\ op = 0 /\ rows = <<>>
    BY DEF Init
  <1>2. Timings
    BY <1>1, NoTimings
  <1>3. Windows
    <2>1. <<>> \in Seq(Ops)
      OBVIOUS
    <2> QED
      BY <1>1, <2>1, NoWindow DEF Windows
  <1>4. GoodRows
    <2>1. \A i \in 1 .. Len(<<>>) : FALSE
      OBVIOUS
    <2> QED
      BY <1>1, <2>1 DEF GoodRows
  <1> QED
    BY <1>2, <1>3, <1>4

(* Every row has exactly the lists its layer cake announces, each with        *)
(* --iterations timings, and every timing is of exactly the announced work,   *)
(* whatever the batch size, the warm-up and the other rows of the run         *)
(* (runner.py:175-853).                                                       *)
THEOREM RowsMeanWhatTheySay == Spec => []LayerCakeIsTrue
  <1>1. MatrixInv /\ GoodRows => LayerCakeIsTrue
    <2> SUFFICES ASSUME MatrixInv, GoodRows, NEW i \in DOMAIN rows
                 PROVE  LET row == rows[i]
                            cake == LayerCake(row.tier)
                        IN /\ DOMAIN row.lists = DOMAIN cake
                           /\ \A l \in DOMAIN cake :
                                /\ Len(row.lists[l]) = Iterations
                                /\ \A k \in 1 .. Iterations :
                                     {row.lists[l][k][j] : j \in DOMAIN row.lists[l][k]}
                                       = cake[l]
      BY DEF LayerCakeIsTrue
    <2> DEFINE row == rows[i]
               cake == LayerCake(row.tier)
    <2>1. GoodRow(row)
      <3>1. DOMAIN rows = 1 .. Len(rows)
        BY DEF MatrixInv
      <3> QED
        BY <3>1 DEF GoodRows
    <2>2. /\ DOMAIN cake = CodecLists \cup OwnLists(row.tier)
          /\ \A l \in DOMAIN cake : cake[l] = Cake(row.tier, l)
      BY <2>1, Cakes DEF GoodRow
    <2>3. DOMAIN row.lists = DOMAIN cake
      BY <2>1, <2>2 DEF GoodRow
    <2>4. ASSUME NEW l \in DOMAIN cake
          PROVE  /\ Len(row.lists[l]) = Iterations
                 /\ \A k \in 1 .. Iterations :
                      {row.lists[l][k][j] : j \in DOMAIN row.lists[l][k]} = cake[l]
      <3> DEFINE x == row.lists[l]
                 W == Cake(row.tier, l)
      <3>1. Recorded(x, W, Iterations) /\ cake[l] = W
        BY <2>1, <2>2, <2>3, <2>4 DEF GoodRow
      <3> HIDE DEF x, W
      <3>2. ASSUME NEW k \in 1 .. Iterations
            PROVE  {x[k][j] : j \in DOMAIN x[k]} = W
        <4>1. x \in Seq(Seq(Ops)) /\ Len(x) = Iterations /\ OpsOf(x[k]) = W
          BY <3>1 DEF Recorded
        <4>2. x[k] \in Seq(Ops)
          BY <4>1
        <4>3. DOMAIN x[k] = 1 .. Len(x[k])
          BY <4>2
        <4> QED
          BY <4>1, <4>3 DEF OpsOf
      <3>3. Len(x) = Iterations
        BY <3>1 DEF Recorded
      <3> HIDE DEF cake
      <3> QED
        BY <3>1, <3>2, <3>3 DEF x
    <2> HIDE DEF row, cake
    <2>5. /\ DOMAIN row.lists = DOMAIN cake
          /\ \A l \in DOMAIN cake :
               /\ Len(row.lists[l]) = Iterations
               /\ \A k \in 1 .. Iterations :
                    {row.lists[l][k][j] : j \in DOMAIN row.lists[l][k]} = cake[l]
      BY <2>3, <2>4
    <2> QED
      BY <2>5 DEF row, cake
  <1> QED
    BY <1>1, InitMatrix, NextMatrix, MatrixReady, InitPlace, NextPlace, InitRows,
       NextWindows, NextTimings, NextRows, PTL DEF Spec

-----------------------------------------------------------------------------
(* The GETs of a row of S2.  Its twelve loops are the two of the warm-up, the  *)
(* eight of RegistryLoops and the two closing ones.                            *)

(* The loops whose turns begin with a GET, and how often each is run. *)
Fetches(k) == k \in {3, 4, 5, 6, 7, 9, 10}
TurnsOf(k) == IF k \in {3, 5, 7, 10} THEN Iterations ELSE 1

NoGet(l) == \A j \in 1 .. Len(l.ops) : l.ops[j] # "get"

OneGet(l) ==
    /\ Len(l.ops) >= 1 /\ l.ops[1] = "get"
    /\ \A j \in 2 .. Len(l.ops) : l.ops[j] # "get"

Shape(s) ==
    /\ Len(s) = 12
    /\ \A k \in 1 .. 12 : IF Fetches(k) THEN OneGet(s[k]) /\ s[k].count = TurnsOf(k)
                                        ELSE NoGet(s[k])

LEMMA NoGetInPart ==
  ASSUME NEW s, NEW N, Part(s, "S0", N)
  PROVE  s \in Seq(LoopType) /\ \A k \in 1 .. Len(s) : NoGet(s[k])
  <1>1. \A k \in 1 .. Len(s) : "get" \notin OpsOf(s[k].ops)
    BY DEF Part, GoodLoop
  <1> QED
    BY <1>1 DEF Part, NoGet, OpsOf

LEMMA RegistryShape ==
  /\ RegistryLoops \in Seq(LoopType) /\ Len(RegistryLoops) = 8
  /\ \A k \in 1 .. 8 : IF Fetches(k + 2)
                       THEN OneGet(RegistryLoops[k]) /\ RegistryLoops[k].count = TurnsOf(k + 2)
                       ELSE NoGet(RegistryLoops[k])
  <1> DEFINE g == Untimed(1, "wire", <<"get">>)
             a == Timed("fetch_new_tcp_each_iteration", "wire", <<"get">>)
             b == Timed("fetch_reused_connection", "wire", <<"get">>)
             c == Timed("encode", "event", <<"get", "encode">>)
             d == Timed("decode", "wire", <<"decode">>)
             e == Timed("round_trip", "event", <<"get", "encode", "decode">>)
             s == <<a, g, b, g, c, d, g, e>>
  <1>1. s = RegistryLoops
    BY DEF RegistryLoops
  <1>2. /\ g.ops = <<"get">> /\ a.ops = <<"get">> /\ b.ops = <<"get">>
        /\ c.ops = <<"get", "encode">> /\ d.ops = <<"decode">>
        /\ e.ops = <<"get", "encode", "decode">>
        /\ g.count = 1 /\ a.count = Iterations /\ b.count = Iterations
        /\ c.count = Iterations /\ e.count = Iterations
    BY DEF Timed, Untimed
  <1> HIDE DEF g, a, b, c, d, e
  <1>3. OneGet(g) /\ OneGet(a) /\ OneGet(b)
    <2>1. Len(<<"get">>) = 1 /\ <<"get">>[1] = "get"
      OBVIOUS
    <2> QED
      BY <1>2, <2>1 DEF OneGet
  <1>4. OneGet(c)
    <2> DEFINE q == <<"get", "encode">>
    <2>1. Len(q) = 2 /\ q[1] = "get" /\ q[2] = "encode"
      OBVIOUS
    <2> HIDE DEF q
    <2>2. \A j \in 2 .. 2 : j = 2
      OBVIOUS
    <2>3. c.ops = q
      BY <1>2 DEF q
    <2> QED
      BY <2>1, <2>2, <2>3 DEF OneGet
  <1>5. OneGet(e)
    <2> DEFINE q == <<"get", "encode", "decode">>
    <2>1. Len(q) = 3 /\ q[1] = "get" /\ q[2] = "encode" /\ q[3] = "decode"
      OBVIOUS
    <2> HIDE DEF q
    <2>2. \A j \in 2 .. 3 : j = 2 \/ j = 3
      OBVIOUS
    <2>3. e.ops = q
      BY <1>2 DEF q
    <2> QED
      BY <2>1, <2>2, <2>3 DEF OneGet
  <1>6. NoGet(d)
    <2> DEFINE q == <<"decode">>
    <2>1. Len(q) = 1 /\ q[1] = "decode"
      OBVIOUS
    <2> HIDE DEF q
    <2>2. \A j \in 1 .. 1 : j = 1
      OBVIOUS
    <2>3. d.ops = q
      BY <1>2 DEF q
    <2> QED
      BY <2>1, <2>2, <2>3 DEF NoGet
  <1>7. Len(s) = 8 /\ s[1] = a /\ s[2] = g /\ s[3] = b /\ s[4] = g
        /\ s[5] = c /\ s[6] = d /\ s[7] = g /\ s[8] = e
    OBVIOUS
  <1> HIDE DEF s
  <1>8. \A k \in 1 .. 8 : \/ k = 1 \/ k = 2 \/ k = 3 \/ k = 4
                          \/ k = 5 \/ k = 6 \/ k = 7 \/ k = 8
    OBVIOUS
  <1>9. \A k \in 1 .. 8 : IF Fetches(k + 2)
                          THEN OneGet(s[k]) /\ s[k].count = TurnsOf(k + 2)
                          ELSE NoGet(s[k])
    BY <1>2, <1>3, <1>4, <1>5, <1>6, <1>7, <1>8 DEF Fetches, TurnsOf
  <1>10. RegistryLoops \in Seq(LoopType)
    BY RegistryPart DEF Part
  <1> QED
    BY <1>1, <1>7, <1>9, <1>10

LEMMA ShapeOfS2 ==
  ASSUME ArgsType
  PROVE  Shape(Program("S2"))
  <1> DEFINE a == WarmupLoops("S2")
             b == RegistryLoops
             c == ClosingLoops("S2")
             s == a \o b \o c
  <1>1. a = WarmupLoops("S0") /\ c = ClosingLoops("S0")
    BY DEF WarmupLoops, ClosingLoops, Compress, Decompress
  <1>2. "S0" \in TierSet
    BY DEF TierSet
  <1>3. /\ a \in Seq(LoopType) /\ \A k \in 1 .. Len(a) : NoGet(a[k])
        /\ c \in Seq(LoopType) /\ \A k \in 1 .. Len(c) : NoGet(c[k])
    BY <1>1, <1>2, WarmupPart, ClosingPart, NoGetInPart
  <1>4. Len(a) = 2 /\ Len(c) = 2
    BY DEF WarmupLoops, ClosingLoops
  <1>5. Program("S2") = s
    BY DEF Program
  <1>6. /\ b \in Seq(LoopType) /\ Len(b) = 8
        /\ \A k \in 1 .. 8 : IF Fetches(k + 2) THEN OneGet(b[k]) /\ b[k].count = TurnsOf(k + 2)
                                               ELSE NoGet(b[k])
    BY RegistryShape
  <1> HIDE DEF a, b, c
  <1>7. /\ Len(s) = 12
        /\ \A k \in 1 .. 2 : s[k] = a[k]
        /\ \A k \in 3 .. 10 : s[k] = b[k - 2]
        /\ \A k \in 11 .. 12 : s[k] = c[k - 10]
    <2> DEFINE u == a \o b
               v == u \o c
    <2>1. /\ a \in Seq(LoopType) /\ b \in Seq(LoopType) /\ c \in Seq(LoopType)
      BY <1>3, <1>6
    <2>2. /\ u \in Seq(LoopType) /\ Len(u) = Len(a) + Len(b)
          /\ \A k \in 1 .. Len(a) + Len(b) :
               u[k] = IF k <= Len(a) THEN a[k] ELSE b[k - Len(a)]
      BY <2>1, ConcatProperties, Zenon
    <2>3. s = v
      OBVIOUS
    <2>a. u \in Seq(LoopType)
      BY <2>2
    <2> HIDE DEF u, s
    <2>4. /\ Len(v) = Len(u) + Len(c)
          /\ \A k \in 1 .. Len(u) + Len(c) :
               v[k] = IF k <= Len(u) THEN u[k] ELSE c[k - Len(u)]
      BY <2>1, <2>a, ConcatProperties, Zenon
    <2> HIDE DEF v
    <2>5. Len(a) = 2 /\ Len(b) = 8 /\ Len(c) = 2 /\ Len(u) = 10
      BY <1>4, <1>6, <2>2
    <2>6. Len(v) = 12
      BY <2>4, <2>5
    <2>7. \A k \in 1 .. 10 : u[k] = IF k <= 2 THEN a[k] ELSE b[k - 2]
      BY <2>2, <2>5
    <2>8. \A k \in 1 .. 12 : v[k] = IF k <= 10 THEN u[k] ELSE c[k - 10]
      BY <2>4, <2>5
    <2> QED
      BY <2>3, <2>6, <2>7, <2>8
  <1> HIDE DEF s
  <1>8. ASSUME NEW k \in 1 .. 12
        PROVE  IF Fetches(k) THEN OneGet(s[k]) /\ s[k].count = TurnsOf(k) ELSE NoGet(s[k])
    <2>1. CASE k \in 1 .. 2
      BY <1>3, <1>4, <1>7, <2>1 DEF Fetches
    <2>2. CASE k \in 3 .. 10
      <3>1. k - 2 \in 1 .. 8 /\ (k - 2) + 2 = k /\ s[k] = b[k - 2]
        BY <1>7, <2>2
      <3> QED
        BY <1>6, <3>1
    <2>3. CASE k \in 11 .. 12
      <3>1. k - 10 \in 1 .. 2 /\ s[k] = c[k - 10]
        BY <1>7, <2>3
      <3>2. ~Fetches(k)
        BY <2>3 DEF Fetches
      <3> QED
        BY <1>3, <1>4, <3>1, <3>2
    <2> QED
      BY <2>1, <2>2, <2>3
  <1> QED
    BY <1>5, <1>7, <1>8 DEF Shape

PerRow == 4 * Iterations + 3

(* The GETs of the loops before loop k. *)
Before(k) ==
    CASE k =< 3 -> 0
      [] k = 4 -> Iterations
      [] k = 5 -> Iterations + 1
      [] k = 6 -> 2 * Iterations + 1
      [] k = 7 -> 2 * Iterations + 2
      [] k \in {8, 9} -> 3 * Iterations + 2
      [] k = 10 -> 3 * Iterations + 3
      [] OTHER -> PerRow

(* The GETs of a row up to operation o of turn t of loop k. *)
RowGets(k, t, o) ==
    Before(k) + IF Fetches(k) THEN t + (IF o > 0 THEN 1 ELSE 0) ELSE 0

LEMMA LoopGets ==
  ASSUME NEW k \in 1 .. 12
  PROVE  /\ Before(k) \in Nat /\ Before(k + 1) \in Nat /\ TurnsOf(k) \in Nat
         /\ Before(k + 1) = Before(k) + IF Fetches(k) THEN TurnsOf(k) ELSE 0
         /\ Before(k + 1) =< PerRow
  <1>1. Iterations \in Nat
    BY BuildReportAssumption
  <1>2. /\ Before(1) = 0 /\ Before(2) = 0 /\ Before(3) = 0 /\ Before(4) = Iterations
        /\ Before(5) = Iterations + 1 /\ Before(6) = 2 * Iterations + 1
        /\ Before(7) = 2 * Iterations + 2 /\ Before(8) = 3 * Iterations + 2
        /\ Before(9) = 3 * Iterations + 2 /\ Before(10) = 3 * Iterations + 3
        /\ Before(11) = PerRow /\ Before(12) = PerRow /\ Before(13) = PerRow
    BY DEF Before
  <1>3. \/ k = 1 \/ k = 2 \/ k = 3 \/ k = 4 \/ k = 5 \/ k = 6 \/ k = 7 \/ k = 8
        \/ k = 9 \/ k = 10 \/ k = 11 \/ k = 12
    OBVIOUS
  <1>4. /\ Before(k) \in Nat /\ Before(k + 1) \in Nat /\ Before(k + 1) =< PerRow
    BY <1>1, <1>2, <1>3 DEF PerRow
  <1>5. TurnsOf(k) \in Nat
    BY <1>1 DEF TurnsOf
  <1>6. Before(k + 1) = Before(k) + IF Fetches(k) THEN TurnsOf(k) ELSE 0
    BY <1>1, <1>2, <1>3 DEF PerRow, TurnsOf, Fetches
  <1> QED
    BY <1>4, <1>5, <1>6

(* A GET is one more, another operation is not. *)
LEMMA OperationGets ==
  ASSUME NEW k \in 1 .. 12, NEW l,
         IF Fetches(k) THEN OneGet(l) /\ l.count = TurnsOf(k) ELSE NoGet(l),
         NEW t \in Nat, t < l.count, NEW o \in Nat, o < Len(l.ops), Len(l.ops) \in Nat
  PROVE  /\ RowGets(k, t, o) \in Nat
         /\ l.ops[o + 1] = "get" =>
              RowGets(k, t, o + 1) = RowGets(k, t, o) + 1 /\ RowGets(k, t, o) < PerRow
         /\ l.ops[o + 1] # "get" => RowGets(k, t, o + 1) = RowGets(k, t, o)
  <1>1. /\ Before(k) \in Nat /\ Before(k + 1) \in Nat /\ TurnsOf(k) \in Nat
        /\ Before(k + 1) = Before(k) + IF Fetches(k) THEN TurnsOf(k) ELSE 0
        /\ Before(k + 1) =< PerRow /\ PerRow \in Nat
    <2>1. PerRow \in Nat
      BY BuildReportAssumption DEF PerRow
    <2> QED
      BY <2>1, LoopGets
  <1>2. IF Fetches(k) THEN OneGet(l) /\ l.count = TurnsOf(k) ELSE NoGet(l)
    OBVIOUS
  <1>3. RowGets(k, t, o) \in Nat
    BY <1>1 DEF RowGets
  <1>4. CASE ~Fetches(k)
    <2>1. l.ops[o + 1] # "get"
      BY <1>2, <1>4 DEF NoGet
    <2> QED
      BY <1>3, <1>4, <2>1 DEF RowGets
  <1>5. CASE Fetches(k) /\ o = 0
    <2>1. l.ops[o + 1] = "get"
      BY <1>2, <1>5 DEF OneGet
    <2>2. RowGets(k, t, o) = Before(k) + t /\ RowGets(k, t, o + 1) = Before(k) + t + 1
      BY <1>1, <1>5 DEF RowGets
    <2>3. Before(k) + t < Before(k + 1)
      BY <1>1, <1>2, <1>5
    <2>4. Before(k) + t < PerRow
      BY <1>1, <2>3
    <2> QED
      BY <1>1, <1>3, <2>1, <2>2, <2>4
  <1>6. CASE Fetches(k) /\ o > 0
    <2>1. o + 1 \in 2 .. Len(l.ops)
      BY <1>6
    <2>2. l.ops[o + 1] # "get"
      BY <1>2, <1>6, <2>1 DEF OneGet
    <2> QED
      BY <1>3, <1>6, <2>2 DEF RowGets
  <1> QED
    BY <1>4, <1>5, <1>6

(* The end of a turn, and of a loop, leaves the count as it is. *)
LEMMA TurnGets ==
  ASSUME NEW s, Shape(s), NEW k \in 1 .. 12, NEW t \in Nat, Len(s[k].ops) \in Nat
  PROVE  RowGets(k, t + 1, 0) = RowGets(k, t, Len(s[k].ops))
  <1>1. Before(k) \in Nat
    BY LoopGets
  <1>2. Fetches(k) => Len(s[k].ops) > 0
    BY DEF Shape, OneGet
  <1> QED
    BY <1>1, <1>2 DEF RowGets

LEMMA LoopEndGets ==
  ASSUME NEW s, Shape(s), NEW k \in 1 .. 12
  PROVE  RowGets(k + 1, 0, 0) = RowGets(k, s[k].count, 0)
  <1>1. /\ Before(k) \in Nat /\ Before(k + 1) \in Nat /\ TurnsOf(k) \in Nat
        /\ Before(k + 1) = Before(k) + IF Fetches(k) THEN TurnsOf(k) ELSE 0
    BY LoopGets
  <1>2. Fetches(k) => s[k].count = TurnsOf(k)
    BY DEF Shape
  <1> QED
    BY <1>1, <1>2 DEF RowGets

LEMMA RowStartGets ==
  /\ RowGets(1, 0, 0) = 0
  /\ \A t, o \in Nat : RowGets(13, t, o) = PerRow
  <1>1. Before(1) = 0 /\ Before(13) = PerRow /\ ~Fetches(1) /\ ~Fetches(13)
        /\ PerRow \in Nat
    BY BuildReportAssumption DEF Before, Fetches, PerRow
  <1> QED
    BY <1>1 DEF RowGets

-----------------------------------------------------------------------------
(* The GETs of the run. *)

S2Tier == IF args.tier = "all" THEN 3 ELSE 1

(* The rows of S2 that come before position a of the matrix. *)
Done(a) ==
    IF a.tier < S2Tier THEN 0
    ELSE IF a.tier = S2Tier THEN (a.profile - 1) * F + (a.format - 1)
    ELSE P * F

GetsInv ==
    /\ pc = "start" \/ ~NeedsRegistry => gets = 0
    /\ NeedsRegistry /\ pc \in {"start", "row"} =>
         gets = Done(at) * PerRow
                  + IF CurrentTier = "S2" THEN RowGets(loop, turn, op) ELSE 0
    /\ NeedsRegistry /\ at.tier = T + 1 => gets = (P * F) * PerRow

(* The registry is stopped after the matrix only, and only if it was needed. *)
LifeInv ==
    /\ pc = "start" \/ ~NeedsRegistry => registry = "none"
    /\ NeedsRegistry /\ pc \in {"late", "returned"} => registry = "stopped"
    /\ registry = "stopped" => pc \in {"late", "returned", "raised"}

LEMMA WhereS2Is ==
  ASSUME MatrixInv, NeedsRegistry
  PROVE  /\ S2Tier \in 1 .. T /\ T \in Nat
         /\ at.tier =< T => (CurrentTier = "S2" <=> at.tier = S2Tier)
  <1>1. args.tier \in TierSet \cup {"all"} /\ at.tier \in 1 .. T + 1
    BY DEF MatrixInv, ReportTier, TierSet
  <1>2. CASE args.tier = "all"
    <2>1. TiersLoop = Tiers /\ T = 5 /\ S2Tier = 3
      BY <1>2 DEF TiersLoop, Tiers, T, S2Tier
    <2>2. ASSUME at.tier =< T PROVE CurrentTier = "S2" <=> at.tier = S2Tier
      <3>1. at.tier \in {1, 2, 3, 4, 5}
        BY <1>1, <2>1, <2>2
      <3> QED
        BY <2>1, <3>1 DEF CurrentTier, Tiers
    <2> QED
      BY <2>1, <2>2
  <1>3. CASE args.tier # "all"
    <2>1. TiersLoop = <<args.tier>> /\ T = 1 /\ S2Tier = 1
      BY <1>3 DEF TiersLoop, T, S2Tier
    <2>2. args.tier = "S2"
      <3>1. PICK i \in DOMAIN TiersLoop : TiersLoop[i] = "S2"
        BY DEF NeedsRegistry
      <3>2. i = 1
        BY <2>1, <3>1
      <3> QED
        BY <2>1, <3>1, <3>2
    <2>3. at.tier =< T => at.tier = 1 /\ CurrentTier = "S2"
      BY <1>1, <2>1, <2>2 DEF CurrentTier
    <2> QED
      BY <2>1, <2>3
  <1> QED
    BY <1>2, <1>3

LEMMA DoneCounts ==
  ASSUME NEW a \in [tier : 1 .. T + 1, profile : 1 .. P, format : 1 .. F],
         T \in Nat, S2Tier \in 1 .. T
  PROVE  /\ Done(a) \in Nat
         /\ a.tier = S2Tier => Done(a) + 1 =< P * F
         /\ a.tier = T + 1 => Done(a) = P * F
  <1>1. P \in Nat \ {0} /\ F \in Nat \ {0}
    BY BuildReportAssumption DEF P, F
  <1>2. PICK t \in 1 .. T + 1, p \in 1 .. P, f \in 1 .. F :
          a = [tier |-> t, profile |-> p, format |-> f]
    OBVIOUS
  <1> HIDE DEF P, F
  <1> DEFINE x == (p - 1) * F
  <1>3. x \in Nat /\ P * F \in Nat /\ x + F =< P * F
    <2>1. p * F =< P * F
      BY <1>1
    <2>2. x + F = p * F /\ x \in Nat
      BY <1>1
    <2> QED
      BY <1>1, <2>1, <2>2
  <1>4. Done(a) = IF t < S2Tier THEN 0 ELSE IF t = S2Tier THEN x + (f - 1) ELSE P * F
    BY <1>2 DEF Done
  <1> HIDE DEF x
  <1>5. a.tier = t
    BY <1>2
  <1>6. t = S2Tier => x + (f - 1) \in Nat /\ x + (f - 1) + 1 =< P * F
    BY <1>1, <1>3
  <1> QED
    BY <1>3, <1>4, <1>5, <1>6

LEMMA DoneAdvances ==
  ASSUME NEW a \in [tier : 1 .. T + 1, profile : 1 .. P, format : 1 .. F],
         T \in Nat, S2Tier \in 1 .. T, a.tier =< T
  PROVE  Done(Advance(a)) = Done(a) + IF a.tier = S2Tier THEN 1 ELSE 0
  <1>1. P \in Nat \ {0} /\ F \in Nat \ {0}
    BY BuildReportAssumption DEF P, F
  <1>2. PICK t \in 1 .. T + 1, p \in 1 .. P, f \in 1 .. F :
          a = [tier |-> t, profile |-> p, format |-> f]
    OBVIOUS
  <1>3. Done(a) = IF t < S2Tier THEN 0
                  ELSE IF t = S2Tier THEN (p - 1) * F + (f - 1) ELSE P * F
    BY <1>2 DEF Done
  <1>4. t =< T /\ a.tier = t
    BY <1>2
  <1>5. (p - 1) * F \in Int /\ P * F \in Int
    BY <1>1
  <1>6. CASE f < F
    <2>1. Advance(a) = [tier |-> t, profile |-> p, format |-> f + 1]
      BY <1>1, <1>2, <1>6 DEF Advance, F
    <2> HIDE DEF P, F
    <2>2. Done(Advance(a)) = IF t < S2Tier THEN 0
                             ELSE IF t = S2Tier THEN (p - 1) * F + f ELSE P * F
      BY <2>1 DEF Done
    <2> QED
      BY <1>3, <1>4, <1>5, <2>2
  <1>7. CASE f = F /\ p < P
    <2>a. /\ ~(a.format < F) /\ a.profile < P
          /\ a.tier = t /\ a.profile = p
      BY <1>1, <1>2, <1>7
    <2>b. Advance(a) = [a EXCEPT !.profile = @ + 1, !.format = 1]
      BY <2>a DEF Advance, F, P
    <2>1. Advance(a) = [tier |-> t, profile |-> p + 1, format |-> 1]
      BY <1>2, <2>b
    <2> HIDE DEF P, F
    <2>2. Done(Advance(a)) = IF t < S2Tier THEN 0
                             ELSE IF t = S2Tier THEN p * F + 0 ELSE P * F
      BY <2>1 DEF Done
    <2>3. p * F = (p - 1) * F + F /\ p * F \in Int
      BY <1>1
    <2> QED
      BY <1>1, <1>3, <1>4, <1>5, <1>7, <2>2, <2>3
  <1>8. CASE f = F /\ p = P
    <2>1. Advance(a) = [tier |-> t + 1, profile |-> 1, format |-> 1]
      BY <1>1, <1>2, <1>8 DEF Advance, F, P
    <2> HIDE DEF P, F
    <2>2. Done(Advance(a)) = IF t + 1 < S2Tier THEN 0
                             ELSE IF t + 1 = S2Tier THEN (1 - 1) * F + (1 - 1) ELSE P * F
      BY <2>1 DEF Done
    <2>3. P * F = (P - 1) * F + F /\ (1 - 1) * F + (1 - 1) = 0
      BY <1>1
    <2>4. Done(a) = IF t < S2Tier THEN 0
                    ELSE IF t = S2Tier THEN P * F - 1 ELSE P * F
      BY <1>1, <1>3, <1>5, <1>8, <2>3
    <2> QED
      BY <1>1, <1>4, <1>5, <2>2, <2>3, <2>4
  <1> QED
    BY <1>1, <1>6, <1>7, <1>8

LEMMA SameRun ==
  ASSUME [Next]_vars
  PROVE  /\ args' = args /\ NeedsRegistry' = NeedsRegistry
         /\ T' = T /\ S2Tier' = S2Tier /\ \A a : Done(a)' = Done(a)
  <1>1. args' = args
    BY DEF Next, Work, Fault, StartRegistry, Operation, EndTurn, EndLoop, EndRow,
           StopRegistry, LateStep, Return, StartRaises, RowRaises, LateRaises, vars
  <1> QED
    BY <1>1 DEF NeedsRegistry, TiersLoop, T, S2Tier, Done

(* In a row of S2 the loops are those of its program. *)
LEMMA InS2 ==
  ASSUME MatrixInv, Ready, Place, pc \in {"start", "row"}, CurrentTier = "S2"
  PROVE  /\ Shape(RowProgram) /\ loop \in 1 .. 13 /\ turn \in Nat /\ op \in Nat
         /\ loop \in 1 .. 12 => /\ Len(RowProgram[loop].ops) \in Nat
                                /\ AtOp(RowProgram[loop], turn, op, buf)
  <1>1. Shape(RowProgram)
    BY ShapeOfS2 DEF MatrixInv, ArgsType, RowProgram
  <1>2. Len(RowProgram) = 12
    BY <1>1 DEF Shape
  <1>3. /\ loop \in 1 .. 12 + 1 /\ turn \in Nat /\ op \in Nat
        /\ loop =< 12 => AtOp(RowProgram[loop], turn, op, buf)
    BY <1>2 DEF Place
  <1>4. ASSUME loop \in 1 .. 12 PROVE Len(RowProgram[loop].ops) \in Nat
    <2>1. RowProgram[loop] \in LoopType
      <3>1. loop \in 1 .. Len(RowProgram)
        BY <1>2, <1>4
      <3> QED
        BY <3>1 DEF Ready
    <2> QED
      BY <2>1 DEF LoopType
  <1> QED
    BY <1>1, <1>3, <1>4

(* An operation is a GET of a row of S2, or none. *)
LEMMA OperationFetches ==
  ASSUME MatrixInv, Inv, Ready, Place, Operation
  PROVE  /\ pc = "row" /\ op' = op + 1
         /\ UNCHANGED <<args, at, pc, registry, loop, turn>>
         /\ \/ /\ gets' = gets
               /\ CurrentTier = "S2" =>
                    RowGets(loop, turn, op + 1) = RowGets(loop, turn, op)
            \/ /\ gets' = gets + 1
               /\ registry = "up" /\ NeedsRegistry /\ CurrentTier = "S2"
               /\ RowGets(loop, turn, op + 1) = RowGets(loop, turn, op) + 1
               /\ RowGets(loop, turn, op) \in Nat
               /\ RowGets(loop, turn, op) < PerRow
  <1> DEFINE l == RowProgram[loop]
             o == l.ops[op + 1]
  <1>1. /\ pc = "row" /\ loop =< Len(RowProgram) /\ turn < l.count /\ op < Len(l.ops)
        /\ op' = op + 1 /\ UNCHANGED <<args, at, pc, registry, loop, turn>>
        /\ gets' = IF o = "get" THEN gets + 1 ELSE gets
        /\ o = "get" => registry = "up"
    BY DEF Operation, InTurn, InRow, CurrentLoop, RowProgram, Applies
  <1>2. CASE CurrentTier = "S2"
    <2>1. /\ Shape(RowProgram) /\ loop \in 1 .. 13 /\ turn \in Nat /\ op \in Nat
          /\ loop \in 1 .. 12 => Len(l.ops) \in Nat
      BY <1>1, <1>2, InS2
    <2>2. loop \in 1 .. 12
      BY <1>1, <2>1 DEF Shape
    <2>3. /\ RowGets(loop, turn, op) \in Nat
          /\ o = "get" =>
               /\ RowGets(loop, turn, op + 1) = RowGets(loop, turn, op) + 1
               /\ RowGets(loop, turn, op) < PerRow
          /\ o # "get" => RowGets(loop, turn, op + 1) = RowGets(loop, turn, op)
      <3>1. /\ turn < l.count /\ op < Len(l.ops) /\ Len(l.ops) \in Nat
            /\ Shape(RowProgram) /\ turn \in Nat /\ op \in Nat
        BY <1>1, <2>1, <2>2
      <3>2. IF Fetches(loop) THEN OneGet(l) /\ l.count = TurnsOf(loop) ELSE NoGet(l)
        BY <2>2, <3>1 DEF Shape
      <3> HIDE DEF l
      <3>3. RowGets(loop, turn, op) \in Nat
        BY <2>2, <3>1, <3>2, OperationGets
      <3>4. l.ops[op + 1] = "get" =>
              RowGets(loop, turn, op + 1) = RowGets(loop, turn, op) + 1
        BY <2>2, <3>1, <3>2, OperationGets
      <3>5. l.ops[op + 1] = "get" => RowGets(loop, turn, op) < PerRow
        BY <2>2, <3>1, <3>2, OperationGets
      <3>6. l.ops[op + 1] # "get" =>
              RowGets(loop, turn, op + 1) = RowGets(loop, turn, op)
        BY <2>2, <3>1, <3>2, OperationGets
      <3> QED
        BY <3>3, <3>4, <3>5, <3>6
    <2>4. registry = "up" => NeedsRegistry
      BY DEF Inv
    <2> HIDE DEF o
    <2> QED
      BY <1>1, <1>2, <2>3, <2>4
  <1>3. CASE CurrentTier # "S2"
    <2>1. loop \in 1 .. Len(RowProgram)
      BY <1>1 DEF Place, Ready
    <2>2. GoodLoop(l, CurrentTier)
      BY <1>1, <2>1 DEF Ready
    <2>3. "get" \notin OpsOf(l.ops) /\ Len(l.ops) \in Nat /\ op \in Nat
      BY <1>1, <1>3, <2>2 DEF GoodLoop, LoopType, Place
    <2>4. o # "get"
      BY <1>1, <2>3 DEF OpsOf
    <2> HIDE DEF o
    <2> QED
      BY <1>1, <1>3, <2>4
  <1> QED
    BY <1>2, <1>3

LEMMA InitGets == Init => GetsInv /\ LifeInv
  <1> SUFFICES ASSUME Init PROVE GetsInv /\ LifeInv
    OBVIOUS
  <1>1. /\ pc = "start" /\ gets = 0 /\ registry = "none"
        /\ at = [tier |-> 1, profile |-> 1, format |-> 1]
        /\ loop = 1 /\ turn = 0 /\ op = 0
    BY DEF Init
  <1>2. MatrixInv
    BY InitMatrix
  <1>3. T >= 1 /\ T \in Nat
    BY <1>2, TierCount DEF MatrixInv
  <1>4. ASSUME NeedsRegistry PROVE Done(at) = 0
    <2>1. S2Tier \in 1 .. T
      BY <1>2, <1>4, WhereS2Is
    <2>2. F \in Nat
      BY BuildReportAssumption DEF F
    <2> QED
      BY <1>1, <1>3, <2>1, <2>2 DEF Done
  <1>5. PerRow \in Nat
    BY BuildReportAssumption DEF PerRow
  <1>6. at.tier # T + 1
    BY <1>1, <1>3
  <1> QED
    BY <1>1, <1>4, <1>5, <1>6, RowStartGets DEF GetsInv, LifeInv

LEMMA NextLife == Inv /\ LifeInv /\ [Next]_vars => LifeInv'
  <1> SUFFICES ASSUME Inv, LifeInv, [Next]_vars PROVE LifeInv'
    OBVIOUS
  <1>1. NeedsRegistry' = NeedsRegistry
    BY SameRun
  <1> HIDE DEF NeedsRegistry
  <1> USE <1>1 DEF LifeInv, Inv
  <1>2. CASE StartRegistry
    BY <1>2 DEF StartRegistry
  <1>3. CASE Operation \/ EndTurn \/ EndLoop
    <2>1. UNCHANGED <<pc, registry>>
      BY <1>3 DEF Operation, EndTurn, EndLoop
    <2> QED
      BY <2>1
  <1>4. CASE EndRow
    <2>1. pc = "row" /\ pc' \in {"row", "finally"} /\ registry' = registry
      BY <1>4 DEF EndRow
    <2> QED
      BY <2>1
  <1>5. CASE StopRegistry
    <2>1. pc = "finally" /\ pc' \in {"late", "raised"}
          /\ registry' = IF registry = "up" THEN "stopped" ELSE registry
      BY <1>5 DEF StopRegistry
    <2> QED
      BY <2>1
  <1>6. CASE LateStep \/ Return \/ LateRaises
    BY <1>6 DEF LateStep, Return, LateRaises
  <1>7. CASE StartRaises
    BY <1>7 DEF StartRaises
  <1>8. CASE RowRaises
    <2>1. pc = "row" /\ pc' = "finally" /\ registry' = registry
      BY <1>8 DEF RowRaises, InTurn, InRow
    <2> QED
      BY <2>1
  <1>9. CASE UNCHANGED vars
    BY <1>9 DEF vars
  <1> QED
    BY <1>2, <1>3, <1>4, <1>5, <1>6, <1>7, <1>8, <1>9 DEF Next, Work, Fault

LEMMA NextGets ==
  MatrixInv /\ MatrixInv' /\ Inv /\ Ready /\ Place /\ GetsInv /\ [Next]_vars => GetsInv'
  <1> SUFFICES ASSUME MatrixInv, MatrixInv', Inv, Ready, Place, GetsInv, [Next]_vars
               PROVE  GetsInv'
    OBVIOUS
  <1> DEFINE inRow == IF CurrentTier = "S2" THEN RowGets(loop, turn, op) ELSE 0
  <1>1. /\ args' = args /\ NeedsRegistry' = NeedsRegistry
        /\ T' = T /\ \A a : Done(a)' = Done(a)
    BY SameRun
  <1>2. /\ T \in Nat /\ at \in [tier : 1 .. T + 1, profile : 1 .. P, format : 1 .. F]
        /\ pc \in {"start", "row"} => at.tier =< T
    BY TierCount DEF MatrixInv
  <1>3. PerRow \in Nat
    BY BuildReportAssumption DEF PerRow
  <1> HIDE DEF NeedsRegistry
  <1>4. CASE StartRegistry
    <2>1. pc = "start" /\ pc' = "row" /\ UNCHANGED <<args, at, loop, turn, op, gets>>
      BY <1>4 DEF StartRegistry, rowVars
    <2>2. CurrentTier' = CurrentTier /\ Done(at)' = Done(at)
          /\ RowGets(loop, turn, op)' = RowGets(loop, turn, op)
      BY <2>1, SameProgram DEF Done, S2Tier, RowGets, Before, Fetches
    <2> QED
      BY <1>1, <2>1, <2>2 DEF GetsInv
  <1>5. CASE Operation
    <2>1. /\ pc = "row" /\ op' = op + 1 /\ UNCHANGED <<args, at, pc, registry, loop, turn>>
          /\ \/ /\ gets' = gets
                /\ CurrentTier = "S2" =>
                     RowGets(loop, turn, op + 1) = RowGets(loop, turn, op)
             \/ /\ gets' = gets + 1 /\ NeedsRegistry /\ CurrentTier = "S2"
                /\ RowGets(loop, turn, op + 1) = RowGets(loop, turn, op) + 1
                /\ RowGets(loop, turn, op) \in Nat
      BY <1>5, OperationFetches
    <2>2. CurrentTier' = CurrentTier /\ Done(at)' = Done(at)
          /\ RowGets(loop, turn, op)' = RowGets(loop, turn, op + 1)
      BY <2>1, SameProgram DEF Done, S2Tier, RowGets, Before, Fetches
    <2>3. at.tier # T + 1
      BY <1>2, <2>1
    <2>4. ~NeedsRegistry => gets' = 0
      BY <2>1 DEF GetsInv
    <2>5. ASSUME NeedsRegistry
          PROVE  gets' = Done(at) * PerRow
                           + IF CurrentTier = "S2" THEN RowGets(loop, turn, op + 1) ELSE 0
      <3>1. gets = Done(at) * PerRow + inRow
        BY <2>1, <2>5 DEF GetsInv
      <3>2. Done(at) \in Nat
        BY <1>2, <2>5, WhereS2Is, DoneCounts
      <3>3. Done(at) * PerRow \in Nat
        BY <1>3, <3>2
      <3> DEFINE x == Done(at) * PerRow
      <3>4. x \in Nat /\ gets = x + inRow
        BY <3>1, <3>3
      <3> HIDE DEF x
      <3>5. gets' = x + IF CurrentTier = "S2" THEN RowGets(loop, turn, op + 1) ELSE 0
        BY <2>1, <3>4
      <3> QED
        BY <3>5 DEF x
    <2> QED
      BY <1>1, <2>1, <2>2, <2>3, <2>4, <2>5 DEF GetsInv
  <1>6. CASE EndTurn \/ EndLoop
    <2>1. /\ pc = "row" /\ loop =< Len(RowProgram) /\ UNCHANGED <<args, at, pc, gets>>
          /\ \/ /\ op = Len(RowProgram[loop].ops)
                /\ loop' = loop /\ turn' = turn + 1 /\ op' = 0
             \/ /\ turn = RowProgram[loop].count
                /\ loop' = loop + 1 /\ turn' = 0 /\ op' = op
      BY <1>6 DEF EndTurn, EndLoop, InTurn, InRow, CurrentLoop, RowProgram
    <2>2. CurrentTier' = CurrentTier /\ Done(at)' = Done(at)
          /\ RowGets(loop, turn, op)' = RowGets(loop', turn', op')
      BY <2>1, SameProgram DEF Done, S2Tier, RowGets, Before, Fetches
    <2>3. at.tier # T + 1
      BY <1>2, <2>1
    <2>4. CurrentTier = "S2" => RowGets(loop', turn', op') = RowGets(loop, turn, op)
      <3> SUFFICES ASSUME CurrentTier = "S2"
                   PROVE  RowGets(loop', turn', op') = RowGets(loop, turn, op)
        OBVIOUS
      <3>1. /\ Shape(RowProgram) /\ loop \in 1 .. 13 /\ turn \in Nat /\ op \in Nat
            /\ loop \in 1 .. 12 => /\ Len(RowProgram[loop].ops) \in Nat
                                   /\ AtOp(RowProgram[loop], turn, op, buf)
        BY <2>1, InS2
      <3>2. loop \in 1 .. 12
        BY <2>1, <3>1 DEF Shape
      <3>3. turn = RowProgram[loop].count => op = 0
        BY <3>1, <3>2 DEF AtOp
      <3> QED
        BY <2>1, <3>1, <3>2, <3>3, TurnGets, LoopEndGets
    <2> QED
      BY <1>1, <2>1, <2>2, <2>3, <2>4 DEF GetsInv
  <1>7. CASE EndRow
    <2>1. /\ pc = "row" /\ loop > Len(RowProgram)
          /\ at' = Advance(at) /\ gets' = gets /\ pc' \in {"row", "finally"}
          /\ loop' = 1 /\ turn' = 0 /\ op' = 0
      BY <1>7 DEF EndRow, RowStart, RowProgram
    <2>2. ~NeedsRegistry => gets' = 0
      BY <2>1 DEF GetsInv
    <2>3. ASSUME NeedsRegistry PROVE gets' = Done(at') * PerRow /\ Done(at') \in Nat
      <3>1. /\ S2Tier \in 1 .. T /\ at.tier =< T
            /\ CurrentTier = "S2" <=> at.tier = S2Tier
        BY <1>2, <2>1, <2>3, WhereS2Is
      <3>2. Done(at') = Done(at) + IF CurrentTier = "S2" THEN 1 ELSE 0
        BY <1>2, <2>1, <3>1, DoneAdvances
      <3>3. Done(at) \in Nat
        BY <1>2, <3>1, DoneCounts
      <3>4. CurrentTier = "S2" => RowGets(loop, turn, op) = PerRow
        <4> SUFFICES ASSUME CurrentTier = "S2" PROVE RowGets(loop, turn, op) = PerRow
          OBVIOUS
        <4>1. Shape(RowProgram) /\ loop \in 1 .. 13 /\ turn \in Nat /\ op \in Nat
          BY <2>1, InS2
        <4>2. loop = 13
          BY <2>1, <4>1 DEF Shape
        <4> QED
          BY <4>1, <4>2, RowStartGets
      <3>5. gets = Done(at) * PerRow + IF CurrentTier = "S2" THEN PerRow ELSE 0
        BY <2>1, <2>3, <3>4 DEF GetsInv
      <3>6. (Done(at) + 1) * PerRow = Done(at) * PerRow + PerRow
        BY <1>3, <3>3
      <3>7. Done(at) * PerRow + 0 = Done(at) * PerRow /\ Done(at) + 0 = Done(at)
        BY <1>3, <3>3
      <3> QED
        BY <2>1, <3>2, <3>3, <3>5, <3>6, <3>7
    <2>4. Done(at)' = Done(at')
      BY <1>1 DEF Done, S2Tier
    <2>5. RowGets(loop, turn, op)' = 0
      BY <2>1, RowStartGets DEF RowGets, Before, Fetches
    <2>6. NeedsRegistry /\ at'.tier = T + 1 => Done(at') = P * F
      <3>1. at' \in [tier : 1 .. T + 1, profile : 1 .. P, format : 1 .. F]
        BY <1>1, <1>2 DEF MatrixInv
      <3> QED
        BY <1>2, <3>1, WhereS2Is, DoneCounts
    <2>7. NeedsRegistry => Done(at') * PerRow + 0 = Done(at') * PerRow
      BY <1>3, <2>3
    <2> QED
      BY <1>1, <2>1, <2>2, <2>3, <2>4, <2>5, <2>6, <2>7 DEF GetsInv
  <1>8. CASE StopRegistry \/ LateStep \/ Return \/ StartRaises \/ RowRaises \/ LateRaises
    <2>1. pc' \notin {"start", "row"} /\ UNCHANGED <<at, gets>>
      BY <1>8 DEF StopRegistry, LateStep, Return, StartRaises, RowRaises, LateRaises
    <2> QED
      BY <1>1, <2>1 DEF GetsInv
  <1>9. CASE UNCHANGED vars
    <2>1. UNCHANGED <<args, at, pc, gets, loop, turn, op>>
      BY <1>9 DEF vars, rowVars
    <2>2. CurrentTier' = CurrentTier /\ Done(at)' = Done(at)
          /\ RowGets(loop, turn, op)' = RowGets(loop, turn, op)
      BY <2>1, SameProgram DEF Done, S2Tier, RowGets, Before, Fetches
    <2> QED
      BY <1>1, <2>1, <2>2 DEF GetsInv
  <1> QED
    BY <1>4, <1>5, <1>6, <1>7, <1>8, <1>9 DEF Next, Work, Fault

-----------------------------------------------------------------------------
(* The run of build_report as a run of the abstract service. *)

Life ==
    IF registry = "none"
    THEN IF pc = "raised" THEN "aborted" ELSE "absent"
    ELSE IF registry = "up" THEN "serving"
    ELSE IF MatrixDone THEN "complete" ELSE "aborted"

(* The steps that the service does not see. *)
LEMMA SameLife ==
  ASSUME Inv, LifeInv, [Next]_vars,
         EndTurn \/ EndLoop \/ EndRow \/ RowRaises \/ LateStep \/ Return
           \/ UNCHANGED vars
  PROVE  Life' = Life /\ gets' = gets
  <1>1. registry \in {"none", "up", "stopped"} /\ T' = T
    BY SameRun DEF Inv
  <1>2. CASE EndTurn \/ EndLoop \/ EndRow \/ RowRaises
    <2>1. /\ pc = "row" /\ pc' \in {"row", "finally"}
          /\ registry' = registry /\ gets' = gets
      BY <1>2 DEF EndTurn, EndLoop, EndRow, RowRaises, InTurn, InRow
    <2>2. registry # "stopped"
      BY <2>1 DEF LifeInv
    <2> QED
      BY <1>1, <2>1, <2>2 DEF Life
  <1>3. CASE LateStep \/ Return
    <2>1. pc = "late" /\ pc' \in {"late", "returned"} /\ UNCHANGED <<registry, gets, at>>
      BY <1>3 DEF LateStep, Return
    <2> QED
      BY <1>1, <2>1 DEF Life, MatrixDone, T
  <1>4. CASE UNCHANGED vars
    <2>1. UNCHANGED <<pc, registry, gets, at>>
      BY <1>4 DEF vars
    <2> QED
      BY <1>1, <2>1 DEF Life, MatrixDone, T
  <1> QED
    BY <1>2, <1>3, <1>4

(* While a row is run there is a GET left for each that its program does. *)
LEMMA GetsLeft ==
  ASSUME MatrixInv, GetsInv, pc = "row", NeedsRegistry, CurrentTier = "S2",
         RowGets(loop, turn, op) \in Nat, RowGets(loop, turn, op) < PerRow
  PROVE  gets < (P * F) * PerRow
  <1> DEFINE d == Done(at)
             r == RowGets(loop, turn, op)
  <1>1. /\ T \in Nat /\ at \in [tier : 1 .. T + 1, profile : 1 .. P, format : 1 .. F]
        /\ S2Tier \in 1 .. T /\ at.tier = S2Tier
    <2>1. at.tier =< T
      BY TierCount DEF MatrixInv
    <2> QED
      BY <2>1, TierCount, WhereS2Is DEF MatrixInv
  <1>2. d \in Nat /\ d + 1 =< P * F
    BY <1>1, DoneCounts
  <1>3. gets = d * PerRow + r
    BY DEF GetsInv
  <1>4. PerRow \in Nat /\ P * F \in Nat
    BY BuildReportAssumption DEF PerRow, P, F
  <1> HIDE DEF d, r
  <1> DEFINE n == P * F
  <1>5. n \in Nat /\ d + 1 =< n
    BY <1>2, <1>4
  <1> HIDE DEF n
  <1>6. (d + 1) * PerRow =< n * PerRow
    BY <1>2, <1>4, <1>5
  <1>7. (d + 1) * PerRow = d * PerRow + PerRow /\ d * PerRow \in Nat
        /\ n * PerRow \in Nat
    BY <1>2, <1>4, <1>5
  <1>8. r \in Nat /\ r < PerRow
    BY DEF r
  <1>9. gets < n * PerRow
    BY <1>3, <1>4, <1>6, <1>7, <1>8
  <1> QED
    BY <1>9 DEF n

LEMMA NextService ==
  ASSUME MatrixInv, Inv, Ready, Place, GetsInv, LifeInv, Inv', LifeInv', [Next]_vars
  PROVE  [Service!Next]_(Service!svcVars)
  <1>1. /\ NeedsRegistry' = NeedsRegistry /\ T' = T
        /\ registry \in {"none", "up", "stopped"}
    BY SameRun DEF Inv
  <1>2. ASSUME Life' = Life, gets' = gets
        PROVE  [Service!Next]_(Service!svcVars)
    BY <1>2 DEF Life, Service!svcVars
  <1>3. ASSUME Life = "absent", Life' \in {"serving", "aborted"}, gets' = gets
        PROVE  Service!Next
    BY <1>3 DEF Life, Service!Next, Service!Open, Service!CannotOpen
  <1>4. ASSUME Life = "serving", Life' = "aborted", gets' = gets
        PROVE  Service!Next
    BY <1>4 DEF Life, Service!Next, Service!Abort
  <1>5. CASE StartRegistry
    <2>1. /\ pc = "start" /\ pc' = "row" /\ registry = "none" /\ gets' = gets
          /\ registry' = IF NeedsRegistry THEN "up" ELSE "none"
      BY <1>5 DEF StartRegistry, LifeInv
    <2>2. Life = "absent" /\ Life' \in {"absent", "serving"}
      BY <2>1 DEF Life
    <2> QED
      BY <1>2, <1>3, <2>1, <2>2
  <1>6. CASE StartRaises
    <2>1. /\ pc = "start" /\ pc' = "raised" /\ registry = "none"
          /\ registry' = registry /\ gets' = gets
      BY <1>6 DEF StartRaises, LifeInv
    <2>2. Life = "absent" /\ Life' = "aborted"
      BY <2>1 DEF Life
    <2> QED
      BY <1>3, <2>1, <2>2
  <1>7. CASE Operation
    <2>1. pc = "row" /\ UNCHANGED <<pc, registry>>
      BY <1>7, OperationFetches
    <2>2. registry # "stopped"
      BY <2>1 DEF LifeInv
    <2>3. Life' = Life
      BY <1>1, <2>1, <2>2 DEF Life
    <2>4. CASE gets' = gets
      BY <1>2, <2>3, <2>4
    <2>5. CASE gets' # gets
      <3>1. /\ gets' = gets + 1 /\ registry = "up"
            /\ NeedsRegistry /\ CurrentTier = "S2"
            /\ RowGets(loop, turn, op) \in Nat /\ RowGets(loop, turn, op) < PerRow
        BY <1>7, <2>5, OperationFetches
      <3>2. gets < (P * F) * PerRow
        BY <2>1, <3>1, GetsLeft
      <3>3. gets < Len(Profiles) * Len(Formats) * (4 * Iterations + 3)
        BY <3>2 DEF P, F, PerRow
      <3>4. Life = "serving"
        BY <3>1 DEF Life
      <3> QED
        BY <2>3, <3>1, <3>3, <3>4 DEF Life, Service!Next, Service!Answer
    <2> QED
      BY <2>4, <2>5
  <1>8. CASE StopRegistry
    <2>1. /\ pc = "finally" /\ at' = at /\ args' = args /\ gets' = gets
          /\ registry' = IF registry = "up" THEN "stopped" ELSE registry
          /\ pc' = IF MatrixDone THEN "late" ELSE "raised"
      BY <1>8 DEF StopRegistry
    <2>2. registry # "stopped" /\ MatrixDone' = MatrixDone
      BY <1>1, <2>1 DEF LifeInv, MatrixDone, T
    <2>3. CASE registry = "none"
      <3>1. Life = "absent" /\ Life' \in {"absent", "aborted"}
        BY <2>1, <2>3 DEF Life
      <3> QED
        BY <1>2, <1>3, <2>1, <3>1
    <2>4. CASE registry = "up" /\ ~MatrixDone
      <3>1. Life = "serving" /\ Life' = "aborted"
        BY <2>1, <2>2, <2>4 DEF Life
      <3> QED
        BY <1>4, <2>1, <3>1
    <2>5. CASE registry = "up" /\ MatrixDone
      <3>1. Life = "serving" /\ Life' = "complete"
        BY <2>1, <2>2, <2>5 DEF Life
      <3>2. NeedsRegistry /\ at.tier = T + 1
        <4>1. T \in Nat /\ at.tier \in 1 .. T + 1 /\ at.tier > T
          BY <2>5, TierCount DEF MatrixInv, MatrixDone, T
        <4> QED
          BY <2>5, <4>1 DEF Inv
      <3>3. gets = Len(Profiles) * Len(Formats) * (4 * Iterations + 3)
        BY <3>2 DEF GetsInv, P, F, PerRow
      <3> QED
        BY <2>1, <3>1, <3>3 DEF Life, Service!Next, Service!Complete
    <2> QED
      BY <1>1, <2>2, <2>3, <2>4, <2>5
  <1>9. CASE LateRaises
    <2>1. /\ pc = "late" /\ pc' = "raised"
          /\ UNCHANGED <<registry, gets, at, args>>
      BY <1>9 DEF LateRaises
    <2>2. MatrixDone' = MatrixDone
      BY <1>1, <2>1 DEF MatrixDone, T
    <2>3. registry # "up"
      BY <2>1 DEF Inv
    <2>4. CASE registry = "none"
      <3>1. Life = "absent" /\ Life' = "aborted"
        BY <2>1, <2>4 DEF Life
      <3> QED
        BY <1>3, <2>1, <3>1
    <2>5. CASE registry = "stopped"
      <3>1. Life' = Life
        BY <2>1, <2>2, <2>5 DEF Life
      <3> QED
        BY <1>2, <2>1, <3>1
    <2> QED
      BY <1>1, <2>3, <2>4, <2>5
  <1>10. CASE EndTurn \/ EndLoop \/ EndRow \/ RowRaises \/ LateStep \/ Return
                \/ UNCHANGED vars
    BY <1>2, <1>10, SameLife
  <1> QED
    BY <1>5, <1>6, <1>7, <1>8, <1>9, <1>10 DEF Next, Work, Fault

(* build_report uses the registry within its promise: it opens it at most    *)
(* once and before the first row, asks for no more GETs than the rows of S2  *)
(* need, and when it stops the registry after the last row every one of them *)
(* was answered; otherwise the service counts as aborted                     *)
(* (runner.py:904-938).                                                      *)
THEOREM ServiceSafety == Spec => Service!Init /\ [][Service!Next]_(Service!svcVars)
  <1>1. Init => Service!Init
    BY DEF Init, Service!Init
  <1>2. MatrixInv /\ Inv /\ Ready /\ Place /\ GetsInv /\ LifeInv
          /\ Inv' /\ LifeInv' /\ [Next]_vars
          => [Service!Next]_(Service!svcVars)
    BY NextService
  <1> QED
    BY <1>1, <1>2, InitMatrix, NextMatrix, MatrixReady, InitPlace, NextPlace,
       InitInv, NextInv, InitGets, NextGets, NextLife, PTL DEF Spec

-----------------------------------------------------------------------------
(* build_report comes to an end.  Liveness is TLC's; what it rests on is      *)
(* proved here: the thread is never without a step to take, and every step,   *)
(* an exception too, leads on to a place further down in a finite program.    *)

(* The actions of Work that can be taken. *)
WorkCanRun ==
    \/ pc \in {"start", "finally"}
    \/ /\ InTurn /\ op < Len(CurrentLoop.ops)
       /\ Applies(CurrentLoop.ops[op + 1],
                  IF op = 0 THEN CurrentLoop.from ELSE buf)
    \/ InTurn /\ op = Len(CurrentLoop.ops)
    \/ InRow /\ turn = CurrentLoop.count
    \/ pc = "row" /\ loop > Len(Program(CurrentTier))
    \/ pc = "late" /\ (late < Len(LateSteps) \/ late = Len(LateSteps))

NeverHangs == pc \notin {"returned", "raised"} => WorkCanRun

LateInv == late \in 0 .. Len(LateSteps)

LEMMA NextLate == LateInv /\ [Next]_vars => LateInv'
  <1> SUFFICES ASSUME LateInv, [Next]_vars PROVE LateInv'
    OBVIOUS
  <1>1. CASE LateStep
    BY <1>1, BuildReportAssumption DEF LateInv, LateStep
  <1>2. CASE ~LateStep
    <2>1. late' = late
      BY <1>2 DEF Next, Work, Fault, StartRegistry, Operation, EndTurn, EndLoop, EndRow,
           StopRegistry, Return, StartRaises, RowRaises, LateRaises, vars
    <2> QED
      BY <2>1 DEF LateInv
  <1> QED
    BY <1>1, <1>2

(* What the loop of the row's place bounds. *)
LEMMA PlaceBounds ==
  ASSUME Ready, Place, pc = "row"
  PROVE  /\ Len(RowProgram) \in Nat /\ loop \in 1 .. Len(RowProgram) + 1
         /\ loop =< Len(RowProgram) =>
              /\ RowProgram[loop].count \in Nat /\ Len(RowProgram[loop].ops) \in Nat
              /\ turn \in 0 .. RowProgram[loop].count
              /\ op \in 0 .. Len(RowProgram[loop].ops)
  <1>1. Len(RowProgram) \in Nat /\ loop \in 1 .. Len(RowProgram) + 1
        /\ turn \in Nat /\ op \in Nat
    BY DEF Ready, Place
  <1>2. ASSUME loop =< Len(RowProgram)
        PROVE  /\ RowProgram[loop].count \in Nat /\ Len(RowProgram[loop].ops) \in Nat
               /\ turn \in 0 .. RowProgram[loop].count
               /\ op \in 0 .. Len(RowProgram[loop].ops)
    <2> DEFINE l == RowProgram[loop]
    <2>1. loop \in 1 .. Len(RowProgram)
      BY <1>1, <1>2
    <2>2. l \in LoopType
      BY <2>1 DEF Ready
    <2>3. AtOp(l, turn, op, buf)
      BY <1>2 DEF Place
    <2> HIDE DEF l
    <2>4. l.count \in Nat /\ l.ops \in Seq(Ops)
      BY <2>2 DEF LoopType
    <2>5. Len(l.ops) \in Nat /\ turn =< l.count /\ op =< Len(l.ops)
      BY <2>3, <2>4 DEF AtOp
    <2> QED
      BY <1>1, <2>4, <2>5 DEF l
  <1> QED
    BY <1>1, <1>2

(* Until build_report is left, there is a step it can take without an         *)
(* exception: no operation of a row is handed what it cannot take, no loop of *)
(* a row has turns or operations left over, and no late step is passed by     *)
(* (runner.py:876-1022).                                                       *)
THEOREM WorkNeverStops == Spec => []NeverHangs
  <1>1. ASSUME Inv, Ready, Place, OperationsApply, LateInv,
               pc \notin {"returned", "raised"}
        PROVE  WorkCanRun
    <2>1. CASE pc \in {"start", "finally"}
      BY <2>1 DEF WorkCanRun
    <2>2. CASE pc = "late"
      <3>1. late < Len(LateSteps) \/ late = Len(LateSteps)
        BY <1>1, BuildReportAssumption DEF LateInv
      <3> QED
        BY <2>2, <3>1 DEF WorkCanRun
    <2>3. CASE pc = "row"
      <3> DEFINE l == RowProgram[loop]
                 n == Len(l.ops)
      <3>1. /\ Len(RowProgram) \in Nat /\ loop \in 1 .. Len(RowProgram) + 1
            /\ loop =< Len(RowProgram) =>
                 /\ l.count \in Nat /\ n \in Nat
                 /\ turn \in 0 .. l.count /\ op \in 0 .. n
        BY <1>1, <2>3, PlaceBounds
      <3>2. CASE loop > Len(RowProgram)
        BY <2>3, <3>2 DEF WorkCanRun, RowProgram
      <3>3. CASE loop =< Len(RowProgram)
        <4>1. InRow /\ CurrentLoop = l
          BY <2>3, <3>3 DEF InRow, CurrentLoop, RowProgram
        <4> HIDE DEF l, n
        <4>2. (turn = l.count \/ turn < l.count) /\ (op < n \/ op = n)
          BY <3>1, <3>3
        <4>3. CASE turn = l.count
          BY <4>1, <4>3 DEF WorkCanRun
        <4>4. CASE turn < l.count
          <5>1. InTurn
            BY <4>1, <4>4 DEF InTurn
          <5>2. CASE op = n
            BY <4>1, <5>1, <5>2 DEF WorkCanRun, n
          <5>3. CASE op < n
            <6>1. op < Len(CurrentLoop.ops)
              BY <4>1, <5>3 DEF n
            <6> QED
              BY <1>1, <5>1, <6>1 DEF WorkCanRun, OperationsApply
          <5> QED
            BY <4>2, <4>4, <5>2, <5>3
        <4> QED
          BY <4>2, <4>3, <4>4
      <3> QED
        BY <3>1, <3>2, <3>3
    <2> QED
      BY <1>1, <2>1, <2>2, <2>3 DEF Inv
  <1>2. Inv /\ Ready /\ Place /\ OperationsApply /\ LateInv => NeverHangs
    BY <1>1 DEF NeverHangs
  <1>3. Init => LateInv
    BY BuildReportAssumption DEF Init, LateInv
  <1> QED
    BY <1>2, <1>3, NextLate, OperationsAlwaysApply, InitInv, NextInv, InitMatrix,
       NextMatrix, MatrixReady, InitPlace, NextPlace, PTL DEF Spec

(* A run's place: its stage, and in it the late step, or the row and of its   *)
(* program the loop, the turn and the operation.                              *)
Stage == IF pc = "start" THEN 0 ELSE IF pc = "row" THEN 1
         ELSE IF pc = "finally" THEN 2 ELSE IF pc = "late" THEN 3 ELSE 4

RunBounds ==
    /\ Stage \in 0 .. 4
    /\ late \in 0 .. Len(LateSteps)
    /\ Len(rows) \in 0 .. Len(TiersLoop) * Len(Profiles) * Len(Formats)
    /\ pc = "row" =>
         /\ loop \in 1 .. Len(Program(CurrentTier)) + 1
         /\ loop =< Len(Program(CurrentTier)) =>
              turn \in 0 .. CurrentLoop.count /\ op \in 0 .. Len(CurrentLoop.ops)

GoesOn ==
    \/ Stage' > Stage
    \/ pc = "late" /\ UNCHANGED pc /\ late' = late + 1
    \/ /\ pc = "row" /\ UNCHANGED pc
       /\ \/ Len(rows') = Len(rows) + 1
          \/ /\ UNCHANGED <<args, at, rows>>
             /\ \/ loop' = loop + 1
                \/ UNCHANGED loop /\ turn' = turn + 1
                \/ UNCHANGED <<loop, turn>> /\ op' = op + 1

LEMMA Products ==
  ASSUME NEW x \in Nat, NEW y \in Nat, NEW z \in Nat, x =< y
  PROVE  x * z =< y * z /\ x * z \in Nat
  <1>1. y - x \in Nat /\ y = x + (y - x)
    OBVIOUS
  <1>2. \A a, b \in Nat : a * b \in Nat
    OBVIOUS
  <1>3. (x + (y - x)) * z = x * z + (y - x) * z
    BY <1>1
  <1>4. x * z \in Nat /\ (y - x) * z \in Nat
    BY <1>1, <1>2
  <1> QED
    BY <1>1, <1>3, <1>4

(* No cell is counted after the last one of the matrix. *)
LEMMA RowsBound == MatrixInv => Len(rows) \in 0 .. T * P * F
  <1> SUFFICES ASSUME MatrixInv PROVE Len(rows) \in 0 .. T * P * F
    OBVIOUS
  <1>1. P \in Nat \ {0} /\ F \in Nat \ {0} /\ T \in Nat
    BY TierCount, BuildReportAssumption DEF P, F, MatrixInv
  <1>2. PICK t \in 1 .. T + 1, p \in 1 .. P, f \in 1 .. F :
          at = [tier |-> t, profile |-> p, format |-> f]
    BY DEF MatrixInv
  <1>3. t = T + 1 => p = 1 /\ f = 1
    BY <1>2 DEF MatrixInv
  <1>4. Len(rows) = ((t - 1) * P + (p - 1)) * F + (f - 1)
    BY <1>2 DEF MatrixInv, Count, Index
  <1> HIDE DEF P, F, T
  <1>5. \A x, y, z \in Nat : x =< y => x * z =< y * z /\ x * z \in Nat
    BY Products
  <1>6. CASE t = T + 1
    <2>1. Len(rows) = T * P * F
      BY <1>1, <1>3, <1>4, <1>6
    <2>2. T * P \in Nat
      BY <1>1, <1>5
    <2>3. T * P * F \in Nat
      BY <1>1, <1>5, <2>2
    <2> QED
      BY <2>1, <2>3
  <1>7. CASE t =< T
    <2> DEFINE x == (t - 1) * P
               y == T * P
    <2>1. (t - 1) + 1 = t /\ t - 1 \in Nat /\ p - 1 \in Nat /\ f - 1 \in Nat
      BY <1>1
    <2>2. x \in Nat /\ x + P =< y /\ y \in Nat
      <3>1. x + P = t * P
        BY <1>1
      <3>2. t * P =< T * P /\ T * P \in Nat
        BY <1>1, <1>5, <1>7
      <3>3. x \in Nat
        BY <1>1, <1>5, <2>1
      <3> QED
        BY <3>1, <3>2, <3>3
    <2>3. Len(rows) = (x + (p - 1)) * F + (f - 1)
      BY <1>4
    <2> HIDE DEF x, y
    <2>4. x + (p - 1) \in Nat /\ x + p =< y /\ x + p \in Nat
      BY <1>1, <2>1, <2>2
    <2>5. (x + (p - 1)) * F + F = (x + p) * F
      BY <1>1, <2>2
    <2>6. (x + p) * F =< y * F /\ y * F \in Nat /\ (x + (p - 1)) * F \in Nat
      BY <1>1, <1>5, <2>2, <2>4
    <2>7. Len(rows) =< y * F /\ Len(rows) \in Nat
      BY <1>1, <2>1, <2>3, <2>5, <2>6
    <2> QED
      BY <2>6, <2>7 DEF y
  <1> QED
    BY <1>1, <1>6, <1>7

(* Every step, an exception too, leads on: to a later stage, to the next late *)
(* step, or in the matrix to the next row, the next loop of the row, its next *)
(* turn or its next operation, each of them one of as many as the run has.    *)
(* So no loop of build_report (runner.py:876-1022) runs forever, for any       *)
(* matrix, iterations, batches and warm-ups.                                  *)
THEOREM EveryStepCounts == Spec => []RunBounds /\ [][GoesOn]_vars
  <1>1. ASSUME Inv, MatrixInv, Ready, Place, LateInv PROVE RunBounds
    <2>1. Stage \in 0 .. 4
      BY DEF Stage
    <2>2. Len(rows) \in 0 .. Len(TiersLoop) * Len(Profiles) * Len(Formats)
      BY <1>1, RowsBound DEF T, P, F
    <2>3. ASSUME pc = "row"
          PROVE  /\ loop \in 1 .. Len(Program(CurrentTier)) + 1
                 /\ loop =< Len(Program(CurrentTier)) =>
                      /\ turn \in 0 .. CurrentLoop.count
                      /\ op \in 0 .. Len(CurrentLoop.ops)
      BY <1>1, <2>3, PlaceBounds DEF RowProgram, CurrentLoop
    <2> QED
      BY <1>1, <2>1, <2>2, <2>3 DEF RunBounds, LateInv
  <1>2. Inv /\ MatrixInv /\ Ready /\ Place /\ LateInv => RunBounds
    BY <1>1
  <1>3. MatrixInv /\ [Next]_vars => [GoesOn]_vars
    <2> SUFFICES ASSUME MatrixInv, Next PROVE GoesOn
      OBVIOUS
    <2>1. CASE Operation \/ EndTurn \/ EndLoop
      <3>1. pc = "row" /\ UNCHANGED <<pc, args, at, rows>>
        BY <2>1 DEF Operation, EndTurn, EndLoop, InTurn, InRow
      <3>2. \/ loop' = loop + 1
            \/ UNCHANGED loop /\ turn' = turn + 1
            \/ UNCHANGED <<loop, turn>> /\ op' = op + 1
        BY <2>1 DEF Operation, EndTurn, EndLoop
      <3> QED
        BY <3>1, <3>2 DEF GoesOn
    <2>2. CASE EndRow
      <3>1. pc = "row" /\ rows' = Append(rows, Row) /\ pc' \in {"finally", "row"}
        BY <2>2 DEF EndRow
      <3>2. PICK S : rows \in Seq(S)
        BY DEF MatrixInv
      <3>3. rows \in Seq(S \cup {Row})
        BY <3>2
      <3> HIDE DEF Row
      <3>4. Len(rows') = Len(rows) + 1
        BY <3>1, <3>3
      <3>5. CASE pc' = "finally"
        BY <3>1, <3>5 DEF GoesOn, Stage
      <3>6. CASE pc' = "row"
        BY <3>1, <3>4, <3>6 DEF GoesOn
      <3> QED
        BY <3>1, <3>5, <3>6
    <2>3. CASE LateStep
      BY <2>3 DEF LateStep, GoesOn
    <2>4. CASE RowRaises
      <3>1. pc = "row" /\ pc' = "finally"
        BY <2>4 DEF RowRaises, InTurn, InRow
      <3> QED
        BY <3>1 DEF GoesOn, Stage
    <2>5. CASE StartRegistry \/ StartRaises
      <3>1. pc = "start" /\ pc' \in {"row", "raised"}
        BY <2>5 DEF StartRegistry, StartRaises
      <3> QED
        BY <3>1 DEF GoesOn, Stage
    <2>6. CASE StopRegistry
      <3>1. pc = "finally" /\ pc' \in {"late", "raised"}
        BY <2>6 DEF StopRegistry
      <3> QED
        BY <3>1 DEF GoesOn, Stage
    <2>7. CASE LateRaises \/ Return
      <3>1. pc = "late" /\ pc' \in {"returned", "raised"}
        BY <2>7 DEF LateRaises, Return
      <3> QED
        BY <3>1 DEF GoesOn, Stage
    <2> QED
      BY <2>1, <2>2, <2>3, <2>4, <2>5, <2>6, <2>7 DEF Next, Work, Fault
  <1>4. Init => LateInv
    BY BuildReportAssumption DEF Init, LateInv
  <1> QED
    BY <1>2, <1>3, <1>4, NextLate, InitInv, NextInv, InitMatrix, NextMatrix,
       MatrixReady, InitPlace, NextPlace, PTL DEF Spec
==============================================================================
