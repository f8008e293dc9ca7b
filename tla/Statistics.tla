------------------------------ MODULE Statistics ------------------------------
(***************************************************************************)
(* metrics/stats.py: what becomes of the timings of a loop.  A sample is a  *)
(* non-empty sequence of natural numbers, timings in some unit.  Figures    *)
(* are exact: percentiles are in hundredths of the unit, q in percent, and  *)
(* means and rates are fractions [num, den].  The rounding of floats is not *)
(* modelled.                                                                *)
(***************************************************************************)
EXTENDS Integers, Sequences, FiniteSets, Functions

(* Mutant of SortedOf: the sample is not sorted. *)
SortedOfAsMeasured(sample) == {sample}

(* sorted(sample): the set of its one result. *)
SortedOf(sample) ==
    {t \in [DOMAIN sample -> Range(sample)] :
       /\ \A j, k \in DOMAIN t : j < k => t[j] =< t[k]
       /\ \A v \in Range(sample) : Cardinality({j \in DOMAIN t : t[j] = v})
                                 = Cardinality({j \in DOMAIN sample : sample[j] = v})}

(* _percentile: linear interpolation between two neighbours; hi is cut off at *)
(* the last timing, so that a single one is its own neighbour.                *)
Percentile(t, q) ==
    LET n   == Len(t)
        idx == (n - 1) * q
        lo  == idx \div 100
        hi  == IF lo + 1 < n - 1 THEN lo + 1 ELSE n - 1
        w   == idx % 100
    IN t[lo + 1] * (100 - w) + t[hi + 1] * w

Mean(sample) == [num |-> SumFunction(sample), den |-> Len(sample)]

(* Mutant of RecordsPerSecond: no time at all counts as no record. *)
RecordsPerSecondOrZero(mean) ==
    IF mean.num > 0 THEN [num |-> mean.den, den |-> mean.num]
    ELSE [num |-> 0, den |-> 1]

(* 1 / mean; a mean of 0, from a clock too coarse, makes it infinite (den 0). *)
RecordsPerSecond(mean) == [num |-> mean.den, den |-> mean.num]

(* summarize_times, and the p95 of summarize_byte_lengths; t is the sorted    *)
(* sample.                                                                    *)
Summary(sample, t) ==
    [p50  |-> Percentile(t, 50), p90 |-> Percentile(t, 90),
     p95  |-> Percentile(t, 95), p99 |-> Percentile(t, 99),
     mean |-> Mean(sample),
     records_per_s |-> RecordsPerSecond(Mean(sample))]

(* Order of fractions, infinite ones included. *)
AtMost(a, b) == a.num * b.den =< b.num * a.den
==============================================================================
