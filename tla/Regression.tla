------------------------------ MODULE Regression ------------------------------
(***************************************************************************)
(* regression_check_against_baseline_file (regression.py): the round-trip   *)
(* means of a run are compared row by row with those of an earlier report.  *)
(* Both reports come from build_report, so that their rows follow from      *)
(* their command lines (CommandLine), which may name a format twice, and    *)
(* their means from the timings (Statistics).                               *)
(***************************************************************************)
EXTENDS Statistics, CommandLine

CONSTANTS
    OptionSpace,    \* command lines to explore: records with the fields
                    \*   tier, scenario, formats, seed, compression,
                    \*   iterations, batch, s1_level
    Times,          \* round-trip timings, in some unit; 0 is a clock too coarse
    WarnPercent     \* --regression-warn-ratio in percent

(* What is parsed from an option is a sequence of what may be parsed.         *)
ASSUME RegressionAssumption ==
    /\ \A o \in OptionSpace :
         /\ o.iterations \in Nat
         /\ ParseScenarios(o.scenario) \in Seq(PayloadProfiles)
         /\ ParseFormats(o.formats) \in Seq(Codecs)
    /\ Times \subseteq Nat
    /\ WarnPercent \in Nat

VARIABLES
    base, cur,              \* the arguments of the two runs
    baseTimes, curTimes,    \* the round-trip timings of their rows, in order
    baseRows, curRows,      \* round_trip of the rows of their reports
    readable,               \* the baseline file exists and is JSON
    pc,             \* "measure", "check", "compare", "skipped" or "done"
    i,              \* row of the current report to compare next
    warnings        \* rows warned about, in order

runs == <<base, cur, baseTimes, curTimes, readable>>
reports == <<baseRows, curRows>>
vars == <<runs, reports, pc, i, warnings>>

Tiers(a) == IF a.tier = "all" THEN <<"S0", "S1", "S2", "S3", "S4">>
            ELSE <<a.tier>>

(* The rows of build_report: tiers x profiles x formats, formats fastest.     *)
RowCount(a) == Len(Tiers(a)) * Len(a.profiles) * Len(a.formats)

KeyOf(a, k) ==
    LET f == Len(a.formats)
        p == Len(a.profiles)
    IN [profile |-> a.profiles[(((k - 1) \div f) % p) + 1],
        codec   |-> a.formats[((k - 1) % f) + 1],
        tier    |-> Tiers(a)[((k - 1) \div (f * p)) + 1]]

(* The scenario block: batch_size is null for the tiers without batches. *)
ScenarioBatch(a) == IF a.tier \in {"S3", "S4", "all"} THEN a.batch ELSE 0

(* Mutant of Fingerprint: the formats are left out. *)
FingerprintNoFormats(a) ==
    [tier |-> a.tier, seed |-> a.seed, profiles |-> a.profiles,
     compression |-> a.compression, iterations |-> a.iterations,
     batch |-> ScenarioBatch(a)]

(* _scenario_fingerprint. *)
Fingerprint(a) ==
    [tier |-> a.tier, tiers_executed |-> IF a.tier = "all" THEN Tiers(a) ELSE <<>>,
     seed |-> a.seed, profiles |-> a.profiles, formats |-> a.formats,
     compression |-> a.compression, iterations |-> a.iterations,
     batch |-> ScenarioBatch(a)]

(* _rows_by_key: the last row of a key wins; 0 when there is none. *)
Matching(a, key) == {k \in 1..RowCount(a) : KeyOf(a, k) = key}

BaseRow(key) ==
    IF Matching(base, key) = {} THEN 0
    ELSE CHOOSE k \in Matching(base, key) :
           \A l \in Matching(base, key) : l =< k

Init ==
    /\ base \in {Arguments(o) : o \in {p \in OptionSpace : Accepted(p)}}
    /\ cur \in {Arguments(o) : o \in {p \in OptionSpace : Accepted(p)}}
    /\ baseTimes \in [1..RowCount(base) -> [1..base.iterations -> Times]]
    /\ curTimes \in [1..RowCount(cur) -> [1..cur.iterations -> Times]]
    /\ baseRows = <<>> /\ curRows = <<>>
    /\ readable \in BOOLEAN
    /\ pc = "measure" /\ i = 1 /\ warnings = <<>>

(* summarize_times at the end of a row: first those of the baseline run, ... *)
SummarizeBaseline ==
    /\ pc = "measure" /\ Len(baseRows) < RowCount(base)
    /\ LET sample == baseTimes[Len(baseRows) + 1]
       IN \E t \in SortedOf(sample) :
            baseRows' = Append(baseRows, Summary(sample, t))
    /\ UNCHANGED <<runs, curRows, pc, i, warnings>>

(* ... then those of the current run, and the check begins. *)
SummarizeCurrent ==
    /\ pc = "measure" /\ Len(baseRows) = RowCount(base)
    /\ Len(curRows) < RowCount(cur)
    /\ LET sample == curTimes[Len(curRows) + 1]
       IN \E t \in SortedOf(sample) :
            curRows' = Append(curRows, Summary(sample, t))
    /\ pc' = IF Len(curRows') = RowCount(cur) THEN "check" ELSE "measure"
    /\ UNCHANGED <<runs, baseRows, i, warnings>>

(* The baseline cannot be read or parsed, or belongs to another scenario. *)
Comparable == readable /\ Fingerprint(cur) = Fingerprint(base)

Skip ==
    /\ pc = "check" /\ ~Comparable
    /\ pc' = "skipped"
    /\ UNCHANGED <<runs, reports, i, warnings>>

Accept ==
    /\ pc = "check" /\ Comparable
    /\ pc' = "compare"
    /\ UNCHANGED <<runs, reports, i, warnings>>

(* c * (100 + WarnPercent) / 100 of a fraction. *)
Threshold(b) == [num |-> b.num * (100 + WarnPercent), den |-> b.den * 100]

(* Mutant of Exceeds: the threshold itself is warned about. *)
ExceedsOrEquals(c, b) == AtMost(Threshold(b), c)

(* cur_mean > base_mean * (1 + warn_ratio). *)
Exceeds(c, b) == ~AtMost(c, Threshold(b))

(* One turn of the loop over the current rows: a row without a baseline row,  *)
(* or with a baseline mean of 0, is passed over in silence.                   *)
CompareRow ==
    /\ pc = "compare" /\ i =< RowCount(cur)
    /\ LET k == BaseRow(KeyOf(cur, i))
           warn == /\ k # 0
                   /\ baseRows[k].mean.num > 0
                   /\ Exceeds(curRows[i].mean, baseRows[k].mean)
       IN warnings' = IF warn THEN Append(warnings, i) ELSE warnings
    /\ i' = i + 1
    /\ UNCHANGED <<runs, reports, pc>>

Finish ==
    /\ pc = "compare" /\ i > RowCount(cur)
    /\ pc' = "done"
    /\ UNCHANGED <<runs, reports, i, warnings>>

Next == SummarizeBaseline \/ SummarizeCurrent \/ Skip \/ Accept \/ CompareRow \/ Finish

Spec == Init /\ [][Next]_vars /\ WF_vars(Next)

-----------------------------------------------------------------------------
(* The percentiles of a row come in their order and lie between two timings   *)
(* of the row (test_stats.py asserts p50 <= p90 <= p99 of one sample).        *)
FiguresAreOrdered ==
    \A r \in DOMAIN curRows :
      LET row == curRows[r] IN
      /\ row.p50 =< row.p90 /\ row.p90 =< row.p95 /\ row.p95 =< row.p99
      /\ \E j \in DOMAIN curTimes[r] : 100 * curTimes[r][j] =< row.p50
      /\ \E j \in DOMAIN curTimes[r] : row.p99 =< 100 * curTimes[r][j]

(* A row none of whose timings got shorter looks no faster than its baseline  *)
(* in any figure, whatever the order in which its timings were measured.      *)
SlowerLooksSlower ==
    \A r \in DOMAIN curRows \cap DOMAIN baseRows :
      /\ DOMAIN curTimes[r] = DOMAIN baseTimes[r]
      /\ \A j \in DOMAIN curTimes[r] : baseTimes[r][j] =< curTimes[r][j]
      => LET b == baseRows[r]
             c == curRows[r]
         IN /\ b.p50 =< c.p50 /\ b.p90 =< c.p90
            /\ b.p95 =< c.p95 /\ b.p99 =< c.p99
            /\ AtMost(b.mean, c.mean)
            /\ AtMost(c.records_per_s, b.records_per_s)

(* Every cell of the matrix is there once: no profile and no format is named  *)
(* twice.                                                                     *)
DistinctCells(a) ==
    \A k, l \in 1..RowCount(a) : KeyOf(a, k) = KeyOf(a, l) => k = l

(* Exactly the rows whose timings add up to more than the ratio allows over   *)
(* those of their own cell of the baseline are warned about, once each and in *)
(* order.                                                                     *)
WarningsAreExact ==
    pc = "done" /\ DistinctCells(cur) =>
      /\ \A w \in 1..(Len(warnings) - 1) : warnings[w] < warnings[w + 1]
      /\ \A r \in 1..RowCount(cur) :
           LET b == SumFunction(baseTimes[r])
               c == SumFunction(curTimes[r])
           IN (\E w \in DOMAIN warnings : warnings[w] = r) <=>
                (b > 0 /\ 100 * (c - b) > WarnPercent * b)

(* Equal fingerprints mean equal matrices: when the check is not skipped, no  *)
(* row is passed over for want of a baseline, which nobody would notice.      *)
EveryRowHasABaseline ==
    pc \in {"compare", "done"} =>
      /\ RowCount(base) = RowCount(cur)
      /\ \A r \in 1..RowCount(cur) : Matching(base, KeyOf(cur, r)) # {}

(* "so comparisons are apples-to-apples": what is compared was measured with  *)
(* the same settings of the timed code.                                       *)
ComparesLikeWithLike ==
    pc = "done" => \A r \in 1..RowCount(cur) :
      KeyOf(cur, r).tier = "S1" => cur.s1_level = base.s1_level
==============================================================================
