------------------------------- MODULE WinRate -------------------------------
(***************************************************************************)
(* The win-rate table of the summary page (viz/summary_html.py): the rows   *)
(* of a report are grouped by tier and profile, every metric that at least  *)
(* two codecs of a group have a score for is a comparison, and the codecs   *)
(* with the lowest score share its point.  A score is 0 when the report has *)
(* no usable number (absent, not positive, NaN).  Points are counted in     *)
(* units of Unit, so that every share 1/k is a whole number.                *)
(***************************************************************************)
EXTENDS Integers, SequencesExt, FiniteSetsExt

CONSTANTS
    Codecs,         \* codec names
    CodecOrder,     \* Codecs in alphabetical order, as a sequence
    Reports,        \* the reports (sequences of rows) that may be summarised
    Unit            \* a common multiple of 1 .. Cardinality(Codecs)

VARIABLES
    rows,           \* the "results" of the report
    todo,           \* the comparisons still to be made
    n,              \* n_comparisons
    points,         \* win_points of every codec that won something
    order           \* the codecs as the table lists them, <<>> before

vars == <<rows, todo, n, points, order>>

TimedBlocks == <<"encode", "decode", "round_trip">>

(* The metrics of a tier, in the order they are raced. *)
Metrics(tier) ==
    TimedBlocks \o <<"wire">> \o
    CASE tier = "S1" -> <<"compressed">>
      [] tier \in {"S3", "S4"} -> <<"batch">>
      [] OTHER -> <<>>

MetricsOf(report, i) == Metrics(report[i].tier)

Cell(row) == <<row.tier, row.profile>>

(* Rows carry a number for every metric of their tier. *)
ASSUME WinRateAssumption ==
    /\ IsFiniteSet(Codecs)
    /\ Unit \in Nat \ {0}
    /\ \A k \in 1 .. Cardinality(Codecs) : Unit % k = 0
    /\ DOMAIN CodecOrder = 1 .. Len(CodecOrder) /\ Len(CodecOrder) \in Nat
    /\ Codecs \subseteq Range(CodecOrder)
    /\ \A report \in Reports :
         /\ DOMAIN report = 1 .. Len(report) /\ Len(report) \in Nat
         /\ \A i \in DOMAIN report :
              /\ report[i].codec \in Codecs
              /\ \A m \in Range(MetricsOf(report, i)) : report[i].score[m] \in Nat

(* A run that names no format and no profile twice makes one row per codec *)
(* of a tier and profile.                                                  *)
ASSUME OneRowPerCodec ==
    \A report \in Reports : \A i, j \in DOMAIN report :
        Cell(report[i]) = Cell(report[j]) /\ report[i].codec = report[j].codec => i = j

(* The rows of one tier and profile, by their position in the report. *)
Group(report, cell) == {i \in DOMAIN report : Cell(report[i]) = cell}

Score(report, i, metric) == report[i].score[metric]

(* The rows of a group with a number for the metric. *)
Scored(report, cell, metric) ==
    {i \in Group(report, cell) : Score(report, i, metric) > 0}

RowsOf(report, entries, c) == {i \in entries : report[i].codec = c}

(* The number a codec races with.  The timed metrics are sorted by their   *)
(* mean before they are put in a dict, so of two rows of one codec the     *)
(* slower one is kept; of the other metrics the row that comes last.       *)
Kept(report, entries, metric, c) ==
    LET own == RowsOf(report, entries, c)
    IN  IF metric \in Range(TimedBlocks)
        THEN Max({Score(report, i, metric) : i \in own})
        ELSE Score(report, Max(own), metric)

Scores(report, cell, metric) ==
    LET entries == Scored(report, cell, metric)
    IN  [c \in {report[i].codec : i \in entries} |->
            Kept(report, entries, metric, c)]

(* A group of one row is skipped, and so is a metric of one codec. *)
IsRace(report, cell, metric) ==
    /\ Cardinality(Group(report, cell)) >= 2
    /\ Cardinality(DOMAIN Scores(report, cell, metric)) >= 2

(* A comparison is named by the first row of its group and by the place of *)
(* its metric.                                                              *)
IsFirst(report, i) == \A j \in Group(report, Cell(report[i])) : i =< j

Races(report) ==
    UNION {{<<i, k>> : k \in {l \in DOMAIN MetricsOf(report, i) :
                IsRace(report, Cell(report[i]), MetricsOf(report, i)[l])}} :
           i \in {j \in DOMAIN report : IsFirst(report, j)}}

(* The groups follow each other as the report first names them. *)
Earlier(race, other) ==
    race[1] < other[1] \/ (race[1] = other[1] /\ race[2] < other[2])

(* Mutant of Winners: the highest number wins. *)
WinnersHighest(scores) == {c \in DOMAIN scores : scores[c] = Max(Range(scores))}

Winners(scores) == {c \in DOMAIN scores : scores[c] = Min(Range(scores))}

PointsOf(pts, c) == IF c \in DOMAIN pts THEN pts[c] ELSE 0

-----------------------------------------------------------------------------
Init ==
    /\ rows \in Reports
    /\ todo = Races(rows)
    /\ n = 0
    /\ points = <<>>
    /\ order = <<>>

CellOf(race) == Cell(rows[race[1]])
MetricOf(race) == MetricsOf(rows, race[1])[race[2]]

(* Mutant of Compare: every winner gets a whole point. *)
CompareWholePoints(race) ==
    /\ \A other \in todo : race = other \/ Earlier(race, other)
    /\ LET w == Winners(Scores(rows, CellOf(race), MetricOf(race)))
       IN  points' = [c \in DOMAIN points \cup w |->
                        PointsOf(points, c) + IF c \in w THEN Unit ELSE 0]
    /\ n' = n + 1
    /\ todo' = todo \ {race}
    /\ UNCHANGED <<rows, order>>

(* One metric of one group: the winners share one point. *)
Compare(race) ==
    /\ \A other \in todo : race = other \/ Earlier(race, other)
    /\ LET w == Winners(Scores(rows, CellOf(race), MetricOf(race)))
       IN  points' = [c \in DOMAIN points \cup w |->
                        PointsOf(points, c) +
                          IF c \in w THEN Unit \div Cardinality(w) ELSE 0]
    /\ n' = n + 1
    /\ todo' = todo \ {race}
    /\ UNCHANGED <<rows, order>>

(* Most points first, then by name. *)
Before(c, d) ==
    \/ PointsOf(points, c) > PointsOf(points, d)
    \/ /\ PointsOf(points, c) = PointsOf(points, d)
       /\ \E i, j \in DOMAIN CodecOrder :
             CodecOrder[i] = c /\ CodecOrder[j] = d /\ i < j

(* Every codec of the report gets a line, the ones that won nothing too. *)
Rank ==
    /\ todo = {}
    /\ order = <<>> /\ rows # <<>>
    /\ LET all == {rows[i].codec : i \in DOMAIN rows}
       IN  /\ points' = [c \in all |-> PointsOf(points, c)]
           /\ order' = SetToSortSeq(all, Before)
    /\ UNCHANGED <<rows, todo, n>>

Next == (\E race \in todo : Compare(race)) \/ Rank

Spec == Init /\ [][Next]_vars

-----------------------------------------------------------------------------
(* The headline of a group: of the rows with a round-trip mean the fastest  *)
(* is named, when the slowest takes at least 1.15 times as long.            *)
HasHeadline(report, cell) ==
    LET entries == Scored(report, cell, "round_trip")
        means == {Score(report, i, "round_trip") : i \in entries}
    IN  Cardinality(entries) >= 2 /\ 100 * Max(means) >= 115 * Min(means)

(* The codecs of the entries with the lowest score. *)
Lowest(report, entries, metric) ==
    {report[i].codec : i \in {j \in entries : \A k \in entries :
        Score(report, j, metric) <= Score(report, k, metric)}}

(* Rows are ranked after the group is sorted by codec, and the sort is stable. *)
HeadlineFastest(report, cell) ==
    LET best == Lowest(report, Scored(report, cell, "round_trip"), "round_trip")
    IN  CodecOrder[Min({i \in DOMAIN CodecOrder : CodecOrder[i] \in best})]

(* Mutant of Highlighted: only a codec alone at the best number is marked. *)
HighlightedAlone(report, cell, metric) ==
    LET scores == Scores(report, cell, metric)
    IN  {c \in DOMAIN scores : \A d \in DOMAIN scores \ {c} : scores[c] < scores[d]}

(* The codecs marked best in a column of the group's comparison table, which *)
(* has a column as soon as one codec has a number for it.                    *)
Highlighted(report, cell, metric) ==
    LET scores == Scores(report, cell, metric)
    IN  IF Cardinality(Group(report, cell)) < 2 \/ DOMAIN scores = {} THEN {}
        ELSE {c \in DOMAIN scores : \A d \in DOMAIN scores : scores[c] <= scores[d]}

(* The codecs marked smallest on the distributed page: of S0 the raw wire,   *)
(* of S1 the compressed bytes, row by row.                                   *)
FootprintMetric(tier) ==
    CASE tier = "S0" -> "wire" [] tier = "S1" -> "compressed" [] OTHER -> "none"

Smallest(report, cell) ==
    LET metric == FootprintMetric(cell[1])
    IN  IF metric = "none" THEN {}
        ELSE Lowest(report, Scored(report, cell, metric), metric)

-----------------------------------------------------------------------------
(* The fine print under the table (summary_html.py:255-257): with ties and  *)
(* without, the points of all codecs add up to the number of comparisons.   *)
PointsSumToComparisons == SumFunction(points) = Unit * n

(* Each comparison picks the fastest or the smallest (the introduction of   *)
(* the table, summary_html.py:231-233): a codec gains points only from a    *)
(* comparison in which no row of the group has a lower number than one of   *)
(* its own, and it gains all of the point only when no other codec has a    *)
(* row as low.                                                              *)
WinnersAreFastest ==
    [][\A c \in Codecs : PointsOf(points', c) > PointsOf(points, c) =>
          \E race \in todo \ todo' :
            LET entries == Scored(rows, CellOf(race), MetricOf(race))
                fastest == Lowest(rows, entries, MetricOf(race))
            IN  /\ c \in fastest
                /\ (PointsOf(points', c) - PointsOf(points, c) = Unit)
                     <=> fastest = {c}]_vars

(* What the pages say about a group agrees: the codec the headline calls    *)
(* fastest is among the winners of the round-trip race, every race is won   *)
(* by the codecs the comparison table marks best, and the sizes are won by  *)
(* the codecs the distributed page marks smallest.                          *)
PagesAgree ==
    \A i \in DOMAIN rows :
      LET cell == Cell(rows[i])
      IN  \A m \in Range(Metrics(cell[1])) :
            IsRace(rows, cell, m) =>
              LET w == Winners(Scores(rows, cell, m))
              IN  /\ w = Highlighted(rows, cell, m)
                  /\ m = FootprintMetric(cell[1]) => w = Smallest(rows, cell)
                  /\ m = "round_trip" /\ HasHeadline(rows, cell)
                       => HeadlineFastest(rows, cell) \in w
=============================================================================
