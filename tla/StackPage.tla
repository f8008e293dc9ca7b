------------------------------ MODULE StackPage ------------------------------
(***************************************************************************)
(* The stack page (viz/stack_html.py): the rows of a report are dealt out   *)
(* to panels, one tab per tier and inside a tier one tab per profile, and   *)
(* a script on the page switches tabs on clicks and keys.  A group of tabs  *)
(* is the tier tabs ("top") or the profile tabs of one tier.  In its panel, *)
(* a row has a bar for each of its mean times.                              *)
(***************************************************************************)
EXTENDS Naturals, Sequences, FiniteSets, SequencesExt, FiniteSetsExt

CONSTANT Reports    \* reports: [tier, profiles, rows], as build_report makes
                    \*   them; a row is [tier, profile, means], and means maps
                    \*   the labels of its bars to times in some unit

TierOrder == <<"S0", "S1", "S2", "S3", "S4">>

VARIABLES
    report,         \* the report the page is made of
    on,             \* per group, which of its tabs are active
    shown           \* per group, which of its panels are not hidden

vars == <<report, on, shown>>

(* What stands where no name is given. *)
NoName == ""

(* Mutant of Names: repetitions are kept. *)
NamesRepeated(s) == SelectSeq(s, LAMBDA name : name # NoName)

(* A finite set of positions in their order: each comes after as many as are *)
(* below it.                                                                *)
InOrder(S) ==
    [k \in 1 .. Cardinality(S) |->
        CHOOSE i \in S : Cardinality({j \in S : j < i}) = k - 1]

(* A sequence without its empty names and repetitions. *)
Names(s) ==
    LET first == {i \in DOMAIN s : s[i] # NoName /\ \A j \in 1 .. i - 1 : s[j] # s[i]}
    IN  [k \in 1 .. Cardinality(first) |-> s[InOrder(first)[k]]]

(* A row without a tier belongs to the scenario's. *)
TierOf(r, i) ==
    IF r.rows[i].tier # NoName THEN r.rows[i].tier
    ELSE IF r.tier # NoName THEN r.tier ELSE "?"

TierRows(r, tier) == {i \in DOMAIN r.rows : TierOf(r, i) = tier}

(* A row without a profile is put under "?". *)
ProfileOf(r, i) == IF r.rows[i].profile = NoName THEN "?" ELSE r.rows[i].profile

(* A report's rows are of the known tiers and name their profiles; where     *)
(* one does not, there is no name in its tier at all.                       *)
ASSUME StackPageAssumption ==
    \A r \in Reports :
      /\ r.profiles \in Seq(STRING)
      /\ DOMAIN r.rows = 1..Len(r.rows) /\ Len(r.rows) \in Nat
      /\ \A i \in DOMAIN r.rows :
           /\ TierOf(r, i) \in Range(TierOrder)
           /\ r.rows[i].profile \in STRING
           /\ r.rows[i].profile = NoName =>
                /\ Range(r.profiles) \subseteq {NoName}
                /\ \A j \in TierRows(r, TierOf(r, i)) : r.rows[j].profile = NoName
           /\ IsFiniteSet(DOMAIN r.rows[i].means)
           /\ \A label \in DOMAIN r.rows[i].means :
                r.rows[i].means[label] \in Nat

RowProfiles(r, tier) ==
    LET own == InOrder(TierRows(r, tier))
    IN  [k \in DOMAIN own |-> r.rows[own[k]].profile]

(* The scenario's profiles first, then those only the rows know; "?" only   *)
(* when there is no name at all.                                            *)
ProfileTabs(r, tier) ==
    LET order == Names(r.profiles \o RowProfiles(r, tier))
    IN  IF order # <<>> THEN order ELSE <<"?">>

(* Tiers without rows have a note in the place of profile tabs. *)
TabGroups(r) == {"top"} \cup {t \in Range(TierOrder) : TierRows(r, t) # {}}

Tabs(r, group) == IF group = "top" THEN TierOrder ELSE ProfileTabs(r, group)

(* The rows in one profile's panel. *)
Panel(r, tier, profile) == {i \in TierRows(r, tier) : ProfileOf(r, i) = profile}

(* The tab that is open first. *)
DefaultTier(r) ==
    IF r.tier = "all" THEN TierOrder[1]
    ELSE IF r.tier \in Range(TierOrder) THEN r.tier
    ELSE LET used == {k \in DOMAIN TierOrder : TierRows(r, TierOrder[k]) # {}}
         IN  IF used = {} THEN TierOrder[1] ELSE TierOrder[Min(used)]

Selected(r, group) ==
    [k \in DOMAIN Tabs(r, group) |->
        IF group = "top" THEN TierOrder[k] = DefaultTier(r) ELSE k = 1]

-----------------------------------------------------------------------------
(* _bars_for_row: the labels under which a row has a mean that is a number. *)
Bars(r, i) == DOMAIN r.rows[i].means

MeanOf(r, i, label) == r.rows[i].means[label]

(* Positive means of all rows under a label, ... *)
MeansOf(r, label) ==
    {MeanOf(r, i, label) : i \in {j \in DOMAIN r.rows : label \in Bars(r, j)}} \ {0}

(* ... and of one row under any label. *)
MeansIn(r, i) == {MeanOf(r, i, label) : label \in Bars(r, i)} \ {0}

(* _max_bar of the row: the scale of labels that have none. *)
RowScale(r, i) == IF MeansIn(r, i) = {} THEN 1 ELSE Max(MeansIn(r, i))

(* Mutant of Scale: every row has a scale of its own. *)
ScaleOfRow(r, i, label) == RowScale(r, i)

(* _bar_scale_maxima: the slowest mean of the label in the whole report. *)
Scale(r, i, label) ==
    IF MeansOf(r, label) = {} THEN RowScale(r, i) ELSE Max(MeansOf(r, label))

Lower(a, b) == IF a < b THEN a ELSE b

(* The width of a bar in hundredths of a percent of its scale, rounded. *)
Share(mean, scale) == Lower(10000, (20000 * mean + scale) \div (2 * scale))

Width(r, i, label) == Share(MeanOf(r, i, label), Scale(r, i, label))

-----------------------------------------------------------------------------
Init ==
    /\ report \in Reports
    /\ on = [g \in TabGroups(report) |-> Selected(report, g)]
    /\ shown = on

(* The tab is made the active one of its group, and the panel it controls   *)
(* the only one shown: tabs and panels of other groups are not looked at.   *)
Activate(group, k) ==
    /\ on' = [on EXCEPT ![group] = [i \in DOMAIN @ |-> i = k]]
    /\ shown' = [shown EXCEPT ![group] = [i \in DOMAIN @ |-> i = k]]
    /\ UNCHANGED report

(* Only tabs in a panel that is shown can be clicked or hold the focus. *)
InView(group) ==
    \/ group = "top"
    \/ \E k \in DOMAIN TierOrder : TierOrder[k] = group /\ shown["top"][k]

Click ==
    \E g \in TabGroups(report) : \E k \in DOMAIN on[g] :
        InView(g) /\ Activate(g, k)

(* Mutant of Moved: the arrows do not wrap around. *)
MovedOff(key, k, len) ==
    CASE key = "ArrowRight" -> k + 1
      [] key = "ArrowLeft" -> k - 1
      [] key = "Home" -> 1
      [] key = "End" -> len

(* The tab a key moves to: the arrows wrap around. *)
Moved(key, k, len) ==
    CASE key = "ArrowRight" -> (k % len) + 1
      [] key = "ArrowLeft" -> ((k - 2 + len) % len) + 1
      [] key = "Home" -> 1
      [] key = "End" -> len

(* Keys act on the tab that has the focus, active or not. *)
Press ==
    \E g \in TabGroups(report),
       key \in {"ArrowRight", "ArrowLeft", "Home", "End"} :
      \E k \in DOMAIN on[g] :
        InView(g) /\ Activate(g, Moved(key, k, Len(on[g])))

Next == Click \/ Press

Spec == Init /\ [][Next]_vars

-----------------------------------------------------------------------------
(* Tabs nest, and the script's handlers of the outer group see the events   *)
(* of the inner ones: still, in every group at every time one tab is active *)
(* and its panel, and no other, is shown.                                   *)
OneTabPerGroup ==
    \A g \in TabGroups(report) :
      /\ \E k \in DOMAIN on[g] : on[g] = [i \in DOMAIN on[g] |-> i = k]
      /\ shown[g] = on[g]

(* Every row of the report is in exactly one panel, repeated profiles and   *)
(* rows of several tiers included, and no panel of a profile shows the row  *)
(* of another: nothing the benchmark measured is missing from the page.     *)
EveryRowHasItsPanel ==
    \A i \in DOMAIN report.rows :
      \E t \in TabGroups(report) \ {"top"} : \E k \in DOMAIN Tabs(report, t) :
        \A u \in TabGroups(report) \ {"top"} : \A l \in DOMAIN Tabs(report, u) :
          i \in Panel(report, u, Tabs(report, u)[l]) <=> u = t /\ l = k

(* "Width scale is shared [...] (same label = same max), so longer bars are  *)
(* slower than shorter ones": in whatever panels two bars of one label stand, *)
(* the longer one is the slower one, and a slowest one fills its track.       *)
LongerBarsAreSlower ==
    \A i, j \in DOMAIN report.rows :
      \A label \in Bars(report, i) \cap Bars(report, j) :
        /\ Width(report, i, label) > Width(report, j, label) =>
             MeanOf(report, i, label) > MeanOf(report, j, label)
        /\ MeansOf(report, label) # {}
             /\ MeanOf(report, i, label) = Max(MeansOf(report, label)) =>
             Width(report, i, label) = 10000
=============================================================================
