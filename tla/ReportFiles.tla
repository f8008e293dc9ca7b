----------------------------- MODULE ReportFiles -----------------------------
(***************************************************************************)
(* The files the commands leave behind.  `ksp-bench run` writes report.json *)
(* and then report.md; `ksp-bench viz` reads report.json once for each page *)
(* it writes.  Nothing is written to a temporary file and renamed: a file   *)
(* is emptied when it is opened for writing, and is whole again only when   *)
(* it is closed.  The commands are processes of their own, so a run may     *)
(* rewrite the report while pages are made from it, and each may be killed  *)
(* or raise at any point.  One run and one viz are at work at a time.       *)
(***************************************************************************)
EXTENDS Naturals, Sequences, SequencesExt

CONSTANTS
    MaxRuns,        \* bound: runs of the benchmark
    MaxViz,         \* bound: invocations of viz
    Outputs         \* values of viz's --output

SummaryPath == "summary.html"
DistributedPath == "distributed.html"
Paths == Outputs \cup {SummaryPath, DistributedPath}
Kinds == {"stack", "summary", "distributed"}

VARIABLES
    json, md,       \* report.json, report.md: whose they are, and whether whole
    run,            \* the run at work: its number and where it is
    ended,          \* the runs that ended with exit code 0
    pages,          \* the HTML file at each path
    viz             \* the viz at work

vars == <<json, md, run, ended, pages, viz>>

NoFile == [v |-> 0, whole |-> FALSE]
NoPage == [kind |-> "none", v |-> 0, by |-> 0, links |-> {}, whole |-> FALSE]

(* The pages one viz writes, in the order it writes them. *)
Plan(summary, distributed) ==
    <<"stack">> \o (IF summary THEN <<"summary">> ELSE <<>>)
                \o (IF distributed THEN <<"distributed">> ELSE <<>>)

PathOf(output, kind) ==
    CASE kind = "stack" -> output
      [] kind = "summary" -> SummaryPath
      [] kind = "distributed" -> DistributedPath

(* Mutant of LinksOf: pages that were not asked for are linked to as well. *)
LinksToAll(output, plan, kind) ==
    {<<k, PathOf(output, k)>> : k \in Kinds \ {kind}}

(* Every page links to the other pages of its viz. *)
LinksOf(output, plan, kind) ==
    {<<k, PathOf(output, k)>> : k \in Range(plan) \ {kind}}

-----------------------------------------------------------------------------
Init ==
    /\ json = NoFile /\ md = NoFile
    /\ run = [id |-> 0, at |-> "idle"]
    /\ ended = {}
    /\ pages = [p \in Paths |-> NoPage]
    /\ viz = [id |-> 0, at |-> "idle", plan |-> <<>>, todo |-> <<>>,
              output |-> CHOOSE o \in Outputs : TRUE, v |-> 0]

(* Mutant of OpenJson: report.md is written first. *)
OpenMarkdownFirst ==
    /\ run.at = "idle" /\ run.id < MaxRuns
    /\ run' = [id |-> run.id + 1, at |-> "md"]
    /\ md' = [v |-> run.id + 1, whole |-> FALSE]
    /\ UNCHANGED <<json, ended, pages, viz>>

(* The report is built; report.json is opened for writing. *)
OpenJson ==
    /\ run.at = "idle" /\ run.id < MaxRuns
    /\ run' = [id |-> run.id + 1, at |-> "json"]
    /\ json' = [v |-> run.id + 1, whole |-> FALSE]
    /\ UNCHANGED <<md, ended, pages, viz>>

CloseJson ==
    /\ run.at = "json"
    /\ json' = [json EXCEPT !.whole = TRUE]
    /\ run' = [run EXCEPT !.at = "between"]
    /\ UNCHANGED <<md, ended, pages, viz>>

(* report.md is opened, and only then is its text rendered. *)
OpenMarkdown ==
    /\ run.at = "between"
    /\ md' = [v |-> run.id, whole |-> FALSE]
    /\ run' = [run EXCEPT !.at = "md"]
    /\ UNCHANGED <<json, ended, pages, viz>>

CloseMarkdown ==
    /\ run.at = "md"
    /\ md' = [md EXCEPT !.whole = TRUE]
    /\ run' = [run EXCEPT !.at = "idle"]
    /\ ended' = ended \cup {run.id}
    /\ UNCHANGED <<json, pages, viz>>

(* The run is killed, or rendering raises, with a file open or between two. *)
RunDies ==
    /\ run.at # "idle"
    /\ run' = [run EXCEPT !.at = "idle"]
    /\ UNCHANGED <<json, md, ended, pages, viz>>

Run == OpenJson \/ CloseJson \/ OpenMarkdown \/ CloseMarkdown \/ RunDies

-----------------------------------------------------------------------------
(* The argument must exist; its text is not looked at yet. *)
StartViz ==
    /\ viz.at # "read" /\ viz.at # "loaded" /\ viz.at # "open"
    /\ viz.id < MaxViz /\ json.v # 0
    /\ \E output \in Outputs, summary, distributed \in BOOLEAN :
          viz' = [id |-> viz.id + 1, at |-> "read",
                  plan |-> Plan(summary, distributed),
                  todo |-> Plan(summary, distributed),
                  output |-> output, v |-> 0]
    /\ UNCHANGED <<json, md, run, ended, pages>>

(* Mutant of ReadReport: what has been written of the report is shown. *)
ReadWhatIsThere ==
    /\ viz.at = "read"
    /\ viz' = [viz EXCEPT !.at = "loaded", !.v = json.v]
    /\ UNCHANGED <<json, md, run, ended, pages>>

(* Each page loads report.json anew. *)
ReadReport ==
    /\ viz.at = "read"
    /\ json.whole
    /\ viz' = [viz EXCEPT !.at = "loaded", !.v = json.v]
    /\ UNCHANGED <<json, md, run, ended, pages>>

(* A report that is being written is no JSON: viz raises. *)
ReadRaises ==
    /\ viz.at = "read"
    /\ ~json.whole
    /\ viz' = [viz EXCEPT !.at = "failed"]
    /\ UNCHANGED <<json, md, run, ended, pages>>

(* The page is built before its file is emptied. *)
OpenPage ==
    /\ viz.at = "loaded"
    /\ LET kind == Head(viz.todo)
       IN  pages' = [pages EXCEPT ![PathOf(viz.output, kind)] =
                        [kind |-> kind, v |-> viz.v, by |-> viz.id,
                         links |-> LinksOf(viz.output, viz.plan, kind),
                         whole |-> FALSE]]
    /\ viz' = [viz EXCEPT !.at = "open"]
    /\ UNCHANGED <<json, md, run, ended>>

ClosePage ==
    /\ viz.at = "open"
    /\ pages' = [pages EXCEPT ![PathOf(viz.output, Head(viz.todo))].whole = TRUE]
    /\ viz' = [viz EXCEPT !.todo = Tail(@),
                          !.at = IF Tail(viz.todo) = <<>> THEN "ok" ELSE "read"]
    /\ UNCHANGED <<json, md, run, ended>>

(* Mutant of VizDies: an exception is swallowed, viz exits with 0. *)
VizFailsQuietly ==
    /\ viz.at \in {"read", "loaded", "open"}
    /\ viz' = [viz EXCEPT !.at = "ok"]
    /\ UNCHANGED <<json, md, run, ended, pages>>

VizDies ==
    /\ viz.at \in {"read", "loaded", "open"}
    /\ viz' = [viz EXCEPT !.at = "failed"]
    /\ UNCHANGED <<json, md, run, ended, pages>>

Viz == StartViz \/ ReadReport \/ ReadRaises \/ OpenPage \/ ClosePage \/ VizDies

Next == Run \/ Viz

Spec == Init /\ [][Next]_vars

-----------------------------------------------------------------------------
PageOf(kind) == pages[PathOf(viz.output, kind)]

(* Nothing keeps --output from being the default path of another page, which *)
(* then overwrites it: what the pages promise together, they promise when    *)
(* each has a path of its own.                                               *)
OwnPaths ==
    \A i, j \in DOMAIN viz.plan :
       i # j => PathOf(viz.output, viz.plan[i]) # PathOf(viz.output, viz.plan[j])

(* No page ever shows half a report, however viz and a run overlap and      *)
(* whatever dies: what a viz loaded was written to its end by its run, and  *)
(* a run that has ended with exit code 0 left both of its files whole.      *)
PagesShowWholeReports ==
    /\ \A p \in Paths : pages[p].v > 0 =>
          pages[p].v < json.v \/ (pages[p].v = json.v /\ json.whole)
    /\ run.id \in ended => json.v = run.id /\ json.whole /\ md = json

(* report.md never runs ahead of report.json, and whoever finds the two of  *)
(* different runs can tell that the newest run has not ended well: the      *)
(* order write_report_bundle writes them in (runner.py:1025-1044).          *)
MarkdownTrailsJson ==
    /\ md.v <= json.v
    /\ md.v # json.v => json.v \notin ended
    /\ md.v = json.v /\ md.v > 0 => json.whole

(* The pages of one viz may come from different reports when a run rewrites *)
(* the report between two of its reads, but never go back: a later page     *)
(* shows the same report or a newer one.                                    *)
LaterPagesAreNewer ==
    viz.at = "ok" /\ OwnPaths =>
      \A i, j \in DOMAIN viz.plan : i <= j =>
         PageOf(viz.plan[i]).v <= PageOf(viz.plan[j]).v

(* The pages of a viz that ended well cross-link in the header (README.md:  *)
(* 55): every link of every page it wrote leads to the page that it names,  *)
(* whole and written by the same viz.                                       *)
LinksLeadToPages ==
    viz.at = "ok" /\ OwnPaths =>
      \A k \in Range(viz.plan) :
         \A link \in PageOf(k).links :
            LET target == pages[link[2]]
            IN  target.kind = link[1] /\ target.whole /\ target.by = viz.id
=============================================================================
