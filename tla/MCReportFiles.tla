---------------------------- MODULE MCReportFiles ----------------------------
(* Three runs and two viz: a viz overlaps a run, a later one finds the old   *)
(* pages.  One output is a path of its own, the other that of the summary.    *)
EXTENDS ReportFiles

OwnAndTaken == {"stack.html", SummaryPath}
==============================================================================
