---------------------------- MODULE MCMockRegistry ----------------------------
(* Two S2 rows of two timed iterations: every loop repeats, and the second    *)
(* row starts where the first one ended.                                      *)
EXTENDS MockRegistry

MCRows == 2
MCIterations == 2
==============================================================================
