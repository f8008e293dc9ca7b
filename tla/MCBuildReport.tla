----------------------------- MODULE MCBuildReport -----------------------------
(* Every tier, with and without warm-up and tracemalloc, on two profiles and  *)
(* two formats with two timed iterations and batches of two.                  *)
EXTENDS BuildReport

MCProfiles == <<"small", "evolution">>
MCFormats == <<"avro", "json">>
MCLateSteps == <<"environment", "governance", "maintainability", "baseline">>
==============================================================================
