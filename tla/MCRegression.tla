----------------------------- MODULE MCRegression -----------------------------
(* Command lines that differ in one thing each: two and three iterations, two *)
(* formats, one of them twice, two profiles, another S1 level, another batch  *)
(* size, tier S3; and some that say the same in other words, or are refused.  *)
EXTENDS Regression

MCOption == [tier |-> "S1", scenario |-> <<"small">>, formats |-> <<"json">>,
             seed |-> 42, compression |-> "zstd", iterations |-> 1,
             batch |-> 64, s1_level |-> 3]

MCOptionSpace ==
    {MCOption,
     [MCOption EXCEPT !.iterations = 2, !.formats = <<"JSON", "">>],
     [MCOption EXCEPT !.iterations = 3],
     [MCOption EXCEPT !.formats = <<"avro", "json">>],
     [MCOption EXCEPT !.formats = <<"json", "JSON">>],
     [MCOption EXCEPT !.scenario = <<"small", "", "large">>],
     [MCOption EXCEPT !.s1_level = 19],
     [MCOption EXCEPT !.batch = 8],
     [MCOption EXCEPT !.tier = "S3"],
     [MCOption EXCEPT !.tier = "S3", !.batch = 8],
     [MCOption EXCEPT !.scenario = <<"Small">>],
     [MCOption EXCEPT !.scenario = <<"small", "all">>],
     [MCOption EXCEPT !.formats = <<"", "">>],
     [MCOption EXCEPT !.iterations = 0]}
==============================================================================
