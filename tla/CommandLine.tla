------------------------------ MODULE CommandLine ------------------------------
(***************************************************************************)
(* What `run` makes of its options (cli.py): the arguments of build_report, *)
(* or a refusal.  The value of --scenario and of --formats is the sequence  *)
(* of its comma-separated parts without the blanks around them; "" is an    *)
(* empty part.                                                              *)
(***************************************************************************)
EXTENDS Naturals, Sequences, SequencesExt

PayloadProfiles == {"small", "medium", "large", "evolution"}
Codecs == {"avro", "protobuf", "json"}

(* str.lower, of the words that runs use. *)
Lower(word) ==
    CASE word = "All" -> "all"
      [] word = "Small" -> "small"
      [] word = "JSON" -> "json"
      [] OTHER -> word

Parts(value) == SelectSeq(value, LAMBDA word : word # "")

(* <<>> is a BadParameter.  "all" is a word of its own, in any case; the names *)
(* of profiles are taken as they are written, ...                              *)
ParseScenarios(value) ==
    IF Len(value) = 1 /\ Lower(value[1]) = "all" THEN <<"small", "medium", "large">>
    ELSE IF ToSet(Parts(value)) \subseteq PayloadProfiles THEN Parts(value)
    ELSE <<>>

(* ... those of formats are lowered.  Neither is looked through for repeats.  *)
ParseFormats(value) ==
    LET parts == [k \in DOMAIN Parts(value) |-> Lower(Parts(value)[k])]
    IN IF Len(value) = 1 /\ Lower(value[1]) = "all" THEN <<"avro", "protobuf", "json">>
       ELSE IF ToSet(parts) \subseteq Codecs THEN parts
       ELSE <<>>

(* The checks of typer (min=) and of run_cmd. *)
Accepted(o) ==
    /\ ParseScenarios(o.scenario) # <<>>
    /\ ParseFormats(o.formats) # <<>>
    /\ o.tier \in {"S0", "S1", "S2", "S3", "S4", "all"}
    /\ o.compression \in {"gzip", "zstd"}
    /\ o.iterations >= 1 /\ o.batch >= 1

(* The arguments of build_report that the report depends on. *)
Arguments(o) ==
    [tier |-> o.tier, profiles |-> ParseScenarios(o.scenario),
     formats |-> ParseFormats(o.formats), seed |-> o.seed,
     compression |-> o.compression, iterations |-> o.iterations,
     batch |-> o.batch, s1_level |-> o.s1_level]
==============================================================================
