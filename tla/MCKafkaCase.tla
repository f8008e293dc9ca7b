------------------------------ MODULE MCKafkaCase ------------------------------
(* Two warm-up and three timed records, so that batches of every size and a   *)
(* rebalance in the middle of the read happen; two tests, the first of which  *)
(* attaches the rows of three cases, so that a case raises after another has    *)
(* returned, and a test starts after one has failed.                          *)
EXTENDS KafkaReport

MCTests == << [formats |-> <<"json", "avro", "protobuf">>, attaches |-> TRUE],
              [formats |-> <<"json">>, attaches |-> FALSE] >>
==============================================================================
