------------------------------ MODULE KafkaReport ------------------------------
(***************************************************************************)
(* A session of the Kafka tests (test_kafka_distributed.py): its tests run  *)
(* one after the other against one broker.  A test runs a case per codec,   *)
(* collects the rows, and may attach them to a report as kafka_e2e.  The    *)
(* case that runs is KafkaCase; each has a topic, a group and clients of    *)
(* its own, and nothing of it is left when the next one starts.             *)
(***************************************************************************)
EXTENDS KafkaCase, Sequences, SequencesExt

CONSTANT Tests      \* the tests in their order: [formats, attaches]

ASSUME KafkaReportAssumption ==
    /\ DOMAIN Tests = 1..Len(Tests) /\ Len(Tests) \in Nat
    /\ \A t \in DOMAIN Tests :
         /\ DOMAIN Tests[t].formats = 1..Len(Tests[t].formats)
         /\ Len(Tests[t].formats) \in Nat \ {0}

VARIABLES
    test,           \* the test that runs, Len(Tests) + 1 in the end
    cases,          \* the rows of this test's cases so far
    block,          \* report["kafka_e2e"]: [state, cases], the state "absent",
                    \*   "earlier" (of an earlier session) or "attached"
    integrations    \* report["scenario"]["integrations"], <<>> if not there

session == <<test, cases, block, integrations>>
allvars == <<vars, session>>

Running == test \in DOMAIN Tests
Formats == Tests[test].formats

(* The report is new, or one that another session attached its rows to. *)
SessionInit ==
    /\ Init
    /\ test = 1 /\ cases = <<>>
    /\ \/ block = [state |-> "absent", cases |-> <<>>] /\ integrations = <<>>
       \/ /\ block = [state |-> "earlier", cases |-> <<>>]
          /\ integrations = <<"kafka_e2e">>

(* A call of benchmark_kafka_case: a new topic, group and clients. *)
NewCase ==
    /\ pc' = "admin" /\ exc' = FALSE
    /\ admin' = "none" /\ producer' = "none" /\ consumer' = "none"
    /\ topic' = "absent" /\ log' = 0 /\ inflight' = FALSE
    /\ acked' = 0 /\ window' = [lo |-> -1, hi |-> -1]
    /\ assigned' = FALSE /\ position' = 0 /\ got' = 0 /\ seen' = {}
    /\ rebalances' = 0

(* The numbers of a case that returned, and what the broker saw of it. *)
Row ==
    [codec |-> Formats[Len(cases) + 1], timed_messages |-> Timed,
     messages_read |-> Total, log |-> log, window |-> window]

CaseReturns ==
    /\ Running /\ Returned /\ Len(cases) < Len(Formats)
    /\ cases' = Append(cases, Row)
    /\ NewCase
    /\ UNCHANGED <<test, block, integrations>>

(* The exception ends the test: the rows of its earlier cases are lost, and   *)
(* the session goes on with the next test.                                    *)
CaseRaises ==
    /\ Running /\ pc = "done" /\ exc
    /\ test' = test + 1 /\ cases' = <<>>
    /\ NewCase
    /\ UNCHANGED <<block, integrations>>

(* Mutant of Named: the name is added each time. *)
NamedAgain(names) == Append(names, "kafka_e2e")

Named(names) ==
    IF "kafka_e2e" \in Range(names) THEN names ELSE Append(names, "kafka_e2e")

(* The test has all its rows: build_kafka_e2e_block and                       *)
(* attach_kafka_e2e_to_report, if the test makes a report at all.             *)
EndTest ==
    /\ Running /\ Len(cases) = Len(Formats)
    /\ test' = test + 1 /\ cases' = <<>>
    /\ IF Tests[test].attaches
       THEN /\ block' = [state |-> "attached", cases |-> cases]
            /\ integrations' = Named(integrations)
       ELSE UNCHANGED <<block, integrations>>
    /\ UNCHANGED vars

InCase(A) == Running /\ Len(cases) < Len(Formats) /\ A /\ UNCHANGED session

Thread == InCase(Harness) \/ CaseReturns \/ CaseRaises \/ EndTest

SessionNext == InCase(Next) \/ CaseReturns \/ CaseRaises \/ EndTest

(* As in a case: the thread runs on, the broker appends and assigns. *)
SessionFairness ==
    /\ WF_allvars(Thread)
    /\ WF_allvars(InCase(BrokerAppends)) /\ WF_allvars(InCase(PollAssigns))

SessionSpec == SessionInit /\ [][SessionNext]_allvars /\ SessionFairness

-----------------------------------------------------------------------------
WholeRow(row, format) ==
    /\ row.codec = format
    /\ row.messages_read = row.log
    /\ row.window.hi - row.window.lo = row.timed_messages

(* A report gets the rows of all codecs or keeps what it had: one row per     *)
(* codec, in the order the test asked for, of a case whose numbers are those  *)
(* of the broker, whichever cases before or after it raised.  However often   *)
(* rows are attached, the scenario names the integration exactly once.        *)
BlockIsWhole ==
    /\ block.state = "attached" =>
         \E t \in DOMAIN Tests :
           /\ t < test /\ Tests[t].attaches
           /\ Len(block.cases) = Len(Tests[t].formats)
           /\ \A k \in DOMAIN Tests[t].formats :
                WholeRow(block.cases[k], Tests[t].formats[k])
    /\ integrations = IF block.state = "absent" THEN <<>> ELSE <<"kafka_e2e">>

(* The session ends, whatever its cases return or raise, if the broker        *)
(* acknowledges and assigns: no other wait of a case is unbounded.            *)
SessionEnds == <>(test = Len(Tests) + 1)
==============================================================================
