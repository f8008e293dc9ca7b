--------------------------- MODULE KafkaReport_proof ---------------------------
(***************************************************************************)
(* Proofs about KafkaCase, for every number of warm-up and timed messages   *)
(* and of rebalances, and about KafkaReport, for every sequence of tests:   *)
(* the invariant of a case holds throughout the session, and what is        *)
(* attached to the report is whole.                                         *)
(***************************************************************************)
EXTENDS KafkaReport, TLAPS


Early     == {"admin", "create", "serialize", "producer"}
Producing == {"send", "ack", "close_producer"}
Consuming == {"assign", "seek", "read", "close_consumer"}

(* The log is what was acknowledged, plus what is on its way. *)
ProduceInv ==
    /\ inflight => pc \in {"ack", "close_producer"}
    /\ pc \in Early =>
         log = 0 /\ acked = 0 /\ window.lo = -1 /\ window.hi = -1
    /\ pc = "send" => log = acked
    /\ pc = "ack" => /\ log = IF inflight THEN acked ELSE acked + 1
                     /\ acked < Total
                     /\ acked >= Warmup => window.lo # -1
    /\ window.lo \in {-1, Warmup}
    /\ acked > Warmup => window.lo # -1
    /\ pc \in {"close_producer", "consumer"} \cup Consuming \cup {"cleanup", "done"}
         /\ (pc \in {"consumer"} \cup Consuming \/ ~exc) =>
            /\ ~inflight /\ log = Total /\ acked = Total
            /\ window.lo = Warmup /\ window.hi = Total

(* The records delivered are the ones before the position. *)
ConsumeInv ==
    /\ position =< log
    /\ pc \notin {"read", "close_consumer", "cleanup", "done"} =>
         got = 0 /\ seen = {} /\ rebalances = 0
    /\ pc = "read" /\ rebalances = 0 => position = got /\ seen = 0..(got - 1)
    /\ pc \in {"close_consumer", "cleanup", "done"} /\ ~exc =>
         got = Total /\ (rebalances = 0 => seen = 0..(Total - 1))

(* Which clients are open where. *)
ClientInv ==
    /\ exc => pc \in {"close_producer", "close_consumer", "cleanup", "done"}
    /\ producer = "open" <=> pc \in Producing
    /\ consumer = "open" <=> pc \in Consuming
    /\ pc \in Early => producer = "none"
    /\ pc \in {"consumer"} \cup Consuming => producer = "closed"
    /\ pc \notin {"admin", "create", "done"} => topic = "exists"
    /\ pc \in {"admin", "create"} => topic = "absent"
    /\ pc = "admin" => admin = "none"
    /\ pc = "done" /\ admin = "open" => topic = "exists" /\ producer = "none"
    /\ pc = "done" /\ topic = "exists" => exc /\ log = 0 /\ ~inflight

Inv == TypeOK /\ ProduceInv /\ ConsumeInv /\ ClientInv

USE KafkaCaseAssumption DEF Total, ClientState, Early, Producing, Consuming

(* The starting state satisfies the invariant. *)
LEMMA InitInv == Init => Inv
  <1> SUFFICES ASSUME Init PROVE Inv
    OBVIOUS
  <1>a. exc \in BOOLEAN /\ inflight \in BOOLEAN /\ assigned \in BOOLEAN
    BY Zenon DEF Init
  <1>b. window \in [lo : Int, hi : Int] /\ window.lo = -1 /\ window.hi = -1
    BY DEF Init
  <1>1. TypeOK
    BY <1>a, <1>b DEF Init, TypeOK
  <1>2. QED
    BY <1>1, <1>b DEF Init, Inv, ProduceInv, ConsumeInv, ClientInv

(* Every step preserves the invariant. *)
LEMMA NextInv == Inv /\ [Next]_vars => Inv'
  <1> SUFFICES ASSUME Inv, [Next]_vars PROVE Inv'
    OBVIOUS
  <1> USE DEF Inv, clients, broker, reading
  <1>1. CASE ConnectAdmin
    <2>1. TypeOK'
      BY <1>1 DEF ConnectAdmin, TypeOK, ProduceInv
    <2>2. ProduceInv'
      BY <1>1 DEF ConnectAdmin, TypeOK, ProduceInv, ClientInv
    <2>3. ConsumeInv'
      BY <1>1 DEF ConnectAdmin, TypeOK, ConsumeInv
    <2>4. ClientInv'
      BY <1>1 DEF ConnectAdmin, TypeOK, ClientInv
    <2>5. QED
      BY <2>1, <2>2, <2>3, <2>4
  <1>2. CASE CreateTopic
    <2>1. TypeOK'
      BY <1>2 DEF CreateTopic, TypeOK, ProduceInv
    <2>2. ProduceInv'
      BY <1>2 DEF CreateTopic, TypeOK, ProduceInv, ClientInv
    <2>3. ConsumeInv'
      BY <1>2 DEF CreateTopic, TypeOK, ConsumeInv
    <2>4. ClientInv'
      BY <1>2 DEF CreateTopic, TypeOK, ClientInv
    <2>5. QED
      BY <2>1, <2>2, <2>3, <2>4
  <1>3. CASE CreateRaises
    <2>1. TypeOK'
      BY <1>3 DEF CreateRaises, TypeOK, ProduceInv
    <2>2. ProduceInv'
      BY <1>3 DEF CreateRaises, TypeOK, ProduceInv, ClientInv
    <2>3. ConsumeInv'
      BY <1>3 DEF CreateRaises, TypeOK, ConsumeInv
    <2>4. ClientInv'
      BY <1>3 DEF CreateRaises, TypeOK, ProduceInv, ClientInv
    <2>5. QED
      BY <2>1, <2>2, <2>3, <2>4
  <1>4. CASE Serialize
    <2>1. TypeOK'
      BY <1>4 DEF Serialize, TypeOK, ProduceInv
    <2>2. ProduceInv'
      BY <1>4 DEF Serialize, TypeOK, ProduceInv, ClientInv
    <2>3. ConsumeInv'
      BY <1>4 DEF Serialize, TypeOK, ConsumeInv
    <2>4. ClientInv'
      BY <1>4 DEF Serialize, TypeOK, ClientInv
    <2>5. QED
      BY <2>1, <2>2, <2>3, <2>4
  <1>5. CASE EarlyRaises
    <2>1. TypeOK'
      BY <1>5 DEF EarlyRaises, TypeOK, ProduceInv
    <2>2. ProduceInv'
      BY <1>5 DEF EarlyRaises, TypeOK, ProduceInv, ClientInv
    <2>3. ConsumeInv'
      BY <1>5 DEF EarlyRaises, TypeOK, ConsumeInv
    <2>4. ClientInv'
      BY <1>5 DEF EarlyRaises, TypeOK, ProduceInv, ClientInv
    <2>5. QED
      BY <2>1, <2>2, <2>3, <2>4
  <1>6. CASE OpenProducer
    <2>1. TypeOK'
      BY <1>6 DEF OpenProducer, TypeOK, ProduceInv
    <2>2. ProduceInv'
      BY <1>6 DEF OpenProducer, TypeOK, ProduceInv, ClientInv
    <2>3. ConsumeInv'
      BY <1>6 DEF OpenProducer, TypeOK, ConsumeInv
    <2>4. ClientInv'
      BY <1>6 DEF OpenProducer, TypeOK, ClientInv
    <2>5. QED
      BY <2>1, <2>2, <2>3, <2>4
  <1>7. CASE StartWindow
    <2>1. /\ window' \in [lo : Int, hi : Int]
          /\ window'.lo = log /\ window'.hi = window.hi
      BY <1>7 DEF StartWindow, TypeOK
    <2>2. TypeOK'
      BY <1>7, <2>1 DEF StartWindow, TypeOK
    <2>3. ProduceInv'
      BY <1>7, <2>1 DEF StartWindow, TypeOK, ProduceInv, ClientInv
    <2>4. ConsumeInv' /\ ClientInv'
      BY <1>7 DEF StartWindow, ConsumeInv, ClientInv
    <2>5. QED
      BY <2>2, <2>3, <2>4
  <1>8. CASE Send
    <2>1. TypeOK'
      BY <1>8 DEF Send, TypeOK, ProduceInv
    <2>2. ProduceInv'
      BY <1>8 DEF Send, TypeOK, ProduceInv, ClientInv
    <2>3. ConsumeInv'
      BY <1>8 DEF Send, TypeOK, ConsumeInv
    <2>4. ClientInv'
      BY <1>8 DEF Send, TypeOK, ClientInv
    <2>5. QED
      BY <2>1, <2>2, <2>3, <2>4
  <1>9. CASE GetAck
    <2>1. TypeOK'
      BY <1>9 DEF GetAck, Acknowledged, TypeOK, ProduceInv
    <2>2. ProduceInv'
      BY <1>9 DEF GetAck, Acknowledged, TypeOK, ProduceInv, ClientInv
    <2>3. ConsumeInv'
      BY <1>9 DEF GetAck, TypeOK, ConsumeInv
    <2>4. ClientInv'
      BY <1>9 DEF GetAck, TypeOK, ClientInv
    <2>5. QED
      BY <2>1, <2>2, <2>3, <2>4
  <1>10. CASE EndWindow
    <2>1. /\ window' \in [lo : Int, hi : Int]
          /\ window'.hi = log /\ window'.lo = window.lo
      BY <1>10 DEF EndWindow, TypeOK
    <2>2. TypeOK'
      BY <1>10, <2>1 DEF EndWindow, TypeOK
    <2>3. ProduceInv'
      BY <1>10, <2>1 DEF EndWindow, TypeOK, ProduceInv, ClientInv
    <2>4. ConsumeInv' /\ ClientInv'
      BY <1>10 DEF EndWindow, ConsumeInv, ClientInv
    <2>5. QED
      BY <2>2, <2>3, <2>4
  <1>11. CASE SendRaises
    <2>1. TypeOK'
      BY <1>11 DEF SendRaises, TypeOK, ProduceInv
    <2>2. ProduceInv'
      BY <1>11 DEF SendRaises, TypeOK, ProduceInv, ClientInv
    <2>3. ConsumeInv'
      BY <1>11 DEF SendRaises, TypeOK, ConsumeInv
    <2>4. ClientInv'
      BY <1>11 DEF SendRaises, TypeOK, ClientInv
    <2>5. QED
      BY <2>1, <2>2, <2>3, <2>4
  <1>12. CASE CloseProducer
    <2>1. TypeOK'
      BY <1>12 DEF CloseProducer, TypeOK, ProduceInv
    <2>2. ProduceInv'
      BY <1>12 DEF CloseProducer, TypeOK, ProduceInv, ClientInv
    <2>3. ConsumeInv'
      BY <1>12 DEF CloseProducer, TypeOK, ConsumeInv
    <2>4. ClientInv'
      BY <1>12 DEF CloseProducer, TypeOK, ClientInv
    <2>5. QED
      BY <2>1, <2>2, <2>3, <2>4
  <1>13. CASE BrokerAppends
    <2>a. inflight' \in BOOLEAN
      BY <1>13, Zenon DEF BrokerAppends
    <2>b. log' \in Nat
      BY <1>13 DEF BrokerAppends, TypeOK
    <2>1. TypeOK'
      BY <1>13, <2>a, <2>b DEF BrokerAppends, TypeOK
    <2>2. ProduceInv'
      BY <1>13 DEF BrokerAppends, TypeOK, ProduceInv, ClientInv
    <2>3. ConsumeInv'
      BY <1>13 DEF BrokerAppends, TypeOK, ConsumeInv
    <2>4. ClientInv'
      BY <1>13 DEF BrokerAppends, TypeOK, ClientInv
    <2>5. QED
      BY <2>1, <2>2, <2>3, <2>4
  <1>14. CASE OpenConsumer
    <2>1. TypeOK'
      BY <1>14 DEF OpenConsumer, TypeOK, ProduceInv
    <2>2. ProduceInv'
      BY <1>14 DEF OpenConsumer, TypeOK, ProduceInv, ClientInv
    <2>3. ConsumeInv'
      BY <1>14 DEF OpenConsumer, TypeOK, ConsumeInv
    <2>4. ClientInv'
      BY <1>14 DEF OpenConsumer, TypeOK, ClientInv
    <2>5. QED
      BY <2>1, <2>2, <2>3, <2>4
  <1>15. CASE PollAssigns
    <2>1. TypeOK'
      BY <1>15 DEF PollAssigns, TypeOK, ProduceInv
    <2>2. ProduceInv'
      BY <1>15 DEF PollAssigns, TypeOK, ProduceInv, ClientInv
    <2>3. ConsumeInv'
      BY <1>15 DEF PollAssigns, TypeOK, ConsumeInv
    <2>4. ClientInv'
      BY <1>15 DEF PollAssigns, TypeOK, ClientInv
    <2>5. QED
      BY <2>1, <2>2, <2>3, <2>4
  <1>16. CASE SeekToBeginning
    <2>1. TypeOK'
      BY <1>16 DEF SeekToBeginning, TypeOK, ProduceInv
    <2>2. ProduceInv'
      BY <1>16 DEF SeekToBeginning, TypeOK, ProduceInv, ClientInv
    <2>3. ConsumeInv'
      BY <1>16 DEF SeekToBeginning, TypeOK, ConsumeInv
    <2>4. ClientInv'
      BY <1>16 DEF SeekToBeginning, TypeOK, ClientInv
    <2>5. QED
      BY <2>1, <2>2, <2>3, <2>4
  <1>17. CASE EndRead
    <2>1. TypeOK'
      BY <1>17 DEF EndRead, TypeOK, ProduceInv
    <2>2. ProduceInv'
      BY <1>17 DEF EndRead, TypeOK, ProduceInv, ClientInv
    <2>3. ConsumeInv'
      BY <1>17 DEF EndRead, TypeOK, ConsumeInv
    <2>4. ClientInv'
      BY <1>17 DEF EndRead, TypeOK, ClientInv
    <2>5. QED
      BY <2>1, <2>2, <2>3, <2>4
  <1>18. CASE Rebalance
    <2>1. TypeOK'
      BY <1>18 DEF Rebalance, TypeOK, ProduceInv
    <2>2. ProduceInv'
      BY <1>18 DEF Rebalance, TypeOK, ProduceInv, ClientInv
    <2>3. ConsumeInv'
      BY <1>18 DEF Rebalance, TypeOK, ConsumeInv
    <2>4. ClientInv'
      BY <1>18 DEF Rebalance, TypeOK, ClientInv
    <2>5. QED
      BY <2>1, <2>2, <2>3, <2>4
  <1>19. CASE ConstructorRaises
    <2>1. TypeOK'
      BY <1>19 DEF ConstructorRaises, TypeOK, ProduceInv
    <2>2. ProduceInv'
      BY <1>19 DEF ConstructorRaises, TypeOK, ProduceInv, ClientInv
    <2>3. ConsumeInv'
      BY <1>19 DEF ConstructorRaises, TypeOK, ConsumeInv
    <2>4. ClientInv'
      BY <1>19 DEF ConstructorRaises, TypeOK, ClientInv
    <2>5. QED
      BY <2>1, <2>2, <2>3, <2>4
  <1>20. CASE ConsumeRaises
    <2>1. TypeOK'
      BY <1>20 DEF ConsumeRaises, TypeOK, ProduceInv
    <2>2. ProduceInv'
      BY <1>20 DEF ConsumeRaises, TypeOK, ProduceInv, ClientInv
    <2>3. ConsumeInv'
      BY <1>20 DEF ConsumeRaises, TypeOK, ConsumeInv
    <2>4. ClientInv'
      BY <1>20 DEF ConsumeRaises, TypeOK, ClientInv
    <2>5. QED
      BY <2>1, <2>2, <2>3, <2>4
  <1>21. CASE CloseConsumer
    <2>1. TypeOK'
      BY <1>21 DEF CloseConsumer, TypeOK, ProduceInv
    <2>2. ProduceInv'
      BY <1>21 DEF CloseConsumer, TypeOK, ProduceInv, ClientInv
    <2>3. ConsumeInv'
      BY <1>21 DEF CloseConsumer, TypeOK, ConsumeInv
    <2>4. ClientInv'
      BY <1>21 DEF CloseConsumer, TypeOK, ClientInv
    <2>5. QED
      BY <2>1, <2>2, <2>3, <2>4
  <1>22. CASE Cleanup
    <2>1. TypeOK'
      BY <1>22 DEF Cleanup, TypeOK, ProduceInv
    <2>2. ProduceInv'
      BY <1>22 DEF Cleanup, TypeOK, ProduceInv, ClientInv
    <2>3. ConsumeInv'
      BY <1>22 DEF Cleanup, TypeOK, ConsumeInv
    <2>4. ClientInv'
      BY <1>22 DEF Cleanup, TypeOK, ClientInv
    <2>5. QED
      BY <2>1, <2>2, <2>3, <2>4
  <1>23. CASE PollRecords
    <2>1. PICK n \in 1..(log - position) :
            /\ got' = got + n
            /\ seen' = seen \cup position..(position + n - 1)
            /\ position' = position + n
      BY <1>23 DEF PollRecords
    <2>2. TypeOK'
      BY <1>23, <2>1 DEF PollRecords, TypeOK
    <2>3. ConsumeInv'
      BY <1>23, <2>1 DEF PollRecords, ConsumeInv, TypeOK
    <2>4. ProduceInv' /\ ClientInv'
      BY <1>23 DEF PollRecords, ProduceInv, ClientInv
    <2>5. QED
      BY <2>2, <2>3, <2>4
  <1>24. CASE UNCHANGED vars
    BY <1>24 DEF vars, TypeOK, ProduceInv, ConsumeInv, ClientInv
  <1>25. QED
    BY <1>1, <1>2, <1>3, <1>4, <1>5, <1>6, <1>7, <1>8, <1>9, <1>10, <1>11, <1>12,
       <1>13, <1>14, <1>15, <1>16, <1>17, <1>18, <1>19, <1>20, <1>21, <1>22, <1>23, <1>24
       DEF Next, Harness, Faults

(* The invariant holds in every reachable state. *)
LEMMA Invariance == Spec => []Inv
  BY InitInv, NextInv, PTL DEF Spec

(* Type correctness of the case, its clients and the broker. *)
THEOREM TypeCorrect == Spec => []TypeOK
  <1>1. Inv => TypeOK
    BY DEF Inv
  <1>2. QED
    BY <1>1, Invariance, PTL

(* For every number of messages: a result is reported only when every record  *)
(* was acknowledged, is in the log once and was counted.                      *)
THEOREM ResultsAreComplete == Spec => []ResultIsComplete
  <1>1. Inv => ResultIsComplete
    BY DEF Inv, ProduceInv, ConsumeInv, ResultIsComplete, Returned
  <1>2. QED
    BY <1>1, Invariance, PTL

(* For every number of messages: without a rebalance the count stands for     *)
(* every record of the log.                                                   *)
THEOREM ResultsReadEveryRecord == Spec => []ResultReadEveryRecord
  <1>1. Inv => ResultReadEveryRecord
    BY DEF Inv, ConsumeInv, ResultReadEveryRecord, Returned
  <1>2. QED
    BY <1>1, Invariance, PTL

(* For every number of messages: the timed produce window holds the appends   *)
(* of the timed sends, all of them and no other.                              *)
THEOREM WindowsAreTheTimedSends == Spec => []WindowIsTheTimedSends
  <1>1. Inv => WindowIsTheTimedSends
    BY DEF Inv, TypeOK, ProduceInv, WindowIsTheTimedSends, Returned
  <1>2. QED
    BY <1>1, Invariance, PTL

(* Wherever an exception strikes, the clients end up closed and a topic that  *)
(* nobody asked to delete is empty.                                           *)
THEOREM CasesCleanUp == Spec => []CaseCleansUp
  <1>1. Inv => CaseCleansUp
    BY DEF Inv, ClientInv, CaseCleansUp
  <1>2. QED
    BY <1>1, Invariance, PTL

-----------------------------------------------------------------------------
(* Rows collected by the test: one per codec so far, in order. *)
RowsInv ==
    Running =>
      /\ \E Rows : cases \in Seq(Rows)
      /\ Len(cases) \in 0..Len(Formats)
      /\ \A k \in 1..Len(cases) : WholeRow(cases[k], Formats[k])

SessionInv ==
    /\ Inv
    /\ test \in 1..(Len(Tests) + 1)
    /\ RowsInv
    /\ BlockIsWhole

(* A case that is called anew starts as the first one did. *)
LEMMA NewCaseInv == NewCase => Inv'
  <1>1. NewCase => Init'
    BY DEF NewCase, Init
  <1>2. Init' => Inv'
    BY InitInv, PTL
  <1> QED
    BY <1>1, <1>2

(* What a session has attached stays whole while the tests go on. *)
LEMMA BlockStays ==
  ASSUME BlockIsWhole, test \in Nat, test' \in Nat, test =< test',
         UNCHANGED <<block, integrations>>
  PROVE  BlockIsWhole'
  <1>1. \A t \in DOMAIN Tests : t \in Nat
    BY KafkaReportAssumption
  <1> QED
    BY <1>1 DEF BlockIsWhole, WholeRow

LEMMA SessionStarts == SessionInit => SessionInv
  <1> SUFFICES ASSUME SessionInit PROVE SessionInv
    OBVIOUS
  <1>1. Inv
    BY InitInv DEF SessionInit
  <1>2. test \in 1..(Len(Tests) + 1)
    BY KafkaReportAssumption DEF SessionInit
  <1>3. RowsInv
    <2>1. Running => Len(Formats) \in Nat
      BY KafkaReportAssumption DEF Running, Formats
    <2> QED
      BY <2>1 DEF SessionInit, RowsInv
  <1>4. BlockIsWhole
    BY DEF SessionInit, BlockIsWhole
  <1> QED
    BY <1>1, <1>2, <1>3, <1>4 DEF SessionInv

(* The next test starts without rows. *)
LEMMA NoRows ==
  ASSUME cases' = <<>>
  PROVE  RowsInv'
  <1>1. Running' => Len(Formats') \in Nat
    BY KafkaReportAssumption DEF Running, Formats
  <1> QED
    BY <1>1 DEF RowsInv

LEMMA SessionSteps == SessionInv /\ [SessionNext]_allvars => SessionInv'
  <1> SUFFICES ASSUME SessionInv, [SessionNext]_allvars PROVE SessionInv'
    OBVIOUS
  <1> USE DEF SessionInv
  <1>1. CASE InCase(Next)
    <2>1. Inv'
      BY <1>1, NextInv DEF InCase
    <2>2. UNCHANGED session
      BY <1>1 DEF InCase
    <2> QED
      BY <2>1, <2>2, KafkaReportAssumption, BlockStays
      DEF session, RowsInv, Running, Formats, WholeRow
  <1>2. CASE CaseReturns
    <2>1. Inv'
      BY <1>2, NewCaseInv DEF CaseReturns
    <2>2. /\ Running /\ Len(Formats) \in Nat
          /\ Len(cases) \in Nat /\ Len(cases) < Len(Formats)
          /\ UNCHANGED <<test, block, integrations>> /\ Running' /\ Formats' = Formats
      BY <1>2, KafkaReportAssumption DEF CaseReturns, RowsInv, Running, Formats
    <2>3. WholeRow(Row, Formats[Len(cases) + 1])
      <3>1. window.lo = Warmup /\ window.hi = Total /\ log = Total
        BY <1>2 DEF CaseReturns, Returned, Inv, ProduceInv
      <3>2. /\ Row.codec = Formats[Len(cases) + 1] /\ Row.timed_messages = Timed
            /\ Row.messages_read = Total /\ Row.log = log /\ Row.window = window
        BY DEF Row
      <3> QED
        BY <3>1, <3>2, KafkaCaseAssumption DEF WholeRow, Total
    <2>4. RowsInv'
      <3>1. PICK Rows : cases \in Seq(Rows)
        BY <2>2 DEF RowsInv
      <3>2. cases' = Append(cases, Row)
        BY <1>2 DEF CaseReturns
      <3>3. /\ cases' \in Seq(Rows \cup {Row})
            /\ Len(cases') = Len(cases) + 1
            /\ \A k \in 1..Len(cases) : cases'[k] = cases[k]
            /\ cases'[Len(cases) + 1] = Row
        <4> HIDE DEF Row
        <4>1. cases \in Seq(Rows \cup {Row}) /\ Row \in Rows \cup {Row}
          BY <3>1
        <4> QED
          BY <3>2, <4>1
      <3>4. \A k \in 1..Len(cases') : WholeRow(cases'[k], Formats[k])
        BY <2>2, <2>3, <3>3 DEF RowsInv
      <3> QED
        BY <2>2, <3>3, <3>4 DEF RowsInv, WholeRow
    <2> QED
      BY <2>1, <2>2, <2>4, KafkaReportAssumption, BlockStays
  <1>3. CASE CaseRaises
    <2>1. Inv' /\ RowsInv'
      BY <1>3, NewCaseInv, NoRows DEF CaseRaises
    <2>2. /\ test \in Nat /\ test' \in 1..(Len(Tests) + 1) /\ test =< test'
          /\ UNCHANGED <<block, integrations>>
      BY <1>3, KafkaReportAssumption DEF CaseRaises, Running
    <2> QED
      BY <2>1, <2>2, KafkaReportAssumption, BlockStays
  <1>4. CASE EndTest
    <2>1. Inv'
      BY <1>4, NextInv DEF EndTest
    <2>2. RowsInv'
      BY <1>4, NoRows DEF EndTest
    <2>3. /\ test \in Nat /\ test' = test + 1 /\ test' \in 1..(Len(Tests) + 1)
          /\ test \in DOMAIN Tests
      BY <1>4, KafkaReportAssumption DEF EndTest, Running
    <2>4. CASE Tests[test].attaches
      <3>1. /\ block' = [state |-> "attached", cases |-> cases]
            /\ integrations' = Named(integrations)
        BY <1>4, <2>4 DEF EndTest
      <3>2. /\ Len(cases) = Len(Tests[test].formats)
            /\ \A k \in DOMAIN Tests[test].formats :
                 WholeRow(cases[k], Tests[test].formats[k])
        BY <1>4, KafkaReportAssumption DEF EndTest, RowsInv, Running, Formats
      <3>3. integrations' = <<"kafka_e2e">>
        <4>1. CASE integrations = <<>>
          BY <3>1, <4>1 DEF Named, Range
        <4>2. CASE integrations = <<"kafka_e2e">>
          BY <3>1, <4>2 DEF Named, Range
        <4> QED
          BY <4>1, <4>2 DEF BlockIsWhole
      <3>4. test < test' /\ block'.state = "attached" /\ block'.cases = cases
        BY <2>3, <3>1
      <3>5. BlockIsWhole'
        BY <2>3, <2>4, <3>2, <3>3, <3>4 DEF BlockIsWhole, WholeRow
      <3> QED
        BY <2>1, <2>2, <2>3, <3>5
    <2>5. CASE ~Tests[test].attaches
      <3>1. UNCHANGED <<block, integrations>>
        BY <1>4, <2>5 DEF EndTest
      <3> QED
        BY <2>1, <2>2, <2>3, <3>1, BlockStays
    <2> QED
      BY <2>4, <2>5
  <1>5. CASE UNCHANGED allvars
    <2>1. Inv' /\ UNCHANGED session
      BY <1>5, NextInv DEF allvars
    <2> QED
      BY <2>1, KafkaReportAssumption, BlockStays
      DEF session, RowsInv, Running, Formats, WholeRow
  <1> QED
    BY <1>1, <1>2, <1>3, <1>4, <1>5 DEF SessionNext

LEMMA SessionInvariance == SessionSpec => []SessionInv
  BY SessionStarts, SessionSteps, PTL DEF SessionSpec

(* For every sequence of tests: the report gets a whole block or none, and    *)
(* the scenario names the integration once.                                   *)
THEOREM BlocksAreWhole == SessionSpec => []BlockIsWhole
  <1>1. SessionInv => BlockIsWhole
    BY DEF SessionInv
  <1> QED
    BY <1>1, SessionInvariance, PTL

(* What is shown of one case holds of each case of a session:                 *)
(* those before it leave nothing that it could count.                         *)
THEOREM EveryCaseIsComplete ==
    SessionSpec => []/\ ResultIsComplete /\ ResultReadEveryRecord
                     /\ WindowIsTheTimedSends /\ CaseCleansUp
  <1>1. Inv => ResultIsComplete /\ ResultReadEveryRecord
    BY DEF Inv, ProduceInv, ConsumeInv, ResultIsComplete, ResultReadEveryRecord,
       Returned
  <1>2. Inv => WindowIsTheTimedSends
    BY DEF Inv, TypeOK, ProduceInv, WindowIsTheTimedSends, Returned
  <1>3. Inv => CaseCleansUp
    BY DEF Inv, ClientInv, Producing, Consuming, Early, CaseCleansUp
  <1>4. SessionInv => Inv
    BY DEF SessionInv
  <1> QED
    BY <1>1, <1>2, <1>3, <1>4, SessionInvariance, PTL

-----------------------------------------------------------------------------
(* A session never hangs on anything but the broker, and every step brings it *)
(* nearer to its end.                                                         *)

(* The guards of a case: of the thread and, where the case waits for it, of   *)
(* the broker, which appends and assigns.  An exception is not among them.    *)
CaseCanRun ==
    \/ pc \notin {"send", "ack", "done"}
    \/ pc = "send" /\ acked = Warmup /\ window.lo = -1
    \/ pc = "send" /\ acked < Total /\ (acked >= Warmup => window.lo # -1)
    \/ pc = "send" /\ acked = Total /\ window.lo # -1
    \/ pc = "ack" /\ Acknowledged
    \/ inflight /\ topic = "exists"

NeverHangs ==
    Running =>
      \/ Len(cases) < Len(Formats) /\ (CaseCanRun \/ Returned)
      \/ pc = "done" /\ exc
      \/ Len(cases) = Len(Formats)

(* What is left of a case: records to send, to append and to count, the start *)
(* of the window, rebalances, and the way to the end.                         *)
WayLeft ==
    IF pc = "admin" THEN 14 ELSE IF pc = "create" THEN 13
    ELSE IF pc = "serialize" THEN 12 ELSE IF pc = "producer" THEN 11
    ELSE IF pc = "send" THEN 10 ELSE IF pc = "close_producer" THEN 7
    ELSE IF pc = "ack" THEN 8
    ELSE IF pc = "consumer" THEN 6 ELSE IF pc = "assign" THEN 5
    ELSE IF pc = "seek" THEN 4 ELSE IF pc = "read" THEN 3
    ELSE IF pc = "close_consumer" THEN 2 ELSE IF pc = "cleanup" THEN 1 ELSE 0

CaseLeft ==
    3 * (Total - acked) + (IF inflight THEN 1 ELSE 0)
    + (IF window.lo = -1 THEN 1 ELSE 0)
    + (IF got < Total THEN Total - got ELSE 0)
    + (MaxRebalances - rebalances) + WayLeft

CaseLeftTypes ==
    /\ Total - acked \in Nat /\ MaxRebalances - rebalances \in Nat
    /\ got \in Nat /\ WayLeft \in 0..14

LEMMA CaseLeftIsNat == Inv => CaseLeftTypes /\ CaseLeft \in Nat
  <1> SUFFICES ASSUME Inv PROVE CaseLeftTypes /\ CaseLeft \in Nat
    OBVIOUS
  <1>1. CaseLeftTypes
    BY DEF Inv, TypeOK, CaseLeftTypes, WayLeft
  <1> QED
    BY <1>1 DEF CaseLeftTypes, CaseLeft

(* Each step of a case, also an exception and a rebalance, uses up some of    *)
(* what is left of it.                                                        *)
LEMMA CaseStep ==
    ASSUME Inv, CaseLeftTypes, Next
    PROVE  CaseLeft' < CaseLeft
  <1> USE DEF Inv, clients, broker, reading
  <1>0. /\ Total \in Nat /\ acked \in Nat /\ rebalances \in Nat /\ got \in Nat
        /\ acked =< Total /\ rebalances =< MaxRebalances /\ log \in Nat
        /\ Total' = Total
    BY DEF TypeOK
  <1>1. CASE ConnectAdmin \/ CreateTopic \/ CreateRaises \/ Serialize
             \/ EarlyRaises \/ OpenProducer \/ OpenConsumer \/ PollAssigns
             \/ SeekToBeginning \/ EndRead \/ SendRaises \/ ConstructorRaises
             \/ ConsumeRaises \/ CloseConsumer \/ Cleanup
    <2>1. UNCHANGED <<acked, inflight, window, got, rebalances>>
      BY <1>1
      DEF ConnectAdmin, CreateTopic, CreateRaises, Serialize, EarlyRaises,
          OpenProducer, OpenConsumer, PollAssigns, SeekToBeginning, EndRead,
          SendRaises, ConstructorRaises, ConsumeRaises, CloseConsumer, Cleanup
    <2>2. WayLeft' < WayLeft
      BY <1>1
      DEF ConnectAdmin, CreateTopic, CreateRaises, Serialize, EarlyRaises,
          OpenProducer, OpenConsumer, PollAssigns, SeekToBeginning, EndRead,
          SendRaises, ConstructorRaises, ConsumeRaises, CloseConsumer, Cleanup,
          WayLeft
    <2> QED
      BY <1>0, <2>1, <2>2 DEF CaseLeft, CaseLeftTypes, WayLeft
  <1>2. CASE StartWindow
    BY <1>0, <1>2 DEF StartWindow, TypeOK, CaseLeft, WayLeft
  <1>3. CASE Send
    BY <1>0, <1>3 DEF Send, ProduceInv, CaseLeft, WayLeft
  <1>4. CASE GetAck
    BY <1>0, <1>4 DEF GetAck, Acknowledged, CaseLeft, WayLeft
  <1>5. CASE EndWindow
    <2>1. window'.lo = window.lo
      BY <1>5 DEF EndWindow, TypeOK
    <2>2. UNCHANGED <<acked, inflight, got, rebalances>> /\ WayLeft' < WayLeft
      BY <1>5 DEF EndWindow, WayLeft
    <2> QED
      BY <1>0, <2>1, <2>2 DEF CaseLeft, WayLeft
  <1>6. CASE CloseProducer
    BY <1>0, <1>6 DEF CloseProducer, CaseLeft, WayLeft
  <1>7. CASE BrokerAppends
    BY <1>0, <1>7 DEF BrokerAppends, CaseLeft, WayLeft
  <1>8. CASE PollRecords
    <2>1. PICK n \in 1..(log - position) : got' = got + n
      BY <1>8 DEF PollRecords
    <2>2. n \in Nat \ {0} /\ got < Total
      BY <1>0, <1>8, <2>1 DEF TypeOK, PollRecords
    <2> QED
      BY <1>0, <1>8, <2>1, <2>2 DEF PollRecords, CaseLeft, WayLeft
  <1>9. CASE Rebalance
    BY <1>0, <1>9 DEF Rebalance, CaseLeft, WayLeft
  <1> QED
    BY <1>1, <1>2, <1>3, <1>4, <1>5, <1>6, <1>7, <1>8, <1>9
    DEF Next, Harness, Faults

(* Until the session is over, the thread can go on, or the broker can do what *)
(* the thread waits for: no send waits for an acknowledgement that cannot     *)
(* come, and no case is left between its loops (kafka_e2e.py:22-158).         *)
THEOREM SessionNeverHangs == SessionSpec => []NeverHangs
  <1>1. ASSUME Inv, pc # "done" PROVE CaseCanRun
    <2> USE <1>1 DEF Inv, CaseCanRun
    <2>1. CASE pc = "send"
      <3>1. /\ acked \in Nat /\ acked =< Total /\ Warmup =< Total
            /\ acked > Warmup => window.lo # -1
        BY KafkaCaseAssumption DEF TypeOK, ProduceInv
      <3> QED
        BY <2>1, <3>1
    <2>2. CASE pc = "ack"
      BY <2>2 DEF Acknowledged, ClientInv
    <2>3. CASE pc \notin {"send", "ack"}
      BY <2>3
    <2> QED
      BY <2>1, <2>2, <2>3
  <1>2. ASSUME SessionInv PROVE NeverHangs
    <2>1. Inv /\ RowsInv
      BY <1>2 DEF SessionInv
    <2>2. Running => Len(cases) < Len(Formats) \/ Len(cases) = Len(Formats)
      BY <2>1, KafkaReportAssumption DEF RowsInv, Running, Formats
    <2>3. pc # "done" \/ exc \/ Returned
      BY DEF Returned
    <2> QED
      BY <1>1, <2>1, <2>2, <2>3 DEF NeverHangs
  <1>3. SessionInv => NeverHangs
    BY <1>2
  <1> QED
    BY <1>3, SessionInvariance, PTL

(* A session's place: the test, the case of the test, what is left of it.    *)
SessionBounds ==
    /\ test \in 1..(Len(Tests) + 1)
    /\ Running => Len(cases) \in 0..Len(Formats)
    /\ CaseLeft \in Nat

GoesOn ==
    \/ test' = test + 1
    \/ UNCHANGED test /\ Len(cases') = Len(cases) + 1
    \/ UNCHANGED <<test, cases>> /\ CaseLeft' < CaseLeft

(* Every step of a session brings it nearer to its end: it goes on to the     *)
(* next test, of finitely many; or to the next case of the test, of as many   *)
(* as the test has codecs; or within the case, of which a natural number of   *)
(* steps is left (kafka_e2e.py:22-158).  So whatever raises and is            *)
(* rebalanced, a session of any tests with any numbers of messages is finite. *)
THEOREM EveryStepCounts == SessionSpec => []SessionBounds /\ [][GoesOn]_allvars
  <1>1. SessionInv => SessionBounds /\ CaseLeftTypes
    BY CaseLeftIsNat DEF SessionInv, RowsInv, SessionBounds
  <1>2. SessionInv /\ CaseLeftTypes /\ [SessionNext]_allvars => [GoesOn]_allvars
    <2> SUFFICES ASSUME SessionInv, CaseLeftTypes, SessionNext PROVE GoesOn
      OBVIOUS
    <2>1. CASE InCase(Next)
      <3>1. UNCHANGED <<test, cases>>
        BY <2>1 DEF InCase, session
      <3>2. Inv /\ Next
        BY <2>1 DEF InCase, SessionInv
      <3> QED
        BY <3>1, <3>2, CaseStep DEF GoesOn
    <2>2. CASE CaseReturns
      <3>1. PICK Rows : cases \in Seq(Rows)
        BY <2>2 DEF CaseReturns, SessionInv, RowsInv
      <3>2. UNCHANGED test /\ cases' = Append(cases, Row)
        BY <2>2 DEF CaseReturns
      <3>3. cases \in Seq(Rows \cup {Row})
        BY <3>1
      <3> HIDE DEF Row
      <3>4. Len(cases') = Len(cases) + 1
        BY <3>2, <3>3
      <3> QED
        BY <3>2, <3>4 DEF GoesOn
    <2>3. CASE CaseRaises \/ EndTest
      BY <2>3 DEF CaseRaises, EndTest, GoesOn
    <2> QED
      BY <2>1, <2>2, <2>3 DEF SessionNext
  <1> QED
    BY <1>1, <1>2, SessionInvariance, PTL DEF SessionSpec
==============================================================================
