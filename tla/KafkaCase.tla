------------------------------- MODULE KafkaCase -------------------------------
(***************************************************************************)
(* benchmark_kafka_case (kafka_e2e.py): one topic is created, warm-up and   *)
(* timed records are published one at a time, a fresh consumer group reads  *)
(* them back, and the topic is deleted.  The harness thread is the code;    *)
(* the broker and the kafka-python clients are external, modelled from how  *)
(* the code uses them: an append may be acknowledged, refused, or happen    *)
(* after the client gave up; a poll may return nothing; a group may be      *)
(* rebalanced, which forgets uncommitted positions.  kafka-python's         *)
(* producer does not retry by default, so a record is appended at most once.*)
(***************************************************************************)
EXTENDS Integers

CONSTANTS
    Warmup,         \* warmup_messages
    Timed,          \* timed_messages
    MaxRebalances   \* bound on the rebalances of the group during the read

ASSUME KafkaCaseAssumption ==
    /\ Warmup \in Nat
    /\ Timed \in Nat
    /\ MaxRebalances \in Nat

VARIABLES
    pc,             \* where the harness thread is
    exc,            \* an exception is being propagated
    admin, producer, consumer,  \* clients: "none", "open" or "closed"
    topic,          \* "absent", "exists", "refused" (it exists, its deletion
                    \*   was refused) or "deleted" at the broker
    log,            \* records in the topic's partition
    inflight,       \* a record was sent and is not yet appended
    acked,          \* sends acknowledged
    window,         \* length of the log at t_p0 and at t_p1, -1 before
    assigned,       \* consumer.assignment() is not empty
    position,       \* next offset the consumer fetches
    got,            \* records counted
    seen,           \* offsets delivered to the read loop (history)
    rebalances      \* rebalances during the read so far

clients == <<admin, producer, consumer>>
broker  == <<topic, log, inflight>>
reading == <<assigned, position, got, seen, rebalances>>
vars == <<pc, exc, clients, broker, acked, window, reading>>

Total == Warmup + Timed
ClientState == {"none", "open", "closed"}

TypeOK ==
    /\ pc \in {"admin", "create", "serialize", "producer", "send", "ack",
               "close_producer", "consumer", "assign", "seek", "read",
               "close_consumer", "cleanup", "done"}
    /\ exc \in BOOLEAN
    /\ admin \in ClientState /\ producer \in ClientState
    /\ consumer \in ClientState
    /\ topic \in {"absent", "exists", "refused", "deleted"}
    /\ log \in Nat /\ inflight \in BOOLEAN
    /\ acked \in 0..Total
    /\ window \in [lo : Int, hi : Int]
    /\ assigned \in BOOLEAN
    /\ position \in Nat /\ got \in Nat
    /\ seen \subseteq Nat
    /\ rebalances \in 0..MaxRebalances

Init ==
    /\ pc = "admin" /\ exc = FALSE
    /\ admin = "none" /\ producer = "none" /\ consumer = "none"
    /\ topic = "absent" /\ log = 0 /\ inflight = FALSE
    /\ acked = 0 /\ window = [lo |-> -1, hi |-> -1]
    /\ assigned = FALSE /\ position = 0 /\ got = 0 /\ seen = {}
    /\ rebalances = 0

-----------------------------------------------------------------------------
(* Topic set-up. *)

ConnectAdmin ==
    /\ pc = "admin"
    /\ admin' = "open" /\ pc' = "create"
    /\ UNCHANGED <<exc, producer, consumer, broker, acked, window, reading>>

CreateTopic ==
    /\ pc = "create"
    /\ topic' = "exists" /\ pc' = "serialize"
    /\ UNCHANGED <<exc, clients, log, inflight, acked, window, reading>>

(* create_topics raises: the admin client is closed and nothing else is done, *)
(* although the request may have reached the broker before its answer was     *)
(* lost.                                                                      *)
CreateRaises ==
    /\ pc = "create"
    /\ topic' \in {"absent", "exists"}
    /\ admin' = "closed" /\ exc' = TRUE /\ pc' = "done"
    /\ UNCHANGED <<producer, consumer, log, inflight, acked, window, reading>>

(* The serialize loop and the value to be published. *)
Serialize ==
    /\ pc = "serialize"
    /\ pc' = "producer"
    /\ UNCHANGED <<exc, clients, broker, acked, window, reading>>

(* The admin client's constructor, or serialize() outside any try: the        *)
(* exception leaves the function as things stand.                             *)
EarlyRaises ==
    /\ pc \in {"admin", "serialize"}
    /\ exc' = TRUE /\ pc' = "done"
    /\ UNCHANGED <<clients, broker, acked, window, reading>>

-----------------------------------------------------------------------------
(* Produce. *)

OpenProducer ==
    /\ pc = "producer"
    /\ producer' = "open" /\ pc' = "send"
    /\ UNCHANGED <<exc, admin, consumer, broker, acked, window, reading>>

(* t_p0 is read when the warm-up is flushed. *)
StartWindow ==
    /\ pc = "send" /\ acked = Warmup /\ window.lo = -1
    /\ window' = [window EXCEPT !.lo = log]
    /\ UNCHANGED <<pc, exc, clients, broker, acked, reading>>

(* producer.send(topic, value=value). *)
Send ==
    /\ pc = "send" /\ acked < Total
    /\ acked >= Warmup => window.lo # -1
    /\ inflight' = TRUE /\ pc' = "ack"
    /\ UNCHANGED <<exc, clients, topic, log, acked, window, reading>>

(* Mutant of Acknowledged: send() is not followed by get(). *)
AcknowledgedAtOnce == TRUE

(* .get(timeout=30) returns when the record is appended. *)
Acknowledged == ~inflight

GetAck ==
    /\ pc = "ack" /\ Acknowledged
    /\ acked' = acked + 1 /\ pc' = "send"
    /\ UNCHANGED <<exc, clients, broker, window, reading>>

(* flush, t_p1, and the finally that closes the producer. *)
EndWindow ==
    /\ pc = "send" /\ acked = Total /\ window.lo # -1
    /\ window' = [window EXCEPT !.hi = log]
    /\ pc' = "close_producer"
    /\ UNCHANGED <<exc, clients, broker, acked, reading>>

(* send raises, the broker refuses the record, or the 30 s are over with the  *)
(* record still in the producer's buffer, from where it may yet be appended.  *)
SendRaises ==
    /\ pc \in {"send", "ack"}
    /\ exc' = TRUE /\ pc' = "close_producer"
    /\ UNCHANGED <<clients, broker, acked, window, reading>>

(* Mutant of CloseProducer: close() waits for every acknowledgement. *)
CloseProducerWaits ==
    /\ pc = "close_producer" /\ acked = Total
    /\ producer' = "closed" /\ inflight' = FALSE
    /\ pc' = IF exc THEN "cleanup" ELSE "consumer"
    /\ UNCHANGED <<exc, admin, consumer, topic, log, acked, window, reading>>

(* close() waits for what is in flight, or gives it up. *)
CloseProducer ==
    /\ pc = "close_producer"
    /\ producer' = "closed" /\ inflight' = FALSE
    /\ pc' = IF exc THEN "cleanup" ELSE "consumer"
    /\ UNCHANGED <<exc, admin, consumer, topic, log, acked, window, reading>>

(* The broker appends the record in flight. *)
BrokerAppends ==
    /\ inflight /\ topic = "exists"
    /\ log' = log + 1 /\ inflight' = FALSE
    /\ UNCHANGED <<pc, exc, clients, topic, acked, window, reading>>

-----------------------------------------------------------------------------
(* Consume. *)

OpenConsumer ==
    /\ pc = "consumer"
    /\ consumer' = "open" /\ pc' = "assign"
    /\ UNCHANGED <<exc, admin, producer, broker, acked, window, reading>>

(* The poll in which the coordinator assigns the partition; it may already    *)
(* deliver records, which the code drops.  Polls before it change nothing, and*)
(* the loop has no deadline.                                                  *)
PollAssigns ==
    /\ pc = "assign"
    /\ assigned' = TRUE
    /\ position' \in 0..log
    /\ pc' = "seek"
    /\ UNCHANGED <<exc, clients, broker, acked, window, got, seen, rebalances>>

SeekToBeginning ==
    /\ pc = "seek"
    /\ position' = 0 /\ pc' = "read"
    /\ UNCHANGED <<exc, clients, broker, acked, window, assigned, got, seen,
                   rebalances>>

(* A poll delivers a batch. *)
PollRecords ==
    /\ pc = "read" /\ got < Total
    /\ \E n \in 1..(log - position) :
         /\ got' = got + n
         /\ seen' = seen \cup position..(position + n - 1)
         /\ position' = position + n
    /\ UNCHANGED <<pc, exc, clients, broker, acked, window, assigned,
                   rebalances>>

(* Mutants of EndRead: the count is not checked; too few are enough. *)
EndReadUnchecked ==
    /\ pc = "read"
    /\ exc' = FALSE
    /\ pc' = "close_consumer"
    /\ UNCHANGED <<clients, broker, acked, window, reading>>

EndReadTooMany ==
    /\ pc = "read"
    /\ exc' = (got > Total)
    /\ pc' = "close_consumer"
    /\ UNCHANGED <<clients, broker, acked, window, reading>>

(* The end of the read loop: enough records, or a poll of 5 s that returned   *)
(* nothing, be there records or not.  Any other count than Total is an error. *)
EndRead ==
    /\ pc = "read"
    /\ exc' = (got # Total)
    /\ pc' = "close_consumer"
    /\ UNCHANGED <<clients, broker, acked, window, reading>>

(* Without auto-commit a rebalance loses the position: auto_offset_reset      *)
(* sends the consumer back to the earliest record.                            *)
Rebalance ==
    /\ pc = "read" /\ rebalances < MaxRebalances
    /\ rebalances' = rebalances + 1
    /\ position' = 0
    /\ UNCHANGED <<pc, exc, clients, broker, acked, window, assigned, got, seen>>

(* A constructor raises: only the outer finally runs. *)
ConstructorRaises ==
    /\ pc \in {"producer", "consumer"}
    /\ exc' = TRUE /\ pc' = "cleanup"
    /\ UNCHANGED <<clients, broker, acked, window, reading>>

(* poll or seek raises. *)
ConsumeRaises ==
    /\ pc \in {"assign", "seek", "read"}
    /\ exc' = TRUE /\ pc' = "close_consumer"
    /\ UNCHANGED <<clients, broker, acked, window, reading>>

CloseConsumer ==
    /\ pc = "close_consumer"
    /\ consumer' = "closed" /\ pc' = "cleanup"
    /\ UNCHANGED <<exc, admin, producer, broker, acked, window, reading>>

-----------------------------------------------------------------------------
(* Mutant of Cleanup: the topic of a case that raised is kept. *)
CleanupOnReturn ==
    /\ pc = "cleanup"
    /\ topic' \in (IF exc THEN {topic} ELSE {"refused", "deleted"})
    /\ admin' = "closed" /\ pc' = "done"
    /\ UNCHANGED <<exc, producer, consumer, log, inflight, acked, window,
                   reading>>

(* The outer finally: delete_topics, whose exceptions are swallowed, then     *)
(* admin.close().                                                             *)
Cleanup ==
    /\ pc = "cleanup"
    /\ topic' \in {"refused", "deleted"}
    /\ admin' = "closed" /\ pc' = "done"
    /\ UNCHANGED <<exc, producer, consumer, log, inflight, acked, window,
                   reading>>

Harness ==
    \/ ConnectAdmin \/ CreateTopic \/ Serialize
    \/ OpenProducer \/ StartWindow \/ Send \/ GetAck \/ EndWindow
    \/ CloseProducer
    \/ OpenConsumer \/ SeekToBeginning \/ EndRead
    \/ CloseConsumer \/ Cleanup

Faults == CreateRaises \/ EarlyRaises \/ SendRaises \/ ConstructorRaises
          \/ ConsumeRaises

Next == Harness \/ Faults \/ BrokerAppends \/ PollAssigns \/ PollRecords \/ Rebalance

(* The harness runs on, the broker appends what was sent and assigns the only *)
(* partition to the only member of the group.                                 *)
Fairness == WF_vars(Harness) /\ WF_vars(BrokerAppends) /\ WF_vars(PollAssigns)

Spec == Init /\ [][Next]_vars /\ Fairness

-----------------------------------------------------------------------------
Returned == pc = "done" /\ ~exc

(* A result is only ever reported for a complete case: every send was         *)
(* acknowledged and is in the log exactly once, and the count is the whole    *)
(* log.  A record that was appended late, or a poll that came back empty,     *)
(* never turns into numbers.                                                  *)
ResultIsComplete == Returned => acked = Total /\ log = Total /\ got = Total

(* "Fresh consumer group; read from partition start until all warmup+timed    *)
(* records received": with no rebalance during the read, a result means that  *)
(* every record was delivered inside the timed consume window.                *)
ResultReadEveryRecord ==
    Returned /\ rebalances = 0 => seen = 0..(Total - 1)

(* The same without the condition. *)
ResultAlwaysReadEveryRecord == Returned => seen = 0..(Total - 1)

(* "timed window excludes warmup sends": the broker appends all warm-up       *)
(* records before the timed produce window and all timed ones inside it.      *)
WindowIsTheTimedSends ==
    Returned => window = [lo |-> Warmup, hi |-> Total]

(* Whatever raises, both data clients are closed in the end, the admin client *)
(* too unless serialize() raised, and an open consumer means a closed         *)
(* producer: the two never compete for the broker.  A topic that outlives its *)
(* case without the broker having refused to delete it is empty, and belongs  *)
(* to a case that raised: what an exception outside the try leaves behind is  *)
(* never a record.                                                            *)
CaseCleansUp ==
    /\ pc = "done" =>
         /\ producer # "open" /\ consumer # "open"
         /\ admin = "open" => topic = "exists" /\ producer = "none"
         /\ topic = "exists" => exc /\ log = 0 /\ ~inflight
    /\ consumer = "open" => producer = "closed"
==============================================================================
