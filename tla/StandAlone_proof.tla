--------------------------- MODULE StandAlone_proof ---------------------------
(***************************************************************************)
(* Proofs about the two parts of the program that run by themselves: the    *)
(* readiness script, for every timeout, interval and duration of an         *)
(* attempt, and the codecs, for any sequence of them.                       *)
(***************************************************************************)
EXTENDS WaitReady, Codecs, SequenceTheorems, TLAPS

-----------------------------------------------------------------------------
(* The readiness script. *)

Limit == Timeout + Longer(Patience.tcp, Patience.kafka)
Blind == Longer(2 * Patience.tcp, Patience.kafka)

Types ==
    /\ kafkaReady \in BOOLEAN /\ installed \in BOOLEAN
    /\ phase \in {"tcp", "kafka"}
    /\ pc \in {"top", "attempt", "sleep", "done"}
    /\ now \in Nat /\ left \in Nat /\ held \in BOOLEAN
    /\ broker \in {"down", "tcp", "ready"}
    /\ since \in [tcp : Nat, kafka : Nat]

(* An attempt begins before the deadline and what is left of it ends within  *)
(* the limit; a sleep adds at most one interval; and then the clock is read. *)
Clock ==
    /\ pc = "attempt" => left =< Patience[phase] /\ now + left < Limit
    /\ pc = "sleep" => left =< Interval /\ now + left < Limit + Interval
    /\ now < Limit + Interval
    /\ since.tcp =< now

(* How far the script has come is what it has seen. *)
Seen ==
    /\ phase = "kafka" => kafkaReady /\ installed
    /\ pc # "done" => reached = IF phase = "tcp" THEN "none" ELSE "tcp"
    /\ reached = "none" => phase = "tcp"
    /\ pc = "done" /\ code = 0 => reached = IF kafkaReady THEN "ready" ELSE "tcp"

(* The first loop: for how long the port may have been open unseen. *)
PortUnseen ==
    phase = "tcp" /\ broker # "down" =>
      /\ pc = "top" => since.tcp + Patience.tcp + Interval >= now
      /\ pc = "attempt" /\ ~held => since.tcp + Patience.tcp >= now + left
      /\ pc = "attempt" =>
           since.tcp + 2 * Patience.tcp + Interval >= now + left
      /\ pc = "sleep" => since.tcp + Patience.tcp + Interval >= now + left
      /\ pc = "done" /\ reached = "none" =>
           since.tcp + Patience.tcp + Interval >= Timeout

(* A broker is not ready before its port is open. *)
PortFirst == broker = "ready" => since.kafka >= since.tcp

(* The second loop: for how long the broker may have been ready unseen. *)
BrokerUnseen ==
    /\ phase = "kafka" /\ broker = "ready" =>
         /\ pc = "top" => since.kafka + Blind + Interval >= now
         /\ pc = "attempt" /\ ~held =>
              since.kafka + Patience.kafka >= now + left
         /\ pc = "sleep" => since.kafka + Blind + Interval >= now + left
    /\ pc = "done" /\ broker = "ready" /\ kafkaReady /\ installed
         /\ reached # "ready" => since.kafka + Blind + Interval >= Timeout

Inv == Types /\ Clock /\ Seen /\ PortUnseen /\ PortFirst /\ BrokerUnseen

(* The lengths of the two looks are natural numbers and bound an attempt. *)
LEMMA Lengths ==
    /\ Timeout \in Nat /\ Interval \in Nat \ {0}
    /\ Patience.tcp \in Nat /\ Patience.kafka \in Nat
    /\ Patience["tcp"] = Patience.tcp /\ Patience["kafka"] = Patience.kafka
    /\ Limit \in Nat /\ Blind \in Nat
    /\ Timeout + Patience.tcp =< Limit /\ Timeout + Patience.kafka =< Limit
    /\ 2 * Patience.tcp =< Blind /\ Patience.kafka =< Blind
  BY WaitReadyAssumption DEF Limit, Blind, Longer

LEMMA InitInv == Init => Inv
  <1> SUFFICES ASSUME Init PROVE Inv
    OBVIOUS
  <1> USE Lengths DEF Init
  <1>1. Types
    BY DEF Types
  <1>2. Clock /\ Seen
    BY DEF Clock, Seen
  <1>3. PortUnseen /\ PortFirst /\ BrokerUnseen
    BY DEF PortUnseen, PortFirst, BrokerUnseen
  <1> QED
    BY <1>1, <1>2, <1>3 DEF Inv

LEMMA NextInv == Inv /\ [Next]_vars => Inv'
  <1> SUFFICES ASSUME Inv, [Next]_vars PROVE Inv'
    OBVIOUS
  <1> USE Lengths DEF Inv, Types, options, outside
  <1>1. CASE Attempt
    <2> USE <1>1 DEF Attempt, BeforeDeadline, Suffices
    <2>0. Patience[phase] \in Nat /\ Timeout + Patience[phase] =< Limit
      BY DEF Inv
    <2>1. Types'
      BY <2>0
    <2>5. Clock'
      BY <2>0, <2>1 DEF Clock
    <2>2. Seen' /\ PortFirst'
      BY DEF Seen, PortFirst
    <2>3. PortUnseen'
      <3>1. CASE phase = "tcp"
        <4>1. left' = Patience.tcp /\ now' = now /\ since' = since
              /\ phase' = "tcp" /\ broker' = broker /\ pc' = "attempt"
          BY <3>1
        <4>4. broker # "down" => held'
          BY <3>1
        <4>2. broker # "down" => since.tcp + Patience.tcp + Interval >= now
          BY <3>1 DEF PortUnseen
        <4>3. since.tcp \in Nat /\ now \in Nat
          OBVIOUS
        <4> HIDE <1>1 DEF Inv, Attempt, Types
        <4> QED
          BY <4>1, <4>2, <4>3, <4>4 DEF PortUnseen
      <3>2. CASE phase = "kafka"
        BY <3>2 DEF PortUnseen
      <3> QED
        BY <3>1, <3>2
    <2>4. BrokerUnseen'
      BY DEF BrokerUnseen
    <2> QED
      BY <2>1, <2>2, <2>3, <2>4, <2>5
  <1>2. CASE GiveUp
    BY <1>2 DEF GiveUp, Exit, BeforeDeadline, Clock, Seen, PortUnseen,
                PortFirst, BrokerUnseen
  <1>3. CASE PortAccepts
    BY <1>3 DEF PortAccepts, Exit, Suffices, Clock, Seen, PortUnseen,
                PortFirst, BrokerUnseen
  <1>4. CASE BrokerAnswers
    BY <1>4 DEF BrokerAnswers, Exit, Clock, Seen, PortUnseen, PortFirst,
                BrokerUnseen
  <1>5. CASE Fail
    BY <1>5 DEF Fail, Clock, Seen, PortUnseen, PortFirst, BrokerUnseen
  <1>6. CASE Wake
    BY <1>6 DEF Wake, Clock, Seen, PortUnseen, PortFirst, BrokerUnseen
  <1>7. CASE Tick
    BY <1>7 DEF Tick, Clock, Seen, PortUnseen, PortFirst, BrokerUnseen
  <1>8. CASE BrokerMoves
    <2> USE <1>8 DEF BrokerMoves, Suffices
    <2>1. Types' /\ Clock' /\ Seen'
      BY DEF Clock, Seen
    <2>2. PortUnseen'
      BY DEF PortUnseen, Clock
    <2>3. PortFirst'
      BY DEF PortFirst, Clock
    <2>4. BrokerUnseen'
      BY DEF BrokerUnseen, Clock
    <2> QED
      BY <2>1, <2>2, <2>3, <2>4
  <1>9. CASE UNCHANGED vars
    <2> USE <1>9 DEF vars
    <2>1. Types' /\ Clock' /\ Seen'
      BY DEF Clock, Seen
    <2>2. PortUnseen' /\ PortFirst' /\ BrokerUnseen'
      BY DEF PortUnseen, PortFirst, BrokerUnseen
    <2> QED
      BY <2>1, <2>2
  <1> QED
    BY <1>1, <1>2, <1>3, <1>4, <1>5, <1>6, <1>7, <1>8, <1>9 DEF Next, Script

(* The wait never lasts longer than --timeout, one attempt and one sleep:    *)
(* the two loops share one deadline (wait_for_tcp.py:56, 23).                *)
THEOREM WaitEndsInTime == Spec => []WaitIsBounded
  <1>1. Inv => WaitIsBounded
    BY DEF Inv, Clock, Limit, WaitIsBounded
  <1> QED
    BY <1>1, InitInv, NextInv, PTL DEF Spec

(* Exit code 0 of the script means an answered handshake if one was asked    *)
(* for (wait_for_tcp.py:1-6).                                                *)
THEOREM ZeroIsTrue == Spec => []ZeroMeansAnswered
  <1>1. Inv => ZeroMeansAnswered
    BY DEF Inv, Seen, ZeroMeansAnswered
  <1> QED
    BY <1>1, InitInv, NextInv, PTL DEF Spec

(* No port and no broker that was up long enough before the deadline is      *)
(* missed, for every timeout, interval and patience (wait_for_tcp.py:23-38,  *)
(* 56-72).                                                                   *)
THEOREM ReadinessIsSeen == Spec => []ReadyInTimeIsSeen
  <1>1. Inv => ReadyInTimeIsSeen
    BY Lengths DEF Inv, Types, Seen, PortUnseen, BrokerUnseen, Blind,
                   ReadyInTimeIsSeen
  <1> QED
    BY <1>1, InitInv, NextInv, PTL DEF Spec

(* The script never hangs: it can always go on, and whatever it or the clock  *)
(* does brings the end nearer, however often the broker comes and goes.       *)
ScriptCanRun ==
    \/ pc = "top"
    \/ pc = "attempt" /\ (Suffices(broker) \/ ~held)
    \/ pc = "sleep" /\ left = 0

ClockCanRun == pc \in {"attempt", "sleep"} /\ left > 0

NeverHangs == pc # "done" => ScriptCanRun \/ ClockCanRun

(* What an attempt has had from its beginning the broker has now. *)
HeldIsNow == pc = "attempt" /\ held => Suffices(broker)

(* The ticks before the limit that no sleep has taken yet, and the place in   *)
(* the loop.                                                                  *)
Asleep == IF pc = "sleep" THEN left ELSE 0
WaitLeft ==
    IF pc = "done" THEN 0
    ELSE 4 * (Limit + Interval - now - Asleep)
         + (IF phase = "tcp" THEN 2 ELSE 0)
         + (IF pc = "top" THEN 2 ELSE IF pc = "attempt" THEN 1 ELSE 3 + left)

LEMMA HeldStep == HeldIsNow /\ [Next]_vars => HeldIsNow'
  <1> SUFFICES ASSUME HeldIsNow, [Next]_vars PROVE HeldIsNow'
    OBVIOUS
  <1> USE DEF HeldIsNow
  <1>1. CASE Attempt
    BY <1>1 DEF Attempt, outside, Suffices
  <1>2. CASE GiveUp \/ PortAccepts \/ BrokerAnswers \/ Fail \/ Wake
    BY <1>2 DEF GiveUp, PortAccepts, BrokerAnswers, Fail, Wake, Exit
  <1>3. CASE Tick
    BY <1>3 DEF Tick, outside, Suffices
  <1>4. CASE BrokerMoves
    BY <1>4, Zenon DEF BrokerMoves, Suffices
  <1>5. CASE UNCHANGED vars
    BY <1>5 DEF vars, outside, Suffices
  <1> QED
    BY <1>1, <1>2, <1>3, <1>4, <1>5 DEF Next, Script

(* The script is never without a next step, whatever the broker does          *)
(* (wait_for_tcp.py:23-38, 56-72): an attempt that the broker did not satisfy *)
(* can fail, one that it did can succeed.                                     *)
THEOREM ScriptNeverHangs == Spec => []NeverHangs
  <1>1. Init => HeldIsNow
    BY DEF Init, HeldIsNow
  <1>2. Inv /\ HeldIsNow => NeverHangs
    BY DEF Inv, Types, HeldIsNow, NeverHangs, ScriptCanRun, ClockCanRun
  <1> QED
    BY <1>1, <1>2, HeldStep, InitInv, NextInv, PTL DEF Spec

(* Every step of the script and of the clock uses up some of a supply that    *)
(* the broker cannot refill: a script and a clock that go on when they can    *)
(* come to the end of the wait, for any timeout, interval and patience.       *)
THEOREM EveryWaitCounts ==
    Spec => [](WaitLeft \in Nat)
            /\ [][IF Script \/ Tick THEN WaitLeft' < WaitLeft
                  ELSE WaitLeft' = WaitLeft]_vars
  <1>1. Inv => WaitLeft \in Nat
    BY Lengths DEF Inv, Types, Clock, WaitLeft, Asleep
  <1>2. Inv /\ Inv' /\ [Next]_vars =>
          [IF Script \/ Tick THEN WaitLeft' < WaitLeft
           ELSE WaitLeft' = WaitLeft]_vars
    <2> SUFFICES ASSUME Inv, Inv', Next
                 PROVE  IF Script \/ Tick THEN WaitLeft' < WaitLeft
                        ELSE WaitLeft' = WaitLeft
      OBVIOUS
    <2>0. /\ now \in Nat /\ left \in Nat /\ Limit \in Nat /\ Interval \in Nat \ {0}
          /\ Limit' = Limit
          /\ pc # "done" => now + Asleep < Limit + Interval
      BY Lengths DEF Inv, Types, Clock, Asleep, Limit
    <2> USE DEF WaitLeft, Asleep
    <2>1. CASE Attempt
      BY <2>0, <2>1 DEF Attempt, Script
    <2>2. CASE GiveUp
      BY <2>0, <2>2 DEF GiveUp, Script, Exit
    <2>3. CASE PortAccepts
      BY <2>0, <2>3 DEF PortAccepts, Script, Exit
    <2>4. CASE BrokerAnswers
      BY <2>0, <2>4 DEF BrokerAnswers, Script, Exit
    <2>5. CASE Fail
      BY <2>0, <2>5 DEF Fail, Script
    <2>6. CASE Wake
      BY <2>0, <2>6 DEF Wake, Script
    <2>7. CASE Tick
      BY <2>0, <2>7 DEF Tick
    <2>8. CASE BrokerMoves
      <3>1. ~Script /\ ~Tick
        BY <2>8 DEF BrokerMoves, Script, Attempt, GiveUp, PortAccepts,
                    BrokerAnswers, Fail, Wake, Tick, outside
      <3>2. WaitLeft' = WaitLeft
        BY <2>0, <2>8 DEF BrokerMoves
      <3> QED
        BY <3>1, <3>2
    <2> QED
      BY <2>1, <2>2, <2>3, <2>4, <2>5, <2>6, <2>7, <2>8 DEF Next, Script
  <1> QED
    BY <1>1, <1>2, InitInv, NextInv, PTL DEF Spec

-----------------------------------------------------------------------------
(* The codecs. *)

EmptyContext == [device_id |-> "", session_id |-> "", tags |-> <<>>]

(* What may have become of a field of record a in record e after one pass     *)
(* through a codec of the format f.                                           *)
ContextKept(a, e, f) ==
    \/ e.context = a.context
    \/ f = "protobuf" /\ a.context = EmptyContext /\ e.context = None

NewFieldKept(a, e, f, p) ==
    \/ e.new_field = a.new_field
    \/ f = "protobuf" /\ a.new_field = "" /\ e.new_field = None
    \/ f = "avro" /\ p = "evolution" /\ e.new_field = None

(* A record is equal to another when its three fields are. *)
LEMMA SameEvent ==
    ASSUME NEW a \in Events, NEW e \in Events,
           e.context = a.context, e.payload_blob = a.payload_blob,
           e.new_field = a.new_field
    PROVE  e = a
  BY DEF Events

(* A missing blob is not a blob. *)
LEMMA NoBlobIsNone == ASSUME NEW b \in Blobs PROVE OrEmpty(OrNull(b)) = b
  BY NoneAssumption DEF OrEmpty, OrNull, Blobs

(* The null that the JSON wire has for an empty blob is not base64 text, and  *)
(* the text decodes to what was encoded.                                      *)
LEMMA Base64Text == ASSUME NEW b PROVE Base64(b) # <<>> /\ Base64(b)[2] = b
  <1>1. Base64(b) \in Seq({"base64", b}) /\ Len(Base64(b)) # 0
    BY DEF Base64
  <1>2. Base64(b) # <<>>
    BY <1>1, EmptySeq, Zenon
  <1>3. Base64(b)[2] = b
    BY DEF Base64
  <1> QED
    BY <1>2, <1>3

(* The context without a value in it is the one that protobuf does not tell   *)
(* from none.                                                                 *)
LEMMA NoValueIsEmpty ==
    ASSUME NEW c \in Contexts, ~HasContext(c) PROVE c = EmptyContext
  <1>1. c.device_id = "" /\ c.session_id = "" /\ c.tags = <<>>
    BY Zenon DEF HasContext
  <1>2. c = [device_id |-> c.device_id, session_id |-> c.session_id,
             tags |-> c.tags]
    BY Zenon DEF Contexts
  <1> QED
    BY <1>1, <1>2, Zenon DEF EmptyContext

LEMMA EmptyHasNoValue == ~HasContext(EmptyContext)
  BY Zenon DEF HasContext, EmptyContext

(* The fields of a record on the wire. *)
LEMMA AvroFields ==
    ASSUME NEW a, NEW p
    PROVE  /\ Event(Wire(a, "avro", p)) = AvroEvent(AvroWire(a, p))
           /\ AvroWire(a, p).context = a.context
           /\ AvroWire(a, p).payload_blob = OrNull(a.payload_blob)
           /\ AvroWire(a, p).new_field =
                IF WriterHasNewField(p) THEN a.new_field ELSE None
  <1>1. Wire(a, "avro", p) = AvroWire(a, p)
    BY Zenon DEF Wire
  <1>2. AvroWire(a, p).format = "avro"
    BY Zenon DEF AvroWire
  <1>3. Event(AvroWire(a, p)) = AvroEvent(AvroWire(a, p))
    BY <1>2, Zenon DEF Event
  <1> QED
    BY <1>1, <1>3, Zenon DEF AvroWire

LEMMA JsonFields ==
    ASSUME NEW a, NEW p
    PROVE  /\ Event(Wire(a, "json", p)) = JsonEvent(JsonWire(a))
           /\ JsonWire(a).context = a.context
           /\ a.payload_blob = "" => JsonWire(a).payload_blob = <<>>
           /\ a.payload_blob # "" =>
                JsonWire(a).payload_blob = Base64(a.payload_blob)
           /\ JsonWire(a).new_field = a.new_field
  <1>1. Wire(a, "json", p) = JsonWire(a)
    BY Zenon DEF Wire
  <1>2. JsonWire(a).format = "json"
    BY Zenon DEF JsonWire
  <1>3. Event(JsonWire(a)) = JsonEvent(JsonWire(a))
    BY <1>2, Zenon DEF Event
  <1> QED
    BY <1>1, <1>3, Zenon DEF JsonWire

LEMMA ProtobufFields ==
    ASSUME NEW a, NEW p
    PROVE  /\ Event(Wire(a, "protobuf", p)) = ProtobufEvent(ProtobufWire(a))
           /\ a.context = None => ProtobufWire(a).context = EmptyContext
           /\ a.context # None => ProtobufWire(a).context = a.context
           /\ ProtobufWire(a).payload_blob = a.payload_blob
           /\ ProtobufWire(a).new_field =
                IF a.new_field = None THEN "" ELSE a.new_field
  <1>1. Wire(a, "protobuf", p) = ProtobufWire(a)
    BY Zenon DEF Wire
  <1>2. ProtobufWire(a).format = "protobuf"
    BY Zenon DEF ProtobufWire
  <1>3. Event(ProtobufWire(a)) = ProtobufEvent(ProtobufWire(a))
    BY <1>2, Zenon DEF Event
  <1> QED
    BY <1>1, <1>3, Zenon DEF ProtobufWire, EmptyContext

(* The fields of a decoded record. *)
Rebuilt(e) == [context |-> e.context, payload_blob |-> e.payload_blob,
               new_field |-> e.new_field]

LEMMA JsonDecoded ==
    ASSUME NEW w
    PROVE  /\ JsonEvent(w).context = w.context
           /\ w.payload_blob = <<>> => JsonEvent(w).payload_blob = ""
           /\ w.payload_blob # <<>> =>
                JsonEvent(w).payload_blob = w.payload_blob[2]
           /\ JsonEvent(w).new_field = w.new_field
           /\ JsonEvent(w) = Rebuilt(JsonEvent(w))
  <1>1. JsonEvent(w).context = w.context /\ JsonEvent(w).new_field = w.new_field
    BY Zenon DEF JsonEvent
  <1>2. w.payload_blob = <<>> => JsonEvent(w).payload_blob = ""
    BY Zenon DEF JsonEvent
  <1>3. w.payload_blob # <<>> => JsonEvent(w).payload_blob = w.payload_blob[2]
    BY Zenon DEF JsonEvent
  <1>4. JsonEvent(w) = Rebuilt(JsonEvent(w))
    BY Zenon DEF JsonEvent, Rebuilt
  <1> QED
    BY <1>1, <1>2, <1>3, <1>4

LEMMA ProtobufDecoded ==
    ASSUME NEW w
    PROVE  /\ ProtobufEvent(w).context =
                IF HasContext(w.context) THEN w.context ELSE None
           /\ ProtobufEvent(w).payload_blob = w.payload_blob
           /\ ProtobufEvent(w).new_field =
                IF w.new_field = "" THEN None ELSE w.new_field
           /\ ProtobufEvent(w) = Rebuilt(ProtobufEvent(w))
  <1>1. ProtobufEvent(w).context =
          IF HasContext(w.context) THEN w.context ELSE None
    BY Zenon DEF ProtobufEvent
  <1>2. ProtobufEvent(w).payload_blob = w.payload_blob
    BY Zenon DEF ProtobufEvent
  <1>3. ProtobufEvent(w).new_field =
          IF w.new_field = "" THEN None ELSE w.new_field
    BY Zenon DEF ProtobufEvent
  <1>4. ProtobufEvent(w) = Rebuilt(ProtobufEvent(w))
    BY Zenon DEF ProtobufEvent, Rebuilt
  <1> QED
    BY <1>1, <1>2, <1>3, <1>4

(* One pass through a codec: encode, then decode (codecs/common.py,           *)
(* protobuf_codec.py).                                                        *)
LEMMA OnePass ==
    ASSUME NEW a \in Events, NEW f \in Formats, NEW p \in Profiles,
           NEW e, e = Event(Wire(a, f, p))
    PROVE  /\ e \in Events
           /\ e.payload_blob = a.payload_blob
           /\ ContextKept(a, e, f)
           /\ NewFieldKept(a, e, f, p)
  <1>0. /\ a.context \in Contexts \cup {None}
        /\ a.payload_blob \in Blobs
        /\ a.new_field \in Texts \cup {None}
    BY DEF Events
  <1>1. CASE f = "avro"
    <2> DEFINE w == AvroWire(a, p)
    <2>1. e = AvroEvent(w) /\ w.context = a.context
          /\ w.payload_blob = OrNull(a.payload_blob)
          /\ w.new_field = IF WriterHasNewField(p) THEN a.new_field ELSE None
      BY <1>1, AvroFields, Zenon
    <2> HIDE DEF w
    <2>2. /\ e.context = a.context
          /\ e.payload_blob = OrEmpty(OrNull(a.payload_blob))
          /\ e.new_field = IF WriterHasNewField(p) THEN a.new_field ELSE None
          /\ e = Rebuilt(e)
      BY <2>1 DEF AvroEvent, Rebuilt
    <2>3. e.payload_blob = a.payload_blob
      BY <1>0, <2>2, NoBlobIsNone
    <2>4. e.new_field \in Texts \cup {None}
      BY <1>0, <2>2
    <2>5. e \in Events
      BY <1>0, <2>2, <2>3, <2>4, Zenon DEF Events, Rebuilt
    <2> QED
      BY <1>1, <2>2, <2>3, <2>5
      DEF ContextKept, NewFieldKept, WriterHasNewField
  <1>2. CASE f = "json"
    <2> DEFINE w == JsonWire(a)
    <2>1. e = JsonEvent(w) /\ w.context = a.context
          /\ (a.payload_blob = "" => w.payload_blob = <<>>)
          /\ (a.payload_blob # "" => w.payload_blob = Base64(a.payload_blob))
          /\ w.new_field = a.new_field
      BY <1>2, JsonFields, Zenon
    <2> HIDE DEF w
    <2>2. e.context = a.context /\ e.new_field = a.new_field /\ e = Rebuilt(e)
      BY <2>1, JsonDecoded
    <2>3. e.payload_blob = a.payload_blob
      <3>1. CASE a.payload_blob = ""
        BY <2>1, <3>1, JsonDecoded
      <3>2. CASE a.payload_blob # ""
        BY <2>1, <3>2, Base64Text, JsonDecoded
      <3> QED
        BY <3>1, <3>2
    <2>4. e \in Events
      BY <1>0, <2>2, <2>3, Zenon DEF Events, Rebuilt
    <2> QED
      BY <2>2, <2>3, <2>4 DEF ContextKept, NewFieldKept
  <1>3. CASE f = "protobuf"
    <2> DEFINE w == ProtobufWire(a)
    <2>1. e = ProtobufEvent(w)
          /\ (a.context = None => w.context = EmptyContext)
          /\ (a.context # None => w.context = a.context)
          /\ w.payload_blob = a.payload_blob
          /\ w.new_field = IF a.new_field = None THEN "" ELSE a.new_field
      BY <1>3, ProtobufFields, Zenon
    <2> HIDE DEF w
    <2>2. /\ e.context = IF HasContext(w.context) THEN w.context ELSE None
          /\ e.payload_blob = a.payload_blob
          /\ e.new_field = IF w.new_field = "" THEN None ELSE w.new_field
          /\ e = Rebuilt(e)
      BY <2>1, ProtobufDecoded
    <2>3. ContextKept(a, e, f)
      <3>1. CASE a.context = None
        BY <2>1, <2>2, <3>1, EmptyHasNoValue DEF ContextKept
      <3>2. CASE a.context # None /\ HasContext(a.context)
        BY <2>1, <2>2, <3>2 DEF ContextKept
      <3>3. CASE a.context # None /\ ~HasContext(a.context)
        <4>1. a.context = EmptyContext
          BY <1>0, <3>3, NoValueIsEmpty
        <4> QED
          BY <1>3, <2>1, <2>2, <3>3, <4>1 DEF ContextKept
      <3> QED
        BY <3>1, <3>2, <3>3
    <2>4. e.new_field = a.new_field \/ (a.new_field = "" /\ e.new_field = None)
      BY <2>1, <2>2
    <2>5. NewFieldKept(a, e, f, p)
      BY <1>3, <2>4 DEF NewFieldKept
    <2>6. e.context \in Contexts \cup {None} /\ e.new_field \in Texts \cup {None}
      BY <1>0, <2>3, <2>4 DEF ContextKept
    <2>7. e \in Events
      BY <1>0, <2>2, <2>6, Zenon DEF Events, Rebuilt
    <2> QED
      BY <2>2, <2>3, <2>5, <2>7
  <1> QED
    BY <1>1, <1>2, <1>3 DEF Formats

RecordTypes ==
    /\ profile \in Profiles /\ first \in Events /\ event \in Events
    /\ hops \in Seq(Formats)

(* What is on the wire is the record, in the last format and profile. *)
InFlight ==
    wire # None =>
      /\ Len(hops) \in DOMAIN hops
      /\ wire = Wire(event, hops[Len(hops)], profile)

RecordInv == RecordTypes /\ InFlight /\ OnlyEmptinessIsLost

LEMMA RecordInitInv == RecordInit => RecordInv
  <1> SUFFICES ASSUME RecordInit PROVE RecordInv
    OBVIOUS
  <1>1. RecordTypes /\ InFlight
    BY EmptySeq DEF RecordInit, RecordTypes, InFlight
  <1>2. OnlyEmptinessIsLost
    BY DEF RecordInit, OnlyEmptinessIsLost
  <1> QED
    BY <1>1, <1>2 DEF RecordInv

LEMMA EncodeInv ==
    ASSUME RecordInv, NEW f \in Formats, Encode(f) PROVE RecordInv'
  <1> USE DEF RecordInv
  <1>1. /\ hops \in Seq(Formats) /\ hops' = Append(hops, f)
        /\ hops' \in Seq(Formats) /\ Len(hops') = Len(hops) + 1
        /\ hops'[Len(hops')] = f /\ Len(hops') \in DOMAIN hops'
        /\ \A i \in DOMAIN hops : i \in DOMAIN hops' /\ hops'[i] = hops[i]
    BY AppendProperties DEF RecordTypes, Encode
  <1>2. RecordTypes'
    BY <1>1 DEF RecordTypes, Encode
  <1>3. InFlight'
    BY <1>1 DEF InFlight, Encode
  <1>4. OnlyEmptinessIsLost'
    <2>1. UNCHANGED <<profile, first, event>>
      BY DEF Encode
    <2> QED
      BY <1>1, <2>1, Zenon DEF OnlyEmptinessIsLost
  <1> QED
    BY <1>2, <1>3, <1>4

(* What a codec loses is gone after the first that cannot tell it from none, *)
(* and nothing brings it back or changes it to something else.               *)
LEMMA DecodeInv == ASSUME RecordInv, Decode PROVE RecordInv'
  <1> USE DEF RecordInv
  <1> DEFINE f == hops[Len(hops)]
  <1>1. /\ Len(hops) \in DOMAIN hops /\ f \in Formats
        /\ event' = Event(Wire(event, f, profile))
        /\ UNCHANGED <<profile, first, hops>> /\ wire' = None
    BY DEF Decode, InFlight, RecordTypes
  <1>2. event \in Events /\ profile \in Profiles /\ first \in Events
    BY DEF RecordTypes
  <1>3. /\ event' \in Events
        /\ event'.payload_blob = event.payload_blob
        /\ ContextKept(event, event', f)
        /\ NewFieldKept(event, event', f, profile)
    BY <1>1, <1>2, OnePass
  <1>4. RecordTypes' /\ InFlight'
    BY <1>1, <1>3 DEF RecordTypes, InFlight
  <1>5. (event.payload_blob = first.payload_blob)'
    BY <1>1, <1>3 DEF OnlyEmptinessIsLost
  <1>6. ASSUME event'.context # first.context
        PROVE  /\ event'.context = None /\ first.context = EmptyContext
               /\ \E i \in DOMAIN hops : hops[i] = "protobuf"
    <2>1. CASE event.context = first.context
      <3>1. /\ f = "protobuf" /\ event.context = EmptyContext
            /\ event'.context = None
        BY <1>3, <1>6, <2>1 DEF ContextKept
      <3> QED
        BY <1>1, <2>1, <3>1
    <2>2. CASE event.context # first.context
      <3>1. /\ event.context = None /\ first.context = EmptyContext
            /\ \E i \in DOMAIN hops : hops[i] = "protobuf"
        BY <2>2, Zenon DEF OnlyEmptinessIsLost, EmptyContext
      <3>2. event'.context = None
        BY <1>3, <3>1 DEF ContextKept
      <3> QED
        BY <3>1, <3>2
    <2> QED
      BY <2>1, <2>2
  <1>7. ASSUME event'.new_field # first.new_field
        PROVE  /\ event'.new_field = None
               /\ \E i \in DOMAIN hops :
                     \/ hops[i] = "protobuf" /\ first.new_field = ""
                     \/ hops[i] = "avro" /\ profile = "evolution"
    <2>1. CASE event.new_field = first.new_field
      <3>1. /\ event'.new_field = None
            /\ \/ f = "protobuf" /\ first.new_field = ""
               \/ f = "avro" /\ profile = "evolution"
        BY <1>3, <1>7, <2>1 DEF NewFieldKept
      <3> QED
        BY <1>1, <3>1
    <2>2. CASE event.new_field # first.new_field
      <3>1. /\ event.new_field = None
            /\ \E i \in DOMAIN hops :
                  \/ hops[i] = "protobuf" /\ first.new_field = ""
                  \/ hops[i] = "avro" /\ profile = "evolution"
        BY <2>2, Zenon DEF OnlyEmptinessIsLost
      <3>2. event'.new_field = None
        BY <1>3, <3>1 DEF NewFieldKept
      <3> QED
        BY <3>1, <3>2
    <2> QED
      BY <2>1, <2>2
  <1>8. OnlyEmptinessIsLost'
    BY <1>1, <1>5, <1>6, <1>7, Zenon DEF OnlyEmptinessIsLost, EmptyContext
  <1> QED
    BY <1>4, <1>8

LEMMA RecordNextInv == RecordInv /\ [RecordNext]_recordVars => RecordInv'
  <1> SUFFICES ASSUME RecordInv, [RecordNext]_recordVars PROVE RecordInv'
    OBVIOUS
  <1>1. CASE \E f \in Formats : Encode(f)
    BY <1>1, EncodeInv
  <1>2. CASE Decode
    BY <1>2, DecodeInv
  <1>3. CASE UNCHANGED recordVars
    BY <1>3, Zenon
    DEF RecordInv, RecordTypes, InFlight, OnlyEmptinessIsLost, recordVars
  <1> QED
    BY <1>1, <1>2, <1>3 DEF RecordNext

(* Whatever codecs a record goes through, and however many, all that it loses *)
(* is what some codec on the way cannot tell from none (codecs/common.py,     *)
(* protobuf_codec.py, avro_codec.py).                                         *)
THEOREM LossesAreExact == RecordSpec => []OnlyEmptinessIsLost
  <1>1. RecordInv => OnlyEmptinessIsLost
    BY DEF RecordInv
  <1> QED
    BY <1>1, RecordInitInv, RecordNextInv, PTL DEF RecordSpec

(* The records of the benchmark come back equal from any sequence of codecs   *)
(* of any length (generate/records.py:16-70): they have nothing that a codec  *)
(* could lose.                                                                *)
THEOREM BenchmarkRecordsSurvive == RecordSpec => []SampledRecordsSurvive
  <1>1. ASSUME RecordInv, first = Sampled(profile) PROVE event = first
    <2>1. /\ first.context = None \/ first.context = FullContext
          /\ first.new_field = None
      BY <1>1, Zenon DEF Sampled
    <2>2. FullContext # EmptyContext /\ None # EmptyContext
      <3>1. HasContext(FullContext)
        BY Zenon DEF FullContext, HasContext
      <3>2. EmptyContext \in Contexts
        BY Zenon DEF EmptyContext, Contexts, Texts
      <3> QED
        BY <3>1, <3>2, EmptyHasNoValue, NoneAssumption
    <2>3. event.payload_blob = first.payload_blob
      BY <1>1 DEF RecordInv, OnlyEmptinessIsLost
    <2>4. event.context = first.context
      BY <1>1, <2>1, <2>2, Zenon DEF RecordInv, OnlyEmptinessIsLost, EmptyContext
    <2>5. event.new_field = first.new_field
      BY <1>1, <2>1, Zenon DEF RecordInv, OnlyEmptinessIsLost
    <2> QED
      BY <1>1, <2>3, <2>4, <2>5, SameEvent DEF RecordInv, RecordTypes
  <1>2. RecordInv => SampledRecordsSurvive
    BY <1>1, Zenon DEF SampledRecordsSurvive
  <1> QED
    BY <1>2, RecordInitInv, RecordNextInv, PTL DEF RecordSpec
===============================================================================
