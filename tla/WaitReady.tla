------------------------------ MODULE WaitReady ------------------------------
(***************************************************************************)
(* scripts/wait_for_tcp.py: poll a port until it accepts TCP and, with      *)
(* --kafka-ready, the broker until it answers a metadata handshake, both    *)
(* before one deadline.  Time passes in ticks.  The broker is external: it  *)
(* may come up and go down at any time, and an attempt succeeds only if the *)
(* broker was up far enough at its end, and fails only if it was not all    *)
(* along.                                                                   *)
(***************************************************************************)
EXTENDS Naturals

CONSTANTS
    Timeout,        \* --timeout
    Interval,       \* --interval
    Patience        \* ticks an attempt may take: [tcp |-> ..., kafka |-> ...]

(* A tick is no longer than a sleep. *)
ASSUME WaitReadyAssumption ==
    /\ Timeout \in Nat /\ Interval \in Nat \ {0}
    /\ Patience \in [tcp : Nat, kafka : Nat]

VARIABLES
    kafkaReady,     \* --kafka-ready
    installed,      \* the kafka package can be imported
    now,            \* time.monotonic()
    phase,          \* "tcp" or "kafka": which loop
    pc,             \* "top", "attempt", "sleep", "done"
    left,           \* ticks left of the attempt or of the sleep
    held,           \* the broker has been up far enough since the attempt began
    code,           \* exit code
    broker,         \* "down", "tcp" (port open, not serving) or "ready"
    since,          \* when the port last opened, when the broker last became
                    \*   ready: [tcp |-> ..., kafka |-> ...] (history)
    reached         \* what the script has seen of the broker: "none", "tcp"
                    \*   or "ready" (history)

options == <<kafkaReady, installed>>
outside == <<broker, since>>
vars == <<options, now, phase, pc, left, held, code, outside, reached>>

(* What an attempt needs of the broker. *)
Suffices(level) == IF phase = "tcp" THEN level # "down" ELSE level = "ready"

Init ==
    /\ kafkaReady \in BOOLEAN /\ installed \in BOOLEAN
    /\ now = 0 /\ phase = "tcp" /\ pc = "top" /\ left = 0 /\ held = FALSE
    /\ code = 0 /\ broker \in {"down", "tcp", "ready"}
    /\ since = [tcp |-> 0, kafka |-> 0] /\ reached = "none"

(* Mutant of BeforeDeadline: the broker gets a deadline of its own. *)
BeforeDeadlineOfPhase == now < (IF phase = "tcp" THEN Timeout ELSE 2 * Timeout)

(* Mutant of BeforeDeadline: the last interval is not used. *)
BeforeLastInterval == now + Interval < Timeout

BeforeDeadline == now < Timeout

(* The process ends with an exit code; a traceback is exit code 1. *)
Exit(c) == pc' = "done" /\ code' = c

(* The head of the loop: another attempt, ... *)
Attempt ==
    /\ pc = "top" /\ BeforeDeadline
    /\ pc' = "attempt" /\ left' = Patience[phase] /\ held' = Suffices(broker)
    /\ UNCHANGED <<options, now, phase, code, outside, reached>>

(* ... or the end of the wait. *)
GiveUp ==
    /\ pc = "top" /\ ~BeforeDeadline
    /\ Exit(1)
    /\ UNCHANGED <<options, now, phase, left, held, outside, reached>>

(* Mutant of PortAccepts: an open port is all that is ever waited for. *)
PortIsEnough ==
    /\ pc = "attempt" /\ phase = "tcp" /\ Suffices(broker)
    /\ reached' = "tcp"
    /\ Exit(0)
    /\ UNCHANGED <<options, now, phase, left, held, outside>>

(* The port accepts: on to the broker if that is asked for, which the first   *)
(* line of _wait_kafka_bootstrap makes a traceback without the kafka package. *)
PortAccepts ==
    /\ pc = "attempt" /\ phase = "tcp" /\ Suffices(broker)
    /\ reached' = "tcp"
    /\ IF kafkaReady /\ installed
       THEN phase' = "kafka" /\ pc' = "top" /\ UNCHANGED code
       ELSE Exit(IF kafkaReady THEN 1 ELSE 0) /\ UNCHANGED phase
    /\ UNCHANGED <<options, now, left, held, outside>>

(* The broker answers: exit code 0, or a traceback when closing the admin     *)
(* client raises.                                                             *)
BrokerAnswers ==
    /\ pc = "attempt" /\ phase = "kafka" /\ Suffices(broker)
    /\ reached' = "ready"
    /\ \E c \in {0, 1} : Exit(c)
    /\ UNCHANGED <<options, now, phase, left, held, outside>>

(* The attempt is refused or times out; sleep, and look at the clock again. *)
Fail ==
    /\ pc = "attempt" /\ ~held
    /\ pc' = "sleep" /\ left' = Interval
    /\ UNCHANGED <<options, now, phase, held, code, outside, reached>>

(* Mutant of Wake: after the sleep, the attempt is not repeated. *)
WakeNever == FALSE

Wake ==
    /\ pc = "sleep" /\ left = 0
    /\ pc' = "top"
    /\ UNCHANGED <<options, now, phase, left, held, code, outside, reached>>

(* A tick goes by in an attempt or in a sleep; the rest takes no time. *)
Tick ==
    /\ pc \in {"attempt", "sleep"} /\ left > 0
    /\ now' = now + 1 /\ left' = left - 1
    /\ UNCHANGED <<options, phase, pc, held, code, outside, reached>>

(* The broker changes on its own. *)
BrokerMoves ==
    /\ pc # "done"
    /\ broker' \in {"down", "tcp", "ready"} \ {broker}
    /\ since' = [tcp   |-> IF broker = "down" THEN now ELSE since.tcp,
                 kafka |-> IF broker' = "ready" THEN now ELSE since.kafka]
    /\ held' = (held /\ Suffices(broker'))
    /\ UNCHANGED <<options, now, phase, pc, left, code, reached>>

Script == Attempt \/ GiveUp \/ PortAccepts \/ BrokerAnswers \/ Fail \/ Wake
Next == Script \/ Tick \/ BrokerMoves

(* The script runs on and so does the clock. *)
Spec == Init /\ [][Next]_vars /\ WF_vars(Script) /\ WF_vars(Tick)

-----------------------------------------------------------------------------
(* Exit code 0 with --kafka-ready means that the broker itself has answered,  *)
(* not only its port ("avoids flaky tests when the socket is open before      *)
(* Kafka request processing is enabled"); without it, that the port accepted. *)
ZeroMeansAnswered ==
    pc = "done" /\ code = 0 =>
      reached = IF kafkaReady THEN "ready" ELSE "tcp"

Longer(a, b) == IF a > b THEN a ELSE b

(* One deadline for both loops: the wait is over at the latest one attempt   *)
(* and one sleep after --timeout, however often and where the broker fails.  *)
WaitIsBounded == now < Timeout + Longer(Patience.tcp, Patience.kafka) + Interval

(* A port that has been open, or a broker that has been ready, for as long as *)
(* the loops may look away before the deadline (a failing attempt and a       *)
(* sleep; for the broker the attempt on the port as well) is never reported   *)
(* as missing.                                                                *)
ReadyInTimeIsSeen ==
    pc = "done" =>
      /\ broker # "down" /\ reached = "none" =>
           since.tcp + Interval + Patience.tcp >= Timeout
      /\ broker = "ready" /\ kafkaReady /\ installed /\ reached # "ready" =>
           since.kafka + Interval + Longer(2 * Patience.tcp, Patience.kafka)
             >= Timeout

(* The script ends. *)
WaitEnds == <>(pc = "done")
==============================================================================
