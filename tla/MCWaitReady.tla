------------------------------ MODULE MCWaitReady ------------------------------
(* A handshake takes longer than a connection, and the timeout has room for   *)
(* several attempts of each.                                                  *)
EXTENDS WaitReady

MCPatience == [tcp |-> 1, kafka |-> 2]
==============================================================================
