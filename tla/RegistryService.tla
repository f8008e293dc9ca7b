--------------------------- MODULE RegistryService ---------------------------
(***************************************************************************)
(* What the mock schema registry of tier S2 promises to the benchmark, with *)
(* no sockets and no threads: it comes up once, answers GETs one after the  *)
(* other while it is up, and goes away at the end of the run.  A run is     *)
(* complete only when all of its GETs were answered.  MockRegistry          *)
(* implements this specification.                                           *)
(***************************************************************************)
EXTENDS Naturals

CONSTANT Gets       \* GETs a complete run performs, a natural number

VARIABLES
    life,           \* "absent", "serving", "complete" or "aborted"
    answered        \* GETs whose answer the benchmark has read

svcVars == <<life, answered>>

Init == life = "absent" /\ answered = 0

(* The server binds its port and its thread runs. *)
Open == life = "absent" /\ life' = "serving" /\ UNCHANGED answered

(* The port cannot be bound: the benchmark never runs. *)
CannotOpen == life = "absent" /\ life' = "aborted" /\ UNCHANGED answered

(* One GET is answered, and never more than the run asks for. *)
Answer ==
    /\ life = "serving"
    /\ answered < Gets
    /\ answered' = answered + 1
    /\ UNCHANGED life

(* The server goes away after the last GET, ... *)
Complete ==
    /\ life = "serving"
    /\ answered = Gets
    /\ life' = "complete"
    /\ UNCHANGED answered

(* ... or earlier, because the benchmark raised. *)
Abort == life = "serving" /\ life' = "aborted" /\ UNCHANGED answered

Next == Open \/ CannotOpen \/ Answer \/ Complete \/ Abort

(* Once it is up, it goes away in the end. *)
Spec ==
    /\ Init /\ [][Next]_svcVars
    /\ (life = "serving") ~> (life \in {"complete", "aborted"})
==============================================================================
