-------------------------- MODULE MockRegistry_proof --------------------------
(***************************************************************************)
(* Proofs about MockRegistry, for every number of rows and iterations.      *)
(***************************************************************************)
EXTENDS MockRegistry, TLAPS

(* How the threads stand to each other. *)
ThreadInv ==
    /\ spc = "off" <=> pc = "off" \/ (pc = "done" /\ spc = "off")
    /\ pc = "off" => Len(conn) = 0 /\ fetched = 0 /\ ~listening
    /\ isShutDown <=> spc \in {"exited", "dead"}
    /\ isShutDown => ~shutdownRequest
    /\ shutdownRequest \/ spc = "exit" => pc = "await"
    /\ spc \in {"exited", "dead"} => pc \in {"await", "join", "done"}
    /\ pc \in {"join", "done"} /\ spc # "off" =>
         /\ ~listening
         /\ spc \in {"exited", "dead"}
         /\ \A c \in DOMAIN conn : conn[c] # "backlog"

(* How far the harness is, and which connection it holds. *)
HarnessInv ==
    /\ outcome = "running" <=> pc \in {"off"} \cup Benchmarking
    /\ pc = "wait" <=> sock # NoSock
    /\ pc = "wait" => sock = Len(conn) /\ NeedsGet
    /\ pc = "codec" => samples < Iterations /\ phase \in {"enc", "rt"} /\ primed
    /\ outcome = "running" => rows < Rows

Inv ==
    /\ TypeOK
    /\ ThreadInv
    /\ HarnessInv
    /\ NoWorkLeftBehind
    /\ OneConnectionPerGet

USE MockRegistryAssumption DEF NoSock, Benchmarking, Stopping

(* The starting state satisfies the invariant. *)
LEMMA InitInv == Init => Inv
  <1> SUFFICES ASSUME Init PROVE Inv
    OBVIOUS
  <1>0. <<>> \in Seq(ConnState) /\ Len(<<>>) = 0
    OBVIOUS
  <1>a. /\ primed \in BOOLEAN /\ shutdownRequest \in BOOLEAN
        /\ isShutDown \in BOOLEAN /\ listening \in BOOLEAN
    BY Zenon DEF Init
  <1>b. /\ samples \in 0..Iterations /\ rows \in 0..Rows
        /\ sock \in 0..Len(conn) /\ fetched \in Nat
        /\ conn \in Seq(ConnState)
    BY <1>0 DEF Init
  <1>1. TypeOK
    BY <1>a, <1>b DEF Init, TypeOK, Phases
  <1>2. QED
    BY <1>1 DEF Init, Inv, ThreadInv, HarnessInv, NoWorkLeftBehind,
                OneConnectionPerGet

(* What Append does to a sequence of connections. *)
LEMMA AppendConn ==
  ASSUME NEW s \in Seq(ConnState), NEW x \in ConnState
  PROVE  /\ Append(s, x) \in Seq(ConnState)
         /\ Len(Append(s, x)) = Len(s) + 1
         /\ Append(s, x)[Len(s) + 1] = x
         /\ \A c \in 1..Len(s) : Append(s, x)[c] = s[c]
  OBVIOUS

(* What an update of one connection does. *)
LEMMA UpdateConn ==
  ASSUME NEW s \in Seq(ConnState), NEW x \in ConnState, NEW d \in DOMAIN s
  PROVE  LET t == [s EXCEPT ![d] = x]
         IN /\ t \in Seq(ConnState)
            /\ Len(t) = Len(s)
            /\ t[d] = x
            /\ \A c \in 1..Len(s) : c # d => t[c] = s[c]
  OBVIOUS

(* Every step preserves the invariant. *)
LEMMA NextInv == Inv /\ [Next]_vars => Inv'
  <1> SUFFICES ASSUME Inv, [Next]_vars PROVE Inv'
    OBVIOUS
  <1> USE DEF Inv
  <1>1. CASE Start
    <2>1. TypeOK'
      BY <1>1 DEF Start, TypeOK, flagVars
    <2>2. QED
      BY <1>1, <2>1 DEF Start, TypeOK, ThreadInv, HarnessInv, NoWorkLeftBehind,
                        OneConnectionPerGet, flagVars, NeedsGet
  <1>2. CASE StartRaises
    <2>1. TypeOK'
      BY <1>2 DEF StartRaises, TypeOK, flagVars
    <2>2. QED
      BY <1>2, <2>1 DEF StartRaises, TypeOK, ThreadInv, HarnessInv,
                        NoWorkLeftBehind, OneConnectionPerGet, flagVars, NeedsGet
  <1>3. CASE IssueGet
    <2>1. /\ sock = NoSock
          /\ conn' = Append(conn, "backlog")
          /\ sock' = Len(conn) + 1
      BY <1>3 DEF IssueGet, HarnessInv
    <2>2. /\ conn' \in Seq(ConnState)
          /\ Len(conn') = Len(conn) + 1
          /\ \A c \in 1..Len(conn) : conn'[c] = conn[c]
      BY <2>1, AppendConn DEF TypeOK, ConnState
    <2>3. TypeOK'
      BY <1>3, <2>1, <2>2 DEF IssueGet, TypeOK, flagVars
    <2>4. ThreadInv'
      BY <1>3 DEF IssueGet, ThreadInv, flagVars
    <2>5. HarnessInv'
      BY <1>3, <2>1, <2>2 DEF IssueGet, HarnessInv, TypeOK, flagVars, NeedsGet
    <2>6. NoWorkLeftBehind'
      BY <1>3, <2>2 DEF IssueGet, NoWorkLeftBehind, TypeOK
    <2>7. OneConnectionPerGet'
      BY <1>3, <2>2 DEF IssueGet, OneConnectionPerGet, HarnessInv, TypeOK
    <2>8. QED
      BY <2>3, <2>4, <2>5, <2>6, <2>7
  <1>4. CASE ReceiveResponse
    <2>b. primed' \in BOOLEAN
      BY <1>4, Zenon DEF ReceiveResponse, TypeOK
    <2>c. /\ samples' \in 0..Iterations
          /\ sock' = NoSock
          /\ pc' \in {"ready", "codec"}
      BY <1>4 DEF ReceiveResponse, WillClose, HarnessInv, NeedsGet, TypeOK
    <2>1. /\ samples' \in 0..Iterations
          /\ sock' = NoSock
          /\ pc' \in {"ready", "codec"}
          /\ primed' \in BOOLEAN
      BY <2>b, <2>c
    <2>a. Len(conn) \in Nat
      BY DEF TypeOK
    <2>2. TypeOK'
      BY <1>4, <2>1, <2>a DEF ReceiveResponse, TypeOK, flagVars
    <2>3. ThreadInv'
      BY <1>4, <2>1 DEF ReceiveResponse, ThreadInv, flagVars
    <2>4. HarnessInv'
      BY <1>4, <2>1 DEF ReceiveResponse, HarnessInv, TypeOK, flagVars, NeedsGet
    <2>5. NoWorkLeftBehind'
      BY <1>4, <2>1 DEF ReceiveResponse, NoWorkLeftBehind, HarnessInv
    <2>6. OneConnectionPerGet'
      BY <1>4, <2>1 DEF ReceiveResponse, OneConnectionPerGet, HarnessInv, TypeOK
    <2>7. QED
      BY <2>2, <2>3, <2>4, <2>5, <2>6
  <1>5. CASE TimedCodecWork
    <2>1. samples' \in 0..Iterations
      BY <1>5 DEF TimedCodecWork, HarnessInv, TypeOK
    <2>2. QED
      BY <1>5, <2>1 DEF TimedCodecWork, TypeOK, ThreadInv, HarnessInv,
           NoWorkLeftBehind, OneConnectionPerGet, flagVars, NeedsGet
  <1>6. CASE EndPhase
    <2>1. phase' \in Phases
      BY <1>6 DEF EndPhase, TypeOK, Phases, PhaseAfter
    <2>2. rows' \in 0..Rows /\ (rows' # Rows => rows' < Rows)
      BY <1>6 DEF EndPhase, TypeOK, HarnessInv
    <2>a. Len(conn) \in Nat
      BY DEF TypeOK
    <2>b. /\ pc' \in {"ready", "shutdown"} /\ outcome' \in {"running", "ok"}
          /\ primed' \in BOOLEAN /\ samples' = 0 /\ sock' = 0
      BY <1>6 DEF EndPhase, HarnessInv, TypeOK
    <2>3. TypeOK'
      BY <1>6, <2>1, <2>2, <2>a, <2>b DEF EndPhase, TypeOK, flagVars
    <2>4. QED
      BY <1>6, <2>2, <2>3 DEF EndPhase, TypeOK, ThreadInv, HarnessInv,
           NoWorkLeftBehind, OneConnectionPerGet, flagVars, NeedsGet
  <1>7. CASE RowRaises
    BY <1>7 DEF RowRaises, TypeOK, ThreadInv, HarnessInv,
         NoWorkLeftBehind, OneConnectionPerGet, flagVars, NeedsGet
  <1>8. CASE StopRequest
    BY <1>8 DEF StopRequest, TypeOK, ThreadInv, HarnessInv,
         NoWorkLeftBehind, OneConnectionPerGet, NeedsGet
  <1>9. CASE StopClose
    <2>1. /\ conn' \in Seq(ConnState)
          /\ Len(conn') = Len(conn)
          /\ \A c \in 1..Len(conn) :
               /\ conn'[c] = IF conn[c] = "backlog" THEN "reset" ELSE conn[c]
      BY <1>9 DEF StopClose, TypeOK, ConnState
    <2>2. TypeOK'
      BY <1>9, <2>1 DEF StopClose, TypeOK, flagVars
    <2>3. ThreadInv'
      BY <1>9, <2>1 DEF StopClose, ThreadInv, TypeOK, flagVars
    <2>4. HarnessInv'
      BY <1>9 DEF StopClose, HarnessInv, flagVars, NeedsGet
    <2>5. NoWorkLeftBehind'
      BY <1>9, <2>1 DEF StopClose, NoWorkLeftBehind, TypeOK
    <2>6. OneConnectionPerGet'
      BY <1>9, <2>1 DEF StopClose, OneConnectionPerGet
    <2>7. QED
      BY <2>2, <2>3, <2>4, <2>5, <2>6
  <1>10. CASE StopJoin
    BY <1>10 DEF StopJoin, TypeOK, ThreadInv, HarnessInv,
         NoWorkLeftBehind, OneConnectionPerGet, flagVars, NeedsGet
  <1>11. CASE ServeEnter \/ ServeSeesShutdown \/ ServeLeaves \/ ServeThreadDies
    <2>1. TypeOK'
      BY <1>11 DEF ServeEnter, ServeSeesShutdown, ServeLeaves, ServeThreadDies,
                   TypeOK, harnessVars, flagVars
    <2>2. ThreadInv'
      BY <1>11 DEF ServeEnter, ServeSeesShutdown, ServeLeaves, ServeThreadDies,
                   TypeOK, ThreadInv, harnessVars, flagVars
    <2>3. HarnessInv' /\ NoWorkLeftBehind' /\ OneConnectionPerGet'
      BY <1>11 DEF ServeEnter, ServeSeesShutdown, ServeLeaves, ServeThreadDies,
                   HarnessInv, NoWorkLeftBehind, OneConnectionPerGet, NeedsGet,
                   harnessVars, flagVars
    <2>4. QED
      BY <2>1, <2>2, <2>3
  <1>12. CASE ServeSelects
    BY <1>12 DEF ServeSelects, TypeOK, ThreadInv, HarnessInv,
         NoWorkLeftBehind, OneConnectionPerGet, harnessVars, flagVars, NeedsGet
  <1>13. CASE ServeAccepts \/ HandlerAnswers \/ HandlerCloses
    <2>1. PICK c \in DOMAIN conn, x \in {"accepted", "answered", "eof"} :
            conn[c] # "eof" /\ conn' = [conn EXCEPT ![c] = x]
      BY <1>13 DEF ServeAccepts, HandlerAnswers, HandlerCloses
    <2>2. /\ conn' \in Seq(ConnState)
          /\ Len(conn') = Len(conn)
          /\ conn'[c] = x
          /\ \A d \in 1..Len(conn) : d # c => conn'[d] = conn[d]
      BY <2>1, UpdateConn DEF TypeOK, ConnState
    <2>3. UNCHANGED harnessVars /\ UNCHANGED flagVars /\ UNCHANGED listening
      BY <1>13 DEF ServeAccepts, HandlerAnswers, HandlerCloses
    <2>4. \/ UNCHANGED spc
          \/ spc = "ready" /\ spc' = "loop"
      BY <1>13 DEF ServeAccepts, HandlerAnswers, HandlerCloses
    <2>5. TypeOK'
      BY <2>2, <2>3, <2>4 DEF TypeOK, harnessVars, flagVars
    <2>6. ThreadInv'
      BY <2>1, <2>2, <2>3, <2>4 DEF ThreadInv, TypeOK, harnessVars, flagVars
    <2>7. HarnessInv'
      BY <2>2, <2>3 DEF HarnessInv, harnessVars, NeedsGet
    <2>8. NoWorkLeftBehind'
      BY <2>1, <2>2, <2>3 DEF NoWorkLeftBehind, TypeOK, harnessVars
    <2>9. OneConnectionPerGet'
      BY <2>2, <2>3 DEF OneConnectionPerGet, harnessVars
    <2>10. QED
      BY <2>5, <2>6, <2>7, <2>8, <2>9
  <1>14. CASE UNCHANGED vars
    BY <1>14 DEF vars, harnessVars, flagVars, TypeOK, ThreadInv, HarnessInv,
         NoWorkLeftBehind, OneConnectionPerGet, NeedsGet
  <1>15. QED
    BY <1>1, <1>2, <1>3, <1>4, <1>5, <1>6, <1>7, <1>8, <1>9, <1>10, <1>11,
       <1>12, <1>13, <1>14
       DEF Next, HarnessWork, HarnessFault, Serve, Handlers

(* The invariant holds in every reachable state. *)
THEOREM Invariance == Spec => []Inv
  BY InitInv, NextInv, PTL DEF Spec

(* Type correctness of the registry, its clients and its threads. *)
THEOREM TypeCorrect == Spec => []TypeOK
  <1>1. Inv => TypeOK
    BY DEF Inv
  <1>2. QED
    BY <1>1, Invariance, PTL

(* stop() leaves nothing of the server behind, for any number of rows and     *)
(* iterations, wherever the run raised and however the threads interleave.    *)
THEOREM StopIsQuiet == Spec => []StoppedIsQuiet
  <1>1. Inv => StoppedIsQuiet
    BY DEF Inv, ThreadInv, StoppedIsQuiet
  <1>2. QED
    BY <1>1, Invariance, PTL

(* No handler thread outlives its GET, so none runs in a later timed window. *)
THEOREM TimedWindowsAreClean == Spec => []NoWorkLeftBehind
  <1>1. Inv => NoWorkLeftBehind
    BY DEF Inv
  <1>2. QED
    BY <1>1, Invariance, PTL

(* The run uses up exactly one TCP connection per GET. *)
THEOREM ConnectionPerGet == Spec => []OneConnectionPerGet
  <1>1. Inv => OneConnectionPerGet
    BY DEF Inv
  <1>2. QED
    BY <1>1, Invariance, PTL

-----------------------------------------------------------------------------
(* GETs and rows. *)

(* GETs of the current row that the client has read. *)
RowGets ==
    LET p == IF primed THEN 1 ELSE 0
        c == IF pc = "codec" THEN 1 ELSE 0
    IN CASE phase = "warmup"     -> 0
         [] phase = "cold"       -> samples
         [] phase = "warm_fetch" -> Iterations + p + samples
         [] phase = "enc"        -> 2 * Iterations + 1 + p + samples + c
         [] phase = "dec"        -> 3 * Iterations + 2
         [] OTHER                -> 3 * Iterations + 2 + p + samples + c

(* What the rows and the loop of the current row account for. *)
CountInv ==
    /\ outcome = "running" => fetched = rows * GetsPerRow + RowGets
    /\ outcome = "ok" => fetched = Rows * GetsPerRow
    /\ outcome = "running" /\ ~primed /\ phase \in {"warm_fetch", "enc", "rt"}
         => samples = 0
    /\ pc = "off" => phase = "warmup"

(* A number of rows, each of a number of GETs, is a number of GETs. *)
LEMMA ProductIsNat ==
  ASSUME NEW r \in Nat, NEW g \in Nat PROVE r * g \in Nat
  OBVIOUS

(* Rows that are not the last leave room for one more. *)
LEMMA RoomForARow ==
  ASSUME NEW r \in Nat, NEW R \in Nat, NEW g \in Nat, r < R
  PROVE  /\ (r + 1) * g = r * g + g
         /\ r * g + g =< R * g
         /\ r * g \in Nat /\ R * g \in Nat
  OBVIOUS

(* A GET is counted once, by the loop that made it or, at the end of a loop,  *)
(* by the offset of the next one.                                             *)
LEMMA CountStep == Inv /\ Inv' /\ CountInv /\ [Next]_vars => CountInv'
  <1> SUFFICES ASSUME Inv, Inv', CountInv, [Next]_vars PROVE CountInv'
    OBVIOUS
  <1> USE DEF Inv
  <1>g. GetsPerRow \in Nat /\ GetsPerRow = 4 * Iterations + 3
    BY DEF GetsPerRow
  <1>t. /\ samples \in Nat /\ rows \in Nat /\ fetched \in Nat
        /\ Iterations \in Nat /\ Rows \in Nat
    BY DEF TypeOK
  <1>r. rows * GetsPerRow \in Nat
    BY <1>g, <1>t
  <1>1. CASE ReceiveResponse
    <2>1. outcome = "running" /\ NeedsGet /\ rows' = rows /\ phase' = phase
          /\ fetched' = fetched + 1 /\ outcome' = outcome
      BY <1>1 DEF ReceiveResponse, HarnessInv
    <2>2. RowGets' = RowGets + 1
      <3>1. CASE phase # "cold" /\ ~primed
        BY <1>1, <2>1, <3>1, <1>t DEF ReceiveResponse, RowGets, NeedsGet, NetPhases
      <3>2. CASE ~(phase # "cold" /\ ~primed)
        BY <1>1, <2>1, <3>2, <1>t DEF ReceiveResponse, RowGets, NeedsGet, NetPhases
      <3>3. QED
        BY <3>1, <3>2
    <2>3. RowGets \in Nat
      BY <1>t, SMTT(60) DEF RowGets
    <2>4. fetched' = rows' * GetsPerRow + RowGets'
      BY <2>1, <2>2, <2>3, <1>r, <1>t DEF CountInv
    <2>5. QED
      BY <1>1, <2>1, <2>4 DEF CountInv, ReceiveResponse
  <1>2. CASE TimedCodecWork
    <2>1. outcome = "running" /\ rows' = rows /\ phase' = phase
          /\ fetched' = fetched /\ outcome' = outcome /\ primed' = primed
      BY <1>2 DEF TimedCodecWork, HarnessInv
    <2>2. RowGets' = RowGets
      BY <1>2, <2>1, <1>t DEF TimedCodecWork, RowGets, HarnessInv
    <2>3. QED
      BY <1>2, <2>1, <2>2 DEF CountInv, TimedCodecWork, HarnessInv
  <1>3. CASE EndPhase
    <2>1. outcome = "running" /\ fetched' = fetched /\ rows < Rows
          /\ samples' = 0 /\ primed' = FALSE /\ pc # "codec" /\ pc' # "codec"
          /\ pc' # "off"
      BY <1>3 DEF EndPhase, HarnessInv
    <2>2. CASE phase = "rt"
      <3>1. rows' = rows + 1 /\ phase' = "warmup"
        BY <1>3, <2>2 DEF EndPhase, PhaseAfter
      <3>2. RowGets = GetsPerRow
        BY <1>3, <2>1, <2>2, <1>g, <1>t
           DEF EndPhase, RowGets, NeedsGet, NetPhases
      <3>3. fetched' = rows' * GetsPerRow
        BY <2>1, <3>1, <3>2, <1>g, <1>t, RoomForARow DEF CountInv
      <3>4. RowGets' = 0
        BY <3>1 DEF RowGets
      <3>5. outcome' = "ok" => rows' = Rows
        BY <1>3, <2>1 DEF EndPhase
      <3>6. rows' * GetsPerRow \in Nat
        BY <3>1, <1>t, <1>g
      <3>7. QED
        BY <2>1, <3>1, <3>3, <3>4, <3>5, <3>6 DEF CountInv
    <2>3. CASE phase # "rt"
      <3>1. rows' = rows /\ outcome' = "running"
        BY <1>3, <2>1, <2>3, <1>t DEF EndPhase
      <3>2. RowGets' = RowGets
        BY <1>3, <2>1, <2>3, <1>t
           DEF EndPhase, RowGets, NeedsGet, NetPhases, PhaseAfter, TypeOK, Phases,
               CountInv
      <3>3. QED
        BY <2>1, <3>1, <3>2 DEF CountInv
    <2>4. QED
      BY <2>2, <2>3
  <1>4. CASE Start \/ IssueGet
    <2>1. UNCHANGED <<rows, phase, samples, primed, outcome, fetched>>
          /\ pc # "codec" /\ pc' # "codec" /\ pc' # "off"
      BY <1>4 DEF Start, IssueGet
    <2>2. RowGets' = RowGets
      BY <2>1 DEF RowGets
    <2>3. QED
      BY <2>1, <2>2 DEF CountInv
  <1>5. CASE StartRaises \/ RowRaises
    BY <1>5 DEF StartRaises, RowRaises, CountInv
  <1>6. CASE StopRequest \/ StopClose \/ StopJoin
    <2>1. UNCHANGED <<rows, fetched, outcome>> /\ outcome # "running" /\ pc' # "off"
      BY <1>6 DEF StopRequest, StopClose, StopJoin, HarnessInv
    <2>2. QED
      BY <2>1 DEF CountInv
  <1>7. CASE Serve \/ Handlers \/ UNCHANGED vars
    <2>1. UNCHANGED harnessVars
      BY <1>7 DEF Serve, Handlers, ServeEnter, ServeSeesShutdown, ServeSelects,
           ServeAccepts, ServeLeaves, ServeThreadDies, HandlerAnswers,
           HandlerCloses, vars
    <2>2. QED
      BY <2>1 DEF harnessVars, CountInv, RowGets
  <1>8. QED
    BY <1>1, <1>2, <1>3, <1>4, <1>5, <1>6, <1>7
       DEF Next, HarnessWork, HarnessFault

(* The counts agree in every reachable state. *)
LEMMA Counting == Spec => [](Inv /\ CountInv)
  <1>1. Init => CountInv
    <2> SUFFICES ASSUME Init PROVE CountInv
      OBVIOUS
    <2>1. rows * GetsPerRow = 0
      BY DEF Init, GetsPerRow
    <2>2. RowGets = 0
      BY DEF Init, RowGets
    <2>3. QED
      BY <2>1, <2>2 DEF Init, CountInv
  <1>2. QED
    BY <1>1, CountStep, Invariance, PTL DEF Spec

(* A row is appended only with exactly its own GETs behind it, whatever the   *)
(* number of rows and iterations.                                             *)
THEOREM RowsAndGetsAgree == Spec => RowsMatchGets
  <1>1. Inv /\ CountInv /\ CountInv' /\ Inv' /\ [Next]_vars
          => [rows' # rows => fetched' = rows' * GetsPerRow]_vars
    <2> SUFFICES ASSUME Inv, CountInv, CountInv', Inv', [Next]_vars, rows' # rows
                 PROVE  fetched' = rows' * GetsPerRow
      BY DEF vars
    <2>1. EndPhase /\ phase = "rt"
      BY DEF Next, HarnessWork, HarnessFault, Serve, Handlers, Start, IssueGet,
             ReceiveResponse, TimedCodecWork, EndPhase, StopRequest, StopClose,
             StopJoin, StartRaises, RowRaises, ServeEnter, ServeSeesShutdown,
             ServeSelects, ServeAccepts, ServeLeaves, ServeThreadDies,
             HandlerAnswers, HandlerCloses, vars, harnessVars
    <2>2. RowGets' = 0 /\ outcome' \in {"running", "ok"}
      BY <2>1 DEF EndPhase, PhaseAfter, RowGets, Inv, HarnessInv
    <2>a. rows' \in Nat /\ GetsPerRow \in Nat
      BY DEF Inv, TypeOK, GetsPerRow
    <2>3. rows' * GetsPerRow \in Nat
      BY <2>a, ProductIsNat
    <2>4. CASE outcome' = "running"
      BY <2>2, <2>3, <2>4 DEF CountInv
    <2>5. CASE outcome' = "ok"
      <3>1. rows' = Rows
        BY <2>1, <2>5 DEF EndPhase, Inv, HarnessInv
      <3>2. QED
        BY <3>1, <2>5 DEF CountInv
    <2>6. QED
      BY <2>2, <2>4, <2>5
  <1>2. QED
    BY <1>1, Counting, PTL DEF Spec, RowsMatchGets

(* The threads, flags and sockets implement the abstract service: it is       *)
(* opened once, answers no GET before or after that, never more than the run  *)
(* asks for, and is complete only with all of them.                           *)
THEOREM ServiceSafety == Spec => Service!Init /\ [][Service!Next]_(Service!svcVars)
  <1>1. Init => Service!Init
    BY DEF Init, Service!Init
  <1>2. Inv /\ CountInv /\ Inv' /\ CountInv' /\ [Next]_vars
          => [Service!Next]_(Service!svcVars)
    <2> SUFFICES ASSUME Inv, CountInv, Inv', CountInv', [Next]_vars
                 PROVE  [Service!Next]_(Service!svcVars)
      OBVIOUS
    <2>1. CASE Start
      BY <2>1 DEF Start, Service!Next, Service!Open, Inv, HarnessInv
    <2>2. CASE StartRaises
      <3>1. /\ pc = "off" /\ pc' = "done"
            /\ outcome = "running" /\ outcome' = "failed" /\ fetched' = fetched
        BY <2>2 DEF StartRaises, Inv, HarnessInv
      <3>2. QED
        BY <3>1 DEF Service!Next, Service!CannotOpen
    <2>3. CASE ReceiveResponse
      <3>1. /\ outcome = "running" /\ outcome' = "running"
            /\ rows < Rows /\ NeedsGet
            /\ pc # "off" /\ pc' # "off" /\ pc # "codec"
            /\ fetched' = fetched + 1
        BY <2>3 DEF ReceiveResponse, Inv, HarnessInv
      <3>a. /\ samples \in Nat /\ Iterations \in Nat
            /\ phase \in {"cold", "warm_fetch", "enc", "rt"}
            /\ samples < Iterations \/ (~primed /\ phase # "cold" /\ samples = 0)
        BY <3>1 DEF NeedsGet, NetPhases, Inv, TypeOK, CountInv
      <3>b. /\ RowGets \in Nat
            /\ RowGets < 4 * Iterations + 3
        BY <3>1, <3>a, SMTT(60) DEF RowGets
      <3>2. RowGets \in Nat /\ RowGets < GetsPerRow /\ GetsPerRow \in Nat
        BY <3>a, <3>b DEF GetsPerRow
      <3>3. fetched < Rows * GetsPerRow
        <4>1. rows \in Nat /\ Rows \in Nat
          BY DEF Inv, TypeOK
        <4>2. /\ rows * GetsPerRow + GetsPerRow =< Rows * GetsPerRow
              /\ rows * GetsPerRow \in Nat /\ Rows * GetsPerRow \in Nat
          BY <3>1, <3>2, <4>1, RoomForARow
        <4>3. fetched = rows * GetsPerRow + RowGets
          BY <3>1 DEF CountInv
        <4>4. QED
          BY <4>2, <4>3, <3>2
      <3>4. QED
        BY <3>1, <3>3 DEF Service!Next, Service!Answer
    <2>4. CASE EndPhase
      BY <2>4 DEF EndPhase, Service!Next, Service!Complete, Service!svcVars,
                  Inv, HarnessInv, CountInv
    <2>5. CASE RowRaises
      BY <2>5 DEF RowRaises, Service!Next, Service!Abort, Inv, HarnessInv
    <2>6. CASE IssueGet \/ TimedCodecWork
      BY <2>6 DEF IssueGet, TimedCodecWork, Service!svcVars, Inv, HarnessInv
    <2>7. CASE StopRequest \/ StopClose \/ StopJoin
      BY <2>7 DEF StopRequest, StopClose, StopJoin, Service!svcVars, Inv, HarnessInv
    <2>8. CASE Serve \/ Handlers \/ UNCHANGED vars
      <3>1. UNCHANGED harnessVars
        BY <2>8 DEF Serve, Handlers, ServeEnter, ServeSeesShutdown, ServeSelects,
             ServeAccepts, ServeLeaves, ServeThreadDies, HandlerAnswers,
             HandlerCloses, vars
      <3>2. QED
        BY <3>1 DEF harnessVars, Service!svcVars
    <2>9. QED
      BY <2>1, <2>2, <2>3, <2>4, <2>5, <2>6, <2>7, <2>8
         DEF Next, HarnessWork, HarnessFault
  <1>3. QED
    BY <1>1, <1>2, Counting, PTL DEF Spec

-----------------------------------------------------------------------------
(* The run always ends: some thread can always go on, and every step brings   *)
(* the end nearer.                                                            *)

(* The guards of the steps of the three kinds of threads.  An exception is    *)
(* not among them.                                                            *)
HarnessCanRun ==
    \/ pc \in {"off", "codec", "shutdown", "join"}
    \/ pc = "ready" /\ NeedsGet
    \/ pc = "ready" /\ phase = "dec" /\ samples < Iterations
    \/ pc = "ready" /\ (phase = "warmup" \/ (samples = Iterations /\ ~NeedsGet))
    \/ pc = "wait" /\ conn[sock] = "eof"
    \/ pc = "await" /\ isShutDown

SomeoneWaits == \E c \in DOMAIN conn : conn[c] = "backlog"

ServeCanRun ==
    \/ spc \in {"starting", "exit", "exited"}
    \/ spc = "loop" /\ (shutdownRequest \/ SomeoneWaits)
    \/ spc = "ready" /\ SomeoneWaits

HandlersCanRun == \E c \in DOMAIN conn : conn[c] \in {"accepted", "answered"}

NeverStuck == pc # "done" => HarnessCanRun \/ ServeCanRun \/ HandlersCanRun

(* Only the newest connection can be unfinished, also after an exception; a   *)
(* connection that serve_forever was woken for is still there; and shutdown() *)
(* waits only while its request is up or heard.                               *)
LiveInv ==
    /\ \A c \in DOMAIN conn : c # Len(conn) => conn[c] = "eof"
    /\ \A c \in DOMAIN conn : conn[c] = "reset" => pc \in {"join", "done"}
    /\ spc = "ready" => SomeoneWaits
    /\ pc = "await" => shutdownRequest \/ isShutDown

(* Loops of the run that the harness has not finished. *)
Place == [warmup |-> 0, cold |-> 1, warm_fetch |-> 2, enc |-> 3, dec |-> 4,
          rt |-> 5]
LoopsLeft == 6 * (Rows - rows) - Place[phase]

(* More than the steps of any one loop. *)
LoopBound == 3 * Iterations + 4

(* What is left to do, for the harness, the accept loop and the handlers.     *)
HarnessLeft ==
    IF pc \in {"off", "ready", "wait", "codec"}
    THEN 4 + LoopBound * LoopsLeft + 3 * (Iterations - samples)
           + (IF primed THEN 0 ELSE 3)
           + (IF pc = "off" THEN 3 ELSE IF pc = "ready" THEN 2
              ELSE IF pc = "wait" THEN 1 ELSE 0)
    ELSE IF pc = "shutdown" THEN 3 ELSE IF pc = "await" THEN 2
    ELSE IF pc = "join" THEN 1 ELSE 0

ServeLeft ==
    IF spc = "off" THEN 7 ELSE IF spc = "starting" THEN 6
    ELSE IF spc = "loop" THEN 5 ELSE IF spc = "ready" THEN 4
    ELSE IF spc = "exit" THEN 3 ELSE IF spc = "exited" THEN 2 ELSE 1

ConnLeft(state) ==
    IF state = "backlog" THEN 4 ELSE IF state = "accepted" THEN 2
    ELSE IF state = "answered" THEN 1 ELSE 0

HandlersLeft == IF Len(conn) = 0 THEN 0 ELSE ConnLeft(conn[Len(conn)])

Left == 5 * HarnessLeft + ServeLeft + HandlersLeft

LEMMA LiveInit == Init => LiveInv
  BY DEF Init, LiveInv

LEMMA LiveStep == Inv /\ LiveInv /\ [Next]_vars => LiveInv'
  <1> SUFFICES ASSUME Inv, LiveInv, [Next]_vars PROVE LiveInv'
    OBVIOUS
  <1> USE DEF Inv
  <1>0. conn \in Seq(ConnState)
    BY DEF TypeOK
  <1>1. CASE IssueGet
    <2>1. /\ sock = NoSock /\ pc = "ready" /\ outcome = "running"
          /\ conn' = Append(conn, "backlog")
          /\ UNCHANGED <<spc, flagVars>> /\ pc' = "wait"
      BY <1>1 DEF IssueGet, HarnessInv
    <2>2. /\ Len(conn') = Len(conn) + 1 /\ Len(conn) \in Nat
          /\ DOMAIN conn' = 1..(Len(conn) + 1) /\ DOMAIN conn = 1..Len(conn)
          /\ \A c \in 1..Len(conn) : conn'[c] = conn[c]
          /\ conn'[Len(conn) + 1] = "backlog"
      BY <1>0, <2>1, AppendConn DEF ConnState
    <2>3. \A c \in DOMAIN conn : conn[c] = "eof"
      BY <2>1 DEF NoWorkLeftBehind
    <2> QED
      BY <2>1, <2>2, <2>3 DEF LiveInv, SomeoneWaits
  <1>2. CASE StopClose
    <2>1. /\ pc' = "join" /\ isShutDown /\ UNCHANGED spc
          /\ DOMAIN conn' = DOMAIN conn /\ Len(conn') = Len(conn)
          /\ \A c \in DOMAIN conn :
               conn'[c] = IF conn[c] = "backlog" THEN "reset" ELSE conn[c]
      BY <1>0, <1>2 DEF StopClose
    <2> QED
      BY <2>1 DEF LiveInv, ThreadInv
  <1>3. CASE ServeAccepts \/ HandlerAnswers \/ HandlerCloses
    <2>1. PICK c \in DOMAIN conn, x \in {"accepted", "answered", "eof"} :
            /\ conn[c] # "eof" /\ conn' = [conn EXCEPT ![c] = x]
            /\ spc' = "ready" => conn[c] # "backlog"
      BY <1>3 DEF ServeAccepts, HandlerAnswers, HandlerCloses
    <2>2. /\ DOMAIN conn' = DOMAIN conn /\ Len(conn') = Len(conn)
          /\ conn'[c] = x
          /\ \A d \in DOMAIN conn : d # c => conn'[d] = conn[d]
      BY <1>0, <2>1, UpdateConn DEF ConnState
    <2>3. UNCHANGED harnessVars /\ UNCHANGED flagVars
          /\ (spc' = "ready" => spc = "ready")
      BY <1>3 DEF ServeAccepts, HandlerAnswers, HandlerCloses
    <2>4. \A d \in DOMAIN conn' : d # Len(conn') => conn'[d] = "eof"
      BY <2>1, <2>2 DEF LiveInv
    <2>5. \A d \in DOMAIN conn' : conn'[d] = "reset" => pc' \in {"join", "done"}
      BY <2>1, <2>2, <2>3 DEF LiveInv, harnessVars
    <2>6. spc' = "ready" => SomeoneWaits'
      <3> SUFFICES ASSUME spc' = "ready" PROVE SomeoneWaits'
        OBVIOUS
      <3>1. PICK d \in DOMAIN conn : conn[d] = "backlog"
        BY <2>3 DEF LiveInv, SomeoneWaits
      <3>2. d # c
        BY <2>1, <3>1
      <3> QED
        BY <2>2, <3>1, <3>2 DEF SomeoneWaits
    <2>7. (pc = "await" => shutdownRequest \/ isShutDown)'
      BY <2>3 DEF LiveInv, harnessVars, flagVars
    <2> QED
      BY <2>4, <2>5, <2>6, <2>7 DEF LiveInv
  <1>4. CASE Start \/ StartRaises \/ ReceiveResponse \/ TimedCodecWork \/ EndPhase
             \/ RowRaises \/ StopRequest \/ StopJoin
    <2>1. UNCHANGED <<conn>> /\ (spc' = "ready" => spc = "ready")
          /\ (pc \in {"join", "done"} => pc' \in {"join", "done"})
          /\ (pc' = "await" => shutdownRequest')
      BY <1>4 DEF Start, StartRaises, ReceiveResponse, TimedCodecWork, EndPhase,
                  RowRaises, StopRequest, StopJoin
    <2> QED
      BY <2>1 DEF LiveInv, SomeoneWaits
  <1>5. CASE ServeEnter \/ ServeSeesShutdown \/ ServeLeaves \/ ServeThreadDies
             \/ ServeSelects
    <2>1. UNCHANGED <<conn, harnessVars>> /\ (spc' = "ready" => SomeoneWaits)
          /\ (shutdownRequest \/ isShutDown => shutdownRequest' \/ isShutDown')
      BY <1>5 DEF ServeEnter, ServeSeesShutdown, ServeLeaves, ServeThreadDies,
                  ServeSelects, SomeoneWaits, flagVars, ThreadInv
    <2> QED
      BY <2>1 DEF LiveInv, SomeoneWaits, harnessVars
  <1>6. CASE UNCHANGED vars
    BY <1>6 DEF vars, harnessVars, flagVars, LiveInv, SomeoneWaits
  <1> QED
    BY <1>1, <1>2, <1>3, <1>4, <1>5, <1>6
       DEF Next, HarnessWork, HarnessFault, Serve, Handlers

(* The measure is a natural number, and 6 loops of a row are counted down one *)
(* by one.                                                                    *)
LeftTypes ==
    /\ HarnessLeft \in Nat /\ ServeLeft \in 1..7 /\ HandlersLeft \in 0..4
    /\ Left \in Nat
    /\ outcome = "running" => LoopsLeft \in Nat \ {0}

LEMMA LeftIsNat == Inv => LeftTypes
  <1> SUFFICES ASSUME Inv PROVE LeftTypes
    OBVIOUS
  <1> USE DEF Inv
  <1>1. /\ samples \in Nat /\ Iterations - samples \in Nat /\ rows \in Nat
        /\ Rows \in Nat /\ LoopBound \in Nat /\ primed \in BOOLEAN
    BY DEF TypeOK, LoopBound
  <1>2. ASSUME outcome = "running" PROVE LoopsLeft \in Nat \ {0}
    <2>1. Place[phase] \in 0..5
      BY DEF TypeOK, Phases, Place
    <2>2. rows < Rows
      BY <1>2 DEF HarnessInv
    <2> QED
      BY <1>1, <2>1, <2>2 DEF LoopsLeft
  <1>3. HarnessLeft \in Nat
    <2>1. CASE pc \in {"off", "ready", "wait", "codec"}
      <3>1. LoopsLeft \in Nat
        BY <1>2, <2>1 DEF HarnessInv
      <3>2. LoopBound * LoopsLeft \in Nat
        BY <1>1, <3>1, ProductIsNat
      <3> QED
        BY <1>1, <2>1, <3>2 DEF HarnessLeft
    <2>2. CASE pc \notin {"off", "ready", "wait", "codec"}
      BY <2>2 DEF HarnessLeft
    <2> QED
      BY <2>1, <2>2
  <1>4. ServeLeft \in 1..7 /\ HandlersLeft \in 0..4
    BY DEF ServeLeft, HandlersLeft, ConnLeft
  <1> QED
    BY <1>2, <1>3, <1>4 DEF Left, LeftTypes

LEMMA OneMore ==
    ASSUME NEW k \in Nat, NEW n \in Nat
    PROVE  k * (n + 1) = k * n + k /\ k * n \in Nat
  OBVIOUS

(* Every step of the harness brings its end nearer. *)
LEMMA HarnessStep ==
    ASSUME Inv, LeftTypes, Inv', LeftTypes', HarnessWork \/ HarnessFault
    PROVE  HarnessLeft' < HarnessLeft
  <1> USE DEF Inv
  <1>1. /\ samples \in Nat /\ samples =< Iterations /\ rows \in Nat
        /\ Rows \in Nat /\ LoopBound \in Nat /\ primed \in BOOLEAN
    BY DEF TypeOK, LoopBound
  <1> DEFINE product == LoopBound * LoopsLeft
  <1>3. outcome = "running" => LoopsLeft \in Nat \ {0} /\ product \in Nat
    BY <1>1, ProductIsNat DEF LeftTypes
  <1>4. CASE Start \/ IssueGet \/ ReceiveResponse \/ TimedCodecWork
    <2>1. /\ UNCHANGED <<rows, phase>> /\ outcome = "running"
          /\ pc \in {"off", "ready", "wait", "codec"}
          /\ pc' \in {"ready", "wait", "codec"}
      BY <1>4 DEF Start, IssueGet, ReceiveResponse, TimedCodecWork, HarnessInv
    <2>2. product' = product /\ product \in Nat
      BY <1>3, <2>1 DEF LoopsLeft, LoopBound
    <2>3. samples' \in Nat /\ primed' \in BOOLEAN
      BY DEF TypeOK
    <2> HIDE DEF product
    <2>4. CASE Start \/ IssueGet
      BY <1>1, <2>1, <2>2, <2>4 DEF Start, IssueGet, HarnessLeft, product
    <2>5. CASE ReceiveResponse
      <3>1. \/ pc' = "ready" /\ samples' = samples /\ ~primed /\ primed'
            \/ pc' = "codec" /\ samples' = samples /\ primed' = primed
            \/ pc' = "ready" /\ samples' = samples + 1 /\ primed' = primed
        BY <2>5 DEF ReceiveResponse
      <3>2. pc = "wait"
        BY <2>5 DEF ReceiveResponse
      <3> QED
        BY <1>1, <2>1, <2>2, <2>3, <3>1, <3>2 DEF HarnessLeft, product
    <2>6. CASE TimedCodecWork
      BY <1>1, <2>1, <2>2, <2>6 DEF TimedCodecWork, HarnessLeft, product
    <2> QED
      BY <1>4, <2>4, <2>5, <2>6
  <1>5. CASE EndPhase
    <2>1. /\ outcome = "running" /\ pc = "ready" /\ pc' \in {"ready", "shutdown"}
          /\ samples' = 0 /\ primed' = FALSE
      BY <1>5 DEF EndPhase, HarnessInv
    <2>2. CASE pc' = "shutdown"
      BY <1>1, <1>3, <2>1, <2>2 DEF HarnessLeft
    <2>3. CASE pc' = "ready"
      <3>1. LoopsLeft = LoopsLeft' + 1 /\ LoopsLeft' \in Nat
        <4>1. LoopsLeft' \in Nat
          BY <2>3 DEF HarnessInv, LeftTypes
        <4>2. CASE phase = "rt"
          BY <1>1, <1>5, <4>1, <4>2 DEF EndPhase, PhaseAfter, LoopsLeft, Place
        <4>3. CASE phase # "rt"
          BY <1>1, <1>5, <4>1, <4>3
          DEF EndPhase, PhaseAfter, LoopsLeft, Place, TypeOK, Phases
        <4> QED
          BY <4>1, <4>2, <4>3
      <3>2. product = product' + LoopBound /\ product' \in Nat
        <4>1. LoopBound' = LoopBound
          BY DEF LoopBound
        <4> QED
          BY <1>1, <3>1, <4>1, OneMore
      <3> HIDE DEF product
      <3> QED
        BY <1>1, <2>1, <2>3, <3>2 DEF HarnessLeft, LoopBound, product
    <2> QED
      BY <2>1, <2>2, <2>3
  <1>6. CASE StopRequest \/ StopClose \/ StopJoin
    BY <1>6 DEF StopRequest, StopClose, StopJoin, HarnessLeft
  <1>7. CASE StartRaises \/ RowRaises
    <2>1. pc \in {"off", "ready", "wait", "codec"} /\ pc' \in {"done", "shutdown"}
      BY <1>7 DEF StartRaises, RowRaises
    <2>2. outcome = "running"
      BY <2>1 DEF HarnessInv
    <2> QED
      BY <1>1, <1>3, <2>1, <2>2 DEF HarnessLeft
  <1> QED
    BY <1>4, <1>5, <1>6, <1>7 DEF HarnessWork, HarnessFault

(* A step of the harness outweighs what it hands to the other threads. *)
LEMMA Outweighs ==
    ASSUME NEW h \in Nat, NEW g \in Nat, NEW s \in Nat, NEW t \in Nat,
           NEW c \in Nat, NEW d \in 0..4,
           \/ g < h /\ t =< s /\ (d = c \/ t = s)
           \/ g = h /\ t + d < s + c
    PROVE  5 * g + t + d < 5 * h + s + c
  OBVIOUS

(* ... and every step of the other threads theirs. *)
LEMMA ServerStep ==
    ASSUME Inv, LiveInv, LeftTypes, LeftTypes', Serve \/ Handlers
    PROVE  /\ HarnessLeft' = HarnessLeft
           /\ ServeLeft' + HandlersLeft' < ServeLeft + HandlersLeft
  <1> USE DEF Inv
  <1>0. conn \in Seq(ConnState)
    BY DEF TypeOK
  <1>1. UNCHANGED harnessVars
    BY DEF Serve, Handlers, ServeEnter, ServeSeesShutdown, ServeSelects,
           ServeAccepts, ServeLeaves, ServeThreadDies, HandlerAnswers,
           HandlerCloses
  <1>2. HarnessLeft' = HarnessLeft
    BY <1>1 DEF harnessVars, HarnessLeft, LoopsLeft, LoopBound
  <1>3. /\ ServeLeft \in Nat /\ HandlersLeft \in Nat
        /\ ServeLeft' \in Nat /\ HandlersLeft' \in Nat
    BY DEF LeftTypes
  <1>4. CASE ServeEnter \/ ServeSeesShutdown \/ ServeLeaves \/ ServeThreadDies
             \/ ServeSelects
    <2>1. HandlersLeft' = HandlersLeft
      BY <1>4 DEF ServeEnter, ServeSeesShutdown, ServeLeaves, ServeThreadDies,
                  ServeSelects, HandlersLeft
    <2>2. ServeLeft' < ServeLeft /\ ServeLeft' \in Nat
      BY <1>4 DEF ServeEnter, ServeSeesShutdown, ServeLeaves, ServeThreadDies,
                  ServeSelects, ServeLeft
    <2> QED
      BY <1>2, <1>3, <2>1, <2>2 DEF ServeLeft, HandlersLeft
  <1>5. CASE ServeAccepts \/ Handlers
    <2>1. PICK c \in DOMAIN conn, x \in {"accepted", "answered", "eof"} :
            /\ conn' = [conn EXCEPT ![c] = x]
            /\ \/ /\ conn[c] = "backlog" /\ x = "accepted"
                  /\ spc = "ready" /\ spc' = "loop"
               \/ conn[c] = "accepted" /\ x = "answered" /\ UNCHANGED spc
               \/ conn[c] = "answered" /\ x = "eof" /\ UNCHANGED spc
      BY <1>5 DEF ServeAccepts, Handlers, HandlerAnswers, HandlerCloses
    <2>2. c = Len(conn) /\ Len(conn) # 0
      BY <1>0, <2>1 DEF LiveInv
    <2>3. Len(conn') = Len(conn) /\ conn'[Len(conn)] = x
      BY <1>0, <2>1, <2>2, UpdateConn DEF ConnState
    <2>4. HandlersLeft = ConnLeft(conn[c]) /\ HandlersLeft' = ConnLeft(x)
      BY <2>2, <2>3 DEF HandlersLeft
    <2> QED
      BY <1>2, <2>1, <2>4 DEF ConnLeft, ServeLeft
  <1> QED
    BY <1>4, <1>5 DEF Serve

LEMMA LiveInvariance == Spec => [](Inv /\ LiveInv)
  BY LiveInit, LiveStep, Invariance, PTL DEF Spec

(* Until the run is over, some thread can go on without an exception: the     *)
(* harness, the accept loop and the handlers never all wait for one another,  *)
(* not even when shutdown() meets a serve_forever that has not begun          *)
(* (registry_mock.py:56-102).                                                  *)
THEOREM SomeThreadCanRun == Spec => []NeverStuck
  <1>1. ASSUME Inv, LiveInv, pc # "done", ~HarnessCanRun
        PROVE  ServeCanRun \/ HandlersCanRun
    <2> USE <1>1 DEF Inv
    <2>0. pc \in {"ready", "wait", "await"}
      BY DEF TypeOK, Benchmarking, Stopping, HarnessCanRun
    <2>1. CASE pc = "ready"
      BY <2>1 DEF HarnessCanRun, NeedsGet, NetPhases, TypeOK, Phases
    <2>2. CASE pc = "wait"
      <3>1. /\ sock = Len(conn) /\ sock \in DOMAIN conn
            /\ conn[sock] \in {"backlog", "accepted", "answered"}
        BY <2>2 DEF HarnessInv, HarnessCanRun, TypeOK, ConnState, LiveInv
      <3>2. CASE conn[sock] = "backlog"
        <4>1. spc \in {"starting", "loop", "ready"}
          BY <2>2 DEF ThreadInv, TypeOK
        <4> QED
          BY <3>1, <3>2, <4>1 DEF ServeCanRun, SomeoneWaits
      <3>3. CASE conn[sock] # "backlog"
        BY <3>1, <3>3 DEF HandlersCanRun
      <3> QED
        BY <3>2, <3>3
    <2>3. CASE pc = "await"
      <3>1. ~isShutDown /\ shutdownRequest
        BY <2>3 DEF HarnessCanRun, LiveInv
      <3>2. spc \in {"starting", "loop", "ready", "exit"}
        BY <2>3, <3>1 DEF ThreadInv, TypeOK
      <3> QED
        BY <3>1, <3>2 DEF ServeCanRun, LiveInv
    <2> QED
      BY <2>0, <2>1, <2>2, <2>3
  <1>2. Inv /\ LiveInv => NeverStuck
    BY <1>1 DEF NeverStuck
  <1> QED
    BY <1>2, LiveInvariance, PTL

(* Every step, of whatever thread and also an exception, brings the end of    *)
(* the run nearer: no thread spins or starts again, so that a run of any      *)
(* number of rows and iterations has no more steps than Left has at its       *)
(* start.                                                                     *)
THEOREM EveryStepCounts == Spec => [](Left \in Nat) /\ [][Left' < Left]_vars
  <1>1. Inv => Left \in Nat
    BY LeftIsNat DEF LeftTypes
  <1>2. Inv /\ LiveInv /\ LeftTypes /\ Inv' /\ LeftTypes' /\ [Next]_vars
          => [Left' < Left]_vars
    <2> SUFFICES ASSUME Inv, LiveInv, LeftTypes, Inv', LeftTypes', Next
                 PROVE  Left' < Left
      OBVIOUS
    <2>1. /\ HarnessLeft \in Nat /\ ServeLeft \in Nat /\ HandlersLeft \in Nat
          /\ HarnessLeft' \in Nat /\ ServeLeft' \in Nat /\ HandlersLeft' \in 0..4
      BY DEF LeftTypes
    <2>2. CASE HarnessWork \/ HarnessFault
      <3>1. HarnessLeft' < HarnessLeft
        BY <2>2, HarnessStep
      <3>2. CASE IssueGet \/ StopClose
        <4>1. ServeLeft' = ServeLeft /\ ServeLeft' =< ServeLeft
          BY <3>2 DEF IssueGet, StopClose, ServeLeft
        <4> QED
          BY <2>1, <3>1, <4>1, Outweighs DEF Left
      <3>3. CASE ~(IssueGet \/ StopClose)
        <4>1. /\ UNCHANGED conn
              /\ spc' = spc \/ (spc = "off" /\ spc' = "starting")
          BY <2>2, <3>3
          DEF HarnessWork, HarnessFault, Start, ReceiveResponse, TimedCodecWork,
              EndPhase, StopRequest, StopJoin, StartRaises, RowRaises,
              Inv, ThreadInv
        <4>2. HandlersLeft' = HandlersLeft /\ ServeLeft' =< ServeLeft
          BY <4>1 DEF HandlersLeft, ServeLeft
        <4> QED
          BY <2>1, <3>1, <4>2, Outweighs DEF Left
      <3> QED
        BY <3>2, <3>3
    <2>3. CASE Serve \/ Handlers
      BY <2>1, <2>3, ServerStep, Outweighs DEF Left
    <2> QED
      BY <2>2, <2>3 DEF Next
  <1> QED
    BY <1>1, <1>2, LiveInvariance, LeftIsNat, PTL DEF Spec
==============================================================================
