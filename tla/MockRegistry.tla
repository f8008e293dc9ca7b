----------------------------- MODULE MockRegistry -----------------------------
(***************************************************************************)
(* Tier S2 of the benchmark: the loopback mock schema registry              *)
(* (registry_mock.py) and the client side of _bench_codec_s2 (runner.py)    *)
(* that fetches from it.  Three kinds of threads run:                       *)
(*   - the harness thread: start(), the timed loops of every S2 row, stop();*)
(*   - the "mock-sr" thread: socketserver's serve_forever accept loop;      *)
(*   - one daemon thread per accepted connection, running do_GET.           *)
(* They share the listening socket, the TCP connections and the two flags   *)
(* by which shutdown() and serve_forever() hand over.                       *)
(***************************************************************************)
EXTENDS Integers, Sequences

CONSTANTS
    Rows,           \* S2 rows of the run: payload profiles x formats
    Iterations      \* timed_iterations: samples of every timed loop

(* typer declares --iterations with min=1; a run has at least one row. *)
ASSUME MockRegistryAssumption ==
    /\ Rows \in Nat \ {0}
    /\ Iterations \in Nat \ {0}

VARIABLES
    pc,                 \* where the harness thread is
    phase,              \* the loop of _bench_codec_s2 it is in
    samples,            \* length of that loop's list of timings
    primed,             \* prime_connection has returned in this loop
    rows,               \* rows finished
    outcome,            \* "running", "ok" or "failed" (an exception)
    sock,               \* connection the client holds open, NoSock if none
    fetched,            \* GETs the client has read to the end (history)
    conn,               \* TCP connections in the order they were opened
    spc,                \* where the mock-sr thread is
    shutdownRequest,    \* BaseServer.__shutdown_request
    isShutDown,         \* BaseServer.__is_shut_down
    listening           \* the port is bound

harnessVars == <<pc, phase, samples, primed, rows, outcome, sock, fetched>>
flagVars    == <<shutdownRequest, isShutDown>>
vars == <<harnessVars, conn, spc, flagVars, listening>>

NoSock == 0

(* A connection: in the backlog, handed to a handler thread, response sent, *)
(* closed by the server, or reset with the listening socket.                *)
ConnState == {"backlog", "accepted", "answered", "eof", "reset"}

(* Mutant of PhaseAfter: the loop of warm GETs is forgotten. *)
PhaseAfterSkips == [warmup |-> "cold", cold |-> "enc", warm_fetch |-> "enc",
                    enc |-> "dec", dec |-> "rt", rt |-> "warmup"]

(* The loops of _bench_codec_s2 in order, and the ones that GET. *)
PhaseAfter == [warmup |-> "cold", cold |-> "warm_fetch", warm_fetch |-> "enc",
               enc |-> "dec", dec |-> "rt", rt |-> "warmup"]
Phases    == {"warmup", "cold", "warm_fetch", "enc", "dec", "rt"}
NetPhases == {"cold", "warm_fetch", "enc", "rt"}

(* GETs of one row: four loops, three of them with a priming GET first. *)
GetsPerRow == 4 * Iterations + 3

Benchmarking == {"ready", "wait", "codec"}
Stopping     == {"shutdown", "await", "join"}

TypeOK ==
    /\ pc \in {"off", "done"} \cup Benchmarking \cup Stopping
    /\ phase \in Phases
    /\ samples \in 0..Iterations
    /\ primed \in BOOLEAN
    /\ rows \in 0..Rows
    /\ outcome \in {"running", "ok", "failed"}
    /\ conn \in Seq(ConnState)
    /\ sock \in 0..Len(conn)
    /\ fetched \in Nat
    /\ spc \in {"off", "starting", "loop", "ready", "exit", "exited", "dead"}
    /\ shutdownRequest \in BOOLEAN
    /\ isShutDown \in BOOLEAN
    /\ listening \in BOOLEAN

Init ==
    /\ pc = "off" /\ phase = "warmup" /\ samples = 0 /\ primed = FALSE
    /\ rows = 0 /\ outcome = "running" /\ sock = NoSock /\ fetched = 0
    /\ conn = <<>>
    /\ spc = "off"
    /\ shutdownRequest = FALSE /\ isShutDown = FALSE /\ listening = FALSE

-----------------------------------------------------------------------------
(* The harness thread: MockRegistryServer.start. *)

(* Bind an ephemeral port, then start the thread that runs serve_forever. *)
Start ==
    /\ pc = "off"
    /\ listening' = TRUE
    /\ spc' = "starting"
    /\ pc' = "ready"
    /\ UNCHANGED <<phase, samples, primed, rows, outcome, sock, fetched,
                   conn, flagVars>>

(* bind raises, or Thread.start raises with the port already bound.  start() *)
(* runs before build_report's try, so nothing calls stop().                  *)
StartRaises ==
    /\ pc = "off"
    /\ listening' \in BOOLEAN
    /\ outcome' = "failed"
    /\ pc' = "done"
    /\ UNCHANGED <<phase, samples, primed, rows, sock, fetched, conn, spc,
                   flagVars>>

-----------------------------------------------------------------------------
(* The harness thread: the loops of _bench_codec_s2. *)

(* Mutant of WillClose: the server keeps connections alive. *)
WillKeepAlive == FALSE

(* The reply of an HTTP/1.0 server with no Content-Length ends with the       *)
(* connection: http.client sees will_close and drops its socket.              *)
WillClose == TRUE

(* The loop still has a GET to make: the priming one, or a timed one. *)
NeedsGet ==
    /\ phase \in NetPhases
    /\ \/ samples < Iterations
       \/ phase # "cold" /\ ~primed

(* HTTPConnection.request: send on the open socket, connecting first when     *)
(* there is none.  The handler blocks until the request has arrived, so       *)
(* connecting and sending are one step.                                       *)
IssueGet ==
    /\ pc = "ready" /\ NeedsGet
    /\ pc' = "wait"
    /\ IF sock = NoSock
       THEN /\ conn' = Append(conn, "backlog")
            /\ sock' = Len(conn) + 1
       ELSE /\ conn' = [conn EXCEPT ![sock] = "accepted"]
            /\ UNCHANGED sock
    /\ UNCHANGED <<phase, samples, primed, rows, outcome, fetched, spc,
                   flagVars, listening>>

(* Mutant of ReceiveResponse: the client goes on without reading to the end. *)
ReceiveNoResponse ==
    /\ pc = "wait"
    /\ fetched' = fetched + 1
    /\ sock' = NoSock
    /\ pc' = "ready"
    /\ primed' = TRUE
    /\ samples' = IF samples < Iterations THEN samples + 1 ELSE samples
    /\ UNCHANGED <<phase, rows, outcome, conn, spc, flagVars, listening>>

(* getresponse and read: the body ends at EOF.  http_get_cold closes its      *)
(* connection; the other loops leave that to will_close.  A priming GET is    *)
(* not timed; encode and round trip still have codec work in the timed window.*)
ReceiveResponse ==
    /\ pc = "wait"
    /\ conn[sock] = "eof"
    /\ fetched' = fetched + 1
    /\ sock' = IF WillClose \/ phase = "cold" THEN NoSock ELSE sock
    /\ IF phase # "cold" /\ ~primed
       THEN primed' = TRUE /\ pc' = "ready" /\ UNCHANGED samples
       ELSE /\ UNCHANGED primed
            /\ IF phase \in {"enc", "rt"}
               THEN pc' = "codec" /\ UNCHANGED samples
               ELSE pc' = "ready" /\ samples' = samples + 1
    /\ UNCHANGED <<phase, rows, outcome, conn, spc, flagVars, listening>>

(* Codec work that ends a timed window: after the GET in the encode and       *)
(* round-trip loops, alone in the decode loop.                                *)
TimedCodecWork ==
    /\ \/ pc = "codec"
       \/ pc = "ready" /\ phase = "dec" /\ samples < Iterations
    /\ samples' = samples + 1
    /\ pc' = "ready"
    /\ UNCHANGED <<phase, primed, rows, outcome, sock, fetched, conn, spc,
                   flagVars, listening>>

(* A loop is over: its connection is closed and its list of timings complete. *)
(* After the round-trip loop the row is; after the last row the finally of    *)
(* build_report stops the server.                                             *)
EndPhase ==
    /\ pc = "ready"
    /\ phase = "warmup" \/ (samples = Iterations /\ ~NeedsGet)
    /\ phase' = PhaseAfter[phase]
    /\ samples' = 0 /\ primed' = FALSE /\ sock' = NoSock
    /\ rows' = IF phase = "rt" THEN rows + 1 ELSE rows
    /\ IF rows' = Rows
       THEN pc' = "shutdown" /\ outcome' = "ok"
       ELSE UNCHANGED <<pc, outcome>>
    /\ UNCHANGED <<fetched, conn, spc, flagVars, listening>>

(* Mutant of RowRaises: the exception is swallowed after the cleanup. *)
RowRaisesSilently ==
    /\ pc \in Benchmarking
    /\ sock' = NoSock
    /\ outcome' = "ok"
    /\ pc' = "shutdown"
    /\ UNCHANGED <<phase, samples, primed, rows, fetched, conn, spc, flagVars,
                   listening>>

(* Anything in a row raises: connection refused or reset, the 60 s socket     *)
(* timeout, a status other than 200, an exception of the codec.  The loop's   *)
(* finally closes the connection and build_report's finally stops the server. *)
RowRaises ==
    /\ pc \in Benchmarking
    /\ sock' = NoSock
    /\ outcome' = "failed"
    /\ pc' = "shutdown"
    /\ UNCHANGED <<phase, samples, primed, rows, fetched, conn, spc, flagVars,
                   listening>>

-----------------------------------------------------------------------------
(* The harness thread: MockRegistryServer.stop. *)

(* shutdown(): raise the flag ... *)
StopRequest ==
    /\ pc = "shutdown"
    /\ shutdownRequest' = TRUE
    /\ pc' = "await"
    /\ UNCHANGED <<phase, samples, primed, rows, outcome, sock, fetched, conn,
                   spc, isShutDown, listening>>

(* Mutant of StopClose: the port is closed without waiting for the loop. *)
StopCloseAtOnce ==
    /\ pc = "await"
    /\ listening' = FALSE
    /\ pc' = "join"
    /\ UNCHANGED <<phase, samples, primed, rows, outcome, sock, fetched, conn,
                   spc, flagVars>>

(* ... and wait for serve_forever to leave its loop; then server_close()      *)
(* closes the port, and the kernel resets what is still in the backlog.       *)
(* Handler threads are daemons: server_close does not join them.              *)
StopClose ==
    /\ pc = "await" /\ isShutDown
    /\ listening' = FALSE
    /\ conn' = [c \in DOMAIN conn |->
                  IF conn[c] = "backlog" THEN "reset" ELSE conn[c]]
    /\ pc' = "join"
    /\ UNCHANGED <<phase, samples, primed, rows, outcome, sock, fetched, spc,
                   flagVars>>

(* join(timeout=10.0) returns when the thread is dead, or after 10 s. *)
StopJoin ==
    /\ pc = "join"
    /\ pc' = "done"
    /\ UNCHANGED <<phase, samples, primed, rows, outcome, sock, fetched, conn,
                   spc, flagVars, listening>>

HarnessWork ==
    \/ Start \/ IssueGet \/ ReceiveResponse \/ TimedCodecWork \/ EndPhase
    \/ StopRequest \/ StopClose \/ StopJoin

HarnessFault == StartRaises \/ RowRaises

-----------------------------------------------------------------------------
(* The mock-sr thread: socketserver.BaseServer.serve_forever. *)

(* Mutant of ServeEnter: the loop starts by lowering the shutdown flag. *)
ServeEnterLowersFlag ==
    /\ spc = "starting"
    /\ isShutDown' = FALSE /\ shutdownRequest' = FALSE
    /\ spc' = "loop"
    /\ UNCHANGED <<harnessVars, conn, listening>>

ServeEnter ==
    /\ spc = "starting"
    /\ isShutDown' = FALSE
    /\ spc' = "loop"
    /\ UNCHANGED <<harnessVars, conn, shutdownRequest, listening>>

(* The flag is tested at the top of the loop and again after select. *)
ServeSeesShutdown ==
    /\ spc = "loop" /\ shutdownRequest
    /\ spc' = "exit"
    /\ UNCHANGED <<harnessVars, conn, flagVars, listening>>

(* select reports a connection in the backlog, and the flag is down. *)
ServeSelects ==
    /\ spc = "loop" /\ ~shutdownRequest
    /\ \E c \in DOMAIN conn : conn[c] = "backlog"
    /\ spc' = "ready"
    /\ UNCHANGED <<harnessVars, conn, flagVars, listening>>

(* accept, and a daemon thread for the connection.  The flag may be up by now.*)
ServeAccepts ==
    /\ spc = "ready"
    /\ \E c \in DOMAIN conn :
         /\ conn[c] = "backlog"
         /\ conn' = [conn EXCEPT ![c] = "accepted"]
    /\ spc' = "loop"
    /\ UNCHANGED <<harnessVars, flagVars, listening>>

ServeLeaves ==
    /\ spc = "exit"
    /\ shutdownRequest' = FALSE
    /\ isShutDown' = TRUE
    /\ spc' = "exited"
    /\ UNCHANGED <<harnessVars, conn, listening>>

ServeThreadDies ==
    /\ spc = "exited"
    /\ spc' = "dead"
    /\ UNCHANGED <<harnessVars, conn, flagVars, listening>>

Serve == \/ ServeEnter \/ ServeSeesShutdown \/ ServeSelects \/ ServeAccepts
         \/ ServeLeaves \/ ServeThreadDies

-----------------------------------------------------------------------------
(* A handler thread: do_GET sends the response, then the connection is shut   *)
(* down.  It runs to its end even when the client is gone.                    *)

HandlerAnswers ==
    \E c \in DOMAIN conn :
      /\ conn[c] = "accepted"
      /\ conn' = [conn EXCEPT ![c] = "answered"]
      /\ UNCHANGED <<harnessVars, spc, flagVars, listening>>

(* Mutant of HandlerCloses: the handler waits for another request. *)
HandlerWaits == FALSE

HandlerCloses ==
    \E c \in DOMAIN conn :
      /\ conn[c] = "answered"
      /\ conn' = [conn EXCEPT ![c] = "eof"]
      /\ UNCHANGED <<harnessVars, spc, flagVars, listening>>

Handlers == HandlerAnswers \/ HandlerCloses

Next == HarnessWork \/ HarnessFault \/ Serve \/ Handlers

(* Every thread runs on; an exception is never owed. *)
Fairness == WF_vars(HarnessWork) /\ WF_vars(Serve) /\ WF_vars(Handlers)

Spec == Init /\ [][Next]_vars /\ Fairness

-----------------------------------------------------------------------------
(* Once stop() has returned, nothing of the server is left that could disturb *)
(* a later measurement or hold the port: the port is closed, the accept loop  *)
(* is over and no connection waits to be accepted.  (start() that raised      *)
(* leaves spc at "off": it never handed out a server to stop.)                *)
StoppedIsQuiet ==
    pc = "done" /\ spc # "off" =>
      /\ ~listening
      /\ spc \in {"exited", "dead"}
      /\ \A c \in DOMAIN conn : conn[c] # "backlog"

(* No two handler threads overlap in a timed window: while the run goes well, *)
(* every connection but the newest is finished, and between two GETs so is    *)
(* the newest.  A GET that is over leaves no server work behind to be charged *)
(* to the codec that is timed next.                                           *)
NoWorkLeftBehind ==
    outcome # "failed" =>
      \A c \in DOMAIN conn :
        conn[c] # "eof" => c = Len(conn) /\ pc = "wait"

(* Every GET costs one TCP connection, whichever loop makes it: the number of *)
(* sockets a run uses up is the number of GETs, also after an exception.      *)
OneConnectionPerGet ==
    \/ Len(conn) = fetched /\ pc # "wait"
    \/ Len(conn) = fetched + 1 /\ (pc = "wait" \/ outcome = "failed")

(* A row is appended only with the GETs of all four loops behind it, the      *)
(* three priming GETs included: rows and GETs never drift apart.              *)
RowsMatchGets == [][rows' # rows => fetched' = rows' * GetsPerRow]_vars

(* stop() returns whatever the loops did: the handshake between shutdown()    *)
(* and serve_forever() cannot deadlock, even when serve_forever has not begun *)
(* when shutdown() is called.                                                 *)
RunEnds == <>(pc = "done")

(* Without an exception every GET is answered and every row is finished: no   *)
(* GET depends on its 60 s timeout to come back.                              *)
FaultFreeRunSucceeds == [](outcome # "failed") => <>(outcome = "ok")

(* The service the benchmark relies on. *)
Service == INSTANCE RegistryService WITH
    Gets     <- Rows * GetsPerRow,
    life     <- CASE pc = "off" -> "absent"
                  [] outcome = "ok" -> "complete"
                  [] outcome = "failed" -> "aborted"
                  [] OTHER -> "serving",
    answered <- fetched

ImplementsService == Service!Spec

(* What the comments of runner.py and registry_mock.py say of the warm loop:  *)
(* "Warm path = single connection, repeated GETs".  Once the connection is    *)
(* primed, the loop opens no other.                                           *)
WarmPathIsOneConnection ==
    [][phase = "warm_fetch" /\ primed /\ phase' = "warm_fetch"
         => Len(conn') = Len(conn)]_vars
==============================================================================
