------------------------------ MODULE BuildReport ------------------------------
(***************************************************************************)
(* build_report (runner.py): the benchmark matrix tier x profile x format,  *)
(* the timed loops that make up one row, the registry's lifetime around the *)
(* matrix and the steps between the last row and the report.                *)
(*                                                                          *)
(* A row is a straight-line program: a sequence of loops, each repeating a  *)
(* sequence of operations, some of them between perf_counter calls.  The    *)
(* programs are data (Program), one interpreter runs them, and every        *)
(* operation of every loop may raise.                                       *)
(***************************************************************************)
EXTENDS Integers, Sequences, FiniteSets

CONSTANTS
    Profiles,       \* payload profiles of the run, in the order of --scenario
    Formats,        \* formats of the run, in the order of --formats
    Iterations,     \* --iterations
    BatchSize,      \* --batch-size
    Warmups,        \* values of --warmup to explore
    LateSteps       \* steps after the matrix that may raise, in order

ASSUME BuildReportAssumption ==
    /\ Iterations \in Nat \ {0} /\ BatchSize \in Nat \ {0}
    /\ Warmups \subseteq Nat
    /\ Len(Profiles) \in Nat \ {0} /\ Len(Formats) \in Nat \ {0}
    /\ Len(LateSteps) \in Nat

Tiers == <<"S0", "S1", "S2", "S3", "S4">>      \* ALL_BENCHMARK_TIERS
ReportTier == {"S0", "S1", "S2", "S3", "S4", "all"}

VARIABLES
    args,           \* the run's --tier, --warmup and --tracemalloc
    pc,             \* "start", "row", "finally", "late", "returned", "raised"
    at,             \* loop variables of the matrix: tier, profile, format
    loop, turn, op, \* position in the row's program
    buf,            \* what the codec's argument holds: see Effect
    window,         \* operations since t0 = perf_counter()
    lists,          \* the row's lists of timings: each timing as its window
    rows,           \* results
    registry,       \* "none", "up" or "stopped"
    gets,           \* GETs answered by the registry
    tracing,        \* tracemalloc is on (process wide)
    late            \* late steps done

rowVars == <<loop, turn, op, buf, window, lists>>
vars == <<args, pc, at, rowVars, rows, registry, gets, tracing, late>>

(* tiers_loop. *)
TiersLoop == IF args.tier = "all" THEN Tiers ELSE <<args.tier>>
NeedsRegistry == \E i \in DOMAIN TiersLoop : TiersLoop[i] = "S2"

-----------------------------------------------------------------------------
(* The programs of the rows. *)

(* A loop of `count` turns over `ops`; its argument starts as `from`; `list`  *)
(* names the list the timings go to, "untimed" if there is none.              *)
Timed(list, from, ops) ==
    [list |-> list, from |-> from, ops |-> ops, count |-> Iterations]
Untimed(count, from, ops) ==
    [list |-> "untimed", from |-> from, ops |-> ops, count |-> count]

Repeat(o, n) == [i \in 1..n |-> o]

Compress(tier)   == IF tier = "S1" THEN <<"compress">> ELSE <<>>
(* Mutant of Decompress: the decode loop of S1 forgets to decompress. *)
DecompressNever(tier) == <<>>

Decompress(tier) == IF tier = "S1" THEN <<"decompress">> ELSE <<>>

(* Warm-up turns end with the encode that sets encoded_last; with no warm-up  *)
(* encoded_last is None and one encode replaces them.                         *)
WarmupLoops(tier) ==
    << Untimed(args.warmup, "event",
               <<"encode">> \o Compress(tier) \o Decompress(tier)
               \o <<"decode", "encode">>),
       Untimed(IF args.warmup = 0 THEN 1 ELSE 0, "event", <<"encode">>) >>

(* The encode, decode and round-trip loops of S0 and S1. *)
CodecLoops(tier) ==
    << Untimed(1, "wire", Compress(tier)),                  \* compressed_wire
       Timed("encode", "event", <<"encode">> \o Compress(tier)),
       Untimed(1, "wire", Compress(tier)),                  \* decode_blob
       Timed("decode", IF tier = "S1" THEN "blob" ELSE "wire",
             Decompress(tier) \o <<"decode">>),
       Timed("round_trip", "event",
             <<"encode">> \o Compress(tier) \o Decompress(tier)
             \o <<"decode">>) >>

(* s1_phase_isolation. *)
IsolationLoops(tier) ==
    IF tier # "S1" THEN <<>> ELSE
    << Timed("compress_wire_s", "wire", <<"compress">>),
       Timed("decompress_wire_s", "blob", <<"decompress">>),
       Timed("codec_encode_only_s", "event", <<"encode">>),
       Timed("codec_decode_raw_wire_s", "wire", <<"decode">>) >>

(* Mutant of RegistryLoops: connections are not primed. *)
RegistryLoopsUnprimed ==
    << Timed("fetch_new_tcp_each_iteration", "wire", <<"get">>),
       Timed("fetch_reused_connection", "wire", <<"get">>),
       Timed("encode", "event", <<"get", "encode">>),
       Timed("decode", "wire", <<"decode">>),
       Timed("round_trip", "event", <<"get", "encode", "decode">>) >>

(* The four loops of S2 that GET, and its decode loop. *)
RegistryLoops ==
    << Timed("fetch_new_tcp_each_iteration", "wire", <<"get">>),
       Untimed(1, "wire", <<"get">>),                       \* prime_connection
       Timed("fetch_reused_connection", "wire", <<"get">>),
       Untimed(1, "wire", <<"get">>),
       Timed("encode", "event", <<"get", "encode">>),
       Timed("decode", "wire", <<"decode">>),
       Untimed(1, "wire", <<"get">>),
       Timed("round_trip", "event", <<"get", "encode", "decode">>) >>

(* gzip and zstd size probes, then the optional tracemalloc sample. *)
ClosingLoops(tier) ==
    << Untimed(2, "wire", <<"compress">>),
       Untimed(IF args.trace THEN 1 ELSE 0, "event",
               <<"trace_on", "encode">> \o Compress(tier) \o Decompress(tier)
               \o <<"decode", "trace_off">>) >>

(* Mutant of ProducerLoops: the batch's timings go to the S0 reference list. *)
ProducerLoopsOneList ==
    << Timed("encode", "event", Repeat("encode", BatchSize) \o <<"join">>) >>

(* S3 and S4 run the program of S0 and add a batch of their own. *)
ProducerLoops ==
    LET batch == Repeat("encode", BatchSize) \o <<"join">>
    IN << Untimed(args.warmup, "event", batch),
          Timed("batch_build_and_join", "event", batch) >>

ConsumerLoops ==
    LET batch == Repeat("decode", BatchSize)
    IN << Untimed(1, "event", Repeat("encode", BatchSize)), \* prefetched
          Untimed(args.warmup, "wire", batch),
          Timed("batch_decode", "wire", batch) >>

(* bench_codec with tier S0 or S1. *)
BaseProgram(tier) ==
    WarmupLoops(tier) \o CodecLoops(tier) \o IsolationLoops(tier)
    \o ClosingLoops(tier)

Program(tier) ==
    CASE tier \in {"S0", "S1"} -> BaseProgram(tier)
      [] tier = "S2" -> WarmupLoops(tier) \o RegistryLoops \o ClosingLoops(tier)
      [] tier = "S3" -> BaseProgram("S0") \o ProducerLoops
      [] tier = "S4" -> BaseProgram("S0") \o ConsumerLoops

(* What an operation makes of the value it is applied to: the domain event,   *)
(* the codec's wire bytes, the compressed blob.  An operation applied to      *)
(* anything else raises.                                                      *)
Applies(o, b) ==
    CASE o = "compress"   -> b = "wire"
      [] o = "decompress" -> b = "blob"
      [] o = "decode"     -> b = "wire"
      [] o = "get"        -> registry = "up"
      [] OTHER            -> TRUE

Effect(o, b) ==
    CASE o = "encode" -> "wire"
      [] o = "compress" -> "blob"
      [] o = "decompress" -> "wire"
      [] OTHER -> b

-----------------------------------------------------------------------------
CurrentTier == TiersLoop[at.tier]
CurrentLoop == Program(CurrentTier)[loop]
NoLists == [l \in {} |-> <<>>]

(* Before the first operation of a row. *)
RowStart ==
    /\ loop' = 1 /\ turn' = 0 /\ op' = 0
    /\ buf' = "event" /\ window' = <<>> /\ lists' = NoLists

Init ==
    /\ args \in [tier : ReportTier, warmup : Warmups, trace : BOOLEAN]
    /\ pc = "start"
    /\ at = [tier |-> 1, profile |-> 1, format |-> 1]
    /\ loop = 1 /\ turn = 0 /\ op = 0
    /\ buf = "event" /\ window = <<>> /\ lists = NoLists
    /\ rows = <<>>
    /\ registry = "none" /\ gets = 0
    /\ tracing = FALSE
    /\ late = 0

(* The registry is started before the try, and only for a run with S2. *)
StartRegistry ==
    /\ pc = "start"
    /\ registry' = IF NeedsRegistry THEN "up" ELSE "none"
    /\ pc' = "row"
    /\ UNCHANGED <<args, at, rowVars, rows, gets, tracing, late>>

StartRaises ==
    /\ pc = "start" /\ NeedsRegistry
    /\ pc' = "raised"
    /\ UNCHANGED <<args, at, rowVars, rows, registry, gets, tracing, late>>

InRow  == pc = "row" /\ loop <= Len(Program(CurrentTier))
InTurn == InRow /\ turn < CurrentLoop.count

(* One operation of the current loop. *)
Operation ==
    /\ InTurn /\ op < Len(CurrentLoop.ops)
    /\ LET o == CurrentLoop.ops[op + 1]
           b == IF op = 0 THEN CurrentLoop.from ELSE buf
       IN /\ Applies(o, b)
          /\ buf' = Effect(o, b)
          /\ gets' = IF o = "get" THEN gets + 1 ELSE gets
          /\ tracing' = CASE o = "trace_on" -> TRUE
                          [] o = "trace_off" -> FALSE
                          [] OTHER -> tracing
          /\ window' = IF CurrentLoop.list = "untimed" THEN window
                       ELSE Append(window, o)
    /\ op' = op + 1
    /\ UNCHANGED <<args, pc, at, loop, turn, lists, rows, registry, late>>

(* The end of a turn: times.append(perf_counter() - t0). *)
EndTurn ==
    /\ InTurn /\ op = Len(CurrentLoop.ops)
    /\ LET l == CurrentLoop.list
           old == IF l \in DOMAIN lists THEN lists[l] ELSE <<>>
       IN lists' = IF l = "untimed" THEN lists
                   ELSE [m \in DOMAIN lists \cup {l} |->
                           IF m = l THEN Append(old, window) ELSE lists[m]]
    /\ turn' = turn + 1 /\ op' = 0 /\ window' = <<>>
    /\ UNCHANGED <<args, pc, at, loop, buf, rows, registry, gets, tracing, late>>

EndLoop ==
    /\ InRow /\ turn = CurrentLoop.count
    /\ loop' = loop + 1 /\ turn' = 0
    /\ UNCHANGED <<args, pc, at, op, buf, window, lists, rows, registry, gets,
                   tracing, late>>

(* Mutant of Advance: profiles vary fastest. *)
AdvanceProfileFirst(a) ==
    IF a.profile < Len(Profiles) THEN [a EXCEPT !.profile = @ + 1]
    ELSE IF a.format < Len(Formats)
    THEN [a EXCEPT !.format = @ + 1, !.profile = 1]
    ELSE [tier |-> a.tier + 1, profile |-> 1, format |-> 1]

(* The nested for loops of build_report. *)
Advance(a) ==
    IF a.format < Len(Formats) THEN [a EXCEPT !.format = @ + 1]
    ELSE IF a.profile < Len(Profiles)
    THEN [a EXCEPT !.profile = @ + 1, !.format = 1]
    ELSE [tier |-> a.tier + 1, profile |-> 1, format |-> 1]

(* The row: S3 and S4 rename the S0 row they started from. *)
Row == [tier    |-> CurrentTier,
        profile |-> Profiles[at.profile],
        format  |-> Formats[at.format],
        lists   |-> lists]

EndRow ==
    /\ pc = "row" /\ loop > Len(Program(CurrentTier))
    /\ rows' = Append(rows, Row)
    /\ at' = Advance(at)
    /\ pc' = IF at'.tier > Len(TiersLoop) THEN "finally" ELSE "row"
    /\ RowStart
    /\ UNCHANGED <<args, registry, gets, tracing, late>>

(* Mutant of RowRaises: tracemalloc.stop() is not in a finally. *)
RowRaisesTraced ==
    /\ InTurn /\ op < Len(CurrentLoop.ops)
    /\ pc' = "finally"
    /\ UNCHANGED <<args, at, rowVars, rows, registry, gets, tracing, late>>

(* An operation raises.  tracemalloc.stop() is in a finally of its own. *)
RowRaises ==
    /\ InTurn /\ op < Len(CurrentLoop.ops)
    /\ tracing' = FALSE
    /\ pc' = "finally"
    /\ UNCHANGED <<args, at, rowVars, rows, registry, gets, late>>

MatrixDone == at.tier > Len(TiersLoop)

(* Mutant of StopRegistry: the registry is stopped only after the last row. *)
StopRegistryOnSuccess ==
    /\ pc = "finally"
    /\ registry' = IF registry = "up" /\ MatrixDone THEN "stopped" ELSE registry
    /\ pc' = IF MatrixDone THEN "late" ELSE "raised"
    /\ UNCHANGED <<args, at, rowVars, rows, gets, tracing, late>>

(* finally: stop the registry, then go on or let the exception out. *)
StopRegistry ==
    /\ pc = "finally"
    /\ registry' = IF registry = "up" THEN "stopped" ELSE registry
    /\ pc' = IF MatrixDone THEN "late" ELSE "raised"
    /\ UNCHANGED <<args, at, rowVars, rows, gets, tracing, late>>

(* Mutant of LateStep: the last step is never reached. *)
LateStepButOne ==
    /\ pc = "late" /\ late + 1 < Len(LateSteps)
    /\ late' = late + 1
    /\ UNCHANGED <<args, pc, at, rowVars, rows, registry, gets, tracing>>

(* Environment, rubrics and baseline check, after all the rows. *)
LateStep ==
    /\ pc = "late" /\ late < Len(LateSteps)
    /\ late' = late + 1
    /\ UNCHANGED <<args, pc, at, rowVars, rows, registry, gets, tracing>>

(* A rubric that is missing or not a YAML mapping, a baseline that is not     *)
(* UTF-8: the rows are lost with the report.                                  *)
LateRaises ==
    /\ pc = "late" /\ late < Len(LateSteps)
    /\ pc' = "raised"
    /\ UNCHANGED <<args, at, rowVars, rows, registry, gets, tracing, late>>

Return ==
    /\ pc = "late" /\ late = Len(LateSteps)
    /\ pc' = "returned"
    /\ UNCHANGED <<args, at, rowVars, rows, registry, gets, tracing, late>>

Work == \/ StartRegistry \/ Operation \/ EndTurn \/ EndLoop \/ EndRow
        \/ StopRegistry \/ LateStep \/ Return
Fault == StartRaises \/ RowRaises \/ LateRaises

Next == Work \/ Fault

(* The harness thread runs on; an exception is never owed. *)
Spec == Init /\ [][Next]_vars /\ WF_vars(Work)

-----------------------------------------------------------------------------
(* The matrix as a product: row i is the i-th triple of tiers x profiles x    *)
(* formats, the last varying fastest.                                         *)
CellOf(i) ==
    LET f == Len(Formats)
        p == Len(Profiles)
    IN [tier    |-> TiersLoop[((i - 1) \div (f * p)) + 1],
        profile |-> Profiles[(((i - 1) \div f) % p) + 1],
        format  |-> Formats[((i - 1) % f) + 1]]

(* A report is all or nothing: the rows are a prefix of the matrix in order,  *)
(* and a report that is returned has every cell exactly once.                 *)
ReportIsTheMatrix ==
    /\ \A i \in DOMAIN rows :
         [tier |-> rows[i].tier, profile |-> rows[i].profile,
          format |-> rows[i].format] = CellOf(i)
    /\ pc = "returned" =>
         Len(rows) = Len(TiersLoop) * Len(Profiles) * Len(Formats)

(* What a row says it timed: _layer_cake and MEASUREMENT_MODEL["phases"]. *)
LayerCake(tier) ==
    LET codec(pre, mid) ==
          [encode |-> pre \cup {"encode"} \cup mid.out,
           decode |-> mid.in \cup {"decode"},
           round_trip |-> pre \cup {"encode", "decode"} \cup mid.out \cup mid.in]
        plain == [out |-> {}, in |-> {}]
        with(r, l, ops) == [m \in DOMAIN r \cup {l} |->
                              IF m = l THEN ops ELSE r[m]]
        s0 == codec({}, plain)
        s1 == codec({}, [out |-> {"compress"}, in |-> {"decompress"}])
        iso == with(with(with(with(s1, "compress_wire_s", {"compress"}),
                              "decompress_wire_s", {"decompress"}),
                         "codec_encode_only_s", {"encode"}),
                    "codec_decode_raw_wire_s", {"decode"})
        s2 == with(with(codec({"get"}, plain),
                        "fetch_new_tcp_each_iteration", {"get"}),
                   "fetch_reused_connection", {"get"})
    IN CASE tier = "S0" -> s0
         [] tier = "S1" -> iso
         [] tier = "S2" -> s2
         [] tier = "S3" -> with(s0, "batch_build_and_join", {"encode", "join"})
         [] tier = "S4" -> with(s0, "batch_decode", {"decode"})

(* The layer cake of a row is true of its numbers: exactly the announced      *)
(* lists, each with timed_iterations timings, each timing of exactly the      *)
(* announced work.  S3 and S4 keep their S0 reference timings.                *)
LayerCakeIsTrue ==
    \A i \in DOMAIN rows :
      LET row == rows[i]
          cake == LayerCake(row.tier)
      IN /\ DOMAIN row.lists = DOMAIN cake
         /\ \A l \in DOMAIN cake :
              /\ Len(row.lists[l]) = Iterations
              /\ \A k \in 1..Iterations :
                   {row.lists[l][k][j] : j \in DOMAIN row.lists[l][k]} = cake[l]

(* Data reach each operation in the form it needs (compressed bytes never     *)
(* reach a decoder, a codec's bytes never a decompressor, no GET without a    *)
(* registry): without an exception from outside, no operation can raise.      *)
OperationsApply ==
    InTurn /\ op < Len(CurrentLoop.ops) =>
      Applies(CurrentLoop.ops[op + 1], IF op = 0 THEN CurrentLoop.from ELSE buf)

(* tracemalloc slows the whole process down: it is on only inside its own     *)
(* sample, never in a timed loop and never after an exception.                *)
TracingIsConfined ==
    tracing => InRow /\ CurrentLoop.list = "untimed" /\ args.trace

(* The registry is up for the whole matrix when S2 is in it, for no other     *)
(* run, and never once build_report is left, however it is left.              *)
RegistryIsConfined ==
    /\ registry = "up" <=> NeedsRegistry /\ pc \in {"row", "finally"}
    /\ pc \in {"returned", "raised"} => registry # "up"

(* build_report uses the registry within its promise. *)
Service == INSTANCE RegistryService WITH
    Gets     <- Len(Profiles) * Len(Formats) * (4 * Iterations + 3),
    life     <- IF registry = "none"
                THEN IF pc = "raised" THEN "aborted" ELSE "absent"
                ELSE IF registry = "up" THEN "serving"
                ELSE IF MatrixDone THEN "complete" ELSE "aborted",
    answered <- gets

UsesServiceAsPromised == Service!Spec

(* build_report comes to an end, by return or by exception. *)
ReportEnds == <>(pc \in {"returned", "raised"})
==============================================================================
