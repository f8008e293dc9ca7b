-------------------------- MODULE ReportFiles_proof --------------------------
(***************************************************************************)
(* Proofs about ReportFiles, for every number of runs and of invocations of *)
(* viz and every output name: no page shows half a report, and report.md    *)
(* never runs ahead of report.json.                                         *)
(***************************************************************************)
EXTENDS ReportFiles, SequenceTheorems, TLAPS

FileType ==
    LET File == [v : Nat, whole : BOOLEAN]
    IN  /\ json \in File /\ md \in File
        /\ run \in [id : Nat, at : {"idle", "json", "between", "md"}]
        /\ ended \subseteq 1 .. run.id

(* Where a run is tells whether its files are whole.  A run that died leaves *)
(* a file that is not whole, and a run that ended leaves none.               *)
RunInv ==
    /\ json.v = run.id
    /\ md.v <= json.v
    /\ run.at # "idle" => run.id > 0 /\ run.id \notin ended
    /\ run.at = "json" => ~json.whole
    /\ run.at = "between" => json.whole
    /\ run.at = "md" => json.whole /\ md.v = run.id /\ ~md.whole
    /\ run.at \in {"json", "between"} => md.v < json.v
    /\ run.id \in ended => json.whole /\ md = json
    /\ md.v = json.v /\ md.v > 0 => json.whole

(* A report number that a viz holds, or a page shows, is of a whole report. *)
WasWhole(v) == v < json.v \/ (v = json.v /\ json.whole)

PageInv ==
    /\ viz.v \in Nat
    /\ viz.at \in {"loaded", "open"} /\ viz.v > 0 => WasWhole(viz.v)
    /\ DOMAIN pages = Paths
    /\ \A p \in Paths : "v" \in DOMAIN pages[p]
    /\ \A p \in Paths : pages[p].v \in Nat
    /\ \A p \in Paths : pages[p].v > 0 => WasWhole(pages[p].v)

(* What a step of viz may change is there to be changed. *)
VizType == {"at", "v"} \subseteq DOMAIN viz

Inv == FileType /\ RunInv /\ PageInv /\ VizType

LEMMA InitInv == Init => Inv
  <1> SUFFICES ASSUME Init PROVE Inv
    OBVIOUS
  <1>1. FileType
    BY DEF Init, FileType, NoFile
  <1>2. RunInv
    BY DEF Init, RunInv, NoFile
  <1>3. PageInv
    BY DEF Init, PageInv, NoPage
  <1>4. VizType
    BY DEF Init, VizType
  <1> QED
    BY <1>1, <1>2, <1>3, <1>4 DEF Inv

(* A run at work never takes back a report that has been whole. *)
LEMMA RunKeepsInv == ASSUME Inv, Run PROVE Inv'
  <1> USE DEF Inv, FileType, RunInv
  <1>1. (FileType /\ RunInv)'
    <2>1. CASE OpenJson
      BY <2>1 DEF OpenJson
    <2>2. CASE CloseJson
      BY <2>2 DEF CloseJson
    <2>3. CASE OpenMarkdown
      BY <2>3 DEF OpenMarkdown
    <2>4. CASE CloseMarkdown
      <3>1. /\ json = [v |-> json.v, whole |-> TRUE]
            /\ md = [v |-> json.v, whole |-> FALSE]
            /\ run = [id |-> json.v, at |-> "md"]
            /\ json.v \in Nat /\ json.v > 0 /\ ended \subseteq 1 .. json.v
        BY <2>4 DEF CloseMarkdown
      <3>2. /\ json' = json
            /\ md' = [v |-> json.v, whole |-> TRUE]
            /\ run' = [id |-> json.v, at |-> "idle"]
            /\ ended' = ended \cup {json.v}
        BY <2>4, <3>1 DEF CloseMarkdown
      <3>3. md' = json'
        BY <3>1, <3>2
      <3>4. run'.id = json.v /\ json.v \in 1 .. json.v
        BY <3>1, <3>2
      <3> QED
        BY <3>1, <3>2, <3>3, <3>4
    <2>5. CASE RunDies
      BY <2>5 DEF RunDies
    <2> QED
      BY <2>1, <2>2, <2>3, <2>4, <2>5 DEF Run
  <1>2. viz' = viz /\ pages' = pages
    BY DEF Run, OpenJson, CloseJson, OpenMarkdown, CloseMarkdown, RunDies
  <1>3. \A v \in Nat : v > 0 /\ WasWhole(v) => WasWhole(v)'
    <2>1. CASE OpenJson
      BY <2>1 DEF OpenJson, WasWhole
    <2>2. CASE CloseJson
      BY <2>2 DEF CloseJson, WasWhole
    <2>3. CASE OpenMarkdown \/ CloseMarkdown \/ RunDies
      BY <2>3 DEF OpenMarkdown, CloseMarkdown, RunDies, WasWhole
    <2> QED
      BY <2>1, <2>2, <2>3 DEF Run
  <1>4. PageInv'
    BY <1>2, <1>3 DEF PageInv
  <1> QED
    BY <1>1, <1>2, <1>4 DEF VizType

(* A viz leaves the files of the run alone, and holds on to whole reports. *)
LEMMA VizKeepsInv == ASSUME Inv, Viz PROVE Inv'
  <1>1. UNCHANGED <<json, md, run, ended>>
    BY DEF Viz, StartViz, ReadReport, ReadRaises, OpenPage, ClosePage, VizDies
  <1>2. (FileType /\ RunInv)'
    BY <1>1 DEF Inv, FileType, RunInv
  <1>3. VizType'
    <2>1. CASE StartViz
      BY <2>1 DEF StartViz, VizType
    <2>2. CASE ReadReport
      BY <2>2 DEF ReadReport, VizType, Inv
    <2>3. CASE ReadRaises \/ VizDies
      BY <2>3 DEF ReadRaises, VizDies, VizType, Inv
    <2>4. CASE OpenPage
      BY <2>4 DEF OpenPage, VizType, Inv
    <2>5. CASE ClosePage
      BY <2>5 DEF ClosePage, VizType, Inv
    <2> QED
      BY <2>1, <2>2, <2>3, <2>4, <2>5 DEF Viz
  <1>4. PageInv'
    <2> USE <1>1 DEF Inv, FileType, RunInv, PageInv, VizType, WasWhole
    <2>1. CASE StartViz
      BY <2>1 DEF StartViz
    <2>2. CASE ReadReport
      BY <2>2 DEF ReadReport
    <2>3. CASE ReadRaises \/ VizDies
      BY <2>3 DEF ReadRaises, VizDies
    <2>4. CASE OpenPage
      <3> DEFINE path == PathOf(viz.output, Head(viz.todo))
                 page == [kind |-> Head(viz.todo), v |-> viz.v, by |-> viz.id,
                          links |-> LinksOf(viz.output, viz.plan, Head(viz.todo)),
                          whole |-> FALSE]
      <3>1. /\ pages' = [pages EXCEPT ![path] = page]
            /\ viz' = [viz EXCEPT !.at = "open"]
            /\ viz.at = "loaded"
        BY <2>4 DEF OpenPage
      <3>2. \A p \in Paths : pages'[p] = pages[p] \/ pages'[p] = page
        BY <3>1
      <3> HIDE DEF path
      <3>3. viz'.v = viz.v /\ viz'.at = "open"
        BY <3>1
      <3>4. DOMAIN pages' = Paths
        BY <3>1
      <3> QED
        BY <3>1, <3>2, <3>3, <3>4
    <2>5. CASE ClosePage
      <3> DEFINE path == PathOf(viz.output, Head(viz.todo))
      <3>1. /\ pages' = [pages EXCEPT ![path].whole = TRUE]
            /\ viz'.v = viz.v
            /\ viz'.at \in {"ok", "read"}
        BY <2>5 DEF ClosePage
      <3>2. \A p \in Paths :
               pages'[p] = IF p = path THEN [pages[p] EXCEPT !.whole = TRUE]
                                       ELSE pages[p]
        BY <3>1
      <3> HIDE DEF path
      <3>3. \A p \in Paths : pages'[p].v = pages[p].v /\ "v" \in DOMAIN pages'[p]
        BY <3>2
      <3>4. DOMAIN pages' = Paths
        BY <3>1
      <3> QED
        BY <3>1, <3>3, <3>4
    <2> QED
      BY <2>1, <2>2, <2>3, <2>4, <2>5 DEF Viz
  <1> QED
    BY <1>2, <1>3, <1>4 DEF Inv

LEMMA Invariance == Spec => []Inv
  <1>1. Inv /\ [Next]_vars => Inv'
    <2> SUFFICES ASSUME Inv, [Next]_vars PROVE Inv'
      OBVIOUS
    <2>1. CASE Run
      BY <2>1, RunKeepsInv
    <2>2. CASE Viz
      BY <2>2, VizKeepsInv
    <2>3. CASE UNCHANGED vars
      BY <2>3 DEF vars, Inv, FileType, RunInv, PageInv, VizType, WasWhole
    <2> QED
      BY <2>1, <2>2, <2>3 DEF Next
  <1> QED
    BY <1>1, InitInv, PTL DEF Spec

(* However runs and viz overlap and whatever dies, no page shows half a      *)
(* report, and a run that ended with exit code 0 left two whole files        *)
(* (runner.py:1025-1044, the pages' json.load).                              *)
THEOREM PagesAreOfWholeReports == Spec => []PagesShowWholeReports
  <1>1. Inv => PagesShowWholeReports
    BY DEF Inv, FileType, RunInv, PageInv, WasWhole, PagesShowWholeReports
  <1> QED
    BY <1>1, Invariance, PTL

(* report.md is never of a later run than report.json, and where they        *)
(* differ the newest run did not end well: the order of the two writes of    *)
(* write_report_bundle (runner.py:1025-1044).                                *)
THEOREM MarkdownNeverLeads == Spec => []MarkdownTrailsJson
  <1>1. Inv => MarkdownTrailsJson
    BY DEF Inv, FileType, RunInv, MarkdownTrailsJson
  <1> QED
    BY <1>1, Invariance, PTL

-----------------------------------------------------------------------------
(* The pages of one viz.  `Done` of them are written; those lie in the order *)
(* of the plan, and what is to do is the rest of the plan.                   *)
PageType ==
    [kind : Kinds \cup {"none"}, v : Nat, by : Nat,
     links : SUBSET (Kinds \X Paths), whole : BOOLEAN]

VizStates == {"idle", "read", "loaded", "open", "ok", "failed"}
Active == {"read", "loaded", "open"}

Done == Len(viz.plan) - Len(viz.todo)

VizShape ==
    /\ viz \in [id : Nat, at : VizStates, plan : Seq(Kinds), todo : Seq(Kinds),
                output : Outputs \cup {CHOOSE o \in Outputs : TRUE}, v : Nat]
    /\ pages \in [Paths -> PageType]
    /\ viz.at # "idle" => viz.output \in Outputs
    /\ Len(viz.todo) =< Len(viz.plan)
    /\ \A k \in 1 .. Len(viz.todo) : viz.todo[k] = viz.plan[Done + k]
    /\ viz.at \in Active => Len(viz.todo) > 0
    /\ viz.at = "ok" => Len(viz.todo) = 0

Written(kind, page) ==
    /\ page.kind = kind /\ page.by = viz.id
    /\ page.links = LinksOf(viz.output, viz.plan, kind)

PlanInv ==
    viz.at \in Active \cup {"ok"} /\ OwnPaths =>
      /\ \A k \in 1 .. Done :
           Written(viz.plan[k], PageOf(viz.plan[k])) /\ PageOf(viz.plan[k]).whole
      /\ \A j, k \in 1 .. Done :
           j =< k => PageOf(viz.plan[j]).v =< PageOf(viz.plan[k]).v
      /\ viz.at \in {"loaded", "open"} =>
           \A k \in 1 .. Done : PageOf(viz.plan[k]).v =< viz.v
      /\ viz.at = "open" =>
           /\ Written(viz.plan[Done + 1], PageOf(viz.plan[Done + 1]))
           /\ PageOf(viz.plan[Done + 1]).v = viz.v

VizInv == VizShape /\ PlanInv

LEMMA PathInPaths ==
  ASSUME NEW output \in Outputs, NEW kind \in Kinds
  PROVE  PathOf(output, kind) \in Paths
  BY DEF PathOf, Paths, Kinds

LEMMA PlanType ==
  ASSUME NEW s \in BOOLEAN, NEW d \in BOOLEAN
  PROVE  Plan(s, d) \in Seq(Kinds) /\ Len(Plan(s, d)) > 0
  <1>1. <<"stack">> \in Seq(Kinds) /\ <<>> \in Seq(Kinds)
        /\ <<"summary">> \in Seq(Kinds) /\ <<"distributed">> \in Seq(Kinds)
    BY DEF Kinds
  <1>2. \A a, b \in Seq(Kinds) : a \o b \in Seq(Kinds) /\ Len(a \o b) = Len(a) + Len(b)
    OBVIOUS
  <1>3. Len(<<"stack">>) = 1 /\ \A a \in Seq(Kinds) : Len(a) \in Nat
    OBVIOUS
  <1> QED
    BY <1>1, <1>2, <1>3 DEF Plan

LEMMA LinksType ==
  ASSUME NEW output \in Outputs, NEW plan \in Seq(Kinds), NEW kind \in Kinds
  PROVE  LinksOf(output, plan, kind) \in SUBSET (Kinds \X Paths)
  <1>1. Range(plan) \subseteq Kinds
    BY DEF Range
  <1> QED
    BY <1>1, PathInPaths DEF LinksOf

LEMMA InitViz == Init => VizInv
  <1> SUFFICES ASSUME Init PROVE VizInv
    OBVIOUS
  <1>1. NoPage \in PageType
    BY DEF NoPage, PageType
  <1>2. VizShape
    BY <1>1 DEF Init, VizShape, VizStates, Active, Kinds
  <1>3. PlanInv
    BY DEF Init, PlanInv, Active
  <1> QED
    BY <1>2, <1>3 DEF VizInv

(* StartViz: nothing is done yet. *)
LEMMA StartKeepsViz == ASSUME VizInv, StartViz PROVE VizInv'
  <1> USE DEF VizInv, VizShape
  <1>1. PICK output \in Outputs, s \in BOOLEAN, d \in BOOLEAN :
          viz' = [id |-> viz.id + 1, at |-> "read", plan |-> Plan(s, d),
                  todo |-> Plan(s, d), output |-> output, v |-> 0]
    BY DEF StartViz
  <1>2. Plan(s, d) \in Seq(Kinds) /\ Len(Plan(s, d)) > 0
    BY PlanType
  <1>3. pages' = pages
    BY DEF StartViz
  <1> DEFINE plan == Plan(s, d)
  <1>4. plan \in Seq(Kinds) /\ Len(plan) > 0 /\ Len(plan) \in Nat
    BY <1>2
  <1> HIDE DEF plan
  <1>5. viz' = [id |-> viz.id + 1, at |-> "read", plan |-> plan,
                todo |-> plan, output |-> output, v |-> 0]
    BY <1>1 DEF plan
  <1>6. Done' = 0
    BY <1>4, <1>5 DEF Done
  <1>7. VizShape'
    BY <1>3, <1>4, <1>5, <1>6 DEF VizStates, Active
  <1>8. PlanInv'
    BY <1>5, <1>6 DEF PlanInv
  <1> QED
    BY <1>7, <1>8

(* Steps that only move viz on: what is written stays as it is. *)
LEMMA MoveKeepsViz ==
  ASSUME Inv, VizInv,
         ReadReport \/ ReadRaises \/ VizDies
  PROVE  VizInv'
  <1> USE DEF VizInv, VizShape
  <1>1. /\ pages' = pages
        /\ viz'.id = viz.id /\ viz'.plan = viz.plan /\ viz'.todo = viz.todo
        /\ viz'.output = viz.output
        /\ viz.at \in Active
    BY DEF ReadReport, ReadRaises, VizDies, Active
  <1>2. \/ viz'.at = "failed" /\ viz'.v = viz.v
        \/ viz'.at = "loaded" /\ viz'.v = json.v /\ json.whole
    BY DEF ReadReport, ReadRaises, VizDies
  <1>3. Done' = Done
    BY <1>1 DEF Done
  <1>4. VizShape'
    <2>1. json.v \in Nat
      BY DEF Inv, FileType
    <2>2. viz' \in [id : Nat, at : VizStates, plan : Seq(Kinds), todo : Seq(Kinds),
                    output : Outputs \cup {CHOOSE o \in Outputs : TRUE}, v : Nat]
      BY <2>1 DEF ReadReport, ReadRaises, VizDies, VizStates
    <2>3. viz.at # "idle"
      BY <1>1 DEF Active
    <2> QED
      BY <1>1, <1>2, <1>3, <2>2, <2>3 DEF Active
  <1>5. OwnPaths' = OwnPaths
    BY <1>1 DEF OwnPaths
  <1>6. \A k : /\ PageOf(k)' = PageOf(k)
               /\ \A p : Written(k, p)' = Written(k, p)
    BY <1>1 DEF PageOf, Written
  <1>7. ASSUME viz'.at = "loaded", OwnPaths PROVE PlanInv'
    <2>1. \A p \in Paths : pages[p].v =< json.v
      BY DEF Inv, FileType, PageInv, WasWhole
    <2>2. \A k \in 1 .. Done : PageOf(viz.plan[k]).v =< json.v
      <3>1. \A k \in 1 .. Done : viz.plan[k] \in Kinds
        BY DEF Done
      <3> QED
        BY <1>1, <2>1, <3>1, PathInPaths DEF PageOf, Active
    <2> HIDE DEF VizShape
    <2> QED
      BY <1>1, <1>2, <1>3, <1>5, <1>6, <1>7, <2>2 DEF PlanInv
  <1>8. PlanInv'
    BY <1>2, <1>5, <1>7 DEF PlanInv, Active
  <1> QED
    BY <1>4, <1>8

LEMMA TailType ==
  ASSUME NEW s, s \in Seq(Kinds), Len(s) > 0
  PROVE  /\ Head(s) \in Kinds
         /\ Tail(s) \in Seq(Kinds)
         /\ Len(Tail(s)) = Len(s) - 1
         /\ \A k \in 1 .. Len(Tail(s)) : Tail(s)[k] = s[k + 1]
         /\ Tail(s) = <<>> <=> Len(s) = 1
  <1>1. s # <<>>
    OBVIOUS
  <1>2. /\ Head(s) \in Kinds /\ Tail(s) \in Seq(Kinds)
        /\ Len(Tail(s)) = Len(s) - 1
        /\ \A k \in 1 .. Len(Tail(s)) : Tail(s)[k] = s[k + 1]
    BY <1>1, HeadTailProperties, Zenon
  <1>3. Tail(s) = <<>> <=> Len(Tail(s)) = 0
    BY <1>2, EmptySeq
  <1>4. Len(s) \in Nat
    OBVIOUS
  <1> QED
    BY <1>2, <1>3, <1>4

LEMMA DoneType ==
  ASSUME NEW p, NEW t, p \in Seq(Kinds), t \in Seq(Kinds), Len(t) =< Len(p)
  PROVE  /\ Len(p) - Len(t) \in 0 .. Len(p)
         /\ Len(t) > 0 => (Len(p) - Len(t)) + 1 \in 1 .. Len(p)
  <1> DEFINE m == Len(p)
             n == Len(t)
  <1>1. m \in Nat /\ n \in Nat
    OBVIOUS
  <1> HIDE DEF m, n
  <1>2. n =< m => m - n \in 0 .. m /\ (n > 0 => (m - n) + 1 \in 1 .. m)
    BY <1>1
  <1> QED
    BY <1>2 DEF m, n

(* The paths of the pages of a plan are different. *)
LEMMA PagesApart ==
  ASSUME VizShape, viz.at \in Active, OwnPaths
  PROVE  /\ Done + 1 \in 1 .. Len(viz.plan)
         /\ Head(viz.todo) = viz.plan[Done + 1]
         /\ viz.plan[Done + 1] \in Kinds
         /\ \A k \in 1 .. Done :
              PathOf(viz.output, viz.plan[k]) # PathOf(viz.output, Head(viz.todo))
  <1>1. /\ Len(viz.plan) \in Nat /\ Len(viz.todo) \in Nat
        /\ Len(viz.todo) > 0 /\ Len(viz.todo) =< Len(viz.plan)
        /\ DOMAIN viz.plan = 1 .. Len(viz.plan)
    BY DEF VizShape
  <1>2. Head(viz.todo) = viz.plan[Done + 1]
    BY <1>1 DEF VizShape
  <1>3. Done \in 0 .. Len(viz.plan) /\ Done + 1 \in 1 .. Len(viz.plan)
    BY <1>1, DoneType DEF Done, VizShape
  <1>4. viz.plan[Done + 1] \in Kinds
    BY <1>3 DEF VizShape
  <1>5. \A k \in 1 .. Done : k \in DOMAIN viz.plan /\ k # Done + 1
    BY <1>1, <1>3
  <1> QED
    BY <1>1, <1>2, <1>3, <1>4, <1>5 DEF OwnPaths

LEMMA OpenKeepsViz == ASSUME VizInv, OpenPage PROVE VizInv'
  <1> DEFINE kind == Head(viz.todo)
             path == PathOf(viz.output, kind)
             page == [kind |-> kind, v |-> viz.v, by |-> viz.id,
                      links |-> LinksOf(viz.output, viz.plan, kind),
                      whole |-> FALSE]
  <1>1. /\ pages' = [pages EXCEPT ![path] = page]
        /\ viz.at = "loaded" /\ viz' = [viz EXCEPT !.at = "open"]
    BY DEF OpenPage
  <1>2. /\ viz'.id = viz.id /\ viz'.plan = viz.plan /\ viz'.todo = viz.todo
        /\ viz'.output = viz.output /\ viz'.v = viz.v /\ viz'.at = "open"
        /\ viz.output \in Outputs /\ viz.at \in Active
    BY <1>1 DEF VizInv, VizShape, Active
  <1>3. Done' = Done
    BY <1>2 DEF Done
  <1>4. kind \in Kinds /\ path \in Paths
    <2>1. kind \in Kinds
      BY <1>2 DEF VizInv, VizShape
    <2> QED
      BY <1>2, <2>1, PathInPaths
  <1>5. page \in PageType
    <2>1. LinksOf(viz.output, viz.plan, kind) \in SUBSET (Kinds \X Paths)
      BY <1>2, <1>4, LinksType DEF VizInv, VizShape
    <2> HIDE DEF kind
    <2> QED
      BY <1>4, <2>1 DEF PageType, VizInv, VizShape
  <1> HIDE DEF page, path
  <1>6. VizShape'
    <2>1. pages' \in [Paths -> PageType]
      BY <1>1, <1>5 DEF VizInv, VizShape
    <2>2. viz' \in [id : Nat, at : VizStates, plan : Seq(Kinds), todo : Seq(Kinds),
                    output : Outputs \cup {CHOOSE o \in Outputs : TRUE}, v : Nat]
      BY <1>1 DEF VizInv, VizShape, VizStates
    <2> QED
      BY <1>2, <1>3, <2>1, <2>2 DEF VizInv, VizShape, Active
  <1>7. ASSUME OwnPaths PROVE PlanInv'
    <2>1. /\ kind = viz.plan[Done + 1]
          /\ \A k \in 1 .. Done : PathOf(viz.output, viz.plan[k]) # path
      BY <1>2, <1>7, PagesApart DEF VizInv, path
    <2>2. PageOf(viz.plan[Done + 1])' = page
      <3>1. pages'[path] = page
        BY <1>1, <1>4 DEF VizInv, VizShape
      <3> HIDE DEF page
      <3> QED
        BY <1>2, <1>3, <2>1, <3>1 DEF PageOf, path
    <2>3. \A k \in 1 .. Done : PageOf(viz.plan[k])' = PageOf(viz.plan[k])
      <3>1. \A k \in 1 .. Done : viz.plan[k] \in Kinds
        BY DEF VizInv, VizShape, Done
      <3>2. \A k \in 1 .. Done : PathOf(viz.output, viz.plan[k]) \in Paths
        BY <1>2, <3>1, PathInPaths
      <3> QED
        BY <1>1, <1>2, <2>1, <3>2 DEF PageOf, VizInv, VizShape
    <2>4. \A k, p : Written(k, p)' = Written(k, p)
      BY <1>2 DEF Written
    <2>5. Written(kind, page) /\ page.v = viz.v
      BY DEF Written, page
    <2>6. /\ \A k \in 1 .. Done :
               Written(viz.plan[k], PageOf(viz.plan[k])) /\ PageOf(viz.plan[k]).whole
          /\ \A j, k \in 1 .. Done :
               j =< k => PageOf(viz.plan[j]).v =< PageOf(viz.plan[k]).v
          /\ \A k \in 1 .. Done : PageOf(viz.plan[k]).v =< viz.v
      BY <1>1, <1>2, <1>7 DEF VizInv, PlanInv
    <2> HIDE DEF kind
    <2> QED
      BY <1>2, <1>3, <2>1, <2>2, <2>3, <2>4, <2>5, <2>6 DEF PlanInv
  <1>8. OwnPaths' = OwnPaths
    BY <1>2 DEF OwnPaths
  <1> QED
    BY <1>6, <1>7, <1>8 DEF VizInv, PlanInv

LEMMA CloseKeepsViz == ASSUME VizInv, ClosePage PROVE VizInv'
  <1> DEFINE path == PathOf(viz.output, Head(viz.todo))
             end == Tail(viz.todo) = <<>>
  <1>1. /\ pages' = [pages EXCEPT ![path].whole = TRUE]
        /\ viz.at = "open"
        /\ viz' = [viz EXCEPT !.todo = Tail(@),
                              !.at = IF end THEN "ok" ELSE "read"]
    BY DEF ClosePage
  <1>2. /\ viz'.id = viz.id /\ viz'.plan = viz.plan
        /\ viz'.todo = Tail(viz.todo)
        /\ viz'.output = viz.output /\ viz'.v = viz.v
        /\ viz'.at = IF end THEN "ok" ELSE "read"
        /\ viz.output \in Outputs /\ viz.at \in Active
    BY <1>1 DEF VizInv, VizShape, Active
  <1>3. /\ viz.todo \in Seq(Kinds) /\ Len(viz.todo) > 0
        /\ Len(viz.plan) \in Nat /\ Len(viz.todo) \in Nat
        /\ Len(viz.todo) =< Len(viz.plan)
        /\ Done \in 0 .. Len(viz.plan) /\ Done + 1 \in 1 .. Len(viz.plan)
        /\ Done \in Nat /\ Len(viz.todo) = Len(viz.plan) - Done
    <2>1. /\ viz.todo \in Seq(Kinds) /\ Len(viz.todo) > 0 /\ viz.plan \in Seq(Kinds)
          /\ Len(viz.todo) =< Len(viz.plan)
      BY <1>2 DEF VizInv, VizShape
    <2>2. Len(viz.plan) \in Nat /\ Len(viz.todo) \in Nat
      BY <2>1
    <2> DEFINE m == Len(viz.plan)
               n == Len(viz.todo)
    <2>3. /\ Done \in 0 .. m /\ Done + 1 \in 1 .. m
          /\ Done = m - n /\ m \in Nat /\ n \in Nat
      BY <2>1, <2>2, DoneType DEF Done
    <2> HIDE DEF m, n
    <2>4. Done \in Nat /\ n = m - Done
      BY <2>3
    <2> QED
      BY <2>1, <2>3, <2>4 DEF m, n
  <1>4. /\ Tail(viz.todo) \in Seq(Kinds)
        /\ Len(Tail(viz.todo)) = Len(viz.todo) - 1
        /\ \A k \in 1 .. Len(Tail(viz.todo)) : Tail(viz.todo)[k] = viz.todo[k + 1]
        /\ end <=> Len(viz.todo) = 1
        /\ Head(viz.todo) \in Kinds
    BY <1>3, TailType
  <1>5. Done' = Done + 1
    <2> DEFINE m == Len(viz.plan)
               n == Len(viz.todo)
    <2>1. Done' = m - (n - 1) /\ Done = m - n /\ m \in Nat /\ n \in Nat
      BY <1>2, <1>3, <1>4 DEF Done
    <2> HIDE DEF m, n
    <2> QED
      BY <2>1
  <1>6. path \in Paths
    BY <1>2, <1>4, PathInPaths
  <1>7. \A p \in Paths :
          /\ pages'[p].kind = pages[p].kind /\ pages'[p].v = pages[p].v
          /\ pages'[p].by = pages[p].by /\ pages'[p].links = pages[p].links
          /\ pages'[p].whole = (pages[p].whole \/ p = path)
    BY <1>1 DEF VizInv, VizShape, PageType
  <1>8. pages' \in [Paths -> PageType]
    BY <1>1 DEF VizInv, VizShape, PageType
  <1>9. VizShape'
    <2>1. viz' \in [id : Nat, at : VizStates, plan : Seq(Kinds), todo : Seq(Kinds),
                    output : Outputs \cup {CHOOSE o \in Outputs : TRUE}, v : Nat]
      <3> HIDE DEF end
      <3> QED
        BY <1>1, <1>4 DEF VizInv, VizShape, VizStates
    <2>2. \A k \in 1 .. Len(viz'.todo) : viz'.todo[k] = viz'.plan[Done' + k]
      <3> SUFFICES ASSUME NEW k \in 1 .. Len(Tail(viz.todo))
                   PROVE  Tail(viz.todo)[k] = viz.plan[(Done + 1) + k]
        BY <1>2, <1>5
      <3>1. viz.todo[k + 1] = viz.plan[Done + (k + 1)]
        BY <1>3, <1>4 DEF VizInv, VizShape
      <3>2. k \in Nat /\ (Done + 1) + k = Done + (k + 1)
        BY <1>3, <1>4
      <3> QED
        BY <1>4, <3>1, <3>2
    <2>3. Len(viz'.todo) =< Len(viz'.plan)
      <3> DEFINE m == Len(viz.plan)
                 n == Len(viz.todo)
      <3>1. m \in Nat /\ n \in Nat /\ n =< m
        BY <1>3
      <3> HIDE DEF m, n
      <3>2. n - 1 =< m
        BY <3>1
      <3> QED
        BY <1>2, <1>4, <3>2 DEF m, n
    <2>4. IF end THEN Len(viz'.todo) = 0 ELSE Len(viz'.todo) > 0
      <3> DEFINE n == Len(viz.todo)
      <3>1. n \in Nat /\ n > 0 /\ Len(viz'.todo) = n - 1 /\ (end <=> n = 1)
        BY <1>2, <1>3, <1>4
      <3> HIDE DEF end, n
      <3> QED
        BY <3>1
    <2> HIDE DEF end
    <2> QED
      BY <1>2, <1>8, <2>1, <2>2, <2>3, <2>4 DEF VizShape, Active
  <1>10. ASSUME OwnPaths PROVE PlanInv'
    <2>1. /\ Head(viz.todo) = viz.plan[Done + 1]
          /\ \A k \in 1 .. Done + 1 : viz.plan[k] \in Kinds
      BY <1>2, <1>3, <1>10, PagesApart DEF VizInv, VizShape, Done
    <2>2. \A k \in 1 .. Done + 1 : PathOf(viz.output, viz.plan[k]) \in Paths
      BY <1>2, <2>1, PathInPaths
    <2> DEFINE old(k) == PageOf(viz.plan[k])
               new(k) == pages'[PathOf(viz.output, viz.plan[k])]
    <2>3. \A k \in 1 .. Done + 1 :
            /\ new(k).kind = old(k).kind /\ new(k).v = old(k).v
            /\ new(k).by = old(k).by /\ new(k).links = old(k).links
            /\ new(k).whole = (old(k).whole \/ PathOf(viz.output, viz.plan[k]) = path)
      BY <1>2, <1>7, <2>2 DEF PageOf
    <2>4. \A k \in 1 .. Done + 1 : Written(viz.plan[k], old(k))
      <3>1. /\ \A k \in 1 .. Done : Written(viz.plan[k], old(k))
            /\ Written(viz.plan[Done + 1], old(Done + 1))
        BY <1>1, <1>2, <1>10 DEF VizInv, PlanInv
      <3> HIDE DEF old
      <3> QED
        BY <1>3, <3>1
    <2>5. \A k \in 1 .. Done + 1 :
            /\ new(k).kind = viz.plan[k] /\ new(k).by = viz'.id
            /\ new(k).links = LinksOf(viz'.output, viz'.plan, viz.plan[k])
      BY <1>2, <2>3, <2>4 DEF Written
    <2>6. \A k \in 1 .. Done + 1 : new(k).whole
      <3>1. \A k \in 1 .. Done : old(k).whole
        BY <1>1, <1>2, <1>10 DEF VizInv, PlanInv
      <3>2. PathOf(viz.output, viz.plan[Done + 1]) = path
        BY <2>1
      <3>3. \A k \in 1 .. Done + 1 : k \in 1 .. Done \/ k = Done + 1
        BY <1>3
      <3> HIDE DEF path, old, new
      <3> QED
        BY <2>3, <3>1, <3>2, <3>3, Zenon
    <2>7. \A j, k \in 1 .. Done + 1 : j =< k => old(j).v =< old(k).v
      <3>1. /\ \A j, k \in 1 .. Done : j =< k => old(j).v =< old(k).v
            /\ \A k \in 1 .. Done : old(k).v =< old(Done + 1).v
        BY <1>1, <1>2, <1>10 DEF VizInv, PlanInv
      <3>2. old(Done + 1).v \in Nat
        BY <1>3, <2>2 DEF VizInv, VizShape, PageOf, PageType, Done
      <3> HIDE DEF old
      <3> QED
        BY <1>3, <3>1, <3>2
    <2> HIDE DEF path, old
    <2> QED
      BY <1>2, <1>5, <2>3, <2>5, <2>6, <2>7 DEF PlanInv, PageOf, Written
  <1>11. OwnPaths' = OwnPaths
    BY <1>2 DEF OwnPaths
  <1> QED
    BY <1>9, <1>10, <1>11 DEF VizInv, PlanInv

LEMMA VizInvariance == Spec => [](Inv /\ VizInv)
  <1>1. Inv /\ VizInv /\ [Next]_vars => VizInv'
    <2> SUFFICES ASSUME Inv, VizInv, [Next]_vars PROVE VizInv'
      OBVIOUS
    <2>1. CASE UNCHANGED <<pages, viz>>
      BY <2>1 DEF VizInv, VizShape, PlanInv, Done, Written, PageOf, OwnPaths
    <2>2. CASE Viz
      BY <2>2, StartKeepsViz, MoveKeepsViz, OpenKeepsViz, CloseKeepsViz DEF Viz
    <2>3. Run => UNCHANGED <<pages, viz>>
      BY DEF Run, OpenJson, CloseJson, OpenMarkdown, CloseMarkdown, RunDies
    <2> QED
      BY <2>1, <2>2, <2>3 DEF Next, vars
  <1> QED
    BY <1>1, InitViz, Invariance, PTL DEF Spec

(* The pages that a viz wrote to paths of their own show the same report or   *)
(* a newer one from each to the next, however often runs rewrite the report   *)
(* in between (viz_cmd, cli.py:307-339: each page loads report.json anew).    *)
THEOREM PagesNeverGoBack == Spec => []LaterPagesAreNewer
  <1>1. VizInv => LaterPagesAreNewer
    BY DEF VizInv, VizShape, PlanInv, LaterPagesAreNewer, Done
  <1> QED
    BY <1>1, VizInvariance, PTL

(* Every link between the pages of a viz that ended well leads to the page it *)
(* names, whole and by the same viz, for every choice of pages.               *)
THEOREM LinksAreGood == Spec => []LinksLeadToPages
  <1>1. VizInv => LinksLeadToPages
    <2> SUFFICES ASSUME VizInv, viz.at = "ok", OwnPaths,
                        NEW k \in Range(viz.plan), NEW link \in PageOf(k).links
                 PROVE  LET target == pages[link[2]]
                        IN  /\ target.kind = link[1] /\ target.whole
                            /\ target.by = viz.id
      BY DEF LinksLeadToPages
    <2>1. \A m \in Range(viz.plan) : Written(m, PageOf(m)) /\ PageOf(m).whole
      BY DEF VizInv, VizShape, PlanInv, Done, Range
    <2>2. link \in LinksOf(viz.output, viz.plan, k)
      BY <2>1 DEF Written
    <2>3. PICK m \in Range(viz.plan) : link = <<m, PathOf(viz.output, m)>>
      BY <2>2 DEF LinksOf
    <2> QED
      BY <2>1, <2>3 DEF Written, PageOf
  <1> QED
    BY <1>1, VizInvariance, PTL
==============================================================================
