------------------------------ MODULE Scenario ------------------------------
(***************************************************************************)
(* From an authored scenario document to the journey of one virtual user.  *)
(*                                                                         *)
(* A document is a linear flow of steps or an explicit graph               *)
(* (scenariofile.go), or a run spec posted to the control plane without    *)
(* either.  Expand checks it and builds the behaviour graph, Create is the *)
(* control plane's own validation (RunSpec.Validate), and every session    *)
(* then walks the graph (engine.Walker).  Edge weights and the deviation   *)
(* rate are whole percents.  A request line is what parseRequest and       *)
(* validateTemplatePath tell apart: "none", "valid", "malformed", or       *)
(* "offhost" (a path the shorthand takes and the run spec refuses).        *)
(***************************************************************************)
EXTENDS Integers, FiniteSets, SequencesExt

CONSTANT
    Documents  \* the scenario documents and posted run specs considered

Step == [id : STRING, dependsOn : STRING, weight : Int,
         request : {"none", "valid", "malformed", "offhost"}]
Node == [id : STRING, template : STRING]
Edge == [from : STRING, to : STRING, weight : Int, dependency : BOOLEAN]
ScenarioGraph == [nodes : Seq(Node), edges : Seq(Edge)]
Open == [shape : STRING, rate : Int, from : Int, to : Int, for : Int,
         think : Int \X Int, cap : Int]
Segment == [name : STRING, weight : Int, start : STRING, maxSteps : Int]

Workload == [shape : STRING, duration : Int, think : Int \X Int, cap : Int, start : Int,
             peak : Int]
RunSpec ==
    [graph : ScenarioGraph, templates : SUBSET STRING, start : STRING, maxSteps : Int,
     deviation : Int, workload : Seq(Workload), segments : Seq(Segment), users : Int,
     offhost : BOOLEAN]

\* An authored document: one journey form and the run's settings, or the run spec
\* that is posted; auth tells whether its auth block, if any, expands (module
\* Credentials).
ScenarioDoc ==
    [target : BOOLEAN, form : {"flow", "graph", "both", "none", "posted"},
     flow : Seq(Step), graph : ScenarioGraph, templates : SUBSET STRING, start : STRING,
     deviation : Int, maxSteps : Int, users : Int, open : Seq(Open),
     segments : Seq(Segment), auth : BOOLEAN, posted : Seq(RunSpec)]

ASSUME ScenarioAssumption ==
    /\ Documents \subseteq ScenarioDoc
    /\ \A d \in Documents : Len(d.open) <= 1 /\ (d.form = "posted" => d.posted # <<>>)

VARIABLES
    doc,       \* the input
    stage,     \* "authored", "expanded", "created", "walking", "done",
               \* "rejected" (with an error to its author) or "failed"
               \* (the session's only result is the walk's error)
    spec,      \* what Expand made of it: the RunSpec
    path,      \* the nodes the session has entered, in order
    maxSteps   \* the transitions this session may take

journeyVars == <<doc, stage, spec, path, maxSteps>>

NoStep == ""
\* An optional block: empty, or its one value.
None == <<>>

Ids(g) == {g.nodes[i].id : i \in DOMAIN g.nodes}

Edges(g) == Range(g.edges)

(***************************************************************************)
(* Graph validation: domain.ScenarioGraph.Validate, then scenario.Validate *)
(***************************************************************************)
ValidGraph(g) ==
    /\ g.nodes # <<>>
    /\ \A i \in DOMAIN g.nodes : g.nodes[i].id # NoStep
    /\ IsInjective([i \in DOMAIN g.nodes |-> g.nodes[i].id])
    /\ \A e \in Edges(g) : {e.from, e.to} \subseteq Ids(g) /\ e.weight >= 0

validateWeights(g) ==
    /\ \A e \in Edges(g) : e.weight \in 0 .. 100
    /\ \A n \in Ids(g) :
          FoldLeft(LAMBDA sum, e : IF e.from = n THEN sum + e.weight ELSE sum,
                   0, g.edges) <= 100

Mut_adj(g, n) ==
    LET out == SelectSeq(g.edges, LAMBDA e : e.from = n)
    IN  [k \in DOMAIN out |-> out[k].to]

\* The dependents of n, once per dependency edge, in declaration order.
adj(g, n) ==
    LET out == SelectSeq(g.edges, LAMBDA e : e.from = n /\ e.dependency)
    IN  [k \in DOMAIN out |-> out[k].to]

KahnTurn(s, g) ==
    IF s.queue = <<>> THEN s
    ELSE FoldLeft(LAMBDA t, nb :
                     [t EXCEPT !.indeg[nb] = @ - 1,
                               !.queue = IF t.indeg[nb] = 1 THEN Append(@, nb) ELSE @],
                  [s EXCEPT !.queue = Tail(@), !.order = Append(@, Head(s.queue))],
                  adj(g, Head(s.queue)))

\* The nodes in dependency order; a node on a cycle is never ordered.
TopoSortDependencies(g) ==
    LET indeg == [n \in Ids(g) |->
                    Len(SelectSeq(g.edges, LAMBDA e : e.to = n /\ e.dependency))]
        declared == [i \in DOMAIN g.nodes |-> g.nodes[i].id]
        seeded == [indeg |-> indeg, order |-> <<>>,
                   queue |-> SelectSeq(declared, LAMBDA n : indeg[n] = 0)]
    IN  FoldLeft(LAMBDA s, n : KahnTurn(s, g), seeded, declared).order

Acyclic(g) == Len(TopoSortDependencies(g)) = Len(g.nodes)

ValidScenario(g) == ValidGraph(g) /\ validateWeights(g) /\ Acyclic(g)

(***************************************************************************)
(* The flow form                                                           *)
(***************************************************************************)
buildTemplates(flow) == {flow[i].id : i \in {j \in DOMAIN flow : flow[j].request # "none"}}

FlowOK(flow) ==
    /\ \A i \in DOMAIN flow : flow[i].request # "malformed"
    /\ \A i \in DOMAIN flow : flow[i].id # NoStep
    /\ IsInjective([i \in DOMAIN flow |-> flow[i].id])
    /\ \A i \in DOMAIN flow :
          flow[i].dependsOn \in {NoStep} \cup {flow[j].id : j \in DOMAIN flow}

flowNode(step) ==
    [id |-> step.id, template |-> IF step.request = "none" THEN NoStep ELSE step.id]

\* The transition from a step to the next one; an unset weight is 1.
flowEdge(from, to) ==
    [from |-> from.id, to |-> to.id,
     weight |-> IF from.weight = 0 THEN 100 ELSE from.weight,
     dependency |-> to.dependsOn = from.id]

\* A requirement on a step that is not the preceding one: an edge of weight 0
\* the walker never takes.
requiredEdge(step) ==
    [from |-> step.dependsOn, to |-> step.id, weight |-> 0, dependency |-> TRUE]

Mut_buildGraph(flow) ==
    [nodes |-> [i \in DOMAIN flow |-> flowNode(flow[i])],
     edges |-> [i \in 1 .. Len(flow) - 1 |-> flowEdge(flow[i], flow[i + 1])]]

\* The steps that require one that is not the preceding one, and the n-th of them.
Distant(flow) ==
    {i \in DOMAIN flow : /\ flow[i].dependsOn # NoStep
                         /\ ~ (i > 1 /\ flow[i - 1].id = flow[i].dependsOn)}

Nth(S, n) == CHOOSE i \in S : Cardinality({j \in S : j <= i}) = n

buildGraph(flow) ==
    [nodes |-> [i \in DOMAIN flow |-> flowNode(flow[i])],
     edges |-> [i \in 1 .. Len(flow) - 1 |-> flowEdge(flow[i], flow[i + 1])]
               \o [k \in 1 .. Cardinality(Distant(flow)) |->
                      requiredEdge(flow[Nth(Distant(flow), k)])]]

(***************************************************************************)
(* The graph form, the open workload and the whole expansion               *)
(***************************************************************************)
TemplatesKnown(g, templates) ==
    \A i \in DOMAIN g.nodes : g.nodes[i].template \in templates \cup {NoStep}

\* The arrival profile of an open block: shape and rates as buildWorkload
\* completes them.
Shape(o) ==
    IF o.shape # "unset" THEN o.shape
    ELSE IF o.from > 0 \/ o.to > 0 THEN "ramp" ELSE "constant"

buildWorkload(o) ==
    LET constant == Shape(o) = "constant" /\ o.rate > 0
    IN  [shape |-> Shape(o), duration |-> o.for, think |-> o.think,
         cap |-> o.cap,
         start |-> IF constant THEN o.rate ELSE o.from,
         peak |-> IF constant \/ (o.to = 0 /\ o.rate > 0) THEN o.rate ELSE o.to]

ValidThink(t) == 0 <= t[1] /\ t[1] <= t[2]

ValidWorkload(w) ==
    /\ ValidThink(w.think)
    /\ w.shape \in {"constant", "ramp", "spike", "soak"}
    /\ w.start >= 0 /\ w.peak >= 0
    /\ w.start > 0 \/ w.peak > 0
    /\ w.shape \in {"ramp", "spike"} => w.peak > 0
    /\ w.duration > 0
    /\ w.cap >= 0

JourneyForm(d) ==
    CASE d.form = "flow" -> FlowOK(d.flow)
      [] d.form = "graph" -> d.start # NoStep /\ TemplatesKnown(d.graph, d.templates)
      [] OTHER -> FALSE  \* neither, or both

Journey(d) == IF d.form = "flow" THEN buildGraph(d.flow) ELSE d.graph

Start(d) == IF d.form = "flow" /\ d.start = NoStep THEN d.flow[1].id ELSE d.start

Templates(d) == IF d.form = "flow" THEN buildTemplates(d.flow) ELSE d.templates

Expandable(d) ==
    /\ d.target
    /\ JourneyForm(d)
    /\ ValidScenario(Journey(d))
    /\ Start(d) \in Ids(Journey(d))
    /\ d.deviation \in 0 .. 100
    /\ IF d.open = None THEN d.segments = <<>>
       ELSE d.open[1].for > 0 /\ ValidWorkload(buildWorkload(d.open[1]))
    /\ d.auth

\* 20 closed users by default; the open model gets one placeholder identity.
expandFrom(d) ==
    [graph |-> Journey(d), templates |-> Templates(d), start |-> Start(d),
     maxSteps |-> IF d.maxSteps > 0 THEN d.maxSteps ELSE Len(Journey(d).nodes),
     deviation |-> d.deviation,
     workload |-> IF d.open = None THEN None ELSE <<buildWorkload(d.open[1])>>,
     segments |-> d.segments,
     users |-> IF d.open # None THEN 1 ELSE IF d.users > 0 THEN d.users ELSE 20,
     offhost |-> d.form = "flow" /\ \E i \in DOMAIN d.flow : d.flow[i].request = "offhost"]

(***************************************************************************)
(* RunSpec.Validate, the credential pool apart (module Credentials)        *)
(***************************************************************************)
ValidateSegments(segs) ==
    /\ \A i \in DOMAIN segs : segs[i].name # "" /\ segs[i].weight > 0
                              /\ segs[i].maxSteps >= 0
    /\ IsInjective([i \in DOMAIN segs |-> segs[i].name])

ValidRunSpec(s) ==
    /\ ValidGraph(s.graph)
    /\ s.deviation \in 0 .. 100
    /\ ~ s.offhost
    /\ s.start # NoStep
    /\ s.workload # None => ValidWorkload(s.workload[1])
    /\ s.workload = None => s.users > 0
    /\ s.segments # <<>> =>
          /\ s.workload # None
          /\ ValidateSegments(s.segments)
          /\ \A i \in DOMAIN s.segments :
                s.segments[i].start \in {NoStep} \cup Ids(s.graph)

(***************************************************************************)
(* The walker                                                              *)
(***************************************************************************)
depPreds(g, n) == {e.from : e \in {d \in Edges(g) : d.dependency /\ d.to = n}}

canEnter(g, n, visited) == depPreds(g, n) \subseteq visited

eligible(g, cur, visited) ==
    {e \in Edges(g) : e.from = cur /\ e.weight > 0 /\ canEnter(g, e.to, visited)}

\* The walk is over at maxSteps transitions, or where nothing may be entered.
WalkOver ==
    \/ Len(path) = maxSteps + 1
    \/ eligible(spec.graph, Last(path), Range(path)) = {}

\* The entry point and step bound a session draws: the run's, or a persona's.
Entries(s) ==
    IF s.segments = <<>> THEN {[start |-> s.start, maxSteps |-> s.maxSteps]}
    ELSE {[start |-> IF seg.start = NoStep THEN s.start ELSE seg.start,
           maxSteps |-> IF seg.maxSteps > 0 THEN seg.maxSteps ELSE s.maxSteps] :
             seg \in Range(s.segments)}

JourneyInit ==
    /\ doc \in Documents
    /\ stage = IF doc.form = "posted" THEN "expanded" ELSE "authored"
    /\ spec = IF doc.form = "posted" THEN doc.posted[1] ELSE None
    /\ path = <<>>
    /\ maxSteps = 0

Expand ==
    /\ stage = "authored"
    /\ IF Expandable(doc)
       THEN stage' = "expanded" /\ spec' = expandFrom(doc)
       ELSE stage' = "rejected" /\ spec' = spec
    /\ UNCHANGED <<doc, path, maxSteps>>

Create ==
    /\ stage = "expanded"
    /\ stage' = IF ValidRunSpec(spec) THEN "created" ELSE "rejected"
    /\ UNCHANGED <<doc, spec, path, maxSteps>>

\* A negative bound, a start outside the graph, or one with a requirement nothing can
\* have met yet, is the session's only result.
BeginWalk ==
    /\ stage = "created"
    /\ \E entry \in Entries(spec) :
          /\ maxSteps' = entry.maxSteps
          /\ IF /\ entry.maxSteps >= 0
                /\ entry.start \in Ids(spec.graph) /\ canEnter(spec.graph, entry.start, {})
             THEN stage' = "walking" /\ path' = <<entry.start>>
             ELSE stage' = "failed" /\ path' = path
    /\ UNCHANGED <<doc, spec>>

\* A weighted pick and an exploring deviation both take an eligible edge.
Transition ==
    /\ stage = "walking"
    /\ ~ WalkOver
    /\ \E e \in eligible(spec.graph, Last(path), Range(path)) :
          path' = Append(path, e.to)
    /\ UNCHANGED <<doc, stage, spec, maxSteps>>

Abandon ==
    /\ stage = "walking"
    /\ ~ WalkOver
    /\ spec.deviation > 0
    /\ stage' = "done"
    /\ UNCHANGED <<doc, spec, path, maxSteps>>

EndWalk ==
    /\ stage = "walking"
    /\ WalkOver
    /\ stage' = "done"
    /\ UNCHANGED <<doc, spec, path, maxSteps>>

JourneyNext == Expand \/ Create \/ BeginWalk \/ Transition \/ Abandon \/ EndWalk

JourneySpec == JourneyInit /\ [][JourneyNext]_journeyVars

(***************************************************************************)
(* Properties                                                              *)
(***************************************************************************)

\* A well-formed graph passes for free of dependency cycles exactly when it is
\* (no set of nodes each of which requires another of the set), and then the
\* order found puts every node once, after everything it requires:
\* TopoSortDependencies, against its definition.
TopoExact ==
    (stage = "authored" /\ JourneyForm(doc) /\ ValidGraph(Journey(doc))) =>
        LET g == Journey(doc)
            order == TopoSortDependencies(g)
        IN  /\ Acyclic(g) <=> \A S \in SUBSET Ids(g) \ {{}} :
                                 \E n \in S : depPreds(g, n) \cap S = {}
            /\ Acyclic(g) =>
                  /\ Range(order) = Ids(g)
                  /\ \A i \in DOMAIN order :
                        depPreds(g, order[i]) \subseteq {order[j] : j \in 1 .. i - 1}

\* A flow whose steps only require earlier ones, entered at its first step and
\* never deviated from.
Ordinary(d) ==
    /\ d.form = "flow" /\ d.flow # <<>> /\ FlowOK(d.flow)
    /\ d.target /\ d.auth /\ d.start = NoStep /\ d.maxSteps = 0 /\ d.deviation = 0
    /\ d.open = None /\ d.segments = <<>>
    /\ \A i \in DOMAIN d.flow :
          /\ d.flow[i].weight <= 100 /\ d.flow[i].request # "offhost"
          /\ d.flow[i].dependsOn \in {NoStep} \cup {d.flow[j].id : j \in 1 .. i - 1}

\* It is not rejected for its graph.
FlowAccepted == Ordinary(doc) => stage # "rejected"

\* The scenario checks: the dependency sort is right, and they let an ordinary flow pass.
JourneySound == TopoExact /\ FlowAccepted

\* Whatever deviation and personas do, a session takes only positive-weight
\* transitions, never enters a node before everything the node requires (in a
\* flow: before the step its author said it depends on), and takes no more
\* transitions than its bound.
RulesKept ==
    stage \in {"walking", "done"} =>
        /\ Len(path) <= maxSteps + 1
        /\ \A i \in DOMAIN path :
              depPreds(spec.graph, path[i]) \subseteq {path[j] : j \in 1 .. i - 1}
        /\ doc.form = "flow" =>
              \A i \in DOMAIN path, k \in DOMAIN doc.flow :
                  (doc.flow[k].id = path[i] /\ doc.flow[k].dependsOn # NoStep) =>
                      doc.flow[k].dependsOn \in {path[j] : j \in 1 .. i - 1}
        /\ \A i \in 1 .. Len(path) - 1 :
              \E e \in Edges(spec.graph) :
                  e.from = path[i] /\ e.to = path[i + 1] /\ e.weight > 0

\* An ordinary flow is the journey its author wrote: the session starts, and when it
\* ends it has visited every step once, in the authored order.
FlowWalked ==
    Ordinary(doc) =>
        /\ stage # "failed"
        /\ stage = "done" => path = [i \in DOMAIN doc.flow |-> doc.flow[i].id]

\* No walk breaks a rule of its graph, and an ordinary flow is walked to its end.
WalkSound == RulesKept /\ FlowWalked

(***************************************************************************)
(* The inductive invariant behind WalkSound                                *)
(***************************************************************************)
\* What a walk goes by is the expansion of its document, or the posted run spec.
SourceInv ==
    /\ doc \in Documents
    /\ stage \in {"authored", "expanded", "created", "walking", "done", "rejected", "failed"}
    /\ doc.form = "posted" => spec = doc.posted[1]
    /\ doc.form # "posted" /\ stage \notin {"authored", "rejected"} =>
          Expandable(doc) /\ spec = expandFrom(doc)
    /\ stage \in {"created", "walking", "done"} => ValidRunSpec(spec)

\* Where the walk is: it kept the graph's rules so far.
PathInv ==
    stage \in {"walking", "done"} =>
        LET g == spec.graph
        IN  /\ maxSteps \in Nat
            /\ path \in Seq(Ids(g)) /\ path # <<>> /\ Len(path) <= maxSteps + 1
            /\ \A i \in DOMAIN path : depPreds(g, path[i]) \subseteq {path[j] : j \in 1 .. i - 1}
            /\ \A i \in 1 .. Len(path) - 1 :
                  \E e \in Edges(g) : e.from = path[i] /\ e.to = path[i + 1] /\ e.weight > 0

\* A session of an ordinary flow has walked a prefix of it.
FlowInv ==
    Ordinary(doc) =>
        /\ stage # "failed"
        /\ stage \in {"walking", "done"} =>
              /\ maxSteps = Len(doc.flow) /\ Len(path) <= Len(doc.flow)
              /\ \A i \in DOMAIN path : path[i] = doc.flow[i].id
        /\ stage = "done" => Len(path) = Len(doc.flow)

WalkInv == SourceInv /\ PathInv /\ FlowInv
=============================================================================
