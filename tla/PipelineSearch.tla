---------------------------- MODULE PipelineSearch ----------------------------
(***************************************************************************)
(* The loop mode of the pipeline pass: optimizationLoop                    *)
(* (PipeliningPass.cpp) maps a pipeline onto compute units                 *)
(* (PerformanceModel.cpp), cuts its slowest stage with tableCut            *)
(* (PipelineHandlerPass.cpp) and maps again, until the mapping stops       *)
(* improving; finalize (Mapping.h) keeps the stages of the best mapping    *)
(* and PipelineCanonicalizePass.cpp puts them in order.                    *)
(*                                                                         *)
(* A function of the module is named by its generation index: cutting      *)
(* stage g makes the source 2g and the sink 2g + 1.                        *)
(***************************************************************************)
EXTENDS PipelineCut, Sequences, SequencesExt

CONSTANTS
  Handlers,    \* the handlers to optimise
  Targets,     \* subset of {"fpga", "netronome"}
  N_RAND_ITERS \* attempts at a cut with one pair of parameters

ASSUME HandlerAssumption ==
  \A h \in Handlers :
    /\ \A v \in Values(h) : Cardinality(DefiningOps(h, v)) = IF v \in DOMAIN h.args THEN 0 ELSE 1
    /\ \A o \in Ops(h) : h.ops[o].uses \subseteq Values(h)
    /\ \A v \in DOMAIN h.args : Users(h, v) # {}
    /\ \A o \in Ops(h) : OutsOf(h, o) # {} => UsedOuts(h, o) # {}

VARIABLES
  target,    \* the option target of the pass
  handler,   \* the handler to cut into stages
  funcs,     \* the handlers of the module, by generation index
  pipelines, \* the queue of optimizationLoop
  mapper,    \* latency, bottleneckIndex, units and functions of the best mapping
  pc,        \* the loop the pass is in
  attempt,   \* index in cutParams
  tries,     \* random iterations of pipelineHandler
  adj,       \* myAdjList of the current iteration
  side       \* the source side of its minimum cut, wmap

vars == <<target, handler, funcs, pipelines, mapper, pc, attempt, tries, adj, side>>

-----------------------------------------------------------------------------
(* The performance models (Mapping.h).                                     *)
LatencyTarget == IF target = "fpga" THEN 1 ELSE 100
NumUnits      == IF target = "fpga" THEN 128 ELSE 22
TableOps(b)   == OfKind(b, {"lookup", "update"})
Latency(b) ==
  IF target = "fpga" THEN (IF TableOps(b) # {} THEN 3 ELSE 1)
  ELSE 100 * Cardinality(TableOps(b)) + Cardinality(OfKind(b, {"arith", "emit", "extract"}))

(* getMapping hands out the units one by one: the next goes to the first   *)
(* stage that still is too slow and may be replicated.                     *)
ReplicateAny(b, n) == TRUE
MayReplicate(b, n) == IsTableClean(b) \/ n = 0
NeedsUnit(p, units) ==
  {i \in DOMAIN p : /\ Latency(funcs[p[i]]) > LatencyTarget * units[i]
                    /\ MayReplicate(funcs[p[i]], units[i])}
UnitMap(p) ==
  LET assign[n \in 0..NumUnits, units \in [DOMAIN p -> 0..NumUnits]] ==
        LET needs == NeedsUnit(p, units)
        IN  IF n = 0 \/ needs = {} THEN units
            ELSE assign[n - 1, [units EXCEPT ![Min(needs)] = @ + 1]]
  IN  assign[NumUnits, [i \in DOMAIN p |-> 0]]

StageLatency(p, units, i) == Latency(funcs[p[i]]) \div units[i]
Mapping(p) ==
  LET units == UnitMap(p)
      lat   == [i \in DOMAIN p |-> StageLatency(p, units, i)]
      worst == Max({0} \cup Range(lat))
  IN  [latency |-> worst, functions |-> p, units |-> units,
       bottleneckIndex |-> IF worst = 0 THEN 1 ELSE Min({i \in DOMAIN p : lat[i] = worst})]

-----------------------------------------------------------------------------
(* cutParams of tableCut: source weight and tolerance in tenths.           *)
CutParams == <<<<5, 1>>, <<5, 2>>, <<5, 3>>, <<5, 4>>, <<4, 1>>, <<4, 2>>, <<4, 3>>,
               <<3, 1>>, <<3, 2>>, <<2, 1>>, <<1, 1>>, <<2, 2>>, <<3, 3>>, <<4, 4>>, <<5, 5>>>>
Weight10 == CutParams[attempt][1]
Tol10    == CutParams[attempt][2]

Pipeline == Head(pipelines)
Stage    == Pipeline[mapper.bottleneckIndex]
Body     == funcs[Stage]

(* frac_src_cut against sourceWeight * (1 - tol) and * (1 + tol).          *)
TooLight(X) ==
  100 * WeightOf(Body, X) < WeightOf(Body, Vertices(Body)) * Weight10 * (10 - Tol10)
TooHeavy(X) ==
  100 * WeightOf(Body, X) > WeightOf(Body, Vertices(Body)) * Weight10 * (10 + Tol10)
PipelineAble(X) == \A c \in Constraints(Body) : ~(c[1] \notin X /\ c[2] \in X)

-----------------------------------------------------------------------------
ExtraSearchTwo == 2
PIPELINE_EXTRA_SEARCH == 1

Init ==
  /\ target \in Targets
  /\ handler \in Handlers /\ funcs = (1 :> handler)
  /\ pipelines = <<<<1>>>>
  /\ mapper = [latency |-> LatencyTarget + 1000, functions |-> <<>>, units |-> <<>>,
               bottleneckIndex |-> 0, nonOpts |-> 0]
  /\ pc = "map"
  /\ attempt = 0 /\ tries = 0 /\ adj = <<>> /\ side = {}

(* tryMap, better if strictly smaller.                                     *)
BetterOrEqual(new, old) == new.latency <= old.latency
Better(new, old) == new.latency < old.latency
TryMap(p) ==
  LET result == Mapping(p)
  IN  IF Better(result, mapper)
      THEN mapper' = result @@ [nonOpts |-> 0]
      ELSE mapper' = [mapper EXCEPT !.nonOpts = @ + 1]

(* The head of the loop.  A stage without a unit is a division by zero.    *)
MapNext ==
  /\ pc = "map" /\ pipelines # <<>>
  /\ LET units == UnitMap(Pipeline)
     IN  IF \E i \in DOMAIN units : units[i] = 0
         THEN pc' = "trap" /\ UNCHANGED <<mapper, attempt>>
         ELSE /\ TryMap(Pipeline)
              /\ IF mapper'.nonOpts >= PIPELINE_EXTRA_SEARCH
                 THEN pc' = "finalize" /\ UNCHANGED attempt
                 ELSE pc' = "tableCut" /\ attempt' = 1
  /\ UNCHANGED <<target, handler, funcs, pipelines, tries, adj, side>>

-----------------------------------------------------------------------------
(* BottleneckExplorer.next: replace the slowest stage.  tableCut returns   *)
(* the stages in the order of a hash table.                                *)
ReplaceAfter(p, i, new) == SubSeq(p, 1, i) \o new \o SubSeq(p, i + 1, Len(p))
Replace(p, i, new) == SubSeq(p, 1, i - 1) \o new \o SubSeq(p, i + 1, Len(p))
Explore(new) ==
  /\ pipelines' = Append(Tail(pipelines), Replace(Pipeline, mapper.bottleneckIndex, new))
  /\ pc' = "map"

(* The network of an iteration and its minimum cut.                        *)
Network(new) == adj' = new /\ side' = SourceSide(Body, new)

(* tableCut: the next parameters, or no parameters are left.               *)
StartCut ==
  /\ pc = "tableCut" /\ attempt <= Len(CutParams)
  /\ Network(AdjList(Body)) /\ tries' = 1
  /\ pc' = "cut"
  /\ UNCHANGED <<target, handler, funcs, pipelines, mapper, attempt>>

GiveUp ==
  /\ pc = "tableCut" /\ attempt > Len(CutParams)
  /\ pipelines' = Tail(pipelines)
  /\ pc' = IF pipelines' = <<>> THEN "finalize" ELSE "map"
  /\ UNCHANGED <<target, handler, funcs, mapper, attempt, tries, adj, side>>

(* runBalancedMinCut returned an error: try again, and after the last try  *)
(* go on with the uncut stage.                                             *)
Fail ==
  /\ IF tries < N_RAND_ITERS
     THEN /\ tries' = tries + 1 /\ Network(AdjList(Body))
          /\ UNCHANGED <<pipelines, pc, attempt>>
     ELSE /\ IF IsTableClean(Body)
             THEN Explore(<<Stage>>) /\ UNCHANGED attempt
             ELSE pc' = "tableCut" /\ attempt' = attempt + 1 /\ UNCHANGED pipelines
          /\ UNCHANGED <<tries, adj, side>>
  /\ UNCHANGED <<target, handler, funcs, mapper>>

(* One iteration of runBalancedMinCut, by its outcome.  Its other error    *)
(* returns, infinite flow and a cut that is no pipeline, are unreachable   *)
(* (CutUsable).                                                            *)
Usable == side # {} /\ PipelineAble(side)

Light ==
  /\ pc = "cut"
  /\ TooLight(side)
  /\ LET C == SourceCandidates(Body, adj, side)
     IN  \/ C = {} /\ Fail
         \/ \E c \in LastOf(DOMAIN adj, C, Cardinality(Vertices(Body))) :
              /\ Network(CollapseSource(Body, adj, side, c))
              /\ UNCHANGED <<target, handler, funcs, pipelines, mapper, pc, attempt, tries>>

Heavy ==
  /\ pc = "cut"
  /\ ~TooLight(side) /\ TooHeavy(side)
  /\ LET C == SinkCandidates(Body, adj, side)
     IN  \/ C = {} /\ Fail
         \/ \E c \in FirstOf(DOMAIN adj, C, Cardinality(Vertices(Body))) :
              /\ Network(CollapseSink(Body, adj, side, c))
              /\ UNCHANGED <<target, handler, funcs, pipelines, mapper, pc, attempt, tries>>

(* The cut is balanced: split, and keep the split if a side is clean.      *)
Split ==
  /\ pc = "cut"
  /\ ~TooLight(side) /\ ~TooHeavy(side)
  /\ LET g == Stage
         source == SplitSource(Body, side, g)
         sink   == SplitSink(Body, side)
     IN  IF IsTableClean(source) \/ IsTableClean(sink)
         THEN /\ funcs' = funcs @@ (2 * g :> source) @@ (2 * g + 1 :> sink)
              /\ \E new \in {<<2 * g, 2 * g + 1>>, <<2 * g + 1, 2 * g>>} : Explore(new)
              /\ UNCHANGED attempt
         ELSE pc' = "tableCut" /\ attempt' = attempt + 1 /\ UNCHANGED <<funcs, pipelines>>
  /\ UNCHANGED <<target, handler, mapper, tries, adj, side>>

-----------------------------------------------------------------------------
(* finalize: erase the handlers outside the best pipeline.                 *)
Finalize ==
  /\ pc = "finalize"
  /\ funcs' = Restrict(funcs, Range(mapper.functions))
  /\ pc' = "canonicalize"
  /\ UNCHANGED <<target, handler, pipelines, mapper, attempt, tries, adj, side>>

(* placeGeneration: a function in place of its generation, or else those   *)
(* it was cut into.  Without them the recursion has no end.                *)
Endless == 0
PlaceSinkFirst(g0) ==
  LET top == Max({1} \cup DOMAIN funcs)
      place[g \in 1..(2 * top + 1)] ==
        IF g \in DOMAIN funcs THEN <<g>>
        ELSE IF g > top THEN <<Endless>>
        ELSE place[2 * g + 1] \o place[2 * g]
  IN  place[g0]
Place(g0) ==
  LET top == Max({1} \cup DOMAIN funcs)
      place[g \in 1..(2 * top + 1)] ==
        IF g \in DOMAIN funcs THEN <<g>>
        ELSE IF g > top THEN <<Endless>>
        ELSE place[2 * g] \o place[2 * g + 1]
  IN  place[g0]

Canonicalize ==
  /\ pc = "canonicalize"
  /\ pipelines' = <<Place(1)>>
  /\ pc' = IF Contains(Place(1), Endless) THEN "trap" ELSE "done"
  /\ UNCHANGED <<target, handler, funcs, mapper, attempt, tries, adj, side>>

Next ==
  \/ MapNext \/ StartCut \/ GiveUp
  \/ Light \/ Heavy \/ Split
  \/ Finalize \/ Canonicalize

Spec == Init /\ [][Next]_vars

-----------------------------------------------------------------------------
Done == pc = "done"
StageOf(p, o) == {i \in DOMAIN p : o \in Ops(funcs[p[i]])}

(* Every network that rebalancing produces still has a cut of finite       *)
(* weight, and its source side contains what its operations depend on: of  *)
(* the error codes of runBalancedMinCut, INF_FLOW and NOT_PIPELINE (whose  *)
(* number is past the end of errMsgs) are never returned.                  *)
CutUsable == pc = "cut" => Usable

(* The values whose defining edge the cut crosses: what it pays for.       *)
PaidValues(b, X) ==
  {e[2] : e \in {d \in ArgEdges(b) \cup OutEdges(b) : d[1] \in X /\ d[2] \notin X}}

(* The values functionSplitter hands to the sink, arguments of the handler *)
(* included, are exactly those the minimum cut of pipelineHandler pays     *)
(* for: the cost it minimises is the cost of the event that is generated.  *)
(* The splitter works them out anew from the operands of the sink.         *)
TransferMatchesCut == pc = "cut" => PaidValues(Body, side) = Transferred(Body, side)

(* However often stages are cut and cuts are thrown away, each operation   *)
(* of the handler is in exactly one stage of the pipeline under study, and *)
(* in one stage of the final one.                                          *)
OpsConserved ==
  pc \in {"map", "tableCut", "cut", "done"} =>
    \A o \in Ops(handler) : Cardinality(StageOf(Pipeline, o)) = 1

(* A table stays with one stage, in every pipeline that is mapped and in   *)
(* the final one: an access is where its import is.                        *)
TablesLocal ==
  pc \in {"map", "done"} =>
    \A o \in TableOps(handler) : \A i \in OfKind(handler, {"import"}) :
            OutsOf(handler, i) \cap handler.ops[o].uses # {}
              => StageOf(Pipeline, o) = StageOf(Pipeline, i)

(* In the final order, which finalize and placeGeneration recover from the *)
(* generation indices, every stage generates one event and the arguments   *)
(* of the next stage are the values of that event.                         *)
StagesWired ==
  Done => \A i \in 2..Len(Pipeline) :
            LET b == funcs[Pipeline[i - 1]]
            IN  {b.ops[o].uses : o \in OfKind(b, {"init"})} = {DOMAIN funcs[Pipeline[i]].args}

(* A stage that got several units accesses its tables with a single key.   *)
ReplicasClean ==
  Done => \A i \in DOMAIN mapper.functions :
            mapper.units[i] > 1 => IsTableClean(funcs[mapper.functions[i]])

(* The stage that is cut is the slowest of the pipeline it belongs to: the *)
(* mapping that named it is the one of this pipeline, not an older one.    *)
BottleneckCurrent == pc \in {"tableCut", "cut"} => mapper.functions = Pipeline

(* The loops of the pass come to an end: every step lowers, in this order, *)
(* the best latency, the loop the pass is in, the parameters left to try,  *)
(* the tries left, and the vertices not yet tied to a side of the cut.     *)
Undecided ==
  LET n == Cardinality(Vertices(Body))
      inf == InfEdges(Body, adj)
  IN  n - Cardinality(Reaching(inf, Source, n)) - Cardinality(Reaching(Flip(inf), Sink, n))
Loop == CASE pc \in {"tableCut", "cut"} -> 4 [] pc = "map" -> 3 [] pc = "finalize" -> 2
          [] pc = "canonicalize" -> 1 [] OTHER -> 0
Rank == <<mapper.latency, Loop, -attempt, IF pc = "tableCut" THEN 1 ELSE 0, -tries,
          IF pc = "cut" THEN Undecided ELSE 0>>
Lower(r, s) == \E i \in DOMAIN r : r[i] < s[i] /\ \A j \in 1..(i - 1) : r[j] = s[j]
Progress == [][Lower(Rank', Rank)]_vars

(* PipelineMapper is to "ensure that pipeline is mapped": finalize keeps   *)
(* some pipeline.                                                          *)
PipelineKept == pc = "finalize" => mapper.functions # <<>>
=============================================================================
