----------------------------- MODULE PipelineCut -----------------------------
(***************************************************************************)
(* How the compiler cuts one handler into two pipeline stages: the flow    *)
(* network of pipelineHandler and the balanced minimum cut                 *)
(* (PipelineHandlerPass.cpp), and functionSplitter (SplitFunction.cpp).    *)
(*                                                                         *)
(* A handler body is a record of                                           *)
(*   args : the cost of transmitting each argument,                        *)
(*   ops  : per operation its kind, the values it uses, the cost of        *)
(*          transmitting each value it defines, and its table key.         *)
(* A body is one block, as ep2-linearize leaves it, without dead code.     *)
(* Its terminator has neither operands nor results and is not listed.      *)
(***************************************************************************)
EXTENDS Integers, FiniteSets, FiniteSetsExt, Functions, TLC

Node(n) == <<"node", n>>
Source  == Node("globalSource")
Sink    == Node("globalSink")
BlockSource == Node("source")
BlockSink   == Node("sink")
Terminator  == Node("terminate")
Nodes == {Source, Sink, BlockSource, BlockSink, Terminator}

INF_WT   == 1000000 \* stands for 10^18: more than any sum of finite weights
SMALL_WT == 1

-----------------------------------------------------------------------------
(* Bodies.                                                                 *)
Ops(b)    == DOMAIN b.ops
OutsOf(b, o) == DOMAIN b.ops[o].outs
Values(b) == DOMAIN b.args \cup UNION {OutsOf(b, o) : o \in Ops(b)}
Users(b, v) == {o \in Ops(b) : v \in b.ops[o].uses}
Defines(b, o, v) == v \in OutsOf(b, o)
DefiningOps(b, v) == {o \in Ops(b) : Defines(b, o, v)}
TransmitCost(b, v) ==
  IF v \in DOMAIN b.args THEN b.args[v]
  ELSE b.ops[CHOOSE o \in Ops(b) : Defines(b, o, v)].outs[v]
OfKind(b, K) == {o \in Ops(b) : b.ops[o].kind \in K}

UsedOuts(b, o) == {v \in OutsOf(b, o) : Users(b, v) # {}}

-----------------------------------------------------------------------------
(* The network.  myAdjList: data flows from a definition to a value, and   *)
(* from a value to its users.                                              *)
ArgEdges(b)   == {<<Source, v>> : v \in DOMAIN b.args}
OutEdges(b)   == UNION {{<<o, v>> : v \in UsedOuts(b, o)} : o \in Ops(b)}
UseEdges(b)   == UNION {{<<v, o>> : v \in b.ops[o].uses} : o \in Ops(b)}
StartEdges(b) == {<<Source, o>> : o \in {p \in Ops(b) : b.ops[p].uses = {}} \cup {Terminator}}
ReturnEdges(b) == {<<o, Sink>> : o \in OfKind(b, {"return"})}

AdjListFree(b) ==
  [e \in ArgEdges(b) \cup OutEdges(b) \cup UseEdges(b) \cup StartEdges(b) \cup ReturnEdges(b) |->
     CASE e \in ArgEdges(b) \cup OutEdges(b) -> TransmitCost(b, e[2])
       [] e \in StartEdges(b) -> SMALL_WT
       [] OTHER               -> INF_WT]
AdjList(b) ==
  [e \in ArgEdges(b) \cup OutEdges(b) \cup UseEdges(b) \cup StartEdges(b) \cup ReturnEdges(b) |->
     CASE e \in ArgEdges(b)   -> TransmitCost(b, e[2])
       [] e \in OutEdges(b)   -> IF b.ops[e[1]].kind = "import" THEN INF_WT
                                 ELSE TransmitCost(b, e[2])
       [] e \in StartEdges(b) -> SMALL_WT
       [] OTHER               -> INF_WT]

(* falseEdges: edges of infinite weight that only constrain the cut.  An   *)
(* operation in the source needs the definitions of its operands there.    *)
FalseEdgesNoDefs(b) ==
  {<<BlockSource, Source>>, <<Sink, BlockSink>>, <<BlockSink, Terminator>>}
    \cup {<<BlockSink, o>> : o \in {p \in Ops(b) : OutsOf(b, p) = {}}}
FalseEdges(b) ==
  {<<BlockSource, Source>>, <<Sink, BlockSink>>, <<BlockSink, Terminator>>}
    \cup {<<BlockSink, o>> : o \in {p \in Ops(b) : OutsOf(b, p) = {}}}
    \cup UNION {UNION {{<<o, d>> : d \in DefiningOps(b, v)} : v \in b.ops[o].uses} : o \in Ops(b)}
    \cup {<<o, BlockSource>> : o \in {p \in Ops(b) : b.ops[p].uses \cap DOMAIN b.args # {}}}

(* pipelineConstraints: pairs of which the first must not be in the sink   *)
(* when the second is in the source.                                       *)
Constraints(b) ==
  {<<o, Sink>> : o \in OfKind(b, {"return"})}
    \cup UNION {UNION {{<<d, o>> : d \in DefiningOps(b, v)} : v \in b.ops[o].uses} : o \in Ops(b)}
    \cup {<<BlockSource, o>> : o \in {p \in Ops(b) : b.ops[p].uses \cap DOMAIN b.args # {}}}

Vertices(b) == Nodes \cup Ops(b) \cup {v \in Values(b) : Users(b, v) # {}}
Weight(b, x) == IF x \in OfKind(b, {"import"}) THEN 100 ELSE 1
WeightOf(b, X) == MapThenSumSet(LAMBDA x : Weight(b, x), X)

-----------------------------------------------------------------------------
(* Graphs as sets of edges.                                                *)
Successors(E, R) == {e[2] : e \in {d \in E : d[1] \in R}}
Reaching(E, x, n) ==
  LET reach[k \in 0..n] ==
        IF k = 0 THEN {x} ELSE UNION {R \cup Successors(E, R) : R \in {reach[k - 1]}}
  IN  reach[n]
Flip(E) == {<<e[2], e[1]>> : e \in E}
OutDegree(E, x) == Cardinality({e \in E : e[1] = x})

InfEdges(b, adj) == {e \in DOMAIN adj : adj[e] = INF_WT} \cup FalseEdges(b)
CutEdges(adj, X) == {e \in DOMAIN adj : e[1] \in X /\ e[2] \notin X}
CutWeight(adj, X) == MapThenSumSet(LAMBDA e : adj[e], CutEdges(adj, X))

(* push_relabel_max_flow and the search of the residual graph: the least   *)
(* source side of the cuts with the smallest weight.  Infinite edges close *)
(* a source side; the ends of finite edges generate the least ones, except *)
(* those that reach the sink or add nothing to what the source reaches.    *)
Cuts(b, adj) ==
  LET inf   == InfEdges(b, adj)
      n     == Cardinality(Vertices(b))
      base  == Reaching(inf, Source, n)
      ends  == {e[2] : e \in {d \in DOMAIN adj : adj[d] < INF_WT}} \ base
      added == {R \in {Reaching(inf, x, n) : x \in ends} : Sink \notin R}
  IN  {X \in {base \cup UNION A : A \in SUBSET added} : Sink \notin X}
SourceSide(b, adj) ==
  LET cuts == Cuts(b, adj)
      wt   == [X \in cuts |-> CutWeight(adj, X)]
      least == Min({wt[X] : X \in cuts})
      best == {X \in cuts : wt[X] = least}
  IN  IF cuts = {} THEN {} ELSE CHOOSE X \in best : \A Y \in best : X \subseteq Y

-----------------------------------------------------------------------------
(* Rebalancing.  The weights of a partition that is too small or too large *)
(* become infinite, and one more vertex is tied to the source or the sink. *)
(* Positions in topo_sort decide between candidates; boost lists a vertex  *)
(* after those it reaches, and shuffled edges leave the rest open.         *)
LastOf(E, C, n) == {c \in C : Reaching(E, c, n) \cap C = {c}}
FirstOf(E, C, n) == LastOf(Flip(E), C, n)

SourceCandidates(b, adj, X) ==
  LET n == Cardinality(Vertices(b))
      toSink == Reaching(Flip(InfEdges(b, adj)), Sink, n)
  IN  {v \in {e[2] : e \in CutEdges(adj, X)} \ toSink : OutDegree(DOMAIN adj, v) = 1}
SinkCandidates(b, adj, X) ==
  LET n == Cardinality(Vertices(b))
      fromSource == Reaching(InfEdges(b, adj), Source, n)
  IN  {v \in {e[1] : e \in CutEdges(adj, X)} \ fromSource : OutDegree(DOMAIN adj, v) = 1}

Fix(adj, X, new) ==
  [e \in DOMAIN adj \cup {new} |->
     IF e = new \/ {e[1], e[2]} \subseteq X THEN INF_WT ELSE adj[e]]
CollapseSource(b, adj, X, c) == Fix(adj, X, <<Source, c>>)
CollapseSink(b, adj, X, c)   == Fix(adj, Vertices(b) \ X, <<c, Sink>>)

-----------------------------------------------------------------------------
(* functionSplitter.  The sink gets the operations outside the source side *)
(* and takes the values it needs as arguments; the source generates them   *)
(* as an event for it.                                                     *)
SinkOps(b, X) == Ops(b) \ X
TransferredResults(b, X) ==
  {v \in Values(b) : /\ Users(b, v) \cap SinkOps(b, X) # {}
                     /\ DefiningOps(b, v) \cap X # {}}
Transferred(b, X) ==
  {v \in Values(b) : /\ Users(b, v) \cap SinkOps(b, X) # {}
                     /\ DefiningOps(b, v) \cap SinkOps(b, X) = {}}

(* createGenerate: g is the generation index of the stage it feeds.        *)
EventCost(b, V) == 1 + MapThenSumSet(LAMBDA v : TransmitCost(b, v) - 1, V)
Generate(b, V, g) ==
  (<<"init", g>> :> [kind |-> "init", uses |-> V, key |-> {},
                     outs |-> (<<"event", g>> :> EventCost(b, V))])
  @@ (<<"return", g>> :> [kind |-> "return", uses |-> {<<"event", g>>}, key |-> {},
                          outs |-> <<>>])

SplitSource(b, X, g) ==
  [args |-> b.args,
   ops  |-> Restrict(b.ops, Ops(b) \cap X) @@ Generate(b, Transferred(b, X), 2 * g + 1)]
SplitSink(b, X) ==
  [args |-> [v \in Transferred(b, X) |-> TransmitCost(b, v)],
   ops  |-> Restrict(b.ops, SinkOps(b, X))]

-----------------------------------------------------------------------------
(* isTableClean: there are table accesses, all of them with one key.       *)
Keys(b) == UNION {b.ops[o].key : o \in OfKind(b, {"lookup", "update"})}
IsTableClean(b) == Cardinality(Keys(b)) = 1
=============================================================================
