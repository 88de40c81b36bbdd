----------------------------- MODULE HandlerGraph -----------------------------
(***************************************************************************)
(* The handler dependency analysis of the compiler                         *)
(* (HandlerDependencyAnalysis.cpp) and the context analysis that runs over *)
(* its result (ContextBufferizationAnalysis.cpp).                          *)
(*                                                                         *)
(* The analysis builds a graph from the events the handlers return, splits *)
(* it into connected components by a breadth-first search, and lists each  *)
(* component in an order that the later analyses follow.  Every component  *)
(* then gets one context table with the fields of all its handlers.        *)
(*                                                                         *)
(* A handler is a number, which stands for the place of its FuncOp in the  *)
(* std::map iteration order.  A step is one iteration of a loop.           *)
(***************************************************************************)
EXTENDS Integers, Sequences, SequencesExt, Functions, FiniteSets

CONSTANTS
  Programs, \* the programs to analyse
  AnyType   \* the type of a context field that is not known yet

ASSUME ProgramAssumption ==
  \A p \in Programs :
    /\ p.handlers \subseteq Nat
    /\ p.extern \subseteq p.handlers
    /\ DOMAIN p.name = p.handlers /\ IsInjective(p.name)
    /\ DOMAIN p.returns = p.handlers \ p.extern
    /\ DOMAIN p.refs = p.handlers

VARIABLES
  prog,     \* the program: handlers, extern, name (event and atom), returns
            \* (the names of the events a handler generates), refs (its context
            \* references, a field and a type each)
  graph,    \* per handler: the handlers it generates events for
  phase,    \* the loop the analysis is in
  color,    \* per handler: its component, 0 before it is visited
  inDegree, \* per handler: returns not counted off yet
  worklist, \* the queue of the search
  subGraphs, initialHandlers, \* per component: its handlers, its start queue
  order,    \* subGraphsOrder
  contextMap, contextTables   \* per handler: its table; per component: the
                              \* position and the type of every field

vars == <<prog, graph, phase, color, inDegree, worklist, subGraphs, initialHandlers,
          order, contextMap, contextTables>>

searchVars == <<color, worklist, subGraphs, initialHandlers>>
contextVars == <<contextMap, contextTables>>

-----------------------------------------------------------------------------
Named(n) == CHOOSE h \in prog.handlers : prog.name[h] = n
IsName(n) == \E h \in prog.handlers : prog.name[h] = n

(* lookupHandler, which the constructor repeats: the exact name, or else   *)
(* the handler of the event that has no atom.                              *)
LookupHandler(n) == IF IsName(n) THEN Named(n) ELSE Named(<<n[1], "">>)

(* The constructor's loop over the returns.  The search for what an extern *)
(* forwards looks for the name that was not found before, so it adds       *)
(* nothing.  getConnectedComponents enters the externs that are targets.   *)
Targets(h) ==
  IF h \in prog.extern THEN <<>>
  ELSE [i \in DOMAIN prog.returns[h] |-> LookupHandler(prog.returns[h][i])]

Keys  == prog.handlers \ prog.extern
BuildGraph == [h \in Keys \cup UNION {ToSet(Targets(k)) : k \in Keys} |-> Targets(h)]

Nodes == DOMAIN graph
Edges == {e \in Nodes \X Nodes : Contains(graph[e[1]], e[2])}

(* undirectedGraph: the targets of h, then the handlers that target it and *)
(* are not listed yet.                                                     *)
UndirectedOneWay(h) == graph[h]
Undirected(h) ==
  graph[h] \o SetToSortSeq({g \in Nodes : Contains(graph[g], h) /\ ~Contains(graph[h], g)},
                           LAMBDA a, b : a < b)

(* The number of returns that target h.                                    *)
Returns(h) ==
  SumFunction([g \in Nodes |->
    Cardinality({i \in DOMAIN graph[g] : graph[g][i] = h})])

-----------------------------------------------------------------------------
Init ==
  /\ prog \in Programs
  /\ graph     = BuildGraph
  /\ phase     = "search"
  /\ color     = [h \in Nodes |-> 0]
  /\ inDegree  = [h \in Nodes |-> Returns(h)]
  /\ worklist  = <<>>
  /\ subGraphs = <<>>
  /\ initialHandlers = <<>>
  /\ order         = <<>>
  /\ contextMap    = <<>>
  /\ contextTables = <<>>

(* The first handler of the map without a color starts a component.        *)
StartComponent ==
  /\ phase = "search" /\ worklist = <<>>
  /\ \E h \in Nodes :
       /\ color[h] = 0
       /\ \A g \in Nodes : g < h => color[g] # 0
       /\ worklist' = <<h>>
  /\ subGraphs' = Append(subGraphs, {})
  /\ initialHandlers' = Append(initialHandlers, <<>>)
  /\ UNCHANGED <<prog, graph, phase, color, inDegree, order, contextVars>>

(* A handler leaves the queue and gets its color only now, so that it may  *)
(* be in the queue several times.                                          *)
Unvisited(h) == SelectSeq(Undirected(h), LAMBDA g : color'[g] = 0)

(* curColor, numColors before it was incremented.                          *)
CurColor == Len(subGraphs)

VisitHandler ==
  /\ phase = "search" /\ worklist # <<>>
  /\ LET cur == Head(worklist)
         c   == Len(subGraphs)
     IN  /\ subGraphs' = [subGraphs EXCEPT ![c] = @ \cup {cur}]
         /\ initialHandlers' = [initialHandlers EXCEPT ![c] =
              IF inDegree[cur] = 0 THEN Append(@, cur) ELSE @]
         /\ color' = [color EXCEPT ![cur] = CurColor]
         /\ worklist' = Tail(worklist) \o Unvisited(cur)
  /\ UNCHANGED <<prog, graph, phase, inDegree, order, contextVars>>

SearchDone ==
  /\ phase = "search" /\ worklist = <<>>
  /\ \A h \in Nodes : color[h] # 0
  /\ phase' = "sort"
  /\ order' = [c \in DOMAIN subGraphs |-> <<>>]
  /\ UNCHANGED <<prog, graph, inDegree, searchVars, contextVars>>

(* The counts after cur has been listed, one off for every return.         *)
CountOffNothing(cur) == inDegree
CountOff(cur) ==
  [h \in Nodes |->
    inDegree[h] - Cardinality({i \in DOMAIN graph[cur] : graph[cur][i] = h})]

(* The targets whose count reaches zero, each once.                        *)
ReleasedEarly(cur) == graph[cur]
Released(cur) ==
  LET to == graph[cur]
      last == {i \in DOMAIN to :
                 Cardinality({j \in 1 .. i : to[j] = to[i]}) = inDegree[to[i]]}
  IN  [k \in 1 .. Cardinality(last) |->
         to[SetToSortSeq(last, LAMBDA a, b : a < b)[k]]]

SortHandler ==
  /\ phase = "sort"
  /\ \E c \in DOMAIN order :
       LET cur == Head(initialHandlers[c]) IN
       /\ initialHandlers[c] # <<>>
       /\ \A b \in 1 .. (c - 1) : initialHandlers[b] = <<>>
       /\ inDegree' = CountOff(cur)
       /\ order' = [order EXCEPT ![c] = Append(@, cur)]
       /\ initialHandlers' =
            [initialHandlers EXCEPT ![c] = Tail(@) \o Released(cur)]
  /\ UNCHANGED <<prog, graph, phase, color, worklist, subGraphs, contextVars>>

SortDone ==
  /\ phase = "sort"
  /\ \A c \in DOMAIN order : initialHandlers[c] = <<>>
  /\ phase' = "context"
  /\ UNCHANGED <<prog, graph, inDegree, searchVars, order, contextVars>>

(* One context reference: a new field gets the next position, a known one  *)
(* may get its type.                                                       *)
AddRefUntyped(table, ref) ==
  IF ref.field \in DOMAIN table THEN table
  ELSE [f \in DOMAIN table \cup {ref.field} |->
         IF f \in DOMAIN table THEN table[f]
         ELSE [pos |-> Cardinality(DOMAIN table), type |-> ref.type]]
AddRef(table, ref) ==
  IF ref.field \in DOMAIN table
  THEN [table EXCEPT ![ref.field].type = IF @ = AnyType THEN ref.type ELSE @]
  ELSE [f \in DOMAIN table \cup {ref.field} |->
         IF f \in DOMAIN table THEN table[f]
         ELSE [pos |-> Cardinality(DOMAIN table), type |-> ref.type]]

(* ContextBufferizationAnalysis for the next component.                    *)
BuildContext ==
  /\ phase = "context"
  /\ Len(contextTables) < Len(order)
  /\ LET c    == Len(contextTables) + 1
         refs == FlattenSeq([i \in DOMAIN order[c] |-> prog.refs[order[c][i]]])
         new  == ToSet(order[c]) \ DOMAIN contextMap
     IN  /\ contextTables' = Append(contextTables, FoldLeft(AddRef, <<>>, refs))
         /\ contextMap' = [h \in DOMAIN contextMap \cup new |->
                             IF h \in new THEN c ELSE contextMap[h]]
  /\ UNCHANGED <<prog, graph, phase, inDegree, searchVars, order>>

ContextDone ==
  /\ phase = "context"
  /\ Len(contextTables) = Len(order)
  /\ phase' = "done"
  /\ UNCHANGED <<prog, graph, inDegree, searchVars, order, contextVars>>

Next ==
  \/ StartComponent \/ VisitHandler \/ SearchDone
  \/ SortHandler \/ SortDone
  \/ BuildContext \/ ContextDone

Spec == Init /\ [][Next]_vars

-----------------------------------------------------------------------------
(* The program's graph has no directed cycle.                              *)
Acyclic ==
  \A S \in SUBSET Nodes :
    S # {} => \E n \in S : \A m \in S : <<m, n>> \notin Edges

(* Nor an undirected one: no two ways lead from one handler to another,    *)
(* two returns of one event in one handler being two ways.                 *)
Forest ==
  \A S \in SUBSET Nodes :
    S # {} => SumFunction([h \in S |-> Cardinality({i \in DOMAIN graph[h] : graph[h][i] \in S})])
                < Cardinality(S)

TopologicalSort(s, S) ==
  /\ ToSet(s) = S
  /\ IsInjective(s)
  /\ \A i, j \in DOMAIN s : <<s[i], s[j]>> \in Edges => i < j

(* The components are exact: every handler is in one of them and in no     *)
(* other, no return leads from one into another, and none is two           *)
(* components in one (getConnectedComponents).                             *)
ComponentsExact ==
  phase = "sort" =>
    /\ \A h \in Nodes : \E c \in DOMAIN subGraphs :
         h \in subGraphs[c] /\ \A d \in DOMAIN subGraphs \ {c} : h \notin subGraphs[d]
    /\ \A c \in DOMAIN subGraphs :
         {S \in SUBSET subGraphs[c] :
            \A e \in Edges : e[1] \in S <=> e[2] \in S} = {{}, subGraphs[c]}

(* Where no two ways lead from one handler to another, the order of a      *)
(* component is a topological sort of its handlers, although the search    *)
(* starts anywhere and goes against the returns too.                       *)
ForestSorted ==
  phase = "done" /\ Forest =>
    \A c \in DOMAIN subGraphs : TopologicalSort(order[c], subGraphs[c])

(* Every handler of an acyclic program is listed in its own component, so  *)
(* that getContextTable finds a table for it and the assertion in it       *)
(* ("Cannot find funcOp in context analysis") holds.                       *)
EveryHandlerHasContext ==
  phase = "done" /\ Acyclic =>
    \A h \in Nodes : h \in DOMAIN contextMap /\ contextMap[h] = color[h]

(* The producer and the consumer of an event use one context table, its    *)
(* positions are those of a struct without gaps, and a field has the type  *)
(* of some reference that knows it (ContextBufferizationAnalysis).         *)
ContextShared ==
  phase = "done" =>
    /\ \A e \in Edges : {e[1], e[2]} \subseteq DOMAIN contextMap =>
         contextMap[e[1]] = contextMap[e[2]]
    /\ \A c \in DOMAIN contextTables :
         /\ {contextTables[c][f].pos : f \in DOMAIN contextTables[c]}
              = 0 .. (Cardinality(DOMAIN contextTables[c]) - 1)
         /\ \A h \in ToSet(order[c]) : \A i \in DOMAIN prog.refs[h] :
              LET ref == prog.refs[h][i] IN
              /\ ref.field \in DOMAIN contextTables[c]
              /\ ref.type # AnyType => contextTables[c][ref.field].type # AnyType
=============================================================================
