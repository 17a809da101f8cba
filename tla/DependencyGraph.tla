-------------------------- MODULE DependencyGraph --------------------------
(***************************************************************************)
(* cyclic_graph_components of crates/eval: Kosaraju's algorithm over the   *)
(* reference graph of the vertices, in the order the evaluator uses it.    *)
(* A graph is a function from a vertex to the set of vertices its          *)
(* expressions refer to; vertices are numbers, visited in ascending order. *)
(***************************************************************************)
EXTENDS Naturals, Sequences, FiniteSets, SequencesExt

(* sorted_vertices *)
SortedVertices(vertices) == SetToSortSeq(vertices, <)

(* visit_dependency_order: a depth-first visit of todo in its order, that  *)
(* appends a vertex to order once all its neighbours are visited.  The     *)
(* visited vertices are those of order and the ancestors.                  *)
DependencyOrder(graph) ==
    LET V == DOMAIN graph
        Visit[order \in Seq(V), ancestors \in SUBSET V, todo \in Seq(V)] ==
            IF todo = <<>> THEN order
            ELSE IF Head(todo) \in ancestors \union Range(order)
            THEN Visit[order, ancestors, Tail(todo)]
            ELSE Visit[Append(Visit[order, ancestors \union {Head(todo)},
                                    SortedVertices(graph[Head(todo)])], Head(todo)),
                       ancestors, Tail(todo)]
    IN  Visit[<<>>, {}, SortedVertices(V)]

(* Mutated form: the graph is not reversed. *)
UnreversedGraph(graph) == graph

(* reverse_dependency_graph *)
ReverseDependencyGraph(graph) ==
    [v \in DOMAIN graph |-> {source \in DOMAIN graph : v \in graph[source]}]

IsCyclicComponent(component) == Cardinality(component) > 1

(* cyclic_graph_components: starting from the end of the order, a          *)
(* component is everything not yet visited that reaches the vertex         *)
(* (visit_dependency_component); a vertex that only refers to itself is    *)
(* not a cyclic one.                                                       *)
CyclicGraphComponents(graph) ==
    LET V == DOMAIN graph
        reverse == ReverseDependencyGraph(graph)
        Component[reached \in SUBSET V, visited \in SUBSET V] ==
            LET fresh == UNION {reverse[v] : v \in reached} \ (reached \union visited)
            IN  IF fresh = {} THEN reached ELSE Component[reached \union fresh, visited]
        Take[order \in Seq(V), visited \in SUBSET V] ==
            CASE order = <<>> -> <<>>
              [] order # <<>> /\ Last(order) \in visited -> Take[Front(order), visited]
              [] OTHER -> LET component == Component[{Last(order)}, visited]
                          IN  (IF IsCyclicComponent(component) THEN <<component>> ELSE <<>>)
                              \o Take[Front(order), visited \union component]
    IN  Take[DependencyOrder(graph), {}]

----------------------------------------------------------------------------
(* What the components are, by the references alone: v reaches what is in  *)
(* every set that contains v and all that its members refer to.            *)
Closed(graph, S) == \A v \in S : graph[v] \subseteq S

Reachable(graph, v) ==
    {w \in DOMAIN graph : \A S \in SUBSET DOMAIN graph : v \in S /\ Closed(graph, S) => w \in S}

SameCycle(graph, v) == {w \in Reachable(graph, v) : v \in Reachable(graph, w)}
=============================================================================
