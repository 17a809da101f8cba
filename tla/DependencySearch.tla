-------------------------- MODULE DependencySearch --------------------------
(***************************************************************************)
(* cyclic_graph_components of crates/eval step by step.  A first loop      *)
(* visits the graph depth first and notes each vertex when its visit ends  *)
(* (visit_dependency_order); a second one takes the vertices from the end  *)
(* of that order and collects all that is reached from each against the    *)
(* references (visit_dependency_component).  The recursive visits are a    *)
(* stack of frames: a vertex and the neighbors its loop has not come to.   *)
(***************************************************************************)
EXTENDS DependencyGraph, Stacks

CONSTANT Vertices    \* the VertexIds that collect_fixpoint_vertices finds

ASSUME VerticesAssumption == Vertices \subseteq Nat

VARIABLES
    graph,        \* the vertices each vertex refers to
    pass,         \* the loop that runs: "order", then "components", then "done"
    roots,        \* vertices the first loop has not come to
    visited,      \* vertices visited in this pass
    stack,        \* the frames of the visits in progress
    order,        \* the vertices whose visit has ended, less those taken from the end
    component,    \* what the component in progress has collected
    components    \* the cyclic components found

vars == <<graph, pass, roots, visited, stack, order, component, components>>

Frame(v, neighbors) == [vertex |-> v, neighbors |-> neighbors]

Init ==
    /\ graph \in [Vertices -> SUBSET Vertices]
    /\ pass = "order"
    /\ roots = Vertices
    /\ visited = {}
    /\ stack = <<>>
    /\ order = <<>>
    /\ component = {}
    /\ components = <<>>

Height == Len(stack)
Top == stack[Height]
Rest == SubSeq(stack, 1, Height - 1)

(* Mutated form: the last of them first. *)
ComesLast(v, set) == v \in set /\ \A w \in set : w <= v

(* sorted_vertices: the one that a loop comes to first. *)
ComesFirst(v, set) == v \in set /\ \A w \in set : v <= w

WithoutNeighbor(v) == [stack EXCEPT ![Height] = Frame(Top.vertex, Top.neighbors \ {v})]

(* A visit of v from the frames below: it ends at once if v was visited.   *)
Visit(v, edges, below) ==
    IF v \in visited
    THEN stack' = below /\ UNCHANGED visited
    ELSE stack' = Append(below, Frame(v, edges[v])) /\ visited' = visited \union {v}

----------------------------------------------------------------------------
VisitRoot ==
    /\ pass = "order"
    /\ stack = <<>>
    /\ \E v \in roots :
          /\ ComesFirst(v, roots)
          /\ roots' = roots \ {v}
          /\ Visit(v, graph, stack)
    /\ UNCHANGED <<graph, pass, order, component, components>>

VisitNeighbor ==
    /\ pass = "order"
    /\ stack # <<>>
    /\ \E v \in Top.neighbors :
          /\ ComesFirst(v, Top.neighbors)
          /\ Visit(v, graph, WithoutNeighbor(v))
    /\ UNCHANGED <<graph, pass, roots, order, component, components>>

EndVisit ==
    /\ pass = "order"
    /\ stack # <<>>
    /\ Top.neighbors = {}
    /\ order' = Append(order, Top.vertex)
    /\ stack' = Rest
    /\ UNCHANGED <<graph, pass, roots, visited, component, components>>

(* Mutated form: the marks of the first loop stay. *)
StillVisited == visited

NoneVisited == {}

(* visited.clear() between the loops. *)
EndOrder ==
    /\ pass = "order"
    /\ stack = <<>>
    /\ roots = {}
    /\ pass' = "components"
    /\ visited' = NoneVisited
    /\ UNCHANGED <<graph, roots, stack, order, component, components>>

Reversed == ReverseDependencyGraph(graph)

(* order.pop() *)
TakeVertex ==
    /\ pass = "components"
    /\ stack = <<>>
    /\ component = {}
    /\ order # <<>>
    /\ order' = SubSeq(order, 1, Len(order) - 1)
    /\ UNCHANGED <<graph, pass, roots, components>>

SkipVisited ==
    /\ TakeVertex
    /\ order[Len(order)] \in visited
    /\ UNCHANGED <<visited, stack, component>>

BeginComponent ==
    /\ TakeVertex
    /\ order[Len(order)] \notin visited
    /\ component' = {order[Len(order)]}
    /\ Visit(order[Len(order)], Reversed, stack)

CollectNeighbor ==
    /\ pass = "components"
    /\ stack # <<>>
    /\ \E v \in Top.neighbors :
          /\ ComesFirst(v, Top.neighbors)
          /\ component' = IF v \in visited THEN component ELSE component \union {v}
          /\ Visit(v, Reversed, WithoutNeighbor(v))
    /\ UNCHANGED <<graph, pass, roots, order, components>>

EndCollection ==
    /\ pass = "components"
    /\ stack # <<>>
    /\ Top.neighbors = {}
    /\ stack' = Rest
    /\ UNCHANGED <<graph, pass, roots, visited, order, component, components>>

(* The components that are not cyclic are filtered out. *)
EndComponent ==
    /\ pass = "components"
    /\ stack = <<>>
    /\ component # {}
    /\ components' = IF IsCyclicComponent(component) THEN Append(components, component) ELSE components
    /\ component' = {}
    /\ UNCHANGED <<graph, pass, roots, visited, stack, order>>

Return ==
    /\ pass = "components"
    /\ stack = <<>>
    /\ component = {}
    /\ order = <<>>
    /\ pass' = "done"
    /\ UNCHANGED <<graph, roots, visited, stack, order, component, components>>

Returned == pass = "done" /\ UNCHANGED vars

Next ==
    \/ VisitRoot \/ VisitNeighbor \/ EndVisit \/ EndOrder
    \/ SkipVisited \/ BeginComponent \/ CollectNeighbor \/ EndCollection \/ EndComponent
    \/ Return \/ Returned

Spec == Init /\ [][Next]_vars

----------------------------------------------------------------------------
(* The state of the search is about the vertices of the graph.             *)
IsFrame(frame) ==
    /\ frame = Frame(frame.vertex, frame.neighbors)
    /\ frame.vertex \in Vertices
    /\ frame.neighbors \subseteq Vertices

TypeOK ==
    /\ graph \in [Vertices -> SUBSET Vertices]
    /\ pass \in {"order", "components", "done"}
    /\ roots \subseteq Vertices
    /\ visited \subseteq Vertices
    /\ IsSequence(stack)
    /\ \A i \in 1 .. Height : IsFrame(stack[i])
    /\ order \in Seq(Vertices)
    /\ component \subseteq Vertices
    /\ components \in Seq(SUBSET Vertices)

(* A cyclic component is a class of two or more fields that all reach one  *)
(* another; every such class is found, once, and nothing else is           *)
(* (cyclic_graph_components).                                              *)
ComponentsAreCycles ==
    pass = "done" =>
        /\ {components[i] : i \in 1 .. Len(components)} =
               {cycle \in {SameCycle(graph, v) : v \in Vertices} : IsCyclicComponent(cycle)}
        /\ \A i, j \in 1 .. Len(components) : components[i] = components[j] => i = j

(* The evaluator solves the components in this order: one that refers to   *)
(* another, directly or not, always comes before it.                       *)
DependentsFirst ==
    pass = "done" =>
        \A i, j \in 1 .. Len(components) :
            i < j => \A v \in components[i], w \in components[j] : v \notin Reachable(graph, w)

(* The functions that the evaluator is run with give this very answer.     *)
AnswerOfFunctions ==
    pass = "done" => components = CyclicGraphComponents(graph)
=============================================================================
