-------------------------- MODULE DependencyProofs --------------------------
(***************************************************************************)
(* The search finds the cycles of every reference graph, and dependents    *)
(* first.  The first loop leaves an order in which each vertex has behind  *)
(* it, or is, one of its own cycle that is behind all it reaches           *)
(* (OrderInv); the second loop takes from the end, so that whatever it     *)
(* collects against the references is of one cycle (ComponentInv).         *)
(***************************************************************************)
EXTENDS DependencySearch, StackLemmas

(* The vertices of the visits in progress, and those of the order.         *)
Visiting == {stack[i].vertex : i \in 1 .. Height}
Ordered == {order[i] : i \in 1 .. Len(order)}

(* Every neighbor that a loop has passed was visited.                      *)
LoopsOK(edges) ==
    \A i \in 1 .. Height :
        /\ stack[i].neighbors \subseteq edges[stack[i].vertex]
        /\ edges[stack[i].vertex] \ stack[i].neighbors \subseteq visited

(* w stands in the order, and one of the cycle of v does not before it.    *)
FollowedByCycle(w, v) ==
    \E j, k \in 1 .. Len(order) : j <= k /\ order[j] = w /\ order[k] \in SameCycle(graph, v)

(* The first loop.  A vertex whose visit has ended is followed by its      *)
(* cycle behind all it reaches, or else its cycle is still being visited.  *)
OrderInv ==
    /\ visited = Visiting \union Ordered
    /\ Visiting \intersect Ordered = {}
    /\ \A i, j \in 1 .. Height : stack[i].vertex = stack[j].vertex => i = j
    /\ \A i, j \in 1 .. Height : i <= j => stack[j].vertex \in Reachable(graph, stack[i].vertex)
    /\ LoopsOK(graph)
    /\ \A v \in Ordered : graph[v] \subseteq visited
    /\ \A v \in Ordered : SameCycle(graph, v) \intersect Visiting = {} =>
           \A w \in Reachable(graph, v) : FollowedByCycle(w, v)
    /\ Vertices \ roots \subseteq visited
    /\ component = {}
    /\ components = <<>>

Distinct == \A i, j \in 1 .. Len(order) : order[i] = order[j] => i = j

(* The second loop: the vertices of finished components, and with them     *)
(* those of the cycle that is being collected.                             *)
Settled == visited \ component
Taken == Settled \union {v \in Vertices : \E c \in component : v \in SameCycle(graph, c)}

SettledOK ==
    /\ \A v \in Vertices : \A w \in Reachable(graph, v) : w \in Settled => v \in Settled
    /\ Vertices \ visited \subseteq Ordered
    /\ \A v \in Ordered \ Taken : \A w \in Reachable(graph, v) \ Taken : FollowedByCycle(w, v)

CollectionOK ==
    /\ component \subseteq visited
    /\ \A c, d \in component : d \in SameCycle(graph, c)
    /\ \A c \in component : \A v \in Vertices \ Settled : c \in Reachable(graph, v) => v \in SameCycle(graph, c)
    /\ Visiting \subseteq component
    /\ LoopsOK(Reversed)
    /\ \A c \in component \ Visiting : Reversed[c] \subseteq visited

FoundOK ==
    /\ {components[i] : i \in 1 .. Len(components)} =
           {cycle \in {SameCycle(graph, v) : v \in Settled} : IsCyclicComponent(cycle)}
    /\ \A i, j \in 1 .. Len(components) : components[i] = components[j] => i = j
    /\ \A i, j \in 1 .. Len(components) :
           i < j => \A v \in components[i], w \in components[j] : v \notin Reachable(graph, w)

ComponentInv == SettledOK /\ CollectionOK /\ FoundOK

SearchInv ==
    /\ TypeOK
    /\ Distinct
    /\ pass = "order" => OrderInv
    /\ pass # "order" => ComponentInv
    /\ pass = "done" => visited = Vertices /\ component = {}

----------------------------------------------------------------------------
(* Reachability.                                                           *)

GraphOK == graph \in [Vertices -> SUBSET Vertices]

LEMMA ReachesItself ==
    ASSUME GraphOK, NEW v \in Vertices
    PROVE  v \in Reachable(graph, v)
BY DEF Reachable, GraphOK

LEMMA ReachesNeighbors ==
    ASSUME GraphOK, NEW v \in Vertices, NEW w \in graph[v]
    PROVE  w \in Reachable(graph, v)
BY DEF Reachable, Closed, GraphOK

LEMMA ReachesOn ==
    ASSUME NEW u, NEW v, NEW w, v \in Reachable(graph, u), w \in Reachable(graph, v)
    PROVE  w \in Reachable(graph, u)
BY DEF Reachable, GraphOK

LEMMA ReachesWithin ==
    ASSUME GraphOK, NEW S \in SUBSET Vertices, Closed(graph, S), NEW v \in S
    PROVE  Reachable(graph, v) \subseteq S
BY DEF Reachable, GraphOK

LEMMA ReachableVertices ==
    ASSUME GraphOK, NEW v
    PROVE  Reachable(graph, v) \subseteq Vertices /\ SameCycle(graph, v) \subseteq Vertices
BY DEF Reachable, SameCycle, GraphOK

LEMMA CycleReflexive ==
    ASSUME GraphOK, NEW v \in Vertices
    PROVE  v \in SameCycle(graph, v)
BY ReachesItself DEF SameCycle

LEMMA CycleSymmetric ==
    ASSUME GraphOK, NEW v \in Vertices, NEW w \in SameCycle(graph, v)
    PROVE  v \in SameCycle(graph, w)
BY ReachableVertices DEF SameCycle, Reachable, GraphOK

LEMMA CycleTransitive ==
    ASSUME NEW u, NEW v, NEW w, v \in SameCycle(graph, u), w \in SameCycle(graph, v)
    PROVE  w \in SameCycle(graph, u)
BY ReachesOn DEF SameCycle

LEMMA CycleEqual ==
    ASSUME GraphOK, NEW v \in Vertices, NEW w \in SameCycle(graph, v)
    PROVE  SameCycle(graph, w) = SameCycle(graph, v)
BY CycleSymmetric, CycleTransitive

LEMMA GraphKept ==
    ASSUME UNCHANGED graph
    PROVE  /\ \A v : Reachable(graph', v) = Reachable(graph, v)
           /\ \A v : SameCycle(graph', v) = SameCycle(graph, v)
           /\ Reversed' = Reversed
BY DEF Reversed

LEMMA ReversedEdges ==
    ASSUME GraphOK
    PROVE  /\ Reversed \in [Vertices -> SUBSET Vertices]
           /\ \A v \in Vertices : Reversed[v] = {w \in Vertices : v \in graph[w]}
BY DEF Reversed, ReverseDependencyGraph, GraphOK

----------------------------------------------------------------------------
(* Visits.                                                                 *)

(* below is the stack after v was taken from the neighbors of its frames.  *)
Passed(below, v) ==
    /\ IsSequence(below)
    /\ Len(below) = Height
    /\ \A i \in 1 .. Height :
           /\ below[i] = Frame(stack[i].vertex, below[i].neighbors)
           /\ below[i].neighbors \subseteq stack[i].neighbors
           /\ stack[i].neighbors \subseteq below[i].neighbors \union {v}

LEMMA NothingPassed ==
    ASSUME TypeOK, NEW v
    PROVE  Passed(stack, v)
BY DEF Passed, TypeOK, IsFrame, Height

LEMMA TopFrame ==
    ASSUME TypeOK, stack # <<>>
    PROVE  Height \in Nat /\ Height > 0 /\ Height \in 1 .. Height /\ IsFrame(Top)
<1>1. Height \in Nat /\ Height # 0
  BY EmptyStack DEF TypeOK, IsSequence, Height
<1>2. Height \in 1 .. Height
  BY <1>1
<1> QED
  BY <1>1, <1>2 DEF TypeOK, Top

LEMMA NeighborPassed ==
    ASSUME TypeOK, stack # <<>>, NEW v
    PROVE  Passed(WithoutNeighbor(v), v)
<1>1. Height \in Nat /\ Height > 0 /\ IsFrame(Top)
  BY TopFrame
<1> DEFINE frame == Frame(Top.vertex, Top.neighbors \ {v})
           below == WithoutNeighbor(v)
<1>2. /\ IsSequence(below)
      /\ Len(below) = Height
      /\ \A i \in 1 .. Height : below[i] = IF i = Height THEN frame ELSE stack[i]
  <2> HIDE DEF frame
  <2>1. IsSequence(stack) /\ Len(stack) > 0
    BY <1>1 DEF TypeOK, Height
  <2> QED
    BY <2>1, ReplaceFrame DEF WithoutNeighbor, Height, frame
<1>3. /\ frame.vertex = Top.vertex
      /\ frame.neighbors = Top.neighbors \ {v}
      /\ frame = Frame(frame.vertex, frame.neighbors)
  BY DEF Frame
<1>4. \A i \in 1 .. Height : stack[i] = Frame(stack[i].vertex, stack[i].neighbors)
  BY DEF TypeOK, IsFrame
<1> HIDE DEF frame, below
<1>5. ASSUME NEW i \in 1 .. Height
      PROVE  /\ below[i] = Frame(stack[i].vertex, below[i].neighbors)
             /\ below[i].neighbors \subseteq stack[i].neighbors
             /\ stack[i].neighbors \subseteq below[i].neighbors \union {v}
  <2>1. CASE i = Height
    BY <1>2, <1>3, <2>1 DEF Top
  <2>2. CASE i # Height
    BY <1>2, <1>4, <2>2
  <2> QED
    BY <2>1, <2>2
<1>6. IsSequence(WithoutNeighbor(v)) /\ Len(WithoutNeighbor(v)) = Height
  BY <1>2 DEF below
<1> QED
  BY <1>5, <1>6 DEF Passed, below

(* A vertex that was visited leaves only the frames below; any other one   *)
(* gets a frame of its own.                                                *)
LEMMA VisitSeen ==
    ASSUME TypeOK, NEW v, NEW edges, NEW below, Passed(below, v), Visit(v, edges, below), v \in visited
    PROVE  /\ visited' = visited
           /\ IsSequence(stack)'
           /\ Height' = Height
           /\ \A i \in 1 .. Height :
                  /\ stack'[i] = Frame(stack[i].vertex, stack'[i].neighbors)
                  /\ stack'[i].vertex = stack[i].vertex
                  /\ stack'[i].neighbors \subseteq stack[i].neighbors
                  /\ stack[i].neighbors \subseteq stack'[i].neighbors \union {v}
           /\ Visiting' = Visiting
<1>1. stack' = below /\ visited' = visited
  BY DEF Visit
<1>2. \A i \in 1 .. Height : below[i].vertex = stack[i].vertex
  BY DEF Passed, Frame
<1>3. Height' = Height
  BY <1>1 DEF Passed, Height
<1>4. Visiting' = Visiting
  BY <1>1, <1>2, <1>3 DEF Visiting
<1> QED
  BY <1>1, <1>2, <1>3, <1>4 DEF Passed

LEMMA VisitNew ==
    ASSUME TypeOK, NEW v, NEW edges, NEW below, Passed(below, v), Visit(v, edges, below), v \notin visited
    PROVE  /\ visited' = visited \union {v}
           /\ IsSequence(stack)'
           /\ Height \in Nat
           /\ Height' = Height + 1
           /\ \A i \in 1 .. Height :
                  /\ stack'[i] = Frame(stack[i].vertex, stack'[i].neighbors)
                  /\ stack'[i].vertex = stack[i].vertex
                  /\ stack'[i].neighbors \subseteq stack[i].neighbors
                  /\ stack[i].neighbors \subseteq stack'[i].neighbors \union {v}
           /\ stack'[Height'] = Frame(v, edges[v])
           /\ stack'[Height'].vertex = v
           /\ stack'[Height'].neighbors = edges[v]
           /\ Visiting' = Visiting \union {v}
<1> DEFINE frame == Frame(v, edges[v])
<1>1. stack' = Append(below, frame) /\ visited' = visited \union {v}
  BY DEF Visit
<1>2. \A i \in 1 .. Height : below[i].vertex = stack[i].vertex
  BY DEF Passed, Frame
<1>3. frame.vertex = v /\ frame.neighbors = edges[v]
  BY DEF Frame
<1> HIDE DEF frame
<1>4. /\ IsSequence(Append(below, frame))
      /\ Len(Append(below, frame)) = Height + 1
      /\ \A i \in 1 .. Height : Append(below, frame)[i] = below[i]
      /\ Append(below, frame)[Height + 1] = frame
  BY PushFrame DEF Passed
<1>5. Height \in Nat
  BY DEF TypeOK, IsSequence, Height
<1>6. IsSequence(stack)' /\ Height' = Height + 1
  BY <1>1, <1>4 DEF Height
<1>7. stack'[Height'] = frame /\ \A i \in 1 .. Height : stack'[i] = below[i]
  BY <1>1, <1>4, <1>6
<1>8. Visiting' = Visiting \union {v}
  <2>1. \A i \in 1 .. Height + 1 : i \in 1 .. Height \/ i = Height + 1
    BY <1>5
  <2>2. \A i \in 1 .. Height : i \in 1 .. Height + 1
    BY <1>5
  <2>3. Height + 1 \in 1 .. Height + 1
    BY <1>5
  <2> QED
    BY <1>2, <1>3, <1>6, <1>7, <2>1, <2>2, <2>3 DEF Visiting
<1>9. \A i \in 1 .. Height :
          /\ stack'[i] = Frame(stack[i].vertex, stack'[i].neighbors)
          /\ stack'[i].vertex = stack[i].vertex
          /\ stack'[i].neighbors \subseteq stack[i].neighbors
          /\ stack[i].neighbors \subseteq stack'[i].neighbors \union {v}
  BY <1>2, <1>7 DEF Passed
<1> QED
  BY <1>1, <1>3, <1>5, <1>6, <1>7, <1>8, <1>9 DEF frame

(* A frame is left.                                                        *)
LEMMA VisitLeft ==
    ASSUME TypeOK, stack # <<>>, stack' = Rest
    PROVE  /\ IsSequence(stack)'
           /\ Height \in Nat /\ Height > 0
           /\ Height' = Height - 1
           /\ \A i \in 1 .. Height - 1 : stack'[i] = stack[i]
           /\ Visiting = Visiting' \union {Top.vertex}
<1>1. Height \in Nat /\ Height > 0
  BY TopFrame
<1>2. /\ IsSequence(Rest)
      /\ Len(Rest) = Height - 1
      /\ \A i \in 1 .. Height - 1 : Rest[i] = stack[i]
  BY <1>1, DropFrame DEF TypeOK, Height, Rest
<1>3. IsSequence(stack)' /\ Height' = Height - 1
  BY <1>2 DEF Height
<1>4. \A i \in 1 .. Height - 1 : stack'[i] = stack[i]
  BY <1>2
<1>5. \A i \in 1 .. Height : i \in 1 .. Height - 1 \/ i = Height
  BY <1>1
<1>6. \A i \in 1 .. Height - 1 : i \in 1 .. Height
  BY <1>1
<1>7. Height \in 1 .. Height
  BY <1>1
<1>8. Visiting = Visiting' \union {Top.vertex}
  BY <1>3, <1>4, <1>5, <1>6, <1>7 DEF Visiting, Top
<1> QED
  BY <1>1, <1>3, <1>4, <1>8

LEMMA EmptyVisits ==
    ASSUME TypeOK, stack = <<>>
    PROVE  Height = 0 /\ Visiting = {}
<1>1. Height = 0
  BY EmptyStack DEF TypeOK, Height
<1> QED
  BY <1>1 DEF Visiting

----------------------------------------------------------------------------
(* Types.                                                                  *)

LEMMA VisitTypes ==
    ASSUME TypeOK, NEW v \in Vertices, NEW edges \in [Vertices -> SUBSET Vertices],
           NEW below, Passed(below, v), Visit(v, edges, below)
    PROVE  visited' \subseteq Vertices /\ IsSequence(stack)' /\ \A i \in 1 .. Height' : IsFrame(stack'[i])
<1>1. \A i \in 1 .. Height :
          /\ stack[i].vertex \in Vertices /\ stack[i].neighbors \subseteq Vertices
          /\ visited \subseteq Vertices
  BY DEF TypeOK, IsFrame
<1>2. CASE v \in visited
  <2>1. /\ visited' = visited /\ IsSequence(stack)' /\ Height' = Height
        /\ \A i \in 1 .. Height :
               /\ stack'[i] = Frame(stack[i].vertex, stack'[i].neighbors)
               /\ stack'[i].vertex = stack[i].vertex
               /\ stack'[i].neighbors \subseteq stack[i].neighbors
    BY <1>2, VisitSeen
  <2>2. \A i \in 1 .. Height' : IsFrame(stack'[i])
    BY <1>1, <2>1 DEF IsFrame
  <2> QED
    BY <2>1, <2>2 DEF TypeOK
<1>3. CASE v \notin visited
  <2>1. /\ visited' = visited \union {v} /\ IsSequence(stack)' /\ Height \in Nat /\ Height' = Height + 1
        /\ \A i \in 1 .. Height :
               /\ stack'[i] = Frame(stack[i].vertex, stack'[i].neighbors)
               /\ stack'[i].vertex = stack[i].vertex
               /\ stack'[i].neighbors \subseteq stack[i].neighbors
        /\ stack'[Height'] = Frame(v, edges[v])
        /\ stack'[Height'].vertex = v
        /\ stack'[Height'].neighbors = edges[v]
    BY <1>3, VisitNew
  <2>2. \A i \in 1 .. Height : IsFrame(stack'[i])
    BY <1>1, <2>1 DEF IsFrame
  <2>3. IsFrame(stack'[Height'])
    BY <2>1 DEF IsFrame
  <2>4. \A i \in 1 .. Height' : i \in 1 .. Height \/ i = Height'
    BY <2>1
  <2> QED
    BY <2>1, <2>2, <2>3, <2>4 DEF TypeOK
<1> QED
  BY <1>2, <1>3

LEMMA LastOrdered ==
    ASSUME TypeOK, order # <<>>
    PROVE  LET n == Len(order)
               rest == SubSeq(order, 1, n - 1)
           IN  /\ n \in Nat /\ n > 0
               /\ order[n] \in Vertices
               /\ rest \in Seq(Vertices)
               /\ Len(rest) = n - 1
               /\ \A i \in 1 .. n - 1 : rest[i] = order[i]
<1> DEFINE n == Len(order)
<1>1. order \in Seq(Vertices)
  BY DEF TypeOK
<1>2. n \in Nat /\ n # 0
  BY <1>1, EmptySeq
<1>3. order[n] \in Vertices
  BY <1>1, <1>2
<1>4. IsSequence(order)
  BY <1>1, SeqIsSequence
<1>5. /\ Len(SubSeq(order, 1, n - 1)) = n - 1
      /\ \A i \in 1 .. n - 1 : SubSeq(order, 1, n - 1)[i] = order[i]
  BY <1>2, <1>4, DropFrame
<1>6. SubSeq(order, 1, n - 1) \in Seq(Vertices)
  <2>1. \A i \in 1 .. n - 1 : order[i] \in Vertices
    BY <1>1, <1>2
  <2> QED
    BY <1>1, <1>2, <1>4, <1>5, <2>1, SequenceIsSeq, DropFrame
<1> QED
  BY <1>2, <1>3, <1>5, <1>6

LEMMA TypeInit == Init => TypeOK
<1> SUFFICES ASSUME Init PROVE TypeOK
  OBVIOUS
<1>1. IsSequence(stack) /\ Height = 0
  <2>1. stack = <<>> /\ stack \in Seq(Vertices)
    BY DEF Init
  <2> QED
    BY <2>1, SeqIsSequence DEF Height
<1>2. order \in Seq(Vertices) /\ components \in Seq(SUBSET Vertices)
  BY DEF Init
<1> QED
  BY <1>1, <1>2 DEF Init, TypeOK

LEMMA TypeStep == TypeOK /\ [Next]_vars => TypeOK'
<1> SUFFICES ASSUME TypeOK, [Next]_vars PROVE TypeOK'
  OBVIOUS
<1> DEFINE StackTyped == IsSequence(stack) /\ \A i \in 1 .. Height : IsFrame(stack[i])
<1>1. GraphOK /\ graph \in [Vertices -> SUBSET Vertices] /\ Reversed \in [Vertices -> SUBSET Vertices]
  BY ReversedEdges DEF TypeOK, GraphOK
<1>2. stack = stack' => StackTyped'
  BY DEF TypeOK, Height, IsFrame
<1>3. CASE VisitRoot
  <2>1. PICK v \in roots : roots' = roots \ {v} /\ Visit(v, graph, stack)
    BY <1>3 DEF VisitRoot, ComesFirst
  <2>2. visited' \subseteq Vertices /\ StackTyped'
    BY <1>1, <2>1, NothingPassed, VisitTypes DEF TypeOK
  <2> QED
    BY <1>3, <2>1, <2>2 DEF VisitRoot, TypeOK
<1>4. CASE VisitNeighbor
  <2>1. PICK v \in Top.neighbors : Visit(v, graph, WithoutNeighbor(v))
    BY <1>4 DEF VisitNeighbor, ComesFirst
  <2>2. v \in Vertices
    BY <1>4, <2>1, TopFrame DEF VisitNeighbor, IsFrame
  <2>3. Passed(WithoutNeighbor(v), v)
    BY <1>4, NeighborPassed DEF VisitNeighbor
  <2>4. visited' \subseteq Vertices /\ StackTyped'
    BY <1>1, <2>1, <2>2, <2>3, VisitTypes
  <2> QED
    BY <1>4, <2>4 DEF VisitNeighbor, TypeOK
<1>5. ASSUME stack # <<>>, stack' = Rest
      PROVE  StackTyped'
  <2>1. /\ IsSequence(stack)' /\ Height \in Nat /\ Height' = Height - 1
        /\ \A i \in 1 .. Height - 1 : stack'[i] = stack[i]
    BY <1>5, VisitLeft
  <2>2. \A i \in 1 .. Height' : i \in 1 .. Height
    BY <2>1
  <2> QED
    BY <2>1, <2>2 DEF TypeOK, IsFrame
<1>6. CASE EndVisit
  <2>1. StackTyped'
    BY <1>5, <1>6 DEF EndVisit
  <2>2. Top.vertex \in Vertices
    BY <1>6, TopFrame DEF EndVisit, IsFrame
  <2>3. order' \in Seq(Vertices)
    BY <1>6, <2>2 DEF EndVisit, TypeOK
  <2> QED
    BY <1>6, <2>1, <2>3 DEF EndVisit, TypeOK
<1>7. CASE EndOrder
  BY <1>2, <1>7 DEF EndOrder, NoneVisited, TypeOK
<1>8. CASE SkipVisited
  <2>1. order' \in Seq(Vertices)
    BY <1>8, LastOrdered DEF SkipVisited, TakeVertex
  <2> QED
    BY <1>2, <1>8, <2>1 DEF SkipVisited, TakeVertex, TypeOK
<1>9. CASE BeginComponent
  <2> DEFINE r == order[Len(order)]
  <2>1. order' \in Seq(Vertices) /\ r \in Vertices
    BY <1>9, LastOrdered DEF BeginComponent, TakeVertex
  <2>2. Visit(r, Reversed, stack)
    BY <1>9 DEF BeginComponent
  <2>3. visited' \subseteq Vertices /\ StackTyped'
    <3> HIDE DEF r
    <3> QED
      BY <1>1, <2>1, <2>2, NothingPassed, VisitTypes
  <2> QED
    BY <1>9, <2>1, <2>3 DEF BeginComponent, TakeVertex, TypeOK
<1>10. CASE CollectNeighbor
  <2>1. PICK v \in Top.neighbors :
            /\ Visit(v, Reversed, WithoutNeighbor(v))
            /\ component' = IF v \in visited THEN component ELSE component \union {v}
    BY <1>10 DEF CollectNeighbor, ComesFirst
  <2>2. v \in Vertices
    BY <1>10, <2>1, TopFrame DEF CollectNeighbor, IsFrame
  <2>3. Passed(WithoutNeighbor(v), v)
    BY <1>10, NeighborPassed DEF CollectNeighbor
  <2>4. visited' \subseteq Vertices /\ StackTyped'
    BY <1>1, <2>1, <2>2, <2>3, VisitTypes
  <2> QED
    BY <1>10, <2>1, <2>2, <2>4 DEF CollectNeighbor, TypeOK
<1>11. CASE EndCollection
  BY <1>5, <1>11 DEF EndCollection, TypeOK
<1>12. CASE EndComponent
  BY <1>2, <1>12 DEF EndComponent, TypeOK
<1>13. CASE Return
  BY <1>2, <1>13 DEF Return, TypeOK
<1>14. CASE UNCHANGED vars
  BY <1>2, <1>14 DEF vars, TypeOK
<1> QED
  BY <1>3, <1>4, <1>6, <1>7, <1>8, <1>9, <1>10, <1>11, <1>12, <1>13, <1>14 DEF Next, Returned

(* The state of the search is about the vertices of the graph (Spec of     *)
(* DependencySearch).                                                      *)
THEOREM SearchTypeCorrect == Spec => []TypeOK
<1> QED
  BY TypeInit, TypeStep, PTL DEF Spec

----------------------------------------------------------------------------
(* The first loop.                                                         *)

LEMMA OrderKept ==
    ASSUME UNCHANGED <<graph, order>>
    PROVE  /\ Ordered' = Ordered
           /\ \A v, w : FollowedByCycle(w, v)' <=> FollowedByCycle(w, v)
BY GraphKept DEF Ordered, FollowedByCycle

(* A visit of v, from the loop over the roots or from a frame that reaches v. *)
LEMMA OrderVisit ==
    ASSUME TypeOK, OrderInv, NEW v \in Vertices, NEW below, Passed(below, v), Visit(v, graph, below),
           \A i \in 1 .. Height : v \in Reachable(graph, stack[i].vertex),
           Vertices \ roots' \subseteq visited \union {v},
           UNCHANGED <<graph, order, component, components>>
    PROVE  OrderInv'
<1> USE DEF OrderInv
<1> GraphOK
  BY DEF TypeOK, GraphOK
<1>1. /\ Ordered' = Ordered
      /\ \A x, w : FollowedByCycle(w, x)' <=> FollowedByCycle(w, x)
      /\ \A x : Reachable(graph', x) = Reachable(graph, x) /\ SameCycle(graph', x) = SameCycle(graph, x)
  BY OrderKept, GraphKept
<1>2. CASE v \in visited
  <2>1. /\ visited' = visited /\ Height' = Height /\ Visiting' = Visiting
        /\ \A i \in 1 .. Height :
               /\ stack'[i].vertex = stack[i].vertex
               /\ stack'[i].neighbors \subseteq stack[i].neighbors
               /\ stack[i].neighbors \subseteq stack'[i].neighbors \union {v}
    BY <1>2, VisitSeen
  <2>2. LoopsOK(graph)'
    BY <1>2, <2>1 DEF LoopsOK
  <2>3. \A x \in Ordered' : graph'[x] \subseteq visited'
    BY <1>1, <2>1
  <2>4. \A x \in Ordered' : SameCycle(graph', x) \intersect Visiting' = {} =>
            \A w \in Reachable(graph', x) : FollowedByCycle(w, x)'
    BY <1>1, <2>1
  <2>5. \A i, j \in 1 .. Height' : i <= j => stack'[j].vertex \in Reachable(graph', stack'[i].vertex)
    BY <1>1, <2>1
  <2>6. \A i, j \in 1 .. Height' : stack'[i].vertex = stack'[j].vertex => i = j
    BY <2>1
  <2>7. Vertices \ roots' \subseteq visited'
    BY <1>2, <2>1
  <2> QED
    BY <1>1, <2>1, <2>2, <2>3, <2>4, <2>5, <2>6, <2>7
<1>3. CASE v \notin visited
  <2>1. /\ visited' = visited \union {v} /\ Visiting' = Visiting \union {v}
        /\ Height \in Nat /\ Height' = Height + 1
        /\ \A i \in 1 .. Height :
               /\ stack'[i].vertex = stack[i].vertex
               /\ stack'[i].neighbors \subseteq stack[i].neighbors
               /\ stack[i].neighbors \subseteq stack'[i].neighbors \union {v}
        /\ stack'[Height'].vertex = v
        /\ stack'[Height'].neighbors = graph[v]
    BY <1>3, VisitNew
  <2>2. \A i \in 1 .. Height' : i \in 1 .. Height \/ i = Height'
    BY <2>1
  <2>3. \A i \in 1 .. Height : i # Height' /\ i < Height'
    BY <2>1
  <2>4. \A i \in 1 .. Height : stack[i].vertex \in visited
    BY DEF Visiting
  <2>5. LoopsOK(graph)'
    BY <2>1, <2>2 DEF LoopsOK
  <2>6. \A x \in Ordered' : graph'[x] \subseteq visited'
    BY <1>1, <2>1
  <2>7. \A x \in Ordered' : SameCycle(graph', x) \intersect Visiting' = {} =>
            \A w \in Reachable(graph', x) : FollowedByCycle(w, x)'
    BY <1>1, <2>1
  <2>8. ASSUME NEW i \in 1 .. Height', NEW j \in 1 .. Height', i <= j
        PROVE  stack'[j].vertex \in Reachable(graph', stack'[i].vertex)
    <3>1. CASE j \in 1 .. Height
      <4>1. i \in 1 .. Height
        BY <2>1, <2>8, <3>1
      <4> QED
        BY <1>1, <2>1, <2>8, <3>1, <4>1
    <3>2. CASE j = Height' /\ i \in 1 .. Height
      BY <1>1, <2>1, <3>2
    <3>3. CASE j = Height' /\ i = Height'
      BY <1>1, <2>1, <3>3, ReachesItself
    <3> QED
      BY <2>2, <3>1, <3>2, <3>3
  <2>9. \A i, j \in 1 .. Height' : stack'[i].vertex = stack'[j].vertex => i = j
    BY <1>3, <2>1, <2>2, <2>4
  <2>10. Vertices \ roots' \subseteq visited'
    BY <2>1
  <2>11. visited' = Visiting' \union Ordered' /\ Visiting' \intersect Ordered' = {}
    BY <1>1, <1>3, <2>1
  <2> QED
    BY <2>5, <2>6, <2>7, <2>8, <2>9, <2>10, <2>11
<1> QED
  BY <1>2, <1>3

LEMMA OrderAppended ==
    ASSUME TypeOK, NEW t \in Vertices, order' = Append(order, t), UNCHANGED graph
    PROVE  /\ Len(order) \in Nat
           /\ Len(order') = Len(order) + 1
           /\ \A i \in 1 .. Len(order) : order'[i] = order[i]
           /\ order'[Len(order')] = t
           /\ Ordered' = Ordered \union {t}
           /\ \A v, w : FollowedByCycle(w, v) => FollowedByCycle(w, v)'
<1>1. IsSequence(order)
  BY SeqIsSequence DEF TypeOK
<1>2. /\ Len(order) \in Nat
      /\ Len(order') = Len(order) + 1
      /\ \A i \in 1 .. Len(order) : order'[i] = order[i]
      /\ order'[Len(order')] = t
  BY <1>1, PushFrame DEF IsSequence
<1>3. \A i \in 1 .. Len(order') : i \in 1 .. Len(order) \/ i = Len(order')
  BY <1>2
<1>4. \A i \in 1 .. Len(order) : i \in 1 .. Len(order')
  BY <1>2
<1>5. Len(order') \in 1 .. Len(order')
  BY <1>2
<1>6. Ordered' = Ordered \union {t}
  BY <1>2, <1>3, <1>4, <1>5 DEF Ordered
<1>7. ASSUME NEW v, NEW w, FollowedByCycle(w, v)
      PROVE  FollowedByCycle(w, v)'
  <2>1. PICK j \in 1 .. Len(order), k \in 1 .. Len(order) :
            j <= k /\ order[j] = w /\ order[k] \in SameCycle(graph, v)
    BY <1>7 DEF FollowedByCycle
  <2>2. j \in 1 .. Len(order') /\ k \in 1 .. Len(order') /\ order'[j] = w /\ order'[k] \in SameCycle(graph', v)
    BY <1>2, <1>4, <2>1, GraphKept
  <2> QED
    BY <2>1, <2>2 DEF FollowedByCycle
<1> QED
  BY <1>2, <1>6, <1>7

(* When a visit ends, either a visit of the same cycle is still in         *)
(* progress, or everything its vertex reaches is in the order.             *)
LEMMA OrderLeave ==
    ASSUME TypeOK, OrderInv, EndVisit
    PROVE  OrderInv'
<1> USE DEF OrderInv
<1> GraphOK
  BY DEF TypeOK, GraphOK
<1> DEFINE t == Top.vertex
<1>1. stack # <<>> /\ Top.neighbors = {} /\ stack' = Rest /\ order' = Append(order, t)
  BY DEF EndVisit
<1>2. UNCHANGED <<graph, roots, visited, component, components>>
  BY DEF EndVisit
<1>3. t \in Vertices /\ Height \in 1 .. Height
  BY <1>1, TopFrame DEF IsFrame
<1>4. /\ Height \in Nat /\ Height > 0
      /\ Height' = Height - 1
      /\ \A i \in 1 .. Height - 1 : stack'[i] = stack[i]
      /\ Visiting = Visiting' \union {t}
  BY <1>1, VisitLeft
<1>5. /\ Len(order) \in Nat
      /\ Len(order') = Len(order) + 1
      /\ \A i \in 1 .. Len(order) : order'[i] = order[i]
      /\ order'[Len(order')] = t
      /\ Ordered' = Ordered \union {t}
      /\ \A v, w : FollowedByCycle(w, v) => FollowedByCycle(w, v)'
  BY <1>1, <1>2, <1>3, OrderAppended
<1>6. \A x : Reachable(graph', x) = Reachable(graph, x) /\ SameCycle(graph', x) = SameCycle(graph, x)
  BY <1>2, GraphKept
<1>7. \A i \in 1 .. Height' : i \in 1 .. Height /\ i # Height /\ i <= Height
  BY <1>4
<1>8. stack[Height].vertex = t /\ stack[Height].neighbors = {}
  BY <1>1 DEF Top
<1>9. Visiting' \intersect Ordered' = {}
  <2>1. t \notin Visiting'
    <3>1. \A i \in 1 .. Height' : stack[i].vertex # stack[Height].vertex
      BY <1>3, <1>7
    <3> QED
      BY <1>4, <1>7, <1>8, <3>1 DEF Visiting
  <2> QED
    BY <1>4, <1>5, <2>1
<1>10. visited' = Visiting' \union Ordered'
  BY <1>2, <1>4, <1>5
<1>11. \A i, j \in 1 .. Height' : stack'[i].vertex = stack'[j].vertex => i = j
  BY <1>4, <1>7
<1>12. \A i, j \in 1 .. Height' : i <= j => stack'[j].vertex \in Reachable(graph', stack'[i].vertex)
  BY <1>4, <1>6, <1>7
<1>13. LoopsOK(graph)'
  BY <1>2, <1>4, <1>7 DEF LoopsOK
<1>14. graph[t] \subseteq visited
  BY <1>3, <1>8 DEF LoopsOK
<1>15. \A v \in Ordered' : graph'[v] \subseteq visited'
  BY <1>2, <1>5, <1>14
<1>16. \A v \in Visiting' : t \in Reachable(graph, v)
  <2>1. \A i \in 1 .. Height' : t \in Reachable(graph, stack[i].vertex)
    BY <1>3, <1>7, <1>8
  <2> QED
    BY <1>4, <2>1 DEF Visiting
<1>17. ASSUME SameCycle(graph, t) \intersect Visiting' = {}
       PROVE  Reachable(graph, t) \subseteq Ordered'
  <2> DEFINE S == {v \in Ordered' : v \in Reachable(graph, t)}
  <2>1. \A v \in Visiting' : v \notin Reachable(graph, t)
    BY <1>16, <1>17 DEF SameCycle
  <2>2. S \subseteq Vertices
    BY ReachableVertices
  <2>3. ASSUME NEW v \in S
        PROVE  graph[v] \subseteq S
    <3>1. graph[v] \subseteq visited'
      BY <1>2, <1>15, <2>3
    <3>2. graph[v] \subseteq Reachable(graph, t)
      BY <2>2, ReachesNeighbors, ReachesOn
    <3> QED
      BY <1>10, <2>1, <3>1, <3>2
  <2>4. t \in S
    BY <1>3, <1>5, ReachesItself
  <2>5. Closed(graph, S)
    BY <2>3 DEF Closed
  <2> HIDE DEF S
  <2>6. Reachable(graph, t) \subseteq S
    BY <2>2, <2>4, <2>5, ReachesWithin
  <2> QED
    BY <2>6 DEF S
<1>18. ASSUME NEW v \in Ordered', SameCycle(graph, v) \intersect Visiting' = {}, NEW w \in Reachable(graph, v)
       PROVE  FollowedByCycle(w, v)'
  <2>1. CASE v \in Ordered /\ t \notin SameCycle(graph, v)
    <3>1. FollowedByCycle(w, v)
      BY <1>4, <1>18, <2>1
    <3> QED
      BY <1>5, <3>1
  <2>2. CASE t \in SameCycle(graph, v)
    <3>1. v \in Vertices
      <4>1. Ordered \subseteq Vertices
        BY DEF TypeOK, Ordered
      <4> QED
        BY <1>3, <1>5, <1>18, <4>1
    <3>2. SameCycle(graph, t) = SameCycle(graph, v) /\ w \in Reachable(graph, t)
      BY <1>18, <2>2, <3>1, CycleEqual, ReachesOn DEF SameCycle
    <3>3. w \in Ordered'
      BY <1>17, <1>18, <3>2
    <3>4. PICK j \in 1 .. Len(order') : order'[j] = w
      BY <3>3 DEF Ordered
    <3>5. Len(order') \in 1 .. Len(order') /\ j <= Len(order')
      BY <1>5
    <3>6. order'[Len(order')] \in SameCycle(graph', v)
      BY <1>5, <1>6, <2>2
    <3> QED
      BY <3>4, <3>5, <3>6 DEF FollowedByCycle
  <2>3. v = t => t \in SameCycle(graph, v)
    BY <1>3, CycleReflexive
  <2> QED
    BY <1>5, <1>18, <2>1, <2>2, <2>3
<1>19. Vertices \ roots' \subseteq visited'
  BY <1>2
<1> QED
  BY <1>2, <1>6, <1>9, <1>10, <1>11, <1>12, <1>13, <1>15, <1>18, <1>19

----------------------------------------------------------------------------
(* The second loop.                                                        *)

LEMMA OrderTaken ==
    ASSUME TypeOK, Distinct, TakeVertex
    PROVE  LET r == order[Len(order)]
           IN  /\ r \in Vertices
               /\ Ordered' = Ordered \ {r}
               /\ r \in Ordered
               /\ Distinct'
               /\ \A v, w : FollowedByCycle(w, v) /\ r \notin SameCycle(graph, v) => FollowedByCycle(w, v)'
               /\ \A v : FollowedByCycle(r, v) => r \in SameCycle(graph, v)
<1> DEFINE n == Len(order)
           r == order[n]
<1>1. order # <<>> /\ order' = SubSeq(order, 1, n - 1) /\ UNCHANGED graph
  BY DEF TakeVertex
<1>2. n \in Nat /\ n > 0 /\ r \in Vertices
  BY <1>1, LastOrdered
<1>3. Len(order') = n - 1 /\ \A i \in 1 .. n - 1 : order'[i] = order[i]
  BY <1>1, LastOrdered
<1>4. \A i \in 1 .. n : i \in 1 .. n - 1 \/ i = n
  BY <1>2
<1>5. n \in 1 .. n /\ \A i \in 1 .. n - 1 : i \in 1 .. n /\ i # n
  BY <1>2
<1> HIDE DEF n
<1>6. Ordered' = Ordered \ {r}
  BY <1>3, <1>4, <1>5 DEF Ordered, Distinct, n
<1>7. r \in Ordered
  BY <1>5 DEF Ordered, n
<1>8. Distinct'
  BY <1>3, <1>5 DEF Distinct, n
<1>9. ASSUME NEW v, NEW w, FollowedByCycle(w, v), r \notin SameCycle(graph, v)
      PROVE  FollowedByCycle(w, v)'
  <2>1. PICK j \in 1 .. n, k \in 1 .. n : j <= k /\ order[j] = w /\ order[k] \in SameCycle(graph, v)
    BY <1>9 DEF FollowedByCycle, n
  <2>2. k \in 1 .. n - 1
    BY <1>4, <1>9, <2>1
  <2>3. j \in 1 .. n - 1
    BY <1>2, <2>1, <2>2
  <2> QED
    BY <1>1, <1>3, <2>1, <2>2, <2>3 DEF FollowedByCycle
<1>10. ASSUME NEW v, FollowedByCycle(r, v)
       PROVE  r \in SameCycle(graph, v)
  <2>1. PICK j \in 1 .. n, k \in 1 .. n : j <= k /\ order[j] = r /\ order[k] \in SameCycle(graph, v)
    BY <1>10 DEF FollowedByCycle, n
  <2>2. j = n
    BY <1>5, <2>1 DEF Distinct, n
  <2>3. k = n
    BY <1>2, <2>1, <2>2
  <2> QED
    BY <2>1, <2>3
<1> QED
  BY <1>2, <1>6, <1>7, <1>8, <1>9, <1>10 DEF n

(* The first loop has left nothing unvisited and everything in the order.  *)
LEMMA ComponentsStart ==
    ASSUME TypeOK, OrderInv, EndOrder
    PROVE  ComponentInv'
<1> GraphOK
  BY DEF TypeOK, GraphOK
<1>1. stack = <<>> /\ roots = {} /\ visited' = {} /\ component = {} /\ components = <<>>
  BY DEF EndOrder, NoneVisited, OrderInv
<1>2. UNCHANGED <<graph, roots, stack, order, component, components>>
  BY DEF EndOrder
<1>3. Height = 0 /\ Visiting = {}
  BY <1>1, EmptyVisits
<1>4. Height' = 0 /\ Visiting' = {}
  BY <1>2, <1>3 DEF Height, Visiting
<1>5. /\ Ordered' = Ordered
      /\ \A x, w : FollowedByCycle(w, x)' <=> FollowedByCycle(w, x)
  BY <1>2, OrderKept
<1>6. Settled' = {} /\ Taken' = {}
  BY <1>1, <1>2 DEF Settled, Taken
<1>7. Vertices \subseteq Ordered
  BY <1>1, <1>3 DEF OrderInv
<1>8. \A v \in Ordered : \A w \in Reachable(graph, v) : FollowedByCycle(w, v)
  BY <1>3 DEF OrderInv
<1>9. SettledOK'
  BY <1>2, <1>5, <1>6, <1>7, <1>8 DEF SettledOK
<1>10. CollectionOK'
  BY <1>1, <1>2, <1>4 DEF CollectionOK, LoopsOK
<1>11. FoundOK'
  <2>1. Len(components') = 0
    BY <1>1, <1>2
  <2> QED
    BY <1>6, <2>1 DEF FoundOK
<1> QED
  BY <1>9, <1>10, <1>11 DEF ComponentInv

(* A vertex that was visited was settled, and what its cycle would be      *)
(* needed for in the order is settled too.                                 *)
LEMMA ComponentsSkip ==
    ASSUME TypeOK, Distinct, ComponentInv, SkipVisited
    PROVE  ComponentInv' /\ Distinct'
<1> GraphOK
  BY DEF TypeOK, GraphOK
<1> DEFINE r == order[Len(order)]
<1>1. TakeVertex /\ r \in visited /\ UNCHANGED <<visited, stack, component>>
  BY DEF SkipVisited
<1>2. component = {} /\ stack = <<>> /\ UNCHANGED <<graph, components>>
  BY <1>1 DEF TakeVertex
<1>3. /\ r \in Vertices
      /\ Ordered' = Ordered \ {r}
      /\ Distinct'
      /\ \A v, w : FollowedByCycle(w, v) /\ r \notin SameCycle(graph, v) => FollowedByCycle(w, v)'
  BY <1>1, OrderTaken
<1> HIDE DEF r
<1>4. /\ Settled' = Settled /\ Settled = visited
      /\ Taken' = Taken /\ Taken = Settled
  BY <1>1, <1>2 DEF Settled, Taken
<1>5. Ordered \subseteq Vertices
  BY DEF Ordered, TypeOK
<1>6. ASSUME NEW v \in Ordered' \ Taken', NEW w \in Reachable(graph', v) \ Taken'
      PROVE  FollowedByCycle(w, v)'
  <2>1. FollowedByCycle(w, v)
    BY <1>2, <1>3, <1>4, <1>6 DEF ComponentInv, SettledOK
  <2>2. r \notin SameCycle(graph, v)
    BY <1>1, <1>3, <1>4, <1>5, <1>6 DEF ComponentInv, SettledOK, SameCycle
  <2> QED
    BY <1>3, <2>1, <2>2
<1>7. SettledOK'
  BY <1>1, <1>2, <1>3, <1>4, <1>6 DEF ComponentInv, SettledOK
<1>8. CollectionOK'
  <2>1. Height' = Height /\ Visiting' = Visiting /\ Reversed' = Reversed
    BY <1>1, <1>2, GraphKept DEF Height, Visiting
  <2> QED
    BY <1>1, <1>2, <1>4, <2>1 DEF ComponentInv, CollectionOK, LoopsOK
<1>9. FoundOK'
  BY <1>2, <1>4 DEF ComponentInv, FoundOK
<1> QED
  BY <1>3, <1>7, <1>8, <1>9 DEF ComponentInv

(* The last vertex of the order that was not visited begins a component:   *)
(* whatever reaches it and is not settled is of its cycle, as else the     *)
(* order would have one of that cycle behind it.                           *)
LEMMA ComponentsBegin ==
    ASSUME TypeOK, Distinct, ComponentInv, BeginComponent
    PROVE  ComponentInv' /\ Distinct'
<1> GraphOK
  BY DEF TypeOK, GraphOK
<1> DEFINE r == order[Len(order)]
<1>1. TakeVertex /\ r \notin visited /\ component' = {r} /\ Visit(r, Reversed, stack)
  BY DEF BeginComponent
<1>2. component = {} /\ stack = <<>> /\ UNCHANGED <<graph, components>>
  BY <1>1 DEF TakeVertex
<1>3. /\ r \in Vertices
      /\ r \in Ordered
      /\ Ordered' = Ordered \ {r}
      /\ Distinct'
      /\ \A v, w : FollowedByCycle(w, v) /\ r \notin SameCycle(graph, v) => FollowedByCycle(w, v)'
      /\ \A v : FollowedByCycle(r, v) => r \in SameCycle(graph, v)
  BY <1>1, OrderTaken
<1> HIDE DEF r
<1>4. Height = 0 /\ Visiting = {}
  BY <1>2, EmptyVisits
<1>5. Passed(stack, r)
  BY NothingPassed
<1>6. /\ visited' = visited \union {r}
      /\ Height' = 1
      /\ stack'[1].vertex = r
      /\ stack'[1].neighbors = Reversed[r]
      /\ Visiting' = {r}
  <2>1. /\ visited' = visited \union {r}
        /\ Height' = Height + 1
        /\ stack'[Height'].vertex = r
        /\ stack'[Height'].neighbors = Reversed[r]
        /\ Visiting' = Visiting \union {r}
    BY <1>1, <1>5, VisitNew
  <2>2. Height' = 1
    BY <1>4, <2>1
  <2> QED
    BY <1>4, <2>1, <2>2
<1>7. /\ Settled = visited /\ Settled' = visited
      /\ Taken = visited
      /\ Taken' = visited \union {v \in Vertices : v \in SameCycle(graph, r)}
  BY <1>1, <1>2, <1>6 DEF Settled, Taken
<1>8. Ordered \subseteq Vertices
  BY DEF Ordered, TypeOK
<1>9. ASSUME NEW v \in Ordered' \ Taken', NEW w \in Reachable(graph', v) \ Taken'
      PROVE  FollowedByCycle(w, v)'
  <2>1. v \in Vertices /\ v \in Ordered \ Taken /\ w \in Reachable(graph, v) \ Taken
    BY <1>2, <1>3, <1>7, <1>8, <1>9
  <2>2. FollowedByCycle(w, v)
    BY <2>1 DEF ComponentInv, SettledOK
  <2>3. r \notin SameCycle(graph, v)
    BY <1>3, <1>7, <1>9, <2>1, CycleSymmetric
  <2> QED
    BY <1>3, <2>2, <2>3
<1>10. SettledOK'
  <2>1. Vertices \ visited' \subseteq Ordered'
    BY <1>3, <1>6, <1>7 DEF ComponentInv, SettledOK
  <2>2. \A v \in Vertices : \A w \in Reachable(graph', v) : w \in Settled' => v \in Settled'
    BY <1>2, <1>7 DEF ComponentInv, SettledOK
  <2> QED
    BY <1>9, <2>1, <2>2 DEF SettledOK
<1>11. ASSUME NEW v \in Vertices \ Settled', r \in Reachable(graph, v)
       PROVE  v \in SameCycle(graph, r)
  <2>1. v \in Ordered \ Taken /\ r \in Reachable(graph, v) \ Taken
    BY <1>1, <1>7, <1>11 DEF ComponentInv, SettledOK
  <2>2. FollowedByCycle(r, v)
    BY <2>1 DEF ComponentInv, SettledOK
  <2> QED
    BY <1>3, <1>11, <2>2, CycleSymmetric
<1>12. CollectionOK'
  <2>1. Reversed' = Reversed
    BY <1>2, GraphKept
  <2>2. LoopsOK(Reversed)'
    <3>1. \A i \in 1 .. Height' : i = 1
      BY <1>6
    <3> QED
      BY <1>6, <2>1, <3>1 DEF LoopsOK
  <2>3. r \in SameCycle(graph', r)
    BY <1>2, <1>3, CycleReflexive
  <2>4. \A c \in component' : \A v \in Vertices \ Settled' :
            c \in Reachable(graph', v) => v \in SameCycle(graph', c)
    BY <1>1, <1>2, <1>11
  <2> QED
    BY <1>1, <1>6, <2>2, <2>3, <2>4 DEF CollectionOK
<1>13. FoundOK'
  BY <1>2, <1>7 DEF ComponentInv, FoundOK
<1> QED
  BY <1>3, <1>10, <1>12, <1>13 DEF ComponentInv

(* What a component collects refers to one of its vertices, so it reaches  *)
(* it, and is of its cycle.                                                *)
LEMMA ComponentsCollect ==
    ASSUME TypeOK, ComponentInv, CollectNeighbor
    PROVE  ComponentInv'
<1> GraphOK
  BY DEF TypeOK, GraphOK
<1> DEFINE t == Top.vertex
<1>1. PICK v \in Top.neighbors :
          /\ component' = IF v \in visited THEN component ELSE component \union {v}
          /\ Visit(v, Reversed, WithoutNeighbor(v))
  BY DEF CollectNeighbor
<1>2. stack # <<>> /\ UNCHANGED <<graph, pass, roots, order, components>>
  BY DEF CollectNeighbor
<1>3. v \in Vertices /\ t \in Vertices /\ Height \in 1 .. Height
  BY <1>1, <1>2, TopFrame DEF IsFrame
<1>4. Passed(WithoutNeighbor(v), v)
  BY <1>2, NeighborPassed
<1>5. t \in component /\ v \in Reversed[t]
  BY <1>1, <1>3 DEF ComponentInv, CollectionOK, LoopsOK, Visiting, Top
<1>6. v \in Vertices /\ t \in graph[v] /\ t \in Reachable(graph, v)
  BY <1>3, <1>5, ReversedEdges, ReachesNeighbors
<1>7. Reversed' = Reversed /\ Ordered' = Ordered
  BY <1>2, GraphKept, OrderKept
<1>8. \A x, w : FollowedByCycle(w, x)' <=> FollowedByCycle(w, x)
  BY <1>2, OrderKept
<1>9. CASE v \in visited
  <2>1. /\ visited' = visited /\ Height' = Height /\ Visiting' = Visiting
        /\ \A i \in 1 .. Height :
               /\ stack'[i].vertex = stack[i].vertex
               /\ stack'[i].neighbors \subseteq stack[i].neighbors
               /\ stack[i].neighbors \subseteq stack'[i].neighbors \union {v}
    BY <1>1, <1>4, <1>9, VisitSeen
  <2>2. component' = component /\ Settled' = Settled /\ Taken' = Taken
    BY <1>1, <1>2, <1>9, <2>1 DEF Settled, Taken
  <2>3. LoopsOK(Reversed)'
    BY <1>7, <1>9, <2>1 DEF ComponentInv, CollectionOK, LoopsOK
  <2>4. CollectionOK'
    BY <1>2, <1>7, <2>1, <2>2, <2>3 DEF ComponentInv, CollectionOK
  <2>5. SettledOK'
    BY <1>2, <1>7, <1>8, <2>1, <2>2 DEF ComponentInv, SettledOK
  <2>6. FoundOK'
    BY <1>2, <2>2 DEF ComponentInv, FoundOK
  <2> QED
    BY <2>4, <2>5, <2>6 DEF ComponentInv
<1>10. CASE v \notin visited
  <2>1. /\ visited' = visited \union {v} /\ Visiting' = Visiting \union {v}
        /\ Height \in Nat /\ Height' = Height + 1
        /\ \A i \in 1 .. Height :
               /\ stack'[i].vertex = stack[i].vertex
               /\ stack'[i].neighbors \subseteq stack[i].neighbors
               /\ stack[i].neighbors \subseteq stack'[i].neighbors \union {v}
        /\ stack'[Height'].vertex = v
        /\ stack'[Height'].neighbors = Reversed[v]
    BY <1>1, <1>4, <1>10, VisitNew
  <2>2. component' = component \union {v} /\ Settled' = Settled
    BY <1>1, <1>10, <2>1 DEF Settled
  <2>3. v \in SameCycle(graph, t)
    BY <1>3, <1>5, <1>6, <1>10 DEF ComponentInv, CollectionOK, Settled
  <2>4. SameCycle(graph, v) = SameCycle(graph, t)
    BY <1>3, <2>3, CycleEqual
  <2>5. Taken' = Taken
    BY <1>2, <1>5, <2>2, <2>4 DEF Taken
  <2>6. \A c, d \in component' : d \in SameCycle(graph', c)
    <3>1. \A c \in component : v \in SameCycle(graph, c)
      BY <1>5, <2>3, CycleTransitive DEF ComponentInv, CollectionOK
    <3>2. \A c \in component' : c \in SameCycle(graph, v)
      BY <1>3, <1>5, <2>2, <2>3, <2>4 DEF ComponentInv, CollectionOK
    <3> QED
      BY <1>2, <2>2, <3>1, <3>2 DEF ComponentInv, CollectionOK
  <2>7. \A c \in component' : \A w \in Vertices \ Settled' :
            c \in Reachable(graph', w) => w \in SameCycle(graph', c)
    <3>1. ASSUME NEW w \in Vertices \ Settled, v \in Reachable(graph, w)
          PROVE  w \in SameCycle(graph, v)
      <4>1. t \in Reachable(graph, w)
        BY <1>6, <3>1, ReachesOn
      <4> QED
        BY <1>5, <2>4, <3>1, <4>1 DEF ComponentInv, CollectionOK
    <3> QED
      BY <1>2, <2>2, <3>1 DEF ComponentInv, CollectionOK
  <2>8. \A i \in 1 .. Height' : i \in 1 .. Height \/ i = Height'
    BY <2>1
  <2>9. LoopsOK(Reversed)'
    BY <1>7, <2>1, <2>8 DEF ComponentInv, CollectionOK, LoopsOK
  <2>10. \A c \in component' \ Visiting' : Reversed'[c] \subseteq visited'
    BY <1>7, <2>1, <2>2 DEF ComponentInv, CollectionOK
  <2>11. component' \subseteq visited' /\ Visiting' \subseteq component'
    BY <2>1, <2>2 DEF ComponentInv, CollectionOK
  <2>12. CollectionOK'
    BY <2>6, <2>7, <2>9, <2>10, <2>11 DEF CollectionOK
  <2>13. SettledOK'
    BY <1>2, <1>7, <1>8, <2>1, <2>2, <2>5 DEF ComponentInv, SettledOK
  <2>14. FoundOK'
    BY <1>2, <2>2 DEF ComponentInv, FoundOK
  <2> QED
    BY <2>12, <2>13, <2>14 DEF ComponentInv
<1> QED
  BY <1>9, <1>10

LEMMA ComponentsLeave ==
    ASSUME TypeOK, ComponentInv, EndCollection
    PROVE  ComponentInv'
<1>1. /\ stack # <<>> /\ Top.neighbors = {} /\ stack' = Rest
      /\ UNCHANGED <<graph, pass, roots, visited, order, component, components>>
  BY DEF EndCollection
<1>2. /\ Height \in Nat /\ Height > 0
      /\ Height' = Height - 1
      /\ \A i \in 1 .. Height - 1 : stack'[i] = stack[i]
      /\ Visiting = Visiting' \union {Top.vertex}
  BY <1>1, VisitLeft
<1>3. /\ Reversed' = Reversed /\ Settled' = Settled /\ Taken' = Taken /\ Ordered' = Ordered
      /\ \A x, w : FollowedByCycle(w, x)' <=> FollowedByCycle(w, x)
  BY <1>1, GraphKept, OrderKept DEF Settled, Taken
<1>4. \A i \in 1 .. Height' : i \in 1 .. Height /\ i \in 1 .. Height - 1
  BY <1>2
<1>5. Reversed[Top.vertex] \subseteq visited
  BY <1>1, <1>2 DEF ComponentInv, CollectionOK, LoopsOK, Top
<1>6. LoopsOK(Reversed)'
  BY <1>1, <1>2, <1>3, <1>4 DEF ComponentInv, CollectionOK, LoopsOK
<1>7. CollectionOK'
  BY <1>1, <1>2, <1>3, <1>5, <1>6 DEF ComponentInv, CollectionOK
<1>8. SettledOK'
  BY <1>1, <1>3 DEF ComponentInv, SettledOK
<1>9. FoundOK'
  BY <1>1, <1>3 DEF ComponentInv, FoundOK
<1> QED
  BY <1>7, <1>8, <1>9 DEF ComponentInv

(* A component that is collected is a whole cycle: whoever of it were      *)
(* missing would reach it by a reference from a vertex that is settled.    *)
LEMMA ComponentIsCycle ==
    ASSUME TypeOK, ComponentInv, stack = <<>>, NEW c \in component
    PROVE  component = SameCycle(graph, c)
<1> GraphOK
  BY DEF TypeOK, GraphOK
<1> USE DEF ComponentInv, CollectionOK
<1>1. component \subseteq SameCycle(graph, c) /\ component \subseteq Vertices
  BY DEF TypeOK
<1>2. Visiting = {}
  BY EmptyVisits
<1>3. SUFFICES ASSUME NEW w \in SameCycle(graph, c), w \notin component
               PROVE  FALSE
  BY <1>1
<1>4. w \in Vertices /\ c \in Reachable(graph, w) /\ w \in Reachable(graph, c)
  BY <1>3, ReachableVertices DEF SameCycle
<1> DEFINE S == {v \in Reachable(graph, w) : v \notin component}
<1>5. S \subseteq Vertices /\ w \in S /\ c \notin S
  BY <1>3, <1>4, ReachableVertices, ReachesItself
<1>6. ~Closed(graph, S)
  <2> HIDE DEF S
  <2> QED
    BY <1>4, <1>5, ReachesWithin
<1>7. PICK v \in S : ~(graph[v] \subseteq S)
  BY <1>6 DEF Closed
<1>8. PICK d \in graph[v] : d \notin S
  BY <1>7
<1>9. v \in Vertices /\ d \in Vertices /\ d \in Reachable(graph, v)
  BY <1>5, <1>7, <1>8, ReachesNeighbors DEF GraphOK
<1>10. d \in component
  BY <1>7, <1>8, <1>9, ReachesOn
<1>11. v \in visited
  <2>1. v \in Reversed[d]
    BY <1>8, <1>9, ReversedEdges
  <2> QED
    BY <1>2, <1>10, <2>1
<1>12. v \in Settled
  BY <1>7, <1>11 DEF Settled
<1>13. v \in Reachable(graph, c)
  BY <1>4, <1>7, ReachesOn
<1>14. c \in Settled
  BY <1>1, <1>12, <1>13 DEF SettledOK
<1> QED
  BY <1>14 DEF Settled

LEMMA ComponentsEnd ==
    ASSUME TypeOK, ComponentInv, EndComponent
    PROVE  ComponentInv'
<1> GraphOK
  BY DEF TypeOK, GraphOK
<1>1. /\ stack = <<>> /\ component # {} /\ component' = {}
      /\ components' = IF IsCyclicComponent(component) THEN Append(components, component) ELSE components
      /\ UNCHANGED <<graph, pass, roots, visited, stack, order>>
  BY DEF EndComponent
<1>2. PICK c \in component : TRUE
  BY <1>1
<1>3. component = SameCycle(graph, c) /\ \A d \in component : component = SameCycle(graph, d)
  BY <1>1, ComponentIsCycle
<1>4. Visiting = {} /\ Visiting' = {} /\ Height' = 0
  <2>1. Height = 0 /\ Visiting = {}
    BY <1>1, EmptyVisits
  <2> QED
    BY <1>1, <2>1 DEF Visiting, Height
<1>5. component \subseteq visited /\ component \subseteq Vertices /\ c \in Vertices
  BY DEF ComponentInv, CollectionOK, TypeOK
<1>6. Settled' = Settled \union component /\ Settled \intersect component = {}
  BY <1>1, <1>5 DEF Settled
<1>7. Taken' = Taken
  <2>1. Taken = Settled \union component
    BY <1>3, <1>5 DEF Taken
  <2>2. Taken' = Settled'
    BY <1>1 DEF Taken
  <2> QED
    BY <1>6, <2>1, <2>2
<1>8. /\ Ordered' = Ordered
      /\ \A x, w : FollowedByCycle(w, x)' <=> FollowedByCycle(w, x)
  BY <1>1, OrderKept
<1>9. SettledOK'
  <2>1. ASSUME NEW v \in Vertices, NEW w \in Reachable(graph', v), w \in Settled'
        PROVE  v \in Settled'
    <3>1. CASE w \in Settled
      BY <1>1, <1>6, <2>1, <3>1 DEF ComponentInv, SettledOK
    <3>2. CASE w \in component
      BY <1>1, <1>3, <1>6, <2>1, <3>2 DEF ComponentInv, CollectionOK
    <3> QED
      BY <1>6, <2>1, <3>1, <3>2
  <2>2. Vertices \ visited' \subseteq Ordered'
    BY <1>1, <1>8 DEF ComponentInv, SettledOK
  <2>3. \A v \in Ordered' \ Taken' : \A w \in Reachable(graph', v) \ Taken' : FollowedByCycle(w, v)'
    BY <1>1, <1>7, <1>8 DEF ComponentInv, SettledOK
  <2> QED
    BY <2>1, <2>2, <2>3 DEF SettledOK
<1>10. CollectionOK'
  BY <1>1, <1>4 DEF CollectionOK, LoopsOK
<1> DEFINE n == Len(components)
           Found == {components[i] : i \in 1 .. n}
<1>11. {SameCycle(graph, v) : v \in Settled'} = {SameCycle(graph, v) : v \in Settled} \union {component}
  BY <1>2, <1>3, <1>6
<1>12. n \in Nat /\ IsSequence(components)
  BY SeqIsSequence DEF TypeOK, IsSequence
<1>13. \A i \in 1 .. n : \E u \in Settled : u \in Vertices /\ components[i] = SameCycle(graph, u)
  <2>1. \A u \in Settled : u \in Vertices
    BY DEF Settled, TypeOK
  <2>2. Found = {cycle \in {SameCycle(graph, v) : v \in Settled} : IsCyclicComponent(cycle)}
    BY DEF ComponentInv, FoundOK
  <2> QED
    BY <2>1, <2>2
<1>14. \A i \in 1 .. n : components[i] \subseteq Settled
  <2>1. ASSUME NEW i \in 1 .. n, NEW v \in components[i]
        PROVE  v \in Settled
    <3>1. PICK u \in Settled : u \in Vertices /\ components[i] = SameCycle(graph, u)
      BY <1>13
    <3>2. v \in Vertices /\ u \in Reachable(graph, v)
      BY <2>1, <3>1, ReachableVertices DEF SameCycle
    <3> QED
      BY <3>1, <3>2 DEF ComponentInv, SettledOK
  <2> QED
    BY <2>1
<1>15. CASE ~IsCyclicComponent(component)
  <2>1. components' = components
    BY <1>1, <1>15
  <2>2. {cycle \in {SameCycle(graph, v) : v \in Settled'} : IsCyclicComponent(cycle)} =
            {cycle \in {SameCycle(graph, v) : v \in Settled} : IsCyclicComponent(cycle)}
    BY <1>11, <1>15
  <2>3. FoundOK'
    BY <1>1, <2>1, <2>2 DEF ComponentInv, FoundOK
  <2> QED
    BY <1>9, <1>10, <2>3 DEF ComponentInv
<1>16. CASE IsCyclicComponent(component)
  <2>1. /\ Len(components') = n + 1
        /\ \A i \in 1 .. n : components'[i] = components[i]
        /\ components'[n + 1] = component
    BY <1>1, <1>12, <1>16, PushFrame
  <2>2. \A i \in 1 .. n + 1 : i \in 1 .. n \/ i = n + 1
    BY <1>12
  <2>3. n + 1 \in 1 .. n + 1 /\ \A i \in 1 .. n : i \in 1 .. n + 1 /\ i # n + 1 /\ ~(n + 1 < i)
    BY <1>12
  <2> HIDE DEF n
  <2>4. {components'[i] : i \in 1 .. Len(components')} = Found \union {component}
    BY <2>1, <2>2, <2>3
  <2>5. {cycle \in {SameCycle(graph, v) : v \in Settled'} : IsCyclicComponent(cycle)} =
            {cycle \in {SameCycle(graph, v) : v \in Settled} : IsCyclicComponent(cycle)} \union {component}
    BY <1>11, <1>16
  <2>6. {components'[i] : i \in 1 .. Len(components')} =
            {cycle \in {SameCycle(graph', v) : v \in Settled'} : IsCyclicComponent(cycle)}
    BY <1>1, <2>4, <2>5 DEF ComponentInv, FoundOK, n
  <2>7. \A i \in 1 .. n : components[i] # component
    BY <1>2, <1>6, <1>14
  <2>8. \A i, j \in 1 .. Len(components') : components'[i] = components'[j] => i = j
    <3>1. \A i, j \in 1 .. n : components[i] = components[j] => i = j
      BY DEF ComponentInv, FoundOK, n
    <3> QED
      BY <2>1, <2>2, <2>7, <3>1
  <2>9. ASSUME NEW i \in 1 .. Len(components'), NEW j \in 1 .. Len(components'), i < j,
               NEW v \in components'[i], NEW w \in components'[j]
        PROVE  v \notin Reachable(graph', w)
    <3>1. i \in 1 .. n
      <4>1. i # n + 1 \/ j # n + 1
        BY <2>9
      <4> QED
        BY <2>1, <2>2, <2>3, <2>9, <4>1
    <3>2. CASE j \in 1 .. n
      BY <1>1, <2>1, <2>9, <3>1, <3>2 DEF ComponentInv, FoundOK, n
    <3>3. CASE j = n + 1
      <4>1. w \in component /\ w \in Vertices /\ v \in Settled
        BY <1>5, <1>14, <2>1, <2>9, <3>1, <3>3
      <4> QED
        BY <1>1, <1>6, <4>1 DEF ComponentInv, SettledOK
    <3> QED
      BY <2>1, <2>2, <3>2, <3>3
  <2>10. FoundOK'
    BY <2>6, <2>8, <2>9 DEF FoundOK
  <2> QED
    BY <1>9, <1>10, <2>10 DEF ComponentInv
<1> QED
  BY <1>15, <1>16

LEMMA ComponentsKept ==
    ASSUME ComponentInv, UNCHANGED <<graph, visited, stack, order, component, components>>
    PROVE  ComponentInv'
<1>1. Height' = Height /\ Visiting' = Visiting /\ Reversed' = Reversed
  BY GraphKept DEF Height, Visiting
<1>2. /\ Settled' = Settled /\ Taken' = Taken /\ Ordered' = Ordered
      /\ \A x, w : FollowedByCycle(w, x)' <=> FollowedByCycle(w, x)
  BY OrderKept DEF Settled, Taken
<1>3. SettledOK'
  BY <1>2 DEF ComponentInv, SettledOK
<1>4. CollectionOK'
  BY <1>1, <1>2 DEF ComponentInv, CollectionOK, LoopsOK
<1>5. FoundOK'
  BY <1>2 DEF ComponentInv, FoundOK
<1> QED
  BY <1>3, <1>4, <1>5 DEF ComponentInv

----------------------------------------------------------------------------
(* The whole search.                                                       *)

LEMMA SearchInit == Init => SearchInv
<1> SUFFICES ASSUME Init PROVE SearchInv
  OBVIOUS
<1>1. TypeOK
  BY TypeInit
<1>2. Height = 0 /\ Visiting = {}
  BY <1>1, EmptyVisits DEF Init
<1>3. Len(order) = 0 /\ Ordered = {}
  BY DEF Init, Ordered
<1>4. OrderInv
  BY <1>2, <1>3 DEF Init, OrderInv, LoopsOK
<1> QED
  BY <1>1, <1>3, <1>4 DEF Init, SearchInv, Distinct

LEMMA SearchStep == SearchInv /\ [Next]_vars => SearchInv'
<1> SUFFICES ASSUME SearchInv, [Next]_vars PROVE SearchInv'
  OBVIOUS
<1>1. TypeOK /\ TypeOK' /\ Distinct /\ GraphOK
  BY TypeStep DEF SearchInv, TypeOK, GraphOK
<1>2. UNCHANGED order => Distinct'
  BY <1>1 DEF Distinct
<1>3. CASE VisitRoot
  <2>1. OrderInv
    BY <1>3 DEF VisitRoot, SearchInv
  <2>2. PICK v \in roots : roots' = roots \ {v} /\ Visit(v, graph, stack)
    BY <1>3 DEF VisitRoot, ComesFirst
  <2>3. v \in Vertices /\ Passed(stack, v) /\ Height = 0
    BY <1>1, <1>3, <2>2, NothingPassed, EmptyVisits DEF TypeOK, VisitRoot
  <2>4. OrderInv'
    <3>1. Vertices \ roots' \subseteq visited \union {v}
      BY <2>1, <2>2 DEF OrderInv
    <3>2. \A i \in 1 .. Height : v \in Reachable(graph, stack[i].vertex)
      BY <2>3
    <3> QED
      BY <1>1, <1>3, <2>1, <2>2, <2>3, <3>1, <3>2, OrderVisit DEF VisitRoot
  <2> QED
    BY <1>1, <1>2, <1>3, <2>4 DEF VisitRoot, SearchInv
<1>4. CASE VisitNeighbor
  <2>1. OrderInv /\ stack # <<>>
    BY <1>4 DEF VisitNeighbor, SearchInv
  <2>2. PICK v \in Top.neighbors : Visit(v, graph, WithoutNeighbor(v))
    BY <1>4 DEF VisitNeighbor, ComesFirst
  <2>3. v \in Vertices /\ Top.vertex \in Vertices /\ Height \in 1 .. Height /\ Height \in Nat
    BY <1>1, <2>1, <2>2, TopFrame DEF IsFrame
  <2>4. Passed(WithoutNeighbor(v), v)
    BY <1>1, <2>1, NeighborPassed
  <2>5. v \in Reachable(graph, Top.vertex)
    BY <1>1, <2>1, <2>2, <2>3, ReachesNeighbors DEF OrderInv, LoopsOK, Top
  <2>6. \A i \in 1 .. Height : v \in Reachable(graph, stack[i].vertex)
    <3>1. \A i \in 1 .. Height : i <= Height /\ Top.vertex \in Reachable(graph, stack[i].vertex)
      BY <2>1, <2>3 DEF OrderInv, Top
    <3> QED
      BY <2>5, <3>1, ReachesOn
  <2>7. OrderInv'
    <3>1. Vertices \ roots' \subseteq visited \union {v}
      BY <1>4, <2>1 DEF OrderInv, VisitNeighbor
    <3> QED
      BY <1>1, <1>4, <2>1, <2>2, <2>3, <2>4, <2>6, <3>1, OrderVisit DEF VisitNeighbor
  <2> QED
    BY <1>1, <1>2, <1>4, <2>7 DEF VisitNeighbor, SearchInv
<1>5. CASE EndVisit
  <2>1. OrderInv /\ stack # <<>> /\ pass' = "order"
    BY <1>5 DEF EndVisit, SearchInv
  <2>2. OrderInv'
    BY <1>1, <1>5, <2>1, OrderLeave
  <2>3. Distinct'
    <3> DEFINE t == Top.vertex
    <3>1. t \in Vertices /\ Height \in 1 .. Height
      BY <1>1, <2>1, TopFrame DEF IsFrame
    <3>2. t \notin Ordered
      BY <2>1, <3>1 DEF OrderInv, Visiting, Top
    <3>3. /\ Len(order) \in Nat
          /\ Len(order') = Len(order) + 1
          /\ \A i \in 1 .. Len(order) : order'[i] = order[i]
          /\ order'[Len(order')] = t
      BY <1>1, <1>5, <3>1, OrderAppended DEF EndVisit
    <3>4. \A i \in 1 .. Len(order') : i \in 1 .. Len(order) \/ i = Len(order')
      BY <3>3
    <3> QED
      BY <1>1, <3>2, <3>3, <3>4 DEF Distinct, Ordered
  <2> QED
    BY <1>1, <2>1, <2>2, <2>3 DEF SearchInv
<1>6. CASE EndOrder
  <2>1. ComponentInv'
    BY <1>1, <1>6, ComponentsStart DEF EndOrder, SearchInv
  <2> QED
    BY <1>1, <1>2, <1>6, <2>1 DEF EndOrder, SearchInv
<1>7. CASE SkipVisited
  <2>1. ComponentInv' /\ Distinct'
    BY <1>1, <1>7, ComponentsSkip DEF SkipVisited, TakeVertex, SearchInv
  <2> QED
    BY <1>1, <1>7, <2>1 DEF SkipVisited, TakeVertex, SearchInv
<1>8. CASE BeginComponent
  <2>1. ComponentInv' /\ Distinct'
    BY <1>1, <1>8, ComponentsBegin DEF BeginComponent, TakeVertex, SearchInv
  <2> QED
    BY <1>1, <1>8, <2>1 DEF BeginComponent, TakeVertex, SearchInv
<1>9. CASE CollectNeighbor
  <2>1. ComponentInv'
    BY <1>1, <1>9, ComponentsCollect DEF CollectNeighbor, SearchInv
  <2> QED
    BY <1>1, <1>2, <1>9, <2>1 DEF CollectNeighbor, SearchInv
<1>10. CASE EndCollection
  <2>1. ComponentInv'
    BY <1>1, <1>10, ComponentsLeave DEF EndCollection, SearchInv
  <2> QED
    BY <1>1, <1>2, <1>10, <2>1 DEF EndCollection, SearchInv
<1>11. CASE EndComponent
  <2>1. ComponentInv'
    BY <1>1, <1>11, ComponentsEnd DEF EndComponent, SearchInv
  <2> QED
    BY <1>1, <1>2, <1>11, <2>1 DEF EndComponent, SearchInv
<1>12. CASE Return
  <2>1. ComponentInv
    BY <1>12 DEF Return, SearchInv
  <2>2. ComponentInv'
    BY <1>12, <2>1, ComponentsKept DEF Return
  <2>3. visited = Vertices
    <3>1. Len(order) = 0
      BY <1>12 DEF Return
    <3>2. Ordered = {}
      BY <3>1 DEF Ordered
    <3> QED
      BY <1>1, <2>1, <3>2 DEF ComponentInv, SettledOK, TypeOK
  <2> QED
    BY <1>1, <1>2, <1>12, <2>2, <2>3 DEF Return, SearchInv
<1>13. CASE UNCHANGED vars
  <2>1. UNCHANGED <<graph, pass, roots, visited, stack, order, component, components>>
    BY <1>13 DEF vars
  <2>2. pass = "order" => OrderInv'
    <3>1. Height' = Height /\ Visiting' = Visiting
      BY <2>1 DEF Height, Visiting
    <3>2. Ordered' = Ordered /\ \A x, w : FollowedByCycle(w, x)' <=> FollowedByCycle(w, x)
      BY <2>1, OrderKept
    <3>3. pass = "order" => OrderInv
      BY DEF SearchInv
    <3> QED
      BY <2>1, <3>1, <3>2, <3>3 DEF OrderInv, LoopsOK
  <2>3. pass # "order" => ComponentInv'
    BY <2>1, ComponentsKept DEF SearchInv
  <2> QED
    BY <1>1, <1>2, <2>1, <2>2, <2>3 DEF SearchInv
<1> QED
  BY <1>3, <1>4, <1>5, <1>6, <1>7, <1>8, <1>9, <1>10, <1>11, <1>12, <1>13 DEF Next, Returned

LEMMA SearchInvariant == Spec => []SearchInv
<1> QED
  BY SearchInit, SearchStep, PTL DEF Spec

(* Exactly the classes of two or more fields that all reach one another    *)
(* are found, each once (cyclic_graph_components), in every graph.         *)
THEOREM CyclesFound == Spec => []ComponentsAreCycles
<1>1. SearchInv => ComponentsAreCycles
  <2> SUFFICES ASSUME SearchInv, pass = "done" PROVE ComponentsAreCycles
    BY DEF ComponentsAreCycles
  <2>1. FoundOK /\ Settled = Vertices
    BY DEF SearchInv, ComponentInv, Settled
  <2> QED
    BY <2>1 DEF FoundOK, ComponentsAreCycles
<1> QED
  BY <1>1, SearchInvariant, PTL

(* A cyclic component never stands behind one that it depends on, directly *)
(* or not (cyclic_graph_components).                                       *)
THEOREM DependentsAreFirst == Spec => []DependentsFirst
<1>1. SearchInv => DependentsFirst
  BY DEF SearchInv, ComponentInv, FoundOK, DependentsFirst
<1> QED
  BY <1>1, SearchInvariant, PTL
=============================================================================
