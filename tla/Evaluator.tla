----------------------------- MODULE Evaluator -----------------------------
(***************************************************************************)
(* The vertex evaluator of crates/eval (struct Evaluator): one operation   *)
(* (Value::evaluate and the like) evaluates the root vertex of a compiled  *)
(* instance.  Before the root it solves every reference cycle between      *)
(* top-level fields by iterating the members of the cycle from their       *)
(* previous values; then it evaluates the root's arcs, depth first, with a *)
(* cache and with a placeholder for a vertex that is already being         *)
(* evaluated.                                                              *)
(*                                                                         *)
(* The recursion evaluate_vertex_at -> evaluate_expr_at ->                 *)
(* evaluate_field_reference -> evaluate_vertex_at is an explicit stack of  *)
(* frames, so that each step of TLC is one operand, one call or one        *)
(* return.  Expressions are in postfix form.  What the values are is left  *)
(* to the constants Top and Operate.                                       *)
(***************************************************************************)
EXTENDS Naturals, Sequences, FiniteSets, Stacks

CONSTANTS
    FieldCount,           \* number of top-level fields; a field is its VertexId
    Programs,             \* the compiled instances to evaluate
    MaxDepth,             \* EvalOptions::max_depth
    MaxIterations,        \* MAX_FIXPOINT_ITERATIONS
    Top,                  \* EvaluatedValue::Top
    StructuralCycle,      \* structural_cycle_bottom
    UnresolvedCycle,      \* cycle_bottom
    IterationLimit,       \* cycle_fixpoint_limit_bottom
    DepthLimit,           \* depth_limit_bottom
    OptionalReference,    \* optional_reference_bottom
    Operate(_, _),        \* Operate(op, args): the value of an operator
    CyclicComponents(_)   \* cyclic_graph_components

Vertices == 1 .. FieldCount
Root == 0

(***************************************************************************)
(* An instruction of an expression in postfix form: a literal, a reference *)
(* to a top-level field, or an operator.  Each records how deep it is      *)
(* nested in its expression, a reference also under how many operands of & *)
(* and in how many struct fields.                                          *)
(***************************************************************************)
Operators == {"&", "|", "+1", "struct"}

Arity(op) == CASE op \in {"lit", "ref"} -> 0 [] op \in {"&", "|"} -> 2 [] OTHER -> 1

IsReference(instruction) == instruction.op = "ref"

InstructionOK(instruction) ==
    /\ instruction.nesting \in Nat
    /\ \/ instruction.op = "lit"
       \/ /\ instruction.op = "ref"
          /\ instruction.field \in Vertices
          /\ instruction.operands \in Nat
          /\ instruction.fields \in Nat
       \/ instruction.op \in Operators

(* The references of field v of program p, as the collectors find them,    *)
(* and the graph they form.                                                *)
ReferencesOf(p, v) ==
    {r \in Vertices :
        \E i \in 1 .. Len(p.conjuncts[v]) : \E j \in 1 .. Len(p.conjuncts[v][i]) :
            IsReference(p.conjuncts[v][i][j]) /\ p.conjuncts[v][i][j].field = r}

ReferenceDependencyGraph(p) == [v \in Vertices |-> ReferencesOf(p, v)]

ASSUME ConstantsAssumption ==
    /\ FieldCount \in Nat
    /\ MaxDepth \in Nat
    /\ MaxIterations \in Nat

ASSUME ProgramsAssumption ==
    \A p \in Programs :
        /\ DOMAIN p.conjuncts = Vertices
        /\ p.optional \subseteq Vertices
        /\ p.skipped \subseteq Vertices
        /\ \A v \in Vertices :
               /\ Len(p.conjuncts[v]) \in Nat
               /\ \A i \in 1 .. Len(p.conjuncts[v]) :
                      /\ Len(p.conjuncts[v][i]) \in Nat
                      /\ \A j \in 1 .. Len(p.conjuncts[v][i]) : InstructionOK(p.conjuncts[v][i][j])

ASSUME ComponentsAssumption ==
    \A p \in Programs : CyclicComponents(ReferenceDependencyGraph(p)) \in Seq(SUBSET Vertices)

VARIABLES
    program,                  \* the compiled instance
    phase,                    \* where evaluate_vertex and its callees are
    components,               \* cyclic components still to be solved
    fixpoint_active_vertices, \* members of the component being solved
    fixpoint_forcing_vertices,\* the member being recomputed
    fixpoint_previous_values, \* values of the previous iteration
    next_values,              \* values of this iteration so far
    iterations,               \* iterations begun for this component
    vertex_cache,             \* finished vertices and their values
    evaluating_vertices,      \* vertices whose evaluation has begun
    vertex_evaluation_stack,  \* the frames of evaluate_vertex_at
    cycle_fallback_to_top,    \* enclosing operands of &
    field_evaluation_stack,   \* how many struct fields enclose the evaluation
    call,                     \* <<>> or <<a call of evaluate_vertex_at>>
    returned,                 \* <<>> or <<the value it returned>>
    result                    \* the root's value, one entry per emitted field

driver == <<phase, components, fixpoint_active_vertices, fixpoint_forcing_vertices,
            fixpoint_previous_values, next_values, iterations, result>>
machine == <<evaluating_vertices, vertex_evaluation_stack, cycle_fallback_to_top,
             field_evaluation_stack, call, returned>>
vars == <<program, vertex_cache, driver, machine>>

----------------------------------------------------------------------------
Conjuncts(v) == program.conjuncts[v]

VertexReferences(v) == ReferencesOf(program, v)

VertexContainsChoice(v) ==
    \E i \in 1 .. Len(Conjuncts(v)) : \E j \in 1 .. Len(Conjuncts(v)[i]) :
        Conjuncts(v)[i][j].op = "|"

ChoiceVertexCount(vertices) == Cardinality({v \in vertices : VertexContainsChoice(v)})

(* Finite functions as maps: M overridden by N, and M without the keys K.  *)
Override(M, N) ==
    [v \in DOMAIN M \union DOMAIN N |-> IF v \in DOMAIN N THEN N[v] ELSE M[v]]

Without(M, K) == [v \in DOMAIN M \ K |-> M[v]]

ConstantMap(K, x) == [v \in K |-> x]

EmptyMap == [v \in {} |-> Top]

----------------------------------------------------------------------------
Init ==
    /\ program \in Programs
    /\ phase = "collect"
    /\ components = <<>>
    /\ fixpoint_active_vertices = {}
    /\ fixpoint_forcing_vertices = {}
    /\ fixpoint_previous_values = EmptyMap
    /\ next_values = EmptyMap
    /\ iterations = 0
    /\ vertex_cache = EmptyMap
    /\ evaluating_vertices = {}
    /\ vertex_evaluation_stack = <<>>
    /\ cycle_fallback_to_top = 0
    /\ field_evaluation_stack = 0
    /\ call = <<>>
    /\ returned = <<>>
    /\ result = EmptyMap

(***************************************************************************)
(* The driver: evaluate_vertex, evaluate_reachable_fixpoints,              *)
(* evaluate_fixpoint_vertices and iterate_fixpoint_vertices.               *)
(***************************************************************************)

(* Collects the reference graph; every field is an arc of the root, so     *)
(* every field is reached.                                                 *)
Collect ==
    /\ phase = "collect"
    /\ phase' = "component"
    /\ components' = CyclicComponents(ReferenceDependencyGraph(program))
    /\ UNCHANGED <<program, vertex_cache, fixpoint_active_vertices, fixpoint_forcing_vertices,
                   fixpoint_previous_values, next_values, iterations, result, machine>>

(* A component in which two fields hold a choice is not iterated: all its  *)
(* members become cycle bottoms.                                           *)
CacheCycleBottoms ==
    /\ phase = "component"
    /\ components # <<>>
    /\ ChoiceVertexCount(Head(components)) > 1
    /\ vertex_cache' = Override(vertex_cache, ConstantMap(Head(components), UnresolvedCycle))
    /\ components' = Tail(components)
    /\ UNCHANGED <<program, phase, fixpoint_active_vertices, fixpoint_forcing_vertices,
                   fixpoint_previous_values, next_values, iterations, result, machine>>

(* The first previous values are what the cache already holds, else Top.   *)
BeginComponent ==
    /\ phase = "component"
    /\ components # <<>>
    /\ ChoiceVertexCount(Head(components)) <= 1
    /\ phase' = "sweep"
    /\ components' = Tail(components)
    /\ fixpoint_active_vertices' = Head(components)
    /\ fixpoint_forcing_vertices' = {}
    /\ fixpoint_previous_values' =
           [v \in Head(components) |-> IF v \in DOMAIN vertex_cache THEN vertex_cache[v] ELSE Top]
    /\ iterations' = 0
    /\ UNCHANGED <<program, vertex_cache, next_values, result, machine>>

(* Mutated form: one iteration too many. *)
OneIterationMore == iterations <= MaxIterations

IterationsLeft == iterations < MaxIterations

(* Mutated forms: the last iteration is kept; every vertex is forgotten. *)
KeepFixpointCacheEntries == vertex_cache
ClearAllCacheEntries == EmptyMap

ClearFixpointCacheEntries == Without(vertex_cache, fixpoint_active_vertices)

BeginIteration ==
    /\ phase = "sweep"
    /\ IterationsLeft
    /\ phase' = "select"
    /\ iterations' = iterations + 1
    /\ vertex_cache' = ClearFixpointCacheEntries
    /\ next_values' = EmptyMap
    /\ UNCHANGED <<program, components, fixpoint_active_vertices, fixpoint_forcing_vertices,
                   fixpoint_previous_values, result, machine>>

(* Mutated form: the first member again and again. *)
AllMembers == fixpoint_active_vertices

MembersLeft == fixpoint_active_vertices \ DOMAIN next_values

(* Members are recomputed in ascending order. *)
ForceMember ==
    /\ phase = "select"
    /\ \E v \in MembersLeft :
          /\ \A w \in MembersLeft : v <= w
          /\ fixpoint_forcing_vertices' = fixpoint_forcing_vertices \union {v}
          /\ call' = <<[vertex |-> v, depth |-> 0]>>
    /\ phase' = "force"
    /\ UNCHANGED <<program, vertex_cache, components, fixpoint_active_vertices,
                   fixpoint_previous_values, next_values, iterations, result,
                   evaluating_vertices, vertex_evaluation_stack, cycle_fallback_to_top,
                   field_evaluation_stack, returned>>

Idle == call = <<>> /\ vertex_evaluation_stack = <<>>

RecordMember ==
    /\ phase = "force"
    /\ Idle
    /\ returned # <<>>
    /\ \E v \in fixpoint_forcing_vertices :
          /\ next_values' = Override(next_values, ConstantMap({v}, returned[1]))
          /\ fixpoint_forcing_vertices' = fixpoint_forcing_vertices \ {v}
    /\ returned' = <<>>
    /\ phase' = "select"
    /\ UNCHANGED <<program, vertex_cache, components, fixpoint_active_vertices,
                   fixpoint_previous_values, iterations, result, evaluating_vertices,
                   vertex_evaluation_stack, cycle_fallback_to_top, field_evaluation_stack, call>>

(* Leaves the component: its final values replace its cache entries.       *)
FinishComponent(final) ==
    /\ vertex_cache' = Override(vertex_cache, final)
    /\ phase' = "component"
    /\ fixpoint_active_vertices' = {}
    /\ fixpoint_forcing_vertices' = {}
    /\ fixpoint_previous_values' = EmptyMap
    /\ next_values' = EmptyMap
    /\ UNCHANGED <<program, components, iterations, result, machine>>

(* Mutated form: one iteration is enough. *)
AlwaysConverged == TRUE

Converged == next_values = fixpoint_previous_values

Converge ==
    /\ phase = "select"
    /\ DOMAIN next_values = fixpoint_active_vertices
    /\ Converged
    /\ FinishComponent(next_values)

Continue ==
    /\ phase = "select"
    /\ DOMAIN next_values = fixpoint_active_vertices
    /\ ~Converged
    /\ phase' = "sweep"
    /\ fixpoint_previous_values' = next_values
    /\ UNCHANGED <<program, vertex_cache, components, fixpoint_active_vertices,
                   fixpoint_forcing_vertices, next_values, iterations, result, machine>>

GiveUp ==
    /\ phase = "sweep"
    /\ ~IterationsLeft
    /\ FinishComponent(ConstantMap(fixpoint_active_vertices, IterationLimit))

EvaluateRoot ==
    /\ phase = "component"
    /\ components = <<>>
    /\ phase' = "root"
    /\ call' = <<[vertex |-> Root, depth |-> 0]>>
    /\ UNCHANGED <<program, vertex_cache, components, fixpoint_active_vertices,
                   fixpoint_forcing_vertices, fixpoint_previous_values, next_values, iterations,
                   result, evaluating_vertices, vertex_evaluation_stack, cycle_fallback_to_top,
                   field_evaluation_stack, returned>>

Finish ==
    /\ phase = "root"
    /\ Idle
    /\ returned # <<>>
    /\ phase' = "done"
    /\ result' = returned[1]
    /\ returned' = <<>>
    /\ UNCHANGED <<program, vertex_cache, components, fixpoint_active_vertices,
                   fixpoint_forcing_vertices, fixpoint_previous_values, next_values, iterations,
                   evaluating_vertices, vertex_evaluation_stack, cycle_fallback_to_top,
                   field_evaluation_stack, call>>

(***************************************************************************)
(* evaluate_vertex_at: the early returns, in the order of the code.        *)
(***************************************************************************)
Called == call[1].vertex

Height == Len(vertex_evaluation_stack)
Current == vertex_evaluation_stack[Height]

(* Mutated form: only a member that is being evaluated is stopped. *)
IsMarkedMember(v) == v \in fixpoint_active_vertices /\ v \in evaluating_vertices

(* fixpoint_reentry_value: a member of the component under solution stands *)
(* for its previous value, except the forced one on its first entry.       *)
IsFixpointReentry(v) ==
    /\ v \in fixpoint_active_vertices
    /\ v \in evaluating_vertices \/ v \notin fixpoint_forcing_vertices

(* is_structural_vertex_cycle: a vertex that refers to itself from inside  *)
(* a struct field.  (No field reference leads to an ancestor: the only     *)
(* ancestor of a field is the root.)                                       *)
IsStructuralVertexCycle(v) ==
    /\ vertex_evaluation_stack # <<>>
    /\ Current.vertex = v
    /\ field_evaluation_stack > 0

Return(value) ==
    /\ call' = <<>>
    /\ returned' = <<value>>
    /\ UNCHANGED <<program, vertex_cache, driver, evaluating_vertices, vertex_evaluation_stack,
                   cycle_fallback_to_top, field_evaluation_stack>>

(* Mutated form: a member always starts from Top. *)
ForgottenValue(v) == Top

PreviousValue(v) ==
    IF v \in DOMAIN fixpoint_previous_values THEN fixpoint_previous_values[v] ELSE Top

ReturnPrevious ==
    /\ call # <<>>
    /\ IsFixpointReentry(Called)
    /\ Return(PreviousValue(Called))

ReturnCached ==
    /\ call # <<>>
    /\ ~IsFixpointReentry(Called)
    /\ Called \in DOMAIN vertex_cache
    /\ Return(vertex_cache[Called])

ReturnPlaceholder ==
    /\ call # <<>>
    /\ ~IsFixpointReentry(Called)
    /\ Called \notin DOMAIN vertex_cache
    /\ Called \in evaluating_vertices
    /\ Return(IF cycle_fallback_to_top = 0 /\ IsStructuralVertexCycle(Called)
              THEN StructuralCycle ELSE Top)

(* Mutated form: one level too deep. *)
BelowLimit(depth) == depth > MaxDepth + 1

TooDeep(depth) == depth > MaxDepth

(* The limit is checked after the vertex was marked; the mark is undone    *)
(* and nothing is cached.                                                  *)
ReturnDepthLimit ==
    /\ call # <<>>
    /\ ~IsFixpointReentry(Called)
    /\ Called \notin DOMAIN vertex_cache
    /\ Called \notin evaluating_vertices
    /\ TooDeep(call[1].depth)
    /\ Return(DepthLimit)

Frame(c) ==
    [vertex |-> c.vertex, depth |-> c.depth, conjunct |-> 1, pc |-> 1, operands |-> <<>>,
     value |-> IF c.vertex = Root THEN EmptyMap ELSE Top]

EnterVertex ==
    /\ call # <<>>
    /\ ~IsFixpointReentry(Called)
    /\ Called \notin DOMAIN vertex_cache
    /\ Called \notin evaluating_vertices
    /\ ~TooDeep(call[1].depth)
    /\ evaluating_vertices' = evaluating_vertices \union {Called}
    /\ vertex_evaluation_stack' = Append(vertex_evaluation_stack, Frame(call[1]))
    /\ call' = <<>>
    /\ UNCHANGED <<program, vertex_cache, driver, cycle_fallback_to_top,
                   field_evaluation_stack, returned>>

(***************************************************************************)
(* The body of evaluate_vertex_at: the conjuncts in order, each evaluated  *)
(* and unified with the value so far; for the root, its arcs in order.     *)
(***************************************************************************)
InField == call = <<>> /\ vertex_evaluation_stack # <<>> /\ Current.vertex # Root
InRoot == call = <<>> /\ vertex_evaluation_stack # <<>> /\ Current.vertex = Root

Expression == Conjuncts(Current.vertex)[Current.conjunct]

InExpression ==
    /\ InField
    /\ Current.conjunct <= Len(Conjuncts(Current.vertex))
    /\ Current.pc <= Len(Expression)

Instruction == Expression[Current.pc]

SetFrame(frame) ==
    vertex_evaluation_stack' = [vertex_evaluation_stack EXCEPT ![Height] = frame]

(* evaluate_expr_at is one deeper than the vertex, an operand one deeper   *)
(* than its operator, and a referenced vertex two deeper than the          *)
(* reference.                                                              *)
ExpressionDepth == Current.depth + 1 + Instruction.nesting

Kept == Len(Current.operands) - Arity(Instruction.op)

PushResult(x) ==
    SetFrame([Current EXCEPT !.operands = Append(SubSeq(@, 1, Kept), x), !.pc = @ + 1])

Evaluate(x) ==
    /\ PushResult(x)
    /\ UNCHANGED <<program, vertex_cache, driver, evaluating_vertices, cycle_fallback_to_top,
                   field_evaluation_stack, call, returned>>

(* Below the limit nothing is evaluated: an expression there is a bottom,  *)
(* whatever its operands (which lie deeper still) are.                     *)
EvaluateTooDeep ==
    /\ InExpression
    /\ TooDeep(ExpressionDepth)
    /\ Evaluate(DepthLimit)

EvaluateLiteral ==
    /\ InExpression
    /\ ~TooDeep(ExpressionDepth)
    /\ Instruction.op = "lit"
    /\ Evaluate(Instruction.value)

EvaluateOperator ==
    /\ InExpression
    /\ ~TooDeep(ExpressionDepth)
    /\ Instruction.op \in Operators
    /\ Evaluate(Operate(Instruction.op,
                        SubSeq(Current.operands, Kept + 1, Len(Current.operands))))

(* A reference to an optional field is an error; any other one is a call,  *)
(* made inside the operands of & and the struct fields around it.          *)
EvaluateOptionalReference ==
    /\ InExpression
    /\ ~TooDeep(ExpressionDepth)
    /\ IsReference(Instruction)
    /\ Instruction.field \in program.optional
    /\ Evaluate(OptionalReference)

CallReference ==
    /\ InExpression
    /\ ~TooDeep(ExpressionDepth)
    /\ IsReference(Instruction)
    /\ Instruction.field \notin program.optional
    /\ returned = <<>>
    /\ call' = <<[vertex |-> Instruction.field, depth |-> ExpressionDepth + 2]>>
    /\ cycle_fallback_to_top' = cycle_fallback_to_top + Instruction.operands
    /\ field_evaluation_stack' = field_evaluation_stack + Instruction.fields
    /\ UNCHANGED <<program, vertex_cache, driver, evaluating_vertices, vertex_evaluation_stack,
                   returned>>

(* Mutated form: the operands of & around the reference are not left. *)
StillInsideOperands == cycle_fallback_to_top

OutsideOperands == cycle_fallback_to_top - Instruction.operands

ReturnToReference ==
    /\ InExpression
    /\ returned # <<>>
    /\ PushResult(returned[1])
    /\ cycle_fallback_to_top' = OutsideOperands
    /\ field_evaluation_stack' = field_evaluation_stack - Instruction.fields
    /\ returned' = <<>>
    /\ UNCHANGED <<program, vertex_cache, driver, evaluating_vertices, call>>

UnifyConjunct ==
    /\ InField
    /\ Current.conjunct <= Len(Conjuncts(Current.vertex))
    /\ Current.pc > Len(Expression)
    /\ SetFrame([Current EXCEPT !.conjunct = @ + 1, !.pc = 1, !.operands = <<>>,
                             !.value = Operate("&", <<@, Current.operands[1]>>)])
    /\ UNCHANGED <<program, vertex_cache, driver, evaluating_vertices, cycle_fallback_to_top,
                   field_evaluation_stack, call, returned>>

(* Mutated form: the mark stays. *)
StillMarked == evaluating_vertices

Unmarked == evaluating_vertices \ {Current.vertex}

(* The frame is popped, the vertex unmarked and its value cached.          *)
PopFrame ==
    /\ vertex_evaluation_stack' = SubSeq(vertex_evaluation_stack, 1, Height - 1)
    /\ evaluating_vertices' = Unmarked
    /\ vertex_cache' = Override(vertex_cache, ConstantMap({Current.vertex}, Current.value))
    /\ returned' = <<Current.value>>
    /\ UNCHANGED <<program, driver, cycle_fallback_to_top, field_evaluation_stack, call>>

FinishVertex ==
    /\ InField
    /\ Current.conjunct > Len(Conjuncts(Current.vertex))
    /\ PopFrame

(* The root has no conjunct of its own here; Current.conjunct is its next arc. *)
EvaluateArc ==
    /\ InRoot
    /\ Current.conjunct \in Vertices \ program.skipped
    /\ returned = <<>>
    /\ call' = <<[vertex |-> Current.conjunct, depth |-> Current.depth + 1]>>
    /\ UNCHANGED <<program, vertex_cache, driver, evaluating_vertices, vertex_evaluation_stack,
                   cycle_fallback_to_top, field_evaluation_stack, returned>>

SkipArc ==
    /\ InRoot
    /\ Current.conjunct \in program.skipped
    /\ SetFrame([Current EXCEPT !.conjunct = @ + 1])
    /\ UNCHANGED <<program, vertex_cache, driver, evaluating_vertices, cycle_fallback_to_top,
                   field_evaluation_stack, call, returned>>

MergeArc ==
    /\ InRoot
    /\ Current.conjunct \in Vertices
    /\ returned # <<>>
    /\ SetFrame([Current EXCEPT !.conjunct = @ + 1,
                             !.value = Override(@, ConstantMap({Current.conjunct}, returned[1]))])
    /\ returned' = <<>>
    /\ UNCHANGED <<program, vertex_cache, driver, evaluating_vertices, cycle_fallback_to_top,
                   field_evaluation_stack, call>>

FinishRoot ==
    /\ InRoot
    /\ Current.conjunct > FieldCount
    /\ PopFrame

(* The operation is over. *)
Done == phase = "done" /\ UNCHANGED vars

----------------------------------------------------------------------------
Drive ==
    \/ Collect \/ CacheCycleBottoms \/ BeginComponent \/ BeginIteration \/ ForceMember
    \/ RecordMember \/ Converge \/ Continue \/ GiveUp \/ EvaluateRoot \/ Finish

EnterCall ==
    \/ ReturnPrevious \/ ReturnCached \/ ReturnPlaceholder \/ ReturnDepthLimit \/ EnterVertex

RunFrame ==
    \/ EvaluateTooDeep \/ EvaluateLiteral \/ EvaluateOperator \/ EvaluateOptionalReference
    \/ CallReference \/ ReturnToReference \/ UnifyConjunct \/ FinishVertex
    \/ EvaluateArc \/ SkipArc \/ MergeArc \/ FinishRoot

Next == Drive \/ EnterCall \/ RunFrame \/ Done

Spec == Init /\ [][Next]_vars

(* The evaluator is a sequential loop: as long as it has a step it takes   *)
(* one.                                                                    *)
FairSpec == Spec /\ WF_vars(Next)

----------------------------------------------------------------------------
(* What must hold of every evaluation.                                     *)

Phases == {"collect", "component", "sweep", "select", "force", "root", "done"}

FrameFields == {"vertex", "depth", "conjunct", "pc", "operands", "value"}

IsFrame(frame) ==
    /\ DOMAIN frame = FrameFields
    /\ frame.vertex \in Vertices \union {Root}
    /\ frame.depth \in Nat
    /\ frame.conjunct \in Nat \ {0}
    /\ frame.pc \in Nat \ {0}
    /\ frame.vertex = Root => DOMAIN frame.value \subseteq Vertices

IsCall(c) ==
    /\ c.vertex \in Vertices \union {Root}
    /\ c.depth \in Nat

(* The control state is well formed: frames, calls and maps are about the  *)
(* vertices of the program, and the maps of the cycle being solved about   *)
(* its members (struct Evaluator).                                         *)
TypeOK ==
    /\ program \in Programs
    /\ phase \in Phases
    /\ components \in Seq(SUBSET Vertices)
    /\ fixpoint_active_vertices \subseteq Vertices
    /\ fixpoint_forcing_vertices \subseteq fixpoint_active_vertices
    /\ DOMAIN fixpoint_previous_values = fixpoint_active_vertices
    /\ DOMAIN next_values \subseteq fixpoint_active_vertices
    /\ iterations \in 0 .. MaxIterations
    /\ DOMAIN vertex_cache \subseteq Vertices \union {Root}
    /\ evaluating_vertices \subseteq Vertices \union {Root}
    /\ IsSequence(vertex_evaluation_stack)
    /\ \A i \in 1 .. Height : IsFrame(vertex_evaluation_stack[i])
    /\ call # <<>> => Len(call) = 1 /\ IsCall(call[1])
    /\ Len(returned) <= 1

(* No vertex is evaluated inside its own evaluation: the marked vertices   *)
(* are exactly those of the stack, each once, and none of them is cached   *)
(* yet (evaluating_vertices is what stops the recursion on a cycle).       *)
NoReentry ==
    /\ evaluating_vertices =
           {vertex_evaluation_stack[i].vertex : i \in 1 .. Height}
    /\ \A i, j \in 1 .. Height :
           vertex_evaluation_stack[i].vertex = vertex_evaluation_stack[j].vertex => i = j
    /\ evaluating_vertices \intersect DOMAIN vertex_cache = {}

(* The recursion never goes below the limit of EvalOptions::max_depth: a   *)
(* frame is deeper than the one that called it, and none is too deep.      *)
DepthBounded ==
    \A i \in 1 .. Height :
        /\ vertex_evaluation_stack[i].depth <= MaxDepth
        /\ i > 1 => vertex_evaluation_stack[i - 1].depth < vertex_evaluation_stack[i].depth

(* While a cycle is solved, the only member under evaluation is the forced *)
(* one: every other member is read as its previous value, however the      *)
(* evaluation comes back to it (fixpoint_reentry_value).                   *)
OnlyForcedMemberRuns ==
    evaluating_vertices \intersect fixpoint_active_vertices \subseteq fixpoint_forcing_vertices

(* Between two members, the cache holds for the members of the cycle the   *)
(* values this iteration computed, and nothing an earlier iteration left.  *)
NoStaleMember ==
    phase = "select" =>
        /\ DOMAIN vertex_cache \intersect fixpoint_active_vertices = DOMAIN next_values
        /\ \A v \in DOMAIN next_values : vertex_cache[v] = next_values[v]

(* When no evaluation is in progress nothing of one is left behind: no     *)
(* mark, no enclosing & or struct field to bend the next evaluation.       *)
QuiescentWhenIdle ==
    Idle => /\ evaluating_vertices = {}
            /\ cycle_fallback_to_top = 0
            /\ field_evaluation_stack = 0

(* A cached value changes only while its own cycle is being solved or is   *)
(* given up: the value every earlier reader saw stays the cached one.      *)
CacheStable ==
    [][\A v \in DOMAIN vertex_cache :
          \/ v \in DOMAIN vertex_cache' /\ vertex_cache'[v] = vertex_cache[v]
          \/ v \in fixpoint_active_vertices
          \/ components # <<>> /\ components' = Tail(components) /\ v \in Head(components)]_vars

(* Every evaluation ends, whatever its references look like.               *)
Termination == <>(phase = "done")
=============================================================================
