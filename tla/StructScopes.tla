---------------------------- MODULE StructScopes ----------------------------
(***************************************************************************)
(* Struct literals, comprehensions and the local scopes of crates/eval     *)
(* (struct Evaluator): how evaluate_struct_fields evaluates the members of *)
(* a struct in order, and how a reference is resolved at run time, first   *)
(* against the scopes of the structs whose evaluation is in progress,      *)
(* innermost first (evaluate_local_field_reference), then against the      *)
(* top-level fields.                                                       *)
(*                                                                         *)
(* The stack holds the calls in progress.  The code pushes and pops        *)
(* local_fields, local_values, local_evaluating and field_evaluation_stack *)
(* together around a struct and its members: they are the struct frames of *)
(* the stack.  cycle_fallback_to_top counts its operand frames,            *)
(* local_bindings are its loop frames, and the vertices that are marked    *)
(* are those of its vertex frames.                                         *)
(* The cycles between top-level fields are the subject of Evaluator; the   *)
(* programs here have none but a field that refers to itself.              *)
(***************************************************************************)
EXTENDS Naturals, SequencesExt

CONSTANTS
    Programs,            \* the compiled instances, with the evaluation options
    Expressions,         \* the expressions of the instances, and their parts
    MaxGeneratedItems,   \* MAX_COMPREHENSION_GENERATED_ITEMS
    Top,                 \* EvaluatedValue::Top
    Error(_),            \* EvaluatedValue::Bottom with a code
    Unify(_, _),         \* unify_values
    StructOf(_),         \* EvaluatedValue::Struct of a function from names to values
    FieldsOf(_),         \* its inverse
    IsStruct(_),
    IsTrue(_), IsFalse(_), IsError(_),
    IsIterable(_),       \* a list or a struct
    ItemsOf(_)           \* comprehension_items: its items, in order

(***************************************************************************)
(* program.arcs is the sequence of the top-level names, program.conjuncts  *)
(* gives each its expressions, program.max_depth is EvalOptions::max_depth.*)
(* program.errors are the diagnostics: with any, nothing is evaluated.     *)
(* An expression is a literal, a reference to a field, a let (which holds  *)
(* its expression), a variable of a comprehension, l & r, or a struct: a   *)
(* sequence of members, fields, in which a name may be declared more than  *)
(* once, and comprehensions.                                               *)
(***************************************************************************)
IsField(member) == member.member = "field"

ClauseExpression(c) == IF c.clause = "for" THEN c.source ELSE c.condition

MemberParts(m) ==
    IF IsField(m) THEN {m.expression}
    ELSE {m.body} \union {ClauseExpression(m.clauses[i]) : i \in 1 .. Len(m.clauses)}

(* The expressions that the evaluation of an expression can evaluate next. *)
Parts(e) ==
    CASE e.op = "let" -> {e.expression}
      [] e.op = "and" -> {e.left, e.right}
      [] e.op = "struct" -> UNION {MemberParts(e.members[i]) : i \in 1 .. Len(e.members)}
      [] OTHER -> {}

IsMember(m) ==
    \/ m.member = "field"
    \/ /\ m.member = "comprehension"
       /\ Len(m.clauses) \in Nat
       /\ \A i \in 1 .. Len(m.clauses) : m.clauses[i].clause \in {"for", "if"}

HoldsParts(expressions) ==
    \A e \in expressions :
        /\ Parts(e) \subseteq expressions
        /\ e.op = "struct" =>
               /\ Len(e.members) \in Nat
               /\ DOMAIN e.members = 1 .. Len(e.members)
               /\ \A i \in 1 .. Len(e.members) : IsMember(e.members[i])

(* The expressions of the programs that are evaluated at all. *)
Conjuncts(programs) ==
    UNION {UNION {{p.conjuncts[v][i] : i \in 1 .. Len(p.conjuncts[v])} : v \in DOMAIN p.conjuncts} :
              p \in {q \in programs : q.errors = {}}}

ArePrograms(programs) ==
    /\ \A p \in programs :
           /\ p.max_depth \in Nat
           /\ Len(p.arcs) \in Nat
           /\ DOMAIN p.conjuncts = {p.arcs[i] : i \in 1 .. Len(p.arcs)}
           /\ \A v \in DOMAIN p.conjuncts : Len(p.conjuncts[v]) \in Nat
    /\ Conjuncts(programs) \subseteq Expressions

ASSUME ProgramsAssumption == ArePrograms(Programs)

ASSUME ExpressionsAssumption == HoldsParts(Expressions)

ASSUME LimitAssumption == MaxGeneratedItems \in Nat

VARIABLES
    program,        \* the compiled instance
    vertex_cache,   \* finished top-level fields and their values
    stack,          \* the calls in progress, the root's first
    control         \* what the evaluator does next

vars == <<program, vertex_cache, stack, control>>

Names(members) == {members[i].name : i \in {j \in DOMAIN members : IsField(members[j])}}

(* static_local_fields collects the members into a map: of the members     *)
(* with the same name it keeps the last one's expression.                  *)
LocalField(members, name) ==
    members[CHOOSE i \in 1 .. Len(members) :
                /\ IsField(members[i]) /\ members[i].name = name
                /\ \A j \in i + 1 .. Len(members) : ~(IsField(members[j]) /\ members[j].name = name)].expression

Put(M, name, value) ==
    [n \in DOMAIN M \union {name} |-> IF n = name THEN value ELSE M[n]]

EmptyMap == [n \in {} |-> Top]

(* merge_field_value, merge_struct_member_value *)
MergeFields(M, N) ==
    [n \in DOMAIN M \union DOMAIN N |->
        IF n \notin DOMAIN N THEN M[n] ELSE IF n \notin DOMAIN M THEN N[n] ELSE Unify(M[n], N[n])]

StructuralCycle == Error("structural_cycle")
DepthLimit == Error("depth_limit")

(* What the evaluator does next: evaluate a vertex or an expression, give  *)
(* a value to the frame on top of the stack, or go on with that frame.     *)
CallVertex(name, depth) == [op |-> "vertex", name |-> name, depth |-> depth]
EvaluateAt(expression, depth) == [op |-> "evaluate", expression |-> expression, depth |-> depth]
Return(value) == [op |-> "return", value |-> value]
CallClause(index, depth) == [op |-> "clause", index |-> index, depth |-> depth]
GoOn == [op |-> "go_on"]
Stop == [op |-> "stop"]

Init ==
    /\ program \in Programs
    /\ vertex_cache = EmptyMap
    /\ stack = <<[kind |-> "root", next |-> 1, values |-> EmptyMap]>>
    /\ control = IF program.errors = {} THEN GoOn ELSE Stop

Height == Len(stack)
Current == stack[Height]
SetCurrent(frame) == stack' = [stack EXCEPT ![Height] = frame]
Push(frame) == stack' = Append(stack, frame)
Pop == stack' = SubSeq(stack, 1, Height - 1)

GoesOn(kind) == control.op = "go_on" /\ Current.kind = kind
Receives(kind) == control.op = "return" /\ Current.kind = kind

FramesOf(kind) == {i \in 1 .. Height : stack[i].kind = kind}
(* field_evaluation_stack *)
FieldsInProgress ==
    {i \in FramesOf("struct") : /\ stack[i].next \in DOMAIN stack[i].members
                                /\ IsField(stack[i].members[stack[i].next])}
Topmost(indices) == CHOOSE i \in indices : \A j \in indices : i >= j
TooDeep(depth) == depth > program.max_depth

----------------------------------------------------------------------------
(* The root and the top-level fields: evaluate_vertex_at. *)

EvaluateArc ==
    /\ GoesOn("root")
    /\ Current.next <= Len(program.arcs)
    /\ control' = CallVertex(program.arcs[Current.next], 1)
    /\ UNCHANGED <<program, vertex_cache, stack>>

MergeArc ==
    /\ Receives("root")
    /\ SetCurrent([Current EXCEPT !.next = @ + 1,
                      !.values = Put(@, program.arcs[Current.next], control.value)])
    /\ control' = GoOn
    /\ UNCHANGED <<program, vertex_cache>>

Finish ==
    /\ GoesOn("root")
    /\ Current.next > Len(program.arcs)
    /\ control' = Stop
    /\ UNCHANGED <<program, vertex_cache, stack>>

Calls(v) == control.op = "vertex" /\ control.name = v

ReturnCached ==
    \E v \in DOMAIN vertex_cache :
        /\ Calls(v)
        /\ control' = Return(vertex_cache[v])
        /\ UNCHANGED <<program, vertex_cache, stack>>

(* Mutated form: a field is never seen in progress. *)
NeverInProgress(v) == FALSE

(* evaluating_vertices *)
InProgress(v) == \E i \in FramesOf("vertex") : stack[i].vertex = v

(* is_structural_vertex_cycle: field_evaluation_stack may have been pushed *)
(* by any struct, not only by one of v itself.                             *)
IsStructuralVertexCycle(v) ==
    /\ stack[Topmost(FramesOf("vertex"))].vertex = v
    /\ FieldsInProgress # {}

ReturnPlaceholder ==
    \E v \in DOMAIN program.conjuncts \ DOMAIN vertex_cache :
        /\ Calls(v)
        /\ InProgress(v)
        /\ control' = Return(IF FramesOf("operand") = {} /\ IsStructuralVertexCycle(v)
                             THEN StructuralCycle ELSE Top)
        /\ UNCHANGED <<program, vertex_cache, stack>>

VertexTooDeep ==
    \E v \in DOMAIN program.conjuncts \ DOMAIN vertex_cache :
        /\ Calls(v)
        /\ ~InProgress(v)
        /\ TooDeep(control.depth)
        /\ control' = Return(DepthLimit)
        /\ UNCHANGED <<program, vertex_cache, stack>>

EnterVertex ==
    \E v \in DOMAIN program.conjuncts \ DOMAIN vertex_cache :
        /\ Calls(v)
        /\ ~InProgress(v)
        /\ ~TooDeep(control.depth)
        /\ Push([kind |-> "vertex", vertex |-> v, depth |-> control.depth, next |-> 1,
                 value |-> Top])
        /\ control' = GoOn
        /\ UNCHANGED <<program, vertex_cache>>

EvaluateConjunct ==
    /\ GoesOn("vertex")
    /\ Current.next <= Len(program.conjuncts[Current.vertex])
    /\ control' = EvaluateAt(program.conjuncts[Current.vertex][Current.next], Current.depth + 1)
    /\ UNCHANGED <<program, vertex_cache, stack>>

UnifyConjunct ==
    /\ Receives("vertex")
    /\ SetCurrent([Current EXCEPT !.next = @ + 1, !.value = Unify(@, control.value)])
    /\ control' = GoOn
    /\ UNCHANGED <<program, vertex_cache>>

FinishVertex ==
    /\ GoesOn("vertex")
    /\ Current.next > Len(program.conjuncts[Current.vertex])
    /\ Pop
    /\ vertex_cache' = Put(vertex_cache, Current.vertex, Current.value)
    /\ control' = Return(Current.value)
    /\ UNCHANGED program

----------------------------------------------------------------------------
(* Expressions: evaluate_expr_at. *)

Evaluates(op) ==
    /\ control.op = "evaluate"
    /\ ~TooDeep(control.depth)
    /\ control.expression.op = op

ExpressionTooDeep ==
    /\ control.op = "evaluate"
    /\ TooDeep(control.depth)
    /\ control' = Return(DepthLimit)
    /\ UNCHANGED <<program, vertex_cache, stack>>

EvaluateLiteral ==
    /\ Evaluates("lit")
    /\ control' = Return(control.expression.value)
    /\ UNCHANGED <<program, vertex_cache, stack>>

(* A let has no scope of its own: its expression is evaluated where it is  *)
(* referred to.                                                            *)
EvaluateLet ==
    /\ Evaluates("let")
    /\ control' = EvaluateAt(control.expression.expression, control.depth + 1)
    /\ UNCHANGED <<program, vertex_cache, stack>>

(* l & r: the operands are evaluated with cycle_fallback_to_top raised,    *)
(* one deeper than the expression.                                         *)
EnterOperand ==
    /\ Evaluates("and")
    /\ Push([kind |-> "operand", right |-> control.expression.right, left |-> Top, second |-> FALSE,
             depth |-> control.depth + 1])
    /\ control' = EvaluateAt(control.expression.left, control.depth + 1)
    /\ UNCHANGED <<program, vertex_cache>>

SecondOperand ==
    /\ Receives("operand") /\ ~Current.second
    /\ SetCurrent([Current EXCEPT !.left = control.value, !.second = TRUE])
    /\ control' = EvaluateAt(Current.right, Current.depth)
    /\ UNCHANGED <<program, vertex_cache>>

LeaveOperand ==
    /\ Receives("operand") /\ Current.second
    /\ Pop
    /\ control' = Return(Unify(Current.left, control.value))
    /\ UNCHANGED <<program, vertex_cache>>

----------------------------------------------------------------------------
(* Structs: evaluate_struct_fields and evaluate_field_member.  The values  *)
(* of a struct are those of the result, local_values what references see.  *)

EnterStruct ==
    /\ Evaluates("struct")
    /\ Push([kind |-> "struct", members |-> control.expression.members,
             depth |-> control.depth + 1, next |-> 1, values |-> EmptyMap, local_values |-> EmptyMap])
    /\ control' = GoOn
    /\ UNCHANGED <<program, vertex_cache>>

AtMember(kind) ==
    /\ GoesOn("struct")
    /\ Current.next <= Len(Current.members)
    /\ Current.members[Current.next].member = kind

EvaluateMember ==
    /\ AtMember("field")
    /\ control' = EvaluateAt(Current.members[Current.next].expression, Current.depth)
    /\ UNCHANGED <<program, vertex_cache, stack>>

(* Mutated forms: the same member again, or the one after the next. *)
SameMember(next) == next
SkippedMember(next) == next + 2

NextMember(next) == next + 1

(* The member's value is merged, and what it is merged to is what later    *)
(* references to the name see.                                             *)
MergeMember ==
    /\ Receives("struct")
    /\ LET name == Current.members[Current.next].name
           values == MergeFields(Current.values, [n \in {name} |-> control.value])
       IN  SetCurrent([Current EXCEPT !.next = NextMember(@), !.values = values,
                                      !.local_values = Put(@, name, values[name])])
    /\ control' = GoOn
    /\ UNCHANGED <<program, vertex_cache>>

FinishStruct ==
    /\ GoesOn("struct")
    /\ Current.next > Len(Current.members)
    /\ Pop
    /\ control' = Return(StructOf(Current.values))
    /\ UNCHANGED <<program, vertex_cache>>

----------------------------------------------------------------------------
(* Comprehensions: evaluate_comprehension, evaluate_comprehension_clause.  *)
(* A comprehension frame collects the results; above it there is a frame   *)
(* for each clause in progress: the condition of an if, the source of a    *)
(* for, and a loop over the items of a for.                                *)

EnterComprehension ==
    /\ AtMember("comprehension")
    /\ Push([kind |-> "comprehension", clauses |-> Current.members[Current.next].clauses,
             body |-> Current.members[Current.next].body, results |-> <<>>])
    /\ control' = CallClause(1, Current.depth)
    /\ UNCHANGED <<program, vertex_cache>>

Comprehension == stack[Topmost(FramesOf("comprehension"))]
AtClause(kind) ==
    /\ control.op = "clause"
    /\ control.index <= Len(Comprehension.clauses)
    /\ Comprehension.clauses[control.index].clause = kind

(* ComprehensionControl *)
Continue == [op |-> "continue"]
Halt == [op |-> "halt"]

Keep(frames, result) ==
    LET top == CHOOSE i \in DOMAIN frames : /\ frames[i].kind = "comprehension"
                                            /\ \A j \in i + 1 .. Len(frames) : frames[j].kind # "comprehension"
    IN  [frames EXCEPT ![top].results = Append(@, result)]
Below == SubSeq(stack, 1, Height - 1)

(* Past the last clause: the body is evaluated once more. *)
GenerateItem ==
    /\ control.op = "clause" /\ control.index > Len(Comprehension.clauses)
    /\ IF Len(Comprehension.results) >= MaxGeneratedItems
       THEN stack' = Keep(stack, Error("comprehension_limit")) /\ control' = Halt
       ELSE /\ Push([kind |-> "body"])
            /\ control' = EvaluateAt(Comprehension.body, control.depth + 1)
    /\ UNCHANGED <<program, vertex_cache>>

KeepItem ==
    /\ Receives("body")
    /\ stack' = Keep(Below, control.value)
    /\ control' = Continue
    /\ UNCHANGED <<program, vertex_cache>>

EvaluateCondition ==
    /\ AtClause("if")
    /\ Push([kind |-> "condition", index |-> control.index, depth |-> control.depth])
    /\ control' = EvaluateAt(Comprehension.clauses[control.index].condition, control.depth + 1)
    /\ UNCHANGED <<program, vertex_cache>>

TestCondition ==
    /\ Receives("condition")
    /\ IF IsTrue(control.value) THEN Pop /\ control' = CallClause(Current.index + 1, Current.depth + 1)
       ELSE IF IsFalse(control.value) THEN Pop /\ control' = Continue
       ELSE /\ stack' = Keep(Below, IF IsError(control.value) THEN control.value
                                    ELSE Error("invalid_comprehension_if"))
            /\ control' = Halt
    /\ UNCHANGED <<program, vertex_cache>>

EvaluateSource ==
    /\ AtClause("for")
    /\ Push([kind |-> "source", index |-> control.index, depth |-> control.depth])
    /\ control' = EvaluateAt(Comprehension.clauses[control.index].source, control.depth + 1)
    /\ UNCHANGED <<program, vertex_cache>>

BeginLoop ==
    /\ Receives("source")
    /\ IF IsIterable(control.value) /\ Len(ItemsOf(control.value)) \in 0 .. MaxGeneratedItems
       THEN /\ SetCurrent([kind |-> "loop", index |-> Current.index, depth |-> Current.depth,
                           variable |-> Comprehension.clauses[Current.index].variable,
                           item |-> 0, items |-> ItemsOf(control.value)])
            /\ control' = Continue
       ELSE /\ stack' = Keep(Below, IF IsError(control.value) THEN control.value
                                    ELSE IF IsIterable(control.value) THEN Error("comprehension_limit")
                                    ELSE Error("invalid_comprehension_source"))
            /\ control' = Halt
    /\ UNCHANGED <<program, vertex_cache>>

At(kind, op) == control.op = op /\ Current.kind = kind

(* The bindings of an item are visible while the clauses after it run. *)
NextItem ==
    /\ At("loop", "continue")
    /\ Current.item < Len(Current.items)
    /\ SetCurrent([Current EXCEPT !.item = @ + 1])
    /\ control' = CallClause(Current.index + 1, Current.depth + 1)
    /\ UNCHANGED <<program, vertex_cache>>

EndLoop ==
    /\ At("loop", "continue") \/ At("loop", "halt")
    /\ control.op = "continue" => Current.item = Len(Current.items)
    /\ Pop
    /\ UNCHANGED <<program, vertex_cache, control>>

(* merge_struct_member_value: if every result is a struct, their fields    *)
(* become fields of the struct around the comprehension, which references  *)
(* do not see; any other result drops them all.                            *)
FinishComprehension ==
    /\ At("comprehension", "continue") \/ At("comprehension", "halt")
    /\ LET results == Current.results
           outer == stack[Height - 1]
           added == IF \A i \in DOMAIN results : IsStruct(results[i])
                    THEN FoldLeft(LAMBDA fields, result : MergeFields(fields, FieldsOf(result)),
                                  EmptyMap, results)
                    ELSE EmptyMap
       IN  stack' = [Below EXCEPT ![Height - 1] = [outer EXCEPT !.next = NextMember(@),
                                                                !.values = MergeFields(@, added)]]
    /\ control' = GoOn
    /\ UNCHANGED <<program, vertex_cache>>

(* evaluate_dynamic_reference: the innermost loop in progress that has a   *)
(* variable of the name.                                                   *)
EvaluateBinding ==
    /\ Evaluates("bound")
    /\ LET loops == {i \in FramesOf("loop") : stack[i].variable = control.expression.name}
           loop == stack[Topmost(loops)]
       IN  control' = Return(IF loops = {} THEN Error("missing_binding") ELSE loop.items[loop.item])
    /\ UNCHANGED <<program, vertex_cache, stack>>

----------------------------------------------------------------------------
(* References: evaluate_field_reference, evaluate_local_field_reference.   *)

DeclaringScopes(name) == {i \in FramesOf("struct") : name \in Names(stack[i].members)}

(* Mutated form: the scopes are searched from the outside. *)
OutermostScope(name) == CHOOSE i \in DeclaringScopes(name) : \A j \in DeclaringScopes(name) : i <= j

InnermostScope(name) == Topmost(DeclaringScopes(name))

(* local_evaluating: the member a scope is evaluating in its turn.  A      *)
(* sibling that is evaluated for a reference is not marked.                *)
IsLocalEvaluating(scope, name) ==
    scope \in FieldsInProgress /\ stack[scope].members[stack[scope].next].name = name

(* is_structural_ancestor_cycle *)
IsStructuralAncestorCycle(scope) == scope < Topmost(FieldsInProgress)

RefersTo(name) == Evaluates("ref") /\ control.expression.name = name

ReferToLocalValue ==
    \E name \in UNION {DOMAIN stack[i].local_values : i \in FramesOf("struct")} :
        /\ RefersTo(name)
        /\ name \in DOMAIN stack[InnermostScope(name)].local_values
        /\ control' = Return(stack[InnermostScope(name)].local_values[name])
        /\ UNCHANGED <<program, vertex_cache, stack>>

LocalNames == UNION {Names(stack[i].members) : i \in FramesOf("struct")}

ReferToFieldInProgress ==
    \E name \in LocalNames :
        /\ RefersTo(name)
        /\ name \notin DOMAIN stack[InnermostScope(name)].local_values
        /\ IsLocalEvaluating(InnermostScope(name), name)
        /\ control' = Return(IF /\ FramesOf("operand") = {}
                                /\ IsStructuralAncestorCycle(InnermostScope(name))
                             THEN StructuralCycle ELSE Top)
        /\ UNCHANGED <<program, vertex_cache, stack>>

(* A field whose turn has not come is evaluated where the reference is:    *)
(* in the scopes of the moment, and without being marked.                  *)
ReferToSibling ==
    \E name \in LocalNames :
        /\ RefersTo(name)
        /\ name \notin DOMAIN stack[InnermostScope(name)].local_values
        /\ ~IsLocalEvaluating(InnermostScope(name), name)
        /\ control' = EvaluateAt(LocalField(stack[InnermostScope(name)].members, name),
                                 control.depth + 2)
        /\ UNCHANGED <<program, vertex_cache, stack>>

ReferToVertex ==
    \E name \in DOMAIN program.conjuncts :
        /\ RefersTo(name)
        /\ DeclaringScopes(name) = {}
        /\ control' = CallVertex(name, control.depth + 2)
        /\ UNCHANGED <<program, vertex_cache, stack>>

(* A field that its package does not have: the compiler does not look. *)
ReferToMissing ==
    /\ Evaluates("ref")
    /\ control.expression.name \notin DOMAIN program.conjuncts
    /\ DeclaringScopes(control.expression.name) = {}
    /\ control' = Return(Error("missing_reference"))
    /\ UNCHANGED <<program, vertex_cache, stack>>

(* The operation is over. *)
Stopped == control = Stop /\ UNCHANGED vars

----------------------------------------------------------------------------
Next ==
    \/ EvaluateArc \/ MergeArc \/ Finish
    \/ ReturnCached \/ ReturnPlaceholder \/ VertexTooDeep \/ EnterVertex
    \/ EvaluateConjunct \/ UnifyConjunct \/ FinishVertex
    \/ ExpressionTooDeep \/ EvaluateLiteral \/ EvaluateLet
    \/ EnterOperand \/ SecondOperand \/ LeaveOperand
    \/ EnterStruct \/ EvaluateMember \/ MergeMember \/ FinishStruct
    \/ EnterComprehension \/ GenerateItem \/ KeepItem \/ EvaluateCondition \/ TestCondition
    \/ EvaluateSource \/ BeginLoop \/ NextItem \/ EndLoop \/ FinishComprehension \/ EvaluateBinding
    \/ ReferToLocalValue \/ ReferToFieldInProgress \/ ReferToSibling \/ ReferToVertex
    \/ ReferToMissing
    \/ Stopped

Spec == Init /\ [][Next]_vars

FairSpec == Spec /\ WF_vars(Next)

----------------------------------------------------------------------------
(* What the evaluator holds: calls of each kind where the code makes them, *)
(* each at one of its members, clauses or items or past the last, values   *)
(* that references see of declared fields only, and cached values of the   *)
(* instance's fields (struct Evaluator).                                   *)
TypeOK ==
    /\ DOMAIN program.conjuncts = {program.arcs[i] : i \in 1 .. Len(program.arcs)}
    /\ DOMAIN vertex_cache \subseteq DOMAIN program.conjuncts
    /\ \A i \in 1 .. Height :
          LET frame == stack[i]
          IN  CASE frame.kind = "root" -> i = 1 /\ frame.next \in 1 .. Len(program.arcs) + 1
                [] frame.kind = "vertex" ->
                      /\ frame.vertex \in DOMAIN program.conjuncts
                      /\ frame.next \in 1 .. Len(program.conjuncts[frame.vertex]) + 1
                [] frame.kind = "struct" ->
                      /\ frame.next \in 1 .. Len(frame.members) + 1
                      /\ DOMAIN frame.local_values \subseteq DOMAIN frame.values \intersect Names(frame.members)
                [] frame.kind = "operand" -> i > 1 /\ frame.second \in BOOLEAN
                [] frame.kind = "comprehension" ->
                      /\ stack[i - 1].kind = "struct"
                      /\ Len(frame.results) \in 0 .. MaxGeneratedItems + 1
                [] frame.kind \in {"condition", "source", "loop", "body"} ->
                      /\ stack[i - 1].kind \in {"comprehension", "loop"}
                      /\ frame.kind = "loop" => frame.item \in 0 .. Len(frame.items)
    /\ control.op \in {"vertex", "evaluate", "return", "clause", "continue", "halt", "go_on", "stop"}

(* No top-level field is evaluated inside its own evaluation, and none     *)
(* that is in progress is in the cache: a value enters vertex_cache once,  *)
(* when no scope of the field's evaluation is left (evaluate_vertex_at).   *)
SingleEvaluation ==
    \A i \in FramesOf("vertex") :
        /\ stack[i].vertex \notin DOMAIN vertex_cache
        /\ \A j \in FramesOf("vertex") : stack[i].vertex = stack[j].vertex => i = j
=============================================================================
