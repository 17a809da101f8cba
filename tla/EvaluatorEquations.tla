------------------------- MODULE EvaluatorEquations -------------------------
(***************************************************************************)
(* The equations that the fields of a program state, one per field: a      *)
(* field is its conjuncts unified, with every reference read from a map.   *)
(* Solving a cycle promises a map that solves them; nothing here is code   *)
(* of the repository.                                                      *)
(***************************************************************************)
EXTENDS Evaluator

(* What an instruction of program p adds, its references read from m.      *)
InstructionValue(p, instruction, operands, m) ==
    CASE instruction.op = "lit" -> instruction.value
      [] IsReference(instruction) ->
            IF instruction.field \in p.optional THEN OptionalReference ELSE m[instruction.field]
      [] OTHER -> Operate(instruction.op,
                          SubSeq(operands, Len(operands) - Arity(instruction.op) + 1,
                                 Len(operands)))

Apply(p, instruction, operands, m) ==
    Append(SubSeq(operands, 1, Len(operands) - Arity(instruction.op)),
           InstructionValue(p, instruction, operands, m))

(* The operands after the first n instructions of an expression.           *)
Operands(p, expression, m) ==
    LET After[n \in 0 .. Len(expression)] ==
            IF n = 0 THEN <<>> ELSE Apply(p, expression[n], After[n - 1], m)
    IN  After

ExpressionValue(p, expression, m) == Operands(p, expression, m)[Len(expression)][1]

(* The first n conjuncts of field v, unified.                              *)
UnifiedConjuncts(p, v, m) ==
    LET Unified[n \in 0 .. Len(p.conjuncts[v])] ==
            IF n = 0 THEN Top
            ELSE Operate("&", <<Unified[n - 1], ExpressionValue(p, p.conjuncts[v][n], m)>>)
    IN  Unified

(* The right-hand side of the equation of field v. *)
EquationValue(p, v, m) == UnifiedConjuncts(p, v, m)[Len(p.conjuncts[v])]

Solves(p, v, m) ==
    /\ ReferencesOf(p, v) \ p.optional \subseteq DOMAIN m
    /\ m[v] = EquationValue(p, v, m)

(* Nothing in the expressions of a field is below the limit, nor what they *)
(* refer to, when the field is evaluated for itself as the members of a    *)
(* cycle are: below the limit there are no values, only bottoms.           *)
DepthSuffices ==
    \A p \in Programs : \A v \in Vertices : \A i \in 1 .. Len(p.conjuncts[v]) :
        \A j \in 1 .. Len(p.conjuncts[v][i]) :
            LET instruction == p.conjuncts[v][i][j]
            IN  ~TooDeep(instruction.nesting + IF IsReference(instruction) THEN 3 ELSE 1)

(* A cycle that converged is solved: each of its fields has exactly the    *)
(* value its own expressions give when every reference is read from the    *)
(* cache the component leaves behind (iterate_fixpoint_vertices).          *)
ConvergedSolves ==
    [][phase = "select" /\ phase' = "component" =>
          \A v \in fixpoint_active_vertices : Solves(program, v, vertex_cache')]_vars
=============================================================================
