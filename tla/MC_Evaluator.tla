---------------------------- MODULE MC_Evaluator ----------------------------
(***************************************************************************)
(* How the evaluator is instantiated for TLC: the values and operators of  *)
(* CueValues, the component order of DependencyGraph, and builders of      *)
(* expressions in postfix form.                                            *)
(***************************************************************************)
EXTENDS EvaluatorReference, DependencyGraph

(* Builders of postfix expressions. *)
Lit(x) == <<[op |-> "lit", value |-> x, nesting |-> 0]>>
Ref(f) == <<[op |-> "ref", field |-> f, operands |-> 0, fields |-> 0, nesting |-> 0]>>
Op(op) == <<[op |-> op, nesting |-> 0]>>

Nested(expression, operands, fields) ==
    [i \in DOMAIN expression |->
        LET deeper == [expression[i] EXCEPT !.nesting = @ + 1]
        IN  IF IsReference(deeper)
            THEN [deeper EXCEPT !.operands = @ + operands, !.fields = @ + fields]
            ELSE deeper]

And(l, r) == Nested(l, 1, 0) \o Nested(r, 1, 0) \o Op("&")
Or(l, r) == Nested(l, 0, 0) \o Nested(r, 0, 0) \o Op("|")
Inc(e) == Nested(e, 0, 0) \o Op("+1")
InStruct(e) == Nested(e, 0, 1) \o Op("struct")

MCTop == TopValue
MCStructuralCycle == Bottom("structural_cycle")
MCUnresolvedCycle == Bottom("cycle")
MCIterationLimit == Bottom("cycle_fixpoint_limit")
MCDepthLimit == Bottom("depth_limit")
MCOptionalReference == Bottom("optional_field_reference")

PlainProgram(conjuncts) == [conjuncts |-> conjuncts, optional |-> {}, skipped |-> {}]
=============================================================================
