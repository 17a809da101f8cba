------------------------- MODULE MC_EvaluatorShapes -------------------------
(***************************************************************************)
(* Two fields, each given every expression of a library that has every     *)
(* operator.                                                               *)
(***************************************************************************)
EXTENDS MC_Evaluator

(* One expression of every shape, towards every field; one of the fields   *)
(* may be optional, and one may be left out of the result.                 *)
AnyConjuncts(fields) ==
    {<<Lit(Number(1))>>}
    \union {<<Ref(f)>> : f \in fields}
    \union {<<Ref(f), Lit(Number(1))>> : f \in fields}
    \union {<<And(Ref(f), Lit(AtLeast(1)))>> : f \in fields}
    \union {<<Or(Ref(f), Lit(Number(1)))>> : f \in fields}
    \union {<<Inc(Ref(f))>> : f \in fields}
    \union {<<InStruct(Ref(f))>> : f \in fields}
    \union {<<And(InStruct(Ref(f)), Lit(Struct(TopValue)))>> : f \in fields}

ShapePrograms ==
    {PlainProgram(c) : c \in [1 .. FieldCount -> AnyConjuncts(1 .. FieldCount)]}
    \union {[conjuncts |-> [v \in 1 .. FieldCount |-> IF v = 1 THEN c ELSE <<Lit(Number(1))>>],
             optional |-> o, skipped |-> s] :
                c \in AnyConjuncts(1 .. FieldCount),
                o \in SUBSET (1 .. FieldCount), s \in SUBSET (1 .. FieldCount)}
=============================================================================
