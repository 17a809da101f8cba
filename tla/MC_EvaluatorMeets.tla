------------------------- MODULE MC_EvaluatorMeets --------------------------
(***************************************************************************)
(* Programs of literals, references and & only, whose meaning is known     *)
(* without the evaluator: MeetDenotation.                                  *)
(***************************************************************************)
EXTENDS MC_Evaluator

(* Literals, references and & only: numbers in any graph of references,    *)
(* and bounds where the references form no cycle.                          *)
NumberConjuncts(fields) ==
    {<<Lit(Number(1))>>, <<Lit(Number(2))>>}
    \union {<<Ref(f)>> : f \in fields}
    \union {<<Ref(f), Lit(Number(1))>> : f \in fields}
    \union {<<And(Ref(r[1]), And(Lit(Number(2)), Ref(r[2])))>> :
                r \in {pair \in fields \X fields : pair[1] < pair[2]}}

BoundConjuncts(fields) ==
    {<<Lit(AtLeast(2))>>}
    \union {<<Ref(f), Lit(AtMost(2))>> : f \in fields}
    \union {<<And(Lit(AtLeast(1)), Ref(f))>> : f \in fields}

AcyclicConjuncts(v) ==
    LET after == (v + 1) .. FieldCount
    IN  BoundConjuncts(after) \union NumberConjuncts(after)

NumberPrograms ==
    {PlainProgram(c) : c \in [1 .. FieldCount -> NumberConjuncts(1 .. FieldCount)]}

BoundPrograms ==
    {PlainProgram(c) :
        c \in {<<x, y, z>> : x \in AcyclicConjuncts(1), y \in AcyclicConjuncts(2),
                            z \in AcyclicConjuncts(3)}}

MeetPrograms == NumberPrograms \union BoundPrograms

(* A converged cycle is proved to be solved for programs like these.       *)
ASSUME MeetsAssumption == DepthSuffices
=============================================================================
