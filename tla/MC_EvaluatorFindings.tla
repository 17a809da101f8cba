------------------------ MODULE MC_EvaluatorFindings ------------------------
(***************************************************************************)
(* Programs whose result is not the greatest lower bound.                  *)
(***************************************************************************)
EXTENDS MC_Evaluator

(* a: b & >=1, b: a *)
BoundOnACycle == {PlainProgram(<< <<And(Ref(2), Lit(AtLeast(1)))>>, <<Ref(1)>> >>)}

(* a1: a2 & b1 & c, a2: a1, b1: b2 & 5, b2: b1, c: b2 *)
TwoCycles ==
    {PlainProgram(<< <<And(Ref(2), And(Ref(3), Ref(5)))>>, <<Ref(1)>>,
                     <<And(Ref(4), Lit(Number(5)))>>, <<Ref(3)>>, <<Ref(4)>> >>)}
=============================================================================
