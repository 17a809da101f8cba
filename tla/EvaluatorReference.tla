------------------------- MODULE EvaluatorReference -------------------------
(***************************************************************************)
(* What the evaluator's answers are compared with: the meaning of a        *)
(* program that only unifies.  Nothing here is code of the repository.     *)
(***************************************************************************)
EXTENDS EvaluatorEquations, CueValues

(* What field v means in a program of literals, references and &: every    *)
(* literal that v reaches must hold of it, however its references wind.    *)
ReachableFrom(v) ==
    LET Reached[n \in 0 .. FieldCount] ==
            IF n = 0 THEN {v}
            ELSE Reached[n - 1] \union UNION {VertexReferences(w) : w \in Reached[n - 1]}
    IN  Reached[FieldCount]

LiteralsOf(v) ==
    UNION {{Conjuncts(v)[i][j].value :
                j \in {k \in DOMAIN Conjuncts(v)[i] : Conjuncts(v)[i][k].op = "lit"}} :
           i \in DOMAIN Conjuncts(v)}

MeetDenotation(v, universe) ==
    {n \in universe : \A w \in ReachableFrom(v) : \A x \in LiteralsOf(w) : Admits(x, n)}

----------------------------------------------------------------------------
CONSTANT Numbers    \* the numbers that tell the literals of the programs apart

(* Unification is the greatest lower bound: every field of the result is   *)
(* satisfied by exactly the numbers that satisfy all the literals it       *)
(* reaches, through cycles and in whatever order the fields were           *)
(* evaluated, unless it says that it met the depth limit or an optional    *)
(* field (evaluate_vertex).                                                *)
MeetOfReachable ==
    phase = "done" =>
        \A v \in DOMAIN result :
            \/ result[v] \in {DepthLimit, OptionalReference}
            \/ Denotation(result[v], Numbers) = MeetDenotation(v, Numbers)
=============================================================================
