---------------------- MODULE MC_StructScopesFindings ----------------------
(***************************************************************************)
(* Sources whose references do not get their lexical meaning.              *)
(***************************************************************************)
EXTENDS MC_StructScopes

(* a: {y: 1, x: b}, b: y and y: 2.  The y of b is the top-level one. *)
CaptureSources ==
    {Single(Ordered(order, [n \in {"a", "b", "y"} |->
                        CASE n = "a" -> Struct(<<Field("y", Lit(1)), Field("x", Name("b"))>>)
                          [] n = "b" -> Name("y")
                          [] n = "y" -> Lit(2)])) :
        order \in {s \in [1 .. 3 -> {"a", "b", "y"}] : \A i, j \in 1 .. 3 : s[i] = s[j] => i = j}}
CapturePrograms == {Compile(source) : source \in CaptureSources}
CaptureExpressions == ExpressionsIn(Conjuncts(CapturePrograms))

(* a: {x: y, y: y}, where CUE makes both fields anything at all. *)
SiblingPrograms ==
    {Compile(Single(<<Field("a", Struct(<<Field("x", Name("y")), Field("y", Name("y"))>>))>>))}
SiblingExpressions == ExpressionsIn(Conjuncts(SiblingPrograms))
=============================================================================
