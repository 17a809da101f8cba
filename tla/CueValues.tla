----------------------------- MODULE CueValues -----------------------------
(***************************************************************************)
(* The evaluated values of crates/eval that the evaluator's runs need, and *)
(* the operations on them: unification, disjunction, addition and the      *)
(* struct literal with one field.  A number is an integer, a bound is      *)
(* ">=" or "<=" with its limit, a disjunction is the sequence of its       *)
(* (unmarked) alternatives, and a struct has a single field x.  Default    *)
(* marks, strings, lists and closedness are not part of this fragment.     *)
(***************************************************************************)
EXTENDS Naturals, Sequences, SequencesExt

(* value constructors (EvaluatedValue) *)
TopValue == [kind |-> "top"]
Bottom(code) == [kind |-> "bottom", code |-> code]
Number(n) == [kind |-> "number", n |-> n]
NumericConstraint(bounds) == [kind |-> "bounds", bounds |-> bounds]
Disjunction(alternatives) == [kind |-> "disjunction", alternatives |-> alternatives]
Struct(x) == [kind |-> "struct", x |-> x]

AtLeast(n) == NumericConstraint(<<[op |-> ">=", limit |-> n]>>)
AtMost(n) == NumericConstraint(<<[op |-> "<=", limit |-> n]>>)

IsBottom(v) == v.kind = "bottom"
NoBottom(v) == ~IsBottom(v)

SatisfiesBound(n, bound) ==
    IF bound.op = ">=" THEN n >= bound.limit ELSE n <= bound.limit

(* number_satisfies_bounds, unify_numeric_constraint *)
UnifyNumericConstraint(n, bounds) ==
    IF \A i \in DOMAIN bounds : SatisfiesBound(n, bounds[i])
    THEN Number(n)
    ELSE Bottom("numeric_bound_mismatch")

----------------------------------------------------------------------------
(* values_equal(..).unwrap_or(false): a bottom anywhere makes the          *)
(* comparison fail, and a failed comparison counts as "different".         *)
RECURSIVE ContainsBottom(_)
ContainsBottom(v) ==
    \/ IsBottom(v)
    \/ v.kind = "struct" /\ ContainsBottom(v.x)

ValuesEqual(a, b) == a = b /\ ~ContainsBottom(a)

(* unique_disjuncts: keep the first of equal alternatives *)
UniqueDisjuncts(alternatives) ==
    FoldLeft(LAMBDA kept, v : IF \E i \in DOMAIN kept : ValuesEqual(kept[i], v)
                              THEN kept ELSE Append(kept, v),
             <<>>, alternatives)

CollapseDisjunction(alternatives) ==
    CASE alternatives = <<>> -> Bottom("empty_disjunction")
      [] Len(alternatives) = 1 -> alternatives[1]
      [] OTHER -> Disjunction(alternatives)

DisjunctsFrom(v) ==
    CASE IsBottom(v) -> <<>>
      [] v.kind = "disjunction" -> v.alternatives
      [] OTHER -> <<v>>

EvaluateDisjunction(l, r) ==
    CollapseDisjunction(UniqueDisjuncts(DisjunctsFrom(l) \o DisjunctsFrom(r)))

(* Every pair of l \X r, left-major, as the two nested loops visit them. *)
Pairs(l, r) ==
    [i \in 1 .. Len(l) * Len(r) |->
        <<l[((i - 1) \div Len(r)) + 1], r[((i - 1) % Len(r)) + 1]>>]

(* unify_values.  Two constraints on numbers are concatenated, whatever    *)
(* they repeat; alternatives that conflict are dropped.  A disjunction's   *)
(* alternative always comes first when the other side is not one.          *)
RECURSIVE Unify(_, _)
Unify(l, r) ==
    LET alternatives == CASE l.kind # "disjunction" -> Pairs(r.alternatives, <<l>>)
                          [] r.kind # "disjunction" -> Pairs(l.alternatives, <<r>>)
                          [] OTHER -> Pairs(l.alternatives, r.alternatives)
        unified == [i \in DOMAIN alternatives |->
                        Unify(alternatives[i][1], alternatives[i][2])]
    IN  CASE l.kind = "top" -> r
          [] r.kind = "top" -> l
          [] IsBottom(l) -> l
          [] IsBottom(r) -> r
          [] "disjunction" \in {l.kind, r.kind} ->
                CollapseDisjunction(UniqueDisjuncts(SelectSeq(unified, NoBottom)))
          [] l.kind = "bounds" /\ r.kind = "bounds" -> NumericConstraint(l.bounds \o r.bounds)
          [] l.kind = "bounds" /\ r.kind = "number" -> UnifyNumericConstraint(r.n, l.bounds)
          [] l.kind = "number" /\ r.kind = "bounds" -> UnifyNumericConstraint(l.n, r.bounds)
          [] l.kind = "number" /\ r.kind = "number" /\ l.n = r.n -> l
          [] l.kind = "struct" /\ r.kind = "struct" -> Struct(Unify(l.x, r.x))
          [] OTHER -> Bottom("conflict")

(* evaluate_binary_with_default_operands("+", v, 1): distributes over      *)
(* alternatives, and stays incomplete on an incomplete operand.            *)
AddOneTo(v) ==
    CASE v.kind = "top" -> TopValue
      [] v.kind = "number" -> Number(v.n + 1)
      [] OTHER -> Bottom("unsupported_add")

EvaluateAdd(v) ==
    IF v.kind = "disjunction"
    THEN CollapseDisjunction(UniqueDisjuncts(SelectSeq(
             [i \in DOMAIN v.alternatives |-> AddOneTo(v.alternatives[i])], NoBottom)))
    ELSE AddOneTo(v)

(* The operators of the expressions the evaluator runs. *)
OperateOn(op, args) ==
    CASE op = "&" -> Unify(args[1], args[2])
      [] op = "|" -> EvaluateDisjunction(args[1], args[2])
      [] op = "+1" -> EvaluateAdd(args[1])
      [] op = "struct" -> Struct(args[1])

----------------------------------------------------------------------------
(* What a value means, independently of how unification computes it: the   *)
(* numbers of Universe it admits.                                          *)
RECURSIVE Admits(_, _)
Admits(v, n) ==
    CASE v.kind = "top" -> TRUE
      [] v.kind = "number" -> v.n = n
      [] v.kind = "bounds" -> \A i \in DOMAIN v.bounds : SatisfiesBound(n, v.bounds[i])
      [] v.kind = "disjunction" -> \E i \in DOMAIN v.alternatives : Admits(v.alternatives[i], n)
      [] OTHER -> FALSE

Denotation(v, universe) == {n \in universe : Admits(v, n)}
=============================================================================
