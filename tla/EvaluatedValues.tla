--------------------------- MODULE EvaluatedValues ---------------------------
(***************************************************************************)
(* The evaluated values of crates/eval and the passes that rewrite one     *)
(* value: defaults, optional fields, closedness, previous iterations.      *)
(* Values are records told apart by "kind"; the four struct variants are   *)
(* one record (closed or not, with patterns or without), and so are the    *)
(* three of numeric and the three of string constraints.  Field order and  *)
(* a bottom's message are left out; a label is a string value's content.   *)
(***************************************************************************)
EXTENDS Integers, FiniteSets, SequencesExt

CONSTANT Language   \* the strings each regular expression that compiles matches

(* A function or a sequence as a table: TLC computes each entry once. *)
Table(f) == f @@ <<>>
Row(s) == s \o <<>>

TopValue == [kind |-> "top"]
Null == [kind |-> "null"]
Bottom(code) == [kind |-> "bottom", code |-> code]
Kind(name) == [kind |-> "kind", name |-> name]
Bool(b) == [kind |-> "bool", b |-> b]
Number(n, form) == [kind |-> "number", n |-> n, form |-> form]   \* form: "int" or "float" text
Str(s) == [kind |-> "string", s |-> s]
Bytes(s) == [kind |-> "bytes", s |-> s]
Builtin(name) == [kind |-> "builtin", name |-> name]
Numbers(bounds, multiples) == [kind |-> "numbers", bounds |-> bounds, multiples |-> multiples]
Strings(runes, regexes) == [kind |-> "strings", runes |-> runes, regexes |-> regexes]
StructOf(fields, closed, patterns) ==
    [kind |-> "struct", fields |-> Table(fields), closed |-> closed, patterns |-> Row(patterns)]
List(items) == [kind |-> "list", items |-> Row(items)]
OpenList(items, tail) == [kind |-> "openlist", items |-> Row(items), tail |-> tail]
ComprehensionItems(items) == [kind |-> "items", items |-> Row(items)]
Default(v) == [kind |-> "default", value |-> v]
OptionalField(v) == [kind |-> "optional", value |-> v]
Disjunction(alternatives) == [kind |-> "disjunction", alternatives |-> Row(alternatives)]
Disjunct(v, default) == [value |-> v, default |-> default]
Pattern(label, v) == [pattern |-> label, value |-> v]

Is(v, kind) == v.kind = kind
IsBottom(v) == Is(v, "bottom")
(* RegexConstraint, and StringConstraintSet: the variants of "strings" beside bare rune counts *)
IsRegex(v) == Is(v, "strings") /\ v.runes = <<>> /\ Len(v.regexes) = 1
IsStringSet(v) == v.regexes # <<>> /\ ~IsRegex(v)

(* The immediate parts of a value, and the value with others in place of   *)
(* them; what has no parts is left as it is.                               *)
Parts(v) ==
    CASE Is(v, "struct") -> Range(v.fields) \union UNION {{p.pattern, p.value} : p \in Range(v.patterns)}
      [] v.kind \in {"list", "items"} -> Range(v.items)
      [] Is(v, "openlist") -> Range(v.items) \union {v.tail}
      [] v.kind \in {"default", "optional", "previous"} -> {v.value}
      [] Is(v, "disjunction") -> {d.value : d \in Range(v.alternatives)}
      [] OTHER -> {}

Replace(v, by) ==
    CASE Is(v, "struct") ->
            StructOf([f \in DOMAIN v.fields |-> by[v.fields[f]]], v.closed,
                     [i \in DOMAIN v.patterns |-> Pattern(by[v.patterns[i].pattern], by[v.patterns[i].value])])
      [] v.kind \in {"list", "items"} -> [v EXCEPT !.items = Row([i \in DOMAIN @ |-> by[@[i]]])]
      [] Is(v, "openlist") -> OpenList([i \in DOMAIN v.items |-> by[v.items[i]]], by[v.tail])
      [] v.kind \in {"default", "optional", "previous"} -> [v EXCEPT !.value = by[@]]
      [] Is(v, "disjunction") ->
            Disjunction([i \in DOMAIN v.alternatives |-> Disjunct(by[v.alternatives[i].value], v.alternatives[i].default)])
      [] OTHER -> v

(* EvaluatedValue::kind and disjunction_kind *)
RECURSIVE KindOf(_)
KindOf(v) ==
    LET kinds == {KindOf(v.alternatives[i].value) : i \in DOMAIN v.alternatives} \ {"bottom"}
    IN  CASE v.kind \in {"top", "builtin"} -> "top"
          [] Is(v, "numbers") -> "number"
          [] Is(v, "strings") -> "string"
          [] v.kind \in {"openlist", "items"} -> "list"
          [] Is(v, "kind") -> v.name
          [] v.kind \in {"optional", "default", "previous"} -> KindOf(v.value)
          [] Is(v, "disjunction") ->
                IF kinds = {} THEN "bottom" ELSE IF Cardinality(kinds) = 1 THEN CHOOSE k \in kinds : TRUE ELSE "top"
          [] OTHER -> v.kind

----------------------------------------------------------------------------
(* values_equal: "equal", "different", or "bottom" when a bottom is        *)
(* compared.  Closedness and patterns of structs do not count.             *)
FirstDifference(results) ==
    LET differences == SelectSeq(results, LAMBDA r : r # "equal")
    IN  IF differences = <<>> THEN "equal" ELSE differences[1]

Verdict(equal) == IF equal THEN "equal" ELSE "different"

RECURSIVE CompareValues(_, _)
CompareValues(l, r) ==
    LET CompareItems(a, b) == IF Len(a) # Len(b) THEN "different"
                              ELSE FirstDifference([i \in DOMAIN a |-> CompareValues(a[i], b[i])])
        \* the first alternative of r with the same mark that is not different
        Counterpart(a) ==
            LET tried == SelectSeq([j \in DOMAIN r.alternatives |->
                             IF a.default = r.alternatives[j].default
                             THEN CompareValues(a.value, r.alternatives[j].value) ELSE "different"],
                                   LAMBDA c : c # "different")
            IN  IF tried = <<>> THEN "different" ELSE tried[1]
    IN  CASE IsBottom(l) \/ IsBottom(r) -> "bottom"
          [] Is(l, "previous") -> CompareValues(l.value, r)
          [] Is(r, "previous") -> CompareValues(l, r.value)
          [] l.kind # r.kind -> "different"
          [] Is(l, "number") -> Verdict(l.n = r.n)
          [] Is(l, "struct") ->
                IF Cardinality(DOMAIN l.fields) # Cardinality(DOMAIN r.fields)
                   \/ ~(DOMAIN l.fields \subseteq DOMAIN r.fields) THEN "different"
                ELSE LET results == {CompareValues(l.fields[f], r.fields[f]) : f \in DOMAIN l.fields}
                     IN  IF "bottom" \in results THEN "bottom" ELSE Verdict("different" \notin results)
          [] l.kind \in {"list", "items"} -> CompareItems(l.items, r.items)
          [] Is(l, "openlist") ->
                FirstDifference(<<CompareItems(l.items, r.items), CompareValues(l.tail, r.tail)>>)
          [] l.kind \in {"default", "optional"} -> CompareValues(l.value, r.value)
          [] Is(l, "disjunction") ->
                IF Len(l.alternatives) # Len(r.alternatives) THEN "different"
                ELSE FirstDifference([i \in DOMAIN l.alternatives |-> Counterpart(l.alternatives[i])])
          [] OTHER -> Verdict(l = r)

ValuesEqual(l, r) == CompareValues(l, r) = "equal"

----------------------------------------------------------------------------
(* Disjunctions *)

(* unique_disjuncts: the first of equal alternatives stays, and is a       *)
(* default if any of them was.                                             *)
AddDisjunct(kept, d, same) ==   \* same: where kept has an equal one
    IF same = {} THEN Append(kept, d) ELSE [kept EXCEPT ![Min(same)].default = @ \/ d.default]
UniqueDisjuncts(alternatives) ==
    FoldLeft(LAMBDA kept, d : AddDisjunct(kept, d, {i \in DOMAIN kept : ValuesEqual(kept[i].value, d.value)}),
             <<>>, alternatives)

CollapseDisjunction(alternatives) ==
    CASE alternatives = <<>> -> Bottom("empty_disjunction")
      [] Len(alternatives) = 1 -> alternatives[1].value
      [] OTHER -> Disjunction(alternatives)

RECURSIVE DefaultDisjunctsFrom(_)
DefaultDisjunctsFrom(v) ==
    CASE IsBottom(v) -> <<>>
      [] Is(v, "default") -> DefaultDisjunctsFrom(v.value)
      [] Is(v, "disjunction") -> [i \in DOMAIN v.alternatives |-> [v.alternatives[i] EXCEPT !.default = TRUE]]
      [] OTHER -> <<Disjunct(v, TRUE)>>

DisjunctsFrom(v) ==
    CASE IsBottom(v) -> <<>>
      [] Is(v, "disjunction") -> v.alternatives
      [] Is(v, "default") -> DefaultDisjunctsFrom(v.value)
      [] OTHER -> <<Disjunct(v, FALSE)>>

EvaluateDisjunction(l, r) == CollapseDisjunction(UniqueDisjuncts(DisjunctsFrom(l) \o DisjunctsFrom(r)))

----------------------------------------------------------------------------
(* The passes over a value *)

(* The value of the only alternative marked default, if there is just one. *)
DefaultsOf(v) == SelectSeq(v.alternatives, LAMBDA d : d.default)
HasOneDefault(v) == Is(v, "disjunction") /\ Len(DefaultsOf(v)) = 1
OnlyDefault(v) == DefaultsOf(v)[1].value

(* resolve_default_value: a disjunction without a unique default stays, *)
(* unresolved inside.                                                   *)
RECURSIVE ResolveDefaults(_)
ResolveDefaults(v) ==
    CASE v.kind \in {"default", "previous"} -> ResolveDefaults(v.value)
      [] HasOneDefault(v) -> ResolveDefaults(OnlyDefault(v))
      [] Is(v, "disjunction") -> v
      [] OTHER -> Replace(v, [part \in Parts(v) |-> ResolveDefaults(part)])

(* resolve_default_selection_value: only as far as a selector needs *)
RECURSIVE ResolveSelection(_)
ResolveSelection(v) ==
    CASE v.kind \in {"default", "previous"} -> ResolveSelection(v.value)
      [] HasOneDefault(v) -> ResolveSelection(OnlyDefault(v))
      [] OTHER -> v

(* prune_optional_fields, prune_optional_field_map *)
SetFields(fields) ==
    Table([f \in {g \in DOMAIN fields : ~Is(fields[g], "optional")} |-> fields[f]])

RECURSIVE PruneOptional(_)
PruneOptional(v) ==
    LET pruned == Replace(v, [part \in Parts(v) |-> PruneOptional(part)])
    IN  CASE v.kind \in {"optional", "previous"} -> v
          [] Is(v, "struct") -> [pruned EXCEPT !.fields = SetFields(@)]
          [] OTHER -> pruned

(* close_recursive *)
RECURSIVE CloseRecursive(_)
CloseRecursive(v) ==
    LET inside == Replace(v, [part \in Parts(v) |-> CloseRecursive(part)])
    IN  CASE v.kind \in {"items", "previous"} -> v
          [] Is(v, "struct") -> [inside EXCEPT !.closed = TRUE]
          [] OTHER -> inside
=============================================================================
