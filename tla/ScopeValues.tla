---------------------------- MODULE ScopeValues ----------------------------
(***************************************************************************)
(* The values of the programs of Compiler and StructScopes, and their      *)
(* unification.  Literals stand for constraints of which any set can hold  *)
(* together, so that a value shows every constraint that has reached it.   *)
(***************************************************************************)
EXTENDS SequencesExt

TopValue == [kind |-> "top"]
Bottom(code) == [kind |-> "bottom", code |-> code]
Constraints(literals) == [kind |-> "constraints", literals |-> literals]
StructValue(fields) == [kind |-> "struct", fields |-> fields]
ListValue(items) == [kind |-> "list", items |-> items]
BoolValue(b) == [kind |-> "bool", b |-> b]
BuiltinValue(name) == [kind |-> "builtin", name |-> name]

(* unify_values on numeric bounds, structs, lists and bottoms *)
RECURSIVE UnifyValues(_, _)
UnifyValues(l, r) ==
    CASE l.kind = "top" -> r
      [] r.kind = "top" -> l
      [] l.kind = "bottom" -> l
      [] r.kind = "bottom" -> r
      [] l.kind = "constraints" /\ r.kind = "constraints" ->
            Constraints(l.literals \union r.literals)
      [] l.kind = "struct" /\ r.kind = "struct" ->
            StructValue([n \in DOMAIN l.fields \union DOMAIN r.fields |->
                CASE n \notin DOMAIN l.fields -> r.fields[n]
                  [] n \notin DOMAIN r.fields -> l.fields[n]
                  [] OTHER -> UnifyValues(l.fields[n], r.fields[n])])
      [] l.kind = "list" /\ r.kind = "list" /\ Len(l.items) = Len(r.items) ->
            ListValue([i \in DOMAIN l.items |-> UnifyValues(l.items[i], r.items[i])])
      [] l.kind = r.kind /\ l.kind \in {"bool", "builtin"} /\ l = r -> l
      [] OTHER -> Bottom("conflict")

RECURSIVE Holds(_, _)
Holds(value, bottom) ==
    \/ value = bottom
    \/ value.kind = "struct" /\ \E n \in DOMAIN value.fields : Holds(value.fields[n], bottom)

FieldValues(value) == value.fields
StructKind(value) == value.kind = "struct"
BottomKind(value) == value.kind = "bottom"
TrueValue(value) == value = BoolValue(TRUE)
FalseValue(value) == value = BoolValue(FALSE)

(* comprehension_items: the items of a list, the fields of a struct.  The  *)
(* key of an item is not looked at.                                        *)
Iterable(value) == value.kind \in {"list", "struct"}
ItemValues(value) ==
    IF value.kind = "list" THEN value.items
    ELSE [i \in 1 .. Cardinality(DOMAIN value.fields) |-> value.fields[SetToSeq(DOMAIN value.fields)[i]]]
=============================================================================
