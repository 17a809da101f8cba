---------------------------- MODULE ValueHandles ----------------------------
(***************************************************************************)
(* The Value API of crates/eval on evaluated trees: what an export shows,  *)
(* validation, selection by path, and the meet of two handles.  A compiled *)
(* handle holds the tree its vertices evaluate to, with every field; what  *)
(* a handle made from another value left out cannot come back.             *)
(***************************************************************************)
EXTENDS Unification

CONSTANTS DefinitionLabels, HiddenLabels   \* the labels spelled #Name and _name

(* A tree as it is written: meets in place, patterns not applied, closed   *)
(* where a definition is referred to.                                      *)
Meet(l, r) == [kind |-> "meet", left |-> l, right |-> r]

(* evaluate_binary on &; evaluate_vertex_at and struct literals: patterns  *)
(* reach the fields beside them, a definition is closed all through        *)
RECURSIVE EvaluateTree(_)
EvaluateTree(v) ==
    LET parts == Replace(v, [part \in Parts(v) |-> EvaluateTree(part)])
        struct == [parts EXCEPT !.fields = Table(ApplyStructPatterns(parts.patterns, @))]
    IN  CASE Is(v, "meet") -> Unify(EvaluateTree(v.left), EvaluateTree(v.right))
          [] Is(v, "struct") -> IF v.closed THEN CloseRecursive(struct) ELSE struct
          [] OTHER -> parts

Compiled(v) == [compiled |-> TRUE, value |-> v]
FromEvaluated(v) == [compiled |-> FALSE, value |-> v]

ExportOptions(definitions, hidden, optional) ==
    [definitions |-> definitions, hidden |-> hidden, optional |-> optional]
DefaultExport == ExportOptions(FALSE, FALSE, FALSE)

(* should_emit_field, everywhere in the tree *)
HiddenFrom(options) ==
    {label \in DefinitionLabels \union HiddenLabels :
        (label \in DefinitionLabels /\ ~options.definitions) \/ (label \in HiddenLabels /\ ~options.hidden)}

RECURSIVE EmitFields(_, _)
EmitFields(v, options) ==
    LET shown == IF Is(v, "struct") THEN [v EXCEPT !.fields = [f \in DOMAIN @ \ HiddenFrom(options) |-> @[f]]] ELSE v
    IN  Replace(shown, [part \in Parts(shown) |-> EmitFields(part, options)])

(* Value::evaluate_export, apply_export_options: fields are left out only  *)
(* while a compiled handle is evaluated                                    *)
EvaluateExport(handle, options) ==
    LET tree == IF handle.compiled THEN EmitFields(handle.value, options) ELSE handle.value
    IN  IF options.optional THEN tree ELSE PruneOptional(tree)

(* Value::unify keeps optional fields and no definition or hidden one. *)
UnifyHandles(l, r) ==
    LET tree(handle) == EvaluateExport(handle, ExportOptions(FALSE, FALSE, TRUE))
    IN  FromEvaluated(Unify(tree(l), tree(r)))

(* validate_value, validate_disjunction: no diagnostic is reported.  An    *)
(* open list is never concrete, and its parts need not be.                 *)
RECURSIVE IsValid(_, _)
IsValid(v, concrete) ==
    LET AllValid(s) == \A i \in DOMAIN s : IsValid(s[i], concrete)
    IN  CASE IsBottom(v) -> FALSE
          [] v.kind \in {"top", "kind", "builtin", "numbers", "strings"} -> ~concrete
          [] Is(v, "default") -> IsValid(v.value, concrete)
          [] Is(v, "optional") -> ~concrete /\ IsValid(v.value, FALSE)
          [] Is(v, "disjunction") -> concrete => HasOneDefault(v) /\ IsValid(OnlyDefault(v), TRUE)
          [] Is(v, "struct") -> \A f \in DOMAIN v.fields : IsValid(v.fields[f], concrete)
          [] v.kind \in {"list", "items"} -> AllValid(v.items)
          [] Is(v, "openlist") -> ~concrete /\ AllValid(v.items) /\ IsValid(v.tail, FALSE)
          [] OTHER -> TRUE

(* Value::validate *)
Validates(handle) == IsValid(EvaluateExport(handle, DefaultExport), TRUE)

----------------------------------------------------------------------------
(* A selector is a label or the index of a list item, from 0. *)
Selector(form, at) == [form |-> form, at |-> at]
Missing == [kind |-> "missing"]   \* select_value is an error

(* select_value, select_field_value, select_index_value *)
SelectValue(v, selector) ==
    CASE selector.form = "field" /\ Is(v, "struct") ->
            IF selector.at \in DOMAIN v.fields THEN v.fields[selector.at] ELSE Missing
      [] selector.form = "index" /\ v.kind \in {"list", "items", "openlist"} ->
            IF selector.at + 1 \in DOMAIN v.items THEN v.items[selector.at + 1]
            ELSE IF Is(v, "openlist") THEN v.tail ELSE Missing
      [] OTHER -> Missing

(* Value::lookup_path, select_path: defaults are resolved before each      *)
(* selector, never in what is selected last                                *)
Select(tree, path) ==
    FoldLeft(LAMBDA v, s : IF v = Missing THEN Missing ELSE SelectValue(ResolveSelection(v), s), tree, path)

LookupPath(handle, path) ==
    LET labels == {path[i].at : i \in {j \in DOMAIN path : path[j].form = "field"}}
    IN  Select(EvaluateExport(handle, ExportOptions(labels \intersect DefinitionLabels # {},
                                                    labels \intersect HiddenLabels # {}, TRUE)), path)
=============================================================================
