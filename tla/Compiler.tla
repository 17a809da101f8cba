------------------------------ MODULE Compiler ------------------------------
(***************************************************************************)
(* The compiler of crates/compiler: from the declarations of an instance   *)
(* to the conjuncts of its top-level fields.  It keeps a stack of scopes,  *)
(* and decides for each name what kind of reference it is; the evaluator   *)
(* finds out later which field a field reference means.                    *)
(*                                                                         *)
(* An instance is its files, its packages in the order of their paths (each*)
(* a path and its files) and max_depth of the evaluation.  A file has      *)
(* imports (a local name and a path) and declarations: fields with a label *)
(* and at most one alias, lets, and comprehensions.  Labels are plain.     *)
(***************************************************************************)
EXTENDS ScopeValues

CONSTANTS
    BuiltinNames,       \* is_builtin_name
    BuiltinImports,     \* is_supported_builtin_import
    MaxCompileDepth     \* CompileOptions::max_depth

NoNames == [name \in {} |-> ""]
Scope(fields) == [fields |-> fields, imports |-> NoNames, lets |-> NoNames, bindings |-> NoNames]
Declared(decls, kinds) == SelectSeq(decls, LAMBDA d : d.decl \in kinds)

(* What lowering leaves: an expression and the codes of the diagnostics. *)
Lowered(expression, errors) == [expression |-> expression, errors |-> errors]
Literal(value) == [op |-> "lit", value |-> value]
Refused(code) == Lowered(Literal(Bottom(code)), {code})

ErrorsOf(parts) == UNION {parts[i].errors : i \in DOMAIN parts}
ExpressionsOf(parts) == [i \in DOMAIN parts |-> parts[i].expression]

----------------------------------------------------------------------------
(* Scopes *)

(* Mutated form: aliases are not registered. *)
OnlyLabel(d) == {d.label}

NamesOf(d) == {d.label} \union d.aliases

(* qualify_import_field; the fields of the instance itself have no path *)
Own == ""
QualifyImportField(path, label) == IF path = Own THEN label ELSE path \o "." \o label

(* Mutated form: the names of an import are registered as its own. *)
RegisterUnqualified(decls, path) ==
    FoldLeft(LAMBDA fields, d : [name \in NamesOf(d) |-> d.label] @@ fields,
             NoNames, Declared(decls, {"field"}))

(* register_field_bindings, register_qualified_import_bindings *)
RegisterFields(decls, path) ==
    FoldLeft(LAMBDA fields, d : [name \in NamesOf(d) |-> QualifyImportField(path, d.label)] @@ fields,
             NoNames, Declared(decls, {"field"}))

Define(scopes, kind, name, meaning) == [scopes EXCEPT ![Len(scopes)][kind] = (name :> meaning) @@ @]

(* resolve_let, resolve_dynamic_binding, resolve_import, resolve_field: *)
(* each searches all scopes, innermost first.                           *)
Binding(scopes, kind, name) == {i \in DOMAIN scopes : name \in DOMAIN scopes[i][kind]}
Resolves(scopes, kind, name) == Binding(scopes, kind, name) # {}
Resolved(scopes, kind, name) == scopes[Max(Binding(scopes, kind, name))][kind][name]

LowerIdentifier(name, scopes) ==
    CASE Resolves(scopes, "lets", name) ->
            Lowered([op |-> "let", expression |-> Resolved(scopes, "lets", name)], {})
      [] Resolves(scopes, "bindings", name) -> Lowered([op |-> "bound", name |-> name], {})
      [] Resolves(scopes, "imports", name) -> Lowered(Literal(Bottom("unsupported_import")), {})
      [] Resolves(scopes, "fields", name) ->
            Lowered([op |-> "ref", name |-> Resolved(scopes, "fields", name)], {})
      [] name \in BuiltinNames -> Lowered(Literal(BuiltinValue(name)), {})
      [] OTHER -> Refused("unresolved_identifier")

----------------------------------------------------------------------------
(* Expressions; depth counts the calls of lower_expr in progress. *)

RECURSIVE LowerExpr(_, _, _)

(* The lets of a scope, in their order: each sees those before it. *)
LowerLets(decls, scopes, depth) ==
    FoldLeft(LAMBDA acc, d :
                LET value == LowerExpr(d.value, acc.scopes, depth)
                IN  [scopes |-> Define(acc.scopes, "lets", d.name, value.expression),
                     errors |-> acc.errors \union value.errors],
             [scopes |-> scopes, errors |-> {}], Declared(decls, {"let"}))

(* lower_comprehension_clauses: the source of a clause does not see the *)
(* variables of the clause.                                             *)
LowerClauses(clauses, scopes, depth) ==
    FoldLeft(LAMBDA acc, c :
                LET part == LowerExpr(IF c.clause = "for" THEN c.source ELSE c.condition, acc.scopes, depth)
                IN  [clauses |-> Append(acc.clauses, IF c.clause = "for"
                                                     THEN [c EXCEPT !.source = part.expression]
                                                     ELSE [c EXCEPT !.condition = part.expression]),
                     scopes |-> IF c.clause = "for" THEN Define(acc.scopes, "bindings", c.variable, c.variable)
                                ELSE acc.scopes,
                     errors |-> acc.errors \union part.errors],
             [clauses |-> <<>>, scopes |-> scopes, errors |-> {}], clauses)

RECURSIVE LowerStruct(_, _, _)

LowerMember(d, scopes, depth) ==
    IF d.decl = "field"
    THEN LET value == LowerExpr(d.value, scopes, depth)
         IN  Lowered([member |-> "field", name |-> d.label, expression |-> value.expression], value.errors)
    ELSE LET clauses == LowerClauses(d.clauses, Append(scopes, Scope(NoNames)), depth)
             body == LowerStruct(d.body, clauses.scopes, depth)
         IN  Lowered([member |-> "comprehension", clauses |-> clauses.clauses, body |-> body.expression],
                     clauses.errors \union body.errors)

(* lower_struct_expr: all fields are in scope first, then the lets *)
LowerStruct(decls, scopes, depth) ==
    LET lets == LowerLets(decls, Append(scopes, Scope(RegisterFields(decls, Own))), depth)
        written == Declared(decls, {"field", "for"})
        members == [i \in DOMAIN written |-> LowerMember(written[i], lets.scopes, depth)] \o <<>>
    IN  Lowered([op |-> "struct", members |-> ExpressionsOf(members)], lets.errors \union ErrorsOf(members))

(* lower_expr_inner: a selector of a package is a reference to a field of *)
(* the root that carries the path; the only base of a selector here is a  *)
(* name that is imported.                                                 *)
LowerSelector(e, scopes) ==
    LET path == Resolved(scopes, "imports", e.base)
        qualified == QualifyImportField(path, e.field)
    IN  IF path \in BuiltinImports THEN Lowered(Literal(BuiltinValue(qualified)), {})
        ELSE Lowered([op |-> "ref", name |-> qualified], {})

(* Mutated form: the limit is met one level deeper. *)
OneMore(depth) == depth > MaxCompileDepth

(* enter_lowering_depth *)
DepthExceeded(depth) == depth >= MaxCompileDepth

LowerExpr(e, scopes, depth) ==
    CASE DepthExceeded(depth) -> Refused("max_depth_exceeded")
      [] e.op = "lit" -> Lowered(Literal(e.value), {})
      [] e.op = "name" -> LowerIdentifier(e.name, scopes)
      [] e.op = "select" -> LowerSelector(e, scopes)
      [] e.op = "struct" -> LowerStruct(e.decls, scopes, depth + 1)
      [] e.op = "and" ->
            LET sides == <<LowerExpr(e.left, scopes, depth + 1), LowerExpr(e.right, scopes, depth + 1)>>
            IN  Lowered([op |-> "and", left |-> sides[1].expression, right |-> sides[2].expression],
                        ErrorsOf(sides))

----------------------------------------------------------------------------
(* Files.  A unit is the root vertex under construction: its arcs in their *)
(* order, the conjuncts of each, and the diagnostics.                      *)

Unit == [arcs |-> <<>>, conjuncts |-> NoNames, errors |-> {}]

(* ensure_child, add_conjunct *)
AddConjunct(unit, name, lowered) ==
    [arcs |-> IF Contains(unit.arcs, name) THEN unit.arcs ELSE Append(unit.arcs, name),
     conjuncts |-> IF Contains(unit.arcs, name) THEN [unit.conjuncts EXCEPT ![name] = Append(@, lowered.expression)]
                   ELSE (name :> <<lowered.expression>>) @@ unit.conjuncts,
     errors |-> unit.errors \union lowered.errors]

(* lower_decl on the fields of a file, lower_import_field *)
LowerFields(unit, decls, scopes, path) ==
    FoldLeft(LAMBDA acc, d : AddConjunct(acc, QualifyImportField(path, d.label), LowerExpr(d.value, scopes, 0)),
             unit, Declared(decls, {"field"}))

(* register_file_imports; an import that was not loaded is diagnosed *)
Loaded(instance) == {instance.packages[i].path : i \in DOMAIN instance.packages} \union BuiltinImports
RegisterImports(instance, file, scopes) ==
    FoldLeft(LAMBDA acc, import : IF import.path \in Loaded(instance)
                                  THEN Define(acc, "imports", import.name, import.path) ELSE acc,
             scopes, file.imports)
ImportErrors(instance, file) ==
    {"unsupported_import" : i \in {j \in DOMAIN file.imports : file.imports[j].path \notin Loaded(instance)}}

DeclsOf(files) == FlattenSeq([i \in DOMAIN files |-> files[i].decls])

(* lower_import_files: all imports, then all lets, then all fields *)
LowerPackage(instance, unit, package) ==
    LET decls == DeclsOf(package.files)
        imported == FoldLeft(LAMBDA acc, file : RegisterImports(instance, file, acc),
                             <<Scope(RegisterFields(decls, package.path))>>, package.files)
        lets == LowerLets(decls, imported, 0)
        failed == UNION {ImportErrors(instance, package.files[i]) : i \in DOMAIN package.files}
    IN  LowerFields([unit EXCEPT !.errors = @ \union failed \union lets.errors], decls, lets.scopes, package.path)

(* lower_file: one scope for all files, filled as they are lowered *)
LowerFile(instance, state, file) ==
    LET lets == LowerLets(file.decls, RegisterImports(instance, file, state.scopes), 0)
        errors == state.unit.errors \union ImportErrors(instance, file) \union lets.errors
    IN  [scopes |-> lets.scopes,
         unit |-> LowerFields([state.unit EXCEPT !.errors = errors], file.decls, lets.scopes, Own)]

(* compile_instance *)
Compile(instance) ==
    LET packages == FoldLeft(LAMBDA unit, package : LowerPackage(instance, unit, package), Unit, instance.packages)
        scope == Scope(RegisterFields(DeclsOf(instance.files), Own))
        files == FoldLeft(LAMBDA state, file : LowerFile(instance, state, file),
                          [scopes |-> <<scope>>, unit |-> packages], instance.files)
    IN  [arcs |-> files.unit.arcs, conjuncts |-> files.unit.conjuncts, errors |-> files.unit.errors,
         max_depth |-> instance.max_depth, source |-> instance]
=============================================================================
