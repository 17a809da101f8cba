----------------------- MODULE StructScopesReference -----------------------
(***************************************************************************)
(* What the names of a program mean, worked out on its source: a name      *)
(* means what the innermost scope around it, in the text, declares it as,  *)
(* and a field means all its declarations together.  The scopes are the    *)
(* fields of all files of a package, the lets and imports of a file, the   *)
(* declarations of a struct and the variables of a comprehension.          *)
(*                                                                         *)
(* The compiler and the evaluator are composed here: the programs that are *)
(* evaluated are the ones Compile makes of sources.                        *)
(***************************************************************************)
EXTENDS StructScopes, Compiler

CONSTANTS
    AmpleDepth,     \* more than the evaluation of a program without cycles takes
    UnknownField    \* a label that no package declares

FileScope(file) == [fields |-> <<>>, generators |-> <<>>, lets |-> Declared(file.decls, {"let"}),
                    imports |-> file.imports, variables |-> EmptyMap]
StructScope(decls) == [fields |-> Declared(decls, {"field"}), generators |-> Declared(decls, {"for"}),
                       lets |-> Declared(decls, {"let"}), imports |-> <<>>, variables |-> EmptyMap]
LoopScope(variable, value) == [StructScope(<<>>) EXCEPT !.variables = variable :> value]

(* The fields of a package: each is read in the scope of its own file. *)
PackageScope(files) ==
    [StructScope(<<>>) EXCEPT !.fields =
        FlattenSeq([i \in DOMAIN files |->
            [j \in DOMAIN Declared(files[i].decls, {"field"}) |->
                [file |-> FileScope(files[i])] @@ Declared(files[i].decls, {"field"})[j]] \o <<>>])]

Labels(scope) == {scope.fields[i].label : i \in DOMAIN scope.fields}
Named(declarations, name) == SelectSeq(declarations, LAMBDA d : d.name = name)
FieldsNamed(scope, name) == SelectSeq(scope.fields, LAMBDA d : name \in {d.label} \union d.aliases)

Declares(scope, name) ==
    \/ FieldsNamed(scope, name) # <<>> \/ Named(scope.lets, name) # <<>> \/ Named(scope.imports, name) # <<>>
    \/ name \in DOMAIN scope.variables

FailedComprehension == Error("failed_comprehension")
NotLoaded == Error("unsupported_import")
Absent == Error("missing_reference")

(***************************************************************************)
(* The meaning of an expression in the scopes env, outermost first.        *)
(* trail maps the fields whose meaning is being worked out to how many     *)
(* structs were around them: a field that is met again means anything, or  *)
(* nothing at all if it is met again inside a struct it contains.          *)
(***************************************************************************)
RECURSIVE Meaning(_, _, _, _)

FieldMeaning(label, scopes, trail, structs) ==
    LET key == <<label, scopes>>
        InnerScopes(d) == IF "file" \in DOMAIN d THEN Append(scopes, d.file) ELSE scopes
    IN  IF key \in DOMAIN trail
        THEN IF trail[key] < structs THEN StructuralCycle ELSE Top
        ELSE FoldLeft(LAMBDA value, d :
                          Unify(value, Meaning(d.value, InnerScopes(d), Put(trail, key, structs), structs)),
                      Top, SelectSeq(Last(scopes).fields, LAMBDA d : d.label = label))

(* The scopes in which the body of a comprehension is read, one for each   *)
(* item; a comprehension fails if any part of it does.                     *)
Items(clauses, env, trail, structs) ==
    FoldLeft(
        LAMBDA acc, c :
            LET source == IF c.clause = "for" THEN c.source ELSE c.condition
                values == [i \in DOMAIN acc.envs |-> Meaning(source, acc.envs[i], trail, structs)]
                Possible(value) == IF c.clause = "if" THEN IsTrue(value) \/ IsFalse(value)
                                   ELSE IsIterable(value) /\ Len(ItemsOf(value)) <= MaxGeneratedItems
                EnvsOf(i) ==
                    CASE c.clause = "for" -> [j \in DOMAIN ItemsOf(values[i]) |->
                            Append(acc.envs[i], LoopScope(c.variable, ItemsOf(values[i])[j]))] \o <<>>
                      [] c.clause = "if" /\ IsTrue(values[i]) -> <<acc.envs[i]>>
                      [] OTHER -> <<>>
            IN  IF acc.fails \/ \E i \in DOMAIN values : ~Possible(values[i])
                THEN [envs |-> <<>>, fails |-> TRUE]
                ELSE [envs |-> FlattenSeq([i \in DOMAIN values |-> EnvsOf(i)]), fails |-> FALSE],
        [envs |-> <<env>>, fails |-> FALSE], clauses)

RECURSIVE StructMeaning(_, _, _)
StructMeaning(scopes, trail, structs) ==
    LET Generated(g) ==
            LET items == Items(g.clauses, scopes, trail, structs)
            IN  IF items.fails \/ Len(items.envs) > MaxGeneratedItems THEN FailedComprehension
                ELSE FoldLeft(LAMBDA value, env :
                                  Unify(value, StructMeaning(Append(env, StructScope(g.body)), trail, structs)),
                              StructOf(EmptyMap), items.envs)
        written == StructOf([label \in Labels(Last(scopes)) |-> FieldMeaning(label, scopes, trail, structs)])
    IN  FoldLeft(LAMBDA value, g : Unify(value, Generated(g)), written, Last(scopes).generators)

SelectMeaning(path, label, trail, structs) ==
    LET packages == SelectSeq(program.source.packages, LAMBDA package : package.path = path)
    IN  IF path \in BuiltinImports THEN BuiltinValue(QualifyImportField(path, label))
        ELSE IF label \notin Labels(PackageScope(packages[1].files)) THEN Absent
        ELSE FieldMeaning(label, <<PackageScope(packages[1].files)>>, trail, structs)

NameMeaning(name, env, trail, structs) ==
    LET around == {i \in DOMAIN env : Declares(env[i], name)}
        scopes == SubSeq(env, 1, Max(around))
        scope == Last(scopes)
    IN  CASE around = {} -> BuiltinValue(name)
          [] name \in DOMAIN scope.variables -> scope.variables[name]
          [] Named(scope.lets, name) # <<>> -> Meaning(Last(Named(scope.lets, name)).value, scopes, trail, structs)
          [] Named(scope.imports, name) # <<>> -> NotLoaded
          [] OTHER -> FieldMeaning(Last(FieldsNamed(scope, name)).label, scopes, trail, structs)

Meaning(e, env, trail, structs) ==
    CASE e.op = "lit" -> e.value
      [] e.op = "name" -> NameMeaning(e.name, env, trail, structs)
      [] e.op = "and" -> Unify(Meaning(e.left, env, trail, structs), Meaning(e.right, env, trail, structs))
      [] e.op = "struct" -> StructMeaning(Append(env, StructScope(e.decls)), trail, structs + 1)
      [] e.op = "select" ->
            LET scope == env[Max({i \in DOMAIN env : Named(env[i].imports, e.base) # <<>>})]
            IN  SelectMeaning(Last(Named(scope.imports, e.base)).path, e.field, trail, structs)

(* The instance itself and its packages, each with its fields. *)
Units == <<[path |-> Own, files |-> program.source.files]>> \o program.source.packages
TopLevelMeanings ==
    FoldLeft(LAMBDA meanings, unit :
                 LET scope == PackageScope(unit.files)
                 IN  meanings @@ [name \in {QualifyImportField(unit.path, l) : l \in Labels(scope)} |->
                         FieldMeaning(CHOOSE l \in Labels(scope) : QualifyImportField(unit.path, l) = name,
                                      <<scope>>, EmptyMap, 0)],
             EmptyMap, Units)

----------------------------------------------------------------------------
(* The result has the fields of the instance and its packages, each with   *)
(* its lexical meaning: whatever the order in which fields are declared,   *)
(* needed and cached, each reference sees the field, let, variable or      *)
(* package its text names, with all declarations of it.                    *)
(* A member that contains itself has to be an error, and may be another    *)
(* one, or be reported elsewhere in it: evaluate_local_field_reference     *)
(* reports a cycle where it meets it, and runs to the depth limit on a     *)
(* cycle of fields whose turn has not come.  Where the depth limit is low, *)
(* it is what is reported, never a value that lacks something.  Nothing is *)
(* said of a struct with a comprehension that fails: the code leaves out   *)
(* its fields, and the error with them (merge_struct_member_value).        *)
Alike(value, meaning) ==
    \/ value = meaning
    \/ Holds(meaning, FailedComprehension)
    \/ Holds(value, StructuralCycle) /\ Holds(meaning, StructuralCycle)
    \/ /\ Holds(value, DepthLimit)
       /\ Holds(meaning, StructuralCycle) \/ program.max_depth < AmpleDepth

AlikeMembers(value, meaning) ==
    \/ ~IsStruct(value) /\ Alike(value, meaning)
    \/ IsStruct(value) /\ Holds(meaning, FailedComprehension)
    \/ /\ IsStruct(value) /\ IsStruct(meaning)
       /\ DOMAIN value.fields = DOMAIN meaning.fields
       /\ \A n \in DOMAIN value.fields : Alike(value.fields[n], meaning.fields[n])

LexicalMeaning ==
    control = Stop /\ program.errors = {} =>
        /\ DOMAIN Current.values = DOMAIN TopLevelMeanings
        /\ \A name \in DOMAIN Current.values : AlikeMembers(Current.values[name], TopLevelMeanings[name])

(* The faults of a source, by the number of expressions around them: a     *)
(* name that nothing around it declares, or nothing before it if it is in  *)
(* a let; an expression too deep.                                          *)
RECURSIVE Faults(_, _, _)
RECURSIVE StructFaults(_, _, _)

StructFaults(decls, bound, depth) ==
    LET fields == Declared(decls, {"field"})
        lets == Declared(decls, {"let"})
        generators == Declared(decls, {"for"})
        around == bound \union {fields[i].label : i \in DOMAIN fields}
                        \union UNION {fields[i].aliases : i \in DOMAIN fields}
        Lets(i) == {lets[j].name : j \in 1 .. i - 1}
        inside == around \union Lets(Len(lets) + 1)
        Variables(clauses, i) == {clauses[j].variable : j \in {k \in 1 .. i - 1 : clauses[k].clause = "for"}}
        ClauseFaults(clauses, i) ==
            Faults(IF clauses[i].clause = "for" THEN clauses[i].source ELSE clauses[i].condition,
                   inside \union Variables(clauses, i), depth)
        GeneratorFaults(g) ==
            UNION {ClauseFaults(g.clauses, i) : i \in DOMAIN g.clauses}
                \union StructFaults(g.body, inside \union Variables(g.clauses, Len(g.clauses) + 1), depth)
    IN  UNION {Faults(fields[i].value, inside, depth) : i \in DOMAIN fields}
        \union UNION {Faults(lets[i].value, around \union Lets(i), depth) : i \in DOMAIN lets}
        \union UNION {GeneratorFaults(generators[i]) : i \in DOMAIN generators}

Faults(e, bound, depth) ==
    CASE depth >= MaxCompileDepth -> {"max_depth_exceeded"}
      [] e.op = "name" /\ e.name \notin bound \union BuiltinNames -> {"unresolved_identifier"}
      [] e.op = "struct" -> StructFaults(e.decls, bound, depth + 1)
      [] e.op = "and" -> Faults(e.left, bound, depth + 1) \union Faults(e.right, bound, depth + 1)
      [] OTHER -> {}

UnitFaults(unit) ==
    LET fields == PackageScope(unit.files).fields
        names == {fields[i].label : i \in DOMAIN fields} \union UNION {fields[i].aliases : i \in DOMAIN fields}
        Imported(file) == {i \in DOMAIN file.imports : file.imports[i].path \in Loaded(program.source)}
        FileFaults(file) ==
            StructFaults(file.decls, names \union {file.imports[i].name : i \in Imported(file)}, 0)
                \union IF Imported(file) = DOMAIN file.imports THEN {} ELSE {"unsupported_import"}
    IN  UNION {FileFaults(unit.files[i]) : i \in DOMAIN unit.files}

(* The compiler reports exactly the faults of the source: its stack of     *)
(* scopes shows a name where the text does and nowhere else, and the depth *)
(* is given back (lower_struct_expr, lower_comprehension_decl_value).      *)
DiagnosedIffFaulty ==
    Height = 1 /\ Current.next = 1 => program.errors = UNION {UnitFaults(Units[i]) : i \in DOMAIN Units}

(* What the compiler took for a field or a variable, the evaluator finds,  *)
(* though it looks in scopes of its own: the scopes in progress, also when *)
(* a let or a field is evaluated far from where it stands, and the fields  *)
(* of the root.  Only a field selected from a package may not be there.    *)
ReferencesResolve ==
    /\ Evaluates("ref") =>
          LET name == control.expression.name
          IN  \/ DeclaringScopes(name) # {} \/ name \in DOMAIN program.conjuncts
              \/ \E path \in Loaded(program.source) : name = QualifyImportField(path, UnknownField)
    /\ Evaluates("bound") => \E i \in FramesOf("loop") : stack[i].variable = control.expression.name

(* Reentrancy is bounded: no cycle of references, of which programs of     *)
(* this size have short ones only, is followed until the depth limit.      *)
BoundedReentrancy == control.op = "evaluate" => ~TooDeep(control.depth)

(* Every evaluation ends, also when a sibling is evaluated for a reference *)
(* again and again.                                                        *)
Termination == <>(control = Stop)
=============================================================================
