# Verification of cue-rust

TLA+ modules that model cue-rust, an implementation of the CUE configuration
language, from the arguments of a command to its exit code, with configurations that
model-check them with TLC and theorems that the TLAPS proof system checks. Every definition is
translated from the Rust source under `crates/`; `PROJECT.json` names the lines
behind each one. `EV` below stands for `crates/eval/src/lib.rs`, `CMP` for
`crates/compiler/src/lib.rs`.

## 1. The system

A CUE instance goes through the components in this order: the loader finds and
reads files, the scanner and the parser turn them into ASTs, the compiler
lowers the ASTs into the ADT runtime, the evaluator computes values on demand,
and validation, export and encoding look at these values. The program is
single-threaded: an operation such as `Value::evaluate` builds a fresh
`Evaluator` and runs it to the end. There is no persistence. What is hard is
the recursion: evaluation is lazy, references form arbitrary graphs, and the
mutable fields of `Evaluator` (cache, marks, stacks, counters) are shared by
all calls of it that are in progress, so that the meaning of a reference can
depend on who asked first.

| Component | State | Operations | Interacts with | Hard behaviour | Correct when |
|---|---|---|---|---|---|
| Vertex evaluator (`EV` 965-2254, 3367-3410) | `vertex_cache`, `evaluating_vertices`, `vertex_evaluation_stack`, `cycle_fallback_to_top`, the four `fixpoint_*` collections | `evaluate_vertex`, `evaluate_vertex_at`, `evaluate_expr_at`, `evaluate_field_reference`, `evaluate_fixpoint_vertices`, `iterate_fixpoint_vertices` | reads the ADT runtime; unifies values; calls itself through references | re-entry on cycles; caching while a cycle is unsolved; iteration and depth limits | marks and stack agree; a cached value stays; a solved cycle satisfies its equations; evaluation ends |
| Dependency graph (`EV` 3982-4064) | none | `cyclic_graph_components` and its visits | gives the vertex evaluator its cycles, in order | depth-first order decides which cycle is solved first | exactly the cyclic components |
| Struct literals and scopes (`EV` 2256-2379, 3432-3536) | `local_fields`, `local_values`, `local_value_scopes`, `local_evaluating`, `field_evaluation_stack` | `evaluate_struct_fields`, `evaluate_field_member`, `evaluate_local_field_reference`, lets and aliases | shares the evaluator's cache and counters; scopes stay while other vertices are evaluated | lexical names looked up in dynamic scopes; fields needed before their turn; a field inside itself | a reference means the field its text names |
| Value unification (`EV` 8032-9000) | none | `unify_values` and a function per pair of kinds of values | used by everything that combines values | many pairs of kinds; optional, closed and patterned structs | commutative, associative, idempotent |
| Defaults (`EV` 1863-2063, 847) | `DeferredDefaultExpression` values | `resolve_deferred_defaults`, `default_value` | re-evaluates expressions under overlay scopes | expression evaluated before its siblings are final | the default sees the final siblings |
| Comprehensions (`EV` 3581-3735) | `local_bindings`, the items generated so far | `evaluate_comprehension` and its clauses; interpolation | pushes bindings around the evaluator; bodies see the struct around them | early returns between push and pop; the limit on items | bindings balanced; items in order; errors kept |
| Builtins | none | `strings`, `list`, `math`, ... | pure | input domains | upstream's results |
| Validation and export (`EV` 9027-9182, 764-860) | a diagnostic report | `validate`, `evaluate_export`, `lookup`, `Value::unify` | walks an evaluated value | what is hidden, what must be concrete | no bottom exported; what is exported validates |
| ADT runtime (`crates/adt`) | arenas of vertices, expressions, conjuncts, environments; `FeatureInterner` | `add_*`, `intern`, lookups by typed id | filled by the compiler, read by the evaluator | id exhaustion | ids resolve; labels and features one to one |
| Compiler (`crates/compiler`) | `scopes`, lowering depth, the runtime | `compile_instance`, `lower_file`, `lower_decl`, `lower_struct_expr`, `lower_identifier` | takes files and packages from the loader; writes the ADT runtime | one stack of scopes with four kinds of names, searched by kind | every identifier resolved lexically; faults diagnosed, and only faults |
| Loader (`crates/loader`) | work list, visited set, files read, tag scopes | `load_args`, `build_instance`, `resolve_local_imports`, `collect_tag_injections` | file system, parser | imports of imports; links and limits; tags found by lines of text | every file loaded once; every import resolved once or explained; tags reach their fields |
| Source (`crates/source`) | `LineIndex` | `new`, `line_column` | diagnostics | positions at line boundaries | position of every offset |
| Syntax (`crates/syntax`) | scanner position and comma flag; parser cursor and depth | `scan_all`, `parse_file` | loader, compiler | comma insertion, lookahead, recovery after errors | nothing of the text lost; operators nest; it returns |
| Encoding (`crates/encoding`) | none | `decode`, `encode` | SDK, command line | numbers, nulls and limits of each format | what is written reads back |
| SDK, command line (`crates/sdk`, `apps/cue`) | `saw_error`, the file at hand | `vet_files`, `write_encoded_files`, facade calls | everything | one of several files failing | success means that all was accepted |

The hazards this code is exposed to are listed, each at its line and with the
properties that cover it, in `PROJECT.json`.

## 2. Modules

| Module | Role |
|---|---|
| `Stacks`, `StackLemmas` | `IsSequence`; lemmas on pushing, popping and replacing elements |
| `CueValues` | values of top-level fields, `unify_values`, `+` and `\|` on them |
| `DependencyGraph` | `cyclic_graph_components` as recursive functions, and what reaching means |
| `DependencySearch`, `MC_DependencyGraph` | the same search step by step, with its visits in progress as a stack; graphs for TLC |
| `DependencyProofs` | theorems about `DependencySearch` |
| `Evaluator` | the vertex evaluator as a state machine; type, safety, action and liveness properties |
| `EvaluatorEquations` | the equations that the fields of a program state, and what solving them means |
| `EvaluatorReference` | what the answers are compared with: the meaning of a program of literals, references and `&` |
| `EvaluatorProofs`, `EvaluatorDriverProofs` | theorems about `Evaluator`: its stack, what driver and recursion leave to each other, and that cycles are solved |
| `MC_Evaluator`, `MC_EvaluatorShapes`, `MC_EvaluatorMeets`, `MC_EvaluatorFindings` | programs for TLC |
| `ScopeValues` | the values of the compiler's and the scopes' programs: constraints, lists, structs, bottoms |
| `Compiler` | `compile_instance`: from declarations to conjuncts, with scopes and diagnostics |
| `StructScopes` | struct literals, comprehensions and the resolution of references as a state machine; its type and re-entry invariants |
| `StructScopesProofs` | theorems about `StructScopes` |
| `StructScopesReference` | composes compiler and evaluator; the lexical meaning of a source and the properties that compare with it |
| `MC_StructScopes`, `MC_StructScopesFindings` | sources for TLC |
| `TagInjection` | `collect_tag_injections`: the tags of a text, found line by line |
| `Rankings` | sorting by a key, as a permutation |
| `Loader` | `load_args` as a state machine over a disk |
| `ImportClosure` | abstract specification: what resolving imports promises |
| `LoaderClosure` | the loader's refinement of `ImportClosure`, and the properties about imports and selection |
| `LoaderProofs` | theorems about `Loader` |
| `LoaderReference`, `MC_Loader` | the properties that need the nesting of directories and documents; disks and requests for TLC |
| `Scanner` | `scan_all`: from characters to tokens, with inserted commas |
| `Parser` | the parse functions as a machine with a stack of those in progress; its type and depth invariants, and how operators nest |
| `ParserProofs` | theorems about `Parser` |
| `ParserReference`, `MC_Parser`, `MC_ParserFindings` | composes scanner and parser; properties of tokens and tree; texts for TLC |
| `EvaluatedValues` | `EvaluatedValue` and the passes that rewrite one value: defaults, closing, pruning |
| `Unification` | `unify_values` on every pair of kinds: bounds, strings, structs, lists, disjunctions |
| `ValueHandles` | the `Value` API: export, validation, selection, `Value::unify` |
| `Encoding` | `decode` and `encode` of JSON, YAML and TOML trees |
| `CommandLine` | `vet`, `export` and `eval` from loaded arguments to the exit code, for any operations on values |
| `CommandLineProofs` | theorems about `CommandLine` |
| `CommandLineReference`, `MC_CommandLine` | composes the commands with `Encoding` and the values; a schema as a predicate on documents, and the properties that compare with it; requests for TLC |

They compose along the pipeline. Four machines have an operation as a parameter,
and the module that compares them with a reference EXTENDS both and its cfg
binds the one to the other: `Evaluator` the operators on values (`EvaluatorReference`:
`CueValues`), `CommandLine` what values are, how they are evaluated, unified
and encoded (`CommandLineReference`: `Encoding`, and with it `ValueHandles`,
`Unification` and `EvaluatedValues`), `Parser` the scanner (`ParserReference`:
`Scanner`), `StructScopes` the programs (`StructScopesReference`: the results of
`Compile`). The theorems about them hold for every value of these parameters.
`Loader` EXTENDS `TagInjection`. `DependencySearch` EXTENDS `DependencyGraph`, whose
functions give `Evaluator` its cycles: the run `graph` compares the two. Between these groups the models meet at
data: what the parser accepts is not fed to `Compiler`, and `CommandLine`
evaluates trees, not fields that refer to one another.

### Loader

| Actions | Code |
|---|---|
| `LoadStdin`, `LoadData`, `LoadPath`, `LoadTree` | the argument forms of `load_args`, in the order of its tests |
| `OpenDirectory`, `VisitEntry`, `FinishArgument` | `collect_directory`: entries in any order, links and limits, the sort at the end |
| `AddOverlays`, `PushTags` | overlays; `collect_tag_injections` and the synthetic `tags.cue` |
| `ParseFiles` | `build_instance` up to the imports |
| `SkipImport`, `RejectImport`, `SkipVisited`, `OpenImport`, `FinishImport` | one turn of the work list of `resolve_local_imports`, per early exit |
| `ApplyPackageSelector` | the selector, and the answer |
| `DiskError` | any access to the disk fails: `load_args` returns the error |

`volume` and `request` are the inputs; `walk` is the traversal in progress,
`files` and `data` are `cue_files` and `data_files`, and `pending`, `visited`
and `instance` are the local variables of `resolve_local_imports` with `current`
for the import whose directory is being read. A path is its own canonical form.
A file is its package, the package that `source_package` finds in its text (the parser
may see another one), its imports, the lines its tags are found in, why its bytes are
refused if they are (too large, not UTF-8) and whether it parses. The size
limit of the generated `tags.cue` is a number of injected fields, `TagsLimit`. `ImplementsClosure` is the refinement: an import is
*wanted* when it is queued, visited or reported invalid, *settled* when it is
visited and no longer being read or reported invalid, *resolved* when the
instance has a package for it. Every step of the loader is then a step of
`ImportClosure` or a stutter, whatever the work list does about cycles,
repetitions and failures.

### Scanner and Parser

`Scanner` is a pure function from a text to tokens and diagnostics. In
`Parser`, a frame of `stack` is a parse function in progress and `value` what
the function that just returned gives its caller; there is one action per
function and place where it goes on (`parse_file`, `parse_decl`,
`parse_field_head`, `parse_expr`, `parse_call`, `parse_list`, ...), with the
recovery and the probes that look ahead. `depth` is `expression_depth`, `cursor`
the position in `tokens`. A text is a sequence of characters or words; a tree
keeps the index of each node's token. Interpolated strings, spans and messages
are left out. Diagnostics are the set of their codes: the order of several does
not matter to what follows. The loops over separators and attributes are the
recursive function of `Skipping`, and recovery is the least index of a
separator, so that `Parser` itself has no `RECURSIVE` operator and takes the
scanner as its parameter `ScanText`.

### Values and CommandLine

`CommandLine` goes through `load`, `value`, `data` and `done`:
`CompileCueArgs`, then `StopVet`, `ValidateSchema`, `WriteCompiledValue` or
`TurnToData`, then for each file `ReadData` and `ValidateData` or `WriteData`,
then `Exit`; the actions are the loops of `vet_files` and `write_encoded_files`
and their early returns. The values and what is done with them are parameters
(`Build`, `Decode`, `UnifyValues`, `IsConcrete`, `SelectPath`,
`CompileExpression`, `Encode`). In the run they are trees: `EvaluateTree` evaluates literal
schemas (structs open and closed, patterns, optional fields, lists,
disjunctions with default marks, `&`), `UnifyHandles` is `Value::unify`, which
exports both sides first, `EncodeValue` and `DecodeDocument` go to and from the
trees of JSON, YAML and TOML. `CommandLineReference` states what a schema
*admits* as a predicate on documents, without evaluation or unification, and
`vet` is compared with it in both directions.

### Evaluator

The state variables carry the names of the fields of `struct Evaluator`.
`program` is the compiled instance: the conjuncts of each top-level field, in
postfix form, which fields are optional and which are left out of the result by
the export options. `phase`, `components`, `next_values` and `iterations` are
the local variables of `evaluate_reachable_fixpoints`,
`evaluate_fixpoint_vertices` and `iterate_fixpoint_vertices`; `call` and
`returned` are an argument and a result in flight.

| Actions | Code |
|---|---|
| `Collect`, `CacheCycleBottoms`, `BeginComponent` | `evaluate_reachable_fixpoints`, `cache_cycle_bottoms`, `evaluate_fixpoint_vertices` |
| `BeginIteration`, `ForceMember`, `RecordMember`, `Converge`, `Continue`, `GiveUp` | `iterate_fixpoint_vertices`, `evaluate_fixpoint_iteration` |
| `EvaluateRoot`, `Finish` | `evaluate_vertex` |
| `ReturnPrevious`, `ReturnCached`, `ReturnPlaceholder`, `ReturnDepthLimit`, `EnterVertex` | the entry of `evaluate_vertex_at`, its early returns in their order |
| `EvaluateTooDeep`, `EvaluateLiteral`, `EvaluateOperator`, `EvaluateOptionalReference`, `CallReference`, `ReturnToReference` | `evaluate_expr_at`, `evaluate_field_reference`, `evaluate_binary_expr` |
| `UnifyConjunct`, `FinishVertex`, `EvaluateArc`, `SkipArc`, `MergeArc`, `FinishRoot` | the body and the end of `evaluate_vertex_at` |

Abstractions. A nesting of `&` and of struct fields around a reference is a
number in the instruction and is added to `cycle_fallback_to_top` and
`field_evaluation_stack` when the reference is called and taken off when it
returns: nothing else reads the counters in between. `FixpointPrevious` only
wraps a value and is stripped before it is cached. `OptionalField` wrappers and
the pruning in `finish` are left out, and so are default marks, lists and the
deferral of their self references, selectors, comprehensions and the closing of
definitions. The values are a parameter (`Top`, `Operate`): the theorems hold
whatever unification computes, and the runs give it `CueValues`.

### Compiler and StructScopes

`Compiler` keeps the stack of scopes of the code, each with `fields`,
`imports`, `lets` and `bindings`; `RegisterFields` is
`register_field_bindings` and its qualified form for packages, `LowerIdentifier`
searches the kinds of names in the order of `lower_identifier`, `LowerStruct`,
`LowerMember`, `LowerClauses` and `LowerLets` are the functions of these names, `LowerPackage` and
`LowerFile` the loops of `compile_instance`. With a diagnostic nothing
is evaluated, as the SDK returns them instead of a value.

In `StructScopes`, the code pushes a struct's entries on `local_fields`,
`local_values`, `local_value_scopes` and `local_evaluating` together, and pops
them together: they are one `struct` frame of `stack`, whose `next` member is
the one marked in `local_evaluating` and named on `field_evaluation_stack`. Its
`local_values` are what references see and `values` what the struct becomes:
they differ by the fields of comprehensions. `cycle_fallback_to_top` is the
number of `operand` frames, the marked vertices are those of the `vertex`
frames, and `local_bindings` are the `loop` frames.

| Actions | Code |
|---|---|
| `EvaluateArc`, `MergeArc`, `Finish` | the root in `evaluate_vertex` |
| `ReturnCached`, `ReturnPlaceholder`, `VertexTooDeep`, `EnterVertex`, `EvaluateConjunct`, `UnifyConjunct`, `FinishVertex` | `evaluate_vertex_at` |
| `ExpressionTooDeep`, `EvaluateLiteral`, `EvaluateLet`, `EnterOperand`, `SecondOperand`, `LeaveOperand` | `evaluate_expr_at`, `evaluate_binary_expr` |
| `EnterStruct`, `EvaluateMember`, `MergeMember`, `FinishStruct` | `evaluate_struct_fields`, `evaluate_field_member` |
| `EnterComprehension`, `GenerateItem`, `KeepItem`, `FinishComprehension` | `evaluate_comprehension`, its end of clauses, `merge_struct_member_value` |
| `EvaluateCondition`, `TestCondition`, `EvaluateSource`, `BeginLoop`, `NextItem`, `EndLoop` | `evaluate_comprehension_clause` |
| `EvaluateBinding` | `evaluate_dynamic_reference` |
| `ReferToLocalValue`, `ReferToFieldInProgress`, `ReferToSibling`, `ReferToVertex`, `ReferToMissing` | the outcomes of `evaluate_field_reference` with `up_count` 0, the only one the compiler emits for fields |

Literals are sets of constraints that can hold together, booleans and lists. The
top-level fields of the programs form no reference cycle, so that the fixpoint
iteration of `Evaluator` does nothing for them (a field that only refers to
itself is not a cyclic component). Left out: dynamic and pattern labels,
optional members, overlay scopes, comprehensions in lists and at the top of a
file, key variables, interpolation.

## 3. Runs

| Run | Shows |
|---|---|
| `loader` | For module trees with links, files that are refused, import cycles, overlays, tags and selectors, in every order of directory entries and with failures of the disk: the files loaded are those the arguments name (`FilesAreThoseNamed`), an import is resolved or has one diagnostic (`ImportsExplained`), tags reach the fields they are written at (`TagsFollowNesting`) and stay with their package (`TagsSurviveSelection`), the work list implements the closure of the imports (`ImplementsClosure`), and every load ends (`LoadEnds`) |
| `parser` | For every short text and value, and for files with every construct, whole and broken: tokens lose nothing (`TokensCoverText`), ends of lines are commas where elements end (`NewlinesEndElements`), a file without a diagnostic is in the tree whole (`NothingDropped`), operators nest by their precedence, also in files with faults (`OperatorsNest`), the depth is given back on every path (`DepthCountsExpressions`), the parser returns unless a loop meets a stray closing bracket (`StopsButAtStrayClosers`) |
| `graph` | Over every graph of 4 vertices, the search returns exactly the strongly connected components of two or more vertices (`ComponentsAreCycles`), a component comes before those it depends on (`DependentsFirst`), and the functions that `Evaluator` is run with give the same answer (`AnswerOfFunctions`) |
| `shapes` | Two fields, each with every expression of a library that has every operator, optional and skipped fields: marks, stack, cache and fixpoint maps agree at every step (`TypeOK`, `NoReentry`, `OnlyForcedMemberRuns`, `NoStaleMember`, `QuiescentWhenIdle`) |
| `meets` | Three fields with literals, references and `&` in every reference graph: results are greatest lower bounds (`MeetOfReachable`), solved cycles satisfy their equations (`ConvergedSolves`), cached values stay (`CacheStable`), depth and termination (`DepthBounded`, `Termination`) |
| `scopes` | Sources with nested structs, lets, aliases, packages, several files, comprehensions and faults, compiled and evaluated: the diagnostics are the faults of the source (`DiagnosedIffFaulty`), what the compiler resolved is found at run time (`ReferencesResolve`), the result has its lexical meaning (`LexicalMeaning`), no field is evaluated inside its own evaluation (`SingleEvaluation`), evaluation ends (`Termination`) |
| `vet` | `vet`, `export` and `eval` of small schemas and documents, one or several: success covers all files and expressions, of which there is at least one (`SuccessCoversEverything`), a document is accepted exactly if the schema as written admits it (`NoFalseRejection`, `NoFalseAcceptance`), schema and document can change places (`VetIsSymmetric`), what `export` writes vets (`ExportedDataVets`) |
| `recovery`, `bounds`, `two_cycles`, `capture`, `sibling` | Violations, see section 6 |

Bounds.

- *Graphs*: 4 vertices are the least that hold two cycles of two vertices
  with a path between them.
- *Fields* of `Evaluator`: two give every pair of expressions a self reference, a cycle
  and a chain; three give a cycle with an entry from outside, two cycles that
  share a field, and a cycle with an exit.
- *Iterations*: `MAX_FIXPOINT_ITERATIONS` is 64 in the code and 5 to 8 in the
  runs, more than a converging program of this size needs and few enough that
  the ones that do not converge reach it.
- *Depth*: `max_depth` is 8 in `meets`, so that chains of references reach it;
  20 in `shapes`; in `scopes` it is part of the program, 30 or one of 0 to 9.
  `AmpleDepth` is 20: evaluation without a cycle stays above it.
- *Sources* of `scopes`: a nested struct in a struct, two nested loops, two files, two
  packages one of which imports the other. `MaxGeneratedItems` is 3 (1,000,000
  in the code) and `MaxCompileDepth` 5, so that both limits are reached.
- *Texts* of `parser`: all of up to 4 characters after a name and all values
  of up to 4 pieces, which hold every pair of neighbouring constructs and every
  bracket left open or closed by another one; longer constructs are picked by
  hand. `MaxDepth` is 6, reached by nesting.
- *Disks* of `loader`: two files, a subdirectory that may be a link, three
  import directories of which one may be missing, a link, outside the module or a
  file. They hold import cycles of one, two and three paths, and a file that
  is too large or not UTF-8. Documents for tags have
  up to 4 lines, enough for a struct that is opened, closed and followed by
  another field.
- *Values* of `vet`: integers of a byte or less in place of 64 bits
  (`Integers64` is -8..8, `ExactFloats` -4..8), decode limits of depth 3, 3
  items, 2 bytes, and a disjunction expansion of 4, so that each limit is reached and
  passed. A command is given no file, CUE files, positional data files, data files of
  `--data` or several of these, and expressions of which one may be empty.

The cfgs check deadlock: the last action of each machine stutters when the
operation is over.

Fairness. The evaluator, the parser and the loader are one thread that runs
until its operation returns: as long as it has a step it takes one. `FairSpec`
is therefore `Spec` with weak fairness of `Next`. `Termination`, `LoadEnds` and
`StopsButAtStrayClosers` are what this gives: no infinite descent, no endless
iteration, no endless work list. In particular a disk that
keeps failing or directories that appear in any order give the loader no way to go
on for ever.

What the inputs leave out. The sources of `scopes` leave out, on purpose, what
fails or depends on an order, which the findings or the hazards name: names
of a struct that a field, let or alias evaluated from it also uses (`capture`,
`EV` 2182); a reference to a later sibling that refers to itself (`sibling`); an operand of
`&` that leads back to a struct around it (`EV` 1100); a name declared again
after a reference to it (`EV` 3488, 9193), and `b: b` read from inside a struct (`EV`
1212); nested loops with the same variable (`EV` 3538); a name declared both as a field
and as a let, an import or a variable (`CMP` 635); lets of a file used in
another (`CMP` 184); fields that a comprehension adds referred to outside its
body (`EV` 2276). A member that contains itself has to be an error in the
result, though it may be another bottom than `structural_cycle`, at another
place of the member: `LexicalMeaning` accepts that. It says nothing of a struct
with a comprehension that fails (`EV` 3726).

The properties of `vet` and `loader` exclude by name the inputs for which the code
is known to differ, and are otherwise the general statements
`AcceptsWhatIsAdmitted` (`NoFalseRejection`), `AdmitsWhatIsAccepted` (`NoFalseAcceptance`),
`UnificationCommutes` (`VetIsSymmetric`) and `TagsReachFields` (`TagsFollowNesting`).
A general statement put in the place of the property in the cfg has a counterexample among
the excluded inputs; section 6 lists them.

## 4. Theorems

Each is proved for every value of the constants: any program, disk, request or
text, all limits, and all values and operations that are parameters.

| Module | Theorem | States |
|---|---|---|
| `EvaluatorProofs` | `TypeCorrect` | `Spec => []TypeOK` |
| | `Reentry` | `Spec => []NoReentry`: the marked vertices are those of the stack, each once, and none of them is cached |
| | `ForcedMember` | `Spec => []OnlyForcedMemberRuns` |
| | `Depth` | `Spec => []DepthBounded` |
| | `CachedValuesStay` | `Spec => CacheStable` |
| `EvaluatorDriverProofs` | `FreshMembers` | `Spec => []NoStaleMember`: between two members of a cycle, the cache has exactly this iteration's values for them |
| | `Quiescence` | `Spec => []QuiescentWhenIdle`: when no evaluation runs, no mark and no counter is left over |
| | `ConvergedCyclesAreSolved` | if `DepthSuffices`, `Spec => ConvergedSolves`: the cache that a converged cycle leaves solves the equations of its fields |
| `DependencyProofs` | `SearchTypeCorrect` | `Spec => []TypeOK` |
| | `CyclesFound` | `Spec => []ComponentsAreCycles`: every cycle of every graph is found, once, and nothing else |
| | `DependentsAreFirst` | `Spec => []DependentsFirst` |
| `StructScopesProofs` | `ScopesTypeCorrect` | `Spec => []TypeOK`: every value returned finds the frame that asked for it |
| | `EvaluatedOnce` | `Spec => []SingleEvaluation` |
| `LoaderProofs` | `LoaderTypeCorrect` | `Spec => []TypeOK` |
| | `LoaderImplementsClosure` | `Spec => ImplementsClosure`: the work list refines `ImportClosure` |
| | `ImportsAreExplained` | `Spec => []ImportsExplained` |
| | `TagsSelected` | `Spec => []TagsSurviveSelection` |
| | `FilesAreThoseOfArguments` | `Spec => []FilesAreThoseNamed`: for every order of directory entries, the files read are those named |
| `ParserProofs` | `ParserTypeCorrect` | `Spec => []TypeOK`: the cursor stays on a token |
| | `DepthIsGivenBack` | `Spec => []DepthCountsExpressions` |
| | `OperatorsNestByPower` | `Spec => []OperatorsNest` |
| `CommandLineProofs` | `CommandTypeCorrect` | `Spec => []TypeOK` |
| | `SuccessIsComplete` | `Spec => []SuccessCoversEverything` |

### Assumptions

They are stated on the constants, in the module that declares them, and TLC
evaluates all of them in every run of that module.

- `Evaluator`: `ConstantsAssumption` (the limits are natural numbers),
  `ProgramsAssumption` (conjuncts are finite sequences of instructions on the
  fields, as the compiler makes them), `ComponentsAssumption`
  (`cyclic_graph_components` returns sequences of sets of fields). The theorem
  `ConvergedCyclesAreSolved` has one more hypothesis, `DepthSuffices`: nothing in the
  conjuncts of a field lies below the depth limit when the field is evaluated for
  itself, as the members of a cycle are. `max_depth` is 128 by default; below it
  there are bottoms instead of values, and such a cycle may converge without
  being solved. The run `meets` evaluates the hypothesis for its programs
  (`MeetsAssumption`).
- `DependencySearch`: `VerticesAssumption` (a vertex is a number; the loops go through
  sets of them in ascending order).
- `StructScopes`: `ProgramsAssumption` (the root's fields are those that have
  conjuncts, in a finite sequence), `ExpressionsAssumption` (the expressions have
  their parts among them; members are fields or comprehensions), `LimitAssumption`.
- `Loader`: `DisksAssumption`, `ImportsAssumption`, `LoadsAssumption` (entries,
  arguments, import directories and imports are known paths; only the source
  that `push_tags` makes is called `tags.cue`; what is piped is text, as the caller
  reads it into a `String`), `LimitAssumption`, `NoneAssumption`. `LoaderReference`
  adds `ForestAssumption`: nothing lies under two entries of a directory, as the path of
  an entry extends that of its directory and `collect_directory` refuses links.
- `Parser`: `DepthAssumption`, and `ScanAssumption`: the tokens of a text end
  in their only `Eof`, as `scan_all` pushes it last.
- `CommandLine`: `RequestsAssumption` (what `clap` and the loader let through: `vet`
  takes no expressions; the positional data files come first, none of them is a CUE file, and only
  `vet` has others), `NoneAssumption`.

### Arguments

*Evaluator.* `TypeOK` is not inductive: that `RecordMember` finds the
one forced member it takes off needs the driver's phases, so `TypeInv` adds
`DriverOK`, which relates each phase to the fixpoint sets. `NoReentry`,
`OnlyForcedMemberRuns` and `DepthBounded` then form `StackInv` together with
`CallDeeper`: a call in flight is deeper than the frame that makes it, which is what
keeps depths ascending when `EnterVertex` pushes it. `EnterVertex` keeps
`NoReentry` by its guard (not marked, not cached) and `OnlyForcedMemberRuns`
because a member that is not forced has been answered by `ReturnPrevious`;
`PopFrame` needs that the vertices of the stack are distinct to conclude that
unmarking the last one leaves the others. `CachedValuesStay` follows from
`StackInv` step by step: only `PopFrame` caches outside the driver, and what it
caches is not cached before.

`FreshMembers` follows the forced member through its evaluation (`CycleInv`): it is
called, is at the bottom of the stack, or has been answered, and in each case
the cache holds `next_values` for the others. It needs `Reentry` (the
forced vertex is nowhere but at the bottom, so the cache gets its entry when the
stack is empty) and `ForcedMember` (no other member is entered meanwhile).
`Quiescence` needs to know whose increments the counters hold: in `WaitInv` a
frame that waits stands at a reference or at an arc, and each counter is the sum of
what the waiting frames entered. `SumsTo` states the sum by the partial sums, as a
function, so that no recursion is needed; the theorem is the empty sum.

`ConvergedCyclesAreSolved` compares two maps: the one that references are read from while
a cycle is solved (`ReadMap`, the cache overridden by the previous values of the
members that are not forced) and the cache that is left. Within an
iteration `ReadMap` only grows; when the iteration converges it agrees with the cache. In
`SolvingInv` the operands of the forced member's frame are, instruction by
instruction, those of its equation read from `ReadMap`, and every member recorded
has solved its own, with all it refers to in the map; what a value needs stays
in a map that grows, so that the equations can be read from the last one.
The equation of a field is a recursive function over its instructions: `UpTo`
(`StackLemmas`), by the first number that a set leaves out, takes the place of
induction.

*DependencySearch.* `OrderInv` speaks of the first loop: of a vertex whose visit has
ended, either its cycle is still being visited, or all it reaches is followed in the order by a
vertex of its own cycle. So what stands last among the vertices not yet
collected is reached only from its own cycle and from what is already collected. The
second loop keeps that (`ComponentInv`): the settled vertices are closed under what
reaches them, hence what is collected against the references from one vertex is its
cycle and no more. `DependentsFirst` is this closure seen from the components
found.

*StructScopes.* `ScopesInv` has three parts. `ShapeOK` and `StackOK` say of each
frame what it holds and on which frame it may stand; `ControlOK` says which
frame waits for what `control` does next (a value returned, a clause to go on
with, a halt), in the state in which it asked; `ClausesOK` and `ResultsOK` find
the comprehension that a clause belongs to, below the loops and conditions
around it, and keep its results within the limit. `EvaluatedOK` adds that the
vertices of the frames are distinct and not cached, which is `SingleEvaluation`.

*Loader.* `LoaderInv` adds to `TypeOK` that what is loaded is one of the
inputs, the shape of the instance, which paths arguments, traversals and files
hold, that nothing is imported before all files are parsed, and `CurrentOK`:
the directory of the import in hand is traversed once, not recursively, and what is
found is exactly the entries already visited. With it each step of the
loader is a step of `ImportClosure` or a stutter:

| Loader | `ImportClosure` |
|---|---|
| `ParseFiles` | `Begin`: the imports of the files are wanted |
| `RejectImport`, `OpenImport` without a directory | `Report` |
| `FinishImport` | `Resolve` with the imports of the files found, or `Report` |
| `ApplyPackageSelector` | `Finish`: nothing wanted is left |
| any failure | `Fail` |
| the others | stutter |

The sets of the abstract steps come from sequences (the queue, the sorted
directory, the files that parse): the lemmas at the start of `LoaderProofs`
show that sorting and filtering keep the elements. `ExplainedInv` gives every import that is settled
a package or one diagnostic, and every other one neither; it rests on the step map,
as an import is settled once. `TagsInv` follows the synthetic file from `PushTags`
to the selection.

`FilesAreThoseNamed` speaks of the end of reading, `FilesInv` of every step before: the
arguments taken and those left are the request's, and each file was found as often as
the arguments taken name it, but once less if it lies under a directory or an entry
of the traversal that are left (`FilesLeft`). No file lies under two of these (`Apart`), so
that none is found twice; opening a directory replaces it by its entries, which name together
what it names (`UnderEntries`, from the definition of `DirectoriesUnder` as a least set,
without induction). Sorting keeps how often each file is there because it is a bijection of
places, and `AddOverlays` appends to the files read.

*Parser.* `ParserInv` says that the frames are well formed, that the one function
that returns a `File` is the outermost one, that a function that starts by taking its keyword
stands at it, and that the depth is the number of frames that count. The
cursor stays on a token because it moves past a token only when this is not `Eof`
(`NextToken`), because recovery ends at the latest at `Eof` (`FirstOf`) and
because skipping does (`SkippingEnds`: the recursive function exists, by the
last index for which it would not). `Goto`, `Call` and `Return` keep the
invariant for frames that count alike; each action is one of them, or enters
or exits a depth.

`OperatorsNest` speaks of the finished tree, `NestInv` of the trees in the frames and in
`value`. A frame that waits for a right operand holds a left one that binds at
least as tightly as its operator, and the loop above it must return something
that binds tighter (`Fits`); the left operand of a loop binds at least as tightly as the
loop requires and as whatever operator comes next, since an operator that binds tighter
has been taken before the loop returned (`Takes`). Recovery from a fault
stops at separators and closers, where no operator goes on. The nodes of a tree are its
levels (`Levels`), one function of a number, so that a fact about them is shown level by
level, for any number of levels, without induction over trees; in the run, twice
the number of tokens are enough to reach every node.

*CommandLine.* `CommandInv` is `Typed` and `Progress`: each value that is finished
has as many verdicts as there are expressions, the one in hand as many as are
selected, and without `saw_error` none of them is an error.
`SuccessCoversEverything` is what is left of it when no file is left. That there is a
verdict at all needs that a command without files ends before it reads anything
(`LoadInv`).

### Only model-checked

`TagsFollowNesting`, `MeetOfReachable`, `LexicalMeaning`, `DiagnosedIffFaulty`,
`ReferencesResolve`, `NoFalseRejection`, `NoFalseAcceptance`, `VetIsSymmetric`,
`ExportedDataVets`, `NothingDropped`, `TokensCoverText`, `NewlinesEndElements` and
`AnswerOfFunctions` compare with definitions that are recursive over a tree, a
text, an expression or a graph, and need induction over data: the prover's
library cannot instantiate it. The liveness properties (`Termination`, `LoadEnds`,
`StopsButAtStrayClosers`) are beyond the prover used, which has
neither fairness nor `ENABLED`. The modules with `RECURSIVE` operators
(`CueValues`, `ScopeValues`, `Compiler`, `Scanner`, `Encoding`, the values and the
other reference modules) can hold no theorems; the machines (`Evaluator` with
`EvaluatorEquations`, `DependencySearch`, `StructScopes`, `Loader` with
`LoaderClosure` and `LoaderReference`, `Parser`, `CommandLine`) have none.

## 5. Plan

1. Done: `CueValues`, `DependencyGraph`, `Evaluator` with its runs and first theorems; `StructScopes` with its runs.
2. Done: `EvaluatedValues`, `Unification`, `ValueHandles`, `Encoding`, `CommandLine`, compared with schemas as predicates.
3. Done: `Loader` with tags and selection, and its refinement of `ImportClosure`; `Scanner` and `Parser`.
4. Done: `Compiler`, composed with `StructScopes`; comprehensions, lets, aliases, packages.
5. `LineIndex` (`crates/source`) against a definition of lines, with lemmas on the binary search.
6. Overlay scopes, dynamic labels and deferred defaults in `StructScopes`; interpolation in scanner and evaluator.
7. Done: theorems about every machine, with the refinement of `ImportClosure`; that cycles are found, ordered and solved; that operators nest; that the files loaded are those named.
8. Theorem left: that the cache of `Evaluator` implements a write-once map outside of cycles.

## 6. Findings

Each is a run that TLC ends with a counterexample; `PROJECT.json` quotes the
sentence of the repository that it contradicts.

- `bounds` (`EV` 8059): two lists of numeric bounds are joined without removing duplicates, so `a: b & >=1, b: a` never converges and both fields become `cue.eval.cycle_fixpoint_limit`.
- `two_cycles` (`EV` 1249): cycles are solved dependents first, and a field outside both that is evaluated while the first is solved keeps, in the cache, a value made of the second one's placeholder.
- `capture` (`EV` 3469): references are resolved in all scopes in progress, so in `a: {y: 1, x: b}, b: y, y: 2` both `a.x` and `b` are 1.
- `sibling` (`EV` 3518): a field evaluated for a reference is not marked, so in `a: {x: y, y: y}` the field `x` runs to the depth limit.
- `recovery` (`crates/syntax/src/parser.rs` 450): in call arguments, `}` and `]` are neither consumed by the recovery nor the end of the loop, so `a: f(}` is never parsed to the end. Lists at `}` (637) and import groups at `}` or `]` (140) do the same.

Differences that the models follow, and that the properties exclude by name or the
inputs leave out. The property in the last column fails on the example when it is
checked with nothing excluded:

| Name, or place | What the code does | Example |
|---|---|---|
| `PatternRequires` (`EV` 3849) | an optional field that a pattern matches becomes a required one | `{b?: int, [string]: int}` rejects `{}` (`AcceptsWhatIsAdmitted`) |
| `ChoosesBetweenTrees` (`EV` 8445) | an alternative that conflicts only inside a struct or list stays, and the choice is ambiguous | `{a: 1} \| {a: 2}` rejects `{a: 1}` (`AcceptsWhatIsAdmitted`) |
| `FloatsBecomeIntegers` (`crates/encoding/src/lib.rs` 282) | a TOML float with an integral value is decoded as an integer | `float` rejects the TOML `1.0` (`AcceptsWhatIsAdmitted`) |
| `KindMeetsBound` (`EV` 8237) | of `int` or `float` and a bound or a multiple, only the latter is kept | `int & >=0` accepts a float (`AdmitsWhatIsAccepted`) |
| `MeetDropsOptional` (`EV` 8677) | a meet of structs drops their optional fields | `{b?: int} & {a: int}` accepts any `b` (`AdmitsWhatIsAccepted`) |
| `MeetForgetsPatterns` (`EV` 8344) | the patterns of a struct that meets a definition never reach its fields | `#A & {[string]: <2}` with `#A: {a: int}` accepts `a: 2` (`AdmitsWhatIsAccepted`) |
| `ClosedDifferently` (`EV` 8901) | of two closed structs, only the right one's extra fields are errors; with patterns, optional fields differ as well | a definition with a field and one without (`UnificationCommutes`) |
| `OneLabelPerBrace` (`crates/loader/src/lib.rs` 864) | a closing brace ends the scope of one label, however many its line had | `g` after the lines of `s: u: { ... }` (`TagsReachFields`) |
| `crates/loader/src/lib.rs` 828 | the tag scan takes the first line that starts with `package` for the package clause, the parser may take another | `TagsFollowNesting` asks that they agree |
| `EV` 3726 | an error or a limit in a comprehension drops all its fields, and the error | `{if 1 {x: 2}, w: 1}` is `{w: 1}` |
| `EV` 3488, 9193 | a reference between or before two declarations of a field sees one of them | `a: {y: >1, z: y, y: <2}` (`LexicalMeaning`) |
| `EV` 1100 | a structural cycle inside an operand of `&` is anything at all, and cached as that | `c: b & _, b: {z: b}` (`LexicalMeaning`) |
| `EV` 1212 | `b: b` is a structural cycle, and cached as one, if it is first read from inside another struct | `a: {x: b}, b: b` (`LexicalMeaning`) |
| `EV` 2182 | lets and aliases are evaluated where they are used | `a: {X=x: 1, p: {x: 2, w: X}}` gives `w` 2 (`LexicalMeaning`) |
| `EV` 2276 | references in a struct do not see the fields a comprehension adds to it | |
| `EV` 3538 | an inner loop with the same variable captures the outer one's in a sibling | |
| `CMP` 392, `EV` 1142 | a comprehension at the top of a file is a list of items, which conflicts with the root struct | |
| `CMP` 635 | a let or an import of an outer scope hides a field of an inner one | `let k = 1, a: {k: 2, w: k}` gives `w` 1 (`LexicalMeaning`) |
| `CMP` 184 | lets and imports of a file are visible in later files; in a package the last file's let wins | two files with a `let k` each (`LexicalMeaning`) |
| `CMP` 604 | a let used before its declaration is diagnosed | |

Met while reading, not run: a string with an interpolation ends at a quote inside
`\( )` (scanner); with `include_comments`, comments inside expressions are
errors (`crates/syntax/src/lib.rs` 484); the recursion of prefix operators is not counted
by the depth limit (`parser.rs` 533); `LineIndex` is off by one at the start
of a line (`crates/source/src/lib.rs` 149).

## 7. Not modelled

- Builtin functions, the parsing of path selectors' text, diagnostics and their
  rendering, `clap`'s parsing of arguments, the `def`, `fmt` and `version`
  commands: pure functions over large inputs, I/O or delegation, where a bounded
  model adds little to the unit tests and the upstream fixtures.
- The texts of JSON, YAML, TOML and CUE, and base64: third-party crates or
  formatting; their trees are modelled.
- The arenas, typed ids and the interner of the ADT runtime: identity maps.
- Source names and limits; `LineIndex`, interpolation, deferred defaults and
  overlay scopes are in the plan.
