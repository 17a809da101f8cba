------------------------------- MODULE Loader -------------------------------
(***************************************************************************)
(* One call of Loader::load_args (crates/loader/src/lib.rs): arguments are *)
(* read from disk, overlays and injected tags are added, all files are     *)
(* parsed, local imports are resolved with a work list, and the package    *)
(* selector picks the files.  Directories are enumerated in any order and  *)
(* any access to the disk may fail.                                        *)
(*                                                                         *)
(* A source is its package, the package the tag scan takes it for, the     *)
(* imports it names, the lines that scan sees, why its bytes are refused   *)
(* if they are, and whether it yields a syntax tree when parsed.           *)
(***************************************************************************)
EXTENDS TagInjection, Stacks, Rankings

CONSTANTS
    NameOrder,     \* the paths of the disk, and - for stdin, in the order of their names
    Disks,         \* named disks: kinds of paths, entries of directories, sources of files
    Loads,         \* pairs of a disk's name and a request: its arguments, stdin, overlays,
                   \* tags and package selector
    ImportKind,    \* import path -> "builtin" | "plain" | "invalid" | "local"
    ImportDir,     \* local import path -> directory under cue.mod/pkg
    ImportOrder,   \* the import paths in the order of their names
    TagsLimit,     \* how many injected fields a source of the size limit holds
    NONE

VARIABLES
    volume,        \* the name of the disk
    request,
    phase,         \* "args" | "tags" | "parse" | "imports" | "done" | "failed"
    error,         \* why the load failed
    args,          \* arguments left
    walk,          \* the directory traversal in progress, or NONE
    files,         \* cue_files
    data,          \* data_files
    instance,      \* the BuildInstance under construction
    pending,       \* imports to resolve, a queue
    visited,
    current        \* the import whose directory is read, or NONE

Paths == ToSet(NameOrder)
ImportPaths == ToSet(ImportOrder)
Arguments == UNION {ToSet(pair[2].args) : pair \in Loads}

disk == Disks[volume]
inputs == <<volume, request>>

resolution == <<pending, visited, current>>
vars == <<inputs, phase, error, args, walk, files, data, instance, resolution>>

Refusals == {"too_large", "not_utf8"}
Errors == Refusals \union {"io", "symlink", "escapes", "traversal", "bad_tag", "bad_package"}
Terminal == {"done", "failed"}

Position(order, name) == CHOOSE i \in DOMAIN order : order[i] = name
InOrder(order, names) == Subsequence(order, {i \in DOMAIN order : order[i] \in names})

EmptyInstance == [package |-> NONE, files |-> <<>>, direct |-> {}, imports |-> <<>>, diagnostics |-> <<>>]

Init ==
    /\ \E pair \in Loads : volume = pair[1] /\ request = pair[2]
    /\ phase = "args" /\ error = NONE
    /\ args = request.args
    /\ walk = NONE
    /\ files = <<>> /\ data = <<>>
    /\ instance = EmptyInstance
    /\ pending = <<>> /\ visited = {} /\ current = NONE

Fail(reason) ==
    /\ phase' = "failed" /\ error' = reason
    /\ UNCHANGED <<inputs, args, walk, files, data, instance, resolution>>

----------------------------------------------------------------------------
(* Arguments *)

Source(name, overlay, source) == [name |-> name, overlay |-> overlay, source |-> source]

(* What can be read: the sources of the disks, and what is piped to stdin. *)
ContentsOn(name) == {Disks[name].source[path] : path \in Paths}
Piped == {pair[2].stdin : pair \in Loads} \ {NONE}
Contents == Piped \union UNION {ContentsOn(name) : name \in DOMAIN Disks}

SourceFiles == [name : Paths, overlay : BOOLEAN, source : Contents]

(* resolve_existing_path: why a path argument is refused, or NONE. *)
PathError(path) ==
    CASE disk.kind[path] = "dotdot" -> "traversal"
      [] disk.kind[path] = "none" -> "io"
      [] disk.kind[path] = "link" -> "symlink"
      [] disk.kind[path] = "outside" -> "escapes"
      [] OTHER -> NONE

ReadingArgs(form) ==
    /\ phase = "args" /\ walk = NONE
    /\ args # <<>> /\ Head(args).form = form

LoadStdin ==
    /\ ReadingArgs("stdin")
    /\ IF request.stdin # NONE /\ request.stdin.refused # NONE THEN Fail(request.stdin.refused)
       ELSE /\ args' = Tail(args)
            /\ files' = IF request.stdin = NONE THEN files
                        ELSE Append(files, Source("-", TRUE, request.stdin))
            /\ UNCHANGED <<inputs, phase, error, walk, data, instance, resolution>>

(* json:path, yaml:path, toml:path, or a path with one of these extensions; path - is stdin. *)
LoadData ==
    /\ ReadingArgs("data")
    /\ LET path == Head(args).path
       IN  IF path # "-" /\ PathError(path) # NONE THEN Fail(PathError(path))
           ELSE /\ args' = Tail(args)
                /\ data' = Append(data, path)
                /\ UNCHANGED <<inputs, phase, error, walk, files, instance, resolution>>

Traversals ==
    [dirs : Seq(Paths), entries : SUBSET Paths, recursive : BOOLEAN, found : Seq(SourceFiles)]

Traverse(dir, recursive, found) ==
    [dirs |-> <<dir>>, entries |-> {}, recursive |-> recursive, found |-> found]

LoadPath ==
    /\ ReadingArgs("path")
    /\ LET path == Head(args).path
           kind == disk.kind[path]
       IN  IF PathError(path) # NONE THEN Fail(PathError(path))
           ELSE IF kind = "cue" /\ disk.source[path].refused # NONE THEN Fail(disk.source[path].refused)
           ELSE /\ args' = Tail(args)
                /\ walk' = IF kind = "dir" THEN Traverse(path, FALSE, files) ELSE NONE
                /\ files' = IF kind = "cue" THEN Append(files, Source(path, FALSE, disk.source[path]))
                            ELSE files
                /\ UNCHANGED <<inputs, phase, error, data, instance, resolution>>

(* path/... *)
LoadTree ==
    /\ ReadingArgs("tree")
    /\ LET path == Head(args).path
       IN  IF PathError(path) # NONE THEN Fail(PathError(path))
           ELSE /\ args' = Tail(args)
                /\ walk' = Traverse(path, TRUE, files)
                /\ UNCHANGED <<inputs, phase, error, files, data, instance, resolution>>

----------------------------------------------------------------------------
(* collect_directory *)

OpenDirectory ==
    /\ walk # NONE /\ phase \notin Terminal
    /\ walk.entries = {} /\ walk.dirs # <<>>
    /\ IF disk.kind[Last(walk.dirs)] # "dir" THEN Fail("io")
       ELSE /\ walk' = [walk EXCEPT !.dirs = Front(@), !.entries = disk.entries[Last(walk.dirs)]]
            /\ UNCHANGED <<inputs, phase, error, args, files, data, instance, resolution>>

VisitEntry(path) ==
    /\ walk # NONE /\ phase \notin Terminal
    /\ path \in walk.entries
    /\ LET kind == disk.kind[path]
           left == [walk EXCEPT !.entries = @ \ {path}]
       IN  IF kind = "link" THEN Fail("symlink")
           ELSE IF kind = "cue" /\ disk.source[path].refused # NONE THEN Fail(disk.source[path].refused)
           ELSE /\ walk' = IF kind = "dir" /\ walk.recursive
                           THEN [left EXCEPT !.dirs = Append(@, path)]
                           ELSE IF kind = "cue"
                           THEN [left EXCEPT !.found = Append(@, Source(path, FALSE, disk.source[path]))]
                           ELSE left
                /\ UNCHANGED <<inputs, phase, error, args, files, data, instance, resolution>>

(* Mutated form: the entries stay in the order of the enumeration. *)
Unsorted(sources) == sources

(* Files of the same name keep their order. *)
NamedBefore(sources) ==
    LET place(i) == Position(NameOrder, sources[i].name)
    IN  [i \in DOMAIN sources |->
            {j \in DOMAIN sources : place(j) < place(i) \/ (place(j) = place(i) /\ j < i)}]

SortByName(sources) == Arranged(sources, DOMAIN sources, NamedBefore(sources))

DirectoryRead == walk # NONE /\ phase \notin Terminal /\ walk.entries = {} /\ walk.dirs = <<>>

(* The whole list of sources is sorted, those of earlier arguments included. *)
FinishArgument ==
    /\ DirectoryRead /\ current = NONE
    /\ files' = SortByName(walk.found)
    /\ walk' = NONE
    /\ UNCHANGED <<inputs, phase, error, args, data, instance, resolution>>

----------------------------------------------------------------------------
(* Overlays, tags, parsing *)

AddOverlays ==
    /\ phase = "args" /\ walk = NONE /\ args = <<>>
    /\ IF \E i \in DOMAIN request.overlays : request.overlays[i].dotdot THEN Fail("traversal")
       ELSE /\ files' = files \o [i \in DOMAIN request.overlays |->
                                    Source(request.overlays[i].name, TRUE, request.overlays[i].source)]
            /\ phase' = "tags"
            /\ UNCHANGED <<inputs, error, args, walk, data, instance, resolution>>

(* collect_tag_injections looks for the package clause in the text itself. *)
Selected(source) == request.selector.kind # "named" \/ source.scanned = request.selector.name

Injections ==
    FoldLeft(LAMBDA acc, file :
                IF Selected(file.source) THEN CollectTagInjections(file.source.lines, request.tags) @@ acc
                ELSE acc,
             <<>>, files)

(* Mutated form: the generated source has no package clause. *)
TagsSourceWithoutPackage(injections) ==
    [package |-> NONE, scanned |-> NONE, imports |-> {}, lines |-> <<>>, refused |-> NONE, parses |-> TRUE,
     injects |-> injections]

TagsSource(injections) ==
    LET package == IF request.selector.kind = "named" THEN request.selector.name ELSE NONE
    IN  [package |-> package, scanned |-> package, imports |-> {}, lines |-> <<>>, refused |-> NONE,
         parses |-> TRUE, injects |-> injections]

(* push_tags: the injected fields are a source of their own, tags.cue. *)
PushTags ==
    /\ phase = "tags"
    /\ IF DOMAIN request.tags # {} /\ ~request.tagsValid THEN Fail("bad_tag")
       ELSE IF Cardinality(DOMAIN Injections) > TagsLimit THEN Fail("too_large")
       ELSE /\ files' = IF DOMAIN Injections = {} THEN files
                        ELSE Append(files, Source("tags.cue", TRUE, TagsSource(Injections)))
            /\ phase' = "parse"
            /\ UNCHANGED <<inputs, error, args, walk, data, instance, resolution>>

AstFiles(sources) == Subsequence(sources, {i \in DOMAIN sources : sources[i].source.parses})
ParseDiagnostics(sources) ==
    LET bad == Subsequence(sources, {i \in DOMAIN sources : ~sources[i].source.parses})
    IN  [i \in DOMAIN bad |-> <<"parse", bad[i].name>>]

DirectImports(sources) == UNION {sources[i].source.imports : i \in DOMAIN sources}

PackageNameFor(sources) ==
    LET named == SelectSeq(sources, LAMBDA file : file.source.package # NONE)
    IN  IF named = <<>> THEN NONE ELSE Head(named).source.package

ParseFiles ==
    /\ phase = "parse"
    /\ LET asts == AstFiles(files)
       IN  /\ instance' = [EmptyInstance EXCEPT !.package = PackageNameFor(asts), !.files = asts,
                                                !.direct = DirectImports(asts),
                                                !.diagnostics = ParseDiagnostics(files)]
           /\ pending' = InOrder(ImportOrder, DirectImports(asts))
    /\ phase' = "imports"
    /\ UNCHANGED <<inputs, error, args, walk, files, data, visited, current>>

----------------------------------------------------------------------------
(* resolve_local_imports *)

NextImport(kind) ==
    /\ phase = "imports" /\ walk = NONE
    /\ pending # <<>> /\ ImportKind[Head(pending)] = kind

Diagnose(code, path) == [instance EXCEPT !.diagnostics = Append(@, <<code, path>>)]

(* Mutated form: an invalid path is skipped in silence. *)
SkipImportInSilence ==
    /\ NextImport("builtin") \/ NextImport("plain") \/ NextImport("invalid")
    /\ pending' = Tail(pending)
    /\ UNCHANGED <<inputs, phase, error, args, walk, files, data, instance, visited, current>>

(* list, strings, and paths without a dot or a slash. *)
SkipImport ==
    /\ NextImport("builtin") \/ NextImport("plain")
    /\ pending' = Tail(pending)
    /\ UNCHANGED <<inputs, phase, error, args, walk, files, data, instance, visited, current>>

RejectImport ==
    /\ NextImport("invalid")
    /\ pending' = Tail(pending)
    /\ instance' = Diagnose("invalid", Head(pending))
    /\ UNCHANGED <<inputs, phase, error, args, walk, files, data, visited, current>>

(* Mutated form: the path is looked at without being taken from the queue. *)
SkipWithoutPop ==
    /\ NextImport("local") /\ Head(pending) \in visited
    /\ UNCHANGED vars

SkipVisited ==
    /\ NextImport("local") /\ Head(pending) \in visited
    /\ pending' = Tail(pending)
    /\ UNCHANGED <<inputs, phase, error, args, walk, files, data, instance, visited, current>>

OpenImport ==
    /\ NextImport("local") /\ Head(pending) \notin visited
    /\ LET path == Head(pending)
           kind == disk.kind[ImportDir[path]]
       IN  IF kind = "link" THEN Fail("symlink")
           ELSE IF kind = "outside" THEN Fail("escapes")
           ELSE /\ pending' = Tail(pending)
                /\ visited' = visited \union {path}
                /\ IF kind = "none"
                   THEN instance' = Diagnose("missing", path) /\ UNCHANGED <<walk, current>>
                   ELSE /\ walk' = Traverse(ImportDir[path], FALSE, <<>>)
                        /\ current' = path
                        /\ UNCHANGED instance
                /\ UNCHANGED <<inputs, phase, error, args, files, data>>

NeedsLoading(path) == ImportKind[path] \in {"invalid", "local"}

(* Mutated form: the imports of an imported package are not followed. *)
NoNestedImports(asts) == {}

NestedImports(asts) == {path \in DirectImports(asts) : NeedsLoading(path) /\ path \notin visited}

(* Mutated form: the import stays the current one. *)
KeepCurrent == walk' = NONE /\ UNCHANGED current

CloseImport == walk' = NONE /\ current' = NONE

FinishImport ==
    /\ DirectoryRead /\ current # NONE
    /\ LET sources == SortByName(walk.found)
           asts == AstFiles(sources)
           reported == instance.diagnostics \o ParseDiagnostics(sources)
       IN  IF asts = <<>>
           THEN /\ instance' = [instance EXCEPT !.diagnostics = Append(reported, <<"empty", current>>)]
                /\ UNCHANGED pending
           ELSE /\ instance' = [instance EXCEPT !.diagnostics = reported,
                                                !.imports = [path \in DOMAIN @ \union {current} |->
                                                                IF path = current THEN asts ELSE @[path]]]
                /\ pending' = pending \o InOrder(ImportOrder, NestedImports(asts))
    /\ CloseImport
    /\ UNCHANGED <<inputs, phase, error, args, files, data, visited>>

----------------------------------------------------------------------------
(* apply_package_selector *)

SelectNamed(name) ==
    LET kept == Subsequence(instance.files,
                            {i \in DOMAIN instance.files : instance.files[i].source.package = name})
    IN  IF kept = <<>>
        THEN [Diagnose("package_mismatch", name) EXCEPT !.package = name]
        ELSE [instance EXCEPT !.files = kept, !.direct = DirectImports(kept), !.package = name]

ApplyPackageSelector ==
    /\ phase = "imports" /\ walk = NONE /\ pending = <<>>
    /\ IF request.selector.kind = "named" /\ ~request.selector.valid THEN Fail("bad_package")
       ELSE /\ instance' = CASE request.selector.kind = "named" -> SelectNamed(request.selector.name)
                             [] request.selector.kind = "none" ->
                                    [instance EXCEPT !.files = <<>>, !.package = NONE]
                             [] OTHER -> instance
            /\ phase' = "done"
            /\ UNCHANGED <<inputs, error, args, walk, files, data, resolution>>

(* What the constants are: a directory's entries are paths, an import      *)
(* directory is one, the arguments name paths, files import known paths,   *)
(* what is piped is text, and only the source that PushTags makes is named *)
(* tags.cue.                                                               *)
ASSUME DisksAssumption ==
    \A name \in DOMAIN Disks : \A dir \in Paths :
        Disks[name].kind[dir] = "dir" => Disks[name].entries[dir] \subseteq Paths

ASSUME ImportsAssumption ==
    /\ IsSequence(ImportOrder) /\ IsSequence(NameOrder)
    /\ \A path \in ImportPaths : ImportKind[path] = "local" => ImportDir[path] \in Paths
    /\ \A source \in Contents : source.imports \subseteq ImportPaths /\ source.refused \in Refusals \union {NONE}

ASSUME LoadsAssumption ==
    /\ "-" \in Paths /\ "tags.cue" \notin Paths
    /\ \A argument \in Arguments : argument.path \in Paths
    /\ \A pair \in Loads :
          /\ pair[1] \in DOMAIN Disks
          /\ IsSequence(pair[2].args) /\ IsSequence(pair[2].overlays)
          /\ pair[2].stdin # NONE => pair[2].stdin.refused # "not_utf8"
          /\ \A i \in DOMAIN pair[2].overlays :
                /\ pair[2].overlays[i].source.imports \subseteq ImportPaths
                /\ pair[2].overlays[i].name # "tags.cue"

ASSUME LimitAssumption == TagsLimit \in Nat

ASSUME NoneAssumption == NONE \notin ImportPaths /\ NONE \notin Errors /\ NONE \notin Traversals

(* Any of the asynchronous calls to the file system returns an error. *)
DiskError ==
    /\ phase \in {"args", "imports"}
    /\ walk # NONE \/ (phase = "args" /\ args # <<>> /\ Head(args).path # "-")
                   \/ (NextImport("local") /\ Head(pending) \notin visited)
    /\ Fail("io")

Finished == phase \in Terminal /\ UNCHANGED vars

Next ==
    \/ DiskError
    \/ LoadStdin \/ LoadData \/ LoadPath \/ LoadTree
    \/ OpenDirectory \/ (\E path \in Paths : VisitEntry(path)) \/ FinishArgument
    \/ AddOverlays \/ PushTags \/ ParseFiles
    \/ SkipImport \/ RejectImport \/ SkipVisited \/ OpenImport \/ FinishImport
    \/ ApplyPackageSelector \/ Finished

Spec == Init /\ [][Next]_vars

(* The caller awaits the future of load_args until it is ready. *)
FairSpec == Spec /\ WF_vars(Next)
=============================================================================
