---------------------------- MODULE LoaderClosure ----------------------------
(***************************************************************************)
(* What a load must do, stated without its queue and its traversals: the   *)
(* closure of the imports of the files (ImportClosure.tla), a reason for   *)
(* what is not found, and the injected tags in the files that are selected.*)
(***************************************************************************)
EXTENDS Loader

(* The phase, the queue and the traversal agree: an import is read only    *)
(* while imports are resolved and only after it is marked visited; the     *)
(* queue holds known paths; a failure, and only a failure, has a reason.   *)
TypeOK ==
    /\ phase \in {"args", "tags", "parse", "imports"} \union Terminal
    /\ error \in Errors \union {NONE} /\ (phase = "failed" <=> error # NONE)
    /\ pending \in Seq(ImportPaths) /\ visited \subseteq ImportPaths
    /\ current # NONE => current \in visited /\ walk # NONE /\ phase \in {"imports", "failed"}
    /\ walk # NONE => walk.entries \subseteq Paths /\ ToSet(walk.dirs) \subseteq Paths
    /\ phase \in {"tags", "parse"} => walk = NONE /\ args = <<>>

----------------------------------------------------------------------------
CueFilesIn(dir) == {path \in disk.entries[dir] : disk.kind[path] = "cue"}

SourcesOf(path) ==
    LET dir == ImportDir[path]
        names == IF disk.kind[dir] = "dir" THEN CueFilesIn(dir) ELSE {}
    IN  {disk.source[name] : name \in {n \in names : disk.source[n].parses}}

ToLoad(paths) == {path \in paths : NeedsLoading(path)}

Uses ==
    [found |-> [path \in ToLoad(ImportPaths) |-> ImportKind[path] = "local" /\ SourcesOf(path) # {}],
     package |-> [path \in ToLoad(ImportPaths) |->
                    IF ImportKind[path] = "local"
                    THEN ToLoad(UNION {source.imports : source \in SourcesOf(path)}) ELSE {}]]

Diagnosed(code) == {path \in ImportPaths : \E i \in DOMAIN instance.diagnostics :
                                               instance.diagnostics[i] = <<code, path>>}

Wanted == ToLoad(ToSet(pending)) \union visited \union Diagnosed("invalid")
Settled == (visited \ {current}) \union Diagnosed("invalid")
Status == IF phase \in Terminal THEN phase ELSE IF phase = "imports" THEN "resolving" ELSE "reading"

Closure == INSTANCE ImportClosure WITH
    uses <- Uses, wanted <- Wanted, settled <- Settled, resolved <- DOMAIN instance.imports,
    status <- Status

(* The work list implements the closure: it settles what a file read so    *)
(* far names, nothing twice, and stops only when nothing is left           *)
(* (resolve_local_imports).                                                *)
ImplementsClosure == Closure!Spec

(* Import cycles and directories that name each other do not keep the      *)
(* loader busy: every load ends.                                           *)
LoadEnds == Closure!Answered

(* The files of the instance and of the packages it has imported. *)
Kept ==
    {instance.files[i].source : i \in DOMAIN instance.files}
    \union UNION {{instance.imports[path][i].source : i \in DOMAIN instance.imports[path]} :
                     path \in DOMAIN instance.imports}

(* Where the diagnostics say why a local import has no package. *)
Reasons(path) ==
    {i \in DOMAIN instance.diagnostics : instance.diagnostics[i] \in {"missing", "empty"} \X {path}}

(* An import of a file that is kept is resolved or has one diagnostic that *)
(* says why it is not, also when the package selector has dropped files.   *)
ImportsExplained ==
    phase = "done" =>
        \A path \in ToLoad(UNION {source.imports : source \in Kept}) :
            CASE ImportKind[path] = "invalid" -> path \in Diagnosed("invalid")
              [] path \in DOMAIN instance.imports -> Reasons(path) = {}
              [] OTHER -> Cardinality(Reasons(path)) = 1

----------------------------------------------------------------------------
(* The fields that tags inject: they are a source of their own. *)
Injected(sources) ==
    UNION {DOMAIN sources[i].source.injects : i \in {i \in DOMAIN sources : sources[i].name = "tags.cue"}}

(* The package selector keeps the injected fields with the files they      *)
(* belong to: tags.cue carries the package clause it is selected by.       *)
TagsSurviveSelection ==
    (phase = "done" /\ request.selector.kind # "none") => Injected(instance.files) = Injected(files)
=============================================================================
