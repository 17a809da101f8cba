--------------------------- MODULE LoaderReference ---------------------------
(***************************************************************************)
(* Which files a load must read and which fields its tags must set, stated *)
(* without the loader's traversals and its scan of lines.                  *)
(***************************************************************************)
EXTENDS LoaderClosure

----------------------------------------------------------------------------
(* Files *)

(* The directories that a disk holds, and those below a path: in every set *)
(* of directories that has the path and the directories its members list.  *)
DirectoriesOn(on) == {path \in Paths : on.kind[path] = "dir"}

ClosedBelow(on, dirs) == \A dir \in dirs : on.entries[dir] \intersect DirectoriesOn(on) \subseteq dirs

DirectoriesUnder(on, path) ==
    {dir \in DirectoriesOn(on) :
        \A dirs \in SUBSET DirectoriesOn(on) :
            {path} \intersect DirectoriesOn(on) \subseteq dirs /\ ClosedBelow(on, dirs) => dir \in dirs}

Under(on, path) == {path} \union UNION {on.entries[dir] : dir \in DirectoriesUnder(on, path)}

(* The path of an entry is the one of its directory and a name, and links  *)
(* are refused: nothing lies under two entries of a directory.             *)
ASSUME ForestAssumption ==
    \A name \in DOMAIN Disks : \A dir \in DirectoriesOn(Disks[name]) :
        \A e, f \in Disks[name].entries[dir] :
            e # f => Under(Disks[name], e) \intersect Under(Disks[name], f) = {}

CueFilesUnder(on, path, recursive) ==
    LET dirs == IF recursive THEN DirectoriesUnder(on, path) ELSE {path}
    IN  {file \in UNION {on.entries[dir] : dir \in dirs} : on.kind[file] = "cue"}

(* The CUE files one argument names. *)
FilesOf(arg) ==
    CASE arg.form = "stdin" -> IF request.stdin = NONE THEN {} ELSE {"-"}
      [] arg.form = "path" /\ disk.kind[arg.path] = "dir" -> CueFilesUnder(disk, arg.path, FALSE)
      [] arg.form = "path" /\ disk.kind[arg.path] = "cue" -> {arg.path}
      [] arg.form = "tree" -> CueFilesUnder(disk, arg.path, TRUE)
      [] OTHER -> {}

IsDirectory(arg) == arg.form = "tree" \/ (arg.form = "path" /\ disk.kind[arg.path] = "dir")

(* How often a file was read, and by which of the arguments it is named.   *)
Times(name, read) == Cardinality({i \in DOMAIN read : read[i].name = name})
Naming(name, places) == {i \in places : name \in FilesOf(request.args[i])}

Sorted(read) ==
    \A i, j \in DOMAIN read :
        i < j => Position(NameOrder, read[i].name) <= Position(NameOrder, read[j].name)

(* However the file system enumerates directories, the instance has every  *)
(* file its arguments name, as often as they name it, and if the last      *)
(* argument is a directory the files before overlays and tags are in the   *)
(* order of their names (load_args, collect_directory).                    *)
FilesAreThoseNamed ==
    phase = "tags" =>
        LET read == SubSeq(files, 1, Len(files) - Len(request.overlays))
        IN  /\ \A name \in Paths :
                   Times(name, read) = Cardinality(Naming(name, DOMAIN request.args))
            /\ (request.args # <<>> /\ IsDirectory(Last(request.args))) => Sorted(read)

----------------------------------------------------------------------------
(* Tags *)

(* The injected fields are those that carry a tag of the request in the    *)
(* files of the selected package, no others (collect_tag_injections,       *)
(* update_tag_scope).                                                      *)
Documents == {files[i].source : i \in {i \in DOMAIN files : files[i].name # "tags.cue"}}
OfPackage(source) == request.selector.kind # "named" \/ source.package = request.selector.name
TagsReachFields ==
    phase = "parse" =>
        Injected(files) = UNION {TaggedFields(source.lines, request.tags) : source \in {s \in Documents : OfPackage(s)}}

(* So it is when every document opens one struct per line, each after its  *)
(* one label, and the scan sees the package clause that the parser sees.   *)
TagsFollowNesting ==
    (\A source \in Documents : OneLabelPerBrace(source.lines) /\ source.scanned = source.package) => TagsReachFields
=============================================================================
