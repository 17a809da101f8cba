------------------------------ MODULE MC_Loader ------------------------------
(***************************************************************************)
(* A module with two files, a subdirectory and three import directories.   *)
(* Varied: what the files import, a link and a file in the tree that is    *)
(* refused, the directory of an import, the request.                       *)
(***************************************************************************)
EXTENDS LoaderReference

MCNameOrder == <<"-", "/", "/a", "/b", "/big", "/mod", "/mod/x", "/mod/x/1", "/mod/x/2",
                 "/mod/y", "/mod/y/1", "/mod/z", "/sub", "/sub/c", "/up", "overlay.cue">>
MCImportOrder == <<"../bad", "list", "x.y/x", "x.y/y", "x.y/z">>
MCImportKind == [path \in ToSet(MCImportOrder) |->
                    CASE path = "../bad" -> "invalid" [] path = "list" -> "builtin" [] OTHER -> "local"]
MCImportDir == [path \in {"x.y/x", "x.y/y", "x.y/z"} |->
                    CASE path = "x.y/x" -> "/mod/x" [] path = "x.y/y" -> "/mod/y" [] OTHER -> "/mod/z"]

Src(package, imports, lines) ==
    [package |-> package, scanned |-> package, imports |-> imports, lines |-> lines, refused |-> NONE, parses |-> TRUE]

Kinds(link, y) ==
    [path \in ToSet(MCNameOrder) |->
        CASE path \in {"/", "/mod", "/mod/x", "/mod/z"} -> "dir"
          [] path = "/sub" -> link
          [] path = "/mod/y" -> y
          [] path = "/up" -> "dotdot"
          [] path = "/mod/y/1" -> "data"
          [] OTHER -> "cue"]

Entries == [path \in {"/", "/mod", "/mod/x", "/mod/y", "/mod/z", "/sub"} |->
    CASE path = "/" -> {"/a", "/b", "/sub", "/mod"}
      [] path = "/mod" -> {"/mod/x", "/mod/y"}
      [] path = "/mod/x" -> {"/mod/x/1", "/mod/x/2"}
      [] path = "/mod/y" -> {"/mod/y/1"}
      [] path = "/mod/z" -> {"/big"}
      [] OTHER -> {"/sub/c"}]

NoLines == <<>>
Nested == << <<Label("s"), Open>>, <<Label("f"), Tag("t")>>, <<Close>> >>

Sources(a, x1, x2, big) == [path \in ToSet(MCNameOrder) |->
    CASE path = "/a" -> Src("p", a, Nested)
      [] path = "/b" -> Src("q", {"x.y/z"}, << <<Label("g"), Tag("t")>> >>)
      [] path = "/mod/x/1" -> Src("x", x1, NoLines)
      [] path = "/mod/x/2" -> [Src("x", x2, NoLines) EXCEPT !.parses = (x2 # {})]
      [] path = "/big" -> [Src("z", {"x.y/x", "x.y/z"}, NoLines) EXCEPT !.refused = big]
      [] OTHER -> Src(NONE, {}, NoLines)]

(* Named by the kinds of /sub, /big, /mod/y and the imports of /a, /mod/x/1 and /mod/x/2. *)
Names ==
    {<<"dir", NONE, y, a, x1, x2>> :
        y \in {"dir", "none"},
        a \in {{}, {"x.y/x", "../bad"}, {"x.y/x", "x.y/y", "list"}},
        x1 \in {{"x.y/x"}, {"x.y/z", "../bad"}}, x2 \in {{"x.y/y"}}}
    \union {<<link, big, y, {"x.y/x", "x.y/y"}, {"x.y/z"}, {}>> :
        link \in {"link", "dir"}, big \in {NONE, "too_large", "not_utf8"}, y \in {"link", "outside", "cue"}}

MCDisks == [n \in Names |->
    [kind |-> Kinds(n[1], n[3]), entries |-> Entries, source |-> Sources(n[4], n[5], n[6], n[2])]]

Arg(form, path) == [form |-> form, path |-> path]
Default == [kind |-> "default"]
Named(name) == [kind |-> "named", name |-> name, valid |-> TRUE]

Request(arguments, overlays, tags, selector) ==
    [args |-> arguments, stdin |-> Src(NONE, {}, NoLines), overlays |-> overlays,
     tags |-> tags, tagsValid |-> TRUE, selector |-> selector]

(* Documents for the tag scan, given as overlays. *)
LineShapes == { <<Label("s"), Open>>, <<Label("f"), Tag("t")>>, <<Close>>, <<Label("u"), Label("f"), Tag("t")>>,
                <<OddLabel("x"), Tag("t")>> }
Overlay(dotdot, lines) == [name |-> "overlay.cue", dotdot |-> dotdot, source |-> Src("p", {"x.y/z"}, lines)]
NoTags == <<>>
OneTag == "t" :> "1"

MCRequests ==
    {Request(arguments, <<>>, OneTag, selector) :
        arguments \in {<<Arg("path", "/")>>, <<Arg("stdin", "-"), Arg("tree", "/")>>,
                       <<Arg("path", "/b"), Arg("path", "/sub"), Arg("path", "/a"), Arg("path", "/a")>>},
        selector \in {Default, [kind |-> "none"], Named("p"), Named("r"), [Named("p") EXCEPT !.valid = FALSE]}}
    \union {Request(<<Arg("data", "-"), Arg("data", path)>>, <<Overlay(path = "/b", NoLines)>>, NoTags, Default) :
                path \in {"/b", "/up", "/sub"}}
    \union {[Request(<<Arg("stdin", "-")>>, <<>>, OneTag, Default) EXCEPT !.tagsValid = FALSE]}

TagDisk == <<"dir", NONE, "none", {}, {"x.y/x"}, {"x.y/y"}>>
TagRequest(overlay) == Request(<<Arg("path", "/b")>>, <<overlay>>, OneTag, Named("p"))
TagRequests ==
    {TagRequest(Overlay(FALSE, lines)) : lines \in BoundedSeq(LineShapes, 4)}
    \union {TagRequest([Overlay(FALSE, lines) EXCEPT !.source.package = package, !.source.scanned = scanned]) :
                lines \in BoundedSeq(LineShapes, 2), package \in {"p", NONE}, scanned \in {"p", NONE}}

MCLoads == (Names \X MCRequests) \union ({TagDisk} \X TagRequests)
=============================================================================
