---------------------------- MODULE TagInjection ----------------------------
(***************************************************************************)
(* How the loader finds the fields that carry @tag(name): a scan of the    *)
(* source text, line by line, with comments stripped                       *)
(* (crates/loader/src/lib.rs, collect_tag_injections).                     *)
(*                                                                         *)
(* A document is a sequence of lines, a line a sequence of tokens outside  *)
(* strings: a label with its colon, a brace, an attribute @tag(name), or a *)
(* comma; text without these is left out.  ok = FALSE marks a label that   *)
(* is not a plain identifier or string (x?, (x)).                          *)
(***************************************************************************)
EXTENDS Naturals, Sequences, SequencesExt, TLC

Label(n) == [t |-> "label", n |-> n, ok |-> TRUE]
OddLabel(n) == [t |-> "label", n |-> n, ok |-> FALSE]
Open == [t |-> "open"]
Close == [t |-> "close"]
Tag(n) == [t |-> "tag", n |-> n, ok |-> TRUE]
Comma == [t |-> "comma"]

Is(token, kind) == token.t = kind

NoPath == <<>>

(* The labels of the colons of a prefix; none if one of them is odd. *)
InjectionFieldPath(prefix) ==
    LET labels == SelectSeq(prefix, LAMBDA token : Is(token, "label"))
    IN  IF \E i \in DOMAIN labels : ~labels[i].ok
        THEN NoPath
        ELSE [i \in DOMAIN labels |-> labels[i].n]

Before(line, i) == SubSeq(line, 1, i - 1)

(* Only the first @tag of a line is looked at. *)
TagInjectionTarget(line) ==
    LET tags == {i \in DOMAIN line : Is(line[i], "tag")}
        first == CHOOSE i \in tags : \A j \in tags : i <= j
    IN  IF tags = {} THEN [path |-> NoPath]
        ELSE IF ~line[first].ok THEN [path |-> NoPath]
        ELSE [path |-> InjectionFieldPath(Before(line, first)), tag |-> line[first].n]

(* Mutated form: a closing brace leaves the scope as it is. *)
ScopeNeverPopped(line, scope) ==
    FoldLeft(LAMBDA s, i : IF Is(line[i], "open") THEN s \o InjectionFieldPath(Before(line, i)) ELSE s,
             scope, [i \in DOMAIN line |-> i])

(* Every { pushes all the labels before it on its line, every } pops one label. *)
UpdateTagScope(line, scope) ==
    FoldLeft(LAMBDA s, i :
                IF Is(line[i], "open") THEN s \o InjectionFieldPath(Before(line, i))
                ELSE IF Is(line[i], "close") /\ s # <<>> THEN Front(s)
                ELSE s,
             scope, [i \in DOMAIN line |-> i])

(* The paths injected from one document, with the value of the tag. *)
CollectTagInjections(lines, tags) ==
    FoldLeft(LAMBDA acc, line :
                LET target == TagInjectionTarget(line)
                    injects == target.path # NoPath /\ target.tag \in DOMAIN tags
                IN  [scope |-> UpdateTagScope(line, acc.scope),
                     found |-> IF injects
                               THEN ((acc.scope \o target.path) :> tags[target.tag]) @@ acc.found
                               ELSE acc.found],
             [scope |-> <<>>, found |-> <<>>], lines).found

----------------------------------------------------------------------------
(* The fields that carry a tag, by the nesting of the braces. *)
Lexical(lines) ==
    FoldLeft(LAMBDA acc, token :
                CASE Is(token, "label") -> [acc EXCEPT !.pending = Append(@, token)]
                  [] Is(token, "open")  -> [acc EXCEPT !.frames = Append(@, acc.pending),
                                                       !.pending = <<>>]
                  [] Is(token, "close") -> [acc EXCEPT !.pending = <<>>,
                                                       !.frames = IF @ = <<>> THEN @ ELSE Front(@)]
                  [] Is(token, "tag")   -> [acc EXCEPT !.tagged = @ \union
                                              {[path |-> FlattenSeq(acc.frames) \o acc.pending, tag |-> token]}]
                  [] OTHER -> [acc EXCEPT !.pending = <<>>],
             [frames |-> <<>>, pending |-> <<>>, tagged |-> {}],
             FlattenSeq([i \in DOMAIN lines |-> Append(lines[i], [t |-> "eol"])])).tagged

TaggedFields(lines, tags) ==
    {[i \in DOMAIN f.path |-> f.path[i].n] : f \in
        {f \in Lexical(lines) : /\ f.tag.ok /\ f.tag.n \in DOMAIN tags
                                /\ \A i \in DOMAIN f.path : f.path[i].ok}}

(* One struct per line, opened by one label: what the scan is made for. *)
OneLabelPerBrace(lines) ==
    \A l \in DOMAIN lines :
        LET line == lines[l]
            labels == {i \in DOMAIN line : Is(line[i], "label")}
            opens == {i \in DOMAIN line : Is(line[i], "open")}
            tags == {i \in DOMAIN line : Is(line[i], "tag")}
        IN  /\ \A i, j \in opens : i = j
            /\ \A i, j \in tags : i = j
            /\ \A i \in DOMAIN line : ~Is(line[i], "comma")
            /\ opens # {} => \A i, j \in labels : i = j
            /\ \A i \in opens : \E j \in labels : j = i - 1 /\ line[j].ok
            /\ \A i \in DOMAIN line : Is(line[i], "close") => i = 1
=============================================================================
