---------------------------- MODULE MC_CommandLine ----------------------------
(***************************************************************************)
(* Schemas x: v for scalars, lists, disjunctions and small structs v, open *)
(* and closed, with and without patterns, against all small documents; and *)
(* commands on several files and expressions.                              *)
(***************************************************************************)
EXTENDS CommandLineReference

MCLanguage == ("^a" :> {"a", "ab"}) @@ ("^b" :> {"b"})

N(i) == Number(i, "int")
F(i) == Number(i, "float")
Bound(op, limit) == Numbers(<<[op |-> op, limit |-> limit]>>, <<>>)
Regex(pattern, negated) == Strings(<<>>, <<[pattern |-> pattern, negated |-> negated]>>)
Or(l, r) == EvaluateDisjunction(l, r)
Open(fields) == StructOf(fields, FALSE, <<>>)
Field(f, v) == [g \in {f} |-> v]
Root(v) == Open(Field("x", v))

Scalars == {TopValue, Kind("int"), Kind("float"), Kind("number"), Kind("string"), Null, Bool(TRUE),
            Bound(">=", 0), Bound("<", 2), Numbers(<<[op |-> ">", limit |-> 0]>>, <<2>>), N(1), F(1), Str("a"),
            Strings(<<[op |-> "MaxRunes", limit |-> 1]>>, <<>>), Regex("^a", FALSE), Regex("^b", TRUE), Regex("(", FALSE),
            Or(Default(Str("a")), Str("b")), Or(Kind("int"), Default(N(1))), Or(Kind("int"), Null),
            Or(Kind("float"), Default(F(1))), Or(Default(N(1)), Default(N(2))), Or(Kind("string"), Kind("number"))}

(* {a, b}, each absent, required or optional *)
FieldValues == {Kind("int"), Or(Default(Str("a")), Str("b")), N(1)}
FieldMaps == UNION {[labels -> FieldValues \union {OptionalField(v) : v \in FieldValues}] : labels \in SUBSET {"a", "b"}}
PatternLists == {<<>>, <<Pattern(Kind("string"), Kind("int"))>>, <<Pattern(Regex("^a", FALSE), Bound("<", 2))>>}
Structs == {StructOf(fields, closed, patterns) : fields \in FieldMaps, closed \in BOOLEAN, patterns \in PatternLists}

Lists == {List(<<Kind("int")>>), OpenList(<<>>, Kind("string")), OpenList(<<Kind("int")>>, TopValue)}
Alternatives == {Or(Open(Field("a", N(1))), Open(Field("a", N(2)))), Or(Default(Open(Field("a", N(1)))), Kind("string")),
            Or(List(<<Kind("int")>>), List(<<Kind("string")>>)), Or(Kind("int"), Open(Field("a", Kind("int"))))}

(* Schemas written with & *)
Meets ==
    {Meet(l, r) : l \in {Kind("int"), Kind("number"), Bound(">=", 0), Numbers(<<>>, <<2>>), Or(Kind("int"), Default(N(1))),
                         Or(Kind("int"), Null), N(1)},
                  r \in {Kind("int"), Bound("<", 2), Numbers(<<>>, <<2>>), Or(Default(N(1)), Default(N(2))),
                         Or(Kind("string"), Kind("number"))}}
StructMeets ==
    {Meet(StructOf(l, closed, <<>>), StructOf(r, FALSE, patterns)) :
        l \in {Field("a", Kind("number")), Field("a", OptionalField(Kind("int"))), Field("a", N(1))}, closed \in BOOLEAN,
        r \in {Field("a", Or(Default(N(1)), N(2))), Field("a", OptionalField(N(1))), Field("b", Kind("int")), <<>>},
        patterns \in PatternLists}

ScalarDocuments == {Null, Bool(TRUE), Bool(FALSE), N(1), F(1), N(2), N(-1), Str("a"), Str("b"), Str("ab")}
StructDocuments == {Open(fields) : fields \in UNION {[labels -> {N(1), N(2), Str("a")}] : labels \in SUBSET {"a", "b", "c"}}}
ListDocuments == {List(<<>>), List(<<N(1)>>), List(<<Str("a")>>), List(<<N(1), Str("a")>>)}

Request(command, cue, files, expressions, out) ==
    [command |-> command, cue |-> cue, data |-> files, positional |-> IF command = "vet" THEN 0 ELSE Len(files),
     expressions |-> expressions, out |-> out, options |-> DefaultExport]
File(encoding, document) == [encoding |-> encoding, document |-> document]
Vet(v, encoding, document) == Request("vet", Root(v), <<File(encoding, Root(document))>>, <<>>, "json")

SchemaVets == {Request("vet", Root(v), <<>>, <<>>, "json") : v \in Scalars \union Meets \union Lists \union Alternatives \union Structs}

ScalarVets ==
    UNION {{Vet(v, "json", d), Vet(v, "toml", d)} : v \in Scalars \union Meets \union Lists \union Alternatives,
               d \in (ScalarDocuments \ {Null}) \union ListDocuments \union {Open(Field("a", N(1)))}}
    \union {Vet(v, "json", Null) : v \in Scalars \union Meets \union Lists \union Alternatives}
StructVets == {Vet(v, "json", d) : v \in Structs \union StructMeets \union Alternatives, d \in StructDocuments}

CueVets ==
    {Vet(v, "cue", d) : v \in Scalars \union Lists \union Alternatives, d \in Scalars \union Lists \union Alternatives}
    \union {Vet(v, "cue", d) : v \in Structs, d \in {StructOf(fields, closed, PatternList) :
                fields \in {Field("a", N(1)), Field("b", OptionalField(Kind("int")))}, closed \in BOOLEAN,
                PatternList \in PatternLists}}

ExportRequests ==
    {Request("export", Root(v), <<>>, <<>>, out) : v \in Structs \union Scalars \union Lists \union Alternatives,
                                                   out \in {"json", "yaml", "toml"}}

(* Several files and expressions, definitions and hidden fields, and what  *)
(* ends a command early.                                                   *)
Service == Open(("#D" :> Kind("int")) @@ ("_h" :> N(1)) @@ ("a" :> Open(Field("b", Or(Default(N(1)), N(2))))))
Path(labels) == [i \in DOMAIN labels |-> Selector("field", labels[i])]
Paths == {Blank, Path(<<"a">>), Path(<<"a", "b">>), Path(<<"#D">>), Path(<<"_h">>), Path(<<"a", "z">>), Path(<<"z">>)}
Files == {File("json", Open(Field("a", Open(Field("b", N(2)))))), File("yaml", Open(Field("a", N(1)))),
          File("toml", Open(Field("a", Open(Field("b", F(2)))))), File("json", Malformed), File("json", List(<<>>)),
          File("json", List(<<List(<<List(<<>>)>>)>>)), File("json", Open(Field("a", N(9))))}
CueFiles == {File("cue", Service), File("cue", Diagnostics)}
UpTo(n, S) == UNION {[1 .. k -> S] : k \in 0 .. n}

Sessions ==
    {Request("vet", cue, files, <<>>, "json") : cue \in {Service, Diagnostics}, files \in UpTo(2, Files \union CueFiles)}
    \union {[Request("vet", NONE, <<file>>, <<>>, "json") EXCEPT !.positional = n] : file \in Files, n \in {0, 1}}
    \union {[Request("vet", Service, <<first, second>>, <<>>, "json") EXCEPT !.positional = n] :
                first \in Files, second \in Files, n \in {1, 2}}
    \union {Request(command, NONE, <<>>, expressions, "json") :
                command \in {"export", "eval"}, expressions \in UpTo(1, Paths)}
    \union {Request(command, cue, files, expressions, out) :
                command \in {"export", "eval"}, cue \in {Service, Diagnostics}, files \in UpTo(1, Files),
                expressions \in UpTo(2, Paths), out \in {"json", "toml"}}
    \union {Request(command, NONE, <<first, second>>, expressions, "yaml") :
                command \in {"export", "eval"}, first \in Files, second \in Files, expressions \in UpTo(1, Paths)}
    \union {[Request("export", Service, <<>>, <<>>, "json") EXCEPT !.options = ExportOptions(definitions, hidden, optional)] :
                definitions \in BOOLEAN, hidden \in BOOLEAN, optional \in BOOLEAN}

MCRequests == {SchemaVets, ScalarVets, StructVets, CueVets, ExportRequests, Sessions}
MCDefinitions == {"#D"}
MCHidden == {"_h"}
MCIntegers64 == -8 .. 8
MCExactFloats == -4 .. 8
MCDecodeLimits == [depth |-> 3, items |-> 3, bytes |-> 2]
=============================================================================
