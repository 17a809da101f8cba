-------------------------- MODULE MC_StructScopes --------------------------
(***************************************************************************)
(* Sources of a few top-level fields, of which a is a struct: with a       *)
(* nested struct between the fields that refer to one another, with a      *)
(* field that is declared twice, with a nested struct that hides a name of *)
(* the one around it, with a low depth limit, with lets and aliases, with  *)
(* packages and several files, with comprehensions, and with faults.       *)
(*                                                                         *)
(* No source depends on what is known to be resolved elsewhere than its    *)
(* text says: where a field, a let or an alias is evaluated for a          *)
(* reference from another struct, no name it needs is a name of that       *)
(* struct (see MC_StructScopesFindings); no name is declared both as a     *)
(* field and as a let, an import or a variable; nested loops have          *)
(* different variables; no let of a file is used in another file; no field *)
(* that a comprehension adds is referred to outside its body.              *)
(***************************************************************************)
EXTENDS StructScopesReference

Lit(n) == [op |-> "lit", value |-> Constraints({n})]
List(items) == [op |-> "lit", value |-> ListValue(items)]
Bool(b) == [op |-> "lit", value |-> BoolValue(b)]
Name(name) == [op |-> "name", name |-> name]
Select(base, field) == [op |-> "select", base |-> base, field |-> field]
Both(left, right) == [op |-> "and", left |-> left, right |-> right]
And(name, n) == Both(Name(name), Lit(n))
Struct(decls) == [op |-> "struct", decls |-> decls]

Field(label, value) == [decl |-> "field", label |-> label, aliases |-> {}, value |-> value]
Aliased(alias, label, value) == [Field(label, value) EXCEPT !.aliases = {alias}]
Let(name, value) == [decl |-> "let", name |-> name, value |-> value]
For(clauses, body) == [decl |-> "for", clauses |-> clauses, body |-> body]
In(variable, source) == [clause |-> "for", variable |-> variable, source |-> source]
When(condition) == [clause |-> "if", condition |-> condition]

File(decls) == [imports |-> <<>>, decls |-> decls]
Instance(files) == [files |-> files, packages |-> <<>>, max_depth |-> 30]
Single(decls) == Instance(<<File(decls)>>)

Ordered(order, fields) == [i \in DOMAIN order |-> Field(order[i], fields[order[i]])]
Orders == {<<"a", "b", "c">>, <<"c", "b", "a">>}
Fields(a, b) == [n \in {"a", "b", "c"} |-> CASE n = "a" -> Struct(a) [] n = "b" -> b [] n = "c" -> Lit(3)]
Beside(order, a, b) == Single(Ordered(order, Fields(a, b)))

(* Field x, the nested field w and field y: an operand of & does not lead  *)
(* back to a struct around it, and y, which is referred to before its      *)
(* turn, does not refer to itself.                                         *)
Triples ==
    {t \in  ({Lit(1), And("b", 1), And("y", 1)} \union {Name(n) : n \in {"x", "y", "p", "a", "b"}})
       \X ({Lit(4), And("b", 4), And("y", 4)} \union {Name(n) : n \in {"w", "x", "y", "p", "a", "b"}})
       \X {Lit(2), And("b", 2), Name("b"), Name("x"), Name("p")} :
        /\ t[1].op = "and" => t[3] # Name("p")
        /\ t[2] = And("y", 4) => t[3] \in {Lit(2), And("b", 2), Name("b")}}

NestedSources ==
    {Beside(order, <<Field("x", t[1]), Field("p", Struct(<<Field("w", t[2])>>)), Field("y", t[3])>>, b) :
        order \in Orders, t \in Triples,
        b \in {Name("c"), And("c", 5), Struct(<<Field("z", Name("c"))>>)}}
    \union
    {Beside(order, <<Field("x", t[1]), Field("p", Struct(<<Field("w", t[2])>>)), Field("y", t[3])>>,
            Struct(<<Field("z", Name("b"))>>)) :
        order \in Orders,
        t \in {u \in Triples : \A i \in 1 .. 3 : u[i].op # "and"}}

TwiceDeclaredSources ==
    {Beside(order, <<Field("y", y1), Field("y", y2), Field("p", Struct(<<Field("w", w)>>)),
                     Field("x", x)>>, Name("c")) :
        order \in Orders,
        y1 \in {Lit(1), Name("y"), Name("x"), And("b", 1)},
        y2 \in {Lit(2), Name("y"), Name("x"), And("b", 2)},
        w \in {Name("y"), Name("x"), Name("b")},
        x \in {Name("y"), And("y", 4), Name("b")}}

(* A field of the nested struct hides one of the struct around it. *)
ShadowSources ==
    {Beside(order, <<Field("x", Lit(1)), Field("p", Struct(<<Field("x", x), Field("w", Name("x"))>>)),
                     Field("y", y)>>, Name("c")) :
        order \in Orders, x \in {Lit(2), Name("x"), Name("b"), And("b", 2)},
        y \in {Name("x"), Name("p"), And("x", 4)}}

(* The depth limit is reached. *)
ShallowSources ==
    {[Beside(order, <<Field("x", x), Field("p", Struct(<<Field("w", Name("b"))>>))>>, b)
         EXCEPT !.max_depth = depth] :
        order \in Orders, depth \in 0 .. 9,
        x \in {And("b", 1), Name("p")}, b \in {Name("c"), And("c", 2), Struct(<<Field("z", Name("c"))>>)}}

(* Lets of a file and of a struct, and an alias of a field that is         *)
(* declared twice.                                                         *)
LetSources ==
    {Single(<<Let("g", g)>> \o
            Ordered(order, Fields(<<Let("m", t[1]), Aliased("X", "x", t[2]), Field("x", Name("b")),
                                    Field("p", Struct(<<Let("n", Name("m")), Field("w", t[3])>>)),
                                    Field("y", t[4])>>, Name("c")))) :
        order \in Orders, g \in {Name("b"), Lit(7)},
        t \in {u \in {Lit(1), Name("X"), Name("y"), And("g", 1)} \X {Lit(2), Name("m"), Name("b")}
                     \X {Name("n"), And("X", 4), Name("g")} \X {Lit(3), Name("m"), Name("X")} :
                ~(u[1] = Name("y") /\ u[4] = Name("m"))}}

(* A package of two files, which imports another, and who imports it. *)
Library(x, y, w) ==
    [path |-> "lib",
     files |-> <<[imports |-> <<[name |-> "deep", path |-> "lib/deep"]>>,
                  decls |-> <<Aliased("X", "x", x), Field("d", Select("deep", "x"))>>],
                 File(<<Let("k", Name("y")), Field("y", y), Field("s", Struct(<<Field("v", Name("k")), Field("w", w)>>))>>)>>]
Deep == [path |-> "lib/deep", files |-> <<File(<<Field("x", Name("y")), Field("y", Lit(6))>>)>>]

PackageSources ==
    {[files |-> <<[imports |-> <<[name |-> name, path |-> "lib"], [name |-> "strings", path |-> "strings"]>>,
                   decls |-> <<Field("a", Struct(<<Field("x", Select(name, field)), Field("y", Lit(1)),
                                                   Field("p", Struct(<<Field("w", w)>>))>>)),
                               Field("b", Both(Select(name, "x"), Name("string")))>>]>>,
      packages |-> <<Library(u[1], u[2], u[3]), Deep>>, max_depth |-> 30] :
        name \in {"lib", "l"}, field \in {"x", "s", "d", UnknownField},
        w \in {Name("lib"), Name("x"), Select("strings", "Join")},
        u \in {Lit(1), Name("y")} \X {Lit(2), And("X", 2), Name("d")} \X {Name("X"), Name("v"), Lit(5)}}

(* Two files: each has its own let k, and they declare a field together. *)
TwoFileSources ==
    {Instance(<<File(<<Let("k", k[1]), Aliased("A", "a", x), Field("b", y)>>),
                File(<<Let("k", k[2]), Field("a", Name("k")), Field("c", z)>>)>>) :
        k \in {Lit(1), Name("c")} \X {Lit(2), Name("d")},
        x \in {Name("k"), And("d", 3)}, y \in {Name("k"), Name("A"), Name("d")}, z \in {Lit(4), Name("d")}}

(* A comprehension before or after what it needs. *)
Lists == {List(<<Constraints({1}), Constraints({2})>>), List(<<>>), Struct(<<Field("r", Lit(1)), Field("q", Name("c"))>>)}
NotLists == {Lit(1), List([i \in 1 .. 4 |-> Constraints({i})]), Name("a")}
Clauses ==
    {<<In("v", Name("l"))>>, <<When(Name("t")), In("v", Name("l"))>>, <<In("v", Name("l")), When(Name("t"))>>,
     <<In("v", Name("l")), In("u", Name("l"))>>}
Bodies ==
    {<<Field("x", Name("v"))>>, <<Field("x", And("v", 4)), Field("w", Name("x"))>>,
     <<Let("k", Name("v")), Field("p", Struct(<<Field("x", Name("k")), Field("w", Name("y"))>>))>>,
     <<For(<<In("i", Name("l")), When(Name("t"))>>, <<Field("x", Both(Name("i"), Name("v")))>>)>>,
     <<Field("x", Name("a"))>>}
Placed(comprehension, first, fields) == IF first THEN <<comprehension>> \o fields ELSE Append(fields, comprehension)

ComprehensionSources ==
    {Beside(order, Placed(For(clauses, body), first,
                          <<Field("l", l), Field("t", t), Field("w", Lit(8)), Field("y", y)>>), b) :
        order \in Orders, clauses \in Clauses, body \in Bodies, first \in BOOLEAN,
        l \in Lists \union NotLists, t \in {Bool(TRUE), Bool(FALSE)}, y \in {Lit(5), Name("b")}, b \in {Name("c")}}
    \union
    {Beside(order, Placed(For(<<When(t)>>, <<Field("x", x), Field("y", Name("w"))>>), first,
                          <<Field("t", Bool(TRUE)), Field("w", Name("t"))>>), b) :
        order \in Orders, first \in BOOLEAN, t \in {Name("t"), Name("w"), Name("b"), Lit(1), Name("x")},
        x \in {Name("b"), Name("t")}, b \in {Bool(FALSE), Name("c")}}

(* A name that is not declared, not any more or not yet, a package that is *)
(* not there, and structs within structs.                                  *)
Places(name) ==
    {<<Field("x", Struct(<<Field("w", Name(name))>>))>>,
     <<Let("m", Name(name)), Field("x", Name("m"))>>,
     <<For(<<In("v", Name(name))>>, <<Field("x", Name("v"))>>), Field("l", List(<<>>))>>,
     <<Field("l", List(<<>>)), For(<<In("v", Name("l")), When(Name(name))>>, <<Field("x", Lit(1))>>)>>,
     <<Field("l", List(<<Constraints({2})>>)), For(<<In("v", Name("l"))>>, <<Field("x", Name(name))>>)>>,
     <<Field("l", List(<<>>)), For(<<In("v", Name("l"))>>, <<Field("x", Lit(1))>>), Field("y", Name(name))>>}
RECURSIVE Nested(_)
Nested(n) == IF n = 0 THEN And("c", 2) ELSE Struct(<<Field("x", Nested(n - 1))>>)

FaultySources ==
    {Beside(order, decls, Name("c")) : order \in Orders, decls \in UNION {Places(name) : name \in {"v", "x", "w", "c"}}}
    \union {Beside(order, <<Field("x", Nested(n))>>, Name("c")) : order \in Orders, n \in 1 .. 5}
    \union {Instance(<<[imports |-> <<[name |-> "gone", path |-> "gone"]>>, decls |-> <<Field("a", Name(name))>>],
                       File(<<Let("k", Lit(1)), Aliased("B", "b", Lit(2))>>)>>) :
                name \in {"gone", "k", "B", "b"}}

Sources ==
    NestedSources \union TwiceDeclaredSources \union ShadowSources \union ShallowSources
        \union LetSources \union PackageSources \union TwoFileSources
        \union ComprehensionSources \union FaultySources
MCPrograms == {Compile(source) : source \in Sources}

RECURSIVE WithParts(_)
WithParts(e) == {e} \union UNION {WithParts(part) : part \in Parts(e)}
ExpressionsIn(conjuncts) == UNION {WithParts(e) : e \in conjuncts}
MCConjuncts == Conjuncts(MCPrograms)
MCExpressions == ExpressionsIn(MCConjuncts)
=============================================================================
