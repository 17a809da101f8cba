------------------------ MODULE CommandLineReference ------------------------
(***************************************************************************)
(* What the commands must do, by what a schema as it is written admits: a  *)
(* predicate on documents, stated without evaluation or unification.       *)
(***************************************************************************)
EXTENDS CommandLine, Encoding

(* The values of the commands *)

Diagnostics == [kind |-> "diagnostics"]   \* in place of the tree of CUE files that do not compile

BuildInstance(tree) == IF tree = Diagnostics THEN NONE ELSE Compiled(EvaluateTree(tree))

DecodeValue(document, encoding) ==
    LET read == DecodeDocument(document, encoding) IN IF read.decoded THEN read.handle ELSE NONE

EncodeOutcome(handle, format, concrete, options) == EncodeValue(handle, format, concrete, options).outcome

LookupHandle(handle, path) ==
    LET found == LookupPath(handle, path) IN IF found = Missing THEN NONE ELSE FromEvaluated(found)

(* An expression is an error if its first name is not in scope, and a      *)
(* value that is bottom if the path ends elsewhere.                        *)
ExpressionInScope(handle, path) ==
    IF path[1].at \in DOMAIN handle.value.fields THEN FromEvaluated(Bottom("missing_field")) ELSE NONE

----------------------------------------------------------------------------
(* What a value admits *)

AdmitsNumber(constraint, n) ==
    /\ \A i \in DOMAIN constraint.bounds : SatisfiesBound(n, constraint.bounds[i])
    /\ \A i \in DOMAIN constraint.multiples : constraint.multiples[i] # 0 /\ n % constraint.multiples[i] = 0
AdmitsString(constraint, s) ==
    /\ \A i \in DOMAIN constraint.runes : SatisfiesRunes(s, constraint.runes[i])
    /\ \A i \in DOMAIN constraint.regexes :
           LET regex == constraint.regexes[i]
           IN  regex.pattern \in DOMAIN Language /\ ((s \in Language[regex.pattern]) # regex.negated)

RECURSIVE Admits(_, _, _)   \* the last: inside a definition

LabelOf(p, f) ==
    CASE Is(p, "string") -> p.s = f
      [] Is(p, "strings") -> AdmitsString(p, f)
      [] OTHER -> p.kind = "top" \/ p = Kind("string")

(* A field that is there fits what is declared of it and the patterns it   *)
(* matches; a required one is there; a definition admits no others.        *)
AdmitsStruct(v, d, closed) ==
    /\ \A f \in DOMAIN v.fields : Is(v.fields[f], "optional") \/ f \in DOMAIN d.fields
    /\ \A f \in DOMAIN d.fields :
           /\ f \in DOMAIN v.fields => Admits(v.fields[f], d.fields[f], closed)
           /\ \A i \in DOMAIN v.patterns :
                  LabelOf(v.patterns[i].pattern, f) => Admits(v.patterns[i].value, d.fields[f], closed)
           /\ closed => f \in DOMAIN v.fields \/ \E i \in DOMAIN v.patterns : LabelOf(v.patterns[i].pattern, f)

Admits(v, d, closed) ==
    CASE Is(v, "top") -> TRUE
      [] Is(v, "meet") -> Admits(v.left, d, closed) /\ Admits(v.right, d, closed)
      [] Is(v, "kind") -> v.name = d.kind \/ (Is(d, "number") /\ v.name \in {"number", d.form})
      [] Is(v, "number") -> Is(d, "number") /\ v.n = d.n
      [] v.kind \in {"null", "bool", "string"} -> v.kind = d.kind /\ v = d
      [] Is(v, "numbers") -> Is(d, "number") /\ AdmitsNumber(v, d.n)
      [] Is(v, "strings") -> Is(d, "string") /\ AdmitsString(v, d.s)
      [] v.kind \in {"default", "optional"} -> Admits(v.value, d, closed)
      [] Is(v, "disjunction") -> \E i \in DOMAIN v.alternatives : Admits(v.alternatives[i].value, d, closed)
      [] Is(v, "struct") -> Is(d, "struct") /\ AdmitsStruct(v, d, closed \/ v.closed)
      [] Is(v, "list") ->
            /\ Is(d, "list") /\ Len(d.items) = Len(v.items)
            /\ \A i \in DOMAIN v.items : Admits(v.items[i], d.items[i], closed)
      [] Is(v, "openlist") ->
            /\ Is(d, "list") /\ Len(d.items) >= Len(v.items)
            /\ \A i \in DOMAIN d.items : Admits(ItemAt(v, i), d.items[i], closed)
      [] OTHER -> FALSE

(* e has all that d has. *)
RECURSIVE Extends(_, _)
Extends(e, d) ==
    CASE Is(d, "struct") -> /\ Is(e, "struct") /\ DOMAIN d.fields \subseteq DOMAIN e.fields
                            /\ \A f \in DOMAIN d.fields : Extends(e.fields[f], d.fields[f])
      [] Is(d, "list") -> /\ Is(e, "list") /\ Len(e.items) = Len(d.items)
                          /\ \A i \in DOMAIN d.items : Extends(e.items[i], d.items[i])
      [] Is(d, "number") -> Is(e, "number") /\ e.n = d.n
      [] OTHER -> e = d

RECURSIVE PartsOf(_)
PartsOf(v) ==
    {v} \union UNION {PartsOf(part) : part \in IF Is(v, "meet") THEN {v.left, v.right} ELSE Parts(v)}

(* What a vet compares with, and its document if it has one: as written. *)
Schema == EmitFields(request.cue, ExportOptions(FALSE, FALSE, TRUE))
Judged(encodings) ==
    /\ request.command = "vet" /\ Len(request.data) = 1 /\ verdicts # <<>>
    /\ request.data[1].encoding \in encodings
Document == request.data[1].document
Filled == ResolveDefaults(UnifyHandles(built, FromEvaluated(Document)).value)

(* A document the schema admits is accepted (validate_data).               *)
AcceptsWhatIsAdmitted ==
    Judged({"json", "yaml", "toml"}) => (Admits(Schema, Document, FALSE) => verdicts = <<"accepted">>)

(* So it is whatever the schema's disjunctions, optional fields, patterns  *)
(* and closedness, but for four deviations of the code: several structs    *)
(* or lists as alternatives (one that conflicts only inside stays, and the *)
(* choice is ambiguous, unify_disjunctions), an optional field whose label *)
(* matches a pattern beside it, which becomes required                     *)
(* (unify_field_values), and a meet of structs written with optional       *)
(* fields, which the meet drops (remove_unset_optional_fields); and a TOML *)
(* float with an integral value, which reads as an integer                 *)
(* (toml_to_evaluated).                                                    *)
ChoosesBetweenTrees(v) ==
    \E part \in PartsOf(v) :
        /\ Is(part, "disjunction")
        /\ Cardinality({i \in DOMAIN part.alternatives :
                            part.alternatives[i].value.kind \in {"struct", "list", "openlist"}}) > 1
PatternRequires(v) ==
    \E part \in PartsOf(v) :
        /\ Is(part, "struct")
        /\ \E f \in DOMAIN part.fields, i \in DOMAIN part.patterns :
               Is(part.fields[f], "optional") /\ LabelOf(part.patterns[i].pattern, f)
MeetDropsOptional(v) ==
    \E part \in PartsOf(v) : Is(part, "meet") /\ \E inner \in PartsOf(part) : Is(inner, "optional")
FloatsBecomeIntegers ==
    /\ request.data[1].encoding = "toml"
    /\ \E part \in PartsOf(Document) : Is(part, "number") /\ part.form = "float"
NoFalseRejection ==
    (/\ Judged({"json", "yaml", "toml"})
     /\ ~ChoosesBetweenTrees(Schema) /\ ~PatternRequires(Schema) /\ ~MeetDropsOptional(Schema)
     /\ ~FloatsBecomeIntegers) =>
        AcceptsWhatIsAdmitted

(* An accepted document can be completed from the schema to one that the   *)
(* schema admits (Value::unify, validate_value).                           *)
AdmitsWhatIsAccepted ==
    (Judged({"json", "yaml", "toml"}) /\ verdicts = <<"accepted">>) =>
        Extends(Filled, Document) /\ Admits(Schema, Filled, FALSE)

(* So it is for the constraints of a field, of the patterns its label      *)
(* matches and of a closed struct, all still there after defaults and      *)
(* missing fields are filled in, but for four deviations of the code: int  *)
(* or float where there is a bound or a multiple, of which unify_values    *)
(* keeps the bound alone, the meets that drop optional fields, a           *)
(* definition that meets patterns, which never reach its fields            *)
(* (unify_closed_struct, unify_closed_patterned_struct), and the floats.   *)
KindMeetsBound(v) ==
    /\ \E part \in PartsOf(v) : Is(part, "numbers")
    /\ \E part \in PartsOf(v) : part \in {Kind("int"), Kind("float")}
MeetForgetsPatterns(v) ==
    \E part \in PartsOf(v) :
        /\ Is(part, "meet")
        /\ \E <<closed, other>> \in {<<part.left, part.right>>, <<part.right, part.left>>} :
               Is(closed, "struct") /\ closed.closed /\ Is(other, "struct") /\ other.patterns # <<>>
NoFalseAcceptance ==
    (/\ Judged({"json", "yaml", "toml"})
     /\ ~KindMeetsBound(Schema) /\ ~MeetDropsOptional(Schema) /\ ~MeetForgetsPatterns(Schema)
     /\ ~FloatsBecomeIntegers) =>
        AdmitsWhatIsAccepted

(* A CUE file vets as data against another as the other against it:        *)
(* unification is commutative                                              *)
(* (specs/70-cue-rust-security-performance-testing-plan.md:98).            *)
UnificationCommutes ==
    Judged({"cue"}) =>
        (Accepts(Compiled(EvaluateTree(request.data[1].document)), built) <=> verdicts = <<"accepted">>)

(* So it is unless two closed structs meet of which one has a field that   *)
(* the other lacks, or patterns (unify_closed_structs,                     *)
(* unify_closed_patterned_struct, unify_closed_patterned_structs).         *)
Required(struct) == {f \in DOMAIN struct.fields : ~Is(struct.fields[f], "optional")}
ClosedDifferently(v, w) ==
    \E left \in PartsOf(v), right \in PartsOf(w) :
        /\ Is(left, "struct") /\ left.closed /\ Is(right, "struct") /\ right.closed
        /\ \/ left.patterns # <<>> \/ right.patterns # <<>>
           \/ ~(Required(left) \subseteq DOMAIN right.fields /\ Required(right) \subseteq DOMAIN left.fields)
VetIsSymmetric ==
    (Judged({"cue"}) /\ ~ClosedDifferently(request.cue, request.data[1].document)) => UnificationCommutes

(* What export writes of a value is accepted by a vet against that value:  *)
(* defaults, closedness and the encoding's numbers come back               *)
(* (encode_value, decode_value).                                           *)
ExportedDataVets ==
    (request.command = "export" /\ request.out # "cue" /\ phase = "value" /\ built # NONE) =>
        LET encoded == EncodeValue(built, request.out, TRUE, request.options)
            read == DecodeDocument(encoded.document, request.out)
        IN  encoded.outcome = "written" => read.decoded /\ Accepts(built, read.handle)
=============================================================================
