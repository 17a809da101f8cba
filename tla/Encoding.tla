------------------------------ MODULE Encoding ------------------------------
(***************************************************************************)
(* crates/encoding: documents in and out.  A document is the tree of a     *)
(* JSON, YAML or TOML value, written with the constructors of              *)
(* EvaluatedValues (null, booleans, numbers, strings, lists, structs).     *)
(***************************************************************************)
EXTENDS ValueHandles

CONSTANTS Integers64, ExactFloats,   \* i64, and the numbers f64 represents exactly
          DecodeLimits               \* DecodeOptions: [depth, items, bytes]

Unsupported == [kind |-> "unsupported"]

(* number_to_toml, number_to_yaml.  JSON keeps the text of a number.       *)
EncodeNumber(v, encoding) ==
    IF encoding = "json" \/ (v.form = "int" /\ v.n \in Integers64) \/ v.n \in ExactFloats THEN v ELSE Unsupported

(* evaluated_to_json, evaluated_to_yaml, evaluated_to_toml: TOML alone has *)
(* no null, and nothing incomplete can be written                          *)
RECURSIVE ToDocument(_, _)
ToDocument(v, encoding) ==
    LET parts == CASE Is(v, "struct") -> {ToDocument(v.fields[f], encoding) : f \in DOMAIN v.fields}
                   [] Is(v, "list") -> {ToDocument(v.items[i], encoding) : i \in DOMAIN v.items}
                   [] OTHER -> {}
    IN  CASE Unsupported \in parts -> Unsupported
          [] Is(v, "null") -> IF encoding = "toml" THEN Unsupported ELSE v
          [] Is(v, "number") -> EncodeNumber(v, encoding)
          [] v.kind \in {"bool", "string"} -> v
          [] Is(v, "struct") -> StructOf([f \in DOMAIN v.fields |-> ToDocument(v.fields[f], encoding)], FALSE, <<>>)
          [] Is(v, "list") -> List([i \in DOMAIN v.items |-> ToDocument(v.items[i], encoding)])
          [] Is(v, "default") -> ToDocument(v.value, encoding)
          [] OTHER -> Unsupported

(* The TOML library writes tables only. *)
SerializeDocument(document, encoding) ==
    IF encoding = "toml" /\ ~Is(document, "struct") THEN Unsupported ELSE document

(* encode_value: concrete values have their defaults resolved and are      *)
(* validated first, as a handle that drops the optional fields; CUE text   *)
(* can be written of any value.                                            *)
EncodeValue(handle, encoding, concrete, options) ==
    LET tree == EvaluateExport(handle, options)
        exported == IF concrete THEN ResolveDefaults(tree) ELSE tree
        document == IF encoding = "cue" THEN exported
                    ELSE SerializeDocument(ToDocument(exported, encoding), encoding)
    IN  IF concrete /\ ~Validates(FromEvaluated(exported)) THEN [outcome |-> "eval_error"]
        ELSE IF document = Unsupported THEN [outcome |-> "unsupported"]
        ELSE [outcome |-> "written", document |-> document]

----------------------------------------------------------------------------
(* json_to_evaluated, toml_to_evaluated, validate_depth, _collection and   *)
(* _string: a limit is what may still be read                              *)
RECURSIVE WithinLimits(_, _)
WithinLimits(document, depth) ==
    /\ depth <= DecodeLimits.depth
    /\ Is(document, "string") => Len(document.s) <= DecodeLimits.bytes
    /\ Is(document, "list") =>
           /\ Len(document.items) <= DecodeLimits.items
           /\ \A i \in DOMAIN document.items : WithinLimits(document.items[i], depth + 1)
    /\ Is(document, "struct") =>
           /\ Cardinality(DOMAIN document.fields) <= DecodeLimits.items
           /\ \A f \in DOMAIN document.fields :
                  Len(f) <= DecodeLimits.bytes /\ WithinLimits(document.fields[f], depth + 1)

(* A TOML float goes through f64, whose text has no fraction when it is    *)
(* integral: it reads as an integer.                                       *)
RECURSIVE ReadNumbers(_, _)
ReadNumbers(document, encoding) ==
    IF Is(document, "number") /\ encoding = "toml" THEN Number(document.n, "int")
    ELSE Replace(document, [part \in Parts(document) |-> ReadNumbers(part, encoding)])

(* decode_bytes *)
Malformed == [kind |-> "malformed"]
DecodeDocument(document, encoding) ==
    IF document = Malformed \/ ~WithinLimits(document, 0) THEN [decoded |-> FALSE]
    ELSE [decoded |-> TRUE, handle |-> FromEvaluated(ReadNumbers(document, encoding))]
=============================================================================
