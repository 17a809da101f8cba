---------------------------- MODULE Unification ----------------------------
(***************************************************************************)
(* unify_values of crates/eval (the & operator and Value::unify): the      *)
(* constraints on numbers and strings, kinds, structs open and closed with *)
(* and without patterns, lists, and disjunctions with default marks.       *)
(***************************************************************************)
EXTENDS EvaluatedValues

CONSTANT MaxDisjunctionExpansion
ASSUME MaxDisjunctionExpansionAssumption == MaxDisjunctionExpansion \in Nat

Conflict == Bottom("conflict")

SatisfiesBound(n, bound) ==
    CASE bound.op = "<" -> n < bound.limit
      [] bound.op = "<=" -> n <= bound.limit
      [] bound.op = ">" -> n > bound.limit
      [] bound.op = ">=" -> n >= bound.limit

(* unify_number_constraint_set: the bounds, then the multiples in order *)
UnifyNumber(number, constraint) ==
    LET failing == {i \in DOMAIN constraint.multiples :
                       constraint.multiples[i] = 0 \/ number.n % constraint.multiples[i] # 0}
    IN  IF \E i \in DOMAIN constraint.bounds : ~SatisfiesBound(number.n, constraint.bounds[i])
        THEN Bottom("numeric_bound_mismatch")
        ELSE IF failing = {} THEN number
        ELSE IF constraint.multiples[Min(failing)] = 0 THEN Bottom("division_by_zero")
        ELSE Bottom("numeric_multiple_mismatch")

(* A set of both sorts keeps its bounds first and its multiples last. *)
IsNumberSet(v) == v.bounds # <<>> /\ v.multiples # <<>>
Deduplicate(s) == FoldLeft(LAMBDA kept, x : IF Contains(kept, x) THEN kept ELSE Append(kept, x), <<>>, s)
MergeNumbers(l, r) ==
    Numbers(IF IsNumberSet(r) /\ ~IsNumberSet(l) THEN r.bounds \o l.bounds ELSE l.bounds \o r.bounds,
            IF IsNumberSet(l) /\ ~IsNumberSet(r) THEN Deduplicate(r.multiples \o l.multiples)
            ELSE Deduplicate(l.multiples \o r.multiples))

SatisfiesRunes(s, rune) ==   \* rune_count_satisfies: a negative limit only satisfies MinRunes
    IF rune.op = "MinRunes" THEN Len(s) >= rune.limit ELSE rune.limit >= 0 /\ Len(s) <= rune.limit
Compiles(regex) == regex.pattern \in DOMAIN Language
MatchesRegex(s, regex) == (s \in Language[regex.pattern]) # regex.negated

(* unify_string_constraints, unify_string_constraint_set, unify_regex_constraint *)
UnifyString(v, constraint) ==
    LET Fails(regex) == ~Compiles(regex) \/ ~MatchesRegex(v.s, regex)
        failing == {i \in DOMAIN constraint.regexes : Fails(constraint.regexes[i])}
    IN  IF \E i \in DOMAIN constraint.runes : ~SatisfiesRunes(v.s, constraint.runes[i])
        THEN Bottom("string_constraint_mismatch")
        ELSE IF failing = {} THEN v
        ELSE IF Compiles(constraint.regexes[Min(failing)]) THEN Bottom("regex_mismatch")
        ELSE Bottom("invalid_regex")

MergeStrings(l, r) ==
    LET flip == IsStringSet(r) /\ ~IsStringSet(l)
        first == IF flip THEN r ELSE l
        second == IF flip THEN l ELSE r
    IN  Strings(first.runes \o second.runes, first.regexes \o second.regexes)

UnifyKinds(l, r) ==
    CASE l = r -> Kind(l)
      [] {l, r} \in {{"number", "int"}, {"number", "float"}} -> Kind(IF l = "number" THEN r ELSE l)
      [] OTHER -> Bottom("kind_conflict")

KindAcceptsValue(kind, v) ==
    CASE kind = "number" -> v.kind \in {"number", "numbers"}
      [] kind \in {"int", "float"} -> Is(v, "numbers") \/ (Is(v, "number") /\ v.form = kind)
      [] kind = "string" -> v.kind \in {"string", "strings"}
      [] kind = "list" -> v.kind \in {"list", "openlist"}
      [] kind = "top" -> TRUE
      [] OTHER -> v.kind = kind

----------------------------------------------------------------------------
(* pattern_label_matches: a pattern that is no constraint on strings is an *)
(* error at whatever label.  The pattern has its defaults resolved.        *)
PatternErrors(p) ==
    CASE IsBottom(p) -> {p}
      [] IsRegex(p) /\ ~Compiles(p.regexes[1]) -> {Bottom("invalid_regex")}
      [] p.kind \in {"top", "string", "strings"} \/ p = Kind("string") -> {}
      [] OTHER -> {Bottom("unsupported_pattern_label")}

MatchesLabel(p, label) ==
    CASE Is(p, "string") -> p.s = label
      [] Is(p, "strings") -> ~IsBottom(UnifyString(Str(label), p))
      [] OTHER -> TRUE

ResolvePatterns(patterns) ==
    Row([i \in DOMAIN patterns |-> Pattern(ResolveDefaults(patterns[i].pattern), patterns[i].value)])

InvalidPatternLabel == "<invalid-pattern-label>"   \* INVALID_PATTERN_LABEL_FIELD

(* Pairs of alternatives, left-major as the nested loops visit them. *)
PairsOf(l, r) ==
    [i \in 1 .. Len(l) * Len(r) |-> <<l[((i - 1) \div Len(r)) + 1], r[((i - 1) % Len(r)) + 1]>>]

RECURSIVE Unify(_, _)

UnifyAsTheyAre(l, r) == Unify(l, r)
UnifyFieldValues(l, r) ==
    LET Bare(v) == IF Is(v, "optional") THEN v.value ELSE v
        met == Unify(Bare(l), Bare(r))
    IN  IF Is(l, "optional") /\ Is(r, "optional") THEN OptionalField(met) ELSE met

(* The fields of either map; a field of both is the meet of its values. *)
MergeFields(l, r) ==
    Table([f \in DOMAIN l \union DOMAIN r |->
        IF f \notin DOMAIN r THEN l[f] ELSE IF f \notin DOMAIN l THEN r[f] ELSE UnifyFieldValues(l[f], r[f])])

(* apply_struct_patterns: stops at the first pattern that is an error *)
ApplyPattern(state, p, errors) ==
    IF state.stopped \/ DOMAIN state.fields = {} THEN state
    ELSE IF errors = {}
    THEN [state EXCEPT !.fields = Table([f \in DOMAIN @ |->
             IF MatchesLabel(p.pattern, f) THEN UnifyFieldValues(@[f], p.value) ELSE @[f]])]
    ELSE [fields |-> MergeFields(state.fields, [f \in {InvalidPatternLabel} |-> CHOOSE e \in errors : TRUE]),
          stopped |-> TRUE]
ApplyStructPatterns(patterns, fields) ==
    FoldLeft(LAMBDA state, p : ApplyPattern(state, p, PatternErrors(p.pattern)),
             [fields |-> fields, stopped |-> FALSE], ResolvePatterns(patterns)).fields

(* pattern_value_for_label: a pattern that is an error is so whether the   *)
(* others match or not.                                                    *)
MeetPatterns(matching) ==
    IF matching = <<>> THEN [found |-> "none"]
    ELSE [found |-> "value",
          value |-> FoldLeft(LAMBDA v, p : UnifyFieldValues(v, p.value), matching[1].value, Tail(matching))]
PatternValueForLabel(patterns, label) ==   \* the patterns resolved
    IF \E p \in Range(patterns) : PatternErrors(p.pattern) # {}
    THEN [found |-> "error", value |-> CHOOSE e \in UNION {PatternErrors(p.pattern) : p \in Range(patterns)} : TRUE]
    ELSE MeetPatterns(SelectSeq(patterns, LAMBDA p : MatchesLabel(p.pattern, label)))
PatternValues(patterns, labels) ==
    Table([f \in labels |-> PatternValueForLabel(ResolvePatterns(patterns), f)])

NotAllowed == Bottom("closed_struct")

(* unify_structs, unify_patterned_structs: an optional field that is still *)
(* only optional after the merge is dropped                                *)
UnifyOpenStructs(l, r) ==
    StructOf(ApplyStructPatterns(l.patterns \o r.patterns, SetFields(MergeFields(l.fields, r.fields))),
             FALSE, l.patterns \o r.patterns)

(* unify_closed_struct, fields_after_patterns: the open side's patterns    *)
(* reach its own fields and are forgotten                                  *)
MergeSameLabels(closed, other) ==
    IF DOMAIN other = DOMAIN closed THEN StructOf(SetFields(MergeFields(closed, other)), TRUE, <<>>) ELSE NotAllowed
MergeClosed(closed, other) ==
    IF DOMAIN other \subseteq DOMAIN closed
    THEN StructOf(SetFields(MergeFields(closed, other)), TRUE, <<>>)
    ELSE NotAllowed
UnifyClosedStruct(closed, open) == MergeClosed(closed.fields, ApplyStructPatterns(open.patterns, open.fields))

(* unify_closed_structs: not symmetric *)
UnifyClosedStructs(l, r) ==
    IF \E f \in DOMAIN r.fields \ DOMAIN l.fields : ~Is(r.fields[f], "optional") THEN NotAllowed
    ELSE StructOf(SetFields(MergeFields(l.fields, r.fields)), TRUE, <<>>)

(* unify_closed_patterned_struct: a field the closed side lacks must match *)
(* its patterns, and meets them.                                           *)
Refusals(admitted) ==
    {admitted[f].value : f \in {g \in DOMAIN admitted : admitted[g].found = "error"}}
        \union {NotAllowed : f \in {g \in DOMAIN admitted : admitted[g].found = "none"}}
AdmitFields(closed, open, openPatterns, admitted) ==
    IF Refusals(admitted) # {} THEN CHOOSE bottom \in Refusals(admitted) : TRUE
    ELSE StructOf(SetFields(Table([f \in DOMAIN open \union DOMAIN closed.fields |->
                      IF f \in DOMAIN admitted THEN Unify(admitted[f].value, open[f])
                      ELSE IF f \in DOMAIN open THEN UnifyFieldValues(closed.fields[f], open[f])
                      ELSE closed.fields[f]])),
                  TRUE, closed.patterns \o openPatterns)
UnifyClosedPatternedStruct(closed, open, openPatterns) ==
    AdmitFields(closed, open, openPatterns, PatternValues(closed.patterns, DOMAIN open \ DOMAIN closed.fields))

(* unify_closed_patterned_structs: and the other way round for the fields  *)
(* that only the left side has                                             *)
AdmitBack(met, right, admitted) ==
    IF Refusals(admitted) # {} THEN CHOOSE bottom \in Refusals(admitted) : TRUE
    ELSE StructOf(SetFields(Table([f \in DOMAIN met.fields |->
                      IF f \in DOMAIN admitted THEN UnifyFieldValues(met.fields[f], admitted[f].value) ELSE met.fields[f]])),
                  TRUE, met.patterns \o right.patterns)
AdmitRest(met, right) ==
    IF IsBottom(met) THEN met
    ELSE AdmitBack(met, right, PatternValues(right.patterns, DOMAIN met.fields \ DOMAIN right.fields))
UnifyClosedPatternedStructs(l, r) == AdmitRest(UnifyClosedPatternedStruct(l, r.fields, <<>>), r)

UnifyStructValues(l, r) ==
    LET Patterned(v) == v.patterns # <<>>
    IN  CASE l.closed /\ r.closed /\ Patterned(l) /\ Patterned(r) -> UnifyClosedPatternedStructs(l, r)
          [] l.closed /\ Patterned(l) -> UnifyClosedPatternedStruct(l, r.fields, r.patterns)
          [] r.closed /\ Patterned(r) -> UnifyClosedPatternedStruct(r, l.fields, l.patterns)
          [] l.closed /\ r.closed -> UnifyClosedStructs(l, r)
          [] l.closed -> UnifyClosedStruct(l, r)
          [] r.closed -> UnifyClosedStruct(r, l)
          [] Patterned(r) /\ ~Patterned(l) -> UnifyOpenStructs(r, l)
          [] OTHER -> UnifyOpenStructs(l, r)

----------------------------------------------------------------------------
(* unify_closed_lists, unify_open_with_closed_list, unify_open_lists *)
ItemAt(l, i) == IF i \in DOMAIN l.items THEN l.items[i] ELSE l.tail
ZipItems(l, r, n) == [i \in 1 .. Min({n, Len(l.items), Len(r.items)}) |-> Unify(l.items[i], r.items[i])]
UnifyItems(l, r, n) == [i \in 1 .. n |-> Unify(ItemAt(l, i), ItemAt(r, i))]

UnifyLists(l, r) ==
    LET LengthConflict == Bottom("list_length_conflict")
        m == Len(l.items)
        n == Len(r.items)
    IN  CASE Is(l, "list") /\ Is(r, "list") -> IF m = n THEN List(UnifyItems(l, r, n)) ELSE LengthConflict
          [] Is(l, "openlist") /\ Is(r, "list") -> IF n < m THEN LengthConflict ELSE List(UnifyItems(l, r, n))
          [] Is(l, "list") /\ Is(r, "openlist") -> IF m < n THEN LengthConflict ELSE List(UnifyItems(r, l, m))
          [] OTHER -> OpenList(UnifyItems(l, r, Max({m, n})), Unify(l.tail, r.tail))

(* The alternatives that do not conflict; a pair is a default if either is. *)
MeetPairOfLeft(pair) == Disjunct(Unify(pair[1].value, pair[2].value), pair[1].default)
MeetPair(pair) == Disjunct(Unify(pair[1].value, pair[2].value), pair[1].default \/ pair[2].default)
MeetAlternatives(l, r) ==
    CollapseDisjunction(UniqueDisjuncts(SelectSeq(Row([i \in 1 .. Len(l) * Len(r) |-> MeetPair(PairsOf(l, r)[i])]),
                                                  LAMBDA d : ~IsBottom(d.value))))

(* unify_disjunctions, unify_disjunction_with_value: the alternatives of a *)
(* marked value or of a disjunction; only a pair of two is limited         *)
UnifyDisjunctions(l, r) ==
    IF Len(l) * Len(r) > MaxDisjunctionExpansion THEN Bottom("disjunction_expansion_limit")
    ELSE MeetAlternatives(l, r)
UnifyDisjunctionWithValue(alternatives, v) == MeetAlternatives(alternatives, <<Disjunct(v, FALSE)>>)

AlternativesOf(v) == IF Is(v, "default") THEN DefaultDisjunctsFrom(v.value) ELSE v.alternatives
ChoosesFirst(l, r) == Is(l, "default") \/ (Is(l, "disjunction") /\ ~Is(r, "default"))
UnifyChoices(l, r) ==
    CASE l.kind = r.kind -> UnifyDisjunctions(AlternativesOf(l), AlternativesOf(r))
      [] ChoosesFirst(l, r) -> UnifyDisjunctionWithValue(AlternativesOf(l), r)
      [] OTHER -> UnifyDisjunctionWithValue(AlternativesOf(r), l)

ChoiceKinds == {"default", "disjunction"}
Both(l, r, kind) == Is(l, kind) /\ Is(r, kind)

Unify(l, r) ==
    CASE Is(l, "top") -> r
      [] Is(r, "top") -> l
      [] IsBottom(l) -> l
      [] IsBottom(r) -> r
      [] Is(l, "previous") -> Unify(l.value, r)
      [] Is(r, "previous") -> Unify(l, r.value)
      [] l.kind \in ChoiceKinds \/ r.kind \in ChoiceKinds -> UnifyChoices(l, r)
      [] Both(l, r, "numbers") -> MergeNumbers(l, r)
      [] Is(l, "numbers") /\ Is(r, "number") -> UnifyNumber(r, l)
      [] Is(l, "number") /\ Is(r, "numbers") -> UnifyNumber(l, r)
      [] Both(l, r, "strings") -> MergeStrings(l, r)
      [] Is(l, "strings") /\ (Is(r, "string") \/ (Is(r, "bytes") /\ IsRegex(l))) -> UnifyString(r, l)
      [] Is(r, "strings") /\ (Is(l, "string") \/ (Is(l, "bytes") /\ IsRegex(r))) -> UnifyString(l, r)
      [] Both(l, r, "kind") -> UnifyKinds(l.name, r.name)
      [] Is(l, "kind") -> IF KindAcceptsValue(l.name, r) THEN r ELSE Bottom("kind_conflict")
      [] Is(r, "kind") -> IF KindAcceptsValue(r.name, l) THEN l ELSE Bottom("kind_conflict")
      [] Both(l, r, "struct") -> UnifyStructValues(l, r)
      [] Both(l, r, "items") -> ComprehensionItems(UnifyItems(l, r, Min({Len(l.items), Len(r.items)})))
      [] {l.kind, r.kind} \subseteq {"list", "openlist"} -> UnifyLists(l, r)
      [] Both(l, r, "number") -> IF l.n = r.n THEN l ELSE Conflict
      [] l = r /\ l.kind \in {"null", "bool", "string", "bytes", "builtin"} -> l
      [] OTHER -> Conflict
=============================================================================
