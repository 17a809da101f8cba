------------------------------- MODULE Parser -------------------------------
(***************************************************************************)
(* The parser of crates/syntax/src/parser.rs: recursive descent with       *)
(* precedence climbing and recovery, as a machine with a stack of the      *)
(* functions in progress, started on what the scanner left.  The tree      *)
(* keeps the index of each node's token; spans, messages and interpolated  *)
(* strings (parsed by a parser of their own) are left out.  A tree with a  *)
(* diagnostic is never compiled: Bad nodes are not kept in lists, and the  *)
(* diagnostics are the set of their codes.                                 *)
(***************************************************************************)
EXTENDS Integers, FiniteSets, SequencesExt, Stacks

CONSTANTS Inputs,    \* texts, and whether their comments become tokens (ParseConfig::include_comments)
          MaxDepth,  \* ParseConfig::max_depth
          ScanText(_, _)   \* the scanner (Scanner.tla): text and comments -> tokens and codes

ASSUME DepthAssumption == MaxDepth \in Nat

(* What the scanner leaves is a sequence that ends in its only Eof.        *)
ASSUME ScanAssumption ==
    \A given \in Inputs :
        LET scanned == ScanText(given.text, given.comments).tokens
        IN  /\ IsSequence(scanned) /\ scanned # <<>>
            /\ \A i \in DOMAIN scanned : scanned[i].kind = "Eof" <=> i = Len(scanned)

VARIABLES input,
          tokens, cursor,
          stack,    \* the functions in progress, innermost last
          value,    \* what the function that just returned leaves to its caller: <<>> or <<node>>
          depth,    \* expression_depth
          codes     \* the codes of the diagnostics

vars == <<input, tokens, cursor, stack, value, depth, codes>>

Node(op, at, kids) == [op |-> op, at |-> at, kids |-> kids]
Leaf(op, at) == Node(op, at, <<>>)
Bad == Leaf("Bad", 0)
Keep(kids, node) == IF node.op = "Bad" THEN kids ELSE Append(kids, node)

(* A function in progress: the point where it goes on, its token, the      *)
(* nodes it has, and its binding power or mark.                            *)
Frame(fn, at, kids, bp) == [fn |-> fn, at |-> at, kids |-> kids, bp |-> bp]
Enter(fn) == Frame(fn, 0, <<>>, 0)
Expr(bp) == Frame("expr", 0, <<>>, bp)

At(kind, c) == c <= Len(tokens) /\ tokens[c].kind = kind
AtOneOf(kinds, c) == c <= Len(tokens) /\ tokens[c].kind \in kinds
AtText(kind, texts, c) == At(kind, c) /\ tokens[c].text \in texts
AtKeyword(word, c) == AtText("Identifier", {word}, c)

LabelStart == {"Identifier", "String", "LeftParen", "LeftBracket"}
PrefixOperators == {"-", "+", "!", "=~", "!~", "<", "<=", ">", ">="}
Closing(open) == IF open = "LeftParen" THEN "RightParen" ELSE "RightBracket"

(* infix_binding_power: the left power, the right one is one more; 0 for a *)
(* token that is no infix operator                                         *)
InfixPower(c) ==
    CASE At("Star", c) \/ AtText("Operator", {"/"}, c) -> 9
      [] AtText("Operator", {"+", "-"}, c) -> 7
      [] AtText("Operator", {"==", "!=", "=~", "!~", "<", "<=", ">", ">="}, c) -> 5
      [] AtText("Operator", {"&", "&&"}, c) -> 3
      [] AtText("Operator", {"|", "||"}, c) -> 1
      [] OTHER -> 0

(* The first separator or closer from c on; Eof stops every recovery.      *)
Separators == {"Comma", "RightBrace", "RightBracket", "Eof"}
Recovered(c) == Min({i \in c .. Len(tokens) : AtOneOf(Separators, i)})

(* parse_decl moves on even from a token that stops the recovery *)
StopsAtCloser(c) == Recovered(c)
RecoveredDecl(c) == IF Recovered(c) = c /\ ~At("Eof", c) THEN c + 1 ELSE Recovered(c)

(* One past the bracket that closes the one at c, or 0 (after_balanced). *)
AfterBalanced(c, open, close) ==
    LET Nesting(i) == Cardinality({j \in c .. i : At(open, j)}) - Cardinality({j \in c .. i : At(close, j)})
        closed == {i \in c .. Len(tokens) : At(close, i) /\ Nesting(i) <= 0}
    IN  IF closed = {} THEN 0 ELSE Min(closed) + 1

(* skip_attribute, skip_balanced_parens: a list that is never closed ends at Eof *)
AfterAttribute(c) ==
    LET after == AfterBalanced(c + 1, "LeftParen", "RightParen")
    IN  IF ~At("LeftParen", c + 1) THEN c + 1 ELSE IF after = 0 THEN Len(tokens) ELSE after

(* From each index on: where skipping ends, if next says where the thing   *)
(* to skip at an index ends.                                               *)
Skipping(next) ==
    LET end[i \in DOMAIN tokens] == IF i \in DOMAIN next THEN end[next[i]] ELSE i
    IN  end

SkipAttributes(c) == Skipping([i \in {j \in DOMAIN tokens : At("Attribute", j)} |-> AfterAttribute(i)])[c]

SkipSeparators(c) ==
    Skipping([i \in {j \in DOMAIN tokens : AtOneOf({"Comma", "Comment", "Attribute"}, j)} |->
                IF At("Attribute", i) THEN AfterAttribute(i) ELSE i + 1])[c]

(* label_marker_colon_offset, alias_marker_colon_offset, after_label_offset: *)
(* is there a field head from c on, and not an expression?                   *)
AfterLabel(c) ==
    CASE AtOneOf({"LeftParen", "LeftBracket"}, c) -> AfterBalanced(c, tokens[c].kind, Closing(tokens[c].kind))
      [] AtOneOf({"Identifier", "String"}, c) -> c + 1
      [] OTHER -> 0
MarkedColon(c) == At("Colon", c) \/ (AtText("Operator", {"?", "!"}, c) /\ At("Colon", c + 1))
AtChainedFieldStart(c) ==
    LET first == AfterLabel(c)
        second == AfterLabel(first + 1)
    IN  /\ AtOneOf(LabelStart, c) /\ first # 0
        /\ IF AtText("Operator", {"="}, first) THEN second # 0 /\ MarkedColon(second) ELSE MarkedColon(first)

AtImportStart(c) == At("String", c) \/ (At("Identifier", c) /\ At("String", c + 1))

----------------------------------------------------------------------------
(* How a function goes on: with the parser at c and further diagnostics.   *)
Top == stack[Len(stack)]
Below == SubSeq(stack, 1, Len(stack) - 1)
Running(fn) == stack # <<>> /\ Top.fn = fn /\ value = <<>>
Resumed(fn) == stack # <<>> /\ Top.fn = fn /\ value # <<>>
Result == value[1]

Step(c, errors) == cursor' = c /\ codes' = codes \union errors /\ UNCHANGED <<input, tokens>>
Goto(frame, c, errors) == stack' = Append(Below, frame) /\ value' = <<>> /\ UNCHANGED depth /\ Step(c, errors)
Call(frame, callee, c, errors) ==
    stack' = Below \o <<frame, callee>> /\ value' = <<>> /\ UNCHANGED depth /\ Step(c, errors)
Return(node, c, errors) == stack' = Below /\ value' = <<node>> /\ UNCHANGED depth /\ Step(c, errors)

(* enter_expression_depth, exit_expression_depth *)
EnterDepth == depth' = depth + 1
StayInside == UNCHANGED depth
ExitDepth == depth' = depth - 1

(* expect_kind: without the token there is a diagnostic and no progress *)
SkipAnything(kind, c) == c + 1
After(kind, c) == IF At(kind, c) THEN c + 1 ELSE c
Missing(kind, c, code) == IF At(kind, c) THEN {} ELSE {code}

Init ==
    /\ input \in Inputs
    /\ LET scanned == ScanText(input.text, input.comments)
       IN  tokens = scanned.tokens /\ codes = scanned.codes
    /\ cursor = 1 /\ stack = <<Enter("package")>> /\ value = <<>> /\ depth = 0

ParsePackage ==
    /\ Running("package")
    /\ LET c == SkipSeparators(cursor)
       IN  IF ~At("Package", c) THEN Goto(Enter("file"), c, {})
           ELSE Goto(Frame("file", 0, IF At("Identifier", c + 1) THEN <<Leaf("Package", c + 1)>> ELSE <<>>, 0),
                     After("Identifier", c + 1), Missing("Identifier", c + 1, "expected_package_name"))

ParseFile ==
    /\ Running("file")
    /\ LET c == SkipSeparators(cursor)
       IN  CASE At("Eof", c) -> Return(Node("File", 0, Top.kids), c, {})
             [] At("Import", c) -> Call(Top, Enter("imports"), c, {})
             [] OTHER -> Call(Top, Enter("decl"), c, {})

(* The next declaration of a file, a struct or a comprehension body. *)
KeepDecl ==
    /\ \E fn \in {"file", "struct", "body"} : Resumed(fn)
    /\ Goto([Top EXCEPT !.kids = Keep(@, Result)], SkipSeparators(cursor), {})

ImportSpec(c) ==   \* parse_import_spec
    IF At("Identifier", c) THEN Node("Import", c + 1, <<Leaf("Alias", c)>>) ELSE Leaf("Import", c)

ParseImports ==
    /\ Running("imports")
    /\ LET c == cursor + 1
       IN  CASE At("LeftParen", c) -> Goto(Enter("import_list"), c + 1, {})
             [] AtImportStart(c) -> Return(ImportSpec(c), ImportSpec(c).at + 1, {})
             [] OTHER -> Return(Node("Imports", 0, <<>>), c, {"expected_import"})

ParseImportList ==
    /\ Running("import_list")
    /\ LET c == SkipSeparators(cursor)
           spec == ImportSpec(c)
       IN  IF AtOneOf({"RightParen", "Eof"}, cursor)
           THEN Return(Node("Imports", 0, Top.kids), After("RightParen", cursor),
                       Missing("RightParen", cursor, "expected_import_close"))
           ELSE IF AtImportStart(c)
           THEN Goto([Top EXCEPT !.kids = Append(@, spec)], SkipSeparators(spec.at + 1), {})
           ELSE Goto(Top, SkipSeparators(Recovered(c)), {"expected_import"})

ParseDecl ==
    /\ Running("decl")
    /\ CASE At("Ellipsis", cursor) -> Return(Leaf("Ellipsis", cursor), cursor + 1, {})
         [] At("Let", cursor) -> Goto(Enter("let"), cursor, {})
         [] AtKeyword("if", cursor) \/ AtKeyword("for", cursor) -> Goto(Enter("comprehension_decl"), cursor, {})
         [] AtOneOf(LabelStart, cursor) /\ ~AtKeyword("if", cursor) /\ ~AtKeyword("for", cursor) ->
                Goto(Enter("field"), cursor, {})
         [] OTHER -> Return(Bad, RecoveredDecl(cursor), {"expected_decl"})

ParseLet ==
    \/ /\ Running("let")
       /\ LET c == After("Identifier", cursor + 1)
              equals == AtText("Operator", {"="}, c)
          IN  Call(Frame("let_value", IF c = cursor + 1 THEN 0 ELSE cursor + 1, <<>>, 0), Expr(0),
                   IF equals THEN c + 1 ELSE c,
                   Missing("Identifier", cursor + 1, "expected_let_name")
                       \union (IF equals THEN {} ELSE {"expected_let_eq"}))
    \/ /\ Resumed("let_value")
       /\ Return(Node("Let", Top.at, <<Result>>), SkipAttributes(cursor), {})

----------------------------------------------------------------------------
(* Fields.  A chained field a: b: v nests as if b: v were in braces, and   *)
(* counts as a level of depth (bp is 1 for it).                            *)
ParseField ==
    \E fn \in {"field", "chained_field"} :
        Running(fn) /\ Call(Frame("head", 0, <<>>, IF fn = "field" THEN 0 ELSE 1), Enter("label"), cursor, {})

ParseLabel ==
    \/ /\ Running("label")
       /\ CASE AtOneOf({"Identifier", "String"}, cursor) -> Return(Leaf(tokens[cursor].kind, cursor), cursor + 1, {})
            [] AtOneOf({"LeftParen", "LeftBracket"}, cursor) ->
                  Call(Frame("label_close", cursor, <<>>, 0), Expr(0), cursor + 1, {})
            [] OTHER -> Return(Bad, cursor, {"expected_label"})
    \/ /\ Resumed("label_close")
       /\ LET close == Closing(tokens[Top.at].kind)
          IN  Return(Node("Label", Top.at, <<Result>>), After(close, cursor), Missing(close, cursor, "expected_label_close"))

(* parse_field_marker, the colon and parse_field_value *)
ParseFieldValue(kids, chained) ==
    LET marked == AtText("Operator", {"?", "!"}, cursor)
        c == IF marked THEN cursor + 1 ELSE cursor
        head == IF marked THEN Append(kids, Leaf("Marker", cursor)) ELSE kids
        frame == Frame("field_value", 0, head, chained)
        first == After("Colon", c)
        errors == Missing("Colon", c, "expected_colon")
    IN  IF ~AtChainedFieldStart(first) THEN Call(frame, Expr(0), first, errors)
        ELSE IF depth < MaxDepth
        THEN /\ stack' = Below \o <<frame, Enter("chained_field")>> /\ value' = <<>>
             /\ EnterDepth /\ Step(first, errors)
        ELSE /\ stack' = Append(Below, frame) /\ value' = <<Bad>> /\ UNCHANGED depth
             /\ Step(Recovered(first), errors \union {"max_depth_exceeded"})

ParseFieldHead ==
    \/ /\ Resumed("head") /\ AtText("Operator", {"="}, cursor)
       /\ Call(Frame("aliased", 0, <<Result>>, Top.bp), Enter("label"), cursor + 1,
               IF Result.op = "Identifier" THEN {} ELSE {"invalid_alias_label"})
    \/ /\ Resumed("head") /\ ~AtText("Operator", {"="}, cursor)
       /\ ParseFieldValue(<<Result>>, Top.bp)
    \/ /\ Resumed("aliased")
       /\ ParseFieldValue(Append(Top.kids, Result), Top.bp)

FinishField ==
    /\ Resumed("field_value")
    /\ LET field == Node("Field", 0, Append(Top.kids, Result))
       IN  IF Top.bp = 0 THEN Return(field, SkipAttributes(cursor), {})
           ELSE /\ stack' = Below /\ value' = <<Node("Struct", 0, <<field>>)>>
                /\ ExitDepth /\ Step(cursor, {})

----------------------------------------------------------------------------
(* Expressions *)

ParseExpr ==   \* enter_expression_depth
    /\ Running("expr")
    /\ IF depth < MaxDepth
       THEN /\ stack' = Below \o <<[Top EXCEPT !.fn = "operators"], Enter("prefix")>>
            /\ EnterDepth /\ UNCHANGED value /\ Step(cursor, {})
       ELSE Return(Bad, Recovered(cursor), {"max_depth_exceeded"})

(* An operand binds tighter than its operator: one power nests to the left. *)
SamePower(power) == power
OperandPower(power) == power + 1

(* One turn of the loop of parse_expr_inner, whose left operand is value. *)
ParseOperators ==
    /\ Resumed("operators")
    /\ LET power == InfixPower(cursor)
           left == Result
           Continue(node, c, errors) == value' = <<node>> /\ UNCHANGED <<stack, depth>> /\ Step(c, errors)
       IN  CASE At("Dot", cursor) /\ At("Identifier", cursor + 1) ->
                    Continue(Node("Selector", cursor + 1, <<left>>), cursor + 2, {})
             [] At("Dot", cursor) /\ ~At("Identifier", cursor + 1) ->
                    Continue(Bad, cursor + 1, {"expected_selector"})
             [] At("LeftBracket", cursor) -> Call(Top, Frame("index", 0, <<left>>, 0), cursor + 1, {})
             [] At("LeftParen", cursor) -> Call(Top, Frame("call", 0, <<left>>, 0), cursor + 1, {})
             [] power # 0 /\ power >= Top.bp ->
                    Call(Frame("operand", cursor, <<left>>, Top.bp), Expr(OperandPower(power)), cursor + 1, {})
             [] OTHER -> stack' = Below /\ ExitDepth /\ UNCHANGED value /\ Step(cursor, {})

FinishBinary ==
    /\ Resumed("operand")
    /\ stack' = Append(Below, Frame("operators", 0, <<>>, Top.bp))
    /\ value' = <<Node("Binary", Top.at, Append(Top.kids, Result))>>
    /\ UNCHANGED depth /\ Step(cursor, {})

ParseCall ==
    \/ /\ Running("call")
       /\ LET c == SkipSeparators(cursor)
          IN  CASE AtOneOf({"RightParen", "Eof"}, cursor) ->
                       Return(Node("Call", 0, Top.kids), After("RightParen", cursor),
                              Missing("RightParen", cursor, "expected_call_close"))
                [] At("RightParen", c) /\ c # cursor -> Goto(Top, c, {})
                [] OTHER -> Call(Top, Expr(0), c, {})
    \/ /\ Resumed("call")
       /\ Goto([Top EXCEPT !.kids = Keep(@, Result)], SkipSeparators(cursor), {})

(* parse_index_or_slice, finish_slice *)
FinishSlice(kids, c) ==
    Return(Node("Slice", 0, kids), After("RightBracket", c), Missing("RightBracket", c, "expected_slice_close"))
SliceEndAlone(kids, c) ==
    IF At("RightBracket", c) THEN FinishSlice(kids, c) ELSE Call(Frame("slice", 0, <<kids[1]>>, 0), Expr(0), c, {})
SliceEnd(kids, c) ==
    IF At("RightBracket", c) THEN FinishSlice(kids, c) ELSE Call(Frame("slice", 0, kids, 0), Expr(0), c, {})

ParseIndexOrSlice ==
    \/ /\ Running("index")
       /\ IF At("Colon", cursor) THEN SliceEnd(Top.kids, cursor + 1)
          ELSE Call([Top EXCEPT !.fn = "index_at"], Expr(0), cursor, {})
    \/ /\ Resumed("index_at")
       /\ LET kids == Append(Top.kids, Result)
          IN  IF At("Colon", cursor) THEN SliceEnd(kids, cursor + 1)
              ELSE Return(Node("Index", 0, kids), After("RightBracket", cursor),
                          Missing("RightBracket", cursor, "expected_index_close"))
    \/ /\ Resumed("slice")
       /\ FinishSlice(Append(Top.kids, Result), cursor)

(* The operand of a prefix operator is another prefix or a primary: no     *)
(* selector, index or call belongs to it, and no depth is counted.         *)
ParsePrefix ==
    \/ /\ Running("prefix")
       /\ IF At("Star", cursor) \/ AtText("Operator", PrefixOperators, cursor)
          THEN Call(Frame("prefixed", cursor, <<>>, 0), Enter("prefix"), cursor + 1, {})
          ELSE Goto(Enter("primary"), cursor, {})
    \/ /\ Resumed("prefixed")
       /\ Return(Node("Prefix", Top.at, <<Result>>), cursor, {})

ParsePrimary ==
    /\ Running("primary")
    /\ CASE AtKeyword("if", cursor) \/ AtKeyword("for", cursor) -> Goto(Enter("comprehension_expr"), cursor, {})
         [] AtOneOf({"Identifier", "Number", "String", "Ellipsis"}, cursor)
                /\ ~AtKeyword("if", cursor) /\ ~AtKeyword("for", cursor) ->
                Return(Leaf(tokens[cursor].kind, cursor), cursor + 1, {})
         [] At("LeftBrace", cursor) -> Goto(Enter("struct"), cursor + 1, {})
         [] At("LeftBracket", cursor) -> Goto(Enter("list"), cursor + 1, {})
         [] At("LeftParen", cursor) -> Call(Enter("group"), Expr(0), cursor + 1, {})
         [] OTHER -> Return(Bad, Recovered(cursor), {"expected_expr"})

ParseGroup ==
    /\ Resumed("group")
    /\ Return(Node("Group", 0, <<Result>>), After("RightParen", cursor), Missing("RightParen", cursor, "expected_paren_close"))

(* parse_struct, and the body of a comprehension declaration *)
ParseStruct ==
    /\ Running("struct") \/ Running("body")
    /\ LET c == SkipSeparators(cursor)
       IN  CASE AtOneOf({"RightBrace", "Eof"}, cursor) ->
                    Return(Node(IF Top.fn = "struct" THEN "Struct" ELSE "Comprehension", 0, Top.kids),
                           After("RightBrace", cursor), Missing("RightBrace", cursor, "expected_struct_close"))
             [] At("RightBrace", c) /\ c # cursor -> Goto(Top, c, {})
             [] OTHER -> Call(Top, Enter("decl"), c, {})

(* parse_list, parse_list_tail: after the tail only ] is right *)
ParseList ==
    \/ /\ Running("list")
       /\ LET c == SkipSeparators(cursor)
          IN  CASE AtOneOf({"RightBracket", "Eof"}, cursor) ->
                       Return(Node("List", 0, Top.kids), After("RightBracket", cursor),
                              Missing("RightBracket", cursor, "expected_list_close"))
                [] At("RightBracket", c) /\ c # cursor -> Goto(Top, c, {})
                [] At("Ellipsis", c) /\ AtOneOf({"Comma", "RightBracket", "Eof"}, c + 1) ->
                       stack' = Append(Below, [Top EXCEPT !.fn = "tail"]) /\ value' = <<Leaf("Ellipsis", c)>>
                       /\ UNCHANGED depth /\ Step(c + 1, {})
                [] At("Ellipsis", c) /\ ~AtOneOf({"Comma", "RightBracket", "Eof"}, c + 1) ->
                       Call([Top EXCEPT !.fn = "tail", !.kids = Append(@, Leaf("Ellipsis", c))], Expr(0), c + 1, {})
                [] OTHER -> Call(Top, Expr(0), c, {})
    \/ /\ Resumed("list")
       /\ Goto([Top EXCEPT !.kids = Keep(@, Result)], SkipSeparators(cursor), {})
    \/ /\ Resumed("tail")
       /\ LET c == SkipSeparators(cursor)
              list == [Top EXCEPT !.fn = "list", !.kids = Keep(@, Result)]
          IN  IF At("RightBracket", c) THEN Goto(list, c, {})
              ELSE Goto(list, SkipSeparators(Recovered(c)), {"list_ellipsis_not_final"})

----------------------------------------------------------------------------
(* Comprehensions, in a struct (their body is declarations) and elsewhere  *)
(* (an expression in braces).                                              *)
ParseComprehension ==
    \E fn \in {"comprehension_decl", "comprehension_expr"} :
        Running(fn) /\ Goto(Frame("clauses", 0, <<>>, IF fn = "comprehension_decl" THEN 0 ELSE 1), cursor, {})

Bindings(c) == IF At("Identifier", c) THEN <<Leaf("Binding", c)>> ELSE <<>>

ParseClause ==
    \/ /\ Running("clauses") /\ AtKeyword("for", cursor)
       /\ LET first == cursor + 1
              afterFirst == After("Identifier", first)
              two == At("Comma", afterFirst)
              last == IF two THEN After("Identifier", afterFirst + 1) ELSE afterFirst
          IN  Call([Top EXCEPT !.kids = @ \o <<Leaf("For", cursor)>> \o Bindings(first)
                                          \o (IF two THEN Bindings(afterFirst + 1) ELSE <<>>)],
                   Expr(0), IF AtKeyword("in", last) THEN last + 1 ELSE last,
                   Missing("Identifier", first, "expected_for_binding")
                     \union (IF two THEN Missing("Identifier", afterFirst + 1, "expected_for_value") ELSE {})
                     \union (IF AtKeyword("in", last) THEN {} ELSE {"expected_for_in"}))
    \/ /\ Running("clauses") /\ AtKeyword("if", cursor)
       /\ Call([Top EXCEPT !.kids = Append(@, Leaf("If", cursor))], Expr(0), cursor + 1, {})
    \/ /\ Resumed("clauses")
       /\ Goto([Top EXCEPT !.kids = Append(@, Result)], cursor, {})

ParseBody ==
    /\ Running("clauses") /\ ~AtKeyword("for", cursor) /\ ~AtKeyword("if", cursor)
    /\ LET c == After("LeftBrace", cursor)
           errors == Missing("LeftBrace", cursor, "expected_comprehension_body")
       IN  CASE Top.bp = 0 -> Goto([Top EXCEPT !.fn = "body"], c, errors)
             [] Top.bp = 1 /\ At("RightBrace", c) -> Return(Node("Comprehension", 0, Top.kids), c + 1, errors)
             [] OTHER -> Call([Top EXCEPT !.fn = "expr_body"], Expr(0), c, errors)

FinishBody ==
    /\ Resumed("expr_body")
    /\ Return(Node("Comprehension", 0, Append(Top.kids, Result)), After("RightBrace", cursor),
              Missing("RightBrace", cursor, "expected_comprehension_body_close"))

Done == stack = <<>>
Finished == Done /\ UNCHANGED vars

Next ==
    \/ ParsePackage \/ ParseFile \/ KeepDecl \/ ParseImports \/ ParseImportList
    \/ ParseDecl \/ ParseLet \/ ParseField \/ ParseLabel \/ ParseFieldHead \/ FinishField
    \/ ParseExpr \/ ParseOperators \/ FinishBinary \/ ParseCall \/ ParseIndexOrSlice
    \/ ParsePrefix \/ ParsePrimary \/ ParseGroup \/ ParseStruct \/ ParseList
    \/ ParseComprehension \/ ParseClause \/ ParseBody \/ FinishBody
    \/ Finished

Spec == Init /\ [][Next]_vars
FairSpec == Spec /\ WF_vars(Next)   \* parse_file runs to its end in one call

----------------------------------------------------------------------------
Functions == {"package", "file", "imports", "import_list", "decl", "let", "let_value",
              "field", "chained_field", "head", "aliased", "label", "label_close", "field_value",
              "expr", "operators", "operand", "index", "index_at", "slice", "call",
              "prefix", "prefixed", "primary", "group", "struct", "list", "tail",
              "comprehension_decl", "comprehension_expr", "clauses", "body", "expr_body"}

(* The parser stays inside the token sequence, whatever the tokens are:    *)
(* no bump of any function passes Eof (Parser::bump).                      *)
TypeOK ==
    /\ cursor \in DOMAIN tokens /\ depth \in 0 .. MaxDepth
    /\ \A i \in DOMAIN stack : stack[i].fn \in Functions /\ stack[i].at \in 0 .. Len(tokens)
    /\ Done <=> (value # <<>> /\ Result.op = "File")

(* enter_expression_depth and exit_expression_depth are balanced on every  *)
(* path, those of recovery included: the depth is the number of            *)
(* expressions and chained fields in progress, and none when the file is   *)
(* parsed.                                                                 *)
Counted(frame) ==
    \/ frame.fn \in {"operators", "operand", "chained_field"}
    \/ frame.fn \in {"head", "aliased", "field_value"} /\ frame.bp = 1
DepthCountsExpressions == depth = Cardinality({i \in DOMAIN stack : Counted(stack[i])})

(* The nodes of a tree, by how far below its root they are.  Every level   *)
(* of a tree takes a token or hangs on a node that does, so that twice the *)
(* tokens are levels enough.                                               *)
Kids(node) == {node.kids[i] : i \in DOMAIN node.kids}
Levels(root, n) ==
    LET Level[k \in 0 .. n] == IF k = 0 THEN {root} ELSE UNION {Kids(node) : node \in Level[k - 1]}
    IN  Level
NodesOf(root) == LET n == 2 * Len(tokens) IN UNION {Levels(root, n)[k] : k \in 0 .. n}

(* Infix operators nest by their powers, those of one power to the left,   *)
(* and a prefix operator takes no infix expression, whatever is wrong with *)
(* the file around them (parse_expr_inner).                                *)
Power(node) == IF node.op = "Binary" THEN InfixPower(node.at) ELSE 10
OperatorsNest ==
    Done =>
        \A node \in NodesOf(Result) :
            /\ node.op = "Binary" => /\ Power(node.kids[1]) >= Power(node)
                                     /\ Power(node.kids[2]) > Power(node)
            /\ node.op = "Prefix" => node.kids[1].op # "Binary"
=============================================================================
