--------------------------- MODULE ParserReference ---------------------------
(***************************************************************************)
(* What the scanner and the parser must do, stated on the text, the tokens *)
(* and the tree alone.                                                     *)
(***************************************************************************)
EXTENDS Parser, Scanner

----------------------------------------------------------------------------
(* The tokens.  They stay what they are, so they are looked at once.       *)
Scanned == stack = <<Enter("package")>>

Written == SelectSeq(tokens, LAMBDA token : ~token.inserted)
Insignificant(i) == input.text[i] \in Blanks \union {Newline} \/ (i = 1 /\ input.text[i] = ByteOrderMark)

(* No character is lost and none is in two tokens (scan_all): the tokens   *)
(* follow one another, only blanks and the ends of lines lie between them, *)
(* and leaving the comments out takes away the comments alone.             *)
TokensCoverText ==
    Scanned =>
        /\ Last(tokens) = Token("Eof", input.text, Len(input.text) + 1, Len(input.text) + 1, FALSE)
        /\ \A i \in DOMAIN tokens : tokens[i].kind = "Eof" => i = Len(tokens)
        /\ input.comments =>
              /\ \A i \in 1 .. Len(Written) :
                    LET end == IF i = 1 THEN 1 ELSE Written[i - 1].to
                    IN  end <= Written[i].from /\ \A k \in end .. Written[i].from - 1 : Insignificant(k)
              /\ Scan(input.text, FALSE).tokens = SelectSeq(tokens, LAMBDA token : token.kind # "Comment")

(* The end of a line is a comma exactly where an element has ended: not    *)
(* within a token or a comment, not after an operator, an opening bracket, *)
(* a colon, a dot or a comma, and not twice (insert_comma).                *)
GoesOn == {"Operator", "Star", "Dot", "Colon", "Comma", "LeftBrace", "LeftBracket", "LeftParen"}
EndsElement(i) ==
    LET before == {k \in DOMAIN tokens : tokens[k].to <= i /\ tokens[k].kind \notin {"Comment", "Bad", "Eof"}
                                            /\ ~(tokens[k].inserted /\ tokens[k].from = i)}
    IN  /\ input.text[i] = Newline
        /\ ~\E k \in DOMAIN tokens : tokens[k].from <= i /\ i < tokens[k].to
        /\ before # {} /\ tokens[Max(before)].kind \notin GoesOn
NewlinesEndElements ==
    (Scanned /\ input.comments) =>
        {tokens[k].from : k \in {j \in DOMAIN tokens : tokens[j].inserted}}
            = {i \in DOMAIN input.text : EndsElement(i)}

----------------------------------------------------------------------------
(* The tree *)

RECURSIVE TokensOf(_)
TokensOf(node) ==
    (IF node.at = 0 THEN <<>> ELSE <<node.at>>)
        \o FoldLeft(LAMBDA all, kid : all \o TokensOf(kid), <<>>, node.kids)

(* A token the tree must show: a name, a literal, an operator (the = of an *)
(* alias and of a let excepted), ..., and nothing inside an attribute.     *)
InAttribute(i) ==
    LET Parens(kind, a, b) == Cardinality({k \in a .. b : At(kind, k)})
    IN  \E a \in 1 .. i - 1 :
            /\ At("Attribute", a) /\ At("LeftParen", a + 1)
            /\ \A b \in a + 1 .. i - 1 : Parens("LeftParen", a, b) > Parens("RightParen", a, b)
Shown(i) ==
    /\ ~InAttribute(i)
    /\ \/ AtOneOf({"Number", "String", "Star", "Ellipsis"}, i)
       \/ At("Identifier", i) /\ ~AtKeyword("in", i)
       \/ At("Operator", i) /\ ~AtText("Operator", {"="}, i)

(* A file without a diagnostic is parsed whole: every token that means     *)
(* something is in the tree, once.  Recovery, separators and the probes    *)
(* for field heads skip nothing silently.                                  *)
NothingDropped ==
    (Done /\ codes = {}) =>
        LET shown == TokensOf(Result)
        IN  /\ IsInjective(shown)
            /\ \A i \in DOMAIN tokens : Shown(i) => Contains(shown, i)

----------------------------------------------------------------------------
(* Termination *)

(* In call arguments and in an import group at } or ], in a list at }: the *)
(* recovery point is the token itself.                                     *)
AtStrayCloser ==
    \/ (Running("call") \/ Running("import_list")) /\ AtOneOf({"RightBrace", "RightBracket"}, cursor)
    \/ Running("list") /\ At("RightBrace", cursor)

(* Everywhere else every loop moves on, whatever the tokens: the parser    *)
(* returns (parse_file, recover_to_separator).                             *)
StopsButAtStrayClosers == <>(Done \/ AtStrayCloser)

(* specs/11-cue-rust-parser-design.md:122: arbitrary bytes into parse_file *)
(* must return diagnostics or AST.                                         *)
Returns == <>Done
=============================================================================
