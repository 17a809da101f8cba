------------------------------- MODULE Scanner -------------------------------
(***************************************************************************)
(* The scanner of crates/syntax: from a text to its tokens, with the       *)
(* commas it inserts at the ends of lines.  A text is a sequence of        *)
(* characters, or of words where only whole words matter; a token is the   *)
(* part of the text from "from" up to before "to".                         *)
(***************************************************************************)
EXTENDS Integers, FiniteSets, SequencesExt

CONSTANT Words   \* what an identifier is made of beside digits: letters, _, #, whole words

Digits == {"0", "1"}
Numeric == Digits \union {"_"}                       \* advance_digits
OperatorCharacters == {"+", "-", "=", "!", "<", ">", "&", "|", "~", "?"}
Blanks == {" ", "\t", "\r"}
Newline == "\n"
Nul == "NUL"
ByteOrderMark == "BOM"
Quotes == {"\"", "'"}
Backslash == "\\"

Punctuation == ("{" :> "LeftBrace") @@ ("}" :> "RightBrace") @@ ("[" :> "LeftBracket") @@ ("]" :> "RightBracket")
               @@ ("(" :> "LeftParen") @@ (")" :> "RightParen") @@ (":" :> "Colon") @@ ("," :> "Comma") @@ (";" :> "Comma")
               @@ ("*" :> "Star")
Keywords == ("package" :> "Package") @@ ("import" :> "Import") @@ ("let" :> "Let")
(* The tokens after which the end of a line is a comma; insert_comma stays *)
(* as it is after a comment or a bad byte.                                 *)
Endings == {"Identifier", "Package", "Import", "Let", "Number", "String", "Attribute", "Ellipsis",
            "RightBrace", "RightBracket", "RightParen"}
Neutral == {"Comment", "Bad"}

Peek(text, i) == IF i \in DOMAIN text THEN text[i] ELSE ""
TextOf(text, from, to) ==
    IF to > Len(text) + 1 THEN "" ELSE FoldLeft(LAMBDA all, character : all \o character, "", SubSeq(text, from, to - 1))

(* advance_while *)
RunEnd(text, i, run) ==
    CHOOSE j \in i .. Len(text) + 1 : Peek(text, j) \notin run /\ \A k \in i .. j - 1 : text[k] \in run

Lexeme(kind, to, codes) == [kind |-> kind, to |-> to, codes |-> codes]

----------------------------------------------------------------------------
(* scan_number, is_valid_number_literal *)
FractionEnd(text, i) == IF Peek(text, i) = "." /\ Peek(text, i + 1) # "." THEN RunEnd(text, i + 1, Numeric) ELSE i
ExponentEnd(text, i) ==
    IF Peek(text, i) \notin {"e", "E"} THEN i
    ELSE RunEnd(text, IF Peek(text, i + 1) \in {"+", "-"} THEN i + 2 ELSE i + 1, Numeric)

IsValidDigitRun(run) ==
    /\ run # <<>> /\ run[1] # "_" /\ Last(run) # "_"
    /\ \A i \in 2 .. Len(run) : run[i] = "_" => run[i - 1] # "_"
ScanNumber(text, i) ==
    LET whole == RunEnd(text, i, Numeric)
        fraction == FractionEnd(text, whole)
        to == ExponentEnd(text, fraction)
        digits == IF Peek(text, fraction + 1) \in {"+", "-"} THEN fraction + 2 ELSE fraction + 1
        valid == /\ IsValidDigitRun(SubSeq(text, i, whole - 1))
                 /\ fraction # whole => IsValidDigitRun(SubSeq(text, whole + 1, fraction - 1))
                 /\ to # fraction => IsValidDigitRun(SubSeq(text, digits, to - 1))
    IN  Lexeme("Number", to, IF valid THEN {} ELSE {"invalid_number"})

(* scan_string: a quote after an odd number of backslashes is escaped, and *)
(* so is the parenthesis of an interpolation, but not a quote inside it.   *)
Escaped(text, i, j) ==
    \E k \in i + 1 .. j - 1 :
        /\ (j - k) % 2 = 1 /\ (k = i + 1 \/ text[k - 1] # Backslash)
        /\ \A b \in k .. j - 1 : text[b] = Backslash
ScanString(text, i) ==
    LET closing == {j \in i + 1 .. Len(text) : text[j] = text[i] /\ ~Escaped(text, i, j)}
        to == IF closing = {} THEN Len(text) + 1 ELSE Min(closing) + 1
    IN  Lexeme("String", to,
               (IF closing = {} THEN {"unterminated_string"} ELSE {})
                   \union (IF \E j \in i + 1 .. to - 1 : text[j] = Nul /\ ~Escaped(text, i, j) THEN {"nul"} ELSE {}))

(* scan_slash *)
ScanSlash(text, i) ==
    LET closing == {j \in i + 2 .. Len(text) - 1 : text[j] = "*" /\ text[j + 1] = "/"}
    IN  CASE Peek(text, i + 1) = "/" -> Lexeme("Comment", RunEnd(text, i, {text[j] : j \in DOMAIN text} \ {Newline}), {})
          [] Peek(text, i + 1) = "*" ->
                IF closing = {} THEN Lexeme("Comment", Len(text) + 1, {"unterminated_comment"})
                ELSE Lexeme("Comment", Min(closing) + 2, {})
          [] OTHER -> Lexeme("Operator", i + 1, {})

(* scan_dot *)
EllipsisFromTwo(text, i) == IF Peek(text, i + 1) = "." THEN Lexeme("Ellipsis", i + 3, {}) ELSE Lexeme("Dot", i + 1, {})
ScanDot(text, i) ==
    IF Peek(text, i + 1) = "." /\ Peek(text, i + 2) = "." THEN Lexeme("Ellipsis", i + 3, {})
    ELSE Lexeme("Dot", i + 1, {})

(* scan_identifier *)
ScanIdentifier(text, i) ==
    LET to == RunEnd(text, i, Words \union Digits)
        word == TextOf(text, i, to)
    IN  Lexeme(IF word \in DOMAIN Keywords THEN Keywords[word] ELSE "Identifier", to, {})

(* scan_all: one turn of the loop, but for blanks and ends of lines *)
ScanLexeme(text, i) ==
    CASE text[i] \in Words -> ScanIdentifier(text, i)
      [] text[i] \in Digits -> ScanNumber(text, i)
      [] text[i] \in Quotes -> ScanString(text, i)
      [] text[i] = "/" -> ScanSlash(text, i)
      [] text[i] = "@" -> Lexeme("Attribute", RunEnd(text, i + 1, (Words \ {"#"}) \union Digits \union {"-"}), {})
      [] text[i] = "." -> ScanDot(text, i)
      [] text[i] \in DOMAIN Punctuation -> Lexeme(Punctuation[text[i]], i + 1, {})
      [] text[i] \in OperatorCharacters -> Lexeme("Operator", RunEnd(text, i, OperatorCharacters), {})
      [] OTHER -> Lexeme("Bad", i + 1, {IF text[i] = Nul THEN "nul" ELSE "unexpected_byte"})

Token(kind, text, from, to, inserted) ==
    [kind |-> kind, text |-> TextOf(text, from, to), from |-> from, to |-> to, inserted |-> inserted]

(* scan_newline *)
CommaAtEveryNewline(state, text) ==
    [state EXCEPT !.offset = @ + 1, !.tokens = Append(@, Token("Comma", text, state.offset, state.offset, TRUE))]
ScanNewline(state, text) ==
    [state EXCEPT !.offset = @ + 1, !.insertComma = FALSE,
                  !.tokens = IF state.insertComma THEN Append(@, Token("Comma", text, state.offset, state.offset, TRUE)) ELSE @]

Push(state, text, lexeme, comments) ==
    [offset |-> lexeme.to, codes |-> state.codes \union lexeme.codes,
     insertComma |-> IF lexeme.kind \in Neutral THEN state.insertComma ELSE lexeme.kind \in Endings,
     tokens |-> IF lexeme.kind = "Comment" /\ ~comments THEN state.tokens
                ELSE Append(state.tokens, Token(lexeme.kind, text, state.offset, lexeme.to, FALSE))]

RECURSIVE ScanAll(_, _, _)
ScanAll(state, text, comments) ==
    CASE state.offset \notin DOMAIN text ->
            [state EXCEPT !.tokens = Append(@, Token("Eof", text, Len(text) + 1, Len(text) + 1, FALSE))]
      [] Peek(text, state.offset) \in Blanks -> ScanAll([state EXCEPT !.offset = @ + 1], text, comments)
      [] Peek(text, state.offset) = Newline -> ScanAll(ScanNewline(state, text), text, comments)
      [] OTHER -> ScanAll(Push(state, text, ScanLexeme(text, state.offset), comments), text, comments)

(* scan_source, scan_bom *)
Scan(text, comments) ==
    ScanAll([offset |-> IF Peek(text, 1) = ByteOrderMark THEN 2 ELSE 1, insertComma |-> FALSE,
             tokens |-> <<>>, codes |-> {}], text, comments)
=============================================================================
