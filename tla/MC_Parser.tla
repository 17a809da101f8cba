------------------------------ MODULE MC_Parser ------------------------------
(***************************************************************************)
(* Every value a: ... of up to Length pieces, every text of up to Length   *)
(* characters after a name, and hand-picked files for the constructs that  *)
(* need more.                                                              *)
(***************************************************************************)
EXTENDS ParserReference

CONSTANT Length

MCWords == {"a", "b", "e", "_", "#", "for", "in", "if", "let", "package", "import"}

(* A file is written in pieces: words and operators take a blank after     *)
(* them, so that neighbours do not grow together.                          *)
Apart(character) == <<character, " ">>
a == Apart("a")
b == Apart("b")
n == Apart("1")
s == <<"\"", "a", "\"">>
brace == <<"{">>
ebrace == <<"}">>
bracket == <<"[">>
ebracket == <<"]">>
paren == <<"(">>
eparen == <<")">>
comma == <<",">>
colon == <<":">>
dot == <<".">>
dots == <<".", ".", ".">>
star == <<"*">>
line == <<"\n">>
attr == <<"@", "a">>
comment == <<"/", "/", "a">>
for == Apart("for")
in == Apart("in")
if == Apart("if")
let == Apart("let")
import == Apart("import")
package == Apart("package")
Twice(character) == <<character, character, " ">>
Write(pieces) == FlattenSeq(pieces)

Pieces == {a, brace, ebrace, bracket, ebracket, paren, eparen, comma, colon, Apart("-"), dots}
Values == {Write(<<a, colon>> \o pieces) : pieces \in UNION {[1 .. k -> Pieces] : k \in 0 .. Length}}

Characters == {"a", "1", "\n", "/", "*", "\"", "\\", ".", ";"}
Raw == {<<"a">> \o text : text \in UNION {[1 .. k -> Characters] : k \in 0 .. Length}}

(* Files that parse without a diagnostic, but for those after the gap. *)
Picked == {
    <<package, a, line, import, paren, s, line, a, s, comma, line, eparen, line, import, s, line, import, a, s>>,
    <<let, a, Apart("="), n, attr, line, a, Apart("="), b, Apart("?"), colon, a, attr, paren, paren, n, eparen, eparen>>,
    <<comment, line, a, colon, s, colon, bracket, a, ebracket, Apart("!"), colon, paren, a, eparen, colon, n, comment>>,
    <<a, colon, n, Apart("|"), star, n, Apart("&"), line, a, Apart("+"), n, star, a, Apart("-"), n, Twice("="),
      Apart("-"), Apart("!"), a, Apart("/"), n>>,
    <<a, colon, a, bracket, n, colon, n, ebracket, bracket, colon, ebracket, bracket, n, colon, ebracket, dot, a>>,
    <<a, colon, a, dot, a, paren, comma, n, comma, a, paren, eparen, comma, eparen, bracket, n, ebracket>>,
    <<a, colon, bracket, n, line, bracket, ebracket, comma, dots, paren, a, Apart("|"), n, eparen, line, ebracket>>,
    <<a, colon, bracket, for, a, comma, b, in, a, if, a, brace, n, ebrace, ebracket>>,
    <<for, a, in, a, brace, line, a, colon, n, comma, ebrace, line, if, a, brace, dots, ebrace>>,
    <<a, colon, brace, let, a, Apart("="), n, line, a, colon, a, colon, n, line, attr, ebrace>>,

    <<package, n>>, <<import, paren, n, comma, s>>, <<import, n>>, <<let, n>>, <<ebrace, comma, a, colon, n>>,
    <<for, n, comma, n, n, n>>, <<a, colon, if, n, n, ebrace>>, <<a, colon, if, n, brace, ebrace>>,
    <<s, Apart("="), n, colon, n>>, <<a, colon, a, dot, n>>, <<a, colon, bracket, dots, n, n, ebracket>>,
    <<a, Apart("="), n>>, <<a, colon, a, bracket, n, n, ebracket>>, <<a, colon, a, bracket, n, colon, n, n>>,
    <<attr, paren, n>>, <<import, paren, ebrace>>,
    <<a, colon, a, colon, a, colon, a, colon, a, colon, a, colon, a, colon, a, colon, n, comma, a, colon, n>>,
    <<a, Apart("="), a, colon, a, Apart("="), s, Apart("?"), colon, paren, paren, paren, paren, paren, paren, n>> }

(* Numbers, strings and comments beyond Length characters, the marks of a  *)
(* text, and what is no character of the language.                         *)
Texts == {
    <<"BOM", "a", ":", "1", "_", "1", ".", "0", "e", "+", "1", "\r", "\n">>, <<"a", ":", "1", "e", "-", "\n", "1", "_", "\n">>,
    <<"1", "_", "_", "1">>, <<"1", ".", "_", "1">>, <<"1", ".", ".", "1">>, <<"1", "e", "1", "_">>, <<"a", "_", "#", "1", "\t">>,
    <<"\"", "\\", "\"", "\\", "\\", "\"", "\n">>, <<"'", "\"", "NUL", "\\", "NUL", "'", "NUL", "\n">>,
    <<"a", "/", "*", "\n", "*", "*", "/", "\n", "/", "/", "\n", "\n">>, <<"a", "/", "*", "/", "\n">>,
    <<"a", "$", "\n", "@", "a", "-", "1", "#", "\n", "+", "+", "\n">>, <<"\n", "a", ":", "\n", "{", "\n", "}", "\n", "\n">>,
    <<"package", "_", "import", "let", "\n", "let", "\n">> }

MCInputs ==
    [text : Values, comments : {FALSE}] \union [text : Raw \union {Write(file) : file \in Picked} \union Texts, comments : BOOLEAN]
=============================================================================
