-------------------------- MODULE MC_ParserFindings --------------------------
(***************************************************************************)
(* Calls and lists that end in something else than their closing bracket.  *)
(***************************************************************************)
EXTENDS MC_Parser

Opened == {<<a, colon, a, paren>>, <<a, colon, bracket>>}
MCUnclosed ==
    {[text |-> Write(file \o rest), comments |-> FALSE] :
        file \in Opened, rest \in UNION {[1 .. k -> {n, comma, ebrace, ebracket, eparen}] : k \in 0 .. 2}}
=============================================================================
