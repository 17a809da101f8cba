------------------------------ MODULE Rankings ------------------------------
(***************************************************************************)
(* Sequences made of the elements of a finite set in a given order, and    *)
(* what sorting and filtering make of a sequence.  An order is a function: *)
(* before[x] is the set of the elements that are before x.                 *)
(***************************************************************************)
EXTENDS Naturals, Sequences, FiniteSets

(* The elements of S one after the other. *)
Ranked(S, before) == [k \in 1 .. Cardinality(S) |-> CHOOSE x \in S : Cardinality(before[x]) = k - 1]

(* The elements of a sequence at the indices I, in the order of these. *)
Arranged(s, I, before) ==
    LET order == Ranked(I, before) IN [k \in 1 .. Cardinality(I) |-> s[order[k]]]

Ascending(I) == [i \in I |-> {j \in I : j < i}]

(* The elements at the indices I as they follow each other. *)
Subsequence(s, I) == Arranged(s, I, Ascending(I))
=============================================================================
