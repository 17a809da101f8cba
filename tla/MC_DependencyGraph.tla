------------------------- MODULE MC_DependencyGraph -------------------------
(***************************************************************************)
(* The search on every graph of N vertices.                                *)
(***************************************************************************)
EXTENDS DependencySearch

CONSTANT N

MCVertices == 1 .. N
=============================================================================
