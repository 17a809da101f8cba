------------------------------- MODULE Stacks -------------------------------
(***************************************************************************)
(* The stacks and queues of the machines: sequences of any elements.       *)
(***************************************************************************)
EXTENDS Naturals, Sequences

(* A sequence, of elements of whatever kind. *)
IsSequence(s) == Len(s) \in Nat /\ s = [i \in 1 .. Len(s) |-> s[i]]
=============================================================================
