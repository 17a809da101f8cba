---------------------------- MODULE ImportClosure ----------------------------
(***************************************************************************)
(* What resolving imports promises: every local import that the files of   *)
(* the instance or of a resolved package name is settled, in any order,    *)
(* each at most once, and the answer comes only when none is left.         *)
(***************************************************************************)
EXTENDS FiniteSets

VARIABLES
    uses,       \* import path -> the local imports of its package; absent if it has none
    wanted,     \* imports named by a file read so far
    settled,    \* imports resolved or reported
    resolved,   \* settled imports that have a package
    status      \* "reading" | "resolving" | "done" | "failed"

closureVars == <<uses, wanted, settled, resolved, status>>

Init ==
    /\ status = "reading"
    /\ wanted = {} /\ settled = {} /\ resolved = {}

(* The files of the instance are read. *)
Begin ==
    /\ status = "reading"
    /\ status' = "resolving"
    /\ \E paths \in SUBSET DOMAIN uses.package : wanted' = paths
    /\ UNCHANGED <<uses, settled, resolved>>

Resolve(path) ==
    /\ status = "resolving"
    /\ path \in wanted \ settled
    /\ uses.found[path]
    /\ settled' = settled \union {path}
    /\ resolved' = resolved \union {path}
    /\ wanted' = wanted \union uses.package[path]
    /\ UNCHANGED <<uses, status>>

Report(path) ==
    /\ status = "resolving"
    /\ path \in wanted \ settled
    /\ ~uses.found[path]
    /\ settled' = settled \union {path}
    /\ UNCHANGED <<uses, wanted, resolved, status>>

Finish ==
    /\ status = "resolving"
    /\ wanted \subseteq settled
    /\ status' = "done"
    /\ UNCHANGED <<uses, wanted, settled, resolved>>

Fail ==
    /\ status \in {"reading", "resolving"}
    /\ status' = "failed"
    /\ UNCHANGED <<uses, wanted, settled, resolved>>

Next ==
    \/ Begin \/ Finish \/ Fail
    \/ \E path \in DOMAIN uses.package : Resolve(path) \/ Report(path)

Spec == Init /\ [][Next]_closureVars

(* The answer comes. *)
Answered == <>(status \in {"done", "failed"})
=============================================================================
