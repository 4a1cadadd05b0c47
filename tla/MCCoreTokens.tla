---------------------------- MODULE MCCoreTokens ----------------------------
(* Two tasks of the main process, the first of which starts a task itself.   *)
EXTENDS CoreTokens

CONSTANTS main, p1, p2, p3

NestedParent == [p \in {p1, p2, p3} |-> IF p = p3 THEN p1 ELSE main]
=============================================================================
