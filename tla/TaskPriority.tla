---------------------------- MODULE TaskPriority ----------------------------
(***************************************************************************)
(* What give_priority of Singular/LIB/tasks.lib has to do with the list of *)
(* waiting tasks: the operator by which TaskSupervisor and WaitingList     *)
(* describe it, and which its loops in TaskQueue have to agree with.       *)
(***************************************************************************)
EXTENDS Integers, Sequences, FiniteSets

Elems(q) == {q[i] : i \in 1 .. Len(q)}

\* The tasks of P move to the front of q, the others keep their order.  (The
\* order within P is the one in which the caller of waitTasks listed them; a
\* queue that is all of P is left as it is.)
GivePriority(q, P) ==
    IF P = Elems(q) THEN {q}
    ELSE {r \in [1 .. Len(q) -> Elems(q)] :
            /\ Elems(r) = Elems(q)
            /\ \A i, j \in 1 .. Len(q) : i < j =>
                 /\ r[i] # r[j]
                 /\ r[j] \in P => r[i] \in P
                 /\ q[i] \notin P /\ q[j] \notin P =>
                      \E k, l \in 1 .. Len(q) :
                        k < l /\ r[k] = q[i] /\ r[l] = q[j]}
=============================================================================
