----------------------------- MODULE WaitingList -----------------------------
(***************************************************************************)
(* The list of waiting tasks and the set of demanded tasks, as the code of *)
(* startTasks_child uses them: what its vectors queue and demanded_tasks   *)
(* stand for.  TaskQueue implements this specification.                    *)
(***************************************************************************)
EXTENDS TaskPriority, Subsequences

CONSTANTS Task, Numbers    \* the tasks, and what N - ncompleted may be

VARIABLES
    state,       \* internal state of each task
    list,        \* the waiting tasks in the order they will be launched
    demanded,    \* tasks of the running waitTasks that have no go-ahead yet
    ndemanded,   \* how many of them it still needs
    sent         \* tasks that got the go-ahead

vars == <<state, list, demanded, ndemanded, sent>>

Waiting == {t \in Task : state[t] = 0}

Init ==
    /\ state = [t \in Task |-> 0]
    /\ list \in [1 .. Cardinality(Task) -> Task] /\ Elems(list) = Task
    /\ demanded = {} /\ ndemanded = -1 /\ sent = {}

\* The head of list is launched, if there is one; st and l are the states and
\* the list apart from that.
LaunchNext(st, l) ==
    IF l = <<>> THEN state' = st /\ list' = l
    ELSE state' = [st EXCEPT ![Head(l)] = 1] /\ list' = Tail(l)

Launch == list # <<>> /\ LaunchNext(state, list) /\ UNCHANGED <<demanded, ndemanded, sent>>

\* A task leaves the list.
Drop(t) ==
    /\ state[t] = 0
    /\ state' = [state EXCEPT ![t] = -1]
    /\ list' = Subsequence(list, {k \in DOMAIN list : list[k] # t})
    /\ UNCHANGED <<demanded, ndemanded, sent>>

\* A link becomes free: its task is stopped (-1) or its result was got (3).
Free(t, final) ==
    /\ state[t] \in {1, 2}
    /\ LaunchNext([state EXCEPT ![t] = final], list)
    /\ sent' = sent \ {t}
    /\ UNCHANGED <<demanded, ndemanded>>

\* A poll prefers a waiting task, and sends a computed one.
Poll(t) ==
    /\ list' \in IF state[t] = 0 THEN GivePriority(list, {t}) ELSE {list}
    /\ sent' = IF state[t] = 2 THEN sent \cup {t} ELSE sent
    /\ UNCHANGED <<state, demanded, ndemanded>>

\* A wait prefers its waiting tasks, sends the computed ones and launches one
\* task if nothing else would ever happen.
Demand(S, n) ==
    LET computed == {t \in S : state[t] = 2}
        waiting == S \cap Waiting
    IN  /\ \E l \in IF waiting = {} THEN {list} ELSE GivePriority(list, waiting) :
             IF waiting # {} /\ \A t \in S : state[t] \notin {1, 2}
             THEN LaunchNext(state, l) ELSE state' = state /\ list' = l
        /\ demanded' = S \ computed
        /\ ndemanded' = (IF n > Cardinality(S) THEN Cardinality(S) ELSE n)
                          - Cardinality(computed)
        /\ sent' = sent \cup computed

\* A computation ends: it is demanded no longer, and sent if it is needed.
Compute(t) ==
    /\ state[t] = 1
    /\ state' = [state EXCEPT ![t] = 2]
    /\ demanded' = demanded \ {t}
    /\ IF ndemanded > 0 /\ t \in demanded
       THEN ndemanded' = ndemanded - 1 /\ sent' = sent \cup {t}
       ELSE UNCHANGED <<ndemanded, sent>>
    /\ UNCHANGED list

EndWait ==
    /\ demanded' = {} /\ ndemanded' = -1
    /\ UNCHANGED <<state, list, sent>>

Next ==
    \/ Launch \/ EndWait
    \/ \E t \in Task : Drop(t) \/ Free(t, -1) \/ Free(t, 3) \/ Poll(t) \/ Compute(t)
    \/ \E S \in (SUBSET Task) \ {{}}, n \in Numbers : Demand(S, n)

Spec == Init /\ [][Next]_vars
=============================================================================
