---------------------------- MODULE TaskLifecycle ----------------------------
(***************************************************************************)
(* What the user of Singular/LIB/tasks.lib is promised about the tasks of  *)
(* one startTasks call, without links, supervisors or grandchildren: the   *)
(* life cycle of a task ('created' -> 'started' -> 'completed', 'started'  *)
(* -> 'stopped'), whose result it gets and when a call may return.         *)
(* TaskSupervisor implements this specification.                           *)
(***************************************************************************)
EXTENDS Integers, FiniteSets

CONSTANTS Task, Timeouts, Others

VARIABLES
    status,     \* getState(t)
    value,      \* the task that getResult(t) is the result of, or 0
    computed,   \* tasks for which pollTask would return 1
    call,       \* the procedure that is running
    asked,      \* the tasks it was called for
    promised,   \* those of them it has to deliver
    need        \* the number of tasks waitTasks still has to wait for

vars == <<status, value, computed, call, asked, promised, need>>

Init ==
    /\ status = [t \in Task |-> "created"]
    /\ value = [t \in Task |-> 0]
    /\ computed = {}
    /\ call = "none" /\ asked = {} /\ promised = {} /\ need = 0

Start ==
    /\ call = "none" /\ \A t \in Task : status[t] = "created"
    /\ status' = [t \in Task |-> "started"]
    /\ call' = "start"
    /\ UNCHANGED <<value, computed, asked, promised, need>>

Stop(t) ==
    /\ call = "none" /\ status[t] = "started"
    /\ status' = [status EXCEPT ![t] = "stopped"]
    /\ UNCHANGED <<value, computed, call, asked, promised, need>>

\* A computation ends.  The user may have stopped the task a moment before,
\* then its result is discarded.
Compute(t) ==
    /\ t \notin computed /\ status[t] \in {"started", "stopped"}
    /\ computed' = computed \cup {t}
    /\ UNCHANGED <<status, value, call, asked, promised, need>>

Discard(t) ==
    /\ t \in computed /\ status[t] = "stopped"
    /\ computed' = computed \ {t}
    /\ UNCHANGED <<status, value, call, asked, promised, need>>

\* waitTasks or pollTask is called for S; n tasks have to complete.
Call(c, S, n) ==
    /\ call = "none"
    /\ S # {} /\ \A t \in S : status[t] = "started"
    /\ call' = c /\ asked' = S /\ need' = n
    /\ promised' = S \cap computed
    /\ UNCHANGED <<status, value, computed>>

\* A result of a task that was asked for, and only of such a task, arrives.
Arrives(t) ==
    /\ t \in asked \cap computed /\ status[t] = "started"
    /\ status' = [status EXCEPT ![t] = "completed"]
    /\ value' = [value EXCEPT ![t] = t]

\* Results of other supervisors' tasks count as well.
Deliver ==
    /\ call = "wait"
    /\ \/ \E t \in Task : Arrives(t) /\ need' \in {need, need - 1}
       \/ Others > 0 /\ need > 0 /\ need' = need - 1 /\ UNCHANGED <<status, value>>
    /\ UNCHANGED <<computed, call, asked, promised>>

\* A call returns once all it had to deliver is completed: what was computed
\* when it was called, and N tasks unless there was a timeout.
Return ==
    /\ call # "none"
    /\ \/ call = "poll" /\ \E t \in Task : Arrives(t)
       \/ UNCHANGED <<status, value>>
    /\ call = "wait" => need <= 0 \/ Timeouts
    /\ \A t \in promised : status'[t] = "completed"
    /\ call' = "none" /\ asked' = {} /\ promised' = {} /\ need' = 0
    /\ UNCHANGED computed

Next ==
    \/ Start \/ Deliver \/ Return
    \/ \E t \in Task : Stop(t) \/ Compute(t) \/ Discard(t) \/ Call("poll", {t}, 0)
    \/ \E S \in SUBSET Task :
         \E n \in 1 - Cardinality(Task) .. Cardinality(S) + Others :
            Call("wait", S, n)

Spec == Init /\ [][Next]_vars
=============================================================================
