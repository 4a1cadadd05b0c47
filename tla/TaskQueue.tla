------------------------------ MODULE TaskQueue ------------------------------
(***************************************************************************)
(* The vectors of startTasks_child in Singular/LIB/tasks.lib, with the     *)
(* loops of give_priority and removeDemanded that work on them in place:   *)
(* queue, of which the part from next on counts and which is cut only now  *)
(* and then, and demanded_tasks, of which the part up to                   *)
(* demanded_tasks_index counts.  Links and processes are left out; a stop, *)
(* a poll and a wait are made one at a time, as the main process does.     *)
(***************************************************************************)
EXTENDS TaskPriority, Subsequences, SequencesExt, FiniteSetsExt

CONSTANTS
    NTasks,      \* nlocaltasks
    Repeats      \* TRUE iff a task may be listed twice in a waitTasks

ASSUME ParamAssumption == NTasks \in Nat \ {0} /\ Repeats \in BOOLEAN

Task == 1 .. NTasks
Numbers == 1 - NTasks .. NTasks + 1      \* N - ncompleted, other supervisors included

VARIABLES
    state, queue, next,
    demanded_tasks, demanded_tasks_index, ndemanded,
    waiting,     \* the main process is in waitTasks
    sent         \* tasks whose process got the go-ahead, for a result to come

vars == <<state, queue, next, demanded_tasks, demanded_tasks_index, ndemanded,
          waiting, sent>>
demandVars == <<demanded_tasks, demanded_tasks_index, ndemanded>>

Init ==
    /\ state = [t \in Task |-> 0]
    /\ queue = [i \in Task |-> i] /\ next = 1
    /\ demanded_tasks = <<0>> /\ demanded_tasks_index = 1 /\ ndemanded = -1
    /\ waiting = FALSE /\ sent = {}

-----------------------------------------------------------------------------
(* give_priority                                                           *)

\* The search for x goes down from index, round the queue, and blanks what it
\* finds; it stays there.
Blank(at, x) ==
    LET size == Len(at.queue)
        down(k) == IF k < at.index THEN at.index - k ELSE at.index + size - k
        hits == {k \in 0 .. size - 1 : at.queue[down(k)] = x}
    IN  IF hits = {} THEN at
        ELSE LET found == down(Min(hits))
             IN  [queue |-> [at.queue EXCEPT ![found] = 0], index |-> found]

give_priority(q, preferred) ==
    IF Len(q) = Len(preferred) THEN q
    ELSE LET size == Len(preferred)
             blanked[n \in 0 .. size] ==
                 IF n = 0 THEN [queue |-> q, index |-> Len(q)]
                 ELSE Blank(blanked[n - 1], preferred[size + 1 - n])
             left == blanked[size].queue
         IN  preferred \o Subsequence(left, {k \in DOMAIN left : left[k] # 0})

\* queue[next..size(queue)]
Rest == SubSeq(queue, next, Len(queue))

-----------------------------------------------------------------------------
(* removeDemanded, on d = [vec, index]: the result and whether id was there *)

\* Faulty: the part behind i stays where it is.
ShiftedNot(vec, i, index) == [vec EXCEPT ![index] = 0]
\* vec[i..index] = vec[i+1..index], 0
Shifted(vec, i, index) ==
    [k \in 1 .. Len(vec) |-> IF k \notin i .. index THEN vec[k]
                             ELSE IF k < index THEN vec[k + 1] ELSE 0]

LastRemoved(vec, index) == [vec |-> [vec EXCEPT ![index] = 0], index |-> index - 1]

\* Behind the range of vec an error is reported and the comparison is false.
removeDemanded(vec, index, id) ==
    IF index > 0 /\ vec[index] = id
    THEN [found |-> TRUE, d |-> LastRemoved(vec, index)]
    ELSE LET hits == {i \in 1 .. index - 1 : vec[i] = id}
         IN  IF hits = {} THEN [found |-> FALSE, d |-> [vec |-> vec, index |-> index]]
             ELSE [found |-> TRUE,
                   d |-> [vec |-> Shifted(vec, Max(hits), index), index |-> index - 1]]

-----------------------------------------------------------------------------
Waiting == {t \in Task : state[t] = 0}

\* queue[next] is launched if a task waits; st, q and n are states, queue and
\* next apart from that.
Launch(st, q, n) ==
    /\ queue' = q
    /\ IF \E t \in Task : st[t] = 0
       THEN state' = [st EXCEPT ![q[n]] = 1] /\ next' = n + 1
       ELSE state' = st /\ next' = n

\* A new link is opened.
OpenLink ==
    /\ Waiting # {}
    /\ Launch(state, queue, next)
    /\ UNCHANGED <<demandVars, waiting, sent>>

\* Faulty: the stopped task stays in the part of queue that counts.
NextAfterStopSame == next
\* The stopped task is at the head of the whole queue, next skips one more.
NextAfterStop == next + 1

StopWaiting(id) ==
    /\ ~waiting /\ state[id] = 0
    /\ queue' = give_priority(queue, <<id>>)
    /\ next' = NextAfterStop
    /\ state' = [state EXCEPT ![id] = -1]
    /\ UNCHANGED <<demandVars, waiting, sent>>

StopStarted(id) ==
    /\ ~waiting /\ state[id] \in {1, 2} /\ id \notin sent
    /\ Launch([state EXCEPT ![id] = -1], queue, next)
    /\ UNCHANGED <<demandVars, waiting, sent>>

\* 3, id: the main process got the result.
Got(id) ==
    /\ id \in sent
    /\ Launch([state EXCEPT ![id] = 3], queue, next)
    /\ sent' = sent \ {id}
    /\ UNCHANGED <<demandVars, waiting>>

PollTask(id) ==
    /\ ~waiting /\ state[id] \in 0 .. 2 /\ sent = {}
    /\ IF state[id] = 0 THEN queue' = give_priority(Rest, <<id>>) /\ next' = 1
                        ELSE UNCHANGED <<queue, next>>
    /\ sent' = IF state[id] = 2 THEN {id} ELSE sent
    /\ UNCHANGED <<state, demandVars, waiting>>

\* The end of a computation is read from the link.  Both operands of && are
\* evaluated, so removeDemanded is called whatever ndemanded is.
ResultComputed(id) ==
    /\ state[id] = 1
    /\ state' = [state EXCEPT ![id] = 2]
    /\ LET r == removeDemanded(demanded_tasks, demanded_tasks_index, id)
       IN  /\ demanded_tasks' = r.d.vec
           /\ demanded_tasks_index' = r.d.index
           /\ IF ndemanded > 0 /\ r.found
              THEN ndemanded' = ndemanded - 1 /\ sent' = sent \cup {id}
              ELSE UNCHANGED <<ndemanded, sent>>
    /\ UNCHANGED <<queue, next, waiting>>

\* The second loop of a wait, for element i: acc is the vector and its index,
\* the results sent and their number, and whether nothing else would ever happen.
ServeElement(acc, i) ==
    LET id == acc.d.vec[i]
    IN  CASE state[id] = 2 ->
               [d |-> removeDemanded(acc.d.vec, acc.d.index, id).d,
                sent |-> acc.sent \cup {id}, count |-> acc.count + 1,
                deadlock |-> FALSE]
          [] state[id] = 1 -> [acc EXCEPT !.deadlock = FALSE]
          [] OTHER -> acc

\* 1, v, n: the tasks of v are read from l(pid) and their order is reversed.
WaitTasks(v, n) ==
    LET size == Len(v)
        waiting_tasks == Subsequence(v, {k \in DOMAIN v : state[v[k]] = 0})
        serving[k \in 0 .. size] ==
            IF k = 0
            THEN [d |-> [vec |-> Reverse(v), index |-> size], sent |-> {},
                  count |-> 0, deadlock |-> waiting_tasks # <<>>]
            ELSE ServeElement(serving[k - 1], size + 1 - k)
        served == serving[size]
        q == IF waiting_tasks = <<>> THEN queue ELSE give_priority(Rest, waiting_tasks)
        first == IF waiting_tasks = <<>> THEN next ELSE 1
    IN  /\ ~waiting /\ sent = {}
        /\ \A i \in 1 .. size : state[v[i]] \in 0 .. 2
        /\ n >= 1 - Cardinality({t \in Task : state[t] = 3})
        /\ waiting' = TRUE
        /\ demanded_tasks' = served.d.vec
        /\ demanded_tasks_index' = served.d.index
        /\ ndemanded' = Min({n, size}) - served.count
        /\ sent' = served.sent
        /\ IF served.deadlock THEN Launch(state, q, first)
           ELSE queue' = q /\ next' = first /\ UNCHANGED state

\* 1, 0, -1
EndWait ==
    /\ waiting
    /\ waiting' = FALSE
    /\ demanded_tasks' = <<0>> /\ demanded_tasks_index' = 1 /\ ndemanded' = -1
    /\ UNCHANGED <<state, queue, next, sent>>

\* The tasks of a call, in any order.
Listings ==
    {v \in UNION {[1 .. m -> Task] : m \in 1 .. NTasks} :
        Repeats \/ \A i, j \in 1 .. Len(v) : i # j => v[i] # v[j]}

Finished == (\A t \in Task : state[t] \in {-1, 3}) /\ UNCHANGED vars

Next ==
    \/ OpenLink \/ EndWait \/ Finished
    \/ \E id \in Task : \/ StopWaiting(id) \/ StopStarted(id) \/ Got(id)
                        \/ PollTask(id) \/ ResultComputed(id)
    \/ \E v \in Listings, n \in Numbers : WaitTasks(v, n)

Spec == Init /\ [][Next]_vars

-----------------------------------------------------------------------------
\* The part of queue that counts lists every waiting task, each once: the
\* "elements of 'queue' are distinct" that give_priority relies on.
QueueListsWaiting ==
    /\ \A i, j \in 1 .. Len(Rest) : i # j => Rest[i] # Rest[j]
    /\ Elems(Rest) = Waiting

\* During a wait demanded_tasks_index "is the greatest integer with
\* demanded_tasks[demanded_tasks_index] != 0": it never runs behind or ahead of
\* the removals, and tasks to be demanded yet are among those up to it.
DemandedFormat ==
    waiting =>
        /\ \A i \in 1 .. Len(demanded_tasks) :
             demanded_tasks[i] # 0 <=> i <= demanded_tasks_index
        /\ ndemanded <= demanded_tasks_index

\* The two vectors keep the formats their comments give them.
VectorsFormatted == QueueListsWaiting /\ DemandedFormat

List == INSTANCE WaitingList WITH
    list <- Rest,
    demanded <- {demanded_tasks[i] : i \in 1 .. demanded_tasks_index} \ {0}

\* The vectors, cut and reordered in place, behave as a list of waiting tasks
\* and a set of demanded ones: what TaskSupervisor takes them for.
ImplementsWaitingList == List!Spec
=============================================================================
