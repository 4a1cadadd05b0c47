---------------------------- MODULE TaskSupervisor ----------------------------
(***************************************************************************)
(* The protocol of Singular/LIB/tasks.lib for one call startTasks(t1..tn). *)
(*                                                                         *)
(* Three kinds of processes take part.  The main process runs startTasks,  *)
(* stopTask, waitTasks and pollTask.  startTasks forks one supervisor,     *)
(* which runs startTasks_child: it forks a grandchild for a task whenever  *)
(* it has a leaf for it, and relays requests.  A grandchild computes a     *)
(* task (startTasks_grandchild), announces it to the supervisor, waits for *)
(* the go-ahead and writes <<index, result>> to the socket L(pid) that all *)
(* grandchildren share and the main process reads.                         *)
(*                                                                         *)
(* The processes only share the links (FIFO queues here) and the semaphore *)
(* sem_write.  A message of several writes (1, ids, n) is one record; the  *)
(* two writes of a result stay two steps.  sem_leaves is shared with all   *)
(* other supervisors: any number of leaves up to Leaves may be free        *)
(* whenever this one tries to acquire some.                                *)
(***************************************************************************)
EXTENDS TaskPriority

CONSTANTS
    NTasks,     \* nlocaltasks, the number of tasks given to startTasks
    Leaves,     \* leaves this supervisor can get from sem_leaves at most
    Others,     \* tasks of other supervisors that a waitTasks may also name
    Timeouts    \* TRUE iff waitTasks may be called with a timeout

ASSUME ParamAssumption ==
    /\ NTasks \in Nat \ {0}
    /\ Leaves \in Nat
    /\ Others \in Nat
    /\ Timeouts \in BOOLEAN

Task == 1 .. NTasks       \* the ids, set by startTasks before forking
Link == 1 .. NTasks       \* ll(pid)(1), ll(pid)(2), ...
Go == 0                   \* the go-ahead "1" on a link to a grandchild
Ended == 0                \* the "2" on a link to the supervisor

VARIABLES
    \* main process
    mstate,        \* tasks[t].state
    result,        \* tasks[t].result: the task it is the result of, or 0
    mpc,           \* the read or loop of the library the main process is in
    asked,         \* the tasks the running call was made for
    need,          \* N - ncompleted
    elsewhere,     \* results other supervisors may still deliver to this wait
    results_got,
    sent,          \* the results_sent that the supervisor reported
    promised,      \* history: waited for or polled tasks known to be computed
    \* links of the main process
    toSup,         \* l(pid), main process to supervisor
    toMain,        \* l(pid), supervisor to main process
    sock,          \* L(pid), grandchildren to main process
    \* supervisor
    spc, state, queue, assignment, nwaiting, nfinished, nlinks,
    opening,       \* -wait while links are being opened
    demanded, ndemanded, results_sent, granted_leaves,
    held,          \* sem_acquired[sem_leaves] of the supervisor
    \* grandchildren, by link
    gpc, gtask,
    down,          \* supervisor to grandchild: a task to run, or Go
    up,            \* grandchild to supervisor: a task computed, or Ended
    sem_write      \* the link whose grandchild holds sem_write, or 0

callVars == <<asked, need, elsewhere, results_got, sent, promised>>
mainVars == <<mstate, result, mpc, callVars>>
chanVars == <<toSup, toMain, sock>>
countVars == <<nwaiting, nfinished, nlinks, opening, granted_leaves, held>>
demandVars == <<demanded, ndemanded, results_sent>>
supVars == <<spc, state, queue, assignment, countVars, demandVars>>
procVars == <<gpc, gtask, sem_write>>
linkVars == <<down, up>>
vars == <<mainVars, chanVars, supVars, procVars, linkVars>>

-----------------------------------------------------------------------------
(* Messages of the main process to its supervisor.                         *)

Request(code, id, ids, n) == [code |-> code, id |-> id, ids |-> ids, n |-> n]

StopMsg(t) == Request("stop", t, {}, 0)          \* 0, id
WaitMsg(S, n) == Request("wait", 0, S, n)        \* 1, demanded_tasks, ndemanded
EndMsg == WaitMsg({}, -1)                        \* 1, 0, -1
PollMsg(t) == Request("poll", t, {}, 0)          \* 2, id
GotMsg(t) == Request("got", t, {}, 0)            \* 3, id

Piece(kind, t) == [kind |-> kind, task |-> t]    \* one write to L(pid)

Init ==
    /\ mstate = [t \in Task |-> "created"]
    /\ result = [t \in Task |-> 0]
    /\ mpc = "new"
    /\ asked = {} /\ need = 0 /\ elsewhere = 0 /\ results_got = 0 /\ sent = 0
    /\ promised = {}
    /\ toSup = <<>> /\ toMain = <<>> /\ sock = <<>>
    /\ spc = "none"
    /\ state = [t \in Task |-> 0]
    /\ queue = [i \in Task |-> i]
    /\ assignment = [t \in Task |-> 0]
    /\ nwaiting = NTasks /\ nfinished = 0 /\ nlinks = 0 /\ opening = 0
    /\ demanded = {} /\ ndemanded = -1 /\ results_sent = 0
    /\ granted_leaves = 0 /\ held = 0
    /\ gpc = [k \in Link |-> "none"]
    /\ gtask = [k \in Link |-> 0]
    /\ down = [k \in Link |-> <<>>]
    /\ up = [k \in Link |-> <<>>]
    /\ sem_write = 0

-----------------------------------------------------------------------------
(* The main process.                                                       *)

\* startTasks: the tasks become 'started', the supervisor is forked.
StartTasks ==
    /\ mpc = "new"
    /\ mstate' = [t \in Task |-> "started"]
    /\ mpc' = "starting"
    /\ spc' = "reserve"
    /\ UNCHANGED <<result, callVars, chanVars, state, queue, assignment,
                   countVars, demandVars, procVars, linkVars>>

\* The rest of startTasks: read the port and connect L(pid), which the
\* supervisor accepts in system("reservedLink").
Connect ==
    /\ mpc = "starting" /\ spc = "accept"
    /\ toMain # <<>>
    /\ toMain' = Tail(toMain)
    /\ mpc' = "idle"
    /\ spc' = "run"
    /\ UNCHANGED <<mstate, result, callVars, toSup, sock, state, queue,
                   assignment, countVars, demandVars, procVars, linkVars>>

StopTask(t) ==
    /\ mpc = "idle"
    /\ mstate[t] = "started"
    /\ toSup' = Append(toSup, StopMsg(t))
    /\ mstate' = [mstate EXCEPT ![t] = "stopped"]
    /\ UNCHANGED <<result, mpc, callVars, toMain, sock, supVars, procVars,
                   linkVars>>

\* waitTasks up to its loop.  S are the tasks of this supervisor in T that are
\* 'started'; n = N - ncompleted is not positive when enough tasks of T are
\* 'completed' already; x tasks of T belong to other supervisors.
WaitTasks(S, n, x) ==
    /\ mpc = "idle"
    /\ S # {}
    /\ \A t \in S : mstate[t] = "started"
    /\ toSup' = Append(toSup, WaitMsg(S, n))
    /\ asked' = S
    /\ need' = n /\ elsewhere' = x
    /\ promised' = {t \in S : state[t] = 2}
    /\ mpc' = "wait"
    /\ UNCHANGED <<mstate, result, results_got, sent, toMain, sock, supVars,
                   procVars, linkVars>>

\* Read an index and a result from L(pid), store the result and acknowledge it.
\* There is a tasks[index] to store it in.
Receive(index) ==
    /\ Len(sock) >= 2 /\ index \in Task
    /\ result' = [result EXCEPT ![index] = sock[2].task]
    /\ mstate' = [mstate EXCEPT ![index] = "completed"]
    /\ toSup' = Append(toSup, GotMsg(index))
    /\ sock' = Tail(Tail(sock))

\* Faulty: one completed task too few is enough.
EnoughOffByOne == need <= 1
Enough == need <= 0

\* One round of the loop of waitTasks.
WaitReceive ==
    /\ mpc = "wait" /\ ~Enough
    /\ Receive(Head(sock).task)
    /\ need' = need - 1
    /\ results_got' = results_got + 1
    /\ UNCHANGED <<mpc, asked, elsewhere, sent, promised, toMain, supVars,
                   procVars, linkVars>>

\* The same for a result from another supervisor's grandchild.
ElsewhereReceive ==
    /\ mpc = "wait" /\ ~Enough /\ elsewhere > 0
    /\ need' = need - 1
    /\ elsewhere' = elsewhere - 1
    /\ UNCHANGED <<mstate, result, mpc, asked, results_got, sent, promised,
                   chanVars, supVars, procVars, linkVars>>

\* The loop ends: N tasks are completed, or nothing came in time.
WaitEnd ==
    /\ mpc = "wait"
    /\ Enough \/ (Timeouts /\ sock = <<>>)
    /\ toSup' = Append(toSup, EndMsg)
    /\ mpc' = "ending"
    /\ UNCHANGED <<mstate, result, callVars, toMain, sock, supVars, procVars,
                   linkVars>>

ReadResultsSent ==
    /\ mpc = "ending"
    /\ toMain # <<>>
    /\ sent' = Head(toMain)
    /\ toMain' = Tail(toMain)
    /\ mpc' = "drain"
    /\ UNCHANGED <<mstate, result, asked, need, elsewhere, results_got,
                   promised, toSup, sock, supVars, procVars, linkVars>>

\* Faulty: the loop ends one result early.
ResultsMissingOffByOne == sent > results_got + 1
ResultsMissing == sent > results_got

\* The loop over the results that were sent but not yet read.
WaitDrain ==
    /\ mpc = "drain" /\ ResultsMissing
    /\ Receive(Head(sock).task)
    /\ results_got' = results_got + 1
    /\ UNCHANGED <<mpc, asked, need, elsewhere, sent, promised, toMain,
                   supVars, procVars, linkVars>>

\* A call returns: its local variables are gone.
Return ==
    /\ mpc' = "idle"
    /\ asked' = {} /\ need' = 0 /\ elsewhere' = 0
    /\ results_got' = 0 /\ sent' = 0 /\ promised' = {}

\* waitTasks lists the completed tasks and returns.
WaitReturn ==
    /\ mpc = "drain" /\ ~ResultsMissing
    /\ Return
    /\ UNCHANGED <<mstate, result, chanVars, supVars, procVars, linkVars>>

PollTask(t) ==
    /\ mpc = "idle"
    /\ mstate[t] = "started"
    /\ toSup' = Append(toSup, PollMsg(t))
    /\ asked' = {t}
    /\ promised' = {t} \cap {u \in Task : state[u] = 2}
    /\ mpc' = "poll"
    /\ UNCHANGED <<mstate, result, need, elsewhere, results_got, sent, toMain,
                   sock, supVars, procVars, linkVars>>

\* pollTask reads the state: 0 and 1 return 0, 2 is followed by the result.
PollReply ==
    /\ mpc = "poll"
    /\ toMain # <<>>
    /\ toMain' = Tail(toMain)
    /\ IF Head(toMain) = 2 THEN mpc' = "pollresult" /\ UNCHANGED callVars
                           ELSE Return
    /\ UNCHANGED <<mstate, result, toSup, sock, supVars, procVars,
                   linkVars>>

\* pollTask reads <<index, result>> and takes it for the result of t.
PollResult ==
    /\ mpc = "pollresult"
    /\ \E t \in asked : Receive(t)
    /\ Return
    /\ UNCHANGED <<toMain, supVars, procVars, linkVars>>

-----------------------------------------------------------------------------
(* The supervisor.                                                         *)

\* startTasks_child up to its accept: the port goes to the main process.
Reserve ==
    /\ spc = "reserve"
    /\ toMain' = Append(toMain, 0)
    /\ spc' = "accept"
    /\ UNCHANGED <<mainVars, toSup, sock, state, queue, assignment, countVars,
                   demandVars, procVars, linkVars>>

SomethingToRead == toSup # <<>> \/ \E k \in Link : up[k] # <<>>

\* The first loop runs while tasks wait, the second one until all tasks are
\* finished and no waitTasks is in progress.
FirstLoop == spc = "run" /\ opening = 0 /\ nwaiting > 0
\* Faulty: the loop forgets the waitTasks in progress.
TasksRemainUnfinished == nfinished < NTasks
\* Faulty: the loop waits for one task more than there are.
TasksRemainOffByOne == nfinished <= NTasks \/ ndemanded # -1
TasksRemain == nfinished < NTasks \/ ndemanded # -1
SecondLoop == spc = "run" /\ opening = 0 /\ nwaiting = 0 /\ TasksRemain
Listening == (FirstLoop /\ nlinks > 0) \/ SecondLoop

\* startTasks_grandchild for the head of queue goes to link k; st and
\* asg are the states and links of the tasks apart from that.
Launch(k, st, asg) ==
    /\ state' = [st EXCEPT ![Head(queue)] = 1]
    /\ assignment' = [asg EXCEPT ![Head(queue)] = k]
    /\ queue' = Tail(queue)
    /\ nwaiting' = nwaiting - 1

\* Faulty: what the killed process wrote is still read from the reopened link.
KilledUnflushed(k, pc) ==
    /\ gpc' = [gpc EXCEPT ![k] = pc]
    /\ gtask' = [gtask EXCEPT ![k] = 0]
    /\ sem_write' = IF sem_write = k THEN 0 ELSE sem_write
    /\ UNCHANGED up

\* Faulty: the semaphores of the killed process are not given back.
KilledHoldingOn(k, pc) ==
    /\ gpc' = [gpc EXCEPT ![k] = pc]
    /\ gtask' = [gtask EXCEPT ![k] = 0]
    /\ up' = [up EXCEPT ![k] = <<>>]
    /\ UNCHANGED sem_write

\* close(links[k]): the process at its other end is gone, and what it held.
Killed(k, pc) ==
    /\ gpc' = [gpc EXCEPT ![k] = pc]
    /\ gtask' = [gtask EXCEPT ![k] = 0]
    /\ sem_write' = IF sem_write = k THEN 0 ELSE sem_write
    /\ up' = [up EXCEPT ![k] = <<>>]

\* try_acquire of sem_leaves may succeed m times, for at most n tasks.
Acquirable(m, n) == m <= n /\ held + m <= Leaves

\* No link yet: one leaf is granted, further ones are acquired if they are free.
FirstLeaves(m) ==
    /\ FirstLoop /\ nlinks = 0
    /\ Acquirable(m, nwaiting - 1)
    /\ granted_leaves' = granted_leaves + 1
    /\ held' = held + m
    /\ opening' = m + 1
    /\ UNCHANGED <<mainVars, chanVars, spc, state, queue, assignment, nwaiting,
                   nfinished, nlinks, demandVars, procVars, linkVars>>

\* waitfirst(links, 500) ran into its timeout: acquire the leaves that are free.
MoreLeaves(m) ==
    /\ FirstLoop /\ nlinks > 0
    /\ ~SomethingToRead
    /\ Acquirable(m, nwaiting)
    /\ held' = held + m
    /\ opening' = m
    /\ UNCHANGED <<mainVars, chanVars, spc, state, queue, assignment, nwaiting,
                   nfinished, nlinks, granted_leaves, demandVars, procVars,
                   linkVars>>

\* Faulty: the loop over the links to open runs once too often.
LinksToOpenOffByOne == opening >= 0
LinksToOpen == opening > 0

\* Fork a grandchild on a new link for the head of queue.
OpenLink ==
    /\ spc = "run" /\ LinksToOpen
    /\ opening' = opening - 1
    /\ nlinks' = nlinks + 1
    /\ Launch(nlinks + 1, state, assignment)
    /\ gpc' = [gpc EXCEPT ![nlinks + 1] = "idle"]
    /\ down' = [down EXCEPT ![nlinks + 1] = <<Head(queue)>>]
    /\ UNCHANGED <<mainVars, chanVars, spc, nfinished, granted_leaves, held,
                   demandVars, gtask, sem_write, up>>

\* A grandchild announced a result: 1, id.  A waitTasks that waits for this one
\* waits for it no longer; the go-ahead follows at once if it still needs results.
\* (Both operands of && are evaluated: removeDemanded is called in any case.)
ReadComputed(k) ==
    /\ Listening
    /\ up[k] # <<>> /\ Head(up[k]) # Ended
    /\ LET id == Head(up[k])
           serve == ndemanded > 0 /\ id \in demanded
       IN  /\ state' = [state EXCEPT ![id] = 2]
           /\ down' = IF serve THEN [down EXCEPT ![k] = Append(@, Go)] ELSE down
           /\ demanded' = demanded \ {id}
           /\ ndemanded' = IF serve THEN ndemanded - 1 ELSE ndemanded
           /\ results_sent' = IF serve THEN results_sent + 1 ELSE results_sent
    /\ up' = [up EXCEPT ![k] = Tail(@)]
    /\ UNCHANGED <<mainVars, chanVars, spc, queue, assignment, countVars,
                   procVars>>

\* startTasks_grandchild ended: nothing to do.
ReadEnded(k) ==
    /\ Listening
    /\ up[k] # <<>> /\ Head(up[k]) = Ended
    /\ up' = [up EXCEPT ![k] = Tail(@)]
    /\ UNCHANGED <<mainVars, chanVars, supVars, procVars, down>>

\* Read the next request of the main process.
ReadRequest(code) ==
    /\ Listening
    /\ toSup # <<>> /\ Head(toSup).code = code
    /\ toSup' = Tail(toSup)

\* stopTask for a waiting task: it moves to the front of queue and is skipped.
StopWaiting ==
    /\ ReadRequest("stop") /\ nwaiting > 0
    /\ LET id == Head(toSup).id
       IN  /\ state[id] = 0
           /\ \E q \in GivePriority(queue, {id}) : queue' = Tail(q)
           /\ state' = [state EXCEPT ![id] = -1]
    /\ nwaiting' = nwaiting - 1
    /\ nfinished' = nfinished + 1
    /\ UNCHANGED <<mainVars, toMain, sock, spc, assignment, nlinks, opening,
                   granted_leaves, held, demandVars, procVars, linkVars>>

\* stopTask for a started or computed task while others wait: its process is
\* killed and the link reopened for the head of queue.
StopAndReopen ==
    /\ ReadRequest("stop") /\ nwaiting > 0
    /\ LET id == Head(toSup).id
           k == assignment[id]
       IN  /\ state[id] \in {1, 2}
           /\ Launch(k, [state EXCEPT ![id] = -1], [assignment EXCEPT ![id] = 0])
           /\ Killed(k, "idle")
           /\ down' = [down EXCEPT ![k] = <<Head(queue)>>]
    /\ nfinished' = nfinished + 1
    /\ UNCHANGED <<mainVars, toMain, sock, spc, nlinks, opening,
                   granted_leaves, held, demandVars>>

\* Faulty: one leaf too many is released.
OnAcquiredLeafOffByOne == nlinks >= granted_leaves
OnAcquiredLeaf == nlinks > granted_leaves

\* In the second loop a finished task gives its link up for good, and the leaf
\* unless the link runs on a granted one.
CloseLink(id, final) ==
    /\ Killed(assignment[id], "none")
    /\ down' = [down EXCEPT ![assignment[id]] = <<>>]
    /\ held' = IF OnAcquiredLeaf THEN held - 1 ELSE held
    /\ nlinks' = nlinks - 1
    /\ assignment' = [assignment EXCEPT ![id] = 0]
    /\ state' = [state EXCEPT ![id] = final]
    /\ nfinished' = nfinished + 1

StopAndClose ==
    /\ ReadRequest("stop") /\ nwaiting = 0
    /\ state[Head(toSup).id] \in {1, 2}
    /\ CloseLink(Head(toSup).id, -1)
    /\ UNCHANGED <<mainVars, toMain, sock, spc, queue, nwaiting, opening,
                   granted_leaves, demandVars>>

\* Faulty: started tasks get the go-ahead as well.
ComputedTooEarly(S) == {t \in S : state[t] \in {1, 2}}
\* Faulty: tasks that were computed before the call are overlooked.
ComputedOverlooked(S) == {}
Computed(S) == {t \in S : state[t] = 2}

\* Faulty: waitTasks never grants a leaf.
DeadlockIgnored(S) == FALSE
Deadlock(S) ==
    /\ nwaiting > 0
    /\ \E t \in S : state[t] = 0
    /\ \A t \in S : state[t] \notin {1, 2}

\* Faulty: ndemanded may exceed the demanded tasks.
Uncapped(n, S) == n
Capped(n, S) == IF n > Cardinality(S) THEN Cardinality(S) ELSE n

\* waitTasks begins.  Waiting tasks of it get priority, computed ones the
\* go-ahead; if all of them wait, one leaf is granted lest nothing ever happens.
ServeWait ==
    /\ ReadRequest("wait") /\ Head(toSup) # EndMsg
    /\ LET S == Head(toSup).ids
           waiting == {t \in S : state[t] = 0}
           computed == Computed(S)
       IN  /\ demanded' = S \ computed
           /\ ndemanded' = Capped(Head(toSup).n, S) - Cardinality(computed)
           /\ results_sent' = Cardinality(computed)
           /\ queue' \in IF waiting = {} THEN {queue}
                                         ELSE GivePriority(queue, waiting)
           /\ down' = [k \in Link |-> IF \E t \in computed : assignment[t] = k
                                      THEN Append(down[k], Go) ELSE down[k]]
           /\ IF Deadlock(S)
              THEN granted_leaves' = granted_leaves + 1 /\ opening' = 1
              ELSE UNCHANGED <<granted_leaves, opening>>
    /\ UNCHANGED <<mainVars, toMain, sock, spc, state, assignment, nwaiting,
                   nfinished, nlinks, held, procVars, up>>

\* waitTasks ends: the main process learns how many results are on their way.
EndWait ==
    /\ ReadRequest("wait") /\ Head(toSup) = EndMsg
    /\ toMain' = Append(toMain, results_sent)
    /\ demanded' = {} /\ ndemanded' = -1
    /\ UNCHANGED <<mainVars, sock, spc, state, queue, assignment, countVars,
                   results_sent, procVars, linkVars>>

\* pollTask: a waiting task gets priority, a computed one the go-ahead.
ServePoll ==
    /\ ReadRequest("poll")
    /\ LET id == Head(toSup).id
       IN  /\ queue' \in IF state[id] = 0 THEN GivePriority(queue, {id})
                                          ELSE {queue}
           /\ down' = IF state[id] = 2
                      THEN [down EXCEPT ![assignment[id]] = Append(@, Go)]
                      ELSE down
           /\ toMain' = Append(toMain, state[id])
    /\ UNCHANGED <<mainVars, sock, spc, state, assignment, countVars,
                   demandVars, procVars, up>>

\* The main process got a result: the link is free for the head of queue.
GotAndRelaunch ==
    /\ ReadRequest("got") /\ nwaiting > 0
    /\ LET id == Head(toSup).id
           k == assignment[id]
       IN  /\ Launch(k, [state EXCEPT ![id] = 3], [assignment EXCEPT ![id] = 0])
           /\ down' = [down EXCEPT ![k] = Append(@, Head(queue))]
    /\ nfinished' = nfinished + 1
    /\ UNCHANGED <<mainVars, toMain, sock, spc, nlinks, opening,
                   granted_leaves, held, demandVars, procVars, up>>

GotAndClose ==
    /\ ReadRequest("got") /\ nwaiting = 0
    /\ CloseLink(Head(toSup).id, 3)
    /\ UNCHANGED <<mainVars, toMain, sock, spc, queue, nwaiting, opening,
                   granted_leaves, demandVars>>

\* Both loops are over and startTasks_child returns.
SupervisorEnd ==
    /\ spc = "run" /\ opening = 0 /\ nwaiting = 0
    /\ ~SecondLoop
    /\ spc' = "done"
    /\ UNCHANGED <<mainVars, chanVars, state, queue, assignment, countVars,
                   demandVars, procVars, linkVars>>

-----------------------------------------------------------------------------
(* The grandchild on link k.  The semaphores sem_queue and sem_cores around *)
(* its computation are the subject of module CoreTokens.                    *)

\* The ssi loop of the forked process reads the quoted call.
BeginTask(k) ==
    /\ gpc[k] = "idle"
    /\ down[k] # <<>>
    /\ gtask' = [gtask EXCEPT ![k] = Head(down[k])]
    /\ down' = [down EXCEPT ![k] = Tail(@)]
    /\ gpc' = [gpc EXCEPT ![k] = "compute"]
    /\ UNCHANGED <<mainVars, chanVars, supVars, sem_write, up>>

Announce(k) ==
    /\ gpc[k] = "compute"
    /\ up' = [up EXCEPT ![k] = Append(@, gtask[k])]
    /\ gpc' = [gpc EXCEPT ![k] = "await"]
    /\ UNCHANGED <<mainVars, chanVars, supVars, gtask, sem_write, down>>

\* Faulty: sem_write is not acquired.
MayWriteAlways == TRUE
MayWrite == sem_write = 0

\* The go-ahead is read, sem_write acquired and the index written.
WriteIndex(k) ==
    /\ gpc[k] = "await"
    /\ down[k] # <<>>
    /\ MayWrite
    /\ down' = [down EXCEPT ![k] = Tail(@)]
    /\ sem_write' = k
    /\ sock' = Append(sock, Piece("index", gtask[k]))
    /\ gpc' = [gpc EXCEPT ![k] = "write"]
    /\ UNCHANGED <<mainVars, toSup, toMain, supVars, gtask, up>>

WriteResult(k) ==
    /\ gpc[k] = "write"
    /\ sock' = Append(sock, Piece("result", gtask[k]))
    /\ gpc' = [gpc EXCEPT ![k] = "release"]
    /\ UNCHANGED <<mainVars, toSup, toMain, supVars, gtask, sem_write, linkVars>>

\* sem_write is released and the ssi loop writes the value 2 of the call.
EndTask(k) ==
    /\ gpc[k] = "release"
    /\ sem_write' = 0
    /\ up' = [up EXCEPT ![k] = Append(@, Ended)]
    /\ gpc' = [gpc EXCEPT ![k] = "idle"]
    /\ gtask' = [gtask EXCEPT ![k] = 0]
    /\ UNCHANGED <<mainVars, chanVars, supVars, down>>

-----------------------------------------------------------------------------
MainCalls ==
    \/ \E t \in Task : StopTask(t) \/ PollTask(t)
    \/ \E S \in SUBSET Task, x \in 0 .. Others :
         \E n \in 1 - Cardinality({t \in Task : mstate[t] = "completed"})
                    .. Cardinality(S) + x : WaitTasks(S, n, x)

\* What the main process does inside a call.
MainSteps ==
    \/ Connect \/ WaitReceive \/ ElsewhereReceive \/ WaitEnd
    \/ ReadResultsSent \/ WaitDrain \/ WaitReturn \/ PollReply \/ PollResult

SupervisorSteps ==
    \/ Reserve \/ OpenLink \/ SupervisorEnd
    \/ \E m \in 0 .. NTasks : FirstLeaves(m)
    \/ \E k \in Link : ReadComputed(k) \/ ReadEnded(k)
    \/ StopWaiting \/ StopAndReopen \/ StopAndClose
    \/ ServeWait \/ EndWait \/ ServePoll \/ GotAndRelaunch \/ GotAndClose

Grandchild(k) ==
    BeginTask(k) \/ Announce(k) \/ WriteIndex(k) \/ WriteResult(k) \/ EndTask(k)

\* Nothing is left to do: no task of this call is 'started'.
Finished ==
    /\ spc = "done" /\ mpc = "idle"
    /\ \A t \in Task : mstate[t] # "started"
    /\ UNCHANGED vars

Next ==
    \/ StartTasks \/ MainCalls \/ MainSteps
    \/ SupervisorSteps
    \/ \E m \in 1 .. NTasks : MoreLeaves(m)
    \/ \E k \in Link : Grandchild(k)
    \/ Finished

Spec == Init /\ [][Next]_vars

\* Every process runs on, a task's computation ends, and a semaphore that stays
\* free is acquired.  Nothing is assumed of the leaves: no other supervisor has
\* to return one, so MoreLeaves has no fairness; nor has the user to call.
Fairness ==
    /\ WF_vars(MainSteps)
    /\ WF_vars(SupervisorSteps)
    /\ \A k \in Link : WF_vars(Grandchild(k))

FairSpec == Spec /\ Fairness

-----------------------------------------------------------------------------
TaskRequests ==
    [code : {"stop", "poll", "got"}, id : Task, ids : {{}}, n : {0}]
WaitRequests == [code : {"wait"}, id : {0}, ids : SUBSET Task, n : Int]

MainTypes ==
    /\ mstate \in [Task -> {"created", "started", "completed", "stopped"}]
    /\ result \in [Task -> Task \cup {0}]
    /\ mpc \in {"new", "starting", "idle", "wait", "ending", "drain", "poll",
                "pollresult"}
    /\ asked \in SUBSET Task /\ promised \in SUBSET Task
    /\ need \in Int /\ elsewhere \in Nat /\ results_got \in Nat /\ sent \in Int

ChannelTypes ==
    /\ toSup \in Seq(TaskRequests \cup WaitRequests)
    /\ toMain \in Seq(Int)
    /\ sock \in Seq([kind : {"index", "result"}, task : Task \cup {0}])

SupervisorTypes ==
    /\ spc \in {"none", "reserve", "accept", "run", "done"}
    /\ state \in [Task -> -1 .. 3]
    /\ queue \in Seq(Task)
    /\ assignment \in [Task -> Int]
    /\ nwaiting \in Nat /\ nfinished \in Int /\ nlinks \in Int /\ opening \in Nat
    /\ demanded \in SUBSET Task /\ ndemanded \in Int /\ results_sent \in Nat
    /\ granted_leaves \in Nat /\ held \in Int

ProcessTypes ==
    /\ gpc \in [Link -> {"none", "idle", "compute", "await", "write", "release"}]
    /\ gtask \in [Link -> Task \cup {0}]
    /\ down \in [Link -> Seq(Task \cup {Go})]
    /\ up \in [Link -> Seq(Task \cup {Ended})]
    /\ sem_write \in Link \cup {0}

\* Every variable has its type.
TypeOK == MainTypes /\ ChannelTypes /\ SupervisorTypes /\ ProcessTypes

Live == {t \in Task : state[t] \in {1, 2}}        \* tasks that hold a link

\* A task that is 'completed' holds its own result, although all grandchildren
\* write to one socket and pollTask does not look at the index it reads.
ResultIntegrity == \A t \in Task : mstate[t] = "completed" => result[t] = t

\* sem_write is held exactly by the one grandchild that is writing a result,
\* even when processes are killed: the two writes of a result stay together.
WriteExclusive ==
    \A k \in Link : gpc[k] \in {"write", "release"} <=> sem_write = k

\* A grandchild never takes a go-ahead for a call nor a call for a go-ahead, and
\* what it announces is the task its supervisor believes to run on that link.
LinkProtocol ==
    \A k \in Link :
        /\ down[k] # <<>> /\ gpc[k] = "idle" => Head(down[k]) # Go
        /\ down[k] # <<>> /\ gpc[k] = "await" => Head(down[k]) = Go
        /\ \A i \in 1 .. Len(up[k]) : up[k][i] # Ended =>
             state[up[k][i]] = 1 /\ assignment[up[k][i]] = k

\* Between two calls nothing is left on the links to the main process, and no
\* grandchild is writing or about to write a result that nobody would read.
QuietWhenIdle ==
    mpc = "idle" =>
        /\ sock = <<>> /\ toMain = <<>>
        /\ \A k \in Link :
             ~(gpc[k] = "write" \/ (gpc[k] = "await" /\ down[k] # <<>>))

\* The counters and lists of startTasks_child agree with the internal states:
\* queue lists the waiting tasks, links are held by the started and computed
\* ones, one each, and there are never more links to open than tasks to run.
\* ndemanded, capped at the call and counted down apart from demanded_tasks,
\* never exceeds it.  When no request is under way, the internal states agree
\* with the global ones.
CountersAgree ==
    /\ nwaiting = Cardinality({t \in Task : state[t] = 0})
    /\ nfinished = Cardinality({t \in Task : state[t] \in {-1, 3}})
    /\ Len(queue) = nwaiting
    /\ Elems(queue) = {t \in Task : state[t] = 0}
    /\ opening <= nwaiting
    /\ nlinks = Cardinality({k \in Link : gpc[k] # "none"})
    /\ nlinks = Cardinality(Live)
    /\ {assignment[t] : t \in Live} = {k \in Link : gpc[k] # "none"}
    /\ \A t \in Task \ Live : assignment[t] = 0
    /\ ndemanded <= Cardinality(demanded)
    /\ spc \in {"run", "done"} /\ mpc = "idle" /\ toSup = <<>> =>
         \A t \in Task :
            mstate[t] = CASE state[t] \in 0 .. 2 -> "started"
                          [] state[t] = 3 -> "completed"
                          [] state[t] = -1 -> "stopped"

\* The supervisor holds a leaf for every link beyond the granted ones, hence
\* none when it ends: sem_leaves neither leaks nor grows.
LeavesBalanced ==
    held = IF nlinks + opening > granted_leaves
           THEN nlinks + opening - granted_leaves ELSE 0

\* "should not happen": a request for a task that is stopped or already sent,
\* or an acknowledgement of a result that was not sent.
NoStrayRequest ==
    toSup # <<>> =>
        LET m == Head(toSup)
        IN  /\ m.code \in {"stop", "poll"} => state[m.id] \in 0 .. 2
            /\ m.code = "wait" => \A t \in m.ids : state[t] \in 0 .. 2
            /\ m.code = "got" =>
                 state[m.id] = 2 /\ gpc[assignment[m.id]] \in {"release", "idle"}

\* The supervisor does not end while the main process will still talk to it or
\* expects a reply or a result.
NeverAbandoned ==
    spc = "done" =>
        /\ toSup = <<>>
        /\ mpc \notin {"wait", "poll", "pollresult"}
        /\ mpc = "ending" => toMain # <<>>
        /\ mpc = "drain" => sent <= results_got
        /\ \A t \in Task : mstate[t] # "started"

\* "Polling is guaranteed": when waitTasks or pollTask returns, every task asked
\* for whose result was computed at the call is completed.
PollGuarantee ==
    [][mpc # "idle" /\ mpc' = "idle" =>
         \A t \in promised : mstate'[t] = "completed"]_vars

\* A call without timeout returns, even if no other leaf ever becomes free.
CallsReturn == mpc \notin {"new", "idle"} ~> mpc = "idle"

\* A supervisor none of whose tasks is 'started' any more comes to its end.
SupervisorEnds ==
    (spc = "run" /\ \A t \in Task : mstate[t] # "started") ~> spc = "done"

-----------------------------------------------------------------------------
\* The procedure that is running, and the tasks pollTask would return 1 for.
Procedure ==
    CASE mpc \in {"new", "idle"} -> "none"
      [] mpc = "starting" -> "start"
      [] mpc \in {"wait", "ending", "drain"} -> "wait"
      [] mpc \in {"poll", "pollresult"} -> "poll"
Available == {t \in Task : state[t] \in {2, 3}}

Lifecycle == INSTANCE TaskLifecycle WITH
    status <- mstate,
    value <- result,
    computed <- Available,
    call <- Procedure

\* The protocol implements the promises made to the user of tasks.lib.
ImplementsLifecycle == Lifecycle!Spec
=============================================================================
