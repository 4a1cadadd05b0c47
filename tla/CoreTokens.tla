------------------------------ MODULE CoreTokens ------------------------------
(***************************************************************************)
(* The tokens of the semaphores sem_cores and sem_queue, which all         *)
(* processes of a Singular session share.                                  *)
(*                                                                         *)
(* A grandchild (startTasks_grandchild in tasks.lib) computes while it has *)
(* acquired sem_cores, and may start tasks itself and wait for them, during *)
(* which it gives its core back.  sem_queue admits few new processes to    *)
(* those waiting for sem_cores.  Any process may be ended at any time by   *)
(* ssiClose: quit message, SIGTERM, SIGKILL.  Each process counts in       *)
(* sem_acquired what m2_end has to post when it ends; semaphore.c defers   *)
(* SIGTERM while semaphore and count disagree.                             *)
(*                                                                         *)
(* The supervisors between the processes hold none of these tokens; what   *)
(* they relay is an effect of the process they do it for.  A call of       *)
(* acquire or release that the library loops over is one call here.        *)
(***************************************************************************)
EXTENDS Integers, FiniteSets

CONSTANTS
    Proc,         \* the grandchildren
    Main,         \* the main process
    Parent,       \* the process that a grandchild computes a task for
    NCores,       \* system("--cpus")
    QueueSlots,   \* 2 in mod_init of tasks.lib
    MaxCores,     \* bound of addcores
    Slow,         \* TRUE iff a process may wait more than 5 s for a semaphore
    Timed,        \* the processes that may call waitTasks with a timeout
    Subtree       \* ncores of a call of parallelWaitN, 0 if it is not given

Sems == {"cores", "queue"}
All == Proc \cup {Main}

ASSUME ParamAssumption ==
    /\ IsFiniteSet(Proc) /\ Main \notin Proc
    /\ Parent \in [Proc -> All]
    /\ NCores \in Nat \ {0} /\ QueueSlots \in Nat \ {0} /\ MaxCores \in Nat
    /\ Slow \in BOOLEAN /\ Timed \subseteq All
    /\ Subtree \in Nat

VARIABLES
    sem,           \* values of the semaphores
    acquired,      \* sem_acquired of every process
    pc,            \* where a process is in its program, see below
    step,          \* where it is within an acquire or release
    do_shutdown,   \* SIGTERM was received
    closing,       \* how far ssiClose got with the link to a grandchild
    ncores,        \* NCORES of resources.lib
    saved          \* NCORES saved by setcores_subtree, or 0

vars == <<sem, acquired, pc, step, do_shutdown, closing, ncores, saved>>

(***************************************************************************)
(* A program is a sequence of semaphore calls, named after their purpose.  *)
(* "compute" is the computation of a task (of the user in case of Main),   *)
(* "nested" the blocking waitfirst of waitTasks and "await" the read in    *)
(* which a grandchild waits for the go-ahead after its task is done.       *)
(***************************************************************************)
Acquires == [enqueue |-> "queue", wantcore |-> "cores",  \* startTasks_grandchild
             regain |-> "cores",                         \* waitTasks
             lesscores |-> "cores"]                      \* addcores(-1)
Releases == [dequeue |-> "queue", finish |-> "cores",    \* startTasks_grandchild
             yield |-> "cores",                          \* waitTasks
             morecores |-> "cores"]                      \* addcores(1)
After == [enqueue |-> "wantcore", wantcore |-> "dequeue", dequeue |-> "compute",
          finish |-> "await", yield |-> "nested", regain |-> "compute",
          lesscores |-> "compute", morecores |-> "compute"]

\* Faulty: with its core back, waitTasks waits again before it reads a result.
WaitsAgain(label) == IF label = "regain" THEN "yield" ELSE After[label]
Following(label) == After[label]

Labels == DOMAIN After \cup {"new", "compute", "nested", "await", "gone"}

None == [s \in Sems |-> 0]
Children(p) == {c \in Proc : Parent[c] = p}
Alive(p) == pc[p] \notin {"new", "gone"}

Init ==
    /\ sem = [s \in Sems |-> IF s = "cores" THEN NCores - 1 ELSE QueueSlots]
    /\ acquired = [p \in All |-> None]
    /\ pc = [p \in All |-> IF p = Main THEN "compute" ELSE "new"]
    /\ step = [p \in All |-> "run"]
    /\ do_shutdown = [p \in All |-> FALSE]
    /\ closing = [p \in Proc |-> "no"]
    /\ ncores = NCores
    /\ saved = 0

-----------------------------------------------------------------------------
(* Shutdown.                                                               *)

\* Faulty: one token too many is posted.
PostedOneMore(acq) ==
    [s \in Sems |-> IF acq[s] > 0 THEN sem[s] + acq[s] + 1 ELSE sem[s]]
Posted(acq) == [s \in Sems |-> IF acq[s] > 0 THEN sem[s] + acq[s] ELSE sem[s]]

\* m2_end of process p, whose sem_acquired is acq by then: it posts what it has
\* acquired and closes its links, that is, has its own grandchildren closed.
M2End(p, acq) ==
    /\ sem' = Posted(acq)
    /\ acquired' = [acquired EXCEPT ![p] = None]
    /\ pc' = [pc EXCEPT ![p] = "gone"]
    /\ step' = [step EXCEPT ![p] = "run"]
    /\ closing' = [c \in Proc |->
         IF c \in Children(p) /\ Alive(c) /\ closing[c] = "no"
         THEN "quit" ELSE closing[c]]

\* Faulty: defer_shutdown is never decremented.
AlwaysDeferred(p) == TRUE
\* Faulty: SIGTERM is not deferred.
NeverDeferred(p) == FALSE
\* defer_shutdown > 0
Deferred(p) == step[p] # "run"

-----------------------------------------------------------------------------
(* semaphore.c: what is done between defer_shutdown++ and defer_shutdown-- *)
(* can be interrupted, but not ended, by SIGTERM.                          *)

BeginAcquire(p) ==
    /\ pc[p] \in DOMAIN Acquires /\ step[p] = "run"
    /\ step' = [step EXCEPT ![p] = "wait"]
    /\ UNCHANGED <<sem, acquired, pc, do_shutdown, closing, ncores, saved>>

SemWait(p) ==
    /\ step[p] = "wait" /\ sem[Acquires[pc[p]]] > 0
    /\ sem' = [sem EXCEPT ![Acquires[pc[p]]] = @ - 1]
    /\ step' = [step EXCEPT ![p] = "got"]
    /\ UNCHANGED <<acquired, pc, do_shutdown, closing, ncores, saved>>

\* defer_shutdown-- after a call of the semaphores: a SIGTERM that came in the
\* meantime takes effect, else p goes on.
Leave(p, acq) ==
    IF do_shutdown[p] THEN M2End(p, acq)
    ELSE /\ acquired' = [acquired EXCEPT ![p] = acq]
         /\ pc' = [pc EXCEPT ![p] = Following(@)]
         /\ step' = [step EXCEPT ![p] = "run"]
         /\ UNCHANGED <<sem, closing>>

EndAcquire(p) ==
    /\ step[p] = "got"
    /\ Leave(p, [acquired[p] EXCEPT ![Acquires[pc[p]]] = @ + 1])
    /\ ncores' = IF pc[p] = "lesscores" THEN ncores - 1 ELSE ncores
    /\ UNCHANGED <<do_shutdown, saved>>

SemPost(p) ==
    /\ pc[p] \in DOMAIN Releases /\ step[p] = "run"
    /\ sem' = [sem EXCEPT ![Releases[pc[p]]] = @ + 1]
    /\ step' = [step EXCEPT ![p] = "posted"]
    /\ UNCHANGED <<acquired, pc, do_shutdown, closing, ncores, saved>>

\* Faulty: a release is not counted.
UncountedNot(p) == acquired[p]
Uncounted(p) == [acquired[p] EXCEPT ![Releases[pc[p]]] = @ - 1]

EndRelease(p) ==
    /\ step[p] = "posted"
    /\ Leave(p, Uncounted(p))
    /\ ncores' = IF pc[p] = "morecores" THEN ncores + 1 ELSE ncores
    /\ UNCHANGED <<do_shutdown, saved>>

-----------------------------------------------------------------------------
(* What a process does while it computes.                                  *)

Goto(p, label) ==
    /\ pc' = [pc EXCEPT ![p] = label]
    /\ UNCHANGED <<sem, acquired, step, do_shutdown, closing, ncores, saved>>

\* Faulty: a forked process takes the tokens of its parent for its own.
CountInherited(p) == acquired[p]
\* fork in ssiOpen: the child has acquired nothing.
CountAfterFork(p) == None

\* startTasks: the grandchildren of p come to their first semaphore.
StartTasks(p) ==
    /\ pc[p] = "compute" /\ Children(p) # {}
    /\ \A c \in Children(p) : pc[c] = "new"
    /\ pc' = [q \in All |-> IF q \in Children(p) THEN "enqueue" ELSE pc[q]]
    /\ acquired' = [q \in All |-> IF q \in Children(p) THEN CountAfterFork(p)
                                                      ELSE acquired[q]]
    /\ UNCHANGED <<sem, step, do_shutdown, closing, ncores, saved>>

Awaited(p) == {c \in Children(p) : Alive(c) /\ closing[c] = "no"}
Ready(p) == \E c \in Awaited(p) : pc[c] = "await"

\* Faulty: waitTasks keeps the core.
BeforeWaitNested == "nested"
BeforeWait == "yield"

\* waitTasks finds no result on its links (waitfirst(links, 0)).
WaitTasks(p) ==
    /\ pc[p] = "compute" /\ Awaited(p) # {} /\ ~Ready(p)
    /\ Goto(p, BeforeWait)

\* The blocking waitfirst of waitTasks ends, with a result or, below, by its timeout.
Wake(p) ==
    /\ pc[p] = "nested" /\ Ready(p)
    /\ Goto(p, "regain")

TimedOut(p) ==
    /\ p \in Timed /\ pc[p] = "nested"
    /\ Goto(p, "regain")

\* The command is computed.
Computed(p) ==
    /\ p # Main /\ pc[p] = "compute"
    /\ Goto(p, "finish")

\* stopTask, or the acknowledgement of a result: the supervisor closes the link
\* to c, which begins with a quit message.
Close(p, c) ==
    /\ pc[p] = "compute" /\ c \in Awaited(p)
    /\ p = Main /\ saved > 0 => pc[c] = "await"   \* parallelWaitN stops nothing
    /\ closing' = [closing EXCEPT ![c] = "quit"]
    /\ UNCHANGED <<sem, acquired, pc, step, do_shutdown, ncores, saved>>

\* addcores(1), addcores(-1)
AddCores ==
    /\ pc[Main] = "compute" /\ saved = 0
    /\ \/ ncores < MaxCores /\ Goto(Main, "morecores")
       \/ ncores > 1 /\ Goto(Main, "lesscores")

\* parallelWaitN with ncores: setcores_subtree makes sem_cores of resources.lib
\* another semaphore.  tasks.lib goes on using its copy of the old one, so
\* nobody ever acquires the new one.
SetcoresSubtree ==
    /\ Subtree > 0 /\ saved = 0
    /\ pc[Main] = "compute" /\ \A c \in Children(Main) : pc[c] = "new"
    /\ saved' = ncores
    /\ ncores' = Subtree
    /\ UNCHANGED <<sem, acquired, pc, step, do_shutdown, closing>>

\* waitTasks returned, with a result or by its timeout.
ResetcoresSubtree ==
    /\ saved > 0
    /\ pc[Main] = "compute" /\ \A c \in Children(Main) : pc[c] # "new"
    /\ Main \in Timed \/ \E c \in Children(Main) : closing[c] # "no"
    /\ ncores' = saved
    /\ saved' = 0
    /\ UNCHANGED <<sem, acquired, pc, step, do_shutdown, closing>>

-----------------------------------------------------------------------------
(* ssiClose of the link to p, and what becomes of p.                       *)

\* p waits for the go-ahead and reads the quit message instead.
ReadQuit(p) ==
    /\ closing[p] # "no" /\ pc[p] = "await"
    /\ M2End(p, acquired[p])
    /\ UNCHANGED <<do_shutdown, ncores, saved>>

\* 100 ms later: kill(pid, 15), and sig_term_hdl in p
Terminate(p) ==
    /\ closing[p] = "quit" /\ Alive(p)
    /\ do_shutdown' = [do_shutdown EXCEPT ![p] = TRUE]
    /\ \/ /\ Deferred(p)
          /\ closing' = [closing EXCEPT ![p] = "term"]
          /\ UNCHANGED <<sem, acquired, pc, step>>
       \/ ~Deferred(p) /\ M2End(p, acquired[p])
    /\ UNCHANGED <<ncores, saved>>

\* 5 s later: kill(pid, 9).  Only a process that waits for a semaphore is still
\* there, and nobody posts what it had acquired.
KillNine(p) ==
    /\ Slow /\ closing[p] = "term" /\ step[p] = "wait"
    /\ closing' = [closing EXCEPT ![p] = "kill"]
    /\ pc' = [pc EXCEPT ![p] = "gone"]
    /\ step' = [step EXCEPT ![p] = "run"]
    /\ UNCHANGED <<sem, acquired, do_shutdown, ncores, saved>>

\* The parent of p was killed before it could close the link to p; its supervisor
\* may read the end of its own link and do it.
Orphaned(p) ==
    /\ pc[Parent[p]] = "gone" /\ Alive(p) /\ closing[p] = "no"
    /\ closing' = [closing EXCEPT ![p] = "quit"]
    /\ UNCHANGED <<sem, acquired, pc, step, do_shutdown, ncores, saved>>

-----------------------------------------------------------------------------
\* What p does without being told to.
Proceed(p) ==
    \/ BeginAcquire(p) \/ SemWait(p) \/ EndAcquire(p)
    \/ SemPost(p) \/ EndRelease(p)
    \/ Wake(p) \/ Computed(p)

\* What its parent's supervisor does to p.
Ending(p) == ReadQuit(p) \/ Terminate(p) \/ KillNine(p)

\* The user may compute for ever.
Computing == pc[Main] = "compute" /\ UNCHANGED vars

Next ==
    \/ \E p \in All : Proceed(p) \/ StartTasks(p) \/ WaitTasks(p) \/ TimedOut(p)
                        \/ \E c \in Proc : Close(p, c)
    \/ \E p \in Proc : Ending(p) \/ Orphaned(p)
    \/ AddCores \/ SetcoresSubtree \/ ResetcoresSubtree
    \/ Computing

Spec == Init /\ [][Next]_vars

\* Processes run on, computations end, a semaphore that stays free is acquired,
\* and ssiClose goes on.
Fairness ==
    /\ \A p \in All : WF_vars(Proceed(p))
    /\ \A p \in Proc : WF_vars(Ending(p))

FairSpec == Spec /\ Fairness

-----------------------------------------------------------------------------
TypeOK ==
    /\ sem \in [Sems -> Nat]
    /\ acquired \in [All -> [Sems -> Int]]
    /\ \A p \in Proc, s \in Sems : acquired[p][s] \in {0, 1}
    /\ pc \in [All -> Labels]
    /\ step \in [All -> {"run", "wait", "got", "posted"}]
    /\ do_shutdown \in [All -> BOOLEAN]
    /\ closing \in [Proc -> {"no", "quit", "term", "kill"}]
    /\ ncores \in Int /\ saved \in Int

\* The tokens a process has: those it counts, and the one it is just getting or
\* giving back.
Taking(p, s) == step[p] = "got" /\ Acquires[pc[p]] = s
Giving(p, s) == step[p] = "posted" /\ Releases[pc[p]] = s
Has(p, s) ==
    acquired[p][s] + (IF Taking(p, s) THEN 1 ELSE 0)
                   - (IF Giving(p, s) THEN 1 ELSE 0)
Holders(s) == {p \in Proc : Has(p, s) = 1}

\* The tokens of a process that was killed are not posted any more.
Lost(s) == {p \in Holders(s) : pc[p] = "gone"}

\* No core is lost or duplicated, whenever and however processes are ended: the
\* cores are free, held by a live grandchild or borrowed or lent by the main
\* process.
CoresConserved ==
    /\ sem["cores"] + Cardinality(Holders("cores")) + Has(Main, "cores") = NCores - 1
    /\ Lost("cores") = {}

\* sem_queue counts "the processes waiting for sem_cores with low priority": a
\* slot is free or held by a live process on its way to a core, and the only way
\* to lose one is the SIGKILL of a process that waited for its core too long.
QueueConserved ==
    /\ sem["queue"] + Cardinality(Holders("queue")) = QueueSlots
    /\ \A p \in Lost("queue") : closing[p] = "kill"

\* resources.lib: tasks.lib and what is built upon it "will not use more
\* computational resources than provided": at most NCORES processes, the main
\* process included, compute.  Within parallelWaitN this is NCORES of the caller:
\* its own obsolete argument ncores limits nothing, contrary to that sentence.
WithinCores ==
    Cardinality({p \in All : pc[p] = "compute"}) <= IF saved > 0 THEN saved ELSE ncores

\* A process that waits for the tasks it started has no core, and one that
\* computes has no slot of sem_queue: nobody waits for a token of a waiter.
NoHoldAndWait ==
    \A p \in Proc :
        /\ pc[p] \in {"nested", "await"} => \A s \in Sems : Has(p, s) = 0
        /\ pc[p] = "compute" => Has(p, "cores") = 1 /\ Has(p, "queue") = 0

\* waitTasks of the main process returns, although its tasks compete for cores
\* with each other and with tasks they started themselves; it need not if the last
\* slot of sem_queue was lost with a killed process.
MainReturns ==
    pc[Main] = "nested"
      ~> pc[Main] = "compute" \/ Cardinality(Lost("queue")) = QueueSlots

\* Every close comes to its end, also when the process waits for a semaphore.
CloseEnds == \A p \in Proc : closing[p] = "quit" ~> pc[p] = "gone"
=============================================================================
