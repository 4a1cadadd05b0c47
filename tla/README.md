# A verification development for Singular

This directory holds TLA+ models of the computer algebra system Singular -- its
parallel libraries and the links they use, the ring bookkeeping of its
interpreter, and data structures and algorithms of its kernel --, TLC
configurations that check them on small instances, and TLAPS proofs of some
of their invariants. The models are translations of the code
under `src/`; paths below are relative to it.

## 1. The system

Singular is an interpreter for polynomial computations (about 1.3 million lines,
of which the kernel and the interpreter are C++, and 266 000 lines are
procedures in Singular's own language under `Singular/LIB`). Its parts:

| part | code | state it keeps | operations |
|---|---|---|---|
| task framework | `Singular/LIB/tasks.lib` | the table `tasks` of the main process; per `startTasks` a supervisor process with `state`, `queue`, `assignment`, counters; semaphores `sem_leaves`, `sem_queue`, `sem_cores`, `sem_write` | createTask, killTask, copyTask, startTasks, stopTask, waitTasks, pollTask, getResult, ... |
| resources, parallel | `Singular/LIB/resources.lib`, `parallel.lib` | `sem_cores`, `NCORES` | addcores, setcores, semaphore; parallelWaitN and its wrappers over tasks.lib |
| semaphores | `Singular/links/semaphore.c` | POSIX semaphores, `sem_acquired` per process | init, acquire, try_acquire, release |
| shutdown | `Singular/misc_ip.cc` (m2_end), `Singular/cntrlc.cc` | `defer_shutdown`, `do_shutdown`, `m2_end_called` | SIGTERM handler, exit routine that posts held semaphores and closes links |
| link layer | `Singular/links/silink.cc`, `silink.h` | `si_link` with flags and reference count | open, close, read, write, copy, kill |
| ssi links | `Singular/links/ssiLink.cc` | `ssiInfo` (pid, file descriptors, ring), list `ssiToBeClosed` | fork/tcp/connect open, close with escalation 99 / SIGTERM / SIGKILL, SIGCHLD handler |
| waiting for links | `ssiLink.cc` (slStatusSsiL), `Singular/iparith.cc` (jjWAIT...) | descriptor masks, remaining timeout | waitfirst, waitall |
| buffered reader | `libpolys/reporter/s_buff.cc` | buffer, position, end, eof flag | s_getc, s_readint, s_ungetc, s_isready, ... |
| input stack | `Singular/fevoices.cc` | the stack of Voices | newBuffer, exitBuffer, exitVoice, contBuffer |
| identifiers | `Singular/ipid.cc`, `Singular/ipshell.cc` | lists of identifiers by level, packages | enterid, killhdl, killlocals, export |
| interpreter, types | `Singular/grammar.y`, `iparith.cc`, `newstruct.cc`, `blackbox.cc`, `countedref.cc`, `iplib.cc` | parse and value stacks | evaluation |
| memory | `omalloc` | bins, pages, regions, sticky bins | alloc, free |
| numbers | `libpolys/coeffs` | immediate and heap numbers | arithmetic, normalisation |
| polynomials, rings | `libpolys/polys` | monomials, kbuckets, rings with reference count | arithmetic |
| standard bases | `kernel/kutil.cc`, `kstd1.cc`, `kstd2.cc`, `tgb.cc` | strategy: S, T, L, B sets | Buchberger's algorithm and its variants |
| monomial ideals | `kernel/hutil.cc`, `hdegree.cc`, `hilb.cc` | exponent vectors, pure powers | dimension, multiplicity, basis, Hilbert series |

How they interact in a parallel computation: the *main process* runs library code
in the interpreter; `startTasks` opens an `ssi:fork` link, i.e. forks a
*supervisor* that runs `startTasks_child` and forks *grandchildren*, one per link
`ll(pid)(k)`, that compute. The processes share nothing but links (FIFO byte
streams) and semaphores. Supervisor and main process use the link `l(pid)` in both
directions; all grandchildren write their results to one socket `L(pid)` that the
main process reads. Closing a link terminates the process at its other end: first by
a quit message, then by SIGTERM, whose handler posts the semaphores the process
holds, and in the end by SIGKILL.

What is hard here, and the properties that make each part correct:

* **The protocol of three kinds of processes.** Requests of the main process
  cross announcements of grandchildren; a stop kills a process that may just be
  writing; results come back on another channel than the answers. Correct: a
  completed task has its own result, no message is left over for the next call,
  nobody waits for ever, the bookkeeping of the supervisor stays consistent.
* **Leaves.** `sem_leaves` bounds the processes of all supervisors, except for
  granted leaves that prevent deadlock. Correct: what is acquired is released.
* **Cores.** `sem_cores` and `sem_queue` are acquired and released by processes
  that may be killed at any time, at any nesting depth of tasks within tasks.
  Correct: no token is lost or duplicated.
* **Waiting with timeouts**, end of file and data in buffers and kernel at once.
  Correct: a ready link is reported, a timeout is neither early nor late.
* **Lifetime of links** under fork, crash, SIGCHLD and SIGTERM. Correct: nothing
  freed is used, no child is forgotten.
* **Rings** are counted by hand, shared by identifiers, values, links and processes, and
  pointed to by `currRing` without being counted. Correct: counts are exact, a caller
  gets its basering back, both ends of a link mean the same ring.
* **Data structures of the kernel with long histories**: the sets S, T, L, B of a
  standard basis computation, geobuckets, immediate integers at their border.
  Correct: sorted, complete, exact after any sequence of operations.
* **Algorithms that cut arrays in place**: the staircase of a monomial ideal.
  Correct: dimension, basis and series agree with the standard monomials.
* Voices of the input, bins of omalloc: not modelled yet.

## 2. The plan

Ordered by what a failure would cost a user and how little of it a test can reach:

1. `TaskLifecycle`, `TaskSupervisor`, `TaskSupervisorProofs` (**done**): the
   protocol of `tasks.lib`, its abstract specification, the first theorems.
2. `CoreTokens`, `CoreTokensProofs` (**done**): tokens are conserved under every kill.
3. `TaskQueue`, `WaitingList`, `TaskPriority`, `TaskQueueProofs` (**done**): the vectors of
   the supervisor refine the list and the set that `TaskSupervisor` takes them for.
4. `SsiLinks` (**done**): open, close, `ssiToBeClosed`, the SIGCHLD handler, `m2_end`.
5. `SBuff`, `SsiStream`, `WaitLinks` (**done**): the buffered reader, tokens cut by the
   kernel, `slStatusSsiL` with waitfirst and waitall.
6. `SsiRings`, `Basering` (**done**): rings on a link, and under the procedures of the
   interpreter.
7. `StandardPairs`, `Positions`, `KBuckets`, `Longrat`, `Staircase`, `Hilbert`
   (**done**): the kernel, each part against a reference definition.
8. Left: `TaskTable` (createTask, copyTask, killTask and several supervisors over the
   list `tasks`), `Voices` (fevoices.cc), `OmBins` (omalloc), the encoding of the other
   types on an ssi link, the reference counts of links.
9. Proofs (**done**): the inductive invariant of the whole protocol with ResultIntegrity,
   LinkProtocol, CountersAgree and the rest for every number of tasks, the refinement of
   `TaskLifecycle`; the refinement of `WaitingList` by `TaskQueue`; `LinksSafe` of `SsiLinks`; `RingsSafe` and `AnswerInBasering` of
   `SsiRings`; the safety of `WaitLinks`; `IntactUnlessEof` of `SsiStream`; `Covered` and `PairsSafe` of `StandardPairs`.
10. Proofs left: `CountsOwners` and `BaseringLives` of `Basering`, which need the commands
   stated without `FoldLeft`; the position bounds of `Positions`; the lengths of `KBuckets`.

## 3. The modules

### TaskSupervisor

One call `startTasks(t1, ..., tn)` and everything the user may do with its tasks
afterwards. State, in the order of the declaration:

| variables | code |
|---|---|
| `mstate`, `result` | `tasks[i].state`, `tasks[i].result` of the main process (the value of a result is the id of the task it was computed for) |
| `mpc`, `asked`, `need`, `elsewhere`, `results_got`, `sent` | the call in progress in the main process and its local variables (`need` is `N - ncompleted`) |
| `promised` | history variable: tasks of the call already computed when it was made |
| `toSup`, `toMain` | the link `l(pid)`, one queue per direction |
| `sock` | the socket `L(pid)` |
| `spc`, `state`, `queue`, `assignment`, `nwaiting`, `nfinished`, `nlinks`, `opening`, `demanded`, `ndemanded`, `results_sent`, `granted_leaves` | the variables of `startTasks_child`; `queue` is the part from `next` on, `opening` is `-wait`, `demanded` the live part of `demanded_tasks` |
| `held` | `sem_acquired[sem_leaves]` of the supervisor |
| `gpc`, `gtask`, `down`, `up`, `sem_write` | grandchildren, by link, with the two directions of `ll(pid)(k)` |

An action is one handler: of the main process everything up to its next blocking
read (`StartTasks`, `Connect`, `StopTask`, `WaitTasks`, `WaitReceive`, `WaitEnd`,
`ReadResultsSent`, `WaitDrain`, `WaitReturn`, `PollTask`, `PollReply`, `PollResult`);
of the supervisor one round of its two loops, i.e. one `waitfirst` and the branch
taken (`FirstLeaves`, `MoreLeaves`, `OpenLink`, `ReadComputed`, `ReadEnded`,
`StopWaiting`, `StopAndReopen`, `StopAndClose`, `ServeWait`, `EndWait`, `ServePoll`,
`GotAndRelaunch`, `GotAndClose`, `SupervisorEnd`); of a grandchild what lies between
two interactions (`BeginTask`, `Announce`, `WriteIndex`, `WriteResult`, `EndTask`).
A stop that kills a process is one step for the supervisor, which waits for the
process to be gone; the grandchild may be in any state then, holding `sem_write` or not.
A request of several writes is one message, because its reader blocks until it is
complete and nobody else writes to that link; the two writes of a result are two steps.

`waitfirst` may report any ready link; the code prefers some, so the model has more
behaviours than the code there. The tasks of a call are a set: the order in which the
caller lists them shows only in the order `give_priority` gives the preferred tasks,
which the model leaves open.

### TaskLifecycle

What `tasks.lib` promises its user: a task goes from created to started to
completed or stopped; a result arrives only for a computed task, only during a call
that waits or polls, and belongs to that task. `TaskSupervisor` implements it under
the mapping at its end (`ImplementsLifecycle`).

The supervisor's guard `ndemanded > 0 && removeDemanded(id)` calls `removeDemanded`
in every case, because `&&` evaluates both operands (`jjAND_I`, iparith.cc:1349);
`ReadComputed` therefore drops `id` from `demanded` also when no go-ahead is due.

### TaskInvariant, TaskSupervisorProofs

The theorems about `TaskSupervisor`, see section 5. `TaskInvariant` states the inductive
invariant of the whole protocol, in a module without proofs so that TLC can check it.
`TaskSupervisorProofs` has the types, `sem_leaves` and `sem_write`, the
part about links and the socket, the steps of the supervisor, of the main process and
of the grandchildren, and what follows: the safety properties and the refinement of
`TaskLifecycle`.

### TaskPriority, WaitingList, TaskQueue, TaskQueueProofs

`TaskSupervisor` treats `queue` as the sequence of waiting tasks and `demanded_tasks` as
a set. The code keeps vectors: `queue` with a position `next`, cut to
`queue[next..size(queue)]` only when a wait or a poll moves tasks to the front, and
`demanded_tasks` in reversed order with `demanded_tasks_index` and zeros behind it.
`TaskQueue` models these vectors: `give_priority` with its search that wraps
around and blanks, `removeDemanded` with its shift by slices, and every place of the
supervisor that uses them. Links and processes are left out, so an action is a branch of
the supervisor's loops for a task in a given state, and the calls of the main process
come one at a time. `WaitingList` is the same with a list and a set, using the operator
`GivePriority` of `TaskPriority` that `TaskSupervisor` uses as well; `TaskQueue`
implements it (`ImplementsWaitingList`), which justifies that abstraction.
`Repeats` admits calls that list a task twice; what happens after such a call has
spoiled `queue` is not modelled (the run ends there).

### CoreTokens, MCCoreTokens, CoreTokensProofs

The tokens of `sem_cores` and `sem_queue` over a whole tree of processes: the main
process, its grandchildren, and grandchildren of grandchildren (`Parent`). A process is a
program of semaphore calls (`Acquires`, `Releases`, `After`); each call has its two halves,
the semaphore operation and the update of `sem_acquired`, and SIGTERM may come in
between. State:

| variables | code |
|---|---|
| `sem` | the POSIX semaphores with the indices `sem_cores`, `sem_queue` |
| `acquired` | `sem_acquired` of each process, negative in the main process while it has lent its core |
| `pc`, `step` | where the process is in `startTasks_grandchild`, `waitTasks` or `addcores`, and in a call of semaphore.c; `step # "run"` is `defer_shutdown > 0` |
| `do_shutdown` | the flag of the SIGTERM handler |
| `closing` | how far `ssiClose` of the link to the process has come |
| `ncores`, `saved` | `NCORES` of resources.lib and the value saved by `setcores_subtree` |

`Terminate` is SIGTERM with its handler, `M2End` the exit routine, which posts what is
counted and has the children of the process closed in turn; `KillNine` is SIGKILL after
5 s, after which the process is gone with what it had acquired (`Lost`). Only a process
blocked in `sem_wait` is taken to last 5 s: a computing one ends at
SIGTERM. The supervisors between the processes hold none of these tokens and are left
out; their part in a close is an effect of the process they act for. After a SIGKILL the
children of the killed process live on, as they do in the system, unless their supervisor
reads the end of its link and closes theirs (`Orphaned`). `Wake` is the end of the
`waitfirst` of `waitTasks` when a result is there, `TimedOut` its end by a timeout. The
user's calls `addcores(1)` and `addcores(-1)` change the number of cores at run time,
which stands for other arguments too, since `addcores` is a loop over single
acquires and releases; `SetcoresSubtree` and `ResetcoresSubtree` are what `parallelWaitN` does with its last
argument. `MCCoreTokens` gives a tree of three processes; the theorems are in
`CoreTokensProofs`.

### SBuff, SsiStream, MCSsiStream, SsiStreamProofs

`SBuff` is the buffered reader of s_buff.cc: the record of one `s_buff` (`buff`, `bp`,
`end`, `is_eof`) and what the kernel holds for its descriptor. `s_getc`, `s_ungetc`,
`s_isready`, `s_iseof` are operators from record to record, the end of the file read as
the character -1 as in the code. `SsiStream` has a writer whose bytes arrive in fragments
and who may die after any of them, and a reader that takes numbers (`s_readint`) and
strings (`ssiReadString`) a byte at a time, so that a read that would sleep is a disabled
action. `r` and `neg` are the variables of `s_readint`, `part` the bytes of the string so far.
The bytes are the digits, the sign, white space, the character -1 and two letters that stand
for all others. The writer's bytes are computed from the items: `Decimal` is the `%d` of
`ssiWriteInt`, `Encoded` an item, `Stream` all of them. An item is an int of
`-IntMax .. IntMax` or a string of at most `IntMax` bytes. The least int, which has no
negative, is left out: `s_readint` reads the digits before it applies the sign, so it would
overflow on it.

### WaitLinks, MCWaitLinks

One call of waitfirst or waitall after another on a list of links, each with its own
`s_buff`, its pipe and the other end that answers and closes. `Scan` is
the part of `slStatusSsiL` up to `select`, `SelectReady` and `SelectTimeout` its return,
`Char` the look at one byte, which goes back to `select` if it was white space and drops the
link if it was the end of file; what the callers jjWAIT1ST and jjWAITALL do with its
value is `StatusReturns`, the correction of the timeout of waitall included. Time is counted in microseconds with small
`Milli` and `Second`, and the clock of the code has a resolution of a
second, as `time` and `getRTimer` have. Timeouts are 32 bit: `Int32`. `StartRead` and
`ReadByte` are the caller's read between calls, which leaves the buffer in every state.
`WaitLinksProofs` has the theorems.

### SsiLinks

One interpreter with several link variables. `infos` and `nodes` are the allocated
`ssiInfo` structures and nodes of `ssiToBeClosed`; the n-th open allocates number n of
each, so that a use after free is a number outside the set. The interpreter's steps are
those between which a signal may come: `Open`, `Push`, `Fork`, `SetPid`, `Read`,
`ReadReturns`; `CloseStarts`, `Reap`, `Unlink` or `UnlinkFirst` and `Walk`, `Free`,
`Closed` for `ssiClose`; `m2_end`, `slPrepClose`, `KillIdentifier`, `CloseRest` for the exit. `Sigchld` is
the whole of `sig_chld_hdl`, which runs to its end but at any of these points;
`sig_term_hdl` sets `do_shutdown` or starts `m2_end`, depending on `defer_shutdown`. `slPrepClose`
is the first loop of `m2_end` (misc_ip.cc:1089-1095), which walks the list while the handler still
closes links. It sends nothing: `slPrepClose` calls `PrepClose` of the link's type if there is one
(silink.cc:237), and `slInitSsiExtension` (ssiLink.cc:1517-1532) fills in none for ssi in a record
that is allocated zeroed (silink.cc:427, ssiLink.cc:1867), so `ssiPrepClose` (ssiLink.cc:1148) is
never called. No child is therefore told to end in that loop; one that dies there unasked is a use
after free (section 6). `Crash`
says when children may die without being asked: never, wherever the interpreter holds nothing
that the handler frees, or at any moment. `Held` lists where it does hold something:
the old head of the list before the new node is pushed, the child it has forked but whose pid is
not stored, the ssiInfo it reads from, a node while ssiClose or the first loop of `m2_end` walks
the list. What the handler reaches along the list is
`Reachable`, the least set that has the first node and whatever a node of it links to; it
is stated without recursion, and it is defined for a list that has become circular
as well. `SsiLinksProofs` has the theorems.

### SsiRings

Client and forked server, or a client and a file, with the rings in their memory, the
reference count of each (starting at 0, as in the code), the ring `d->r` of the link, and
the basering. A message is what one command writes: the tag 15 with a
ring when the writer's `d->r` is not the polynomial's ring, then the bare
monomials. `Request`, `Serve` and `ReadAnswer` are whole commands. `SetBasering` is a
`setring` of the client, which may come at any time, also while an answer is on its way;
`moved` remembers that one did. `Close` discards what is on its way. Rings are known by
their class under `rEqual`, besides their identity in one process. `ReadAsWritten` says what
the reader of a bare polynomial will take it for: `RingBefore`, the ring of the message
before it, or that of the reader's end of the link. `SsiRingsProofs` has the theorems.

### StandardPairs, Subsequences, MCStandardPairs, StandardPairsProofs

The pairs of Buchberger's algorithm (`bba` over a field, global ordering) for polynomials
that come in any order with any leading monomial of `Leads` that is not yet in the
leading ideal. State: `lead` and `ecart` of what has entered, `S`, `L`, `B`, the pairs
`treated` (a ghost: reduced, or cancelled by the product criterion), and the loop variables
`i`, `j`, `order` of `chainCritNormal`, whose loops are actions because they delete from
the list they run over: `BestStep` and `BestNext` for the loop of the Gebauer and sugar modes,
`ModifyOuter` and `ModifyInner` for that of the plain mode, which first merges B into L.
Reduction is left open: a pair gives zero or any new leading monomial. What a loop with
`deleteInL` leaves of B is a `Subsequence` of it: its elements at the indices that stay, in
their order. `Subsequences` defines this by the places of these indices instead of by a
recursion along the sequence, so that it can be proved about. `MaxPolys` bounds the
polynomials, and `SugarPolys`, at most as large, those of the sugar mode.
`StandardPairsProofs` has the theorems.

### Positions, KBuckets, Longrat, Staircase, Hilbert

Five sequential parts of the kernel. `Positions` writes the bisection of the posIn*
functions once (`Search`) and each function as its test against the last
element, its test in the loop and its test at the end; `enterL` and `deleteInL`
build and cut the array. `KBuckets` has the operations of kbuckets.cc on polynomials in one variable
over Z/n beside the plain polynomial `value`. `Longrat` has the operations of longrat.cc on
immediate integers of `Width - 3` bits, integer and fraction objects, beside the rational
`value`. `Staircase` translates the recursions of hutil.cc, hdegree.cc and
scIndIndset of ipshell.cc, over a set of monomial generators that `hInit` builds one by one;
`Hilbert` extends it by hilb.cc. Arrays cut in place (`hStepS`, `hElimS`, `hPure`, `hLex2S`)
are sequences: `Slices` is the common loop that walks them, with the
pure powers carried from slice to slice.

### Basering

Procedures, identifiers and rings of the interpreter. `memory` is one record: the list
`ids` of identifiers (name, level, ring), the live `rings` and their `ref`,
`polys` (the levels at which a ring's own list has a polynomial),
`currRing`, `currRingHdl`, `level` (`myynest`), `local` (`iiLocalRing`), `keeps`
(`!iiNoKeepRing`). The functions of ipshell.cc, ipid.cc and iplib.cc are operators from
memory to memory -- `enterid`, `killhdl2`, `rKill`, `killlocals`, `iiExport`, `iiPStart` with
`iiLocalRing` -- and a command of the user is an action that applies them in the code's order:
`RingCmd`, `Define`, `Assign`, `SetRing`, `KeepRing`, `Export`, `Kill`, `Call`, `Return`,
`ReturnRing`, `Error`. Where `jiA_RING` reads a field of a value as if it were an
identifier's (ipassign.cc:818), the outcome is chosen nondeterministically.

### MCSequential

`Positions`, `KBuckets`, `Longrat`, `Hilbert` with `Staircase`, and `Basering` in one
instance: the five machines stand side by side, each behaviour being a behaviour of one of
them, since none of them shares state with another.

## 4. The runs

| run | instance | distinct states | question | properties |
|---|---|---|---|---|
| `supervisor_safety` | 3 tasks, up to 1 leaf besides the granted ones, timeouts | 1 040 000 | do the processes keep to the protocol? | TypeOK, ResultIntegrity, WriteExclusive, LinkProtocol, QuietWhenIdle, LeavesBalanced, NoStrayRequest, PollGuarantee |
| `supervisor_promises` | 2 tasks, 1 leaf that may never come, 1 task of another supervisor, fairness | 19 900 | does the bookkeeping agree, is it an implementation of `TaskLifecycle`, does every call return and the supervisor end? | CountersAgree, NeverAbandoned, ImplementsLifecycle, CallsReturn, SupervisorEnds |
| `queue_list` | 3 tasks, every list of distinct tasks, N from -2 to 4 | 13 300 | do the vectors behave as a list and a set, whatever the sequence of requests? | VectorsFormatted, ImplementsWaitingList |
| `cores` | 2 tasks of the main process, one with a task of its own; 1 core, up to 2 by `addcores`, 1 slot; processes may wait longer than 5 s; the main process waits with and without timeout, and calls `parallelWaitN` with `ncores`; fairness | 166 000 | are tokens conserved and bounded, does no waiting process keep one, does every close end and `waitTasks` of the main process return? | TypeOK, CoresConserved, QueueConserved, WithinCores, NoHoldAndWait, CloseEnds, MainReturns |
| `wait_first` | 3 links of one answer each, a buffer of 4 bytes, waitfirst and waitall without timeout and with 0 and 3 ms | 580 000 | is what a wait returns true, and in time? | SleepsInSelectOnly, AnswersTrue, WaitsInTime, WaitEnds |
| `links` | 2 links, one an identifier, 3 opens; crashes wherever nothing is held, failing forks, SIGTERM | 40 400 | do handler, interpreter and exit routine meet freed memory? | LinksSafe, QuitEnds |
| `rings` | 2 rings, 4 requests of rings and polynomials with a setring at any moment, or a file of polynomials | 1 102 000 | do both ends of a link mean the same ring? | RingsSafe, AnswerInBasering |
| `stream_cut` | 4 items in 16 bytes, one of them the greatest int, a buffer of 2 bytes, the writer may die | 1070 | is every item read as it was written? | IntactUnlessEof, ReaderFinishes |
| `pairs` | squarefree leading monomials of degree 2 and 3 in 4 variables; 4 polynomials, 3 in sugar mode | 223 000 | do the criteria leave enough pairs? | Covered, PairsSafe |
| `sequential` | arrays of 5 elements; buckets over Z/2, Z/3, Z/4 of base 2; immediates of 3 bits; ideals of 4 generators in up to 4 variables; 2 names, 2 rings at a time, 3 identifiers, calls 2 deep, 1 polynomial | 128 000 | are arrays sorted, sums and numbers exact, the numbers of an ideal right, rings counted exactly and baserings restored? | PositionsRight, BucketsRight, NumbersRight, StaircaseRight, RingsExact, BaseringRestored |

These hold. Two more runs state what the manual says and the code does not do; TLC
finds both violated (section 6):

| run | instance | what the manual says | property |
|---|---|---|---|
| `timeout_kept` | that of `wait_first` | a timeout forces waitfirst and waitall "to terminate after the specified time" (doc/reference.doc:7747-7748, 7794-7795) | TimeoutKept |
| `ring_of_answer` | that of `rings` | a `read` of something from another ring "changes the current ring" (doc/types.doc:1739-1741) | ReadChangesRing |

Where a property is a conjunction of named parts (`LinksSafe`, `RingsSafe`,
`PairsSafe`, `CountersAgree`, those of `sequential`), the parts are defined next to it.

**Bounds.** In the modules of the protocol nothing but the constants bounds the
models: a task is started once, so the protocol ends by itself and no counter needs a cap. Three tasks and up to two links
running at the same time let a stop reopen a link for a waiting task, a result be
followed by the next task on its link, two grandchildren compete for `sem_write`, a call
demand fewer tasks than are computed, and the deadlock grant happen after the first
leaf. With two tasks, one foreign one and one leaf a call may ask for more than the
supervisor can deliver, which is the case the cap of `ndemanded` is for; `CountersAgree`
is therefore checked there. For three tasks it follows from the inductive invariant, which TLC
checks with them (section 5), and it is proved for every number.

In `TaskQueue` three tasks are enough for `queue` to have a skipped part, a preferred
element and one that keeps its place, and for an element to be removed from the middle of
`demanded_tasks`. In `CoreTokens` the only counter without a natural bound is `NCORES`,
capped by `MaxCores`; three processes give two competitors for a slot and a
waiting process with a task of its own, and with `NCores = 1` no core is free until the
main process lends its own. `mod_init` has two slots. Here there is one, so that all slots are lost with one
task that is killed while it waits for its core, and another task still waits for a slot; with
two slots this takes one task more. TLC finds the same with two slots
and other trees: the five invariants hold with one process whose
three tasks all belong to the main process (61 663 states) and with four processes of which one is
another's task (697 277), both with two slots, and all seven properties with `NCores = 2` and
`MaxCores = 3` (322 764).

In `WaitLinks` an answer of five bytes with white space around its two numbers can be half
read when a wait begins; the descriptors are not in the order of the list; a second is long
enough for a call to begin in one and end in the next; `IntMax` is large enough for
every product the run meets. A buffer of 4 bytes ends just before the newline of an
answer, where a wait can fall asleep in a read (section 6). With three links two can end
during a wait that a third keeps going. In `SsiLinks` three opens let a link be closed and opened again
while another is in the list before or behind it. A buffer of two bytes ends
before, within and behind every token of the stream. In `SsiRings` `MaxAhead = 1`: an answer is
read before the next request; 4 requests let each end's ring go there and back. `StandardPairs`
needs two polynomials for a pair, a third for a chain and a fourth for a chain of chains;
squarefree monomials distinguish all the divisibilities that the criteria ask
for. In `Positions` arrays of 5 elements reach every exit of the bisection; elements have
two or three values of each quantity their function compares. In `KBuckets` the
degrees are bounded so that a sum overflows three times into the next bucket; Z/4 has
zero divisors, Z/2 cancels at once. In `Longrat` a LONG of 6 bits makes every operand
pair of immediates possible; `MaxNum` and `MaxDen` cut the results off well
outside the border of the immediates. The ideals of `Staircase` have every set of up to four
generators with exponents up to 2 (1 in four variables), of degree up to 3.
In `Basering` two rings and two names give every overlap of a local, an alias, a
returned and an exported ring over two nested calls; `MaxLeaks = 0` leaves out the
export that leaks (section 6).

**Fairness.** `FairSpec` of `TaskSupervisor` assumes that a process that can run does run (weak fairness of
the steps inside a call, of the supervisor and of each grandchild): these are processes
of an operating system that block only in reads and semaphores, and the computation
of a task is assumed to end. It does not assume that the user calls anything, nor that a leaf
ever becomes free: `MoreLeaves` has no fairness, which is what makes the deadlock
grant necessary. Calls with a timeout are left out of that run, since they return
by the timeout. `FairSpec` of `CoreTokens` assumes the same of the processes, of
a computation, and of `ssiClose` once it has begun. Weak fairness of `SemWait`
is enough: a waiting process is only promised a semaphore that stays free. Nothing
obliges a process to start tasks, to wait or to close a link, nor a wait to time out
(`TimedOut`) or the supervisor of a killed process to notice (`Orphaned`). Only the main
process waits with a timeout there (`Timed`): tasks that poll for ever could take every
core that becomes free, which weak fairness allows. `WaitLinks` is fair to the steps
of a wait and to the clock, not to the other ends: they need not answer.
`SsiLinks` is fair to the steps of a close and of the exit routine, not to
the user; a child that is told to end is reaped by `Reap` in the end by SIGKILL.
`SsiStream` is fair to the writer's bytes (unless it dies) and to the reader.

`cores` has `CHECK_DEADLOCK FALSE`: with SIGKILL allowed the slots of
`sem_queue` can all be lost (section 6), and then the main process
waits for ever for tasks that cannot start, while no process can move. `MainReturns` excepts
just this case: it promises that `waitTasks` returns or that no slot is left that is not lost.
`rings` has it because the
client may stop asking.

Every property comes with a faulty variant of a definition, next to that definition
(`... OffByOne`, `KilledUnflushed`, ...), that violates it: the bug it would catch.

## 5. The proofs

Every theorem holds for all values of the constants that the named assumptions of the
modules allow. Each is proved with one lemma per action, the parts of the invariant one by
one, and the temporal step by PTL. Each inductive invariant was checked by TLC first, as an
invariant of the specification, on the instances given with it.

### The supervisor protocol

`TaskSupervisorProofs`:

* `TypeCorrect`: `Spec => []TypeOK`. `TypeOK` is not inductive: `Launch` takes the head
  of `queue`, so `queue` must not be empty when a link is opened or reopened.
  The invariant `TypeInv` adds `QueueLength`: `queue` has `nwaiting` elements
  and `opening` never exceeds them.
* `LeavesCorrect`: `Spec => []LeavesBalanced`, from `LeafInv`. Granting and acquiring add to
  both sides; a close takes a leaf back exactly while there are more links than granted leaves.
* `WriteCorrect`: `Spec => []WriteExclusive`, from `WriteInv`, which adds that no
  process runs on a link with a number above `nlinks` before the first close
  (`FreshLinks`): the link that `OpenLink` opens is unused, so its new process
  cannot be one that held `sem_write`.

`TaskInvariant` states the rest of the inductive invariant, `IInv` in `TaskSupervisorProofs`, as a
conjunction of nine parts beside these:

| part | what it says | why it is needed |
|---|---|---|
| `PhaseInv` | for each place of the main process, what is in `toMain`, what the call's variables are, where the supervisor is | a reply is what its reader takes it for |
| `RequestInv` | requests on the way are distinct; a stop, got, poll or wait on its way tells the states of its tasks on both sides | the supervisor answers a request long after it was sent |
| `AgreeInv` | how the supervisor's state of a task may lag behind that of the main process, and by which request | a stopped task that is still running, a completed one not yet acknowledged |
| `LinkInv` | two running tasks have different links; what each link holds in both directions while its task runs (`Running`) or is computed (`Holding`); a link without a task is unused | announcements of an earlier task could be taken for those of the next one |
| `SocketInv` | the socket is index, result, index, result, with at most the last result missing, whose writer has `sem_write` | `pollTask` does not look at the index |
| `DeliverInv` | the results on their way are asked for by the running call, and `results_sent` counts them | a result would arrive in a later call |
| `DemandInv` | `demanded` and `ndemanded` in terms of the running call | go-aheads are given for them alone |
| `CountInv` | the counters and the queue in terms of the states | needed to read off `CountersAgree` and to bound `nlinks` |
| `DoneInv` | when the supervisor ends, every task is stopped or completed | it must not leave while a reply is owed |

The parts depend on each other in a circle: that the socket holds what the call asked for
rests on the go-aheads, those on `ndemanded`, that on the messages, and what the
messages mean on the states. So none of the following can be proved alone:

* `ResultsCorrect`, `LinksCorrect`, `QuietCorrect`, `CountersCorrect`, `RequestsCorrect`, `EndCorrect`:
  each of the remaining invariants of the runs, from `IInv`. For `NeverAbandoned`, `DoneInv`
  and `CountInv` give that all tasks are over, and `RequestInv` that no request remains.
* `PollCorrect`: the action property `PollGuarantee`, from `DeliverInv`, whose last part says
  where the result of a promised task is until the call returns.
* `LifecycleImplemented`: `Spec => ImplementsLifecycle`. Initial states map to initial states
  (`InitMapped`); a step of the supervisor or of a grandchild maps to `Compute` or to a stutter
  (`SupervisorMapped`), one of the main process to a call, an arrival or a return (`CallMapped`,
  `InsideMapped`, `ArrivalMapped`; `StepMapped` puts them together). The guards of `TaskLifecycle` come from `IInv` and from `WaitInv`, which
  says that a wait that is ending has got what it needs, unless it had a timeout.

TLC finds `IInv` and `WaitInv` invariant with 3 tasks and 1 leaf (1 039 004 states), 2 tasks,
1 leaf and 1 foreign task (37 704), and 2 tasks and 2 leaves without timeouts (19 932).

### The vectors of the supervisor

`TaskQueueProofs`, for every number of tasks, if no call lists a task twice (`~Repeats`;
with one that does, the first theorem fails, section 6):

* `VectorsCorrect`: `Spec => []VectorsFormatted`. The inductive invariant is `VectorsInv`. `QueueInv`
  adds that the whole of `queue` is without repetitions, its skipped part included:
  a stop calls `give_priority` on the whole vector and relies on it. `DemandInv` says
  that the elements of `demanded_tasks` up to its index are distinct, so that `removeDemanded`
  removes all there is of a task, and that outside a wait there are none; `SentInv`,
  that only computed tasks have the go-ahead.
* `ListImplemented`: `Spec => ImplementsWaitingList`. One lemma per action shows which step of
  `WaitingList` it is, e.g. `StopWaitingImplemented`: after `give_priority` has brought a stopped task to the head of
  `queue` and `next` has moved on by one, the part that counts is the former one without it.

The loops are what these proofs are about. `LoopRuns` and `LoopInvariant` say, for loops of any length, that
one whose rounds keep an invariant has a run, and that it holds behind it; they are proved by the least
round where they fail. With them `GivePriorityIs` shows that the search that
wraps around finds and blanks exactly those preferred, in whatever order they come, so that
`give_priority` returns these followed by the others in their order (`PriorityGiven`), and
`WaitIs` what the loop of a wait returns, which removes elements from the vector it runs
over (`RoundServed`). `RemoveIs` and `TakenOutFormat` are about `removeDemanded`.

TLC finds `VectorsInv` invariant with the constants of `queue_list` (13 332 states).

### The tokens

`CoreTokensProofs` proves, for every tree of processes, every number of cores and of
slots (`ParamAssumption` of `CoreTokens`; `Proc` is finite, since its holders are counted):

* `TokenTypes`, `HoldCorrect`: `TypeOK` and `NoHoldAndWait`, from `CountInv`. A
  process's place in its program determines what it counts (`ProcCounts`), which place allows
  which step within a semaphore call (`StepOfLabel`), and nobody signals the
  main process (`MainApart`).
* `CoresCorrect`: `CoresConserved`. `Total(s)`, the tokens free or had by somebody, is
  kept by every step (`TotalKept`): a step is an exchange between one process and
  one semaphore (`Balance`), and the end of a process gives back what it has
  (`EndBalance`), because a count that lags behind the semaphore defers SIGTERM. SIGKILL
  hits only processes in `sem_wait`, which never have a core.
* `QueueCorrect`: `QueueConserved`, by the same lemma, which counts the slot of a killed
  process among those that are had. `LostTokens` says who can be gone with a token: by
  `GoneCounts` a process that is gone has no core, and a slot only if it was killed, the one it
  had when it waited for its core; once killed it stays so (`KilledStay`).
* `WithinCorrect`: `WithinCores`, from `NcoresInv`: `Bound`, which is `NCORES` or, during
  `parallelWaitN`, the `NCORES` saved by it, is what
  the main process has left of its own count, less the core it lends in `waitTasks`.

### Rings on a link

`SsiRingsProofs`, for every number of rings, requests and requests ahead of their answers:

* `RingsOwned`: `Spec => []NoEarlyFree`, and `AnswersInBasering`: `Spec => AnswerInBasering`, both without a hypothesis, from
  `BInv` (theorem `OwnedInvariance`). `Sound` says what a process owns: an identifier for every
  class of rings, so that `rKill` of a link's ring with the count 0 frees no ring of an identifier; a ring that the link has besides an
  identifier counts one reference more. `BaseringInv` says that the process is in the
  ring of its link, and that the client is in the ring of the link while a
  polynomial of it is on its way, unless a `setring` came meanwhile (`moved`).
  The property has the same exception, and needs it: without it the run `ring_of_answer`
  finds it violated (section 6).
* `RingsCorrect`: `RingsAlone => (Spec => []RingsSafe)`, from `RInv` (`AgreeInvariance`),
  which adds what both ends believe of each other: in a file, each polynomial is in the ring
  its predecessor leaves (`FileInv`); with a process, at most one message is on its way, every
  polynomial on its way is in the client's ring of the link, whatever basering the client has by
  then, and the ends agree when nothing is on its way (`ProcessInv`).
  `RingsAlone` says that at most one answer is outstanding (`MaxAhead = 1`) and that no
  ring, as a value, is written to a file. It holds in the run `rings`. It cannot be dropped: with `MaxAhead = 2`, or with rings in a file,
  TLC finds `RingsSafe` violated (section 6).

TLC finds `RInv` invariant with the constants of `rings` and 3 requests (69 692 states), and `BInv` with `MaxAhead = 2`, rings in a file
and 3 requests (135 584).

### The links of one Singular

`SsiLinksProofs`, for every number of links and opens, with forks that fail and SIGTERM at any moment:

* `ForkedLinksCorrect`: `Crash # "any" => (Spec => []LinksSafe)`, from `LInv`
  (`LinksInvariance`). `ListInv`: a node is pushed before older ones, so the
  numbers fall along the list, which therefore ends and has no node twice. `DataInv`: a node of the list is
  that of the data of its link, or its fork has failed; the data of a link is of its last
  open. `ChildInv`: a child that was told to end is
  being waited for, so that the handler reaps it only while the interpreter is between the
  message and `waitpid`. `LinkInv`: what the interpreter has in its hands at each place of an
  open or a close; in `Walk`, that no node passed so far is one of the link. `SettledInv`: as
  long as the handler closes links, every link with data that is not being opened or closed is open,
  on the list, and has a running child, which is what
  makes the node that the handler finds the one of the dead child (`FirstNode`).
  The lemmas on `Reachable` (`ReachStep`, `ReachTotal`, `ReachSame`, `ReachRemove`) stand for
  inductions along the list: `Reachable` is a least set, so to show that something holds of
  all its nodes is to show that the set of those for which it holds is closed.
  `Crash # "any"` says that a child dies unasked only where the interpreter holds nothing that
  the handler frees (`Held`). The condition is as weak as it can be: TLC finds `LinksSafe` violated
  as soon as any one of the six places of `Held` is left out of it (section 6). A SIGTERM between
  fork and the store of the pid leaves a link that the handler does not find; `SettledInv` lists it.

TLC finds `LInv` invariant with the constants of `links` (40 399 states) and with 4 opens
and `Crash = "never"` (71 929).

### Waiting on links

`WaitLinksProofs`, for every number of links, every size of the buffers, every answer with
a blank behind each number, and all timeouts and units of time (`WaitAssumption`,
`BuffLenAssumption`):

* `SelectCorrect`: `Spec => []SleepsInSelectOnly`, without a hypothesis, from `BaseInv`
  (`BaseInvariance`). `HeldInv` says what the bytes between `bp` and `end` and those in
  the pipe can be: an end of file is the last byte there will ever be, and the digits
  of a buffer are followed by white space, there or in the pipe. `CharInv` says
  of the link whose bytes a wait is looking at that
  its pipe has more or is closed, or everything in its buffer up to `bp` is white space: that is the
  exception `SleepsInSelectOnly` names (section 6). `GetWorks` and `UngetWorks` say
  what `s_getc` and `s_ungetc` leave of a buffer.
* `AnswersCorrect`: `NoOverflow => (Spec => AnswersTrue)`, from `AInv` (`AnswersInvariance`),
  which adds `AnswersInv`: waitall has dropped only links with an answer; between the scan and
  the return the links no longer in `fdmask` have ended and the buffers of the others have no
  digit that `select` could not see; and `timeout` is negative only in a call without one. `HasAnswer` counts the digits among the unread bytes; `CountDigits` turns that
  into the existence of one, `ReadyMax` gives the link that the scan reports.
* `TimesCorrect`: `NoOverflow => (Spec => WaitsInTime)`, from `TInv` (`TimeInvariance`).
  For waitfirst `FirstInv` says how far the deadline of `select` may have moved: less than a
  second forward, and back by less than a second while at most one link has left `fdmask`.
  For waitall `AllInv` bounds the deadline by one timeout for every link that has been dropped
  or has ended (`Turns`) and one more, and the time passed without that one more as soon as a link of
  `fdmask` has ended, because `select` then returns at once; a turn ends with one link fewer that
  lasts, so the call takes no more turns than it has links.

`NoOverflow` says that no timeout in microseconds is above `IntMax`. It cannot be dropped: with
`3 * Milli > IntMax` the product wraps (section 6). TLC finds `AnswersTrue` violated where it
becomes negative (2 links, `Milli = 2`, `IntMax = 5`), and `WaitsInTime` where it becomes
too small (`Milli = 4`).

TLC finds `TInv` invariant with the constants of `wait_first` (580 478 states), and with 2 links,
2 answers and buffers of 1, 2, 3 and 9 bytes (187 165; 290 260; 489 624; 553 480).

### The bytes of a link

`SsiStreamProofs`, for every script of ints and strings, every length of the buffer and every
way the bytes are cut (`BuffLenAssumption`, `ScriptAssumption`):

* `StreamIntact`: `Spec => []IntactUnlessEof`, from `Inv`. `Where` says that the bytes ahead of the
  reader, those left in the buffer followed by the pipe and by what is not yet written
  (`Bytes`), are exactly what is left of the item it is in, and that `r`, `neg`
  and `part` are what it has made of the rest. It holds as long as the reader has not met the
  end of the file (`InSync`); from then on `AtEnd` says that nothing but a character -1 put back
  can be in the buffer, so that no digit is read any more and the number cannot grow out of
  its range. The property alone says nothing of an item that is being read.

`GetWorks` and `UngetWorks` are what a reader needs to know of `s_getc` and `s_ungetc`: the
former takes exactly the first of `Bytes` wherever the buffer ends, the latter puts it back, also in front of
the first byte of the buffer. `NextInSkip`, `NextInDigits`, `NextInBlank` and `NextInBytes` are what
the next byte can be. The decimals of a number are a recursive function, its
quotients by ten: `LoopRuns` gives that function its values (`QuotientsIs`), `DecimalIs` and `TextIs`
show that the digits, read as `s_readint` reads them, are the number again, and that no prefix
leaves the range of int. `LastItemsAre` does the same for the stream and its items.

TLC finds `Inv` invariant with the constants of `stream_cut` (1070 states).

### The pairs of Buchberger's algorithm

`StandardPairsProofs`, for any variables and exponents, any leading monomials and
ecarts, any number of polynomials and each of the three modes (`PairsAssumption`), from one
inductive invariant, `Inv` (`PairsInvariance`):

* `CoveredCorrect`: `Spec => []Covered`. With L empty this is Buchberger's criterion: no
  cancelled pair was needed.
* `PairsCorrect`: `Spec => []PairsSafe`: no mark is left in L, S is a minimal
  basis of the leading ideal, and in Gebauer mode the pairs with the newest polynomial are minimal.

| part of `Inv` | what it says | why it is needed |
|---|---|---|
| `LoopInv` | where the loops of `chainCritNormal` are in B or in the merged array, and which variables are empty where | `i` and `j` are corrected by hand after a deletion |
| `PairsInv` | a pair is of two older polynomials, of an older one and `h`, or, in the plain mode, marked, with its lcm | a mark hides the second polynomial of its pair |
| `BasisInv` | S is minimal and generates; `h` is not in its ideal; who is in `pairtest` has been treated with `h` | the product criterion cancels pairs by a polynomial, not by a pair |
| `OldInv` | the polynomials before `h` are still covered if a pair of them that `h` may replace counts as well (`Replaced`) | the chain criterion deletes from L before, or while, the pairs with `h` that it relies on are themselves cancelled |
| `NewInv` | every older polynomial has, within its lcm with `h`, a polynomial with a pair with `h` at hand | these pairs delete each other, too |
| `CoverInv` | between two polynomials any two are covered | what `Covered` says, and what the next `OldInv` starts from |
| `MinimalInv` | in Gebauer mode, no lcm in B properly divides another, and those the loop has passed are different | `NewPairsMinimal` is the result of the whole loop |

`Covered` alone is not inductive, because between two polynomials it does not hold: pairs are
cancelled on account of pairs that are cancelled later. The lemma that closes the gap
is `Covering`: if the older polynomials are linked up to pairs that `h` replaces, and each has a
link with `h` nearby, then all are linked, `h` included. It is an induction on
divisibility, done as the choice of a counterexample: of the monomials within which two
polynomials are not linked, one that the fewest leading monomials divide (`Within`,
`Linked`) is taken; a pair that `h` replaces there has two lcms with `h` which are
smaller, so that the polynomials are linked within those. In the plain
mode the two lcms need not be smaller: there the pairs with `h` must be some that
will stay (`Fixed`), marked or behind the outer loop. `EnterPairsCover`, `ChainCritCover`,
`BestStepCover`, `ModifyOuterCover`, `ModifyInnerCover` and the like have one lemma per action.

TLC finds `Inv` invariant with the constants of `pairs` (222 952 states).

### What is only model-checked

* Liveness under fairness (`CallsReturn`, `SupervisorEnds`, `QuitEnds`, `WaitEnds`, `ReaderFinishes`, `CloseEnds`, `MainReturns`)
  is out of the prover's reach.
* What a loop or recursion over data computes for every input would be an induction over
  data, which the prover does only where a run of a loop can be described round by round, as in
  `TaskQueueProofs` and `SsiStreamProofs`. Not so proved are the properties of `MCSequential`.
* `RingsSafe` and `BaseringRestored` of `Basering` (`killlocals` and `Failed` are folds)
  have not been attempted.

## 6. Where code and expectation part

What the models show, or what was met while they were written, that a reader of the code
or its documentation may not expect. Two disagreements with the manual have a run that
is meant to fail, `timeout_kept` and `ring_of_answer`; of the others some hold in a passing run, whose
property names them as its exception, and some are left out by a constant named here, which
switches them on.

*Tasks and cores*

* A grandchild that waits for `sem_cores` holds a slot of `sem_queue`.
  SIGTERM is deferred while it waits (semaphore.c:78), so if it is stopped
  and no core becomes free within 5 s, `ssiClose` kills it with SIGKILL
  (ssiLink.cc:1208) and its slot is lost; after two losses no task starts any more, and
  `waitTasks` of the main process never returns. The run `cores` has this case:
  `QueueConserved` says that nothing else loses a slot, and without its second
  disjunct `MainReturns` is violated. Cores are not lost this way, because no process
  waits for a semaphore while it holds a core.
* `setcores_subtree` (resources.lib:148) replaces `Resources::sem_cores`,
  but tasks.lib acquires its own copy of the old index (tasks.lib:163): the tasks of
  `parallelWaitN(..., ncores)` are not limited to that obsolete argument, contrary to what the overview
  of resources.lib says of libraries built upon tasks.lib, "they will not use more computational
  resources than provided" (resources.lib:12-13). `WithinCores` bounds them by the `NCORES` of the caller.
* `waitTasks(list(t, t), ...)` of a waiting task breaks the assumption
  written above `give_priority` (tasks.lib:811): `queue` lists the task twice. (`Repeats = TRUE`.)
* If a task that is not waited for ends after all demanded ones
  have their go-ahead and before `waitTasks` is over, `removeDemanded` reads
  `demanded_tasks[0]`. The interpreter reports an error on the terminal, takes the
  comparison as false and goes on, so the model does, too.
* `pollTask` of a waiting task only moves it forward in the queue (tasks.lib:655): polled in a loop,
  it never completes while no leaf is granted. Semaphores are never given
  back (resources.lib:130). `parallelWaitN` replaces `sem_cores` before it checks its
  arguments (parallel.lib:80), and a command that raises an error keeps its core
  until its process ends (tasks.lib:770).

*Waiting and links*

* doc/reference.doc:7747-7748 (waitall) and 7794-7795 (waitfirst) say that a timeout forces the command "to terminate
  after the specified time", and 7767 `waitall(l, 5000); // terminates after 5sec`. But
  waitall corrects its timeout once per ready link (iparith.cc:3581), mixing milliseconds,
  microseconds and whole seconds, so that it may take its timeout once for every link:
  `TimeoutKept`, the manual's promise to the second, is violated in the run `timeout_kept`.
  `WaitsInTime` states what the code does keep. waitall also returns 0, "None of the links is
  ready" (7754), when some are ready and others not in time.
* After the end of a link waitfirst subtracts the time since the start of the wait from its
  timeout (ssiLink.cc:1741) and enters `select` with the rest. The start is a whole second, so that it
  may give up nearly a second early; and it is not moved, so that every further link that
  ends takes the same time off again, without a limit, and "after the specified time" does not hold in this
  direction either. `WaitsInTime` promises the former for one ended link,
  and nothing of giving up early for more of them.
* If a buffer ends just before the white space behind an answer, a wait, with a timeout or
  without, finds the link ready, reads the white space and then sleeps in `read` until the link
  sends more: it does not "check again with select", as the comment at ssiLink.cc:1721
  says. `SleepsInSelectOnly` says that this is the only case; `WaitEnds` is stated up to it.
* From 2147484 ms on the product with 1000 overflows (iparith.cc:3544). Constants with
  `3 * Milli > IntMax` show it.
* `sig_chld_hdl` closes the link of a crashed child whatever the interpreter is doing
  (`Crash = "any"`). At the six places of `Held` this is a use after free or a lost link: the ssiInfo is freed
  under the reader (ssiLink.cc:1932), the head of the list between `n->next=ssiToBeClosed` and
  the push (ssiLink.cc:817), the node on which the search of ssiClose (ssiLink.cc:1219-1240) or the first
  loop of `m2_end` (misc_ip.cc:1091-1095) stands; and a child that dies before its pid is stored (ssiLink.cc:897) leaves
  an open link. `LinksSafe` is checked and proved for all other moments.
* A failed fork leaves a node without a process in `ssiToBeClosed`: a later SIGCHLD
  dereferences the missing data (ssiLink.cc:817, 1922), and the last loop of `m2_end`
  (misc_ip.cc:1115) does not end. `HandlerReadsLive` and `QuitEnds` exempt it by name. A SIGTERM
  inside a close that the handler itself makes (ssiLink.cc:1932) after `m2_end` has cleared
  `ssiToBeClosed_inactive` ends the process at once; it is not modelled. `m2_end` also looks at the semaphore with the index
  SIPC_MAX_SEMAPHORES, one beyond the array (misc_ip.cc:1070).
* A program may change its basering between a request and its answer. ssiRead1 reads a polynomial
  with `d->r`, the ring of the link, and sets the basering only where a ring came with it
  (ssiLink.cc:1284-1287); the process leaves the ring out when both ends have it. The
  polynomial is then taken for one of the new basering, although doc/types.doc:1739-1741 says
  that such a `read` changes the current ring. The run `ring_of_answer` shows it;
  `AnswerInBasering` excepts it (`moved`).
* A ring written to a file changes `d->r` of the reader, but that of the writer only if it is the
  basering (ssiLink.cc:1436; `FileKinds` with `"ring"`): the next polynomial is read in the
  wrong ring. The same happens on a link to a process with a second request on
  its way (`MaxAhead = 2`), since the answer to the first changes the ring. A newstruct with a ring
  reads it uncounted (newstruct.cc:608).

*Rings and procedures*

* A procedure called without a basering that does `setring` leaves it set (iplib.cc:447).
* Exporting a ring onto the same ring leaks a reference (ipshell.cc:1273-1283; `MaxLeaks` allows it), and
  `iiLocalRing[0]` is reset whatever level the ring is exported to (ipshell.cc:1289).
* A ring that remains only in an exported or killed list keeps polynomials of ended levels;
  keepring kills a polynomial of the top level (grammar.y, KEEPRING_CMD); a returned
  polynomial whose ring dies with a local alias has no ring. The model's values
  leave these cases out.
* The debugger's `iiEStart` restores from `procstack->cRing` (iplib.cc:704-712), not
  from `iiLocalRing`.

*Kernel*

* `indepSet(I, 1)`: `hCheck2` recognises a pure power by `pure[i] == 1` (hdegree.cc:428), but `hPure`
  stores exponents there. For x^2*y^2*w, x^2*z^2*w, y^2*z^2*w two maximal independent sets
  are missing, although doc/reference.doc:2847 promises all sets that cannot be enlarged; `DimensionRight` is stated for square free generators there.
* `slicehilb` of the zero ideal frees a pointer nobody has set (hilb.cc).
* `nlPower` of a fraction not yet normalised that is an immediate integer (longrat.cc:957),
  `nlExactDiv(-2^28, 2^28)`, `nlIntMod` of negative numbers (value and sign), `nlInpIntDiv`,
  `nlDiv` of zero by a large integer and the truncation to int in `nlInit` give other values or forms than
  the rest expects; their guards say where. callgfanlib (bbcone.cc:36) relies on one of them.
* `kBucket_Mult_n` over a ring with zero divisors moves a leading monomial from bucket 0 to
  bucket 1 and then multiplies it once more (kbuckets.cc:602); the action is guarded by an
  empty bucket 0 there.
* The tests of posInL110 and posInLSpecial are not transitive when degrees agree, so that
  `Sorted` promises the order by degree only, and posInT*_pLength mixes `length` with `pLength`;
  `Positions` takes both lengths to agree. The counter `cc` of kutil.cc:4419 is always 0, and the
  deletion from L in sugar mode (kutil.cc:2227) is never reached.

## 7. What is not modelled

* **Tasks**: contents of results and arguments; errors raised by a task's command; messages
  larger than a socket buffer (a grandchild could block in the middle of a write; it would
  still be one process writing, and the main process reads whole results); `getResult`,
  `getState` and printing, which only read; the table of tasks (section 2).
* **Links**: modes tcp, connect and file of opening; the encoding of types other
  than numbers, strings and polynomials; reference counts of copied links; pipes, ASCII and DBM links.
* **Interpreter**: packages, attributes, `rAssure_HasComp`, lists of identifiers, procedures
  in C, user-defined types, the tables of iparith.cc, the input stack, the debugger.
* **Standard bases**: reduction and tails, local orderings (mora), rings as
  coefficients, quotient ideals, degree bounds, noncommutative and letterplace
  variants, sba, slimgb; of the positions posInTrg0, posInLrg0, those of signatures and of syzygies.
* **Polynomials and numbers**: monomial orderings; kBucket_Plus_mm_Mult_pp, coefficient
  buckets; other coefficient domains; GMP itself, whose integers are taken to be exact.
* **Monomial ideals**: modules with components, weights, quotient rings, the
  reordering of variables for more than 10 generators, the lengths of the intermediate arrays.
* **Memory**: omalloc. The models of links and rings have allocated and freed objects, not the allocator.
* The remaining algebraic code (factory, gfanlib, IntegerProgramming, resolutions, walks, the
  libraries under `LIB`) is sequential code whose correctness is mathematical and
  whose data are beyond a model checker; the dynamic modules bind other systems.
