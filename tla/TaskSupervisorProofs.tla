------------------------- MODULE TaskSupervisorProofs -------------------------
(***************************************************************************)
(* Theorems about TaskSupervisor for every number of tasks and leaves:     *)
(* its types; the parts of its inductive invariant about the links of the  *)
(* grandchildren and the socket they share; the steps of the supervisor,   *)
(* the main process and the grandchildren, which keep the invariant, one   *)
(* lemma per action; what follows from it for the user of tasks.lib; and   *)
(* that TaskSupervisor implements TaskLifecycle: the initial states map to *)
(* an initial state, and every step of the protocol is a step of the life  *)
(* cycle or leaves it unchanged.                                           *)
(***************************************************************************)
EXTENDS TaskInvariant, FiniteSetTheorems, SequenceTheorems, TLAPS

(***************************************************************************)
(* Types.  Head(queue) is only a task while queue is not empty, so the     *)
(* types need that queue has an entry for each waiting task and each link  *)
(* that is about to be opened.                                             *)
(***************************************************************************)
QueueLength == Len(queue) = nwaiting /\ opening <= nwaiting

TypeInv == TypeOK /\ QueueLength

Requests == TaskRequests \cup WaitRequests
Pieces == [kind : {"index", "result"}, task : Task \cup {0}]
ProcessStates == {"none", "idle", "compute", "await", "write", "release"}
GlobalStates == {"created", "started", "completed", "stopped"}

USE DEF MainTypes, ChannelTypes, SupervisorTypes, ProcessTypes

\* The variables have their types in the beginning.
LEMMA TypeInit == Init => TypeInv
<1> SUFFICES ASSUME Init PROVE TypeInv
  OBVIOUS
<1>1. queue \in Seq(Task) /\ Len(queue) = NTasks
  BY ParamAssumption DEF Init, Task
<1> QED
  BY <1>1, ParamAssumption
     DEF Init, TypeInv, TypeOK, QueueLength, Task, Link, Go, Ended

\* Reading a result from L(pid).
LEMMA TypeReceive ==
  ASSUME TypeOK, NEW index, Receive(index)
  PROVE  /\ result' \in [Task -> Task \cup {0}]
         /\ mstate' \in [Task -> GlobalStates]
         /\ toSup' \in Seq(Requests)
         /\ sock' \in Seq(Pieces)
<1>1. sock \in Seq(Pieces) /\ Len(sock) >= 2 /\ index \in Task
  BY DEF TypeOK, Receive, Pieces
<1>2. sock[2] \in Pieces
  BY <1>1, ElementOfSeq
<1>3. result' \in [Task -> Task \cup {0}]
  BY <1>1, <1>2 DEF TypeOK, Receive, Pieces
<1>4. mstate' \in [Task -> GlobalStates]
  BY DEF TypeOK, Receive, GlobalStates
<1>5. GotMsg(index) \in Requests
  BY <1>1 DEF GotMsg, Request, TaskRequests, Requests
<1>6. toSup' \in Seq(Requests)
  BY <1>5, AppendProperties DEF TypeOK, Receive, Requests
<1>7. Tail(sock) \in Seq(Pieces) /\ Len(Tail(sock)) = Len(sock) - 1
  <2>1. sock # <<>>
    BY <1>1
  <2> QED
    BY <1>1, <2>1, HeadTailProperties
<1>8. Tail(Tail(sock)) \in Seq(Pieces)
  <2>1. Len(Tail(sock)) # 0
    BY <1>1, <1>7
  <2>2. Tail(sock) # <<>>
    BY <2>1, EmptySeq
  <2> QED
    BY <1>7, <2>2, HeadTailProperties
<1> QED
  BY <1>3, <1>4, <1>6, <1>8 DEF Receive

\* The steps of the main process.
LEMMA TypeMain ==
  ASSUME TypeInv, StartTasks \/ MainCalls \/ MainSteps
  PROVE  TypeInv'
<1> USE DEF mainVars, callVars, chanVars, countVars, demandVars, supVars,
            procVars, linkVars
<1>0. TypeOK
  BY DEF TypeInv
<1>1. CASE StartTasks
  BY <1>1 DEF StartTasks, TypeInv, TypeOK, QueueLength
<1>2. CASE Connect
  BY <1>2 DEF Connect, TypeInv, TypeOK, QueueLength
<1>3. ASSUME NEW t \in Task, StopTask(t) PROVE TypeInv'
  BY <1>3 DEF StopTask, StopMsg, Request, TypeInv, TypeOK, QueueLength,
              TaskRequests
<1>4. ASSUME NEW t \in Task, PollTask(t) PROVE TypeInv'
  BY <1>4 DEF PollTask, PollMsg, Request, TypeInv, TypeOK, QueueLength,
              TaskRequests
<1>5. ASSUME NEW S \in SUBSET Task, NEW x \in 0 .. Others,
             NEW n \in Int, WaitTasks(S, n, x)
      PROVE  TypeInv'
  BY <1>5, ParamAssumption DEF WaitTasks, WaitMsg, Request, TypeInv, TypeOK,
     QueueLength, WaitRequests
<1>6. CASE WaitReceive
  <2>1. Receive(Head(sock).task)
    BY <1>6 DEF WaitReceive
  <2>2. /\ result' \in [Task -> Task \cup {0}]
        /\ mstate' \in [Task -> GlobalStates]
        /\ toSup' \in Seq(Requests) /\ sock' \in Seq(Pieces)
    BY <1>0, <2>1, TypeReceive
  <2> QED
    BY <1>6, <2>2 DEF WaitReceive, TypeInv, TypeOK, QueueLength, Requests,
       Pieces, GlobalStates
<1>7. CASE ElsewhereReceive
  BY <1>7 DEF ElsewhereReceive, TypeInv, TypeOK, QueueLength
<1>8. CASE WaitEnd
  BY <1>8 DEF WaitEnd, EndMsg, WaitMsg, Request, TypeInv, TypeOK, QueueLength,
     WaitRequests
<1>9. CASE ReadResultsSent
  BY <1>9 DEF ReadResultsSent, TypeInv, TypeOK, QueueLength
<1>10. CASE WaitDrain
  <2>1. Receive(Head(sock).task)
    BY <1>10 DEF WaitDrain
  <2>2. /\ result' \in [Task -> Task \cup {0}]
        /\ mstate' \in [Task -> GlobalStates]
        /\ toSup' \in Seq(Requests) /\ sock' \in Seq(Pieces)
    BY <1>0, <2>1, TypeReceive
  <2> QED
    BY <1>10, <2>2 DEF WaitDrain, TypeInv, TypeOK, QueueLength, Requests,
       Pieces, GlobalStates
<1>11. CASE WaitReturn
  BY <1>11 DEF WaitReturn, Return, TypeInv, TypeOK, QueueLength
<1>12. CASE PollReply
  <2>1. toMain' \in Seq(Int)
    BY <1>12 DEF PollReply, TypeInv, TypeOK
  <2>2. CASE Head(toMain) = 2
    BY <1>12, <2>1, <2>2 DEF PollReply, TypeInv, TypeOK, QueueLength
  <2>3. CASE Head(toMain) # 2
    BY SMTT(20), <1>12, <2>1, <2>3 DEF PollReply, Return, TypeInv, TypeOK,
       QueueLength
  <2> QED
    BY <2>2, <2>3
<1>13. CASE PollResult
  <2>1. PICK t : Receive(t)
    BY <1>13 DEF PollResult
  <2>2. /\ result' \in [Task -> Task \cup {0}]
        /\ mstate' \in [Task -> GlobalStates]
        /\ toSup' \in Seq(Requests) /\ sock' \in Seq(Pieces)
    BY <1>0, <2>1, TypeReceive
  <2> QED
    BY <1>13, <2>2 DEF PollResult, Return, TypeInv, TypeOK, QueueLength,
       Requests, Pieces, GlobalStates
<1>14. CASE MainCalls
  <2>1. IsFiniteSet(Task)
    BY ParamAssumption, FS_Interval DEF Task
  <2>2. \A S \in SUBSET Task : Cardinality(S) \in Nat
    BY <2>1, FS_Subset, FS_CardinalityType
  <2>3. ASSUME NEW S \in SUBSET Task, NEW x \in 0 .. Others,
               NEW n \in 1 - Cardinality({t \in Task : mstate[t] = "completed"})
                           .. Cardinality(S) + x
        PROVE  n \in Int
    <3>1. {t \in Task : mstate[t] = "completed"} \in SUBSET Task
      OBVIOUS
    <3> QED
      BY <2>2, <3>1, ParamAssumption
  <2> QED
    BY <1>3, <1>4, <1>5, <1>14, <2>3 DEF MainCalls
<1> QED
  BY <1>1, <1>2, <1>6, <1>7, <1>8, <1>9, <1>10, <1>11, <1>12, <1>13, <1>14
     DEF MainSteps

-----------------------------------------------------------------------------
\* What give_priority returns: the same tasks in another order.
LEMMA GivePriorityType ==
  ASSUME NEW q \in Seq(Task), NEW P, NEW r \in GivePriority(q, P)
  PROVE  r \in Seq(Task) /\ Len(r) = Len(q) /\ Elems(r) = Elems(q)
<1>1. CASE P = Elems(q)
  BY <1>1 DEF GivePriority
<1>2. CASE P # Elems(q)
  <2>1. r \in [1 .. Len(q) -> Elems(q)] /\ Elems(r) = Elems(q)
    BY <1>2 DEF GivePriority
  <2>2. Elems(q) \subseteq Task
    BY DEF Elems
  <2>3. r \in [1 .. Len(q) -> Task] /\ Len(q) \in Nat
    BY <2>1, <2>2
  <2> QED
    BY <2>1, <2>3
<1> QED
  BY <1>1, <1>2

\* The effect of Launch on the supervisor's lists.
LEMMA TypeLaunch ==
  ASSUME TypeInv, nwaiting > 0,
         NEW k \in Int, NEW st \in [Task -> -1 .. 3],
         NEW asg \in [Task -> Int], Launch(k, st, asg)
  PROVE  /\ Head(queue) \in Task
         /\ state' \in [Task -> -1 .. 3]
         /\ assignment' \in [Task -> Int]
         /\ queue' \in Seq(Task)
         /\ nwaiting' \in Nat
         /\ Len(queue') = nwaiting' /\ nwaiting' = nwaiting - 1
<1>1. queue \in Seq(Task) /\ Len(queue) = nwaiting /\ nwaiting \in Nat
  BY DEF TypeInv, TypeOK, QueueLength
<1>2. queue # <<>>
  BY <1>1
<1>3. Head(queue) \in Task /\ Tail(queue) \in Seq(Task)
      /\ Len(Tail(queue)) = Len(queue) - 1
  BY <1>1, <1>2, HeadTailProperties
<1> QED
  BY <1>1, <1>3 DEF Launch

\* A process is killed, whatever it was doing.
LEMMA TypeKilled ==
  ASSUME TypeOK, NEW k, NEW pc \in {"none", "idle"}, Killed(k, pc)
  PROVE  /\ gpc' \in [Link -> ProcessStates]
         /\ gtask' \in [Link -> Task \cup {0}]
         /\ up' \in [Link -> Seq(Task \cup {Ended})]
         /\ sem_write' \in Link \cup {0}
<1>1. <<>> \in Seq(Task \cup {Ended})
  OBVIOUS
<1> QED
  BY <1>1 DEF TypeOK, Killed, ProcessStates

\* The supervisor's request at the head of l(pid).
LEMMA TypeRequest ==
  ASSUME TypeOK, NEW code, ReadRequest(code)
  PROVE  /\ toSup' \in Seq(Requests)
         /\ opening = 0
         /\ code \in {"stop", "poll", "got"} => Head(toSup).id \in Task
         /\ code = "wait" => Head(toSup).ids \in SUBSET Task
                             /\ Head(toSup).n \in Int
<1>1. toSup \in Seq(Requests) /\ toSup # <<>>
  BY DEF TypeOK, ReadRequest, Requests
<1>2. Head(toSup) \in Requests /\ Tail(toSup) \in Seq(Requests)
  BY <1>1, HeadTailProperties
<1>3. opening = 0
  BY DEF ReadRequest, Listening, FirstLoop, SecondLoop
<1> QED
  BY <1>2, <1>3 DEF ReadRequest, TaskRequests, WaitRequests, Requests

\* A link is closed.
LEMMA TypeClose ==
  ASSUME TypeOK, NEW id \in Task, NEW final \in -1 .. 3, CloseLink(id, final)
  PROVE  /\ gpc' \in [Link -> ProcessStates]
         /\ gtask' \in [Link -> Task \cup {0}]
         /\ up' \in [Link -> Seq(Task \cup {Ended})]
         /\ sem_write' \in Link \cup {0}
         /\ down' \in [Link -> Seq(Task \cup {Go})]
         /\ held' \in Int /\ nlinks' \in Int /\ nfinished' \in Int
         /\ assignment' \in [Task -> Int]
         /\ state' \in [Task -> -1 .. 3]
<1>1. Killed(assignment[id], "none")
  BY DEF CloseLink
<1>2. <<>> \in Seq(Task \cup {Go})
  OBVIOUS
<1>3. down' \in [Link -> Seq(Task \cup {Go})]
  BY <1>2 DEF CloseLink, TypeOK
<1>4. held' \in Int /\ nlinks' \in Int /\ nfinished' \in Int
  BY DEF CloseLink, TypeOK
<1>5. assignment' \in [Task -> Int] /\ state' \in [Task -> -1 .. 3]
  BY DEF CloseLink, TypeOK
<1> QED
  BY <1>1, <1>3, <1>4, <1>5, TypeKilled

\* The steps of the supervisor.
LEMMA TypeSupervisor ==
  ASSUME TypeInv, SupervisorSteps \/ \E m \in 1 .. NTasks : MoreLeaves(m)
  PROVE  TypeInv'
<1> USE DEF mainVars, callVars, chanVars, countVars, demandVars, supVars,
            procVars, linkVars
<1>0. TypeOK
  BY DEF TypeInv
<1>a. ASSUME NEW t \in Task, NEW f \in [Link -> Seq(Task \cup {Go})], NEW k
      PROVE  /\ [f EXCEPT ![k] = <<t>>] \in [Link -> Seq(Task \cup {Go})]
             /\ [f EXCEPT ![k] = Append(@, t)] \in [Link -> Seq(Task \cup {Go})]
             /\ [f EXCEPT ![k] = Append(@, Go)] \in [Link -> Seq(Task \cup {Go})]
  <2>1. <<t>> \in Seq(Task \cup {Go})
    OBVIOUS
  <2>2. ASSUME NEW s \in Seq(Task \cup {Go}), NEW e \in Task \cup {Go}
        PROVE  Append(s, e) \in Seq(Task \cup {Go})
    BY AppendProperties
  <2> QED
    BY <2>1, <2>2
<1>1. CASE Reserve
  BY <1>1 DEF Reserve, TypeInv, TypeOK, QueueLength
<1>2. CASE OpenLink
  <2>1. Launch(nlinks + 1, state, assignment) /\ nwaiting > 0
    BY <1>2 DEF OpenLink, LinksToOpen, TypeInv, TypeOK, QueueLength
  <2>2. /\ state \in [Task -> -1 .. 3] /\ assignment \in [Task -> Int]
        /\ nlinks + 1 \in Int
    BY DEF TypeInv, TypeOK
  <2>3. /\ Head(queue) \in Task
        /\ state' \in [Task -> -1 .. 3]
        /\ assignment' \in [Task -> Int]
        /\ queue' \in Seq(Task)
        /\ nwaiting' \in Nat
        /\ Len(queue') = nwaiting' /\ nwaiting' = nwaiting - 1
    BY <2>1, <2>2, TypeLaunch
  <2>4. down' \in [Link -> Seq(Task \cup {Go})]
    BY <1>2, <1>a, <2>3 DEF OpenLink, TypeInv, TypeOK
  <2> QED
    BY SMTT(20), <1>2, <2>3, <2>4 DEF OpenLink, LinksToOpen, TypeInv, TypeOK,
       QueueLength
<1>3. CASE SupervisorEnd
  BY <1>3 DEF SupervisorEnd, TypeInv, TypeOK, QueueLength
<1>4. ASSUME NEW m \in 0 .. NTasks, FirstLeaves(m) PROVE TypeInv'
  BY <1>4, ParamAssumption
     DEF FirstLeaves, FirstLoop, Acquirable, TypeInv, TypeOK, QueueLength
<1>5. ASSUME NEW m \in 1 .. NTasks, MoreLeaves(m) PROVE TypeInv'
  BY <1>5, ParamAssumption
     DEF MoreLeaves, FirstLoop, Acquirable, TypeInv, TypeOK, QueueLength
<1>6. ASSUME NEW k \in Link, ReadComputed(k) PROVE TypeInv'
  <2>1. up[k] \in Seq(Task \cup {Ended}) /\ up[k] # <<>>
    BY <1>6 DEF ReadComputed, TypeInv, TypeOK
  <2>2. Head(up[k]) \in Task /\ Tail(up[k]) \in Seq(Task \cup {Ended})
    BY <1>6, <2>1, HeadTailProperties DEF ReadComputed
  <2>3. down' \in [Link -> Seq(Task \cup {Go})]
    BY <1>6, <1>a, <2>2 DEF ReadComputed, TypeInv, TypeOK
  <2>4. up' \in [Link -> Seq(Task \cup {Ended})]
    BY <1>6, <2>2 DEF ReadComputed, TypeInv, TypeOK
  <2>5. state' \in [Task -> -1 .. 3]
    BY <1>6, <2>2 DEF ReadComputed, TypeInv, TypeOK
  <2>6. /\ demanded' \in SUBSET Task /\ ndemanded' \in Int
        /\ results_sent' \in Nat
    BY <1>6, <2>2 DEF ReadComputed, TypeInv, TypeOK
  <2> QED
    BY <1>6, <2>3, <2>4, <2>5, <2>6 DEF ReadComputed, TypeInv, TypeOK,
       QueueLength
<1>7. ASSUME NEW k \in Link, ReadEnded(k) PROVE TypeInv'
  BY <1>7 DEF ReadEnded, TypeInv, TypeOK, QueueLength
<1>8. CASE StopWaiting
  <2>1. ReadRequest("stop") /\ nwaiting > 0
    BY <1>8 DEF StopWaiting
  <2>2. toSup' \in Seq(Requests) /\ Head(toSup).id \in Task /\ opening = 0
    BY <1>0, <2>1, TypeRequest
  <2>3. PICK q \in GivePriority(queue, {Head(toSup).id}) : queue' = Tail(q)
    BY <1>8 DEF StopWaiting
  <2>4. q \in Seq(Task) /\ Len(q) = nwaiting /\ nwaiting \in Nat
    BY <2>3, GivePriorityType DEF TypeInv, TypeOK, QueueLength
  <2>5. q # <<>>
    BY <2>1, <2>4
  <2>6. queue' \in Seq(Task) /\ Len(queue') = nwaiting - 1
    BY <2>3, <2>4, <2>5, HeadTailProperties
  <2>7. state' \in [Task -> -1 .. 3]
    BY <1>8, <2>2 DEF StopWaiting, TypeInv, TypeOK
  <2>8. /\ nwaiting' = nwaiting - 1 /\ nfinished' = nfinished + 1
        /\ UNCHANGED <<mainVars, toMain, sock, spc, assignment, nlinks, opening,
                       granted_leaves, held, demandVars, procVars, linkVars>>
    BY <1>8 DEF StopWaiting
  <2>9. QueueLength'
    BY <1>0, <2>1, <2>2, <2>4, <2>6, <2>8 DEF TypeOK, QueueLength
  <2>10. MainTypes' /\ ChannelTypes'
    BY <1>0, <2>2, <2>8 DEF TypeOK, Requests
  <2>11. SupervisorTypes'
    BY <1>0, <2>1, <2>4, <2>6, <2>7, <2>8 DEF TypeOK
  <2>12. ProcessTypes'
    BY <1>0, <2>8 DEF TypeOK
  <2> QED
    BY <2>9, <2>10, <2>11, <2>12 DEF TypeInv, TypeOK
<1>9. CASE StopAndReopen
  <2> DEFINE id == Head(toSup).id
             k == assignment[id]
             st == [state EXCEPT ![id] = -1]
             asg == [assignment EXCEPT ![id] = 0]
  <2>1. ReadRequest("stop") /\ nwaiting > 0
    BY <1>9 DEF StopAndReopen
  <2>2. toSup' \in Seq(Requests) /\ id \in Task /\ opening = 0
    BY <1>0, <2>1, TypeRequest
  <2>3. Launch(k, st, asg) /\ Killed(k, "idle")
        /\ down' = [down EXCEPT ![k] = <<Head(queue)>>]
    BY <1>9 DEF StopAndReopen
  <2>4. /\ k \in Int /\ st \in [Task -> -1 .. 3] /\ asg \in [Task -> Int]
        /\ down \in [Link -> Seq(Task \cup {Go})]
    BY <1>0, <2>2 DEF TypeOK
  <2> HIDE DEF id, k, st, asg
  <2>5. /\ Head(queue) \in Task
        /\ state' \in [Task -> -1 .. 3]
        /\ assignment' \in [Task -> Int]
        /\ queue' \in Seq(Task)
        /\ nwaiting' \in Nat
        /\ Len(queue') = nwaiting' /\ nwaiting' = nwaiting - 1
    BY <2>1, <2>3, <2>4, TypeLaunch
  <2>6. /\ gpc' \in [Link -> ProcessStates]
        /\ gtask' \in [Link -> Task \cup {0}]
        /\ up' \in [Link -> Seq(Task \cup {Ended})]
        /\ sem_write' \in Link \cup {0}
    BY <1>0, <2>3, TypeKilled
  <2>7. down' \in [Link -> Seq(Task \cup {Go})]
    BY <1>a, <2>3, <2>4, <2>5
  <2>8. /\ nfinished' = nfinished + 1
        /\ UNCHANGED <<mainVars, toMain, sock, spc, nlinks, opening,
                       granted_leaves, held, demandVars>>
    BY <1>9 DEF StopAndReopen
  <2>9. QueueLength'
    BY <1>0, <2>2, <2>5, <2>8 DEF TypeOK, QueueLength
  <2>10. MainTypes' /\ ChannelTypes'
    BY <1>0, <2>2, <2>8 DEF TypeOK, Requests
  <2>11. SupervisorTypes'
    BY <1>0, <2>5, <2>8 DEF TypeOK
  <2>12. ProcessTypes'
    BY <2>6, <2>7 DEF ProcessStates
  <2> QED
    BY <2>9, <2>10, <2>11, <2>12 DEF TypeInv, TypeOK
<1>10. CASE StopAndClose
  <2>1. ReadRequest("stop") /\ CloseLink(Head(toSup).id, -1)
    BY <1>10 DEF StopAndClose
  <2>2. toSup' \in Seq(Requests) /\ Head(toSup).id \in Task
    BY <1>0, <2>1, TypeRequest
  <2>3. /\ gpc' \in [Link -> ProcessStates]
        /\ gtask' \in [Link -> Task \cup {0}]
        /\ up' \in [Link -> Seq(Task \cup {Ended})]
        /\ sem_write' \in Link \cup {0}
        /\ down' \in [Link -> Seq(Task \cup {Go})]
        /\ held' \in Int /\ nlinks' \in Int /\ nfinished' \in Int
        /\ assignment' \in [Task -> Int]
        /\ state' \in [Task -> -1 .. 3]
    BY <1>0, <2>1, <2>2, TypeClose
  <2> QED
    BY <1>10, <2>2, <2>3 DEF StopAndClose, TypeInv, TypeOK, QueueLength,
       Requests, ProcessStates
<1>11. CASE ServeWait
  <2> DEFINE S == Head(toSup).ids
             n == Head(toSup).n
  <2>1. ReadRequest("wait") /\ opening = 0
    BY <1>11 DEF ServeWait, ReadRequest, Listening, FirstLoop, SecondLoop
  <2>2. toSup' \in Seq(Requests) /\ S \in SUBSET Task /\ n \in Int
    BY <1>0, <2>1, TypeRequest
  <2>3. Computed(S) \in SUBSET Task
    BY <2>2 DEF Computed
  <2>4. IsFiniteSet(Task)
    BY ParamAssumption, FS_Interval DEF Task
  <2>5. Cardinality(S) \in Nat /\ Cardinality(Computed(S)) \in Nat
    BY <2>2, <2>3, <2>4, FS_Subset, FS_CardinalityType
  <2>6. Capped(n, S) \in Int
    BY <2>2, <2>5 DEF Capped
  <2>7. queue \in Seq(Task) /\ Len(queue) = nwaiting
    BY DEF TypeInv, TypeOK, QueueLength
  <2>8. queue' \in Seq(Task) /\ Len(queue') = nwaiting
    <3>1. \/ queue' = queue
          \/ queue' \in GivePriority(queue, {t \in S : state[t] = 0})
      BY <1>11 DEF ServeWait
    <3> QED
      BY <2>7, <3>1, GivePriorityType
  <2>9. down' \in [Link -> Seq(Task \cup {Go})]
    <3>1. \A k \in Link : Append(down[k], Go) \in Seq(Task \cup {Go})
      BY <1>0, AppendProperties DEF TypeOK
    <3> QED
      BY <1>0, <1>11, <3>1 DEF ServeWait, TypeOK
  <2>10. /\ demanded' \in SUBSET Task /\ ndemanded' \in Int
         /\ results_sent' \in Nat
    BY <1>11, <2>2, <2>3, <2>5, <2>6 DEF ServeWait
  <2>11. /\ granted_leaves' \in Nat /\ opening' \in Nat
         /\ opening' <= nwaiting
    BY SMTT(20), <1>0, <1>11, <2>1 DEF ServeWait, Deadlock, TypeInv, TypeOK,
       QueueLength
  <2> QED
    BY <1>11, <2>2, <2>8, <2>9, <2>10, <2>11 DEF ServeWait, TypeInv, TypeOK,
       QueueLength, Requests
<1>12. CASE EndWait
  <2>1. ReadRequest("wait")
    BY <1>12 DEF EndWait
  <2>2. toSup' \in Seq(Requests)
    BY <1>0, <2>1, TypeRequest
  <2> QED
    BY <1>12, <2>2 DEF EndWait, TypeInv, TypeOK, QueueLength, Requests
<1>13. CASE ServePoll
  <2> DEFINE id == Head(toSup).id
  <2>1. ReadRequest("poll")
    BY <1>13 DEF ServePoll
  <2>2. toSup' \in Seq(Requests) /\ id \in Task
    BY <1>0, <2>1, TypeRequest
  <2>3. queue' \in Seq(Task) /\ Len(queue') = nwaiting
    <3>1. queue' = queue \/ queue' \in GivePriority(queue, {id})
      BY <1>13 DEF ServePoll
    <3>2. queue \in Seq(Task) /\ Len(queue) = nwaiting
      BY DEF TypeInv, TypeOK, QueueLength
    <3> QED
      BY <3>1, <3>2, GivePriorityType
  <2>4. down' \in [Link -> Seq(Task \cup {Go})]
    BY <1>0, <1>13, <1>a, <2>2 DEF ServePoll, TypeOK
  <2>5. toMain' \in Seq(Int)
    <3>0. state \in [Task -> -1 .. 3]
      BY <1>0 DEF TypeOK
    <3>1. state[id] \in -1 .. 3 /\ -1 .. 3 \subseteq Int
      BY <2>2, <3>0
    <3>2. toMain' = Append(toMain, state[id])
      BY <1>13 DEF ServePoll
    <3> HIDE DEF id
    <3> QED
      BY <1>0, <3>1, <3>2, AppendProperties DEF TypeOK
  <2> QED
    BY <1>13, <2>2, <2>3, <2>4, <2>5 DEF ServePoll, TypeInv, TypeOK,
       QueueLength, Requests
<1>14. CASE GotAndRelaunch
  <2> DEFINE id == Head(toSup).id
             k == assignment[id]
             st == [state EXCEPT ![id] = 3]
             asg == [assignment EXCEPT ![id] = 0]
  <2>1. ReadRequest("got") /\ nwaiting > 0
    BY <1>14 DEF GotAndRelaunch
  <2>2. toSup' \in Seq(Requests) /\ id \in Task /\ opening = 0
    BY <1>0, <2>1, TypeRequest
  <2>3. Launch(k, st, asg)
        /\ down' = [down EXCEPT ![k] = Append(@, Head(queue))]
    BY <1>14 DEF GotAndRelaunch
  <2>4. /\ k \in Int /\ st \in [Task -> -1 .. 3] /\ asg \in [Task -> Int]
        /\ down \in [Link -> Seq(Task \cup {Go})]
    BY <1>0, <2>2 DEF TypeOK
  <2> HIDE DEF id, k, st, asg
  <2>5. /\ Head(queue) \in Task
        /\ state' \in [Task -> -1 .. 3]
        /\ assignment' \in [Task -> Int]
        /\ queue' \in Seq(Task)
        /\ nwaiting' \in Nat
        /\ Len(queue') = nwaiting' /\ nwaiting' = nwaiting - 1
    BY <2>1, <2>3, <2>4, TypeLaunch
  <2>6. down' \in [Link -> Seq(Task \cup {Go})]
    BY <1>a, <2>3, <2>4, <2>5
  <2>7. /\ nfinished' = nfinished + 1
        /\ UNCHANGED <<mainVars, toMain, sock, spc, nlinks, opening,
                       granted_leaves, held, demandVars, procVars, up>>
    BY <1>14 DEF GotAndRelaunch
  <2>8. QueueLength'
    BY <1>0, <2>2, <2>5, <2>7 DEF TypeOK, QueueLength
  <2>9. MainTypes' /\ ChannelTypes'
    BY <1>0, <2>2, <2>7 DEF TypeOK, Requests
  <2>10. SupervisorTypes'
    BY <1>0, <2>5, <2>7 DEF TypeOK
  <2>11. ProcessTypes'
    BY <1>0, <2>6, <2>7 DEF TypeOK
  <2> QED
    BY <2>8, <2>9, <2>10, <2>11 DEF TypeInv, TypeOK
<1>15. CASE GotAndClose
  <2>1. ReadRequest("got") /\ CloseLink(Head(toSup).id, 3)
    BY <1>15 DEF GotAndClose
  <2>2. toSup' \in Seq(Requests) /\ Head(toSup).id \in Task
    BY <1>0, <2>1, TypeRequest
  <2>3. /\ gpc' \in [Link -> ProcessStates]
        /\ gtask' \in [Link -> Task \cup {0}]
        /\ up' \in [Link -> Seq(Task \cup {Ended})]
        /\ sem_write' \in Link \cup {0}
        /\ down' \in [Link -> Seq(Task \cup {Go})]
        /\ held' \in Int /\ nlinks' \in Int /\ nfinished' \in Int
        /\ assignment' \in [Task -> Int]
        /\ state' \in [Task -> -1 .. 3]
    BY <1>0, <2>1, <2>2, TypeClose
  <2> QED
    BY <1>15, <2>2, <2>3 DEF GotAndClose, TypeInv, TypeOK, QueueLength,
       Requests, ProcessStates
<1> QED
  BY <1>1, <1>2, <1>3, <1>4, <1>5, <1>6, <1>7, <1>8, <1>9, <1>10, <1>11,
     <1>12, <1>13, <1>14, <1>15 DEF SupervisorSteps

\* The steps of the grandchildren.
LEMMA TypeGrandchild ==
  ASSUME TypeInv, NEW k \in Link, Grandchild(k)
  PROVE  TypeInv'
<1> USE DEF mainVars, callVars, chanVars, countVars, demandVars, supVars,
            procVars, linkVars
<1> USE DEF TypeInv, TypeOK, QueueLength, Go, Ended
<1>1. CASE BeginTask(k)
  <2>1. down[k] \in Seq(Task \cup {0}) /\ down[k] # <<>>
    BY <1>1 DEF BeginTask
  <2>2. Head(down[k]) \in Task \cup {0} /\ Tail(down[k]) \in Seq(Task \cup {0})
    BY <2>1, HeadTailProperties
  <2> QED
    BY <1>1, <2>2 DEF BeginTask
<1>2. CASE Announce(k)
  <2>1. Append(up[k], gtask[k]) \in Seq(Task \cup {0})
    BY AppendProperties
  <2> QED
    BY <1>2, <2>1 DEF Announce
<1>3. CASE WriteIndex(k)
  BY SMTT(20), <1>3 DEF WriteIndex, Piece
<1>4. CASE WriteResult(k)
  BY SMTT(20), <1>4 DEF WriteResult, Piece
<1>5. CASE EndTask(k)
  BY SMTT(20), <1>5 DEF EndTask
<1> QED
  BY <1>1, <1>2, <1>3, <1>4, <1>5 DEF Grandchild

\* Every step keeps the types.
LEMMA TypeNext == TypeInv /\ [Next]_vars => TypeInv'
<1> SUFFICES ASSUME TypeInv, [Next]_vars PROVE TypeInv'
  OBVIOUS
<1>1. CASE UNCHANGED vars
  BY <1>1 DEF vars, TypeInv, TypeOK, QueueLength, mainVars, callVars, chanVars,
     countVars, demandVars, supVars, procVars, linkVars
<1>2. CASE Finished
  BY <1>1, <1>2 DEF Finished
<1>3. CASE Next /\ ~Finished
  BY <1>3, TypeMain, TypeSupervisor, TypeGrandchild DEF Next
<1> QED
  BY <1>1, <1>2, <1>3

\* The types, and the length of the queue, always hold.
LEMMA TypeInvariance == Spec => []TypeInv
  BY TypeInit, TypeNext, PTL DEF Spec

\* Every variable of the protocol keeps its type, for any number of tasks and
\* leaves; in particular no task is ever taken from an empty queue.
THEOREM TypeCorrect == Spec => []TypeOK
<1>1. TypeInv => TypeOK
  BY DEF TypeInv
<1> QED
  BY <1>1, TypeInvariance, PTL

-----------------------------------------------------------------------------
(***************************************************************************)
(* The leaves.  While tasks wait no link is closed, so there are at least  *)
(* as many links as granted leaves and FirstLeaves runs only once.         *)
(***************************************************************************)
LeafInv ==
    /\ LeavesBalanced
    /\ nwaiting > 0 => nlinks + opening >= granted_leaves
    /\ nwaiting > 0 /\ nlinks = 0 /\ opening = 0 => granted_leaves = 0

\* No leaf is held before the supervisor starts.
LEMMA LeafInit == Init => LeafInv
  BY ParamAssumption DEF Init, LeafInv, LeavesBalanced

\* A step that starts no task on a new link and closes none.
LEMMA LeafKept ==
  ASSUME LeafInv, TypeInv, nwaiting' \in {nwaiting, nwaiting - 1},
         UNCHANGED <<nlinks, opening, granted_leaves, held>>
  PROVE  LeafInv'
  BY DEF LeafInv, LeavesBalanced, TypeInv, TypeOK

\* A link that is closed gives its leaf back, if it has one.
LEMMA LeafClose ==
  ASSUME LeafInv, TypeInv, nwaiting = 0, NEW id, NEW final, CloseLink(id, final),
         UNCHANGED <<nwaiting, opening, granted_leaves>>, opening = 0
  PROVE  LeafInv'
  BY DEF LeafInv, LeavesBalanced, TypeInv, TypeOK, CloseLink, OnAcquiredLeaf

\* The steps of the supervisor keep the balance of leaves.
LEMMA LeafSupervisor ==
  ASSUME LeafInv, TypeInv,
         SupervisorSteps \/ \E m \in 1 .. NTasks : MoreLeaves(m)
  PROVE  LeafInv'
<1> USE DEF countVars
<1>1. CASE Reserve
  BY <1>1, LeafKept DEF Reserve
<1>2. CASE OpenLink
  BY <1>2 DEF OpenLink, LinksToOpen, Launch, LeafInv, LeavesBalanced, TypeInv,
     TypeOK
<1>3. CASE SupervisorEnd
  BY <1>3, LeafKept DEF SupervisorEnd
<1>4. ASSUME NEW m \in 0 .. NTasks, FirstLeaves(m) PROVE LeafInv'
  BY <1>4, ParamAssumption DEF FirstLeaves, FirstLoop, Acquirable, LeafInv,
     LeavesBalanced, TypeInv, TypeOK
<1>5. ASSUME NEW m \in 1 .. NTasks, MoreLeaves(m) PROVE LeafInv'
  BY <1>5, ParamAssumption DEF MoreLeaves, FirstLoop, Acquirable, LeafInv,
     LeavesBalanced, TypeInv, TypeOK
<1>6. ASSUME NEW k \in Link, ReadComputed(k) PROVE LeafInv'
  BY <1>6, LeafKept DEF ReadComputed
<1>7. ASSUME NEW k \in Link, ReadEnded(k) PROVE LeafInv'
  BY <1>7, LeafKept DEF ReadEnded, supVars
<1>8. CASE StopWaiting
  BY <1>8, LeafKept DEF StopWaiting
<1>9. CASE StopAndReopen
  BY <1>9, LeafKept DEF StopAndReopen, Launch
<1>10. CASE StopAndClose
  <2>1. ReadRequest("stop") /\ CloseLink(Head(toSup).id, -1) /\ nwaiting = 0
        /\ UNCHANGED <<nwaiting, opening, granted_leaves>>
    BY <1>10 DEF StopAndClose
  <2>2. opening = 0
    BY <2>1 DEF ReadRequest, Listening, FirstLoop, SecondLoop
  <2> QED
    BY <2>1, <2>2, LeafClose
<1>11. CASE ServeWait
  <2>1. opening = 0
    BY <1>11 DEF ServeWait, ReadRequest, Listening, FirstLoop, SecondLoop
  <2>2. nwaiting' = nwaiting /\ nlinks' = nlinks /\ held' = held
    BY <1>11 DEF ServeWait
  <2>3. \/ granted_leaves' = granted_leaves + 1 /\ opening' = 1 /\ nwaiting > 0
        \/ UNCHANGED <<granted_leaves, opening>>
    BY <1>11 DEF ServeWait, Deadlock
  <2> QED
    BY <2>1, <2>2, <2>3 DEF LeafInv, LeavesBalanced, TypeInv, TypeOK
<1>12. CASE EndWait
  BY <1>12, LeafKept DEF EndWait
<1>13. CASE ServePoll
  BY <1>13, LeafKept DEF ServePoll
<1>14. CASE GotAndRelaunch
  BY <1>14, LeafKept DEF GotAndRelaunch, Launch
<1>15. CASE GotAndClose
  <2>1. ReadRequest("got") /\ CloseLink(Head(toSup).id, 3) /\ nwaiting = 0
        /\ UNCHANGED <<nwaiting, opening, granted_leaves>>
    BY <1>15 DEF GotAndClose
  <2>2. opening = 0
    BY <2>1 DEF ReadRequest, Listening, FirstLoop, SecondLoop
  <2> QED
    BY <2>1, <2>2, LeafClose
<1> QED
  BY <1>1, <1>2, <1>3, <1>4, <1>5, <1>6, <1>7, <1>8, <1>9, <1>10, <1>11,
     <1>12, <1>13, <1>14, <1>15 DEF SupervisorSteps

\* The other processes do not touch the supervisor's counters.
LEMMA CountersKept ==
  ASSUME StartTasks \/ MainCalls \/ MainSteps \/ (\E k \in Link : Grandchild(k))
         \/ UNCHANGED vars
  PROVE  UNCHANGED <<countVars, queue, state, assignment>>
<1> USE DEF supVars
<1>1. CASE StartTasks
  BY <1>1 DEF StartTasks
<1>2. CASE MainCalls
  BY <1>2 DEF MainCalls, StopTask, PollTask, WaitTasks
<1>3. CASE MainSteps
  BY <1>3 DEF MainSteps, Connect, WaitReceive, ElsewhereReceive, WaitEnd,
     ReadResultsSent, WaitDrain, WaitReturn, PollReply, PollResult
<1>4. CASE \E k \in Link : Grandchild(k)
  BY <1>4 DEF Grandchild, BeginTask, Announce, WriteIndex, WriteResult, EndTask
<1>5. CASE UNCHANGED vars
  BY <1>5 DEF vars
<1> QED
  BY <1>1, <1>2, <1>3, <1>4, <1>5

\* Every step keeps the balance of leaves.
LEMMA LeafNext == LeafInv /\ TypeInv /\ [Next]_vars => LeafInv'
<1> SUFFICES ASSUME LeafInv, TypeInv, [Next]_vars PROVE LeafInv'
  OBVIOUS
<1>1. CASE SupervisorSteps \/ \E m \in 1 .. NTasks : MoreLeaves(m)
  BY <1>1, LeafSupervisor
<1>2. CASE StartTasks \/ MainCalls \/ MainSteps
           \/ (\E k \in Link : Grandchild(k)) \/ UNCHANGED vars
  <2>1. UNCHANGED countVars
    BY <1>2, CountersKept
  <2> QED
    BY <2>1, LeafKept DEF countVars
<1> QED
  BY <1>1, <1>2 DEF Next, Finished

\* sem_leaves neither leaks nor grows: the supervisor always holds one leaf for
\* every link beyond the granted ones, whatever is stopped, granted or closed.
THEOREM LeavesCorrect == Spec => []LeavesBalanced
<1>1. LeafInv => LeavesBalanced
  BY DEF LeafInv
<1>2. Spec => []LeafInv
  BY LeafInit, LeafNext, TypeInvariance, PTL DEF Spec
<1> QED
  BY <1>1, <1>2, PTL

-----------------------------------------------------------------------------
(***************************************************************************)
(* Mutual exclusion on L(pid).  A new link must not get the number of one  *)
(* whose process holds sem_write, so the links beyond nlinks have to be    *)
(* unused as long as links may be opened.                                  *)
(***************************************************************************)
FreshLinks ==
    nwaiting > 0 =>
        \A k \in Link : k > nlinks =>
            /\ gpc[k] = "none"
            /\ \A t \in Task : assignment[t] # k

WriteInv == WriteExclusive /\ FreshLinks

\* Nobody holds sem_write in the beginning.
LEMMA WriteInit == Init => WriteInv
  BY ParamAssumption DEF Init, WriteInv, WriteExclusive, FreshLinks, Link, Task

\* Killing the process of one link keeps the others apart.
LEMMA WriteKilled ==
  ASSUME WriteExclusive, TypeOK, NEW k, NEW pc \in {"none", "idle"},
         Killed(k, pc)
  PROVE  WriteExclusive'
<1> SUFFICES ASSUME NEW l \in Link
             PROVE  gpc'[l] \in {"write", "release"} <=> sem_write' = l
  BY DEF WriteExclusive
<1>1. l # 0
  BY ParamAssumption DEF Link
<1>2. CASE l = k
  BY <1>1, <1>2 DEF Killed, TypeOK, WriteExclusive
<1>3. CASE l # k
  BY <1>1, <1>3 DEF Killed, TypeOK, WriteExclusive
<1> QED
  BY <1>2, <1>3

\* A step that changes neither the processes nor the use of the links.
LEMMA WriteKept ==
  ASSUME WriteInv, nwaiting' \in {nwaiting, nwaiting - 1}, nwaiting \in Nat,
         UNCHANGED <<gpc, sem_write, nlinks, assignment>>
  PROVE  WriteInv'
  BY DEF WriteInv, WriteExclusive, FreshLinks

\* A link closed in the second loop: no link will be opened any more.
LEMMA WriteClose ==
  ASSUME WriteInv, TypeOK, nwaiting = 0, UNCHANGED nwaiting,
         NEW id, NEW final, CloseLink(id, final)
  PROVE  WriteInv'
<1>1. WriteExclusive'
  BY WriteKilled DEF CloseLink, WriteInv
<1> QED
  BY <1>1 DEF WriteInv, FreshLinks

\* A link given to another task in the first loop.
LEMMA WriteLaunch ==
  ASSUME FreshLinks, TypeOK, nwaiting > 0, UNCHANGED nlinks,
         NEW id \in Task, NEW st,
         Launch(assignment[id], st, [assignment EXCEPT ![id] = 0])
  PROVE  \A k \in Link : k > nlinks =>
            k # assignment[id] /\ \A t \in Task : assignment'[t] # k
<1>1. \A k \in Link : k > nlinks => \A t \in Task : assignment[t] # k
  BY DEF FreshLinks
<1>2. \A k \in Link : k # 0
  BY ParamAssumption DEF Link
<1> QED
  BY <1>1, <1>2 DEF Launch, TypeOK

\* Opening and killing keep sem_write with its holder.
LEMMA WriteSupervisor ==
  ASSUME WriteInv, TypeInv, TypeInv',
         SupervisorSteps \/ \E m \in 1 .. NTasks : MoreLeaves(m)
  PROVE  WriteInv'
<1> USE DEF countVars, procVars
<1>0. TypeOK /\ nwaiting \in Nat
  BY DEF TypeInv, TypeOK
<1>1. CASE Reserve
  BY <1>0, <1>1, WriteKept DEF Reserve
<1>2. CASE OpenLink
  <2>1. /\ Launch(nlinks + 1, state, assignment) /\ nlinks' = nlinks + 1
        /\ gpc' = [gpc EXCEPT ![nlinks + 1] = "idle"]
        /\ sem_write' = sem_write
    BY <1>2 DEF OpenLink
  <2>2. nwaiting > 0 /\ nlinks \in Int
    BY <1>2 DEF OpenLink, LinksToOpen, TypeInv, TypeOK, QueueLength
  <2>3. \A k \in Link : k > nlinks =>
          gpc[k] = "none" /\ \A t \in Task : assignment[t] # k
    BY <2>2 DEF WriteInv, FreshLinks
  <2>4. FreshLinks'
    <3>1. \A k \in Link : k > nlinks + 1 => gpc'[k] = gpc[k]
      BY <1>0, <2>1, <2>2 DEF TypeOK, Link
    <3>2. \A k \in Link : k > nlinks + 1 => \A t \in Task : assignment'[t] # k
      BY <1>0, <2>1, <2>2, <2>3 DEF TypeOK, Launch, Link
    <3> QED
      BY <2>1, <2>2, <2>3, <3>1, <3>2 DEF FreshLinks, Link
  <2>5. WriteExclusive'
    <3> SUFFICES ASSUME NEW k \in Link
                 PROVE  gpc'[k] \in {"write", "release"} <=> sem_write' = k
      BY DEF WriteExclusive
    <3>1. gpc[k] \in {"write", "release"} <=> sem_write = k
      BY DEF WriteInv, WriteExclusive
    <3>2. CASE k = nlinks + 1
      BY <1>0, <2>1, <2>2, <2>3, <3>1, <3>2 DEF TypeOK
    <3>3. CASE k # nlinks + 1
      BY <1>0, <2>1, <3>1, <3>3 DEF TypeOK
    <3> QED
      BY <3>2, <3>3
  <2> QED
    BY <2>4, <2>5 DEF WriteInv
<1>3. CASE SupervisorEnd
  BY <1>0, <1>3, WriteKept DEF SupervisorEnd
<1>4. ASSUME NEW m \in 0 .. NTasks, FirstLeaves(m) PROVE WriteInv'
  BY <1>0, <1>4, WriteKept DEF FirstLeaves
<1>5. ASSUME NEW m \in 1 .. NTasks, MoreLeaves(m) PROVE WriteInv'
  BY <1>0, <1>5, WriteKept DEF MoreLeaves
<1>6. ASSUME NEW k \in Link, ReadComputed(k) PROVE WriteInv'
  BY <1>0, <1>6, WriteKept DEF ReadComputed
<1>7. ASSUME NEW k \in Link, ReadEnded(k) PROVE WriteInv'
  BY <1>0, <1>7, WriteKept DEF ReadEnded, supVars
<1>8. CASE StopWaiting
  BY <1>0, <1>8, WriteKept DEF StopWaiting
<1>9. CASE StopAndReopen
  <2> DEFINE id == Head(toSup).id
             st == [state EXCEPT ![id] = -1]
  <2>1. ReadRequest("stop") /\ nwaiting > 0 /\ UNCHANGED nlinks
    BY <1>9 DEF StopAndReopen
  <2>2. id \in Task
    BY <1>0, <2>1, TypeRequest
  <2>3. /\ Launch(assignment[id], st, [assignment EXCEPT ![id] = 0])
        /\ Killed(assignment[id], "idle")
    BY <1>9 DEF StopAndReopen
  <2> HIDE DEF id, st
  <2>4. \A k \in Link : k > nlinks =>
          k # assignment[id] /\ \A t \in Task : assignment'[t] # k
    BY <1>0, <2>1, <2>2, <2>3, WriteLaunch DEF WriteInv
  <2>5. FreshLinks'
    BY <1>0, <2>1, <2>3, <2>4 DEF WriteInv, FreshLinks, Killed, TypeOK
  <2>6. WriteExclusive'
    BY <1>0, <2>3, WriteKilled DEF WriteInv
  <2> QED
    BY <2>5, <2>6 DEF WriteInv
<1>10. CASE StopAndClose
  BY <1>0, <1>10, WriteClose DEF StopAndClose
<1>11. CASE ServeWait
  BY <1>0, <1>11, WriteKept DEF ServeWait
<1>12. CASE EndWait
  BY <1>0, <1>12, WriteKept DEF EndWait
<1>13. CASE ServePoll
  BY <1>0, <1>13, WriteKept DEF ServePoll
<1>14. CASE GotAndRelaunch
  <2> DEFINE id == Head(toSup).id
             st == [state EXCEPT ![id] = 3]
  <2>1. ReadRequest("got") /\ nwaiting > 0 /\ UNCHANGED <<nlinks, procVars>>
    BY <1>14 DEF GotAndRelaunch
  <2>2. id \in Task
    BY <1>0, <2>1, TypeRequest
  <2>3. Launch(assignment[id], st, [assignment EXCEPT ![id] = 0])
    BY <1>14 DEF GotAndRelaunch
  <2> HIDE DEF id, st
  <2>4. \A k \in Link : k > nlinks =>
          k # assignment[id] /\ \A t \in Task : assignment'[t] # k
    BY <1>0, <2>1, <2>2, <2>3, WriteLaunch DEF WriteInv
  <2> QED
    BY <2>1, <2>4 DEF WriteInv, WriteExclusive, FreshLinks
<1>15. CASE GotAndClose
  BY <1>0, <1>15, WriteClose DEF GotAndClose
<1> QED
  BY <1>1, <1>2, <1>3, <1>4, <1>5, <1>6, <1>7, <1>8, <1>9, <1>10, <1>11,
     <1>12, <1>13, <1>14, <1>15 DEF SupervisorSteps

\* A grandchild takes and returns sem_write.
LEMMA WriteGrandchild ==
  ASSUME WriteInv, TypeInv, NEW k \in Link, Grandchild(k)
  PROVE  WriteInv'
<1> USE DEF supVars, countVars
<1>0. /\ k # 0
      /\ gpc \in [Link -> ProcessStates]
      /\ gpc[k] \in {"write", "release"} <=> sem_write = k
  BY ParamAssumption DEF Link, TypeInv, TypeOK, ProcessStates, WriteInv,
     WriteExclusive
<1>1. gpc[k] # "none"
  BY DEF Grandchild, BeginTask, Announce, WriteIndex, WriteResult, EndTask
<1>2. FreshLinks'
  <2>1. UNCHANGED <<nwaiting, nlinks, assignment>>
        /\ \A l \in Link : l # k => gpc'[l] = gpc[l]
    BY <1>0 DEF Grandchild, BeginTask, Announce, WriteIndex, WriteResult, EndTask
  <2> QED
    BY <1>1, <2>1 DEF WriteInv, FreshLinks
<1>3. WriteExclusive'
  <2> SUFFICES ASSUME NEW l \in Link
               PROVE  gpc'[l] \in {"write", "release"} <=> sem_write' = l
    BY DEF WriteExclusive
  <2>0. l # 0 /\ (gpc[l] \in {"write", "release"} <=> sem_write = l)
    BY ParamAssumption DEF Link, WriteInv, WriteExclusive
  <2>1. CASE BeginTask(k)
    BY <1>0, <2>0, <2>1 DEF BeginTask
  <2>2. CASE Announce(k)
    BY <1>0, <2>0, <2>2 DEF Announce
  <2>3. CASE WriteIndex(k)
    BY <1>0, <2>0, <2>3 DEF WriteIndex, MayWrite
  <2>4. CASE WriteResult(k)
    BY <1>0, <2>0, <2>4 DEF WriteResult
  <2>5. CASE EndTask(k)
    BY <1>0, <2>0, <2>5 DEF EndTask
  <2> QED
    BY <2>1, <2>2, <2>3, <2>4, <2>5 DEF Grandchild
<1> QED
  BY <1>2, <1>3 DEF WriteInv

\* Every step keeps sem_write with its holder.
LEMMA WriteNext == WriteInv /\ TypeInv /\ [Next]_vars => WriteInv'
<1> SUFFICES ASSUME WriteInv, TypeInv, [Next]_vars PROVE WriteInv'
  OBVIOUS
<1> USE DEF supVars, countVars, procVars
<1>0. TypeInv' /\ nwaiting \in Nat
  BY TypeNext DEF TypeInv, TypeOK
<1>1. CASE SupervisorSteps \/ \E m \in 1 .. NTasks : MoreLeaves(m)
  BY <1>0, <1>1, WriteSupervisor
<1>2. CASE \E k \in Link : Grandchild(k)
  BY <1>2, WriteGrandchild
<1>3. CASE StartTasks \/ UNCHANGED vars
  BY <1>0, <1>3, WriteKept DEF StartTasks, vars
<1>4. CASE MainCalls
  BY <1>0, <1>4, WriteKept DEF MainCalls, StopTask, PollTask, WaitTasks
<1>5. CASE MainSteps
  BY <1>0, <1>5, WriteKept DEF MainSteps, Connect, WaitReceive,
     ElsewhereReceive, WaitEnd, ReadResultsSent, WaitDrain, WaitReturn,
     PollReply, PollResult
<1> QED
  BY <1>1, <1>2, <1>3, <1>4, <1>5 DEF Next, Finished

\* At most one grandchild writes to L(pid) at a time, and it is the one that
\* holds sem_write, although the supervisor may kill grandchildren at any time.
THEOREM WriteCorrect == Spec => []WriteExclusive
<1>1. WriteInv => WriteExclusive
  BY DEF WriteInv
<1>2. Spec => []WriteInv
  BY WriteInit, WriteNext, TypeInvariance, PTL DEF Spec
<1> QED
  BY <1>1, <1>2, PTL

-----------------------------------------------------------------------------
(* The links and the supervisor; from here on types are cited.             *)

HIDE DEF MainTypes, ChannelTypes, SupervisorTypes, ProcessTypes

\* A message is written to a channel.
LEMMA ElemsAppend ==
  ASSUME NEW S, NEW s \in Seq(S), NEW e \in S
  PROVE  /\ Elems(Append(s, e)) = Elems(s) \cup {e}
         /\ Len(Append(s, e)) = Len(s) + 1
         /\ \A i \in 1 .. Len(s) : Append(s, e)[i] = s[i]
         /\ Append(s, e)[Len(s) + 1] = e
<1>1. /\ Append(s, e) \in Seq(S) /\ Len(Append(s, e)) = Len(s) + 1
      /\ \A i \in 1 .. Len(s) : Append(s, e)[i] = s[i]
      /\ Append(s, e)[Len(s) + 1] = e
      /\ Len(s) \in Nat
  BY AppendProperties
<1> QED
  BY <1>1 DEF Elems

\* A second message on a channel.
LEMMA AppendToOne ==
  ASSUME NEW e, NEW f
  PROVE  Append(<<e>>, f) = <<e, f>>
<1> DEFINE S == {e, f}
           s == Append(<<e>>, f)
<1>1. <<e>> \in Seq(S) /\ f \in S /\ <<e, f>> \in Seq(S)
  OBVIOUS
<1>2. s \in Seq(S) /\ Len(s) = 2 /\ s[1] = e /\ s[2] = f
  BY <1>1, AppendProperties
<1>3. Len(<<e, f>>) = 2 /\ <<e, f>>[1] = e /\ <<e, f>>[2] = f
  OBVIOUS
<1>4. \A i \in 1 .. Len(s) : i = 1 \/ i = 2
  BY <1>2
<1> HIDE DEF s
<1>5. \A i \in 1 .. Len(s) : s[i] = <<e, f>>[i]
  BY <1>2, <1>3, <1>4
<1> QED
  BY <1>1, <1>2, <1>3, <1>5, SeqEqual DEF s

\* The first message of a channel without repetitions is read.
LEMMA ElemsTail ==
  ASSUME NEW S, NEW s \in Seq(S), s # <<>>,
         \A i, j \in 1 .. Len(s) : s[i] = s[j] => i = j
  PROVE  /\ Head(s) \in Elems(s)
         /\ Elems(Tail(s)) = Elems(s) \ {Head(s)}
         /\ \A i, j \in 1 .. Len(Tail(s)) : Tail(s)[i] = Tail(s)[j] => i = j
         /\ Tail(s) \in Seq(S) /\ Len(Tail(s)) = Len(s) - 1
         /\ \A i \in 1 .. Len(Tail(s)) : Tail(s)[i] = s[i + 1]
         /\ Head(s) = s[1]
<1>1. /\ Tail(s) \in Seq(S) /\ Len(Tail(s)) = Len(s) - 1
      /\ \A i \in 1 .. Len(Tail(s)) : Tail(s)[i] = s[i + 1]
      /\ Len(s) \in Nat /\ Len(s) >= 1 /\ Head(s) = s[1]
  BY HeadTailProperties
<1>2. Elems(Tail(s)) = Elems(s) \ {Head(s)}
  <2>1. ASSUME NEW i \in 1 .. Len(s), i # 1
        PROVE  i - 1 \in 1 .. Len(Tail(s)) /\ Tail(s)[i - 1] = s[i]
    BY <1>1, <2>1
  <2>2. ASSUME NEW i \in 1 .. Len(Tail(s))
        PROVE  i + 1 \in 1 .. Len(s) /\ Tail(s)[i] # s[1]
    BY <1>1, <2>2
  <2>3. ASSUME NEW e \in Elems(s), e # s[1] PROVE e \in Elems(Tail(s))
    BY <2>1, <2>3 DEF Elems
  <2>4. ASSUME NEW e \in Elems(Tail(s)) PROVE e \in Elems(s) /\ e # s[1]
    BY <1>1, <2>2, <2>4 DEF Elems
  <2> QED
    BY <1>1, <2>3, <2>4
<1>3. s[1] \in Elems(s)
  BY <1>1 DEF Elems
<1>4. \A i, j \in 1 .. Len(Tail(s)) : Tail(s)[i] = Tail(s)[j] => i = j
  BY <1>1
<1> QED
  BY <1>1, <1>2, <1>3, <1>4

-----------------------------------------------------------------------------
\* A link with a process belongs to one task.
LEMMA LinkOwner ==
  ASSUME LinkInv, NEW k \in Link, gpc[k] # "none"
  PROVE  \E t \in Task : state[t] \in {1, 2} /\ assignment[t] = k
<1>1. ~Unused(k)
  BY DEF Unused
<1>2. PICK t \in Task : assignment[t] = k
  BY <1>1 DEF LinkInv
<1>3. k # 0
  BY DEF Link
<1> QED
  BY <1>2, <1>3 DEF LinkInv

\* A step that concerns one link k only: task t runs on it afterwards, and the
\* task that ran on it before, if another one, is finished.
LEMMA LinkMoved ==
  ASSUME LinkInv, TypeOK, TypeOK', NEW k \in Link, NEW t \in Task,
         \A l \in Link : l # k =>
            /\ gpc'[l] = gpc[l] /\ gtask'[l] = gtask[l]
            /\ down'[l] = down[l] /\ up'[l] = up[l],
         \A u \in Task : u # t => mstate'[u] = mstate[u],
         \A u \in Task : u # t /\ assignment[u] # k =>
            state'[u] = state[u] /\ assignment'[u] = assignment[u],
         \A u \in Task : u # t /\ assignment[u] = k =>
            state'[u] \notin {1, 2} /\ assignment'[u] = 0,
         assignment[t] \in {0, k}, assignment'[t] = k, state'[t] \in {1, 2},
         state'[t] = 1 => Running(t, k)',
         state'[t] = 2 => Holding(t, k)',
         state'[t] = 2 /\ mstate'[t] = "stopped" => Parked(t)',
         state'[t] = 2 /\ mstate'[t] = "completed" =>
            gpc'[k] \in {"release", "idle"}
  PROVE  /\ LinkInv'
         /\ \A u \in Task : u # t /\ assignment[u] # k =>
              /\ u \in Delivering' <=> u \in Delivering
              /\ OnSocket(u)' <=> OnSocket(u)
<1>0. 0 \notin Link
  BY DEF Link
<1>1. \A u \in Task : state'[u] \notin {1, 2} => assignment'[u] = 0
  BY DEF LinkInv
<1>2. \A u, v \in Task :
         state'[u] \in {1, 2} /\ assignment'[u] = assignment'[v] => u = v
  BY <1>0 DEF LinkInv
<1>3. ASSUME NEW u \in Task, u # t, state'[u] \in {1, 2}
      PROVE  /\ state[u] = state'[u] /\ assignment'[u] = assignment[u]
             /\ assignment[u] \in Link \ {k} /\ mstate'[u] = mstate[u]
  BY <1>3 DEF LinkInv
<1>4. \A u \in Task : state'[u] = 1 =>
        assignment'[u] \in Link /\ Running(u, assignment[u])'
  <2>1. ASSUME NEW u \in Task, u # t, state'[u] = 1
        PROVE  assignment'[u] \in Link /\ Running(u, assignment[u])'
    <3> DEFINE l == assignment[u]
    <3>1. l \in Link \ {k} /\ assignment'[u] = l /\ Running(u, l)
      BY <1>3, <2>1 DEF LinkInv
    <3>2. /\ gpc'[l] = gpc[l] /\ gtask'[l] = gtask[l]
          /\ down'[l] = down[l] /\ up'[l] = up[l]
      BY <3>1
    <3> HIDE DEF l
    <3> QED
      BY <3>1, <3>2 DEF Running
  <2>2. state'[t] = 1 =>
          assignment'[t] \in Link /\ Running(t, assignment[t])'
    BY DEF Running
  <2> QED
    BY <2>1, <2>2
<1>5. \A u \in Task : state'[u] = 2 =>
        /\ assignment'[u] \in Link /\ Holding(u, assignment[u])'
        /\ mstate'[u] = "stopped" => Parked(u)'
        /\ mstate'[u] = "completed" =>
             gpc'[assignment'[u]] \in {"release", "idle"}
  BY <1>3 DEF LinkInv, Holding, Parked
<1>6. \A l \in Link : (\A u \in Task : assignment'[u] # l) => Unused(l)'
  BY <1>0 DEF LinkInv, Unused
<1>7. ASSUME NEW u \in Task, u # t, assignment[u] # k
      PROVE  /\ u \in Delivering' <=> u \in Delivering
             /\ OnSocket(u)' <=> OnSocket(u)
  BY <1>3, <1>7 DEF LinkInv, Delivering, Parked, OnSocket
<1> QED
  BY <1>1, <1>2, <1>4, <1>5, <1>6, <1>7 DEF LinkInv

\* A step of the process on link k, the link of task t.
LEMMA LinkProcess ==
  ASSUME LinkInv, NEW k \in Link, NEW t \in Task,
         state[t] \in {1, 2}, assignment[t] = k,
         UNCHANGED <<state, assignment, mstate>>,
         \A l \in Link : l # k =>
            /\ gpc'[l] = gpc[l] /\ gtask'[l] = gtask[l]
            /\ down'[l] = down[l] /\ up'[l] = up[l],
         state[t] = 1 => Running(t, k)',
         state[t] = 2 => Holding(t, k)',
         state[t] = 2 /\ mstate[t] = "stopped" => Parked(t)',
         state[t] = 2 /\ mstate[t] = "completed" => gpc'[k] \in {"release", "idle"}
  PROVE  LinkInv'
<1>1. ASSUME NEW u \in Task, u # t, state[u] \in {1, 2}
      PROVE  assignment[u] # k
  BY <1>1 DEF LinkInv
<1>2. \A u \in Task : state[u] = 1 =>
        assignment[u] \in Link /\ Running(u, assignment[u])'
  BY <1>1 DEF LinkInv, Running
<1>3. \A u \in Task : state[u] = 2 =>
        /\ assignment[u] \in Link /\ Holding(u, assignment[u])'
        /\ mstate[u] = "stopped" => Parked(u)'
        /\ mstate[u] = "completed" =>
             gpc'[assignment[u]] \in {"release", "idle"}
  BY <1>1 DEF LinkInv, Holding, Parked
<1>4. \A l \in Link : (\A u \in Task : assignment[u] # l) => Unused(l)'
  BY DEF LinkInv, Unused
<1> QED
  BY <1>2, <1>3, <1>4 DEF LinkInv

\* A grandchild reads its call.
LEMMA LinkBegin ==
  ASSUME LinkInv, TypeOK, NEW k \in Link, BeginTask(k)
  PROVE  LinkInv' /\ Delivering' = Delivering
<1>1. PICK t \in Task : state[t] \in {1, 2} /\ assignment[t] = k
  BY LinkOwner DEF BeginTask
<1>2. state[t] = 1
  BY <1>1 DEF BeginTask, LinkInv, Holding
<1>3. down[k] = <<t>> /\ up[k] \in {<<>>, <<Ended>>}
  BY <1>1, <1>2 DEF BeginTask, LinkInv, Running
<1>4. gpc' = [gpc EXCEPT ![k] = "compute"] /\ gtask' = [gtask EXCEPT ![k] = t]
      /\ down' = [down EXCEPT ![k] = <<>>] /\ up' = up
      /\ UNCHANGED <<state, assignment, mstate>>
  BY <1>3 DEF BeginTask, supVars, mainVars
<1>5. Running(t, k)'
  BY <1>3, <1>4 DEF Running, TypeOK, ProcessTypes
<1>6. \A l \in Link : l # k =>
         /\ gpc'[l] = gpc[l] /\ gtask'[l] = gtask[l]
         /\ down'[l] = down[l] /\ up'[l] = up[l]
  BY <1>4 DEF TypeOK, ProcessTypes
<1>8. LinkInv'
  BY <1>1, <1>2, <1>4, <1>5, <1>6, LinkProcess
<1>7. Delivering' = Delivering
  BY <1>1, <1>2, <1>4 DEF Delivering, Parked, LinkInv, TypeOK, ProcessTypes
<1> QED
  BY <1>7, <1>8
\* A grandchild announces that its result is computed.
LEMMA LinkAnnounce ==
  ASSUME LinkInv, TypeOK, NEW k \in Link, Announce(k)
  PROVE  LinkInv' /\ Delivering' = Delivering
<1>1. PICK t \in Task : state[t] \in {1, 2} /\ assignment[t] = k
  BY LinkOwner DEF Announce
<1>2. state[t] = 1
  BY <1>1 DEF Announce, LinkInv, Holding
<1>3. gtask[k] = t /\ down[k] = <<>> /\ up[k] \in {<<>>, <<Ended>>}
  BY <1>1, <1>2 DEF Announce, LinkInv, Running
<1>4. Append(up[k], t) \in {<<t>>, <<Ended, t>>}
  <2>1. Append(<<>>, t) = <<t>>
    OBVIOUS
  <2>2. Append(<<Ended>>, t) = <<Ended, t>>
    BY AppendToOne
  <2> QED
    BY <1>3, <2>1, <2>2
<1>5. /\ gpc' = [gpc EXCEPT ![k] = "await"] /\ gtask' = gtask
      /\ down' = down /\ up' = [up EXCEPT ![k] = Append(up[k], t)]
      /\ UNCHANGED <<state, assignment, mstate>>
  BY <1>3 DEF Announce, supVars, mainVars
<1>6. Running(t, k)'
  BY <1>3, <1>4, <1>5 DEF Running, TypeOK, ProcessTypes
<1>7. \A l \in Link : l # k =>
         /\ gpc'[l] = gpc[l] /\ gtask'[l] = gtask[l]
         /\ down'[l] = down[l] /\ up'[l] = up[l]
  BY <1>5 DEF TypeOK, ProcessTypes
<1>8. LinkInv'
  BY <1>1, <1>2, <1>5, <1>6, <1>7, LinkProcess
<1>9. Delivering' = Delivering
  BY <1>1, <1>2, <1>5 DEF Delivering, Parked, LinkInv, TypeOK, ProcessTypes
<1> QED
  BY <1>8, <1>9

\* A grandchild takes sem_write and writes its index.
LEMMA LinkWriteIndex ==
  ASSUME LinkInv, PhaseInv, TypeOK, NEW k \in Link, WriteIndex(k)
  PROVE  /\ LinkInv' /\ Delivering' = Delivering
         /\ \E t \in Task :
              /\ state[t] = 2 /\ mstate[t] = "started" /\ assignment[t] = k
              /\ gpc[k] = "await" /\ gtask[k] = t
              /\ sock' = Append(sock, Piece("index", t))
              /\ gpc' = [gpc EXCEPT ![k] = "write"]
<1>1. PICK t \in Task : state[t] \in {1, 2} /\ assignment[t] = k
  BY LinkOwner DEF WriteIndex
<1>2. state[t] = 2
  BY <1>1 DEF WriteIndex, LinkInv, Running
<1>3. gtask[k] = t /\ down[k] = <<Go>> /\ up[k] = <<>>
  BY <1>1, <1>2 DEF WriteIndex, LinkInv, Holding
<1>4. mstate[t] = "started"
  <2>1. mstate[t] # "stopped" /\ mstate[t] # "completed"
    BY <1>1, <1>2, <1>3 DEF WriteIndex, LinkInv, Parked
  <2>2. mstate[t] # "created"
    BY <1>2 DEF PhaseInv
  <2> QED
    BY <2>1, <2>2 DEF TypeOK, MainTypes
<1>5. /\ gpc' = [gpc EXCEPT ![k] = "write"] /\ gtask' = gtask
      /\ down' = [down EXCEPT ![k] = <<>>] /\ up' = up
      /\ UNCHANGED <<state, assignment, mstate>>
      /\ sock' = Append(sock, Piece("index", t))
  BY <1>3 DEF WriteIndex, supVars, mainVars
<1>6. Holding(t, k)'
  BY <1>3, <1>5 DEF Holding, TypeOK, ProcessTypes
<1>7. \A l \in Link : l # k =>
         /\ gpc'[l] = gpc[l] /\ gtask'[l] = gtask[l]
         /\ down'[l] = down[l] /\ up'[l] = up[l]
  BY <1>5 DEF TypeOK, ProcessTypes
<1>8. LinkInv'
  BY <1>1, <1>2, <1>4, <1>5, <1>6, <1>7, LinkProcess
<1>9. Delivering' = Delivering
  <2>1. \A u \in Task : state[u] = 2 => (Parked(u)' <=> Parked(u))
    <3>1. ASSUME NEW u \in Task, state[u] = 2, u # t
          PROVE  assignment[u] \in Link \ {k}
      BY <1>1, <3>1 DEF LinkInv
    <3>2. ~Parked(t) /\ ~Parked(t)'
      BY <1>1, <1>3, <1>5 DEF Parked, TypeOK, ProcessTypes
    <3> QED
      BY <1>5, <3>1, <3>2 DEF Parked, TypeOK, ProcessTypes
  <2> QED
    BY <1>5, <2>1 DEF Delivering
<1> QED
  BY <1>1, <1>2, <1>3, <1>4, <1>5, <1>8, <1>9 DEF WriteIndex

\* A grandchild writes its result and returns sem_write.
LEMMA LinkWriteResult ==
  ASSUME LinkInv, PhaseInv, TypeOK, NEW k \in Link, WriteResult(k)
  PROVE  /\ LinkInv' /\ Delivering' = Delivering
         /\ \E t \in Task :
              /\ state[t] = 2 /\ mstate[t] = "started" /\ assignment[t] = k
              /\ gpc[k] = "write" /\ gtask[k] = t
              /\ sock' = Append(sock, Piece("result", t))
              /\ gpc' = [gpc EXCEPT ![k] = "release"]
<1>1. PICK t \in Task : state[t] \in {1, 2} /\ assignment[t] = k
  BY LinkOwner DEF WriteResult
<1>2. state[t] = 2
  BY <1>1 DEF WriteResult, LinkInv, Running
<1>3. gtask[k] = t /\ down[k] = <<>> /\ up[k] = <<>>
  BY <1>1, <1>2 DEF WriteResult, LinkInv, Holding
<1>4. mstate[t] = "started"
  <2>1. mstate[t] # "stopped" /\ mstate[t] # "completed"
    BY <1>1, <1>2, <1>3 DEF WriteResult, LinkInv, Parked
  <2>2. mstate[t] # "created"
    BY <1>2 DEF PhaseInv
  <2> QED
    BY <2>1, <2>2 DEF TypeOK, MainTypes
<1>5. /\ gpc' = [gpc EXCEPT ![k] = "release"] /\ gtask' = gtask
      /\ down' = down /\ up' = up
      /\ UNCHANGED <<state, assignment, mstate>>
      /\ sock' = Append(sock, Piece("result", t))
  BY <1>3 DEF WriteResult, supVars, mainVars, linkVars
<1>6. Holding(t, k)'
  BY <1>3, <1>5 DEF Holding, TypeOK, ProcessTypes
<1>7. \A l \in Link : l # k =>
         /\ gpc'[l] = gpc[l] /\ gtask'[l] = gtask[l]
         /\ down'[l] = down[l] /\ up'[l] = up[l]
  BY <1>5 DEF TypeOK, ProcessTypes
<1>8. LinkInv'
  BY <1>1, <1>2, <1>4, <1>5, <1>6, <1>7, LinkProcess
<1>9. Delivering' = Delivering
  BY <1>1, <1>2, <1>4, <1>5
     DEF WriteResult, Delivering, Parked, LinkInv, TypeOK, ProcessTypes
<1> QED
  BY <1>1, <1>2, <1>3, <1>4, <1>5, <1>8, <1>9 DEF WriteResult

\* A grandchild ends its call.
LEMMA LinkEnd ==
  ASSUME LinkInv, TypeOK, NEW k \in Link, EndTask(k)
  PROVE  LinkInv' /\ Delivering' = Delivering
<1>1. PICK t \in Task : state[t] \in {1, 2} /\ assignment[t] = k
  BY LinkOwner DEF EndTask
<1>3. up[k] = <<>> /\ down[k] = IF state[t] = 1 THEN <<t>> ELSE <<>>
  BY <1>1 DEF EndTask, LinkInv, Running, Holding
<1>4. Append(up[k], Ended) = <<Ended>>
  BY <1>3
<1>5. /\ gpc' = [gpc EXCEPT ![k] = "idle"] /\ gtask' = [gtask EXCEPT ![k] = 0]
      /\ down' = down /\ up' = [up EXCEPT ![k] = <<Ended>>]
      /\ UNCHANGED <<state, assignment, mstate>>
  BY <1>4 DEF EndTask, supVars, mainVars
<1>6. (state[t] = 1 => Running(t, k)') /\ (state[t] = 2 => Holding(t, k)')
  BY <1>1, <1>3, <1>5 DEF Running, Holding, TypeOK, ProcessTypes
<1>7. \A l \in Link : l # k =>
         /\ gpc'[l] = gpc[l] /\ gtask'[l] = gtask[l]
         /\ down'[l] = down[l] /\ up'[l] = up[l]
  BY <1>5 DEF TypeOK, ProcessTypes
<1>8. gpc'[k] = "idle" /\ gpc[k] = "release"
      /\ (state[t] = 2 => mstate[t] # "stopped")
  BY <1>1, <1>5 DEF EndTask, LinkInv, Parked, TypeOK, ProcessTypes
<1>9. LinkInv'
  BY <1>1, <1>5, <1>6, <1>7, <1>8, LinkProcess
<1>10. Delivering' = Delivering
  BY <1>1, <1>5, <1>8 DEF Delivering, Parked, LinkInv, TypeOK, ProcessTypes
<1> QED
  BY <1>9, <1>10
-----------------------------------------------------------------------------
\* The steps of the supervisor.  A request is read from the head of l(pid).
LEMMA ReadFacts ==
  ASSUME TypeOK, RequestInv, NEW code, ReadRequest(code)
  PROVE  /\ spc = "run" /\ opening = 0
         /\ Head(toSup) \in Unread /\ Head(toSup).code = code
         /\ Unread' = Unread \ {Head(toSup)}
         /\ toSup' \in Seq(Requests) /\ Len(toSup') = Len(toSup) - 1
         /\ \A i \in 1 .. Len(toSup') : toSup'[i] = toSup[i + 1]
         /\ \A i, j \in 1 .. Len(toSup') : toSup'[i] = toSup'[j] => i = j
         /\ \A i \in 1 .. Len(toSup') : toSup'[i] = EndMsg => i = Len(toSup')
         /\ Head(toSup) = EndMsg => toSup' = <<>>
<1>1. toSup \in Seq(Requests) /\ toSup # <<>> /\ toSup' = Tail(toSup)
      /\ Head(toSup).code = code
  BY DEF TypeOK, ChannelTypes, ReadRequest, Requests
<1>2. \A i, j \in 1 .. Len(toSup) : toSup[i] = toSup[j] => i = j
  BY DEF RequestInv
<1>3. /\ Head(toSup) \in Unread /\ Unread' = Unread \ {Head(toSup)}
      /\ toSup' \in Seq(Requests) /\ Len(toSup') = Len(toSup) - 1
      /\ \A i \in 1 .. Len(toSup') : toSup'[i] = toSup[i + 1]
      /\ \A i, j \in 1 .. Len(toSup') : toSup'[i] = toSup'[j] => i = j
      /\ Head(toSup) = toSup[1]
  BY <1>1, <1>2, ElemsTail DEF Unread
<1>4. \A i \in 1 .. Len(toSup) : toSup[i] = EndMsg => i = Len(toSup)
  BY DEF RequestInv
<1>5. Len(toSup) \in Nat /\ Len(toSup) >= 1
  BY <1>1
<1>6. \A i \in 1 .. Len(toSup') : toSup'[i] = EndMsg => i = Len(toSup')
  BY <1>3, <1>4, <1>5
<1>7. Head(toSup) = EndMsg => toSup' = <<>>
  <2>1. Head(toSup) = EndMsg => Len(toSup) = 1
    BY <1>3, <1>4, <1>5
  <2> QED
    BY <1>3, <2>1, EmptySeq
<1>8. spc = "run" /\ opening = 0
  BY DEF ReadRequest, Listening, FirstLoop, SecondLoop
<1> QED
  BY <1>1, <1>3, <1>6, <1>7, <1>8

\* What a request that is read was sent for.
LEMMA ReadTask ==
  ASSUME TypeOK, RequestInv, NEW code \in {"stop", "poll", "got"},
         ReadRequest(code), NEW id, id = Head(toSup).id
  PROVE  /\ id \in Task
         /\ code = "stop" => /\ Head(toSup) = StopMsg(id)
                             /\ mstate[id] = "stopped" /\ state[id] \in 0 .. 2
         /\ code = "got" => /\ Head(toSup) = GotMsg(id)
                            /\ mstate[id] = "completed" /\ state[id] = 2
         /\ code = "poll" => /\ Head(toSup) = PollMsg(id)
                             /\ mpc = "poll" /\ asked = {id}
<1> DEFINE m == Head(toSup)
<1>1. m \in Unread /\ m.code = code
  BY ReadFacts
<1>2. m \in TaskRequests
  <2>1. toSup \in Seq(Requests) /\ toSup # <<>>
    BY DEF TypeOK, ChannelTypes, ReadRequest, Requests
  <2>2. m \in Requests
    BY <2>1, HeadTailProperties
  <2> QED
    BY <1>1, <2>2 DEF Requests, WaitRequests
<1>3. id \in Task /\ m = Request(code, id, {}, 0)
  BY <1>1, <1>2 DEF TaskRequests, Request
<1> HIDE DEF m
<1> QED
  BY <1>1, <1>3 DEF m, RequestInv, StopMsg, GotMsg, PollMsg

\* The supervisor reads the beginning of the one waitTasks under way.
LEMMA ReadWait ==
  ASSUME TypeOK, RequestInv, ReadRequest("wait"), Head(toSup) # EndMsg
  PROVE  /\ WaitUnread /\ ~WaitUnread'
         /\ mpc \in {"wait", "ending"}
         /\ Head(toSup).ids = asked /\ Head(toSup).n \in Int
         /\ Head(toSup).n >= need /\ results_got = 0
         /\ \A t \in asked : mstate[t] = "started"
<1>1. Head(toSup) \in Unread /\ Head(toSup).code = "wait"
      /\ Unread' = Unread \ {Head(toSup)}
  BY ReadFacts
<1>2. WaitUnread
  BY <1>1 DEF WaitUnread
<1>3. \A m \in Unread : m.code = "wait" /\ m # EndMsg => m = Head(toSup)
  BY <1>1 DEF RequestInv
<1>4. ~WaitUnread'
  BY <1>1, <1>3 DEF WaitUnread, EndMsg, WaitMsg, Request
<1>5. Head(toSup).n \in Int
  BY TypeRequest
<1> QED
  BY <1>1, <1>2, <1>4, <1>5 DEF RequestInv

\* The task at the head of queue waits.
LEMMA QueueFacts ==
  ASSUME TypeInv, CountInv, nwaiting > 0
  PROVE  /\ Head(queue) \in Task /\ state[Head(queue)] = 0
         /\ Elems(Tail(queue)) = {t \in Task : state[t] = 0} \ {Head(queue)}
         /\ \A i, j \in 1 .. Len(Tail(queue)) :
              Tail(queue)[i] = Tail(queue)[j] => i = j
<1>1. queue \in Seq(Task) /\ queue # <<>>
  BY DEF TypeInv, TypeOK, SupervisorTypes, QueueLength
<1>2. \A i, j \in 1 .. Len(queue) : queue[i] = queue[j] => i = j
  BY DEF CountInv
<1>3. /\ Head(queue) \in Elems(queue)
      /\ Elems(Tail(queue)) = Elems(queue) \ {Head(queue)}
      /\ \A i, j \in 1 .. Len(Tail(queue)) :
              Tail(queue)[i] = Tail(queue)[j] => i = j
  BY <1>1, <1>2, ElemsTail
<1> QED
  BY <1>3 DEF CountInv
\* There is a link for every task that waits or runs.
LEMMA LinksSuffice ==
  ASSUME CountInv
  PROVE  /\ IsFiniteSet(Task) /\ Cardinality(Task) = NTasks
         /\ nlinks \in Nat /\ nwaiting \in Nat /\ nlinks + nwaiting <= NTasks
<1> DEFINE W == {t \in Task : state[t] = 0}
<1>1. IsFiniteSet(Task) /\ Cardinality(Task) = NTasks
  BY ParamAssumption, FS_Interval DEF Task
<1>2. W \subseteq Task /\ Live \subseteq Task /\ W \cap Live = {}
      /\ W \cup Live \subseteq Task
  BY DEF Live
<1>3. IsFiniteSet(W) /\ IsFiniteSet(Live) /\ IsFiniteSet(W \cup Live)
      /\ Cardinality(W \cup Live) <= Cardinality(Task)
  BY <1>1, <1>2, FS_Subset
<1>4. Cardinality(W \cup Live)
        = Cardinality(W) + Cardinality(Live) - Cardinality(W \cap Live)
  BY <1>3, FS_Union
<1>5. Cardinality(W \cap Live) = 0
  BY <1>2, FS_EmptySet
<1>6. Cardinality(W) \in Nat /\ Cardinality(Live) \in Nat
  BY <1>3, FS_CardinalityType
<1> HIDE DEF W
<1>7. Cardinality(W) + Cardinality(Live) <= NTasks
  BY <1>1, <1>3, <1>4, <1>5, <1>6
<1> QED
  BY <1>1, <1>6, <1>7 DEF CountInv, W

\* A link that is opened is unused, and runs the head of the queue.
LEMMA LinkOpen ==
  ASSUME LinkInv, WriteInv, CountInv, TypeInv, TypeInv', OpenLink
  PROVE  /\ LinkInv' /\ Delivering' = Delivering
         /\ \A t \in Task : OnSocket(t)' <=> OnSocket(t)
<1>0. TypeOK /\ TypeOK'
  BY DEF TypeInv
<1>1. nwaiting > 0 /\ Launch(nlinks + 1, state, assignment)
  BY DEF OpenLink, LinksToOpen, TypeInv, TypeOK, SupervisorTypes, QueueLength
<1>2. PICK h \in Task : h = Head(queue) /\ state[h] = 0
  BY <1>1, QueueFacts
<1>3. PICK k \in Link : k = nlinks + 1
  BY <1>1, LinksSuffice, ParamAssumption DEF Link
<1>4. \A t \in Task : assignment[t] # k
  BY <1>1, <1>3, LinksSuffice DEF WriteInv, FreshLinks
<1>5. Unused(k)
  BY <1>3, <1>4 DEF LinkInv
<1>6. assignment[h] = 0
  BY <1>2 DEF LinkInv
<1>7. /\ state' = [state EXCEPT ![h] = 1]
      /\ assignment' = [assignment EXCEPT ![h] = k]
      /\ gpc' = [gpc EXCEPT ![k] = "idle"]
      /\ down' = [down EXCEPT ![k] = <<h>>]
      /\ UNCHANGED <<mstate, gtask, up>>
  BY <1>1, <1>2, <1>3 DEF OpenLink, Launch, mainVars
<1>8. /\ \A l \in Link : l # k =>
            /\ gpc'[l] = gpc[l] /\ gtask'[l] = gtask[l]
            /\ down'[l] = down[l] /\ up'[l] = up[l]
      /\ gpc'[k] = "idle" /\ gtask'[k] = 0 /\ down'[k] = <<h>> /\ up'[k] = <<>>
  BY <1>0, <1>3, <1>5, <1>7 DEF TypeOK, ProcessTypes, Unused
<1>9. /\ \A u \in Task : u # h =>
            state'[u] = state[u] /\ assignment'[u] = assignment[u]
      /\ state'[h] = 1 /\ assignment'[h] = k
  BY <1>0, <1>2, <1>7 DEF TypeOK, SupervisorTypes
<1>10. Running(h, k)'
  BY <1>8 DEF Running
<1>11. /\ LinkInv'
       /\ \A u \in Task : u # h /\ assignment[u] # k =>
            /\ u \in Delivering' <=> u \in Delivering
            /\ OnSocket(u)' <=> OnSocket(u)
  BY <1>0, <1>2, <1>3, <1>4, <1>6, <1>7, <1>8, <1>9, <1>10, LinkMoved
<1>12. \A u \in Task : /\ u \in Delivering' <=> u \in Delivering
                       /\ OnSocket(u)' <=> OnSocket(u)
  BY <1>2, <1>4, <1>9, <1>11 DEF Delivering, OnSocket
<1> QED
  BY <1>11, <1>12 DEF Delivering

\* A grandchild's announcement: the task becomes computed, and its result is
\* under way at once if the running waitTasks needs it.
LEMMA LinkComputed ==
  ASSUME LinkInv, AgreeInv, RequestInv, DeliverInv, DemandInv, PhaseInv,
         TypeOK, TypeOK', NEW k \in Link, ReadComputed(k)
  PROVE  /\ LinkInv'
         /\ \A t \in Task : OnSocket(t)' <=> OnSocket(t)
         /\ \E t \in Task :
              /\ state[t] = 1 /\ state' = [state EXCEPT ![t] = 2]
              /\ mstate[t] \in {"started", "stopped"} /\ t = Head(up[k])
              /\ t \notin Delivering
              /\ Delivering' = IF ndemanded > 0 /\ t \in demanded
                               THEN Delivering \cup {t} ELSE Delivering
<1>1. PICK t \in Task : state[t] \in {1, 2} /\ assignment[t] = k
  <2>1. up[k] # <<>>
    BY DEF ReadComputed
  <2>2. ~Unused(k)
    BY <2>1 DEF Unused
  <2>3. PICK t \in Task : assignment[t] = k
    BY <2>2 DEF LinkInv
  <2>4. k # 0
    BY DEF Link
  <2> QED
    BY <2>3, <2>4 DEF LinkInv
<1>2. up[k] # <<>> /\ up[k] # <<Ended>> /\ up[k] # <<Ended, t>>
  BY DEF ReadComputed
<1>3. /\ state[t] = 1 /\ gpc[k] = "await" /\ gtask[k] = t
      /\ down[k] = <<>> /\ up[k] = <<t>>
  BY <1>1, <1>2 DEF LinkInv, Running, Holding
<1>4. mstate[t] \in {"started", "stopped"}
  <2>1. mstate[t] # "completed"
    BY <1>3 DEF AgreeInv, RequestInv
  <2>2. mstate[t] # "created"
    BY <1>3 DEF PhaseInv
  <2> QED
    BY <2>1, <2>2 DEF TypeOK, MainTypes
<1> DEFINE serve == ndemanded > 0 /\ t \in demanded
<1>5. serve => mstate[t] = "started"
  <2>1. SUFFICES ASSUME serve PROVE mstate[t] = "started"
    OBVIOUS
  <2>2. Serving /\ t \in asked
    BY <2>1 DEF DemandInv
  <2>3. mstate[t] \in {"started", "completed"}
    BY <2>2 DEF Serving, DeliverInv
  <2> QED
    BY <1>4, <2>3
<1>6. /\ state' = [state EXCEPT ![t] = 2]
      /\ down' = IF serve THEN [down EXCEPT ![k] = Append(@, Go)] ELSE down
      /\ up' = [up EXCEPT ![k] = Tail(@)]
      /\ UNCHANGED <<mstate, assignment, gpc, gtask>>
  BY <1>3 DEF ReadComputed, mainVars, procVars
<1>7. /\ \A l \in Link : l # k =>
            /\ gpc'[l] = gpc[l] /\ gtask'[l] = gtask[l]
            /\ down'[l] = down[l] /\ up'[l] = up[l]
      /\ gpc'[k] = "await" /\ gtask'[k] = t /\ up'[k] = <<>>
      /\ down'[k] = IF serve THEN <<Go>> ELSE <<>>
  BY <1>3, <1>6 DEF TypeOK, ProcessTypes
<1>8. /\ \A u \in Task : u # t => state'[u] = state[u]
      /\ state'[t] = 2
  BY <1>6 DEF TypeOK, SupervisorTypes
<1>9. \A u \in Task : u # t => assignment[u] # k
  BY <1>1 DEF LinkInv
<1>10. Holding(t, k)' /\ (Parked(t)' <=> ~serve)
  <2>1. assignment'[t] = k /\ <<Go>> # <<>>
    BY <1>1, <1>6
  <2>2. CASE serve
    BY <1>7, <2>1, <2>2 DEF Holding, Parked
  <2>3. CASE ~serve
    BY <1>7, <2>1, <2>3 DEF Holding, Parked
  <2> QED
    BY <2>2, <2>3
<1>11. /\ LinkInv'
       /\ \A u \in Task : u # t /\ assignment[u] # k =>
            /\ u \in Delivering' <=> u \in Delivering
            /\ OnSocket(u)' <=> OnSocket(u)
  BY <1>1, <1>4, <1>5, <1>6, <1>7, <1>8, <1>9, <1>10, LinkMoved
<1>12. /\ t \notin Delivering /\ (t \in Delivering' <=> serve)
       /\ ~OnSocket(t) /\ ~OnSocket(t)'
  BY <1>1, <1>3, <1>5, <1>6, <1>7, <1>8, <1>10, <1>4 DEF Delivering, OnSocket
<1>13. Delivering' = IF serve THEN Delivering \cup {t} ELSE Delivering
  BY <1>9, <1>11, <1>12 DEF Delivering
<1>14. \A u \in Task : OnSocket(u)' <=> OnSocket(u)
  BY <1>9, <1>11, <1>12
<1> QED
  <2>1. t = Head(up[k])
    BY <1>3
  <2> QED
    BY <1>3, <1>4, <1>6, <1>11, <1>12, <1>13, <1>14, <2>1
\* The supervisor reads the end of a call: the next comes on that link.
LEMMA LinkEnded ==
  ASSUME LinkInv, TypeOK, TypeOK', NEW k \in Link, ReadEnded(k)
  PROVE  /\ LinkInv' /\ Delivering' = Delivering
         /\ \A t \in Task : OnSocket(t)' <=> OnSocket(t)
<1>1. PICK t \in Task : state[t] \in {1, 2} /\ assignment[t] = k
  <2>1. up[k] # <<>>
    BY DEF ReadEnded
  <2>2. ~Unused(k)
    BY <2>1 DEF Unused
  <2>3. PICK t \in Task : assignment[t] = k
    BY <2>2 DEF LinkInv
  <2>4. k # 0
    BY DEF Link
  <2> QED
    BY <2>3, <2>4 DEF LinkInv
<1>2. up[k] # <<>> /\ up[k] # <<t>>
  BY DEF ReadEnded, Ended, Task
<1>3. /\ state[t] = 1 => Running(t, k)
      /\ state[t] = 2 => Holding(t, k) /\ up[k] = <<Ended>>
      /\ up[k] \in {<<Ended>>, <<Ended, t>>}
  BY <1>1, <1>2 DEF LinkInv, Running, Holding
<1>4. Tail(up[k]) = IF up[k] = <<Ended>> THEN <<>> ELSE <<t>>
  <2>1. Tail(<<Ended>>) = <<>> /\ Tail(<<Ended, t>>) = <<t>>
    OBVIOUS
  <2>2. <<Ended>> # <<Ended, t>>
    OBVIOUS
  <2> QED
    BY <1>3, <2>1, <2>2
<1>5. /\ up' = [up EXCEPT ![k] = Tail(up[k])]
      /\ UNCHANGED <<state, assignment, mstate, gpc, gtask, down>>
  BY DEF ReadEnded, supVars, mainVars, procVars
<1>6. /\ up'[k] = Tail(up[k])
      /\ \A l \in Link : l # k => up'[l] = up[l]
  BY <1>5 DEF TypeOK, ProcessTypes
<1>7. (state[t] = 1 => Running(t, k)') /\ (state[t] = 2 => Holding(t, k)')
  <2>1. CASE up[k] = <<Ended>>
    BY <1>3, <1>4, <1>5, <1>6, <2>1 DEF Running, Holding, Ended, Task
  <2>2. CASE up[k] = <<Ended, t>>
    BY <1>3, <1>4, <1>5, <1>6, <2>2 DEF Running, Holding
  <2> QED
    BY <1>3, <2>1, <2>2
<1>8. (state[t] = 2 /\ mstate[t] = "stopped" => Parked(t)')
      /\ (state[t] = 2 /\ mstate[t] = "completed" => gpc'[k] \in {"release", "idle"})
  BY <1>1, <1>5 DEF LinkInv, Parked
<1>9. LinkInv'
  BY <1>1, <1>5, <1>6, <1>7, <1>8, LinkProcess
<1> QED
  BY <1>5, <1>9 DEF Delivering, Parked, OnSocket

\* A step that changes at most what the main process or the supervisor know of
\* tasks that have no link.
LEMMA LinkKept ==
  ASSUME LinkInv, UNCHANGED <<assignment, gpc, gtask, down, up>>,
         \A t \in Task : state[t] \in {1, 2} \/ state'[t] \in {1, 2} =>
            state'[t] = state[t] /\ mstate'[t] = mstate[t]
  PROVE  /\ LinkInv' /\ Delivering' = Delivering
         /\ \A t \in Task : OnSocket(t)' <=> OnSocket(t)
<1>1. LinkInv'
  BY DEF LinkInv, Running, Holding, Parked, Unused
<1> QED
  BY <1>1 DEF Delivering, Parked, OnSocket

\* A request of a stopped or completed task while others wait: the link goes to
\* the head of queue.
LEMMA LinkRelaunch ==
  ASSUME LinkInv, CountInv, TypeInv, TypeInv', nwaiting > 0,
         NEW id \in Task, state[id] \in {1, 2}, mstate[id] \in {"stopped", "completed"},
         NEW final \in {-1, 3}, NEW k, k = assignment[id],
         Launch(k, [state EXCEPT ![id] = final], [assignment EXCEPT ![id] = 0]),
         UNCHANGED mstate,
         \A l \in Link : l # k =>
            /\ gpc'[l] = gpc[l] /\ gtask'[l] = gtask[l]
            /\ down'[l] = down[l] /\ up'[l] = up[l],
         \A t \in Task : t = Head(queue) => Running(t, k)'
  PROVE  /\ LinkInv' /\ Delivering' = Delivering
         /\ \A t \in Task : OnSocket(t)' <=> OnSocket(t)
         /\ \E h \in Task : /\ h = Head(queue) /\ state[h] = 0 /\ h # id
                            /\ state' = [state EXCEPT ![id] = final, ![h] = 1]
<1>0. TypeOK /\ TypeOK'
  BY DEF TypeInv
<1>1. k \in Link
  BY DEF LinkInv
<1>2. PICK h \in Task : h = Head(queue) /\ state[h] = 0
  BY QueueFacts
<1>3. h # id /\ assignment[h] = 0 /\ k # 0
  BY <1>1, <1>2 DEF LinkInv, Link
<1>4. /\ state' = [state EXCEPT ![id] = final, ![h] = 1]
      /\ assignment' = [assignment EXCEPT ![id] = 0, ![h] = k]
  BY <1>2 DEF Launch
<1>5. /\ state'[h] = 1 /\ assignment'[h] = k
      /\ state'[id] = final /\ assignment'[id] = 0
      /\ \A u \in Task : u \notin {h, id} =>
            state'[u] = state[u] /\ assignment'[u] = assignment[u]
  BY <1>0, <1>3, <1>4 DEF TypeOK, SupervisorTypes
<1>6. \A u \in Task : assignment[u] = k => u = id
  BY DEF LinkInv
<1>7. Running(h, k)'
  BY <1>2
<1>8. /\ LinkInv'
      /\ \A u \in Task : u # h /\ assignment[u] # k =>
            /\ u \in Delivering' <=> u \in Delivering
            /\ OnSocket(u)' <=> OnSocket(u)
  BY <1>0, <1>1, <1>2, <1>3, <1>5, <1>6, <1>7, LinkMoved
<1>9. \A u \in {h, id} : /\ u \notin Delivering /\ u \notin Delivering'
                         /\ ~OnSocket(u) /\ ~OnSocket(u)'
  BY <1>2, <1>3, <1>5 DEF Delivering, OnSocket
<1>10. \A u \in Task : /\ u \in Delivering' <=> u \in Delivering
                       /\ OnSocket(u)' <=> OnSocket(u)
  BY <1>6, <1>8, <1>9
<1> QED
  BY <1>2, <1>3, <1>4, <1>8, <1>10 DEF Delivering
\* A running task is killed, and its link gets a new process and task.
LEMMA LinkStopAndReopen ==
  ASSUME LinkInv, CountInv, RequestInv, TypeInv, TypeInv', StopAndReopen
  PROVE  /\ LinkInv' /\ Delivering' = Delivering
         /\ \A t \in Task : OnSocket(t)' <=> OnSocket(t)
         /\ \E id, h \in Task :
              /\ Head(toSup) = StopMsg(id) /\ mstate[id] = "stopped"
              /\ h = Head(queue) /\ state[h] = 0 /\ h # id
              /\ state[id] \in {1, 2} /\ gpc[assignment[id]] # "write"
              /\ gpc' = [gpc EXCEPT ![assignment[id]] = "idle"]
              /\ state' = [state EXCEPT ![id] = -1, ![h] = 1]
<1>0. TypeOK /\ TypeOK'
  BY DEF TypeInv
<1>1. ReadRequest("stop") /\ nwaiting > 0 /\ UNCHANGED mstate
  BY DEF StopAndReopen, mainVars
<1>2. PICK id \in Task : id = Head(toSup).id /\ mstate[id] = "stopped"
                       /\ Head(toSup) = StopMsg(id)
  BY <1>0, <1>1, ReadTask
<1>3. PICK k : k = assignment[id]
  OBVIOUS
<1>4. /\ state[id] \in {1, 2}
      /\ Launch(k, [state EXCEPT ![id] = -1], [assignment EXCEPT ![id] = 0])
      /\ gpc' = [gpc EXCEPT ![k] = "idle"] /\ gtask' = [gtask EXCEPT ![k] = 0]
      /\ up' = [up EXCEPT ![k] = <<>>]
      /\ down' = [down EXCEPT ![k] = <<Head(queue)>>]
  BY <1>2, <1>3 DEF StopAndReopen, Killed
<1>5. k \in Link /\ gpc[k] # "write"
  BY <1>2, <1>3, <1>4 DEF LinkInv, Running, Parked
<1>6. /\ \A l \in Link : l # k =>
            /\ gpc'[l] = gpc[l] /\ gtask'[l] = gtask[l]
            /\ down'[l] = down[l] /\ up'[l] = up[l]
      /\ gpc'[k] = "idle" /\ gtask'[k] = 0 /\ up'[k] = <<>>
      /\ down'[k] = <<Head(queue)>>
  BY <1>0, <1>4, <1>5 DEF TypeOK, ProcessTypes
<1>7. \A t \in Task : t = Head(queue) => Running(t, k)'
  BY <1>6 DEF Running
<1>8. /\ LinkInv' /\ Delivering' = Delivering
      /\ \A t \in Task : OnSocket(t)' <=> OnSocket(t)
      /\ \E h \in Task : /\ h = Head(queue) /\ state[h] = 0 /\ h # id
                         /\ state' = [state EXCEPT ![id] = -1, ![h] = 1]
  <2>1. PICK final \in {-1, 3} : final = -1
    OBVIOUS
  <2>2. /\ state[id] \in {1, 2} /\ mstate[id] \in {"stopped", "completed"}
        /\ Launch(k, [state EXCEPT ![id] = final],
                     [assignment EXCEPT ![id] = 0])
    BY <1>2, <1>4, <2>1
  <2>3. /\ LinkInv' /\ Delivering' = Delivering
        /\ \A t \in Task : OnSocket(t)' <=> OnSocket(t)
        /\ \E h \in Task :
             /\ h = Head(queue) /\ state[h] = 0 /\ h # id
             /\ state' = [state EXCEPT ![id] = final, ![h] = 1]
    <3>1. /\ nwaiting > 0 /\ k = assignment[id] /\ UNCHANGED mstate
          /\ \A l \in Link : l # k =>
               /\ gpc'[l] = gpc[l] /\ gtask'[l] = gtask[l]
               /\ down'[l] = down[l] /\ up'[l] = up[l]
      BY <1>1, <1>3, <1>6
    <3> QED
      BY <1>7, <2>2, <3>1, LinkRelaunch, Zenon
  <2> QED
    BY <2>1, <2>3
<1> QED
  BY <1>2, <1>3, <1>4, <1>5, <1>8

\* A link whose result has been read gets the next task.
LEMMA LinkGotAndRelaunch ==
  ASSUME LinkInv, CountInv, RequestInv, TypeInv, TypeInv', GotAndRelaunch
  PROVE  /\ LinkInv' /\ Delivering' = Delivering
         /\ \A t \in Task : OnSocket(t)' <=> OnSocket(t)
         /\ \E id, h \in Task :
              /\ Head(toSup) = GotMsg(id) /\ mstate[id] = "completed"
              /\ h = Head(queue) /\ state[h] = 0 /\ h # id /\ state[id] = 2
              /\ state' = [state EXCEPT ![id] = 3, ![h] = 1]
<1>0. TypeOK /\ TypeOK'
  BY DEF TypeInv
<1>1. ReadRequest("got") /\ nwaiting > 0 /\ UNCHANGED <<mstate, gpc, gtask, up>>
  BY DEF GotAndRelaunch, mainVars, procVars
<1>2. PICK id \in Task : id = Head(toSup).id /\ mstate[id] = "completed"
                       /\ Head(toSup) = GotMsg(id) /\ state[id] = 2
  BY <1>0, <1>1, ReadTask
<1>3. PICK k : k = assignment[id]
  OBVIOUS
<1>4. /\ Launch(k, [state EXCEPT ![id] = 3], [assignment EXCEPT ![id] = 0])
      /\ down' = [down EXCEPT ![k] = Append(@, Head(queue))]
  BY <1>2, <1>3 DEF GotAndRelaunch
<1>5. /\ k \in Link /\ down[k] = <<>>
      /\ \/ gpc[k] = "release" /\ up[k] = <<>>
         \/ gpc[k] = "idle" /\ gtask[k] = 0 /\ up[k] \in {<<>>, <<Ended>>}
  BY <1>2, <1>3 DEF LinkInv, Holding
<1>6. /\ \A l \in Link : l # k =>
            /\ gpc'[l] = gpc[l] /\ gtask'[l] = gtask[l]
            /\ down'[l] = down[l] /\ up'[l] = up[l]
      /\ down'[k] = <<Head(queue)>>
  <2>1. Append(down[k], Head(queue)) = <<Head(queue)>>
    BY <1>5
  <2> QED
    BY <1>0, <1>1, <1>4, <1>5, <2>1 DEF TypeOK, ProcessTypes
<1>7. \A t \in Task : t = Head(queue) => Running(t, k)'
  BY <1>1, <1>5, <1>6 DEF Running
<1>8. /\ LinkInv' /\ Delivering' = Delivering
      /\ \A t \in Task : OnSocket(t)' <=> OnSocket(t)
      /\ \E h \in Task : /\ h = Head(queue) /\ state[h] = 0 /\ h # id
                         /\ state' = [state EXCEPT ![id] = 3, ![h] = 1]
  <2>1. /\ state[id] \in {1, 2} /\ mstate[id] \in {"stopped", "completed"}
        /\ nwaiting > 0 /\ 3 \in {-1, 3} /\ UNCHANGED mstate
    BY <1>1, <1>2
  <2>2. \A l \in Link : l # k =>
          /\ gpc'[l] = gpc[l] /\ gtask'[l] = gtask[l]
          /\ down'[l] = down[l] /\ up'[l] = up[l]
    BY <1>6
  <2> QED
    BY <1>3, <1>4, <1>7, <2>1, <2>2, LinkRelaunch
<1> QED
  BY <1>2, <1>3, <1>4, <1>5, <1>8

\* A link is closed for good: its task was stopped or its result read.
LEMMA LinkClosed ==
  ASSUME LinkInv, TypeOK, TypeOK', NEW id \in Task, state[id] \in {1, 2},
         mstate[id] \in {"stopped", "completed"}, NEW final \in {-1, 3},
         CloseLink(id, final), UNCHANGED mstate
  PROVE  /\ LinkInv' /\ Delivering' = Delivering
         /\ \A t \in Task : OnSocket(t)' <=> OnSocket(t)
         /\ gpc[assignment[id]] # "write"
         /\ gpc' = [gpc EXCEPT ![assignment[id]] = "none"]
         /\ state' = [state EXCEPT ![id] = final]
<1>1. PICK k \in Link : k = assignment[id]
  BY DEF LinkInv
<1>2. /\ gpc' = [gpc EXCEPT ![k] = "none"] /\ gtask' = [gtask EXCEPT ![k] = 0]
      /\ up' = [up EXCEPT ![k] = <<>>] /\ down' = [down EXCEPT ![k] = <<>>]
      /\ assignment' = [assignment EXCEPT ![id] = 0]
      /\ state' = [state EXCEPT ![id] = final]
  BY <1>1 DEF CloseLink, Killed
<1>3. /\ \A l \in Link : l # k =>
            /\ gpc'[l] = gpc[l] /\ gtask'[l] = gtask[l]
            /\ down'[l] = down[l] /\ up'[l] = up[l]
      /\ Unused(k)'
  BY <1>2 DEF Unused, TypeOK, ProcessTypes
<1>4. /\ \A u \in Task : u # id =>
            state'[u] = state[u] /\ assignment'[u] = assignment[u]
      /\ state'[id] = final /\ assignment'[id] = 0 /\ k # 0
  BY <1>2 DEF TypeOK, SupervisorTypes, Link
<1>5. ASSUME NEW u \in Task, state'[u] \in {1, 2}
      PROVE  /\ u # id /\ assignment'[u] = assignment[u] /\ state'[u] = state[u]
             /\ assignment[u] \in Link \ {k}
  BY <1>1, <1>4, <1>5 DEF LinkInv
<1>6. ASSUME NEW u \in Task, state'[u] = 1
      PROVE  assignment'[u] \in Link /\ Running(u, assignment[u])'
  <2>1. PICK l \in Link \ {k} : l = assignment[u] /\ assignment'[u] = l
    BY <1>5, <1>6
  <2>2. Running(u, l)
    BY <1>5, <1>6, <2>1 DEF LinkInv
  <2>3. Running(u, l)'
    BY <1>3, <2>1, <2>2 DEF Running
  <2> QED
    BY <2>1, <2>3
<1>7. \A u \in Task : state'[u] = 2 =>
        /\ assignment'[u] \in Link /\ Holding(u, assignment[u])'
        /\ mstate'[u] = "stopped" => Parked(u)'
        /\ mstate'[u] = "completed" =>
             gpc'[assignment'[u]] \in {"release", "idle"}
  BY <1>3, <1>5 DEF LinkInv, Holding, Parked
<1>8. \A l \in Link : (\A u \in Task : assignment'[u] # l) => Unused(l)'
  BY <1>1, <1>3, <1>4 DEF LinkInv, Unused
<1>9. /\ \A u \in Task : state'[u] \notin {1, 2} => assignment'[u] = 0
      /\ \A u, v \in Task :
         state'[u] \in {1, 2} /\ assignment'[u] = assignment'[v] => u = v
  <2>1. 0 \notin Link
    BY DEF Link
  <2> QED
    BY <1>4, <1>5, <2>1 DEF LinkInv
<1>10. LinkInv'
  BY <1>6, <1>7, <1>8, <1>9 DEF LinkInv
<1>11. \A u \in Task : /\ u \in Delivering' <=> u \in Delivering
                       /\ OnSocket(u)' <=> OnSocket(u)
  BY <1>3, <1>4, <1>5 DEF Delivering, OnSocket, Parked, LinkInv
<1>12. gpc[k] # "write"
  BY <1>1 DEF LinkInv, Running, Parked
<1> QED
  BY <1>1, <1>2, <1>10, <1>11, <1>12 DEF Delivering
\* The beginning of waitTasks: exactly the computed tasks get the go-ahead.
LEMMA LinkServeWait ==
  ASSUME LinkInv, RequestInv, DeliverInv, TypeInv, TypeInv', ServeWait
  PROVE  /\ LinkInv' /\ Delivering = {}
         /\ Delivering' = {t \in asked : state[t] = 2}
         /\ \A t \in Task : OnSocket(t)' <=> OnSocket(t)
<1>0. TypeOK /\ TypeOK'
  BY DEF TypeInv
<1> DEFINE C == {t \in asked : state[t] = 2}
<1>1. ReadRequest("wait") /\ Head(toSup) # EndMsg
  BY DEF ServeWait
<1>2. /\ WaitUnread /\ Head(toSup).ids = asked
      /\ \A t \in asked : mstate[t] = "started"
  BY <1>0, <1>1, ReadWait
<1>3. Delivering = {} /\ C \subseteq Task
  BY <1>0, <1>2 DEF DeliverInv, TypeOK, MainTypes
<1>4. \A t \in C : /\ state[t] = 2 /\ mstate[t] = "started" /\ Parked(t)
                   /\ assignment[t] \in Link /\ down[assignment[t]] = <<>>
                   /\ Holding(t, assignment[t])
  BY <1>2, <1>3 DEF Delivering, LinkInv, Parked
<1>5. /\ down' = [k \in Link |-> IF \E t \in C : assignment[t] = k
                                 THEN Append(down[k], Go) ELSE down[k]]
      /\ UNCHANGED <<state, assignment, mstate, gpc, gtask, up>>
  BY <1>2 DEF ServeWait, Computed, mainVars, procVars
<1> HIDE DEF C
<1>6. \A u \in Task, t \in C : assignment[u] = assignment[t] => u = t
  BY <1>3, <1>4 DEF LinkInv
<1>7. \A t \in C : down'[assignment[t]] = <<Go>>
  <2>1. Append(<<>>, Go) = <<Go>>
    OBVIOUS
  <2> QED
    BY <1>4, <1>5, <2>1
<1>8. \A u \in Task \ C : assignment[u] \in Link =>
         down'[assignment[u]] = down[assignment[u]]
  BY <1>5, <1>6
<1>9. \A t \in C : Holding(t, assignment[t])' /\ ~Parked(t)'
  <2> SUFFICES ASSUME NEW t \in C
               PROVE  Holding(t, assignment[t])' /\ ~Parked(t)'
    OBVIOUS
  <2>1. PICK l \in Link : l = assignment[t] /\ assignment'[t] = l
    BY <1>4, <1>5
  <2>2. gpc[l] = "await" /\ gtask[l] = t /\ up[l] = <<>>
    BY <1>4, <2>1 DEF Holding, Parked
  <2>3. gpc'[l] = "await" /\ gtask'[l] = t /\ up'[l] = <<>> /\ down'[l] = <<Go>>
    BY <1>5, <1>7, <2>1, <2>2
  <2> QED
    BY <2>1, <2>3 DEF Holding, Parked
<1>10. \A u \in Task : state[u] = 1 =>
         assignment[u] \in Link /\ Running(u, assignment[u])'
  <2> SUFFICES ASSUME NEW u \in Task, state[u] = 1
               PROVE  assignment[u] \in Link /\ Running(u, assignment[u])'
    OBVIOUS
  <2>1. PICK l \in Link : l = assignment[u] /\ assignment'[u] = l
                        /\ Running(u, l)
    BY <1>5 DEF LinkInv
  <2>2. down'[l] = down[l]
    BY <1>4, <1>8, <2>1
  <2> QED
    BY <1>5, <2>1, <2>2 DEF Running
<1>11. \A u \in Task \ C : state[u] = 2 =>
         /\ assignment[u] \in Link /\ Holding(u, assignment[u])'
         /\ Parked(u)' <=> Parked(u)
  <2> SUFFICES ASSUME NEW u \in Task \ C, state[u] = 2
               PROVE  /\ assignment[u] \in Link /\ Holding(u, assignment[u])'
                      /\ Parked(u)' <=> Parked(u)
    OBVIOUS
  <2>1. PICK l \in Link : l = assignment[u] /\ assignment'[u] = l
                        /\ Holding(u, l)
    BY <1>5 DEF LinkInv
  <2>2. down'[l] = down[l]
    BY <1>8, <2>1
  <2> QED
    BY <1>5, <2>1, <2>2 DEF Holding, Parked
<1>12. \A l \in Link : (\A u \in Task : assignment[u] # l) => Unused(l)'
  BY <1>3, <1>5 DEF LinkInv, Unused
<1>13. LinkInv'
  BY <1>4, <1>5, <1>9, <1>10, <1>11, <1>12 DEF LinkInv
<1>14. Delivering' = C
  BY <1>3, <1>4, <1>5, <1>9, <1>11 DEF Delivering
<1>15. \A t \in Task : OnSocket(t)' <=> OnSocket(t)
  BY <1>5 DEF OnSocket
<1> QED
  BY <1>3, <1>13, <1>14, <1>15 DEF C

\* The reply to a poll tells whether the result will follow.
LEMMA LinkServePoll ==
  ASSUME LinkInv, RequestInv, PhaseInv, TypeInv, TypeInv', ServePoll
  PROVE  /\ LinkInv' /\ \A t \in Task : OnSocket(t)' <=> OnSocket(t)
         /\ \E id \in Task :
              /\ Head(toSup) = PollMsg(id) /\ asked = {id} /\ mpc = "poll"
              /\ mstate[id] = "started" /\ toMain = <<>>
              /\ toMain' = <<state[id]>>
              /\ state[id] = 2 => id \in Delivering'
              /\ state[id] # 2 => id \notin Delivering'
              /\ \A t \in Task : t # id =>
                   (t \in Delivering' <=> t \in Delivering)
<1>0. TypeOK /\ TypeOK'
  BY DEF TypeInv
<1>1. ReadRequest("poll")
  BY DEF ServePoll
<1>2. PICK id \in Task : /\ id = Head(toSup).id /\ Head(toSup) = PollMsg(id)
                         /\ asked = {id} /\ mpc = "poll"
  BY <1>0, <1>1, ReadTask
<1>3. mstate[id] = "started"
  BY <1>2 DEF RequestInv
<1>4. PollMsg(id) \in Unread
  BY <1>0, <1>1, <1>2, ReadFacts
<1>5. toMain = <<>> /\ toMain' = <<state[id]>>
  <2>1. toMain = <<>>
    BY <1>2, <1>4 DEF PhaseInv
  <2> QED
    BY <1>2, <2>1 DEF ServePoll
<1>6. UNCHANGED <<state, assignment, mstate, gpc, gtask, up>>
  BY DEF ServePoll, mainVars, procVars
<1>7. CASE state[id] # 2
  <2>1. UNCHANGED down
    BY <1>2, <1>7 DEF ServePoll
  <2> QED
    BY <1>2, <1>3, <1>5, <1>6, <1>7, <2>1, LinkKept DEF Delivering
<1>8. CASE state[id] = 2
  <2>1. PICK k \in Link : k = assignment[id] /\ Holding(id, k)
    BY <1>8 DEF LinkInv
  <2>2. Parked(id)
    <3>1. id \notin Delivering
      BY <1>2, <1>4 DEF PhaseInv
    <3> QED
      BY <1>3, <1>8, <3>1 DEF Delivering
  <2>3. down' = [down EXCEPT ![k] = <<Go>>]
    BY <1>2, <1>8, <2>1, <2>2 DEF ServePoll, Parked
  <2>4. /\ down'[k] = <<Go>>
        /\ \A l \in Link : l # k => down'[l] = down[l]
    BY <1>0, <2>3 DEF TypeOK, ProcessTypes
  <2>5. Holding(id, k)' /\ ~Parked(id)'
    BY <1>6, <2>1, <2>2, <2>4 DEF Holding, Parked
  <2>6. LinkInv'
    BY <1>3, <1>6, <1>8, <2>1, <2>4, <2>5, LinkProcess
  <2>7. id \in Delivering'
    BY <1>3, <1>6, <1>8, <2>5 DEF Delivering
  <2>8. \A t \in Task : t # id => (t \in Delivering' <=> t \in Delivering)
    <3>1. \A t \in Task : t # id /\ state[t] = 2 => assignment[t] \in Link \ {k}
      BY <2>1 DEF LinkInv
    <3> QED
      BY <1>6, <2>4, <3>1 DEF Delivering, Parked
  <2>9. \A t \in Task : OnSocket(t)' <=> OnSocket(t)
    BY <1>6 DEF OnSocket
  <2> QED
    BY <1>2, <1>3, <1>5, <1>8, <2>6, <2>7, <2>8, <2>9
<1> QED
  BY <1>7, <1>8

-----------------------------------------------------------------------------
\* The steps of the main process.  Nothing that the user stops is under way.
LEMMA LinkStopTask ==
  ASSUME LinkInv, PhaseInv, AgreeInv, DeliverInv, TypeOK, NEW t \in Task,
         StopTask(t)
  PROVE  /\ LinkInv' /\ Delivering = {} /\ Delivering' = {}
         /\ \A u \in Task : OnSocket(u)' <=> OnSocket(u)
<1>1. mpc = "idle" /\ mstate[t] = "started"
      /\ mstate' = [mstate EXCEPT ![t] = "stopped"]
      /\ UNCHANGED <<state, assignment, gpc, gtask, down, up>>
  BY DEF StopTask, supVars, procVars, linkVars
<1>2. Delivering = {}
  BY <1>1 DEF PhaseInv, DeliverInv
<1>3. /\ mstate'[t] = "stopped"
      /\ \A u \in Task : u # t => mstate'[u] = mstate[u]
  BY <1>1 DEF TypeOK, MainTypes
<1>4. state[t] = 2 => Parked(t)
  BY <1>1, <1>2 DEF Delivering
<1>5. LinkInv'
  BY <1>1, <1>3, <1>4 DEF LinkInv, Running, Holding, Parked, Unused
<1>6. Delivering' = {}
  BY <1>1, <1>2, <1>3 DEF Delivering, Parked
<1>7. \A u \in Task : OnSocket(u)' <=> OnSocket(u)
  BY <1>1, <1>3, <1>4 DEF OnSocket, Parked
<1> QED
  BY <1>2, <1>5, <1>6, <1>7
-----------------------------------------------------------------------------
(***************************************************************************)
(* The socket.                                                             *)
(***************************************************************************)
LEMMA SocketKept ==
  ASSUME SocketInv, LinkInv, TypeOK, UNCHANGED sock,
         \A t \in Task : OnSocket(t)' <=> OnSocket(t),
         \A t \in Task : OnSocket(t) => assignment'[t] = assignment[t],
         \A k \in Link : /\ gpc'[k] = "write" <=> gpc[k] = "write"
                         /\ gpc[k] = "write" => gtask'[k] = gtask[k]
  PROVE  SocketInv'
<1>1. \A t \in Task : OnSocket(t) => assignment[t] \in Link
  BY DEF OnSocket, LinkInv
<1>2. \A t \in Task, i \in 1 .. Len(sock) : IndexAt(i, t) => IndexAt(i, t)'
  BY <1>1 DEF IndexAt
<1>3. \A i \in 1 .. Len(sock) : ResultAt(i) => ResultAt(i)'
  BY DEF ResultAt
<1>4. \A t \in Task : OnSocket(t)' => Piece("index", t) \in Elems(sock)
  BY DEF SocketInv
<1>5. \A k \in Link : gpc'[k] = "write" =>
         sock # <<>> /\ sock[Len(sock)] = Piece("index", gtask'[k])
  BY DEF SocketInv
<1> QED
  BY <1>2, <1>3, <1>4, <1>5 DEF SocketInv

\* A grandchild writes its index while no other one writes.
LEMMA SocketAppendIndex ==
  ASSUME SocketInv, LinkInv, TypeOK, NEW t \in Task, NEW k \in Link,
         assignment[t] = k, ~OnSocket(t), OnSocket(t)',
         \A u \in Task : u # t => (OnSocket(u)' <=> OnSocket(u)),
         UNCHANGED assignment, gtask[k] = t, UNCHANGED gtask,
         \A l \in Link : gpc[l] # "write",
         gpc' = [gpc EXCEPT ![k] = "write"],
         sock' = Append(sock, Piece("index", t))
  PROVE  SocketInv'
<1>1. sock \in Seq(Pieces) /\ Piece("index", t) \in Pieces
  BY DEF TypeOK, ChannelTypes, Pieces, Piece
<1>2. PICK n \in Nat : n = Len(sock)
  BY <1>1
<1>3. /\ Elems(sock') = Elems(sock) \cup {Piece("index", t)}
      /\ Len(sock') = n + 1
      /\ \A i \in 1 .. n : sock'[i] = sock[i]
      /\ sock'[n + 1] = Piece("index", t)
  BY <1>1, <1>2, ElemsAppend
<1>4. ASSUME NEW i \in 1 .. n, NEW u \in Task, IndexAt(i, u)
      PROVE  IndexAt(i, u)' /\ u # t /\ i < n
  <2>1. OnSocket(u) /\ u # t
    BY <1>4 DEF IndexAt
  <2>2. gpc[assignment[u]] # "write"
    BY <2>1 DEF OnSocket, LinkInv
  <2>3. i < n
    BY <1>2, <1>4, <2>2 DEF IndexAt
  <2>4. sock'[i] = Piece("index", u) /\ sock'[i + 1] = Piece("result", u)
    BY <1>2, <1>3, <1>4, <2>3 DEF IndexAt
  <2>5. \A j \in 1 .. n + 1 : sock'[j] = sock'[i] => j = i
    <3>1. Piece("index", u) # Piece("index", t)
      BY <2>1 DEF Piece
    <3> QED
      BY <1>2, <1>3, <1>4, <2>4, <3>1 DEF IndexAt
  <2>6. i < n + 1 /\ i # n + 1 /\ OnSocket(u)'
    BY <1>2, <2>1, <2>3
  <2> QED
    BY <1>3, <2>1, <2>3, <2>4, <2>5, <2>6 DEF IndexAt
<1>5. ASSUME NEW i \in 1 .. n, ResultAt(i)
      PROVE  ResultAt(i)'
  <2>1. Piece("index", t).kind = "index"
    BY DEF Piece
  <2> QED
    BY <1>2, <1>3, <1>5, <2>1 DEF ResultAt
<1>6. \A i \in 1 .. n : sock[i] # Piece("index", t)
  <2> SUFFICES ASSUME NEW i \in 1 .. n, sock[i] = Piece("index", t) PROVE FALSE
    OBVIOUS
  <2>1. ~ResultAt(i)
    BY DEF ResultAt, Piece
  <2>2. PICK u \in Task : IndexAt(i, u)
    BY <1>2, <2>1 DEF SocketInv
  <2>3. u = t
    BY <2>2 DEF IndexAt, Piece
  <2> QED
    BY <2>2, <2>3 DEF IndexAt
<1>7. IndexAt(n + 1, t)'
  <2>1. gpc'[assignment'[t]] = "write"
    BY DEF TypeOK, ProcessTypes
  <2> QED
    BY <1>3, <1>6, <2>1 DEF IndexAt
<1>8. \A i \in 1 .. n + 1 : ResultAt(i)' \/ \E u \in Task : IndexAt(i, u)'
  <2> SUFFICES ASSUME NEW i \in 1 .. n + 1
               PROVE  ResultAt(i)' \/ \E u \in Task : IndexAt(i, u)'
    OBVIOUS
  <2>1. CASE i = n + 1
    BY <1>7, <2>1
  <2>2. CASE i \in 1 .. n
    <3>1. ResultAt(i) \/ \E u \in Task : IndexAt(i, u)
      BY <1>2, <2>2 DEF SocketInv
    <3> QED
      BY <1>4, <1>5, <2>2, <3>1
  <2> QED
    BY <2>1, <2>2
<1>9. \A u \in Task : OnSocket(u)' => Piece("index", u) \in Elems(sock')
  BY <1>3 DEF SocketInv
<1>10. \A l \in Link : gpc'[l] = "write" =>
         sock' # <<>> /\ sock'[n + 1] = Piece("index", gtask'[l])
  <2>1. \A l \in Link : gpc'[l] = "write" => l = k
    BY DEF TypeOK, ProcessTypes
  <2>2. sock' # <<>>
    BY <1>3
  <2> QED
    BY <1>3, <2>1, <2>2
<1> QED
  BY <1>3, <1>8, <1>9, <1>10 DEF SocketInv

\* The grandchild that writes adds the result to its index.
LEMMA SocketAppendResult ==
  ASSUME SocketInv, LinkInv, TypeOK, NEW t \in Task, NEW k \in Link,
         assignment[t] = k, state[t] = 2, gtask[k] = t, gpc[k] = "write",
         UNCHANGED <<assignment, gtask>>,
         \A u \in Task : OnSocket(u)' <=> OnSocket(u),
         \A l \in Link : gpc[l] = "write" => l = k,
         gpc' = [gpc EXCEPT ![k] = "release"],
         sock' = Append(sock, Piece("result", t))
  PROVE  SocketInv'
<1>1. sock \in Seq(Pieces) /\ Piece("result", t) \in Pieces
  BY DEF TypeOK, ChannelTypes, Pieces, Piece
<1>2. PICK n \in Nat : n = Len(sock)
  BY <1>1
<1>3. /\ Elems(sock') = Elems(sock) \cup {Piece("result", t)}
      /\ Len(sock') = n + 1
      /\ \A i \in 1 .. n : sock'[i] = sock[i]
      /\ sock'[n + 1] = Piece("result", t)
  BY <1>1, <1>2, ElemsAppend
<1>4. /\ n >= 1 /\ sock[n] = Piece("index", t)
      /\ Piece("index", t).kind = "index" /\ Piece("result", t).kind = "result"
      /\ \A u : Piece("index", u) # Piece("result", t)
      /\ \A u : Piece("index", u) = Piece("index", t) => u = t
  <2>1. sock # <<>> /\ sock[n] = Piece("index", t)
    BY <1>2 DEF SocketInv
  <2>2. n # 0
    BY <1>1, <1>2, <2>1, EmptySeq
  <2> QED
    BY <2>1, <2>2 DEF Piece
<1>5. ASSUME NEW i \in 1 .. n, NEW u \in Task, IndexAt(i, u)
      PROVE  IndexAt(i, u)'
  <2>1. sock'[i + 1] = Piece("result", u)
    <3>1. CASE i = n
      BY <1>3, <1>4, <1>5, <3>1 DEF IndexAt
    <3>2. CASE i < n
      BY <1>2, <1>3, <1>5, <3>2 DEF IndexAt
    <3> QED
      BY <1>2, <3>1, <3>2
  <2>2. sock'[i] = Piece("index", u)
    BY <1>3, <1>5 DEF IndexAt
  <2>3. \A j \in 1 .. n + 1 : sock'[j] = sock'[i] => j = i
    BY <1>2, <1>3, <1>4, <1>5, <2>2 DEF IndexAt
  <2>4. OnSocket(u)'
    BY <1>5 DEF IndexAt
  <2>5. i # n + 1
    BY <1>2
  <2> QED
    BY <1>3, <2>1, <2>2, <2>3, <2>4, <2>5 DEF IndexAt
<1>6. ASSUME NEW i \in 1 .. n, ResultAt(i)
      PROVE  ResultAt(i)'
  <2>1. i # n
    BY <1>4, <1>6 DEF ResultAt
  <2> QED
    BY <1>2, <1>3, <1>6, <2>1 DEF ResultAt
<1>7. ResultAt(n + 1)'
  BY <1>3, <1>4 DEF ResultAt
<1>8. \A i \in 1 .. n + 1 : ResultAt(i)' \/ \E u \in Task : IndexAt(i, u)'
  <2> SUFFICES ASSUME NEW i \in 1 .. n + 1
               PROVE  ResultAt(i)' \/ \E u \in Task : IndexAt(i, u)'
    OBVIOUS
  <2>1. CASE i = n + 1
    BY <1>7, <2>1
  <2>2. CASE i \in 1 .. n
    <3>1. ResultAt(i) \/ \E u \in Task : IndexAt(i, u)
      BY <1>2, <2>2 DEF SocketInv
    <3> QED
      BY <1>5, <1>6, <2>2, <3>1
  <2> QED
    BY <2>1, <2>2
<1>9. \A u \in Task : OnSocket(u)' => Piece("index", u) \in Elems(sock')
  BY <1>3 DEF SocketInv
<1>10. \A l \in Link : gpc'[l] # "write"
  BY DEF TypeOK, ProcessTypes
<1> QED
  BY <1>3, <1>8, <1>9, <1>10 DEF SocketInv

\* What the main process reads from the socket: a whole result, of a task whose
\* grandchild is done with it, which the running call was made for.
LEMMA SocketRead ==
  ASSUME SocketInv, LinkInv, TypeOK, Len(sock) >= 2
  PROVE  \E t \in Task :
            /\ sock[1] = Piece("index", t) /\ sock[2] = Piece("result", t)
            /\ t \in Delivering /\ OnSocket(t)
            /\ gpc[assignment[t]] \in {"release", "idle"}
<1>1. sock \in Seq(Pieces) /\ Len(sock) \in Nat
  BY DEF TypeOK, ChannelTypes, Pieces
<1>2. ~ResultAt(1)
  BY DEF ResultAt
<1>3. PICK t \in Task : IndexAt(1, t)
  BY <1>1, <1>2 DEF SocketInv
<1>4. OnSocket(t) /\ sock[1] = Piece("index", t) /\ sock[2] = Piece("result", t)
  BY <1>1, <1>3 DEF IndexAt
<1>5. PICK k \in Link : k = assignment[t] /\ Holding(t, k)
  BY <1>4 DEF OnSocket, LinkInv
<1>6. gpc[k] # "write"
  <2> SUFFICES ASSUME gpc[k] = "write" PROVE FALSE
    OBVIOUS
  <2>1. gtask[k] = t
    BY <1>5 DEF Holding
  <2>2. sock[Len(sock)] = Piece("index", t)
    BY <2>1 DEF SocketInv
  <2> QED
    BY <1>1, <1>3, <1>4, <2>2 DEF IndexAt
<1>7. t \in Delivering
  BY <1>4 DEF OnSocket, Delivering, Parked
<1> QED
  BY <1>4, <1>5, <1>6, <1>7 DEF OnSocket

\* Reading a whole result from the socket.
LEMMA SocketReceive ==
  ASSUME SocketInv, LinkInv, TypeOK, NEW t \in Task,
         Len(sock) >= 2, sock[1] = Piece("index", t),
         sock[2] = Piece("result", t), sock' = Tail(Tail(sock)),
         UNCHANGED <<assignment, gpc, gtask>>,
         \A u \in Task : OnSocket(u)' <=> OnSocket(u) /\ u # t
  PROVE  SocketInv'
<1>1. sock \in Seq(Pieces)
  BY DEF TypeOK, ChannelTypes, Pieces
<1>2. PICK n \in Nat : n = Len(sock)
  BY <1>1
<1>3. /\ sock' \in Seq(Pieces) /\ Len(sock') = n - 2
      /\ \A i \in 1 .. n - 2 : sock'[i] = sock[i + 2]
  <2>1. /\ Tail(sock) \in Seq(Pieces) /\ Len(Tail(sock)) = n - 1
        /\ \A i \in 1 .. n - 1 : Tail(sock)[i] = sock[i + 1]
    BY <1>1, <1>2, HeadTailProperties
  <2>2. Tail(sock) # <<>>
    <3>1. Len(Tail(sock)) # 0
      BY <1>2, <2>1
    <3> QED
      BY <3>1, EmptySeq
  <2>3. /\ sock' \in Seq(Pieces) /\ Len(sock') = n - 2
        /\ \A i \in 1 .. n - 2 : sock'[i] = Tail(sock)[i + 1]
    BY <1>2, <2>1, <2>2, HeadTailProperties
  <2> QED
    BY <1>2, <2>1, <2>3
<1>4. /\ \A u : Piece("index", u) = Piece("index", t) <=> u = t
      /\ \A u : Piece("index", u) # Piece("result", t)
      /\ \A u : Piece("index", u).kind = "index"
      /\ Piece("result", t).kind = "result"
  BY DEF Piece
<1>5. PICK u \in Task : IndexAt(1, u)
  BY <1>2 DEF SocketInv, ResultAt
<1>6. IndexAt(1, t)
  BY <1>4, <1>5 DEF IndexAt
<1>7. ASSUME NEW i \in 1 .. n - 2, NEW v \in Task, IndexAt(i + 2, v)
      PROVE  IndexAt(i, v)'
  <2>1. v # t
    BY <1>2, <1>4, <1>6, <1>7 DEF IndexAt
  <2>2. OnSocket(v)'
    BY <1>7, <2>1 DEF IndexAt
  <2>3. \A j \in 1 .. n - 2 : sock'[j] = sock'[i] => j = i
    BY <1>2, <1>3, <1>7 DEF IndexAt
  <2>4. /\ i < n - 2 => sock'[i + 1] = Piece("result", v)
        /\ i = n - 2 => gpc'[assignment'[v]] = "write"
        /\ sock'[i] = Piece("index", v)
    BY <1>2, <1>3, <1>7 DEF IndexAt
  <2> QED
    BY <1>3, <2>2, <2>3, <2>4 DEF IndexAt
<1>8. ASSUME NEW i \in 1 .. n - 2, ResultAt(i + 2)
      PROVE  ResultAt(i)'
  <2>1. i # 1
    <3>1. ResultAt(2)
      <4>1. \A v \in Task : ~IndexAt(2, v)
        BY <1>4 DEF IndexAt
      <4> QED
        BY <1>2, <4>1 DEF SocketInv
    <3>2. n > 2 => sock[3].kind = "index"
      BY <1>2, <3>1 DEF ResultAt
    <3> QED
      BY <1>2, <1>8, <3>2 DEF ResultAt
  <2>2. sock'[i] = sock[i + 2] /\ (i < n - 2 => sock'[i + 1] = sock[i + 3])
    BY <1>2, <1>3
  <2>3. i > 1 /\ (i < n - 2 => i + 2 < n)
    BY <1>2, <2>1
  <2>4. Len(sock') = n - 2
    BY <1>3
  <2> QED
    BY <1>2, <1>8, <2>2, <2>3, <2>4 DEF ResultAt
<1>9. \A i \in 1 .. n - 2 : ResultAt(i)' \/ \E v \in Task : IndexAt(i, v)'
  <2> SUFFICES ASSUME NEW i \in 1 .. n - 2
               PROVE  ResultAt(i)' \/ \E v \in Task : IndexAt(i, v)'
    OBVIOUS
  <2>1. ResultAt(i + 2) \/ \E v \in Task : IndexAt(i + 2, v)
    BY <1>2 DEF SocketInv
  <2> QED
    BY <1>7, <1>8, <2>1
<1>10. ASSUME NEW v \in Task, OnSocket(v)'
       PROVE  Piece("index", v) \in Elems(sock')
  <2>1. PICK j \in 1 .. n : sock[j] = Piece("index", v)
    BY <1>2, <1>10 DEF SocketInv, Elems
  <2>2. j # 1 /\ j # 2
    BY <1>4, <1>10, <2>1
  <2>3. j - 2 \in 1 .. n - 2 /\ sock'[j - 2] = sock[j]
    BY <1>3, <2>2
  <2> QED
    BY <1>3, <2>1, <2>3 DEF Elems
<1>11. ASSUME NEW k \in Link, gpc'[k] = "write"
       PROVE  sock' # <<>> /\ sock'[n - 2] = Piece("index", gtask'[k])
  <2>1. sock[n] = Piece("index", gtask[k])
    BY <1>2, <1>11 DEF SocketInv
  <2>2. n - 2 \in 1 .. n - 2
    BY <1>2, <1>4, <2>1
  <2>3. sock'[n - 2] = sock[n]
    BY <1>2, <1>3, <2>2
  <2>4. Len(sock') # 0
    BY <1>2, <1>3, <2>2
  <2> QED
    BY <2>1, <2>3, <2>4, EmptySeq
<1> QED
  BY <1>3, <1>9, <1>10, <1>11 DEF SocketInv

-----------------------------------------------------------------------------
\* Every step of a grandchild keeps its link and the socket in order and changes
\* nothing about the results that the running call will get.
LEMMA GrandchildLinks ==
  ASSUME LinkInv, SocketInv, PhaseInv, WriteInv, TypeOK, NEW k \in Link,
         Grandchild(k)
  PROVE  LinkInv' /\ SocketInv' /\ Delivering' = Delivering
<1>0. 0 \notin Link
  BY DEF Link
<1>1. UNCHANGED <<state, assignment, mstate>>
  BY DEF Grandchild, BeginTask, Announce, WriteIndex, WriteResult, EndTask,
     supVars, mainVars
<1>2. ASSUME NEW t \in Task, OnSocket(t)
      PROVE  assignment[t] \in Link /\ Holding(t, assignment[t])
  BY <1>2 DEF OnSocket, LinkInv
<1>3. \A t \in Task : OnSocket(t) => assignment'[t] = assignment[t]
  BY <1>1
<1>4. gpc \in [Link -> ProcessStates] /\ gtask \in [Link -> Task \cup {0}]
  BY DEF TypeOK, ProcessTypes, ProcessStates
<1>5. ASSUME NEW pc, gpc' = [gpc EXCEPT ![k] = pc],
             NEW t \in Task, assignment[t] # k
      PROVE  OnSocket(t)' <=> OnSocket(t)
  <2>1. CASE state[t] = 2
    <3>1. assignment[t] \in Link
      BY <2>1 DEF LinkInv
    <3>2. gpc'[assignment[t]] = gpc[assignment[t]]
      BY <1>4, <1>5, <3>1
    <3> QED
      BY <1>1, <3>2 DEF OnSocket
  <2>2. CASE state[t] # 2
    BY <1>1, <2>2 DEF OnSocket
  <2> QED
    BY <2>1, <2>2
<1>6. CASE BeginTask(k) \/ Announce(k)
  <2>1. LinkInv' /\ Delivering' = Delivering
    BY <1>6, LinkBegin, LinkAnnounce
  <2>2. /\ UNCHANGED sock
        /\ (gpc[k] = "idle" /\ down[k] # <<>>) \/ gpc[k] = "compute"
        /\ gpc' = [gpc EXCEPT ![k] = "compute"] \/ gpc' = [gpc EXCEPT ![k] = "await"]
        /\ \A l \in Link : l # k => gtask'[l] = gtask[l]
    BY <1>4, <1>6 DEF BeginTask, Announce, chanVars
  <2>3. gpc'[k] \in {"compute", "await"} /\ \A l \in Link : l # k => gpc'[l] = gpc[l]
    BY <1>4, <2>2
  <2>4. \A t \in Task : OnSocket(t)' <=> OnSocket(t)
    <3> SUFFICES ASSUME NEW t \in Task PROVE OnSocket(t)' <=> OnSocket(t)
      OBVIOUS
    <3>1. CASE assignment[t] # k
      BY <1>5, <2>2, <3>1
    <3>2. CASE assignment[t] = k
      <4>1. ~OnSocket(t)'
        BY <1>1, <2>3, <3>2 DEF OnSocket
      <4>2. ~OnSocket(t)
        BY <1>2, <2>2, <3>2 DEF Holding
      <4> QED
        BY <4>1, <4>2
    <3> QED
      BY <3>1, <3>2
  <2>5. \A l \in Link : /\ gpc'[l] = "write" <=> gpc[l] = "write"
                        /\ gpc[l] = "write" => gtask'[l] = gtask[l]
    BY <2>2, <2>3
  <2>6. SocketInv'
    BY <1>3, <2>2, <2>4, <2>5, SocketKept
  <2> QED
    BY <2>1, <2>6
<1>7. CASE WriteIndex(k)
  <2>1. /\ LinkInv' /\ Delivering' = Delivering
        /\ \E t \in Task :
             /\ state[t] = 2 /\ mstate[t] = "started" /\ assignment[t] = k
             /\ gpc[k] = "await" /\ gtask[k] = t
             /\ sock' = Append(sock, Piece("index", t))
             /\ gpc' = [gpc EXCEPT ![k] = "write"]
    BY <1>7, LinkWriteIndex
  <2>2. PICK t \in Task :
             /\ state[t] = 2 /\ mstate[t] = "started" /\ assignment[t] = k
             /\ gpc[k] = "await" /\ gtask[k] = t
             /\ sock' = Append(sock, Piece("index", t))
             /\ gpc' = [gpc EXCEPT ![k] = "write"]
    BY <2>1
  <2>3. UNCHANGED gtask
    BY <1>7 DEF WriteIndex
  <2>4. \A l \in Link : gpc[l] # "write"
    BY <1>0, <1>7 DEF WriteIndex, MayWrite, WriteInv, WriteExclusive
  <2>5. ~OnSocket(t)
    BY <2>2 DEF OnSocket
  <2>6. gpc'[k] = "write"
    BY <1>4, <2>2
  <2>7. OnSocket(t)'
    BY <1>1, <2>2, <2>6 DEF OnSocket
  <2>8. \A u \in Task : u # t => (OnSocket(u)' <=> OnSocket(u))
    <3> SUFFICES ASSUME NEW u \in Task, u # t
                 PROVE  OnSocket(u)' <=> OnSocket(u)
      OBVIOUS
    <3>1. CASE assignment[u] # k
      BY <1>5, <2>2, <3>1
    <3>2. CASE assignment[u] = k
      <4>1. state[u] # 2
        BY <2>2, <3>2 DEF LinkInv
      <4> QED
        BY <1>1, <4>1 DEF OnSocket
    <3> QED
      BY <3>1, <3>2
  <2>9. SocketInv'
    BY <1>1, <2>2, <2>3, <2>4, <2>5, <2>7, <2>8, SocketAppendIndex
  <2> QED
    BY <2>1, <2>9
<1>8. CASE WriteResult(k)
  <2>1. /\ LinkInv' /\ Delivering' = Delivering
        /\ \E t \in Task :
             /\ state[t] = 2 /\ mstate[t] = "started" /\ assignment[t] = k
             /\ gpc[k] = "write" /\ gtask[k] = t
             /\ sock' = Append(sock, Piece("result", t))
             /\ gpc' = [gpc EXCEPT ![k] = "release"]
    BY <1>8, LinkWriteResult
  <2>2. PICK t \in Task :
             /\ state[t] = 2 /\ mstate[t] = "started" /\ assignment[t] = k
             /\ gpc[k] = "write" /\ gtask[k] = t
             /\ sock' = Append(sock, Piece("result", t))
             /\ gpc' = [gpc EXCEPT ![k] = "release"]
    BY <2>1
  <2>3. UNCHANGED gtask
    BY <1>8 DEF WriteResult
  <2>4. \A l \in Link : gpc[l] = "write" => l = k
    BY <2>2 DEF WriteInv, WriteExclusive
  <2>5. gpc'[k] = "release"
    BY <1>4, <2>2
  <2>6. \A u \in Task : OnSocket(u)' <=> OnSocket(u)
    <3> SUFFICES ASSUME NEW u \in Task PROVE OnSocket(u)' <=> OnSocket(u)
      OBVIOUS
    <3>1. CASE assignment[u] # k
      BY <1>5, <2>2, <3>1
    <3>2. CASE assignment[u] = k
      BY <1>1, <2>2, <2>5, <3>2 DEF OnSocket
    <3> QED
      BY <3>1, <3>2
  <2>7. SocketInv'
    BY <1>1, <2>2, <2>3, <2>4, <2>6, SocketAppendResult
  <2> QED
    BY <2>1, <2>7
<1>9. CASE EndTask(k)
  <2>1. LinkInv' /\ Delivering' = Delivering
    BY <1>9, LinkEnd
  <2>2. /\ UNCHANGED sock /\ gpc[k] = "release"
        /\ gpc' = [gpc EXCEPT ![k] = "idle"]
        /\ \A l \in Link : l # k => gtask'[l] = gtask[l]
    BY <1>4, <1>9 DEF EndTask, chanVars
  <2>3. gpc'[k] = "idle" /\ \A l \in Link : l # k => gpc'[l] = gpc[l]
    BY <1>4, <2>2
  <2>4. \A t \in Task : OnSocket(t)' <=> OnSocket(t)
    <3> SUFFICES ASSUME NEW t \in Task PROVE OnSocket(t)' <=> OnSocket(t)
      OBVIOUS
    <3>1. CASE assignment[t] # k
      BY <1>5, <2>2, <3>1
    <3>2. CASE assignment[t] = k
      BY <1>1, <2>2, <2>3, <3>2 DEF OnSocket
    <3> QED
      BY <3>1, <3>2
  <2>5. \A l \in Link : /\ gpc'[l] = "write" <=> gpc[l] = "write"
                        /\ gpc[l] = "write" => gtask'[l] = gtask[l]
    BY <2>2, <2>3
  <2>6. SocketInv'
    BY <1>3, <2>2, <2>4, <2>5, SocketKept
  <2> QED
    BY <2>1, <2>6
<1> QED
  BY <1>6, <1>7, <1>8, <1>9 DEF Grandchild

-----------------------------------------------------------------------------
(***************************************************************************)
(* The steps of the supervisor.                                            *)
(***************************************************************************)
Parts ==
    /\ PhaseInv /\ RequestInv /\ AgreeInv /\ LinkInv /\ SocketInv
    /\ DeliverInv /\ DemandInv /\ CountInv /\ DoneInv

CallParts ==
    PhaseInv /\ RequestInv /\ AgreeInv /\ DeliverInv /\ DemandInv /\ DoneInv

(***************************************************************************)
(* Cardinalities of sets of tasks.                                         *)
(***************************************************************************)
LEMMA TaskSets ==
  ASSUME NEW S \in SUBSET Task
  PROVE  /\ IsFiniteSet(S) /\ Cardinality(S) \in Nat
         /\ Cardinality(S) = 0 <=> S = {}
         /\ Cardinality(S) <= NTasks
         /\ Cardinality(S) = NTasks => S = Task
<1>1. IsFiniteSet(Task) /\ Cardinality(Task) = NTasks /\ NTasks \in Nat
  BY ParamAssumption, FS_Interval DEF Task
<1>2. IsFiniteSet(S) /\ Cardinality(S) <= Cardinality(Task)
      /\ (Cardinality(S) = Cardinality(Task) => S = Task)
  BY <1>1, FS_Subset
<1> QED
  BY <1>1, <1>2, FS_CardinalityType, FS_EmptySet

\* A set of tasks with one more.
LEMMA TaskAdded ==
  ASSUME NEW S \in SUBSET Task, NEW t \in Task, t \notin S
  PROVE  Cardinality(S \cup {t}) = Cardinality(S) + 1
BY TaskSets, FS_AddElement

\* A set of tasks with one less.
LEMMA TaskRemoved ==
  ASSUME NEW S \in SUBSET Task, NEW t \in S
  PROVE  Cardinality(S \ {t}) = Cardinality(S) - 1
BY TaskSets, FS_RemoveElement

-----------------------------------------------------------------------------
(***************************************************************************)
(* The lists and counters of the supervisor.                               *)
(***************************************************************************)
Waiting == {t \in Task : state[t] = 0}
Ready == {t \in Task : state[t] \in {-1, 3}}

\* The head of the queue is launched on a new link.
LEMMA CountLaunched ==
  ASSUME CountInv, TypeInv, nwaiting > 0, NEW h \in Task, h = Head(queue),
         state' = [state EXCEPT ![h] = 1], queue' = Tail(queue),
         nwaiting' = nwaiting - 1, nlinks' = nlinks + 1, UNCHANGED nfinished
  PROVE  CountInv'
<1>1. state \in [Task -> -1 .. 3]
  BY DEF TypeInv, TypeOK, SupervisorTypes
<1>2. /\ state[h] = 0 /\ Elems(queue') = Waiting \ {h}
      /\ \A i, j \in 1 .. Len(queue') : queue'[i] = queue'[j] => i = j
  BY QueueFacts DEF Waiting
<1>3. /\ Waiting' = Waiting \ {h} /\ h \in Waiting
      /\ Ready' = Ready
      /\ Live' = Live \cup {h} /\ h \notin Live
  BY <1>1, <1>2 DEF Waiting, Ready, Live
<1>4. Waiting \in SUBSET Task /\ Live \in SUBSET Task
  BY DEF Waiting, Live
<1>5. /\ Cardinality(Waiting') = Cardinality(Waiting) - 1
      /\ Cardinality(Live') = Cardinality(Live) + 1
  BY <1>3, <1>4, TaskAdded, TaskRemoved
<1> QED
  BY <1>2, <1>3, <1>5 DEF CountInv, Waiting, Ready

\* A task is over and its link is closed.
LEMMA CountClosed ==
  ASSUME CountInv, TypeInv, NEW id \in Task, state[id] \in {1, 2},
         NEW final \in {-1, 3}, state' = [state EXCEPT ![id] = final],
         nlinks' = nlinks - 1, nfinished' = nfinished + 1,
         UNCHANGED <<queue, nwaiting>>
  PROVE  CountInv'
<1>1. state \in [Task -> -1 .. 3]
  BY DEF TypeInv, TypeOK, SupervisorTypes
<1>2. /\ Waiting' = Waiting
      /\ Ready' = Ready \cup {id} /\ id \notin Ready
      /\ Live' = Live \ {id} /\ id \in Live
  BY <1>1 DEF Waiting, Ready, Live
<1>3. Ready \in SUBSET Task /\ Live \in SUBSET Task
  BY DEF Ready, Live
<1>4. /\ Cardinality(Ready') = Cardinality(Ready) + 1
      /\ Cardinality(Live') = Cardinality(Live) - 1
  BY <1>2, <1>3, TaskAdded, TaskRemoved
<1> QED
  BY <1>2, <1>4 DEF CountInv, Waiting, Ready

\* A task is over and the head of the queue takes its link.
LEMMA CountRelaunched ==
  ASSUME CountInv, TypeInv, nwaiting > 0, NEW h \in Task, h = Head(queue),
         NEW id \in Task, state[id] \in {1, 2}, NEW final \in {-1, 3},
         state' = [state EXCEPT ![id] = final, ![h] = 1], queue' = Tail(queue),
         nwaiting' = nwaiting - 1, nfinished' = nfinished + 1, UNCHANGED nlinks
  PROVE  CountInv'
<1>1. state \in [Task -> -1 .. 3]
  BY DEF TypeInv, TypeOK, SupervisorTypes
<1>2. /\ state[h] = 0 /\ Elems(queue') = Waiting \ {h}
      /\ \A i, j \in 1 .. Len(queue') : queue'[i] = queue'[j] => i = j
  BY QueueFacts DEF Waiting
<1>3. /\ Waiting' = Waiting \ {h} /\ h \in Waiting
      /\ Ready' = Ready \cup {id} /\ id \notin Ready
      /\ Live' = (Live \ {id}) \cup {h} /\ h \notin Live \ {id} /\ id \in Live
  BY <1>1, <1>2 DEF Waiting, Ready, Live
<1>4. Waiting \in SUBSET Task /\ Ready \in SUBSET Task /\ Live \in SUBSET Task
      /\ Live \ {id} \in SUBSET Task
  BY DEF Waiting, Ready, Live
<1>5. /\ Cardinality(Waiting') = Cardinality(Waiting) - 1
      /\ Cardinality(Ready') = Cardinality(Ready) + 1
  BY <1>3, <1>4, TaskAdded, TaskRemoved
<1>6. Cardinality(Live') = Cardinality(Live)
  <2>1. Cardinality(Live \ {id}) = Cardinality(Live) - 1
    BY <1>3, <1>4, TaskRemoved
  <2>2. Cardinality(Live') = Cardinality(Live \ {id}) + 1
    BY <1>3, <1>4, TaskAdded
  <2>3. Cardinality(Live) \in Nat
    BY <1>4, TaskSets
  <2> QED
    BY <2>1, <2>2, <2>3
<1> QED
  BY <1>2, <1>3, <1>5, <1>6 DEF CountInv, Waiting, Ready

\* give_priority neither loses nor repeats a task, and a single task moves to the
\* front.
LEMMA PriorityFacts ==
  ASSUME NEW q \in Seq(Task), \A i, j \in 1 .. Len(q) : q[i] = q[j] => i = j,
         NEW P, NEW r \in GivePriority(q, P)
  PROVE  /\ r \in Seq(Task) /\ Elems(r) = Elems(q) /\ Len(r) = Len(q)
         /\ \A i, j \in 1 .. Len(r) : r[i] = r[j] => i = j
         /\ \A t : P = {t} /\ t \in Elems(q) => r # <<>> /\ Head(r) = t
<1>1. r \in Seq(Task) /\ Len(r) = Len(q) /\ Elems(r) = Elems(q) /\ Len(q) \in Nat
  BY GivePriorityType
<1>2. \A i, j \in 1 .. Len(r) : r[i] = r[j] => i = j
  <2>1. CASE P = Elems(q)
    BY <2>1 DEF GivePriority
  <2>2. CASE P # Elems(q)
    BY <1>1, <2>2 DEF GivePriority
  <2> QED
    BY <2>1, <2>2
<1>3. ASSUME NEW t, P = {t}, t \in Elems(q)
      PROVE  r # <<>> /\ Head(r) = t
  <2>1. PICK j \in 1 .. Len(r) : r[j] = t
    <3>1. t \in Elems(r)
      BY <1>1, <1>3
    <3> QED
      BY <3>1 DEF Elems
  <2>2. Len(r) >= 1 /\ r # <<>> /\ Head(r) = r[1]
    BY <1>1, <2>1, HeadTailProperties, EmptySeq
  <2>3. r[1] \in P
    <3>1. CASE P = Elems(q)
      <4>1. 1 \in 1 .. Len(r)
        BY <1>1, <2>2
      <4>2. r[1] \in Elems(r)
        BY <4>1 DEF Elems
      <4> QED
        BY <1>1, <3>1, <4>2
    <3>2. CASE P # Elems(q)
      <4>1. r[j] \in P
        BY <1>3, <2>1
      <4>2. j # 1 => 1 < j
        BY <1>1, <2>1
      <4>3. \A i \in 1 .. Len(q) : i < j /\ r[j] \in P => r[i] \in P
        BY <1>1, <2>1, <3>2 DEF GivePriority
      <4> QED
        BY <1>1, <2>2, <4>1, <4>2, <4>3
    <3> QED
      BY <3>1, <3>2
  <2> QED
    BY <1>3, <2>2, <2>3
<1> QED
  BY <1>1, <1>2, <1>3

-----------------------------------------------------------------------------
(***************************************************************************)
(* Requests and calls.  Requests of different kinds or for different tasks *)
(* are different.                                                          *)
(***************************************************************************)
LEMMA MessageFacts ==
  /\ EndMsg.code = "wait"
  /\ \A S, n : WaitMsg(S, n).code = "wait" /\ WaitMsg(S, n).ids = S
               /\ WaitMsg(S, n).n = n
  /\ \A t : StopMsg(t).code = "stop" /\ PollMsg(t).code = "poll"
            /\ GotMsg(t).code = "got"
  /\ \A t, u : StopMsg(t) = StopMsg(u) \/ PollMsg(t) = PollMsg(u)
               \/ GotMsg(t) = GotMsg(u) => t = u
BY DEF EndMsg, WaitMsg, StopMsg, PollMsg, GotMsg, Request

\* Steps of the supervisor that send nothing to the main process.
LEMMA PhaseKept ==
  ASSUME PhaseInv, TypeOK, spc = "run", spc' \in {"run", "done"},
         UNCHANGED <<mainVars, toMain>>,
         EndMsg \in Unread' <=> EndMsg \in Unread,
         \A t \in Task : PollMsg(t) \in Unread' <=> PollMsg(t) \in Unread,
         results_sent' = results_sent \/ (mpc \in {"wait", "ending"} /\ toMain = <<>>),
         mpc \in {"poll", "pollresult"} => Delivering' = Delivering
  PROVE  PhaseInv'
<1>1. UNCHANGED <<mstate, mpc, asked, need, results_got, promised, sent, toMain>>
  BY DEF mainVars, callVars
<1>2. mpc \notin {"new", "starting"}
  BY DEF PhaseInv
<1>3. mpc = "ending" => toMain = IF EndMsg \in Unread' THEN <<>>
                                                       ELSE <<results_sent'>>
  BY DEF PhaseInv
<1>4. mpc = "poll" =>
         \A t \in asked :
            /\ asked = {t}
            /\ \/ PollMsg(t) \in Unread' /\ toMain = <<>> /\ t \notin Delivering'
               \/ /\ PollMsg(t) \notin Unread'
                  /\ \E s \in 0 .. 2 : toMain = <<s>> /\ (s = 2 <=> t \in Delivering')
  <2> SUFFICES ASSUME mpc = "poll", NEW t \in asked
               PROVE  /\ asked = {t}
                      /\ \/ PollMsg(t) \in Unread' /\ toMain = <<>> /\ t \notin Delivering'
                         \/ /\ PollMsg(t) \notin Unread'
                            /\ \E s \in 0 .. 2 :
                                 toMain = <<s>> /\ (s = 2 <=> t \in Delivering')
    OBVIOUS
  <2>1. \/ PollMsg(t) \in Unread /\ toMain = <<>> /\ t \notin Delivering
        \/ /\ PollMsg(t) \notin Unread
           /\ \E s \in 0 .. 2 : toMain = <<s>> /\ (s = 2 <=> t \in Delivering)
    BY DEF PhaseInv
  <2>2. Delivering' = Delivering /\ asked = {t}
    BY DEF PhaseInv
  <2>3. PollMsg(t) \in Unread' <=> PollMsg(t) \in Unread
    BY DEF TypeOK, MainTypes
  <2> QED
    BY <2>1, <2>2, <2>3
<1>5. mpc = "pollresult" => \E t \in asked : asked = {t} /\ t \in Delivering'
  BY DEF PhaseInv
<1>6. mpc = "drain" => sent = results_sent'
  BY DEF PhaseInv
<1> QED
  BY <1>1, <1>2, <1>3, <1>4, <1>5, <1>6 DEF PhaseInv

\* Steps of the supervisor that read a request, or none.
LEMMA RequestKept ==
  ASSUME RequestInv, UNCHANGED mainVars, Unread' \subseteq Unread,
         EndMsg \in Unread /\ WaitUnread' => EndMsg \in Unread',
         \A i, j \in 1 .. Len(toSup') : toSup'[i] = toSup'[j] => i = j,
         \A i \in 1 .. Len(toSup') : toSup'[i] = EndMsg => i = Len(toSup'),
         \A t \in Task : StopMsg(t) \in Unread' => state'[t] \in 0 .. 2,
         \A t \in Task : GotMsg(t) \in Unread' => state'[t] = 2
  PROVE  RequestInv'
<1>1. UNCHANGED <<mstate, mpc, asked, need, results_got>>
  BY DEF mainVars, callVars
<1>2. WaitUnread' => WaitUnread
  BY DEF WaitUnread
<1>3. \A m, n \in Unread' :
         m.code = "wait" /\ m # EndMsg =>
            /\ mpc \in {"wait", "ending"} /\ m.ids = asked /\ m.n >= need
            /\ n.code = "wait" /\ n # EndMsg => m = n
  BY DEF RequestInv
<1>4. /\ \A t \in Task : StopMsg(t) \in Unread' => mstate[t] = "stopped"
      /\ \A t \in Task : GotMsg(t) \in Unread' => mstate[t] = "completed"
      /\ \A t \in Task : PollMsg(t) \in Unread' => mpc = "poll" /\ asked = {t}
      /\ EndMsg \in Unread' => mpc = "ending"
      /\ mpc = "wait" => EndMsg \notin Unread'
  BY DEF RequestInv
<1>5. /\ WaitUnread =>
           /\ results_got = 0 /\ \A t \in asked : mstate[t] = "started"
           /\ mpc = "ending" => EndMsg \in Unread
      /\ mpc \in {"poll", "pollresult"} => \A t \in asked : mstate[t] = "started"
  BY DEF RequestInv
<1> QED
  BY <1>1, <1>2, <1>3, <1>4, <1>5 DEF RequestInv

\* What the supervisor does to the tasks: a waiting one is launched, one that was
\* stopped or whose result was received is finished.
Handled(t) ==
    \/ /\ state'[t] = state[t] \/ (state[t] = 0 /\ state'[t] = 1)
       /\ StopMsg(t) \in Unread' <=> StopMsg(t) \in Unread
       /\ GotMsg(t) \in Unread' <=> GotMsg(t) \in Unread
    \/ /\ StopMsg(t) \in Unread /\ StopMsg(t) \notin Unread' /\ state'[t] = -1
    \/ /\ GotMsg(t) \in Unread /\ GotMsg(t) \notin Unread' /\ state'[t] = 3

\* Steps of the supervisor outside of a wait or a poll.
LEMMA SupervisorKept ==
  ASSUME CallParts, TypeOK, spc = "run", spc' = "run",
         UNCHANGED <<mainVars, toMain, demandVars>>, Delivering' = Delivering,
         \A i, j \in 1 .. Len(toSup') : toSup'[i] = toSup'[j] => i = j,
         \A i \in 1 .. Len(toSup') : toSup'[i] = EndMsg => i = Len(toSup'),
         Unread' \subseteq Unread,
         \A m \in Unread : m \notin Unread' => m.code \in {"stop", "got"},
         \A t \in Task : Handled(t)
  PROVE  CallParts'
<1> USE DEF CallParts
<1>1. UNCHANGED <<mstate, result, mpc, asked, need, results_got, promised, sent>>
  BY DEF mainVars, callVars
<1>2. UNCHANGED <<demanded, ndemanded, results_sent>>
  BY DEF demandVars
<1>3. /\ WaitUnread' <=> WaitUnread
      /\ EndMsg \in Unread' <=> EndMsg \in Unread
      /\ \A t \in Task : PollMsg(t) \in Unread' <=> PollMsg(t) \in Unread
  BY MessageFacts DEF WaitUnread
<1>4. PhaseInv'
  BY <1>2, <1>3, PhaseKept
<1>5. ASSUME NEW t \in Task
      PROVE  /\ StopMsg(t) \in Unread' => state'[t] \in 0 .. 2
             /\ GotMsg(t) \in Unread' => state'[t] = 2
  <2>1. /\ StopMsg(t) \in Unread => mstate[t] = "stopped" /\ state[t] \in 0 .. 2
        /\ GotMsg(t) \in Unread => mstate[t] = "completed" /\ state[t] = 2
    BY DEF RequestInv
  <2> QED
    BY <2>1 DEF Handled
<1>6. RequestInv'
  BY <1>3, <1>5, RequestKept
<1>7. AgreeInv'
  <2> SUFFICES ASSUME NEW t \in Task
               PROVE  /\ mstate[t] = "started" => state'[t] \in 0 .. 2
                      /\ mstate[t] = "stopped" => state'[t] = -1 \/ StopMsg(t) \in Unread'
                      /\ mstate[t] = "completed" =>
                           /\ state'[t] = 3 \/ GotMsg(t) \in Unread'
                           /\ result[t] = t
                      /\ state'[t] = -1 => mstate[t] = "stopped"
                      /\ state'[t] = 3 => mstate[t] = "completed"
    BY <1>1 DEF AgreeInv
  <2>1. /\ StopMsg(t) \in Unread => mstate[t] = "stopped" /\ state[t] \in 0 .. 2
        /\ GotMsg(t) \in Unread => mstate[t] = "completed" /\ state[t] = 2
    BY DEF RequestInv
  <2>2. /\ mstate[t] = "started" => state[t] \in 0 .. 2
        /\ mstate[t] = "stopped" => state[t] = -1 \/ StopMsg(t) \in Unread
        /\ mstate[t] = "completed" =>
             /\ state[t] = 3 \/ GotMsg(t) \in Unread
             /\ result[t] = t
        /\ state[t] = -1 => mstate[t] = "stopped"
        /\ state[t] = 3 => mstate[t] = "completed"
    BY DEF AgreeInv
  <2> QED
    BY <2>1, <2>2 DEF Handled
<1>8. DeliverInv'
  <2>1. ASSUME NEW t \in promised
        PROVE  /\ t \in asked
               /\ \/ mstate[t] = "completed"
                  \/ t \in Delivering
                  \/ state'[t] = 2 /\ (WaitUnread \/ PollMsg(t) \in Unread)
    <3>1. t \in Task
      BY DEF TypeOK, MainTypes
    <3>2. /\ t \in asked
          /\ \/ mstate[t] = "completed"
             \/ t \in Delivering
             \/ state[t] = 2 /\ (WaitUnread \/ PollMsg(t) \in Unread)
      BY DEF DeliverInv
    <3>3. state[t] = 2 /\ (WaitUnread \/ PollMsg(t) \in Unread) => state'[t] = 2
      <4> SUFFICES ASSUME state[t] = 2, WaitUnread \/ PollMsg(t) \in Unread
                   PROVE  state'[t] = 2
        OBVIOUS
      <4>1. mstate[t] = "started"
        BY <3>1, <3>2 DEF RequestInv
      <4>2. StopMsg(t) \notin Unread /\ GotMsg(t) \notin Unread
        BY <3>1, <4>1 DEF RequestInv
      <4> QED
        BY <3>1, <4>2 DEF Handled
    <3> QED
      BY <3>2, <3>3
  <2>2. \A t \in promised : t \in Task
    BY DEF TypeOK, MainTypes
  <2>3. \A t \in promised :
          /\ t \in asked
          /\ \/ mstate'[t] = "completed"
             \/ t \in Delivering'
             \/ state'[t] = 2 /\ (WaitUnread' \/ PollMsg(t) \in Unread')
    BY <1>1, <1>3, <2>1, <2>2
  <2> QED
    BY <1>1, <1>2, <1>3, <2>3 DEF DeliverInv
<1>9. DemandInv'
  <2>1. Serving' <=> Serving
    BY <1>1, <1>3 DEF Serving
  <2>2. ASSUME Serving
        PROVE  {t \in asked : state'[t] \in {0, 1}} = {t \in asked : state[t] \in {0, 1}}
    <3>1. asked \subseteq Task
      BY DEF TypeOK, MainTypes
    <3>2. ASSUME NEW t \in asked
          PROVE  state'[t] \in {0, 1} <=> state[t] \in {0, 1}
      <4>1. mstate[t] \in {"started", "completed"}
        BY <2>2 DEF Serving, DeliverInv
      <4>2. StopMsg(t) \notin Unread /\ (GotMsg(t) \in Unread => state[t] = 2)
        BY <3>1, <4>1 DEF RequestInv
      <4> QED
        BY <3>1, <4>2 DEF Handled
    <3> QED
      BY <3>2
  <2> QED
    BY <1>1, <1>2, <2>1, <2>2 DEF DemandInv
<1>10. DoneInv'
  BY DEF DoneInv
<1> QED
  BY <1>4, <1>6, <1>7, <1>8, <1>9, <1>10

-----------------------------------------------------------------------------
(***************************************************************************)
(* The steps of the supervisor.                                            *)
(***************************************************************************)
IInv == TypeInv /\ WriteInv /\ Parts

\* A step that reads no request and leaves the links to the main process alone.
LEMMA RequestsStay ==
  ASSUME RequestInv, UNCHANGED toSup,
         \A t \in Task : state'[t] = state[t] \/ (state[t] = 0 /\ state'[t] = 1)
  PROVE  /\ Unread' = Unread
         /\ \A i, j \in 1 .. Len(toSup') : toSup'[i] = toSup'[j] => i = j
         /\ \A i \in 1 .. Len(toSup') : toSup'[i] = EndMsg => i = Len(toSup')
         /\ \A t \in Task : Handled(t)
<1>1. Unread' = Unread
  BY DEF Unread
<1> QED
  BY <1>1 DEF RequestInv, Handled

\* Steps that neither write nor read the socket.
LEMMA SocketStays ==
  ASSUME SocketInv, LinkInv, TypeOK,
         UNCHANGED <<state, assignment, mstate, sock, gpc, gtask>>
  PROVE  SocketInv' /\ \A t \in Task : OnSocket(t)' <=> OnSocket(t)
<1>1. \A t \in Task : OnSocket(t)' <=> OnSocket(t)
  BY DEF OnSocket
<1> QED
  BY <1>1, SocketKept

\* The supervisor is granted leaves.
LEMMA StepLeaves ==
  ASSUME IInv, NEW m, FirstLeaves(m) \/ MoreLeaves(m)
  PROVE  Parts'
<1>1. /\ spc = "run" /\ spc' = "run"
      /\ UNCHANGED <<mainVars, toMain, demandVars, mstate, toSup, sock, state,
                     assignment, gpc, gtask, down, up, queue, nwaiting,
                     nfinished, nlinks>>
  BY DEF FirstLeaves, MoreLeaves, FirstLoop, chanVars, mainVars, procVars,
     linkVars
<1>2. LinkInv' /\ Delivering' = Delivering
  BY <1>1, LinkKept DEF IInv, Parts
<1>3. SocketInv'
  BY <1>1, SocketStays DEF IInv, Parts, TypeInv
<1>4. CountInv'
  BY <1>1 DEF IInv, Parts, CountInv, Live
<1>5. CallParts'
  <2>1. CallParts /\ TypeOK
    BY DEF IInv, Parts, CallParts, TypeInv
  <2>2. /\ Unread' = Unread
        /\ \A i, j \in 1 .. Len(toSup') : toSup'[i] = toSup'[j] => i = j
        /\ \A i \in 1 .. Len(toSup') : toSup'[i] = EndMsg => i = Len(toSup')
        /\ \A t \in Task : Handled(t)
    BY <1>1, RequestsStay DEF IInv, Parts
  <2> QED
    BY <1>1, <1>2, <2>1, <2>2, SupervisorKept
<1> QED
  BY <1>2, <1>3, <1>4, <1>5 DEF Parts, CallParts

\* The supervisor opens a link for the head of the queue.
LEMMA StepOpenLink ==
  ASSUME IInv, TypeInv', OpenLink
  PROVE  Parts'
<1>1. /\ spc = "run" /\ spc' = "run"
      /\ UNCHANGED <<mainVars, toMain, demandVars, toSup, sock, nfinished, gtask>>
      /\ nlinks' = nlinks + 1 /\ opening > 0
      /\ Launch(nlinks + 1, state, assignment)
      /\ gpc' = [gpc EXCEPT ![nlinks + 1] = "idle"]
  BY DEF OpenLink, LinksToOpen, chanVars
<1>2. /\ LinkInv' /\ Delivering' = Delivering
      /\ \A t \in Task : OnSocket(t)' <=> OnSocket(t)
  BY LinkOpen DEF IInv, Parts
<1>3. nwaiting > 0
  BY <1>1 DEF IInv, TypeInv, TypeOK, SupervisorTypes, QueueLength
<1>4. PICK h \in Task : h = Head(queue) /\ state[h] = 0
  BY <1>3, QueueFacts DEF IInv, Parts
<1>5. /\ state' = [state EXCEPT ![h] = 1] /\ queue' = Tail(queue)
      /\ nwaiting' = nwaiting - 1
      /\ assignment' = [assignment EXCEPT ![h] = nlinks + 1]
  BY <1>1, <1>4 DEF Launch
<1>6. CountInv'
  BY <1>1, <1>3, <1>4, <1>5, CountLaunched DEF IInv, Parts
<1>7. SocketInv'
  <2>1. assignment \in [Task -> Int] /\ gpc \in [Link -> ProcessStates]
    BY DEF IInv, TypeInv, TypeOK, SupervisorTypes, ProcessTypes, ProcessStates
  <2>2. \A t \in Task : OnSocket(t) => assignment'[t] = assignment[t]
    BY <1>4, <1>5, <2>1 DEF OnSocket
  <2>3. \A k \in Link : k > nlinks => gpc[k] = "none"
    BY <1>3 DEF IInv, WriteInv, FreshLinks
  <2>4. nlinks \in Int
    BY DEF IInv, TypeInv, TypeOK, SupervisorTypes
  <2>5. \A k \in Link : /\ gpc'[k] = "write" <=> gpc[k] = "write"
                        /\ gpc[k] = "write" => gtask'[k] = gtask[k]
    BY <1>1, <2>1, <2>3, <2>4
  <2> QED
    BY <1>1, <1>2, <2>2, <2>5, SocketKept DEF IInv, Parts, TypeInv
<1>8. CallParts'
  <2>1. CallParts /\ TypeOK
    BY DEF IInv, Parts, CallParts, TypeInv
  <2>2. \A t \in Task : state'[t] = state[t] \/ (state[t] = 0 /\ state'[t] = 1)
    BY <1>4, <1>5, <2>1 DEF TypeOK, SupervisorTypes
  <2>3. /\ Unread' = Unread
        /\ \A i, j \in 1 .. Len(toSup') : toSup'[i] = toSup'[j] => i = j
        /\ \A i \in 1 .. Len(toSup') : toSup'[i] = EndMsg => i = Len(toSup')
        /\ \A t \in Task : Handled(t)
    BY <1>1, <2>2, RequestsStay DEF IInv, Parts
  <2> QED
    BY <1>1, <1>2, <2>1, <2>3, SupervisorKept
<1> QED
  BY <1>2, <1>6, <1>7, <1>8 DEF Parts, CallParts

\* The supervisor reads the end of a call.
LEMMA StepReadEnded ==
  ASSUME IInv, TypeInv', NEW k \in Link, ReadEnded(k)
  PROVE  Parts'
<1>1. /\ spc = "run" /\ spc' = "run"
      /\ UNCHANGED <<mainVars, toMain, demandVars, mstate, toSup, sock, state,
                     assignment, gpc, gtask, queue, nwaiting, nfinished, nlinks>>
  BY DEF ReadEnded, Listening, FirstLoop, SecondLoop, chanVars, mainVars,
     supVars, procVars, countVars
<1>2. LinkInv' /\ Delivering' = Delivering
  BY LinkEnded DEF IInv, Parts, TypeInv
<1>3. SocketInv'
  BY <1>1, SocketStays DEF IInv, Parts, TypeInv
<1>4. CountInv'
  BY <1>1 DEF IInv, Parts, CountInv, Live
<1>5. CallParts'
  <2>1. CallParts /\ TypeOK
    BY DEF IInv, Parts, CallParts, TypeInv
  <2>2. /\ Unread' = Unread
        /\ \A i, j \in 1 .. Len(toSup') : toSup'[i] = toSup'[j] => i = j
        /\ \A i \in 1 .. Len(toSup') : toSup'[i] = EndMsg => i = Len(toSup')
        /\ \A t \in Task : Handled(t)
    BY <1>1, RequestsStay DEF IInv, Parts
  <2> QED
    BY <1>1, <1>2, <2>1, <2>2, SupervisorKept
<1> QED
  BY <1>2, <1>3, <1>4, <1>5 DEF Parts, CallParts

\* A step that reads a request to stop a task or the acknowledgement of its
\* result finishes this task, and may launch another one.
LEMMA RequestTaken ==
  ASSUME RequestInv, TypeOK, NEW code \in {"stop", "got"}, ReadRequest(code),
         NEW id, id = Head(toSup).id,
         state'[id] = IF code = "stop" THEN -1 ELSE 3,
         \A t \in Task : t # id =>
            state'[t] = state[t] \/ (state[t] = 0 /\ state'[t] = 1)
  PROVE  /\ Unread' \subseteq Unread
         /\ \A m \in Unread : m \notin Unread' => m.code \in {"stop", "got"}
         /\ \A i, j \in 1 .. Len(toSup') : toSup'[i] = toSup'[j] => i = j
         /\ \A i \in 1 .. Len(toSup') : toSup'[i] = EndMsg => i = Len(toSup')
         /\ \A t \in Task : Handled(t)
<1>1. /\ Head(toSup) \in Unread /\ Head(toSup).code = code
      /\ Unread' = Unread \ {Head(toSup)}
      /\ \A i, j \in 1 .. Len(toSup') : toSup'[i] = toSup'[j] => i = j
      /\ \A i \in 1 .. Len(toSup') : toSup'[i] = EndMsg => i = Len(toSup')
  BY ReadFacts
<1>2. /\ code = "stop" => Head(toSup) = StopMsg(id)
      /\ code = "got" => Head(toSup) = GotMsg(id)
  BY ReadTask
<1>3. \A t : t # id => StopMsg(t) # Head(toSup) /\ GotMsg(t) # Head(toSup)
  BY <1>1, <1>2, MessageFacts
<1>4. \A t \in Task : Handled(t)
  BY <1>1, <1>2, <1>3 DEF Handled
<1> QED
  BY <1>1, <1>4

\* A task that waits in the queue is stopped.
LEMMA StepStopWaiting ==
  ASSUME IInv, StopWaiting
  PROVE  Parts'
<1>1. /\ ReadRequest("stop") /\ nwaiting > 0
      /\ nwaiting' = nwaiting - 1 /\ nfinished' = nfinished + 1
      /\ UNCHANGED <<mainVars, toMain, sock, spc, assignment, nlinks, opening,
                     demandVars, mstate, gpc, gtask, down, up>>
  BY DEF StopWaiting, mainVars, procVars, linkVars
<1>2. spc = "run"
  BY <1>1 DEF ReadRequest, Listening, FirstLoop, SecondLoop
<1>3. PICK id \in Task : id = Head(toSup).id
  BY <1>1, ReadTask DEF IInv, Parts, TypeInv
<1>4. /\ state[id] = 0 /\ state' = [state EXCEPT ![id] = -1]
      /\ \E q \in GivePriority(queue, {id}) : queue' = Tail(q)
  BY <1>3 DEF StopWaiting
<1>5. state \in [Task -> -1 .. 3] /\ queue \in Seq(Task)
  BY DEF IInv, TypeInv, TypeOK, SupervisorTypes
<1>6. LinkInv' /\ Delivering' = Delivering
  BY <1>1, <1>4, <1>5, LinkKept DEF IInv, Parts
<1>7. SocketInv'
  <2>1. \A t \in Task : OnSocket(t)' <=> OnSocket(t)
    BY <1>1, <1>4, <1>5 DEF OnSocket
  <2> QED
    BY <1>1, <2>1, SocketKept DEF IInv, Parts, TypeInv
<1>8. CountInv'
  <2>1. PICK q \in GivePriority(queue, {id}) : queue' = Tail(q)
    BY <1>4
  <2>2. /\ \A i, j \in 1 .. Len(queue) : queue[i] = queue[j] => i = j
        /\ Elems(queue) = Waiting /\ id \in Waiting
    BY <1>4 DEF IInv, Parts, CountInv, Waiting
  <2>3. /\ q \in Seq(Task) /\ Elems(q) = Waiting
        /\ \A i, j \in 1 .. Len(q) : q[i] = q[j] => i = j
        /\ q # <<>> /\ Head(q) = id
    BY <1>5, <2>2, PriorityFacts
  <2>4. /\ Elems(queue') = Waiting \ {id}
        /\ \A i, j \in 1 .. Len(queue') : queue'[i] = queue'[j] => i = j
    BY <2>1, <2>3, ElemsTail
  <2>5. /\ Waiting' = Waiting \ {id} /\ Ready' = Ready \cup {id}
        /\ id \notin Ready /\ Live' = Live
        /\ Waiting \in SUBSET Task /\ Ready \in SUBSET Task
    BY <1>4, <1>5 DEF Waiting, Ready, Live
  <2>6. /\ Cardinality(Waiting') = Cardinality(Waiting) - 1
        /\ Cardinality(Ready') = Cardinality(Ready) + 1
    BY <2>2, <2>5, TaskAdded, TaskRemoved
  <2> QED
    BY <1>1, <2>4, <2>5, <2>6 DEF IInv, Parts, CountInv, Waiting, Ready
<1>9. CallParts'
  <2>1. CallParts /\ TypeOK
    BY DEF IInv, Parts, CallParts, TypeInv
  <2>2. /\ state'[id] = IF "stop" = "stop" THEN -1 ELSE 3
        /\ \A t \in Task : t # id => state'[t] = state[t]
    BY <1>4, <1>5
  <2>3. /\ Unread' \subseteq Unread
        /\ \A m \in Unread : m \notin Unread' => m.code \in {"stop", "got"}
        /\ \A i, j \in 1 .. Len(toSup') : toSup'[i] = toSup'[j] => i = j
        /\ \A i \in 1 .. Len(toSup') : toSup'[i] = EndMsg => i = Len(toSup')
        /\ \A t \in Task : Handled(t)
    BY <1>1, <1>3, <2>1, <2>2, RequestTaken DEF CallParts
  <2> QED
    BY <1>1, <1>2, <1>6, <2>1, <2>3, SupervisorKept
<1> QED
  BY <1>6, <1>7, <1>8, <1>9 DEF Parts, CallParts

\* A running task is stopped while others wait.
LEMMA StepStopAndReopen ==
  ASSUME IInv, TypeInv', StopAndReopen
  PROVE  Parts'
<1>1. /\ ReadRequest("stop") /\ nwaiting > 0 /\ nfinished' = nfinished + 1
      /\ UNCHANGED <<mainVars, toMain, sock, spc, nlinks, demandVars>>
  BY DEF StopAndReopen
<1>2. spc = "run"
  BY <1>1 DEF ReadRequest, Listening, FirstLoop, SecondLoop
<1>3. /\ LinkInv' /\ Delivering' = Delivering
      /\ \A t \in Task : OnSocket(t)' <=> OnSocket(t)
      /\ \E id, h \in Task :
           /\ Head(toSup) = StopMsg(id) /\ mstate[id] = "stopped"
           /\ h = Head(queue) /\ state[h] = 0 /\ h # id
           /\ state[id] \in {1, 2} /\ gpc[assignment[id]] # "write"
           /\ gpc' = [gpc EXCEPT ![assignment[id]] = "idle"]
           /\ state' = [state EXCEPT ![id] = -1, ![h] = 1]
  BY LinkStopAndReopen DEF IInv, Parts
<1>4. PICK id, h \in Task :
           /\ Head(toSup) = StopMsg(id) /\ mstate[id] = "stopped"
           /\ h = Head(queue) /\ state[h] = 0 /\ h # id
           /\ state[id] \in {1, 2} /\ gpc[assignment[id]] # "write"
           /\ gpc' = [gpc EXCEPT ![assignment[id]] = "idle"]
           /\ state' = [state EXCEPT ![id] = -1, ![h] = 1]
  BY <1>3
<1>5. /\ state \in [Task -> -1 .. 3] /\ assignment \in [Task -> Int]
      /\ gpc \in [Link -> ProcessStates] /\ gtask \in [Link -> Task \cup {0}]
  BY DEF IInv, TypeInv, TypeOK, SupervisorTypes, ProcessTypes, ProcessStates
<1>6. id = Head(toSup).id
  BY <1>4 DEF StopMsg, Request
<1>7. /\ queue' = Tail(queue) /\ nwaiting' = nwaiting - 1
      /\ assignment' = [assignment EXCEPT ![id] = 0, ![h] = assignment[id]]
      /\ gtask' = [gtask EXCEPT ![assignment[id]] = 0]
  BY <1>4, <1>5, <1>6 DEF StopAndReopen, Launch, Killed
<1>8. CountInv'
  BY <1>1, <1>4, <1>7, CountRelaunched DEF IInv, Parts
<1>9. SocketInv'
  <2>1. \A t \in Task : OnSocket(t) => assignment'[t] = assignment[t]
    BY <1>4, <1>5, <1>7 DEF OnSocket
  <2>2. \A k \in Link : /\ gpc'[k] = "write" <=> gpc[k] = "write"
                        /\ gpc[k] = "write" => gtask'[k] = gtask[k]
    BY <1>4, <1>5, <1>7
  <2> QED
    BY <1>1, <1>3, <2>1, <2>2, SocketKept DEF IInv, Parts, TypeInv
<1>10. CallParts'
  <2>1. CallParts /\ TypeOK
    BY DEF IInv, Parts, CallParts, TypeInv
  <2>2. /\ state'[id] = IF "stop" = "stop" THEN -1 ELSE 3
        /\ \A t \in Task : t # id =>
              state'[t] = state[t] \/ (state[t] = 0 /\ state'[t] = 1)
    BY <1>4, <1>5
  <2>3. /\ Unread' \subseteq Unread
        /\ \A m \in Unread : m \notin Unread' => m.code \in {"stop", "got"}
        /\ \A i, j \in 1 .. Len(toSup') : toSup'[i] = toSup'[j] => i = j
        /\ \A i \in 1 .. Len(toSup') : toSup'[i] = EndMsg => i = Len(toSup')
        /\ \A t \in Task : Handled(t)
    BY <1>1, <1>6, <2>1, <2>2, RequestTaken DEF CallParts
  <2> QED
    BY <1>1, <1>2, <1>3, <2>1, <2>3, SupervisorKept
<1> QED
  BY <1>3, <1>8, <1>9, <1>10 DEF Parts, CallParts

\* A result has been read while others wait.
LEMMA StepGotAndRelaunch ==
  ASSUME IInv, TypeInv', GotAndRelaunch
  PROVE  Parts'
<1>1. /\ ReadRequest("got") /\ nwaiting > 0 /\ nfinished' = nfinished + 1
      /\ UNCHANGED <<mainVars, toMain, sock, spc, nlinks, demandVars, gpc, gtask>>
  BY DEF GotAndRelaunch, procVars
<1>2. spc = "run"
  BY <1>1 DEF ReadRequest, Listening, FirstLoop, SecondLoop
<1>3. /\ LinkInv' /\ Delivering' = Delivering
      /\ \A t \in Task : OnSocket(t)' <=> OnSocket(t)
      /\ \E id, h \in Task :
           /\ Head(toSup) = GotMsg(id) /\ mstate[id] = "completed"
           /\ h = Head(queue) /\ state[h] = 0 /\ h # id /\ state[id] = 2
           /\ state' = [state EXCEPT ![id] = 3, ![h] = 1]
  BY LinkGotAndRelaunch DEF IInv, Parts
<1>4. PICK id, h \in Task :
           /\ Head(toSup) = GotMsg(id) /\ mstate[id] = "completed"
           /\ h = Head(queue) /\ state[h] = 0 /\ h # id /\ state[id] = 2
           /\ state' = [state EXCEPT ![id] = 3, ![h] = 1]
  BY <1>3
<1>5. state \in [Task -> -1 .. 3] /\ assignment \in [Task -> Int]
  BY DEF IInv, TypeInv, TypeOK, SupervisorTypes
<1>6. id = Head(toSup).id
  BY <1>4 DEF GotMsg, Request
<1>7. /\ queue' = Tail(queue) /\ nwaiting' = nwaiting - 1
      /\ assignment' = [assignment EXCEPT ![id] = 0, ![h] = assignment[id]]
  BY <1>4, <1>5, <1>6 DEF GotAndRelaunch, Launch
<1>8. CountInv'
  BY <1>1, <1>4, <1>7, CountRelaunched DEF IInv, Parts
<1>9. SocketInv'
  <2>1. \A t \in Task : OnSocket(t) => assignment'[t] = assignment[t]
    BY <1>4, <1>5, <1>7 DEF OnSocket
  <2> QED
    BY <1>1, <1>3, <2>1, SocketKept DEF IInv, Parts, TypeInv
<1>10. CallParts'
  <2>1. CallParts /\ TypeOK
    BY DEF IInv, Parts, CallParts, TypeInv
  <2>2. /\ state'[id] = IF "got" = "stop" THEN -1 ELSE 3
        /\ \A t \in Task : t # id =>
              state'[t] = state[t] \/ (state[t] = 0 /\ state'[t] = 1)
    BY <1>4, <1>5
  <2>3. /\ Unread' \subseteq Unread
        /\ \A m \in Unread : m \notin Unread' => m.code \in {"stop", "got"}
        /\ \A i, j \in 1 .. Len(toSup') : toSup'[i] = toSup'[j] => i = j
        /\ \A i \in 1 .. Len(toSup') : toSup'[i] = EndMsg => i = Len(toSup')
        /\ \A t \in Task : Handled(t)
    BY <1>1, <1>6, <2>1, <2>2, RequestTaken DEF CallParts
  <2> QED
    BY <1>1, <1>2, <1>3, <2>1, <2>3, SupervisorKept
<1> QED
  BY <1>3, <1>8, <1>9, <1>10 DEF Parts, CallParts

\* Both ways to close a link for good.
LEMMA StepClose ==
  ASSUME IInv, TypeInv', NEW code \in {"stop", "got"}, ReadRequest(code),
         NEW final, final = IF code = "stop" THEN -1 ELSE 3,
         NEW id, id = Head(toSup).id,
         state[id] \in {1, 2}, CloseLink(id, final),
         UNCHANGED <<mainVars, toMain, sock, spc, queue, nwaiting, demandVars>>
  PROVE  Parts'
<1>1. /\ id \in Task /\ final \in {-1, 3}
      /\ mstate[id] \in {"stopped", "completed"} /\ UNCHANGED mstate
  BY ReadTask DEF IInv, Parts, TypeInv, mainVars
<1>2. spc = "run"
  BY DEF ReadRequest, Listening, FirstLoop, SecondLoop
<1>3. /\ state \in [Task -> -1 .. 3] /\ assignment \in [Task -> Int]
      /\ gpc \in [Link -> ProcessStates] /\ gtask \in [Link -> Task \cup {0}]
  BY DEF IInv, TypeInv, TypeOK, SupervisorTypes, ProcessTypes, ProcessStates
<1>4. /\ LinkInv' /\ Delivering' = Delivering
      /\ \A t \in Task : OnSocket(t)' <=> OnSocket(t)
      /\ gpc[assignment[id]] # "write"
      /\ gpc' = [gpc EXCEPT ![assignment[id]] = "none"]
      /\ state' = [state EXCEPT ![id] = final]
  <2>1. LinkInv /\ TypeOK /\ TypeOK'
    BY DEF IInv, Parts, TypeInv
  <2> QED
    BY <1>1, <2>1, LinkClosed
<1>5. /\ nlinks' = nlinks - 1 /\ nfinished' = nfinished + 1
      /\ assignment' = [assignment EXCEPT ![id] = 0]
      /\ gtask' = [gtask EXCEPT ![assignment[id]] = 0]
  BY DEF CloseLink, Killed
<1>6. CountInv'
  BY <1>1, <1>4, <1>5, CountClosed DEF IInv, Parts
<1>7. SocketInv'
  <2>1. \A t \in Task : OnSocket(t) => assignment'[t] = assignment[t]
    <3>1. final # 2
      BY <1>1
    <3>2. ~OnSocket(id)'
      BY <1>1, <1>3, <1>4, <3>1 DEF OnSocket
    <3> QED
      BY <1>1, <1>3, <1>4, <1>5, <3>2
  <2>2. \A k \in Link : /\ gpc'[k] = "write" <=> gpc[k] = "write"
                        /\ gpc[k] = "write" => gtask'[k] = gtask[k]
    BY <1>3, <1>4, <1>5
  <2> QED
    BY <1>4, <2>1, <2>2, SocketKept DEF IInv, Parts, TypeInv
<1>8. CallParts'
  <2>1. CallParts /\ TypeOK
    BY DEF IInv, Parts, CallParts, TypeInv
  <2>2. /\ state'[id] = final
        /\ \A t \in Task : t # id =>
              state'[t] = state[t] \/ (state[t] = 0 /\ state'[t] = 1)
    BY <1>1, <1>3, <1>4
  <2>3. /\ Unread' \subseteq Unread
        /\ \A m \in Unread : m \notin Unread' => m.code \in {"stop", "got"}
        /\ \A i, j \in 1 .. Len(toSup') : toSup'[i] = toSup'[j] => i = j
        /\ \A i \in 1 .. Len(toSup') : toSup'[i] = EndMsg => i = Len(toSup')
        /\ \A t \in Task : Handled(t)
    BY <2>1, <2>2, RequestTaken DEF CallParts
  <2> QED
    BY <1>2, <1>4, <2>1, <2>3, SupervisorKept
<1> QED
  BY <1>4, <1>6, <1>7, <1>8 DEF Parts, CallParts

\* A running task is stopped and nobody waits.
LEMMA StepStopAndClose ==
  ASSUME IInv, TypeInv', StopAndClose
  PROVE  Parts'
BY StepClose DEF StopAndClose

\* A result has been read and nobody waits.
LEMMA StepGotAndClose ==
  ASSUME IInv, TypeInv', GotAndClose
  PROVE  Parts'
<1>1. /\ ReadRequest("got") /\ CloseLink(Head(toSup).id, 3)
      /\ UNCHANGED <<mainVars, toMain, sock, spc, queue, nwaiting, demandVars>>
  BY DEF GotAndClose
<1>2. state[Head(toSup).id] = 2
  BY <1>1, ReadTask DEF IInv, Parts, TypeInv
<1> QED
  BY <1>1, <1>2, StepClose

\* The supervisor only ends when no task waits and no waitTasks is served.
LEMMA StepSupervisorEnd ==
  ASSUME IInv, SupervisorEnd
  PROVE  Parts'
<1>1. /\ spc = "run" /\ spc' = "done" /\ opening = 0 /\ nwaiting = 0
      /\ UNCHANGED <<mainVars, toMain, demandVars, mstate, toSup, sock, state,
                     assignment, gpc, gtask, down, up, queue, nwaiting,
                     nfinished, nlinks, opening, results_sent, ndemanded>>
  BY DEF SupervisorEnd, chanVars, mainVars, procVars, linkVars, countVars,
     demandVars
<1>2. nfinished >= NTasks /\ ndemanded = -1
  <2>1. nfinished \in Int /\ NTasks \in Int
    BY ParamAssumption DEF IInv, TypeInv, TypeOK, SupervisorTypes
  <2> QED
    BY <1>1, <2>1 DEF SupervisorEnd, SecondLoop, TasksRemain
<1>3. LinkInv' /\ Delivering' = Delivering
  BY <1>1, LinkKept DEF IInv, Parts
<1>4. SocketInv'
  BY <1>1, SocketStays DEF IInv, Parts, TypeInv
<1>5. CountInv' /\ DoneInv'
  BY <1>1, <1>2 DEF IInv, Parts, CountInv, Live, DoneInv
<1>6. Unread' = Unread /\ WaitUnread' = WaitUnread /\ Serving' = Serving
  BY <1>1 DEF Unread, WaitUnread, Serving, mainVars
<1>7. PhaseInv'
  BY <1>1, <1>3, <1>6, PhaseKept DEF IInv, Parts, TypeInv
<1>8. RequestInv' /\ AgreeInv'
  BY <1>1, <1>6 DEF IInv, Parts, RequestInv, AgreeInv, mainVars, callVars
<1>9. DeliverInv' /\ DemandInv'
  BY <1>1, <1>3, <1>6 DEF IInv, Parts, DeliverInv, DemandInv, mainVars,
     callVars, demandVars
<1> QED
  BY <1>3, <1>4, <1>5, <1>7, <1>8, <1>9 DEF Parts

\* A waiting supervisor tells the main process its port, and nothing else happens.
LEMMA StepReserve ==
  ASSUME IInv, Reserve
  PROVE  Parts'
<1>1. /\ spc = "reserve" /\ spc' = "accept" /\ toMain' = Append(toMain, 0)
      /\ UNCHANGED <<mainVars, demandVars, mstate, toSup, sock, state,
                     assignment, gpc, gtask, down, up, queue, nwaiting,
                     nfinished, nlinks, results_sent, mpc>>
  BY DEF Reserve, chanVars, mainVars, procVars, linkVars, countVars, demandVars
<1>2. mpc = "starting" /\ toMain = <<>>
  <2>1. mpc \notin {"new", "starting"} => spc \in {"run", "done"}
    BY DEF IInv, Parts, PhaseInv
  <2>2. mpc = "new" => spc = "none"
    BY DEF IInv, Parts, PhaseInv
  <2>3. mpc = "starting"
    BY <1>1, <2>1, <2>2
  <2> QED
    BY <1>1, <2>3 DEF IInv, Parts, PhaseInv
<1>3. toMain' = <<0>>
  <2>1. Append(<<>>, 0) = <<0>>
    OBVIOUS
  <2> QED
    BY <1>1, <1>2, <2>1
<1>4. LinkInv' /\ Delivering' = Delivering
  BY <1>1, LinkKept DEF IInv, Parts
<1>5. SocketInv'
  BY <1>1, SocketStays DEF IInv, Parts, TypeInv
<1>6. CountInv' /\ DoneInv'
  BY <1>1 DEF IInv, Parts, CountInv, Live, DoneInv
<1>7. Unread' = Unread /\ WaitUnread' = WaitUnread /\ ~Serving /\ ~Serving'
  BY <1>1, <1>2 DEF Unread, WaitUnread, Serving
<1>8. PhaseInv'
  BY <1>1, <1>2, <1>3 DEF IInv, Parts, PhaseInv, mainVars, callVars
<1>9. RequestInv' /\ AgreeInv'
  BY <1>1, <1>7 DEF IInv, Parts, RequestInv, AgreeInv, mainVars, callVars
<1>10. DeliverInv' /\ DemandInv'
  BY <1>1, <1>4, <1>7 DEF IInv, Parts, DeliverInv, DemandInv, mainVars,
     callVars, demandVars
<1> QED
  BY <1>4, <1>5, <1>6, <1>8, <1>9, <1>10 DEF Parts

\* A grandchild announced a result.  It is counted and delivered exactly if the
\* waitTasks that is served still needs results and asked for this one.
LEMMA StepReadComputed ==
  ASSUME IInv, TypeInv', NEW k \in Link, ReadComputed(k)
  PROVE  Parts'
<1> USE DEF IInv, Parts, TypeInv
<1>1. /\ spc = "run" /\ spc' = "run"
      /\ UNCHANGED <<mainVars, toMain, mstate, result, mpc, asked, need,
                     results_got, promised, toSup, sock, assignment, gpc, gtask,
                     queue, nwaiting, nfinished, nlinks>>
  BY DEF ReadComputed, Listening, FirstLoop, SecondLoop, chanVars, mainVars,
     callVars, countVars, procVars
<1>2. PICK t \in Task :
           /\ state[t] = 1 /\ state' = [state EXCEPT ![t] = 2]
           /\ mstate[t] \in {"started", "stopped"} /\ t = Head(up[k])
           /\ t \notin Delivering
           /\ Delivering' = IF ndemanded > 0 /\ t \in demanded
                            THEN Delivering \cup {t} ELSE Delivering
  BY LinkComputed
<1>3. /\ LinkInv' /\ \A u \in Task : OnSocket(u)' <=> OnSocket(u)
  BY LinkComputed
<1>4. /\ state \in [Task -> -1 .. 3] /\ demanded \subseteq Task
      /\ ndemanded \in Int /\ results_sent \in Nat /\ asked \subseteq Task
      /\ results_got \in Nat /\ need \in Int
  BY DEF TypeOK, SupervisorTypes, MainTypes
<1>5. /\ demanded' = demanded \ {t}
      /\ ndemanded > 0 /\ t \in demanded =>
           ndemanded' = ndemanded - 1 /\ results_sent' = results_sent + 1
      /\ ~(ndemanded > 0 /\ t \in demanded) =>
           UNCHANGED <<ndemanded, results_sent>>
  BY <1>2 DEF ReadComputed
<1>6. /\ state'[t] = 2 /\ \A u \in Task : u # t => state'[u] = state[u]
  BY <1>2, <1>4
<1>7. Unread' = Unread /\ WaitUnread' = WaitUnread /\ Serving' = Serving
  BY <1>1 DEF Unread, WaitUnread, Serving
<1>8. SocketInv'
  BY <1>1, <1>3, SocketKept
<1>9. CountInv'
  <2>1. Waiting' = Waiting /\ Ready' = Ready /\ Live' = Live
    BY <1>2, <1>6 DEF Waiting, Ready, Live
  <2> QED
    BY <1>1, <2>1 DEF CountInv, Waiting, Ready
<1>10. ndemanded > 0 /\ t \in demanded =>
         Serving /\ mpc \in {"wait", "ending"} /\ toMain = <<>> /\ ~WaitUnread
         /\ t \in asked
  BY DEF DemandInv, Serving
<1>11. PhaseInv'
  BY <1>1, <1>2, <1>5, <1>7, <1>10, PhaseKept
<1>12. RequestInv'
  <2>1. \A u \in Task : StopMsg(u) \in Unread' => state'[u] \in 0 .. 2
    BY <1>6, <1>7 DEF RequestInv
  <2>2. \A u \in Task : GotMsg(u) \in Unread' => state'[u] = 2
    BY <1>6, <1>7 DEF RequestInv
  <2>3. /\ \A i, j \in 1 .. Len(toSup') : toSup'[i] = toSup'[j] => i = j
        /\ \A i \in 1 .. Len(toSup') : toSup'[i] = EndMsg => i = Len(toSup')
    BY <1>1 DEF RequestInv
  <2> QED
    BY <1>1, <1>7, <2>1, <2>2, <2>3, RequestKept
<1>13. AgreeInv'
  BY <1>1, <1>2, <1>6, <1>7 DEF AgreeInv
<1>14. DeliverInv'
  <2>1. mpc \in {"wait", "ending", "drain"} /\ ~WaitUnread =>
           results_sent' = results_got + Cardinality(Delivering')
    <3>1. Delivering \in SUBSET Task
      BY DEF Delivering
    <3>2. Cardinality(Delivering) \in Nat
      BY <3>1, TaskSets
    <3>3. Cardinality(Delivering \cup {t}) = Cardinality(Delivering) + 1
      BY <1>2, <3>1, TaskAdded
    <3> QED
      BY <1>2, <1>4, <1>5, <3>2, <3>3 DEF DeliverInv
  <2>2. Delivering' \subseteq asked /\ (WaitUnread => Delivering' = {})
    BY <1>2, <1>10 DEF DeliverInv
  <2>3. \A u \in promised :
          /\ u \in asked
          /\ \/ mstate[u] = "completed"
             \/ u \in Delivering'
             \/ state'[u] = 2 /\ (WaitUnread \/ PollMsg(u) \in Unread)
    <3>1. promised \subseteq Task
      BY DEF TypeOK, MainTypes
    <3> QED
      BY <1>2, <1>6, <3>1 DEF DeliverInv
  <2> QED
    BY <1>1, <1>7, <2>1, <2>2, <2>3 DEF DeliverInv
<1>15. DemandInv'
  <2>1. CASE Serving
    <3>1. demanded' = {u \in asked : state'[u] \in {0, 1}}
      BY <1>2, <1>4, <1>5, <1>6, <2>1 DEF DemandInv
    <3>2. ndemanded' + results_sent' = ndemanded + results_sent
      BY <1>4, <1>5
    <3>3. ndemanded' <= Cardinality(demanded')
      <4>1. CASE t \in demanded
        <5>1. Cardinality(demanded') = Cardinality(demanded) - 1
          BY <1>4, <1>5, <4>1, TaskRemoved
        <5>2. Cardinality(demanded') \in Nat /\ Cardinality(demanded) \in Nat
          BY <1>4, <1>5, TaskSets
        <5> QED
          BY <1>4, <1>5, <4>1, <5>1, <5>2 DEF DemandInv
      <4>2. CASE t \notin demanded
        <5>1. demanded' = demanded
          BY <1>5, <4>2
        <5> QED
          BY <1>5, <4>2, <5>1 DEF DemandInv
      <4> QED
        BY <4>1, <4>2
    <3> QED
      BY <1>1, <1>7, <2>1, <3>1, <3>2, <3>3 DEF DemandInv
  <2>2. CASE ~Serving
    <3>1. demanded = {} /\ ndemanded = -1
      BY <2>2 DEF DemandInv
    <3>2. demanded' = demanded /\ ndemanded' = ndemanded
      BY <1>5, <3>1
    <3> QED
      BY <1>7, <2>2, <3>1, <3>2 DEF DemandInv
  <2> QED
    BY <2>1, <2>2
<1>16. DoneInv'
  BY <1>1 DEF DoneInv
<1> QED
  BY <1>3, <1>8, <1>9, <1>11, <1>12, <1>13, <1>14, <1>15, <1>16

\* Priority only changes the order of queue.
LEMMA CountServed ==
  ASSUME CountInv, TypeInv, NEW P,
         queue' \in {queue} \/ queue' \in GivePriority(queue, P),
         UNCHANGED <<state, nwaiting, nfinished, nlinks>>
  PROVE  CountInv'
<1>1. queue \in Seq(Task)
  BY DEF TypeInv, TypeOK, SupervisorTypes
<1>2. \A i, j \in 1 .. Len(queue) : queue[i] = queue[j] => i = j
  BY DEF CountInv
<1>3. /\ Elems(queue') = Elems(queue)
      /\ \A i, j \in 1 .. Len(queue') : queue'[i] = queue'[j] => i = j
  <2>1. CASE queue' = queue
    BY <1>2, <2>1
  <2>2. CASE queue' \in GivePriority(queue, P)
    BY <1>1, <1>2, <2>2, PriorityFacts
  <2> QED
    BY <2>1, <2>2
<1> QED
  BY <1>3 DEF CountInv, Live

\* A step that serves a waitTasks or a pollTask and changes no state.
LEMMA RequestServed ==
  ASSUME RequestInv, AgreeInv, TypeOK, NEW code \in {"wait", "poll"},
         ReadRequest(code), Head(toSup) # EndMsg, UNCHANGED mainVars,
         UNCHANGED state
  PROVE  /\ RequestInv' /\ AgreeInv'
         /\ EndMsg \in Unread' <=> EndMsg \in Unread
<1>1. /\ Head(toSup) \in Unread /\ Head(toSup).code = code
      /\ Unread' = Unread \ {Head(toSup)}
      /\ \A i, j \in 1 .. Len(toSup') : toSup'[i] = toSup'[j] => i = j
      /\ \A i \in 1 .. Len(toSup') : toSup'[i] = EndMsg => i = Len(toSup')
  BY ReadFacts
<1>2. /\ EndMsg \in Unread' <=> EndMsg \in Unread
      /\ \A t \in Task : StopMsg(t) \in Unread' <=> StopMsg(t) \in Unread
      /\ \A t \in Task : GotMsg(t) \in Unread' <=> GotMsg(t) \in Unread
  BY <1>1, MessageFacts
<1>3. \A t \in Task : /\ StopMsg(t) \in Unread' => state'[t] \in 0 .. 2
                      /\ GotMsg(t) \in Unread' => state'[t] = 2
  BY <1>2 DEF RequestInv
<1>4. RequestInv'
  BY <1>1, <1>2, <1>3, RequestKept
<1>5. AgreeInv'
  BY <1>2 DEF AgreeInv, mainVars
<1> QED
  BY <1>2, <1>4, <1>5

\* A waitTasks begins to be served: exactly the computed tasks are on their way.
LEMMA StepServeWait ==
  ASSUME IInv, TypeInv', ServeWait
  PROVE  Parts'
<1> USE DEF IInv, Parts, TypeInv
<1>1. /\ ReadRequest("wait") /\ Head(toSup) # EndMsg
      /\ UNCHANGED <<mainVars, toMain, sock, spc, state, assignment, nwaiting,
                     nfinished, nlinks, gpc, gtask, mstate, result, mpc, asked,
                     need, results_got, promised, sent>>
  BY DEF ServeWait, procVars, mainVars, callVars
<1>2. spc = "run"
  BY <1>1 DEF ReadRequest, Listening, FirstLoop, SecondLoop
<1>3. /\ WaitUnread /\ ~WaitUnread' /\ mpc \in {"wait", "ending"}
      /\ Head(toSup).ids = asked /\ Head(toSup).n \in Int
      /\ Head(toSup).n >= need /\ results_got = 0
      /\ \A t \in asked : mstate[t] = "started"
  BY <1>1, ReadWait
<1>4. /\ LinkInv' /\ Delivering = {}
      /\ Delivering' = {t \in asked : state[t] = 2}
      /\ \A t \in Task : OnSocket(t)' <=> OnSocket(t)
  BY LinkServeWait
<1>5. RequestInv' /\ AgreeInv' /\ (EndMsg \in Unread' <=> EndMsg \in Unread)
  BY <1>1, RequestServed
<1>6. SocketInv'
  BY <1>1, <1>4, SocketKept
<1>7. /\ demanded' = asked \ Computed(asked)
      /\ ndemanded' = Capped(Head(toSup).n, asked) - Cardinality(Computed(asked))
      /\ results_sent' = Cardinality(Computed(asked))
      /\ queue' \in IF {t \in asked : state[t] = 0} = {} THEN {queue}
                    ELSE GivePriority(queue, {t \in asked : state[t] = 0})
  BY <1>3 DEF ServeWait
<1>8. CountInv'
  BY <1>1, <1>7, CountServed
<1>9. toMain = <<>>
  <2>1. mpc = "ending" => EndMsg \in Unread
    BY <1>3 DEF RequestInv
  <2> QED
    BY <1>3, <2>1 DEF PhaseInv
<1>10. PhaseInv'
  <2>1. \A t \in Task : PollMsg(t) \in Unread' <=> PollMsg(t) \in Unread
    <3>1. /\ Unread' = Unread \ {Head(toSup)} /\ Head(toSup).code = "wait"
      BY <1>1, ReadFacts
    <3> QED
      BY <3>1, MessageFacts
  <2> QED
    BY <1>1, <1>2, <1>3, <1>5, <1>9, <2>1, PhaseKept
<1>11. /\ asked \in SUBSET Task /\ need \in Int
  BY DEF TypeOK, MainTypes
<1>12. Delivering' = Computed(asked)
  BY <1>4 DEF Computed
<1>13. DeliverInv'
  <2>1. results_sent' = results_got + Cardinality(Delivering')
    <3>1. Delivering' \in SUBSET Task
      BY <1>4, <1>11
    <3>2. Cardinality(Delivering') \in Nat
      BY <3>1, TaskSets
    <3> QED
      BY <1>3, <1>7, <1>12, <3>2
  <2>2. \A t \in promised : t \in asked /\ t \in Delivering'
    BY <1>3, <1>4 DEF DeliverInv
  <2>3. Delivering' \subseteq asked
    BY <1>4
  <2> QED
    BY <1>1, <1>3, <2>1, <2>2, <2>3 DEF DeliverInv
<1>14. DemandInv'
  <2>1. Computed(asked) \in SUBSET asked
    BY DEF Computed
  <2>2. /\ Cardinality(asked) \in Nat /\ Cardinality(Computed(asked)) \in Nat
        /\ Cardinality(demanded') = Cardinality(asked) - Cardinality(Computed(asked))
    <3>1. /\ IsFiniteSet(asked) /\ Cardinality(asked) \in Nat
      BY <1>11, TaskSets
    <3>2. Cardinality(Computed(asked)) \in Nat
      BY <1>11, <2>1, TaskSets
    <3>3. asked \cap Computed(asked) = Computed(asked)
      BY <2>1
    <3>4. Cardinality(asked \ Computed(asked))
            = Cardinality(asked) - Cardinality(asked \cap Computed(asked))
      BY <3>1, FS_Difference
    <3> QED
      BY <1>7, <3>1, <3>2, <3>3, <3>4
  <2>3. demanded' = {t \in asked : state'[t] \in {0, 1}}
    <3>1. \A t \in asked : state[t] \in 0 .. 2
      BY <1>3, <1>11 DEF AgreeInv
    <3> QED
      BY <1>1, <1>7, <3>1 DEF Computed
  <2>4. /\ ndemanded' + results_sent' = Capped(Head(toSup).n, asked)
        /\ ndemanded' <= Cardinality(demanded')
    BY <1>3, <1>7, <2>2 DEF Capped
  <2>5. \/ ndemanded' + results_sent' = Cardinality(asked)
        \/ ndemanded' + results_sent' >= results_got + need
    BY <1>3, <1>11, <2>2, <2>4 DEF Capped
  <2>6. Serving'
    BY <1>1, <1>3, <1>9 DEF Serving
  <2> QED
    BY <1>1, <2>3, <2>4, <2>5, <2>6 DEF DemandInv
<1>15. DoneInv'
  BY <1>1, <1>2 DEF DoneInv
<1> QED
  BY <1>4, <1>5, <1>6, <1>8, <1>10, <1>13, <1>14, <1>15

\* A waitTasks ends: the number of results that are on their way is final.
LEMMA StepEndWait ==
  ASSUME IInv, EndWait
  PROVE  Parts'
<1> USE DEF IInv, Parts, TypeInv
<1>1. /\ ReadRequest("wait") /\ Head(toSup) = EndMsg
      /\ toMain' = Append(toMain, results_sent)
      /\ demanded' = {} /\ ndemanded' = -1
      /\ UNCHANGED <<mainVars, sock, spc, state, queue, assignment, nwaiting,
                     nfinished, nlinks, results_sent, gpc, gtask, down, up,
                     mstate, result, mpc, asked, need, results_got, promised,
                     sent>>
  BY DEF EndWait, procVars, mainVars, callVars, countVars, linkVars
<1>2. /\ spc = "run" /\ EndMsg \in Unread /\ Unread' = Unread \ {EndMsg}
      /\ toSup' = <<>>
  BY <1>1, ReadFacts
<1>3. mpc = "ending" /\ toMain = <<>>
  BY <1>2 DEF RequestInv, PhaseInv
<1>4. toMain' = <<results_sent>>
  <2>1. Append(<<>>, results_sent) = <<results_sent>>
    OBVIOUS
  <2> QED
    BY <1>1, <1>3, <2>1
<1>5. Unread' = {} /\ ~WaitUnread' /\ ~WaitUnread
  <2>1. Unread' = {}
    BY <1>2 DEF Unread, Elems
  <2> QED
    BY <1>2, <2>1 DEF WaitUnread
<1>6. LinkInv' /\ Delivering' = Delivering
  BY <1>1, LinkKept
<1>7. SocketInv'
  BY <1>1, SocketStays
<1>8. CountInv' /\ DoneInv'
  BY <1>1, <1>2 DEF CountInv, Live, DoneInv
<1>9. PhaseInv'
  BY <1>1, <1>2, <1>3, <1>4, <1>5 DEF PhaseInv
<1>10. RequestInv'
  <2>1. /\ \A i, j \in 1 .. Len(toSup') : toSup'[i] = toSup'[j] => i = j
        /\ \A i \in 1 .. Len(toSup') : toSup'[i] = EndMsg => i = Len(toSup')
    BY <1>1, ReadFacts
  <2> QED
    BY <1>1, <1>5, <2>1, RequestKept
<1>11. AgreeInv'
  <2>1. \A t \in Task : StopMsg(t) \notin Unread /\ GotMsg(t) \notin Unread
    BY <1>2, <1>5, MessageFacts
  <2> QED
    BY <1>1, <2>1 DEF AgreeInv
<1>12. DeliverInv'
  <2>1. promised \subseteq Task
    BY DEF TypeOK, MainTypes
  <2>2. \A t \in promised : PollMsg(t) \notin Unread
    BY <1>3, <2>1 DEF RequestInv
  <2>3. \A t \in promised :
          t \in asked /\ (mstate[t] = "completed" \/ t \in Delivering)
    BY <1>5, <2>2 DEF DeliverInv
  <2> QED
    BY <1>1, <1>5, <1>6, <2>3 DEF DeliverInv
<1>13. DemandInv'
  <2>1. ~Serving'
    BY <1>1, <1>4 DEF Serving
  <2>2. Cardinality({}) = 0
    BY FS_EmptySet
  <2> QED
    BY <1>1, <2>1, <2>2 DEF DemandInv
<1> QED
  BY <1>6, <1>7, <1>8, <1>9, <1>10, <1>11, <1>12, <1>13

\* The supervisor answers a poll.
LEMMA StepServePoll ==
  ASSUME IInv, TypeInv', ServePoll
  PROVE  Parts'
<1> USE DEF IInv, Parts, TypeInv
<1>1. /\ ReadRequest("poll")
      /\ UNCHANGED <<mainVars, sock, spc, state, assignment, nwaiting,
                     nfinished, nlinks, demandVars, demanded, ndemanded,
                     results_sent, gpc, gtask, mstate, result, mpc, asked, need,
                     results_got, promised, sent>>
  BY DEF ServePoll, procVars, mainVars, callVars, countVars, demandVars
<1>2. /\ LinkInv' /\ \A t \in Task : OnSocket(t)' <=> OnSocket(t)
  BY LinkServePoll
<1>3. PICK id \in Task :
           /\ Head(toSup) = PollMsg(id) /\ asked = {id} /\ mpc = "poll"
           /\ mstate[id] = "started" /\ toMain = <<>>
           /\ toMain' = <<state[id]>>
           /\ state[id] = 2 => id \in Delivering'
           /\ state[id] # 2 => id \notin Delivering'
           /\ \A t \in Task : t # id => (t \in Delivering' <=> t \in Delivering)
  BY LinkServePoll
<1>4. /\ spc = "run" /\ Unread' = Unread \ {PollMsg(id)}
  BY <1>1, <1>3, ReadFacts
<1>5. Head(toSup) # EndMsg
  BY <1>3, MessageFacts
<1>6. RequestInv' /\ AgreeInv'
  BY <1>1, <1>5, RequestServed
<1>7. SocketInv'
  BY <1>1, <1>2, SocketKept
<1>8. CountInv'
  <2>1. \/ queue' \in {queue}
        \/ queue' \in GivePriority(queue, {Head(toSup).id})
    BY DEF ServePoll
  <2> QED
    BY <1>1, <2>1, CountServed
<1>9. state[id] \in 0 .. 2
  BY <1>3 DEF AgreeInv
<1>10. PhaseInv'
  <2>1. mpc = "poll" =>
          \A t \in asked :
            /\ asked = {t}
            /\ \/ PollMsg(t) \in Unread' /\ toMain' = <<>> /\ t \notin Delivering'
               \/ /\ PollMsg(t) \notin Unread'
                  /\ \E s \in 0 .. 2 : toMain' = <<s>> /\ (s = 2 <=> t \in Delivering')
    BY <1>3, <1>4, <1>9
  <2> QED
    BY <1>1, <1>3, <2>1 DEF PhaseInv
<1>11. ~WaitUnread /\ ~WaitUnread'
  BY <1>1, <1>3, <1>4 DEF RequestInv, WaitUnread
<1>12. DeliverInv'
  <2>1. Delivering' \subseteq asked
    <3>1. Delivering' \subseteq Task
      BY DEF Delivering
    <3> QED
      BY <1>3, <3>1 DEF DeliverInv
  <2>2. \A t \in promised :
          /\ t \in asked
          /\ \/ mstate[t] = "completed"
             \/ t \in Delivering'
    <3>1. \A t \in Delivering : state[t] = 2
      BY DEF Delivering
    <3> QED
      BY <1>3, <1>11, <3>1 DEF DeliverInv
  <2> QED
    BY <1>1, <1>3, <1>11, <2>1, <2>2 DEF DeliverInv
<1>13. DemandInv'
  BY <1>1, <1>3 DEF DemandInv, Serving
<1>14. DoneInv'
  BY <1>1, <1>4 DEF DoneInv
<1> QED
  BY <1>2, <1>6, <1>7, <1>8, <1>10, <1>12, <1>13, <1>14

-----------------------------------------------------------------------------
(***************************************************************************)
(* The steps of the main process and of the grandchildren, the invariant,  *)
(* and what the user of startTasks, waitTasks, pollTask and stopTask       *)
(* relies on.                                                              *)
(***************************************************************************)

\* A step of a grandchild is none of the main process and the supervisor.
LEMMA StepGrandchild ==
  ASSUME IInv, NEW k \in Link, Grandchild(k)
  PROVE  Parts'
<1> USE DEF IInv, Parts, TypeInv
<1>1. UNCHANGED <<mainVars, toSup, toMain, supVars>>
  BY DEF Grandchild, BeginTask, Announce, WriteIndex, WriteResult, EndTask,
     chanVars
<1>2. UNCHANGED <<mstate, result, mpc, asked, need, results_got, promised, sent,
                  spc, state, queue, nwaiting, nfinished, nlinks, opening,
                  demanded, ndemanded, results_sent>>
  BY <1>1 DEF mainVars, callVars, supVars, countVars, demandVars
<1>3. LinkInv' /\ SocketInv' /\ Delivering' = Delivering
  BY GrandchildLinks
<1>4. Unread' = Unread /\ WaitUnread' = WaitUnread /\ Serving' = Serving
  BY <1>1, <1>2 DEF Unread, WaitUnread, Serving
<1>5. PhaseInv'
  BY <1>1, <1>2, <1>3, <1>4 DEF PhaseInv
<1>6. RequestInv' /\ AgreeInv'
  BY <1>1, <1>2, <1>4 DEF RequestInv, AgreeInv
<1>7. DeliverInv' /\ DemandInv'
  BY <1>2, <1>3, <1>4 DEF DeliverInv, DemandInv
<1>8. CountInv' /\ DoneInv'
  BY <1>2 DEF CountInv, DoneInv, Live
<1> QED
  BY <1>3, <1>5, <1>6, <1>7, <1>8

-----------------------------------------------------------------------------
\* The main process writes a request behind those the supervisor has not read.
LEMMA RequestSent ==
  ASSUME RequestInv, TypeOK, NEW m \in Requests, m \notin Unread,
         EndMsg \notin Unread, toSup' = Append(toSup, m)
  PROVE  /\ Unread' = Unread \cup {m}
         /\ \A i, j \in 1 .. Len(toSup') : toSup'[i] = toSup'[j] => i = j
         /\ \A i \in 1 .. Len(toSup') : toSup'[i] = EndMsg => i = Len(toSup')
<1>1. toSup \in Seq(Requests)
  BY DEF TypeOK, ChannelTypes, Requests
<1>2. PICK n \in Nat : n = Len(toSup)
  BY <1>1
<1>3. /\ Elems(toSup') = Elems(toSup) \cup {m}
      /\ Len(toSup') = n + 1
      /\ \A i \in 1 .. n : toSup'[i] = toSup[i]
      /\ toSup'[n + 1] = m
  BY <1>1, <1>2, ElemsAppend
<1>4. \A i \in 1 .. n : toSup[i] # m /\ toSup[i] # EndMsg
  BY <1>2 DEF Unread, Elems
<1>5. \A i, j \in 1 .. n : toSup[i] = toSup[j] => i = j
  BY <1>2 DEF RequestInv
<1>6. \A i \in 1 .. n + 1 : i = n + 1 \/ i \in 1 .. n
  BY <1>2
<1> QED
  BY <1>3, <1>4, <1>5, <1>6 DEF Unread

\* The main process changes nothing that the counters depend on.
LEMMA CountStays ==
  ASSUME CountInv, DoneInv, UNCHANGED supVars
  PROVE  CountInv' /\ DoneInv'
BY DEF CountInv, DoneInv, Live, supVars, countVars, demandVars

\* No call is running: nothing is on its way to the main process.
LEMMA IdleFacts ==
  ASSUME IInv, mpc = "idle"
  PROVE  /\ Delivering = {} /\ asked = {} /\ need = 0 /\ results_got = 0
         /\ promised = {} /\ toMain = <<>> /\ ~WaitUnread /\ ~Serving
         /\ \A m \in Unread : m.code # "wait" /\ m # EndMsg
         /\ \A t \in Task : PollMsg(t) \notin Unread
<1> USE DEF IInv, Parts
<1>1. /\ asked = {} /\ need = 0 /\ results_got = 0 /\ promised = {}
      /\ toMain = <<>>
  BY DEF PhaseInv
<1>2. Delivering = {}
  BY <1>1 DEF DeliverInv
<1>3. EndMsg \notin Unread /\ \A t \in Task : PollMsg(t) \notin Unread
  BY DEF RequestInv
<1>4. ~WaitUnread /\ \A m \in Unread : m.code # "wait"
  BY <1>3 DEF RequestInv, WaitUnread
<1> QED
  BY <1>1, <1>2, <1>3, <1>4 DEF Serving

\* startTasks: nothing has been sent, and no task has a link.
LEMMA StepStartTasks ==
  ASSUME IInv, StartTasks
  PROVE  Parts'
<1> USE DEF IInv, Parts, TypeInv
<1>1. /\ mpc = "new" /\ mpc' = "starting" /\ spc' = "reserve"
      /\ mstate' = [t \in Task |-> "started"]
      /\ UNCHANGED <<result, asked, need, results_got, promised, sent, toSup,
                     toMain, sock, state, queue, assignment, nwaiting,
                     nfinished, nlinks, demanded, ndemanded, results_sent,
                     gpc, gtask, down, up>>
  BY DEF StartTasks, callVars, chanVars, countVars, demandVars, procVars,
     linkVars
<1>2. /\ toSup = <<>> /\ \A t \in Task : state[t] = 0
      /\ asked = {} /\ need = 0 /\ results_got = 0 /\ promised = {}
      /\ toMain = <<>>
  BY <1>1 DEF PhaseInv
<1>3. /\ LinkInv' /\ Delivering' = Delivering
      /\ \A t \in Task : OnSocket(t)' <=> OnSocket(t)
  BY <1>1, <1>2, LinkKept
<1>4. SocketInv'
  BY <1>1, <1>3, SocketKept
<1>5. Unread = {} /\ Unread' = {} /\ ~WaitUnread /\ ~WaitUnread'
  BY <1>1, <1>2 DEF Unread, Elems, WaitUnread
<1>6. ~Serving /\ ~Serving'
  BY <1>1 DEF Serving
<1>7. PhaseInv'
  BY <1>1, <1>2 DEF PhaseInv
<1>8. RequestInv' /\ AgreeInv'
  BY <1>1, <1>2, <1>5 DEF RequestInv, AgreeInv
<1>9. DeliverInv' /\ DemandInv'
  BY <1>1, <1>2, <1>3, <1>5, <1>6 DEF DeliverInv, DemandInv
<1>10. CountInv' /\ DoneInv'
  BY <1>1 DEF CountInv, DoneInv, Live
<1> QED
  BY <1>3, <1>4, <1>7, <1>8, <1>9, <1>10

\* The main process reads the 0 with which its supervisor begins.
LEMMA StepConnect ==
  ASSUME IInv, Connect
  PROVE  Parts'
<1> USE DEF IInv, Parts, TypeInv
<1>1. /\ mpc = "starting" /\ mpc' = "idle" /\ spc = "accept" /\ spc' = "run"
      /\ toMain' = Tail(toMain)
      /\ UNCHANGED <<mstate, result, asked, need, results_got, promised, sent,
                     toSup, sock, state, queue, assignment, nwaiting, nfinished,
                     nlinks, demanded, ndemanded, results_sent, gpc, gtask,
                     down, up>>
  BY DEF Connect, callVars, countVars, demandVars, procVars, linkVars
<1>2. /\ toSup = <<>> /\ \A t \in Task : state[t] = 0
      /\ asked = {} /\ need = 0 /\ results_got = 0 /\ promised = {}
      /\ toMain = <<0>> /\ \A t \in Task : mstate[t] # "created"
  BY <1>1 DEF PhaseInv
<1>3. toMain' = <<>>
  <2>1. Tail(<<0>>) = <<>>
    OBVIOUS
  <2> QED
    BY <1>1, <1>2, <2>1
<1>4. /\ LinkInv' /\ Delivering' = Delivering
  BY <1>1, LinkKept
<1>5. SocketInv'
  BY <1>1, SocketStays
<1>6. Unread' = Unread /\ WaitUnread' = WaitUnread /\ ~Serving /\ ~Serving'
  BY <1>1 DEF Unread, WaitUnread, Serving
<1>7. PhaseInv'
  BY <1>1, <1>2, <1>3 DEF PhaseInv
<1>8. RequestInv' /\ AgreeInv'
  <2>1. Unread = {}
    BY <1>2 DEF Unread, Elems
  <2> QED
    BY <1>1, <1>6, <2>1 DEF RequestInv, AgreeInv, WaitUnread
<1>9. DeliverInv' /\ DemandInv'
  BY <1>1, <1>2, <1>4, <1>6 DEF DeliverInv, DemandInv
<1>10. CountInv' /\ DoneInv'
  BY <1>1 DEF CountInv, DoneInv, Live
<1> QED
  BY <1>4, <1>5, <1>7, <1>8, <1>9, <1>10

\* The user stops a task between two calls.
LEMMA StepStopTask ==
  ASSUME IInv, NEW t \in Task, StopTask(t)
  PROVE  Parts'
<1> USE DEF IInv, Parts, TypeInv
<1>1. /\ mpc = "idle" /\ mstate[t] = "started"
      /\ toSup' = Append(toSup, StopMsg(t))
      /\ mstate' = [mstate EXCEPT ![t] = "stopped"]
      /\ UNCHANGED <<result, mpc, callVars, asked, need, results_got, promised,
                     sent, toMain, sock, supVars, procVars, linkVars>>
      /\ UNCHANGED <<spc, state, assignment, demanded, ndemanded, results_sent,
                     gpc, gtask>>
  BY DEF StopTask, callVars, supVars, countVars, demandVars, procVars
<1>2. /\ mstate \in [Task -> GlobalStates]
  BY DEF TypeOK, MainTypes, GlobalStates
<1>3. /\ mstate'[t] = "stopped"
      /\ \A u \in Task : u # t => mstate'[u] = mstate[u]
  BY <1>1, <1>2
<1>4. /\ Delivering = {} /\ asked = {} /\ need = 0 /\ results_got = 0
      /\ promised = {} /\ toMain = <<>> /\ ~WaitUnread /\ ~Serving
      /\ \A m \in Unread : m.code # "wait" /\ m # EndMsg
      /\ \A u \in Task : PollMsg(u) \notin Unread
  BY <1>1, IdleFacts
<1>5. /\ LinkInv' /\ Delivering' = {}
      /\ \A u \in Task : OnSocket(u)' <=> OnSocket(u)
  BY LinkStopTask
<1>6. SocketInv'
  BY <1>1, <1>5, SocketKept
<1>7. state[t] \in 0 .. 2
  BY <1>1 DEF AgreeInv
<1>8. StopMsg(t) \notin Unread /\ GotMsg(t) \notin Unread
  BY <1>1 DEF RequestInv
<1>9. /\ Unread' = Unread \cup {StopMsg(t)}
      /\ \A i, j \in 1 .. Len(toSup') : toSup'[i] = toSup'[j] => i = j
      /\ \A i \in 1 .. Len(toSup') : toSup'[i] = EndMsg => i = Len(toSup')
  <2>1. StopMsg(t) \in Requests
    BY DEF StopMsg, Request, TaskRequests, Requests
  <2>2. EndMsg \notin Unread
    BY <1>4
  <2> QED
    BY <1>1, <1>8, <2>1, <2>2, RequestSent
<1>10. /\ \A u \in Task : StopMsg(u) \in Unread' <=> StopMsg(u) \in Unread \/ u = t
       /\ \A u \in Task : GotMsg(u) \in Unread' <=> GotMsg(u) \in Unread
       /\ \A u \in Task : PollMsg(u) \notin Unread'
       /\ \A m \in Unread' : m.code # "wait" /\ m # EndMsg
  BY <1>4, <1>9, MessageFacts
<1>11. ~WaitUnread' /\ ~Serving'
  BY <1>1, <1>10 DEF WaitUnread, Serving
<1>12. PhaseInv'
  BY <1>1, <1>3, <1>4 DEF PhaseInv
<1>13. RequestInv'
  <2>1. \A u \in Task : StopMsg(u) \in Unread' =>
           mstate'[u] = "stopped" /\ state'[u] \in 0 .. 2
    BY <1>1, <1>3, <1>7, <1>10 DEF RequestInv
  <2>2. \A u \in Task : GotMsg(u) \in Unread' =>
           mstate'[u] = "completed" /\ state'[u] = 2
    BY <1>1, <1>3, <1>8, <1>10 DEF RequestInv
  <2> QED
    BY <1>1, <1>9, <1>10, <1>11, <2>1, <2>2 DEF RequestInv
<1>14. AgreeInv'
  BY <1>1, <1>3, <1>7, <1>10 DEF AgreeInv
<1>15. DeliverInv' /\ DemandInv'
  BY <1>1, <1>4, <1>5, <1>11 DEF DeliverInv, DemandInv
<1>16. CountInv' /\ DoneInv'
  BY <1>1, CountStays
<1> QED
  BY <1>5, <1>6, <1>12, <1>13, <1>14, <1>15, <1>16

\* The user polls a task between two calls.
LEMMA StepPollTask ==
  ASSUME IInv, NEW t \in Task, PollTask(t)
  PROVE  Parts'
<1> USE DEF IInv, Parts, TypeInv
<1>1. /\ mpc = "idle" /\ mpc' = "poll" /\ mstate[t] = "started"
      /\ toSup' = Append(toSup, PollMsg(t)) /\ asked' = {t}
      /\ promised' = {t} \cap {u \in Task : state[u] = 2}
      /\ UNCHANGED <<mstate, result, need, results_got, sent, toMain, sock,
                     supVars, procVars, linkVars, spc, state, assignment,
                     demanded, ndemanded, results_sent, gpc, gtask, down, up>>
  BY DEF PollTask, supVars, countVars, demandVars, procVars, linkVars
<1>2. /\ Delivering = {} /\ need = 0 /\ results_got = 0 /\ toMain = <<>>
      /\ ~WaitUnread /\ ~Serving
      /\ \A m \in Unread : m.code # "wait" /\ m # EndMsg
      /\ \A u \in Task : PollMsg(u) \notin Unread
  BY <1>1, IdleFacts
<1>3. /\ LinkInv' /\ Delivering' = Delivering
  BY <1>1, LinkKept
<1>4. SocketInv'
  BY <1>1, SocketStays
<1>5. /\ Unread' = Unread \cup {PollMsg(t)}
      /\ \A i, j \in 1 .. Len(toSup') : toSup'[i] = toSup'[j] => i = j
      /\ \A i \in 1 .. Len(toSup') : toSup'[i] = EndMsg => i = Len(toSup')
  <2>1. PollMsg(t) \in Requests
    BY DEF PollMsg, Request, TaskRequests, Requests
  <2>2. EndMsg \notin Unread
    BY <1>2
  <2> QED
    BY <1>1, <1>2, <2>1, <2>2, RequestSent
<1>6. /\ \A u \in Task : StopMsg(u) \in Unread' <=> StopMsg(u) \in Unread
      /\ \A u \in Task : GotMsg(u) \in Unread' <=> GotMsg(u) \in Unread
      /\ \A u \in Task : PollMsg(u) \in Unread' <=> u = t
      /\ \A m \in Unread' : m.code # "wait" /\ m # EndMsg
  BY <1>2, <1>5, MessageFacts
<1>7. ~WaitUnread' /\ ~Serving'
  BY <1>1, <1>6 DEF WaitUnread, Serving
<1>8. PhaseInv'
  <2>1. mpc \notin {"new", "starting"}
    BY <1>1
  <2> QED
    BY <1>1, <1>2, <1>3, <1>6, <2>1 DEF PhaseInv
<1>9. RequestInv'
  BY <1>1, <1>5, <1>6, <1>7 DEF RequestInv
<1>10. AgreeInv'
  BY <1>1, <1>6 DEF AgreeInv
<1>11. DeliverInv' /\ DemandInv'
  BY <1>1, <1>2, <1>3, <1>6, <1>7 DEF DeliverInv, DemandInv
<1>12. CountInv' /\ DoneInv'
  BY <1>1, CountStays
<1> QED
  BY <1>3, <1>4, <1>8, <1>9, <1>10, <1>11, <1>12

\* The user waits for tasks.
LEMMA StepWaitTasks ==
  ASSUME IInv, NEW S \in SUBSET Task, NEW x, NEW n \in Int, WaitTasks(S, n, x)
  PROVE  Parts'
<1> USE DEF IInv, Parts, TypeInv
<1>1. /\ mpc = "idle" /\ mpc' = "wait" /\ S # {}
      /\ \A t \in S : mstate[t] = "started"
      /\ toSup' = Append(toSup, WaitMsg(S, n)) /\ asked' = S /\ need' = n
      /\ promised' = {t \in S : state[t] = 2}
      /\ UNCHANGED <<mstate, result, results_got, sent, toMain, sock,
                     supVars, procVars, linkVars, spc, state, assignment,
                     demanded, ndemanded, results_sent, gpc, gtask, down, up>>
  BY DEF WaitTasks, supVars, countVars, demandVars, procVars, linkVars
<1>2. /\ Delivering = {} /\ results_got = 0 /\ toMain = <<>>
      /\ ~WaitUnread /\ ~Serving
      /\ \A m \in Unread : m.code # "wait" /\ m # EndMsg
      /\ \A u \in Task : PollMsg(u) \notin Unread
  BY <1>1, IdleFacts
<1>3. /\ LinkInv' /\ Delivering' = Delivering
  BY <1>1, LinkKept
<1>4. SocketInv'
  BY <1>1, SocketStays
<1>5. /\ WaitMsg(S, n).code = "wait" /\ WaitMsg(S, n).ids = S
      /\ WaitMsg(S, n).n = n /\ WaitMsg(S, n) # EndMsg
  <2>1. EndMsg.ids = {}
    BY DEF EndMsg, WaitMsg, Request
  <2> QED
    BY <1>1, <2>1, MessageFacts
<1>6. /\ Unread' = Unread \cup {WaitMsg(S, n)}
      /\ \A i, j \in 1 .. Len(toSup') : toSup'[i] = toSup'[j] => i = j
      /\ \A i \in 1 .. Len(toSup') : toSup'[i] = EndMsg => i = Len(toSup')
  <2>1. WaitMsg(S, n) \in Requests
    BY DEF WaitMsg, Request, WaitRequests, Requests
  <2>2. EndMsg \notin Unread /\ WaitMsg(S, n) \notin Unread
    BY <1>2, <1>5
  <2> QED
    BY <1>1, <2>1, <2>2, RequestSent
<1>7. /\ \A u \in Task : StopMsg(u) \in Unread' <=> StopMsg(u) \in Unread
      /\ \A u \in Task : GotMsg(u) \in Unread' <=> GotMsg(u) \in Unread
      /\ \A u \in Task : PollMsg(u) \notin Unread'
      /\ EndMsg \notin Unread'
      /\ \A m \in Unread' : m.code = "wait" <=> m = WaitMsg(S, n)
  BY <1>2, <1>5, <1>6, MessageFacts
<1>8. WaitUnread' /\ ~Serving'
  <2>1. WaitUnread'
    BY <1>5, <1>6 DEF WaitUnread
  <2> QED
    BY <2>1 DEF Serving
<1>9. PhaseInv'
  <2>1. mpc \notin {"new", "starting"}
    BY <1>1
  <2> QED
    BY <1>1, <1>2, <2>1 DEF PhaseInv
<1>10. RequestInv'
  <2>1. \A m, o \in Unread' :
          m.code = "wait" /\ m # EndMsg =>
            /\ mpc' \in {"wait", "ending"} /\ m.ids = asked' /\ m.n >= need'
            /\ o.code = "wait" /\ o # EndMsg => m = o
    BY <1>1, <1>5, <1>7
  <2>2. /\ \A u \in Task : StopMsg(u) \in Unread' =>
             mstate'[u] = "stopped" /\ state'[u] \in 0 .. 2
        /\ \A u \in Task : GotMsg(u) \in Unread' =>
             mstate'[u] = "completed" /\ state'[u] = 2
    BY <1>1, <1>7 DEF RequestInv
  <2> QED
    BY <1>1, <1>2, <1>6, <1>7, <2>1, <2>2 DEF RequestInv
<1>11. AgreeInv'
  BY <1>1, <1>7 DEF AgreeInv
<1>12. DeliverInv' /\ DemandInv'
  <2>1. results_got = Cardinality({t \in S : mstate[t] = "completed"})
    <3>1. {t \in S : mstate[t] = "completed"} = {}
      BY <1>1
    <3> QED
      BY <1>2, <3>1, FS_EmptySet
  <2> QED
    BY <1>1, <1>2, <1>3, <1>8, <2>1 DEF DeliverInv, DemandInv
<1>13. CountInv' /\ DoneInv'
  BY <1>1, CountStays
<1> QED
  BY <1>3, <1>4, <1>9, <1>10, <1>11, <1>12, <1>13

\* A result of another supervisor's task arrives.
LEMMA StepElsewhereReceive ==
  ASSUME IInv, ElsewhereReceive
  PROVE  Parts'
<1> USE DEF IInv, Parts, TypeInv
<1>1. /\ mpc = "wait" /\ need > 0 /\ need' = need - 1
      /\ UNCHANGED <<mstate, result, mpc, asked, results_got, sent, promised,
                     toSup, toMain, sock, supVars, procVars, linkVars, spc,
                     state, assignment, demanded, ndemanded, results_sent, gpc,
                     gtask, down, up>>
  <2>1. need \in Int
    BY DEF TypeOK, MainTypes
  <2> QED
    BY <2>1 DEF ElsewhereReceive, Enough, supVars, countVars, demandVars,
       procVars, linkVars, chanVars
<1>2. need \in Int /\ results_got \in Nat /\ ndemanded \in Int /\ results_sent \in Nat
      /\ toSup \in Seq(Requests)
  BY DEF TypeOK, MainTypes, SupervisorTypes, ChannelTypes, Requests
<1>3. LinkInv' /\ Delivering' = Delivering
  BY <1>1, LinkKept
<1>4. SocketInv'
  BY <1>1, SocketStays
<1>5. Unread' = Unread /\ WaitUnread' = WaitUnread /\ Serving' = Serving
  BY <1>1 DEF Unread, WaitUnread, Serving
<1>6. PhaseInv'
  BY <1>1 DEF PhaseInv
<1>7. RequestInv'
  <2>1. \A m, o \in Unread :
          m.code = "wait" /\ m # EndMsg =>
            /\ m.ids = asked /\ m.n >= need'
            /\ o.code = "wait" /\ o # EndMsg => m = o
    <3> SUFFICES ASSUME NEW m \in Unread, NEW o \in Unread,
                        m.code = "wait", m # EndMsg
                 PROVE  /\ m.ids = asked /\ m.n >= need'
                        /\ o.code = "wait" /\ o # EndMsg => m = o
      OBVIOUS
    <3>1. m \in Requests
      BY <1>2 DEF Unread, Elems
    <3>2. m.n \in Int
      BY <3>1 DEF Requests, TaskRequests, WaitRequests
    <3>3. /\ m.ids = asked /\ m.n >= need
          /\ o.code = "wait" /\ o # EndMsg => m = o
      BY DEF RequestInv
    <3> QED
      BY <1>1, <1>2, <3>2, <3>3
  <2> QED
    BY <1>1, <1>5, <2>1 DEF RequestInv
<1>8. AgreeInv'
  BY <1>1, <1>5 DEF AgreeInv
<1>9. DeliverInv'
  BY <1>1, <1>2, <1>3, <1>5 DEF DeliverInv
<1>10. DemandInv'
  <2>1. Serving =>
          \/ ndemanded + results_sent = Cardinality(asked)
          \/ ndemanded + results_sent >= results_got + need'
    BY <1>1, <1>2 DEF DemandInv
  <2> QED
    BY <1>1, <1>5, <2>1 DEF DemandInv
<1>11. CountInv' /\ DoneInv'
  BY <1>1, CountStays
<1> QED
  BY <1>3, <1>4, <1>6, <1>7, <1>8, <1>9, <1>10, <1>11

\* The loop of waitTasks ends: its end is announced to the supervisor.
LEMMA StepWaitEnd ==
  ASSUME IInv, WaitEnd
  PROVE  Parts'
<1> USE DEF IInv, Parts, TypeInv
<1>1. /\ mpc = "wait" /\ mpc' = "ending" /\ toSup' = Append(toSup, EndMsg)
      /\ UNCHANGED <<mstate, result, asked, need, results_got, sent, promised,
                     toMain, sock, supVars, procVars, linkVars, spc,
                     state, assignment, demanded, ndemanded, results_sent, gpc,
                     gtask, down, up>>
  BY DEF WaitEnd, callVars, supVars, countVars, demandVars, procVars, linkVars
<1>2. EndMsg \notin Unread
  BY <1>1 DEF RequestInv
<1>3. LinkInv' /\ Delivering' = Delivering
  BY <1>1, LinkKept
<1>4. SocketInv'
  BY <1>1, SocketStays
<1>5. /\ Unread' = Unread \cup {EndMsg}
      /\ \A i, j \in 1 .. Len(toSup') : toSup'[i] = toSup'[j] => i = j
      /\ \A i \in 1 .. Len(toSup') : toSup'[i] = EndMsg => i = Len(toSup')
  <2>1. EndMsg \in Requests
    BY DEF EndMsg, WaitMsg, Request, WaitRequests, Requests
  <2> QED
    BY <1>1, <1>2, <2>1, RequestSent
<1>6. /\ \A u \in Task : StopMsg(u) \in Unread' <=> StopMsg(u) \in Unread
      /\ \A u \in Task : GotMsg(u) \in Unread' <=> GotMsg(u) \in Unread
      /\ \A u \in Task : PollMsg(u) \in Unread' <=> PollMsg(u) \in Unread
  BY <1>5, MessageFacts
<1>7. WaitUnread' <=> WaitUnread
  BY <1>5 DEF WaitUnread
<1>8. Serving' <=> Serving
  BY <1>1, <1>7 DEF Serving
<1>9. PhaseInv'
  BY <1>1, <1>5 DEF PhaseInv
<1>10. RequestInv'
  <2>1. \A m, o \in Unread' :
          m.code = "wait" /\ m # EndMsg =>
            /\ m.ids = asked /\ m.n >= need
            /\ o.code = "wait" /\ o # EndMsg => m = o
    BY <1>5 DEF RequestInv
  <2>2. \A u \in Task : PollMsg(u) \notin Unread'
    BY <1>1, <1>6 DEF RequestInv
  <2>3. /\ \A u \in Task : StopMsg(u) \in Unread' =>
             mstate[u] = "stopped" /\ state[u] \in 0 .. 2
        /\ \A u \in Task : GotMsg(u) \in Unread' =>
             mstate[u] = "completed" /\ state[u] = 2
    BY <1>6 DEF RequestInv
  <2>4. WaitUnread' => results_got = 0 /\ \A t \in asked : mstate[t] = "started"
    BY <1>7 DEF RequestInv
  <2> QED
    BY <1>1, <1>5, <2>1, <2>2, <2>3, <2>4 DEF RequestInv
<1>11. AgreeInv'
  BY <1>1, <1>6 DEF AgreeInv
<1>12. DeliverInv'
  <2>1. promised \subseteq Task
    BY DEF TypeOK, MainTypes
  <2>2. \A t \in promised :
          /\ t \in asked
          /\ \/ mstate[t] = "completed"
             \/ t \in Delivering
             \/ state[t] = 2 /\ (WaitUnread \/ PollMsg(t) \in Unread')
    BY <1>6, <2>1 DEF DeliverInv
  <2> QED
    BY <1>1, <1>3, <1>7, <2>2 DEF DeliverInv
<1>13. DemandInv'
  BY <1>1, <1>8 DEF DemandInv
<1>14. CountInv' /\ DoneInv'
  BY <1>1, CountStays
<1> QED
  BY <1>3, <1>4, <1>9, <1>10, <1>11, <1>12, <1>13, <1>14

\* The number of results on their way is read; there will be no further ones.
LEMMA StepReadResultsSent ==
  ASSUME IInv, ReadResultsSent
  PROVE  Parts'
<1> USE DEF IInv, Parts, TypeInv
<1>1. /\ mpc = "ending" /\ mpc' = "drain" /\ toMain # <<>>
      /\ sent' = Head(toMain) /\ toMain' = Tail(toMain)
      /\ UNCHANGED <<mstate, result, asked, need, results_got, promised,
                     toSup, sock, supVars, procVars, linkVars, spc,
                     state, assignment, demanded, ndemanded, results_sent, gpc,
                     gtask, down, up>>
  BY DEF ReadResultsSent, supVars, countVars, demandVars, procVars, linkVars
<1>2. EndMsg \notin Unread /\ toMain = <<results_sent>>
  BY <1>1 DEF PhaseInv
<1>3. toMain' = <<>> /\ sent' = results_sent
  <2>1. Tail(<<results_sent>>) = <<>> /\ Head(<<results_sent>>) = results_sent
    OBVIOUS
  <2> QED
    BY <1>1, <1>2, <2>1
<1>4. LinkInv' /\ Delivering' = Delivering
  BY <1>1, LinkKept
<1>5. SocketInv'
  BY <1>1, SocketStays
<1>6. Unread' = Unread /\ ~WaitUnread /\ ~WaitUnread'
  BY <1>1, <1>2 DEF Unread, WaitUnread, RequestInv
<1>7. ~Serving /\ ~Serving'
  BY <1>1 DEF Serving
<1>8. PhaseInv'
  BY <1>1, <1>3 DEF PhaseInv
<1>9. RequestInv'
  BY <1>1, <1>2, <1>6 DEF RequestInv, WaitUnread
<1>10. AgreeInv'
  BY <1>1, <1>6 DEF AgreeInv
<1>11. DeliverInv' /\ DemandInv'
  BY <1>1, <1>4, <1>6, <1>7 DEF DeliverInv, DemandInv
<1>12. CountInv' /\ DoneInv'
  BY <1>1, CountStays
<1> QED
  BY <1>4, <1>5, <1>8, <1>9, <1>10, <1>11, <1>12

\* A request to poll is the one of the running call.
LEMMA PollUnread ==
  ASSUME RequestInv, TypeOK, NEW m \in Unread, m.code = "poll"
  PROVE  mpc = "poll" /\ \E t \in Task : m = PollMsg(t) /\ asked = {t}
<1>1. toSup \in Seq(Requests)
  BY DEF TypeOK, ChannelTypes, Requests
<1>2. m \in Requests
  BY <1>1 DEF Unread, Elems
<1>3. PICK t \in Task : m = PollMsg(t)
  BY <1>2 DEF Requests, TaskRequests, WaitRequests, PollMsg, Request
<1> QED
  BY <1>3 DEF RequestInv

\* A call returns when nothing is on its way to it any more.
LEMMA CallReturns ==
  ASSUME IInv, mpc \in {"drain", "poll", "pollresult"}, Return,
         PhaseInv', AgreeInv', LinkInv', SocketInv', Delivering' = {},
         \A m \in Unread : m.code # "poll",
         UNCHANGED <<mstate, supVars, toSup>>
  PROVE  Parts'
<1> USE DEF IInv, Parts, TypeInv
<1>1. /\ mpc' = "idle" /\ asked' = {} /\ need' = 0 /\ results_got' = 0
      /\ promised' = {}
      /\ UNCHANGED <<mstate, toSup, state, demanded, ndemanded, results_sent>>
  BY DEF Return, supVars, demandVars
<1>2. Unread' = Unread
  BY <1>1 DEF Unread
<1>3. EndMsg \notin Unread
  BY DEF RequestInv
<1>4. \A m \in Unread : m.code # "wait"
  BY <1>3 DEF RequestInv
<1>5. ~WaitUnread' /\ ~Serving /\ ~Serving'
  BY <1>1, <1>2, <1>4 DEF WaitUnread, Serving
<1>6. \A t \in Task : PollMsg(t) \notin Unread
  BY MessageFacts
<1>7. RequestInv'
  <2>1. /\ \A t \in Task : StopMsg(t) \in Unread =>
             mstate[t] = "stopped" /\ state[t] \in 0 .. 2
        /\ \A t \in Task : GotMsg(t) \in Unread =>
             mstate[t] = "completed" /\ state[t] = 2
    BY DEF RequestInv
  <2>2. /\ \A i, j \in 1 .. Len(toSup) : toSup[i] = toSup[j] => i = j
        /\ \A i \in 1 .. Len(toSup) : toSup[i] = EndMsg => i = Len(toSup)
    BY DEF RequestInv
  <2> QED
    BY <1>1, <1>2, <1>3, <1>4, <1>5, <1>6, <2>1, <2>2 DEF RequestInv
<1>8. DeliverInv' /\ DemandInv'
  BY <1>1, <1>5 DEF DeliverInv, DemandInv
<1>9. CountInv' /\ DoneInv'
  BY CountStays
<1> QED
  BY <1>7, <1>8, <1>9

\* waitTasks returns when no result is left for it.
LEMMA StepWaitReturn ==
  ASSUME IInv, WaitReturn
  PROVE  Parts'
<1> USE DEF IInv, Parts, TypeInv
<1>1. /\ mpc = "drain" /\ sent <= results_got /\ Return
      /\ UNCHANGED <<mstate, result, toSup, toMain, sock, supVars, procVars,
                     linkVars, spc, state, assignment, gpc, gtask, down, up>>
  <2>1. sent \in Int /\ results_got \in Nat
    BY DEF TypeOK, MainTypes
  <2> QED
    BY <2>1 DEF WaitReturn, ResultsMissing, chanVars, supVars, procVars, linkVars
<1>2. Delivering = {}
  <2>1. Delivering \in SUBSET Task
    BY DEF Delivering
  <2>2. Cardinality(Delivering) \in Nat /\ (Cardinality(Delivering) = 0 => Delivering = {})
    BY <2>1, TaskSets
  <2>3. ~WaitUnread
    BY <1>1 DEF WaitUnread, RequestInv
  <2>4. results_sent = results_got + Cardinality(Delivering) /\ sent = results_sent
    BY <1>1, <2>3 DEF DeliverInv, PhaseInv
  <2>5. results_got \in Nat
    BY DEF TypeOK, MainTypes
  <2> QED
    BY <1>1, <2>2, <2>4, <2>5
<1>3. LinkInv' /\ Delivering' = Delivering
  BY <1>1, LinkKept
<1>4. SocketInv'
  BY <1>1, SocketStays
<1>5. Unread' = Unread
  BY <1>1 DEF Unread
<1>6. PhaseInv'
  BY <1>1 DEF PhaseInv, Return
<1>7. AgreeInv'
  BY <1>1, <1>5 DEF AgreeInv
<1>8. \A m \in Unread : m.code # "poll"
  BY <1>1, PollUnread
<1> QED
  BY <1>1, <1>2, <1>3, <1>4, <1>6, <1>7, <1>8, CallReturns

\* pollTask reads the state of the task: there is a result if and only if its
\* grandchild got the go-ahead.
LEMMA StepPollReply ==
  ASSUME IInv, PollReply
  PROVE  Parts'
<1> USE DEF IInv, Parts, TypeInv
<1>1. /\ mpc = "poll" /\ toMain # <<>> /\ toMain' = Tail(toMain)
      /\ UNCHANGED <<mstate, result, toSup, sock, supVars, procVars, linkVars,
                     spc, state, assignment, demanded, ndemanded, results_sent,
                     gpc, gtask, down, up>>
  BY DEF PollReply, supVars, countVars, demandVars, procVars, linkVars
<1>2. PICK t \in asked : TRUE
  BY <1>1 DEF PhaseInv
<1>3. /\ asked = {t} /\ PollMsg(t) \notin Unread
      /\ \E s \in 0 .. 2 : toMain = <<s>> /\ (s = 2 <=> t \in Delivering)
  BY <1>1 DEF PhaseInv
<1>4. PICK s \in 0 .. 2 : toMain = <<s>> /\ (s = 2 <=> t \in Delivering)
  BY <1>3
<1>5. Head(toMain) = s /\ toMain' = <<>>
  <2>1. Head(<<s>>) = s /\ Tail(<<s>>) = <<>>
    OBVIOUS
  <2> QED
    BY <1>1, <1>4, <2>1
<1>6. LinkInv' /\ Delivering' = Delivering
  BY <1>1, LinkKept
<1>7. SocketInv'
  BY <1>1, SocketStays
<1>8. Unread' = Unread
  BY <1>1 DEF Unread
<1>9. AgreeInv'
  BY <1>1, <1>8 DEF AgreeInv
<1>10. \A m \in Unread : m.code # "poll"
  <2> SUFFICES ASSUME NEW m \in Unread, m.code = "poll" PROVE FALSE
    OBVIOUS
  <2>1. PICK u \in Task : m = PollMsg(u) /\ asked = {u}
    BY PollUnread
  <2> QED
    BY <1>3, <2>1
<1>11. CASE s = 2
  <2>1. mpc' = "pollresult" /\ UNCHANGED callVars
    BY <1>5, <1>11 DEF PollReply
  <2>2. UNCHANGED <<asked, need, results_got, promised, sent>>
    BY <2>1 DEF callVars
  <2>3. WaitUnread' = WaitUnread /\ ~Serving /\ ~Serving'
    BY <1>1, <1>8, <2>1 DEF WaitUnread, Serving
  <2>4. PhaseInv'
    BY <1>1, <1>3, <1>4, <1>5, <1>6, <1>11, <2>1, <2>2 DEF PhaseInv
  <2>5. RequestInv'
    <3>1. \A u \in Task : PollMsg(u) \notin Unread
      BY <1>10, MessageFacts
    <3>2. EndMsg \notin Unread /\ \A m \in Unread : m.code # "wait"
      BY <1>1 DEF RequestInv
    <3>3. /\ \A u \in Task : StopMsg(u) \in Unread =>
               mstate[u] = "stopped" /\ state[u] \in 0 .. 2
          /\ \A u \in Task : GotMsg(u) \in Unread =>
               mstate[u] = "completed" /\ state[u] = 2
          /\ \A u \in asked : mstate[u] = "started"
      BY <1>1 DEF RequestInv
    <3>4. ~WaitUnread
      BY <3>2 DEF WaitUnread
    <3>5. /\ \A i, j \in 1 .. Len(toSup) : toSup[i] = toSup[j] => i = j
          /\ \A i \in 1 .. Len(toSup) : toSup[i] = EndMsg => i = Len(toSup)
      BY DEF RequestInv
    <3> QED
      BY <1>1, <1>8, <2>1, <2>2, <2>3, <3>1, <3>2, <3>3, <3>4, <3>5
         DEF RequestInv
  <2>6. DeliverInv'
    <3>1. promised \subseteq Task
      BY DEF TypeOK, MainTypes
    <3> QED
      BY <1>1, <1>6, <1>8, <2>1, <2>2, <2>3, <3>1 DEF DeliverInv
  <2>7. DemandInv'
    BY <1>1, <2>2, <2>3 DEF DemandInv
  <2>8. CountInv' /\ DoneInv'
    BY <1>1, CountStays
  <2> QED
    BY <1>6, <1>7, <1>9, <2>4, <2>5, <2>6, <2>7, <2>8
<1>12. CASE s # 2
  <2>1. Return
    BY <1>5, <1>12 DEF PollReply
  <2>2. Delivering' = {}
    BY <1>3, <1>4, <1>6, <1>12 DEF DeliverInv
  <2>3. PhaseInv'
    BY <1>1, <1>5, <2>1 DEF PhaseInv, Return
  <2> QED
    BY <1>1, <1>6, <1>7, <1>9, <1>10, <2>1, <2>2, <2>3, CallReturns
<1> QED
  BY <1>11, <1>12

-----------------------------------------------------------------------------
\* The main process reads a result.  It belongs to the task whose index is read,
\* to a task of the running call, and that task is started until then.
LEMMA Received ==
  ASSUME LinkInv, SocketInv, RequestInv, AgreeInv, TypeOK, TypeOK',
         NEW t \in Task, Receive(t), sock[1] = Piece("index", t),
         EndMsg \notin Unread,
         UNCHANGED <<state, assignment, gpc, gtask, down, up>>
  PROVE  /\ LinkInv' /\ SocketInv' /\ AgreeInv'
         /\ t \in Delivering /\ Delivering' = Delivering \ {t}
         /\ state[t] = 2 /\ mstate[t] = "started"
         /\ mstate'[t] = "completed" /\ result'[t] = t
         /\ \A u \in Task : u # t => mstate'[u] = mstate[u]
         /\ Unread' = Unread \cup {GotMsg(t)}
         /\ \A i, j \in 1 .. Len(toSup') : toSup'[i] = toSup'[j] => i = j
         /\ \A i \in 1 .. Len(toSup') : toSup'[i] = EndMsg => i = Len(toSup')
<1>1. /\ Len(sock) >= 2
      /\ result' = [result EXCEPT ![t] = sock[2].task]
      /\ mstate' = [mstate EXCEPT ![t] = "completed"]
      /\ toSup' = Append(toSup, GotMsg(t))
      /\ sock' = Tail(Tail(sock))
  BY DEF Receive
<1>2. PICK u \in Task :
        /\ sock[1] = Piece("index", u) /\ sock[2] = Piece("result", u)
        /\ u \in Delivering /\ OnSocket(u)
        /\ gpc[assignment[u]] \in {"release", "idle"}
  BY <1>1, SocketRead
<1>3. u = t
  BY <1>2 DEF Piece
<1>4. /\ sock[2] = Piece("result", t) /\ t \in Delivering /\ OnSocket(t)
      /\ gpc[assignment[t]] \in {"release", "idle"}
  BY <1>2, <1>3
<1>5. state[t] = 2 /\ mstate[t] = "started"
  BY <1>4 DEF OnSocket
<1>6. /\ mstate \in [Task -> GlobalStates] /\ result \in [Task -> Task \cup {0}]
  BY DEF TypeOK, MainTypes, GlobalStates
<1>7. /\ mstate'[t] = "completed"
      /\ \A v \in Task : v # t => mstate'[v] = mstate[v]
      /\ \A v \in Task : v # t => result'[v] = result[v]
  BY <1>1, <1>6
<1>8. result'[t] = t
  <2>1. sock[2].task = t
    BY <1>4 DEF Piece
  <2> QED
    BY <1>1, <1>6, <2>1
<1>9. PICK k \in Link : k = assignment[t] /\ Holding(t, k)
  BY <1>5 DEF LinkInv
<1>10. LinkInv'
  <2>1. \A v \in Task : v # t /\ assignment[v] = k =>
          state'[v] \notin {1, 2} /\ assignment'[v] = 0
    <3>1. \A v \in Task : v # t => state[v] \notin {1, 2} \/ assignment[v] # k
      BY <1>5, <1>9 DEF LinkInv
    <3>2. k # 0
      BY DEF Link
    <3> QED
      BY <3>1, <3>2 DEF LinkInv
  <2>2. Holding(t, k)'
    BY <1>9 DEF Holding
  <2> QED
    BY <1>4, <1>5, <1>7, <1>9, <2>1, <2>2, LinkMoved
<1>11. ~Parked(t)' /\ \A v \in Task : Parked(v)' <=> Parked(v)
  BY <1>4 DEF Parked
<1>12. Delivering' = Delivering \ {t}
  BY <1>7, <1>11 DEF Delivering
<1>13. SocketInv'
  <2>1. \A v \in Task : OnSocket(v)' <=> OnSocket(v) /\ v # t
    BY <1>7 DEF OnSocket
  <2> QED
    BY <1>1, <1>4, <2>1, SocketReceive
<1>14. GotMsg(t) \notin Unread /\ StopMsg(t) \notin Unread
  BY <1>5 DEF RequestInv
<1>15. /\ Unread' = Unread \cup {GotMsg(t)}
       /\ \A i, j \in 1 .. Len(toSup') : toSup'[i] = toSup'[j] => i = j
       /\ \A i \in 1 .. Len(toSup') : toSup'[i] = EndMsg => i = Len(toSup')
  <2>1. GotMsg(t) \in Requests
    BY DEF GotMsg, Request, TaskRequests, Requests
  <2> QED
    BY <1>1, <1>14, <2>1, RequestSent
<1>16. AgreeInv'
  BY <1>5, <1>7, <1>8, <1>15 DEF AgreeInv
<1> QED
  BY <1>4, <1>5, <1>7, <1>8, <1>10, <1>12, <1>13, <1>15, <1>16

\* No request but acknowledgements and stops is under way while results are read.
LEMMA RequestAfterResult ==
  ASSUME RequestInv, TypeOK, NEW t \in Task, state[t] = 2,
         mstate[t] = "started", mstate'[t] = "completed",
         \A u \in Task : u # t => mstate'[u] = mstate[u],
         Unread' = Unread \cup {GotMsg(t)},
         \A i, j \in 1 .. Len(toSup') : toSup'[i] = toSup'[j] => i = j,
         \A i \in 1 .. Len(toSup') : toSup'[i] = EndMsg => i = Len(toSup'),
         mpc \in {"wait", "drain", "pollresult"}, ~WaitUnread,
         mpc' \in {"wait", "drain", "idle"}, UNCHANGED state
  PROVE  RequestInv' /\ ~WaitUnread'
<1>1. EndMsg \notin Unread
  BY DEF RequestInv
<1>2. \A m \in Unread : m.code # "wait" /\ m.code # "poll"
  BY <1>1, PollUnread DEF WaitUnread
<1>3. \A m \in Unread' : m.code # "wait" /\ m.code # "poll" /\ m # EndMsg
  BY <1>1, <1>2, MessageFacts
<1>4. /\ \A u \in Task : StopMsg(u) \in Unread' <=> StopMsg(u) \in Unread
      /\ \A u \in Task : GotMsg(u) \in Unread' <=> GotMsg(u) \in Unread \/ u = t
      /\ \A u \in Task : PollMsg(u) \notin Unread'
  <2>1. \A u \in Task : PollMsg(u) \notin Unread'
    <3>1. \A u : PollMsg(u).code = "poll"
      BY MessageFacts
    <3> QED
      BY <1>3, <3>1
  <2>2. \A u : /\ StopMsg(u) # GotMsg(t)
               /\ GotMsg(u) = GotMsg(t) => u = t
    BY MessageFacts
  <2> QED
    BY <2>1, <2>2
<1>5. StopMsg(t) \notin Unread
  BY DEF RequestInv
<1>6. /\ \A u \in Task : StopMsg(u) \in Unread' =>
           mstate'[u] = "stopped" /\ state'[u] \in 0 .. 2
      /\ \A u \in Task : GotMsg(u) \in Unread' =>
           mstate'[u] = "completed" /\ state'[u] = 2
  BY <1>4, <1>5 DEF RequestInv
<1>7. ~WaitUnread'
  BY <1>3 DEF WaitUnread
<1> QED
  BY <1>3, <1>4, <1>6, <1>7 DEF RequestInv

\* waitTasks reads a result: one more is completed, one less is on its way.
LEMMA ResultCounted ==
  ASSUME DeliverInv, TypeOK, NEW t \in Task, t \in Delivering,
         mstate[t] = "started", mstate'[t] = "completed",
         \A u \in Task : u # t => mstate'[u] = mstate[u],
         Delivering' = Delivering \ {t},
         mpc \in {"wait", "drain"}, ~WaitUnread, ~WaitUnread',
         \A m \in Unread : m.code # "poll",
         UNCHANGED <<mpc, asked, promised, state, results_sent>>,
         results_got' = results_got + 1, mpc = "wait" => need' >= 0
  PROVE  DeliverInv'
<1>1. /\ asked \subseteq Task /\ promised \subseteq Task /\ results_got \in Nat
      /\ mstate \in [Task -> GlobalStates] /\ results_sent \in Nat
  BY DEF TypeOK, MainTypes, SupervisorTypes, GlobalStates
<1>2. t \in asked /\ Delivering \in SUBSET Task
  BY DEF DeliverInv, Delivering
<1>3. results_sent' = results_got' + Cardinality(Delivering')
  <2>1. Cardinality(Delivering') = Cardinality(Delivering) - 1
    BY <1>2, TaskRemoved
  <2>2. Cardinality(Delivering) \in Nat
    BY <1>2, TaskSets
  <2>3. results_sent = results_got + Cardinality(Delivering)
    BY DEF DeliverInv
  <2> QED
    BY <1>1, <2>1, <2>2, <2>3
<1>4. results_got' = Cardinality({u \in asked : mstate'[u] = "completed"})
  <2> DEFINE C == {u \in asked : mstate[u] = "completed"}
  <2>1. {u \in asked : mstate'[u] = "completed"} = C \cup {t}
    BY <1>1, <1>2
  <2>2. C \in SUBSET Task /\ t \notin C
    BY <1>1
  <2>3. results_got = Cardinality(C)
    BY DEF DeliverInv
  <2> HIDE DEF C
  <2>4. Cardinality(C \cup {t}) = Cardinality(C) + 1
    BY <2>2, TaskAdded
  <2> QED
    BY <2>1, <2>3, <2>4
<1>5. \A u \in asked : mstate'[u] \in {"started", "completed"}
  BY <1>1 DEF DeliverInv
<1>6. \A u \in promised :
        u \in asked /\ (mstate'[u] = "completed" \/ u \in Delivering')
  <2>1. \A u \in promised : PollMsg(u) \notin Unread
    BY MessageFacts
  <2>2. \A u \in promised :
          u \in asked /\ (mstate[u] = "completed" \/ u \in Delivering)
    BY <2>1 DEF DeliverInv
  <2> QED
    BY <1>1, <2>2
<1>7. Delivering' \subseteq asked
  BY DEF DeliverInv
<1> QED
  BY <1>3, <1>4, <1>5, <1>6, <1>7 DEF DeliverInv

\* What is read by the loops of waitTasks is a result of a started task that is on
\* its way to this call.
LEMMA WaitGets ==
  ASSUME IInv, TypeInv', mpc \in {"wait", "drain"}, mpc' = mpc,
         Receive(Head(sock).task),
         UNCHANGED <<supVars, procVars, linkVars>>
  PROVE  \E t \in Task :
            /\ LinkInv' /\ SocketInv' /\ AgreeInv' /\ RequestInv'
            /\ t \in Delivering /\ Delivering' = Delivering \ {t}
            /\ mstate[t] = "started" /\ mstate'[t] = "completed"
            /\ \A u \in Task : u # t => mstate'[u] = mstate[u]
            /\ ~WaitUnread /\ ~WaitUnread' /\ EndMsg \notin Unread'
            /\ \A m \in Unread : m.code # "poll"
<1> USE DEF IInv, Parts, TypeInv
<1>1. /\ UNCHANGED <<state, assignment, gpc, gtask, down, up>>
  BY DEF supVars, procVars, linkVars
<1>2. Len(sock) >= 2
  BY DEF Receive
<1>3. PICK t \in Task : sock[1] = Piece("index", t) /\ t \in Delivering
  BY <1>2, SocketRead
<1>4. Head(sock).task = t
  BY <1>3 DEF Piece
<1>5. Receive(t)
  BY <1>4
<1>6. EndMsg \notin Unread
  BY DEF RequestInv
<1>7. /\ LinkInv' /\ SocketInv' /\ AgreeInv'
      /\ t \in Delivering /\ Delivering' = Delivering \ {t}
      /\ state[t] = 2 /\ mstate[t] = "started"
      /\ mstate'[t] = "completed" /\ result'[t] = t
      /\ \A u \in Task : u # t => mstate'[u] = mstate[u]
      /\ Unread' = Unread \cup {GotMsg(t)}
      /\ \A i, j \in 1 .. Len(toSup') : toSup'[i] = toSup'[j] => i = j
      /\ \A i \in 1 .. Len(toSup') : toSup'[i] = EndMsg => i = Len(toSup')
  BY <1>1, <1>3, <1>5, <1>6, Received
<1>8. ~WaitUnread
  BY <1>3 DEF DeliverInv
<1>9. RequestInv' /\ ~WaitUnread'
  BY <1>1, <1>7, <1>8, RequestAfterResult
<1>10. \A m \in Unread : m.code # "poll"
  BY PollUnread
<1>11. EndMsg \notin Unread'
  BY <1>6, <1>7, MessageFacts
<1> QED
  BY <1>7, <1>8, <1>9, <1>10, <1>11

\* waitTasks reads a result while it needs some.
LEMMA StepWaitReceive ==
  ASSUME IInv, TypeInv', WaitReceive
  PROVE  Parts'
<1> USE DEF IInv, Parts, TypeInv
<1>1. /\ mpc = "wait" /\ mpc' = mpc /\ Receive(Head(sock).task)
      /\ need > 0 /\ need' = need - 1 /\ results_got' = results_got + 1
      /\ UNCHANGED <<asked, sent, promised, toMain, supVars, procVars, linkVars>>
      /\ UNCHANGED <<spc, state, demanded, ndemanded, results_sent>>
      /\ need \in Int /\ results_got \in Nat
  <2>1. need \in Int /\ results_got \in Nat
    BY DEF TypeOK, MainTypes
  <2> QED
    BY <2>1 DEF WaitReceive, Enough, supVars, demandVars
<1>2. PICK t \in Task :
        /\ LinkInv' /\ SocketInv' /\ AgreeInv' /\ RequestInv'
        /\ t \in Delivering /\ Delivering' = Delivering \ {t}
        /\ mstate[t] = "started" /\ mstate'[t] = "completed"
        /\ \A u \in Task : u # t => mstate'[u] = mstate[u]
        /\ ~WaitUnread /\ ~WaitUnread' /\ EndMsg \notin Unread'
        /\ \A m \in Unread : m.code # "poll"
  BY <1>1, WaitGets
<1>3. PhaseInv'
  <2>1. \A u \in Task : mstate'[u] # "created"
    BY <1>1, <1>2 DEF PhaseInv
  <2> QED
    BY <1>1, <2>1 DEF PhaseInv
<1>4. DeliverInv'
  <2>1. need' >= 0
    BY <1>1
  <2> QED
    BY <1>1, <1>2, <2>1, ResultCounted
<1>5. DemandInv'
  <2>1. Serving' <=> Serving
    BY <1>1, <1>2 DEF Serving
  <2>2. results_got' + need' = results_got + need
    BY <1>1
  <2> QED
    BY <1>1, <2>1, <2>2 DEF DemandInv
<1>6. CountInv' /\ DoneInv'
  BY <1>1, CountStays
<1> QED
  BY <1>2, <1>3, <1>4, <1>5, <1>6

\* waitTasks reads a result that was sent before its end was known.
LEMMA StepWaitDrain ==
  ASSUME IInv, TypeInv', WaitDrain
  PROVE  Parts'
<1> USE DEF IInv, Parts, TypeInv
<1>1. /\ mpc = "drain" /\ mpc' = mpc /\ Receive(Head(sock).task)
      /\ results_got' = results_got + 1
      /\ UNCHANGED <<asked, need, sent, promised, toMain, supVars, procVars,
                     linkVars>>
      /\ UNCHANGED <<spc, state, demanded, ndemanded, results_sent>>
  BY DEF WaitDrain, supVars, demandVars
<1>2. PICK t \in Task :
        /\ LinkInv' /\ SocketInv' /\ AgreeInv' /\ RequestInv'
        /\ t \in Delivering /\ Delivering' = Delivering \ {t}
        /\ mstate[t] = "started" /\ mstate'[t] = "completed"
        /\ \A u \in Task : u # t => mstate'[u] = mstate[u]
        /\ ~WaitUnread /\ ~WaitUnread' /\ EndMsg \notin Unread'
        /\ \A m \in Unread : m.code # "poll"
  BY <1>1, WaitGets
<1>3. PhaseInv'
  <2>1. \A u \in Task : mstate'[u] # "created"
    BY <1>1, <1>2 DEF PhaseInv
  <2> QED
    BY <1>1, <2>1 DEF PhaseInv
<1>4. DeliverInv'
  BY <1>1, <1>2, ResultCounted
<1>5. DemandInv'
  BY <1>1 DEF DemandInv, Serving
<1>6. CountInv' /\ DoneInv'
  BY <1>1, CountStays
<1> QED
  BY <1>2, <1>3, <1>4, <1>5, <1>6

\* pollTask takes the pair it reads for the result of its task: it is.
LEMMA StepPollResult ==
  ASSUME IInv, TypeInv', PollResult
  PROVE  Parts'
<1> USE DEF IInv, Parts, TypeInv
<1>1. PICK t \in asked : Receive(t)
  BY DEF PollResult
<1>2. /\ mpc = "pollresult" /\ Return
      /\ UNCHANGED <<toMain, supVars, spc, state, assignment, gpc, gtask, down,
                     up, demanded, ndemanded, results_sent>>
  BY DEF PollResult, supVars, demandVars, procVars, linkVars
<1>3. asked = {t} /\ t \in Task /\ Delivering \subseteq {t}
  <2>1. asked \subseteq Task
    BY DEF TypeOK, MainTypes
  <2> QED
    BY <1>1, <1>2, <2>1 DEF PhaseInv, DeliverInv
<1>4. sock[1] = Piece("index", t)
  <2>1. Len(sock) >= 2
    BY <1>1 DEF Receive
  <2>2. PICK u \in Task : sock[1] = Piece("index", u) /\ u \in Delivering
    BY <2>1, SocketRead
  <2> QED
    BY <1>3, <2>2
<1>5. EndMsg \notin Unread
  BY <1>2 DEF RequestInv
<1>6. /\ LinkInv' /\ SocketInv' /\ AgreeInv'
      /\ t \in Delivering /\ Delivering' = Delivering \ {t}
      /\ state[t] = 2 /\ mstate[t] = "started"
      /\ mstate'[t] = "completed" /\ result'[t] = t
      /\ \A u \in Task : u # t => mstate'[u] = mstate[u]
      /\ Unread' = Unread \cup {GotMsg(t)}
      /\ \A i, j \in 1 .. Len(toSup') : toSup'[i] = toSup'[j] => i = j
      /\ \A i \in 1 .. Len(toSup') : toSup'[i] = EndMsg => i = Len(toSup')
  BY <1>1, <1>2, <1>3, <1>4, <1>5, Received
<1>7. /\ mpc' = "idle" /\ asked' = {} /\ need' = 0 /\ results_got' = 0
      /\ promised' = {}
  BY <1>2 DEF Return
<1>8. Delivering' = {}
  BY <1>3, <1>6
<1>9. ~WaitUnread
  BY <1>2 DEF RequestInv, WaitUnread
<1>10. RequestInv' /\ ~WaitUnread'
  BY <1>2, <1>3, <1>6, <1>7, <1>9, RequestAfterResult
<1>11. ~Serving /\ ~Serving'
  BY <1>2, <1>7 DEF Serving
<1>12. PhaseInv'
  <2>1. \A u \in Task : mstate'[u] # "created"
    BY <1>2, <1>6 DEF PhaseInv
  <2> QED
    BY <1>2, <1>7, <2>1 DEF PhaseInv
<1>13. DeliverInv' /\ DemandInv'
  BY <1>2, <1>7, <1>8, <1>10, <1>11 DEF DeliverInv, DemandInv
<1>14. CountInv' /\ DoneInv'
  BY <1>2, CountStays
<1> QED
  BY <1>6, <1>10, <1>12, <1>13, <1>14

-----------------------------------------------------------------------------
(***************************************************************************)
(* The invariant.                                                          *)
(***************************************************************************)
LEMMA PartsInit == Init => Parts
<1> SUFFICES ASSUME Init PROVE Parts
  OBVIOUS
<1> USE DEF Init
<1>0. NTasks \in Nat \ {0}
  BY ParamAssumption
<1>1. \A t \in Task : mstate[t] = "created" /\ state[t] = 0 /\ assignment[t] = 0
  OBVIOUS
<1>2. Unread = {} /\ ~WaitUnread /\ ~Serving /\ Delivering = {}
  BY <1>1 DEF Unread, Elems, WaitUnread, Serving, Delivering
<1>3. PhaseInv
  BY <1>1 DEF PhaseInv
<1>4. RequestInv /\ AgreeInv
  BY <1>1, <1>2 DEF RequestInv, AgreeInv
<1>5. LinkInv
  <2>1. \A k \in Link : Unused(k)
    BY DEF Unused
  <2> QED
    BY <1>1, <2>1 DEF LinkInv
<1>6. SocketInv
  <2>1. \A t \in Task : ~OnSocket(t)
    BY <1>1 DEF OnSocket
  <2>2. \A k \in Link : gpc[k] # "write"
    OBVIOUS
  <2> QED
    BY <2>1, <2>2 DEF SocketInv
<1>7. DeliverInv
  BY <1>2 DEF DeliverInv
<1>8. DemandInv
  BY <1>2, FS_EmptySet DEF DemandInv
<1>9. CountInv
  <2>1. /\ {t \in Task : state[t] = 0} = Task
        /\ {t \in Task : state[t] \in {-1, 3}} = {}
        /\ Live = {}
    BY <1>1 DEF Live
  <2>2. Cardinality(Task) = NTasks /\ Cardinality({}) = 0
    BY <1>0, FS_Interval, FS_EmptySet DEF Task
  <2>3. Len(queue) = NTasks /\ \A i \in 1 .. Len(queue) : queue[i] = i
    BY <1>0 DEF Task
  <2>4. Elems(queue) = Task
    BY <2>3 DEF Elems, Task
  <2>5. nwaiting = NTasks /\ nfinished = 0 /\ nlinks = 0
    OBVIOUS
  <2>6. \A i, j \in 1 .. Len(queue) : queue[i] = queue[j] => i = j
    BY <2>3
  <2> HIDE DEF Init
  <2> QED
    BY <2>1, <2>2, <2>4, <2>5, <2>6 DEF CountInv
<1>10. DoneInv
  BY DEF DoneInv
<1> QED
  BY <1>3, <1>4, <1>5, <1>6, <1>7, <1>8, <1>9, <1>10 DEF Parts

\* A step that changes nothing.
LEMMA PartsStutter == Parts /\ UNCHANGED vars => Parts'
<1> SUFFICES ASSUME Parts, UNCHANGED vars PROVE Parts'
  OBVIOUS
<1> USE DEF Parts
<1>1. UNCHANGED <<mstate, result, mpc, asked, need, results_got, promised, sent,
                  toSup, toMain, sock, spc, state, queue, assignment, nwaiting,
                  nfinished, nlinks, opening, demanded, ndemanded, results_sent,
                  gpc, gtask, down, up>>
  BY DEF vars, mainVars, callVars, chanVars, supVars, countVars, demandVars,
     procVars, linkVars
<1>2. /\ Unread' = Unread /\ WaitUnread' = WaitUnread /\ Serving' = Serving
      /\ Delivering' = Delivering /\ Live' = Live
      /\ \A t : OnSocket(t)' = OnSocket(t)
  BY <1>1 DEF Unread, WaitUnread, Serving, Delivering, Parked, OnSocket, Live
<1>3. PhaseInv' /\ RequestInv' /\ AgreeInv'
  BY <1>1, <1>2 DEF PhaseInv, RequestInv, AgreeInv
<1>4. LinkInv'
  BY <1>1 DEF LinkInv, Running, Holding, Unused, Parked
<1>5. SocketInv'
  BY <1>1, <1>2 DEF SocketInv, IndexAt, ResultAt
<1>6. DeliverInv' /\ DemandInv'
  BY <1>1, <1>2 DEF DeliverInv, DemandInv
<1>7. CountInv' /\ DoneInv'
  BY <1>1, <1>2 DEF CountInv, DoneInv
<1> QED
  BY <1>3, <1>4, <1>5, <1>6, <1>7

\* The steps of the main process, put together.
LEMMA StepMain ==
  ASSUME IInv, TypeInv', StartTasks \/ MainCalls \/ MainSteps
  PROVE  Parts'
<1>1. CASE StartTasks
  BY <1>1, StepStartTasks
<1>2. CASE MainCalls
  <2>1. \A S \in SUBSET Task, x \in 0 .. Others :
          \A n \in 1 - Cardinality({t \in Task : mstate[t] = "completed"})
                   .. Cardinality(S) + x : n \in Int
    OBVIOUS
  <2>2. CASE \E t \in Task : StopTask(t) \/ PollTask(t)
    BY <2>2, StepStopTask, StepPollTask
  <2>3. CASE \E S \in SUBSET Task, x \in 0 .. Others :
               \E n \in 1 - Cardinality({t \in Task : mstate[t] = "completed"})
                        .. Cardinality(S) + x : WaitTasks(S, n, x)
    BY <2>1, <2>3, StepWaitTasks
  <2> QED
    BY <1>2, <2>2, <2>3 DEF MainCalls
<1>3. CASE MainSteps
  <2>1. CASE Connect
    BY <2>1, StepConnect
  <2>2. CASE WaitReceive
    BY <2>2, StepWaitReceive
  <2>3. CASE ElsewhereReceive
    BY <2>3, StepElsewhereReceive
  <2>4. CASE WaitEnd
    BY <2>4, StepWaitEnd
  <2>5. CASE ReadResultsSent
    BY <2>5, StepReadResultsSent
  <2>6. CASE WaitDrain
    BY <2>6, StepWaitDrain
  <2>7. CASE WaitReturn
    BY <2>7, StepWaitReturn
  <2>8. CASE PollReply
    BY <2>8, StepPollReply
  <2>9. CASE PollResult
    BY <2>9, StepPollResult
  <2> QED
    BY <1>3, <2>1, <2>2, <2>3, <2>4, <2>5, <2>6, <2>7, <2>8, <2>9
       DEF MainSteps
<1> QED
  BY <1>1, <1>2, <1>3

\* The steps of the supervisor, put together.
LEMMA StepSupervisor ==
  ASSUME IInv, TypeInv', SupervisorSteps \/ \E m \in 1 .. NTasks : MoreLeaves(m)
  PROVE  Parts'
<1>1. CASE Reserve \/ SupervisorEnd
  BY <1>1, StepReserve, StepSupervisorEnd
<1>2. CASE OpenLink
  BY <1>2, StepOpenLink
<1>3. CASE (\E m \in 0 .. NTasks : FirstLeaves(m))
           \/ (\E m \in 1 .. NTasks : MoreLeaves(m))
  BY <1>3, StepLeaves
<1>4. CASE \E k \in Link : ReadComputed(k) \/ ReadEnded(k)
  BY <1>4, StepReadComputed, StepReadEnded
<1>5. CASE StopWaiting \/ StopAndReopen \/ StopAndClose
  BY <1>5, StepStopWaiting, StepStopAndReopen, StepStopAndClose
<1>6. CASE ServeWait \/ EndWait \/ ServePoll
  BY <1>6, StepServeWait, StepEndWait, StepServePoll
<1>7. CASE GotAndRelaunch \/ GotAndClose
  BY <1>7, StepGotAndRelaunch, StepGotAndClose
<1> QED
  BY <1>1, <1>2, <1>3, <1>4, <1>5, <1>6, <1>7 DEF SupervisorSteps

\* Every step preserves the inductive invariant.
LEMMA InvNext == IInv /\ [Next]_vars => IInv'
<1> SUFFICES ASSUME IInv, [Next]_vars PROVE IInv'
  OBVIOUS
<1>1. TypeInv' /\ WriteInv'
  BY TypeNext, WriteNext DEF IInv
<1>2. CASE StartTasks \/ MainCalls \/ MainSteps
  BY <1>1, <1>2, StepMain DEF IInv
<1>3. CASE SupervisorSteps \/ \E m \in 1 .. NTasks : MoreLeaves(m)
  BY <1>1, <1>3, StepSupervisor DEF IInv
<1>4. CASE \E k \in Link : Grandchild(k)
  BY <1>1, <1>4, StepGrandchild DEF IInv
<1>5. CASE UNCHANGED vars
  BY <1>1, <1>5, PartsStutter DEF IInv
<1> QED
  BY <1>2, <1>3, <1>4, <1>5 DEF Next, Finished

\* The inductive invariant always holds.
LEMMA Invariance == Spec => []IInv
<1>1. Init => IInv
  BY TypeInit, WriteInit, PartsInit DEF IInv
<1> QED
  BY <1>1, InvNext, PTL DEF Spec

-----------------------------------------------------------------------------
(***************************************************************************)
(* What follows from the invariant.                                        *)
(***************************************************************************)
\* A completed task holds its own result, for any number of tasks and leaves and
\* whatever is waited for, polled and stopped in whatever order.
THEOREM ResultsCorrect == Spec => []ResultIntegrity
<1>1. IInv => ResultIntegrity
  BY DEF IInv, Parts, AgreeInv, ResultIntegrity
<1> QED
  BY <1>1, Invariance, PTL

\* On every link calls and go-aheads, results and ends of calls alternate, so that
\* neither side ever takes one for the other.
THEOREM LinksCorrect == Spec => []LinkProtocol
<1>1. ASSUME IInv, NEW k \in Link
      PROVE  /\ down[k] # <<>> /\ gpc[k] = "idle" => Head(down[k]) # Go
             /\ down[k] # <<>> /\ gpc[k] = "await" => Head(down[k]) = Go
             /\ \A i \in 1 .. Len(up[k]) : up[k][i] # Ended =>
                  state[up[k][i]] = 1 /\ assignment[up[k][i]] = k
  <2> USE <1>1 DEF IInv, Parts
  <2>1. CASE \A t \in Task : assignment[t] # k
    <3>1. Unused(k)
      BY <2>1 DEF LinkInv
    <3> QED
      BY <3>1 DEF Unused
  <2>2. ASSUME NEW t \in Task, assignment[t] = k
        PROVE  /\ down[k] # <<>> /\ gpc[k] = "idle" => Head(down[k]) # Go
               /\ down[k] # <<>> /\ gpc[k] = "await" => Head(down[k]) = Go
               /\ \A i \in 1 .. Len(up[k]) : up[k][i] # Ended =>
                    state[up[k][i]] = 1 /\ assignment[up[k][i]] = k
    <3>1. k # 0
      BY DEF Link
    <3>2. state[t] \in {1, 2}
      BY <2>2, <3>1 DEF LinkInv
    <3>3. t # 0 /\ Head(<<t>>) = t /\ Head(<<Go>>) = Go
      BY DEF Task
    <3>4. CASE state[t] = 1
      <4>1. Running(t, k)
        BY <2>2, <3>4 DEF LinkInv
      <4>2. /\ down[k] # <<>> /\ gpc[k] = "idle" => Head(down[k]) # Go
            /\ down[k] # <<>> /\ gpc[k] = "await" => Head(down[k]) = Go
        BY <3>3, <4>1 DEF Running, Go
      <4>3. up[k] \in {<<>>, <<Ended>>, <<t>>, <<Ended, t>>}
        BY <4>1 DEF Running
      <4>4. \A i \in 1 .. Len(up[k]) : up[k][i] # Ended => up[k][i] = t
        BY <4>3
      <4> QED
        BY <2>2, <3>4, <4>2, <4>4
    <3>5. CASE state[t] = 2
      <4>1. Holding(t, k)
        BY <2>2, <3>5 DEF LinkInv
      <4>2. /\ down[k] # <<>> /\ gpc[k] = "idle" => Head(down[k]) # Go
            /\ down[k] # <<>> /\ gpc[k] = "await" => Head(down[k]) = Go
        BY <3>3, <4>1 DEF Holding
      <4>3. up[k] \in {<<>>, <<Ended>>}
        BY <4>1 DEF Holding
      <4>4. \A i \in 1 .. Len(up[k]) : up[k][i] = Ended
        BY <4>3
      <4> QED
        BY <4>2, <4>4
    <3> QED
      BY <3>2, <3>4, <3>5
  <2> QED
    BY <2>1, <2>2
<1>2. IInv => LinkProtocol
  BY <1>1 DEF LinkProtocol
<1> QED
  BY <1>2, Invariance, PTL

\* Between two calls no result is read, written or about to be written: nobody
\* would read it before the next call, which would take it for its own.
THEOREM QuietCorrect == Spec => []QuietWhenIdle
<1>1. ASSUME IInv, mpc = "idle"
      PROVE  /\ sock = <<>> /\ toMain = <<>>
             /\ \A k \in Link :
                  ~(gpc[k] = "write" \/ (gpc[k] = "await" /\ down[k] # <<>>))
  <2> USE <1>1 DEF IInv, Parts, TypeInv
  <2>1. Delivering = {} /\ toMain = <<>>
    BY IdleFacts
  <2>2. sock = <<>>
    <3> SUFFICES ASSUME sock # <<>> PROVE FALSE
      OBVIOUS
    <3>1. sock \in Seq(Pieces)
      BY DEF TypeOK, ChannelTypes, Pieces
    <3>2. 1 \in 1 .. Len(sock) /\ ~ResultAt(1)
      BY <3>1, EmptySeq DEF ResultAt
    <3>3. PICK t \in Task : IndexAt(1, t)
      BY <3>2 DEF SocketInv
    <3>4. t \in Delivering
      BY <3>3 DEF IndexAt, OnSocket, Delivering, Parked
    <3> QED
      BY <2>1, <3>4
  <2>3. ASSUME NEW k \in Link,
               gpc[k] = "write" \/ (gpc[k] = "await" /\ down[k] # <<>>)
        PROVE  FALSE
    <3>1. PICK t \in Task : state[t] \in {1, 2} /\ assignment[t] = k
      BY <2>3, LinkOwner
    <3>2. state[t] = 2
      BY <2>3, <3>1 DEF LinkInv, Running
    <3>3. ~Parked(t)
      BY <2>3, <3>1 DEF Parked
    <3>4. mstate[t] \notin {"created", "stopped", "completed"}
      BY <2>3, <3>1, <3>2, <3>3 DEF LinkInv, PhaseInv
    <3>5. mstate[t] = "started"
      BY <3>4 DEF TypeOK, MainTypes
    <3>6. t \in Delivering
      BY <3>2, <3>3, <3>5 DEF Delivering
    <3> QED
      BY <2>1, <3>6
  <2> QED
    BY <2>1, <2>2, <2>3
<1>2. IInv => QuietWhenIdle
  BY <1>1 DEF QuietWhenIdle
<1> QED
  BY <1>2, Invariance, PTL

\* The counters and lists of the supervisor agree with the states of its tasks,
\* and its states with those of the main process when no request is under way.
THEOREM CountersCorrect == Spec => []CountersAgree
<1>1. ASSUME IInv PROVE CountersAgree
  <2> USE <1>1 DEF IInv, Parts, TypeInv
  <2>1. {assignment[t] : t \in Live} = {k \in Link : gpc[k] # "none"}
    <3>1. ASSUME NEW t \in Live
          PROVE  assignment[t] \in Link /\ gpc[assignment[t]] # "none"
      BY DEF Live, LinkInv, Running, Holding
    <3>2. ASSUME NEW k \in Link, gpc[k] # "none"
          PROVE  \E t \in Live : assignment[t] = k
      BY <3>2, LinkOwner DEF Live
    <3> QED
      BY <3>1, <3>2
  <2>2. Cardinality({k \in Link : gpc[k] # "none"}) = Cardinality(Live)
    <3> DEFINE L == {k \in Link : gpc[k] # "none"}
               f == [t \in Live |-> assignment[t]]
    <3>1. f \in [Live -> L]
      BY <2>1
    <3>2. \A t, u \in Live : f[t] = f[u] => t = u
      BY DEF Live, LinkInv
    <3>3. \A k \in L : \E t \in Live : f[t] = k
      BY <2>1
    <3>4. f \in Bijection(Live, L)
      BY <3>1, <3>2, <3>3 DEF Bijection, Injection, Surjection, IsInjective
    <3>5. ExistsBijection(Live, L)
      BY <3>4 DEF ExistsBijection
    <3>6. IsFiniteSet(Live)
      <4>1. Live \in SUBSET Task
        BY DEF Live
      <4> QED
        BY <4>1, TaskSets
    <3> QED
      BY <3>5, <3>6, FS_Bijection
  <2>3. \A t \in Task \ Live : assignment[t] = 0
    BY DEF Live, LinkInv
  <2>4. Len(queue) = nwaiting /\ opening <= nwaiting
    BY DEF QueueLength
  <2>5. ASSUME spc \in {"run", "done"}, mpc = "idle", toSup = <<>>, NEW t \in Task
        PROVE  mstate[t] = CASE state[t] \in 0 .. 2 -> "started"
                             [] state[t] = 3 -> "completed"
                             [] state[t] = -1 -> "stopped"
    <3>1. Unread = {}
      BY <2>5 DEF Unread, Elems
    <3>2. mstate[t] \in {"started", "completed", "stopped"}
      BY <2>5 DEF TypeOK, MainTypes, PhaseInv
    <3>3. /\ mstate[t] = "started" => state[t] \in 0 .. 2
          /\ mstate[t] = "stopped" => state[t] = -1
          /\ mstate[t] = "completed" => state[t] = 3
      BY <3>1 DEF AgreeInv
    <3> QED
      BY <3>2, <3>3
  <2> QED
    BY <2>1, <2>2, <2>3, <2>4, <2>5 DEF CountersAgree, CountInv, DemandInv
<1>2. IInv => CountersAgree
  BY <1>1
<1> QED
  BY <1>2, Invariance, PTL

\* The supervisor never reads a request for a task that it has finished already,
\* nor an acknowledgement of a result that was not sent.
THEOREM RequestsCorrect == Spec => []NoStrayRequest
<1>1. ASSUME IInv, toSup # <<>>
      PROVE  LET m == Head(toSup)
             IN  /\ m.code \in {"stop", "poll"} => state[m.id] \in 0 .. 2
                 /\ m.code = "wait" => \A t \in m.ids : state[t] \in 0 .. 2
                 /\ m.code = "got" =>
                      state[m.id] = 2 /\ gpc[assignment[m.id]] \in {"release", "idle"}
  <2> USE <1>1 DEF IInv, Parts, TypeInv
  <2>1. PICK m : m = Head(toSup)
    OBVIOUS
  <2>2. toSup \in Seq(Requests)
    BY DEF TypeOK, ChannelTypes, Requests
  <2>3. m \in Unread /\ m \in Requests
    <3>1. 1 \in 1 .. Len(toSup) /\ m = toSup[1]
      BY <2>1, <2>2, HeadTailProperties
    <3> QED
      BY <2>2, <3>1 DEF Unread, Elems
  <2>4. m.code \in {"stop", "poll"} => state[m.id] \in 0 .. 2
    <3>1. CASE m.code = "stop"
      <4>1. m.id \in Task /\ m = StopMsg(m.id)
        BY <2>3, <3>1 DEF Requests, TaskRequests, WaitRequests, StopMsg, Request
      <4> QED
        BY <2>3, <4>1 DEF RequestInv
    <3>2. CASE m.code = "poll"
      <4>1. PICK t \in Task : m = PollMsg(t) /\ asked = {t} /\ mpc = "poll"
        BY <2>3, <3>2, PollUnread
      <4>2. m.id = t /\ mstate[t] = "started"
        BY <4>1 DEF PollMsg, Request, RequestInv
      <4> QED
        BY <4>2 DEF AgreeInv
    <3> QED
      BY <3>1, <3>2
  <2>5. m.code = "wait" => \A t \in m.ids : state[t] \in 0 .. 2
    <3>1. CASE m = EndMsg
      BY <3>1 DEF EndMsg, WaitMsg, Request
    <3>2. CASE m.code = "wait" /\ m # EndMsg
      <4>1. WaitUnread /\ m.ids = asked
        BY <2>3, <3>2 DEF WaitUnread, RequestInv
      <4>2. \A t \in asked : mstate[t] = "started" /\ t \in Task
        BY <4>1 DEF RequestInv, TypeOK, MainTypes
      <4> QED
        BY <4>1, <4>2 DEF AgreeInv
    <3> QED
      BY <3>1, <3>2
  <2>6. m.code = "got" =>
          state[m.id] = 2 /\ gpc[assignment[m.id]] \in {"release", "idle"}
    <3> SUFFICES ASSUME m.code = "got"
                 PROVE  state[m.id] = 2 /\ gpc[assignment[m.id]] \in {"release", "idle"}
      OBVIOUS
    <3>1. m.id \in Task /\ m = GotMsg(m.id)
      BY <2>3 DEF Requests, TaskRequests, WaitRequests, GotMsg, Request
    <3>2. mstate[m.id] = "completed" /\ state[m.id] = 2
      BY <2>3, <3>1 DEF RequestInv
    <3> QED
      BY <3>1, <3>2 DEF LinkInv
  <2> QED
    BY <2>1, <2>4, <2>5, <2>6
<1>2. IInv => NoStrayRequest
  BY <1>1 DEF NoStrayRequest
<1> QED
  BY <1>2, Invariance, PTL

\* When the supervisor has ended all tasks are completed or stopped, the main
\* process is not waiting for anything, and nothing it wrote is unread.
THEOREM EndCorrect == Spec => []NeverAbandoned
<1>1. ASSUME IInv, spc = "done"
      PROVE  /\ toSup = <<>>
             /\ mpc \notin {"wait", "poll", "pollresult"}
             /\ mpc = "ending" => toMain # <<>>
             /\ mpc = "drain" => sent <= results_got
             /\ \A t \in Task : mstate[t] # "started"
  <2> USE <1>1 DEF IInv, Parts, TypeInv
  <2>1. ndemanded = -1 /\ nfinished >= NTasks
    BY DEF DoneInv
  <2>2. \A t \in Task : state[t] \in {-1, 3}
    <3>1. Ready \in SUBSET Task
      BY DEF Ready
    <3>2. /\ Cardinality(Ready) \in Nat /\ Cardinality(Ready) <= NTasks
          /\ Cardinality(Ready) = NTasks => Ready = Task
      BY <3>1, TaskSets
    <3>3. Ready = Task
      BY <2>1, <3>2, ParamAssumption DEF CountInv, Ready
    <3> QED
      BY <3>3 DEF Ready
  <2>3. \A t \in Task : mstate[t] # "started"
    BY <2>2 DEF AgreeInv
  <2>4. Delivering = {}
    BY <2>2 DEF Delivering
  <2>5. asked \subseteq Task /\ results_got \in Nat /\ results_sent \in Nat
        /\ need \in Int
    BY DEF TypeOK, MainTypes, SupervisorTypes
  <2>6. ~WaitUnread
    <3> SUFFICES ASSUME WaitUnread PROVE FALSE
      OBVIOUS
    <3>1. mpc \in {"wait", "ending"} /\ \A t \in asked : mstate[t] = "started"
      BY DEF WaitUnread, RequestInv
    <3>2. asked # {}
      BY <3>1 DEF PhaseInv
    <3> QED
      BY <2>3, <2>5, <3>1, <3>2
  <2>7. mpc \notin {"poll", "pollresult"}
    BY <2>3, <2>5 DEF PhaseInv, RequestInv
  <2>8. mpc \in {"wait", "ending", "drain"} => results_sent = results_got
    <3>1. Cardinality(Delivering) = 0
      BY <2>4, FS_EmptySet
    <3> QED
      BY <2>5, <2>6, <3>1 DEF DeliverInv
  <2>9. ~Serving
    <3> SUFFICES ASSUME Serving PROVE FALSE
      OBVIOUS
    <3>1. mpc \in {"wait", "ending"}
      BY DEF Serving
    <3>2. {t \in asked : mstate[t] = "completed"} = asked
      BY <2>3, <2>5, <3>1 DEF DeliverInv
    <3>3. results_got = Cardinality(asked)
      BY <3>1, <3>2 DEF DeliverInv
    <3>4. results_got > 0
      <4>1. asked # {} /\ asked \in SUBSET Task
        BY <2>5, <3>1 DEF PhaseInv
      <4> QED
        BY <2>5, <3>3, <4>1, TaskSets
    <3>5. need >= 0
      BY <3>1, <3>4 DEF DeliverInv
    <3>6. -1 + results_sent = Cardinality(asked)
          \/ -1 + results_sent >= results_got + need
      BY <2>1 DEF DemandInv
    <3> QED
      BY <2>5, <2>8, <3>1, <3>3, <3>5, <3>6
  <2>10. mpc # "wait" /\ (mpc = "ending" => toMain # <<>>)
    BY <2>6, <2>9 DEF Serving, PhaseInv
  <2>11. toSup = <<>>
    <3> SUFFICES ASSUME toSup # <<>> PROVE FALSE
      OBVIOUS
    <3>1. toSup \in Seq(Requests)
      BY DEF TypeOK, ChannelTypes, Requests
    <3>2. PICK m \in Unread : m \in Requests
      <4>1. 1 \in 1 .. Len(toSup)
        BY <3>1, EmptySeq
      <4> QED
        BY <3>1, <4>1 DEF Unread, Elems
    <3>3. CASE m.code = "stop"
      <4>1. m.id \in Task /\ m = StopMsg(m.id)
        BY <3>2, <3>3 DEF Requests, TaskRequests, WaitRequests, StopMsg, Request
      <4> QED
        BY <2>2, <3>2, <4>1 DEF RequestInv
    <3>4. CASE m.code = "got"
      <4>1. m.id \in Task /\ m = GotMsg(m.id)
        BY <3>2, <3>4 DEF Requests, TaskRequests, WaitRequests, GotMsg, Request
      <4> QED
        BY <2>2, <3>2, <4>1 DEF RequestInv
    <3>5. CASE m.code = "poll"
      BY <2>7, <3>2, <3>5, PollUnread
    <3>6. CASE m.code = "wait"
      <4>1. m = EndMsg
        BY <2>6, <3>2, <3>6 DEF WaitUnread
      <4>2. mpc = "ending" /\ toMain = <<>>
        BY <3>2, <4>1 DEF RequestInv, PhaseInv
      <4> QED
        BY <2>10, <4>2
    <3> QED
      BY <3>2, <3>3, <3>4, <3>5, <3>6 DEF Requests, TaskRequests, WaitRequests
  <2>12. mpc = "drain" => sent <= results_got
    BY <2>5, <2>8 DEF PhaseInv
  <2> QED
    BY <2>3, <2>7, <2>10, <2>11, <2>12
<1>2. IInv => NeverAbandoned
  BY <1>1 DEF NeverAbandoned
<1> QED
  BY <1>2, Invariance, PTL

\* What a call that returns was made for and was computed then is completed.
LEMMA PromisesKept ==
  ASSUME IInv, mpc # "idle", mpc' = "idle", [Next]_vars, NEW t \in promised
  PROVE  mstate'[t] = "completed"
<1> USE DEF IInv, Parts, TypeInv
<1>1. t \in Task /\ asked \subseteq Task
  BY DEF TypeOK, MainTypes
<1>2. \/ mstate[t] = "completed"
      \/ t \in Delivering
      \/ state[t] = 2 /\ (WaitUnread \/ PollMsg(t) \in Unread)
  BY DEF DeliverInv
<1>3. mpc \in {"starting", "wait", "ending", "drain", "poll", "pollresult"}
      /\ (Connect \/ WaitReturn \/ PollReply \/ PollResult)
  <2>1. UNCHANGED mpc \/ Connect \/ WaitReturn \/ PollReply \/ PollResult
        \/ mpc' # "idle"
    <3>1. CASE SupervisorSteps \/ (\E m \in 1 .. NTasks : MoreLeaves(m))
               \/ (\E k \in Link : Grandchild(k)) \/ UNCHANGED vars
      <4>1. CASE \E k \in Link : Grandchild(k)
        BY <4>1 DEF Grandchild, BeginTask, Announce, WriteIndex, WriteResult,
           EndTask, mainVars
      <4>2. CASE SupervisorSteps \/ \E m \in 1 .. NTasks : MoreLeaves(m)
        BY <4>2 DEF SupervisorSteps, MoreLeaves, FirstLeaves, Reserve, OpenLink,
           SupervisorEnd, ReadComputed, ReadEnded, StopWaiting, StopAndReopen,
           StopAndClose, ServeWait, EndWait, ServePoll, GotAndRelaunch,
           GotAndClose, mainVars
      <4> QED
        BY <3>1, <4>1, <4>2 DEF vars, mainVars
    <3>2. CASE StartTasks \/ MainCalls \/ MainSteps
      BY <3>2 DEF StartTasks, MainCalls, MainSteps, StopTask, PollTask,
         WaitTasks, WaitReceive, ElsewhereReceive, WaitEnd, ReadResultsSent,
         WaitDrain
    <3> QED
      BY <3>1, <3>2 DEF Next, Finished
  <2> QED
    BY <2>1 DEF Connect, WaitReturn, PollReply, PollResult
<1>4. CASE Connect
  BY <1>4 DEF Connect, PhaseInv
<1>5. CASE WaitReturn
  <2>1. mpc = "drain" /\ UNCHANGED mstate /\ sent <= results_got
    <3>1. sent \in Int /\ results_got \in Nat
      BY DEF TypeOK, MainTypes
    <3> QED
      BY <1>5, <3>1 DEF WaitReturn, ResultsMissing
  <2>2. ~WaitUnread /\ PollMsg(t) \notin Unread
    BY <1>1, <2>1 DEF RequestInv, WaitUnread
  <2>3. Delivering = {}
    <3>1. Delivering \in SUBSET Task
      BY DEF Delivering
    <3>2. Cardinality(Delivering) \in Nat
          /\ (Cardinality(Delivering) = 0 => Delivering = {})
      BY <3>1, TaskSets
    <3>3. results_sent = results_got + Cardinality(Delivering) /\ sent = results_sent
      BY <2>1, <2>2 DEF DeliverInv, PhaseInv
    <3>4. results_got \in Nat
      BY DEF TypeOK, MainTypes
    <3> QED
      BY <2>1, <3>2, <3>3, <3>4
  <2> QED
    BY <1>2, <2>1, <2>2, <2>3
<1>6. CASE PollReply
  <2>1. mpc = "poll" /\ toMain # <<>> /\ Head(toMain) # 2 /\ UNCHANGED mstate
    BY <1>6 DEF PollReply
  <2>2. t \in asked
    BY DEF DeliverInv
  <2>3. asked = {t} /\ PollMsg(t) \notin Unread
        /\ \E s \in 0 .. 2 : toMain = <<s>> /\ (s = 2 <=> t \in Delivering)
    BY <2>1, <2>2 DEF PhaseInv
  <2>4. t \notin Delivering
    BY <2>1, <2>3
  <2>5. ~WaitUnread
    BY <2>1 DEF RequestInv, WaitUnread
  <2> QED
    BY <1>2, <2>1, <2>3, <2>4, <2>5
<1>7. CASE PollResult
  <2>1. PICK u \in asked : Receive(u) /\ mpc = "pollresult"
    BY <1>7 DEF PollResult
  <2>2. t \in asked /\ asked = {u}
    BY <2>1 DEF DeliverInv, PhaseInv
  <2>3. mstate \in [Task -> GlobalStates]
    BY DEF TypeOK, MainTypes, GlobalStates
  <2> QED
    BY <1>1, <2>1, <2>2, <2>3 DEF Receive
<1> QED
  BY <1>3, <1>4, <1>5, <1>6, <1>7

\* "Polling is guaranteed": a result that was there when waitTasks or pollTask was
\* called is there when it returns.
THEOREM PollCorrect == Spec => PollGuarantee
<1>1. IInv /\ [Next]_vars =>
        [mpc # "idle" /\ mpc' = "idle" =>
           \A t \in promised : mstate'[t] = "completed"]_vars
  BY PromisesKept
<1> QED
  BY <1>1, Invariance, PTL DEF Spec, PollGuarantee

-----------------------------------------------------------------------------
(* TaskSupervisor implements TaskLifecycle                                 *)

RInv == IInv /\ WaitInv

\* The supervisor never touches the variables of the main process, a grandchild
\* those of neither.
LEMMA OthersStay ==
  /\ SupervisorSteps \/ (\E m \in 1 .. NTasks : MoreLeaves(m)) => UNCHANGED mainVars
  /\ (\E k \in Link : Grandchild(k)) => UNCHANGED <<mainVars, supVars>>
<1>1. ASSUME NEW k \in Link, Grandchild(k)
      PROVE  UNCHANGED <<mainVars, supVars>>
  BY <1>1 DEF Grandchild, BeginTask, Announce, WriteIndex, WriteResult, EndTask
<1>2. ASSUME SupervisorSteps \/ \E m \in 1 .. NTasks : MoreLeaves(m)
      PROVE  UNCHANGED mainVars
  BY <1>2 DEF SupervisorSteps, MoreLeaves, FirstLeaves, Reserve, OpenLink,
     SupervisorEnd, ReadComputed, ReadEnded, StopWaiting, StopAndReopen,
     StopAndClose, ServeWait, EndWait, ServePoll, GotAndRelaunch, GotAndClose
<1> QED
  BY <1>1, <1>2

\* A call of waitTasks in a state of the program, one at a time.
LEMMA CallsTyped ==
  ASSUME MainCalls
  PROVE  \/ \E t \in Task : StopTask(t) \/ PollTask(t)
         \/ \E S \in SUBSET Task, x \in 0 .. Others, n \in Int :
              /\ 1 - Cardinality(Task) <= n /\ n <= Cardinality(S) + Others
              /\ WaitTasks(S, n, x)
<1> DEFINE Completed == {t \in Task : mstate[t] = "completed"}
<1>1. Cardinality(Task) = NTasks /\ NTasks \in Nat /\ Others \in Nat
  BY ParamAssumption, FS_Interval DEF Task
<1>2. Cardinality(Completed) \in Nat /\ Cardinality(Completed) <= NTasks
  BY TaskSets, Completed \in SUBSET Task
<1>3. ASSUME NEW S \in SUBSET Task, NEW x \in 0 .. Others,
             NEW n \in 1 - Cardinality(Completed) .. Cardinality(S) + x
      PROVE  /\ n \in Int /\ 1 - Cardinality(Task) <= n
             /\ n <= Cardinality(S) + Others
  <2>1. Cardinality(S) \in Nat
    BY TaskSets
  <2> QED
    BY <1>1, <1>2, <1>3, <2>1
<1>4. CASE \E t \in Task : StopTask(t) \/ PollTask(t)
  BY <1>4
<1>5. CASE \E S \in SUBSET Task, x \in 0 .. Others :
             \E n \in 1 - Cardinality(Completed) .. Cardinality(S) + x :
                WaitTasks(S, n, x)
  BY <1>3, <1>5
<1> QED
  BY <1>4, <1>5 DEF MainCalls

\* A waitTasks only ends with the results it needs or for lack of time.
LEMMA WaitNext ==
  ASSUME TypeInv, TypeInv', WaitInv, [Next]_vars
  PROVE  WaitInv'
<1>1. /\ need \in Int /\ elsewhere \in Nat /\ Others \in Nat
      /\ elsewhere' \in Nat
  BY ParamAssumption DEF TypeInv, TypeOK, MainTypes
<1>2. CASE MainCalls
  <2>1. ASSUME NEW S \in SUBSET Task, NEW x \in 0 .. Others, NEW n \in Int,
               WaitTasks(S, n, x)
        PROVE  WaitInv'
    BY <1>1, <2>1 DEF WaitTasks, WaitInv
  <2>2. ASSUME NEW t \in Task, StopTask(t) \/ PollTask(t)
        PROVE  WaitInv'
    BY <1>1, <2>2 DEF StopTask, PollTask, WaitInv, callVars
  <2> QED
    BY <1>2, <2>1, <2>2, CallsTyped
<1>3. CASE StartTasks \/ MainSteps
  <2>1. CASE WaitEnd
    BY <1>1, <2>1 DEF WaitEnd, Enough, WaitInv, callVars
  <2>2. CASE PollReply
    BY <1>1, <2>2 DEF PollReply, Return, WaitInv, callVars
  <2>3. CASE StartTasks \/ Connect \/ WaitReturn \/ PollResult
    BY <1>1, <2>3 DEF StartTasks, Connect, WaitReturn, PollResult, Return,
       WaitInv, callVars
  <2>4. CASE WaitReceive \/ ElsewhereReceive \/ ReadResultsSent \/ WaitDrain
    BY <1>1, <2>4 DEF WaitReceive, ElsewhereReceive, ReadResultsSent, WaitDrain,
       WaitInv
  <2> QED
    BY <1>3, <2>1, <2>2, <2>3, <2>4 DEF MainSteps
<1>4. CASE \/ SupervisorSteps \/ UNCHANGED vars
           \/ \E m \in 1 .. NTasks : MoreLeaves(m)
           \/ \E k \in Link : Grandchild(k)
  <2>1. UNCHANGED <<mpc, need, elsewhere>>
    BY <1>4, OthersStay DEF vars, mainVars, callVars
  <2> QED
    BY <2>1 DEF WaitInv
<1> QED
  BY <1>2, <1>3, <1>4 DEF Next, Finished

\* What the refinement needs to know always holds.
LEMMA RefinementInvariance == Spec => []RInv
<1>1. Init => WaitInv
  BY ParamAssumption DEF Init, WaitInv
<1>2. IInv /\ IInv' /\ WaitInv /\ [Next]_vars => WaitInv'
  BY WaitNext DEF IInv
<1> QED
  BY <1>1, <1>2, Invariance, PTL DEF Spec, RInv

\* What the procedures of the abstract life cycle are called.
LEMMA ProcedureFacts ==
  ASSUME TypeOK
  PROVE  /\ Procedure = "none" <=> mpc \in {"new", "idle"}
         /\ Procedure = "start" <=> mpc = "starting"
         /\ Procedure = "wait" <=> mpc \in {"wait", "ending", "drain"}
         /\ Procedure = "poll" <=> mpc \in {"poll", "pollresult"}
<1>1. mpc \in {"new", "starting", "idle", "wait", "ending", "drain", "poll",
               "pollresult"}
  BY DEF TypeOK, MainTypes
<1> QED
  BY <1>1 DEF Procedure

-----------------------------------------------------------------------------
\* A step of a grandchild, or one of the supervisor that computes, sends and
\* discards nothing, is not seen by the user.
LEMMA Invisible ==
  ASSUME UNCHANGED mainVars, Available' = Available
  PROVE  UNCHANGED Lifecycle!vars
<1>1. Procedure' = Procedure
  BY DEF Procedure, mainVars
<1> QED
  BY <1>1 DEF Lifecycle!vars, mainVars, callVars

\* The abstract life cycle counts as this module does.
LEMMA SameCardinality ==
  ASSUME NEW S
  PROVE  Lifecycle!Cardinality(S) = Cardinality(S)
BY DEF Lifecycle!Cardinality, Cardinality

\* A call waitTasks of the life cycle is one of its steps.
LEMMA WaitCalled ==
  ASSUME NEW S \in SUBSET Task, NEW n \in 1 - Cardinality(Task)
                                          .. Cardinality(S) + Others,
         Lifecycle!Call("wait", S, n)
  PROVE  Lifecycle!Next
<1>1. \E R \in SUBSET Task :
        \E i \in 1 - Cardinality(Task) .. Cardinality(R) + Others :
           Lifecycle!Call("wait", R, i)
  OBVIOUS
<1> QED
  BY <1>1, SameCardinality DEF Lifecycle!Next

\* startTasks and the calls of the user that send a request.
LEMMA CallMapped ==
  ASSUME RInv, RInv', StartTasks \/ MainCalls
  PROVE  Lifecycle!Next
<1> USE DEF RInv, IInv, Parts, TypeInv
<1>1. UNCHANGED <<result, state, Available>>
  BY DEF StartTasks, MainCalls, StopTask, PollTask, WaitTasks, supVars, Available
<1>2. CASE StartTasks
  <2>1. /\ Procedure = "none" /\ Procedure' = "start"
        /\ \A t \in Task : mstate[t] = "created"
        /\ mstate' = [t \in Task |-> "started"]
        /\ UNCHANGED <<asked, promised, need>>
    BY <1>2, ProcedureFacts DEF StartTasks, Procedure, PhaseInv, callVars
  <2> QED
    BY <1>1, <2>1 DEF Lifecycle!Next, Lifecycle!Start
<1>3. ASSUME NEW t \in Task, StopTask(t)
      PROVE  Lifecycle!Stop(t)
  <2>1. Procedure = "none" /\ Procedure' = "none"
    BY <1>3 DEF StopTask, Procedure
  <2> QED
    BY <1>1, <1>3, <2>1 DEF Lifecycle!Stop, StopTask, callVars
<1>4. ASSUME NEW t \in Task, PollTask(t)
      PROVE  Lifecycle!Call("poll", {t}, 0)
  <2>1. Procedure = "none" /\ Procedure' = "poll"
    BY <1>4 DEF PollTask, Procedure
  <2>2. mstate[t] = "started" /\ state[t] \in 0 .. 2
    BY <1>4 DEF PollTask, AgreeInv
  <2>3. promised' = {t} \cap Available
    BY <1>4, <2>2 DEF PollTask, Available
  <2>4. need' = 0
    BY <1>4 DEF PollTask, PhaseInv
  <2> QED
    BY <1>1, <1>4, <2>1, <2>2, <2>3, <2>4 DEF Lifecycle!Call, PollTask
<1>5. ASSUME NEW S \in SUBSET Task, NEW x \in 0 .. Others, NEW n \in Int,
             WaitTasks(S, n, x)
      PROVE  Lifecycle!Call("wait", S, n)
  <2>1. Procedure = "none" /\ Procedure' = "wait"
    BY <1>5 DEF WaitTasks, Procedure
  <2>2. \A t \in S : mstate[t] = "started" /\ state[t] \in 0 .. 2
    BY <1>5 DEF WaitTasks, AgreeInv
  <2>3. promised' = S \cap Available
    BY <1>5, <2>2 DEF WaitTasks, Available
  <2> QED
    BY <1>1, <1>5, <2>1, <2>2, <2>3 DEF Lifecycle!Call, WaitTasks
<1>6. CASE MainCalls
  <2>1. CASE \E t \in Task : StopTask(t) \/ PollTask(t)
    BY <1>3, <1>4, <2>1 DEF Lifecycle!Next
  <2>2. CASE \E S \in SUBSET Task, x \in 0 .. Others, n \in Int :
               /\ 1 - Cardinality(Task) <= n /\ n <= Cardinality(S) + Others
               /\ WaitTasks(S, n, x)
    <3>1. PICK S \in SUBSET Task, x \in 0 .. Others, n \in Int :
               /\ 1 - Cardinality(Task) <= n /\ n <= Cardinality(S) + Others
               /\ WaitTasks(S, n, x)
      BY <2>2
    <3>2. n \in 1 - Cardinality(Task) .. Cardinality(S) + Others
      <4>1. Cardinality(S) \in Nat /\ Cardinality(Task) \in Nat /\ Others \in Nat
        BY TaskSets, ParamAssumption
      <4> QED
        BY <3>1, <4>1
    <3>3. Lifecycle!Call("wait", S, n)
      BY <1>5, <3>1
    <3> QED
      BY <3>2, <3>3, WaitCalled
  <2> QED
    BY <1>6, <2>1, <2>2, CallsTyped
<1> QED
  BY <1>2, <1>6

\* A result that is read arrives for a task that the running call was made for
\* and that is computed, and it is its own.
LEMMA ArrivalMapped ==
  ASSUME IInv, IInv', NEW t \in Task, Receive(t),
         \/ t = Head(sock).task
         \/ mpc = "pollresult" /\ t \in asked
  PROVE  Lifecycle!Arrives(t)
<1> USE DEF IInv, Parts, TypeInv
<1>1. PICK u \in Task : sock[1] = Piece("index", u) /\ u \in Delivering
  BY SocketRead DEF Receive
<1>2. t = u
  <2>1. CASE t = Head(sock).task
    <3>1. Head(sock) = sock[1]
      BY DEF TypeOK, ChannelTypes, Receive
    <3> QED
      BY <1>1, <2>1, <3>1 DEF Piece
  <2>2. CASE mpc = "pollresult" /\ t \in asked
    BY <1>1, <2>2 DEF DeliverInv, PhaseInv
  <2> QED
    BY <2>1, <2>2
<1>3. t \in asked /\ t \in Available /\ mstate[t] = "started"
  BY <1>1, <1>2 DEF Delivering, DeliverInv, Available
<1>4. /\ mstate \in [Task -> GlobalStates] /\ result \in [Task -> Task \cup {0}]
  BY DEF TypeOK, MainTypes, GlobalStates
<1>5. mstate' = [mstate EXCEPT ![t] = "completed"]
      /\ result' = [result EXCEPT ![t] = sock[2].task]
  BY DEF Receive
<1>6. sock[2].task = t
  <2>1. mstate'[t] = "completed"
    BY <1>4, <1>5
  <2>2. result'[t] = t
    BY <2>1 DEF AgreeInv
  <2> QED
    BY <1>4, <1>5, <2>2
<1> QED
  BY <1>3, <1>5, <1>6 DEF Lifecycle!Arrives

\* What the main process does inside a call: a result that is read is delivered
\* or, by pollTask, returned; a call returns with all that it promised.
LEMMA InsideMapped ==
  ASSUME RInv, RInv', [Next]_vars, MainSteps
  PROVE  [Lifecycle!Next]_(Lifecycle!vars)
<1> USE DEF RInv, IInv, Parts, TypeInv
<1>1. UNCHANGED <<state, Available>>
  BY DEF MainSteps, Connect, WaitReceive, ElsewhereReceive, WaitEnd, Available,
     ReadResultsSent, WaitDrain, WaitReturn, PollReply, PollResult, supVars
<1>2. need \in Int /\ need' \in Int /\ elsewhere \in Nat
  BY DEF TypeOK, MainTypes
<1>3. CASE WaitReceive \/ WaitDrain
  <2>1. /\ Procedure = "wait" /\ Procedure' = "wait"
        /\ Receive(Head(sock).task) /\ need' \in {need, need - 1}
        /\ UNCHANGED <<asked, promised>>
    BY <1>3 DEF WaitReceive, WaitDrain, Procedure
  <2>2. PICK t \in Task : t = Head(sock).task
    BY <2>1 DEF Receive
  <2>3. Lifecycle!Arrives(t)
    BY <2>1, <2>2, ArrivalMapped
  <2> QED
    BY <1>1, <2>1, <2>3 DEF Lifecycle!Next, Lifecycle!Deliver
<1>4. CASE ElsewhereReceive
  <2>1. /\ Procedure = "wait" /\ Procedure' = "wait"
        /\ need' = need - 1 /\ ~(need <= 0) /\ elsewhere > 0
        /\ UNCHANGED <<mstate, result, asked, promised>>
    BY <1>4 DEF ElsewhereReceive, Enough, Procedure
  <2>2. need > 0 /\ Others > 0
    BY <1>2, <2>1, ParamAssumption DEF WaitInv
  <2> QED
    BY <1>1, <2>1, <2>2 DEF Lifecycle!Next, Lifecycle!Deliver
<1>5. CASE \/ WaitEnd \/ ReadResultsSent
           \/ PollReply /\ mpc' = "pollresult"
  <2>1. Procedure' = Procedure
    BY <1>5, ProcedureFacts DEF WaitEnd, ReadResultsSent, PollReply, Procedure
  <2>2. UNCHANGED <<mstate, result, asked, promised, need>>
    BY <1>5 DEF WaitEnd, ReadResultsSent, PollReply, Return, callVars
  <2> QED
    BY <1>1, <2>1, <2>2 DEF Lifecycle!vars
<1>6. CASE \/ Connect \/ WaitReturn \/ PollResult
           \/ PollReply /\ mpc' # "pollresult"
  <2>1. mpc \notin {"new", "idle"} /\ mpc' = "idle"
    BY <1>6 DEF Connect, WaitReturn, PollReply, PollResult, Return
  <2>2. Procedure # "none" /\ Procedure' = "none"
    BY <2>1, ProcedureFacts DEF Procedure
  <2>3. asked' = {} /\ promised' = {} /\ need' = 0
    BY <2>1 DEF PhaseInv
  <2>4. \A t \in promised : mstate'[t] = "completed"
    BY <2>1, PromisesKept
  <2>5. Procedure = "wait" => need <= 0 \/ Timeouts
    <3>1. Procedure = "wait" => mpc \in {"wait", "ending", "drain"}
      BY ProcedureFacts
    <3>2. mpc \in {"wait", "ending", "drain"} => mpc = "drain"
      BY <1>6 DEF Connect, WaitReturn, PollReply, PollResult
    <3> QED
      BY <3>1, <3>2 DEF WaitInv
  <2>6. \/ Procedure = "poll" /\ \E t \in Task : Lifecycle!Arrives(t)
        \/ UNCHANGED <<mstate, result>>
    <3>1. CASE PollResult
      <4>1. PICK t \in asked : Receive(t)
        BY <3>1 DEF PollResult
      <4>2. t \in Task /\ mpc = "pollresult"
        BY <3>1, <4>1 DEF PollResult, Receive
      <4>3. Procedure = "poll"
        BY <4>2 DEF Procedure
      <4>4. Lifecycle!Arrives(t)
        BY <4>1, <4>2, ArrivalMapped
      <4> QED
        BY <4>2, <4>3, <4>4
    <3>2. CASE Connect \/ WaitReturn \/ PollReply
      BY <3>2 DEF Connect, WaitReturn, PollReply
    <3> QED
      BY <1>6, <3>1, <3>2
  <2> QED
    BY <1>1, <2>2, <2>3, <2>4, <2>5, <2>6 DEF Lifecycle!Next, Lifecycle!Return
<1> QED
  BY <1>3, <1>4, <1>5, <1>6 DEF MainSteps

\* A computation ends when the supervisor reads that it did; its result is
\* discarded when the supervisor reads that the user stopped the task.
LEMMA SupervisorMapped ==
  ASSUME RInv, RInv', SupervisorSteps \/ \E m \in 1 .. NTasks : MoreLeaves(m)
  PROVE  [Lifecycle!Next]_(Lifecycle!vars)
<1> USE DEF RInv, IInv, Parts, TypeInv
<1>1. UNCHANGED mainVars
  BY OthersStay
<1>2. /\ state \in [Task -> -1 .. 3]
      /\ UNCHANGED <<mstate, result, asked, promised, need>> /\ mpc' = mpc
  BY <1>1 DEF TypeOK, SupervisorTypes, mainVars, callVars
<1>3. Procedure' = Procedure
  BY <1>2 DEF Procedure
<1>4. CASE \E k \in Link : ReadComputed(k)
  <2>1. PICK k \in Link : ReadComputed(k)
    BY <1>4
  <2>2. PICK t \in Task :
          /\ state[t] = 1 /\ state' = [state EXCEPT ![t] = 2]
          /\ mstate[t] \in {"started", "stopped"}
    BY <2>1, LinkComputed
  <2>3. t \notin Available /\ Available' = Available \cup {t}
    BY <1>2, <2>2 DEF Available
  <2>4. Lifecycle!Compute(t)
    BY <1>2, <1>3, <2>2, <2>3 DEF Lifecycle!Compute
  <2> QED
    BY <2>4 DEF Lifecycle!Next
<1>5. ASSUME NEW t \in Task, state[t] \in {1, 2}, mstate[t] = "stopped",
             Available' = Available \ {t}
      PROVE  [Lifecycle!Next]_(Lifecycle!vars)
  <2>1. CASE state[t] = 2
    <3>1. Lifecycle!Discard(t)
      BY <1>2, <1>3, <1>5, <2>1 DEF Lifecycle!Discard, Available
    <3> QED
      BY <3>1 DEF Lifecycle!Next
  <2>2. CASE state[t] = 1
    BY <1>1, <1>5, <2>2, Invisible DEF Available
  <2> QED
    BY <1>5, <2>1, <2>2
<1>6. CASE StopAndReopen
  <2>1. PICK id, h \in Task :
          /\ mstate[id] = "stopped" /\ state[id] \in {1, 2}
          /\ state[h] = 0 /\ h # id
          /\ state' = [state EXCEPT ![id] = -1, ![h] = 1]
    BY <1>6, LinkStopAndReopen
  <2>2. Available' = Available \ {id}
    BY <1>2, <2>1 DEF Available
  <2> QED
    BY <1>5, <2>1, <2>2
<1>7. CASE StopAndClose
  <2>1. PICK id : id = Head(toSup).id
    OBVIOUS
  <2>2. id \in Task /\ mstate[id] = "stopped"
    BY <1>7, <2>1, ReadTask DEF StopAndClose
  <2>3. state[id] \in {1, 2} /\ state' = [state EXCEPT ![id] = -1]
    BY <1>7, <2>1 DEF StopAndClose, CloseLink
  <2>4. Available' = Available \ {id}
    BY <1>2, <2>2, <2>3 DEF Available
  <2> QED
    BY <1>5, <2>2, <2>3, <2>4
<1>8. CASE StopWaiting
  <2>1. PICK id : id = Head(toSup).id
    OBVIOUS
  <2>2. id \in Task /\ state[id] = 0 /\ state' = [state EXCEPT ![id] = -1]
    BY <1>8, <2>1, ReadTask DEF StopWaiting
  <2>3. Available' = Available
    BY <1>2, <2>2 DEF Available
  <2> QED
    BY <1>1, <2>3, Invisible
<1>9. CASE GotAndRelaunch
  <2>1. PICK id : id = Head(toSup).id
    OBVIOUS
  <2>2. id \in Task /\ state[id] = 2
    BY <1>9, <2>1, ReadTask DEF GotAndRelaunch
  <2>3. PICK h \in Task : h = Head(queue) /\ state[h] = 0
    BY <1>9, QueueFacts DEF GotAndRelaunch
  <2>4. state' = [state EXCEPT ![id] = 3, ![h] = 1]
    BY <1>9, <2>1, <2>3 DEF GotAndRelaunch, Launch
  <2>5. Available' = Available
    BY <1>2, <2>2, <2>3, <2>4 DEF Available
  <2> QED
    BY <1>1, <2>5, Invisible
<1>10. CASE GotAndClose
  <2>1. PICK id : id = Head(toSup).id
    OBVIOUS
  <2>2. id \in Task /\ state[id] = 2
    BY <1>10, <2>1, ReadTask DEF GotAndClose
  <2>3. state' = [state EXCEPT ![id] = 3]
    BY <1>10, <2>1 DEF GotAndClose, CloseLink
  <2>4. Available' = Available
    BY <1>2, <2>2, <2>3 DEF Available
  <2> QED
    BY <1>1, <2>4, Invisible
<1>11. CASE OpenLink
  <2>1. nwaiting > 0
    <3>1. nwaiting \in Nat /\ opening \in Nat /\ opening <= nwaiting
      BY DEF TypeOK, SupervisorTypes, QueueLength
    <3> QED
      BY <1>11, <3>1 DEF OpenLink, LinksToOpen
  <2>2. PICK h \in Task : h = Head(queue) /\ state[h] = 0
    BY <2>1, QueueFacts
  <2>3. state' = [state EXCEPT ![h] = 1]
    BY <1>11, <2>2 DEF OpenLink, Launch
  <2>4. Available' = Available
    BY <1>2, <2>2, <2>3 DEF Available
  <2> QED
    BY <1>1, <2>4, Invisible
<1>12. CASE \/ Reserve \/ SupervisorEnd \/ ServeWait \/ EndWait \/ ServePoll
            \/ \E k \in Link : ReadEnded(k)
            \/ \E m \in 0 .. NTasks : FirstLeaves(m)
            \/ \E m \in 1 .. NTasks : MoreLeaves(m)
  <2>1. UNCHANGED state
    BY <1>12 DEF Reserve, SupervisorEnd, ServeWait, EndWait, ServePoll,
       ReadEnded, FirstLeaves, MoreLeaves, supVars
  <2> QED
    BY <1>1, <2>1, Invisible DEF Available
<1> QED
  BY <1>4, <1>6, <1>7, <1>8, <1>9, <1>10, <1>11, <1>12 DEF SupervisorSteps

-----------------------------------------------------------------------------
\* Nothing has been started in either specification.
LEMMA InitMapped ==
  ASSUME Init
  PROVE  Lifecycle!Init
<1>1. Procedure = "none" /\ Available = {}
  BY DEF Init, Procedure, Available
<1> QED
  BY <1>1 DEF Init, Lifecycle!Init

\* Every step of the protocol is one of the life cycle, or none.
LEMMA StepMapped ==
  ASSUME RInv, RInv', [Next]_vars
  PROVE  [Lifecycle!Next]_(Lifecycle!vars)
<1>1. CASE StartTasks \/ MainCalls
  BY <1>1, CallMapped
<1>2. CASE MainSteps
  BY <1>2, InsideMapped
<1>3. CASE SupervisorSteps \/ \E m \in 1 .. NTasks : MoreLeaves(m)
  BY <1>3, SupervisorMapped
<1>4. CASE (\E k \in Link : Grandchild(k)) \/ UNCHANGED vars
  <2>1. UNCHANGED <<mainVars, state>>
    BY <1>4, OthersStay DEF vars, supVars
  <2> QED
    BY <2>1, Invisible DEF Available
<1> QED
  BY <1>1, <1>2, <1>3, <1>4 DEF Next, Finished

\* The protocol of tasks.lib keeps what its user is promised: a task goes from
\* 'created' to 'started' and to 'completed' or 'stopped' at most once, gets its
\* own result and only when it was asked for, and no call returns without the
\* results it owes.
THEOREM LifecycleImplemented == Spec => ImplementsLifecycle
<1>1. Init => Lifecycle!Init
  BY InitMapped
<1>2. RInv /\ RInv' /\ [Next]_vars => [Lifecycle!Next]_(Lifecycle!vars)
  BY StepMapped
<1> QED
  BY <1>1, <1>2, RefinementInvariance, PTL DEF Spec, ImplementsLifecycle, Lifecycle!Spec
=============================================================================
