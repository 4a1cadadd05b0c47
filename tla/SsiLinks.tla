------------------------------ MODULE SsiLinks ------------------------------
(***************************************************************************)
(* ssi:fork links of one Singular: opening, reading and closing them, the  *)
(* list ssiToBeClosed, the SIGCHLD handler that walks the same list, and   *)
(* the exit routine m2_end.  The interpreter is one thread; sig_chld_hdl   *)
(* interrupts it between any two of its steps and runs to its end.  The    *)
(* n-th open allocates the ssiInfo n and the list node n and forks child n.*)
(***************************************************************************)
EXTENDS Integers, FiniteSets

CONSTANTS Links,       \* link variables
          Top,         \* those that are identifiers of the current package
          MaxOpens,    \* bound: opens
          Crash,       \* when children die unasked: "never", "unheld", "any"
          ForkFails,   \* whether fork can fail
          Term         \* whether SIGTERM can arrive

ASSUME LinksAssumption ==
  /\ Top \subseteq Links /\ MaxOpens \in Nat
  /\ Crash \in {"never", "unheld", "any"} /\ {ForkFails, Term} \subseteq BOOLEAN

Ids  == 1 .. MaxOpens
NULL == 0
none == "none"     \* no link

VARIABLES flag,        \* SI_LINK_OPEN_P of each link
          data,        \* l->data: NULL or an ssiInfo
          infos,       \* the ssiInfos that are allocated
          pids,        \* those whose pid is set
          head, next,  \* ssiToBeClosed
          owner,       \* the link of a node
          nodes,       \* the nodes that are allocated
          opens,
          child,       \* state of each child
          told,        \* children that were sent 99 or a signal
          inactive,    \* ssiToBeClosed_inactive
          pc, lnk, d, hh,     \* of the interpreter
          back,        \* where a close returns to
          deferred,    \* defer_shutdown: inside slClose or slCleanUp
          doShutdown, killed

list  == <<head, next, owner, nodes>>
kids  == <<child, told>>
info  == <<flag, data, infos, pids>>
intr  == <<pc, lnk, d, hh, back, deferred>>
vars  == <<info, list, opens, kids, inactive, intr, doShutdown, killed>>

Init ==
  /\ flag = [l \in Links |-> FALSE] /\ data = [l \in Links |-> NULL]
  /\ infos = {} /\ pids = {} /\ nodes = {} /\ opens = 0
  /\ head = NULL /\ next = [n \in Ids |-> NULL] /\ owner = [n \in Ids |-> none]
  /\ child = [n \in Ids |-> "none"] /\ told = {}
  /\ inactive = TRUE /\ doShutdown = FALSE /\ killed = {}
  /\ pc = "idle" /\ lnk = none /\ d = NULL /\ hh = NULL
  /\ back = "idle" /\ deferred = FALSE

Goto(label) == pc' = label /\ UNCHANGED <<lnk, d, hh, back, deferred>>

-----------------------------------------------------------------------------
(* ssiOpen in fork mode: the node is pushed before the fork.               *)
Open(l) ==
  /\ pc = "idle" /\ ~flag[l] /\ opens < MaxOpens
  /\ LET n == opens + 1 IN
     /\ opens' = n
     /\ flag' = [flag EXCEPT ![l] = TRUE] /\ data' = [data EXCEPT ![l] = n]
     /\ infos' = infos \union {n}
     /\ nodes' = nodes \union {n} /\ owner' = [owner EXCEPT ![n] = l]
     /\ next' = [next EXCEPT ![n] = head]
     /\ d' = n
  /\ pc' = "push" /\ lnk' = l
  /\ UNCHANGED <<pids, head, kids, inactive, hh, back, deferred, doShutdown, killed>>

Push ==
  /\ pc = "push" /\ head' = d /\ Goto("fork")
  /\ UNCHANGED <<info, next, owner, nodes, opens, kids, inactive, doShutdown, killed>>

Fork ==
  /\ pc = "fork"
  /\ child' = [child EXCEPT ![d] = "running"] /\ Goto("pid")
  /\ UNCHANGED <<info, list, opens, told, inactive, doShutdown, killed>>

ForkFailed ==
  /\ pc = "fork" /\ ForkFails
  /\ data' = [data EXCEPT ![lnk] = NULL] /\ infos' = infos \ {d}
  /\ child' = [child EXCEPT ![d] = "failed"] /\ Goto("idle")
  /\ UNCHANGED <<flag, pids, list, opens, told, inactive, doShutdown, killed>>

SetPid ==
  /\ pc = "pid" /\ pids' = pids \union {d} /\ Goto("idle")
  /\ UNCHANGED <<flag, data, infos, list, opens, kids, inactive, doShutdown, killed>>

(* slRead and ssiRead1: an answer, or the end of file, which closes.       *)
Read(l) ==
  /\ pc = "idle" /\ flag[l] /\ data[l] # NULL
  /\ pc' = "reading" /\ lnk' = l /\ d' = data[l]
  /\ UNCHANGED <<info, list, opens, kids, inactive, hh, back, deferred, doShutdown, killed>>

ReadReturns ==
  /\ pc = "reading"
  /\ \/ child[d] = "running" /\ Goto("idle")
     \/ /\ child[d] # "running"
        /\ pc' = "close" /\ back' = "idle" /\ UNCHANGED <<lnk, d, hh, deferred>>
  /\ UNCHANGED <<info, list, opens, kids, inactive, doShutdown, killed>>

-----------------------------------------------------------------------------
(* slClose of a link the program closes.                                   *)
slClose(l) ==
  /\ pc = "idle" /\ flag[l]
  /\ pc' = "close" /\ lnk' = l /\ back' = "idle" /\ deferred' = TRUE
  /\ UNCHANGED <<info, list, opens, kids, inactive, d, hh, doShutdown, killed>>

(* ssiClose: the link is marked closed first; then 99 to the child.        *)
CloseStarts ==
  /\ pc = "close"
  /\ flag' = [flag EXCEPT ![lnk] = FALSE]
  /\ d' = data[lnk]
  /\ told' = IF data[lnk] \in pids THEN told \union {data[lnk]} ELSE told
  /\ pc' = IF data[lnk] = NULL THEN "closed" ELSE "reap"
  /\ UNCHANGED <<data, infos, pids, list, opens, child, inactive, lnk, hh, back,
                 deferred, doShutdown, killed>>

(* waitpid, 100 ms, SIGTERM, 5 s, SIGKILL: the child is waited for unless  *)
(* the handler has done it, and killed when it takes too long.             *)
Reap ==
  /\ pc = "reap"
  /\ child' = IF d \in pids /\ child[d] \in {"running", "zombie"}
              THEN [child EXCEPT ![d] = "reaped"] ELSE child
  /\ Goto("unlink")
  /\ UNCHANGED <<info, list, opens, told, inactive, doShutdown, killed>>

Unlink ==
  /\ pc = "unlink" /\ hh' = head
  /\ pc' = IF head = NULL THEN "free" ELSE "first"
  /\ UNCHANGED <<info, list, opens, kids, inactive, lnk, d, back, deferred, doShutdown, killed>>

(* Faulty: the first node is not looked at.                                *)
UnlinkFirstNever ==
  /\ pc = "first" /\ Goto("walk")
  /\ UNCHANGED <<info, list, opens, kids, inactive, doShutdown, killed>>

UnlinkFirst ==
  /\ pc = "first"
  /\ IF owner[hh] = lnk
     THEN head' = next[hh] /\ nodes' = nodes \ {hh} /\ Goto("free")
     ELSE Goto("walk") /\ UNCHANGED <<head, nodes>>
  /\ UNCHANGED <<info, next, owner, opens, kids, inactive, doShutdown, killed>>

Walk ==
  /\ pc = "walk"
  /\ LET hhh == next[hh] IN
     \/ /\ hhh = NULL
        /\ Goto("free") /\ UNCHANGED <<next, nodes>>
     \/ /\ hhh # NULL /\ owner[hhh] = lnk
        /\ next' = [next EXCEPT ![hh] = next[hhh]] /\ nodes' = nodes \ {hhh}
        /\ Goto("free")
     \/ /\ hhh # NULL /\ owner[hhh] # lnk
        /\ hh' = hhh /\ UNCHANGED <<next, nodes, pc, lnk, d, back, deferred>>
  /\ UNCHANGED <<info, head, owner, opens, kids, inactive, doShutdown, killed>>

Free ==
  /\ pc = "free"
  /\ infos' = infos \ {d}
  /\ Goto("closed")
  /\ UNCHANGED <<flag, data, pids, list, opens, kids, inactive, doShutdown, killed>>

(* The end of ssiClose and of slClose or slCleanUp, where a SIGTERM that   *)
(* was put off is served.                                                  *)
Closed ==
  /\ pc = "closed"
  /\ data' = [data EXCEPT ![lnk] = NULL]
  /\ deferred' = FALSE /\ lnk' = none /\ d' = NULL /\ hh' = NULL
  /\ back' = "idle"
  /\ pc' = IF doShutdown /\ back = "idle" THEN "quit" ELSE back
  /\ UNCHANGED <<flag, infos, pids, list, opens, kids, inactive, doShutdown, killed>>

-----------------------------------------------------------------------------
(* Children, and the handler.                                              *)
ChildExits(n) ==
  /\ child[n] = "running" /\ (n \in told \/ Crash = "any")
  /\ child' = [child EXCEPT ![n] = "zombie"]
  /\ UNCHANGED <<info, list, opens, told, inactive, intr, doShutdown, killed>>

(* The nodes that are met from h along the list.                           *)
Reachable(nx, h) ==
  {m \in Ids : \A S \in SUBSET Ids :
     h \in S \union {NULL} /\ (\A k \in S : nx[k] \in S \union {NULL}) => m \in S}

OnList == Reachable(next, head)

(* The first node whose link has the ssiInfo of the dead child, if any.    *)
NodesOf(n) ==
  LET at == {m \in OnList : data[owner[m]] = n /\ n \in pids}
  IN  {m \in at : at \subseteq Reachable(next, m)}

(* slClose inside the handler: the child is reaped already.                *)
HandlerCloses(m, n) ==
  /\ flag' = [flag EXCEPT ![owner[m]] = FALSE]
  /\ data' = [data EXCEPT ![owner[m]] = NULL]
  /\ infos' = infos \ {n}
  /\ nodes' = nodes \ {m}
  /\ head' = IF head = m THEN next[m] ELSE head
  /\ next' = [k \in Ids |-> IF k \in OnList /\ next[k] = m THEN next[m] ELSE next[k]]
  /\ UNCHANGED <<pids, owner>>

(* Faulty: a link that is being closed is closed once more.                *)
sig_chld_hdlUnflagged(n) ==
  /\ child' = [child EXCEPT ![n] = "reaped"]
  /\ IF inactive /\ NodesOf(n) # {}
     THEN \E m \in NodesOf(n) : HandlerCloses(m, n)
     ELSE UNCHANGED <<info, list>>
  /\ UNCHANGED <<opens, told, inactive, intr, doShutdown, killed>>

sig_chld_hdl(n) ==
  /\ child' = [child EXCEPT ![n] = "reaped"]
  /\ IF inactive /\ \E m \in NodesOf(n) : flag[owner[m]]
     THEN \E m \in NodesOf(n) : HandlerCloses(m, n)
     ELSE UNCHANGED <<info, list>>
  /\ UNCHANGED <<opens, told, inactive, intr, doShutdown, killed>>

Sigchld(n) == child[n] = "zombie" /\ pc # "exited" /\ sig_chld_hdl(n)

(* Where the interpreter holds across its steps what the handler frees: the*)
(* head of the list or a node of it, the ssiInfo of the child it has forked*)
(* or reads from.                                                          *)
Held(n) == \/ pc \in {"push", "first", "walk", "prep"}
           \/ pc \in {"pid", "reading"} /\ n = d

(* A crash elsewhere.                                                      *)
ChildCrashes(n) ==
  /\ Crash = "unheld" /\ child[n] = "running" /\ pc # "exited" /\ ~Held(n)
  /\ sig_chld_hdl(n)

-----------------------------------------------------------------------------
(* SIGTERM, and the end of the program: m2_end.                            *)
QuitCommand ==
  /\ pc = "idle" /\ Goto("quit")
  /\ UNCHANGED <<info, list, opens, kids, inactive, doShutdown, killed>>

sig_term_hdl ==
  /\ Term /\ ~doShutdown /\ pc \notin {"quit", "prep", "kill", "loop", "exited"} /\ back = "idle"
  /\ doShutdown' = TRUE
  /\ IF deferred THEN UNCHANGED intr
     ELSE pc' = "quit" /\ UNCHANGED <<lnk, d, hh, back, deferred>>
  /\ UNCHANGED <<info, list, opens, kids, inactive, killed>>

m2_end ==
  /\ pc = "quit"
  /\ IF inactive THEN pc' = "prep" /\ hh' = head ELSE pc' = "exited" /\ UNCHANGED hh
  /\ UNCHANGED <<info, list, opens, kids, inactive, lnk, d, back, deferred, doShutdown, killed>>

(* The first loop of m2_end walks the list while the handler still closes  *)
(* links.  slPrepClose sends nothing: slInitSsiExtension fills in no       *)
(* PrepClose, its record is zeroed, and slPrepClose tests for that.        *)
slPrepClose ==
  /\ pc = "prep"
  /\ \/ /\ hh # NULL
        /\ hh' = next[hh] /\ UNCHANGED <<inactive, pc, lnk, d, back, deferred>>
     \/ /\ hh = NULL
        /\ inactive' = FALSE /\ Goto("kill")
  /\ UNCHANGED <<info, list, opens, kids, doShutdown, killed>>

(* killhdl of a link identifier: slCleanUp closes it if it is open, and    *)
(* once more if it still has data.                                         *)
KillIdentifier ==
  /\ pc = "kill"
  /\ \/ /\ killed = Top
        /\ Goto("loop") /\ UNCHANGED killed
     \/ \E l \in Top \ killed :
          IF flag[l] \/ data[l] # NULL
          THEN pc' = "close" /\ lnk' = l /\ back' = "kill" /\ deferred' = TRUE
               /\ UNCHANGED <<d, hh, killed>>
          ELSE killed' = killed \union {l} /\ UNCHANGED intr
  /\ UNCHANGED <<info, list, opens, kids, inactive, doShutdown>>

(* while (hh!=NULL) { slClose(hh->l); hh=ssiToBeClosed; }                  *)
CloseRest ==
  /\ pc = "loop"
  /\ IF head = NULL THEN Goto("exited")
     ELSE IF flag[owner[head]]
     THEN pc' = "close" /\ lnk' = owner[head] /\ back' = "loop" /\ deferred' = TRUE
          /\ UNCHANGED <<d, hh>>
     ELSE UNCHANGED intr
  /\ UNCHANGED <<info, list, opens, kids, inactive, doShutdown, killed>>

Exited == pc = "exited" /\ UNCHANGED vars

Closing == \/ CloseStarts \/ Reap \/ Unlink \/ UnlinkFirst \/ Walk \/ Free \/ Closed

Quitting == m2_end \/ slPrepClose \/ KillIdentifier \/ CloseRest

Next ==
  \/ \E l \in Links : Open(l) \/ Read(l) \/ slClose(l)
  \/ Push \/ Fork \/ ForkFailed \/ SetPid \/ ReadReturns
  \/ Closing \/ Quitting \/ QuitCommand \/ sig_term_hdl \/ Exited
  \/ \E n \in Ids : ChildExits(n) \/ Sigchld(n) \/ ChildCrashes(n)

Spec == Init /\ [][Next]_vars /\ WF_vars(Closing) /\ WF_vars(Quitting)

-----------------------------------------------------------------------------
TypeOK ==
  /\ flag \in [Links -> BOOLEAN] /\ data \in [Links -> Ids \union {NULL}]
  /\ infos \subseteq Ids /\ pids \subseteq Ids /\ nodes \subseteq Ids /\ told \subseteq pids
  /\ lnk \in Links \union {none} /\ owner \in [Ids -> Links \union {none}]
  /\ head \in Ids \union {NULL} /\ next \in [Ids -> Ids \union {NULL}]
  /\ child \in [Ids -> {"none", "running", "zombie", "reaped", "failed"}]
  /\ {inactive, deferred, doShutdown} \subseteq BOOLEAN
  /\ pc \in {"idle", "push", "fork", "pid", "reading", "close", "reap", "unlink", "first",
             "walk", "free", "closed", "quit", "prep", "kill", "loop", "exited"}
  /\ back \in {"idle", "kill", "loop"} /\ killed \subseteq Top

(* Whatever the list links to is allocated, and the link of every node has *)
(* data unless its fork failed: the handler, which may come at any moment, *)
(* reads both.                                                             *)
HandlerReadsLive ==
  pc # "exited" =>
    /\ OnList \subseteq nodes
    /\ inactive => \A m \in OnList : child[m] = "failed" \/ data[owner[m]] \in infos

(* What the interpreter holds across its steps is still allocated when it  *)
(* uses it: the ssiInfo it reads from or closes, the node that ssiClose or  *)
(* the first loop of m2_end stands on.                                     *)
InterpreterHoldsLive ==
  /\ pc \in {"reading", "reap", "unlink", "first", "walk", "free"} => d \in infos
  /\ pc \in {"first", "walk"} => hh \in nodes
  /\ pc = "prep" => hh \in nodes \union {NULL}

(* At the prompt the list has exactly the open links, each once, besides   *)
(* the nodes that a failed fork has left.                                  *)
ListIsOpenLinks ==
  pc = "idle" =>
    LET live == {m \in OnList : child[m] # "failed"}
        open == {l \in Links : flag[l] /\ data[l] # NULL}
    IN  {owner[m] : m \in live} = open /\ Cardinality(live) = Cardinality(open)

(* No ssiInfo is freed before its child was waited for.                    *)
ReapedWhenFreed == \A n \in pids \ infos : child[n] = "reaped"

(* The handler, the interpreter and the exit routine never meet freed      *)
(* memory, the list loses no link, and no child is left a zombie.          *)
LinksSafe ==
  /\ TypeOK
  /\ HandlerReadsLive /\ InterpreterHoldsLive
  /\ ListIsOpenLinks /\ ReapedWhenFreed

(* Once it is asked to quit, Singular ends, unless a fork has failed: then *)
(* the last loop of m2_end may meet a node whose link nothing closes.      *)
QuitEnds == (pc = "quit" /\ \A n \in Ids : child[n] # "failed") ~> (pc = "exited")
=============================================================================
