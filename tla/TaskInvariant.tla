---------------------------- MODULE TaskInvariant ----------------------------
(***************************************************************************)
(* The inductive invariant of TaskSupervisor: what holds of the processes  *)
(* of tasks.lib, of their lists and of the messages between them after     *)
(* every step, whatever the order of the steps.                            *)
(***************************************************************************)
EXTENDS TaskSupervisor

Unread == Elems(toSup)          \* requests on their way to the supervisor

\* A waitTasks whose beginning the supervisor has not read.
WaitUnread == \E m \in Unread : m.code = "wait" /\ m # EndMsg

\* A waitTasks that the supervisor has read the beginning of, and not the end.
Serving == mpc \in {"wait", "ending"} /\ ~WaitUnread /\ toMain = <<>>

\* Tasks whose grandchild waits for the go-ahead, and tasks that have got it
\* and whose result the main process has not read.
Parked(t) == gpc[assignment[t]] = "await" /\ down[assignment[t]] = <<>>
Delivering ==
    {t \in Task : state[t] = 2 /\ mstate[t] = "started" /\ ~Parked(t)}

OnSocket(t) ==
    /\ state[t] = 2 /\ mstate[t] = "started"
    /\ gpc[assignment[t]] \in {"write", "release", "idle"}

-----------------------------------------------------------------------------
\* Where the main process is, and what its supervisor has written to it.
PhaseInv ==
    /\ mpc = "new" => spc = "none" /\ \A t \in Task : mstate[t] = "created"
    /\ mpc = "starting" => spc \in {"reserve", "accept"}
    /\ mpc \in {"new", "starting"} =>
         toSup = <<>> /\ \A t \in Task : state[t] = 0
    /\ mpc \notin {"new", "starting"} => spc \in {"run", "done"}
    /\ mpc # "new" => \A t \in Task : mstate[t] # "created"
    /\ mpc \notin {"wait", "ending", "drain", "poll", "pollresult"} =>
         asked = {} /\ need = 0 /\ results_got = 0 /\ promised = {}
    /\ mpc \in {"wait", "ending", "drain", "poll", "pollresult"} => asked # {}
    /\ mpc \in {"poll", "pollresult"} => need = 0 /\ results_got = 0
    /\ mpc \notin {"starting", "ending", "poll"} => toMain = <<>>
    /\ mpc = "starting" => toMain = IF spc = "accept" THEN <<0>> ELSE <<>>
    /\ mpc = "ending" => toMain = IF EndMsg \in Unread THEN <<>>
                                                       ELSE <<results_sent>>
    /\ mpc = "poll" =>
         \A t \in asked :
            /\ asked = {t}
            /\ \/ PollMsg(t) \in Unread /\ toMain = <<>> /\ t \notin Delivering
               \/ /\ PollMsg(t) \notin Unread
                  /\ \E s \in 0 .. 2 : toMain = <<s>> /\ (s = 2 <=> t \in Delivering)
    /\ mpc = "pollresult" => \E t \in asked : asked = {t} /\ t \in Delivering
    /\ mpc = "drain" => sent = results_sent

\* What the requests under way have been sent for.
RequestInv ==
    /\ \A i, j \in 1 .. Len(toSup) : toSup[i] = toSup[j] => i = j
    /\ \A i \in 1 .. Len(toSup) : toSup[i] = EndMsg => i = Len(toSup)
    /\ \A t \in Task : StopMsg(t) \in Unread =>
         mstate[t] = "stopped" /\ state[t] \in 0 .. 2
    /\ \A t \in Task : GotMsg(t) \in Unread =>
         mstate[t] = "completed" /\ state[t] = 2
    /\ \A t \in Task : PollMsg(t) \in Unread => mpc = "poll" /\ asked = {t}
    /\ EndMsg \in Unread => mpc = "ending"
    /\ \A m, n \in Unread :
         m.code = "wait" /\ m # EndMsg =>
            /\ mpc \in {"wait", "ending"} /\ m.ids = asked /\ m.n >= need
            /\ n.code = "wait" /\ n # EndMsg => m = n
    /\ WaitUnread =>
         /\ results_got = 0 /\ \A t \in asked : mstate[t] = "started"
         /\ mpc = "ending" => EndMsg \in Unread
    /\ mpc \in {"poll", "pollresult"} => \A t \in asked : mstate[t] = "started"
    /\ mpc = "wait" => EndMsg \notin Unread

\* The supervisor's states of the tasks and those of the main process.
AgreeInv ==
    \A t \in Task :
        /\ mstate[t] = "started" => state[t] \in 0 .. 2
        /\ mstate[t] = "stopped" => state[t] = -1 \/ StopMsg(t) \in Unread
        /\ mstate[t] = "completed" =>
             /\ state[t] = 3 \/ GotMsg(t) \in Unread
             /\ result[t] = t
        /\ state[t] = -1 => mstate[t] = "stopped"
        /\ state[t] = 3 => mstate[t] = "completed"

\* A started task and the link it runs on.
Running(t, k) ==
    \/ /\ gpc[k] = "idle" /\ gtask[k] = 0
       /\ down[k] = <<t>> /\ up[k] \in {<<>>, <<Ended>>}
    \/ gpc[k] = "release" /\ down[k] = <<t>> /\ up[k] = <<>>
    \/ /\ gpc[k] = "compute" /\ gtask[k] = t
       /\ down[k] = <<>> /\ up[k] \in {<<>>, <<Ended>>}
    \/ /\ gpc[k] = "await" /\ gtask[k] = t
       /\ down[k] = <<>> /\ up[k] \in {<<t>>, <<Ended, t>>}

\* A computed task and its link.
Holding(t, k) ==
    \/ /\ gpc[k] = "await" /\ gtask[k] = t
       /\ down[k] \in {<<>>, <<Go>>} /\ up[k] = <<>>
    \/ /\ gpc[k] \in {"write", "release"} /\ gtask[k] = t
       /\ down[k] = <<>> /\ up[k] = <<>>
    \/ /\ gpc[k] = "idle" /\ gtask[k] = 0
       /\ down[k] = <<>> /\ up[k] \in {<<>>, <<Ended>>}

Unused(k) == gpc[k] = "none" /\ gtask[k] = 0 /\ down[k] = <<>> /\ up[k] = <<>>

LinkInv ==
    /\ \A t \in Task : state[t] \notin {1, 2} => assignment[t] = 0
    /\ \A t, u \in Task :
         state[t] \in {1, 2} /\ assignment[t] = assignment[u] => t = u
    /\ \A t \in Task : state[t] = 1 =>
         assignment[t] \in Link /\ Running(t, assignment[t])
    /\ \A t \in Task : state[t] = 2 =>
         /\ assignment[t] \in Link /\ Holding(t, assignment[t])
         /\ mstate[t] = "stopped" => Parked(t)
         /\ mstate[t] = "completed" =>
              gpc[assignment[t]] \in {"release", "idle"}
    /\ \A k \in Link : (\A t \in Task : assignment[t] # k) => Unused(k)

\* The socket: pairs of an index and a result, the last result may be missing.
IndexAt(i, t) ==
    /\ sock[i] = Piece("index", t) /\ OnSocket(t)
    /\ i < Len(sock) => sock[i + 1] = Piece("result", t)
    /\ i = Len(sock) => gpc[assignment[t]] = "write"
    /\ \A j \in 1 .. Len(sock) : sock[j] = sock[i] => j = i

ResultAt(i) ==
    /\ sock[i].kind = "result" /\ i > 1
    /\ i < Len(sock) => sock[i + 1].kind = "index"

SocketInv ==
    /\ \A i \in 1 .. Len(sock) : ResultAt(i) \/ \E t \in Task : IndexAt(i, t)
    /\ \A t \in Task : OnSocket(t) => Piece("index", t) \in Elems(sock)
    /\ \A k \in Link : gpc[k] = "write" =>
         sock # <<>> /\ sock[Len(sock)] = Piece("index", gtask[k])

\* The results that the running call will get.
DeliverInv ==
    /\ Delivering \subseteq asked
    /\ WaitUnread => Delivering = {}
    /\ mpc \in {"wait", "ending", "drain"} =>
         /\ ~WaitUnread => results_sent = results_got + Cardinality(Delivering)
         /\ results_got = Cardinality({t \in asked : mstate[t] = "completed"})
         /\ \A t \in asked : mstate[t] \in {"started", "completed"}
    /\ mpc \in {"wait", "ending"} /\ results_got > 0 => need >= 0
    /\ \A t \in promised :
          /\ t \in asked
          /\ \/ mstate[t] = "completed"
             \/ t \in Delivering
             \/ state[t] = 2 /\ (WaitUnread \/ PollMsg(t) \in Unread)

DemandInv ==
    /\ Serving =>
         /\ demanded = {t \in asked : state[t] \in {0, 1}}
         /\ \/ ndemanded + results_sent = Cardinality(asked)
            \/ ndemanded + results_sent >= results_got + need
    /\ ~Serving => demanded = {} /\ ndemanded = -1
    /\ ndemanded <= Cardinality(demanded)

CountInv ==
    /\ nwaiting = Cardinality({t \in Task : state[t] = 0})
    /\ nfinished = Cardinality({t \in Task : state[t] \in {-1, 3}})
    /\ nlinks = Cardinality(Live)
    /\ Elems(queue) = {t \in Task : state[t] = 0}
    /\ \A i, j \in 1 .. Len(queue) : queue[i] = queue[j] => i = j

\* What the abstract life cycle needs to know of a waitTasks besides.
WaitInv ==
    /\ elsewhere <= Others
    /\ mpc \in {"ending", "drain"} => need <= 0 \/ Timeouts

DoneInv ==
    spc = "done" =>
        nwaiting = 0 /\ opening = 0 /\ nfinished >= NTasks /\ ndemanded = -1
=============================================================================
