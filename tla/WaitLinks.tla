----------------------------- MODULE WaitLinks -----------------------------
(***************************************************************************)
(* waitfirst and waitall on a list of ssi links: slStatusSsiL with its     *)
(* select over the descriptors, the s_buff of every link, the arithmetic   *)
(* of the timeouts and the loop of waitall.  Links are numbered as in the  *)
(* list.  The other ends write whole answers and may close.  Time is       *)
(* counted in microseconds, of which a millisecond has Milli and a second  *)
(* Second; a C int holds -IntMax - 1 .. IntMax.                            *)
(***************************************************************************)
EXTENDS SBuff, FiniteSets, FiniteSetsExt

CONSTANTS Links,       \* positions of the list: 1 .. n
          Fd,          \* the descriptor of each link
          Answer,      \* the bytes of one answer
          MaxAnswers,  \* bound: answers of one link
          Calls,       \* subset of {"first", "all"}
          Timeouts,    \* the second argument in milliseconds, Forever without
          Milli, Second, IntMax

ASSUME WaitAssumption ==
  /\ IsFiniteSet(Links) /\ Links # {} /\ Links = 1 .. Cardinality(Links)
  /\ Fd \in [Links -> Nat] /\ \A i, j \in Links : Fd[i] = Fd[j] => i = j
  /\ Answer \in Seq(Digits \union {" ", "\n"})
  /\ Answer # <<>> => Answer[Len(Answer)] \notin Digits   \* a blank behind every number
  /\ {Milli, Second, IntMax, MaxAnswers} \subseteq Nat \ {0}
  /\ Calls \subseteq {"first", "all"} /\ Timeouts \subseteq Nat \union {-1}

Forever == -1

VARIABLES pipe, closed, answers,    \* the other ends
          F,                        \* the s_buff of each link
          clock,                    \* since the second in which the call began
          pc, call,                 \* the call and how far it is
          present,                  \* entries of the list waitall still has
          fdmask, cur,              \* the sockets of slStatusSsiL, the one it reads
          timeout, deadline, startingtime,
          ret,                      \* of jjWAITALL2
          result, todo              \* of the call; digits of the answer to be read

others == <<pipe, closed, answers>>
local  == <<fdmask, cur, timeout, deadline, startingtime, ret>>
vars   == <<others, F, clock, pc, call, present, local, result, todo>>

Int32(x) == ((x + IntMax + 1) % (2 * (IntMax + 1))) - (IntMax + 1)

si_max(a, b) == IF a > b THEN a ELSE b
Seconds(time) == time \div Second

Init ==
  /\ pipe = [i \in Links |-> <<>>] /\ closed = [i \in Links |-> FALSE]
  /\ answers = [i \in Links |-> 0]
  /\ F = [i \in Links |-> s_open]
  /\ clock = 0 /\ pc = "idle" /\ call = [op |-> "none", ms |-> 0, from |-> 0]
  /\ present = {} /\ fdmask = {} /\ cur = 0
  /\ timeout = 0 /\ deadline = 0 /\ startingtime = 0
  /\ ret = 0 /\ result = 0 /\ todo = 0

-----------------------------------------------------------------------------
AnswerArrives(i) ==
  /\ ~closed[i] /\ answers[i] < MaxAnswers
  /\ pipe' = [pipe EXCEPT ![i] = @ \o Answer]
  /\ answers' = [answers EXCEPT ![i] = @ + 1]
  /\ UNCHANGED <<closed, F, clock, pc, call, present, local, result, todo>>

PeerCloses(i) ==
  /\ ~closed[i]
  /\ closed' = [closed EXCEPT ![i] = TRUE]
  /\ UNCHANGED <<pipe, answers, F, clock, pc, call, present, local, result, todo>>

ReadableIn(S) == {i \in S : Readable(pipe[i], closed[i])}
Expired == deadline # Forever /\ clock >= deadline

(* Asleep in select, or in the read(2) of s_getc.                          *)
InSelect == pc = "select" /\ ReadableIn(fdmask) = {} /\ ~Expired
InRead   == pc = "char" /\ ~CanGet(F[cur], pipe[cur], closed[cur])

(* Time passes while the process sleeps in select; what it computes takes  *)
(* none, and time in a read, which no timeout ends, is not counted.        *)
Tick ==
  /\ InSelect /\ deadline # Forever
  /\ clock' = clock + 1
  /\ UNCHANGED <<others, F, pc, call, present, local, result, todo>>

-----------------------------------------------------------------------------
(* jjWAIT1ST1, jjWAIT1ST2, jjWAITALL1, jjWAITALL2 up to slStatusSsiL.      *)
Call(op, ms) ==
  /\ pc = "idle"
  /\ \E phase \in 0 .. Second - 1 :
       /\ clock' = phase
       /\ call' = [op |-> op, ms |-> ms, from |-> phase]
  /\ timeout' = IF ms = Forever THEN Forever ELSE Int32(ms * Milli)
  /\ ret' = -1 /\ present' = Links
  /\ IF op = "all" /\ ms # Forever /\ timeout' < 0
     THEN pc' = "done" /\ result' = -2
     ELSE pc' = "scan" /\ UNCHANGED result
  /\ UNCHANGED <<others, F, fdmask, cur, deadline, startingtime, todo>>

(* Faulty: the timeout is converted to microseconds once more.             *)
StatusReturnsTwice(i) ==
  LET ended(r) == pc' = "done" /\ result' = r /\ UNCHANGED <<present, ret>> IN
  IF call.op = "first" \/ i \in {0, -2}
  THEN ended(i) /\ UNCHANGED timeout
  ELSE IF i = -1 THEN ended(ret) /\ UNCHANGED timeout
  ELSE /\ ret' = 1
       /\ present' = present \ {i}
       /\ timeout' = IF call.ms = Forever THEN Forever ELSE timeout * Milli
       /\ IF present = {i} THEN pc' = "done" /\ result' = 1
          ELSE pc' = "scan" /\ UNCHANGED result

(* What the callers do with the value i of slStatusSsiL.                   *)
StatusReturns(i) ==
  LET ended(r) == pc' = "done" /\ result' = r /\ UNCHANGED <<present, ret>> IN
  IF call.op = "first" \/ i \in {0, -2}
  THEN ended(i) /\ UNCHANGED timeout
  ELSE IF i = -1 THEN ended(ret) /\ UNCHANGED timeout
  ELSE /\ ret' = 1
       /\ present' = present \ {i}
       /\ timeout' = IF call.ms = Forever THEN Forever
                     ELSE si_max(0, timeout - Milli * (Seconds(clock) - Seconds(call.from)))
       /\ IF present = {i} THEN pc' = "done" /\ result' = 1
          ELSE pc' = "scan" /\ UNCHANGED result

(* The entry of slStatusSsiL: from the end of the list, a link with a      *)
(* byte waiting in its buffer is returned, the others go into fdmask.      *)
Scan ==
  /\ pc = "scan"
  /\ startingtime' = Seconds(clock)
  /\ deadline' = IF timeout = Forever THEN Forever ELSE clock + timeout
  /\ fdmask' = present
  /\ LET ready == {i \in present : s_isready(F[i])} IN
     IF ready # {} THEN StatusReturns(Max(ready))
     ELSE pc' = "select" /\ UNCHANGED <<present, timeout, ret, result>>
  /\ UNCHANGED <<others, F, clock, call, cur, todo>>

(* Faulty: the link with the lowest descriptor, readable or not.           *)
SelectReadyAny ==
  /\ pc = "select" /\ (timeout >= 0 \/ timeout = Forever)
  /\ ReadableIn(fdmask) # {}
  /\ \E i \in fdmask : (\A j \in fdmask : Fd[i] <= Fd[j]) /\ cur' = i
  /\ pc' = "char"
  /\ UNCHANGED <<others, F, clock, call, present, fdmask, timeout, deadline,
                 startingtime, ret, result, todo>>

SelectReady ==
  /\ pc = "select" /\ (timeout >= 0 \/ timeout = Forever)
  /\ \E i \in ReadableIn(fdmask) :
       /\ \A j \in ReadableIn(fdmask) : Fd[i] <= Fd[j]
       /\ cur' = i
  /\ pc' = "char"
  /\ UNCHANGED <<others, F, clock, call, present, fdmask, timeout, deadline,
                 startingtime, ret, result, todo>>

(* Nothing in time, or a negative timeval, which select refuses.           *)
SelectTimeout ==
  /\ pc = "select"
  /\ \/ timeout < 0 /\ timeout # Forever /\ StatusReturns(-2)
     \/ timeout >= 0 /\ Expired /\ ReadableIn(fdmask) = {} /\ StatusReturns(0)
  /\ UNCHANGED <<others, F, clock, call, fdmask, cur, deadline, startingtime, todo>>

(* One s_getc on the link select has reported.                             *)
Char ==
  /\ pc = "char" /\ CanGet(F[cur], pipe[cur], closed[cur])
  /\ pipe' = [pipe EXCEPT ![cur] = PipeAfter(F[cur], @)]
  /\ LET G == s_getc(F[cur], pipe[cur])  c == Got(F[cur], pipe[cur]) IN
     \/ /\ c = "EOF"
        /\ F' = [F EXCEPT ![cur] = G]
        /\ fdmask' = fdmask \ {cur}
        /\ IF fdmask' = {} THEN StatusReturns(-1) /\ UNCHANGED deadline
           ELSE /\ timeout' = IF timeout = Forever THEN Forever ELSE
                    si_max(0, timeout - Second * (Seconds(clock) - startingtime))
                /\ deadline' = IF timeout = Forever THEN Forever ELSE clock + timeout'
                /\ pc' = "select" /\ UNCHANGED <<present, ret, result>>
     \/ /\ c \in Digits
        /\ F' = [F EXCEPT ![cur] = s_ungetc(c, G)]
        /\ StatusReturns(cur) /\ UNCHANGED <<fdmask, deadline>>
     \/ /\ c \in White \ {"EOF"}
        /\ F' = [F EXCEPT ![cur] = G]
        /\ UNCHANGED <<pc, present, fdmask, timeout, deadline, ret, result>>
  /\ UNCHANGED <<closed, answers, clock, call, cur, startingtime, todo>>

-----------------------------------------------------------------------------
(* The caller reads an answer from a link that is ready: ssiRead1 takes    *)
(* the digits and leaves the byte after the last of them in the buffer.    *)
DigitsIn(s) == Cardinality({k \in DOMAIN s : s[k] \in Digits})
Unread(i) == (IF Exhausted(F[i]) THEN <<>>
              ELSE [k \in 1 .. F[i].end - F[i].bp |-> F[i].buff[F[i].bp + k]]) \o pipe[i]
HasAnswer(i) == DigitsIn(Unread(i)) > 0

LocalsGone == /\ fdmask' = {} /\ timeout' = 0 /\ deadline' = 0
              /\ startingtime' = 0 /\ ret' = 0

StartRead(i) ==
  /\ pc = "done" /\ HasAnswer(i)
  /\ IF call.op = "first" THEN i = result ELSE i \notin present
  /\ pc' = "read" /\ cur' = i /\ todo' = DigitsIn(Answer)
  /\ LocalsGone
  /\ UNCHANGED <<others, F, clock, call, present, result>>

ReadByte ==
  /\ pc = "read" /\ CanGet(F[cur], pipe[cur], closed[cur])
  /\ pipe' = [pipe EXCEPT ![cur] = PipeAfter(F[cur], @)]
  /\ LET G == s_getc(F[cur], pipe[cur])  c == Got(F[cur], pipe[cur]) IN
     /\ F' = [F EXCEPT ![cur] = IF todo = 0 THEN s_ungetc(c, G) ELSE G]
     /\ todo' = IF todo > 0 /\ c \in Digits THEN todo - 1 ELSE todo
     /\ pc' = IF todo = 0 THEN "done" ELSE "read"
  /\ UNCHANGED <<closed, answers, clock, call, present, local, result>>

CallerGoesOn ==
  /\ pc = "done" /\ pc' = "idle"
  /\ LocalsGone /\ cur' = 0 /\ present' = {} /\ result' = 0 /\ clock' = 0
  /\ call' = [op |-> "none", ms |-> 0, from |-> 0]
  /\ UNCHANGED <<others, F, todo>>

Waiting == Scan \/ SelectReady \/ SelectTimeout \/ Char

Next ==
  \/ \E i \in Links : AnswerArrives(i) \/ PeerCloses(i) \/ StartRead(i)
  \/ \E op \in Calls, ms \in Timeouts : Call(op, ms)
  \/ Tick \/ Waiting \/ ReadByte \/ CallerGoesOn

Spec == Init /\ [][Next]_vars /\ WF_vars(Waiting) /\ WF_vars(Tick)

-----------------------------------------------------------------------------
TypeOK ==
  /\ pipe \in [Links -> Seq(Byte)] /\ closed \in [Links -> BOOLEAN]
  /\ F \in [Links -> Buffers] /\ answers \in [Links -> 0 .. MaxAnswers]
  /\ pc \in {"idle", "scan", "select", "char", "done", "read"}
  /\ present \subseteq Links /\ fdmask \subseteq Links /\ cur \in Links \union {0}
  /\ timeout \in -IntMax - 1 .. IntMax /\ result \in {-2, -1, 0} \union Links
  /\ ret \in {-1, 0, 1} /\ todo \in 0 .. DigitsIn(Answer)

Ended(i) == closed[i] /\ ~HasAnswer(i)
Returns  == pc \in {"scan", "select", "char"} /\ pc' = "done"
Elapsed  == clock - call.from

(* What a wait returns can be believed.  waitfirst names a link whose read *)
(* will find an answer, and returns 0 only when no link has one: none is   *)
(* left behind in a buffer that select cannot see.  After waitall every    *)
(* link has an answer or has ended, and -1 is returned only when every     *)
(* link is at its end.  An error is reported for a negative timeout only.  *)
AnswersTrue ==
  [][Returns =>
       /\ result' > 0 => \A i \in Links :
            IF call.op = "first" THEN i = result' => HasAnswer(i)'
            ELSE (HasAnswer(i) \/ Ended(i))'
       /\ result' = 0 /\ call.op = "first" => \A i \in Links : ~HasAnswer(i)'
       /\ result' = -1 => \A i \in Links : Ended(i)'
       /\ result' = -2 => call.ms < 0]_vars

(* doc/reference.doc promises of waitfirst and of waitall that a timeout   *)
(* forces the command "to terminate after the specified time".  Not        *)
(* counting time in a read, and to the second: waitall breaks it.          *)
TimeoutKept ==
  [][Returns /\ call.ms # Forever => Elapsed < call.ms * Milli + Second]_vars

(* What the code does keep of that promise.  waitfirst returns within a    *)
(* second of its timeout, and does not give up a second or more before it  *)
(* unless two links have ended meanwhile: the clock that corrects the      *)
(* timeout after an end counts whole seconds, and from the begin of the    *)
(* call each time.  waitall takes its timeout at most once for every link  *)
(* of its list, not once as the documentation says.                        *)
WaitsInTime ==
  [][Returns /\ call.ms # Forever =>
       LET T == call.ms * Milli IN
       /\ call.op = "first" => Elapsed < T + Second
       /\ call.op = "first" /\ result' = 0 /\ (\E i \in Links : Links \ {i} \subseteq fdmask)
            => Elapsed > T - Second
       /\ call.op = "all" => Elapsed <= Cardinality(Links) * T]_vars

(* The white space behind an answer came with a buffer of its own.         *)
CutBehindAnswer(G) == \A p \in 0 .. G.end : G.buff[p] \in {" ", "\n"}

(* A call sleeps in select, not in a read, unless a buffer ended just      *)
(* before the white space behind an answer: the code then reads on and     *)
(* does not look at the timeout.  Links and variables have their types.    *)
SleepsInSelectOnly == TypeOK /\ (InRead => CutBehindAnswer(F[cur]))

(* A call with a timeout returns, and one without it once a link has an    *)
(* answer, unless it sleeps in that read.                                  *)
WaitEnds ==
  /\ (pc = "select" /\ call.ms # Forever) ~> (pc = "done" \/ InRead)
  /\ (pc = "select" /\ \E i \in present : HasAnswer(i))
       ~> (pc \in {"scan", "done"} \/ InRead)
=============================================================================
