-------------------------- MODULE WaitLinksProofs --------------------------
(***************************************************************************)
(* Proofs about WaitLinks, for every number of links, every answer, every  *)
(* length of the buffer and all timeouts whose product with 1000 is an     *)
(* int.  HeldInv says what lies in the buffers and pipes, AnswersInv what  *)
(* slStatusSsiL may conclude from it, TimeInv how long the wait can have   *)
(* taken.                                                                  *)
(***************************************************************************)
EXTENDS WaitLinks, FiniteSetTheorems, SequenceTheorems, WellFoundedInduction, TLAPS

(* No timeout is so long that its microseconds overflow an int.            *)
NoOverflow == \A ms \in Timeouts : ms * Milli <= IntMax

-----------------------------------------------------------------------------
(* The bytes                                                               *)

Blank == {" ", "\n"}
Real  == Digits \union Blank

(* The bytes of G from position lo to hi, those of a pipe.                 *)
DigitAt(G, lo, hi) == \E p \in lo .. hi : G.buff[p] \in Digits
DigitIn(P) == \E k \in 1 .. Len(P) : P[k] \in Digits
Digit(G, P) == DigitAt(G, G.bp + 1, G.end) \/ DigitIn(P)

(* A digit is never the last byte of what has been sent; (char)-1 is in a  *)
(* buffer only where s_ungetc has put the end of file back.                *)
Held(G, P, eof) ==
  /\ P \in Seq(Real)
  /\ P # <<>> => P[Len(P)] \notin Digits
  /\ G.bp <= G.end
  /\ \A p \in G.bp + 1 .. G.end :
       G.buff[p] \in Real \/ (G.buff[p] = "EOF" /\ p = G.end /\ eof /\ P = <<>>)
  /\ G.bp < G.end /\ G.buff[G.end] \in Digits => P # <<>>

HeldInv == \A i \in Links : Held(F[i], pipe[i], closed[i])

(* While bytes are looked at, there is more, or only white space was met.  *)
BlankSoFar(G, P, eof) == P # <<>> \/ eof \/ \A p \in 0 .. G.bp : G.buff[p] \in Blank
CharInv == pc = "char" => cur \in fdmask /\ BlankSoFar(F[cur], pipe[cur], closed[cur])

-----------------------------------------------------------------------------
(* The call                                                                *)
Inside == pc \in {"scan", "select", "char"}

CallTypes ==
  /\ call \in [op : {"none"} \union Calls, ms : {0} \union Timeouts, from : 0 .. Second - 1]
  /\ clock \in Nat /\ deadline \in Int /\ startingtime \in Int
  /\ call.from <= clock
  /\ pc = "read" => cur \in Links
  /\ Inside => call.op \in Calls /\ call.ms \in Timeouts
  /\ pc \in {"select", "char"} => startingtime <= Seconds(clock)

Types == TypeOK /\ CallTypes

(* What the wait knows of its links.                                       *)
AnswersInv ==
  Inside =>
    /\ present # {} /\ (call.op = "first" => present = Links)
    /\ ret = -1 => present = Links
    /\ ret \in {-1, 1}
    /\ call.ms = Forever => timeout = Forever
    /\ call.ms # Forever => timeout >= 0
    /\ \A i \in Links \ present : HasAnswer(i)
    /\ pc # "scan" =>
         /\ fdmask # {} /\ fdmask \subseteq present
         /\ \A i \in present \ fdmask : Ended(i)
         /\ \A i \in fdmask : (pc = "char" /\ i = cur) \/ ~DigitAt(F[i], F[i].bp + 1, F[i].end - 1)

(* How far the clock may have come.                                        *)
Limit == call.ms * Milli
Lasting == {i \in present : ~Ended(i)}
Turns == Cardinality(Links) - Cardinality(Lasting)

(* waitfirst: select may sleep up to deadline, which only the end of a link *)
(* moves; the clock that corrects the timeout is less than a second behind.*)
FirstInv ==
  Inside /\ call.ms # Forever /\ call.op = "first" =>
    /\ pc = "scan" => clock = call.from /\ timeout = Limit
    /\ pc # "scan" =>
         /\ startingtime = 0 /\ clock <= deadline /\ deadline - call.from < Limit + Second
         /\ fdmask = Links => deadline = call.from + Limit /\ timeout = Limit
         /\ (\E i \in Links : Links \ {i} \subseteq fdmask) => deadline - call.from > Limit - Second

(* waitall: a turn for every link that has been dropped or has ended, and  *)
(* no time passes in select once a link of fdmask has ended.               *)
AllInv ==
  Inside /\ call.ms # Forever /\ call.op = "all" =>
    /\ pc = "scan" => Elapsed <= Turns * Limit
    /\ pc # "scan" =>
         /\ clock <= deadline /\ deadline - call.from <= (Turns + 1) * Limit
         /\ (\E i \in fdmask : Ended(i)) => Elapsed <= Turns * Limit

TimeInv == /\ Inside /\ call.ms # Forever => timeout <= Limit
           /\ FirstInv /\ AllInv

-----------------------------------------------------------------------------
(* What s_getc and s_ungetc do                                             *)

(* H, Q and b are the buffer and the pipe after s_getc, and what it returns.*)
WellRead(G, P, eof, H, Q, b) ==
  /\ H \in Buffers /\ H.bp >= 0
  /\ Held(H, Q, eof)
  /\ b \in Real \union {"EOF"}
  /\ (b \in Digits \/ Digit(H, Q)) <=> Digit(G, P)
  /\ b = "EOF" => P = <<>> /\ Q = <<>> /\ eof /\ ~Digit(H, Q) /\ H.bp = H.end
  /\ b # "EOF" => H.buff[H.bp] = b
  /\ b \in Digits /\ H.bp = H.end => Q # <<>>
  /\ b \in Blank /\ BlankSoFar(G, P, eof) => BlankSoFar(H, Q, eof)

\* The next byte of the buffer.
LEMMA GetFromBuffer ==
  ASSUME NEW G \in Buffers, NEW P, NEW eof \in BOOLEAN, Held(G, P, eof), ~Exhausted(G)
  PROVE  WellRead(G, P, eof, s_getc(G, P), PipeAfter(G, P), Got(G, P))
<1> DEFINE H == [G EXCEPT !.bp = @ + 1]
           b == G.buff[G.bp + 1]
<1>1. /\ G.bp < G.end /\ BuffLen \in Nat \ {0}
      /\ G.buff \in [0 .. BuffLen - 1 -> Byte] /\ G.bp \in -1 .. BuffLen - 1
      /\ G.end \in 0 .. BuffLen - 1 /\ G.is_eof \in BOOLEAN
  BY BuffLenAssumption DEF Exhausted, Buffers
<1>2. /\ s_getc(G, P) = H /\ PipeAfter(G, P) = P
      /\ H.buff = G.buff /\ H.bp = G.bp + 1 /\ H.end = G.end /\ H.is_eof = G.is_eof
  BY DEF s_getc, PipeAfter, Buffers
<1>3. Got(G, P) = b
  BY <1>2 DEF Got
<1>4. H \in Buffers /\ H.bp >= 0
  BY <1>1, <1>2 DEF Buffers
<1> HIDE DEF H, b
<1>5. b \in Real \/ (b = "EOF" /\ G.bp + 1 = G.end /\ eof /\ P = <<>>)
  <2>1. G.bp + 1 \in G.bp + 1 .. G.end
    BY <1>1
  <2>2. b = G.buff[G.bp + 1]
    BY DEF b
  <2> QED
    BY <2>1, <2>2 DEF Held
<1>6. Held(H, P, eof)
  <2>1. /\ H.bp <= H.end /\ (H.bp < H.end => G.bp < G.end)
        /\ \A p \in H.bp + 1 .. H.end : p \in G.bp + 1 .. G.end
    BY <1>1, <1>2
  <2> QED
    BY <1>2, <2>1 DEF Held
<1>7. b # "EOF" \/ b \notin Real
  BY DEF Real, Digits, Blank
<1>8. (b \in Digits \/ Digit(H, P)) <=> Digit(G, P)
  BY <1>1, <1>2 DEF Digit, DigitAt, b
<1>9. b = "EOF" => ~Digit(H, P)
  BY <1>1, <1>2, <1>5, <1>7 DEF Digit, DigitAt, DigitIn
<1>10. b \in Blank /\ BlankSoFar(G, P, eof) => BlankSoFar(H, P, eof)
  BY <1>1, <1>2 DEF BlankSoFar, b
<1>11. b \in Digits /\ H.bp = H.end => P # <<>>
  BY <1>1, <1>2 DEF Held, b
<1>12. b \in Real \union {"EOF"} /\ H.buff[H.bp] = b
  BY <1>2, <1>5 DEF b
<1>13. b = "EOF" => P = <<>> /\ eof /\ H.bp = H.end
  BY <1>2, <1>5, <1>7
<1> QED
  BY <1>2, <1>3, <1>4, <1>6, <1>8, <1>9, <1>10, <1>11, <1>12, <1>13 DEF WellRead

\* The first byte that read(2) brings.
LEMMA GetFromPipe ==
  ASSUME NEW G \in Buffers, NEW P, NEW eof \in BOOLEAN, Held(G, P, eof), Exhausted(G), P # <<>>
  PROVE  WellRead(G, P, eof, s_getc(G, P), PipeAfter(G, P), Got(G, P))
<1> DEFINE n == Chunk(P)
           H == [G EXCEPT !.buff = [i \in 0 .. BuffLen - 1 |->
                                      IF i < n THEN P[i + 1] ELSE "NUL"],
                          !.end = n - 1, !.bp = 0]
           Q == SubSeq(P, n + 1, Len(P))
           b == P[1]
<1>1. /\ G.bp >= G.end /\ BuffLen \in Nat \ {0} /\ G.bp <= G.end
      /\ G.buff \in [0 .. BuffLen - 1 -> Byte] /\ G.bp \in -1 .. BuffLen - 1
      /\ G.end \in 0 .. BuffLen - 1 /\ G.is_eof \in BOOLEAN
  BY BuffLenAssumption DEF Exhausted, Buffers, Held
<1>2. /\ P \in Seq(Real) /\ Len(P) \in Nat \ {0} /\ \A k \in 1 .. Len(P) : P[k] \in Real
      /\ P[Len(P)] \notin Digits
  BY DEF Held
<1>3. n \in 1 .. BuffLen /\ n <= Len(P) /\ (n < Len(P) => n = BuffLen)
  BY <1>1, <1>2 DEF Chunk
<1>4. /\ s_getc(G, P) = H /\ PipeAfter(G, P) = Q
      /\ H.buff = [i \in 0 .. BuffLen - 1 |-> IF i < n THEN P[i + 1] ELSE "NUL"]
      /\ H.bp = 0 /\ H.end = n - 1 /\ H.is_eof = G.is_eof
  BY DEF s_getc, PipeAfter, Buffers
<1>5. \A i \in 0 .. n - 1 : P[i + 1] \in Real
  <2> TAKE i \in 0 .. n - 1
  <2>1. i + 1 \in 1 .. Len(P)
    BY <1>2, <1>3
  <2> QED
    BY <1>2, <2>1
<1> HIDE DEF n
<1>7. \A i \in 0 .. BuffLen - 1 :
        (IF i < n THEN P[i + 1] ELSE "NUL") \in Byte
  <2> TAKE i \in 0 .. BuffLen - 1
  <2>1. i < n => P[i + 1] \in Real
    BY <1>3, <1>5
  <2>2. Real \subseteq Byte /\ "NUL" \in Byte
    BY DEF Real, Blank, Byte, White
  <2> QED
    BY <2>1, <2>2
<1>8. H \in Buffers
  <2>1. [i \in 0 .. BuffLen - 1 |-> IF i < n THEN P[i + 1] ELSE "NUL"] \in [0 .. BuffLen - 1 -> Byte]
    BY <1>7
  <2>2. n - 1 \in 0 .. BuffLen - 1 /\ 0 \in -1 .. BuffLen - 1
    BY <1>1, <1>3
  <2> QED
    BY <1>1, <2>1, <2>2 DEF Buffers
<1>20. H.bp = 0 /\ H.end = n - 1 /\ s_getc(G, P) = H /\ PipeAfter(G, P) = Q
  BY <1>4
<1> HIDE DEF H
<1>19. /\ \A i \in 0 .. n - 1 : H.buff[i] = P[i + 1]
       /\ H.buff[0] = b
  <2>1. ASSUME NEW i \in 0 .. n - 1
        PROVE  H.buff[i] = P[i + 1]
    BY <1>1, <1>3, <1>4
  <2>2. H.buff[0] = P[0 + 1]
    BY <1>3, <2>1
  <2> QED
    BY <2>1, <2>2
<1>6. Got(G, P) = b
  BY <1>20, <1>19 DEF Got
<1>9. /\ Q \in Seq(Real) /\ Len(Q) = Len(P) - n
      /\ \A k \in 1 .. Len(P) - n : Q[k] = P[n + k]
  BY <1>2, <1>3
<1> HIDE DEF Q, b
<1>10. Q # <<>> => n < Len(P) /\ Q[Len(Q)] = P[Len(P)]
  BY <1>2, <1>3, <1>9
<1>11. n < Len(P) => Q # <<>>
  BY <1>2, <1>3, <1>9
<1>12. \A i \in 0 .. n - 1 : H.buff[i] \in Digits /\ i = n - 1 => Q # <<>>
  BY <1>2, <1>3, <1>19, <1>11
<1>13. Held(H, Q, eof)
  <2>1. \A p \in H.bp + 1 .. H.end : H.buff[p] \in Real
    BY <1>20, <1>5, <1>3, <1>19
  <2>2. H.bp <= H.end /\ (H.bp < H.end /\ H.buff[H.end] \in Digits => Q # <<>>)
    BY <1>3, <1>20, <1>12
  <2> QED
    BY <1>2, <1>9, <1>10, <2>1, <2>2 DEF Held
<1>14. b \in Real /\ b # "EOF"
  <2>1. P[1] \in Real
    BY <1>2
  <2> QED
    BY <2>1 DEF b, Real, Digits, Blank
<1>15. (b \in Digits \/ Digit(H, Q)) <=> Digit(G, P)
  <2>1. ~DigitAt(G, G.bp + 1, G.end)
    BY <1>1 DEF DigitAt
  <2>2. ASSUME NEW k \in 1 .. Len(P), P[k] \in Digits
        PROVE  b \in Digits \/ Digit(H, Q)
    <3>1. CASE k = 1
      BY <2>2, <3>1 DEF b
    <3>2. CASE k \in 2 .. n
      <4>1. k - 1 \in H.bp + 1 .. H.end /\ H.buff[k - 1] = P[k]
        BY <1>3, <1>20, <1>19, <3>2
      <4> QED
        BY <2>2, <4>1 DEF Digit, DigitAt
    <3>3. CASE k > n
      <4>1. k - n \in 1 .. Len(Q) /\ Q[k - n] = P[k]
        BY <1>2, <1>3, <1>9, <3>3
      <4> QED
        BY <2>2, <4>1 DEF Digit, DigitIn
    <3> QED
      BY <1>3, <3>1, <3>2, <3>3
  <2>3. b \in Digits => DigitIn(P)
    BY <1>2 DEF b, DigitIn
  <2>4. ASSUME NEW p \in H.bp + 1 .. H.end, H.buff[p] \in Digits
        PROVE  DigitIn(P)
    <3>1. p + 1 \in 1 .. Len(P) /\ H.buff[p] = P[p + 1]
      BY <1>2, <1>3, <1>20, <1>19, <2>4
    <3> QED
      BY <2>4, <3>1 DEF DigitIn
  <2>5. ASSUME NEW k \in 1 .. Len(Q), Q[k] \in Digits
        PROVE  DigitIn(P)
    <3>1. n + k \in 1 .. Len(P) /\ Q[k] = P[n + k]
      BY <1>2, <1>3, <1>9, <2>5
    <3> QED
      BY <2>5, <3>1 DEF DigitIn
  <2>6. DigitIn(P) => b \in Digits \/ Digit(H, Q)
    BY <2>2 DEF DigitIn
  <2>7. Digit(H, Q) => DigitIn(P)
    BY <2>4, <2>5 DEF Digit, DigitAt, DigitIn
  <2> QED
    BY <2>1, <2>3, <2>6, <2>7 DEF Digit
<1>16. b \in Digits /\ H.bp = H.end => Q # <<>>
  BY <1>3, <1>20, <1>19, <1>12
<1>17. b \in Blank => BlankSoFar(H, Q, eof)
  BY <1>20, <1>19 DEF BlankSoFar
<1>18. H.bp >= 0 /\ H.buff[H.bp] = b
  BY <1>20, <1>19
<1> QED
  BY <1>20, <1>6, <1>8, <1>13, <1>14, <1>15, <1>16, <1>17, <1>18 DEF WellRead

\* The end of the file.
LEMMA GetAtEnd ==
  ASSUME NEW G \in Buffers, NEW P, NEW eof \in BOOLEAN, Held(G, P, eof), Exhausted(G), P = <<>>, eof
  PROVE  WellRead(G, P, eof, s_getc(G, P), PipeAfter(G, P), Got(G, P))
<1> DEFINE H == [G EXCEPT !.buff = Cleared, !.is_eof = TRUE]
<1>1. /\ G.bp = G.end /\ BuffLen \in Nat \ {0}
      /\ G.buff \in [0 .. BuffLen - 1 -> Byte] /\ G.bp \in -1 .. BuffLen - 1
      /\ G.end \in 0 .. BuffLen - 1 /\ G.is_eof \in BOOLEAN
  BY BuffLenAssumption DEF Exhausted, Buffers, Held
<1>2. Chunk(P) = 0 /\ SubSeq(P, 1, Len(P)) = <<>>
  BY <1>1 DEF Chunk
<1>3. /\ s_getc(G, P) = H /\ PipeAfter(G, P) = <<>> /\ Got(G, P) = "EOF"
      /\ H.bp = G.bp /\ H.end = G.end
  BY <1>2 DEF s_getc, PipeAfter, Got, Buffers
<1>4. Cleared \in [0 .. BuffLen - 1 -> Byte]
  BY DEF Cleared, Byte, White
<1>5. H \in Buffers
  BY <1>1, <1>4 DEF Buffers
<1> HIDE DEF H
<1>6. Held(H, <<>>, eof)
  BY <1>1, <1>3 DEF Held
<1>7. ~Digit(H, <<>>) /\ ~Digit(G, <<>>)
  BY <1>1, <1>3 DEF Digit, DigitAt, DigitIn
<1>8. "EOF" \notin Digits /\ "EOF" \notin Blank /\ H.bp >= 0
  BY <1>1, <1>3 DEF Digits, Blank
<1>9. ("EOF" \in Digits \/ Digit(H, <<>>)) <=> Digit(G, P)
  BY <1>7, <1>8 DEF Digit
<1> QED
  BY <1>1, <1>3, <1>5, <1>6, <1>7, <1>8, <1>9 DEF WellRead

\* All a reader needs to know of s_getc.
LEMMA GetWorks ==
  ASSUME NEW G \in Buffers, NEW P, NEW eof \in BOOLEAN, Held(G, P, eof), CanGet(G, P, eof)
  PROVE  WellRead(G, P, eof, s_getc(G, P), PipeAfter(G, P), Got(G, P))
BY GetFromBuffer, GetFromPipe, GetAtEnd DEF CanGet, Readable

\* s_ungetc makes the byte, a digit too, unread.
LEMMA UngetWorks ==
  ASSUME NEW G, NEW P, NEW eof, NEW H, NEW Q, NEW b, WellRead(G, P, eof, H, Q, b)
  PROVE  /\ s_ungetc(b, H) \in Buffers
         /\ Held(s_ungetc(b, H), Q, eof)
         /\ Digit(s_ungetc(b, H), Q) <=> Digit(G, P)
<1> DEFINE U == [H EXCEPT !.buff[H.bp] = b, !.bp = @ - 1]
<1>1. /\ H.bp >= 0 /\ BuffLen \in Nat \ {0}
      /\ H.buff \in [0 .. BuffLen - 1 -> Byte] /\ H.bp \in 0 .. BuffLen - 1
      /\ H.end \in 0 .. BuffLen - 1 /\ H.is_eof \in BOOLEAN /\ H \in Buffers
  BY BuffLenAssumption DEF WellRead, Buffers
<1>2. /\ s_ungetc(b, H) = U
      /\ U.buff = [H.buff EXCEPT ![H.bp] = b] /\ U.bp = H.bp - 1 /\ U.end = H.end
      /\ U.is_eof = H.is_eof
  BY <1>1 DEF s_ungetc, Buffers
<1>3. b \in Real \union {"EOF"} /\ b \in Byte /\ "EOF" \notin Real
  BY DEF WellRead, Real, Blank, Byte, White, Digits
<1>4. U \in Buffers
  <2>1. [H.buff EXCEPT ![H.bp] = b] \in [0 .. BuffLen - 1 -> Byte]
    BY <1>1, <1>3
  <2>2. H.bp - 1 \in -1 .. BuffLen - 1
    BY <1>1
  <2> QED
    BY <1>1, <1>2, <2>1, <2>2 DEF Buffers
<1>5. /\ U.buff[H.bp] = b
      /\ \A p \in 0 .. BuffLen - 1 : p # H.bp => U.buff[p] = H.buff[p]
  BY <1>1, <1>2
<1> HIDE DEF U
<1>6. Held(H, Q, eof)
  BY DEF WellRead
<1>7. \A p \in U.bp + 1 .. U.end : U.buff[p] \in Real \/
        (U.buff[p] = "EOF" /\ p = U.end /\ eof /\ Q = <<>>)
  <2> TAKE p \in U.bp + 1 .. U.end
  <2>1. CASE p = H.bp
    BY <1>1, <1>2, <1>3, <1>5, <2>1 DEF WellRead
  <2>2. CASE p # H.bp
    <3>1. p \in H.bp + 1 .. H.end /\ p \in 0 .. BuffLen - 1
      BY <1>1, <1>2, <2>2
    <3>2. U.buff[p] = H.buff[p] /\ U.end = H.end
      BY <1>2, <1>5, <2>2, <3>1
    <3> QED
      BY <1>6, <3>1, <3>2 DEF Held
  <2> QED
    BY <2>1, <2>2
<1>8. U.bp < U.end /\ U.buff[U.end] \in Digits => Q # <<>>
  <2>1. CASE H.end = H.bp
    BY <1>1, <1>2, <1>3, <1>5, <2>1 DEF WellRead
  <2>2. CASE H.end # H.bp
    BY <1>1, <1>2, <1>5, <1>6, <2>2 DEF Held
  <2> QED
    BY <2>1, <2>2
<1>9. Held(U, Q, eof)
  BY <1>1, <1>2, <1>6, <1>7, <1>8 DEF Held
<1>10. Digit(U, Q) <=> (b \in Digits \/ Digit(H, Q))
  <2>1. H.bp <= H.end
    BY <1>6 DEF Held
  <2>2. ASSUME NEW p \in H.bp + 1 .. H.end
        PROVE  p \in U.bp + 1 .. U.end /\ U.buff[p] = H.buff[p]
    BY <1>1, <1>2, <1>5
  <2>3. ASSUME NEW p \in U.bp + 1 .. U.end
        PROVE  p = H.bp \/ (p \in H.bp + 1 .. H.end /\ U.buff[p] = H.buff[p])
    BY <1>1, <1>2, <1>5
  <2>4. H.bp \in U.bp + 1 .. U.end
    BY <1>1, <1>2, <2>1
  <2>5. DigitAt(U, U.bp + 1, U.end) <=> (b \in Digits \/ DigitAt(H, H.bp + 1, H.end))
    BY <1>5, <2>2, <2>3, <2>4 DEF DigitAt
  <2> QED
    BY <2>5 DEF Digit
<1>11. (b \in Digits \/ Digit(H, Q)) <=> Digit(G, P)
  BY DEF WellRead
<1> QED
  BY <1>2, <1>4, <1>9, <1>10, <1>11

-----------------------------------------------------------------------------
(* Numbers                                                                 *)

\* The units of time and the width of an int.
LEMMA Positive ==
  /\ Milli \in Nat \ {0} /\ Second \in Nat \ {0} /\ IntMax \in Nat \ {0}
  /\ Timeouts \subseteq Nat \union {-1} /\ Calls \subseteq {"first", "all"}
BY WaitAssumption

\* The list is finite and not empty, its positions begin with 1.
LEMMA LinksFinite ==
  /\ IsFiniteSet(Links) /\ Cardinality(Links) \in Nat \ {0}
  /\ Links \subseteq Nat \ {0} /\ 1 \in Links
<1>1. IsFiniteSet(Links) /\ Links # {} /\ Links = 1 .. Cardinality(Links)
  BY WaitAssumption
<1>2. Cardinality(Links) \in Nat
  BY <1>1, FS_CardinalityType
<1>3. Cardinality(Links) # 0
  BY <1>1, <1>2
<1> QED
  BY <1>1, <1>2, <1>3

\* Products and sums of the lengths of waits.
LEMMA Products ==
  /\ \A a, b \in Nat : a * b \in Nat
  /\ \A k, a \in Int : k * a \in Int /\ (k + 1) * a = k * a + a
  /\ \A k, l, a \in Nat : k <= l => k * a <= l * a
OBVIOUS

\* Whole seconds never go back.
LEMMA SecondsGrow == \A a, b \in Nat : a <= b => Seconds(a) \in Nat /\ Seconds(b) - Seconds(a) \in Nat
BY Positive DEF Seconds

\* Whole seconds are less than a second behind.
LEMMA SecondsLag ==
  \A a \in Nat : Second * Seconds(a) \in Nat /\ a - Second * Seconds(a) \in 0 .. Second - 1
<1> TAKE a \in Nat
<1>1. \A x \in Int, m \in Nat \ {0} :
        x = m * (x \div m) + (x % m) /\ x \div m \in Int /\ x % m \in 0 .. m - 1
  BY SMT
<1>3. a \div Second \in Nat
  BY SecondsGrow DEF Seconds
<1>2. a = Second * (a \div Second) + (a % Second) /\ a % Second \in 0 .. Second - 1
  BY <1>1, Positive
<1> QED
  BY <1>2, <1>3, Positive, Products DEF Seconds

\* The first second has number 0.
LEMMA FirstSecond == \A a \in 0 .. Second - 1 : Seconds(a) = 0
BY Positive DEF Seconds

\* An int is an int, and a small number is itself.
LEMMA Int32Range ==
  /\ \A x \in Int : Int32(x) \in -IntMax - 1 .. IntMax
  /\ \A x \in 0 .. IntMax : Int32(x) = x
<1> DEFINE m == 2 * (IntMax + 1)
<1>1. m \in Nat \ {0} /\ IntMax \in Nat
  BY Positive
<1>2. \A x \in Int : x % m \in 0 .. m - 1
  BY <1>1
<1>3. \A x \in 0 .. m - 1 : x % m = x
  BY <1>1
<1>4. \A x \in Int : Int32(x) = ((x + IntMax + 1) % m) - (IntMax + 1)
  BY DEF Int32
<1>5. \A x \in Int : (x + IntMax + 1) % m \in 0 .. m - 1
  BY <1>1, <1>2
<1>6. \A x \in 0 .. IntMax : (x + IntMax + 1) % m = x + IntMax + 1
  BY <1>1, <1>3
<1>7. ASSUME NEW x \in Int
      PROVE  Int32(x) \in -IntMax - 1 .. IntMax
  <2>1. (x + IntMax + 1) % m \in 0 .. m - 1 /\ Int32(x) = ((x + IntMax + 1) % m) - (IntMax + 1)
    BY <1>4, <1>5
  <2> HIDE DEF Int32
  <2> QED
    BY <1>1, <2>1
<1>8. ASSUME NEW x \in 0 .. IntMax
      PROVE  Int32(x) = x
  <2>1. (x + IntMax + 1) % m = x + IntMax + 1
    BY <1>6
  <2>2. Int32(x) = ((x + IntMax + 1) % m) - (IntMax + 1)
    BY <1>1, <1>4
  <2> HIDE DEF m, Int32
  <2> QED
    BY <1>1, <2>1, <2>2
<1> QED
  BY <1>7, <1>8

\* A timeout that is corrected stays in its bounds.
LEMMA Corrected ==
  \A t \in -IntMax - 1 .. IntMax, d \in Nat :
    si_max(0, t - d) \in 0 .. IntMax /\ (t >= 0 => si_max(0, t - d) <= t)
BY Positive DEF si_max

-----------------------------------------------------------------------------
(* Digits                                                                  *)

\* What DigitsIn finds among the unread bytes.
LEMMA CountDigits ==
  ASSUME NEW G \in Buffers, NEW P \in Seq(Byte)
  PROVE  DigitsIn((IF Exhausted(G) THEN <<>>
                   ELSE [k \in 1 .. G.end - G.bp |-> G.buff[G.bp + k]]) \o P) > 0 <=> Digit(G, P)
<1> DEFINE B == IF Exhausted(G) THEN <<>> ELSE [k \in 1 .. G.end - G.bp |-> G.buff[G.bp + k]]
           s == B \o P
           S == {k \in DOMAIN s : s[k] \in Digits}
<1>1. /\ BuffLen \in Nat \ {0}
      /\ G.buff \in [0 .. BuffLen - 1 -> Byte] /\ G.bp \in -1 .. BuffLen - 1
      /\ G.end \in 0 .. BuffLen - 1
  BY BuffLenAssumption DEF Buffers
<1>0. G.bp \in Int /\ G.end \in Int /\ (Exhausted(G) <=> G.bp >= G.end)
  BY <1>1 DEF Exhausted
<1>2. B \in Seq(Byte) /\ \A k \in 1 .. Len(B) : B[k] = G.buff[G.bp + k]
  <2>1. CASE Exhausted(G)
    BY <2>1
  <2>2. CASE ~Exhausted(G)
    <3>0. G.end - G.bp \in Nat
      BY <1>0, <2>2
    <3>1. G.end - G.bp \in Nat /\ \A k \in 1 .. G.end - G.bp : G.bp + k \in 0 .. BuffLen - 1
      BY <1>1, <3>0
    <3>2. \A k \in 1 .. G.end - G.bp : G.buff[G.bp + k] \in Byte
      BY <1>1, <3>1
    <3>3. B = [k \in 1 .. G.end - G.bp |-> G.buff[G.bp + k]]
      BY <2>2
    <3>4. B \in [1 .. G.end - G.bp -> Byte]
      BY <3>2, <3>3
    <3>5. B \in Seq(Byte) /\ Len(B) = G.end - G.bp
      <4>1. B \in Seq(Byte)
        BY <3>1, <3>4, SeqDef
      <4>2. Len(B) \in Nat /\ DOMAIN B = 1 .. Len(B) /\ DOMAIN B = 1 .. G.end - G.bp
        BY <3>4, <4>1, LenProperties
      <4> QED
        BY <3>1, <4>1, <4>2
    <3> QED
      BY <3>3, <3>5
  <2> QED
    BY <2>1, <2>2
<1>3. Len(B) = IF Exhausted(G) THEN 0 ELSE G.end - G.bp
  BY <1>1 DEF Exhausted
<1> HIDE DEF B
<1>4. /\ s \in Seq(Byte) /\ Len(s) = Len(B) + Len(P) /\ DOMAIN s = 1 .. Len(B) + Len(P)
      /\ Len(B) \in Nat /\ Len(P) \in Nat
      /\ \A k \in 1 .. Len(B) + Len(P) : s[k] = IF k <= Len(B) THEN B[k] ELSE P[k - Len(B)]
  BY <1>2
<1> HIDE DEF s
<1>5. IsFiniteSet(S) /\ Cardinality(S) \in Nat
  <2>1. IsFiniteSet(1 .. Len(B) + Len(P))
    BY <1>4, FS_Interval
  <2>2. S \subseteq 1 .. Len(B) + Len(P)
    BY <1>4
  <2> QED
    BY <2>1, <2>2, FS_Subset, FS_CardinalityType
<1>6. Cardinality(S) > 0 <=> S # {}
  <2> HIDE DEF S
  <2> QED
    BY <1>5, FS_EmptySet
<1>7. ASSUME NEW k \in S
      PROVE  Digit(G, P)
  <2>1. CASE k <= Len(B)
    <3>1. k \in 1 .. Len(B) /\ B[k] \in Digits
      BY <1>4, <2>1
    <3>2. G.buff[G.bp + k] \in Digits
      BY <1>2, <3>1
    <3>3. G.bp + k \in G.bp + 1 .. G.end
      <4>1. ~Exhausted(G) /\ Len(B) = G.end - G.bp
        BY <1>3, <3>1
      <4>2. k \in Int /\ 1 <= k /\ k <= G.end - G.bp
        BY <1>0, <3>1, <4>1
      <4> QED
        BY <1>0, <4>2
    <3> QED
      BY <3>2, <3>3 DEF Digit, DigitAt
  <2>2. CASE k > Len(B)
    <3>1. k - Len(B) \in 1 .. Len(P) /\ P[k - Len(B)] \in Digits
      BY <1>4, <2>2
    <3> QED
      BY <3>1 DEF Digit, DigitIn
  <2> QED
    BY <1>4, <2>1, <2>2
<1>8. ASSUME NEW p \in G.bp + 1 .. G.end, G.buff[p] \in Digits
      PROVE  S # {}
  <2>0. G.bp \in Int /\ G.end \in Int /\ p \in Int /\ G.bp + 1 <= p /\ p <= G.end
    BY <1>1
  <2>1. p - G.bp \in 1 .. Len(B) /\ G.bp + (p - G.bp) = p
    <3>1. ~Exhausted(G)
      BY <2>0 DEF Exhausted
    <3>2. Len(B) = G.end - G.bp
      BY <1>3, <3>1
    <3> QED
      BY <2>0, <3>2
  <2>2. B[p - G.bp] \in Digits
    BY <1>2, <1>8, <2>1
  <2>3. p - G.bp \in S
    BY <1>4, <2>1, <2>2
  <2> QED
    BY <2>3
<1>9. ASSUME NEW k \in 1 .. Len(P), P[k] \in Digits
      PROVE  S # {}
  <2>1. Len(B) + k \in 1 .. Len(B) + Len(P) /\ ~(Len(B) + k <= Len(B)) /\ (Len(B) + k) - Len(B) = k
    BY <1>4
  <2>2. Len(B) + k \in S
    BY <1>4, <1>9, <2>1
  <2> QED
    BY <2>2
<1>10. S # {} <=> Digit(G, P)
  BY <1>7, <1>8, <1>9 DEF Digit, DigitAt, DigitIn
<1> QED
  BY <1>6, <1>10 DEF DigitsIn, s, B

\* The digits of an answer can be counted.
LEMMA DigitsCounted == DigitsIn(Answer) \in Nat
<1>1. Answer \in Seq(Digits \union {" ", "\n"})
  BY WaitAssumption
<1>2. DOMAIN Answer = 1 .. Len(Answer) /\ Len(Answer) \in Nat
  BY <1>1, LenProperties
<1>3. IsFiniteSet(1 .. Len(Answer))
  BY <1>2, FS_Interval
<1>4. IsFiniteSet({k \in DOMAIN Answer : Answer[k] \in Digits})
  BY <1>2, <1>3, FS_Subset
<1> QED
  BY <1>4, FS_CardinalityType DEF DigitsIn

\* A link has an answer if one of its unread bytes is a digit.
LEMMA AnswerIsDigit ==
  /\ \A i \in Links : F[i] \in Buffers /\ pipe[i] \in Seq(Byte)
       => (HasAnswer(i) <=> Digit(F[i], pipe[i]))
  /\ \A i \in Links : F'[i] \in Buffers /\ pipe'[i] \in Seq(Byte)
       => (HasAnswer(i)' <=> Digit(F'[i], pipe'[i]))
<1>1. ASSUME NEW i \in Links, F[i] \in Buffers, pipe[i] \in Seq(Byte)
      PROVE  HasAnswer(i) <=> Digit(F[i], pipe[i])
  BY <1>1, CountDigits DEF HasAnswer, Unread
<1>2. ASSUME NEW i \in Links, F'[i] \in Buffers, pipe'[i] \in Seq(Byte)
      PROVE  HasAnswer(i)' <=> Digit(F'[i], pipe'[i])
  BY <1>2, CountDigits DEF HasAnswer, Unread
<1> QED
  BY <1>1, <1>2

-----------------------------------------------------------------------------
(* Types, bytes and the byte looked at                                     *)

BytesOK ==
  /\ pipe \in [Links -> Seq(Byte)] /\ closed \in [Links -> BOOLEAN]
  /\ F \in [Links -> Buffers]

BaseInv == Types /\ HeldInv /\ CharInv

\* One byte is taken from a link, and may be put back.
LEMMA ReadKeeps ==
  ASSUME BytesOK, HeldInv, cur \in Links,
         CanGet(F[cur], pipe[cur], closed[cur]),
         pipe' = [pipe EXCEPT ![cur] = PipeAfter(F[cur], @)], closed' = closed,
         \/ F' = [F EXCEPT ![cur] = s_getc(F[cur], pipe[cur])]
         \/ F' = [F EXCEPT ![cur] = s_ungetc(Got(F[cur], pipe[cur]), s_getc(F[cur], pipe[cur]))]
  PROVE  BytesOK' /\ HeldInv'
<1> DEFINE H == s_getc(F[cur], pipe[cur])
           b == Got(F[cur], pipe[cur])
           Q == PipeAfter(F[cur], pipe[cur])
<1>1. WellRead(F[cur], pipe[cur], closed[cur], H, Q, b)
  <2>1. F[cur] \in Buffers /\ closed[cur] \in BOOLEAN /\ Held(F[cur], pipe[cur], closed[cur])
    BY DEF BytesOK, HeldInv
  <2> QED
    BY <2>1, GetWorks
<1> HIDE DEF H, b, Q
<1>2. /\ H \in Buffers /\ Held(H, Q, closed[cur])
      /\ s_ungetc(b, H) \in Buffers /\ Held(s_ungetc(b, H), Q, closed[cur])
  <2>2. s_ungetc(b, H) \in Buffers /\ Held(s_ungetc(b, H), Q, closed[cur])
    BY <1>1, UngetWorks
  <2> QED
    BY <1>1, <2>2 DEF WellRead
<1>3. Q \in Seq(Byte)
  <2>1. Q \in Seq(Real)
    BY <1>2 DEF Held
  <2>2. Real \subseteq Byte
    BY DEF Real, Blank, Byte, White
  <2> QED
    BY <2>1, <2>2, SeqMonotonic
<1>4. pipe' = [pipe EXCEPT ![cur] = Q] /\ (F' = [F EXCEPT ![cur] = H] \/ F' = [F EXCEPT ![cur] = s_ungetc(b, H)])
  BY DEF Q, H, b
<1>5. BytesOK'
  <2>1. pipe' \in [Links -> Seq(Byte)]
    BY <1>3, <1>4 DEF BytesOK
  <2>2. F' \in [Links -> Buffers]
    BY <1>2, <1>4 DEF BytesOK
  <2> QED
    BY <2>1, <2>2 DEF BytesOK
<1>6. ASSUME NEW i \in Links
      PROVE  Held(F'[i], pipe'[i], closed'[i])
  <2>1. CASE i = cur
    BY <1>2, <1>4, <2>1 DEF BytesOK
  <2>2. CASE i # cur
    <3>1. F'[i] = F[i] /\ pipe'[i] = pipe[i] /\ closed'[i] = closed[i]
      BY <1>4, <2>2 DEF BytesOK
    <3> QED
      BY <3>1 DEF HeldInv
  <2> QED
    BY <2>1, <2>2
<1> QED
  BY <1>5, <1>6 DEF HeldInv

\* What arrives are whole answers, and nothing after an end.
LEMMA BytesKept ==
  ASSUME BaseInv, [Next]_vars
  PROVE  BytesOK' /\ HeldInv'
<1>1. BytesOK /\ HeldInv
  BY DEF BaseInv, Types, TypeOK, BytesOK
<1>2. ASSUME pipe' = pipe, closed' = closed, F' = F
      PROVE  BytesOK' /\ HeldInv'
  BY <1>1, <1>2 DEF BytesOK, HeldInv
<1>3. ASSUME NEW i \in Links, AnswerArrives(i)
      PROVE  BytesOK' /\ HeldInv'
  <2>1. /\ pipe' = [pipe EXCEPT ![i] = @ \o Answer] /\ closed' = closed /\ F' = F /\ ~closed[i]
    BY <1>3 DEF AnswerArrives
  <2>2. Held(F[i], pipe[i], closed[i]) /\ pipe[i] \in Seq(Real) /\ Answer \in Seq(Real)
    BY <1>1, WaitAssumption DEF HeldInv, Held, Real, Blank
  <2>3. pipe[i] \o Answer \in Seq(Real)
    BY <2>2
  <2>4. pipe[i] \o Answer # <<>> => (pipe[i] \o Answer)[Len(pipe[i] \o Answer)] \notin Digits
    <3>1. CASE Answer = <<>>
      <4>1. pipe[i] \o Answer = pipe[i]
        BY <2>2, <3>1
      <4> QED
        BY <2>2, <4>1 DEF Held
    <3>2. CASE Answer # <<>>
      <4>1. (pipe[i] \o Answer)[Len(pipe[i] \o Answer)] = Answer[Len(Answer)]
        BY <2>2, <3>2
      <4> QED
        BY <3>2, <4>1, WaitAssumption
    <3> QED
      BY <3>1, <3>2
  <2>5. pipe[i] # <<>> => pipe[i] \o Answer # <<>>
    BY <2>2
  <2>6. Held(F[i], pipe[i] \o Answer, closed[i])
    BY <2>1, <2>2, <2>3, <2>4, <2>5 DEF Held
  <2>7. Real \subseteq Byte
    BY DEF Real, Blank, Byte, White
  <2>8. pipe[i] \o Answer \in Seq(Byte)
    BY <2>3, <2>7, SeqMonotonic
  <2>9. BytesOK'
    BY <1>1, <2>1, <2>8 DEF BytesOK
  <2>10. pipe'[i] = pipe[i] \o Answer /\ \A k \in Links : k # i => pipe'[k] = pipe[k]
    BY <1>1, <2>1 DEF BytesOK
  <2>11. HeldInv'
    BY <1>1, <2>1, <2>6, <2>10 DEF HeldInv
  <2> QED
    BY <2>9, <2>11
<1>4. ASSUME NEW i \in Links, PeerCloses(i)
      PROVE  BytesOK' /\ HeldInv'
  <2>1. closed' = [closed EXCEPT ![i] = TRUE] /\ pipe' = pipe /\ F' = F /\ ~closed[i]
    BY <1>4 DEF PeerCloses
  <2>2. BytesOK' /\ closed'[i] = TRUE /\ \A k \in Links : k # i => closed'[k] = closed[k]
    BY <1>1, <2>1 DEF BytesOK
  <2>3. Held(F[i], pipe[i], TRUE)
    BY <1>1, <2>1 DEF HeldInv, Held
  <2>4. HeldInv'
    BY <1>1, <2>1, <2>2, <2>3 DEF HeldInv
  <2> QED
    BY <2>2, <2>4
<1>5. ASSUME Char
      PROVE  BytesOK' /\ HeldInv'
  <2>1. cur \in Links
    BY <1>5 DEF BaseInv, CharInv, Types, TypeOK, Char
  <2>2. /\ CanGet(F[cur], pipe[cur], closed[cur]) /\ closed' = closed
        /\ pipe' = [pipe EXCEPT ![cur] = PipeAfter(F[cur], @)]
        /\ \/ F' = [F EXCEPT ![cur] = s_getc(F[cur], pipe[cur])]
           \/ F' = [F EXCEPT ![cur] = s_ungetc(Got(F[cur], pipe[cur]), s_getc(F[cur], pipe[cur]))]
    BY <1>5 DEF Char
  <2> QED
    BY <1>1, <2>1, <2>2, ReadKeeps
<1>6. ASSUME ReadByte
      PROVE  BytesOK' /\ HeldInv'
  <2>1. cur \in Links
    BY <1>6 DEF BaseInv, Types, CallTypes, ReadByte
  <2>2. /\ CanGet(F[cur], pipe[cur], closed[cur]) /\ closed' = closed
        /\ pipe' = [pipe EXCEPT ![cur] = PipeAfter(F[cur], @)]
        /\ \/ F' = [F EXCEPT ![cur] = s_getc(F[cur], pipe[cur])]
           \/ F' = [F EXCEPT ![cur] = s_ungetc(Got(F[cur], pipe[cur]), s_getc(F[cur], pipe[cur]))]
    BY <1>6 DEF ReadByte, others
  <2> QED
    BY <1>1, <2>1, <2>2, ReadKeeps
<1>7. ASSUME \/ \E i \in Links : StartRead(i)
             \/ \E op \in Calls, ms \in Timeouts : Call(op, ms)
             \/ Tick \/ Scan \/ SelectReady \/ SelectTimeout \/ CallerGoesOn \/ UNCHANGED vars
      PROVE  pipe' = pipe /\ closed' = closed /\ F' = F
  BY <1>7 DEF StartRead, Call, Tick, Scan, SelectReady, SelectTimeout, CallerGoesOn, vars, others
<1> QED
  BY <1>2, <1>3, <1>4, <1>5, <1>6, <1>7 DEF Next, Waiting

\* A set of links that is not empty has a last one.
LEMMA ReadyMax ==
  ASSUME NEW S \in SUBSET Links, S # {}
  PROVE  Max(S) \in S
<1>1. PICK n \in Nat \ {0} : Links = 1 .. n
  BY WaitAssumption, LinksFinite
<1> DEFINE U == {u \in Nat : \A x \in S : x <= u}
<1>2. n \in U /\ U \in SUBSET Nat
  BY <1>1
<1>3. PICK m \in U : \A u \in U : m <= u
  <2>1. IsWellFoundedOn(OpToRel(<, Nat), Nat) /\ U \subseteq Nat /\ U # {}
    BY <1>2, NatLessThanWellFounded
  <2>2. PICK m \in U : \A u \in U : ~(<<u, m>> \in OpToRel(<, Nat))
    BY <2>1, WFMin
  <2>3. ASSUME NEW u \in U, u < m
        PROVE  FALSE
    <3>1. <<u, m>> \in Nat \X Nat /\ <<u, m>>[1] < <<u, m>>[2]
      BY <2>3
    <3>2. <<u, m>> \in OpToRel(<, Nat)
      BY <3>1 DEF OpToRel
    <3> QED
      BY <2>2, <3>2
  <2> QED
    BY <2>3
<1>4. m \in Nat /\ \A x \in S : x \in Nat \ {0} /\ x <= m
  BY <1>1, <1>3
<1>5. m \in S
  <2>1. SUFFICES ASSUME m \notin S PROVE FALSE
    OBVIOUS
  <2>2. \A x \in S : x <= m - 1
    BY <1>4, <2>1
  <2>3. m - 1 \in Nat
    BY <1>4
  <2>4. m - 1 \in U
    BY <2>2, <2>3
  <2> QED
    BY <1>3, <1>4, <2>4
<1>6. \E x \in S : \A y \in S : x >= y
  BY <1>4, <1>5
<1> QED
  BY <1>6 DEF Max

\* The value of slStatusSsiL ends the call, or is the link that waitall drops.
LEMMA StatusCases ==
  ASSUME NEW i \in {-2, -1, 0} \union Links, StatusReturns(i)
  PROVE  \/ /\ call.op = "first" \/ i \in {0, -2}
            /\ pc' = "done" /\ result' = i /\ present' = present /\ ret' = ret /\ timeout' = timeout
         \/ /\ call.op # "first" /\ i = -1
            /\ pc' = "done" /\ result' = ret /\ present' = present /\ ret' = ret /\ timeout' = timeout
         \/ /\ call.op # "first" /\ i \in Links /\ i \notin {-2, -1, 0}
            /\ ret' = 1 /\ present' = present \ {i}
            /\ timeout' = IF call.ms = Forever THEN Forever
                          ELSE si_max(0, timeout - Milli * (Seconds(clock) - Seconds(call.from)))
            /\ \/ present = {i} /\ pc' = "done" /\ result' = 1
               \/ present # {i} /\ pc' = "scan" /\ result' = result
<1>1. CASE call.op = "first" \/ i \in {0, -2}
  BY <1>1 DEF StatusReturns
<1>2. CASE call.op # "first" /\ i = -1
  BY <1>2 DEF StatusReturns
<1>3. CASE call.op # "first" /\ i \in Links
  <2>1. i \notin {-2, -1, 0}
    BY <1>3, LinksFinite
  <2> QED
    BY <1>3, <2>1 DEF StatusReturns
<1> QED
  BY <1>1, <1>2, <1>3

\* The microseconds that waitall takes off are not negative.
LEMMA TakenOff ==
  ASSUME Types
  PROVE  Milli * (Seconds(clock) - Seconds(call.from)) \in Nat
<1>1. clock \in Nat /\ call.from \in Nat /\ call.from <= clock
  BY Positive DEF Types, CallTypes
<1>2. Seconds(clock) - Seconds(call.from) \in Nat
  BY <1>1, SecondsGrow
<1> QED
  BY <1>2, Positive, Products

\* Types after the value of slStatusSsiL.
LEMMA StatusTypes ==
  ASSUME Types, NEW i \in {-2, -1, 0} \union Links, StatusReturns(i)
  PROVE  /\ present' \subseteq Links /\ ret' \in {-1, 0, 1} /\ pc' \in {"scan", "done"}
         /\ timeout' \in -IntMax - 1 .. IntMax
         /\ result' \in {-2, -1, 0} \union Links
<1>1. /\ present \subseteq Links /\ ret \in {-1, 0, 1} /\ 1 \in Links
      /\ timeout \in -IntMax - 1 .. IntMax /\ result \in {-2, -1, 0} \union Links
  BY LinksFinite DEF Types, TypeOK
<1>2. Forever \in -IntMax - 1 .. IntMax
  BY Positive DEF Forever
<1>3. si_max(0, timeout - Milli * (Seconds(clock) - Seconds(call.from))) \in -IntMax - 1 .. IntMax
  <2>1. si_max(0, timeout - Milli * (Seconds(clock) - Seconds(call.from))) \in 0 .. IntMax
    BY <1>1, Corrected, TakenOff
  <2> QED
    BY <2>1, Positive
<1> HIDE DEF Types
<1> QED
  BY <1>1, <1>2, <1>3, StatusCases

\* Every step keeps the types.
LEMMA TypesKept ==
  ASSUME BaseInv, [Next]_vars
  PROVE  Types'
<1> DEFINE Rest ==
      /\ answers' \in [Links -> 0 .. MaxAnswers]
      /\ pc' \in {"idle", "scan", "select", "char", "done", "read"}
      /\ present' \subseteq Links /\ fdmask' \subseteq Links /\ cur' \in Links \union {0}
      /\ timeout' \in -IntMax - 1 .. IntMax /\ result' \in {-2, -1, 0} \union Links
      /\ ret' \in {-1, 0, 1} /\ todo' \in 0 .. DigitsIn(Answer)
<1>1. BytesOK'
  BY BytesKept
<1>2. TypeOK /\ CallTypes /\ (pc = "char" => cur \in fdmask /\ cur \in Links)
  BY DEF BaseInv, Types, CharInv, TypeOK
<1>3. /\ 0 \in -IntMax - 1 .. IntMax /\ Forever \in -IntMax - 1 .. IntMax /\ Milli \in Nat
      /\ Second \in Nat \ {0} /\ 0 \in 0 .. Second - 1
      /\ \A ms \in Timeouts : ms \in Int
  BY Positive DEF Forever
<1>4. DigitsIn(Answer) \in Nat
  BY DigitsCounted
<1>5. ASSUME NEW i \in Links, AnswerArrives(i)
      PROVE  Rest /\ CallTypes'
  <2>1. answers' \in [Links -> 0 .. MaxAnswers]
    <3>1. /\ answers' = [answers EXCEPT ![i] = @ + 1] /\ answers[i] < MaxAnswers
          /\ answers \in [Links -> 0 .. MaxAnswers]
      BY <1>2, <1>5 DEF AnswerArrives, TypeOK
    <3>2. MaxAnswers \in Nat
      BY WaitAssumption
    <3> QED
      BY <3>1, <3>2
  <2>2. UNCHANGED <<closed, F, clock, pc, call, present, local, result, todo>>
    BY <1>5 DEF AnswerArrives
  <2> QED
    BY <1>2, <2>1, <2>2 DEF TypeOK, CallTypes, Inside, local
<1>6. ASSUME NEW i \in Links, PeerCloses(i)
      PROVE  Rest /\ CallTypes'
  BY <1>2, <1>6 DEF PeerCloses, TypeOK, CallTypes, Inside, local
<1>7. ASSUME NEW i \in Links, StartRead(i)
      PROVE  Rest /\ CallTypes'
  BY <1>2, <1>3, <1>4, <1>7 DEF StartRead, LocalsGone, TypeOK, CallTypes, Inside, others
<1>8. ASSUME NEW op \in Calls, NEW ms \in Timeouts, Call(op, ms)
      PROVE  Rest /\ CallTypes'
  <2>1. PICK phase \in 0 .. Second - 1 :
          clock' = phase /\ call' = [op |-> op, ms |-> ms, from |-> phase]
    BY <1>8 DEF Call
  <2>2. timeout' \in -IntMax - 1 .. IntMax
    <3>1. ms * Milli \in Int
      BY <1>3
    <3> QED
      BY <1>3, <1>8, <3>1, Int32Range DEF Call
  <2>3. /\ present' = Links /\ ret' = -1 /\ pc' \in {"done", "scan"} /\ result' \in {-2, result}
        /\ UNCHANGED <<answers, fdmask, cur, deadline, startingtime, todo>>
    BY <1>8 DEF Call, others
  <2>4. Rest
    BY <1>2, <2>2, <2>3 DEF TypeOK
  <2>5. CallTypes'
    BY <1>2, <1>3, <2>1, <2>3 DEF CallTypes, Inside
  <2> QED
    BY <2>4, <2>5
<1>9. ASSUME Tick
      PROVE  Rest /\ CallTypes'
  <2>1. /\ clock' = clock + 1 /\ pc = "select"
        /\ UNCHANGED <<answers, pc, call, present, local, result, todo>>
    BY <1>9 DEF Tick, InSelect, others
  <2>2. clock \in Nat /\ startingtime <= Seconds(clock) /\ startingtime \in Int
    BY <1>2, <2>1 DEF CallTypes
  <2>3. startingtime <= Seconds(clock')
    BY <2>1, <2>2, SecondsGrow
  <2>4. call.from \in Int
    BY <1>2, <1>3 DEF CallTypes
  <2> QED
    BY <1>2, <2>1, <2>2, <2>3, <2>4 DEF TypeOK, CallTypes, Inside, local
<1>10. ASSUME Scan
      PROVE  Rest /\ CallTypes'
  <2>1. /\ startingtime' = Seconds(clock) /\ fdmask' = present /\ pc = "scan"
        /\ deadline' = IF timeout = Forever THEN Forever ELSE clock + timeout
        /\ UNCHANGED <<answers, clock, call, cur, todo>>
    BY <1>10 DEF Scan, others
  <2>2. clock \in Nat /\ timeout \in Int /\ deadline' \in Int /\ Seconds(clock) \in Int
    BY <1>2, <1>3, <2>1, SecondsGrow, Positive DEF CallTypes, TypeOK, Forever
  <2>3. \/ \E i \in present : StatusReturns(i)
        \/ pc' = "select" /\ UNCHANGED <<present, timeout, ret, result>>
    <3> DEFINE ready == {i \in present : s_isready(F[i])}
    <3>1. ready # {} => Max(ready) \in ready
      BY <1>2, ReadyMax DEF TypeOK
    <3> QED
      BY <1>10, <3>1 DEF Scan
  <2>4. /\ present' \subseteq Links /\ ret' \in {-1, 0, 1} /\ pc' \in {"scan", "select", "done"}
        /\ timeout' \in -IntMax - 1 .. IntMax
        /\ result' \in {-2, -1, 0} \union Links
    <3>1. CASE \E i \in present : StatusReturns(i)
      BY <1>2, <3>1, StatusTypes DEF Types, TypeOK
    <3>2. CASE pc' = "select" /\ UNCHANGED <<present, timeout, ret, result>>
      BY <1>2, <3>2 DEF TypeOK
    <3> QED
      BY <2>3, <3>1, <3>2
  <2>5. Rest
    BY <1>2, <2>1, <2>4 DEF TypeOK
  <2>6. CallTypes'
    BY <1>2, <2>1, <2>2, <2>4 DEF CallTypes, Inside
  <2> QED
    BY <2>5, <2>6
<1>11. ASSUME SelectReady
      PROVE  Rest /\ CallTypes'
  <2>1. /\ pc = "select" /\ pc' = "char" /\ cur' \in fdmask
        /\ UNCHANGED <<answers, clock, call, present, fdmask, timeout, deadline,
                       startingtime, ret, result, todo>>
    BY <1>11 DEF SelectReady, ReadableIn, others
  <2> QED
    BY <1>2, <2>1 DEF TypeOK, CallTypes, Inside
<1>12. ASSUME SelectTimeout
      PROVE  Rest /\ CallTypes'
  <2>1. /\ UNCHANGED <<answers, clock, call, fdmask, cur, deadline, startingtime, todo>>
        /\ \E i \in {-2, 0} : StatusReturns(i) /\ pc = "select"
    BY <1>12 DEF SelectTimeout, others
  <2>2. /\ present' \subseteq Links /\ ret' \in {-1, 0, 1} /\ pc' \in {"scan", "done"}
        /\ timeout' \in -IntMax - 1 .. IntMax
        /\ result' \in {-2, -1, 0} \union Links
    BY <1>2, <2>1, StatusTypes DEF Types
  <2>3. Rest
    BY <1>2, <2>1, <2>2 DEF TypeOK
  <2>4. CallTypes'
    BY <1>2, <2>1, <2>2 DEF CallTypes, Inside
  <2> QED
    BY <2>3, <2>4
<1>13. ASSUME Char
      PROVE  Rest /\ CallTypes'
  <2>1. /\ pc = "char" /\ cur \in Links
        /\ UNCHANGED <<answers, clock, call, cur, startingtime, todo>>
    BY <1>2, <1>13 DEF Char
  <2>2. \/ StatusReturns(-1) /\ UNCHANGED deadline /\ fdmask' \subseteq fdmask
        \/ StatusReturns(cur) /\ UNCHANGED <<fdmask, deadline>>
        \/ /\ timeout' = (IF timeout = Forever THEN Forever ELSE
                           si_max(0, timeout - Second * (Seconds(clock) - startingtime)))
           /\ deadline' = (IF timeout = Forever THEN Forever ELSE clock + timeout')
           /\ pc' = "select" /\ UNCHANGED <<present, ret, result>> /\ fdmask' \subseteq fdmask
        \/ UNCHANGED <<pc, present, fdmask, timeout, deadline, ret, result>>
    BY <1>13 DEF Char
  <2>3. /\ timeout \in -IntMax - 1 .. IntMax
        /\ si_max(0, timeout - Second * (Seconds(clock) - startingtime)) \in -IntMax - 1 .. IntMax
    <3>1. Seconds(clock) - startingtime \in Nat
      BY <1>2, <2>1, SecondsGrow DEF CallTypes
    <3>2. Second * (Seconds(clock) - startingtime) \in Nat
      BY <1>3, <3>1, Products
    <3>3. timeout \in -IntMax - 1 .. IntMax
      BY <1>2 DEF TypeOK
    <3>4. si_max(0, timeout - Second * (Seconds(clock) - startingtime)) \in 0 .. IntMax
      BY <3>2, <3>3, Corrected
    <3> QED
      BY <3>3, <3>4, Positive
  <2>4. Rest /\ deadline' \in Int /\ pc' \in {"char", "select", "scan", "done"}
    <3>1. CASE StatusReturns(-1) /\ UNCHANGED deadline /\ fdmask' \subseteq fdmask
      <4>1. /\ present' \subseteq Links /\ ret' \in {-1, 0, 1} /\ pc' \in {"scan", "done"}
            /\ timeout' \in -IntMax - 1 .. IntMax
            /\ result' \in {-2, -1, 0} \union Links
        BY <1>2, <3>1, StatusTypes DEF Types
      <4> QED
        BY <1>2, <2>1, <3>1, <4>1 DEF TypeOK, CallTypes
    <3>2. CASE StatusReturns(cur) /\ UNCHANGED <<fdmask, deadline>>
      <4>1. /\ present' \subseteq Links /\ ret' \in {-1, 0, 1} /\ pc' \in {"scan", "done"}
            /\ timeout' \in -IntMax - 1 .. IntMax
            /\ result' \in {-2, -1, 0} \union Links
        BY <1>2, <2>1, <3>2, StatusTypes DEF Types
      <4> QED
        BY <1>2, <2>1, <3>2, <4>1 DEF TypeOK, CallTypes
    <3>3. CASE /\ timeout' = (IF timeout = Forever THEN Forever ELSE
                               si_max(0, timeout - Second * (Seconds(clock) - startingtime)))
               /\ deadline' = (IF timeout = Forever THEN Forever ELSE clock + timeout')
               /\ pc' = "select" /\ UNCHANGED <<present, ret, result>> /\ fdmask' \subseteq fdmask
      <4>1. timeout' \in -IntMax - 1 .. IntMax /\ timeout' \in Int
        BY <1>3, <2>3, <3>3, Positive
      <4>2. deadline' \in Int
        BY <1>2, <3>3, <4>1 DEF CallTypes, Forever
      <4> QED
        BY <1>2, <2>1, <3>3, <4>1, <4>2 DEF TypeOK
    <3>4. CASE UNCHANGED <<pc, present, fdmask, timeout, deadline, ret, result>>
      BY <1>2, <2>1, <3>4 DEF TypeOK, CallTypes
    <3> QED
      BY <2>2, <3>1, <3>2, <3>3, <3>4
  <2>5. CallTypes'
    BY <1>2, <2>1, <2>4 DEF CallTypes, Inside
  <2> QED
    BY <2>4, <2>5
<1>14. ASSUME ReadByte
      PROVE  Rest /\ CallTypes'
  <2>1. /\ pc = "read" /\ pc' \in {"done", "read"} /\ todo' \in {todo, todo - 1}
        /\ (todo = 0 => todo' = todo)
        /\ UNCHANGED <<answers, clock, call, cur, present, local, result>>
    <3>1. todo \in Nat
      BY <1>2, <1>4 DEF TypeOK
    <3>2. /\ todo' = IF todo > 0 /\ Got(F[cur], pipe[cur]) \in Digits THEN todo - 1 ELSE todo
          /\ pc = "read" /\ pc' = IF todo = 0 THEN "done" ELSE "read"
          /\ UNCHANGED <<answers, clock, call, cur, present, local, result>>
      BY <1>14 DEF ReadByte, local
    <3> QED
      BY <3>1, <3>2
  <2>2. todo' \in 0 .. DigitsIn(Answer)
    BY <1>2, <1>4, <2>1 DEF TypeOK
  <2> QED
    BY <1>2, <2>1, <2>2 DEF TypeOK, CallTypes, Inside, local
<1>15. ASSUME CallerGoesOn
      PROVE  Rest /\ CallTypes'
  BY <1>2, <1>3, <1>15 DEF CallerGoesOn, LocalsGone, TypeOK, CallTypes, Inside, others
<1>16. ASSUME UNCHANGED vars
      PROVE  Rest /\ CallTypes'
  BY <1>2, <1>16 DEF vars, local, others, TypeOK, CallTypes, Inside
<1>17. Rest /\ CallTypes'
  BY <1>5, <1>6, <1>7, <1>8, <1>9, <1>10, <1>11, <1>12, <1>13, <1>14, <1>15, <1>16
     DEF Next, Waiting
<1> QED
  BY <1>1, <1>17 DEF BytesOK, Types, TypeOK

\* The byte that is looked at, in the buffer and the pipe of its link.
LEMMA CharReads ==
  ASSUME BaseInv, Char
  PROVE  /\ cur \in fdmask /\ cur \in Links /\ closed[cur] \in BOOLEAN
         /\ F[cur] \in Buffers /\ pipe[cur] \in Seq(Byte)
         /\ WellRead(F[cur], pipe[cur], closed[cur], s_getc(F[cur], pipe[cur]),
                     PipeAfter(F[cur], pipe[cur]), Got(F[cur], pipe[cur]))
<1>1. /\ cur \in fdmask /\ cur \in Links /\ F[cur] \in Buffers /\ closed[cur] \in BOOLEAN
      /\ pipe[cur] \in Seq(Byte)
  BY DEF Char, BaseInv, CharInv, Types, TypeOK
<1>2. Held(F[cur], pipe[cur], closed[cur]) /\ CanGet(F[cur], pipe[cur], closed[cur])
  BY <1>1 DEF Char, BaseInv, HeldInv
<1> QED
  BY <1>1, <1>2, GetWorks

\* select reports a link with bytes or at its end, and as long as the bytes
\* are blanks either there are more or the buffer has held nothing else.
LEMMA CharKept ==
  ASSUME BaseInv, [Next]_vars
  PROVE  CharInv'
<1>1. TypeOK /\ CharInv /\ HeldInv
  BY DEF BaseInv, Types
<1>2. ASSUME UNCHANGED <<pc, cur, fdmask, F>>,
             \A i \in Links : pipe[i] # <<>> => pipe'[i] # <<>>,
             \A i \in Links : closed[i] => closed'[i]
      PROVE  CharInv'
  <2>1. SUFFICES ASSUME pc = "char"
                 PROVE  CharInv'
    BY <1>2 DEF CharInv
  <2>2. cur \in fdmask /\ cur \in Links /\ BlankSoFar(F[cur], pipe[cur], closed[cur])
    BY <1>1, <2>1 DEF CharInv, TypeOK
  <2>3. BlankSoFar(F'[cur], pipe'[cur], closed'[cur])
    BY <1>2, <2>2 DEF BlankSoFar
  <2> QED
    BY <1>2, <2>2, <2>3 DEF CharInv
<1>3. ASSUME NEW i \in Links, AnswerArrives(i)
      PROVE  CharInv'
  <2>1. /\ UNCHANGED <<pc, cur, fdmask, F, closed>> /\ pipe' = [pipe EXCEPT ![i] = @ \o Answer]
        /\ pipe \in [Links -> Seq(Byte)] /\ pipe[i] \in Seq(Real)
    BY <1>1, <1>3 DEF AnswerArrives, local, TypeOK, HeldInv, Held
  <2>2. Answer \in Seq(Real)
    BY WaitAssumption DEF Real, Blank
  <2>3. pipe[i] # <<>> => pipe[i] \o Answer # <<>>
    BY <2>1, <2>2
  <2>4. \A k \in Links : pipe[k] # <<>> => pipe'[k] # <<>>
    BY <2>1, <2>3
  <2> QED
    BY <1>2, <2>1, <2>4
<1>4. ASSUME NEW i \in Links, PeerCloses(i)
      PROVE  CharInv'
  <2>1. /\ UNCHANGED <<pc, cur, fdmask, F, pipe>> /\ closed' = [closed EXCEPT ![i] = TRUE]
        /\ closed \in [Links -> BOOLEAN]
    BY <1>1, <1>4 DEF PeerCloses, local, TypeOK
  <2>2. \A k \in Links : closed[k] => closed'[k]
    BY <2>1
  <2> QED
    BY <1>2, <2>1, <2>2
<1>5. ASSUME SelectReady
      PROVE  CharInv'
  <2>1. PICK i \in ReadableIn(fdmask) : cur' = i
    BY <1>5 DEF SelectReady
  <2>2. i \in fdmask /\ (pipe[i] # <<>> \/ closed[i])
    BY <2>1 DEF ReadableIn, Readable
  <2>3. UNCHANGED <<pipe, closed, F, fdmask>>
    BY <1>5 DEF SelectReady, others
  <2>4. BlankSoFar(F'[i], pipe'[i], closed'[i])
    BY <2>2, <2>3 DEF BlankSoFar
  <2> QED
    BY <2>1, <2>2, <2>3, <2>4 DEF CharInv
<1>6. ASSUME Char, pc' = "char"
      PROVE  CharInv'
  <2> DEFINE H == s_getc(F[cur], pipe[cur])
             b == Got(F[cur], pipe[cur])
             Q == PipeAfter(F[cur], pipe[cur])
  <2>1. /\ cur \in fdmask /\ cur \in Links /\ closed[cur] \in BOOLEAN
        /\ WellRead(F[cur], pipe[cur], closed[cur], H, Q, b)
    BY <1>6, CharReads
  <2>2. /\ b \in White \ {"EOF"} /\ F' = [F EXCEPT ![cur] = H] /\ fdmask' = fdmask
        /\ pipe' = [pipe EXCEPT ![cur] = Q] /\ closed' = closed /\ cur' = cur /\ pc = "char"
    <3>1. ~StatusReturns(-1)
      BY <1>6, StatusCases
    <3>2. ~StatusReturns(cur)
      BY <1>6, <2>1, StatusCases
    <3> QED
      BY <1>6, <3>1, <3>2 DEF Char
  <2>3. BlankSoFar(F[cur], pipe[cur], closed[cur])
    BY <1>1, <2>2 DEF CharInv
  <2> HIDE DEF H, b, Q
  <2>4. b \in Blank
    BY <2>1, <2>2 DEF WellRead, Real, White, Digits, Blank
  <2>5. BlankSoFar(H, Q, closed[cur])
    BY <2>1, <2>3, <2>4 DEF WellRead
  <2>6. F'[cur] = H /\ pipe'[cur] = Q /\ closed'[cur] = closed[cur]
    BY <1>1, <2>1, <2>2 DEF TypeOK
  <2> QED
    BY <2>1, <2>2, <2>5, <2>6 DEF CharInv
<1>7. ASSUME \/ \E i \in Links : StartRead(i)
             \/ \E op \in Calls, ms \in Timeouts : Call(op, ms)
             \/ ReadByte \/ CallerGoesOn
      PROVE  CharInv'
  BY <1>7 DEF StartRead, Call, ReadByte, CallerGoesOn, CharInv
<1>8. ASSUME Tick \/ UNCHANGED vars
      PROVE  CharInv'
  <2>1. UNCHANGED <<pc, cur, fdmask, F, pipe, closed>>
    BY <1>8 DEF Tick, vars, others, local
  <2> QED
    BY <1>2, <2>1
<1>9. ASSUME Scan
      PROVE  CharInv'
  <2>1. pc' # "char"
    <3> DEFINE ready == {i \in present : s_isready(F[i])}
    <3>3. ready \in SUBSET Links
      BY <1>1 DEF TypeOK
    <3>1. ready # {} => Max(ready) \in Links
      BY <3>3, ReadyMax
    <3>2. pc' = "select" \/ \E i \in Links : StatusReturns(i)
      BY <1>9, <3>1 DEF Scan
    <3> QED
      BY <3>2, StatusCases
  <2> QED
    BY <2>1 DEF CharInv
<1>10. ASSUME SelectTimeout
       PROVE  CharInv'
  <2>1. pc' # "char"
    BY <1>10, StatusCases DEF SelectTimeout
  <2> QED
    BY <2>1 DEF CharInv
<1>11. ASSUME pc' # "char"
       PROVE  CharInv'
  BY <1>11 DEF CharInv
<1> QED
  BY <1>3, <1>4, <1>5, <1>6, <1>7, <1>8, <1>9, <1>10, <1>11 DEF Next, Waiting

\* What holds at the beginning.
LEMMA BaseInit == Init => BaseInv
<1> SUFFICES ASSUME Init
             PROVE  BaseInv
  OBVIOUS
<1>1. /\ pipe = [i \in Links |-> <<>>] /\ closed = [i \in Links |-> FALSE]
      /\ answers = [i \in Links |-> 0] /\ F = [i \in Links |-> s_open]
      /\ clock = 0 /\ pc = "idle" /\ call = [op |-> "none", ms |-> 0, from |-> 0]
      /\ present = {} /\ fdmask = {} /\ cur = 0 /\ timeout = 0 /\ deadline = 0
      /\ startingtime = 0 /\ ret = 0 /\ result = 0 /\ todo = 0
  BY DEF Init
<1>2. s_open \in Buffers
  <2>1. Cleared \in [0 .. BuffLen - 1 -> Byte]
    BY DEF Cleared, Byte, White
  <2> QED
    BY <2>1, BuffLenAssumption DEF s_open, Buffers
<1>3. DigitsIn(Answer) \in Nat
  BY DigitsCounted
<1>4. TypeOK
  <2>1. MaxAnswers \in Nat \ {0} /\ IntMax \in Nat
    BY WaitAssumption
  <2> QED
    BY <1>1, <1>2, <1>3, <2>1 DEF TypeOK
<1>5. CallTypes
  BY <1>1, Positive DEF CallTypes, Inside
<1>6. HeldInv
  BY <1>1 DEF HeldInv, Held, s_open
<1>7. CharInv
  BY <1>1 DEF CharInv
<1> QED
  BY <1>4, <1>5, <1>6, <1>7 DEF BaseInv, Types

\* Types, bytes and the byte looked at, in every state.
THEOREM BaseInvariance == Spec => []BaseInv
<1>1. BaseInv /\ [Next]_vars => BaseInv'
  BY BytesKept, TypesKept, CharKept DEF BaseInv
<1> QED
  BY <1>1, BaseInit, PTL DEF Spec

\* A call sleeps in a read only behind an answer that a buffer has cut
\* (SleepsInSelectOnly): s_getc finds nothing in the buffer, and select would
\* not have reported the link without a byte in the pipe.
THEOREM SelectCorrect == Spec => []SleepsInSelectOnly
<1>1. BaseInv => SleepsInSelectOnly
  <2> SUFFICES ASSUME BaseInv
               PROVE  SleepsInSelectOnly
    OBVIOUS
  <2>1. TypeOK
    BY DEF BaseInv, Types
  <2>2. ASSUME InRead
        PROVE  CutBehindAnswer(F[cur])
    <3>1. /\ BlankSoFar(F[cur], pipe[cur], closed[cur]) /\ cur \in Links
          /\ pipe[cur] = <<>> /\ ~closed[cur] /\ F[cur].bp >= F[cur].end
      BY <2>1, <2>2 DEF InRead, CanGet, Exhausted, Readable, BaseInv, CharInv, TypeOK
    <3>2. F[cur] \in Buffers /\ F[cur].bp \in Int /\ F[cur].end \in Int
      BY <2>1, <3>1 DEF TypeOK, Buffers
    <3>3. \A p \in 0 .. F[cur].bp : F[cur].buff[p] \in Blank
      BY <3>1 DEF BlankSoFar
    <3>4. \A p \in 0 .. F[cur].end : p \in 0 .. F[cur].bp
      BY <3>1, <3>2
    <3> QED
      BY <3>3, <3>4 DEF Blank, CutBehindAnswer
  <2> QED
    BY <2>1, <2>2 DEF SleepsInSelectOnly
<1> QED
  BY <1>1, BaseInvariance, PTL

-----------------------------------------------------------------------------
(* What a wait returns                                                     *)

\* Looking at a byte changes no answer: a digit is put back, a blank is none,
\* and (char)-1 ends a link without one.
LEMMA CharAnswers ==
  ASSUME BaseInv, Char
  PROVE  /\ \A i \in Links : (HasAnswer(i)' <=> HasAnswer(i)) /\ closed'[i] = closed[i]
         /\ Got(F[cur], pipe[cur]) = "EOF" => Ended(cur)
         /\ Got(F[cur], pipe[cur]) \in Digits => HasAnswer(cur)
         /\ \A i \in Links : i # cur => F'[i] = F[i]
<1> DEFINE H == s_getc(F[cur], pipe[cur])
           b == Got(F[cur], pipe[cur])
           Q == PipeAfter(F[cur], pipe[cur])
<1>1. /\ cur \in Links /\ F[cur] \in Buffers /\ pipe[cur] \in Seq(Byte)
      /\ WellRead(F[cur], pipe[cur], closed[cur], H, Q, b)
  BY CharReads
<1>2. /\ \/ F' = [F EXCEPT ![cur] = H] /\ b \notin Digits
         \/ F' = [F EXCEPT ![cur] = s_ungetc(b, H)]
      /\ pipe' = [pipe EXCEPT ![cur] = Q] /\ closed' = closed
  BY DEF Char, Digits, White
<1>3. /\ F \in [Links -> Buffers] /\ pipe \in [Links -> Seq(Byte)]
      /\ F' \in [Links -> Buffers] /\ pipe' \in [Links -> Seq(Byte)]
  <2>1. [Next]_vars
    BY DEF Next, Waiting
  <2> QED
    BY <2>1, BytesKept DEF BaseInv, Types, TypeOK, BytesOK
<1> HIDE DEF H, b, Q
<1>4. \A i \in Links : i # cur => F'[i] = F[i] /\ pipe'[i] = pipe[i]
  BY <1>2, <1>3
<1>5. Digit(F'[cur], pipe'[cur]) <=> Digit(F[cur], pipe[cur])
  <2>1. pipe'[cur] = Q
    BY <1>1, <1>2, <1>3
  <2>2. CASE F' = [F EXCEPT ![cur] = H] /\ b \notin Digits
    <3>1. F'[cur] = H
      BY <1>1, <1>3, <2>2
    <3> QED
      BY <1>1, <2>1, <2>2, <3>1 DEF WellRead
  <2>3. CASE F' = [F EXCEPT ![cur] = s_ungetc(b, H)]
    <3>1. F'[cur] = s_ungetc(b, H)
      BY <1>1, <1>3, <2>3
    <3>2. Digit(s_ungetc(b, H), Q) <=> Digit(F[cur], pipe[cur])
      BY <1>1, UngetWorks
    <3> QED
      BY <2>1, <3>1, <3>2
  <2> QED
    BY <1>2, <2>2, <2>3
<1>6. ASSUME NEW i \in Links
      PROVE  HasAnswer(i)' <=> HasAnswer(i)
  <2>1. F[i] \in Buffers /\ pipe[i] \in Seq(Byte) /\ F'[i] \in Buffers /\ pipe'[i] \in Seq(Byte)
    BY <1>3
  <2>2. (HasAnswer(i) <=> Digit(F[i], pipe[i])) /\ (HasAnswer(i)' <=> Digit(F'[i], pipe'[i]))
    BY <2>1, AnswerIsDigit
  <2>3. CASE i = cur
    BY <1>5, <2>2, <2>3
  <2>4. CASE i # cur
    BY <1>4, <2>2, <2>4
  <2> QED
    BY <2>3, <2>4
<1>7. HasAnswer(cur) <=> Digit(F[cur], pipe[cur])
  BY <1>1, AnswerIsDigit
<1>8. b = "EOF" => Ended(cur)
  <2>1. b = "EOF" => closed[cur] /\ ~Digit(H, Q) /\ b \notin Digits
    BY <1>1 DEF WellRead, Digits
  <2> QED
    BY <1>1, <1>7, <2>1 DEF WellRead, Ended
<1>9. b \in Digits => HasAnswer(cur)
  BY <1>1, <1>7 DEF WellRead
<1> QED
  BY <1>2, <1>4, <1>6, <1>8, <1>9 DEF b

\* During a wait an answer stays, and so does an end.
LEMMA AnswersStay ==
  ASSUME BaseInv, [Next]_vars, pc # "read"
  PROVE  \A i \in Links : (HasAnswer(i) => HasAnswer(i)') /\ (Ended(i) => Ended(i)')
<1>1. ASSUME UNCHANGED <<F, pipe>>, \A i \in Links : closed[i] => closed'[i]
      PROVE  \A i \in Links : (HasAnswer(i) => HasAnswer(i)') /\ (Ended(i) => Ended(i)')
  BY <1>1 DEF Ended, HasAnswer, Unread
<1>2. ASSUME NEW i \in Links, AnswerArrives(i)
      PROVE  \A k \in Links : (HasAnswer(k) => HasAnswer(k)') /\ (Ended(k) => Ended(k)')
  <2>1. /\ pipe' = [pipe EXCEPT ![i] = @ \o Answer] /\ UNCHANGED <<F, closed>> /\ ~closed[i]
        /\ F \in [Links -> Buffers] /\ pipe \in [Links -> Seq(Byte)]
    BY <1>2 DEF AnswerArrives, BaseInv, Types, TypeOK
  <2>2. F' \in [Links -> Buffers] /\ pipe' \in [Links -> Seq(Byte)]
    BY BytesKept DEF BytesOK
  <2>3. \A k \in Links : k # i => pipe'[k] = pipe[k]
    BY <2>1
  <2>4. \A k \in Links : k # i => (HasAnswer(k)' <=> HasAnswer(k))
    BY <2>1, <2>3 DEF HasAnswer, Unread
  <2>5. HasAnswer(i) => HasAnswer(i)'
    <3>1. Answer \in Seq(Byte)
      <4>1. Answer \in Seq(Real)
        BY WaitAssumption DEF Real, Blank
      <4>2. Real \subseteq Byte
        BY DEF Real, Blank, Byte, White
      <4> QED
        BY <4>1, <4>2, SeqMonotonic
    <3>2. pipe'[i] = pipe[i] \o Answer /\ pipe[i] \in Seq(Byte) /\ F'[i] = F[i]
      BY <2>1
    <3>3. \A k \in 1 .. Len(pipe[i]) : k \in 1 .. Len(pipe'[i]) /\ pipe'[i][k] = pipe[i][k]
      BY <3>1, <3>2
    <3>4. DigitIn(pipe[i]) => DigitIn(pipe'[i])
      BY <3>3 DEF DigitIn
    <3>5. Digit(F[i], pipe[i]) => Digit(F'[i], pipe'[i])
      BY <3>2, <3>4 DEF Digit
    <3>6. F[i] \in Buffers /\ F'[i] \in Buffers /\ pipe'[i] \in Seq(Byte)
      BY <2>1, <2>2
    <3> QED
      BY <3>2, <3>5, <3>6, AnswerIsDigit
  <2> QED
    BY <2>1, <2>4, <2>5 DEF Ended
<1>3. ASSUME NEW i \in Links, PeerCloses(i)
      PROVE  \A k \in Links : (HasAnswer(k) => HasAnswer(k)') /\ (Ended(k) => Ended(k)')
  <2>1. UNCHANGED <<F, pipe>> /\ closed' = [closed EXCEPT ![i] = TRUE] /\ closed \in [Links -> BOOLEAN]
    BY <1>3 DEF PeerCloses, BaseInv, Types, TypeOK
  <2>2. \A k \in Links : closed[k] => closed'[k]
    BY <2>1
  <2> QED
    BY <1>1, <2>1, <2>2
<1>4. ASSUME Char
      PROVE  \A k \in Links : (HasAnswer(k) => HasAnswer(k)') /\ (Ended(k) => Ended(k)')
  BY <1>4, CharAnswers DEF Ended
<1>5. ASSUME \/ \E i \in Links : StartRead(i)
             \/ \E op \in Calls, ms \in Timeouts : Call(op, ms)
             \/ Tick \/ Scan \/ SelectReady \/ SelectTimeout \/ CallerGoesOn \/ UNCHANGED vars
      PROVE  UNCHANGED <<F, pipe, closed>>
  BY <1>5 DEF StartRead, Call, Tick, Scan, SelectReady, SelectTimeout, CallerGoesOn, vars, others
<1>6. ~ReadByte
  BY DEF ReadByte
<1> QED
  BY <1>1, <1>2, <1>3, <1>4, <1>5, <1>6 DEF Next, Waiting

\* A byte that s_isready takes for the begin of an answer is one; without it
\* there is no digit before the last position.
LEMMA ReadyAnswers ==
  ASSUME BaseInv, NEW i \in Links
  PROVE  /\ s_isready(F[i]) => HasAnswer(i)
         /\ ~s_isready(F[i]) => ~DigitAt(F[i], F[i].bp + 1, F[i].end - 1)
<1>1. /\ F[i] \in Buffers /\ pipe[i] \in Seq(Byte) /\ Held(F[i], pipe[i], closed[i])
      /\ F[i].bp \in Int /\ F[i].end \in Int
  BY DEF BaseInv, HeldInv, Types, TypeOK, Buffers
<1>2. HasAnswer(i) <=> Digit(F[i], pipe[i])
  BY <1>1, AnswerIsDigit
<1>3. ASSUME NEW p \in F[i].bp + 1 .. F[i].end - 1, F[i].buff[p] \notin White
      PROVE  Digit(F[i], pipe[i])
  <2>1. p \in F[i].bp + 1 .. F[i].end /\ p # F[i].end
    BY <1>1
  <2>2. F[i].buff[p] \in Real
    BY <1>1, <2>1 DEF Held
  <2>3. F[i].buff[p] \in Digits
    BY <1>3, <2>2 DEF Real, Blank, White
  <2> QED
    BY <2>1, <2>3 DEF Digit, DigitAt
<1>4. Digits \cap White = {}
  BY DEF Digits, White
<1> QED
  BY <1>2, <1>3, <1>4 DEF s_isready, DigitAt

\* A link that select does not report, without a digit before the last
\* position of its buffer, has no answer: a digit at the last one is never the
\* last byte sent.
LEMMA SilentLink ==
  ASSUME BaseInv, NEW i \in Links, ~Readable(pipe[i], closed[i]),
         ~DigitAt(F[i], F[i].bp + 1, F[i].end - 1)
  PROVE  ~HasAnswer(i)
<1>1. /\ F[i] \in Buffers /\ pipe[i] \in Seq(Byte) /\ Held(F[i], pipe[i], closed[i])
      /\ F[i].bp \in Int /\ F[i].end \in Int /\ pipe[i] = <<>>
  BY DEF BaseInv, HeldInv, Types, TypeOK, Buffers, Readable
<1>2. HasAnswer(i) <=> Digit(F[i], pipe[i])
  BY <1>1, AnswerIsDigit
<1>3. ASSUME NEW p \in F[i].bp + 1 .. F[i].end, F[i].buff[p] \in Digits
      PROVE  FALSE
  <2>1. CASE p = F[i].end
    BY <1>1, <1>3, <2>1 DEF Held
  <2>2. CASE p # F[i].end
    <3>1. p \in F[i].bp + 1 .. F[i].end - 1
      BY <1>1, <2>2
    <3> QED
      BY <1>3, <3>1 DEF DigitAt
  <2> QED
    BY <2>1, <2>2
<1>4. ~DigitIn(pipe[i])
  BY <1>1 DEF DigitIn
<1> QED
  BY <1>2, <1>3, <1>4 DEF Digit, DigitAt

AInv == BaseInv /\ AnswersInv

\* waitall drops a link with an answer and scans the others.
LEMMA DropKeeps ==
  ASSUME AInv, Inside, NEW i \in present, HasAnswer(i), StatusReturns(i), call' = call,
         \A k \in Links : HasAnswer(k) => HasAnswer(k)'
  PROVE  AnswersInv'
<1>1. /\ i \in Links /\ timeout \in -IntMax - 1 .. IntMax /\ present \subseteq Links
  BY DEF AInv, BaseInv, Types, TypeOK
<1>2. SUFFICES ASSUME pc' \notin {"done"}
               PROVE  AnswersInv'
  BY DEF AnswersInv, Inside
<1>3. /\ call.op # "first" /\ ret' = 1 /\ present' = present \ {i} /\ present # {i}
      /\ pc' = "scan"
      /\ timeout' = IF call.ms = Forever THEN Forever
                    ELSE si_max(0, timeout - Milli * (Seconds(clock) - Seconds(call.from)))
  BY <1>1, <1>2, StatusCases
<1>4. call.ms # Forever => timeout' >= 0
  <2>1. Milli * (Seconds(clock) - Seconds(call.from)) \in Nat
    BY TakenOff DEF AInv, BaseInv
  <2>2. si_max(0, timeout - Milli * (Seconds(clock) - Seconds(call.from))) \in 0 .. IntMax
    BY <1>1, <2>1, Corrected
  <2> QED
    BY <1>3, <2>2, Positive
<1>5. \A k \in Links \ present' : HasAnswer(k)'
  BY <1>1, <1>3 DEF AInv, AnswersInv
<1> QED
  BY <1>3, <1>4, <1>5 DEF AnswersInv

\* Every step keeps what the wait knows.
LEMMA AnswersKept ==
  ASSUME NoOverflow, AInv, [Next]_vars
  PROVE  AnswersInv'
<1>1. /\ BaseInv /\ TypeOK /\ CallTypes /\ AnswersInv
      /\ timeout \in Int /\ clock \in Nat /\ present \subseteq Links /\ fdmask \subseteq Links
  BY Positive DEF AInv, BaseInv, Types, TypeOK, CallTypes
<1>2. ASSUME Inside, UNCHANGED <<pc, call, present, fdmask, cur, timeout, ret, F>>
      PROVE  AnswersInv'
  <2>1. \A i \in Links : (HasAnswer(i) => HasAnswer(i)') /\ (Ended(i) => Ended(i)')
    BY <1>1, <1>2, AnswersStay DEF Inside
  <2> QED
    BY <1>1, <1>2, <2>1 DEF AnswersInv, Inside
<1>3. ASSUME ~Inside, UNCHANGED pc
      PROVE  AnswersInv'
  BY <1>3 DEF AnswersInv, Inside
<1>4. ASSUME NEW i \in Links, AnswerArrives(i) \/ PeerCloses(i)
      PROVE  AnswersInv'
  <2>1. UNCHANGED <<pc, call, present, fdmask, cur, timeout, ret, F>>
    BY <1>4 DEF AnswerArrives, PeerCloses, local
  <2> QED
    BY <1>2, <1>3, <2>1
<1>5. ASSUME Tick \/ UNCHANGED vars
      PROVE  AnswersInv'
  <2>1. UNCHANGED <<pc, call, present, fdmask, cur, timeout, ret, F>>
    BY <1>5 DEF Tick, vars, local
  <2> QED
    BY <1>2, <1>3, <2>1
<1>6. ASSUME \/ \E i \in Links : StartRead(i)
             \/ ReadByte \/ CallerGoesOn
      PROVE  AnswersInv'
  BY <1>6 DEF StartRead, ReadByte, CallerGoesOn, AnswersInv, Inside
<1>7. ASSUME NEW op \in Calls, NEW ms \in Timeouts, Call(op, ms)
      PROVE  AnswersInv'
  <2>1. SUFFICES ASSUME Inside'
                 PROVE  AnswersInv'
    BY DEF AnswersInv
  <2>2. /\ pc' = "scan" /\ present' = Links /\ ret' = -1 /\ call'.op = op /\ call'.ms = ms
        /\ timeout' = IF ms = Forever THEN Forever ELSE Int32(ms * Milli)
    BY <1>7, <2>1 DEF Call, Inside
  <2>3. ms # Forever => Int32(ms * Milli) >= 0
    <3>1. SUFFICES ASSUME ms # Forever
                   PROVE  Int32(ms * Milli) >= 0
      OBVIOUS
    <3>2. ms \in Nat /\ Milli \in Nat
      BY <3>1, Positive DEF Forever
    <3>3. ms * Milli \in Nat /\ ms * Milli <= IntMax /\ IntMax \in Nat
      BY <3>2, Products, Positive DEF NoOverflow
    <3>4. Int32(ms * Milli) = ms * Milli
      BY <3>3, Int32Range
    <3> QED
      BY <3>3, <3>4
  <2> QED
    BY <2>2, <2>3, LinksFinite DEF AnswersInv
<1>8. ASSUME Scan
      PROVE  AnswersInv'
  <2> DEFINE ready == {i \in present : s_isready(F[i])}
  <2>1. /\ call' = call /\ fdmask' = present /\ F' = F /\ Inside /\ pc = "scan"
        /\ \A k \in Links : HasAnswer(k) => HasAnswer(k)'
    <3>1. [Next]_vars /\ pc # "read"
      BY <1>8 DEF Scan
    <3> QED
      BY <1>1, <1>8, <3>1, AnswersStay DEF Scan, Inside
  <2>2. CASE ready # {}
    <3>1. ready \in SUBSET Links
      BY <1>1
    <3>2. Max(ready) \in ready
      BY <2>2, <3>1, ReadyMax
    <3>3. Max(ready) \in present /\ Max(ready) \in Links /\ s_isready(F[Max(ready)])
      BY <3>1, <3>2
    <3>4. StatusReturns(Max(ready))
      BY <1>8, <2>2 DEF Scan
    <3>5. HasAnswer(Max(ready))
      BY <1>1, <3>3, ReadyAnswers
    <3> HIDE DEF ready
    <3> QED
      BY <2>1, <3>3, <3>4, <3>5, DropKeeps
  <2>3. CASE ready = {}
    <3>1. pc' = "select" /\ UNCHANGED <<present, timeout, ret, result>>
      BY <1>8, <2>3 DEF Scan
    <3>2. \A i \in present : ~DigitAt(F[i], F[i].bp + 1, F[i].end - 1)
      BY <1>1, <2>3, ReadyAnswers
    <3> QED
      BY <1>1, <2>1, <3>1, <3>2 DEF AnswersInv, Inside
  <2> QED
    BY <2>2, <2>3
<1>9. ASSUME SelectReady
      PROVE  AnswersInv'
  <2>1. /\ pc = "select" /\ pc' = "char"
        /\ UNCHANGED <<pipe, closed, F, call, present, fdmask, timeout, ret>>
    BY <1>9 DEF SelectReady, others
  <2>2. \A i \in Links : (HasAnswer(i)' <=> HasAnswer(i)) /\ (Ended(i)' <=> Ended(i))
    BY <2>1 DEF HasAnswer, Unread, Ended
  <2> QED
    BY <1>1, <2>1, <2>2 DEF AnswersInv, Inside
<1>10. ASSUME SelectTimeout
       PROVE  AnswersInv'
  BY <1>10, StatusCases DEF SelectTimeout, AnswersInv, Inside
<1>11. ASSUME Char
       PROVE  AnswersInv'
  <2>1. /\ pc = "char" /\ Inside /\ call' = call /\ cur' = cur /\ cur \in fdmask /\ cur \in Links
        /\ fdmask \subseteq present /\ cur \in present
    BY <1>1, <1>11, CharReads DEF Char, Inside, AnswersInv
  <2>2. /\ \A i \in Links : HasAnswer(i)' <=> HasAnswer(i)
        /\ \A i \in Links : Ended(i)' <=> Ended(i)
        /\ \A i \in Links : i # cur => F'[i] = F[i]
    BY <1>1, <1>11, CharAnswers DEF Ended
  <2>3. CASE Got(F[cur], pipe[cur]) = "EOF" /\ fdmask' = fdmask \ {cur} /\ fdmask' # {}
             /\ timeout' = (IF timeout = Forever THEN Forever ELSE
                    si_max(0, timeout - Second * (Seconds(clock) - startingtime)))
             /\ pc' = "select" /\ UNCHANGED <<present, ret, result>>
    <3>1. Ended(cur)
      BY <1>1, <1>11, <2>3, CharAnswers
    <3>2. \A i \in present \ fdmask' : Ended(i)'
      BY <1>1, <2>1, <2>2, <2>3, <3>1 DEF AnswersInv
    <3>3. \A i \in fdmask' : ~DigitAt(F'[i], F'[i].bp + 1, F'[i].end - 1)
      BY <1>1, <2>1, <2>2, <2>3 DEF AnswersInv
    <3>4. (call.ms = Forever => timeout' = Forever) /\ (call.ms # Forever => timeout' >= 0)
      <4>1. CASE call.ms = Forever
        BY <1>1, <2>1, <2>3, <4>1 DEF AnswersInv
      <4>2. CASE call.ms # Forever
        <5>1. timeout >= 0
          BY <1>1, <2>1, <4>2 DEF AnswersInv
        <5>2. startingtime \in Int /\ Seconds(clock) - startingtime \in Nat
          BY <1>1, <2>1, SecondsGrow DEF CallTypes
        <5>3. Second * (Seconds(clock) - startingtime) \in Nat
          BY <5>2, Positive, Products
        <5>4. timeout \in -IntMax - 1 .. IntMax
          BY <1>1 DEF TypeOK
        <5>5. si_max(0, timeout - Second * (Seconds(clock) - startingtime)) \in 0 .. IntMax
          BY <5>3, <5>4, Corrected
        <5> QED
          BY <2>3, <4>2, <5>1, <5>5, Positive DEF Forever
      <4> QED
        BY <4>1, <4>2
    <3>5. \A i \in Links \ present : HasAnswer(i)'
      BY <1>1, <2>1, <2>2 DEF AnswersInv
    <3> QED
      BY <1>1, <2>1, <2>3, <3>2, <3>3, <3>4, <3>5 DEF AnswersInv
  <2>4. CASE Got(F[cur], pipe[cur]) \in Digits /\ StatusReturns(cur)
    <3>1. HasAnswer(cur)
      BY <1>1, <1>11, <2>4, CharAnswers
    <3> QED
      BY <2>1, <2>2, <2>4, <3>1, DropKeeps
  <2>5. CASE UNCHANGED <<pc, present, fdmask, timeout, deadline, ret, result>>
    <3>1. \A i \in present \ fdmask : Ended(i)'
      BY <1>1, <2>1, <2>2 DEF AnswersInv
    <3>2. \A i \in Links \ present : HasAnswer(i)'
      BY <1>1, <2>1, <2>2 DEF AnswersInv
    <3>3. \A i \in fdmask : i # cur => ~DigitAt(F'[i], F'[i].bp + 1, F'[i].end - 1)
      BY <1>1, <2>1, <2>2 DEF AnswersInv
    <3> QED
      BY <1>1, <2>1, <2>5, <3>1, <3>2, <3>3 DEF AnswersInv
  <2>6. CASE StatusReturns(-1)
    BY <2>6, StatusCases DEF AnswersInv, Inside
  <2> QED
    BY <1>11, <2>3, <2>4, <2>5, <2>6 DEF Char
<1> QED
  BY <1>4, <1>5, <1>6, <1>7, <1>8, <1>9, <1>10, <1>11 DEF Next, Waiting

\* What the wait knows, in every state.
THEOREM AnswersInvariance == NoOverflow => (Spec => []AInv)
<1> SUFFICES ASSUME NoOverflow
             PROVE  Spec => []AInv
  OBVIOUS
<1>1. Init => AInv
  BY BaseInit DEF AInv, AnswersInv, Inside, Init
<1>2. AInv /\ [Next]_vars => AInv'
  BY BytesKept, TypesKept, CharKept, AnswersKept DEF AInv, BaseInv
<1> QED
  BY <1>1, <1>2, PTL DEF Spec

\* What is claimed of the value of a call.
Truth ==
  /\ result' > 0 => \A i \in Links :
       IF call.op = "first" THEN i = result' => HasAnswer(i)'
       ELSE (HasAnswer(i) \/ Ended(i))'
  /\ result' = 0 /\ call.op = "first" => \A i \in Links : ~HasAnswer(i)'
  /\ result' = -1 => \A i \in Links : Ended(i)'
  /\ result' = -2 => call.ms < 0

\* A call that ends with a link names one with an answer, the last of its list
\* if it is waitall.
LEMMA LinkIsTrue ==
  ASSUME AInv, Inside, NEW i \in present, HasAnswer(i), StatusReturns(i), pc' = "done",
         \A k \in Links : HasAnswer(k) => HasAnswer(k)'
  PROVE  Truth
<1>1. i \in Links /\ i \in Nat \ {0}
  BY LinksFinite DEF AInv, BaseInv, Types, TypeOK
<1>2. CASE call.op = "first"
  <2>1. result' = i
    BY <1>1, <1>2, StatusCases
  <2> QED
    BY <1>1, <1>2, <2>1 DEF Truth
<1>3. CASE call.op # "first"
  <2>1. present = {i} /\ result' = 1
    BY <1>1, <1>3, StatusCases
  <2>2. \A k \in Links : HasAnswer(k)'
    BY <2>1 DEF AInv, AnswersInv
  <2> QED
    BY <1>3, <2>1, <2>2 DEF Truth
<1> QED
  BY <1>2, <1>3

\* The value of every call that ends is true.
LEMMA ReturnsAreTrue ==
  ASSUME AInv, [Next]_vars, Returns
  PROVE  Truth
<1>1. /\ BaseInv /\ TypeOK /\ CallTypes /\ AnswersInv /\ Inside /\ pc' = "done"
      /\ present \subseteq Links /\ fdmask \subseteq Links
  BY DEF AInv, BaseInv, Types, TypeOK, Returns, Inside
<1>2. \A i \in Links : (HasAnswer(i) => HasAnswer(i)') /\ (Ended(i) => Ended(i)')
  BY <1>1, AnswersStay DEF Inside
<1>3. CASE Scan
  <2> DEFINE ready == {i \in present : s_isready(F[i])}
  <2>1. ready # {} /\ StatusReturns(Max(ready))
    BY <1>1, <1>3 DEF Scan
  <2>2. ready \in SUBSET Links
    BY <1>1
  <2>3. Max(ready) \in ready
    BY <2>1, <2>2, ReadyMax
  <2>4. Max(ready) \in present /\ HasAnswer(Max(ready))
    BY <1>1, <2>3, ReadyAnswers
  <2> HIDE DEF ready
  <2> QED
    BY <1>1, <1>2, <2>1, <2>4, LinkIsTrue
<1>4. CASE SelectTimeout
  <2>1. ~(timeout < 0 /\ timeout # Forever)
    <3>1. timeout \in Int
      BY <1>1, Positive DEF TypeOK
    <3> QED
      BY <1>1, <3>1 DEF AnswersInv, Forever
  <2>2. /\ StatusReturns(0) /\ ReadableIn(fdmask) = {} /\ pc = "select"
        /\ UNCHANGED <<pipe, closed, F>>
    BY <1>4, <2>1 DEF SelectTimeout, others
  <2>3. result' = 0
    BY <2>2, StatusCases
  <2>4. ASSUME NEW i \in Links, call.op = "first"
        PROVE  ~HasAnswer(i)'
    <3>1. HasAnswer(i)' <=> HasAnswer(i)
      BY <2>2 DEF HasAnswer, Unread
    <3>2. i \in present
      BY <1>1, <2>4 DEF AnswersInv
    <3>3. CASE i \in fdmask
      <4>1. ~Readable(pipe[i], closed[i])
        BY <2>2, <3>3 DEF ReadableIn
      <4>2. ~DigitAt(F[i], F[i].bp + 1, F[i].end - 1)
        BY <1>1, <2>2, <3>3 DEF AnswersInv
      <4> QED
        BY <1>1, <3>1, <4>1, <4>2, SilentLink
    <3>4. CASE i \notin fdmask
      BY <1>1, <2>2, <3>1, <3>2, <3>4 DEF AnswersInv, Ended
    <3> QED
      BY <3>3, <3>4
  <2> QED
    BY <2>3, <2>4 DEF Truth
<1>5. CASE Char
  <2>1. /\ pc = "char" /\ cur \in fdmask /\ cur \in Links /\ cur \in present
    BY <1>1, <1>5, CharReads DEF Char, AnswersInv
  <2>2. CASE Got(F[cur], pipe[cur]) = "EOF" /\ fdmask \ {cur} = {} /\ StatusReturns(-1)
    <3>1. Ended(cur)
      BY <1>1, <1>5, <2>2, CharAnswers
    <3>2. \A i \in present : Ended(i)'
      BY <1>1, <1>2, <2>1, <2>2, <3>1 DEF AnswersInv
    <3>3. \A i \in Links \ present : HasAnswer(i)'
      BY <1>1, <1>2 DEF AnswersInv
    <3>4. CASE call.op = "first"
      <4>1. result' = -1 /\ present = Links
        BY <1>1, <2>2, <3>4, StatusCases DEF AnswersInv
      <4> QED
        BY <3>2, <4>1 DEF Truth
    <3>5. CASE call.op # "first"
      <4>1. result' = ret
        BY <2>2, <3>5, StatusCases, LinksFinite
      <4>2. ret \in {-1, 1} /\ (ret = -1 => present = Links)
        BY <1>1 DEF AnswersInv
      <4> QED
        BY <3>2, <3>3, <3>5, <4>1, <4>2 DEF Truth
    <3> QED
      BY <3>4, <3>5
  <2>3. CASE Got(F[cur], pipe[cur]) \in Digits /\ StatusReturns(cur)
    <3>1. HasAnswer(cur)
      BY <1>1, <1>5, <2>3, CharAnswers
    <3> QED
      BY <1>1, <1>2, <2>1, <2>3, <3>1, LinkIsTrue
  <2>4. CASE pc' = "select" \/ pc' = pc
    BY <1>1, <2>1, <2>4
  <2> QED
    BY <1>5, <2>2, <2>3, <2>4 DEF Char
<1>6. ASSUME \/ \E i \in Links : AnswerArrives(i) \/ PeerCloses(i) \/ StartRead(i)
             \/ \E op \in Calls, ms \in Timeouts : Call(op, ms)
             \/ Tick \/ SelectReady \/ ReadByte \/ CallerGoesOn \/ UNCHANGED vars
      PROVE  FALSE
  BY <1>1, <1>6 DEF AnswerArrives, PeerCloses, StartRead, Call, Tick, SelectReady, ReadByte,
     CallerGoesOn, vars, Inside
<1> QED
  BY <1>3, <1>4, <1>5, <1>6 DEF Next, Waiting

\* What a wait returns can be believed (AnswersTrue): a byte waiting in a
\* buffer is found before select, one at its last position has more behind it
\* in the pipe, and the links that left fdmask are at their end.
THEOREM AnswersCorrect == NoOverflow => (Spec => AnswersTrue)
<1> SUFFICES ASSUME NoOverflow
             PROVE  Spec => AnswersTrue
  OBVIOUS
<1>1. AInv /\ [Next]_vars =>
        [Returns =>
           /\ result' > 0 => \A i \in Links :
                IF call.op = "first" THEN i = result' => HasAnswer(i)'
                ELSE (HasAnswer(i) \/ Ended(i))'
           /\ result' = 0 /\ call.op = "first" => \A i \in Links : ~HasAnswer(i)'
           /\ result' = -1 => \A i \in Links : Ended(i)'
           /\ result' = -2 => call.ms < 0]_vars
  BY ReturnsAreTrue DEF Truth
<1> QED
  BY <1>1, AnswersInvariance, PTL DEF Spec, AnswersTrue

-----------------------------------------------------------------------------
(* How long a wait takes                                                   *)

TInv == AInv /\ TimeInv

\* Types and signs of what the arithmetic of time works on.
LEMMA TimeTypes ==
  ASSUME AInv
  PROVE  /\ clock \in Nat /\ call.from \in 0 .. Second - 1 /\ call.from <= clock
         /\ timeout \in -IntMax - 1 .. IntMax /\ timeout \in Int
         /\ deadline \in Int /\ startingtime \in Int
         /\ Inside /\ call.ms # Forever => Limit \in Nat /\ timeout >= 0 /\ timeout # Forever
         /\ present \subseteq Links /\ fdmask \subseteq Links
<1>1. /\ clock \in Nat /\ call.from \in 0 .. Second - 1 /\ call.from <= clock
      /\ timeout \in -IntMax - 1 .. IntMax
      /\ deadline \in Int /\ startingtime \in Int
      /\ present \subseteq Links /\ fdmask \subseteq Links
      /\ Inside => call.ms \in Timeouts
  BY DEF AInv, BaseInv, Types, TypeOK, CallTypes
<1>2. timeout \in Int
  BY <1>1, Positive
<1>3. ASSUME Inside, call.ms # Forever
      PROVE  Limit \in Nat /\ timeout >= 0 /\ timeout # Forever
  <2>1. call.ms \in Nat /\ Milli \in Nat
    BY <1>1, <1>3, Positive DEF Forever
  <2>2. timeout >= 0
    BY <1>3 DEF AInv, AnswersInv
  <2> QED
    BY <1>2, <2>1, <2>2, Products DEF Limit, Forever
<1> QED
  BY <1>1, <1>2, <1>3

\* The links that still last can be counted.
LEMMA TurnsCounted ==
  ASSUME present \subseteq Links
  PROVE  /\ IsFiniteSet(Lasting) /\ Cardinality(Lasting) \in Nat /\ Turns \in Nat
         /\ Turns <= Cardinality(Links)
         /\ Lasting # {} => Turns + 1 <= Cardinality(Links)
<1>1. Lasting \subseteq Links
  BY DEF Lasting
<1>2. IsFiniteSet(Lasting) /\ Cardinality(Lasting) \in Nat /\ Cardinality(Lasting) <= Cardinality(Links)
  BY <1>1, LinksFinite, FS_Subset, FS_CardinalityType
<1>3. Lasting # {} => Cardinality(Lasting) >= 1
  BY <1>2, FS_EmptySet
<1> QED
  BY <1>2, <1>3, LinksFinite DEF Turns

\* The turns of a wait grow, and do so when a link is dropped or ends.
LEMMA TurnsGrow ==
  ASSUME AInv, [Next]_vars, pc # "read", present' \subseteq present
  PROVE  /\ Turns \in Nat /\ Turns' \in Nat /\ Turns <= Turns'
         /\ \A i \in Lasting : i \notin Lasting' => Turns + 1 <= Turns'
<1>1. present \subseteq Links /\ present' \subseteq Links
  BY TimeTypes
<1>2. \A i \in Links : Ended(i) => Ended(i)'
  BY AnswersStay DEF AInv
<1>3. Lasting' \subseteq Lasting
  BY <1>1, <1>2 DEF Lasting
<1>4. IsFiniteSet(Lasting) /\ Cardinality(Lasting) \in Nat
  BY <1>1, TurnsCounted
<1> DEFINE A == Lasting
           B == Lasting'
<1>5. IsFiniteSet(A) /\ Cardinality(A) \in Nat /\ B \subseteq A /\ A \subseteq Links
  BY <1>3, <1>4 , <1>1 DEF Lasting
<1>6. Turns = Cardinality(Links) - Cardinality(A) /\ Turns' = Cardinality(Links) - Cardinality(B)
  BY DEF Turns
<1> HIDE DEF A, B
<1>7. IsFiniteSet(B) /\ Cardinality(B) \in Nat /\ Cardinality(B) <= Cardinality(A)
      /\ Cardinality(A) <= Cardinality(Links)
  BY <1>5, LinksFinite, FS_Subset, FS_CardinalityType
<1>8. ASSUME NEW i \in A, i \notin B
      PROVE  Cardinality(B) + 1 <= Cardinality(A)
  <2>1. B \subseteq A \ {i} /\ IsFiniteSet(A \ {i}) /\ Cardinality(A \ {i}) = Cardinality(A) - 1
    BY <1>5, <1>8, FS_RemoveElement
  <2>2. Cardinality(B) <= Cardinality(A \ {i})
    BY <2>1, FS_Subset
  <2> QED
    BY <1>5, <1>7, <2>1, <2>2
<1>9. \A i \in A : i \notin B => Cardinality(B) + 1 <= Cardinality(A)
  BY <1>8
<1>10. \A i \in A : i \notin B => Turns + 1 <= Turns'
  BY <1>5, <1>6, <1>7, <1>9, LinksFinite
<1>11. Turns \in Nat /\ Turns' \in Nat /\ Turns <= Turns'
  BY <1>5, <1>6, <1>7, LinksFinite
<1> QED
  BY <1>10, <1>11 DEF A, B

\* A call begins with its timeout.
LEMMA CallLimit ==
  ASSUME NoOverflow, NEW op \in Calls, NEW ms \in Timeouts, Call(op, ms), Inside', call'.ms # Forever
  PROVE  /\ pc' = "scan" /\ timeout' = Limit' /\ Limit' \in Nat /\ clock' = call'.from
         /\ present' = Links /\ clock' \in Nat
<1>1. PICK phase \in 0 .. Second - 1 :
        clock' = phase /\ call' = [op |-> op, ms |-> ms, from |-> phase]
  BY DEF Call
<1>2. /\ pc' = "scan" /\ present' = Links /\ call'.op = op /\ call'.ms = ms /\ call'.from = phase
      /\ timeout' = Int32(ms * Milli)
  BY <1>1 DEF Call, Inside
<1>3. ms \in Nat /\ Milli \in Nat
  BY <1>2, Positive DEF Forever
<1>4. ms * Milli \in Nat /\ ms * Milli <= IntMax /\ IntMax \in Nat
  BY <1>3, Products, Positive DEF NoOverflow
<1>5. Int32(ms * Milli) = ms * Milli
  BY <1>4, Int32Range
<1>6. Limit' = ms * Milli
  BY <1>2 DEF Limit
<1> QED
  BY <1>1, <1>2, <1>4, <1>5, <1>6, Positive

\* Nothing adds to a timeout.
LEMMA TimeoutKeepsTimes ==
  ASSUME NoOverflow, TInv, [Next]_vars
  PROVE  Inside' /\ call'.ms # Forever => timeout' <= Limit'
<1>1. AInv /\ Types /\ (Inside /\ call.ms # Forever => timeout <= Limit /\ Limit \in Nat)
      /\ timeout \in Int
  BY TimeTypes DEF TInv, TimeInv, AInv, BaseInv
<1> SUFFICES ASSUME Inside', call'.ms # Forever
             PROVE  timeout' <= Limit'
  OBVIOUS
<1>2. ASSUME Inside, call' = call, timeout' = timeout
      PROVE  timeout' <= Limit'
  BY <1>1, <1>2 DEF Limit
<1>3. ASSUME NEW i \in {-2, -1, 0} \union Links, StatusReturns(i), Inside, call' = call
      PROVE  timeout' <= Limit'
  <2>1. timeout' = si_max(0, timeout - Milli * (Seconds(clock) - Seconds(call.from)))
        \/ timeout' = timeout
    BY <1>3, StatusCases
  <2>2. Milli * (Seconds(clock) - Seconds(call.from)) \in Nat
    BY <1>1, TakenOff
  <2>3. timeout \in -IntMax - 1 .. IntMax /\ timeout >= 0 /\ timeout <= Limit /\ Limit \in Nat
    BY <1>1, <1>3, TimeTypes
  <2>4. si_max(0, timeout - Milli * (Seconds(clock) - Seconds(call.from))) <= timeout
    BY <2>2, <2>3, Corrected
  <2>5. si_max(0, timeout - Milli * (Seconds(clock) - Seconds(call.from))) \in Int
    BY <2>2, <2>3, Corrected, Positive
  <2> QED
    BY <1>1, <1>3, <2>1, <2>3, <2>4, <2>5 DEF Limit
<1>4. ASSUME NEW i \in Links, AnswerArrives(i) \/ PeerCloses(i)
      PROVE  timeout' <= Limit'
  BY <1>2, <1>4 DEF AnswerArrives, PeerCloses, local, Inside
<1>5. ASSUME Tick \/ SelectReady \/ UNCHANGED vars
      PROVE  timeout' <= Limit'
  BY <1>2, <1>5 DEF Tick, InSelect, SelectReady, vars, local, Inside
<1>6. ASSUME \/ \E i \in Links : StartRead(i)
             \/ ReadByte \/ CallerGoesOn
      PROVE  FALSE
  BY <1>6 DEF StartRead, ReadByte, CallerGoesOn, Inside
<1>7. ASSUME NEW op \in Calls, NEW ms \in Timeouts, Call(op, ms)
      PROVE  timeout' <= Limit'
  BY <1>7, CallLimit
<1>8. ASSUME Scan
      PROVE  timeout' <= Limit'
  <2> DEFINE ready == {i \in present : s_isready(F[i])}
  <2>1. ready \in SUBSET Links /\ Inside /\ call' = call
    BY <1>1, <1>8, TimeTypes DEF Scan, Inside
  <2>2. ready # {} => Max(ready) \in Links
    BY <2>1, ReadyMax
  <2>3. \/ \E i \in Links : StatusReturns(i)
        \/ timeout' = timeout
    BY <1>8, <2>2 DEF Scan
  <2> QED
    BY <1>2, <1>3, <2>1, <2>3
<1>9. ASSUME SelectTimeout
      PROVE  timeout' <= Limit'
  <2>1. Inside /\ call' = call /\ \E i \in {-2, -1, 0} : StatusReturns(i)
    BY <1>9 DEF SelectTimeout, Inside
  <2> QED
    BY <1>3, <2>1
<1>10. ASSUME Char
       PROVE  timeout' <= Limit'
  <2>1. Inside /\ call' = call /\ cur \in Links
    BY <1>1, <1>10, CharReads DEF Char, Inside, AInv
  <2>2. \/ StatusReturns(-1) \/ StatusReturns(cur) \/ timeout' = timeout
        \/ timeout' = (IF timeout = Forever THEN Forever ELSE
                    si_max(0, timeout - Second * (Seconds(clock) - startingtime)))
    BY <1>10 DEF Char
  <2>3. CASE timeout' = (IF timeout = Forever THEN Forever ELSE
                    si_max(0, timeout - Second * (Seconds(clock) - startingtime)))
    <3>1. timeout \in -IntMax - 1 .. IntMax /\ timeout >= 0 /\ timeout <= Limit /\ Limit \in Nat
          /\ timeout # Forever
      BY <1>1, <2>1, TimeTypes
    <3>2. Seconds(clock) - startingtime \in Nat
      <4>1. startingtime <= Seconds(clock) /\ startingtime \in Int /\ clock \in Nat
        BY <1>1, <1>10 DEF Char, Types, CallTypes
      <4> QED
        BY <4>1, SecondsGrow
    <3>3. Second * (Seconds(clock) - startingtime) \in Nat
      BY <3>2, Positive, Products
    <3>4. timeout' \in 0 .. IntMax /\ timeout' <= timeout
      BY <2>3, <3>1, <3>3, Corrected
    <3> QED
      BY <1>1, <2>1, <3>1, <3>4, Positive DEF Limit
  <2> QED
    BY <1>2, <1>3, <2>1, <2>2, <2>3
<1> QED
  BY <1>4, <1>5, <1>6, <1>7, <1>8, <1>9, <1>10 DEF Next, Waiting

\* After the end of a link the wait goes on with a timeout that is at most
\* the old one, less the whole seconds since the start.
LEMMA EndMovesDeadline ==
  ASSUME TInv, Inside, call.ms # Forever, pc = "char",
         timeout' = IF timeout = Forever THEN Forever
                    ELSE si_max(0, timeout - Second * (Seconds(clock) - startingtime)),
         deadline' = IF timeout = Forever THEN Forever ELSE clock + timeout'
  PROVE  /\ timeout' \in Nat /\ timeout' <= timeout /\ deadline' = clock + timeout'
         /\ startingtime = 0 => \/ timeout' = 0
                                \/ \E lag \in 0 .. Second - 1 : deadline' = timeout + lag
         /\ startingtime = 0 => \E lag \in 0 .. Second - 1 : deadline' >= timeout + lag
<1>1. /\ clock \in Nat /\ timeout \in -IntMax - 1 .. IntMax /\ timeout >= 0 /\ timeout \in Int
      /\ timeout # Forever /\ startingtime \in Int
  BY TimeTypes DEF TInv
<1>2. Seconds(clock) - startingtime \in Nat /\ Seconds(clock) \in Nat
  <2>1. startingtime <= Seconds(clock)
    BY DEF TInv, AInv, BaseInv, Types, CallTypes
  <2> QED
    BY <1>1, <2>1, SecondsGrow
<1>3. Second * (Seconds(clock) - startingtime) \in Nat
  BY <1>2, Positive, Products
<1>4. /\ timeout' = si_max(0, timeout - Second * (Seconds(clock) - startingtime))
      /\ timeout' \in 0 .. IntMax /\ timeout' <= timeout /\ deadline' = clock + timeout'
  BY <1>1, <1>3, Corrected
<1>5. ASSUME startingtime = 0
      PROVE  /\ \/ timeout' = 0
                \/ \E lag \in 0 .. Second - 1 : deadline' = timeout + lag
             /\ \E lag \in 0 .. Second - 1 : deadline' >= timeout + lag
  <2>1. Seconds(clock) - startingtime = Seconds(clock)
    BY <1>2, <1>5
  <2>2. Second * Seconds(clock) \in Nat /\ clock - Second * Seconds(clock) \in 0 .. Second - 1
    BY <1>1, SecondsLag
  <2> DEFINE s == Second * Seconds(clock)
             lag == clock - s
  <2>3. timeout' = IF timeout - s < 0 THEN 0 ELSE timeout - s
    BY <1>1, <1>4, <2>1, <2>2 DEF si_max
  <2>4. s \in Nat /\ lag \in 0 .. Second - 1 /\ clock = s + lag
    BY <1>1, <2>2
  <2> HIDE DEF s, lag
  <2>5. timeout' = 0 \/ deadline' = timeout + lag
    BY <1>1, <1>4, <2>3, <2>4, Positive
  <2>6. deadline' >= timeout + lag
    BY <1>1, <1>4, <2>3, <2>4, Positive
  <2> QED
    BY <2>4, <2>5, <2>6
<1> QED
  BY <1>4, <1>5, Positive

\* waitfirst: every step keeps its deadline within a second of its timeout.
LEMMA FirstKept ==
  ASSUME NoOverflow, TInv, [Next]_vars
  PROVE  FirstInv'
<1>1. SUFFICES ASSUME Inside', call'.ms # Forever, call'.op = "first"
               PROVE  FirstInv'
  BY DEF FirstInv
<1>2. /\ AInv /\ clock \in Nat /\ call.from \in 0 .. Second - 1 /\ Second \in Nat \ {0}
      /\ deadline \in Int /\ startingtime \in Int /\ timeout \in Int
      /\ present \subseteq Links /\ fdmask \subseteq Links
      /\ FirstInv
  BY TimeTypes, Positive DEF TInv, TimeInv
<1>3. ASSUME Inside, call' = call
      PROVE  /\ call.op = "first" /\ call.ms # Forever /\ Limit' = Limit /\ Limit \in Nat
             /\ timeout <= Limit
  BY <1>1, <1>2, <1>3, TimeTypes DEF Limit, TInv, TimeInv
<1>4. ASSUME Inside, UNCHANGED <<pc, call, fdmask, timeout, deadline, startingtime, clock>>
      PROVE  FirstInv'
  BY <1>2, <1>3, <1>4 DEF FirstInv, Inside
<1>5. ASSUME NEW i \in Links, AnswerArrives(i) \/ PeerCloses(i)
      PROVE  FirstInv'
  BY <1>1, <1>4, <1>5 DEF AnswerArrives, PeerCloses, local, Inside
<1>6. ASSUME UNCHANGED vars
      PROVE  FirstInv'
  BY <1>1, <1>4, <1>6 DEF vars, local, Inside
<1>7. ASSUME Tick
      PROVE  FirstInv'
  <2>1. /\ pc = "select" /\ clock < deadline /\ clock' = clock + 1 /\ Inside
        /\ UNCHANGED <<pc, call, fdmask, timeout, deadline, startingtime>>
    BY <1>2, <1>7 DEF Tick, InSelect, Expired, Inside, local
  <2> QED
    BY <1>2, <1>3, <2>1 DEF FirstInv, Inside
<1>8. ASSUME \/ \E i \in Links : StartRead(i)
             \/ ReadByte \/ CallerGoesOn
      PROVE  FALSE
  BY <1>1, <1>8 DEF StartRead, ReadByte, CallerGoesOn, Inside
<1>9. ASSUME NEW op \in Calls, NEW ms \in Timeouts, Call(op, ms)
      PROVE  FirstInv'
  BY <1>1, <1>9, CallLimit DEF FirstInv
<1>10. ASSUME Scan
       PROVE  FirstInv'
  <2> DEFINE ready == {i \in present : s_isready(F[i])}
  <2>1. /\ call' = call /\ fdmask' = present /\ Inside /\ pc = "scan" /\ clock' = clock
        /\ startingtime' = Seconds(clock)
        /\ deadline' = IF timeout = Forever THEN Forever ELSE clock + timeout
    BY <1>10 DEF Scan, Inside
  <2>2. ready \in SUBSET Links
    BY <1>2
  <2>3. ready = {}
    <3>1. ready # {} => Max(ready) \in Links /\ StatusReturns(Max(ready))
      BY <1>10, <2>2, ReadyMax DEF Scan
    <3> HIDE DEF ready
    <3> QED
      BY <1>1, <1>3, <2>1, <3>1, StatusCases DEF Inside
  <2>4. pc' = "select" /\ timeout' = timeout
    BY <1>10, <2>3 DEF Scan
  <2>5. timeout # Forever /\ clock = call.from /\ timeout = Limit
    BY <1>2, <1>3, <2>1, TimeTypes DEF FirstInv
  <2>6. startingtime' = 0
    BY <1>2, <2>1, <2>5, FirstSecond
  <2>7. deadline' = call.from + Limit /\ deadline' - call.from = Limit
    BY <1>2, <1>3, <2>1, <2>5
  <2> QED
    BY <1>2, <1>3, <2>1, <2>4, <2>5, <2>6, <2>7 DEF FirstInv
<1>11. ASSUME SelectReady
       PROVE  FirstInv'
  <2>1. /\ pc = "select" /\ pc' = "char" /\ Inside
        /\ UNCHANGED <<call, fdmask, timeout, deadline, startingtime, clock>>
    BY <1>11 DEF SelectReady, Inside
  <2> QED
    BY <1>2, <1>3, <2>1 DEF FirstInv
<1>12. ASSUME SelectTimeout
       PROVE  FALSE
  <2>1. Inside /\ call' = call /\ \E i \in {-2, -1, 0} : StatusReturns(i)
    BY <1>12 DEF SelectTimeout, Inside
  <2>2. pc' = "done"
    BY <1>3, <2>1, StatusCases
  <2> QED
    BY <1>1, <2>2 DEF Inside
<1>13. ASSUME Char
       PROVE  FirstInv'
  <2>1. /\ pc = "char" /\ Inside /\ UNCHANGED <<call, clock, startingtime>>
        /\ cur \in Links /\ cur \in fdmask
    BY <1>2, <1>13, CharReads DEF Char, Inside, AInv
  <2>2. ~StatusReturns(-1) /\ ~StatusReturns(cur)
    BY <1>1, <1>3, <2>1, StatusCases DEF Inside
  <2>3. CASE UNCHANGED <<pc, present, fdmask, timeout, deadline, ret, result>>
    BY <1>4, <2>1, <2>3
  <2>4. CASE /\ fdmask' = fdmask \ {cur} /\ pc' = "select"
             /\ timeout' = (IF timeout = Forever THEN Forever ELSE
                    si_max(0, timeout - Second * (Seconds(clock) - startingtime)))
             /\ deadline' = (IF timeout = Forever THEN Forever ELSE clock + timeout')
    <3>1. /\ startingtime = 0 /\ clock <= deadline /\ deadline - call.from < Limit + Second
          /\ timeout <= Limit /\ Limit \in Nat /\ call.ms # Forever
      BY <1>2, <1>3, <2>1 DEF FirstInv
    <3>2. /\ timeout' \in Nat /\ deadline' = clock + timeout'
          /\ \/ timeout' = 0
             \/ \E lag \in 0 .. Second - 1 : deadline' = timeout + lag
          /\ \E lag \in 0 .. Second - 1 : deadline' >= timeout + lag
      BY <2>1, <2>4, <3>1, EndMovesDeadline
    <3>3. clock <= deadline' /\ deadline' - call.from < Limit + Second
      <4>1. clock \in Nat /\ call.from \in Nat /\ Second \in Nat /\ timeout \in Int
        BY <1>2
      <4>2. CASE timeout' = 0
        BY <1>2, <3>1, <3>2, <4>1, <4>2
      <4>3. CASE timeout' # 0
        <5>1. PICK lag \in 0 .. Second - 1 : deadline' = timeout + lag
          BY <3>2, <4>3
        <5>2. lag \in Int /\ lag < Second
          BY <4>1, <5>1
        <5>3. clock <= deadline'
          <6>1. timeout' \in Nat /\ deadline' = clock + timeout'
            BY <3>2
          <6>2. \A a, b \in Nat : a <= a + b
            OBVIOUS
          <6>3. clock \in Nat
            BY <1>2
          <6> QED
            BY <6>1, <6>2, <6>3
        <5>4. timeout <= Limit /\ Limit \in Nat
          BY <3>1
        <5>5. deadline' - call.from < Limit + Second
          BY <4>1, <5>1, <5>2, <5>4
        <5> QED
          BY <5>3, <5>5
      <4> QED
        BY <4>2, <4>3
    <3>4. fdmask' # Links
      BY <2>1, <2>4
    <3>5. ASSUME NEW i \in Links, Links \ {i} \subseteq fdmask'
          PROVE  deadline' - call.from > Limit - Second
      <4>1. i = cur
        BY <2>1, <2>4, <3>5
      <4>2. fdmask = Links
        BY <1>2, <2>1, <2>4, <3>5, <4>1
      <4>3. timeout = Limit
        BY <1>2, <1>3, <2>1, <4>2 DEF FirstInv
      <4>4. PICK lag \in 0 .. Second - 1 : deadline' >= timeout + lag
        BY <3>2
      <4>5. /\ lag \in Nat /\ call.from \in Int /\ call.from < Second /\ deadline' \in Int
            /\ Second \in Nat
        BY <1>2, <3>2, <4>4
      <4> QED
        BY <3>1, <4>3, <4>4, <4>5
    <3> QED
      BY <1>3, <2>1, <2>4, <3>1, <3>3, <3>4, <3>5 DEF FirstInv
  <2> QED
    BY <1>13, <2>2, <2>3, <2>4 DEF Char
<1> QED
  BY <1>5, <1>6, <1>7, <1>8, <1>9, <1>10, <1>11, <1>12, <1>13 DEF Next, Waiting

\* waitall: a step that leaves its variables alone keeps its limit, even if a
\* link ends, which then counts as a turn.
LEMMA StillWaiting ==
  ASSUME TInv, [Next]_vars, Inside, pc # "scan", pc' \in {"select", "char"},
         UNCHANGED <<call, clock, present, fdmask, deadline>>
  PROVE  AllInv'
<1>1. SUFFICES ASSUME call.ms # Forever, call.op = "all"
               PROVE  AllInv'
  BY DEF AllInv
<1>2. /\ clock \in Nat /\ call.from \in Int /\ deadline \in Int /\ Limit \in Nat /\ Limit' = Limit
      /\ fdmask \subseteq Links /\ fdmask \subseteq present
      /\ clock <= deadline /\ deadline - call.from <= (Turns + 1) * Limit
      /\ (\E i \in fdmask : Ended(i)) => Elapsed <= Turns * Limit
  BY <1>1, TimeTypes, Positive DEF TInv, TimeInv, AllInv, AInv, AnswersInv, Limit
<1>3. /\ Turns \in Nat /\ Turns' \in Nat /\ Turns <= Turns'
      /\ \A i \in Lasting : i \notin Lasting' => Turns + 1 <= Turns'
  <2>1. AInv /\ pc # "read" /\ present' \subseteq present
    BY DEF TInv, Inside
  <2> QED
    BY <2>1, TurnsGrow
<1>4. PICK k \in Nat, l \in Nat : k = Turns /\ l = Turns' /\ k <= l
  BY <1>3
<1>5. k + 1 \in Nat /\ l + 1 \in Nat /\ k + 1 <= l + 1 /\ k <= l
  <2>1. k <= l
    BY <1>4
  <2> QED
    BY <2>1
<1>6. /\ k * Limit \in Int /\ l * Limit \in Int /\ (k + 1) * Limit \in Int /\ (l + 1) * Limit \in Int
      /\ k * Limit <= l * Limit /\ (k + 1) * Limit <= (l + 1) * Limit
      /\ k + 1 <= l => (k + 1) * Limit <= l * Limit
  <2>1. \A a, b \in Nat : a <= b => a * Limit <= b * Limit /\ a * Limit \in Int /\ b * Limit \in Int
    BY <1>2, Products
  <2>2. k <= l /\ k + 1 <= l + 1 /\ k + 1 \in Nat /\ l + 1 \in Nat
    BY <1>5
  <2> QED
    BY <2>1, <2>2
<1>7. deadline' - call'.from <= (Turns' + 1) * Limit'
  BY <1>2, <1>4, <1>5, <1>6
<1>8. ASSUME NEW i \in fdmask', Ended(i)'
      PROVE  Elapsed' <= Turns' * Limit'
  <2>1. Elapsed' = clock - call.from /\ Elapsed = clock - call.from
    BY DEF Elapsed
  <2>2. CASE Ended(i)
    BY <1>2, <1>4, <1>5, <1>6, <1>8, <2>1, <2>2
  <2>3. CASE ~Ended(i)
    <3>1. i \in Lasting /\ i \notin Lasting'
      BY <1>2, <1>8, <2>3 DEF Lasting
    <3>2. k + 1 <= l
      BY <1>3, <1>4, <1>5, <3>1
    <3> QED
      BY <1>2, <1>4, <1>5, <1>6, <2>1, <3>2
  <2> QED
    BY <2>2, <2>3
<1> QED
  BY <1>2, <1>7, <1>8 DEF AllInv

\* The limits grow with the turns.
LEMMA TurnsLimit ==
  ASSUME NEW T \in Nat, NEW k \in Nat, NEW l \in Nat, k <= l
  PROVE  /\ k * T \in Nat /\ l * T \in Nat /\ (k + 1) * T \in Nat /\ (l + 1) * T \in Nat
         /\ k * T <= l * T /\ (k + 1) * T <= (l + 1) * T
         /\ (k + 1) * T = k * T + T /\ (l + 1) * T = l * T + T
         /\ k + 1 <= l => (k + 1) * T <= l * T
<1>1. \A a, b \in Nat : a * T \in Nat /\ (a <= b => a * T <= b * T)
  BY Products
<1>2. k + 1 \in Nat /\ l + 1 \in Nat /\ k + 1 <= l + 1
  OBVIOUS
<1>3. (k + 1) * T = k * T + T /\ (l + 1) * T = l * T + T
  BY Products
<1> QED
  BY <1>1, <1>2, <1>3

\* waitall goes on without the link that has answered: one turn more.
LEMMA DropTakesTurn ==
  ASSUME TInv, [Next]_vars, Inside, NEW i \in present, HasAnswer(i), StatusReturns(i),
         UNCHANGED <<call, clock>>, call.ms # Forever, call.op = "all", Inside'
  PROVE  AllInv'
<1>1. /\ AInv /\ i \in Links /\ i \in Lasting
      /\ clock \in Nat /\ call.from \in Int /\ deadline \in Int /\ Limit \in Nat /\ Limit' = Limit
  BY TimeTypes, Positive DEF TInv, Lasting, Ended, Limit
<1>2. pc' = "scan" /\ present' = present \ {i}
  BY <1>1, StatusCases DEF Inside
<1>3. i \notin Lasting'
  BY <1>2 DEF Lasting
<1>4. /\ Turns \in Nat /\ Turns' \in Nat /\ Turns <= Turns' /\ Turns + 1 <= Turns'
  BY <1>1, <1>2, <1>3, TurnsGrow DEF Inside
<1>5. PICK k \in Nat, l \in Nat : k = Turns /\ l = Turns' /\ k <= l /\ k + 1 <= l
  BY <1>4
<1>6. k <= l /\ k + 1 <= l
  BY <1>5
<1>7. k * Limit <= l * Limit /\ (k + 1) * Limit <= l * Limit
      /\ k * Limit \in Nat /\ l * Limit \in Nat /\ (k + 1) * Limit \in Nat
  BY <1>1, <1>6, TurnsLimit
<1>8. clock - call.from <= k * Limit \/ (clock <= deadline /\ deadline - call.from <= (k + 1) * Limit)
  BY <1>5 DEF TInv, TimeInv, AllInv, Elapsed
<1>9. clock - call.from <= l * Limit
  BY <1>1, <1>7, <1>8
<1>10. Elapsed' <= Turns' * Limit'
  BY <1>1, <1>5, <1>9 DEF Elapsed
<1> QED
  BY <1>2, <1>10 DEF AllInv

\* waitall: every step keeps its limit.
LEMMA AllKept ==
  ASSUME NoOverflow, TInv, [Next]_vars
  PROVE  AllInv'
<1>1. SUFFICES ASSUME Inside', call'.ms # Forever, call'.op = "all"
               PROVE  AllInv'
  BY DEF AllInv
<1>2. /\ AInv /\ BaseInv /\ clock \in Nat /\ call.from \in Int /\ call.from <= clock
      /\ deadline \in Int /\ startingtime \in Int /\ timeout \in Int
      /\ present \subseteq Links /\ fdmask \subseteq Links
      /\ AllInv
  BY TimeTypes, Positive DEF TInv, TimeInv, AInv
<1>3. ASSUME Inside, call' = call
      PROVE  /\ call.op = "all" /\ call.ms # Forever /\ Limit' = Limit /\ Limit \in Nat
             /\ timeout <= Limit /\ timeout >= 0 /\ timeout # Forever
  BY <1>1, <1>2, <1>3, TimeTypes DEF Limit, TInv, TimeInv
<1>4. ASSUME Inside, present' \subseteq present
      PROVE  \E k, l \in Nat : k = Turns /\ l = Turns' /\ k <= l
  BY <1>2, <1>4, TurnsGrow DEF Inside
<1>5. ASSUME Inside, UNCHANGED <<pc, call, present, fdmask, deadline, clock>>
      PROVE  AllInv'
  <2>1. CASE pc = "scan"
    <3>1. PICK k \in Nat, l \in Nat : k = Turns /\ l = Turns' /\ k <= l
      BY <1>4, <1>5
    <3>2. k <= l
      BY <3>1
    <3>3. /\ k * Limit <= l * Limit /\ k * Limit \in Nat /\ l * Limit \in Nat
      BY <1>3, <1>5, <3>2, TurnsLimit
    <3>4. clock - call.from <= k * Limit
      BY <1>2, <1>3, <1>5, <2>1, <3>1 DEF AllInv, Elapsed
    <3>5. clock - call.from <= l * Limit
      BY <1>2, <3>3, <3>4
    <3>6. Elapsed' <= Turns' * Limit'
      BY <1>3, <1>5, <3>1, <3>5 DEF Elapsed
    <3> QED
      BY <1>5, <2>1, <3>6 DEF AllInv
  <2>2. CASE pc # "scan"
    BY <1>5, <2>2, StillWaiting DEF Inside
  <2> QED
    BY <2>1, <2>2
<1>6. ASSUME NEW i \in Links, AnswerArrives(i) \/ PeerCloses(i)
      PROVE  AllInv'
  BY <1>1, <1>5, <1>6 DEF AnswerArrives, PeerCloses, local, Inside
<1>7. ASSUME UNCHANGED vars
      PROVE  AllInv'
  BY <1>1, <1>5, <1>7 DEF vars, local, Inside
<1>8. ASSUME Tick
      PROVE  AllInv'
  <2>1. /\ pc = "select" /\ clock < deadline /\ clock' = clock + 1 /\ Inside /\ ReadableIn(fdmask) = {}
        /\ UNCHANGED <<pipe, closed, F, pc, call, present, fdmask, deadline>>
    BY <1>2, <1>8 DEF Tick, InSelect, Expired, Inside, local, others
  <2>2. \A i \in Links : Ended(i)' <=> Ended(i)
    BY <2>1 DEF Ended, HasAnswer, Unread
  <2>3. Lasting' = Lasting
    BY <1>2, <2>1, <2>2 DEF Lasting
  <2>4. Turns' = Turns
    BY <2>3 DEF Turns
  <2>5. ~\E i \in fdmask : Ended(i)'
    BY <1>2, <2>1, <2>2 DEF ReadableIn, Readable, Ended
  <2>6. deadline - call.from <= (Turns + 1) * Limit
    BY <1>2, <1>3, <2>1 DEF AllInv
  <2>7. deadline' - call'.from <= (Turns' + 1) * Limit'
    BY <1>3, <2>1, <2>4, <2>6
  <2> QED
    BY <1>2, <2>1, <2>5, <2>7 DEF AllInv
<1>9. ASSUME \/ \E i \in Links : StartRead(i)
             \/ ReadByte \/ CallerGoesOn
      PROVE  FALSE
  BY <1>1, <1>9 DEF StartRead, ReadByte, CallerGoesOn, Inside
<1>10. ASSUME NEW op \in Calls, NEW ms \in Timeouts, Call(op, ms)
      PROVE  AllInv'
  <2>1. pc' = "scan" /\ Limit' \in Nat /\ clock' = call'.from /\ clock' \in Nat /\ present' = Links
    BY <1>1, <1>10, CallLimit
  <2>2. PICK T \in Nat : T = Limit'
    BY <2>1
  <2>3. Turns' \in Nat
    <3>1. Lasting' \subseteq Links
      BY <2>1 DEF Lasting
    <3>2. Cardinality(Lasting') \in Nat /\ Cardinality(Lasting') <= Cardinality(Links)
      BY <3>1, LinksFinite, FS_Subset, FS_CardinalityType
    <3>3. Turns' = Cardinality(Links) - Cardinality(Lasting')
      BY DEF Turns
    <3> QED
      BY <3>2, <3>3, LinksFinite
  <2>4. PICK l \in Nat : l = Turns'
    BY <2>3
  <2>5. l * T \in Nat
    BY Products
  <2>6. Elapsed' = 0
    BY <2>1 DEF Elapsed
  <2>7. 0 <= l * T
    BY <2>5
  <2>8. Elapsed' <= Turns' * Limit'
    BY <2>2, <2>4, <2>6, <2>7
  <2> QED
    BY <2>1, <2>8 DEF AllInv
<1>11. ASSUME Scan
       PROVE  AllInv'
  <2> DEFINE ready == {i \in present : s_isready(F[i])}
  <2>1. /\ UNCHANGED <<call, clock>> /\ fdmask' = present /\ Inside /\ pc = "scan"
        /\ deadline' = IF timeout = Forever THEN Forever ELSE clock + timeout
    BY <1>11 DEF Scan, Inside
  <2>2. CASE ready # {}
    <3>1. ready \in SUBSET Links
      BY <1>2
    <3>2. Max(ready) \in ready
      BY <2>2, <3>1, ReadyMax
    <3>3. Max(ready) \in present /\ Max(ready) \in Links /\ s_isready(F[Max(ready)])
      BY <3>1, <3>2
    <3>4. StatusReturns(Max(ready))
      BY <1>11, <2>2 DEF Scan
    <3>5. HasAnswer(Max(ready))
      BY <1>2, <3>3, ReadyAnswers
    <3> HIDE DEF ready
    <3> QED
      BY <1>1, <1>3, <2>1, <3>3, <3>4, <3>5, DropTakesTurn
  <2>3. CASE ready = {}
    <3>1. pc' = "select" /\ present' = present
      BY <1>11, <2>3 DEF Scan
    <3>2. PICK k \in Nat, l \in Nat : k = Turns /\ l = Turns' /\ k <= l
      BY <1>4, <2>1, <3>1
    <3>3. k <= l
      BY <3>2
    <3>4. /\ k * Limit <= l * Limit /\ k * Limit \in Nat /\ l * Limit \in Nat
          /\ (l + 1) * Limit = l * Limit + Limit
      BY <1>3, <2>1, <3>3, TurnsLimit
    <3>5. clock - call.from <= k * Limit
      BY <1>2, <1>3, <2>1, <3>2 DEF AllInv, Elapsed
    <3>6. deadline' = clock + timeout /\ timeout <= Limit /\ Limit \in Nat /\ timeout >= 0
      BY <1>3, <2>1
    <3>7. /\ clock <= deadline' /\ clock - call.from <= l * Limit
          /\ deadline' - call.from <= (l + 1) * Limit
      <4>1. PICK d \in Int : d = clock + timeout
        BY <1>2
      <4>2. clock <= d /\ d - call.from <= l * Limit + Limit /\ clock - call.from <= l * Limit
        BY <1>2, <3>4, <3>5, <3>6, <4>1
      <4> QED
        BY <3>4, <3>6, <4>1, <4>2
    <3>8. clock' <= deadline' /\ Elapsed' <= Turns' * Limit' /\ deadline' - call'.from <= (Turns' + 1) * Limit'
      BY <1>3, <2>1, <3>2, <3>7 DEF Elapsed
    <3> QED
      BY <3>1, <3>8 DEF AllInv
  <2> QED
    BY <2>2, <2>3
<1>12. ASSUME SelectReady
       PROVE  AllInv'
  <2>1. /\ pc = "select" /\ pc' = "char" /\ Inside
        /\ UNCHANGED <<call, present, fdmask, deadline, clock>>
    BY <1>12 DEF SelectReady, Inside
  <2> QED
    BY <2>1, StillWaiting
<1>13. ASSUME SelectTimeout
       PROVE  FALSE
  <2>1. Inside /\ call' = call /\ \E i \in {-2, 0} : StatusReturns(i)
    BY <1>13 DEF SelectTimeout, Inside
  <2>2. pc' = "done"
    BY <2>1, StatusCases, LinksFinite
  <2> QED
    BY <1>1, <2>2 DEF Inside
<1>14. ASSUME Char
       PROVE  AllInv'
  <2>1. /\ pc = "char" /\ Inside /\ UNCHANGED <<call, clock>>
        /\ cur \in Links /\ cur \in fdmask /\ cur \in present
    BY <1>2, <1>14, CharReads DEF Char, Inside, AInv, AnswersInv
  <2>2. CASE UNCHANGED <<pc, present, fdmask, timeout, deadline, ret, result>>
    BY <1>5, <2>1, <2>2
  <2>3. CASE StatusReturns(-1)
    <3>1. pc' = "done"
      BY <1>3, <2>1, <2>3, StatusCases, LinksFinite
    <3> QED
      BY <1>1, <3>1 DEF Inside
  <2>4. CASE Got(F[cur], pipe[cur]) \in Digits /\ StatusReturns(cur)
    <3>1. HasAnswer(cur)
      BY <1>2, <1>14, <2>4, CharAnswers
    <3> QED
      BY <1>1, <1>3, <2>1, <2>4, <3>1, DropTakesTurn
  <2>5. CASE /\ Got(F[cur], pipe[cur]) = "EOF" /\ pc' = "select" /\ present' = present
             /\ fdmask' = fdmask \ {cur}
             /\ timeout' = (IF timeout = Forever THEN Forever ELSE
                    si_max(0, timeout - Second * (Seconds(clock) - startingtime)))
             /\ deadline' = (IF timeout = Forever THEN Forever ELSE clock + timeout')
    <3>1. Ended(cur)
      BY <1>2, <1>14, <2>5, CharAnswers
    <3>2. PICK k \in Nat, l \in Nat : k = Turns /\ l = Turns' /\ k <= l
      BY <1>4, <2>1, <2>5
    <3>3. k <= l
      BY <3>2
    <3>4. /\ k * Limit <= l * Limit /\ k * Limit \in Nat /\ l * Limit \in Nat
          /\ (l + 1) * Limit = l * Limit + Limit
      BY <1>3, <2>1, <3>3, TurnsLimit
    <3>5. clock - call.from <= k * Limit
      BY <1>2, <1>3, <2>1, <3>1, <3>2 DEF AllInv, Elapsed
    <3>6. timeout' \in Nat /\ timeout' <= timeout /\ deadline' = clock + timeout' /\ call.ms # Forever
      BY <1>3, <2>1, <2>5, EndMovesDeadline
    <3>7. /\ clock <= deadline' /\ clock - call.from <= l * Limit
          /\ deadline' - call.from <= (l + 1) * Limit
      <4>1. PICK t \in Nat : t = timeout'
        BY <3>6
      <4>2. t <= timeout
        BY <3>6, <4>1
      <4>3. timeout <= Limit /\ Limit \in Nat
        BY <1>3, <2>1
      <4>4. PICK d \in Int : d = clock + t
        BY <1>2
      <4>5. clock <= d /\ d - call.from <= l * Limit + Limit /\ clock - call.from <= l * Limit
        BY <1>2, <3>4, <3>5, <4>2, <4>3, <4>4
      <4> QED
        BY <3>4, <3>6, <4>1, <4>4, <4>5
    <3>8. clock' <= deadline' /\ Elapsed' <= Turns' * Limit' /\ deadline' - call'.from <= (Turns' + 1) * Limit'
      BY <1>3, <2>1, <3>2, <3>7 DEF Elapsed
    <3> QED
      BY <2>5, <3>8 DEF AllInv
  <2> QED
    BY <1>14, <2>2, <2>3, <2>4, <2>5 DEF Char
<1> QED
  BY <1>6, <1>7, <1>8, <1>9, <1>10, <1>11, <1>12, <1>13, <1>14 DEF Next, Waiting

\* How long the wait has taken and can take, in every state.
THEOREM TimeInvariance == NoOverflow => (Spec => []TInv)
<1> SUFFICES ASSUME NoOverflow
             PROVE  Spec => []TInv
  OBVIOUS
<1>1. Init => TimeInv
  BY DEF TimeInv, FirstInv, AllInv, Inside, Init
<1>2. TInv /\ [Next]_vars => TimeInv'
  BY TimeoutKeepsTimes, FirstKept, AllKept DEF TimeInv
<1> QED
  BY <1>1, <1>2, AnswersInvariance, PTL DEF Spec, TInv

\* waitfirst ends less than a second after its timeout, and less than a second
\* before it unless two links have ended; waitall takes its timeout at most
\* once for every link (WaitsInTime).
THEOREM TimesCorrect == NoOverflow => (Spec => WaitsInTime)
<1> SUFFICES ASSUME NoOverflow
             PROVE  Spec => WaitsInTime
  OBVIOUS
<1>1. ASSUME TInv, [Next]_vars, Returns, call.ms # Forever
      PROVE  /\ call.op = "first" => Elapsed < Limit + Second
             /\ call.op = "first" /\ result' = 0 /\ (\E i \in Links : Links \ {i} \subseteq fdmask)
                  => Elapsed > Limit - Second
             /\ call.op = "all" => Elapsed <= Cardinality(Links) * Limit
  <2>1. /\ AInv /\ BaseInv /\ Inside /\ clock \in Nat /\ call.from \in Int
        /\ deadline \in Int /\ Limit \in Nat /\ Second \in Nat \ {0}
        /\ present \subseteq Links /\ fdmask \subseteq Links /\ timeout >= 0 /\ timeout \in Int
        /\ FirstInv /\ AllInv
    BY <1>1, TimeTypes, Positive DEF TInv, TimeInv, AInv, Returns, Inside
  <2>2. ASSUME call.op = "first"
        PROVE  Elapsed < Limit + Second
    BY <1>1, <2>1, <2>2 DEF FirstInv, Elapsed
  <2>3. ASSUME call.op = "first", result' = 0, NEW i \in Links, Links \ {i} \subseteq fdmask
        PROVE  Elapsed > Limit - Second
    <3>1. SelectTimeout
      <4>1. ASSUME NEW k \in Links, StatusReturns(k)
            PROVE  FALSE
        BY <2>3, <4>1, StatusCases, LinksFinite
      <4>2. ~StatusReturns(-1)
        BY <2>3, StatusCases
      <4>3. ~Scan
        <5> DEFINE ready == {k \in present : s_isready(F[k])}
        <5>1. ready \in SUBSET Links
          BY <2>1
        <5>2. ready # {} => Max(ready) \in Links
          BY <5>1, ReadyMax
        <5> QED
          BY <1>1, <4>1, <5>2 DEF Scan, Returns
      <4>4. ~Char
        <5>1. Char => cur \in Links
          BY <2>1, CharReads
        <5>2. Char => pc' = "char" \/ pc' = "select"
          BY <4>1, <4>2, <5>1 DEF Char
        <5> QED
          BY <1>1, <5>2 DEF Returns
      <4> QED
        BY <1>1, <4>3, <4>4 DEF Next, Waiting, AnswerArrives, PeerCloses, StartRead, Call, Tick,
           SelectReady, ReadByte, CallerGoesOn, Returns, vars
    <3>2. pc = "select" /\ Expired
      <4>1. ~StatusReturns(-2)
        BY <2>3, StatusCases
      <4> QED
        BY <3>1, <4>1 DEF SelectTimeout
    <3>3. clock >= deadline /\ deadline - call.from > Limit - Second
      BY <1>1, <2>1, <2>3, <3>2 DEF Expired, FirstInv
    <3> QED
      BY <2>1, <3>3 DEF Elapsed
  <2>4. ASSUME call.op = "all"
        PROVE  Elapsed <= Cardinality(Links) * Limit
    <3>1. Turns \in Nat /\ Turns <= Cardinality(Links)
          /\ (Lasting # {} => Turns + 1 <= Cardinality(Links))
      BY <2>1, TurnsCounted
    <3>2. PICK k \in Nat : k = Turns
      BY <3>1
    <3>3. PICK n \in Nat : n = Cardinality(Links)
      BY LinksFinite
    <3>4. k <= n /\ (Lasting # {} => k + 1 <= n)
      BY <3>1, <3>2, <3>3
    <3>5. /\ k * Limit \in Nat /\ n * Limit \in Nat /\ (k + 1) * Limit \in Nat /\ k * Limit <= n * Limit
          /\ (k + 1 <= n => (k + 1) * Limit <= n * Limit)
      BY <2>1, <3>4, TurnsLimit
    <3>6. CASE pc = "scan" \/ \E i \in fdmask : Ended(i)
      <4>1. clock - call.from <= k * Limit
        BY <1>1, <2>1, <2>4, <3>2, <3>6 DEF AllInv, Elapsed, Inside
      <4> QED
        BY <2>1, <3>3, <3>5, <4>1 DEF Elapsed
    <3>7. CASE pc # "scan" /\ ~\E i \in fdmask : Ended(i)
      <4>1. fdmask # {} /\ fdmask \subseteq present
        BY <2>1, <3>7 DEF AInv, AnswersInv
      <4>2. Lasting # {}
        BY <3>7, <4>1 DEF Lasting
      <4>3. clock <= deadline /\ deadline - call.from <= (k + 1) * Limit
        BY <1>1, <2>1, <2>4, <3>2, <3>7 DEF AllInv
      <4>4. clock - call.from <= n * Limit
        BY <2>1, <3>4, <3>5, <4>2, <4>3
      <4> QED
        BY <3>3, <4>4 DEF Elapsed
    <3> QED
      BY <3>6, <3>7
  <2> QED
    BY <2>2, <2>3, <2>4
<1>2. TInv /\ [Next]_vars =>
        [Returns /\ call.ms # Forever =>
           LET T == call.ms * Milli IN
           /\ call.op = "first" => Elapsed < T + Second
           /\ call.op = "first" /\ result' = 0 /\ (\E i \in Links : Links \ {i} \subseteq fdmask)
                => Elapsed > T - Second
           /\ call.op = "all" => Elapsed <= Cardinality(Links) * T]_vars
  BY <1>1 DEF Limit
<1> QED
  BY <1>2, TimeInvariance, PTL DEF Spec, WaitsInTime
=============================================================================
