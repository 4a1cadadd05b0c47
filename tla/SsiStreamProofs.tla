-------------------------- MODULE SsiStreamProofs --------------------------
(***************************************************************************)
(* Proofs about SsiStream, for every script of ints and strings, every     *)
(* length of the buffer and every way the bytes are cut: what the reader   *)
(* returns before it meets the end of the file is what was written.  As    *)
(* long as it has not met the end, what lies before it in the buffer, in   *)
(* the pipe and at the writer is the rest of the stream from where it is   *)
(* (InSync); behind the end, there is no digit any more (AtEnd).           *)
(***************************************************************************)
EXTENDS SsiStream, SequenceTheorems, WellFoundedInduction, TLAPS

\* A set of numbers that is not empty has a least element.
LEMMA LeastNat ==
  ASSUME NEW U \in SUBSET Nat, U # {}
  PROVE  \E m \in U : \A u \in U : m <= u
<1>1. IsWellFoundedOn(OpToRel(<, Nat), Nat) /\ U \subseteq Nat /\ U # {}
  BY NatLessThanWellFounded
<1>2. PICK m \in U : \A u \in U : ~(<<u, m>> \in OpToRel(<, Nat))
  BY <1>1, WFMin
<1>3. ASSUME NEW u \in U, u < m
      PROVE  FALSE
  <2>1. <<u, m>> \in Nat \X Nat /\ <<u, m>>[1] < <<u, m>>[2]
    BY <1>3
  <2>2. <<u, m>> \in OpToRel(<, Nat)
    BY <2>1 DEF OpToRel
  <2> QED
    BY <1>2, <2>2
<1> QED
  BY <1>3

-----------------------------------------------------------------------------
(* Loops                                                                   *)

\* A loop of n rounds has a run: R[i] is what round i does, G[i] what holds behind it.
Keeps(n, R, G) == \A i \in 1 .. n : \A x \in G[i - 1] : R[i][x] \in G[i]

Runs(n, a, R, G, f) ==
  /\ f[0] = a /\ \A i \in 1 .. n : f[i] = R[i][f[i - 1]]
  /\ \A i \in 0 .. n : f[i] \in G[i]

\* Each round of a loop takes what held before it to what holds behind it: then the
\* loop has a run.  (The quotients of a number and the items of the stream are runs of this kind.)
LEMMA LoopRuns ==
  ASSUME NEW n \in Nat, NEW G, NEW a, NEW R, a \in G[0], Keeps(n, R, G)
  PROVE  \E f : Runs(n, a, R, G, f)
<1> USE DEF Runs
<1> DEFINE U == {m \in 0 .. n : ~ \E f : Runs(m, a, R, G, f)}
<1>1. SUFFICES ASSUME U # {} PROVE FALSE
  <2>1. U = {} => n \notin U
    OBVIOUS
  <2>2. n \notin U => \E f : Runs(n, a, R, G, f)
    OBVIOUS
  <2> QED
    BY <2>1, <2>2
<1>2. PICK m \in U : \A u \in U : m <= u
  <2>1. U \in SUBSET Nat
    OBVIOUS
  <2> HIDE DEF U
  <2> QED
    BY <1>1, <2>1, LeastNat
<1>3. m \in 0 .. n /\ ~ \E f : Runs(m, a, R, G, f)
  BY <1>2
<1>4. CASE m = 0
  <2> DEFINE f == [i \in 0 .. 0 |-> a]
  <2>1. Runs(0, a, R, G, f)
    OBVIOUS
  <2> QED
    BY <1>3, <1>4, <2>1
<1>5. CASE m # 0
  <2>1. m - 1 \in 0 .. n /\ m \in 1 .. n
    BY <1>3, <1>5
  <2>2. m - 1 \notin U
    <3>1. ~(m <= m - 1)
      BY <1>3
    <3> HIDE DEF U
    <3> QED
      BY <1>2, <3>1
  <2>3. PICK f : Runs(m - 1, a, R, G, f)
    BY <2>1, <2>2
  <2> DEFINE g == [i \in 0 .. m |-> IF i = m THEN R[m][f[m - 1]] ELSE f[i]]
  <2>4. g[0] = a /\ a \in G[0]
    BY <2>1, <2>3
  <2>5. ASSUME NEW i \in 1 .. m
        PROVE  g[i] = R[i][g[i - 1]] /\ g[i] \in G[i]
    <3>1. CASE i = m
      <4>1. g[i] = R[m][f[m - 1]]
        BY <2>1, <3>1
      <4>2. g[m - 1] = f[m - 1]
        BY <2>1
      <4>3. f[m - 1] \in G[m - 1]
        BY <2>1, <2>3
      <4> QED
        BY <2>1, <3>1, <4>1, <4>2, <4>3 DEF Keeps
    <3>2. CASE i # m
      <4>1. i \in 0 .. m - 1 /\ i \in 1 .. m - 1 /\ g[i] = f[i]
        BY <2>1, <3>2
      <4>2. f[i] = R[i][f[i - 1]] /\ f[i] \in G[i]
        BY <2>3, <4>1
      <4>3. g[i - 1] = f[i - 1]
        BY <2>1, <3>2
      <4> QED
        BY <4>1, <4>2, <4>3
    <3> QED
      BY <3>1, <3>2
  <2>6. \A i \in 0 .. m : i = 0 \/ i \in 1 .. m
    BY <2>1
  <2> HIDE DEF g
  <2>7. Runs(m, a, R, G, g)
    BY <2>4, <2>5, <2>6
  <2> QED
    BY <1>3, <2>7
<1> QED
  BY <1>4, <1>5

\* And what holds in the beginning and after each round holds in the end.
LEMMA LoopInvariant ==
  ASSUME NEW n \in Nat, NEW G, NEW f, f[0] \in G[0],
         \A i \in 1 .. n : f[i - 1] \in G[i - 1] => f[i] \in G[i]
  PROVE  \A i \in 0 .. n : f[i] \in G[i]
<1> DEFINE U == {m \in 0 .. n : f[m] \notin G[m]}
<1>1. SUFFICES ASSUME U # {} PROVE FALSE
  OBVIOUS
<1>2. PICK m \in U : \A u \in U : m <= u
  <2>1. U \in SUBSET Nat
    OBVIOUS
  <2> HIDE DEF U
  <2> QED
    BY <1>1, <2>1, LeastNat
<1>3. m \in 1 .. n
  BY <1>2
<1>4. m - 1 \in 0 .. n /\ ~(m <= m - 1)
  BY <1>3
<1>5. f[m - 1] \in G[m - 1]
  BY <1>2, <1>4
<1>6. f[m] \in G[m]
  BY <1>3, <1>5
<1> QED
  BY <1>2, <1>6

-----------------------------------------------------------------------------
(* Numbers                                                                 *)

\* The ten digits, and c - '0'.
LEMMA DigitIs ==
  ASSUME NEW v \in 0 .. 9
  PROVE  /\ Digit[v + 1] \in Digits /\ ValueOf[Digit[v + 1]] = v
         /\ Digit[v + 1] # "-" /\ Digit[v + 1] \notin White
<1>1. /\ Digit[1] = "0" /\ Digit[2] = "1" /\ Digit[3] = "2" /\ Digit[4] = "3" /\ Digit[5] = "4"
      /\ Digit[6] = "5" /\ Digit[7] = "6" /\ Digit[8] = "7" /\ Digit[9] = "8" /\ Digit[10] = "9"
  BY DEF Digit
<1> HIDE DEF Digit
<1>2. \/ v = 0 \/ v = 1 \/ v = 2 \/ v = 3 \/ v = 4 \/ v = 5 \/ v = 6 \/ v = 7 \/ v = 8 \/ v = 9
  OBVIOUS
<1>3. Digit[v + 1] \in Digits /\ Digit[v + 1] # "-" /\ Digit[v + 1] \notin White
  <2>1. Digit[v + 1] \in Digits
    <3>1. /\ Digit[0 + 1] \in Digits /\ Digit[1 + 1] \in Digits /\ Digit[2 + 1] \in Digits
          /\ Digit[3 + 1] \in Digits /\ Digit[4 + 1] \in Digits /\ Digit[5 + 1] \in Digits
          /\ Digit[6 + 1] \in Digits /\ Digit[7 + 1] \in Digits /\ Digit[8 + 1] \in Digits
          /\ Digit[9 + 1] \in Digits
      BY <1>1 DEF Digits
    <3> QED
      BY <1>2, <3>1
  <2>2. \A c \in Digits : c # "-" /\ c \notin White
    BY DEF Digits, White
  <2> QED
    BY <2>1, <2>2
<1>4. ASSUME NEW w \in 0 .. 9, Digit[w + 1] = Digit[v + 1]
      PROVE  w = v
  <2>1. \/ w = 0 \/ w = 1 \/ w = 2 \/ w = 3 \/ w = 4 \/ w = 5 \/ w = 6 \/ w = 7 \/ w = 8 \/ w = 9
    OBVIOUS
  <2> QED
    BY <1>1, <1>2, <1>4, <2>1
<1>5. (CHOOSE w \in 0 .. 9 : Digit[w + 1] = Digit[v + 1]) = v
  BY <1>4
<1> QED
  BY <1>3, <1>5 DEF ValueOf

\* Quotients(n) divides by ten again and again.
LEMMA QuotientsIs ==
  ASSUME NEW n \in Nat
  PROVE  /\ Quotients(n)[0] = n
         /\ \A i \in 1 .. n + 1 : Quotients(n)[i] = Quotients(n)[i - 1] \div 10
         /\ \A i \in 0 .. n + 1 : Quotients(n)[i] \in 0 .. n
         /\ Quotients(n)[n + 1] = 0
<1> DEFINE m == n + 1
           G == [i \in 0 .. m |-> 0 .. (IF i <= n THEN n - i ELSE 0)]
           F1 == [i \in 1 .. m |-> [x \in Nat |-> x \div 10]]
           Body(f) == [i \in 0 .. m |-> IF i = 0 THEN n ELSE f[i - 1] \div 10]
           q == CHOOSE f : f = Body(f)
<1>1. m \in Nat /\ m = n + 1
  OBVIOUS
<1>2. n \in G[0]
  BY <1>1
<1>3. ASSUME NEW i \in 1 .. m, NEW x \in G[i - 1]
      PROVE  x \in Nat /\ x \div 10 \in G[i] /\ F1[i][x] = x \div 10
  <2>1. i \in 0 .. m /\ i - 1 \in 0 .. m /\ i - 1 <= n
    BY <1>1
  <2>2. x \in 0 .. n - (i - 1)
    BY <2>1
  <2>3. x \in Nat /\ x \div 10 \in Nat
    BY <1>1, <2>2
  <2>4. (x = 0 => x \div 10 = 0) /\ (x # 0 => x \div 10 <= x - 1)
    BY <2>3
  <2>5. x \div 10 <= IF i <= n THEN n - i ELSE 0
    BY <1>1, <2>1, <2>2, <2>3, <2>4
  <2>6. G[i] = 0 .. (IF i <= n THEN n - i ELSE 0)
    BY <2>1
  <2>7. x \div 10 \in G[i]
    BY <1>1, <2>3, <2>5, <2>6
  <2> QED
    BY <2>3, <2>7
<1>4. Keeps(m, F1, G)
  BY <1>3 DEF Keeps
<1>5. \E f : f = Body(f)
  <2> HIDE DEF G, F1, m
  <2>1. PICK f : Runs(m, n, F1, G, f)
    BY <1>1, <1>2, <1>4, LoopRuns
  <2> DEFINE g == [i \in 0 .. m |-> f[i]]
  <2>2. ASSUME NEW i \in 0 .. m
        PROVE  g[i] = IF i = 0 THEN n ELSE g[i - 1] \div 10
    <3>1. CASE i = 0
      BY <2>1, <3>1 DEF Runs
    <3>2. CASE i # 0
      <4>1. i \in 1 .. m /\ i - 1 \in 0 .. m
        BY <1>1, <3>2
      <4>2. f[i - 1] \in G[i - 1] /\ f[i] = F1[i][f[i - 1]]
        BY <2>1, <4>1 DEF Runs
      <4>3. g[i] = g[i - 1] \div 10
        BY <1>3, <4>1, <4>2
      <4> QED
        BY <3>2, <4>3
    <3> QED
      BY <3>1, <3>2
  <2>3. g = [i \in 0 .. m |-> g[i]]
    OBVIOUS
  <2> HIDE DEF g
  <2>4. g = Body(g)
    BY <2>2, <2>3
  <2> QED
    BY <2>4
<1>6. q = Body(q)
  <2> HIDE DEF Body
  <2> QED
    BY <1>5
<1>7. q = Quotients(n)
  BY DEF Quotients
<1> HIDE DEF q
<1>8. q[0] = n /\ \A i \in 1 .. m : q[i] = q[i - 1] \div 10
  <2>1. \A i \in 0 .. m : q[i] = IF i = 0 THEN n ELSE q[i - 1] \div 10
    BY <1>6
  <2>2. 0 \in 0 .. m /\ \A i \in 1 .. m : i \in 0 .. m /\ i # 0
    BY <1>1
  <2> QED
    BY <2>1, <2>2
<1>9. \A i \in 0 .. m : q[i] \in G[i]
  <2>1. q[0] \in G[0]
    BY <1>2, <1>8
  <2>2. \A i \in 1 .. m : q[i - 1] \in G[i - 1] => q[i] \in G[i]
    BY <1>3, <1>8
  <2> HIDE DEF G
  <2> QED
    BY <1>1, <2>1, <2>2, LoopInvariant
<1>10. \A i \in 0 .. m : q[i] \in 0 .. n
  <2>1. \A i \in 0 .. m : G[i] \subseteq 0 .. n
    BY <1>1
  <2> HIDE DEF G
  <2> QED
    BY <1>9, <2>1
<1>11. q[m] = 0
  <2>1. m \in 0 .. m /\ ~(m <= n)
    BY <1>1
  <2>2. G[m] = 0 .. 0
    BY <2>1
  <2>3. q[m] \in 0 .. 0
    BY <1>9, <2>1, <2>2
  <2> QED
    BY <2>3
<1> QED
  BY <1>7, <1>8, <1>10, <1>11

\* What s_readint makes of the first k digits d of a number: h[k].
Read(d, h, n) ==
  /\ d \in Seq(Digits) /\ Len(d) >= 1
  /\ h[0] = 0 /\ h[Len(d)] = n
  /\ \A k \in 1 .. Len(d) : h[k] = h[k - 1] * 10 + ValueOf[d[k]]
  /\ \A k \in 0 .. Len(d) : h[k] \in 0 .. n

\* The digits of a number are read as the number.
LEMMA DecimalIs ==
  ASSUME NEW n \in Nat
  PROVE  \E h : Read(Decimal(n), h, n)
<1> DEFINE q == Quotients(n)
           L == DigitCount(n)
           h == [k \in 0 .. L |-> q[L - k]]
           d == Decimal(n)
<1>1. /\ q[0] = n /\ \A i \in 1 .. n + 1 : q[i] = q[i - 1] \div 10
      /\ \A i \in 0 .. n + 1 : q[i] \in 0 .. n
      /\ q[n + 1] = 0
  BY QuotientsIs
<1> HIDE DEF q
<1>2. L \in 1 .. n + 1 /\ q[L] = 0
  <2> DEFINE U == {l \in 1 .. n + 1 : q[l] = 0}
  <2>1. n + 1 \in U /\ U \in SUBSET Nat
    BY <1>1
  <2>2. PICK l \in U : \A u \in U : l <= u
    <3> HIDE DEF U
    <3> QED
      BY <2>1, LeastNat
  <2>3. l \in 1 .. n + 1 /\ q[l] = 0
    BY <2>2
  <2>4. \A i \in 1 .. l - 1 : q[i] # 0
    <3>1. SUFFICES ASSUME NEW i \in 1 .. l - 1, q[i] = 0 PROVE FALSE
      OBVIOUS
    <3>2. i \in U /\ ~(l <= i)
      BY <2>3, <3>1
    <3> QED
      BY <2>2, <3>2
  <2> QED
    BY <2>3, <2>4 DEF DigitCount, q
<1> HIDE DEF L
<1>3. \A k \in 1 .. L : d[k] = Digit[(q[L - k] % 10) + 1]
  BY DEF Decimal, L, q
<1>4. d = [k \in 1 .. L |-> d[k]]
  BY DEF Decimal, L
<1> HIDE DEF d
<1>5. ASSUME NEW k \in 1 .. L
      PROVE  /\ d[k] \in Digits
             /\ h[k] = h[k - 1] * 10 + ValueOf[d[k]]
  <2>1. L - k \in 0 .. n + 1 /\ L - (k - 1) \in 1 .. n + 1 /\ (L - (k - 1)) - 1 = L - k
    BY <1>2
  <2>2. q[L - k] \in Nat /\ q[L - (k - 1)] = q[L - k] \div 10
    BY <1>1, <2>1
  <2> DEFINE x == q[L - k]
             v == x % 10
  <2>3. x \in Nat
    BY <2>2
  <2> HIDE DEF x
  <2>4. v \in 0 .. 9 /\ x = (x \div 10) * 10 + v
    BY <2>3
  <2>5. d[k] \in Digits /\ ValueOf[d[k]] = v
    <3>1. d[k] = Digit[v + 1]
      BY <1>3 DEF x
    <3> HIDE DEF v
    <3> QED
      BY <2>4, <3>1, DigitIs
  <2>6. k \in 0 .. L /\ k - 1 \in 0 .. L
    BY <1>2
  <2>7. h[k] = x /\ h[k - 1] = x \div 10
    BY <2>2, <2>6 DEF x
  <2> QED
    BY <2>4, <2>5, <2>7
<1>6. d \in Seq(Digits) /\ Len(d) = L /\ L >= 1
  <2>1. d \in [1 .. L -> Digits]
    BY <1>4, <1>5
  <2>2. L \in Nat /\ L >= 1
    BY <1>2
  <2> QED
    BY <2>1, <2>2
<1>7. h[0] = 0 /\ h[L] = n
  BY <1>1, <1>2
<1>8. \A k \in 0 .. L : h[k] \in 0 .. n
  BY <1>1, <1>2
<1> HIDE DEF h
<1>9. Read(d, h, n)
  BY <1>5, <1>6, <1>7, <1>8 DEF Read
<1> QED
  BY <1>9 DEF d

-----------------------------------------------------------------------------
(* Sequences                                                               *)

\* What is left of s behind its first j elements, and then t.
Ahead(s, j, t) == SubSeq(s, j + 1, Len(s)) \o t

\* x begins with the element a, and goes on with s.
Begins(x, a, s) == x = <<a>> \o s

\* It begins with the next element of s, or with t.
LEMMA AheadIs ==
  ASSUME NEW U, NEW s \in Seq(U), NEW t \in Seq(U), NEW j \in 0 .. Len(s)
  PROVE  /\ Ahead(s, j, t) \in Seq(U)
         /\ j = 0 => Ahead(s, j, t) = s \o t
         /\ j = Len(s) => Ahead(s, j, t) = t
         /\ j < Len(s) => Begins(Ahead(s, j, t), s[j + 1], Ahead(s, j + 1, t))
<1>1. Len(s) \in Nat /\ j \in Nat /\ j <= Len(s)
  OBVIOUS
<1>2. SubSeq(s, j + 1, Len(s)) \in Seq(U)
  <2>1. \A i \in j + 1 .. Len(s) : s[i] \in U
    BY <1>1
  <2>2. j + 1 \in Int /\ Len(s) \in Int
    BY <1>1
  <2> QED
    BY <2>1, <2>2, SubSeqProperties
<1>3. Ahead(s, j, t) \in Seq(U)
  BY <1>2, ConcatProperties DEF Ahead
<1>4. ASSUME j = 0
      PROVE  Ahead(s, j, t) = s \o t
  <2>1. SubSeq(s, 1, Len(s)) = s
    BY SubSeqFull
  <2>2. j + 1 = 1
    BY <1>4
  <2> QED
    BY <2>1, <2>2, Zenon DEF Ahead
<1>5. ASSUME j = Len(s)
      PROVE  Ahead(s, j, t) = t
  <2>1. SubSeq(s, j + 1, Len(s)) = <<>>
    <3>1. j + 1 \in Int /\ Len(s) \in Int /\ Len(s) < j + 1
      BY <1>1, <1>5
    <3> QED
      BY <3>1, SubSeqEmpty
  <2>2. Ahead(s, j, t) = <<>> \o t
    BY <2>1, Zenon DEF Ahead
  <2>3. <<>> \o t = t
    BY ConcatEmptySeq
  <2> QED
    BY <2>2, <2>3
<1>6. ASSUME j < Len(s)
      PROVE  Begins(Ahead(s, j, t), s[j + 1], Ahead(s, j + 1, t))
  <2>1. SubSeq(s, j + 1, Len(s)) = <<s[j + 1]>> \o SubSeq(s, (j + 1) + 1, Len(s))
    <3>1. j + 1 \in 1 .. Len(s) /\ Len(s) \in j + 1 .. Len(s)
      BY <1>1, <1>6
    <3> QED
      BY <3>1, SubSeqRecursiveFirst
  <2>2. SubSeq(s, (j + 1) + 1, Len(s)) \in Seq(U) /\ <<s[j + 1]>> \in Seq(U)
    <3>1. \A i \in (j + 1) + 1 .. Len(s) : s[i] \in U
      BY <1>1
    <3>2. (j + 1) + 1 \in Int /\ Len(s) \in Int /\ s[j + 1] \in U
      BY <1>1, <1>6
    <3> QED
      BY <3>1, <3>2, SubSeqProperties
  <2> DEFINE x == <<s[j + 1]>>
             y == SubSeq(s, (j + 1) + 1, Len(s))
  <2>3. Ahead(s, j, t) = (x \o y) \o t /\ Ahead(s, j + 1, t) = y \o t
    BY <2>1, Zenon DEF Ahead
  <2>4. x \in Seq(U) /\ y \in Seq(U)
    BY <2>2
  <2> HIDE DEF x, y
  <2>5. (x \o y) \o t = x \o (y \o t)
    BY <2>4, ConcatAssociative
  <2>6. Ahead(s, j, t) = x \o Ahead(s, j + 1, t)
    BY <2>3, <2>5, Zenon
  <2> QED
    BY <2>6, Zenon DEF Begins, x
<1> QED
  BY <1>3, <1>4, <1>5, <1>6

\* Two sequences are equal only if they begin alike and go on alike.
LEMMA SameHead ==
  ASSUME NEW U, NEW a \in U, NEW b \in U, NEW s \in Seq(U), NEW t \in Seq(U),
         <<a>> \o s = <<b>> \o t
  PROVE  a = b /\ s = t
<1>1. <<a>> \in Seq(U) /\ <<b>> \in Seq(U) /\ Len(<<a>>) = 1 /\ Len(<<b>>) = 1
  OBVIOUS
<1>2. a = b
  <2>1. \A c \in U, u \in Seq(U) : (<<c>> \o u)[1] = c
    <3> TAKE c \in U, u \in Seq(U)
    <3> DEFINE x == <<c>>
    <3>1. x \in Seq(U) /\ Len(x) = 1 /\ x[1] = c
      OBVIOUS
    <3> HIDE DEF x
    <3>2. (x \o u)[1] = x[1]
      <4>1. Len(x) + Len(u) \in Nat \ {0} /\ 1 \in 1 .. Len(x) + Len(u)
        BY <3>1
      <4> QED
        BY <3>1, <4>1, ConcatProperties
    <3> QED
      BY <3>1, <3>2 DEF x
  <2>2. (<<a>> \o s)[1] = a /\ (<<b>> \o t)[1] = b
    BY <2>1
  <2> QED
    BY <2>2
<1> QED
  BY <1>1, <1>2, ConcatSimplifications

-----------------------------------------------------------------------------
(* What the reader does with the text of a number                          *)

Partial(n) == CHOOSE h : Read(Decimal(n), h, n)

\* The number and the sign after j bytes of the text of n.
Reads(n, j, m, sign) ==
  IF n < 0 THEN IF j = 0 THEN m = 0 /\ sign = 1
                ELSE m = Partial(-n)[j - 1] /\ sign = -1
  ELSE m = Partial(n)[j] /\ sign = 1

\* One more byte c of the text.
Goes(n, j, c) ==
  /\ c \in Digits \union {"-"}
  /\ c = "-" => n < 0 /\ j = 0
  /\ \A m, sign : Reads(n, j, m, sign) =>
       IF c = "-" THEN Reads(n, j + 1, m, -1)
       ELSE Reads(n, j + 1, m * 10 + ValueOf[c], sign)

\* The text of a number is read as the number, which never leaves the range of int.
LEMMA TextIs ==
  ASSUME NEW n \in -IntMax .. IntMax
  PROVE  /\ Text(n) \in Seq(Digits \union {"-"}) /\ Len(Text(n)) >= 1
         /\ Reads(n, 0, 0, 1)
         /\ \A j \in 0 .. Len(Text(n)) - 1 : Goes(n, j, Text(n)[j + 1])
         /\ \A m, sign : Reads(n, Len(Text(n)), m, sign) => m * sign = n
         /\ \A j \in 0 .. Len(Text(n)) : \A m, sign :
              Reads(n, j, m, sign) => m \in 0 .. IntMax /\ sign \in {1, -1}
<1>1. IntMax \in Nat /\ n \in Int /\ -IntMax <= n /\ n <= IntMax
  BY ScriptAssumption
<1>2. ASSUME NEW m \in Nat
      PROVE  Read(Decimal(m), Partial(m), m)
  BY DecimalIs DEF Partial
<1>3. "-" \notin Digits
  BY DEF Digits
<1>4. CASE n >= 0
  <2> DEFINE d == Decimal(n)
             h == Partial(n)
  <2>1. /\ d \in Seq(Digits) /\ Len(d) \in Nat /\ Len(d) >= 1
        /\ h[0] = 0 /\ h[Len(d)] = n
        /\ \A k \in 1 .. Len(d) : h[k] = h[k - 1] * 10 + ValueOf[d[k]]
        /\ \A k \in 0 .. Len(d) : h[k] \in 0 .. n
    <3>1. n \in Nat
      BY <1>1, <1>4
    <3>2. Read(d, h, n)
      BY <1>2, <3>1
    <3> HIDE DEF d, h
    <3>3. d \in Seq(Digits)
      BY <3>2 DEF Read
    <3>4. Len(d) \in Nat
      BY <3>3
    <3> QED
      BY <3>2, <3>4 DEF Read
  <2>2. Text(n) = d /\ \A j, m, sign : Reads(n, j, m, sign) <=> m = h[j] /\ sign = 1
    BY <1>1, <1>4 DEF Text, Reads
  <2> HIDE DEF d, h
  <2>3. d \in Seq(Digits \union {"-"})
    BY <2>1
  <2>4. ASSUME NEW j \in 0 .. Len(d) - 1
        PROVE  Goes(n, j, d[j + 1])
    <3>1. j + 1 \in 1 .. Len(d) /\ (j + 1) - 1 = j
      BY <2>1
    <3>2. d[j + 1] \in Digits /\ h[j + 1] = h[j] * 10 + ValueOf[d[j + 1]]
      BY <2>1, <3>1
    <3>3. d[j + 1] # "-"
      BY <1>3, <3>2
    <3>4. \A m, sign : Reads(n, j, m, sign) => Reads(n, j + 1, m * 10 + ValueOf[d[j + 1]], sign)
      BY <2>2, <3>2, Zenon
    <3> QED
      BY <3>2, <3>3, <3>4 DEF Goes
  <2>5. \A m, sign : Reads(n, Len(d), m, sign) => m * sign = n
    BY <1>1, <2>1, <2>2
  <2>6. \A j \in 0 .. Len(d) : \A m, sign : Reads(n, j, m, sign) => m \in 0 .. IntMax /\ sign \in {1, -1}
    <3>1. \A x \in 0 .. n : x \in 0 .. IntMax
      BY <1>1
    <3>2. \A j \in 0 .. Len(d) : h[j] \in 0 .. IntMax
      BY <2>1, <3>1
    <3> QED
      BY <2>2, <3>2
  <2>7. Reads(n, 0, 0, 1)
    BY <2>1, <2>2
  <2> QED
    BY <2>1, <2>2, <2>3, <2>4, <2>5, <2>6, <2>7
<1>5. CASE n < 0
  <2> DEFINE d == Decimal(-n)
             h == Partial(-n)
             t == <<"-">> \o d
  <2>1. /\ d \in Seq(Digits) /\ Len(d) \in Nat /\ Len(d) >= 1
        /\ h[0] = 0 /\ h[Len(d)] = -n
        /\ \A k \in 1 .. Len(d) : h[k] = h[k - 1] * 10 + ValueOf[d[k]]
        /\ \A k \in 0 .. Len(d) : h[k] \in 0 .. -n
    <3>1. -n \in Nat
      BY <1>1, <1>5
    <3>2. Read(d, h, -n)
      BY <1>2, <3>1
    <3> HIDE DEF d, h
    <3>3. d \in Seq(Digits)
      BY <3>2 DEF Read
    <3>4. Len(d) \in Nat
      BY <3>3
    <3> QED
      BY <3>2, <3>4 DEF Read
  <2>2. /\ Text(n) = t
        /\ \A m, sign : Reads(n, 0, m, sign) <=> m = 0 /\ sign = 1
        /\ \A j \in Nat \ {0} : \A m, sign : Reads(n, j, m, sign) <=> m = h[j - 1] /\ sign = -1
    BY <1>1, <1>5 DEF Text, Reads
  <2> HIDE DEF d, h
  <2>3. /\ t \in Seq(Digits \union {"-"}) /\ Len(t) = Len(d) + 1
        /\ t[1] = "-" /\ \A k \in 1 .. Len(d) : t[k + 1] = d[k]
    <3>1. <<"-">> \in Seq(Digits \union {"-"}) /\ d \in Seq(Digits \union {"-"}) /\ Len(<<"-">>) = 1
      BY <2>1
    <3>2. /\ t \in Seq(Digits \union {"-"}) /\ Len(t) = Len(<<"-">>) + Len(d)
          /\ \A i \in 1 .. Len(<<"-">>) + Len(d) :
               t[i] = IF i <= Len(<<"-">>) THEN <<"-">>[i] ELSE d[i - Len(<<"-">>)]
      <4> HIDE DEF t
      <4> QED
        BY <3>1, ConcatProperties DEF t
    <3> HIDE DEF t
    <3>3. t[1] = "-"
      BY <2>1, <3>1, <3>2
    <3>4. \A k \in 1 .. Len(d) : t[k + 1] = d[k]
      BY <2>1, <3>1, <3>2
    <3>5. Len(t) = Len(d) + 1
      BY <2>1, <3>1, <3>2
    <3> QED
      BY <3>2, <3>3, <3>4, <3>5
  <2> HIDE DEF t
  <2>4. ASSUME NEW j \in 0 .. Len(t) - 1
        PROVE  Goes(n, j, t[j + 1])
    <3>1. CASE j = 0
      <4>1. t[j + 1] = "-"
        BY <2>3, <3>1
      <4>2. \A m, sign : Reads(n, j, m, sign) => Reads(n, j + 1, m, -1)
        <5>1. j + 1 \in Nat \ {0} /\ (j + 1) - 1 = 0
          BY <3>1
        <5>2. \A m : Reads(n, j + 1, m, -1) <=> m = 0
          BY <2>1, <2>2, <5>1
        <5> QED
          BY <2>2, <3>1, <5>2, Zenon
      <4> QED
        BY <1>5, <3>1, <4>1, <4>2 DEF Goes
    <3>2. CASE j # 0
      <4>1. j \in 1 .. Len(d) /\ j \in Nat \ {0} /\ j + 1 \in Nat \ {0} /\ (j + 1) - 1 = j
        BY <2>1, <2>3, <3>2
      <4>2. t[j + 1] = d[j] /\ d[j] \in Digits /\ h[j] = h[j - 1] * 10 + ValueOf[d[j]]
        BY <2>1, <2>3, <4>1
      <4>3. t[j + 1] # "-" /\ t[j + 1] \in Digits
        BY <1>3, <4>2
      <4>4. /\ \A m, sign : Reads(n, j, m, sign) <=> m = h[j - 1] /\ sign = -1
            /\ \A m, sign : Reads(n, j + 1, m, sign) <=> m = h[j] /\ sign = -1
        BY <2>2, <4>1
      <4>5. \A m, sign : Reads(n, j, m, sign) => Reads(n, j + 1, m * 10 + ValueOf[t[j + 1]], sign)
        BY <4>2, <4>4, Zenon
      <4> QED
        BY <4>3, <4>5 DEF Goes
    <3> QED
      BY <3>1, <3>2
  <2>5. Len(t) \in Nat \ {0} /\ Len(t) - 1 = Len(d)
    BY <2>1, <2>3
  <2>6. \A m, sign : Reads(n, Len(t), m, sign) => m * sign = n
    <3>1. \A m, sign : Reads(n, Len(t), m, sign) => m = -n /\ sign = -1
      BY <2>1, <2>2, <2>5
    <3> QED
      BY <1>1, <3>1
  <2>7. ASSUME NEW j \in 0 .. Len(t), NEW m, NEW sign, Reads(n, j, m, sign)
        PROVE  m \in 0 .. IntMax /\ sign \in {1, -1}
    <3>1. CASE j = 0
      BY <1>1, <2>2, <2>7, <3>1
    <3>2. CASE j # 0
      <4>1. j \in Nat \ {0} /\ j - 1 \in 0 .. Len(d)
        BY <2>5, <3>2
      <4>2. m = h[j - 1] /\ sign = -1
        BY <2>2, <2>7, <4>1
      <4>3. h[j - 1] \in 0 .. -n
        BY <2>1, <4>1
      <4> QED
        BY <1>1, <4>2, <4>3
    <3> QED
      BY <3>1, <3>2
  <2>8. Reads(n, 0, 0, 1)
    BY <2>2
  <2>9. Len(t) >= 1
    BY <2>5
  <2> QED
    BY <2>2, <2>3, <2>4, <2>6, <2>7, <2>8, <2>9
<1> QED
  BY <1>1, <1>4, <1>5

-----------------------------------------------------------------------------
(* The same for bytes                                                      *)

\* Sequences of bytes joined.
LEMMA Joined ==
  /\ \A x, y \in Seq(Byte) : x \o y \in Seq(Byte)
  /\ \A x, y, z \in Seq(Byte) : (x \o y) \o z = x \o (y \o z)
<1> DEFINE B == Byte
<1> HIDE DEF B
<1>1. \A x, y \in Seq(B) : x \o y \in Seq(B)
  BY ConcatProperties
<1>2. ASSUME NEW x \in Seq(B), NEW y \in Seq(B), NEW z \in Seq(B)
      PROVE  (x \o y) \o z = x \o (y \o z)
  BY ConcatAssociative
<1> QED
  BY <1>1, <1>2 DEF B

\* A sequence of bytes begins with one byte and goes on in one way.
LEMMA OneHead ==
  \A x : \A a, b \in Byte : \A s, t \in Seq(Byte) : Begins(x, a, s) /\ Begins(x, b, t) => a = b /\ s = t
<1> DEFINE B == Byte
<1> HIDE DEF B
<1>1. ASSUME NEW x, NEW a \in B, NEW b \in B, NEW s \in Seq(B), NEW t \in Seq(B),
             Begins(x, a, s), Begins(x, b, t)
      PROVE  a = b /\ s = t
  <2>1. <<a>> \o s = <<b>> \o t
    BY <1>1, Zenon DEF Begins
  <2> QED
    BY <2>1, SameHead
<1> QED
  BY <1>1, Zenon DEF B

\* What the bytes ahead begin with.
LEMMA BytesAhead ==
  \A s, t \in Seq(Byte) : \A j \in 0 .. Len(s) :
    /\ Ahead(s, j, t) \in Seq(Byte)
    /\ j = 0 => Ahead(s, j, t) = s \o t
    /\ j = Len(s) => Ahead(s, j, t) = t
    /\ j < Len(s) => Begins(Ahead(s, j, t), s[j + 1], Ahead(s, j + 1, t))
<1> DEFINE B == Byte
<1> HIDE DEF B
<1>1. ASSUME NEW s \in Seq(B), NEW t \in Seq(B), NEW j \in 0 .. Len(s)
      PROVE  /\ Ahead(s, j, t) \in Seq(B)
             /\ j = 0 => Ahead(s, j, t) = s \o t
             /\ j = Len(s) => Ahead(s, j, t) = t
             /\ j < Len(s) => Begins(Ahead(s, j, t), s[j + 1], Ahead(s, j + 1, t))
  <2>1. Ahead(s, j, t) \in Seq(B)
    BY AheadIs, Zenon
  <2>2. j = 0 => Ahead(s, j, t) = s \o t
    BY AheadIs, Zenon
  <2>3. j = Len(s) => Ahead(s, j, t) = t
    BY AheadIs, Zenon
  <2>4. j < Len(s) => Begins(Ahead(s, j, t), s[j + 1], Ahead(s, j + 1, t))
    BY AheadIs, Zenon
  <2> QED
    BY <2>1, <2>2, <2>3, <2>4, Zenon
<1> QED
  BY <1>1, Zenon DEF B

-----------------------------------------------------------------------------
(* What s_getc and s_ungetc do                                             *)

\* The bytes of the buffer that have not been handed out, and all that are ahead:
\* those, the pipe and what the writer has.
Unread(G) == [k \in 1 .. G.end - G.bp |-> G.buff[G.bp + k]]
Bytes(G, P, T) == Unread(G) \o (P \o T)

\* At the end of the file there is nothing but a (char)-1 put back.
AtEnd(G, P, closed) ==
  G.is_eof => P = <<>> /\ closed /\ \A p \in G.bp + 1 .. G.end : G.buff[p] = "EOF"

Sound(G) == G \in Buffers /\ G.bp <= G.end

\* H, Q and c are the buffer and the pipe after s_getc, and what it returns.
WellRead(G, P, T, closed, H, Q, c) ==
  /\ Sound(H) /\ H.bp >= 0 /\ Q \in Seq(Byte) /\ c \in Byte
  /\ AtEnd(H, Q, closed)
  /\ H.is_eof => c = "EOF"
  /\ G.is_eof => H.is_eof
  /\ ~H.is_eof => Begins(Bytes(G, P, T), c, Bytes(H, Q, T))

\* The fields of a buffer.
LEMMA BufferIs ==
  ASSUME NEW G \in Buffers
  PROVE  /\ G.buff \in [0 .. BuffLen - 1 -> Byte] /\ G.bp \in -1 .. BuffLen - 1
         /\ G.end \in 0 .. BuffLen - 1 /\ G.is_eof \in BOOLEAN /\ BuffLen \in Nat \ {0}
         /\ Unread(G) \in Seq(Byte)
         /\ Len(Unread(G)) = IF G.bp < G.end THEN G.end - G.bp ELSE 0
         /\ \A k \in 1 .. G.end - G.bp : Unread(G)[k] = G.buff[G.bp + k]
<1>1. /\ G.buff \in [0 .. BuffLen - 1 -> Byte] /\ G.bp \in -1 .. BuffLen - 1
      /\ G.end \in 0 .. BuffLen - 1 /\ G.is_eof \in BOOLEAN /\ BuffLen \in Nat \ {0}
  BY BuffLenAssumption DEF Buffers
<1>2. Unread(G) \in [1 .. G.end - G.bp -> Byte]
  <2>1. ASSUME NEW k \in 1 .. G.end - G.bp
        PROVE  G.buff[G.bp + k] \in Byte
    <3>1. G.bp + k \in 0 .. BuffLen - 1
      BY <1>1
    <3> QED
      BY <1>1, <3>1
  <2> QED
    BY <2>1 DEF Unread
<1>3. \A k \in 1 .. G.end - G.bp : Unread(G)[k] = G.buff[G.bp + k]
  BY DEF Unread
<1>4. CASE G.bp < G.end
  <2>1. G.end - G.bp \in Nat
    BY <1>1, <1>4
  <2>2. Unread(G) \in Seq(Byte) /\ Len(Unread(G)) = G.end - G.bp
    BY <1>2, <2>1
  <2> QED
    BY <1>1, <1>3, <1>4, <2>2
<1>5. CASE ~(G.bp < G.end)
  <2>1. 1 .. G.end - G.bp = 1 .. 0
    BY <1>1, <1>5
  <2>2. Unread(G) \in [1 .. 0 -> Byte] /\ 0 \in Nat
    BY <1>2, <2>1
  <2>3. Unread(G) \in Seq(Byte) /\ Len(Unread(G)) = 0
    BY <2>2
  <2> QED
    BY <1>1, <1>3, <1>5, <2>3
<1> QED
  BY <1>4, <1>5

\* One byte less ahead in the buffer.
LEMMA OneLess ==
  ASSUME NEW G \in Buffers, NEW H \in Buffers, NEW P \in Seq(Byte), NEW T \in Seq(Byte),
         H.buff = G.buff, H.end = G.end, H.bp = G.bp + 1, G.bp < G.end
  PROVE  /\ G.buff[H.bp] \in Byte
         /\ Bytes(G, P, T) = <<G.buff[H.bp]>> \o Bytes(H, P, T)
<1> DEFINE u == Unread(G)
           v == Unread(H)
           c == G.buff[H.bp]
           w == <<c>> \o v
           x == <<c>>
<1>1. /\ u \in Seq(Byte) /\ Len(u) = G.end - G.bp
      /\ \A k \in 1 .. G.end - G.bp : u[k] = G.buff[G.bp + k]
      /\ v \in Seq(Byte) /\ Len(v) = G.end - G.bp - 1
      /\ \A k \in 1 .. G.end - H.bp : v[k] = G.buff[H.bp + k]
      /\ G.bp \in Int /\ G.end \in Int /\ H.bp \in 0 .. BuffLen - 1
  <2>1. /\ u \in Seq(Byte) /\ Len(u) = G.end - G.bp
        /\ \A k \in 1 .. G.end - G.bp : u[k] = G.buff[G.bp + k]
    BY BufferIs
  <2>2. /\ v \in Seq(Byte) /\ Len(v) = IF H.bp < H.end THEN H.end - H.bp ELSE 0
        /\ \A k \in 1 .. H.end - H.bp : v[k] = H.buff[H.bp + k]
    BY BufferIs
  <2>3. G.bp \in -1 .. BuffLen - 1 /\ G.end \in 0 .. BuffLen - 1 /\ BuffLen \in Nat
    BY BufferIs
  <2> HIDE DEF u, v
  <2>4. Len(v) = G.end - G.bp - 1
    BY <2>2, <2>3
  <2>5. H.bp \in 0 .. BuffLen - 1
    BY <2>3
  <2> QED
    BY <2>1, <2>2, <2>3, <2>4, <2>5
<1>2. c \in Byte
  BY <1>1, BufferIs
<1>3. x \in Seq(Byte) /\ Len(x) = 1 /\ x[1] = c
  BY <1>2
<1>10. w = x \o v
  OBVIOUS
<1> HIDE DEF u, v, c, w, x
<1>4. /\ w \in Seq(Byte) /\ Len(w) = 1 + Len(v)
      /\ \A i \in 1 .. 1 + Len(v) : w[i] = IF i <= 1 THEN x[i] ELSE v[i - 1]
  <2>1. x \in Seq(Byte) /\ v \in Seq(Byte)
    BY <1>1, <1>3
  <2>2. /\ x \o v \in Seq(Byte) /\ Len(x \o v) = Len(x) + Len(v)
        /\ \A i \in 1 .. Len(x) + Len(v) : (x \o v)[i] = IF i <= Len(x) THEN x[i] ELSE v[i - Len(x)]
    BY <2>1, ConcatProperties
  <2> QED
    BY <1>3, <1>10, <2>2, Zenon
<1>5. u = w
  <2>1. Len(u) = Len(w)
    BY <1>1, <1>4
  <2>2. ASSUME NEW i \in 1 .. Len(u)
        PROVE  u[i] = w[i]
    <3>1. CASE i = 1
      <4>1. u[1] = G.buff[G.bp + 1] /\ w[1] = x[1]
        BY <1>1, <1>4
      <4> QED
        BY <1>3, <3>1, <4>1 DEF c
    <3>2. CASE i # 1
      <4>1. i - 1 \in 1 .. G.end - H.bp /\ H.bp + (i - 1) = G.bp + i /\ i \in 1 .. 1 + Len(v)
        <5>1. i \in Nat /\ 2 <= i /\ i <= G.end - G.bp
          BY <1>1, <3>2
        <5> DEFINE b == G.bp
                   e == G.end
                   hb == H.bp
                   lv == Len(v)
        <5>2. b \in Int /\ e \in Int /\ hb = b + 1 /\ lv = (e - b) - 1
          BY <1>1
        <5>3. i <= e - b
          BY <5>1
        <5> HIDE DEF b, e, hb, lv
        <5>4. i - 1 \in 1 .. e - hb /\ hb + (i - 1) = b + i /\ i \in 1 .. 1 + lv
          BY <5>1, <5>2, <5>3
        <5> QED
          BY <5>4 DEF b, e, hb, lv
      <4>2. ~(i <= 1) /\ i \in 1 .. G.end - G.bp
        BY <1>1, <3>2
      <4>3. w[i] = v[i - 1] /\ v[i - 1] = G.buff[H.bp + (i - 1)] /\ u[i] = G.buff[G.bp + i]
        BY <1>1, <1>4, <4>1, <4>2
      <4> QED
        BY <4>1, <4>3
    <3> QED
      BY <3>1, <3>2
  <2> QED
    BY <1>1, <1>4, <2>1, <2>2, SeqEqual
<1> DEFINE z == P \o T
<1>6. z \in Seq(Byte)
  BY ConcatProperties
<1> HIDE DEF z
<1>7. (x \o v) \o z = x \o (v \o z)
  <2>1. x \in Seq(Byte) /\ v \in Seq(Byte) /\ z \in Seq(Byte)
    BY <1>1, <1>3, <1>6
  <2>2. \A a, b, d \in Seq(Byte) : (a \o b) \o d = a \o (b \o d)
    BY ConcatAssociative
  <2> QED
    BY <2>1, <2>2, Zenon
<1>8. u \o z = x \o (v \o z)
  BY <1>5, <1>7, <1>10
<1> QED
  BY <1>2, <1>8 DEF Bytes, u, v, c, x, z

\* The next byte of the buffer.
LEMMA GetFromBuffer ==
  ASSUME NEW G, NEW P \in Seq(Byte), NEW T \in Seq(Byte), NEW closed \in BOOLEAN,
         Sound(G), AtEnd(G, P, closed), ~Exhausted(G)
  PROVE  WellRead(G, P, T, closed, s_getc(G, P), PipeAfter(G, P), Got(G, P))
<1> DEFINE H == [G EXCEPT !.bp = @ + 1]
           c == G.buff[G.bp + 1]
<1>1. /\ G \in Buffers /\ G.bp < G.end /\ BuffLen \in Nat \ {0}
      /\ G.buff \in [0 .. BuffLen - 1 -> Byte] /\ G.bp \in -1 .. BuffLen - 1
      /\ G.end \in 0 .. BuffLen - 1 /\ G.is_eof \in BOOLEAN
  BY BuffLenAssumption DEF Exhausted, Buffers, Sound
<1>2. /\ s_getc(G, P) = H /\ PipeAfter(G, P) = P
      /\ H.buff = G.buff /\ H.bp = G.bp + 1 /\ H.end = G.end /\ H.is_eof = G.is_eof
  BY <1>1 DEF s_getc, PipeAfter, Buffers
<1>3. Got(G, P) = c
  BY <1>2 DEF Got
<1>4. H \in Buffers /\ H.bp >= 0 /\ H.bp <= H.end
  BY <1>1, <1>2 DEF Buffers
<1> HIDE DEF H
<1>5. c \in Byte /\ Bytes(G, P, T) = <<c>> \o Bytes(H, P, T)
  BY <1>1, <1>2, <1>4, OneLess
<1>6. G.is_eof => c = "EOF"
  <2>1. G.bp + 1 \in G.bp + 1 .. G.end
    BY <1>1
  <2> QED
    BY <2>1 DEF AtEnd
<1> HIDE DEF c
<1>7. AtEnd(H, P, closed)
  <2>1. \A p \in H.bp + 1 .. H.end : p \in G.bp + 1 .. G.end
    BY <1>1, <1>2
  <2> QED
    BY <1>2, <2>1 DEF AtEnd
<1> QED
  BY <1>2, <1>3, <1>4, <1>5, <1>6, <1>7 DEF WellRead, Begins, Sound

\* The first byte that read(2) brings.
LEMMA GetFromPipe ==
  ASSUME NEW G, NEW P \in Seq(Byte), NEW T \in Seq(Byte), NEW closed \in BOOLEAN,
         Sound(G), AtEnd(G, P, closed), Exhausted(G), P # <<>>
  PROVE  WellRead(G, P, T, closed, s_getc(G, P), PipeAfter(G, P), Got(G, P))
<1> DEFINE n == Chunk(P)
           H == [G EXCEPT !.buff = [i \in 0 .. BuffLen - 1 |->
                                      IF i < n THEN P[i + 1] ELSE "NUL"],
                          !.end = n - 1, !.bp = 0]
           Q == SubSeq(P, n + 1, Len(P))
           c == P[1]
           v == SubSeq(P, 2, n)
<1>1. /\ G \in Buffers /\ G.bp >= G.end /\ BuffLen \in Nat \ {0}
      /\ G.buff \in [0 .. BuffLen - 1 -> Byte] /\ G.bp \in -1 .. BuffLen - 1
      /\ G.end \in 0 .. BuffLen - 1 /\ G.is_eof = FALSE
  BY BuffLenAssumption DEF Exhausted, Buffers, Sound, AtEnd
<1>2. Len(P) \in Nat \ {0} /\ \A k \in 1 .. Len(P) : P[k] \in Byte
  OBVIOUS
<1>3. n \in 1 .. BuffLen /\ n <= Len(P)
  BY <1>1, <1>2 DEF Chunk
<1>4. /\ s_getc(G, P) = H /\ PipeAfter(G, P) = Q
      /\ H.buff = [i \in 0 .. BuffLen - 1 |-> IF i < n THEN P[i + 1] ELSE "NUL"]
      /\ H.bp = 0 /\ H.end = n - 1 /\ H.is_eof = FALSE
  BY <1>1 DEF s_getc, PipeAfter, Buffers
<1> HIDE DEF n
<1>5. \A i \in 0 .. BuffLen - 1 : (IF i < n THEN P[i + 1] ELSE "NUL") \in Byte
  <2> TAKE i \in 0 .. BuffLen - 1
  <2>1. i < n => P[i + 1] \in Byte
    BY <1>2, <1>3
  <2>2. "NUL" \in Byte
    BY DEF Byte, White
  <2> QED
    BY <2>1, <2>2
<1>6. H \in Buffers
  <2>1. [i \in 0 .. BuffLen - 1 |-> IF i < n THEN P[i + 1] ELSE "NUL"] \in [0 .. BuffLen - 1 -> Byte]
    BY <1>5
  <2>2. n - 1 \in 0 .. BuffLen - 1 /\ 0 \in -1 .. BuffLen - 1
    BY <1>1, <1>3
  <2> QED
    BY <1>1, <2>1, <2>2 DEF Buffers
<1>7. H.bp = 0 /\ H.end = n - 1 /\ H.is_eof = FALSE /\ s_getc(G, P) = H /\ PipeAfter(G, P) = Q
  BY <1>4
<1>8. \A i \in 0 .. n - 1 : H.buff[i] = P[i + 1]
  BY <1>1, <1>3, <1>4
<1> HIDE DEF H
<1>9. H.buff[0] = c
  BY <1>3, <1>8
<1>10. Got(G, P) = c
  BY <1>7, <1>9 DEF Got
<1>11. c \in Byte
  BY <1>2
<1>12. Q \in Seq(Byte)
  <2>1. \A i \in n + 1 .. Len(P) : P[i] \in Byte
    BY <1>2, <1>3
  <2>2. n + 1 \in Int /\ Len(P) \in Int
    BY <1>2, <1>3
  <2> QED
    BY <2>1, <2>2, SubSeqProperties
<1>13. /\ v \in Seq(Byte) /\ Len(v) = n - 1
       /\ \A i \in 1 .. n - 1 : v[i] = P[i + 1]
  <2>1. \A i \in 2 .. n : P[i] \in Byte
    BY <1>2, <1>3
  <2>2. 2 \in Int /\ n \in Int
    BY <1>3
  <2>3. /\ v \in Seq(Byte) /\ Len(v) = IF 2 <= n THEN n - 2 + 1 ELSE 0
        /\ \A i \in 1 .. n - 2 + 1 : v[i] = P[2 + i - 1]
    BY <2>1, <2>2, SubSeqProperties
  <2> HIDE DEF v
  <2>4. Len(v) = n - 1
    BY <1>3, <2>3
  <2>5. \A i \in 1 .. n - 1 : i \in 1 .. n - 2 + 1 /\ 2 + i - 1 = i + 1
    BY <1>3
  <2> QED
    BY <2>3, <2>4, <2>5
<1>14. P = <<c>> \o (v \o Q)
  <2>1. SubSeq(P, 1, Len(P)) = P
    BY SubSeqFull
  <2>2. SubSeq(P, 1, Len(P)) = <<P[1]>> \o SubSeq(P, 1 + 1, Len(P))
    <3>1. 1 \in 1 .. Len(P) /\ Len(P) \in 1 .. Len(P)
      BY <1>2
    <3> QED
      BY <3>1, SubSeqRecursiveFirst
  <2>3. SubSeq(P, 2, n) \o SubSeq(P, n + 1, Len(P)) = SubSeq(P, 2, Len(P))
    <3>1. 2 \in 1 .. Len(P) + 1 /\ n \in 2 - 1 .. Len(P) /\ Len(P) \in n .. Len(P)
      BY <1>2, <1>3
    <3> QED
      BY <3>1, ConcatAdjacentSubSeq
  <2>4. 1 + 1 = 2
    OBVIOUS
  <2> QED
    BY <2>1, <2>2, <2>3, <2>4, Zenon
<1> HIDE DEF Q, c, v
<1>15. Unread(G) = <<>>
  <2>1. Unread(G) \in Seq(Byte) /\ Len(Unread(G)) = 0
    BY <1>1, BufferIs
  <2> QED
    BY <2>1
<1>16. Unread(H) = v
  <2>1. /\ Unread(H) \in Seq(Byte) /\ Len(Unread(H)) = IF H.bp < H.end THEN H.end - H.bp ELSE 0
        /\ \A k \in 1 .. H.end - H.bp : Unread(H)[k] = H.buff[H.bp + k]
    BY <1>6, BufferIs
  <2>2. Len(Unread(H)) = n - 1
    BY <1>3, <1>7, <2>1
  <2>3. ASSUME NEW k \in 1 .. n - 1
        PROVE  Unread(H)[k] = v[k]
    <3>1. k \in 1 .. H.end - H.bp /\ H.bp + k = k /\ k \in 0 .. n - 1
      BY <1>3, <1>7
    <3>2. Unread(H)[k] = H.buff[k] /\ H.buff[k] = P[k + 1]
      BY <1>8, <2>1, <3>1
    <3> QED
      BY <1>13, <3>2
  <2> QED
    BY <1>13, <2>1, <2>2, <2>3, SeqEqual
<1>17. Bytes(G, P, T) = <<c>> \o Bytes(H, Q, T)
  <2> DEFINE x == <<c>>
  <2>1. x \in Seq(Byte)
    BY <1>11
  <2> HIDE DEF x
  <2>2. P = x \o (v \o Q)
    BY <1>14 DEF x
  <2>3. v \o Q \in Seq(Byte) /\ P \o T \in Seq(Byte) /\ Q \o T \in Seq(Byte)
    BY <1>12, <1>13, ConcatProperties
  <2>4. (x \o (v \o Q)) \o T = x \o ((v \o Q) \o T)
    <3> DEFINE y == v \o Q
    <3>1. x \in Seq(Byte) /\ y \in Seq(Byte)
      BY <2>1, <2>3
    <3> HIDE DEF y
    <3>2. (x \o y) \o T = x \o (y \o T)
      BY <3>1, ConcatAssociative
    <3> QED
      BY <3>2 DEF y
  <2>5. (v \o Q) \o T = v \o (Q \o T)
    BY <1>12, <1>13, ConcatAssociative
  <2>6. P \o T = x \o (v \o (Q \o T))
    BY <2>2, <2>4, <2>5
  <2>7. <<>> \o (P \o T) = P \o T
    BY <2>3, ConcatEmptySeq
  <2> QED
    BY <1>15, <1>16, <2>6, <2>7 DEF Bytes, x
<1>18. Sound(H) /\ H.bp >= 0
  BY <1>3, <1>6, <1>7 DEF Sound
<1> QED
  BY <1>1, <1>7, <1>10, <1>11, <1>12, <1>17, <1>18 DEF WellRead, Begins, AtEnd

\* The end of the file.
LEMMA GetAtEnd ==
  ASSUME NEW G, NEW P \in Seq(Byte), NEW T \in Seq(Byte), NEW closed \in BOOLEAN,
         Sound(G), Exhausted(G), P = <<>>, closed
  PROVE  WellRead(G, P, T, closed, s_getc(G, P), PipeAfter(G, P), Got(G, P))
<1> DEFINE H == [G EXCEPT !.buff = Cleared, !.is_eof = TRUE]
<1>1. /\ G.bp = G.end /\ BuffLen \in Nat \ {0} /\ G \in Buffers
      /\ G.buff \in [0 .. BuffLen - 1 -> Byte] /\ G.bp \in -1 .. BuffLen - 1
      /\ G.end \in 0 .. BuffLen - 1 /\ G.is_eof \in BOOLEAN
  BY BuffLenAssumption DEF Exhausted, Buffers, Sound
<1>2. Chunk(P) = 0 /\ SubSeq(P, 1, Len(P)) = <<>>
  BY <1>1 DEF Chunk
<1>3. /\ s_getc(G, P) = H /\ PipeAfter(G, P) = <<>> /\ Got(G, P) = "EOF"
      /\ H.bp = G.bp /\ H.end = G.end /\ H.is_eof = TRUE
  BY <1>1, <1>2 DEF s_getc, PipeAfter, Got, Buffers
<1>4. Cleared \in [0 .. BuffLen - 1 -> Byte]
  BY DEF Cleared, Byte, White
<1>5. H \in Buffers
  BY <1>1, <1>4 DEF Buffers
<1> HIDE DEF H
<1>6. \A p \in H.bp + 1 .. H.end : H.buff[p] = "EOF"
  BY <1>1, <1>3
<1>7. H.bp >= 0 /\ H.bp <= H.end /\ "EOF" \in Byte /\ <<>> \in Seq(Byte)
  <2>1. "EOF" \in Byte
    BY DEF Byte, White
  <2> QED
    BY <1>1, <1>3, <2>1
<1> QED
  BY <1>3, <1>5, <1>6, <1>7 DEF WellRead, Sound, AtEnd

\* All a reader needs to know of s_getc.
LEMMA GetWorks ==
  ASSUME NEW G, NEW P \in Seq(Byte), NEW T \in Seq(Byte), NEW closed \in BOOLEAN,
         Sound(G), AtEnd(G, P, closed), CanGet(G, P, closed)
  PROVE  WellRead(G, P, T, closed, s_getc(G, P), PipeAfter(G, P), Got(G, P))
BY GetFromBuffer, GetFromPipe, GetAtEnd DEF CanGet, Readable

\* V is the buffer after s_ungetc, H the one before it: the bytes ahead are those of G again.
PutBack(G, P, T, closed, H, Q, V) ==
  /\ Sound(V) /\ V.is_eof = H.is_eof /\ AtEnd(V, Q, closed)
  /\ ~H.is_eof => Bytes(V, Q, T) = Bytes(G, P, T)

\* s_ungetc puts the byte ahead again.
LEMMA UngetWorks ==
  ASSUME NEW G, NEW P, NEW T \in Seq(Byte), NEW closed, NEW H, NEW Q, NEW c,
         WellRead(G, P, T, closed, H, Q, c)
  PROVE  PutBack(G, P, T, closed, H, Q, s_ungetc(c, H))
<1> DEFINE U == [H EXCEPT !.buff[H.bp] = c, !.bp = @ - 1]
           V == [U EXCEPT !.bp = @ + 1]
<1>1. /\ H \in Buffers /\ H.bp >= 0 /\ H.bp <= H.end /\ BuffLen \in Nat \ {0}
      /\ H.buff \in [0 .. BuffLen - 1 -> Byte] /\ H.bp \in 0 .. BuffLen - 1
      /\ H.end \in 0 .. BuffLen - 1 /\ H.is_eof \in BOOLEAN /\ c \in Byte /\ Q \in Seq(Byte)
  BY BuffLenAssumption DEF WellRead, Buffers, Sound
<1>2. /\ s_ungetc(c, H) = U
      /\ U.buff = [H.buff EXCEPT ![H.bp] = c] /\ U.bp = H.bp - 1 /\ U.end = H.end
      /\ U.is_eof = H.is_eof
  BY <1>1 DEF s_ungetc, Buffers
<1>3. U \in Buffers
  <2>1. [H.buff EXCEPT ![H.bp] = c] \in [0 .. BuffLen - 1 -> Byte]
    BY <1>1
  <2>2. H.bp - 1 \in -1 .. BuffLen - 1
    BY <1>1
  <2> QED
    BY <1>1, <1>2, <2>1, <2>2 DEF Buffers
<1>4. /\ U.buff[H.bp] = c
      /\ \A p \in 0 .. BuffLen - 1 : p # H.bp => U.buff[p] = H.buff[p]
  BY <1>1, <1>2
<1>5. /\ V.buff = U.buff /\ V.end = U.end /\ V.bp = U.bp + 1
  BY <1>3 DEF Buffers
<1>6. V \in Buffers
  <2>1. U.bp + 1 \in -1 .. BuffLen - 1
    BY <1>1, <1>2
  <2> HIDE DEF U
  <2> QED
    BY <1>3, <2>1 DEF Buffers
<1> HIDE DEF U, V
<1>7. Unread(V) = Unread(H)
  <2>1. V.bp = H.bp /\ V.end = H.end
    BY <1>1, <1>2, <1>5
  <2>2. /\ Unread(V) \in Seq(Byte) /\ Len(Unread(V)) = IF H.bp < H.end THEN H.end - H.bp ELSE 0
        /\ \A k \in 1 .. H.end - H.bp : Unread(V)[k] = V.buff[H.bp + k]
    <3>1. /\ Unread(V) \in Seq(Byte) /\ Len(Unread(V)) = IF V.bp < V.end THEN V.end - V.bp ELSE 0
          /\ \A k \in 1 .. V.end - V.bp : Unread(V)[k] = V.buff[V.bp + k]
      BY <1>6, BufferIs
    <3> QED
      BY <2>1, <3>1, Zenon
  <2>3. /\ Unread(H) \in Seq(Byte) /\ Len(Unread(H)) = IF H.bp < H.end THEN H.end - H.bp ELSE 0
        /\ \A k \in 1 .. H.end - H.bp : Unread(H)[k] = H.buff[H.bp + k]
    BY <1>1, BufferIs
  <2>4. ASSUME NEW k \in 1 .. Len(Unread(V))
        PROVE  Unread(V)[k] = Unread(H)[k]
    <3>1. k \in 1 .. H.end - H.bp /\ H.bp + k \in 0 .. BuffLen - 1 /\ H.bp + k # H.bp
      BY <1>1, <2>2
    <3>2. V.buff[H.bp + k] = H.buff[H.bp + k]
      BY <1>4, <1>5, <3>1
    <3> QED
      BY <2>2, <2>3, <3>1, <3>2
  <2> QED
    BY <2>2, <2>3, <2>4, SeqEqual
<1>8. Bytes(U, Q, T) = <<c>> \o Bytes(H, Q, T)
  <2>1. U.bp < U.end /\ V.bp = H.bp
    BY <1>1, <1>2, <1>5
  <2>2. Bytes(U, Q, T) = <<U.buff[V.bp]>> \o Bytes(V, Q, T)
    BY <1>1, <1>3, <1>5, <1>6, <2>1, OneLess
  <2>3. Bytes(V, Q, T) = Bytes(H, Q, T) /\ U.buff[V.bp] = c
    BY <1>4, <1>7, <2>1 DEF Bytes
  <2> QED
    BY <2>2, <2>3
<1>9. AtEnd(U, Q, closed)
  <2>1. SUFFICES ASSUME U.is_eof
                 PROVE  Q = <<>> /\ closed /\ \A p \in U.bp + 1 .. U.end : U.buff[p] = "EOF"
    BY DEF AtEnd
  <2>2. Q = <<>> /\ closed /\ c = "EOF" /\ \A p \in H.bp + 1 .. H.end : H.buff[p] = "EOF"
    BY <1>2, <2>1 DEF WellRead, AtEnd
  <2>3. ASSUME NEW p \in U.bp + 1 .. U.end
        PROVE  U.buff[p] = "EOF"
    <3>1. CASE p = H.bp
      BY <1>4, <2>2, <3>1
    <3>2. CASE p # H.bp
      <4>1. p \in H.bp + 1 .. H.end /\ p \in 0 .. BuffLen - 1
        BY <1>1, <1>2, <3>2
      <4> QED
        BY <1>4, <2>2, <3>2, <4>1
    <3> QED
      BY <3>1, <3>2
  <2> QED
    BY <2>2, <2>3
<1>10. ~H.is_eof => Bytes(G, P, T) = <<c>> \o Bytes(H, Q, T)
  BY Zenon DEF WellRead, Begins
<1>11. U.bp <= U.end
  BY <1>1, <1>2
<1>12. PutBack(G, P, T, closed, H, Q, U)
  BY <1>2, <1>3, <1>8, <1>9, <1>10, <1>11 DEF PutBack, Sound
<1> QED
  BY <1>2, <1>12

-----------------------------------------------------------------------------
(* The stream                                                              *)

N == Len(Script)
Blanks == <<" ">>

\* From item k on; the number item k begins with, and what follows the number.
From(k) == LastItems[N + 1 - k]
Number(k) == IF Script[k].kind = "int" THEN Script[k].value ELSE Len(Script[k].value)
After(k) == IF Script[k].kind = "int" THEN Blanks \o From(k + 1)
            ELSE Blanks \o (Script[k].value \o (Blanks \o From(k + 1)))

\* A blank.
LEMMA BlankIs ==
  /\ Blanks \in Seq(Byte) /\ " " \in Byte /\ " " \in White
  /\ \A s : Begins(Blanks \o s, " ", s)
<1>1. \A c \in Byte : <<c>> \in Seq(Byte)
  OBVIOUS
<1>2. " " \in Byte /\ " " \in White
  BY DEF Byte, White
<1>3. \A s : Begins(Blanks \o s, " ", s)
  BY Zenon DEF Blanks, Begins
<1>4. Blanks = <<" ">>
  BY DEF Blanks
<1> QED
  BY <1>1, <1>2, <1>3, <1>4, Zenon

\* The items are ints, or strings with the length of an int.
LEMMA ItemIs ==
  ASSUME NEW k \in 1 .. N
  PROVE  /\ Number(k) \in -IntMax .. IntMax
         /\ Script[k].kind # "int" => Script[k].kind = "string" /\ Script[k].value \in Seq(Byte)
         /\ Script[k].kind = "int" => Script[k].value \in -IntMax .. IntMax
         /\ Text(Number(k)) \in Seq(Byte) /\ Len(Text(Number(k))) \in Nat \ {0}
<1>1. k \in DOMAIN Script /\ IntMax \in Nat
  BY ScriptAssumption DEF N
<1>2. \/ Script[k].kind = "int" /\ Script[k].value \in -IntMax .. IntMax
      \/ Script[k].kind = "string" /\ Script[k].value \in Seq(Byte) /\ Len(Script[k].value) <= IntMax
  BY <1>1, ScriptAssumption
<1>3. "string" # "int"
  OBVIOUS
<1>4. Number(k) \in -IntMax .. IntMax
  <2>1. CASE Script[k].kind = "int"
    BY <1>2, <1>3, <2>1 DEF Number
  <2>2. CASE Script[k].kind # "int"
    <3>1. Script[k].value \in Seq(Byte) /\ Len(Script[k].value) <= IntMax
      BY <1>2, <2>2
    <3>2. Len(Script[k].value) \in Nat
      BY <3>1
    <3>3. Len(Script[k].value) \in -IntMax .. IntMax
      BY <1>1, <3>1, <3>2
    <3> QED
      BY <2>2, <3>3 DEF Number
  <2> QED
    BY <2>1, <2>2
<1>5. Text(Number(k)) \in Seq(Byte) /\ Len(Text(Number(k))) \in Nat \ {0}
  <2> DEFINE t == Text(Number(k))
  <2>1. t \in Seq(Digits \union {"-"}) /\ Len(t) >= 1
    BY <1>4, TextIs
  <2> HIDE DEF t
  <2>2. Digits \union {"-"} \subseteq Byte
    BY DEF Byte
  <2>3. t \in Seq(Byte) /\ Len(t) \in Nat
    BY <2>1, <2>2, SeqMonotonic
  <2> QED
    BY <2>1, <2>3 DEF t
<1> QED
  BY <1>2, <1>3, <1>4, <1>5

\* What the writer encodes: the text of the number, a blank, and the bytes of a string with
\* a blank behind them.
LEMMA EncodedIs ==
  ASSUME NEW k \in 1 .. N, NEW t \in Seq(Byte)
  PROVE  /\ Encoded(Script[k]) \in Seq(Byte)
         /\ Encoded(Script[k]) \o t =
              Text(Number(k)) \o (IF Script[k].kind = "int" THEN Blanks \o t
                                  ELSE Blanks \o (Script[k].value \o (Blanks \o t)))
<1> DEFINE d == Text(Number(k))
           v == Script[k].value
           b == Blanks
<1>1. /\ d \in Seq(Byte)
      /\ Script[k].kind # "int" => Script[k].kind = "string" /\ v \in Seq(Byte)
  BY ItemIs
<1>2. b \in Seq(Byte)
  BY BlankIs
<1>3. Script[k].kind = "int" => d = Text(v)
  BY DEF Number
<1>4. Script[k].kind # "int" => d = Text(Len(v))
  BY DEF Number
<1>5. Append(d, " ") = d \o b
  <2>1. " " \in Byte
    BY DEF Byte, White
  <2> HIDE DEF d
  <2> QED
    BY <1>1, <2>1, AppendIsConcat DEF Blanks
<1>6. \A x, y, z \in Seq(Byte) : (x \o y) \o z = x \o (y \o z)
  BY Joined, Zenon
<1>7. \A x, y \in Seq(Byte) : x \o y \in Seq(Byte)
  BY Joined, Zenon
<1>8. CASE Script[k].kind = "int"
  <2>1. Encoded(Script[k]) = d \o b
    BY <1>3, <1>5, <1>8, Zenon DEF Encoded
  <2> HIDE DEF d, b
  <2>2. (d \o b) \o t = d \o (b \o t) /\ d \o b \in Seq(Byte)
    BY <1>1, <1>2, <1>6, <1>7
  <2> QED
    BY <1>8, <2>1, <2>2 DEF d, b
<1>9. CASE Script[k].kind # "int"
  <2>1. Encoded(Script[k]) = ((d \o b) \o v) \o b
    BY <1>4, <1>5, <1>9, Zenon DEF Encoded, Blanks
  <2> HIDE DEF d, b, v
  <2>2. v \in Seq(Byte) /\ d \in Seq(Byte) /\ b \in Seq(Byte)
    BY <1>1, <1>2, <1>9
  <2> DEFINE p == d \o b
             u == p \o v
             w == b \o t
             x == v \o w
  <2>3. p \in Seq(Byte) /\ w \in Seq(Byte)
    BY <1>7, <2>2
  <2>4. u \in Seq(Byte) /\ x \in Seq(Byte)
    <3> HIDE DEF p, w
    <3> QED
      BY <1>7, <2>2, <2>3, Zenon
  <2>5. p \o x = d \o (b \o x)
    <3> HIDE DEF x
    <3> QED
      BY <1>6, <2>2, <2>4, Zenon
  <2>6. u \o w = p \o x
    <3> HIDE DEF p, w
    <3>1. p \in Seq(Byte) /\ v \in Seq(Byte) /\ w \in Seq(Byte)
      BY <2>2, <2>3
    <3>2. (p \o v) \o w = p \o (v \o w)
      BY <1>6, <3>1, Zenon
    <3> QED
      BY <3>2
  <2>7. (u \o b) \o t = u \o w /\ u \o b \in Seq(Byte)
    <3> HIDE DEF u
    <3>1. u \in Seq(Byte) /\ b \in Seq(Byte) /\ t \in Seq(Byte)
      BY <2>2, <2>4
    <3>2. (u \o b) \o t = u \o (b \o t)
      BY <1>6, <3>1, Zenon
    <3>3. u \o b \in Seq(Byte)
      BY <1>7, <3>1, Zenon
    <3> QED
      BY <3>2, <3>3
  <2>8. (u \o b) \o t = d \o (b \o x)
    BY <2>5, <2>6, <2>7, Zenon
  <2>9. Encoded(Script[k]) = u \o b
    BY <2>1
  <2> HIDE DEF u
  <2>10. Encoded(Script[k]) \in Seq(Byte) /\ Encoded(Script[k]) \o t = d \o (b \o x)
    BY <2>7, <2>8, <2>9, Zenon
  <2> QED
    BY <1>9, <2>10, Zenon DEF d, b, v
<1> QED
  BY <1>8, <1>9

\* The stream, item by item.
LEMMA LastItemsAre ==
  /\ LastItems[0] = <<"\n">>
  /\ \A n \in 1 .. N : LastItems[n] = Encoded(Script[N + 1 - n]) \o LastItems[n - 1]
  /\ \A n \in 0 .. N : LastItems[n] \in Seq(Byte)
<1> DEFINE a == <<"\n">>
           S == Seq(Byte)
           G == [i \in 0 .. N |-> S]
           F1 == [i \in 1 .. N |-> [x \in S |-> Encoded(Script[N + 1 - i]) \o x]]
           Body(f) == [i \in 0 .. N |-> IF i = 0 THEN a ELSE Encoded(Script[N + 1 - i]) \o f[i - 1]]
           q == CHOOSE f : f = Body(f)
<1>1. N \in Nat
  BY ScriptAssumption DEF N
<1>2. a \in S /\ a \in G[0]
  <2>1. "\n" \in Byte
    BY DEF Byte, White
  <2> QED
    BY <1>1, <2>1
<1>3. ASSUME NEW i \in 1 .. N, NEW x \in S
      PROVE  Encoded(Script[N + 1 - i]) \o x \in S
  <2>1. N + 1 - i \in 1 .. N
    BY <1>1
  <2>2. Encoded(Script[N + 1 - i]) \in Seq(Byte)
    BY <2>1, <1>2, EncodedIs
  <2> QED
    BY <2>2, Joined, Zenon
<1>4. Keeps(N, F1, G)
  <2>1. \A i \in 1 .. N : G[i - 1] = S /\ G[i] = S
    BY <1>1
  <2>2. \A i \in 1 .. N : \A x \in S : F1[i][x] = Encoded(Script[N + 1 - i]) \o x
    OBVIOUS
  <2> HIDE DEF G, F1, S
  <2> QED
    BY <1>3, <2>1, <2>2 DEF Keeps
<1>5. \E f : f = Body(f)
  <2>1. \A i \in 1 .. N : \A x \in S : F1[i][x] = Encoded(Script[N + 1 - i]) \o x
    OBVIOUS
  <2>2. \A i \in 0 .. N : G[i] = S
    OBVIOUS
  <2> HIDE DEF G, F1, S, a
  <2>3. PICK f : Runs(N, a, F1, G, f)
    BY <1>1, <1>2, <1>4, LoopRuns
  <2> DEFINE g == [i \in 0 .. N |-> f[i]]
  <2>4. ASSUME NEW i \in 0 .. N
        PROVE  g[i] = IF i = 0 THEN a ELSE Encoded(Script[N + 1 - i]) \o g[i - 1]
    <3>1. CASE i = 0
      BY <2>3, <3>1 DEF Runs
    <3>2. CASE i # 0
      <4>1. i \in 1 .. N /\ i - 1 \in 0 .. N
        BY <1>1, <3>2
      <4>2. f[i - 1] \in S /\ f[i] = F1[i][f[i - 1]]
        BY <2>2, <2>3, <4>1 DEF Runs
      <4>3. g[i] = Encoded(Script[N + 1 - i]) \o g[i - 1]
        BY <2>1, <4>1, <4>2
      <4> QED
        BY <3>2, <4>3
    <3> QED
      BY <3>1, <3>2
  <2>5. g = [i \in 0 .. N |-> g[i]]
    OBVIOUS
  <2> HIDE DEF g
  <2>6. g = Body(g)
    BY <2>4, <2>5
  <2> QED
    BY <2>6
<1>6. q = Body(q)
  <2> HIDE DEF Body
  <2> QED
    BY <1>5
<1>7. q = LastItems
  BY DEF LastItems, N
<1> HIDE DEF q, a, S
<1>8. q[0] = a /\ \A i \in 1 .. N : q[i] = Encoded(Script[N + 1 - i]) \o q[i - 1]
  <2>1. \A i \in 0 .. N : q[i] = IF i = 0 THEN a ELSE Encoded(Script[N + 1 - i]) \o q[i - 1]
    BY <1>6
  <2>2. 0 \in 0 .. N /\ \A i \in 1 .. N : i \in 0 .. N /\ i # 0
    BY <1>1
  <2> QED
    BY <2>1, <2>2
<1>9. \A i \in 0 .. N : q[i] \in S
  <2>1. \A i \in 0 .. N : G[i] = S
    OBVIOUS
  <2>2. \A i \in 1 .. N : i \in 0 .. N /\ i - 1 \in 0 .. N
    BY <1>1
  <2> HIDE DEF G
  <2>3. \A i \in 1 .. N : q[i - 1] \in G[i - 1] => q[i] \in G[i]
    BY <1>3, <1>8, <2>1, <2>2
  <2>4. q[0] \in G[0]
    BY <1>2, <1>8
  <2>5. \A i \in 0 .. N : q[i] \in G[i]
    BY <1>1, <2>3, <2>4, LoopInvariant
  <2> QED
    BY <2>1, <2>5
<1> QED
  BY <1>7, <1>8, <1>9 DEF a, S

\* From item k on there is the text of a number and what follows it.
LEMMA FromIs ==
  /\ Stream = From(1) /\ N \in Nat
  /\ \A k \in 1 .. N + 1 : From(k) \in Seq(Byte)
  /\ \A k \in 1 .. N : From(k) = Text(Number(k)) \o After(k) /\ After(k) \in Seq(Byte)
<1>1. N \in Nat
  BY ScriptAssumption DEF N
<1>2. Stream = From(1)
  <2>1. N + 1 - 1 = N
    BY <1>1
  <2> QED
    BY <2>1, Zenon DEF Stream, From, N
<1>3. \A k \in 1 .. N + 1 : From(k) \in Seq(Byte)
  <2>1. \A k \in 1 .. N + 1 : N + 1 - k \in 0 .. N
    BY <1>1
  <2> QED
    BY <2>1, LastItemsAre DEF From
<1>4. ASSUME NEW k \in 1 .. N
      PROVE  From(k) = Text(Number(k)) \o After(k) /\ After(k) \in Seq(Byte)
  <2>1. /\ N + 1 - k \in 1 .. N /\ N + 1 - (N + 1 - k) = k
        /\ (N + 1 - k) - 1 = N + 1 - (k + 1) /\ k + 1 \in 1 .. N + 1
    BY <1>1
  <2>2. From(k) = Encoded(Script[k]) \o From(k + 1) /\ From(k + 1) \in Seq(Byte)
    <3>1. LastItems[N + 1 - k] = Encoded(Script[N + 1 - (N + 1 - k)]) \o LastItems[(N + 1 - k) - 1]
      BY <2>1, LastItemsAre
    <3> QED
      BY <1>3, <2>1, <3>1 DEF From
  <2>3. From(k) = Text(Number(k)) \o After(k)
    BY <2>2, EncodedIs DEF After
  <2>4. After(k) \in Seq(Byte)
    <3>1. Blanks \in Seq(Byte)
      BY BlankIs
    <3>2. Script[k].kind # "int" => Script[k].value \in Seq(Byte)
      BY ItemIs
    <3>3. \A x, y \in Seq(Byte) : x \o y \in Seq(Byte)
      BY Joined, Zenon
    <3> QED
      BY <2>2, <3>1, <3>2, <3>3, Zenon DEF After
  <2> QED
    BY <2>3, <2>4
<1> QED
  BY <1>1, <1>2, <1>3, <1>4

-----------------------------------------------------------------------------
(* The invariant                                                           *)

Values == Int \union Seq(Byte)

\* What a value of item k may be, cut short or not.
ValueOK(k, v) == IF Script[k].kind = "int" THEN v \in -IntMax .. IntMax ELSE v \in Seq(Byte)

Types ==
  /\ toSend \in Seq(Byte) /\ pipe \in Seq(Byte) /\ dead \in BOOLEAN
  /\ Sound(F) /\ AtEnd(F, pipe, dead)
  /\ pc \in {"skip", "digits", "blank", "bytes"} /\ item \in 1 .. N + 1
  /\ r \in 0 .. IntMax /\ neg \in {1, -1} /\ part \in Seq(Byte)
  /\ got \in Seq(Values) /\ Len(got) = item - 1
  /\ \A k \in 1 .. item - 1 : ValueOK(k, got[k])
  /\ pc # "skip" => item <= N
  /\ pc \in {"blank", "bytes"} => Script[item].kind # "int"

\* A reader at p in item k, with a number m and a sign and the bytes u, sees the bytes b ahead.
Where(p, k, m, sign, u, b) ==
  \/ p = "skip" /\ m = 0 /\ sign = 1 /\ u = <<>> /\ b \in {From(k), Blanks \o From(k)}
  \/ /\ p = "digits" /\ u = <<>>
     /\ \E j \in 1 .. Len(Text(Number(k))) :
          /\ Reads(Number(k), j, m, sign)
          /\ b = Ahead(Text(Number(k)), j, After(k))
  \/ p = "blank" /\ m * sign = Number(k) /\ u = <<>> /\ b = After(k)
  \/ /\ p = "bytes" /\ m * sign = Number(k)
     /\ Len(u) < Number(k) /\ u = SubSeq(Script[k].value, 1, Len(u))
     /\ b = Ahead(Script[k].value, Len(u), Blanks \o From(k + 1))

InSync == /\ Where(pc, item, r, neg, part, Bytes(F, pipe, toSend))
          /\ \A k \in 1 .. item - 1 : got[k] = Script[k].value

Inv == Types /\ (~F.is_eof => InSync)

-----------------------------------------------------------------------------
(* The next byte, where the reader is in step with the writer              *)

\* Before a number only white space is skipped, and never a byte of the number.
LEMMA NextInSkip ==
  ASSUME NEW k \in 1 .. N, NEW b \in {From(k), Blanks \o From(k)}, NEW c \in Byte, NEW d \in Seq(Byte),
         Begins(b, c, d)
  PROVE  /\ c \in White => d = From(k)
         /\ c \notin White => /\ Goes(Number(k), 0, c)
                              /\ d = Ahead(Text(Number(k)), 1, After(k))
<1> DEFINE t == Text(Number(k))
           e == t[1]
           f == Ahead(t, 1, After(k))
<1>1. /\ Number(k) \in -IntMax .. IntMax
      /\ t \in Seq(Byte) /\ Len(t) \in Nat \ {0} /\ After(k) \in Seq(Byte)
      /\ From(k) = t \o After(k)
      /\ From(k) \in Seq(Byte)
  <2>1. /\ Number(k) \in -IntMax .. IntMax
        /\ t \in Seq(Byte) /\ Len(t) \in Nat \ {0}
    BY ItemIs
  <2>2. k \in 1 .. N + 1
    BY FromIs
  <2>3. From(k) \in Seq(Byte) /\ From(k) = t \o After(k) /\ After(k) \in Seq(Byte)
    BY <2>2, FromIs
  <2> QED
    BY <2>1, <2>3
<1>2. Goes(Number(k), 0, e)
  <2>1. /\ Len(Text(Number(k))) - 1 \in Nat
        /\ \A j \in 0 .. Len(Text(Number(k))) - 1 : Goes(Number(k), j, Text(Number(k))[j + 1])
    BY <1>1, TextIs
  <2>2. 0 \in 0 .. Len(Text(Number(k))) - 1
    BY <2>1
  <2>3. Goes(Number(k), 0, Text(Number(k))[0 + 1])
    BY <2>1, <2>2, Zenon
  <2>4. 0 + 1 = 1
    OBVIOUS
  <2> QED
    BY <2>3, <2>4, Zenon
<1>3. e \in Digits \union {"-"}
  BY <1>2 DEF Goes
<1>4. e \notin White /\ e \in Byte
  BY <1>3 DEF Digits, White, Byte
<1> HIDE DEF t
<1>5. f \in Seq(Byte) /\ Begins(From(k), e, f)
  <2>1. 0 \in 0 .. Len(t) /\ 1 \in 0 .. Len(t) /\ 0 < Len(t) /\ 0 + 1 = 1
    BY <1>1
  <2>2. Ahead(t, 0, After(k)) = t \o After(k) /\ Begins(Ahead(t, 0, After(k)), t[0 + 1], Ahead(t, 0 + 1, After(k)))
    BY <1>1, <2>1, BytesAhead, Zenon
  <2>3. f \in Seq(Byte)
    BY <1>1, <2>1, BytesAhead, Zenon
  <2> QED
    BY <1>1, <2>1, <2>2, <2>3
<1> HIDE DEF e, f
<1>6. CASE b = From(k)
  <2>1. Begins(From(k), c, d)
    BY <1>6, Zenon
  <2>2. e = c /\ f = d
    BY <1>4, <1>5, <2>1, OneHead, Zenon
  <2> QED
    BY <1>2, <1>4, <2>2 DEF f, t
<1>7. CASE b = Blanks \o From(k)
  <2>1. Begins(b, " ", From(k)) /\ " " \in Byte /\ " " \in White
    BY <1>7, BlankIs, Zenon
  <2>2. c = " " /\ d = From(k)
    BY <1>1, <2>1, OneHead, Zenon
  <2> QED
    BY <2>1, <2>2
<1> QED
  BY <1>6, <1>7

\* In a number there are digits, and a blank behind it.
LEMMA NextInDigits ==
  ASSUME NEW k \in 1 .. N, NEW j \in 1 .. Len(Text(Number(k))), NEW c \in Byte, NEW d \in Seq(Byte),
         Begins(Ahead(Text(Number(k)), j, After(k)), c, d)
  PROVE  /\ j < Len(Text(Number(k))) =>
              /\ Goes(Number(k), j, c) /\ c \in Digits
              /\ d = Ahead(Text(Number(k)), j + 1, After(k))
         /\ j = Len(Text(Number(k))) =>
              c \notin Digits /\ Ahead(Text(Number(k)), j, After(k)) = After(k)
<1> DEFINE t == Text(Number(k))
           e == t[j + 1]
           f == Ahead(t, j + 1, After(k))
<1>1. /\ Number(k) \in -IntMax .. IntMax
      /\ t \in Seq(Byte) /\ Len(t) \in Nat \ {0} /\ After(k) \in Seq(Byte)
  BY ItemIs, FromIs
<1>2. ASSUME j < Len(t)
      PROVE  Goes(Number(k), j, e) /\ e \in Digits
  <2>1. \A i \in 0 .. Len(Text(Number(k))) - 1 : Goes(Number(k), i, Text(Number(k))[i + 1])
    BY <1>1, TextIs
  <2>2. j \in 0 .. Len(Text(Number(k))) - 1 /\ j # 0
    BY <1>1, <1>2
  <2>3. Goes(Number(k), j, e)
    BY <2>1, <2>2, Zenon
  <2>4. e \in Digits \union {"-"} /\ (e = "-" => j = 0)
    BY <2>3 DEF Goes
  <2> QED
    BY <2>2, <2>3, <2>4
<1> HIDE DEF t
<1>3. ASSUME j < Len(t)
      PROVE  Goes(Number(k), j, c) /\ c \in Digits /\ d = f
  <2>1. j \in 0 .. Len(t) /\ j + 1 \in 0 .. Len(t)
    BY <1>1, <1>3 DEF t
  <2>2. Begins(Ahead(t, j, After(k)), e, f) /\ f \in Seq(Byte)
    BY <1>1, <1>3, <2>1, BytesAhead, Zenon
  <2>3. e \in Byte
    BY <1>2, <1>3 DEF Byte
  <2> HIDE DEF e, f
  <2>4. Begins(Ahead(t, j, After(k)), c, d)
    BY DEF t
  <2>5. e = c /\ f = d
    BY <2>2, <2>3, <2>4, OneHead, Zenon
  <2> QED
    BY <1>2, <1>3, <2>5
<1>4. ASSUME j = Len(t)
      PROVE  c \notin Digits /\ Ahead(t, j, After(k)) = After(k)
  <2>1. Ahead(t, j, After(k)) = After(k)
    <3>1. j \in 0 .. Len(t)
      BY <1>1, <1>4
    <3> QED
      BY <1>1, <1>4, <3>1, BytesAhead, Zenon
  <2>2. \E s \in Seq(Byte) : After(k) = Blanks \o s
    <3>1. k + 1 \in 1 .. N + 1
      BY FromIs
    <3>2. From(k + 1) \in Seq(Byte)
      BY <3>1, FromIs
    <3>3. Script[k].kind # "int" => Script[k].value \o (Blanks \o From(k + 1)) \in Seq(Byte)
      <4>1. Blanks \o From(k + 1) \in Seq(Byte)
        BY <3>2, BlankIs, Joined, Zenon
      <4>2. Script[k].kind # "int" => Script[k].value \in Seq(Byte)
        BY ItemIs
      <4> QED
        BY <4>1, <4>2, Joined, Zenon
    <3> QED
      BY <3>2, <3>3 DEF After
  <2>3. PICK s \in Seq(Byte) : After(k) = Blanks \o s
    BY <2>2
  <2>4. Begins(After(k), " ", s) /\ Begins(After(k), c, d)
    <3>1. Begins(After(k), " ", s)
      BY <2>3, BlankIs, Zenon
    <3>2. Begins(Ahead(t, j, After(k)), c, d)
      BY DEF t
    <3> QED
      BY <2>1, <3>1, <3>2, Zenon
  <2>5. c = " "
    BY <2>3, <2>4, BlankIs, OneHead, Zenon
  <2>6. " " \notin Digits
    BY DEF Digits
  <2> QED
    BY <2>1, <2>5, <2>6
<1> QED
  BY <1>3, <1>4 DEF t

\* Behind the length of a string there is a blank, ...
LEMMA NextInBlank ==
  ASSUME NEW k \in 1 .. N, Script[k].kind # "int", NEW c \in Byte, NEW d \in Seq(Byte),
         Begins(After(k), c, d)
  PROVE  /\ d = Ahead(Script[k].value, 0, Blanks \o From(k + 1))
         /\ Number(k) = Len(Script[k].value) /\ Script[k].value \in Seq(Byte)
         /\ Len(Script[k].value) = 0 => Script[k].value = <<>> /\ d = Blanks \o From(k + 1)
<1> DEFINE v == Script[k].value
           t == Blanks \o From(k + 1)
<1>1. v \in Seq(Byte) /\ t \in Seq(Byte) /\ v \o t \in Seq(Byte)
  <2>1. k + 1 \in 1 .. N + 1
    BY FromIs
  <2>2. From(k + 1) \in Seq(Byte)
    BY <2>1, FromIs
  <2>3. t \in Seq(Byte)
    BY <2>2, BlankIs, Joined, Zenon
  <2>4. v \in Seq(Byte)
    BY ItemIs
  <2> HIDE DEF t, v
  <2> QED
    BY <2>3, <2>4, Joined, Zenon
<1>2. After(k) = Blanks \o (v \o t)
  BY DEF After
<1> HIDE DEF t, v
<1>3. d = v \o t
  <2> DEFINE x == v \o t
  <2>1. x \in Seq(Byte) /\ After(k) = Blanks \o x
    BY <1>1, <1>2
  <2> HIDE DEF x
  <2>2. Begins(After(k), " ", x) /\ " " \in Byte
    BY <2>1, BlankIs, Zenon
  <2>3. x = d
    BY <2>1, <2>2, OneHead, Zenon
  <2> QED
    BY <2>3 DEF x
<1>4. d = Ahead(v, 0, t) /\ (Len(v) = 0 => v = <<>> /\ d = t)
  <2>1. 0 \in 0 .. Len(v)
    BY <1>1
  <2>2. Ahead(v, 0, t) = v \o t /\ (0 = Len(v) => Ahead(v, 0, t) = t)
    BY <1>1, <2>1, BytesAhead, Zenon
  <2>3. Len(v) = 0 => v = <<>>
    BY <1>1
  <2> QED
    BY <1>3, <2>2, <2>3
<1> QED
  BY <1>1, <1>4 DEF v, t, Number

\* ... and then its bytes.
LEMMA NextInBytes ==
  ASSUME NEW k \in 1 .. N, Script[k].kind # "int", NEW j \in Nat, j < Number(k),
         NEW c \in Byte, NEW d \in Seq(Byte), NEW u, u = SubSeq(Script[k].value, 1, j),
         Begins(Ahead(Script[k].value, j, Blanks \o From(k + 1)), c, d)
  PROVE  /\ d = Ahead(Script[k].value, j + 1, Blanks \o From(k + 1))
         /\ Append(u, c) = SubSeq(Script[k].value, 1, j + 1)
         /\ Len(Append(u, c)) = j + 1
         /\ j + 1 = Number(k) => Append(u, c) = Script[k].value /\ d = Blanks \o From(k + 1)
<1> DEFINE v == Script[k].value
           t == Blanks \o From(k + 1)
           f == Ahead(v, j + 1, t)
<1>1. v \in Seq(Byte) /\ t \in Seq(Byte) /\ Number(k) = Len(v) /\ Len(v) \in Nat
  <2>1. k + 1 \in 1 .. N + 1
    BY FromIs
  <2>2. From(k + 1) \in Seq(Byte)
    BY <2>1, FromIs
  <2>3. t \in Seq(Byte)
    BY <2>2, BlankIs, Joined, Zenon
  <2>4. v \in Seq(Byte)
    BY ItemIs
  <2>5. Number(k) = Len(v)
    BY DEF Number
  <2> HIDE DEF t, v
  <2> QED
    BY <2>3, <2>4, <2>5
<1>2. Begins(Ahead(v, j, t), c, d) /\ u = SubSeq(v, 1, j)
  OBVIOUS
<1> HIDE DEF t, v
<1>3. j \in 0 .. Len(v) /\ j + 1 \in 0 .. Len(v) /\ j < Len(v) /\ j + 1 \in 1 .. Len(v)
  BY <1>1
<1>4. Begins(Ahead(v, j, t), v[j + 1], f) /\ f \in Seq(Byte) /\ v[j + 1] \in Byte
  <2>1. v[j + 1] \in Byte
    BY <1>1, <1>3
  <2> QED
    BY <1>1, <1>3, <2>1, BytesAhead, Zenon
<1>5. d = f /\ v[j + 1] = c
  <2> DEFINE e == v[j + 1]
  <2>1. Begins(Ahead(v, j, t), e, f) /\ e \in Byte /\ f \in Seq(Byte)
    BY <1>4
  <2> HIDE DEF e, f
  <2>2. e = c /\ f = d
    BY <1>2, <2>1, OneHead, Zenon
  <2> QED
    BY <2>2 DEF e
<1>6. u \in Seq(Byte) /\ Len(u) = j
  <2>1. \A i \in 1 .. j : v[i] \in Byte
    BY <1>1, <1>3
  <2>2. SubSeq(v, 1, j) \in Seq(Byte) /\ Len(SubSeq(v, 1, j)) = IF 1 <= j THEN j - 1 + 1 ELSE 0
    <3>1. 1 \in Int /\ j \in Int
      BY <1>3
    <3> QED
      BY <2>1, <3>1, SubSeqProperties
  <2> QED
    BY <1>2, <2>2
<1>7. Append(u, c) = u \o <<c>>
  BY <1>6, AppendIsConcat
<1>8. SubSeq(v, 1, j + 1) = u \o <<c>>
  <2>1. 1 \in 1 .. Len(v) /\ j + 1 \in 1 .. Len(v) /\ (j + 1) - 1 = j
    BY <1>3
  <2>2. SubSeq(v, 1, j + 1) = SubSeq(v, 1, (j + 1) - 1) \o <<v[j + 1]>>
    BY <1>1, <2>1, SubSeqRecursiveSecond
  <2> QED
    BY <1>2, <1>5, <2>1, <2>2
<1>9. Len(Append(u, c)) = j + 1
  BY <1>6
<1>10. j + 1 = Len(v) => Append(u, c) = v /\ d = t
  <2>1. SubSeq(v, 1, Len(v)) = v
    BY <1>1, SubSeqFull
  <2>2. j + 1 = Len(v) => f = t
    BY <1>1, <1>3, BytesAhead, Zenon
  <2> QED
    BY <1>5, <1>7, <1>8, <2>1, <2>2
<1> QED
  BY <1>1, <1>5, <1>7, <1>8, <1>9, <1>10 DEF v, t

-----------------------------------------------------------------------------
(* The steps                                                               *)

\* What a reader that takes a byte knows.
Taken(H, c, Q) ==
  /\ WellRead(F, pipe, toSend, dead, H, Q, c)
  /\ item \in 1 .. N
  /\ pipe' = Q /\ toSend' = toSend /\ dead' = dead
  /\ Bytes(H, Q, toSend) \in Seq(Byte)

\* s_getc keeps reader and writer in step.
LEMMA TakeIs ==
  ASSUME Inv, Take(s_getc(F, pipe), Got(F, pipe))
  PROVE  Taken(s_getc(F, pipe), Got(F, pipe), PipeAfter(F, pipe))
<1>1. /\ toSend \in Seq(Byte) /\ pipe \in Seq(Byte) /\ dead \in BOOLEAN
      /\ Sound(F) /\ AtEnd(F, pipe, dead) /\ item \in 1 .. N + 1 /\ N \in Nat
  BY FromIs DEF Inv, Types
<1>2. /\ item <= N /\ CanGet(F, pipe, dead)
      /\ pipe' = PipeAfter(F, pipe) /\ toSend' = toSend /\ dead' = dead
  BY DEF Take, N
<1> DEFINE H == s_getc(F, pipe)
           c == Got(F, pipe)
           Q == PipeAfter(F, pipe)
<1>3. WellRead(F, pipe, toSend, dead, H, Q, c)
  BY <1>1, <1>2, GetWorks
<1> HIDE DEF H, c, Q
<1>4. H \in Buffers /\ Q \in Seq(Byte)
  BY <1>3 DEF WellRead, Sound
<1>5. Unread(H) \in Seq(Byte)
  BY <1>4, BufferIs
<1>6. Q \o toSend \in Seq(Byte)
  BY <1>1, <1>4, Joined, Zenon
<1>7. Bytes(H, Q, toSend) \in Seq(Byte)
  BY <1>5, <1>6, Joined, Zenon DEF Bytes
<1>8. item \in 1 .. N
  BY <1>1, <1>2
<1> QED
  BY <1>2, <1>3, <1>7, <1>8 DEF Taken, H, c, Q

\* Before a step that leaves got alone, and behind it.
LEMMA GotKept ==
  ASSUME Inv, item' = item, got' = got
  PROVE  /\ got' \in Seq(Values) /\ Len(got') = item' - 1 /\ item' \in 1 .. N + 1
         /\ \A k \in 1 .. item' - 1 : ValueOK(k, got'[k])
         /\ InSync => \A k \in 1 .. item' - 1 : got'[k] = Script[k].value
BY DEF Inv, Types, InSync

\* A value returned for the item.
LEMMA GotOne ==
  ASSUME Inv, item \in 1 .. N, NEW v, ValueOK(item, v), Returned(v)
  PROVE  /\ got' \in Seq(Values) /\ Len(got') = item' - 1 /\ item' \in 1 .. N + 1
         /\ \A k \in 1 .. item' - 1 : ValueOK(k, got'[k])
         /\ InSync /\ v = Script[item].value =>
              \A k \in 1 .. item' - 1 : got'[k] = Script[k].value
         /\ r' = 0 /\ neg' = 1 /\ part' = <<>> /\ pc' = "skip" /\ item' = item + 1
<1>1. /\ got' = Append(got, v) /\ item' = item + 1
      /\ r' = 0 /\ neg' = 1 /\ part' = <<>> /\ pc' = "skip"
  BY DEF Returned
<1>2. /\ got \in Seq(Values) /\ Len(got) = item - 1 /\ N \in Nat
      /\ \A k \in 1 .. item - 1 : ValueOK(k, got[k])
  BY FromIs DEF Inv, Types
<1>3. v \in Values
  <2>1. IntMax \in Nat
    BY ScriptAssumption
  <2> QED
    BY <2>1 DEF ValueOK, Values
<1> DEFINE g == Append(got, v)
<1>4. /\ g \in Seq(Values) /\ Len(g) = item
      /\ \A k \in 1 .. item - 1 : g[k] = got[k]
      /\ g[item] = v
  <2>1. /\ g \in Seq(Values) /\ Len(g) = Len(got) + 1
        /\ \A k \in 1 .. Len(got) : g[k] = got[k]
        /\ g[Len(got) + 1] = v
    BY <1>2, <1>3, AppendProperties
  <2>2. Len(got) + 1 = item
    BY <1>2
  <2> HIDE DEF g
  <2> QED
    BY <1>2, <2>1, <2>2
<1> HIDE DEF g
<1>5. item' - 1 = item /\ item' \in 1 .. N + 1
  BY <1>1, <1>2
<1>6. \A k \in 1 .. item : k = item \/ k \in 1 .. item - 1
  OBVIOUS
<1>7. \A k \in 1 .. item' - 1 : ValueOK(k, got'[k])
  <2>1. \A k \in 1 .. item : ValueOK(k, g[k])
    BY <1>2, <1>4, <1>6
  <2> QED
    BY <1>1, <1>5, <2>1 DEF g
<1>8. InSync /\ v = Script[item].value =>
        \A k \in 1 .. item' - 1 : got'[k] = Script[k].value
  <2>1. SUFFICES ASSUME InSync, v = Script[item].value
                 PROVE  \A k \in 1 .. item : g[k] = Script[k].value
    BY <1>1, <1>5 DEF g
  <2>2. \A k \in 1 .. item - 1 : got[k] = Script[k].value
    BY <2>1 DEF InSync
  <2> QED
    BY <1>4, <1>6, <2>1, <2>2
<1> QED
  BY <1>1, <1>4, <1>5, <1>7, <1>8 DEF g

\* The invariant holds behind a step if ...
LEMMA InvNext ==
  ASSUME toSend' \in Seq(Byte), pipe' \in Seq(Byte), dead' \in BOOLEAN,
         Sound(F'), AtEnd(F', pipe', dead'),
         pc' \in {"skip", "digits", "blank", "bytes"},
         r' \in 0 .. IntMax, neg' \in {1, -1}, part' \in Seq(Byte),
         /\ got' \in Seq(Values) /\ Len(got') = item' - 1 /\ item' \in 1 .. N + 1
         /\ \A k \in 1 .. item' - 1 : ValueOK(k, got'[k]),
         pc' # "skip" => item' <= N,
         pc' \in {"blank", "bytes"} => Script[item'].kind # "int",
         ~F'.is_eof => /\ Where(pc', item', r', neg', part', Bytes(F', pipe', toSend'))
                       /\ \A k \in 1 .. item' - 1 : got'[k] = Script[k].value
  PROVE  Inv'
BY DEF Inv, Types, InSync

\* The constants the steps compare with.
LEMMA Basics ==
  /\ IntMax \in Nat /\ N \in Nat /\ 0 \in 0 .. IntMax /\ <<>> \in Seq(Byte)
  /\ "EOF" \notin Digits /\ "EOF" # "-" /\ "-" \notin Digits /\ "-" \notin White
  /\ \A c \in Digits : c \notin White
<1>1. IntMax \in Nat
  BY ScriptAssumption
<1>2. "EOF" \notin Digits /\ "EOF" # "-" /\ "-" \notin Digits /\ "-" \notin White
  BY DEF Digits, White
<1>3. \A c \in Digits : c \notin White
  BY DEF Digits, White
<1> QED
  BY <1>1, <1>2, <1>3, FromIs

\* The writer writes: the bytes ahead stay the same.
LEMMA WriteKeeps ==
  ASSUME Inv, WriteFragment
  PROVE  Inv'
<1>1. Types
  BY DEF Inv
<1>2. PICK n \in 1 .. Len(toSend) : /\ pipe' = pipe \o SubSeq(toSend, 1, n)
                                    /\ toSend' = SubSeq(toSend, n + 1, Len(toSend))
  BY DEF WriteFragment
<1>3. ~dead /\ dead' = dead /\ F' = F /\ pc' = pc /\ item' = item /\ r' = r /\ neg' = neg
      /\ part' = part /\ got' = got
  BY DEF WriteFragment
<1> DEFINE a == SubSeq(toSend, 1, n)
           b == SubSeq(toSend, n + 1, Len(toSend))
<1>4. /\ toSend \in Seq(Byte) /\ pipe \in Seq(Byte) /\ F \in Buffers
      /\ Len(toSend) \in Nat /\ \A i \in 1 .. Len(toSend) : toSend[i] \in Byte
  BY <1>1 DEF Types, Sound
<1>5. a \in Seq(Byte) /\ b \in Seq(Byte)
  <2>1. \A i \in 1 .. n : toSend[i] \in Byte
    BY <1>4
  <2>2. \A i \in n + 1 .. Len(toSend) : toSend[i] \in Byte
    BY <1>4
  <2>3. 1 \in Int /\ n \in Int /\ n + 1 \in Int /\ Len(toSend) \in Int
    BY <1>4
  <2> QED
    BY <2>1, <2>2, <2>3, SubSeqProperties
<1>6. a \o b = toSend
  <2>1. 1 \in 1 .. Len(toSend) + 1 /\ n \in 1 - 1 .. Len(toSend) /\ Len(toSend) \in n .. Len(toSend)
    BY <1>4
  <2>2. SubSeq(toSend, 1, n) \o SubSeq(toSend, n + 1, Len(toSend)) = SubSeq(toSend, 1, Len(toSend))
    BY <1>4, <2>1, ConcatAdjacentSubSeq
  <2>3. SubSeq(toSend, 1, Len(toSend)) = toSend
    BY <1>4, SubSeqFull
  <2> QED
    BY <2>2, <2>3
<1> HIDE DEF a, b
<1>7. pipe' = pipe \o a /\ toSend' = b
  BY <1>2 DEF a, b
<1>8. pipe' \in Seq(Byte) /\ toSend' \in Seq(Byte)
  BY <1>4, <1>5, <1>7, Joined, Zenon
<1>9. Bytes(F', pipe', toSend') = Bytes(F, pipe, toSend)
  <2>1. (pipe \o a) \o b = pipe \o (a \o b)
    BY <1>4, <1>5, Joined, Zenon
  <2>2. pipe' \o toSend' = pipe \o toSend
    BY <1>6, <1>7, <2>1
  <2> QED
    BY <1>3, <2>2 DEF Bytes
<1>10. AtEnd(F', pipe', dead')
  BY <1>1, <1>3 DEF Types, AtEnd
<1>11. ~F.is_eof => /\ Where(pc', item', r', neg', part', Bytes(F', pipe', toSend'))
                    /\ \A k \in 1 .. item' - 1 : got'[k] = Script[k].value
  <2>1. ~F.is_eof => InSync
    BY DEF Inv
  <2> QED
    BY <1>3, <1>9, <2>1 DEF InSync
<1> QED
  BY <1>1, <1>3, <1>8, <1>10, <1>11, InvNext DEF Types

\* The writer dies.
LEMMA DeathKeeps ==
  ASSUME Inv, WriterDies
  PROVE  Inv'
<1>1. /\ dead' = TRUE /\ F' = F /\ pc' = pc /\ item' = item /\ r' = r /\ neg' = neg
      /\ part' = part /\ got' = got /\ pipe' = pipe /\ toSend' = toSend
  BY DEF WriterDies
<1>2. Types /\ (~F.is_eof => InSync)
  BY DEF Inv
<1>3. AtEnd(F', pipe', dead')
  BY <1>1, <1>2 DEF Types, AtEnd
<1>4. ~F.is_eof => /\ Where(pc', item', r', neg', part', Bytes(F', pipe', toSend'))
                   /\ \A k \in 1 .. item' - 1 : got'[k] = Script[k].value
  BY <1>1, <1>2 DEF InSync
<1> QED
  BY <1>1, <1>2, <1>3, <1>4, InvNext DEF Types

\* White space in front of a number.
LEMMA SkipKeeps ==
  ASSUME Inv, SkipWhite
  PROVE  Inv'
<1> DEFINE H == s_getc(F, pipe)
           c == Got(F, pipe)
           Q == PipeAfter(F, pipe)
           b == Bytes(F, pipe, toSend)
           d == Bytes(H, Q, toSend)
<1>1. /\ pc = "skip" /\ Take(H, c) /\ ~H.is_eof /\ c \in White /\ F' = H
      /\ pc' = pc /\ item' = item /\ r' = r /\ neg' = neg /\ part' = part /\ got' = got
  BY DEF SkipWhite
<1>2. Taken(H, c, Q)
  BY <1>1, TakeIs
<1> HIDE DEF H, c, Q
<1>3. /\ Sound(H) /\ AtEnd(H, Q, dead) /\ Q \in Seq(Byte) /\ c \in Byte
      /\ Begins(b, c, d) /\ d \in Seq(Byte)
      /\ item \in 1 .. N /\ pipe' = Q /\ toSend' = toSend /\ dead' = dead /\ InSync
  BY <1>1, <1>2 DEF Taken, WellRead, Inv
<1> HIDE DEF b, d
<1>4. /\ Types /\ r = 0 /\ neg = 1 /\ part = <<>> /\ b \in {From(item), Blanks \o From(item)}
      /\ \A k \in 1 .. item - 1 : got[k] = Script[k].value
  BY <1>1, <1>3 DEF Inv, InSync, Where, b
<1>5. d = From(item)
  BY <1>1, <1>3, <1>4, NextInSkip
<1>6. Where(pc', item', r', neg', part', d)
  BY <1>1, <1>4, <1>5 DEF Where
<1>7. d = Bytes(F', pipe', toSend')
  BY <1>1, <1>3 DEF d
<1>8. \A k \in 1 .. item' - 1 : got'[k] = Script[k].value
  BY <1>1, <1>4
<1> QED
  BY <1>1, <1>3, <1>4, <1>6, <1>7, <1>8, InvNext DEF Types

\* The sign of a number.
LEMMA SignKeeps ==
  ASSUME Inv, Sign
  PROVE  Inv'
<1> DEFINE H == s_getc(F, pipe)
           c == Got(F, pipe)
           Q == PipeAfter(F, pipe)
           b == Bytes(F, pipe, toSend)
           d == Bytes(H, Q, toSend)
           t == Text(Number(item))
<1>1. /\ pc = "skip" /\ Take(H, c) /\ c = "-" /\ F' = H
      /\ pc' = "digits" /\ item' = item /\ r' = r /\ neg' = -1 /\ part' = part /\ got' = got
  BY DEF Sign
<1>2. Taken(H, c, Q)
  BY <1>1, TakeIs
<1> HIDE DEF H, c, Q
<1>3. /\ Sound(H) /\ AtEnd(H, Q, dead) /\ Q \in Seq(Byte) /\ c \in Byte
      /\ Begins(b, c, d) /\ d \in Seq(Byte)
      /\ item \in 1 .. N /\ pipe' = Q /\ toSend' = toSend /\ dead' = dead /\ InSync
  BY <1>1, <1>2, Basics DEF Taken, WellRead, Inv
<1> HIDE DEF b, d
<1>4. /\ Types /\ r = 0 /\ neg = 1 /\ part = <<>> /\ b \in {From(item), Blanks \o From(item)}
      /\ \A k \in 1 .. item - 1 : got[k] = Script[k].value
  BY <1>1, <1>3 DEF Inv, InSync, Where, b
<1>5. Goes(Number(item), 0, c) /\ d = Ahead(t, 1, After(item))
  BY <1>1, <1>3, <1>4, Basics, NextInSkip
<1>6. Number(item) \in -IntMax .. IntMax /\ Len(t) \in Nat \ {0}
  BY <1>3, ItemIs
<1> HIDE DEF t
<1>7. Reads(Number(item), 1, r', neg')
  <2>1. Reads(Number(item), 0, 0, 1)
    BY <1>6, TextIs
  <2>2. Reads(Number(item), 0 + 1, 0, -1)
    BY <1>1, <1>5, <2>1, Zenon DEF Goes
  <2>3. 0 + 1 = 1
    OBVIOUS
  <2> QED
    BY <1>1, <1>4, <2>2, <2>3
<1>8. Where(pc', item', r', neg', part', d)
  <2>1. 1 \in 1 .. Len(t)
    BY <1>6
  <2> QED
    BY <1>1, <1>4, <1>5, <1>7, <2>1 DEF Where, t
<1>9. d = Bytes(F', pipe', toSend')
  BY <1>1, <1>3 DEF d
<1>10. \A k \in 1 .. item' - 1 : got'[k] = Script[k].value
  BY <1>1, <1>4
<1>11. r' \in 0 .. IntMax /\ neg' \in {1, -1} /\ item' <= N
  BY <1>1, <1>3, <1>4, Basics
<1> QED
  BY <1>1, <1>3, <1>4, <1>8, <1>9, <1>10, <1>11, InvNext DEF Types

\* A digit.
LEMMA DigitKeeps ==
  ASSUME Inv, NextDigit
  PROVE  Inv'
<1> DEFINE H == s_getc(F, pipe)
           c == Got(F, pipe)
           Q == PipeAfter(F, pipe)
           b == Bytes(F, pipe, toSend)
           d == Bytes(H, Q, toSend)
           t == Text(Number(item))
<1>1. /\ pc \in {"skip", "digits"} /\ Take(H, c) /\ c \in Digits /\ F' = H
      /\ pc' = "digits" /\ item' = item /\ r' = r * 10 + ValueOf[c] /\ neg' = neg
      /\ part' = part /\ got' = got
  BY DEF NextDigit
<1>2. Taken(H, c, Q)
  BY <1>1, TakeIs
<1> HIDE DEF H, c, Q
<1>3. /\ Sound(H) /\ AtEnd(H, Q, dead) /\ Q \in Seq(Byte) /\ c \in Byte
      /\ Begins(b, c, d) /\ d \in Seq(Byte)
      /\ item \in 1 .. N /\ pipe' = Q /\ toSend' = toSend /\ dead' = dead /\ InSync
  BY <1>1, <1>2, Basics DEF Taken, WellRead, Inv
<1> HIDE DEF b, d
<1>4. Types /\ \A k \in 1 .. item - 1 : got[k] = Script[k].value
  BY <1>3 DEF Inv, InSync
<1>5. Number(item) \in -IntMax .. IntMax /\ Len(t) \in Nat \ {0}
  BY <1>3, ItemIs
<1>6. c # "-" /\ c \notin White
  BY <1>1, Basics
<1>7. /\ part = <<>>
      /\ \E j \in 0 .. Len(t) - 1 :
           Reads(Number(item), j + 1, r', neg') /\ d = Ahead(t, j + 1, After(item))
  <2>1. CASE pc = "skip"
    <3>1. r = 0 /\ neg = 1 /\ part = <<>> /\ b \in {From(item), Blanks \o From(item)}
      BY <1>3, <2>1 DEF InSync, Where, b
    <3>2. Goes(Number(item), 0, c) /\ d = Ahead(t, 0 + 1, After(item))
      <4>1. Goes(Number(item), 0, c) /\ d = Ahead(t, 1, After(item))
        BY <1>3, <1>6, <3>1, NextInSkip
      <4>2. 0 + 1 = 1
        OBVIOUS
      <4> QED
        BY <4>1, <4>2, Zenon
    <3>3. Reads(Number(item), 0, 0, 1)
      BY <1>5, TextIs
    <3>4. Reads(Number(item), 0 + 1, r', neg')
      BY <1>1, <1>6, <3>1, <3>2, <3>3, Zenon DEF Goes
    <3>5. 0 \in 0 .. Len(t) - 1
      BY <1>5
    <3> HIDE DEF t
    <3> QED
      BY <3>1, <3>2, <3>4, <3>5, Zenon
  <2>2. CASE pc = "digits"
    <3>1. /\ part = <<>>
          /\ \E j \in 1 .. Len(t) : Reads(Number(item), j, r, neg) /\ b = Ahead(t, j, After(item))
      BY <1>3, <2>2 DEF InSync, Where, b
    <3>2. PICK j \in 1 .. Len(t) : Reads(Number(item), j, r, neg) /\ b = Ahead(t, j, After(item))
      BY <3>1
    <3>3. /\ j < Len(t) => Goes(Number(item), j, c) /\ d = Ahead(t, j + 1, After(item))
          /\ j = Len(t) => c \notin Digits
      BY <1>3, <3>2, NextInDigits
    <3> HIDE DEF t
    <3>4. j < Len(t) /\ j \in 0 .. Len(t) - 1
      BY <1>1, <1>5, <3>3
    <3>5. Reads(Number(item), j + 1, r', neg')
      BY <1>1, <1>6, <3>2, <3>3, <3>4, Zenon DEF Goes
    <3> QED
      BY <3>1, <3>3, <3>4, <3>5
  <2> QED
    BY <1>1, <2>1, <2>2
<1> HIDE DEF t
<1>8. PICK j \in 0 .. Len(t) - 1 :
        Reads(Number(item), j + 1, r', neg') /\ d = Ahead(t, j + 1, After(item))
  BY <1>7
<1>9. j + 1 \in 1 .. Len(t) /\ j + 1 \in 0 .. Len(t)
  BY <1>5
<1>10. r' \in 0 .. IntMax
  BY <1>5, <1>8, <1>9, TextIs DEF t
<1>11. Where(pc', item', r', neg', part', d)
  BY <1>1, <1>7, <1>8, <1>9 DEF Where, t
<1>12. d = Bytes(F', pipe', toSend')
  BY <1>1, <1>3 DEF d
<1>13. \A k \in 1 .. item' - 1 : got'[k] = Script[k].value
  BY <1>1, <1>4
<1>14. item' <= N
  BY <1>1, <1>3, Basics
<1> QED
  BY <1>1, <1>3, <1>4, <1>10, <1>11, <1>12, <1>13, <1>14, InvNext DEF Types

\* Behind the last digit the reader has the number, where it is in step.
LEMMA EndIs ==
  ASSUME NEW k \in 1 .. N, pc \in {"skip", "digits"},
         Where(pc, k, r, neg, part, Bytes(F, pipe, toSend)),
         NEW c \in Byte, NEW d \in Seq(Byte), Begins(Bytes(F, pipe, toSend), c, d),
         c \notin Digits, pc = "skip" => c # "-" /\ c \notin White
  PROVE  r * neg = Number(k) /\ part = <<>> /\ Bytes(F, pipe, toSend) = After(k)
<1> DEFINE b == Bytes(F, pipe, toSend)
           t == Text(Number(k))
<1>1. Begins(b, c, d) /\ Where(pc, k, r, neg, part, b)
  OBVIOUS
<1> HIDE DEF b
<1>2. pc = "digits"
  <2>1. SUFFICES ASSUME pc = "skip" PROVE FALSE
    OBVIOUS
  <2>2. b \in {From(k), Blanks \o From(k)}
    BY <1>1, <2>1 DEF Where
  <2>3. Goes(Number(k), 0, c)
    BY <1>1, <2>1, <2>2, NextInSkip
  <2>4. c \in Digits \union {"-"}
    BY <2>3 DEF Goes
  <2> QED
    BY <2>1, <2>4
<1>3. /\ part = <<>>
      /\ \E j \in 1 .. Len(t) : Reads(Number(k), j, r, neg) /\ b = Ahead(t, j, After(k))
  BY <1>1, <1>2 DEF Where
<1>4. PICK j \in 1 .. Len(t) : Reads(Number(k), j, r, neg) /\ b = Ahead(t, j, After(k))
  BY <1>3
<1>5. Begins(Ahead(t, j, After(k)), c, d)
  BY <1>1, <1>4, Zenon
<1>6. /\ j < Len(t) => c \in Digits
      /\ j = Len(t) => Ahead(t, j, After(k)) = After(k)
  BY <1>5, NextInDigits
<1>7. Number(k) \in -IntMax .. IntMax /\ Len(t) \in Nat
  BY ItemIs
<1>8. \A m, sign : Reads(Number(k), Len(t), m, sign) => m * sign = Number(k)
  BY <1>7, TextIs
<1> HIDE DEF t
<1>9. j = Len(t)
  BY <1>6, <1>7
<1>10. b = After(k)
  BY <1>4, <1>6, <1>9
<1>11. r * neg = Number(k)
  BY <1>4, <1>8, <1>9
<1> QED
  BY <1>3, <1>10, <1>11 DEF b

\* The end of a number.
LEMMA EndKeeps ==
  ASSUME Inv, EndOfInt
  PROVE  Inv'
<1> DEFINE H == s_getc(F, pipe)
           c == Got(F, pipe)
           Q == PipeAfter(F, pipe)
           U == s_ungetc(c, H)
           b == Bytes(F, pipe, toSend)
           d == Bytes(H, Q, toSend)
           v == r * neg
<1>1. /\ pc \in {"skip", "digits"} /\ Take(H, c) /\ c \notin Digits
      /\ pc = "skip" => c # "-" /\ (H.is_eof \/ c \notin White)
      /\ F' = U
      /\ IF Script[item].kind = "int" THEN Returned(v)
         ELSE pc' = "blank" /\ item' = item /\ r' = r /\ neg' = neg /\ part' = part /\ got' = got
  BY DEF EndOfInt
<1>2. Taken(H, c, Q)
  BY <1>1, TakeIs
<1> HIDE DEF H, c, Q
<1>3. /\ Q \in Seq(Byte) /\ c \in Byte /\ toSend \in Seq(Byte) /\ dead \in BOOLEAN
      /\ item \in 1 .. N /\ pipe' = Q /\ toSend' = toSend /\ dead' = dead
      /\ WellRead(F, pipe, toSend, dead, H, Q, c)
      /\ H.is_eof \in BOOLEAN
      /\ ~H.is_eof => InSync /\ Begins(b, c, d) /\ d \in Seq(Byte)
  <2>1. WellRead(F, pipe, toSend, dead, H, Q, c) /\ d \in Seq(Byte)
    BY <1>2 DEF Taken
  <2> HIDE DEF b, d
  <2>2. ~F.is_eof => InSync
    BY DEF Inv
  <2>3. ~H.is_eof => ~F.is_eof /\ Begins(b, c, d)
    BY <2>1 DEF WellRead, b, d
  <2>4. H.is_eof \in BOOLEAN
    BY <2>1 DEF WellRead, Sound, Buffers
  <2> QED
    BY <1>2, <2>1, <2>2, <2>3, <2>4 DEF Taken, WellRead, Inv, Types
<1>4. /\ Sound(U) /\ U.is_eof = H.is_eof /\ AtEnd(U, Q, dead)
      /\ ~H.is_eof => Bytes(U, Q, toSend) = b
  <2>1. WellRead(F, pipe, toSend, dead, H, Q, c) /\ toSend \in Seq(Byte)
    BY <1>3
  <2>2. PutBack(F, pipe, toSend, dead, H, Q, U)
    BY <2>1, UngetWorks, Zenon
  <2> HIDE DEF U
  <2> QED
    BY <2>2 DEF PutBack
<1> HIDE DEF U, b, d
<1>5. ~H.is_eof => v = Number(item) /\ part = <<>> /\ b = After(item)
  <2>1. SUFFICES ASSUME ~H.is_eof PROVE v = Number(item) /\ part = <<>> /\ b = After(item)
    OBVIOUS
  <2>2. Where(pc, item, r, neg, part, b) /\ Begins(b, c, d) /\ d \in Seq(Byte)
    BY <1>3, <2>1 DEF InSync, b
  <2>3. pc = "skip" => c # "-" /\ c \notin White
    BY <1>1, <2>1
  <2> QED
    BY <1>1, <1>3, <2>2, <2>3, EndIs DEF b
<1>6. v \in -IntMax .. IntMax /\ r \in 0 .. IntMax /\ neg \in {1, -1}
  <2>1. r \in 0 .. IntMax /\ neg \in {1, -1} /\ IntMax \in Nat
    BY Basics DEF Inv, Types
  <2>2. neg = 1 \/ neg = -1
    BY <2>1
  <2>3. v \in -IntMax .. IntMax
    <3>1. CASE neg = 1
      BY <2>1, <3>1
    <3>2. CASE neg = -1
      BY <2>1, <3>2
    <3> QED
      BY <2>2, <3>1, <3>2
  <2> QED
    BY <2>1, <2>3
<1> HIDE DEF v
<1>7. ~F'.is_eof => ~H.is_eof /\ Bytes(F', pipe', toSend') = After(item)
  BY <1>1, <1>3, <1>4, <1>5
<1>8. Sound(F') /\ AtEnd(F', pipe', dead') /\ toSend' \in Seq(Byte) /\ pipe' \in Seq(Byte) /\ dead' \in BOOLEAN
  BY <1>1, <1>3, <1>4
<1>9. CASE Script[item].kind = "int"
  <2>1. Returned(v)
    BY <1>1, <1>9
  <2>2. ValueOK(item, v)
    BY <1>6, <1>9 DEF ValueOK
  <2>3. /\ got' \in Seq(Values) /\ Len(got') = item' - 1 /\ item' \in 1 .. N + 1
        /\ \A k \in 1 .. item' - 1 : ValueOK(k, got'[k])
        /\ InSync /\ v = Script[item].value =>
             \A k \in 1 .. item' - 1 : got'[k] = Script[k].value
        /\ r' = 0 /\ neg' = 1 /\ part' = <<>> /\ pc' = "skip" /\ item' = item + 1
    BY <1>3, <2>1, <2>2, GotOne
  <2>4. Number(item) = Script[item].value /\ After(item) = Blanks \o From(item + 1)
    BY <1>9 DEF Number, After
  <2>5. ~F'.is_eof => /\ Where(pc', item', r', neg', part', Bytes(F', pipe', toSend'))
                      /\ \A k \in 1 .. item' - 1 : got'[k] = Script[k].value
    <3>1. SUFFICES ASSUME ~F'.is_eof
                   PROVE  /\ Where(pc', item', r', neg', part', Bytes(F', pipe', toSend'))
                          /\ \A k \in 1 .. item' - 1 : got'[k] = Script[k].value
      OBVIOUS
    <3>2. Bytes(F', pipe', toSend') = Blanks \o From(item')
      BY <1>7, <2>3, <2>4, <3>1
    <3>3. Where(pc', item', r', neg', part', Bytes(F', pipe', toSend'))
      BY <2>3, <3>2 DEF Where
    <3>4. InSync /\ v = Script[item].value
      BY <1>3, <1>5, <1>7, <2>4, <3>1
    <3> QED
      BY <2>3, <3>3, <3>4
  <2>6. pc' # "blank" /\ pc' # "bytes" /\ pc' = "skip"
    BY <2>3
  <2> QED
    BY <1>8, <2>3, <2>5, <2>6, Basics, InvNext
<1>10. CASE Script[item].kind # "int"
  <2>1. pc' = "blank" /\ item' = item /\ r' = r /\ neg' = neg /\ part' = part /\ got' = got
    BY <1>1, <1>10
  <2>2. /\ got' \in Seq(Values) /\ Len(got') = item' - 1 /\ item' \in 1 .. N + 1
        /\ \A k \in 1 .. item' - 1 : ValueOK(k, got'[k])
        /\ InSync => \A k \in 1 .. item' - 1 : got'[k] = Script[k].value
    BY <2>1, GotKept
  <2>3. ~F'.is_eof => /\ Where(pc', item', r', neg', part', Bytes(F', pipe', toSend'))
                      /\ \A k \in 1 .. item' - 1 : got'[k] = Script[k].value
    BY <1>3, <1>5, <1>7, <2>1, <2>2 DEF Where, v
  <2>4. part' \in Seq(Byte) /\ item' <= N /\ Script[item'].kind # "int"
    BY <1>3, <1>10, <2>1, Basics DEF Inv, Types
  <2> QED
    BY <1>6, <1>8, <2>1, <2>2, <2>3, <2>4, InvNext
<1> QED
  BY <1>9, <1>10

\* The blank behind the length of a string.
LEMMA BlankKeeps ==
  ASSUME Inv, Blank
  PROVE  Inv'
<1> DEFINE H == s_getc(F, pipe)
           c == Got(F, pipe)
           Q == PipeAfter(F, pipe)
           b == Bytes(F, pipe, toSend)
           d == Bytes(H, Q, toSend)
           v == Script[item].value
<1>1. /\ pc = "blank" /\ Take(H, c) /\ F' = H
      /\ IF r * neg <= 0 THEN Returned(<<>>)
         ELSE pc' = "bytes" /\ item' = item /\ r' = r /\ neg' = neg /\ part' = part /\ got' = got
  BY DEF Blank
<1>2. Taken(H, c, Q)
  BY <1>1, TakeIs
<1> HIDE DEF H, c, Q
<1>3. /\ Sound(H) /\ AtEnd(H, Q, dead) /\ Q \in Seq(Byte) /\ c \in Byte
      /\ item \in 1 .. N /\ pipe' = Q /\ toSend' = toSend /\ dead' = dead
      /\ toSend \in Seq(Byte) /\ dead \in BOOLEAN /\ d \in Seq(Byte)
      /\ ~H.is_eof => InSync /\ Begins(b, c, d)
  <2>1. WellRead(F, pipe, toSend, dead, H, Q, c) /\ d \in Seq(Byte)
    BY <1>2 DEF Taken
  <2> HIDE DEF b, d
  <2>2. ~H.is_eof => ~F.is_eof /\ Begins(b, c, d)
    BY <2>1 DEF WellRead, b, d
  <2> QED
    BY <1>2, <2>1, <2>2 DEF Taken, WellRead, Inv, Types
<1> HIDE DEF b, d, v
<1>4. /\ Script[item].kind # "int" /\ v \in Seq(Byte) /\ Len(v) \in Nat
      /\ r \in 0 .. IntMax /\ neg \in {1, -1} /\ part \in Seq(Byte)
  <2>1. Script[item].kind # "int" /\ r \in 0 .. IntMax /\ neg \in {1, -1} /\ part \in Seq(Byte)
    BY <1>1 DEF Inv, Types
  <2>2. v \in Seq(Byte)
    BY <1>3, <2>1, ItemIs DEF v
  <2> QED
    BY <2>1, <2>2
<1>5. ~H.is_eof => /\ r * neg = Number(item) /\ part = <<>> /\ Number(item) = Len(v)
                   /\ d = Ahead(v, 0, Blanks \o From(item + 1))
                   /\ Len(v) = 0 => v = <<>> /\ d = Blanks \o From(item + 1)
  <2>1. SUFFICES ASSUME ~H.is_eof
                 PROVE  /\ r * neg = Number(item) /\ part = <<>> /\ Number(item) = Len(v)
                        /\ d = Ahead(v, 0, Blanks \o From(item + 1))
                        /\ Len(v) = 0 => v = <<>> /\ d = Blanks \o From(item + 1)
    OBVIOUS
  <2>2. r * neg = Number(item) /\ part = <<>> /\ b = After(item)
    BY <1>1, <1>3, <2>1 DEF InSync, Where, b
  <2>3. Begins(After(item), c, d)
    BY <1>3, <2>1, <2>2, Zenon
  <2> QED
    BY <1>3, <1>4, <2>2, <2>3, NextInBlank DEF v
<1>6. ~F'.is_eof => ~H.is_eof /\ InSync /\ Bytes(F', pipe', toSend') = d
  BY <1>1, <1>3 DEF d
<1>7. Sound(F') /\ AtEnd(F', pipe', dead') /\ toSend' \in Seq(Byte) /\ pipe' \in Seq(Byte) /\ dead' \in BOOLEAN
  BY <1>1, <1>3
<1>8. CASE r * neg <= 0
  <2>1. Returned(<<>>)
    BY <1>1, <1>8
  <2>2. ValueOK(item, <<>>)
    BY <1>4, Basics DEF ValueOK
  <2>3. /\ got' \in Seq(Values) /\ Len(got') = item' - 1 /\ item' \in 1 .. N + 1
        /\ \A k \in 1 .. item' - 1 : ValueOK(k, got'[k])
        /\ InSync /\ <<>> = Script[item].value =>
             \A k \in 1 .. item' - 1 : got'[k] = Script[k].value
        /\ r' = 0 /\ neg' = 1 /\ part' = <<>> /\ pc' = "skip" /\ item' = item + 1
    BY <1>3, <2>1, <2>2, GotOne
  <2>4. ~F'.is_eof => /\ Where(pc', item', r', neg', part', Bytes(F', pipe', toSend'))
                      /\ \A k \in 1 .. item' - 1 : got'[k] = Script[k].value
    <3>1. SUFFICES ASSUME ~F'.is_eof
                   PROVE  /\ Where(pc', item', r', neg', part', Bytes(F', pipe', toSend'))
                          /\ \A k \in 1 .. item' - 1 : got'[k] = Script[k].value
      OBVIOUS
    <3>2. Len(v) = 0
      <4> DEFINE w == r * neg
      <4>1. w <= 0 /\ w = Len(v)
        BY <1>5, <1>6, <1>8, <3>1
      <4> HIDE DEF w
      <4> QED
        BY <1>4, <4>1
    <3>3. v = <<>> /\ d = Blanks \o From(item')
      BY <1>5, <1>6, <2>3, <3>1, <3>2
    <3>4. Where(pc', item', r', neg', part', Bytes(F', pipe', toSend'))
      BY <1>6, <2>3, <3>1, <3>3 DEF Where
    <3>5. InSync /\ <<>> = Script[item].value
      BY <1>6, <3>1, <3>3 DEF v
    <3> QED
      BY <2>3, <3>4, <3>5
  <2>5. pc' # "blank" /\ pc' # "bytes" /\ pc' = "skip"
    BY <2>3
  <2> QED
    BY <1>7, <2>3, <2>4, <2>5, Basics, InvNext
<1>9. CASE ~(r * neg <= 0)
  <2>1. pc' = "bytes" /\ item' = item /\ r' = r /\ neg' = neg /\ part' = part /\ got' = got
    BY <1>1, <1>9
  <2>2. /\ got' \in Seq(Values) /\ Len(got') = item' - 1 /\ item' \in 1 .. N + 1
        /\ \A k \in 1 .. item' - 1 : ValueOK(k, got'[k])
        /\ InSync => \A k \in 1 .. item' - 1 : got'[k] = Script[k].value
    BY <2>1, GotKept
  <2>3. ~F'.is_eof => Where(pc', item', r', neg', part', Bytes(F', pipe', toSend'))
    <3>1. SUFFICES ASSUME ~F'.is_eof
                   PROVE  Where(pc', item', r', neg', part', Bytes(F', pipe', toSend'))
      OBVIOUS
    <3>2. /\ r * neg = Number(item) /\ part = <<>> /\ Number(item) = Len(v)
          /\ Bytes(F', pipe', toSend') = Ahead(v, 0, Blanks \o From(item + 1))
      BY <1>5, <1>6, <3>1
    <3>3. 0 < Number(item)
      <4> DEFINE w == r * neg
      <4>1. ~(w <= 0) /\ w = Number(item) /\ Number(item) \in Nat
        BY <1>4, <1>9, <3>2
      <4> HIDE DEF w
      <4> QED
        BY <4>1
    <3>4. Len(part) = 0 /\ part = SubSeq(v, 1, Len(part))
      BY <1>4, <3>2
    <3>5. Len(part) < Number(item)
      BY <3>3, <3>4
    <3>6. Bytes(F', pipe', toSend') = Ahead(v, Len(part), Blanks \o From(item + 1))
      BY <3>2, <3>4
    <3> QED
      BY <2>1, <3>2, <3>4, <3>5, <3>6, Zenon DEF Where, v
  <2>4. item' <= N /\ Script[item'].kind # "int"
    BY <1>3, <1>4, <2>1, Basics
  <2>5. ~F'.is_eof => \A k \in 1 .. item' - 1 : got'[k] = Script[k].value
    BY <1>6, <2>2
  <2> QED
    BY <1>4, <1>7, <2>1, <2>2, <2>3, <2>4, <2>5, InvNext
<1> QED
  BY <1>8, <1>9

\* A byte of a string.
LEMMA ByteKeeps ==
  ASSUME Inv, StringByte
  PROVE  Inv'
<1> DEFINE H == s_getc(F, pipe)
           c == Got(F, pipe)
           Q == PipeAfter(F, pipe)
           b == Bytes(F, pipe, toSend)
           d == Bytes(H, Q, toSend)
           v == Script[item].value
           u == Append(part, c)
           w == r * neg
<1>1. /\ pc = "bytes" /\ Take(H, c) /\ F' = H
      /\ IF Len(part) + 1 = w THEN Returned(u)
         ELSE part' = u /\ pc' = pc /\ item' = item /\ r' = r /\ neg' = neg /\ got' = got
  BY DEF StringByte
<1>2. Taken(H, c, Q)
  BY <1>1, TakeIs
<1> HIDE DEF H, c, Q
<1>3. /\ Sound(H) /\ AtEnd(H, Q, dead) /\ Q \in Seq(Byte) /\ c \in Byte
      /\ item \in 1 .. N /\ pipe' = Q /\ toSend' = toSend /\ dead' = dead
      /\ toSend \in Seq(Byte) /\ dead \in BOOLEAN /\ d \in Seq(Byte)
      /\ ~H.is_eof => InSync /\ Begins(b, c, d)
  <2>1. WellRead(F, pipe, toSend, dead, H, Q, c) /\ d \in Seq(Byte)
    BY <1>2 DEF Taken
  <2> HIDE DEF b, d, u, w
  <2>2. ~H.is_eof => ~F.is_eof /\ Begins(b, c, d)
    BY <2>1 DEF WellRead, b, d
  <2> QED
    BY <1>2, <2>1, <2>2 DEF Taken, WellRead, Inv, Types
<1>4. Script[item].kind # "int" /\ part \in Seq(Byte) /\ Len(part) \in Nat
  BY <1>1 DEF Inv, Types
<1>5. r \in 0 .. IntMax /\ neg \in {1, -1}
  BY DEF Inv, Types
<1>6. u \in Seq(Byte) /\ Len(u) = Len(part) + 1
  BY <1>3, <1>4
<1> HIDE DEF b, d, v
<1>7. ~H.is_eof =>
        /\ w = Number(item) /\ Len(part) < Number(item)
        /\ d = Ahead(v, Len(part) + 1, Blanks \o From(item + 1))
        /\ u = SubSeq(v, 1, Len(part) + 1)
        /\ Len(part) + 1 = Number(item) => u = v /\ d = Blanks \o From(item + 1)
  <2>1. SUFFICES ASSUME ~H.is_eof
                 PROVE  /\ w = Number(item) /\ Len(part) < Number(item)
                        /\ d = Ahead(v, Len(part) + 1, Blanks \o From(item + 1))
                        /\ u = SubSeq(v, 1, Len(part) + 1)
                        /\ Len(part) + 1 = Number(item) => u = v /\ d = Blanks \o From(item + 1)
    OBVIOUS
  <2>2. /\ w = Number(item) /\ Len(part) < Number(item)
        /\ part = SubSeq(Script[item].value, 1, Len(part))
        /\ b = Ahead(Script[item].value, Len(part), Blanks \o From(item + 1))
    BY <1>1, <1>3, <2>1 DEF InSync, Where, b
  <2>3. Begins(Ahead(Script[item].value, Len(part), Blanks \o From(item + 1)), c, d)
    BY <1>3, <2>1, <2>2, Zenon
  <2> DEFINE j == Len(part)
  <2>4. j \in Nat /\ j < Number(item) /\ part = SubSeq(Script[item].value, 1, j)
        /\ Begins(Ahead(Script[item].value, j, Blanks \o From(item + 1)), c, d)
    BY <1>4, <2>2, <2>3
  <2> HIDE DEF j, u
  <2>5. /\ d = Ahead(Script[item].value, j + 1, Blanks \o From(item + 1))
        /\ Append(part, c) = SubSeq(Script[item].value, 1, j + 1)
        /\ j + 1 = Number(item) => Append(part, c) = Script[item].value /\ d = Blanks \o From(item + 1)
    <3>1. item \in 1 .. N /\ Script[item].kind # "int" /\ c \in Byte /\ d \in Seq(Byte)
      BY <1>3, <1>4
    <3> QED
      BY <2>4, <3>1, NextInBytes, Zenon
  <2> QED
    BY <2>2, <2>5 DEF j, u, v
<1> HIDE DEF u, w
<1>8. ~F'.is_eof => ~H.is_eof /\ InSync /\ Bytes(F', pipe', toSend') = d
  BY <1>1, <1>3 DEF d
<1>9. Sound(F') /\ AtEnd(F', pipe', dead') /\ toSend' \in Seq(Byte) /\ pipe' \in Seq(Byte) /\ dead' \in BOOLEAN
  BY <1>1, <1>3
<1>10. CASE Len(part) + 1 = w
  <2>1. Returned(u)
    BY <1>1, <1>10
  <2>2. ValueOK(item, u)
    BY <1>4, <1>6 DEF ValueOK
  <2>3. /\ got' \in Seq(Values) /\ Len(got') = item' - 1 /\ item' \in 1 .. N + 1
        /\ \A k \in 1 .. item' - 1 : ValueOK(k, got'[k])
        /\ InSync /\ u = Script[item].value =>
             \A k \in 1 .. item' - 1 : got'[k] = Script[k].value
        /\ r' = 0 /\ neg' = 1 /\ part' = <<>> /\ pc' = "skip" /\ item' = item + 1
    BY <1>3, <2>1, <2>2, GotOne
  <2>4. ~F'.is_eof => /\ Where(pc', item', r', neg', part', Bytes(F', pipe', toSend'))
                      /\ \A k \in 1 .. item' - 1 : got'[k] = Script[k].value
    <3>1. SUFFICES ASSUME ~F'.is_eof
                   PROVE  /\ Where(pc', item', r', neg', part', Bytes(F', pipe', toSend'))
                          /\ \A k \in 1 .. item' - 1 : got'[k] = Script[k].value
      OBVIOUS
    <3>2. u = v /\ d = Blanks \o From(item')
      BY <1>7, <1>8, <1>10, <2>3, <3>1
    <3>3. Where(pc', item', r', neg', part', Bytes(F', pipe', toSend'))
      BY <1>8, <2>3, <3>1, <3>2 DEF Where
    <3>4. InSync /\ u = Script[item].value
      BY <1>8, <3>1, <3>2 DEF v
    <3> QED
      BY <2>3, <3>3, <3>4
  <2>5. pc' # "blank" /\ pc' # "bytes" /\ pc' = "skip"
    BY <2>3
  <2> QED
    BY <1>9, <2>3, <2>4, <2>5, Basics, InvNext
<1>11. CASE Len(part) + 1 # w
  <2>1. part' = u /\ pc' = "bytes" /\ item' = item /\ r' = r /\ neg' = neg /\ got' = got
    BY <1>1, <1>11
  <2>2. /\ got' \in Seq(Values) /\ Len(got') = item' - 1 /\ item' \in 1 .. N + 1
        /\ \A k \in 1 .. item' - 1 : ValueOK(k, got'[k])
        /\ InSync => \A k \in 1 .. item' - 1 : got'[k] = Script[k].value
    BY <2>1, GotKept
  <2>3. ~F'.is_eof => Where(pc', item', r', neg', part', Bytes(F', pipe', toSend'))
    <3>1. SUFFICES ASSUME ~F'.is_eof
                   PROVE  Where(pc', item', r', neg', part', Bytes(F', pipe', toSend'))
      OBVIOUS
    <3>2. /\ w = Number(item) /\ Len(part) < Number(item)
          /\ Bytes(F', pipe', toSend') = Ahead(v, Len(part) + 1, Blanks \o From(item + 1))
          /\ u = SubSeq(v, 1, Len(part) + 1)
      BY <1>7, <1>8, <3>1
    <3>3. Number(item) \in -IntMax .. IntMax /\ IntMax \in Nat
      BY <1>3, ItemIs, Basics
    <3>4. Len(u) < Number(item)
      BY <1>4, <1>6, <1>11, <3>2, <3>3
    <3>5. /\ u = SubSeq(v, 1, Len(u))
          /\ Bytes(F', pipe', toSend') = Ahead(v, Len(u), Blanks \o From(item + 1))
      BY <1>6, <3>2
    <3>6. r' * neg' = Number(item')
      BY <2>1, <3>2 DEF w
    <3> QED
      BY <2>1, <3>4, <3>5, <3>6, Zenon DEF Where, v
  <2>4. item' <= N /\ Script[item'].kind # "int"
    BY <1>3, <1>4, <2>1, Basics
  <2>5. ~F'.is_eof => \A k \in 1 .. item' - 1 : got'[k] = Script[k].value
    BY <1>8, <2>2
  <2> QED
    BY <1>5, <1>6, <1>9, <2>1, <2>2, <2>3, <2>4, <2>5, InvNext
<1> QED
  BY <1>10, <1>11

\* The end of the file in a string.
LEMMA CutKeeps ==
  ASSUME Inv, StringCut
  PROVE  Inv'
<1>1. /\ pc = "bytes" /\ F.is_eof /\ Returned(part)
      /\ toSend' = toSend /\ pipe' = pipe /\ dead' = dead /\ F' = F
  BY DEF StringCut, s_iseof
<1>2. Types
  BY DEF Inv
<1>3. item \in 1 .. N /\ Script[item].kind # "int"
  BY <1>1, <1>2, Basics DEF Types
<1>4. ValueOK(item, part)
  BY <1>2, <1>3 DEF Types, ValueOK
<1>5. /\ got' \in Seq(Values) /\ Len(got') = item' - 1 /\ item' \in 1 .. N + 1
      /\ \A k \in 1 .. item' - 1 : ValueOK(k, got'[k])
      /\ r' = 0 /\ neg' = 1 /\ part' = <<>> /\ pc' = "skip" /\ item' = item + 1
  BY <1>1, <1>3, <1>4, GotOne
<1>6. Sound(F') /\ AtEnd(F', pipe', dead') /\ toSend' \in Seq(Byte) /\ pipe' \in Seq(Byte) /\ dead' \in BOOLEAN
  BY <1>1, <1>2 DEF Types
<1>7. F'.is_eof
  BY <1>1
<1>8. pc' # "blank" /\ pc' # "bytes" /\ pc' = "skip"
  BY <1>5
<1> QED
  BY <1>5, <1>6, <1>7, <1>8, Basics, InvNext

-----------------------------------------------------------------------------
(* The theorem                                                             *)

\* The reader begins at the first item, with all of the stream ahead.
LEMMA InvInit ==
  ASSUME Init
  PROVE  Inv
<1>1. /\ toSend = From(1) /\ pipe = <<>> /\ dead = FALSE /\ F = s_open
      /\ pc = "skip" /\ item = 1 /\ r = 0 /\ neg = 1 /\ part = <<>> /\ got = <<>>
  BY FromIs DEF Init
<1>2. N \in Nat /\ From(1) \in Seq(Byte) /\ 1 \in 1 .. N + 1
  <2>1. N \in Nat /\ 1 \in 1 .. N + 1
    BY FromIs
  <2> QED
    BY <2>1, FromIs
<1>3. Sound(F) /\ F.is_eof = FALSE /\ F.bp = 0 /\ F.end = 0
  <2>1. Cleared \in [0 .. BuffLen - 1 -> Byte]
    BY DEF Cleared, Byte, White
  <2>2. 0 \in -1 .. BuffLen - 1 /\ 0 \in 0 .. BuffLen - 1
    BY BuffLenAssumption
  <2> QED
    BY <1>1, <2>1, <2>2 DEF s_open, Sound, Buffers
<1>4. Bytes(F, pipe, toSend) = From(1)
  <2>1. Unread(F) \in Seq(Byte) /\ Len(Unread(F)) = 0
    <3>1. F \in Buffers /\ ~(F.bp < F.end)
      BY <1>3 DEF Sound
    <3> QED
      BY <3>1, BufferIs
  <2>2. Unread(F) = <<>>
    BY <2>1
  <2> DEFINE x == From(1)
  <2>3. x \in Seq(Byte)
    BY <1>2
  <2> HIDE DEF x
  <2>4. <<>> \o x = x
    BY <2>3, ConcatEmptySeq
  <2>5. Bytes(F, pipe, toSend) = <<>> \o (<<>> \o x)
    BY <1>1, <2>2, Zenon DEF Bytes, x
  <2> QED
    BY <2>4, <2>5, Zenon DEF x
<1>5. InSync
  <2>1. Where(pc, item, r, neg, part, Bytes(F, pipe, toSend))
    BY <1>1, <1>4 DEF Where
  <2> QED
    BY <1>1, <2>1 DEF InSync
<1>6. Types
  <2>1. AtEnd(F, pipe, dead)
    BY <1>3 DEF AtEnd
  <2>2. got \in Seq(Values) /\ Len(got) = item - 1 /\ \A k \in 1 .. item - 1 : ValueOK(k, got[k])
    BY <1>1
  <2> QED
    BY <1>1, <1>2, <1>3, <2>1, <2>2, Basics DEF Types
<1> QED
  BY <1>5, <1>6 DEF Inv

\* Every step keeps the invariant.
LEMMA InvStep ==
  ASSUME Inv, [Next]_vars
  PROVE  Inv'
<1>1. CASE WriteFragment
  BY <1>1, WriteKeeps
<1>2. CASE WriterDies
  BY <1>2, DeathKeeps
<1>3. CASE SkipWhite
  BY <1>3, SkipKeeps
<1>4. CASE Sign
  BY <1>4, SignKeeps
<1>5. CASE NextDigit
  BY <1>5, DigitKeeps
<1>6. CASE EndOfInt
  BY <1>6, EndKeeps
<1>7. CASE Blank
  BY <1>7, BlankKeeps
<1>8. CASE StringByte
  BY <1>8, ByteKeeps
<1>9. CASE StringCut
  BY <1>9, CutKeeps
<1>10. CASE UNCHANGED vars
  BY <1>10 DEF vars, Inv, Types, InSync
<1> QED
  BY <1>1, <1>2, <1>3, <1>4, <1>5, <1>6, <1>7, <1>8, <1>9, <1>10 DEF Next, Reader, Done

\* What has been returned is right, in a state that satisfies the invariant.
LEMMA InvIntact ==
  ASSUME Inv
  PROVE  IntactUnlessEof
<1>1. Types
  BY DEF Inv
<1>2. got \in Seq(Values) /\ Len(got) = item - 1 /\ item \in 1 .. N + 1 /\ N \in Nat
  BY <1>1, FromIs DEF Types
<1>3. DOMAIN got = 1 .. item - 1
  BY <1>2
<1>4. \A k \in DOMAIN got : IF Script[k].kind = "int" THEN got[k] \in -IntMax .. IntMax
                            ELSE got[k] \in Seq(Byte)
  BY <1>1, <1>3 DEF Types, ValueOK
<1>5. TypeOK
  BY <1>1, <1>3, <1>4 DEF TypeOK, Types, Sound, N
<1>6. \A k \in DOMAIN got : got[k] = Script[k].value \/ F.is_eof
  BY <1>3 DEF Inv, InSync
<1> QED
  BY <1>5, <1>6 DEF IntactUnlessEof, s_iseof

\* Whatever the items are, however the kernel cuts the stream, wherever the buffer ends and
\* whenever the writer dies: an item is returned as it was written, unless the reader has met
\* the end of the file; and its buffer and its numbers stay in their ranges (s_getc, s_ungetc,
\* s_readint, ssiReadString).
THEOREM StreamIntact == Spec => []IntactUnlessEof
<1>1. Init => Inv
  BY InvInit
<1>2. Inv /\ [Next]_vars => Inv'
  BY InvStep
<1>3. Inv => IntactUnlessEof
  BY InvIntact
<1> QED
  BY <1>1, <1>2, <1>3, PTL DEF Spec
=============================================================================
