--------------------------- MODULE TaskQueueProofs ---------------------------
(***************************************************************************)
(* The vectors queue and demanded_tasks of startTasks_child, worked on in  *)
(* place by give_priority and removeDemanded, keep their formats and       *)
(* implement a list and a set: VectorsFormatted and ImplementsWaitingList  *)
(* for every number of tasks.  First what subsequences and loops are like, *)
(* then what the two procedures and the loop of a wait return, then the    *)
(* invariant VectorsInv: one lemma per action shows that the action keeps  *)
(* it and which step of WaitingList it is.                                 *)
(***************************************************************************)
EXTENDS TaskQueue, FiniteSetTheorems, SequenceTheorems, WellFoundedInduction, TLAPS

\* The places of the elements of K are 1 .. Cardinality(K), in their order.
LEMMA Places ==
  ASSUME NEW n \in Nat, NEW K \in SUBSET (1 .. n)
  PROVE  /\ IsFiniteSet(K) /\ Cardinality(K) \in Nat
         /\ \A k \in K : Place(K, k) \in 1 .. Cardinality(K)
         /\ \A k, l \in K : k < l => Place(K, k) < Place(K, l)
         /\ \A m \in 1 .. Cardinality(K) : \E k \in K : Place(K, k) = m
<1>1. IsFiniteSet(K) /\ Cardinality(K) \in Nat
  <2>1. IsFiniteSet(1 .. n)
    BY FS_Interval
  <2>2. IsFiniteSet(K)
    BY <2>1, FS_Subset
  <2> QED
    BY <2>2, FS_CardinalityType
<1> DEFINE upto(k) == {l \in K : l <= k}
<1>2. ASSUME NEW k \in K
      PROVE  IsFiniteSet(upto(k)) /\ Cardinality(upto(k)) \in 1 .. Cardinality(K)
  <2>1. upto(k) \in SUBSET K /\ k \in upto(k)
    OBVIOUS
  <2>2. IsFiniteSet(upto(k)) /\ Cardinality(upto(k)) <= Cardinality(K)
    BY <1>1, <2>1, FS_Subset
  <2>3. Cardinality(upto(k)) \in Nat /\ Cardinality(upto(k)) # 0
    BY <2>1, <2>2, FS_CardinalityType, FS_EmptySet
  <2> QED
    BY <1>1, <2>2, <2>3
<1>3. ASSUME NEW k \in K, NEW l \in K, k < l
      PROVE  Cardinality(upto(k)) < Cardinality(upto(l))
  <2>0. \A x \in K : x \in Nat
    OBVIOUS
  <2>1. upto(k) \in SUBSET upto(l) /\ l \in upto(l) /\ l \notin upto(k)
    <3>1. k \in Nat /\ l \in Nat /\ k < l
      BY <1>3, <2>0
    <3>2. \A x \in K : x <= k => x <= l
      BY <2>0, <3>1
    <3>3. l <= l /\ ~(l <= k)
      BY <3>1
    <3> QED
      BY <3>2, <3>3
  <2>2. upto(k) # upto(l)
    BY <2>1
  <2>3. /\ Cardinality(upto(k)) <= Cardinality(upto(l))
        /\ Cardinality(upto(k)) # Cardinality(upto(l))
    BY <1>2, <2>1, <2>2, FS_Subset
  <2> QED
    BY <1>2, <2>3
<1>4. ASSUME NEW m \in 1 .. Cardinality(K)
      PROVE  \E k \in K : Cardinality(upto(k)) = m
  <2> DEFINE f == [k \in K |-> Cardinality(upto(k))]
             T == 1 .. Cardinality(K)
  <2>1. f \in [K -> T]
    BY <1>2
  <2>2. \A k, l \in K : f[k] = f[l] => k = l
    <3>1. SUFFICES ASSUME NEW k \in K, NEW l \in K, f[k] = f[l] PROVE k = l
      OBVIOUS
    <3>2. ~(k < l)
      BY <1>2, <1>3, <3>1
    <3>3. ~(l < k)
      BY <1>2, <1>3, <3>1
    <3> QED
      BY <3>2, <3>3
  <2>3. f \in Injection(K, T)
    BY <2>1, <2>2 DEF Injection, IsInjective
  <2>4. IsFiniteSet(T) /\ Cardinality(T) = Cardinality(K)
    BY <1>1, FS_Interval
  <2>5. f \in Surjection(K, T)
    BY <2>3, <2>4, FS_Injection
  <2> QED
    BY <2>5 DEF Surjection
<1> QED
  BY <1>1, <1>2, <1>3, <1>4 DEF Place

\* Nth(K, m) is the element at place m, and so they are in their order.
LEMMA NthPlace ==
  ASSUME NEW n \in Nat, NEW K \in SUBSET (1 .. n)
  PROVE  /\ \A m \in 1 .. Cardinality(K) : Nth(K, m) \in K /\ Place(K, Nth(K, m)) = m
         /\ \A k \in K : Nth(K, Place(K, k)) = k
         /\ \A l, m \in 1 .. Cardinality(K) : l < m <=> Nth(K, l) < Nth(K, m)
<1>1. \A m \in 1 .. Cardinality(K) : Nth(K, m) \in K /\ Place(K, Nth(K, m)) = m
  BY Places DEF Nth
<1>2. ASSUME NEW k \in K, NEW l \in K, Place(K, k) = Place(K, l)
      PROVE  k = l
  <2>1. ~(k < l) /\ ~(l < k)
    <3>1. Place(K, k) \in 1 .. Cardinality(K) /\ Cardinality(K) \in Nat
      BY Places
    <3>2. k < l => Place(K, k) < Place(K, l)
      BY Places
    <3>3. l < k => Place(K, l) < Place(K, k)
      BY Places
    <3> QED
      BY <1>2, <3>1, <3>2, <3>3
  <2>2. k \in Nat /\ l \in Nat
    OBVIOUS
  <2> QED
    BY <2>1, <2>2
<1>3. ASSUME NEW k \in K
      PROVE  Nth(K, Place(K, k)) = k
  <2>1. Place(K, k) \in 1 .. Cardinality(K)
    BY Places
  <2> QED
    BY <1>1, <1>2, <2>1
<1>4. ASSUME NEW l \in 1 .. Cardinality(K), NEW m \in 1 .. Cardinality(K)
      PROVE  l < m <=> Nth(K, l) < Nth(K, m)
  <2>1. /\ Nth(K, l) < Nth(K, m) => l < m
        /\ Nth(K, m) < Nth(K, l) => m < l
        /\ Nth(K, l) = Nth(K, m) => l = m
    BY <1>1, Places
  <2>2. Nth(K, l) \in Int /\ Nth(K, m) \in Int /\ Cardinality(K) \in Nat
    <3>1. Nth(K, l) \in K /\ Nth(K, m) \in K
      BY <1>1
    <3>2. Cardinality(K) \in Nat
      BY Places
    <3>3. \A x \in K : x \in Int
      OBVIOUS
    <3> QED
      BY <3>1, <3>2, <3>3
  <2> QED
    BY <2>1, <2>2
<1> QED
  BY <1>1, <1>3, <1>4

\* A subsequence has the elements at K, and no others, in their order.
LEMMA SubsequenceIs ==
  ASSUME NEW U, NEW s \in Seq(U), NEW K \in SUBSET DOMAIN s
  PROVE  /\ Subsequence(s, K) \in Seq(U)
         /\ Len(Subsequence(s, K)) = Cardinality(K) /\ Cardinality(K) \in Nat
         /\ \A m \in DOMAIN Subsequence(s, K) :
              Nth(K, m) \in K /\ Subsequence(s, K)[m] = s[Nth(K, m)]
         /\ \A k \in K : \E m \in DOMAIN Subsequence(s, K) :
              Nth(K, m) = k /\ Subsequence(s, K)[m] = s[k]
         /\ \A l, m \in DOMAIN Subsequence(s, K) : l < m <=> Nth(K, l) < Nth(K, m)
<1>1. K \in SUBSET (1 .. Len(s)) /\ Len(s) \in Nat
  OBVIOUS
<1>2. Cardinality(K) \in Nat /\ \A m \in 1 .. Cardinality(K) : Nth(K, m) \in K
  BY <1>1, Places, NthPlace
<1> DEFINE t == Subsequence(s, K)
<1>3. t = [m \in 1 .. Cardinality(K) |-> s[Nth(K, m)]]
  BY DEF Subsequence
<1>4. \A m \in 1 .. Cardinality(K) : s[Nth(K, m)] \in U
  BY <1>1, <1>2
<1> HIDE DEF t
<1>5. t \in Seq(U) /\ Len(t) = Cardinality(K) /\ DOMAIN t = 1 .. Cardinality(K)
  BY <1>2, <1>3, <1>4
<1>6. ASSUME NEW k \in K
      PROVE  \E m \in DOMAIN t : Nth(K, m) = k /\ t[m] = s[k]
  <2>1. Place(K, k) \in DOMAIN t /\ Nth(K, Place(K, k)) = k
    BY <1>1, <1>5, Places, NthPlace
  <2> QED
    BY <1>3, <1>5, <2>1
<1>7. \A l, m \in DOMAIN t : l < m <=> Nth(K, l) < Nth(K, m)
  BY <1>1, <1>5, NthPlace
<1>8. \A m \in DOMAIN t : Nth(K, m) \in K /\ t[m] = s[Nth(K, m)]
  BY <1>2, <1>3, <1>5
<1> QED
  BY <1>2, <1>5, <1>6, <1>7, <1>8 DEF t

\* A set of natural numbers that is not empty has a least element, ...
LEMMA LeastNat ==
  ASSUME NEW U \in SUBSET Nat, U # {}
  PROVE  \E m \in U : \A u \in U : m <= u
<1>1. IsWellFoundedOn(OpToRel(<, Nat), Nat) /\ U \subseteq Nat /\ U # {}
  BY NatLessThanWellFounded
<1>2. PICK m \in U : \A u \in U : ~(<<u, m>> \in OpToRel(<, Nat))
  BY <1>1, WFMin
<1>3. ASSUME NEW u \in U, u < m
      PROVE  FALSE
  <2>1. <<u, m>> \in Nat \X Nat /\ <<u, m>>[1] < <<u, m>>[2]
    BY <1>3
  <2>2. <<u, m>> \in OpToRel(<, Nat)
    BY <2>1 DEF OpToRel
  <2> QED
    BY <1>2, <2>2
<1> QED
  BY <1>3

-----------------------------------------------------------------------------
(* Loops                                                                   *)

\* A loop of n rounds has a run: F[i] is what round i does, G[i] what holds behind it.
Keeps(n, F, G) == \A i \in 1 .. n : \A x \in G[i - 1] : F[i][x] \in G[i]

Runs(n, a, F, G, f) ==
  /\ f[0] = a /\ \A i \in 1 .. n : f[i] = F[i][f[i - 1]]
  /\ \A i \in 0 .. n : f[i] \in G[i]

\* Each round of a loop takes what held before it to what holds behind it: then the
\* loop has a run.  (give_priority and the loop of a wait are runs of this kind.)
LEMMA LoopRuns ==
  ASSUME NEW n \in Nat, NEW G, NEW a, NEW F, a \in G[0], Keeps(n, F, G)
  PROVE  \E f : Runs(n, a, F, G, f)
<1> USE DEF Runs
<1> DEFINE U == {m \in 0 .. n : ~ \E f : Runs(m, a, F, G, f)}
<1>1. SUFFICES ASSUME U # {} PROVE FALSE
  <2>1. U = {} => n \notin U
    OBVIOUS
  <2>2. n \notin U => \E f : Runs(n, a, F, G, f)
    OBVIOUS
  <2> QED
    BY <2>1, <2>2
<1>2. PICK m \in U : \A u \in U : m <= u
  <2>1. U \in SUBSET Nat
    OBVIOUS
  <2> HIDE DEF U
  <2> QED
    BY <1>1, <2>1, LeastNat
<1>3. m \in 0 .. n /\ ~ \E f : Runs(m, a, F, G, f)
  BY <1>2
<1>4. CASE m = 0
  <2> DEFINE f == [i \in 0 .. 0 |-> a]
  <2>1. Runs(0, a, F, G, f)
    OBVIOUS
  <2> QED
    BY <1>3, <1>4, <2>1
<1>5. CASE m # 0
  <2>1. m - 1 \in 0 .. n /\ m \in 1 .. n
    BY <1>3, <1>5
  <2>2. m - 1 \notin U
    BY <1>2, <2>1
  <2>3. PICK f : Runs(m - 1, a, F, G, f)
    BY <2>1, <2>2
  <2> DEFINE g == [i \in 0 .. m |-> IF i = m THEN F[m][f[m - 1]] ELSE f[i]]
  <2>4. g[0] = a /\ a \in G[0]
    BY <2>1, <2>3
  <2>5. ASSUME NEW i \in 1 .. m
        PROVE  g[i] = F[i][g[i - 1]] /\ g[i] \in G[i]
    <3>1. CASE i = m
      <4>1. g[i] = F[m][f[m - 1]]
        BY <2>1, <3>1
      <4>2. g[m - 1] = f[m - 1]
        BY <2>1
      <4>3. f[m - 1] \in G[m - 1]
        BY <2>1, <2>3
      <4> QED
        BY <2>1, <3>1, <4>1, <4>2, <4>3 DEF Keeps
    <3>2. CASE i # m
      <4>1. i \in 0 .. m - 1 /\ i \in 1 .. m - 1 /\ g[i] = f[i]
        BY <2>1, <3>2
      <4>2. f[i] = F[i][f[i - 1]] /\ f[i] \in G[i]
        BY <2>3, <4>1
      <4>3. g[i - 1] = f[i - 1]
        BY <2>1, <3>2
      <4> QED
        BY <4>1, <4>2, <4>3
    <3> QED
      BY <3>1, <3>2
  <2>6. \A i \in 0 .. m : i = 0 \/ i \in 1 .. m
    BY <2>1
  <2> HIDE DEF g
  <2>7. Runs(m, a, F, G, g)
    BY <2>4, <2>5, <2>6
  <2> QED
    BY <1>3, <2>7
<1> QED
  BY <1>4, <1>5

\* And what holds in the beginning and after each round holds in the end.
LEMMA LoopInvariant ==
  ASSUME NEW n \in Nat, NEW G, NEW f, f[0] \in G[0],
         \A i \in 1 .. n : f[i - 1] \in G[i - 1] => f[i] \in G[i]
  PROVE  \A i \in 0 .. n : f[i] \in G[i]
<1> DEFINE U == {m \in 0 .. n : f[m] \notin G[m]}
<1>1. SUFFICES ASSUME U # {} PROVE FALSE
  OBVIOUS
<1>2. PICK m \in U : \A u \in U : m <= u
  <2>1. U \in SUBSET Nat
    OBVIOUS
  <2> HIDE DEF U
  <2> QED
    BY <1>1, <2>1, LeastNat
<1>3. m \in 1 .. n
  BY <1>2
<1>4. m - 1 \in 0 .. n /\ ~(m <= m - 1)
  BY <1>3
<1>5. f[m - 1] \in G[m - 1]
  BY <1>2, <1>4
<1> QED
  BY <1>2, <1>3, <1>5

\* One element less.
LEMMA WithoutOne ==
  ASSUME NEW U, NEW s \in Seq(U), NEW p \in 1 .. Len(s)
  PROVE  LET t == Subsequence(s, (DOMAIN s) \ {p}) IN
         /\ t \in Seq(U) /\ Len(t) = Len(s) - 1
         /\ \A m \in 1 .. Len(s) - 1 : t[m] = IF m < p THEN s[m] ELSE s[m + 1]
<1> DEFINE K == (DOMAIN s) \ {p}
           t == Subsequence(s, K)
<1>1. Len(s) \in Nat /\ DOMAIN s = 1 .. Len(s) /\ K \in SUBSET (1 .. Len(s))
  OBVIOUS
<1>2. t \in Seq(U) /\ Len(t) = Cardinality(K) /\ t = [m \in 1 .. Cardinality(K) |-> s[Nth(K, m)]]
  <2>1. K \in SUBSET DOMAIN s
    OBVIOUS
  <2> HIDE DEF K
  <2> QED
    BY <2>1, SubsequenceIs DEF Subsequence
<1>3. Cardinality(K) = Len(s) - 1
  <2>1. IsFiniteSet(1 .. Len(s)) /\ Cardinality(1 .. Len(s)) = Len(s)
    BY <1>1, FS_Interval
  <2> QED
    BY <1>1, <2>1, FS_RemoveElement
<1>4. ASSUME NEW k \in K
      PROVE  Place(K, k) = IF k < p THEN k ELSE k - 1
  <2>1. k \in 1 .. Len(s) /\ k # p /\ p \in 1 .. Len(s)
    BY <1>1
  <2>2. CASE k < p
    <3>1. {l \in K : l <= k} = 1 .. k
      BY <1>1, <2>1, <2>2
    <3>2. Cardinality(1 .. k) = k
      BY <2>1, FS_Interval
    <3> QED
      BY <2>2, <3>1, <3>2 DEF Place
  <2>3. CASE ~(k < p)
    <3>1. {l \in K : l <= k} = (1 .. k) \ {p}
      BY <1>1, <2>1, <2>3
    <3>2. p \in 1 .. k /\ IsFiniteSet(1 .. k) /\ Cardinality(1 .. k) = k
      BY <2>1, <2>3, FS_Interval
    <3>3. Cardinality((1 .. k) \ {p}) = k - 1
      BY <3>2, FS_RemoveElement
    <3> QED
      BY <2>3, <3>1, <3>3 DEF Place
  <2> QED
    BY <2>2, <2>3
<1> HIDE DEF K
<1>5. ASSUME NEW m \in 1 .. Len(s) - 1
      PROVE  Nth(K, m) = IF m < p THEN m ELSE m + 1
  <2> DEFINE k == IF m < p THEN m ELSE m + 1
  <2>1. k \in 1 .. Len(s) /\ k # p /\ p \in Int /\ m \in Int
    BY <1>1
  <2>2. k \in K
    BY <1>1, <2>1 DEF K
  <2>3. m = IF k < p THEN k ELSE k - 1
    BY <2>1
  <2> HIDE DEF k
  <2>4. Place(K, k) = m
    BY <1>4, <2>2, <2>3
  <2>5. Nth(K, Place(K, k)) = k
    BY <1>1, <2>2, NthPlace
  <2> QED
    BY <2>4, <2>5 DEF k
<1>6. \A m \in 1 .. Len(s) - 1 : t[m] = IF m < p THEN s[m] ELSE s[m + 1]
  BY <1>2, <1>3, <1>5
<1> QED
  BY <1>2, <1>3, <1>6 DEF K

-----------------------------------------------------------------------------
(* give_priority                                                           *)

\* The least of some natural numbers.
LEMMA MinIs ==
  ASSUME NEW X \in SUBSET Nat, X # {}
  PROVE  Min(X) \in X /\ \A x \in X : Min(X) <= x
<1>1. \E m \in X : \A x \in X : m <= x
  BY LeastNat
<1> QED
  BY <1>1 DEF Min

\* The search of give_priority comes past every element, wherever it begins.
Once(s, m, p) == \A k \in 1 .. m : s[k] = s[p] => k = p
At(x, s, d) == x = [queue |-> s, index |-> d]
ZeroAt(s, t, m, p) == t[p] = 0 /\ \A k \in 1 .. m : k # p => t[k] = s[k]

\* Wherever it begins, the search for the element at p ends there and blanks it.
LEMMA BlankIs ==
  ASSUME NEW m \in Nat, NEW s \in [1 .. m -> Nat], NEW d \in 1 .. m, NEW p \in 1 .. m,
         NEW t \in [1 .. m -> Nat], Once(s, m, p), ZeroAt(s, t, m, p),
         NEW at, At(at, s, d)
  PROVE  At(Blank(at, s[p]), t, p)
<1> DEFINE down(k) == IF k < d THEN d - k ELSE d + m - k
           hits == {k \in 0 .. m - 1 : s[down(k)] = s[p]}
           z == IF p <= d THEN d - p ELSE d + m - p
<1>1. Len(s) = m /\ at.queue = s /\ at.index = d
  BY DEF At
<1>2. z \in 0 .. m - 1 /\ down(z) = p
  OBVIOUS
<1>3. \A k \in 0 .. m - 1 : down(k) \in 1 .. m
  OBVIOUS
<1>4. z \in hits
  BY <1>2
<1>5. hits \in SUBSET Nat /\ hits # {}
  <2>1. \A k \in hits : k \in Nat
    OBVIOUS
  <2> HIDE DEF hits
  <2> QED
    BY <1>4, <2>1
<1>6. Blank(at, s[p]) = IF hits = {} THEN at
                        ELSE LET found == down(Min(hits))
                             IN  [queue |-> [at.queue EXCEPT ![found] = 0], index |-> found]
  BY <1>1, Zenon DEF Blank
<1>7. Min(hits) \in hits
  <2> HIDE DEF hits
  <2> QED
    BY <1>5, MinIs
<1>8. down(Min(hits)) = p
  <2>1. Min(hits) \in 0 .. m - 1 /\ s[down(Min(hits))] = s[p]
    BY <1>7
  <2>2. down(Min(hits)) \in 1 .. m
    BY <1>3, <2>1
  <2> HIDE DEF down
  <2> QED
    BY <2>1, <2>2 DEF Once
<1>9. Blank(at, s[p]) = [queue |-> [s EXCEPT ![p] = 0], index |-> p]
  <2> HIDE DEF hits, down
  <2> QED
    BY <1>1, <1>5, <1>6, <1>8
<1>10. [s EXCEPT ![p] = 0] = t
  BY DEF ZeroAt
<1> QED
  BY <1>9, <1>10 DEF At

Distinct(s) == \A k, l \in 1 .. Len(s) : s[k] = s[l] => k = l
Left(q, p) == {k \in DOMAIN q : q[k] \notin Elems(p)}

\* give_priority is preferred, and the rest of queue in its order.
LEMMA GivePriorityIs ==
  ASSUME NEW U \in SUBSET (Nat \ {0}), NEW q \in Seq(U), NEW p \in Seq(U),
         Distinct(q), Distinct(p), Elems(p) \subseteq Elems(q), Len(q) # Len(p)
  PROVE  give_priority(q, p) = p \o Subsequence(q, Left(q, p))
<1> DEFINE n == Len(p)
           m == Len(q)
           S(i) == [k \in 1 .. m |-> IF \E l \in n + 1 - i .. n : p[l] = q[k] THEN 0 ELSE q[k]]
           a == [queue |-> q, index |-> m]
           G == [i \in 0 .. n |-> {[queue |-> S(i), index |-> d] : d \in 1 .. m}]
           F == [i \in 1 .. n |-> [x \in G[i - 1] |-> Blank(x, p[n + 1 - i])]]
<1>1. /\ n \in Nat /\ m \in Nat /\ DOMAIN q = 1 .. m
      /\ \A k \in 1 .. m : q[k] \in U /\ q[k] \in Nat /\ q[k] # 0
      /\ \A k \in 1 .. n : p[k] \in U /\ p[k] \in Nat /\ p[k] # 0
  <2>1. \A u \in U : u \in Nat /\ u # 0
    OBVIOUS
  <2>2. n \in Nat /\ m \in Nat /\ DOMAIN q = 1 .. m
    OBVIOUS
  <2>3. (\A k \in 1 .. m : q[k] \in U) /\ (\A k \in 1 .. n : p[k] \in U)
    OBVIOUS
  <2> QED
    BY <2>1, <2>2, <2>3
<1>2. \A l \in 1 .. n : \E k \in 1 .. m : q[k] = p[l]
  BY <1>1 DEF Elems
<1>3. m \in 1 .. m
  <2>1. CASE n = 0
    BY <1>1, <2>1
  <2>2. CASE n # 0
    <3>1. 1 \in 1 .. n
      BY <1>1, <2>2
    <3> QED
      BY <1>1, <1>2, <3>1
  <2> QED
    BY <2>1, <2>2
<1>4. a \in G[0]
  <2>1. S(0) = q
    <3>1. \A l \in n + 1 - 0 .. n : FALSE
      BY <1>1
    <3>2. S(0) = [k \in 1 .. m |-> q[k]]
      BY <3>1
    <3> QED
      BY <1>1, <3>2
  <2>2. G[0] = {[queue |-> S(0), index |-> d] : d \in 1 .. m}
    BY <1>1
  <2> HIDE DEF S
  <2> QED
    BY <1>3, <2>1, <2>2
<1>5. ASSUME NEW i \in 1 .. n, NEW x \in G[i - 1]
      PROVE  Blank(x, p[n + 1 - i]) \in G[i]
  <2>1. i - 1 \in 0 .. n /\ i \in 0 .. n /\ n + 1 - i \in 1 .. n /\ n + 1 - (i - 1) = (n + 1 - i) + 1
    BY <1>1
  <2>2. PICK d \in 1 .. m : x = [queue |-> S(i - 1), index |-> d]
    BY <2>1
  <2>3. PICK k0 \in 1 .. m : q[k0] = p[n + 1 - i]
    BY <1>2, <2>1
  <2> DEFINE s == S(i - 1)
             e == p[n + 1 - i]
  <2>4. s \in [1 .. m -> Nat]
    BY <1>1
  <2>5. s[k0] = e
    <3>1. ~ \E l \in n + 1 - (i - 1) .. n : p[l] = q[k0]
      <4>1. SUFFICES ASSUME NEW l \in n + 1 - (i - 1) .. n, p[l] = q[k0] PROVE FALSE
        OBVIOUS
      <4>2. l \in 1 .. n /\ l # n + 1 - i
        BY <1>1, <2>1
      <4> QED
        BY <2>1, <2>3, <4>1, <4>2 DEF Distinct
    <3> QED
      BY <2>3, <3>1
  <2>6. \A k \in 1 .. m : s[k] = s[k0] => k = k0
    <3>1. SUFFICES ASSUME NEW k \in 1 .. m, s[k] = e PROVE k = k0
      BY <2>5
    <3>2. s[k] = 0 \/ s[k] = q[k]
      OBVIOUS
    <3>3. e \in Nat /\ e # 0
      BY <1>1, <2>1
    <3>4. q[k] = q[k0]
      BY <2>3, <3>1, <3>2, <3>3
    <3> QED
      BY <3>4 DEF Distinct
  <2>7. \A k \in 1 .. m : S(i)[k] = IF k = k0 THEN 0 ELSE s[k]
    <3>1. ASSUME NEW k \in 1 .. m
          PROVE  S(i)[k] = IF k = k0 THEN 0 ELSE s[k]
      <4>1. CASE k = k0
        <5>1. n + 1 - i \in n + 1 - i .. n /\ p[n + 1 - i] = q[k]
          BY <2>1, <2>3, <4>1
        <5> QED
          BY <4>1, <5>1
      <4>2. CASE k # k0
        <5>1. p[n + 1 - i] # q[k]
          BY <2>3, <4>2 DEF Distinct
        <5>2. \A l : l \in n + 1 - i .. n <=> l = n + 1 - i \/ l \in n + 1 - (i - 1) .. n
          BY <1>1, <2>1
        <5>3. (\E l \in n + 1 - i .. n : p[l] = q[k])
                <=> (\E l \in n + 1 - (i - 1) .. n : p[l] = q[k])
          BY <5>1, <5>2
        <5>4. /\ S(i)[k] = IF \E l \in n + 1 - i .. n : p[l] = q[k] THEN 0 ELSE q[k]
              /\ s[k] = IF \E l \in n + 1 - (i - 1) .. n : p[l] = q[k] THEN 0 ELSE q[k]
          OBVIOUS
        <5> HIDE DEF S, s
        <5> QED
          BY <4>2, <5>3, <5>4
      <4> QED
        BY <4>1, <4>2
    <3> QED
      BY <3>1
  <2>8. G[i] = {[queue |-> S(i), index |-> c] : c \in 1 .. m}
    BY <2>1
  <2>9. S(i) \in [1 .. m -> Nat]
    BY <1>1
  <2> HIDE DEF G, S, s, F
  <2>10. x = [queue |-> s, index |-> d]
    BY <2>2 DEF s
  <2>11. Blank(x, s[k0]) = [queue |-> S(i), index |-> k0]
    <3> DEFINE t == S(i)
    <3>1. m \in Nat /\ s \in [1 .. m -> Nat] /\ d \in 1 .. m /\ k0 \in 1 .. m
          /\ t \in [1 .. m -> Nat]
      BY <1>1, <2>4, <2>9
    <3>2. ZeroAt(s, t, m, k0)
      BY <2>7, <3>1 DEF ZeroAt
    <3>3. Once(s, m, k0)
      BY <2>6 DEF Once
    <3> HIDE DEF m, t
    <3>4. At(x, s, d)
      BY <2>10 DEF At
    <3>5. At(Blank(x, s[k0]), t, k0)
      BY <3>1, <3>2, <3>3, <3>4, BlankIs
    <3> QED
      BY <3>5 DEF At, t
  <2> QED
    BY <2>5, <2>8, <2>10, <2>11
<1> DEFINE Body(f) == [i \in 0 .. n |-> IF i = 0 THEN a ELSE Blank(f[i - 1], p[n + 1 - i])]
           blanked == CHOOSE f : f = Body(f)
<1>6. \E f : f = Body(f)
  <2>1. \A i \in 1 .. n : \A x \in G[i - 1] : F[i][x] = Blank(x, p[n + 1 - i])
    OBVIOUS
  <2>2. Keeps(n, F, G)
    BY <1>5, <2>1 DEF Keeps
  <2> HIDE DEF G, F, a
  <2>3. PICK f : Runs(n, a, F, G, f)
    <3>1. n \in Nat
      BY <1>1
    <3> HIDE DEF n
    <3> QED
      BY <1>4, <2>2, <3>1, LoopRuns
  <2> DEFINE g == [i \in 0 .. n |-> f[i]]
  <2>4. ASSUME NEW i \in 0 .. n
        PROVE  g[i] = IF i = 0 THEN a ELSE Blank(g[i - 1], p[n + 1 - i])
    <3>1. CASE i = 0
      BY <2>3, <3>1 DEF Runs
    <3>2. CASE i # 0
      <4>1. i \in 1 .. n /\ i - 1 \in 0 .. n
        BY <1>1, <3>2
      <4>2. f[i - 1] \in G[i - 1] /\ f[i] = F[i][f[i - 1]]
        BY <2>3, <4>1 DEF Runs
      <4>3. g[i] = Blank(g[i - 1], p[n + 1 - i])
        BY <2>1, <4>1, <4>2
      <4> QED
        BY <3>2, <4>3
    <3> QED
      BY <3>1, <3>2
  <2>5. g = [i \in 0 .. n |-> g[i]]
    OBVIOUS
  <2> HIDE DEF g
  <2>6. g = Body(g)
    BY <2>4, <2>5
  <2> QED
    BY <2>6
<1>7. blanked = Body(blanked)
  <2> HIDE DEF Body
  <2> QED
    BY <1>6
<1> HIDE DEF blanked, a, S
<1>8. \A i \in 0 .. n : blanked[i] \in G[i]
  <2>1. blanked[0] = a /\ \A i \in 1 .. n : blanked[i] = Blank(blanked[i - 1], p[n + 1 - i])
    <3>1. blanked = [i \in 0 .. n |-> IF i = 0 THEN a ELSE Blank(blanked[i - 1], p[n + 1 - i])]
      BY <1>7
    <3>2. \A i \in 0 .. n : blanked[i] = IF i = 0 THEN a ELSE Blank(blanked[i - 1], p[n + 1 - i])
      BY <3>1
    <3>3. 0 \in 0 .. n /\ \A i \in 1 .. n : i \in 0 .. n /\ i # 0
      BY <1>1
    <3> QED
      BY <3>2, <3>3
  <2> HIDE DEF G
  <2>2. blanked[0] \in G[0]
    BY <1>4, <2>1
  <2>3. \A i \in 1 .. n : blanked[i - 1] \in G[i - 1] => blanked[i] \in G[i]
    BY <1>5, <2>1
  <2> QED
    BY <1>1, <2>2, <2>3, LoopInvariant
<1>9. blanked[n].queue = S(n)
  <2>1. n \in 0 .. n
    BY <1>1
  <2> QED
    BY <1>8, <2>1
<1> DEFINE left == S(n)
<1>10. give_priority(q, p) = p \o Subsequence(left, {k \in DOMAIN left : left[k] # 0})
  BY <1>9 DEF give_priority, blanked, a
<1>11. DOMAIN left = 1 .. m /\ \A k \in 1 .. m : left[k] = IF q[k] \in Elems(p) THEN 0 ELSE q[k]
  <2>1. n + 1 - n = 1
    BY <1>1
  <2>2. \A k : k \in 1 .. m => ((\E l \in 1 .. n : p[l] = q[k]) <=> q[k] \in Elems(p))
    BY DEF Elems
  <2> QED
    BY <2>1, <2>2 DEF S
<1> HIDE DEF left
<1>12. {k \in DOMAIN left : left[k] # 0} = Left(q, p)
  BY <1>1, <1>11 DEF Left
<1>13. Subsequence(left, Left(q, p)) = Subsequence(q, Left(q, p))
  <2> DEFINE K == Left(q, p)
  <2>1. K \in SUBSET (1 .. m) /\ \A k \in K : left[k] = q[k]
    BY <1>1, <1>11 DEF Left
  <2> HIDE DEF K
  <2>2. \A c \in 1 .. Cardinality(K) : Nth(K, c) \in K
    BY <1>1, <2>1, NthPlace
  <2>3. \A c \in 1 .. Cardinality(K) : left[Nth(K, c)] = q[Nth(K, c)]
    BY <2>1, <2>2
  <2>4. Subsequence(left, K) = Subsequence(q, K)
    BY <2>3 DEF Subsequence
  <2> QED
    BY <2>4 DEF K
<1> QED
  BY <1>10, <1>12, <1>13

\* A sequence without repetitions is as long as it has elements.
LEMMA DistinctLen ==
  ASSUME NEW U, NEW s \in Seq(U), Distinct(s)
  PROVE  IsFiniteSet(Elems(s)) /\ Cardinality(Elems(s)) = Len(s)
<1>1. Len(s) \in Nat /\ DOMAIN s = 1 .. Len(s)
  OBVIOUS
<1> DEFINE D == 1 .. Len(s)
           f == [k \in D |-> s[k]]
<1>2. IsFiniteSet(D) /\ Cardinality(D) = Len(s)
  BY <1>1, FS_Interval
<1>3. f \in Bijection(D, Elems(s))
  <2>1. f \in [D -> Elems(s)]
    BY DEF Elems
  <2>2. \A k, l \in D : f[k] = f[l] => k = l
    BY DEF Distinct
  <2>3. \A e \in Elems(s) : \E k \in D : f[k] = e
    BY DEF Elems
  <2> QED
    BY <2>1, <2>2, <2>3 DEF Bijection, Injection, IsInjective, Surjection
<1>4. ExistsBijection(D, Elems(s))
  BY <1>3 DEF ExistsBijection
<1> QED
  BY <1>2, <1>4, FS_Bijection

\* A queue that is as long as those preferred has no others.
LEMMA SameLen ==
  ASSUME NEW U, NEW q \in Seq(U), NEW p \in Seq(U),
         Distinct(q), Distinct(p), Elems(p) \subseteq Elems(q)
  PROVE  Len(q) = Len(p) <=> Elems(p) = Elems(q)
<1>1. /\ IsFiniteSet(Elems(q)) /\ Cardinality(Elems(q)) = Len(q)
      /\ Cardinality(Elems(p)) = Len(p)
  BY DistinctLen
<1>2. Cardinality(Elems(p)) = Cardinality(Elems(q)) => Elems(p) = Elems(q)
  BY <1>1, FS_Subset
<1> QED
  BY <1>1, <1>2

\* What the list becomes when p is put before the rest of q.
PutFirst(q, p, r) ==
  /\ Len(r) = Len(q) /\ Distinct(r) /\ Elems(r) = Elems(q)
  /\ \A i \in 1 .. Len(r) : r[i] \in Elems(p) <=> i <= Len(p)
  /\ \A i, j \in 1 .. Len(q) :
       i < j /\ q[i] \notin Elems(p) /\ q[j] \notin Elems(p) =>
         \E k, l \in 1 .. Len(q) : k < l /\ r[k] = q[i] /\ r[l] = q[j]

\* Those preferred, followed by the others in their order: the queue put in order.
LEMMA PreferredFirst ==
  ASSUME NEW U, NEW q \in Seq(U), NEW p \in Seq(U),
         Distinct(q), Distinct(p), Elems(p) \subseteq Elems(q)
  PROVE  LET r == p \o Subsequence(q, Left(q, p))
         IN  r \in Seq(U) /\ PutFirst(q, p, r)
<1> DEFINE K == Left(q, p)
           t == Subsequence(q, K)
           r == p \o t
           n == Len(p)
<1>1. n \in Nat /\ Len(q) \in Nat /\ DOMAIN q = 1 .. Len(q) /\ K \in SUBSET DOMAIN q
      /\ \A k \in DOMAIN q : k \in K <=> q[k] \notin Elems(p)
  BY DEF Left
<1>2. /\ t \in Seq(U) /\ Len(t) \in Nat /\ DOMAIN t = 1 .. Len(t)
      /\ \A m \in DOMAIN t : Nth(K, m) \in K /\ t[m] = q[Nth(K, m)]
      /\ \A k \in K : \E m \in DOMAIN t : Nth(K, m) = k /\ t[m] = q[k]
      /\ \A l, m \in DOMAIN t : l < m <=> Nth(K, l) < Nth(K, m)
  <2> HIDE DEF K
  <2>1. K \in SUBSET DOMAIN q
    BY <1>1
  <2>2. /\ t \in Seq(U)
        /\ \A m \in DOMAIN t : Nth(K, m) \in K /\ t[m] = q[Nth(K, m)]
        /\ \A k \in K : \E m \in DOMAIN t : Nth(K, m) = k /\ t[m] = q[k]
        /\ \A l, m \in DOMAIN t : l < m <=> Nth(K, l) < Nth(K, m)
    BY <2>1, SubsequenceIs
  <2> HIDE DEF t
  <2> QED
    BY <2>2
<1> HIDE DEF K, t
<1>3. /\ r \in Seq(U) /\ Len(r) = n + Len(t)
      /\ \A i \in 1 .. n + Len(t) : r[i] = IF i <= n THEN p[i] ELSE t[i - n]
  BY <1>2, ConcatProperties
<1>4. /\ \A i \in 1 .. n : r[i] = p[i] /\ r[i] \in Elems(p)
      /\ \A m \in DOMAIN t : n + m \in 1 .. Len(r) /\ r[n + m] = t[m] /\ r[n + m] \notin Elems(p)
      /\ \A i \in 1 .. Len(r) : i \in 1 .. n \/ (i > n /\ i - n \in DOMAIN t /\ n + (i - n) = i)
  <2>1. \A i \in 1 .. n : r[i] = p[i] /\ r[i] \in Elems(p)
    BY <1>1, <1>2, <1>3 DEF Elems
  <2>2. ASSUME NEW m \in DOMAIN t
        PROVE  n + m \in 1 .. Len(r) /\ r[n + m] = t[m] /\ r[n + m] \notin Elems(p)
    <3>1. n + m \in 1 .. n + Len(t) /\ ~(n + m <= n) /\ (n + m) - n = m
      BY <1>1, <1>2
    <3>2. r[n + m] = t[m]
      BY <1>3, <3>1
    <3>3. t[m] \notin Elems(p)
      BY <1>1, <1>2
    <3> QED
      BY <1>3, <3>1, <3>2, <3>3
  <2>3. \A i \in 1 .. Len(r) : i \in 1 .. n \/ (i > n /\ i - n \in DOMAIN t /\ n + (i - n) = i)
    BY <1>1, <1>2, <1>3
  <2> QED
    BY <2>1, <2>2, <2>3
<1> HIDE DEF r
<1>5. Distinct(r)
  <2>1. SUFFICES ASSUME NEW i \in 1 .. Len(r), NEW j \in 1 .. Len(r), r[i] = r[j]
                 PROVE  i = j
    BY DEF Distinct
  <2>2. CASE i \in 1 .. n
    <3>1. j \in 1 .. n
      BY <1>4, <2>1, <2>2
    <3> QED
      BY <1>4, <2>1, <2>2, <3>1 DEF Distinct
  <2>3. CASE i \notin 1 .. n
    <3>1. j \notin 1 .. n
      BY <1>4, <2>1, <2>3
    <3>2. i - n \in DOMAIN t /\ j - n \in DOMAIN t /\ n + (i - n) = i /\ n + (j - n) = j
      BY <1>4, <2>3, <3>1
    <3>3. t[i - n] = t[j - n]
      BY <1>4, <2>1, <3>2
    <3>4. Nth(K, i - n) = Nth(K, j - n)
      BY <1>1, <1>2, <3>2, <3>3 DEF Distinct
    <3>5. ~(i - n < j - n) /\ ~(j - n < i - n)
      <4>1. \A a \in K : ~(a < a)
        BY <1>1
      <4> QED
        BY <1>2, <3>2, <3>4, <4>1
    <3> QED
      BY <1>1, <3>5
  <2> QED
    BY <2>2, <2>3
<1>6. Elems(r) = Elems(q)
  <2>1. ASSUME NEW e \in Elems(r) PROVE e \in Elems(q)
    <3>1. PICK i \in 1 .. Len(r) : r[i] = e
      BY <2>1 DEF Elems
    <3>2. CASE i \in 1 .. n
      BY <1>4, <3>1, <3>2
    <3>3. CASE i \notin 1 .. n
      <4>1. i - n \in DOMAIN t /\ r[i] = t[i - n]
        BY <1>4, <3>3
      <4>2. Nth(K, i - n) \in 1 .. Len(q) /\ t[i - n] = q[Nth(K, i - n)]
        BY <1>1, <1>2, <4>1
      <4> QED
        BY <3>1, <4>1, <4>2 DEF Elems
    <3> QED
      BY <3>2, <3>3
  <2>2. ASSUME NEW e \in Elems(q) PROVE e \in Elems(r)
    <3>1. PICK k \in 1 .. Len(q) : q[k] = e
      BY <2>2 DEF Elems
    <3>2. CASE e \in Elems(p)
      <4>1. PICK i \in 1 .. n : p[i] = e
        BY <3>2 DEF Elems
      <4>2. i \in 1 .. Len(r) /\ r[i] = e
        BY <1>2, <1>3, <1>4, <4>1
      <4> QED
        BY <4>2 DEF Elems
    <3>3. CASE e \notin Elems(p)
      <4>1. k \in K
        BY <1>1, <3>1, <3>3
      <4>2. PICK m \in DOMAIN t : t[m] = q[k]
        BY <1>2, <4>1
      <4>3. n + m \in 1 .. Len(r) /\ r[n + m] = e
        BY <1>4, <3>1, <4>2
      <4> QED
        BY <4>3 DEF Elems
    <3> QED
      BY <3>2, <3>3
  <2> QED
    BY <2>1, <2>2
<1>7. Len(r) = Len(q)
  <2>1. r \in Seq(U)
    BY <1>3
  <2>2. Cardinality(Elems(r)) = Len(r)
    BY <1>5, <2>1, DistinctLen
  <2>3. Cardinality(Elems(q)) = Len(q)
    BY DistinctLen
  <2> QED
    BY <1>6, <2>2, <2>3
<1>8. \A i \in 1 .. Len(r) : r[i] \in Elems(p) <=> i <= n
  <2>1. SUFFICES ASSUME NEW i \in 1 .. Len(r) PROVE r[i] \in Elems(p) <=> i <= n
    OBVIOUS
  <2>2. i <= n => i \in 1 .. n
    BY <1>1, <1>7
  <2>3. ~(i <= n) => i - n \in DOMAIN t /\ n + (i - n) = i
    BY <1>1, <1>4
  <2> QED
    BY <1>4, <2>2, <2>3
<1>9. ASSUME NEW i \in 1 .. Len(q), NEW j \in 1 .. Len(q), i < j,
             q[i] \notin Elems(p), q[j] \notin Elems(p)
      PROVE  \E k, l \in 1 .. Len(q) : k < l /\ r[k] = q[i] /\ r[l] = q[j]
  <2>1. i \in K /\ j \in K
    BY <1>1, <1>9
  <2>2. PICK a \in DOMAIN t : Nth(K, a) = i /\ t[a] = q[i]
    BY <1>2, <2>1
  <2>3. PICK b \in DOMAIN t : Nth(K, b) = j /\ t[b] = q[j]
    BY <1>2, <2>1
  <2>4. a < b
    BY <1>2, <1>9, <2>2, <2>3
  <2>5. n + a < n + b
    BY <1>1, <1>2, <2>4
  <2>6. n + a \in 1 .. Len(q) /\ n + b \in 1 .. Len(q)
    BY <1>4, <1>7
  <2>7. r[n + a] = q[i] /\ r[n + b] = q[j]
    BY <1>4, <2>2, <2>3
  <2> QED
    BY <2>5, <2>6, <2>7
<1>10. r \in Seq(U)
  BY <1>3
<1> QED
  BY <1>5, <1>6, <1>7, <1>8, <1>9, <1>10 DEF r, t, K, PutFirst

\* give_priority does what TaskSupervisor and WaitingList take it for.
LEMMA PriorityGiven ==
  ASSUME NEW U \in SUBSET (Nat \ {0}), NEW q \in Seq(U), NEW p \in Seq(U),
         Distinct(q), Distinct(p), Elems(p) \subseteq Elems(q)
  PROVE  LET r == give_priority(q, p) IN
         /\ r \in Seq(U) /\ Len(r) = Len(q) /\ Distinct(r) /\ Elems(r) = Elems(q)
         /\ r \in GivePriority(q, Elems(p))
<1> DEFINE r == give_priority(q, p)
           P == Elems(p)
<1>1. CASE Len(q) = Len(p)
  <2>1. Elems(p) = Elems(q) /\ r = q
    BY <1>1, SameLen DEF give_priority
  <2> QED
    BY <2>1 DEF GivePriority
<1>2. CASE Len(q) # Len(p)
  <2>1. P # Elems(q)
    BY <1>2, SameLen
  <2>2. r = p \o Subsequence(q, Left(q, p))
    BY <1>2, GivePriorityIs
  <2> HIDE DEF r
  <2>3. r \in Seq(U) /\ PutFirst(q, p, r)
    BY <2>2, PreferredFirst
  <2>4. r \in [1 .. Len(q) -> Elems(q)]
    <3>1. \A i \in 1 .. Len(q) : r[i] \in Elems(q)
      BY <2>3 DEF PutFirst, Elems
    <3> QED
      BY <2>3, <3>1 DEF PutFirst
  <2>5. ASSUME NEW i \in 1 .. Len(q), NEW j \in 1 .. Len(q), i < j
        PROVE  /\ r[i] # r[j]
               /\ r[j] \in P => r[i] \in P
               /\ q[i] \notin P /\ q[j] \notin P =>
                    \E k, l \in 1 .. Len(q) : k < l /\ r[k] = q[i] /\ r[l] = q[j]
    <3>1. r[i] # r[j]
      BY <2>3, <2>5 DEF PutFirst, Distinct
    <3>2. r[j] \in P => r[i] \in P
      BY <2>3, <2>5 DEF PutFirst
    <3>3. q[i] \notin P /\ q[j] \notin P =>
            \E k, l \in 1 .. Len(q) : k < l /\ r[k] = q[i] /\ r[l] = q[j]
      BY <2>3, <2>5 DEF PutFirst
    <3> QED
      BY <3>1, <3>2, <3>3
  <2>6. r \in GivePriority(q, P)
    BY <2>1, <2>3, <2>4, <2>5 DEF GivePriority, PutFirst
  <2> QED
    BY <2>3, <2>6 DEF r, PutFirst
<1> QED
  BY <1>1, <1>2

-----------------------------------------------------------------------------
(* removeDemanded                                                          *)

\* The format of demanded_tasks, and what it stands for.
Format(vec, index) ==
  /\ vec \in Seq(Nat) /\ index \in 0 .. Len(vec)
  /\ \A i \in 1 .. Len(vec) : vec[i] # 0 <=> i <= index
  /\ \A i, j \in 1 .. index : vec[i] = vec[j] => i = j
Live(vec, index) == {vec[i] : i \in 1 .. index} \ {0}

\* The p-th element is taken out of vec, the others up to index move.
TakenOut(vec, index, p, u) ==
  /\ u \in Seq(Nat) /\ Len(u) = Len(vec)
  /\ \A k \in 1 .. Len(vec) :
       u[k] = IF k < p \/ k > index THEN vec[k] ELSE IF k < index THEN vec[k + 1] ELSE 0

RemovedAs(vec, index, id, u) ==
  removeDemanded(vec, index, id) = [found |-> TRUE, d |-> [vec |-> u, index |-> index - 1]]
Removes(vec, index, p) ==
  \E u : TakenOut(vec, index, p, u) /\ RemovedAs(vec, index, vec[p], u)

\* removeDemanded takes an element out that is in the part that counts.
LEMMA RemoveIs ==
  ASSUME NEW vec, NEW index, Format(vec, index), NEW p \in 1 .. index
  PROVE  Removes(vec, index, p)
<1> USE DEF Removes, RemovedAs
<1>1. /\ vec \in Seq(Nat) /\ Len(vec) \in Nat /\ DOMAIN vec = 1 .. Len(vec)
      /\ index \in 0 .. Len(vec) /\ p \in 1 .. Len(vec) /\ index \in 1 .. Len(vec)
      /\ \A k \in 1 .. Len(vec) : vec[k] \in Nat
  BY DEF Format
<1>2. CASE p = index
  <2> DEFINE u == [vec EXCEPT ![index] = 0]
  <2>1. TakenOut(vec, index, p, u)
    <3>1. u \in Seq(Nat) /\ Len(u) = Len(vec)
      BY <1>1
    <3>2. \A k \in 1 .. Len(vec) : u[k] = IF k = index THEN 0 ELSE vec[k]
      BY <1>1
    <3> HIDE DEF u
    <3> QED
      BY <1>1, <1>2, <3>1, <3>2 DEF TakenOut
  <2>2. removeDemanded(vec, index, vec[p]) = [found |-> TRUE, d |-> LastRemoved(vec, index)]
    BY <1>1, <1>2 DEF removeDemanded
  <2>3. LastRemoved(vec, index) = [vec |-> u, index |-> index - 1]
    BY DEF LastRemoved
  <2> QED
    BY <2>1, <2>2, <2>3
<1>3. CASE p # index
  <2> DEFINE hits == {i \in 1 .. index - 1 : vec[i] = vec[p]}
             u == Shifted(vec, p, index)
  <2>1. vec[index] # vec[p]
    BY <1>1, <1>3 DEF Format
  <2>2. hits = {p}
    BY <1>1, <1>3 DEF Format
  <2>3. Max(hits) = p
    <3>1. \A x \in {p} : x = p
      OBVIOUS
    <3>2. p >= p
      BY <1>1
    <3> QED
      BY <2>2, <3>1, <3>2 DEF Max
  <2>4. removeDemanded(vec, index, vec[p]) =
          [found |-> TRUE, d |-> [vec |-> Shifted(vec, Max(hits), index), index |-> index - 1]]
    BY <2>1, <2>2 DEF removeDemanded
  <2>5. TakenOut(vec, index, p, u)
    <3>1. \A k \in 1 .. Len(vec) :
            u[k] = IF k \notin p .. index THEN vec[k]
                   ELSE IF k < index THEN vec[k + 1] ELSE 0
      BY DEF Shifted
    <3>2. u \in Seq(Nat) /\ Len(u) = Len(vec)
      <4>1. \A k \in 1 .. Len(vec) :
              (IF k \notin p .. index THEN vec[k]
               ELSE IF k < index THEN vec[k + 1] ELSE 0) \in Nat
        BY <1>1
      <4> QED
        BY <1>1, <4>1 DEF Shifted
    <3> HIDE DEF u
    <3>3. \A k \in 1 .. Len(vec) : k \notin p .. index <=> k < p \/ k > index
      BY <1>1
    <3> QED
      BY <3>1, <3>2, <3>3 DEF TakenOut
  <2> QED
    BY <2>3, <2>4, <2>5
<1> QED
  BY <1>2, <1>3

\* The format is kept, and the element is gone.
LEMMA TakenOutFormat ==
  ASSUME NEW vec, NEW index, Format(vec, index), NEW p \in 1 .. index,
         NEW u, TakenOut(vec, index, p, u)
  PROVE  Format(u, index - 1) /\ Live(u, index - 1) = Live(vec, index) \ {vec[p]}
<1>1. /\ vec \in Seq(Nat) /\ Len(vec) \in Nat
      /\ index \in 1 .. Len(vec) /\ p \in 1 .. Len(vec) /\ index - 1 \in 0 .. Len(vec)
      /\ \A k \in 1 .. Len(vec) : vec[k] \in Nat /\ (vec[k] # 0 <=> k <= index)
      /\ \A i, j \in 1 .. index : vec[i] = vec[j] => i = j
      /\ u \in Seq(Nat) /\ Len(u) = Len(vec)
  BY DEF Format, TakenOut
<1> DEFINE o(k) == IF k < p THEN k ELSE k + 1
<1>2. \A k \in 1 .. index - 1 : u[k] = vec[o(k)] /\ o(k) \in 1 .. index /\ o(k) # p
  BY <1>1 DEF TakenOut
<1>3. ASSUME NEW k \in index .. Len(vec)
      PROVE  u[k] = 0
  <2>1. k \in 1 .. Len(vec) /\ ~(k < p) /\ ~(k < index)
    BY <1>1
  <2>2. u[k] = IF k < p \/ k > index THEN vec[k] ELSE IF k < index THEN vec[k + 1] ELSE 0
    BY <2>1 DEF TakenOut
  <2>3. k > index => vec[k] = 0
    <3>1. k > index => ~(k <= index)
      BY <1>1, <2>1
    <3> QED
      BY <1>1, <2>1, <3>1
  <2> QED
    BY <2>1, <2>2, <2>3
<1>4. \A l \in 1 .. index : l # p => \E k \in 1 .. index - 1 : o(k) = l
  <2>1. SUFFICES ASSUME NEW l \in 1 .. index, l # p PROVE \E k \in 1 .. index - 1 : o(k) = l
    OBVIOUS
  <2>2. l < p => l \in 1 .. index - 1 /\ o(l) = l
    BY <1>1
  <2>3. ~(l < p) => l - 1 \in 1 .. index - 1 /\ o(l - 1) = l
    BY <1>1, <2>1
  <2> QED
    BY <2>2, <2>3
<1>5. \A k, l \in 1 .. index - 1 : o(k) = o(l) => k = l
  BY <1>1
<1> HIDE DEF o
<1>6. Format(u, index - 1)
  <2>1. \A i \in 1 .. Len(u) : u[i] # 0 <=> i <= index - 1
    <3>1. SUFFICES ASSUME NEW i \in 1 .. Len(u) PROVE u[i] # 0 <=> i <= index - 1
      OBVIOUS
    <3>2. CASE i <= index - 1
      <4>1. i \in 1 .. index - 1
        BY <1>1, <3>2
      <4>2. vec[o(i)] # 0
        <5>1. o(i) \in 1 .. Len(vec) /\ o(i) <= index
          BY <1>1, <1>2, <4>1
        <5> QED
          BY <1>1, <5>1
      <4> QED
        BY <1>2, <3>2, <4>1, <4>2
    <3>3. CASE ~(i <= index - 1)
      <4>1. i \in index .. Len(vec)
        BY <1>1, <3>3
      <4> QED
        BY <1>3, <3>3, <4>1
    <3> QED
      BY <3>2, <3>3
  <2>2. \A i, j \in 1 .. index - 1 : u[i] = u[j] => i = j
    BY <1>1, <1>2, <1>5
  <2> QED
    BY <1>1, <2>1, <2>2 DEF Format
<1>7. ASSUME NEW e \in Live(u, index - 1)
      PROVE  e \in Live(vec, index) \ {vec[p]}
  <2>1. PICK k \in 1 .. index - 1 : u[k] = e
    BY <1>7 DEF Live
  <2>2. e # 0
    BY <1>7 DEF Live
  <2>3. vec[o(k)] = e /\ o(k) \in 1 .. index /\ o(k) # p
    BY <1>2, <2>1
  <2>4. e # vec[p]
    BY <1>1, <2>3
  <2> QED
    BY <2>2, <2>3, <2>4 DEF Live
<1>8. ASSUME NEW e \in Live(vec, index) \ {vec[p]}
      PROVE  e \in Live(u, index - 1)
  <2>1. PICK l \in 1 .. index : vec[l] = e
    BY <1>8 DEF Live
  <2>2. l # p /\ e # 0
    BY <1>8, <2>1 DEF Live
  <2>3. PICK k \in 1 .. index - 1 : o(k) = l
    BY <1>4, <2>2
  <2> QED
    BY <1>2, <2>1, <2>2, <2>3 DEF Live
<1> QED
  BY <1>6, <1>7, <1>8

\* What is not in the vector is not found.
LEMMA NotFound ==
  ASSUME NEW vec, NEW index \in Nat, NEW id, \A i \in 1 .. index : vec[i] # id
  PROVE  removeDemanded(vec, index, id) = [found |-> FALSE, d |-> [vec |-> vec, index |-> index]]
<1>1. ~(index > 0 /\ vec[index] = id)
  OBVIOUS
<1>2. {i \in 1 .. index - 1 : vec[i] = id} = {}
  OBVIOUS
<1> QED
  BY <1>1, <1>2 DEF removeDemanded

-----------------------------------------------------------------------------
(* The loop of a wait                                                      *)

\* What holds behind k rounds of the loop of a wait for v that serves its elements.
SentOf(v, k) == {v[j] : j \in {i \in 1 .. k : state[v[i]] = 2}}
Accs == [d : [vec : Seq(Nat), index : Nat], sent : SUBSET Task, count : Nat, deadlock : BOOLEAN]
Served(v, k, acc) ==
  /\ acc \in Accs
  /\ Format(acc.d.vec, acc.d.index) /\ Len(acc.d.vec) = Len(v)
  /\ \A l \in 1 .. Len(v) - k : acc.d.vec[l] = v[Len(v) + 1 - l]
  /\ acc.d.index = Len(v) - acc.count /\ acc.count <= k
  /\ acc.sent = SentOf(v, k)
  /\ IsFiniteSet(acc.sent) /\ acc.count = Cardinality(acc.sent)
  /\ Live(acc.d.vec, acc.d.index) = Elems(v) \ acc.sent
  /\ acc.deadlock <=>
       (\E j \in 1 .. Len(v) : state[v[j]] = 0) /\ \A j \in 1 .. k : state[v[j]] \notin {1, 2}

\* One round of that loop, for the element it has come to.
LEMMA RoundServed ==
  ASSUME NEW v \in Seq(Task), Distinct(v), NTasks \in Nat, NEW k \in 1 .. Len(v),
         NEW acc, Served(v, k - 1, acc), state \in [Task -> -1 .. 3]
  PROVE  Served(v, k, ServeElement(acc, Len(v) + 1 - k))
<1> DEFINE n == Len(v)
           i == n + 1 - k
           vec == acc.d.vec
           index == acc.d.index
<1>1. /\ n \in Nat /\ i \in 1 .. n /\ i \in 1 .. n - (k - 1) /\ n + 1 - i = k /\ n - (k - 1) = i
      /\ n - k = i - 1 /\ k \in Nat /\ k \in 1 .. k
      /\ \A j : j \in 1 .. k <=> j \in 1 .. k - 1 \/ j = k
  OBVIOUS
<1>2. /\ acc \in Accs /\ Format(vec, index) /\ Len(vec) = n
      /\ \A l \in 1 .. i : vec[l] = v[n + 1 - l]
      /\ index = n - acc.count /\ acc.count <= k - 1
      /\ acc.sent = SentOf(v, k - 1)
      /\ IsFiniteSet(acc.sent) /\ acc.count = Cardinality(acc.sent)
      /\ Live(vec, index) = Elems(v) \ acc.sent
      /\ acc.deadlock <=>
           (\E j \in 1 .. n : state[v[j]] = 0) /\ \A j \in 1 .. k - 1 : state[v[j]] \notin {1, 2}
  BY <1>1 DEF Served
<1>3. /\ vec \in Seq(Nat) /\ index \in Nat /\ acc.sent \in SUBSET Task /\ acc.count \in Nat
      /\ acc.deadlock \in BOOLEAN /\ acc.d = [vec |-> vec, index |-> index]
      /\ acc = [d |-> acc.d, sent |-> acc.sent, count |-> acc.count, deadlock |-> acc.deadlock]
  BY <1>2 DEF Accs
<1>4. i \in 1 .. index
  BY <1>1, <1>2, <1>3
<1>5. vec[i] = v[k] /\ v[k] \in Task
  BY <1>1, <1>2
<1>6. CASE state[v[k]] = 2
  <2>1. PICK u : TakenOut(vec, index, i, u) /\ RemovedAs(vec, index, vec[i], u)
    <3>1. Removes(vec, index, i)
      BY <1>2, <1>4, RemoveIs
    <3> QED
      BY <3>1 DEF Removes
  <2>2. Format(u, index - 1) /\ Live(u, index - 1) = Live(vec, index) \ {v[k]}
    BY <1>2, <1>4, <1>5, <2>1, TakenOutFormat
  <2> DEFINE r == [d |-> [vec |-> u, index |-> index - 1], sent |-> acc.sent \cup {v[k]},
                   count |-> acc.count + 1, deadlock |-> FALSE]
  <2>3. ServeElement(acc, i) = r
    BY <1>5, <1>6, <2>1 DEF ServeElement, RemovedAs
  <2>4. r \in Accs
    <3>1. u \in Seq(Nat)
      BY <2>1 DEF TakenOut
    <3>2. index - 1 \in Nat /\ acc.count + 1 \in Nat
      BY <1>3, <1>4
    <3> QED
      BY <1>3, <1>5, <3>1, <3>2 DEF Accs
  <2>5. Len(u) = n
    BY <1>2, <2>1 DEF TakenOut
  <2>6. \A l \in 1 .. n - k : u[l] = v[n + 1 - l]
    <3>1. SUFFICES ASSUME NEW l \in 1 .. n - k PROVE u[l] = v[n + 1 - l]
      OBVIOUS
    <3>2. l \in 1 .. i /\ l < i /\ l \in 1 .. n
      BY <1>1
    <3>3. u[l] = vec[l]
      BY <1>2, <2>1, <3>2 DEF TakenOut
    <3> QED
      BY <1>2, <3>2, <3>3
  <2>7. index - 1 = n - (acc.count + 1) /\ acc.count + 1 <= k
    <3> DEFINE c == acc.count
    <3>1. index = n - c /\ c <= k - 1 /\ c \in Nat /\ n \in Nat /\ k \in Nat
      BY <1>1, <1>2, <1>3
    <3> HIDE DEF n, c, index
    <3>2. index - 1 = n - (c + 1) /\ c + 1 <= k
      BY <3>1
    <3> QED
      BY <3>2 DEF c
  <2>8. acc.sent \cup {v[k]} = SentOf(v, k) /\ v[k] \notin acc.sent
    <3>1. v[k] \notin SentOf(v, k - 1)
      <4>1. \A j \in 1 .. k - 1 : j \in 1 .. n /\ j # k
        BY <1>1
      <4> QED
        BY <1>1, <4>1 DEF SentOf, Distinct
    <3>2. {j \in 1 .. k : state[v[j]] = 2} = {j \in 1 .. k - 1 : state[v[j]] = 2} \cup {k}
      BY <1>1, <1>6
    <3>3. SentOf(v, k) = SentOf(v, k - 1) \cup {v[k]}
      BY <3>2 DEF SentOf
    <3> QED
      BY <1>2, <3>1, <3>3
  <2>9. IsFiniteSet(acc.sent \cup {v[k]}) /\ Cardinality(acc.sent \cup {v[k]}) = acc.count + 1
    <3> DEFINE S == acc.sent
    <3>1. IsFiniteSet(S) /\ v[k] \notin S /\ acc.count = Cardinality(S)
      BY <1>2, <2>8
    <3> HIDE DEF S
    <3>2. IsFiniteSet(S \cup {v[k]}) /\ Cardinality(S \cup {v[k]}) = acc.count + 1
      BY <3>1, FS_AddElement
    <3> QED
      BY <3>2 DEF S
  <2>10. ~ \A j \in 1 .. k : state[v[j]] \notin {1, 2}
    BY <1>1, <1>6
  <2>11. Live(u, index - 1) = Elems(v) \ (acc.sent \cup {v[k]})
    BY <1>2, <2>2
  <2>12. /\ r.d.vec = u /\ r.d.index = index - 1 /\ r.sent = acc.sent \cup {v[k]}
         /\ r.count = acc.count + 1 /\ r.deadlock = FALSE
    OBVIOUS
  <2> HIDE DEF r, i, n
  <2>13. Served(v, k, r)
    BY <2>2, <2>4, <2>5, <2>6, <2>7, <2>8, <2>9, <2>10, <2>11, <2>12 DEF Served, n
  <2> QED
    BY <2>3, <2>13 DEF i, n
<1>7. CASE state[v[k]] # 2
  <2> DEFINE r == [d |-> acc.d, sent |-> acc.sent, count |-> acc.count,
                   deadlock |-> IF state[v[k]] = 1 THEN FALSE ELSE acc.deadlock]
  <2>1. ServeElement(acc, i) = r
    <3>1. CASE state[v[k]] = 1
      <4>1. ServeElement(acc, i) = [acc EXCEPT !.deadlock = FALSE]
        BY <1>5, <3>1 DEF ServeElement
      <4>2. [acc EXCEPT !.deadlock = FALSE] = r
        <5> DEFINE m == [acc EXCEPT !.deadlock = FALSE]
        <5>1. m.d = acc.d /\ m.sent = acc.sent /\ m.count = acc.count /\ m.deadlock = FALSE
          BY <1>2 DEF Accs
        <5>2. m = [d |-> m.d, sent |-> m.sent, count |-> m.count, deadlock |-> m.deadlock]
          <6>1. m \in Accs
            BY <1>2 DEF Accs
          <6> HIDE DEF m
          <6> QED
            BY <6>1 DEF Accs
        <5> HIDE DEF m
        <5> QED
          BY <3>1, <5>1, <5>2 DEF m
      <4> QED
        BY <4>1, <4>2
    <3>2. CASE state[v[k]] # 1
      <4>1. ServeElement(acc, i) = acc
        BY <1>5, <1>7, <3>2 DEF ServeElement
      <4> QED
        BY <1>3, <3>2, <4>1
    <3> QED
      BY <3>1, <3>2
  <2>2. r \in Accs
    BY <1>2 DEF Accs
  <2>3. SentOf(v, k) = SentOf(v, k - 1)
    <3>1. {j \in 1 .. k : state[v[j]] = 2} = {j \in 1 .. k - 1 : state[v[j]] = 2}
      BY <1>1, <1>7
    <3> QED
      BY <3>1 DEF SentOf
  <2>4. \A l \in 1 .. n - k : vec[l] = v[n + 1 - l]
    <3>1. SUFFICES ASSUME NEW l \in 1 .. n - k PROVE vec[l] = v[n + 1 - l]
      OBVIOUS
    <3>2. l \in 1 .. i
      BY <1>1
    <3> QED
      BY <1>2, <3>2
  <2>5. acc.count <= k
    BY <1>1, <1>2, <1>3
  <2>6. r.deadlock <=> (\E j \in 1 .. n : state[v[j]] = 0)
                         /\ \A j \in 1 .. k : state[v[j]] \notin {1, 2}
    <3>1. CASE state[v[k]] = 1
      BY <1>1, <3>1
    <3>2. CASE state[v[k]] # 1
      <4>1. (\A j \in 1 .. k : state[v[j]] \notin {1, 2})
              <=> \A j \in 1 .. k - 1 : state[v[j]] \notin {1, 2}
        BY <1>1, <1>7, <3>2
      <4>2. r.deadlock = acc.deadlock
        BY <3>2
      <4> HIDE DEF r
      <4> QED
        BY <1>2, <4>1, <4>2
    <3> QED
      BY <3>1, <3>2
  <2>7. r.d.vec = vec /\ r.d.index = index /\ r.sent = acc.sent /\ r.count = acc.count
    OBVIOUS
  <2> HIDE DEF r, i
  <2>8. Served(v, k, r)
    BY <1>2, <2>2, <2>3, <2>4, <2>5, <2>6, <2>7 DEF Served
  <2> QED
    BY <2>1, <2>8 DEF i
<1> QED
  BY <1>6, <1>7

\* What a wait for v does, where acc is what its loop returns.
Preferred(v) == Subsequence(v, {k \in DOMAIN v : state[v[k]] = 0})
WaitedWith(v, n, acc) ==
  /\ ~waiting /\ sent = {}
  /\ \A i \in 1 .. Len(v) : state[v[i]] \in 0 .. 2
  /\ n >= 1 - Cardinality({t \in Task : state[t] = 3})
  /\ waiting' = TRUE
  /\ demanded_tasks' = acc.d.vec /\ demanded_tasks_index' = acc.d.index
  /\ ndemanded' = Min({n, Len(v)}) - acc.count
  /\ sent' = acc.sent
  /\ LET q == IF Preferred(v) = <<>> THEN queue ELSE give_priority(Rest, Preferred(v))
         first == IF Preferred(v) = <<>> THEN next ELSE 1
     IN  IF acc.deadlock THEN Launch(state, q, first)
         ELSE queue' = q /\ next' = first /\ UNCHANGED state

\* The waiting tasks of a wait.
LEMMA PreferredIs ==
  ASSUME NEW v \in Seq(Task), Distinct(v)
  PROVE  /\ Preferred(v) \in Seq(Task) /\ Distinct(Preferred(v))
         /\ Elems(Preferred(v)) = Elems(v) \cap Waiting
         /\ Preferred(v) = <<>> <=> ~ \E j \in 1 .. Len(v) : state[v[j]] = 0
         /\ Preferred(v) = <<>> <=> Elems(v) \cap Waiting = {}
<1> DEFINE K == {k \in DOMAIN v : state[v[k]] = 0}
           w == Preferred(v)
<1>1. DOMAIN v = 1 .. Len(v) /\ Len(v) \in Nat /\ K \in SUBSET DOMAIN v
      /\ \A k \in DOMAIN v : v[k] \in Task
  OBVIOUS
<1>2. w = Subsequence(v, K)
  BY DEF Preferred
<1> HIDE DEF K, w
<1>3. /\ w \in Seq(Task)
      /\ \A m \in DOMAIN w : Nth(K, m) \in K /\ w[m] = v[Nth(K, m)]
      /\ \A k \in K : \E m \in DOMAIN w : Nth(K, m) = k /\ w[m] = v[k]
      /\ \A l, m \in DOMAIN w : l < m <=> Nth(K, l) < Nth(K, m)
  BY <1>1, <1>2, SubsequenceIs
<1>4. Len(w) \in Nat /\ DOMAIN w = 1 .. Len(w)
  BY <1>3
<1>5. Distinct(w)
  <2>1. SUFFICES ASSUME NEW k \in 1 .. Len(w), NEW l \in 1 .. Len(w), w[k] = w[l] PROVE k = l
    BY DEF Distinct
  <2>2. Nth(K, k) = Nth(K, l)
    BY <1>1, <1>3, <1>4, <2>1 DEF Distinct
  <2>3. \A x \in K : ~(x < x)
    BY <1>1
  <2>4. ~(k < l) /\ ~(l < k)
    BY <1>3, <1>4, <2>2, <2>3
  <2> QED
    BY <1>4, <2>4
<1>6. Elems(w) = Elems(v) \cap Waiting
  <2>1. ASSUME NEW e \in Elems(w) PROVE e \in Elems(v) \cap Waiting
    <3>1. PICK m \in DOMAIN w : w[m] = e
      BY <1>4, <2>1 DEF Elems
    <3>2. Nth(K, m) \in K /\ v[Nth(K, m)] = e
      BY <1>3, <3>1
    <3>3. \A k \in K : k \in 1 .. Len(v) /\ state[v[k]] = 0
      BY <1>1 DEF K
    <3> QED
      BY <1>1, <3>2, <3>3 DEF Elems, Waiting
  <2>2. ASSUME NEW e \in Elems(v) \cap Waiting PROVE e \in Elems(w)
    <3>1. PICK k \in 1 .. Len(v) : v[k] = e
      BY <2>2 DEF Elems
    <3>2. k \in K
      BY <1>1, <2>2, <3>1 DEF K, Waiting
    <3>3. PICK m \in DOMAIN w : w[m] = v[k]
      BY <1>3, <3>2
    <3> QED
      BY <1>4, <3>1, <3>3 DEF Elems
  <2> QED
    BY <2>1, <2>2
<1>7. w = <<>> <=> Elems(w) = {}
  <2>1. w = <<>> => Elems(w) = {}
    BY DEF Elems
  <2>2. w # <<>> => 1 \in 1 .. Len(w)
    BY <1>3
  <2> QED
    BY <2>1, <2>2 DEF Elems
<1>8. Elems(v) \cap Waiting = {} <=> ~ \E j \in 1 .. Len(v) : state[v[j]] = 0
  BY <1>1 DEF Elems, Waiting
<1> QED
  BY <1>3, <1>5, <1>6, <1>7, <1>8 DEF w

Start(v) == [d |-> [vec |-> Reverse(v), index |-> Len(v)], sent |-> {},
             count |-> 0, deadlock |-> Preferred(v) # <<>>]

\* Before the first round.
LEMMA StartServed ==
  ASSUME NEW v \in Seq(Task), Distinct(v), NTasks \in Nat
  PROVE  Served(v, 0, Start(v))
<1> DEFINE n == Len(v)
           u == Reverse(v)
<1>1. n \in Nat /\ \A l \in 1 .. n : v[l] \in Task /\ v[l] \in Nat /\ v[l] # 0
  BY DEF Task
<1>2. /\ Len(u) = n /\ DOMAIN u = 1 .. n
      /\ \A l \in 1 .. n : u[l] = v[n + 1 - l] /\ n + 1 - l \in 1 .. n /\ u[l] \in Nat /\ u[l] # 0
      /\ u \in Seq(Nat)
  <2>1. u = [l \in 1 .. n |-> v[n - l + 1]]
    BY DEF Reverse
  <2>2. \A l \in 1 .. n : n - l + 1 = n + 1 - l /\ n + 1 - l \in 1 .. n
    BY <1>1
  <2> HIDE DEF n
  <2>3. u = [l \in 1 .. n |-> v[n + 1 - l]]
    BY <2>1, <2>2
  <2> HIDE DEF u
  <2> QED
    BY <1>1, <2>2, <2>3
<1> HIDE DEF u
<1>3. Format(u, n)
  <2>1. \A i, j \in 1 .. n : u[i] = u[j] => i = j
    <3>1. SUFFICES ASSUME NEW i \in 1 .. n, NEW j \in 1 .. n, u[i] = u[j] PROVE i = j
      OBVIOUS
    <3>2. n + 1 - i = n + 1 - j
      BY <1>2, <3>1 DEF Distinct
    <3> QED
      BY <1>1, <3>2
  <2>2. \A i \in 1 .. n : i <= n
    BY <1>1
  <2> QED
    BY <1>1, <1>2, <2>1, <2>2 DEF Format
<1>4. Live(u, n) = Elems(v)
  <2>1. ASSUME NEW e \in Live(u, n) PROVE e \in Elems(v)
    BY <1>2 DEF Live, Elems
  <2>2. ASSUME NEW e \in Elems(v) PROVE e \in Live(u, n)
    <3>1. PICK l \in 1 .. n : v[l] = e
      BY DEF Elems
    <3>2. n + 1 - l \in 1 .. n /\ n + 1 - (n + 1 - l) = l
      BY <1>1
    <3>3. u[n + 1 - l] = e
      BY <1>2, <3>1, <3>2
    <3> QED
      BY <1>1, <3>1, <3>2, <3>3 DEF Live
  <2> QED
    BY <2>1, <2>2
<1>5. SentOf(v, 0) = {}
  BY DEF SentOf
<1>6. IsFiniteSet({}) /\ Cardinality({}) = 0
  BY FS_EmptySet
<1>7. (Preferred(v) # <<>>) <=>
        (\E j \in 1 .. n : state[v[j]] = 0) /\ \A j \in 1 .. 0 : state[v[j]] \notin {1, 2}
  <2>1. Preferred(v) = <<>> <=> ~ \E j \in 1 .. n : state[v[j]] = 0
    BY PreferredIs
  <2> QED
    BY <2>1
<1> DEFINE acc == Start(v)
<1>8. /\ acc.d.vec = u /\ acc.d.index = n /\ acc.sent = {} /\ acc.count = 0
      /\ acc.deadlock = (Preferred(v) # <<>>) /\ acc \in Accs
  BY <1>1, <1>2 DEF Start, Accs, u
<1>9. n - 0 = n /\ 0 <= 0
  BY <1>1
<1> HIDE DEF acc, n
<1> QED
  BY <1>2, <1>3, <1>4, <1>5, <1>6, <1>7, <1>8, <1>9 DEF Served, n, acc

WaitServes(v, n) == \E acc : Served(v, Len(v), acc) /\ WaitedWith(v, n, acc)

\* WaitTasks does what its loop, run to the end, says.
LEMMA WaitIs ==
  ASSUME NEW v \in Seq(Task), Distinct(v), NTasks \in Nat, NEW n, WaitTasks(v, n),
         state \in [Task -> -1 .. 3]
  PROVE  WaitServes(v, n)
<1> DEFINE size == Len(v)
           a == Start(v)
           G == [k \in 0 .. size |-> {acc \in Accs : Served(v, k, acc)}]
           F == [k \in 1 .. size |-> [x \in G[k - 1] |-> ServeElement(x, size + 1 - k)]]
           Body(f) == [k \in 0 .. size |-> IF k = 0 THEN a ELSE ServeElement(f[k - 1], size + 1 - k)]
           serving == CHOOSE f : f = Body(f)
<1>1. size \in Nat /\ \A k \in 1 .. size : k \in 0 .. size /\ k # 0 /\ k - 1 \in 0 .. size
  OBVIOUS
<1>2. \A k \in 0 .. size : \A acc : acc \in G[k] <=> Served(v, k, acc)
  BY DEF Served
<1>3. a \in G[0]
  <2>1. Served(v, 0, a)
    BY StartServed
  <2> QED
    BY <1>1, <1>2, <2>1
<1>4. ASSUME NEW k \in 1 .. size, NEW x \in G[k - 1]
      PROVE  ServeElement(x, size + 1 - k) \in G[k]
  <2>1. Served(v, k - 1, x)
    BY <1>1, <1>2
  <2>2. Served(v, k, ServeElement(x, size + 1 - k))
    BY <2>1, RoundServed
  <2> QED
    BY <1>1, <1>2, <2>2
<1> HIDE DEF a
<1>5. \E f : f = Body(f)
  <2>1. \A i \in 1 .. size : \A x \in G[i - 1] : F[i][x] = ServeElement(x, size + 1 - i)
    OBVIOUS
  <2>2. Keeps(size, F, G)
    BY <1>4, <2>1 DEF Keeps
  <2> HIDE DEF G, F
  <2>3. PICK f : Runs(size, a, F, G, f)
    <3>1. size \in Nat
      BY <1>1
    <3> HIDE DEF size
    <3> QED
      BY <1>3, <2>2, <3>1, LoopRuns
  <2> DEFINE g == [i \in 0 .. size |-> f[i]]
  <2>4. ASSUME NEW i \in 0 .. size
        PROVE  g[i] = IF i = 0 THEN a ELSE ServeElement(g[i - 1], size + 1 - i)
    <3>1. CASE i = 0
      BY <2>3, <3>1 DEF Runs
    <3>2. CASE i # 0
      <4>1. i \in 1 .. size /\ i - 1 \in 0 .. size
        BY <1>1, <3>2
      <4>2. f[i - 1] \in G[i - 1] /\ f[i] = F[i][f[i - 1]]
        BY <2>3, <4>1 DEF Runs
      <4>3. g[i] = ServeElement(g[i - 1], size + 1 - i)
        BY <2>1, <4>1, <4>2
      <4> QED
        BY <3>2, <4>3
    <3> QED
      BY <3>1, <3>2
  <2>5. g = [i \in 0 .. size |-> g[i]]
    OBVIOUS
  <2> HIDE DEF g
  <2>6. g = Body(g)
    BY <2>4, <2>5
  <2> QED
    BY <2>6
<1>6. serving = Body(serving)
  <2> HIDE DEF Body
  <2> QED
    BY <1>5
<1>7. Served(v, size, serving[size])
  <2> HIDE DEF serving
  <2>1. serving[0] = a /\ \A i \in 1 .. size : serving[i] = ServeElement(serving[i - 1], size + 1 - i)
    <3>1. serving = [i \in 0 .. size |-> IF i = 0 THEN a ELSE ServeElement(serving[i - 1], size + 1 - i)]
      BY <1>6
    <3>2. \A i \in 0 .. size : serving[i] = IF i = 0 THEN a ELSE ServeElement(serving[i - 1], size + 1 - i)
      BY <3>1
    <3>3. 0 \in 0 .. size
      BY <1>1
    <3> QED
      BY <1>1, <3>2, <3>3
  <2> HIDE DEF G
  <2>2. serving[0] \in G[0]
    BY <1>3, <2>1
  <2>3. \A i \in 1 .. size : serving[i - 1] \in G[i - 1] => serving[i] \in G[i]
    BY <1>4, <2>1
  <2>4. \A i \in 0 .. size : serving[i] \in G[i]
    BY <1>1, <2>2, <2>3, LoopInvariant
  <2>5. size \in 0 .. size
    BY <1>1
  <2> QED
    BY <1>2, <2>4, <2>5
<1>8. WaitedWith(v, n, serving[size])
  BY Zenon DEF WaitTasks, WaitedWith, Preferred, a, Start
<1> QED
  BY <1>7, <1>8 DEF WaitServes

-----------------------------------------------------------------------------
(* The invariant, and a launch                                             *)

\* The part of queue that counts lists the tasks that wait in st, each once.
Part(q, n) == SubSeq(q, n, Len(q))
Listed(st, q, n) ==
  /\ q \in Seq(Task) /\ Distinct(q) /\ n \in 1 .. Len(q) + 1
  /\ Elems(Part(q, n)) = {t \in Task : st[t] = 0}
States == [Task -> -1 .. 3]
QueueInv == state \in States /\ Listed(state, queue, next)

DemandInv ==
  /\ waiting \in BOOLEAN
  /\ ~waiting => demanded_tasks = <<0>> /\ demanded_tasks_index = 1 /\ ndemanded = -1
  /\ waiting => /\ Format(demanded_tasks, demanded_tasks_index)
                /\ Live(demanded_tasks, demanded_tasks_index) \subseteq Task
                /\ ndemanded \in Int /\ ndemanded <= demanded_tasks_index

SentInv == sent \in SUBSET Task /\ \A t \in sent : state[t] = 2

VectorsInv == QueueInv /\ DemandInv /\ SentInv

\* The part of a queue from n on.
PartOf(q, n, r) ==
  /\ r \in Seq(Task) /\ Len(r) = Len(q) + 1 - n
  /\ \A i \in 1 .. Len(r) : r[i] = q[n + i - 1] /\ n + i - 1 \in n .. Len(q)

\* SubSeq, element by element.
LEMMA PartIs ==
  ASSUME NEW q \in Seq(Task), NEW n \in 1 .. Len(q) + 1
  PROVE  PartOf(q, n, Part(q, n))
<1>1. Len(q) \in Nat /\ \A i \in 1 .. Len(q) : q[i] \in Task
  OBVIOUS
<1>2. Part(q, n) = [i \in 1 .. Len(q) - n + 1 |-> q[n + i - 1]]
  BY <1>1 DEF Part
<1>3. Len(q) - n + 1 = Len(q) + 1 - n /\ Len(q) + 1 - n \in Nat
  BY <1>1
<1>4. \A i \in 1 .. Len(q) + 1 - n : n + i - 1 \in n .. Len(q) /\ n + i - 1 \in 1 .. Len(q)
  BY <1>1
<1> DEFINE r == Part(q, n)
           m == Len(q) + 1 - n
<1>5. r = [i \in 1 .. m |-> q[n + i - 1]]
  BY <1>2, <1>3
<1> HIDE DEF r, m
<1>6. m \in Nat /\ \A i \in 1 .. m : n + i - 1 \in n .. Len(q) /\ q[n + i - 1] \in Task
  BY <1>1, <1>3, <1>4 DEF m
<1>7. r \in Seq(Task) /\ Len(r) = m /\ \A i \in 1 .. m : r[i] = q[n + i - 1]
  BY <1>5, <1>6
<1> QED
  BY <1>6, <1>7 DEF PartOf, r, m

\* Of a queue without repetitions no part has one.
LEMMA PartDistinct ==
  ASSUME NEW q \in Seq(Task), NEW n \in 1 .. Len(q) + 1, Distinct(q)
  PROVE  Part(q, n) \in Seq(Task) /\ Distinct(Part(q, n))
<1> DEFINE r == Part(q, n)
<1>1. PartOf(q, n, r)
  BY PartIs
<1> HIDE DEF r
<1>2. SUFFICES ASSUME NEW k \in 1 .. Len(r), NEW l \in 1 .. Len(r), r[k] = r[l]
               PROVE  k = l
  BY <1>1 DEF PartOf, Distinct, r
<1>3. n + k - 1 \in 1 .. Len(q) /\ n + l - 1 \in 1 .. Len(q) /\ q[n + k - 1] = q[n + l - 1]
  BY <1>1, <1>2 DEF PartOf
<1>4. n + k - 1 = n + l - 1
  BY <1>3 DEF Distinct
<1> QED
  BY <1>4

\* ... and its elements are those from n on.
LEMMA PartElems ==
  ASSUME NEW q \in Seq(Task), NEW n \in 1 .. Len(q) + 1
  PROVE  Elems(Part(q, n)) = {q[i] : i \in n .. Len(q)}
<1> DEFINE r == Part(q, n)
<1>1. PartOf(q, n, r)
  BY PartIs
<1> HIDE DEF r
<1>2. \A i \in n .. Len(q) : i + 1 - n \in 1 .. Len(r) /\ n + (i + 1 - n) - 1 = i
  BY <1>1 DEF PartOf
<1>3. \A i \in n .. Len(q) : \E k \in 1 .. Len(r) : r[k] = q[i]
  BY <1>1, <1>2 DEF PartOf
<1>4. \A k \in 1 .. Len(r) : \E i \in n .. Len(q) : r[k] = q[i]
  BY <1>1 DEF PartOf
<1>5. ASSUME NEW e \in Elems(r) PROVE e \in {q[i] : i \in n .. Len(q)}
  <2>1. PICK k \in 1 .. Len(r) : r[k] = e
    BY DEF Elems
  <2> QED
    BY <1>4, <2>1
<1>6. ASSUME NEW e \in {q[i] : i \in n .. Len(q)} PROVE e \in Elems(r)
  <2>1. PICK i \in n .. Len(q) : q[i] = e
    OBVIOUS
  <2> QED
    BY <1>3, <2>1 DEF Elems
<1> QED
  BY <1>5, <1>6 DEF r

LaunchImplemented(st, q, n) ==
  /\ QueueInv'
  /\ List!LaunchNext(st, Part(q, n))
  /\ \A t \in Task : st[t] # 0 => state'[t] = st[t]

\* A launch keeps the queue right, and is one from the list.
LEMMA LaunchIs ==
  ASSUME NEW st \in States, NEW q, NEW n, Listed(st, q, n), Launch(st, q, n)
  PROVE  LaunchImplemented(st, q, n)
<1> DEFINE r == Part(q, n)
<1>1. /\ q \in Seq(Task) /\ Distinct(q) /\ n \in 1 .. Len(q) + 1
      /\ Elems(r) = {t \in Task : st[t] = 0} /\ Len(q) \in Nat
  BY DEF Listed
<1>2. PartOf(q, n, r)
  BY <1>1, PartIs
<1> HIDE DEF r
<1>3. r = <<>> <=> Elems(r) = {}
  <2>1. r # <<>> => 1 \in 1 .. Len(r)
    BY <1>2 DEF PartOf
  <2> QED
    BY <2>1 DEF Elems
<1>4. CASE r = <<>>
  <2>1. state' = st /\ next' = n /\ queue' = q
    BY <1>1, <1>3, <1>4 DEF Launch
  <2>2. Rest' = r
    BY <2>1 DEF Rest, Part, r
  <2>3. QueueInv'
    BY <2>1 DEF QueueInv, Listed, States, Part
  <2>4. List!LaunchNext(st, r)
    BY <1>4, <2>1, <2>2 DEF List!LaunchNext
  <2> QED
    BY <2>1, <2>3, <2>4 DEF LaunchImplemented, r
<1>5. CASE r # <<>>
  <2>1. state' = [st EXCEPT ![q[n]] = 1] /\ next' = n + 1 /\ queue' = q
    BY <1>1, <1>3, <1>5 DEF Launch
  <2>2. 1 \in 1 .. Len(r) /\ r[1] = q[n] /\ n \in 1 .. Len(q) /\ n + 1 \in 1 .. Len(q) + 1
    <3>1. Len(r) \in Nat /\ Len(r) # 0
      BY <1>2, <1>5 DEF PartOf
    <3>2. Len(r) = Len(q) + 1 - n
      BY <1>2 DEF PartOf
    <3>3. n + 1 - 1 = n
      BY <1>1
    <3>4. r[1] = q[n + 1 - 1]
      BY <1>2, <3>1 DEF PartOf
    <3> QED
      BY <1>1, <3>1, <3>2, <3>3, <3>4
  <2>3. st[q[n]] = 0 /\ q[n] \in Task
    BY <1>1, <2>2 DEF Elems
  <2> DEFINE s == Part(q, n + 1)
  <2>4. PartOf(q, n + 1, s)
    BY <1>1, <2>2, PartIs
  <2>5. Rest' = s
    BY <2>1 DEF Rest, Part
  <2> HIDE DEF s
  <2>6. s = Tail(r)
    <3>1. Len(r) \in Nat /\ Len(s) = Len(r) - 1
      BY <1>1, <1>2, <2>2, <2>4 DEF PartOf
    <3>2. \A i \in 1 .. Len(r) - 1 : s[i] = r[i + 1]
      <4>1. SUFFICES ASSUME NEW i \in 1 .. Len(r) - 1 PROVE s[i] = r[i + 1]
        OBVIOUS
      <4>2. i \in 1 .. Len(s) /\ i + 1 \in 1 .. Len(r) /\ (n + 1) + i - 1 = n + (i + 1) - 1
        BY <1>1, <3>1
      <4> QED
        BY <1>2, <2>4, <4>2 DEF PartOf
    <3>3. Tail(r) \in Seq(Task) /\ Len(Tail(r)) = Len(r) - 1
          /\ \A i \in 1 .. Len(r) - 1 : Tail(r)[i] = r[i + 1]
      BY <1>2, <1>5 DEF PartOf
    <3>4. s \in Seq(Task)
      BY <2>4 DEF PartOf
    <3> DEFINE t == Tail(r)
               m == Len(r) - 1
    <3>5. /\ t \in Seq(Task) /\ Len(t) = m /\ Len(s) = m
          /\ \A i \in 1 .. m : s[i] = t[i]
      BY <3>1, <3>2, <3>3
    <3> HIDE DEF s, r, t, m
    <3>6. t = [i \in 1 .. m |-> t[i]]
      BY <3>5
    <3>7. s = [i \in 1 .. m |-> s[i]]
      BY <3>4, <3>5
    <3> QED
      BY <3>5, <3>6, <3>7 DEF t
  <2>7. Elems(s) = {t \in Task : state'[t] = 0}
    <3>1. Elems(r) = {q[i] : i \in n .. Len(q)}
      BY <1>1, PartElems DEF r
    <3>2. Elems(s) = {q[i] : i \in n + 1 .. Len(q)}
      BY <1>1, <2>2, PartElems DEF s
    <3>3. Elems(s) = Elems(r) \ {q[n]}
      <4>1. \A i : i \in n .. Len(q) <=> i = n \/ i \in n + 1 .. Len(q)
        BY <1>1, <2>2
      <4>2. \A i \in n + 1 .. Len(q) : q[i] # q[n]
        <5>1. \A i \in n + 1 .. Len(q) : i \in 1 .. Len(q) /\ i # n
          BY <1>1, <2>2
        <5> QED
          BY <1>1, <2>2, <5>1 DEF Distinct
      <4> QED
        BY <3>1, <3>2, <4>1, <4>2
    <3>4. \A t \in Task : state'[t] = 0 <=> st[t] = 0 /\ t # q[n]
      BY <2>1, <2>3 DEF States
    <3> QED
      BY <1>1, <3>3, <3>4
  <2>8. QueueInv'
    <3>1. state' \in States
      BY <2>1, <2>3 DEF States
    <3>2. Part(q, n + 1)' = Part(q, n + 1)
      OBVIOUS
    <3>3. Listed(state', q, n + 1)
      BY <1>1, <2>2, <2>7 DEF Listed, s
    <3> QED
      BY <2>1, <3>1, <3>3 DEF QueueInv, Listed, States, Part
  <2>9. List!LaunchNext(st, r)
    <3>1. Head(r) = r[1]
      BY <1>2 DEF PartOf
    <3> QED
      BY <1>5, <2>1, <2>2, <2>5, <2>6, <3>1 DEF List!LaunchNext
  <2>10. \A t \in Task : st[t] # 0 => state'[t] = st[t]
    BY <2>1, <2>3 DEF States
  <2> QED
    BY <2>8, <2>9, <2>10 DEF LaunchImplemented, r
<1> QED
  BY <1>4, <1>5

\* Rest is the part of queue from next on.
LEMMA RestIs == Rest = Part(queue, next)
BY DEF Rest, Part

\* Two sequences with the same elements at the same indices.
LEMMA SameSeq ==
  ASSUME NEW U, NEW s \in Seq(U), NEW t \in Seq(U), Len(s) = Len(t),
         \A i \in 1 .. Len(s) : s[i] = t[i]
  PROVE  s = t
<1>1. s = [i \in 1 .. Len(s) |-> s[i]] /\ t = [i \in 1 .. Len(t) |-> t[i]]
  OBVIOUS
<1> QED
  BY <1>1

\* The part from the first element on is the whole queue.
LEMMA WholePart ==
  ASSUME NEW q \in Seq(Task)
  PROVE  Part(q, 1) = q
<1>1. 1 \in 1 .. Len(q) + 1
  OBVIOUS
<1>2. PartOf(q, 1, Part(q, 1))
  BY <1>1, PartIs
<1> DEFINE r == Part(q, 1)
<1> HIDE DEF r
<1>3. r \in Seq(Task) /\ Len(r) = Len(q) + 1 - 1 /\ \A i \in 1 .. Len(r) : r[i] = q[1 + i - 1]
  BY <1>2 DEF r, PartOf
<1>4. Len(r) = Len(q) /\ \A i \in 1 .. Len(r) : r[i] = q[i]
  BY <1>3
<1>5. r = q
  BY <1>3, <1>4, SameSeq
<1> QED
  BY <1>5 DEF r

-----------------------------------------------------------------------------
(* The actions                                                             *)

\* A link is opened.
OpenedRight == VectorsInv' /\ List!Launch

\* A new link launches the head of the list: OpenLink is Launch of WaitingList.
LEMMA OpenLinkImplemented ==
  ASSUME VectorsInv, OpenLink
  PROVE  OpenedRight
<1>1. state \in States /\ Listed(state, queue, next) /\ Launch(state, queue, next)
  BY DEF VectorsInv, QueueInv, OpenLink
<1>2. LaunchImplemented(state, queue, next)
  BY <1>1, LaunchIs
<1>3. UNCHANGED <<demandVars, waiting, sent>>
  BY DEF OpenLink
<1>4. QueueInv'
  BY <1>2 DEF LaunchImplemented
<1>5. DemandInv'
  BY <1>3 DEF VectorsInv, DemandInv, demandVars
<1>6. SentInv'
  <2>1. \A t \in sent : t \in Task /\ state[t] # 0 /\ state[t] = 2
    BY DEF VectorsInv, SentInv
  <2>2. \A t \in sent : state'[t] = 2
    BY <1>2, <2>1 DEF LaunchImplemented
  <2> QED
    BY <1>3, <2>2 DEF VectorsInv, SentInv
<1>7. Rest # <<>>
  <2>1. Elems(Rest) = Waiting /\ Waiting # {}
    BY <1>1, RestIs DEF Listed, Waiting, OpenLink
  <2> QED
    BY <2>1 DEF Elems
<1>8. List!LaunchNext(state, Rest)
  BY <1>2, RestIs DEF LaunchImplemented
<1>9. List!Launch
  BY <1>3, <1>7, <1>8 DEF List!Launch, demandVars
<1> QED
  BY <1>4, <1>5, <1>6, <1>9 DEF VectorsInv, OpenedRight

\* A link becomes free.
FreedRight(id, final) == VectorsInv' /\ List!Free(id, final)

\* Where a link becomes free the next task is launched on it: Free of WaitingList.
LEMMA FreeImplemented ==
  ASSUME VectorsInv, NEW id \in Task, NEW final \in {-1, 3}, state[id] \in {1, 2},
         Launch([state EXCEPT ![id] = final], queue, next),
         sent' = sent \ {id}, UNCHANGED <<demandVars, waiting>>
  PROVE  FreedRight(id, final)
<1> DEFINE st == [state EXCEPT ![id] = final]
<1>1. st \in States
  BY DEF VectorsInv, QueueInv, States
<1>2. \A t \in Task : st[t] = IF t = id THEN final ELSE state[t]
  BY DEF VectorsInv, QueueInv, States
<1> HIDE DEF st
<1>3. Listed(st, queue, next)
  <2>1. {t \in Task : st[t] = 0} = {t \in Task : state[t] = 0}
    BY <1>2
  <2> QED
    BY <2>1 DEF VectorsInv, QueueInv, Listed
<1>4. LaunchImplemented(st, queue, next)
  <2>1. Launch(st, queue, next)
    BY DEF st
  <2> QED
    BY <1>1, <1>3, <2>1, LaunchIs
<1>5. QueueInv'
  BY <1>4 DEF LaunchImplemented
<1>6. DemandInv'
  BY DEF VectorsInv, DemandInv, demandVars
<1>7. SentInv'
  <2>1. \A t \in sent : t \in Task /\ state[t] = 2
    BY DEF VectorsInv, SentInv
  <2>2. \A t \in sent \ {id} : t \in Task /\ st[t] # 0 /\ st[t] = 2
    BY <1>2, <2>1
  <2>3. \A t \in sent \ {id} : state'[t] = 2
    BY <1>4, <2>2 DEF LaunchImplemented
  <2> QED
    BY <2>3 DEF VectorsInv, SentInv
<1>8. List!LaunchNext(st, Rest)
  BY <1>4, RestIs DEF LaunchImplemented
<1>9. List!Free(id, final)
  BY <1>8 DEF List!Free, demandVars, st
<1> QED
  BY <1>5, <1>6, <1>7, <1>9 DEF VectorsInv, FreedRight

\* The stop of a started task frees its link.
LEMMA StopStartedImplemented ==
  ASSUME VectorsInv, NEW id \in Task, StopStarted(id)
  PROVE  FreedRight(id, -1)
<1>1. sent' = sent \ {id}
  BY DEF StopStarted
<1> QED
  BY <1>1, FreeImplemented DEF StopStarted

\* A result that is got frees its link.
LEMMA GotImplemented ==
  ASSUME VectorsInv, NEW id \in Task, Got(id)
  PROVE  FreedRight(id, 3)
<1>1. state[id] \in {1, 2}
  BY DEF VectorsInv, SentInv, Got
<1> QED
  BY <1>1, FreeImplemented DEF Got

\* A wait ends.
EndedRight == VectorsInv' /\ List!EndWait

\* EndWait resets the vector: none is demanded.
LEMMA EndWaitImplemented ==
  ASSUME VectorsInv, EndWait
  PROVE  EndedRight
<1>1. /\ demanded_tasks' = <<0>> /\ demanded_tasks_index' = 1 /\ ndemanded' = -1
      /\ ~waiting' /\ waiting' \in BOOLEAN
      /\ state' = state /\ queue' = queue /\ next' = next /\ sent' = sent
  BY DEF EndWait
<1>2. DemandInv'
  BY <1>1 DEF DemandInv
<1>3. QueueInv' /\ SentInv'
  BY <1>1 DEF VectorsInv, QueueInv, SentInv, Listed, Part
<1>4. Rest' = Rest
  BY <1>1 DEF Rest
<1>5. {<<0>>[i] : i \in 1 .. 1} \ {0} = {}
  OBVIOUS
<1>6. List!EndWait
  BY <1>1, <1>4, <1>5 DEF List!EndWait
<1> QED
  BY <1>2, <1>3, <1>6 DEF VectorsInv, EndedRight

TasksNat == Task \in SUBSET (Nat \ {0})

\* No task has the number 0, which marks blanks.
LEMMA TasksAreNat ==
  ASSUME NTasks \in Nat
  PROVE  TasksNat
BY DEF Task, TasksNat

\* What WaitingList takes from TaskPriority and Subsequences is the same there.
LEMMA ListCardinality ==
  ASSUME NEW S
  PROVE  List!Cardinality(S) = Cardinality(S)
BY Zenon DEF Cardinality, List!Cardinality

\* The same of Elems, ...
LEMMA ListElems ==
  ASSUME NEW q
  PROVE  List!Elems(q) = Elems(q)
BY DEF Elems, List!Elems

\* ... of GivePriority, ...
LEMMA ListGivePriority ==
  ASSUME NEW q, NEW P
  PROVE  List!GivePriority(q, P) = GivePriority(q, P)
BY Zenon DEF GivePriority, List!GivePriority, Elems, List!Elems

\* ... and of Subsequence.
LEMMA ListSubsequence ==
  ASSUME NEW s, NEW K
  PROVE  List!Subsequence(s, K) = Subsequence(s, K)
<1>1. \A k : List!Place(K, k) = Place(K, k)
  BY ListCardinality DEF Place, List!Place
<1>2. \A n : List!Nth(K, n) = Nth(K, n)
  BY <1>1 DEF Nth, List!Nth
<1> QED
  BY <1>2, ListCardinality DEF Subsequence, List!Subsequence

\* The queue with the task at p moved to its head.
HeadMoved(q, p, r) ==
  /\ r \in Seq(Task) /\ Len(r) = Len(q) /\ Distinct(r) /\ r[1] = q[p]
  /\ \A i \in 2 .. Len(q) : r[i] = IF i <= p THEN q[i - 1] ELSE q[i]

\* give_priority for one task moves it to the head and no other past another.
LEMMA HeadGiven ==
  ASSUME NTasks \in Nat, NEW q \in Seq(Task), Distinct(q), NEW p \in 1 .. Len(q)
  PROVE  HeadMoved(q, p, give_priority(q, <<q[p]>>))
<1> DEFINE one == <<q[p]>>
           r == give_priority(q, one)
<1>1. TasksNat /\ one \in Seq(Task) /\ Len(one) = 1 /\ one[1] = q[p] /\ Elems(one) = {q[p]}
  BY TasksAreNat DEF Elems
<1>2. Distinct(one) /\ Elems(one) \subseteq Elems(q)
  BY <1>1 DEF Distinct, Elems
<1> HIDE DEF one
<1>3. r \in Seq(Task) /\ Len(r) = Len(q) /\ Distinct(r) /\ Elems(r) = Elems(q)
  BY <1>1, <1>2, PriorityGiven DEF TasksNat
<1>4. Len(q) \in Nat /\ DOMAIN q = 1 .. Len(q)
  OBVIOUS
<1>5. CASE Len(q) = 1
  <2>1. r = q
    BY <1>1, <1>5 DEF give_priority
  <2> HIDE DEF r
  <2> QED
    BY <1>3, <1>5, <2>1 DEF HeadMoved, r, one
<1>6. CASE Len(q) # 1
  <2>1. r = one \o Subsequence(q, Left(q, one))
    BY <1>1, <1>2, <1>6, GivePriorityIs DEF TasksNat
  <2>2. Left(q, one) = (DOMAIN q) \ {p}
    BY <1>1, <1>4 DEF Left, Distinct
  <2> DEFINE t == Subsequence(q, (DOMAIN q) \ {p})
  <2>3. /\ t \in Seq(Task) /\ Len(t) = Len(q) - 1
        /\ \A m \in 1 .. Len(q) - 1 : t[m] = IF m < p THEN q[m] ELSE q[m + 1]
    BY WithoutOne
  <2> HIDE DEF t, r
  <2>4. r = one \o t
    BY <2>1, <2>2 DEF t
  <2>5. r[1] = q[p] /\ \A i \in 2 .. Len(q) : r[i] = t[i - 1]
    <3>1. /\ Len(r) = Len(one) + Len(t)
          /\ \A i \in 1 .. Len(one) + Len(t) :
               r[i] = IF i <= Len(one) THEN one[i] ELSE t[i - Len(one)]
      BY <1>1, <2>3, <2>4, ConcatProperties
    <3>2. \A i \in 1 .. Len(q) : r[i] = IF i <= 1 THEN one[i] ELSE t[i - 1]
      <4>1. 1 + (Len(q) - 1) = Len(q)
        BY <1>4
      <4> QED
        BY <1>1, <2>3, <3>1, <4>1
    <3>3. 1 \in 1 .. Len(q) /\ \A i \in 2 .. Len(q) : i \in 1 .. Len(q) /\ ~(i <= 1)
      BY <1>4
    <3> QED
      BY <1>1, <3>2, <3>3
  <2>6. ASSUME NEW i \in 2 .. Len(q)
        PROVE  r[i] = IF i <= p THEN q[i - 1] ELSE q[i]
    <3>1. i - 1 \in 1 .. Len(q) - 1 /\ (i - 1 < p <=> i <= p) /\ i - 1 + 1 = i
      BY <1>4
    <3>2. r[i] = t[i - 1]
      BY <2>5
    <3> QED
      BY <2>3, <3>1, <3>2
  <2> QED
    BY <1>3, <2>5, <2>6 DEF HeadMoved, r, one
<1> QED
  BY <1>5, <1>6

\* A waiting task is stopped.
StoppedRight(id) == VectorsInv' /\ List!Drop(id)

\* A waiting task that is stopped is brought to the head of the whole queue and
\* skipped there: with next advanced by one the part that counts lacks it and nothing
\* else, as Drop of WaitingList has it.
LEMMA StopWaitingImplemented ==
  ASSUME NTasks \in Nat, VectorsInv, NEW id \in Task, StopWaiting(id)
  PROVE  StoppedRight(id)
<1>1. /\ queue \in Seq(Task) /\ Distinct(queue) /\ next \in 1 .. Len(queue) + 1
      /\ Elems(Part(queue, next)) = {t \in Task : state[t] = 0} /\ state \in States
      /\ Len(queue) \in Nat
  BY DEF VectorsInv, QueueInv, Listed
<1>2. /\ state[id] = 0 /\ queue' = give_priority(queue, <<id>>) /\ next' = next + 1
      /\ state' = [state EXCEPT ![id] = -1]
      /\ UNCHANGED <<demandVars, waiting, sent>>
  BY DEF StopWaiting, NextAfterStop
<1>3. state' \in States /\ \A t \in Task : state'[t] = IF t = id THEN -1 ELSE state[t]
  BY <1>1, <1>2 DEF States
<1>4. PICK p : p \in next .. Len(queue) /\ queue[p] = id
  <2>1. id \in {queue[i] : i \in next .. Len(queue)}
    BY <1>1, <1>2, PartElems
  <2> QED
    BY <2>1
<1>5. p \in 1 .. Len(queue) /\ next + 1 \in 1 .. Len(queue) + 1
  BY <1>1, <1>4
<1>6. HeadMoved(queue, p, queue')
  BY <1>1, <1>2, <1>4, <1>5, HeadGiven
<1> DEFINE s == Part(queue, next)
           u == Part(queue', next + 1)
           a == p + 1 - next
           t == Subsequence(s, (DOMAIN s) \ {a})
<1>7. PartOf(queue, next, s)
  BY <1>1, PartIs
<1>8. PartOf(queue', next + 1, u)
  <2>1. queue' \in Seq(Task) /\ next + 1 \in 1 .. Len(queue') + 1
    BY <1>5, <1>6 DEF HeadMoved
  <2> QED
    BY <2>1, PartIs
<1>9. Rest = s /\ Rest' = u
  BY <1>2 DEF Rest, Part
<1> HIDE DEF s, u
<1>10. Distinct(s) /\ s \in Seq(Task)
  BY <1>1, PartDistinct DEF s
<1>11. /\ a \in 1 .. Len(s) /\ s[a] = id /\ Len(s) \in Nat /\ Len(s) = Len(queue) + 1 - next
       /\ DOMAIN s = 1 .. Len(s)
  <2>1. Len(s) \in Nat /\ Len(s) = Len(queue) + 1 - next /\ DOMAIN s = 1 .. Len(s)
    BY <1>7 DEF PartOf
  <2>2. a \in 1 .. Len(s) /\ next + a - 1 = p
    BY <1>1, <1>4, <2>1
  <2> QED
    BY <1>4, <1>7, <2>1, <2>2 DEF PartOf
<1>12. /\ t \in Seq(Task) /\ Len(t) = Len(s) - 1
       /\ \A m \in 1 .. Len(s) - 1 : t[m] = IF m < a THEN s[m] ELSE s[m + 1]
  <2> HIDE DEF a
  <2> QED
    BY <1>10, <1>11, WithoutOne
<1>13. {k \in DOMAIN s : s[k] # id} = (DOMAIN s) \ {a}
  BY <1>10, <1>11 DEF Distinct
<1>14. u = t
  <2>1. u \in Seq(Task) /\ Len(u) = Len(t)
    <3>1. u \in Seq(Task) /\ Len(u) = Len(queue) + 1 - (next + 1)
      BY <1>6, <1>8 DEF PartOf, HeadMoved
    <3> QED
      BY <1>1, <1>11, <1>12, <3>1
  <2>2. ASSUME NEW m \in 1 .. Len(u)
        PROVE  u[m] = t[m]
    <3>1. m \in 1 .. Len(s) - 1 /\ m \in 1 .. Len(s) /\ m + 1 \in 1 .. Len(s)
      BY <1>11, <1>12, <2>1
    <3>2. (next + 1) + m - 1 = next + m
      BY <1>1
    <3>3. u[m] = queue'[next + m]
      BY <1>8, <2>1, <3>2 DEF PartOf
    <3>4. next + m \in 2 .. Len(queue) /\ next + m - 1 = next + m - 1
      BY <1>1, <1>11, <3>1
    <3>5. u[m] = IF next + m <= p THEN queue[next + m - 1] ELSE queue[next + m]
      <4> DEFINE j == next + m
      <4>1. u[m] = queue'[j] /\ j \in 2 .. Len(queue)
        BY <3>3, <3>4
      <4> HIDE DEF j
      <4>2. u[m] = IF j <= p THEN queue[j - 1] ELSE queue[j]
        BY <1>6, <4>1 DEF HeadMoved
      <4>3. j - 1 = next + m - 1
        BY <1>1 DEF j
      <4> QED
        BY <4>2, <4>3 DEF j
    <3>6. s[m] = queue[next + m - 1] /\ s[m + 1] = queue[next + (m + 1) - 1]
      BY <1>7, <3>1 DEF PartOf
    <3>7. next + (m + 1) - 1 = next + m /\ (next + m <= p <=> m < a)
      BY <1>1, <1>4, <3>1
    <3> QED
      BY <1>12, <3>1, <3>5, <3>6, <3>7
  <2> QED
    BY <1>12, <2>1, <2>2, SameSeq
<1>15. List!Drop(id)
  <2>1. Rest' = List!Subsequence(Rest, {k \in DOMAIN Rest : Rest[k] # id})
    BY <1>9, <1>13, <1>14, ListSubsequence
  <2>2. UNCHANGED <<{demanded_tasks[i] : i \in 1 .. demanded_tasks_index} \ {0}, ndemanded, sent>>
    BY <1>2 DEF demandVars
  <2> QED
    BY <1>2, <2>1, <2>2, Zenon DEF List!Drop
<1>16. Elems(u) = {x \in Task : state'[x] = 0}
  <2>1. Elems(u) = Elems(s) \ {id}
    <3>1. ASSUME NEW e \in Elems(u) PROVE e \in Elems(s) \ {id}
      <4>1. PICK m \in 1 .. Len(u) : u[m] = e
        BY <3>1 DEF Elems
      <4>2. m \in 1 .. Len(s) - 1 /\ m \in 1 .. Len(s) /\ m + 1 \in 1 .. Len(s)
        BY <1>11, <1>12, <1>14
      <4> DEFINE o == IF m < a THEN m ELSE m + 1
      <4>3. e = s[o] /\ o \in 1 .. Len(s) /\ o # a
        <5>1. a \in Int /\ e = t[m]
          BY <1>11, <1>14, <4>1
        <5>2. o \in 1 .. Len(s) /\ o # a
          BY <4>2, <5>1
        <5>3. e = IF m < a THEN s[m] ELSE s[m + 1]
          BY <1>12, <4>2, <5>1
        <5> QED
          BY <5>2, <5>3
      <4> HIDE DEF o, a
      <4> QED
        BY <1>10, <1>11, <4>3 DEF Elems, Distinct
    <3>2. ASSUME NEW e \in Elems(s) \ {id} PROVE e \in Elems(u)
      <4>1. PICK k \in 1 .. Len(s) : s[k] = e
        BY <3>2 DEF Elems
      <4>2. k # a
        BY <1>11, <3>2, <4>1
      <4> DEFINE m == IF k < a THEN k ELSE k - 1
      <4>3. m \in 1 .. Len(s) - 1 /\ k = IF m < a THEN m ELSE m + 1
        BY <1>1, <1>11, <4>2
      <4> HIDE DEF m, a
      <4>4. t[m] = e /\ m \in 1 .. Len(t)
        BY <1>12, <4>1, <4>3
      <4> QED
        BY <1>14, <4>4 DEF Elems
    <3> QED
      BY <3>1, <3>2
  <2> QED
    BY <1>1, <1>3, <2>1 DEF s
<1>17. QueueInv'
  <2>1. Listed(state', queue', next + 1)
    BY <1>5, <1>6, <1>16 DEF Listed, HeadMoved, u
  <2> QED
    BY <1>2, <1>3, <2>1 DEF QueueInv, Listed, States, Part
<1>18. DemandInv'
  BY <1>2 DEF VectorsInv, DemandInv, demandVars
<1>19. SentInv'
  BY <1>2, <1>3 DEF VectorsInv, SentInv
<1> QED
  BY <1>15, <1>17, <1>18, <1>19 DEF VectorsInv, StoppedRight

\* Tasks get priority in the part of queue that counts.
RestGiven(p, r) == Listed(state, r, 1) /\ Part(r, 1) = r /\ r \in GivePriority(Rest, Elems(p))

\* give_priority on the part that counts lists the same tasks.
LEMMA RestPreferred ==
  ASSUME NTasks \in Nat, VectorsInv, NEW p \in Seq(Task), Distinct(p),
         Elems(p) \subseteq Waiting
  PROVE  RestGiven(p, give_priority(Rest, p))
<1> DEFINE r == give_priority(Rest, p)
           s == Rest
<1>1. TasksNat
  BY TasksAreNat
<1>2. s \in Seq(Task) /\ Distinct(s) /\ Elems(s) = {t \in Task : state[t] = 0}
  BY RestIs, PartDistinct DEF VectorsInv, QueueInv, Listed
<1>3. Elems(p) \subseteq Elems(s)
  BY <1>2 DEF Waiting
<1> HIDE DEF s
<1>4. r \in Seq(Task) /\ Distinct(r) /\ Elems(r) = Elems(s) /\ r \in GivePriority(s, Elems(p))
  BY <1>1, <1>2, <1>3, PriorityGiven DEF TasksNat, s
<1> HIDE DEF r
<1>5. Part(r, 1) = r
  BY <1>4, WholePart
<1>6. 1 \in 1 .. Len(r) + 1
  BY <1>4
<1>7. Listed(state, r, 1)
  BY <1>2, <1>4, <1>5, <1>6 DEF Listed
<1> QED
  BY <1>4, <1>5, <1>7 DEF RestGiven, r, s

\* A task is polled.
PolledRight(id) == VectorsInv' /\ List!Poll(id)

\* PollTask is Poll of WaitingList.
LEMMA PollImplemented ==
  ASSUME NTasks \in Nat, VectorsInv, NEW id \in Task, PollTask(id)
  PROVE  PolledRight(id)
<1>1. /\ UNCHANGED <<state, demandVars, waiting>> /\ sent = {}
      /\ sent' = IF state[id] = 2 THEN {id} ELSE sent
  BY DEF PollTask
<1>2. DemandInv' /\ SentInv'
  BY <1>1 DEF VectorsInv, DemandInv, SentInv, demandVars
<1>3. CASE state[id] = 0
  <2> DEFINE p == <<id>>
             r == give_priority(Rest, p)
  <2>1. queue' = r /\ next' = 1
    BY <1>3 DEF PollTask
  <2>2. p \in Seq(Task) /\ Distinct(p) /\ Elems(p) = {id} /\ Elems(p) \subseteq Waiting
    BY <1>3 DEF Distinct, Elems, Waiting
  <2> HIDE DEF p
  <2>3. RestGiven(p, r)
    BY <2>2, RestPreferred
  <2> HIDE DEF r
  <2>4. Rest' = r
    BY <2>1, <2>3 DEF Rest, Part, RestGiven
  <2>5. QueueInv'
    <3>1. Listed(state', queue', next')
      BY <1>1, <2>1, <2>3 DEF RestGiven
    <3> QED
      BY <1>1, <3>1 DEF VectorsInv, QueueInv, Listed, States, Part
  <2>6. List!Poll(id)
    <3>1. Rest' \in GivePriority(Rest, {id})
      BY <2>2, <2>3, <2>4 DEF RestGiven
    <3>2. Rest' \in IF state[id] = 0 THEN List!GivePriority(Rest, {id}) ELSE {Rest}
      BY <1>3, <3>1, ListGivePriority
    <3>3. sent' = IF state[id] = 2 THEN sent \cup {id} ELSE sent
      BY <1>1, <1>3
    <3>4. UNCHANGED <<state, {demanded_tasks[i] : i \in 1 .. demanded_tasks_index} \ {0}, ndemanded>>
      BY <1>1 DEF demandVars
    <3> QED
      BY <3>2, <3>3, <3>4, Zenon DEF List!Poll
  <2> QED
    BY <1>2, <2>5, <2>6 DEF VectorsInv, PolledRight
<1>4. CASE state[id] # 0
  <2>1. UNCHANGED <<queue, next>>
    BY <1>4 DEF PollTask
  <2>2. QueueInv' /\ Rest' = Rest
    BY <1>1, <2>1 DEF VectorsInv, QueueInv, Listed, Part, Rest, States
  <2>3. List!Poll(id)
    BY <1>1, <1>4, <2>2 DEF List!Poll, demandVars
  <2> QED
    BY <1>2, <2>2, <2>3 DEF VectorsInv, PolledRight
<1> QED
  BY <1>3, <1>4

\* The end of a computation is read.
ComputedRight(id) == VectorsInv' /\ List!Compute(id)

\* What it does to the demanded tasks, without and with id among them.
Untouched(id) ==
  /\ id \notin Live(demanded_tasks, demanded_tasks_index)
  /\ UNCHANGED <<demanded_tasks, demanded_tasks_index, ndemanded, sent>>
Removed(id) ==
  /\ waiting /\ id \in Live(demanded_tasks, demanded_tasks_index)
  /\ Format(demanded_tasks', demanded_tasks_index')
  /\ demanded_tasks_index' = demanded_tasks_index - 1
  /\ Live(demanded_tasks', demanded_tasks_index')
       = Live(demanded_tasks, demanded_tasks_index) \ {id}
  /\ IF ndemanded > 0 THEN ndemanded' = ndemanded - 1 /\ sent' = sent \cup {id}
     ELSE UNCHANGED <<ndemanded, sent>>

\* removeDemanded on the end of a computation finds id exactly if it is demanded.
LEMMA ComputedCases ==
  ASSUME NTasks \in Nat, VectorsInv, NEW id \in Task, ResultComputed(id)
  PROVE  Untouched(id) \/ Removed(id)
<1> DEFINE r == removeDemanded(demanded_tasks, demanded_tasks_index, id)
<1>1. /\ demanded_tasks' = r.d.vec /\ demanded_tasks_index' = r.d.index
      /\ IF ndemanded > 0 /\ r.found
         THEN ndemanded' = ndemanded - 1 /\ sent' = sent \cup {id}
         ELSE UNCHANGED <<ndemanded, sent>>
  BY DEF ResultComputed
<1>2. id # 0 /\ id \in Nat
  BY DEF Task
<1> HIDE DEF r
<1>3. CASE ~waiting
  <2>1. demanded_tasks = <<0>> /\ demanded_tasks_index = 1
    BY <1>3 DEF VectorsInv, DemandInv
  <2>2. \A i \in 1 .. 1 : <<0>>[i] # id
    BY <1>2
  <2>3. r = [found |-> FALSE, d |-> [vec |-> <<0>>, index |-> 1]]
    BY <2>1, <2>2, NotFound DEF r
  <2>4. Live(<<0>>, 1) = {}
    BY DEF Live
  <2>5. r.d.vec = <<0>> /\ r.d.index = 1 /\ r.found = FALSE
    BY <2>3
  <2> QED
    BY <1>1, <2>1, <2>4, <2>5 DEF Untouched
<1>4. CASE waiting /\ id \notin Live(demanded_tasks, demanded_tasks_index)
  <2> DEFINE v == demanded_tasks
             n == demanded_tasks_index
  <2>1. n \in Nat
    BY <1>4 DEF VectorsInv, DemandInv, Format
  <2>2. \A i \in 1 .. n : v[i] # id
    BY <1>2, <1>4 DEF Live
  <2> HIDE DEF v, n
  <2>3. removeDemanded(v, n, id) = [found |-> FALSE, d |-> [vec |-> v, index |-> n]]
    BY <2>1, <2>2, NotFound
  <2>4. r.d.vec = v /\ r.d.index = n /\ r.found = FALSE
    BY <2>3 DEF r, v, n
  <2> QED
    BY <1>1, <1>4, <2>4 DEF Untouched, v, n
<1>5. CASE waiting /\ id \in Live(demanded_tasks, demanded_tasks_index)
  <2>1. Format(demanded_tasks, demanded_tasks_index)
    BY <1>5 DEF VectorsInv, DemandInv
  <2>2. PICK p : p \in 1 .. demanded_tasks_index /\ demanded_tasks[p] = id
    BY <1>5 DEF Live
  <2>3. PICK u : TakenOut(demanded_tasks, demanded_tasks_index, p, u)
                 /\ RemovedAs(demanded_tasks, demanded_tasks_index, demanded_tasks[p], u)
    BY <2>1, <2>2, RemoveIs DEF Removes
  <2>4. /\ Format(u, demanded_tasks_index - 1)
        /\ Live(u, demanded_tasks_index - 1)
             = Live(demanded_tasks, demanded_tasks_index) \ {id}
    BY <2>1, <2>2, <2>3, TakenOutFormat
  <2>5. r = [found |-> TRUE, d |-> [vec |-> u, index |-> demanded_tasks_index - 1]]
    BY <2>2, <2>3 DEF RemovedAs, r
  <2>6. r.d.vec = u /\ r.d.index = demanded_tasks_index - 1 /\ r.found = TRUE
    BY <2>5
  <2> QED
    BY <1>1, <1>5, <2>4, <2>6 DEF Removed
<1> QED
  BY <1>3, <1>4, <1>5

\* ResultComputed is Compute of WaitingList.
LEMMA ComputedImplemented ==
  ASSUME NTasks \in Nat, VectorsInv, NEW id \in Task, ResultComputed(id)
  PROVE  ComputedRight(id)
<1>1. /\ state[id] = 1 /\ state' = [state EXCEPT ![id] = 2]
      /\ UNCHANGED <<queue, next, waiting>>
  BY DEF ResultComputed
<1>2. state' \in States /\ \A t \in Task : state'[t] = IF t = id THEN 2 ELSE state[t]
  BY <1>1 DEF VectorsInv, QueueInv, States
<1>3. QueueInv' /\ Rest' = Rest
  <2>1. {t \in Task : state'[t] = 0} = {t \in Task : state[t] = 0}
    BY <1>1, <1>2
  <2>2. Listed(state', queue', next')
    BY <1>1, <2>1 DEF VectorsInv, QueueInv, Listed
  <2> QED
    BY <1>1, <1>2, <2>2 DEF QueueInv, Listed, States, Part, Rest
<1> DEFINE D == Live(demanded_tasks, demanded_tasks_index)
           E == Live(demanded_tasks', demanded_tasks_index')
<1>4. /\ {demanded_tasks[i] : i \in 1 .. demanded_tasks_index} \ {0} = D
      /\ {demanded_tasks'[i] : i \in 1 .. demanded_tasks_index'} \ {0} = E
  BY DEF Live
<1> HIDE DEF D, E
<1>5. CASE Untouched(id)
  <2>1. E = D \ {id} /\ id \notin D /\ UNCHANGED <<ndemanded, sent>>
    BY <1>5 DEF D, E, Untouched
  <2>2. List!Compute(id)
    BY <1>1, <1>3, <1>4, <2>1 DEF List!Compute
  <2>3. DemandInv'
    BY <1>1, <1>5 DEF VectorsInv, DemandInv, Untouched
  <2>4. SentInv'
    BY <1>1, <1>2, <2>1 DEF VectorsInv, SentInv
  <2> QED
    BY <1>3, <2>2, <2>3, <2>4 DEF VectorsInv, ComputedRight
<1>6. CASE Removed(id)
  <2>1. /\ E = D \ {id} /\ id \in D /\ waiting /\ waiting' = waiting
        /\ Format(demanded_tasks', demanded_tasks_index')
        /\ demanded_tasks_index' = demanded_tasks_index - 1
        /\ IF ndemanded > 0 THEN ndemanded' = ndemanded - 1 /\ sent' = sent \cup {id}
           ELSE UNCHANGED <<ndemanded, sent>>
    BY <1>1, <1>6 DEF D, E, Removed
  <2>2. List!Compute(id)
    BY <1>1, <1>3, <1>4, <2>1 DEF List!Compute
  <2>3. DemandInv'
    <3>1. /\ waiting \in BOOLEAN /\ D \subseteq Task
          /\ ndemanded \in Int /\ ndemanded <= demanded_tasks_index
          /\ demanded_tasks_index \in Nat
      BY <2>1 DEF VectorsInv, DemandInv, D, Format
    <3>2. demanded_tasks_index' \in Nat
      BY <2>1 DEF Format
    <3> DEFINE i == demanded_tasks_index
               j == demanded_tasks_index'
               a == ndemanded
               b == ndemanded'
    <3>3. /\ i \in Nat /\ j \in Nat /\ j = i - 1 /\ a \in Int /\ a <= i
          /\ b = IF a > 0 THEN a - 1 ELSE a
      BY <2>1, <3>1, <3>2
    <3> HIDE DEF i, j, a, b
    <3>4. b \in Int /\ b <= j
      BY <3>3
    <3>5. E \subseteq Task
      BY <2>1, <3>1
    <3>6. waiting' \in BOOLEAN /\ waiting'
      BY <2>1, <3>1
    <3> QED
      BY <2>1, <3>4, <3>5, <3>6 DEF DemandInv, E, b, j
  <2>4. SentInv'
    <3>1. sent' \in SUBSET Task /\ \A t \in sent' : t \in sent \/ t = id
      BY <2>1 DEF VectorsInv, SentInv
    <3> QED
      BY <1>1, <1>2, <3>1 DEF VectorsInv, SentInv
  <2> QED
    BY <1>3, <2>2, <2>3, <2>4 DEF VectorsInv, ComputedRight
<1> QED
  BY <1>5, <1>6, ComputedCases

\* The lesser of two integers.
LEMMA MinTwo ==
  ASSUME NEW m \in Int, NEW n \in Int
  PROVE  Min({m, n}) = IF m > n THEN n ELSE m
<1> DEFINE r == IF m > n THEN n ELSE m
<1>1. r \in {m, n} /\ \A x \in {m, n} : r <= x
  OBVIOUS
<1>2. \A y \in {m, n} : (\A x \in {m, n} : y <= x) => y = r
  OBVIOUS
<1> HIDE DEF r
<1>3. Min({m, n}) = r
  BY <1>1, <1>2 DEF Min
<1> QED
  BY <1>3 DEF r

\* The queue of a wait, before it launches a task if it does.
WaitQueue(v) == IF Preferred(v) = <<>> THEN queue ELSE give_priority(Rest, Preferred(v))
WaitNext(v)  == IF Preferred(v) = <<>> THEN next ELSE 1
WaitListed(v) ==
  /\ Listed(state, WaitQueue(v), WaitNext(v))
  /\ Part(WaitQueue(v), WaitNext(v)) \in
       IF Elems(v) \cap Waiting = {} THEN {Rest}
       ELSE List!GivePriority(Rest, Elems(v) \cap Waiting)

\* The queue of a wait lists the waiting tasks, those of the wait first.
LEMMA WaitQueueIs ==
  ASSUME NTasks \in Nat, VectorsInv, NEW v \in Seq(Task), Distinct(v)
  PROVE  WaitListed(v)
<1> DEFINE p == Preferred(v)
<1>1. /\ p \in Seq(Task) /\ Distinct(p) /\ Elems(p) = Elems(v) \cap Waiting
      /\ p = <<>> <=> Elems(v) \cap Waiting = {}
  BY PreferredIs
<1>2. WaitQueue(v) = IF p = <<>> THEN queue ELSE give_priority(Rest, p)
  BY DEF WaitQueue
<1>3. WaitNext(v) = IF p = <<>> THEN next ELSE 1
  BY DEF WaitNext
<1> HIDE DEF p
<1>4. CASE p = <<>>
  BY <1>1, <1>2, <1>3, <1>4, RestIs DEF WaitListed, VectorsInv, QueueInv
<1>5. CASE p # <<>>
  <2> DEFINE r == give_priority(Rest, p)
  <2>1. RestGiven(p, r)
    BY <1>1, RestPreferred
  <2>2. WaitQueue(v) = r /\ WaitNext(v) = 1
    BY <1>2, <1>3, <1>5
  <2> HIDE DEF r
  <2> QED
    BY <1>1, <1>5, <2>1, <2>2, ListGivePriority DEF WaitListed, RestGiven
<1> QED
  BY <1>4, <1>5

\* A wait is begun.
DemandedRight(v, n) == VectorsInv' /\ List!Demand(Elems(v), n)

\* WaitTasks, its two loops included, is Demand of WaitingList for the set of its tasks.
LEMMA WaitImplemented ==
  ASSUME NTasks \in Nat, VectorsInv, NEW v \in Seq(Task), Distinct(v), NEW n \in Int,
         WaitTasks(v, n)
  PROVE  DemandedRight(v, n)
<1> DEFINE S == Elems(v)
           size == Len(v)
           q == WaitQueue(v)
           first == WaitNext(v)
           l == Part(q, first)
           computed == {t \in S : state[t] = 2}
           P == S \cap Waiting
<1>1. state \in States /\ size \in Nat /\ S \in SUBSET Task
  BY DEF VectorsInv, QueueInv, Elems
<1>2. PICK acc : Served(v, size, acc) /\ WaitedWith(v, n, acc)
  BY <1>1, WaitIs DEF WaitServes, States
<1>3. /\ acc \in Accs /\ Format(acc.d.vec, acc.d.index)
      /\ acc.d.index = size - acc.count
      /\ acc.sent = computed /\ acc.count = Cardinality(computed)
      /\ Live(acc.d.vec, acc.d.index) = S \ computed
      /\ acc.deadlock <=> P # {} /\ \A t \in S : state[t] \notin {1, 2}
  <2>1. SentOf(v, size) = computed
    BY DEF SentOf, Elems
  <2>2. (\E j \in 1 .. size : state[v[j]] = 0) <=> P # {}
    BY <1>1 DEF Elems, Waiting
  <2>3. (\A j \in 1 .. size : state[v[j]] \notin {1, 2}) <=> \A t \in S : state[t] \notin {1, 2}
    BY DEF Elems
  <2> HIDE DEF computed, S, P
  <2> QED
    BY <1>2, <2>1, <2>2, <2>3 DEF Served, S
<1>4. /\ waiting' = TRUE /\ sent = {}
      /\ demanded_tasks' = acc.d.vec /\ demanded_tasks_index' = acc.d.index
      /\ ndemanded' = Min({n, size}) - acc.count
      /\ sent' = acc.sent
      /\ IF acc.deadlock THEN Launch(state, q, first)
         ELSE queue' = q /\ next' = first /\ UNCHANGED state
  BY <1>2, Zenon DEF WaitedWith, WaitQueue, WaitNext
<1>5. Listed(state, q, first) /\ l \in IF P = {} THEN {Rest} ELSE List!GivePriority(Rest, P)
  BY WaitQueueIs DEF WaitListed
<1> HIDE DEF q, first, S, computed, P
<1>6. /\ QueueInv'
      /\ IF acc.deadlock THEN List!LaunchNext(state, l) ELSE state' = state /\ Rest' = l
      /\ \A t \in Task : state[t] # 0 => state'[t] = state[t]
  <2>1. CASE acc.deadlock
    <3>1. LaunchImplemented(state, q, first)
      BY <1>1, <1>4, <1>5, <2>1, LaunchIs
    <3> QED
      BY <2>1, <3>1 DEF LaunchImplemented
  <2>2. CASE ~acc.deadlock
    <3>1. queue' = q /\ next' = first /\ state' = state
      BY <1>4, <2>2
    <3>2. Listed(state', queue', next')
      BY <1>5, <3>1
    <3>3. Rest' = l
      BY <3>1 DEF Rest, Part
    <3>4. QueueInv'
      BY <1>1, <3>1, <3>2 DEF QueueInv, Listed, States, Part
    <3> QED
      BY <2>2, <3>1, <3>3, <3>4
  <2> QED
    BY <2>1, <2>2
<1> HIDE DEF l
<1>7. Cardinality(S) = size
  BY DistinctLen DEF S
<1>8. ndemanded' = (IF n > Cardinality(S) THEN Cardinality(S) ELSE n) - Cardinality(computed)
  BY <1>1, <1>3, <1>4, <1>7, MinTwo
<1>9. computed \in SUBSET S /\ \A t \in computed : state[t] = 2
  BY DEF computed
<1>10. DemandInv'
  <2>1. Live(acc.d.vec, acc.d.index) \subseteq Task
    BY <1>1, <1>3
  <2>2. ndemanded' \in Int /\ ndemanded' <= acc.d.index
    <3> DEFINE c == acc.count
               b == ndemanded'
               m == Cardinality(S)
    <3>1. c \in Nat /\ c = Cardinality(computed)
      BY <1>3 DEF Accs
    <3>2. b = (IF n > m THEN m ELSE n) - c /\ acc.d.index = m - c /\ m \in Nat
      BY <1>1, <1>3, <1>7, <1>8, <3>1
    <3> HIDE DEF b, c, m
    <3>3. b \in Int /\ b <= m - c
      BY <3>1, <3>2
    <3> QED
      BY <3>2, <3>3 DEF b
  <2> QED
    BY <1>3, <1>4, <2>1, <2>2 DEF DemandInv
<1>11. SentInv'
  <2>1. sent' = computed
    BY <1>3, <1>4
  <2>2. \A t \in computed : t \in Task /\ state[t] = 2 /\ state[t] # 0
    BY <1>1, <1>9
  <2> QED
    BY <1>6, <2>1, <2>2 DEF SentInv
<1>12. List!Demand(S, n)
  <2>1. {demanded_tasks'[i] : i \in 1 .. demanded_tasks_index'} \ {0} = S \ computed
    BY <1>3, <1>4 DEF Live
  <2>2. sent' = sent \cup computed
    BY <1>3, <1>4
  <2>3. List!Waiting = Waiting
    BY DEF List!Waiting, Waiting
  <2>4. \E k \in IF P = {} THEN {Rest} ELSE List!GivePriority(Rest, P) :
          IF P # {} /\ \A t \in S : state[t] \notin {1, 2}
          THEN List!LaunchNext(state, k) ELSE state' = state /\ Rest' = k
    <3>1. IF P # {} /\ \A t \in S : state[t] \notin {1, 2}
          THEN List!LaunchNext(state, l) ELSE state' = state /\ Rest' = l
      BY <1>3, <1>6
    <3> QED
      BY <1>5, <3>1 DEF l
  <2>5. ndemanded' = (IF n > List!Cardinality(S) THEN List!Cardinality(S) ELSE n)
                       - List!Cardinality(computed)
    BY <1>8, ListCardinality
  <2> QED
    BY <2>1, <2>2, <2>3, <2>4, <2>5, Zenon DEF List!Demand, computed, P
<1> QED
  BY <1>6, <1>10, <1>11, <1>12 DEF VectorsInv, DemandedRight, S

-----------------------------------------------------------------------------
(* The theorems                                                            *)

\* The waits of the model list tasks that are distinct.
LEMMA ListingsDistinct ==
  ASSUME ~Repeats, NEW v \in Listings
  PROVE  v \in Seq(Task) /\ Distinct(v) /\ Elems(v) \in (SUBSET Task) \ {{}}
<1>1. PICK m \in 1 .. NTasks : v \in [1 .. m -> Task]
  BY DEF Listings
<1>2. m \in Nat /\ v \in Seq(Task) /\ Len(v) = m
  BY <1>1
<1>3. Distinct(v)
  BY DEF Listings, Distinct
<1>4. 1 \in 1 .. Len(v) /\ v[1] \in Elems(v) /\ Elems(v) \subseteq Task
  BY <1>1, <1>2 DEF Elems
<1> QED
  BY <1>2, <1>3, <1>4

\* Numbers are integers.
LEMMA NumbersAreInt ==
  ASSUME NTasks \in Nat
  PROVE  Numbers \in SUBSET Int
BY DEF Numbers

\* The vectors are right in the beginning, ...
LEMMA VectorsInit ==
  ASSUME NTasks \in Nat, Init
  PROVE  VectorsInv /\ List!Init
<1>1. /\ queue = [i \in Task |-> i] /\ next = 1 /\ state = [t \in Task |-> 0]
      /\ demanded_tasks = <<0>> /\ demanded_tasks_index = 1 /\ ndemanded = -1
      /\ waiting = FALSE /\ sent = {}
  BY DEF Init
<1>2. /\ queue \in [1 .. NTasks -> Task] /\ queue \in Seq(Task) /\ Len(queue) = NTasks
      /\ Distinct(queue) /\ Elems(queue) = Task
  BY <1>1 DEF Task, Distinct, Elems
<1>3. Part(queue, 1) = queue
  BY <1>2, WholePart
<1>4. Rest = queue
  BY <1>1, <1>3, RestIs
<1>5. Listed(state, queue, next)
  <2>1. {t \in Task : state[t] = 0} = Task
    BY <1>1
  <2>2. 1 \in 1 .. Len(queue) + 1
    BY <1>2
  <2> QED
    BY <1>1, <1>2, <1>3, <2>1, <2>2 DEF Listed
<1>6. state \in States
  BY <1>1 DEF States
<1>7. VectorsInv
  BY <1>1, <1>5, <1>6 DEF VectorsInv, QueueInv, DemandInv, SentInv
<1>8. List!Init
  <2>1. Cardinality(Task) = NTasks
    BY FS_Interval DEF Task
  <2>2. {demanded_tasks[i] : i \in 1 .. demanded_tasks_index} \ {0} = {}
    BY <1>1
  <2>3. List!Cardinality(Task) = NTasks /\ List!Elems(queue) = Task
    BY <1>2, <2>1, ListCardinality, ListElems
  <2>4. Rest \in [1 .. List!Cardinality(Task) -> Task] /\ List!Elems(Rest) = Task
    BY <1>2, <1>4, <2>3
  <2> QED
    BY <1>1, <2>2, <2>4, Zenon DEF List!Init
<1> QED
  BY <1>7, <1>8

\* ... every step keeps them so, and is one of the list and the set, or none ...
LEMMA VectorsStep ==
  ASSUME ~Repeats, NTasks \in Nat, VectorsInv, [Next]_vars
  PROVE  VectorsInv' /\ [List!Next]_(List!vars)
<1>1. CASE OpenLink
  BY <1>1, OpenLinkImplemented DEF OpenedRight, List!Next
<1>2. CASE EndWait
  BY <1>2, EndWaitImplemented DEF EndedRight, List!Next
<1>3. ASSUME NEW id \in Task, StopWaiting(id)
      PROVE  VectorsInv' /\ List!Next
  BY <1>3, StopWaitingImplemented DEF StoppedRight, List!Next
<1>4. ASSUME NEW id \in Task, StopStarted(id)
      PROVE  VectorsInv' /\ List!Next
  BY <1>4, StopStartedImplemented DEF FreedRight, List!Next
<1>5. ASSUME NEW id \in Task, Got(id)
      PROVE  VectorsInv' /\ List!Next
  BY <1>5, GotImplemented DEF FreedRight, List!Next
<1>6. ASSUME NEW id \in Task, PollTask(id)
      PROVE  VectorsInv' /\ List!Next
  BY <1>6, PollImplemented DEF PolledRight, List!Next
<1>7. ASSUME NEW id \in Task, ResultComputed(id)
      PROVE  VectorsInv' /\ List!Next
  BY <1>7, ComputedImplemented DEF ComputedRight, List!Next
<1>8. ASSUME NEW v \in Listings, NEW n \in Numbers, WaitTasks(v, n)
      PROVE  VectorsInv' /\ List!Next
  <2>1. v \in Seq(Task) /\ Distinct(v) /\ Elems(v) \in (SUBSET Task) \ {{}} /\ n \in Int
    BY ListingsDistinct, NumbersAreInt
  <2>2. DemandedRight(v, n)
    BY <1>8, <2>1, WaitImplemented
  <2> QED
    BY <2>1, <2>2 DEF DemandedRight, List!Next
<1>9. CASE UNCHANGED vars
  <2>1. /\ state' = state /\ queue' = queue /\ next' = next /\ waiting' = waiting
        /\ demanded_tasks' = demanded_tasks /\ demanded_tasks_index' = demanded_tasks_index
        /\ ndemanded' = ndemanded /\ sent' = sent
    BY <1>9 DEF vars
  <2>2. VectorsInv'
    BY <2>1 DEF VectorsInv, QueueInv, DemandInv, SentInv, Listed, Part
  <2>3. UNCHANGED (List!vars)
    BY <2>1 DEF List!vars, Rest
  <2> QED
    BY <2>2, <2>3
<1>10. CASE Finished
  BY <1>9, <1>10 DEF Finished
<1> QED
  BY <1>1, <1>2, <1>3, <1>4, <1>5, <1>6, <1>7, <1>8, <1>9, <1>10 DEF Next

\* ... and right vectors have the formats of their comments.
LEMMA VectorsMean ==
  ASSUME VectorsInv
  PROVE  VectorsFormatted
<1>1. Listed(state, queue, next) /\ Rest = Part(queue, next)
  BY RestIs DEF VectorsInv, QueueInv
<1>2. Distinct(Rest) /\ Elems(Rest) = Waiting
  BY <1>1, PartDistinct DEF Listed, Waiting
<1>3. QueueListsWaiting
  BY <1>2 DEF QueueListsWaiting, Distinct
<1>4. DemandedFormat
  BY DEF VectorsInv, DemandInv, DemandedFormat, Format
<1> QED
  BY <1>3, <1>4 DEF VectorsFormatted

\* The vectors keep the formats that give_priority and removeDemanded rely on, for any
\* number of tasks: the part of queue that counts lists the waiting tasks, each once, and
\* demanded_tasks_index is the last index of demanded_tasks with a task.  The waits list
\* distinct tasks.
THEOREM VectorsCorrect == ASSUME ~Repeats PROVE Spec => []VectorsFormatted
<1>1. NTasks \in Nat
  BY ParamAssumption
<1>2. Init => VectorsInv
  BY <1>1, VectorsInit
<1>3. VectorsInv /\ [Next]_vars => VectorsInv'
  BY <1>1, VectorsStep
<1> QED
  BY <1>2, <1>3, VectorsMean, PTL DEF Spec

\* TaskQueue implements WaitingList: give_priority, the cuts of queue, the removals from
\* demanded_tasks and the loops of a wait work in place as if on a list of waiting tasks
\* and a set of demanded ones.  The waits list distinct tasks.
THEOREM ListImplemented == ASSUME ~Repeats PROVE Spec => ImplementsWaitingList
<1>1. NTasks \in Nat
  BY ParamAssumption
<1>2. Init => VectorsInv /\ List!Init
  BY <1>1, VectorsInit
<1>3. VectorsInv /\ [Next]_vars => VectorsInv' /\ [List!Next]_(List!vars)
  BY <1>1, VectorsStep
<1> QED
  BY <1>2, <1>3, PTL DEF Spec, ImplementsWaitingList, List!Spec
==============================================================================
