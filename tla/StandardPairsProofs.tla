------------------------- MODULE StandardPairsProofs -------------------------
(***************************************************************************)
(* Proofs about StandardPairs, for all leading monomials, any number of    *)
(* polynomials and all three modes: the criteria of Gebauer and Moeller as *)
(* the code applies them, pair by pair and in place, lose no pair that a   *)
(* standard basis needs.                                                   *)
(*                                                                         *)
(* While h, the newest polynomial, is paired, OldInv says that those       *)
(* before it are still covered if a pair is allowed that the chain         *)
(* criterion may replace by two pairs with h, and NewInv that every one of *)
(* them has a pair with h at hand.  Together they give Covered.            *)
(***************************************************************************)
EXTENDS StandardPairs, FiniteSetTheorems, SequenceTheorems, WellFoundedInduction, TLAPS

-----------------------------------------------------------------------------
(* Sequences: what is left of one after deletions, and insertions.         *)
\* The places of the elements of K are 1 .. Cardinality(K), in their order.
LEMMA Places ==
  ASSUME NEW n \in Nat, NEW K \in SUBSET (1 .. n)
  PROVE  /\ IsFiniteSet(K) /\ Cardinality(K) \in Nat
         /\ \A k \in K : Place(K, k) \in 1 .. Cardinality(K)
         /\ \A k, l \in K : k < l => Place(K, k) < Place(K, l)
         /\ \A m \in 1 .. Cardinality(K) : \E k \in K : Place(K, k) = m
<1>1. IsFiniteSet(K) /\ Cardinality(K) \in Nat
  <2>1. IsFiniteSet(1 .. n)
    BY FS_Interval
  <2>2. IsFiniteSet(K)
    BY <2>1, FS_Subset
  <2> QED
    BY <2>2, FS_CardinalityType
<1> DEFINE upto(k) == {l \in K : l <= k}
<1>2. ASSUME NEW k \in K
      PROVE  IsFiniteSet(upto(k)) /\ Cardinality(upto(k)) \in 1 .. Cardinality(K)
  <2>1. upto(k) \in SUBSET K /\ k \in upto(k)
    OBVIOUS
  <2>2. IsFiniteSet(upto(k)) /\ Cardinality(upto(k)) <= Cardinality(K)
    BY <1>1, <2>1, FS_Subset
  <2>3. Cardinality(upto(k)) \in Nat /\ Cardinality(upto(k)) # 0
    BY <2>1, <2>2, FS_CardinalityType, FS_EmptySet
  <2> QED
    BY <1>1, <2>2, <2>3
<1>3. ASSUME NEW k \in K, NEW l \in K, k < l
      PROVE  Cardinality(upto(k)) < Cardinality(upto(l))
  <2>0. \A x \in K : x \in Nat
    OBVIOUS
  <2>1. upto(k) \in SUBSET upto(l) /\ l \in upto(l) /\ l \notin upto(k)
    <3>1. k \in Nat /\ l \in Nat /\ k < l
      BY <1>3, <2>0
    <3>2. \A x \in K : x <= k => x <= l
      BY <2>0, <3>1
    <3>3. l <= l /\ ~(l <= k)
      BY <3>1
    <3> QED
      BY <3>2, <3>3
  <2>2. upto(k) # upto(l)
    BY <2>1
  <2>3. /\ Cardinality(upto(k)) <= Cardinality(upto(l))
        /\ Cardinality(upto(k)) # Cardinality(upto(l))
    BY <1>2, <2>1, <2>2, FS_Subset
  <2> QED
    BY <1>2, <2>3
<1>4. ASSUME NEW m \in 1 .. Cardinality(K)
      PROVE  \E k \in K : Cardinality(upto(k)) = m
  <2> DEFINE f == [k \in K |-> Cardinality(upto(k))]
             T == 1 .. Cardinality(K)
  <2>1. f \in [K -> T]
    BY <1>2
  <2>2. \A k, l \in K : f[k] = f[l] => k = l
    <3>1. SUFFICES ASSUME NEW k \in K, NEW l \in K, f[k] = f[l] PROVE k = l
      OBVIOUS
    <3>2. ~(k < l)
      BY <1>2, <1>3, <3>1
    <3>3. ~(l < k)
      BY <1>2, <1>3, <3>1
    <3> QED
      BY <3>2, <3>3
  <2>3. f \in Injection(K, T)
    BY <2>1, <2>2 DEF Injection, IsInjective
  <2>4. IsFiniteSet(T) /\ Cardinality(T) = Cardinality(K)
    BY <1>1, FS_Interval
  <2>5. f \in Surjection(K, T)
    BY <2>3, <2>4, FS_Injection
  <2> QED
    BY <2>5 DEF Surjection
<1> QED
  BY <1>1, <1>2, <1>3, <1>4 DEF Place

\* Nth(K, m) is the element at place m, and so they are in their order.
LEMMA NthPlace ==
  ASSUME NEW n \in Nat, NEW K \in SUBSET (1 .. n)
  PROVE  /\ \A m \in 1 .. Cardinality(K) : Nth(K, m) \in K /\ Place(K, Nth(K, m)) = m
         /\ \A k \in K : Nth(K, Place(K, k)) = k
         /\ \A l, m \in 1 .. Cardinality(K) : l < m <=> Nth(K, l) < Nth(K, m)
<1>1. \A m \in 1 .. Cardinality(K) : Nth(K, m) \in K /\ Place(K, Nth(K, m)) = m
  BY Places DEF Nth
<1>2. ASSUME NEW k \in K, NEW l \in K, Place(K, k) = Place(K, l)
      PROVE  k = l
  <2>1. ~(k < l) /\ ~(l < k)
    <3>1. Place(K, k) \in 1 .. Cardinality(K) /\ Cardinality(K) \in Nat
      BY Places
    <3>2. k < l => Place(K, k) < Place(K, l)
      BY Places
    <3>3. l < k => Place(K, l) < Place(K, k)
      BY Places
    <3> QED
      BY <1>2, <3>1, <3>2, <3>3
  <2>2. k \in Nat /\ l \in Nat
    OBVIOUS
  <2> QED
    BY <2>1, <2>2
<1>3. ASSUME NEW k \in K
      PROVE  Nth(K, Place(K, k)) = k
  <2>1. Place(K, k) \in 1 .. Cardinality(K)
    BY Places
  <2> QED
    BY <1>1, <1>2, <2>1
<1>4. ASSUME NEW l \in 1 .. Cardinality(K), NEW m \in 1 .. Cardinality(K)
      PROVE  l < m <=> Nth(K, l) < Nth(K, m)
  <2>1. /\ Nth(K, l) < Nth(K, m) => l < m
        /\ Nth(K, m) < Nth(K, l) => m < l
        /\ Nth(K, l) = Nth(K, m) => l = m
    BY <1>1, Places
  <2>2. Nth(K, l) \in Int /\ Nth(K, m) \in Int /\ Cardinality(K) \in Nat
    <3>1. Nth(K, l) \in K /\ Nth(K, m) \in K
      BY <1>1
    <3>2. Cardinality(K) \in Nat
      BY Places
    <3>3. \A x \in K : x \in Int
      OBVIOUS
    <3> QED
      BY <3>1, <3>2, <3>3
  <2> QED
    BY <2>1, <2>2
<1> QED
  BY <1>1, <1>3, <1>4

\* A subsequence has the elements at K, and no others, in their order.
LEMMA SubsequenceIs ==
  ASSUME NEW U, NEW s \in Seq(U), NEW K \in SUBSET DOMAIN s
  PROVE  /\ Subsequence(s, K) \in Seq(U)
         /\ Len(Subsequence(s, K)) = Cardinality(K) /\ Cardinality(K) \in Nat
         /\ \A m \in DOMAIN Subsequence(s, K) :
              Nth(K, m) \in K /\ Subsequence(s, K)[m] = s[Nth(K, m)]
         /\ \A k \in K : \E m \in DOMAIN Subsequence(s, K) :
              Nth(K, m) = k /\ Subsequence(s, K)[m] = s[k]
         /\ \A l, m \in DOMAIN Subsequence(s, K) : l < m <=> Nth(K, l) < Nth(K, m)
<1>1. K \in SUBSET (1 .. Len(s)) /\ Len(s) \in Nat
  OBVIOUS
<1>2. Cardinality(K) \in Nat /\ \A m \in 1 .. Cardinality(K) : Nth(K, m) \in K
  BY <1>1, Places, NthPlace
<1> DEFINE t == Subsequence(s, K)
<1>3. t = [m \in 1 .. Cardinality(K) |-> s[Nth(K, m)]]
  BY DEF Subsequence
<1>4. \A m \in 1 .. Cardinality(K) : s[Nth(K, m)] \in U
  BY <1>1, <1>2
<1> HIDE DEF t
<1>5. t \in Seq(U) /\ Len(t) = Cardinality(K) /\ DOMAIN t = 1 .. Cardinality(K)
  BY <1>2, <1>3, <1>4
<1>6. ASSUME NEW k \in K
      PROVE  \E m \in DOMAIN t : Nth(K, m) = k /\ t[m] = s[k]
  <2>1. Place(K, k) \in DOMAIN t /\ Nth(K, Place(K, k)) = k
    BY <1>1, <1>5, Places, NthPlace
  <2> QED
    BY <1>3, <1>5, <2>1
<1>7. \A l, m \in DOMAIN t : l < m <=> Nth(K, l) < Nth(K, m)
  BY <1>1, <1>5, NthPlace
<1>8. \A m \in DOMAIN t : Nth(K, m) \in K /\ t[m] = s[Nth(K, m)]
  BY <1>2, <1>3, <1>5
<1> QED
  BY <1>2, <1>5, <1>6, <1>7, <1>8 DEF t

\* A set of natural numbers that is not empty has a least element, ...
LEMMA LeastNat ==
  ASSUME NEW U \in SUBSET Nat, U # {}
  PROVE  \E m \in U : \A u \in U : m <= u
<1>1. IsWellFoundedOn(OpToRel(<, Nat), Nat) /\ U \subseteq Nat /\ U # {}
  BY NatLessThanWellFounded
<1>2. PICK m \in U : \A u \in U : ~(<<u, m>> \in OpToRel(<, Nat))
  BY <1>1, WFMin
<1>3. ASSUME NEW u \in U, u < m
      PROVE  FALSE
  <2>1. <<u, m>> \in Nat \X Nat /\ <<u, m>>[1] < <<u, m>>[2]
    BY <1>3
  <2>2. <<u, m>> \in OpToRel(<, Nat)
    BY <2>1 DEF OpToRel
  <2> QED
    BY <1>2, <2>2
<1> QED
  BY <1>3

\* ... and one that is bounded a greatest.
LEMMA GreatestNat ==
  ASSUME NEW n \in Nat, NEW T \in SUBSET (0 .. n), T # {}
  PROVE  \E m \in T : \A x \in T : m >= x
<1> DEFINE U == {u \in Nat : \A x \in T : x <= u}
<1>1. n \in U /\ U \in SUBSET Nat
  OBVIOUS
<1>2. PICK m \in U : \A u \in U : m <= u
  BY <1>1, LeastNat
<1>3. m \in Nat /\ \A x \in T : x \in Nat /\ x <= m
  BY <1>2
<1>4. m \in T
  <2>1. SUFFICES ASSUME m \notin T PROVE FALSE
    OBVIOUS
  <2>2. \A x \in T : x <= m - 1
    BY <1>3, <2>1
  <2>3. m - 1 \in Nat
    <3>1. PICK x \in T : x \in Nat /\ x <= m - 1
      BY <1>3, <2>2
    <3> QED
      BY <1>3, <3>1
  <2>4. m - 1 \in U
    BY <2>2, <2>3
  <2> QED
    BY <1>2, <1>3, <2>4
<1> QED
  BY <1>3, <1>4

\* What RemoveAt and InsertAt do with a sequence.
LEMMA RemoveAtIs ==
  ASSUME NEW U, NEW s \in Seq(U), NEW n \in 1 .. Len(s)
  PROVE  /\ RemoveAt(s, n) \in Seq(U)
         /\ Len(RemoveAt(s, n)) = Len(s) - 1
         /\ \A k \in 1 .. Len(s) - 1 : RemoveAt(s, n)[k] = IF k < n THEN s[k] ELSE s[k + 1]
<1>1. Len(s) \in Nat /\ n \in Int /\ 1 <= n /\ n <= Len(s) /\ \A k \in 1 .. Len(s) : s[k] \in U
  OBVIOUS
<1> DEFINE a == SubSeq(s, 1, n - 1)
           b == SubSeq(s, n + 1, Len(s))
<1>2. a \in Seq(U) /\ Len(a) = n - 1 /\ \A k \in 1 .. n - 1 : a[k] = s[k]
  <2>1. \A k \in 1 .. n - 1 : s[k] \in U
    BY <1>1
  <2>2. n - 1 \in Int /\ 1 \in Int
    BY <1>1
  <2>3. /\ a \in Seq(U) 
        /\ Len(a) = IF 1 <= n - 1 THEN (n - 1) - 1 + 1 ELSE 0
        /\ \A k \in 1 .. (n - 1) - 1 + 1 : a[k] = s[1 + k - 1]
    BY <2>1, <2>2, SubSeqProperties
  <2>4. \A k \in 1 .. n - 1 : k \in 1 .. (n - 1) - 1 + 1 /\ 1 + k - 1 = k
    BY <1>1
  <2>5. Len(a) = n - 1
    BY <1>1, <2>3
  <2> QED
    BY <2>3, <2>4, <2>5
<1>3. b \in Seq(U) /\ Len(b) = Len(s) - n /\ \A k \in 1 .. Len(s) - n : b[k] = s[n + k]
  <2>1. \A k \in n + 1 .. Len(s) : s[k] \in U
    BY <1>1
  <2>2. n + 1 \in Int /\ Len(s) \in Int
    BY <1>1
  <2>3. /\ b \in Seq(U)
        /\ Len(b) = IF n + 1 <= Len(s) THEN Len(s) - (n + 1) + 1 ELSE 0
        /\ \A k \in 1 .. Len(s) - (n + 1) + 1 : b[k] = s[n + 1 + k - 1]
    BY <2>1, <2>2, SubSeqProperties
  <2>4. \A k \in 1 .. Len(s) - n : k \in 1 .. Len(s) - (n + 1) + 1 /\ n + 1 + k - 1 = n + k
    BY <1>1
  <2>5. Len(b) = Len(s) - n
    BY <1>1, <2>3
  <2> QED
    BY <2>3, <2>4, <2>5
<1>4. RemoveAt(s, n) = a \o b
  BY DEF RemoveAt
<1> HIDE DEF a, b
<1>5. /\ a \o b \in Seq(U) /\ Len(a \o b) = Len(a) + Len(b)
      /\ \A k \in 1 .. Len(a) + Len(b) : (a \o b)[k] = IF k <= Len(a) THEN a[k] ELSE b[k - Len(a)]
  BY <1>2, <1>3, ConcatProperties
<1>6. Len(a) + Len(b) = Len(s) - 1
  BY <1>1, <1>2, <1>3
<1>7. ASSUME NEW k \in 1 .. Len(s) - 1
      PROVE  (a \o b)[k] = IF k < n THEN s[k] ELSE s[k + 1]
  <2>1. CASE k < n
    <3>1. k \in 1 .. n - 1 /\ k <= Len(a) /\ k \in 1 .. Len(a) + Len(b)
      BY <1>1, <1>2, <1>6, <2>1
    <3> QED
      BY <1>2, <1>5, <2>1, <3>1
  <2>2. CASE ~(k < n)
    <3>1. k - (n - 1) \in 1 .. Len(s) - n /\ ~(k <= Len(a)) /\ k \in 1 .. Len(a) + Len(b)
      BY <1>1, <1>2, <1>6, <2>2
    <3>2. n + (k - (n - 1)) = k + 1
      BY <1>1
    <3> QED
      BY <1>2, <1>3, <1>5, <2>2, <3>1, <3>2
  <2> QED
    BY <2>1, <2>2
<1> QED
  BY <1>4, <1>5, <1>6, <1>7

\* And InsertAt.
LEMMA InsertAtIs ==
  ASSUME NEW U, NEW s \in Seq(U), NEW n \in 1 .. Len(s) + 1, NEW e \in U
  PROVE  /\ InsertAt(s, n, e) \in Seq(U)
         /\ Len(InsertAt(s, n, e)) = Len(s) + 1
         /\ \A k \in 1 .. Len(s) + 1 :
              InsertAt(s, n, e)[k] = IF k < n THEN s[k] ELSE IF k = n THEN e ELSE s[k - 1]
<1>1. Len(s) \in Nat /\ n \in Int /\ 1 <= n /\ n <= Len(s) + 1 /\ \A k \in 1 .. Len(s) : s[k] \in U
  OBVIOUS
<1> DEFINE a == SubSeq(s, 1, n - 1)
           b == SubSeq(s, n, Len(s))
           m == <<e>>
<1>2. a \in Seq(U) /\ Len(a) = n - 1 /\ \A k \in 1 .. n - 1 : a[k] = s[k]
  <2>1. \A k \in 1 .. n - 1 : s[k] \in U
    BY <1>1
  <2>2. n - 1 \in Int /\ 1 \in Int
    BY <1>1
  <2>3. /\ a \in Seq(U) 
        /\ Len(a) = IF 1 <= n - 1 THEN (n - 1) - 1 + 1 ELSE 0
        /\ \A k \in 1 .. (n - 1) - 1 + 1 : a[k] = s[1 + k - 1]
    BY <2>1, <2>2, SubSeqProperties
  <2>4. \A k \in 1 .. n - 1 : k \in 1 .. (n - 1) - 1 + 1 /\ 1 + k - 1 = k
    BY <1>1
  <2>5. Len(a) = n - 1
    BY <1>1, <2>3
  <2> QED
    BY <2>3, <2>4, <2>5
<1>3. b \in Seq(U) /\ Len(b) = Len(s) - n + 1 /\ \A k \in 1 .. Len(s) - n + 1 : b[k] = s[n + k - 1]
  <2>1. \A k \in n .. Len(s) : s[k] \in U
    BY <1>1
  <2>2. n \in Int /\ Len(s) \in Int
    BY <1>1
  <2>3. /\ b \in Seq(U)
        /\ Len(b) = IF n <= Len(s) THEN Len(s) - n + 1 ELSE 0
        /\ \A k \in 1 .. Len(s) - n + 1 : b[k] = s[n + k - 1]
    BY <2>1, <2>2, SubSeqProperties
  <2>5. Len(b) = Len(s) - n + 1
    BY <1>1, <2>3
  <2> QED
    BY <2>3, <2>5
<1>4. InsertAt(s, n, e) = (a \o m) \o b
  BY DEF InsertAt
<1>5. m \in Seq(U) /\ Len(m) = 1 /\ m[1] = e
  OBVIOUS
<1> HIDE DEF a, b, m
<1>6. /\ a \o m \in Seq(U) /\ Len(a \o m) = n
      /\ \A k \in 1 .. n : (a \o m)[k] = IF k < n THEN s[k] ELSE e
  <2>1. /\ a \o m \in Seq(U) /\ Len(a \o m) = Len(a) + Len(m)
        /\ \A k \in 1 .. Len(a) + Len(m) : (a \o m)[k] = IF k <= Len(a) THEN a[k] ELSE m[k - Len(a)]
    BY <1>2, <1>5, ConcatProperties
  <2>2. Len(a) + Len(m) = n
    BY <1>1, <1>2, <1>5
  <2>3. ASSUME NEW k \in 1 .. n
        PROVE  (a \o m)[k] = IF k < n THEN s[k] ELSE e
    <3>1. CASE k < n
      <4>1. k \in 1 .. n - 1 /\ k <= Len(a)
        BY <1>1, <1>2, <3>1
      <4> QED
        BY <1>2, <2>1, <2>2, <3>1, <4>1
    <3>2. CASE ~(k < n)
      <4>1. ~(k <= Len(a)) /\ k - Len(a) = 1
        BY <1>1, <1>2, <3>2
      <4> QED
        BY <1>5, <2>1, <2>2, <3>2, <4>1
    <3> QED
      BY <3>1, <3>2
  <2> QED
    BY <2>1, <2>2, <2>3
<1> DEFINE c == a \o m
<1> HIDE DEF c
<1>7. /\ c \in Seq(U) /\ Len(c) = n
       /\ \A k \in 1 .. n : c[k] = IF k < n THEN s[k] ELSE e
  BY <1>6 DEF c
<1>8. /\ c \o b \in Seq(U) /\ Len(c \o b) = Len(c) + Len(b)
      /\ \A k \in 1 .. Len(c) + Len(b) :
           (c \o b)[k] = IF k <= Len(c) THEN c[k] ELSE b[k - Len(c)]
  BY <1>3, <1>7, ConcatProperties
<1>9. Len(c) + Len(b) = Len(s) + 1
  BY <1>1, <1>3, <1>7
<1>10. ASSUME NEW k \in 1 .. Len(s) + 1
      PROVE  (c \o b)[k] = IF k < n THEN s[k] ELSE IF k = n THEN e ELSE s[k - 1]
  <2>1. CASE k <= n
    <3>1. k \in 1 .. n /\ k <= Len(c)
      BY <1>1, <1>7, <2>1
    <3>2. (c \o b)[k] = IF k < n THEN s[k] ELSE e
      BY <1>7, <1>8, <1>9, <3>1
    <3>3. k < n \/ k = n
      BY <1>1, <2>1
    <3> QED
      BY <3>2, <3>3
  <2>2. CASE ~(k <= n)
    <3>1. k - n \in 1 .. Len(s) - n + 1 /\ ~(k <= Len(c)) /\ ~(k < n) /\ k # n
      BY <1>1, <1>7, <2>2
    <3>2. n + (k - n) - 1 = k - 1
      BY <1>1
    <3> QED
      BY <1>3, <1>7, <1>8, <1>9, <3>1, <3>2
  <2> QED
    BY <2>1, <2>2
<1> DEFINE d == c \o b
<1>11. d \in Seq(U) /\ Len(d) = Len(s) + 1
  BY <1>8, <1>9
<1>12. \A k \in 1 .. Len(s) + 1 :
         d[k] = IF k < n THEN s[k] ELSE IF k = n THEN e ELSE s[k - 1]
  BY <1>10
<1>13. InsertAt(s, n, e) = d
  BY <1>4 DEF c
<1> HIDE DEF d
<1> QED
  BY <1>11, <1>12, <1>13

\* An insertion keeps what was there and adds the new element.
LEMMA Inserted ==
  ASSUME NEW U, NEW s \in Seq(U), NEW n \in 1 .. Len(s) + 1, NEW e \in U
  PROVE  /\ InsertAt(s, n, e) \in Seq(U)
         /\ \A k \in DOMAIN s : \E l \in DOMAIN InsertAt(s, n, e) : InsertAt(s, n, e)[l] = s[k]
         /\ \E l \in DOMAIN InsertAt(s, n, e) : InsertAt(s, n, e)[l] = e
         /\ \A l \in DOMAIN InsertAt(s, n, e) :
              InsertAt(s, n, e)[l] = e \/ \E k \in DOMAIN s : InsertAt(s, n, e)[l] = s[k]
<1> DEFINE t == InsertAt(s, n, e)
<1>1. /\ t \in Seq(U) /\ Len(t) = Len(s) + 1
      /\ \A k \in 1 .. Len(s) + 1 : t[k] = IF k < n THEN s[k] ELSE IF k = n THEN e ELSE s[k - 1]
  <2>1. s \in Seq(U) /\ n \in 1 .. Len(s) + 1 /\ e \in U
    OBVIOUS
  <2>2. t \in Seq(U) /\ Len(t) = Len(s) + 1
    BY <2>1, InsertAtIs
  <2>3. ASSUME NEW k \in 1 .. Len(s) + 1
        PROVE  t[k] = IF k < n THEN s[k] ELSE IF k = n THEN e ELSE s[k - 1]
    BY <2>1, <2>3, InsertAtIs
  <2> QED
    BY <2>2, <2>3
<1> HIDE DEF t
<1>2. /\ Len(s) \in Nat /\ DOMAIN s = 1 .. Len(s) /\ DOMAIN t = 1 .. Len(s) + 1
      /\ n \in Int /\ 1 <= n /\ n <= Len(s) + 1
  BY <1>1
<1>3. ASSUME NEW k \in DOMAIN s
      PROVE  \E l \in DOMAIN t : t[l] = s[k]
  <2>1. CASE k < n
    <3>1. k \in 1 .. Len(s) + 1 /\ t[k] = s[k]
      BY <1>1, <1>2, <2>1
    <3> QED
      BY <1>2, <3>1
  <2>2. CASE ~(k < n)
    <3>1. k + 1 \in 1 .. Len(s) + 1 /\ ~(k + 1 < n) /\ k + 1 # n /\ (k + 1) - 1 = k
      BY <1>2, <2>2
    <3>2. t[k + 1] = s[k]
      BY <1>1, <3>1
    <3> QED
      BY <1>2, <3>1, <3>2
  <2> QED
    BY <2>1, <2>2
<1>4. n \in DOMAIN t /\ t[n] = e
  BY <1>1, <1>2
<1>5. ASSUME NEW l \in DOMAIN t
      PROVE  t[l] = e \/ \E k \in DOMAIN s : t[l] = s[k]
  <2>1. CASE l < n
    <3>1. l \in DOMAIN s /\ t[l] = s[l]
      BY <1>1, <1>2, <2>1
    <3> QED
      BY <3>1
  <2>2. CASE l = n
    BY <1>4, <2>2
  <2>3. CASE ~(l < n) /\ l # n
    <3>1. l - 1 \in DOMAIN s /\ t[l] = s[l - 1]
      BY <1>1, <1>2, <2>3
    <3> QED
      BY <3>1
  <2> QED
    BY <2>1, <2>2, <2>3
<1> QED
  BY <1>1, <1>3, <1>4, <1>5 DEF t

-----------------------------------------------------------------------------
(* The invariant.                                                          *)
Pairing == pc \in {"pairs", "best", "merge", "modify"}

Older == 1 .. h - 1

(* Pairs that are done with, that wait in L, B or the array of the plain   *)
(* mode, or that will be entered.  A mark of the plain mode stands for h.  *)
Second(q) == IF q.p2 = tail THEN h ELSE q.p2
Edges == Links \union {{q.p1, Second(q)} : q \in Range(B) \union Range(order)}
               \union {{s, h} : s \in rest}

(* Pairs with h in the array of the plain mode that are never deleted:     *)
(* those marked, and those the outer loop is done with.                    *)
Kept(k) == order[k].p2 = tail \/ (order[k].p2 = h /\ (k > j \/ (k = j /\ i > 0)))
Fixed   == IF pc = "modify" THEN {order[k].p1 : k \in {l \in DOMAIN order : Kept(l)}} ELSE {}

(* The pair of x and y is not needed because of those with h.              *)
Replaced(x, y) ==
  LET m == pLcm(lead[x], lead[y]) IN
  /\ pDivisibleBy(lead[h], m)
  /\ \/ pLcm(lead[x], lead[h]) # m /\ pLcm(lead[y], lead[h]) # m
     \/ x \in Fixed /\ y \in Fixed

(* Any two of D are linked in E by those of D whose monomial divides the   *)
(* lcm of theirs.                                                          *)
CoveredBy(M, D, E) ==
  \A a, b \in D : \A X \in SUBSET D :
    a \in X /\ b \notin X =>
      \E x \in X, y \in D \ X :
        /\ pDivisibleBy(M[x], pLcm(M[a], M[b]))
        /\ pDivisibleBy(M[y], pLcm(M[a], M[b]))
        /\ {x, y} \in E

OldInv ==
  Pairing =>
    \A a, b \in Older : \A X \in SUBSET Older :
      a \in X /\ b \notin X =>
        \E x \in X, y \in Older \ X :
          /\ pDivisibleBy(lead[x], pLcm(lead[a], lead[b]))
          /\ pDivisibleBy(lead[y], pLcm(lead[a], lead[b]))
          /\ {x, y} \in Edges \/ Replaced(x, y)

NewInv ==
  Pairing =>
    \A g \in Older : \E t \in Older :
      {t, h} \in Edges /\ pDivisibleBy(lead[t], pLcm(lead[g], lead[h]))

CoverInv == ~Pairing => CoveredBy(lead, DOMAIN lead, Links)

(* What a pair is: of two older polynomials, or of one and h, marked or    *)
(* not.                                                                    *)
Old(q)    == q.p1 \in Older /\ q.p2 \in Older /\ q.lcm = pLcm(lead[q.p1], lead[q.p2])
New(q)    == q.p1 \in Older /\ q.p2 = h /\ q.lcm = pLcm(lead[q.p1], lead[h])
Marked(q) == q.p1 \in Older /\ q.p2 = tail /\ q.lcm = pLcm(lead[q.p1], lead[h])

PairsInv ==
  /\ pc \in {"idle", "enter"} =>
       \A q \in L : /\ q.p1 \in DOMAIN lead /\ q.p2 \in DOMAIN lead
                    /\ q.lcm = pLcm(lead[q.p1], lead[q.p2])
  /\ Pairing => \A q \in L : Old(q)
  /\ \A k \in DOMAIN B : New(B[k])
  /\ \A k \in DOMAIN order : Old(order[k]) \/ New(order[k]) \/ (pc = "modify" /\ Marked(order[k]))

(* Where the loops are.                                                    *)
LoopInv ==
  /\ pc \in {"idle", "pairs", "merge", "enter"} => j = 0 /\ i = 0
  /\ pc \in {"idle", "enter"} => B = <<>> /\ rest = {} /\ pairtest = {}
  /\ pc \in {"best", "merge", "modify"} => rest = {} /\ pairtest = {}
  /\ pc \notin {"merge", "modify"} => order = <<>>
  /\ pc = "best" => j \in 0 .. Len(B) /\ i \in -1 .. j - 1
  /\ pc = "merge" => Range(order) \subseteq L \union Range(B)
  /\ pc = "modify" =>
       /\ L = {} /\ B = <<>> /\ j \in 0 .. Len(order) /\ i \in 0 .. j
       /\ i > 0 => i < j /\ order[j].p2 = h
       /\ \A k \in DOMAIN order : order[k].p2 = tail => k <= j

(* The basis, and what h has in common with it.                            *)
BasisInv ==
  LET Known == IF pc = "idle" THEN DOMAIN lead ELSE Older IN
  /\ pc # "idle" => lead # <<>>
  /\ S \subseteq Known /\ rest \subseteq S /\ pairtest \subseteq S
  /\ \A g \in Known : \E s \in S : pDivisibleBy(lead[s], lead[g])
  /\ \A s, t \in S : pDivisibleBy(lead[s], lead[t]) => s = t
  /\ pc # "idle" => \A s \in S : ~pDivisibleBy(lead[s], lead[h])
  /\ pc = "pairs" => \A z \in pairtest : {z, h} \in treated

(* In Gebauer mode: no lcm in B divides another one properly, and those    *)
(* the loop for the best has looked at differ from all before them.        *)
MinimalInv ==
  mode = "Gebauer" =>
    /\ pc \in {"pairs", "best"} =>
         \A k, l \in DOMAIN B : pDivisibleBy(B[k].lcm, B[l].lcm) => B[k].lcm = B[l].lcm
    /\ pc = "best" =>
         /\ \A k, l \in DOMAIN B : k > j /\ l < k => B[l].lcm # B[k].lcm
         /\ \A l \in DOMAIN B : i < l /\ l < j => B[l].lcm # B[j].lcm
    /\ pc \notin {"merge", "modify"}
    /\ pc \in {"enter", "idle"} =>
         \A q, r \in L : q.p2 = h /\ r.p2 = h /\ pDivisibleBy(q.lcm, r.lcm) => q = r

Inv == TypeOK /\ LoopInv /\ PairsInv /\ BasisInv /\ OldInv /\ NewInv /\ CoverInv
       /\ MinimalInv

-----------------------------------------------------------------------------
(* Monomials, and why the criteria are right.                              *)
LEMMA DividesIs ==
  /\ \A a \in Monomial : pDivisibleBy(a, a)
  /\ \A a, b, c \in Monomial : pDivisibleBy(a, b) /\ pDivisibleBy(b, c) => pDivisibleBy(a, c)
  /\ \A a, b \in Monomial : pDivisibleBy(a, b) /\ pDivisibleBy(b, a) => a = b
<1>1. MaxExp \in Nat
  BY PairsAssumption
<1>2. \A a \in Monomial, v \in Vars : a[v] \in Nat
  BY <1>1 DEF Monomial
<1>3. \A a \in Monomial : pDivisibleBy(a, a)
  BY <1>2 DEF pDivisibleBy
<1>4. ASSUME NEW a \in Monomial, NEW b \in Monomial, NEW c \in Monomial,
             pDivisibleBy(a, b), pDivisibleBy(b, c)
      PROVE  pDivisibleBy(a, c)
  <2>1. SUFFICES ASSUME NEW v \in Vars PROVE a[v] <= c[v]
    BY DEF pDivisibleBy
  <2>2. a[v] <= b[v] /\ b[v] <= c[v]
    BY <1>4 DEF pDivisibleBy
  <2>3. a[v] \in Nat /\ b[v] \in Nat /\ c[v] \in Nat
    BY <1>2
  <2> QED
    BY <2>2, <2>3
<1>5. ASSUME NEW a \in Monomial, NEW b \in Monomial, pDivisibleBy(a, b), pDivisibleBy(b, a)
      PROVE  a = b
  <2>1. ASSUME NEW v \in Vars PROVE a[v] = b[v]
    <3>1. a[v] <= b[v] /\ b[v] <= a[v]
      BY <1>5 DEF pDivisibleBy
    <3>2. a[v] \in Nat /\ b[v] \in Nat
      BY <1>2
    <3> QED
      BY <3>1, <3>2
  <2> QED
    BY <2>1 DEF Monomial
<1> QED
  BY <1>3, <1>4, <1>5

\* The least common multiple is what its name says.
LEMMA LcmIs ==
  /\ \A a, b \in Monomial :
       /\ pLcm(a, b) \in Monomial /\ pLcm(a, b) = pLcm(b, a)
       /\ pDivisibleBy(a, pLcm(a, b)) /\ pDivisibleBy(b, pLcm(a, b))
  /\ \A a, b, c \in Monomial :
       pDivisibleBy(a, c) /\ pDivisibleBy(b, c) => pDivisibleBy(pLcm(a, b), c)
<1>1. MaxExp \in Nat
  BY PairsAssumption
<1>2. \A a \in Monomial, v \in Vars : a[v] \in Nat
  BY <1>1 DEF Monomial
<1>3. ASSUME NEW a \in Monomial, NEW b \in Monomial
      PROVE  /\ pLcm(a, b) \in Monomial /\ pLcm(a, b) = pLcm(b, a)
             /\ pDivisibleBy(a, pLcm(a, b)) /\ pDivisibleBy(b, pLcm(a, b))
  <2>1. pLcm(a, b) \in Monomial
    BY DEF pLcm, Monomial
  <2>2. \A v \in Vars : /\ pLcm(a, b)[v] = IF a[v] > b[v] THEN a[v] ELSE b[v]
                        /\ pLcm(b, a)[v] = IF b[v] > a[v] THEN b[v] ELSE a[v]
    BY DEF pLcm
  <2>3. ASSUME NEW v \in Vars
        PROVE  pLcm(a, b)[v] = pLcm(b, a)[v] /\ a[v] <= pLcm(a, b)[v] /\ b[v] <= pLcm(a, b)[v]
    <3>1. a[v] \in Nat /\ b[v] \in Nat
      BY <1>2
    <3> QED
      BY <2>2, <3>1
  <2>4. pLcm(a, b) = pLcm(b, a)
    BY <2>3 DEF pLcm
  <2>5. pDivisibleBy(a, pLcm(a, b)) /\ pDivisibleBy(b, pLcm(a, b))
    BY <2>3 DEF pDivisibleBy
  <2> QED
    BY <2>1, <2>4, <2>5
<1>4. ASSUME NEW a \in Monomial, NEW b \in Monomial, NEW c \in Monomial,
             pDivisibleBy(a, c), pDivisibleBy(b, c)
      PROVE  pDivisibleBy(pLcm(a, b), c)
  BY <1>4 DEF pDivisibleBy, pLcm
<1> QED
  BY <1>3, <1>4

(* Buchberger's criterion with chains.  M[1], ..., M[n] are the monomials, *)
(* E the pairs at hand and F the older monomials whose pair with n is      *)
(* among them.                                                             *)
Chain(M, n, F, x, y) ==
  LET m == pLcm(M[x], M[y]) IN
  /\ pDivisibleBy(M[n], m)
  /\ \/ pLcm(M[x], M[n]) # m /\ pLcm(M[y], M[n]) # m
     \/ x \in F /\ y \in F

(* Those whose monomial divides m, and whether the pairs at hand link them. *)
Within(M, n, m)    == {g \in 1 .. n : pDivisibleBy(M[g], m)}
Linked(M, n, E, m) ==
  \A X \in SUBSET (1 .. n) : \A a \in X \cap Within(M, n, m), b \in Within(M, n, m) \ X :
    \E x \in X \cap Within(M, n, m), y \in Within(M, n, m) \ X : {x, y} \in E

\* The heart of it: what is covered up to the pairs that h replaces is covered
\* together with h, by the pairs at hand.  Of the monomials within which they are
\* not linked, one that the fewest leading monomials divide is taken.
LEMMA Covering ==
  ASSUME NEW n \in Nat \ {0}, NEW M \in [1 .. n -> Monomial], NEW E, NEW F,
         \A f \in F : {f, n} \in E,
         \A a, b \in 1 .. n - 1 : \A X \in SUBSET (1 .. n - 1) :
           a \in X /\ b \notin X =>
             \E x \in X, y \in (1 .. n - 1) \ X :
               /\ pDivisibleBy(M[x], pLcm(M[a], M[b]))
               /\ pDivisibleBy(M[y], pLcm(M[a], M[b]))
               /\ {x, y} \in E \/ Chain(M, n, F, x, y),
         \A g \in 1 .. n - 1 : \E t \in 1 .. n - 1 :
           {t, n} \in E /\ pDivisibleBy(M[t], pLcm(M[g], M[n]))
  PROVE  CoveredBy(M, 1 .. n, E)
<1> DEFINE N   == 1 .. n
           W(m) == Within(M, n, m)
           Bad  == {m \in Monomial : ~Linked(M, n, E, m)}
<1>1. ASSUME NEW m \in Monomial
      PROVE  IsFiniteSet(W(m)) /\ Cardinality(W(m)) \in Nat
  <2>1. IsFiniteSet(N)
    BY FS_Interval
  <2>2. W(m) \in SUBSET N
    BY DEF Within
  <2>3. IsFiniteSet(W(m))
    BY <2>1, <2>2, FS_Subset
  <2> QED
    BY <2>3, FS_CardinalityType
<1>2. ASSUME NEW m \in Monomial, NEW k \in Monomial, pDivisibleBy(k, m)
      PROVE  W(k) \subseteq W(m)
  BY <1>2, DividesIs DEF Within
<1>3. \A g \in 1 .. n - 1 : g \in N /\ g # n
  OBVIOUS
<1>4. n \in N /\ \A g \in N : M[g] \in Monomial /\ (g = n \/ g \in 1 .. n - 1)
  OBVIOUS
<1>5. Bad = {}
  <2>1. SUFFICES ASSUME Bad # {} PROVE FALSE
    OBVIOUS
  <2> DEFINE U == {Cardinality(W(m)) : m \in Bad}
  <2>2. U \in SUBSET Nat /\ U # {}
    <3>1. \A m \in Bad : Cardinality(W(m)) \in Nat
      BY <1>1
    <3> QED
      BY <2>1, <3>1
  <2>3. PICK least \in U : \A u \in U : least <= u
    BY <2>2, LeastNat
  <2>4. PICK m \in Bad : least = Cardinality(W(m))
    OBVIOUS
  <2>5. \A k \in Bad : Cardinality(W(m)) <= Cardinality(W(k))
    BY <2>3, <2>4
  <2>6. PICK X0 \in SUBSET N : \E a \in X0 \cap W(m), b \in W(m) \ X0 :
          \A x \in X0 \cap W(m), y \in W(m) \ X0 : {x, y} \notin E
    BY DEF Linked
  <2> DEFINE X == IF n \in X0 THEN N \ X0 ELSE X0
  <2>7. /\ X \in SUBSET N /\ n \notin X
        /\ \E a \in X \cap W(m), b \in W(m) \ X : TRUE
        /\ \A x \in X \cap W(m), y \in W(m) \ X : {x, y} \notin E
    <3>1. CASE n \in X0
      <4>1. \A x, y : {x, y} = {y, x}
        OBVIOUS
      <4>2. W(m) \subseteq N
        BY DEF Within
      <4> HIDE DEF W, N
      <4>3. X = N \ X0
        BY <3>1
      <4>4. X \cap W(m) = W(m) \ X0 /\ W(m) \ X = X0 \cap W(m)
        BY <4>2, <4>3
      <4>5. n \in N /\ n \notin X /\ X \in SUBSET N
        BY <1>4, <3>1, <4>3
      <4>6. \E a \in X \cap W(m), b \in W(m) \ X : TRUE
        BY <2>6, <4>4
      <4>7. ASSUME NEW x \in X \cap W(m), NEW y \in W(m) \ X PROVE {x, y} \notin E
        <5>1. {y, x} \notin E
          BY <2>6, <4>4
        <5> QED
          BY <4>1, <5>1
      <4> QED
        BY <4>5, <4>6, <4>7
    <3>2. CASE n \notin X0
      BY <2>6, <3>2
    <3> QED
      BY <3>1, <3>2
  <2> HIDE DEF X
  <2>8. X \in SUBSET (1 .. n - 1)
    BY <1>4, <2>7
  <2>9. PICK a \in X \cap W(m) : \E b \in W(m) \ X : TRUE
    BY <2>7
  <2>10. a \in 1 .. n - 1 /\ M[a] \in Monomial /\ pDivisibleBy(M[a], m) /\ m \in Monomial
    BY <1>4, <2>7, <2>8 DEF Within
  \* It is enough to find an older element of W(m) outside X.
  <2>11. ASSUME NEW b \in W(m) \ X, b \in 1 .. n - 1
         PROVE  FALSE
    <3>1. M[b] \in Monomial /\ pDivisibleBy(M[b], m)
      BY <1>4 DEF Within
    <3>2. pLcm(M[a], M[b]) \in Monomial /\ pDivisibleBy(pLcm(M[a], M[b]), m)
      BY <2>10, <3>1, LcmIs
    <3>3. PICK x \in X, y \in (1 .. n - 1) \ X :
            /\ pDivisibleBy(M[x], pLcm(M[a], M[b]))
            /\ pDivisibleBy(M[y], pLcm(M[a], M[b]))
            /\ {x, y} \in E \/ Chain(M, n, F, x, y)
      BY <2>8, <2>10, <2>11
    <3>4. x \in N /\ y \in N /\ M[x] \in Monomial /\ M[y] \in Monomial
      BY <1>3, <1>4, <2>7
    <3>5. pDivisibleBy(M[x], m) /\ pDivisibleBy(M[y], m)
      BY <2>10, <3>2, <3>3, <3>4, DividesIs
    <3>6. x \in X \cap W(m) /\ y \in W(m) \ X
      BY <3>3, <3>4, <3>5 DEF Within
    <3>7. {x, y} \notin E
      BY <2>7, <3>6
    <3>8. Chain(M, n, F, x, y)
      BY <3>3, <3>7
    <3> DEFINE k == pLcm(M[x], M[y])
               l == pLcm(M[x], M[n])
    <3>9. k \in Monomial /\ pDivisibleBy(k, m) /\ pDivisibleBy(M[x], k) /\ pDivisibleBy(M[y], k)
      BY <2>10, <3>4, <3>5, LcmIs
    <3>10. M[n] \in Monomial /\ pDivisibleBy(M[n], k)
      BY <1>4, <3>8 DEF Chain
    <3>11. pDivisibleBy(M[n], m)
      BY <2>10, <3>9, <3>10, DividesIs
    <3>12. n \in W(m) \ X
      BY <1>4, <2>7, <3>11 DEF Within
    <3>13. {x, n} \notin E
      BY <2>7, <3>6, <3>12
    <3>14. l # k
      BY <3>8, <3>13 DEF Chain
    <3>15. /\ l \in Monomial /\ pDivisibleBy(M[x], l) /\ pDivisibleBy(M[n], l)
           /\ pDivisibleBy(l, k)
      BY <3>4, <3>9, <3>10, LcmIs
    <3>16. ~pDivisibleBy(M[y], l)
      <4>1. \A c \in Monomial : pDivisibleBy(M[x], c) /\ pDivisibleBy(M[y], c) => pDivisibleBy(k, c)
        BY <3>4, LcmIs
      <4> HIDE DEF k, l
      <4>2. SUFFICES ASSUME pDivisibleBy(M[y], l) PROVE FALSE
        OBVIOUS
      <4>3. pDivisibleBy(k, l)
        BY <3>15, <4>1, <4>2
      <4> QED
        BY <3>9, <3>14, <3>15, <4>3, DividesIs
    <3> HIDE DEF k, l
    <3>17. pDivisibleBy(l, m)
      BY <2>10, <3>9, <3>15, DividesIs
    <3>18. W(l) \in SUBSET W(m) /\ W(l) # W(m)
      <4>1. W(l) \in SUBSET W(m)
        BY <1>2, <2>10, <3>15, <3>17
      <4>2. y \notin W(l) /\ y \in W(m)
        BY <3>6, <3>16 DEF Within
      <4> QED
        BY <4>1, <4>2
    <3>19. Cardinality(W(l)) <= Cardinality(W(m)) /\ Cardinality(W(l)) # Cardinality(W(m))
      BY <1>1, <2>10, <3>18, FS_Subset
    <3>20. Cardinality(W(l)) \in Nat /\ Cardinality(W(m)) \in Nat
      BY <1>1, <2>10, <3>15
    <3>21. l \notin Bad
      <4>1. ~(Cardinality(W(m)) <= Cardinality(W(l)))
        BY <3>19, <3>20
      <4> QED
        BY <2>5, <4>1
    <3>22. Linked(M, n, E, l)
      BY <3>15, <3>21
    <3>23. x \in X \cap W(l) /\ n \in W(l) \ X
      BY <1>4, <2>7, <3>4, <3>6, <3>15 DEF Within
    <3>24. \E u \in X \cap W(l), v \in W(l) \ X : {u, v} \in E
      BY <2>7, <3>22, <3>23 DEF Linked
    <3> QED
      BY <2>7, <3>18, <3>24
  <2>12. n \in W(m) \ X
    BY <1>4, <2>9, <2>11 DEF Within
  <2>13. PICK t \in 1 .. n - 1 : {t, n} \in E /\ pDivisibleBy(M[t], pLcm(M[a], M[n]))
    BY <2>10
  <2>14. t \in W(m)
    <3>1. t \in N /\ M[t] \in Monomial /\ M[n] \in Monomial /\ pDivisibleBy(M[n], m)
      BY <1>3, <1>4, <2>12 DEF Within
    <3>2. pLcm(M[a], M[n]) \in Monomial /\ pDivisibleBy(pLcm(M[a], M[n]), m)
      BY <2>10, <3>1, LcmIs
    <3> QED
      BY <2>10, <2>13, <3>1, <3>2, DividesIs DEF Within
  <2>15. CASE t \in X
    BY <2>7, <2>12, <2>13, <2>14, <2>15
  <2>16. CASE t \notin X
    BY <2>11, <2>13, <2>14, <2>16
  <2> QED
    BY <2>15, <2>16
<1>6. ASSUME NEW a \in N, NEW b \in N, NEW X \in SUBSET N, a \in X, b \notin X
      PROVE  \E x \in X, y \in N \ X :
               /\ pDivisibleBy(M[x], pLcm(M[a], M[b]))
               /\ pDivisibleBy(M[y], pLcm(M[a], M[b]))
               /\ {x, y} \in E
  <2> DEFINE m == pLcm(M[a], M[b])
  <2>1. m \in Monomial /\ a \in W(m) /\ b \in W(m)
    BY <1>4, LcmIs DEF Within
  <2>2. Linked(M, n, E, m)
    BY <1>5, <2>1
  <2> HIDE DEF m
  <2>3. PICK x \in X \cap W(m), y \in W(m) \ X : {x, y} \in E
    BY <1>6, <2>1, <2>2 DEF Linked
  <2> QED
    BY <2>3 DEF m, Within
<1> QED
  BY <1>6 DEF CoveredBy

-----------------------------------------------------------------------------
(* The types, and where the loops and the pairs are, after each action.    *)
Shape == TypeOK /\ LoopInv /\ PairsInv /\ BasisInv

\* What the types say of the indices and the monomials, ...
LEMMA Basics ==
  ASSUME TypeOK
  PROVE  /\ h \in Nat /\ h <= MaxPolys /\ MaxPolys \in Nat /\ DOMAIN lead = 1 .. h
         /\ \A g \in 1 .. h : lead[g] \in Leads /\ lead[g] \in Monomial
         /\ 1 .. h \subseteq Poly /\ Older \subseteq 1 .. h
         /\ h \notin Older /\ tail \notin Older
         /\ \A g \in 1 .. h : g = h \/ g \in Older
<1>1. MaxPolys \in Nat /\ Leads \subseteq Monomial
  BY PairsAssumption DEF Monomial
<1>2. h \in Nat /\ h <= MaxPolys /\ DOMAIN lead = 1 .. h /\ \A g \in 1 .. h : lead[g] \in Leads
  BY DEF TypeOK, h
<1> QED
  BY <1>1, <1>2 DEF Poly, Older, tail

\* ... of the pairs in B, in the array and in L, ...
LEMMA PairBasics ==
  ASSUME TypeOK
  PROVE  /\ DOMAIN B = 1 .. Len(B) /\ Len(B) \in Nat /\ \A k \in DOMAIN B : B[k] \in Pair
         /\ DOMAIN order = 1 .. Len(order) /\ Len(order) \in Nat
         /\ \A k \in DOMAIN order : order[k] \in Pair
         /\ Range(B) \subseteq Pair /\ Range(order) \subseteq Pair /\ L \subseteq Pair
<1>1. /\ DOMAIN B = 1 .. Len(B) /\ Len(B) \in Nat /\ \A k \in DOMAIN B : B[k] \in Pair
      /\ L \subseteq Pair
  BY DEF TypeOK
<1>2. /\ DOMAIN order = 1 .. Len(order) /\ Len(order) \in Nat
      /\ \A k \in DOMAIN order : order[k] \in Pair
  BY DEF TypeOK
<1> QED
  BY <1>1, <1>2 DEF Range

\* ... and of a pair.
LEMMA PairIs ==
  \A q \in Pair : /\ q.p1 \in Poly /\ q.p2 \in Poly \union {tail}
                  /\ q.lcm \in Monomial /\ q.ecart \in Ecarts
BY DEF Pair

\* The comparison of two monomials is what its results say.
LEMMA DivCompIs ==
  \A a, b : /\ pDivComp(a, b) = 1 => pDivisibleBy(a, b) /\ a # b
            /\ pDivComp(a, b) = -1 => pDivisibleBy(b, a) /\ a # b
            /\ pDivisibleBy(a, b) /\ a # b => pDivComp(a, b) = 1
            /\ pDivisibleBy(b, a) /\ a # b /\ ~pDivisibleBy(a, b) => pDivComp(a, b) = -1
BY DEF pDivComp

\* The loop over B keeps the pairs of some set: all that it does not find beaten.
LEMMA CriterionIs ==
  ASSUME TypeOK, NEW m, NEW e
  PROVE  \E K \in SUBSET DOMAIN B : \E stop \in 0 .. Len(B) :
           /\ CriterionInB(m, e).kept = Subsequence(B, K)
           /\ CriterionInB(m, e).stop = stop
           /\ stop > 0 => stop \in K /\ stop \in DOMAIN B /\ pDivComp(B[stop].lcm, m) = 1
           /\ stop = 0 => \A k \in DOMAIN B :
                            ~(pDivComp(B[k].lcm, m) = 1 /\ SugarLe(B[k].ecart, e))
           /\ \A k \in DOMAIN B \ K : pDivComp(B[k].lcm, m) = -1
           /\ \A k \in K : k <= stop \/ ~(pDivComp(B[k].lcm, m) = -1 /\ SugarLe(e, B[k].ecart))
<1> DEFINE beats(q)  == pDivComp(q.lcm, m) = 1 /\ SugarLe(q.ecart, e)
           beaten(q) == pDivComp(q.lcm, m) = -1 /\ SugarLe(e, q.ecart)
           T    == {0} \union {k \in DOMAIN B : beats(B[k])}
           stop == Max(T)
           K    == {k \in DOMAIN B : k <= stop \/ ~beaten(B[k])}
<1>1. DOMAIN B = 1 .. Len(B) /\ Len(B) \in Nat
  BY PairBasics
<1>2. T \in SUBSET (0 .. Len(B)) /\ T # {}
  BY <1>1
<1>3. stop \in T /\ \A x \in T : stop >= x
  BY <1>1, <1>2, GreatestNat DEF Max
<1>4. CriterionInB(m, e) = [stop |-> stop, kept |-> Subsequence(B, K)]
  BY DEF CriterionInB
<1> HIDE DEF stop
<1>5. stop \in 0 .. Len(B)
  BY <1>2, <1>3
<1>6. stop > 0 => stop \in DOMAIN B /\ beats(B[stop])
  BY <1>3, <1>5
<1>7. stop = 0 => \A k \in DOMAIN B : ~beats(B[k])
  <2>1. SUFFICES ASSUME stop = 0, NEW k \in DOMAIN B, beats(B[k]) PROVE FALSE
    OBVIOUS
  <2>2. k \in T /\ k \in 1 .. Len(B)
    BY <1>1, <2>1
  <2> QED
    BY <1>1, <1>3, <2>1, <2>2
<1>8. stop > 0 => stop \in K
  BY <1>5, <1>6
<1>9. \A k \in DOMAIN B \ K : beaten(B[k])
  OBVIOUS
<1>10. \A k \in K : k <= stop \/ ~beaten(B[k])
  OBVIOUS
<1>11. K \in SUBSET DOMAIN B
  OBVIOUS
<1> HIDE DEF K
<1> QED
  BY <1>4, <1>5, <1>6, <1>7, <1>8, <1>9, <1>10, <1>11

\* What entering the pair of s and h does to B and to what is known of s.
LEMMA EnterOnePair ==
  ASSUME TypeOK, NEW s \in Older, enterOnePairNormal(s)
  PROVE  LET m == pLcm(lead[h], lead[s])
             q(ec) == [p1 |-> s, p2 |-> h, lcm |-> m, ecart |-> ec] IN
         /\ treated \subseteq treated' /\ pairtest' \subseteq pairtest \union {s}
         /\ s \in pairtest' => s \in pairtest \/ {s, h} \in treated'
         /\ \/ B' = B /\ pairtest' = pairtest /\ {s, h} \in treated'
            \/ \E K \in SUBSET DOMAIN B :
                 /\ \A k \in DOMAIN B \ K : pDivComp(B[k].lcm, m) = -1
                 /\ \/ /\ B' = Subsequence(B, K)
                       /\ \/ \E k \in K : pDivComp(B[k].lcm, m) = 1
                          \/ {s, h} \in treated'
                    \/ /\ \E n \in 1 .. Len(Subsequence(B, K)) + 1, ec \in Ecarts :
                            B' = InsertAt(Subsequence(B, K), n, q(ec))
                       /\ mode # "sugar" =>
                            /\ \A k \in DOMAIN B : pDivComp(B[k].lcm, m) # 1
                            /\ \A k \in K : pDivComp(B[k].lcm, m) # -1
<1> DEFINE m == pLcm(lead[h], lead[s])
           e == IF ecart[s] > ecart[h] THEN ecart[s] ELSE ecart[h]
           r == CriterionInB(m, e)
<1>1. CASE ProductCrit(s)
  <2>1. treated' = treated \union {{s, h}} /\ UNCHANGED <<B, pairtest>>
    BY <1>1 DEF enterOnePairNormal
  <2> QED
    BY <2>1
<1>2. CASE ~ProductCrit(s)
  <2>1. PICK K \in SUBSET DOMAIN B, stop \in 0 .. Len(B) :
           /\ r.kept = Subsequence(B, K)
           /\ r.stop = stop
           /\ stop > 0 => stop \in K /\ stop \in DOMAIN B /\ pDivComp(B[stop].lcm, m) = 1
           /\ stop = 0 => \A k \in DOMAIN B :
                            ~(pDivComp(B[k].lcm, m) = 1 /\ SugarLe(B[k].ecart, e))
           /\ \A k \in DOMAIN B \ K : pDivComp(B[k].lcm, m) = -1
           /\ \A k \in K : k <= stop \/ ~(pDivComp(B[k].lcm, m) = -1 /\ SugarLe(e, B[k].ecart))
    BY CriterionIs
  <2> HIDE DEF e
  <2>2. \/ r.stop > 0 /\ B' = r.kept /\ UNCHANGED <<pairtest, treated>>
        \/ /\ ~(r.stop > 0)
           /\ \E k \in 1 .. Len(r.kept) + 1, ec \in Ecarts :
                B' = InsertAt(r.kept, k, [p1 |-> s, p2 |-> h, lcm |-> m, ecart |-> ec])
           /\ UNCHANGED <<pairtest, treated>>
        \/ /\ B' = r.kept /\ pairtest' = pairtest \union {s}
           /\ treated' = treated \union {{s, h}}
    BY <1>2 DEF enterOnePairNormal, e
  <2> HIDE DEF r, m
  <2>3. CASE r.stop > 0 /\ B' = r.kept /\ UNCHANGED <<pairtest, treated>>
    BY <2>1, <2>3 DEF m
  <2>4. CASE /\ ~(r.stop > 0)
             /\ \E k \in 1 .. Len(r.kept) + 1, ec \in Ecarts :
                  B' = InsertAt(r.kept, k, [p1 |-> s, p2 |-> h, lcm |-> m, ecart |-> ec])
             /\ UNCHANGED <<pairtest, treated>>
    <3>1. stop = 0
      BY <2>1, <2>4
    <3>2. \A x, y : mode # "sugar" => SugarLe(x, y)
      BY DEF SugarLe
    <3>3. \A k \in K : ~(k <= stop)
      <4>1. \A k \in K : k \in 1 .. Len(B)
        BY PairBasics
      <4> QED
        BY <3>1, <4>1
    <3>4. mode # "sugar" => /\ \A k \in DOMAIN B : pDivComp(B[k].lcm, m) # 1
                            /\ \A k \in K : pDivComp(B[k].lcm, m) # -1
      BY <2>1, <3>1, <3>2, <3>3
    <3> QED
      BY <2>1, <2>4, <3>4 DEF m
  <2>5. CASE /\ B' = r.kept /\ pairtest' = pairtest \union {s}
             /\ treated' = treated \union {{s, h}}
    BY <2>1, <2>5 DEF m
  <2> QED
    BY <2>2, <2>3, <2>4, <2>5
<1> QED
  BY <1>1, <1>2

\* Between two polynomials that enter, what a pair is does not change.
LEMMA SameLead ==
  ASSUME lead' = lead
  PROVE  /\ h' = h /\ Older' = Older
         /\ \A q : (Old(q)' <=> Old(q)) /\ (New(q)' <=> New(q)) /\ (Marked(q)' <=> Marked(q))
         /\ \A q : Second(q)' = Second(q)
<1>1. h' = h /\ Older' = Older
  BY DEF h, Older
<1> QED
  BY <1>1 DEF Old, New, Marked, Second

\* The invariant holds in the beginning.
LEMMA InitInv == Init => Inv
<1> SUFFICES ASSUME Init PROVE Inv
  OBVIOUS
<1>1. /\ mode \in Modes /\ lead = <<>> /\ ecart = <<>> /\ S = {} /\ L = {} /\ treated = {}
      /\ B = <<>> /\ rest = {} /\ pairtest = {} /\ order = <<>> /\ j = 0 /\ i = 0
      /\ pc = "idle"
  BY DEF Init
<1>2. /\ \A U : <<>> \in Seq(U)
      /\ Len(<<>>) = 0
      /\ \A k \in DOMAIN <<>> : FALSE
      /\ MaxPolys \in Nat
  BY PairsAssumption
<1>3. TypeOK
  BY <1>1, <1>2 DEF TypeOK
<1>4. LoopInv
  BY <1>1 DEF LoopInv
<1>5. PairsInv
  <2>1. ~Pairing
    BY <1>1 DEF Pairing
  <2>2. \A k \in DOMAIN B : FALSE
    BY <1>1, <1>2
  <2>3. \A k \in DOMAIN order : FALSE
    BY <1>1, <1>2
  <2> QED
    BY <1>1, <2>1, <2>2, <2>3 DEF PairsInv
<1>6. BasisInv
  <2>1. \A k \in DOMAIN lead : FALSE
    BY <1>1, <1>2
  <2> QED
    BY <1>1, <2>1 DEF BasisInv
<1>7. OldInv /\ NewInv
  BY <1>1 DEF OldInv, NewInv, Pairing
<1>8. CoverInv
  <2>1. \A k \in DOMAIN lead : FALSE
    BY <1>1, <1>2
  <2> QED
    BY <2>1 DEF CoverInv, CoveredBy
<1>9. MinimalInv
  BY <1>1 DEF MinimalInv
<1> QED
  BY <1>3, <1>4, <1>5, <1>6, <1>7, <1>8, <1>9 DEF Inv

\* A new polynomial comes behind the others.
LEMMA AppendLead ==
  ASSUME TypeOK, NewPoly
  PROVE  /\ h' = h + 1 /\ Older' = 1 .. h /\ DOMAIN lead' = 1 .. h + 1
         /\ lead' \in Seq(Leads) /\ h + 1 <= MaxPolys
         /\ ecart' \in Seq(Ecarts) /\ Len(ecart') = Len(lead')
         /\ \A g \in 1 .. h : lead'[g] = lead[g]
         /\ lead'[h + 1] \in Monomial /\ \A s \in S : ~pDivisibleBy(lead[s], lead'[h + 1])
         /\ rest' = S /\ pc' = "pairs"
<1>1. PICK m \in Leads, e \in Ecarts :
        /\ \A s \in S : ~pDivisibleBy(lead[s], m)
        /\ lead' = Append(lead, m) /\ ecart' = Append(ecart, e)
  BY DEF NewPoly
<1>2. lead \in Seq(Leads) /\ ecart \in Seq(Ecarts) /\ Len(ecart) = h /\ h \in Nat
  BY DEF TypeOK, h
<1>3. /\ lead' \in Seq(Leads) /\ Len(lead') = h + 1 /\ DOMAIN lead' = 1 .. h + 1
      /\ \A g \in 1 .. h : lead'[g] = lead[g]
      /\ lead'[h + 1] = m
  BY <1>1, <1>2, AppendProperties DEF h
<1>4. ecart' \in Seq(Ecarts) /\ Len(ecart') = h + 1
  BY <1>1, <1>2, AppendProperties
<1>5. h' = h + 1
  BY <1>3 DEF h
<1>6. Older' = 1 .. h
  BY <1>2, <1>5 DEF Older
<1>7. h + 1 <= MaxPolys
  <2>1. SugarPolys \in Nat /\ MaxPolys \in Nat /\ SugarPolys <= MaxPolys
    BY PairsAssumption
  <2>2. h < IF mode = "sugar" THEN SugarPolys ELSE MaxPolys
    BY DEF NewPoly, h
  <2> QED
    BY <1>2, <2>1, <2>2
<1>8. m \in Monomial
  BY PairsAssumption DEF Monomial
<1>9. rest' = S /\ pc' = "pairs"
  BY DEF NewPoly
<1> QED
  BY <1>1, <1>3, <1>4, <1>5, <1>6, <1>7, <1>8, <1>9

\* A polynomial enters.
LEMMA NewPolyShape ==
  ASSUME Inv, pc = "idle", NewPoly, L' \subseteq L,
         UNCHANGED <<mode, S, B, pairtest, order, j, i>>
  PROVE  Shape'
<1>1. TypeOK /\ LoopInv /\ PairsInv /\ BasisInv
  BY DEF Inv
<1>2. /\ h' = h + 1 /\ Older' = 1 .. h /\ DOMAIN lead' = 1 .. h + 1
      /\ lead' \in Seq(Leads) /\ h + 1 <= MaxPolys
      /\ ecart' \in Seq(Ecarts) /\ Len(ecart') = Len(lead')
      /\ \A g \in 1 .. h : lead'[g] = lead[g]
      /\ lead'[h + 1] \in Monomial /\ \A s \in S : ~pDivisibleBy(lead[s], lead'[h + 1])
      /\ rest' = S /\ pc' = "pairs"
  BY <1>1, AppendLead
<1>3. /\ j = 0 /\ i = 0 /\ B = <<>> /\ rest = {} /\ pairtest = {} /\ order = <<>>
  BY <1>1 DEF LoopInv
<1>4. h \in Nat /\ DOMAIN lead = 1 .. h
  BY <1>1, Basics
<1>5. \A k \in DOMAIN <<>> : FALSE
  OBVIOUS
<1>6. TypeOK'
  <2>1. S \subseteq DOMAIN lead'
    BY <1>1, <1>2, <1>4 DEF TypeOK
  <2>2. Len(lead') <= MaxPolys
    BY <1>2 DEF h
  <2> QED
    BY <1>1, <1>2, <2>1, <2>2 DEF TypeOK
<1>7. LoopInv'
  BY <1>2, <1>3 DEF LoopInv
<1>8. PairsInv'
  <2>1. \A q \in L : /\ q.p1 \in 1 .. h /\ q.p2 \in 1 .. h
                     /\ q.lcm = pLcm(lead[q.p1], lead[q.p2])
    BY <1>1, <1>4 DEF PairsInv
  <2>2. \A q \in L' : Old(q)'
    BY <1>2, <2>1 DEF Old
  <2>3. \A k \in DOMAIN B' : FALSE
    BY <1>3, <1>5
  <2>4. \A k \in DOMAIN order' : FALSE
    BY <1>3, <1>5
  <2>5. pc' \notin {"idle", "enter"}
    BY <1>2
  <2> QED
    BY <2>2, <2>3, <2>4, <2>5 DEF PairsInv
<1>9. BasisInv'
  <2>1. S \subseteq 1 .. h /\ \A g \in 1 .. h : \E s \in S : pDivisibleBy(lead[s], lead[g])
    BY <1>1, <1>4 DEF BasisInv
  <2>2. \A s, t \in S : pDivisibleBy(lead[s], lead[t]) => s = t
    BY <1>1 DEF BasisInv
  <2>3. \A s \in S : lead'[s] = lead[s]
    BY <1>2, <2>1
  <2>4. lead' # <<>> /\ h + 1 \in DOMAIN lead'
    BY <1>2, <1>4
  <2>5. pairtest' = {} /\ S' = S
    BY <1>3
  <2>6. \A g \in Older' : \E s \in S' : pDivisibleBy(lead'[s], lead'[g])
    BY <1>2, <2>1, <2>3, <2>5
  <2> QED
    BY <1>2, <2>1, <2>2, <2>3, <2>4, <2>5, <2>6 DEF BasisInv
<1> QED
  BY <1>6, <1>7, <1>8, <1>9 DEF Shape

\* A pair is reduced to zero.
LEMMA PairReducedShape ==
  ASSUME Inv, PairReduced, UNCHANGED <<lead, ecart, rest, pc>>
  PROVE  Shape'
<1>1. TypeOK /\ LoopInv /\ PairsInv /\ BasisInv
  BY DEF Inv
<1>2. /\ pc = "idle" /\ L' \subseteq L
      /\ UNCHANGED <<mode, lead, ecart, S, B, rest, pairtest, order, j, i, pc>>
  BY DEF PairReduced
<1>3. TypeOK'
  BY <1>1, <1>2 DEF TypeOK
<1>4. LoopInv'
  BY <1>1, <1>2 DEF LoopInv
<1>5. h' = h /\ Older' = Older /\ \A q : (Old(q)' <=> Old(q)) /\ (New(q)' <=> New(q))
      /\ (Marked(q)' <=> Marked(q))
  BY <1>2, SameLead
<1>6. PairsInv'
  BY <1>1, <1>2, <1>5 DEF PairsInv, Pairing
<1>7. BasisInv'
  BY <1>1, <1>2, <1>5 DEF BasisInv
<1> QED
  BY <1>3, <1>4, <1>6, <1>7 DEF Shape

\* A pair with h is looked at.
LEMMA EnterPairsShape ==
  ASSUME Inv, initenterpairs
  PROVE  Shape'
<1>1. TypeOK /\ LoopInv /\ PairsInv /\ BasisInv
  BY DEF Inv
<1>2. PICK s \in rest : enterOnePairNormal(s) /\ rest' = rest \ {s}
  BY DEF initenterpairs
<1>3. pc = "pairs" /\ UNCHANGED <<mode, lead, ecart, S, L, order, j, i, pc>>
  BY DEF initenterpairs
<1>4. /\ h \in Nat /\ h <= MaxPolys /\ DOMAIN lead = 1 .. h
      /\ \A g \in 1 .. h : lead[g] \in Leads /\ lead[g] \in Monomial
      /\ 1 .. h \subseteq Poly /\ Older \subseteq 1 .. h
      /\ h \notin Older /\ tail \notin Older
  BY <1>1, Basics
<1>5. s \in S /\ S \subseteq Older /\ lead # <<>>
  BY <1>1, <1>2, <1>3 DEF BasisInv
<1>6. h \in 1 .. h /\ s \in Older
  BY <1>4, <1>5 DEF Older
<1>7. h' = h /\ Older' = Older /\ \A q : (Old(q)' <=> Old(q)) /\ (New(q)' <=> New(q))
      /\ (Marked(q)' <=> Marked(q))
  BY <1>3, SameLead
<1> DEFINE m == pLcm(lead[h], lead[s])
           q(ec) == [p1 |-> s, p2 |-> h, lcm |-> m, ecart |-> ec]
<1>8. m \in Monomial /\ m = pLcm(lead[s], lead[h])
  BY <1>4, <1>6, LcmIs
<1> HIDE DEF m
<1>9. \A ec \in Ecarts : q(ec) \in Pair /\ New(q(ec))
  <2>1. s \in Poly /\ h \in Poly
    BY <1>4, <1>6
  <2> QED
    BY <1>6, <1>8, <2>1 DEF Pair, New
<1> HIDE DEF q
<1>10. /\ pairtest' \subseteq pairtest \union {s} /\ treated \subseteq treated'
       /\ s \in pairtest' => s \in pairtest \/ {s, h} \in treated'
       /\ \/ B' = B
          \/ \E K \in SUBSET DOMAIN B :
               \/ B' = Subsequence(B, K)
               \/ \E n \in 1 .. Len(Subsequence(B, K)) + 1, ec \in Ecarts :
                    B' = InsertAt(Subsequence(B, K), n, q(ec))
  BY <1>1, <1>2, <1>6, EnterOnePair DEF q, m
<1>11. B \in Seq(Pair) /\ \A k \in DOMAIN B : New(B[k])
  BY <1>1 DEF TypeOK, PairsInv
<1>12. ASSUME NEW K \in SUBSET DOMAIN B
       PROVE  /\ Subsequence(B, K) \in Seq(Pair)
              /\ \A k \in DOMAIN Subsequence(B, K) : New(Subsequence(B, K)[k])
  <2>1. /\ Subsequence(B, K) \in Seq(Pair)
        /\ \A k \in DOMAIN Subsequence(B, K) :
             Nth(K, k) \in K /\ Subsequence(B, K)[k] = B[Nth(K, k)]
    BY <1>11, SubsequenceIs
  <2> QED
    BY <1>11, <2>1
<1>13. B' \in Seq(Pair) /\ \A k \in DOMAIN B' : New(B'[k])
  <2>1. CASE B' = B
    BY <1>11, <2>1
  <2>2. ASSUME NEW K \in SUBSET DOMAIN B, B' = Subsequence(B, K)
        PROVE  B' \in Seq(Pair) /\ \A k \in DOMAIN B' : New(B'[k])
    BY <1>12, <2>2
  <2>3. ASSUME NEW K \in SUBSET DOMAIN B, NEW n \in 1 .. Len(Subsequence(B, K)) + 1,
               NEW ec \in Ecarts, B' = InsertAt(Subsequence(B, K), n, q(ec))
        PROVE  B' \in Seq(Pair) /\ \A k \in DOMAIN B' : New(B'[k])
    <3> DEFINE t == Subsequence(B, K)
               e == q(ec)
    <3>1. t \in Seq(Pair) /\ \A k \in DOMAIN t : New(t[k])
      BY <1>12
    <3>2. e \in Pair /\ New(e)
      BY <1>9 DEF e
    <3>3. B' = InsertAt(t, n, e) /\ n \in 1 .. Len(t) + 1
      BY <2>3
    <3> HIDE DEF t, e
    <3>4. /\ InsertAt(t, n, e) \in Seq(Pair)
          /\ \A l \in DOMAIN InsertAt(t, n, e) :
               \/ InsertAt(t, n, e)[l] = e
               \/ \E k \in DOMAIN t : InsertAt(t, n, e)[l] = t[k]
      BY <3>1, <3>2, <3>3, Inserted
    <3> QED
      BY <3>1, <3>2, <3>3, <3>4
  <2> QED
    BY <1>10, <2>1, <2>2, <2>3
<1>14. j = 0 /\ i = 0 /\ order = <<>>
  BY <1>1, <1>3 DEF LoopInv
<1>15. TypeOK'
  <2>1. Len(B') \in Nat /\ Len(order') = 0
    BY <1>3, <1>13, <1>14
  <2>2. j' \in 0 .. Len(B') + Len(order') /\ i' \in -1 .. j'
    BY <1>3, <1>14, <2>1
  <2> QED
    BY <1>1, <1>3, <1>13, <2>2 DEF TypeOK
<1>16. LoopInv'
  BY <1>3, <1>14 DEF LoopInv
<1>17. PairsInv'
  <2>1. Pairing /\ Pairing'
    BY <1>3 DEF Pairing
  <2>2. \A q0 \in L' : Old(q0)'
    BY <1>1, <1>3, <1>7, <2>1 DEF PairsInv
  <2>3. \A k \in DOMAIN order' : FALSE
    BY <1>3, <1>14
  <2> QED
    BY <1>3, <1>7, <1>13, <2>2, <2>3 DEF PairsInv
<1>18. BasisInv'
  <2>1. \A z \in pairtest' : {z, h} \in treated' /\ z \in S
    <3>1. \A z \in pairtest : {z, h} \in treated /\ z \in S
      BY <1>1, <1>3 DEF BasisInv
    <3> QED
      BY <1>5, <1>10, <3>1
  <2>2. rest' \subseteq S
    BY <1>1, <1>2 DEF BasisInv
  <2> QED
    BY <1>1, <1>3, <1>7, <2>1, <2>2 DEF BasisInv
<1> QED
  BY <1>15, <1>16, <1>17, <1>18 DEF Shape

\* The chain criterion.
LEMMA ChainCritShape ==
  ASSUME Inv, chainCrit
  PROVE  Shape'
<1>1. TypeOK /\ LoopInv /\ PairsInv /\ BasisInv
  BY DEF Inv
<1> DEFINE K == {k \in DOMAIN B : \A z \in pairtest : ~pDivisibleBy(lead[z], B[k].lcm)}
<1>2. /\ pc = "pairs" /\ rest = {} /\ B' = Subsequence(B, K) /\ pairtest' = {} /\ L' \subseteq L
      /\ \/ mode = "plain" /\ pc' = "merge" /\ UNCHANGED <<j, i>>
         \/ pc' = "best" /\ j' = Len(B') /\ i' = Len(B') - 1
      /\ UNCHANGED <<mode, lead, ecart, S, treated, rest, order>>
  BY DEF chainCrit
<1>3. K \in SUBSET DOMAIN B
  OBVIOUS
<1> HIDE DEF K
<1>4. h' = h /\ Older' = Older /\ \A q : (Old(q)' <=> Old(q)) /\ (New(q)' <=> New(q))
      /\ (Marked(q)' <=> Marked(q))
  BY <1>2, SameLead
<1>5. B \in Seq(Pair) /\ \A k \in DOMAIN B : New(B[k])
  BY <1>1 DEF TypeOK, PairsInv
<1>6. B' \in Seq(Pair) /\ \A k \in DOMAIN B' : New(B'[k])
  <2>1. /\ Subsequence(B, K) \in Seq(Pair)
        /\ \A k \in DOMAIN Subsequence(B, K) :
             Nth(K, k) \in K /\ Subsequence(B, K)[k] = B[Nth(K, k)]
    BY <1>3, <1>5, SubsequenceIs
  <2> QED
    BY <1>2, <1>3, <1>5, <2>1
<1>7. j = 0 /\ i = 0 /\ order = <<>> /\ Len(B') \in Nat
  BY <1>1, <1>2, <1>6 DEF LoopInv
<1>8. TypeOK'
  <2>1. Len(order') = 0
    BY <1>2, <1>7
  <2>2. j' \in 0 .. Len(B') + Len(order') /\ i' \in -1 .. j'
    BY <1>2, <1>7, <2>1
  <2>3. pc' \in {"idle", "pairs", "best", "merge", "modify", "enter"}
    BY <1>2
  <2> QED
    BY <1>1, <1>2, <1>6, <2>2, <2>3 DEF TypeOK
<1>9. LoopInv'
  <2>1. pc' = "best" => j' \in 0 .. Len(B') /\ i' \in -1 .. j' - 1
    BY <1>2, <1>7
  <2>2. Range(order') \subseteq L' \union Range(B')
    BY <1>2, <1>7 DEF Range
  <2> QED
    BY <1>2, <1>7, <2>1, <2>2 DEF LoopInv
<1>10. PairsInv'
  <2>1. Pairing /\ Pairing' /\ pc' \notin {"idle", "enter"}
    BY <1>2 DEF Pairing
  <2>2. \A q \in L' : Old(q)'
    BY <1>1, <1>2, <1>4, <2>1 DEF PairsInv
  <2>3. \A k \in DOMAIN order' : FALSE
    BY <1>2, <1>7
  <2> QED
    BY <1>2, <1>4, <1>6, <2>1, <2>2, <2>3 DEF PairsInv
<1>11. BasisInv'
  BY <1>1, <1>2, <1>4 DEF BasisInv
<1> QED
  BY <1>8, <1>9, <1>10, <1>11 DEF Shape

(* t is s without its n-th element.                                        *)
Without(s, n, t) ==
  /\ Len(t) = Len(s) - 1
  /\ \A k \in 1 .. Len(s) - 1 : t[k] = IF k < n THEN s[k] ELSE s[k + 1]

\* A step of the loop for the best: nothing is deleted, or one of two pairs
\* with the same lcm is.
LEMMA BestStepIs ==
  ASSUME TypeOK, LoopInv, BestStep
  PROVE  /\ pc = "best" /\ UNCHANGED <<mode, lead, ecart, S, L, treated, rest, pairtest, order, pc>>
         /\ i \in 1 .. j - 1 /\ j \in 1 .. Len(B) /\ i' \in -1 .. j' - 1 /\ j' \in 0 .. Len(B')
         /\ B' \in Seq(Pair)
         /\ \/ B' = B /\ j' = j /\ i' = i - 1 /\ B[j].lcm # B[i].lcm
            \/ \E n \in {i, j} :
                 /\ B[j].lcm = B[i].lcm /\ j' = j - 1
                 /\ \/ n = i /\ i' = i - 1
                    \/ n = j /\ i' = j - 2 /\ ~SugarLe(B[j].ecart, B[i].ecart)
                 /\ Without(B, n, B')
<1>1. /\ pc = "best" /\ j > 1 /\ i >= 1
      /\ UNCHANGED <<mode, lead, ecart, S, L, treated, rest, pairtest, order, pc>>
  BY DEF BestStep
<1>2. B \in Seq(Pair) /\ Len(B) \in Nat
  BY PairBasics DEF TypeOK
<1>3. j \in 0 .. Len(B) /\ i \in -1 .. j - 1
  BY <1>1 DEF LoopInv
<1>4. i \in 1 .. j - 1 /\ j \in 1 .. Len(B) /\ i \in 1 .. Len(B)
  BY <1>1, <1>2, <1>3
<1>5. ASSUME NEW n \in 1 .. Len(B)
      PROVE  RemoveAt(B, n) \in Seq(Pair) /\ Without(B, n, RemoveAt(B, n))
  BY <1>2, RemoveAtIs DEF Without
<1>6. CASE B[j].lcm # B[i].lcm
  <2>1. i' = i - 1 /\ UNCHANGED <<B, j>>
    BY <1>6 DEF BestStep
  <2>2. i' \in -1 .. j' - 1 /\ j' \in 0 .. Len(B')
    BY <1>2, <1>4, <2>1
  <2> QED
    BY <1>1, <1>2, <1>4, <1>6, <2>1, <2>2
<1>7. CASE B[j].lcm = B[i].lcm /\ SugarLe(B[j].ecart, B[i].ecart)
  <2>1. B' = RemoveAt(B, i) /\ j' = j - 1 /\ i' = i - 1
    BY <1>7 DEF BestStep
  <2>2. Len(B') = Len(B) - 1
    BY <1>4, <1>5, <2>1 DEF Without
  <2>3. i' \in -1 .. j' - 1 /\ j' \in 0 .. Len(B')
    BY <1>2, <1>4, <2>1, <2>2
  <2> QED
    BY <1>1, <1>4, <1>5, <1>7, <2>1, <2>2, <2>3
<1>8. CASE B[j].lcm = B[i].lcm /\ ~SugarLe(B[j].ecart, B[i].ecart)
  <2>1. B' = RemoveAt(B, j) /\ j' = j - 1 /\ i' = j - 2
    BY <1>8 DEF BestStep
  <2>2. Len(B') = Len(B) - 1
    BY <1>4, <1>5, <2>1 DEF Without
  <2>3. i' \in -1 .. j' - 1 /\ j' \in 0 .. Len(B')
    BY <1>1, <1>2, <1>4, <2>1, <2>2
  <2> QED
    BY <1>1, <1>4, <1>5, <1>8, <2>1, <2>2, <2>3
<1> QED
  BY <1>6, <1>7, <1>8

\* What a deletion leaves was there before, and only the one deleted is missing.
LEMMA Removed ==
  ASSUME NEW U, NEW s \in Seq(U), NEW t \in Seq(U), NEW n \in 1 .. Len(s),
         Without(s, n, t)
  PROVE  /\ \A k \in DOMAIN t : \E l \in DOMAIN s : l # n /\ t[k] = s[l]
         /\ \A l \in DOMAIN s : l # n => \E k \in DOMAIN t : t[k] = s[l]
<1>1. Len(s) \in Nat /\ DOMAIN s = 1 .. Len(s) /\ DOMAIN t = 1 .. Len(s) - 1
      /\ \A k \in 1 .. Len(s) - 1 : t[k] = IF k < n THEN s[k] ELSE s[k + 1]
  BY DEF Without
<1>2. ASSUME NEW k \in DOMAIN t
      PROVE  \E l \in DOMAIN s : l # n /\ t[k] = s[l]
  <2>1. k < n => k \in DOMAIN s /\ k # n /\ t[k] = s[k]
    BY <1>1
  <2>2. ~(k < n) => k + 1 \in DOMAIN s /\ k + 1 # n /\ t[k] = s[k + 1]
    BY <1>1
  <2> QED
    BY <2>1, <2>2
<1>3. ASSUME NEW l \in DOMAIN s, l # n
      PROVE  \E k \in DOMAIN t : t[k] = s[l]
  <2>1. l < n => l \in DOMAIN t /\ t[l] = s[l]
    BY <1>1
  <2>2. ~(l < n) => l - 1 \in DOMAIN t /\ t[l - 1] = s[l]
    <3>1. SUFFICES ASSUME ~(l < n) PROVE l - 1 \in DOMAIN t /\ t[l - 1] = s[l]
      OBVIOUS
    <3>2. l - 1 \in 1 .. Len(s) - 1 /\ ~(l - 1 < n) /\ (l - 1) + 1 = l
      BY <1>1, <1>3, <3>1
    <3> QED
      BY <1>1, <3>2
  <2> QED
    BY <2>1, <2>2
<1> QED
  BY <1>2, <1>3

\* The loop for the best pair, ...
LEMMA BestStepShape ==
  ASSUME Inv, BestStep
  PROVE  Shape'
<1>1. TypeOK /\ LoopInv /\ PairsInv /\ BasisInv
  BY DEF Inv
<1>2. /\ pc = "best" /\ UNCHANGED <<mode, lead, ecart, S, L, treated, rest, pairtest, order, pc>>
      /\ i' \in -1 .. j' - 1 /\ j' \in 0 .. Len(B')
      /\ B' \in Seq(Pair)
      /\ \/ B' = B
         \/ \E n \in 1 .. Len(B) : Without(B, n, B')
  <2>1. i \in 1 .. j - 1 /\ j \in 1 .. Len(B) => i \in 1 .. Len(B)
    BY <1>1, PairBasics
  <2> QED
    BY <1>1, <2>1, BestStepIs
<1>3. h' = h /\ Older' = Older /\ \A q : (Old(q)' <=> Old(q)) /\ (New(q)' <=> New(q))
      /\ (Marked(q)' <=> Marked(q))
  BY <1>2, SameLead
<1>4. B \in Seq(Pair) /\ \A k \in DOMAIN B : New(B[k])
  BY <1>1 DEF TypeOK, PairsInv
<1>5. \A k \in DOMAIN B' : New(B'[k])
  <2>1. CASE B' = B
    BY <1>4, <2>1
  <2>2. ASSUME NEW n \in 1 .. Len(B), Without(B, n, B')
        PROVE  \A k \in DOMAIN B' : New(B'[k])
    <3>1. B \in Seq(Pair) /\ B' \in Seq(Pair)
      BY <1>2, <1>4
    <3>2. \A k \in DOMAIN B' : \E l \in DOMAIN B : B'[k] = B[l]
      BY <2>2, <3>1, Removed
    <3> QED
      BY <1>4, <3>2
  <2> QED
    BY <1>2, <2>1, <2>2
<1>6. order = <<>>
  BY <1>1, <1>2 DEF LoopInv
<1>7. TypeOK'
  <2>1. Len(order') = 0 /\ Len(B') \in Nat
    BY <1>2, <1>6
  <2>2. i' \in -1 .. j' - 1 /\ j' \in 0 .. Len(B')
    BY <1>2
  <2>3. Len(B') + Len(order') = Len(B')
    BY <2>1
  <2>4. j' \in 0 .. Len(B') + Len(order')
    BY <2>2, <2>3
  <2>5. i' \in -1 .. j'
    <3>1. j' \in Int
      BY <2>2
    <3>2. \A x \in Int : \A y \in -1 .. x - 1 : y \in -1 .. x
      OBVIOUS
    <3> QED
      BY <2>2, <3>1, <3>2
  <2> QED
    BY <1>1, <1>2, <2>4, <2>5 DEF TypeOK
<1>8. LoopInv'
  BY <1>1, <1>2, <1>6 DEF LoopInv
<1>9. PairsInv'
  BY <1>1, <1>2, <1>3, <1>5 DEF PairsInv, Pairing
<1>10. BasisInv'
  BY <1>1, <1>2, <1>3 DEF BasisInv
<1> QED
  BY <1>7, <1>8, <1>9, <1>10 DEF Shape

\* ... its next round, ...
LEMMA BestNextShape ==
  ASSUME Inv, BestNext
  PROVE  Shape'
<1>1. TypeOK /\ LoopInv /\ PairsInv /\ BasisInv
  BY DEF Inv
<1>2. /\ pc = "best" /\ j > 1 /\ j' = j - 1 /\ i' = j - 2
      /\ UNCHANGED <<mode, lead, ecart, S, L, treated, B, rest, pairtest, order, pc>>
  BY DEF BestNext
<1>3. h' = h /\ Older' = Older /\ \A q : (Old(q)' <=> Old(q)) /\ (New(q)' <=> New(q))
      /\ (Marked(q)' <=> Marked(q))
  BY <1>2, SameLead
<1>4. j \in 0 .. Len(B) /\ Len(B) \in Nat /\ order = <<>> /\ Len(<<>>) = 0
  BY <1>1, <1>2, PairBasics DEF LoopInv
<1>5. j' \in 0 .. Len(B) /\ i' \in -1 .. j' - 1
  BY <1>2, <1>4
<1>6. TypeOK'
  <2>1. j' \in 0 .. Len(B') + Len(order') /\ i' \in -1 .. j'
    BY <1>2, <1>4, <1>5
  <2> QED
    BY <1>1, <1>2, <2>1 DEF TypeOK
<1>7. LoopInv'
  BY <1>1, <1>2, <1>4, <1>5 DEF LoopInv
<1>8. PairsInv'
  BY <1>1, <1>2, <1>3 DEF PairsInv, Pairing
<1>9. BasisInv'
  BY <1>1, <1>2, <1>3 DEF BasisInv
<1> QED
  BY <1>6, <1>7, <1>8, <1>9 DEF Shape

\* ... and its end.
LEMMA BestEndsShape ==
  ASSUME Inv, BestEnds
  PROVE  Shape'
<1>1. TypeOK /\ LoopInv /\ PairsInv /\ BasisInv
  BY DEF Inv
<1>2. /\ pc = "best" /\ L' = L \union Range(B) /\ B' = <<>>
      /\ j' = 0 /\ i' = 0 /\ pc' = "enter"
      /\ UNCHANGED <<mode, lead, ecart, S, treated, rest, pairtest, order>>
  BY DEF BestEnds
<1>3. h' = h /\ Older' = Older /\ \A q : (Old(q)' <=> Old(q)) /\ (New(q)' <=> New(q))
      /\ (Marked(q)' <=> Marked(q))
  BY <1>2, SameLead
<1>4. /\ order = <<>> /\ rest = {} /\ pairtest = {} /\ lead # <<>>
  BY <1>1, <1>2 DEF LoopInv, BasisInv
<1>5. /\ \A k \in DOMAIN <<>> : FALSE
      /\ Len(<<>>) = 0 /\ <<>> \in Seq(Pair)
  OBVIOUS
<1>6. TypeOK'
  <2>1. L' \subseteq Pair
    BY <1>1, <1>2, PairBasics
  <2>2. Len(B') + Len(order') = 0
    BY <1>2, <1>4, <1>5
  <2>3. j' \in 0 .. Len(B') + Len(order') /\ i' \in -1 .. j'
    BY <1>2, <2>2
  <2> QED
    BY <1>1, <1>2, <1>5, <2>1, <2>3 DEF TypeOK
<1>7. LoopInv'
  BY <1>2, <1>4 DEF LoopInv
<1>8. PairsInv'
  <2>1. Pairing /\ ~Pairing'
    BY <1>2 DEF Pairing
  <2>2. \A q \in L' : Old(q) \/ New(q)
    BY <1>1, <1>2, <2>1 DEF PairsInv, Range
  <2>3. /\ Older \subseteq DOMAIN lead /\ h \in DOMAIN lead
        /\ \A g \in DOMAIN lead : lead[g] \in Monomial
    <3>1. h \in Nat /\ DOMAIN lead = 1 .. h
      BY <1>1, Basics
    <3>2. h # 0
      BY <1>1, <1>4 DEF h, TypeOK
    <3> QED
      BY <1>1, <3>1, <3>2, Basics
  <2>4. \A q \in L' : /\ q.p1 \in DOMAIN lead /\ q.p2 \in DOMAIN lead
                      /\ q.lcm = pLcm(lead[q.p1], lead[q.p2])
    BY <2>2, <2>3 DEF Old, New
  <2>5. \A k \in DOMAIN B' : FALSE
    BY <1>2, <1>5
  <2>6. \A k \in DOMAIN order' : FALSE
    BY <1>2, <1>4, <1>5
  <2> QED
    BY <1>2, <2>1, <2>4, <2>5, <2>6 DEF PairsInv
<1>9. BasisInv'
  BY <1>1, <1>2, <1>3 DEF BasisInv
<1> QED
  BY <1>6, <1>7, <1>8, <1>9 DEF Shape

\* The pairs are merged into the array of the plain mode.
LEMMA MergeShape ==
  ASSUME Inv, kMergeBintoL
  PROVE  Shape'
<1>1. TypeOK /\ LoopInv /\ PairsInv /\ BasisInv
  BY DEF Inv
<1>2. pc = "merge" /\ UNCHANGED <<mode, lead, ecart, S, treated, rest, pairtest>>
  BY DEF kMergeBintoL
<1>3. \/ /\ \E q \in L \union Range(B) : order' = Append(order, q)
         /\ UNCHANGED <<L, B, j, i, pc>>
      \/ /\ L' = {} /\ B' = <<>> /\ pc' = "modify" /\ j' = Len(order) /\ i' = 0 /\ UNCHANGED order
  BY DEF kMergeBintoL
<1>4. h' = h /\ Older' = Older /\ \A q : (Old(q)' <=> Old(q)) /\ (New(q)' <=> New(q))
      /\ (Marked(q)' <=> Marked(q))
  BY <1>2, SameLead
<1>5. /\ \A q \in L \union Range(B) : q \in Pair /\ (Old(q) \/ New(q))
      /\ order \in Seq(Pair) /\ \A k \in DOMAIN order : Old(order[k]) \/ New(order[k])
  <2>1. Pairing
    BY <1>2 DEF Pairing
  <2>2. \A q \in L \union Range(B) : q \in Pair /\ (Old(q) \/ New(q))
    BY <1>1, <2>1, PairBasics DEF PairsInv, Range
  <2>3. \A k \in DOMAIN order : Old(order[k]) \/ New(order[k])
    BY <1>1, <1>2 DEF PairsInv
  <2> QED
    BY <1>1, <2>2, <2>3 DEF TypeOK
<1>6. /\ j = 0 /\ i = 0 /\ rest = {} /\ pairtest = {} /\ lead # <<>>
      /\ Range(order) \subseteq L \union Range(B)
  BY <1>1, <1>2 DEF LoopInv, BasisInv
<1>7. CASE /\ \E q \in L \union Range(B) : order' = Append(order, q)
           /\ UNCHANGED <<L, B, j, i, pc>>
  <2>1. PICK q \in L \union Range(B) : order' = Append(order, q)
    BY <1>7
  <2>2. order \in Seq(Pair) /\ q \in Pair
    BY <1>5
  <2>3. /\ order' \in Seq(Pair) /\ Len(order') = Len(order) + 1
        /\ \A k \in 1 .. Len(order) : order'[k] = order[k]
        /\ order'[Len(order) + 1] = q
    BY <2>1, <2>2, AppendProperties
  <2>4. /\ Len(order) \in Nat /\ DOMAIN order = 1 .. Len(order)
        /\ DOMAIN order' = 1 .. Len(order) + 1
    BY <2>2, <2>3
  <2>5. \A k \in DOMAIN order' :
          \/ k = Len(order) + 1 /\ order'[k] = q
          \/ k \in DOMAIN order /\ order'[k] = order[k]
    <3>1. \A n \in Nat : \A k \in 1 .. n + 1 : k = n + 1 \/ k \in 1 .. n
      OBVIOUS
    <3> QED
      BY <2>3, <2>4, <3>1
  <2>6. TypeOK'
    <3>1. Len(B) \in Nat
      BY <1>1, PairBasics
    <3>2. j' \in 0 .. Len(B') + Len(order') /\ i' \in -1 .. j'
      BY <1>6, <1>7, <2>3, <2>4, <3>1
    <3> QED
      BY <1>1, <1>2, <1>7, <2>3, <3>2 DEF TypeOK
  <2>7. LoopInv'
    <3>1. Range(order') \subseteq L \union Range(B)
      BY <1>6, <2>5 DEF Range
    <3> QED
      BY <1>2, <1>6, <1>7, <3>1 DEF LoopInv
  <2>8. PairsInv'
    <3>1. \A k \in DOMAIN order' : Old(order'[k]) \/ New(order'[k])
      BY <1>5, <2>1, <2>5
    <3>2. \A q0 \in L : Old(q0)
      BY <1>1, <1>2 DEF PairsInv, Pairing
    <3>3. pc' = "merge" /\ L' = L /\ B' = B
      BY <1>2, <1>7
    <3>4. \A k \in DOMAIN B : New(B[k])
      BY <1>1 DEF PairsInv
    <3> QED
      BY <1>4, <3>1, <3>2, <3>3, <3>4 DEF PairsInv
  <2>9. BasisInv'
    BY <1>1, <1>2, <1>4, <1>7 DEF BasisInv
  <2> QED
    BY <2>6, <2>7, <2>8, <2>9 DEF Shape
<1>8. CASE /\ L' = {} /\ B' = <<>> /\ pc' = "modify" /\ j' = Len(order) /\ i' = 0
           /\ UNCHANGED order
  <2>1. /\ \A k \in DOMAIN <<>> : FALSE
        /\ Len(<<>>) = 0 /\ <<>> \in Seq(Pair) /\ Len(order) \in Nat
    BY <1>5
  <2>2. TypeOK'
    <3>1. j' \in 0 .. Len(B') + Len(order') /\ i' \in -1 .. j'
      BY <1>8, <2>1
    <3> QED
      BY <1>1, <1>2, <1>8, <2>1, <3>1 DEF TypeOK
  <2>3. LoopInv'
    <3>1. \A k \in DOMAIN order : order[k].p2 # tail
      <4>1. h # 0 /\ tail = 0 /\ \A g \in Older : g # tail
        <5>1. h # 0
          BY <1>1, <1>6 DEF h, TypeOK
        <5> QED
          BY <1>1, <5>1, Basics DEF tail
      <4> QED
        BY <1>5, <4>1 DEF Old, New
    <3>2. j' \in 0 .. Len(order') /\ i' \in 0 .. j' /\ ~(i' > 0)
      BY <1>8, <2>1
    <3> QED
      BY <1>2, <1>6, <1>8, <3>1, <3>2 DEF LoopInv
  <2>4. PairsInv'
    BY <1>4, <1>5, <1>8, <2>1 DEF PairsInv, Pairing
  <2>5. BasisInv'
    BY <1>1, <1>2, <1>4, <1>8 DEF BasisInv
  <2> QED
    BY <2>2, <2>3, <2>4, <2>5 DEF Shape
<1> QED
  BY <1>3, <1>7, <1>8

\* What is known while the plain mode works on the array.
LEMMA ModifyBasics ==
  ASSUME Shape, pc = "modify"
  PROVE  /\ L = {} /\ B = <<>> /\ rest = {} /\ pairtest = {}
         /\ order \in Seq(Pair) /\ Len(order) \in Nat /\ DOMAIN order = 1 .. Len(order)
         /\ j \in 0 .. Len(order) /\ i \in 0 .. j
         /\ i > 0 => i < j /\ order[j].p2 = h
         /\ \A k \in DOMAIN order : order[k].p2 = tail => k <= j
         /\ \A k \in DOMAIN order : order[k] \in Pair
         /\ \A k \in DOMAIN order : Old(order[k]) \/ New(order[k]) \/ Marked(order[k])
         /\ h \in 1 .. h /\ DOMAIN lead = 1 .. h /\ h # tail /\ \A g \in Older : g # h /\ g # tail
<1>1. TypeOK /\ LoopInv /\ PairsInv /\ BasisInv
  BY DEF Shape
<1>2. /\ L = {} /\ B = <<>> /\ rest = {} /\ pairtest = {}
      /\ j \in 0 .. Len(order) /\ i \in 0 .. j
      /\ i > 0 => i < j /\ order[j].p2 = h
      /\ \A k \in DOMAIN order : order[k].p2 = tail => k <= j
  BY <1>1 DEF LoopInv
<1>3. \A k \in DOMAIN order : Old(order[k]) \/ New(order[k]) \/ Marked(order[k])
  BY <1>1 DEF PairsInv
<1>4. h \in Nat /\ DOMAIN lead = 1 .. h /\ \A g \in Older : g # h /\ g # tail
  BY <1>1, Basics
<1>5. h # 0
  BY <1>1 DEF h, TypeOK, BasisInv
<1>6. order \in Seq(Pair)
  BY <1>1 DEF TypeOK
<1>7. h \in 1 .. h /\ h # tail
  BY <1>4, <1>5 DEF tail
<1>8. Len(order) \in Nat /\ DOMAIN order = 1 .. Len(order) /\ \A k \in DOMAIN order : order[k] \in Pair
  BY <1>6
<1> QED
  BY <1>2, <1>3, <1>4, <1>6, <1>7, <1>8

\* To have the shape again it is enough that the array has it.
LEMMA ModifyAgain ==
  ASSUME Shape, pc = "modify",
         UNCHANGED <<mode, lead, ecart, S, L, treated, B, rest, pairtest, pc>>,
         order' \in Seq(Pair), j' \in 0 .. Len(order'), i' \in 0 .. j',
         i' > 0 => i' < j' /\ order'[j'].p2 = h,
         \A k \in DOMAIN order' : order'[k].p2 = tail => k <= j',
         \A k \in DOMAIN order' : Old(order'[k]) \/ New(order'[k]) \/ Marked(order'[k])
  PROVE  Shape'
<1>1. TypeOK /\ LoopInv /\ PairsInv /\ BasisInv
  BY DEF Shape
<1>2. h' = h /\ Older' = Older /\ \A q : (Old(q)' <=> Old(q)) /\ (New(q)' <=> New(q))
      /\ (Marked(q)' <=> Marked(q))
  BY SameLead
<1>3. L = {} /\ B = <<>> /\ rest = {} /\ pairtest = {}
  BY ModifyBasics
<1>4. TypeOK'
  <2>1. Len(<<>>) = 0 /\ Len(order') \in Nat
    OBVIOUS
  <2>2. Len(B') + Len(order') = Len(order')
    BY <1>3, <2>1
  <2>3. \A x \in Int : \A y \in 0 .. x : y \in -1 .. x
    OBVIOUS
  <2>4. j' \in Int
    BY <2>1
  <2>5. i' \in -1 .. j'
    BY <2>3, <2>4
  <2>6. j' \in 0 .. Len(B') + Len(order')
    BY <2>2
  <2> QED
    BY <1>1, <2>5, <2>6 DEF TypeOK
<1>5. LoopInv'
  BY <1>2, <1>3 DEF LoopInv
<1>6. PairsInv'
  BY <1>2, <1>3 DEF PairsInv, Pairing
<1>7. BasisInv'
  BY <1>1, <1>2 DEF BasisInv
<1> QED
  BY <1>4, <1>5, <1>6, <1>7 DEF Shape

\* The search finds a pair with the two polynomials.
LEMMA InPairset ==
  ASSUME NEW n \in Nat, NEW p, NEW q, isInPairsetL(n, p, q) > 0
  PROVE  /\ isInPairsetL(n, p, q) \in 1 .. n
         /\ {order[isInPairsetL(n, p, q)].p1, order[isInPairsetL(n, p, q)].p2} = {p, q}
<1> DEFINE T == {0} \union {k \in 1 .. n : {order[k].p1, order[k].p2} = {p, q}}
<1>1. T \in SUBSET (0 .. n) /\ T # {}
  OBVIOUS
<1>2. Max(T) \in T
  BY <1>1, GreatestNat DEF Max
<1>3. isInPairsetL(n, p, q) = Max(T)
  BY DEF isInPairsetL
<1>4. Max(T) > 0
  BY <1>3
<1>5. Max(T) # 0
  BY <1>1, <1>2, <1>4
<1>6. Max(T) \in {k \in 1 .. n : {order[k].p1, order[k].p2} = {p, q}}
  BY <1>2, <1>5
<1> QED
  BY <1>3, <1>6

(* The array with the mark on its i-th pair.                               *)
Mark == [order EXCEPT ![i].p2 = tail]

\* A pair is marked.
LEMMA MarkIs ==
  ASSUME order \in Seq(Pair), i \in 1 .. Len(order)
  PROVE  /\ Mark \in Seq(Pair) /\ Len(Mark) = Len(order)
         /\ \A k \in 1 .. Len(order) : k # i => Mark[k] = order[k]
         /\ Mark[i].p2 = tail /\ Mark[i].p1 = order[i].p1 /\ Mark[i].lcm = order[i].lcm
<1>1. order[i] \in Pair
  OBVIOUS
<1> DEFINE e == [order[i] EXCEPT !.p2 = tail]
<1>2. e \in Pair /\ e.p2 = tail /\ e.p1 = order[i].p1 /\ e.lcm = order[i].lcm
  BY <1>1 DEF Pair
<1>3. Mark = [order EXCEPT ![i] = e]
  BY DEF Mark
<1> HIDE DEF e
<1>4. /\ Mark \in Seq(Pair) /\ Len(Mark) = Len(order)
      /\ \A k \in 1 .. Len(order) : Mark[k] = IF k = i THEN e ELSE order[k]
  BY <1>2, <1>3, ExceptSeq
<1> QED
  BY <1>2, <1>4

\* A step of the inner loop: nothing is deleted, or one of two pairs with h
\* of the same lcm, or in place of it the older pair of their polynomials.
LEMMA ModifyInnerIs ==
  ASSUME Shape, ModifyInner
  PROVE  /\ pc = "modify" /\ i \in 1 .. j - 1 /\ j \in 1 .. Len(order)
         /\ UNCHANGED <<mode, lead, ecart, S, L, treated, B, rest, pairtest, pc>>
         /\ order' \in Seq(Pair)
         /\ \/ order' = order /\ i' = i - 1 /\ j' = IF i = 1 THEN j - 1 ELSE j
            \/ /\ order[i].p2 = h /\ order[j].lcm = order[i].lcm
               /\ \E l \in 1 .. i - 1 :
                    /\ {order[l].p1, order[l].p2} = {order[j].p1, order[i].p1}
                    /\ pDivisibleBy(lead[h], order[l].lcm)
                    /\ Without(Mark, l, order')
               /\ i' = i - 2 /\ j' = IF i' = 0 THEN j - 2 ELSE j - 1
            \/ /\ order[i].p2 = h /\ order[j].lcm = order[i].lcm
               /\ Without(order, i, order')
               /\ i' = i - 1 /\ j' = IF i' = 0 THEN j - 2 ELSE j - 1
<1>1. pc = "modify" /\ i > 0
      /\ UNCHANGED <<mode, lead, ecart, S, L, treated, B, rest, pairtest, pc>>
  BY DEF ModifyInner
<1>2. /\ order \in Seq(Pair) /\ Len(order) \in Nat
      /\ j \in 0 .. Len(order) /\ i \in 0 .. j /\ i < j
  BY <1>1, ModifyBasics
<1>3. i \in 1 .. j - 1 /\ j \in 1 .. Len(order) /\ i \in 1 .. Len(order) /\ i - 1 \in Nat
  BY <1>1, <1>2
<1> DEFINE same  == IsNew(order[i]) /\ order[j].lcm = order[i].lcm
           l     == isInPairsetL(i - 1, order[j].p1, order[i].p1)
           older == l > 0 /\ pDivisibleBy(lead[h], order[l].lcm)
<1>4. \/ i' = i - 1 /\ UNCHANGED order /\ j' = IF i = 1 THEN j - 1 ELSE j
      \/ /\ same /\ older
         /\ order' = RemoveAt(Mark, l)
         /\ i' = i - 2 /\ j' = IF i' = 0 THEN j - 2 ELSE j - 1
      \/ /\ same
         /\ order' = RemoveAt(order, i)
         /\ i' = i - 1 /\ j' = IF i' = 0 THEN j - 2 ELSE j - 1
  BY DEF ModifyInner, Mark
<1>5. CASE i' = i - 1 /\ UNCHANGED order /\ j' = IF i = 1 THEN j - 1 ELSE j
  BY <1>1, <1>2, <1>3, <1>5
<1>6. CASE /\ same /\ older
           /\ order' = RemoveAt(Mark, l)
           /\ i' = i - 2 /\ j' = IF i' = 0 THEN j - 2 ELSE j - 1
  <2>1. l \in 1 .. i - 1 /\ {order[l].p1, order[l].p2} = {order[j].p1, order[i].p1}
    <3>1. i - 1 \in Nat /\ isInPairsetL(i - 1, order[j].p1, order[i].p1) > 0
      BY <1>3, <1>6
    <3> QED
      BY <3>1, InPairset
  <2>2. order[i].p2 = h /\ order[j].lcm = order[i].lcm /\ pDivisibleBy(lead[h], order[l].lcm)
    BY <1>6 DEF IsNew
  <2> HIDE DEF l
  <2>3. l \in 1 .. Len(order)
    BY <1>2, <1>3, <2>1
  <2>4. Mark \in Seq(Pair) /\ Len(Mark) = Len(order)
    BY <1>2, <1>3, MarkIs
  <2>5. order' \in Seq(Pair) /\ Without(Mark, l, order')
    BY <1>6, <2>3, <2>4, RemoveAtIs DEF Without
  <2> QED
    BY <1>1, <1>3, <1>6, <2>1, <2>2, <2>5
<1>7. CASE /\ same
           /\ order' = RemoveAt(order, i)
           /\ i' = i - 1 /\ j' = IF i' = 0 THEN j - 2 ELSE j - 1
  <2>1. order' \in Seq(Pair) /\ Without(order, i, order')
    BY <1>2, <1>3, <1>7, RemoveAtIs DEF Without
  <2> QED
    BY <1>1, <1>3, <1>7, <2>1 DEF IsNew
<1> QED
  BY <1>4, <1>5, <1>6, <1>7

\* Marking a pair with h keeps what it is a pair of.
LEMMA MarkPairs ==
  ASSUME Shape, pc = "modify", i > 0, order[i].p2 = h
  PROVE  /\ i \in DOMAIN order
         /\ Mark \in Seq(Pair) /\ Len(Mark) = Len(order)
         /\ \A k \in 1 .. Len(order) : k # i => Mark[k] = order[k]
         /\ Mark[i].p2 = tail /\ Mark[i].p1 = order[i].p1 /\ Mark[i].lcm = order[i].lcm
         /\ New(order[i]) /\ Marked(Mark[i])
<1>1. /\ order \in Seq(Pair) /\ Len(order) \in Nat /\ DOMAIN order = 1 .. Len(order)
      /\ j \in 0 .. Len(order) /\ i \in 0 .. j
      /\ \A k \in DOMAIN order : Old(order[k]) \/ New(order[k]) \/ Marked(order[k])
      /\ h # tail /\ \A g \in Older : g # h /\ g # tail
  BY ModifyBasics
<1>2. i \in 1 .. Len(order)
  BY <1>1
<1>3. New(order[i])
  BY <1>1, <1>2 DEF Old, Marked
<1>4. /\ Mark \in Seq(Pair) /\ Len(Mark) = Len(order)
      /\ \A k \in 1 .. Len(order) : k # i => Mark[k] = order[k]
      /\ Mark[i].p2 = tail /\ Mark[i].p1 = order[i].p1 /\ Mark[i].lcm = order[i].lcm
  BY <1>1, <1>2, MarkIs
<1>5. Marked(Mark[i])
  BY <1>3, <1>4 DEF New, Marked
<1> QED
  BY <1>1, <1>2, <1>3, <1>4, <1>5

\* The outer loop over the array.
LEMMA ModifyOuterShape ==
  ASSUME Shape, ModifyOuter
  PROVE  Shape'
<1>1. /\ pc = "modify" /\ i = 0 /\ j > 1
      /\ UNCHANGED <<mode, lead, ecart, S, L, treated, B, rest, pairtest, pc>>
  BY DEF ModifyOuter
<1>2. /\ order \in Seq(Pair) /\ Len(order) \in Nat /\ DOMAIN order = 1 .. Len(order)
      /\ j \in 0 .. Len(order)
      /\ \A k \in DOMAIN order : order[k].p2 = tail => k <= j
      /\ \A k \in DOMAIN order : order[k] \in Pair
      /\ \A k \in DOMAIN order : Old(order[k]) \/ New(order[k]) \/ Marked(order[k])
      /\ h \in 1 .. h /\ DOMAIN lead = 1 .. h /\ h # tail /\ \A g \in Older : g # h /\ g # tail
  BY <1>1, ModifyBasics
<1>3. CASE IsNew(order[j])
  <2>1. i' = j - 1 /\ UNCHANGED <<order, j>> /\ order[j].p2 = h
    BY <1>3 DEF ModifyOuter, IsNew
  <2>2. i' \in 0 .. j /\ i' < j
    BY <1>1, <1>2, <2>1
  <2> QED
    BY <1>1, <1>2, <2>1, <2>2, ModifyAgain
<1>4. CASE ~IsNew(order[j])
  <2>1. /\ order' = IF order[j].p2 = tail THEN [order EXCEPT ![j].p2 = h] ELSE order
        /\ j' = j - 1 /\ UNCHANGED i
    BY <1>4 DEF ModifyOuter
  <2>2. j \in DOMAIN order /\ j' \in 0 .. Len(order) /\ i' \in 0 .. j' /\ ~(i' > 0)
    BY <1>1, <1>2, <2>1
  <2>3. /\ order' \in Seq(Pair) /\ Len(order') = Len(order)
        /\ \A k \in DOMAIN order : k # j => order'[k] = order[k]
        /\ order'[j].p2 # tail /\ (Old(order'[j]) \/ New(order'[j]))
    <3>1. CASE order[j].p2 = tail
      <4> DEFINE e == [order[j] EXCEPT !.p2 = h]
      <4>1. h \in Poly /\ order[j] \in Pair /\ Marked(order[j])
        <5>1. TypeOK
          BY DEF Shape
        <5>2. h \in Poly
          BY <1>2, <5>1, Basics
        <5> QED
          BY <1>2, <2>2, <3>1, <5>2 DEF Old, New
      <4>2. e \in Pair /\ e.p2 = h /\ e.p1 = order[j].p1 /\ e.lcm = order[j].lcm
        BY <4>1 DEF Pair
      <4>3. New(e) /\ e.p2 # tail
        BY <1>2, <4>1, <4>2 DEF Marked, New
      <4>4. order' = [order EXCEPT ![j] = e]
        BY <2>1, <3>1
      <4> HIDE DEF e
      <4>5. /\ order' \in Seq(Pair) /\ Len(order') = Len(order)
            /\ \A k \in 1 .. Len(order) : order'[k] = IF k = j THEN e ELSE order[k]
        BY <1>2, <2>2, <4>2, <4>4, ExceptSeq
      <4> QED
        BY <1>2, <2>2, <4>3, <4>5
    <3>2. CASE order[j].p2 # tail
      BY <1>2, <2>1, <2>2, <3>2 DEF Marked
    <3> QED
      BY <3>1, <3>2
  <2>4. DOMAIN order' = DOMAIN order
    BY <1>2, <2>3
  <2>5. \A k \in DOMAIN order' : Old(order'[k]) \/ New(order'[k]) \/ Marked(order'[k])
    BY <1>2, <2>3, <2>4
  <2>6. \A k \in DOMAIN order' : order'[k].p2 = tail => k <= j'
    <3>1. SUFFICES ASSUME NEW k \in DOMAIN order, order'[k].p2 = tail PROVE k <= j'
      BY <2>4
    <3>2. k # j /\ order[k].p2 = tail
      BY <2>3, <3>1
    <3>3. k <= j /\ k \in Int /\ j \in Int
      BY <1>2, <3>2
    <3> QED
      BY <2>1, <3>2, <3>3
  <2>7. j' \in 0 .. Len(order')
    BY <2>2, <2>3
  <2> QED
    BY <1>1, <2>2, <2>3, <2>5, <2>6, <2>7, ModifyAgain
<1> QED
  BY <1>3, <1>4

\* After a deletion the elements of the array are those it had, the last of
\* them one place before.
LEMMA WithoutAt ==
  ASSUME NEW s \in Seq(Pair), NEW t \in Seq(Pair), NEW n \in 1 .. Len(s), Without(s, n, t)
  PROVE  /\ Len(t) = Len(s) - 1 /\ DOMAIN t = 1 .. Len(s) - 1 /\ Len(s) \in Nat
         /\ \A k \in 1 .. Len(s) - 1 : k < n => t[k] = s[k]
         /\ \A k \in n + 1 .. Len(s) : t[k - 1] = s[k]
<1>1. /\ Len(s) \in Nat /\ Len(t) = Len(s) - 1 /\ DOMAIN t = 1 .. Len(s) - 1
      /\ \A k \in 1 .. Len(s) - 1 : t[k] = IF k < n THEN s[k] ELSE s[k + 1]
  BY DEF Without
<1>2. ASSUME NEW k \in n + 1 .. Len(s)
      PROVE  t[k - 1] = s[k]
  <2>1. k - 1 \in 1 .. Len(s) - 1 /\ ~(k - 1 < n) /\ (k - 1) + 1 = k
    BY <1>1
  <2> QED
    BY <1>1, <2>1
<1> QED
  BY <1>1, <1>2

\* The indices of the two loops after a deletion before the j-th pair.
LEMMA LoopsAgain ==
  ASSUME Shape, pc = "modify", i \in 1 .. j - 1, j \in 1 .. Len(order),
         NEW s \in Seq(Pair), NEW n \in 1 .. i, Len(s) = Len(order), s[j].p2 = h,
         \A k \in 1 .. Len(order) : s[k].p2 = tail => k < j,
         order' \in Seq(Pair), Without(s, n, order'),
         i' \in 0 .. i - 1, j' = IF i' = 0 THEN j - 2 ELSE j - 1
  PROVE  /\ j' \in 0 .. Len(order') /\ i' \in 0 .. j'
         /\ i' > 0 => i' < j' /\ order'[j'].p2 = h
         /\ \A k \in DOMAIN order' : order'[k].p2 = tail => k <= j'
<1>1. Len(order) \in Nat /\ j \in Int /\ i \in Int /\ 1 <= i /\ i < j /\ j <= Len(order)
      /\ 1 <= n /\ n <= i /\ n \in Int
  BY ModifyBasics
<1>2. n \in 1 .. Len(s)
  BY <1>1
<1>3. /\ Len(order') = Len(order) - 1 /\ DOMAIN order' = 1 .. Len(order) - 1
      /\ \A k \in 1 .. Len(order) - 1 : k < n => order'[k] = s[k]
      /\ \A k \in n + 1 .. Len(order) : order'[k - 1] = s[k]
  BY <1>2, WithoutAt
<1>4. order'[j - 1] = s[j]
  <2>1. j \in n + 1 .. Len(order)
    BY <1>1
  <2> QED
    BY <1>3, <2>1
<1> DEFINE x == i'
           y == j'
<1>5. x \in Int /\ 0 <= x /\ x <= i - 1 /\ y = IF x = 0 THEN j - 2 ELSE j - 1
  BY <1>1
<1> HIDE DEF x, y
<1>6. y \in 0 .. Len(order) - 1 /\ x \in 0 .. y /\ (x > 0 => x < y /\ y = j - 1)
  BY <1>1, <1>5
<1>7. j - 2 <= y /\ y \in Int
  BY <1>1, <1>5
<1>8. ASSUME NEW k \in DOMAIN order', order'[k].p2 = tail
      PROVE  k <= y
  <2>1. k \in Int /\ 1 <= k /\ k <= Len(order) - 1
    BY <1>1, <1>3
  <2>2. CASE k < n
    BY <1>1, <1>7, <2>1, <2>2
  <2>3. CASE ~(k < n)
    <3>1. k + 1 \in n + 1 .. Len(order) /\ (k + 1) - 1 = k /\ k + 1 \in 1 .. Len(order)
      BY <1>1, <2>1, <2>3
    <3>2. order'[k] = s[k + 1]
      BY <1>3, <3>1
    <3>3. k + 1 < j
      BY <1>8, <3>1, <3>2
    <3> QED
      BY <1>1, <1>7, <2>1, <3>3
  <2> QED
    BY <2>2, <2>3
<1> QED
  BY <1>3, <1>4, <1>6, <1>8 DEF x, y

\* The inner loop over the array.
LEMMA ModifyInnerShape ==
  ASSUME Shape, ModifyInner
  PROVE  Shape'
<1>1. /\ pc = "modify" /\ i \in 1 .. j - 1 /\ j \in 1 .. Len(order)
      /\ UNCHANGED <<mode, lead, ecart, S, L, treated, B, rest, pairtest, pc>>
      /\ order' \in Seq(Pair)
  BY ModifyInnerIs
<1>2. \/ order' = order /\ i' = i - 1 /\ j' = IF i = 1 THEN j - 1 ELSE j
      \/ /\ order[i].p2 = h /\ i' = i - 2 /\ j' = IF i' = 0 THEN j - 2 ELSE j - 1
         /\ \E l \in 1 .. i - 1 : Without(Mark, l, order')
      \/ /\ Without(order, i, order')
         /\ i' = i - 1 /\ j' = IF i' = 0 THEN j - 2 ELSE j - 1
  BY ModifyInnerIs
<1>3. /\ order \in Seq(Pair) /\ Len(order) \in Nat /\ DOMAIN order = 1 .. Len(order)
      /\ order[j].p2 = h
      /\ \A k \in DOMAIN order : order[k].p2 = tail => k <= j
      /\ \A k \in DOMAIN order : Old(order[k]) \/ New(order[k]) \/ Marked(order[k])
      /\ h # tail
  <2>1. i > 0
    BY <1>1
  <2> QED
    BY <1>1, <2>1, ModifyBasics
<1>4. i \in Nat /\ j \in Nat /\ i >= 1 /\ i < j /\ i \in 1 .. Len(order)
  BY <1>1, <1>3
<1>5. \A k \in 1 .. Len(order) : order[k].p2 = tail => k < j
  <2>1. SUFFICES ASSUME NEW k \in 1 .. Len(order), order[k].p2 = tail PROVE k < j
    OBVIOUS
  <2>2. k <= j /\ k # j /\ k \in Int
    BY <1>3, <2>1
  <2> QED
    BY <1>4, <2>2
<1>6. CASE order' = order /\ i' = i - 1 /\ j' = IF i = 1 THEN j - 1 ELSE j
  <2> DEFINE x == i'
             y == j'
  <2>1. x = i - 1 /\ y = IF i = 1 THEN j - 1 ELSE j
    BY <1>6
  <2> HIDE DEF x, y
  <2>2. y \in 0 .. Len(order) /\ x \in 0 .. y /\ (x > 0 => x < y /\ y = j) /\ j - 1 <= y /\ y \in Int
    BY <1>1, <1>3, <1>4, <2>1
  <2>3. \A k \in 1 .. Len(order) : order[k].p2 = tail => k <= y
    <3>1. SUFFICES ASSUME NEW k \in 1 .. Len(order), order[k].p2 = tail PROVE k <= y
      OBVIOUS
    <3>2. k < j /\ k \in Int
      BY <1>5, <3>1
    <3> QED
      BY <1>4, <2>2, <3>2
  <2>4. /\ j' \in 0 .. Len(order') /\ i' \in 0 .. j'
        /\ i' > 0 => i' < j' /\ order'[j'].p2 = h
        /\ \A k \in DOMAIN order' : order'[k].p2 = tail => k <= j'
    BY <1>3, <1>6, <2>2, <2>3 DEF x, y
  <2> QED
    BY <1>1, <1>3, <1>6, <2>4, ModifyAgain
<1>7. ASSUME NEW l \in 1 .. i - 1, order[i].p2 = h, Without(Mark, l, order'),
             i' = i - 2, j' = IF i' = 0 THEN j - 2 ELSE j - 1
      PROVE  Shape'
  <2>1. /\ Mark \in Seq(Pair) /\ Len(Mark) = Len(order)
        /\ \A k \in 1 .. Len(order) : k # i => Mark[k] = order[k]
        /\ Mark[i].p2 = tail /\ Marked(Mark[i])
    BY <1>1, <1>4, <1>7, MarkPairs
  <2>2. l \in 1 .. i /\ i > 1 /\ l \in 1 .. Len(Mark)
    BY <1>4, <2>1
  <2>3. Mark[j].p2 = h
    BY <1>1, <1>3, <1>4, <2>1
  <2>4. \A k \in 1 .. Len(order) : Mark[k].p2 = tail => k < j
    BY <1>4, <1>5, <2>1
  <2>5. i' \in 0 .. i - 1
    BY <1>4, <1>7, <2>2
  <2>6. /\ j' \in 0 .. Len(order') /\ i' \in 0 .. j'
        /\ i' > 0 => i' < j' /\ order'[j'].p2 = h
        /\ \A k \in DOMAIN order' : order'[k].p2 = tail => k <= j'
    BY <1>1, <1>7, <2>1, <2>2, <2>3, <2>4, <2>5, LoopsAgain
  <2>7. \A k \in DOMAIN order' : Old(order'[k]) \/ New(order'[k]) \/ Marked(order'[k])
    <3>1. \A k \in DOMAIN order' : \E m \in DOMAIN Mark : order'[k] = Mark[m]
      BY <1>1, <1>7, <2>1, <2>2, Removed
    <3>2. \A m \in DOMAIN Mark : Old(Mark[m]) \/ New(Mark[m]) \/ Marked(Mark[m])
      <4>1. DOMAIN Mark = 1 .. Len(order)
        BY <2>1
      <4> QED
        BY <1>3, <2>1, <4>1
    <3> QED
      BY <3>1, <3>2
  <2> QED
    BY <1>1, <2>6, <2>7, ModifyAgain
<1>8. CASE /\ Without(order, i, order')
           /\ i' = i - 1 /\ j' = IF i' = 0 THEN j - 2 ELSE j - 1
  <2>1. i' \in 0 .. i - 1 /\ i \in 1 .. i
    BY <1>4, <1>8
  <2>4. /\ Without(order, i, order') /\ order \in Seq(Pair) /\ order' \in Seq(Pair)
        /\ i \in 1 .. Len(order) /\ Len(order) = Len(order) /\ order[j].p2 = h
    BY <1>1, <1>3, <1>4, <1>8
  <2>5. j' = IF i' = 0 THEN j - 2 ELSE j - 1
    BY <1>8
  <2>2. /\ j' \in 0 .. Len(order') /\ i' \in 0 .. j'
        /\ i' > 0 => i' < j' /\ order'[j'].p2 = h
        /\ \A k \in DOMAIN order' : order'[k].p2 = tail => k <= j'
    BY <1>1, <1>5, <2>1, <2>4, <2>5, LoopsAgain
  <2>3. \A k \in DOMAIN order' : Old(order'[k]) \/ New(order'[k]) \/ Marked(order'[k])
    <3>1. \A k \in DOMAIN order' : \E m \in DOMAIN order : order'[k] = order[m]
      BY <2>4, Removed
    <3> QED
      BY <1>3, <3>1
  <2> QED
    BY <1>1, <2>2, <2>3, ModifyAgain
<1> QED
  BY <1>2, <1>6, <1>7, <1>8

\* The end of the outer loop: every pair of the array, unmarked.
LEMMA ModifyEndsIs ==
  ASSUME Shape, ModifyEnds
  PROVE  /\ L' \subseteq Pair /\ \A q \in L' : Old(q) \/ New(q)
         /\ \A k \in DOMAIN order :
              \E q \in L' : q.p1 = order[k].p1 /\ q.p2 = Second(order[k])
<1>1. pc = "modify" /\ i = 0 /\ j <= 1
  BY DEF ModifyEnds
<1>2. /\ order \in Seq(Pair) /\ Len(order) \in Nat /\ DOMAIN order = 1 .. Len(order)
      /\ j \in 0 .. Len(order)
      /\ \A k \in DOMAIN order : order[k].p2 = tail => k <= j
      /\ \A k \in DOMAIN order : order[k] \in Pair
      /\ \A k \in DOMAIN order : Old(order[k]) \/ New(order[k]) \/ Marked(order[k])
      /\ h \in 1 .. h /\ h # tail /\ \A g \in Older : g # h /\ g # tail
  BY <1>1, ModifyBasics
<1>3. \A k \in DOMAIN order : order[k].p2 = tail => k = 1
  BY <1>1, <1>2
<1> DEFINE o == IF order # <<>> /\ order[1].p2 = tail THEN [order EXCEPT ![1].p2 = h] ELSE order
<1>4. L' = Range(o)
  BY DEF ModifyEnds
<1>5. /\ DOMAIN o = DOMAIN order
      /\ \A k \in DOMAIN order : /\ o[k] \in Pair /\ (Old(o[k]) \/ New(o[k]))
                                 /\ o[k].p1 = order[k].p1 /\ o[k].p2 = Second(order[k])
  <2>1. CASE order # <<>> /\ order[1].p2 = tail
    <3> DEFINE e == [order[1] EXCEPT !.p2 = h]
    <3>1. 1 \in DOMAIN order
      BY <1>2, <2>1
    <3>2. order[1] \in Pair /\ Marked(order[1])
      BY <1>2, <2>1, <3>1 DEF Old, New
    <3>3. h \in Poly
      <4>1. TypeOK
        BY DEF Shape
      <4> QED
        BY <1>2, <4>1, Basics
    <3>4. e \in Pair /\ e.p2 = h /\ e.p1 = order[1].p1 /\ e.lcm = order[1].lcm
      BY <3>2, <3>3 DEF Pair
    <3>5. New(e)
      BY <3>2, <3>4 DEF Marked, New
    <3>6. o = [order EXCEPT ![1] = e]
      BY <2>1
    <3> HIDE DEF e, o
    <3>7. DOMAIN o = DOMAIN order /\ o[1] = e /\ \A k \in DOMAIN order : k # 1 => o[k] = order[k]
      BY <1>2, <3>1, <3>6
    <3>8. ASSUME NEW k \in DOMAIN order, k # 1
          PROVE  /\ o[k] = order[k] /\ order[k] \in Pair /\ order[k].p2 # tail
                 /\ Old(order[k]) \/ New(order[k])
      BY <1>2, <1>3, <3>7, <3>8 DEF Marked
    <3> QED
      BY <2>1, <3>4, <3>5, <3>7, <3>8 DEF Second
  <2>2. CASE ~(order # <<>> /\ order[1].p2 = tail)
    <3>1. o = order
      BY <2>2
    <3> HIDE DEF o
    <3>2. \A k \in DOMAIN order : order[k].p2 # tail
      <4>1. SUFFICES ASSUME NEW k \in DOMAIN order, order[k].p2 = tail PROVE FALSE
        OBVIOUS
      <4>2. k = 1 /\ order # <<>>
        BY <1>2, <1>3, <4>1
      <4> QED
        BY <2>2, <4>1, <4>2
    <3> QED
      BY <1>2, <3>1, <3>2 DEF Second, Marked
  <2> QED
    BY <2>1, <2>2
<1> HIDE DEF o
<1> QED
  BY <1>4, <1>5 DEF Range

\* The end of the two loops.
LEMMA ModifyEndsShape ==
  ASSUME Shape, ModifyEnds
  PROVE  Shape'
<1>1. TypeOK /\ LoopInv /\ PairsInv /\ BasisInv
  BY DEF Shape
<1>2. /\ pc = "modify" /\ i = 0 /\ j <= 1 /\ order' = <<>> /\ j' = 0 /\ pc' = "enter"
      /\ UNCHANGED <<mode, lead, ecart, S, treated, B, rest, pairtest, i>>
  BY DEF ModifyEnds
<1>3. h' = h /\ Older' = Older
  BY <1>2, SameLead
<1>4. B = <<>> /\ rest = {} /\ pairtest = {} /\ h \in 1 .. h /\ DOMAIN lead = 1 .. h
  BY <1>2, ModifyBasics
<1>5. L' \subseteq Pair /\ \A q \in L' : Old(q) \/ New(q)
  BY ModifyEndsIs
<1>6. /\ \A k \in DOMAIN <<>> : FALSE
      /\ Len(<<>>) = 0 /\ <<>> \in Seq(Pair)
  OBVIOUS
<1>7. TypeOK'
  <2>1. Len(B') + Len(order') = 0
    BY <1>2, <1>4, <1>6
  <2>2. j' \in 0 .. Len(B') + Len(order') /\ i' \in -1 .. j'
    BY <1>2, <2>1
  <2> QED
    BY <1>1, <1>2, <1>5, <1>6, <2>2 DEF TypeOK
<1>8. LoopInv'
  BY <1>2, <1>4 DEF LoopInv
<1>9. PairsInv'
  <2>1. ~Pairing'
    BY <1>2 DEF Pairing
  <2>2. Older \subseteq DOMAIN lead /\ h \in DOMAIN lead
    BY <1>1, <1>4, Basics
  <2>3. \A q \in L' : /\ q.p1 \in DOMAIN lead /\ q.p2 \in DOMAIN lead
                      /\ q.lcm = pLcm(lead[q.p1], lead[q.p2])
    BY <1>5, <2>2 DEF Old, New
  <2> QED
    BY <1>2, <1>4, <1>6, <2>1, <2>3 DEF PairsInv
<1>10. BasisInv'
  BY <1>1, <1>2, <1>3 DEF BasisInv
<1> QED
  BY <1>7, <1>8, <1>9, <1>10 DEF Shape

\* The polynomial enters S.
LEMMA EnterSShape ==
  ASSUME Shape, enterS
  PROVE  Shape'
<1>1. TypeOK /\ LoopInv /\ PairsInv /\ BasisInv
  BY DEF Shape
<1>2. /\ pc = "enter" /\ pc' = "idle"
      /\ S' = {s \in S : ~pDivisibleBy(lead[h], lead[s])} \union {h}
      /\ UNCHANGED <<mode, lead, ecart, L, treated, B, rest, pairtest, order, j, i>>
  BY DEF enterS, work
<1>3. h' = h /\ Older' = Older /\ \A q : (Old(q)' <=> Old(q)) /\ (New(q)' <=> New(q))
      /\ (Marked(q)' <=> Marked(q))
  BY <1>2, SameLead
<1>4. /\ h \in Nat /\ DOMAIN lead = 1 .. h /\ Older \subseteq 1 .. h
      /\ \A g \in 1 .. h : g = h \/ g \in Older
      /\ \A g \in 1 .. h : lead[g] \in Monomial
  BY <1>1, Basics
<1>5. h # 0
  BY <1>1, <1>2 DEF h, TypeOK, BasisInv
<1>6. h \in DOMAIN lead
  BY <1>4, <1>5
<1>7. TypeOK'
  <2>1. S' \subseteq DOMAIN lead
    BY <1>1, <1>2, <1>6 DEF TypeOK
  <2> QED
    BY <1>1, <1>2, <2>1 DEF TypeOK
<1>8. LoopInv'
  BY <1>1, <1>2 DEF LoopInv
<1>9. PairsInv'
  BY <1>1, <1>2, <1>3 DEF PairsInv, Pairing
<1>10. BasisInv'
  <2>1. /\ S \subseteq Older /\ \A g \in Older : \E s \in S : pDivisibleBy(lead[s], lead[g])
        /\ \A s, t \in S : pDivisibleBy(lead[s], lead[t]) => s = t
        /\ \A s \in S : ~pDivisibleBy(lead[s], lead[h])
        /\ rest = {} /\ pairtest = {}
    BY <1>1, <1>2 DEF BasisInv, LoopInv
  <2>2. ASSUME NEW g \in DOMAIN lead
        PROVE  \E s \in S' : pDivisibleBy(lead[s], lead[g])
    <3>1. CASE g = h
      BY <1>2, <1>4, <1>6, <3>1, DividesIs
    <3>2. CASE g \in Older
      <4>1. PICK s \in S : pDivisibleBy(lead[s], lead[g])
        BY <2>1, <3>2
      <4>2. lead[s] \in Monomial /\ lead[g] \in Monomial /\ lead[h] \in Monomial
        BY <1>4, <1>6, <2>1
      <4>3. CASE s \in S'
        BY <4>1, <4>3
      <4>4. CASE s \notin S'
        <5>1. pDivisibleBy(lead[h], lead[s])
          BY <1>2, <4>4
        <5> QED
          BY <1>2, <4>1, <4>2, <5>1, DividesIs
      <4> QED
        BY <4>3, <4>4
    <3> QED
      BY <1>4, <3>1, <3>2
  <2>3. \A s, t \in S' : pDivisibleBy(lead[s], lead[t]) => s = t
    BY <1>2, <2>1
  <2>4. S' \subseteq DOMAIN lead
    BY <1>2, <1>4, <1>6, <2>1
  <2> QED
    BY <1>2, <2>1, <2>2, <2>3, <2>4 DEF BasisInv
<1> QED
  BY <1>7, <1>8, <1>9, <1>10 DEF Shape

\* Nothing happens.
LEMMA SameShape ==
  ASSUME Shape, UNCHANGED vars
  PROVE  Shape'
<1>1. UNCHANGED <<mode, lead, ecart, S, L, treated, B, rest, pairtest, order, j, i, pc>>
  BY DEF vars, work
<1>2. h' = h /\ Older' = Older /\ \A q : (Old(q)' <=> Old(q)) /\ (New(q)' <=> New(q))
      /\ (Marked(q)' <=> Marked(q))
  BY <1>1, SameLead
<1> QED
  BY <1>1, <1>2 DEF Shape, TypeOK, LoopInv, PairsInv, Pairing, BasisInv

\* Every step keeps what the invariant says of the variables.
LEMMA ShapeStep ==
  ASSUME Inv, [Next]_vars
  PROVE  Shape'
<1>1. Shape
  BY DEF Inv, Shape
<1>2. CASE InputReduced
  BY <1>2, NewPolyShape DEF InputReduced
<1>3. CASE PairReduced
  <2>1. L' \subseteq L /\ pc = "idle" /\ UNCHANGED <<mode, S, B, pairtest, order, j, i>>
    BY <1>3 DEF PairReduced
  <2>2. CASE NewPoly
    BY <2>1, <2>2, NewPolyShape
  <2>3. CASE UNCHANGED <<lead, ecart, rest, pc>>
    BY <1>3, <2>3, PairReducedShape
  <2> QED
    BY <1>3, <2>2, <2>3 DEF PairReduced
<1>4. CASE initenterpairs
  BY <1>4, EnterPairsShape
<1>5. CASE chainCrit
  BY <1>5, ChainCritShape
<1>6. CASE BestStep
  BY <1>6, BestStepShape
<1>7. CASE BestNext
  BY <1>7, BestNextShape
<1>8. CASE BestEnds
  BY <1>8, BestEndsShape
<1>9. CASE kMergeBintoL
  BY <1>9, MergeShape
<1>10. CASE ModifyOuter
  BY <1>1, <1>10, ModifyOuterShape
<1>11. CASE ModifyInner
  BY <1>1, <1>11, ModifyInnerShape
<1>12. CASE ModifyEnds
  BY <1>1, <1>12, ModifyEndsShape
<1>13. CASE enterS
  BY <1>1, <1>13, EnterSShape
<1>14. CASE UNCHANGED vars
  BY <1>1, <1>14, SameShape
<1> QED
  BY <1>2, <1>3, <1>4, <1>5, <1>6, <1>7, <1>8, <1>9, <1>10, <1>11, <1>12, <1>13, <1>14
     DEF Next, Finished

-----------------------------------------------------------------------------
(* The pairs cover the polynomials, after each action.                     *)
\* What an edge between two older polynomials, or from one to h, comes from.
LEMMA OldEdge ==
  ASSUME Shape, Pairing, NEW x \in Older, NEW y \in Older, {x, y} \in Edges
  PROVE  \/ {x, y} \in treated
         \/ \E q \in L : {x, y} = {q.p1, q.p2} /\ Old(q)
         \/ \E k \in DOMAIN order : {x, y} = {order[k].p1, order[k].p2} /\ Old(order[k])
<1>1. TypeOK /\ LoopInv /\ PairsInv /\ BasisInv
  BY DEF Shape
<1>2. x # h /\ y # h /\ \A g \in Older : g # tail
  BY <1>1, Basics
<1>3. \/ {x, y} \in treated
      \/ \E q \in L : {x, y} = {q.p1, q.p2}
      \/ \E k \in DOMAIN B : {x, y} = {B[k].p1, Second(B[k])}
      \/ \E k \in DOMAIN order : {x, y} = {order[k].p1, Second(order[k])}
      \/ \E s \in rest : {x, y} = {s, h}
  BY DEF Edges, Links, Range
<1>4. \A q \in L : Old(q)
  BY <1>1 DEF PairsInv
<1>5. \A k \in DOMAIN B : Second(B[k]) = h
  BY <1>1 DEF PairsInv, New, Second
<1>6. ASSUME NEW k \in DOMAIN order, {x, y} = {order[k].p1, Second(order[k])}
      PROVE  {x, y} = {order[k].p1, order[k].p2} /\ Old(order[k])
  <2>1. Old(order[k]) \/ New(order[k]) \/ Marked(order[k])
    BY <1>1 DEF PairsInv
  <2>2. Second(order[k]) # h
    BY <1>2, <1>6
  <2>3. Old(order[k])
    BY <2>1, <2>2 DEF New, Marked, Second
  <2> QED
    BY <1>2, <1>6, <2>3 DEF Old, Second
<1> QED
  BY <1>2, <1>3, <1>4, <1>5, <1>6

\* And one with h.
LEMMA NewEdge ==
  ASSUME Shape, Pairing, NEW t \in Older, {t, h} \in Edges
  PROVE  \/ {t, h} \in treated \/ t \in rest
         \/ \E k \in DOMAIN B : B[k].p1 = t
         \/ \E k \in DOMAIN order : order[k].p1 = t /\ Second(order[k]) = h
<1>1. TypeOK /\ LoopInv /\ PairsInv /\ BasisInv
  BY DEF Shape
<1>2. t # h /\ h \notin Older /\ \A g \in Older : g # tail
  BY <1>1, Basics
<1>3. \/ {t, h} \in treated
      \/ \E q \in L : {t, h} = {q.p1, q.p2}
      \/ \E k \in DOMAIN B : {t, h} = {B[k].p1, Second(B[k])}
      \/ \E k \in DOMAIN order : {t, h} = {order[k].p1, Second(order[k])}
      \/ \E s \in rest : {t, h} = {s, h}
  BY DEF Edges, Links, Range
<1>4. \A q \in L : q.p1 # h /\ q.p2 # h
  BY <1>1, <1>2 DEF PairsInv, Old
<1>5. \A k \in DOMAIN B : Second(B[k]) = h
  BY <1>1 DEF PairsInv, New, Second
<1>6. \A k \in DOMAIN order : order[k].p1 # h
  BY <1>1, <1>2 DEF PairsInv, Old, New, Marked
<1> QED
  BY <1>2, <1>3, <1>4, <1>5, <1>6

\* Each pair at hand is an edge, ...
LEMMA EdgesNow ==
  /\ \A e \in treated : e \in Edges
  /\ \A q \in L : {q.p1, q.p2} \in Edges
  /\ \A k \in DOMAIN B : {B[k].p1, Second(B[k])} \in Edges
  /\ \A k \in DOMAIN order : {order[k].p1, Second(order[k])} \in Edges
  /\ \A s \in rest : {s, h} \in Edges
BY DEF Edges, Links, Range

\* ... also after a step that lets no polynomial enter.
LEMMA EdgesNext ==
  ASSUME lead' = lead
  PROVE  /\ \A e \in treated' : e \in Edges'
         /\ \A q \in L' : {q.p1, q.p2} \in Edges'
         /\ \A k \in DOMAIN B' : {B'[k].p1, Second(B'[k])} \in Edges'
         /\ \A k \in DOMAIN order' : {order'[k].p1, Second(order'[k])} \in Edges'
         /\ \A s \in rest' : {s, h} \in Edges'
<1>1. h' = h /\ \A q : Second(q)' = Second(q)
  BY SameLead
<1>2. Edges' = Links' \union {{q.p1, Second(q)'} : q \in Range(B') \union Range(order')}
                      \union {{s, h'} : s \in rest'}
  BY DEF Edges
<1>3. Links' = treated' \union {{q.p1, q.p2} : q \in L'}
  BY DEF Links
<1>4. ASSUME NEW q \in Range(B') \union Range(order')
      PROVE  {q.p1, Second(q)} \in Edges'
  <2>1. {q.p1, Second(q)'} \in Edges'
    BY <1>2
  <2> QED
    BY <1>1, <2>1
<1> QED
  BY <1>1, <1>2, <1>3, <1>4 DEF Range

\* A pair that is replaced stays so.
LEMMA ReplacedKept ==
  ASSUME lead' = lead, Fixed \subseteq Fixed', NEW x, NEW y, Replaced(x, y)
  PROVE  Replaced(x, y)'
<1>1. h' = h
  BY SameLead
<1> QED
  BY <1>1 DEF Replaced

\* And is so either way round.
LEMMA ReplacedSym ==
  ASSUME TypeOK, NEW x \in Older, NEW y \in Older, NEW p \in Older, NEW q \in Older,
         {x, y} = {p, q}, Replaced(p, q)
  PROVE  Replaced(x, y)
<1>1. lead[x] \in Monomial /\ lead[y] \in Monomial
  BY Basics
<1>2. pLcm(lead[x], lead[y]) = pLcm(lead[y], lead[x])
  BY <1>1, LcmIs
<1>3. (p = x /\ q = y) \/ (p = y /\ q = x)
  OBVIOUS
<1> QED
  BY <1>2, <1>3 DEF Replaced

\* The covering is kept if old pairs are, up to those h replaces, and if for
\* each pair with h that goes there is one of a polynomial that divides its lcm.
LEMMA KeepCover ==
  ASSUME TypeOK, OldInv, NewInv, Pairing, Pairing', lead' = lead,
         \A x, y \in Older : {x, y} \in Edges \/ Replaced(x, y) =>
                             {x, y} \in Edges' \/ Replaced(x, y)',
         \A t \in Older : {t, h} \in Edges =>
           \E u \in Older : /\ {u, h} \in Edges'
                            /\ pDivisibleBy(lead[u], pLcm(lead[t], lead[h]))
  PROVE  OldInv' /\ NewInv' /\ CoverInv'
<1>1. h' = h /\ Older' = Older
  BY SameLead
<1>2. OldInv'
  <2>1. ASSUME NEW a \in Older, NEW b \in Older, NEW X \in SUBSET Older, a \in X, b \notin X
        PROVE  \E x \in X, y \in Older \ X :
                 /\ pDivisibleBy(lead[x], pLcm(lead[a], lead[b]))
                 /\ pDivisibleBy(lead[y], pLcm(lead[a], lead[b]))
                 /\ {x, y} \in Edges' \/ Replaced(x, y)'
    <3>1. PICK x \in X, y \in Older \ X :
                 /\ pDivisibleBy(lead[x], pLcm(lead[a], lead[b]))
                 /\ pDivisibleBy(lead[y], pLcm(lead[a], lead[b]))
                 /\ {x, y} \in Edges \/ Replaced(x, y)
      BY <2>1 DEF OldInv
    <3>2. {x, y} \in Edges' \/ Replaced(x, y)'
      BY <3>1
    <3> QED
      BY <3>1, <3>2
  <2>2. SUFFICES ASSUME NEW a \in Older', NEW b \in Older', NEW X \in SUBSET Older',
                        a \in X, b \notin X
                 PROVE  \E x \in X, y \in Older' \ X :
                          /\ pDivisibleBy(lead'[x], pLcm(lead'[a], lead'[b]))
                          /\ pDivisibleBy(lead'[y], pLcm(lead'[a], lead'[b]))
                          /\ {x, y} \in Edges' \/ Replaced(x, y)'
    BY DEF OldInv
  <2> QED
    BY <1>1, <2>1, <2>2
<1>3. NewInv'
  <2>1. ASSUME NEW g \in Older
        PROVE  \E u \in Older : /\ {u, h} \in Edges'
                                /\ pDivisibleBy(lead[u], pLcm(lead[g], lead[h]))
    <3>1. PICK t \in Older : {t, h} \in Edges /\ pDivisibleBy(lead[t], pLcm(lead[g], lead[h]))
      BY DEF NewInv
    <3>2. PICK u \in Older : /\ {u, h} \in Edges'
                             /\ pDivisibleBy(lead[u], pLcm(lead[t], lead[h]))
      BY <3>1
    <3>3. /\ lead[g] \in Monomial /\ lead[t] \in Monomial /\ lead[u] \in Monomial
          /\ lead[h] \in Monomial
      <4>1. h \in Nat /\ Older \subseteq 1 .. h /\ \A x \in 1 .. h : lead[x] \in Monomial
        BY Basics
      <4>2. g \in 1 .. h /\ h \in 1 .. h
        BY <4>1
      <4> QED
        BY <4>1, <4>2
    <3>4. pDivisibleBy(lead[u], pLcm(lead[g], lead[h]))
      <4>1. /\ pLcm(lead[g], lead[h]) \in Monomial
            /\ pDivisibleBy(lead[h], pLcm(lead[g], lead[h]))
            /\ pLcm(lead[t], lead[h]) \in Monomial
        BY <3>3, LcmIs
      <4>2. pDivisibleBy(pLcm(lead[t], lead[h]), pLcm(lead[g], lead[h]))
        BY <3>1, <3>3, <4>1, LcmIs
      <4> QED
        BY <3>2, <3>3, <4>1, <4>2, DividesIs
    <3> QED
      BY <3>2, <3>4
  <2> QED
    BY <1>1, <2>1 DEF NewInv
<1>4. CoverInv'
  BY DEF CoverInv
<1> QED
  BY <1>2, <1>3, <1>4

\* A step that takes no pair away.
LEMMA GrowCover ==
  ASSUME TypeOK, OldInv, NewInv, Pairing, Pairing', lead' = lead,
         Edges \subseteq Edges', Fixed \subseteq Fixed'
  PROVE  OldInv' /\ NewInv' /\ CoverInv'
<1>1. \A x, y \in Older : {x, y} \in Edges \/ Replaced(x, y) =>
                          {x, y} \in Edges' \/ Replaced(x, y)'
  BY ReplacedKept
<1>2. ASSUME NEW t \in Older, {t, h} \in Edges
      PROVE  {t, h} \in Edges' /\ pDivisibleBy(lead[t], pLcm(lead[t], lead[h]))
  <2>1. h \in Nat /\ Older \subseteq 1 .. h /\ \A x \in 1 .. h : lead[x] \in Monomial
    BY Basics
  <2>2. t \in 1 .. h /\ h \in 1 .. h
    BY <2>1
  <2> QED
    BY <1>2, <2>1, <2>2, LcmIs
<1>3. \A t \in Older : {t, h} \in Edges =>
        \E u \in Older : /\ {u, h} \in Edges'
                         /\ pDivisibleBy(lead[u], pLcm(lead[t], lead[h]))
  BY <1>2
<1> QED
  BY <1>1, <1>3, KeepCover

\* More links cover no less.
LEMMA CoveredMore ==
  ASSUME NEW M, NEW D, NEW E, NEW F, CoveredBy(M, D, E),
         \A x, y \in D : {x, y} \in E => {x, y} \in F
  PROVE  CoveredBy(M, D, F)
<1>1. SUFFICES ASSUME NEW a \in D, NEW b \in D, NEW X \in SUBSET D, a \in X, b \notin X
               PROVE  \E x \in X, y \in D \ X :
                        /\ pDivisibleBy(M[x], pLcm(M[a], M[b]))
                        /\ pDivisibleBy(M[y], pLcm(M[a], M[b]))
                        /\ {x, y} \in F
  BY DEF CoveredBy
<1>2. PICK x \in X, y \in D \ X :
        /\ pDivisibleBy(M[x], pLcm(M[a], M[b]))
        /\ pDivisibleBy(M[y], pLcm(M[a], M[b]))
        /\ {x, y} \in E
  BY <1>1 DEF CoveredBy
<1> QED
  BY <1>2

\* When the criteria are done, all pairs at hand are in L.
LEMMA EndCover ==
  ASSUME Shape, OldInv, NewInv, Pairing, ~Pairing', lead' = lead,
         \A x, y \in DOMAIN lead : {x, y} \in Edges => {x, y} \in Links'
  PROVE  OldInv' /\ NewInv' /\ CoverInv'
<1>1. TypeOK /\ PairsInv /\ BasisInv
  BY DEF Shape
<1>2. /\ h \in Nat /\ DOMAIN lead = 1 .. h /\ Older = 1 .. h - 1 /\ Older \subseteq 1 .. h
      /\ \A g \in 1 .. h : lead[g] \in Monomial
  BY <1>1, Basics DEF Older
<1>3. h \in Nat \ {0}
  <2>1. lead # <<>>
    BY <1>1 DEF BasisInv, Pairing
  <2> QED
    BY <1>1, <1>2, <2>1 DEF h, TypeOK
<1>4. lead \in [1 .. h -> Monomial]
  BY <1>1, <1>2 DEF TypeOK
<1>5. \A f \in Fixed : {f, h} \in Edges
  <2>1. SUFFICES ASSUME NEW f \in Fixed PROVE {f, h} \in Edges
    OBVIOUS
  <2>2. PICK k \in DOMAIN order : Kept(k) /\ f = order[k].p1
    BY DEF Fixed
  <2>3. Second(order[k]) = h
    BY <2>2 DEF Kept, Second
  <2>4. {order[k].p1, Second(order[k])} \in Edges
    BY EdgesNow
  <2> QED
    BY <2>2, <2>3, <2>4
<1>6. \A a, b \in 1 .. h - 1 : \A X \in SUBSET (1 .. h - 1) :
        a \in X /\ b \notin X =>
          \E x \in X, y \in (1 .. h - 1) \ X :
            /\ pDivisibleBy(lead[x], pLcm(lead[a], lead[b]))
            /\ pDivisibleBy(lead[y], pLcm(lead[a], lead[b]))
            /\ {x, y} \in Edges \/ Chain(lead, h, Fixed, x, y)
  <2>1. \A x, y : Replaced(x, y) => Chain(lead, h, Fixed, x, y)
    BY DEF Replaced, Chain
  <2>2. \A a, b \in Older : \A X \in SUBSET Older :
          a \in X /\ b \notin X =>
            \E x \in X, y \in Older \ X :
              /\ pDivisibleBy(lead[x], pLcm(lead[a], lead[b]))
              /\ pDivisibleBy(lead[y], pLcm(lead[a], lead[b]))
              /\ {x, y} \in Edges \/ Chain(lead, h, Fixed, x, y)
    <3>1. SUFFICES ASSUME NEW a \in Older, NEW b \in Older, NEW X \in SUBSET Older,
                          a \in X, b \notin X
                   PROVE  \E x \in X, y \in Older \ X :
                            /\ pDivisibleBy(lead[x], pLcm(lead[a], lead[b]))
                            /\ pDivisibleBy(lead[y], pLcm(lead[a], lead[b]))
                            /\ {x, y} \in Edges \/ Chain(lead, h, Fixed, x, y)
      OBVIOUS
    <3>2. PICK x \in X, y \in Older \ X :
            /\ pDivisibleBy(lead[x], pLcm(lead[a], lead[b]))
            /\ pDivisibleBy(lead[y], pLcm(lead[a], lead[b]))
            /\ {x, y} \in Edges \/ Replaced(x, y)
      BY <3>1 DEF OldInv
    <3> QED
      BY <2>1, <3>2
  <2> QED
    BY <2>2 DEF Older
<1>7. \A g \in 1 .. h - 1 : \E t \in 1 .. h - 1 :
        {t, h} \in Edges /\ pDivisibleBy(lead[t], pLcm(lead[g], lead[h]))
  BY <1>2 DEF NewInv
<1>8. CoveredBy(lead, 1 .. h, Edges)
  BY <1>3, <1>4, <1>5, <1>6, <1>7, Covering
<1>9. CoverInv'
  <2>1. \A x, y \in 1 .. h : {x, y} \in Edges => {x, y} \in Links'
    BY <1>2
  <2>2. CoveredBy(lead, 1 .. h, Links')
    BY <1>8, <2>1, CoveredMore
  <2>3. CoveredBy(lead, DOMAIN lead, Links')
    BY <1>2, <2>2
  <2> QED
    BY <2>3 DEF CoverInv
<1>10. OldInv' /\ NewInv'
  BY DEF OldInv, NewInv
<1> QED
  BY <1>9, <1>10

\* A new polynomial: the pairs there were cover the older ones, and the pairs
\* with the basis are to be entered.
LEMMA NewPolyCover ==
  ASSUME Inv, pc = "idle", NewPoly, Links \subseteq Links'
  PROVE  OldInv' /\ NewInv' /\ CoverInv'
<1>1. TypeOK /\ BasisInv /\ CoverInv
  BY DEF Inv
<1>2. /\ h' = h + 1 /\ Older' = 1 .. h /\ \A g \in 1 .. h : lead'[g] = lead[g]
      /\ lead'[h + 1] \in Monomial /\ rest' = S /\ pc' = "pairs"
  BY <1>1, AppendLead
<1>3. DOMAIN lead = 1 .. h /\ \A g \in 1 .. h : lead[g] \in Monomial
  BY <1>1, Basics
<1>4. \A e \in Links' : e \in Edges'
  BY DEF Edges
<1>5. \A s \in S : {s, h + 1} \in Edges'
  <2>1. \A s \in rest' : {s, h'} \in Edges'
    BY DEF Edges
  <2> QED
    BY <1>2, <2>1
<1>6. OldInv'
  <2>1. ASSUME NEW a \in 1 .. h, NEW b \in 1 .. h, NEW X \in SUBSET (1 .. h), a \in X, b \notin X
        PROVE  \E x \in X, y \in (1 .. h) \ X :
                 /\ pDivisibleBy(lead'[x], pLcm(lead'[a], lead'[b]))
                 /\ pDivisibleBy(lead'[y], pLcm(lead'[a], lead'[b]))
                 /\ {x, y} \in Edges'
    <3>1. PICK x \in X, y \in (1 .. h) \ X :
            /\ pDivisibleBy(lead[x], pLcm(lead[a], lead[b]))
            /\ pDivisibleBy(lead[y], pLcm(lead[a], lead[b]))
            /\ {x, y} \in Links
      <4>1. CoveredBy(lead, 1 .. h, Links)
        BY <1>1, <1>3 DEF CoverInv, Pairing
      <4> QED
        BY <2>1, <4>1 DEF CoveredBy
    <3>2. /\ lead'[x] = lead[x] /\ lead'[y] = lead[y]
          /\ lead'[a] = lead[a] /\ lead'[b] = lead[b]
      BY <1>2
    <3>3. {x, y} \in Edges'
      BY <1>4, <3>1
    <3> QED
      BY <3>1, <3>2, <3>3
  <2>2. SUFFICES ASSUME NEW a \in Older', NEW b \in Older', NEW X \in SUBSET Older',
                        a \in X, b \notin X
                 PROVE  \E x \in X, y \in Older' \ X :
                          /\ pDivisibleBy(lead'[x], pLcm(lead'[a], lead'[b]))
                          /\ pDivisibleBy(lead'[y], pLcm(lead'[a], lead'[b]))
                          /\ {x, y} \in Edges' \/ Replaced(x, y)'
    BY DEF OldInv
  <2> QED
    BY <1>2, <2>1, <2>2
<1>7. NewInv'
  <2>1. ASSUME NEW g \in 1 .. h
        PROVE  \E t \in 1 .. h : /\ {t, h + 1} \in Edges'
                                 /\ pDivisibleBy(lead'[t], pLcm(lead'[g], lead'[h + 1]))
    <3>1. PICK s \in S : pDivisibleBy(lead[s], lead[g])
      BY <1>1, <1>3 DEF BasisInv
    <3>2. s \in 1 .. h
      BY <1>1, <1>3 DEF TypeOK
    <3>3. /\ pLcm(lead[g], lead'[h + 1]) \in Monomial
          /\ pDivisibleBy(lead[g], pLcm(lead[g], lead'[h + 1]))
      BY <1>2, <1>3, LcmIs
    <3>4. pDivisibleBy(lead[s], pLcm(lead[g], lead'[h + 1]))
      BY <1>3, <3>1, <3>2, <3>3, DividesIs
    <3> QED
      BY <1>2, <1>5, <3>2, <3>4
  <2> QED
    BY <1>2, <2>1 DEF NewInv
<1>8. CoverInv'
  BY <1>2 DEF CoverInv, Pairing
<1> QED
  BY <1>6, <1>7, <1>8

\* Outside the pairing nothing but the pairs that are done with changes.
LEMMA IdleCover ==
  ASSUME Inv, ~Pairing, ~Pairing', lead' = lead, Links \subseteq Links'
  PROVE  OldInv' /\ NewInv' /\ CoverInv'
<1>1. CoverInv
  BY DEF Inv
<1>2. CoveredBy(lead, DOMAIN lead, Links')
  BY <1>1, CoveredMore DEF CoverInv
<1> QED
  BY <1>2 DEF CoverInv, OldInv, NewInv

\* What the criteria take from B goes by a pair whose lcm divides its own.
LEMMA EnterPairsCover ==
  ASSUME Inv, initenterpairs
  PROVE  OldInv' /\ NewInv' /\ CoverInv'
<1>1. TypeOK /\ LoopInv /\ PairsInv /\ BasisInv /\ OldInv /\ NewInv /\ Shape
  BY DEF Inv, Shape
<1>2. PICK s \in rest : enterOnePairNormal(s) /\ rest' = rest \ {s}
  BY DEF initenterpairs
<1>3. pc = "pairs" /\ UNCHANGED <<mode, lead, ecart, S, L, order, j, i, pc>>
  BY DEF initenterpairs
<1>4. s \in Older
  BY <1>1, <1>2, <1>3 DEF BasisInv
<1>5. h' = h /\ Older' = Older
  BY <1>3, SameLead
<1>6. order = <<>> /\ Pairing /\ Pairing'
  BY <1>1, <1>3 DEF LoopInv, Pairing
<1>7. /\ h \in 1 .. h /\ Older \subseteq 1 .. h /\ \A g \in 1 .. h : lead[g] \in Monomial
      /\ h \notin Older
  <2>1. h \in Nat /\ Older \subseteq 1 .. h /\ \A g \in 1 .. h : lead[g] \in Monomial
    BY <1>1, Basics
  <2> QED
    BY <1>1, <1>4, <2>1, Basics
<1> DEFINE m == pLcm(lead[h], lead[s])
           q(ec) == [p1 |-> s, p2 |-> h, lcm |-> m, ecart |-> ec]
<1>8. /\ m \in Monomial /\ m = pLcm(lead[s], lead[h]) /\ pDivisibleBy(lead[s], m)
      /\ \A a \in Monomial : pDivisibleBy(a, m) /\ a = lead[s] => pDivisibleBy(lead[s], m)
  BY <1>4, <1>7, LcmIs
<1>9. /\ \A e \in treated' : e \in Edges'
      /\ \A p \in L' : {p.p1, p.p2} \in Edges'
      /\ \A k \in DOMAIN B' : {B'[k].p1, Second(B'[k])} \in Edges'
      /\ \A r \in rest' : {r, h} \in Edges'
  BY <1>3, EdgesNext
<1>10. \A k \in DOMAIN B : /\ B[k].p1 \in Older /\ Second(B[k]) = h
                           /\ B[k].lcm = pLcm(lead[B[k].p1], lead[h])
                           /\ pDivisibleBy(lead[B[k].p1], B[k].lcm)
  <2>1. \A k \in DOMAIN B : New(B[k])
    BY <1>1 DEF PairsInv
  <2>2. \A k \in DOMAIN B : /\ B[k].p1 \in Older /\ Second(B[k]) = h
                            /\ B[k].lcm = pLcm(lead[B[k].p1], lead[h])
    BY <2>1 DEF New, Second
  <2>3. \A k \in DOMAIN B : pDivisibleBy(lead[B[k].p1], B[k].lcm)
    <3>1. SUFFICES ASSUME NEW k \in DOMAIN B PROVE pDivisibleBy(lead[B[k].p1], B[k].lcm)
      OBVIOUS
    <3>2. lead[B[k].p1] \in Monomial /\ lead[h] \in Monomial
      BY <1>7, <2>2
    <3> QED
      BY <2>2, <3>2, LcmIs
  <2> QED
    BY <2>2, <2>3
\* Some pair with h, by an lcm that divides m, covers s and what is deleted.
<1>11. /\ treated \subseteq treated'
       /\ \E u \in Older : {u, h} \in Edges' /\ pDivisibleBy(lead[u], m)
       /\ \A k \in DOMAIN B : {B[k].p1, h} \in Edges' \/ pDivisibleBy(m, B[k].lcm)
  <2> HIDE DEF m
  <2>1. /\ treated \subseteq treated'
        /\ \/ B' = B /\ {s, h} \in treated'
           \/ \E K \in SUBSET DOMAIN B :
                /\ \A k \in DOMAIN B \ K : pDivComp(B[k].lcm, m) = -1
                /\ \/ /\ B' = Subsequence(B, K)
                      /\ \/ \E k \in K : pDivComp(B[k].lcm, m) = 1
                         \/ {s, h} \in treated'
                   \/ \E n \in 1 .. Len(Subsequence(B, K)) + 1, ec \in Ecarts :
                        B' = InsertAt(Subsequence(B, K), n, q(ec))
    BY <1>1, <1>2, <1>4, EnterOnePair DEF m
  <2>2. CASE B' = B /\ {s, h} \in treated'
    <3>1. {s, h} \in Edges'
      BY <1>9, <2>2
    <3>2. \A k \in DOMAIN B : {B[k].p1, h} \in Edges'
      BY <1>9, <1>10, <2>2
    <3> QED
      BY <1>4, <1>8, <2>1, <3>1, <3>2
  <2>3. ASSUME NEW K \in SUBSET DOMAIN B,
               \A k \in DOMAIN B \ K : pDivComp(B[k].lcm, m) = -1
        PROVE  /\ Subsequence(B, K) \in Seq(Pair)
               /\ \A k \in K : \E l \in DOMAIN Subsequence(B, K) : Subsequence(B, K)[l] = B[k]
               /\ \A k \in DOMAIN B \ K : pDivisibleBy(m, B[k].lcm)
    <3>1. B \in Seq(Pair)
      BY <1>1 DEF TypeOK
    <3>2. /\ Subsequence(B, K) \in Seq(Pair)
          /\ \A k \in K : \E l \in DOMAIN Subsequence(B, K) : Subsequence(B, K)[l] = B[k]
      BY <3>1, SubsequenceIs
    <3> QED
      BY <2>3, <3>2, DivCompIs
  <2>4. ASSUME NEW K \in SUBSET DOMAIN B,
               \A k \in DOMAIN B \ K : pDivComp(B[k].lcm, m) = -1,
               B' = Subsequence(B, K),
               (\E k \in K : pDivComp(B[k].lcm, m) = 1) \/ {s, h} \in treated'
        PROVE  /\ \E u \in Older : {u, h} \in Edges' /\ pDivisibleBy(lead[u], m)
               /\ \A k \in DOMAIN B : {B[k].p1, h} \in Edges' \/ pDivisibleBy(m, B[k].lcm)
    <3>1. \A k \in K : {B[k].p1, h} \in Edges'
      <4>1. SUFFICES ASSUME NEW k \in K PROVE {B[k].p1, h} \in Edges'
        OBVIOUS
      <4>2. PICK l \in DOMAIN B' : B'[l] = B[k]
        BY <2>3, <2>4
      <4>3. {B'[l].p1, Second(B'[l])} \in Edges'
        BY <1>9
      <4> QED
        BY <1>10, <4>2, <4>3
    <3>2. CASE \E k \in K : pDivComp(B[k].lcm, m) = 1
      <4>1. PICK k \in K : pDivComp(B[k].lcm, m) = 1
        BY <3>2
      <4>2. pDivisibleBy(B[k].lcm, m)
        BY <4>1, DivCompIs
      <4>3. B[k].p1 \in Older /\ pDivisibleBy(lead[B[k].p1], B[k].lcm) /\ B[k].lcm \in Monomial
        <5>1. B[k] \in Pair
          BY <1>1, PairBasics
        <5> QED
          BY <1>10, <5>1, PairIs
      <4>4. pDivisibleBy(lead[B[k].p1], m)
        <5>1. lead[B[k].p1] \in Monomial /\ m \in Monomial
          BY <1>7, <1>8, <4>3
        <5> QED
          BY <4>2, <4>3, <5>1, DividesIs
      <4> QED
        BY <2>3, <2>4, <3>1, <4>3, <4>4
    <3>3. CASE {s, h} \in treated'
      BY <1>4, <1>8, <1>9, <2>3, <2>4, <3>1, <3>3
    <3> QED
      BY <2>4, <3>2, <3>3
  <2>5. ASSUME NEW K \in SUBSET DOMAIN B,
               \A k \in DOMAIN B \ K : pDivComp(B[k].lcm, m) = -1,
               NEW n \in 1 .. Len(Subsequence(B, K)) + 1, NEW ec \in Ecarts,
               B' = InsertAt(Subsequence(B, K), n, q(ec))
        PROVE  /\ \E u \in Older : {u, h} \in Edges' /\ pDivisibleBy(lead[u], m)
               /\ \A k \in DOMAIN B : {B[k].p1, h} \in Edges' \/ pDivisibleBy(m, B[k].lcm)
    <3> DEFINE t == Subsequence(B, K)
               e == q(ec)
    <3>1. /\ t \in Seq(Pair)
          /\ \A k \in K : \E l \in DOMAIN t : t[l] = B[k]
          /\ \A k \in DOMAIN B \ K : pDivisibleBy(m, B[k].lcm)
      BY <2>3, <2>5
    <3>2. e \in Pair /\ e.p1 = s /\ e.p2 = h
      <4>1. s \in Poly /\ h \in Poly
        BY <1>1, <1>4, <1>7, Basics
      <4> QED
        BY <1>8, <4>1 DEF Pair
    <3>3. B' = InsertAt(t, n, e) /\ n \in 1 .. Len(t) + 1
      BY <2>5
    <3> HIDE DEF t, e
    <3>4. /\ \A k \in DOMAIN t : \E l \in DOMAIN InsertAt(t, n, e) : InsertAt(t, n, e)[l] = t[k]
          /\ \E l \in DOMAIN InsertAt(t, n, e) : InsertAt(t, n, e)[l] = e
      BY <3>1, <3>2, <3>3, Inserted
    <3>5. \A k \in K : {B[k].p1, h} \in Edges'
      <4>1. SUFFICES ASSUME NEW k \in K PROVE {B[k].p1, h} \in Edges'
        OBVIOUS
      <4>2. PICK l0 \in DOMAIN t : t[l0] = B[k]
        BY <3>1
      <4>3. PICK l \in DOMAIN B' : B'[l] = t[l0]
        BY <3>3, <3>4
      <4>4. {B'[l].p1, Second(B'[l])} \in Edges'
        BY <1>9
      <4> QED
        BY <1>10, <4>2, <4>3, <4>4
    <3>6. {s, h} \in Edges'
      <4>1. PICK l \in DOMAIN B' : B'[l] = e
        BY <3>3, <3>4
      <4>2. {B'[l].p1, Second(B'[l])} \in Edges' /\ Second(e) = h
        BY <1>9, <3>2 DEF Second
      <4> QED
        BY <3>2, <4>1, <4>2
    <3>7. \E u \in Older : {u, h} \in Edges' /\ pDivisibleBy(lead[u], m)
      BY <1>4, <1>8, <3>6
    <3>8. \A k \in DOMAIN B : {B[k].p1, h} \in Edges' \/ pDivisibleBy(m, B[k].lcm)
      BY <3>1, <3>5
    <3> QED
      BY <3>7, <3>8
  <2>6. ASSUME NEW K \in SUBSET DOMAIN B,
               \A k \in DOMAIN B \ K : pDivComp(B[k].lcm, m) = -1,
               \/ /\ B' = Subsequence(B, K)
                  /\ \/ \E k \in K : pDivComp(B[k].lcm, m) = 1
                     \/ {s, h} \in treated'
               \/ \E n \in 1 .. Len(Subsequence(B, K)) + 1, ec \in Ecarts :
                    B' = InsertAt(Subsequence(B, K), n, q(ec))
        PROVE  /\ \E u \in Older : {u, h} \in Edges' /\ pDivisibleBy(lead[u], m)
               /\ \A k \in DOMAIN B : {B[k].p1, h} \in Edges' \/ pDivisibleBy(m, B[k].lcm)
    <3>1. CASE /\ B' = Subsequence(B, K)
               /\ \/ \E k \in K : pDivComp(B[k].lcm, m) = 1
                  \/ {s, h} \in treated'
      BY <2>4, <2>6, <3>1, ZenonT(30)
    <3>2. CASE \E n \in 1 .. Len(Subsequence(B, K)) + 1, ec \in Ecarts :
                 B' = InsertAt(Subsequence(B, K), n, q(ec))
      BY <2>5, <2>6, <3>2, ZenonT(30)
    <3> QED
      BY <2>6, <3>1, <3>2, ZenonT(30)
  <2>7. CASE \E K \in SUBSET DOMAIN B :
                /\ \A k \in DOMAIN B \ K : pDivComp(B[k].lcm, m) = -1
                /\ \/ /\ B' = Subsequence(B, K)
                      /\ \/ \E k \in K : pDivComp(B[k].lcm, m) = 1
                         \/ {s, h} \in treated'
                   \/ \E n \in 1 .. Len(Subsequence(B, K)) + 1, ec \in Ecarts :
                        B' = InsertAt(Subsequence(B, K), n, q(ec))
    BY <2>1, <2>6, <2>7, ZenonT(30)
  <2> QED
    BY <2>1, <2>2, <2>7, ZenonT(30)
<1>12. ASSUME NEW x \in Older, NEW y \in Older, {x, y} \in Edges \/ Replaced(x, y)
       PROVE  {x, y} \in Edges' \/ Replaced(x, y)'
  <2>1. CASE {x, y} \in Edges
    <3>1. ~ \E k \in DOMAIN order : TRUE
      BY <1>6
    <3>2. {x, y} \in treated \/ \E p \in L : {x, y} = {p.p1, p.p2}
      <4>1. \/ {x, y} \in treated
            \/ \E p \in L : {x, y} = {p.p1, p.p2} /\ Old(p)
            \/ \E k \in DOMAIN order : {x, y} = {order[k].p1, order[k].p2} /\ Old(order[k])
        <5>1. Shape /\ Pairing /\ x \in Older /\ y \in Older
          BY <1>1, <1>6
        <5> QED
          BY <2>1, <5>1, OldEdge
      <4> QED
        BY <3>1, <4>1
    <3>3. L' = L
      BY <1>3
    <3> QED
      BY <1>9, <1>11, <3>2, <3>3
  <2>2. CASE Replaced(x, y)
    <3>1. Fixed \subseteq Fixed' /\ lead' = lead
      BY <1>3 DEF Fixed
    <3> QED
      BY <2>2, <3>1, ReplacedKept
  <2> QED
    BY <1>12, <2>1, <2>2
<1>13. ASSUME NEW t \in Older, {t, h} \in Edges
       PROVE  \E u \in Older : /\ {u, h} \in Edges'
                               /\ pDivisibleBy(lead[u], pLcm(lead[t], lead[h]))
  <2> HIDE DEF m
  <2>1. pDivisibleBy(lead[t], pLcm(lead[t], lead[h]))
    BY <1>7, LcmIs
  <2>2. PICK u \in Older : {u, h} \in Edges' /\ pDivisibleBy(lead[u], m)
    BY <1>11
  <2>3. \/ {t, h} \in treated \/ t \in rest
        \/ \E k \in DOMAIN B : B[k].p1 = t
    <3>1. ~ \E k \in DOMAIN order : TRUE
      BY <1>6
    <3> QED
      BY <1>1, <1>6, <1>13, <3>1, NewEdge
  <2>4. CASE {t, h} \in treated
    BY <1>9, <1>11, <2>1, <2>4
  <2>5. CASE t \in rest /\ t # s
    BY <1>2, <1>9, <2>1, <2>5
  <2>6. CASE t = s
    BY <1>8, <2>2, <2>6
  <2>7. ASSUME NEW k \in DOMAIN B, B[k].p1 = t
        PROVE  \E v \in Older : /\ {v, h} \in Edges'
                                /\ pDivisibleBy(lead[v], pLcm(lead[t], lead[h]))
    <3>1. CASE {B[k].p1, h} \in Edges'
      BY <2>1, <2>7, <3>1
    <3>2. CASE pDivisibleBy(m, B[k].lcm)
      <4>1. B[k].lcm = pLcm(lead[t], lead[h])
        BY <1>10, <2>7
      <4>2. pLcm(lead[t], lead[h]) \in Monomial /\ lead[u] \in Monomial /\ m \in Monomial
        BY <1>7, <1>8, LcmIs
      <4>3. pDivisibleBy(lead[u], pLcm(lead[t], lead[h]))
        BY <2>2, <3>2, <4>1, <4>2, DividesIs
      <4> QED
        BY <2>2, <4>3
    <3> QED
      BY <1>11, <3>1, <3>2
  <2> QED
    BY <2>3, <2>4, <2>5, <2>6, <2>7
<1> QED
  BY <1>1, <1>3, <1>6, <1>12, <1>13, KeepCover

\* The chain criterion asks for two strict conditions.
LEMMA ChainIs ==
  ASSUME NEW p \in Monomial, NEW a \in Monomial, NEW b \in Monomial,
         pCompareChain(p, a, b, pLcm(a, b))
  PROVE  /\ pDivisibleBy(p, pLcm(a, b))
         /\ pLcm(a, p) # pLcm(a, b) /\ pLcm(b, p) # pLcm(a, b)
<1> DEFINE m == pLcm(a, b)
<1>1. pDivisibleBy(p, m)
  BY DEF pCompareChain
<1>2. PICK v \in Vars : p[v] # m[v] /\ a[v] # m[v]
  BY DEF pCompareChain
<1>3. PICK w \in Vars : p[w] # m[w] /\ b[w] # m[w]
  BY DEF pCompareChain
<1> HIDE DEF m
<1>4. pLcm(a, p)[v] # m[v]
  BY <1>2 DEF pLcm
<1>5. pLcm(b, p)[w] # m[w]
  BY <1>3 DEF pLcm
<1>6. pLcm(a, p) # m /\ pLcm(b, p) # m
  BY <1>4, <1>5
<1> QED
  BY <1>1, <1>6 DEF m

\* A pair in L that the chain criterion takes is replaced, one in B was zero.
LEMMA ChainCritCover ==
  ASSUME Inv, chainCrit
  PROVE  OldInv' /\ NewInv' /\ CoverInv'
<1>1. TypeOK /\ LoopInv /\ PairsInv /\ BasisInv /\ OldInv /\ NewInv /\ Shape
  BY DEF Inv, Shape
<1> DEFINE K == {k \in DOMAIN B : \A z \in pairtest : ~pDivisibleBy(lead[z], B[k].lcm)}
<1>2. /\ pc = "pairs" /\ rest = {} /\ B' = Subsequence(B, K)
      /\ L' = {q \in L : ~Chained(q)}
      /\ pc' \in {"best", "merge"}
      /\ UNCHANGED <<mode, lead, ecart, S, treated, rest, order>>
  BY DEF chainCrit
<1>3. order = <<>> /\ Pairing /\ Pairing' /\ Fixed = {}
  BY <1>1, <1>2 DEF LoopInv, Pairing, Fixed
<1>4. K \in SUBSET DOMAIN B
  OBVIOUS
<1>5. \A k \in DOMAIN B : k \in K \/ \E z \in pairtest : pDivisibleBy(lead[z], B[k].lcm)
  OBVIOUS
<1> HIDE DEF K
<1>6. /\ \A e \in treated' : e \in Edges'
      /\ \A q \in L' : {q.p1, q.p2} \in Edges'
      /\ \A k \in DOMAIN B' : {B'[k].p1, Second(B'[k])} \in Edges'
  BY <1>2, EdgesNext
<1>7. /\ \A g \in Older : lead[g] \in Monomial
      /\ h \in Nat /\ Older \subseteq 1 .. h /\ \A g \in 1 .. h : lead[g] \in Monomial
  BY <1>1, Basics
<1>8. ASSUME NEW x \in Older, NEW y \in Older, {x, y} \in Edges \/ Replaced(x, y)
      PROVE  {x, y} \in Edges' \/ Replaced(x, y)'
  <2>1. Fixed \subseteq Fixed' /\ lead' = lead
    BY <1>2, <1>3
  <2>2. Replaced(x, y) => Replaced(x, y)'
    BY <2>1, ReplacedKept
  <2>3. CASE {x, y} \in Edges
    <3>1. ~ \E k \in DOMAIN order : TRUE
      BY <1>3
    <3>2. {x, y} \in treated \/ \E q \in L : {x, y} = {q.p1, q.p2} /\ Old(q)
      <4>1. \/ {x, y} \in treated
            \/ \E q \in L : {x, y} = {q.p1, q.p2} /\ Old(q)
            \/ \E k \in DOMAIN order : {x, y} = {order[k].p1, order[k].p2} /\ Old(order[k])
        <5>1. Shape /\ Pairing /\ x \in Older /\ y \in Older
          BY <1>1, <1>3
        <5> QED
          BY <2>3, <5>1, OldEdge
      <4> QED
        BY <3>1, <4>1
    <3>3. CASE {x, y} \in treated
      BY <1>2, <1>6, <3>3
    <3>4. ASSUME NEW q \in L, {x, y} = {q.p1, q.p2}, Old(q)
          PROVE  {x, y} \in Edges' \/ Replaced(x, y)
      <4>1. CASE ~Chained(q)
        BY <1>2, <1>6, <3>4, <4>1
      <4>2. CASE Chained(q)
        <5>1. q.p1 \in Older /\ q.p2 \in Older /\ q.lcm = pLcm(lead[q.p1], lead[q.p2])
          BY <3>4 DEF Old
        <5>2. lead[q.p1] \in Monomial /\ lead[q.p2] \in Monomial /\ lead[h] \in Monomial
          <6>1. h \in 1 .. h
            BY <1>7, <5>1
          <6> QED
            BY <1>7, <5>1, <6>1
        <5>3. pCompareChain(lead[h], lead[q.p1], lead[q.p2], pLcm(lead[q.p1], lead[q.p2]))
          BY <4>2, <5>1 DEF Chained
        <5>4. Replaced(q.p1, q.p2)
          BY <5>2, <5>3, ChainIs DEF Replaced
        <5> QED
          BY <1>1, <3>4, <5>1, <5>4, ReplacedSym
      <4> QED
        BY <4>1, <4>2
    <3> QED
      BY <2>2, <3>2, <3>3, <3>4
  <2> QED
    BY <1>8, <2>2, <2>3
<1>9. ASSUME NEW t \in Older, {t, h} \in Edges
      PROVE  \E u \in Older : /\ {u, h} \in Edges'
                              /\ pDivisibleBy(lead[u], pLcm(lead[t], lead[h]))
  <2>1. pDivisibleBy(lead[t], pLcm(lead[t], lead[h]))
    <3>1. t \in 1 .. h /\ h \in 1 .. h
      BY <1>7
    <3> QED
      BY <1>7, <3>1, LcmIs
  <2>2. {t, h} \in treated \/ \E k \in DOMAIN B : B[k].p1 = t
    <3>1. ~ \E k \in DOMAIN order : TRUE
      BY <1>3
    <3> QED
      BY <1>1, <1>2, <1>3, <1>9, <3>1, NewEdge
  <2>3. CASE {t, h} \in treated
    BY <1>2, <1>6, <2>1, <2>3
  <2>4. ASSUME NEW k \in DOMAIN B, B[k].p1 = t
        PROVE  \E v \in Older : /\ {v, h} \in Edges'
                                /\ pDivisibleBy(lead[v], pLcm(lead[t], lead[h]))
    <3>1. New(B[k]) /\ B \in Seq(Pair)
      BY <1>1 DEF PairsInv, TypeOK
    <3>2. Second(B[k]) = h /\ B[k].lcm = pLcm(lead[t], lead[h])
      BY <2>4, <3>1 DEF New, Second
    <3>3. CASE k \in K
      <4>1. PICK l \in DOMAIN B' : B'[l] = B[k]
        BY <1>2, <1>4, <3>1, <3>3, SubsequenceIs
      <4>2. {B'[l].p1, Second(B'[l])} \in Edges'
        BY <1>6
      <4> QED
        BY <2>1, <2>4, <3>2, <4>1, <4>2
    <3>4. CASE k \notin K
      <4>1. PICK z \in pairtest : pDivisibleBy(lead[z], B[k].lcm)
        BY <1>5, <3>4
      <4>2. z \in Older /\ {z, h} \in treated
        BY <1>1, <1>2 DEF BasisInv
      <4> QED
        BY <1>2, <1>6, <3>2, <4>1, <4>2
    <3> QED
      BY <3>3, <3>4
  <2> QED
    BY <2>2, <2>3, <2>4
<1>10. lead' = lead
  BY <1>2
<1> QED
  BY <1>1, <1>3, <1>8, <1>9, <1>10, KeepCover

\* Of two pairs with one lcm one stays.
LEMMA BestStepCover ==
  ASSUME Inv, BestStep
  PROVE  OldInv' /\ NewInv' /\ CoverInv'
<1>1. TypeOK /\ LoopInv /\ PairsInv /\ BasisInv /\ OldInv /\ NewInv /\ Shape
  BY DEF Inv, Shape
<1>2. /\ pc = "best" /\ UNCHANGED <<mode, lead, ecart, S, L, treated, rest, pairtest, order, pc>>
      /\ i \in 1 .. j - 1 /\ j \in 1 .. Len(B)
      /\ B' \in Seq(Pair)
      /\ \/ B' = B
         \/ \E n \in {i, j} : B[j].lcm = B[i].lcm /\ Without(B, n, B')
  BY <1>1, BestStepIs
<1>3. order = <<>> /\ rest = {} /\ Pairing /\ Pairing' /\ Fixed = {}
  BY <1>1, <1>2 DEF LoopInv, Pairing, Fixed
<1>4. /\ \A e \in treated' : e \in Edges'
      /\ \A q \in L' : {q.p1, q.p2} \in Edges'
      /\ \A k \in DOMAIN B' : {B'[k].p1, Second(B'[k])} \in Edges'
  BY <1>2, EdgesNext
<1>5. /\ h \in Nat /\ Older \subseteq 1 .. h /\ \A g \in 1 .. h : lead[g] \in Monomial
  BY <1>1, Basics
<1>6. \A k \in DOMAIN B : B[k].p1 \in Older /\ Second(B[k]) = h /\ B[k].lcm = pLcm(lead[B[k].p1], lead[h])
  BY <1>1 DEF PairsInv, New, Second
<1>7. \A t \in Older : pDivisibleBy(lead[t], pLcm(lead[t], lead[h]))
  <2>1. SUFFICES ASSUME NEW t \in Older PROVE pDivisibleBy(lead[t], pLcm(lead[t], lead[h]))
    OBVIOUS
  <2>2. t \in 1 .. h /\ h \in 1 .. h
    BY <1>5
  <2> QED
    BY <1>5, <2>2, LcmIs
<1>8. ASSUME NEW k \in DOMAIN B
      PROVE  \E l \in DOMAIN B' : B'[l].lcm = B[k].lcm /\ \E m \in DOMAIN B : B'[l] = B[m]
  <2>1. CASE B' = B
    BY <2>1
  <2>2. ASSUME NEW n \in {i, j}, B[j].lcm = B[i].lcm, Without(B, n, B')
        PROVE  \E l \in DOMAIN B' : B'[l].lcm = B[k].lcm /\ \E m \in DOMAIN B : B'[l] = B[m]
    <3>1. B \in Seq(Pair) /\ B' \in Seq(Pair) /\ Len(B) \in Nat /\ DOMAIN B = 1 .. Len(B)
      BY <1>1, <1>2 DEF TypeOK
    <3>2. i \in 1 .. Len(B) /\ j \in 1 .. Len(B) /\ i # j
      BY <1>2, <3>1
    <3>3. \A l \in DOMAIN B : l # n => \E m \in DOMAIN B' : B'[m] = B[l]
      BY <2>2, <3>1, <3>2, Removed
    <3>4. PICK o \in {i, j} : o # n
      BY <3>2
    <3>5. o \in DOMAIN B /\ B[o].lcm = B[n].lcm
      BY <2>2, <3>1, <3>2, <3>4
    <3>6. CASE k # n
      BY <3>3, <3>6
    <3>7. CASE k = n
      BY <3>3, <3>4, <3>5, <3>7
    <3> QED
      BY <3>6, <3>7
  <2> QED
    BY <1>2, <2>1, <2>2
<1>9. ASSUME NEW x \in Older, NEW y \in Older, {x, y} \in Edges \/ Replaced(x, y)
      PROVE  {x, y} \in Edges' \/ Replaced(x, y)'
  <2>1. Fixed \subseteq Fixed' /\ lead' = lead /\ L' = L /\ treated' = treated
    BY <1>2, <1>3
  <2>2. Replaced(x, y) => Replaced(x, y)'
    BY <2>1, ReplacedKept
  <2>3. CASE {x, y} \in Edges
    <3>1. ~ \E k \in DOMAIN order : TRUE
      BY <1>3
    <3>2. {x, y} \in treated \/ \E q \in L : {x, y} = {q.p1, q.p2}
      <4>1. \/ {x, y} \in treated
            \/ \E q \in L : {x, y} = {q.p1, q.p2} /\ Old(q)
            \/ \E k \in DOMAIN order : {x, y} = {order[k].p1, order[k].p2} /\ Old(order[k])
        <5>1. Shape /\ Pairing /\ x \in Older /\ y \in Older
          BY <1>1, <1>3
        <5> QED
          BY <2>3, <5>1, OldEdge
      <4> QED
        BY <3>1, <4>1
    <3> QED
      BY <1>4, <2>1, <3>2
  <2> QED
    BY <1>9, <2>2, <2>3
<1>10. ASSUME NEW t \in Older, {t, h} \in Edges
       PROVE  \E u \in Older : /\ {u, h} \in Edges'
                               /\ pDivisibleBy(lead[u], pLcm(lead[t], lead[h]))
  <2>1. {t, h} \in treated \/ \E k \in DOMAIN B : B[k].p1 = t
    <3>1. ~ \E k \in DOMAIN order : TRUE
      BY <1>3
    <3> QED
      BY <1>1, <1>3, <1>10, <3>1, NewEdge
  <2>2. CASE {t, h} \in treated
    BY <1>2, <1>4, <1>7, <2>2
  <2>3. ASSUME NEW k \in DOMAIN B, B[k].p1 = t
        PROVE  \E u \in Older : /\ {u, h} \in Edges'
                                /\ pDivisibleBy(lead[u], pLcm(lead[t], lead[h]))
    <3>1. PICK l \in DOMAIN B' : B'[l].lcm = B[k].lcm /\ \E m \in DOMAIN B : B'[l] = B[m]
      BY <1>8
    <3>2. /\ B'[l].p1 \in Older /\ Second(B'[l]) = h
          /\ B'[l].lcm = pLcm(lead[B'[l].p1], lead[h])
      BY <1>6, <3>1
    <3>3. {B'[l].p1, h} \in Edges'
      BY <1>4, <3>2
    <3>4. B[k].lcm = pLcm(lead[t], lead[h])
      BY <1>6, <2>3
    <3> QED
      BY <1>7, <3>1, <3>2, <3>3, <3>4
  <2> QED
    BY <2>1, <2>2, <2>3
<1>11. lead' = lead
  BY <1>2
<1> QED
  BY <1>1, <1>3, <1>9, <1>10, <1>11, KeepCover

\* The next round of the loop for the best.
LEMMA BestNextCover ==
  ASSUME Inv, BestNext
  PROVE  OldInv' /\ NewInv' /\ CoverInv'
<1>1. TypeOK /\ OldInv /\ NewInv
  BY DEF Inv
<1>2. /\ pc = "best"
      /\ UNCHANGED <<mode, lead, ecart, S, L, treated, B, rest, pairtest, order, pc>>
  BY DEF BestNext
<1>3. Pairing /\ Pairing' /\ Fixed \subseteq Fixed'
  BY <1>2 DEF Pairing, Fixed
<1>4. Edges \subseteq Edges'
  <2>1. h' = h /\ \A q : Second(q)' = Second(q)
    BY <1>2, SameLead
  <2> QED
    BY <1>2, <2>1 DEF Edges, Links
<1> QED
  BY <1>1, <1>2, <1>3, <1>4, GrowCover

\* Its end: B goes into L.
LEMMA BestEndsCover ==
  ASSUME Inv, BestEnds
  PROVE  OldInv' /\ NewInv' /\ CoverInv'
<1>1. TypeOK /\ LoopInv /\ PairsInv /\ BasisInv /\ OldInv /\ NewInv /\ Shape
  BY DEF Inv, Shape
<1>2. /\ pc = "best" /\ L' = L \union Range(B) /\ pc' = "enter"
      /\ UNCHANGED <<lead, treated, rest, order>>
  BY DEF BestEnds
<1>3. order = <<>> /\ rest = {} /\ Pairing /\ ~Pairing'
  BY <1>1, <1>2 DEF LoopInv, Pairing
<1>4. \A q \in Range(B) : Second(q) = q.p2
  <2>1. h # tail
    <3>1. h \in Nat /\ h # 0
      BY <1>1, <1>2, Basics DEF BasisInv, TypeOK, h
    <3> QED
      BY <3>1 DEF tail
  <2> QED
    BY <1>1, <2>1 DEF PairsInv, New, Second, Range
<1>5. \A x, y \in DOMAIN lead : {x, y} \in Edges => {x, y} \in Links'
  <2>1. Range(order) = {}
    BY <1>3 DEF Range
  <2> QED
    BY <1>2, <1>3, <1>4, <2>1 DEF Edges, Links
<1> QED
  BY <1>1, <1>2, <1>3, <1>5, EndCover

\* Pairs go from L and B to the array.
LEMMA MergeCover ==
  ASSUME Inv, kMergeBintoL
  PROVE  OldInv' /\ NewInv' /\ CoverInv'
<1>1. TypeOK /\ LoopInv /\ PairsInv /\ BasisInv /\ OldInv /\ NewInv /\ Shape
  BY DEF Inv, Shape
<1>2. pc = "merge" /\ UNCHANGED <<mode, lead, ecart, S, treated, rest, pairtest>>
  BY DEF kMergeBintoL
<1>3. \/ /\ \E q \in L \union Range(B) : order' = Append(order, q)
         /\ UNCHANGED <<L, B, j, i, pc>>
      \/ /\ (L \union Range(B)) \ Range(order) = {}
         /\ L' = {} /\ B' = <<>> /\ pc' = "modify" /\ j' = Len(order) /\ i' = 0 /\ UNCHANGED order
  BY DEF kMergeBintoL
<1>4. Pairing /\ Pairing' /\ Fixed = {} /\ rest = {} /\ lead' = lead
  BY <1>1, <1>2, <1>3 DEF LoopInv, Pairing, Fixed
<1>5. /\ \A e \in treated' : e \in Edges'
      /\ \A q \in L' : {q.p1, q.p2} \in Edges'
      /\ \A k \in DOMAIN B' : {B'[k].p1, Second(B'[k])} \in Edges'
      /\ \A k \in DOMAIN order' : {order'[k].p1, Second(order'[k])} \in Edges'
  BY <1>2, EdgesNext
<1>6. \A q \in L : Second(q) = q.p2
  <2>1. \A q \in L : Old(q)
    BY <1>1, <1>4 DEF PairsInv
  <2>2. tail \notin Older
    BY <1>1, Basics
  <2> QED
    BY <2>1, <2>2 DEF Old, Second
<1>7. \A k \in DOMAIN order : \E l \in DOMAIN order' : order'[l] = order[k]
  <2>1. CASE \E q \in L \union Range(B) : order' = Append(order, q)
    <3>1. PICK q \in L \union Range(B) : order' = Append(order, q)
      BY <2>1
    <3>2. order \in Seq(Pair) /\ q \in Pair
      <4>1. q \in L \/ q \in Range(B)
        OBVIOUS
      <4> QED
        BY <1>1, <4>1, PairBasics DEF TypeOK
    <3>3. /\ order' \in Seq(Pair) /\ Len(order') = Len(order) + 1 /\ Len(order) \in Nat
          /\ \A k \in 1 .. Len(order) : order'[k] = order[k]
      BY <3>1, <3>2, AppendProperties
    <3>4. \A k \in DOMAIN order : k \in DOMAIN order'
      BY <3>2, <3>3
    <3> QED
      BY <3>2, <3>3, <3>4
  <2>2. CASE order' = order
    BY <2>2
  <2> QED
    BY <1>3, <2>1, <2>2
<1>8. \A q \in L \union Range(B) : {q.p1, Second(q)} \in Edges'
  <2>1. SUFFICES ASSUME NEW q \in L \union Range(B) PROVE {q.p1, Second(q)} \in Edges'
    OBVIOUS
  <2>2. CASE UNCHANGED <<L, B>>
    BY <1>5, <1>6, <2>2 DEF Range
  <2>3. CASE (L \union Range(B)) \ Range(order) = {}
    <3>1. PICK k \in DOMAIN order : q = order[k]
      BY <2>3 DEF Range
    <3> QED
      BY <1>5, <1>7, <3>1
  <2> QED
    BY <1>3, <2>2, <2>3
<1>9. Edges \subseteq Edges'
  <2>1. SUFFICES ASSUME NEW e \in Edges PROVE e \in Edges'
    OBVIOUS
  <2>2. \/ e \in treated
        \/ \E q \in L \union Range(B) : e = {q.p1, Second(q)}
        \/ \E k \in DOMAIN order : e = {order[k].p1, Second(order[k])}
    BY <1>4, <1>6 DEF Edges, Links, Range
  <2> QED
    BY <1>2, <1>5, <1>7, <1>8, <2>2
<1> QED
  BY <1>1, <1>4, <1>9, GrowCover

\* What is never deleted stays so if its place after the step is such.
LEMMA FixedStays ==
  ASSUME pc = "modify", pc' = "modify",
         \A k \in DOMAIN order : Kept(k) => \E l \in DOMAIN order' :
           order'[l].p1 = order[k].p1 /\ Kept(l)'
  PROVE  Fixed \subseteq Fixed'
<1>1. SUFFICES ASSUME NEW f \in Fixed PROVE f \in Fixed'
  OBVIOUS
<1>2. PICK k \in DOMAIN order : Kept(k) /\ f = order[k].p1
  BY DEF Fixed
<1>3. PICK l \in DOMAIN order' : order'[l].p1 = f /\ Kept(l)'
  BY <1>2
<1>4. Fixed' = {order'[m].p1 : m \in {n \in DOMAIN order' : Kept(n)'}}
  BY DEF Fixed
<1> QED
  BY <1>3, <1>4

\* The outer loop over the array: a mark is taken off, or the index moves.
LEMMA ModifyOuterCover ==
  ASSUME Inv, ModifyOuter
  PROVE  OldInv' /\ NewInv' /\ CoverInv'
<1>1. TypeOK /\ OldInv /\ NewInv /\ Shape
  BY DEF Inv, Shape
<1>2. /\ pc = "modify" /\ i = 0 /\ j > 1
      /\ UNCHANGED <<mode, lead, ecart, S, L, treated, B, rest, pairtest, pc>>
  BY DEF ModifyOuter
<1>3. /\ order \in Seq(Pair) /\ Len(order) \in Nat /\ DOMAIN order = 1 .. Len(order)
      /\ j \in 0 .. Len(order) /\ L = {} /\ B = <<>> /\ rest = {} /\ h # tail
      /\ \A k \in DOMAIN order : order[k] \in Pair
  BY <1>1, <1>2, ModifyBasics
<1>4. Pairing /\ Pairing' /\ lead' = lead /\ h' = h
  BY <1>2, SameLead DEF Pairing
<1>5. /\ DOMAIN order' = DOMAIN order
      /\ \A k \in DOMAIN order : /\ order'[k].p1 = order[k].p1
                                 /\ Second(order'[k]) = Second(order[k])
                                 /\ Kept(k) => Kept(k)'
  <2>1. CASE IsNew(order[j])
    <3>1. i' = j - 1 /\ order' = order /\ j' = j
      BY <2>1 DEF ModifyOuter, IsNew
    <3>2. \A k \in DOMAIN order : Kept(k) => Kept(k)'
      BY <1>2, <1>4, <3>1 DEF Kept
    <3> QED
      BY <3>1, <3>2
  <2>2. CASE ~IsNew(order[j]) /\ order[j].p2 # tail
    <3>1. order' = order /\ j' = j - 1 /\ i' = i
      BY <2>2 DEF ModifyOuter
    <3>2. ASSUME NEW k \in DOMAIN order, k > j PROVE k > j'
      BY <1>3, <3>1, <3>2
    <3>3. \A k \in DOMAIN order : Kept(k) => Kept(k)'
      BY <1>2, <1>4, <3>1, <3>2 DEF Kept
    <3> QED
      BY <3>1, <3>3
  <2>3. CASE order[j].p2 = tail
    <3> DEFINE e == [order[j] EXCEPT !.p2 = h]
    <3>1. order' = [order EXCEPT ![j] = e] /\ j' = j - 1 /\ i' = i
      BY <1>3, <2>3 DEF ModifyOuter, IsNew
    <3>2. j \in DOMAIN order /\ order[j] \in Pair
      BY <1>2, <1>3
    <3>3. e.p1 = order[j].p1 /\ e.p2 = h
      BY <3>2 DEF Pair
    <3> HIDE DEF e
    <3>4. /\ DOMAIN order' = DOMAIN order /\ order'[j] = e
          /\ \A k \in DOMAIN order : k # j => order'[k] = order[k]
      BY <1>3, <3>1, <3>2
    <3>5. j > j' /\ \A k \in DOMAIN order : k > j => k > j'
      BY <1>3, <3>1
    <3>6. \A k \in DOMAIN order : Kept(k) => Kept(k)'
      BY <1>2, <1>4, <2>3, <3>3, <3>4, <3>5 DEF Kept
    <3> QED
      BY <2>3, <3>3, <3>4, <3>6 DEF Second
  <2> QED
    BY <2>1, <2>2, <2>3
<1>6. Fixed \subseteq Fixed'
  BY <1>2, <1>5, FixedStays
<1>7. Edges \subseteq Edges'
  <2>1. SUFFICES ASSUME NEW e \in Edges PROVE e \in Edges'
    OBVIOUS
  <2>2. /\ \A f \in treated' : f \in Edges'
        /\ \A k \in DOMAIN order' : {order'[k].p1, Second(order'[k])} \in Edges'
    BY <1>4, EdgesNext
  <2>3. Range(B) = {}
    BY <1>3 DEF Range
  <2>4. e \in treated \/ \E k \in DOMAIN order : e = {order[k].p1, Second(order[k])}
    BY <1>3, <2>3 DEF Edges, Links, Range
  <2> QED
    BY <1>2, <1>5, <2>2, <2>4
<1> QED
  BY <1>1, <1>4, <1>6, <1>7, GrowCover

\* A deletion before the j-th pair moves the pairs that are never deleted,
\* and the index with them.
LEMMA DeletedFixed ==
  ASSUME pc = "modify", pc' = "modify", lead' = lead,
         order \in Seq(Pair), order' \in Seq(Pair), i \in 1 .. j - 1, j \in 1 .. Len(order),
         NEW s \in Seq(Pair), NEW n \in 1 .. i, Len(s) = Len(order),
         \A k \in DOMAIN order : Kept(k) => k # n /\ s[k] = order[k],
         Without(s, n, order'),
         i' \in 0 .. i - 1, j' = IF i' = 0 THEN j - 2 ELSE j - 1
  PROVE  Fixed \subseteq Fixed'
<1>1. /\ Len(order) \in Nat /\ j \in Int /\ i \in Int /\ 1 <= i /\ i < j /\ j <= Len(order)
      /\ 1 <= n /\ n <= i /\ n \in Int /\ DOMAIN order = 1 .. Len(order)
  OBVIOUS
<1>2. n \in 1 .. Len(s)
  BY <1>1
<1>3. /\ DOMAIN order' = 1 .. Len(order) - 1
      /\ \A k \in 1 .. Len(order) - 1 : k < n => order'[k] = s[k]
      /\ \A k \in n + 1 .. Len(order) : order'[k - 1] = s[k]
  BY <1>2, WithoutAt
<1>4. h' = h
  BY SameLead
<1> DEFINE x == i'
           y == j'
<1>5. x \in Int /\ 0 <= x /\ y = IF x = 0 THEN j - 2 ELSE j - 1
  BY <1>1
<1> HIDE DEF x, y
<1>6. y \in Int /\ y <= j - 1 /\ (y = j - 1 => x > 0)
  BY <1>1, <1>5
<1>7. ASSUME NEW k \in DOMAIN order, Kept(k)
      PROVE  \E l \in DOMAIN order' : order'[l].p1 = order[k].p1 /\ Kept(l)'
  <2>1. k # n /\ s[k] = order[k] /\ k \in Int /\ 1 <= k /\ k <= Len(order)
    BY <1>1, <1>7
  <2>2. CASE k < n
    <3>1. k \in 1 .. Len(order) - 1 /\ ~(k >= j)
      BY <1>1, <2>1, <2>2
    <3>2. order'[k] = order[k]
      BY <1>3, <2>1, <2>2, <3>1
    <3>3. order[k].p2 = tail
      BY <1>1, <1>7, <2>1, <3>1 DEF Kept
    <3> QED
      BY <1>3, <3>1, <3>2, <3>3 DEF Kept
  <2>3. CASE ~(k < n)
    <3>1. k \in n + 1 .. Len(order) /\ k - 1 \in 1 .. Len(order) - 1
      BY <1>1, <2>1, <2>3
    <3>2. order'[k - 1] = order[k]
      BY <1>3, <2>1, <3>1
    <3>3. (k > j \/ (k = j /\ i > 0)) => (k - 1 > y \/ (k - 1 = y /\ x > 0))
      <4>1. CASE k > j
        BY <1>1, <1>6, <2>1, <4>1
      <4>2. CASE k = j /\ y = j - 1
        BY <1>1, <1>6, <2>1, <4>2
      <4>3. CASE k = j /\ y # j - 1
        BY <1>1, <1>6, <2>1, <4>3
      <4> QED
        BY <4>1, <4>2, <4>3
    <3>4. Kept(k - 1)'
      BY <1>4, <1>7, <3>2, <3>3 DEF Kept, x, y
    <3> QED
      BY <1>3, <3>1, <3>2, <3>4
  <2> QED
    BY <2>2, <2>3
<1> QED
  BY <1>7, FixedStays

\* The inner loop: the older pair it deletes is replaced by two that stay, the
\* pair with h by one with the same lcm.
LEMMA ModifyInnerCover ==
  ASSUME Inv, ModifyInner
  PROVE  OldInv' /\ NewInv' /\ CoverInv'
<1>1. TypeOK /\ OldInv /\ NewInv /\ Shape
  BY DEF Inv, Shape
<1>2. /\ pc = "modify" /\ i \in 1 .. j - 1 /\ j \in 1 .. Len(order)
      /\ UNCHANGED <<mode, lead, ecart, S, L, treated, B, rest, pairtest, pc>>
      /\ order' \in Seq(Pair)
      /\ \/ order' = order /\ i' = i - 1 /\ j' = IF i = 1 THEN j - 1 ELSE j
         \/ /\ order[i].p2 = h
            /\ \E l \in 1 .. i - 1 :
                 /\ {order[l].p1, order[l].p2} = {order[j].p1, order[i].p1}
                 /\ pDivisibleBy(lead[h], order[l].lcm)
                 /\ Without(Mark, l, order')
            /\ i' = i - 2 /\ j' = IF i' = 0 THEN j - 2 ELSE j - 1
         \/ /\ order[i].p2 = h /\ order[j].lcm = order[i].lcm
            /\ Without(order, i, order')
            /\ i' = i - 1 /\ j' = IF i' = 0 THEN j - 2 ELSE j - 1
  BY <1>1, ModifyInnerIs
<1>3. /\ order \in Seq(Pair) /\ Len(order) \in Nat /\ DOMAIN order = 1 .. Len(order)
      /\ L = {} /\ B = <<>> /\ rest = {} /\ h # tail /\ order[j].p2 = h
      /\ \A k \in DOMAIN order : Old(order[k]) \/ New(order[k]) \/ Marked(order[k])
      /\ h \in 1 .. h /\ \A g \in Older : g # h /\ g # tail
  <2>1. i > 0
    BY <1>2
  <2> QED
    BY <1>1, <1>2, <2>1, ModifyBasics
<1>4. Pairing /\ Pairing' /\ lead' = lead /\ h' = h
  BY <1>2, SameLead DEF Pairing
<1>5. /\ i \in Int /\ j \in Int /\ 1 <= i /\ i < j /\ j <= Len(order)
      /\ i \in DOMAIN order /\ j \in DOMAIN order
  BY <1>2, <1>3
<1>6. /\ \A e \in treated' : e \in Edges'
      /\ \A k \in DOMAIN order' : {order'[k].p1, Second(order'[k])} \in Edges'
  BY <1>4, EdgesNext
<1>7. /\ h \in Nat /\ Older \subseteq 1 .. h /\ \A g \in 1 .. h : lead[g] \in Monomial
  BY <1>1, Basics
<1>8. \A t \in Older : pDivisibleBy(lead[t], pLcm(lead[t], lead[h]))
  BY <1>3, <1>7, LcmIs
<1>9. ASSUME NEW x \in Older, NEW y \in Older, {x, y} \in Edges
      PROVE  \/ {x, y} \in Edges'
             \/ \E k \in DOMAIN order : {x, y} = {order[k].p1, order[k].p2} /\ Old(order[k])
  <2>1. \/ {x, y} \in treated
        \/ \E k \in DOMAIN order : {x, y} = {order[k].p1, order[k].p2} /\ Old(order[k])
    <3>1. \/ {x, y} \in treated
          \/ \E q \in L : {x, y} = {q.p1, q.p2} /\ Old(q)
          \/ \E k \in DOMAIN order : {x, y} = {order[k].p1, order[k].p2} /\ Old(order[k])
      <4>1. Shape /\ Pairing /\ x \in Older /\ y \in Older
        BY <1>1, <1>3, <1>4
      <4> QED
        BY <1>9, <4>1, OldEdge
    <3> QED
      BY <1>1, <1>3, <1>4, <3>1
  <2> QED
    BY <1>2, <1>6, <2>1
<1>10. ASSUME NEW t \in Older, {t, h} \in Edges
       PROVE  \/ {t, h} \in Edges'
              \/ \E k \in DOMAIN order : order[k].p1 = t /\ Second(order[k]) = h
  <2>1. ~ \E k \in DOMAIN B : TRUE
    BY <1>3
  <2>2. \/ {t, h} \in treated
        \/ \E k \in DOMAIN order : order[k].p1 = t /\ Second(order[k]) = h
    BY <1>1, <1>3, <1>4, <1>10, <2>1, NewEdge
  <2> QED
    BY <1>2, <1>6, <2>2
<1>11. CASE order' = order /\ i' = i - 1 /\ j' = IF i = 1 THEN j - 1 ELSE j
  <2>1. \A k \in DOMAIN order : Kept(k) => Kept(k)'
    <3>1. SUFFICES ASSUME NEW k \in DOMAIN order, Kept(k) PROVE Kept(k)'
      OBVIOUS
    <3>2. (k > j \/ (k = j /\ i > 0)) => (k > j' \/ (k = j' /\ i' > 0))
      <4> DEFINE u == i'
                 w == j'
      <4>1. u = i - 1 /\ w = IF i = 1 THEN j - 1 ELSE j
        BY <1>11
      <4> HIDE DEF u, w
      <4>2. k \in Int
        BY <1>3
      <4>3. CASE i = 1
        BY <1>5, <4>1, <4>2, <4>3 DEF u, w
      <4>4. CASE i # 1
        <5>1. u > 0 /\ w = j
          BY <1>5, <4>1, <4>4
        <5> QED
          BY <5>1 DEF u, w
      <4> QED
        BY <4>3, <4>4
    <3> QED
      BY <1>4, <1>11, <3>1, <3>2 DEF Kept
  <2>2. Fixed \subseteq Fixed'
    BY <1>2, <1>11, <2>1, FixedStays
  <2>3. \A x, y \in Older : {x, y} \in Edges \/ Replaced(x, y) =>
                            {x, y} \in Edges' \/ Replaced(x, y)'
    <3>1. SUFFICES ASSUME NEW x \in Older, NEW y \in Older, {x, y} \in Edges
                   PROVE  {x, y} \in Edges'
      BY <1>4, <2>2, ReplacedKept
    <3>2. ASSUME NEW k \in DOMAIN order, {x, y} = {order[k].p1, order[k].p2}, Old(order[k])
          PROVE  {x, y} \in Edges'
      <4>1. Second(order'[k]) = order[k].p2 /\ {order'[k].p1, Second(order'[k])} \in Edges'
        BY <1>3, <1>6, <1>11, <3>2 DEF Old, Second
      <4> QED
        BY <1>11, <3>2, <4>1
    <3> QED
      BY <1>9, <3>1, <3>2
  <2>4. \A t \in Older : {t, h} \in Edges =>
          \E u \in Older : /\ {u, h} \in Edges'
                           /\ pDivisibleBy(lead[u], pLcm(lead[t], lead[h]))
    <3>1. SUFFICES ASSUME NEW t \in Older, {t, h} \in Edges
                   PROVE  {t, h} \in Edges'
      BY <1>8
    <3> QED
      BY <1>6, <1>10, <1>11, <3>1
  <2> QED
    BY <1>1, <1>4, <2>3, <2>4, KeepCover
<1>12. ASSUME NEW l \in 1 .. i - 1, order[i].p2 = h,
              {order[l].p1, order[l].p2} = {order[j].p1, order[i].p1},
              pDivisibleBy(lead[h], order[l].lcm), Without(Mark, l, order'),
              i' = i - 2, j' = IF i' = 0 THEN j - 2 ELSE j - 1
       PROVE  OldInv' /\ NewInv' /\ CoverInv'
  <2>1. /\ Mark \in Seq(Pair) /\ Len(Mark) = Len(order) /\ DOMAIN Mark = 1 .. Len(order)
        /\ \A k \in 1 .. Len(order) : k # i => Mark[k] = order[k]
        /\ Mark[i].p2 = tail /\ Mark[i].p1 = order[i].p1
        /\ New(order[i])
    <3>1. i > 0
      BY <1>5
    <3> QED
      BY <1>1, <1>2, <1>12, <3>1, MarkPairs
  <2>2. l \in 1 .. i /\ i > 1 /\ l \in 1 .. Len(Mark) /\ l \in DOMAIN order /\ l # i /\ l < i /\ l \in Int
    BY <1>3, <1>5, <2>1
  <2>3. order[j].p1 \in Older /\ order[i].p1 \in Older
    BY <1>3, <1>5, <2>1 DEF Old, New, Marked
  <2>4. /\ order[l].p1 \in Older /\ order[l].p2 \in Older
        /\ order[l].lcm = pLcm(lead[order[l].p1], lead[order[l].p2])
    <3>1. order[l].p1 \in Older /\ order[l].p2 \in Older
      BY <1>12, <2>3
    <3> QED
      BY <1>3, <2>2, <3>1 DEF Old, New, Marked
  <2>5. ASSUME NEW k \in DOMAIN order, Kept(k)
        PROVE  k # l /\ Mark[k] = order[k]
    <3>1. k # l
      BY <1>3, <1>5, <2>4, <2>5 DEF Kept
    <3>2. k # i
      BY <1>3, <1>5, <1>12, <2>5 DEF Kept
    <3> QED
      BY <1>3, <2>1, <3>1, <3>2
  <2>6. Fixed \subseteq Fixed'
    <3>1. i' \in 0 .. i - 1
      BY <1>5, <1>12, <2>2
    <3>2. /\ pc' = "modify" /\ l \in 1 .. i /\ Mark \in Seq(Pair) /\ Len(Mark) = Len(order)
          /\ \A k \in DOMAIN order : Kept(k) => k # l /\ Mark[k] = order[k]
      BY <1>2, <2>1, <2>2, <2>5
    <3> QED
      BY <1>2, <1>3, <1>4, <1>12, <3>1, <3>2, DeletedFixed
  <2>7. order[j].p1 \in Fixed' /\ order[i].p1 \in Fixed'
    <3>1. Kept(j)
      BY <1>3, <1>5 DEF Kept
    <3>2. order[j].p1 \in Fixed
      BY <1>2, <1>5, <3>1 DEF Fixed
    <3>3. /\ DOMAIN order' = 1 .. Len(order) - 1
          /\ \A k \in l + 1 .. Len(order) : order'[k - 1] = Mark[k]
      BY <1>2, <1>12, <2>1, <2>2, WithoutAt
    <3>4. i \in l + 1 .. Len(order) /\ i - 1 \in 1 .. Len(order) - 1
      BY <1>3, <1>5, <2>2
    <3>5. PICK m \in DOMAIN order' : order'[m] = Mark[i]
      BY <3>3, <3>4
    <3>6. Kept(m)'
      BY <2>1, <3>5 DEF Kept
    <3>7. Fixed' = {order'[k].p1 : k \in {n \in DOMAIN order' : Kept(n)'}}
      BY <1>2 DEF Fixed
    <3>8. order'[m].p1 \in Fixed'
      BY <3>5, <3>6, <3>7
    <3> QED
      BY <2>1, <2>6, <3>2, <3>5, <3>8
  <2>8. \A k \in DOMAIN order : k # l => \E m \in DOMAIN order' : order'[m] = Mark[k]
    <3>1. \A k \in DOMAIN Mark : k # l => \E m \in DOMAIN order' : order'[m] = Mark[k]
      <4>1. /\ Mark \in Seq(Pair) /\ order' \in Seq(Pair) /\ l \in 1 .. Len(Mark)
            /\ Without(Mark, l, order')
        BY <1>2, <1>12, <2>1, <2>2
      <4> QED
        BY <4>1, Removed
    <3> QED
      BY <1>3, <2>1, <3>1
  <2>9. \A k \in DOMAIN order : /\ Mark[k].p1 = order[k].p1
                                /\ Second(Mark[k]) = Second(order[k])
    BY <1>3, <1>12, <2>1 DEF Second
  <2>10. \A k \in DOMAIN order : k # l => {order[k].p1, Second(order[k])} \in Edges'
    BY <1>6, <2>8, <2>9
  <2>11. \A x, y \in Older : {x, y} \in Edges \/ Replaced(x, y) =>
                             {x, y} \in Edges' \/ Replaced(x, y)'
    <3>1. SUFFICES ASSUME NEW x \in Older, NEW y \in Older, {x, y} \in Edges
                   PROVE  {x, y} \in Edges' \/ Replaced(x, y)'
      BY <1>4, <2>6, ReplacedKept
    <3>2. ASSUME NEW k \in DOMAIN order, {x, y} = {order[k].p1, order[k].p2}, Old(order[k]),
                 k # l
          PROVE  {x, y} \in Edges'
      <4>1. Second(order[k]) = order[k].p2
        BY <1>3, <3>2 DEF Old, Second
      <4> QED
        BY <2>10, <3>2, <4>1
    <3>3. ASSUME {x, y} = {order[l].p1, order[l].p2}
          PROVE  Replaced(x, y)'
      <4>1. lead[x] \in Monomial /\ lead[y] \in Monomial
        BY <1>7
      <4>2. pLcm(lead[x], lead[y]) = order[l].lcm
        <5>1. pLcm(lead[x], lead[y]) = pLcm(lead[y], lead[x])
          BY <4>1, LcmIs
        <5>2. \/ x = order[l].p1 /\ y = order[l].p2
              \/ y = order[l].p1 /\ x = order[l].p2
          BY <3>3
        <5> QED
          BY <2>4, <5>1, <5>2
      <4>3. x \in Fixed' /\ y \in Fixed'
        BY <1>12, <2>7, <3>3
      <4> QED
        BY <1>4, <1>12, <4>2, <4>3 DEF Replaced
    <3> QED
      BY <1>9, <3>1, <3>2, <3>3
  <2>12. \A t \in Older : {t, h} \in Edges =>
           \E u \in Older : /\ {u, h} \in Edges'
                            /\ pDivisibleBy(lead[u], pLcm(lead[t], lead[h]))
    <3>1. SUFFICES ASSUME NEW t \in Older, {t, h} \in Edges
                   PROVE  {t, h} \in Edges'
      BY <1>8
    <3>2. Second(order[l]) # h
      BY <1>3, <2>4 DEF Second
    <3> QED
      BY <1>10, <2>10, <3>1, <3>2
  <2> QED
    BY <1>1, <1>4, <2>11, <2>12, KeepCover
<1>13. CASE /\ order[i].p2 = h /\ order[j].lcm = order[i].lcm
            /\ Without(order, i, order')
            /\ i' = i - 1 /\ j' = IF i' = 0 THEN j - 2 ELSE j - 1
  <2>1. i \in 1 .. i /\ i \in 1 .. Len(order) /\ i # j /\ i' \in 0 .. i - 1
    BY <1>3, <1>5, <1>13
  <2>2. \A k \in DOMAIN order : Kept(k) => k # i
    BY <1>3, <1>5, <1>13 DEF Kept
  <2>3. Fixed \subseteq Fixed'
    <3>1. /\ pc' = "modify" /\ order \in Seq(Pair) /\ Len(order) = Len(order)
          /\ \A k \in DOMAIN order : Kept(k) => k # i /\ order[k] = order[k]
      BY <1>2, <1>3, <2>2
    <3>2. Without(order, i, order') /\ j' = IF i' = 0 THEN j - 2 ELSE j - 1
      BY <1>13
    <3> QED
      BY <1>2, <1>4, <2>1, <3>1, <3>2, DeletedFixed
  <2>4. \A k \in DOMAIN order : k # i => \E m \in DOMAIN order' : order'[m] = order[k]
    <3>1. /\ Without(order, i, order') /\ order \in Seq(Pair) /\ order' \in Seq(Pair)
          /\ i \in 1 .. Len(order)
      BY <1>2, <1>3, <1>13, <2>1
    <3> QED
      BY <3>1, Removed
  <2>5. \A k \in DOMAIN order : k # i => {order[k].p1, Second(order[k])} \in Edges'
    BY <1>6, <2>4
  <2>6. \A k \in {i, j} : /\ order[k].p1 \in Older /\ Second(order[k]) = h
                          /\ order[k].lcm = pLcm(lead[order[k].p1], lead[h])
    <3>1. New(order[i]) /\ New(order[j])
      BY <1>3, <1>5, <1>13 DEF Old, New, Marked
    <3> QED
      BY <1>3, <3>1 DEF New, Second
  <2>7. \A x, y \in Older : {x, y} \in Edges \/ Replaced(x, y) =>
                            {x, y} \in Edges' \/ Replaced(x, y)'
    <3>1. SUFFICES ASSUME NEW x \in Older, NEW y \in Older, {x, y} \in Edges
                   PROVE  {x, y} \in Edges'
      BY <1>4, <2>3, ReplacedKept
    <3>2. ASSUME NEW k \in DOMAIN order, {x, y} = {order[k].p1, order[k].p2}, Old(order[k])
          PROVE  {x, y} \in Edges'
      <4>1. Second(order[k]) = order[k].p2 /\ k # i
        BY <1>3, <1>13, <3>2 DEF Old, Second
      <4> QED
        BY <2>5, <3>2, <4>1
    <3> QED
      BY <1>9, <3>1, <3>2
  <2>8. \A t \in Older : {t, h} \in Edges =>
          \E u \in Older : /\ {u, h} \in Edges'
                           /\ pDivisibleBy(lead[u], pLcm(lead[t], lead[h]))
    <3>1. SUFFICES ASSUME NEW t \in Older, {t, h} \in Edges
                   PROVE  \E u \in Older : /\ {u, h} \in Edges'
                                           /\ pDivisibleBy(lead[u], pLcm(lead[t], lead[h]))
      OBVIOUS
    <3>2. CASE {t, h} \in Edges'
      BY <1>8, <3>2
    <3>3. ASSUME NEW k \in DOMAIN order, order[k].p1 = t, Second(order[k]) = h, k # i
          PROVE  {t, h} \in Edges'
      BY <2>5, <3>3
    <3>4. CASE order[i].p1 = t
      <4>1. {order[j].p1, h} \in Edges'
        BY <1>5, <2>1, <2>5, <2>6
      <4>2. pLcm(lead[t], lead[h]) = pLcm(lead[order[j].p1], lead[h])
        BY <1>13, <2>6, <3>4
      <4> QED
        BY <1>8, <2>6, <4>1, <4>2
    <3> QED
      BY <1>10, <3>1, <3>2, <3>3, <3>4
  <2> QED
    BY <1>1, <1>4, <2>7, <2>8, KeepCover
<1> QED
  BY <1>2, <1>11, <1>12, <1>13

\* The end of the two loops: the array goes into L.
LEMMA ModifyEndsCover ==
  ASSUME Inv, ModifyEnds
  PROVE  OldInv' /\ NewInv' /\ CoverInv'
<1>1. TypeOK /\ OldInv /\ NewInv /\ Shape
  BY DEF Inv, Shape
<1>2. /\ pc = "modify" /\ pc' = "enter"
      /\ UNCHANGED <<lead, treated>>
  BY DEF ModifyEnds
<1>3. L = {} /\ B = <<>> /\ rest = {}
  BY <1>1, <1>2, ModifyBasics
<1>4. \A k \in DOMAIN order : \E q \in L' : q.p1 = order[k].p1 /\ q.p2 = Second(order[k])
  BY <1>1, ModifyEndsIs
<1>5. Pairing /\ ~Pairing'
  BY <1>2 DEF Pairing
<1>6. \A x, y \in DOMAIN lead : {x, y} \in Edges => {x, y} \in Links'
  <2>1. SUFFICES ASSUME NEW x, NEW y, {x, y} \in Edges PROVE {x, y} \in Links'
    OBVIOUS
  <2>2. Range(B) = {}
    BY <1>3 DEF Range
  <2>3. \/ {x, y} \in treated
        \/ \E k \in DOMAIN order : {x, y} = {order[k].p1, Second(order[k])}
    BY <1>3, <2>1, <2>2 DEF Edges, Links, Range
  <2>4. Links' = treated' \union {{q.p1, q.p2} : q \in L'}
    BY DEF Links
  <2>5. CASE {x, y} \in treated
    BY <1>2, <2>4, <2>5
  <2>6. ASSUME NEW k \in DOMAIN order, {x, y} = {order[k].p1, Second(order[k])}
        PROVE  {x, y} \in Links'
    <3>1. PICK q \in L' : q.p1 = order[k].p1 /\ q.p2 = Second(order[k])
      BY <1>4
    <3> QED
      BY <2>4, <2>6, <3>1
  <2> QED
    BY <2>3, <2>5, <2>6
<1> QED
  BY <1>1, <1>2, <1>5, <1>6, EndCover

\* Every step keeps the pairs covering.
LEMMA CoverStep ==
  ASSUME Inv, [Next]_vars
  PROVE  OldInv' /\ NewInv' /\ CoverInv'
<1>1. TypeOK /\ OldInv /\ NewInv /\ Shape
  BY DEF Inv, Shape
<1>2. CASE InputReduced
  <2>1. Links \subseteq Links'
    BY <1>2 DEF InputReduced, Links
  <2> QED
    BY <1>2, <2>1, NewPolyCover DEF InputReduced
<1>3. CASE PairReduced
  <2>1. pc = "idle" /\ \E q \in L : L' = L \ {q} /\ treated' = treated \union {{q.p1, q.p2}}
    BY <1>3 DEF PairReduced
  <2>2. Links \subseteq Links'
    BY <2>1 DEF Links
  <2>3. CASE NewPoly
    BY <2>1, <2>2, <2>3, NewPolyCover
  <2>4. CASE UNCHANGED <<lead, ecart, rest, pc>>
    <3>1. ~Pairing /\ ~Pairing' /\ lead' = lead
      BY <2>1, <2>4 DEF Pairing
    <3> QED
      BY <2>2, <3>1, IdleCover
  <2> QED
    BY <1>3, <2>3, <2>4 DEF PairReduced
<1>4. CASE initenterpairs
  BY <1>4, EnterPairsCover
<1>5. CASE chainCrit
  BY <1>5, ChainCritCover
<1>6. CASE BestStep
  BY <1>6, BestStepCover
<1>7. CASE BestNext
  BY <1>7, BestNextCover
<1>8. CASE BestEnds
  BY <1>8, BestEndsCover
<1>9. CASE kMergeBintoL
  BY <1>9, MergeCover
<1>10. CASE ModifyOuter
  BY <1>10, ModifyOuterCover
<1>11. CASE ModifyInner
  BY <1>11, ModifyInnerCover
<1>12. CASE ModifyEnds
  BY <1>12, ModifyEndsCover
<1>13. CASE enterS
  <2>1. ~Pairing /\ ~Pairing' /\ lead' = lead /\ Links \subseteq Links'
    BY <1>13 DEF enterS, Pairing, Links
  <2> QED
    BY <2>1, IdleCover
<1>14. CASE UNCHANGED vars
  <2>1. UNCHANGED <<lead, L, treated, B, rest, order, j, i, pc>>
    BY <1>14 DEF vars, work
  <2>2. h' = h /\ \A q : Second(q)' = Second(q)
    BY <2>1, SameLead
  <2>3. Links' = Links /\ Edges' = Edges
    BY <2>1, <2>2 DEF Links, Edges
  <2>4. Fixed' = Fixed
    BY <2>1, <2>2 DEF Fixed, Kept
  <2>5. CASE Pairing
    <3>1. Pairing' /\ lead' = lead
      BY <2>1, <2>5 DEF Pairing
    <3> QED
      BY <1>1, <2>3, <2>4, <2>5, <3>1, GrowCover
  <2>6. CASE ~Pairing
    <3>1. ~Pairing' /\ lead' = lead
      BY <2>1, <2>6 DEF Pairing
    <3> QED
      BY <2>3, <2>6, <3>1, IdleCover
  <2> QED
    BY <2>5, <2>6
<1> QED
  BY <1>2, <1>3, <1>4, <1>5, <1>6, <1>7, <1>8, <1>9, <1>10, <1>11, <1>12, <1>13, <1>14
     DEF Next, Finished

-----------------------------------------------------------------------------
(* The pairs with h in Gebauer mode, and the theorems.                     *)
LEMMA EnterPairsMinimal ==
  ASSUME Inv, initenterpairs, mode = "Gebauer"
  PROVE  \A k, l \in DOMAIN B' :
           pDivisibleBy(B'[k].lcm, B'[l].lcm) => B'[k].lcm = B'[l].lcm
<1>1. TypeOK /\ LoopInv /\ PairsInv /\ BasisInv /\ MinimalInv
  BY DEF Inv
<1>2. PICK s \in rest : enterOnePairNormal(s)
  BY DEF initenterpairs
<1>3. pc = "pairs"
  BY DEF initenterpairs
<1>4. s \in Older
  BY <1>1, <1>2, <1>3 DEF BasisInv
<1>5. \A k, l \in DOMAIN B : pDivisibleBy(B[k].lcm, B[l].lcm) => B[k].lcm = B[l].lcm
  BY <1>1, <1>3 DEF MinimalInv
<1> DEFINE m == pLcm(lead[h], lead[s])
           q(ec) == [p1 |-> s, p2 |-> h, lcm |-> m, ecart |-> ec]
<1>6. \/ B' = B
      \/ \E K \in SUBSET DOMAIN B :
           \/ B' = Subsequence(B, K)
           \/ /\ \E n \in 1 .. Len(Subsequence(B, K)) + 1, ec \in Ecarts :
                   B' = InsertAt(Subsequence(B, K), n, q(ec))
              /\ \A k \in DOMAIN B : pDivComp(B[k].lcm, m) # 1
              /\ \A k \in K : pDivComp(B[k].lcm, m) # -1
  <2>1. mode # "sugar"
    OBVIOUS
  <2> QED
    BY <1>1, <1>2, <1>4, <2>1, EnterOnePair
<1>7. B \in Seq(Pair)
  BY <1>1 DEF TypeOK
<1>8. ASSUME NEW K \in SUBSET DOMAIN B
      PROVE  /\ Subsequence(B, K) \in Seq(Pair)
             /\ \A n \in DOMAIN Subsequence(B, K) : \E k \in K : Subsequence(B, K)[n] = B[k]
  BY <1>7, SubsequenceIs
<1>9. CASE B' = B
  BY <1>5, <1>9
<1>10. ASSUME NEW K \in SUBSET DOMAIN B, B' = Subsequence(B, K)
       PROVE  \A k, l \in DOMAIN B' :
                pDivisibleBy(B'[k].lcm, B'[l].lcm) => B'[k].lcm = B'[l].lcm
  <2>1. \A n \in DOMAIN B' : \E k \in DOMAIN B : B'[n] = B[k]
    BY <1>8, <1>10
  <2> QED
    BY <1>5, <2>1
<1>11. ASSUME NEW K \in SUBSET DOMAIN B,
              NEW n \in 1 .. Len(Subsequence(B, K)) + 1, NEW ec \in Ecarts,
              B' = InsertAt(Subsequence(B, K), n, q(ec)),
              \A k \in DOMAIN B : pDivComp(B[k].lcm, m) # 1,
              \A k \in K : pDivComp(B[k].lcm, m) # -1
       PROVE  \A k, l \in DOMAIN B' :
                pDivisibleBy(B'[k].lcm, B'[l].lcm) => B'[k].lcm = B'[l].lcm
  <2> DEFINE t == Subsequence(B, K)
             e == q(ec)
  <2>1. t \in Seq(Pair) /\ \A o \in DOMAIN t : \E k \in K : t[o] = B[k]
    BY <1>8
  <2>2. e.lcm = m
    OBVIOUS
  <2>3. e \in Pair
    <3>1. s \in Poly /\ h \in Poly /\ m \in Monomial
      <4>1. /\ h \in Nat /\ Older \subseteq 1 .. h /\ \A g \in 1 .. h : lead[g] \in Monomial
            /\ 1 .. h \subseteq Poly
        BY <1>1, Basics
      <4>2. s \in 1 .. h /\ h \in 1 .. h
        BY <1>4, <4>1
      <4> QED
        BY <4>1, <4>2, LcmIs
    <3> QED
      BY <3>1 DEF Pair
  <2>4. B' = InsertAt(t, n, e) /\ n \in 1 .. Len(t) + 1
    BY <1>11
  <2> HIDE DEF t, e, m
  <2>5. \A l \in DOMAIN InsertAt(t, n, e) :
          InsertAt(t, n, e)[l] = e \/ \E k \in DOMAIN t : InsertAt(t, n, e)[l] = t[k]
    <3>1. t \in Seq(Pair) /\ n \in 1 .. Len(t) + 1 /\ e \in Pair
      BY <2>1, <2>3, <2>4
    <3>2. InsertAt(t, n, e) \in Seq(Pair)
      BY <3>1, Inserted
    <3>3. SUFFICES ASSUME NEW l \in DOMAIN InsertAt(t, n, e)
                   PROVE  \/ InsertAt(t, n, e)[l] = e
                          \/ \E k \in DOMAIN t : InsertAt(t, n, e)[l] = t[k]
      OBVIOUS
    <3> QED
      BY <3>1, <3>3, Inserted
  <2>6. \A l \in DOMAIN B' : B'[l].lcm = m \/ \E k \in K : B'[l].lcm = B[k].lcm
    BY <2>1, <2>2, <2>4, <2>5
  <2>7. \A k \in K : /\ pDivisibleBy(B[k].lcm, m) => B[k].lcm = m
                     /\ pDivisibleBy(m, B[k].lcm) => B[k].lcm = m
    BY <1>11, DivCompIs
  <2> QED
    BY <1>5, <2>6, <2>7
<1> QED
  BY <1>6, <1>9, <1>10, <1>11

\* What is left of B has that property, and the loop for the best begins.
LEMMA ChainCritMinimal ==
  ASSUME Inv, chainCrit, mode = "Gebauer"
  PROVE  MinimalInv'
<1>1. TypeOK /\ MinimalInv
  BY DEF Inv
<1> DEFINE K == {k \in DOMAIN B : \A z \in pairtest : ~pDivisibleBy(lead[z], B[k].lcm)}
<1>2. /\ pc = "pairs" /\ B' = Subsequence(B, K) /\ K \in SUBSET DOMAIN B
      /\ pc' = "best" /\ j' = Len(B') /\ i' = Len(B') - 1
  BY DEF chainCrit
<1> HIDE DEF K
<1>3. /\ B' \in Seq(Pair)
      /\ \A n \in DOMAIN B' : \E k \in DOMAIN B : B'[n] = B[k]
  <2>1. B \in Seq(Pair) /\ K \in SUBSET DOMAIN B
    BY <1>1, <1>2 DEF TypeOK
  <2>2. /\ Subsequence(B, K) \in Seq(Pair)
        /\ \A n \in DOMAIN Subsequence(B, K) :
             Nth(K, n) \in K /\ Subsequence(B, K)[n] = B[Nth(K, n)]
    BY <2>1, SubsequenceIs
  <2> QED
    BY <1>2, <2>2
<1>4. \A k, l \in DOMAIN B : pDivisibleBy(B[k].lcm, B[l].lcm) => B[k].lcm = B[l].lcm
  BY <1>1, <1>2 DEF MinimalInv
<1>5. \A k, l \in DOMAIN B' : pDivisibleBy(B'[k].lcm, B'[l].lcm) => B'[k].lcm = B'[l].lcm
  BY <1>3, <1>4
<1>6. \A l \in DOMAIN B' : ~(l > j') /\ ~(i' < l /\ l < j')
  <2>1. SUFFICES ASSUME NEW l \in DOMAIN B' PROVE ~(l > j') /\ ~(i' < l /\ l < j')
    OBVIOUS
  <2> DEFINE n == Len(B')
  <2>2. n \in Nat /\ l \in 1 .. n
    BY <1>3
  <2> HIDE DEF n
  <2>3. ~(l > n) /\ ~(n - 1 < l /\ l < n)
    BY <2>2
  <2> QED
    BY <1>2, <2>3 DEF n
<1> QED
  BY <1>2, <1>5, <1>6 DEF MinimalInv

\* In Gebauer mode the ecarts do not count, and the last of the pairs stays.
LEMMA BestStepMinimal ==
  ASSUME Inv, BestStep, mode = "Gebauer"
  PROVE  MinimalInv'
<1>1. TypeOK /\ LoopInv /\ MinimalInv
  BY DEF Inv
<1>2. /\ pc = "best" /\ pc' = "best"
      /\ i \in 1 .. j - 1 /\ j \in 1 .. Len(B) /\ B' \in Seq(Pair)
      /\ \/ B' = B /\ j' = j /\ i' = i - 1 /\ B[j].lcm # B[i].lcm
         \/ /\ j' = j - 1 /\ i' = i - 1
            /\ Without(B, i, B')
  <2>1. SugarLe(B[j].ecart, B[i].ecart)
    BY DEF SugarLe
  <2> QED
    BY <1>1, <2>1, BestStepIs
<1>3. B \in Seq(Pair) /\ Len(B) \in Nat /\ DOMAIN B = 1 .. Len(B)
  BY <1>1 DEF TypeOK
<1>4. /\ i \in Int /\ j \in Int /\ 1 <= i /\ i < j /\ j <= Len(B) /\ i \in 1 .. Len(B)
  BY <1>2, <1>3
<1>5. /\ \A k, l \in DOMAIN B : pDivisibleBy(B[k].lcm, B[l].lcm) => B[k].lcm = B[l].lcm
      /\ \A k, l \in DOMAIN B : k > j /\ l < k => B[l].lcm # B[k].lcm
      /\ \A l \in DOMAIN B : i < l /\ l < j => B[l].lcm # B[j].lcm
  BY <1>1, <1>2 DEF MinimalInv
<1>6. CASE B' = B /\ j' = j /\ i' = i - 1 /\ B[j].lcm # B[i].lcm
  <2>1. ASSUME NEW l \in DOMAIN B, i - 1 < l, l < j
        PROVE  B[l].lcm # B[j].lcm
    <3>1. l = i \/ i < l
      BY <1>3, <1>4, <2>1
    <3> QED
      BY <1>5, <1>6, <2>1, <3>1
  <2> QED
    BY <1>2, <1>5, <1>6, <2>1 DEF MinimalInv
<1>7. CASE j' = j - 1 /\ i' = i - 1 /\ Without(B, i, B')
  <2>1. /\ DOMAIN B' = 1 .. Len(B) - 1
        /\ \A k \in 1 .. Len(B) - 1 : B'[k] = IF k < i THEN B[k] ELSE B[k + 1]
    BY <1>2, <1>3, <1>7 DEF Without
  <2>2. ASSUME NEW k \in DOMAIN B', k > j - 1
        PROVE  B'[k] = B[k + 1] /\ k + 1 \in DOMAIN B /\ k + 1 > j /\ k \in Int
    <3>1. ~(k < i) /\ k + 1 \in 1 .. Len(B) /\ k + 1 > j /\ k \in Int
      BY <1>3, <1>4, <2>1, <2>2
    <3> QED
      BY <1>3, <2>1, <3>1
  <2>3. ASSUME NEW k \in DOMAIN B', NEW l \in DOMAIN B', k > j - 1, l < k
        PROVE  B'[l].lcm # B'[k].lcm
    <3>1. PICK o \in DOMAIN B : B'[l] = B[o] /\ o <= l + 1
      <4>1. CASE l < i
        <5>1. l \in 1 .. Len(B) /\ l <= l + 1
          BY <1>3, <2>1
        <5> QED
          BY <1>3, <2>1, <4>1, <5>1
      <4>2. CASE ~(l < i)
        <5>1. l + 1 \in 1 .. Len(B) /\ l + 1 <= l + 1
          BY <1>3, <2>1
        <5> QED
          BY <1>3, <2>1, <4>2, <5>1
      <4> QED
        BY <4>1, <4>2
    <3>2. B'[k] = B[k + 1] /\ k + 1 \in DOMAIN B /\ k + 1 > j /\ k \in Int
      BY <2>2, <2>3
    <3>3. o < k + 1
      <4>1. l \in Int /\ o \in Int
        BY <1>3, <2>1
      <4> QED
        BY <2>3, <3>1, <3>2, <4>1
    <3> QED
      BY <1>5, <3>1, <3>2, <3>3
  <2>4. ASSUME NEW l \in DOMAIN B', i - 1 < l, l < j - 1
        PROVE  B'[l].lcm # B'[j - 1].lcm
    <3>1. /\ ~(l < i) /\ ~(j - 1 < i) /\ j - 1 \in 1 .. Len(B) - 1 /\ (j - 1) + 1 = j
          /\ l + 1 \in 1 .. Len(B) /\ i < l + 1 /\ l + 1 < j
      BY <1>3, <1>4, <2>1, <2>4
    <3>2. B'[l] = B[l + 1] /\ B'[j - 1] = B[j]
      BY <2>1, <3>1
    <3> QED
      BY <1>3, <1>5, <3>1, <3>2
  <2>5. \A k \in DOMAIN B' : \E l \in DOMAIN B : B'[k] = B[l]
    BY <1>2, <1>3, <1>4, <1>7, Removed
  <2>6. \A k, l \in DOMAIN B' : pDivisibleBy(B'[k].lcm, B'[l].lcm) => B'[k].lcm = B'[l].lcm
    BY <1>5, <2>5
  <2>7. /\ \A k, l \in DOMAIN B' : k > j' /\ l < k => B'[l].lcm # B'[k].lcm
        /\ \A l \in DOMAIN B' : i' < l /\ l < j' => B'[l].lcm # B'[j'].lcm
    BY <1>7, <2>3, <2>4
  <2> QED
    BY <1>2, <2>6, <2>7 DEF MinimalInv
<1> QED
  BY <1>2, <1>6, <1>7

\* The pair the next round begins with is compared with all before it.
LEMMA BestNextMinimal ==
  ASSUME Inv, BestNext, mode = "Gebauer"
  PROVE  MinimalInv'
<1>1. TypeOK /\ LoopInv /\ MinimalInv
  BY DEF Inv
<1>2. /\ pc = "best" /\ pc' = "best" /\ j > 1 /\ i < 1 /\ j' = j - 1 /\ i' = j - 2 /\ B' = B
  BY DEF BestNext
<1>3. /\ B \in Seq(Pair) /\ Len(B) \in Nat /\ DOMAIN B = 1 .. Len(B)
      /\ j \in 0 .. Len(B) /\ i \in -1 .. j - 1
  BY <1>1, <1>2 DEF TypeOK, LoopInv
<1>4. /\ \A k, l \in DOMAIN B : pDivisibleBy(B[k].lcm, B[l].lcm) => B[k].lcm = B[l].lcm
      /\ \A k, l \in DOMAIN B : k > j /\ l < k => B[l].lcm # B[k].lcm
      /\ \A l \in DOMAIN B : i < l /\ l < j => B[l].lcm # B[j].lcm
  BY <1>1, <1>2 DEF MinimalInv
<1>5. ASSUME NEW k \in DOMAIN B, NEW l \in DOMAIN B, k > j - 1, l < k
      PROVE  B[l].lcm # B[k].lcm
  <2>1. k = j \/ k > j
    BY <1>3, <1>5
  <2>2. i < l
    BY <1>2, <1>3
  <2> QED
    BY <1>4, <1>5, <2>1, <2>2
<1>6. \A l \in DOMAIN B : ~(j - 2 < l /\ l < j - 1)
  BY <1>3
<1> QED
  BY <1>2, <1>4, <1>5, <1>6 DEF MinimalInv

\* In the end the lcms in B differ.
LEMMA BestEndsMinimal ==
  ASSUME Inv, BestEnds, mode = "Gebauer"
  PROVE  MinimalInv'
<1>1. TypeOK /\ LoopInv /\ PairsInv /\ MinimalInv
  BY DEF Inv
<1>2. /\ pc = "best" /\ pc' = "enter" /\ j <= 1 /\ L' = L \union Range(B) /\ lead' = lead
  BY DEF BestEnds
<1>3. /\ B \in Seq(Pair) /\ Len(B) \in Nat /\ DOMAIN B = 1 .. Len(B) /\ j \in 0 .. Len(B)
  BY <1>1, <1>2 DEF TypeOK, LoopInv
<1>4. /\ \A k, l \in DOMAIN B : pDivisibleBy(B[k].lcm, B[l].lcm) => B[k].lcm = B[l].lcm
      /\ \A k, l \in DOMAIN B : k > j /\ l < k => B[l].lcm # B[k].lcm
  BY <1>1, <1>2 DEF MinimalInv
<1>5. h' = h
  BY <1>2, SameLead
<1>6. \A q \in L : q.p2 # h
  <2>1. \A q \in L : Old(q)
    BY <1>1, <1>2 DEF PairsInv, Pairing
  <2>2. h \notin Older
    BY <1>1, Basics
  <2> QED
    BY <2>1, <2>2 DEF Old
<1>7. ASSUME NEW k \in DOMAIN B, NEW l \in DOMAIN B, B[k].lcm = B[l].lcm
      PROVE  k = l
  <2>1. k \in Int /\ l \in Int /\ k >= 1 /\ l >= 1 /\ j \in Int
    BY <1>3
  <2>2. CASE k < l
    <3>1. l > j
      BY <1>2, <2>1, <2>2
    <3> QED
      BY <1>4, <1>7, <2>2, <3>1
  <2>3. CASE l < k
    <3>1. k > j
      BY <1>2, <2>1, <2>3
    <3> QED
      BY <1>4, <1>7, <2>3, <3>1
  <2> QED
    BY <2>1, <2>2, <2>3
<1>8. ASSUME NEW q \in L', NEW r \in L', q.p2 = h', r.p2 = h', pDivisibleBy(q.lcm, r.lcm)
      PROVE  q = r
  <2>1. PICK k \in DOMAIN B : q = B[k]
    BY <1>2, <1>5, <1>6, <1>8 DEF Range
  <2>2. PICK l \in DOMAIN B : r = B[l]
    BY <1>2, <1>5, <1>6, <1>8 DEF Range
  <2> QED
    BY <1>4, <1>7, <1>8, <2>1, <2>2
<1> QED
  BY <1>2, <1>8 DEF MinimalInv

\* Every step keeps the pairs with h minimal in Gebauer mode.
LEMMA MinimalStep ==
  ASSUME Inv, [Next]_vars
  PROVE  MinimalInv'
<1>1. TypeOK /\ LoopInv /\ MinimalInv
  BY DEF Inv
<1>2. SUFFICES ASSUME mode = "Gebauer" PROVE MinimalInv'
  <2>1. mode' = mode
    BY DEF Next, InputReduced, PairReduced, initenterpairs, chainCrit, BestStep, BestNext,
           BestEnds, kMergeBintoL, ModifyOuter, ModifyInner, ModifyEnds, enterS, Finished, vars
  <2> QED
    BY <1>2, <2>1 DEF MinimalInv
<1>3. pc \notin {"merge", "modify"}
  BY <1>1, <1>2 DEF MinimalInv
<1>4. ASSUME pc = "idle", NewPoly, B' = B PROVE MinimalInv'
  <2>1. pc' = "pairs" /\ B' = <<>>
    BY <1>1, <1>4 DEF NewPoly, LoopInv
  <2>2. \A k \in DOMAIN <<>> : FALSE
    OBVIOUS
  <2> QED
    BY <2>1, <2>2 DEF MinimalInv
<1>5. ASSUME pc \in {"idle", "enter"}, pc' \in {"idle", "enter"}, lead' = lead, L' \subseteq L
      PROVE  MinimalInv'
  <2>1. h' = h
    BY <1>5, SameLead
  <2>2. \A q, r \in L : q.p2 = h /\ r.p2 = h /\ pDivisibleBy(q.lcm, r.lcm) => q = r
    BY <1>1, <1>2, <1>5 DEF MinimalInv
  <2>3. \A q, r \in L' : q.p2 = h' /\ r.p2 = h' /\ pDivisibleBy(q.lcm, r.lcm) => q = r
    BY <1>5, <2>1, <2>2
  <2> QED
    BY <1>5, <2>3 DEF MinimalInv
<1>6. CASE InputReduced
  BY <1>4, <1>6 DEF InputReduced
<1>7. CASE PairReduced
  <2>1. pc = "idle" /\ B' = B /\ L' \subseteq L
    BY <1>7 DEF PairReduced
  <2>2. CASE UNCHANGED <<lead, ecart, rest, pc>>
    BY <1>5, <2>1, <2>2
  <2> QED
    BY <1>4, <1>7, <2>1, <2>2 DEF PairReduced
<1>8. CASE initenterpairs
  <2>1. pc' = "pairs"
    BY <1>8 DEF initenterpairs
  <2>2. \A k, l \in DOMAIN B' : pDivisibleBy(B'[k].lcm, B'[l].lcm) => B'[k].lcm = B'[l].lcm
    BY <1>2, <1>8, EnterPairsMinimal
  <2> QED
    BY <2>1, <2>2 DEF MinimalInv
<1>9. CASE chainCrit
  BY <1>2, <1>9, ChainCritMinimal
<1>10. CASE BestStep
  BY <1>2, <1>10, BestStepMinimal
<1>11. CASE BestNext
  BY <1>2, <1>11, BestNextMinimal
<1>12. CASE BestEnds
  BY <1>2, <1>12, BestEndsMinimal
<1>13. CASE kMergeBintoL \/ ModifyOuter \/ ModifyInner \/ ModifyEnds
  BY <1>3, <1>13 DEF kMergeBintoL, ModifyOuter, ModifyInner, ModifyEnds
<1>14. CASE enterS
  BY <1>5, <1>14 DEF enterS
<1>15. CASE UNCHANGED vars
  <2>1. UNCHANGED <<mode, lead, L, B, j, i, pc>>
    BY <1>15 DEF vars, work
  <2>2. h' = h
    BY <2>1, SameLead
  <2> QED
    BY <1>1, <2>1, <2>2 DEF MinimalInv
<1> QED
  BY <1>6, <1>7, <1>8, <1>9, <1>10, <1>11, <1>12, <1>13, <1>14, <1>15 DEF Next, Finished

\* The invariant holds after every step.
THEOREM PairsInvariance == Spec => []Inv
<1>1. Init => Inv
  BY InitInv
<1>2. Inv /\ [Next]_vars => Inv'
  <2>1. SUFFICES ASSUME Inv, [Next]_vars PROVE Inv'
    OBVIOUS
  <2>2. Shape' /\ OldInv' /\ NewInv' /\ CoverInv' /\ MinimalInv'
    BY <2>1, ShapeStep, CoverStep, MinimalStep
  <2> QED
    BY <2>2 DEF Inv, Shape
<1> QED
  BY <1>1, <1>2, PTL DEF Spec

\* The invariant is strong enough.
LEMMA InvCovered == Inv => Covered
<1>1. SUFFICES ASSUME Inv, pc = "idle" PROVE Covered
  BY DEF Covered
<1>2. CoveredBy(lead, DOMAIN lead, Links)
  BY <1>1 DEF Inv, CoverInv, Pairing
<1>3. TypeOK
  BY <1>1 DEF Inv
<1>4. DOMAIN lead = 1 .. h /\ \A g \in 1 .. h : lead[g] \in Monomial
  BY <1>3, Basics
<1>5. SUFFICES ASSUME NEW a \in DOMAIN lead, NEW b \in DOMAIN lead
               PROVE  LET within == {g \in DOMAIN lead : pDivisibleBy(lead[g], pLcm(lead[a], lead[b]))}
                      IN  \A X \in SUBSET within :
                            a \in X /\ b \notin X => \E x \in X, y \in within \ X : {x, y} \in Links
  BY DEF Covered
<1> DEFINE within == {g \in DOMAIN lead : pDivisibleBy(lead[g], pLcm(lead[a], lead[b]))}
<1>6. SUFFICES ASSUME NEW X \in SUBSET within, a \in X, b \notin X
               PROVE  \E x \in X, y \in within \ X : {x, y} \in Links
  OBVIOUS
<1>7. X \in SUBSET DOMAIN lead
  BY <1>6
<1>8. PICK x \in X, y \in DOMAIN lead \ X :
        /\ pDivisibleBy(lead[x], pLcm(lead[a], lead[b]))
        /\ pDivisibleBy(lead[y], pLcm(lead[a], lead[b]))
        /\ {x, y} \in Links
  BY <1>2, <1>6, <1>7 DEF CoveredBy
<1> QED
  BY <1>8

\* And for the shape of pairs and basis.
LEMMA InvSafe == Inv => PairsSafe
<1>1. SUFFICES ASSUME Inv PROVE PairsSafe
  OBVIOUS
<1>2. TypeOK /\ PairsInv /\ BasisInv /\ MinimalInv
  BY <1>1 DEF Inv
<1>3. PairsIntact
  <2>1. tail \notin DOMAIN lead
    BY <1>2, Basics DEF tail
  <2> QED
    BY <1>2, <2>1 DEF PairsInv, PairsIntact
<1>4. BasisIsMinimal
  BY <1>2 DEF BasisInv, BasisIsMinimal
<1>5. NewPairsMinimal
  BY <1>2 DEF MinimalInv, NewPairsMinimal
<1> QED
  BY <1>2, <1>3, <1>4, <1>5 DEF PairsSafe

\* For every ring, every number of polynomials and each of the three modes: any two
\* polynomials are linked by pairs that are done with or wait in L, whatever the
\* criteria of enterpairs and chainCritNormal have thrown away.
THEOREM CoveredCorrect == Spec => []Covered
<1>1. Inv => Covered
  BY InvCovered
<1> QED
  BY <1>1, PairsInvariance, PTL

\* Between two polynomials no mark of the plain mode is left, S is a minimal basis
\* of the leading ideal, and in Gebauer mode the new pairs are minimal.
THEOREM PairsCorrect == Spec => []PairsSafe
<1>1. Inv => PairsSafe
  BY InvSafe
<1> QED
  BY <1>1, PairsInvariance, PTL
=============================================================================
