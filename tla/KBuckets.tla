------------------------------ MODULE KBuckets ------------------------------
(***************************************************************************)
(* Geometric buckets: a polynomial kept as a sum of polynomials whose      *)
(* lengths grow by the factor Base, so that many additions of short        *)
(* polynomials cost little.  buckets[0] is NULL or the leading monomial of *)
(* the sum; buckets_length caches the lengths, and every operation decides *)
(* by them.  Monomials are the powers of one variable and polynomials the  *)
(* functions from exponents to Z/modulus, where a coefficient 0 is a       *)
(* monomial that is not there; modulus need not be prime.                  *)
(***************************************************************************)
EXTENDS Integers, FiniteSets, Sequences, SequencesExt, FiniteSetsExt

CONSTANTS Moduli,      \* characteristics of the coefficients
          MaxExp,      \* bound: the largest exponent, for each of them
          Base,        \* 4, or 2 with BUCKET_TWO_BASE
          Supports     \* the supports of the polynomials that are added

VARIABLES modulus,
          b,           \* the bucket: buckets, buckets_length, buckets_used
          value        \* what the sum of the buckets has to be

vars == <<modulus, b, value>>

Exps == 0 .. MaxExp[modulus]
MAX_BUCKET == MaxExp[modulus] + 1

Zero == [e \in Exps |-> 0]
Support(p) == {e \in Exps : p[e] # 0}
pLength(p) == Cardinality(Support(p))
Deg(p) == Max(Support(p))
Lead(p) == [e \in Exps |-> IF e = Deg(p) THEN p[e] ELSE 0]
Plus(p, q) == [e \in Exps |-> (p[e] + q[e]) % modulus]
Times(c, d, p) == [e \in Exps |-> IF e < d THEN 0 ELSE (c * p[e - d]) % modulus]
Fits(d, p) == p # Zero /\ Deg(p) + d \in Exps

Prime == \A x, y \in 1 .. modulus - 1 : (x * y) % modulus # 0
Units == {x \in 1 .. modulus - 1 : \E y \in 1 .. modulus - 1 : (x * y) % modulus = 1}
Polys == {[e \in Exps |-> IF e \notin S THEN 0 ELSE IF e = Max(S) THEN c ELSE 1] :
            c \in 1 .. modulus - 1, S \in {S \in Supports : S \subseteq Exps}}

-----------------------------------------------------------------------------
pLogLength(l) ==
  IF l = 0 THEN 0 ELSE CHOOSE i \in 1 .. MAX_BUCKET : l <= Base^i /\ (i = 1 \/ l > Base^(i - 1))

Empty == [buckets |-> [i \in 0 .. MAX_BUCKET |-> Zero],
          length |-> [i \in 0 .. MAX_BUCKET |-> 0], used |-> 0]

Put(k, i, p, l) == [k EXCEPT !.buckets[i] = p, !.length[i] = l]

kBucketAdjustBucketsUsed(k) ==
  [k EXCEPT !.used = Max({0} \union {i \in 1 .. k.used : k.buckets[i] # Zero})]

kBucketInit(p) ==
  LET i == pLogLength(pLength(p) - 1)
      tail == Plus(p, Times(modulus - 1, 0, Lead(p)))
      k == Put(Empty, 0, Lead(p), 1)
  IN  IF pLength(p) > 1 THEN [Put(k, i, tail, pLength(p) - 1) EXCEPT !.used = i] ELSE k

(* The leading monomial goes to the head of the first bucket with room.    *)
kBucketMergeLm(k) ==
  LET i == CHOOSE i \in 1 .. MAX_BUCKET :
             k.length[i] < Base^i /\ \A j \in 1 .. i - 1 : k.length[j] >= Base^j
      m == Put(Put(k, i, Plus(k.buckets[0], k.buckets[i]), k.length[i] + 1), 0, Zero, 0)
  IN  IF k.buckets[0] = Zero THEN k
      ELSE [m EXCEPT !.used = IF i > @ THEN i ELSE @]

(* p_Add_q sums the lengths it is given and takes off what it cancels.     *)
SumLength(p, l, q, lq) == l + lq - (pLength(p) + pLength(q) - pLength(Plus(p, q)))

(* The loop at the end of every addition: p goes into the bucket for its   *)
(* length, together with what is there, and on while there is something.   *)
RECURSIVE Settle(_, _, _)
Settle(k, p, l) ==
  LET i == pLogLength(l)
      cleared == Put(k, i, Zero, 0)
      placed == Put(k, i, p, l)
  IN  IF k.buckets[i] # Zero
      THEN Settle(cleared, Plus(p, k.buckets[i]), SumLength(p, l, k.buckets[i], k.length[i]))
      ELSE IF i >= k.used THEN [placed EXCEPT !.used = i]
      ELSE kBucketAdjustBucketsUsed(placed)

kBucketAdjust(k, i) == Settle(Put(k, i, Zero, 0), k.buckets[i], k.length[i])

Add_q(k, q) == IF q = Zero THEN k ELSE Settle(kBucketMergeLm(k), q, pLength(q))

(* Faulty: the sign is forgotten where there is nothing to subtract from.  *)
Minus_m_Mult_pUnsigned(k, c, d, p) ==
  LET merged == kBucketMergeLm(k)
      i == pLogLength(pLength(p))
      q == merged.buckets[i]
      minus == Times(modulus - c, d, p)
  IN  IF p = Zero THEN k
      ELSE IF i <= merged.used /\ q # Zero
      THEN Settle(Put(merged, i, Zero, 0), Plus(q, minus),
                  SumLength(q, merged.length[i], minus, pLength(p)))
      ELSE Settle(merged, Times(c, d, p), pLength(p))

Minus_m_Mult_p(k, c, d, p) ==
  LET merged == kBucketMergeLm(k)
      minus == Times(modulus - c, d, p)
      i == pLogLength(pLength(p))
      q == merged.buckets[i]
  IN  IF p = Zero THEN k
      ELSE IF ~Prime THEN Settle(merged, minus, pLength(minus))
      ELSE IF i <= merged.used /\ q # Zero
      THEN Settle(Put(merged, i, Zero, 0), Plus(q, minus),
                  SumLength(q, merged.length[i], minus, pLength(p)))
      ELSE Settle(merged, minus, pLength(p))

(* Multiplied one after the other; with zero divisors a bucket may become  *)
(* shorter and is put where it belongs, while the loop goes on.            *)
Mult_n(k, n) ==
  LET times(m, i) == Put(m, i, Times(n, 0, m.buckets[i]), m.length[i])
      short(m, i) == Put(m, i, m.buckets[i], pLength(m.buckets[i]))
      Body(m, i) == IF i > m.used \/ m.buckets[i] = Zero THEN m
                    ELSE IF Prime THEN times(m, i) ELSE kBucketAdjust(short(times(m, i), i), i)
  IN  FoldLeft(Body, k, [i \in 1 .. MAX_BUCKET + 1 |-> i - 1])

-----------------------------------------------------------------------------
(* p_kBucketSetLm: one pass over the heads of the buckets, j the one with  *)
(* the largest.  Equal heads are added up in j at once, and a head whose   *)
(* coefficient has become 0 is taken off only when a greater one is met.   *)
Drop(s) == IF s.j > 0 /\ s.k.buckets[s.j][s.top] = 0
           THEN [s EXCEPT !.k.length[s.j] = @ - 1] ELSE s

Head_(s, i) ==
  LET p == s.k.buckets[i] IN
  IF i > s.k.used \/ p = Zero \/ (s.j > 0 /\ s.top > Deg(p)) THEN s
  ELSE IF s.j = 0 \/ s.top < Deg(p) THEN [Drop(s) EXCEPT !.j = i, !.top = Deg(p)]
  ELSE [s EXCEPT !.k.buckets[s.j][s.top] = (@ + p[s.top]) % modulus,
                 !.k.buckets[i][s.top] = 0, !.k.length[i] = @ - 1]

RECURSIVE SetLm(_)
SetLm(k) ==
  LET s == FoldLeft(Head_, [k |-> k, j |-> 0, top |-> 0], [i \in 1 .. MAX_BUCKET |-> i])
      p == s.k.buckets[s.j]
      lt == [e \in Exps |-> IF e = s.top THEN p[e] ELSE 0]
      rest == Put(s.k, s.j, [p EXCEPT ![s.top] = 0], s.k.length[s.j] - 1)
  IN  IF s.j = 0 THEN k
      ELSE IF p[s.top] = 0 THEN SetLm(Drop(s).k)
      ELSE kBucketAdjustBucketsUsed(Put(rest, 0, lt, 1))

kBucketGetLm(k) == IF k.buckets[0] # Zero THEN k ELSE SetLm(k)
Extracted(k) == Put(kBucketGetLm(k), 0, Zero, 0)

kBucketCanonicalize(k) ==
  LET Body(s, i) == [p |-> Plus(s.p, k.buckets[i]),
                     l |-> SumLength(s.p, s.l, k.buckets[i], k.length[i])]
      tail == FoldLeft(Body, [p |-> Zero, l |-> 0], [i \in 1 .. k.used |-> i])
      l == tail.l + k.length[0]
      i == pLogLength(l)
  IN  [Put(Empty, i, Plus(tail.p, k.buckets[0]), l) EXCEPT !.used = i]

(* One step of a reduction by p: the leading terms cancel.  The gcd that   *)
(* ksCheckCoeff divides out is 1 in a prime field.                         *)
PolyRed(k, p) ==
  LET lm == kBucketGetLm(k).buckets[0]
      an == p[Deg(p)]
      tail == [p EXCEPT ![Deg(p)] = 0]
      k1 == IF an = 1 THEN Extracted(k) ELSE Mult_n(Extracted(k), an)
  IN  IF tail = Zero THEN Extracted(k)
      ELSE Minus_m_Mult_p(k1, lm[Deg(lm)], Deg(lm) - Deg(p), tail)

-----------------------------------------------------------------------------
Init ==
  /\ modulus \in Moduli
  /\ value \in Polys
  /\ b = kBucketInit(value)

Becomes(k, v) == b' = k /\ value' = v /\ UNCHANGED modulus

Neg(p) == Times(modulus - 1, 0, p)
Minus(p, q) == Plus(p, Neg(q))

GetLm == Becomes(kBucketGetLm(b), value)

ExtractLm == value # Zero /\ Becomes(Extracted(b), Minus(value, Lead(value)))

(* p_Mult_q puts back a monomial it has extracted, or a larger one.        *)
kBucketSetLm(e) ==
  /\ \A i \in 0 .. MAX_BUCKET : \A j \in Support(b.buckets[i]) : j < e
  /\ LET lm == [i \in Exps |-> IF i = e THEN 1 ELSE 0]
     IN  Becomes(Put(kBucketMergeLm(b), 0, lm, 1), Plus(value, lm))

kBucket_Add_q(q) == Becomes(Add_q(b, q), Plus(value, q))

kBucket_Minus_m_Mult_p(c, d, p) ==
  Fits(d, p) /\ Becomes(Minus_m_Mult_p(b, c, d, p), Minus(value, Times(c, d, p)))

(* The leading monomial is in the way of the ring case.                    *)
kBucket_Mult_n(n) ==
  /\ IF Prime THEN n # 0 ELSE b.buckets[0] = Zero
  /\ Becomes(Mult_n(b, n), Times(n, 0, value))

Canonicalize == Becomes(kBucketCanonicalize(b), value)

(* Cleared into one polynomial and put into a bucket again.                *)
kBucketClear ==
  /\ value # Zero
  /\ LET k == kBucketCanonicalize(b) IN Becomes(kBucketInit(k.buckets[k.used]), value)

(* All monomials larger than the leading one of q are taken out.           *)
kBucket_ExtractLarger(q) ==
  LET Body(k, i) == LET lm == kBucketGetLm(k).buckets[0] IN
                    IF lm = Zero \/ Deg(lm) <= Deg(q) THEN kBucketGetLm(k) ELSE Extracted(k)
  IN  Becomes(FoldLeft(Body, b, [i \in 1 .. MAX_BUCKET |-> i]),
              [e \in Exps |-> IF e > Deg(q) THEN 0 ELSE value[e]])

kBucketPolyRed(p) ==
  /\ Prime /\ value # Zero /\ Deg(p) <= Deg(value)
  /\ LET lc == value[Deg(value)]  an == IF pLength(p) = 1 THEN 1 ELSE p[Deg(p)]
     IN  Becomes(PolyRed(b, p),
           IF pLength(p) = 1 THEN Minus(value, Lead(value))
           ELSE Minus(Times(an, 0, value), Times(lc, Deg(value) - Deg(p), p)))

Next ==
  \/ GetLm \/ ExtractLm \/ Canonicalize \/ kBucketClear
  \/ \E e \in Exps : kBucketSetLm(e)
  \/ \E n \in 0 .. modulus - 1 : kBucket_Mult_n(n)
  \/ \E p \in Polys :
       \/ kBucket_Add_q(p) \/ kBucketPolyRed(p) \/ kBucket_ExtractLarger(p)
       \/ \E c \in 1 .. modulus - 1, d \in 0 .. 1 : kBucket_Minus_m_Mult_p(c, d, p)

Spec == Init /\ [][Next]_vars

-----------------------------------------------------------------------------
TypeOK ==
  LET polys == [Exps -> 0 .. modulus - 1] IN
  /\ modulus \in Moduli /\ value \in polys
  /\ b.buckets \in [0 .. MAX_BUCKET -> polys] /\ b.length \in [0 .. MAX_BUCKET -> Nat]
  /\ b.used \in 0 .. MAX_BUCKET

(* The buckets still sum up to the polynomial that the operations would    *)
(* have given on a plain one.                                              *)
SumIsValue ==
  \A e \in Exps :
    LET upto[i \in 0 .. MAX_BUCKET] ==
          b.buckets[i][e] + IF i = 0 THEN 0 ELSE upto[i - 1]
    IN  upto[MAX_BUCKET] % modulus = value[e]

(* What kbTest tests: the cached lengths are right, and no bucket is too   *)
(* long for its place or lies beyond buckets_used.                         *)
LengthsRight ==
  \A i \in 0 .. MAX_BUCKET :
    /\ b.length[i] = pLength(b.buckets[i])
    /\ b.length[i] <= Base^i
    /\ i > b.used => b.buckets[i] = Zero

(* A leading monomial that is known stays the leading one, so that it can  *)
(* be put at the head of any bucket without a comparison.                  *)
LmIsLargest ==
  b.buckets[0] # Zero =>
    \A i \in 1 .. MAX_BUCKET : b.buckets[i] # Zero => Deg(b.buckets[i]) < Deg(b.buckets[0])
=============================================================================
