--------------------------- MODULE StandardPairs ---------------------------
(***************************************************************************)
(* The critical pairs of bba, Buchberger's algorithm for a global ordering *)
(* over a field: enterpairs with enterOnePairNormal, chainCritNormal and   *)
(* clearS.  Polynomial n is the n-th that has entered; of it the model has *)
(* the leading monomial and the ecart.  What depends on the other terms is *)
(* left open: whether an s-polynomial is zero, what a reduction leaves,    *)
(* and the order posInL gives to the pairs.  The three modes are those of  *)
(* initBuchMoraCrit: "plain" (neither Gebauer nor sugarCrit), "Gebauer"    *)
(* and "sugar" (both).                                                     *)
(***************************************************************************)
EXTENDS Subsequences, FiniteSetsExt, SequencesExt

CONSTANTS Vars,       \* of the ring
          MaxExp,     \* bound: exponents
          Leads,      \* the leading monomials that may occur
          MaxPolys, SugarPolys,  \* bounds: polynomials, in sugar mode
          Ecarts,     \* of polynomials and pairs
          Modes       \* subset of {"plain", "Gebauer", "sugar"}

ASSUME PairsAssumption ==
  /\ {MaxExp, MaxPolys, SugarPolys} \subseteq Nat /\ SugarPolys <= MaxPolys
  /\ Ecarts \subseteq Nat /\ Ecarts # {}
  /\ Leads \subseteq [Vars -> 0 .. MaxExp]
  /\ Modes \subseteq {"plain", "Gebauer", "sugar"} /\ Modes # {}

Monomial == [Vars -> 0 .. MaxExp]
Poly     == 1 .. MaxPolys
tail     == 0        \* strat->tail in the place of p2: the pair is kept
Pair     == [p1 : Poly, p2 : Poly \union {tail}, lcm : Monomial, ecart : Ecarts]

pDivisibleBy(a, b) == \A v \in Vars : a[v] <= b[v]
pLcm(a, b)         == [v \in Vars |-> IF a[v] > b[v] THEN a[v] ELSE b[v]]
pHasNotCF(a, b)    == \A v \in Vars : a[v] = 0 \/ b[v] = 0

(* 1 if a divides b properly, -1 if b divides a properly, 0 otherwise.     *)
pDivComp(a, b) == IF a = b THEN 0
                  ELSE IF pDivisibleBy(a, b) THEN 1
                  ELSE IF pDivisibleBy(b, a) THEN -1 ELSE 0

(* Faulty: without the condition on the second polynomial.                 *)
pCompareChainOne(p, p1, p2, lcm) ==
  /\ pDivisibleBy(p, lcm)
  /\ \E v \in Vars : p[v] # lcm[v] /\ p1[v] # lcm[v]

(* p divides lcm = lcm(p1, p2), which is neither lcm(p, p1) nor lcm(p, p2). *)
pCompareChain(p, p1, p2, lcm) ==
  /\ pDivisibleBy(p, lcm)
  /\ \E v \in Vars : p[v] # lcm[v] /\ p1[v] # lcm[v]
  /\ \E v \in Vars : p[v] # lcm[v] /\ p2[v] # lcm[v]

VARIABLES mode,
          lead, ecart,   \* of the polynomials
          S,             \* the current basis
          L,             \* the pairs; between two polynomials their order is open
          B,             \* the pairs with the new polynomial
          rest,          \* what S has to be paired with
          pairtest,      \* zero s-polynomials with the new polynomial
          treated,       \* pairs that are done with: reduced, coprime or zero
          order,         \* L as the array the plain mode works on
          j, i,          \* the indices of the loops
          pc

work == <<B, rest, pairtest, order, j, i>>
vars == <<mode, lead, ecart, S, L, treated, work, pc>>

h == Len(lead)       \* the new polynomial

Init ==
  /\ mode \in Modes
  /\ lead = <<>> /\ ecart = <<>> /\ S = {} /\ L = {} /\ treated = {}
  /\ B = <<>> /\ rest = {} /\ pairtest = {} /\ order = <<>> /\ j = 0 /\ i = 0
  /\ pc = "idle"

-----------------------------------------------------------------------------
(* One round of bba: an input or the s-polynomial of a pair is reduced to  *)
(* zero, or to a polynomial no leading monomial of S divides.              *)
NewPoly ==
  /\ Len(lead) < IF mode = "sugar" THEN SugarPolys ELSE MaxPolys
  /\ \E m \in Leads, e \in Ecarts :
       /\ \A s \in S : ~pDivisibleBy(lead[s], m)
       /\ mode # "sugar" => e = Min(Ecarts)
       /\ lead' = Append(lead, m) /\ ecart' = Append(ecart, e)
  /\ rest' = S /\ pc' = "pairs"

InputReduced ==
  /\ pc = "idle" /\ NewPoly
  /\ UNCHANGED <<mode, S, L, treated, B, pairtest, order, j, i>>

PairReduced ==
  /\ pc = "idle"
  /\ \E q \in L : L' = L \ {q} /\ treated' = treated \union {{q.p1, q.p2}}
  /\ NewPoly \/ UNCHANGED <<lead, ecart, rest, pc>>
  /\ UNCHANGED <<mode, S, B, pairtest, order, j, i>>

-----------------------------------------------------------------------------
SugarLe(e1, e2) == mode = "sugar" => e1 <= e2

(* The loop over B, from its end: down to the first pair whose lcm divides *)
(* m properly, pairs whose lcm m divides are deleted.                      *)
CriterionInB(m, e) ==
  LET beats(q)  == pDivComp(q.lcm, m) = 1 /\ SugarLe(q.ecart, e)
      beaten(q) == pDivComp(q.lcm, m) = -1 /\ SugarLe(e, q.ecart)
      stop == Max({0} \union {k \in DOMAIN B : beats(B[k])})
  IN  [stop |-> stop,
       kept |-> Subsequence(B, {k \in DOMAIN B : k <= stop \/ ~beaten(B[k])})]

(* The product criterion, in sugar mode unless both ecarts are positive.   *)
ProductCrit(s) ==
  /\ mode = "sugar" => ecart[s] = 0 \/ ecart[h] = 0
  /\ pHasNotCF(lead[h], lead[s])

enterOnePairNormal(s) ==
  LET m == pLcm(lead[h], lead[s])
      e == IF ecart[s] > ecart[h] THEN ecart[s] ELSE ecart[h]
      r == CriterionInB(m, e)
      enter == \E k \in 1 .. Len(r.kept) + 1, ec \in Ecarts :
                 /\ mode # "sugar" => ec = Min(Ecarts)
                 /\ B' = InsertAt(r.kept, k, [p1 |-> s, p2 |-> h, lcm |-> m, ecart |-> ec])
                 /\ UNCHANGED <<pairtest, treated>>
      zero == /\ B' = r.kept
              /\ pairtest' = pairtest \union {s}
              /\ treated' = treated \union {{s, h}}
  IN  IF ProductCrit(s)
      THEN treated' = treated \union {{s, h}} /\ UNCHANGED <<B, pairtest>>
      ELSE IF r.stop > 0 THEN B' = r.kept /\ UNCHANGED <<pairtest, treated>>
      ELSE enter \/ zero

initenterpairs ==
  /\ pc = "pairs"
  /\ \E s \in rest : enterOnePairNormal(s) /\ rest' = rest \ {s}
  /\ UNCHANGED <<mode, lead, ecart, S, L, order, j, i, pc>>

-----------------------------------------------------------------------------
(* chainCritNormal: the zero s-polynomials, then the chain criterion on L; *)
(* the latter deletes nothing in sugar mode, where it asks for a pair whose *)
(* short s-polynomial is strat->tail itself.                               *)
Chained(q) == mode # "sugar" /\ pCompareChain(lead[h], lead[q.p1], lead[q.p2], q.lcm)

chainCrit ==
  /\ pc = "pairs" /\ rest = {}
  /\ B' = Subsequence(B, {k \in DOMAIN B : \A z \in pairtest : ~pDivisibleBy(lead[z], B[k].lcm)})
  /\ pairtest' = {}
  /\ L' = {q \in L : ~Chained(q)}
  /\ IF mode = "plain" THEN pc' = "merge" /\ UNCHANGED <<j, i>>
     ELSE pc' = "best" /\ j' = Len(B') /\ i' = Len(B') - 1
  /\ UNCHANGED <<mode, lead, ecart, S, treated, rest, order>>

(* Gebauer-Moeller: of the pairs in B with one lcm only the best, i.e. the *)
(* last one, stays.                                                        *)
BestStep ==
  /\ pc = "best" /\ j > 1 /\ i >= 1
  /\ IF B[j].lcm # B[i].lcm THEN i' = i - 1 /\ UNCHANGED <<B, j>>
     ELSE IF SugarLe(B[j].ecart, B[i].ecart)
     THEN B' = RemoveAt(B, i) /\ j' = j - 1 /\ i' = i - 1
     ELSE B' = RemoveAt(B, j) /\ j' = j - 1 /\ i' = j - 2
  /\ UNCHANGED <<mode, lead, ecart, S, L, treated, rest, pairtest, order, pc>>

BestNext ==
  /\ pc = "best" /\ j > 1 /\ i < 1
  /\ j' = j - 1 /\ i' = j - 2
  /\ UNCHANGED <<mode, lead, ecart, S, L, treated, B, rest, pairtest, order, pc>>

BestEnds ==
  /\ pc = "best" /\ j <= 1
  /\ L' = L \union Range(B) /\ B' = <<>>
  /\ j' = 0 /\ i' = 0 /\ pc' = "enter"
  /\ UNCHANGED <<mode, lead, ecart, S, treated, rest, pairtest, order>>

-----------------------------------------------------------------------------
(* The plain mode: kMergeBintoL first, in any order, ...                   *)
kMergeBintoL ==
  /\ pc = "merge"
  /\ LET left == (L \union Range(B)) \ Range(order) IN
     IF left # {}
     THEN \E q \in left : order' = Append(order, q) /\ UNCHANGED <<L, B, j, i, pc>>
     ELSE /\ L' = {} /\ B' = <<>> /\ pc' = "modify"
          /\ j' = Len(order) /\ i' = 0 /\ UNCHANGED order
  /\ UNCHANGED <<mode, lead, ecart, S, treated, rest, pairtest>>

(* ... then of the pairs (s, h) with one lcm the last stays, and of each   *)
(* other one either it or the pair (s, r) with the same lcm is cancelled.  *)
IsNew(q) == q.p2 = h

isInPairsetL(length, p, q) ==
  Max({0} \union {k \in 1 .. length : {order[k].p1, order[k].p2} = {p, q}})

ModifyOuter ==
  /\ pc = "modify" /\ i = 0 /\ j > 1
  /\ IF IsNew(order[j]) THEN i' = j - 1 /\ UNCHANGED <<order, j>>
     ELSE /\ order' = IF order[j].p2 = tail THEN [order EXCEPT ![j].p2 = h] ELSE order
          /\ j' = j - 1 /\ UNCHANGED i
  /\ UNCHANGED <<mode, lead, ecart, S, L, treated, B, rest, pairtest, pc>>

(* The second alternative is not taken when the two short s-polynomials    *)
(* have the same leading monomial.                                         *)
ModifyInner ==
  /\ pc = "modify" /\ i > 0
  /\ LET same == IsNew(order[i]) /\ order[j].lcm = order[i].lcm
         l == isInPairsetL(i - 1, order[j].p1, order[i].p1)
         older == l > 0 /\ pDivisibleBy(lead[h], order[l].lcm)
     IN \/ ~same /\ i' = i - 1 /\ UNCHANGED order /\ j' = IF i = 1 THEN j - 1 ELSE j
        \/ /\ same /\ older
           /\ order' = RemoveAt([order EXCEPT ![i].p2 = tail], l)
           /\ i' = i - 2 /\ j' = IF i' = 0 THEN j - 2 ELSE j - 1
        \/ /\ same
           /\ order' = RemoveAt(order, i)
           /\ i' = i - 1 /\ j' = IF i' = 0 THEN j - 2 ELSE j - 1
  /\ UNCHANGED <<mode, lead, ecart, S, L, treated, B, rest, pairtest, pc>>

(* Faulty: the first pair is not looked at.                                *)
ModifyEndsAsIs ==
  /\ pc = "modify" /\ i = 0 /\ j <= 1
  /\ L' = Range(order)
  /\ order' = <<>> /\ j' = 0 /\ pc' = "enter"
  /\ UNCHANGED <<mode, lead, ecart, S, treated, B, rest, pairtest, i>>

ModifyEnds ==
  /\ pc = "modify" /\ i = 0 /\ j <= 1
  /\ L' = Range(IF order # <<>> /\ order[1].p2 = tail
                THEN [order EXCEPT ![1].p2 = h] ELSE order)
  /\ order' = <<>> /\ j' = 0 /\ pc' = "enter"
  /\ UNCHANGED <<mode, lead, ecart, S, treated, B, rest, pairtest, i>>

(* enterpairs and enterS: what the new leading monomial divides leaves S.  *)
enterS ==
  /\ pc = "enter"
  /\ S' = {s \in S : ~pDivisibleBy(lead[h], lead[s])} \union {h}
  /\ pc' = "idle"
  /\ UNCHANGED <<mode, lead, ecart, L, treated, work>>

Finished == pc = "idle" /\ L = {} /\ UNCHANGED vars

Next ==
  \/ InputReduced \/ PairReduced \/ initenterpairs \/ chainCrit
  \/ BestStep \/ BestNext \/ BestEnds
  \/ kMergeBintoL \/ ModifyOuter \/ ModifyInner \/ ModifyEnds
  \/ enterS \/ Finished

Spec == Init /\ [][Next]_vars

-----------------------------------------------------------------------------
TypeOK ==
  /\ mode \in Modes /\ S \subseteq DOMAIN lead
  /\ lead \in Seq(Leads) /\ Len(lead) <= MaxPolys
  /\ ecart \in Seq(Ecarts) /\ Len(ecart) = Len(lead)
  /\ L \subseteq Pair /\ B \in Seq(Pair) /\ order \in Seq(Pair)
  /\ j \in 0 .. Len(B) + Len(order) /\ i \in -1 .. j
  /\ pc \in {"idle", "pairs", "best", "merge", "modify", "enter"}

(* Buchberger's criterion with chains, for every two polynomials that ever *)
(* entered: within those whose leading monomial divides lcm(a, b), they    *)
(* are linked by pairs that are done with or still waiting in L.  When L   *)
(* is empty, the polynomials are therefore a standard basis, whatever the  *)
(* criteria have thrown away and clearS has taken from S.                  *)
Links   == treated \union {{q.p1, q.p2} : q \in L}
Covered ==
  pc = "idle" =>
    \A a, b \in DOMAIN lead :
      LET within == {g \in DOMAIN lead : pDivisibleBy(lead[g], pLcm(lead[a], lead[b]))}
      IN  \A X \in SUBSET within :
            a \in X /\ b \notin X => \E x \in X, y \in within \ X : {x, y} \in Links

(* Between two polynomials every pair names its two polynomials and their  *)
(* lcm: no mark of the plain mode is left, on which the chain criterion of *)
(* the next polynomial would compare with the monomial 1.                  *)
PairsIntact ==
  pc = "idle" =>
    \A q \in L : q.p2 # tail /\ q.lcm = pLcm(lead[q.p1], lead[q.p2])

(* What is left of S has the leading ideal of all polynomials, and is      *)
(* minimal for it.                                                         *)
BasisIsMinimal ==
  pc = "idle" =>
    /\ \A g \in DOMAIN lead : \E s \in S : pDivisibleBy(lead[s], lead[g])
    /\ \A s, t \in S : pDivisibleBy(lead[s], lead[t]) => s = t

(* In Gebauer mode no pair with the last polynomial has an lcm that        *)
(* divides that of another: the criteria throw away all that they can.     *)
NewPairsMinimal ==
  pc = "idle" /\ mode = "Gebauer" =>
    \A q, r \in L : q.p2 = h /\ r.p2 = h /\ pDivisibleBy(q.lcm, r.lcm) => q = r

(* Between two polynomials the pairs, the basis and the marks the criteria *)
(* left are what the next polynomial takes them for.                       *)
PairsSafe == TypeOK /\ PairsIntact /\ BasisIsMinimal /\ NewPairsMinimal
=============================================================================
