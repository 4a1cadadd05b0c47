----------------------------- MODULE Staircase -----------------------------
(***************************************************************************)
(* The combinatorics of a monomial ideal (hutil.cc, hdegree.cc): its       *)
(* generators are exponent vectors, and dimension, independent sets,       *)
(* multiplicity, highest corner and vector space basis are found by        *)
(* recursion over the last variable.  The arrays the C code cuts in place  *)
(* -- a copy for each variable, a slice pruned by the slice below it, pure *)
(* powers moved to a vector of their own, two sorted slices merged -- are  *)
(* sequences here.  Ideals only (hisModule = 0), at most 10 generators     *)
(* (hOrdSupp, which only reorders the variables, is left out).             *)
(***************************************************************************)
EXTENDS Integers, SequencesExt, FiniteSetsExt

CONSTANTS Generators,  \* the monomials an ideal of a ring with so many variables is made of
          MaxGens      \* bound: the number of its generators

VARIABLES nvars,       \* currRing->N
          stc          \* the generators

vars == <<nvars, stc>>

N == nvars
All == [i \in 1..N |-> i]
One == [i \in 1..N |-> 0]
Drop(var) == Front(var)
Rad(x) == [i \in DOMAIN x |-> IF x[i] = 0 THEN 0 ELSE 1]
Divides(o, n) == \A i \in DOMAIN o : o[i] <= n[i]
Deg(m) == FoldFunction(+, 0, m)

(* The order is decided by the last of the variables in which they differ.*)
LexLess(o, n, var) ==
  \E k \in DOMAIN var :
     o[var[k]] < n[var[k]] /\ \A l \in k+1..Len(var) : o[var[l]] = n[var[l]]

Init == nvars \in DOMAIN Generators /\ stc = <<>>

(* The exponent vectors that hInit copies, each set of them in one order.  *)
hInit(m) ==
  /\ Len(stc) < MaxGens
  /\ stc # <<>> => LexLess(Last(stc), m, All)
  /\ stc' = Append(stc, m)
  /\ UNCHANGED nvars

hDelete == stc # <<>> /\ stc' = <<>> /\ UNCHANGED nvars

Next == hDelete \/ \E m \in Generators[N] : hInit(m)

-----------------------------------------------------------------------------
(* hutil.cc                                                                *)

Select(s, I) ==
  LET order == SelectSeq([i \in DOMAIN s |-> i], LAMBDA i : i \in I) IN
  [n \in DOMAIN order |-> s[order[n]]]

(* The minimal ones by their key, the first of equal ones.                 *)
Minimal(s, key) ==
  Select(s, {j \in DOMAIN s :
    ~ \E i \in DOMAIN s \ {j} :
        Divides(key[i], key[j]) /\ (Divides(key[j], key[i]) => i < j)})

On(x, var) == [k \in DOMAIN var |-> x[var[k]]]

hStaircase(s, var) == Minimal(s, [j \in DOMAIN s |-> On(s[j], var)])
hRadical(rad)      == Minimal(rad, [j \in DOMAIN rad |-> Rad(rad[j])])
hSupp(s)           == SelectSeq(All, LAMBDA i : \E x \in Range(s) : x[i] > 0)

hLexS(s, var)   == SortSeq(s, LAMBDA o, n : LexLess(o, n, var))
hLexR(rad, var) == SortSeq(rad, LAMBDA o, n : LexLess(Rad(o), Rad(n), var))

(* Faulty: a lower power of the same variable does not replace the first.  *)
hPureFirst(s, pure, var) ==
  LET at(x)    == {i \in Range(var) : x[i] # 0}
      power(x) == Cardinality(at(x)) = 1
      of(i)    == {x[i] : x \in {y \in Range(s) : at(y) = {i}}}
      new      == {i \in Range(var) : of(i) # {} /\ pure[i] = 0}
  IN [rest |-> SelectSeq(s, LAMBDA x : ~power(x)),
      pure |-> [i \in DOMAIN pure |-> IF i \in new THEN Min(of(i)) ELSE pure[i]],
      np   |-> Cardinality(new)]

(* Powers of one variable leave the sequence; the least is kept in pure.   *)
hPure(s, pure, var) ==
  LET at(x)    == {i \in Range(var) : x[i] # 0}
      power(x) == Cardinality(at(x)) = 1
      of(i)    == {x[i] : x \in {y \in Range(s) : at(y) = {i}}}
      least(i) == Min(of(i) \union IF pure[i] = 0 THEN {} ELSE {pure[i]})
      new      == {i \in Range(var) : of(i) # {}}
  IN [rest |-> SelectSeq(s, LAMBDA x : ~power(x)),
      pure |-> [i \in DOMAIN pure |-> IF i \in new THEN least(i) ELSE pure[i]],
      np   |-> Cardinality({i \in new : pure[i] = 0})]

hElimS(s, slice, var) ==
  SelectSeq(s, LAMBDA n : ~ \E o \in Range(slice) : Divides(On(o, var), On(n, var)))
hElimR(rad, slice, var) ==
  SelectSeq(rad, LAMBDA n :
              ~ \E o \in Range(slice) : Divides(Rad(On(o, var)), Rad(On(n, var))))

RECURSIVE hLex2S(_, _, _), hLex2R(_, _, _)
hLex2S(s, slice, var) ==
  IF s = <<>> THEN slice ELSE IF slice = <<>> THEN s
  ELSE IF LexLess(Head(slice), Head(s), var)
       THEN <<Head(slice)>> \o hLex2S(s, Tail(slice), var)
       ELSE <<Head(s)>> \o hLex2S(Tail(s), slice, var)
hLex2R(rad, slice, var) ==
  IF rad = <<>> THEN slice ELSE IF slice = <<>> THEN rad
  ELSE IF LexLess(Rad(Head(slice)), Rad(Head(rad)), var)
       THEN <<Head(slice)>> \o hLex2R(rad, Tail(slice), var)
       ELSE <<Head(rad)>> \o hLex2R(Tail(rad), slice, var)

(* How many of the first generators, from the a-th on, have no higher      *)
(* exponent in the last variable than x, and the next exponent.            *)
hStepS(s, var, a, x) ==
  LET higher == {i \in a+1..Len(s) : s[i][Last(var)] > x} IN
  IF higher = {} THEN [a |-> Len(s), x |-> x]
  ELSE [a |-> Min(higher) - 1, x |-> s[Min(higher)][Last(var)]]
hStepR(rad, var) == hStepS(rad, var, 0, 0).a

-----------------------------------------------------------------------------
(* Dimension and independent sets: the vertex covers of the supports.      *)

(* The variables up to the last one that is not in the cover yet.          *)
Open(pure, var) == SubSeq(var, 1, Max({k \in DOMAIN var : pure[var[k]] = 0}))

(* What is left when the last variable is not in the cover: the generators *)
(* with it, now without it, replace their multiples.                       *)
Without(pure, rad, a, var) ==
  LET slice == SubSeq(rad, a + 1, Len(rad))
      p     == hPure(slice, pure, var)
      low   == hElimR(SubSeq(rad, 1, a), slice, var)
  IN [pure |-> p.pure, np |-> p.np, rad |-> hLex2R(low, p.rest, var)]

RECURSIVE hDimSolve(_, _, _, _, _)
hDimSolve(co, pure, np, rad, var) ==
  IF Len(rad) < 2 THEN Min({co, np + Len(rad)})
  ELSE IF np + 1 >= co THEN co
  ELSE LET v == Open(pure, var)
           a == hStepR(rad, v)
           w == Without(pure, rad, a, Drop(v))
       IN IF a = 0 THEN np + 1
          ELSE IF a = Len(rad) THEN hDimSolve(co, pure, np, rad, Drop(v))
          ELSE hDimSolve(hDimSolve(co, pure, np + 1, SubSeq(rad, 1, a), Drop(v)),
                         w.pure, np + w.np, w.rad, Drop(v))

(* Radical, support and pure powers, sorted: what every search starts from.*)
Prepared(s) ==
  LET r == hRadical(s)
      v == hSupp(r)
      p == hPure(r, One, v)
  IN [var |-> v, pure |-> p.pure, np |-> p.np, rad |-> hLexR(p.rest, v)]

scDimInt(s) ==
  LET p == Prepared(s) IN
  IF s = <<>> THEN N
  ELSE IF p.var = <<>> THEN N - (N + 1)
  ELSE N - hDimSolve(N + 1, p.pure, p.np, p.rad, p.var)

Indep(pure) == [i \in 1..N |-> IF pure[i] # 0 THEN 0 ELSE 1]

RECURSIVE hIndSolve(_, _, _, _, _)
hIndSolve(best, pure, np, rad, var) ==
  IF Len(rad) < 2
  THEN LET x == Last(SelectSeq(var, LAMBDA i : rad[1][i] # 0)) IN
       IF np + Len(rad) >= best.co THEN best
       ELSE [co |-> np + Len(rad),
             ind |-> IF rad = <<>> THEN Indep(pure) ELSE [Indep(pure) EXCEPT ![x] = 0]]
  ELSE IF np + 1 >= best.co THEN best
  ELSE LET v == Open(pure, var)
           a == hStepR(rad, v)
           w == Without(pure, rad, a, Drop(v))
       IN IF a = 0 THEN [co |-> np + 1, ind |-> [Indep(pure) EXCEPT ![Last(v)] = 0]]
          ELSE IF a = Len(rad) THEN hIndSolve(best, pure, np, rad, Drop(v))
          ELSE hIndSolve(hIndSolve(best, [pure EXCEPT ![Last(v)] = 1], np + 1,
                                   SubSeq(rad, 1, a), Drop(v)),
                         w.pure, np + w.np, w.rad, Drop(v))

scIndIntvec(s) ==
  LET p == Prepared(s) IN
  IF s = <<>> THEN [i \in 1..N |-> 1]
  ELSE IF p.var = <<>> THEN One
  ELSE hIndSolve([co |-> N + 1, ind |-> One], p.pure, p.np, p.rad, p.var).ind

(* One cover for each of the variables, from the last down.                *)
With(pure, var) == [k \in DOMAIN var |-> [pure EXCEPT ![Reverse(var)[k]] = 1]]

(* The covers with co variables.                                           *)
RECURSIVE hIndMult(_, _, _, _, _)
hIndMult(co, pure, np, rad, var) ==
  LET common == SelectSeq(var, LAMBDA i : pure[i] = 0 /\ \A r \in Range(rad) : r[i] # 0)
  IN IF Len(rad) < 2
     THEN IF np + Len(rad) # co THEN <<>>
          ELSE IF rad = <<>> THEN <<pure>>
          ELSE With(pure, SelectSeq(var, LAMBDA i : rad[1][i] # 0))
     ELSE IF np + 1 > co THEN <<>>
     ELSE IF np + 1 = co THEN With(pure, common)
     ELSE LET v == Open(pure, var)
              a == hStepR(rad, v)
              w == Without(pure, rad, a, Drop(v))
          IN IF a = Len(rad) THEN hIndMult(co, pure, np, rad, Drop(v))
             ELSE hIndMult(co, [pure EXCEPT ![Last(v)] = 1], np + 1,
                           SubSeq(rad, 1, a), Drop(v))
                    \o hIndMult(co, w.pure, np + w.np, w.rad, Drop(v))

(* No set of the list is below the cover.                                  *)
hCheck1(sm, pure) ==
  \A set \in Range(sm) : \E i \in 1..N : set[i] = 0 /\ pure[i] = 0

(* The cover takes the place of the first set above it; the others go.     *)
hCheck2(sm, pure) ==
  LET above == {n \in DOMAIN sm : ~ \E i \in 1..N : pure[i] = 1 /\ sm[n][i] = 1}
      place == [n \in DOMAIN sm |-> IF n \in above THEN Indep(pure) ELSE sm[n]]
  IN IF above = {} THEN Append(sm, Indep(pure))
     ELSE Select(place, (DOMAIN sm \ above) \union {Min(above)})

hCheckIndep(ISet, JSet, pure) ==
  IF hCheck1(ISet, pure) /\ hCheck1(JSet, pure) THEN hCheck2(JSet, pure) ELSE JSet

(* The covers with more than co variables.                                 *)
RECURSIVE hIndAllMult(_, _, _, _, _)
hIndAllMult(co, pure, np, rad, var) ==
  IF Len(rad) < 2
  THEN IF np + Len(rad) <= co THEN <<>>
       ELSE IF rad = <<>> THEN <<pure>>
       ELSE With(pure, SelectSeq(var, LAMBDA i : rad[1][i] # 0))
  ELSE LET v == Open(pure, var)
           a == hStepR(rad, v)
           w == Without(pure, rad, a, Drop(v))
       IN IF a = Len(rad) THEN hIndAllMult(co, pure, np, rad, Drop(v))
          ELSE hIndAllMult(co, [pure EXCEPT ![Last(v)] = 1], np + 1,
                           SubSeq(rad, 1, a), Drop(v))
                 \o hIndAllMult(co, w.pure, np + w.np, w.rad, Drop(v))

scIndIndset(s, all) ==
  LET p    == Prepared(s)
      co   == IF p.var = <<>> THEN N + 1
              ELSE hDimSolve(Len(p.var), p.pure, p.np, p.rad, p.var)
      ISet == [n \in DOMAIN hIndMult(co, p.pure, p.np, p.rad, p.var)
                 |-> Indep(hIndMult(co, p.pure, p.np, p.rad, p.var)[n])]
      JSet == FoldLeft(LAMBDA sm, pure : hCheckIndep(ISet, sm, pure), <<>>,
                       hIndAllMult(co, p.pure, p.np, p.rad, p.var))
  IN IF s = <<>> THEN << [i \in 1..N |-> 1] >>
     ELSE IF co >= N THEN <<>>
     ELSE ISet \o IF all /\ co + 1 < N THEN JSet ELSE <<>>

-----------------------------------------------------------------------------
(* Multiplicity.                                                           *)

(* The staircase by the exponent of its last variable: from low up to high *)
(* (to the end, if high is 0) it is the same ideal in the others.          *)
RECURSIVE Higher(_, _, _, _, _, _)
Higher(pure, s, below, a, low, var) ==
  LET step == hStepS(s, var, a, low)
      high == IF step.a = Len(s) THEN pure[Last(var)] ELSE step.x
      cut  == SubSeq(s, a + 1, step.a)
      p    == hPure(cut, pure, Drop(var))
      here == hLex2S(hElimS(below, cut, Drop(var)), p.rest, Drop(var))
  IN <<[low |-> low, high |-> high, pure |-> p.pure, stc |-> here]>> \o
     IF step.a = Len(s) THEN <<>>
     ELSE Higher(p.pure, s, here, step.a, high, var)

Slices(pure, s, var) ==
  LET step  == hStepS(s, var, 0, 0)
      first == [low |-> 0, pure |-> pure, stc |-> SubSeq(s, 1, step.a),
                high |-> IF step.a = Len(s) THEN pure[Last(var)] ELSE step.x]
  IN <<first>> \o IF step.a = Len(s) THEN <<>>
                  ELSE Higher(pure, s, first.stc, step.a, step.x, var)

RECURSIVE hZeroMult(_, _, _)
hZeroMult(pure, s, var) ==
  IF Len(var) = 1 THEN pure[var[1]]
  ELSE IF s = <<>> THEN FoldLeft(LAMBDA z, e : z * e, 1, On(pure, var))
  ELSE FoldLeft(LAMBDA sum, l :
                  sum + (l.high - l.low) * hZeroMult(l.pure, l.stc, Drop(var)),
                0, Slices(pure, s, var))

(* The number of standard monomials in the variables of a cover.           *)
Length(s, var) ==
  LET p == hPure(hStaircase(s, var), One, var) IN
  hZeroMult(p.pure, hLexS(p.rest, var), var)

hProject(s, pure) == Length(s, SelectSeq(All, LAMBDA i : pure[i] # 0))

hDimMult(s, co, pure, np, rad, var) ==
  FoldLeft(LAMBDA mu, cover : mu + hProject(s, cover), 0, hIndMult(co, pure, np, rad, var))

hDegree(s) ==
  LET p  == Prepared(s)
      co == hDimSolve(Len(p.var), p.pure, p.np, p.rad, p.var)
  IN IF s = <<>> THEN [co |-> 0, mu |-> 1]
     ELSE IF p.var = <<>> THEN [co |-> N + 1, mu |-> 0]
     ELSE [co |-> co,
           mu |-> IF co < N THEN hDimMult(s, co, p.pure, p.np, p.rad, p.var)
                  ELSE Length(s, p.var)]

(* The vector space dimension, -1 if infinite.                             *)
hDegree0(s) ==
  LET m == hStaircase(s, All)
      v == hSupp(m)
      p == hPure(m, One, v)
  IN IF s = <<>> THEN 0 - 1
     ELSE IF v = <<>> THEN 0
     ELSE IF Len(v) = N /\ Len(m) >= N /\ p.np = N
          THEN hZeroMult(p.pure, hLexS(p.rest, v), v)
     ELSE 0 - 1

-----------------------------------------------------------------------------
(* The highest corner, under the local degree ordering ds.                 *)

Smaller(m, n) ==
  \/ Deg(m) > Deg(n)
  \/ Deg(m) = Deg(n) /\ \E i \in 1..N : m[i] > n[i] /\ \A j \in i+1..N : m[j] = n[j]

hHedge(edge, work) == IF Smaller(work, edge) THEN work ELSE edge

RECURSIVE hHedgeStep(_, _, _, _, _)
hHedgeStep(edge, work, pure, s, var) ==
  IF Len(var) = 1 \/ s = <<>>
  THEN hHedge(edge, [i \in 1..N |-> IF i \in Range(var) THEN pure[i] ELSE work[i]])
  ELSE FoldLeft(LAMBDA e, l :
                  hHedgeStep(e, [work EXCEPT ![Last(var)] = l.high], l.pure, l.stc, Drop(var)),
                edge, Slices(pure, s, var))

scComputeHC(s) ==
  LET p == hPure(hStaircase(s, All), One, All) IN
  hHedgeStep(One, One, p.pure, hLexS(p.rest, All), All)

-----------------------------------------------------------------------------
(* The vector space basis, a list of exponent vectors.                     *)

(* The powers of the last variable leave; the least one bounds the others. *)
scRestrict(s, n) ==
  LET powers == {x \in Range(s) : \A i \in 1..n-1 : x[i] = 0}
      y      == Min({x[n] : x \in powers})
  IN IF powers = {} THEN [stc |-> s, x |-> 0 - 1]
     ELSE [stc |-> SelectSeq(s, LAMBDA x : x \notin powers /\ x[n] < y), x |-> y]

Down(d) == [n \in 1..d+1 |-> d + 1 - n]
Exponents(act, d) == [n \in DOMAIN act |-> Append(act[n], d)]

RECURSIVE scAll(_, _)
scAll(n, deg) ==
  IF deg = 0 THEN << [i \in 1..n |-> 0] >>
  ELSE IF n = 1 THEN << <<deg>> >>
  ELSE FlattenSeq([k \in 1..deg+1 |-> Exponents(scAll(n - 1, deg - Down(deg)[k]), Down(deg)[k])])

scAllKbase(n, ideg, deg) ==
  FlattenSeq([k \in 1..ideg+1 |-> Exponents(scAll(n - 1, deg - Down(ideg)[k]), Down(ideg)[k])])

RECURSIVE scDegKbase(_, _, _)
scDegKbase(s, n, deg) ==
  LET r    == scRestrict(s, n)
      ideg == IF r.x > 0 /\ deg >= r.x THEN r.x - 1 ELSE deg
      at(d) == LET sn == SelectSeq(r.stc, LAMBDA x : x[n] <= d) IN
               IF sn = <<>> THEN scAll(n - 1, deg - d) ELSE scDegKbase(sn, n - 1, deg - d)
  IN IF deg = 0
     THEN IF \E x \in Range(s) : \A i \in 1..n : x[i] = 0 THEN <<>> ELSE << [i \in 1..n |-> 0] >>
     ELSE IF n = 1
     THEN IF \E x \in Range(s) : deg >= x[1] THEN <<>> ELSE << <<deg>> >>
     ELSE IF r.x = 0 THEN <<>>
     ELSE IF r.stc = <<>> THEN scAllKbase(n, ideg, deg)
     ELSE FlattenSeq([k \in 1..ideg+1 |-> Exponents(at(Down(ideg)[k]), Down(ideg)[k])])

RECURSIVE scInKbase(_, _)
scInKbase(s, n) ==
  LET r     == scRestrict(s, n)
      at(d) == scInKbase(SelectSeq(r.stc, LAMBDA x : x[n] <= d), n - 1)
      least == Min({x[1] : x \in Range(s)})
  IN IF n = 1 THEN [k \in 1..least |-> <<least - k>>]
     ELSE FlattenSeq([k \in 1..r.x |-> Exponents(at(r.x - k), r.x - k)])

(* Of degree deg, all if deg < 0.                                          *)
scKBase(deg, s) ==
  IF deg < 0 /\ scDimInt(s) # 0 THEN <<>>
  ELSE IF s = <<>> THEN scAll(N, deg)
  ELSE IF deg < 0 THEN scInKbase(s, N)
  ELSE scDegKbase(s, N, deg)

-----------------------------------------------------------------------------
(* What these numbers mean.                                                *)

Unit == One \in Range(stc)
Standard(m) == ~ \E g \in Range(stc) : Divides(g, m)
IsCover(c) == \A g \in Range(stc) : \E i \in c : g[i] > 0
Covers == {c \in SUBSET (1..N) : IsCover(c)}
MinimalCovers == {c \in Covers : \A i \in c : ~IsCover(c \ {i})}
Codim == Min({Cardinality(c) : c \in Covers})
Complements(C) == {[i \in 1..N |-> IF i \in c THEN 0 ELSE 1] : c \in C}
Finite == ~Unit /\ Codim = N

(* All the exponents of the generators are below a bound, and a standard   *)
(* monomial of a finite basis is below it too.                             *)
Box == LET top == Max({g[i] : g \in Range(stc), i \in 1..N}) IN [1..N -> 0..top]
StandardMonomials == {m \in Box : Standard(m)}
OfDegree(d) == {m \in [1..N -> 0..d] : Deg(m) = d /\ Standard(m)}

Lists(s, S) == Range(s) = S /\ Len(s) = Cardinality(S)

(* The dimension is that of the largest set of variables no generator      *)
(* lives in, and the independent sets found are the complements of the     *)
(* covers of least size, with all = TRUE of all the minimal covers (of     *)
(* square free generators), each once; none for a finite basis.            *)
DimensionRight ==
  /\ scDimInt(stc) = IF Unit THEN 0 - 1 ELSE N - Codim
  /\ ~Unit => scIndIntvec(stc) \in Complements({c \in Covers : Cardinality(c) = Codim})
  /\ ~Unit /\ Codim < N =>
       /\ Lists(scIndIndset(stc, FALSE),
                Complements({c \in Covers : Cardinality(c) = Codim}))
       /\ (\A g \in Range(stc) : g = Rad(g)) =>
            Lists(scIndIndset(stc, TRUE), Complements(MinimalCovers))

(* A finite basis lists every standard monomial once; their number is both *)
(* multiplicity and vector space dimension, and the highest corner is the  *)
(* smallest of them, times all the variables.  In one degree the same.     *)
BasisRight ==
  /\ hDegree0(stc) = IF Unit THEN 0 ELSE IF Finite THEN Cardinality(StandardMonomials) ELSE 0 - 1
  /\ \A d \in 0..3 : Lists(scKBase(d, stc), OfDegree(d))
  /\ Lists(scKBase(0 - 1, stc), IF Finite THEN StandardMonomials ELSE {})
  /\ Finite =>
       /\ hDegree(stc) = [co |-> N, mu |-> Cardinality(StandardMonomials)]
       /\ \E m \in StandardMonomials :
            /\ scComputeHC(stc) = [i \in 1..N |-> m[i] + 1]
            /\ \A n \in StandardMonomials \ {m} : Smaller(m, n)
=============================================================================
