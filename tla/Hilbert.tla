------------------------------ MODULE Hilbert ------------------------------
(***************************************************************************)
(* The Hilbert series of a monomial ideal (hilb.cc), computed twice: by    *)
(* the recursion over the last variable that the module Staircase has, and *)
(* by slices (Roune's algorithm), which divides by a monomial, adds it to  *)
(* a second ideal, and stops at the square free ideals.  Polynomials are   *)
(* sequences of coefficients.  No module components and weights.           *)
(***************************************************************************)
EXTENDS Staircase

(* A polynomial, and pol times t^shift.                                     *)
Plus(sum, pol, shift) ==
  [i \in 1..Max({Len(sum), Len(pol) + shift}) |->
     (IF i <= Len(sum) THEN sum[i] ELSE 0)
       + IF i > shift /\ i <= Len(pol) + shift THEN pol[i - shift] ELSE 0]

Minus(pol) == [i \in DOMAIN pol |-> 0 - pol[i]]

(* pol times 1 - t^x.                                                      *)
hAddHilb(x, pol) == Plus(pol, Minus(pol), x)

(* Only pure powers are left: add t^q0 pol and its product with all of     *)
(* them.  The array is as long as hHilbEst estimated it.                   *)
hLastHilb(sum, pure, var, pol, q0) ==
  LET powers == SelectSeq(Reverse(Tail(var)), LAMBDA i : pure[i] # 0)
      p      == FoldLeft(LAMBDA r, i : hAddHilb(pure[i], r), pol, powers)
      x      == pure[var[1]]
  IN IF x = 0 THEN Plus(sum, p, q0) ELSE Plus(Plus(sum, p, q0), Minus(p), q0 + x)

RECURSIVE hHilbStep(_, _, _, _, _, _)
hHilbStep(sum, pure, s, var, pol, q0) ==
  IF s = <<>> THEN hLastHilb(sum, pure, var, pol, q0)
  ELSE FoldLeft(LAMBDA r, l :
                  hHilbStep(r, l.pure, l.stc, Drop(var),
                            IF l.high = 0 THEN pol ELSE hAddHilb(l.high - l.low, pol),
                            q0 + l.low),
                sum, Slices(pure, s, var))

Trim(pol) == SubSeq(pol, 1, Max({i \in DOMAIN pol : pol[i] # 0}))

(* The space hHilbEst takes for the sum.                                   *)
hHilbEst(s, var) ==
  1 + FoldLeft(LAMBDA z, i : z + Max({x[i] : x \in Range(s)} \union {0}), 0, var)

(* The sum over the slices of a staircase.                                 *)
Qpol(m, v) ==
  LET p == hPure(m, One, v) IN hHilbStep(<<>>, p.pure, hLexS(p.rest, v), v, <<1>>, 0)

(* The coefficients, and the least weight behind them.                     *)
hSeries(s) ==
  LET m == hStaircase(s, All)
      v == hSupp(m)
  IN IF s = <<>> THEN <<1, 0>>
     ELSE IF v = <<>> THEN <<0, 0>>
     ELSE Append(Trim(Qpol(m, v)), 0)

(* Divided by 1 - t as long as that goes.                                  *)
RECURSIVE Divided(_)
Divided(pol) ==
  LET sums == [i \in 1..Len(pol) - 1 |-> FoldLeft(LAMBDA z, c : z + c, 0, SubSeq(pol, 1, i))]
  IN IF FoldLeft(LAMBDA z, c : z + c, 0, pol) # 0 \/ Len(pol) = 1 THEN pol
     ELSE Divided(sums)

hSecondSeries(h) == Append(Divided(Front(h)), Last(h))

hDegreeSeries(s1, s2) ==
  [co |-> Len(s1) - Len(s2), mu |-> FoldLeft(LAMBDA z, c : z + c, 0, Front(s2))]

-----------------------------------------------------------------------------
(* The slice algorithm.  An ideal is a sequence, sorted by degree.         *)

SortByDeg_p(I, p) ==
  LET J == SelectSeq(I, LAMBDA m : ~Divides(p, m))
      i == Max({n \in DOMAIN J : Deg(J[n]) <= Deg(p)})
  IN IF \E m \in Range(I) : Divides(m, p) THEN I
     ELSE IF J = <<>> \/ Deg(p) >= Deg(Last(J)) THEN Append(J, p)
     ELSE IF Deg(p) <= Deg(Head(J)) THEN <<p>> \o J
     ELSE InsertAt(J, IF Deg(J[i]) = Deg(p) THEN i ELSE i + 1, p)

SortByDeg(I) == FoldLeft(SortByDeg_p, <<>>, I)

idQuotMon(I, p) ==
  LET quot(m)  == [i \in 1..N |-> IF m[i] < p[i] THEN 0 ELSE m[i] - p[i]]
      kept(m)  == Deg(quot(m)) = Deg(m)
      smaller  == SelectSeq(I, LAMBDA m : ~kept(m))
  IN FoldLeft(LAMBDA J, m : SortByDeg_p(J, quot(m)), SelectSeq(I, kept), smaller)

idAddMon(I, p) == SortByDeg_p(I, p)

(* The first power in the last generator with one, less one.               *)
ChoosePJL(I) ==
  LET m == I[Max({n \in DOMAIN I : \E i \in 1..N : I[n][i] >= 2})]
      i == Min({j \in 1..N : m[j] >= 2})
  IN [One EXCEPT ![i] = m[i] - 1]

ChooseP(I) == ChoosePJL(I)

SearchP(I) ==
  LET m == Last(I)
      i == Min({j \in 1..N : m[j] > 0})
  IN [m EXCEPT ![i] = m[i] - 1]

JustVar(I) == Deg(Last(I)) <= 1

RECURSIVE eulerchar(_, _, _)
eulerchar(I, variables, ec) ==
  LET p == SearchP(I) IN
  IF JustVar(I)
  THEN IF Len(I) # variables THEN ec ELSE IF variables % 2 = 0 THEN ec + 1 ELSE ec - 1
  ELSE eulerchar(idAddMon(I, p), variables,
                 eulerchar(idQuotMon(I, p), variables - Cardinality({i \in 1..N : p[i] > 0}), ec))

SqFree(I) == Deg(Last(I)) <= 1 \/ \A m \in Range(I), i \in 1..N : m[i] <= 1

IsIn(p, I) == \E m \in Range(I) : Divides(m, p)

LCMmon(I) == [i \in 1..N |-> Max({m[i] : m \in Range(I)} \union {0})]

RECURSIVE rouneslice(_, _, _, _)
rouneslice(I0, S0, q, coef) ==
  LET S1    == SelectSeq(S0, LAMBDA m : ~IsIn(m, I0))
      pi(m) == [i \in 1..N |-> IF m[i] > 0 THEN m[i] - 1 ELSE 0]
      I     == SelectSeq(I0, LAMBDA m : ~IsIn(pi(m), S1))
      S     == IF I = <<>> THEN S1
               ELSE SelectSeq(S1, LAMBDA m : Divides(m, LCMmon(I)) /\ m # LCMmon(I))
      p     == ChooseP(I)
  IN IF I = <<>> THEN coef
     ELSE IF \E i \in 1..N : LCMmon(I)[i] = 0 THEN coef
     ELSE IF SqFree(I) THEN Plus(coef, <<eulerchar(I, N, 0)>>, Deg(q))
     ELSE rouneslice(I, idAddMon(S, p), q,
                     rouneslice(idQuotMon(I, p), idQuotMon(S, p),
                                [i \in 1..N |-> q[i] + p[i]], coef))

(* What it prints: 1, and what the slices give.                            *)
slicehilb(s) ==
  Plus(<<1>>, rouneslice(SortByDeg([n \in DOMAIN s |-> [i \in 1..N |-> s[n][i] + 1]]),
                         <<>>, One, <<>>), 0)

-----------------------------------------------------------------------------
(* Inclusion and exclusion: (1 - t)^N times the series of the standard     *)
(* monomials.                                                              *)
Numerator ==
  FoldSet(LAMBDA A, sum :
            LET lcm == [i \in 1..N |-> Max({g[i] : g \in A} \union {0})] IN
            Plus(sum, <<IF Cardinality(A) % 2 = 0 THEN 1 ELSE 0 - 1>>, Deg(lcm)),
          <<>>, SUBSET Range(stc))

Same(p, q) == Plus(p, Minus(q), 0) = [i \in 1..Max({Len(p), Len(q)}) |-> 0]

(* Both computations of the series are right, within the estimated array;  *)
(* its value behind the factors 1 - t is the multiplicity the recursion    *)
(* over the covers finds, and their number the codimension.                *)
SeriesRight ==
  LET first  == hSeries(stc)
      second == hSecondSeries(first)
      least  == hStaircase(stc, All)
  IN /\ Same(Front(first), Numerator)
     /\ stc # <<>> => Same(slicehilb(stc), Numerator)
     /\ hSupp(stc) # <<>> /\ ~Unit =>
          Len(Qpol(least, hSupp(least))) <= hHilbEst(least, hSupp(least))
     /\ ~Unit => hDegreeSeries(first, second) = hDegree(stc)
=============================================================================
