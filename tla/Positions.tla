----------------------------- MODULE Positions -----------------------------
(***************************************************************************)
(* The sorted arrays of a standard basis computation: S (the basis), T     *)
(* (reducers) and L (pairs, whose last element is the next), and the       *)
(* binary searches posInS, posInT*, posInL* that tell where an element     *)
(* goes.  All of them halve the same interval; they differ in the test     *)
(* against the last element and in the test of the loop, which each writes *)
(* out by hand.  An element has the quantities that are compared; lead is  *)
(* the place of its leading term in the order, taken times OrdSgn, and     *)
(* length stands for length and pLength, where they agree.                 *)
(***************************************************************************)
EXTENDS Integers, Sequences, SequencesExt

CONSTANTS Values,      \* of every quantity: 1 .. n
          MaxLen       \* bound: elements of the array

VARIABLES kind,        \* the function strat->posInS, posInT or posInL
          set          \* the array, set[1] is the element 0

vars == <<kind, set>>

Quantities == {"deg", "ecart", "length", "lead", "coeff", "comp", "pair"}

-----------------------------------------------------------------------------
(* The loop all functions have, an and en as there.  last[e]: p goes       *)
(* behind the last element e; over[e]: p goes before e, which is asked in  *)
(* the loop, and as end[e] when the interval has shrunk to an and en.      *)
Search(s, last, over, end) ==
  LET n == Len(s) - 1
      search[an \in 0 .. n, en \in 0 .. n] ==
        LET i == (an + en) \div 2 IN
        IF an >= en - 1 THEN IF end[s[an + 1]] THEN an ELSE en
        ELSE IF over[s[i + 1]] THEN search[an, i] ELSE search[i, en]
  IN  IF s = <<>> THEN 0 ELSE IF last[s[n + 1]] THEN n + 1 ELSE search[0, n]

Bisect(s, last, over) == Search(s, last, over, over)

(* The usual case, where the two tests are the opposite of each other.     *)
Before(s, over) == Bisect(s, [e \in Range(s) |-> ~over[e]], over)

(* The tests compare first one quantity, then in case of a tie the next.   *)
Or(a, b, tie) == a > b \/ (a = b /\ tie)

maxdeg(e) == e.deg + e.ecart

posInS(s, p) ==
  Bisect(s, [e \in Range(s) |-> e.lead < p.lead], [e \in Range(s) |-> e.lead > p.lead])
posInSlocal(s, p) ==
  Search(s, [e \in Range(s) |-> e.lead < p.lead],
            [e \in Range(s) |-> Or(e.lead, p.lead, e.ecart < p.ecart)],
            [e \in Range(s) |-> Or(e.lead, p.lead, e.ecart > p.ecart)])
posInSring(s, p) ==
  Bisect(s, [e \in Range(s) |-> e.lead < p.lead],
            [e \in Range(s) |-> Or(e.lead, p.lead, p.coeff % e.coeff # 0)])

posInT0(s, p) == Len(s)
posInT1(s, p) == Before(s, [e \in Range(s) |-> e.lead > p.lead])
posInT2(s, p) ==
  Bisect(s, [e \in Range(s) |-> e.length < p.length], [e \in Range(s) |-> e.length > p.length])
posInT11(s, p) == Before(s, [e \in Range(s) |-> Or(e.deg, p.deg, e.lead > p.lead)])
posInT110(s, p) ==
  Before(s, [e \in Range(s) |-> Or(e.deg, p.deg, Or(e.length, p.length, e.lead > p.lead))])
posInT13(s, p) == Before(s, [e \in Range(s) |-> e.deg > p.deg])
posInT_EcartpLength(s, p) ==
  Bisect(s, [e \in Range(s) |-> Or(p.ecart, e.ecart, e.length < p.length)],
            [e \in Range(s) |-> Or(e.ecart, p.ecart, e.length > p.length)])
posInT15(s, p) == Before(s, [e \in Range(s) |-> Or(maxdeg(e), maxdeg(p), e.lead > p.lead)])

posInT17(s, p) ==
  Before(s, [e \in Range(s) |-> Or(maxdeg(e), maxdeg(p), Or(p.ecart, e.ecart, e.lead > p.lead))])
posInT19(s, p) ==
  Bisect(s, [e \in Range(s) |-> Or(p.ecart, e.ecart, Or(p.deg, e.deg, e.length < p.length))],
            [e \in Range(s) |-> Or(e.ecart, p.ecart, Or(e.deg, p.deg, e.length > p.length))])

(* cc is 0 for both ringorder_c and ringorder_C, since the comparison in   *)
(* its definition takes the whole sum: components never decide.            *)
cc == 0
component(e) == e.comp * cc
posInT17_c(s, p) ==
  Before(s, [e \in Range(s) |-> Or(component(e), component(p),
                          Or(maxdeg(e), maxdeg(p), Or(p.ecart, e.ecart, e.lead > p.lead)))])

(* In L the loop asks for the elements p goes behind.                      *)
Behind(s, stays) == Bisect(s, stays, [e \in Range(s) |-> ~stays[e]])

posInL0(s, p)  == Behind(s, [e \in Range(s) |-> e.lead > p.lead])

(* Faulty: an element with the same leading term ends the search.          *)
posInL11Strict(s, p) ==
  Bisect(s, [e \in Range(s) |-> Or(e.deg, p.deg, e.lead >= p.lead)],
            [e \in Range(s) |-> ~Or(e.deg, p.deg, e.lead > p.lead)])

posInL11(s, p) == Behind(s, [e \in Range(s) |-> Or(e.deg, p.deg, e.lead >= p.lead)])
posInL110(s, p) ==
  Behind(s, [e \in Range(s) |-> Or(e.deg, p.deg,
                          e.length > p.length \/ (e.length <= p.length /\ e.lead >= p.lead))])
posInL13(s, p) == Bisect(s, [e \in Range(s) |-> e.deg > p.deg], [e \in Range(s) |-> e.deg < p.deg])
posInL15(s, p) == Behind(s, [e \in Range(s) |-> Or(maxdeg(e), maxdeg(p), e.lead >= p.lead)])
posInL17(s, p) ==
  Behind(s, [e \in Range(s) |-> Or(maxdeg(e), maxdeg(p), Or(e.ecart, p.ecart, e.lead >= p.lead))])
posInL17_c(s, p) ==
  Behind(s, [e \in Range(s) |-> Or(component(e), component(p),
                          Or(maxdeg(e), maxdeg(p), Or(e.ecart, p.ecart, e.lead >= p.lead)))])
posInLSpecial(s, p) ==
  Behind(s, [e \in Range(s) |-> Or(e.deg, p.deg, p.pair = 2 /\ e.pair = 1) \/ e.lead > p.lead])
posInLF5C(s, p) == Len(s)

-----------------------------------------------------------------------------
(* The choice of the two functions by the properties of the ring and of    *)
(* the ideal; test is the number of a test option, which overrides it.     *)
Flags == [global : BOOLEAN, honey : BOOLEAN, homog : BOOLEAN, exact : BOOLEAN,
          oldstd : BOOLEAN, c : BOOLEAN, minim : BOOLEAN, ring : BOOLEAN, test : {0} \union 11 .. 19]

initBuchMoraPos(f) ==
  LET byRing == IF f.global
                THEN IF f.homog THEN <<"L110", "T110">>
                     ELSE IF f.honey THEN <<"L15", IF f.oldstd THEN "T15" ELSE "TEcartpLength">>
                     ELSE IF f.exact THEN <<"L11", "T11">> ELSE <<"L0", "T0">>
                ELSE IF f.homog THEN <<"L11", "T11">>
                     ELSE IF f.c THEN <<"L17c", "T17c">> ELSE <<"L17", "T17">>
      L == CASE f.test \in {11, 12} -> "L11" [] f.test \in {13, 14} -> "L13"
             [] f.test \in {15, 16} -> "L15" [] f.test \in {17, 18} -> "L17"
             [] OTHER -> IF f.minim THEN "LSpecial" ELSE byRing[1]
      T == CASE f.test = 11 -> "T11" [] f.test = 13 -> "T13" [] f.test = 15 -> "T15"
             [] f.test = 17 -> "T17" [] f.test = 19 -> "T19"
             [] f.test \in {12, 14, 16, 18} -> "T1" [] OTHER -> byRing[2]
  IN  IF f.ring THEN <<"L11", "T11">> ELSE <<L, T>>

Chosen == UNION {{initBuchMoraPos(f)[i] : i \in 1 .. 2} : f \in Flags}
Kinds  == Chosen \union {"S", "Slocal", "Sring", "T2", "LF5C"}

posIn(k, s, p) ==
  CASE k = "S" -> posInS(s, p) [] k = "Slocal" -> posInSlocal(s, p) [] k = "Sring" -> posInSring(s, p)
    [] k \in {"T0", "LF5C"} -> posInT0(s, p)
    [] k = "T1" -> posInT1(s, p) [] k = "T2" -> posInT2(s, p)
    [] k = "T11" -> posInT11(s, p) [] k = "T110" -> posInT110(s, p) [] k = "T13" -> posInT13(s, p)
    [] k = "TEcartpLength" -> posInT_EcartpLength(s, p) [] k = "T15" -> posInT15(s, p)
    [] k = "T17" -> posInT17(s, p) [] k = "T17c" -> posInT17_c(s, p) [] k = "T19" -> posInT19(s, p)
    [] k = "L0" -> posInL0(s, p) [] k = "L11" -> posInL11(s, p) [] k = "L110" -> posInL110(s, p)
    [] k = "L13" -> posInL13(s, p) [] k = "L15" -> posInL15(s, p) [] k = "L17" -> posInL17(s, p)
    [] k = "L17c" -> posInL17_c(s, p) [] k = "LSpecial" -> posInLSpecial(s, p)

(* The order of each array, as a tuple of quantities that are compared one *)
(* after the other; L has the largest element first.  An array without an  *)
(* order has the empty tuple, and L110 and LSpecial, whose further tests   *)
(* are not transitive, promise the degree only.                            *)
Key(k, e) ==
  CASE k \in {"S", "Slocal", "Sring", "T1", "L0"} -> <<e.lead>>
    [] k = "T2" -> <<e.length>>
    [] k \in {"T11", "L11"} -> <<e.deg, e.lead>>
    [] k = "T110" -> <<e.deg, e.length, e.lead>>
    [] k \in {"T13", "L13", "L110", "LSpecial"} -> <<e.deg>>
    [] k = "TEcartpLength" -> <<e.ecart, e.length>>
    [] k \in {"T15", "L15"} -> <<maxdeg(e), e.lead>>
    [] k \in {"T17", "T17c"} -> <<maxdeg(e), 0 - e.ecart, e.lead>>
    [] k \in {"L17", "L17c"} -> <<maxdeg(e), e.ecart, e.lead>>
    [] k = "T19" -> <<e.ecart, e.deg, e.length>>
    [] OTHER -> <<>>

(* The quantities a function looks at; the others are left at 1.  For the *)
(* sake of LSpecial, of two elements that with the larger leading term has *)
(* not the smaller degree.                                                 *)
Looks(k) ==
  CASE k = "Slocal" -> {"lead", "ecart"} [] k = "Sring" -> {"lead", "coeff"}
    [] k = "T2" -> {"length"} [] k = "TEcartpLength" -> {"ecart", "length"}
    [] k \in {"T11", "L11"} -> {"deg", "lead"} [] k \in {"T13", "L13"} -> {"deg"}
    [] k \in {"T110", "L110"} -> {"deg", "length", "lead"}
    [] k = "T19" -> {"ecart", "deg", "length"}
    [] k \in {"T15", "L15", "T17", "L17"} -> {"deg", "ecart", "lead"}
    [] k \in {"T17c", "L17c"} -> {"deg", "ecart", "lead", "comp"}
    [] k = "LSpecial" -> {"deg", "lead", "pair"} [] OTHER -> {"lead"}

Elements(k) ==
  LET filled(f) == [q \in Quantities |-> IF q \in Looks(k) THEN f[q] ELSE 1]
      graded(e) == [e EXCEPT !.lead = e.lead + MaxLen * e.deg]
      some == {filled(f) : f \in [Looks(k) -> Values]}
  IN  IF k = "LSpecial" THEN {graded(e) : e \in some} ELSE some

-----------------------------------------------------------------------------
Init == kind \in Kinds /\ set = <<>>

(* enterS, enterT, enterL at the position that was found.                  *)
enterL(p) ==
  /\ Len(set) < MaxLen
  /\ set' = InsertAt(set, posIn(kind, set, p) + 1, p)
  /\ UNCHANGED kind

(* Pairs are deleted anywhere in L, reducers anywhere in S and T.          *)
deleteInL(j) == set' = RemoveAt(set, j) /\ UNCHANGED kind

Next ==
  \/ \E p \in Elements(kind) : enterL(p)
  \/ \E j \in DOMAIN set : deleteInL(j)

Spec == Init /\ [][Next]_vars

-----------------------------------------------------------------------------
TypeOK ==
  /\ kind \in Kinds /\ Len(set) <= MaxLen
  /\ \A p \in Elements(kind) : posIn(kind, set, p) \in 0 .. Len(set)

Less(u, v) == \E i \in DOMAIN u : u[i] < v[i] /\ \A j \in 1 .. i - 1 : u[j] = v[j]

InL == kind \in {"L0", "L11", "L110", "L13", "L15", "L17", "L17c", "LSpecial"}

(* Whatever is entered and deleted, the array stays in its order: the next *)
(* pair, the last element of L, is a smallest one, and a search of T or S  *)
(* meets the reducers from the smallest on.                                *)
Sorted ==
  \A i, j \in DOMAIN set : i < j =>
    IF InL THEN ~Less(Key(kind, set[i]), Key(kind, set[j]))
    ELSE ~Less(Key(kind, set[j]), Key(kind, set[i]))

(* The bisections of T11, T15, T17, L11 and L15 find what the linear loops *)
(* find that they replaced and that are kept in comments: the first        *)
(* element that is too large, in L the first that is too small.            *)
First(s, over) ==
  LET found == {i \in DOMAIN s : over[s[i]]} IN
  IF found = {} THEN Len(s) ELSE (CHOOSE i \in found : \A j \in found : i <= j) - 1

AsLinear ==
  \A p \in Elements(kind) :
    kind \in {"T11", "T15", "T17", "L11", "L15"} =>
      posIn(kind, set, p) =
        First(set, [e \in Range(set) |-> IF InL THEN Less(Key(kind, e), Key(kind, p))
                                            ELSE Less(Key(kind, p), Key(kind, e))])
=============================================================================
