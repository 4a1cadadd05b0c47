------------------------------ MODULE Longrat ------------------------------
(***************************************************************************)
(* The rational numbers of longrat.cc.  A number is an immediate integer,  *)
(* tagged in the pointer itself and computed with in the machine's LONG,   *)
(* or an object: an integer z (s = 3), a fraction z/n in lowest terms      *)
(* (s = 1), or one that is not known to be (s = 0).  Every operation       *)
(* decides by these forms, tests the overflow of LONG by shifts, and has   *)
(* to give back a form the others expect.  gmp's integers are exact.       *)
(***************************************************************************)
EXTENDS Integers, FiniteSets

CONSTANTS Width,       \* bits of LONG, 32; an immediate has Width - 3
          MaxNum,      \* bound: absolute value of z
          MaxDen,      \* bound: n
          Operands     \* the second operands

VARIABLES x,           \* a number
          value        \* the rational it has to be, in lowest terms

vars == <<x, value>>

POW_2_28 == 2 ^ (Width - 4)
LONG(i) == ((i + 2 ^ (Width - 1)) % 2 ^ Width) - 2 ^ (Width - 1)
ShiftsBack(i, k) == LONG(i * 2 ^ k) \div 2 ^ k = i

Abs(i) == IF i < 0 THEN 0 - i ELSE i
Quot(i, j) == LET q == Abs(i) \div Abs(j) IN IF (i < 0) = (j < 0) THEN q ELSE 0 - q
gcd[i \in Nat, j \in Nat] == IF j = 0 THEN i ELSE gcd[j, i % j]
Gcd(i, j) == gcd[Abs(i), Abs(j)]

INT_TO_SR(i) == [s |-> "SR", z |-> i, n |-> 1]
SR_HDL(a)    == 4 * a.z + 1
Handle(h)    == INT_TO_SR(h \div 4)
nlRInit(i)   == [s |-> "3", z |-> i, n |-> 1]
Fraction(z, n) == [s |-> "0", z |-> z, n |-> n]

SR(a) == a.s = "SR"
IsZ(a) == a.s \in {"SR", "3"}

nlInit(i) == LET ii == LONG(i) IN IF ShiftsBack(ii, 3) THEN INT_TO_SR(ii) ELSE nlRInit(ii)

nlShort3(a) ==
  LET ui == LONG(a.z) IN
  IF a.z = 0 \/ (ShiftsBack(ui, 3) /\ ui = a.z) THEN INT_TO_SR(ui) ELSE a

nlShort1(a) == IF a.z = 0 THEN INT_TO_SR(0) ELSE IF a.z = a.n THEN INT_TO_SR(1) ELSE a

nlNormalize(a) ==
  LET g == Gcd(a.z, a.n) IN
  IF SR(a) \/ a.s = "1" THEN a
  ELSE IF a.s = "3" THEN nlShort3(a)
  ELSE IF a.n = g THEN nlShort3(nlRInit(a.z \div g))
  ELSE [s |-> "1", z |-> a.z \div g, n |-> a.n \div g]

-----------------------------------------------------------------------------
nlNeg(a) ==
  IF SR(a) THEN IF a.z = 0 - POW_2_28 THEN nlRInit(POW_2_28) ELSE INT_TO_SR(0 - a.z)
  ELSE LET m == [a EXCEPT !.z = 0 - a.z] IN IF a.s = "3" THEN nlShort3(m) ELSE m

(* The sum of two handles less a tag is the handle of the sum, if its two  *)
(* leading bits agree.                                                     *)
FromHandle(r) == IF ShiftsBack(r, 1) THEN Handle(r) ELSE nlRInit(r \div 4)

Sum(a, b) == IF IsZ(a) /\ IsZ(b) THEN nlRInit(a.z + b.z)
             ELSE Fraction(a.z * b.n + b.z * a.n, a.n * b.n)
Shortened(u) == IF u.s = "3" THEN nlShort3(u) ELSE nlShort1(u)

nlAdd(a, b) == IF SR(a) /\ SR(b) THEN FromHandle(LONG(SR_HDL(a) + SR_HDL(b) - 1))
               ELSE Shortened(Sum(a, b))

nlSub(a, b) == IF SR(a) /\ SR(b) THEN FromHandle(LONG(SR_HDL(a) - SR_HDL(b) + 1))
               ELSE Shortened(Sum(a, [b EXCEPT !.z = 0 - b.z]))

(* The factor 2 * b, not 4 * b, leaves room for one bit; whether the       *)
(* product fits is asked by dividing.  With an immediate -1 a fraction in  *)
(* lowest terms stays one.                                                 *)
MultImm(a, b) ==
  LET r == LONG((SR_HDL(a) - 1) * (SR_HDL(b) \div 2))
      u == (r \div 2) + 1
  IN  IF Quot(r, SR_HDL(b) \div 2) # SR_HDL(a) - 1 THEN nlRInit(a.z * b.z)
      ELSE IF ShiftsBack(u, 1) THEN Handle(u) ELSE nlRInit(u \div 4)

Product(a, b) == Fraction(a.z * b.z, a.n * b.n)

(* Faulty: the product with any immediate is taken to be in lowest terms.  *)
nlMultReduced(a, b) ==
  LET u == Product(a, b) IN
  IF a = INT_TO_SR(0) \/ b = INT_TO_SR(0) THEN INT_TO_SR(0)
  ELSE IF SR(a) /\ SR(b) THEN MultImm(a, b)
  ELSE IF IsZ(a) /\ IsZ(b) THEN nlShort3(nlRInit(u.z))
  ELSE IF u.z = u.n THEN INT_TO_SR(1)
  ELSE IF SR(a) THEN [u EXCEPT !.s = b.s] ELSE IF SR(b) THEN [u EXCEPT !.s = a.s] ELSE u

nlMult(a, b) ==
  LET u == Product(a, b)  minus1 == INT_TO_SR(0 - 1) IN
  IF a = INT_TO_SR(0) \/ b = INT_TO_SR(0) THEN INT_TO_SR(0)
  ELSE IF SR(a) /\ SR(b) THEN MultImm(a, b)
  ELSE IF IsZ(a) /\ IsZ(b)
  THEN IF SR(a) \/ SR(b) THEN nlShort3(nlRInit(u.z)) ELSE nlRInit(u.z)
  ELSE IF u.z = u.n THEN INT_TO_SR(1)
  ELSE IF a = minus1 THEN [u EXCEPT !.s = b.s] ELSE IF b = minus1 THEN [u EXCEPT !.s = a.s] ELSE u

nlInpMult(a, b) ==
  IF SR(a) \/ SR(b) THEN nlMult(a, b)
  ELSE IF IsZ(a) /\ IsZ(b) THEN nlRInit(a.z * b.z) ELSE Product(a, b)

Positive(u) == IF u.n < 0 THEN [u EXCEPT !.z = 0 - u.z, !.n = 0 - u.n] ELSE u

nlDiv(a, b) ==
  LET u == Positive(Fraction(a.z * b.n, b.z * a.n)) IN
  IF SR(a) /\ SR(b)
  THEN IF b.z = 1 THEN a
       ELSE IF a.z = 0 - POW_2_28 /\ b.z = 0 - 1 THEN nlRInit(POW_2_28)
       ELSE IF a.z % Abs(b.z) = 0 THEN INT_TO_SR(Quot(a.z, b.z)) ELSE u
  ELSE IF SR(a) /\ a.z * b.n = b.z THEN INT_TO_SR(1)
  ELSE IF u.n = 1 THEN nlShort3(nlRInit(u.z)) ELSE u

nlInvers(a) ==
  LET u == Positive([a EXCEPT !.z = a.n, !.n = a.z]) IN
  IF SR(a) THEN IF a.z \in {1, 0 - 1} THEN a ELSE [u EXCEPT !.s = "1"]
  ELSE IF a.s = "3" THEN [u EXCEPT !.s = "1"]
  ELSE IF u.n = 1 THEN nlShort3(nlRInit(u.z)) ELSE u

(* A fraction that turns out to be an integer would be read as an object   *)
(* after it has become an immediate: guarded in Next.                      *)
nlPower(a, exp) ==
  LET u == [nlNormalize(a) EXCEPT !.z = @ ^ exp, !.n = @ ^ exp] IN
  IF exp = 0 THEN INT_TO_SR(1) ELSE IF a = INT_TO_SR(0) THEN a
  ELSE IF IsZ(a) \/ u.n = 1 THEN nlShort3(nlRInit(u.z)) ELSE u

-----------------------------------------------------------------------------
(* Integers.                                                               *)
nlIntDiv(a, b) ==
  IF a = INT_TO_SR(0) THEN a
  ELSE IF SR(a) /\ SR(b)
  THEN IF a.z = 0 - POW_2_28 /\ b.z = 0 - 1 THEN nlRInit(POW_2_28) ELSE INT_TO_SR(Quot(a.z, b.z))
  ELSE IF SR(a) THEN INT_TO_SR(IF a.z = 0 - POW_2_28 /\ b.z = POW_2_28 THEN 0 - 1 ELSE 0)
  ELSE nlShort3(nlRInit(Quot(a.z, b.z)))

nlExactDiv(a, b) ==
  IF a = INT_TO_SR(0) THEN a
  ELSE IF SR(a) /\ SR(b)
  THEN IF a.z = 0 - POW_2_28 /\ b.z = 0 - 1 THEN nlRInit(POW_2_28) ELSE INT_TO_SR(Quot(a.z, b.z))
  ELSE nlShort3(nlRInit(Quot(a.z, b.z)))

(* The remainder has the sign of a between immediates, none of a large a.  *)
nlIntMod(a, b) ==
  IF a = INT_TO_SR(0) THEN a
  ELSE IF SR(a) /\ SR(b) THEN INT_TO_SR(LONG(a.z - b.z * Quot(a.z, b.z)))
  ELSE IF SR(a) THEN a ELSE nlShort3(nlRInit(a.z % Abs(b.z)))

nlGcd(a, b) ==
  LET g == Gcd(a.z, b.z)  one == {INT_TO_SR(1), INT_TO_SR(0 - 1)} IN
  IF a \in one \/ b \in one THEN INT_TO_SR(1)
  ELSE IF a = INT_TO_SR(0) THEN b ELSE IF b = INT_TO_SR(0) THEN a
  ELSE IF ~IsZ(a) \/ ~IsZ(b) THEN INT_TO_SR(1)
  ELSE IF SR(a) \/ SR(b) THEN IF g = POW_2_28 THEN nlRInit(g) ELSE INT_TO_SR(g)
  ELSE nlShort3(nlRInit(g))

nlLcm(a, b) ==
  IF IsZ(b) THEN a ELSE nlShort3(nlRInit(a.z * (b.n \div Gcd(a.z, b.n))))

nlGetDenom(a) ==
  LET m == nlNormalize(a) IN IF IsZ(m) THEN INT_TO_SR(1) ELSE nlShort3(nlRInit(m.n))
nlGetNumerator(a) ==
  LET m == nlNormalize(a) IN IF IsZ(m) THEN m ELSE nlShort3(nlRInit(m.z))

-----------------------------------------------------------------------------
nlIsZero(a) == a = INT_TO_SR(0)
nlIsOne(a)  == a = INT_TO_SR(1)
nlGreaterZero(a) == IF SR(a) THEN SR_HDL(a) > 1 ELSE a.z >= 0

nlEqual(a, b) ==
  IF SR(a) /\ SR(b) THEN a = b
  ELSE IF (SR(a) /\ b.s # "0") \/ (SR(b) /\ a.s # "0") \/ {a.s, b.s} = {"1", "3"} THEN FALSE
  ELSE a.z * b.n = b.z * a.n

nlGreater(a, b) == LET re == nlSub(a, b) IN ~nlIsZero(re) /\ nlGreaterZero(re)

-----------------------------------------------------------------------------
Q(z, n) == LET g == Gcd(z, n)  sign == IF n < 0 THEN 0 - 1 ELSE 1
           IN  [num |-> sign * (z \div g), den |-> Abs(n) \div g]
Value(a) == Q(a.z, a.n)

Init == \E a \in Operands : x = a /\ value = Value(a)

Becomes(r, z, n) ==
  /\ Abs(r.z) <= MaxNum /\ r.n <= MaxDen
  /\ x' = r
  /\ value' = Q(z, n)

(* Both orders of the operands; v and w are the values they have.          *)
Arithmetic(a, b, v, w) ==
  \/ Becomes(nlAdd(a, b), v.num * w.den + w.num * v.den, v.den * w.den)
  \/ Becomes(nlSub(a, b), v.num * w.den - w.num * v.den, v.den * w.den)
  \/ Becomes(nlMult(a, b), v.num * w.num, v.den * w.den)
  \/ Becomes(nlInpMult(a, b), v.num * w.num, v.den * w.den)
  \/ w.num # 0 /\ Becomes(nlDiv(a, b), v.num * w.den, v.den * w.num)

(* nlExactDiv reads a as an object when b is one, nlIntMod has no agreed   *)
(* remainder of a negative number.                                         *)
OfIntegers(a, b) ==
  /\ IsZ(a) /\ IsZ(b) /\ ~nlIsZero(b)
  /\ \/ Becomes(nlIntDiv(a, b), Quot(a.z, b.z), 1)
     \/ a.z % Abs(b.z) = 0 /\ (SR(a) => SR(b) \/ a.z = 0) /\ Becomes(nlExactDiv(a, b), Quot(a.z, b.z), 1)
     \/ a.z >= 0 /\ Becomes(nlIntMod(a, b), a.z % Abs(b.z), 1)
     \/ ~nlIsZero(a) /\ Becomes(nlGcd(a, b), Gcd(a.z, b.z), 1)

Content(a, b, w) == IsZ(a) /\ b.s # "0" /\ Becomes(nlLcm(a, b), a.z * (w.den \div Gcd(a.z, w.den)), 1)

Unary ==
  \/ Becomes(nlNeg(x), 0 - value.num, value.den)
  \/ Becomes(nlNormalize(x), value.num, value.den)
  \/ value.num # 0 /\ Becomes(nlInvers(x), value.den, value.num)
  \/ Becomes(nlGetDenom(x), value.den, 1)
  \/ Becomes(nlGetNumerator(x), value.num, 1)
  \/ Becomes(nlPower(x, 0), 1, 1)
  \/ \E exp \in {2, 3} :
       /\ x.s = "0" => ~SR(nlNormalize(x))
       /\ Becomes(nlPower(x, exp), value.num ^ exp, value.den ^ exp)
  \/ \E i \in 0 - 2 ^ (Width - 1) .. 2 ^ (Width - 1) - 1 : Becomes(nlInit(i), i, 1)

Next ==
  \/ Unary
  \/ \E y \in Operands :
       \/ Arithmetic(x, y, value, Value(y)) \/ Arithmetic(y, x, Value(y), value)
       \/ OfIntegers(x, y) \/ OfIntegers(y, x)
       \/ Content(x, y, Value(y)) \/ Content(y, x, value)

Spec == Init /\ [][Next]_vars

-----------------------------------------------------------------------------
(* The form promises what the operations rely on: an integer object does   *)
(* not fit into an immediate, and a fraction with s = 1 is in lowest terms *)
(* and no integer.                                                         *)
Canonical ==
  /\ SR(x) => x.z \in 0 - POW_2_28 .. POW_2_28 - 1
  /\ x.s = "3" => x.z \notin 0 - POW_2_28 .. POW_2_28 - 1
  /\ x.s = "1" => x.n > 1 /\ Gcd(x.z, x.n) = 1
  /\ x.s = "0" => x.n > 0
  /\ IsZ(x) => x.n = 1

(* Whatever the lengths, forms and order of the operands of a computation, *)
(* its result is the rational number it stands for.                        *)
Exact == Value(x) = value

(* After nlNormalize every rational has one form only, so that zero and    *)
(* one are known by comparing pointers.                                    *)
NormalFormIsUnique ==
  LET n == nlNormalize(x) IN
  n = IF value.den > 1 THEN [s |-> "1", z |-> value.num, n |-> value.den]
      ELSE [s |-> IF value.num \in 0 - POW_2_28 .. POW_2_28 - 1 THEN "SR" ELSE "3",
            z |-> value.num, n |-> 1]

(* nlEqual and nlGreater compare the rationals, in whatever forms they are.*)
Compares ==
  \A y \in Operands :
    LET d == value.num * Value(y).den - Value(y).num * value.den IN
    (nlEqual(x, y) <=> d = 0) /\ (nlGreater(x, y) <=> d > 0)
=============================================================================
