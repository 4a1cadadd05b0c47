--------------------------- MODULE MCSequential ---------------------------
(***************************************************************************)
(* Sequential parts of the system in one instance for TLC: in every        *)
(* behaviour one of the machines Positions, KBuckets, Longrat, Hilbert     *)
(* (with Staircase) and Basering is at work, and the variables of the      *)
(* others keep an idle value.  The rings and names of Basering are         *)
(* interchangeable.                                                        *)
(***************************************************************************)
EXTENDS Positions, TLC

CONSTANTS Moduli, Base, Supports,          \* of KBuckets
          Width, MaxNum, MaxDen,           \* of Longrat
          MaxGens,                         \* of Staircase
          Names, Rings, NoRing, MaxIds, MaxPolys, MaxLeaks, SI_MAX_NEST  \* of Basering

VARIABLES machine, modulus, b, polynomial, x, rational, nvars, stc, memory

Symmetry == Permutations(Rings) \union Permutations(Names)

MCMaxExp == [m \in Moduli |-> IF m = 2 THEN 4 ELSE IF m = 3 THEN 3 ELSE 2]

MCOperands ==
  LET Immediate == 0 - 2 ^ (Width - 4) .. 2 ^ (Width - 4) - 1
      number(s, z, n) == [s |-> s, z |-> z, n |-> n]
  IN  {number("SR", i, 1) : i \in Immediate}
        \union {number("3", i, 1) : i \in {0 - 65, 0 - 8, 0 - 5, 4, 5, 6, 32, 64, 67}}
        \union {number("0", z, n) : z \in {0 - 8, 2, 4}, n \in {2, 3}}
        \union {number("1", z, 2) : z \in {0 - 9, 1, 5}}

(* Of degree 3 at most; with exponent 1 in four variables.                 *)
MCGenerators ==
  <<{<<i>> : i \in 0 .. 2},
    (0 .. 2) \X (0 .. 2) \ {<<2, 2>>},
    {m \in (0 .. 2) \X (0 .. 2) \X (0 .. 2) : m[1] + m[2] + m[3] <= 3},
    {m \in (0 .. 1) \X (0 .. 1) \X (0 .. 1) \X (0 .. 1) : m[1] + m[2] + m[3] + m[4] <= 3}>>

B == INSTANCE KBuckets WITH MaxExp <- MCMaxExp, value <- polynomial
R == INSTANCE Longrat WITH Operands <- MCOperands, value <- rational
H == INSTANCE Hilbert WITH Generators <- MCGenerators
I == INSTANCE Basering

arrays == <<kind, set>>
buckets == <<modulus, b, polynomial>>
numbers == <<x, rational>>
ideal == <<nvars, stc>>

NoArray  == kind = "none" /\ set = <<>>
NoBucket == modulus = 0 /\ b = <<>> /\ polynomial = <<>>
NoNumber == x = 0 /\ rational = 0
NoIdeal  == nvars = 0 /\ stc = <<>>
NoMemory == memory = <<>>

SequentialInit ==
  \/ machine = "Positions" /\ Init /\ NoBucket /\ NoNumber /\ NoIdeal /\ NoMemory
  \/ machine = "KBuckets" /\ B!Init /\ NoArray /\ NoNumber /\ NoIdeal /\ NoMemory
  \/ machine = "Longrat" /\ R!Init /\ NoArray /\ NoBucket /\ NoIdeal /\ NoMemory
  \/ machine = "Hilbert" /\ H!Init /\ NoArray /\ NoBucket /\ NoNumber /\ NoMemory
  \/ machine = "Basering" /\ I!Init /\ NoArray /\ NoBucket /\ NoNumber /\ NoIdeal

SequentialNext ==
  /\ UNCHANGED machine
  /\ \/ machine = "Positions" /\ Next /\ UNCHANGED <<buckets, numbers, ideal, memory>>
     \/ machine = "KBuckets" /\ B!Next /\ UNCHANGED <<arrays, numbers, ideal, memory>>
     \/ machine = "Longrat" /\ R!Next /\ UNCHANGED <<arrays, buckets, ideal, memory>>
     \/ machine = "Hilbert" /\ H!Next /\ UNCHANGED <<arrays, buckets, numbers, memory>>
     \/ machine = "Basering" /\ I!Next /\ UNCHANGED <<arrays, buckets, numbers, ideal>>

SequentialSpec ==
  SequentialInit /\ [][SequentialNext]_<<machine, arrays, buckets, numbers, ideal, memory>>

-----------------------------------------------------------------------------
(* T, L and S stay in order whatever binary search is chosen, as a linear  *)
(* search would leave them, and no position is out of the array.           *)
PositionsRight == machine = "Positions" => TypeOK /\ Sorted /\ AsLinear

(* The buckets sum up to the polynomial they stand for, their cached       *)
(* lengths are right, and the leading monomial, once known, is above all   *)
(* the others.                                                             *)
BucketsRight ==
  machine = "KBuckets" => B!TypeOK /\ B!SumIsValue /\ B!LengthsRight /\ B!LmIsLargest

(* The result of a chain of operations is the rational it stands for, in a *)
(* form the next operation may rely on; after nlNormalize there is one     *)
(* form only; nlEqual and nlGreater compare values, whatever the forms.    *)
NumbersRight ==
  machine = "Longrat" =>
    R!Canonical /\ R!Exact /\ R!NormalFormIsUnique /\ R!Compares

(* Dimension, independent sets, multiplicity, highest corner, vector space *)
(* basis and Hilbert series of a monomial ideal are what its standard      *)
(* monomials and the covers of its generators say.                         *)
StaircaseRight ==
  machine = "Hilbert" => H!DimensionRight /\ H!BasisRight /\ H!SeriesRight

(* However procedures share, redefine, return, keep and kill rings: the    *)
(* counts are those of the owners, what points to a ring points to a live  *)
(* one, and a call leaves nothing of its own behind.                       *)
RingsExact == machine = "Basering" => I!RingsSafe

(* A call gives its caller back the basering, or the one that was kept for *)
(* it, as long as it still has an identifier outside of the call.          *)
BaseringRestored == [][machine = "Basering" => I!CallRestores]_memory
=============================================================================
