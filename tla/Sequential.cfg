CONSTANTS
  Values = {1, 2}
  MaxLen = 5
  Moduli = {2, 3, 4}
  Base = 2
  Supports = {{0, 2}, {0, 1, 3}}
  Width = 6
  MaxNum = 70
  MaxDen = 6
  MaxGens = 4
  Names = {r, s}
  Rings = {R1, R2}
  NoRing = NoRing
  MaxIds = 3
  MaxPolys = 1
  MaxLeaks = 0
  SI_MAX_NEST = 2
SPECIFICATION SequentialSpec
SYMMETRY Symmetry
INVARIANTS
  PositionsRight
  BucketsRight
  NumbersRight
  StaircaseRight
  RingsExact
PROPERTY BaseringRestored
