CONSTANTS
  Vars = {w, x, y, z}
  w = w
  x = x
  y = y
  z = z
  MaxExp = 1
  Leads <- MCLeads
  MinDegree = 2
  MaxDegree = 3
  MaxPolys = 4
  SugarPolys = 3
  Ecarts = {0, 1}
  Modes = {"plain", "Gebauer", "sugar"}
SPECIFICATION Spec
SYMMETRY MCSymmetry
INVARIANTS
  Covered
  PairsSafe
