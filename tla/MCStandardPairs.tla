---------------------------- MODULE MCStandardPairs ----------------------------
(* StandardPairs over squarefree monomials; the variables are symmetric.   *)
EXTENDS StandardPairs, TLC

CONSTANTS MinDegree, MaxDegree
Degree(m)  == Cardinality({v \in Vars : m[v] > 0})
MCLeads    == {m \in [Vars -> 0 .. MaxExp] : Degree(m) \in MinDegree .. MaxDegree}
MCSymmetry == Permutations(Vars)
================================================================================
