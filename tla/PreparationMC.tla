--------------------------- MODULE PreparationMC ---------------------------
(* Two approvals for one or for two tasks, two fields and a resume.        *)
EXTENDS PreparationSession, TLC

CONSTANTS n1, n2, t1, t2

MCPlan == <<"name", "city">>
Symmetry == Permutations({n1, n2}) \cup Permutations({t1, t2})
=============================================================================
