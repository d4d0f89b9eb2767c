--------------------------- MODULE MCEmailApproval ---------------------------
EXTENDS EmailApproval, TLC
CONSTANTS r1, r2, r3, b1, b2
MC_Requests == {r1, r2, r3}
MC_Bodies == {b1, b2}
MC_Symmetry == Permutations(MC_Requests) \cup Permutations(MC_Bodies)
====
