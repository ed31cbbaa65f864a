------------------------------ MODULE MCSkills -------------------------------
(* Small instances of Skills for TLC.                                      *)
EXTENDS Skills, TLC

CONSTANTS w1, w2, i1, i2, n1, n2, n3, a1, a2, u1, u2

TwoWorkers == {w1, w2}
TwoIDs == {i1, i2}
TwoNames == {n1, n2}
ThreeNames == {n1, n2, n3}
OneArchive == {a1}
TwoArchives == {a1, a2}
TwoUsers == {u1, u2}

Symmetry == Permutations(TwoWorkers) \cup Permutations(TwoIDs)
            \cup Permutations(TwoNames) \cup Permutations(TwoUsers)
=============================================================================
