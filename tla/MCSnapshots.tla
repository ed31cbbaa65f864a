---------------------------- MODULE MCSnapshots -----------------------------
(* Small instances of Snapshots for TLC.                                   *)
EXTENDS Snapshots, TLC

CONSTANTS w1, w2, s1, s2, u1, u2

TwoWorkers == {w1, w2}
TwoSnaps == {s1, s2}
TwoUsers == {u1, u2}

Symmetry == Permutations(TwoWorkers) \cup Permutations(TwoUsers) \cup Permutations(TwoSnaps)
=============================================================================
