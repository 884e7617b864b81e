---------------------------- MODULE MCOwnerCache ----------------------------
(* Small instances of OwnerCache for TLC.                                  *)
EXTENDS OwnerCache, TLC
CONSTANTS t1, t2, t3, k1, s1, s2, s3

TwoThreads == {t1, t2}
ThreeThreads == {t1, t2, t3}
OneKey == {k1}
\* An operation holds at most one state, and a state in the map is held.
States2 == {s1, s2}
States3 == {s1, s2, s3}

\* Goroutines and addresses are interchangeable.
Symmetry3 == Permutations(ThreeThreads) \cup Permutations(States3)
=============================================================================
