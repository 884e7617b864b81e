----------------------------- MODULE MCLRUStore -----------------------------
(* Small instances of LRUStore for TLC.                                    *)
EXTENDS LRUStore
CONSTANTS k1, k2, k3

ThreeKeys == {k1, k2, k3}
MCKeyLen == [k \in Keys |-> 1]
=============================================================================
