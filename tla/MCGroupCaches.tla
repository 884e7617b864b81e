--------------------------- MODULE MCGroupCaches ---------------------------
(* Two groups of one name, two goroutines, two shards with a key each: 3000 bytes *)
(* asked to be split into three shards.                                           *)
EXTENDS GroupCaches, Bitwise

CONSTANTS g1, g2, n1, k1, k2

MCNameOf == [g \in Groups |-> n1]
MCAnd(a, b) == a & b
MCHash == [k \in Keys |-> IF k = k1 THEN 6 ELSE 9]
=============================================================================
