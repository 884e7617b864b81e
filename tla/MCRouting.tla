----------------------------- MODULE MCRouting ------------------------------
EXTENDS Routing

CONSTANTS t1, t2

OneCaller == {t1}
TwoCallers == {t1, t2}

\* Node 1 is nearest to the key, then node 2.
OnNode2 == [t \in OneCaller |-> 2]
OnNode3 == [t \in OneCaller |-> 3]
OnNodes23 == [t \in TwoCallers |-> IF t = t1 THEN 2 ELSE 3]

\* The membership does not move.
Stable3 == {<<{1, 2, 3}>>}

\* Node 1 joins, or it leaves.
Moves == {<<{2, 3}, {1, 2, 3}>>, <<{1, 2, 3}, {2, 3}>>}

\* Node 1 comes and goes for as long as a Set on node 2 tries.
Flaps == {<<{2}, {1, 2}, {2}, {1, 2}, {2}, {1, 2}, {2}, {1, 2}>>}

\* What the callers call.
AllOps == [t \in OneCaller |-> Ops]
SetsOnly == [t \in OneCaller |-> {"set"}]
OneSetsOneDeletes == [t \in TwoCallers |-> IF t = t1 THEN {"get", "set"} ELSE {"get", "del"}]
=============================================================================
