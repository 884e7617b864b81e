--------------------------- MODULE ConsistentHash ---------------------------
(***************************************************************************)
(* consistenthash.Map (consistenthash/con_hash.go): the ring of virtual    *)
(* points that assigns every key to one node.                              *)
(*                                                                         *)
(* Node names are 1..N in their string order, 0 is the empty string.  The  *)
(* hash of a virtual point "node#i" is an arbitrary function, fixed in     *)
(* RingInit, with collisions; a key is represented by its own hash.        *)
(***************************************************************************)
EXTENDS Integers, Sequences, Functions

CONSTANTS
  N,          \* number of node names
  Replicas,   \* config.Replicas
  MaxHash,    \* hashes are 0..MaxHash
  MaxArgs     \* bound on the arguments of one call of Add

ASSUME RingAssumption ==
  N \in Nat /\ Replicas \in Nat \ {0} /\ MaxHash \in Nat /\ MaxArgs \in Nat

Empty == 0
Nodes == 1..N
Hashes == 0..MaxHash

VARIABLES
  hashOf,     \* config.HashFunc on the virtual points
  points,     \* m.points
  nodes       \* m.nodes

ringVars == <<hashOf, points, nodes>>

Point(n, i) == [hash |-> hashOf[<<n, i>>], node |-> n, replica |-> i]
PointsOf(n) == [i \in 1..Replicas |-> Point(n, i - 1)]

RingInit ==
  /\ hashOf \in [Nodes \X (0..Replicas - 1) -> Hashes]
  /\ points = <<>>
  /\ nodes = {}

-----------------------------------------------------------------------------
\* Mutant: colliding points stay in the order in which they were added.
PrecedesByHash(p, q) == p.hash < q.hash

\* The order of sortPoints.
Precedes(p, q) ==
  \/ p.hash < q.hash
  \/ p.hash = q.hash /\ p.node < q.node
  \/ p.hash = q.hash /\ p.node = q.node /\ p.replica < q.replica

\* The sorted points s with p in its place.
Insert(s, p) ==
  LET at == CHOOSE k \in 0..Len(s) :
              /\ k = Len(s) \/ Precedes(p, s[k + 1])
              /\ \A i \in 1..k : ~Precedes(p, s[i])
  IN [i \in 1..Len(s) + 1 |->
        IF i <= at THEN s[i] ELSE IF i = at + 1 THEN p ELSE s[i - 1]]

\* Mutant: the points are left in insertion order.
SortPointsNot(ps) == ps

\* sortPoints.
SortPoints(ps) ==
  LET sorted[i \in 0..Len(ps)] ==
        IF i = 0 THEN <<>> ELSE Insert(sorted[i - 1], ps[i])
  IN sorted[Len(ps)]

\* Add has to insert the node of its i-th argument: it is neither empty nor known.
IsNew(args, i) ==
  /\ args[i] # Empty
  /\ args[i] \notin nodes
  /\ \A j \in 1..i - 1 : args[j] # args[i]

\* The points that Add appends.
Added(args) ==
  LET added[i \in 0..Len(args)] ==
        IF i = 0 THEN <<>>
        ELSE added[i - 1] \o (IF IsNew(args, i) THEN PointsOf(args[i]) ELSE <<>>)
  IN added[Len(args)]

\* Add: append the points of the new nodes, then sort if anything changed.
Add(args) ==
  /\ args # <<>>
  /\ nodes' = nodes \cup (Range(args) \ {Empty})
  /\ points' = IF Added(args) = <<>> THEN points ELSE SortPoints(points \o Added(args))
  /\ UNCHANGED hashOf

\* m.points without those of n.
Without(n) ==
  LET kept[i \in 0..Len(points)] ==
        IF i = 0 THEN <<>>
        ELSE IF points[i].node = n THEN kept[i - 1] ELSE Append(kept[i - 1], points[i])
  IN kept[Len(points)]

\* Remove: an unknown or empty node is an error.
RemoveNode(n) ==
  /\ n \in nodes
  /\ points' = Without(n)
  /\ nodes' = nodes \ {n}
  /\ UNCHANGED hashOf

\* Mutant: the search looks for a strictly larger hash.
ReachesStrictly(p, h) == p.hash > h

\* The predicate of the search.
Reaches(p, h) == p.hash >= h

\* sort.Search over the points: bisection on 0-based indices.
Search(h) ==
  LET bisect[r \in (0..Len(points)) \X (0..Len(points))] ==
        LET i == r[1]
            j == r[2]
            mid == (i + j) \div 2
        IN IF i >= j THEN i
           ELSE IF Reaches(points[mid + 1], h) THEN bisect[<<i, mid>>]
           ELSE bisect[<<mid + 1, j>>]
  IN bisect[<<0, Len(points)>>]

\* Get for a key with hash h: past the last point the ring wraps around.
Get(h) ==
  IF points = <<>> THEN Empty
  ELSE LET idx == Search(h)
           at == IF idx = Len(points) THEN 0 ELSE idx
       IN points[at + 1].node

-----------------------------------------------------------------------------
\* How the picker calls Add: one member, or a whole membership.
Arguments == UNION {[1..l -> Nodes \cup {Empty}] : l \in 1..MaxArgs}

RingNext ==
  \/ \E args \in Arguments : Add(args)
  \/ \E n \in Nodes : RemoveNode(n)

RingSpec == RingInit /\ [][RingNext]_ringVars

-----------------------------------------------------------------------------
RingPoints == {Point(n, i) : n \in nodes, i \in 0..Replicas - 1}

\* "Ring construction is deterministic ... regardless of member insertion
\* order": whatever Adds and Removes led here, the points are those of the
\* present nodes, once each, in the one order that sorts them.  Two pickers
\* with the same members therefore have the same ring.
RingIsCanonical ==
  /\ Range(points) = RingPoints
  /\ \A i, j \in 1..Len(points) : i < j => Precedes(points[i], points[j])

\* How far clockwise a point lies from hash h.
Distance(p, h) == (p.hash - h) % (MaxHash + 1)

\* Get returns the node of the nearest point clockwise, the smallest (node,
\* replica) among those with the same hash; a ring with a member has an owner
\* for every key, and the owner is a member.
OwnerIsNearest ==
  \A h \in Hashes :
    IF nodes = {} THEN Get(h) = Empty
    ELSE \E p \in RingPoints :
           /\ Get(h) = p.node
           /\ \A q \in RingPoints \ {p} :
                \/ Distance(p, h) < Distance(q, h)
                \/ Distance(p, h) = Distance(q, h) /\ Precedes(p, q)

\* Adding members moves keys only to the new members, removing one moves only
\* the keys it owned: the partial remapping the README promises.
MinimalRemap ==
  [][\A h \in Hashes :
       Get(h)' # Get(h) =>
         Get(h)' \in (nodes' \ nodes) \/ Get(h) \notin nodes']_ringVars
=============================================================================
