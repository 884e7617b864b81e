--------------------------- MODULE LRUStoreProofs ---------------------------
(***************************************************************************)
(* The LRU store, for any keys, lengths, budget and sequence of calls: it  *)
(* implements the lossy map of module LossyStore, its structures agree, it *)
(* keeps to its budget and evicts the least recently used entries.         *)
(***************************************************************************)
EXTENDS LRUStore, FiniteSetTheorems, TLAPS

-----------------------------------------------------------------------------
(* The store implements the lossy map.                                     *)

\* The types the refinement needs: what is stored are values of the keys, and
\* deadlines are numbers.
Shape ==
  /\ DOMAIN items \subseteq Keys
  /\ \A k \in DOMAIN items : items[k] \in Lengths
  /\ \A k \in DOMAIN expires : expires[k] \in Int
  /\ now \in Int

\* c has no entries or deadlines but those of b.
Within(c, b) ==
  /\ DOMAIN c.items \subseteq DOMAIN b.items
  /\ \A k \in DOMAIN c.items :
       /\ c.items[k] = b.items[k]
       /\ k \in DOMAIN c.expires <=> k \in DOMAIN b.expires
  /\ DOMAIN c.expires \subseteq DOMAIN b.expires
  /\ \A k \in DOMAIN c.expires : c.expires[k] = b.expires[k]

LEMMA RemoveWithin ==
  ASSUME NEW c, NEW S PROVE Within(RemoveElements(c, S), c)
BY DEF RemoveElements, Within

LEMMA EvictWithin ==
  ASSUME NEW c, NEW t PROVE Within(EvictLocked(c, t), c)
<1> DEFINE live == RemoveElements(c, ExpiredIn(c, t))
<1>1. Within(live, c) BY RemoveWithin
<1>2. Within(RemoveElements(live, Oldest(live, Drops(live))), live)
  BY RemoveWithin
<1>3. EvictLocked(c, t) = RemoveElements(live, Oldest(live, Drops(live)))
  BY DEF EvictLocked
<1> HIDE DEF live
<1> QED BY <1>1, <1>2, <1>3 DEF Within

\* Nothing but losses between two states of the structures is a loss of the map.
LEMMA WithinLoses ==
  ASSUME NEW c, Becomes(c), Within(c, Here)
  PROVE  Store!Loses(Keys)
<1>1. /\ DOMAIN items' \subseteq DOMAIN items
      /\ \A k \in DOMAIN items' :
           /\ items'[k] = items[k]
           /\ k \in DOMAIN expires' <=> k \in DOMAIN expires
      /\ \A k \in DOMAIN expires' : expires'[k] = expires[k]
  BY DEF Becomes, Within, Here
<1> SUFFICES ASSUME NEW k \in Keys
             PROVE  \/ /\ (IF k \in DOMAIN items' THEN items'[k] ELSE NoValue)
                          = (IF k \in DOMAIN items THEN items[k] ELSE NoValue)
                       /\ (IF k \in DOMAIN expires' THEN expires'[k] ELSE Forever)
                          = (IF k \in DOMAIN expires THEN expires[k] ELSE Forever)
                    \/ (IF k \in DOMAIN items' THEN items'[k] ELSE NoValue) = NoValue
  BY DEF Store!Loses
<1> QED BY <1>1

LEMMA NothingLost ==
  ASSUME UNCHANGED <<items, expires>> PROVE Store!Loses(Keys)
BY DEF Store!Loses

\* Every step of the store is a step of the lossy map or changes nothing of it.
LEMMA StepImplements ==
  ASSUME Shape, [Next]_vars
  PROVE  [Store!Next]_(Store!storeVars)
<1>c. Forever \notin Int /\ Lengths \subseteq Nat /\ TTLs \subseteq Nat /\ NoValue \notin Lengths
  BY StoreAssumption
<1>1. ASSUME NEW k \in Keys, Get(k) PROVE Store!Next
  <2>1. Store!Loses(Keys)
    <3>1. CASE UNCHANGED <<items, expires>> BY <3>1, NothingLost
    <3>2. CASE Becomes(RemoveElements(Here, {k}))
      BY <3>2, RemoveWithin, WithinLoses
    <3> QED BY <1>1, <3>1, <3>2 DEF Get, Hit
  <2>2. \/ out' = Miss
        \/ out' = items[k] /\ Has(k) /\ k \notin ExpiredIn(Here, now)
    BY <1>1 DEF Get, Hit
  <2>3. ASSUME out' = items[k], Has(k), k \notin ExpiredIn(Here, now)
        PROVE  /\ (IF k \in DOMAIN items THEN items[k] ELSE NoValue) # NoValue
               /\ ~Store!Expired(k)
               /\ out' = (IF k \in DOMAIN items THEN items[k] ELSE NoValue)
    <3>1. k \notin DOMAIN expires \/ ~(now >= expires[k])
      BY <2>3 DEF Has, ExpiredIn, IsOver, Here
    <3>2. ~Store!Expired(k)
      BY <3>1 DEF Store!Expired
    <3> QED BY <1>c, <2>3, <3>2 DEF Has, Shape
  <2>4. Store!Get(k)
    BY <1>1, <2>1, <2>2, <2>3 DEF Store!Get, Get, Hit
  <2> QED BY <2>4 DEF Store!Next
<1>2. ASSUME NEW k \in Keys, NEW v \in Lengths, NEW d \in TTLs,
             NEW t \in now..MaxTime, Set(k, v, d, t)
      PROVE  Store!Next
  <2> DEFINE c == [list    |-> Append(Without(list, {k}), k),
                   items   |-> [j \in DOMAIN items \cup {k} |->
                                  IF j = k THEN v ELSE items[j]],
                   expires |-> Deadlines(k, d),
                   used    |-> used + Growth(k, v)]
  <2>1. Becomes(EvictLocked(c, t)) /\ now' = t /\ out' = out
    BY <1>2 DEF Set, MovedBack
  <2>2. Within(EvictLocked(c, t), c) BY EvictWithin
  <2>3. /\ DOMAIN items' \subseteq DOMAIN items \cup {k}
        /\ \A j \in DOMAIN items' : items'[j] = IF j = k THEN v ELSE items[j]
        /\ \A j \in DOMAIN items' :
             j \in DOMAIN expires' <=> j \in DOMAIN Deadlines(k, d)
        /\ DOMAIN expires' \subseteq DOMAIN Deadlines(k, d)
        /\ \A j \in DOMAIN expires' : expires'[j] = Deadlines(k, d)[j]
    BY Zenon, <2>1, <2>2 DEF Becomes, Within
  <2> HIDE DEF c
  <2>4. /\ \A j \in Keys \ {k} :
             /\ j \in DOMAIN Deadlines(k, d) <=> j \in DOMAIN expires
             /\ j \in DOMAIN expires => Deadlines(k, d)[j] = expires[j]
        /\ k \in DOMAIN Deadlines(k, d) <=> d > 0
        /\ d > 0 => Deadlines(k, d)[k] = now + d
    BY DEF Deadlines
  <2>5. Store!Loses(Keys \ {k})
    <3> SUFFICES ASSUME NEW j \in Keys \ {k}
                 PROVE  \/ /\ (IF j \in DOMAIN items' THEN items'[j] ELSE NoValue)
                              = (IF j \in DOMAIN items THEN items[j] ELSE NoValue)
                           /\ (IF j \in DOMAIN expires' THEN expires'[j] ELSE Forever)
                              = (IF j \in DOMAIN expires THEN expires[j] ELSE Forever)
                        \/ (IF j \in DOMAIN items' THEN items'[j] ELSE NoValue) = NoValue
      BY DEF Store!Loses
    <3> QED BY <2>3, <2>4
  <2>6. now' >= now BY <1>2, <2>1 DEF Shape
  <2>7. \/ /\ (IF k \in DOMAIN items' THEN items'[k] ELSE NoValue) = v
           /\ \/ (IF k \in DOMAIN expires' THEN expires'[k] ELSE Forever) = Forever
              \/ (IF k \in DOMAIN expires' THEN expires'[k] ELSE Forever) > now
        \/ (IF k \in DOMAIN items' THEN items'[k] ELSE NoValue) = NoValue
    BY <1>c, <2>3, <2>4 DEF Shape
  <2>8. Store!Set(k, v) BY <2>1, <2>5, <2>6, <2>7 DEF Store!Set
  <2> QED BY <2>8 DEF Store!Next
<1>3. ASSUME Store!Loses(Keys), UNCHANGED <<now, out>> PROVE Store!Next
  BY <1>3 DEF Store!Next, Store!Lose
<1>4. ASSUME NEW k \in Keys, Delete(k) PROVE Store!Next
  BY <1>3, <1>4, RemoveWithin, WithinLoses DEF Delete
<1>5. ASSUME Clear PROVE Store!Next
  <2>1. DOMAIN items' = {} BY <1>5 DEF Clear
  <2>2. Store!Loses(Keys) BY <2>1 DEF Store!Loses
  <2> QED BY <1>3, <1>5, <2>2 DEF Clear
<1>6. ASSUME CleanupExpired PROVE Store!Next
  BY <1>3, <1>6, EvictWithin, WithinLoses DEF CleanupExpired
<1>7. ASSUME UNCHANGED <<items, expires, now, out>>
      PROVE  UNCHANGED Store!storeVars
  BY <1>7 DEF Store!storeVars
<1>8. ASSUME Tick PROVE Store!Next
  BY <1>8 DEF Tick, Shape, Store!Next, Store!Tick
<1> QED
  BY <1>1, <1>2, <1>4, <1>5, <1>6, <1>7, <1>8 DEF Next, vars, Close

LEMMA ShapeInductive == Shape /\ [Next]_vars => Shape'
<1> SUFFICES ASSUME Shape, [Next]_vars PROVE Shape'
  OBVIOUS
<1>c. Lengths \subseteq Nat /\ TTLs \subseteq Nat /\ MaxTime \in Nat
  BY StoreAssumption
<1>1. ASSUME NEW c, Within(c, Here), Becomes(c), now' \in Int PROVE Shape'
  BY <1>1 DEF Shape, Within, Becomes, Here
<1>2. ASSUME UNCHANGED <<items, expires>>, now' \in Int PROVE Shape'
  BY <1>2 DEF Shape
<1>n. now \in Int BY DEF Shape
<1>3. ASSUME NEW k \in Keys, Get(k) \/ Delete(k) PROVE Shape'
  <2>1. now' = now BY <1>3 DEF Get, Hit, Delete
  <2>2. UNCHANGED <<items, expires>> \/ Becomes(RemoveElements(Here, {k}))
    BY <1>3 DEF Get, Hit, Delete
  <2> QED BY <1>1, <1>2, <1>n, <2>1, <2>2, RemoveWithin
<1>4. ASSUME NEW k \in Keys, NEW v \in Lengths, NEW d \in TTLs,
             NEW t \in now..MaxTime, Set(k, v, d, t)
      PROVE  Shape'
  <2> DEFINE c == [list    |-> Append(Without(list, {k}), k),
                   items   |-> [j \in DOMAIN items \cup {k} |->
                                  IF j = k THEN v ELSE items[j]],
                   expires |-> Deadlines(k, d),
                   used    |-> used + Growth(k, v)]
  <2>1. Becomes(EvictLocked(c, t)) /\ now' = t BY <1>4 DEF Set, MovedBack
  <2>2. Within(EvictLocked(c, t), c) BY EvictWithin
  <2>3. /\ DOMAIN items' \subseteq DOMAIN items \cup {k}
        /\ \A j \in DOMAIN items' : items'[j] = IF j = k THEN v ELSE items[j]
        /\ DOMAIN expires' \subseteq DOMAIN Deadlines(k, d)
        /\ \A j \in DOMAIN expires' : expires'[j] = Deadlines(k, d)[j]
    BY Zenon, <2>1, <2>2 DEF Becomes, Within
  <2>4. \A j \in DOMAIN Deadlines(k, d) : Deadlines(k, d)[j] \in Int
    BY <1>c, <1>n DEF Deadlines, Shape
  <2> QED BY <1>n, <2>1, <2>3, <2>4 DEF Shape
<1>5. ASSUME Clear PROVE Shape' BY <1>5 DEF Clear, Shape
<1>6. ASSUME CleanupExpired PROVE Shape'
  BY <1>1, <1>6, <1>n, EvictWithin DEF CleanupExpired
<1>7. ASSUME Close \/ Tick \/ UNCHANGED vars PROVE Shape'
  BY <1>2, <1>7, <1>n DEF Close, Tick, vars
<1> QED BY <1>3, <1>4, <1>5, <1>6, <1>7 DEF Next

\* lruCache is a lossy map with deadlines: a hit returns the value of the last
\* SetWithExpiration of its key and is not past its deadline, and no call, tick
\* or eviction brings a lost entry back.
THEOREM LRUImplementsLossyStore == Spec => ImplementsLossyStore
<1>1. Init => Store!Init
  BY DEF Init, Store!Init
<1>2. Init => Shape BY DEF Init, Shape
<1> QED
  BY <1>1, <1>2, ShapeInductive, StepImplements, PTL
  DEF Spec, ImplementsLossyStore, Store!Spec

-----------------------------------------------------------------------------
(* Removing entries from the list: Without keeps the rest, in order.       *)

LEMMA LeastNatural ==
  ASSUME NEW T, T \subseteq Nat, T # {}
  PROVE  \E m \in T : \A n \in T : m <= n
<1> DEFINE below == {ss \in Nat \X Nat : ss[1] < ss[2]}
<1>1. IsWellFoundedOn(below, Nat) BY NatLessThanWellFounded DEF OpToRel
<1> HIDE DEF below
<1>2. PICK m \in T : \A n \in T : ~(<<n, m>> \in below) BY <1>1, WFMin
<1>3. \A n \in T : ~(n < m) BY <1>2 DEF below
<1> QED BY <1>3

\* One step of Without.
Keeps(s, S, before, i) == IF s[i] \in S THEN before ELSE Append(before, s[i])

\* g holds what Without keeps of every prefix of s up to n.
IsKept(g, s, S, n) ==
  /\ g = [i \in 0..n |-> g[i]]
  /\ g[0] = <<>>
  /\ \A i \in 1..n : g[i] = Keeps(s, S, g[i - 1], i)

LEMMA KeptExists ==
  ASSUME NEW A, NEW s \in Seq(A), NEW S, NEW n \in Nat
  PROVE  \E g : IsKept(g, s, S, n)
<1> DEFINE T == {m \in Nat : ~ \E g : IsKept(g, s, S, m)}
<1>1. T = {}
  <2> SUFFICES ASSUME T # {} PROVE FALSE OBVIOUS
  <2>1. T \subseteq Nat OBVIOUS
  <2> HIDE DEF T
  <2>2. PICK m \in T : \A k \in T : m <= k BY <2>1, LeastNatural
  <2> USE DEF T
  <2>3. CASE m = 0
    <3> DEFINE g == [i \in 0..0 |-> <<>>]
    <3>1. IsKept(g, s, S, 0) BY DEF IsKept
    <3> QED BY <2>3, <3>1
  <2>4. CASE m # 0
    <3>1. m - 1 \in Nat /\ m - 1 \notin T BY <2>2, <2>4
    <3>2. PICK h : IsKept(h, s, S, m - 1) BY <3>1
    <3> DEFINE g == [i \in 0..m |-> IF i = m THEN Keeps(s, S, h[m - 1], m) ELSE h[i]]
    <3>3. g = [i \in 0..m |-> g[i]] /\ g[0] = <<>> BY <2>4, <3>2 DEF IsKept
    <3>4. \A i \in 1..m : g[i] = Keeps(s, S, g[i - 1], i)
      <4> SUFFICES ASSUME NEW i \in 1..m PROVE g[i] = Keeps(s, S, g[i - 1], i) OBVIOUS
      <4>1. CASE i = m
        <5>1. g[i - 1] = h[m - 1] BY <2>4, <4>1
        <5>2. g[i] = Keeps(s, S, h[m - 1], m) BY <4>1
        <5> HIDE DEF g
        <5> QED BY <4>1, <5>1, <5>2
      <4>2. CASE i # m
        <5>1. i \in 1..m - 1 /\ g[i - 1] = h[i - 1] /\ g[i] = h[i] BY <4>2
        <5> HIDE DEF g
        <5> QED BY <3>2, <5>1 DEF IsKept
      <4> QED BY <4>1, <4>2
    <3>5. IsKept(g, s, S, m)
      <4> HIDE DEF g
      <4> QED BY <3>3, <3>4 DEF IsKept
    <3> QED BY <3>5
  <2> QED BY <2>3, <2>4
<1> QED BY <1>1

\* What is kept of a prefix of a sequence without repetitions: the elements that are not
\* removed, in their order.
Filters(u, s, S, n) ==
  /\ Len(u) \in Nat /\ u \in Seq({s[i] : i \in 1..n})
  /\ \A a \in 1..Len(u) : u[a] \notin S
  /\ \A i \in 1..n : s[i] \notin S => \E a \in 1..Len(u) : u[a] = s[i]
  /\ \A a, b \in 1..Len(u) : a < b => \E i, j \in 1..n : i < j /\ u[a] = s[i] /\ u[b] = s[j]

LEMMA FilterStep ==
  ASSUME NEW A, NEW s \in Seq(A), NEW S, NEW n \in 1..Len(s), NEW u, Filters(u, s, S, n - 1)
  PROVE  Filters(Keeps(s, S, u, n), s, S, n)
<1> DEFINE E == {s[i] : i \in 1..n - 1}
           F == {s[i] : i \in 1..n}
<1>1. u \in Seq(E) /\ Len(u) \in Nat /\ n \in Nat /\ Len(s) \in Nat BY DEF Filters
<1>2. E \subseteq F /\ s[n] \in F BY <1>1
<1>3. u \in Seq(F) 
  <2> HIDE DEF E, F
  <2> QED BY <1>1, <1>2
<1>4. CASE s[n] \in S
  <2>1. Keeps(s, S, u, n) = u BY <1>4 DEF Keeps
  <2> QED BY <1>1, <1>3, <1>4, <2>1 DEF Filters
<1>5. CASE s[n] \notin S
  <2> DEFINE v == Append(u, s[n])
  <2>1. Keeps(s, S, u, n) = v BY <1>5 DEF Keeps
  <2>2. /\ v \in Seq(F) /\ Len(v) = Len(u) + 1 /\ v[Len(u) + 1] = s[n]
        /\ \A a \in 1..Len(u) : v[a] = u[a]
    <3> HIDE DEF E, F
    <3> QED BY <1>2, <1>3
  <2> HIDE DEF v
  <2> HIDE DEF E, F
  <2>3. ASSUME NEW a \in 1..Len(v) PROVE v[a] \notin S
    <3>1. a \in 1..Len(u) \/ a = Len(u) + 1 BY <1>1, <2>2
    <3>2. \A b \in 1..Len(u) : u[b] \notin S BY DEF Filters
    <3> QED BY <1>5, <2>2, <3>1, <3>2
  <2>4. ASSUME NEW i \in 1..n, s[i] \notin S PROVE \E a \in 1..Len(v) : v[a] = s[i]
    <3>1. CASE i = n
      <4>1. Len(u) + 1 \in 1..Len(v) BY <1>1, <2>2
      <4> QED BY <2>2, <3>1, <4>1
    <3>2. CASE i # n
      <4>1. i \in 1..n - 1 BY <1>1, <3>2
      <4>2. PICK a \in 1..Len(u) : u[a] = s[i] BY <2>4, <4>1 DEF Filters
      <4> QED BY <1>1, <2>2, <4>2
    <3> QED BY <3>1, <3>2
  <2>5. ASSUME NEW a \in 1..Len(v), NEW b \in 1..Len(v), a < b
        PROVE  \E i, j \in 1..n : i < j /\ v[a] = s[i] /\ v[b] = s[j]
    <3>1. a \in 1..Len(u) BY <1>1, <2>2, <2>5
    <3>2. CASE b = Len(u) + 1
      <4>1. u[a] \in E BY <1>1, <3>1
      <4>2. PICK i \in 1..n - 1 : s[i] = u[a] BY <4>1 DEF E
      <4>3. v[a] = s[i] /\ v[b] = s[n] BY <2>2, <3>1, <3>2, <4>2
      <4>4. i \in 1..n /\ n \in 1..n /\ i < n BY <1>1
      <4> QED BY <4>3, <4>4
    <3>3. CASE b # Len(u) + 1
      <4>1. b \in 1..Len(u) BY <1>1, <2>2, <3>3
      <4>2. PICK i \in 1..n - 1, j \in 1..n - 1 : i < j /\ u[a] = s[i] /\ u[b] = s[j]
        BY <2>5, <3>1, <4>1 DEF Filters
      <4>3. v[a] = s[i] /\ v[b] = s[j] BY <2>2, <3>1, <4>1, <4>2
      <4>4. i \in 1..n /\ j \in 1..n BY <1>1
      <4> QED BY <4>2, <4>3, <4>4
    <3> QED BY <3>2, <3>3
  <2>6. Filters(v, s, S, n) BY <1>1, <2>2, <2>3, <2>4, <2>5 DEF Filters, F
  <2> QED BY <2>1, <2>6
<1> QED BY <1>4, <1>5

LEMMA WithoutFilters ==
  ASSUME NEW A, NEW s \in Seq(A), NEW S
  PROVE  Filters(Without(s, S), s, S, Len(s))
<1> DEFINE n == Len(s)
           rec(g) == [i \in 0..n |-> IF i = 0 THEN <<>>
                                     ELSE IF s[i] \in S THEN g[i - 1]
                                     ELSE Append(g[i - 1], s[i])]
           it == CHOOSE g : g = rec(g)
<1>1. Without(s, S) = it[n] BY DEF Without
<1>2. n \in Nat OBVIOUS
<1>3. PICK h : IsKept(h, s, S, n) BY <1>2, KeptExists
<1>4. h = rec(h)
  <2>1. ASSUME NEW i \in 0..n PROVE h[i] = rec(h)[i]
    <3>1. CASE i = 0 BY <1>2, <1>3, <3>1 DEF IsKept
    <3>2. CASE i # 0
      <4>1. i \in 1..n BY <1>2, <3>2
      <4>2. h[i] = Keeps(s, S, h[i - 1], i) BY <1>3, <4>1 DEF IsKept
      <4> HIDE DEF n
      <4> QED BY <3>2, <4>2 DEF Keeps
    <3> QED BY <3>1, <3>2
  <2>2. h = [i \in 0..n |-> h[i]] BY <1>3 DEF IsKept
  <2> HIDE DEF n
  <2> QED BY <2>1, <2>2
<1>5. it = rec(it) BY <1>4
<1>6. it[0] = <<>> /\ \A i \in 1..n : it[i] = Keeps(s, S, it[i - 1], i)
  <2> HIDE DEF it
  <2>1. \A i \in 0..n : it[i] = rec(it)[i] BY <1>5
  <2> QED BY <1>2, <2>1 DEF Keeps
<1> HIDE DEF it, rec
<1> DEFINE T == {m \in 0..n : ~Filters(it[m], s, S, m)}
<1>7. T = {}
  <2> SUFFICES ASSUME T # {} PROVE FALSE OBVIOUS
  <2>1. T \subseteq Nat BY <1>2
  <2> HIDE DEF T
  <2>2. PICK m \in T : \A k \in T : m <= k BY <2>1, LeastNatural
  <2> USE DEF T
  <2>3. CASE m = 0
    <3>1. Filters(<<>>, s, S, 0) BY DEF Filters
    <3> QED BY <1>6, <2>3, <3>1
  <2>4. CASE m # 0
    <3>1. m \in 1..n /\ m - 1 \in 0..n /\ ~(m <= m - 1) BY <1>2, <2>4
    <3>2. Filters(it[m - 1], s, S, m - 1) BY <2>2, <3>1
    <3>3. Filters(Keeps(s, S, it[m - 1], m), s, S, m) BY <3>1, <3>2, FilterStep
    <3> QED BY <1>6, <3>1, <3>3
  <2> QED BY <2>3, <2>4
<1> QED BY <1>1, <1>2, <1>7

-----------------------------------------------------------------------------
(* Sums over the entries.                                                  *)

\* w gives the sum of f over every subset of S.
IsSum(w, f, S) ==
  /\ w \in [SUBSET S -> Int] /\ w[{}] = 0
  /\ \A s \in SUBSET S : \A x \in s : w[s] = f[x] + w[s \ {x}]

\* A set of subsets of a finite set has a minimal member.
LEMMA MinimalSubset ==
  ASSUME NEW S, IsFiniteSet(S), NEW T, T \subseteq SUBSET S, T # {}
  PROVE  \E m \in T : \A x \in m : m \ {x} \notin T
<1> DEFINE below == StrictSubsetOrdering(S)
<1>1. IsWellFoundedOn(below, FiniteSubsetsOf(S))
  BY FS_StrictSubsetOrderingWellFounded DEF FiniteSubsetsOf
<1>2. T \subseteq FiniteSubsetsOf(S) BY FS_Subset DEF FiniteSubsetsOf
<1> HIDE DEF below
<1>3. PICK m \in T : \A n \in T : ~(<<n, m>> \in below) BY <1>1, <1>2, WFMin
<1>4. \A x \in m : <<m \ {x}, m>> \in below
   BY DEF below, StrictSubsetOrdering
<1> QED BY <1>3, <1>4

LEMMA SumIs ==
  ASSUME NEW S, IsFiniteSet(S), NEW f, NEW w, IsSum(w, f, S)
  PROVE  SumFunctionOnSet(f, S) = w[S]
<1> DEFINE pick(s) == CHOOSE x \in s : TRUE
           rec(g) == [s \in SUBSET S |-> IF s = {} THEN 0 ELSE f[pick(s)] + g[s \ {pick(s)}]]
           it == CHOOSE g : g = rec(g)
<1>1. SumFunctionOnSet(f, S) = it[S]
  BY DEF SumFunctionOnSet, FoldFunctionOnSet, MapThenFoldSet
<1>2. \A s \in SUBSET S : s # {} => pick(s) \in s OBVIOUS
<1> HIDE DEF pick
<1>3. w = rec(w)
  <2>1. w = [s \in SUBSET S |-> w[s]] BY DEF IsSum
  <2>2. \A s \in SUBSET S : w[s] = IF s = {} THEN 0 ELSE f[pick(s)] + w[s \ {pick(s)}]
    BY <1>2 DEF IsSum
  <2> QED BY <2>1, <2>2
<1>4. it = rec(it) BY <1>3
<1>5. \A s \in SUBSET S : it[s] = IF s = {} THEN 0 ELSE f[pick(s)] + it[s \ {pick(s)}]
  BY <1>4
<1> HIDE DEF it
<1> DEFINE T == {s \in SUBSET S : it[s] # w[s]}
<1>6. T = {}
  <2> SUFFICES ASSUME T # {} PROVE FALSE OBVIOUS
  <2>1. T \subseteq SUBSET S OBVIOUS
  <2> HIDE DEF T
  <2>2. PICK m \in T : \A x \in m : m \ {x} \notin T BY <2>1, MinimalSubset
  <2> USE DEF T
  <2>3. m # {} BY <1>5 DEF IsSum
  <2>4. it[m \ {pick(m)}] = w[m \ {pick(m)}] BY <1>2, <2>2, <2>3
  <2>5. it[m] = w[m] BY <1>2, <1>5, <2>3, <2>4 DEF IsSum
  <2> QED BY <2>5
<1> QED BY <1>1, <1>6

LEMMA SumExists ==
  ASSUME NEW S, IsFiniteSet(S), NEW f, \A x \in S : f[x] \in Int
  PROVE  \E w : IsSum(w, f, S)
<1> DEFINE T == {s \in SUBSET S : ~ \E w : IsSum(w, f, s)}
<1>1. T = {}
  <2> SUFFICES ASSUME T # {} PROVE FALSE OBVIOUS
  <2>1. T \subseteq SUBSET S OBVIOUS
  <2> HIDE DEF T
  <2>2. PICK m \in T : \A x \in m : m \ {x} \notin T BY <2>1, MinimalSubset
  <2> USE DEF T
  <2>3. CASE m = {}
    <3> DEFINE w == [s \in {{}} |-> 0]
    <3>1. IsSum(w, f, m) BY <2>3 DEF IsSum
    <3> QED BY <3>1
  <2>4. CASE m # {}
    <3>1. PICK x \in m : TRUE BY <2>4
    <3>2. PICK v : IsSum(v, f, m \ {x}) BY <2>2, <3>1
    <3> DEFINE w == [s \in SUBSET m |-> IF x \in s THEN f[x] + v[s \ {x}] ELSE v[s]]
    <3>3. w \in [SUBSET m -> Int] /\ w[{}] = 0
      <4>1. \A s \in SUBSET m : s \ {x} \in SUBSET (m \ {x}) OBVIOUS
      <4>2. \A s \in SUBSET m : x \notin s => s \in SUBSET (m \ {x}) OBVIOUS
      <4>3. \A s \in SUBSET (m \ {x}) : v[s] \in Int BY <3>2 DEF IsSum
      <4>4. f[x] \in Int OBVIOUS
      <4> QED BY <3>2, <4>1, <4>2, <4>3, <4>4 DEF IsSum
    <3>4. ASSUME NEW s \in SUBSET m, NEW y \in s PROVE w[s] = f[y] + w[s \ {y}]
      <4>0. f[x] \in Int /\ f[y] \in Int OBVIOUS
      <4>1. CASE y = x BY <4>1
      <4>2. CASE y # x /\ x \in s
        <5>1. (s \ {x}) \ {y} = (s \ {y}) \ {x} OBVIOUS
        <5>2. v[s \ {x}] = f[y] + v[(s \ {x}) \ {y}] BY <3>2, <4>2 DEF IsSum
        <5>3. v[(s \ {x}) \ {y}] \in Int BY <3>2, <4>2 DEF IsSum
        <5>4. w[s] = f[x] + v[s \ {x}] BY <4>2
        <5>5. w[s \ {y}] = f[x] + v[(s \ {x}) \ {y}] BY <4>2, <5>1
        <5> HIDE DEF w
        <5>6. ASSUME NEW a \in Int, NEW b \in Int, NEW c \in Int
              PROVE  a + (b + c) = b + (a + c)
          OBVIOUS
        <5> QED BY <4>0, <5>2, <5>3, <5>4, <5>5, <5>6
      <4>3. CASE y # x /\ x \notin s BY <3>2, <4>3 DEF IsSum
      <4> QED BY <4>1, <4>2, <4>3
    <3>5. IsSum(w, f, m)
      <4> HIDE DEF w
      <4> QED BY <3>3, <3>4 DEF IsSum
    <3> QED BY <3>5
  <2> QED BY <2>3, <2>4
<1> QED BY <1>1

LEMMA SumStep ==
  ASSUME NEW S, IsFiniteSet(S), NEW f, \A x \in S : f[x] \in Int
  PROVE  /\ SumFunctionOnSet(f, S) \in Int
         /\ S = {} => SumFunctionOnSet(f, S) = 0
         /\ \A x \in S : SumFunctionOnSet(f, S) = f[x] + SumFunctionOnSet(f, S \ {x})
<1>1. PICK w : IsSum(w, f, S) BY SumExists
<1>2. SumFunctionOnSet(f, S) = w[S] BY <1>1, SumIs
<1>3. ASSUME NEW x \in S PROVE SumFunctionOnSet(f, S \ {x}) = w[S \ {x}]
  <2> DEFINE R == S \ {x}
             v == [s \in SUBSET R |-> w[s]]
  <2>1. v \in [SUBSET R -> Int] /\ v[{}] = 0 BY <1>1 DEF IsSum
  <2>2. ASSUME NEW s \in SUBSET R, NEW y \in s PROVE v[s] = f[y] + v[s \ {y}]
    BY <1>1 DEF IsSum
  <2>3. IsSum(v, f, R)
    <3> HIDE DEF v, R
    <3> QED BY <2>1, <2>2 DEF IsSum
  <2>4. IsFiniteSet(R) BY FS_RemoveElement
  <2>5. v[R] = w[R] OBVIOUS
  <2> HIDE DEF v
  <2> QED BY <2>3, <2>4, <2>5, SumIs
<1> QED BY <1>1, <1>2, <1>3 DEF IsSum

\* Sums of functions that agree are equal.
LEMMA SumSame ==
  ASSUME NEW S, IsFiniteSet(S), NEW f, NEW g, \A x \in S : f[x] \in Int /\ g[x] = f[x]
  PROVE  SumFunctionOnSet(f, S) = SumFunctionOnSet(g, S)
<1>1. PICK w : IsSum(w, f, S) BY SumExists
<1>2. IsSum(w, g, S) BY <1>1 DEF IsSum
<1> QED BY <1>1, <1>2, SumIs

\* A sum is that of a part and that of the rest.
LEMMA SumSplit ==
  ASSUME NEW D, IsFiniteSet(D), NEW f, \A x \in D : f[x] \in Int, NEW S \in SUBSET D
  PROVE  /\ SumFunctionOnSet(f, D) = SumFunctionOnSet(f, S) + SumFunctionOnSet(f, D \ S)
         /\ SumFunctionOnSet(f, S) \in Int
<1> DEFINE sum(s) == SumFunctionOnSet(f, s)
           T == {s \in SUBSET D : ~(sum(D) = sum(s) + sum(D \ s))}
<1>1. \A s \in SUBSET D : IsFiniteSet(s) /\ \A x \in s : f[x] \in Int BY FS_Subset
<1>2. \A s \in SUBSET D : /\ sum(s) \in Int /\ (s = {} => sum(s) = 0)
                          /\ \A x \in s : sum(s) = f[x] + sum(s \ {x})
  BY <1>1, SumStep
<1> HIDE DEF sum
<1>3. T = {}
  <2> SUFFICES ASSUME T # {} PROVE FALSE OBVIOUS
  <2>1. T \subseteq SUBSET D OBVIOUS
  <2> HIDE DEF T
  <2>2. PICK m \in T : \A x \in m : m \ {x} \notin T BY <2>1, MinimalSubset
  <2> USE DEF T
  <2>3. m # {}
    <3>1. D \ {} = D OBVIOUS
    <3>2. sum({}) = 0 /\ sum(D) \in Int BY <1>2
    <3>3. sum(D) = sum({}) + sum(D) BY <3>2
    <3> QED BY <3>1, <3>3
  <2>4. PICK x \in m : TRUE BY <2>3
  <2>5. sum(D) = sum(m \ {x}) + sum(D \ (m \ {x})) BY <2>2, <2>4
  <2>6. sum(m) = f[x] + sum(m \ {x}) BY <1>2, <2>4
  <2>7. sum(D \ (m \ {x})) = f[x] + sum(D \ m)
    <3>1. PICK r \in SUBSET D : r = D \ (m \ {x}) OBVIOUS
    <3>2. r \ {x} = D \ m /\ x \in r BY <2>4, <3>1
    <3>3. sum(r) = f[x] + sum(r \ {x}) BY <1>2, <3>2
    <3> QED BY <3>1, <3>2, <3>3
  <2>8. sum(m \ {x}) \in Int /\ f[x] \in Int /\ sum(D \ m) \in Int BY <1>2, <2>4
  <2>9. ASSUME NEW a \in Int, NEW b \in Int, NEW c \in Int
        PROVE  a + (b + c) = (b + a) + c
    OBVIOUS
  <2>10. sum(D) = sum(m) + sum(D \ m) BY <2>5, <2>6, <2>7, <2>8, <2>9
  <2> QED BY <2>10
<1>4. sum(D) = sum(S) + sum(D \ S) /\ sum(S) \in Int BY <1>2, <1>3
<1> QED BY <1>4 DEF sum

\* A sum of numbers that are not negative is not negative.
LEMMA SumNat ==
  ASSUME NEW D, IsFiniteSet(D), NEW f, \A x \in D : f[x] \in Nat
  PROVE  SumFunctionOnSet(f, D) \in Nat
<1> DEFINE sum(s) == SumFunctionOnSet(f, s)
           T == {s \in SUBSET D : sum(s) \notin Nat}
<1>1. \A s \in SUBSET D : IsFiniteSet(s) /\ \A x \in s : f[x] \in Int BY FS_Subset
<1>2. \A s \in SUBSET D : /\ (s = {} => sum(s) = 0)
                          /\ \A x \in s : sum(s) = f[x] + sum(s \ {x})
  BY <1>1, SumStep
<1> HIDE DEF sum
<1>3. T = {}
  <2> SUFFICES ASSUME T # {} PROVE FALSE OBVIOUS
  <2>1. T \subseteq SUBSET D OBVIOUS
  <2> HIDE DEF T
  <2>2. PICK m \in T : \A x \in m : m \ {x} \notin T BY <2>1, MinimalSubset
  <2> USE DEF T
  <2>3. m # {}
    <3>1. sum({}) = 0 BY <1>2
    <3> QED BY <3>1
  <2>4. PICK x \in m : TRUE BY <2>3
  <2>5. sum(m \ {x}) \in Nat /\ f[x] \in Nat BY <2>2, <2>4
  <2>6. sum(m) \in Nat BY <1>2, <2>4, <2>5
  <2> QED BY <2>6
<1>4. sum(D) \in Nat BY <1>3
<1> QED BY <1>4 DEF sum

-----------------------------------------------------------------------------
(* List, map and usedBytes agree, after removals and evictions.            *)

\* The list holds every key of the map once, and usedBytes is what the entries weigh.
Sound(c) ==
  /\ c.list \in Seq(Keys) /\ IsInjective(c.list) /\ Range(c.list) = DOMAIN c.items
  /\ IsFiniteSet(DOMAIN c.items)
  /\ DOMAIN c.expires \subseteq DOMAIN c.items
  /\ \A k \in DOMAIN c.items : c.items[k] \in Lengths
  /\ c.used = WeightIn(c, DOMAIN c.items)

\* The elements of u come in the order of s.
InOrder(u, s) ==
  \A a, b \in 1..Len(u) : a < b =>
    \E i, j \in 1..Len(s) : i < j /\ u[a] = s[i] /\ u[b] = s[j]

LEMMA WithoutList ==
  ASSUME NEW s \in Seq(Keys), IsInjective(s), NEW S
  PROVE  LET u == Without(s, S)
         IN  u \in Seq(Keys) /\ IsInjective(u) /\ Range(u) = Range(s) \ S /\ InOrder(u, s)
<1> DEFINE u == Without(s, S)
           E == {s[i] : i \in 1..Len(s)}
<1>1. Filters(u, s, S, Len(s)) BY WithoutFilters
<1>2. Len(s) \in Nat /\ DOMAIN s = 1..Len(s) OBVIOUS
<1> HIDE DEF u
<1>3. u \in Seq(E) /\ Len(u) \in Nat BY <1>1 DEF Filters
<1>4. E \subseteq Keys OBVIOUS
<1>5. E = Range(s) BY <1>2 DEF Range
<1> HIDE DEF E
<1>6. u \in Seq(Keys) /\ DOMAIN u = 1..Len(u) BY <1>3, <1>4
<1>7. InOrder(u, s) BY <1>1 DEF Filters, InOrder
<1>8. IsInjective(u)
  <2> SUFFICES ASSUME NEW a \in 1..Len(u), NEW b \in 1..Len(u), u[a] = u[b] PROVE a = b
    BY <1>6 DEF IsInjective
  <2>1. ASSUME NEW p \in 1..Len(u), NEW q \in 1..Len(u), u[p] = u[q], p < q PROVE FALSE
    <3>1. PICK i \in 1..Len(s), j \in 1..Len(s) : i < j /\ u[p] = s[i] /\ u[q] = s[j]
      BY <1>7, <2>1 DEF InOrder
    <3>2. i = j BY <1>2, <2>1, <3>1 DEF IsInjective
    <3> QED BY <1>2, <3>1, <3>2
  <2>2. ~(a < b) /\ ~(b < a) BY <2>1
  <2> QED BY <1>3, <2>2
<1>9. Range(u) = Range(s) \ S
  <2>1. ASSUME NEW x \in Range(u) PROVE x \in E /\ x \notin S
    <3>1. PICK a \in 1..Len(u) : x = u[a] BY <1>6 DEF Range
    <3> QED BY <1>1, <1>3, <3>1 DEF Filters
  <2>2. ASSUME NEW x \in E, x \notin S PROVE x \in Range(u)
    <3>1. PICK i \in 1..Len(s) : x = s[i] BY DEF E
    <3>2. PICK a \in 1..Len(u) : u[a] = s[i] BY <1>1, <2>2, <3>1 DEF Filters
    <3> QED BY <1>6, <3>1, <3>2 DEF Range
  <2> QED BY <1>5, <2>1, <2>2
<1> QED BY <1>6, <1>7, <1>8, <1>9 DEF u

\* The weights of the entries of c.
Weights(c) == [k \in DOMAIN c.items |-> Weight(k, c.items[k])]

LEMMA WeightTypes ==
  ASSUME NEW c, Sound(c)
  PROVE  /\ DOMAIN c.items \subseteq Keys
         /\ \A k \in DOMAIN c.items : Weights(c)[k] = Weight(k, c.items[k])
         /\ \A k \in DOMAIN c.items : Weights(c)[k] \in Nat
<1>1. Range(c.list) \subseteq Keys BY DEF Sound, Range
<1>2. DOMAIN c.items \subseteq Keys BY <1>1 DEF Sound
<1>3. \A k \in DOMAIN c.items : Weights(c)[k] = Weight(k, c.items[k]) BY DEF Weights
<1>4. ASSUME NEW k \in DOMAIN c.items PROVE Weight(k, c.items[k]) \in Nat
  <2>1. k \in Keys /\ c.items[k] \in Lengths BY <1>2 DEF Sound
  <2>2. KeyLen[k] \in Nat /\ c.items[k] \in Nat BY <2>1, StoreAssumption
  <2> QED BY <2>2 DEF Weight
<1> QED BY <1>2, <1>3, <1>4

\* What removeElement gives back.
LEMMA WeightsSplit ==
  ASSUME NEW c, Sound(c), NEW S \in SUBSET DOMAIN c.items
  PROVE  /\ WeightIn(c, S) \in Nat
         /\ c.used \in Nat
         /\ c.used = WeightIn(c, S) + WeightIn(c, DOMAIN c.items \ S)
<1> DEFINE D == DOMAIN c.items
           f == Weights(c)
<1>1. \A s : WeightIn(c, s) = SumFunctionOnSet(f, s) BY DEF WeightIn, Weights
<1>2. IsFiniteSet(D) /\ c.used = WeightIn(c, D) BY DEF Sound
<1>3. \A k \in D : f[k] \in Nat BY WeightTypes
<1>4. IsFiniteSet(S) /\ S \in SUBSET D /\ \A k \in S : f[k] \in Nat BY <1>2, <1>3, FS_Subset
<1> HIDE DEF f, D
<1>5. SumFunctionOnSet(f, S) \in Nat /\ SumFunctionOnSet(f, D) \in Nat
  BY <1>2, <1>3, <1>4, SumNat
<1>6. SumFunctionOnSet(f, D) = SumFunctionOnSet(f, S) + SumFunctionOnSet(f, D \ S)
  <2>1. \A k \in D : f[k] \in Int BY <1>3
  <2> QED BY <1>2, <1>4, <2>1, SumSplit
<1>7. c.used = SumFunctionOnSet(f, D) /\ WeightIn(c, S) = SumFunctionOnSet(f, S)
      /\ WeightIn(c, D \ S) = SumFunctionOnSet(f, D \ S)
  BY <1>1, <1>2
<1> QED BY <1>5, <1>6, <1>7 DEF D

LEMMA RemoveSound ==
  ASSUME NEW c, Sound(c), NEW S \in SUBSET DOMAIN c.items
  PROVE  LET r == RemoveElements(c, S)
         IN  /\ Sound(r) /\ InOrder(r.list, c.list)
             /\ DOMAIN r.items = DOMAIN c.items \ S
             /\ r.used = c.used - WeightIn(c, S) /\ r.used \in Nat /\ r.used <= c.used
<1> DEFINE r == RemoveElements(c, S)
           D == DOMAIN c.items
<1>1. /\ r.list = Without(c.list, S)
      /\ r.items = [k \in D \ S |-> c.items[k]]
      /\ r.expires = [k \in DOMAIN c.expires \ S |-> c.expires[k]]
      /\ r.used = c.used - WeightIn(c, S)
  BY DEF RemoveElements
<1>2. DOMAIN r.items = D \ S /\ \A k \in D \ S : r.items[k] = c.items[k] BY <1>1
<1>3. DOMAIN r.expires \subseteq DOMAIN r.items BY <1>1, <1>2 DEF Sound
<1> HIDE DEF r
<1>4. /\ c.list \in Seq(Keys) /\ IsInjective(c.list) /\ Range(c.list) = D /\ IsFiniteSet(D)
      /\ \A k \in D : c.items[k] \in Lengths
  BY DEF Sound
<1>5. /\ r.list \in Seq(Keys) /\ IsInjective(r.list) /\ Range(r.list) = D \ S
      /\ InOrder(r.list, c.list)
  BY <1>1, <1>4, WithoutList
<1>6. IsFiniteSet(D \ S) BY <1>4, FS_Subset
<1>7. WeightIn(r, D \ S) = WeightIn(c, D \ S)
  <2>1. \A k \in D \ S : Weights(c)[k] \in Nat BY WeightTypes
  <2>2. \A k \in D \ S : Weights(r)[k] = Weights(c)[k] BY <1>2 DEF Weights
  <2>3. SumFunctionOnSet(Weights(c), D \ S) = SumFunctionOnSet(Weights(r), D \ S)
    <3> DEFINE R == D \ S
    <3>1. IsFiniteSet(R) /\ \A k \in R : Weights(c)[k] \in Int /\ Weights(r)[k] = Weights(c)[k]
      BY <1>6, <2>1, <2>2
    <3> HIDE DEF R
    <3>2. SumFunctionOnSet(Weights(c), R) = SumFunctionOnSet(Weights(r), R)
      BY <3>1, SumSame
    <3> QED BY <3>2 DEF R
  <2> QED BY <2>3 DEF WeightIn, Weights
<1>8. /\ WeightIn(c, S) \in Nat /\ c.used \in Nat
      /\ c.used = WeightIn(c, S) + WeightIn(c, D \ S)
  BY WeightsSplit
<1>9. WeightIn(c, D \ S) \in Nat BY WeightsSplit
<1>10. r.used = WeightIn(r, D \ S) /\ r.used \in Nat /\ r.used <= c.used
  BY <1>1, <1>7, <1>8, <1>9
<1>11. Sound(r) BY <1>2, <1>3, <1>4, <1>5, <1>6, <1>10 DEF Sound
<1> QED BY <1>1, <1>2, <1>5, <1>10, <1>11 DEF r

-----------------------------------------------------------------------------
\* The loop of evictLocked ends, and the first time it can.
LEMMA DropsIs ==
  ASSUME NEW c, Sound(c)
  PROVE  LET n == Drops(c) IN
         /\ n \in 0..Len(c.list)
         /\ n = Len(c.list) \/ Fits(c.used - WeightIn(c, Oldest(c, n)))
         /\ \A i \in 0..n - 1 : ~Fits(c.used - WeightIn(c, Oldest(c, i)))
<1> DEFINE L == Len(c.list)
           fits(n) == Fits(c.used - WeightIn(c, Oldest(c, n)))
           T == {n \in 0..L : n = L \/ fits(n)}
<1>1. L \in Nat BY DEF Sound
<1> HIDE DEF fits, L
<1>2. T \subseteq Nat /\ L \in T BY <1>1
<1> HIDE DEF T
<1>3. PICK m \in T : \A n \in T : m <= n BY <1>2, LeastNatural
<1>4. /\ m \in 0..L /\ (m = L \/ fits(m)) /\ \A i \in 0..m - 1 : ~fits(i)
  <2>1. m \in 0..L /\ (m = L \/ fits(m)) BY DEF T
  <2>2. ASSUME NEW i \in 0..m - 1, fits(i) PROVE FALSE
    <3>1. i \in 0..L /\ ~(m <= i) BY <1>1, <2>1
    <3> QED BY <1>3, <2>2, <3>1 DEF T
  <2> QED BY <2>1, <2>2
<1>5. \E n \in 0..L : (n = L \/ fits(n)) /\ \A i \in 0..n - 1 : ~fits(i) BY <1>4
<1>6. Drops(c) = CHOOSE n \in 0..L : (n = L \/ fits(n)) /\ \A i \in 0..n - 1 : ~fits(i)
  BY DEF Drops, L, fits
<1>7. LET n == Drops(c) IN
      n \in 0..L /\ (n = L \/ fits(n)) /\ \A i \in 0..n - 1 : ~fits(i)
  BY <1>5, <1>6
<1> QED BY <1>7 DEF L, fits

LEMMA OldestIn ==
  ASSUME NEW c, Sound(c), NEW n \in 0..Len(c.list)
  PROVE  /\ Oldest(c, n) \in SUBSET DOMAIN c.items
         /\ n = Len(c.list) => Oldest(c, n) = DOMAIN c.items
<1>1. c.list \in Seq(Keys) /\ Len(c.list) \in Nat /\ DOMAIN c.list = 1..Len(c.list)
  BY DEF Sound
<1>2. Oldest(c, n) \subseteq Range(c.list) BY <1>1 DEF Oldest, Range
<1>3. n = Len(c.list) => Oldest(c, n) = Range(c.list) BY <1>1 DEF Oldest, Range
<1> QED BY <1>2, <1>3 DEF Sound

\* evictLocked keeps the structures consistent and the budget.
LEMMA EvictSound ==
  ASSUME NEW c, Sound(c), NEW t
  PROVE  LET r == EvictLocked(c, t)
         IN  Sound(r) /\ Fits(r.used) /\ InOrder(r.list, c.list)
<1> DEFINE X == ExpiredIn(c, t)
           live == RemoveElements(c, X)
           n == Drops(live)
           O == Oldest(live, n)
           r == RemoveElements(live, O)
<1>1. X \in SUBSET DOMAIN c.items BY DEF ExpiredIn
<1>2. Sound(live) /\ InOrder(live.list, c.list) BY <1>1, RemoveSound
<1>3. EvictLocked(c, t) = r BY DEF EvictLocked
<1> HIDE DEF live, X
<1>4. n \in 0..Len(live.list) /\ (n = Len(live.list) \/ Fits(live.used - WeightIn(live, O)))
  BY <1>2, DropsIs
<1> HIDE DEF n
<1>5. O \in SUBSET DOMAIN live.items /\ (n = Len(live.list) => O = DOMAIN live.items)
  BY <1>2, <1>4, OldestIn
<1> HIDE DEF O
<1>6. Sound(r) /\ InOrder(r.list, live.list) /\ r.used = live.used - WeightIn(live, O)
  BY <1>2, <1>5, RemoveSound
<1>7. Fits(r.used)
  <2>1. CASE n = Len(live.list)
    <3>1. live.used = WeightIn(live, DOMAIN live.items) /\ live.used \in Nat
      BY <1>2, <1>5, WeightsSplit DEF Sound
    <3>2. r.used = 0 BY <1>5, <1>6, <2>1, <3>1
    <3> QED BY <3>2, StoreAssumption DEF Fits
  <2> QED BY <1>4, <1>6, <2>1
<1> HIDE DEF r
<1>8. InOrder(r.list, c.list)
  <2> SUFFICES ASSUME NEW a \in 1..Len(r.list), NEW b \in 1..Len(r.list), a < b
               PROVE  \E i, j \in 1..Len(c.list) :
                        i < j /\ r.list[a] = c.list[i] /\ r.list[b] = c.list[j]
    BY DEF InOrder
  <2>1. PICK p \in 1..Len(live.list), q \in 1..Len(live.list) :
          p < q /\ r.list[a] = live.list[p] /\ r.list[b] = live.list[q]
    BY <1>6 DEF InOrder
  <2>2. PICK i \in 1..Len(c.list), j \in 1..Len(c.list) :
          i < j /\ live.list[p] = c.list[i] /\ live.list[q] = c.list[j]
    BY <1>2, <2>1 DEF InOrder
  <2> QED BY <2>1, <2>2
<1> QED BY <1>3, <1>6, <1>7, <1>8

-----------------------------------------------------------------------------
(* ... and after every operation.                                          *)

\* What the list is after an entry was moved, or put, to its back.
LEMMA MovedBackIs ==
  ASSUME Sound(Here), NEW k \in Keys
  PROVE  LET u == Without(list, {k}) m == MovedBack(k) IN
         /\ u \in Seq(Keys) /\ IsInjective(u) /\ Range(u) = DOMAIN items \ {k} /\ InOrder(u, list)
         /\ m \in Seq(Keys) /\ IsInjective(m) /\ Range(m) = DOMAIN items \cup {k}
         /\ Len(u) \in Nat /\ Len(m) = Len(u) + 1 /\ m[Len(m)] = k
         /\ \A i \in 1..Len(u) : m[i] = u[i] /\ u[i] # k
<1> DEFINE u == Without(list, {k})
           m == MovedBack(k)
<1>1. list \in Seq(Keys) /\ IsInjective(list) /\ Range(list) = DOMAIN items
  BY DEF Sound, Here
<1>2. /\ u \in Seq(Keys) /\ IsInjective(u) /\ Range(u) = DOMAIN items \ {k}
      /\ InOrder(u, list)
  BY <1>1, WithoutList
<1>3. m = Append(u, k) BY DEF MovedBack
<1> HIDE DEF u, m
<1>4. /\ m \in Seq(Keys) /\ Len(u) \in Nat /\ Len(m) = Len(u) + 1 /\ m[Len(m)] = k
      /\ \A i \in 1..Len(u) : m[i] = u[i]
      /\ DOMAIN m = 1..Len(m) /\ DOMAIN u = 1..Len(u)
  BY <1>2, <1>3
<1>5. \A i \in 1..Len(u) : u[i] # k BY <1>2, <1>4 DEF Range
<1>6. IsInjective(m)
  <2> SUFFICES ASSUME NEW a \in 1..Len(m), NEW b \in 1..Len(m), m[a] = m[b] PROVE a = b
    BY <1>4 DEF IsInjective
  <2>1. /\ a \in 1..Len(u) \/ a = Len(m)
        /\ b \in 1..Len(u) \/ b = Len(m)
    BY <1>4
  <2> QED BY <1>2, <1>4, <1>5, <2>1 DEF IsInjective
<1>7. Range(m) = DOMAIN items \cup {k}
  <2>1. ASSUME NEW x \in Range(m) PROVE x \in DOMAIN items \cup {k}
    <3>1. PICK i \in 1..Len(m) : x = m[i] BY <1>4 DEF Range
    <3>2. i \in 1..Len(u) \/ i = Len(m) BY <1>4
    <3>3. i \in 1..Len(u) => u[i] \in Range(u) BY <1>4 DEF Range
    <3> QED BY <1>2, <1>4, <3>1, <3>2, <3>3
  <2>2. ASSUME NEW x \in DOMAIN items \cup {k} PROVE x \in Range(m)
    <3>1. Len(m) \in 1..Len(m) /\ \A i \in 1..Len(u) : i \in 1..Len(m) BY <1>4
    <3>2. CASE x = k BY <1>4, <3>1, <3>2 DEF Range
    <3>3. CASE x # k
      <4>1. x \in Range(u) BY <1>2, <3>3
      <4>2. PICK i \in 1..Len(u) : x = u[i] BY <1>4, <4>1 DEF Range
      <4> QED BY <1>4, <3>1, <4>2 DEF Range
    <3> QED BY <3>2, <3>3
  <2> QED BY <2>1, <2>2
<1> QED BY <1>2, <1>4, <1>5, <1>6, <1>7 DEF u, m

\* What SetWithExpiration has made of the structures when it calls evictLocked.
Stored(k, v, d) ==
  [list    |-> MovedBack(k),
   items   |-> [j \in DOMAIN items \cup {k} |-> IF j = k THEN v ELSE items[j]],
   expires |-> Deadlines(k, d),
   used    |-> used + Growth(k, v)]

LEMMA StoredSound ==
  ASSUME Sound(Here), NEW k \in Keys, NEW v \in Lengths, NEW d
  PROVE  Sound(Stored(k, v, d))
<1> DEFINE c == Stored(k, v, d)
           D == DOMAIN items
           E == D \cup {k}
           f == Weights(Here)
           g == Weights(c)
<1>1. /\ c.list = MovedBack(k) /\ c.expires = Deadlines(k, d) /\ c.used = used + Growth(k, v)
      /\ c.items = [j \in E |-> IF j = k THEN v ELSE items[j]]
  BY DEF Stored
<1>2. DOMAIN c.items = E /\ c.items[k] = v /\ \A j \in D \ {k} : c.items[j] = items[j] BY <1>1
<1> HIDE DEF c
<1>3. /\ IsFiniteSet(D) /\ DOMAIN expires \subseteq D /\ used = WeightIn(Here, D)
      /\ \A j \in D : items[j] \in Lengths
      /\ Here.items = items
  BY DEF Sound, Here
<1>4. DOMAIN c.expires \subseteq E BY <1>1, <1>3 DEF Deadlines
<1>5. \A j \in E : c.items[j] \in Lengths BY <1>2, <1>3
<1>6. IsFiniteSet(E) BY <1>3, FS_AddElement
<1>7. \A j \in D : f[j] \in Nat BY <1>3, WeightTypes
<1>8. \A j \in D \ {k} : g[j] = f[j] BY <1>2, <1>3 DEF Weights
<1>9. g[k] = KeyLen[k] + v /\ g[k] \in Nat
  BY <1>2, StoreAssumption DEF Weights, Weight
<1>10. \A S : WeightIn(Here, S) = SumFunctionOnSet(f, S) /\ WeightIn(c, S) = SumFunctionOnSet(g, S)
  BY DEF WeightIn, Weights
<1> HIDE DEF f, g
<1> DEFINE R == D \ {k}
<1>11. IsFiniteSet(R) BY <1>3, FS_RemoveElement
<1>12. SumFunctionOnSet(g, R) = SumFunctionOnSet(f, R) /\ SumFunctionOnSet(f, R) \in Int
  <2>1. \A j \in R : f[j] \in Int /\ g[j] = f[j] BY <1>7, <1>8
  <2> HIDE DEF R
  <2> QED BY <1>11, <2>1, SumSame, SumStep
<1>13. SumFunctionOnSet(g, E) = g[k] + SumFunctionOnSet(g, R)
  <2>1. \A j \in E : g[j] \in Int BY <1>7, <1>8, <1>9
  <2>2. E \ {k} = R /\ k \in E OBVIOUS
  <2> HIDE DEF E, R
  <2> QED BY <1>6, <2>1, <2>2, SumStep
<1>14. c.used = WeightIn(c, E)
  <2>1. CASE k \in D
    <3>1. Growth(k, v) = v - items[k] BY <2>1 DEF Growth, Has
    <3>2. f[k] = KeyLen[k] + items[k] BY <1>3, <2>1 DEF f, Weights, Weight
    <3>3. SumFunctionOnSet(f, D) = f[k] + SumFunctionOnSet(f, R)
      <4>1. \A j \in D : f[j] \in Int BY <1>7
      <4> QED BY <1>3, <2>1, <4>1, SumStep
    <3>4. KeyLen[k] \in Nat /\ v \in Nat /\ items[k] \in Nat BY <1>3, <2>1, StoreAssumption
    <3> QED BY <1>1, <1>3, <1>9, <1>10, <1>12, <1>13, <3>1, <3>2, <3>3, <3>4
  <2>2. CASE k \notin D
    <3>1. Growth(k, v) = KeyLen[k] + v BY <2>2 DEF Growth, Has, Weight
    <3>2. R = D BY <2>2
    <3>3. KeyLen[k] \in Nat /\ v \in Nat BY StoreAssumption
    <3> HIDE DEF R, D
    <3> QED BY <1>1, <1>3, <1>9, <1>10, <1>12, <1>13, <3>1, <3>2, <3>3
  <2> QED BY <2>1, <2>2
<1>15. c.list \in Seq(Keys) /\ IsInjective(c.list) /\ Range(c.list) = E
  <2>1. /\ MovedBack(k) \in Seq(Keys) /\ IsInjective(MovedBack(k))
        /\ Range(MovedBack(k)) = DOMAIN items \cup {k}
    BY MovedBackIs
  <2> QED BY <1>1, <2>1
<1>16. Sound(c) BY <1>2, <1>4, <1>5, <1>6, <1>14, <1>15 DEF Sound
<1> QED BY <1>16 DEF c

-----------------------------------------------------------------------------
StoreInv == Sound(Here) /\ Fits(used)

LEMMA BecomesHere ==
  ASSUME NEW c, Becomes(c), Sound(c) PROVE Sound(Here)' /\ used' = c.used
<1>1. list' = c.list /\ items' = c.items /\ expires' = c.expires /\ used' = c.used BY DEF Becomes
<1> QED BY <1>1 DEF Sound, Here, WeightIn, Weight

\* An empty store is consistent.
LEMMA EmptySound ==
  ASSUME NEW c, c.list = <<>>, DOMAIN c.items = {}, DOMAIN c.expires = {}, c.used = 0
  PROVE  Sound(c)
<1>1. c.list \in Seq(Keys) /\ IsInjective(c.list) /\ Range(c.list) = {}
  <2>1. DOMAIN c.list = {} OBVIOUS
  <2> QED BY <2>1 DEF IsInjective, Range
<1>2. IsFiniteSet({}) BY FS_EmptySet
<1>3. WeightIn(c, {}) = 0
  <2>1. SumFunctionOnSet(Weights(c), {}) = 0 BY <1>2, SumStep
  <2> QED BY <2>1 DEF WeightIn, Weights
<1> QED BY <1>1, <1>2, <1>3 DEF Sound

LEMMA StoreStep == StoreInv /\ [Next]_vars => StoreInv'
<1> SUFFICES ASSUME StoreInv, [Next]_vars PROVE StoreInv' OBVIOUS
<1>1. Sound(Here) /\ Fits(used) /\ Here.items = items /\ Here.used = used /\ Here.list = list
  BY DEF StoreInv, Here
<1>2. used \in Nat BY <1>1, WeightsSplit
<1>3. ASSUME NEW c, Sound(c), Becomes(c), c.used \in Nat, c.used <= used \/ Fits(c.used)
      PROVE  StoreInv'
  <2>1. Sound(Here)' /\ used' = c.used BY <1>3, BecomesHere
  <2>2. Fits(c.used) BY <1>1, <1>2, <1>3, StoreAssumption DEF Fits
  <2> QED BY <2>1, <2>2 DEF StoreInv, Fits
<1>4. ASSUME NEW k \in DOMAIN items, Becomes(RemoveElements(Here, {k})) PROVE StoreInv'
  <2> DEFINE r == RemoveElements(Here, {k})
  <2>1. Sound(r) /\ r.used \in Nat /\ r.used <= used BY <1>1, RemoveSound
  <2> HIDE DEF r
  <2> QED BY <1>3, <1>4, <2>1 DEF r
<1>5. ASSUME NEW c, Sound(c), NEW t, Becomes(EvictLocked(c, t)) PROVE StoreInv'
  <2> DEFINE r == EvictLocked(c, t)
  <2>1. Sound(r) /\ Fits(r.used) BY <1>5, EvictSound
  <2> HIDE DEF r
  <2>2. r.used \in Nat BY <2>1, WeightsSplit
  <2> QED BY <1>3, <1>5, <2>1, <2>2 DEF r
<1>6. ASSUME UNCHANGED <<list, items, expires, used>> PROVE StoreInv'
  BY <1>6 DEF StoreInv, Fits, Sound, Here, WeightIn, Weight
<1>7. ASSUME NEW k \in Keys, Get(k) PROVE StoreInv'
  <2>1. CASE ~Has(k) BY <1>6, <1>7, <2>1 DEF Get, Hit
  <2>2. CASE Has(k) /\ k \in ExpiredIn(Here, now)
    BY <1>4, <1>7, <2>2 DEF Get, Hit, Has
  <2>3. CASE Has(k) /\ k \notin ExpiredIn(Here, now)
    <3>1. list' = MovedBack(k) /\ UNCHANGED <<items, expires, used>>
      BY <1>7, <2>3 DEF Get, Hit, MovedBack
    <3>2. /\ MovedBack(k) \in Seq(Keys) /\ IsInjective(MovedBack(k))
          /\ Range(MovedBack(k)) = DOMAIN items \cup {k}
      BY <1>1, MovedBackIs
    <3>3. DOMAIN items \cup {k} = DOMAIN items BY <2>3 DEF Has
    <3>4. list' \in Seq(Keys) /\ IsInjective(list)' /\ Range(list)' = DOMAIN items'
      BY <3>1, <3>2, <3>3 DEF IsInjective, Range
    <3> QED BY <3>1, <3>4 DEF StoreInv, Fits, Sound, Here, WeightIn, Weight
  <2> QED BY <2>1, <2>2, <2>3
<1>8. ASSUME NEW k \in Keys, Delete(k) PROVE StoreInv' BY <1>4, <1>8 DEF Delete, Has
<1>9. ASSUME NEW k \in Keys, NEW v \in Lengths, NEW d \in TTLs, NEW t, Set(k, v, d, t)
      PROVE  StoreInv'
  <2>1. Becomes(EvictLocked(Stored(k, v, d), t)) BY <1>9 DEF Set, Stored, MovedBack
  <2> QED BY <1>1, <1>5, <2>1, StoredSound
<1>10. ASSUME CleanupExpired PROVE StoreInv' BY <1>1, <1>5, <1>10 DEF CleanupExpired
<1>11. ASSUME Clear PROVE StoreInv'
  <2> DEFINE c == [list |-> <<>>, items |-> [k \in {} |-> 0], expires |-> [k \in {} |-> 0],
                   used |-> 0]
  <2>1. Sound(c) /\ c.used = 0 BY EmptySound
  <2>2. Becomes(c) BY <1>11 DEF Clear, Becomes
  <2> HIDE DEF c
  <2> QED BY <1>2, <1>3, <2>1, <2>2
<1>12. ASSUME Close \/ Tick \/ UNCHANGED vars PROVE StoreInv'
  BY <1>6, <1>12 DEF Close, Tick, vars
<1> QED BY <1>7, <1>8, <1>9, <1>10, <1>11, <1>12 DEF Next

LEMMA StoreInit == Init => StoreInv
<1> SUFFICES ASSUME Init PROVE StoreInv OBVIOUS
<1>1. Here.list = <<>> /\ DOMAIN Here.items = {} /\ DOMAIN Here.expires = {} /\ Here.used = 0
  BY DEF Init, Here
<1>2. Fits(0) BY StoreAssumption DEF Fits
<1> QED BY <1>1, <1>2, EmptySound DEF StoreInv, Init

\* For any keys, values, budget and sequence of calls, list, map and deadlines agree and
\* usedBytes is what the entries weigh.
THEOREM AccountsAgree == Spec => []Accounting
<1>1. StoreInv => Accounting BY DEF StoreInv, Sound, Accounting, Here
<1> QED BY <1>1, StoreInit, StoreStep, PTL DEF Spec

\* A store with a limit never exceeds it between two calls.
THEOREM BudgetKept == Spec => []WithinBudget
<1>1. StoreInv => WithinBudget BY DEF StoreInv, Fits, WithinBudget
<1> QED BY <1>1, StoreInit, StoreStep, PTL DEF Spec

-----------------------------------------------------------------------------
(* What is evicted.                                                        *)

\* What comes before an entry in the list was used less recently.
OrderInv ==
  \A i, j \in 1..Len(list) : i < j => list[i] \in older[list[j]]

LEMMA OrderKept ==
  ASSUME Sound(Here), OrderInv, Sound(Here)', Uses({}), InOrder(list', list)
  PROVE  OrderInv'
<1> SUFFICES ASSUME NEW a \in 1..Len(list'), NEW b \in 1..Len(list'), a < b
             PROVE  list'[a] \in older'[list'[b]]
  BY DEF OrderInv
<1>1. /\ list' \in Seq(Keys) /\ Range(list)' = DOMAIN items'
  BY DEF Sound, Here
<1>2. list'[a] \in DOMAIN items' /\ list'[b] \in DOMAIN items' /\ list'[b] \in Keys
  BY <1>1 DEF Range
<1>3. PICK i \in 1..Len(list), j \in 1..Len(list) :
        i < j /\ list'[a] = list[i] /\ list'[b] = list[j]
  BY DEF InOrder
<1>4. list'[a] \in older[list'[b]] BY <1>3 DEF OrderInv
<1>5. older'[list'[b]] = older[list'[b]] \cap DOMAIN items' BY <1>2 DEF Uses
<1> QED BY <1>2, <1>4, <1>5

LEMMA OrderMoved ==
  ASSUME Sound(Here), OrderInv, Sound(Here)', NEW k \in Keys, Uses({k}),
         InOrder(list', MovedBack(k))
  PROVE  OrderInv'
<1> SUFFICES ASSUME NEW a \in 1..Len(list'), NEW b \in 1..Len(list'), a < b
             PROVE  list'[a] \in older'[list'[b]]
  BY DEF OrderInv
<1> DEFINE u == Without(list, {k})
           m == MovedBack(k)
<1>1. /\ list' \in Seq(Keys) /\ Range(list)' = DOMAIN items'
  BY DEF Sound, Here
<1>2. list'[a] \in DOMAIN items' /\ list'[b] \in DOMAIN items' /\ list'[b] \in Keys
  BY <1>1 DEF Range
<1>3. /\ u \in Seq(Keys) /\ Range(u) = DOMAIN items \ {k} /\ InOrder(u, list)
      /\ Len(u) \in Nat /\ Len(m) = Len(u) + 1 /\ m[Len(m)] = k
      /\ \A i \in 1..Len(u) : m[i] = u[i] /\ u[i] # k
  BY MovedBackIs
<1> HIDE DEF u, m
<1>4. PICK p \in 1..Len(m), q \in 1..Len(m) : p < q /\ list'[a] = m[p] /\ list'[b] = m[q]
  BY DEF InOrder, m
<1>5. p \in 1..Len(u) BY <1>3, <1>4
<1>6. list'[a] = u[p] /\ u[p] # k /\ u[p] \in DOMAIN items
  <2>1. u[p] \in Range(u) BY <1>3, <1>5 DEF Range
  <2> QED BY <1>3, <1>4, <1>5, <2>1
<1>7. CASE q = Len(m)
  <2>1. list'[b] = k BY <1>3, <1>4, <1>7
  <2>2. older'[k] = DOMAIN items \cap (DOMAIN items' \ {k}) BY <1>2, <2>1 DEF Uses
  <2> QED BY <1>2, <1>6, <2>1, <2>2
<1>8. CASE q # Len(m)
  <2>1. q \in 1..Len(u) BY <1>3, <1>8
  <2>2. list'[b] = u[q] /\ u[q] # k BY <1>3, <1>4, <2>1
  <2>3. PICK i \in 1..Len(list), j \in 1..Len(list) : i < j /\ u[p] = list[i] /\ u[q] = list[j]
    BY <1>3, <1>4, <1>5, <2>1 DEF InOrder
  <2>4. u[p] \in older[u[q]] BY <2>3 DEF OrderInv
  <2>5. older'[u[q]] = older[u[q]] \cap (DOMAIN items' \ {k}) BY <1>2, <2>2 DEF Uses
  <2> QED BY <1>2, <1>6, <2>2, <2>4, <2>5
<1> QED BY <1>7, <1>8

LEMMA OrderStep == StoreInv /\ OrderInv /\ [Next]_vars => OrderInv'
<1> SUFFICES ASSUME StoreInv, OrderInv, [Next]_vars PROVE OrderInv' OBVIOUS
<1>1. StoreInv' BY StoreStep
<1>2. Sound(Here) /\ Sound(Here)' /\ Here.items = items /\ Here.list = list
  BY <1>1 DEF StoreInv, Here
<1>3. ASSUME UNCHANGED <<list, older>> PROVE OrderInv' BY <1>3 DEF OrderInv
<1>4. ASSUME NEW k \in DOMAIN items, Becomes(RemoveElements(Here, {k})), Uses({})
      PROVE  OrderInv'
  <2>1. InOrder(RemoveElements(Here, {k}).list, list) BY <1>2, RemoveSound
  <2>2. list' = RemoveElements(Here, {k}).list BY <1>4 DEF Becomes
  <2> QED BY <1>2, <1>4, <2>1, <2>2, OrderKept
<1>5. ASSUME NEW k \in Keys, Get(k) PROVE OrderInv'
  <2>1. CASE ~Has(k) BY <1>3, <1>5, <2>1 DEF Get, Hit
  <2>2. CASE Has(k) /\ k \in ExpiredIn(Here, now) BY <1>4, <1>5, <2>2 DEF Get, Hit, Has
  <2>3. CASE Has(k) /\ k \notin ExpiredIn(Here, now)
    <3>1. list' = MovedBack(k) /\ Uses({k}) BY <1>5, <2>3 DEF Get, Hit, MovedBack
    <3>2. InOrder(list', MovedBack(k)) BY <3>1 DEF InOrder
    <3> QED BY <1>2, <3>1, <3>2, OrderMoved
  <2> QED BY <2>1, <2>2, <2>3
<1>6. ASSUME NEW k \in Keys, Delete(k) PROVE OrderInv' BY <1>4, <1>6 DEF Delete, Has
<1>7. ASSUME NEW k \in Keys, NEW v \in Lengths, NEW d \in TTLs, NEW t, Set(k, v, d, t)
      PROVE  OrderInv'
  <2> DEFINE c == Stored(k, v, d)
  <2>1. Becomes(EvictLocked(c, t)) /\ Uses({k}) BY <1>7 DEF Set, Stored, MovedBack
  <2>2. Sound(c) BY <1>2, StoredSound
  <2>3. c.list = MovedBack(k) BY DEF Stored
  <2> HIDE DEF c
  <2>4. InOrder(EvictLocked(c, t).list, MovedBack(k)) BY <2>2, <2>3, EvictSound
  <2>5. list' = EvictLocked(c, t).list BY <2>1 DEF Becomes
  <2> QED BY <1>2, <2>1, <2>4, <2>5, OrderMoved
<1>8. ASSUME CleanupExpired PROVE OrderInv'
  <2>1. InOrder(EvictLocked(Here, now).list, list) BY <1>2, EvictSound
  <2>2. list' = EvictLocked(Here, now).list /\ Uses({}) BY <1>8 DEF CleanupExpired, Becomes
  <2> QED BY <1>2, <2>1, <2>2, OrderKept
<1>9. ASSUME Clear PROVE OrderInv'
  <2>1. Len(list') = 0 BY <1>9 DEF Clear
  <2> QED BY <2>1 DEF OrderInv
<1>10. ASSUME Close \/ Tick \/ UNCHANGED vars PROVE OrderInv'
  BY <1>3, <1>10 DEF Close, Tick, vars
<1> QED BY <1>5, <1>6, <1>7, <1>8, <1>9, <1>10 DEF Next

\* What evictLocked removes of a store in which the loop runs: the oldest that are not
\* expired, and with the last of them the budget would be exceeded.
DropsOldest(c, r, V) ==
  /\ \A g \in V, x \in DOMAIN r.items :
       \E i, j \in 1..Len(c.list) : i < j /\ c.list[i] = g /\ c.list[j] = x
  /\ \E g \in V : r.used + Weight(g, c.items[g]) > MaxBytes

LEMMA EvictsOldest ==
  ASSUME NEW c, Sound(c), NEW t, NEW r, r = EvictLocked(c, t),
         NEW V, V = (DOMAIN c.items \ ExpiredIn(c, t)) \ DOMAIN r.items, V # {}
  PROVE  DropsOldest(c, r, V)
<1> DEFINE X == ExpiredIn(c, t)
           live == RemoveElements(c, X)
           n == Drops(live)
           O == Oldest(live, n)
<1>1. X \in SUBSET DOMAIN c.items BY DEF ExpiredIn
<1>2. /\ Sound(live) /\ InOrder(live.list, c.list) /\ DOMAIN live.items = DOMAIN c.items \ X
      /\ \A k \in DOMAIN live.items : live.items[k] = c.items[k]
  <2>1. /\ Sound(live) /\ InOrder(live.list, c.list)
        /\ DOMAIN live.items = DOMAIN c.items \ X
    BY <1>1, RemoveSound
  <2>2. live.items = [k \in DOMAIN c.items \ X |-> c.items[k]] BY DEF RemoveElements
  <2> QED BY <2>1, <2>2
<1>3. r = RemoveElements(live, O) BY DEF EvictLocked
<1> HIDE DEF live
<1>4. n \in 0..Len(live.list) /\ \A i \in 0..n - 1 : ~Fits(live.used - WeightIn(live, Oldest(live, i)))
  BY <1>2, DropsIs
<1> HIDE DEF n
<1>5. O \in SUBSET DOMAIN live.items BY <1>2, <1>4, OldestIn
<1>6. /\ DOMAIN r.items = DOMAIN live.items \ O
      /\ r.used = live.used - WeightIn(live, O)
  BY <1>2, <1>3, <1>5, RemoveSound
<1>7. V = O BY <1>2, <1>5, <1>6
<1>8. /\ live.list \in Seq(Keys) /\ IsInjective(live.list)
      /\ Range(live.list) = DOMAIN live.items /\ Len(live.list) \in Nat
      /\ DOMAIN live.list = 1..Len(live.list)
  BY <1>2 DEF Sound
<1>9. n \in 1..Len(live.list)
  <2>1. n # 0 BY <1>7 DEF O, Oldest
  <2>2. n \in 0..Len(live.list) BY <1>4
  <2> QED BY <1>8, <2>1, <2>2
<1>10. ASSUME NEW g \in V, NEW x \in DOMAIN r.items
       PROVE  \E i, j \in 1..Len(c.list) : i < j /\ c.list[i] = g /\ c.list[j] = x
  <2>1. PICK p \in 1..n : g = live.list[p] BY <1>7 DEF O, Oldest
  <2>2. x \in Range(live.list) /\ x \notin O BY <1>6, <1>8
  <2>3. PICK q \in 1..Len(live.list) : x = live.list[q] BY <1>8, <2>2 DEF Range
  <2>4. q \notin 1..n BY <2>2, <2>3 DEF O, Oldest
  <2>5. p < q /\ p \in 1..Len(live.list) BY <1>8, <1>9, <2>4
  <2>6. PICK i \in 1..Len(c.list), j \in 1..Len(c.list) :
          i < j /\ live.list[p] = c.list[i] /\ live.list[q] = c.list[j]
    BY <1>2, <2>5 DEF InOrder
  <2> QED BY <2>1, <2>3, <2>6
<1>w. \A k \in DOMAIN live.items : /\ Weights(live)[k] = Weight(k, c.items[k])
                                    /\ Weights(live)[k] \in Nat
  BY <1>2, WeightTypes
<1>11. \E g \in V : r.used + Weight(g, c.items[g]) > MaxBytes
  <2> DEFINE g == live.list[n]
             P == Oldest(live, n - 1)
  <2>1. g \in O BY <1>9 DEF O, Oldest
  <2>2. O \ {g} = P
    <3>1. ASSUME NEW y \in O, y # g PROVE y \in P
      <4>1. PICK p \in 1..n : y = live.list[p] BY DEF O, Oldest
      <4>2. p \in 1..n - 1 BY <1>9, <3>1, <4>1
      <4> QED BY <4>1, <4>2 DEF Oldest
    <3>2. ASSUME NEW y \in P PROVE y \in O /\ y # g
      <4>1. PICK p \in 1..n - 1 : y = live.list[p] BY DEF Oldest
      <4>2. p \in 1..n /\ p # n /\ p \in DOMAIN live.list /\ n \in DOMAIN live.list
        BY <1>8, <1>9
      <4> QED BY <1>8, <4>1, <4>2 DEF O, Oldest, IsInjective
    <3> QED BY <3>1, <3>2
  <2>3. ~Fits(live.used - WeightIn(live, P)) BY <1>4, <1>9
  <2>4. WeightIn(live, O) = Weight(g, c.items[g]) + WeightIn(live, P)
    <3>1. IsFiniteSet(O) BY <1>2, <1>5, FS_Subset DEF Sound
    <3> HIDE DEF O, g, P
    <3>2. \A k \in O : Weights(live)[k] \in Int BY <1>5, <1>w
    <3>3. Weights(live)[g] = Weight(g, c.items[g]) BY <1>5, <1>w, <2>1
    <3>4. SumFunctionOnSet(Weights(live), O)
            = Weights(live)[g] + SumFunctionOnSet(Weights(live), O \ {g})
      BY <2>1, <3>1, <3>2, SumStep
    <3> QED BY <2>2, <3>3, <3>4 DEF WeightIn, Weights
  <2>5. /\ live.used \in Nat /\ WeightIn(live, P) \in Nat /\ Weight(g, c.items[g]) \in Nat
    <3>1. P \in SUBSET DOMAIN live.items BY <1>5, <2>2
    <3> HIDE DEF O, g, P
    <3>2. Weights(live)[g] = Weight(g, c.items[g]) /\ Weights(live)[g] \in Nat
      BY <1>5, <1>w, <2>1
    <3> QED BY <1>2, <3>1, <3>2, WeightsSplit
  <2> HIDE DEF g, P
  <2>6. r.used + Weight(g, c.items[g]) = live.used - WeightIn(live, P)
    BY <1>6, <2>4, <2>5
  <2>7. r.used + Weight(g, c.items[g]) > MaxBytes
    BY <2>3, <2>5, <2>6, StoreAssumption DEF Fits
  <2> QED BY <1>7, <2>1, <2>7
<1> QED BY <1>10, <1>11 DEF DropsOldest

\* The entries that Set drops although they have not expired, as the property names them.
Victims(k, d) ==
  {g \in (DOMAIN items \cup {k}) \ DOMAIN items' :
     ~(IF g = k THEN d > 0 /\ now + d <= now' ELSE g \in ExpiredIn(Here, now'))}

LEMMA VictimsAre ==
  ASSUME Shape, now' \in Int, NEW k \in Keys, NEW v \in Lengths, NEW d \in TTLs
  PROVE  LET c == Stored(k, v, d) IN
         Victims(k, d) = (DOMAIN c.items \ ExpiredIn(c, now')) \ DOMAIN items'
<1> DEFINE c == Stored(k, v, d)
           E == DOMAIN items \cup {k}
<1>1. DOMAIN c.items = E /\ c.expires = Deadlines(k, d) BY DEF Stored
<1> HIDE DEF c
<1>2. d \in Nat /\ now \in Int BY StoreAssumption DEF Shape
<1>3. ASSUME NEW g \in E
      PROVE  g \in ExpiredIn(c, now')
             <=> (IF g = k THEN d > 0 /\ now + d <= now' ELSE g \in ExpiredIn(Here, now'))
  <2>1. CASE g = k
    <3>1. k \in DOMAIN c.expires <=> d > 0 BY <1>1 DEF Deadlines
    <3>2. d > 0 => c.expires[k] = now + d BY <1>1 DEF Deadlines
    <3>3. g \in ExpiredIn(c, now') <=> d > 0 /\ now' >= now + d
      BY <1>1, <2>1, <3>1, <3>2 DEF ExpiredIn, IsOver
    <3> QED BY <1>2, <2>1, <3>3
  <2>2. CASE g # k
    <3>1. g \in DOMAIN c.expires <=> g \in DOMAIN expires BY <1>1, <2>2 DEF Deadlines
    <3>2. g \in DOMAIN expires => c.expires[g] = expires[g] BY <1>1, <2>2 DEF Deadlines
    <3>3. g \in ExpiredIn(c, now') <=> g \in ExpiredIn(Here, now')
      BY <1>1, <2>2, <3>1, <3>2 DEF ExpiredIn, Here
    <3> QED BY <2>2, <3>3
  <2> QED BY <2>1, <2>2
<1>4. Victims(k, d) = (E \ ExpiredIn(c, now')) \ DOMAIN items' BY <1>3 DEF Victims
<1> QED BY <1>1, <1>4 DEF c

LEMMA SetEvicts ==
  ASSUME StoreInv, OrderInv, Shape, now' \in Int,
         NEW k \in Keys, NEW v \in Lengths, NEW d \in TTLs, Set(k, v, d, now'),
         Victims(k, d) # {}
  PROVE  /\ \A g \in Victims(k, d), j \in DOMAIN items' : j = k \/ g \in older[j]
         /\ \E g \in Victims(k, d) :
              used' + Weight(g, IF g = k THEN v ELSE items[g]) > MaxBytes
<1> DEFINE c == Stored(k, v, d)
           r == EvictLocked(c, now')
           V == Victims(k, d)
           u == Without(list, {k})
           m == MovedBack(k)
<1>1. Sound(Here) BY DEF StoreInv
<1>2. Sound(c) BY <1>1, StoredSound
<1>3. items' = r.items /\ used' = r.used BY DEF Set, Stored, MovedBack, Becomes
<1>4. V = (DOMAIN c.items \ ExpiredIn(c, now')) \ DOMAIN r.items BY <1>3, VictimsAre
<1>5. /\ c.list = m
      /\ DOMAIN c.items = DOMAIN items \cup {k}
      /\ \A g \in DOMAIN c.items : c.items[g] = (IF g = k THEN v ELSE items[g])
  BY DEF Stored
<1>6. /\ Range(u) = DOMAIN items \ {k} /\ InOrder(u, list)
      /\ Len(u) \in Nat /\ Len(m) = Len(u) + 1 /\ m[Len(m)] = k
      /\ \A i \in 1..Len(u) : m[i] = u[i] /\ u[i] # k
  BY <1>1, MovedBackIs
<1> HIDE DEF c, m, u
<1> HIDE DEF r, V
<1>7. DropsOldest(c, r, V)
  <2>1. r = EvictLocked(c, now') BY DEF r
  <2>2. V # {} BY DEF V
  <2> QED BY <1>2, <1>4, <2>1, <2>2, EvictsOldest
<1>8. ASSUME NEW g \in V, NEW x \in DOMAIN items', x # k PROVE g \in older[x]
  <2>1. PICK i \in 1..Len(m), j \in 1..Len(m) : i < j /\ m[i] = g /\ m[j] = x
    BY <1>3, <1>5, <1>7 DEF DropsOldest
  <2>2. j # Len(m) BY <1>6, <1>8, <2>1
  <2>3. i \in 1..Len(u) /\ j \in 1..Len(u) BY <1>6, <2>1, <2>2
  <2>4. u[i] = g /\ u[j] = x BY <1>6, <2>1, <2>3
  <2>5. PICK p \in 1..Len(list), q \in 1..Len(list) : p < q /\ u[i] = list[p] /\ u[j] = list[q]
    BY <1>6, <2>1, <2>3 DEF InOrder
  <2> QED BY <2>4, <2>5 DEF OrderInv
<1>9. \E g \in V : used' + Weight(g, IF g = k THEN v ELSE items[g]) > MaxBytes
  <2>1. PICK g \in V : r.used + Weight(g, c.items[g]) > MaxBytes BY <1>7 DEF DropsOldest
  <2>2. c.items[g] = (IF g = k THEN v ELSE items[g]) BY <1>4, <1>5
  <2> QED BY <1>3, <2>1, <2>2
<1> QED BY <1>8, <1>9 DEF V

\* For any keys, lengths and budget, what a full store drops to make room was used less
\* recently than whatever stayed, and no more is dropped than the budget asks for.
THEOREM EvictsOldestFirst == Spec => EvictsLeastRecentlyUsed
<1> DEFINE Inv == StoreInv /\ OrderInv /\ Shape
<1>1. Init => Inv
  <2>1. Init => OrderInv BY DEF Init, OrderInv
  <2> QED BY <2>1, StoreInit DEF Init, Shape
<1>2. Inv /\ [Next]_vars => Inv' BY StoreStep, OrderStep, ShapeInductive
<1>3. Inv /\ [Next]_vars =>
        [\A k \in Keys, v \in Lengths, d \in TTLs :
           Set(k, v, d, now') =>
             LET gone == (DOMAIN items \cup {k}) \ DOMAIN items'
                 victims == {g \in gone : ~(IF g = k THEN d > 0 /\ now + d <= now'
                                            ELSE g \in ExpiredIn(Here, now'))}
             IN victims # {} =>
                  /\ \A g \in victims, j \in DOMAIN items' : j = k \/ g \in older[j]
                  /\ \E g \in victims :
                       used' + Weight(g, IF g = k THEN v ELSE items[g]) > MaxBytes]_vars
  <2> SUFFICES ASSUME Inv, Inv', NEW k \in Keys, NEW v \in Lengths, NEW d \in TTLs,
                      Set(k, v, d, now'), Victims(k, d) # {}
               PROVE  /\ \A g \in Victims(k, d), j \in DOMAIN items' : j = k \/ g \in older[j]
                      /\ \E g \in Victims(k, d) :
                           used' + Weight(g, IF g = k THEN v ELSE items[g]) > MaxBytes
    BY <1>2 DEF Victims
  <2>1. now' \in Int BY DEF Shape
  <2> QED BY <2>1, SetEvicts
<1> QED BY <1>1, <1>2, <1>3, PTL DEF Spec, EvictsLeastRecentlyUsed
=============================================================================
