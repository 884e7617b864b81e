----------------------------- MODULE NodeProofs -----------------------------
(***************************************************************************)
(* What one node guarantees, in two parts.  Server.Start and Server.Stop   *)
(* keep its address in etcd while it serves and take it out before it      *)
(* stops, for any number of requests and whether or not calls of etcd fail *)
(* and the process may die.  The map of groups leads to every open group,  *)
(* and the sharded store behind a group clears, counts and splits its      *)
(* budget as it should, for any groups, names, goroutines, keys and shards.*)
(***************************************************************************)
EXTENDS Server, GroupCaches, FiniteSetTheorems, TLAPS

-----------------------------------------------------------------------------
(* Registration: Server.Start, Server.Stop and the lease *)

\* Where Start is: between Register's successful Put and the end of Serve, and
\* wherever it may be once it has published the registration.
HasKey == {"keepalive", "publish", "serve", "serving"}
Published == {"serve", "serving", "close", "revoke", "returned", "crashed"}

\* The listener: Start holds the address from net.Listen until the listener is
\* closed, and nobody takes it over before.
PortInv ==
  /\ start \in {"grant", "put", "keepalive", "unlisten", "publish", "serve"} => port = "own"
  /\ start = "serving" /\ grpc = "new" => port = "own"
  /\ key = "next" => port = "next"

\* The contexts: whatever ends the service cancels one of them first.
CancelInv ==
  /\ stop \notin {"idle", "crashed"} => ctx
  /\ grpc # "new" => ctx
  /\ ~cli /\ start # "crashed" => ctx
  /\ once # "free" => rctx /\ reg
  /\ start = "revoke" => once = "start"
  /\ stop = "revoke" => once = "stop"

\* The goroutine of Register and its lease.
LeaseInv ==
  /\ keeper \in {"none", "running", "ended"}
  /\ start \in {"idle", "grant"} => lease = "none"
  /\ start \in {"idle", "grant", "put", "keepalive"} => keeper = "none"
  /\ keeper = "ended" => Cancelled \/ lease = "gone" \/ start = "crashed"
  /\ key = "own" => lease = "live"
  /\ start \in HasKey /\ ~Cancelled /\ ~lost => lease = "live" /\ key = "own"

\* Registration.Close: once it is over the lease is revoked, unless that failed.
CloseInv ==
  /\ reg => start \in Published
  /\ start \in {"serve", "serving", "close"} => reg
  /\ stop = "close" => saw /\ reg
  /\ saw => reg
  /\ once = "over" => revoked # "none"
  /\ revoked # "none" => reg
  /\ revoked \notin {"none", "failed"} => lease = "gone"
  /\ stop \in {"graceful", "drain", "client", "done"} /\ saw => once = "over"

\* GracefulStop: the server takes no new request from then on.
DrainInv ==
  /\ stop \in {"idle", "read", "close", "revoke", "graceful"} => grpc = "new"
  /\ stop \in {"drain", "client", "done"} => grpc # "new"

ServerInv == PortInv /\ CancelInv /\ LeaseInv /\ CloseInv /\ DrainInv

LEMMA ServerInitInv == ServerInit => ServerInv
BY DEF ServerInit, ServerInv, PortInv, CancelInv, LeaseInv, CloseInv, DrainInv, HasKey,
       Published

\* Every step of Start, of Stop, of a handler, of etcd and of the process keeps it.
LEMMA ServerStepInv == ServerInv /\ [ServerNext]_serverVars => ServerInv'
<1> SUFFICES ASSUME ServerInv, [ServerNext]_serverVars PROVE ServerInv'
  OBVIOUS
<1> USE DEF ServerInv, PortInv, CancelInv, LeaseInv, CloseInv, DrainInv, HasKey,
            Published, Cancelled
<1>1. ASSUME Listen PROVE ServerInv'
  BY <1>1 DEF Listen
<1>2. ASSUME Grant PROVE ServerInv'
  BY <1>2 DEF Grant, RegisterFails, Usable
<1>3. ASSUME Put PROVE ServerInv'
  BY <1>3 DEF Put, RegisterFails, Usable
<1>4. ASSUME KeepAlive PROVE ServerInv'
  BY <1>4 DEF KeepAlive, RegisterFails
<1>5. ASSUME Unlisten PROVE ServerInv'
  BY <1>5 DEF Unlisten
<1>6. ASSUME Publish PROVE ServerInv'
  BY <1>6 DEF Publish
<1>7. ASSUME Serve PROVE ServerInv'
  BY <1>7 DEF Serve
<1>8. ASSUME CloseRegistration("start") PROVE ServerInv'
  BY <1>8 DEF CloseRegistration, At, Moves, After
<1>9. ASSUME Revoke("start") PROVE ServerInv'
  BY <1>9 DEF Revoke, At, Moves, After, LeaseEnds
<1>10. ASSUME StopCancel PROVE ServerInv'
  BY <1>10 DEF StopCancel
<1>11. ASSUME StopRead PROVE ServerInv'
  BY <1>11 DEF StopRead
<1>12. ASSUME CloseRegistration("stop") PROVE ServerInv'
  BY <1>12 DEF CloseRegistration, At, Moves, After
<1>13. ASSUME Revoke("stop") PROVE ServerInv'
  BY <1>13 DEF Revoke, At, Moves, After, LeaseEnds
<1>14. ASSUME GracefulStop PROVE ServerInv'
  BY <1>14 DEF GracefulStop
<1>15. ASSUME Drained PROVE ServerInv'
  BY <1>15 DEF Drained
<1>16. ASSUME CloseClient PROVE ServerInv'
  BY <1>16 DEF CloseClient
<1>17. ASSUME NEW r \in Requests, Accept(r) \/ Answer(r) PROVE ServerInv'
  BY <1>17 DEF Accept, Answer
<1>18. ASSUME KeeperEnds PROVE ServerInv'
  BY <1>18 DEF KeeperEnds
<1>19. ASSUME LeaseExpires PROVE ServerInv'
  <2>1. UNCHANGED <<start, stop, ctx, rctx, reg, saw, once, revoked, keeper, grpc, cli, port,
                    busy>>
    BY <1>19 DEF LeaseExpires
  <2>2. /\ lease = "live" /\ lease' = "gone"
        /\ key' = IF key = "own" THEN "none" ELSE key
    BY <1>19 DEF LeaseExpires, LeaseEnds
  <2>3. start \in HasKey => Cancelled \/ lost'
    <3>1. Renewed \/ keeper = "none" => lost' BY Zenon, <1>19 DEF LeaseExpires
    <3> QED BY <2>2, <3>1 DEF Renewed, Usable
  <2> QED BY <2>1, <2>2, <2>3
<1>20. ASSUME TakeOver PROVE ServerInv'
  BY <1>20 DEF TakeOver
<1>21. ASSUME Crash PROVE ServerInv'
  BY <1>21 DEF Crash
<1>22. ASSUME UNCHANGED serverVars PROVE ServerInv'
  BY <1>22 DEF serverVars
<1> HIDE DEF ServerInv
<1> QED
  BY <1>1, <1>2, <1>3, <1>4, <1>5, <1>6, <1>7, <1>8, <1>9, <1>10, <1>11, <1>12, <1>13,
     <1>14, <1>15, <1>16, <1>17, <1>18, <1>19, <1>20, <1>21, <1>22
  DEF ServerNext, StartGoesOn, StopGoesOn

LEMMA ServerInvariant == ServerSpec => []ServerInv
BY ServerInitInv, ServerStepInv, PTL DEF ServerSpec

\* A server between Serve and the end of its context is advertised: its key is in
\* etcd under its own lease, unless etcd has let that lease expire.
THEOREM Advertised == ServerSpec => []ServingIsAdvertised
<1>1. ServerInv => ServingIsAdvertised
  BY DEF ServerInv, LeaseInv, HasKey, ServingIsAdvertised
<1> QED BY <1>1, ServerInvariant, PTL

\* When GracefulStop begins, and ever after, the key of the node is out of etcd,
\* whichever of Start and Stop was first in Registration.Close, unless Revoke failed
\* or the registration was not published when Stop looked for it.
THEOREM DeregisteredFirst == ServerSpec => []StopDeregistersFirst
<1>1. ServerInv => StopDeregistersFirst
  BY DEF ServerInv, LeaseInv, CloseInv, StopDeregistersFirst
<1> QED BY <1>1, ServerInvariant, PTL

\* No step of the node or of its lease removes or replaces the key of the process
\* that has taken over its address.
THEOREM SuccessorSafe == ServerSpec => SuccessorKeepsKey
<1>1. ServerInv /\ [ServerNext]_serverVars => [key = "next" => key' = "next"]_serverVars
  <2> SUFFICES ASSUME ServerInv, ServerNext, key = "next" PROVE key' = "next"
    BY DEF serverVars
  <2>1. start # "put" BY DEF ServerInv, PortInv
  <2> QED
    BY <2>1
    DEF ServerNext, StartGoesOn, StopGoesOn, Listen, Grant, Put, KeepAlive, Unlisten, Publish,
        Serve, CloseRegistration, Revoke, LeaseEnds, StopCancel, StopRead, GracefulStop, Drained,
        CloseClient, Accept, Answer, KeeperEnds, LeaseExpires, TakeOver, Crash
<1> QED BY <1>1, ServerInvariant, PTL DEF ServerSpec, SuccessorKeepsKey

-----------------------------------------------------------------------------
(* The shards *)

LEMMA PowersAre == Powers = {1, 2, 4, 8, 16, 32, 64, 128, 256, 512, 1024}
<1>1. 0..MaxShift = {0, 1, 2, 3, 4, 5, 6, 7, 8, 9, 10} BY DEF MaxShift
<1>2. /\ 2^0 = 1 /\ 2^1 = 2 /\ 2^2 = 4 /\ 2^3 = 8 /\ 2^4 = 16 /\ 2^5 = 32 /\ 2^6 = 64
      /\ 2^7 = 128 /\ 2^8 = 256 /\ 2^9 = 512 /\ 2^10 = 1024
  OBVIOUS
<1>3. ASSUME NEW p PROVE p \in Powers <=>
        p \in {1, 2, 4, 8, 16, 32, 64, 128, 256, 512, 1024}
  <2>1. p \in Powers <=> \E i \in {0, 1, 2, 3, 4, 5, 6, 7, 8, 9, 10} : p = 2^i
    BY <1>1 DEF Powers
  <2> QED BY <1>2, <2>1
<1> QED BY <1>3

\* The natural numbers are well-founded.
LEMMA LeastNatural ==
  ASSUME NEW T, T \subseteq Nat, T # {}
  PROVE  \E m \in T : \A n \in T : m <= n
<1> DEFINE below == {ss \in Nat \X Nat : ss[1] < ss[2]}
<1>1. IsWellFoundedOn(below, Nat) BY NatLessThanWellFounded DEF OpToRel
<1> HIDE DEF below
<1>2. PICK m \in T : \A n \in T : ~(<<n, m>> \in below) BY <1>1, WFMin
<1>3. \A n \in T : ~(n < m) BY <1>2 DEF below
<1> QED BY <1>3

\* A set of powers that is not empty has a largest member.
LEMMA LargestPower ==
  ASSUME NEW S, S \subseteq Powers, S # {}
  PROVE  Max(S) \in S /\ \A y \in S : Max(S) >= y
<1> DEFINE T == {1024 - x : x \in S}
<1>1. \A x \in S : x \in 0..1024 BY PowersAre
<1>2. T \subseteq Nat /\ T # {}
  <2>1. \A x \in S : 1024 - x \in Nat BY <1>1
  <2> QED BY <2>1
<1>3. PICK m \in T : \A n \in T : m <= n
  <2> HIDE DEF T
  <2> QED BY <1>2, LeastNatural
<1>4. PICK x \in S : m = 1024 - x OBVIOUS
<1>5. \A y \in S : x >= y 
  <2> SUFFICES ASSUME NEW y \in S PROVE x >= y OBVIOUS
  <2>1. 1024 - y \in T OBVIOUS
  <2>2. m <= 1024 - y BY <1>3, <2>1
  <2>3. x \in 0..1024 /\ y \in 0..1024 BY <1>1
  <2> HIDE DEF T
  <2> QED BY <1>4, <2>2, <2>3
<1> QED BY <1>5 DEF Max

LEMMA ShardsType ==
  ASSUME NEW count, NEW bytes PROVE Shards(count, bytes) \in Powers
BY PowersAre, LargestPower DEF Shards

LEMMA NType == N \in Nat \ {0}
BY ShardsType, PowersAre DEF N

LEMMA ShardType == \A k \in Keys : shard[k] \in 0..N - 1
BY StoreAssumption DEF shard

-----------------------------------------------------------------------------
(* Sums *)

\* w gives the sum of f over every subset of S.
IsSum(w, f, S) ==
  /\ w \in [SUBSET S -> Int] /\ w[{}] = 0
  /\ \A s \in SUBSET S : \A x \in s : w[s] = f[x] + w[s \ {x}]

\* A set of subsets of a finite set has a minimal member.
LEMMA MinimalSubset ==
  ASSUME NEW S, IsFiniteSet(S), NEW T, T \subseteq SUBSET S, T # {}
  PROVE  \E m \in T : \A x \in m : m \ {x} \notin T
<1> DEFINE below == StrictSubsetOrdering(S)
<1>1. IsWellFoundedOn(below, FiniteSubsetsOf(S))
  BY FS_StrictSubsetOrderingWellFounded DEF FiniteSubsetsOf
<1>2. T \subseteq FiniteSubsetsOf(S) BY FS_Subset DEF FiniteSubsetsOf
<1> HIDE DEF below
<1>3. PICK m \in T : \A n \in T : ~(<<n, m>> \in below) BY <1>1, <1>2, WFMin
<1>4. \A x \in m : <<m \ {x}, m>> \in below
   BY DEF below, StrictSubsetOrdering
<1> QED BY <1>3, <1>4

LEMMA SumIs ==
  ASSUME NEW S, IsFiniteSet(S), NEW f \in [S -> Int], NEW w, IsSum(w, f, S)
  PROVE  SumFunctionOnSet(f, S) = w[S]
<1> DEFINE pick(s) == CHOOSE x \in s : TRUE
           rec(g) == [s \in SUBSET S |-> IF s = {} THEN 0 ELSE f[pick(s)] + g[s \ {pick(s)}]]
           it == CHOOSE g : g = rec(g)
<1>1. SumFunctionOnSet(f, S) = it[S]
  BY DEF SumFunctionOnSet, FoldFunctionOnSet, MapThenFoldSet
<1>2. \A s \in SUBSET S : s # {} => pick(s) \in s OBVIOUS
<1> HIDE DEF pick
<1>3. w = rec(w)
  <2>1. w = [s \in SUBSET S |-> w[s]] BY DEF IsSum
  <2>2. \A s \in SUBSET S : w[s] = IF s = {} THEN 0 ELSE f[pick(s)] + w[s \ {pick(s)}]
    BY <1>2 DEF IsSum
  <2> QED BY <2>1, <2>2
<1>4. it = rec(it) BY <1>3
<1>5. \A s \in SUBSET S : it[s] = IF s = {} THEN 0 ELSE f[pick(s)] + it[s \ {pick(s)}]
  BY <1>4
<1> HIDE DEF it
<1> DEFINE T == {s \in SUBSET S : it[s] # w[s]}
<1>6. T = {}
  <2> SUFFICES ASSUME T # {} PROVE FALSE OBVIOUS
  <2>1. T \subseteq SUBSET S OBVIOUS
  <2> HIDE DEF T
  <2>2. PICK m \in T : \A x \in m : m \ {x} \notin T BY <2>1, MinimalSubset
  <2> USE DEF T
  <2>3. m # {} BY <1>5 DEF IsSum
  <2>4. it[m \ {pick(m)}] = w[m \ {pick(m)}] BY <1>2, <2>2, <2>3
  <2>5. it[m] = w[m] BY <1>2, <1>5, <2>3, <2>4 DEF IsSum
  <2> QED BY <2>5
<1> QED BY <1>1, <1>6

-----------------------------------------------------------------------------
(* The split of the budget *)

LEMMA NextPower ==
  ASSUME NEW n \in Int, 1 < n, n <= 1024
  PROVE  nextPowerOfTwo(n) \in Powers /\ nextPowerOfTwo(n) >= n
<1>1. \E p \in Powers : p >= n /\ p \div 2 < n
  <2>1. \E p \in {2, 4, 8, 16, 32, 64, 128, 256, 512, 1024} : p >= n /\ p \div 2 < n
    OBVIOUS
  <2> QED BY <2>1, PowersAre
<1> QED BY <1>1 DEF nextPowerOfTwo

\* The shares of n shards add up to bytes.
LEMMA SharesAddUp ==
  ASSUME NEW n \in Powers, NEW bytes \in Nat \ {0}
  PROVE  SumFunction([i \in 0..n - 1 |-> Budget(i, n, bytes)]) = bytes
<1> DEFINE q == bytes \div n
           r == bytes % n
           D == 0..n - 1
           R == 0..r - 1
           b == [i \in D |-> Budget(i, n, bytes)]
           w == [s \in SUBSET D |-> Cardinality(s) * q + Cardinality(s \cap R)]
<1>1. n \in Nat \ {0} /\ q \in Nat /\ r \in 0..n - 1 /\ n * q + r = bytes
  BY PowersAre
<1>2. IsFiniteSet(D) /\ Cardinality(D) = n
  <2> HIDE DEF q, r
  <2> QED BY <1>1, FS_Interval
<1>3. IsFiniteSet(R) /\ Cardinality(R) = r
  <2>1. r \in Nat BY <1>1
  <2> HIDE DEF r
  <2>2. ASSUME NEW m \in Nat PROVE IsFiniteSet(0..m - 1) /\ Cardinality(0..m - 1) = m
    BY FS_Interval
  <2> QED BY <2>1, <2>2
<1>4. b \in [D -> Int] /\ \A i \in D : b[i] = IF i \in R THEN q + 1 ELSE q
  BY <1>1 DEF Budget
<1>5. D \cap R = R BY <1>1
<1> HIDE DEF q, r, D, R, b
<1>6. \A s \in SUBSET D : IsFiniteSet(s) /\ Cardinality(s) \in Nat
                         /\ IsFiniteSet(s \cap R) /\ Cardinality(s \cap R) \in Nat
  BY <1>2, FS_Subset, FS_CardinalityType
<1>7. IsSum(w, b, D)
  <2>1. ASSUME NEW s \in SUBSET D PROVE w[s] \in Int
    <3>1. Cardinality(s) \in Nat /\ Cardinality(s \cap R) \in Nat BY <1>6
    <3> QED BY <1>1, <3>1
  <2>2. w[{}] = 0
    <3>1. {} \cap R = {} /\ Cardinality({}) = 0 BY FS_EmptySet
    <3>2. w[{}] = 0 * q + 0 BY <3>1
    <3> HIDE DEF w
    <3> QED BY <1>1, <3>2
  <2>3. ASSUME NEW s \in SUBSET D, NEW x \in s PROVE w[s] = b[x] + w[s \ {x}]
    <3> DEFINE c == Cardinality(s \ {x})
               d == Cardinality((s \ {x}) \cap R)
    <3>1. Cardinality(s) - 1 = c /\ Cardinality(s) \in Nat /\ c \in Nat
      BY <1>6, FS_RemoveElement
    <3>2. d \in Nat /\ Cardinality(s \cap R) = IF x \in R THEN d + 1 ELSE d
      <4>1. CASE x \in R
        <5>1. (s \ {x}) \cap R = (s \cap R) \ {x} /\ x \in s \cap R BY <4>1
        <5>2. Cardinality((s \cap R) \ {x}) = Cardinality(s \cap R) - 1
          BY <1>6, <5>1, FS_RemoveElement
        <5>3. Cardinality(s \cap R) \in Nat /\ d \in Nat BY <1>6
        <5>4. d = Cardinality(s \cap R) - 1 BY <5>1, <5>2
        <5> HIDE DEF d
        <5> QED BY <4>1, <5>3, <5>4
      <4>2. CASE x \notin R
        <5>1. (s \ {x}) \cap R = s \cap R BY <4>2
        <5> QED BY <1>6, <4>2, <5>1
      <4> QED BY <4>1, <4>2
    <3>3. b[x] = IF x \in R THEN q + 1 ELSE q BY <1>4
    <3>4. w[s] = Cardinality(s) * q + Cardinality(s \cap R) /\ w[s \ {x}] = c * q + d
      OBVIOUS
    <3>5. Cardinality(s) * q = c * q + q
      <4> HIDE DEF c
      <4>1. Cardinality(s) = c + 1 BY <3>1
      <4>2. (c + 1) * q = c * q + q BY <1>1, <3>1
      <4> QED BY <4>1, <4>2
    <3>6. c * q \in Nat BY <1>1, <3>1
    <3> HIDE DEF c, d, w
    <3> QED BY <1>1, <3>2, <3>3, <3>4, <3>5, <3>6
  <2> QED BY <2>1, <2>2, <2>3 DEF IsSum
<1>8. w[D] = bytes BY <1>1, <1>2, <1>3, <1>5
<1>9. SumFunction(b) = SumFunctionOnSet(b, D) BY <1>4 DEF SumFunction
<1> HIDE DEF w
<1>10. SumFunctionOnSet(b, D) = w[D] BY <1>2, <1>4, <1>7, SumIs
<1>11. b = [i \in 0..n - 1 |-> Budget(i, n, bytes)] BY DEF b, D
<1> QED BY <1>8, <1>9, <1>10, <1>11

\* A shard has 1 KiB or is the only one, and twice as many would have less.
LEMMA ShardsAreMany ==
  ASSUME NEW count \in Int, count <= 1024, NEW bytes \in Nat \ {0}
  PROVE  LET n == Shards(count, bytes) IN
         /\ n > 1 => bytes \div n >= 1024
         /\ n < count => bytes < 2048 * n
<1> DEFINE n == Shards(count, bytes)
           p == nextPowerOfTwo(IF count <= 0 THEN 16 ELSE count)
           fits == {c \in Powers : c <= p /\ (bytes <= 0 \/ bytes \div c >= 1024)}
<1>1. n = IF fits = {} THEN 1 ELSE Max(fits) BY DEF Shards
<1>2. fits # {} => n \in fits /\ \A c \in fits : n >= c
  <2>1. fits \subseteq Powers OBVIOUS
  <2> HIDE DEF fits
  <2> QED BY <1>1, <2>1, LargestPower
<1>3. n > 1 => bytes \div n >= 1024
  <2> HIDE DEF n
  <2> QED BY <1>1, <1>2
<1>4. ASSUME n < count PROVE bytes < 2048 * n
  <2>1. n \in Powers BY ShardsType
  <2> HIDE DEF n
  <2>2. count > 1 BY <1>4, <2>1, PowersAre
  <2>3. p \in Powers /\ p >= count BY <2>2, NextPower
  <2> HIDE DEF p
  <2>4. 2 * n \in Powers /\ 2 * n <= p BY <1>4, <2>1, <2>3, PowersAre
  <2>5. 2 * n \notin fits /\ (fits = {} => n = 1)
    <3> HIDE DEF fits
    <3>1. n \in Nat \ {0} BY <2>1, PowersAre
    <3>2. 2 * n > n BY <3>1
    <3> QED BY <1>1, <1>2, <2>4, <3>1, <3>2
  <2>6. bytes \div (2 * n) < 1024 BY <2>1, <2>4, <2>5, PowersAre
  <2> QED BY <2>1, <2>6, PowersAre
<1> QED BY <1>3, <1>4

-----------------------------------------------------------------------------
(* The map of groups *)

\* The types of the registry, and that only a closed group is being taken down.
RegistryInv ==
  /\ groups \in [Names -> Groups \cup {None}]
  /\ made \subseteq Groups
  /\ at \in [Goroutines -> {"idle", "next", "close", "main", "near", "remove"}]
  /\ cur \in [Goroutines -> Groups \cup {None}]
  /\ todo \in [Goroutines -> SUBSET Groups]
  /\ \A t \in Goroutines :
       /\ at[t] \in {"close", "main", "near", "remove"} => cur[t] \in Groups
       /\ at[t] \in {"main", "near", "remove"} => cur[t] \in closed

LEMMA RegistryInit0 == RegistryInit => RegistryInv /\ OpenGroupsFindable
BY DEF RegistryInit, RegistryInv, OpenGroupsFindable

LEMMA RegistrySame ==
  ASSUME RegistryInv, OpenGroupsFindable, UNCHANGED registryVars
  PROVE  RegistryInv' /\ OpenGroupsFindable'
BY DEF registryVars, RegistryInv, OpenGroupsFindable

\* A step of a goroutine in NewGroup, DestroyGroup, DestroyAllGroups or Close.
LEMMA RegistryStepInv ==
  ASSUME RegistryInv, NEW t \in Goroutines, RegistryStep(t)
  PROVE  RegistryInv'
<1> USE DEF RegistryInv
<1>1. ASSUME NEW g \in Groups, NewGroup(t, g) PROVE RegistryInv'
  <2>1. groups' \in [Names -> Groups \cup {None}] /\ made' \subseteq Groups
    BY <1>1, RegistryAssumption DEF NewGroup
  <2>2. groups[NameOf[g]] \in Groups \cup {None} BY RegistryAssumption
  <2> QED BY <1>1, <2>1, <2>2 DEF NewGroup, Calls
<1>2. ASSUME NEW g \in Groups, CloseGroup(t, g) PROVE RegistryInv'
  BY <1>2 DEF CloseGroup, Calls
<1>3. ASSUME NEW n \in Names, DestroyGroup(t, n) PROVE RegistryInv'
  BY <1>3 DEF DestroyGroup, Calls
<1>4. ASSUME DestroyAllGroups(t) PROVE RegistryInv'
  <2>1. {groups[n] : n \in Names} \ {None} \subseteq Groups OBVIOUS
  <2> QED BY <1>4, <2>1 DEF DestroyAllGroups
<1>5. ASSUME NextGroup(t) PROVE RegistryInv'
  BY <1>5 DEF NextGroup, Calls
<1>6. ASSUME Swap(t) PROVE RegistryInv'
  BY <1>6 DEF Swap, Returns
<1>7. ASSUME NEW c \in {"main", "near"}, CloseCache(t, c) PROVE RegistryInv'
  BY <1>7 DEF CloseCache
<1>8. ASSUME Remove(t) PROVE RegistryInv'
  <2>1. NameOf[cur[t]] \in Names BY <1>8, RegistryAssumption DEF Remove
  <2>2. groups' \in [Names -> Groups \cup {None}] BY <1>8, <2>1 DEF Remove
  <2> QED BY <1>8, <2>2 DEF Remove, Returns
<1> HIDE DEF RegistryInv
<1> QED
  BY <1>1, <1>2, <1>3, <1>4, <1>5, <1>6, <1>7, <1>8 DEF RegistryStep, GoesOn

\* The group a step is about keeps its name or its closer, and so do the others.
LEMMA FindableStep ==
  ASSUME RegistryInv, OpenGroupsFindable, NEW t \in Goroutines, RegistryStep(t)
  PROVE  OpenGroupsFindable'
<1> USE DEF RegistryInv, OpenGroupsFindable
<1>1. ASSUME UNCHANGED <<groups, made, closed>>,
             \A u \in Goroutines : at[u] = "close" =>
               at'[u] = "close" /\ cur'[u] = cur[u]
      PROVE  OpenGroupsFindable'
  BY <1>1
<1>2. ASSUME NEW g \in Groups, NewGroup(t, g) PROVE OpenGroupsFindable'
  <2> SUFFICES ASSUME NEW h \in made' \ closed', groups'[NameOf[h]] # h
               PROVE  \E u \in Goroutines : at'[u] = "close" /\ cur'[u] = h
    OBVIOUS
  <2>1. h # g /\ h \in made \ closed /\ h \in Groups
    BY <1>2, RegistryAssumption DEF NewGroup
  <2>2. CASE groups[NameOf[h]] = h
    <3>1. groups[NameOf[g]] = h BY <1>2, <2>1, <2>2, RegistryAssumption DEF NewGroup
    <3>2. Calls(t, h) BY <1>2, <2>1, <3>1, RegistryAssumption DEF NewGroup
    <3> QED BY <3>2 DEF Calls
  <2>3. CASE groups[NameOf[h]] # h
    <3>1. PICK u \in Goroutines : at[u] = "close" /\ cur[u] = h BY <2>1, <2>3
    <3>2. at'[u] = "close" /\ cur'[u] = h BY <1>2, <3>1 DEF NewGroup, Calls
    <3> QED BY <3>2
  <2> QED BY <2>2, <2>3
<1>3. ASSUME NEW g \in Groups, CloseGroup(t, g) PROVE OpenGroupsFindable'
  BY <1>1, <1>3 DEF CloseGroup, Calls
<1>4. ASSUME NEW n \in Names, DestroyGroup(t, n) PROVE OpenGroupsFindable'
  BY <1>1, <1>4 DEF DestroyGroup, Calls
<1>5. ASSUME DestroyAllGroups(t) PROVE OpenGroupsFindable'
  BY <1>1, <1>5 DEF DestroyAllGroups
<1>6. ASSUME NextGroup(t) PROVE OpenGroupsFindable'
  BY <1>1, <1>6 DEF NextGroup, Calls
<1>7. ASSUME Swap(t) PROVE OpenGroupsFindable'
  <2>1. /\ UNCHANGED <<groups, made>>
        /\ closed \subseteq closed' /\ cur[t] \in closed'
        /\ \A u \in Goroutines : u # t => at'[u] = at[u] /\ cur'[u] = cur[u]
    BY <1>7 DEF Swap, Returns
  <2> QED BY <2>1
<1>8. ASSUME NEW c \in {"main", "near"}, CloseCache(t, c) PROVE OpenGroupsFindable'
  BY <1>1, <1>8 DEF CloseCache
<1>9. ASSUME Remove(t) PROVE OpenGroupsFindable'
  <2>1. /\ UNCHANGED <<made, closed>> /\ cur[t] \in closed
        /\ \A u \in Goroutines : u # t => at'[u] = at[u] /\ cur'[u] = cur[u]
    BY <1>9 DEF Remove, Returns
  <2>2. \A n \in Names : groups'[n] = groups[n] \/ groups[n] = cur[t]
    BY <1>9 DEF Remove
  <2> QED BY <1>9, <2>1, <2>2, RegistryAssumption DEF Remove
<1> HIDE DEF RegistryInv, OpenGroupsFindable
<1> QED
  BY <1>2, <1>3, <1>4, <1>5, <1>6, <1>7, <1>8, <1>9 DEF RegistryStep, GoesOn

-----------------------------------------------------------------------------
(* Walks over the shards *)

\* The keys with an entry, when e is the map of entries, and those of the shards below i.
Present(e) == {k \in Keys : e[k] # "absent"}
Behind(i) == {k \in Keys : shard[k] < i}

Walks == [op : {"clear", "len"}, i : 0..N, sum : Nat,
          early : SUBSET Keys, seen : SUBSET Keys]

\* What a walk has achieved in the shards it has left behind: Clear, that nothing is
\* left there of what it has to remove; Len, that its sum is plausible for them.
WalkOK(e, c) ==
  /\ c.op = "clear" => c.early \cap Present(e) \cap Behind(c.i) = {}
  /\ c.op = "len" =>
       /\ c.early \subseteq Present(e) /\ Present(e) \subseteq c.seen
       /\ Cardinality(c.early \cap Behind(c.i)) <= c.sum
       /\ c.sum <= Cardinality(c.seen \cap Behind(c.i))

StoreInv ==
  /\ call \in [Callers -> {Idle} \cup Walks]
  /\ \A t \in Callers : WalkOK(entry, call[t])

\* Sets of keys are finite, and a larger one has no fewer members.
LEMMA KeySets ==
  ASSUME NEW A \in SUBSET Keys, NEW B \in SUBSET Keys
  PROVE  /\ Cardinality(A) \in Nat
         /\ A \subseteq B => Cardinality(A) <= Cardinality(B)
         /\ A \cap B = {} => Cardinality(A \cup B) = Cardinality(A) + Cardinality(B)
<1>1. IsFiniteSet(A) /\ IsFiniteSet(B) BY StoreAssumption, FS_Subset
<1>2. A \subseteq B => Cardinality(A) <= Cardinality(B) BY <1>1, FS_Subset
<1>3. A \cap B = {} => Cardinality(A \cup B) = Cardinality(A) + Cardinality(B)
  <2> HAVE A \cap B = {}
  <2>1. Cardinality(A \cap B) = 0 BY FS_EmptySet
  <2>2. Cardinality(A) \in Nat /\ Cardinality(B) \in Nat BY <1>1, FS_CardinalityType
  <2>3. Cardinality(A \cup B) = Cardinality(A) + Cardinality(B) - Cardinality(A \cap B)
    BY <1>1, FS_Union
  <2> QED BY <2>1, <2>2, <2>3
<1> QED BY <1>1, <1>2, <1>3, FS_CardinalityType

LEMMA IdleOK == ASSUME NEW e PROVE WalkOK(e, Idle)
BY DEF WalkOK, Idle

LEMMA BehindGrows ==
  ASSUME NEW i \in 0..N, i < N
  PROVE  /\ Behind(i + 1) = Behind(i) \cup KeysOf[i]
         /\ Behind(i) \cap KeysOf[i] = {}
         /\ KeysOf[i] \subseteq Keys
BY NType, ShardType DEF Behind, KeysOf

LEMMA BehindAll == Behind(0) = {} /\ Behind(N) = Keys
BY NType, ShardType DEF Behind

\* Walks go on being right while others remove entries, and set those of S.
LEMMA RecordedOK ==
  ASSUME NEW c \in {Idle} \cup Walks, NEW S \in SUBSET Keys, WalkOK(entry, c),
         Present(entry') \subseteq Present(entry) \cup S
  PROVE  Recorded(c, S) \in {Idle} \cup Walks /\ WalkOK(entry', Recorded(c, S))
<1> DEFINE d == Recorded(c, S)
<1>1. CASE c = Idle
  <2>1. d = c BY <1>1 DEF Recorded, Idle
  <2> QED BY <1>1, <2>1, IdleOK
<1>2. CASE c \in Walks /\ c.op = "clear"
  <2>1. d = [c EXCEPT !.early = @ \ S] BY <1>2 DEF Recorded
  <2>2. d \in Walks BY <1>2, <2>1 DEF Walks
  <2>3. d.op = "clear" /\ d.early = c.early \ S /\ d.i = c.i BY <1>2, <2>1 DEF Walks
  <2> HIDE DEF d
  <2>4. WalkOK(entry', d) BY <1>2, <2>3 DEF WalkOK
  <2> QED BY <2>2, <2>4 DEF d
<1>3. CASE c \in Walks /\ c.op = "len"
  <2>1. d = [c EXCEPT !.early = @ \cap Present(entry'), !.seen = @ \cup S]
    BY <1>3 DEF Recorded, Present
  <2>2. d \in Walks BY <1>3, <2>1 DEF Walks
  <2>3. /\ d.op = "len" /\ d.i = c.i /\ d.sum = c.sum
        /\ d.early = c.early \cap Present(entry') /\ d.seen = c.seen \cup S
    BY <1>3, <2>1 DEF Walks
  <2> HIDE DEF d
  <2>4. d.early \subseteq Present(entry') /\ Present(entry') \subseteq d.seen
    BY <1>3, <2>3 DEF WalkOK
  <2>5. Cardinality(d.early \cap Behind(d.i)) <= Cardinality(c.early \cap Behind(c.i))
    BY <2>3, KeySets DEF Behind
  <2>6. Cardinality(c.seen \cap Behind(c.i)) <= Cardinality(d.seen \cap Behind(d.i))
    <3>1. d.seen \subseteq Keys BY <2>2 DEF Walks
    <3> QED BY <2>3, <3>1, KeySets DEF Behind
  <2>7. /\ Cardinality(d.early \cap Behind(d.i)) \in Nat
        /\ Cardinality(c.early \cap Behind(c.i)) \in Nat
        /\ Cardinality(c.seen \cap Behind(c.i)) \in Nat
        /\ Cardinality(d.seen \cap Behind(d.i)) \in Nat /\ c.sum \in Nat
    BY <1>3, KeySets DEF Behind, Walks
  <2>8. WalkOK(entry', d) BY <1>3, <2>3, <2>4, <2>5, <2>6, <2>7 DEF WalkOK
  <2> QED BY <2>2, <2>8 DEF d
<1> QED BY <1>1, <1>2, <1>3 DEF Walks

\* Len in the next shard.
LEMMA LenShardOK ==
  ASSUME NEW c \in Walks, NEW d \in Walks, NEW e, c.op = "len", c.i < N, WalkOK(e, c),
         d = [c EXCEPT !.i = @ + 1, !.sum = @ + Cardinality(KeysOf[c.i] \cap Present(e))]
  PROVE  WalkOK(e, d)
<1> DEFINE old == Behind(c.i)
           now == KeysOf[c.i]
<1>1. /\ d.op = "len" /\ d.i = c.i + 1 /\ d.early = c.early /\ d.seen = c.seen
      /\ d.sum = c.sum + Cardinality(now \cap Present(e))
  BY DEF Walks
<1>2. /\ c.i \in 0..N /\ c.sum \in Nat /\ d.sum \in Nat
      /\ c.early \subseteq Keys /\ c.seen \subseteq Keys
  BY DEF Walks
<1>3. Behind(d.i) = old \cup now /\ old \cap now = {} /\ now \subseteq Keys
  BY <1>1, <1>2, BehindGrows
<1>4. old \subseteq Keys BY DEF Behind
<1>5. Present(e) \subseteq Keys BY DEF Present
<1>6. /\ c.early \subseteq Present(e) /\ Present(e) \subseteq c.seen
      /\ Cardinality(c.early \cap old) <= c.sum
      /\ c.sum <= Cardinality(c.seen \cap old)
  BY DEF WalkOK
<1> HIDE DEF old, now
<1>7. Cardinality(c.early \cap Behind(d.i))
        = Cardinality(c.early \cap old) + Cardinality(c.early \cap now)
  <2>1. c.early \cap Behind(d.i) = (c.early \cap old) \cup (c.early \cap now) BY <1>3
  <2>2. (c.early \cap old) \cap (c.early \cap now) = {} BY <1>3
  <2>3. c.early \cap old \in SUBSET Keys /\ c.early \cap now \in SUBSET Keys BY <1>2
  <2> QED BY <2>1, <2>2, <2>3, KeySets
<1>8. Cardinality(c.seen \cap Behind(d.i))
        = Cardinality(c.seen \cap old) + Cardinality(c.seen \cap now)
  <2>1. c.seen \cap Behind(d.i) = (c.seen \cap old) \cup (c.seen \cap now) BY <1>3
  <2>2. (c.seen \cap old) \cap (c.seen \cap now) = {} BY <1>3
  <2>3. c.seen \cap old \in SUBSET Keys /\ c.seen \cap now \in SUBSET Keys BY <1>2
  <2> QED BY <2>1, <2>2, <2>3, KeySets
<1>9. /\ c.early \cap now \in SUBSET Keys /\ c.seen \cap now \in SUBSET Keys
      /\ now \cap Present(e) \in SUBSET Keys
      /\ c.early \cap old \in SUBSET Keys /\ c.seen \cap old \in SUBSET Keys
  BY <1>2, <1>5
<1>10. /\ Cardinality(c.early \cap now) <= Cardinality(now \cap Present(e))
       /\ Cardinality(now \cap Present(e)) <= Cardinality(c.seen \cap now)
  <2>1. c.early \cap now \subseteq now \cap Present(e) BY <1>6
  <2>2. now \cap Present(e) \subseteq c.seen \cap now BY <1>6
  <2> QED BY <1>9, <2>1, <2>2, KeySets
<1>11. /\ Cardinality(c.early \cap now) \in Nat /\ Cardinality(c.seen \cap now) \in Nat
       /\ Cardinality(now \cap Present(e)) \in Nat
       /\ Cardinality(c.early \cap old) \in Nat /\ Cardinality(c.seen \cap old) \in Nat
  BY <1>9, KeySets
<1>12. /\ Cardinality(c.early \cap Behind(d.i)) <= d.sum
       /\ d.sum <= Cardinality(c.seen \cap Behind(d.i))
  BY <1>1, <1>2, <1>6, <1>7, <1>8, <1>10, <1>11
<1> QED BY <1>1, <1>6, <1>12 DEF WalkOK

LEMMA StoreSame ==
  ASSUME StoreInv, UNCHANGED call, UNCHANGED entry PROVE StoreInv'
BY DEF StoreInv

LEMMA StoreSet ==
  ASSUME StoreInv, NEW k \in Keys, Set(k) PROVE StoreInv'
<1>1. Present(entry') \subseteq Present(entry) \cup {k} BY DEF Set, Present
<1>2. \A t \in Callers : /\ call'[t] = Recorded(call[t], {k})
                         /\ call[t] \in {Idle} \cup Walks /\ WalkOK(entry, call[t])
  BY DEF Set, StoreInv
<1>3. \A t \in Callers : call'[t] \in {Idle} \cup Walks /\ WalkOK(entry', call'[t])
  BY <1>1, <1>2, RecordedOK
<1>4. call' = [t \in Callers |-> call'[t]] BY DEF Set
<1> QED BY <1>3, <1>4 DEF StoreInv

\* Nothing is set, and the walks record what is removed.
LEMMA StoreRemoves ==
  ASSUME StoreInv, Present(entry') \subseteq Present(entry),
         call' = [t \in Callers |-> Recorded(call[t], {})]
  PROVE  StoreInv'
<1>1. \A t \in Callers : /\ call'[t] = Recorded(call[t], {})
                         /\ call[t] \in {Idle} \cup Walks /\ WalkOK(entry, call[t])
  BY DEF StoreInv
<1>2. \A t \in Callers : call'[t] \in {Idle} \cup Walks /\ WalkOK(entry', call'[t])
  BY <1>1, RecordedOK
<1>3. call' = [t \in Callers |-> call'[t]] OBVIOUS
<1> QED BY <1>2, <1>3 DEF StoreInv

LEMMA StoreTake ==
  ASSUME StoreInv, NEW k \in Keys, Take(k) PROVE StoreInv'
<1>1. Present(entry') \subseteq Present(entry) BY DEF Take, Present
<1> QED BY <1>1, StoreRemoves DEF Take

LEMMA StoreClean == ASSUME StoreInv, CleanShard PROVE StoreInv'
<1>1. Present(entry') \subseteq Present(entry) BY DEF CleanShard, Present
<1> QED BY <1>1, StoreRemoves DEF CleanShard

\* An entry that expires is still there.
LEMMA StoreExpire == ASSUME StoreInv, NEW k \in Keys, Expire(k) PROVE StoreInv'
<1>1. Present(entry') = Present(entry) BY DEF Expire, Present
<1>2. UNCHANGED call BY DEF Expire
<1> QED BY <1>1, <1>2 DEF StoreInv, WalkOK

\* One walk takes a step that changes nothing for the others.
LEMMA WalkGoesOn ==
  ASSUME StoreInv, UNCHANGED entry, NEW t \in Callers, NEW c \in {Idle} \cup Walks,
         WalkOK(entry, c), call' = [call EXCEPT ![t] = c]
  PROVE  StoreInv'
BY DEF StoreInv

LEMMA StoreWalk ==
  ASSUME StoreInv, NEW t \in Callers, NEW o \in {"clear", "len"}, Walk(t, o)
  PROVE  StoreInv'
<1> DEFINE c == [op |-> o, i |-> 0, sum |-> 0, early |-> Has, seen |-> Has]
<1>1. Has \subseteq Keys /\ Has = Present(entry) BY DEF Has, Present
<1>2. c \in Walks BY <1>1, NType DEF Walks
<1>3. Cardinality(c.early \cap Behind(0)) = 0 /\ Cardinality(c.seen \cap Behind(0)) = 0
  BY BehindAll, FS_EmptySet
<1>4. WalkOK(entry, c) BY <1>1, <1>3, BehindAll DEF WalkOK
<1>5. UNCHANGED entry /\ call' = [call EXCEPT ![t] = c] BY DEF Walk
<1> HIDE DEF c
<1> QED BY <1>2, <1>4, <1>5, WalkGoesOn

LEMMA StoreReturn == ASSUME StoreInv, NEW t \in Callers, Return(t) PROVE StoreInv'
BY IdleOK, WalkGoesOn DEF Return

LEMMA StoreLen == ASSUME StoreInv, NEW t \in Callers, LenShard(t) PROVE StoreInv'
<1> DEFINE c == call[t]
           d == [c EXCEPT !.i = @ + 1, !.sum = @ + Cardinality(KeysOf[c.i] \cap Has)]
<1>1. c \in Walks /\ c.op = "len" /\ c.i < N /\ WalkOK(entry, c)
  BY DEF LenShard, StoreInv, Idle
<1>2. UNCHANGED entry /\ call' = [call EXCEPT ![t] = d]
  BY <1>1 DEF LenShard, StoreInv, Walks
<1>3. Has = Present(entry) BY DEF Has, Present
<1>4. d \in Walks
  <2>1. Cardinality(KeysOf[c.i] \cap Has) \in Nat BY <1>3, KeySets DEF Present
  <2> HIDE DEF c
  <2>2. c.i + 1 \in 0..N /\ c.sum + Cardinality(KeysOf[c.i] \cap Has) \in Nat
    BY <1>1, <2>1, NType DEF Walks
  <2> QED BY <1>1, <2>2 DEF Walks
<1> HIDE DEF c
<1>5. WalkOK(entry, d)
  <2>1. d = [c EXCEPT !.i = @ + 1, !.sum = @ + Cardinality(KeysOf[c.i] \cap Present(entry))]
    BY <1>3
  <2> HIDE DEF d
  <2> QED BY <1>1, <1>4, <2>1, LenShardOK
<1> HIDE DEF d
<1> QED BY <1>2, <1>4, <1>5, WalkGoesOn

LEMMA StoreClear == ASSUME StoreInv, NEW t \in Callers, ClearShard(t) PROVE StoreInv'
<1> DEFINE c == call[t]
           d == [c EXCEPT !.i = c.i + 1]
<1>1. c \in Walks /\ c.op = "clear" /\ c.i < N /\ WalkOK(entry, c)
  BY DEF ClearShard, StoreInv, Idle
<1>2. Present(entry') = Present(entry) \ KeysOf[c.i] BY DEF ClearShard, Present
<1>3. d \in Walks /\ d.op = "clear" /\ d.early = c.early /\ d.i = c.i + 1
  <2> HIDE DEF c
  <2> QED BY <1>1, NType DEF Walks
<1>4. /\ Recorded(d, {}) \in Walks /\ Recorded(d, {}).op = "clear"
      /\ Recorded(d, {}).early = c.early /\ Recorded(d, {}).i = c.i + 1
  <2>1. Recorded(d, {}) = [d EXCEPT !.early = @ \ {}] BY <1>3 DEF Recorded
  <2> HIDE DEF d
  <2> QED BY <1>3, <2>1 DEF Walks
<1>5. WalkOK(entry', Recorded(d, {}))
  <2>1. c.i \in 0..N BY <1>1 DEF Walks
  <2>2. Behind(c.i + 1) = Behind(c.i) \cup KeysOf[c.i] BY <1>1, <2>1, BehindGrows
  <2>3. c.early \cap Present(entry') \cap Behind(c.i + 1) = {}
    BY <1>1, <1>2, <2>2 DEF WalkOK
  <2> QED BY <1>4, <2>3 DEF WalkOK
<1>6. /\ call' = [u \in Callers |-> call'[u]] /\ call'[t] = Recorded(d, {})
      /\ \A u \in Callers \ {t} : call'[u] = Recorded(call[u], {})
  BY DEF ClearShard
<1>7. \A u \in Callers \ {t} :
        call'[u] \in {Idle} \cup Walks /\ WalkOK(entry', call'[u])
  <2>1. Present(entry') \subseteq Present(entry) BY <1>2
  <2> HIDE DEF c, d
  <2> QED BY <1>6, <2>1, RecordedOK DEF StoreInv
<1> HIDE DEF c, d
<1>8. \A u \in Callers : call'[u] \in {Idle} \cup Walks /\ WalkOK(entry', call'[u])
  BY <1>4, <1>5, <1>6, <1>7
<1> QED BY <1>6, <1>8 DEF StoreInv

-----------------------------------------------------------------------------
(* The specification *)

CachesInv == RegistryInv /\ OpenGroupsFindable /\ StoreInv

LEMMA InitInv == Init => CachesInv
<1> SUFFICES ASSUME Init PROVE CachesInv OBVIOUS
<1>1. RegistryInv /\ OpenGroupsFindable BY RegistryInit0 DEF Init
<1>2. StoreInv BY IdleOK DEF Init, StoreInit, StoreInv
<1> QED BY <1>1, <1>2 DEF CachesInv

LEMMA StepInv == CachesInv /\ [Next]_vars => CachesInv'
<1> SUFFICES ASSUME CachesInv, [Next]_vars PROVE CachesInv' OBVIOUS
<1>1. RegistryInv /\ OpenGroupsFindable /\ StoreInv BY DEF CachesInv
<1>2. ASSUME NEW t \in Goroutines, RegistryStep(t), StoreFollows PROVE CachesInv'
  <2>1. UNCHANGED call /\ UNCHANGED entry
    BY <1>2 DEF StoreFollows, NewCache, Close, storeVars
  <2>2. StoreInv' BY <1>1, <2>1, StoreSame
  <2>3. RegistryInv' BY <1>1, <1>2, RegistryStepInv
  <2>4. OpenGroupsFindable' BY <1>1, <1>2, FindableStep
  <2> QED BY <2>2, <2>3, <2>4 DEF CachesInv
<1>3. ASSUME UNCHANGED registryVars, StoreInv' PROVE CachesInv'
  BY <1>1, <1>3, RegistrySame DEF CachesInv
<1>4. ASSUME NEW t \in Callers, WalkStep(t) PROVE StoreInv'
  <2>1. CASE Walk(t, "clear") \/ Walk(t, "len") BY <1>1, <2>1, StoreWalk
  <2>2. CASE StoreGoesOn(t)
    BY <1>1, <2>2, StoreClear, StoreLen, StoreReturn DEF StoreGoesOn
  <2> QED BY <1>4, <2>1, <2>2 DEF WalkStep
<1>5. ASSUME StoreAlone PROVE StoreInv'
  <2>1. ASSUME NEW k \in Keys, Set(k) \/ Take(k) \/ Expire(k) PROVE StoreInv'
    BY <1>1, <2>1, StoreSet, StoreTake, StoreExpire
  <2>2. CASE Fire \/ BeginPass \/ LoopEnds
    BY <1>1, <2>2, StoreSame DEF Fire, BeginPass, LoopEnds
  <2>3. CASE CleanShard BY <1>1, <2>3, StoreClean
  <2> QED BY <1>5, <2>1, <2>2, <2>3 DEF StoreAlone, LoopGoesOn
<1>6. CASE UNCHANGED vars
  <2>1. UNCHANGED registryVars /\ UNCHANGED call /\ UNCHANGED entry
    BY <1>6 DEF vars, storeVars
  <2> QED BY <1>1, <1>3, <2>1, StoreSame
<1> QED BY <1>2, <1>3, <1>4, <1>5, <1>6 DEF Next

LEMMA Invariant == Spec => []CachesInv
BY InitInv, StepInv, PTL DEF Spec

\* Whatever NewGroup, DestroyGroup, DestroyAllGroups and Close do at the same time, an
\* open group is the one its name leads to, or somebody is about to close it.
THEOREM GroupsFindable == Spec => []OpenGroupsFindable
BY Invariant, PTL DEF CachesInv

\* Clear of any number of shards, among any number of goroutines that write to them,
\* removes what was there when it was called and has not been set since.
THEOREM ClearIsThorough == Spec => []ClearRemovesEarlier
<1>1. CachesInv => ClearRemovesEarlier
  <2> SUFFICES ASSUME CachesInv, NEW t \in Callers, call[t].op = "clear", call[t].i = N
               PROVE  call[t].early \cap Has = {}
    BY DEF ClearRemovesEarlier
  <2>1. call[t].early \cap Present(entry) \cap Behind(N) = {}
    BY DEF CachesInv, StoreInv, WalkOK
  <2> QED BY <2>1, BehindAll DEF Has, Present
<1> QED BY <1>1, Invariant, PTL

\* What Len returns lies between the number of the entries that were there all the
\* time and that of the entries that were there at some time.
THEOREM LenPlausible == Spec => []LenIsPlausible
<1>1. CachesInv => LenIsPlausible
  <2> SUFFICES ASSUME CachesInv, NEW t \in Callers, call[t].op = "len", call[t].i = N
               PROVE  call[t].sum \in Cardinality(call[t].early)..Cardinality(call[t].seen)
    BY DEF LenIsPlausible
  <2>1. /\ Cardinality(call[t].early \cap Behind(N)) <= call[t].sum
        /\ call[t].sum <= Cardinality(call[t].seen \cap Behind(N))
    BY DEF CachesInv, StoreInv, WalkOK
  <2>2. call[t] \in Walks BY DEF CachesInv, StoreInv, Idle
  <2>3. call[t].early \in SUBSET Keys /\ call[t].seen \in SUBSET Keys /\ call[t].sum \in Nat
    BY <2>2 DEF Walks
  <2>4. call[t].early \cap Behind(N) = call[t].early /\ call[t].seen \cap Behind(N) = call[t].seen
    BY <2>3, BehindAll
  <2>5. Cardinality(call[t].early) \in Nat /\ Cardinality(call[t].seen) \in Nat
    BY <2>3, KeySets
  <2>6. Cardinality(call[t].early) <= call[t].sum /\ call[t].sum <= Cardinality(call[t].seen)
    BY <2>1, <2>4
  <2>7. ASSUME NEW a \in Nat, NEW b \in Nat, NEW c \in Nat, a <= b, b <= c PROVE b \in a..c
    BY <2>7
  <2> QED BY <2>3, <2>5, <2>6, <2>7
<1> QED BY <1>1, Invariant, PTL

\* newShardedLRU splits the budget for any MaxBytes, and any ShardCount up to the bound
\* of the model: into a power of two of shards that have all of it, with 1 KiB at least
\* if there are several, and as many as that and ShardCount allow.
THEOREM BudgetSplit == Spec => []BudgetIsSplit
<1>1. BudgetIsSplit
  <2> SUFFICES ASSUME NEW count \in Counts, NEW bytes \in Sizes
               PROVE  LET n == Shards(count, bytes)
                          budget == [i \in 0..n - 1 |-> Budget(i, n, bytes)]
                      IN /\ n \in Powers
                         /\ SumFunction(budget) = bytes
                         /\ n > 1 => \A i \in 0..n - 1 : budget[i] >= 1024
                         /\ n < count => bytes < 2048 * n
    BY DEF BudgetIsSplit
  <2> DEFINE n == Shards(count, bytes)
             budget == [i \in 0..n - 1 |-> Budget(i, n, bytes)]
  <2>1. 2 ^ MaxShift = 1024 BY DEF MaxShift
  <2>2. count \in Int /\ count <= 1024 /\ bytes \in Nat \ {0} BY <2>1, CachesAssumption
  <2>3. n \in Powers BY ShardsType
  <2>4. /\ n > 1 => bytes \div n >= 1024
        /\ n < count => bytes < 2048 * n
    BY <2>2, ShardsAreMany
  <2> HIDE DEF n
  <2>5. SumFunction(budget) = bytes BY <2>2, <2>3, SharesAddUp
  <2>6. ASSUME n > 1, NEW i \in 0..n - 1 PROVE budget[i] >= 1024
    <3>1. n \in Nat \ {0} /\ bytes \div n \in Nat BY <2>2, <2>3, PowersAre
    <3>2. budget[i] = bytes \div n + (IF i < bytes % n THEN 1 ELSE 0)
      BY <2>2, <2>6 DEF Budget
    <3>3. bytes \div n >= 1024 BY <2>4, <2>6
    <3> QED BY <3>1, <3>2, <3>3
  <2> QED BY <2>3, <2>4, <2>5, <2>6 DEF n
<1> QED BY <1>1, PTL
=============================================================================
