# locache: TLA+ verification

TLA+ models of the cache in `src/`, checked on small instances with TLC. The
properties that say what may never happen are also proved with TLAPS, for every
instance; those that say what must happen eventually are checked with TLC only.

- `tlc -workers 2 -config X.cfg MCModule` repeats a run,
- `tlapm XProofs.tla` repeats the proofs of a module,
- `PROJECT.json` lists components, runs, the source lines of every definition,
  hazards, findings and theorems.

## 1. The system

locache is a cache embedded in the processes of an application. A consistent-hash
ring gives every key one owner; etcd tells each node who the members are; nodes
call each other over gRPC.

| part | source | state | operations |
|---|---|---|---|
| singleflight | `singleflight/` | map key → running call | `Do` |
| owner operations | `group.go` 417-600 | `mainCache`, `ownerEpoch`, `keyStates` (generation, refs) | `getLocal`, `setLocal`, `deleteLocal`, `deleteOwnerLocal`, `Clear`, `Close` |
| routing | `group.go` 166-413, `client.go`, handlers of `server.go` | `nearCache`, the locals of each call, messages | `Get`, `Set`, `Delete`, `Invalidate` |
| membership | `peers.go` | members, ring, clients, epoch, watch position | snapshot, watch, `addMember`, `removeMember`, `Close` |
| ring | `consistenthash/` | sorted virtual points | `Add`, `Remove`, `Get` |
| store | `store/lru.go` | list, map, deadlines, byte count | `Get`, `Set`, `Delete`, `Clear`, cleanup, `Close` |
| sharded store | `store/sharded_lru.go` | array of LRU stores | the same, per shard |
| registration, server | `registry/`, `server.go` | lease, key, listener, registration | `Register`, `Close`, `Start`, `Stop` |
| group registry | `group.go` 131-164, 633-713 | map name → group | `NewGroup`, `DestroyGroup`, ... |

How they interact: `Get` asks the picker for owner and epoch, then either runs the
owner path itself or probes its near cache and calls the owner. The owner path
checks ownership, clears `mainCache` if the epoch is new, probes it and loads
through singleflight. `Set` and `Delete` change the owner and then invalidate
everybody else. The picker's epoch is part of near-cache keys and guards
`mainCache`.

What is hard here: loads racing mutations of the same key; generations kept in
objects that are created and dropped on demand; ownership that moves between a
check and its use, and moves back; retries, late handlers and lost invalidations;
copies filled after the invalidation that should have removed them; events
between a snapshot and a watch; colliding hashes; byte accounting.

## 2. Modules

| module | models | checked by |
|---|---|---|
| `Singleflight` | `Group.Do` | `MCSingleflight`, `SingleflightProofs` |
| `OwnerCache` | owner operations of one group on one node; uses `Singleflight` by INSTANCE | `MCOwnerCache`, `OwnerCacheSteps`, `OwnerCacheProofs` |
| `Routing` | `Get`, `Set`, `Delete` across nodes | `MCRouting`, `RoutingSteps`, `RoutingProofs` |
| `Membership` | `ClientPicker` and etcd | `MCMembership`, `TopologyProofs` |
| `ConsistentHash` | the ring | itself, `TopologyProofs` |
| `LRUStore`, `LossyStore` | the store, and what it promises | `MCLRUStore`, `LRUStoreProofs` |
| `Server` | `Start`, `Stop`, registration, etcd's lease | itself, `NodeProofs` |
| `GroupRegistry` | the map of groups and `Group.Close` | in `GroupCaches` |
| `ShardedLRU` | sharded store and the closed flag of `Cache` | in `GroupCaches` |
| `GroupCaches` | the two together | `MCGroupCaches`, `NodeProofs` |

The modules rest on each other's results. `OwnerCache` may lose any entry at any
time (`Evict`), which is what `LossyStore` allows and `LRUStore` implements.
`Routing` takes the owner of a key to be the nearest member (`OwnerIsNearest`)
and lets each node walk through one sequence of memberships at its own pace
(`ViewIsARevision`, `ViewMovesForward`). What `Membership` sees as puts and
deletes in etcd is what `Server` does there.

### Singleflight

One step per critical section of `Do`: join or lead, `fn` returns (a value, an
error, a panic), the call leaves the map, the waiters are woken, everybody
returns. A call is identified with its leader. `m` is `g.m`, `at` is where a
goroutine stands, `res` is the call's outcome.

### OwnerCache

A goroutine's operation is a sequence of steps: `PickOwner` and `AdoptEpoch`
(`prepareLocalOwner`), `AcquireKeyState`, then for a read `Probe`, `EnterDo`, `Reload`,
`Load`, `Recheck`, `Store`, `Land`, for a mutation `Mutate`, finally `ReleaseKeyState`.
Every critical section is one step: each contains at most one access to state that
another lock protects. No mutex is held over a wait in the code, so none is held between
steps here; that mutexes do not deadlock is therefore read off the code and not checked,
while the waits for a singleflight call are (`OperationsReturn`). The closed flag is
read in the step of the access it guards: a `Close` in between changes only what a
closed cache holds, which nobody reads. A key state is an address in `StateIds`, reused
after it has been dropped; there are at least as many as goroutines. Values are
represented by what the properties need: the number of mutations they reflect (`mut`),
the epoch in which they were obtained (`asof`) and the epoch in which they entered the
cache (`written`). Expiry and eviction are `Evict`. A panic of the Getter is an error of
the source. Generations do not wrap (2^64 mutations of one key while one load runs).

### Routing

A fixed key; nodes are numbered by their distance from it. The loop of the three
operations, the handlers on the owner (ownership check, then effect, as two
steps), the second look at the topology, the invalidation of all other clients,
the fill with its deadline. The owner's side may also fail for reasons of its own (a
group that is closed or not there), on the caller's own node too; a call on a closed
group ends at once and is not a step. The field `seen` of a caller is history: the
topology its node was in when the answer came about, which `AnswersAreCurrent` compares
with the one it was picked in. An RPC may fail before or after its effect; a
mutation whose caller has given up stays behind as an orphan and is carried out,
or rejected, at any later time. The epoch is the position in the sequence of
memberships. The clock advances only while callers are idle, wait or are on the
wire, so local steps take no time, and a call lasts at most `RpcTimeout`
(`Client.callContext` sets it unless the caller's context has its own deadline).
With a Getter a miss on the owner ends in one of the outcomes of a load (`Loads`):
a value, an error of the source, `ErrCacheMiss` or `ErrTopologyChanged`; which one
when is `OwnerCache`. `g.peers == nil` is `OwnerCache` with `Clustered = FALSE`;
`ErrNoOwner` cannot occur, because a node is always a member of its own ring.

### Membership

etcd is a log of puts and deletes under the service prefix that may be compacted
(external). The watch goroutine takes a snapshot, then responses holding one or
more consecutive events, applied one at a time; the watch may break at any time,
and the snapshot may fail. `Close` cancels, waits for the goroutine or times out,
and closes the clients. A header's revision is that of the response's last event.
Closing a removed member's client, after the lock is released, is part of the
removal.

### ConsistentHash

The hash function is an arbitrary assignment of hashes, collisions included,
chosen in `RingInit`. `Add` (with lists, duplicates and empty names), `Remove`, and
`Get` by bisection. `sort.Slice` is external: no two points are equal in the order of
`sortPoints`, so any sort has the result of the insertion sort used here. The loops are
recursive functions, which the prover can reason about.

### LRUStore and LossyStore

`LRUStore` has list, map, deadlines, byte count and clock; `SetWithExpiration` reads the
clock twice, once for the deadline and once for the eviction, and so does the model. The
callback `onEvicted`, which runs under the lock, is left out: it is the application's,
and assumed not to call the store again. `LossyStore` is the promise: a map with
deadlines that may forget entries, and in which `Get` returns the last value set or
nothing, never an expired one.

### Server

`Start` and `Stop` are two goroutines that share `s.registration`, `s.ctx`, the
gRPC server and the etcd client; the keepalive goroutine, the handlers in flight,
etcd and a later process at the same address are the others. `Register` is four
steps, each of which may fail, `Put` and `Revoke` also after etcd has carried them
out. `Registration.Close` is a `sync.Once`: the first caller cancels, waits for the
goroutine or its own timeout and revokes, the second waits for the first. A lease
lives as long as the client renews it; the key goes with the lease it was put with
last. `Serve` after `GracefulStop` closes the listener and returns. External, from
how the code uses them: etcd, `grpc.Server`. A call of etcd takes effect when it is
made; one that is delivered after its caller has given up, and after a successor
has registered, is left out.

### GroupRegistry, ShardedLRU, GroupCaches

`NewGroup` swaps the map entry and closes the old group outside the lock;
`Group.Close` is a compare-and-swap, the two caches, and the removal if the name
still leads to the group. Several goroutines do this at once. The main cache of one
group, `Watched`, is modelled down to its shards: calls for one key are one step
(they may have read the closed flag long before), `Clear`, `Len` and the cleanup
pass take one step per shard. A shard is the set of entries it has; `Set` may evict
others of the same shard, and everything expired in it. `Cache.Close` and the
`Close` of the store, two steps in the code, are one: nobody but the closer can tell
them apart, and a tick in between is a tick before. `BudgetIsSplit` compares the
arithmetic of `newShardedLRU` with what it is for, over `Counts` and `Sizes`.

## 3. Runs

| run | instance | shows |
|---|---|---|
| `singleflight` | 3 goroutines, 2 keys | one execution per key, no orphaned waiter, no finished call in the map, waiters return |
| `owner_loads` | 3 goroutines, 1 key, a mutation, Close | no stale fill, exact key states, reads see earlier mutations, one source load |
| `owner_epochs` | 2 goroutines, 2 epochs, a mutation | old entries are not served; operations return |
| `ring` | 3 nodes, 2 replicas, 4 hashes, all hash functions, calls of up to 2 nodes | canonical ring, nearest owner, minimal remapping |
| `lru` | 3 keys, lengths 0, 1, 3, budget 3, clock to 2 | accounting, budget, eviction order, refinement of `LossyStore`, expired entries go |
| `membership` | 2 other nodes, 4 revisions | the view is a revision, connections match, epochs name memberships, no step back, convergence |
| `routing_staleness` | 3 nodes, 2 callers, clock to 3, failing RPCs | bounded staleness; invalidation spares the owner |
| `routing_topology` | 3 nodes, 2 memberships, 3 attempts, a Getter, failing RPCs, Close | success is the owner's; answers are accepted from current owners; near hits are of the epoch; operations return |
| `server` | 1 server, 2 requests, failing etcd calls, a crash, a successor | a serving node is advertised; Stop deregisters first; the key goes, the successor's stays; shutdown ends |
| `group_caches` | 2 groups of one name, 2 goroutines, 2 shards, 2 keys | open groups can be found; closed ones leave with their goroutines; Clear, Len and the ticker reach every shard; the budget is split |

Bounds. Three goroutines are the fewest for a loader, a mutation and a third
party that drops or re-creates the key state between them. Two epochs, with
every assignment of the key to this node or another in each, make an entry old;
`owner_periods` has three, so that the key can leave and come back. More epochs,
keys and mutations are covered by the proofs. Colliding points need hashes fewer
than points (4 and 6). In the LRU a key counts one byte: the budget of 3 admits all
three keys with empty values, two of which one has a value, and never the large value
(1 + 3), which evicts everything and itself. With three keys a hit changes which of two
others goes first. In the staleness run the
clock reaches the bound (nearTTL = rpcTimeout = 1 gives 3), so a copy that lived
longer would be caught. `MaxOrphans = 1` late handler at a time is enough to
overtake a later call. In `routing_topology` three attempts (`Attempts`) leave a
first, a middle and a last one; `routing_exhausted` uses four, as the code does.
`Server` has no bound but the number of requests; a `Server` starts and stops once,
and a restart is the successor. In `group_caches` two groups of one name are a group
and its replacement, two goroutines race to close it, and one of them also runs
Clear or Len while any number of others set and delete keys (`Set` and `Take` belong
to nobody). `MaxShift` bounds the powers of two that `nextPowerOfTwo` may return.
Symmetry (goroutines, key-state addresses) is used in `owner_loads` only, which
checks invariants.

Deadlock is checked except where the model stops by itself: in Membership (the
log is bounded and a closed picker is final), in `routing_topology` (its one
caller may have panicked), in `routing_exhausted` (the memberships are used up), in
`server` (a stopped server is final) and in `group_caches` (all groups are closed).

Fairness. `Singleflight`, `OwnerCache` and `Routing` assume weak fairness of the
steps of a running operation: goroutines are scheduled, the Getter returns and
RPCs end, the last because every call has a deadline. Nothing is assumed of new
calls, of membership changes or of eviction. The LRU's liveness assumes that time
passes and the ticker fires. Membership assumes that responses arrive and are
applied, that a watch from a compacted revision fails, and, as strong fairness,
that a snapshot tried again and again succeeds at some time. `Server` assumes that
Start and Stop go on where they are not blocked (etcd calls have timeouts, `once.Do`
lets a waiter through), that handlers return, and that etcd drops a lease nobody
renews; not that Accept fails, that Stop is called, or that a renewed lease is lost.
`GroupCaches` assumes that a `Close`, `Clear` or `Len` under way goes on and that the
ticker fires until it is stopped.

## 4. What disagrees with the documentation

Two runs state what a comment or the README says and find it violated.

1. `owner_periods`: a value loaded in one ownership period can be stored and
   served in the next (`src/README.md` 224 and the comment at `group.go` 572).
2. `routing_exhausted`: `Set` returns nil although no node stored the value, when
   its own node rejects it in the fourth attempt.

Three more differences are visible in the models, as exceptions that properties make:

- A caller can share the result of a call whose `fn` has already finished, between
  fn's return and the removal from the map (`singleflight.go` 46-53): the exception
  `late` in `ReadsSeeEarlierMutations`.
- With no client for the owner, as after `ClientPicker.Close`, an operation calls a
  method of a nil `*Client` instead of returning `ErrPeerUnavailable`, because a nil
  pointer in a `Peer` is not a nil `Peer` (`peers.go` 339): the panic that
  `OperationsReturn` of `Routing` allows.
- If `Stop` comes between `Register` and the publication of `s.registration`, the
  lease is not revoked (`src/README.md` 218 says it is) but left to expire, and the
  address stays in etcd until then: the exception `saw` in `StopDeregistersFirst`.
  A lease that etcd drops is never registered again: `lost` in
  `ServingIsAdvertised`.

The near cache deserves a remark. The comment on `Group` calls the TTL the bound
"if an invalidation is lost", but a copy can outlive an invalidation that was not
lost: a reader fills after the invalidation of its node has passed, and a writer
fills after another writer's. `BoundedStaleness` is what holds in every case:
the value was current less than nearTTL plus two RPC timeouts ago, and the run's
bounds are such that this cannot be improved to one.

## 5. Proofs

All for arbitrary sets of goroutines, keys, nodes and addresses and arbitrary bounds.
Each result is an inductive invariant: it holds in `Init`, one lemma per action (or per
group of actions that touch the same variables) shows that a step keeps it, and it
implies the property the run checks.

`SingleflightProofs`: `OneExecution`, `NoOrphans`, `MapIsLive`. The invariant adds that a
leader that has not removed its call is the one in the map (`LeadersInMap`).

`OwnerCacheSteps`, `OwnerCacheProofs`:

- `TypeCorrect`, one lemma per action, and `Holders` (a goroutine has a state exactly
  between acquire and release). The type invariants of `Singleflight` and `OwnerCache`
  are proved and not model-checked.
- `OneSourceLoad`, from the singleflight invariant and `Positions` (where in `Do` a
  goroutine at each step may be).
- `NoStaleFillHolds`, from `LoadsAreCurrent`: a loader whose generation is unchanged
  holds a state that is in the map, so every mutation since has gone through that very
  state and the value it loaded is current.
- `KeyStatesCorrect`, from `StatesApart` (distinct keys have distinct states), with the
  count of holders followed through each acquire and release.
- `OldEntriesUnserved` and `ReadsSeeMutations`, from `EpochsAreOrdered`,
  `EntriesAreCurrent` and `OutcomesAreGood`, which says of every outcome on its way to a
  reader what the theorems say of the reader.

`RoutingSteps`, `RoutingProofs`: `SuccessAtOwner`, `AcceptedInEpoch`, `NearHitsCurrent`,
`StalenessBounded`, `OwnerSpared`. The invariant says of a caller at each place of the
loop what it has so far (`Good`): which owner it picked in which epoch, who applied its
mutation, where its copy comes from. For the staleness bound it also follows the clock:
an answer on its way was the owner's content at most one timeout before the call ends, a
copy waiting to be filled at most two, and a copy in a near cache expires nearTTL after
its fill. `AcceptedInEpoch` needs `SeenInv`: an answer came about between the pick and
now, so a topology that is the same at both ends was the same when it did.
`StalenessBounded` is for groups without a Getter, as the property is. `OwnerSpared`
assumes that the nodes of the callers are in the topology, as they are once registered;
the run's instance is one of these.

`LRUStoreProofs`:

- `LRUImplementsLossyStore`: every step of the LRU is a step of the lossy map or a
  stutter, under the invariant that a key with a deadline is a key of the map.
- `AccountsAgree` and `BudgetKept`, from `Sound`: the list has every key of the map once
  and usedBytes is the sum of the weights. Removing a set of entries splits the sum.
- `EvictsOldestFirst`, from `OrderInv`: the list is in the order of use. An eviction
  takes the end of the list, so what it drops was used before what it keeps.

`TopologyProofs`, membership: `ViewSound`, `ConnectionsSound`, `EpochsName`,
`ViewForward`. The invariant adds that the queue is the part of the log between the
view's revision and the header's, and that each log entry's `after` is the effect of its
event on the previous.

`TopologyProofs`, ring: `RingCanonical`, `OwnerNearest`, `RemapMinimal`. `SortSorts`,
`WithoutIs` and `AddedIs` say what the loops of `sortPoints`, `Remove` and `Add` compute
for every input, `SearchIs` what the bisection finds in a sorted list. With these the
canonical ring is inductive as it stands, apart from types. The nearest point is unique,
so two rings over the same hashes give a key to the same node when each one's nearest
point is on the other, which is minimal remapping.

`NodeProofs`, server: `Advertised`, `DeregisteredFirst`, `SuccessorSafe`.
The invariant relates the places of `Start`, `Stop` and the two callers of
`Registration.Close` to the lease and the key.

`NodeProofs`, groups and store: `GroupsFindable`, `ClearIsThorough`, `LenPlausible`,
`BudgetSplit`. While a `Clear` or `Len` is under way the invariant speaks of the shards
it has passed. The budget is a sum over the shards, and the number of shards the largest
power of two that fits.

What a recursive function computes for every input is proved by least counterexample:
the set of the lengths for which the claim fails is empty, because it has no smallest
element (`LeastNatural`, from the library's well-founded orders); finite sets the same
way, by a smallest subset.

Assumptions are the named ASSUMEs of the modules: types of the constants, that the
model values are distinct, and that the topologies of `Routing` have one length.

Only checked with TLC: the liveness properties `WaitersReturn`, `OperationsReturn`,
`ExpiredEntriesGo`, `ViewConverges`, `AddressLeavesEtcd`, `ShutdownCompletes`,
`ClosedGroupsLeave` and `TickerServesEveryShard`, because fairness and ENABLED are out
of the prover's reach.

## 6. What is left

The order of work was: singleflight and the owner path (the protection against
stale values is the heart of the code), the store with its abstract specification,
membership, the ring, routing, then server, groups and sharded store. Worth doing
next:

1. An abstract cluster cache that `Routing` on a stable topology implements.
2. The picker of `Membership` with the ring of `ConsistentHash` in the place of its set
   of nodes.

Four hazards have no property. The documentation accepts two: nodes that both own a
key while their views differ (`group.go` 330; no migration, no quorum), and an
invalidation that reaches a node which has become the owner (`server.go` 249; a cache
may lose entries). The code does nothing about the other two, which the models have: a
client dialled after `ClientPicker.Close` has given up waiting stays open (`peers.go`
404; `ConnectionsMatch` is about a `Close` that did not time out), and a node whose
lease is lost serves on without being registered (`registry/register.go` 84; the
exception of `ServingIsAdvertised`).

Not modelled: generated gRPC code, statistics and logging, options and defaults,
TLS, address and byte-slice handling, the demo. They have no state that the
properties depend on.
