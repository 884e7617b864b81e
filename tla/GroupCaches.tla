---------------------------- MODULE GroupCaches ----------------------------
(***************************************************************************)
(* The groups of a process on top of their stores: the registry of groups, *)
(* where Close ends in the main cache of a group, and that cache of one    *)
(* group, Watched, with its sharded store.  A goroutine does one thing at  *)
(* a time; Clear and Len reach the cache through a pointer to the group    *)
(* that may outlive its registration.                                      *)
(***************************************************************************)
EXTENDS GroupRegistry, ShardedLRU

CONSTANTS
  Watched,        \* the group whose main cache is modelled
  Counts, Sizes   \* ShardCount and MaxBytes for which the split is checked

ASSUME CachesAssumption ==
  /\ Watched \in Groups /\ Callers \subseteq Goroutines
  /\ Counts \subseteq {c \in Int : c <= 2 ^ MaxShift} /\ Sizes \subseteq Nat \ {0}

vars == <<registryVars, storeVars>>

Init == RegistryInit /\ StoreInit

\* The store's part of a step of the registry: NewGroup creates the cache, Group.Close
\* closes it.
StoreFollows ==
  IF "main" \in caches'[Watched] \ caches[Watched] THEN NewCache
  ELSE IF "main" \in caches[Watched] \ caches'[Watched] THEN Close
  ELSE UNCHANGED storeVars

Next ==
  \/ \E t \in Goroutines :
       /\ t \in Callers => call[t] = Idle
       /\ RegistryStep(t)
       /\ StoreFollows
  \/ \E t \in Callers :
       /\ at[t] = "idle"
       /\ WalkStep(t)
       /\ UNCHANGED registryVars
  \/ StoreAlone /\ UNCHANGED registryVars

\* A goroutine in the middle of a call goes on, and so does the cleanup loop; the
\* ticker fires again and again until it is stopped.
Fairness ==
  /\ \A t \in Goroutines : WF_vars(GoesOn(t) /\ StoreFollows)
  /\ \A t \in Callers : WF_vars(StoreGoesOn(t) /\ UNCHANGED registryVars)
  /\ WF_vars(Fire /\ UNCHANGED registryVars)
  /\ WF_vars(LoopGoesOn /\ UNCHANGED registryVars)

Spec == Init /\ [][Next]_vars /\ Fairness

-----------------------------------------------------------------------------
\* Every open group is the one its name leads to, or somebody is about to close it:
\* closing a replaced group late does not unregister its successor, and no group is
\* left open, with its goroutines, where nobody can find it.
OpenGroupsFindable ==
  \A g \in made \ closed :
    groups[NameOf[g]] = g \/ \E t \in Goroutines : at[t] = "close" /\ cur[t] = g

\* newShardedLRU divides the budget: whatever options the store is going to be created
\* with, the number of shards is a power of two (so that the mask reaches all of them),
\* the budgets add up to MaxBytes, none is below 1 KiB unless it is the only one, and
\* there are as many shards as that and ShardCount allow.
BudgetIsSplit ==
  flag = "none" =>
  \A count \in Counts, bytes \in Sizes :
    LET n == Shards(count, bytes)
        budget == [i \in 0..n - 1 |-> Budget(i, n, bytes)]
    IN /\ n \in Powers
       /\ SumFunction(budget) = bytes
       /\ n > 1 => \A i \in 0..n - 1 : budget[i] >= 1024
       /\ n < count => bytes < 2048 * n

\* Clear removes everything that was there when it was called and has not been set
\* since, although other goroutines write to the shards it has left behind.
ClearRemovesEarlier ==
  \A t \in Callers :
    call[t].op = "clear" /\ call[t].i = N => call[t].early \cap Has = {}

\* Len, which adds up the shards at different times, returns no fewer than the entries
\* that were there all the time and no more than those that were there at some time.
LenIsPlausible ==
  \A t \in Callers :
    call[t].op = "len" /\ call[t].i = N =>
      call[t].sum \in Cardinality(call[t].early)..Cardinality(call[t].seen)

\* A group whose Close has begun leaves the map and has both its caches closed, and the
\* cleanup goroutine of its store ends, also when NewGroup, DestroyGroup and
\* DestroyAllGroups close it at the same time.
ClosedGroupsLeave ==
  \A g \in Groups :
    g \in closed ~> /\ groups[NameOf[g]] # g /\ caches[g] = {}
                    /\ g = Watched => loop = "ended"

\* The one ticker serves every shard: an entry that has expired is removed or
\* replaced, unless the store is closed.
TickerServesEveryShard == \A k \in Keys : entry[k] = "expired" ~> (entry[k] # "expired" \/ done)
=============================================================================
