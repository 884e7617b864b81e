----------------------------- MODULE ShardedLRU -----------------------------
(***************************************************************************)
(* shardedLRU (store/sharded_lru.go) behind the closed flag of Cache       *)
(* (cache.go).  A call for one key is one step of one shard, after the     *)
(* flag was read; Clear, Len and the cleanup loop visit the shards one     *)
(* after another, while others work on them.                               *)
(*                                                                         *)
(* A shard is reduced to which of its keys it has and whether they have    *)
(* expired; LRUStore has the rest.                                         *)
(***************************************************************************)
EXTENDS Integers, FiniteSets, FiniteSetsExt, Functions

CONSTANTS
  Keys,
  Hash,         \* fnv32a of a key
  BitAnd(_, _), \* bitwise and, Go's &
  ShardCount, MaxBytes, \* Options
  Callers       \* goroutines that use the cache

VARIABLES
  flag,     \* Cache: "none" (not created), "open", "closed"
  entry,    \* entry[k]: "absent", "live", "expired"
  call,     \* call[t]: what caller t is doing in the cache
  loop,     \* cleanupLoop: "none", "select", "pass", "ended"
  pos,      \* the shard its pass comes to next
  tick,     \* a tick is in the channel of cleanupTick
  done      \* closeCh is closed (and the ticker stopped)

storeVars == <<flag, entry, call, loop, pos, tick, done>>

-----------------------------------------------------------------------------
(* newShardedLRU *)

\* Powers of two; MaxShift bounds the shard counts that are considered.
MaxShift == 10
Powers == {2 ^ i : i \in 0..MaxShift}

\* The smallest power of two that is not below n.
nextPowerOfTwo(n) ==
  IF n <= 1 THEN 1 ELSE CHOOSE p \in Powers : p >= n /\ p \div 2 < n

\* Halved until every shard has 1 KiB, or there is only one.
Shards(count, bytes) ==
  LET p == nextPowerOfTwo(IF count <= 0 THEN 16 ELSE count)
      fits == {c \in Powers : c <= p /\ (bytes <= 0 \/ bytes \div c >= 1024)}
  IN IF fits = {} THEN 1 ELSE Max(fits)

\* Mutant: the remainder is not distributed.
BudgetEven(i, n, bytes) == IF bytes > 0 THEN bytes \div n ELSE bytes

\* The budget of shard i of n.
Budget(i, n, bytes) ==
  IF bytes > 0 THEN bytes \div n + (IF i < bytes % n THEN 1 ELSE 0) ELSE bytes

N == Shards(ShardCount, MaxBytes)

\* The shard of a key.
shard == [k \in Keys |-> BitAnd(Hash[k], N - 1)]
KeysOf == [i \in 0..N - 1 |-> {k \in Keys : shard[k] = i}]

\* Masking a number leaves one that is not above the mask.
ASSUME StoreAssumption ==
  /\ IsFiniteSet(Keys) /\ ShardCount \in Int /\ MaxBytes \in Int
  /\ ShardCount <= 2 ^ MaxShift
  /\ \A k \in Keys : BitAnd(Hash[k], N - 1) \in 0..N - 1

-----------------------------------------------------------------------------
Idle == [op |-> "none"]
Has == {k \in Keys : entry[k] # "absent"}

StoreInit ==
  /\ flag = "none"
  /\ entry = [k \in Keys |-> "absent"]
  /\ call = [t \in Callers |-> Idle]
  /\ loop = "none" /\ pos = 0 /\ tick = FALSE /\ done = FALSE

\* NewCache: the cleanup loop starts.
NewCache == flag' = "open" /\ loop' = "select" /\ UNCHANGED <<entry, call, pos, tick, done>>

\* History of the walks of Clear and Len: early, what was there when it began (and
\* has not been set again, for Clear, or removed, for Len); seen, what was there at
\* some time since.
Recorded(c, S) ==
  CASE c.op = "clear" -> [c EXCEPT !.early = @ \ S]
    [] c.op = "len" -> [c EXCEPT !.early = @ \cap {k \in Keys : entry'[k] # "absent"},
                                 !.seen = @ \cup S]
    [] OTHER -> c

\* A call that has read the flag may work on its shard at any time after that, even
\* when the cache has been closed.
Used == flag # "none"

\* What eviction in the shard of k may remove when k is set: everything that has
\* expired, and others for their size.
Evicted(k) ==
  LET others == (KeysOf[shard[k]] \ {k}) \cap Has
  IN {S \in SUBSET others : {j \in others : entry[j] = "expired"} \subseteq S}

\* Set: the key is there, unless it alone exceeds the budget and nothing is left.
Set(k) ==
  /\ Used
  /\ \E S \in Evicted(k), e \in {"live", "absent"} :
       /\ e = "absent" => S = (KeysOf[shard[k]] \ {k}) \cap Has
       /\ entry' = [j \in Keys |-> IF j = k THEN e
                                   ELSE IF j \in S THEN "absent" ELSE entry[j]]
  /\ call' = [t \in Callers |-> Recorded(call[t], {k})]
  /\ UNCHANGED <<flag, loop, pos, tick, done>>

\* Delete, and Get of an expired entry, remove it.
Take(k) ==
  /\ Used /\ entry[k] # "absent"
  /\ entry' = [entry EXCEPT ![k] = "absent"]
  /\ call' = [t \in Callers |-> Recorded(call[t], {})]
  /\ UNCHANGED <<flag, loop, pos, tick, done>>

\* Clear and Len start with the first shard, once the flag has been read.
Walk(t, o) ==
  /\ call[t] = Idle /\ flag = "open"
  /\ call' = [call EXCEPT ![t] =
                [op |-> o, i |-> 0, sum |-> 0, early |-> Has, seen |-> Has]]
  /\ UNCHANGED <<flag, entry, loop, pos, tick, done>>

\* Mutant: the last shard is left out.
ClearAllButLast(t) ==
  /\ call[t].op = "clear" /\ call[t].i < N
  /\ LET i == call[t].i IN
     /\ entry' = [k \in Keys |-> IF k \in KeysOf[i] /\ i + 1 < N THEN "absent" ELSE entry[k]]
     /\ call' = [u \in Callers |->
                   Recorded(IF u = t THEN [call[t] EXCEPT !.i = i + 1] ELSE call[u], {})]
  /\ UNCHANGED <<flag, loop, pos, tick, done>>

\* Clear of the next shard.
ClearShard(t) ==
  /\ call[t].op = "clear" /\ call[t].i < N
  /\ LET i == call[t].i IN
     /\ entry' = [k \in Keys |-> IF k \in KeysOf[i] THEN "absent" ELSE entry[k]]
     /\ call' = [u \in Callers |->
                   Recorded(IF u = t THEN [call[t] EXCEPT !.i = i + 1] ELSE call[u], {})]
  /\ UNCHANGED <<flag, loop, pos, tick, done>>

\* Mutant: the total is of the whole store for every shard.
LenOfAll(t) ==
  /\ call[t].op = "len" /\ call[t].i < N
  /\ call' = [call EXCEPT ![t].i = @ + 1, ![t].sum = @ + Cardinality(Has)]
  /\ UNCHANGED <<flag, entry, loop, pos, tick, done>>

\* Len of the next shard; what has expired but is not removed counts.
LenShard(t) ==
  /\ call[t].op = "len" /\ call[t].i < N
  /\ call' = [call EXCEPT ![t].i = @ + 1,
                          ![t].sum = @ + Cardinality(KeysOf[call[t].i] \cap Has)]
  /\ UNCHANGED <<flag, entry, loop, pos, tick, done>>

\* Clear or Len returns.
Return(t) ==
  /\ call[t].op \in {"clear", "len"} /\ call[t].i = N
  /\ call' = [call EXCEPT ![t] = Idle]
  /\ UNCHANGED <<flag, entry, loop, pos, tick, done>>

StoreGoesOn(t) == ClearShard(t) \/ LenShard(t) \/ Return(t)

-----------------------------------------------------------------------------
\* Mutant: the ticker is stopped, closeCh is not closed.
StoreClosesNot == UNCHANGED done

\* shardedLRU.Close stops the ticker and closes closeCh; its shards have neither.
StoreCloses == done' = TRUE

\* Cache.Close.
Close == flag' = "closed" /\ StoreCloses /\ UNCHANGED <<entry, call, loop, pos, tick>>

\* The ticker fires.
Fire ==
  /\ loop # "none" /\ ~done /\ ~tick
  /\ tick' = TRUE
  /\ UNCHANGED <<flag, entry, call, loop, pos, done>>

\* A pass begins; when both channels are ready select takes either.
BeginPass ==
  /\ loop = "select" /\ tick
  /\ loop' = "pass" /\ tick' = FALSE
  /\ UNCHANGED <<flag, entry, call, pos, done>>

\* Mutant: the pass ends at the first shard.
CleanFirstShard ==
  /\ loop = "pass"
  /\ entry' = [k \in Keys |-> IF k \in KeysOf[pos] /\ entry[k] = "expired" THEN "absent"
                              ELSE entry[k]]
  /\ loop' = "select"
  /\ call' = [t \in Callers |-> Recorded(call[t], {})]
  /\ UNCHANGED <<flag, pos, tick, done>>

\* cleanupExpired of the next shard.
CleanShard ==
  /\ loop = "pass"
  /\ entry' = [k \in Keys |-> IF k \in KeysOf[pos] /\ entry[k] = "expired" THEN "absent"
                              ELSE entry[k]]
  /\ pos' = (pos + 1) % N
  /\ loop' = IF pos + 1 < N THEN "pass" ELSE "select"
  /\ call' = [t \in Callers |-> Recorded(call[t], {})]
  /\ UNCHANGED <<flag, tick, done>>

LoopEnds ==
  /\ loop = "select" /\ done
  /\ loop' = "ended"
  /\ UNCHANGED <<flag, entry, call, pos, tick, done>>

LoopGoesOn == BeginPass \/ CleanShard \/ LoopEnds

\* The deadline of an entry passes.
Expire(k) ==
  /\ entry[k] = "live"
  /\ entry' = [entry EXCEPT ![k] = "expired"]
  /\ UNCHANGED <<flag, call, loop, pos, tick, done>>

WalkStep(t) == Walk(t, "clear") \/ Walk(t, "len") \/ StoreGoesOn(t)

StoreAlone ==
  \/ \E k \in Keys : Set(k) \/ Take(k) \/ Expire(k)
  \/ Fire \/ LoopGoesOn
=============================================================================
