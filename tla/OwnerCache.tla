----------------------------- MODULE OwnerCache -----------------------------
(***************************************************************************)
(* The owner side of one locache.Group (group.go): getLocal, setLocal,     *)
(* deleteOwnerLocal and deleteLocal, run by concurrent goroutines (local   *)
(* callers and gRPC handlers) on one node, while the membership epoch      *)
(* moves, entries are evicted and the group is closed.                     *)
(*                                                                         *)
(* Each critical section of state.mu, keyStatesMu and ownerEpochMu makes   *)
(* at most one access to state that the lock does not protect, so it is    *)
(* one atomic step.  A cached value is abstracted to where it came from    *)
(* (record Entry).  The near cache belongs to the routing layer.           *)
(***************************************************************************)
EXTENDS Integers, FiniteSets

CONSTANTS
  Threads, Keys,
  StateIds,           \* addresses a keyMutationState can have
  Clustered,          \* RegisterPeers was called
  HasGetter,          \* the group has a source Getter
  Calls, MayClose,    \* which operations are called; whether Close is
  MaxEpoch, MaxMut,   \* bounds: membership changes, mutations per key
  NoThread, NoResult, NoState, NoEntry,
  ErrSource, ErrTopologyChanged, ErrCacheMiss

\* mut: how many mutations of the key precede the value; asof: the epoch in
\* which it was read from the source or handed in by Set; written: the epoch in
\* which it entered mainCache.
Entry == [mut : Nat, asof : Nat, written : Nat]
EntryOf(n, a, w) == [mut |-> n, asof |-> a, written |-> w]

Ops == {"get", "set", "del", "inv"}

Errors == {ErrSource, ErrTopologyChanged, ErrCacheMiss}

ASSUME ConstantsAssumption ==
  /\ Clustered \in BOOLEAN /\ HasGetter \in BOOLEAN
  /\ Calls \subseteq Ops /\ MayClose \in BOOLEAN
  /\ MaxEpoch \in Nat \ {0} /\ MaxMut \in Nat
  /\ IsFiniteSet(Threads)
  /\ NoThread \notin Threads /\ NoState \notin StateIds
  /\ NoEntry \notin Entry /\ Errors \cap Entry = {}
  /\ NoResult \notin Entry \cup Errors

VARIABLES
  m, at, key, on, res,    \* g.loader, a singleflight.Group
  pc, op,                 \* what each goroutine is doing
  ep,                     \* epoch returned by prepareLocalOwner
  st,                     \* key state a goroutine has acquired
  startGen,               \* startGeneration of a load
  ret,                    \* what getLocal is about to return
  main,                   \* g.mainCache
  ownerEpoch,             \* g.ownerEpoch
  keyStates, gen, refs,   \* g.keyStates and the objects it points to
  life,                   \* "open", "closing" (flag set), "closed" (cache too)
  epoch, ring,            \* picker epoch; ring[e][k]: self owns k in epoch e
  mut,                    \* history: mutations applied to each key
  began,                  \* history: mut when the operation was called
  buf,                    \* the loaded bytes, as the entry they will become
  late                    \* history: the call joined had already finished

SF == INSTANCE Singleflight WITH Results <- Entry \cup Errors

loader == <<m, at, on, res>>
picker == <<epoch, ring>>
states == <<keyStates, gen, refs>>
history == <<mut, began, late>>
vars == <<m, at, key, on, res, pc, op, ep, st, startGen, ret, main, ownerEpoch,
          keyStates, gen, refs, life, epoch, ring, mut, began, buf, late>>

Steps == {"idle", "pick", "own", "acquire", "probe", "do", "reload", "load",
          "recheck", "store", "fly", "mutate", "release"}

EmptyCache == [k \in Keys |-> NoEntry]
NoBuf == EntryOf(0, 0, 0)

Init ==
  /\ SF!SFInit
  /\ key \in [Threads -> Keys]
  /\ pc = [t \in Threads |-> "idle"]
  /\ op = [t \in Threads |-> "get"]
  /\ ep = [t \in Threads |-> 0]
  /\ st = [t \in Threads |-> NoState]
  /\ startGen = [t \in Threads |-> 0]
  /\ ret = [t \in Threads |-> NoResult]
  /\ main = EmptyCache
  /\ ownerEpoch = 0
  /\ keyStates = [k \in Keys |-> NoState]
  /\ gen = [s \in StateIds |-> 0]
  /\ refs = [s \in StateIds |-> 0]
  /\ life = "open"
  /\ epoch = 1
  /\ ring \in [1..MaxEpoch -> [Keys -> BOOLEAN]]
  /\ mut = [k \in Keys |-> 0]
  /\ began = [t \in Threads |-> 0]
  /\ buf = [t \in Threads |-> NoBuf]
  /\ late = [t \in Threads |-> FALSE]

-----------------------------------------------------------------------------
(* Cache (cache.go): every operation on a closed cache is a no-op.  Sizes   *)
(* and times are left to the store: Evict may drop any entry at any time,   *)
(* including one that was only just added.                                  *)

CacheGet(k) == IF life = "closed" THEN NoEntry ELSE main[k]
CacheAdd(k, e) == IF life = "closed" THEN main ELSE [main EXCEPT ![k] = e]
CacheDelete(k) == CacheAdd(k, NoEntry)
CacheClear == IF life = "closed" THEN main ELSE EmptyCache

\* peers.PickOwner(key): isSelf.
IsSelf(k) == ring[epoch][k]

Goto(t, l) == pc' = [pc EXCEPT ![t] = l]

-----------------------------------------------------------------------------
\* Mutations of k that have been called and not yet applied.
Pending(k) ==
  {t \in Threads : key[t] = k /\ op[t] # "get" /\ pc[t] \notin {"idle", "release"}}

\* A caller or handler enters the owner path.  deleteLocal ("inv") checks
\* nothing; the others return ErrGroupClosed on a closed group.
Start(t, k, o) ==
  /\ pc[t] = "idle"
  /\ o = "inv" \/ life = "open"
  /\ o = "get" \/ mut[k] + Cardinality(Pending(k)) < MaxMut
  /\ key' = [key EXCEPT ![t] = k]
  /\ op' = [op EXCEPT ![t] = o]
  /\ Goto(t, IF Clustered /\ o # "inv" THEN "pick" ELSE "acquire")
  /\ began' = [began EXCEPT ![t] = mut[k]]
  /\ UNCHANGED <<loader, ep, st, startGen, ret, main, ownerEpoch, states,
                 life, picker, mut, buf, late>>

\* ErrGroupClosed: the operation returns without a trace.
RejectClosed(t) ==
  /\ pc[t] = "idle"
  /\ life # "open"
  /\ UNCHANGED vars

\* Locals cleared when the operation returns, so that they carry no history.
Forgotten(t) ==
  /\ op' = [op EXCEPT ![t] = "get"]
  /\ ret' = [ret EXCEPT ![t] = NoResult]
  /\ st' = [st EXCEPT ![t] = NoState]
  /\ ep' = [ep EXCEPT ![t] = 0]
  /\ startGen' = [startGen EXCEPT ![t] = 0]
  /\ buf' = [buf EXCEPT ![t] = NoBuf]
  /\ began' = [began EXCEPT ![t] = 0]
  /\ late' = [late EXCEPT ![t] = FALSE]

\* Nothing but the step and the named locals of the goroutine changes.
Quiet == UNCHANGED <<key, op, life, picker, history>>

\* prepareLocalOwner asks the picker; ErrNotOwner ends the operation.
PickOwner(t) ==
  /\ pc[t] = "pick"
  /\ IF IsSelf(key[t])
       THEN /\ ep' = [ep EXCEPT ![t] = epoch]
            /\ Goto(t, "own")
            /\ UNCHANGED <<op, st, startGen, ret, began, buf, late>>
       ELSE Goto(t, "idle") /\ Forgotten(t)
  /\ UNCHANGED <<loader, key, main, ownerEpoch, states, life, picker, mut>>

\* Mutant: the owner cache survives a membership change.
OutdatedNever(e) == FALSE

\* ownerEpoch is set and differs from the epoch e of the operation.
Outdated(e) == ownerEpoch # 0 /\ ownerEpoch # e

\* prepareLocalOwner under ownerEpochMu: an epoch other than the recorded one
\* clears the owner cache.
AdoptEpoch(t) ==
  /\ pc[t] = "own"
  /\ main' = IF Outdated(ep[t]) THEN CacheClear ELSE main
  /\ ownerEpoch' = ep[t]
  /\ Goto(t, "acquire")
  /\ Quiet
  /\ UNCHANGED <<loader, ep, st, startGen, ret, states, buf>>

\* An address no goroutine and no map entry refers to: what the allocator may
\* hand out for a new keyMutationState.
Free(s) ==
  /\ \A k \in Keys : keyStates[k] # s
  /\ \A t \in Threads : st[t] # s

\* acquireKeyState: the key's state, created if missing, with one more ref.
AcquireKeyState(t) ==
  LET k == key[t] IN
  /\ pc[t] = "acquire"
  /\ \E s \in StateIds :
       /\ IF keyStates[k] = NoState THEN Free(s) ELSE s = keyStates[k]
       /\ st' = [st EXCEPT ![t] = s]
       /\ keyStates' = [keyStates EXCEPT ![k] = s]
       /\ gen' = [gen EXCEPT ![s] = IF keyStates[k] = NoState THEN 0 ELSE @]
       /\ refs' = [refs EXCEPT ![s] = IF keyStates[k] = NoState THEN 1 ELSE @ + 1]
  /\ Goto(t, IF op[t] = "get" THEN "probe" ELSE "mutate")
  /\ Quiet
  /\ UNCHANGED <<loader, ep, startGen, ret, main, ownerEpoch, buf>>

\* Mutants: a state leaves the map with any release; it never leaves it.
UnreferencedAlways(s) == TRUE
UnreferencedNever(s) == FALSE

\* state.refs is 0 after the decrement.
Unreferenced(s) == refs[s] = 1

\* releaseKeyState, deferred: also reached when the getter panicked.  A state
\* that nobody refers to any more is garbage, its content is gone.
ReleaseKeyState(t) ==
  LET s == st[t] IN
  /\ pc[t] = "release"
  /\ refs' = [refs EXCEPT ![s] = @ - 1]
  /\ gen' = [gen EXCEPT ![s] = IF refs[s] = 1 THEN 0 ELSE @]
  /\ keyStates' = IF Unreferenced(s) /\ keyStates[key[t]] = s
                    THEN [keyStates EXCEPT ![key[t]] = NoState] ELSE keyStates
  /\ Goto(t, "idle")
  /\ Forgotten(t)
  /\ UNCHANGED <<loader, key, main, ownerEpoch, life, picker, mut>>

-----------------------------------------------------------------------------
(* getLocal after acquireKeyState *)

\* mainCache.Get: a hit is returned; a miss goes to the loader, if there is one.
Probe(t) ==
  LET hit == CacheGet(key[t]) IN
  /\ pc[t] = "probe"
  /\ IF hit # NoEntry THEN ret' = [ret EXCEPT ![t] = hit] /\ Goto(t, "release")
     ELSE IF HasGetter THEN Goto(t, "do") /\ UNCHANGED ret
     ELSE ret' = [ret EXCEPT ![t] = ErrCacheMiss] /\ Goto(t, "release")
  /\ Quiet
  /\ UNCHANGED <<loader, ep, st, startGen, main, ownerEpoch, states, buf>>

\* loader.Do: share the call in flight, or create one and run the load.
EnterDo(t) ==
  /\ pc[t] = "do"
  /\ \/ /\ SF!Join(t)
        /\ Goto(t, "fly")
        /\ late' = [late EXCEPT ![t] = at[m[key[t]]] # "run"]
     \/ SF!Lead(t) /\ Goto(t, "reload") /\ UNCHANGED late
  /\ UNCHANGED <<key, op, ep, st, startGen, ret, main, ownerEpoch, states, life,
                 picker, mut, began, buf>>

\* The load gives its outcome to singleflight.
FnReturns(t, r) == SF!FnReturns(t, r) /\ Goto(t, "fly")

\* First critical section: look again, else remember the generation.
Reload(t) ==
  LET hit == CacheGet(key[t]) IN
  /\ pc[t] = "reload"
  /\ IF hit # NoEntry
       THEN FnReturns(t, hit) /\ UNCHANGED <<startGen, buf>>
       ELSE /\ startGen' = [startGen EXCEPT ![t] = gen[st[t]]]
            /\ buf' = [buf EXCEPT ![t] = EntryOf(mut[key[t]], 0, 0)]
            /\ Goto(t, "load")
            /\ UNCHANGED loader
  /\ Quiet
  /\ UNCHANGED <<ep, st, ret, main, ownerEpoch, states>>

\* g.getter.Get: the source is read in the current epoch, or fails (an error,
\* a cancelled context, or a panic that singleflight recovers).
Load(t) ==
  /\ pc[t] = "load"
  /\ \/ /\ buf' = [buf EXCEPT ![t] = EntryOf(buf[t].mut, epoch, 0)]
        /\ Goto(t, IF Clustered THEN "recheck" ELSE "store")
        /\ UNCHANGED loader
     \/ FnReturns(t, ErrSource) /\ UNCHANGED buf
  /\ Quiet
  /\ UNCHANGED <<ep, st, startGen, ret, main, ownerEpoch, states>>

\* The node must still own the key, in the epoch the operation began with.
Recheck(t) ==
  /\ pc[t] = "recheck"
  /\ IF IsSelf(key[t]) /\ epoch = ep[t]
       THEN Goto(t, "store") /\ UNCHANGED loader
       ELSE FnReturns(t, ErrTopologyChanged)
  /\ Quiet
  /\ UNCHANGED <<ep, st, startGen, ret, main, ownerEpoch, states, buf>>

\* Mutant: the generations are not compared.
UnmutatedAlways(t) == TRUE

\* state.generation is still the one the load started with.
Unmutated(t) == gen[st[t]] = startGen[t]

\* Second critical section: the loaded value is added only if no mutation came
\* in between; otherwise the result is whatever the cache has now.
Store(t) ==
  LET k == key[t]
      e == EntryOf(buf[t].mut, buf[t].asof, epoch)
  IN
  /\ pc[t] = "store"
  /\ IF Unmutated(t)
       THEN FnReturns(t, e) /\ main' = CacheAdd(k, e)
       ELSE /\ FnReturns(t, IF CacheGet(k) # NoEntry THEN CacheGet(k)
                            ELSE ErrCacheMiss)
            /\ UNCHANGED main
  /\ Quiet
  /\ UNCHANGED <<ep, st, startGen, ret, ownerEpoch, states, buf>>

\* Singleflight removes the call, wakes the waiters, and Do returns.
Land(t) ==
  /\ pc[t] = "fly"
  /\ \/ (SF!Forget(t) \/ SF!Done(t)) /\ UNCHANGED <<pc, ret>>
     \/ SF!Return(t) /\ ret' = [ret EXCEPT ![t] = res[t]] /\ Goto(t, "release")
  /\ Quiet
  /\ UNCHANGED <<ep, st, startGen, main, ownerEpoch, states, buf>>

-----------------------------------------------------------------------------
\* state.generation++
NextGeneration(t) == gen[st[t]] + 1

\* The critical section of setLocal and of deleteLocal.
Mutate(t) ==
  LET k == key[t]
      e == EntryOf(mut[k] + 1, epoch, epoch)
  IN
  /\ pc[t] = "mutate"
  /\ gen' = [gen EXCEPT ![st[t]] = NextGeneration(t)]
  /\ mut' = [mut EXCEPT ![k] = @ + 1]
  /\ main' = IF op[t] = "set" THEN CacheAdd(k, e) ELSE CacheDelete(k)
  /\ Goto(t, "release")
  /\ UNCHANGED <<loader, key, op, ep, st, startGen, ret, ownerEpoch,
                 keyStates, refs, life, picker, began, buf, late>>

-----------------------------------------------------------------------------
(* The surroundings *)

Surroundings == <<m, at, key, on, res, pc, op, ep, st, startGen, ret, ownerEpoch,
                  keyStates, gen, refs, ring, mut, began, buf, late>>

\* The picker installs another membership.
MembershipChange ==
  /\ Clustered
  /\ epoch < MaxEpoch
  /\ epoch' = epoch + 1
  /\ UNCHANGED <<Surroundings, main, life>>

\* The store drops an entry: capacity, TTL, or invalidateLocalCopies.
Evict(k) ==
  /\ main[k] # NoEntry
  /\ main' = [main EXCEPT ![k] = NoEntry]
  /\ UNCHANGED <<Surroundings, life, epoch>>

\* Group.Clear.
Clear ==
  /\ life = "open"
  /\ main # EmptyCache
  /\ main' = EmptyCache
  /\ UNCHANGED <<Surroundings, life, epoch>>

\* Group.Close sets the flag and then closes mainCache.
Close ==
  /\ MayClose
  /\ life # "closed"
  /\ life' = IF life = "open" THEN "closing" ELSE "closed"
  /\ UNCHANGED <<Surroundings, main, epoch>>

-----------------------------------------------------------------------------
\* A step of an operation in progress.
Advance(t) ==
  \/ PickOwner(t) \/ AdoptEpoch(t) \/ AcquireKeyState(t) \/ ReleaseKeyState(t)
  \/ Probe(t) \/ EnterDo(t) \/ Reload(t) \/ Load(t) \/ Recheck(t) \/ Store(t)
  \/ Land(t) \/ Mutate(t)

Next ==
  \/ \E t \in Threads : Advance(t)
  \/ \E t \in Threads, k \in Keys, o \in Calls : Start(t, k, o)
  \/ \E t \in Threads : RejectClosed(t)
  \/ \E k \in Keys : Evict(k)
  \/ Clear \/ Close \/ MembershipChange

Spec == Init /\ [][Next]_vars

\* Goroutines are scheduled, mutexes are granted and getters return.
FairSpec == Spec /\ \A t \in Threads : WF_vars(Advance(t))

-----------------------------------------------------------------------------
TypeOK ==
  /\ SF!SFTypeOK
  /\ key \in [Threads -> Keys]
  /\ pc \in [Threads -> Steps]
  /\ op \in [Threads -> Ops]
  /\ ep \in [Threads -> Nat]
  /\ st \in [Threads -> StateIds \cup {NoState}]
  /\ startGen \in [Threads -> Nat]
  /\ ret \in [Threads -> Entry \cup Errors \cup {NoResult}]
  /\ main \in [Keys -> Entry \cup {NoEntry}]
  /\ ownerEpoch \in Nat
  /\ keyStates \in [Keys -> StateIds \cup {NoState}]
  /\ gen \in [StateIds -> Nat]
  /\ refs \in [StateIds -> Int]
  /\ life \in {"open", "closing", "closed"}
  /\ epoch \in 1..MaxEpoch
  /\ ring \in [1..MaxEpoch -> [Keys -> BOOLEAN]]
  /\ mut \in [Keys -> Nat]
  /\ began \in [Threads -> Nat]
  /\ buf \in [Threads -> Entry]
  /\ late \in [Threads -> BOOLEAN]

\* A slow load never overwrites a Set and never resurrects a deleted entry: what
\* mainCache holds for a key always reflects the last setLocal or deleteLocal of
\* that key, however loads, releases of key states and mutations interleave.
NoStaleFill ==
  \A k \in Keys : CacheGet(k) # NoEntry => CacheGet(k).mut = mut[k]

\* keyStates holds a state exactly while some operation uses it, under the
\* right key, and refs counts those operations: nothing leaks, and no operation
\* works on a state that the others can no longer find.
KeyStatesExact ==
  /\ \A s \in StateIds : refs[s] = Cardinality({t \in Threads : st[t] = s})
  /\ \A t \in Threads : st[t] # NoState => keyStates[key[t]] = st[t]
  /\ \A k \in Keys :
       keyStates[k] # NoState => \E t \in Threads : st[t] = keyStates[k] /\ key[t] = k

\* The value a getLocal returns.
Returns(t) == pc[t] = "release" /\ op[t] = "get" /\ ret[t] \in Entry

\* A getLocal called after a Set or Delete was applied never returns a value
\* from before it; the one exception is a reader that singleflight lets join a
\* call whose load has already finished.
ReadsSeeEarlierMutations ==
  \A t \in Threads : Returns(t) /\ ~late[t] => ret[t].mut >= began[t]

\* Entries that entered mainCache before a membership epoch are not returned by
\* a getLocal that verified its ownership in that epoch: prepareLocalOwner's
\* "Old owner-cache entries must never become authoritative again".
OldEntriesNeverServed ==
  \A t \in Threads : Returns(t) /\ ~late[t] => ret[t].written >= ep[t]

\* At most one goroutine of the node is asking the source for a key.
OneSourceLoadPerKey ==
  \A t, u \in Threads :
    pc[t] = "load" /\ pc[u] = "load" /\ key[t] = key[u] => t = u

\* An operation that has started returns: no wait for a singleflight call lasts forever,
\* whatever becomes of the load and of the topology.
OperationsReturn == \A t \in Threads : pc[t] # "idle" ~> pc[t] = "idle"

-----------------------------------------------------------------------------
(* The inductive invariant behind the safety properties.                   *)

Loading == {"load", "recheck", "store"}
Holding == {"probe", "do", "reload", "fly", "mutate", "release"} \cup Loading

\* Where a goroutine is in Do follows from where it is in getLocal.
Positions ==
  \A t \in Threads :
    /\ pc[t] \in {"reload"} \cup Loading <=> at[t] = "run"
    /\ pc[t] = "fly" <=> at[t] \in {"wait", "ran", "forgot", "got"}
    /\ pc[t] \in {"probe", "do", "reload", "fly"} \cup Loading => op[t] = "get"
    /\ pc[t] = "mutate" => op[t] # "get"
    /\ pc[t] \in {"pick", "own"} => Clustered /\ op[t] # "inv"

\* An operation has a key state from acquireKeyState to releaseKeyState.
Holders == \A t \in Threads : st[t] # NoState <=> pc[t] \in Holding

\* A key state is not shared between keys.
StatesApart ==
  \A t, u \in Threads : st[t] = st[u] /\ st[t] # NoState => key[t] = key[u]

\* While the generation is the one a load started with, no mutation of the key
\* has happened since.
LoadsAreCurrent ==
  \A t \in Threads : pc[t] \in Loading =>
    /\ startGen[t] <= gen[st[t]]
    /\ startGen[t] = gen[st[t]] => buf[t].mut = mut[key[t]]

\* Recorded epochs are past or present, entries are no older than ownerEpoch,
\* and before the first adoption nobody can have added one.
EpochsAreOrdered ==
  /\ ownerEpoch <= epoch
  /\ \A t \in Threads :
       /\ ep[t] <= epoch
       /\ pc[t] \in {"idle", "pick"} => ep[t] = 0
       /\ pc[t] = "own" => ep[t] > 0
  /\ \A k \in Keys : CacheGet(k) # NoEntry => CacheGet(k).written >= ownerEpoch
  /\ Clustered /\ ownerEpoch = 0 =>
       /\ main = EmptyCache
       /\ \A t \in Threads : op[t] = "inv" \/ pc[t] \in {"idle", "pick", "own"}

\* An operation that has adopted its epoch can only find entries that entered
\* the cache in that epoch or later.
EntriesAreCurrent ==
  \A t \in Threads : pc[t] \in Holding \cup {"acquire"} =>
    \A k \in Keys : CacheGet(k) # NoEntry => CacheGet(k).written >= ep[t]

\* What t may return without breaking a promise.
GoodFor(t, r) == r \in Entry => r.mut >= began[t] /\ r.written >= ep[t]

\* Everything an operation may still return is good for it.
OutcomesAreGood ==
  \A t \in Threads :
    /\ pc[t] # "idle" => began[t] <= mut[key[t]]
    /\ at[t] \in {"ran", "forgot", "got"} => late[t] \/ GoodFor(t, res[t])
    /\ at[t] = "wait" /\ at[on[t]] \in {"ran", "forgot"} =>
         late[t] \/ GoodFor(t, res[on[t]])
    /\ pc[t] = "release" /\ op[t] = "get" => late[t] \/ GoodFor(t, ret[t])

-----------------------------------------------------------------------------
\* README: a node that lost a key and owns it again must not hit values "left
\* from the previous ownership period".  The value returned in epoch ep[t] was
\* obtained in an epoch since which the node has owned the key throughout.
NoPreviousOwnershipValue ==
  \A t \in Threads :
    Clustered /\ Returns(t) /\ ~late[t] =>
      \A e \in ret[t].asof .. ep[t] : ring[e][key[t]]
=============================================================================
