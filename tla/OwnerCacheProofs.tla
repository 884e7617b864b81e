-------------------------- MODULE OwnerCacheProofs --------------------------
(***************************************************************************)
(* What holds of the owner operations of a group, for any goroutines, keys *)
(* and results: the key states are exact, entries belong to the epoch of   *)
(* the operations that may read them, and what reads return.               *)
(***************************************************************************)
EXTENDS OwnerCacheSteps

-----------------------------------------------------------------------------
(* keyStates: reference counts, and one state per key.                     *)

Held(s) == {u \in Threads : st[u] = s}

KeyStatesInv == KeyStatesExact /\ StatesApart

\* What the lemmas below need of counting goroutines.
Counting ==
  \A S \in SUBSET Threads :
    /\ Cardinality(S) \in Nat
    /\ Cardinality(S) = 0 <=> S = {}
    /\ \A x \in Threads \ S : Cardinality(S \cup {x}) = Cardinality(S) + 1

\* The types key states are about.
LEMMA StateTypes ==
  ASSUME TypeOK
  PROVE  /\ key \in [Threads -> Keys]
         /\ st \in [Threads -> StateIds \cup {NoState}]
         /\ keyStates \in [Keys -> StateIds \cup {NoState}]
         /\ refs \in [StateIds -> Int]
BY Zenon DEF TypeOK

\* How the set of holders of a state changes when one goroutine changes hands.
LEMMA HeldChanges ==
  ASSUME Counting, TypeOK, NEW t \in Threads, NEW x \in StateIds \cup {NoState},
         st' = [st EXCEPT ![t] = x], NEW s \in StateIds
  PROVE  /\ Cardinality(Held(s)) \in Nat
         /\ st[t] # s /\ x = s => Cardinality(Held(s)') = Cardinality(Held(s)) + 1
         /\ st[t] = s /\ x # s => Cardinality(Held(s)') = Cardinality(Held(s)) - 1
         /\ st[t] # s /\ x # s => Held(s)' = Held(s)
<1>t. st \in [Threads -> StateIds \cup {NoState}] BY StateTypes
<1>h. Held(s) \in SUBSET Threads /\ Held(s)' \in SUBSET Threads BY DEF Held
<1>2. Cardinality(Held(s)) \in Nat /\ Cardinality(Held(s)') \in Nat
  BY <1>h DEF Counting
<1>3. ASSUME st[t] # s, x = s
      PROVE  Cardinality(Held(s)') = Cardinality(Held(s)) + 1
  <2>1. Held(s)' = Held(s) \cup {t} BY <1>t, <1>3 DEF Held
  <2>2. t \in Threads \ Held(s) BY <1>3 DEF Held
  <2> QED BY Zenon, <1>h, <2>1, <2>2 DEF Counting
<1>4. ASSUME st[t] = s, x # s
      PROVE  Cardinality(Held(s)') = Cardinality(Held(s)) - 1
  <2>1. Held(s) = Held(s)' \cup {t} BY <1>t, <1>4 DEF Held
  <2>2. t \in Threads \ Held(s)' BY <1>t, <1>4 DEF Held
  <2>3. Cardinality(Held(s)' \cup {t}) = Cardinality(Held(s)') + 1
    BY Zenon, <1>h, <2>2 DEF Counting
  <2>4. Cardinality(Held(s)) = Cardinality(Held(s)') + 1 BY Zenon, <2>1, <2>3
  <2> QED BY <1>2, <2>4
<1>5. ASSUME st[t] # s, x # s PROVE Held(s)' = Held(s)
  BY <1>t, <1>5 DEF Held
<1> QED BY <1>2, <1>3, <1>4, <1>5

\* A single holder is the only one; a holder more than one leaves another.
LEMMA HeldAlone ==
  ASSUME Counting, TypeOK, NEW t \in Threads, NEW s \in StateIds, st[t] = s
  PROVE  /\ Cardinality(Held(s)) = 1 => Held(s) = {t}
         /\ Cardinality(Held(s)) # 1 => \E u \in Threads : u # t /\ st[u] = s
<1> DEFINE H == Held(s) \ {t}
<1>1. H \in SUBSET Threads /\ t \in Threads \ H /\ Held(s) = H \cup {t} BY DEF Held
<1> HIDE DEF H
<1>2. Cardinality(H \cup {t}) = Cardinality(H) + 1 /\ Cardinality(H) \in Nat
  BY Zenon, <1>1 DEF Counting
<1>3. Cardinality(H) = 0 <=> H = {} BY Zenon, <1>1 DEF Counting
<1>4. Cardinality(Held(s)) = 1 <=> H = {} BY <1>1, <1>2, <1>3
<1>5. H = {} => Held(s) = {t} BY <1>1
<1>6. H # {} => \E u \in Threads : u # t /\ st[u] = s BY DEF H, Held
<1> QED BY Zenon, <1>4, <1>5, <1>6

\* The conjuncts of KeyStatesExact and StatesApart, one goroutine or key at a time.
LEMMA KeyStatesFacts ==
  ASSUME KeyStatesInv
  PROVE  /\ \A s \in StateIds : refs[s] = Cardinality(Held(s))
         /\ \A u \in Threads : st[u] # NoState => keyStates[key[u]] = st[u]
         /\ \A k \in Keys : keyStates[k] # NoState =>
              \E u \in Threads : st[u] = keyStates[k] /\ key[u] = k
         /\ \A u, v \in Threads : st[u] = st[v] /\ st[u] # NoState => key[u] = key[v]
BY Zenon DEF KeyStatesInv, KeyStatesExact, StatesApart, Held

LEMMA KeyStatesNext ==
  ASSUME \A s \in StateIds : refs'[s] = Cardinality(Held(s)'),
         \A u \in Threads : st'[u] # NoState => keyStates'[key'[u]] = st'[u],
         \A k \in Keys : keyStates'[k] # NoState =>
           \E u \in Threads : st'[u] = keyStates'[k] /\ key'[u] = k,
         \A u, v \in Threads : st'[u] = st'[v] /\ st'[u] # NoState => key'[u] = key'[v]
  PROVE  KeyStatesInv'
BY Zenon DEF KeyStatesInv, KeyStatesExact, StatesApart, Held

\* Steps that touch neither references nor states; the key of a goroutine
\* changes only while it holds no state.
LEMMA KeyStatesFrame ==
  ASSUME KeyStatesInv, UNCHANGED <<st, keyStates, refs>>,
         \A t \in Threads : st[t] # NoState => key'[t] = key[t]
  PROVE  KeyStatesInv'
<1>1. \A s \in StateIds : refs'[s] = Cardinality(Held(s)')
  <2>1. \A s \in StateIds : Held(s)' = Held(s) BY DEF Held
  <2> QED BY <2>1, KeyStatesFacts
<1>2. \A t \in Threads : st'[t] # NoState => keyStates'[key'[t]] = st'[t]
  BY KeyStatesFacts
<1>3. ASSUME NEW k \in Keys, keyStates'[k] # NoState
      PROVE  \E t \in Threads : st'[t] = keyStates'[k] /\ key'[t] = k
  <2>1. PICK t \in Threads : st[t] = keyStates[k] /\ key[t] = k
    BY <1>3, KeyStatesFacts
  <2> QED BY <1>3, <2>1
<1>4. \A u, v \in Threads : st'[u] = st'[v] /\ st'[u] # NoState => key'[u] = key'[v]
  BY KeyStatesFacts
<1> QED BY <1>1, <1>2, <1>3, <1>4, KeyStatesNext

\* acquireKeyState preserves the reference counts.
LEMMA AcquireKeepsStates ==
  ASSUME Counting, TypeOK, Holders, KeyStatesInv, NEW t \in Threads, AcquireKeyState(t)
  PROVE  KeyStatesInv'
<1> DEFINE k == key[t]
<1>t. /\ key \in [Threads -> Keys] /\ st \in [Threads -> StateIds \cup {NoState}]
      /\ keyStates \in [Keys -> StateIds \cup {NoState}] /\ refs \in [StateIds -> Int]
  BY StateTypes
<1>0. pc[t] = "acquire" /\ key' = key BY Zenon DEF AcquireKeyState, Quiet
<1>1. k \in Keys /\ st[t] = NoState BY <1>t, <1>0 DEF Holders, Holding, Loading
<1>2. PICK s \in StateIds :
        /\ IF keyStates[k] = NoState THEN Free(s) ELSE s = keyStates[k]
        /\ st' = [st EXCEPT ![t] = s]
        /\ keyStates' = [keyStates EXCEPT ![k] = s]
        /\ refs' = [refs EXCEPT ![s] = IF keyStates[k] = NoState THEN 1 ELSE @ + 1]
  BY Zenon DEF AcquireKeyState
<1>4. s # NoState BY Sentinels
<1> HIDE DEF k
<1>5. ASSUME NEW x \in StateIds
      PROVE  refs'[x] = Cardinality(Held(x)')
  <2>1. refs[x] = Cardinality(Held(x)) BY KeyStatesFacts
  <2>2. CASE x # s
    <3>1. st[t] # x BY <1>1, Sentinels
    <3>2. Held(x)' = Held(x) BY Zenon, <1>2, <2>2, <3>1, HeldChanges
    <3> QED BY <1>2, <2>1, <2>2, <3>2, <1>t
  <2>3. CASE x = s
    <3>1. Cardinality(Held(s)') = Cardinality(Held(s)) + 1
      BY Zenon, <1>1, <1>2, <1>4, HeldChanges, Sentinels
    <3>2. CASE keyStates[k] = NoState
      <4>1. Held(s) = {} BY <1>2, <3>2 DEF Held, Free
      <4>2. Cardinality(Held(s)) = 0 BY <4>1 DEF Counting
      <4> QED BY <1>2, <2>3, <3>1, <3>2, <4>2, <1>t
    <3>3. CASE keyStates[k] # NoState
      BY <1>2, <2>1, <2>3, <3>1, <3>3, <1>t
    <3> QED BY <3>2, <3>3
  <2> QED BY <2>2, <2>3
<1>6. ASSUME NEW u \in Threads, st'[u] # NoState
      PROVE  keyStates'[key'[u]] = st'[u]
  <2>1. CASE u = t BY <1>1, <1>2, <1>0, <2>1, <1>t DEF k
  <2>2. CASE u # t
    <3>1. st[u] # NoState /\ keyStates[key[u]] = st[u] /\ st'[u] = st[u]
      BY <1>2, <1>6, <2>2, <1>t, KeyStatesFacts
    <3> QED BY <1>1, <1>2, <1>0, <3>1, <1>t
  <2> QED BY <2>1, <2>2
<1>7. ASSUME NEW j \in Keys, keyStates'[j] # NoState
      PROVE  \E u \in Threads : st'[u] = keyStates'[j] /\ key'[u] = j
  <2>1. CASE j = k BY <1>1, <1>2, <1>0, <2>1, <1>t DEF k
  <2>2. CASE j # k
    <3>1. PICK u \in Threads : st[u] = keyStates[j] /\ key[u] = j
      BY <1>2, <1>7, <2>2, <1>t, KeyStatesFacts
    <3>2. u # t BY <2>2, <3>1 DEF k
    <3> QED BY <1>2, <1>0, <2>2, <3>1, <3>2, <1>t
  <2> QED BY <2>1, <2>2
<1>8. ASSUME NEW u \in Threads, u # t, st[u] = s PROVE key[u] = k
  <2>1. keyStates[k] # NoState BY <1>2, <1>8 DEF Free
  <2>2. PICK v \in Threads : st[v] = keyStates[k] /\ key[v] = k
    BY <1>1, <2>1, KeyStatesFacts
  <2> QED BY <1>2, <1>4, <1>8, <2>1, <2>2, KeyStatesFacts
<1>9. ASSUME NEW u \in Threads, NEW v \in Threads, st'[u] = st'[v], st'[u] # NoState
      PROVE  key'[u] = key'[v]
  <2>1. st'[t] = s /\ \A w \in Threads : w # t => st'[w] = st[w] BY <1>t, <1>2
  <2>2. key[t] = k BY DEF k
  <2>3. CASE u = t \/ v = t BY <1>0, <1>8, <1>9, <2>1, <2>2, <2>3
  <2>4. CASE u # t /\ v # t BY <1>0, <1>9, <2>1, <2>4, KeyStatesFacts
  <2> QED BY <2>3, <2>4
<1> QED BY <1>5, <1>6, <1>7, <1>9, KeyStatesNext

\* releaseKeyState preserves the reference counts.
LEMMA ReleaseKeepsStates ==
  ASSUME Counting, TypeOK, Holders, KeyStatesInv, NEW t \in Threads, ReleaseKeyState(t)
  PROVE  KeyStatesInv'
<1>t. /\ key \in [Threads -> Keys] /\ st \in [Threads -> StateIds \cup {NoState}]
      /\ keyStates \in [Keys -> StateIds \cup {NoState}] /\ refs \in [StateIds -> Int]
  BY StateTypes
<1>p. pc[t] = "release" BY Zenon DEF ReleaseKeyState
<1>0. st[t] \in StateIds BY <1>t, <1>p DEF Holders, Holding
<1>s. PICK s \in StateIds : st[t] = s
  BY <1>0
<1>1. s # NoState /\ key[t] \in Keys /\ keyStates[key[t]] = s
  BY <1>t, <1>s, Sentinels, KeyStatesFacts
<1>2. /\ st' = [st EXCEPT ![t] = NoState]
      /\ refs' = [refs EXCEPT ![s] = @ - 1]
      /\ keyStates' = IF refs[s] = 1 THEN [keyStates EXCEPT ![key[t]] = NoState]
                      ELSE keyStates
      /\ key' = key
  BY <1>s, <1>1 DEF ReleaseKeyState, Forgotten, Unreferenced
<1>3. \A x \in StateIds : refs[x] = Cardinality(Held(x))
  BY KeyStatesFacts
<1>4. ASSUME NEW x \in StateIds PROVE refs'[x] = Cardinality(Held(x)')
  <2>1. CASE x # s
    <3>1. Held(x)' = Held(x) BY Zenon, <1>s, <1>2, <2>1, HeldChanges, Sentinels
    <3> QED BY <1>2, <1>3, <2>1, <3>1, <1>t
  <2>2. CASE x = s
    <3>1. Cardinality(Held(s)') = Cardinality(Held(s)) - 1
      BY Zenon, <1>s, <1>1, <1>2, HeldChanges
    <3> QED BY <1>2, <1>3, <2>2, <3>1, <1>t
  <2> QED BY <2>1, <2>2
<1>5. ASSUME NEW u \in Threads, u # t, st[u] = s PROVE refs[s] # 1
  <2>1. refs[s] = 1 => Held(s) = {t} BY <1>s, <1>1, <1>3, HeldAlone
  <2> QED BY <1>5, <2>1 DEF Held
<1>6. ASSUME NEW u \in Threads, st'[u] # NoState
      PROVE  keyStates'[key'[u]] = st'[u]
  <2>1. u # t /\ st'[u] = st[u] /\ st[u] # NoState BY <1>2, <1>6, <1>t
  <2>2. keyStates[key[u]] = st[u] BY <2>1, KeyStatesFacts
  <2>3. key[u] = key[t] => refs[s] # 1 BY <1>1, <1>5, <2>1, <2>2
  <2> QED BY <1>2, <2>1, <2>2, <2>3, <1>t
<1>7. ASSUME NEW j \in Keys, keyStates'[j] # NoState
      PROVE  \E u \in Threads : st'[u] = keyStates'[j] /\ key'[u] = j
  <2>1. keyStates'[j] = keyStates[j] /\ keyStates[j] # NoState
    BY <1>2, <1>7, <1>t
  <2>2. CASE j = key[t]
    <3>1. refs[s] # 1 BY <1>2, <1>7, <2>2, <1>t
    <3>2. PICK u \in Threads : u # t /\ st[u] = s
      BY <1>s, <1>1, <1>3, <3>1, HeldAlone
    <3>3. key[u] = key[t]
      BY <1>s, <1>1, <3>2, KeyStatesFacts
    <3> QED BY <1>1, <1>2, <2>1, <2>2, <3>2, <3>3, <1>t
  <2>3. CASE j # key[t]
    <3>1. PICK u \in Threads : st[u] = keyStates[j] /\ key[u] = j
      BY <2>1, KeyStatesFacts
    <3> QED BY <1>2, <2>1, <2>3, <3>1, <1>t
  <2> QED BY <2>2, <2>3
<1>8. ASSUME NEW u \in Threads, NEW v \in Threads, st'[u] = st'[v], st'[u] # NoState
      PROVE  key'[u] = key'[v]
  <2>1. u # t /\ v # t /\ st'[u] = st[u] /\ st'[v] = st[v] BY <1>t, <1>2, <1>8
  <2> QED BY <1>2, <1>8, <2>1, KeyStatesFacts
<1> QED BY <1>4, <1>6, <1>7, <1>8, KeyStatesNext

\* KeyStatesInv is inductive.
LEMMA KeyStatesInductive ==
  Counting /\ TypeOK /\ Holders /\ KeyStatesInv /\ [Next]_vars => KeyStatesInv'
<1> SUFFICES ASSUME Counting, TypeOK, Holders, KeyStatesInv, [Next]_vars
             PROVE  KeyStatesInv'
  OBVIOUS
<1>t. key \in [Threads -> Keys] /\ st \in [Threads -> StateIds \cup {NoState}]
  BY StateTypes
<1>f. ASSUME UNCHANGED <<st, keyStates, refs, key>> PROVE KeyStatesInv'
  BY <1>f, KeyStatesFrame
<1>1. ASSUME NEW t \in Threads, NEW k \in Keys, NEW o \in Ops, Start(t, k, o)
      PROVE  KeyStatesInv'
  <2>1. /\ UNCHANGED <<st, keyStates, refs>> /\ pc[t] = "idle"
        /\ key' = [key EXCEPT ![t] = k]
    BY Zenon, <1>1 DEF Start, states
  <2>2. st[t] = NoState BY <2>1 DEF Holders, Holding, Loading
  <2>3. \A u \in Threads : st[u] # NoState => key'[u] = key[u] BY <1>t, <2>1, <2>2
  <2> QED BY <2>1, <2>3, KeyStatesFrame
<1>2. ASSUME NEW t \in Threads, Advance(t) PROVE KeyStatesInv'
  <2>k. key' = key BY <1>2, AdvanceKeepsKey
  <2>s. ASSUME UNCHANGED <<st, keyStates, refs>> PROVE KeyStatesInv' BY <1>f, <2>k, <2>s
  <2>1. CASE PickOwner(t)
    <3>0. /\ pc[t] = "pick" /\ UNCHANGED <<keyStates, refs>>
          /\ st' = st \/ st' = [st EXCEPT ![t] = NoState]
      BY Zenon, <2>1 DEF PickOwner, Forgotten, states
    <3>1. st[t] = NoState BY <3>0 DEF Holders, Holding, Loading
    <3>2. st' = st BY <1>t, <3>0, <3>1
    <3> QED BY <2>s, <3>0, <3>2
  <2>2. CASE AdoptEpoch(t) BY <2>s, <2>2 DEF AdoptEpoch, states
  <2>3. CASE AcquireKeyState(t) BY <2>3, AcquireKeepsStates
  <2>4. CASE ReleaseKeyState(t) BY <2>4, ReleaseKeepsStates
  <2>5. CASE Probe(t) BY <2>s, <2>5 DEF Probe, states
  <2>6. CASE EnterDo(t) BY <2>s, <2>6 DEF EnterDo, states
  <2>7. CASE Reload(t) BY <2>s, <2>7 DEF Reload, states
  <2>8. CASE Load(t) BY <2>s, <2>8 DEF Load, states
  <2>9. CASE Recheck(t) BY <2>s, <2>9 DEF Recheck, states
  <2>10. CASE Store(t) BY <2>s, <2>10 DEF Store, states
  <2>11. CASE Land(t) BY <2>s, <2>11 DEF Land, states
  <2>12. CASE Mutate(t) BY <2>s, <2>12 DEF Mutate
  <2> QED BY Zenon, <1>2, <2>1, <2>2, <2>3, <2>4, <2>5, <2>6, <2>7, <2>8, <2>9, <2>10,
             <2>11, <2>12 DEF Advance
<1>3. ASSUME UNCHANGED Surroundings \/ UNCHANGED vars PROVE KeyStatesInv'
  <2>1. UNCHANGED <<st, keyStates, refs, key>> BY Zenon, <1>3 DEF Surroundings, vars
  <2> QED BY <1>f, <2>1
<1> QED
  BY <1>1, <1>2, <1>3, NextCases DEF Evict, Clear, Close, MembershipChange

LEMMA InitKeyStates == Counting /\ Init => KeyStatesInv
<1> SUFFICES ASSUME Counting, Init PROVE KeyStatesInv
  OBVIOUS
<1>1. \A s \in StateIds : {t \in Threads : st[t] = s} = {}
  BY Sentinels DEF Init
<1>2. \A s \in StateIds : refs[s] = Cardinality({t \in Threads : st[t] = s})
  <2>1. Cardinality({}) = 0 BY Zenon DEF Counting
  <2>2. \A s \in StateIds : refs[s] = 0 BY DEF Init
  <2> QED BY Zenon, <1>1, <2>1, <2>2
<1> QED BY <1>2 DEF Init, KeyStatesInv, KeyStatesExact, StatesApart

LEMMA SoleHolders == Counting /\ TypeOK /\ KeyStatesInv => SoleHolder
<1> SUFFICES ASSUME Counting, TypeOK, KeyStatesInv, NEW t \in Threads, NEW u \in Threads,
                    st[t] = st[u], st[t] # NoState, refs[st[t]] = 1
             PROVE  t = u
  BY DEF SoleHolder
<1>1. PICK s \in StateIds : st[t] = s BY StateTypes
<1>2. Cardinality(Held(s)) = 1 BY <1>1, KeyStatesFacts
<1>3. Held(s) = {t} BY <1>1, <1>2, HeldAlone
<1>4. u \in Held(s) BY Zenon, <1>1 DEF Held
<1> QED BY Zenon, <1>3, <1>4

-----------------------------------------------------------------------------
(* Epochs: entries are not older than the epoch an operation adopted.      *)

InUse == Holding \cup {"acquire"}

\* What EpochInv says of one goroutine, and of the cache.
EpochOf(u) ==
  /\ ep[u] <= epoch
  /\ pc[u] \in {"idle", "pick"} => ep[u] = 0
  /\ pc[u] = "own" => ep[u] > 0
  /\ Clustered /\ ownerEpoch = 0 => op[u] = "inv" \/ pc[u] \in {"idle", "pick", "own"}
  /\ pc[u] \in InUse =>
       \A k \in Keys : CacheGet(k) # NoEntry => CacheGet(k).written >= ep[u]

EpochOfCache ==
  /\ ownerEpoch <= epoch
  /\ \A k \in Keys : CacheGet(k) # NoEntry => CacheGet(k).written >= ownerEpoch
  /\ Clustered /\ ownerEpoch = 0 => main = EmptyCache

LEMMA EpochParts == EpochInv <=> EpochOfCache /\ \A u \in Threads : EpochOf(u)
BY Zenon DEF EpochInv, EpochsAreOrdered, EntriesAreCurrent, EpochOf, EpochOfCache, InUse

LEMMA EpochPartsNext ==
  EpochOfCache' /\ (\A u \in Threads : EpochOf(u)') => EpochInv'
BY Zenon DEF EpochInv, EpochsAreOrdered, EntriesAreCurrent, EpochOf, EpochOfCache, InUse

\* The numbers involved.
LEMMA EpochTypes ==
  ASSUME TypeOK
  PROVE  /\ epoch \in Nat /\ epoch > 0 /\ ownerEpoch \in Nat
         /\ \A u \in Threads : ep[u] \in Nat
         /\ \A k \in Keys : CacheGet(k) # NoEntry => CacheGet(k).written \in Nat
<1>1. \A u \in Threads : ep[u] \in Nat BY OutcomeTypes
<1>2. ASSUME NEW k \in Keys, CacheGet(k) # NoEntry PROVE CacheGet(k).written \in Nat
  <2>1. CacheGet(k) \in Entry BY <1>2, OutcomeTypes DEF CacheGet
  <2> QED BY <2>1, EntryTypes
<1> QED BY <1>1, <1>2, EpochType, OutcomeTypes

\* Every entry after the step was there before or entered in the current epoch.
Refreshed ==
  \A k \in Keys : \/ CacheGet(k)' = CacheGet(k) \/ CacheGet(k)' = NoEntry
                  \/ CacheGet(k)'.written = epoch

LEMMA RefreshedByNothing ==
  ASSUME main' = main \/ main' = EmptyCache, life = "closed" => life' = "closed"
  PROVE  Refreshed
<1>1. CASE main' = main BY <1>1 DEF Refreshed, CacheGet
<1>2. CASE main' = EmptyCache BY <1>2 DEF Refreshed, CacheGet, EmptyCache
<1> QED BY <1>1, <1>2

LEMMA RefreshedBelow ==
  ASSUME TypeOK, Refreshed, NEW n \in Nat, n <= epoch,
         \A k \in Keys : CacheGet(k) # NoEntry => CacheGet(k).written >= n
  PROVE  \A k \in Keys : CacheGet(k)' # NoEntry => CacheGet(k)'.written >= n
BY EpochType DEF Refreshed

\* A goroutine that does not move, or moves on within an operation in use.
LEMMA EpochOfOther ==
  ASSUME TypeOK, EpochInv, NEW u \in Threads, Refreshed,
         ep'[u] = ep[u], op'[u] = op[u],
         pc'[u] = pc[u] \/ (pc[u] \in InUse /\ pc'[u] \in InUse),
         epoch' \in Nat, epoch <= epoch', ownerEpoch' = 0 => ownerEpoch = 0
  PROVE  EpochOf(u)'
<1>0. EpochOf(u) BY EpochParts
<1>1. ep[u] \in Nat /\ epoch \in Nat /\ ep[u] <= epoch BY <1>0, EpochTypes DEF EpochOf
<1>2. ep'[u] <= epoch' BY <1>1
<1>3. InUse \cap {"idle", "pick", "own"} = {} BY DEF InUse, Holding, Loading
<1>4. /\ pc'[u] \in {"idle", "pick"} => ep'[u] = 0
      /\ pc'[u] = "own" => ep'[u] > 0
      /\ Clustered /\ ownerEpoch' = 0 =>
           op'[u] = "inv" \/ pc'[u] \in {"idle", "pick", "own"}
  BY <1>0, <1>3 DEF EpochOf
<1>5. ASSUME pc'[u] \in InUse
      PROVE  \A k \in Keys : CacheGet(k)' # NoEntry => CacheGet(k)'.written >= ep'[u]
  <2>1. \A k \in Keys : CacheGet(k) # NoEntry => CacheGet(k).written >= ep[u]
    BY <1>0, <1>5 DEF EpochOf
  <2> QED BY <1>1, <2>1, RefreshedBelow
<1> QED BY <1>2, <1>4, <1>5 DEF EpochOf

\* The cache, while ownerEpoch stays.
LEMMA EpochOfCacheKept ==
  ASSUME TypeOK, EpochInv, Refreshed, ownerEpoch' = ownerEpoch,
         epoch' \in Nat, epoch <= epoch',
         Clustered /\ ownerEpoch = 0 /\ main = EmptyCache => main' = EmptyCache
  PROVE  EpochOfCache'
<1>0. EpochOfCache BY EpochParts
<1>1. ownerEpoch \in Nat /\ epoch \in Nat /\ ownerEpoch <= epoch
  BY <1>0, EpochTypes DEF EpochOfCache
<1>2. ownerEpoch' <= epoch' BY <1>1
<1>3. \A k \in Keys : CacheGet(k)' # NoEntry => CacheGet(k)'.written >= ownerEpoch'
  BY <1>0, <1>1, RefreshedBelow DEF EpochOfCache
<1> QED BY <1>0, <1>2, <1>3 DEF EpochOfCache

\* EpochInv after a step of t that leaves ownerEpoch alone: the cache, t, the rest.
LEMMA EpochStep ==
  ASSUME TypeOK, EpochInv, NEW t \in Threads, Refreshed,
         UNCHANGED <<epoch, ownerEpoch>>,
         Clustered /\ ownerEpoch = 0 /\ main = EmptyCache => main' = EmptyCache,
         \A u \in Threads : u # t => pc'[u] = pc[u] /\ ep'[u] = ep[u] /\ op'[u] = op[u],
         EpochOf(t)'
  PROVE  EpochInv'
<1>1. epoch' \in Nat /\ epoch <= epoch' BY EpochTypes
<1>2. EpochOfCache' BY <1>1, EpochOfCacheKept
<1>3. ASSUME NEW u \in Threads PROVE EpochOf(u)'
  <2>1. CASE u # t BY <1>1, <2>1, EpochOfOther
  <2> QED BY <2>1
<1> QED BY <1>2, <1>3, EpochPartsNext

LEMMA StartEpochs ==
  ASSUME TypeOK, TypeOK', EpochInv,
         NEW t \in Threads, NEW k \in Keys, NEW o \in Ops, Start(t, k, o)
  PROVE  EpochInv'
<1>1. /\ pc[t] = "idle" /\ op' = [op EXCEPT ![t] = o]
      /\ Goto(t, IF Clustered /\ o # "inv" THEN "pick" ELSE "acquire")
      /\ UNCHANGED <<epoch, ownerEpoch, ep, main, life>>
  BY Zenon DEF Start, picker
<1>2. ep'[t] = 0 /\ \A u \in Threads : u # t => ep'[u] = ep[u]
  BY <1>1, EpochParts DEF EpochOf
<1>3. op'[t] = o /\ \A u \in Threads : u # t => op'[u] = op[u]
  BY <1>1, OutcomeTypes
<1>4. /\ pc'[t] = IF Clustered /\ o # "inv" THEN "pick" ELSE "acquire"
      /\ \A u \in Threads : u # t => pc'[u] = pc[u]
  BY <1>1, GotoMoves
<1>5. /\ epoch' \in Nat
      /\ \A j \in Keys : CacheGet(j)' # NoEntry => CacheGet(j)'.written \in Nat
  BY <1>1, EpochTypes DEF CacheGet
<1>6. EpochOf(t)' BY <1>2, <1>3, <1>4, <1>5 DEF EpochOf
<1>7. Refreshed BY <1>1, RefreshedByNothing
<1> QED BY <1>1, <1>2, <1>3, <1>4, <1>6, <1>7, EpochStep

\* An operation that returns, or that ErrNotOwner ends.
LEMMA EpochsForgotten ==
  ASSUME TypeOK, EpochInv, NEW t \in Threads, Goto(t, "idle"), Forgotten(t),
         UNCHANGED <<epoch, ownerEpoch, main, life>>
  PROVE  EpochInv'
<1>1. pc'[t] = "idle" /\ \A u \in Threads : u # t => pc'[u] = pc[u] BY GotoMoves
<1>2. ep' = [ep EXCEPT ![t] = 0] /\ op' = [op EXCEPT ![t] = "get"]
  BY Zenon DEF Forgotten
<1>3. ep'[t] = 0 /\ \A u \in Threads : u # t => ep'[u] = ep[u]
  BY <1>2, OutcomeTypes
<1>4. \A u \in Threads : u # t => op'[u] = op[u]
  BY <1>2, OutcomeTypes
<1>5. epoch' \in Nat BY EpochTypes
<1>6. EpochOf(t)' BY <1>1, <1>3, <1>5 DEF EpochOf, InUse, Holding, Loading
<1>7. Refreshed BY RefreshedByNothing
<1> QED BY <1>1, <1>3, <1>4, <1>6, <1>7, EpochStep

LEMMA PickOwnerEpochs ==
  ASSUME TypeOK, EpochInv, NEW t \in Threads, PickOwner(t)
  PROVE  EpochInv'
<1>1. /\ UNCHANGED <<epoch, ownerEpoch, main, life>>
      /\ \/ Goto(t, "own") /\ ep' = [ep EXCEPT ![t] = epoch] /\ op' = op
         \/ Goto(t, "idle") /\ Forgotten(t)
  BY Zenon DEF PickOwner, picker
<1>2. CASE Goto(t, "idle") /\ Forgotten(t) BY <1>1, <1>2, EpochsForgotten
<1>3. CASE Goto(t, "own") /\ ep' = [ep EXCEPT ![t] = epoch] /\ op' = op
  <2>1. pc'[t] = "own" /\ \A u \in Threads : u # t => pc'[u] = pc[u]
    BY <1>3, GotoMoves
  <2>2. ep'[t] = epoch /\ \A u \in Threads : u # t => ep'[u] = ep[u]
    BY <1>3, OutcomeTypes
  <2>3. epoch' \in Nat /\ epoch' > 0 BY <1>1, EpochTypes
  <2>4. EpochOf(t)' BY <1>1, <2>1, <2>2, <2>3 DEF EpochOf, InUse, Holding, Loading
  <2>5. Refreshed BY <1>1, RefreshedByNothing
  <2> QED BY <1>1, <1>3, <2>1, <2>2, <2>4, <2>5, EpochStep
<1> QED BY <1>1, <1>2, <1>3

LEMMA AdoptEpochs ==
  ASSUME TypeOK, Positions, EpochInv, NEW t \in Threads, AdoptEpoch(t)
  PROVE  EpochInv'
<1>1. /\ pc[t] = "own" /\ Goto(t, "acquire") /\ ownerEpoch' = ep[t]
      /\ main' = IF Outdated(ep[t]) THEN CacheClear ELSE main
      /\ UNCHANGED <<epoch, ep, op, life>>
  BY Zenon DEF AdoptEpoch, Quiet, picker
<1>2. EpochOf(t) /\ EpochOfCache BY EpochParts
<1>3. Clustered /\ ep[t] > 0 /\ ep[t] <= epoch /\ ep[t] \in Nat
  BY <1>1, <1>2, EpochTypes DEF Positions, EpochOf
<1>4. ASSUME NEW k \in Keys, CacheGet(k)' # NoEntry
      PROVE  CacheGet(k)'.written >= ep[t]
  <2>1. CASE Outdated(ep[t])
    BY <1>1, <1>4, <2>1 DEF CacheGet, CacheClear, EmptyCache
  <2>2. CASE ~Outdated(ep[t])
    <3>1. CacheGet(k)' = CacheGet(k) BY <1>1, <2>2 DEF CacheGet
    <3>2. ownerEpoch # 0
      BY <1>2, <1>3, <1>4, <3>1 DEF EpochOfCache, CacheGet, EmptyCache
    <3>3. ownerEpoch = ep[t] BY <2>2, <3>2 DEF Outdated
    <3> QED BY <1>2, <1>4, <3>1, <3>3 DEF EpochOfCache
  <2> QED BY <2>1, <2>2
<1>5. Refreshed
  <2>1. main' = main \/ main' = EmptyCache BY <1>1 DEF CacheClear
  <2> QED BY <1>1, <2>1, RefreshedByNothing
<1>6. pc'[t] = "acquire" /\ \A u \in Threads : u # t => pc'[u] = pc[u]
  BY <1>1, GotoMoves
<1>7. EpochOfCache' BY <1>1, <1>3, <1>4 DEF EpochOfCache
<1>8. ASSUME NEW u \in Threads PROVE EpochOf(u)'
  <2>1. CASE u = t
    BY <1>1, <1>3, <1>4, <1>6, <2>1 DEF EpochOf
  <2>2. CASE u # t
    <3>1. epoch' \in Nat /\ epoch <= epoch' /\ ownerEpoch' # 0
      BY <1>1, <1>3, EpochTypes
    <3> QED BY <1>1, <1>5, <1>6, <2>2, <3>1, EpochOfOther
  <2> QED BY <2>1, <2>2
<1> QED BY <1>7, <1>8, EpochPartsNext

\* A step within an operation that has adopted its epoch, and that adds at most
\* an entry of the current one.
LEMMA InUseEpochs ==
  ASSUME TypeOK, EpochInv, NEW t \in Threads, Refreshed,
         Clustered /\ ownerEpoch = 0 /\ main = EmptyCache => main' = EmptyCache,
         UNCHANGED <<epoch, ownerEpoch, op, ep>>, pc[t] \in InUse,
         pc' = pc \/ \E l \in InUse : Goto(t, l)
  PROVE  EpochInv'
<1>1. pc'[t] \in InUse /\ \A u \in Threads : u # t => pc'[u] = pc[u] BY GotoMoves
<1>2. epoch' \in Nat /\ epoch <= epoch' BY EpochTypes
<1>3. EpochOf(t)' BY <1>1, <1>2, EpochOfOther
<1> QED BY <1>1, <1>3, EpochStep

LEMMA QuietEpochs ==
  ASSUME TypeOK, EpochInv, NEW t \in Threads,
         AcquireKeyState(t) \/ Probe(t) \/ EnterDo(t) \/ Reload(t) \/ Load(t)
           \/ Recheck(t) \/ Land(t)
  PROVE  EpochInv'
<1> DEFINE Kept == UNCHANGED <<epoch, ownerEpoch, op, ep, main, life>>
           Moves == pc' = pc \/ \E l \in Holding : Goto(t, l)
<1>1. Kept /\ pc[t] \in InUse /\ Moves
  <2> USE DEF InUse, Holding, Loading
  <2>1. CASE AcquireKeyState(t)
    BY Zenon, <2>1 DEF AcquireKeyState, Quiet, picker
  <2>2. CASE Probe(t) BY Zenon, <2>2 DEF Probe, Quiet, picker
  <2>3. CASE EnterDo(t) BY Zenon, <2>3 DEF EnterDo, picker
  <2>4. CASE Reload(t) BY Zenon, <2>4 DEF Reload, FnReturns, Quiet, picker
  <2>5. CASE Load(t) BY <2>5 DEF Load, FnReturns, Quiet, picker
  <2>6. CASE Recheck(t) BY <2>6 DEF Recheck, FnReturns, Quiet, picker
  <2>7. CASE Land(t) BY <2>7 DEF Land, Quiet, picker
  <2> HIDE DEF Kept, Moves
  <2> QED BY Zenon, <2>1, <2>2, <2>3, <2>4, <2>5, <2>6, <2>7
<1>2. Refreshed BY <1>1, RefreshedByNothing
<1>3. pc' = pc \/ \E l \in InUse : Goto(t, l) BY <1>1 DEF InUse
<1> QED BY <1>1, <1>2, <1>3, InUseEpochs

\* What enters the cache enters it in the current epoch.
LEMMA AddedRefreshes ==
  ASSUME TypeOK, NEW k \in Keys, NEW e, e = NoEntry \/ e.written = epoch,
         main' = CacheAdd(k, e), life' = life
  PROVE  Refreshed
BY OutcomeTypes DEF Refreshed, CacheGet, CacheAdd

LEMMA StoreEpochs ==
  ASSUME TypeOK, Positions, EpochInv, NEW t \in Threads, Store(t)
  PROVE  EpochInv'
<1> DEFINE e == EntryOf(buf[t].mut, buf[t].asof, epoch)
<1>1. /\ pc[t] = "store" /\ Goto(t, "fly")
      /\ UNCHANGED <<epoch, ownerEpoch, op, ep, life>>
      /\ main' = main \/ main' = CacheAdd(key[t], e)
  BY Zenon DEF Store, FnReturns, Quiet, picker
<1>2. e.written = epoch BY DEF EntryOf
<1> HIDE DEF e
<1>3. key[t] \in Keys BY OutcomeTypes
<1>4. Refreshed BY <1>1, <1>2, <1>3, RefreshedByNothing, AddedRefreshes
<1>5. op[t] = "get" BY <1>1 DEF Positions, Loading
<1>6. ~(Clustered /\ ownerEpoch = 0) BY <1>1, <1>5, EpochParts DEF EpochOf
<1>7. pc[t] \in InUse /\ "fly" \in InUse BY <1>1 DEF InUse, Holding, Loading
<1> QED BY <1>1, <1>4, <1>6, <1>7, InUseEpochs

LEMMA MutateEpochs ==
  ASSUME TypeOK, EpochInv, NEW t \in Threads, Mutate(t)
  PROVE  EpochInv'
<1> DEFINE e == EntryOf(mut[key[t]] + 1, epoch, epoch)
<1>1. /\ pc[t] = "mutate" /\ Goto(t, "release")
      /\ UNCHANGED <<epoch, ownerEpoch, op, ep, life>>
      /\ \/ main' = CacheAdd(key[t], NoEntry)
         \/ main' = CacheAdd(key[t], e) /\ op[t] = "set"
  BY DEF Mutate, picker, CacheDelete
<1>2. e.written = epoch BY DEF EntryOf
<1> HIDE DEF e
<1>3. key[t] \in Keys BY OutcomeTypes
<1>4. Refreshed BY <1>1, <1>2, <1>3, AddedRefreshes
<1>5. ASSUME Clustered, ownerEpoch = 0, main = EmptyCache PROVE main' = EmptyCache
  <2>1. op[t] = "inv" BY <1>1, <1>5, EpochParts DEF EpochOf
  <2> QED BY <1>1, <1>5, <2>1 DEF CacheAdd, EmptyCache
<1>6. pc[t] \in InUse /\ "release" \in InUse BY <1>1 DEF InUse, Holding, Loading
<1> QED BY <1>1, <1>4, <1>5, <1>6, InUseEpochs

\* The surroundings: the cache only shrinks, the epoch only grows.
LEMMA SurroundingsEpochs ==
  ASSUME TypeOK, EpochInv, UNCHANGED <<ownerEpoch, op, ep, pc>>, Refreshed,
         epoch' \in Nat, epoch <= epoch', main = EmptyCache => main' = EmptyCache
  PROVE  EpochInv'
<1>1. EpochOfCache' BY EpochOfCacheKept
<1>2. ASSUME NEW u \in Threads PROVE EpochOf(u)' BY EpochOfOther
<1> QED BY <1>1, <1>2, EpochPartsNext

\* EpochInv is inductive.
LEMMA EpochInductive ==
  TypeOK /\ TypeOK' /\ Positions /\ EpochInv /\ [Next]_vars => EpochInv'
<1> SUFFICES ASSUME TypeOK, TypeOK', Positions, EpochInv, [Next]_vars
             PROVE  EpochInv'
  OBVIOUS
<1>1. ASSUME NEW t \in Threads, NEW k \in Keys, NEW o \in Ops, Start(t, k, o)
      PROVE  EpochInv'
  BY <1>1, StartEpochs
<1>2. ASSUME NEW t \in Threads, Advance(t) PROVE EpochInv'
  <2>1. CASE PickOwner(t) BY <2>1, PickOwnerEpochs
  <2>2. CASE AdoptEpoch(t) BY <2>2, AdoptEpochs
  <2>3. CASE ReleaseKeyState(t)
    <3>1. UNCHANGED <<epoch, ownerEpoch, main, life>> /\ Goto(t, "idle") /\ Forgotten(t)
      BY Zenon, <2>3 DEF ReleaseKeyState, picker
    <3> QED BY <3>1, EpochsForgotten
  <2>4. CASE AcquireKeyState(t) \/ Probe(t) \/ EnterDo(t) \/ Reload(t) \/ Load(t)
             \/ Recheck(t) \/ Land(t)
    BY <2>4, QuietEpochs
  <2>5. CASE Store(t) BY <2>5, StoreEpochs
  <2>6. CASE Mutate(t) BY <2>6, MutateEpochs
  <2> QED BY Zenon, <1>2, <2>1, <2>2, <2>3, <2>4, <2>5, <2>6 DEF Advance
<1>3. epoch \in Nat BY EpochType
<1>4. ASSUME NEW k \in Keys, Evict(k) PROVE EpochInv'
  <2>1. /\ main' = [main EXCEPT ![k] = NoEntry] /\ main # EmptyCache
        /\ UNCHANGED <<ownerEpoch, op, ep, pc, epoch, life>>
    BY <1>4 DEF Evict, Surroundings, EmptyCache
  <2>3. Refreshed BY <2>1, OutcomeTypes DEF Refreshed, CacheGet
  <2> QED BY <1>3, <2>1, <2>3, SurroundingsEpochs
<1>5. ASSUME Clear \/ Close \/ MembershipChange \/ UNCHANGED vars PROVE EpochInv'
  <2>1. /\ UNCHANGED <<ownerEpoch, op, ep, pc>>
        /\ main' = main \/ main' = EmptyCache
        /\ epoch' = epoch \/ epoch' = epoch + 1
        /\ life = "closed" => life' = "closed"
    BY <1>5 DEF Clear, Close, MembershipChange, Surroundings, vars, picker
  <2>2. epoch' \in Nat /\ epoch <= epoch' BY <1>3, <2>1
  <2>3. Refreshed BY <2>1, RefreshedByNothing
  <2> QED BY <2>1, <2>2, <2>3, SurroundingsEpochs
<1> QED BY <1>1, <1>2, <1>4, <1>5, NextCases

LEMMA InitEpochs == Init => EpochInv
BY DEF Init, EpochInv, EpochsAreOrdered, EntriesAreCurrent, CacheGet, EmptyCache,
       Holding, Loading

-----------------------------------------------------------------------------
(* What a step of any goroutine does to what the operations in progress may still
   return: OutcomesAreGood is inductive. *)

\* What mainCache has for the key of an operation in progress is good for it.
LEMMA HitIsGood ==
  ASSUME TypeOK, NoStaleFill, EpochInv, OutcomesAreGood, NEW t \in Threads,
         pc[t] \in Holding, CacheGet(key[t]) # NoEntry
  PROVE  GoodFor(t, CacheGet(key[t]))
<1>1. key[t] \in Keys BY OutcomeTypes
<1>2. pc[t] # "idle" BY DEF Holding, Loading
<1>3. CacheGet(key[t]).mut >= began[t]
  BY <1>1, <1>2, OutcomeTypes DEF NoStaleFill, OutcomesAreGood
<1>4. CacheGet(key[t]).written >= ep[t]
  BY <1>1 DEF EpochInv, EntriesAreCurrent
<1> QED BY <1>3, <1>4 DEF GoodFor

\* What OutcomesAreGood says of u, after a step in which GoodFor(u, _) did not
\* change.
OutcomeKept(u) ==
  /\ pc'[u] # "idle" => began'[u] <= mut'[key'[u]]
  /\ at'[u] \in {"ran", "forgot", "got"} => late'[u] \/ GoodFor(u, res'[u])
  /\ at'[u] = "wait" /\ at'[on'[u]] \in {"ran", "forgot"} =>
       late'[u] \/ GoodFor(u, res'[on'[u]])
  /\ pc'[u] = "release" /\ op'[u] = "get" => late'[u] \/ GoodFor(u, ret'[u])

LEMMA OutcomesKept ==
  ASSUME UNCHANGED <<began, ep>>, \A u \in Threads : OutcomeKept(u)
  PROVE  OutcomesAreGood'
<1>1. \A u \in Threads : \A r : GoodFor(u, r) =>
        (r \in Entry => r.mut >= began'[u] /\ r.written >= ep'[u])
  BY DEF GoodFor
<1> QED BY <1>1 DEF OutcomesAreGood, OutcomeKept, GoodFor

\* A goroutine that waits does so on another one, which is inside Do.
LEMMA WaitsOnAnother ==
  ASSUME SF!CallsInv, NEW u \in Threads, at[u] = "wait"
  PROVE  /\ on[u] \in Threads /\ at[on[u]] \in {"run", "ran", "forgot"}
         /\ key[on[u]] = key[u]
BY DEF SF!CallsInv, SF!NoOrphanWaiter

LEMMA Transitive ==
  ASSUME NEW a \in Nat, NEW b \in Nat, NEW c \in Nat, a <= b, b <= c
  PROVE  a <= c
OBVIOUS

\* A step of t leaves what the other operations know alone.
OthersKeep(t) ==
  \A u \in Threads : u # t =>
    /\ pc'[u] = pc[u] /\ op'[u] = op[u] /\ ep'[u] = ep[u] /\ ret'[u] = ret[u]
    /\ began'[u] = began[u] /\ late'[u] = late[u] /\ key'[u] = key[u]

\* A step of t outside the loader.
LEMMA OutcomesFrame ==
  ASSUME TypeOK, OutcomesAreGood, UNCHANGED loader, NEW t \in Threads,
         OthersKeep(t),
         \A k \in Keys : mut[k] <= mut'[k] /\ mut'[k] \in Nat,
         at[t] = "out",
         pc'[t] # "idle" => began'[t] <= mut'[key'[t]],
         pc'[t] = "release" /\ op'[t] = "get" => late'[t] \/ GoodFor(t, ret[t])'
  PROVE  OutcomesAreGood'
<1>1. m' = m /\ at' = at /\ on' = on /\ res' = res BY DEF loader
<1> SUFFICES ASSUME NEW u \in Threads, u # t
             PROVE  /\ pc'[u] # "idle" => began'[u] <= mut'[key'[u]]
                    /\ at'[u] \in {"ran", "forgot", "got"} =>
                         late'[u] \/ GoodFor(u, res[u])'
                    /\ at'[u] = "wait" /\ at'[on'[u]] \in {"ran", "forgot"} =>
                         late'[u] \/ GoodFor(u, res[on[u]])'
                    /\ pc'[u] = "release" /\ op'[u] = "get" =>
                         late'[u] \/ GoodFor(u, ret[u])'
  BY <1>1 DEF OutcomesAreGood
<1>2. /\ pc'[u] = pc[u] /\ op'[u] = op[u] /\ ep'[u] = ep[u] /\ ret'[u] = ret[u]
      /\ began'[u] = began[u] /\ late'[u] = late[u] /\ key'[u] = key[u]
  BY DEF OthersKeep
<1>3. ASSUME pc[u] # "idle" PROVE began'[u] <= mut'[key'[u]]
  <2>1. began[u] <= mut[key[u]] BY <1>3 DEF OutcomesAreGood
  <2>2. key[u] \in Keys /\ began[u] \in Nat /\ mut[key[u]] \in Nat BY OutcomeTypes
  <2>3. mut[key[u]] <= mut'[key[u]] /\ mut'[key[u]] \in Nat BY <2>2
  <2>4. began[u] <= mut'[key[u]] BY <2>1, <2>2, <2>3, Transitive
  <2> QED BY <1>2, <2>4
<1>4. ASSUME at[u] \in {"ran", "forgot", "got"} PROVE late[u] \/ GoodFor(u, res[u])'
  <2>1. late[u] \/ GoodFor(u, res[u]) BY <1>4 DEF OutcomesAreGood
  <2> QED BY <1>1, <1>2, <2>1 DEF GoodFor
<1>5. ASSUME at[u] = "wait", at[on[u]] \in {"ran", "forgot"}
      PROVE  late[u] \/ GoodFor(u, res[on[u]])'
  <2>1. late[u] \/ GoodFor(u, res[on[u]]) BY <1>5 DEF OutcomesAreGood
  <2> QED BY <1>1, <1>2, <2>1 DEF GoodFor
<1>6. ASSUME pc[u] = "release", op[u] = "get" PROVE late[u] \/ GoodFor(u, ret[u])'
  <2>1. late[u] \/ GoodFor(u, ret[u]) BY <1>6 DEF OutcomesAreGood
  <2> QED BY <1>2, <2>1 DEF GoodFor
<1> QED BY <1>1, <1>2, <1>3, <1>4, <1>5, <1>6

-----------------------------------------------------------------------------
LEMMA MutUnchanged ==
  ASSUME TypeOK, mut' = mut
  PROVE  \A k \in Keys : mut[k] <= mut'[k] /\ mut'[k] \in Nat
BY OutcomeTypes

\* The steps outside Do, one by one.
LEMMA StartOutcome ==
  ASSUME TypeOK, Positions, OutcomesAreGood,
         NEW t \in Threads, NEW k \in Keys, NEW o \in Ops, Start(t, k, o)
  PROVE  OutcomesAreGood'
<1>1. /\ pc[t] = "idle" /\ UNCHANGED <<loader, ep, ret, mut, late>>
      /\ key' = [key EXCEPT ![t] = k] /\ op' = [op EXCEPT ![t] = o]
      /\ began' = [began EXCEPT ![t] = mut[k]]
      /\ Goto(t, "pick") \/ Goto(t, "acquire")
  BY DEF Start
<1>2. at[t] = "out" BY <1>1, OutsideDo DEF Loading
<1>3. pc'[t] # "release" /\ \A u \in Threads : u # t => pc'[u] = pc[u]
  <2>1. ASSUME NEW l, l # "release", Goto(t, l)
        PROVE  pc'[t] # "release" /\ \A u \in Threads : u # t => pc'[u] = pc[u]
    <3>1. pc'[t] = l /\ \A u \in Threads : u # t => pc'[u] = pc[u] BY <2>1, GotoMoves
    <3> QED BY <2>1, <3>1
  <2> QED BY <1>1, <2>1
<1>4. /\ key'[t] = k /\ began'[t] = mut[k]
      /\ \A u \in Threads : u # t => key'[u] = key[u] /\ began'[u] = began[u]
  BY <1>1, OutcomeTypes
<1>5. \A u \in Threads : u # t => op'[u] = op[u] BY <1>1 DEF TypeOK
<1>6. OthersKeep(t) BY <1>1, <1>3, <1>4, <1>5 DEF OthersKeep
<1>7. UNCHANGED loader /\ mut' = mut BY <1>1
<1>8. \A j \in Keys : mut[j] <= mut'[j] /\ mut'[j] \in Nat BY Zenon, <1>7, MutUnchanged
<1>9. began'[t] <= mut'[key'[t]] BY <1>4, <1>7, <1>8
<1> QED BY Zenon, <1>2, <1>3, <1>6, <1>7, <1>8, <1>9, OutcomesFrame

LEMMA PickOwnerOutcome ==
  ASSUME TypeOK, Positions, OutcomesAreGood, NEW t \in Threads, PickOwner(t)
  PROVE  OutcomesAreGood'
<1>1. /\ pc[t] = "pick" /\ UNCHANGED loader /\ key' = key /\ mut' = mut
      /\ \/ Goto(t, "own") /\ UNCHANGED <<op, ret, began, late>>
            /\ ep' = [ep EXCEPT ![t] = epoch]
         \/ Goto(t, "idle") /\ Forgotten(t)
  BY DEF PickOwner
<1>2. at[t] = "out" BY <1>1, OutsideDo DEF Loading
<1>3. began[t] <= mut[key[t]] BY <1>1 DEF OutcomesAreGood
<1>4. \A j \in Keys : mut[j] <= mut'[j] /\ mut'[j] \in Nat BY Zenon, <1>1, MutUnchanged
<1>5. CASE Goto(t, "own") /\ UNCHANGED <<op, ret, began, late>>
             /\ ep' = [ep EXCEPT ![t] = epoch]
  <2>1. pc'[t] = "own" /\ \A u \in Threads : u # t => pc'[u] = pc[u]
    BY <1>5, GotoMoves
  <2>2. \A u \in Threads : u # t => ep'[u] = ep[u] BY <1>5, OutcomeTypes
  <2>3. OthersKeep(t) BY <1>1, <1>5, <2>1, <2>2 DEF OthersKeep
  <2>4. began'[t] <= mut'[key'[t]] BY Zenon, <1>1, <1>3, <1>5
  <2>5. pc'[t] # "release" BY <2>1
  <2> QED BY Zenon, <1>1, <1>2, <1>4, <2>3, <2>4, <2>5, OutcomesFrame
<1>6. CASE Goto(t, "idle") /\ Forgotten(t)
  <2>1. pc'[t] = "idle" /\ \A u \in Threads : u # t => pc'[u] = pc[u]
    BY <1>6, GotoMoves
  <2>2. OthersKeep(t) BY <1>1, <1>6, <2>1, ForgottenMoves DEF OthersKeep
  <2>3. pc'[t] # "release" BY <2>1
  <2> QED BY Zenon, <1>1, <1>2, <1>4, <2>1, <2>2, <2>3, OutcomesFrame
<1> QED BY <1>1, <1>5, <1>6

LEMMA ReleaseOutcome ==
  ASSUME TypeOK, Positions, OutcomesAreGood, NEW t \in Threads, ReleaseKeyState(t)
  PROVE  OutcomesAreGood'
<1>1. /\ pc[t] = "release" /\ UNCHANGED loader /\ key' = key /\ mut' = mut
      /\ Goto(t, "idle") /\ Forgotten(t)
  BY DEF ReleaseKeyState
<1>2. at[t] = "out" BY <1>1, OutsideDo DEF Loading
<1>3. pc'[t] = "idle" /\ \A u \in Threads : u # t => pc'[u] = pc[u]
  BY <1>1, GotoMoves
<1>4. OthersKeep(t) BY <1>1, <1>3, ForgottenMoves DEF OthersKeep
<1>5. \A j \in Keys : mut[j] <= mut'[j] /\ mut'[j] \in Nat BY Zenon, <1>1, MutUnchanged
<1>6. pc'[t] # "release" BY <1>3
<1> QED BY Zenon, <1>1, <1>2, <1>3, <1>4, <1>5, <1>6, OutcomesFrame

LEMMA AdoptOutcome ==
  ASSUME TypeOK, Positions, OutcomesAreGood, NEW t \in Threads,
         AdoptEpoch(t) \/ AcquireKeyState(t)
  PROVE  OutcomesAreGood'
<1>1. /\ pc[t] \in {"own", "acquire"}
      /\ \E l \in {"acquire", "probe", "mutate"} : Goto(t, l)
      /\ UNCHANGED loader /\ UNCHANGED <<key, op, ep, ret, mut, began, late>>
  BY DEF AdoptEpoch, AcquireKeyState, Quiet, history
<1>2. at[t] = "out" BY <1>1, OutsideDo DEF Loading
<1>3. pc'[t] # "release" /\ \A u \in Threads : u # t => pc'[u] = pc[u]
  BY <1>1, GotoMoves
<1>4. OthersKeep(t) BY <1>1, <1>3 DEF OthersKeep
<1>5. began[t] <= mut[key[t]] BY <1>1 DEF OutcomesAreGood
<1>6. UNCHANGED loader /\ mut' = mut /\ key' = key /\ began' = began BY <1>1
<1>7. \A j \in Keys : mut[j] <= mut'[j] /\ mut'[j] \in Nat BY Zenon, <1>6, MutUnchanged
<1>8. began'[t] <= mut'[key'[t]] BY Zenon, <1>5, <1>6
<1> QED BY Zenon, <1>2, <1>3, <1>4, <1>6, <1>7, <1>8, OutcomesFrame

LEMMA ProbeOutcome ==
  ASSUME TypeOK, Positions, NoStaleFill, EpochInv, OutcomesAreGood,
         NEW t \in Threads, Probe(t)
  PROVE  OutcomesAreGood'
<1> DEFINE hit == CacheGet(key[t])
<1>1. /\ pc[t] = "probe"
      /\ UNCHANGED loader /\ UNCHANGED <<key, op, ep, mut, began, late>>
      /\ \/ Goto(t, "do") /\ ret' = ret
         \/ /\ Goto(t, "release")
            /\ \/ ret' = [ret EXCEPT ![t] = hit] /\ hit # NoEntry
               \/ ret' = [ret EXCEPT ![t] = ErrCacheMiss]
  BY DEF Probe, Quiet, history
<1>2. at[t] = "out" BY <1>1, OutsideDo DEF Loading
<1>3. hit # NoEntry => GoodFor(t, hit) BY <1>1, HitIsGood DEF Holding
<1> HIDE DEF hit
<1>4. \A u \in Threads : u # t => pc'[u] = pc[u] BY <1>1, GotoMoves
<1>5. /\ ret' = ret \/ ret'[t] = ErrCacheMiss \/ (ret'[t] = hit /\ hit # NoEntry)
      /\ \A u \in Threads : u # t => ret'[u] = ret[u]
  BY <1>1 DEF TypeOK
<1>6. pc'[t] = "release" =>
        ret'[t] = ErrCacheMiss \/ (ret'[t] = hit /\ hit # NoEntry)
  <2>1. CASE Goto(t, "do") BY <2>1, GotoMoves
  <2>2. CASE \/ ret' = [ret EXCEPT ![t] = hit] /\ hit # NoEntry
             \/ ret' = [ret EXCEPT ![t] = ErrCacheMiss]
    BY <2>2 DEF TypeOK
  <2> QED BY <1>1, <2>1, <2>2
<1>7. pc'[t] = "release" => GoodFor(t, ret[t])'
  BY <1>1, <1>3, <1>6, Sentinels DEF GoodFor
<1>8. OthersKeep(t) BY <1>1, <1>4, <1>5 DEF OthersKeep
<1>9. began[t] <= mut[key[t]] BY <1>1 DEF OutcomesAreGood
<1>10. UNCHANGED loader /\ mut' = mut /\ key' = key /\ began' = began BY <1>1
<1>11. \A j \in Keys : mut[j] <= mut'[j] /\ mut'[j] \in Nat BY Zenon, <1>10, MutUnchanged
<1>12. began'[t] <= mut'[key'[t]] BY Zenon, <1>9, <1>10
<1> QED BY Zenon, <1>2, <1>7, <1>8, <1>10, <1>11, <1>12, OutcomesFrame

LEMMA MutateOutcome ==
  ASSUME TypeOK, Positions, OutcomesAreGood, NEW t \in Threads, Mutate(t)
  PROVE  OutcomesAreGood'
<1>1. /\ pc[t] = "mutate" /\ Goto(t, "release") /\ UNCHANGED loader
      /\ UNCHANGED <<key, op, ep, ret, began, late>>
      /\ mut' = [mut EXCEPT ![key[t]] = @ + 1]
  BY DEF Mutate
<1>2. at[t] = "out" BY <1>1, OutsideDo DEF Loading
<1>3. op'[t] # "get" BY <1>1 DEF Positions
<1>4. \A u \in Threads : u # t => pc'[u] = pc[u] BY <1>1, GotoMoves
<1>5. OthersKeep(t) BY <1>1, <1>4 DEF OthersKeep
<1>6. \A k \in Keys : mut[k] <= mut'[k] /\ mut'[k] \in Nat BY <1>1, OutcomeTypes
<1>7. began[t] <= mut'[key[t]]
  <2>1. began[t] <= mut[key[t]] BY <1>1 DEF OutcomesAreGood
  <2>2. key[t] \in Keys /\ began[t] \in Nat /\ mut[key[t]] \in Nat BY OutcomeTypes
  <2> QED BY <1>6, <2>1, <2>2, Transitive
<1>8. UNCHANGED loader /\ key' = key /\ began' = began BY <1>1
<1>9. began'[t] <= mut'[key'[t]] BY Zenon, <1>7, <1>8
<1> QED BY Zenon, <1>2, <1>3, <1>5, <1>6, <1>8, <1>9, OutcomesFrame

-----------------------------------------------------------------------------
\* The steps of Do.
LEMMA EnterDoOutcome ==
  ASSUME TypeOK, Positions, SF!CallsInv, OutcomesAreGood, NEW t \in Threads,
         EnterDo(t)
  PROVE  OutcomesAreGood'
<1>1. /\ pc[t] = "do" /\ UNCHANGED <<key, op, ep, ret, mut, began>>
      /\ Goto(t, "fly") \/ Goto(t, "reload")
  BY DEF EnterDo
<1>2. pc'[t] \in {"fly", "reload"} /\ \A u \in Threads : u # t => pc'[u] = pc[u]
  BY <1>1, GotoMoves
<1>3. at[t] = "out" BY <1>1, OutsideDo DEF Loading
<1>4. \A u \in Threads : at[u] = "wait" => on[u] \in Threads /\ on[u] # t
  BY <1>3, WaitsOnAnother
<1>5. res' = res /\ \A u \in Threads : u # t => at'[u] = at[u] /\ on'[u] = on[u]
  BY LeadMoves, JoinMoves DEF EnterDo
<1>6. \A u \in Threads : u # t => late'[u] = late[u] BY DEF EnterDo, TypeOK
<1>7. \/ at'[t] = "run"
      \/ at'[t] = "wait" /\ (at'[on'[t]] = "run" \/ late'[t])
  <2>1. CASE SF!Lead(t) BY <2>1, LeadMoves
  <2>2. CASE SF!Join(t) /\ late' = [late EXCEPT ![t] = at[m[key[t]]] # "run"]
    <3>1. at'[t] = "wait" /\ on'[t] = m[key[t]] /\ m[key[t]] # NoThread
      BY <2>2, JoinMoves
    <3>2. m[key[t]] \in Threads /\ m[key[t]] # t
      <4>1. key[t] \in Keys /\ m[key[t]] \in Threads \cup {NoThread}
        BY DEF TypeOK, SF!SFTypeOK
      <4>2. at[m[key[t]]] \in {"run", "ran"}
        BY <3>1, <4>1 DEF SF!CallsInv, SF!NoFinishedCallInMap
      <4> QED BY <1>3, <3>1, <4>1, <4>2
    <3>3. at'[on'[t]] = at[m[key[t]]] BY <1>5, <3>1, <3>2
    <3>4. late'[t] = (at[m[key[t]]] # "run") BY <2>2 DEF TypeOK
    <3> QED BY <3>1, <3>3, <3>4, Zenon
  <2> QED BY <2>1, <2>2 DEF EnterDo
<1>8. ASSUME NEW u \in Threads PROVE OutcomeKept(u)
  <2>1. pc'[u] # "idle" => began'[u] <= mut'[key'[u]]
    BY <1>1, <1>2 DEF OutcomesAreGood
  <2>2. CASE u = t BY <1>2, <1>7, <2>1, <2>2 DEF OutcomeKept
  <2>3. CASE u # t
    <3>1. at[u] = "wait" => at'[on[u]] = at[on[u]] BY <1>4, <1>5
    <3>2. /\ pc'[u] = pc[u] /\ op'[u] = op[u] /\ ret'[u] = ret[u] /\ late'[u] = late[u]
          /\ at'[u] = at[u] /\ on'[u] = on[u]
      BY <1>1, <1>2, <1>5, <1>6, <2>3
    <3> QED BY <1>5, <2>1, <3>1, <3>2 DEF OutcomesAreGood, OutcomeKept
  <2> QED BY <2>2, <2>3
<1>9. UNCHANGED <<began, ep>> BY <1>1
<1> QED BY <1>8, <1>9, OutcomesKept

\* A load that ends with an outcome that is good for its leader and for the
\* waiters it has so far keeps OutcomesAreGood.
LEMMA FnReturnsGood ==
  ASSUME TypeOK, Positions, SF!CallsInv, OutcomesAreGood, NEW t \in Threads, NEW r,
         FnReturns(t, r), GoodFor(t, r),
         \A u \in Threads : at[u] = "wait" /\ on[u] = t => GoodFor(u, r),
         UNCHANGED <<key, op, ep, ret, mut, began, late>>
  PROVE  OutcomesAreGood'
<1>1. /\ at[t] = "run" /\ at'[t] = "ran" /\ res'[t] = r /\ on' = on
      /\ \A u \in Threads : u # t => at'[u] = at[u] /\ res'[u] = res[u]
  BY FnReturnsMoves DEF FnReturns
<1>2. pc'[t] = "fly" /\ \A u \in Threads : u # t => pc'[u] = pc[u]
  BY GotoMoves DEF FnReturns
<1>3. pc[t] # "idle" BY <1>1 DEF Positions, Loading
<1>4. ASSUME NEW u \in Threads PROVE OutcomeKept(u)
  <2>1. pc'[u] # "idle" => began'[u] <= mut'[key'[u]]
    BY <1>2, <1>3 DEF OutcomesAreGood
  <2>2. CASE u = t BY <1>1, <1>2, <2>1, <2>2 DEF OutcomeKept
  <2>3. CASE u # t
    <3>1. ASSUME at[u] = "wait", at'[on[u]] \in {"ran", "forgot"}
          PROVE  late[u] \/ GoodFor(u, res'[on[u]])
      <4>1. on[u] \in Threads BY <3>1, WaitsOnAnother
      <4>2. CASE on[u] = t BY <1>1, <3>1, <4>2
      <4>3. CASE on[u] # t
        <5>1. at'[on[u]] = at[on[u]] /\ res'[on[u]] = res[on[u]]
          BY <1>1, <4>1, <4>3
        <5> QED BY <3>1, <5>1 DEF OutcomesAreGood
      <4> QED BY <4>2, <4>3
    <3>2. /\ pc'[u] = pc[u] /\ op'[u] = op[u] /\ ret'[u] = ret[u] /\ late'[u] = late[u]
          /\ at'[u] = at[u] /\ on'[u] = on[u] /\ res'[u] = res[u]
      BY <1>1, <1>2, <2>3
    <3> QED BY <2>1, <3>1, <3>2 DEF OutcomesAreGood, OutcomeKept
  <2> QED BY <2>2, <2>3
<1> QED BY <1>4, OutcomesKept

\* What a load may end with: a hit, an error, or a value as new as the key.
Loaded(t, r) ==
  \/ r = CacheGet(key[t]) \/ r \notin Entry
  \/ r.mut = mut[key[t]] /\ r.written = epoch

\* The outcome of a load is good for everyone who waits for it.
LEMMA LoadedIsGood ==
  ASSUME TypeOK, Positions, SF!CallsInv, NoStaleFill, EpochInv, OutcomesAreGood,
         NEW t \in Threads, NEW r, at[t] = "run", Loaded(t, r)
  PROVE  GoodFor(t, r) /\ \A u \in Threads :
                            at[u] = "wait" /\ on[u] = t => GoodFor(u, r)
<1> SUFFICES ASSUME NEW u \in Threads, u = t \/ (at[u] = "wait" /\ on[u] = t)
             PROVE  GoodFor(u, r)
  OBVIOUS
<1>1. key[u] = key[t] BY WaitsOnAnother
<1>2. pc[u] \in {"reload", "fly"} \cup Loading BY DEF Positions
<1>3. CASE r \notin Entry BY <1>3 DEF GoodFor
<1>4. CASE r = CacheGet(key[t]) /\ r \in Entry
  BY <1>1, <1>2, <1>4, HitIsGood, Sentinels DEF Holding
<1>5. CASE r.mut = mut[key[t]] /\ r.written = epoch
  <2>1. began[u] <= mut[key[u]] BY <1>2 DEF OutcomesAreGood, Loading
  <2>2. ep[u] <= epoch BY DEF EpochInv, EpochsAreOrdered
  <2>3. began[u] \in Nat /\ mut[key[u]] \in Nat /\ ep[u] \in Nat /\ epoch \in Nat
    BY OutcomeTypes, EpochType
  <2> QED BY <1>1, <1>5, <2>1, <2>2, <2>3 DEF GoodFor
<1> QED BY <1>3, <1>4, <1>5 DEF Loaded

\* A step of the load either ends it with such an outcome or goes on inside it.
LEMMA LoadSteps ==
  ASSUME TypeOK, FreshInv, NEW t \in Threads,
         Reload(t) \/ Load(t) \/ Recheck(t) \/ Store(t)
  PROVE  /\ UNCHANGED <<key, op, ep, ret, mut, began, late>>
         /\ \/ \E r : FnReturns(t, r) /\ Loaded(t, r)
            \/ /\ UNCHANGED loader
               /\ pc[t] \in {"reload"} \cup Loading /\ \E l \in Loading : Goto(t, l)
<1>1. UNCHANGED <<key, op, ep, ret, mut, began, late>>
  BY Zenon DEF Reload, Load, Recheck, Store, Quiet, history
<1>2. CASE Reload(t) BY Zenon, <1>1, <1>2 DEF Reload, Loading, Loaded
<1>3. CASE Load(t) BY Zenon, <1>1, <1>3, Sentinels DEF Load, Loading, Loaded
<1>4. CASE Recheck(t) BY <1>1, <1>4, Sentinels DEF Recheck, Loading, Loaded
<1>5. CASE Store(t) /\ ~Unmutated(t)
  BY Zenon, <1>1, <1>5, Sentinels DEF Store, Loaded
<1>6. CASE Store(t) /\ Unmutated(t)
  <2> DEFINE e == EntryOf(buf[t].mut, buf[t].asof, epoch)
  <2>1. buf[t].mut \in Nat /\ buf[t].asof \in Nat
    <3>1. buf[t] \in Entry BY DEF TypeOK
    <3> QED BY <3>1, EntryTypes
  <2>2. e.mut = buf[t].mut /\ e.written = epoch BY DEF EntryOf
  <2>3. pc[t] = "store" /\ FnReturns(t, e) BY Zenon, <1>6 DEF Store
  <2>4. buf[t].mut = mut[key[t]]
    BY Zenon, <1>6, <2>3 DEF FreshInv, LoadsAreCurrent, Loading, Unmutated
  <2> HIDE DEF e
  <2>5. Loaded(t, e) BY <2>2, <2>4 DEF Loaded
  <2> QED BY <1>1, <2>3, <2>5
<1> QED BY <1>2, <1>3, <1>4, <1>5, <1>6

LEMMA LoadOutcome ==
  ASSUME TypeOK, Positions, SF!CallsInv, FreshInv, EpochInv, OutcomesAreGood,
         NEW t \in Threads, Reload(t) \/ Load(t) \/ Recheck(t) \/ Store(t)
  PROVE  OutcomesAreGood'
<1>1. UNCHANGED <<key, op, ep, ret, mut, began, late>> BY LoadSteps
<1>2. ASSUME NEW r, FnReturns(t, r), Loaded(t, r) PROVE OutcomesAreGood'
  <2>1. at[t] = "run" BY <1>2 DEF FnReturns, SF!FnReturns
  <2>2. GoodFor(t, r) /\ \A u \in Threads :
                           at[u] = "wait" /\ on[u] = t => GoodFor(u, r)
    BY <1>2, <2>1, LoadedIsGood DEF FreshInv
  <2> QED BY <1>1, <1>2, <2>2, FnReturnsGood
<1>3. ASSUME UNCHANGED loader, pc[t] \in {"reload"} \cup Loading,
             \E l \in Loading : Goto(t, l)
      PROVE  OutcomesAreGood'
  <2>1. pc'[t] \in Loading /\ \A u \in Threads : u # t => pc'[u] = pc[u]
    BY <1>3, GotoMoves
  <2>2. at' = at /\ on' = on /\ res' = res BY <1>3 DEF loader
  <2>3. ASSUME NEW u \in Threads PROVE OutcomeKept(u)
    <3>1. (pc[u] # "idle" /\ pc'[u] # "release") \/ pc'[u] = pc[u]
      BY <1>3, <2>1 DEF Loading
    <3> QED BY <1>1, <2>2, <3>1 DEF OutcomesAreGood, OutcomeKept
  <2> QED BY <1>1, <2>3, OutcomesKept
<1> QED BY <1>2, <1>3, LoadSteps

LEMMA LandOutcome ==
  ASSUME TypeOK, Positions, SF!CallsInv, OutcomesAreGood, NEW t \in Threads, Land(t)
  PROVE  OutcomesAreGood'
<1>1. pc[t] = "fly" /\ UNCHANGED <<key, op, ep, mut, began, late>>
  BY DEF Land, Quiet, history
<1>2. CASE SF!Forget(t) /\ UNCHANGED <<pc, ret>>
  <2>1. /\ at[t] = "ran" /\ at'[t] = "forgot" /\ on' = on /\ res' = res
        /\ \A u \in Threads : u # t => at'[u] = at[u]
    BY <1>2, ForgetMoves
  <2>2. ASSUME NEW u \in Threads PROVE OutcomeKept(u)
    <3>1. at[u] = "wait" => (at'[on[u]] \in {"ran", "forgot"} <=> at[on[u]] \in {"ran", "forgot"})
      BY <2>1, WaitsOnAnother
    <3>2. \/ at'[u] = at[u]
          \/ at[u] = "ran" /\ at'[u] = "forgot"
      BY <2>1
    <3> QED BY <1>1, <1>2, <2>1, <3>1, <3>2 DEF OutcomesAreGood, OutcomeKept
  <2> QED BY <1>1, <2>2, OutcomesKept
<1>3. CASE SF!Done(t) /\ UNCHANGED <<pc, ret>>
  <2>1. /\ at[t] = "forgot" /\ on' = on
        /\ \A u \in Threads :
             /\ at'[u] = IF u \in SF!Woken(t) THEN "got" ELSE at[u]
             /\ res'[u] = IF u \in SF!Woken(t) THEN res[t] ELSE res[u]
    BY <1>3 DEF SF!Done
  <2>2. ASSUME NEW u \in Threads PROVE OutcomeKept(u)
    <3>1. CASE u \in SF!Woken(t)
      <4>1. at'[u] = "got" /\ res'[u] = res[t] BY <2>1, <3>1
      <4>2. u = t \/ (at[u] = "wait" /\ on[u] = t) BY <3>1 DEF SF!Woken
      <4>3. late[u] \/ GoodFor(u, res[t]) BY Zenon, <2>1, <4>2 DEF OutcomesAreGood
      <4> QED BY <1>1, <1>3, <4>1, <4>3 DEF OutcomesAreGood, OutcomeKept
    <3>2. CASE u \notin SF!Woken(t)
      <4>1. at'[u] = at[u] /\ res'[u] = res[u] BY <2>1, <3>2
      <4>2. ASSUME at[u] = "wait"
            PROVE  at'[on[u]] = at[on[u]] /\ res'[on[u]] = res[on[u]]
        <5>1. on[u] # t BY <3>2, <4>2 DEF SF!Woken
        <5>2. on[u] \in Threads /\ at[on[u]] # "wait" BY <4>2, WaitsOnAnother
        <5>3. on[u] \notin SF!Woken(t) BY <5>1, <5>2 DEF SF!Woken
        <5> QED BY <2>1, <5>2, <5>3
      <4> QED BY Zenon, <1>1, <1>3, <2>1, <4>1, <4>2 DEF OutcomesAreGood, OutcomeKept
    <3> QED BY <3>1, <3>2
  <2> QED BY <1>1, <2>2, OutcomesKept
<1>4. CASE SF!Return(t) /\ ret' = [ret EXCEPT ![t] = res[t]] /\ Goto(t, "release")
  <2>1. /\ at[t] = "got" /\ at'[t] = "out"
        /\ \A u \in Threads : u # t =>
             at'[u] = at[u] /\ on'[u] = on[u] /\ res'[u] = res[u]
    BY <1>4, ReturnMoves
  <2>2. pc'[t] = "release" /\ \A u \in Threads : u # t => pc'[u] = pc[u]
    BY <1>4, GotoMoves
  <2>3. ret'[t] = res[t] /\ \A u \in Threads : u # t => ret'[u] = ret[u]
    BY <1>4 DEF TypeOK
  <2>4. \A u \in Threads : at[u] = "wait" => on[u] \in Threads /\ on[u] # t
    BY <2>1, WaitsOnAnother
  <2>5. ASSUME NEW u \in Threads PROVE OutcomeKept(u)
    <3>1. began[u] <= mut[key[u]] \/ pc'[u] = "idle"
      BY <1>1, <2>2 DEF OutcomesAreGood
    <3>2. CASE u = t
      <4>1. late[t] \/ GoodFor(t, res[t]) BY <2>1 DEF OutcomesAreGood
      <4> QED BY <1>1, <2>1, <2>3, <3>1, <3>2, <4>1 DEF OutcomeKept
    <3>3. CASE u # t
      <4>1. at[u] = "wait" => at'[on[u]] = at[on[u]] /\ res'[on[u]] = res[on[u]]
        BY <2>1, <2>4
      <4>2. /\ pc'[u] = pc[u] /\ op'[u] = op[u] /\ ret'[u] = ret[u] /\ late'[u] = late[u]
            /\ at'[u] = at[u] /\ on'[u] = on[u] /\ res'[u] = res[u]
        BY <1>1, <2>1, <2>2, <2>3, <3>3
      <4> QED BY <1>1, <3>1, <4>1, <4>2 DEF OutcomesAreGood, OutcomeKept
    <3> QED BY <3>2, <3>3
  <2> QED BY <1>1, <2>5, OutcomesKept
<1> QED BY <1>2, <1>3, <1>4 DEF Land

\* OutcomesAreGood is inductive, given the other invariants.
LEMMA OutcomesInductive ==
  ASSUME TypeOK, LoaderInv, FreshInv, EpochInv, OutcomesAreGood, [Next]_vars
  PROVE  OutcomesAreGood'
<1> USE DEF LoaderInv, FreshInv
<1>1. ASSUME NEW t \in Threads, NEW k \in Keys, NEW o \in Ops, Start(t, k, o)
      PROVE  OutcomesAreGood'
  BY <1>1, StartOutcome
<1>2. ASSUME NEW t \in Threads, Advance(t) PROVE OutcomesAreGood'
  <2>1. CASE PickOwner(t) \/ AdoptEpoch(t) \/ AcquireKeyState(t)
    BY <2>1, PickOwnerOutcome, AdoptOutcome
  <2>2. CASE Probe(t) \/ Mutate(t) \/ ReleaseKeyState(t)
    BY <2>2, ProbeOutcome, MutateOutcome, ReleaseOutcome
  <2>3. CASE EnterDo(t) BY <2>3, EnterDoOutcome
  <2>4. CASE Reload(t) \/ Load(t) \/ Recheck(t) \/ Store(t) BY <2>4, LoadOutcome
  <2>5. CASE Land(t) BY <2>5, LandOutcome
  <2> QED BY <1>2, <2>1, <2>2, <2>3, <2>4, <2>5 DEF Advance
<1>3. ASSUME UNCHANGED loader, UNCHANGED <<key, pc, op, ep, ret, mut, began, late>>
      PROVE  OutcomesAreGood'
  <2>1. at' = at /\ on' = on /\ res' = res BY <1>3 DEF loader
  <2>2. \A u \in Threads : OutcomeKept(u)
    BY <1>3, <2>1 DEF OutcomesAreGood, OutcomeKept
  <2> QED BY <1>3, <2>2, OutcomesKept
<1> QED
  BY Zenon, <1>1, <1>2, <1>3, NextCases
  DEF Evict, Clear, Close, MembershipChange, Surroundings, vars, loader

-----------------------------------------------------------------------------
(* The invariants hold together. *)

INSTANCE FiniteSetTheorems

\* Counting goroutines, from the library's theorems on finite sets.
LEMMA ThreadsCount == Counting
<1> SUFFICES ASSUME NEW S \in SUBSET Threads
             PROVE  /\ Cardinality(S) \in Nat
                    /\ Cardinality(S) = 0 <=> S = {}
                    /\ \A x \in Threads \ S : Cardinality(S \cup {x}) = Cardinality(S) + 1
  BY DEF Counting
<1>1. IsFiniteSet(S) BY FS_Subset, ConstantsAssumption
<1>2. Cardinality(S) \in Nat BY <1>1, FS_CardinalityType
<1>3. Cardinality(S) = 0 <=> S = {} BY <1>1, FS_EmptySet
<1>4. ASSUME NEW x \in Threads \ S
      PROVE  Cardinality(S \cup {x}) = Cardinality(S) + 1
  BY <1>1, FS_AddElement
<1> QED BY <1>2, <1>3, <1>4

\* A keyMutationState is in keyStates exactly while operations use it, and refs
\* counts them: the map does not leak, and a generation is never lost while an
\* operation on the key is in progress.
THEOREM KeyStatesCorrect == Spec => []KeyStatesExact
<1>1. KeyStatesInv => KeyStatesExact BY DEF KeyStatesInv
<1> QED
  BY <1>1, ThreadsCount, InitTypes, InitKeyStates, TypeInductive, HoldersInductive,
     KeyStatesInductive, PTL
  DEF Spec

\* The entry of a key in mainCache always reflects the key's last setLocal or
\* deleteLocal: no load overwrites a Set or resurrects a deleted entry.
THEOREM NoStaleFillHolds == Spec => []NoStaleFill
<1>1. FreshInv => NoStaleFill BY DEF FreshInv
<1>2. TypeOK /\ Holders /\ KeyStatesInv /\ FreshInv /\ [Next]_vars => FreshInv'
  BY ThreadsCount, SoleHolders, FreshInductive DEF KeyStatesInv
<1> QED
  BY <1>1, <1>2, ThreadsCount, InitTypes, InitFresh, InitKeyStates, TypeInductive, HoldersInductive,
     KeyStatesInductive, PTL
  DEF Spec

-----------------------------------------------------------------------------
\* All invariants together.
FullInv ==
  TypeOK /\ Holders /\ KeyStatesInv /\ FreshInv /\ LoaderInv /\ EpochInv
    /\ OutcomesAreGood

LEMMA FullInvHolds == Spec => []FullInv
<1>1. Init => OutcomesAreGood BY DEF Init, SF!SFInit, OutcomesAreGood
<1>2. Init => FullInv
  BY <1>1, ThreadsCount, InitTypes, InitKeyStates, InitFresh, InitLoader, InitEpochs
  DEF FullInv
<1>3. FullInv /\ [Next]_vars => FullInv'
  <2> SUFFICES ASSUME FullInv, [Next]_vars PROVE FullInv'
    OBVIOUS
  <2> USE DEF FullInv
  <2>1. TypeOK' /\ Holders' BY TypeInductive, HoldersInductive
  <2>2. KeyStatesInv' BY ThreadsCount, KeyStatesInductive
  <2>3. FreshInv' BY ThreadsCount, SoleHolders, FreshInductive DEF KeyStatesInv
  <2>4. LoaderInv' BY PositionsInductive, CallsInductive DEF LoaderInv
  <2>5. EpochInv' BY <2>1, EpochInductive DEF LoaderInv
  <2>6. OutcomesAreGood' BY <2>1, OutcomesInductive
  <2> QED BY <2>1, <2>2, <2>3, <2>4, <2>5, <2>6
<1> QED BY <1>2, <1>3, PTL DEF Spec

\* A getLocal that starts after a Set or Delete was applied does not return an
\* older value, unless singleflight let it join a finished call.
THEOREM ReadsSeeMutations == Spec => []ReadsSeeEarlierMutations
<1>1. FullInv => ReadsSeeEarlierMutations
  BY DEF FullInv, OutcomesAreGood, GoodFor, ReadsSeeEarlierMutations, Returns
<1> QED BY <1>1, FullInvHolds, PTL

\* A getLocal that verified its ownership in some epoch does not return an entry
\* that was in mainCache before that epoch, with the same exception.
THEOREM OldEntriesUnserved == Spec => []OldEntriesNeverServed
<1>1. FullInv => OldEntriesNeverServed
  BY DEF FullInv, OutcomesAreGood, GoodFor, OldEntriesNeverServed, Returns
<1> QED BY <1>1, FullInvHolds, PTL
=============================================================================
