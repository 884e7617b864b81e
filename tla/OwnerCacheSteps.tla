--------------------------- MODULE OwnerCacheSteps ---------------------------
(***************************************************************************)
(* What the steps of the owner operations of a group do, for any           *)
(* goroutines, keys and results: types, positions in singleflight, one     *)
(* load per key at the source, and values that no mutation has overtaken.  *)
(***************************************************************************)
EXTENDS OwnerCache, TLAPS

-----------------------------------------------------------------------------
(* Type correctness. *)

\* What is proved of singleflight, for the loader of the group.
SFP == INSTANCE SingleflightProofs WITH Results <- Entry \cup Errors

\* The steps of the model, spelled out once for the case analyses below.
LEMMA NextCases ==
  ASSUME [Next]_vars, NEW P,
         \A t \in Threads, k \in Keys, o \in Ops : Start(t, k, o) => P,
         \A t \in Threads : Advance(t) => P,
         \A k \in Keys : Evict(k) => P,
         Clear => P, Close => P, MembershipChange => P,
         UNCHANGED vars => P
  PROVE  P
BY ConstantsAssumption DEF Next, RejectClosed

\* What an entry built from natural numbers is.
LEMMA EntryFields ==
  ASSUME NEW n \in Nat, NEW a \in Nat, NEW w \in Nat
  PROVE  /\ EntryOf(n, a, w) \in Entry
         /\ EntryOf(n, a, w).mut = n
         /\ EntryOf(n, a, w).asof = a
         /\ EntryOf(n, a, w).written = w
BY DEF EntryOf, Entry

LEMMA EntryTypes ==
  ASSUME NEW e \in Entry
  PROVE  e.mut \in Nat /\ e.asof \in Nat /\ e.written \in Nat
BY DEF Entry

\* The special values are told apart from entries.
LEMMA Sentinels ==
  /\ NoEntry \notin Entry /\ NoResult \notin Entry /\ NoState \notin StateIds
  /\ ErrSource \notin Entry /\ ErrTopologyChanged \notin Entry
  /\ ErrCacheMiss \notin Entry /\ NoThread \notin Threads
BY ConstantsAssumption DEF Errors

\* An epoch is a positive number.
LEMMA EpochType == TypeOK => epoch \in Nat /\ epoch > 0
BY ConstantsAssumption DEF TypeOK

-----------------------------------------------------------------------------
\* A function updated at one point.
LEMMA Updated ==
  ASSUME NEW S, NEW T, NEW f \in [S -> T], NEW t \in S, NEW v, NEW g,
         g = [f EXCEPT ![t] = v]
  PROVE  g[t] = v /\ \A u \in S : u # t => g[u] = f[u]
OBVIOUS

\* The types reads are about, apart from the rest of TypeOK.
LEMMA OutcomeTypes ==
  ASSUME TypeOK
  PROVE  /\ key \in [Threads -> Keys] /\ mut \in [Keys -> Nat]
         /\ began \in [Threads -> Nat] /\ ep \in [Threads -> Nat]
         /\ op \in [Threads -> Ops] /\ ownerEpoch \in Nat
         /\ main \in [Keys -> Entry \cup {NoEntry}]
         /\ \A u \in Threads : key[u] \in Keys /\ began[u] \in Nat /\ mut[key[u]] \in Nat
BY DEF TypeOK

\* A goroutine that moves leaves the others where they are.
LEMMA GotoMoves ==
  ASSUME TypeOK, NEW t \in Threads, NEW l, Goto(t, l)
  PROVE  pc'[t] = l /\ \A u \in Threads : u # t => pc'[u] = pc[u]
BY DEF Goto, TypeOK

-----------------------------------------------------------------------------
\* The loader moves by one action of Do.
LoaderMoves(t) ==
  \/ SF!Join(t) \/ SF!Lead(t) \/ SF!Forget(t) \/ SF!Done(t) \/ SF!Return(t)
  \/ \E r \in Entry \cup Errors : SF!FnReturns(t, r)

\* SF and SFP name the same loader.
LEMMA SameLoader ==
  /\ SF!SFTypeOK <=> SFP!SFTypeOK
  /\ SF!SFTypeOK' <=> SFP!SFTypeOK'
  /\ SF!CallsInv <=> SFP!CallsInv
  /\ SF!CallsInv' <=> SFP!CallsInv'
  /\ \A t \in Threads : LoaderMoves(t) <=> SFP!DoAction(t)
<1>1. /\ SF!SFTypeOK <=> SFP!SFTypeOK
      /\ SF!SFTypeOK' <=> SFP!SFTypeOK'
  BY DEF SF!SFTypeOK, SF!Places, SFP!SFTypeOK, SFP!Places
<1>2. /\ SF!CallsInv <=> SFP!CallsInv
      /\ SF!CallsInv' <=> SFP!CallsInv'
  BY DEF SF!CallsInv, SF!NoOrphanWaiter, SF!NoFinishedCallInMap, SF!LeadersInMap,
         SFP!CallsInv, SFP!NoOrphanWaiter, SFP!NoFinishedCallInMap,
         SFP!LeadersInMap
<1>3. ASSUME NEW t \in Threads PROVE LoaderMoves(t) <=> SFP!DoAction(t)
  <2>1. SF!Join(t) <=> SFP!Join(t)
    BY DEF SF!Join, SF!InFlight, SFP!Join, SFP!InFlight
  <2>2. SF!Lead(t) <=> SFP!Lead(t)
    BY DEF SF!Lead, SF!InFlight, SFP!Lead, SFP!InFlight
  <2>3. SF!Forget(t) <=> SFP!Forget(t)
    BY DEF SF!Forget, SF!Removed, SFP!Forget, SFP!Removed
  <2>4. SF!Done(t) <=> SFP!Done(t)
    BY DEF SF!Done, SF!Woken, SFP!Done, SFP!Woken
  <2>5. SF!Return(t) <=> SFP!Return(t) BY DEF SF!Return, SFP!Return
  <2>6. \A r : SF!FnReturns(t, r) <=> SFP!FnReturns(t, r)
    BY DEF SF!FnReturns, SFP!FnReturns
  <2> QED BY <2>1, <2>2, <2>3, <2>4, <2>5, <2>6 DEF LoaderMoves, SFP!DoAction
<1> QED BY <1>1, <1>2, <1>3

\* The singleflight actions keep the loader well typed.
LEMMA SingleflightType ==
  ASSUME SF!SFTypeOK, key \in [Threads -> Keys], NEW t \in Threads, LoaderMoves(t)
  PROVE  SF!SFTypeOK'
<1>1. SFP!SFTypeOK /\ SFP!DoAction(t) BY SameLoader
<1>2. SFP!SFTypeOK' BY <1>1, Sentinels, SFP!DoActionType
<1> QED BY <1>2, SameLoader

-----------------------------------------------------------------------------
(* Type correctness.  TypeOK is taken apart: what belongs to a goroutine,   *)
(* what they share, and the loader.                                         *)

LocalsTyped ==
  /\ key \in [Threads -> Keys]
  /\ pc \in [Threads -> Steps]
  /\ op \in [Threads -> Ops]
  /\ ep \in [Threads -> Nat]
  /\ st \in [Threads -> StateIds \cup {NoState}]
  /\ startGen \in [Threads -> Nat]
  /\ ret \in [Threads -> Entry \cup Errors \cup {NoResult}]
  /\ began \in [Threads -> Nat]
  /\ buf \in [Threads -> Entry]
  /\ late \in [Threads -> BOOLEAN]

SharedTyped ==
  /\ main \in [Keys -> Entry \cup {NoEntry}]
  /\ ownerEpoch \in Nat
  /\ keyStates \in [Keys -> StateIds \cup {NoState}]
  /\ gen \in [StateIds -> Nat]
  /\ refs \in [StateIds -> Int]
  /\ life \in {"open", "closing", "closed"}
  /\ epoch \in 1..MaxEpoch
  /\ ring \in [1..MaxEpoch -> [Keys -> BOOLEAN]]
  /\ mut \in [Keys -> Nat]

shared == <<main, ownerEpoch, keyStates, gen, refs, life, epoch, ring, mut>>

LEMMA TypeParts ==
  /\ TypeOK <=> SF!SFTypeOK /\ LocalsTyped /\ SharedTyped
  /\ TypeOK' <=> SF!SFTypeOK' /\ LocalsTyped' /\ SharedTyped'
BY Zenon DEF TypeOK, LocalsTyped, SharedTyped

LEMMA UpdatedType ==
  ASSUME NEW S, NEW T, NEW f \in [S -> T], NEW t \in S, NEW v \in T, NEW g,
         g = [f EXCEPT ![t] = v]
  PROVE  g \in [S -> T]
OBVIOUS

LEMMA GotoType ==
  ASSUME LocalsTyped, NEW t \in Threads, NEW l \in Steps, Goto(t, l)
  PROVE  pc' \in [Threads -> Steps]
<1>1. pc \in [Threads -> Steps] BY DEF LocalsTyped
<1> QED BY <1>1 DEF Goto

LEMMA LoaderFrame ==
  ASSUME SF!SFTypeOK, UNCHANGED loader PROVE SF!SFTypeOK'
BY Zenon DEF SF!SFTypeOK, SF!Places, loader

LEMMA SharedFrame ==
  ASSUME SharedTyped, UNCHANGED shared PROVE SharedTyped'
BY Zenon DEF SharedTyped, shared

\* What goroutines hold when only their position and their outcome change.
LEMMA LocalsFrame ==
  ASSUME LocalsTyped, UNCHANGED <<key, op, ep, st, startGen, began, buf>>,
         pc' \in [Threads -> Steps],
         ret' \in [Threads -> Entry \cup Errors \cup {NoResult}],
         late' \in [Threads -> BOOLEAN]
  PROVE  LocalsTyped'
BY Zenon DEF LocalsTyped

\* A returning operation leaves well-typed locals behind.
LEMMA ForgottenType ==
  ASSUME LocalsTyped, NEW t \in Threads, Forgotten(t), Goto(t, "idle"), key' = key
  PROVE  LocalsTyped'
<1>1. NoBuf \in Entry BY EntryFields DEF NoBuf
<1>2. buf' \in [Threads -> Entry] BY <1>1, UpdatedType DEF Forgotten, LocalsTyped
<1>3. "get" \in Ops BY DEF Ops
<1>4. op' \in [Threads -> Ops] BY <1>3, UpdatedType DEF Forgotten, LocalsTyped
<1>5. "idle" \in Steps BY DEF Steps
<1>6. pc' \in [Threads -> Steps] BY <1>5, GotoType
<1>7. ret' \in [Threads -> Entry \cup Errors \cup {NoResult}]
  BY UpdatedType DEF Forgotten, LocalsTyped
<1>8. st' \in [Threads -> StateIds \cup {NoState}]
  BY UpdatedType DEF Forgotten, LocalsTyped
<1>9. /\ ep' \in [Threads -> Nat] /\ startGen' \in [Threads -> Nat]
      /\ began' \in [Threads -> Nat]
  BY UpdatedType DEF Forgotten, LocalsTyped
<1>10. late' \in [Threads -> BOOLEAN] BY UpdatedType DEF Forgotten, LocalsTyped
<1>11. key' \in [Threads -> Keys] BY Zenon DEF LocalsTyped
<1> QED BY Zenon, <1>2, <1>4, <1>6, <1>7, <1>8, <1>9, <1>10, <1>11 DEF LocalsTyped

LEMMA StartType ==
  ASSUME TypeOK, NEW t \in Threads, NEW k \in Keys, NEW o \in Ops, Start(t, k, o)
  PROVE  TypeOK'
<1>0. SF!SFTypeOK /\ LocalsTyped /\ SharedTyped BY TypeParts
<1>1. UNCHANGED loader /\ UNCHANGED shared BY DEF Start, shared, states, picker
<1>2. /\ key' = [key EXCEPT ![t] = k] /\ op' = [op EXCEPT ![t] = o]
      /\ Goto(t, "pick") \/ Goto(t, "acquire")
      /\ began' = [began EXCEPT ![t] = mut[k]]
      /\ UNCHANGED <<ep, st, startGen, ret, buf, late>>
  BY DEF Start
<1>3. "pick" \in Steps /\ "acquire" \in Steps BY DEF Steps
<1>4. pc' \in [Threads -> Steps] BY <1>0, <1>2, <1>3, GotoType
<1>5. mut[k] \in Nat BY <1>0 DEF SharedTyped
<1>6. key' \in [Threads -> Keys] /\ op' \in [Threads -> Ops] /\ began' \in [Threads -> Nat]
  BY <1>0, <1>2, <1>5, UpdatedType DEF LocalsTyped
<1>7. LocalsTyped' BY Zenon, <1>0, <1>2, <1>4, <1>6 DEF LocalsTyped
<1> QED BY <1>0, <1>1, <1>7, LoaderFrame, SharedFrame, TypeParts

LEMMA PickOwnerType ==
  ASSUME TypeOK, NEW t \in Threads, PickOwner(t)
  PROVE  TypeOK'
<1>0. SF!SFTypeOK /\ LocalsTyped /\ SharedTyped BY TypeParts
<1>1. UNCHANGED loader /\ UNCHANGED shared BY DEF PickOwner, shared, states, picker
<1>2. CASE IsSelf(key[t])
  <2>1. /\ ep' = [ep EXCEPT ![t] = epoch] /\ Goto(t, "own")
        /\ UNCHANGED <<key, op, st, startGen, ret, began, buf, late>>
    BY <1>2 DEF PickOwner
  <2>2. "own" \in Steps BY DEF Steps
  <2>3. pc' \in [Threads -> Steps] BY <1>0, <2>1, <2>2, GotoType
  <2>4. ep' \in [Threads -> Nat] BY <1>0, <2>1, EpochType, UpdatedType DEF LocalsTyped
  <2>5. LocalsTyped' BY Zenon, <1>0, <2>1, <2>3, <2>4 DEF LocalsTyped
  <2> QED BY <1>0, <1>1, <2>5, LoaderFrame, SharedFrame, TypeParts
<1>3. CASE ~IsSelf(key[t])
  <2>1. Goto(t, "idle") /\ Forgotten(t) /\ key' = key BY <1>3 DEF PickOwner
  <2>2. LocalsTyped' BY <1>0, <2>1, ForgottenType
  <2> QED BY <1>0, <1>1, <2>2, LoaderFrame, SharedFrame, TypeParts
<1> QED BY <1>2, <1>3

LEMMA AdoptEpochType ==
  ASSUME TypeOK, NEW t \in Threads, AdoptEpoch(t)
  PROVE  TypeOK'
<1>0. SF!SFTypeOK /\ LocalsTyped /\ SharedTyped BY TypeParts
<1>1. /\ UNCHANGED loader /\ Goto(t, "acquire")
      /\ UNCHANGED <<key, op, ep, st, startGen, ret, began, buf, late>>
      /\ UNCHANGED <<keyStates, gen, refs, life, epoch, ring, mut>>
      /\ main' = main \/ main' = EmptyCache
      /\ ownerEpoch' = ep[t]
  BY DEF AdoptEpoch, Quiet, states, picker, history, CacheClear
<1>2. "acquire" \in Steps BY DEF Steps
<1>3. pc' \in [Threads -> Steps] BY <1>0, <1>1, <1>2, GotoType
<1>4. LocalsTyped' BY Zenon, <1>0, <1>1, <1>3 DEF LocalsTyped
<1>5. ownerEpoch' \in Nat BY <1>0, <1>1 DEF LocalsTyped
<1>6. main' \in [Keys -> Entry \cup {NoEntry}] BY <1>0, <1>1 DEF SharedTyped, EmptyCache
<1>7. SharedTyped' BY Zenon, <1>0, <1>1, <1>5, <1>6 DEF SharedTyped
<1> QED BY <1>0, <1>1, <1>4, <1>7, LoaderFrame, TypeParts

LEMMA AcquireType ==
  ASSUME TypeOK, NEW t \in Threads, AcquireKeyState(t)
  PROVE  TypeOK'
<1>0. SF!SFTypeOK /\ LocalsTyped /\ SharedTyped BY TypeParts
<1>1. /\ UNCHANGED loader /\ (Goto(t, "probe") \/ Goto(t, "mutate"))
      /\ UNCHANGED <<key, op, ep, startGen, ret, began, buf, late>>
      /\ UNCHANGED <<main, ownerEpoch, life, epoch, ring, mut>>
  BY DEF AcquireKeyState, Quiet, picker, history
<1>2. PICK s \in StateIds :
        /\ st' = [st EXCEPT ![t] = s]
        /\ keyStates' = [keyStates EXCEPT ![key[t]] = s]
        /\ gen' = [gen EXCEPT ![s] = IF keyStates[key[t]] = NoState THEN 0 ELSE @]
        /\ refs' = [refs EXCEPT ![s] = IF keyStates[key[t]] = NoState THEN 1 ELSE @ + 1]
  BY Zenon DEF AcquireKeyState
<1>3. "probe" \in Steps /\ "mutate" \in Steps BY DEF Steps
<1>4. pc' \in [Threads -> Steps] BY <1>0, <1>1, <1>3, GotoType
<1>5. st' \in [Threads -> StateIds \cup {NoState}] BY <1>0, <1>2 DEF LocalsTyped
<1>k. key[t] \in Keys BY <1>0 DEF LocalsTyped
<1>6. keyStates' \in [Keys -> StateIds \cup {NoState}] BY <1>0, <1>2, <1>k DEF SharedTyped
<1>7. gen' \in [StateIds -> Nat] BY <1>0, <1>2 DEF SharedTyped
<1>8. refs' \in [StateIds -> Int] BY <1>0, <1>2 DEF SharedTyped
<1>9. LocalsTyped' BY Zenon, <1>0, <1>1, <1>4, <1>5 DEF LocalsTyped
<1>10. SharedTyped' BY Zenon, <1>0, <1>1, <1>6, <1>7, <1>8 DEF SharedTyped
<1> QED BY <1>0, <1>1, <1>9, <1>10, LoaderFrame, TypeParts

LEMMA ReleaseType ==
  ASSUME TypeOK, Holders, NEW t \in Threads, ReleaseKeyState(t)
  PROVE  TypeOK'
<1>0. SF!SFTypeOK /\ LocalsTyped /\ SharedTyped BY TypeParts
<1>1. /\ UNCHANGED loader /\ key' = key /\ Goto(t, "idle") /\ Forgotten(t)
      /\ UNCHANGED <<main, ownerEpoch, life, epoch, ring, mut>>
  BY DEF ReleaseKeyState, picker
<1>2. /\ refs' = [refs EXCEPT ![st[t]] = @ - 1]
      /\ gen' = [gen EXCEPT ![st[t]] = IF refs[st[t]] = 1 THEN 0 ELSE @]
      /\ \/ keyStates' = [keyStates EXCEPT ![key[t]] = NoState]
         \/ keyStates' = keyStates
      /\ pc[t] = "release"
  BY DEF ReleaseKeyState
<1>3. st[t] \in StateIds BY <1>0, <1>2 DEF Holders, Holding, LocalsTyped
<1>k. key[t] \in Keys BY <1>0 DEF LocalsTyped
<1>4. keyStates' \in [Keys -> StateIds \cup {NoState}] BY <1>0, <1>2, <1>k DEF SharedTyped
<1>5. gen' \in [StateIds -> Nat] BY <1>0, <1>2, <1>3 DEF SharedTyped
<1>6. refs' \in [StateIds -> Int] BY <1>0, <1>2, <1>3 DEF SharedTyped
<1>7. LocalsTyped' BY <1>0, <1>1, ForgottenType
<1>8. SharedTyped' BY Zenon, <1>0, <1>1, <1>4, <1>5, <1>6 DEF SharedTyped
<1> QED BY <1>0, <1>1, <1>7, <1>8, LoaderFrame, TypeParts

\* What a hit is.
LEMMA CacheGetType ==
  ASSUME SharedTyped, NEW k \in Keys
  PROVE  CacheGet(k) \in Entry \cup {NoEntry}
BY DEF SharedTyped, CacheGet

LEMMA CacheAddType ==
  ASSUME SharedTyped, NEW k \in Keys, NEW e \in Entry \cup {NoEntry}
  PROVE  CacheAdd(k, e) \in [Keys -> Entry \cup {NoEntry}]
BY UpdatedType DEF SharedTyped, CacheAdd

LEMMA ProbeType ==
  ASSUME TypeOK, NEW t \in Threads, Probe(t)
  PROVE  TypeOK'
<1>0. SF!SFTypeOK /\ LocalsTyped /\ SharedTyped BY TypeParts
<1>1. UNCHANGED loader /\ UNCHANGED shared
  BY Zenon DEF Probe, Quiet, shared, states, picker, history
<1>2. /\ UNCHANGED <<key, op, ep, st, startGen, began, buf, late>>
      /\ \/ CacheGet(key[t]) # NoEntry /\ ret' = [ret EXCEPT ![t] = CacheGet(key[t])]
         \/ ret' = ret
         \/ ret' = [ret EXCEPT ![t] = ErrCacheMiss]
      /\ Goto(t, "release") \/ Goto(t, "do")
  BY DEF Probe, Quiet, history
<1>3. "release" \in Steps /\ "do" \in Steps BY DEF Steps
<1>4. pc' \in [Threads -> Steps] BY <1>0, <1>2, <1>3, GotoType
<1>5. CacheGet(key[t]) \in Entry \cup {NoEntry} BY <1>0, CacheGetType DEF LocalsTyped
<1>6. ret' \in [Threads -> Entry \cup Errors \cup {NoResult}]
  BY <1>0, <1>2, <1>5, UpdatedType DEF LocalsTyped, Errors
<1>7. late' \in [Threads -> BOOLEAN] BY Zenon, <1>0, <1>2 DEF LocalsTyped
<1>8. LocalsTyped' BY <1>0, <1>2, <1>4, <1>6, <1>7, LocalsFrame
<1> QED BY <1>0, <1>1, <1>8, LoaderFrame, SharedFrame, TypeParts

LEMMA EnterDoType ==
  ASSUME TypeOK, NEW t \in Threads, EnterDo(t)
  PROVE  TypeOK'
<1>0. SF!SFTypeOK /\ LocalsTyped /\ SharedTyped BY TypeParts
<1>1. /\ LoaderMoves(t) /\ (Goto(t, "fly") \/ Goto(t, "reload"))
      /\ UNCHANGED <<key, op, ep, st, startGen, ret, began, buf>>
      /\ late' = late \/ late' = [late EXCEPT ![t] = at[m[key[t]]] # "run"]
  BY Zenon DEF EnterDo, LoaderMoves
<1>2. UNCHANGED shared BY Zenon DEF EnterDo, shared, states, picker
<1>3. "fly" \in Steps /\ "reload" \in Steps BY DEF Steps
<1>4. pc' \in [Threads -> Steps] BY <1>0, <1>1, <1>3, GotoType
<1>5. late' \in [Threads -> BOOLEAN]
  <2>1. late \in [Threads -> BOOLEAN] /\ (at[m[key[t]]] # "run") \in BOOLEAN
    BY Zenon, <1>0 DEF LocalsTyped
  <2> QED BY Zenon, <1>1, <2>1, UpdatedType
<1>6. ret' \in [Threads -> Entry \cup Errors \cup {NoResult}]
  BY Zenon, <1>0, <1>1 DEF LocalsTyped
<1>7. LocalsTyped' BY <1>0, <1>1, <1>4, <1>5, <1>6, LocalsFrame
<1>8. SF!SFTypeOK' BY <1>0, <1>1, SingleflightType DEF LocalsTyped
<1> QED BY <1>0, <1>2, <1>7, <1>8, SharedFrame, TypeParts

\* The four steps of the load: what they leave to singleflight is a result.
LEMMA FnReturnsType ==
  ASSUME SF!SFTypeOK, LocalsTyped, NEW t \in Threads, NEW r \in Entry \cup Errors,
         FnReturns(t, r)
  PROVE  SF!SFTypeOK' /\ pc' \in [Threads -> Steps]
<1>1. LoaderMoves(t) /\ Goto(t, "fly") BY DEF FnReturns, LoaderMoves
<1>2. "fly" \in Steps BY DEF Steps
<1> QED BY <1>1, <1>2, GotoType, SingleflightType DEF LocalsTyped

LEMMA ReloadType ==
  ASSUME TypeOK, Holders, NEW t \in Threads, Reload(t)
  PROVE  TypeOK'
<1>0. SF!SFTypeOK /\ LocalsTyped /\ SharedTyped BY TypeParts
<1>1. UNCHANGED shared BY Zenon DEF Reload, Quiet, shared, states, picker, history
<1>2. UNCHANGED <<key, op, ep, st, ret, began, late>> /\ pc[t] = "reload"
  BY Zenon DEF Reload, Quiet, history
<1>3. CASE CacheGet(key[t]) # NoEntry
  <2>1. FnReturns(t, CacheGet(key[t])) /\ UNCHANGED <<startGen, buf>>
    BY <1>3 DEF Reload
  <2>2. CacheGet(key[t]) \in Entry BY <1>0, <1>3, CacheGetType DEF LocalsTyped
  <2>3. SF!SFTypeOK' /\ pc' \in [Threads -> Steps] BY <1>0, <2>1, <2>2, FnReturnsType
  <2>4. LocalsTyped' BY Zenon, <1>0, <1>2, <2>1, <2>3 DEF LocalsTyped
  <2> QED BY <1>0, <1>1, <2>3, <2>4, SharedFrame, TypeParts
<1>4. CASE CacheGet(key[t]) = NoEntry
  <2>1. /\ startGen' = [startGen EXCEPT ![t] = gen[st[t]]]
        /\ buf' = [buf EXCEPT ![t] = EntryOf(mut[key[t]], 0, 0)]
        /\ Goto(t, "load") /\ UNCHANGED loader
    BY <1>4 DEF Reload
  <2>2. "load" \in Steps BY DEF Steps
  <2>3. pc' \in [Threads -> Steps] BY <1>0, <2>1, <2>2, GotoType
  <2>4. st[t] \in StateIds BY <1>0, <1>2 DEF Holders, Holding, LocalsTyped
  <2>5. gen[st[t]] \in Nat /\ mut[key[t]] \in Nat
    BY <1>0, <2>4 DEF SharedTyped, LocalsTyped
  <2>6. startGen' \in [Threads -> Nat] BY <1>0, <2>1, <2>5, UpdatedType DEF LocalsTyped
  <2>7. EntryOf(mut[key[t]], 0, 0) \in Entry BY <2>5, EntryFields
  <2>8. buf' \in [Threads -> Entry] BY <1>0, <2>1, <2>7, UpdatedType DEF LocalsTyped
  <2>9. LocalsTyped' BY Zenon, <1>0, <1>2, <2>3, <2>6, <2>8 DEF LocalsTyped
  <2> QED BY <1>0, <1>1, <2>1, <2>9, LoaderFrame, SharedFrame, TypeParts
<1> QED BY <1>3, <1>4

LEMMA LoadType ==
  ASSUME TypeOK, NEW t \in Threads, Load(t)
  PROVE  TypeOK'
<1>0. SF!SFTypeOK /\ LocalsTyped /\ SharedTyped BY TypeParts
<1>1. UNCHANGED shared BY Zenon DEF Load, Quiet, shared, states, picker, history
<1>2. UNCHANGED <<key, op, ep, st, startGen, ret, began, late>>
  BY Zenon DEF Load, Quiet, history
<1>3. CASE FnReturns(t, ErrSource) /\ UNCHANGED buf
  <2>1. SF!SFTypeOK' /\ pc' \in [Threads -> Steps] BY <1>0, <1>3, FnReturnsType DEF Errors
  <2>2. LocalsTyped' BY Zenon, <1>0, <1>2, <1>3, <2>1 DEF LocalsTyped
  <2> QED BY <1>0, <1>1, <2>1, <2>2, SharedFrame, TypeParts
<1>4. CASE /\ buf' = [buf EXCEPT ![t] = EntryOf(buf[t].mut, epoch, 0)]
           /\ Goto(t, "recheck") \/ Goto(t, "store")
           /\ UNCHANGED loader
  <2>1. "recheck" \in Steps /\ "store" \in Steps BY DEF Steps
  <2>2. pc' \in [Threads -> Steps] BY <1>0, <1>4, <2>1, GotoType
  <2>3. buf[t] \in Entry BY <1>0 DEF LocalsTyped
  <2>4. EntryOf(buf[t].mut, epoch, 0) \in Entry BY <2>3, EpochType, EntryTypes, EntryFields
  <2>5. buf' \in [Threads -> Entry] BY <1>0, <1>4, <2>4, UpdatedType DEF LocalsTyped
  <2>6. LocalsTyped' BY Zenon, <1>0, <1>2, <2>2, <2>5 DEF LocalsTyped
  <2> QED BY <1>0, <1>1, <1>4, <2>6, LoaderFrame, SharedFrame, TypeParts
<1> QED BY Zenon, <1>3, <1>4 DEF Load

LEMMA RecheckType ==
  ASSUME TypeOK, NEW t \in Threads, Recheck(t)
  PROVE  TypeOK'
<1>0. SF!SFTypeOK /\ LocalsTyped /\ SharedTyped BY TypeParts
<1>1. UNCHANGED shared BY Zenon DEF Recheck, Quiet, shared, states, picker, history
<1>2. UNCHANGED <<key, op, ep, st, startGen, ret, began, buf, late>>
  BY Zenon DEF Recheck, Quiet, history
<1>3. SF!SFTypeOK' /\ pc' \in [Threads -> Steps]
  <2>1. CASE FnReturns(t, ErrTopologyChanged) BY <1>0, <2>1, FnReturnsType DEF Errors
  <2>2. CASE Goto(t, "store") /\ UNCHANGED loader
    <3>1. "store" \in Steps BY DEF Steps
    <3> QED BY <1>0, <2>2, <3>1, GotoType, LoaderFrame
  <2> QED BY <2>1, <2>2 DEF Recheck
<1>4. LocalsTyped' BY Zenon, <1>0, <1>2, <1>3 DEF LocalsTyped
<1> QED BY <1>0, <1>1, <1>3, <1>4, SharedFrame, TypeParts

LEMMA StoreType ==
  ASSUME TypeOK, NEW t \in Threads, Store(t)
  PROVE  TypeOK'
<1> DEFINE e == EntryOf(buf[t].mut, buf[t].asof, epoch)
<1>0. SF!SFTypeOK /\ LocalsTyped /\ SharedTyped BY TypeParts
<1>k. key[t] \in Keys /\ buf[t] \in Entry BY <1>0 DEF LocalsTyped
<1>e. e \in Entry BY <1>k, EpochType, EntryTypes, EntryFields
<1>h. CacheGet(key[t]) \in Entry \cup {NoEntry} BY <1>0, <1>k, CacheGetType
<1>1. /\ UNCHANGED <<key, op, ep, st, startGen, ret, began, buf, late>>
      /\ UNCHANGED <<ownerEpoch, keyStates, gen, refs, life, epoch, ring, mut>>
  BY Zenon DEF Store, Quiet, states, picker, history
<1>2. \/ FnReturns(t, e) /\ main' = CacheAdd(key[t], e)
      \/ /\ FnReturns(t, CacheGet(key[t])) /\ CacheGet(key[t]) # NoEntry
         /\ main' = main
      \/ FnReturns(t, ErrCacheMiss) /\ main' = main
  BY DEF Store
<1> HIDE DEF e
<1>3. SF!SFTypeOK' /\ pc' \in [Threads -> Steps]
  BY <1>0, <1>2, <1>e, <1>h, FnReturnsType DEF Errors
<1>4. main' \in [Keys -> Entry \cup {NoEntry}]
  <2>1. CacheAdd(key[t], e) \in [Keys -> Entry \cup {NoEntry}]
    BY <1>0, <1>k, <1>e, CacheAddType
  <2> QED BY Zenon, <1>0, <1>2, <2>1 DEF SharedTyped
<1>5. LocalsTyped' BY Zenon, <1>0, <1>1, <1>3 DEF LocalsTyped
<1>6. SharedTyped' BY Zenon, <1>0, <1>1, <1>4 DEF SharedTyped
<1> QED BY <1>3, <1>5, <1>6, TypeParts

LEMMA LandType ==
  ASSUME TypeOK, NEW t \in Threads, Land(t)
  PROVE  TypeOK'
<1>0. SF!SFTypeOK /\ LocalsTyped /\ SharedTyped BY TypeParts
<1>1. UNCHANGED shared BY Zenon DEF Land, Quiet, shared, states, picker, history
<1>2. /\ LoaderMoves(t) /\ UNCHANGED <<key, op, ep, st, startGen, began, buf, late>>
      /\ \/ pc' = pc /\ ret' = ret
         \/ Goto(t, "release") /\ ret' = [ret EXCEPT ![t] = res[t]]
  BY Zenon DEF Land, LoaderMoves, Quiet, history
<1>3. SF!SFTypeOK' BY <1>0, <1>2, SingleflightType DEF LocalsTyped
<1>4. "release" \in Steps BY DEF Steps
<1>5. pc' \in [Threads -> Steps] BY <1>0, <1>2, <1>4, GotoType DEF LocalsTyped
<1>6. res[t] \in Entry \cup Errors \cup {NoResult} BY <1>0 DEF SF!SFTypeOK
<1>7. ret' \in [Threads -> Entry \cup Errors \cup {NoResult}]
  BY Zenon, <1>0, <1>2, <1>6, UpdatedType DEF LocalsTyped
<1>8. late' \in [Threads -> BOOLEAN] BY Zenon, <1>0, <1>2 DEF LocalsTyped
<1>9. LocalsTyped' BY <1>0, <1>2, <1>5, <1>7, <1>8, LocalsFrame
<1> QED BY <1>0, <1>1, <1>3, <1>9, SharedFrame, TypeParts

LEMMA MutateType ==
  ASSUME TypeOK, Holders, NEW t \in Threads, Mutate(t)
  PROVE  TypeOK'
<1> DEFINE e == EntryOf(mut[key[t]] + 1, epoch, epoch)
<1>0. SF!SFTypeOK /\ LocalsTyped /\ SharedTyped BY TypeParts
<1>k. key[t] \in Keys BY <1>0 DEF LocalsTyped
<1>n. mut[key[t]] + 1 \in Nat BY <1>0, <1>k DEF SharedTyped
<1>e. e \in Entry BY <1>n, EpochType, EntryFields
<1>1. /\ UNCHANGED loader
      /\ UNCHANGED <<key, op, ep, st, startGen, ret, began, buf, late>>
      /\ UNCHANGED <<ownerEpoch, keyStates, refs, life, epoch, ring>>
      /\ Goto(t, "release") /\ pc[t] = "mutate"
  BY Zenon DEF Mutate, picker
<1>2. main' = CacheAdd(key[t], e) \/ main' = CacheAdd(key[t], NoEntry)
  BY Zenon DEF Mutate, CacheDelete
<1>3. gen' = [gen EXCEPT ![st[t]] = gen[st[t]] + 1] BY Zenon DEF Mutate, NextGeneration
<1>4. mut' = [mut EXCEPT ![key[t]] = mut[key[t]] + 1] BY DEF Mutate
<1> HIDE DEF e
<1>5. main' \in [Keys -> Entry \cup {NoEntry}] BY <1>0, <1>2, <1>k, <1>e, CacheAddType
<1>6. mut' \in [Keys -> Nat] BY <1>0, <1>4, <1>k, <1>n, UpdatedType DEF SharedTyped
<1>7. st[t] \in StateIds BY <1>0, <1>1 DEF Holders, Holding, LocalsTyped
<1>8. gen[st[t]] + 1 \in Nat BY <1>0, <1>7 DEF SharedTyped
<1>9. gen' \in [StateIds -> Nat] BY <1>0, <1>3, <1>7, <1>8, UpdatedType DEF SharedTyped
<1>10. "release" \in Steps BY DEF Steps
<1>11. pc' \in [Threads -> Steps] BY <1>0, <1>1, <1>10, GotoType
<1>12. LocalsTyped' BY Zenon, <1>0, <1>1, <1>11 DEF LocalsTyped
<1>13. SharedTyped' BY Zenon, <1>0, <1>1, <1>5, <1>6, <1>9 DEF SharedTyped
<1> QED BY <1>0, <1>1, <1>12, <1>13, LoaderFrame, TypeParts

\* The steps of the surroundings leave the goroutines and the loader alone.
LEMMA SurroundingsType ==
  ASSUME TypeOK, UNCHANGED Surroundings, SharedTyped'
  PROVE  TypeOK'
<1>0. SF!SFTypeOK /\ LocalsTyped BY TypeParts
<1>1. UNCHANGED loader BY Zenon DEF Surroundings, loader
<1>2. LocalsTyped' BY Zenon, <1>0 DEF Surroundings, LocalsTyped
<1> QED BY <1>0, <1>1, <1>2, LoaderFrame, TypeParts

\* TypeOK is inductive together with Holders.
LEMMA TypeInductive == TypeOK /\ Holders /\ [Next]_vars => TypeOK'
<1> SUFFICES ASSUME TypeOK, Holders, [Next]_vars PROVE TypeOK'
  OBVIOUS
<1>0. SharedTyped BY TypeParts
<1>1. ASSUME NEW t \in Threads, NEW k \in Keys, NEW o \in Ops, Start(t, k, o)
      PROVE  TypeOK'
  BY <1>1, StartType
<1>2. ASSUME NEW t \in Threads, Advance(t) PROVE TypeOK'
  BY <1>2, PickOwnerType, AdoptEpochType, AcquireType, ReleaseType, ProbeType,
     EnterDoType, ReloadType, LoadType, RecheckType, StoreType, LandType, MutateType
  DEF Advance
<1>3. ASSUME NEW k \in Keys, Evict(k) PROVE TypeOK'
  <2>1. main' \in [Keys -> Entry \cup {NoEntry}]
    BY <1>0, <1>3, UpdatedType DEF Evict, SharedTyped
  <2>2. SharedTyped' BY Zenon, <1>0, <1>3, <2>1 DEF Evict, Surroundings, SharedTyped
  <2> QED BY <1>3, <2>2, SurroundingsType DEF Evict
<1>4. ASSUME Clear PROVE TypeOK'
  <2>1. main' \in [Keys -> Entry \cup {NoEntry}] BY <1>4 DEF Clear, EmptyCache
  <2>2. SharedTyped' BY Zenon, <1>0, <1>4, <2>1 DEF Clear, Surroundings, SharedTyped
  <2> QED BY <1>4, <2>2, SurroundingsType DEF Clear
<1>5. ASSUME Close PROVE TypeOK'
  <2>1. life' \in {"open", "closing", "closed"} BY <1>5 DEF Close
  <2>2. SharedTyped' BY Zenon, <1>0, <1>5, <2>1 DEF Close, Surroundings, SharedTyped
  <2> QED BY <1>5, <2>2, SurroundingsType DEF Close
<1>6. ASSUME MembershipChange PROVE TypeOK'
  <2>1. epoch' \in 1..MaxEpoch
    BY <1>0, <1>6, ConstantsAssumption DEF MembershipChange, SharedTyped
  <2>2. SharedTyped'
    BY Zenon, <1>0, <1>6, <2>1 DEF MembershipChange, Surroundings, SharedTyped
  <2> QED BY <1>6, <2>2, SurroundingsType DEF MembershipChange
<1>7. ASSUME UNCHANGED vars PROVE TypeOK'
  <2>1. UNCHANGED Surroundings /\ UNCHANGED shared
    BY Zenon, <1>7 DEF vars, Surroundings, shared
  <2> QED BY <1>0, <2>1, SharedFrame, SurroundingsType
<1> QED BY <1>1, <1>2, <1>3, <1>4, <1>5, <1>6, <1>7, NextCases

\* Holders is inductive: a step moves one goroutine, and changes what it holds
\* exactly when it enters or leaves the protected part.
LEMMA HoldersStep ==
  ASSUME TypeOK, Holders, NEW t \in Threads, NEW l, Goto(t, l),
         \A u \in Threads : u # t => st'[u] = st[u],
         st'[t] # NoState <=> l \in Holding
  PROVE  Holders'
<1>1. pc'[t] = l /\ \A u \in Threads : u # t => pc'[u] = pc[u] BY GotoMoves
<1> QED BY <1>1 DEF Holders

\* A goroutine that keeps what it holds.
LEMMA HoldersMove ==
  ASSUME TypeOK, Holders, NEW t \in Threads, NEW l, Goto(t, l), st' = st,
         pc[t] \in Holding <=> l \in Holding
  PROVE  Holders'
<1>1. st[t] # NoState <=> pc[t] \in Holding BY DEF Holders
<1> QED BY <1>1, HoldersStep

LEMMA HoldersInductive == TypeOK /\ Holders /\ [Next]_vars => Holders'
<1> SUFFICES ASSUME TypeOK, Holders, [Next]_vars PROVE Holders'
  OBVIOUS
<1>s. st \in [Threads -> StateIds \cup {NoState}] BY DEF TypeOK
<1>h. /\ {"probe", "do", "reload", "load", "recheck", "store", "fly", "mutate",
           "release"} \subseteq Holding
      /\ Holding \cap {"idle", "pick", "own", "acquire"} = {}
  BY DEF Holding, Loading
<1>1. ASSUME NEW t \in Threads, NEW k \in Keys, NEW o \in Ops, Start(t, k, o)
      PROVE  Holders'
  <2>1. pc[t] = "idle" /\ st' = st /\ (Goto(t, "pick") \/ Goto(t, "acquire"))
    BY <1>1 DEF Start
  <2> QED BY <1>h, <2>1, HoldersMove
<1>2. ASSUME NEW t \in Threads, Advance(t) PROVE Holders'
  <2>1. CASE PickOwner(t)
    <3>1. /\ pc[t] = "pick"
          /\ \/ Goto(t, "own") /\ st' = st
             \/ Goto(t, "idle") /\ st' = [st EXCEPT ![t] = NoState]
      BY Zenon, <2>1 DEF PickOwner, Forgotten
    <3> QED BY <1>s, <1>h, <3>1, HoldersMove, HoldersStep
  <2>2. CASE AdoptEpoch(t)
    <3>1. pc[t] = "own" /\ Goto(t, "acquire") /\ st' = st BY <2>2 DEF AdoptEpoch
    <3> QED BY <1>h, <3>1, HoldersMove
  <2>3. CASE AcquireKeyState(t)
    <3>1. PICK s \in StateIds : st' = [st EXCEPT ![t] = s]
      BY Zenon, <2>3 DEF AcquireKeyState
    <3>2. Goto(t, "probe") \/ Goto(t, "mutate") BY <2>3 DEF AcquireKeyState
    <3>3. st'[t] # NoState /\ \A u \in Threads : u # t => st'[u] = st[u]
      BY <1>s, <3>1, Sentinels
    <3> QED BY <1>h, <3>2, <3>3, HoldersStep
  <2>4. CASE ReleaseKeyState(t)
    <3>1. Goto(t, "idle") /\ st' = [st EXCEPT ![t] = NoState]
      BY <2>4 DEF ReleaseKeyState, Forgotten
    <3> QED BY <1>s, <1>h, <3>1, HoldersStep
  <2>5. CASE Land(t)
    <3>1. pc[t] = "fly" /\ st' = st /\ (pc' = pc \/ Goto(t, "release"))
      BY <2>5 DEF Land
    <3>2. CASE pc' = pc BY <3>1, <3>2 DEF Holders
    <3> QED BY <1>h, <3>1, <3>2, HoldersMove
  <2>6. ASSUME NEW l \in Holding, Goto(t, l), pc[t] \in Holding, st' = st
        PROVE  Holders'
    BY <2>6, HoldersMove
  <2>7. CASE Probe(t)
    <3>1. pc[t] = "probe" /\ st' = st /\ (Goto(t, "release") \/ Goto(t, "do"))
      BY <2>7 DEF Probe
    <3> QED BY <1>h, <2>6, <3>1
  <2>8. CASE EnterDo(t)
    <3>1. pc[t] = "do" /\ st' = st /\ (Goto(t, "fly") \/ Goto(t, "reload"))
      BY <2>8 DEF EnterDo
    <3> QED BY <1>h, <2>6, <3>1
  <2>9. CASE Reload(t)
    <3>1. pc[t] = "reload" /\ st' = st /\ (Goto(t, "fly") \/ Goto(t, "load"))
      BY <2>9 DEF Reload, FnReturns
    <3> QED BY <1>h, <2>6, <3>1
  <2>10. CASE Load(t)
    <3>1. /\ pc[t] = "load" /\ st' = st
          /\ Goto(t, "fly") \/ Goto(t, "recheck") \/ Goto(t, "store")
      BY <2>10 DEF Load, FnReturns
    <3> QED BY <1>h, <2>6, <3>1
  <2>11. CASE Recheck(t)
    <3>1. pc[t] = "recheck" /\ st' = st /\ (Goto(t, "fly") \/ Goto(t, "store"))
      BY <2>11 DEF Recheck, FnReturns
    <3> QED BY <1>h, <2>6, <3>1
  <2>12. CASE Store(t)
    <3>1. pc[t] = "store" /\ st' = st /\ Goto(t, "fly") BY <2>12 DEF Store, FnReturns
    <3> QED BY <1>h, <2>6, <3>1
  <2>13. CASE Mutate(t)
    <3>1. pc[t] = "mutate" /\ st' = st /\ Goto(t, "release") BY <2>13 DEF Mutate
    <3> QED BY <1>h, <2>6, <3>1
  <2> QED BY <1>2, <2>1, <2>2, <2>3, <2>4, <2>5, <2>7, <2>8, <2>9, <2>10, <2>11,
             <2>12, <2>13 DEF Advance
<1>3. ASSUME UNCHANGED Surroundings \/ UNCHANGED vars PROVE Holders'
  <2>1. UNCHANGED <<pc, st>> BY Zenon, <1>3 DEF Surroundings, vars
  <2> QED BY <2>1 DEF Holders
<1> QED
  BY <1>1, <1>2, <1>3, NextCases DEF Evict, Clear, Close, MembershipChange

\* The initial states satisfy both.
LEMMA InitTypes == Init => TypeOK /\ Holders
<1> SUFFICES ASSUME Init PROVE TypeOK /\ Holders
  OBVIOUS
<1>1. NoBuf \in Entry BY EntryFields DEF NoBuf
<1>2. SF!SFTypeOK BY DEF Init, SF!SFInit, SF!SFTypeOK, SF!Places
<1>3. epoch \in 1..MaxEpoch BY ConstantsAssumption DEF Init
<1>4. TypeOK BY <1>1, <1>2, <1>3 DEF Init, TypeOK, Steps, Ops, EmptyCache
<1>5. Holders BY DEF Init, Holders, Holding, Loading
<1> QED BY <1>4, <1>5

\* Every variable keeps its type: no step of an owner operation stores anything
\* that the next one could not handle.
THEOREM TypeCorrect == Spec => []TypeOK
BY InitTypes, TypeInductive, HoldersInductive, PTL DEF Spec

\* An operation in progress keeps its key.
LEMMA AdvanceKeepsKey ==
  ASSUME NEW t \in Threads, Advance(t) PROVE key' = key
<1>1. CASE PickOwner(t) BY Zenon, <1>1 DEF PickOwner
<1>2. CASE AdoptEpoch(t) BY Zenon, <1>2 DEF AdoptEpoch, Quiet
<1>3. CASE AcquireKeyState(t) BY Zenon, <1>3 DEF AcquireKeyState, Quiet
<1>4. CASE ReleaseKeyState(t) BY Zenon, <1>4 DEF ReleaseKeyState
<1>5. CASE Probe(t) BY Zenon, <1>5 DEF Probe, Quiet
<1>6. CASE EnterDo(t) BY Zenon, <1>6 DEF EnterDo
<1>7. CASE Reload(t) BY Zenon, <1>7 DEF Reload, Quiet
<1>8. CASE Load(t) BY Zenon, <1>8 DEF Load, Quiet
<1>9. CASE Recheck(t) BY Zenon, <1>9 DEF Recheck, Quiet
<1>10. CASE Store(t) BY Zenon, <1>10 DEF Store, Quiet
<1>11. CASE Land(t) BY Zenon, <1>11 DEF Land, Quiet
<1>12. CASE Mutate(t) BY Zenon, <1>12 DEF Mutate
<1> QED BY Zenon, <1>1, <1>2, <1>3, <1>4, <1>5, <1>6, <1>7, <1>8, <1>9, <1>10, <1>11,
           <1>12 DEF Advance

\* The invariants, grouped by the argument that shows them inductive.
LoaderInv == Positions /\ SF!CallsInv
FreshInv == LoadsAreCurrent /\ NoStaleFill
EpochInv == EpochsAreOrdered /\ EntriesAreCurrent

\* A state with one reference has one holder.
SoleHolder ==
  \A t, u \in Threads : st[t] = st[u] /\ st[t] # NoState /\ refs[st[t]] = 1 => t = u

-----------------------------------------------------------------------------
(* What a single step leaves alone, and where a goroutine is in singleflight. *)

\* A goroutine whose operation ends leaves the operations of the others alone.
LEMMA ForgottenMoves ==
  ASSUME TypeOK, NEW t \in Threads, Forgotten(t)
  PROVE  /\ ep'[t] = 0 /\ op'[t] = "get"
         /\ \A u \in Threads : u # t =>
              /\ op'[u] = op[u] /\ ep'[u] = ep[u] /\ ret'[u] = ret[u]
              /\ began'[u] = began[u] /\ late'[u] = late[u] /\ st'[u] = st[u]
              /\ startGen'[u] = startGen[u] /\ buf'[u] = buf[u]
<1>0. LocalsTyped BY TypeParts
<1>1. ep'[t] = 0 /\ \A u \in Threads : u # t => ep'[u] = ep[u]
  BY <1>0, Updated DEF Forgotten, LocalsTyped
<1>2. op'[t] = "get" /\ \A u \in Threads : u # t => op'[u] = op[u]
  BY <1>0, Updated DEF Forgotten, LocalsTyped
<1>3. \A u \in Threads : u # t => ret'[u] = ret[u]
  BY <1>0, Updated DEF Forgotten, LocalsTyped
<1>4. \A u \in Threads : u # t => began'[u] = began[u]
  BY <1>0, Updated DEF Forgotten, LocalsTyped
<1>5. \A u \in Threads : u # t => late'[u] = late[u]
  BY <1>0, Updated DEF Forgotten, LocalsTyped
<1>6. \A u \in Threads : u # t => st'[u] = st[u]
  BY <1>0, Updated DEF Forgotten, LocalsTyped
<1>7. \A u \in Threads : u # t => startGen'[u] = startGen[u]
  BY <1>0, Updated DEF Forgotten, LocalsTyped
<1>8. \A u \in Threads : u # t => buf'[u] = buf[u]
  BY <1>0, Updated DEF Forgotten, LocalsTyped
<1> QED BY <1>1, <1>2, <1>3, <1>4, <1>5, <1>6, <1>7, <1>8

\* A goroutine that is not loading, waiting or returning from Do is outside it.
LEMMA OutsideDo ==
  ASSUME TypeOK, Positions, NEW t \in Threads,
         pc[t] \notin {"reload", "fly"} \cup Loading
  PROVE  at[t] = "out"
<1>1. at[t] \in SF!Places BY DEF TypeOK, SF!SFTypeOK
<1>2. at[t] \notin {"run", "wait", "ran", "forgot", "got"} BY DEF Positions
<1> QED BY <1>1, <1>2 DEF SF!Places

\* What the actions of Do change, thread by thread.
LEMMA LoaderTypes ==
  ASSUME TypeOK
  PROVE  /\ at \in [Threads -> SF!Places]
         /\ on \in [Threads -> Threads \cup {NoThread}]
         /\ res \in [Threads -> Entry \cup Errors \cup {NoResult}]
BY DEF TypeOK, SF!SFTypeOK

LEMMA LeadMoves ==
  ASSUME TypeOK, NEW t \in Threads, SF!Lead(t)
  PROVE  /\ at'[t] = "run" /\ res' = res
         /\ \A u \in Threads : u # t => at'[u] = at[u] /\ on'[u] = on[u]
<1>1. at' = [at EXCEPT ![t] = "run"] /\ on' = [on EXCEPT ![t] = t] /\ res' = res
  BY DEF SF!Lead
<1> QED BY <1>1, LoaderTypes

LEMMA JoinMoves ==
  ASSUME TypeOK, NEW t \in Threads, SF!Join(t)
  PROVE  /\ at'[t] = "wait" /\ on'[t] = m[key[t]] /\ m[key[t]] # NoThread
         /\ res' = res
         /\ \A u \in Threads : u # t => at'[u] = at[u] /\ on'[u] = on[u]
<1>1. /\ at' = [at EXCEPT ![t] = "wait"] /\ on' = [on EXCEPT ![t] = m[key[t]]]
      /\ res' = res /\ m[key[t]] # NoThread
  BY DEF SF!Join, SF!InFlight
<1> QED BY <1>1, LoaderTypes

LEMMA FnReturnsMoves ==
  ASSUME TypeOK, NEW t \in Threads, NEW r, SF!FnReturns(t, r)
  PROVE  /\ at[t] = "run" /\ at'[t] = "ran" /\ res'[t] = r /\ on' = on
         /\ \A u \in Threads : u # t => at'[u] = at[u] /\ res'[u] = res[u]
<1>1. /\ at' = [at EXCEPT ![t] = "ran"] /\ res' = [res EXCEPT ![t] = r]
      /\ at[t] = "run" /\ on' = on
  BY DEF SF!FnReturns
<1> QED BY <1>1, LoaderTypes

LEMMA ForgetMoves ==
  ASSUME TypeOK, NEW t \in Threads, SF!Forget(t)
  PROVE  /\ at[t] = "ran" /\ at'[t] = "forgot" /\ on' = on /\ res' = res
         /\ \A u \in Threads : u # t => at'[u] = at[u]
<1>1. /\ at[t] = "ran" /\ at' = [at EXCEPT ![t] = "forgot"] /\ on' = on /\ res' = res
  BY DEF SF!Forget
<1> QED BY <1>1, LoaderTypes

LEMMA ReturnMoves ==
  ASSUME TypeOK, NEW t \in Threads, SF!Return(t)
  PROVE  /\ at[t] = "got" /\ at'[t] = "out"
         /\ \A u \in Threads : u # t =>
              at'[u] = at[u] /\ on'[u] = on[u] /\ res'[u] = res[u]
<1>1. /\ at[t] = "got" /\ at' = [at EXCEPT ![t] = "out"]
      /\ on' = [on EXCEPT ![t] = NoThread] /\ res' = [res EXCEPT ![t] = NoResult]
  BY DEF SF!Return
<1> QED BY <1>1, LoaderTypes

-----------------------------------------------------------------------------
(* The loader: one source load per key.                                    *)

\* Where a goroutine in getLocal is in Do.
PlaceFits(l, a, o) ==
  /\ l \in {"reload"} \cup Loading <=> a = "run"
  /\ l = "fly" <=> a \in {"wait", "ran", "forgot", "got"}
  /\ l \in {"probe", "do", "reload", "fly"} \cup Loading => o = "get"
  /\ l = "mutate" => o # "get"
  /\ l \in {"pick", "own"} => Clustered /\ o # "inv"

LEMMA PositionsFit ==
  /\ Positions <=> \A u \in Threads : PlaceFits(pc[u], at[u], op[u])
  /\ Positions' <=> \A u \in Threads : PlaceFits(pc'[u], at'[u], op'[u])
BY Zenon DEF Positions, PlaceFits

\* A step of t that leaves the positions of the others alone.
LEMMA PositionsStep ==
  ASSUME TypeOK, Positions, NEW t \in Threads, NEW l, Goto(t, l),
         PlaceFits(l, at'[t], op'[t]),
         \A u \in Threads : u # t => at'[u] = at[u] /\ op'[u] = op[u]
  PROVE  Positions'
<1>1. pc'[t] = l /\ \A u \in Threads : u # t => pc'[u] = pc[u] BY GotoMoves
<1>2. \A u \in Threads : PlaceFits(pc[u], at[u], op[u]) BY PositionsFit
<1>3. ASSUME NEW u \in Threads PROVE PlaceFits(pc'[u], at'[u], op'[u])
  BY Zenon, <1>1, <1>2
<1> QED BY <1>3, PositionsFit

\* The end of a call: the leader and those it wakes stay in "fly".
LEMMA LandPositions ==
  ASSUME TypeOK, Positions, NEW t \in Threads, Land(t)
  PROVE  Positions'
<1>f. \A u \in Threads : PlaceFits(pc[u], at[u], op[u]) BY PositionsFit
<1>0. pc[t] = "fly" /\ op' = op BY DEF Land, Quiet
<1>1. ASSUME pc' = pc,
             \A u \in Threads :
               \/ at'[u] = at[u]
               \/ at[u] \in {"wait", "ran", "forgot"} /\ at'[u] \in {"forgot", "got"}
      PROVE  Positions'
  <2>1. ASSUME NEW u \in Threads PROVE PlaceFits(pc[u], at'[u], op[u])
    <3>1. PlaceFits(pc[u], at[u], op[u]) BY <1>f
    <3> QED BY <1>1, <3>1 DEF PlaceFits
  <2> QED BY <1>0, <1>1, <2>1, PositionsFit
<1>2. CASE SF!Forget(t) /\ pc' = pc
  BY <1>1, <1>2, ForgetMoves
<1>3. CASE SF!Done(t) /\ pc' = pc
  <2>1. /\ at[t] = "forgot"
        /\ at' = [u \in Threads |-> IF u \in SF!Woken(t) THEN "got" ELSE at[u]]
    BY <1>3 DEF SF!Done
  <2>2. \A u \in Threads : u \in SF!Woken(t) => at[u] \in {"wait", "forgot"}
    BY <2>1 DEF SF!Woken
  <2>3. \A u \in Threads : at'[u] = at[u] \/ (u \in SF!Woken(t) /\ at'[u] = "got")
    BY <2>1
  <2> QED BY <1>1, <1>3, <2>2, <2>3
<1>4. CASE SF!Return(t) /\ Goto(t, "release")
  <2>1. op[t] = "get" BY <1>0, <1>f DEF PlaceFits
  <2>2. PlaceFits("release", "out", "get") BY DEF PlaceFits, Loading
  <2> QED BY <1>0, <1>4, <2>1, <2>2, ReturnMoves, PositionsStep
<1> QED BY <1>2, <1>3, <1>4 DEF Land

\* The position of a goroutine in getLocal and in Do move together.
LEMMA PositionsInductive ==
  TypeOK /\ Positions /\ [Next]_vars => Positions'
<1> SUFFICES ASSUME TypeOK, Positions, [Next]_vars PROVE Positions'
  OBVIOUS
<1>o. op \in [Threads -> Ops] BY OutcomeTypes
<1>f. \A u \in Threads : PlaceFits(pc[u], at[u], op[u]) BY PositionsFit
<1>1. ASSUME NEW t \in Threads, NEW k \in Keys, NEW o \in Ops, Start(t, k, o)
      PROVE  Positions'
  <2>1. /\ pc[t] = "idle" /\ at' = at /\ op' = [op EXCEPT ![t] = o]
        /\ Goto(t, IF Clustered /\ o # "inv" THEN "pick" ELSE "acquire")
    BY <1>1 DEF Start, loader
  <2>2. at[t] = "out" BY <2>1, OutsideDo DEF Loading
  <2>3. op'[t] = o /\ \A u \in Threads : u # t => op'[u] = op[u] BY <1>o, <2>1
  <2>4. PlaceFits("acquire", "out", o) BY DEF PlaceFits, Loading
  <2>5. Clustered /\ o # "inv" => PlaceFits("pick", "out", o) BY DEF PlaceFits, Loading
  <2> QED BY <2>1, <2>2, <2>3, <2>4, <2>5, PositionsStep
<1>2. ASSUME NEW t \in Threads, Advance(t) PROVE Positions'
  <2>f. PlaceFits(pc[t], at[t], op[t]) BY <1>f
  <2>0. ASSUME NEW l, Goto(t, l), at' = at, op' = op, PlaceFits(l, at[t], op[t])
        PROVE  Positions'
    BY <2>0, PositionsStep
  <2>1. ASSUME Goto(t, "idle"), at' = at, op' = [op EXCEPT ![t] = "get"],
               pc[t] \in {"pick", "release"}
        PROVE  Positions'
    <3>1. at[t] = "out" BY <2>1, OutsideDo DEF Loading
    <3>2. op'[t] = "get" /\ \A u \in Threads : u # t => op'[u] = op[u] BY <1>o, <2>1
    <3>3. PlaceFits("idle", "out", "get") BY DEF PlaceFits, Loading
    <3> QED BY <2>1, <3>1, <3>2, <3>3, PositionsStep
  <2>2. CASE PickOwner(t)
    <3>1. /\ pc[t] = "pick" /\ at' = at
          /\ \/ Goto(t, "own") /\ op' = op
             \/ Goto(t, "idle") /\ op' = [op EXCEPT ![t] = "get"]
      BY <2>2 DEF PickOwner, Forgotten, loader
    <3>2. PlaceFits("own", at[t], op[t]) BY <2>f, <3>1 DEF PlaceFits, Loading
    <3> QED BY <2>0, <2>1, <3>1, <3>2
  <2>3. CASE AdoptEpoch(t)
    <3>1. pc[t] = "own" /\ at' = at /\ op' = op /\ Goto(t, "acquire")
      BY <2>3 DEF AdoptEpoch, loader, Quiet
    <3>2. PlaceFits("acquire", at[t], op[t]) BY <2>f, <3>1 DEF PlaceFits, Loading
    <3> QED BY <2>0, <3>1, <3>2
  <2>4. CASE AcquireKeyState(t)
    <3>1. /\ pc[t] = "acquire" /\ at' = at /\ op' = op
          /\ Goto(t, IF op[t] = "get" THEN "probe" ELSE "mutate")
      BY <2>4 DEF AcquireKeyState, loader, Quiet
    <3>2. PlaceFits(IF op[t] = "get" THEN "probe" ELSE "mutate", at[t], op[t])
      BY <2>f, <3>1 DEF PlaceFits, Loading
    <3> QED BY <2>0, <3>1, <3>2
  <2>5. CASE ReleaseKeyState(t)
    BY <2>1, <2>5 DEF ReleaseKeyState, Forgotten, loader
  <2>6. CASE Probe(t)
    <3>1. /\ pc[t] = "probe" /\ at' = at /\ op' = op
          /\ Goto(t, "release") \/ Goto(t, "do")
      BY <2>6 DEF Probe, loader, Quiet
    <3>2. PlaceFits("release", at[t], op[t]) /\ PlaceFits("do", at[t], op[t])
      BY <2>f, <3>1 DEF PlaceFits, Loading
    <3> QED BY <2>0, <3>1, <3>2
  <2>7. CASE EnterDo(t)
    <3>1. /\ pc[t] = "do" /\ op' = op
          /\ (SF!Join(t) /\ Goto(t, "fly")) \/ (SF!Lead(t) /\ Goto(t, "reload"))
      BY <2>7 DEF EnterDo
    <3>2. op[t] = "get" BY <2>f, <3>1 DEF PlaceFits
    <3>3. PlaceFits("fly", "wait", "get") /\ PlaceFits("reload", "run", "get")
      BY DEF PlaceFits, Loading
    <3> QED BY <3>1, <3>2, <3>3, JoinMoves, LeadMoves, PositionsStep
  <2>8. CASE Reload(t) \/ Load(t) \/ Recheck(t) \/ Store(t)
    <3>1. /\ pc[t] \in {"reload"} \cup Loading /\ op' = op
          /\ \/ Goto(t, "fly") /\ \E r : SF!FnReturns(t, r)
             \/ (\E l \in Loading : Goto(t, l)) /\ at' = at
      <4>1. CASE Reload(t) BY <4>1 DEF Reload, FnReturns, loader, Quiet, Loading
      <4>2. CASE Load(t) BY <4>2 DEF Load, FnReturns, loader, Quiet, Loading
      <4>3. CASE Recheck(t) BY <4>3 DEF Recheck, FnReturns, loader, Quiet, Loading
      <4>4. CASE Store(t) BY <4>4 DEF Store, FnReturns, Quiet, Loading
      <4> QED BY <2>8, <4>1, <4>2, <4>3, <4>4
    <3>2. op[t] = "get" /\ at[t] = "run" BY <2>f, <3>1 DEF PlaceFits
    <3>3. PlaceFits("fly", "ran", "get") /\ \A l \in Loading : PlaceFits(l, "run", "get")
      BY DEF PlaceFits, Loading
    <3>4. CASE Goto(t, "fly") /\ \E r : SF!FnReturns(t, r)
      BY <3>1, <3>2, <3>3, <3>4, FnReturnsMoves, PositionsStep
    <3> QED BY <2>0, <3>1, <3>2, <3>3, <3>4
  <2>9. CASE Land(t) BY <1>f, <2>9, LandPositions
  <2>10. CASE Mutate(t)
    <3>1. pc[t] = "mutate" /\ at' = at /\ op' = op /\ Goto(t, "release")
      BY <2>10 DEF Mutate, loader
    <3>2. PlaceFits("release", at[t], op[t]) BY <2>f, <3>1 DEF PlaceFits, Loading
    <3> QED BY <2>0, <3>1, <3>2
  <2> QED BY <1>2, <2>2, <2>3, <2>4, <2>5, <2>6, <2>7, <2>8, <2>9, <2>10 DEF Advance
<1>3. ASSUME UNCHANGED Surroundings \/ UNCHANGED vars PROVE Positions'
  <2>1. UNCHANGED <<pc, at, op>> BY Zenon, <1>3 DEF Surroundings, vars
  <2> QED BY <2>1 DEF Positions
<1> QED
  BY <1>1, <1>2, <1>3, NextCases DEF Evict, Clear, Close, MembershipChange

\* An operation in progress moves the loader by an action of Do or not at all.
LEMMA AdvanceMovesLoader ==
  ASSUME TypeOK, NEW t \in Threads, Advance(t)
  PROVE  UNCHANGED loader \/ LoaderMoves(t)
<1>0. LocalsTyped /\ SharedTyped BY TypeParts
<1>k. key[t] \in Keys /\ buf[t] \in Entry BY <1>0 DEF LocalsTyped
<1>g. CacheGet(key[t]) \in Entry \cup {NoEntry} BY <1>0, <1>k, CacheGetType
<1>e. ErrSource \in Errors /\ ErrTopologyChanged \in Errors /\ ErrCacheMiss \in Errors
  BY DEF Errors
<1>r. ASSUME NEW r \in Entry \cup Errors, FnReturns(t, r) PROVE LoaderMoves(t)
  BY Zenon, <1>r DEF FnReturns, LoaderMoves
<1>1. CASE PickOwner(t) BY Zenon, <1>1 DEF PickOwner
<1>2. CASE AdoptEpoch(t) BY Zenon, <1>2 DEF AdoptEpoch
<1>3. CASE AcquireKeyState(t) BY Zenon, <1>3 DEF AcquireKeyState
<1>4. CASE ReleaseKeyState(t) BY Zenon, <1>4 DEF ReleaseKeyState
<1>5. CASE Probe(t) BY Zenon, <1>5 DEF Probe
<1>6. CASE EnterDo(t) BY Zenon, <1>6 DEF EnterDo, LoaderMoves
<1>7. CASE Reload(t)
  <2>1. UNCHANGED loader \/ (CacheGet(key[t]) # NoEntry /\ FnReturns(t, CacheGet(key[t])))
    BY <1>7 DEF Reload
  <2> QED BY <1>g, <1>r, <2>1
<1>8. CASE Load(t)
  <2>1. UNCHANGED loader \/ FnReturns(t, ErrSource) BY Zenon, <1>8 DEF Load
  <2> QED BY <1>e, <1>r, <2>1
<1>9. CASE Recheck(t)
  <2>1. UNCHANGED loader \/ FnReturns(t, ErrTopologyChanged) BY <1>9 DEF Recheck
  <2> QED BY <1>e, <1>r, <2>1
<1>10. CASE Store(t)
  <2>1. EntryOf(buf[t].mut, buf[t].asof, epoch) \in Entry
    BY <1>k, EntryFields, EntryTypes, EpochType
  <2>2. \/ FnReturns(t, EntryOf(buf[t].mut, buf[t].asof, epoch))
        \/ CacheGet(key[t]) # NoEntry /\ FnReturns(t, CacheGet(key[t]))
        \/ FnReturns(t, ErrCacheMiss)
    BY <1>10 DEF Store
  <2> QED BY <1>e, <1>g, <1>r, <2>1, <2>2
<1>11. CASE Land(t) BY Zenon, <1>11 DEF Land, LoaderMoves
<1>12. CASE Mutate(t) BY Zenon, <1>12 DEF Mutate
<1> QED BY Zenon, <1>1, <1>2, <1>3, <1>4, <1>5, <1>6, <1>7, <1>8, <1>9, <1>10, <1>11,
           <1>12 DEF Advance

\* The calls of the loader stay consistent.
LEMMA CallsInductive ==
  TypeOK /\ LoaderInv /\ [Next]_vars => SF!CallsInv'
<1> SUFFICES ASSUME TypeOK, LoaderInv, [Next]_vars PROVE SF!CallsInv'
  OBVIOUS
<1>t. SF!SFTypeOK /\ SFP!SFTypeOK /\ SFP!CallsInv /\ key \in [Threads -> Keys]
  BY SameLoader, TypeParts DEF LocalsTyped, LoaderInv
<1>f. ASSUME UNCHANGED loader,
             \A t \in Threads : at[t] # "out" => key'[t] = key[t]
      PROVE  SF!CallsInv'
  <2>0. UNCHANGED <<m, at, on, res>> BY <1>f DEF loader
  <2>1. SFP!CallsInv' BY <1>f, <1>t, <2>0, Sentinels, SFP!CallsFrame
  <2> QED BY <2>1, SameLoader
<1>k. ASSUME UNCHANGED <<loader, key>> PROVE SF!CallsInv'
  BY <1>f, <1>k
<1>m. ASSUME NEW t \in Threads, LoaderMoves(t), key' = key PROVE SF!CallsInv'
  BY <1>m, <1>t, SameLoader, Sentinels, SFP!DoActionCalls
<1>1. ASSUME NEW t \in Threads, NEW k \in Keys, NEW o \in Ops, Start(t, k, o)
      PROVE  SF!CallsInv'
  <2>0. pc[t] = "idle" /\ key' = [key EXCEPT ![t] = k] /\ UNCHANGED loader
    BY <1>1 DEF Start
  <2>1. at[t] = "out" BY <2>0, OutsideDo DEF LoaderInv, Loading
  <2>2. \A u \in Threads : at[u] # "out" => key'[u] = key[u] BY <1>t, <2>0, <2>1
  <2> QED BY <1>f, <2>0, <2>2
<1>2. ASSUME NEW t \in Threads, Advance(t) PROVE SF!CallsInv'
  BY <1>2, <1>k, <1>m, AdvanceKeepsKey, AdvanceMovesLoader
<1>3. ASSUME UNCHANGED Surroundings \/ UNCHANGED vars PROVE SF!CallsInv'
  <2>1. UNCHANGED <<loader, key>> BY Zenon, <1>3 DEF Surroundings, vars, loader
  <2> QED BY <1>k, <2>1
<1> QED
  BY <1>1, <1>2, <1>3, NextCases DEF Evict, Clear, Close, MembershipChange

LEMMA InitLoader == Init => LoaderInv
<1> SUFFICES ASSUME Init PROVE LoaderInv
  OBVIOUS
<1>1. Positions BY DEF Init, SF!SFInit, Positions, Loading
<1>2. SF!CallsInv
  BY Sentinels
  DEF Init, SF!SFInit, SF!CallsInv, SF!NoOrphanWaiter, SF!NoFinishedCallInMap,
      SF!LeadersInMap
<1> QED BY <1>1, <1>2 DEF LoaderInv

\* The source is asked for a key by at most one goroutine of the node at a time.
THEOREM OneSourceLoad == Spec => []OneSourceLoadPerKey
<1>1. LoaderInv => OneSourceLoadPerKey
  BY DEF LoaderInv, Positions, Loading, SF!CallsInv, SF!LeadersInMap,
         OneSourceLoadPerKey
<1>2. TypeOK /\ LoaderInv /\ [Next]_vars => LoaderInv'
  BY PositionsInductive, CallsInductive DEF LoaderInv
<1> QED
  BY <1>1, <1>2, InitTypes, InitLoader, TypeInductive, HoldersInductive, PTL DEF Spec

-----------------------------------------------------------------------------
(* Generations: loads do not overwrite mutations.                          *)

\* A load in progress is untouched by a step that keeps its locals, the
\* generation of its state and the mutation count of its key.
LEMMA LoadsFrame ==
  ASSUME LoadsAreCurrent,
         \A u \in Threads : pc'[u] \in Loading =>
           /\ pc[u] \in Loading /\ startGen'[u] = startGen[u]
           /\ buf'[u].mut = buf[u].mut
           /\ gen'[st'[u]] = gen[st[u]] /\ mut'[key'[u]] = mut[key[u]]
  PROVE  LoadsAreCurrent'
BY DEF LoadsAreCurrent

\* NoStaleFill survives steps that only remove entries.
LEMMA FillFrame ==
  ASSUME NoStaleFill, UNCHANGED mut,
         \A k \in Keys : CacheGet(k)' = CacheGet(k) \/ CacheGet(k)' = NoEntry
  PROVE  NoStaleFill'
<1> SUFFICES ASSUME NEW k \in Keys, CacheGet(k)' # NoEntry
             PROVE  CacheGet(k)'.mut = mut'[k]
  BY DEF NoStaleFill
<1>1. CacheGet(k)' = CacheGet(k) OBVIOUS
<1> QED BY <1>1 DEF NoStaleFill

LEMMA FillKept ==
  ASSUME NoStaleFill, UNCHANGED <<main, mut, life>>
  PROVE  NoStaleFill'
BY FillFrame DEF CacheGet

\* The types loads are about.
LEMMA LoadTypes ==
  ASSUME TypeOK
  PROVE  /\ gen \in [StateIds -> Nat] /\ mut \in [Keys -> Nat]
         /\ startGen \in [Threads -> Nat] /\ buf \in [Threads -> Entry]
         /\ st \in [Threads -> StateIds \cup {NoState}] /\ key \in [Threads -> Keys]
BY Zenon DEF TypeOK

LEMMA HoldsState ==
  ASSUME TypeOK, Holders, NEW t \in Threads, pc[t] \in Holding
  PROVE  st[t] \in StateIds
BY LoadTypes DEF Holders

LEMMA LoadingHolds == Loading \subseteq Holding
BY DEF Holding

\* Who is loading after t has moved to l.
LEMMA LeavesLoading ==
  ASSUME TypeOK, NEW t \in Threads, NEW l, Goto(t, l), l \notin Loading
  PROVE  \A u \in Threads : pc'[u] \in Loading => u # t /\ pc[u] \in Loading
BY GotoMoves

LEMMA StaysLoading ==
  ASSUME TypeOK, NEW t \in Threads, NEW l, Goto(t, l), pc[t] \in Loading
  PROVE  \A u \in Threads : pc'[u] \in Loading => pc[u] \in Loading
BY GotoMoves

\* Steps that leave loads, generations and the cache alone.
LEMMA FreshFrame ==
  ASSUME FreshInv, UNCHANGED <<gen, mut, main, life, st, startGen, buf, key>>,
         \A u \in Threads : pc'[u] \in Loading => pc[u] \in Loading
  PROVE  FreshInv'
<1>1. LoadsAreCurrent' BY LoadsFrame DEF FreshInv
<1>2. NoStaleFill' BY FillKept DEF FreshInv
<1> QED BY <1>1, <1>2 DEF FreshInv

\* Steps of a goroutine that is not loading and leaves the cache alone.
LEMMA FreshMove ==
  ASSUME TypeOK, FreshInv, NEW t \in Threads, NEW l, Goto(t, l), l \notin Loading,
         UNCHANGED <<gen, mut, main, life, key>>,
         \A u \in Threads : u # t =>
           st'[u] = st[u] /\ startGen'[u] = startGen[u] /\ buf'[u] = buf[u]
  PROVE  FreshInv'
<1>1. \A u \in Threads : pc'[u] \in Loading => u # t /\ pc[u] \in Loading
  BY LeavesLoading
<1>2. LoadsAreCurrent' BY <1>1, LoadsFrame DEF FreshInv
<1>3. NoStaleFill' BY FillKept DEF FreshInv
<1> QED BY <1>2, <1>3 DEF FreshInv

LEMMA StartFresh ==
  ASSUME TypeOK, FreshInv, NEW t \in Threads, NEW k \in Keys, NEW o \in Ops,
         Start(t, k, o)
  PROVE  FreshInv'
<1>0. /\ UNCHANGED <<gen, mut, main, life, st, startGen, buf>>
      /\ key' = [key EXCEPT ![t] = k] /\ (Goto(t, "pick") \/ Goto(t, "acquire"))
  BY DEF Start, states
<1>1. \A u \in Threads : pc'[u] \in Loading => u # t /\ pc[u] \in Loading
  BY <1>0, LeavesLoading DEF Loading
<1>2. \A u \in Threads : u # t => key'[u] = key[u] BY <1>0, LoadTypes
<1>3. LoadsAreCurrent' BY <1>0, <1>1, <1>2, LoadsFrame DEF FreshInv
<1>4. NoStaleFill' BY <1>0, FillKept DEF FreshInv
<1> QED BY <1>3, <1>4 DEF FreshInv

LEMMA PickOwnerFresh ==
  ASSUME TypeOK, FreshInv, NEW t \in Threads, PickOwner(t)
  PROVE  FreshInv'
<1>1. UNCHANGED <<gen, mut, main, life, key>> BY Zenon DEF PickOwner, states
<1>2. \/ Goto(t, "own") /\ UNCHANGED <<st, startGen, buf>>
      \/ Goto(t, "idle") /\ Forgotten(t)
  BY Zenon DEF PickOwner
<1>3. "own" \notin Loading /\ "idle" \notin Loading BY DEF Loading
<1> QED BY <1>1, <1>2, <1>3, FreshMove, ForgottenMoves

LEMMA AdoptEpochFresh ==
  ASSUME TypeOK, FreshInv, NEW t \in Threads, AdoptEpoch(t)
  PROVE  FreshInv'
<1>0. /\ UNCHANGED <<gen, mut, life, st, startGen, buf, key>> /\ Goto(t, "acquire")
      /\ main' = main \/ (life # "closed" /\ main' = EmptyCache)
  BY DEF AdoptEpoch, states, Quiet, history, CacheClear
<1>1. \A u \in Threads : pc'[u] \in Loading => pc[u] \in Loading
  BY <1>0, LeavesLoading DEF Loading
<1>2. LoadsAreCurrent' BY <1>0, <1>1, LoadsFrame DEF FreshInv
<1>3. \A k \in Keys : CacheGet(k)' = CacheGet(k) \/ CacheGet(k)' = NoEntry
  BY <1>0 DEF CacheGet, EmptyCache
<1> QED BY <1>0, <1>2, <1>3, FillFrame DEF FreshInv

LEMMA AcquireFresh ==
  ASSUME TypeOK, FreshInv, NEW t \in Threads, AcquireKeyState(t)
  PROVE  FreshInv'
<1>0. /\ UNCHANGED <<mut, main, life, startGen, buf, key>>
      /\ Goto(t, "probe") \/ Goto(t, "mutate")
  BY DEF AcquireKeyState, Quiet, history
<1>1. PICK s \in StateIds :
        /\ IF keyStates[key[t]] = NoState THEN Free(s) ELSE s = keyStates[key[t]]
        /\ st' = [st EXCEPT ![t] = s]
        /\ gen' = [gen EXCEPT ![s] = IF keyStates[key[t]] = NoState THEN 0 ELSE @]
  BY Zenon DEF AcquireKeyState
<1>2. \A u \in Threads : pc'[u] \in Loading => u # t /\ pc[u] \in Loading
  BY <1>0, LeavesLoading DEF Loading
<1>3. \A u \in Threads : u # t => st'[u] = st[u] BY <1>1, LoadTypes
<1>4. gen' = gen \/ \A u \in Threads : st[u] # s BY <1>1, LoadTypes DEF Free
<1>5. \A u \in Threads : gen'[st[u]] = gen[st[u]] BY <1>1, <1>4, LoadTypes
<1>6. LoadsAreCurrent' BY <1>0, <1>2, <1>3, <1>5, LoadsFrame DEF FreshInv
<1>7. NoStaleFill' BY <1>0, FillKept DEF FreshInv
<1> QED BY <1>6, <1>7 DEF FreshInv

LEMMA ReleaseFresh ==
  ASSUME TypeOK, Holders, SoleHolder, FreshInv, NEW t \in Threads, ReleaseKeyState(t)
  PROVE  FreshInv'
<1>0. /\ UNCHANGED <<mut, main, life, key>> /\ Goto(t, "idle") /\ Forgotten(t)
      /\ gen' = [gen EXCEPT ![st[t]] = IF refs[st[t]] = 1 THEN 0 ELSE @]
      /\ pc[t] = "release"
  BY Zenon DEF ReleaseKeyState
<1>1. \A u \in Threads : pc'[u] \in Loading => u # t /\ pc[u] \in Loading
  BY <1>0, LeavesLoading DEF Loading
<1>2. st[t] \in StateIds BY <1>0, HoldsState DEF Holding
<1>3. refs[st[t]] = 1 => \A u \in Threads : u # t => st[u] # st[t]
  BY <1>2, Sentinels DEF SoleHolder
<1>4. ASSUME NEW u \in Threads, u # t, pc[u] \in Loading PROVE gen'[st[u]] = gen[st[u]]
  <2>1. st[u] \in StateIds BY <1>4, HoldsState, LoadingHolds
  <2> QED BY <1>0, <1>2, <1>3, <1>4, <2>1, LoadTypes
<1>5. LoadsAreCurrent'
  <2>1. ASSUME NEW u \in Threads, pc'[u] \in Loading
        PROVE  /\ pc[u] \in Loading /\ startGen'[u] = startGen[u] /\ buf'[u] = buf[u]
               /\ gen'[st'[u]] = gen[st[u]] /\ mut'[key'[u]] = mut[key[u]]
    <3>1. u # t /\ pc[u] \in Loading BY <1>1, <2>1
    <3>2. st'[u] = st[u] /\ startGen'[u] = startGen[u] /\ buf'[u] = buf[u]
      BY <1>0, <3>1, ForgottenMoves
    <3>3. gen'[st[u]] = gen[st[u]] BY <1>4, <3>1
    <3> QED BY Zenon, <1>0, <3>1, <3>2, <3>3
  <2>2. LoadsAreCurrent BY DEF FreshInv
  <2> QED BY Zenon, <2>1, <2>2, LoadsFrame
<1>6. NoStaleFill' BY <1>0, FillKept DEF FreshInv
<1> QED BY <1>5, <1>6 DEF FreshInv

LEMMA ProbeFresh ==
  ASSUME TypeOK, FreshInv, NEW t \in Threads, Probe(t)
  PROVE  FreshInv'
<1>1. /\ UNCHANGED <<gen, mut, main, life, st, startGen, buf, key>>
      /\ Goto(t, "release") \/ Goto(t, "do")
  BY DEF Probe, Quiet, states, history
<1>2. "release" \notin Loading /\ "do" \notin Loading BY DEF Loading
<1> QED BY <1>1, <1>2, FreshMove

LEMMA EnterDoFresh ==
  ASSUME TypeOK, FreshInv, NEW t \in Threads, EnterDo(t)
  PROVE  FreshInv'
<1>1. /\ UNCHANGED <<gen, mut, main, life, st, startGen, buf, key>>
      /\ Goto(t, "fly") \/ Goto(t, "reload")
  BY Zenon DEF EnterDo, states
<1>2. "fly" \notin Loading /\ "reload" \notin Loading BY DEF Loading
<1> QED BY <1>1, <1>2, FreshMove

\* A load remembers the generation and the mutation count it starts with.
LEMMA ReloadFresh ==
  ASSUME TypeOK, Holders, FreshInv, NEW t \in Threads, Reload(t)
  PROVE  FreshInv'
<1>1. UNCHANGED <<gen, mut, main, life, st, key>> /\ pc[t] = "reload"
  BY Zenon DEF Reload, Quiet, states, history
<1>2. CASE CacheGet(key[t]) # NoEntry
  <2>1. Goto(t, "fly") /\ UNCHANGED <<startGen, buf>> BY <1>2 DEF Reload, FnReturns
  <2>2. "fly" \notin Loading BY DEF Loading
  <2> QED BY <1>1, <2>1, <2>2, FreshMove
<1>3. CASE CacheGet(key[t]) = NoEntry
  <2>1. /\ startGen' = [startGen EXCEPT ![t] = gen[st[t]]]
        /\ buf' = [buf EXCEPT ![t] = EntryOf(mut[key[t]], 0, 0)]
        /\ Goto(t, "load")
    BY <1>3 DEF Reload
  <2>2. st[t] \in StateIds BY <1>1, HoldsState DEF Holding
  <2>3. gen[st[t]] \in Nat /\ mut[key[t]] \in Nat BY <2>2, LoadTypes
  <2>4. startGen'[t] = gen[st[t]] /\ \A u \in Threads : u # t => startGen'[u] = startGen[u]
    BY <2>1, LoadTypes, Updated
  <2>5. EntryOf(mut[key[t]], 0, 0).mut = mut[key[t]] BY DEF EntryOf
  <2>6. buf'[t].mut = mut[key[t]] /\ \A u \in Threads : u # t => buf'[u] = buf[u]
    BY <2>1, <2>5, LoadTypes, Updated
  <2>7. \A u \in Threads : u # t => pc'[u] = pc[u] BY <2>1, GotoMoves
  <2>8. ASSUME NEW u \in Threads, pc'[u] \in Loading
        PROVE  /\ startGen'[u] <= gen'[st'[u]]
               /\ startGen'[u] = gen'[st'[u]] => buf'[u].mut = mut'[key'[u]]
    <3>1. CASE u = t BY <1>1, <2>3, <2>4, <2>6, <3>1
    <3>2. CASE u # t
      <4>1. pc[u] \in Loading /\ startGen'[u] = startGen[u] /\ buf'[u] = buf[u]
        BY Zenon, <2>4, <2>6, <2>7, <2>8, <3>2
      <4>2. /\ startGen[u] <= gen[st[u]]
            /\ startGen[u] = gen[st[u]] => buf[u].mut = mut[key[u]]
        BY Zenon, <4>1 DEF FreshInv, LoadsAreCurrent
      <4> QED BY Zenon, <1>1, <4>1, <4>2
    <3> QED BY <3>1, <3>2
  <2>9. LoadsAreCurrent' BY <2>8 DEF LoadsAreCurrent
  <2>10. NoStaleFill' BY <1>1, FillKept DEF FreshInv
  <2> QED BY <2>9, <2>10 DEF FreshInv
<1> QED BY <1>2, <1>3

LEMMA LoadFresh ==
  ASSUME TypeOK, FreshInv, NEW t \in Threads, Load(t)
  PROVE  FreshInv'
<1>1. UNCHANGED <<gen, mut, main, life, st, startGen, key>> /\ pc[t] = "load"
  BY Zenon DEF Load, Quiet, states, history
<1>2. /\ Goto(t, "recheck") \/ Goto(t, "store") \/ Goto(t, "fly")
      /\ buf' = buf \/ buf' = [buf EXCEPT ![t] = EntryOf(buf[t].mut, epoch, 0)]
  BY DEF Load, FnReturns
<1>3. \A u \in Threads : pc'[u] \in Loading => pc[u] \in Loading
  BY <1>1, <1>2, StaysLoading DEF Loading
<1>4. EntryOf(buf[t].mut, epoch, 0).mut = buf[t].mut BY DEF EntryOf
<1>5. \A u \in Threads : buf'[u].mut = buf[u].mut BY <1>2, <1>4, LoadTypes
<1>6. LoadsAreCurrent' BY <1>1, <1>3, <1>5, LoadsFrame DEF FreshInv
<1>7. NoStaleFill' BY <1>1, FillKept DEF FreshInv
<1> QED BY <1>6, <1>7 DEF FreshInv

LEMMA RecheckFresh ==
  ASSUME TypeOK, FreshInv, NEW t \in Threads, Recheck(t)
  PROVE  FreshInv'
<1>1. UNCHANGED <<gen, mut, main, life, st, startGen, buf, key>> /\ pc[t] = "recheck"
  BY Zenon DEF Recheck, Quiet, states, history
<1>2. Goto(t, "store") \/ Goto(t, "fly") BY DEF Recheck, FnReturns
<1>3. \A u \in Threads : pc'[u] \in Loading => pc[u] \in Loading
  BY <1>1, <1>2, StaysLoading DEF Loading
<1> QED BY <1>1, <1>3, FreshFrame

\* What a key's entry is after an addition.
LEMMA AddedFill ==
  ASSUME TypeOK, NoStaleFill, NEW k \in Keys, NEW e, main' = CacheAdd(k, e), life' = life,
         e # NoEntry => e.mut = mut'[k],
         \A j \in Keys : j # k => mut'[j] = mut[j]
  PROVE  NoStaleFill'
<1>1. main \in [Keys -> Entry \cup {NoEntry}] BY OutcomeTypes
<1>2. CASE life = "closed" BY <1>2 DEF NoStaleFill, CacheGet
<1>3. CASE life # "closed"
  <2>1. main' = [main EXCEPT ![k] = e] BY <1>3 DEF CacheAdd
  <2>2. main'[k] = e /\ \A j \in Keys : j # k => main'[j] = main[j] BY <1>1, <2>1
  <2> QED BY <1>3, <2>2 DEF NoStaleFill, CacheGet
<1> QED BY <1>2, <1>3

LEMMA StoreFresh ==
  ASSUME TypeOK, FreshInv, NEW t \in Threads, Store(t)
  PROVE  FreshInv'
<1> DEFINE e == EntryOf(buf[t].mut, buf[t].asof, epoch)
<1>1. UNCHANGED <<gen, mut, life, st, startGen, buf, key>> /\ pc[t] = "store"
  BY Zenon DEF Store, Quiet, states, history
<1>2. Goto(t, "fly") BY DEF Store, FnReturns
<1>3. \A u \in Threads : pc'[u] \in Loading => pc[u] \in Loading
  BY <1>2, LeavesLoading DEF Loading
<1>4. LoadsAreCurrent' BY Zenon, <1>1, <1>3, LoadsFrame DEF FreshInv
<1>5. CASE ~Unmutated(t)
  <2>1. main' = main BY <1>5 DEF Store
  <2> QED BY <1>1, <1>4, <2>1, FillKept DEF FreshInv
<1>6. CASE Unmutated(t)
  <2>1. e.mut = buf[t].mut BY DEF EntryOf
  <2>2. buf[t].mut = mut[key[t]]
    BY <1>1, <1>6 DEF FreshInv, LoadsAreCurrent, Unmutated, Loading
  <2>3. main' = CacheAdd(key[t], e) BY <1>6 DEF Store
  <2> HIDE DEF e
  <2>4. key[t] \in Keys BY LoadTypes
  <2>5. NoStaleFill' BY <1>1, <2>1, <2>2, <2>3, <2>4, AddedFill DEF FreshInv
  <2> QED BY <1>4, <2>5 DEF FreshInv
<1> QED BY <1>5, <1>6

LEMMA LandFresh ==
  ASSUME TypeOK, FreshInv, NEW t \in Threads, Land(t)
  PROVE  FreshInv'
<1>1. /\ UNCHANGED <<gen, mut, main, life, st, startGen, buf, key>>
      /\ pc' = pc \/ Goto(t, "release")
  BY Zenon DEF Land, Quiet, states, history
<1>2. \A u \in Threads : pc'[u] \in Loading => pc[u] \in Loading
  BY <1>1, LeavesLoading DEF Loading
<1> QED BY <1>1, <1>2, FreshFrame

\* A mutation moves the generation of every load of the key past the one the
\* load started with.
LEMMA MutateFresh ==
  ASSUME TypeOK, Holders, KeyStatesExact, StatesApart, FreshInv, NEW t \in Threads,
         Mutate(t)
  PROVE  FreshInv'
<1> DEFINE e == EntryOf(mut[key[t]] + 1, epoch, epoch)
<1>1. /\ UNCHANGED <<life, st, startGen, buf, key>>
      /\ pc[t] = "mutate" /\ Goto(t, "release")
      /\ gen' = [gen EXCEPT ![st[t]] = gen[st[t]] + 1]
      /\ mut' = [mut EXCEPT ![key[t]] = mut[key[t]] + 1]
      /\ main' = CacheAdd(key[t], e) \/ main' = CacheAdd(key[t], NoEntry)
  BY DEF Mutate, NextGeneration, CacheDelete
<1>2. st[t] \in StateIds BY Zenon, <1>1, HoldsState DEF Holding
<1>m. \A u \in Threads : st[u] # NoState => keyStates[key[u]] = st[u]
  BY Zenon DEF KeyStatesExact
<1>k. key[t] \in Keys /\ mut[key[t]] \in Nat BY LoadTypes
<1>3. e.mut = mut[key[t]] + 1 BY DEF EntryOf
<1> HIDE DEF e
<1>4. mut'[key[t]] = mut[key[t]] + 1 /\ \A j \in Keys : j # key[t] => mut'[j] = mut[j]
  BY <1>1, <1>k, LoadTypes, Updated
<1>5. gen'[st[t]] = gen[st[t]] + 1 /\ \A s \in StateIds : s # st[t] => gen'[s] = gen[s]
  BY <1>1, <1>2, LoadTypes, Updated
<1>6. NoStaleFill' BY <1>1, <1>k, <1>3, <1>4, AddedFill DEF FreshInv
<1>7. ASSUME NEW u \in Threads, pc'[u] \in Loading
      PROVE  /\ startGen'[u] <= gen'[st'[u]]
             /\ startGen'[u] = gen'[st'[u]] => buf'[u].mut = mut'[key'[u]]
  <2>1. pc[u] \in Loading /\ u # t BY <1>1, <1>7, LeavesLoading DEF Loading
  <2>2. st[u] \in StateIds BY <2>1, HoldsState, LoadingHolds
  <2>3. /\ startGen[u] <= gen[st[u]]
        /\ startGen[u] = gen[st[u]] => buf[u].mut = mut[key[u]]
    BY <2>1 DEF FreshInv, LoadsAreCurrent
  <2>4. key[u] \in Keys /\ startGen[u] \in Nat /\ gen[st[u]] \in Nat BY <2>2, LoadTypes
  <2>5. CASE key[u] = key[t]
    <3>1. st[u] = st[t] BY <1>2, <1>m, <2>2, <2>5, Sentinels
    <3>2. startGen'[u] = startGen[u] /\ st'[u] = st[t] BY Zenon, <1>1, <3>1
    <3>3. gen'[st'[u]] = gen[st[u]] + 1 BY Zenon, <1>5, <3>1, <3>2
    <3> QED BY <2>3, <2>4, <3>2, <3>3
  <2>6. CASE key[u] # key[t]
    <3>1. st[u] # st[t] BY <2>2, <2>6, Sentinels DEF StatesApart
    <3> QED BY Zenon, <1>1, <1>4, <1>5, <2>2, <2>3, <2>4, <2>6, <3>1
  <2> QED BY Zenon, <2>5, <2>6
<1>8. LoadsAreCurrent' BY <1>7 DEF LoadsAreCurrent
<1> QED BY <1>6, <1>8 DEF FreshInv

\* FreshInv is inductive, given the reference counts.
LEMMA FreshInductive ==
  TypeOK /\ Holders /\ KeyStatesExact /\ StatesApart /\ SoleHolder /\ FreshInv
    /\ [Next]_vars => FreshInv'
<1> SUFFICES ASSUME TypeOK, Holders, KeyStatesExact, StatesApart, SoleHolder, FreshInv,
                    [Next]_vars
             PROVE  FreshInv'
  OBVIOUS
<1>1. ASSUME NEW t \in Threads, NEW k \in Keys, NEW o \in Ops, Start(t, k, o)
      PROVE  FreshInv'
  BY <1>1, StartFresh
<1>2. ASSUME NEW t \in Threads, Advance(t) PROVE FreshInv'
  BY <1>2, PickOwnerFresh, AdoptEpochFresh, AcquireFresh, ReleaseFresh, ProbeFresh,
     EnterDoFresh, ReloadFresh, LoadFresh, RecheckFresh, StoreFresh, LandFresh,
     MutateFresh
  DEF Advance
<1>3. ASSUME UNCHANGED Surroundings,
             \A k \in Keys : CacheGet(k)' = CacheGet(k) \/ CacheGet(k)' = NoEntry
      PROVE  FreshInv'
  <2>1. UNCHANGED <<gen, mut, st, startGen, buf, key, pc>> BY Zenon, <1>3 DEF Surroundings
  <2>2. LoadsAreCurrent' BY <2>1, LoadsFrame DEF FreshInv
  <2>3. NoStaleFill' BY <1>3, <2>1, FillFrame DEF FreshInv
  <2> QED BY <2>2, <2>3 DEF FreshInv
<1>4. ASSUME NEW k \in Keys, Evict(k) PROVE FreshInv'
  <2>1. main \in [Keys -> Entry \cup {NoEntry}] BY OutcomeTypes
  <2>2. main' = [main EXCEPT ![k] = NoEntry] /\ life' = life /\ UNCHANGED Surroundings
    BY <1>4 DEF Evict
  <2> QED BY <1>3, <2>1, <2>2 DEF CacheGet
<1>5. ASSUME Clear PROVE FreshInv'
  <2>1. main' = EmptyCache /\ life' = life /\ UNCHANGED Surroundings BY <1>5 DEF Clear
  <2> QED BY <1>3, <2>1 DEF CacheGet, EmptyCache
<1>6. ASSUME Close PROVE FreshInv'
  <2>1. /\ UNCHANGED Surroundings /\ main' = main /\ life # "closed" BY <1>6 DEF Close
  <2> QED BY <1>3, <2>1 DEF CacheGet
<1>7. ASSUME MembershipChange PROVE FreshInv'
  <2>1. UNCHANGED Surroundings /\ UNCHANGED <<main, life>> BY <1>7 DEF MembershipChange
  <2> QED BY <1>3, <2>1 DEF CacheGet
<1>8. ASSUME UNCHANGED vars PROVE FreshInv'
  <2>1. UNCHANGED Surroundings /\ UNCHANGED <<main, life>>
    BY Zenon, <1>8 DEF vars, Surroundings
  <2> QED BY <1>3, <2>1 DEF CacheGet
<1> QED BY <1>1, <1>2, <1>4, <1>5, <1>6, <1>7, <1>8, NextCases

LEMMA InitFresh == Init => FreshInv
BY DEF Init, FreshInv, LoadsAreCurrent, NoStaleFill, CacheGet, EmptyCache, Loading
=============================================================================
