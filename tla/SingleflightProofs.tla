------------------------- MODULE SingleflightProofs -------------------------
(* TLAPS proofs about Singleflight.  The lemmas on single actions are also  *)
(* used, through INSTANCE, for the loader of module OwnerCache.             *)
EXTENDS Singleflight, TLAPS

\* One action of Do.
DoAction(t) ==
  \/ Join(t) \/ Lead(t) \/ Forget(t) \/ Done(t) \/ Return(t)
  \/ \E r \in Results : FnReturns(t, r)

\* Every action keeps the types.
LEMMA DoActionType ==
  ASSUME NoThread \notin Threads, SFTypeOK, key \in [Threads -> Keys],
         NEW t \in Threads, DoAction(t)
  PROVE  SFTypeOK'
<1> USE DEF SFTypeOK, Places
<1>1. CASE Join(t) BY <1>1 DEF Join
<1>2. CASE Lead(t) BY <1>2 DEF Lead
<1>3. CASE Forget(t) BY <1>3 DEF Forget, Removed
<1>4. CASE Done(t) BY <1>4 DEF Done
<1>5. CASE Return(t) BY <1>5 DEF Return
<1>6. CASE \E r \in Results : FnReturns(t, r) BY <1>6 DEF FnReturns
<1> QED BY <1>1, <1>2, <1>3, <1>4, <1>5, <1>6 DEF DoAction

\* Every action keeps map, leaders and waiters consistent.
LEMMA DoActionCalls ==
  ASSUME NoThread \notin Threads, SFTypeOK, key \in [Threads -> Keys], CallsInv,
         NEW t \in Threads, DoAction(t), key' = key
  PROVE  CallsInv'
<1> USE DEF SFTypeOK, CallsInv, NoOrphanWaiter, NoFinishedCallInMap, LeadersInMap
<1>1. CASE Join(t)
  BY <1>1 DEF Join, InFlight
<1>2. CASE Lead(t)
  <2>1. NoOrphanWaiter' BY <1>2 DEF Lead
  <2>2. NoFinishedCallInMap' BY <1>2 DEF Lead
  <2>3. LeadersInMap' BY <1>2 DEF Lead, InFlight
  <2> QED BY <2>1, <2>2, <2>3
<1>3. CASE Forget(t)
  <2>1. NoOrphanWaiter' BY <1>3 DEF Forget
  <2>2. NoFinishedCallInMap' BY <1>3 DEF Forget, Removed
  <2>3. LeadersInMap' BY <1>3 DEF Forget, Removed
  <2> QED BY <2>1, <2>2, <2>3
<1>4. CASE Done(t)
  <2>1. NoOrphanWaiter' BY <1>4 DEF Done, Woken
  <2>2. NoFinishedCallInMap' BY <1>4 DEF Done, Woken
  <2>3. LeadersInMap' BY <1>4 DEF Done, Woken
  <2> QED BY <2>1, <2>2, <2>3
<1>5. CASE Return(t)
  BY <1>5 DEF Return
<1>6. CASE \E r \in Results : FnReturns(t, r)
  BY <1>6 DEF FnReturns
<1> QED BY <1>1, <1>2, <1>3, <1>4, <1>5, <1>6 DEF DoAction

\* A thread outside Do may change its key.
LEMMA CallsFrame ==
  ASSUME NoThread \notin Threads, SFTypeOK, CallsInv, UNCHANGED <<m, at, on, res>>,
         \A t \in Threads : at[t] # "out" => key'[t] = key[t]
  PROVE  CallsInv'
<1> USE DEF SFTypeOK, CallsInv, sfVars
<1>1. NoOrphanWaiter' BY DEF NoOrphanWaiter
<1>2. NoFinishedCallInMap' BY DEF NoFinishedCallInMap
<1>3. LeadersInMap' BY DEF LeadersInMap
<1> QED BY <1>1, <1>2, <1>3

\* Two leaders that run fn for one key are the same.
LEMMA CallsExclude == CallsInv => OneExecutionPerKey
BY DEF CallsInv, LeadersInMap, OneExecutionPerKey

-----------------------------------------------------------------------------
LEMMA Inductive == TypeOK /\ CallsInv /\ [Next]_vars => TypeOK' /\ CallsInv'
<1> SUFFICES ASSUME TypeOK, CallsInv, [Next]_vars PROVE TypeOK' /\ CallsInv'
  OBVIOUS
<1>1. ASSUME NEW t \in Threads, NEW k \in Keys, Call(t, k)
      PROVE  TypeOK' /\ CallsInv'
  <2>1. \A u \in Threads : at[u] # "out" => key'[u] = key[u]
    BY <1>1 DEF Call, TypeOK
  <2>2. CallsInv' BY <1>1, <2>1, CallsFrame, SFAssumption DEF Call, TypeOK, sfVars
  <2> QED BY <1>1, <2>2 DEF Call, TypeOK, SFTypeOK, sfVars
<1>2. ASSUME NEW t \in Threads, DoAction(t), key' = key
      PROVE  TypeOK' /\ CallsInv'
  BY <1>2, DoActionType, DoActionCalls, SFAssumption DEF TypeOK
<1>3. ASSUME UNCHANGED vars PROVE TypeOK' /\ CallsInv'
  BY <1>3, CallsFrame, SFAssumption DEF vars, sfVars, TypeOK, SFTypeOK
<1> QED BY <1>1, <1>2, <1>3 DEF Next, Step, DoAction

\* The initial states satisfy the invariant.
LEMMA Initial == Init => TypeOK /\ CallsInv
BY SFAssumption
DEF Init, SFInit, TypeOK, SFTypeOK, Places, CallsInv, NoOrphanWaiter,
    NoFinishedCallInMap, LeadersInMap

\* For any number of goroutines and keys, fn runs at most once at a time per key.
THEOREM OneExecution == Spec => []OneExecutionPerKey
BY Initial, Inductive, CallsExclude, PTL DEF Spec

\* No goroutine is ever left waiting for a call that is over, for any number of them.
THEOREM NoOrphans == Spec => []NoOrphanWaiter
<1>1. CallsInv => NoOrphanWaiter BY DEF CallsInv
<1> QED BY <1>1, Initial, Inductive, PTL DEF Spec

\* No finished call stays in g.m, also when fn panicked: no key is blocked by one.
THEOREM MapIsLive == Spec => []NoFinishedCallInMap
<1>1. CallsInv => NoFinishedCallInMap BY DEF CallsInv
<1> QED BY <1>1, Initial, Inductive, PTL DEF Spec
=============================================================================
