---------------------------- MODULE Singleflight ----------------------------
(***************************************************************************)
(* singleflight.Group (singleflight/singleflight.go): concurrent calls of  *)
(* Do for one key share a single execution of fn.                          *)
(*                                                                         *)
(* A call object is named by the thread that created it, its leader: a     *)
(* thread is inside at most one Do at a time, and val/err/panicVal are not *)
(* written after wg.Done, so Done hands the outcome to every waiter.       *)
(*                                                                         *)
(* The actions are also the building blocks of module OwnerCache, whose    *)
(* getLocal runs a read-through load inside Do.                            *)
(***************************************************************************)
CONSTANTS
  Threads,    \* goroutines that may call Do
  Keys,
  Results,    \* what one execution of fn may produce: values, errors, panics
  NoThread,   \* no call in flight
  NoResult    \* no outcome yet

ASSUME SFAssumption == NoThread \notin Threads

VARIABLES
  m,          \* g.m: the leader of the call in flight for each key
  at,         \* where each thread stands in Do
  key,        \* the key each thread was called with
  on,         \* the leader of the call a thread runs or waits for
  res         \* c.val, c.err or c.panicVal as seen by a thread

sfVars == <<m, at, on, res>>

\* "out"    not in Do            "wait"   blocked in c.wg.Wait()
\* "run"    leader inside fn     "ran"    fn is over, the call is still in g.m
\* "forgot" call removed, wg.Done not yet called     "got" outcome available
Places == {"out", "wait", "run", "ran", "forgot", "got"}

SFTypeOK ==
  /\ m \in [Keys -> Threads \cup {NoThread}]
  /\ at \in [Threads -> Places]
  /\ on \in [Threads -> Threads \cup {NoThread}]
  /\ res \in [Threads -> Results \cup {NoResult}]

SFInit ==
  /\ m = [k \in Keys |-> NoThread]
  /\ at = [t \in Threads |-> "out"]
  /\ on = [t \in Threads |-> NoThread]
  /\ res = [t \in Threads |-> NoResult]

-----------------------------------------------------------------------------
\* Mutant: the lookup never finds a call, every caller runs fn itself.
InFlightNever(t) == FALSE

\* g.m[key] exists.
InFlight(t) == m[key[t]] # NoThread

\* Do finds a call for the key in flight: unlock, then wait for it.
Join(t) ==
  /\ at[t] = "out"
  /\ InFlight(t)
  /\ at' = [at EXCEPT ![t] = "wait"]
  /\ on' = [on EXCEPT ![t] = m[key[t]]]
  /\ UNCHANGED <<m, res>>

\* Do finds none: the caller creates the call and goes on to run fn.
Lead(t) ==
  /\ at[t] = "out"
  /\ ~InFlight(t)
  /\ m' = [m EXCEPT ![key[t]] = t]
  /\ at' = [at EXCEPT ![t] = "run"]
  /\ on' = [on EXCEPT ![t] = t]
  /\ UNCHANGED res

\* fn returns, or panics and is recovered: the outcome r is in the call.
FnReturns(t, r) ==
  /\ at[t] = "run"
  /\ at' = [at EXCEPT ![t] = "ran"]
  /\ res' = [res EXCEPT ![t] = r]
  /\ UNCHANGED <<m, on>>

\* Mutant: the finished call is left in the map when fn panicked.
RemovedUnlessPanic(t) == IF res[t] = "panic" THEN m ELSE [m EXCEPT ![key[t]] = NoThread]

\* g.m without the finished call, if it is still the one in the map.
Removed(t) == IF m[key[t]] = t THEN [m EXCEPT ![key[t]] = NoThread] ELSE m

\* The finished call is removed.
Forget(t) ==
  /\ at[t] = "ran"
  /\ m' = Removed(t)
  /\ at' = [at EXCEPT ![t] = "forgot"]
  /\ UNCHANGED <<on, res>>

\* Mutant: wg.Done releases nobody but the leader.
WokenAlone(t) == {t}

\* The threads that hold the outcome of t's call once wg.Done is called.
Woken(t) == {t} \cup {u \in Threads : at[u] = "wait" /\ on[u] = t}

\* c.wg.Done(): the leader and all waiters proceed with the same outcome.
Done(t) ==
  /\ at[t] = "forgot"
  /\ at' = [u \in Threads |-> IF u \in Woken(t) THEN "got" ELSE at[u]]
  /\ res' = [u \in Threads |-> IF u \in Woken(t) THEN res[t] ELSE res[u]]
  /\ UNCHANGED <<m, on>>

\* Do returns c.val, c.err, or panics again with c.panicVal.
Return(t) ==
  /\ at[t] = "got"
  /\ at' = [at EXCEPT ![t] = "out"]
  /\ on' = [on EXCEPT ![t] = NoThread]
  /\ res' = [res EXCEPT ![t] = NoResult]
  /\ UNCHANGED m

-----------------------------------------------------------------------------
(***************************************************************************)
(* The component by itself: any thread calls Do for any key, fn produces   *)
(* any result.                                                             *)
(***************************************************************************)
vars == <<m, at, key, on, res>>

Init == SFInit /\ key \in [Threads -> Keys]

\* A caller picks the key of its next Do.
Call(t, k) ==
  /\ at[t] = "out"
  /\ key[t] # k
  /\ key' = [key EXCEPT ![t] = k]
  /\ UNCHANGED sfVars

\* One step of a thread that is inside Do.
Step(t) ==
  \/ \E r \in Results : FnReturns(t, r)
  \/ Forget(t)
  \/ Done(t)
  \/ Return(t)

Next ==
  \E t \in Threads :
    \/ \E k \in Keys : Call(t, k)
    \/ (Join(t) \/ Lead(t)) /\ UNCHANGED key
    \/ Step(t) /\ UNCHANGED key

\* Go schedules every runnable goroutine, and fn is assumed to return.
Fairness == \A t \in Threads : WF_vars(Step(t) /\ UNCHANGED key)

Spec == Init /\ [][Next]_vars /\ Fairness

-----------------------------------------------------------------------------
TypeOK == SFTypeOK /\ key \in [Threads -> Keys]

\* At any time at most one goroutine executes fn for a key: this is what
\* "suppresses duplicate in-flight work for the same key" means.
OneExecutionPerKey ==
  \A t, u \in Threads :
    at[t] = "run" /\ at[u] = "run" /\ key[t] = key[u] => t = u

\* Nobody waits for a call that is already over: a blocked thread's call has a
\* leader that has yet to call wg.Done, and it is a call for the same key.
NoOrphanWaiter ==
  \A t \in Threads :
    at[t] = "wait" =>
      /\ on[t] \in Threads
      /\ at[on[t]] \in {"run", "ran", "forgot"}
      /\ key[on[t]] = key[t]

\* g.m never keeps a call whose leader has gone past the removal, so a key
\* cannot be blocked by a finished call, not even by one that panicked.
NoFinishedCallInMap ==
  \A k \in Keys :
    m[k] # NoThread => at[m[k]] \in {"run", "ran"} /\ key[m[k]] = k

\* The call of a leader that has not removed it yet is the one callers find.
LeadersInMap == \A t \in Threads : at[t] \in {"run", "ran"} => m[key[t]] = t

CallsInv == NoOrphanWaiter /\ NoFinishedCallInMap /\ LeadersInMap

\* Every goroutine blocked in Do gets an outcome.
WaitersReturn == \A t \in Threads : at[t] = "wait" ~> at[t] = "got"
=============================================================================
