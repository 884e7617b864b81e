------------------------------ MODULE LRUStore ------------------------------
(***************************************************************************)
(* lruCache (store/lru.go): a map with a byte budget, least-recently-used  *)
(* eviction and deadlines.  Every method runs under c.mu and is one step.  *)
(*                                                                         *)
(* A value is represented by its length.  SetWithExpiration reads the      *)
(* clock twice, for the deadline and in evictLocked; time may pass in      *)
(* between.                                                                *)
(***************************************************************************)
EXTENDS Integers, Sequences, FiniteSets, Functions

CONSTANTS
  Keys,
  KeyLen,     \* len(key)
  Lengths,    \* what value.Len() may be
  MaxBytes,   \* 0: no limit
  TTLs,       \* expirations passed to SetWithExpiration; 0: none
  MaxTime,    \* bound on the clock
  NoValue, Miss, Forever

ASSUME StoreAssumption ==
  /\ KeyLen \in [Keys -> Nat]
  /\ Lengths \subseteq Nat /\ TTLs \subseteq Nat
  /\ MaxBytes \in Nat /\ MaxTime \in Nat
  /\ NoValue \notin Lengths /\ Forever \notin Int

VARIABLES
  list,       \* c.list, front to back: least to most recently used
  items,      \* c.items, with the value of each entry
  expires,    \* c.expires
  used,       \* c.usedBytes
  stopped,    \* closeCh is closed: the cleanup goroutine has ended
  now,        \* the clock
  out,        \* what the last Get returned
  older       \* history: the entries used less recently than an entry

vars == <<list, items, expires, used, stopped, now, out, older>>

Init ==
  /\ list = <<>>
  /\ items = [k \in {} |-> 0]
  /\ expires = [k \in {} |-> 0]
  /\ used = 0
  /\ stopped = FALSE
  /\ now = 0
  /\ out = Miss
  /\ older = [k \in Keys |-> {}]

Has(k) == k \in DOMAIN items

Weight(k, v) == KeyLen[k] + v

\* The entries of U are used, every other entry is now older; history keeps to
\* the entries that are left.
Uses(U) ==
  older' = [j \in Keys |->
              IF j \notin DOMAIN items' THEN {}
              ELSE (IF j \in U THEN DOMAIN items ELSE older[j]) \cap (DOMAIN items' \ U)]

-----------------------------------------------------------------------------
(* The structures that an operation works on, as a record.                 *)

Here == [list |-> list, items |-> items, expires |-> expires, used |-> used]

\* \E has TLC evaluate c once.
Becomes(c) ==
  \E b \in {c} : list' = b.list /\ items' = b.items /\ expires' = b.expires /\ used' = b.used

\* What the entries S of c weigh.
WeightIn(c, S) ==
  SumFunctionOnSet([k \in DOMAIN c.items |-> Weight(k, c.items[k])], S)

\* The sequence s without the elements of S.
Without(s, S) ==
  LET kept[i \in 0..Len(s)] ==
        IF i = 0 THEN <<>>
        ELSE IF s[i] \in S THEN kept[i - 1] ELSE Append(kept[i - 1], s[i])
  IN kept[Len(s)]

\* removeElement for each key of S.
RemoveElements(c, S) ==
  [list    |-> Without(c.list, S),
   items   |-> [k \in DOMAIN c.items \ S |-> c.items[k]],
   expires |-> [k \in DOMAIN c.expires \ S |-> c.expires[k]],
   used    |-> c.used - WeightIn(c, S)]

\* Mutant: a deadline is not over at the very instant it names.
IsOverAfter(d, t) == t > d

\* !now.Before(exp).
IsOver(d, t) == t >= d

ExpiredIn(c, t) ==
  {k \in DOMAIN c.expires \cap DOMAIN c.items : IsOver(c.expires[k], t)}

\* The first n entries of the list.
Oldest(c, n) == {c.list[i] : i \in 1..n}

\* The condition of the eviction loop is false.
Fits(bytes) == MaxBytes = 0 \/ bytes <= MaxBytes

\* Mutant: the loop leaves the last entry, however large.
DropsButLast(c) ==
  CHOOSE n \in 0..Len(c.list) :
    /\ n + 1 >= Len(c.list) \/ Fits(c.used - WeightIn(c, Oldest(c, n)))
    /\ \A i \in 0..n - 1 : i + 1 < Len(c.list) /\ ~Fits(c.used - WeightIn(c, Oldest(c, i)))

\* How often the loop of evictLocked removes c.list.Front().
Drops(c) ==
  CHOOSE n \in 0..Len(c.list) :
    /\ n = Len(c.list) \/ Fits(c.used - WeightIn(c, Oldest(c, n)))
    /\ \A i \in 0..n - 1 : ~Fits(c.used - WeightIn(c, Oldest(c, i)))

\* Mutant: only the size limit is enforced.
EvictLockedForSize(c, t) == RemoveElements(c, Oldest(c, Drops(c)))

\* evictLocked: drop what is expired, then from the front until the rest fits.
EvictLocked(c, t) ==
  LET live == RemoveElements(c, ExpiredIn(c, t))
  IN RemoveElements(live, Oldest(live, Drops(live)))

-----------------------------------------------------------------------------
\* c.list.MoveToBack, or PushBack of a new entry.
MovedBack(k) == Append(Without(list, {k}), k)

\* Mutant: a hit leaves the entry where it is.
HitInPlace(k) ==
  out' = items[k] /\ UNCHANGED <<list, items, expires, used>> /\ Uses({k})

\* An entry that is not expired is used: it moves to the back.
Hit(k) ==
  out' = items[k] /\ list' = MovedBack(k) /\ UNCHANGED <<items, expires, used>> /\ Uses({k})

\* Get: an expired entry is removed and missed.
Get(k) ==
  /\ \/ ~Has(k) /\ out' = Miss /\ UNCHANGED <<list, items, expires, used, older>>
     \/ /\ Has(k) /\ k \in ExpiredIn(Here, now)
        /\ out' = Miss
        /\ Becomes(RemoveElements(Here, {k}))
        /\ Uses({})
     \/ Has(k) /\ k \notin ExpiredIn(Here, now) /\ Hit(k)
  /\ UNCHANGED <<stopped, now>>

\* Mutant: the length of the value that is replaced is not given back.
GrowthAdded(k, v) == IF Has(k) THEN v ELSE Weight(k, v)

\* What usedBytes grows by.
Growth(k, v) == IF Has(k) THEN v - items[k] ELSE Weight(k, v)

\* c.expires with the deadline of a new value.
Deadlines(k, d) ==
  [j \in (DOMAIN expires \ {k}) \cup (IF d > 0 THEN {k} ELSE {}) |->
     IF j = k THEN now + d ELSE expires[j]]

\* SetWithExpiration (and Set, with d = 0); evictLocked runs at time t.
Set(k, v, d, t) ==
  LET c == [list    |-> MovedBack(k),
            items   |-> [j \in DOMAIN items \cup {k} |-> IF j = k THEN v ELSE items[j]],
            expires |-> Deadlines(k, d),
            used    |-> used + Growth(k, v)]
  IN /\ now' = t
     /\ UNCHANGED <<stopped, out>>
     /\ Becomes(EvictLocked(c, t))
     /\ Uses({k})

\* Delete; also SetWithExpiration of a nil value.
Delete(k) ==
  /\ Has(k)
  /\ Becomes(RemoveElements(Here, {k}))
  /\ Uses({})
  /\ UNCHANGED <<stopped, now, out>>

Clear ==
  /\ items # [k \in {} |-> 0]
  /\ list' = <<>>
  /\ items' = [k \in {} |-> 0]
  /\ expires' = [k \in {} |-> 0]
  /\ used' = 0
  /\ Uses({})
  /\ UNCHANGED <<stopped, now, out>>

\* cleanupLoop: a tick of the ticker.
CleanupExpired ==
  /\ ~stopped
  /\ Becomes(EvictLocked(Here, now))
  /\ Uses({})
  /\ UNCHANGED <<stopped, now, out>>

\* Close ends cleanupLoop; the entries stay.
Close ==
  /\ ~stopped
  /\ stopped' = TRUE
  /\ UNCHANGED <<list, items, expires, used, now, out, older>>

Tick ==
  /\ now < MaxTime
  /\ now' = now + 1
  /\ UNCHANGED <<list, items, expires, used, stopped, out, older>>

Next ==
  \/ \E k \in Keys : Get(k) \/ Delete(k)
  \/ \E k \in Keys, v \in Lengths, d \in TTLs, t \in now..MaxTime : Set(k, v, d, t)
  \/ Clear \/ CleanupExpired \/ Close \/ Tick

Spec == Init /\ [][Next]_vars

\* The ticker fires as long as the store is open and an entry is expired, and time
\* passes.
FairSpec ==
  Spec /\ WF_vars(Tick) /\ WF_vars(ExpiredIn(Here, now) # {} /\ CleanupExpired)

-----------------------------------------------------------------------------
\* The three structures and the counter agree after any sequence of calls: the
\* list holds every key of the map once, a deadline belongs to an entry, and
\* usedBytes is the sum of what the entries weigh.
Accounting ==
  /\ IsInjective(list) /\ Range(list) = DOMAIN items
  /\ DOMAIN expires \subseteq DOMAIN items
  /\ used = WeightIn(Here, DOMAIN items)

\* A limited store never exceeds its budget between two calls, not even with a
\* value that is larger than the budget.
WithinBudget == MaxBytes > 0 => used <= MaxBytes

\* Capacity eviction drops the least recently used entries and no more of them
\* than necessary: whatever else stayed was used later than every victim, and
\* with the last victim the budget would have been exceeded.
EvictsLeastRecentlyUsed ==
  [][\A k \in Keys, v \in Lengths, d \in TTLs :
       Set(k, v, d, now') =>
         LET gone == (DOMAIN items \cup {k}) \ DOMAIN items'
             victims == {g \in gone : ~(IF g = k THEN d > 0 /\ now + d <= now'
                                        ELSE g \in ExpiredIn(Here, now'))}
         IN victims # {} =>
              /\ \A g \in victims, j \in DOMAIN items' : j = k \/ g \in older[j]
              /\ \E g \in victims :
                   used' + Weight(g, IF g = k THEN v ELSE items[g]) > MaxBytes]_vars

Store == INSTANCE LossyStore WITH
  Values   <- Lengths,
  content  <- [k \in Keys |-> IF k \in DOMAIN items THEN items[k] ELSE NoValue],
  deadline <- [k \in Keys |-> IF k \in DOMAIN expires THEN expires[k] ELSE Forever]

\* The LRU is a lossy map with deadlines: it implements LossyStore.
ImplementsLossyStore == Store!Spec

\* An open store gets rid of expired entries without being asked for them.
ExpiredEntriesGo ==
  \A k \in Keys :
    (Has(k) /\ k \in ExpiredIn(Here, now)) ~> (stopped \/ k \notin ExpiredIn(Here, now))
=============================================================================
