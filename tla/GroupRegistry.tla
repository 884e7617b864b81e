---------------------------- MODULE GroupRegistry ----------------------------
(***************************************************************************)
(* The process-wide map of groups (group.go): NewGroup, DestroyGroup,      *)
(* DestroyAllGroups and Group.Close, called by several goroutines.  Only   *)
(* the map is behind groupsMu; Close runs outside of it.                   *)
(***************************************************************************)
EXTENDS FiniteSets

CONSTANTS
  Groups,       \* the *Group values NewGroup can return
  Names,        \* group names
  NameOf,       \* the name each group is created with
  Goroutines,   \* callers
  None

ASSUME RegistryAssumption ==
  NameOf \in [Groups -> Names] /\ None \notin Groups

VARIABLES
  groups,   \* the map: groups[n] is a group or None
  made,     \* groups created so far
  closed,   \* groups whose closed flag is set
  caches,   \* caches[g]: the caches of g that are open
  at,       \* at[t]: where goroutine t is
  cur,      \* cur[t]: the group it closes
  todo      \* todo[t]: the rest of its snapshot in DestroyAllGroups

registryVars == <<groups, made, closed, caches, at, cur, todo>>

RegistryInit ==
  /\ groups = [n \in Names |-> None]
  /\ made = {} /\ closed = {}
  /\ caches = [g \in Groups |-> {}]
  /\ at = [t \in Goroutines |-> "idle"]
  /\ cur = [t \in Goroutines |-> None]
  /\ todo = [t \in Goroutines |-> {}]

\* Goroutine t calls g.Close, or returns.
Calls(t, g) == at' = [at EXCEPT ![t] = "close"] /\ cur' = [cur EXCEPT ![t] = g]
Returns(t) ==
  at' = [at EXCEPT ![t] = IF todo[t] = {} THEN "idle" ELSE "next"]
  /\ cur' = [cur EXCEPT ![t] = None]

\* NewGroup: the new group replaces the one of that name, then that one is closed.
NewGroup(t, g) ==
  /\ at[t] = "idle" /\ g \notin made
  /\ made' = made \cup {g}
  /\ caches' = [caches EXCEPT ![g] = {"main", "near"}]
  /\ groups' = [groups EXCEPT ![NameOf[g]] = g]
  /\ LET old == groups[NameOf[g]] IN
       IF old = None THEN UNCHANGED <<at, cur>> ELSE Calls(t, old)
  /\ UNCHANGED <<closed, todo>>

\* Group.Close by whoever has kept the pointer.
CloseGroup(t, g) ==
  /\ at[t] = "idle" /\ g \in made
  /\ Calls(t, g)
  /\ UNCHANGED <<groups, made, closed, caches, todo>>

\* DestroyGroup looks the group up under the read lock.
DestroyGroup(t, n) ==
  /\ at[t] = "idle" /\ groups[n] # None
  /\ Calls(t, groups[n])
  /\ UNCHANGED <<groups, made, closed, caches, todo>>

\* DestroyAllGroups takes a snapshot, in any order, and closes its groups.
DestroyAllGroups(t) ==
  /\ at[t] = "idle" /\ \E n \in Names : groups[n] # None
  /\ todo' = [todo EXCEPT ![t] = {groups[n] : n \in Names} \ {None}]
  /\ at' = [at EXCEPT ![t] = "next"]
  /\ UNCHANGED <<groups, made, closed, caches, cur>>

NextGroup(t) ==
  /\ at[t] = "next"
  /\ \E g \in todo[t] : Calls(t, g) /\ todo' = [todo EXCEPT ![t] = @ \ {g}]
  /\ UNCHANGED <<groups, made, closed, caches>>

-----------------------------------------------------------------------------
(* Group.Close *)

\* CompareAndSwap of closed; the second caller returns at once.
Swap(t) ==
  /\ at[t] = "close"
  /\ IF cur[t] \in closed THEN Returns(t) /\ UNCHANGED closed
     ELSE /\ closed' = closed \cup {cur[t]}
          /\ at' = [at EXCEPT ![t] = "main"] /\ UNCHANGED cur
  /\ UNCHANGED <<groups, made, caches, todo>>

\* mainCache.Close, nearCache.Close.
CloseCache(t, c) ==
  /\ at[t] = c
  /\ caches' = [caches EXCEPT ![cur[t]] = @ \ {c}]
  /\ at' = [at EXCEPT ![t] = IF c = "main" THEN "near" ELSE "remove"]
  /\ UNCHANGED <<groups, made, closed, cur, todo>>

\* Mutant: the name is removed whatever group it has by now.
RemoveByName(t) ==
  /\ at[t] = "remove"
  /\ groups' = [groups EXCEPT ![NameOf[cur[t]]] = None]
  /\ Returns(t)
  /\ UNCHANGED <<made, closed, caches, todo>>

\* The map forgets the group unless another one has its name.
Remove(t) ==
  /\ at[t] = "remove"
  /\ groups' = [groups EXCEPT ![NameOf[cur[t]]] = IF @ = cur[t] THEN None ELSE @]
  /\ Returns(t)
  /\ UNCHANGED <<made, closed, caches, todo>>

GoesOn(t) ==
  NextGroup(t) \/ Swap(t) \/ CloseCache(t, "main") \/ CloseCache(t, "near") \/ Remove(t)

RegistryStep(t) ==
  \/ \E g \in Groups : NewGroup(t, g) \/ CloseGroup(t, g)
  \/ \E n \in Names : DestroyGroup(t, n)
  \/ DestroyAllGroups(t)
  \/ GoesOn(t)
=============================================================================
