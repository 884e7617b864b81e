----------------------------- MODULE Membership -----------------------------
(***************************************************************************)
(* ClientPicker (peers.go): a node's view of the cluster, kept up to date  *)
(* from etcd by a snapshot followed by a watch from the next revision.     *)
(*                                                                         *)
(* etcd is external: a log of changes to the service prefix, one revision  *)
(* each, that can be compacted.  Every change of the view happens under    *)
(* p.mu and is one step; the events of a watch response are applied one by *)
(* one.  The ring is represented by the set of its nodes (see module       *)
(* ConsistentHash).                                                        *)
(***************************************************************************)
EXTENDS Integers, Sequences, FiniteSets

CONSTANTS
  Self,         \* p.selfAddr
  Others,       \* addresses other nodes may register
  Dialable,     \* addresses for which NewClient succeeds
  MaxRev        \* bound on the etcd revision

ASSUME MembershipAssumption ==
  /\ Self \notin Others /\ Dialable \subseteq Others
  /\ IsFiniteSet(Others)
  /\ MaxRev \in Nat

Addrs == Others \cup {Self}

VARIABLES
  log,          \* etcd: the changes, with the registered addresses after each
  compact,      \* etcd: revisions up to this one are compacted
  members, ring, clients, epoch,   \* the fields of ClientPicker
  phase,        \* where the constructor and then the watch goroutine stand
  rev,          \* the watch goroutine's rev
  queue, head,  \* events of a response still to apply, its header revision
  closing,      \* "no", "waiting" (for watchDone), "closed"
  timedOut,     \* Close gave up waiting for the watch goroutine
  open          \* history: peer connections that have not been closed

etcd == <<log, compact>>
view == <<members, ring, clients, epoch, open>>
vars == <<log, compact, members, ring, clients, epoch, phase, rev, queue, head,
          closing, timedOut, open>>

Phases == {"new", "watch", "apply", "refresh", "done"}

Event == [type : {"put", "del"}, addr : Addrs, after : SUBSET Addrs]

Revision == Len(log)
RegisteredAt(r) == IF r = 0 THEN {} ELSE log[r].after
Registered == RegisteredAt(Revision)

\* NewClientPicker: self is a member before anything is known of the others.
Init ==
  /\ log = <<>>
  /\ compact = 0
  /\ members = {Self}
  /\ ring = {Self}
  /\ clients = {}
  /\ open = {}
  /\ epoch = 1
  /\ phase = "new"
  /\ rev = 0
  /\ queue = <<>>
  /\ head = 0
  /\ closing = "no"
  /\ timedOut = FALSE

-----------------------------------------------------------------------------
(* etcd *)

Commit(type, a, after) ==
  /\ Revision < MaxRev
  /\ log' = Append(log, [type |-> type, addr |-> a, after |-> after])
  /\ UNCHANGED <<compact, view, phase, rev, queue, head, closing, timedOut>>

\* A node registers, or registers again.
Put(a) == Commit("put", a, Registered \cup {a})

\* A node revokes its lease, or the lease expires.
Expire(a) == a \in Registered /\ Commit("del", a, Registered \ {a})

\* Old revisions become unavailable to watches.
Compact(r) ==
  /\ r \in compact + 1..Revision
  /\ compact' = r
  /\ UNCHANGED <<log, view, phase, rev, queue, head, closing, timedOut>>

-----------------------------------------------------------------------------
(* Changes of the view *)

\* Mutant: the epoch moves with every snapshot, even one that brings nothing.
SameMembersNever(desired) == FALSE

\* sameMembers(p.members, desired).
SameMembers(desired) == members = desired

\* Mutant: clients that are not needed any more are forgotten, not closed.
DroppedNone(keep) == {}

\* The clients replaceMembership closes.
Dropped(keep) == clients \ keep

\* newClients: those that exist are kept, the others are dialled.
NewClients(desired) == desired \cap ((clients \cup Dialable) \ {Self})

\* replaceMembership.
ReplaceMembership(desired) ==
  LET keep == NewClients(desired) IN
  IF SameMembers(desired) THEN UNCHANGED view
  ELSE /\ members' = desired
       /\ ring' = desired
       /\ clients' = keep
       /\ open' = (open \ Dropped(keep)) \cup keep
       /\ epoch' = epoch + 1

\* addMember.
AddMember(a) ==
  LET dialled == {a} \cap Dialable IN
  IF a \in members THEN UNCHANGED view
  ELSE /\ members' = members \cup {a}
       /\ ring' = ring \cup {a}
       /\ clients' = clients \cup dialled
       /\ open' = open \cup dialled
       /\ epoch' = epoch + 1

\* Mutant: an expired lease of this very node removes it from its own view.
RemovableAny(a) == a \in members

\* removeMember acts on known members other than self.
Removable(a) == a # Self /\ a \in members

\* removeMember.
RemoveMember(a) ==
  IF ~Removable(a) THEN UNCHANGED view
  ELSE /\ members' = members \ {a}
       /\ ring' = ring \ {a}
       /\ clients' = clients \ {a}
       /\ open' = open \ {a}
       /\ epoch' = epoch + 1

-----------------------------------------------------------------------------
(* The constructor and watchServiceChanges *)

\* Mutant: the watch starts at the revision after the next change.
NextRevisionSkips == Revision + 2

\* resp.Header.Revision + 1.
NextRevision == Revision + 1

\* refreshSnapshot succeeds, in the constructor or after a broken watch.
Snapshot ==
  /\ phase \in {"new", "refresh"}
  /\ ReplaceMembership({Self} \cup Registered)
  /\ rev' = NextRevision
  /\ phase' = "watch"
  /\ UNCHANGED <<etcd, queue, head, closing, timedOut>>

\* refreshSnapshot fails: the constructor gives up, the goroutine tries another
\* watch from where it stood.
SnapshotFails ==
  /\ phase \in {"new", "refresh"}
  /\ phase' = IF phase = "new" THEN "done" ELSE "watch"
  /\ UNCHANGED <<etcd, view, rev, queue, head, closing, timedOut>>

\* A watch response: the changes from rev up to some revision, its header's.
\* One that is already in the channel is received even if p.ctx is cancelled.
Deliver(r) ==
  /\ phase = "watch"
  /\ rev > compact
  /\ r \in rev..Revision
  /\ queue' = SubSeq(log, rev, r)
  /\ head' = r
  /\ phase' = "apply"
  /\ UNCHANGED <<etcd, view, rev, closing, timedOut>>

\* Mutant: rev stays where the response began.
AfterResponseSame == rev

\* rev after a response, whose header is never below it.
AfterResponse == head + 1

\* The next event of the response; after the last one rev moves on.
Apply ==
  /\ phase = "apply"
  /\ IF Head(queue).type = "put" THEN AddMember(Head(queue).addr)
                                 ELSE RemoveMember(Head(queue).addr)
  /\ queue' = Tail(queue)
  /\ IF Len(queue) = 1 THEN rev' = AfterResponse /\ phase' = "watch"
                       ELSE UNCHANGED <<rev, phase>>
  /\ UNCHANGED <<etcd, head, closing, timedOut>>

\* The watch ends, with an error or without.
WatchBreaks ==
  /\ phase = "watch" /\ closing = "no"
  /\ phase' = "refresh"
  /\ UNCHANGED <<etcd, view, rev, queue, head, closing, timedOut>>

\* p.ctx is cancelled: the goroutine returns once it notices.
WatchStops ==
  /\ closing # "no"
  /\ phase \in {"watch", "refresh"}
  /\ phase' = "done"
  /\ UNCHANGED <<etcd, view, rev, queue, head, closing, timedOut>>

-----------------------------------------------------------------------------
\* Close of a picker the constructor returned cancels the context.
Cancel ==
  /\ closing = "no" /\ rev > 0
  /\ closing' = "waiting"
  /\ UNCHANGED <<etcd, view, phase, rev, queue, head, timedOut>>

\* Close goes on when the goroutine is done, or after two seconds.
CloseClients ==
  /\ closing = "waiting"
  /\ closing' = "closed"
  /\ timedOut' = (phase # "done")
  /\ clients' = {}
  /\ open' = open \ clients
  /\ UNCHANGED <<etcd, members, ring, epoch, phase, rev, queue, head>>

Next ==
  \/ \E a \in Addrs : Put(a) \/ Expire(a)
  \/ \E r \in 1..MaxRev : Compact(r) \/ Deliver(r)
  \/ Snapshot \/ SnapshotFails \/ Apply \/ WatchBreaks \/ WatchStops
  \/ Cancel \/ CloseClients

Spec == Init /\ [][Next]_vars

\* Responses arrive and are applied; a watch from a compacted revision fails;
\* however often the connection to etcd breaks, a snapshot succeeds again.
FairSpec ==
  /\ Spec
  /\ WF_vars(\E r \in 1..MaxRev : Deliver(r))
  /\ WF_vars(Apply)
  /\ WF_vars(rev <= compact /\ WatchBreaks)
  /\ SF_vars(Snapshot)

-----------------------------------------------------------------------------
\* The revision the view has reached.
Reached == IF phase = "apply" THEN head - Len(queue) ELSE rev - 1

\* Snapshot plus watch misses no event: the view is always what etcd held at
\* one revision, plus self, and the ring agrees with it; no break, failed
\* snapshot or compaction in between changes that.
ViewIsARevision ==
  rev > 0 => /\ Reached \in 0..Revision
             /\ members = {Self} \cup RegisteredAt(Reached)
             /\ ring = members

\* A node keeps exactly one connection per remote member it can dial, and none
\* to anyone else; Close leaves none behind unless it timed out.
ConnectionsMatch ==
  /\ closing # "closed" => clients = members \cap Dialable /\ open = clients
  /\ closing = "closed" /\ ~timedOut => open = {}

\* "Epoch changes whenever this picker observes a membership change", and only
\* then: an epoch names one membership for ever, which is what keeps near-cache
\* keys and owner caches of different topologies apart.
EpochNamesMembership ==
  [][/\ members' # members => epoch' > epoch
     /\ members' = members => epoch' = epoch]_vars

\* The view never steps back to an earlier revision.
ViewMovesForward == [][rev > 0 => Reached' >= Reached]_vars

\* Once etcd stops changing the view is the registered membership, unless the
\* picker is closed or could not be built.
ViewConverges ==
  <>[](closing # "no" \/ phase = "done" \/ members = {Self} \cup Registered)
=============================================================================
