--------------------------- MODULE TopologyProofs ---------------------------
(***************************************************************************)
(* What a picker knows of the cluster, in two parts.  Its view is always   *)
(* the membership etcd held at one revision, and its connections are those *)
(* of the view, for any number of nodes and changes.  Its ring is a        *)
(* function of the members alone and assigns every key to the nearest      *)
(* point, for any number of nodes, replicas and hashes.                    *)
(***************************************************************************)
EXTENDS Membership, ConsistentHash, WellFoundedInduction, TLAPS

\* The registered addresses after an event, from those before it.
AfterEvent(S, e) == IF e.type = "put" THEN S \cup {e.addr} ELSE S \ {e.addr}

LogSound ==
  \A r \in 1..Len(log) :
    /\ log[r].type \in {"put", "del"}
    /\ log[r].after = AfterEvent(RegisteredAt(r - 1), log[r])

\* A response in progress holds the end of a stretch of the log.
QueueSound ==
  phase = "apply" =>
    /\ rev > 0
    /\ Len(queue) > 0 /\ head <= Len(log) /\ Len(queue) <= head
    /\ \A i \in 1..Len(queue) : queue[i] = log[head - Len(queue) + i]

\* A picker past its constructor knows the revision to watch from.
PhaseSound ==
  /\ phase \in Phases
  /\ phase \in {"watch", "refresh"} => rev > 0
  /\ phase = "new" => rev = 0 /\ ring = members /\ closing = "no"
  /\ rev <= Len(log) + 1

ViewInv ==
  /\ log \in Seq(Event) /\ queue \in Seq(Event) /\ rev \in Nat /\ head \in Nat
  /\ LogSound /\ QueueSound /\ PhaseSound /\ ViewIsARevision

LEMMA RegisteredTyped ==
  ASSUME ViewInv
  PROVE  Registered \in SUBSET Addrs
<1>1. log \in Seq(Event) /\ Len(log) \in Nat BY DEF ViewInv
<1>2. CASE Len(log) = 0 BY <1>2 DEF Registered, RegisteredAt, Revision
<1>3. CASE Len(log) # 0
  <2>1. log[Len(log)] \in Event BY <1>1, <1>3
  <2> QED BY <1>3, <2>1 DEF Registered, RegisteredAt, Revision, Event
<1> QED BY <1>2, <1>3

\* A step that leaves etcd and the goroutine's own variables alone.
LEMMA ViewFrame ==
  ASSUME ViewInv, UNCHANGED <<log, members, ring, queue, head, rev, phase>>,
         phase = "new" => closing' = "no"
  PROVE  ViewInv'
BY DEF ViewInv, LogSound, QueueSound, PhaseSound, ViewIsARevision, Reached,
       RegisteredAt, Revision

LEMMA CommitKeepsView ==
  ASSUME ViewInv, NEW type \in {"put", "del"}, NEW a \in Addrs, NEW after,
         after = AfterEvent(Registered, [type |-> type, addr |-> a, after |-> after]),
         after \in SUBSET Addrs,
         Commit(type, a, after)
  PROVE  ViewInv'
<1> DEFINE e == [type |-> type, addr |-> a, after |-> after]
<1>1. log' = Append(log, e) /\ UNCHANGED <<members, ring, phase, rev,
                                            queue, head, closing>>
  BY DEF Commit, view
<1>2. e \in Event BY DEF Event
<1>3. /\ log' \in Seq(Event) /\ Len(log') = Len(log) + 1 /\ Len(log) \in Nat
      /\ \A r \in 1..Len(log) : log'[r] = log[r]
      /\ log'[Len(log) + 1] = e
  BY <1>1, <1>2 DEF ViewInv
<1>4. \A r \in 0..Len(log) : RegisteredAt(r)' = RegisteredAt(r)
  BY <1>3 DEF RegisteredAt
<1>5. LogSound'
  <2> SUFFICES ASSUME NEW r \in 1..Len(log')
               PROVE  /\ log'[r].type \in {"put", "del"}
                      /\ log'[r].after = AfterEvent(RegisteredAt(r - 1)', log'[r])
    BY DEF LogSound, AfterEvent
  <2>1. CASE r \in 1..Len(log)
    BY <1>3, <1>4, <2>1 DEF ViewInv, LogSound
  <2>2. CASE r = Len(log) + 1
    BY <1>3, <1>4, <2>2 DEF Registered, Revision
  <2> QED BY <1>3, <2>1, <2>2
<1>6. QueueSound'
  BY <1>1, <1>3 DEF ViewInv, QueueSound
<1>7. PhaseSound' BY <1>1, <1>3 DEF ViewInv, PhaseSound
<1>8. ViewIsARevision'
  BY <1>1, <1>3, <1>4
  DEF ViewInv, ViewIsARevision, Reached, Revision, RegisteredAt, QueueSound
<1> QED BY <1>1, <1>3, <1>5, <1>6, <1>7, <1>8 DEF ViewInv

LEMMA SnapshotKeepsView ==
  ASSUME ViewInv, Snapshot
  PROVE  ViewInv'
<1>1. /\ UNCHANGED <<log, queue, head, closing>> /\ rev' = Len(log) + 1
      /\ phase' = "watch" /\ phase \in {"new", "refresh"}
  BY DEF Snapshot, NextRevision, Revision, etcd
<1>2. members' = {Self} \cup Registered
  BY DEF Snapshot, ReplaceMembership, SameMembers, view
<1>3. ring' = members'
  BY Zenon, <1>1 DEF Snapshot, ReplaceMembership, SameMembers, view, ViewInv, ViewIsARevision,
              PhaseSound
<1>4. Len(log) \in Nat BY DEF ViewInv
<1>5. LogSound' BY <1>1 DEF ViewInv, LogSound, RegisteredAt
<1>6. QueueSound' /\ PhaseSound'
  BY <1>1, <1>4 DEF ViewInv, QueueSound, PhaseSound, Phases
<1>7. ViewIsARevision'
  BY <1>1, <1>2, <1>3, <1>4
  DEF ViewIsARevision, Reached, Registered, RegisteredAt, Revision
<1> QED BY <1>1, <1>4, <1>5, <1>6, <1>7 DEF ViewInv

LEMMA DeliverKeepsView ==
  ASSUME ViewInv, NEW r \in 1..MaxRev, Deliver(r), MaxRev \in Nat
  PROVE  ViewInv'
<1>1. /\ UNCHANGED <<log, members, ring, rev, closing>>
      /\ phase = "watch" /\ phase' = "apply" /\ head' = r
      /\ queue' = SubSeq(log, rev, r) /\ r \in rev..Len(log)
  BY DEF Deliver, Revision, etcd, view
<1>2. rev \in Nat /\ rev > 0 /\ r \in Nat /\ Len(log) \in Nat /\ log \in Seq(Event)
  BY <1>1 DEF ViewInv, PhaseSound
<1>3. /\ queue' \in Seq(Event) /\ Len(queue') = r - rev + 1
      /\ \A i \in 1..(r - rev + 1) : queue'[i] = log[rev + i - 1]
  BY <1>1, <1>2
<1>4. QueueSound'
  BY <1>1, <1>2, <1>3 DEF QueueSound
<1>5. LogSound' BY <1>1 DEF ViewInv, LogSound, RegisteredAt
<1>6. PhaseSound' BY <1>1, <1>2 DEF ViewInv, PhaseSound, Phases
<1>7. ViewIsARevision'
  <2>1. Reached' = rev - 1 BY <1>1, <1>2, <1>3 DEF Reached
  <2>2. Reached = rev - 1 BY <1>1 DEF Reached
  <2> QED BY <1>1, <1>2, <2>1, <2>2 DEF ViewInv, ViewIsARevision, RegisteredAt, Revision
<1> QED BY <1>1, <1>2, <1>3, <1>4, <1>5, <1>6, <1>7 DEF ViewInv

\* The event at the head of the queue is the one that follows the view.
LEMMA ApplyMovesView ==
  ASSUME ViewInv, Apply
  PROVE  /\ members' = AfterEvent(members, Head(queue)) \cup {Self}
         /\ ring' = members'
<1>1. phase = "apply" /\ ring = members /\ Self \in members
  BY DEF Apply, ViewInv, ViewIsARevision, QueueSound
<1>2. Head(queue).type \in {"put", "del"}
  <2>1. queue \in Seq(Event) /\ Len(queue) > 0
    BY <1>1 DEF ViewInv, QueueSound
  <2>2. Head(queue) \in Event BY <2>1
  <2> QED BY <2>2 DEF Event
<1>3. CASE Head(queue).type = "put"
  BY Zenon, <1>1, <1>3 DEF Apply, AddMember, view, AfterEvent
<1>4. CASE Head(queue).type = "del"
  BY Zenon, <1>1, <1>4 DEF Apply, RemoveMember, Removable, view, AfterEvent
<1> QED BY <1>2, <1>3, <1>4

\* An event takes the view to the next revision.
LEMMA ApplyAdvances ==
  ASSUME ViewInv, Apply
  PROVE  Reached = head - Len(queue) /\ Reached' = Reached + 1
<1>1. /\ UNCHANGED head /\ phase = "apply" /\ queue' = Tail(queue)
      /\ IF Len(queue) = 1 THEN rev' = head + 1 /\ phase' = "watch"
                           ELSE UNCHANGED <<rev, phase>>
  BY DEF Apply, AfterResponse
<1>2. /\ queue \in Seq(Event) /\ Len(queue) > 0 /\ Len(queue) \in Nat /\ head \in Nat
      /\ Len(queue') = Len(queue) - 1
  BY <1>1 DEF ViewInv, QueueSound
<1>3. Reached = head - Len(queue) BY <1>1 DEF Reached
<1>4. CASE Len(queue) = 1
  <2>1. Reached' = rev' - 1 BY <1>1, <1>4 DEF Reached
  <2> QED BY <1>1, <1>2, <1>3, <1>4, <2>1
<1>5. CASE Len(queue) # 1
  <2>1. Reached' = head' - Len(queue') BY <1>1, <1>5 DEF Reached
  <2> QED BY <1>1, <1>2, <1>3, <1>5, <2>1
<1> QED BY <1>3, <1>4, <1>5

LEMMA ApplyKeepsView ==
  ASSUME ViewInv, Apply
  PROVE  ViewInv'
<1>1. /\ UNCHANGED <<log, head, closing>> /\ phase = "apply" /\ queue' = Tail(queue)
      /\ IF Len(queue) = 1 THEN rev' = head + 1 /\ phase' = "watch"
                           ELSE UNCHANGED <<rev, phase>>
  BY DEF Apply, AfterResponse, etcd
<1>2. /\ queue \in Seq(Event) /\ Len(queue) > 0 /\ Len(queue) \in Nat
      /\ head \in Nat /\ head <= Len(log) /\ Len(queue) <= head /\ Len(log) \in Nat
      /\ rev \in Nat /\ rev > 0
      /\ \A i \in 1..Len(queue) : queue[i] = log[head - Len(queue) + i]
  BY <1>1 DEF ViewInv, QueueSound
<1>3. /\ queue' \in Seq(Event) /\ Len(queue') = Len(queue) - 1
      /\ \A i \in 1..(Len(queue) - 1) : queue'[i] = queue[i + 1]
      /\ Head(queue) = queue[1]
  BY <1>1, <1>2
<1>4. QueueSound'
  <2>1. CASE Len(queue) = 1
    <3>1. phase' = "watch" /\ Len(queue') = 0 BY <1>1, <1>3, <2>1
    <3> QED BY <1>3, <3>1 DEF QueueSound
  <2>2. CASE Len(queue) # 1
    <3>1. phase' = "apply" /\ head' = head /\ log' = log BY <1>1, <2>2
    <3>2. Len(queue') > 0 /\ Len(queue') <= head' BY <1>2, <1>3, <2>2, <3>1
    <3>4. rev' > 0 /\ head' <= Len(log') BY <1>1, <1>2, <2>2
    <3>3. ASSUME NEW i \in 1..Len(queue')
          PROVE  queue'[i] = log'[head' - Len(queue') + i]
      <4>1. i + 1 \in 1..Len(queue) /\ i \in 1..(Len(queue) - 1) BY <1>2, <1>3
      <4>2. queue'[i] = log[head - Len(queue) + (i + 1)] BY <1>2, <1>3, <4>1
      <4>3. head' - Len(queue') + i = head - Len(queue) + (i + 1)
        BY <1>2, <1>3, <3>1, <4>1
      <4> QED BY <3>1, <4>2, <4>3
    <3> QED BY Zenon, <3>2, <3>3, <3>4 DEF QueueSound
  <2> QED BY <2>1, <2>2
<1>5. LogSound' BY <1>1 DEF ViewInv, LogSound, RegisteredAt
<1>6. PhaseSound' BY <1>1, <1>2 DEF ViewInv, PhaseSound, Phases
<1>7. Reached = head - Len(queue) /\ Reached' = Reached + 1 BY ApplyAdvances
<1>8. /\ Reached + 1 \in 1..Len(log)
      /\ members = {Self} \cup RegisteredAt(Reached)
      /\ Head(queue) = log[Reached + 1]
  BY <1>2, <1>3, <1>7 DEF ViewInv, ViewIsARevision
<1>9. RegisteredAt(Reached + 1) = AfterEvent(RegisteredAt(Reached), Head(queue))
  <2>1. PICK r \in 1..Len(log) : r = Reached + 1 BY <1>8
  <2>2. log[r].after = AfterEvent(RegisteredAt(r - 1), log[r])
    BY DEF ViewInv, LogSound
  <2>3. r - 1 = Reached BY <1>2, <1>7, <2>1
  <2>4. RegisteredAt(Reached + 1) = log[r].after BY <2>1 DEF RegisteredAt
  <2>5. Head(queue) = log[r] BY <1>8, <2>1
  <2> QED BY <2>2, <2>3, <2>4, <2>5
<1>10. members' = {Self} \cup RegisteredAt(Reached + 1) /\ ring' = members'
  BY <1>8, <1>9, ApplyMovesView DEF AfterEvent
<1>11. ViewIsARevision'
  <2>1. RegisteredAt(Reached)' = RegisteredAt(Reached + 1)
    BY <1>1, <1>7 DEF RegisteredAt
  <2>2. Reached' \in 0..Revision' BY <1>1, <1>7, <1>8 DEF Revision
  <2> QED BY <1>10, <2>1, <2>2 DEF ViewIsARevision
<1> QED BY <1>1, <1>2, <1>3, <1>4, <1>5, <1>6, <1>11 DEF ViewInv

LEMMA ViewInductive ==
  ASSUME ViewInv, [Next]_vars, MembershipAssumption
  PROVE  ViewInv'
<1>1. ASSUME NEW a \in Addrs, Put(a) PROVE ViewInv'
  <2>1. Registered \cup {a} \in SUBSET Addrs
    BY RegisteredTyped
  <2> QED BY <1>1, <2>1, CommitKeepsView DEF Put, AfterEvent
<1>2. ASSUME NEW a \in Addrs, Expire(a) PROVE ViewInv'
  <2>1. Registered \ {a} \in SUBSET Addrs
    BY RegisteredTyped
  <2> QED BY <1>2, <2>1, CommitKeepsView DEF Expire, AfterEvent
<1>3. ASSUME NEW r \in 1..MaxRev, Compact(r) PROVE ViewInv'
  BY <1>3, ViewFrame DEF Compact, view, ViewInv, PhaseSound
<1>4. ASSUME NEW r \in 1..MaxRev, Deliver(r) PROVE ViewInv'
  BY <1>4, DeliverKeepsView DEF MembershipAssumption
<1>5. CASE Snapshot BY <1>5, SnapshotKeepsView
<1>6. CASE SnapshotFails
  BY <1>6 DEF SnapshotFails, etcd, view, ViewInv, LogSound, QueueSound, PhaseSound,
              Phases, ViewIsARevision, Reached, RegisteredAt, Revision
<1>7. CASE Apply BY <1>7, ApplyKeepsView
<1>8. CASE WatchBreaks
  BY <1>8 DEF WatchBreaks, etcd, view, ViewInv, LogSound, QueueSound, PhaseSound,
              Phases, ViewIsARevision, Reached, RegisteredAt, Revision
<1>9. CASE WatchStops
  BY <1>9 DEF WatchStops, etcd, view, ViewInv, LogSound, QueueSound, PhaseSound,
              Phases, ViewIsARevision, Reached, RegisteredAt, Revision
<1>10. CASE Cancel
  BY <1>10, ViewFrame DEF Cancel, etcd, view, ViewInv, PhaseSound
<1>11. CASE CloseClients
  BY <1>11, ViewFrame DEF CloseClients, etcd, ViewInv, PhaseSound
<1>12. CASE UNCHANGED vars
  BY <1>12, ViewFrame DEF vars, ViewInv, PhaseSound
<1> QED
  BY <1>1, <1>2, <1>3, <1>4, <1>5, <1>6, <1>7, <1>8, <1>9, <1>10, <1>11, <1>12 DEF Next

\* Whatever breaks, fails or is compacted in between, and however many nodes
\* and changes there are, the view watchServiceChanges maintains is the
\* membership of one etcd revision: no event is missed.
THEOREM ViewSound == Spec => []ViewIsARevision
<1>1. Init => ViewInv
  BY DEF Init, ViewInv, LogSound, QueueSound, PhaseSound, Phases, ViewIsARevision
<1>2. ViewInv /\ [Next]_vars => ViewInv'
  BY ViewInductive, MembershipAssumption
<1>3. ViewInv => ViewIsARevision BY DEF ViewInv
<1> QED BY <1>1, <1>2, <1>3, PTL DEF Spec

-----------------------------------------------------------------------------
\* Only Close that did not wait long enough leaves the goroutine running.
ConnInv ==
  /\ ConnectionsMatch
  /\ closing = "closed" /\ ~timedOut => phase = "done"

LEMMA ReplaceKeepsConnections ==
  ASSUME MembershipAssumption, clients = members \cap Dialable, open = clients,
         NEW desired, ReplaceMembership(desired)
  PROVE  clients' = members' \cap Dialable /\ open' = clients'
BY DEF ReplaceMembership, NewClients, Dropped, SameMembers, view, MembershipAssumption

LEMMA EventKeepsConnections ==
  ASSUME MembershipAssumption, clients = members \cap Dialable, open = clients,
         NEW a, AddMember(a) \/ RemoveMember(a)
  PROVE  clients' = members' \cap Dialable /\ open' = clients'
<1>1. CASE AddMember(a) BY <1>1 DEF AddMember, view
<1>2. CASE RemoveMember(a) BY <1>2 DEF RemoveMember, view
<1> QED BY <1>1, <1>2

LEMMA ConnInductive ==
  ASSUME ConnInv, [Next]_vars, MembershipAssumption
  PROVE  ConnInv'
<1>1. ASSUME NEW a \in Addrs, Put(a) \/ Expire(a) PROVE ConnInv'
  BY <1>1 DEF Put, Expire, Commit, view, ConnInv, ConnectionsMatch
<1>2. ASSUME NEW r \in 1..MaxRev, Compact(r) \/ Deliver(r) PROVE ConnInv'
  BY <1>2 DEF Compact, Deliver, etcd, view, ConnInv, ConnectionsMatch
<1>3. CASE Snapshot
  <2>1. closing' = closing /\ timedOut' = timedOut /\ phase # "done"
        /\ ReplaceMembership({Self} \cup Registered)
    BY <1>3 DEF Snapshot
  <2>2. closing # "closed" => clients' = members' \cap Dialable /\ open' = clients'
    BY <2>1, ReplaceKeepsConnections DEF ConnInv, ConnectionsMatch
  <2> QED BY <2>1, <2>2 DEF ConnInv, ConnectionsMatch
<1>4. CASE Apply
  <2>1. closing' = closing /\ timedOut' = timedOut /\ phase # "done"
        /\ (AddMember(Head(queue).addr) \/ RemoveMember(Head(queue).addr))
    BY <1>4 DEF Apply
  <2>2. closing # "closed" => clients' = members' \cap Dialable /\ open' = clients'
    BY <2>1, EventKeepsConnections DEF ConnInv, ConnectionsMatch
  <2> QED BY <2>1, <2>2 DEF ConnInv, ConnectionsMatch
<1>5. CASE SnapshotFails \/ WatchBreaks \/ WatchStops \/ Cancel
  BY <1>5 DEF SnapshotFails, WatchBreaks, WatchStops, Cancel, view, ConnInv, ConnectionsMatch
<1>6. CASE CloseClients
  BY Zenon, <1>6 DEF CloseClients, ConnInv, ConnectionsMatch
<1>7. CASE UNCHANGED vars
  BY <1>7 DEF vars, ConnInv, ConnectionsMatch
<1> QED BY <1>1, <1>2, <1>3, <1>4, <1>5, <1>6, <1>7 DEF Next

\* The picker holds one connection per member it can dial and no other, and
\* Close leaves none open unless it gave up waiting for the watch goroutine.
THEOREM ConnectionsSound == Spec => []ConnectionsMatch
<1>1. Init => ConnInv
  BY MembershipAssumption DEF Init, ConnInv, ConnectionsMatch, MembershipAssumption
<1>2. ConnInv /\ [Next]_vars => ConnInv'
  BY ConnInductive, MembershipAssumption
<1>3. ConnInv => ConnectionsMatch BY DEF ConnInv
<1> QED BY <1>1, <1>2, <1>3, PTL DEF Spec

-----------------------------------------------------------------------------
LEMMA EpochType ==
  ASSUME epoch \in Nat, [Next]_vars PROVE epoch' \in Nat
<1>1. ASSUME NEW desired, ReplaceMembership(desired) PROVE epoch' \in Nat
  BY <1>1 DEF ReplaceMembership, view
<1>2. ASSUME NEW a, AddMember(a) \/ RemoveMember(a) PROVE epoch' \in Nat
  BY <1>2 DEF AddMember, RemoveMember, view
<1> QED
  BY <1>1, <1>2 DEF Next, vars, Put, Expire, Commit, Compact, Deliver, Snapshot,
     SnapshotFails, Apply, WatchBreaks, WatchStops, Cancel, CloseClients, view

\* An epoch names one membership for ever: every change of the members, by a snapshot or
\* by an event, moves p.epoch, and nothing else does.
THEOREM EpochsName == Spec => EpochNamesMembership
<1> DEFINE Names == /\ members' # members => epoch' > epoch
                    /\ members' = members => epoch' = epoch
           Counts == epoch \in Nat
<1>1. Init => Counts BY DEF Init
<1>2. Counts /\ [Next]_vars => Counts' BY EpochType
<1>3. Counts /\ [Next]_vars => [Names]_vars
  <2> SUFFICES ASSUME epoch \in Nat, Next PROVE Names OBVIOUS
  <2>1. ASSUME NEW desired, ReplaceMembership(desired) PROVE Names
    BY <2>1 DEF ReplaceMembership, SameMembers, view
  <2>2. ASSUME NEW a, AddMember(a) PROVE Names BY <2>2 DEF AddMember, view
  <2>3. ASSUME NEW a, RemoveMember(a) PROVE Names
    BY <2>3 DEF RemoveMember, Removable, view
  <2>4. ASSUME UNCHANGED <<members, epoch>> PROVE Names BY <2>4
  <2> QED
    BY <2>1, <2>2, <2>3, <2>4 DEF Next, Put, Expire, Commit, Compact, Deliver, Snapshot,
       SnapshotFails, Apply, WatchBreaks, WatchStops, Cancel, CloseClients, view
<1>4. Spec => [][Names]_vars BY <1>1, <1>2, <1>3, PTL DEF Spec
<1> QED BY <1>4 DEF EpochNamesMembership

\* The revision the view stands for never goes down: neither a snapshot after a broken
\* watch nor a response takes the picker back to an earlier membership.
THEOREM ViewForward == Spec => ViewMovesForward
<1> DEFINE Forward == rev > 0 => Reached' >= Reached
<1>1. Init => ViewInv
  BY DEF Init, ViewInv, LogSound, QueueSound, PhaseSound, Phases, ViewIsARevision
<1>2. ViewInv /\ [Next]_vars => ViewInv'
  BY ViewInductive, MembershipAssumption
<1>3. ViewInv /\ [Next]_vars => [Forward]_vars
  <2> SUFFICES ASSUME ViewInv, Next, rev > 0 PROVE Reached' >= Reached OBVIOUS
  <2>1. Reached \in 0..Len(log) /\ Len(log) \in Nat
    BY DEF ViewInv, ViewIsARevision, Revision
  <2>2. ASSUME Snapshot PROVE Reached' >= Reached
    <3>1. rev' = Len(log) + 1 /\ phase' = "watch"
      BY <2>2 DEF Snapshot, NextRevision, Revision
    <3>2. Reached' = Len(log) BY <2>1, <3>1 DEF Reached
    <3> QED BY <2>1, <3>2
  <2>3. ASSUME Apply PROVE Reached' >= Reached BY <2>1, <2>3, ApplyAdvances
  <2>4. ASSUME NEW r, Deliver(r) PROVE Reached' >= Reached
    <3>1. /\ phase = "watch" /\ phase' = "apply" /\ head' = r
          /\ queue' = SubSeq(log, rev, r) /\ r \in rev..Len(log)
      BY <2>4 DEF Deliver, Revision
    <3>2. rev \in Nat /\ log \in Seq(Event) BY DEF ViewInv
    <3>3. Len(queue') = r - rev + 1 BY <2>1, <3>1, <3>2
    <3>4. Reached = rev - 1 /\ Reached' = rev - 1
      BY <2>1, <3>1, <3>2, <3>3 DEF Reached
    <3> QED BY <3>2, <3>4
  <2>5. ASSUME UNCHANGED <<phase, rev, queue, head>> PROVE Reached' >= Reached
    <3>1. Reached' = Reached BY <2>5 DEF Reached
    <3> QED BY <2>1, <3>1
  <2>6. ASSUME SnapshotFails \/ WatchBreaks \/ WatchStops PROVE Reached' >= Reached
    <3>1. phase # "apply" /\ phase' # "apply" /\ rev' = rev
      BY <2>6 DEF SnapshotFails, WatchBreaks, WatchStops
    <3>2. Reached' = Reached BY <3>1 DEF Reached
    <3> QED BY <2>1, <3>2
  <2> QED
    BY <2>2, <2>3, <2>4, <2>5, <2>6 DEF Next, Put, Expire, Commit, Compact, Cancel,
       CloseClients
<1>4. Spec => [][Forward]_vars BY <1>1, <1>2, <1>3, PTL DEF Spec
<1> QED BY <1>4 DEF ViewMovesForward

-----------------------------------------------------------------------------
\* Induction on the naturals, as a least counterexample.
LEMMA LeastNatural ==
  ASSUME NEW T, T \subseteq Nat, T # {}
  PROVE  \E m \in T : \A n \in T : m <= n
<1> DEFINE below == {ss \in Nat \X Nat : ss[1] < ss[2]}
<1>1. IsWellFoundedOn(below, Nat) BY NatLessThanWellFounded DEF OpToRel
<1> HIDE DEF below
<1>2. PICK m \in T : \A n \in T : ~(<<n, m>> \in below) BY <1>1, WFMin
<1>3. \A n \in T : ~(n < m) BY <1>2 DEF below
<1> QED BY <1>3

\* g starts with b and follows step.
Iterates(g, b, step, n) == g[0] = b /\ \A i \in 1..n : g[i] = step[i][g[i - 1]]

\* A loop over 1..n has a result: what the recursive functions of the ring rest on.
LEMMA IterationExists ==
  ASSUME NEW n \in Nat, NEW S, NEW b \in S, NEW step \in [1..n -> [S -> S]]
  PROVE  \E g \in [0..n -> S] : Iterates(g, b, step, n)
<1> DEFINE Done(m) == \E g \in [0..m -> S] : Iterates(g, b, step, m)
           T == {m \in 0..n : ~Done(m)}
<1>1. T = {}
  <2> SUFFICES ASSUME T # {} PROVE FALSE OBVIOUS
  <2>1. T \subseteq Nat OBVIOUS
  <2> HIDE DEF T
  <2>2. PICK m \in T : \A k \in T : m <= k BY <2>1, LeastNatural
  <2> USE DEF T
  <2>3. CASE m = 0
    <3> DEFINE g == [i \in 0..0 |-> b]
    <3>1. g \in [0..0 -> S] /\ Iterates(g, b, step, 0) BY DEF Iterates
    <3> QED BY <2>3, <3>1
  <2>4. CASE m # 0
    <3>1. m - 1 \in 0..n /\ ~(m <= m - 1) /\ m \in 1..n BY <2>4
    <3>2. Done(m - 1) BY <2>2, <3>1
    <3>3. PICK h \in [0..m - 1 -> S] : Iterates(h, b, step, m - 1) BY <3>2
    <3> DEFINE g == [i \in 0..m |-> IF i = m THEN step[m][h[m - 1]] ELSE h[i]]
    <3>4. h[m - 1] \in S /\ step[m] \in [S -> S] BY <3>1
    <3>5. g \in [0..m -> S]
      <4>1. ASSUME NEW i \in 0..m PROVE g[i] \in S
        <5>1. CASE i = m BY <3>4, <5>1
        <5>2. CASE i # m
          <6>1. i \in 0..m - 1 BY <5>2
          <6> QED BY <5>2, <6>1
        <5> QED BY <5>1, <5>2
      <4> QED BY <4>1
    <3>6. g[0] = b BY <2>4, <3>3 DEF Iterates
    <3>7. ASSUME NEW i \in 1..m PROVE g[i] = step[i][g[i - 1]]
      <4>1. CASE i = m
        <5>1. g[i - 1] = h[m - 1] BY <2>4, <4>1
        <5>2. g[i] = step[m][h[m - 1]] BY <4>1
        <5> HIDE DEF g
        <5> QED BY <4>1, <5>1, <5>2
      <4>2. CASE i # m
        <5>1. i \in 1..m - 1 /\ g[i - 1] = h[i - 1] /\ g[i] = h[i] BY <4>2
        <5> HIDE DEF g
        <5> QED BY <3>3, <5>1 DEF Iterates
      <4> QED BY <4>1, <4>2
    <3> HIDE DEF g
    <3>8. Done(m) BY <3>5, <3>6, <3>7 DEF Iterates
    <3> QED BY <3>8
  <2> QED BY <2>3, <2>4
<1>2. n \in 0..n OBVIOUS
<1> QED BY <1>1, <1>2

-----------------------------------------------------------------------------
(* The order of the points. *)

Places == [hash : Hashes, node : Nodes, replica : 0..Replicas - 1]

Sorted(s) == \A i, j \in 1..Len(s) : i < j => Precedes(s[i], s[j])

LEMMA OrderIsTotal ==
  ASSUME NEW p \in Places, NEW q \in Places
  PROVE  /\ p = q \/ Precedes(p, q) \/ Precedes(q, p)
         /\ ~(Precedes(p, q) /\ Precedes(q, p)) /\ ~Precedes(p, p)
BY RingAssumption DEF Places, Precedes, Hashes, Nodes

LEMMA OrderIsTransitive ==
  ASSUME NEW p \in Places, NEW q \in Places, NEW r \in Places, Precedes(p, q), Precedes(q, r)
  PROVE  Precedes(p, r)
BY RingAssumption DEF Places, Precedes, Hashes, Nodes

\* Where Insert puts p: before the first point that p precedes.
LEMMA InsertPlace ==
  ASSUME NEW s \in Seq(Places), NEW p \in Places
  PROVE  \E at \in 0..Len(s) :
           /\ at = Len(s) \/ Precedes(p, s[at + 1])
           /\ \A i \in 1..at : ~Precedes(p, s[i])
           /\ Insert(s, p) = [i \in 1..Len(s) + 1 |->
                                IF i <= at THEN s[i] ELSE IF i = at + 1 THEN p ELSE s[i - 1]]
<1> DEFINE n == Len(s)
           Fits(k) == /\ k = n \/ Precedes(p, s[k + 1])
                      /\ \A i \in 1..k : ~Precedes(p, s[i])
           c == CHOOSE k \in 0..n : Fits(k)
<1>1. n \in Nat OBVIOUS
<1>2. \E k \in 0..n : Fits(k)
  <2> DEFINE T == {k \in 0..n : k = n \/ Precedes(p, s[k + 1])}
  <2>1. T \subseteq Nat /\ n \in T BY <1>1
  <2> HIDE DEF T, n
  <2>2. PICK k \in T : \A i \in T : k <= i BY <2>1, LeastNatural
  <2>3. k \in 0..n /\ (k = n \/ Precedes(p, s[k + 1])) BY DEF T
  <2>4. ASSUME NEW i \in 1..k, Precedes(p, s[i]) PROVE FALSE
    <3>1. i - 1 \in 0..n /\ (i - 1) + 1 = i /\ ~(k <= i - 1) BY <1>1, <2>3
    <3>2. i - 1 \in T BY <2>4, <3>1 DEF T
    <3> QED BY <2>2, <3>1, <3>2
  <2> QED BY <2>3, <2>4
<1>3. c \in 0..n /\ Fits(c) BY <1>2
<1>4. Insert(s, p) = [i \in 1..n + 1 |->
                        IF i <= c THEN s[i] ELSE IF i = c + 1 THEN p ELSE s[i - 1]]
  BY DEF Insert
<1> HIDE DEF c
<1> QED BY <1>3, <1>4

LEMMA InsertTyped ==
  ASSUME NEW s \in Seq(Places), NEW p \in Places
  PROVE  Insert(s, p) \in Seq(Places)
<1> DEFINE n == Len(s)
<1>1. PICK at \in 0..n :
        Insert(s, p) = [i \in 1..n + 1 |->
                          IF i <= at THEN s[i] ELSE IF i = at + 1 THEN p ELSE s[i - 1]]
  BY InsertPlace
<1>2. n \in Nat /\ \A i \in 1..n : s[i] \in Places OBVIOUS
<1> HIDE DEF n
<1>3. ASSUME NEW i \in 1..n + 1
      PROVE  (IF i <= at THEN s[i] ELSE IF i = at + 1 THEN p ELSE s[i - 1]) \in Places
  <2>1. CASE i <= at
    <3>1. i \in 1..n BY <1>2, <2>1
    <3> QED BY <1>2, <2>1, <3>1
  <2>2. CASE i = at + 1 BY <1>2, <2>2
  <2>3. CASE ~(i <= at) /\ i # at + 1
    <3>1. i - 1 \in 1..n BY <1>2, <2>3
    <3> QED BY <1>2, <2>3, <3>1
  <2> QED BY <2>1, <2>2, <2>3
<1> QED BY <1>1, <1>2, <1>3

LEMMA InsertSorts ==
  ASSUME NEW s \in Seq(Places), Sorted(s), NEW p \in Places, p \notin Range(s)
  PROVE  /\ Insert(s, p) \in Seq(Places) /\ Sorted(Insert(s, p))
         /\ Range(Insert(s, p)) = Range(s) \cup {p}
<1> DEFINE n == Len(s)
<1>1. PICK at \in 0..n :
        /\ at = n \/ Precedes(p, s[at + 1])
        /\ \A i \in 1..at : ~Precedes(p, s[i])
        /\ Insert(s, p) = [i \in 1..n + 1 |->
                             IF i <= at THEN s[i] ELSE IF i = at + 1 THEN p ELSE s[i - 1]]
  BY InsertPlace
<1> DEFINE u == Insert(s, p)
<1>2. n \in Nat /\ DOMAIN s = 1..n /\ \A i \in 1..n : s[i] \in Places /\ s[i] \in Range(s)
  BY DEF Range
<1> HIDE DEF n
<1>3. \A i \in 1..at : Precedes(s[i], p)
  <2> SUFFICES ASSUME NEW i \in 1..at PROVE Precedes(s[i], p) OBVIOUS
  <2>1. i \in 1..n BY <1>1, <1>2
  <2> QED BY <1>1, <1>2, <2>1, OrderIsTotal
<1>4. \A i \in at + 1..n : Precedes(p, s[i])
  <2> SUFFICES ASSUME NEW i \in at + 1..n PROVE Precedes(p, s[i]) OBVIOUS
  <2>1. i \in 1..n /\ at + 1 \in 1..n /\ at # n BY <1>1, <1>2
  <2>2. Precedes(p, s[at + 1]) BY <1>1, <2>1
  <2>3. CASE i = at + 1 BY <2>2, <2>3
  <2>4. CASE i # at + 1
    <3>1. at + 1 < i BY <2>1, <2>4
    <3>2. Precedes(s[at + 1], s[i]) BY <2>1, <3>1 DEF Sorted, n
    <3> QED BY <1>2, <2>1, <2>2, <3>2, OrderIsTransitive
  <2> QED BY <2>3, <2>4
<1>5. /\ \A i \in 1..at : i \in 1..n /\ u[i] = s[i]
      /\ u[at + 1] = p
      /\ \A i \in at + 2..n + 1 : i - 1 \in at + 1..n /\ i - 1 \in 1..n /\ u[i] = s[i - 1]
      /\ DOMAIN u = 1..n + 1 /\ 1..n + 1 = 1..at \cup {at + 1} \cup at + 2..n + 1
  BY <1>1, <1>2
<1> HIDE DEF u
<1>6. u \in Seq(Places) /\ Len(u) = n + 1
  <2>1. u \in Seq(Places) BY InsertTyped DEF u
  <2>2. DOMAIN u = 1..Len(u) /\ Len(u) \in Nat BY <2>1
  <2> QED BY <1>2, <1>5, <2>1, <2>2
<1>7. Sorted(u)
  <2> SUFFICES ASSUME NEW i \in 1..n + 1, NEW j \in 1..n + 1, i < j PROVE Precedes(u[i], u[j])
    BY <1>6 DEF Sorted
  <2>s. \A a, b \in 1..n : a < b => Precedes(s[a], s[b]) BY DEF Sorted, n
  <2>1. CASE i \in 1..at /\ j \in 1..at BY <1>5, <2>s, <2>1
  <2>2. CASE i \in 1..at /\ j = at + 1 BY <1>3, <1>5, <2>2
  <2>3. CASE i \in 1..at /\ j \in at + 2..n + 1
    <3>1. i < j - 1 BY <1>1, <1>2, <2>3
    <3> QED BY <1>5, <2>s, <2>3, <3>1
  <2>4. CASE i = at + 1 /\ j \in at + 2..n + 1 BY <1>4, <1>5, <2>4
  <2>5. CASE i \in at + 2..n + 1 /\ j \in at + 2..n + 1
    <3>1. i - 1 < j - 1 BY <1>1, <1>2, <2>5
    <3> QED BY <1>5, <2>s, <2>5, <3>1
  <2> QED BY <1>1, <1>2, <2>1, <2>2, <2>3, <2>4, <2>5
<1>8. Range(u) = Range(s) \cup {p}
  <2>1. ASSUME NEW x \in Range(u) PROVE x \in Range(s) \cup {p}
    <3>1. PICK i \in 1..n + 1 : x = u[i] BY <1>5 DEF Range
    <3> QED BY <1>2, <1>5, <3>1
  <2>2. p \in Range(u)
    <3>1. at + 1 \in 1..n + 1 BY <1>1, <1>2
    <3> QED BY <1>5, <3>1 DEF Range
  <2>3. ASSUME NEW x \in Range(s) PROVE x \in Range(u)
    <3>1. PICK i \in 1..n : x = s[i] BY <1>2 DEF Range
    <3>2. CASE i <= at
      <4>1. i \in 1..at /\ i \in 1..n + 1 BY <1>1, <1>2, <3>2
      <4> QED BY <1>5, <3>1, <4>1 DEF Range
    <3>3. CASE ~(i <= at)
      <4>1. i + 1 \in at + 2..n + 1 /\ i + 1 \in 1..n + 1 /\ (i + 1) - 1 = i BY <1>1, <1>2, <3>3
      <4>2. u[i + 1] = x BY <1>5, <3>1, <4>1
      <4> QED BY <1>5, <4>1, <4>2 DEF Range
    <3> QED BY <3>2, <3>3
  <2> QED BY <2>1, <2>2, <2>3
<1> QED BY <1>6, <1>7, <1>8 DEF u

\* What sortPoints makes of points that are all different.
LEMMA SortSorts ==
  ASSUME NEW ps \in Seq(Places), IsInjective(ps)
  PROVE  /\ SortPoints(ps) \in Seq(Places) /\ Sorted(SortPoints(ps))
         /\ Range(SortPoints(ps)) = Range(ps)
<1> DEFINE n == Len(ps)
           rec(g) == [i \in 0..n |-> IF i = 0 THEN <<>> ELSE Insert(g[i - 1], ps[i])]
           f == CHOOSE g : g = rec(g)
           step == [i \in 1..n |-> [s \in Seq(Places) |-> Insert(s, ps[i])]]
<1>1. SortPoints(ps) = f[n] BY DEF SortPoints
<1>2. n \in Nat /\ DOMAIN ps = 1..n /\ \A i \in 1..n : ps[i] \in Places OBVIOUS
<1>3. \E g : g = rec(g)
  <2> HIDE DEF n
  <2>1. step \in [1..n -> [Seq(Places) -> Seq(Places)]]
    <3>1. ASSUME NEW i \in 1..n, NEW s \in Seq(Places) PROVE Insert(s, ps[i]) \in Seq(Places)
      BY <1>2, InsertTyped
    <3> QED BY <3>1
  <2>2. <<>> \in Seq(Places) OBVIOUS
  <2> HIDE DEF step
  <2>3. PICK g \in [0..n -> Seq(Places)] : Iterates(g, <<>>, step, n)
    BY <1>2, <2>1, <2>2, IterationExists
  <2>4. ASSUME NEW i \in 0..n PROVE g[i] = rec(g)[i]
    <3>1. CASE i = 0 BY <2>3, <3>1 DEF Iterates
    <3>2. CASE i # 0
      <4>1. i \in 1..n /\ i - 1 \in 0..n BY <1>2, <3>2
      <4>2. g[i] = step[i][g[i - 1]] /\ g[i - 1] \in Seq(Places) BY <2>3, <4>1 DEF Iterates
      <4>3. step[i][g[i - 1]] = Insert(g[i - 1], ps[i]) BY <4>1, <4>2 DEF step
      <4> QED BY <3>2, <4>2, <4>3
    <3> QED BY <3>1, <3>2
  <2>5. g = rec(g) BY <2>4
  <2> QED BY <2>5
<1>4. f = rec(f) BY <1>3
<1>5. f[0] = <<>> /\ \A i \in 1..n : f[i] = Insert(f[i - 1], ps[i])
  <2> HIDE DEF f, n
  <2>1. \A i \in 0..n : f[i] = rec(f)[i] BY <1>4
  <2> QED BY <1>2, <2>1
<1> HIDE DEF f, rec, n
<1> DEFINE First(m) == {ps[i] : i \in 1..m}
           Good(m) == f[m] \in Seq(Places) /\ Sorted(f[m]) /\ Range(f[m]) = First(m)
           T == {m \in 0..n : ~Good(m)}
<1>6. T = {}
  <2> SUFFICES ASSUME T # {} PROVE FALSE OBVIOUS
  <2>1. T \subseteq Nat BY <1>2
  <2> HIDE DEF T
  <2>2. PICK m \in T : \A k \in T : m <= k BY <2>1, LeastNatural
  <2>3. m \in 0..n /\ ~Good(m) BY DEF T
  <2>4. CASE m = 0
    <3>1. f[0] \in Seq(Places) /\ Sorted(f[0]) BY <1>5 DEF Sorted
    <3>2. Range(f[0]) = {} BY <1>5 DEF Range
    <3> QED BY <2>3, <2>4, <3>1, <3>2
  <2>5. CASE m # 0
    <3>1. m \in 1..n /\ m - 1 \in 0..n /\ ~(m <= m - 1) BY <1>2, <2>3, <2>5
    <3>2. Good(m - 1) BY <2>2, <3>1 DEF T
    <3>3. ps[m] \notin First(m - 1)
      <4> SUFFICES ASSUME NEW i \in 1..m - 1, ps[m] = ps[i] PROVE FALSE OBVIOUS
      <4>1. i \in 1..n /\ i # m BY <1>2, <3>1
      <4> QED BY <1>2, <3>1, <4>1 DEF IsInjective
    <3>4. /\ f[m] \in Seq(Places) /\ Sorted(f[m]) /\ Range(f[m]) = Range(f[m - 1]) \cup {ps[m]}
      <4>1. f[m - 1] \in Seq(Places) /\ Sorted(f[m - 1]) /\ ps[m] \notin Range(f[m - 1])
        BY <3>2, <3>3
      <4>2. f[m] = Insert(f[m - 1], ps[m]) /\ ps[m] \in Places BY <1>2, <1>5, <3>1
      <4> HIDE DEF First, Good
      <4> QED BY <4>1, <4>2, InsertSorts
    <3>5. First(m) = First(m - 1) \cup {ps[m]}
      <4>1. 1..m = (1..m - 1) \cup {m} BY <1>2, <3>1
      <4> QED BY <4>1
    <3> QED BY <2>3, <3>2, <3>4, <3>5
  <2> QED BY <2>4, <2>5
<1>7. Good(n)
  <2> HIDE DEF Good
  <2> QED BY <1>2, <1>6
<1>8. Range(ps) = First(n) BY <1>2 DEF Range
<1> QED BY <1>1, <1>7, <1>8

\* Removing the points of a node keeps the others in order.
LEMMA WithoutIs ==
  ASSUME points \in Seq(Places), Sorted(points), NEW x
  PROVE  /\ Without(x) \in Seq(Places) /\ Sorted(Without(x))
         /\ Range(Without(x)) = {p \in Range(points) : p.node # x}
<1> DEFINE n == Len(points)
           Kept(s, i) == IF points[i].node = x THEN s ELSE Append(s, points[i])
           rec(g) == [i \in 0..n |-> IF i = 0 THEN <<>>
                                     ELSE IF points[i].node = x THEN g[i - 1]
                                     ELSE Append(g[i - 1], points[i])]
           f == CHOOSE g : g = rec(g)
           step == [i \in 1..n |-> [s \in Seq(Places) |-> Kept(s, i)]]
<1>1. Without(x) = f[n] BY DEF Without
<1>2. n \in Nat /\ DOMAIN points = 1..n /\ \A i \in 1..n : points[i] \in Places OBVIOUS
<1>3. \E g : g = rec(g)
  <2> HIDE DEF n
  <2>1. step \in [1..n -> [Seq(Places) -> Seq(Places)]]
    <3>1. ASSUME NEW i \in 1..n, NEW s \in Seq(Places) PROVE Kept(s, i) \in Seq(Places)
      BY <1>2
    <3> HIDE DEF Kept
    <3> QED BY <3>1
  <2>2. <<>> \in Seq(Places) OBVIOUS
  <2> HIDE DEF step
  <2>3. PICK g \in [0..n -> Seq(Places)] : Iterates(g, <<>>, step, n)
    BY <1>2, <2>1, <2>2, IterationExists
  <2>4. ASSUME NEW i \in 0..n PROVE g[i] = rec(g)[i]
    <3>1. CASE i = 0 BY <2>3, <3>1 DEF Iterates
    <3>2. CASE i # 0
      <4>1. i \in 1..n /\ i - 1 \in 0..n BY <1>2, <3>2
      <4>2. g[i] = step[i][g[i - 1]] /\ g[i - 1] \in Seq(Places) BY <2>3, <4>1 DEF Iterates
      <4>3. step[i][g[i - 1]] = Kept(g[i - 1], i)
        <5> HIDE DEF Kept
        <5> QED BY <4>1, <4>2 DEF step
      <4> QED BY <3>2, <4>2, <4>3
    <3> QED BY <3>1, <3>2
  <2>5. g = rec(g) BY <2>4
  <2> QED BY <2>5
<1>4. f = rec(f) BY <1>3
<1>5. f[0] = <<>> /\ \A i \in 1..n : f[i] = Kept(f[i - 1], i)
  <2> HIDE DEF f, n
  <2>1. \A i \in 0..n : f[i] = rec(f)[i] BY <1>4
  <2> QED BY <1>2, <2>1
<1> HIDE DEF f, rec, n
<1> DEFINE Rest(m) == {points[i] : i \in {j \in 1..m : points[j].node # x}}
           Good(m) == /\ f[m] \in Seq(Places) /\ Sorted(f[m]) /\ Range(f[m]) = Rest(m)
           T == {m \in 0..n : ~Good(m)}
<1>6. T = {}
  <2> SUFFICES ASSUME T # {} PROVE FALSE OBVIOUS
  <2>1. T \subseteq Nat BY <1>2
  <2> HIDE DEF T
  <2>2. PICK m \in T : \A k \in T : m <= k BY <2>1, LeastNatural
  <2>3. m \in 0..n /\ ~Good(m) BY DEF T
  <2>4. CASE m = 0
    <3>1. f[0] \in Seq(Places) /\ Sorted(f[0]) BY <1>5 DEF Sorted
    <3>2. Range(f[0]) = {} BY <1>5 DEF Range
    <3> QED BY <2>3, <2>4, <3>1, <3>2
  <2>5. CASE m # 0
    <3> DEFINE s == f[m - 1]
               p == points[m]
    <3>1. m \in 1..n /\ m - 1 \in 0..n /\ ~(m <= m - 1) BY <1>2, <2>3, <2>5
    <3>2. Good(m - 1) BY <2>2, <3>1 DEF T
    <3>3. 1..m = (1..m - 1) \cup {m} BY <1>2, <3>1
    <3>4. CASE p.node = x
      <4>1. f[m] = s BY <1>5, <3>1, <3>4
      <4>2. Rest(m) = Rest(m - 1) BY <3>3, <3>4
      <4> QED BY <2>3, <3>2, <4>1, <4>2
    <3>5. CASE p.node # x
      <4>1. f[m] = Append(s, p) BY <1>5, <3>1, <3>5
      <4>2. Rest(m) = Rest(m - 1) \cup {p} BY <3>3, <3>5
      <4>3. s \in Seq(Places) /\ Sorted(s) /\ Range(s) = Rest(m - 1) /\ p \in Places
        BY <1>2, <3>1, <3>2
      <4>4. ASSUME NEW q \in Range(s) PROVE Precedes(q, p)
        <5>1. PICK i \in 1..m - 1 : q = points[i] BY <4>3
        <5>2. i \in 1..n /\ i < m BY <1>2, <3>1
        <5> QED BY <3>1, <5>1, <5>2 DEF Sorted, n
      <4> HIDE DEF s, p, Rest
      <4> DEFINE w == Append(s, p)
      <4>5. /\ w \in Seq(Places) /\ Len(w) = Len(s) + 1 /\ w[Len(s) + 1] = p
            /\ DOMAIN s = 1..Len(s) /\ Len(s) \in Nat /\ DOMAIN w = 1..Len(w)
            /\ \A i \in 1..Len(s) : w[i] = s[i] /\ s[i] \in Range(s)
        BY <4>3 DEF Range
      <4> HIDE DEF w
      <4>6. Sorted(w)
        <5> SUFFICES ASSUME NEW i \in 1..Len(w), NEW j \in 1..Len(w), i < j
                     PROVE  Precedes(w[i], w[j])
          BY DEF Sorted
        <5>1. i \in 1..Len(s) BY <4>5
        <5>2. CASE j = Len(s) + 1 BY <4>4, <4>5, <5>1, <5>2
        <5>3. CASE j # Len(s) + 1
          <6>1. j \in 1..Len(s) BY <4>5, <5>3
          <6> QED BY <4>3, <4>5, <5>1, <6>1 DEF Sorted
        <5> QED BY <5>2, <5>3
      <4>7. Range(w) = Range(s) \cup {p}
        <5>1. 1..Len(w) = (1..Len(s)) \cup {Len(s) + 1} BY <4>5
        <5>2. ASSUME NEW y \in Range(w) PROVE y \in Range(s) \cup {p}
          <6>1. PICK i \in 1..Len(w) : y = w[i] BY <4>5 DEF Range
          <6> QED BY <4>5, <5>1, <6>1
        <5>3. ASSUME NEW y \in Range(s) PROVE y \in Range(w)
          <6>1. PICK i \in 1..Len(s) : y = s[i] BY <4>5 DEF Range
          <6>2. i \in 1..Len(w) /\ w[i] = y BY <4>5, <5>1, <6>1
          <6> QED BY <4>5, <6>2 DEF Range
        <5>4. p \in Range(w) BY <4>5, <5>1 DEF Range
        <5> QED BY <5>2, <5>3, <5>4
      <4>8. f[m] = w BY <4>1 DEF w
      <4>9. Range(w) = Rest(m) BY <4>2, <4>3, <4>7
      <4> QED BY <2>3, <4>5, <4>6, <4>8, <4>9
    <3> QED BY <3>4, <3>5
  <2> QED BY <2>4, <2>5
<1>7. Good(n)
  <2> HIDE DEF Good
  <2> QED BY <1>2, <1>6
<1>8. Rest(n) = {p \in Range(points) : p.node # x} BY <1>2 DEF Range
<1> QED BY <1>1, <1>7, <1>8

-----------------------------------------------------------------------------
(* The points of the nodes. *)

RingTypes ==
  /\ hashOf \in [Nodes \X (0..Replicas - 1) -> Hashes]
  /\ nodes \in SUBSET Nodes
  /\ points \in Seq(Places)

LEMMA PointTypes ==
  ASSUME hashOf \in [Nodes \X (0..Replicas - 1) -> Hashes],
         NEW n \in Nodes, NEW i \in 0..Replicas - 1
  PROVE  /\ Point(n, i) \in Places /\ Point(n, i).node = n /\ Point(n, i).replica = i
         /\ Point(n, i).hash = hashOf[<<n, i>>]
<1>1. <<n, i>> \in Nodes \X (0..Replicas - 1) OBVIOUS
<1>2. hashOf[<<n, i>>] \in Hashes BY <1>1
<1> QED BY <1>2 DEF Point, Places

LEMMA PointsOfTypes ==
  ASSUME hashOf \in [Nodes \X (0..Replicas - 1) -> Hashes], NEW n \in Nodes
  PROVE  /\ PointsOf(n) \in Seq(Places) /\ IsInjective(PointsOf(n))
         /\ Len(PointsOf(n)) = Replicas
         /\ Range(PointsOf(n)) = {Point(n, i) : i \in 0..Replicas - 1}
         /\ \A p \in Range(PointsOf(n)) : p.node = n
<1> DEFINE s == PointsOf(n)
<1>1. Replicas \in Nat /\ DOMAIN s = 1..Replicas /\ \A i \in 1..Replicas : s[i] = Point(n, i - 1)
  BY RingAssumption DEF PointsOf
<1>2. \A i \in 1..Replicas : i - 1 \in 0..Replicas - 1 BY <1>1
<1>3. s = [i \in 1..Replicas |-> s[i]] BY <1>1 DEF PointsOf
<1> HIDE DEF s
<1>4. \A i \in 1..Replicas : s[i] \in Places /\ s[i].node = n /\ s[i].replica = i - 1
  <2> SUFFICES ASSUME NEW i \in 1..Replicas
               PROVE  s[i] \in Places /\ s[i].node = n /\ s[i].replica = i - 1
    OBVIOUS
  <2>1. PICK j \in 0..Replicas - 1 : j = i - 1 BY <1>2
  <2>2. s[i] = Point(n, j) BY <1>1, <2>1
  <2>3. Point(n, j) \in Places /\ Point(n, j).node = n /\ Point(n, j).replica = j
    BY PointTypes
  <2> QED BY <2>1, <2>2, <2>3
<1>5. s \in Seq(Places) /\ Len(s) = Replicas BY <1>1, <1>3, <1>4
<1>6. IsInjective(s)
  <2> SUFFICES ASSUME NEW a \in 1..Replicas, NEW b \in 1..Replicas, s[a] = s[b] PROVE a = b
    BY <1>1 DEF IsInjective
  <2>1. a - 1 = b - 1 BY <1>4
  <2> QED BY <1>1, <2>1
<1>7. Range(s) = {Point(n, i) : i \in 0..Replicas - 1}
  <2>1. ASSUME NEW p \in Range(s) PROVE p \in {Point(n, i) : i \in 0..Replicas - 1}
    <3>1. PICK a \in 1..Replicas : p = s[a] BY <1>1 DEF Range
    <3> QED BY <1>1, <1>2, <3>1
  <2>2. ASSUME NEW i \in 0..Replicas - 1 PROVE Point(n, i) \in Range(s)
    <3>1. i + 1 \in 1..Replicas /\ (i + 1) - 1 = i BY <1>1
    <3> QED BY <1>1, <3>1 DEF Range
  <2> QED BY <2>1, <2>2
<1>8. \A p \in Range(s) : p.node = n
  <2> SUFFICES ASSUME NEW p \in Range(s) PROVE p.node = n OBVIOUS
  <2>1. PICK a \in 1..Replicas : p = s[a] BY <1>1 DEF Range
  <2> QED BY <1>4, <2>1
<1> QED BY <1>5, <1>6, <1>7, <1>8 DEF s

\* Two sequences of different points, one after the other.
LEMMA Concatenated ==
  ASSUME NEW A, NEW s \in Seq(A), NEW t \in Seq(A), IsInjective(s), IsInjective(t),
         Range(s) \cap Range(t) = {}
  PROVE  /\ s \o t \in Seq(A) /\ IsInjective(s \o t) /\ Range(s \o t) = Range(s) \cup Range(t)
<1> DEFINE u == s \o t
           m == Len(s)
           n == Len(t)
<1>1. /\ u \in Seq(A) /\ Len(u) = m + n /\ m \in Nat /\ n \in Nat
      /\ DOMAIN u = 1..m + n /\ DOMAIN s = 1..m /\ DOMAIN t = 1..n
      /\ \A i \in 1..m : u[i] = s[i]
      /\ \A i \in m + 1..m + n : u[i] = t[i - m]
  OBVIOUS
<1> HIDE DEF u, m, n
<1>2. ASSUME NEW i \in 1..m PROVE i \in 1..m + n /\ u[i] \in Range(s)
  <2>1. i \in 1..m + n /\ u[i] = s[i] BY <1>1
  <2> QED BY <1>1, <2>1 DEF Range
<1>3. ASSUME NEW i \in m + 1..m + n PROVE i - m \in 1..n /\ u[i] \in Range(t)
  <2>1. i - m \in 1..n /\ u[i] = t[i - m] BY <1>1
  <2> QED BY <1>1, <2>1 DEF Range
<1>4. 1..m + n = (1..m) \cup (m + 1..m + n) BY <1>1
<1>5. IsInjective(u)
  <2> SUFFICES ASSUME NEW a \in 1..m + n, NEW b \in 1..m + n, u[a] = u[b] PROVE a = b
    BY <1>1 DEF IsInjective
  <2>1. CASE a \in 1..m /\ b \in 1..m BY <1>1, <2>1 DEF IsInjective
  <2>2. CASE a \in m + 1..m + n /\ b \in m + 1..m + n
    <3>0. a - m \in 1..n /\ b - m \in 1..n /\ t[a - m] = t[b - m] BY <1>1, <1>3, <2>2
    <3>1. a - m = b - m BY <1>1, <3>0 DEF IsInjective
    <3> QED BY <1>1, <3>1
  <2>3. CASE a \in 1..m /\ b \in m + 1..m + n BY <1>2, <1>3, <2>3
  <2>4. CASE a \in m + 1..m + n /\ b \in 1..m BY <1>2, <1>3, <2>4
  <2> QED BY <1>4, <2>1, <2>2, <2>3, <2>4
<1>6. Range(u) = Range(s) \cup Range(t)
  <2>1. ASSUME NEW x \in Range(u) PROVE x \in Range(s) \cup Range(t)
    <3>1. PICK i \in 1..m + n : x = u[i] BY <1>1 DEF Range
    <3> QED BY <1>2, <1>3, <1>4, <3>1
  <2>2. ASSUME NEW x \in Range(s) PROVE x \in Range(u)
    <3>1. PICK i \in 1..m : x = s[i] BY <1>1 DEF Range
    <3> QED BY <1>1, <1>2, <3>1 DEF Range
  <2>3. ASSUME NEW x \in Range(t) PROVE x \in Range(u)
    <3>1. PICK i \in 1..n : x = t[i] BY <1>1 DEF Range
    <3>2. i + m \in m + 1..m + n /\ i + m \in 1..m + n /\ (i + m) - m = i BY <1>1
    <3>3. u[i + m] = x BY <1>1, <3>1, <3>2
    <3> QED BY <1>1, <3>2, <3>3 DEF Range
  <2> QED BY <2>1, <2>2, <2>3
<1> QED BY <1>1, <1>5, <1>6 DEF u

\* The points of two sets of nodes.
LEMMA RingUnion ==
  ASSUME NEW S, NEW T, NEW I
  PROVE  {Point(y, i) : y \in S \cup T, i \in I}
         = {Point(y, i) : y \in S, i \in I} \cup {Point(y, i) : y \in T, i \in I}
<1> DEFINE Ring(U) == {Point(y, i) : y \in U, i \in I}
<1>1. \A U, y, i : y \in U /\ i \in I => Point(y, i) \in Ring(U) OBVIOUS
<1>2. \A U, p : p \in Ring(U) => \E y \in U, i \in I : p = Point(y, i) OBVIOUS
<1> HIDE DEF Ring
<1>3. \A p \in Ring(S) \cup Ring(T) : p \in Ring(S \cup T) BY <1>1, <1>2
<1>4. \A p \in Ring(S \cup T) : p \in Ring(S) \cup Ring(T) BY <1>1, <1>2
<1>5. Ring(S \cup T) = Ring(S) \cup Ring(T) BY <1>3, <1>4
<1> QED BY <1>5 DEF Ring

\* What Add appends: the points of the nodes that are not there yet, all different.
LEMMA AddedIs ==
  ASSUME RingTypes, NEW args \in Seq(Nodes \cup {Empty})
  PROVE  LET new == (Range(args) \ {Empty}) \ nodes IN
         /\ Added(args) \in Seq(Places) /\ IsInjective(Added(args))
         /\ Range(Added(args)) = {Point(n, i) : n \in new, i \in 0..Replicas - 1}
<1> DEFINE n == Len(args)
           More(i) == IF IsNew(args, i) THEN PointsOf(args[i]) ELSE <<>>
           rec(g) == [i \in 0..n |-> IF i = 0 THEN <<>> ELSE g[i - 1] \o More(i)]
           f == CHOOSE g : g = rec(g)
           step == [i \in 1..n |-> [s \in Seq(Places) |-> s \o More(i)]]
<1>1. Added(args) = f[n] BY DEF Added
<1>2. /\ n \in Nat /\ DOMAIN args = 1..n
      /\ \A i \in 1..n : args[i] \in Nodes \cup {Empty}
      /\ \A i \in 1..n : args[i] # Empty => args[i] \in Nodes
      /\ hashOf \in [Nodes \X (0..Replicas - 1) -> Hashes]
  BY DEF RingTypes
<1> HIDE DEF n
<1>3. \A i \in 1..n : More(i) \in Seq(Places) /\ IsInjective(More(i))
  <2> SUFFICES ASSUME NEW i \in 1..n PROVE More(i) \in Seq(Places) /\ IsInjective(More(i))
    OBVIOUS
  <2>1. CASE IsNew(args, i)
    <3>1. args[i] \in Nodes BY <1>2, <2>1 DEF IsNew
    <3> QED BY <1>2, <2>1, <3>1, PointsOfTypes
  <2>2. CASE ~IsNew(args, i)
    <3>1. More(i) = <<>> BY <2>2
    <3>2. More(i) \in Seq(Places) /\ DOMAIN More(i) = {}
      <4>1. <<>> \in Seq(Places) /\ Len(<<>>) = 0 /\ DOMAIN <<>> = 1..0 OBVIOUS
      <4>2. 1..0 = {} OBVIOUS
      <4> HIDE DEF More
      <4> QED BY <3>1, <4>1, <4>2
    <3> HIDE DEF More
    <3> QED BY <3>2 DEF IsInjective
  <2> QED BY <2>1, <2>2
<1>4. \E g : g = rec(g)
  <2>1. step \in [1..n -> [Seq(Places) -> Seq(Places)]]
    <3> HIDE DEF More
    <3>1. ASSUME NEW i \in 1..n, NEW s \in Seq(Places) PROVE s \o More(i) \in Seq(Places)
      BY <1>3
    <3> QED BY <3>1
  <2>2. <<>> \in Seq(Places) OBVIOUS
  <2> HIDE DEF step, More
  <2>3. PICK g \in [0..n -> Seq(Places)] : Iterates(g, <<>>, step, n)
    BY <1>2, <2>1, <2>2, IterationExists
  <2>4. ASSUME NEW i \in 0..n PROVE g[i] = rec(g)[i]
    <3>1. CASE i = 0 BY <2>3, <3>1 DEF Iterates
    <3>2. CASE i # 0
      <4>1. i \in 1..n /\ i - 1 \in 0..n BY <1>2, <3>2
      <4>2. g[i] = step[i][g[i - 1]] /\ g[i - 1] \in Seq(Places) BY <2>3, <4>1 DEF Iterates
      <4>3. step[i][g[i - 1]] = g[i - 1] \o More(i) BY <4>1, <4>2 DEF step
      <4> QED BY <3>2, <4>2, <4>3
    <3> QED BY <3>1, <3>2
  <2>5. g = rec(g) BY <2>4
  <2> QED BY <2>5
<1>5. f = rec(f) BY <1>4
<1>6. f[0] = <<>> /\ \A i \in 1..n : f[i] = f[i - 1] \o More(i)
  <2> HIDE DEF f, More
  <2>1. \A i \in 0..n : f[i] = IF i = 0 THEN <<>> ELSE f[i - 1] \o More(i) BY <1>5
  <2>2. 0 \in 0..n /\ \A i \in 1..n : i \in 0..n /\ i # 0 BY <1>2
  <2> QED BY <2>1, <2>2
<1> HIDE DEF f, rec
<1> DEFINE New(m) == {args[i] : i \in {j \in 1..m : IsNew(args, j)}}
           Ring(S) == {Point(x, i) : x \in S, i \in 0..Replicas - 1}
           Good(m) == f[m] \in Seq(Places) /\ IsInjective(f[m]) /\ Range(f[m]) = Ring(New(m))
           T == {m \in 0..n : ~Good(m)}
<1>7. T = {}
  <2> HIDE DEF T
  <2> SUFFICES ASSUME T # {} PROVE FALSE OBVIOUS
  <2>1. T \subseteq Nat
    <3> HIDE DEF Good
    <3> QED BY <1>2 DEF T
  <2>2. PICK m \in T : \A k \in T : m <= k BY <2>1, LeastNatural
  <2>3. m \in 0..n /\ ~Good(m) BY DEF T
  <2>4. CASE m = 0
    <3>1. f[0] \in Seq(Places) /\ DOMAIN f[0] = {} BY <1>6
    <3>2. IsInjective(f[0]) /\ Range(f[0]) = {} BY <3>1 DEF Range, IsInjective
    <3>3. Ring(New(0)) = {} OBVIOUS
    <3> QED BY <2>3, <2>4, <3>1, <3>2, <3>3
  <2>5. CASE m # 0
    <3>1. m \in 1..n /\ m - 1 \in 0..n /\ ~(m <= m - 1) BY <1>2, <2>3, <2>5
    <3>2. Good(m - 1)
      <4> HIDE DEF Good
      <4> QED BY <2>2, <3>1 DEF T
    <3>3. 1..m = (1..m - 1) \cup {m} BY <1>2, <3>1
    <3>4. f[m] = f[m - 1] \o More(m) BY <1>6, <3>1
    <3>5. CASE ~IsNew(args, m)
      <4>1. More(m) = <<>> BY <3>5
      <4>2. f[m] = f[m - 1]
        <5>1. f[m - 1] \in Seq(Places) BY <3>2
        <5> HIDE DEF More, Good
        <5> QED BY <3>4, <4>1, <5>1
      <4>3. New(m) = New(m - 1) BY <3>3, <3>5
      <4> HIDE DEF New, Ring
      <4> QED BY <2>3, <3>2, <4>2, <4>3
    <3>6. CASE IsNew(args, m)
      <4> DEFINE x == args[m]
      <4>1. x \in Nodes /\ More(m) = PointsOf(x) BY <1>2, <3>1, <3>6 DEF IsNew
      <4>2. New(m) = New(m - 1) \cup {x} BY <3>3, <3>6
      <4>3. x \notin New(m - 1) BY <3>6 DEF IsNew
      <4>4. Ring(New(m)) = Ring(New(m - 1)) \cup Range(PointsOf(x))
        <5>1. Range(PointsOf(x)) = {Point(x, i) : i \in 0..Replicas - 1}
          BY <1>2, <4>1, PointsOfTypes
        <5> HIDE DEF New, x
        <5>2. \A S, Q : Ring(S \cup Q) = Ring(S) \cup Ring(Q) BY RingUnion
        <5>3. Ring({x}) = {Point(x, i) : i \in 0..Replicas - 1} OBVIOUS
        <5> HIDE DEF Ring
        <5> QED BY <4>2, <5>1, <5>2, <5>3
      <4>5. New(m - 1) \subseteq Nodes BY <1>2, <3>1 DEF IsNew
      <4>6. Ring(New(m - 1)) \cap Range(PointsOf(x)) = {}
        <5> HIDE DEF New, x
        <5> SUFFICES ASSUME NEW y \in New(m - 1), NEW i \in 0..Replicas - 1,
                            Point(y, i) \in Range(PointsOf(x))
                     PROVE  FALSE
          OBVIOUS
        <5>1. Point(y, i).node = y BY <1>2, <4>5, PointTypes
        <5>2. Point(y, i).node = x BY <1>2, <4>1, PointsOfTypes
        <5> QED BY <4>3, <5>1, <5>2
      <4> HIDE DEF New, Ring, x
      <4>7. /\ f[m - 1] \in Seq(Places) /\ IsInjective(f[m - 1])
            /\ Range(f[m - 1]) = Ring(New(m - 1))
        BY <3>2
      <4>8. PointsOf(x) \in Seq(Places) /\ IsInjective(PointsOf(x)) BY <1>2, <4>1, PointsOfTypes
      <4>9. f[m] = f[m - 1] \o PointsOf(x) BY <3>4, <4>1
      <4>10. /\ f[m] \in Seq(Places) /\ IsInjective(f[m])
             /\ Range(f[m]) = Ring(New(m - 1)) \cup Range(PointsOf(x))
        BY <4>6, <4>7, <4>8, <4>9, Concatenated
      <4> QED BY <2>3, <4>4, <4>10
    <3> QED BY <3>5, <3>6
  <2> QED BY <2>4, <2>5
<1>8. Good(n)
  <2> HIDE DEF Good
  <2> QED BY <1>2, <1>7
<1>9. New(n) = (Range(args) \ {Empty}) \ nodes
  <2>1. ASSUME NEW x \in (Range(args) \ {Empty}) \ nodes PROVE x \in New(n)
    <3> DEFINE U == {i \in 1..n : args[i] = x}
    <3>1. U # {} /\ U \subseteq Nat BY <1>2 DEF Range
    <3> HIDE DEF U
    <3>2. PICK i \in U : \A j \in U : i <= j BY <3>1, LeastNatural
    <3>3. i \in 1..n /\ args[i] = x BY DEF U
    <3>4. ASSUME NEW j \in 1..i - 1 PROVE args[j] # args[i]
      <4>1. j \in 1..n /\ ~(i <= j) BY <1>2, <3>3
      <4> QED BY <3>2, <3>3, <4>1 DEF U
    <3>5. IsNew(args, i) BY <3>3, <3>4 DEF IsNew
    <3> QED BY <3>3, <3>5
  <2>2. ASSUME NEW i \in 1..n, IsNew(args, i) PROVE args[i] \in (Range(args) \ {Empty}) \ nodes
    BY <1>2, <2>2 DEF IsNew, Range
  <2> QED BY <2>1, <2>2
<1> HIDE DEF New
<1> QED BY <1>1, <1>8, <1>9

-----------------------------------------------------------------------------
(* The search. *)

\* The first index from i to j that is in R, or j.
Ends(R, i, j, k) == k \in i..j /\ (k = j \/ k \in R) /\ \A m \in i..k - 1 : m \notin R

LEMMA EndsOnce ==
  ASSUME NEW R, NEW i \in Nat, NEW j \in Nat, NEW k, NEW m, Ends(R, i, j, k), Ends(R, i, j, m)
  PROVE  k = m
<1>1. k \in i..j /\ m \in i..j /\ (k = j \/ k \in R) /\ (m = j \/ m \in R) BY DEF Ends
<1>2. ~(k < m)
  <2> SUFFICES ASSUME k < m PROVE FALSE OBVIOUS
  <2>1. k \in i..m - 1 /\ k # j BY <1>1
  <2> QED BY <1>1, <2>1 DEF Ends
<1>3. ~(m < k)
  <2> SUFFICES ASSUME m < k PROVE FALSE OBVIOUS
  <2>1. m \in i..k - 1 /\ m # j BY <1>1
  <2> QED BY <1>1, <2>1 DEF Ends
<1> QED BY <1>1, <1>2, <1>3

LEMMA EndsSomewhere ==
  ASSUME NEW R, NEW i \in Nat, NEW j \in Nat, i <= j
  PROVE  \E k : Ends(R, i, j, k)
<1> DEFINE U == {k \in i..j : k = j \/ k \in R}
<1>1. U # {} /\ U \subseteq Nat OBVIOUS
<1> HIDE DEF U
<1>2. PICK k \in U : \A m \in U : k <= m BY <1>1, LeastNatural
<1>3. k \in i..j /\ (k = j \/ k \in R) BY DEF U
<1>4. ASSUME NEW m \in i..k - 1 PROVE m \notin R
  <2>1. m \in i..j /\ ~(k <= m) BY <1>3
  <2> QED BY <1>2, <2>1 DEF U
<1> QED BY <1>3, <1>4 DEF Ends

\* One halving of a range: above an index outside R, or up to one in R.
LEMMA Halves ==
  ASSUME NEW R, NEW i \in Nat, NEW j \in Nat, NEW mid \in i..j - 1, NEW k,
         \A a, b \in Nat : a <= b /\ b < j /\ a \in R => b \in R
  PROVE  /\ mid \in R /\ Ends(R, i, mid, k) => Ends(R, i, j, k)
         /\ mid \notin R /\ Ends(R, mid + 1, j, k) => Ends(R, i, j, k)
<1>1. ASSUME mid \in R, Ends(R, i, mid, k) PROVE Ends(R, i, j, k)
  BY <1>1 DEF Ends
<1>2. ASSUME mid \notin R, Ends(R, mid + 1, j, k) PROVE Ends(R, i, j, k)
  <2>1. k \in mid + 1..j /\ k \in i..j /\ (k = j \/ k \in R) BY <1>2 DEF Ends
  <2>2. ASSUME NEW m \in i..k - 1 PROVE m \notin R
    <3>1. CASE m <= mid
      <4>1. m \in Nat /\ mid \in Nat /\ mid < j BY <2>1
      <4> QED BY <1>2, <3>1, <4>1
    <3>2. CASE mid < m
      <4>1. m \in mid + 1..k - 1 BY <2>1, <3>2
      <4> QED BY <1>2, <4>1 DEF Ends
    <3> QED BY <2>1, <3>1, <3>2
  <2> QED BY <2>1, <2>2 DEF Ends
<1> QED BY <1>1, <1>2

Middle(i, j) == (i + j) \div 2

LEMMA MiddleIn ==
  ASSUME NEW i \in Nat, NEW j \in Nat, i < j
  PROVE  Middle(i, j) \in i..j - 1
BY DEF Middle

\* The bisection finds the first point that reaches h.
LEMMA SearchIs ==
  ASSUME points \in Seq(Places), NEW h \in Hashes,
         \A a, b \in 1..Len(points) : a < b => points[a].hash <= points[b].hash
  PROVE  /\ Search(h) \in 0..Len(points)
         /\ Search(h) < Len(points) => points[Search(h) + 1].hash >= h
         /\ \A m \in 1..Search(h) : points[m].hash < h
<1> DEFINE n == Len(points)
           P == (0..n) \X (0..n)
           R == {k \in 0..n - 1 : Reaches(points[k + 1], h)}
           rec(g) == [r \in P |->
              IF r[1] >= r[2] THEN r[1]
              ELSE IF Reaches(points[Middle(r[1], r[2]) + 1], h)
                   THEN g[<<r[1], Middle(r[1], r[2])>>]
              ELSE g[<<Middle(r[1], r[2]) + 1, r[2]>>]]
           rec2(g) == [r \in P |->
              IF r[1] >= r[2] THEN r[1]
              ELSE IF Middle(r[1], r[2]) \in R THEN g[<<r[1], Middle(r[1], r[2])>>]
              ELSE g[<<Middle(r[1], r[2]) + 1, r[2]>>]]
           f == CHOOSE g : g = rec(g)
           e == [r \in P |-> IF r[1] >= r[2] THEN r[1] ELSE CHOOSE k : Ends(R, r[1], r[2], k)]
<1>1. Search(h) = f[<<0, n>>] BY DEF Search, Middle
<1>2. n \in Nat /\ \A i \in 1..n : points[i].hash \in Int
  <2>1. \A p \in Places : p.hash \in Int BY RingAssumption DEF Places, Hashes
  <2>2. n \in Nat /\ \A i \in 1..n : points[i] \in Places OBVIOUS
  <2> QED BY <2>1, <2>2
<1>3. \A a, b \in Nat : a <= b /\ b < n /\ a \in R => b \in R
  <2> SUFFICES ASSUME NEW a \in Nat, NEW b \in Nat, a <= b, b < n, a \in R PROVE b \in R
    OBVIOUS
  <2>1. a + 1 \in 1..n /\ b + 1 \in 1..n /\ b \in 0..n - 1 BY <1>2
  <2>2. points[a + 1].hash >= h BY DEF Reaches
  <2>3. points[a + 1].hash <= points[b + 1].hash BY <1>2, <2>1
  <2>4. h \in Int BY DEF Hashes, RingAssumption
  <2>5. points[b + 1].hash >= h BY <1>2, <2>1, <2>2, <2>3, <2>4
  <2> QED BY <2>1, <2>5 DEF Reaches
<1>4. ASSUME NEW r \in P, r[1] < r[2]
      PROVE  /\ Middle(r[1], r[2]) \in r[1]..r[2] - 1 /\ Middle(r[1], r[2]) \in 0..n - 1
             /\ r[1] \in 0..n /\ r[2] \in 0..n
             /\ <<r[1], Middle(r[1], r[2])>> \in P /\ <<Middle(r[1], r[2]) + 1, r[2]>> \in P
  <2>1. r[1] \in 0..n /\ r[2] \in 0..n BY <1>2
  <2>2. Middle(r[1], r[2]) \in r[1]..r[2] - 1 BY <1>2, <1>4, <2>1, MiddleIn
  <2>3. /\ Middle(r[1], r[2]) \in 0..n /\ Middle(r[1], r[2]) + 1 \in 0..n
        /\ Middle(r[1], r[2]) \in 0..n - 1
    BY <1>2, <2>1, <2>2
  <2> QED BY <2>1, <2>2, <2>3
<1>5. \A g : rec(g) = rec2(g)
  <2> SUFFICES ASSUME NEW g, NEW r \in P PROVE rec(g)[r] = rec2(g)[r] OBVIOUS
  <2>1. r[1] \in 0..n /\ r[2] \in 0..n BY <1>2
  <2>2. CASE r[1] >= r[2] BY <2>2
  <2>3. CASE r[1] < r[2]
    <3>1. Middle(r[1], r[2]) \in R <=> Reaches(points[Middle(r[1], r[2]) + 1], h) BY <1>4, <2>3
    <3> HIDE DEF R
    <3> QED BY <3>1
  <2> QED BY <1>2, <2>1, <2>2, <2>3
<1> HIDE DEF n, R
\* A function that satisfies the recursion exists: the ends themselves.
<1>6. ASSUME NEW r \in P PROVE r[1] \in Nat /\ r[2] \in Nat BY <1>2
<1>7. ASSUME NEW r \in P, r[1] <= r[2] PROVE Ends(R, r[1], r[2], e[r])
  <2>1. CASE r[1] < r[2]
    <3>1. \E k : Ends(R, r[1], r[2], k) BY <1>6, <1>7, EndsSomewhere
    <3>2. e[r] = CHOOSE k : Ends(R, r[1], r[2], k) BY <1>6, <2>1
    <3> QED BY <3>1, <3>2
  <2>2. CASE r[1] = r[2]
    <3>1. e[r] = r[1] BY <1>6, <2>2
    <3> QED BY <1>6, <2>2, <3>1 DEF Ends
  <2> QED BY <1>6, <1>7, <2>1, <2>2
<1>8. \A a, b \in Nat, j \in 0..n : a <= b /\ b < j /\ a \in R => b \in R BY <1>2, <1>3
<1>9. ASSUME NEW r \in P, r[1] < r[2], NEW k
      PROVE  LET mid == Middle(r[1], r[2]) IN
             /\ mid \in R /\ Ends(R, r[1], mid, k) => Ends(R, r[1], r[2], k)
             /\ mid \notin R /\ Ends(R, mid + 1, r[2], k) => Ends(R, r[1], r[2], k)
  <2>1. r[1] \in Nat /\ r[2] \in Nat /\ r[2] \in 0..n BY <1>4, <1>6, <1>9
  <2>2. \A a, b \in Nat : a <= b /\ b < r[2] /\ a \in R => b \in R BY <1>8, <2>1
  <2> QED BY <1>4, <1>9, <2>1, <2>2, Halves
<1> HIDE DEF e
<1>10. e = rec2(e)
  <2> SUFFICES ASSUME NEW r \in P PROVE e[r] = rec2(e)[r] BY DEF e
  <2>1. CASE r[1] >= r[2] BY <2>1 DEF e
  <2>2. CASE r[1] < r[2]
    <3> DEFINE mid == Middle(r[1], r[2])
               lo == <<r[1], mid>>
               hi == <<mid + 1, r[2]>>
    <3>1. /\ mid \in r[1]..r[2] - 1 /\ lo \in P /\ hi \in P
          /\ r[1] <= mid /\ mid + 1 <= r[2] /\ r[1] <= r[2]
      BY <1>4, <1>6, <2>2
    <3>2. lo[1] = r[1] /\ lo[2] = mid /\ hi[1] = mid + 1 /\ hi[2] = r[2] OBVIOUS
    <3>3. Ends(R, r[1], r[2], e[r]) BY <1>7, <3>1
    <3>4. rec2(e)[r] = IF mid \in R THEN e[lo] ELSE e[hi] BY <1>6, <2>2
    <3> HIDE DEF lo, hi
    <3>5. Ends(R, r[1], mid, e[lo]) /\ Ends(R, mid + 1, r[2], e[hi])
      <4>1. lo[1] <= lo[2] /\ hi[1] <= hi[2] BY <3>1, <3>2
      <4> QED BY <1>7, <3>1, <3>2, <4>1
    <3>6. Ends(R, r[1], r[2], rec2(e)[r]) 
      <4> HIDE DEF rec2
      <4>1. CASE mid \in R BY <1>9, <2>2, <3>4, <3>5, <4>1
      <4>2. CASE mid \notin R BY <1>9, <2>2, <3>4, <3>5, <4>2
      <4> QED BY <4>1, <4>2
    <3> HIDE DEF rec2
    <3> QED BY <1>6, <3>3, <3>6, EndsOnce
  <2> QED BY <1>6, <2>1, <2>2
<1>11. f = rec2(f)
  <2> HIDE DEF rec, rec2
  <2>1. e = rec(e) BY <1>5, <1>10
  <2>2. f = rec(f) BY <2>1
  <2> QED BY <1>5, <2>2
<1>12. \A r \in P : f[r] = IF r[1] >= r[2] THEN r[1]
                            ELSE IF Middle(r[1], r[2]) \in R THEN f[<<r[1], Middle(r[1], r[2])>>]
                            ELSE f[<<Middle(r[1], r[2]) + 1, r[2]>>]
  <2> HIDE DEF f
  <2> QED BY <1>11
<1> HIDE DEF f, rec, rec2
<1> DEFINE Bad == {d \in 0..n : \E r \in P : /\ r[1] <= r[2] /\ r[2] - r[1] = d
                                             /\ ~Ends(R, r[1], r[2], f[r])}
<1>13. Bad = {}
  <2> HIDE DEF Bad
  <2> SUFFICES ASSUME Bad # {} PROVE FALSE OBVIOUS
  <2>1. Bad \subseteq Nat BY <1>2 DEF Bad
  <2>2. PICK d \in Bad : \A c \in Bad : d <= c BY <2>1, LeastNatural
  <2>3. PICK r \in P : r[1] <= r[2] /\ r[2] - r[1] = d /\ ~Ends(R, r[1], r[2], f[r]) BY DEF Bad
  <2>4. ASSUME NEW q \in P, q[1] <= q[2], q[2] - q[1] < d PROVE Ends(R, q[1], q[2], f[q])
    <3>1. q[1] \in 0..n /\ q[2] \in 0..n BY <1>2
    <3>2. q[2] - q[1] \in 0..n BY <1>2, <2>4, <3>1
    <3>3. ~(d <= q[2] - q[1]) BY <2>1, <2>4, <3>2
    <3>4. q[2] - q[1] \notin Bad BY <2>2, <3>3
    <3> QED BY <2>4, <3>2, <3>4 DEF Bad
  <2>5. CASE r[1] >= r[2]
    <3>0. r[1] \in Nat /\ r[2] \in Nat BY <1>6
    <3>1. r[1] = r[2] /\ f[r] = r[1]
      <4>1. r[1] = r[2] BY <2>3, <2>5, <3>0
      <4>2. f[r] = r[1] BY <1>12, <2>5
      <4> QED BY <4>1, <4>2
    <3> QED BY <1>6, <2>3, <3>1 DEF Ends
  <2>6. CASE r[1] < r[2]
    <3> DEFINE mid == Middle(r[1], r[2])
               lo == <<r[1], mid>>
               hi == <<mid + 1, r[2]>>
    <3>1. /\ mid \in r[1]..r[2] - 1 /\ lo \in P /\ hi \in P BY <1>4, <2>6
    <3>2. lo[1] = r[1] /\ lo[2] = mid /\ hi[1] = mid + 1 /\ hi[2] = r[2] OBVIOUS
    <3>3. f[r] = IF mid \in R THEN f[lo] ELSE f[hi] BY <1>6, <1>12, <2>6
    <3> HIDE DEF lo, hi, mid
    <3>4. /\ lo[1] <= lo[2] /\ lo[2] - lo[1] < d /\ hi[1] <= hi[2] /\ hi[2] - hi[1] < d
      BY <1>6, <2>3, <3>1, <3>2
    <3>5. Ends(R, r[1], mid, f[lo]) /\ Ends(R, mid + 1, r[2], f[hi]) BY <2>4, <3>1, <3>2, <3>4
    <3>6. Ends(R, r[1], r[2], f[r])
      <4>1. CASE mid \in R BY <1>9, <2>6, <3>3, <3>5, <4>1 DEF mid
      <4>2. CASE mid \notin R BY <1>9, <2>6, <3>3, <3>5, <4>2 DEF mid
      <4> QED BY <4>1, <4>2
    <3> QED BY <2>3, <3>6
  <2> QED BY <1>6, <2>5, <2>6
<1>14. Ends(R, 0, n, Search(h))
  <2> DEFINE w == <<0, n>>
  <2>1. w \in P /\ w[1] = 0 /\ w[2] = n BY <1>2
  <2> HIDE DEF w
  <2>2. n \in 0..n /\ w[1] <= w[2] /\ w[2] - w[1] = n BY <1>2, <2>1
  <2>3. Ends(R, w[1], w[2], f[w])
    <3> HIDE DEF P
    <3>1. n \notin Bad
      <4> HIDE DEF Bad
      <4> QED BY <1>13
    <3> QED BY <2>1, <2>2, <3>1
  <2> QED BY <1>1, <2>1, <2>3 DEF w
<1>15. /\ Search(h) \in 0..n /\ (Search(h) = n \/ Search(h) \in R)
       /\ \A m \in 0..Search(h) - 1 : m \notin R
  BY <1>14 DEF Ends
<1> DEFINE k == Search(h)
<1> HIDE DEF k
<1>16. k \in 0..n /\ (k = n \/ k \in R) /\ \A m \in 0..k - 1 : m \notin R BY <1>15 DEF k
<1>17. k < n => points[k + 1].hash >= h BY <1>2, <1>16 DEF R, Reaches
<1>18. ASSUME NEW m \in 1..k PROVE points[m].hash < h
  <2>1. m - 1 \in 0..k - 1 /\ m - 1 \in 0..n - 1 /\ (m - 1) + 1 = m /\ m \in 1..n BY <1>2, <1>16
  <2>2. ~(points[m].hash >= h) BY <1>16, <2>1 DEF R, Reaches
  <2>3. h \in Int BY RingAssumption DEF Hashes
  <2> QED BY <1>2, <2>1, <2>2, <2>3
<1> QED BY <1>16, <1>17, <1>18 DEF k, n

-----------------------------------------------------------------------------
(* The steps of the ring. *)

\* RingIsCanonical with the types it needs is inductive.
RingInv == RingTypes /\ RingIsCanonical

LEMMA SortedOnce ==
  ASSUME NEW s \in Seq(Places), Sorted(s) PROVE IsInjective(s)
<1> SUFFICES ASSUME NEW a \in 1..Len(s), NEW b \in 1..Len(s), s[a] = s[b] PROVE a = b
  BY DEF IsInjective
<1>1. s[a] \in Places /\ s[b] \in Places OBVIOUS
<1>2. ~Precedes(s[a], s[b]) /\ ~Precedes(s[b], s[a]) BY <1>1, OrderIsTotal
<1>3. ~(a < b) /\ ~(b < a) BY <1>2 DEF Sorted
<1> QED BY <1>3

\* The points of the members are those whose node is a member.
LEMMA RingPointsAre ==
  ASSUME RingTypes
  PROVE  /\ \A p \in RingPoints : /\ p \in Places /\ p.node \in nodes
                                  /\ p.replica \in 0..Replicas - 1 /\ p = Point(p.node, p.replica)
         /\ \A n \in nodes, i \in 0..Replicas - 1 : Point(n, i) \in RingPoints
<1>1. ASSUME NEW n \in nodes, NEW i \in 0..Replicas - 1
      PROVE  /\ Point(n, i) \in RingPoints /\ Point(n, i) \in Places
             /\ Point(n, i).node = n /\ Point(n, i).replica = i
  <2>1. n \in Nodes /\ hashOf \in [Nodes \X (0..Replicas - 1) -> Hashes] BY DEF RingTypes
  <2>2. Point(n, i) \in Places /\ Point(n, i).node = n /\ Point(n, i).replica = i
    BY <2>1, PointTypes
  <2> QED BY <2>2 DEF RingPoints
<1>2. ASSUME NEW p \in RingPoints
      PROVE  \E n \in nodes, i \in 0..Replicas - 1 : p = Point(n, i)
  BY DEF RingPoints
<1> QED BY <1>1, <1>2

LEMMA AddKeeps ==
  ASSUME RingInv, NEW args \in Arguments, Add(args)
  PROVE  RingInv'
<1> DEFINE new == (Range(args) \ {Empty}) \ nodes
           I == 0..Replicas - 1
           added == Added(args)
<1>1. RingTypes /\ Range(points) = RingPoints /\ Sorted(points)
  BY DEF RingInv, RingIsCanonical, Sorted
<1>2. /\ hashOf \in [Nodes \X I -> Hashes] /\ nodes \in SUBSET Nodes /\ points \in Seq(Places)
  BY <1>1 DEF RingTypes
<1>3. args \in Seq(Nodes \cup {Empty})
  <2>1. PICK l \in 1..MaxArgs : args \in [1..l -> Nodes \cup {Empty}] BY DEF Arguments
  <2>2. l \in Nat BY <2>1, RingAssumption
  <2> QED BY <2>1, <2>2
<1>4. Range(args) \subseteq Nodes \cup {Empty} BY <1>3 DEF Range
<1>5. new \subseteq Nodes /\ nodes' = nodes \cup new /\ hashOf' = hashOf
  BY <1>4 DEF Add
<1>6. /\ added \in Seq(Places) /\ IsInjective(added)
      /\ Range(added) = {Point(n, i) : n \in new, i \in I}
  BY <1>1, <1>3, AddedIs
<1>7. points' = IF added = <<>> THEN points ELSE SortPoints(points \o added) BY DEF Add
<1> HIDE DEF new, added
<1>8. RingPoints' = RingPoints \cup Range(added)
  <2>0. \A n, i : Point(n, i)' = Point(n, i) BY <1>5 DEF Point
  <2>1. RingPoints' = {Point(n, i) : n \in nodes \cup new, i \in I} BY <1>5, <2>0 DEF RingPoints
  <2>2. RingPoints = {Point(n, i) : n \in nodes, i \in I} BY DEF RingPoints
  <2> QED BY <1>6, <2>1, <2>2, RingUnion
<1>9. points' \in Seq(Places) /\ Sorted(points') /\ Range(points') = RingPoints'
  <2>1. CASE added = <<>>
    <3>1. Range(added) = {}
      <4>1. DOMAIN added = {} BY <1>6, <2>1
      <4> QED BY <4>1 DEF Range
    <3> QED BY <1>1, <1>2, <1>7, <1>8, <2>1, <3>1
  <2>2. CASE added # <<>>
    <3>1. Range(points) \cap Range(added) = {}
      <4> SUFFICES ASSUME NEW p \in Range(points), p \in Range(added) PROVE FALSE OBVIOUS
      <4>1. p.node \in nodes BY <1>1, RingPointsAre
      <4>2. PICK n \in new, i \in I : p = Point(n, i) BY <1>6
      <4>3. p.node = n BY <1>2, <1>5, <4>2, PointTypes
      <4> QED BY <4>1, <4>3 DEF new
    <3>2. IsInjective(points) BY <1>1, <1>2, SortedOnce
    <3> DEFINE ps == points \o added
    <3>3. ps \in Seq(Places) /\ IsInjective(ps) /\ Range(ps) = Range(points) \cup Range(added)
      BY <1>2, <1>6, <3>1, <3>2, Concatenated
    <3> HIDE DEF ps
    <3>4. points' = SortPoints(ps) BY <1>7, <2>2 DEF ps
    <3>5. /\ SortPoints(ps) \in Seq(Places) /\ Sorted(SortPoints(ps))
          /\ Range(SortPoints(ps)) = Range(ps)
      BY <3>3, SortSorts
    <3> QED BY <1>1, <1>8, <3>3, <3>4, <3>5
  <2> QED BY <2>1, <2>2
<1> QED BY <1>2, <1>5, <1>9 DEF RingInv, RingTypes, RingIsCanonical, Sorted

LEMMA RemoveKeeps ==
  ASSUME RingInv, NEW x \in Nodes, RemoveNode(x)
  PROVE  RingInv'
<1> DEFINE I == 0..Replicas - 1
<1>1. RingTypes /\ Range(points) = RingPoints /\ Sorted(points)
  BY DEF RingInv, RingIsCanonical, Sorted
<1>2. /\ hashOf \in [Nodes \X I -> Hashes] /\ nodes \in SUBSET Nodes /\ points \in Seq(Places)
  BY <1>1 DEF RingTypes
<1>3. points' = Without(x) /\ nodes' = nodes \ {x} /\ hashOf' = hashOf BY DEF RemoveNode
<1>4. /\ points' \in Seq(Places) /\ Sorted(points')
      /\ Range(points') = {p \in Range(points) : p.node # x}
  BY <1>1, <1>2, <1>3, WithoutIs
<1>5. RingPoints' = {p \in RingPoints : p.node # x}
  <2>0. \A n, i : Point(n, i)' = Point(n, i) BY <1>3 DEF Point
  <2>1. RingPoints' = {Point(n, i) : n \in nodes \ {x}, i \in I} BY <1>3, <2>0 DEF RingPoints
  <2>2. ASSUME NEW p \in RingPoints, p.node # x PROVE p \in RingPoints'
    <3>1. p = Point(p.node, p.replica) /\ p.node \in nodes /\ p.replica \in I
      BY <1>1, RingPointsAre
    <3> QED BY <2>1, <2>2, <3>1
  <2>3. ASSUME NEW p \in RingPoints' PROVE p \in RingPoints /\ p.node # x
    <3>1. PICK n \in nodes \ {x}, i \in I : p = Point(n, i) BY <2>1
    <3>2. p \in RingPoints BY <1>1, <3>1, RingPointsAre
    <3>3. n \in Nodes BY <1>2
    <3>4. p.node = n BY <1>2, <3>1, <3>3, PointTypes
    <3> QED BY <3>2, <3>4
  <2> QED BY <2>2, <2>3
<1>6. Range(points') = RingPoints' BY <1>1, <1>4, <1>5
<1> QED BY <1>2, <1>3, <1>4, <1>6 DEF RingInv, RingTypes, RingIsCanonical, Sorted

-----------------------------------------------------------------------------
(* The owner of a key. *)

LEMMA DistanceIs ==
  ASSUME NEW p \in Places, NEW h \in Hashes
  PROVE  /\ Distance(p, h) = IF p.hash >= h THEN p.hash - h ELSE p.hash - h + (MaxHash + 1)
         /\ p.hash \in 0..MaxHash /\ h \in 0..MaxHash /\ MaxHash \in Nat
<1>1. p.hash \in 0..MaxHash /\ h \in 0..MaxHash /\ MaxHash \in Nat
  BY RingAssumption DEF Places, Hashes
<1>2. CASE p.hash >= h
  <2>1. p.hash - h \in 0..MaxHash BY <1>1, <1>2
  <2>2. (p.hash - h) % (MaxHash + 1) = p.hash - h BY <1>1, <2>1
  <2> QED BY <1>1, <1>2, <2>2 DEF Distance
<1>3. CASE p.hash < h
  <2>1. (p.hash - h) % (MaxHash + 1) = p.hash - h + (MaxHash + 1) BY <1>1, <1>3
  <2> QED BY <1>1, <1>3, <2>1 DEF Distance
<1> QED BY <1>1, <1>2, <1>3

\* p is reached from h before q.
Sooner(p, q, h) ==
  \/ Distance(p, h) < Distance(q, h)
  \/ Distance(p, h) = Distance(q, h) /\ Precedes(p, q)

LEMMA SoonerOnce ==
  ASSUME NEW p \in Places, NEW q \in Places, NEW h \in Hashes, Sooner(p, q, h)
  PROVE  ~Sooner(q, p, h)
<1>1. Distance(p, h) \in Int /\ Distance(q, h) \in Int BY DistanceIs
<1>2. ~(Precedes(p, q) /\ Precedes(q, p)) BY OrderIsTotal
<1> QED BY <1>1, <1>2 DEF Sooner

LEMMA SoonerIs ==
  ASSUME NEW p \in Places, NEW q \in Places, NEW h \in Hashes
  PROVE  /\ p.hash >= h /\ q.hash < h => Sooner(p, q, h)
         /\ p.hash >= h /\ Precedes(p, q) => Sooner(p, q, h)
         /\ p.hash < h /\ q.hash < h /\ Precedes(p, q) => Sooner(p, q, h)
<1>1. /\ Distance(p, h) = IF p.hash >= h THEN p.hash - h ELSE p.hash - h + (MaxHash + 1)
      /\ Distance(q, h) = IF q.hash >= h THEN q.hash - h ELSE q.hash - h + (MaxHash + 1)
      /\ p.hash \in 0..MaxHash /\ q.hash \in 0..MaxHash /\ h \in 0..MaxHash /\ MaxHash \in Nat
  BY DistanceIs
<1>2. Precedes(p, q) => p.hash <= q.hash BY <1>1 DEF Precedes
<1>3. p.hash >= h /\ q.hash < h => Distance(p, h) < Distance(q, h) BY <1>1
<1>4. p.hash >= h /\ p.hash <= q.hash => Distance(p, h) <= Distance(q, h) BY <1>1
<1>5. p.hash < h /\ q.hash < h /\ p.hash <= q.hash => Distance(p, h) <= Distance(q, h) BY <1>1
<1>6. Distance(p, h) \in Int /\ Distance(q, h) \in Int BY <1>1
<1> QED BY <1>2, <1>3, <1>4, <1>5, <1>6 DEF Sooner

\* Get returns the node of the point that is reached first.
LEMMA GetIsNearest ==
  ASSUME RingInv, NEW h \in Hashes
  PROVE  IF nodes = {} THEN Get(h) = Empty
         ELSE \E p \in RingPoints : Get(h) = p.node /\ \A q \in RingPoints \ {p} : Sooner(p, q, h)
<1> DEFINE n == Len(points)
           k == Search(h)
           at == IF k = n THEN 0 ELSE k
           p == points[at + 1]
<1>1. RingTypes /\ Range(points) = RingPoints /\ Sorted(points) /\ points \in Seq(Places)
  BY DEF RingInv, RingIsCanonical, Sorted, RingTypes
<1>2. CASE nodes = {}
  <2>1. RingPoints = {} BY <1>2 DEF RingPoints
  <2>2. Len(points) = 0
    <3> SUFFICES ASSUME Len(points) # 0 PROVE FALSE OBVIOUS
    <3>1. 1 \in DOMAIN points BY <1>1
    <3> QED BY <1>1, <2>1, <3>1 DEF Range
  <2>3. points = <<>> BY <1>1, <2>2
  <2> QED BY <1>2, <2>3 DEF Get
<1>3. CASE nodes # {}
  <2>1. points # <<>>
    <3>1. PICK x : x \in nodes BY <1>3
    <3>2. Point(x, 0) \in RingPoints BY <1>1, <3>1, RingPointsAre, RingAssumption
    <3>3. PICK i \in DOMAIN points : points[i] = Point(x, 0) BY <1>1, <3>2 DEF Range
    <3> QED BY <3>3
  <2>2. n \in Nat \ {0} /\ DOMAIN points = 1..n /\ \A i \in 1..n : points[i] \in Places
    BY <1>1, <2>1
  <2>3. Get(h) = p.node BY <2>1 DEF Get
  <2>4. \A a, b \in 1..n : a < b => points[a].hash <= points[b].hash
    <3> SUFFICES ASSUME NEW a \in 1..n, NEW b \in 1..n, a < b
                 PROVE  points[a].hash <= points[b].hash
      OBVIOUS
    <3>1. Precedes(points[a], points[b]) BY <1>1 DEF Sorted
    <3>2. points[a].hash \in 0..MaxHash /\ points[b].hash \in 0..MaxHash BY <2>2, DistanceIs
    <3> QED BY <3>1, <3>2 DEF Precedes
  <2>5. /\ k \in 0..n /\ (k < n => points[k + 1].hash >= h)
        /\ \A m \in 1..k : points[m].hash < h
    BY <1>1, <2>4, SearchIs
  <2> HIDE DEF k, n
  <2>6. at + 1 \in 1..n BY <2>2, <2>5
  <2>7. p \in RingPoints /\ p \in Places BY <1>1, <2>2, <2>6 DEF Range
  <2>8. ASSUME NEW q \in RingPoints \ {p} PROVE Sooner(p, q, h)
    <3>1. PICK b \in 1..n : q = points[b] BY <1>1, <2>2 DEF Range
    <3>2. q \in Places /\ b # at + 1 BY <2>2, <2>8, <3>1
    <3>3. at + 1 < b => Precedes(p, q) BY <1>1, <2>6, <3>1 DEF Sorted, n
    <3> HIDE DEF p
    <3>4. CASE k < n
      <4>1. at = k BY <2>2, <2>5, <3>4
      <4>2. p.hash >= h BY <2>5, <3>4, <4>1 DEF p
      <4>3. CASE b <= k
        <5>1. q.hash < h BY <2>5, <3>1, <4>3
        <5> QED BY <2>7, <3>2, <4>2, <5>1, SoonerIs
      <4>4. CASE k < b
        <5>1. at + 1 < b BY <2>5, <3>2, <4>1, <4>4
        <5> QED BY <2>7, <3>2, <3>3, <4>2, <5>1, SoonerIs
      <4> QED BY <2>5, <4>3, <4>4
    <3>5. CASE k = n
      <4>1. at = 0 BY <3>5
      <4>2. at + 1 < b /\ 1 \in 1..n BY <2>2, <3>2, <4>1
      <4>3. p.hash < h /\ q.hash < h BY <2>5, <3>1, <3>5, <4>1, <4>2 DEF p
      <4> QED BY <2>7, <3>2, <3>3, <4>2, <4>3, SoonerIs
    <3>6. k < n \/ k = n BY <2>2, <2>5
    <3> QED BY <3>4, <3>5, <3>6
  <2> HIDE DEF p
  <2> QED BY <1>3, <2>3, <2>7, <2>8
<1> QED BY <1>2, <1>3

LEMMA RingInvariant == RingSpec => []RingInv
<1>1. RingInit => RingInv
  <2> SUFFICES ASSUME RingInit PROVE RingInv OBVIOUS
  <2>1. RingTypes BY DEF RingInit, RingTypes
  <2>2. RingPoints = {} /\ Range(points) = {} /\ Len(points) = 0 BY DEF RingInit, RingPoints, Range
  <2> QED BY <2>1, <2>2 DEF RingInv, RingIsCanonical
<1>2. RingInv /\ [RingNext]_ringVars => RingInv'
  <2> SUFFICES ASSUME RingInv, [RingNext]_ringVars PROVE RingInv' OBVIOUS
  <2>1. ASSUME NEW args \in Arguments, Add(args) PROVE RingInv' BY <2>1, AddKeeps
  <2>2. ASSUME NEW n \in Nodes, RemoveNode(n) PROVE RingInv' BY <2>2, RemoveKeeps
  <2>3. CASE UNCHANGED ringVars
    BY <2>3 DEF ringVars, RingInv, RingTypes, RingIsCanonical, RingPoints, Point
  <2> QED BY <2>1, <2>2, <2>3 DEF RingNext
<1> QED BY <1>1, <1>2, PTL DEF RingSpec

\* Whatever calls of Add and Remove led to it, and however its points collide, the ring
\* holds the points of its present members once each in the one order that sorts them: two
\* pickers with the same members have the same ring.
THEOREM RingCanonical == RingSpec => []RingIsCanonical
<1>1. RingInv => RingIsCanonical BY DEF RingInv
<1> QED BY <1>1, RingInvariant, PTL

\* The bisection of Get finds the nearest point clockwise, with the wrap past the last point
\* and the ties of colliding points, so that every key of a ring with members has an owner.
THEOREM OwnerNearest == RingSpec => []OwnerIsNearest
<1>1. RingInv => OwnerIsNearest
  <2> SUFFICES ASSUME RingInv, NEW h \in Hashes
               PROVE  IF nodes = {} THEN Get(h) = Empty
                      ELSE \E p \in RingPoints :
                             Get(h) = p.node /\ \A q \in RingPoints \ {p} : Sooner(p, q, h)
    BY DEF OwnerIsNearest, Sooner
  <2> QED BY GetIsNearest
<1> QED BY <1>1, RingInvariant, PTL

\* The nearest points of two rings over the same hashes are the same point when each lies on
\* the other ring.
LEMMA RemapStep ==
  ASSUME RingTypes, RingTypes', OwnerIsNearest, OwnerIsNearest', hashOf' = hashOf,
         NEW h \in Hashes, Get(h)' # Get(h)
  PROVE  Get(h)' \in (nodes' \ nodes) \/ Get(h) \notin nodes'
<1> DEFINE I == 0..Replicas - 1
<1> SUFFICES ASSUME Get(h)' \notin nodes' \ nodes, Get(h) \in nodes' PROVE FALSE OBVIOUS
<1>1. nodes' # {} OBVIOUS
<1>2. nodes # {}
  <2> SUFFICES ASSUME nodes = {} PROVE FALSE OBVIOUS
  <2>1. Get(h) = 0 BY DEF OwnerIsNearest, Empty
  <2>2. nodes' \subseteq 1..N BY DEF RingTypes, Nodes
  <2> QED BY <2>1, <2>2, RingAssumption
<1>3. PICK p \in RingPoints : Get(h) = p.node /\ \A r \in RingPoints \ {p} : Sooner(p, r, h)
  BY <1>2 DEF OwnerIsNearest, Sooner
<1>4. PICK q \in RingPoints' : Get(h)' = q.node /\ \A r \in RingPoints' \ {q} : Sooner(q, r, h)
  BY <1>1 DEF OwnerIsNearest, Sooner
<1>5. /\ p \in Places /\ p.node \in nodes /\ p.replica \in I /\ p = Point(p.node, p.replica)
  BY RingPointsAre
<1>6. /\ RingPoints' = {Point(n, i) : n \in nodes', i \in I}
      /\ RingPoints = {Point(n, i) : n \in nodes, i \in I}
  <2>1. \A n, i : Point(n, i)' = Point(n, i) BY DEF Point
  <2> QED BY <2>1 DEF RingPoints
<1>7. p \in RingPoints' BY <1>3, <1>5, <1>6
<1>8. PICK n \in nodes', i \in I : q = Point(n, i) BY <1>4, <1>6
<1>9. n \in Nodes /\ hashOf \in [Nodes \X I -> Hashes] BY DEF RingTypes
<1>10. q.node = n /\ q \in Places BY <1>8, <1>9, PointTypes
<1>11. q \in RingPoints BY <1>4, <1>6, <1>8, <1>10
<1>12. p # q BY <1>3, <1>4
<1>13. Sooner(p, q, h) /\ Sooner(q, p, h) BY <1>3, <1>4, <1>7, <1>11, <1>12
<1> QED BY <1>5, <1>10, <1>13, SoonerOnce

\* A call of Add moves keys only to the nodes it adds and a call of Remove only the keys of the
\* node it removes, whatever the hashes.
THEOREM RemapMinimal == RingSpec => MinimalRemap
<1>1. RingInv => RingTypes BY DEF RingInv
<1>2. ASSUME RingTypes, RingTypes', OwnerIsNearest, OwnerIsNearest', [RingNext]_ringVars
      PROVE  [\A h \in Hashes : Get(h)' # Get(h) =>
                Get(h)' \in (nodes' \ nodes) \/ Get(h) \notin nodes']_ringVars
  <2>1. hashOf' = hashOf BY <1>2 DEF RingNext, Add, RemoveNode, ringVars
  <2> QED BY <1>2, <2>1, RemapStep
<1> QED BY <1>1, <1>2, RingInvariant, OwnerNearest, PTL DEF RingSpec, MinimalRemap
=============================================================================
