------------------------------ MODULE Routing -------------------------------
(***************************************************************************)
(* Group.Get, Set and Delete (group.go) on a cluster: a caller on one node *)
(* routes an operation on one key to the owner it sees, over gRPC if that  *)
(* is another node, retries while the topology moves, invalidates the      *)
(* copies of the others and keeps a near-cache copy.  With a Getter a miss *)
(* on the owner ends in one of the outcomes of the load, which module      *)
(* OwnerCache has in detail.                                               *)
(*                                                                         *)
(* Nodes are numbered by the position of their first point on the ring,    *)
(* clockwise from the key, so the owner among some members is the least    *)
(* (OwnerIsNearest of module ConsistentHash).  Every node walks through    *)
(* the same sequence of memberships at its own pace and may skip some      *)
(* (ViewIsARevision, ViewMovesForward of module Membership); its epoch is  *)
(* its position in the sequence.  An owner's handler takes two steps, the  *)
(* ownership check and the effect.  Evict makes up for the freedom that    *)
(* is lost where deleting a copy is merged with another step.              *)
(***************************************************************************)
EXTENDS Integers, Sequences, FiniteSets

CONSTANTS
  N,                  \* number of nodes
  Threads, Home,      \* callers and the nodes they are on
  Topologies,         \* the sequences of registered members to consider
  Attempts,           \* iterations of the routing loop, 4 in the code
  Near,               \* WithNearCache was used
  NearTTL, RpcTimeout,
  MaxVal, MaxTime,    \* bounds: calls of Set, the clock
  MaxOrphans,         \* bound: handlers at work for callers that gave up
  Calls,              \* the operations each caller uses
  ReadThrough,        \* the group has a Getter
  MayFail,            \* RPCs and contexts may fail, groups may be closed
  MayClosePicker,     \* ClientPicker.Close may be called
  None

Nodes == 1..N
Vals == 1..MaxVal
Ops == {"get", "set", "del"}
MaxTopo == Len(CHOOSE s \in Topologies : TRUE)
Epochs == 1..MaxTopo

ASSUME RoutingAssumption ==
  /\ N \in Nat \ {0} /\ Home \in [Threads -> Nodes]
  /\ \A s \in Topologies : s \in Seq(SUBSET Nodes) /\ Len(s) = MaxTopo
  /\ MaxTopo \in Nat \ {0}
  /\ Attempts \in Nat \ {0} /\ Calls \in [Threads -> SUBSET Ops]
  /\ {Near, ReadThrough, MayFail, MayClosePicker} \subseteq BOOLEAN
  /\ NearTTL \in Nat \ {0} /\ RpcTimeout \in Nat \ {0}
  /\ MaxVal \in Nat /\ MaxTime \in Nat /\ MaxOrphans \in Nat
  /\ None \notin Int

VARIABLES
  topo,         \* the memberships etcd goes through
  view,         \* how far each picker has followed
  connected,    \* the picker has its clients (it is not closed)
  main,         \* mainCache of each node
  ownerEpoch,   \* g.ownerEpoch of each node
  near,         \* nearCache of each node, by the epoch in the near key
  th,           \* the callers: where they are, and their locals; res is the outcome:
                \* none yet, a value, a miss, ok, "topology" (ErrTopologyChanged, and
                \* ErrNotOwner by way of FailedPrecondition) or another failure;
                \* applied and seen are history: the owner that answered, and the
                \* epoch of the caller's view when the answer came about
  orphans,      \* handlers whose caller has given up
  used,         \* values passed to Set so far
  now,          \* the clock
  content,      \* history: what the last mutation left at a node
  until         \* history: when a value stopped being a node's content
                \* (both kept only in instances in which time passes)

caches == <<main, near, content, until>>
cluster == <<topo, view, connected>>
vars == <<topo, view, connected, main, ownerEpoch, near, th, orphans, used, now,
          content, until>>

Never == MaxTime + 1

\* A near-cache entry: value, node it came from, epoch of the call, deadline.
Copy == [val : Vals, from : Nodes, epoch : Epochs, dead : Nat]

Idle == [pc |-> "idle", op |-> "get", val |-> None, att |-> 0, own |-> 0, ep |-> 0,
         peer |-> FALSE, call |-> "none", res |-> "none", copy |-> None, sent |-> 0,
         todo |-> {}, applied |-> 0, seen |-> 0, stable |-> FALSE]

Init ==
  /\ topo \in Topologies
  /\ view = [n \in Nodes |-> 1]
  /\ connected = [n \in Nodes |-> TRUE]
  /\ main = [n \in Nodes |-> None]
  /\ ownerEpoch = [n \in Nodes |-> 0]
  /\ near = [n \in Nodes |-> [e \in Epochs |-> None]]
  /\ th = [t \in Threads |-> Idle]
  /\ orphans = {}
  /\ used = 0
  /\ now = 0
  /\ content = [n \in Nodes |-> None]
  /\ until = [n \in Nodes |-> [v \in Vals |-> Never]]

-----------------------------------------------------------------------------
(* The picker *)

\* A picker's members always include its own node.
Members(n, e) == topo[e] \cup {n}

OwnerAt(n, e) == CHOOSE o \in Members(n, e) : \A p \in Members(n, e) : o <= p

\* PickOwner on node n.
Owner(n) == OwnerAt(n, view[n])

\* p.clients; Close empties it.
ClientsOf(n) == IF connected[n] THEN Members(n, view[n]) \ {n} ELSE {}

-----------------------------------------------------------------------------
(* The callers *)

Node(t) == Home[t]
Remote(t) == th[t].own # Node(t)

\* Caller t, whose locals are now those of c, goes to step l.
Goes(t, l, c) == th' = [th EXCEPT ![t] = [c EXCEPT !.pc = l]]

Only(t, l) == Goes(t, l, th[t])
Returns(t, r) == Goes(t, "return", [th[t] EXCEPT !.res = r])

\* An operation begins; on a closed group it would end here.
Start(t, o) ==
  /\ th[t].pc = "idle"
  /\ o = "set" => used < MaxVal
  /\ used' = IF o = "set" THEN used + 1 ELSE used
  /\ Goes(t, "pick", [th[t] EXCEPT !.op = o, !.val = IF o = "set" THEN used + 1 ELSE None])
  /\ UNCHANGED <<cluster, caches, ownerEpoch, orphans, now>>

\* PickOwner at the head of the loop.  The Peer it returns for a remote owner is
\* never a nil interface, so "peer == nil" holds for no remote owner; Delete of
\* a local key goes to deleteLocal without any further check.
Pick(t) ==
  LET n == Node(t)  o == Owner(n)
      p == [th[t] EXCEPT !.own = o, !.ep = view[n], !.peer = o \in ClientsOf(n),
                         !.sent = now, !.res = "none",
                         !.call = IF o # n THEN "none"
                                  ELSE IF th[t].op = "del" THEN "admitted" ELSE "sent"]
  IN
  /\ th[t].pc = "pick"
  /\ Goes(t, IF o = n THEN "call"
             ELSE IF th[t].op = "get" /\ Near THEN "near" ELSE "send", p)
  /\ UNCHANGED <<cluster, caches, ownerEpoch, orphans, used, now>>

\* Mutant: near keys carry no epoch.
NearKeyPlain(e) == 1

\* nearKey.
NearKey(e) == e

\* nearCache.Get.
ProbeNear(t) ==
  LET c == near[Node(t)][NearKey(th[t].ep)] IN
  /\ th[t].pc = "near"
  /\ IF c # None /\ now < c.dead
       THEN Goes(t, "hit", [th[t] EXCEPT !.copy = c, !.seen = view[Node(t)]])
       ELSE Only(t, "send")
  /\ UNCHANGED <<cluster, caches, ownerEpoch, orphans, used, now>>

\* Mutant: the topology is not looked at again.
SameAlways(t) == TRUE

\* Nothing has moved since the owner was picked.
Same(t) == Owner(Node(t)) = th[t].own /\ view[Node(t)] = th[t].ep

\* A hit counts if the topology is still the one it was looked up for.
CheckHit(t) ==
  /\ th[t].pc = "hit"
  /\ IF Same(t)
       THEN /\ Goes(t, "return", [th[t] EXCEPT !.res = "value", !.val = th[t].copy.val])
            /\ UNCHANGED near
       ELSE /\ near' = [near EXCEPT ![Node(t)][NearKey(th[t].ep)] = None]
            /\ Goes(t, "send", [th[t] EXCEPT !.copy = None])
  /\ UNCHANGED <<cluster, main, content, until, ownerEpoch, orphans, used, now>>

\* peer.Get, Set or Delete; a nil *Client panics.
Send(t) ==
  /\ th[t].pc = "send"
  /\ IF th[t].peer THEN Goes(t, "call", [th[t] EXCEPT !.call = "sent", !.sent = now])
                   ELSE Only(t, "panic")
  /\ UNCHANGED <<cluster, caches, ownerEpoch, orphans, used, now>>

-----------------------------------------------------------------------------
(* The owner: server.go's handlers, or the caller itself *)

\* prepareLocalOwner on node o, which owns the key in its own view.
Adopt(o) ==
  /\ main' = IF ownerEpoch[o] \in {0, view[o]} THEN main ELSE [main EXCEPT ![o] = None]
  /\ ownerEpoch' = [ownerEpoch EXCEPT ![o] = view[o]]

\* setLocal or deleteLocal leaves v (None: nothing) on node o; both end with
\* invalidateNearKey.
Mutate(o, v) ==
  /\ main' = [main EXCEPT ![o] = v]
  /\ IF MaxTime = 0 THEN UNCHANGED <<content, until>>
     ELSE /\ content' = [content EXCEPT ![o] = v]
          /\ until' = [until EXCEPT ![o] = [w \in Vals |->
                         IF w = v THEN Never ELSE IF w = content[o] THEN now ELSE @[w]]]
  /\ near' = [near EXCEPT ![o][NearKey(view[o])] = None]

\* The ownership check of getLocal, setLocal and deleteOwnerLocal; before it, the group
\* may turn out to be closed, or gone.
Admit(t) ==
  LET o == th[t].own IN
  /\ th[t].pc = "call" /\ th[t].call = "sent"
  /\ \/ Owner(o) = o /\ Adopt(o) /\ Goes(t, "call", [th[t] EXCEPT !.call = "admitted"])
     \/ /\ \E r \in (IF Owner(o) # o THEN {"topology"} ELSE {})
                    \cup (IF MayFail THEN {"fail"} ELSE {}) :
             Goes(t, "call", [th[t] EXCEPT !.call = "replied", !.res = r])
        /\ UNCHANGED <<main, ownerEpoch>>
  /\ UNCHANGED <<cluster, near, content, until, orphans, used, now>>

\* What a miss on the owner ends in, and what it leaves in mainCache.  Without a
\* Getter it is ErrCacheMiss.  A load, which may be shared with a request of another
\* epoch, returns and stores a value, fails, or is overtaken by a mutation or by the
\* topology.
Loads ==
  {[res |-> "miss", val |-> None, main |-> None]} \cup
  (IF ReadThrough
     THEN {[res |-> r, val |-> None, main |-> None] : r \in {"topology", "fail"}}
          \cup {[res |-> "value", val |-> v, main |-> v] : v \in Vals}
     ELSE {})

\* The rest of the owner's operation.
Act(t) ==
  LET o == th[t].own
      done(r, v) ==
        Goes(t, "call",
             [th[t] EXCEPT !.call = "replied", !.res = r, !.val = v, !.applied = o,
                           !.seen = view[Node(t)]])
  IN
  /\ th[t].pc = "call" /\ th[t].call = "admitted"
  /\ \/ th[t].op # "get" /\ done("ok", th[t].val) /\ Mutate(o, th[t].val)
     \/ /\ th[t].op = "get" /\ main[o] # None
        /\ done("value", main[o]) /\ UNCHANGED caches
     \/ /\ th[t].op = "get" /\ main[o] = None
        /\ \E l \in Loads : done(l.res, l.val) /\ main' = [main EXCEPT ![o] = l.main]
        /\ UNCHANGED <<near, content, until>>
  /\ UNCHANGED <<cluster, ownerEpoch, orphans, used, now>>

\* The same two steps for a mutation whose caller no longer waits.
AdmitOrphan(h) ==
  /\ h.call = "sent"
  /\ IF Owner(h.node) = h.node
       THEN Adopt(h.node) /\ orphans' = (orphans \ {h}) \cup {[h EXCEPT !.call = "admitted"]}
       ELSE orphans' = orphans \ {h} /\ UNCHANGED <<main, ownerEpoch>>
  /\ UNCHANGED <<cluster, near, content, until, th, used, now>>

ActOrphan(h) ==
  /\ h.call = "admitted"
  /\ Mutate(h.node, h.val)
  /\ orphans' = orphans \ {h}
  /\ UNCHANGED <<cluster, ownerEpoch, th, used, now>>

-----------------------------------------------------------------------------
(* What the caller does with the answer *)

\* Mutant: the last attempt is treated like the others.
LastAttemptNever(t) == FALSE

\* attempt == 3.
LastAttempt(t) == th[t].att = Attempts - 1

\* Mutant: the loop counter stays where it is.
NextAttemptSame(t) == th[t].att

\* attempt++
NextAttempt(t) == th[t].att + 1

\* continue: the next iteration, or out of the loop, where Get gives up and Set
\* and Delete go on with the invalidation.
Continue(t) ==
  IF NextAttempt(t) < Attempts THEN Goes(t, "pick", [th[t] EXCEPT !.att = NextAttempt(t)])
  ELSE IF th[t].op = "get" THEN Returns(t, "topology")
  ELSE Only(t, "local")

\* The RPC fails or times out; a mutation may have been, or may yet be, done.
CallFails(t) ==
  LET h == [val |-> th[t].val, node |-> th[t].own, call |-> th[t].call] IN
  /\ MayFail
  /\ th[t].pc = "call" /\ Remote(t)
  /\ orphans' \in {orphans} \cup
       (IF th[t].op # "get" /\ h.call # "replied" /\ Cardinality(orphans) < MaxOrphans
          THEN {orphans \cup {h}} ELSE {})
  /\ Returns(t, "fail")
  /\ UNCHANGED <<cluster, caches, ownerEpoch, used, now>>

\* The answer: a changed topology is waited out if the owner is remote.
Reply(t) ==
  /\ th[t].pc = "call" /\ th[t].call = "replied"
  /\ IF th[t].res = "topology"
       THEN IF ~Remote(t) THEN Continue(t)
            ELSE IF LastAttempt(t) THEN Returns(t, "topology")
            ELSE Only(t, "wait")
       ELSE IF th[t].res \in {"miss", "fail"} \/ (th[t].op = "get" /\ ~Remote(t))
            THEN Only(t, "return")
       ELSE Only(t, "check")
  /\ UNCHANGED <<cluster, caches, ownerEpoch, orphans, used, now>>

\* waitForTopologyRetry: the epoch moves or the timer fires, or ctx is done.
Wait(t) ==
  /\ th[t].pc = "wait"
  /\ Continue(t) \/ (MayFail /\ Returns(t, "fail"))
  /\ UNCHANGED <<cluster, caches, ownerEpoch, orphans, used, now>>

\* PickOwner again: the answer counts only in an unchanged topology.
Check(t) ==
  LET get == th[t].op = "get" IN
  /\ th[t].pc = "check"
  /\ IF Same(t) THEN Goes(t, IF ~get THEN "local" ELSE IF Near THEN "fill" ELSE "return",
                          [th[t] EXCEPT !.stable = TRUE])
     ELSE IF ~get /\ LastAttempt(t) THEN Returns(t, "topology")
     ELSE Continue(t)
  /\ UNCHANGED <<cluster, caches, ownerEpoch, orphans, used, now>>

\* invalidateLocalCopies.
Local(t) ==
  LET n == Node(t) IN
  /\ th[t].pc = "local"
  /\ main' = IF Owner(n) = n THEN main ELSE [main EXCEPT ![n] = None]
  /\ near' = [near EXCEPT ![n][NearKey(view[n])] = None]
  /\ Only(t, "cast")
  /\ UNCHANGED <<cluster, content, until, ownerEpoch, orphans, used, now>>

\* Mutant: the owner is not spared.
TargetsAll(t) == ClientsOf(Node(t))

\* The peers to invalidate.
Targets(t) == ClientsOf(Node(t)) \ {th[t].own}

\* ClientPicker.Invalidate: one call to each of them.
Broadcast(t) ==
  /\ th[t].pc = "cast"
  /\ Goes(t, "inval", [th[t] EXCEPT !.todo = Targets(t), !.sent = now])
  /\ UNCHANGED <<cluster, caches, ownerEpoch, orphans, used, now>>

\* deleteLocal on peer p, or a failure that is only logged.
Invalidate(t, p) ==
  /\ th[t].pc = "inval" /\ p \in th[t].todo
  /\ Mutate(p, None) \/ (MayFail /\ UNCHANGED caches)
  /\ Goes(t, "inval", [th[t] EXCEPT !.todo = th[t].todo \ {p}])
  /\ UNCHANGED <<cluster, ownerEpoch, orphans, used, now>>

\* All calls are over; Set may keep a copy of its value if nothing has moved.
Finish(t) ==
  /\ th[t].pc = "inval" /\ th[t].todo = {}
  /\ IF th[t].op = "set" /\ Near /\ th[t].stable /\ Same(t) /\ Remote(t)
       THEN Only(t, "fill") ELSE Returns(t, "ok")
  /\ UNCHANGED <<cluster, caches, ownerEpoch, orphans, used, now>>

\* Mutant: the copy never expires.
DeadlineNever == Never

\* time.Now().Add(g.nearTTL)
Deadline == now + NearTTL

\* nearCache.AddWithExpiration.
Fill(t) ==
  /\ th[t].pc = "fill"
  /\ near' = [near EXCEPT ![Node(t)][NearKey(th[t].ep)] =
                [val |-> th[t].val, from |-> th[t].own, epoch |-> th[t].ep, dead |-> Deadline]]
  /\ Returns(t, th[t].res)
  /\ UNCHANGED <<cluster, main, content, until, ownerEpoch, orphans, used, now>>

Return(t) ==
  /\ th[t].pc = "return"
  /\ th' = [th EXCEPT ![t] = Idle]
  /\ UNCHANGED <<cluster, caches, ownerEpoch, orphans, used, now>>

-----------------------------------------------------------------------------
(* The surroundings *)

\* A picker observes a later membership.
ViewMoves(n, e) ==
  /\ e > view[n]
  /\ view' = [view EXCEPT ![n] = e]
  /\ UNCHANGED <<topo, connected, caches, ownerEpoch, th, orphans, used, now>>

\* ClientPicker.Close; only a node with callers is asked for its clients.
ClosePicker(n) ==
  /\ MayClosePicker /\ connected[n]
  /\ connected' = [connected EXCEPT ![n] = FALSE]
  /\ UNCHANGED <<topo, view, caches, ownerEpoch, th, orphans, used, now>>

\* A store drops an entry.
Evict(n) ==
  /\ \/ main[n] # None /\ main' = [main EXCEPT ![n] = None] /\ UNCHANGED near
     \/ \E e \in Epochs : /\ near[n][e] # None
                          /\ near' = [near EXCEPT ![n][e] = None]
                          /\ UNCHANGED main
  /\ UNCHANGED <<cluster, content, until, ownerEpoch, th, orphans, used, now>>

\* Caller t waits for an RPC.
OnTheWire(t) ==
  \/ th[t].pc = "call" /\ Remote(t)
  \/ th[t].pc = "inval" /\ th[t].todo # {}

\* Time passes only while callers are idle or wait for others: local steps are
\* taken to be instantaneous, and an RPC ends within its timeout (the caller's
\* context has no later deadline of its own).
Tick ==
  /\ now < MaxTime
  /\ \A t \in Threads :
       \/ th[t].pc \in {"idle", "wait", "panic"}
       \/ OnTheWire(t) /\ now < th[t].sent + RpcTimeout
  /\ now' = now + 1
  /\ UNCHANGED <<cluster, caches, ownerEpoch, th, orphans, used>>

\* A step of an operation in progress, its handler included.
Advance(t) ==
  \/ Pick(t) \/ ProbeNear(t) \/ CheckHit(t) \/ Send(t) \/ Admit(t) \/ Act(t)
  \/ CallFails(t) \/ Reply(t) \/ Wait(t) \/ Check(t) \/ Local(t) \/ Broadcast(t)
  \/ (\E p \in Nodes : Invalidate(t, p)) \/ Finish(t) \/ Fill(t) \/ Return(t)

Next ==
  \/ \E t \in Threads : Advance(t)
  \/ \E t \in Threads : \E o \in Calls[t] : Start(t, o)
  \/ \E h \in orphans : AdmitOrphan(h) \/ ActOrphan(h)
  \/ \E n \in Nodes, e \in Epochs : ViewMoves(n, e)
  \/ \E t \in Threads : ClosePicker(Node(t))
  \/ \E n \in Nodes : Evict(n)
  \/ Tick

Spec == Init /\ [][Next]_vars

\* Goroutines run and RPCs end: every call has a deadline.
FairSpec == Spec /\ \A t \in Threads : WF_vars(Advance(t))

-----------------------------------------------------------------------------
\* Succeeded(t): Set or Delete is about to return nil.
Succeeded(t) == th[t].pc = "return" /\ th[t].op # "get" /\ th[t].res = "ok"

\* A Set or Delete that reports success was carried out by the owner it picked
\* last, whatever rejections, retries and moves of the topology came before.
\* (A Set that runs out of attempts on its own node is the subject of
\* SetReachesAnOwner.)
SuccessIsTheOwners ==
  \A t \in Threads :
    Succeeded(t) /\ (th[t].op = "del" \/ th[t].stable) => th[t].applied = th[t].own

\* A mutation that reports success, or a Get with a value of another node, directly or
\* from the near cache (getLocal on the own node is not looked at again).
Accepted(t) ==
  \/ Succeeded(t) /\ (th[t].op = "del" \/ th[t].stable)
  \/ th[t].pc = "return" /\ th[t].op = "get" /\ th[t].res = "value" /\ Remote(t)

\* The topology may move between the choice of the owner and its answer, and the answer
\* of a node that has lost the key is not accepted: when the answer came about, on the
\* owner or by a lookup in the near cache, that owner was still the caller's.
AnswersAreCurrent ==
  \A t \in Threads : Accepted(t) => OwnerAt(Node(t), th[t].seen) = th[t].own

\* Get has returned a near-cache hit.
NearHit(t) == th[t].pc = "return" /\ th[t].copy # None

\* A near-cache hit of an epoch was obtained in that epoch from the owner of
\* that epoch: copies of an old topology are not served in a new one.
NearHitsAreOfTheEpoch ==
  \A t \in Threads :
    NearHit(t) => /\ th[t].copy.epoch = th[t].ep
                  /\ th[t].copy.from = OwnerAt(Node(t), th[t].ep)

\* Near-cache reads are stale for a bounded time, lost invalidations or not:
\* the value was the content of the node it came from less than nearTTL and two
\* RPC timeouts ago (the call, and for a Set the invalidation of the others,
\* lie between the owner's answer and the start of the TTL).  Stated for groups
\* without a Getter, where mutations alone make values.
BoundedStaleness ==
  \A t \in Threads :
    NearHit(t) =>
      LET c == th[t].copy IN
      now < until[c.from][c.val] + NearTTL + 2 * RpcTimeout

\* While the topology does not move, invalidation spares the owner: what a
\* mutation left there is removed by Delete only.
InvalidationSparesOwner ==
  [][\A n \in Nodes :
       MaxTopo = 1 /\ Owner(n) = n /\ content[n] # None /\ content'[n] = None =>
         \/ \E t \in Threads : th[t].op = "del" /\ th[t].pc = "call"
         \/ \E h \in orphans : h.val = None]_vars

\* Every operation returns (or panics), even if the views never agree.
OperationsReturn ==
  \A t \in Threads : th[t].pc # "idle" ~> th[t].pc \in {"idle", "panic"}

-----------------------------------------------------------------------------
\* "Set writes the key to its unique owner": a Set that returns nil has been
\* carried out by some node.
SetReachesAnOwner == \A t \in Threads : Succeeded(t) => th[t].applied # 0
=============================================================================
