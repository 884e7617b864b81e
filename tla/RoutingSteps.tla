---------------------------- MODULE RoutingSteps ----------------------------
(***************************************************************************)
(* The inductive invariant of routed operations, for any nodes, callers    *)
(* and sequence of memberships, and the lemmas on their steps.             *)
(***************************************************************************)
EXTENDS Routing, WellFoundedInduction, TLAPS

Steps == {"idle", "pick", "near", "hit", "send", "call", "wait", "check", "local",
          "cast", "inval", "fill", "return", "panic"}
MaybeVal == Vals \cup {None}
MaybeCopy == Copy \cup {None}
Stages == {"none", "sent", "admitted", "replied"}
Outcomes == {"none", "value", "miss", "ok", "topology", "fail"}

Caller == [pc : Steps, op : Ops, val : MaybeVal, att : 0..Attempts - 1, own : 0..N,
           ep : 0..MaxTopo, peer : BOOLEAN, call : Stages, res : Outcomes,
           copy : MaybeCopy, sent : Nat, todo : SUBSET Nodes, applied : 0..N,
           seen : 0..MaxTopo, stable : BOOLEAN]

Handler == [val : MaybeVal, node : Nodes, call : Stages]

TypeInv ==
  /\ topo \in Topologies
  /\ view \in [Nodes -> Epochs]
  /\ main \in [Nodes -> MaybeVal]
  /\ near \in [Nodes -> [Epochs -> MaybeCopy]]
  /\ th \in [Threads -> Caller]
  /\ orphans \subseteq Handler
  /\ used \in 0..MaxVal
  /\ now \in 0..MaxTime
  /\ content \in [Nodes -> MaybeVal]
  /\ until \in [Nodes -> [Vals -> 0..Never]]

-----------------------------------------------------------------------------
\* The owner of an attempt is the one that its epoch names.
Picked(t, c) ==
  /\ c.pc \notin {"idle", "pick"} =>
       c.own \in Nodes /\ c.ep \in Epochs /\ c.own = OwnerAt(Node(t), c.ep)
  /\ c.pc \in {"near", "hit", "send", "wait"} => c.own # Node(t)

\* A copy in hand was looked up in the epoch of the attempt.
CopyInv(c) ==
  /\ c.copy # None => /\ c.pc \in {"hit", "return"} /\ c.op = "get"
                      /\ c.copy.epoch = c.ep /\ c.copy.from = c.own
  /\ c.pc \in {"near", "hit"} => c.op = "get"
  /\ c.pc = "hit" => c.copy # None

\* What is written, and what a Get has found, is a value.
ValInv(c) ==
  /\ c.pc # "idle" => (c.op = "set" => c.val \in Vals) /\ (c.op = "del" => c.val = None)
  /\ c.op = "get" /\ c.res = "value" => c.val \in Vals
  /\ c.pc = "idle" => c.res = "none"

\* What the owner has answered.
AnswerInv(t, c) ==
  /\ c.pc = "call" /\ c.call = "replied" =>
       /\ c.res \in (IF c.op = "get" THEN {"value", "miss", "topology", "fail"}
                                    ELSE {"ok", "topology", "fail"})
       /\ c.res \notin {"topology", "fail"} => c.applied = c.own
  /\ c.pc = "call" /\ c.op = "del" /\ c.own = Node(t) =>
       c.call \in {"admitted", "replied"} /\ (c.call = "replied" => c.res = "ok")
  /\ c.pc = "check" =>
       /\ c.applied = c.own
       /\ c.res = IF c.op = "get" THEN "value" ELSE "ok"
  /\ c.pc = "wait" => c.att < Attempts - 1

\* A mutation past the loop was carried out by its owner, unless a Set on its own node
\* has run out of attempts.
MutationInv(c) ==
  /\ c.stable => c.pc \in {"local", "cast", "inval", "fill", "return"} /\ c.res \in {"ok", "value"}
  /\ c.pc \in {"local", "cast", "inval"} => c.op # "get"
  /\ c.pc \in {"local", "cast", "inval", "fill"} /\ c.op # "get" /\ (c.op = "del" \/ c.stable)
       => c.applied = c.own /\ c.res = "ok"
  /\ c.pc = "fill" => c.stable /\ c.op # "del" /\ (c.op = "get" => c.res = "value")
  /\ c.pc = "return" /\ c.op # "get" /\ c.res = "ok" /\ (c.op = "del" \/ c.stable)
       => c.applied = c.own

Good(t, c) ==
  /\ c \in Caller
  /\ Picked(t, c) /\ CopyInv(c) /\ ValInv(c) /\ AnswerInv(t, c) /\ MutationInv(c)

CallerInv == \A t \in Threads : Good(t, th[t])

\* What is kept under the key of an epoch came from the owner in that epoch.
NearInv ==
  \A n \in Nodes, e \in Epochs :
    near[n][e] # None => near[n][e].epoch = e /\ near[n][e].from = OwnerAt(n, e)

-----------------------------------------------------------------------------
(* Owners *)

\* The natural numbers are well-founded.
LEMMA LeastNatural ==
  ASSUME NEW T, T \subseteq Nat, T # {}
  PROVE  \E m \in T : \A n \in T : m <= n
<1> DEFINE below == {ss \in Nat \X Nat : ss[1] < ss[2]}
<1>1. IsWellFoundedOn(below, Nat) BY NatLessThanWellFounded DEF OpToRel
<1> HIDE DEF below
<1>2. PICK m \in T : \A n \in T : ~(<<n, m>> \in below) BY <1>1, WFMin
<1>3. \A n \in T : ~(n < m) BY <1>2 DEF below
<1> QED BY <1>3

\* There is an owner, and it is the least member.
LEMMA OwnerIsLeast ==
  ASSUME TypeInv, NEW n \in Nodes, NEW e \in Epochs
  PROVE  /\ OwnerAt(n, e) \in Members(n, e)
         /\ \A p \in Members(n, e) : OwnerAt(n, e) <= p
         /\ Members(n, e) \subseteq Nodes
<1>1. topo \in Seq(SUBSET Nodes) /\ Len(topo) = MaxTopo /\ MaxTopo \in Nat
  BY RoutingAssumption DEF TypeInv
<1>2. topo[e] \in SUBSET Nodes BY <1>1 DEF Epochs
<1>3. Members(n, e) \subseteq Nodes /\ n \in Members(n, e) BY <1>2 DEF Members
<1>4. Nodes \subseteq Nat BY RoutingAssumption DEF Nodes
<1>5. \E o \in Members(n, e) : \A p \in Members(n, e) : o <= p
  BY <1>3, <1>4, LeastNatural
<1> QED BY <1>3, <1>5 DEF OwnerAt

LEMMA OwnerType ==
  ASSUME TypeInv, NEW n \in Nodes
  PROVE  view[n] \in Epochs /\ Owner(n) \in Nodes /\ Owner(n) = OwnerAt(n, view[n])
<1>1. view[n] \in Epochs BY DEF TypeInv
<1> QED BY <1>1, OwnerIsLeast DEF Owner

-----------------------------------------------------------------------------
(* Steps of a caller *)

LEMMA Constants ==
  /\ N \in Nat \ {0} /\ Attempts \in Nat \ {0} /\ MaxTopo \in Nat \ {0}
  /\ \A t \in Threads : Node(t) \in Nodes
  /\ Nodes \subseteq 0..N /\ Epochs \subseteq 0..MaxTopo /\ 0 \notin Nodes
  /\ None \notin Vals
BY RoutingAssumption DEF Node, Nodes, Epochs, Vals

LEMMA NearType ==
  ASSUME TypeInv PROVE \A n \in Nodes, e \in Epochs : near[n][e] \in MaybeCopy
BY DEF TypeInv

LEMMA ClockType == ASSUME TypeInv PROVE now \in Nat /\ Deadline \in Nat
<1>1. now \in Nat BY RoutingAssumption DEF TypeInv
<1>2. NearTTL \in Nat BY RoutingAssumption
<1> QED BY <1>1, <1>2 DEF Deadline

\* A caller takes a step.
Takes(t, d) == Good(t, d) /\ th' = [th EXCEPT ![t] = d]

LEMMA IdleGood == ASSUME NEW t PROVE Good(t, Idle)
<1>1. Idle \in Caller
  BY Constants DEF Idle, Caller, Steps, Stages, Outcomes, Ops, MaybeVal, MaybeCopy
<1>2. /\ Idle.pc = "idle" /\ Idle.op = "get" /\ Idle.res = "none" /\ Idle.copy = None
      /\ Idle.stable = FALSE
  BY DEF Idle
<1>3. Picked(t, Idle) /\ CopyInv(Idle) /\ ValInv(Idle) BY <1>2 DEF Picked, CopyInv, ValInv
<1>4. AnswerInv(t, Idle) /\ MutationInv(Idle) BY <1>2 DEF AnswerInv, MutationInv
<1> QED BY <1>1, <1>3, <1>4 DEF Good

LEMMA PickGood ==
  ASSUME TypeInv, CallerInv, NEW t \in Threads, Pick(t)
  PROVE  \E d : Takes(t, d)
<1> DEFINE c == th[t]
           n == Node(t)
           o == Owner(n)
           k == IF o # n THEN "none" ELSE IF c.op = "del" THEN "admitted" ELSE "sent"
           l == IF o = n THEN "call" ELSE IF c.op = "get" /\ Near THEN "near" ELSE "send"
           p == o \in ClientsOf(n)
           d == [[c EXCEPT !.own = o, !.ep = view[n], !.peer = p, !.sent = now,
                          !.res = "none", !.call = k] EXCEPT !.pc = l]
<1>1. th' = [th EXCEPT ![t] = d] /\ c.pc = "pick" BY DEF Pick, Goes
<1>2. Good(t, c) BY DEF CallerInv
<1>3. n \in Nodes /\ view[n] \in Epochs /\ o \in Nodes /\ o = OwnerAt(n, view[n])
  BY Constants, OwnerType
<1>4. now \in Nat /\ p \in BOOLEAN /\ k \in Stages /\ l \in Steps
  BY RoutingAssumption DEF TypeInv, Stages, Steps
<1>5. /\ l \in {"call", "near", "send"} /\ (l = "call" <=> o = n)
      /\ (l = "near" => c.op = "get") /\ k # "replied"
      /\ (o = n /\ c.op = "del" => k = "admitted")
  OBVIOUS
<1> HIDE DEF c, n, o, k, l, p
<1>6. d \in Caller
  BY <1>2, <1>3, <1>4, Constants DEF Good, Caller, Outcomes
<1>7. /\ d.pc = l /\ d.op = c.op /\ d.val = c.val /\ d.att = c.att /\ d.own = o
      /\ d.ep = view[n] /\ d.call = k /\ d.res = "none" /\ d.copy = c.copy
      /\ d.applied = c.applied /\ d.stable = c.stable
  BY <1>2 DEF Good, Caller
<1> HIDE DEF d
<1>8. Picked(t, d) /\ CopyInv(d) /\ ValInv(d)
  BY <1>1, <1>2, <1>3, <1>5, <1>7 DEF Good, Picked, CopyInv, ValInv, n
<1>9. AnswerInv(t, d) /\ MutationInv(d)
  BY <1>1, <1>2, <1>3, <1>5, <1>7 DEF Good, AnswerInv, MutationInv, n
<1> QED BY <1>1, <1>6, <1>8, <1>9 DEF Takes, Good

LEMMA SendGood ==
  ASSUME TypeInv, CallerInv, NEW t \in Threads, Send(t)
  PROVE  \E d : Takes(t, d)
<1> DEFINE c == th[t]
           d == [[c EXCEPT !.call = "sent", !.sent = now] EXCEPT !.pc = "call"]
           p == [c EXCEPT !.pc = "panic"]
<1>1. c.pc = "send" BY DEF Send
<1>2. \/ th' = [th EXCEPT ![t] = d]
      \/ th' = [th EXCEPT ![t] = p]
  BY DEF Send, Goes, Only, Returns
<1>3. Good(t, c) BY DEF CallerInv
<1>4. now \in Nat BY RoutingAssumption DEF TypeInv
<1> HIDE DEF c
<1>5. Good(t, d)
  <2>1. d \in Caller
    BY <1>3, <1>4, Constants
    DEF Good, Caller, Steps, Stages, Outcomes, MaybeVal, MaybeCopy
  <2>2. /\ d.pc = "call" /\ d.op = c.op /\ d.val = c.val /\ d.att = c.att
        /\ d.own = c.own /\ d.ep = c.ep /\ d.call = "sent" /\ d.res = c.res
        /\ d.copy = c.copy /\ d.applied = c.applied /\ d.stable = c.stable
    BY <1>3 DEF Good, Caller
  <2> HIDE DEF d
  <2>3. Picked(t, d) /\ CopyInv(d) /\ ValInv(d)
    BY <1>1, <1>3, <1>4, <2>2 DEF Good, Picked, CopyInv, ValInv
  <2>4. AnswerInv(t, d) /\ MutationInv(d)
    BY <1>1, <1>3, <1>4, <2>2 DEF Good, Picked, AnswerInv, MutationInv
  <2> QED BY <2>1, <2>3, <2>4 DEF Good
<1>6. Good(t, p)
  <2>1. p \in Caller
    BY <1>3, <1>4, Constants
    DEF Good, Caller, Steps, Stages, Outcomes, MaybeVal, MaybeCopy
  <2>2. /\ p.pc = "panic" /\ p.op = c.op /\ p.val = c.val /\ p.att = c.att
        /\ p.own = c.own /\ p.ep = c.ep /\ p.call = c.call /\ p.res = c.res
        /\ p.copy = c.copy /\ p.applied = c.applied /\ p.stable = c.stable
    BY <1>3 DEF Good, Caller
  <2> HIDE DEF p
  <2>3. Picked(t, p) /\ CopyInv(p) /\ ValInv(p)
    BY <1>1, <1>3, <1>4, <2>2 DEF Good, Picked, CopyInv, ValInv
  <2>4. AnswerInv(t, p) /\ MutationInv(p)
    BY <1>1, <1>3, <1>4, <2>2 DEF Good, Picked, AnswerInv, MutationInv
  <2> QED BY <2>1, <2>3, <2>4 DEF Good
<1> QED BY <1>2, <1>5, <1>6 DEF Takes

LEMMA ProbeGood ==
  ASSUME TypeInv, CallerInv, NEW t \in Threads, NearInv, ProbeNear(t)
  PROVE  \E d : Takes(t, d)
<1> DEFINE c == th[t]
           d == [[c EXCEPT !.copy = near[Node(t)][c.ep], !.seen = view[Node(t)]]
                  EXCEPT !.pc = "hit"]
           p == [c EXCEPT !.pc = "send"]
<1>1. c.pc = "near" BY DEF ProbeNear
<1>2. \/ th' = [th EXCEPT ![t] = d] /\ near[Node(t)][c.ep] # None
      \/ th' = [th EXCEPT ![t] = p]
  BY DEF ProbeNear, Goes, Only, Returns, NearKey
<1>3. Good(t, c) BY DEF CallerInv
<1>4. c.ep \in Epochs BY <1>1, <1>3 DEF Good, Picked
<1>5. near[Node(t)][c.ep] \in MaybeCopy
  <2> HIDE DEF c
  <2> QED BY <1>4, Constants, NearType
<1>6. near[Node(t)][c.ep] # None =>
        near[Node(t)][c.ep].epoch = c.ep /\ near[Node(t)][c.ep].from = OwnerAt(Node(t), c.ep)
  BY <1>4, Constants DEF NearInv
<1> HIDE DEF c
<1>7. ASSUME near[Node(t)][c.ep] # None PROVE Good(t, d)
  <2>0. view[Node(t)] \in 0..MaxTopo BY Constants, OwnerType
  <2>1. d \in Caller
    BY <1>3, <1>5, <1>6, <1>7, <2>0, Constants
    DEF Good, Caller, Steps, Stages, Outcomes, MaybeVal, MaybeCopy
  <2>2. /\ d.pc = "hit" /\ d.op = c.op /\ d.val = c.val /\ d.att = c.att
        /\ d.own = c.own /\ d.ep = c.ep /\ d.call = c.call /\ d.res = c.res
        /\ d.copy = near[Node(t)][c.ep] /\ d.applied = c.applied
        /\ d.stable = c.stable
    BY <1>3 DEF Good, Caller
  <2> HIDE DEF d
  <2>3. Picked(t, d) /\ CopyInv(d) /\ ValInv(d)
    BY <1>1, <1>3, <1>5, <1>6, <1>7, <2>2 DEF Good, Picked, CopyInv, ValInv
  <2>4. AnswerInv(t, d) /\ MutationInv(d)
    BY <1>1, <1>3, <1>5, <1>6, <1>7, <2>2 DEF Good, Picked, AnswerInv, MutationInv
  <2> QED BY <2>1, <2>3, <2>4 DEF Good
<1>8. Good(t, p)
  <2>1. p \in Caller
    BY <1>3, <1>5, <1>6, Constants
    DEF Good, Caller, Steps, Stages, Outcomes, MaybeVal, MaybeCopy
  <2>2. /\ p.pc = "send" /\ p.op = c.op /\ p.val = c.val /\ p.att = c.att
        /\ p.own = c.own /\ p.ep = c.ep /\ p.call = c.call /\ p.res = c.res
        /\ p.copy = c.copy /\ p.applied = c.applied /\ p.stable = c.stable
    BY <1>3 DEF Good, Caller
  <2> HIDE DEF p
  <2>3. Picked(t, p) /\ CopyInv(p) /\ ValInv(p)
    BY <1>1, <1>3, <1>5, <1>6, <2>2 DEF Good, Picked, CopyInv, ValInv
  <2>4. AnswerInv(t, p) /\ MutationInv(p)
    BY <1>1, <1>3, <1>5, <1>6, <2>2 DEF Good, Picked, AnswerInv, MutationInv
  <2> QED BY <2>1, <2>3, <2>4 DEF Good
<1> QED BY <1>2, <1>7, <1>8 DEF Takes

LEMMA HitGood ==
  ASSUME TypeInv, CallerInv, NEW t \in Threads, CheckHit(t)
  PROVE  \E d : Takes(t, d)
<1> DEFINE c == th[t]
           d == [[c EXCEPT !.res = "value", !.val = c.copy.val] EXCEPT !.pc = "return"]
           p == [[c EXCEPT !.copy = None] EXCEPT !.pc = "send"]
<1>1. c.pc = "hit" BY DEF CheckHit
<1>2. \/ th' = [th EXCEPT ![t] = d]
      \/ th' = [th EXCEPT ![t] = p]
  BY DEF CheckHit, Goes, Only, Returns
<1>3. Good(t, c) BY DEF CallerInv
<1>4. c.copy.val \in Vals BY <1>1, <1>3 DEF Good, CopyInv, Caller, MaybeCopy, Copy
<1> HIDE DEF c
<1>5. Good(t, d)
  <2>1. d \in Caller
    BY <1>3, <1>4, Constants
    DEF Good, Caller, Steps, Stages, Outcomes, MaybeVal, MaybeCopy
  <2>2. /\ d.pc = "return" /\ d.op = c.op /\ d.val = c.copy.val /\ d.att = c.att
        /\ d.own = c.own /\ d.ep = c.ep /\ d.call = c.call /\ d.res = "value"
        /\ d.copy = c.copy /\ d.applied = c.applied /\ d.stable = c.stable
    BY <1>3 DEF Good, Caller
  <2> HIDE DEF d
  <2>3. Picked(t, d) /\ CopyInv(d) /\ ValInv(d)
    BY <1>1, <1>3, <1>4, <2>2 DEF Good, Picked, CopyInv, ValInv
  <2>4. AnswerInv(t, d) /\ MutationInv(d)
    BY <1>1, <1>3, <1>4, <2>2 DEF Good, Picked, AnswerInv, MutationInv
  <2> QED BY <2>1, <2>3, <2>4 DEF Good
<1>6. Good(t, p)
  <2>1. p \in Caller
    BY <1>3, <1>4, Constants
    DEF Good, Caller, Steps, Stages, Outcomes, MaybeVal, MaybeCopy
  <2>2. /\ p.pc = "send" /\ p.op = c.op /\ p.val = c.val /\ p.att = c.att
        /\ p.own = c.own /\ p.ep = c.ep /\ p.call = c.call /\ p.res = c.res
        /\ p.copy = None /\ p.applied = c.applied /\ p.stable = c.stable
    BY <1>3 DEF Good, Caller
  <2> HIDE DEF p
  <2>3. Picked(t, p) /\ CopyInv(p) /\ ValInv(p)
    BY <1>1, <1>3, <1>4, <2>2 DEF Good, Picked, CopyInv, ValInv
  <2>4. AnswerInv(t, p) /\ MutationInv(p)
    BY <1>1, <1>3, <1>4, <2>2 DEF Good, Picked, AnswerInv, MutationInv
  <2> QED BY <2>1, <2>3, <2>4 DEF Good
<1> QED BY <1>2, <1>5, <1>6 DEF Takes

LEMMA AdmitGood ==
  ASSUME TypeInv, CallerInv, NEW t \in Threads, Admit(t)
  PROVE  \E d : Takes(t, d)
<1> DEFINE c == th[t]
           d == [[c EXCEPT !.call = "admitted"] EXCEPT !.pc = "call"]
           p(r) == [[c EXCEPT !.call = "replied", !.res = r] EXCEPT !.pc = "call"]
<1>1. c.pc = "call" BY DEF Admit
<1>2. \/ th' = [th EXCEPT ![t] = d]
      \/ \E r \in {"topology", "fail"} : th' = [th EXCEPT ![t] = p(r)] /\ c.call = "sent"
  BY DEF Admit, Goes, Only, Returns
<1>3. Good(t, c) BY DEF CallerInv
<1> HIDE DEF c
<1>4. Good(t, d)
  <2>1. d \in Caller
    BY <1>3, Constants
    DEF Good, Caller, Steps, Stages, Outcomes, MaybeVal, MaybeCopy
  <2>2. /\ d.pc = "call" /\ d.op = c.op /\ d.val = c.val /\ d.att = c.att
        /\ d.own = c.own /\ d.ep = c.ep /\ d.call = "admitted" /\ d.res = c.res
        /\ d.copy = c.copy /\ d.applied = c.applied /\ d.stable = c.stable
    BY <1>3 DEF Good, Caller
  <2> HIDE DEF d
  <2>3. Picked(t, d) /\ CopyInv(d) /\ ValInv(d)
    BY <1>1, <1>3, <2>2 DEF Good, Picked, CopyInv, ValInv
  <2>4. AnswerInv(t, d) /\ MutationInv(d)
    BY <1>1, <1>3, <2>2 DEF Good, Picked, AnswerInv, MutationInv
  <2> QED BY <2>1, <2>3, <2>4 DEF Good
<1>5. ASSUME c.call = "sent", NEW r \in {"topology", "fail"} PROVE Good(t, p(r))
  <2> DEFINE q == p(r)
  <2>1. q \in Caller
    BY <1>3, <1>5, Constants
    DEF Good, Caller, Steps, Stages, Outcomes, MaybeVal, MaybeCopy
  <2>2. /\ q.pc = "call" /\ q.op = c.op /\ q.val = c.val /\ q.att = c.att
        /\ q.own = c.own /\ q.ep = c.ep /\ q.call = "replied" /\ q.res = r
        /\ q.copy = c.copy /\ q.applied = c.applied /\ q.stable = c.stable
    BY <1>3 DEF Good, Caller
  <2> HIDE DEF q
  <2>3. Picked(t, q) /\ CopyInv(q) /\ ValInv(q)
    BY <1>1, <1>3, <1>5, <2>2 DEF Good, Picked, CopyInv, ValInv
  <2>4. AnswerInv(t, q) /\ MutationInv(q)
    BY <1>1, <1>3, <1>5, <2>2 DEF Good, Picked, AnswerInv, MutationInv
  <2> QED BY <2>1, <2>3, <2>4 DEF Good, q
<1> HIDE DEF p
<1> QED BY <1>2, <1>4, <1>5 DEF Takes

LEMMA FailGood ==
  ASSUME TypeInv, CallerInv, NEW t \in Threads, CallFails(t)
  PROVE  \E d : Takes(t, d)
<1> DEFINE c == th[t]
           d == [[c EXCEPT !.res = "fail"] EXCEPT !.pc = "return"]
<1>1. c.pc = "call" BY DEF CallFails
<1>2. th' = [th EXCEPT ![t] = d]
  BY DEF CallFails, Goes, Only, Returns
<1>3. Good(t, c) BY DEF CallerInv
<1> HIDE DEF c
<1>4. Good(t, d)
  <2>1. d \in Caller
    BY <1>3, Constants
    DEF Good, Caller, Steps, Stages, Outcomes, MaybeVal, MaybeCopy
  <2>2. /\ d.pc = "return" /\ d.op = c.op /\ d.val = c.val /\ d.att = c.att
        /\ d.own = c.own /\ d.ep = c.ep /\ d.call = c.call /\ d.res = "fail"
        /\ d.copy = c.copy /\ d.applied = c.applied /\ d.stable = c.stable
    BY <1>3 DEF Good, Caller
  <2> HIDE DEF d
  <2>3. Picked(t, d) /\ CopyInv(d) /\ ValInv(d)
    BY <1>1, <1>3, <2>2 DEF Good, Picked, CopyInv, ValInv
  <2>4. AnswerInv(t, d) /\ MutationInv(d)
    BY <1>1, <1>3, <2>2 DEF Good, Picked, AnswerInv, MutationInv
  <2> QED BY <2>1, <2>3, <2>4 DEF Good
<1> QED BY <1>2, <1>4 DEF Takes

LEMMA BroadcastGood ==
  ASSUME TypeInv, CallerInv, NEW t \in Threads, Broadcast(t)
  PROVE  \E d : Takes(t, d)
<1> DEFINE c == th[t]
           d == [[c EXCEPT !.todo = Targets(t), !.sent = now] EXCEPT !.pc = "inval"]
<1>1. c.pc = "cast" BY DEF Broadcast
<1>2. th' = [th EXCEPT ![t] = d]
  BY DEF Broadcast, Goes, Only, Returns
<1>3. Good(t, c) BY DEF CallerInv
<1>4. now \in Nat BY ClockType
<1>5. Targets(t) \subseteq Nodes
  <2>1. Members(Node(t), view[Node(t)]) \subseteq Nodes BY Constants, OwnerType, OwnerIsLeast
  <2> QED BY <2>1 DEF Targets, ClientsOf
<1> HIDE DEF c
<1>6. Good(t, d)
  <2>1. d \in Caller
    BY <1>3, <1>4, <1>5, Constants
    DEF Good, Caller, Steps, Stages, Outcomes, MaybeVal, MaybeCopy
  <2>2. /\ d.pc = "inval" /\ d.op = c.op /\ d.val = c.val /\ d.att = c.att
        /\ d.own = c.own /\ d.ep = c.ep /\ d.call = c.call /\ d.res = c.res
        /\ d.copy = c.copy /\ d.applied = c.applied /\ d.stable = c.stable
    BY <1>3 DEF Good, Caller
  <2> HIDE DEF d
  <2>3. Picked(t, d) /\ CopyInv(d) /\ ValInv(d)
    BY <1>1, <1>3, <1>4, <1>5, <2>2 DEF Good, Picked, CopyInv, ValInv
  <2>4. AnswerInv(t, d) /\ MutationInv(d)
    BY <1>1, <1>3, <1>4, <1>5, <2>2 DEF Good, Picked, AnswerInv, MutationInv
  <2> QED BY <2>1, <2>3, <2>4 DEF Good
<1> QED BY <1>2, <1>6 DEF Takes

LEMMA LocalGood ==
  ASSUME TypeInv, CallerInv, NEW t \in Threads, Local(t)
  PROVE  \E d : Takes(t, d)
<1> DEFINE c == th[t]
           d == [c EXCEPT !.pc = "cast"]
<1>1. c.pc = "local" BY DEF Local
<1>2. th' = [th EXCEPT ![t] = d]
  BY DEF Local, Goes, Only, Returns
<1>3. Good(t, c) BY DEF CallerInv
<1> HIDE DEF c
<1>4. Good(t, d)
  <2>1. d \in Caller
    BY <1>3, Constants
    DEF Good, Caller, Steps, Stages, Outcomes, MaybeVal, MaybeCopy
  <2>2. /\ d.pc = "cast" /\ d.op = c.op /\ d.val = c.val /\ d.att = c.att
        /\ d.own = c.own /\ d.ep = c.ep /\ d.call = c.call /\ d.res = c.res
        /\ d.copy = c.copy /\ d.applied = c.applied /\ d.stable = c.stable
    BY <1>3 DEF Good, Caller
  <2> HIDE DEF d
  <2>3. Picked(t, d) /\ CopyInv(d) /\ ValInv(d)
    BY <1>1, <1>3, <2>2 DEF Good, Picked, CopyInv, ValInv
  <2>4. AnswerInv(t, d) /\ MutationInv(d)
    BY <1>1, <1>3, <2>2 DEF Good, Picked, AnswerInv, MutationInv
  <2> QED BY <2>1, <2>3, <2>4 DEF Good
<1> QED BY <1>2, <1>4 DEF Takes

LEMMA InvalidateGood ==
  ASSUME TypeInv, CallerInv, NEW t \in Threads, NEW p, Invalidate(t, p)
  PROVE  \E d : Takes(t, d)
<1> DEFINE c == th[t]
           d == [[c EXCEPT !.todo = c.todo \ {p}] EXCEPT !.pc = "inval"]
<1>1. c.pc = "inval" BY DEF Invalidate
<1>2. th' = [th EXCEPT ![t] = d]
  BY DEF Invalidate, Goes, Only, Returns
<1>3. Good(t, c) BY DEF CallerInv
<1> HIDE DEF c
<1>4. Good(t, d)
  <2>1. d \in Caller
    BY <1>3, Constants
    DEF Good, Caller, Steps, Stages, Outcomes, MaybeVal, MaybeCopy
  <2>2. /\ d.pc = "inval" /\ d.op = c.op /\ d.val = c.val /\ d.att = c.att
        /\ d.own = c.own /\ d.ep = c.ep /\ d.call = c.call /\ d.res = c.res
        /\ d.copy = c.copy /\ d.applied = c.applied /\ d.stable = c.stable
    BY <1>3 DEF Good, Caller
  <2> HIDE DEF d
  <2>3. Picked(t, d) /\ CopyInv(d) /\ ValInv(d)
    BY <1>1, <1>3, <2>2 DEF Good, Picked, CopyInv, ValInv
  <2>4. AnswerInv(t, d) /\ MutationInv(d)
    BY <1>1, <1>3, <2>2 DEF Good, Picked, AnswerInv, MutationInv
  <2> QED BY <2>1, <2>3, <2>4 DEF Good
<1> QED BY <1>2, <1>4 DEF Takes

LEMMA FinishGood ==
  ASSUME TypeInv, CallerInv, NEW t \in Threads, Finish(t)
  PROVE  \E d : Takes(t, d)
<1> DEFINE c == th[t]
           d == [c EXCEPT !.pc = "fill"]
           r == [[c EXCEPT !.res = "ok"] EXCEPT !.pc = "return"]
<1>1. c.pc = "inval" BY DEF Finish
<1>2. \/ th' = [th EXCEPT ![t] = d] /\ c.op = "set" /\ c.stable
      \/ th' = [th EXCEPT ![t] = r]
  BY DEF Finish, Goes, Only, Returns, Remote, Same
<1>3. Good(t, c) BY DEF CallerInv
<1> HIDE DEF c
<1>4. ASSUME c.op = "set" /\ c.stable PROVE Good(t, d)
  <2>1. d \in Caller
    BY <1>3, <1>4, Constants
    DEF Good, Caller, Steps, Stages, Outcomes, MaybeVal, MaybeCopy
  <2>2. /\ d.pc = "fill" /\ d.op = c.op /\ d.val = c.val /\ d.att = c.att
        /\ d.own = c.own /\ d.ep = c.ep /\ d.call = c.call /\ d.res = c.res
        /\ d.copy = c.copy /\ d.applied = c.applied /\ d.stable = c.stable
    BY <1>3 DEF Good, Caller
  <2> HIDE DEF d
  <2>3. Picked(t, d) /\ CopyInv(d) /\ ValInv(d)
    BY <1>1, <1>3, <1>4, <2>2 DEF Good, Picked, CopyInv, ValInv
  <2>4. AnswerInv(t, d) /\ MutationInv(d)
    BY <1>1, <1>3, <1>4, <2>2 DEF Good, Picked, AnswerInv, MutationInv
  <2> QED BY <2>1, <2>3, <2>4 DEF Good
<1>5. Good(t, r)
  <2>1. r \in Caller
    BY <1>3, Constants
    DEF Good, Caller, Steps, Stages, Outcomes, MaybeVal, MaybeCopy
  <2>2. /\ r.pc = "return" /\ r.op = c.op /\ r.val = c.val /\ r.att = c.att
        /\ r.own = c.own /\ r.ep = c.ep /\ r.call = c.call /\ r.res = "ok"
        /\ r.copy = c.copy /\ r.applied = c.applied /\ r.stable = c.stable
    BY <1>3 DEF Good, Caller
  <2> HIDE DEF r
  <2>3. Picked(t, r) /\ CopyInv(r) /\ ValInv(r)
    BY <1>1, <1>3, <2>2 DEF Good, Picked, CopyInv, ValInv
  <2>4. AnswerInv(t, r) /\ MutationInv(r)
    BY <1>1, <1>3, <2>2 DEF Good, Picked, AnswerInv, MutationInv
  <2> QED BY <2>1, <2>3, <2>4 DEF Good
<1> QED BY <1>2, <1>4, <1>5 DEF Takes

LEMMA FillGood ==
  ASSUME TypeInv, CallerInv, NEW t \in Threads, Fill(t)
  PROVE  \E d : Takes(t, d)
<1> DEFINE c == th[t]
           d == [[c EXCEPT !.res = c.res] EXCEPT !.pc = "return"]
<1>1. c.pc = "fill" BY DEF Fill
<1>2. th' = [th EXCEPT ![t] = d]
  BY DEF Fill, Goes, Only, Returns
<1>3. Good(t, c) BY DEF CallerInv
<1> HIDE DEF c
<1>4. Good(t, d)
  <2>1. d \in Caller
    BY <1>3, Constants
    DEF Good, Caller, Steps, Stages, Outcomes, MaybeVal, MaybeCopy
  <2>2. /\ d.pc = "return" /\ d.op = c.op /\ d.val = c.val /\ d.att = c.att
        /\ d.own = c.own /\ d.ep = c.ep /\ d.call = c.call /\ d.res = c.res
        /\ d.copy = c.copy /\ d.applied = c.applied /\ d.stable = c.stable
    BY <1>3 DEF Good, Caller
  <2> HIDE DEF d
  <2>3. Picked(t, d) /\ CopyInv(d) /\ ValInv(d)
    BY <1>1, <1>3, <2>2 DEF Good, Picked, CopyInv, ValInv
  <2>4. AnswerInv(t, d) /\ MutationInv(d)
    BY <1>1, <1>3, <2>2 DEF Good, Picked, AnswerInv, MutationInv
  <2> QED BY <2>1, <2>3, <2>4 DEF Good
<1> QED BY <1>2, <1>4 DEF Takes

LEMMA ReturnGood ==
  ASSUME NEW t \in Threads, Return(t)
  PROVE  \E d : Takes(t, d)
BY IdleGood DEF Return, Takes

LEMMA StartGood ==
  ASSUME TypeInv, CallerInv, NEW t \in Threads, NEW o \in Ops, Start(t, o)
  PROVE  \E d : Takes(t, d)
<1> DEFINE c == th[t]
           v == IF o = "set" THEN used + 1 ELSE None
           d == [[c EXCEPT !.op = o, !.val = v] EXCEPT !.pc = "pick"]
<1>1. c.pc = "idle" BY DEF Start
<1>2. th' = [th EXCEPT ![t] = d]
  BY DEF Start, Goes, Only, Returns
<1>3. Good(t, c) BY DEF CallerInv
<1>4. v \in MaybeVal /\ (o = "set" => v \in Vals) /\ (o = "del" => v = None)
  BY RoutingAssumption DEF Start, TypeInv, MaybeVal, Vals
<1> HIDE DEF c, v
<1>5. Good(t, d)
  <2>1. d \in Caller
    BY <1>3, <1>4, Constants
    DEF Good, Caller, Steps, Stages, Outcomes, MaybeVal, MaybeCopy
  <2>2. /\ d.pc = "pick" /\ d.op = o /\ d.val = v /\ d.att = c.att /\ d.own = c.own
        /\ d.ep = c.ep /\ d.call = c.call /\ d.res = c.res /\ d.copy = c.copy
        /\ d.applied = c.applied /\ d.stable = c.stable
    BY <1>3 DEF Good, Caller
  <2> HIDE DEF d
  <2>3. Picked(t, d) /\ CopyInv(d) /\ ValInv(d)
    BY <1>1, <1>3, <1>4, <2>2 DEF Good, Picked, CopyInv, ValInv
  <2>4. AnswerInv(t, d) /\ MutationInv(d)
    BY <1>1, <1>3, <1>4, <2>2 DEF Good, Picked, AnswerInv, MutationInv
  <2> QED BY <2>1, <2>3, <2>4 DEF Good
<1> QED BY <1>2, <1>5 DEF Takes

\* The next iteration of the loop, or the end of it.
LEMMA ContinueGood ==
  ASSUME NEW t \in Threads, Good(t, th[t]), th[t].pc \in {"call", "wait", "check"},
         Continue(t), th[t].op = "del" => th[t].att < Attempts - 1
  PROVE  \E d : Takes(t, d)
<1> DEFINE c == th[t]
           a == [[c EXCEPT !.att = c.att + 1] EXCEPT !.pc = "pick"]
           b == [[c EXCEPT !.res = "topology"] EXCEPT !.pc = "return"]
           l == [c EXCEPT !.pc = "local"]
<1>1. c.pc \in {"call", "wait", "check"} OBVIOUS
<1>2. \/ th' = [th EXCEPT ![t] = a] /\ c.att + 1 < Attempts
      \/ th' = [th EXCEPT ![t] = b] /\ c.op = "get"
      \/ th' = [th EXCEPT ![t] = l] /\ c.op = "set"
  <2>1. c.op \in Ops /\ c.att \in 0..Attempts - 1 BY DEF Good, Caller
  <2> QED BY <2>1, Constants DEF Continue, NextAttempt, Goes, Only, Returns, Ops
<1>3. Good(t, c) OBVIOUS
<1>4. c.att + 1 < Attempts => c.att + 1 \in 0..Attempts - 1
  BY <1>3, Constants DEF Good, Caller
<1> HIDE DEF c
<1>5. ASSUME c.att + 1 < Attempts PROVE Good(t, a)
  <2>1. a \in Caller
    BY <1>3, <1>4, <1>5, Constants
    DEF Good, Caller, Steps, Stages, Outcomes, MaybeVal, MaybeCopy
  <2>2. /\ a.pc = "pick" /\ a.op = c.op /\ a.val = c.val /\ a.att = c.att + 1
        /\ a.own = c.own /\ a.ep = c.ep /\ a.call = c.call /\ a.res = c.res
        /\ a.copy = c.copy /\ a.applied = c.applied /\ a.stable = c.stable
    BY <1>3 DEF Good, Caller
  <2> HIDE DEF a
  <2>3. Picked(t, a) /\ CopyInv(a) /\ ValInv(a)
    BY <1>1, <1>3, <1>4, <1>5, <2>2 DEF Good, Picked, CopyInv, ValInv
  <2>4. AnswerInv(t, a) /\ MutationInv(a)
    BY <1>1, <1>3, <1>4, <1>5, <2>2 DEF Good, Picked, AnswerInv, MutationInv
  <2> QED BY <2>1, <2>3, <2>4 DEF Good
<1>6. ASSUME c.op = "get" PROVE Good(t, b)
  <2>1. b \in Caller BY <1>3 DEF Good, Caller, Steps, Outcomes
  <2>2. /\ b.pc = "return" /\ b.op = c.op /\ b.val = c.val /\ b.att = c.att
        /\ b.own = c.own /\ b.ep = c.ep /\ b.call = c.call /\ b.res = "topology"
        /\ b.copy = c.copy /\ b.applied = c.applied /\ b.stable = c.stable
    BY <1>3 DEF Good, Caller
  <2> HIDE DEF b
  <2>3. Picked(t, b) /\ CopyInv(b) /\ ValInv(b)
    BY <1>1, <1>3, <1>4, <1>6, <2>2 DEF Good, Picked, CopyInv, ValInv
  <2>4. AnswerInv(t, b) /\ MutationInv(b)
    BY <1>1, <1>3, <1>4, <1>6, <2>2 DEF Good, Picked, AnswerInv, MutationInv
  <2> QED BY <2>1, <2>3, <2>4 DEF Good
<1>7. ASSUME c.op = "set" PROVE Good(t, l)
  <2>1. l \in Caller
    BY <1>3, <1>4, <1>7, Constants
    DEF Good, Caller, Steps, Stages, Outcomes, MaybeVal, MaybeCopy
  <2>2. /\ l.pc = "local" /\ l.op = c.op /\ l.val = c.val /\ l.att = c.att
        /\ l.own = c.own /\ l.ep = c.ep /\ l.call = c.call /\ l.res = c.res
        /\ l.copy = c.copy /\ l.applied = c.applied /\ l.stable = c.stable
    BY <1>3 DEF Good, Caller
  <2> HIDE DEF l
  <2>3. Picked(t, l) /\ CopyInv(l) /\ ValInv(l)
    BY <1>1, <1>3, <1>4, <1>7, <2>2 DEF Good, Picked, CopyInv, ValInv
  <2>4. AnswerInv(t, l) /\ MutationInv(l)
    BY <1>1, <1>3, <1>4, <1>7, <2>2 DEF Good, Picked, AnswerInv, MutationInv
  <2> QED BY <2>1, <2>3, <2>4 DEF Good
<1> QED BY <1>2, <1>5, <1>6, <1>7 DEF Takes

LEMMA WaitGood ==
  ASSUME TypeInv, CallerInv, NEW t \in Threads, Wait(t)
  PROVE  \E d : Takes(t, d)
<1> DEFINE c == th[t]
           f == [[c EXCEPT !.res = "fail"] EXCEPT !.pc = "return"]
<1>1. c.pc = "wait" BY DEF Wait
<1>2. Continue(t) \/ th' = [th EXCEPT ![t] = f]
  BY DEF Wait, Goes, Only, Returns
<1>3. Good(t, c) BY DEF CallerInv
<1>4. Continue(t) => \E d : Takes(t, d)
  BY <1>1, <1>3, ContinueGood DEF Good, AnswerInv
<1> HIDE DEF c
<1>5. Good(t, f)
  <2>1. f \in Caller
    BY <1>3, Constants
    DEF Good, Caller, Steps, Stages, Outcomes, MaybeVal, MaybeCopy
  <2>2. /\ f.pc = "return" /\ f.op = c.op /\ f.val = c.val /\ f.att = c.att
        /\ f.own = c.own /\ f.ep = c.ep /\ f.call = c.call /\ f.res = "fail"
        /\ f.copy = c.copy /\ f.applied = c.applied /\ f.stable = c.stable
    BY <1>3 DEF Good, Caller
  <2> HIDE DEF f
  <2>3. Picked(t, f) /\ CopyInv(f) /\ ValInv(f)
    BY <1>1, <1>3, <2>2 DEF Good, Picked, CopyInv, ValInv
  <2>4. AnswerInv(t, f) /\ MutationInv(f)
    BY <1>1, <1>3, <2>2 DEF Good, Picked, AnswerInv, MutationInv
  <2> QED BY <2>1, <2>3, <2>4 DEF Good
<1> QED BY <1>2, <1>4, <1>5 DEF Takes

LEMMA CheckGood ==
  ASSUME TypeInv, CallerInv, NEW t \in Threads, Check(t)
  PROVE  \E d : Takes(t, d)
<1> DEFINE c == th[t]
           l == IF c.op # "get" THEN "local" ELSE IF Near THEN "fill" ELSE "return"
           d == [[c EXCEPT !.stable = TRUE] EXCEPT !.pc = l]
           r == [[c EXCEPT !.res = "topology"] EXCEPT !.pc = "return"]
<1>1. c.pc = "check" BY DEF Check
<1>2. \/ th' = [th EXCEPT ![t] = d]
      \/ th' = [th EXCEPT ![t] = r]
      \/ Continue(t) /\ (c.op = "get" \/ c.att # Attempts - 1)
  BY DEF Check, LastAttempt, Goes, Only, Returns
<1>3. Good(t, c) BY DEF CallerInv
<1>4. l \in {"local", "fill", "return"} /\ (l = "local" <=> c.op # "get") OBVIOUS
<1>5. Continue(t) /\ (c.op = "get" \/ c.att # Attempts - 1) => \E x : Takes(t, x)
  <2>1. c.att \in 0..Attempts - 1 BY <1>3 DEF Good, Caller
  <2> QED BY <1>1, <1>3, <2>1, Constants, ContinueGood
<1> HIDE DEF c, l
<1>6. Good(t, d)
  <2>1. d \in Caller
    BY <1>3, <1>4, Constants
    DEF Good, Caller, Steps, Stages, Outcomes, MaybeVal, MaybeCopy
  <2>2. /\ d.pc = l /\ d.op = c.op /\ d.val = c.val /\ d.att = c.att /\ d.own = c.own
        /\ d.ep = c.ep /\ d.call = c.call /\ d.res = c.res /\ d.copy = c.copy
        /\ d.applied = c.applied /\ d.stable = TRUE
    BY <1>3 DEF Good, Caller
  <2> HIDE DEF d
  <2>3. Picked(t, d) /\ CopyInv(d) /\ ValInv(d)
    BY <1>1, <1>3, <1>4, <2>2 DEF Good, Picked, CopyInv, ValInv
  <2>4. AnswerInv(t, d) /\ MutationInv(d)
    BY <1>1, <1>3, <1>4, <2>2 DEF Good, Picked, AnswerInv, MutationInv
  <2> QED BY <2>1, <2>3, <2>4 DEF Good
<1>7. Good(t, r)
  <2>1. r \in Caller
    BY <1>3, <1>4, Constants
    DEF Good, Caller, Steps, Stages, Outcomes, MaybeVal, MaybeCopy
  <2>2. /\ r.pc = "return" /\ r.op = c.op /\ r.val = c.val /\ r.att = c.att
        /\ r.own = c.own /\ r.ep = c.ep /\ r.call = c.call /\ r.res = "topology"
        /\ r.copy = c.copy /\ r.applied = c.applied /\ r.stable = c.stable
    BY <1>3 DEF Good, Caller
  <2> HIDE DEF r
  <2>3. Picked(t, r) /\ CopyInv(r) /\ ValInv(r)
    BY <1>1, <1>3, <1>4, <2>2 DEF Good, Picked, CopyInv, ValInv
  <2>4. AnswerInv(t, r) /\ MutationInv(r)
    BY <1>1, <1>3, <1>4, <2>2 DEF Good, Picked, AnswerInv, MutationInv
  <2> QED BY <2>1, <2>3, <2>4 DEF Good
<1> QED BY <1>2, <1>5, <1>6, <1>7 DEF Takes

LEMMA ReplyGood ==
  ASSUME TypeInv, CallerInv, NEW t \in Threads, Reply(t)
  PROVE  \E d : Takes(t, d)
<1> DEFINE c == th[t]
           r == [[c EXCEPT !.res = "topology"] EXCEPT !.pc = "return"]
           w == [c EXCEPT !.pc = "wait"]
           g == [c EXCEPT !.pc = "return"]
           k == [c EXCEPT !.pc = "check"]
<1>1. c.pc = "call" BY DEF Reply
<1>2. \/ th' = [th EXCEPT ![t] = r]
      \/ th' = [th EXCEPT ![t] = w] /\ c.att # Attempts - 1 /\ c.own # Node(t)
      \/ th' = [th EXCEPT ![t] = g] /\ (c.op = "get" \/ c.res \in {"miss", "fail"})
      \/ th' = [th EXCEPT ![t] = k] /\ c.res \notin {"topology", "miss", "fail"}
      \/ Continue(t) /\ c.own = Node(t) /\ c.res = "topology"
  BY DEF Reply, Goes, Only, Returns, Remote, LastAttempt
<1>3. Good(t, c) BY DEF CallerInv
<1>4. c.call = "replied" BY DEF Reply
<1>5. Continue(t) /\ c.own = Node(t) /\ c.res = "topology" => \E x : Takes(t, x)
  <2>1. c.op = "del" /\ c.own = Node(t) => c.res = "ok" BY <1>1, <1>3, <1>4 DEF Good, AnswerInv
  <2> QED BY <1>1, <1>3, <2>1, ContinueGood
<1>6. c.att # Attempts - 1 => c.att < Attempts - 1 BY <1>3, Constants DEF Good, Caller
<1> HIDE DEF c
<1>7. Good(t, r)
  <2>1. r \in Caller
    BY <1>3, <1>4, <1>6, Constants
    DEF Good, Caller, Steps, Stages, Outcomes, MaybeVal, MaybeCopy
  <2>2. /\ r.pc = "return" /\ r.op = c.op /\ r.val = c.val /\ r.att = c.att
        /\ r.own = c.own /\ r.ep = c.ep /\ r.call = c.call /\ r.res = "topology"
        /\ r.copy = c.copy /\ r.applied = c.applied /\ r.stable = c.stable
    BY <1>3 DEF Good, Caller
  <2> HIDE DEF r
  <2>3. Picked(t, r) /\ CopyInv(r) /\ ValInv(r)
    BY <1>1, <1>3, <1>4, <1>6, <2>2 DEF Good, Picked, CopyInv, ValInv
  <2>4. AnswerInv(t, r) /\ MutationInv(r)
    BY <1>1, <1>3, <1>4, <1>6, <2>2 DEF Good, Picked, AnswerInv, MutationInv
  <2> QED BY <2>1, <2>3, <2>4 DEF Good
<1>8. ASSUME c.att # Attempts - 1 /\ c.own # Node(t) PROVE Good(t, w)
  <2>1. w \in Caller
    BY <1>3, <1>4, <1>6, <1>8, Constants
    DEF Good, Caller, Steps, Stages, Outcomes, MaybeVal, MaybeCopy
  <2>2. /\ w.pc = "wait" /\ w.op = c.op /\ w.val = c.val /\ w.att = c.att
        /\ w.own = c.own /\ w.ep = c.ep /\ w.call = c.call /\ w.res = c.res
        /\ w.copy = c.copy /\ w.applied = c.applied /\ w.stable = c.stable
    BY <1>3 DEF Good, Caller
  <2> HIDE DEF w
  <2>3. Picked(t, w) /\ CopyInv(w) /\ ValInv(w)
    BY <1>1, <1>3, <1>4, <1>6, <1>8, <2>2 DEF Good, Picked, CopyInv, ValInv
  <2>4. AnswerInv(t, w) /\ MutationInv(w)
    BY <1>1, <1>3, <1>4, <1>6, <1>8, <2>2 DEF Good, Picked, AnswerInv, MutationInv
  <2> QED BY <2>1, <2>3, <2>4 DEF Good
<1>9. ASSUME c.op = "get" \/ c.res \in {"miss", "fail"} PROVE Good(t, g)
  <2>1. g \in Caller
    BY <1>3, <1>4, <1>6, <1>9, Constants
    DEF Good, Caller, Steps, Stages, Outcomes, MaybeVal, MaybeCopy
  <2>2. /\ g.pc = "return" /\ g.op = c.op /\ g.val = c.val /\ g.att = c.att
        /\ g.own = c.own /\ g.ep = c.ep /\ g.call = c.call /\ g.res = c.res
        /\ g.copy = c.copy /\ g.applied = c.applied /\ g.stable = c.stable
    BY <1>3 DEF Good, Caller
  <2> HIDE DEF g
  <2>3. Picked(t, g) /\ CopyInv(g) /\ ValInv(g)
    BY <1>1, <1>3, <1>4, <1>6, <1>9, <2>2 DEF Good, Picked, CopyInv, ValInv
  <2>4. AnswerInv(t, g) /\ MutationInv(g)
    BY <1>1, <1>3, <1>4, <1>6, <1>9, <2>2 DEF Good, Picked, AnswerInv, MutationInv
  <2> QED BY <2>1, <2>3, <2>4 DEF Good
<1>10. ASSUME c.res \notin {"topology", "miss", "fail"} PROVE Good(t, k)
  <2>1. k \in Caller
    BY <1>3, <1>4, <1>6, <1>10, Constants
    DEF Good, Caller, Steps, Stages, Outcomes, MaybeVal, MaybeCopy
  <2>2. /\ k.pc = "check" /\ k.op = c.op /\ k.val = c.val /\ k.att = c.att
        /\ k.own = c.own /\ k.ep = c.ep /\ k.call = c.call /\ k.res = c.res
        /\ k.copy = c.copy /\ k.applied = c.applied /\ k.stable = c.stable
    BY <1>3 DEF Good, Caller
  <2> HIDE DEF k
  <2>3. Picked(t, k) /\ CopyInv(k) /\ ValInv(k)
    BY <1>1, <1>3, <1>4, <1>6, <1>10, <2>2 DEF Good, Picked, CopyInv, ValInv
  <2>4. AnswerInv(t, k) /\ MutationInv(k)
    BY <1>1, <1>3, <1>4, <1>6, <1>10, <2>2 DEF Good, Picked, AnswerInv, MutationInv
  <2> QED BY <2>1, <2>3, <2>4 DEF Good
<1> QED BY <1>2, <1>5, <1>7, <1>8, <1>9, <1>10 DEF Takes

LEMMA ActGood ==
  ASSUME TypeInv, CallerInv, NEW t \in Threads, Act(t)
  PROVE  \E d : Takes(t, d)
<1> DEFINE c == th[t]
           answer(r, v) == [[c EXCEPT !.call = "replied", !.res = r, !.val = v,
                                      !.applied = c.own, !.seen = view[Node(t)]]
                            EXCEPT !.pc = "call"]
<1>0. view[Node(t)] \in 0..MaxTopo BY Constants, OwnerType
<1>1. c.pc = "call" /\ c.call = "admitted" BY DEF Act
<1>2. \/ c.op # "get" /\ th' = [th EXCEPT ![t] = answer("ok", c.val)]
      \/ c.op = "get" /\ main[c.own] # None
           /\ th' = [th EXCEPT ![t] = answer("value", main[c.own])]
      \/ c.op = "get" /\ \E l \in Loads : th' = [th EXCEPT ![t] = answer(l.res, l.val)]
  BY DEF Act, Goes
<1>3. Good(t, c) BY DEF CallerInv
<1>4. c.own \in Nodes /\ c.own \in 0..N BY <1>1, <1>3, Constants DEF Good, Picked
<1>5. main[c.own] \in MaybeVal BY <1>4 DEF TypeInv
<1>6. \A l \in Loads : \/ l.res = "value" /\ l.val \in Vals
                       \/ l.res \in {"miss", "topology", "fail"} /\ l.val = None
  BY DEF Loads
<1> HIDE DEF c
<1>7. ASSUME c.op # "get" PROVE Good(t, answer("ok", c.val))
  <2> DEFINE d == answer("ok", c.val)
  <2>1. d \in Caller
    BY <1>0, <1>3, <1>4, <1>7 DEF Good, Caller, Steps, Stages, Outcomes, MaybeVal
  <2>2. /\ d.pc = "call" /\ d.op = c.op /\ d.val = c.val /\ d.att = c.att
        /\ d.own = c.own /\ d.ep = c.ep /\ d.call = "replied" /\ d.res = "ok"
        /\ d.copy = c.copy /\ d.applied = c.own /\ d.stable = c.stable
    BY <1>3 DEF Good, Caller
  <2> HIDE DEF d
  <2>3. Picked(t, d) /\ CopyInv(d) /\ ValInv(d)
    BY <1>1, <1>3, <1>4, <1>7, <2>2 DEF Good, Picked, CopyInv, ValInv
  <2>4. AnswerInv(t, d) /\ MutationInv(d)
    BY <1>1, <1>3, <1>4, <1>7, <2>2 DEF Good, Picked, AnswerInv, MutationInv
  <2> QED BY <2>1, <2>3, <2>4 DEF Good, d
<1>8. ASSUME c.op = "get", NEW r, NEW v,
             \/ r = "value" /\ v \in Vals
             \/ r \in {"miss", "topology", "fail"} /\ v = None
      PROVE  Good(t, answer(r, v))
  <2> DEFINE d == answer(r, v)
  <2>1. d \in Caller
    BY <1>0, <1>3, <1>4, <1>8 DEF Good, Caller, Steps, Stages, Outcomes, MaybeVal
  <2>2. /\ d.pc = "call" /\ d.op = c.op /\ d.val = v /\ d.att = c.att
        /\ d.own = c.own /\ d.ep = c.ep /\ d.call = "replied" /\ d.res = r
        /\ d.copy = c.copy /\ d.applied = c.own /\ d.stable = c.stable
    BY <1>3 DEF Good, Caller
  <2> HIDE DEF d
  <2>3. Picked(t, d) /\ CopyInv(d) /\ ValInv(d)
    BY <1>1, <1>3, <1>4, <1>8, <2>2 DEF Good, Picked, CopyInv, ValInv
  <2>4. AnswerInv(t, d) /\ MutationInv(d)
    BY <1>1, <1>3, <1>4, <1>8, <2>2 DEF Good, Picked, AnswerInv, MutationInv
  <2> QED BY <2>1, <2>3, <2>4 DEF Good, d
<1> HIDE DEF answer
<1> QED BY <1>2, <1>5, <1>6, <1>7, <1>8 DEF Takes, MaybeVal

\* The step of a caller, whatever it is.
LEMMA CallerStep ==
  ASSUME TypeInv, CallerInv, NearInv, NEW t \in Threads,
         Advance(t) \/ \E o \in Calls[t] : Start(t, o)
  PROVE  \E d : Takes(t, d)
<1>1. Calls[t] \subseteq Ops BY RoutingAssumption
<1>2. ASSUME NEW o \in Calls[t], Start(t, o) PROVE \E d : Takes(t, d)
  BY <1>1, <1>2, StartGood
<1>3. ASSUME Pick(t) \/ ProbeNear(t) \/ CheckHit(t) \/ Send(t) \/ Admit(t) \/ Act(t)
      PROVE  \E d : Takes(t, d)
  BY <1>3, PickGood, ProbeGood, HitGood, SendGood, AdmitGood, ActGood
<1>4. ASSUME CallFails(t) \/ Reply(t) \/ Wait(t) \/ Check(t) \/ Local(t) \/ Broadcast(t)
      PROVE  \E d : Takes(t, d)
  BY <1>4, FailGood, ReplyGood, WaitGood, CheckGood, LocalGood, BroadcastGood
<1>5. ASSUME (\E p \in Nodes : Invalidate(t, p)) \/ Finish(t) \/ Fill(t) \/ Return(t)
      PROVE  \E d : Takes(t, d)
  BY <1>5, InvalidateGood, FinishGood, FillGood, ReturnGood
<1> QED BY <1>2, <1>3, <1>4, <1>5 DEF Advance

-----------------------------------------------------------------------------
(* Caches and the clock *)

\* What most steps do to the caches: copies only disappear, and a value stops being the
\* content of a node at the time of the step.
Frame ==
  /\ UNCHANGED topo
  /\ main' \in [Nodes -> MaybeVal] /\ content' \in [Nodes -> MaybeVal]
  /\ near' \in [Nodes -> [Epochs -> MaybeCopy]]
  /\ until' \in [Nodes -> [Vals -> 0..Never]]
  /\ \A n \in Nodes, e \in Epochs : near'[n][e] \in {near[n][e], None}
  /\ \A n \in Nodes, v \in Vals : until'[n][v] \in {until[n][v], Never, now}

LEMMA NothingMoves ==
  ASSUME TypeInv, UNCHANGED topo, UNCHANGED caches PROVE Frame
<1>1. UNCHANGED <<main, near, content, until>> BY DEF caches
<1> QED BY <1>1 DEF TypeInv, Frame

LEMMA Forgets ==
  ASSUME TypeInv, NEW n \in Nodes, NEW e \in Epochs,
         near' = [near EXCEPT ![n][e] = None]
  PROVE  /\ near' \in [Nodes -> [Epochs -> MaybeCopy]]
         /\ \A m \in Nodes, f \in Epochs : near'[m][f] \in {near[m][f], None}
<1>1. near \in [Nodes -> [Epochs -> MaybeCopy]] BY DEF TypeInv
<1>2. None \in MaybeCopy BY DEF MaybeCopy
<1> QED BY <1>1, <1>2

LEMMA MutateMoves ==
  ASSUME TypeInv, UNCHANGED topo, NEW o \in Nodes, NEW v \in MaybeVal, Mutate(o, v)
  PROVE  Frame
<1>1. main' \in [Nodes -> MaybeVal] BY DEF Mutate, TypeInv
<1>2. content' \in [Nodes -> MaybeVal] BY DEF Mutate, TypeInv
<1>3. /\ until' \in [Nodes -> [Vals -> 0..Never]]
      /\ \A n \in Nodes, w \in Vals : until'[n][w] \in {until[n][w], Never, now}
  <2>1. until \in [Nodes -> [Vals -> 0..Never]] /\ now \in 0..Never /\ Never \in 0..Never
    BY RoutingAssumption DEF TypeInv, Never
  <2>2. CASE UNCHANGED until BY <2>1, <2>2
  <2> DEFINE g == [w \in Vals |-> IF w = v THEN Never
                                  ELSE IF w = content[o] THEN now ELSE until[o][w]]
  <2>3. CASE until' = [until EXCEPT ![o] = g]
    <3>1. g \in [Vals -> 0..Never] BY <2>1
    <3>2. \A w \in Vals : g[w] \in {until[o][w], Never, now} OBVIOUS
    <3> HIDE DEF g
    <3> QED BY <2>1, <2>3, <3>1, <3>2
  <2> QED BY <2>2, <2>3 DEF Mutate
<1>4. view[o] \in Epochs BY DEF TypeInv
<1>5. near' = [near EXCEPT ![o][view[o]] = None] BY DEF Mutate, NearKey
<1>6. /\ near' \in [Nodes -> [Epochs -> MaybeCopy]]
      /\ \A n \in Nodes, e \in Epochs : near'[n][e] \in {near[n][e], None}
  BY <1>4, <1>5, Forgets
<1> QED BY <1>1, <1>2, <1>3, <1>6 DEF Frame

LEMMA AdoptMoves ==
  ASSUME TypeInv, UNCHANGED <<topo, near, content, until>>, NEW o \in Nodes,
         Adopt(o) \/ UNCHANGED main
  PROVE  Frame
<1>1. main' \in [Nodes -> MaybeVal] BY DEF Adopt, TypeInv, MaybeVal
<1> QED BY <1>1 DEF TypeInv, Frame

\* Every step of a caller but Fill leaves that much.
LEMMA CallerFrame ==
  ASSUME TypeInv, CallerInv, NEW t \in Threads, Advance(t) \/ \E o \in Ops : Start(t, o),
         ~Fill(t)
  PROVE  Frame
<1>1. Node(t) \in Nodes /\ view[Node(t)] \in Epochs BY Constants, OwnerType
<1>2. Good(t, th[t]) BY DEF CallerInv
<1>3. th[t] \in Caller /\ Picked(t, th[t]) BY <1>2 DEF Good
<1>4. CASE \/ UNCHANGED topo /\ UNCHANGED caches
  BY <1>4, NothingMoves
<1>5. CASE CheckHit(t)
  <2>1. th[t].ep \in Epochs BY <1>3, <1>5 DEF CheckHit, Picked
  <2>2. UNCHANGED <<topo, main, content, until>> BY <1>5 DEF CheckHit, cluster
  <2>3. CASE UNCHANGED near BY <2>2, <2>3, NothingMoves DEF caches
  <2>4. CASE near' = [near EXCEPT ![Node(t)][th[t].ep] = None]
    BY <1>1, <2>1, <2>2, <2>4, Forgets DEF Frame, TypeInv
  <2> QED BY <1>5, <2>3, <2>4 DEF CheckHit, NearKey
<1>6. CASE Admit(t)
  <2>1. th[t].own \in Nodes BY <1>3, <1>6 DEF Admit, Picked
  <2>2. UNCHANGED <<topo, near, content, until>> BY <1>6 DEF Admit, cluster
  <2> QED BY <1>6, <2>1, <2>2, AdoptMoves DEF Admit
<1>7. CASE Act(t)
  <2>1. th[t].own \in Nodes /\ th[t].val \in MaybeVal
    BY <1>3, <1>7 DEF Act, Picked, Caller
  <2>2. UNCHANGED topo BY <1>7 DEF Act, cluster
  <2>3. CASE Mutate(th[t].own, th[t].val) BY <2>1, <2>2, <2>3, MutateMoves
  <2>4. CASE UNCHANGED caches BY <2>2, <2>4, NothingMoves
  <2>5. ASSUME NEW l \in Loads, main' = [main EXCEPT ![th[t].own] = l.main],
               UNCHANGED <<near, content, until>>
        PROVE  Frame
    <3>1. l.main \in MaybeVal BY DEF Loads, MaybeVal
    <3>2. main' \in [Nodes -> MaybeVal] BY <2>5, <3>1 DEF TypeInv
    <3> QED BY <2>2, <2>5, <3>2 DEF TypeInv, Frame
  <2> QED BY <1>7, <2>3, <2>4, <2>5 DEF Act
<1>8. CASE Local(t)
  <2>1. UNCHANGED <<topo, content, until>> BY <1>8 DEF Local, cluster
  <2>2. main' \in [Nodes -> MaybeVal] BY <1>8 DEF Local, TypeInv, MaybeVal
  <2>3. near' = [near EXCEPT ![Node(t)][view[Node(t)]] = None] BY <1>8 DEF Local, NearKey
  <2> QED BY <1>1, <2>1, <2>2, <2>3, Forgets DEF Frame, TypeInv
<1>9. ASSUME NEW p \in Nodes, Invalidate(t, p) PROVE Frame
  <2>1. UNCHANGED topo /\ None \in MaybeVal BY <1>9 DEF Invalidate, cluster, MaybeVal
  <2> QED BY <1>9, <2>1, MutateMoves, NothingMoves DEF Invalidate
<1>10. ASSUME Pick(t) \/ ProbeNear(t) \/ Send(t) \/ CallFails(t) \/ Reply(t) \/ Wait(t)
             \/ Check(t) \/ Broadcast(t) \/ Finish(t) \/ Return(t)
             \/ \E o \in Ops : Start(t, o)
       PROVE  UNCHANGED topo /\ UNCHANGED caches
  BY <1>10 DEF Pick, ProbeNear, Send, CallFails, Reply, Wait, Check, Broadcast, Finish,
     Return, Start, cluster
<1> QED BY <1>4, <1>5, <1>6, <1>7, <1>8, <1>9, <1>10 DEF Advance

\* What a step of the surroundings does.
LEMMA OthersFrame ==
  ASSUME TypeInv, CallerInv,
         \/ \E h \in orphans : AdmitOrphan(h) \/ ActOrphan(h)
         \/ \E n \in Nodes, e \in Epochs : ViewMoves(n, e)
         \/ \E t \in Threads : ClosePicker(Node(t))
         \/ \E n \in Nodes : Evict(n)
         \/ Tick
         \/ UNCHANGED vars
  PROVE  Frame /\ UNCHANGED th /\ UNCHANGED used
<1>1. ASSUME NEW h \in orphans, AdmitOrphan(h) PROVE Frame /\ UNCHANGED th /\ UNCHANGED used
  <2>1. h.node \in Nodes BY DEF TypeInv, Handler
  <2>2. UNCHANGED <<topo, near, content, until, th, used>> BY <1>1 DEF AdmitOrphan, cluster
  <2>3. Adopt(h.node) \/ UNCHANGED main BY <1>1 DEF AdmitOrphan
  <2> QED BY <2>1, <2>2, <2>3, AdoptMoves
<1>2. ASSUME NEW h \in orphans, ActOrphan(h) PROVE Frame /\ UNCHANGED th /\ UNCHANGED used
  <2>1. h.node \in Nodes /\ h.val \in MaybeVal BY DEF TypeInv, Handler
  <2>2. UNCHANGED <<topo, th, used>> /\ Mutate(h.node, h.val) BY <1>2 DEF ActOrphan, cluster
  <2> QED BY <2>1, <2>2, MutateMoves
<1>3. ASSUME NEW n \in Nodes, Evict(n) PROVE Frame /\ UNCHANGED th /\ UNCHANGED used
  <2>1. UNCHANGED <<topo, content, until, th, used>> BY <1>3 DEF Evict, cluster
  <2>2. CASE main' = [main EXCEPT ![n] = None] /\ UNCHANGED near
    BY <2>1, <2>2 DEF Frame, TypeInv, MaybeVal
  <2>3. CASE (\E e \in Epochs : near' = [near EXCEPT ![n][e] = None]) /\ UNCHANGED main
    BY <2>1, <2>3, Forgets DEF Frame, TypeInv
  <2> QED BY <1>3, <2>2, <2>3 DEF Evict
<1>4. ASSUME \/ \E n \in Nodes, e \in Epochs : ViewMoves(n, e)
             \/ \E t \in Threads : ClosePicker(Node(t))
             \/ Tick
             \/ UNCHANGED vars
      PROVE  UNCHANGED topo /\ UNCHANGED caches /\ UNCHANGED th /\ UNCHANGED used
  BY <1>4 DEF ViewMoves, ClosePicker, Tick, cluster, vars, caches
<1> QED BY <1>1, <1>2, <1>3, <1>4, NothingMoves

\* A copy is kept under the epoch of the call, in which its node owned the key.
LEMMA FillMoves ==
  ASSUME TypeInv, CallerInv, NEW t \in Threads, Fill(t)
  PROVE  LET x == [val |-> th[t].val, from |-> th[t].own, epoch |-> th[t].ep,
                   dead |-> Deadline]
         IN /\ x \in Copy /\ x.from = OwnerAt(Node(t), x.epoch)
            /\ near' \in [Nodes -> [Epochs -> MaybeCopy]]
            /\ \A n \in Nodes, e \in Epochs :
                 near'[n][e] = IF n = Node(t) /\ e = x.epoch THEN x ELSE near[n][e]
<1> DEFINE x == [val |-> th[t].val, from |-> th[t].own, epoch |-> th[t].ep,
                 dead |-> Deadline]
<1>1. Good(t, th[t]) /\ th[t].pc = "fill" BY DEF CallerInv, Fill
<1>2. th[t].own \in Nodes /\ th[t].ep \in Epochs /\ th[t].own = OwnerAt(Node(t), th[t].ep)
  BY <1>1 DEF Good, Picked
<1>3. th[t].val \in Vals
  BY <1>1 DEF Good, ValInv, MutationInv, Caller, Ops
<1>4. Deadline \in Nat BY ClockType
<1>5. x \in Copy /\ x.from = OwnerAt(Node(t), x.epoch) /\ x.epoch = th[t].ep
  BY <1>2, <1>3, <1>4 DEF Copy
<1>6. near' = [near EXCEPT ![Node(t)][th[t].ep] = x] BY DEF Fill, NearKey
<1>7. Node(t) \in Nodes BY Constants
<1> HIDE DEF x
<1>8. near \in [Nodes -> [Epochs -> MaybeCopy]] /\ x \in MaybeCopy
  BY <1>5 DEF TypeInv, MaybeCopy
<1>9. /\ near' \in [Nodes -> [Epochs -> MaybeCopy]]
      /\ \A n \in Nodes, e \in Epochs :
           near'[n][e] = IF n = Node(t) /\ e = x.epoch THEN x ELSE near[n][e]
  BY <1>2, <1>5, <1>6, <1>7, <1>8
<1> QED BY <1>5, <1>9 DEF x

\* Good says nothing of the state but the memberships.
LEMMA CallersKept ==
  ASSUME UNCHANGED topo, \A t \in Threads : Good(t, th'[t]) PROVE CallerInv'
<1>1. \A n, e : OwnerAt(n, e)' = OwnerAt(n, e) BY DEF OwnerAt, Members
<1> SUFFICES ASSUME NEW t \in Threads PROVE Good(t, th[t])' BY DEF CallerInv
<1>3. Good(t, th'[t]) OBVIOUS
<1>4. Picked(t, th[t])' BY <1>1, <1>3 DEF Good, Picked, Node
<1>5. CopyInv(th[t])' /\ ValInv(th[t])' BY <1>3 DEF Good, CopyInv, ValInv
<1>6. AnswerInv(t, th[t])' BY <1>3 DEF Good, AnswerInv, Node
<1>7. MutationInv(th[t])' BY <1>3 DEF Good, MutationInv
<1> QED BY <1>3, <1>4, <1>5, <1>6, <1>7 DEF Good

LEMMA NearKept ==
  ASSUME TypeInv, NearInv, Frame PROVE NearInv'
<1>1. \A n, e : OwnerAt(n, e)' = OwnerAt(n, e) BY DEF Frame, OwnerAt, Members
<1> SUFFICES ASSUME NEW n \in Nodes, NEW e \in Epochs, near'[n][e] # None
             PROVE  near'[n][e].epoch = e /\ near'[n][e].from = OwnerAt(n, e)'
  BY DEF NearInv
<1>2. near'[n][e] = near[n][e] BY DEF Frame
<1>3. near[n][e].epoch = e /\ near[n][e].from = OwnerAt(n, e) BY <1>2 DEF NearInv
<1> QED BY <1>1, <1>2, <1>3

RoutingInv == TypeInv /\ CallerInv /\ NearInv

LEMMA InitInv == Init => RoutingInv
<1> SUFFICES ASSUME Init PROVE RoutingInv OBVIOUS
<1>1. \A t \in Threads : Good(t, th[t]) /\ th[t] \in Caller
  <2>1. \A t \in Threads : th[t] = Idle BY DEF Init
  <2>2. \A t : Good(t, Idle) BY IdleGood
  <2>3. Idle \in Caller BY <2>2 DEF Good
  <2> QED BY <2>1, <2>2, <2>3
<1>2. view \in [Nodes -> Epochs] BY RoutingAssumption DEF Init, Epochs
<1>3. Never \in 0..Never /\ now \in 0..MaxTime /\ used \in 0..MaxVal
  BY RoutingAssumption DEF Init, Never
<1>4. TypeInv
  BY <1>1, <1>2, <1>3 DEF Init, TypeInv, MaybeVal, MaybeCopy
<1>5. NearInv BY DEF Init, NearInv
<1> QED BY <1>1, <1>4, <1>5 DEF RoutingInv, CallerInv

\* The view, the clock, the number of Sets and the handlers.
LEMMA OtherTypes ==
  ASSUME RoutingInv, Next
  PROVE  /\ view' \in [Nodes -> Epochs] /\ used' \in 0..MaxVal /\ now' \in 0..MaxTime
         /\ orphans' \subseteq Handler
<1>1. /\ view \in [Nodes -> Epochs] /\ used \in 0..MaxVal /\ now \in 0..MaxTime
      /\ orphans \subseteq Handler
  BY DEF RoutingInv, TypeInv
<1>a. ASSUME NEW t \in Threads, Advance(t)
      PROVE  UNCHANGED <<view, used, now>> /\ (UNCHANGED orphans \/ CallFails(t))
  <2>1. CASE Pick(t) \/ ProbeNear(t) \/ CheckHit(t) \/ Send(t)
    BY <2>1 DEF Pick, ProbeNear, CheckHit, Send, cluster
  <2>2. CASE Admit(t) \/ Act(t) \/ CallFails(t) BY <2>2 DEF Admit, Act, CallFails, cluster
  <2>3. CASE Reply(t) \/ Wait(t) \/ Check(t) \/ Local(t)
    BY <2>3 DEF Reply, Wait, Check, Local, cluster
  <2>4. CASE Broadcast(t) \/ (\E p \in Nodes : Invalidate(t, p)) \/ Finish(t)
    BY <2>4 DEF Broadcast, Invalidate, Finish, cluster
  <2>5. CASE Fill(t) \/ Return(t) BY <2>5 DEF Fill, Return, cluster
  <2> QED BY <1>a, <2>1, <2>2, <2>3, <2>4, <2>5 DEF Advance
<1>b. ASSUME NEW t \in Threads, NEW o, Start(t, o)
      PROVE  /\ UNCHANGED <<view, now, orphans>>
             /\ UNCHANGED used \/ (used < MaxVal /\ used' = used + 1)
  BY <1>b DEF Start, cluster
<1>c. ASSUME NEW h \in orphans, AdmitOrphan(h) \/ ActOrphan(h)
      PROVE  UNCHANGED <<view, used, now>>
  BY <1>c DEF AdmitOrphan, ActOrphan, cluster
<1>d. ASSUME NEW n \in Nodes, NEW e \in Epochs, ViewMoves(n, e)
      PROVE  UNCHANGED <<used, now, orphans>>
  BY <1>d DEF ViewMoves
<1>e. ASSUME NEW n, ClosePicker(n) \/ Evict(n) PROVE UNCHANGED <<view, used, now, orphans>>
  BY <1>e DEF ClosePicker, Evict, cluster
<1>f. Tick => UNCHANGED <<view, used, orphans>> BY DEF Tick, cluster
<1>2. view' \in [Nodes -> Epochs]
  <2>1. UNCHANGED view \/ \E n \in Nodes, e \in Epochs : ViewMoves(n, e)
    BY <1>a, <1>b, <1>c, <1>e, <1>f DEF Next
  <2> QED BY <1>1, <2>1 DEF ViewMoves
<1>3. used' \in 0..MaxVal
  <2>1. UNCHANGED used \/ (used < MaxVal /\ used' = used + 1)
    BY <1>a, <1>b, <1>c, <1>d, <1>e, <1>f DEF Next
  <2> QED BY <1>1, <2>1, RoutingAssumption
<1>4. now' \in 0..MaxTime
  <2>1. UNCHANGED now \/ Tick BY <1>a, <1>b, <1>c, <1>d, <1>e DEF Next
  <2> QED BY <1>1, <2>1, RoutingAssumption DEF Tick
<1>5. orphans' \subseteq Handler
  <2>1. \/ UNCHANGED orphans \/ \E h \in orphans : AdmitOrphan(h) \/ ActOrphan(h)
        \/ \E t \in Threads : CallFails(t)
    BY <1>a, <1>b, <1>d, <1>e, <1>f DEF Next
  <2>2. ASSUME NEW h \in orphans, AdmitOrphan(h) \/ ActOrphan(h) PROVE orphans' \subseteq Handler
    <3>1. h \in Handler BY <1>1
    <3>2. [h EXCEPT !.call = "admitted"] \in Handler BY <3>1 DEF Handler, Stages
    <3> QED BY <1>1, <2>2, <3>2 DEF AdmitOrphan, ActOrphan
  <2>3. ASSUME NEW t \in Threads, CallFails(t) PROVE orphans' \subseteq Handler
    <3> DEFINE h == [val |-> th[t].val, node |-> th[t].own, call |-> th[t].call]
    <3>1. Good(t, th[t]) /\ th[t].pc = "call" BY <2>3 DEF RoutingInv, CallerInv, CallFails
    <3>2. h \in Handler BY <3>1 DEF Good, Picked, Caller, Handler
    <3>3. orphans' \in {orphans, orphans \cup {h}} BY <2>3 DEF CallFails
    <3> HIDE DEF h
    <3> QED BY <1>1, <3>2, <3>3
  <2> QED BY <1>1, <2>1, <2>2, <2>3
<1> QED BY <1>2, <1>3, <1>4, <1>5

LEMMA StepInv == RoutingInv /\ [Next]_vars => RoutingInv'
<1> SUFFICES ASSUME RoutingInv, [Next]_vars PROVE RoutingInv' OBVIOUS
<1>1. TypeInv /\ CallerInv /\ NearInv /\ th \in [Threads -> Caller]
  BY DEF RoutingInv, TypeInv
<1>2. ASSUME Next, Frame, th' \in [Threads -> Caller], \A t \in Threads : Good(t, th'[t])
      PROVE  RoutingInv'
  <2>1. TypeInv' BY <1>1, <1>2, OtherTypes DEF TypeInv, Frame
  <2>2. CallerInv' BY <1>2, CallersKept DEF Frame
  <2>3. NearInv' BY <1>1, <1>2, NearKept
  <2> QED BY <2>1, <2>2, <2>3 DEF RoutingInv
<1>3. ASSUME NEW t \in Threads, \E d : Takes(t, d)
      PROVE  th' \in [Threads -> Caller] /\ \A u \in Threads : Good(u, th'[u])
  <2>1. PICK d : Good(t, d) /\ th' = [th EXCEPT ![t] = d] BY <1>3 DEF Takes
  <2>2. d \in Caller BY <2>1 DEF Good
  <2>3. \A u \in Threads : th'[u] = IF u = t THEN d ELSE th[u] BY <1>1, <2>1
  <2> QED BY <1>1, <2>1, <2>2, <2>3 DEF CallerInv
<1>4. ASSUME NEW t \in Threads, Next, Advance(t) \/ \E o \in Calls[t] : Start(t, o)
      PROVE  RoutingInv'
  <2>1. \E d : Takes(t, d) BY <1>1, <1>4, CallerStep
  <2>2. th' \in [Threads -> Caller] /\ \A u \in Threads : Good(u, th'[u]) BY <1>3, <2>1
  <2>3. Calls[t] \subseteq Ops BY RoutingAssumption
  <2>4. CASE ~Fill(t)
    <3>1. Frame BY <1>1, <1>4, <2>3, <2>4, CallerFrame
    <3> QED BY <1>2, <1>4, <2>2, <3>1
  <2>5. CASE Fill(t)
    <3>1. UNCHANGED <<topo, main, content, until>> BY <2>5 DEF Fill, cluster
    <3> DEFINE x == [val |-> th[t].val, from |-> th[t].own, epoch |-> th[t].ep,
                     dead |-> Deadline]
    <3>2. /\ x \in Copy /\ x.from = OwnerAt(Node(t), x.epoch)
          /\ near' \in [Nodes -> [Epochs -> MaybeCopy]]
          /\ \A n \in Nodes, e \in Epochs :
               near'[n][e] = IF n = Node(t) /\ e = x.epoch THEN x ELSE near[n][e]
      BY <1>1, <2>5, FillMoves
    <3> HIDE DEF x
    <3>3. TypeInv' BY <1>1, <1>4, <2>2, <3>1, <3>2, OtherTypes DEF TypeInv
    <3>4. CallerInv' BY <2>2, <3>1, CallersKept
    <3>5. \A n, e : OwnerAt(n, e)' = OwnerAt(n, e) BY <3>1 DEF OwnerAt, Members
    <3>6. NearInv'
      <4> SUFFICES ASSUME NEW n \in Nodes, NEW e \in Epochs, near'[n][e] # None
                   PROVE  near'[n][e].epoch = e /\ near'[n][e].from = OwnerAt(n, e)'
        BY DEF NearInv
      <4>1. CASE n = Node(t) /\ e = x.epoch BY <3>2, <3>5, <4>1
      <4>2. CASE near'[n][e] = near[n][e] BY <1>1, <3>5, <4>2 DEF NearInv
      <4> QED BY <3>2, <4>1, <4>2
    <3> QED BY <3>3, <3>4, <3>6 DEF RoutingInv
  <2> QED BY <2>4, <2>5
<1>5. ASSUME Next,
             \/ \E h \in orphans : AdmitOrphan(h) \/ ActOrphan(h)
             \/ \E n \in Nodes, e \in Epochs : ViewMoves(n, e)
             \/ \E t \in Threads : ClosePicker(Node(t))
             \/ \E n \in Nodes : Evict(n)
             \/ Tick
      PROVE  RoutingInv'
  <2>1. Frame /\ UNCHANGED th BY <1>1, <1>5, OthersFrame
  <2>2. th' \in [Threads -> Caller] /\ \A u \in Threads : Good(u, th'[u])
    BY <1>1, <2>1 DEF CallerInv
  <2> QED BY <1>2, <1>5, <2>1, <2>2
<1>6. CASE UNCHANGED vars
  <2>1. UNCHANGED <<topo, view, main, near, th, orphans, used, now, content, until>>
    BY <1>6 DEF vars
  <2>2. TypeInv' BY <1>1, <2>1 DEF TypeInv
  <2>3. CallerInv' BY <1>1, <2>1, CallersKept DEF CallerInv
  <2>4. NearInv' BY <1>1, <2>1, NothingMoves, NearKept DEF caches
  <2> QED BY <2>2, <2>3, <2>4 DEF RoutingInv
<1> QED BY <1>4, <1>5, <1>6 DEF Next

=============================================================================
