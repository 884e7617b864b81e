--------------------------- MODULE RoutingProofs ---------------------------
(***************************************************************************)
(* What holds of routed operations for any nodes, callers and sequence of  *)
(* memberships.                                                            *)
(***************************************************************************)
EXTENDS RoutingSteps

LEMMA Invariant == Spec => []RoutingInv
BY InitInv, StepInv, PTL DEF Spec

\* A Set or Delete that reports success was carried out by the owner it picked last,
\* for any number of attempts, and however often the topology moves or RPCs fail.
THEOREM SuccessAtOwner == Spec => []SuccessIsTheOwners
<1>1. RoutingInv => SuccessIsTheOwners
  BY DEF RoutingInv, CallerInv, Good, MutationInv, SuccessIsTheOwners, Succeeded
<1> QED BY <1>1, Invariant, PTL

\* A near-cache hit came from the owner of the key in the epoch it is served in, for any
\* sequence of memberships.
THEOREM NearHitsCurrent == Spec => []NearHitsAreOfTheEpoch
<1>1. RoutingInv => NearHitsAreOfTheEpoch
  BY DEF RoutingInv, CallerInv, Good, CopyInv, Picked, NearHitsAreOfTheEpoch, NearHit
<1> QED BY <1>1, Invariant, PTL

-----------------------------------------------------------------------------
(* The topology between the choice of the owner and the answer *)

\* The owner's answer is there, and it is a success.
Answered(c) ==
  \/ c.pc = "call" /\ c.call = "replied" /\ c.res \in {"ok", "value"}
  \/ c.pc = "check"

\* What is known of the epochs of an attempt, when the caller's view is at v: it was
\* picked before its answer came about, and it is accepted only if that is still the
\* epoch of the view.
Seen(t, c, v) ==
  /\ c.pc \notin {"idle", "pick"} => c.ep <= v
  /\ c.pc = "hit" \/ Answered(c) => c.ep <= c.seen /\ c.seen <= v
  /\ c.stable \/ (c.pc = "return" /\ c.copy # None) => c.seen = c.ep
  /\ c.pc = "return" /\ c.op = "get" /\ c.res = "value" /\ c.own # Node(t)
       => c.stable \/ c.copy # None
  /\ c.op = "del" /\ (c.pc \in {"local", "cast", "inval"} \/ (c.pc = "return" /\ c.res = "ok"))
       => c.stable

SeenInv == \A t \in Threads : Seen(t, th[t], view[Node(t)])

\* The steps of a caller, whose view is at v.
LEMMA SeenStep ==
  ASSUME RoutingInv, SeenInv, NEW t \in Threads, Advance(t) \/ \E o \in Ops : Start(t, o)
  PROVE  Seen(t, th'[t], view[Node(t)])
<1> DEFINE c == th[t]
           d == th'[t]
           v == view[Node(t)]
<1>1. Good(t, c) /\ c \in Caller /\ th \in [Threads -> Caller] /\ Seen(t, c, v)
  BY DEF RoutingInv, CallerInv, Good, TypeInv, SeenInv
<1>2. v \in Nat /\ c.ep \in Nat /\ c.seen \in Nat
  <2>1. v \in Epochs BY Constants, OwnerType DEF RoutingInv
  <2> HIDE DEF c, v
  <2> QED BY <1>1, <2>1, Constants DEF Caller, Epochs
<1>3. c.pc \notin {"hit", "return"} => c.copy = None
  BY <1>1 DEF Good, CopyInv
<1>4. c.pc \notin {"local", "cast", "inval", "fill", "return"} => c.stable = FALSE
  BY <1>1 DEF Good, MutationInv, Caller
<1>5. Same(t) => c.ep = v BY DEF Same
\* An attempt goes on, or ends without a result.
<1>6. ASSUME c.pc \notin {"idle", "pick", "local", "cast", "inval", "fill", "return"},
             d.ep = c.ep, d.op = c.op, d.stable = c.stable,
             \/ d.pc \in {"pick", "send", "wait", "panic"}
             \/ d.pc = "call" /\ (d.call # "replied" \/ d.res \notin {"ok", "value"})
             \/ d.pc = "local" /\ d.op = "set"
             \/ d.pc = "return" /\ d.copy = None /\ d.res \notin {"ok", "value"}
      PROVE  Seen(t, d, v)
  <2> HIDE DEF c, d, v
  <2> QED BY <1>1, <1>4, <1>6 DEF Seen, Answered
\* A mutation past the loop goes on.
<1>7. ASSUME c.pc \in {"local", "cast", "inval"}, d.pc \in {"cast", "inval", "fill", "return"},
             d.ep = c.ep, d.op = c.op, d.stable = c.stable, d.seen = c.seen, d.copy = c.copy
      PROVE  Seen(t, d, v)
  <2>1. c.op # "get" BY <1>1, <1>7 DEF Good, MutationInv
  <2> HIDE DEF c, d, v
  <2> QED BY <1>1, <1>3, <1>7, <2>1 DEF Seen, Answered
<1>8. ASSUME NEW o \in Ops, Start(t, o) PROVE Seen(t, d, v)
  <2>1. c.pc = "idle" /\ d.pc = "pick" /\ d.stable = c.stable
    BY <1>1, <1>8 DEF Start, Goes, Caller
  <2> HIDE DEF c, d, v
  <2> QED BY <1>4, <2>1 DEF Seen, Answered
<1>9. ASSUME Pick(t) PROVE Seen(t, d, v)
  <2>1. /\ c.pc = "pick" /\ d.pc \in {"call", "near", "send"} /\ d.ep = v /\ d.res = "none"
        /\ d.stable = c.stable
    BY <1>1, <1>9 DEF Pick, Goes, Caller
  <2> HIDE DEF c, d, v
  <2> QED BY <1>2, <1>4, <2>1 DEF Seen, Answered
<1>10. ASSUME ProbeNear(t) PROVE Seen(t, d, v)
  <2> DEFINE x == near[Node(t)][c.ep]
  <2>1. /\ c.pc = "near"
        /\ \/ d = [[c EXCEPT !.copy = x, !.seen = v] EXCEPT !.pc = "hit"]
           \/ d = [c EXCEPT !.pc = "send"]
    BY <1>1, <1>10 DEF ProbeNear, NearKey, Goes, Only
  <2> HIDE DEF c, d, v, x
  <2>2. /\ d.ep = c.ep /\ d.op = c.op /\ d.stable = c.stable
        /\ d.pc = "send" \/ (d.pc = "hit" /\ d.seen = v)
    BY <1>1, <2>1 DEF Caller
  <2>3. CASE d.pc = "hit" BY <1>1, <1>2, <1>4, <2>1, <2>2, <2>3 DEF Seen, Answered
  <2> QED BY <1>6, <2>1, <2>2, <2>3
<1>11. ASSUME CheckHit(t) PROVE Seen(t, d, v)
  <2>1. /\ c.pc = "hit"
        /\ \/ /\ d = [[c EXCEPT !.res = "value", !.val = c.copy.val] EXCEPT !.pc = "return"]
              /\ c.ep = v
           \/ d = [[c EXCEPT !.copy = None] EXCEPT !.pc = "send"]
    BY <1>1, <1>5, <1>11 DEF CheckHit, Goes
  <2>2. c.copy # None /\ c.op = "get" BY <1>1, <2>1 DEF Good, CopyInv
  <2> HIDE DEF c, d, v
  <2>3. /\ d.ep = c.ep /\ d.op = c.op /\ d.stable = c.stable /\ d.seen = c.seen
        /\ d.pc = "send" \/ (d.pc = "return" /\ d.copy = c.copy /\ c.ep = v)
    BY <1>1, <2>1 DEF Caller
  <2>4. CASE d.pc = "return"
    <3>1. c.seen = c.ep BY <1>1, <1>2, <2>1, <2>3, <2>4 DEF Seen
    <3> QED BY <1>1, <1>4, <2>1, <2>2, <2>3, <2>4, <3>1 DEF Seen, Answered
  <2> QED BY <1>6, <2>1, <2>3, <2>4
<1>12. ASSUME Send(t) PROVE Seen(t, d, v)
  <2>1. /\ c.pc = "send"
        /\ \/ d = [[c EXCEPT !.call = "sent", !.sent = now] EXCEPT !.pc = "call"]
           \/ d = [c EXCEPT !.pc = "panic"]
    BY <1>1, <1>12 DEF Send, Goes, Only
  <2> HIDE DEF c, d, v
  <2>2. /\ d.ep = c.ep /\ d.op = c.op /\ d.stable = c.stable
        /\ d.pc = "panic" \/ (d.pc = "call" /\ d.call # "replied")
    BY <1>1, <2>1 DEF Caller
  <2> QED BY <1>6, <2>1, <2>2
<1>13. ASSUME Admit(t) PROVE Seen(t, d, v)
  <2>1. /\ c.pc = "call"
        /\ \/ d = [[c EXCEPT !.call = "admitted"] EXCEPT !.pc = "call"]
           \/ \E r \in {"topology", "fail"} :
                d = [[c EXCEPT !.call = "replied", !.res = r] EXCEPT !.pc = "call"]
    BY <1>1, <1>13 DEF Admit, Goes
  <2> HIDE DEF c, d, v
  <2>2. /\ d.ep = c.ep /\ d.op = c.op /\ d.stable = c.stable /\ d.pc = "call"
        /\ d.call # "replied" \/ d.res \notin {"ok", "value"}
    BY <1>1, <2>1 DEF Caller
  <2> QED BY <1>6, <2>1, <2>2
<1>14. ASSUME Act(t) PROVE Seen(t, d, v)
  <2> DEFINE answer(r, w) == [[c EXCEPT !.call = "replied", !.res = r, !.val = w,
                                        !.applied = c.own, !.seen = v] EXCEPT !.pc = "call"]
  <2>1. /\ c.pc = "call"
        /\ \/ d = answer("ok", c.val)
           \/ d = answer("value", main[c.own])
           \/ \E l \in Loads : d = answer(l.res, l.val)
    BY <1>1, <1>14 DEF Act, Goes
  <2> HIDE DEF c, d, v
  <2>2. \A r, w : LET a == answer(r, w) IN
          a.ep = c.ep /\ a.stable = c.stable /\ a.pc = "call" /\ a.seen = v
    BY <1>1 DEF Caller
  <2> HIDE DEF answer
  <2>3. d.ep = c.ep /\ d.stable = c.stable /\ d.pc = "call" /\ d.seen = v
    BY <2>1, <2>2
  <2> QED BY <1>1, <1>2, <1>4, <2>1, <2>3 DEF Seen, Answered
<1>15. ASSUME CallFails(t) PROVE Seen(t, d, v)
  <2>1. c.pc = "call" /\ d = [[c EXCEPT !.res = "fail"] EXCEPT !.pc = "return"]
    BY <1>1, <1>15 DEF CallFails, Returns, Goes
  <2> HIDE DEF c, d, v
  <2>2. /\ d.ep = c.ep /\ d.op = c.op /\ d.stable = c.stable /\ d.copy = c.copy
        /\ d.pc = "return" /\ d.res = "fail"
    BY <1>1, <2>1 DEF Caller
  <2> QED BY <1>3, <1>6, <2>1, <2>2
<1>16. ASSUME Continue(t), c.pc \in {"call", "wait", "check"},
              c.op = "del" => c.att < Attempts - 1
       PROVE  Seen(t, d, v)
  <2>1. c.op \in Ops /\ c.att \in 0..Attempts - 1 BY <1>1 DEF Caller
  <2>2. \/ d = [[c EXCEPT !.att = NextAttempt(t)] EXCEPT !.pc = "pick"]
        \/ d = [[c EXCEPT !.res = "topology"] EXCEPT !.pc = "return"]
        \/ d = [c EXCEPT !.pc = "local"] /\ c.op = "set"
    BY <1>1, <1>16, <2>1, Constants DEF Continue, NextAttempt, Returns, Only, Goes, Ops
  <2> HIDE DEF c, d, v
  <2>3. /\ d.ep = c.ep /\ d.op = c.op /\ d.stable = c.stable /\ d.copy = c.copy
        /\ \/ d.pc = "pick"
           \/ d.pc = "return" /\ d.res = "topology"
           \/ d.pc = "local" /\ d.op = "set"
    BY <1>1, <2>2 DEF Caller
  <2> QED BY <1>3, <1>6, <1>16, <2>3
<1>17. ASSUME Reply(t) PROVE Seen(t, d, v)
  <2>1. c.pc = "call" /\ c.call = "replied" BY <1>17 DEF Reply
  <2>2. \/ Continue(t) /\ c.own = Node(t) /\ c.res = "topology"
        \/ d = [[c EXCEPT !.res = "topology"] EXCEPT !.pc = "return"]
        \/ d = [c EXCEPT !.pc = "wait"]
        \/ /\ d = [c EXCEPT !.pc = "return"]
           /\ c.res \in {"miss", "fail"} \/ (c.op = "get" /\ c.own = Node(t))
        \/ d = [c EXCEPT !.pc = "check"] /\ c.res \notin {"topology", "miss", "fail"}
    BY <1>1, <1>17 DEF Reply, Returns, Only, Goes, Remote
  <2>3. CASE Continue(t) /\ c.own = Node(t) /\ c.res = "topology"
    <3>1. c.op # "del" BY <1>1, <2>1, <2>3 DEF Good, AnswerInv
    <3> QED BY <1>16, <2>1, <2>3, <3>1
  <2>4. c.res \notin {"topology", "miss", "fail"} => Answered(c)
    BY <1>1, <2>1 DEF Good, AnswerInv, Answered
  <2> HIDE DEF c, d, v
  <2>5. ~(Continue(t) /\ c.own = Node(t) /\ c.res = "topology") =>
        /\ d.ep = c.ep /\ d.op = c.op /\ d.stable = c.stable /\ d.copy = c.copy
        /\ d.seen = c.seen /\ d.own = c.own
        /\ \/ d.pc = "wait"
           \/ d.pc = "return" /\ d.res \notin {"ok", "value"}
           \/ d.pc = "return" /\ d.op = "get" /\ d.own = Node(t)
           \/ d.pc = "check" /\ Answered(c)
    BY <1>1, <2>2, <2>4 DEF Caller
  <2>6. CASE d.pc = "return" /\ d.op = "get" /\ d.own = Node(t) /\ d.ep = c.ep
             /\ d.stable = c.stable /\ d.copy = c.copy
    BY <1>1, <1>3, <1>4, <2>1, <2>6 DEF Seen, Answered
  <2>7. CASE d.pc = "check" /\ Answered(c) /\ d.ep = c.ep /\ d.stable = c.stable
             /\ d.seen = c.seen
    BY <1>1, <1>4, <2>1, <2>7 DEF Seen, Answered
  <2> QED BY <1>3, <1>6, <2>1, <2>3, <2>5, <2>6, <2>7
<1>18. ASSUME Wait(t) PROVE Seen(t, d, v)
  <2>1. /\ c.pc = "wait"
        /\ Continue(t) \/ d = [[c EXCEPT !.res = "fail"] EXCEPT !.pc = "return"]
    BY <1>1, <1>18 DEF Wait, Returns, Goes
  <2>2. c.att < Attempts - 1 BY <1>1, <2>1 DEF Good, AnswerInv
  <2>3. CASE Continue(t) BY <1>16, <2>1, <2>2, <2>3
  <2> HIDE DEF c, d, v
  <2>4. CASE d = [[c EXCEPT !.res = "fail"] EXCEPT !.pc = "return"]
    <3>1. /\ d.ep = c.ep /\ d.op = c.op /\ d.stable = c.stable /\ d.copy = c.copy
          /\ d.pc = "return" /\ d.res = "fail"
      BY <1>1, <2>4 DEF Caller
    <3> QED BY <1>3, <1>6, <2>1, <3>1
  <2> QED BY <2>1, <2>3, <2>4
<1>19. ASSUME Check(t) PROVE Seen(t, d, v)
  <2> DEFINE l == IF c.op # "get" THEN "local" ELSE IF Near THEN "fill" ELSE "return"
  <2>1. /\ c.pc = "check"
        /\ \/ Continue(t) /\ (c.op = "get" \/ c.att # Attempts - 1)
           \/ d = [[c EXCEPT !.res = "topology"] EXCEPT !.pc = "return"]
           \/ d = [[c EXCEPT !.stable = TRUE] EXCEPT !.pc = l] /\ c.ep = v
    BY <1>1, <1>5, <1>19 DEF Check, LastAttempt, Returns, Goes
  <2>2. CASE Continue(t) /\ (c.op = "get" \/ c.att # Attempts - 1)
    <3>1. c.att \in 0..Attempts - 1 BY <1>1 DEF Caller
    <3>2. c.op = "del" => c.att < Attempts - 1 BY <2>2, <3>1, Constants
    <3> QED BY <1>16, <2>1, <2>2, <3>2
  <2>3. l \in {"local", "fill", "return"} OBVIOUS
  <2> HIDE DEF c, d, v, l
  <2>4. CASE d = [[c EXCEPT !.res = "topology"] EXCEPT !.pc = "return"]
    <3>1. /\ d.ep = c.ep /\ d.op = c.op /\ d.stable = c.stable /\ d.copy = c.copy
          /\ d.pc = "return" /\ d.res = "topology"
      BY <1>1, <2>4 DEF Caller
    <3> QED BY <1>3, <1>6, <2>1, <3>1
  <2>5. CASE d = [[c EXCEPT !.stable = TRUE] EXCEPT !.pc = l] /\ c.ep = v
    <3>1. /\ d.ep = c.ep /\ d.stable = TRUE /\ d.seen = c.seen /\ d.pc = l
      BY <1>1, <2>5 DEF Caller
    <3>2. c.seen = c.ep BY <1>1, <1>2, <2>1, <2>5 DEF Seen, Answered
    <3> QED BY <1>1, <2>1, <2>3, <3>1, <3>2 DEF Seen, Answered
  <2> QED BY <2>1, <2>2, <2>4, <2>5
<1>20. ASSUME Local(t) \/ Broadcast(t) PROVE Seen(t, d, v)
  <2>1. /\ c.pc \in {"local", "cast"}
        /\ \/ d = [c EXCEPT !.pc = "cast"]
           \/ d = [[c EXCEPT !.todo = Targets(t), !.sent = now] EXCEPT !.pc = "inval"]
    BY <1>1, <1>20 DEF Local, Broadcast, Only, Goes
  <2> HIDE DEF c, d, v
  <2>2. /\ d.ep = c.ep /\ d.op = c.op /\ d.stable = c.stable /\ d.seen = c.seen
        /\ d.copy = c.copy /\ d.pc \in {"cast", "inval"}
    BY <1>1, <2>1 DEF Caller
  <2> QED BY <1>7, <2>1, <2>2
<1>21. ASSUME (\E p \in Nodes : Invalidate(t, p)) \/ Finish(t) PROVE Seen(t, d, v)
  <2>1. /\ c.pc = "inval"
        /\ \/ \E p : d = [[c EXCEPT !.todo = c.todo \ {p}] EXCEPT !.pc = "inval"]
           \/ d = [c EXCEPT !.pc = "fill"]
           \/ d = [[c EXCEPT !.res = "ok"] EXCEPT !.pc = "return"]
    BY <1>1, <1>21 DEF Invalidate, Finish, Only, Returns, Goes
  <2> HIDE DEF c, d, v
  <2>2. /\ d.ep = c.ep /\ d.op = c.op /\ d.stable = c.stable /\ d.seen = c.seen
        /\ d.copy = c.copy /\ d.pc \in {"inval", "fill", "return"}
    BY <1>1, <2>1 DEF Caller
  <2> QED BY <1>7, <2>1, <2>2
<1>22. ASSUME Fill(t) PROVE Seen(t, d, v)
  <2>1. c.pc = "fill" /\ d = [[c EXCEPT !.res = c.res] EXCEPT !.pc = "return"]
    BY <1>1, <1>22 DEF Fill, Returns, Goes
  <2>2. c.stable BY <1>1, <2>1 DEF Good, MutationInv
  <2> HIDE DEF c, d, v
  <2>3. d.ep = c.ep /\ d.stable = c.stable /\ d.seen = c.seen /\ d.pc = "return"
    BY <1>1, <2>1 DEF Caller
  <2> QED BY <1>1, <2>1, <2>2, <2>3 DEF Seen, Answered
<1>23. ASSUME Return(t) PROVE Seen(t, d, v)
  <2>1. d = Idle BY <1>1, <1>23 DEF Return
  <2>2. d.pc = "idle" /\ ~d.stable BY <2>1 DEF Idle
  <2> HIDE DEF c, d, v
  <2> QED BY <2>2 DEF Seen, Answered
<1> HIDE DEF c, d, v
<1>24. Seen(t, d, v)
  BY <1>8, <1>9, <1>10, <1>11, <1>12, <1>13, <1>14, <1>15, <1>17, <1>18, <1>19, <1>20, <1>21,
     <1>22, <1>23 DEF Advance
<1> QED BY <1>24 DEF d, v

LEMMA SeenKept ==
  ASSUME RoutingInv, SeenInv, [Next]_vars PROVE SeenInv'
<1>1. TypeInv /\ CallerInv /\ NearInv /\ th \in [Threads -> Caller] BY DEF RoutingInv, TypeInv
<1>2. ASSUME NEW t \in Threads, Advance(t) \/ \E o \in Calls[t] : Start(t, o) PROVE SeenInv'
  <2>1. \A u \in Threads : u # t => th'[u] = th[u]
    <3>1. \E d : Takes(t, d) BY <1>1, <1>2, CallerStep
    <3> QED BY <1>1, <3>1 DEF Takes
  <2>2. Advance(t) \/ \E o \in Ops : Start(t, o) BY <1>2, RoutingAssumption
  <2>3. UNCHANGED view
    BY <2>2 DEF Advance, Start, Pick, ProbeNear, CheckHit, Send, Admit, Act, CallFails, Reply,
       Wait, Check, Local, Broadcast, Invalidate, Finish, Fill, Return, cluster
  <2>4. Seen(t, th'[t], view[Node(t)]) BY <2>2, SeenStep
  <2>5. \A u \in Threads : Seen(u, th'[u], view'[Node(u)]) BY <2>1, <2>3, <2>4 DEF SeenInv
  <2> QED BY <2>5 DEF SeenInv, Seen, Answered, Node
\* A view only moves on.
<1>3. ASSUME UNCHANGED th, \A n \in Nodes : view'[n] >= view[n], view' \in [Nodes -> Epochs]
      PROVE  SeenInv'
  <2> SUFFICES ASSUME NEW t \in Threads PROVE Seen(t, th[t], view'[Node(t)])
    BY <1>3 DEF SeenInv, Seen, Answered, Node
  <2> DEFINE c == th[t]
             v == view[Node(t)]
             w == view'[Node(t)]
  <2>1. v \in Epochs /\ w \in Epochs /\ w >= v BY <1>1, <1>3, Constants DEF TypeInv
  <2>2. Seen(t, c, v) /\ c \in Caller BY <1>1 DEF SeenInv
  <2> HIDE DEF c, v, w
  <2>3. v \in Nat /\ w \in Nat /\ c.ep \in Nat /\ c.seen \in Nat
    BY <2>1, <2>2, Constants DEF Caller, Epochs
  <2>4. Seen(t, c, w) BY <2>1, <2>2, <2>3 DEF Seen
  <2> QED BY <2>4 DEF c, w
<1>4. ASSUME NEW n \in Nodes, NEW e \in Epochs, ViewMoves(n, e) PROVE SeenInv'
  <2>1. UNCHANGED th /\ view' = [view EXCEPT ![n] = e] /\ e > view[n] BY <1>4 DEF ViewMoves
  <2>2. view \in [Nodes -> Epochs] BY <1>1 DEF TypeInv
  <2>3. \A m \in Nodes : view[m] \in Nat /\ e \in Nat BY <2>2, Constants DEF Epochs
  <2>4. \A m \in Nodes : view'[m] >= view[m] BY <2>1, <2>2, <2>3
  <2> QED BY <1>3, <2>1, <2>2, <2>4
<1>5. ASSUME UNCHANGED <<th, view>> PROVE SeenInv'
  BY <1>5 DEF SeenInv, Seen, Answered, Node
<1>6. ASSUME \/ \E h \in orphans : AdmitOrphan(h) \/ ActOrphan(h)
             \/ \E t \in Threads : ClosePicker(Node(t))
             \/ \E n \in Nodes : Evict(n)
             \/ Tick \/ UNCHANGED vars
      PROVE  UNCHANGED <<th, view>>
  BY <1>6 DEF AdmitOrphan, ActOrphan, ClosePicker, Evict, Tick, cluster, vars
<1> QED BY <1>2, <1>4, <1>5, <1>6 DEF Next

\* A mutation reports success, and a Get returns the value of another node, only if that
\* node still owned the key in the caller's view when it answered, for any nodes, number
\* of attempts and sequence of memberships.
THEOREM AcceptedInEpoch == Spec => []AnswersAreCurrent
<1>1. Init => SeenInv
  <2> SUFFICES ASSUME Init, NEW t \in Threads PROVE Seen(t, th[t], view[Node(t)])
    BY DEF SeenInv
  <2>1. th[t].pc = "idle" /\ ~th[t].stable BY DEF Init, Idle
  <2> QED BY <2>1 DEF Seen, Answered
<1>2. RoutingInv /\ SeenInv => AnswersAreCurrent
  <2> SUFFICES ASSUME RoutingInv, SeenInv, NEW t \in Threads, Accepted(t)
               PROVE  OwnerAt(Node(t), th[t].seen) = th[t].own
    BY DEF AnswersAreCurrent
  <2>1. th[t].pc = "return" BY DEF Accepted, Succeeded
  <2>2. th[t].own = OwnerAt(Node(t), th[t].ep) BY <2>1 DEF RoutingInv, CallerInv, Good, Picked
  <2>3. Seen(t, th[t], view[Node(t)]) BY DEF SeenInv
  <2>4. th[t].seen = th[t].ep BY <2>1, <2>3 DEF Accepted, Succeeded, Remote, Seen
  <2> QED BY <2>2, <2>4
<1>3. RoutingInv /\ SeenInv /\ [Next]_vars => SeenInv' BY SeenKept
<1> QED BY <1>1, <1>2, <1>3, InitInv, StepInv, PTL DEF Spec

-----------------------------------------------------------------------------
(* Time, for a group without a Getter *)

\* How stale a copy may be, when u says since when values are no longer current.
CopyFresh(c, u) ==
  /\ c.dead <= now + NearTTL
  /\ c.dead <= u[c.from][c.val] + NearTTL + 2 * RpcTimeout

\* How long ago the owner had the value that a caller has from it, or gave to it.
Fresh(c, u) ==
  /\ c.sent <= now
  /\ c.pc \in {"call", "check", "inval"} => now <= c.sent + RpcTimeout
  /\ Answered(c) /\ c.val # None => u[c.own][c.val] >= c.sent
  /\ c.stable /\ c.op = "set" =>
       /\ c.pc \in {"local", "cast"} => u[c.own][c.val] + RpcTimeout >= now
       /\ c.pc = "inval" => u[c.own][c.val] + RpcTimeout >= c.sent
  /\ c.pc = "fill" => u[c.own][c.val] + 2 * RpcTimeout >= now
  /\ c.copy # None => now < c.copy.dead /\ CopyFresh(c.copy, u)

\* What a node has is its content.
MainInv ==
  /\ MaxTime = 0 => \A n \in Nodes, v \in Vals : until[n][v] = Never
  /\ \A n \in Nodes : main[n] # None => until[n][main[n]] = Never

TimeInv ==
  /\ MainInv
  /\ \A n \in Nodes, e \in Epochs : near[n][e] # None => CopyFresh(near[n][e], until)
  /\ \A t \in Threads : Fresh(th[t], until)

\* now, sent and the like are numbers.
LEMMA TimeTypes ==
  ASSUME TypeInv
  PROVE  /\ now \in Nat /\ NearTTL \in Nat /\ RpcTimeout \in Nat /\ Never \in Nat /\ now <= Never
         /\ \A n \in Nodes, v \in Vals : until[n][v] \in Nat
<1>1. now \in Nat /\ NearTTL \in Nat /\ RpcTimeout \in Nat /\ Never \in Nat /\ now <= Never
  BY RoutingAssumption DEF TypeInv, Never
<1>2. until \in [Nodes -> [Vals -> 0..Never]] BY DEF TypeInv
<1> QED BY <1>1, <1>2

LEMMA UntilMoves ==
  ASSUME TypeInv, Frame, NEW n \in Nodes, NEW v \in Vals
  PROVE  /\ until[n][v] \in Nat /\ until'[n][v] \in Nat
         /\ until'[n][v] >= until[n][v] \/ until'[n][v] >= now
<1>1. until' \in [Nodes -> [Vals -> 0..Never]] /\ until \in [Nodes -> [Vals -> 0..Never]]
  BY DEF Frame, TypeInv
<1>2. until'[n][v] \in {until[n][v], Never, now} BY DEF Frame
<1>3. until'[n][v] \in Nat /\ until[n][v] \in 0..Never BY <1>1, TimeTypes
<1> QED BY <1>2, <1>3, TimeTypes

LEMMA CopyKept ==
  ASSUME TypeInv, Frame, NEW c \in Copy, CopyFresh(c, until) PROVE CopyFresh(c, until')
<1>1. c.from \in Nodes /\ c.val \in Vals /\ c.dead \in Nat BY DEF Copy
<1> QED BY <1>1, UntilMoves, TimeTypes DEF CopyFresh

\* The values a caller has from an owner, or has given to it, and their places.
LEMMA ValueTypes ==
  ASSUME NEW t, NEW c, Good(t, c)
  PROVE  /\ Answered(c) /\ c.val # None => c.own \in Nodes /\ c.val \in Vals
         /\ c.pc \in {"local", "cast", "inval"} /\ c.op = "set" =>
              c.own \in Nodes /\ c.val \in Vals
         /\ c.pc = "fill" => c.own \in Nodes /\ c.val \in Vals
         /\ c.copy # None => c.copy \in Copy
         /\ c.sent \in Nat
<1>1. c.val \in MaybeVal /\ c.copy \in MaybeCopy /\ c.sent \in Nat /\ c.op \in Ops
  BY DEF Good, Caller
<1>2. Answered(c) => c.own \in Nodes BY DEF Good, Picked, Answered
<1>3. c.pc \in {"local", "cast", "inval", "fill"} => c.own \in Nodes BY DEF Good, Picked
<1>4. c.pc \in {"local", "cast", "inval"} /\ c.op = "set" => c.val \in Vals
  BY DEF Good, ValInv
<1>5. c.pc = "fill" => c.val \in Vals BY <1>1 DEF Good, ValInv, MutationInv, Ops
<1> QED BY <1>1, <1>2, <1>3, <1>4, <1>5 DEF MaybeVal, MaybeCopy

LEMMA FreshKept ==
  ASSUME TypeInv, Frame, NEW t, NEW c, Good(t, c), Fresh(c, until) PROVE Fresh(c, until')
<1>1. c.sent \in Nat /\ c.sent <= now BY ValueTypes DEF Fresh
<1>2. c.pc \in {"call", "check", "inval"} => now <= c.sent + RpcTimeout BY DEF Fresh
<1>3. ASSUME Answered(c), c.val # None PROVE until'[c.own][c.val] >= c.sent
  <2>1. c.own \in Nodes /\ c.val \in Vals BY <1>3, ValueTypes
  <2>2. until[c.own][c.val] >= c.sent BY <1>3 DEF Fresh
  <2> QED BY <1>1, <2>1, <2>2, UntilMoves, TimeTypes
<1>4. ASSUME c.stable, c.op = "set", c.pc \in {"local", "cast"}
      PROVE  until'[c.own][c.val] + RpcTimeout >= now
  <2>1. c.own \in Nodes /\ c.val \in Vals BY <1>4, ValueTypes
  <2>2. until[c.own][c.val] + RpcTimeout >= now BY <1>4 DEF Fresh
  <2> QED BY <2>1, <2>2, UntilMoves, TimeTypes
<1>5. ASSUME c.stable, c.op = "set", c.pc = "inval"
      PROVE  until'[c.own][c.val] + RpcTimeout >= c.sent
  <2>1. c.own \in Nodes /\ c.val \in Vals BY <1>5, ValueTypes
  <2>2. until[c.own][c.val] + RpcTimeout >= c.sent BY <1>5 DEF Fresh
  <2> QED BY <1>1, <2>1, <2>2, UntilMoves, TimeTypes
<1>6. ASSUME c.pc = "fill" PROVE until'[c.own][c.val] + 2 * RpcTimeout >= now
  <2>1. c.own \in Nodes /\ c.val \in Vals BY <1>6, ValueTypes
  <2>2. until[c.own][c.val] + 2 * RpcTimeout >= now BY <1>6 DEF Fresh
  <2> QED BY <2>1, <2>2, UntilMoves, TimeTypes
<1>7. c.copy # None => now < c.copy.dead /\ CopyFresh(c.copy, until')
  BY ValueTypes, CopyKept DEF Fresh
<1> QED BY <1>1, <1>2, <1>3, <1>4, <1>5, <1>6, <1>7 DEF Fresh

LEMMA MainKept ==
  ASSUME MainInv, UNCHANGED until, \A n \in Nodes : main'[n] \in {main[n], None}
  PROVE  MainInv'
BY DEF MainInv

LEMMA MainMutated ==
  ASSUME TypeInv, MainInv, NEW o \in Nodes, NEW v \in MaybeVal, Mutate(o, v)
  PROVE  MainInv' /\ (v # None => until'[o][v] = Never)
<1>1. main' = [main EXCEPT ![o] = v] /\ main \in [Nodes -> MaybeVal]
  BY DEF Mutate, TypeInv
<1>2. CASE MaxTime = 0
  <2>1. UNCHANGED until BY <1>2 DEF Mutate
  <2> QED BY <1>1, <1>2, <2>1 DEF MainInv, MaybeVal
<1>3. CASE MaxTime # 0
  <2> DEFINE g == [w \in Vals |-> IF w = v THEN Never
                                  ELSE IF w = content[o] THEN now ELSE until[o][w]]
  <2>1. until' = [until EXCEPT ![o] = g] BY <1>3 DEF Mutate
  <2>2. v \in Vals => g[v] = Never OBVIOUS
  <2> HIDE DEF g
  <2>3. until \in [Nodes -> [Vals -> 0..Never]] BY DEF TypeInv
  <2> QED BY <1>1, <1>3, <2>1, <2>2, <2>3 DEF MainInv, MaybeVal
<1> QED BY <1>2, <1>3

\* A caller's values stay fresh while it takes a step.
LEMMA FreshStep ==
  ASSUME RoutingInv, ~ReadThrough, TimeInv, NEW t \in Threads,
         Advance(t) \/ \E o \in Ops : Start(t, o)
  PROVE  Fresh(th'[t], until')
<1> DEFINE c == th[t]
           d == th'[t]
<1>1. TypeInv /\ CallerInv /\ NearInv /\ MainInv /\ now \in Nat BY TimeTypes DEF RoutingInv, TimeInv
<1>2. Good(t, c) /\ c \in Caller /\ th \in [Threads -> Caller]
  BY <1>1 DEF CallerInv, Good, TypeInv
<1>3. Fresh(c, until')
  <2>1. Fresh(c, until) BY DEF TimeInv
  <2>2. CASE Fill(t) BY <2>1, <2>2 DEF Fill
  <2>3. CASE ~Fill(t)
    <3>1. Frame BY <1>1, <2>3, CallerFrame
    <3> QED BY <1>1, <1>2, <2>1, <3>1, FreshKept
  <2> QED BY <2>2, <2>3
<1>4. /\ d.sent = c.sent \/ d.sent = now
      /\ d.copy = c.copy \/ d.copy = None
      /\ \/ d.pc \in {"idle", "pick", "near", "hit", "send", "wait", "return", "panic"}
         \/ d.pc = "local" /\ d.stable = FALSE
      => Fresh(d, until')
  <2> HIDE DEF c, d
  <2> QED BY <1>1, <1>3 DEF Fresh, Answered
<1>5. ASSUME NEW o \in Ops, Start(t, o) PROVE Fresh(d, until')
  <2>1. d.sent = c.sent /\ d.copy = c.copy /\ d.pc = "pick"
    BY <1>2, <1>5 DEF Start, Goes, Caller
  <2> HIDE DEF c, d
  <2> QED BY <1>4, <2>1
<1>6. ASSUME Pick(t) PROVE Fresh(d, until')
  <2>1. /\ d.sent = now /\ d.copy = c.copy /\ d.pc \in {"call", "near", "send"}
        /\ d.res = "none" /\ d.stable = c.stable
    BY <1>2, <1>6 DEF Pick, Goes, Caller
  <2>2. c.copy = None /\ ~c.stable BY <1>2, <1>6 DEF Pick, Good, CopyInv, MutationInv
  <2>3. CASE d.pc = "call"
    <3>1. RpcTimeout \in Nat BY RoutingAssumption
    <3> HIDE DEF c, d
    <3> QED BY <1>1, <2>1, <2>2, <2>3, <3>1 DEF Fresh, Answered
  <2> HIDE DEF c, d
  <2> QED BY <1>4, <2>1, <2>3
<1>7. ASSUME ProbeNear(t) PROVE Fresh(d, until')
  <2> DEFINE x == near[Node(t)][c.ep]
  <2>1. \/ /\ x # None /\ now < x.dead
           /\ d.sent = c.sent /\ d.copy = x /\ d.pc = "hit"
        \/ d.sent = c.sent /\ d.copy = c.copy /\ d.pc = "send"
    <3>1. \/ /\ d = [[c EXCEPT !.copy = x, !.seen = view[Node(t)]] EXCEPT !.pc = "hit"]
             /\ x # None /\ now < x.dead
          \/ d = [c EXCEPT !.pc = "send"]
      BY <1>2, <1>7 DEF ProbeNear, NearKey, Goes, Only
    <3> HIDE DEF c, d, x
    <3> QED BY <1>2, <3>1 DEF Caller
  <2>2. c.ep \in Epochs BY <1>2, <1>7 DEF Good, Picked, ProbeNear
  <2>3. UNCHANGED until BY <1>7 DEF ProbeNear, caches
  <2>4. x # None => CopyFresh(x, until') BY <2>2, <2>3, Constants DEF TimeInv
  <2>5. CASE d.pc = "hit" 
    <3> HIDE DEF c, d, x
    <3> QED BY <1>3, <2>1, <2>4, <2>5 DEF Fresh, Answered
  <2> HIDE DEF c, d
  <2> QED BY <1>4, <2>1, <2>5
<1>8. ASSUME CheckHit(t) PROVE Fresh(d, until')
  <2>0. \/ d = [[c EXCEPT !.res = "value", !.val = c.copy.val] EXCEPT !.pc = "return"]
        \/ d = [[c EXCEPT !.copy = None] EXCEPT !.pc = "send"]
    BY <1>2, <1>8 DEF CheckHit, Goes
  <2>1. d.sent = c.sent /\ d.copy \in {c.copy, None} /\ d.pc \in {"return", "send"}
    <3> HIDE DEF c, d
    <3> QED BY <1>2, <2>0 DEF Caller
  <2> HIDE DEF c, d
  <2> QED BY <1>4, <2>1
<1>9. ASSUME Send(t) PROVE Fresh(d, until')
  <2>1. \/ /\ d.sent = now /\ d.copy = c.copy /\ d.pc = "call" /\ d.call = "sent"
           /\ d.stable = c.stable
        \/ d.sent = c.sent /\ d.copy = c.copy /\ d.pc = "panic"
    <3>1. \/ d = [[c EXCEPT !.call = "sent", !.sent = now] EXCEPT !.pc = "call"]
          \/ d = [c EXCEPT !.pc = "panic"]
      BY <1>2, <1>9 DEF Send, Goes, Only
    <3> HIDE DEF c, d
    <3> QED BY <1>2, <3>1 DEF Caller
  <2>2. c.copy = None /\ ~c.stable BY <1>2, <1>9 DEF Send, Good, CopyInv, MutationInv
  <2>3. CASE d.pc = "call"
    <3>1. RpcTimeout \in Nat BY RoutingAssumption
    <3> HIDE DEF c, d
    <3> QED BY <1>1, <2>1, <2>2, <2>3, <3>1 DEF Fresh, Answered
  <2> HIDE DEF c, d
  <2> QED BY <1>4, <2>1, <2>3
<1>10. ASSUME Admit(t) PROVE Fresh(d, until')
  <2>1. /\ d.sent = c.sent /\ d.copy = c.copy /\ d.pc = "call" /\ d.stable = c.stable
        /\ d.call = "admitted" \/ d.res \in {"topology", "fail"}
    <3>1. \/ d = [[c EXCEPT !.call = "admitted"] EXCEPT !.pc = "call"]
          \/ \E r \in {"topology", "fail"} :
               d = [[c EXCEPT !.call = "replied", !.res = r] EXCEPT !.pc = "call"]
      BY <1>2, <1>10 DEF Admit, Goes
    <3> HIDE DEF c, d
    <3> QED BY <1>2, <3>1 DEF Caller
  <2>2. c.pc = "call" BY <1>10 DEF Admit
  <2>3. c.copy = None /\ ~c.stable BY <1>2, <2>2 DEF Good, CopyInv, MutationInv
  <2> HIDE DEF c, d
  <2> QED BY <1>3, <2>1, <2>2, <2>3 DEF Fresh, Answered
<1>11. ASSUME Act(t) PROVE Fresh(d, until')
  <2> DEFINE answer(r, v) == [[c EXCEPT !.call = "replied", !.res = r, !.val = v,
                                        !.applied = c.own, !.seen = view[Node(t)]]
                              EXCEPT !.pc = "call"]
  <2>1. \/ d = answer("ok", c.val) /\ Mutate(c.own, c.val)
        \/ d = answer("value", main[c.own]) /\ main[c.own] # None /\ UNCHANGED caches
        \/ \E l \in Loads : d = answer(l.res, l.val)
    BY <1>2, <1>11 DEF Act, Goes
  <2>2. c.pc = "call" BY <1>11 DEF Act
  <2>3. /\ c.copy = None /\ ~c.stable /\ c.own \in Nodes /\ c.val \in MaybeVal /\ c.sent \in Nat
    BY <1>2, <2>2 DEF Good, CopyInv, MutationInv, Picked, Caller
  <2> HIDE DEF c, d
  <2>4. \A r, v : LET a == answer(r, v) IN
          /\ a.sent = c.sent /\ a.copy = c.copy /\ a.pc = "call" /\ a.stable = c.stable
          /\ a.own = c.own /\ a.val = v
    BY <1>2 DEF Caller
  <2> HIDE DEF answer
  <2>5. /\ d.sent = c.sent /\ d.copy = c.copy /\ d.pc = "call" /\ d.stable = c.stable
        /\ d.own = c.own
        /\ \/ d.val = c.val /\ Mutate(c.own, c.val)
           \/ d.val = main[c.own] /\ main[c.own] # None /\ UNCHANGED caches
           \/ d.val = None
    <3>1. \A l \in Loads : l.val = None BY DEF Loads
    <3> QED BY <2>1, <2>4, <3>1
  <2>6. d.val # None => until'[d.own][d.val] = Never
    <3>1. CASE d.val = c.val /\ Mutate(c.own, c.val)
      BY <1>1, <2>3, <2>5, <3>1, MainMutated
    <3>2. CASE d.val = main[c.own] /\ main[c.own] # None /\ UNCHANGED caches
      BY <1>1, <2>3, <2>5, <3>2 DEF MainInv, caches
    <3> QED BY <2>5, <3>1, <3>2
  <2>7. Never >= c.sent BY <1>1, <1>3, <2>3, TimeTypes DEF Fresh
  <2> QED BY <1>3, <2>2, <2>3, <2>5, <2>6, <2>7 DEF Fresh, Answered
<1>12. ASSUME CallFails(t) PROVE Fresh(d, until')
  <2>1. d.sent = c.sent /\ d.copy = c.copy /\ d.pc = "return"
    BY <1>2, <1>12 DEF CallFails, Returns, Goes, Caller
  <2> HIDE DEF c, d
  <2> QED BY <1>4, <2>1
<1>13. ASSUME Continue(t), ~c.stable PROVE Fresh(d, until')
  <2>1. /\ d.sent = c.sent /\ d.copy = c.copy /\ d.pc \in {"pick", "return", "local"}
        /\ d.stable = c.stable
    <3>1. \/ d = [[c EXCEPT !.att = NextAttempt(t)] EXCEPT !.pc = "pick"]
          \/ d = [[c EXCEPT !.res = "topology"] EXCEPT !.pc = "return"]
          \/ d = [c EXCEPT !.pc = "local"]
      BY <1>2, <1>13 DEF Continue, Returns, Only, Goes
    <3> HIDE DEF c, d
    <3> QED BY <1>2, <3>1 DEF Caller
  <2> HIDE DEF c, d
  <2> QED BY <1>4, <1>13, <2>1
<1>14. ASSUME Reply(t) PROVE Fresh(d, until')
  <2>1. c.pc = "call" /\ c.call = "replied" BY <1>14 DEF Reply
  <2>2. ~c.stable /\ c.copy = None BY <1>2, <2>1 DEF Good, MutationInv, CopyInv
  <2>3. \/ Continue(t)
        \/ d.sent = c.sent /\ d.copy = c.copy /\ d.pc \in {"return", "wait"}
        \/ /\ d = [c EXCEPT !.pc = "check"]
           /\ c.res \notin {"topology", "miss", "fail"}
    <3>1. \/ Continue(t)
          \/ d = [[c EXCEPT !.res = "topology"] EXCEPT !.pc = "return"]
          \/ d = [c EXCEPT !.pc = "wait"]
          \/ d = [c EXCEPT !.pc = "return"]
          \/ /\ d = [c EXCEPT !.pc = "check"]
             /\ c.res \notin {"topology", "miss", "fail"}
      BY <1>2, <1>14 DEF Reply, Returns, Only, Goes
    <3> HIDE DEF c, d
    <3> QED BY <1>2, <3>1 DEF Caller
  <2>4. CASE /\ d = [c EXCEPT !.pc = "check"]
             /\ c.res \notin {"topology", "miss", "fail"}
    <3>1. /\ d.pc = "check" /\ d.sent = c.sent /\ d.copy = c.copy /\ d.stable = c.stable
          /\ d.val = c.val /\ d.own = c.own
      BY <1>2, <2>4 DEF Caller
    <3>2. c.res \in {"ok", "value"} BY <1>2, <2>1, <2>4 DEF Good, AnswerInv
    <3> HIDE DEF c, d
    <3> QED BY <1>3, <2>1, <2>2, <3>1, <3>2 DEF Fresh, Answered
  <2> HIDE DEF c, d
  <2> QED BY <1>4, <1>13, <2>2, <2>3, <2>4
<1>15. ASSUME Wait(t) PROVE Fresh(d, until')
  <2>1. ~c.stable BY <1>2, <1>15 DEF Wait, Good, MutationInv
  <2>2. Continue(t) \/ (d.sent = c.sent /\ d.copy = c.copy /\ d.pc = "return")
    <3>1. Continue(t) \/ d = [[c EXCEPT !.res = "fail"] EXCEPT !.pc = "return"]
      BY <1>2, <1>15 DEF Wait, Returns, Goes
    <3> HIDE DEF c, d
    <3> QED BY <1>2, <3>1 DEF Caller
  <2> HIDE DEF c, d
  <2> QED BY <1>4, <1>13, <2>1, <2>2
<1>16. ASSUME Check(t) PROVE Fresh(d, until')
  <2>1. c.pc = "check" BY <1>16 DEF Check
  <2>2. ~c.stable /\ c.copy = None BY <1>2, <2>1 DEF Good, MutationInv, CopyInv
  <2>3. \/ Continue(t)
        \/ d.sent = c.sent /\ d.copy = c.copy /\ d.pc = "return"
        \/ /\ d.pc \in {"local", "fill"} /\ d.sent = c.sent /\ d.copy = c.copy
           /\ d.val = c.val /\ d.own = c.own /\ d.op = c.op /\ (d.pc = "local" <=> c.op # "get")
    <3> DEFINE l == IF c.op # "get" THEN "local" ELSE IF Near THEN "fill" ELSE "return"
    <3>1. \/ Continue(t)
          \/ d = [[c EXCEPT !.res = "topology"] EXCEPT !.pc = "return"]
          \/ d = [[c EXCEPT !.stable = TRUE] EXCEPT !.pc = l]
      BY <1>2, <1>16 DEF Check, Returns, Goes
    <3>2. l \in {"local", "fill", "return"} /\ (l = "local" <=> c.op # "get") OBVIOUS
    <3> HIDE DEF c, d, l
    <3> QED BY <1>2, <3>1, <3>2 DEF Caller
  <2>4. CASE /\ d.pc \in {"local", "fill"} /\ d.sent = c.sent /\ d.copy = c.copy
             /\ d.val = c.val /\ d.own = c.own /\ d.op = c.op /\ (d.pc = "local" <=> c.op # "get")
    <3>1. c.op \in {"get", "set"} => c.val \in Vals
      BY <1>2, <2>1 DEF Good, ValInv, AnswerInv
    <3>2. c.own \in Nodes /\ c.sent \in Nat /\ c.op \in Ops
      BY <1>2, <2>1 DEF Good, Picked, Caller
    <3>3. until' \in [Nodes -> [Vals -> 0..Never]] /\ UNCHANGED until
      BY <1>1, <1>16 DEF Check, caches, TypeInv
    <3>4. c.op \in {"get", "set"} => c.val # None /\ until'[c.own][c.val] \in Nat
      BY <1>1, <3>1, <3>2, <3>3, TimeTypes, Constants
    <3> HIDE DEF c, d
    <3>5. c.op \in {"get", "set"} =>
            until'[c.own][c.val] >= c.sent /\ now <= c.sent + RpcTimeout
      BY <1>3, <2>1, <3>4 DEF Fresh, Answered
    <3>6. c.op \in {"get", "set"} =>
            /\ until'[c.own][c.val] + RpcTimeout >= now
            /\ until'[c.own][c.val] + 2 * RpcTimeout >= now
      <4>1. now \in Nat /\ RpcTimeout \in Nat BY <1>1, TimeTypes
      <4> QED BY <3>2, <3>4, <3>5, <4>1
    <3> QED BY <1>3, <2>2, <2>4, <3>2, <3>6 DEF Fresh, Answered, Ops
  <2> HIDE DEF c, d
  <2> QED BY <1>4, <1>13, <2>2, <2>3, <2>4
<1>17. ASSUME Local(t) PROVE Fresh(d, until')
  <2>1. /\ d.pc = "cast" /\ d.sent = c.sent /\ d.copy = c.copy /\ d.val = c.val
        /\ d.own = c.own /\ d.op = c.op /\ d.stable = c.stable
    BY <1>2, <1>17 DEF Local, Only, Goes, Caller
  <2>2. c.pc = "local" BY <1>17 DEF Local
  <2> HIDE DEF c, d
  <2> QED BY <1>3, <2>1, <2>2 DEF Fresh, Answered
<1>18. ASSUME Broadcast(t) PROVE Fresh(d, until')
  <2>1. /\ d.pc = "inval" /\ d.sent = now /\ d.copy = c.copy /\ d.val = c.val
        /\ d.own = c.own /\ d.op = c.op /\ d.stable = c.stable
    BY <1>2, <1>18 DEF Broadcast, Goes, Caller
  <2>2. c.pc = "cast" BY <1>18 DEF Broadcast
  <2>3. now <= now + RpcTimeout /\ now <= now BY <1>1, TimeTypes
  <2> HIDE DEF c, d
  <2> QED BY <1>3, <2>1, <2>2, <2>3 DEF Fresh, Answered
<1>19. ASSUME NEW p \in Nodes, Invalidate(t, p) PROVE Fresh(d, until')
  <2>1. /\ d.pc = "inval" /\ d.sent = c.sent /\ d.copy = c.copy /\ d.val = c.val
        /\ d.own = c.own /\ d.op = c.op /\ d.stable = c.stable
    BY <1>2, <1>19 DEF Invalidate, Goes, Caller
  <2>2. c.pc = "inval" BY <1>19 DEF Invalidate
  <2> HIDE DEF c, d
  <2> QED BY <1>3, <2>1, <2>2 DEF Fresh, Answered
<1>20. ASSUME Finish(t) PROVE Fresh(d, until')
  <2>1. c.pc = "inval" BY <1>20 DEF Finish
  <2>2. \/ d.pc = "return" /\ d.sent = c.sent /\ d.copy = c.copy
        \/ /\ d.pc = "fill" /\ d.sent = c.sent /\ d.copy = c.copy /\ d.val = c.val
           /\ d.own = c.own /\ c.op = "set" /\ c.stable
    <3>1. \/ d = [[c EXCEPT !.res = "ok"] EXCEPT !.pc = "return"]
          \/ d = [c EXCEPT !.pc = "fill"] /\ c.op = "set" /\ c.stable
      BY <1>2, <1>20 DEF Finish, Only, Returns, Goes
    <3> HIDE DEF c, d
    <3> QED BY <1>2, <3>1 DEF Caller
  <2>3. CASE /\ d.pc = "fill" /\ d.sent = c.sent /\ d.copy = c.copy /\ d.val = c.val
             /\ d.own = c.own /\ c.op = "set" /\ c.stable
    <3>1. c.own \in Nodes /\ c.val \in Vals /\ c.sent \in Nat
      BY <1>2, <2>1, <2>3, ValueTypes
    <3>2. UNCHANGED until BY <1>20 DEF Finish, caches
    <3>3. until'[c.own][c.val] \in Nat BY <1>1, <3>1, <3>2, TimeTypes
    <3> HIDE DEF c, d
    <3>4. until'[c.own][c.val] + RpcTimeout >= c.sent /\ now <= c.sent + RpcTimeout
      BY <1>3, <2>1, <2>3 DEF Fresh
    <3>5. until'[c.own][c.val] + 2 * RpcTimeout >= now BY <1>1, <3>1, <3>3, <3>4, TimeTypes
    <3> QED BY <1>3, <2>1, <2>3, <3>5 DEF Fresh, Answered
  <2> HIDE DEF c, d
  <2> QED BY <1>4, <2>2, <2>3
<1>21. ASSUME Fill(t) PROVE Fresh(d, until')
  <2>1. d.sent = c.sent /\ d.copy = c.copy /\ d.pc = "return"
    BY <1>2, <1>21 DEF Fill, Returns, Goes, Caller
  <2> HIDE DEF c, d
  <2> QED BY <1>4, <2>1
<1>22. ASSUME Return(t) PROVE Fresh(d, until')
  <2>1. d = Idle BY <1>2, <1>22 DEF Return
  <2>2. d.sent = 0 /\ d.copy = None /\ d.pc = "idle" /\ ~d.stable BY <2>1 DEF Idle
  <2> HIDE DEF c, d
  <2> QED BY <1>1, <2>2 DEF Fresh, Answered
<1> HIDE DEF c, d
<1>23. Fresh(d, until')
  BY <1>5, <1>6, <1>7, <1>8, <1>9, <1>10, <1>11, <1>12, <1>14, <1>15, <1>16, <1>17, <1>18,
     <1>19, <1>20, <1>21, <1>22 DEF Advance
<1> QED BY <1>23 DEF d

\* What is in a node's own cache was left there by the last mutation.
LEMMA MainStep ==
  ASSUME RoutingInv, ~ReadThrough, MainInv, [Next]_vars PROVE MainInv'
<1>1. TypeInv /\ CallerInv /\ main \in [Nodes -> MaybeVal] BY DEF RoutingInv, TypeInv
<1>2. ASSUME UNCHANGED caches PROVE MainInv' BY <1>2, MainKept DEF caches
<1>3. ASSUME NEW o \in Nodes, Adopt(o) \/ UNCHANGED main, UNCHANGED until PROVE MainInv'
  <2>1. \A n \in Nodes : main'[n] \in {main[n], None} BY <1>1, <1>3 DEF Adopt
  <2> QED BY <1>3, <2>1, MainKept
<1>4. ASSUME NEW t \in Threads, Act(t) PROVE MainInv'
  <2>1. Good(t, th[t]) BY <1>1 DEF CallerInv
  <2>2. th[t].own \in Nodes /\ th[t].val \in MaybeVal
    BY <1>4, <2>1 DEF Act, Good, Picked, Caller
  <2>3. CASE Mutate(th[t].own, th[t].val) BY <1>1, <2>2, <2>3, MainMutated
  <2>4. ASSUME NEW l \in Loads, main' = [main EXCEPT ![th[t].own] = l.main], UNCHANGED until
        PROVE  MainInv'
    <3>1. l.main = None BY DEF Loads
    <3>2. \A n \in Nodes : main'[n] \in {main[n], None} BY <1>1, <2>4, <3>1
    <3> QED BY <2>4, <3>2, MainKept
  <2> QED BY <1>2, <1>4, <2>3, <2>4 DEF Act
<1>5. ASSUME NEW t \in Threads, NEW p \in Nodes, Invalidate(t, p) PROVE MainInv'
  <2>1. None \in MaybeVal BY DEF MaybeVal
  <2> QED BY <1>1, <1>2, <1>5, <2>1, MainMutated DEF Invalidate
<1>6. ASSUME NEW t \in Threads, Admit(t) PROVE MainInv'
  <2>1. Good(t, th[t]) BY <1>1 DEF CallerInv
  <2>2. th[t].own \in Nodes BY <1>6, <2>1 DEF Admit, Good, Picked
  <2> QED BY <1>3, <1>6, <2>2 DEF Admit
<1>7. ASSUME NEW t \in Threads, Local(t) \/ CheckHit(t) \/ Fill(t) PROVE MainInv'
  <2>1. \A n \in Nodes : main'[n] \in {main[n], None}
    BY <1>1, <1>7 DEF Local, CheckHit, Fill
  <2>2. UNCHANGED until BY <1>7 DEF Local, CheckHit, Fill
  <2> QED BY <2>1, <2>2, MainKept
<1>8. ASSUME NEW t \in Threads,
             \/ Pick(t) \/ ProbeNear(t) \/ Send(t) \/ CallFails(t) \/ Reply(t) \/ Wait(t)
             \/ Check(t) \/ Broadcast(t) \/ Finish(t) \/ Return(t)
             \/ \E o \in Calls[t] : Start(t, o)
      PROVE  MainInv'
  <2>1. UNCHANGED caches
    BY <1>8 DEF Pick, ProbeNear, Send, CallFails, Reply, Wait, Check, Broadcast, Finish,
       Return, Start
  <2> QED BY <1>2, <2>1
<1>9. ASSUME NEW h \in orphans, AdmitOrphan(h) \/ ActOrphan(h) PROVE MainInv'
  <2>1. h.node \in Nodes /\ h.val \in MaybeVal BY <1>1 DEF TypeInv, Handler
  <2>2. CASE AdmitOrphan(h) BY <1>3, <2>1, <2>2 DEF AdmitOrphan
  <2>3. CASE ActOrphan(h) BY <1>1, <2>1, <2>3, MainMutated DEF ActOrphan
  <2> QED BY <1>9, <2>2, <2>3
<1>10. ASSUME NEW n \in Nodes, Evict(n) PROVE MainInv'
  <2>1. \A m \in Nodes : main'[m] \in {main[m], None} BY <1>1, <1>10 DEF Evict
  <2>2. UNCHANGED until BY <1>10 DEF Evict
  <2> QED BY <2>1, <2>2, MainKept
<1>11. ASSUME \/ \E n \in Nodes, e \in Epochs : ViewMoves(n, e)
              \/ \E t \in Threads : ClosePicker(Node(t))
              \/ Tick \/ UNCHANGED vars
       PROVE  MainInv'
  <2>1. UNCHANGED caches BY <1>11 DEF ViewMoves, ClosePicker, Tick, vars, caches
  <2> QED BY <1>2, <2>1
<1> QED
  BY <1>4, <1>5, <1>6, <1>7, <1>8, <1>9, <1>10, <1>11 DEF Next, Advance

\* Time only passes when no caller has anything at hand.
LEMMA TickStep ==
  ASSUME RoutingInv, TimeInv, Tick PROVE TimeInv'
<1>1. TypeInv /\ CallerInv /\ MainInv /\ now' = now + 1
  BY DEF RoutingInv, TimeInv, Tick
<1>2. UNCHANGED <<main, near, until, th>> BY DEF Tick, caches
<1>3. MainInv' BY <1>1, <1>2 DEF MainInv
<1>4. \A n \in Nodes, e \in Epochs :
        near[n][e] # None => CopyFresh(near[n][e], until)'
  <2> SUFFICES ASSUME NEW n \in Nodes, NEW e \in Epochs, near[n][e] # None
               PROVE  CopyFresh(near[n][e], until)'
    OBVIOUS
  <2>1. near[n][e] \in Copy BY <1>1, NearType DEF MaybeCopy
  <2>2. near[n][e].dead \in Nat BY <2>1 DEF Copy
  <2>3. CopyFresh(near[n][e], until) BY DEF TimeInv
  <2> QED BY <1>1, <1>2, <2>2, <2>3, TimeTypes DEF CopyFresh
<1>5. ASSUME NEW t \in Threads PROVE Fresh(th[t], until)'
  <2> DEFINE c == th[t]
  <2>1. Good(t, c) /\ Fresh(c, until) BY <1>1 DEF CallerInv, TimeInv
  <2>2. c.copy = None BY <2>1 DEF Good, CopyInv, Tick, OnTheWire
  <2>3. \/ c.pc \in {"idle", "wait", "panic"}
        \/ c.pc \in {"call", "inval"} /\ now < c.sent + RpcTimeout
    BY DEF Tick, OnTheWire
  <2>4. c.sent \in Nat BY <2>1, ValueTypes
  <2>5. UNCHANGED c BY <1>2
  <2> HIDE DEF c
  <2>6. c.sent <= now' /\ (c.pc \in {"call", "check", "inval"} => now' <= c.sent + RpcTimeout)
    <3>1. now \in Nat /\ RpcTimeout \in Nat BY <1>1, TimeTypes
    <3>2. c.sent <= now /\ now' = now + 1 BY <2>1 DEF Fresh, Tick
    <3> QED BY <2>3, <2>4, <3>1, <3>2
  <2>7. Fresh(c, until)' BY <1>2, <2>1, <2>2, <2>3, <2>5, <2>6 DEF Fresh, Answered
  <2> QED BY <2>7 DEF c
<1> QED BY <1>2, <1>3, <1>4, <1>5 DEF TimeInv

\* Nothing becomes staler in any other step.
LEMMA TimeStep ==
  ASSUME RoutingInv, ~ReadThrough, TimeInv, [Next]_vars PROVE TimeInv'
<1>1. TypeInv /\ CallerInv /\ MainInv BY DEF RoutingInv, TimeInv
<1>2. MainInv' BY <1>1, MainStep
<1>3. ASSUME UNCHANGED now,
             \A n \in Nodes, e \in Epochs : near'[n][e] # None => CopyFresh(near'[n][e], until'),
             \A t \in Threads : Fresh(th'[t], until')
      PROVE  TimeInv'
  <2>1. \A c, u : CopyFresh(c, u)' = CopyFresh(c, u)
    BY <1>3 DEF CopyFresh
  <2> QED BY <1>2, <1>3, <2>1 DEF TimeInv, Fresh, CopyFresh, Answered
<1>4. ASSUME Frame
      PROVE  /\ \A n \in Nodes, e \in Epochs :
                  near'[n][e] # None => CopyFresh(near'[n][e], until')
             /\ \A t \in Threads : Fresh(th[t], until')
  <2>1. ASSUME NEW n \in Nodes, NEW e \in Epochs, near'[n][e] # None
        PROVE  CopyFresh(near'[n][e], until')
    <3>1. near'[n][e] = near[n][e] BY <1>4, <2>1 DEF Frame
    <3>2. near[n][e] \in Copy BY <1>1, <2>1, <3>1, NearType DEF MaybeCopy
    <3>3. CopyFresh(near[n][e], until) BY <2>1, <3>1 DEF TimeInv
    <3> QED BY <1>1, <1>4, <3>1, <3>2, <3>3, CopyKept
  <2>2. ASSUME NEW t \in Threads PROVE Fresh(th[t], until')
    <3>1. Good(t, th[t]) /\ Fresh(th[t], until) BY <1>1 DEF CallerInv, TimeInv
    <3> QED BY <1>1, <1>4, <3>1, FreshKept
  <2> QED BY <2>1, <2>2
<1>5. ASSUME NEW t \in Threads, Advance(t) \/ \E o \in Calls[t] : Start(t, o) PROVE TimeInv'
  <2>1. Advance(t) \/ \E o \in Ops : Start(t, o) BY <1>5, RoutingAssumption
  <2>2. Fresh(th'[t], until') BY <2>1, FreshStep
  <2>3. UNCHANGED now
    BY <2>1 DEF Advance, Start, Pick, ProbeNear, CheckHit, Send, Admit, Act, CallFails, Reply,
       Wait, Check, Local, Broadcast, Invalidate, Finish, Fill, Return
  <2>4. \A u \in Threads : u # t => th'[u] = th[u]
    <3>1. \E d : Takes(t, d) BY <1>5, CallerStep DEF RoutingInv
    <3> QED BY <1>1, <3>1 DEF Takes, TypeInv
  <2>5. CASE ~Fill(t)
    <3>1. Frame BY <1>1, <2>1, <2>5, CallerFrame
    <3>2. \A u \in Threads : Fresh(th'[u], until') BY <1>4, <2>2, <2>4, <3>1
    <3> QED BY <1>3, <1>4, <2>3, <3>1, <3>2
  <2>6. CASE Fill(t)
    <3>1. UNCHANGED until BY <2>6 DEF Fill
    <3>2. \A u \in Threads : Fresh(th'[u], until') BY <2>2, <2>4, <3>1 DEF TimeInv
    <3> DEFINE x == [val |-> th[t].val, from |-> th[t].own, epoch |-> th[t].ep,
                     dead |-> Deadline]
    <3>3. \A n \in Nodes, e \in Epochs :
            near'[n][e] = IF n = Node(t) /\ e = x.epoch THEN x ELSE near[n][e]
      BY <1>1, <2>6, FillMoves
    <3>4. th[t].pc = "fill" /\ Good(t, th[t]) /\ Fresh(th[t], until)
      BY <1>1, <2>6 DEF Fill, CallerInv, TimeInv
    <3>5. until[th[t].own][th[t].val] \in Nat BY <1>1, <3>4, ValueTypes, TimeTypes
    <3>6. until[th[t].own][th[t].val] + 2 * RpcTimeout >= now BY <3>4 DEF Fresh
    <3>7. CopyFresh(x, until)
      <4>1. x.val = th[t].val /\ x.from = th[t].own /\ x.dead = now + NearTTL BY DEF Deadline
      <4> HIDE DEF x
      <4>2. now + NearTTL <= until[th[t].own][th[t].val] + NearTTL + 2 * RpcTimeout
        <5>1. ASSUME NEW a \in Nat, NEW b \in Nat, NEW r \in Nat, NEW m \in Nat,
                     a + 2 * r >= m
              PROVE  m + b <= a + b + 2 * r
          BY <5>1
        <5> QED BY <1>1, <3>5, <3>6, <5>1, TimeTypes
      <4>3. now + NearTTL <= now + NearTTL BY <1>1, TimeTypes
      <4> QED BY <4>1, <4>2, <4>3 DEF CopyFresh
    <3> HIDE DEF x
    <3>8. \A n \in Nodes, e \in Epochs : near'[n][e] # None => CopyFresh(near'[n][e], until')
      BY <3>1, <3>3, <3>7 DEF TimeInv
    <3> QED BY <1>3, <2>3, <3>2, <3>8
  <2> QED BY <2>5, <2>6
<1>6. ASSUME \/ \E h \in orphans : AdmitOrphan(h) \/ ActOrphan(h)
             \/ \E n \in Nodes, e \in Epochs : ViewMoves(n, e)
             \/ \E t \in Threads : ClosePicker(Node(t))
             \/ \E n \in Nodes : Evict(n)
             \/ UNCHANGED vars
      PROVE  TimeInv'
  <2>1. Frame /\ UNCHANGED th BY <1>1, <1>6, OthersFrame
  <2>2. UNCHANGED now
    BY <1>6 DEF AdmitOrphan, ActOrphan, ViewMoves, ClosePicker, Evict, vars
  <2> QED BY <1>3, <1>4, <2>1, <2>2
<1> QED BY <1>5, <1>6, TickStep DEF Next

LEMMA TimeInit == Init => TimeInv
<1> SUFFICES ASSUME Init PROVE TimeInv OBVIOUS
<1>1. MainInv BY DEF Init, MainInv
<1>2. \A t \in Threads : Fresh(Idle, until)
  <2>1. Idle.pc = "idle" /\ Idle.sent = 0 /\ Idle.copy = None /\ Idle.stable = FALSE BY DEF Idle
  <2>2. now = 0 BY DEF Init
  <2> QED BY <2>1, <2>2 DEF Fresh, Answered
<1> QED BY <1>1, <1>2 DEF Init, TimeInv

\* In a group without a Getter, a near-cache hit was the content of the node it came from
\* less than nearTTL and two RPC timeouts ago, whatever RPCs and invalidations are lost,
\* for any sequence of memberships and any nearTTL and timeout.
THEOREM StalenessBounded == ~ReadThrough => (Spec => []BoundedStaleness)
<1> SUFFICES ASSUME ~ReadThrough PROVE Spec => []BoundedStaleness OBVIOUS
<1>1. Init => RoutingInv /\ TimeInv BY InitInv, TimeInit
<1>2. RoutingInv /\ TimeInv /\ [Next]_vars => (RoutingInv /\ TimeInv)' BY StepInv, TimeStep
<1>3. RoutingInv /\ TimeInv => BoundedStaleness
  <2> SUFFICES ASSUME RoutingInv, TimeInv, NEW t \in Threads, NearHit(t)
               PROVE  LET c == th[t].copy IN
                      now < until[c.from][c.val] + NearTTL + 2 * RpcTimeout
    BY DEF BoundedStaleness
  <2> DEFINE c == th[t].copy
  <2>1. Good(t, th[t]) /\ Fresh(th[t], until) /\ c # None /\ TypeInv
    BY DEF RoutingInv, CallerInv, TimeInv, NearHit
  <2>2. c \in Copy BY <2>1, ValueTypes
  <2>3. c.from \in Nodes /\ c.val \in Vals /\ c.dead \in Nat BY <2>2 DEF Copy
  <2>4. until[c.from][c.val] \in Nat BY <2>1, <2>3, TimeTypes
  <2>5. now < c.dead /\ c.dead <= until[c.from][c.val] + NearTTL + 2 * RpcTimeout
    BY <2>1 DEF Fresh, CopyFresh
  <2> HIDE DEF c
  <2>6. now < until[c.from][c.val] + NearTTL + 2 * RpcTimeout
    BY <2>1, <2>3, <2>4, <2>5, TimeTypes
  <2> QED BY <2>6 DEF c
<1> QED BY <1>1, <1>2, <1>3, PTL DEF Spec

-----------------------------------------------------------------------------
(* Invalidation in a topology that does not move *)

\* Every caller's node is registered.
Registered == \A s \in Topologies : \A e \in Epochs, t \in Threads : Home[t] \in s[e]

\* The peers still to be invalidated are registered, and none of them is the owner.
TodoInv ==
  \A t \in Threads : th[t].pc = "inval" => th[t].todo \subseteq topo[1] \ {th[t].own}

LEMMA TodoStep ==
  ASSUME MaxTopo = 1, RoutingInv, TodoInv, NEW t \in Threads,
         Advance(t) \/ \E o \in Ops : Start(t, o), th'[t].pc = "inval"
  PROVE  th'[t].todo \subseteq topo[1] \ {th'[t].own}
<1> DEFINE c == th[t]
           d == th'[t]
<1>1. TypeInv /\ Good(t, c) /\ c \in Caller /\ th \in [Threads -> Caller]
  BY DEF RoutingInv, CallerInv, Good, TypeInv
<1>2. ASSUME Broadcast(t) PROVE d.todo \subseteq topo[1] \ {d.own}
  <2>1. d = [[c EXCEPT !.todo = Targets(t), !.sent = now] EXCEPT !.pc = "inval"]
    BY <1>1, <1>2 DEF Broadcast, Goes
  <2>2. Targets(t) \subseteq topo[1] \ {c.own}
    <3>1. view \in [Nodes -> Epochs] BY <1>1 DEF TypeInv
    <3>2. view[Node(t)] \in Epochs BY <3>1, Constants
    <3>3. view[Node(t)] = 1 BY <3>2 DEF Epochs
    <3> QED BY <3>3 DEF Targets, ClientsOf, Members
  <2> HIDE DEF c, d
  <2>3. d.todo = Targets(t) /\ d.own = c.own BY <1>1, <2>1 DEF Caller
  <2> QED BY <2>2, <2>3
<1>3. ASSUME NEW p \in Nodes, Invalidate(t, p) PROVE d.todo \subseteq topo[1] \ {d.own}
  <2>1. d = [[c EXCEPT !.todo = c.todo \ {p}] EXCEPT !.pc = "inval"] /\ c.pc = "inval"
    BY <1>1, <1>3 DEF Invalidate, Goes
  <2>2. c.todo \subseteq topo[1] \ {c.own} BY <2>1 DEF TodoInv
  <2> HIDE DEF c, d
  <2>3. d.todo = c.todo \ {p} /\ d.own = c.own BY <1>1, <2>1 DEF Caller
  <2> QED BY <2>2, <2>3
<1>4. \A l, x : DOMAIN x = DOMAIN c /\ Goes(t, l, x) => d.pc = l
  <2>1. \A l, x : Goes(t, l, x) => d = [x EXCEPT !.pc = l] BY <1>1 DEF Goes
  <2> HIDE DEF c, d
  <2> QED BY <1>1, <2>1 DEF Caller
<1>5. \A l : (Only(t, l) => d.pc = l) /\ \A r : (Returns(t, r) => d.pc = "return")
  BY <1>1, <1>4 DEF Only, Returns, Caller
<1>6. Continue(t) => d.pc # "inval" BY <1>1, <1>4, <1>5 DEF Continue, Caller
<1>7. ASSUME \/ Pick(t) \/ ProbeNear(t) \/ CheckHit(t) \/ Send(t) \/ Admit(t)
             \/ \E o \in Ops : Start(t, o)
      PROVE  d.pc # "inval"
  BY <1>1, <1>4, <1>5, <1>7 DEF Pick, ProbeNear, CheckHit, Send, Admit, Start, Caller
<1>8. ASSUME Act(t) \/ CallFails(t) \/ Reply(t) \/ Wait(t) \/ Check(t) PROVE d.pc # "inval"
  BY <1>1, <1>4, <1>5, <1>6, <1>8 DEF Act, CallFails, Reply, Wait, Check, Caller
<1>9. ASSUME Local(t) \/ Finish(t) \/ Fill(t) \/ Return(t) PROVE d.pc # "inval"
  <2>1. CASE Local(t) \/ Finish(t) BY <1>5, <2>1 DEF Local, Finish
  <2>2. CASE Fill(t) BY <1>5, <2>2 DEF Fill
  <2>3. CASE Return(t)
    <3>1. d = Idle BY <1>1, <2>3 DEF Return
    <3>2. Idle.pc # "inval" BY DEF Idle
    <3> HIDE DEF d
    <3> QED BY <3>1, <3>2
  <2> QED BY <1>9, <2>1, <2>2, <2>3
<1> QED BY <1>2, <1>3, <1>7, <1>8, <1>9 DEF Advance

LEMMA TodoKept ==
  ASSUME MaxTopo = 1, RoutingInv, TodoInv, [Next]_vars PROVE TodoInv'
<1>1. TypeInv /\ CallerInv /\ NearInv /\ th \in [Threads -> Caller] BY DEF RoutingInv, TypeInv
<1>2. UNCHANGED topo
  <2>1. ASSUME NEW t \in Threads, Advance(t) \/ \E o \in Calls[t] : Start(t, o)
        PROVE  UNCHANGED topo
    <3>1. CASE \/ Pick(t) \/ ProbeNear(t) \/ CheckHit(t) \/ Send(t) \/ Admit(t) \/ Act(t)
               \/ \E o \in Calls[t] : Start(t, o)
      BY <3>1 DEF Pick, ProbeNear, CheckHit, Send, Admit, Act, Start, cluster
    <3>2. CASE CallFails(t) \/ Reply(t) \/ Wait(t) \/ Check(t) \/ Local(t)
      BY <3>2 DEF CallFails, Reply, Wait, Check, Local, cluster
    <3>3. CASE \/ Broadcast(t) \/ (\E p \in Nodes : Invalidate(t, p)) \/ Finish(t) \/ Fill(t)
               \/ Return(t)
      BY <3>3 DEF Broadcast, Invalidate, Finish, Fill, Return, cluster
    <3> QED BY <2>1, <3>1, <3>2, <3>3 DEF Advance
  <2> QED BY <1>1, <2>1, OthersFrame DEF Next, Frame
<1>3. ASSUME NEW t \in Threads, Advance(t) \/ \E o \in Calls[t] : Start(t, o) PROVE TodoInv'
  <2>1. \A u \in Threads : u # t => th'[u] = th[u]
    <3>1. \E d : Takes(t, d) BY <1>1, <1>3, CallerStep
    <3> QED BY <1>1, <3>1 DEF Takes
  <2>2. Advance(t) \/ \E o \in Ops : Start(t, o) BY <1>3, RoutingAssumption
  <2> QED BY <1>2, <2>1, <2>2, TodoStep DEF TodoInv
<1>4. ASSUME UNCHANGED th PROVE TodoInv' BY <1>2, <1>4 DEF TodoInv
<1> QED BY <1>1, <1>3, <1>4, OthersFrame DEF Next

\* While the topology does not move, and if the callers' nodes are in it, invalidation
\* spares the owner: only a Delete removes what a mutation left there.
THEOREM OwnerSpared == Registered => (Spec => InvalidationSparesOwner)
<1> SUFFICES ASSUME Registered PROVE Spec => InvalidationSparesOwner OBVIOUS
<1> DEFINE Inv == RoutingInv /\ (MaxTopo = 1 => TodoInv)
           Spares(n) ==
             MaxTopo = 1 /\ Owner(n) = n /\ content[n] # None /\ content'[n] = None =>
               \/ \E t \in Threads : th[t].op = "del" /\ th[t].pc = "call"
               \/ \E h \in orphans : h.val = None
<1>1. Init => Inv
  <2> SUFFICES ASSUME Init PROVE Inv OBVIOUS
  <2>1. \A t \in Threads : th[t].pc = "idle" BY DEF Init, Idle
  <2> QED BY InitInv, <2>1 DEF TodoInv
<1>2. Inv /\ [Next]_vars => Inv' BY StepInv, TodoKept
<1>3. Inv /\ [Next]_vars => [\A n \in Nodes : Spares(n)]_vars
  <2> SUFFICES ASSUME Inv, Next, MaxTopo = 1, NEW n \in Nodes, Owner(n) = n,
                      content[n] # None, content'[n] = None
               PROVE  \/ \E t \in Threads : th[t].op = "del" /\ th[t].pc = "call"
                      \/ \E h \in orphans : h.val = None
    OBVIOUS
  <2>1. TypeInv /\ CallerInv /\ TodoInv /\ content \in [Nodes -> MaybeVal]
    BY DEF RoutingInv, TypeInv
  <2>2. \A o \in Nodes : \A v : Mutate(o, v) => o = n /\ v = None BY <2>1 DEF Mutate
  <2>3. ASSUME NEW t \in Threads, Act(t) PROVE th[t].op = "del" /\ th[t].pc = "call"
    <3>1. Good(t, th[t]) BY <2>1 DEF CallerInv
    <3>2. th[t].own \in Nodes /\ th[t].pc = "call" /\ th[t].op \in Ops
      BY <2>3, <3>1 DEF Act, Good, Picked, Caller
    <3>3. th[t].op # "get" /\ Mutate(th[t].own, th[t].val) BY <2>3 DEF Act, caches
    <3>4. th[t].val = None BY <2>2, <3>2, <3>3
    <3>5. None \notin Vals BY RoutingAssumption DEF Vals
    <3> QED BY <3>1, <3>2, <3>3, <3>4, <3>5 DEF Good, ValInv, Ops
  <2>4. ASSUME NEW t \in Threads, NEW p \in Nodes, Invalidate(t, p) PROVE FALSE
    <3>1. p = n BY <2>2, <2>4 DEF Invalidate, caches
    <3>2. th[t].pc = "inval" /\ n \in topo[1] /\ n # th[t].own
      BY <2>1, <2>4, <3>1 DEF Invalidate, TodoInv
    <3>3. Good(t, th[t]) BY <2>1 DEF CallerInv
    <3>4. th[t].own = OwnerAt(Node(t), 1)
      <4>1. th[t].ep \in Epochs /\ th[t].own = OwnerAt(Node(t), th[t].ep)
        BY <3>2, <3>3 DEF Good, Picked
      <4>2. th[t].ep = 1 BY <4>1 DEF Epochs
      <4> QED BY <4>1, <4>2
    <3>5. view[n] = 1 /\ 1 \in Epochs BY <2>1 DEF TypeInv, Epochs
    <3>6. Node(t) \in topo[1] /\ Node(t) \in Nodes
      BY <2>1, <3>5, Constants DEF Registered, TypeInv, Node
    <3>7. Members(Node(t), 1) = Members(n, 1) BY <3>2, <3>6 DEF Members
    <3>8. OwnerAt(Node(t), 1) = OwnerAt(n, 1) BY <3>7 DEF OwnerAt
    <3> QED BY <3>2, <3>4, <3>5, <3>8 DEF Owner
  <2>5. ASSUME NEW h \in orphans, ActOrphan(h) PROVE h.val = None
    <3>1. h.node \in Nodes BY <2>1 DEF TypeInv, Handler
    <3> QED BY <2>2, <2>5, <3>1 DEF ActOrphan
  <2>6. ASSUME UNCHANGED content PROVE FALSE BY <2>6
  <2>7. ASSUME NEW t \in Threads, Advance(t) \/ \E o \in Calls[t] : Start(t, o), ~Act(t)
        PROVE  FALSE
    BY <2>4, <2>6, <2>7 DEF Advance, Start, Pick, ProbeNear, CheckHit, Send, Admit, CallFails,
       Reply, Wait, Check, Local, Broadcast, Finish, Fill, Return, caches
  <2>8. ASSUME \/ \E h \in orphans : AdmitOrphan(h)
               \/ \E m \in Nodes, e \in Epochs : ViewMoves(m, e)
               \/ \E t \in Threads : ClosePicker(Node(t))
               \/ \E m \in Nodes : Evict(m)
               \/ Tick
        PROVE  FALSE
    BY <2>6, <2>8 DEF AdmitOrphan, ViewMoves, ClosePicker, Evict, Tick, caches
  <2> QED BY <2>3, <2>5, <2>7, <2>8 DEF Next
<1> HIDE DEF Inv
<1>4. Spec => [][\A n \in Nodes : Spares(n)]_vars BY <1>1, <1>2, <1>3, PTL DEF Spec
<1> QED BY <1>4 DEF InvalidationSparesOwner
=============================================================================
