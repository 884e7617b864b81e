------------------------------- MODULE Server -------------------------------
(***************************************************************************)
(* Server.Start and Server.Stop (server.go) with the Registration they     *)
(* share (registry/register.go), and etcd and grpc.Server as far as they   *)
(* are used: a lease that expires unless it is renewed, a key that goes    *)
(* with the lease it was last put with, a listener that GracefulStop       *)
(* closes.  The same address may be taken over by a later process.         *)
(***************************************************************************)
CONSTANTS
  Requests,   \* RPCs
  MayFail,    \* calls of etcd and Accept may fail, leases may be lost
  MayCrash    \* the process may die

ASSUME ServerAssumption == MayFail \in BOOLEAN /\ MayCrash \in BOOLEAN

VARIABLES
  start, stop,  \* where Start and Stop are
  ctx,          \* s.ctx is cancelled
  rctx,         \* the context of Register is cancelled by itself
  reg,          \* s.registration is set
  saw,          \* what Stop has read from it
  once,         \* r.once: "free", the caller inside, "over"
  revoked,      \* outcome of Revoke: "none", "ok", "failed"
  keeper,       \* the goroutine of Register: "none", "running", "ended"
  grpc,         \* s.grpcServer: "new", "stopping", "stopped"
  cli,          \* s.etcdCli is open
  lease,        \* the lease in etcd: "none", "live", "gone"
  key,          \* the lease the service key has: "none", "own", "next"
  port,         \* who listens on the address: "none", "own", "next"
  busy,         \* the RPCs whose handlers run
  lost          \* the lease has expired while it was renewed, or before it ever was

serverVars == <<start, stop, ctx, rctx, reg, saw, once, revoked, keeper, grpc, cli, lease, key,
          port, busy, lost>>

ServerInit ==
  /\ start = "idle" /\ stop = "idle"
  /\ ctx = FALSE /\ rctx = FALSE
  /\ reg = FALSE /\ saw = FALSE
  /\ once = "free" /\ revoked = "none" /\ keeper = "none"
  /\ grpc = "new" /\ cli = TRUE
  /\ lease = "none" /\ key = "none" /\ port = "none" /\ busy = {} /\ lost = FALSE

\* The context of Register is a child of s.ctx.
Cancelled == ctx \/ rctx

\* A call of etcd can succeed.
Usable == cli /\ ~Cancelled

\* The key goes with its lease.
LeaseEnds == lease' = "gone" /\ key' = IF key = "own" THEN "none" ELSE key

-----------------------------------------------------------------------------
(* Start *)

\* net.Listen; it fails while somebody else listens there.
Listen ==
  /\ start = "idle"
  /\ IF port = "none" THEN start' = "grant" /\ port' = "own"
                      ELSE start' = "failed" /\ UNCHANGED port
  /\ UNCHANGED <<stop, ctx, rctx, reg, saw, once, revoked, keeper, grpc, cli, lease,
                 key, busy, lost>>

\* An error in Register: cancel and return; Start closes the listener.
RegisterFails == start' = "unlisten" /\ rctx' = TRUE

\* cli.Grant.
Grant ==
  /\ start = "grant"
  /\ \/ Usable /\ lease' = "live" /\ start' = "put" /\ UNCHANGED rctx
     \/ (MayFail \/ ~Usable) /\ RegisterFails /\ UNCHANGED lease
  /\ UNCHANGED <<stop, ctx, reg, saw, once, revoked, keeper, grpc, cli, key, port,
                 busy, lost>>

\* cli.Put with the lease; an error does not mean that etcd has not done it.
Put ==
  /\ start = "put"
  /\ \/ Usable /\ lease = "live" /\ key' = "own" /\ start' = "keepalive" /\ UNCHANGED rctx
     \/ MayFail /\ Usable /\ lease = "live" /\ key' = "own" /\ RegisterFails
     \/ (MayFail \/ ~Usable \/ lease # "live") /\ RegisterFails /\ UNCHANGED key
  /\ UNCHANGED <<stop, ctx, reg, saw, once, revoked, keeper, grpc, cli, lease, port,
                 busy, lost>>

\* Mutant: the keepalive uses the context of the Put, which is over.
KeepAliveShort ==
  /\ start = "keepalive"
  /\ keeper' = "ended" /\ start' = "publish"
  /\ UNCHANGED <<stop, ctx, rctx, reg, saw, once, revoked, grpc, cli, lease, key, port,
                 busy, lost>>

\* cli.KeepAlive; the goroutine that reads its channel starts.
KeepAlive ==
  /\ start = "keepalive"
  /\ \/ cli /\ keeper' = "running" /\ start' = "publish" /\ UNCHANGED rctx
     \/ (MayFail \/ ~cli) /\ RegisterFails /\ UNCHANGED keeper
  /\ UNCHANGED <<stop, ctx, reg, saw, once, revoked, grpc, cli, lease, key, port,
                 busy, lost>>

\* lis.Close after a failed Register.
Unlisten ==
  /\ start = "unlisten"
  /\ start' = "failed" /\ port' = "none"
  /\ UNCHANGED <<stop, ctx, rctx, reg, saw, once, revoked, keeper, grpc, cli, lease,
                 key, busy, lost>>

\* s.registration and s.listener, under s.mu.
Publish ==
  /\ start = "publish"
  /\ start' = "serve" /\ reg' = TRUE
  /\ UNCHANGED <<stop, ctx, rctx, saw, once, revoked, keeper, grpc, cli, lease, key,
                 port, busy, lost>>

\* grpcServer.Serve: a stopped server closes the listener at once; otherwise it
\* serves until GracefulStop is through or Accept fails.
Serve ==
  /\ \/ start = "serve" /\ grpc = "new" /\ start' = "serving" /\ UNCHANGED port
     \/ start = "serve" /\ grpc # "new" /\ start' = "close" /\ port' = "none"
     \/ start = "serving" /\ grpc = "stopped" /\ start' = "close" /\ UNCHANGED port
     \/ /\ start = "serving" /\ grpc = "new" /\ MayFail
        /\ start' = "close" /\ port' = "none"
  /\ UNCHANGED <<stop, ctx, rctx, reg, saw, once, revoked, keeper, grpc, cli, lease,
                 key, busy, lost>>

-----------------------------------------------------------------------------
(* Registration.Close, called by the deferred function of Start and by Stop. *)

\* The step of caller c moves on; where Close returns to.
At(c, l) == IF c = "start" THEN start = l ELSE stop = l
Moves(c, l) ==
  IF c = "start" THEN start' = l /\ UNCHANGED stop ELSE stop' = l /\ UNCHANGED start
After(c) == IF c = "start" THEN "returned" ELSE "graceful"

\* Mutant: a flag instead of a sync.Once: the second caller does not wait.
CloseFlag(c) ==
  /\ At(c, "close")
  /\ IF once = "free" THEN rctx' = TRUE /\ once' = c /\ Moves(c, "revoke")
     ELSE Moves(c, After(c)) /\ UNCHANGED <<rctx, once>>
  /\ UNCHANGED <<ctx, reg, saw, revoked, keeper, grpc, cli, lease, key, port, busy,
                 lost>>

\* Mutant: the keepalive is not cancelled.
CloseUncancelled(c) ==
  /\ At(c, "close")
  /\ \/ once = "free" /\ once' = c /\ Moves(c, "revoke")
     \/ once = "over" /\ Moves(c, After(c)) /\ UNCHANGED once
  /\ UNCHANGED <<ctx, rctx, reg, saw, revoked, keeper, grpc, cli, lease, key, port,
                 busy, lost>>

\* once.Do: the first caller cancels; the other one waits until it is through.
CloseRegistration(c) ==
  /\ At(c, "close")
  /\ \/ once = "free" /\ rctx' = TRUE /\ once' = c /\ Moves(c, "revoke")
     \/ once = "over" /\ Moves(c, After(c)) /\ UNCHANGED <<rctx, once>>
  /\ UNCHANGED <<ctx, reg, saw, revoked, keeper, grpc, cli, lease, key, port, busy,
                 lost>>

\* Mutant: the key is deleted, whatever lease it has by now.
RevokeByName(c) ==
  /\ At(c, "revoke")
  /\ \/ cli /\ lease' = "gone" /\ key' = "none" /\ revoked' = "ok"
     \/ (MayFail \/ ~cli) /\ revoked' = "failed" /\ UNCHANGED <<lease, key>>
  /\ once' = "over" /\ Moves(c, After(c))
  /\ UNCHANGED <<ctx, rctx, reg, saw, keeper, grpc, cli, port, busy, lost>>

\* Having waited for the goroutine, or for its own timeout, it revokes the lease.
Revoke(c) ==
  /\ At(c, "revoke")
  /\ \/ cli /\ lease = "live" /\ LeaseEnds /\ revoked' = "ok"
     \/ MayFail /\ cli /\ lease = "live" /\ LeaseEnds /\ revoked' = "failed"
     \/ /\ MayFail \/ ~cli \/ lease # "live"
        /\ revoked' = "failed" /\ UNCHANGED <<lease, key>>
  /\ once' = "over" /\ Moves(c, After(c))
  /\ UNCHANGED <<ctx, rctx, reg, saw, keeper, grpc, cli, port, busy, lost>>

-----------------------------------------------------------------------------
(* Stop *)

\* s.cancel, the first call in stopOnce.
StopCancel ==
  /\ stop = "idle"
  /\ stop' = "read" /\ ctx' = TRUE
  /\ UNCHANGED <<start, rctx, reg, saw, once, revoked, keeper, grpc, cli, lease, key,
                 port, busy, lost>>

\* Mutant: without a registration there is nothing to stop.
StopReadEarly ==
  /\ stop = "read"
  /\ saw' = reg
  /\ stop' = IF reg THEN "close" ELSE "client"
  /\ UNCHANGED <<start, ctx, rctx, reg, once, revoked, keeper, grpc, cli, lease, key,
                 port, busy, lost>>

\* The registration, under s.mu.
StopRead ==
  /\ stop = "read"
  /\ saw' = reg
  /\ stop' = IF reg THEN "close" ELSE "graceful"
  /\ UNCHANGED <<start, ctx, rctx, reg, once, revoked, keeper, grpc, cli, lease, key,
                 port, busy, lost>>

\* grpcServer.GracefulStop closes the listener it serves ...
GracefulStop ==
  /\ stop = "graceful"
  /\ stop' = "drain" /\ grpc' = "stopping"
  /\ port' = IF start = "serving" THEN "none" ELSE port
  /\ UNCHANGED <<start, ctx, rctx, reg, saw, once, revoked, keeper, cli, lease, key,
                 busy, lost>>

\* ... and returns when the handlers have returned.
Drained ==
  /\ stop = "drain" /\ busy = {}
  /\ stop' = "client" /\ grpc' = "stopped"
  /\ UNCHANGED <<start, ctx, rctx, reg, saw, once, revoked, keeper, cli, lease, key, port,
                 busy, lost>>

\* s.etcdCli.Close.
CloseClient ==
  /\ stop = "client"
  /\ stop' = "done" /\ cli' = FALSE
  /\ UNCHANGED <<start, ctx, rctx, reg, saw, once, revoked, keeper, grpc, lease, key,
                 port, busy, lost>>

-----------------------------------------------------------------------------
(* Server.Get, Server.Set and Server.Delete; Routing and OwnerCache have what they do. *)

\* gRPC starts a handler; connections it has accepted outlive Serve.
Accept(r) ==
  /\ start \in {"serving", "close", "revoke", "returned"} /\ grpc = "new"
  /\ r \notin busy
  /\ busy' = busy \cup {r}
  /\ UNCHANGED <<start, stop, ctx, rctx, reg, saw, once, revoked, keeper, grpc, cli, lease,
                 key, port, lost>>

\* The handler answers.
Answer(r) ==
  /\ r \in busy
  /\ busy' = busy \ {r}
  /\ UNCHANGED <<start, stop, ctx, rctx, reg, saw, once, revoked, keeper, grpc, cli, lease,
                 key, port, lost>>

-----------------------------------------------------------------------------
(* The goroutine, etcd, and the process *)

\* Its context is done or the keepalive channel is closed; it does not register
\* again.
KeeperEnds ==
  /\ keeper = "running"
  /\ Cancelled \/ ~cli \/ lease = "gone"
  /\ keeper' = "ended"
  /\ UNCHANGED <<start, stop, ctx, rctx, reg, saw, once, revoked, grpc, cli, lease,
                 key, port, busy, lost>>

\* The client renews the lease.
Renewed == keeper = "running" /\ Usable

\* The lease expires, because nobody renews it or because etcd is out of reach.
LeaseExpires ==
  /\ lease = "live"
  /\ Renewed => MayFail
  /\ LeaseEnds
  /\ lost' = (Renewed \/ keeper = "none")
  /\ UNCHANGED <<start, stop, ctx, rctx, reg, saw, once, revoked, keeper, grpc, cli,
                 port, busy>>

\* A later process listens on the address and registers it with its own lease.
TakeOver ==
  /\ port = "none"
  /\ port' = "next" /\ key' = "next"
  /\ UNCHANGED <<start, stop, ctx, rctx, reg, saw, once, revoked, keeper, grpc, cli,
                 lease, busy, lost>>

\* The process dies; its lease stays behind.
Crash ==
  /\ MayCrash /\ start \notin {"idle", "crashed"}
  /\ start' = "crashed" /\ stop' = "crashed"
  /\ cli' = FALSE /\ busy' = {}
  /\ keeper' = IF keeper = "running" THEN "ended" ELSE keeper
  /\ port' = IF port = "own" THEN "none" ELSE port
  /\ UNCHANGED <<ctx, rctx, reg, saw, once, revoked, grpc, lease, key, lost>>

-----------------------------------------------------------------------------
\* The steps of Start after net.Listen, and those of Stop after its first.
StartGoesOn ==
  Grant \/ Put \/ KeepAlive \/ Unlisten \/ Publish \/ Serve \/ CloseRegistration("start")
  \/ Revoke("start")
StopGoesOn ==
  StopRead \/ CloseRegistration("stop") \/ Revoke("stop") \/ GracefulStop \/ Drained
  \/ CloseClient

ServerNext ==
  \/ Listen \/ StartGoesOn \/ StopCancel \/ StopGoesOn
  \/ \E r \in Requests : Accept(r) \/ Answer(r)
  \/ KeeperEnds \/ LeaseExpires \/ TakeOver \/ Crash

\* Start and Stop go on when they can (Accept need not fail), handlers return, and
\* etcd drops a lease that is not renewed.
ServerFairness ==
  /\ WF_serverVars(StartGoesOn /\ (start = "serving" => grpc = "stopped"))
  /\ WF_serverVars(StopGoesOn)
  /\ WF_serverVars(KeeperEnds)
  /\ WF_serverVars(~Renewed /\ LeaseExpires)
  /\ \A r \in Requests : WF_serverVars(Answer(r))

ServerSpec == ServerInit /\ [][ServerNext]_serverVars /\ ServerFairness

-----------------------------------------------------------------------------
\* A node that serves can be found: between Serve and the end of its context its key
\* is in etcd under its own lease, unless etcd has let the lease expire (after which
\* the goroutine of Register does not register again).
ServingIsAdvertised ==
  start = "serving" /\ ~Cancelled /\ ~lost => lease = "live" /\ key = "own"

\* Stop deregisters before it refuses connections: from GracefulStop on the node's key
\* is out of etcd, whichever of Start and Stop ran Registration.Close, unless Revoke
\* failed or Start had not yet published the registration when Stop looked.
StopDeregistersFirst ==
  stop \in {"graceful", "drain", "client", "done"} /\ saw /\ key = "own"
    => revoked = "failed"

\* Neither a late Revoke nor the expiry of its lease takes the key of the process that
\* has taken over the address.
SuccessorKeepsKey == [][key = "next" => key' = "next"]_serverVars

\* Once Start has returned or Stop is through or the process has died, the node's key
\* goes from etcd for good, even if Put or Revoke failed half way or Stop overtook
\* Start between Register and the publication of the registration.
AddressLeavesEtcd ==
  (stop = "done" \/ start \in {"failed", "returned", "crashed"}) ~> [](key # "own")

\* Stop returns, and with it Start and the keepalive goroutine, however the calls of
\* etcd and the two callers of Registration.Close interleave (or the process dies).
ShutdownCompletes ==
  stop = "read" ~>
    \/ start = "crashed"
    \/ stop = "done" /\ start \in {"idle", "failed", "returned"} /\ keeper # "running"
=============================================================================
