--------------------------- MODULE WebSocketUpgrade ---------------------------
(***************************************************************************)
(* Dispatch with the websocket handshake (src/context.rs, src/ws.rs).  The *)
(* OnUpgrade of the request is parked in its Context, from which the       *)
(* handler and the task it shares its Context with may take it; on_upgrade *)
(* makes the 101 answer and leaves a task behind that waits for hyper to   *)
(* hand the connection over, while the answer still has the whole chain    *)
(* before it: deadlines, guards, a client that leaves.                     *)
(***************************************************************************)
EXTENDS Dispatch

\* A handler says 101 only with the answer that on_upgrade has made.
ASSUME UpgradeAssumption == 101 \notin Statuses

VARIABLES
  parked,  \* the OnUpgrade is in the Context
  hand,    \* what each caller has: nothing, a handle, the answer it made of it
  tasks,   \* the callers whose upgrade task waits for hyper
  sockets  \* the callers whose callback was called with the socket

upgrade == <<parked, hand, tasks, sockets>>

UpgradeInit ==
  /\ Init
  /\ parked = req.upgrade
  /\ hand = [w \in Writers |-> "none"]
  /\ tasks = {} /\ sockets = {}

\* Each caller has the Context and is not inside set_cookie.
MayCall(w) ==
  IF w = "handler" THEN HandlerAwaits ELSE queuing[w] \in {"idle", "returned"}

\* A bug: the OnUpgrade is cloned.
WebsocketClones(w) ==
  /\ MayCall(w) /\ hand[w] = "none"
  /\ hand' = [hand EXCEPT ![w] = IF parked /\ req.handshake THEN "handle" ELSE @]
  /\ UNCHANGED <<vars, parked, tasks, sockets>>

\* ctx.websocket() takes the OnUpgrade out before it looks at the headers.
Websocket(w) ==
  /\ MayCall(w) /\ hand[w] = "none"
  /\ parked' = FALSE
  /\ hand' = [hand EXCEPT ![w] = IF parked /\ req.handshake THEN "handle" ELSE @]
  /\ UNCHANGED <<vars, tasks, sockets>>

\* A bug: the task is built and not spawned.
OnUpgradeUnspawned(w) ==
  /\ MayCall(w) /\ hand[w] = "handle"
  /\ hand' = [hand EXCEPT ![w] = "response"]
  /\ UNCHANGED <<vars, parked, tasks, sockets>>

\* WebSocketUpgrade::on_upgrade spawns the task and makes the answer.
OnUpgrade(w) ==
  /\ MayCall(w) /\ hand[w] = "handle"
  /\ hand' = [hand EXCEPT ![w] = "response"]
  /\ tasks' = tasks \cup {w}
  /\ UNCHANGED <<vars, parked, sockets>>

\* The handler returns the answer it was given.  (It may return any other.)
SwitchProtocols ==
  /\ hand["handler"] = "response"
  /\ HandlerReturns(Answer(101, "empty"), FALSE)
  /\ UNCHANGED upgrade

\* The handler's `?` on the error of ctx.websocket().
RefuseUpgrade ==
  /\ ~parked /\ hand["handler"] = "none"
  /\ HandlerReturns(Rendered(Error("BadRequest")), FALSE)
  /\ UNCHANGED upgrade

Switched == phase = "done" /\ reply.status = 101

\* hyper has written the 101 and hands the connection over.
Fulfil(w) ==
  /\ Switched /\ w \in tasks
  /\ tasks' = tasks \ {w} /\ sockets' = sockets \cup {w}
  /\ UNCHANGED <<vars, parked, hand>>

\* Another answer was sent, or none: hyper drops its end some time later.
Disappoint(w) ==
  /\ Over /\ ~Switched /\ w \in tasks
  /\ tasks' = tasks \ {w}
  /\ UNCHANGED <<vars, parked, hand, sockets>>

UpgradeNext ==
  \/ Next /\ UNCHANGED upgrade
  \/ \E w \in Writers : Websocket(w) \/ OnUpgrade(w) \/ Fulfil(w) \/ Disappoint(w)
  \/ SwitchProtocols \/ RefuseUpgrade

UpgradeSpec == UpgradeInit /\ [][UpgradeNext]_<<vars, upgrade>>

\* hyper hands a connection over on which it has sent a 101.
UpgradeFairSpec ==
  UpgradeSpec /\ Fairness /\ \A w \in Writers : WF_<<vars, upgrade>>(Fulfil(w))

(* ------------------------------ properties ------------------------------ *)

\* A client that was told of the switch has somebody to talk to: whatever frames
\* the 101 has passed, the task of the handler waits for the connection or has
\* it, and nobody else does.
SwitchHasItsTask == Switched => tasks \cup sockets = {"handler"}

\* However the handler and its task interleave their calls, one of them gets
\* the upgrade and no other waits for it.
OneUpgrade ==
  \A v, w \in Writers :
    v \in tasks \cup sockets /\ w \in tasks \cup sockets => v = w

\* A client that was told of the switch is served: the handler's callback gets
\* the socket.
SwitchIsServed == Switched ~> sockets = {"handler"}
=============================================================================
