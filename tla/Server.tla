------------------------------- MODULE Server -------------------------------
(***************************************************************************)
(* `Server::run` and `serve_connection` (src/server.rs): the accept loop,  *)
(* the concurrency semaphore, one task per connection, and graceful        *)
(* shutdown.  A connection is one HTTP/1.1 connection: it serves one       *)
(* request at a time, may be kept alive, and may become a websocket.       *)
(*                                                                         *)
(* Clients, handlers, hyper's connection state machine and hyper-util's    *)
(* GracefulShutdown are the environment, modelled as the code uses them.   *)
(***************************************************************************)
EXTENDS Naturals, FiniteSets

CONSTANTS Conns,    \* clients; each has at most one connection at a time
          NoLimit,  \* `Server.concurrency` is None
          Configs   \* what the builder methods may have set up

ASSUME ConfigAssumption ==
  /\ NoLimit \notin Nat
  /\ Configs \subseteq [limit : Nat \cup {NoLimit}, tls : BOOLEAN]

VARIABLES
  config,    \* the Server struct: concurrency limit, TLS or plain
  loop,      \* where `run` is
  fired,     \* the shutdown future given to graceful_shutdown is ready
  conn,      \* where each client's connection is
  permits,   \* available permits of the semaphore (0 when there is none)
  holding,   \* tasks that own an OwnedSemaphorePermit
  watchers,  \* live subscribers of the GracefulShutdown channel
  told       \* connections whose watcher has delivered the signal

vars == <<config, loop, fired, conn, permits, holding, watchers, told>>

\* `run`: binding, in select!, awaiting a permit inside the accept arm, in
\* graceful.shutdown(), returned Ok, returned Err.
LoopStates == {"bind", "select", "permit", "draining", "stopped", "failed"}

\* A connection served by hyper: nothing read yet, part of a first head read,
\* handler running or response being written, kept alive between requests.
HttpStates == {"fresh", "partial", "busy", "idle"}

\* A connection with a task of its own.
TaskStates == {"spawned", "handshake"} \cup HttpStates

\* "away": none.  "backlog": in the kernel's queue.  "accepted": returned by
\* accept(), held by the loop.  "ws": upgraded, run by the websocket's task.
ConnStates == {"away", "backlog", "accepted", "ws"} \cup TaskStates

Tasks == {c \in Conns : conn[c] \in TaskStates}

Unlimited == config.limit = NoLimit

Init ==
  /\ config \in Configs
  /\ loop = "bind"
  /\ fired = FALSE
  /\ conn = [c \in Conns |-> "away"]
  /\ permits = IF config.limit = NoLimit THEN 0 ELSE config.limit
  /\ holding = {}
  /\ watchers = {}
  /\ told = {}

Goto(l) == loop' = l

Move(c, s) == conn' = [conn EXCEPT ![c] = s]

(* ------------------------------ accept loop ----------------------------- *)

\* build() and TcpListener::bind: on failure `run` returns early.
Bind ==
  /\ loop = "bind"
  /\ loop' \in {"select", "failed"}
  /\ UNCHANGED <<config, fired, conn, permits, holding, watchers, told>>

\* A bug: the task subscribes to the shutdown channel when it first runs.
SubscribeInTask(c) ==
  /\ Move(c, "spawned")
  /\ UNCHANGED <<watchers, told>>

\* The tail of the accept arm: subscribe a watcher, then spawn the task.
Spawn(c) ==
  /\ Move(c, "spawned")
  /\ watchers' = watchers \cup {c}
  /\ UNCHANGED told

\* accept() returned a stream and there is no semaphore: spawn at once.
AcceptUnlimited(c) ==
  /\ loop = "select" /\ conn[c] = "backlog" /\ Unlimited
  /\ Spawn(c)
  /\ UNCHANGED <<config, loop, fired, permits, holding>>

\* accept() returned a stream; the arm now awaits acquire_owned().  The
\* shutdown future is not polled again until the arm is done.
AcceptLimited(c) ==
  /\ loop = "select" /\ conn[c] = "backlog" /\ ~Unlimited
  /\ Move(c, "accepted")
  /\ Goto("permit")
  /\ UNCHANGED <<config, fired, permits, holding, watchers, told>>

\* accept() returned an error (the peer reset before it was accepted): the
\* loop continues.
AcceptFails(c) ==
  /\ loop = "select" /\ conn[c] = "backlog"
  /\ Move(c, "away")
  /\ UNCHANGED <<config, loop, fired, permits, holding, watchers, told>>

\* A bug: the semaphore is never waited for and its count wraps below zero.
AcquireWithoutWaiting(c) ==
  /\ loop = "permit" /\ conn[c] = "accepted"
  /\ permits' = permits - 1
  /\ holding' = holding \cup {c}
  /\ Goto("select")
  /\ Spawn(c)
  /\ UNCHANGED <<config, fired>>

\* acquire_owned() resolves and the accept arm runs to its end.
AcquirePermit(c) ==
  /\ loop = "permit" /\ conn[c] = "accepted" /\ permits > 0
  /\ permits' = permits - 1
  /\ holding' = holding \cup {c}
  /\ Goto("select")
  /\ Spawn(c)
  /\ UNCHANGED <<config, fired>>

\* drop(listener) resets what is still in the kernel's queue.
DropListener ==
  conn' = [c \in Conns |-> IF conn[c] = "backlog" THEN "away" ELSE conn[c]]

\* A bug: the permit is awaited in a select! of its own with the shutdown
\* future, and the accepted stream is dropped with the loop.
ShutdownArmAnywhere ==
  /\ loop \in {"select", "permit"} /\ fired
  /\ DropListener
  /\ Goto("draining")
  /\ UNCHANGED <<config, fired, permits, holding, watchers, told>>

\* A bug: a biased select! that looks at the listener first.
ShutdownArmBiased ==
  /\ loop = "select" /\ fired
  /\ \A c \in Conns : conn[c] # "backlog"
  /\ DropListener
  /\ Goto("draining")
  /\ UNCHANGED <<config, fired, permits, holding, watchers, told>>

\* The shutdown arm: break, drop(listener), send the signal.
ShutdownArm ==
  /\ loop = "select" /\ fired
  /\ DropListener
  /\ Goto("draining")
  /\ UNCHANGED <<config, fired, permits, holding, watchers, told>>

\* graceful.shutdown() resolves when no watcher is left; `run` returns Ok.
Drained ==
  /\ loop = "draining" /\ watchers = {}
  /\ Goto("stopped")
  /\ UNCHANGED <<config, fired, conn, permits, holding, watchers, told>>

(* --------------------------- connection tasks --------------------------- *)

\* The task of c ends in whatever way: its future is dropped and with it the
\* permit and the watcher.  s is where that leaves the connection.
EndTask(c, s) ==
  /\ Move(c, s)
  /\ holding' = holding \ {c}
  /\ permits' = IF c \in holding THEN permits + 1 ELSE permits
  /\ watchers' = watchers \ {c}
  /\ told' = told \ {c}
  /\ UNCHANGED <<config, loop, fired>>

\* A step of c's task that keeps the connection.
StepTask(c, from, to) ==
  /\ conn[c] \in from
  /\ Move(c, to)
  /\ UNCHANGED <<config, loop, fired, permits, holding, watchers, told>>

\* First poll of the spawned task.
TaskStarts(c) ==
  StepTask(c, {"spawned"}, IF config.tls THEN "handshake" ELSE "fresh")

HandshakeSucceeds(c) == StepTask(c, {"handshake"}, "fresh")

\* config.accept(stream) is Err, or the peer is gone: the task returns.
HandshakeFails(c) == conn[c] = "handshake" /\ EndTask(c, "away")

\* The client sends part of its first request head.
PartialHead(c) == StepTask(c, {"fresh"}, "partial")

\* A whole head has arrived: Svc::call starts dispatch.
Request(c) == StepTask(c, {"fresh", "partial", "idle"}, "busy")

\* The response is out.  With keep-alive disabled by the signal the
\* connection closes, otherwise it waits for the next request.
RespondAndClose(c) == conn[c] = "busy" /\ c \in told /\ EndTask(c, "away")
RespondAndKeep(c) == c \notin told /\ StepTask(c, {"busy"}, "idle")

\* A 101 response: the connection future completes with the upgrade, so
\* serve_connection returns; the websocket lives on in its own task.
Upgrade(c) == conn[c] = "busy" /\ EndTask(c, "ws")

\* A bug: unwinding skips the release of the permit.
PanicLeaksPermit(c) ==
  /\ conn[c] = "busy"
  /\ Move(c, "away")
  /\ holding' = holding \ {c}
  /\ watchers' = watchers \ {c}
  /\ told' = told \ {c}
  /\ UNCHANGED <<config, loop, fired, permits>>

\* The handler panics: the task unwinds, dropping what it owns.
HandlerPanics(c) == conn[c] = "busy" /\ EndTask(c, "away")

\* The client closes or resets, or the connection errors.
ClientCloses(c) == conn[c] \in HttpStates /\ EndTask(c, "away")

\* A bug: the signal is only looked at while a request is in flight.
SignalIgnoredWhenIdle(c) ==
  /\ loop = "draining" /\ conn[c] \in {"partial", "busy"} /\ c \notin told
  /\ told' = told \cup {c}
  /\ UNCHANGED <<config, loop, fired, conn, permits, holding, watchers>>

\* The watched connection sees the signal and calls graceful_shutdown: with
\* nothing read it closes, otherwise it disables keep-alive and goes on.
SeeSignal(c) ==
  /\ loop = "draining" /\ conn[c] \in HttpStates /\ c \notin told
  /\ \/ conn[c] \in {"fresh", "idle"} /\ EndTask(c, "away")
     \/ /\ conn[c] \in {"partial", "busy"}
        /\ told' = told \cup {c}
        /\ UNCHANGED <<config, loop, fired, conn, permits, holding, watchers>>

(* ------------------------------ environment ----------------------------- *)

Listening == loop \in {"select", "permit"}

Connect(c) == Listening /\ StepTask(c, {"away"}, "backlog")

\* The websocket callback returns, or its client leaves.
WebSocketEnds(c) == StepTask(c, {"ws"}, "away")

ShutdownFires ==
  /\ ~fired
  /\ fired' = TRUE
  /\ UNCHANGED <<config, loop, conn, permits, holding, watchers, told>>

\* `run` has returned and every connection is over.
Terminated ==
  /\ loop \in {"stopped", "failed"}
  /\ \A c \in Conns : conn[c] = "away"
  /\ UNCHANGED vars

LoopNext ==
  \/ Bind \/ ShutdownArm \/ Drained
  \/ \E c \in Conns : \/ AcceptUnlimited(c) \/ AcceptLimited(c)
                      \/ AcceptFails(c) \/ AcquirePermit(c)

FinishRequest(c) ==
  \/ RespondAndClose(c) \/ RespondAndKeep(c) \/ Upgrade(c) \/ HandlerPanics(c)

TaskNext(c) ==
  \/ TaskStarts(c) \/ SeeSignal(c) \/ FinishRequest(c)

ClientNext(c) ==
  \/ Connect(c) \/ HandshakeSucceeds(c) \/ HandshakeFails(c) \/ PartialHead(c)
  \/ Request(c) \/ ClientCloses(c) \/ WebSocketEnds(c)

Next ==
  \/ LoopNext
  \/ \E c \in Conns : TaskNext(c) \/ ClientNext(c)
  \/ ShutdownFires
  \/ Terminated

Spec == Init /\ [][Next]_vars

(* ------------------------------- fairness ------------------------------- *)

\* tokio polls every ready task; select! tries its arms in random order, so an
\* arm that is ready again and again is taken (strong fairness).
SchedulerFairness ==
  /\ WF_vars(Bind) /\ WF_vars(Drained) /\ SF_vars(ShutdownArm)
  /\ WF_vars(\E c \in Conns : AcceptUnlimited(c) \/ AcceptLimited(c))
  /\ WF_vars(\E c \in Conns : AcquirePermit(c))
  /\ \A c \in Conns : WF_vars(TaskStarts(c)) /\ WF_vars(SeeSignal(c))

\* Assumptions on what the code does not bound: handlers return, and a client
\* that began a handshake or a head completes it or goes away.  A client that
\* keeps an idle connection open is under no obligation.
HandlersReturn == \A c \in Conns : WF_vars(FinishRequest(c))
ClientsDoNotStall ==
  \A c \in Conns :
    /\ WF_vars(HandshakeSucceeds(c) \/ HandshakeFails(c))
    /\ WF_vars(conn[c] = "partial" /\ (Request(c) \/ ClientCloses(c)))

FairSpec == Spec /\ SchedulerFairness /\ HandlersReturn /\ ClientsDoNotStall

(* ------------------------------ properties ------------------------------ *)

\* The shape of the state, `permits` never below zero included.
TypeOK ==
  /\ config \in Configs
  /\ loop \in LoopStates
  /\ fired \in BOOLEAN
  /\ conn \in [Conns -> ConnStates]
  /\ permits \in Nat
  /\ holding \subseteq Conns
  /\ watchers \subseteq Conns
  /\ told \subseteq Conns

\* No permit is lost or duplicated: with a limit, the permits left and the
\* connection tasks alive add up to the limit at every instant, whichever way
\* tasks ended (response, upgrade, panic, failed handshake, client gone).
PermitsAccountForTasks ==
  ~Unlimited => permits + Cardinality(Tasks) = config.limit

\* `run` returns Ok only when no connection task is left, not even one that
\* was spawned just before the signal and had not been polled.
DrainedMeansNoTask == loop = "stopped" => Tasks = {}

\* Shutdown never drops a connection that accept() already returned: whoever
\* waits for a permit keeps the loop from draining until it has a task.
AcceptedIsNotAbandoned ==
  \A c \in Conns : conn[c] = "accepted" => loop = "permit"

\* The server implements the gate: admission under the limit and only while
\* open, drain, and the fact that a drain ends.
Gate == INSTANCE ConnectionGate WITH
  limit <- config.limit,
  phase <- IF loop \in {"draining", "stopped"} THEN loop ELSE "open",
  inFlight <- Tasks

ImplementsGate == Gate!GateSpec

\* Once the shutdown future is ready, a server that listens eventually
\* returns, provided a permit is available again and again (or none is
\* needed): the accept arm is then never stuck between two polls of the
\* shutdown future.  New clients that keep connecting cannot postpone it.
ShutdownCompletesWhenPermitsReturn ==
  []<>(Unlimited \/ permits > 0) => (fired /\ Listening ~> loop = "stopped")

(* --------------------- what the documentation says ---------------------- *)

\* server.rs:83 "Resolve into graceful shutdown once the future completes":
\* the loop leaves accept once the future is ready.  It does not while the
\* accept arm awaits a permit that idle keep-alive connections hold.
ShutdownObserved == fired /\ Listening ~> ~Listening

\* server.rs:84 "In-flight connections drain before the process exits": when
\* `run` returns, no connection is open, websockets included.
NothingOpenWhenStopped ==
  loop = "stopped" => \A c \in Conns : conn[c] # "ws"
=============================================================================
