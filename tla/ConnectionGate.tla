--------------------------- MODULE ConnectionGate ---------------------------
(***************************************************************************)
(* What `Server::run` (src/server.rs) promises about connections, without  *)
(* its accept loop, semaphore, watch channel or tasks: while the gate is   *)
(* open at most `limit` connections are in flight; once it drains nobody   *)
(* enters; it stops only when the last connection has left; and it does    *)
(* stop.  Module Server implements this specification.                     *)
(***************************************************************************)
EXTENDS Naturals, FiniteSets

CONSTANTS Conns,     \* identities of connections
          NoLimit    \* the value of `limit` when no limit is configured

VARIABLES limit,     \* the configured limit; never changes
          phase,     \* "open", "draining" or "stopped"
          inFlight   \* the connections the gate has let in

gateVars == <<limit, phase, inFlight>>

GateInit ==
  /\ limit \in Nat \cup {NoLimit}
  /\ phase = "open"
  /\ inFlight = {}

\* There is room for one more connection.
HasRoom == limit # NoLimit => Cardinality(inFlight) < limit

Enter(c) ==
  /\ phase = "open" /\ c \notin inFlight /\ HasRoom
  /\ inFlight' = inFlight \cup {c}
  /\ UNCHANGED <<limit, phase>>

Leave(c) ==
  /\ c \in inFlight
  /\ inFlight' = inFlight \ {c}
  /\ UNCHANGED <<limit, phase>>

BeginDrain ==
  /\ phase = "open"
  /\ phase' = "draining"
  /\ UNCHANGED <<limit, inFlight>>

Stop ==
  /\ phase = "draining" /\ inFlight = {}
  /\ phase' = "stopped"
  /\ UNCHANGED <<limit, inFlight>>

GateNext ==
  \/ \E c \in Conns : Enter(c) \/ Leave(c)
  \/ BeginDrain
  \/ Stop

\* The safety half of the promise.
GateSafety == GateInit /\ [][GateNext]_gateVars

\* The liveness half: a draining gate loses its connections and then stops.
GateFairness ==
  /\ \A c \in Conns : WF_gateVars(phase = "draining" /\ Leave(c))
  /\ WF_gateVars(Stop)

GateSpec == GateSafety /\ GateFairness
=============================================================================
