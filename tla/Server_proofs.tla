---------------------------- MODULE Server_proofs ----------------------------
(***************************************************************************)
(* Proofs about module Server, for every set of clients and every limit.   *)
(*                                                                         *)
(* The permits are counted against the tasks alive, so the inductive       *)
(* invariant ties both `holding` and `watchers` to Tasks; that only one    *)
(* connection waits for a permit is what lets the loop leave that await.   *)
(***************************************************************************)
EXTENDS Server, FiniteSetTheorems, TLAPS

IInv ==
  /\ TypeOK
  /\ IsFiniteSet(Tasks)
  /\ watchers = Tasks
  /\ holding = IF Unlimited THEN {} ELSE Tasks
  /\ told \subseteq Tasks
  /\ PermitsAccountForTasks
  /\ DrainedMeansNoTask
  /\ AcceptedIsNotAbandoned
  /\ loop = "permit" => ~Unlimited
  /\ \A c, d \in Conns : conn[c] = "accepted" /\ conn[d] = "accepted" => c = d

\* What moving one connection does to the set of tasks.
LEMMA MoveTasks ==
  ASSUME TypeOK, NEW c \in Conns, NEW s \in ConnStates, Move(c, s)
  PROVE  /\ s \in TaskStates => Tasks' = Tasks \cup {c}
         /\ s \notin TaskStates => Tasks' = Tasks \ {c}
         /\ conn' \in [Conns -> ConnStates]
         /\ \A d \in Conns : conn'[d] = IF d = c THEN s ELSE conn[d]
  BY DEF TypeOK, Move, Tasks

\* The three kinds of step below cover every action but those of the loop
\* that move no connection.

\* The loop gives an accepted connection its task and its permit.
LEMMA SpawnPreserves ==
  ASSUME ConfigAssumption, IInv, NEW c \in Conns,
         AcceptUnlimited(c) \/ AcquirePermit(c)
  PROVE  IInv' /\ Tasks' = Tasks \cup {c} /\ c \notin Tasks
  <1> USE DEF IInv
  <1>1. Move(c, "spawned") /\ "spawned" \in TaskStates /\ "spawned" \in ConnStates
    BY DEF AcceptUnlimited, AcquirePermit, Spawn, TaskStates, ConnStates
  <1>2. /\ Tasks' = Tasks \cup {c}
        /\ conn' \in [Conns -> ConnStates]
        /\ \A d \in Conns : conn'[d] = IF d = c THEN "spawned" ELSE conn[d]
    BY <1>1, MoveTasks
  <1>3. c \notin Tasks
    BY DEF AcceptUnlimited, AcquirePermit, Tasks, TaskStates, HttpStates
  <1>4. IsFiniteSet(Tasks') /\ Cardinality(Tasks') = Cardinality(Tasks) + 1
    BY <1>2, <1>3, FS_AddElement
  <1>5. Cardinality(Tasks) \in Nat
    BY FS_CardinalityType
  <1>6. config.limit \in Nat \cup {NoLimit}
    BY ConfigAssumption DEF TypeOK
  <1>7. CASE AcceptUnlimited(c)
    <2>1. TypeOK'
      BY <1>2, <1>7 DEF TypeOK, AcceptUnlimited, Spawn
    <2>2. (watchers = Tasks /\ holding = {} /\ told \subseteq Tasks)' /\ Unlimited'
      BY <1>2, <1>7 DEF AcceptUnlimited, Spawn, Unlimited
    <2>3. AcceptedIsNotAbandoned' /\ DrainedMeansNoTask'
      BY <1>2, <1>7 DEF AcceptUnlimited, AcceptedIsNotAbandoned, DrainedMeansNoTask
    <2>4. (loop = "permit" => ~Unlimited)'
      BY <1>7 DEF AcceptUnlimited
    <2>5. (\A d, e \in Conns : conn[d] = "accepted" /\ conn[e] = "accepted" => d = e)'
      BY <1>2
    <2>6. QED
      BY <1>2, <1>3, <1>4, <2>1, <2>2, <2>3, <2>4, <2>5 DEF PermitsAccountForTasks
  <1>8. CASE AcquirePermit(c)
    <2>1. ~Unlimited /\ ~Unlimited' /\ config' = config /\ loop' = "select"
      BY <1>8 DEF AcquirePermit, Unlimited, Goto
    <2>2. permits' = permits - 1 /\ permits' \in Nat
      BY <1>8 DEF AcquirePermit, TypeOK
    <2>3. TypeOK'
      BY <1>2, <1>8, <2>1, <2>2 DEF TypeOK, AcquirePermit, Spawn, LoopStates
    <2>4. (watchers = Tasks /\ holding = Tasks /\ told \subseteq Tasks)'
      BY <1>2, <1>8, <2>1 DEF AcquirePermit, Spawn
    <2>5. PermitsAccountForTasks'
      BY <1>4, <1>5, <1>6, <2>1, <2>2 DEF PermitsAccountForTasks, Unlimited, TypeOK
    <2>6. AcceptedIsNotAbandoned' /\ DrainedMeansNoTask'
      BY <1>2, <1>8, <2>1
      DEF AcquirePermit, AcceptedIsNotAbandoned, DrainedMeansNoTask
    <2>7. (\A d, e \in Conns : conn[d] = "accepted" /\ conn[e] = "accepted" => d = e)'
      BY <1>2
    <2>8. QED
      BY <1>2, <1>3, <1>4, <2>1, <2>3, <2>4, <2>5, <2>6, <2>7
  <1>9. QED
    BY <1>7, <1>8

\* A task ends: its permit and its watcher go with it.
LEMMA EndTaskPreserves ==
  ASSUME ConfigAssumption, IInv, NEW c \in Conns, conn[c] \in TaskStates,
         NEW s \in {"away", "ws"}, EndTask(c, s)
  PROVE  IInv' /\ Tasks' = Tasks \ {c} /\ c \in Tasks
  <1> USE DEF IInv
  <1>1. Move(c, s) /\ s \in ConnStates /\ s \notin TaskStates
    BY DEF EndTask, ConnStates, TaskStates, HttpStates
  <1>2. /\ Tasks' = Tasks \ {c}
        /\ conn' \in [Conns -> ConnStates]
        /\ \A d \in Conns : conn'[d] = IF d = c THEN s ELSE conn[d]
    BY <1>1, MoveTasks
  <1>3. c \in Tasks
    BY DEF Tasks
  <1>4. IsFiniteSet(Tasks') /\ Cardinality(Tasks') = Cardinality(Tasks) - 1
    BY <1>2, <1>3, FS_RemoveElement
  <1>5. Cardinality(Tasks) \in Nat
    BY FS_CardinalityType
  <1>6. config.limit \in Nat \cup {NoLimit}
    BY ConfigAssumption DEF TypeOK
  <1>7. config' = config /\ loop' = loop /\ (Unlimited' <=> Unlimited)
    BY DEF EndTask, Unlimited
  <1>8. permits' \in Nat
    BY DEF EndTask, TypeOK
  <1>9. TypeOK'
    BY <1>2, <1>7, <1>8 DEF TypeOK, EndTask
  <1>10. watchers' = Tasks' /\ told' \subseteq Tasks'
    BY <1>2 DEF EndTask
  <1>11. holding' = IF Unlimited' THEN {} ELSE Tasks'
    BY <1>2, <1>7 DEF EndTask
  <1>12. PermitsAccountForTasks'
    <2>1. ASSUME ~Unlimited
          PROVE permits' = permits + 1
      BY <1>3, <2>1 DEF EndTask
    <2>2. QED
      BY <1>4, <1>5, <1>6, <1>7, <2>1 DEF PermitsAccountForTasks, Unlimited, TypeOK
  <1>13. AcceptedIsNotAbandoned' /\ DrainedMeansNoTask'
    BY <1>2, <1>3, <1>7 DEF AcceptedIsNotAbandoned, DrainedMeansNoTask
  <1>14. (loop = "permit" => ~Unlimited)'
    BY <1>7
  <1>15. (\A d, e \in Conns : conn[d] = "accepted" /\ conn[e] = "accepted" => d = e)'
    BY <1>2
  <1>16. QED
    BY <1>2, <1>3, <1>4, <1>9, <1>10, <1>11, <1>12, <1>13, <1>14, <1>15

\* A connection moves without gaining or losing a task.
LEMMA StepTaskPreserves ==
  ASSUME ConfigAssumption, IInv, NEW c \in Conns, NEW from, NEW to,
         StepTask(c, from, to),
         \/ from \subseteq TaskStates /\ to \in TaskStates
         \/ from \subseteq {"away", "backlog", "ws"} /\ to \in {"away", "backlog", "ws"}
  PROVE  IInv' /\ Tasks' = Tasks
  <1> USE DEF IInv
  <1>1. Move(c, to) /\ to \in ConnStates
    BY DEF StepTask, ConnStates
  <1>2. /\ to \in TaskStates => Tasks' = Tasks \cup {c}
        /\ to \notin TaskStates => Tasks' = Tasks \ {c}
        /\ conn' \in [Conns -> ConnStates]
        /\ \A d \in Conns : conn'[d] = IF d = c THEN to ELSE conn[d]
    BY <1>1, MoveTasks
  <1>3. Tasks' = Tasks
    BY <1>2 DEF StepTask, Tasks, TaskStates, HttpStates
  <1>4. /\ config' = config /\ loop' = loop /\ fired' = fired /\ permits' = permits
        /\ holding' = holding /\ watchers' = watchers /\ told' = told
        /\ (Unlimited' <=> Unlimited)
    BY DEF StepTask, Unlimited
  <1>5. to # "accepted"
    BY DEF TaskStates, HttpStates
  <1>6. TypeOK'
    BY <1>2, <1>4 DEF TypeOK
  <1>7. PermitsAccountForTasks' /\ DrainedMeansNoTask'
    BY <1>3, <1>4 DEF PermitsAccountForTasks, DrainedMeansNoTask
  <1>8. AcceptedIsNotAbandoned'
    BY <1>2, <1>4, <1>5 DEF AcceptedIsNotAbandoned
  <1>9. (\A d, e \in Conns : conn[d] = "accepted" /\ conn[e] = "accepted" => d = e)'
    BY <1>2, <1>5
  <1>10. QED
    BY <1>3, <1>4, <1>6, <1>7, <1>8, <1>9

\* A step of the loop, or of the environment, that touches no task.
LoopStep ==
  \/ Bind
  \/ \E c \in Conns : AcceptLimited(c) \/ AcceptFails(c)
  \/ ShutdownArm
  \/ Drained
  \/ ShutdownFires
  \/ UNCHANGED vars

\* The loop's own steps keep the invariant.
LEMMA LoopStepPreserves ==
  ASSUME ConfigAssumption, IInv, LoopStep
  PROVE  IInv' /\ Tasks' = Tasks
  <1> USE DEF IInv
  <1>1. /\ Tasks' = Tasks
        /\ conn' \in [Conns -> ConnStates]
    BY DEF LoopStep, Bind, AcceptLimited, AcceptFails, ShutdownArm, Drained,
           ShutdownFires, DropListener, vars, Tasks, TypeOK, Move, ConnStates,
           TaskStates, HttpStates
  <1>2. /\ config' = config /\ permits' = permits /\ holding' = holding
        /\ watchers' = watchers /\ told' = told /\ (Unlimited' <=> Unlimited)
    BY DEF LoopStep, Bind, AcceptLimited, AcceptFails, ShutdownArm, Drained,
           ShutdownFires, vars, Unlimited
  <1>3. loop' \in LoopStates /\ fired' \in BOOLEAN
    BY DEF LoopStep, Bind, AcceptLimited, AcceptFails, ShutdownArm, Drained,
           ShutdownFires, vars, Goto, LoopStates, TypeOK
  <1>4. TypeOK'
    BY <1>1, <1>2, <1>3 DEF TypeOK
  <1>5. PermitsAccountForTasks'
    BY <1>1, <1>2 DEF PermitsAccountForTasks
  <1>6. DrainedMeansNoTask'
    BY <1>1, <1>2
    DEF LoopStep, Bind, AcceptLimited, AcceptFails, ShutdownArm, Drained,
        ShutdownFires, vars, Goto, DrainedMeansNoTask
  <1>7. AcceptedIsNotAbandoned'
    BY DEF LoopStep, Bind, AcceptLimited, AcceptFails, ShutdownArm, Drained,
           ShutdownFires, DropListener, vars, Goto, Move, TypeOK,
           AcceptedIsNotAbandoned
  <1>8. (loop = "permit" => ~Unlimited)'
    BY <1>2 DEF LoopStep, Bind, AcceptLimited, AcceptFails, ShutdownArm, Drained,
           ShutdownFires, vars, Goto
  <1>9. (\A d, e \in Conns : conn[d] = "accepted" /\ conn[e] = "accepted" => d = e)'
    BY DEF LoopStep, Bind, AcceptLimited, AcceptFails, ShutdownArm, Drained,
           ShutdownFires, DropListener, vars, Goto, Move, TypeOK,
           AcceptedIsNotAbandoned
  <1>10. QED
    BY <1>1, <1>2, <1>4, <1>5, <1>6, <1>7, <1>8, <1>9

\* A watched connection is told of the signal and goes on.
LEMMA TellPreserves ==
  ASSUME ConfigAssumption, IInv, NEW c \in Conns,
         conn[c] \in HttpStates, told' = told \cup {c},
         UNCHANGED <<config, loop, fired, conn, permits, holding, watchers>>
  PROVE  IInv' /\ Tasks' = Tasks
  BY DEF IInv, TypeOK, Tasks, TaskStates, Unlimited, PermitsAccountForTasks,
         DrainedMeansNoTask, AcceptedIsNotAbandoned

\* What a step of c's task or client may do to the set of tasks.
KeepsOrEndsTask(c) ==
  Tasks' = Tasks \/ (Tasks' = Tasks \ {c} /\ c \in Tasks)

\* Any step of c's task or client is one of these kinds, and keeps the
\* invariant.
LEMMA ConnectionStepPreserves ==
  ASSUME ConfigAssumption, IInv, NEW c \in Conns, TaskNext(c) \/ ClientNext(c)
  PROVE  IInv' /\ KeepsOrEndsTask(c) /\ UNCHANGED <<config, loop>>
  <1> USE DEF KeepsOrEndsTask
  <1>1. ASSUME NEW s \in {"away", "ws"}, conn[c] \in TaskStates, EndTask(c, s)
        PROVE  IInv' /\ KeepsOrEndsTask(c) /\ UNCHANGED <<config, loop>>
    <2>1. UNCHANGED <<config, loop>>
      BY <1>1 DEF EndTask
    <2>2. QED
      BY <1>1, <2>1, EndTaskPreserves
  <1>2. ASSUME NEW from, NEW to, StepTask(c, from, to),
               \/ from \subseteq TaskStates /\ to \in TaskStates
               \/ /\ from \subseteq {"away", "backlog", "ws"}
                  /\ to \in {"away", "backlog", "ws"}
        PROVE  IInv' /\ KeepsOrEndsTask(c) /\ UNCHANGED <<config, loop>>
    <2>1. UNCHANGED <<config, loop>>
      BY <1>2 DEF StepTask
    <2>2. QED
      BY <1>2, <2>1, StepTaskPreserves
  <1>3. CASE TaskStarts(c)
    <2>1. (IF config.tls THEN "handshake" ELSE "fresh") \in TaskStates
      BY DEF TaskStates, HttpStates
    <2>2. QED
      BY <1>2, <1>3, <2>1 DEF TaskStarts, TaskStates
  <1>4. CASE SeeSignal(c)
    <2>1. CASE EndTask(c, "away")
      BY <1>1, <1>4, <2>1 DEF SeeSignal, TaskStates
    <2>2. CASE ~EndTask(c, "away")
      BY <1>4, <2>2, TellPreserves DEF SeeSignal
    <2>3. QED
      BY <2>1, <2>2
  <1>5. CASE FinishRequest(c)
    <2>1. CASE RespondAndKeep(c)
      BY <1>2, <2>1 DEF RespondAndKeep, TaskStates, HttpStates
    <2>2. CASE RespondAndClose(c) \/ Upgrade(c) \/ HandlerPanics(c)
      BY <1>1, <2>2
      DEF RespondAndClose, Upgrade, HandlerPanics, TaskStates, HttpStates
    <2>3. QED
      BY <1>5, <2>1, <2>2 DEF FinishRequest
  <1>6. CASE Connect(c) \/ WebSocketEnds(c)
    BY <1>2, <1>6 DEF Connect, WebSocketEnds
  <1>7. CASE HandshakeSucceeds(c) \/ PartialHead(c) \/ Request(c)
    BY <1>2, <1>7 DEF HandshakeSucceeds, PartialHead, Request, TaskStates, HttpStates
  <1>8. CASE HandshakeFails(c) \/ ClientCloses(c)
    BY <1>1, <1>8 DEF HandshakeFails, ClientCloses, TaskStates
  <1>9. QED
    BY <1>3, <1>4, <1>5, <1>6, <1>7, <1>8 DEF TaskNext, ClientNext

\* A server that has not bound yet satisfies the invariant.
LEMMA InitIInv == ConfigAssumption /\ Init => IInv
  <1> SUFFICES ASSUME ConfigAssumption, Init PROVE IInv
    OBVIOUS
  <1>1. Tasks = {} /\ IsFiniteSet(Tasks) /\ Cardinality(Tasks) = 0
    BY FS_EmptySet DEF Init, Tasks, TaskStates, HttpStates
  <1>2. config.limit \in Nat \cup {NoLimit}
    BY DEF ConfigAssumption, Init
  <1>3. TypeOK
    BY <1>2 DEF Init, TypeOK, LoopStates, ConnStates
  <1>4. PermitsAccountForTasks
    BY <1>1, <1>2 DEF Init, PermitsAccountForTasks, Unlimited
  <1>5. QED
    BY <1>1, <1>3, <1>4
    DEF Init, IInv, DrainedMeansNoTask, AcceptedIsNotAbandoned, Unlimited

\* Every step of the loop, a task, a client or the signal keeps it.
LEMMA NextIInv == ConfigAssumption /\ IInv /\ [Next]_vars => IInv'
  <1> SUFFICES ASSUME ConfigAssumption, IInv, [Next]_vars PROVE IInv'
    OBVIOUS
  <1>1. ASSUME NEW c \in Conns, TaskNext(c) \/ ClientNext(c)
        PROVE  IInv'
    BY <1>1, ConnectionStepPreserves
  <1>2. ASSUME NEW c \in Conns, AcceptUnlimited(c) \/ AcquirePermit(c)
        PROVE  IInv'
    BY <1>2, SpawnPreserves
  <1>3. CASE LoopStep
    BY <1>3, LoopStepPreserves
  <1>4. QED
    BY <1>1, <1>2, <1>3 DEF Next, LoopNext, LoopStep, Terminated

\* The inductive invariant holds in every behaviour, with or without fairness.
THEOREM Invariance == Spec => []IInv
  BY ConfigAssumption, InitIInv, NextIInv, PTL DEF Spec

\* The state of `run` keeps its shape; in particular the number of available
\* permits never goes below zero.
THEOREM TypeCorrect == Spec => []TypeOK
  <1>1. IInv => TypeOK
    BY DEF IInv
  <1>2. QED
    BY <1>1, Invariance, PTL

\* For every limit and every number of clients, the permits left and the
\* connection tasks alive always add up to the limit, however tasks end.
THEOREM PermitsConserved == Spec => []PermitsAccountForTasks
  <1>1. IInv => PermitsAccountForTasks
    BY DEF IInv
  <1>2. QED
    BY <1>1, Invariance, PTL

\* graceful.shutdown() resolves only when no connection task is left.
THEOREM DrainIsComplete == Spec => []DrainedMeansNoTask
  <1>1. IInv => DrainedMeansNoTask
    BY DEF IInv
  <1>2. QED
    BY <1>1, Invariance, PTL

\* A connection returned by accept() is never dropped by the shutdown.
THEOREM AcceptedIsServed == Spec => []AcceptedIsNotAbandoned
  <1>1. IInv => AcceptedIsNotAbandoned
    BY DEF IInv
  <1>2. QED
    BY <1>1, Invariance, PTL

\* The server implements the safety half of the gate: nobody enters above the
\* limit or after the drain began, and it stops only when empty.
THEOREM GateRefinement == Spec => Gate!GateSafety
  <1>1. ConfigAssumption /\ Init => Gate!GateInit
    BY DEF ConfigAssumption, Init, Gate!GateInit, Tasks, TaskStates, HttpStates
  <1>2. ConfigAssumption /\ IInv /\ [Next]_vars => [Gate!GateNext]_(Gate!gateVars)
    <2> SUFFICES ASSUME ConfigAssumption, IInv, [Next]_vars
                 PROVE  [Gate!GateNext]_(Gate!gateVars)
      OBVIOUS
    <2>1. ASSUME NEW c \in Conns, TaskNext(c) \/ ClientNext(c)
          PROVE  [Gate!GateNext]_(Gate!gateVars)
      <3>1. KeepsOrEndsTask(c) /\ UNCHANGED <<config, loop>>
        BY <2>1, ConnectionStepPreserves
      <3>2. CASE Tasks' = Tasks
        BY <3>1, <3>2 DEF Gate!gateVars
      <3>3. CASE Tasks' = Tasks \ {c} /\ c \in Tasks
        <4>1. Gate!Leave(c)
          BY <3>1, <3>3 DEF Gate!Leave
        <4>2. QED
          BY <4>1 DEF Gate!GateNext
      <3>4. QED
        BY <3>1, <3>2, <3>3 DEF KeepsOrEndsTask
    <2>2. ASSUME NEW c \in Conns, AcceptUnlimited(c) \/ AcquirePermit(c)
          PROVE  [Gate!GateNext]_(Gate!gateVars)
      <3>1. Tasks' = Tasks \cup {c} /\ c \notin Tasks
        BY <2>2, SpawnPreserves
      <3>2. config' = config /\ loop \in {"select", "permit"} /\ loop' = "select"
        BY <2>2 DEF AcceptUnlimited, AcquirePermit, Goto
      <3>3. config.limit # NoLimit => Cardinality(Tasks) < config.limit
        <4>1. CASE AcceptUnlimited(c)
          BY <4>1 DEF AcceptUnlimited, Unlimited
        <4>2. CASE AcquirePermit(c)
          <5>1. Cardinality(Tasks) \in Nat
            BY FS_CardinalityType DEF IInv
          <5>2. permits \in Nat /\ permits > 0
            BY <4>2 DEF AcquirePermit, IInv, TypeOK
          <5>3. QED
            BY <5>1, <5>2 DEF IInv, PermitsAccountForTasks, Unlimited
        <4>3. QED
          BY <2>2, <4>1, <4>2
      <3>4. Gate!Cardinality(Tasks) = Cardinality(Tasks)
        BY DEF Cardinality, Gate!Cardinality
      <3>5. Gate!Enter(c)
        BY <3>1, <3>2, <3>3, <3>4 DEF Gate!Enter, Gate!HasRoom
      <3>6. QED
        BY <3>5 DEF Gate!GateNext
    <2>3. CASE LoopStep
      <3>1. Tasks' = Tasks /\ config' = config
        BY <2>3, LoopStepPreserves
        DEF LoopStep, Bind, AcceptLimited, AcceptFails, ShutdownArm, Drained,
            ShutdownFires, vars
      <3>2. \/ loop' = loop
            \/ loop \in {"bind", "select"} /\ loop' \in {"select", "failed", "permit"}
            \/ loop = "select" /\ loop' = "draining"
            \/ loop = "draining" /\ loop' = "stopped" /\ Tasks = {}
        BY <2>3
        DEF LoopStep, Bind, AcceptLimited, AcceptFails, ShutdownArm, Drained,
            ShutdownFires, vars, Goto, IInv
      <3>3. QED
        BY <3>1, <3>2
        DEF Gate!gateVars, Gate!GateNext, Gate!BeginDrain, Gate!Stop
    <2>4. QED
      BY <2>1, <2>2, <2>3 DEF Next, LoopNext, LoopStep, Terminated
  <1>3. QED
    BY ConfigAssumption, <1>1, <1>2, Invariance, PTL DEF Spec, Gate!GateSafety
=============================================================================
