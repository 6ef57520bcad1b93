----------------------- MODULE ProcessLifecycleProofs ------------------------
(***************************************************************************)
(* Theorems about ProcessLifecycle, for any work queues, any number of     *)
(* connections of the API and any number of faults.                        *)
(***************************************************************************)
EXTENDS ProcessLifecycle, TLAPS

(***************************************************************************)
(* The inductive invariant: a process without its heartbeat has lost its   *)
(* link, for the heartbeat goes on as long as the handle is held           *)
(* (rabbit/r2d2.rs) and nothing but a lost link fails it.                  *)
(***************************************************************************)
HeartbeatTellsLink == (process = "up" /\ ~heartbeat) => link = "down"

LifecycleInv == LifecycleTypeOK /\ HeartbeatTellsLink

\* A connection of the API moves to a phase there is, and nothing else moves.
LEMMA MoveConnInv ==
  ASSUME LifecycleInv, NEW c \in Connections, NEW from, NEW to \in ConnPhases,
         MoveConn(c, from, to)
  PROVE  LifecycleInv'
BY DEF LifecycleInv, LifecycleTypeOK, HeartbeatTellsLink, MoveConn, taskVars

\* Every disjunct of a connection's steps is a move (api/mod.rs, call).
LEMMA ConnStepInv ==
  ASSUME LifecycleInv, NEW c \in Connections, AnswerStep(c) \/ ClientStep(c)
  PROVE  LifecycleInv'
<1>1. CASE AnswerStep(c)
  <2>1. StatusOf("Internal") = "500"
    BY DEF StatusOf
  <2>2. {"404", "500", "idle"} \subseteq ConnPhases
    BY DEF ConnPhases
  <2>3. CASE NotFound(c)
    BY <2>2, <2>3, MoveConnInv DEF NotFound
  <2>4. CASE InternalError(c)
    BY <2>1, <2>2, <2>4, MoveConnInv DEF InternalError
  <2>5. CASE Answered(c)
    BY <2>2, <2>5, MoveConnInv DEF Answered
  <2> QED BY <1>1, <2>3, <2>4, <2>5 DEF AnswerStep
<1>2. CASE ClientStep(c)
  <2>1. {"closed", "idle", "receiving", "received", "broken"} \subseteq ConnPhases
    BY DEF ConnPhases
  <2>2. CASE Accept(c)
    BY <2>1, <2>2, MoveConnInv DEF Accept
  <2>3. CASE Call(c)
    BY <2>1, <2>3, MoveConnInv DEF Call
  <2>4. CASE BodyArrives(c)
    BY <2>1, <2>4, MoveConnInv DEF BodyArrives
  <2>5. CASE BodyBreaks(c)
    BY <2>1, <2>5, MoveConnInv DEF BodyBreaks
  <2>6. CASE ClientGone(c)
    BY <2>1, <2>6, MoveConnInv DEF ClientGone
  <2> QED BY <1>2, <2>2, <2>3, <2>4, <2>5, <2>6 DEF ClientStep
<1> QED BY <1>1, <1>2

\* The tasks of start_server have just been spawned (lib.rs).
LEMMA LifecycleInitInv == LifecycleInit => LifecycleInv
<1> SUFFICES ASSUME LifecycleInit PROVE LifecycleInv
  OBVIOUS
<1>1. conn \in [Connections -> ConnPhases]
  BY DEF LifecycleInit, ConnPhases
<1>2. faults \in 0..MaxFaults
  BY LifecycleAssumption DEF LifecycleInit
<1>3. LifecycleTypeOK
  BY <1>1, <1>2 DEF LifecycleInit, LifecycleTypeOK
<1>4. HeartbeatTellsLink
  BY DEF LifecycleInit, HeartbeatTellsLink
<1> QED BY <1>3, <1>4 DEF LifecycleInv

\* The end of the process leaves a well-typed state.
LEMMA ExitInv ==
  ASSUME LifecycleInv, NEW k \in BOOLEAN, Exit(k), faults' \in 0..MaxFaults
  PROVE  LifecycleInv'
BY DEF LifecycleInv, LifecycleTypeOK, HeartbeatTellsLink, Exit, ConnPhases

\* Every step keeps the invariant.
LEMMA LifecycleStep == LifecycleInv /\ [LifecycleNext]_lifecycleVars => LifecycleInv'
<1> SUFFICES ASSUME LifecycleInv, [LifecycleNext]_lifecycleVars
             PROVE  LifecycleInv'
  OBVIOUS
<1>0. /\ faults \in 0..MaxFaults
      /\ Fault => faults' \in 0..MaxFaults
  BY LifecycleAssumption DEF LifecycleInv, LifecycleTypeOK, Fault
<1> USE DEF LifecycleInv, LifecycleTypeOK, HeartbeatTellsLink, taskVars
<1>1. ASSUME NEW q \in WorkQueues, ConsumerEnds(q)
      PROVE  LifecycleInv'
  BY <1>1 DEF ConsumerEnds
<1>2. CASE HeartbeatEnds
  BY <1>2 DEF HeartbeatEnds
<1>3. CASE ApiConfigFails
  BY <1>3 DEF ApiConfigFails
<1>4. CASE ApiBinds
  BY <1>4 DEF ApiBinds
<1>5. CASE ShutdownOnIdle
  BY <1>0, <1>5, ExitInv DEF ShutdownOnIdle
<1>6. CASE Restart
  BY <1>6 DEF Restart
<1>7. CASE PoolSpawned
  BY <1>7 DEF PoolSpawned
<1>8. ASSUME NEW c \in Connections, AnswerStep(c) \/ ClientStep(c)
      PROVE  LifecycleInv'
  BY <1>8, ConnStepInv
<1>9. CASE LinkLost
  BY <1>0, <1>9 DEF LinkLost
<1>10. ASSUME NEW q \in WorkQueues, ChannelClosed(q)
       PROVE  LifecycleInv'
  BY <1>0, <1>10 DEF ChannelClosed
<1>11. CASE ApiFails
  BY <1>0, <1>11 DEF ApiFails
<1>12. CASE Killed
  BY <1>0, <1>12, ExitInv DEF Killed
<1>13. CASE UNCHANGED lifecycleVars
  BY <1>13 DEF lifecycleVars
<1> QED BY <1>1, <1>2, <1>3, <1>4, <1>5, <1>6, <1>7, <1>8, <1>9, <1>10, <1>11,
           <1>12, <1>13 DEF LifecycleNext, RuntimeStep

\* The invariant of the process's life (lib.rs, api/mod.rs, rabbit/r2d2.rs).
THEOREM LifecycleInvariant == LifecycleSpec => []LifecycleInv
<1> QED BY LifecycleInitInv, LifecycleStep, PTL DEF LifecycleSpec

(***************************************************************************)
(* Every reachable state of a process is well typed; in particular, no     *)
(* error of the one route of the API is answered with a status other than  *)
(* those or_else of ApiService::call gives it.                             *)
(***************************************************************************)
THEOREM LifecycleTypeCorrect == LifecycleSpec => []LifecycleTypeOK
<1>1. LifecycleInv => LifecycleTypeOK
  BY DEF LifecycleInv
<1> QED BY <1>1, LifecycleInvariant, PTL

\* The one step at which a process ends by itself (shutdown_on_idle, lib.rs).
LEMMA OnlyIdleExits ==
  ASSUME LifecycleInv, [LifecycleNext]_lifecycleVars,
         process = "up", process' = "exited", ~killed'
  PROVE  ShutdownOnIdle
<1> USE DEF LifecycleInv, LifecycleTypeOK, taskVars
<1>1. \A q \in WorkQueues : ~ConsumerEnds(q) /\ ~ChannelClosed(q)
  BY DEF ConsumerEnds, ChannelClosed
<1>2. /\ ~HeartbeatEnds /\ ~ApiConfigFails /\ ~ApiBinds /\ ~ApiFails /\ ~Restart
      /\ ~PoolSpawned /\ ~LinkLost
  BY DEF HeartbeatEnds, ApiConfigFails, ApiBinds, ApiFails, Restart, PoolSpawned,
         LinkLost
<1>3. \A c \in Connections : ~AnswerStep(c) /\ ~ClientStep(c)
  BY DEF AnswerStep, NotFound, InternalError, Answered, ClientStep, Accept, Call,
         BodyArrives, BodyBreaks, ClientGone, MoveConn
<1>4. ~Killed
  BY DEF Killed, Exit
<1>5. ~UNCHANGED lifecycleVars
  BY DEF lifecycleVars
<1> QED BY <1>1, <1>2, <1>3, <1>4, <1>5 DEF LifecycleNext, RuntimeStep

(***************************************************************************)
(* A process ends by itself only with its link down, its API ended and     *)
(* left by every client, and its HTTP client never used: however many      *)
(* queues it has stopped consuming, it stays (shutdown_on_idle, lib.rs).   *)
(***************************************************************************)
THEOREM ExitsOnlyWhenIdleAlways == LifecycleSpec => ExitsOnlyWhenIdle
<1>1. LifecycleInv /\ [LifecycleNext]_lifecycleVars =>
        ((process = "up" /\ process' = "exited" /\ ~killed') =>
           /\ link = "down" /\ api = "ended" /\ ~pool
           /\ \A c \in Connections : conn[c] = "closed")
  BY OnlyIdleExits DEF LifecycleInv, HeartbeatTellsLink, ShutdownOnIdle, Idle
<1> QED BY <1>1, LifecycleInvariant, PTL DEF LifecycleSpec, ExitsOnlyWhenIdle
=============================================================================
