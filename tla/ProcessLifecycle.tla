-------------------------- MODULE ProcessLifecycle --------------------------
(***************************************************************************)
(* The life of one container after its startup: the tasks on the runtime   *)
(* of start_server (lib.rs), the API server among them (api/mod.rs), and   *)
(* shutdown_on_idle, which lets the process exit, and so be started again, *)
(* when none of them is left.  Notificator knows the consumer tasks from   *)
(* inside and only the violent end of a process; here is when a process    *)
(* ends by itself.                                                         *)
(***************************************************************************)
EXTENDS Naturals

CONSTANTS
  WorkQueues,   \* one consumer task each
  Connections,  \* slots for connections of API clients
  MaxFaults     \* bound: lost links, closed channels, API failures, kills

ASSUME LifecycleAssumption == MaxFaults \in Nat

VARIABLES
  process,    \* "up" or "exited"
  killed,     \* the last exit was none of the process's own doing
  link,       \* the one connection to RabbitMQ: "up" or "down"
  consumers,  \* queues whose for_each future is not resolved
  heartbeat,  \* the task that sends heartbeats is there
  pool,       \* the HTTP client has spawned a task for idle connections
  host,       \* config.server.host is an "address" or a "name"
  api,        \* api::server: "spawned", "serving", "ended"
  conn,       \* per slot: see ConnPhases
  faults      \* faults so far

lifecycleVars ==
  <<process, killed, link, consumers, heartbeat, pool, host, api, conn, faults>>

taskVars == <<consumers, heartbeat, pool, api>>

\* "idle": no request; "receiving": call reads the body, which ends
\* ("received") or fails ("broken"); "404", "500": that answer is written.
ConnPhases == {"closed", "idle", "receiving", "received", "broken", "404", "500"}

LifecycleTypeOK ==
  /\ process \in {"up", "exited"} /\ killed \in BOOLEAN
  /\ link \in {"up", "down"}
  /\ consumers \subseteq WorkQueues
  /\ heartbeat \in BOOLEAN /\ pool \in BOOLEAN
  /\ host \in {"address", "name"}
  /\ api \in {"spawned", "serving", "ended"}
  /\ conn \in [Connections -> ConnPhases]
  /\ faults \in 0..MaxFaults

\* start_server has just spawned its tasks.
LifecycleInit ==
  /\ process = "up" /\ killed = FALSE /\ link = "up"
  /\ consumers = WorkQueues /\ heartbeat = TRUE /\ pool = FALSE
  /\ host \in {"address", "name"} /\ api = "spawned"
  /\ conn = [c \in Connections |-> "closed"]
  /\ faults = 0

Fault == faults < MaxFaults /\ faults' = faults + 1

-----------------------------------------------------------------------------
(* RabbitMQ and the tasks that talk to it.                                 *)

LinkLost ==
  /\ process = "up" /\ link = "up" /\ Fault
  /\ link' = "down"
  /\ UNCHANGED <<process, killed, taskVars, host, conn>>

\* The broker closes the channel of one queue, or cancels its consumer.
ChannelClosed(q) ==
  /\ process = "up" /\ q \in consumers /\ Fault
  /\ consumers' = consumers \ {q}
  /\ UNCHANGED <<process, killed, link, heartbeat, pool, host, api, conn>>

\* The stream, an ack or a nack fails: for_each is resolved, map_err(|_| ()).
ConsumerEnds(q) ==
  /\ process = "up" /\ link = "down" /\ q \in consumers
  /\ consumers' = consumers \ {q}
  /\ UNCHANGED <<process, killed, link, heartbeat, pool, host, api, conn, faults>>

\* Mutant: the handle of the heartbeat is dropped after the startup, and
\* RabbitHeartbeatHandle::drop stops it.
HeartbeatHandleDropped ==
  /\ process = "up" /\ heartbeat
  /\ heartbeat' = FALSE
  /\ UNCHANGED <<process, killed, link, consumers, pool, host, api, conn, faults>>

\* Mutant: a heartbeat that failed is tried again.
HeartbeatGoesOn ==
  process = "up" /\ link = "down" /\ heartbeat /\ UNCHANGED lifecycleVars

\* The error is logged and that is all.  The handle is held until the exit.
HeartbeatEnds ==
  /\ process = "up" /\ link = "down" /\ heartbeat
  /\ heartbeat' = FALSE
  /\ UNCHANGED <<process, killed, link, consumers, pool, host, api, conn, faults>>

\* A handler's request leaves an idle connection behind: hyper's pool spawns
\* a task that ends with the last clone of the client.  start_server holds one,
\* in `fetcher`.
PoolSpawned ==
  /\ process = "up" /\ consumers # {} /\ ~pool
  /\ pool' = TRUE
  /\ UNCHANGED <<process, killed, link, consumers, heartbeat, host, api, conn, faults>>

-----------------------------------------------------------------------------
(* The API server.                                                         *)

\* ApiService::from_config takes an address, no name: the error is logged.
ApiConfigFails ==
  /\ process = "up" /\ api = "spawned" /\ host = "name"
  /\ api' = "ended"
  /\ UNCHANGED <<process, killed, link, consumers, heartbeat, pool, host, conn, faults>>

\* Server::bind.
ApiBinds ==
  /\ process = "up" /\ api = "spawned" /\ host = "address"
  /\ api' = "serving"
  /\ UNCHANGED <<process, killed, link, consumers, heartbeat, pool, host, conn, faults>>

\* Server::bind panics, which ends the task and nothing else, or the server
\* fails later; connections it has accepted are tasks of their own.
ApiFails ==
  /\ process = "up" /\ host = "address" /\ api # "ended" /\ Fault
  /\ api' = "ended"
  /\ UNCHANGED <<process, killed, link, consumers, heartbeat, pool, host, conn>>

MoveConn(c, from, to) ==
  /\ process = "up" /\ conn[c] = from
  /\ conn' = [conn EXCEPT ![c] = to]
  /\ UNCHANGED <<process, killed, link, taskVars, host, faults>>

\* What clients do.
Accept(c) == api = "serving" /\ MoveConn(c, "closed", "idle")
Call(c) == MoveConn(c, "idle", "receiving")
BodyArrives(c) == MoveConn(c, "receiving", "received")
BodyBreaks(c) == MoveConn(c, "receiving", "broken")
ClientGone(c) == \E p \in ConnPhases \ {"closed"} : MoveConn(c, p, "closed")

\* Mutant: every error is the client's.
StatusOfClient(kind) == "400"

\* or_else of ApiService::call, for every kind of error there is.
StatusOf(kind) ==
  CASE kind = "BadRequest" -> "400"
    [] kind = "Unauthorized" -> "401"
    [] kind = "NotFound" -> "404"
    [] kind = "UnprocessableEntity" -> "422"
    [] kind = "Internal" -> "500"

\* Mutant: the future of a failed request is never resolved.
ErrorUnanswered(c) == conn[c] = "broken" /\ UNCHANGED lifecycleVars

\* router! { _ => not_found } on whatever was received, ...
NotFound(c) == MoveConn(c, "received", "404")

\* ... read_body failed: ErrorSource::Hyper, ErrorKind::Internal.
InternalError(c) == MoveConn(c, "broken", StatusOf("Internal"))

\* The response is written.  Its body is in memory, so the second read_body, which
\* `call` needs for its log line, cannot fail.
Answered(c) == \E p \in {"404", "500"} : MoveConn(c, p, "idle")

-----------------------------------------------------------------------------
(* The end of the process, and the next one.                               *)

\* No consumer, no publication, no connection of the API: spawned futures.
Idle ==
  /\ consumers = {} /\ ~heartbeat /\ ~pool /\ api = "ended"
  /\ \A c \in Connections : conn[c] = "closed"

Exit(k) ==
  /\ process = "up"
  /\ process' = "exited" /\ killed' = k
  /\ link' = "down" /\ consumers' = {} /\ heartbeat' = FALSE /\ pool' = FALSE
  /\ api' = "ended" /\ conn' = [c \in Connections |-> "closed"]
  /\ UNCHANGED host

\* rt.shutdown_on_idle().wait()
ShutdownOnIdle == Idle /\ Exit(FALSE) /\ UNCHANGED faults

Killed == Exit(TRUE) /\ Fault

\* Kubernetes starts the container again, with the same configuration, and
\* its startup (module Startup) succeeds.
Restart ==
  /\ process = "exited"
  /\ process' = "up" /\ link' = "up"
  /\ consumers' = WorkQueues /\ heartbeat' = TRUE /\ pool' = FALSE /\ api' = "spawned"
  /\ UNCHANGED <<killed, host, conn, faults>>

\* What the runtime does with a task that can go on.
RuntimeStep ==
  \/ (\E q \in WorkQueues : ConsumerEnds(q)) \/ HeartbeatEnds
  \/ ApiConfigFails \/ ApiBinds \/ ShutdownOnIdle \/ Restart

AnswerStep(c) == NotFound(c) \/ InternalError(c) \/ Answered(c)

ClientStep(c) == Accept(c) \/ Call(c) \/ BodyArrives(c) \/ BodyBreaks(c) \/ ClientGone(c)

LifecycleNext ==
  \/ RuntimeStep \/ PoolSpawned
  \/ \E c \in Connections : AnswerStep(c) \/ ClientStep(c)
  \/ LinkLost \/ (\E q \in WorkQueues : ChannelClosed(q)) \/ ApiFails \/ Killed

LifecycleSpec == LifecycleInit /\ [][LifecycleNext]_lifecycleVars

\* Tokio polls what was woken, and Kubernetes starts what has exited.
FairLifecycleSpec ==
  /\ LifecycleSpec /\ WF_lifecycleVars(RuntimeStep)
  /\ \A c \in Connections : WF_lifecycleVars(AnswerStep(c))

-----------------------------------------------------------------------------
(***************************************************************************)
(* A process that has lost its connection to RabbitMQ, and whose API has   *)
(* ended, exits and is started again: every task of the lost connection    *)
(* ends, and shutdown_on_idle returns.  It takes that API clients hang up  *)
(* some day, for nothing ends their connections, and that the HTTP client  *)
(* has no task for its pool.                                               *)
(***************************************************************************)
OutageHeals ==
  (\A c \in Connections : []<>(conn[c] = "closed")) =>
    ((process = "up" /\ link = "down" /\ api = "ended") ~> (process = "exited" \/ pool))

(***************************************************************************)
(* And only then: a process whose API serves, whose link is up - though    *)
(* the broker may have closed every channel -, whose HTTP client was used, *)
(* or whose API has a connection never ends by itself, whatever it has     *)
(* stopped consuming.                                                      *)
(***************************************************************************)
ExitsOnlyWhenIdle ==
  [][(process = "up" /\ process' = "exited" /\ ~killed') =>
       /\ link = "down" /\ api = "ended" /\ ~pool
       /\ \A c \in Connections : conn[c] = "closed"]_lifecycleVars

(***************************************************************************)
(* Every request whose body has come or has failed is answered, or its     *)
(* client has gone; an outage of RabbitMQ and the end of the API's accept  *)
(* loop make no difference to it.                                          *)
(***************************************************************************)
RequestsAnswered ==
  \A c \in Connections :
    (conn[c] \in {"received", "broken"}) ~> (conn[c] \in {"idle", "closed"})
=============================================================================
