------------------------------ MODULE RetryLoop ------------------------------
(***************************************************************************)
(* What becomes of the deliveries of one work queue in one process, as the *)
(* futures of send_email and send_callback (services/rabbit.rs) and the    *)
(* closure around handle_message (lib.rs) chain them: no time, no broker,  *)
(* no remote service.  Notificator and RetryTiming both implement it.      *)
(***************************************************************************)
EXTENDS Naturals

CONSTANTS
  Length,  \* elements of the list of delays
  Unread   \* the queue is acknowledged unread ("pushes")

VARIABLES
  phase,   \* as in Notificator
  attempt  \* position in the list, 0 outside the loop

loopVars == <<phase, attempt>>

LoopInit == phase = "idle" /\ attempt = 0

Enter(p, k) == phase' = p /\ attempt' = k

\* A delivery is taken: ignored, rejected by `parse`, or sent.
Take ==
  /\ phase = "idle"
  /\ \/ Unread /\ Enter("acking", 0)
     \/ ~Unread /\ Enter("failed", 0)
     \/ ~Unread /\ Enter("sending", 1)

\* A failed attempt is followed by its own delay.
DelayNext == phase = "sending" /\ Enter("waiting", attempt)

\* A delay is followed by the next attempt, the last one by the error queue.
AttemptNext ==
  /\ phase = "waiting"
  /\ \/ attempt < Length /\ Enter("sending", attempt + 1)
     \/ attempt = Length /\ Enter("publishing", attempt)

\* A success, a failed timer and the end of a publication lead to the ack,
\* from where they happened.
HandlerOk ==
  /\ phase \in {"sending", "waiting", "publishing"}
  /\ Enter("acking", attempt)

\* The Timeout leads to the nack and forgets the position.
HandlerDropped ==
  /\ phase \in {"sending", "waiting", "publishing"}
  /\ Enter("failed", 0)

\* After the ack or the nack; or there is no task any more.
Leave == Enter("idle", 0)

LoopNext ==
  Take \/ DelayNext \/ AttemptNext \/ HandlerOk \/ HandlerDropped \/ Leave

LoopSpec == LoopInit /\ [][LoopNext]_loopVars
=============================================================================
