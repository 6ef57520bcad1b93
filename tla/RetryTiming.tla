---------------------------- MODULE RetryTiming -----------------------------
(***************************************************************************)
(* The time a task spends on one notification: the retry loop of           *)
(* send_email / send_callback with its list of delays, inside the Timeout  *)
(* start_server puts around handle_message, with the nack delay after it.  *)
(* Notificator leaves time out and lets the Timeout fire anywhere; this    *)
(* module says where it can fire, and what that leaves of the error queue. *)
(*                                                                         *)
(* Time is counted in seconds since handle_message was called.  A request  *)
(* or a publication takes any time in Latency, or never ends.  Every       *)
(* request fails or succeeds as the remote side likes.                     *)
(***************************************************************************)
EXTENDS Naturals, Sequences

CONSTANTS
  Delays,     \* the list of delays: 2, 4, ..., 2048 in the code
  Before,     \* Before[k]: the delays ahead of attempt k, added up
  Limits,     \* values of rabbit.restart_subscription_secs considered
  Latency,    \* durations of a request or a publication that ends
  MaxRounds   \* bound: how often the notification is delivered

Attempts == 1..Len(Delays)

ASSUME TimingAssumption ==
  /\ Delays \in Seq(Nat) /\ Delays # <<>>
  /\ Before \in [1..(Len(Delays) + 1) -> Nat]
  /\ Before[1] = 0
  /\ \A k \in Attempts : Before[k + 1] = Before[k] + Delays[k]
  /\ Limits \subseteq Nat
  /\ Latency \subseteq Nat
  /\ MaxRounds \in Nat \ {0}

\* All delays together; the error queue comes after the last of them.
TotalBackoff == Before[Len(Delays) + 1]

VARIABLES
  limit,    \* the configured timeout; read once, at the start
  phase,    \* "waiting", ... as in Notificator; "queued" before
            \* a delivery, "acked" at the end
  n,        \* number of the current attempt
  elapsed,  \* seconds since handle_message was called
  due,      \* when the Delay of the retry loop is over
  parked,   \* an error message was stored
  rounds    \* deliveries so far

timingVars == <<limit, phase, n, elapsed, due, parked, rounds>>

TimingPhases == {"sending", "waiting", "publishing", "acking", "failed",
                 "acked", "queued"}

InHandler == {"sending", "waiting", "publishing"}

TimingTypeOK ==
  /\ limit \in Limits
  /\ phase \in TimingPhases
  /\ n \in Attempts
  /\ elapsed \in Nat /\ due \in Nat
  /\ parked \in BOOLEAN
  /\ rounds \in 0..MaxRounds

\* The notification waits in its work queue.
TimingInit ==
  /\ limit \in Limits
  /\ phase = "queued" /\ n = 1 /\ elapsed = 0 /\ due = 0
  /\ parked = FALSE /\ rounds = 0

\* Mutant: the handler goes on where the previous one was dropped.
DeliveredGoesOn ==
  /\ phase = "queued" /\ rounds < MaxRounds
  /\ phase' = "sending" /\ elapsed' = 0 /\ due' = 0
  /\ rounds' = rounds + 1
  /\ UNCHANGED <<limit, n, parked>>

\* It is delivered, perhaps again, and polled: a new handler starts with the
\* first attempt, however many attempts the previous ones made.
Delivered ==
  /\ phase = "queued" /\ rounds < MaxRounds
  /\ phase' = "sending" /\ n' = 1 /\ elapsed' = 0 /\ due' = 0
  /\ rounds' = rounds + 1
  /\ UNCHANGED <<limit, parked>>

\* Mutant: no Timeout while the handler makes progress.
ReadyAnyTime(t) == elapsed' = t

\* The future the handler waits for is ready at time t, which the Timeout
\* still allows: Timeout::poll asks the handler before it looks at the clock.
ReadyAt(t) == t <= limit /\ elapsed' = t

\* The request succeeds and the loop ends.
RequestOk ==
  /\ phase = "sending"
  /\ \E l \in Latency : ReadyAt(elapsed + l)
  /\ phase' = "acking"
  /\ UNCHANGED <<limit, n, due, parked, rounds>>

\* Mutant: the Delay is counted from the start of the handler.
RequestFailsEarlyDue ==
  /\ phase = "sending"
  /\ \E l \in Latency : ReadyAt(elapsed + l)
  /\ due' = Delays[n]
  /\ phase' = "waiting"
  /\ UNCHANGED <<limit, n, parked, rounds>>

\* The request fails; Delay::new(Instant::now() + delay) starts.
RequestFails ==
  /\ phase = "sending"
  /\ \E l \in Latency : ReadyAt(elapsed + l) /\ due' = elapsed + l + Delays[n]
  /\ phase' = "waiting"
  /\ UNCHANGED <<limit, n, parked, rounds>>

\* Mutant: the end of the list is noticed one element too late.
NextAttemptPastEnd ==
  /\ phase = "waiting" /\ n <= Len(Delays)
  /\ ReadyAt(due)
  /\ phase' = "sending" /\ n' = n + 1
  /\ UNCHANGED <<limit, due, parked, rounds>>

\* The Delay is over and the next element of the list is taken.
NextAttempt ==
  /\ phase = "waiting" /\ n < Len(Delays)
  /\ ReadyAt(due)
  /\ phase' = "sending" /\ n' = n + 1
  /\ UNCHANGED <<limit, due, parked, rounds>>

\* Mutant: the error queue instead of the last delay.
LastDelaySkipped ==
  /\ phase = "waiting" /\ n = Len(Delays)
  /\ ReadyAt(elapsed)
  /\ phase' = "publishing"
  /\ UNCHANGED <<limit, n, due, parked, rounds>>

\* The Delay is over and the list is exhausted: publish to the error queue.
LastDelayOver ==
  /\ phase = "waiting" /\ n = Len(Delays)
  /\ ReadyAt(due)
  /\ phase' = "publishing"
  /\ UNCHANGED <<limit, n, due, parked, rounds>>

\* The error message is stored and confirmed, or it is not: the error is
\* logged and becomes Ok, so the handler is done either way.
Published ==
  /\ phase = "publishing"
  /\ \E l \in Latency : ReadyAt(elapsed + l)
  /\ \E stored \in BOOLEAN : parked' = (parked \/ stored)
  /\ phase' = "acking"
  /\ UNCHANGED <<limit, n, due, rounds>>

\* Mutant: no Timeout around a request.
TimeoutBetweenRequests ==
  /\ phase = "waiting" /\ due >= limit
  /\ elapsed' = limit
  /\ phase' = "failed"
  /\ UNCHANGED <<limit, n, due, parked, rounds>>

\* The Timeout elapses.  A request or a publication may always take that
\* long; a Delay only if it is due no earlier.
TimeoutElapses ==
  /\ phase \in InHandler
  /\ phase = "waiting" => due >= limit
  /\ elapsed' = limit
  /\ phase' = "failed"
  /\ UNCHANGED <<limit, n, due, parked, rounds>>

\* basic_ack: the notification is discharged.
TimingAck ==
  /\ phase = "acking"
  /\ phase' = "acked"
  /\ UNCHANGED <<limit, n, elapsed, due, parked, rounds>>

\* DELAY_BEFORE_NACK later basic_nack requeues the notification.
TimingNack ==
  /\ phase = "failed"
  /\ phase' = "queued"
  /\ UNCHANGED <<limit, n, elapsed, due, parked, rounds>>

TimingNext ==
  \/ RequestOk \/ RequestFails \/ NextAttempt \/ LastDelayOver \/ Published
  \/ TimeoutElapses \/ TimingAck \/ TimingNack \/ Delivered

TimingSpec == TimingInit /\ [][TimingNext]_timingVars

\* Timers fire and woken tasks are polled.  Nothing is assumed of the remote
\* service or the broker: a request may hang.
TimerFairness ==
  /\ WF_timingVars(NextAttempt \/ LastDelayOver \/ TimeoutElapses)
  /\ WF_timingVars(TimingAck)
  /\ WF_timingVars(TimingNack)

FairTimingSpec == TimingSpec /\ TimerFairness

-----------------------------------------------------------------------------
(***************************************************************************)
(* No attempt comes before all the delays ahead of it have passed, in the  *)
(* same handler, and a Delay that runs is due after its own as well.  This *)
(* is the strengthening the next property rests on.                        *)
(***************************************************************************)
BackoffSpent ==
  /\ phase \in {"sending", "waiting"} => elapsed >= Before[n]
  /\ phase = "waiting" => due >= Before[n + 1]
  /\ phase = "publishing" => elapsed >= TotalBackoff

(***************************************************************************)
(* A handler never outlives the configured timeout, so attempt k is made   *)
(* only if the delays ahead of it fit into the timeout.                    *)
(***************************************************************************)
AttemptsFit == phase \in InHandler => (elapsed <= limit /\ Before[n] <= limit)

(***************************************************************************)
(* An error message is stored only if the timeout is at least the sum of   *)
(* all delays, 4094 s, in spite of redelivery.  With the 30 s of           *)
(* config/development.toml and k8s/00-cm-pay-notifications.yml the error   *)
(* queues stay empty, and a notification that is always refused is retried *)
(* and requeued for ever.                                                  *)
(***************************************************************************)
ParkingNeedsTime == parked => limit >= TotalBackoff

\* Nothing is delivered; the task as the retry loop sees it.
Resting == phase \in {"acked", "queued"}

Loop == INSTANCE RetryLoop
  WITH Length <- Len(Delays),
       Unread <- FALSE,
       phase <- IF Resting THEN "idle" ELSE phase,
       attempt <- IF Resting \/ phase = "failed" THEN 0 ELSE n

(***************************************************************************)
(* The clock hinders steps of the retry loop and adds none: the task goes  *)
(* through the loop every task of Notificator goes through, and no         *)
(* redelivery goes on where the handler before it was dropped              *)
(* (lib.rs:131-150, services/rabbit.rs:117-144).                           *)
(***************************************************************************)
RunsTheLoop == Loop!LoopSpec

(***************************************************************************)
(* Every handler comes to an end (ack or nack) although a request may hang *)
(* for ever: the Timeout covers what the HTTP client does not.             *)
(***************************************************************************)
HandlerEnds == phase \in InHandler ~> phase \in {"acking", "failed"}
=============================================================================
